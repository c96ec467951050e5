------------------------------ MODULE Command ------------------------------
(***************************************************************************)
(* The whole program imdb-topk: main of src/cli.cpp (Cli), which calls the *)
(* single-threaded top_k of include/imdb/TopK.h, which streams the file    *)
(* (Loader) into a bounded heap (BoundedHeap) ordered by operator< of      *)
(* Movie.h (Movie).  One thread runs it all; the steps of a component are  *)
(* the component's own actions.                                            *)
(*                                                                         *)
(* A line is a record of Loader that also has the three columns which only *)
(* the ranking reads: startYear, title, tconst.  A movie is the pair of    *)
(* its line number and its line.                                           *)
(***************************************************************************)
EXTENDS Cli, SequencesExt

CONSTANTS
  Contents, \* what a file can hold when it is opened: sequences of lines
  NoFile, Blank, NaN, Float(_), Unset \* as in Loader

VARIABLES
  topk,    \* "idle", "start", "streaming", "draining", "returned", "threw"
  file, stream, pos, first_line, local, stats, visited, \* as in Loader; stream is its pc
  heap,    \* the movies in the heap
  rows     \* the vector that top_k returns

loaderVars == <<file, stream, pos, first_line, local, stats, visited>>
commandVars == <<vars, topk, loaderVars, heap, rows>>

\* The call of StreamMovies in top_k, with no type filter and no on_progress.
CallWith(votes, rating) ==
  [api |-> "StreamMovies",
   opts |-> [min_votes |-> votes, min_rating |-> rating, types |-> {}, skip_header |-> TRUE,
             progress_every |-> Unset]]

\* Mutant of Call: main swaps the two thresholds.
CallSwapped == CallWith(opts.min_rating, opts.min_votes)
Call == CallWith(opts.min_votes, opts.min_rating)

Stream == INSTANCE Loader WITH
  Files <- Contents, Calls <- {}, call <- Call, pc <- stream,
  since_progress <- 0, replayed <- <<>>, refusals <- 0, reports <- <<>>, result <- 0

Movie == INSTANCE Movie WITH Ratings <- {}, Votes <- {}, Years <- {}, Titles <- {}, Keys <- {}

\* What BuildMovie stores of a line, and operator< on it.
Built(r) ==
  [rating |-> Stream!Rating(r), num_votes |-> Stream!Votes(r),
   start_year |-> r.startYear, primary_title |-> r.title, tconst |-> r.tconst]

\* What can be opened is a file; its lines have the columns that the ranking reads.
ASSUME ContentsAssumption ==
  /\ NoFile \notin Contents
  /\ \A f \in Contents :
       /\ Stream!IsFile(f)
       /\ \A n \in 1..Len(f) :
            f[n] # Blank => {f[n].startYear, f[n].title, f[n].tconst} \subseteq Int

\* As in TopK, no rating is a NaN.
ASSUME RatingAssumption ==
  /\ NaN \notin Int
  /\ \A f \in Contents : \A n \in 1..Len(f) : f[n] # Blank => Float(f[n].rating) # NaN

BetterLine(x, y) == Movie!Better(Built(x[2]), Built(y[2]))

Heap == INSTANCE BoundedHeap WITH Better <- BetterLine

CommandInit ==
  /\ Init
  /\ topk = "idle" /\ file = NoFile /\ stream = "open"
  /\ pos = 0 /\ first_line = FALSE /\ visited = <<>>
  /\ local = Stream!ZeroStats /\ stats = Stream!ZeroStats
  /\ heap = {} /\ rows = <<>>

\* A step of main or top_k that is none of the loader's.
TopKStep(from, to) == topk = from /\ topk' = to /\ UNCHANGED <<vars, loaderVars>>

\* ParseArgs and the help text.
ParseStep == ParseArgs /\ UNCHANGED <<topk, loaderVars, heap, rows>>

\* main calls top_k.  What the path names is settled here: nothing else opens it.
CallTopK ==
  /\ Run
  /\ topk' = "start"
  /\ file' \in IF opts.data \in Readable THEN Contents ELSE {NoFile}
  /\ UNCHANGED <<stream, pos, first_line, local, stats, visited, heap, rows>>

\* k == 0: the file is not opened, and the counters stay 0.
ReturnNothing == TopKStep("start", "returned") /\ opts.top_k = 0 /\ UNCHANGED <<heap, rows>>

ReserveThrows ==
  /\ TopKStep("start", "threw") /\ opts.top_k > MaxReserve
  /\ UNCHANGED <<heap, rows>>

Start ==
  /\ TopKStep("start", "streaming") /\ opts.top_k \in 1..MaxReserve
  /\ UNCHANGED <<heap, rows>>

StreamThrows ==
  /\ topk = "streaming" /\ UNCHANGED vars
  /\ Stream!OpenFails
  /\ topk' = "threw" /\ UNCHANGED <<heap, rows>>

\* A step of the loop of StreamMovies that calls no visitor.
Read ==
  /\ topk = "streaming" /\ UNCHANGED vars
  /\ \/ Stream!Open \/ Stream!SkipBlank \/ Stream!ConsumeHeader
     \/ Stream!RejectUnparsed \/ Stream!RejectFiltered \/ Stream!EndOfFile
  /\ UNCHANGED <<topk, heap, rows>>

\* The visitor, which never stops the stream.
Visit ==
  /\ topk = "streaming" /\ UNCHANGED vars
  /\ Stream!Keep("go_on")
  /\ heap' \in Heap!Offered(opts.top_k, heap, <<pos + 1, file[pos + 1]>>)
  /\ UNCHANGED <<topk, rows>>

EndStream ==
  /\ topk = "streaming" /\ UNCHANGED vars
  /\ Stream!Finish
  /\ topk' = "draining" /\ UNCHANGED <<heap, rows>>

\* rows.push_back(heap.pop_value())
Drain ==
  /\ TopKStep("draining", "draining")
  /\ \E m \in Heap!Worst(heap) : heap' = heap \ {m} /\ rows' = Append(rows, m)

ReverseRows ==
  /\ TopKStep("draining", "returned") /\ heap = {}
  /\ rows' = Reverse(rows) /\ UNCHANGED heap

\* Mutant of Catch: the handler falls through to the end of main.
CatchFallsThrough ==
  /\ topk = "threw" /\ pc = "running" /\ Exit(0)
  /\ UNCHANGED <<topk, loaderVars, heap, rows>>

\* The handler around top_k.
Catch ==
  /\ topk = "threw" /\ pc = "running" /\ Exit(1)
  /\ UNCHANGED <<topk, loaderVars, heap, rows>>

\* The summary and the table, whose text is not modelled: the summary has opts and
\* stats, and the table is rows.
PrintTable ==
  /\ topk = "returned" /\ pc = "running" /\ Exit(0)
  /\ UNCHANGED <<topk, loaderVars, heap, rows>>

CommandStopped == Stopped /\ UNCHANGED commandVars

CommandNext ==
  \/ ParseStep \/ CallTopK
  \/ ReturnNothing \/ ReserveThrows \/ Start
  \/ StreamThrows \/ Read \/ Visit \/ EndStream
  \/ Drain \/ ReverseRows
  \/ Catch \/ PrintTable
  \/ CommandStopped

\* The program has one thread, and the system runs it.
CommandSpec == CommandInit /\ [][CommandNext]_commandVars /\ WF_commandVars(CommandNext)

-----------------------------------------------------------------------------
\* The kind of value the variables of top_k hold, and the bound of the heap.
CommandTypeOK ==
  /\ TypeOK
  /\ topk \in {"idle", "start", "streaming", "draining", "returned", "threw"}
  /\ pos \in 0..(IF file = NoFile THEN 0 ELSE Len(file))
  /\ stream \in {"open", "reading", "ending", "returned", "threw"}
  /\ Cardinality(heap) <= opts.top_k /\ Len(rows) <= opts.top_k
  /\ \A m \in heap \union Range(rows) : m[1] \in 1..pos /\ m[2] = file[m[1]]

\* The promise of the command line, cli.cpp:5-10, from the arguments to the table.
Told(flag, default) == IF Uses({flag}) = {} THEN default ELSE ParsedNumber(Given(flag))
ToldTop == Told("--top", DefaultTop) % SizeModulus
ToldCall ==
  CallWith((Told("--min-votes", DefaultVotes) % SizeModulus) % VoteModulus,
           Told("--min-rating", 0))

Asked == INSTANCE Loader WITH
  Files <- Contents, Calls <- {}, call <- ToldCall, pc <- stream,
  since_progress <- 0, replayed <- <<>>, refusals <- 0, reports <- <<>>, result <- 0

\* The rows of the file that are data, malformed, and wanted, by line number.
AskedData == Asked!DataRows(Len(file))
AskedErrors == {n \in AskedData : Asked!Erroneous(file[n])}
AskedRows == Asked!WantedRows(Len(file))

Best == INSTANCE Selection WITH
  Rows <- {}, Bounds <- {}, Better <- BetterLine,
  k <- ToldTop, input <- {}, phase <- "asked", answer <- <<>>

\* A program that exits with 0 and was not asked for help has printed the best N
\* of the movies of the file that pass the thresholds, best first, and counted its
\* rows: N and the thresholds are what the last use of each flag says, or the
\* default.  For N = 0 it has printed nothing and counted nothing.
TableAnswers ==
  pc = "exited" /\ code = 0 /\ Uses(HelpFlags) = {} =>
    IF ToldTop = 0 THEN rows = <<>> /\ stats = Stream!ZeroStats
    ELSE /\ file # NoFile
         /\ Best!IsBestOf(rows, {<<n, file[n]>> : n \in AskedRows})
         /\ stats = [rows_seen |-> Cardinality(AskedData), rows_kept |-> Cardinality(AskedRows),
                     parse_errors |-> Cardinality(AskedErrors), aborted |-> FALSE]

\* The program does to its arguments and its exit code what Cli says: top_k throws
\* and returns exactly when Cli lets it.
CliSpec == Spec

\* Every command line and every file come to an end.
ProgramEnds == <>(pc \in {"exited", "terminated"})
=============================================================================
