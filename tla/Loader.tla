------------------------------- MODULE Loader -------------------------------
(***************************************************************************)
(* The loader of src/loader.cpp: one call of StreamMovies, LoadMovies,     *)
(* load_movies or for_each_movie (include/imdb/Loader.h), one action per   *)
(* line of the file, named after the way the loop body leaves it.          *)
(*                                                                         *)
(* A line is Blank (empty once StripTrailingCR and StripBom have run) or a *)
(* record of what the loop tells apart:                                    *)
(*   columns    the columns as written, one more than the tabs             *)
(*   endsInTab  whether its last column is written empty                   *)
(*   titleType  column 1                                                   *)
(*   bad        the columns BuildMovie refuses: a missing tconst, a number *)
(*              that does not parse or is out of range                     *)
(*   rating, votes  the numbers in columns 9 and 10                        *)
(* A movie is named by the number of its line, so equal rows stay apart.   *)
(***************************************************************************)
EXTENDS Integers, Sequences, FiniteSets

CONSTANTS
  Files,       \* what getline delivers of a file, as sequences of lines
  NoFile,      \* a path that cannot be opened
  Blank,       \* an empty line
  Calls,       \* the calls made: records [api, opts], see CallAssumption
  NaN,         \* the rating a text like "nan" parses to
  Float(_),    \* static_cast<float> of a parsed double
  VoteModulus, \* 2^32: ParseUint32 keeps a number modulo this
  Unset        \* "no value": a call that has not returned, a null function

Apis == {"StreamMovies", "LoadMovies", "load_movies", "for_each_movie"}

\* What a line holds, as far as it is computed with; a text like "nan" is a NaN.
IsFile(f) ==
  /\ Len(f) \in Nat /\ DOMAIN f = 1..Len(f)
  /\ \A n \in 1..Len(f) :
       f[n] # Blank =>
         /\ f[n].columns \in Int /\ f[n].votes \in Int
         /\ Float(f[n].rating) \in Int \union {NaN}

\* LoadOptions; types = {} keeps all types, progress_every = Unset stands for a
\* null on_progress.  load_movies and for_each_movie leave the rest at default.
IsCall(c) ==
  /\ c.api \in Apis
  /\ c.opts.min_rating \in Int /\ c.opts.min_votes \in Int
  /\ c.opts.skip_header \in BOOLEAN
  /\ c.opts.progress_every \in Int \union {Unset}
  /\ c.api \in {"load_movies", "for_each_movie"} =>
       /\ c.opts.types = {} /\ c.opts.skip_header /\ c.opts.progress_every = Unset
       /\ c.opts.min_rating = Float(c.opts.min_rating) /\ c.opts.min_votes >= 0

ASSUME FileAssumption == \A f \in Files : IsFile(f)
ASSUME CallAssumption == \A c \in Calls : IsCall(c)
ASSUME VoteAssumption == VoteModulus \in Nat \ {0}

VARIABLES
  file, call,     \* the arguments
  pc,             \* "open", "reading", "ending", "replaying", "returned", "threw"
  pos,            \* lines read by getline
  first_line,     \* the local first_line
  since_progress, \* the local since_progress
  local,          \* the LoadStats of this call
  stats,          \* the caller's LoadStats, Unset before the call
  visited,        \* movies given to the visitor of the stream, by line number
  replayed,       \* for_each_movie: movies of the sink given to cb
  refusals,       \* for_each_movie: how often cb has answered false
  reports,        \* on_progress calls, as pairs <<rows_seen, rows_kept>>
  result          \* the value returned by load_movies and for_each_movie

vars == <<file, call, pc, pos, first_line, since_progress, local, stats, visited,
          replayed, refusals, reports, result>>

opts == call.opts
ZeroStats == [rows_seen |-> 0, rows_kept |-> 0, parse_errors |-> 0, aborted |-> FALSE]

Init ==
  /\ file \in Files \union {NoFile} /\ call \in Calls
  /\ pc = "open"
  /\ pos = 0 /\ first_line = FALSE /\ since_progress = 0
  /\ local = ZeroStats /\ stats = Unset
  /\ visited = <<>> /\ replayed = <<>> /\ refusals = 0 /\ reports = <<>>
  /\ result = Unset

-----------------------------------------------------------------------------
\* What the loop computes from one row.

\* fields.size(), as TsvSplit!PlainSplit shows.
FieldCount(r) == IF r.endsInTab THEN r.columns ELSE r.columns + 1

TypeAllowed(r) == opts.types = {} \/ r.titleType \in opts.types

ColumnOf == [tconst |-> 0, startYear |-> 5, runtimeMinutes |-> 7,
             averageRating |-> 9, numVotes |-> 10]

\* BuildMovie returns true: no column that it reads is refused.
Builds(r) == \A c \in r.bad : ColumnOf[c] >= FieldCount(r)

\* The two numbers as Movie stores them; a column that is not written, or only
\* as the additional empty field, is missing and counts as 0.
Rating(r) == IF r.columns > 9 THEN Float(r.rating) ELSE 0

Votes(r) == IF r.columns > 10 THEN r.votes % VoteModulus ELSE 0

\* Neither threshold makes the loop skip the row.  No number is below a NaN.
Keeps(r) ==
  /\ ~(opts.min_rating > 0 /\ Rating(r) # NaN /\ Rating(r) < opts.min_rating)
  /\ ~(opts.min_votes > 0 /\ Votes(r) < opts.min_votes)

-----------------------------------------------------------------------------
\* The call.

Throws == {"StreamMovies", "LoadMovies"}

\* The file cannot be opened.  load_movies returns 0; for_each_movie has an empty
\* sink to iterate over and returns the same 0.
OpenFails ==
  /\ pc = "open" /\ file = NoFile
  /\ IF call.api \in Throws
     THEN pc' = "threw" /\ UNCHANGED result
     ELSE pc' = "returned" /\ result' = 0
  /\ UNCHANGED <<file, call, pos, first_line, since_progress, local, stats, visited,
                 replayed, refusals, reports>>

Open ==
  /\ pc = "open" /\ file # NoFile
  /\ pc' = "reading"
  /\ first_line' = opts.skip_header
  /\ UNCHANGED <<file, call, pos, since_progress, local, stats, visited, replayed,
                 refusals, reports, result>>

\* Mutants of NextLine: the condition of the loop reads a line too; the loop counts
\* in the caller's LoadStats.
NextLineTwice ==
  /\ pc = "reading" /\ pos < Len(file)
  /\ pos' = pos + 2 /\ UNCHANGED <<file, call, stats, replayed, refusals, result>>

NextLineShared ==
  /\ pc = "reading" /\ pos < Len(file)
  /\ pos' = pos + 1 /\ stats' = local /\ UNCHANGED <<file, call, replayed, refusals, result>>

\* getline reads the next line and the body goes on to the next iteration.
NextLine ==
  /\ pc = "reading" /\ pos < Len(file)
  /\ pos' = pos + 1
  /\ UNCHANGED <<file, call, stats, replayed, refusals, result>>

Line == file[pos + 1]

SkipBlank ==
  /\ NextLine
  /\ Line = Blank
  /\ UNCHANGED <<pc, first_line, since_progress, local, visited, reports>>

ConsumeHeader ==
  /\ NextLine
  /\ Line # Blank /\ first_line
  /\ first_line' = FALSE
  /\ UNCHANGED <<pc, since_progress, local, visited, reports>>

\* Mutant of Row: the header is not skipped.
RowOrHeader == NextLine /\ Line # Blank /\ UNCHANGED first_line

\* A data row: every way on from here has counted it.
Row == NextLine /\ Line # Blank /\ ~first_line /\ UNCHANGED first_line

Saw == [local EXCEPT !.rows_seen = @ + 1]

RejectUnparsed ==
  /\ Row
  /\ FieldCount(Line) < 9 \/ (TypeAllowed(Line) /\ ~Builds(Line))
  /\ local' = [Saw EXCEPT !.parse_errors = @ + 1]
  /\ UNCHANGED <<pc, since_progress, visited, reports>>

RejectFiltered ==
  /\ Row
  /\ FieldCount(Line) >= 9
  /\ ~TypeAllowed(Line) \/ (Builds(Line) /\ ~Keeps(Line))
  /\ local' = Saw
  /\ UNCHANGED <<pc, since_progress, visited, reports>>

\* Mutant of Progress: the counter is not reset by a report.
ProgressNoReset(seen, kept) ==
  IF opts.progress_every # Unset /\ opts.progress_every > 0
  THEN /\ since_progress' = since_progress + 1
       /\ reports' = (IF since_progress' >= opts.progress_every
                      THEN Append(reports, <<seen, kept>>) ELSE reports)
  ELSE UNCHANGED <<since_progress, reports>>

\* The report after every progress_every-th kept row.
Progress(seen, kept) ==
  IF opts.progress_every # Unset /\ opts.progress_every > 0
  THEN IF since_progress + 1 >= opts.progress_every
       THEN since_progress' = 0 /\ reports' = Append(reports, <<seen, kept>>)
       ELSE since_progress' = since_progress + 1 /\ UNCHANGED reports
  ELSE UNCHANGED <<since_progress, reports>>

\* The visitor of StreamMovies may stop the stream, the one that collects into a
\* vector does not; any visitor may throw.
Answers == IF call.api = "StreamMovies" THEN {"go_on", "stop", "throw"} ELSE {"go_on", "throw"}

\* Mutant of AfterVisit: the answer of the visitor is ignored.
GoesOnAnyway(answer) == pc

\* Where the loop goes from the visitor.
AfterVisit(answer) ==
  CASE answer = "go_on" -> pc
    [] answer = "stop" -> "ending"
    [] answer = "throw" -> "threw"

Keep(answer) ==
  /\ Row
  /\ FieldCount(Line) >= 9 /\ TypeAllowed(Line) /\ Builds(Line) /\ Keeps(Line)
  /\ visited' = Append(visited, pos + 1)
  /\ local' = [Saw EXCEPT !.rows_kept = @ + 1, !.aborted = answer = "stop"]
  /\ pc' = AfterVisit(answer)
  /\ IF answer = "go_on" THEN Progress(local'.rows_seen, local'.rows_kept)
     ELSE UNCHANGED <<since_progress, reports>>

\* getline delivers no more lines: the end of the file, or an error that ends the
\* loop in the same way.
EndOfFile ==
  /\ pc = "reading" /\ pos = Len(file)
  /\ pc' = "ending"
  /\ UNCHANGED <<file, call, pos, first_line, since_progress, local, stats, visited,
                 replayed, refusals, reports, result>>

\* The last report, and what the public functions do behind StreamMoviesImpl: the
\* thin ones return how many movies they have collected.
Finish ==
  /\ pc = "ending"
  /\ reports' = (IF opts.progress_every # Unset
                 THEN Append(reports, <<local.rows_seen, local.rows_kept>>) ELSE reports)
  /\ stats' = (IF call.api \in Throws THEN local ELSE stats)
  /\ result' = (IF call.api \in Throws THEN result ELSE Len(visited))
  /\ pc' = (IF call.api = "for_each_movie" THEN "replaying" ELSE "returned")
  /\ UNCHANGED <<file, call, pos, first_line, since_progress, local, visited, replayed,
                 refusals>>

\* for_each_movie gives the sink to its callback, which may stop the loop or throw.
Replay(answer) ==
  /\ pc = "replaying" /\ Len(replayed) < Len(visited)
  /\ replayed' = Append(replayed, visited[Len(replayed) + 1])
  /\ refusals' = (IF answer = "stop" THEN refusals + 1 ELSE refusals)
  /\ pc' = CASE answer = "go_on" -> pc
             [] answer = "stop" -> "returned"
             [] answer = "throw" -> "threw"
  /\ UNCHANGED <<file, call, pos, first_line, since_progress, local, stats, visited,
                 reports, result>>

\* Mutant of SinkEmpty: the loop over the sink leaves the last movie out.
SinkAtLast == Len(replayed) + 1 >= Len(visited)

\* The end of the loop over the sink.
SinkEmpty == Len(replayed) = Len(visited)

ReplayEnds ==
  /\ pc = "replaying" /\ SinkEmpty
  /\ pc' = "returned"
  /\ UNCHANGED <<file, call, pos, first_line, since_progress, local, stats, visited,
                 replayed, refusals, reports, result>>

Returned == pc \in {"returned", "threw"} /\ UNCHANGED vars

Next ==
  \/ OpenFails \/ Open
  \/ SkipBlank \/ ConsumeHeader
  \/ RejectUnparsed \/ RejectFiltered
  \/ \E answer \in Answers : Keep(answer)
  \/ EndOfFile \/ Finish
  \/ \E answer \in {"go_on", "stop", "throw"} : Replay(answer)
  \/ ReplayEnds
  \/ Returned

Spec == Init /\ [][Next]_vars

-----------------------------------------------------------------------------
\* What a file holds, said without the loop.

\* The data rows among the first n lines: not blank, and not the header.
DataRows(n) ==
  {m \in 1..n : /\ file[m] # Blank
                /\ opts.skip_header => \E h \in 1..(m - 1) : file[h] # Blank}

\* A row that is counted as a parse error.
Erroneous(r) == FieldCount(r) < 9 \/ (TypeAllowed(r) /\ ~Builds(r))

\* A row that is kept: it has the nine columns, its type is allowed, its numbers
\* parse, and what Movie stores of it reaches the thresholds that are set.
Wanted(r) ==
  /\ ~Erroneous(r) /\ TypeAllowed(r)
  /\ opts.min_rating <= 0 \/ Rating(r) = NaN \/ Rating(r) >= opts.min_rating
  /\ opts.min_votes <= 0 \/ Votes(r) >= opts.min_votes

WantedRows(n) == {m \in DataRows(n) : Wanted(file[m])}

InOrder(S) ==
  CHOOSE s \in [1..Cardinality(S) -> S] :
    \A m, n \in DOMAIN s : m < n => s[m] < s[n]

-----------------------------------------------------------------------------
\* The kind of value each variable holds.
TypeOK ==
  /\ pc \in {"open", "reading", "ending", "replaying", "returned", "threw"}
  /\ pos \in 0..(IF file = NoFile THEN 0 ELSE Len(file))
  /\ first_line \in BOOLEAN /\ since_progress \in Nat
  /\ local \in [rows_seen : Nat, rows_kept : Nat, parse_errors : Nat, aborted : BOOLEAN]
  /\ stats \in {Unset, local} /\ result \in Nat \union {Unset}
  /\ visited \in Seq(1..pos) /\ replayed \in Seq(1..pos) /\ reports \in Seq(Nat \X Nat)
  /\ refusals \in Nat

\* At every line the counters are those of the lines read so far: the blank lines
\* and the header count for nothing, a malformed row of an unwanted type is no
\* parse error, and rows of the three kinds are counted once.
StatsMatchPrefix ==
  file # NoFile =>
    /\ local.rows_seen = Cardinality(DataRows(pos))
    /\ local.rows_kept = Cardinality(WantedRows(pos))
    /\ local.parse_errors = Cardinality({m \in DataRows(pos) : Erroneous(file[m])})

\* Reports before the last one come at every progress_every-th kept row, the last
\* one, made once, equals the returned counters.  A row at which the visitor
\* stopped is counted but causes no report of its own.
ReportsMatchStats ==
  pc = "returned" /\ file # NoFile /\ opts.progress_every # Unset =>
    LET every == opts.progress_every
        early == IF every > 0 \* reports before the last
                 THEN (local.rows_kept - (IF local.aborted THEN 1 ELSE 0)) \div every ELSE 0
    IN  /\ Len(reports) = early + 1
        /\ \A n \in 1..early : reports[n][2] = n * every
        /\ reports[early + 1] = <<stats.rows_seen, stats.rows_kept>>

\* load_movies and for_each_movie return the number of rows that match in the
\* whole file.  for_each_movie gives its callback the first of them, in file order,
\* and none behind one that it has refused; a return without a refusal means that
\* the callback was given all of them.
CountsWholeFile ==
  pc \in {"replaying", "returned"} /\ call.api \notin Throws =>
    /\ result = IF file = NoFile THEN 0 ELSE Cardinality(WantedRows(Len(file)))
    /\ replayed = SubSeq(visited, 1, Len(replayed))
    /\ pc = "replaying" => refusals = 0
    /\ pc = "returned" /\ call.api = "for_each_movie" /\ refusals = 0 /\ file # NoFile =>
         {replayed[n] : n \in 1..Len(replayed)} = WantedRows(Len(file))

\* A caller's LoadStats is written once, when the stream has ended: a call that
\* throws, in the open or out of the visitor, leaves it as it was.
StatsWrittenAtEnd == [][stats' # stats => pc' = "returned" /\ stats' = local']_vars

\* The loader implements MovieStream: the movies are the lines that are wanted.
Stream == INSTANCE MovieStream WITH
  Rows <- Nat,
  todo <- IF file = NoFile THEN <<>> ELSE InOrder(WantedRows(Len(file)) \ WantedRows(pos)),
  given <- visited,
  status <- CASE pc \in {"open", "reading"} -> "open"
              [] pc \notin {"open", "reading"} /\ file = NoFile -> "failed"
              [] pc \notin {"open", "reading"} /\ file # NoFile ->
                   CASE pc = "threw" /\ replayed = <<>> -> "failed"
                     [] local.aborted -> "stopped"
                     [] OTHER -> "ended"
StreamSpec == Stream!Spec

-----------------------------------------------------------------------------
\* What comments of the repository say and the code does not do.

\* loader.cpp:19: "Lines with fewer than 9 columns are skipped and counted as parse
\* errors."
ShortRowsAreErrors ==
  file # NoFile =>
    local.parse_errors >= Cardinality({m \in DataRows(pos) : file[m].columns < 9})

=============================================================================
