---------------------------- MODULE LoaderProofs ----------------------------
(***************************************************************************)
(* Proofs about Loader, for files, calls and numbers of any size: the      *)
(* counters are those of the lines read so far, the visitor is given the   *)
(* wanted rows in file order, each once, and the progress reports and the  *)
(* results say how many.  What a loop iteration does to the counters is    *)
(* proved for the set of data rows among the first n lines; that set grows *)
(* by one row or none with each line.                                      *)
(***************************************************************************)
EXTENDS Loader, FiniteSetTheorems, SequenceTheorems, WellFoundedInduction, TLAPS

-----------------------------------------------------------------------------
\* The inductive invariant.

\* The arguments are some that can be passed.
ArgumentsOK == IsCall(call) /\ (file # NoFile => IsFile(file))

\* Before the file is open, and if it cannot be opened, nothing has happened.
Unopened ==
  /\ pc = "open" \/ file = NoFile =>
       /\ pos = 0 /\ visited = <<>> /\ replayed = <<>> /\ reports = <<>>
       /\ since_progress = 0 /\ local = ZeroStats /\ stats = Unset
  /\ file = NoFile => pc = "open" \/ pc = (IF call.api \in Throws THEN "threw" ELSE "returned")

\* The header is awaited as long as there were blank lines only.
HeaderInv ==
  pc # "open" /\ file # NoFile =>
    (first_line <=> opts.skip_header /\ \A n \in 1..pos : file[n] = Blank)

\* The visitor has been given the wanted rows in file order, each once.
Delivered ==
  file # NoFile =>
    /\ Len(visited) = local.rows_kept
    /\ \A m, n \in 1..Len(visited) : m < n => visited[m] < visited[n]
    /\ \A r \in 1..pos : r \in WantedRows(pos) <=> \E n \in 1..Len(visited) : visited[n] = r

\* Whether rows are reported, and the kept rows that count towards a report.
Reporting == opts.progress_every # Unset /\ opts.progress_every > 0
Countable == local.rows_kept - (IF local.aborted THEN 1 ELSE 0)

\* A report for each full progress_every rows, and the rest of them in the counter.
ProgressInv ==
  pc \in {"reading", "ending"} =>
    IF Reporting
    THEN /\ Countable = opts.progress_every * Len(reports) + since_progress
         /\ since_progress < opts.progress_every
         /\ \A n \in 1..Len(reports) : reports[n][2] = n * opts.progress_every
    ELSE reports = <<>>

\* What is known of the end of the stream, and of the results.
EndInv ==
  /\ pc \in {"reading", "ending"} => stats = Unset /\ replayed = <<>>
  /\ pc \in {"replaying", "threw"} => stats = Unset
  /\ pc \in {"reading", "threw"} => ~local.aborted
  /\ local.aborted => call.api = "StreamMovies"
  /\ pc \in {"ending", "replaying", "returned"} /\ file # NoFile =>
       local.aborted \/ pos = Len(file)
  /\ pc = "replaying" => call.api = "for_each_movie"
  /\ pc = "returned" /\ call.api \in Throws => stats = local
  /\ Len(replayed) <= Len(visited) /\ replayed = SubSeq(visited, 1, Len(replayed))
  /\ pc # "returned" => refusals = 0
  /\ pc = "returned" /\ call.api = "for_each_movie" /\ refusals = 0 => replayed = visited

\* The loop: all that concerns neither the reports nor the result.
LocalOK ==
  /\ pos \in 0..(IF file = NoFile THEN 0 ELSE Len(file))
  /\ first_line \in BOOLEAN /\ visited \in Seq(1..pos)
  /\ local \in [rows_seen : Nat, rows_kept : Nat, parse_errors : Nat, aborted : BOOLEAN]

LoopInv == ArgumentsOK /\ LocalOK /\ HeaderInv /\ StatsMatchPrefix /\ Delivered

Inv ==
  /\ TypeOK /\ LoopInv /\ Unopened /\ ProgressInv /\ EndInv
  /\ ReportsMatchStats /\ CountsWholeFile

-----------------------------------------------------------------------------
\* The rows among the first n lines.

\* Line n is a data row.
IsRow(n) == file[n] # Blank /\ (opts.skip_header => \E h \in 1..(n - 1) : file[h] # Blank)

ErrorRows(n) == {m \in DataRows(n) : Erroneous(file[m])}

\* There are finitely many of them.
LEMMA RowsFinite ==
  ASSUME NEW n \in Nat
  PROVE  /\ DataRows(n) \subseteq 1..n /\ WantedRows(n) \subseteq DataRows(n)
         /\ IsFiniteSet(DataRows(n)) /\ IsFiniteSet(WantedRows(n)) /\ IsFiniteSet(ErrorRows(n))
<1>1. DataRows(n) \subseteq 1..n /\ WantedRows(n) \subseteq DataRows(n)
      /\ ErrorRows(n) \subseteq DataRows(n)
  BY DEF DataRows, WantedRows, ErrorRows
<1>2. IsFiniteSet(1..n)
  BY FS_Interval
<1> QED BY <1>1, <1>2, FS_Subset

\* A line that is no row adds none, of any kind.
LEMMA NoRowAdded ==
  ASSUME NEW n \in Nat, ~IsRow(n + 1)
  PROVE  /\ DataRows(n + 1) = DataRows(n) /\ WantedRows(n + 1) = WantedRows(n)
         /\ ErrorRows(n + 1) = ErrorRows(n)
<1>1. DataRows(n + 1) = {m \in 1..(n + 1) : IsRow(m)} /\ DataRows(n) = {m \in 1..n : IsRow(m)}
  BY DEF DataRows, IsRow
<1>2. \A m : m \in 1..(n + 1) <=> m \in 1..n \/ m = n + 1
  OBVIOUS
<1>3. DataRows(n + 1) = DataRows(n)
  BY <1>1, <1>2
<1> QED BY <1>3 DEF WantedRows, ErrorRows

\* A row adds itself to the data rows, and to those of its kind.
LEMMA RowAdded ==
  ASSUME NEW n \in Nat, IsRow(n + 1)
  PROVE  /\ DataRows(n + 1) = DataRows(n) \union {n + 1} /\ n + 1 \notin DataRows(n)
         /\ WantedRows(n + 1) =
              IF Wanted(file[n + 1]) THEN WantedRows(n) \union {n + 1} ELSE WantedRows(n)
         /\ ErrorRows(n + 1) =
              IF Erroneous(file[n + 1]) THEN ErrorRows(n) \union {n + 1} ELSE ErrorRows(n)
<1>1. DataRows(n + 1) = {m \in 1..(n + 1) : IsRow(m)} /\ DataRows(n) = {m \in 1..n : IsRow(m)}
  BY DEF DataRows, IsRow
<1>2. (\A m : m \in 1..(n + 1) <=> m \in 1..n \/ m = n + 1) /\ n + 1 \notin 1..n
  OBVIOUS
<1>3. DataRows(n + 1) = DataRows(n) \union {n + 1} /\ n + 1 \notin DataRows(n)
  BY <1>1, <1>2
<1> QED BY <1>3 DEF WantedRows, ErrorRows

\* So the numbers of rows grow by one or not at all.
LEMMA RowCounted ==
  ASSUME NEW n \in Nat, IsRow(n + 1)
  PROVE  /\ Cardinality(DataRows(n + 1)) = Cardinality(DataRows(n)) + 1
         /\ Cardinality(WantedRows(n + 1)) =
              Cardinality(WantedRows(n)) + (IF Wanted(file[n + 1]) THEN 1 ELSE 0)
         /\ Cardinality(ErrorRows(n + 1)) =
              Cardinality(ErrorRows(n)) + (IF Erroneous(file[n + 1]) THEN 1 ELSE 0)
         /\ {Cardinality(WantedRows(n)), Cardinality(ErrorRows(n))} \subseteq Nat
<1>1. /\ DataRows(n + 1) = DataRows(n) \union {n + 1} /\ n + 1 \notin DataRows(n)
      /\ n + 1 \notin WantedRows(n) /\ n + 1 \notin ErrorRows(n)
  BY RowAdded DEF WantedRows, ErrorRows
<1>2. IsFiniteSet(DataRows(n)) /\ IsFiniteSet(WantedRows(n)) /\ IsFiniteSet(ErrorRows(n))
  BY RowsFinite
<1>3. /\ Cardinality(DataRows(n)) \in Nat /\ Cardinality(WantedRows(n)) \in Nat
      /\ Cardinality(ErrorRows(n)) \in Nat
  BY <1>2, FS_CardinalityType
<1>4. /\ Cardinality(DataRows(n) \union {n + 1}) = Cardinality(DataRows(n)) + 1
      /\ Cardinality(WantedRows(n) \union {n + 1}) = Cardinality(WantedRows(n)) + 1
      /\ Cardinality(ErrorRows(n) \union {n + 1}) = Cardinality(ErrorRows(n)) + 1
  BY <1>1, <1>2, FS_AddElement
<1>5. Cardinality(WantedRows(n + 1)) =
        Cardinality(WantedRows(n)) + (IF Wanted(file[n + 1]) THEN 1 ELSE 0)
  <2>1. CASE Wanted(file[n + 1])
    <3>1. WantedRows(n + 1) = WantedRows(n) \union {n + 1}
      BY <2>1, RowAdded
    <3> QED BY <1>4, <2>1, <3>1
  <2>2. CASE ~Wanted(file[n + 1])
    <3>1. WantedRows(n + 1) = WantedRows(n)
      BY <2>2, RowAdded
    <3> QED BY <1>3, <2>2, <3>1
  <2> QED BY <2>1, <2>2
<1>6. Cardinality(ErrorRows(n + 1)) =
        Cardinality(ErrorRows(n)) + (IF Erroneous(file[n + 1]) THEN 1 ELSE 0)
  <2>1. CASE Erroneous(file[n + 1])
    <3>1. ErrorRows(n + 1) = ErrorRows(n) \union {n + 1}
      BY <2>1, RowAdded
    <3> QED BY <1>4, <2>1, <3>1
  <2>2. CASE ~Erroneous(file[n + 1])
    <3>1. ErrorRows(n + 1) = ErrorRows(n)
      BY <2>2, RowAdded
    <3> QED BY <1>3, <2>2, <3>1
  <2> QED BY <2>1, <2>2
<1> QED BY <1>1, <1>3, <1>4, <1>5, <1>6, RowAdded

\* Which lines are rows and what is in them depends on the arguments alone.
LEMMA RowsStay ==
  ASSUME UNCHANGED <<file, call>>
  PROVE  /\ \A r : (Wanted(r)' <=> Wanted(r)) /\ (Erroneous(r)' <=> Erroneous(r))
         /\ DataRows(pos)' = DataRows(pos')
         /\ WantedRows(pos)' = WantedRows(pos')
         /\ ErrorRows(pos)' = ErrorRows(pos')
         /\ WantedRows(Len(file))' = WantedRows(Len(file))
<1>1. opts' = opts
  BY DEF opts
<1>2. \A r : Erroneous(r)' <=> Erroneous(r)
  BY <1>1 DEF Erroneous, FieldCount, TypeAllowed, Builds
<1>3. \A r : Wanted(r)' <=> Wanted(r)
  <2>1. \A r : (TypeAllowed(r)' <=> TypeAllowed(r)) /\ Rating(r)' = Rating(r) /\ Votes(r)' = Votes(r)
    BY <1>1 DEF TypeAllowed, Rating, Votes
  <2> QED BY <1>1, <1>2, <2>1 DEF Wanted
<1>4. DataRows(pos)' = DataRows(pos') /\ DataRows(Len(file))' = DataRows(Len(file))
  BY <1>1 DEF DataRows
<1> QED BY <1>2, <1>3, <1>4 DEF WantedRows, ErrorRows

-----------------------------------------------------------------------------
\* One iteration of the loop.

\* A sequence over a set is one over a larger set.
LEMMA Widened ==
  ASSUME NEW A, NEW B, A \subseteq B, NEW s \in Seq(A)
  PROVE  s \in Seq(B)
<1>1. s \in [1..Len(s) -> B] /\ Len(s) \in Nat
  OBVIOUS
<1> QED BY <1>1, SeqDef

\* The next line is a row exactly if the loop counts it.
LEMMA LineIsRow ==
  ASSUME LoopInv, file # NoFile, pc = "reading", pos < Len(file)
  PROVE  /\ pos \in Nat /\ pos + 1 \in 1..Len(file) /\ Len(file) \in Nat
         /\ IsRow(pos + 1) <=> Line # Blank /\ ~first_line
<1>1. pos \in 0..Len(file) /\ Len(file) \in Nat /\ first_line \in BOOLEAN
  BY DEF LoopInv, LocalOK, ArgumentsOK, IsFile
<1>2. first_line <=> opts.skip_header /\ \A n \in 1..pos : file[n] = Blank
  BY DEF LoopInv, HeaderInv
<1>3. 1..((pos + 1) - 1) = 1..pos
  BY <1>1
<1> QED BY <1>1, <1>2, <1>3 DEF IsRow, Line

\* The loop keeps the rows that are wanted: of a row that is counted nothing else is
\* asked.  Thresholds that are not set, and ratings that are no numbers, exclude none.
LEMMA KeptIsWanted ==
  ASSUME ArgumentsOK, file # NoFile, NEW n \in 1..Len(file), file[n] # Blank
  PROVE  LET r == file[n] IN
         /\ FieldCount(r) \in Int
         /\ Wanted(r) <=> FieldCount(r) >= 9 /\ TypeAllowed(r) /\ Builds(r) /\ Keeps(r)
<1> DEFINE r == file[n]
<1>1. /\ r.columns \in Int /\ r.votes \in Int /\ Float(r.rating) \in Int \union {NaN}
      /\ opts.min_rating \in Int /\ opts.min_votes \in Int
  BY DEF ArgumentsOK, IsFile, IsCall, opts
<1>2. FieldCount(r) \in Int
  BY <1>1 DEF FieldCount
<1>3. Rating(r) \in Int \union {NaN}
  BY <1>1 DEF Rating
<1>4. Votes(r) \in Int
  BY <1>1, VoteAssumption DEF Votes
<1>5. Erroneous(r) <=> ~(FieldCount(r) >= 9 /\ (TypeAllowed(r) => Builds(r)))
  BY <1>2 DEF Erroneous
<1>6. Keeps(r) <=> /\ opts.min_rating <= 0 \/ Rating(r) = NaN \/ Rating(r) >= opts.min_rating
                   /\ opts.min_votes <= 0 \/ Votes(r) >= opts.min_votes
  BY <1>1, <1>3, <1>4 DEF Keeps
<1> QED BY <1>2, <1>5, <1>6 DEF Wanted

\* An iteration that passes over its line.
LEMMA SkipInv ==
  ASSUME LoopInv, file # NoFile, SkipBlank \/ ConsumeHeader
  PROVE  LoopInv' /\ WantedRows(pos)' = WantedRows(pos)
<1>1. /\ pc = "reading" /\ pos < Len(file) /\ pos' = pos + 1 /\ file' = file /\ call' = call
      /\ pc' = pc /\ local' = local /\ visited' = visited
      /\ \/ Line = Blank /\ first_line' = first_line
         \/ Line # Blank /\ first_line /\ first_line' = FALSE
  <2>1. CASE SkipBlank
    BY <2>1 DEF SkipBlank, NextLine
  <2>2. CASE ConsumeHeader
    BY <2>2 DEF ConsumeHeader, NextLine
  <2> QED BY <2>1, <2>2
<1>2. pos \in Nat /\ pos + 1 \in 1..Len(file) /\ Len(file) \in Nat /\ ~IsRow(pos + 1)
  BY <1>1, LineIsRow
<1>3. /\ DataRows(pos)' = DataRows(pos) /\ WantedRows(pos)' = WantedRows(pos)
      /\ ErrorRows(pos)' = ErrorRows(pos)
  BY <1>1, <1>2, NoRowAdded, RowsStay
<1>4. ArgumentsOK'
  BY <1>1 DEF LoopInv, ArgumentsOK
<1>5. LocalOK'
  <2>1. visited' \in Seq(1..pos')
    <3>1. visited \in Seq(1..pos) /\ 1..pos \subseteq 1..pos'
      BY <1>1, <1>2 DEF LoopInv, LocalOK
    <3> QED BY <1>1, <3>1, Widened
  <2>2. first_line' \in BOOLEAN
    BY <1>1 DEF LoopInv, LocalOK
  <2>3. pos' \in 0..Len(file)
    BY <1>1, <1>2
  <2> QED BY <1>1, <2>1, <2>2, <2>3 DEF LoopInv, LocalOK
<1>6. HeaderInv'
  <2>1. \A n : n \in 1..pos' <=> n \in 1..pos \/ n = pos + 1
    BY <1>1, <1>2
  <2>2. first_line <=> opts.skip_header /\ \A n \in 1..pos : file[n] = Blank
    BY <1>1 DEF LoopInv, HeaderInv
  <2>3. opts' = opts /\ Line = file[pos + 1]
    BY <1>1 DEF opts, Line
  <2> QED BY <1>1, <2>1, <2>2, <2>3 DEF HeaderInv
<1>7. StatsMatchPrefix'
  BY <1>1, <1>3 DEF LoopInv, StatsMatchPrefix, ErrorRows
<1>8. Delivered'
  <2>1. \A n \in 1..Len(visited) : visited[n] \in 1..pos
    BY DEF LoopInv, LocalOK
  <2>2. WantedRows(pos) \subseteq 1..pos
    BY <1>2, RowsFinite
  <2>3. (\A r : r \in 1..pos' <=> r \in 1..pos \/ r = pos + 1) /\ pos + 1 \notin 1..pos
    BY <1>1, <1>2
  <2> QED BY <1>1, <1>3, <2>1, <2>2, <2>3 DEF LoopInv, Delivered
<1> QED BY <1>3, <1>4, <1>5, <1>6, <1>7, <1>8 DEF LoopInv

\* What every iteration does that counts its row.
LEMMA RowInv ==
  ASSUME LoopInv, file # NoFile, Row, pc' \in {"reading", "ending", "threw"}
  PROVE  /\ pos \in Nat /\ pos' = pos + 1 /\ pos + 1 \in 1..Len(file) /\ Line = file[pos + 1]
         /\ Line # Blank /\ IsRow(pos + 1) /\ UNCHANGED <<file, call>>
         /\ ArgumentsOK' /\ HeaderInv' /\ first_line' \in BOOLEAN
         /\ pos' \in 0..(IF file' = NoFile THEN 0 ELSE Len(file'))
<1>1. /\ pc = "reading" /\ pos < Len(file) /\ pos' = pos + 1 /\ file' = file /\ call' = call
      /\ Line # Blank /\ ~first_line /\ first_line' = first_line
  BY DEF Row, NextLine
<1>2. pos \in Nat /\ pos + 1 \in 1..Len(file) /\ Len(file) \in Nat /\ IsRow(pos + 1)
  BY <1>1, LineIsRow
<1>3. Line = file[pos + 1]
  BY DEF Line
<1>4. ArgumentsOK'
  BY <1>1 DEF LoopInv, ArgumentsOK
<1>5. first_line' \in BOOLEAN
  BY <1>1 DEF LoopInv, LocalOK
<1>6. pos' \in 0..Len(file)
  BY <1>1, <1>2
<1>7. HeaderInv'
  <2>1. \A n : n \in 1..pos' <=> n \in 1..pos \/ n = pos + 1
    BY <1>1, <1>2
  <2>2. first_line <=> opts.skip_header /\ \A n \in 1..pos : file[n] = Blank
    BY <1>1 DEF LoopInv, HeaderInv
  <2>3. opts' = opts
    BY <1>1 DEF opts
  <2> QED BY <1>1, <1>3, <2>1, <2>2, <2>3 DEF HeaderInv
<1> QED BY <1>1, <1>2, <1>3, <1>4, <1>5, <1>6, <1>7

\* An iteration that counts its row and does not keep it.
LEMMA RejectInv ==
  ASSUME LoopInv, file # NoFile, RejectUnparsed \/ RejectFiltered
  PROVE  LoopInv' /\ WantedRows(pos)' = WantedRows(pos)
<1>1. /\ Row /\ pc' = pc /\ pc = "reading" /\ visited' = visited
      /\ \/ /\ FieldCount(Line) < 9 \/ (TypeAllowed(Line) /\ ~Builds(Line))
            /\ local' = [Saw EXCEPT !.parse_errors = @ + 1]
         \/ /\ FieldCount(Line) >= 9
            /\ ~TypeAllowed(Line) \/ (Builds(Line) /\ ~Keeps(Line))
            /\ local' = Saw
  <2>1. CASE RejectUnparsed
    BY <2>1 DEF RejectUnparsed, Row, NextLine
  <2>2. CASE RejectFiltered
    BY <2>2 DEF RejectFiltered, Row, NextLine
  <2> QED BY <2>1, <2>2
<1>2. /\ pos \in Nat /\ pos' = pos + 1 /\ pos + 1 \in 1..Len(file) /\ Line = file[pos + 1]
      /\ Line # Blank /\ IsRow(pos + 1) /\ UNCHANGED <<file, call>>
      /\ ArgumentsOK' /\ HeaderInv' /\ first_line' \in BOOLEAN
      /\ pos' \in 0..(IF file' = NoFile THEN 0 ELSE Len(file'))
  BY <1>1, RowInv
<1>3. /\ FieldCount(Line) \in Int
      /\ Wanted(Line) <=> FieldCount(Line) >= 9 /\ TypeAllowed(Line) /\ Builds(Line) /\ Keeps(Line)
  BY <1>2, KeptIsWanted DEF LoopInv
<1>4. ~Wanted(Line)
  BY <1>1, <1>3
<1>5. local' = [rows_seen |-> local.rows_seen + 1, rows_kept |-> local.rows_kept,
                parse_errors |-> local.parse_errors + (IF Erroneous(Line) THEN 1 ELSE 0),
                aborted |-> local.aborted]
  <2>1. Erroneous(Line) <=> FieldCount(Line) < 9 \/ (TypeAllowed(Line) /\ ~Builds(Line))
    BY DEF Erroneous
  <2>2. local \in [rows_seen : Nat, rows_kept : Nat, parse_errors : Nat, aborted : BOOLEAN]
    BY DEF LoopInv, LocalOK
  <2>3. CASE Erroneous(Line)
    <3>1. local' = [Saw EXCEPT !.parse_errors = @ + 1]
      BY <1>1, <1>3, <2>1, <2>3
    <3> QED BY <2>2, <2>3, <3>1 DEF Saw
  <2>4. CASE ~Erroneous(Line)
    <3>1. local' = Saw
      BY <1>1, <1>3, <2>1, <2>4
    <3> QED BY <2>2, <2>4, <3>1 DEF Saw
  <2> QED BY <2>3, <2>4
<1>6. /\ WantedRows(pos)' = WantedRows(pos)
      /\ Cardinality(DataRows(pos))' = Cardinality(DataRows(pos)) + 1
      /\ Cardinality(ErrorRows(pos))' =
           Cardinality(ErrorRows(pos)) + (IF Erroneous(Line) THEN 1 ELSE 0)
  <2>1. WantedRows(pos + 1) = WantedRows(pos)
    BY <1>2, <1>4, RowAdded
  <2> QED BY <1>2, <2>1, RowCounted, RowsStay
<1>7. StatsMatchPrefix'
  BY <1>5, <1>6 DEF LoopInv, StatsMatchPrefix, ErrorRows, LocalOK
<1>8. LocalOK'
  <2>1. 1..pos \subseteq 1..pos'
    BY <1>2
  <2>2. visited' \in Seq(1..pos')
    BY <1>1, <2>1, Widened DEF LoopInv, LocalOK
  <2>3. local' \in [rows_seen : Nat, rows_kept : Nat, parse_errors : Nat, aborted : BOOLEAN]
    <3>1. local \in [rows_seen : Nat, rows_kept : Nat, parse_errors : Nat, aborted : BOOLEAN]
      BY DEF LoopInv, LocalOK
    <3> QED BY <1>5, <3>1
  <2> QED BY <1>2, <2>2, <2>3 DEF LocalOK
<1>9. Delivered'
  <2>1. \A n \in 1..Len(visited) : visited[n] \in 1..pos
    BY DEF LoopInv, LocalOK
  <2>2. WantedRows(pos) \subseteq 1..pos
    BY <1>2, RowsFinite
  <2>3. (\A r : r \in 1..pos' <=> r \in 1..pos \/ r = pos + 1) /\ pos + 1 \notin 1..pos
    BY <1>2
  <2>4. local'.rows_kept = local.rows_kept
    BY <1>5 DEF LoopInv, LocalOK
  <2> QED BY <1>1, <1>2, <1>6, <2>1, <2>2, <2>3, <2>4 DEF LoopInv, Delivered
<1> QED BY <1>2, <1>6, <1>7, <1>8, <1>9 DEF LoopInv

\* An iteration that keeps its row and gives it to the visitor.
LEMMA KeepInv ==
  ASSUME LoopInv, file # NoFile, NEW answer \in {"go_on", "stop", "throw"}, Keep(answer)
  PROVE  /\ LoopInv'
         /\ WantedRows(pos)' = WantedRows(pos) \union {pos + 1} /\ pos + 1 \notin WantedRows(pos)
         /\ local' = [rows_seen |-> local.rows_seen + 1, rows_kept |-> local.rows_kept + 1,
                       parse_errors |-> local.parse_errors, aborted |-> answer = "stop"]
<1>1. /\ Row /\ pc = "reading" /\ pc' \in {"reading", "ending", "threw"}
      /\ FieldCount(Line) >= 9 /\ TypeAllowed(Line) /\ Builds(Line) /\ Keeps(Line)
      /\ visited' = Append(visited, pos + 1)
      /\ local' = [Saw EXCEPT !.rows_kept = @ + 1, !.aborted = answer = "stop"]
  BY DEF Keep, Row, NextLine, AfterVisit
<1>2. /\ pos \in Nat /\ pos' = pos + 1 /\ pos + 1 \in 1..Len(file) /\ Line = file[pos + 1]
      /\ Line # Blank /\ IsRow(pos + 1) /\ UNCHANGED <<file, call>>
      /\ ArgumentsOK' /\ HeaderInv' /\ first_line' \in BOOLEAN
      /\ pos' \in 0..(IF file' = NoFile THEN 0 ELSE Len(file'))
  BY <1>1, RowInv
<1>3. Wanted(Line) /\ ~Erroneous(Line)
  <2>1. Wanted(Line)
    BY <1>1, <1>2, KeptIsWanted DEF LoopInv
  <2> QED BY <2>1 DEF Wanted
<1>4. local' = [rows_seen |-> local.rows_seen + 1, rows_kept |-> local.rows_kept + 1,
                parse_errors |-> local.parse_errors, aborted |-> answer = "stop"]
  BY <1>1 DEF Saw, LoopInv, LocalOK
<1>5. /\ WantedRows(pos)' = WantedRows(pos) \union {pos + 1} /\ pos + 1 \notin WantedRows(pos)
      /\ Cardinality(DataRows(pos))' = Cardinality(DataRows(pos)) + 1
      /\ Cardinality(WantedRows(pos))' = Cardinality(WantedRows(pos)) + 1
      /\ Cardinality(ErrorRows(pos))' = Cardinality(ErrorRows(pos))
  <2>1. WantedRows(pos + 1) = WantedRows(pos) \union {pos + 1} /\ pos + 1 \notin WantedRows(pos)
    BY <1>2, <1>3, RowAdded DEF WantedRows
  <2>2. Cardinality(ErrorRows(pos)) \in Nat
    BY <1>2, RowCounted
  <2> QED BY <1>2, <1>3, <2>1, <2>2, RowCounted, RowsStay
<1>6. StatsMatchPrefix'
  BY <1>4, <1>5 DEF LoopInv, StatsMatchPrefix, ErrorRows, LocalOK
<1>7. 1..pos \subseteq 1..pos' /\ pos + 1 \in 1..pos' /\ visited \in Seq(1..pos)
  BY <1>2 DEF LoopInv, LocalOK
<1>8. visited \in Seq(1..pos')
  BY <1>7, Widened
<1>9. /\ visited' \in Seq(1..pos') /\ Len(visited') = Len(visited) + 1 /\ Len(visited) \in Nat
      /\ visited'[Len(visited) + 1] = pos + 1
      /\ \A n \in 1..Len(visited) : visited'[n] = visited[n]
  BY <1>1, <1>7, <1>8, AppendProperties
<1>10. LocalOK'
  <2>1. local' \in [rows_seen : Nat, rows_kept : Nat, parse_errors : Nat, aborted : BOOLEAN]
    <3>1. local \in [rows_seen : Nat, rows_kept : Nat, parse_errors : Nat, aborted : BOOLEAN]
      BY DEF LoopInv, LocalOK
    <3> QED BY <1>4, <3>1
  <2> QED BY <1>2, <1>9, <2>1 DEF LocalOK
<1>11. Delivered'
  <2>1. \A n \in 1..Len(visited) : visited[n] \in 1..pos /\ visited[n] < pos + 1
    BY <1>2, <1>7
  <2>2. \A n : n \in 1..Len(visited') <=> n \in 1..Len(visited) \/ n = Len(visited) + 1
    BY <1>9
  <2>3. Len(visited') = local'.rows_kept
    BY <1>4, <1>9 DEF LoopInv, LocalOK, Delivered
  <2>4. \A m, n \in 1..Len(visited') : m < n => visited'[m] < visited'[n]
    <3> SUFFICES ASSUME NEW m \in 1..Len(visited'), NEW n \in 1..Len(visited'), m < n
                 PROVE  visited'[m] < visited'[n]
      OBVIOUS
    <3>1. m \in 1..Len(visited)
      BY <1>9
    <3>2. CASE n \in 1..Len(visited)
      BY <1>9, <3>1, <3>2 DEF LoopInv, Delivered
    <3>3. CASE n = Len(visited) + 1
      BY <1>9, <2>1, <3>1, <3>3
    <3> QED BY <2>2, <3>2, <3>3
  <2>5. (\A r : r \in 1..pos' <=> r \in 1..pos \/ r = pos + 1) /\ pos + 1 \notin 1..pos
    BY <1>2
  <2>6. \A r \in 1..pos' :
          r \in WantedRows(pos) \union {pos + 1} <=> \E n \in 1..Len(visited') : visited'[n] = r
    <3>1. \A r \in 1..pos : r \in WantedRows(pos) <=> \E n \in 1..Len(visited) : visited[n] = r
      BY DEF LoopInv, Delivered
    <3> QED BY <1>9, <2>1, <2>2, <2>5, <3>1
  <2> QED BY <1>5, <2>3, <2>4, <2>6 DEF Delivered
<1> QED BY <1>2, <1>4, <1>5, <1>6, <1>10, <1>11 DEF LoopInv

-----------------------------------------------------------------------------
\* The whole call.

\* It holds before the file is opened.
LEMMA InitInv == Init => Inv
<1> SUFFICES ASSUME Init PROVE Inv
  OBVIOUS
<1>1. /\ pc = "open" /\ pos = 0 /\ first_line = FALSE /\ since_progress = 0
      /\ local = [rows_seen |-> 0, rows_kept |-> 0, parse_errors |-> 0, aborted |-> FALSE]
      /\ stats = Unset /\ visited = <<>> /\ replayed = <<>> /\ reports = <<>> /\ result = Unset
      /\ refusals = 0
  BY DEF Init, ZeroStats
<1>2. ArgumentsOK
  BY FileAssumption, CallAssumption DEF Init, ArgumentsOK
<1>3. file # NoFile => Len(file) \in Nat
  BY <1>2 DEF ArgumentsOK, IsFile
<1>4. LocalOK
  <2>1. pos \in 0..(IF file = NoFile THEN 0 ELSE Len(file)) /\ visited \in Seq(1..pos)
    BY <1>1, <1>3
  <2> QED BY <1>1, <2>1 DEF LocalOK
<1>5. TypeOK
  BY <1>1, <1>3, <1>4 DEF LocalOK, TypeOK
<1>6. /\ DataRows(0) = {} /\ WantedRows(0) = {} /\ ErrorRows(0) = {} /\ Cardinality({}) = 0
  BY FS_EmptySet DEF DataRows, WantedRows, ErrorRows
<1>7. StatsMatchPrefix /\ HeaderInv
  BY <1>1, <1>6 DEF StatsMatchPrefix, ErrorRows, HeaderInv
<1>8. Delivered
  BY <1>1 DEF Delivered
<1>9. Unopened /\ ProgressInv /\ ReportsMatchStats /\ CountsWholeFile
  BY <1>1 DEF Unopened, ProgressInv, ReportsMatchStats, CountsWholeFile, ZeroStats
<1>10. EndInv
  BY <1>1 DEF EndInv
<1> QED BY <1>2, <1>4, <1>5, <1>7, <1>8, <1>9, <1>10 DEF Inv, LoopInv

\* A step that reads no line leaves the loop as it is.
LEMMA LoopStays ==
  ASSUME LoopInv, UNCHANGED <<file, call, pos, first_line, local, visited>>,
         pc = "open" => pc' = "open" \/ file = NoFile
  PROVE  LoopInv' /\ WantedRows(pos)' = WantedRows(pos)
<1>1. /\ DataRows(pos)' = DataRows(pos) /\ WantedRows(pos)' = WantedRows(pos)
      /\ ErrorRows(pos)' = ErrorRows(pos) /\ opts' = opts
  BY RowsStay DEF opts
<1>2. ArgumentsOK' /\ LocalOK'
  BY DEF LoopInv, ArgumentsOK, LocalOK
<1>3. HeaderInv'
  BY <1>1 DEF LoopInv, HeaderInv
<1>4. StatsMatchPrefix' /\ Delivered'
  BY <1>1 DEF LoopInv, StatsMatchPrefix, Delivered, ErrorRows
<1> QED BY <1>1, <1>2, <1>3, <1>4 DEF LoopInv

\* The header is awaited from the start if it is to be skipped.
LEMMA OpenLoop ==
  ASSUME LoopInv, file # NoFile, pos = 0, UNCHANGED <<file, call, pos, local, visited>>,
         first_line' = opts.skip_header
  PROVE  LoopInv' /\ WantedRows(pos)' = WantedRows(pos)
<1>1. /\ DataRows(pos)' = DataRows(pos) /\ WantedRows(pos)' = WantedRows(pos)
      /\ ErrorRows(pos)' = ErrorRows(pos) /\ opts' = opts
  BY RowsStay DEF opts
<1>2. opts.skip_header \in BOOLEAN
  BY DEF LoopInv, ArgumentsOK, IsCall, opts
<1>3. ArgumentsOK' /\ LocalOK'
  BY <1>2 DEF LoopInv, ArgumentsOK, LocalOK
<1>4. HeaderInv'
  BY <1>1 DEF HeaderInv
<1>5. StatsMatchPrefix' /\ Delivered'
  BY <1>1 DEF LoopInv, StatsMatchPrefix, Delivered, ErrorRows
<1> QED BY <1>1, <1>3, <1>4, <1>5 DEF LoopInv

\* Opening the file, or failing to.
LEMMA OpenInv ==
  ASSUME Inv, Open \/ OpenFails
  PROVE  Inv'
<1>1. /\ pc = "open" /\ UNCHANGED <<file, call, pos, since_progress, local, stats, visited,
                                    replayed, refusals, reports>>
      /\ \/ file # NoFile /\ pc' = "reading" /\ first_line' = opts.skip_header /\ result' = result
         \/ /\ file = NoFile /\ first_line' = first_line
            /\ \/ call.api \in Throws /\ pc' = "threw" /\ result' = result
               \/ call.api \notin Throws /\ pc' = "returned" /\ result' = 0
  BY DEF Open, OpenFails
<1>2. /\ pos = 0 /\ visited = <<>> /\ replayed = <<>> /\ reports = <<>> /\ since_progress = 0
      /\ local = [rows_seen |-> 0, rows_kept |-> 0, parse_errors |-> 0, aborted |-> FALSE]
      /\ stats = Unset /\ result \in Nat \union {Unset} /\ refusals = 0
  BY <1>1 DEF Inv, Unopened, EndInv, TypeOK, ZeroStats
<1>3. LoopInv'
  BY <1>1, <1>2, OpenLoop, LoopStays DEF Inv
<1>4. TypeOK'
  BY <1>1, <1>2, <1>3 DEF LoopInv, LocalOK, TypeOK
<1>5. Unopened'
  BY <1>1 DEF Inv, Unopened
<1>6. ProgressInv' /\ ReportsMatchStats'
  <2>1. IsCall(call) /\ opts' = opts
    BY <1>1 DEF Inv, LoopInv, ArgumentsOK, opts
  <2> QED BY <1>1, <1>2, <2>1 DEF ProgressInv, ReportsMatchStats, Reporting, Countable, IsCall, opts
<1>7. EndInv'
  BY <1>1, <1>2 DEF EndInv
<1>8. CountsWholeFile'
  BY <1>1, <1>2 DEF CountsWholeFile
<1> QED BY <1>3, <1>4, <1>5, <1>6, <1>7, <1>8 DEF Inv

\* The number of reports is the quotient: the rest is in the counter, and starts again
\* from 0 when it reaches every.
LEMMA Quotient ==
  ASSUME NEW every \in Nat \ {0}, NEW q \in Nat, NEW r \in Nat, r < every
  PROVE  (every * q + r) \div every = q
OBVIOUS

\* A kept row fills the counter.
LEMMA NextQuotient ==
  ASSUME NEW every \in Nat, NEW q \in Nat, NEW r \in Nat, r + 1 = every, NEW c, c = every * q + r
  PROVE  c + 1 = every * (q + 1) + 0 /\ c + 1 = (q + 1) * every
OBVIOUS

\* A kept row goes into the counter.
LEMMA SameQuotient ==
  ASSUME NEW every \in Nat, NEW q \in Nat, NEW r \in Nat, NEW c, c = every * q + r
  PROVE  c + 1 = every * q + (r + 1)
OBVIOUS

\* An iteration without a visit.
LEMMA PassInv ==
  ASSUME Inv, SkipBlank \/ ConsumeHeader \/ RejectUnparsed \/ RejectFiltered
  PROVE  Inv'
<1>1. /\ pc = "reading" /\ pc' = "reading"
      /\ UNCHANGED <<file, call, since_progress, stats, visited, replayed, refusals, reports, result>>
  BY DEF SkipBlank, ConsumeHeader, RejectUnparsed, RejectFiltered, Row, NextLine
<1>2. file # NoFile
  BY <1>1 DEF Inv, Unopened
<1>3. LoopInv'
  BY <1>2, SkipInv, RejectInv DEF Inv
<1>4. local.rows_kept' = local.rows_kept /\ local.aborted' = local.aborted
  <2>1. CASE SkipBlank \/ ConsumeHeader
    BY <2>1 DEF SkipBlank, ConsumeHeader
  <2>2. CASE RejectUnparsed \/ RejectFiltered
    <3>1. local \in [rows_seen : Nat, rows_kept : Nat, parse_errors : Nat, aborted : BOOLEAN]
      BY DEF Inv, LoopInv, LocalOK
    <3> QED BY <2>2, <3>1 DEF RejectUnparsed, RejectFiltered, Saw
  <2> QED BY <2>1, <2>2
<1>5. /\ stats = Unset /\ replayed = <<>> /\ ~local.aborted /\ Len(visited) \in Nat
      /\ since_progress \in Nat /\ result \in Nat \union {Unset} /\ reports \in Seq(Nat \X Nat)
      /\ refusals = 0
  BY <1>1 DEF Inv, EndInv, TypeOK
<1>6. TypeOK'
  BY <1>1, <1>3, <1>5 DEF LoopInv, LocalOK, TypeOK
<1>7. Unopened' /\ ReportsMatchStats' /\ CountsWholeFile'
  BY <1>1, <1>2 DEF Unopened, ReportsMatchStats, CountsWholeFile
<1>8. ProgressInv'
  <2>1. opts' = opts /\ Countable' = Countable
    BY <1>1, <1>4 DEF opts, Countable
  <2>2. Reporting' <=> Reporting
    BY <2>1 DEF Reporting
  <2> QED BY <1>1, <2>1, <2>2 DEF Inv, ProgressInv
<1>9. EndInv'
  BY <1>1, <1>4, <1>5 DEF Inv, EndInv
<1> QED BY <1>3, <1>6, <1>7, <1>8, <1>9 DEF Inv

\* An iteration that visits.  Only a row at which the visitor did not stop counts
\* towards the next report, and the row that fills the counter empties it.
LEMMA VisitInv ==
  ASSUME Inv, NEW answer \in Answers, Keep(answer)
  PROVE  Inv'
<1>0. answer \in {"go_on", "stop", "throw"} /\ (answer = "stop" => call.api = "StreamMovies")
  BY DEF Answers
<1>1. /\ pc = "reading" /\ UNCHANGED <<file, call, stats, replayed, refusals, result>>
      /\ pc' = CASE answer = "go_on" -> "reading" [] answer = "stop" -> "ending"
                 [] answer = "throw" -> "threw"
      /\ visited' = Append(visited, pos + 1)
      /\ IF answer = "go_on" THEN Progress(local'.rows_seen, local'.rows_kept)
         ELSE UNCHANGED <<since_progress, reports>>
  BY DEF Keep, Row, NextLine, AfterVisit
<1>2. file # NoFile
  BY <1>1 DEF Inv, Unopened
<1>3. /\ LoopInv'
      /\ local' = [rows_seen |-> local.rows_seen + 1, rows_kept |-> local.rows_kept + 1,
                   parse_errors |-> local.parse_errors, aborted |-> answer = "stop"]
  BY <1>0, <1>2, KeepInv DEF Inv
<1>4. /\ stats = Unset /\ replayed = <<>> /\ ~local.aborted /\ since_progress \in Nat
      /\ refusals = 0 /\ result \in Nat \union {Unset} /\ reports \in Seq(Nat \X Nat)
      /\ local \in [rows_seen : Nat, rows_kept : Nat, parse_errors : Nat, aborted : BOOLEAN]
  BY <1>1 DEF Inv, EndInv, TypeOK
<1>5. opts' = opts /\ (Reporting' <=> Reporting) /\ opts.progress_every \in Int \union {Unset}
  BY <1>1 DEF opts, Reporting, Inv, LoopInv, ArgumentsOK, IsCall
<1> DEFINE every == opts.progress_every
<1>6. since_progress' \in Nat /\ reports' \in Seq(Nat \X Nat) /\ ProgressInv'
  <2>1. /\ local'.rows_seen = local.rows_seen + 1 /\ local'.rows_kept = local.rows_kept + 1
        /\ local'.rows_seen \in Nat /\ local'.rows_kept \in Nat
    <3>1. local.rows_seen \in Nat /\ local.rows_kept \in Nat
      BY <1>4
    <3> QED BY <1>3, <3>1
  <2>5. local'.aborted <=> answer = "stop"
    BY <1>3
  <2>2. Countable = local.rows_kept /\ Countable \in Nat
    BY <1>4 DEF Countable
  <2>3. CASE ~Reporting \/ answer # "go_on"
    <3>1. UNCHANGED <<since_progress, reports>>
      BY <1>1, <2>3 DEF Progress, Reporting
    <3>2. answer # "throw" => Countable' = Countable \/ ~Reporting
      BY <1>0, <2>1, <2>2, <2>3, <2>5 DEF Countable
    <3> QED BY <1>0, <1>1, <1>4, <1>5, <3>1, <3>2 DEF Inv, ProgressInv
  <2>4. CASE Reporting /\ answer = "go_on"
    <3>1. /\ Countable' = Countable + 1 /\ every \in Nat \ {0}
          /\ Countable = every * Len(reports) + since_progress /\ since_progress < every
          /\ \A n \in 1..Len(reports) : reports[n][2] = n * every
      BY <1>1, <1>5, <2>1, <2>2, <2>4, <2>5 DEF Countable, Reporting, Inv, ProgressInv
    <3>2. CASE since_progress + 1 >= every
      <4>1. since_progress' = 0
            /\ reports' = Append(reports, <<local'.rows_seen, local'.rows_kept>>)
        BY <1>1, <2>4, <3>2 DEF Progress, Reporting
      <4>2. /\ reports' \in Seq(Nat \X Nat) /\ Len(reports') = Len(reports) + 1
            /\ Len(reports) \in Nat /\ \A n \in 1..Len(reports) : reports'[n] = reports[n]
            /\ reports'[Len(reports) + 1] = <<local'.rows_seen, local'.rows_kept>>
        BY <1>4, <2>1, <4>1, AppendProperties
      <4>3. since_progress + 1 = every
        BY <1>4, <3>1, <3>2
      <4>4. /\ Countable' = every * (Len(reports) + 1) + 0
            /\ Countable' = (Len(reports) + 1) * every
        <5>1. Countable + 1 = every * (Len(reports) + 1) + 0 /\ Countable + 1 = (Len(reports) + 1) * every
          <6> HIDE DEF every
          <6> QED BY <1>4, <3>1, <4>2, <4>3, NextQuotient
        <5> QED BY <3>1, <5>1
      <4>7. reports'[Len(reports) + 1][2] = (Len(reports) + 1) * every
        <5>1. reports'[Len(reports) + 1][2] = local'.rows_kept /\ Countable' = local'.rows_kept
          BY <2>1, <2>4, <2>5, <4>2 DEF Countable
        <5> QED BY <4>4, <5>1
      <4>8. \A n \in 1..Len(reports') : reports'[n][2] = n * every
        <5>1. \A n : n \in 1..Len(reports') <=> n \in 1..Len(reports) \/ n = Len(reports) + 1
          BY <4>2
        <5> QED BY <3>1, <4>2, <4>7, <5>1
      <4>9. Countable' = every * Len(reports') + since_progress' /\ since_progress' < every
        BY <3>1, <4>1, <4>2, <4>4
      <4> QED BY <1>5, <2>4, <4>1, <4>2, <4>8, <4>9 DEF ProgressInv
    <3>3. CASE since_progress + 1 < every
      <4>1. since_progress' = since_progress + 1 /\ reports' = reports
        BY <1>4, <1>1, <2>4, <3>1, <3>3 DEF Progress, Reporting
      <4>2. Countable + 1 = every * Len(reports) + (since_progress + 1)
        <5> HIDE DEF every
        <5>1. Len(reports) \in Nat
          BY <1>4
        <5> QED BY <1>4, <3>1, <5>1, SameQuotient
      <4>3. Countable' = every * Len(reports') + since_progress' /\ since_progress' < every
        BY <3>1, <3>3, <4>1, <4>2
      <4> QED BY <1>4, <1>5, <2>4, <3>1, <4>1, <4>3 DEF ProgressInv
    <3> QED BY <1>4, <3>1, <3>2, <3>3
  <2> QED BY <2>3, <2>4
<1>7. TypeOK'
  <2>1. pc' \in {"reading", "ending", "threw"}
    BY <1>0, <1>1
  <2>2. LocalOK' /\ replayed' \in Seq(1..pos') /\ stats' \in {Unset, local'}
    BY <1>1, <1>3, <1>4 DEF LoopInv
  <2> QED BY <1>1, <1>4, <1>6, <2>1, <2>2 DEF LocalOK, TypeOK
<1>8. Unopened' /\ ReportsMatchStats' /\ CountsWholeFile'
  BY <1>0, <1>1, <1>2 DEF Unopened, ReportsMatchStats, CountsWholeFile
<1>9. EndInv'
  <2>1. Len(visited') \in Nat /\ SubSeq(visited', 1, 0) = <<>> /\ Len(<<>>) = 0
    BY <1>3 DEF LoopInv, LocalOK
  <2>2. local'.aborted <=> answer = "stop"
    BY <1>3
  <2> QED BY <1>0, <1>1, <1>2, <1>4, <2>1, <2>2 DEF EndInv
<1> QED BY <1>3, <1>6, <1>7, <1>8, <1>9 DEF Inv

\* The last line has been read.
LEMMA EndOfFileInv ==
  ASSUME Inv, EndOfFile
  PROVE  Inv'
<1>1. /\ pc = "reading" /\ pc' = "ending" /\ pos = Len(file)
      /\ UNCHANGED <<file, call, pos, first_line, since_progress, local, stats, visited,
                     replayed, refusals, reports, result>>
  BY DEF EndOfFile
<1>2. LoopInv'
  BY <1>1, LoopStays DEF Inv
<1>3. TypeOK'
  BY <1>1 DEF Inv, TypeOK
<1>4. Unopened' /\ ReportsMatchStats' /\ CountsWholeFile' /\ EndInv'
  BY <1>1 DEF Inv, Unopened, ReportsMatchStats, CountsWholeFile, EndInv
<1>5. ProgressInv'
  BY <1>1 DEF Inv, ProgressInv, Reporting, Countable, opts
<1> QED BY <1>2, <1>3, <1>4, <1>5 DEF Inv

\* The last report has the counters that the caller is given, and the number of movies
\* collected is that of the whole file: only a visitor of StreamMovies stops a stream.
LEMMA FinishInv ==
  ASSUME Inv, Finish
  PROVE  Inv'
<1>1. /\ pc = "ending"
      /\ reports' = (IF opts.progress_every # Unset
                     THEN Append(reports, <<local.rows_seen, local.rows_kept>>) ELSE reports)
      /\ stats' = (IF call.api \in Throws THEN local ELSE stats)
      /\ result' = (IF call.api \in Throws THEN result ELSE Len(visited))
      /\ pc' = (IF call.api = "for_each_movie" THEN "replaying" ELSE "returned")
      /\ UNCHANGED <<file, call, pos, first_line, since_progress, local, visited, replayed,
                     refusals>>
  BY DEF Finish
<1>2. /\ file # NoFile /\ stats = Unset /\ replayed = <<>> /\ Len(visited) \in Nat
      /\ refusals = 0 /\ reports \in Seq(Nat \X Nat) /\ since_progress \in Nat /\ result \in Nat \union {Unset}
      /\ local \in [rows_seen : Nat, rows_kept : Nat, parse_errors : Nat, aborted : BOOLEAN]
  BY <1>1 DEF Inv, Unopened, EndInv, TypeOK
<1>3. /\ LoopInv' /\ WantedRows(pos)' = WantedRows(pos)
      /\ WantedRows(Len(file))' = WantedRows(Len(file))
  BY <1>1, LoopStays, RowsStay DEF Inv
<1>4. /\ IsCall(call) /\ opts' = opts
      /\ opts.progress_every \in Int \union {Unset}
      /\ call.api \notin Throws => opts.progress_every = Unset
  BY <1>1 DEF Inv, LoopInv, ArgumentsOK, IsCall, Throws, Apis, opts
<1>5. reports' \in Seq(Nat \X Nat)
  BY <1>1, <1>2
<1>6. TypeOK'
  <2>1. LocalOK' /\ replayed' \in Seq(1..pos') /\ stats' \in {Unset, local'}
    BY <1>1, <1>2, <1>3 DEF LoopInv
  <2>2. result' \in Nat \union {Unset}
    BY <1>1, <1>2
  <2> QED BY <1>1, <1>2, <1>5, <2>1, <2>2 DEF LocalOK, TypeOK
<1>7. Unopened' /\ ProgressInv'
  BY <1>1, <1>2 DEF Unopened, ProgressInv
<1>8. EndInv'
  <2>1. SubSeq(visited, 1, 0) = <<>> /\ Len(<<>>) = 0 /\ "for_each_movie" \notin Throws
    BY DEF Throws
  <2> QED BY <1>1, <1>2, <2>1 DEF Inv, EndInv
<1>9. CountsWholeFile'
  <2> SUFFICES ASSUME call.api \notin Throws
               PROVE  result' = Cardinality(WantedRows(Len(file))) /\ replayed' = SubSeq(visited', 1, Len(replayed'))
    BY <1>1, <1>2, <1>3 DEF CountsWholeFile
  <2>1. pos = Len(file)
    BY <1>1, <1>2 DEF Inv, EndInv, Throws
  <2>2. Len(visited) = Cardinality(WantedRows(pos))
    BY <1>2 DEF Inv, LoopInv, Delivered, StatsMatchPrefix
  <2>3. replayed' = SubSeq(visited', 1, Len(replayed'))
    BY <1>8 DEF EndInv
  <2> QED BY <1>1, <2>1, <2>2, <2>3
<1>10. ReportsMatchStats'
  <2> DEFINE every == opts.progress_every
             early == IF every > 0 THEN Countable \div every ELSE 0
  <2> SUFFICES ASSUME every # Unset
               PROVE  /\ Len(reports') = early + 1
                      /\ \A n \in 1..early : reports'[n][2] = n * every
                      /\ reports'[early + 1] = <<stats'.rows_seen, stats'.rows_kept>>
    BY <1>1, <1>4 DEF ReportsMatchStats, Countable
  <2>1. stats' = local /\ reports' = Append(reports, <<local.rows_seen, local.rows_kept>>)
    BY <1>1, <1>4
  <2>2. /\ Len(reports') = Len(reports) + 1 /\ Len(reports) \in Nat
        /\ \A n \in 1..Len(reports) : reports'[n] = reports[n]
        /\ reports'[Len(reports) + 1] = <<local.rows_seen, local.rows_kept>>
    BY <1>2, <2>1, AppendProperties
  <2>3. early = Len(reports) /\ \A n \in 1..Len(reports) : reports[n][2] = n * every
    <3>1. CASE ~Reporting
      <4>1. reports = <<>> /\ ~(every > 0)
        BY <1>1, <3>1 DEF Inv, ProgressInv, Reporting
      <4> QED BY <4>1
    <3>2. CASE Reporting
      <4>1. /\ Countable = every * Len(reports) + since_progress /\ since_progress < every
            /\ \A n \in 1..Len(reports) : reports[n][2] = n * every
            /\ every \in Nat \ {0} /\ every > 0
        BY <1>1, <1>4, <3>2 DEF Inv, ProgressInv, Reporting
      <4>2. Countable \div every = Len(reports)
        <5> HIDE DEF every
        <5> QED BY <1>2, <2>2, <4>1, Quotient
      <4> QED BY <4>1, <4>2
    <3> QED BY <3>1, <3>2
  <2> HIDE DEF early
  <2> QED BY <2>1, <2>2, <2>3
<1> QED BY <1>3, <1>6, <1>7, <1>8, <1>9, <1>10 DEF Inv

\* At the end of the file the movies delivered are all that match.
LEMMA AllDelivered ==
  ASSUME LoopInv, file # NoFile, pos = Len(file)
  PROVE  {visited[n] : n \in 1..Len(visited)} = WantedRows(Len(file))
<1>1. /\ visited \in Seq(1..pos)
      /\ \A r \in 1..pos : r \in WantedRows(pos) <=> \E n \in 1..Len(visited) : visited[n] = r
  BY DEF LoopInv, LocalOK, Delivered
<1>2. \A n \in 1..Len(visited) : visited[n] \in 1..pos
  BY <1>1, ElementOfSeq
<1>3. WantedRows(pos) \subseteq 1..pos
  BY DEF WantedRows, DataRows
<1> QED BY <1>1, <1>2, <1>3

\* The next movie of the sink is the next one that the stream delivered.
LEMMA ReplayInv ==
  ASSUME Inv, ReplayEnds \/ \E answer \in {"go_on", "stop", "throw"} : Replay(answer)
  PROVE  Inv'
<1>1. /\ pc = "replaying" /\ pc' \in {"replaying", "returned", "threw"}
      /\ UNCHANGED <<file, call, pos, first_line, since_progress, local, stats, visited,
                     reports, result>>
      /\ \/ pc' = "returned" /\ Len(replayed) = Len(visited) /\ UNCHANGED <<replayed, refusals>>
         \/ /\ Len(replayed) < Len(visited)
            /\ replayed' = Append(replayed, visited[Len(replayed) + 1])
            /\ IF pc' = "returned" THEN refusals' = refusals + 1 ELSE refusals' = refusals
  <2>1. CASE ReplayEnds
    BY <2>1 DEF ReplayEnds, SinkEmpty
  <2>2. CASE \E answer \in {"go_on", "stop", "throw"} : Replay(answer)
    <3>1. PICK answer \in {"go_on", "stop", "throw"} : Replay(answer)
      BY <2>2
    <3> QED BY <3>1 DEF Replay
  <2> QED BY <2>1, <2>2
<1>2. /\ call.api = "for_each_movie" /\ call.api \notin Throws /\ file # NoFile /\ stats = Unset
      /\ refusals = 0
      /\ visited \in Seq(1..pos) /\ replayed \in Seq(1..pos)
      /\ Len(replayed) <= Len(visited) /\ replayed = SubSeq(visited, 1, Len(replayed))
  BY <1>1 DEF Inv, EndInv, Unopened, TypeOK, Throws
<1>3. /\ LoopInv' /\ WantedRows(pos)' = WantedRows(pos)
      /\ WantedRows(Len(file))' = WantedRows(Len(file))
  BY <1>1, LoopStays, RowsStay DEF Inv
<1>4. /\ replayed' \in Seq(1..pos) /\ Len(replayed') <= Len(visited)
      /\ replayed' = SubSeq(visited, 1, Len(replayed'))
  <2>1. CASE replayed' = replayed
    BY <1>2, <2>1
  <2>2. CASE /\ Len(replayed) < Len(visited)
             /\ replayed' = Append(replayed, visited[Len(replayed) + 1])
    <3>1. Len(replayed) + 1 \in 1..Len(visited) /\ Len(replayed) \in Nat /\ Len(visited) \in Nat
      BY <1>2, <2>2
    <3>2. /\ replayed' \in Seq(1..pos) /\ Len(replayed') = Len(replayed) + 1
          /\ replayed'[Len(replayed) + 1] = visited[Len(replayed) + 1]
          /\ \A n \in 1..Len(replayed) : replayed'[n] = replayed[n]
      <4>1. visited[Len(replayed) + 1] \in 1..pos
        BY <1>2, <3>1, ElementOfSeq
      <4> QED BY <1>2, <2>2, <4>1, AppendProperties
    <3>3. \A n \in 1..Len(replayed) : replayed[n] = visited[n]
      BY <1>2, <3>1
    <3>4. \A n \in 1..Len(replayed') : replayed'[n] = visited[n]
      <4>1. \A n : n \in 1..Len(replayed') <=> n \in 1..Len(replayed) \/ n = Len(replayed) + 1
        BY <3>1, <3>2
      <4> QED BY <3>2, <3>3, <4>1
    <3>5. SubSeq(visited, 1, Len(replayed')) = replayed'
      BY <1>2, <3>1, <3>2, <3>4
    <3> QED BY <3>1, <3>2, <3>5
  <2> QED BY <1>1, <2>1, <2>2
<1>5. TypeOK'
  <2>1. refusals' \in Nat
    BY <1>1, <1>2
  <2>2. /\ pc' \in {"open", "reading", "ending", "replaying", "returned", "threw"}
        /\ result' \in Nat \union {Unset} /\ reports' \in Seq(Nat \X Nat)
        /\ since_progress' \in Nat /\ stats' \in {Unset, local'} /\ LocalOK'
    BY <1>1, <1>2, <1>3 DEF Inv, TypeOK, LoopInv
  <2> QED BY <1>1, <1>4, <2>1, <2>2 DEF LocalOK, TypeOK
<1>6. Unopened' /\ ProgressInv'
  BY <1>1, <1>2 DEF Unopened, ProgressInv
<1>7. EndInv'
  <2>1. pc' # "returned" => refusals' = 0
    BY <1>1, <1>2
  <2>2. pc' = "returned" /\ refusals' = 0 => replayed' = visited'
    <3>1. SubSeq(visited, 1, Len(visited)) = visited
      BY <1>2
    <3> QED BY <1>1, <1>2, <3>1
  <2> QED BY <1>1, <1>2, <1>4, <2>1, <2>2 DEF Inv, EndInv
<1>8. CountsWholeFile'
  <2>1. pos = Len(file)
    BY <1>1, <1>2 DEF Inv, EndInv, Throws
  <2>2. {visited[n] : n \in 1..Len(visited)} = WantedRows(Len(file))
    BY <1>2, <2>1, AllDelivered DEF Inv
  <2>3. /\ result' = Cardinality(WantedRows(Len(file))) /\ replayed' = SubSeq(visited', 1, Len(replayed'))
        /\ pc' = "replaying" => refusals' = 0
        /\ pc' = "returned" /\ refusals' = 0 =>
             {replayed'[n] : n \in 1..Len(replayed')} = WantedRows(Len(file))
    BY <1>1, <1>2, <1>4, <1>7, <2>2 DEF Inv, CountsWholeFile, EndInv
  <2> QED BY <1>1, <1>2, <1>3, <2>3 DEF CountsWholeFile
<1>9. ReportsMatchStats'
  <2>1. opts'.progress_every = Unset
    BY <1>1, <1>2 DEF Inv, LoopInv, ArgumentsOK, IsCall, opts
  <2> QED BY <2>1 DEF ReportsMatchStats
<1> QED BY <1>3, <1>5, <1>6, <1>7, <1>8, <1>9 DEF Inv

\* Nothing changes.
LEMMA StutterInv ==
  ASSUME Inv, UNCHANGED vars
  PROVE  Inv'
<1>1. LoopInv' /\ WantedRows(Len(file))' = WantedRows(Len(file))
  BY LoopStays, RowsStay DEF Inv, vars
<1>2. TypeOK'
  BY DEF Inv, vars, TypeOK
<1>3. Unopened' /\ EndInv'
  BY DEF Inv, vars, Unopened, EndInv
<1>4. ProgressInv' /\ ReportsMatchStats'
  BY DEF Inv, vars, ProgressInv, Reporting, Countable, ReportsMatchStats, opts
<1>5. CountsWholeFile'
  BY <1>1 DEF Inv, vars, CountsWholeFile
<1> QED BY <1>1, <1>2, <1>3, <1>4, <1>5 DEF Inv

\* Every step keeps the invariant.
LEMMA StepInv == Inv /\ [Next]_vars => Inv'
<1> SUFFICES ASSUME Inv, [Next]_vars PROVE Inv'
  OBVIOUS
<1>1. CASE OpenFails \/ Open
  BY <1>1, OpenInv
<1>2. CASE SkipBlank \/ ConsumeHeader \/ RejectUnparsed \/ RejectFiltered
  BY <1>2, PassInv
<1>3. CASE \E answer \in Answers : Keep(answer)
  BY <1>3, VisitInv
<1>4. CASE EndOfFile
  BY <1>4, EndOfFileInv
<1>5. CASE Finish
  BY <1>5, FinishInv
<1>6. CASE ReplayEnds \/ \E answer \in {"go_on", "stop", "throw"} : Replay(answer)
  BY <1>6, ReplayInv
<1>7. CASE Returned \/ UNCHANGED vars
  BY <1>7, StutterInv DEF Returned
<1> QED BY <1>1, <1>2, <1>3, <1>4, <1>5, <1>6, <1>7 DEF Next

\* The invariant holds in every state of every call.
LEMMA InvCorrect == Spec => []Inv
BY InitInv, StepInv, PTL DEF Spec

\* All values have their types, however long the file.
THEOREM TypeCorrect == Spec => []TypeOK
BY InvCorrect, PTL DEF Inv

\* At every line of every file the three counters of LoadStats are the numbers of data
\* rows, kept rows and malformed rows among the lines read (loader.cpp:194-256).
THEOREM StatsMatchPrefixCorrect == Spec => []StatsMatchPrefix
BY InvCorrect, PTL DEF Inv, LoopInv

\* on_progress is called at every progress_every-th kept row and once at the end, with
\* the counters the caller is given.
THEOREM ReportsMatchStatsCorrect == Spec => []ReportsMatchStats
BY InvCorrect, PTL DEF Inv

\* load_movies and for_each_movie return the number of rows of the whole file that pass
\* the filter.  The callback is given a first part of them, in file order, none behind
\* one it has refused, and all of them if for_each_movie returns without a refusal.
THEOREM CountsWholeFileCorrect == Spec => []CountsWholeFile
BY InvCorrect, PTL DEF Inv

\* No step but the one that ends a stream writes to the caller's LoadStats.
THEOREM StatsWrittenAtEndCorrect == Spec => StatsWrittenAtEnd
<1>1. [Next]_vars => (stats' # stats => pc' = "returned" /\ stats' = local') \/ UNCHANGED vars
  BY DEF Next, vars, OpenFails, Open, SkipBlank, ConsumeHeader, RejectUnparsed, RejectFiltered,
         Keep, Row, NextLine, EndOfFile, Finish, Replay, ReplayEnds, Returned, Throws
<1> QED BY <1>1, PTL DEF Spec, StatsWrittenAtEnd

-----------------------------------------------------------------------------
\* A finite set of numbers in order.

\* A set of natural numbers has a least member.
LEMMA LeastNatural ==
  ASSUME NEW S \in SUBSET Nat, S # {}
  PROVE  \E m \in S : \A n \in S : m <= n
<1> DEFINE R == OpToRel(<, Nat)
<1>1. IsWellFoundedOn(R, Nat)
  BY NatLessThanWellFounded
<1>2. \A m, n \in Nat : <<n, m>> \in R <=> n < m
  BY DEF OpToRel
<1>3. \A m, n \in Nat : n < m \/ m <= n
  OBVIOUS
<1> HIDE DEF R
<1>4. PICK m \in S : \A n \in S : ~(<<n, m>> \in R)
  BY <1>1, WFMin
<1>5. m \in Nat /\ \A n \in S : n \in Nat
  OBVIOUS
<1>6. \A n \in S : m <= n
  BY <1>2, <1>3, <1>4, <1>5, Zenon
<1> QED BY <1>6

\* What InOrder chooses.
Sorts(s, S) ==
  /\ s \in [1..Cardinality(S) -> S]
  /\ \A m, n \in 1..Cardinality(S) : m < n => s[m] < s[n]

\* Sets of line numbers are finite.
LEMMA Bounded ==
  ASSUME NEW n \in Nat, NEW S \in SUBSET (1..n)
  PROVE  IsFiniteSet(S) /\ Cardinality(S) \in Nat
<1>1. IsFiniteSet(1..n)
  BY FS_Interval
<1>2. IsFiniteSet(S)
  BY <1>1, FS_Subset
<1> QED BY <1>2, FS_CardinalityType

\* Every set of line numbers can be sorted: take the largest one last.
LEMMA CanBeSorted ==
  ASSUME NEW n \in Nat, NEW S \in SUBSET (1..n)
  PROVE  \E s : Sorts(s, S)
<1> DEFINE Sortable(T) == \E s : Sorts(s, T)
           bad == {m \in Nat : \E T \in SUBSET (1..m) : ~Sortable(T)}
<1> SUFFICES ASSUME bad # {} PROVE FALSE
  BY Zenon
<1>1. PICK m \in bad : \A l \in bad : m <= l
  BY LeastNatural, Zenon
<1>2. m \in Nat /\ \A l \in Nat : l < m => \A T \in SUBSET (1..l) : Sortable(T)
  <2>1. \A l \in Nat : l < m => l \notin bad
    BY <1>1
  <2> HIDE DEF Sortable
  <2> QED BY <1>1, <2>1
<1>3. PICK T \in SUBSET (1..m) : ~Sortable(T)
  BY <1>1
<1>4. m # 0
  <2> SUFFICES ASSUME m = 0 PROVE FALSE
    OBVIOUS
  <2>1. T = {} /\ Cardinality(T) = 0
    <3>1. T = {}
      BY <1>3
    <3> QED BY <3>1, FS_EmptySet
  <2>2. Sorts(<<>>, T)
    BY <2>1 DEF Sorts
  <2> QED BY <1>3, <2>2
<1>5. m - 1 \in Nat /\ m - 1 < m
  BY <1>2, <1>4
<1>6. m \in T
  <2> SUFFICES ASSUME m \notin T PROVE FALSE
    OBVIOUS
  <2>1. T \in SUBSET (1..(m - 1))
    BY <1>2, <1>3
  <2> QED BY <1>2, <1>3, <1>5, <2>1
<1> DEFINE U == T \ {m}
           c == Cardinality(U)
<1>7. U \in SUBSET (1..(m - 1)) /\ \A x \in U : x < m
  BY <1>2, <1>3
<1>8. PICK u : Sorts(u, U)
  BY <1>2, <1>5, <1>7
<1>9. IsFiniteSet(U) /\ c \in Nat /\ Cardinality(T) = c + 1
  <2>1. IsFiniteSet(U) /\ c \in Nat /\ U \union {m} = T /\ m \notin U
    BY <1>5, <1>6, <1>7, Bounded
  <2> QED BY <2>1, FS_AddElement
<1> DEFINE t == [i \in 1..(c + 1) |-> IF i = c + 1 THEN m ELSE u[i]]
<1> HIDE DEF c
<1>10. u \in [1..c -> U] /\ \A i, j \in 1..c : i < j => u[i] < u[j]
  BY <1>8 DEF Sorts, c
<1>11. t \in [1..(c + 1) -> T]
  BY <1>6, <1>9, <1>10
<1>12. \A i, j \in 1..(c + 1) : i < j => t[i] < t[j]
  <2> SUFFICES ASSUME NEW i \in 1..(c + 1), NEW j \in 1..(c + 1), i < j PROVE t[i] < t[j]
    OBVIOUS
  <2>1. i \in 1..c /\ t[i] = u[i] /\ u[i] \in U
    BY <1>9, <1>10
  <2>2. CASE j = c + 1
    BY <1>7, <2>1, <2>2
  <2>3. CASE j # c + 1
    BY <1>9, <1>10, <2>1, <2>3
  <2> QED BY <2>2, <2>3
<1>13. Sorts(t, T)
  BY <1>9, <1>11, <1>12 DEF Sorts
<1> QED BY <1>3, <1>13

\* And in one way only: where two first differ, the lower number is missing in one.
LEMMA SortedBelow ==
  ASSUME NEW n \in Nat, NEW S \in SUBSET (1..n), NEW s, NEW t, Sorts(s, S), Sorts(t, S),
         NEW d \in 1..Cardinality(S), \A i \in 1..Cardinality(S) : i < d => s[i] = t[i]
  PROVE  ~(s[d] < t[d])
<1> SUFFICES ASSUME s[d] < t[d] PROVE FALSE
  OBVIOUS
<1> DEFINE c == Cardinality(S)
<1>1. c \in Nat /\ IsFiniteSet(S) /\ IsFiniteSet(1..c) /\ Cardinality(1..c) = c
  <2>1. c \in Nat /\ IsFiniteSet(S)
    BY Bounded
  <2> QED BY <2>1, FS_Interval
<1>2. /\ s \in [1..c -> S] /\ t \in [1..c -> S] /\ \A x \in S : x \in Int
      /\ \A i, j \in 1..c : i < j => s[i] < s[j] /\ t[i] < t[j]
  BY DEF Sorts
<1> HIDE DEF c
<1>3. t \in Injection(1..c, S)
  <2>1. \A i, j \in 1..c : t[i] = t[j] => i = j
    <3> SUFFICES ASSUME NEW i \in 1..c, NEW j \in 1..c, t[i] = t[j], i # j PROVE FALSE
      OBVIOUS
    <3>1. i < j \/ j < i
      BY <1>1
    <3>2. t[i] \in Int /\ t[j] \in Int
      BY <1>2
    <3> QED BY <1>2, <3>1, <3>2
  <2> QED BY <1>2, <2>1 DEF Injection, IsInjective
<1>4. t \in Surjection(1..c, S)
  BY <1>1, <1>3, FS_Injection DEF c
<1>5. d \in 1..c /\ s[d] \in S
  BY <1>2 DEF c
<1>6. PICK e \in 1..c : t[e] = s[d]
  BY <1>4, <1>5 DEF Surjection
<1>7. CASE e < d
  <2>1. s[e] = t[e] /\ s[e] < s[d] /\ s[e] \in Int
    BY <1>2, <1>5, <1>6, <1>7 DEF c
  <2> QED BY <1>6, <2>1
<1>8. CASE e = d
  <2>1. s[d] \in Int /\ t[d] = s[d]
    BY <1>2, <1>5, <1>6, <1>8
  <2> QED BY <2>1
<1>9. CASE d < e
  <2>1. t[d] < t[e] /\ t[d] \in Int /\ t[e] \in Int
    BY <1>2, <1>5, <1>6, <1>9
  <2> QED BY <1>6, <2>1
<1> QED BY <1>1, <1>5, <1>6, <1>7, <1>8, <1>9

\* So two sorted sequences of a set are the same.
LEMMA SortedOnce ==
  ASSUME NEW n \in Nat, NEW S \in SUBSET (1..n), NEW s, NEW t, Sorts(s, S), Sorts(t, S)
  PROVE  s = t
<1> DEFINE c == Cardinality(S)
           differ == {i \in 1..c : s[i] # t[i]}
<1>1. c \in Nat /\ s \in [1..c -> S] /\ t \in [1..c -> S] /\ \A x \in S : x \in Int
  <2>1. c \in Nat
    BY Bounded
  <2> QED BY <2>1 DEF Sorts
<1>2. differ = {}
  <2> SUFFICES ASSUME differ # {} PROVE FALSE
    OBVIOUS
  <2>1. differ \in SUBSET Nat
    BY <1>1
  <2>2. PICK d \in differ : \A i \in differ : d <= i
    BY <2>1, LeastNatural
  <2>3. d \in 1..c /\ d \in Nat /\ \A i \in 1..c : i < d => s[i] = t[i]
    BY <1>1, <2>2
  <2>4. ~(s[d] < t[d]) /\ ~(t[d] < s[d])
    BY <2>3, SortedBelow
  <2>5. s[d] \in Int /\ t[d] \in Int /\ s[d] # t[d]
    BY <1>1, <2>2
  <2> QED BY <2>4, <2>5
<1> QED BY <1>1, <1>2

\* InOrder(S) is the sorted sequence of S.
LEMMA InOrderSorts ==
  ASSUME NEW n \in Nat, NEW S \in SUBSET (1..n)
  PROVE  Sorts(InOrder(S), S) /\ \A s : Sorts(s, S) => s = InOrder(S)
<1> DEFINE P(s) == \A i, j \in DOMAIN s : i < j => s[i] < s[j]
<1>1. PICK s : Sorts(s, S)
  BY CanBeSorted
<1>2. s \in [1..Cardinality(S) -> S] /\ P(s)
  BY <1>1 DEF Sorts
<1>3. InOrder(S) \in [1..Cardinality(S) -> S] /\ P(InOrder(S))
  BY <1>2 DEF InOrder
<1>4. Sorts(InOrder(S), S)
  BY <1>3 DEF Sorts
<1> QED BY <1>4, SortedOnce

\* The least member is the head, and the others are the tail.
LEMMA InOrderHead ==
  ASSUME NEW n \in Nat, NEW S \in SUBSET (1..n), NEW x \in S, \A y \in S : x <= y
  PROVE  /\ InOrder(S) # <<>> /\ Head(InOrder(S)) = x
         /\ Tail(InOrder(S)) = InOrder(S \ {x})
<1> DEFINE T == S \ {x}
           c == Cardinality(T)
           t == InOrder(T)
           s == [i \in 1..(c + 1) |-> IF i = 1 THEN x ELSE t[i - 1]]
<1>1. IsFiniteSet(S) /\ IsFiniteSet(T) /\ c \in Nat /\ Cardinality(S) = c + 1
  <2>1. IsFiniteSet(T) /\ c \in Nat /\ T \union {x} = S /\ x \notin T
    BY Bounded
  <2> QED BY <2>1, Bounded, FS_AddElement
<1>2. T \in SUBSET (1..n) /\ x \in Int /\ \A y \in T : y \in Int /\ x < y
  OBVIOUS
<1>3. t \in [1..c -> T] /\ \A i, j \in 1..c : i < j => t[i] < t[j]
  BY <1>2, InOrderSorts DEF Sorts
<1> HIDE DEF c, t
<1>4. s \in [1..(c + 1) -> S]
  <2> SUFFICES ASSUME NEW i \in 1..(c + 1), i # 1 PROVE t[i - 1] \in S
    OBVIOUS
  <2>1. i - 1 \in 1..c
    BY <1>1
  <2> QED BY <1>3, <2>1
<1>5. \A i, j \in 1..(c + 1) : i < j => s[i] < s[j]
  <2> SUFFICES ASSUME NEW i \in 1..(c + 1), NEW j \in 1..(c + 1), i < j PROVE s[i] < s[j]
    OBVIOUS
  <2>1. j - 1 \in 1..c /\ s[j] = t[j - 1] /\ t[j - 1] \in T
    BY <1>1, <1>3
  <2>2. CASE i = 1
    BY <1>2, <2>1, <2>2
  <2>3. CASE i # 1
    <3>1. i - 1 \in 1..c /\ s[i] = t[i - 1] /\ i - 1 < j - 1
      BY <1>1, <2>3
    <3> QED BY <1>3, <2>1, <3>1
  <2> QED BY <2>2, <2>3
<1>6. InOrder(S) = s
  <2>1. Sorts(s, S)
    BY <1>1, <1>4, <1>5 DEF Sorts
  <2> QED BY <2>1, InOrderSorts
<1>7. s \in Seq(S) /\ Len(s) = c + 1 /\ s # <<>> /\ Head(s) = x
  BY <1>1, <1>4
<1>8. Tail(s) = t
  <2>1. Tail(s) = [i \in 1..c |-> s[i + 1]]
    BY <1>1, <1>7
  <2>2. \A i \in 1..c : s[i + 1] = t[i]
    BY <1>1
  <2> QED BY <1>3, <2>1, <2>2
<1> QED BY <1>6, <1>7, <1>8 DEF t

-----------------------------------------------------------------------------
\* The loader implements MovieStream.

\* The lines ahead that are wanted, and what the refinement mapping makes of the state.
Ahead == WantedRows(Len(file)) \ WantedRows(pos)
Todo == IF file = NoFile THEN <<>> ELSE InOrder(Ahead)
Status ==
  CASE pc \in {"open", "reading"} -> "open"
    [] pc \notin {"open", "reading"} /\ file = NoFile -> "failed"
    [] pc \notin {"open", "reading"} /\ file # NoFile ->
         CASE pc = "threw" /\ replayed = <<>> -> "failed"
           [] local.aborted -> "stopped"
           [] OTHER -> "ended"

\* The cases of the mapping, none of which overlap.
LEMMA StatusIs ==
  ASSUME pc = "threw" => ~local.aborted
  PROVE
  /\ pc \in {"open", "reading"} => Status = "open"
  /\ pc \notin {"open", "reading"} /\ file = NoFile => Status = "failed"
  /\ pc \notin {"open", "reading"} /\ file # NoFile =>
       Status = (IF pc = "threw" /\ replayed = <<>> THEN "failed"
                 ELSE IF local.aborted THEN "stopped" ELSE "ended")
<1>1. CASE pc \in {"open", "reading"}
  BY <1>1 DEF Status
<1>2. CASE pc \notin {"open", "reading"} /\ file = NoFile
  BY <1>2 DEF Status
<1>3. CASE pc \notin {"open", "reading"} /\ file # NoFile
  <2>1. Status = CASE pc = "threw" /\ replayed = <<>> -> "failed"
                   [] local.aborted -> "stopped"
                   [] OTHER -> "ended"
    BY <1>3 DEF Status
  <2> QED BY <1>3, <2>1
<1> QED BY <1>1, <1>2, <1>3

\* No row is behind the line it is on.
LEMMA WantedGrows ==
  ASSUME NEW m \in Nat, NEW n \in Nat, m <= n
  PROVE  WantedRows(m) = WantedRows(n) \intersect (1..m)
<1>1. \A r : r \in 1..m <=> r \in 1..n /\ r \in 1..m
  OBVIOUS
<1>2. DataRows(m) = DataRows(n) \intersect (1..m)
  BY <1>1 DEF DataRows
<1> QED BY <1>2 DEF WantedRows

\* The wanted rows ahead are behind the current line.
LEMMA TodoOK ==
  ASSUME Inv
  PROVE  /\ Todo \in Seq(Nat)
         /\ file # NoFile =>
              /\ pos \in 0..Len(file) /\ Len(file) \in Nat /\ Ahead \in SUBSET (1..Len(file))
              /\ \A r \in Ahead : pos < r
<1>1. CASE file = NoFile
  BY <1>1 DEF Todo
<1>2. CASE file # NoFile
  <2>1. pos \in 0..Len(file) /\ Len(file) \in Nat
    BY <1>2 DEF Inv, LoopInv, LocalOK, ArgumentsOK, IsFile
  <2>2. WantedRows(Len(file)) \subseteq 1..Len(file)
    BY <2>1, RowsFinite
  <2>3. WantedRows(pos) = WantedRows(Len(file)) \intersect (1..pos)
    BY <2>1, WantedGrows
  <2>4. Ahead \in SUBSET (1..Len(file)) /\ \A r \in Ahead : pos < r
    BY <2>1, <2>2, <2>3 DEF Ahead
  <2>5. /\ InOrder(Ahead) \in [1..Cardinality(Ahead) -> Ahead] /\ Cardinality(Ahead) \in Nat
    BY <2>1, <2>4, InOrderSorts, Bounded DEF Sorts
  <2>6. \A r \in Ahead : r \in Nat
    BY <2>4
  <2>7. InOrder(Ahead) \in Seq(Nat)
    BY <2>5, <2>6
  <2> QED BY <1>2, <2>1, <2>4, <2>7 DEF Todo
<1> QED BY <1>1, <1>2

\* A call starts as a stream does.
LEMMA StreamInit == Init => Stream!Init
<1> SUFFICES ASSUME Init PROVE Stream!Init
  OBVIOUS
<1>1. Todo \in Seq(Nat)
  BY InitInv, TodoOK
<1>2. Status = "open" /\ visited = <<>>
  BY StatusIs DEF Init, ZeroStats
<1> QED BY <1>1, <1>2 DEF Stream!Init, Todo, Status, Ahead

\* As long as the wanted rows read stay the same, so do those ahead.
LEMMA TodoStays ==
  ASSUME UNCHANGED <<file, call>>, WantedRows(pos)' = WantedRows(pos)
  PROVE  Todo' = Todo
<1>1. file # NoFile => Ahead' = Ahead
  BY RowsStay DEF Ahead
<1>2. \A S : InOrder(S)' = InOrder(S)
  BY DEF InOrder
<1> QED BY <1>1, <1>2 DEF Todo

\* A row that is kept is the first of those ahead.
LEMMA KeptIsNext ==
  ASSUME Inv, file # NoFile, NEW answer \in {"go_on", "stop", "throw"}, Keep(answer)
  PROVE  Todo # <<>> /\ Head(Todo) = pos + 1 /\ Todo' = Tail(Todo)
<1>1. /\ UNCHANGED <<file, call>> /\ pos \in 0..Len(file) /\ Len(file) \in Nat
      /\ pos + 1 \in 1..Len(file) /\ pos' = pos + 1
  BY TodoOK DEF Keep, Row, NextLine
<1>2. /\ WantedRows(pos)' = WantedRows(pos) \union {pos + 1} /\ pos + 1 \notin WantedRows(pos)
      /\ WantedRows(Len(file))' = WantedRows(Len(file)) /\ WantedRows(pos') = WantedRows(pos)'
  BY <1>1, KeepInv, RowsStay DEF Inv
<1>3. WantedRows(pos') = WantedRows(Len(file)) \intersect (1..pos')
  BY <1>1, WantedGrows
<1>4. pos + 1 \in Ahead /\ Ahead' = Ahead \ {pos + 1}
  BY <1>1, <1>2, <1>3 DEF Ahead
<1>5. Ahead \in SUBSET (1..Len(file)) /\ \A r \in Ahead : pos + 1 <= r
  <2>1. Ahead \in SUBSET (1..Len(file)) /\ \A r \in Ahead : pos < r
    BY TodoOK
  <2> QED BY <1>1, <2>1
<1>6. /\ InOrder(Ahead) # <<>> /\ Head(InOrder(Ahead)) = pos + 1
      /\ Tail(InOrder(Ahead)) = InOrder(Ahead \ {pos + 1})
  BY <1>1, <1>4, <1>5, InOrderHead
<1>7. \A S : InOrder(S)' = InOrder(S)
  BY DEF InOrder
<1> QED BY <1>1, <1>4, <1>6, <1>7 DEF Todo

\* Each step of the loader is a step of the stream, or one it does not see.
LEMMA StreamStep == Inv /\ [Next]_vars => [Stream!Next]_(Stream!streamVars)
<1> SUFFICES ASSUME Inv, [Next]_vars
             PROVE  \/ UNCHANGED <<Todo, visited, Status>>
                    \/ /\ \E s \in {"open", "stopped", "failed"} :
                            /\ Status = "open" /\ Todo # <<>>
                            /\ visited' = Append(visited, Head(Todo))
                            /\ Todo' = Tail(Todo) /\ Status' = s
                    \/ Status = "open" /\ Todo = <<>> /\ Status' = "ended"
                         /\ UNCHANGED <<Todo, visited>>
                    \/ Status = "open" /\ visited = <<>> /\ Status' = "failed"
                         /\ UNCHANGED <<Todo, visited>>
  BY DEF Stream!Next, Stream!Deliver, Stream!End, Stream!Fail, Stream!streamVars, Todo, Status, Ahead
<1>0. /\ pc' \in {"open", "reading"} => Status' = "open"
      /\ pc' \notin {"open", "reading"} /\ file' = NoFile => Status' = "failed"
      /\ pc' \notin {"open", "reading"} /\ file' # NoFile =>
           Status' = (IF pc' = "threw" /\ replayed' = <<>> THEN "failed"
                      ELSE IF local'.aborted THEN "stopped" ELSE "ended")
  <2>1. pc' = "threw" => ~local'.aborted
    BY StepInv DEF Inv, EndInv
  <2>2. CASE pc' \in {"open", "reading"}
    BY <2>2 DEF Status
  <2>3. CASE pc' \notin {"open", "reading"} /\ file' = NoFile
    BY <2>3 DEF Status
  <2>4. CASE pc' \notin {"open", "reading"} /\ file' # NoFile
    <3>1. Status' = CASE pc' = "threw" /\ replayed' = <<>> -> "failed"
                      [] local'.aborted -> "stopped"
                      [] OTHER -> "ended"
      BY <2>4 DEF Status
    <3> QED BY <2>1, <2>4, <3>1
  <2> QED BY <2>2, <2>3, <2>4
<1>1. CASE OpenFails
  <2>1. WantedRows(pos)' = WantedRows(pos)
    BY <1>1, RowsStay DEF OpenFails
  <2> QED BY <1>0, <1>1, <2>1, StatusIs, TodoStays DEF OpenFails, Inv, Unopened
<1>2. CASE Open
  <2>1. WantedRows(pos)' = WantedRows(pos)
    BY <1>2, RowsStay DEF Open
  <2> QED BY <1>0, <1>2, <2>1, StatusIs, TodoStays DEF Open
<1>3. CASE SkipBlank \/ ConsumeHeader \/ RejectUnparsed \/ RejectFiltered
  <2>1. pc = "reading" /\ pc' = "reading" /\ UNCHANGED <<file, call, visited>> /\ file # NoFile
    BY <1>3 DEF SkipBlank, ConsumeHeader, RejectUnparsed, RejectFiltered, Row, NextLine, Inv, Unopened
  <2>2. WantedRows(pos)' = WantedRows(pos)
    BY <1>3, <2>1, SkipInv, RejectInv DEF Inv
  <2> QED BY <1>0, <2>1, <2>2, StatusIs, TodoStays
<1>4. ASSUME NEW answer \in Answers, Keep(answer)
      PROVE  \E s \in {"open", "stopped", "failed"} :
               /\ Status = "open" /\ Todo # <<>> /\ visited' = Append(visited, Head(Todo))
               /\ Todo' = Tail(Todo) /\ Status' = s
  <2>1. answer \in {"go_on", "stop", "throw"}
    BY DEF Answers
  <2>2. /\ pc = "reading" /\ UNCHANGED <<file, replayed>> /\ visited' = Append(visited, pos + 1)
        /\ pc' = CASE answer = "go_on" -> "reading" [] answer = "stop" -> "ending"
                   [] answer = "throw" -> "threw"
    BY <1>4 DEF Keep, Row, NextLine, AfterVisit
  <2>3. file # NoFile /\ replayed = <<>> /\ Status = "open"
    BY <2>2, StatusIs DEF Inv, Unopened, EndInv
  <2>4. Todo # <<>> /\ Head(Todo) = pos + 1 /\ Todo' = Tail(Todo)
    BY <1>4, <2>1, <2>3, KeptIsNext
  <2>5. local'.aborted <=> answer = "stop"
    <3>1. local' = [rows_seen |-> local.rows_seen + 1, rows_kept |-> local.rows_kept + 1,
                    parse_errors |-> local.parse_errors, aborted |-> answer = "stop"]
      BY <1>4, <2>1, <2>3, KeepInv DEF Inv
    <3> QED BY <3>1
  <2>6. Status' \in {"open", "stopped", "failed"}
    BY <1>0, <2>1, <2>2, <2>3, <2>5
  <2> QED BY <2>2, <2>3, <2>4, <2>6
<1>5. CASE EndOfFile
  <2>1. /\ pc = "reading" /\ pc' = "ending" /\ pos = Len(file) /\ ~local'.aborted
        /\ UNCHANGED <<file, call, pos, visited>> /\ file # NoFile
    BY <1>5 DEF EndOfFile, Inv, EndInv, Unopened
  <2>2. Todo' = Todo
    BY <2>1, RowsStay, TodoStays
  <2>3. Ahead = {} /\ Cardinality(Ahead) = 0
    BY <2>1, FS_EmptySet DEF Ahead
  <2>4. InOrder(Ahead) = <<>>
    <3>1. Sorts(<<>>, Ahead)
      BY <2>3 DEF Sorts
    <3> QED BY <2>1, <2>3, <3>1, TodoOK, InOrderSorts
  <2> QED BY <1>0, <2>1, <2>2, <2>4, StatusIs DEF Todo
<1>6. CASE Finish \/ ReplayEnds \/ \E answer \in {"go_on", "stop", "throw"} : Replay(answer)
  <2>1. /\ pc \in {"ending", "replaying"} /\ pc' \in {"replaying", "returned", "threw"}
        /\ UNCHANGED <<file, call, pos, visited, local>> /\ file # NoFile
        /\ pc' = "threw" => replayed' # <<>>
    <3>1. CASE Finish
      BY <1>6, <3>1 DEF Finish, Inv, Unopened
    <3>2. CASE ReplayEnds
      BY <1>6, <3>2 DEF ReplayEnds, Inv, Unopened
    <3>3. CASE \E answer \in {"go_on", "stop", "throw"} : Replay(answer)
      <4>1. PICK answer \in {"go_on", "stop", "throw"} : Replay(answer)
        BY <3>3
      <4>2. replayed' # <<>>
        <5>1. /\ Len(replayed) < Len(visited) /\ replayed \in Seq(1..pos) /\ visited \in Seq(1..pos)
              /\ replayed' = Append(replayed, visited[Len(replayed) + 1])
          BY <4>1 DEF Replay, Inv, TypeOK
        <5>2. visited[Len(replayed) + 1] \in 1..pos
          <6>1. Len(replayed) + 1 \in 1..Len(visited)
            BY <5>1
          <6> QED BY <5>1, <6>1, ElementOfSeq
        <5> QED BY <5>1, <5>2
      <4> QED BY <4>1, <4>2 DEF Replay, Inv, Unopened
    <3> QED BY <1>6, <3>1, <3>2, <3>3
  <2>2. Todo' = Todo
    BY <2>1, RowsStay, TodoStays
  <2> QED BY <1>0, <2>1, <2>2, StatusIs
<1>7. CASE Returned \/ UNCHANGED vars
  <2>1. UNCHANGED <<pc, file, call, pos, visited, local, replayed>>
    BY <1>7 DEF Returned, vars
  <2>2. Todo' = Todo
    BY <2>1, RowsStay, TodoStays
  <2>3. Status' = Status
    BY <2>1 DEF Status
  <2> QED BY <2>1, <2>2, <2>3
<1> QED BY <1>1, <1>2, <1>3, <1>4, <1>5, <1>6, <1>7 DEF Next

\* The visitor is given the movies of the file that pass the filter, in file order, each
\* once, until the file ends, the visitor stops or throws, or the file fails to open.
THEOREM LoaderIsStream == Spec => StreamSpec
BY StreamInit, StreamStep, InvCorrect, PTL DEF Spec, StreamSpec, Stream!Spec
=============================================================================
