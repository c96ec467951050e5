-------------------------------- MODULE TopK --------------------------------
(***************************************************************************)
(* The single-threaded path of imdb::top_k (include/imdb/TopK.h): one call *)
(* that streams the movies of a file (MovieStream) into a bounded heap     *)
(* (BoundedHeap), drains it worst first and reverses the rows.             *)
(***************************************************************************)
EXTENDS BoundedHeap, Sequences, SequencesExt

CONSTANTS
  Rows,   \* the movies a file can hold, equal ones told apart
  Files,  \* the files, as the sequences of the movies that pass the filter
  Bounds, \* the k a caller can ask for
  Unset   \* the caller's LoadStats before the call

ASSUME BoundAssumption == Bounds \subseteq Nat

ASSUME FileAssumption == \A f \in Files : f \in Seq(Rows) /\ IsInjective(f)

\* Movie::operator< puts equals in classes; without a NaN rating it does (MovieOrder).
ASSUME OrderAssumption ==
  /\ \A x, y \in Rows : Better(x, y) => ~Better(y, x)
  /\ \A x, y, z \in Rows : Better(x, z) => Better(x, y) \/ Better(y, z)

VARIABLES
  k,                   \* the argument
  todo, given, status, \* the stream, as in MovieStream
  heap,                \* the movies in the heap
  rows,                \* the local rows
  stats,               \* rows_kept of the caller's LoadStats
  pc                   \* "start", "streaming", "draining", "returned", "threw"

vars == <<k, todo, given, status, heap, rows, stats, pc>>

Stream == INSTANCE MovieStream

\* The movies of the file that pass the filter.
File == Range(given) \union Range(todo)

Init ==
  /\ k \in Bounds
  /\ todo \in Files /\ given = <<>> /\ status = "open"
  /\ heap = {} /\ rows = <<>> /\ stats = Unset
  /\ pc = "start"

\* k == 0: the file is not even opened.
ReturnNothing ==
  /\ pc = "start" /\ k = 0
  /\ pc' = "returned"
  /\ stats' = 0
  /\ UNCHANGED <<k, todo, given, status, heap, rows>>

Start ==
  /\ pc = "start" /\ k > 0
  /\ pc' = "streaming"
  /\ UNCHANGED <<k, todo, given, status, heap, rows, stats>>

\* reserve(k) throws: k movies are more than a vector can hold.
ReserveThrows ==
  /\ pc = "start" /\ k > 0
  /\ pc' = "threw"
  /\ UNCHANGED <<k, todo, given, status, heap, rows, stats>>

\* StreamMovies throws: the file cannot be opened.
StreamThrows ==
  /\ pc = "streaming" /\ Stream!Fail
  /\ pc' = "threw"
  /\ UNCHANGED <<k, heap, rows, stats>>

\* The visitor is given the next movie; it never stops the stream.
Visit ==
  /\ pc = "streaming" /\ Stream!Deliver("open")
  /\ heap' \in Offered(k, heap, Head(todo))
  /\ UNCHANGED <<k, rows, stats, pc>>

EndStream ==
  /\ pc = "streaming" /\ Stream!End
  /\ stats' = Len(given)
  /\ pc' = "draining"
  /\ UNCHANGED <<k, heap, rows>>

\* rows.push_back(heap.pop_value())
Drain ==
  /\ pc = "draining"
  /\ \E m \in Worst(heap) : heap' = heap \ {m} /\ rows' = Append(rows, m)
  /\ UNCHANGED <<k, todo, given, status, stats, pc>>

\* Mutant of Finish: the rows are returned in heap order.
FinishWorstFirst ==
  /\ pc = "draining" /\ heap = {}
  /\ pc' = "returned"
  /\ UNCHANGED <<k, todo, given, status, heap, rows, stats>>

Finish ==
  /\ pc = "draining" /\ heap = {}
  /\ rows' = Reverse(rows)
  /\ pc' = "returned"
  /\ UNCHANGED <<k, todo, given, status, heap, stats>>

Done == pc \in {"returned", "threw"} /\ UNCHANGED vars

Next ==
  \/ ReturnNothing \/ Start \/ ReserveThrows \/ StreamThrows
  \/ Visit \/ EndStream
  \/ Drain \/ Finish
  \/ Done

Spec == Init /\ [][Next]_vars

-----------------------------------------------------------------------------
\* The kind of value each variable holds, and the bound the heap is named for.
TypeOK ==
  /\ k \in Bounds
  /\ todo \in Seq(Rows) /\ given \in Seq(Rows)
  /\ status \in {"open", "ended", "failed"}
  /\ heap \in SUBSET Rows /\ Cardinality(heap) <= k
  /\ rows \in Seq(Rows)
  /\ stats \in Nat \union {Unset}
  /\ pc \in {"start", "streaming", "draining", "returned", "threw"}

\* While the file is read, the heap holds the best k of the movies given so far:
\* as many as there can be, and none that was rejected or evicted is better than
\* one that is kept, however ties and evictions fell.
HoldsBest ==
  pc = "streaming" =>
    /\ heap \subseteq Range(given)
    /\ Cardinality(heap) = (IF Len(given) <= k THEN Len(given) ELSE k)
    /\ \A lost \in Range(given) \ heap, kept \in heap : ~Better(lost, kept)

\* top_k implements Selection: what it returns is the best k of the file, best
\* first, and a call that throws returns nothing.
Asked == INSTANCE Selection WITH
  input <- File,
  phase <- CASE pc = "returned" -> "answered"
             [] pc = "threw" -> "failed"
             [] OTHER -> "asked",
  answer <- IF pc = "returned" THEN rows ELSE <<>>
SelectionSpec == Asked!Spec
=============================================================================
