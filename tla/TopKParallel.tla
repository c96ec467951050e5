---------------------------- MODULE TopKParallel ----------------------------
(***************************************************************************)
(* The OpenMP path of imdb::top_k (include/imdb/TopK.h, built when CMake's *)
(* IMDB_USE_OPENMP is on).  Every thread of the team streams the file      *)
(* itself into a bounded heap of its own; behind the barrier that ends the *)
(* parallel region the main thread merges the heaps, drains and reverses.  *)
(*                                                                         *)
(* A movie in a heap is a pair <<t, r>>: the copy of row r that thread t   *)
(* parsed.                                                                 *)
(***************************************************************************)
EXTENDS Integers, Sequences, SequencesExt, FiniteSets, FiniteSetsExt

CONSTANTS
  Rows,         \* the movies a file can hold, equal ones told apart
  Better(_, _), \* Movie::operator< on them
  Files,        \* the files, as the sequences of the movies that pass the filter
  Bounds,       \* the k a caller can ask for
  MaxThreads,   \* omp_get_max_threads()
  Unset         \* the caller's LoadStats before the call

ASSUME ParallelAssumption ==
  /\ Bounds \subseteq Nat /\ MaxThreads \in Nat \ {0}
  /\ \A f \in Files : f \in Seq(Rows) /\ IsInjective(f)

\* Movie::operator< puts equals in classes; without a NaN rating it does (MovieOrder).
ASSUME OrderAssumption ==
  /\ \A x, y \in Rows : Better(x, y) => ~Better(y, x)
  /\ \A x, y, z \in Rows : Better(x, z) => Better(x, y) \/ Better(y, z)

Threads == 1..MaxThreads
Copies == Threads \X Rows
BetterCopy(x, y) == Better(x[2], y[2])

Heap == INSTANCE BoundedHeap WITH Better <- BetterCopy

VARIABLES
  k, file,      \* the arguments
  pc,           \* the main thread: "start", "parallel", "joined", "merging",
                \* "draining", "returned", "threw", "terminated"
  team,         \* the threads OpenMP runs the region with
  at,           \* per thread: "outside", "opening", "reading", "ended"
  given,        \* per thread: how many movies its visitor was given
  heaps,        \* per thread: the local heaps
  merging, tmp, \* merge_top_k: the thread whose heap it drains, and its buffer
  global,       \* the local global
  rows,         \* the local rows
  stats         \* rows_kept of the caller's LoadStats

vars == <<k, file, pc, team, at, given, heaps, merging, tmp, global, rows, stats>>

Init ==
  /\ k \in Bounds /\ file \in Files
  /\ pc = "start" /\ team = {}
  /\ at = [t \in Threads |-> "outside"]
  /\ given = [t \in Threads |-> 0]
  /\ heaps = [t \in Threads |-> {}]
  /\ merging = 0 /\ tmp = <<>> /\ global = {} /\ rows = <<>>
  /\ stats = Unset

ReturnNothing ==
  /\ pc = "start" /\ k = 0
  /\ pc' = "returned" /\ stats' = 0
  /\ UNCHANGED <<k, file, team, at, given, heaps, merging, tmp, global, rows>>

\* A reserve(k), of the threads' heaps or of the global one, throws.
ReserveThrows ==
  /\ pc \in {"start", "joined"} /\ k > 0
  /\ pc' = "threw"
  /\ UNCHANGED <<k, file, team, at, given, heaps, merging, tmp, global, rows, stats>>

\* num_threads(n_threads) asks for MaxThreads threads; OpenMP may give fewer.
Fork(n) ==
  /\ pc = "start" /\ k > 0
  /\ pc' = "parallel"
  /\ team' = 1..n
  /\ at' = [t \in Threads |-> IF t <= n THEN "opening" ELSE "outside"]
  /\ UNCHANGED <<k, file, given, heaps, merging, tmp, global, rows, stats>>

InRegion(t, where) == pc = "parallel" /\ at[t] = where

ThreadOpens(t) ==
  /\ InRegion(t, "opening")
  /\ at' = [at EXCEPT ![t] = "reading"]
  /\ UNCHANGED <<k, file, pc, team, given, heaps, merging, tmp, global, rows, stats>>

\* StreamMovies throws in a thread: no handler inside the region, std::terminate.
ThreadThrows(t) ==
  /\ InRegion(t, "opening")
  /\ pc' = "terminated"
  /\ UNCHANGED <<k, file, team, at, given, heaps, merging, tmp, global, rows, stats>>

\* Mutant of Tid: the variable tid is shared, and the first thread has set it.
TidOfFirst(t) == 1

\* The tid that the visitor of thread t has captured.
Tid(t) == t

ThreadVisits(t) ==
  /\ InRegion(t, "reading") /\ given[t] < Len(file)
  /\ given' = [given EXCEPT ![t] = @ + 1]
  /\ \E h \in Heap!Offered(k, heaps[Tid(t)], <<t, file[given[t] + 1]>>) :
       heaps' = [heaps EXCEPT ![Tid(t)] = h]
  /\ UNCHANGED <<k, file, pc, team, at, merging, tmp, global, rows, stats>>

ThreadEnds(t) ==
  /\ InRegion(t, "reading") /\ given[t] = Len(file)
  /\ at' = [at EXCEPT ![t] = "ended"]
  /\ UNCHANGED <<k, file, pc, team, given, heaps, merging, tmp, global, rows, stats>>

\* The implicit barrier at the end of the region.
Join ==
  /\ pc = "parallel" /\ \A t \in team : at[t] = "ended"
  /\ pc' = "joined"
  /\ UNCHANGED <<k, file, team, at, given, heaps, merging, tmp, global, rows, stats>>

MergeFrom(t) ==
  /\ merging' = t
  /\ UNCHANGED <<k, file, team, at, given, heaps, tmp, global, rows>>

BeginMerge ==
  /\ pc = "joined" /\ MergeFrom(1)
  /\ pc' = "merging"
  /\ UNCHANGED stats

\* tmp.push_back(h.pop_value())
MergePop ==
  /\ pc = "merging"
  /\ \E m \in Heap!Worst(heaps[merging]) :
       /\ heaps' = [heaps EXCEPT ![merging] = @ \ {m}]
       /\ tmp' = Append(tmp, m)
  /\ UNCHANGED <<k, file, pc, team, at, given, merging, global, rows, stats>>

MergeOffer ==
  /\ pc = "merging" /\ heaps[merging] = {} /\ tmp # <<>>
  /\ global' \in Heap!Offered(k, global, Head(tmp))
  /\ tmp' = Tail(tmp)
  /\ UNCHANGED <<k, file, pc, team, at, given, heaps, merging, rows, stats>>

Merged == pc = "merging" /\ heaps[merging] = {} /\ tmp = <<>>

\* Mutant of NextHeap: the loop of merge_top_k does not step on.
NextHeapSame == merging

NextHeap == merging + 1

MergeNext ==
  /\ Merged /\ merging < MaxThreads
  /\ MergeFrom(NextHeap)
  /\ UNCHANGED <<pc, stats>>

\* Mutant of SumKept: = for +=, the caller gets the counter of the last thread.
LastKept == given[MaxThreads]

\* The caller's counters are the sums of the threads'.
SumKept == MapThenSumSet(LAMBDA t : given[t], Threads)

MergeEnds ==
  /\ Merged /\ merging = MaxThreads
  /\ stats' = SumKept
  /\ pc' = "draining"
  /\ UNCHANGED <<k, file, team, at, given, heaps, merging, tmp, global, rows>>

Drain ==
  /\ pc = "draining"
  /\ \E m \in Heap!Worst(global) : global' = global \ {m} /\ rows' = Append(rows, m)
  /\ UNCHANGED <<k, file, pc, team, at, given, heaps, merging, tmp, stats>>

Finish ==
  /\ pc = "draining" /\ global = {}
  /\ rows' = Reverse(rows)
  /\ pc' = "returned"
  /\ UNCHANGED <<k, file, team, at, given, heaps, merging, tmp, global, stats>>

Done == pc \in {"returned", "threw", "terminated"} /\ UNCHANGED vars

\* The main thread, outside the region.
MainStep ==
  \/ ReturnNothing \/ ReserveThrows
  \/ \E n \in Threads : Fork(n)
  \/ Join \/ BeginMerge \/ MergePop \/ MergeOffer \/ MergeNext \/ MergeEnds
  \/ Drain \/ Finish

ThreadStep(t) == ThreadOpens(t) \/ ThreadThrows(t) \/ ThreadVisits(t) \/ ThreadEnds(t)

Next == MainStep \/ (\E t \in Threads : ThreadStep(t)) \/ Done

Spec == Init /\ [][Next]_vars

\* The system runs every thread that can go on: none of them ever takes a lock.
FairSpec == Spec /\ WF_vars(MainStep) /\ \A t \in Threads : WF_vars(ThreadStep(t))

-----------------------------------------------------------------------------
\* The kind of value each variable holds; no heap outgrows k.
TypeOK ==
  /\ k \in Bounds /\ file \in Files
  /\ pc \in {"start", "parallel", "joined", "merging", "draining", "returned",
             "threw", "terminated"}
  /\ team \subseteq Threads
  /\ at \in [Threads -> {"outside", "opening", "reading", "ended"}]
  /\ given \in [Threads -> 0..Len(file)]
  /\ heaps \in [Threads -> SUBSET Copies] /\ \A t \in Threads : Cardinality(heaps[t]) <= k
  /\ merging \in 0..MaxThreads /\ tmp \in Seq(Copies) /\ rows \in Seq(Copies)
  /\ global \in SUBSET Copies /\ Cardinality(global) <= k
  /\ stats \in Nat \union {Unset}

\* What the visitor of thread t was given, what all threads are given in the end, and
\* what merge_top_k still holds of it.
Mine(t) == {<<t, file[n]>> : n \in 1..given[t]}
AllCopies == team \X Range(file)
Held == global \union Range(tmp) \union UNION {heaps[t] : t \in Threads}

\* However the threads interleave, each one's heap holds the best k of what its own
\* visitor was given, and the merge loses nothing: as merge_top_k works through the
\* heaps, the movies it still holds are the best k of those all threads were given.
HeapsHoldBest ==
  /\ pc = "parallel" =>
       \A t \in Threads :
         /\ heaps[t] \subseteq Mine(t)
         /\ Cardinality(heaps[t]) = Min({given[t], k})
         /\ \A lost \in Mine(t) \ heaps[t], kept \in heaps[t] : ~BetterCopy(lost, kept)
  /\ pc \in {"joined", "merging"} =>
       /\ Held \subseteq AllCopies
       /\ \A x \in AllCopies \ Held : Cardinality({y \in Held : ~BetterCopy(x, y)}) >= k

\* What the code computes: the best k of the copies of all threads, so that a row
\* comes once for every thread of the team, and counters that are sums.
Answered == INSTANCE Selection WITH
  Rows <- Copies, Better <- BetterCopy, input <- AllCopies, phase <- "answered", answer <- rows

CopiesSelected ==
  pc = "returned" =>
    /\ k > 0 => Answered!IsBestOf(rows, AllCopies)
    /\ stats = IF k = 0 THEN 0 ELSE Cardinality(team) * Len(file)

\* Every call comes to an end: no thread waits at the barrier for one that is gone,
\* and an exception in one of them, which no other can see, ends the whole program.
CallEnds == <>(pc \in {"returned", "threw", "terminated"})

-----------------------------------------------------------------------------
\* What comments of the repository say and the code does not do.

\* TopK.h:22-25: "the streaming loader is partitioned across `num_threads` workers,
\* each running its own bounded heap over its slice": no row reaches two workers,
\* so none is returned twice.
NoRowTwice ==
  pc = "returned" =>
    \A i, j \in 1..Len(rows) : rows[i][2] = rows[j][2] => i = j
=============================================================================
