---------------------------- MODULE BoundedHeap ----------------------------
(***************************************************************************)
(* The bounded heap of include/imdb/TopK.h, a MinHeap<Movie, greater>: its *)
(* top is the worst movie inside.  A heap is the set of the movies in it,  *)
(* which is what PriorityQueue shows of MinHeap; a visitor call that pops  *)
(* and pushes is one change of that set, no one else sees the set between. *)
(***************************************************************************)
EXTENDS Integers, FiniteSets

CONSTANT Better(_, _) \* Movie::operator<

\* Mutant of Worst: a heap on std::less, whose top is the best movie.
BestOnTop(heap) == {m \in heap : \A x \in heap : ~Better(x, m)}

\* What top() may be and pop_value() may return: the movies that are better than
\* no other (the heap's comp_ is operator>, so its minimum is the worst).
Worst(heap) == {m \in heap : \A x \in heap : ~Better(m, x)}

\* Mutant of Offered: the bound is tested one too late.
OfferedOverfull(k, heap, m) ==
  IF Cardinality(heap) <= k THEN {heap \union {m}}
  ELSE {IF Better(m, t) THEN (heap \ {t}) \union {m} ELSE heap : t \in Worst(heap)}

\* The heaps that offering movie m can leave behind: it is pushed while the heap
\* is below the bound, then it replaces the top if it is strictly better.
Offered(k, heap, m) ==
  IF Cardinality(heap) < k THEN {heap \union {m}}
  ELSE {IF Better(m, t) THEN (heap \ {t}) \union {m} ELSE heap : t \in Worst(heap)}
=============================================================================
