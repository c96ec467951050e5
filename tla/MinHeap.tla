------------------------------ MODULE MinHeap ------------------------------
(***************************************************************************)
(* imdb::MinHeap<T, Compare> of include/imdb/MinHeap.h: a binary heap in a *)
(* std::vector, one action per public operation and one per iteration of   *)
(* the sift and build loops, so that the state between two iterations is   *)
(* visible.  An operation begins only when pc is "idle"; its loops then    *)
(* run until pc is "idle" again.                                           *)
(*                                                                         *)
(* data is data_; slot j of the vector is data[j + 1], because TLA+        *)
(* sequences start at 1.  All indices below are those of the code.         *)
(***************************************************************************)
EXTENDS Naturals, Sequences, Functions

CONSTANTS
  Items,       \* objects of type T; equal values are different, unordered members
  Less(_, _),  \* comp_
  NoItem,      \* "pop_value has not returned yet"
  MaxSize,     \* bound: elements a heap of the model holds
  CopyMayThrow \* TRUE: copying a T may throw, as std::bad_alloc does

\* comp_ is a strict weak order, as docs/algorithms.md requires of Compare.
ASSUME LessAssumption ==
  /\ \A x \in Items : ~Less(x, x)
  /\ \A x, y \in Items : Less(x, y) \in BOOLEAN
  /\ \A x, y, z \in Items : Less(x, y) /\ Less(y, z) => Less(x, z)
  /\ \A x, y, z \in Items : Less(x, z) => Less(x, y) \/ Less(y, z)
ASSUME BoundAssumption == MaxSize \in Nat /\ CopyMayThrow \in BOOLEAN
ASSUME NoItemAssumption == NoItem \notin Items

VARIABLES
  data,      \* data_
  other,     \* data_ of a second heap, the peer of copy, move and swap
  pc,        \* the loop that is running, or "idle", or where an assert failed
  i,         \* the local i of sift_up and sift_down, 0 when none runs
  b,         \* the local i of build_heap, 0 when it does not run
  torn,      \* history: a range insert threw after appending, no rebuild since
  otherTorn, \* the same for the second heap
  out,       \* what pop_value returned, if it was the last operation to begin
  swaps      \* history: elements swapped so far by the operation that runs

vars == <<data, other, pc, i, b, torn, otherTorn, out, swaps>>

size == Len(data)
At(j) == data[j + 1]

\* Mutant of Parent: the neighbouring slot, a bubble sort.
ParentIsNeighbour(j) == j - 1

Parent(j) == (j - 1) \div 2
Left(j) == 2 * j + 1
Right(j) == 2 * j + 2

Init ==
  /\ data = <<>> /\ other = <<>>
  /\ pc = "idle" /\ i = 0 /\ b = 0
  /\ torn = FALSE /\ otherTorn = FALSE
  /\ out = NoItem
  /\ swaps = 0

-----------------------------------------------------------------------------
\* The loops.

\* Mutant of SwapSlots: the assignment to slot k is forgotten.
SwapSlotsHalf(j, k) == [data EXCEPT ![j + 1] = At(k)]

SwapSlots(j, k) == [data EXCEPT ![j + 1] = At(k), ![k + 1] = At(j)]

SiftUpSwap ==
  /\ pc = "sift_up"
  /\ i > 0
  /\ Less(At(i), At(Parent(i)))
  /\ data' = SwapSlots(i, Parent(i))
  /\ i' = Parent(i)
  /\ swaps' = swaps + 1
  /\ UNCHANGED <<other, pc, b, torn, otherTorn, out>>

SiftUpDone ==
  /\ pc = "sift_up"
  /\ i > 0 => ~Less(At(i), At(Parent(i)))
  /\ pc' = "idle" /\ i' = 0 /\ swaps' = 0
  /\ UNCHANGED <<data, other, b, torn, otherTorn, out>>

SiftUp == SiftUpSwap \/ SiftUpDone

\* Mutant of Smallest: the right child is compared with the element itself, not
\* with the smaller of the two seen so far.
SmallestForgetsLeft(j) ==
  IF Right(j) < size /\ Less(At(Right(j)), At(j)) THEN Right(j)
  ELSE IF Left(j) < size /\ Less(At(Left(j)), At(j)) THEN Left(j) ELSE j

\* The local variable smallest of sift_down.
Smallest(j) ==
  LET l == IF Left(j) < size /\ Less(At(Left(j)), At(j)) THEN Left(j) ELSE j
  IN  IF Right(j) < size /\ Less(At(Right(j)), At(l)) THEN Right(j) ELSE l

SiftDownSwap ==
  /\ pc \in {"pop_down", "build_down"}
  /\ Smallest(i) # i
  /\ data' = SwapSlots(i, Smallest(i))
  /\ i' = Smallest(i)
  /\ swaps' = swaps + 1
  /\ UNCHANGED <<other, pc, b, torn, otherTorn, out>>

SiftDownDone ==
  /\ pc \in {"pop_down", "build_down"}
  /\ Smallest(i) = i
  /\ i' = 0
  /\ IF pc = "build_down"
     THEN pc' = "build" /\ UNCHANGED swaps
     ELSE pc' = "idle" /\ swaps' = 0
  /\ UNCHANGED <<data, other, b, torn, otherTorn, out>>

SiftDown == SiftDownSwap \/ SiftDownDone

\* Mutant of BuildStep: the loop tests i >= 0, which an unsigned i always
\* satisfies, and the decrement of 0 wraps to an index past the vector.
BuildStepUnsigned ==
  /\ pc = "build"
  /\ b' = IF b > 0 THEN b - 1 ELSE MaxSize
  /\ i' = b'
  /\ pc' = "build_down"
  /\ UNCHANGED <<data, other, torn, otherTorn, out, swaps>>

\* The test and decrement of build_heap's loop, then its body's sift_down.
BuildStep ==
  /\ pc = "build"
  /\ IF b > 0
     THEN b' = b - 1 /\ i' = b - 1 /\ pc' = "build_down" /\ UNCHANGED swaps
     ELSE pc' = "idle" /\ swaps' = 0 /\ UNCHANGED <<b, i>>
  /\ UNCHANGED <<data, other, torn, otherTorn, out>>

\* Mutant of StartBuild: the last internal slot is left out.
StartBuildOneLow(s) ==
  /\ data' = s
  /\ torn' = FALSE
  /\ IF Len(s) < 2
     THEN pc' = "idle" /\ UNCHANGED b
     ELSE pc' = "build" /\ b' = (Len(s) - 1) \div 2
  /\ out' = NoItem
  /\ UNCHANGED <<other, i, otherTorn, swaps>>

\* build_heap is called on a vector that now holds s.
StartBuild(s) ==
  /\ data' = s
  /\ torn' = FALSE
  /\ IF Len(s) < 2
     THEN pc' = "idle" /\ UNCHANGED b
     ELSE pc' = "build" /\ b' = (Len(s) - 1) \div 2 + 1
  /\ out' = NoItem
  /\ UNCHANGED <<other, i, otherTorn, swaps>>

-----------------------------------------------------------------------------
\* The public operations.

\* Mutant of Push: sift_up starts one past the new element.
PushSiftsPastEnd(x) ==
  /\ pc = "idle"
  /\ size < MaxSize
  /\ x \in Items \ Range(data)
  /\ data' = Append(data, x)
  /\ i' = size + 1
  /\ pc' = "sift_up"
  /\ out' = NoItem
  /\ UNCHANGED <<other, b, torn, otherTorn, swaps>>

Push(x) ==
  /\ pc = "idle"
  /\ size < MaxSize
  /\ x \in Items \ Range(data)
  /\ data' = Append(data, x)
  /\ i' = size
  /\ pc' = "sift_up"
  /\ out' = NoItem
  /\ UNCHANGED <<other, b, torn, otherTorn, swaps>>

\* The ranges a range insert or a range constructor can be given: sequences of
\* different objects.
Batches ==
  UNION {{s \in [1..m -> Items] : IsInjective(s)} : m \in 0..MaxSize}

PushHeapRange(s) ==
  /\ pc = "idle"
  /\ Len(data \o s) <= MaxSize
  /\ IsInjective(data \o s)
  /\ StartBuild(data \o s)

\* Copying element k + 1 of the range throws: the k copies made before it stay
\* in the vector and build_heap is never reached.
PushHeapRangeThrows(s, k) ==
  /\ pc = "idle"
  /\ CopyMayThrow
  /\ k < Len(s)
  /\ Len(data \o s) <= MaxSize
  /\ IsInjective(data \o s)
  /\ data' = data \o SubSeq(s, 1, k)
  /\ torn' = (torn \/ k > 0)
  /\ out' = NoItem
  /\ UNCHANGED <<other, pc, i, b, otherTorn, swaps>>

\* The initializer-list and range constructors, assigned to the heap.
Construct(s) ==
  /\ pc = "idle"
  /\ StartBuild(s)

\* The body of pop on a non-empty heap.
RemoveTop ==
  /\ IF size = 1
     THEN data' = <<>> /\ UNCHANGED <<pc, i>>
     ELSE /\ data' = SubSeq([data EXCEPT ![1] = At(size - 1)], 1, size - 1)
          /\ i' = 0
          /\ pc' = "pop_down"
  /\ UNCHANGED <<other, b, torn, otherTorn, swaps>>

Pop == pc = "idle" /\ data # <<>> /\ RemoveTop /\ out' = NoItem

\* Mutant of PopValue: the top is read after pop has removed it.
PopValueReadsLate == pc = "idle" /\ Len(data) > 1 /\ RemoveTop /\ out' = data'[1]

PopValue == pc = "idle" /\ data # <<>> /\ RemoveTop /\ out' = At(0)

\* assert(!empty()) in top, pop and pop_value, in a build without NDEBUG.
Aborted == {"top aborts", "pop aborts", "pop_value aborts"}

AssertFails ==
  /\ pc = "idle" /\ data = <<>>
  /\ pc' \in Aborted
  /\ UNCHANGED <<data, other, i, b, torn, otherTorn, out, swaps>>

Clear ==
  /\ pc = "idle"
  /\ data' = <<>> /\ torn' = FALSE
  /\ out' = NoItem
  /\ UNCHANGED <<other, pc, i, b, otherTorn, swaps>>

\* Copy construction and copy assignment from the other heap.
CopyAssign ==
  /\ pc = "idle"
  /\ data' = other /\ torn' = otherTorn
  /\ out' = NoItem
  /\ UNCHANGED <<other, pc, i, b, otherTorn, swaps>>

\* Move construction and move assignment: the source is cleared.
MoveAssign ==
  /\ pc = "idle"
  /\ data' = other /\ torn' = otherTorn
  /\ other' = <<>> /\ otherTorn' = FALSE
  /\ out' = NoItem
  /\ UNCHANGED <<pc, i, b, swaps>>

SwapHeaps ==
  /\ pc = "idle"
  /\ data' = other /\ torn' = otherTorn
  /\ other' = data /\ otherTorn' = torn
  /\ out' = NoItem
  /\ UNCHANGED <<pc, i, b, swaps>>

\* The process is gone after a failed assertion.
Terminated == pc \in Aborted /\ UNCHANGED vars

Next ==
  \/ SiftUp
  \/ SiftDown
  \/ BuildStep
  \/ \E x \in Items : Push(x)
  \/ \E s \in Batches : PushHeapRange(s) \/ Construct(s)
  \/ \E s \in Batches : \E k \in 0..MaxSize : PushHeapRangeThrows(s, k)
  \/ Pop
  \/ PopValue
  \/ AssertFails
  \/ Clear
  \/ CopyAssign
  \/ MoveAssign
  \/ SwapHeaps
  \/ Terminated

\* One thread runs an operation to its end: its loops never stop half-way.
Fairness == WF_vars(SiftUp) /\ WF_vars(SiftDown) /\ WF_vars(BuildStep)

Spec == Init /\ [][Next]_vars
FairSpec == Spec /\ Fairness

-----------------------------------------------------------------------------
Running == {"sift_up", "pop_down", "build", "build_down"}

\* Every variable has the kind of value the code keeps in it, and a running
\* loop stays inside the vector.
TypeOK ==
  /\ data \in Seq(Items) /\ other \in Seq(Items)
  /\ pc \in Running \union Aborted \union {"idle"}
  /\ i \in Nat /\ b \in Nat /\ swaps \in Nat
  /\ torn \in BOOLEAN /\ otherTorn \in BOOLEAN
  /\ out \in Items \union {NoItem}
  /\ pc \in {"sift_up", "pop_down", "build_down"} => i < size
  /\ pc \in {"build", "build_down"} => b <= size

\* The child in slot j is in order with its parent.
EdgeOK(s, j) == ~Less(s[j + 1], s[Parent(j) + 1])

IsHeap(s) == \A j \in 1..(Len(s) - 1) : EdgeOK(s, j)

\* Whenever a caller can see a heap, no element precedes its parent, so top()
\* is a minimum; only a range insert that threw and was not repaired since by
\* clear, by another range insert or by assignment can break this.
HeapOrder ==
  /\ pc = "idle" /\ ~torn => IsHeap(data)
  /\ ~otherTorn => IsHeap(other)

\* No object is duplicated or overwritten by the swaps and moves of slots.
Distinct == IsInjective(data) /\ IsInjective(other)

\* Slot j's children are in order with slot j's parent: what holds while the
\* element in slot j is the one out of place.
Bridged(j) ==
  j > 0 => \A c \in 1..(size - 1) : Parent(c) = j => ~Less(At(c), At(Parent(j)))

\* While sift_up runs only the edge above i can be out of order.
SiftUpInv ==
  pc = "sift_up" /\ ~torn =>
    /\ \A j \in 1..(size - 1) : j # i => EdgeOK(data, j)
    /\ Bridged(i)

\* While pop's sift_down runs only the edges below i can be out of order.
PopDownInv ==
  pc = "pop_down" /\ ~torn =>
    /\ \A j \in 1..(size - 1) : Parent(j) # i => EdgeOK(data, j)
    /\ Bridged(i)

\* Between two rounds of build_heap the subtrees of the slots from b on are
\* heaps; in a round, all edges of those subtrees but the ones below i hold.
BuildInv ==
  /\ pc \in {"build", "build_down"} => ~torn
  /\ pc = "build" =>
       \A j \in 1..(size - 1) : Parent(j) >= b => EdgeOK(data, j)
  /\ pc = "build_down" =>
       /\ b <= i
       /\ \A j \in 1..(size - 1) : Parent(j) >= b /\ Parent(j) # i => EdgeOK(data, j)
       /\ Parent(i) >= b => Bridged(i)

\* The loop invariants of the three loops, which make HeapOrder inductive.
LoopInv == SiftUpInv /\ PopDownInv /\ BuildInv

\* docs/algorithms.md, "Operations and complexities": push and pop swap at most
\* log2(n) times, building a heap of n elements swaps fewer than n times.
SwapBound ==
  /\ pc \in {"sift_up", "pop_down"} => 2 ^ swaps <= size
  /\ pc \in {"build", "build_down"} => swaps < size

\* Every loop ends: an operation that began returns.
OperationsReturn == pc \in Running ~> pc = "idle"

\* What the heap implements: the promise of PriorityQueue, the stored objects
\* being those in the vector.  Every step of a loop is a stutter there.
PQ == INSTANCE PriorityQueue WITH
  contents <- Range(data), ordered <- ~torn,
  other <- Range(other), otherOrdered <- ~otherTorn
PriorityQueueSpec == PQ!Spec
=============================================================================
