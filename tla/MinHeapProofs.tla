--------------------------- MODULE MinHeapProofs ---------------------------
(***************************************************************************)
(* Proofs about MinHeap for every set of objects, every strict weak order  *)
(* and every size: types, the heap order with the loop invariants that     *)
(* make it inductive, that no object is lost or duplicated, that the heap  *)
(* implements PriorityQueue, and how often its loops swap.                 *)
(***************************************************************************)
EXTENDS MinHeap, FiniteSetTheorems, FunctionTheorems, SequenceTheorems,
        WellFoundedInduction, TLAPS

\* Less is a strict weak order on Items, in the forms the proofs use.  No two objects
\* are less than each other.
LEMMA Asymmetry ==
  ASSUME NEW x \in Items, NEW y \in Items, Less(x, y)
  PROVE  ~Less(y, x)
BY LessAssumption

\* operator< chains: below what is below is below.
LEMMA Transitivity ==
  ASSUME NEW x \in Items, NEW y \in Items, NEW z \in Items, Less(x, y), Less(y, z)
  PROVE  Less(x, z)
BY LessAssumption

\* Not being less chains as well: ties of operator< are an equivalence.
LEMMA NegativeTransitivity ==
  ASSUME NEW x \in Items, NEW y \in Items, NEW z \in Items, ~Less(x, y), ~Less(y, z)
  PROVE  ~Less(x, z)
BY LessAssumption

\* The implicit tree: a slot is the left or the right child of its parent.
LEMMA ParentFacts ==
  ASSUME NEW j \in Nat, j > 0
  PROVE  /\ Parent(j) \in Nat
         /\ Parent(j) < j
         /\ j = Left(Parent(j)) \/ j = Right(Parent(j))
BY DEF Parent, Left, Right

\* The two children of a slot lie behind it, differ, and have it as parent.
LEMMA ChildFacts ==
  ASSUME NEW j \in Nat
  PROVE  /\ Left(j) \in Nat /\ Right(j) \in Nat
         /\ Left(j) > j /\ Right(j) > j
         /\ Left(j) # Right(j)
         /\ Parent(Left(j)) = j /\ Parent(Right(j)) = j
BY DEF Parent, Left, Right

\* SwapSlots exchanges two elements and leaves the others.
LEMMA SwapFacts ==
  ASSUME data \in Seq(Items),
         NEW j \in 0..(size - 1), NEW k \in 0..(size - 1), j # k
  PROVE  /\ SwapSlots(j, k) \in Seq(Items)
         /\ Len(SwapSlots(j, k)) = size
         /\ SwapSlots(j, k)[j + 1] = At(k)
         /\ SwapSlots(j, k)[k + 1] = At(j)
         /\ \A m \in 0..(size - 1) : m # j /\ m # k => SwapSlots(j, k)[m + 1] = At(m)
BY DEF SwapSlots, At, size

-----------------------------------------------------------------------------
\* The edges of the tree.

\* What SiftUpSwap does to the edges of the tree.
LEMMA SiftUpSwapFacts ==
  ASSUME data \in Seq(Items), NEW k \in 1..(size - 1),
         Less(At(k), At(Parent(k))),
         \A j \in 1..(size - 1) : j # k => EdgeOK(data, j),
         Bridged(k),
         NEW d, d = SwapSlots(k, Parent(k))
  PROVE  /\ \A j \in 1..(size - 1) : j # Parent(k) => EdgeOK(d, j)
         /\ Parent(k) > 0 => \A c \in 1..(size - 1) :
              Parent(c) = Parent(k) => ~Less(d[c + 1], d[Parent(Parent(k)) + 1])
<1> DEFINE p == Parent(k)
<1>1. p \in 0..(size - 1) /\ p < k /\ k \in 0..(size - 1) /\ size \in Nat
  BY ParentFacts DEF size
<1>2. /\ d \in Seq(Items) /\ Len(d) = size
      /\ d[k + 1] = At(p) /\ d[p + 1] = At(k)
      /\ \A m \in 0..(size - 1) : m # k /\ m # p => d[m + 1] = At(m)
  BY <1>1, SwapFacts
<1>3. \A m \in 0..(size - 1) : At(m) \in Items
  BY DEF At, size
<1>4. \A j \in 1..(size - 1) : Parent(j) \in 0..(size - 1) /\ Parent(j) < j
  BY <1>1, ParentFacts
<1>5. \A j \in 1..(size - 1) : j # k => ~Less(At(j), At(Parent(j)))
  BY DEF EdgeOK, At
<1>6. ASSUME NEW j \in 1..(size - 1), j # p
      PROVE  ~Less(d[j + 1], d[Parent(j) + 1])
  <2>1. CASE j = k
    BY <2>1, <1>1, <1>2, <1>3, Asymmetry
  <2>2. CASE j # k /\ Parent(j) = p
    BY <2>2, <1>1, <1>2, <1>3, <1>5, <1>6, Transitivity
  <2>3. CASE j # k /\ Parent(j) = k
    BY <2>3, <1>1, <1>2, <1>3, <1>6 DEF Bridged
  <2>4. CASE j # k /\ Parent(j) # p /\ Parent(j) # k
    <3>1. d[j + 1] = At(j)
      BY <2>4, <1>1, <1>2, <1>6
    <3>2. d[Parent(j) + 1] = At(Parent(j))
      BY <2>4, <1>1, <1>2, <1>4
    <3> QED BY <3>1, <3>2, <1>5, <2>4
  <2> QED BY <2>1, <2>2, <2>3, <2>4
<1>7. ASSUME p > 0, NEW c \in 1..(size - 1), Parent(c) = p
      PROVE  ~Less(d[c + 1], d[Parent(p) + 1])
  <2>1. p \in 1..(size - 1) /\ Parent(p) \in 0..(size - 1) /\ Parent(p) < p /\ p # k
    BY <1>1, <1>4, <1>7
  <2>2. ~Less(At(p), At(Parent(p))) /\ d[Parent(p) + 1] = At(Parent(p))
    BY <2>1, <1>2, <1>5, <1>1
  <2>3. CASE c = k
    BY <2>1, <2>2, <2>3, <1>2
  <2>4. CASE c # k
    <3>1. c # p /\ d[c + 1] = At(c) /\ ~Less(At(c), At(p))
      BY <2>4, <1>2, <1>4, <1>5, <1>7
    <3> QED BY <3>1, <2>1, <2>2, <1>3, <1>1, NegativeTransitivity
  <2> QED BY <2>3, <2>4
<1> QED BY <1>6, <1>7 DEF EdgeOK

\* What the choice of smallest in sift_down guarantees.
LEMMA SmallestFacts ==
  ASSUME data \in Seq(Items), NEW k \in 0..(size - 1)
  PROVE  /\ Smallest(k) \in 0..(size - 1)
         /\ Smallest(k) # k => /\ Smallest(k) > k
                               /\ Parent(Smallest(k)) = k
                               /\ Less(At(Smallest(k)), At(k))
         /\ \A j \in 1..(size - 1) : Parent(j) = k => ~Less(At(j), At(Smallest(k)))
<1>1. size \in Nat /\ k \in Nat /\ \A m \in 0..(size - 1) : At(m) \in Items
  BY DEF At, size
<1>2. /\ Left(k) \in Nat /\ Right(k) \in Nat /\ Left(k) > k /\ Right(k) > k
      /\ Left(k) # Right(k) /\ Parent(Left(k)) = k /\ Parent(Right(k)) = k
  BY <1>1, ChildFacts
<1>3. \A j \in 1..(size - 1) : Parent(j) = k => j = Left(k) \/ j = Right(k)
  BY <1>1, ParentFacts
<1> DEFINE leftLess == Left(k) < size /\ Less(At(Left(k)), At(k))
           l == IF leftLess THEN Left(k) ELSE k
<1>4. Smallest(k) = IF Right(k) < size /\ Less(At(Right(k)), At(l)) THEN Right(k) ELSE l
  BY DEF Smallest
<1>5. l \in 0..(size - 1) /\ At(l) \in Items
  BY <1>1, <1>2
<1>6. CASE Right(k) < size /\ Less(At(Right(k)), At(l))
  <2>1. Smallest(k) = Right(k) /\ Right(k) \in 0..(size - 1)
    BY <1>1, <1>2, <1>4, <1>6
  <2>2. Less(At(Right(k)), At(k))
    <3>1. CASE leftLess
      BY <3>1, <2>1, <1>6, <1>5, <1>1, Transitivity
    <3>2. CASE ~leftLess
      BY <3>2, <1>6
    <3> QED BY <3>1, <3>2
  <2>3. Left(k) < size => ~Less(At(Left(k)), At(Right(k)))
    <3>1. CASE leftLess
      BY <3>1, <2>1, <1>6, <1>5, <1>1, Asymmetry
    <3>2. CASE ~leftLess
      BY <3>2, <2>1, <2>2, <1>1, <1>2, Transitivity
    <3> QED BY <3>1, <3>2
  <2>4. ~Less(At(Right(k)), At(Right(k)))
    BY <2>1, <1>1, LessAssumption
  <2> QED BY <2>1, <2>2, <2>3, <2>4, <1>1, <1>2, <1>3
<1>7. CASE ~(Right(k) < size /\ Less(At(Right(k)), At(l)))
  <2>1. Smallest(k) = l
    BY <1>4, <1>7
  <2>2. \A j \in 1..(size - 1) : Parent(j) = k => ~Less(At(j), At(l))
    <3> SUFFICES ASSUME NEW j \in 1..(size - 1), Parent(j) = k
                 PROVE  ~Less(At(j), At(l))
      OBVIOUS
    <3>1. CASE j = Right(k)
      BY <3>1, <1>7, <1>1
    <3>2. CASE j = Left(k) /\ leftLess
      BY <3>2, <1>5, LessAssumption
    <3>3. CASE j = Left(k) /\ ~leftLess
      BY <3>3, <1>1
    <3> QED BY <3>1, <3>2, <3>3, <1>3
  <2> QED BY <2>1, <2>2, <1>5, <1>2
<1> QED BY <1>6, <1>7

\* What SiftDownSwap does to the edges of the tree below the slots from lo on.
LEMMA SiftDownSwapFacts ==
  ASSUME data \in Seq(Items), NEW k \in 0..(size - 1), NEW lo \in Nat, lo <= k,
         Smallest(k) # k,
         \A j \in 1..(size - 1) : Parent(j) >= lo /\ Parent(j) # k => EdgeOK(data, j),
         Parent(k) >= lo => Bridged(k),
         NEW d, d = SwapSlots(k, Smallest(k))
  PROVE  /\ \A j \in 1..(size - 1) :
              Parent(j) >= lo /\ Parent(j) # Smallest(k) => EdgeOK(d, j)
         /\ \A c \in 1..(size - 1) :
              Parent(c) = Smallest(k) => ~Less(d[c + 1], d[Parent(Smallest(k)) + 1])
<1> DEFINE s == Smallest(k)
<1>1. /\ size \in Nat /\ k \in Nat /\ s \in 1..(size - 1) /\ s > k /\ Parent(s) = k
      /\ Less(At(s), At(k))
      /\ \A j \in 1..(size - 1) : Parent(j) = k => ~Less(At(j), At(s))
  BY SmallestFacts DEF size
<1>2. /\ d \in Seq(Items) /\ Len(d) = size
      /\ d[k + 1] = At(s) /\ d[s + 1] = At(k)
      /\ \A m \in 0..(size - 1) : m # k /\ m # s => d[m + 1] = At(m)
  BY <1>1, SwapFacts
<1>3. \A m \in 0..(size - 1) : At(m) \in Items
  BY DEF At, size
<1>4. \A j \in 1..(size - 1) : Parent(j) \in 0..(size - 1) /\ Parent(j) < j
  BY <1>1, ParentFacts
<1>5. \A j \in 1..(size - 1) :
        Parent(j) >= lo /\ Parent(j) # k => ~Less(At(j), At(Parent(j)))
  BY DEF EdgeOK, At
<1> HIDE DEF s
<1>6. ASSUME NEW j \in 1..(size - 1), Parent(j) >= lo, Parent(j) # s
      PROVE  ~Less(d[j + 1], d[Parent(j) + 1])
  <2>1. CASE j = s
    BY <2>1, <1>1, <1>2, <1>3, Asymmetry
  <2>2. CASE j # s /\ Parent(j) = k
    <3>1. d[j + 1] = At(j)
      BY <2>2, <1>1, <1>2, <1>4
    <3> QED BY <3>1, <2>2, <1>1, <1>2
  <2>3. CASE j = k
    <3>1. Bridged(k) /\ k > 0 /\ d[Parent(k) + 1] = At(Parent(k))
      BY <2>3, <1>6, <1>1, <1>2, <1>4
    <3> QED BY <3>1, <2>3, <1>1, <1>2 DEF Bridged
  <2>4. CASE j # s /\ j # k /\ Parent(j) # k
    <3>1. d[j + 1] = At(j)
      BY <2>4, <1>1, <1>2
    <3>2. d[Parent(j) + 1] = At(Parent(j))
      BY <2>4, <1>1, <1>2, <1>4, <1>6
    <3> QED BY <3>1, <3>2, <1>5, <1>6, <2>4
  <2> QED BY <2>1, <2>2, <2>3, <2>4
<1>7. ASSUME NEW c \in 1..(size - 1), Parent(c) = s
      PROVE  ~Less(d[c + 1], d[Parent(s) + 1])
  <2>1. c > s /\ d[c + 1] = At(c) /\ d[Parent(s) + 1] = At(s)
    BY <1>1, <1>2, <1>4, <1>7
  <2> QED BY <2>1, <1>1, <1>5, <1>7
<1> QED BY <1>6, <1>7 DEF EdgeOK, s

-----------------------------------------------------------------------------
\* Type correctness.  A loop that swaps keeps its index inside the vector.

\* A swap of the loops keeps a vector of objects of the same length.
LEMMA SwapTypes ==
  ASSUME TypeOK, NEW k \in 0..(size - 1), i < size, i # k
  PROVE  SwapSlots(i, k) \in Seq(Items) /\ Len(SwapSlots(i, k)) = size
BY SwapFacts DEF TypeOK, size

\* The vectors given to the bulk operations are sequences of objects.
LEMMA BatchIsSeq == \A s \in Batches : s \in Seq(Items) /\ Len(s) \in Nat
BY BoundAssumption DEF Batches

\* The empty vector, of a default-constructed or moved-from heap, is a sequence.
LEMMA EmptyIsSeq == <<>> \in Seq(Items) /\ Len(<<>>) = 0
OBVIOUS

\* Starting heapify on any vector keeps the types.
LEMMA StartBuildTypes ==
  ASSUME TypeOK, NEW s \in Seq(Items), pc = "idle", StartBuild(s)
  PROVE  TypeOK'
<1>1. Len(s) \in Nat /\ size' = Len(s) /\ data' \in Seq(Items)
  BY DEF StartBuild, size
<1>2. CASE Len(s) < 2
  BY <1>1, <1>2 DEF TypeOK, StartBuild, Running, Aborted
<1>3. CASE ~(Len(s) < 2)
  <2>1. pc' = "build" /\ b' \in Nat /\ b' <= size'
    BY <1>1, <1>3 DEF StartBuild
  <2> QED BY <1>1, <2>1 DEF TypeOK, StartBuild, Running, Aborted
<1> QED BY <1>2, <1>3

\* Slot 0 takes the last element and the last slot is dropped.
LEMMA RemoveTopFacts ==
  ASSUME data \in Seq(Items), data # <<>>, RemoveTop
  PROVE  /\ size \in Nat \ {0}
         /\ data' \in Seq(Items)
         /\ size' = size - 1
         /\ size > 1 => data'[1] = At(size - 1)
         /\ \A m \in 1..(size - 2) : data'[m + 1] = At(m)
<1>1. size \in Nat \ {0} /\ DOMAIN data = 1..size /\ \A m \in 1..size : data[m] \in Items
  BY DEF size
<1>2. CASE size = 1
  BY <1>1, <1>2, EmptyIsSeq DEF RemoveTop, size
<1>3. CASE size # 1
  <2> DEFINE t == [data EXCEPT ![1] = At(size - 1)]
  <2>1. size - 1 \in 1..size /\ At(size - 1) \in Items
    BY <1>1, <1>3 DEF At
  <2>2. /\ t[1] = At(size - 1) /\ \A m \in 2..size : t[m] = data[m]
    BY <1>1
  <2>3. \A m \in 1..(size - 1) : t[m] \in Items
    BY <1>1, <2>1, <2>2
  <2>4. data' = SubSeq(t, 1, size - 1)
    BY <1>3 DEF RemoveTop
  <2> HIDE DEF t
  <2>5. /\ data' \in Seq(Items) /\ Len(data') = size - 1
        /\ \A m \in 1..(size - 1) : data'[m] = t[m]
    BY <1>1, <1>3, <2>1, <2>3, <2>4, SubSeqProperties
  <2>6. ASSUME NEW m \in 1..(size - 2) PROVE data'[m + 1] = At(m)
    BY <1>1, <2>2, <2>5 DEF At
  <2> QED BY <1>1, <1>3, <2>1, <2>2, <2>5, <2>6 DEF size
<1> QED BY <1>2, <1>3

\* Taking the root out keeps the types.
LEMMA RemoveTopTypes ==
  ASSUME TypeOK, pc = "idle", data # <<>>, RemoveTop, out' \in Items \union {NoItem}
  PROVE  TypeOK'
<1>1. data' \in Seq(Items) /\ size' = size - 1 /\ size \in Nat \ {0}
  BY RemoveTopFacts DEF TypeOK
<1>2. CASE size = 1
  BY <1>1, <1>2 DEF TypeOK, RemoveTop, Running, Aborted
<1>3. CASE size # 1
  <2>1. i' = 0 /\ pc' = "pop_down" /\ i' < size'
    BY <1>1, <1>3 DEF RemoveTop
  <2> QED BY <1>1, <2>1 DEF TypeOK, RemoveTop, Running, Aborted
<1> QED BY <1>2, <1>3

\* Every variable of the heap always holds a value of its kind: no loop moves its
\* index out of the vector.
THEOREM TypeCorrect == Spec => []TypeOK
<1>1. Init => TypeOK
  <2> SUFFICES ASSUME Init PROVE TypeOK
    OBVIOUS
  <2>1. data \in Seq(Items) /\ other \in Seq(Items)
    BY EmptyIsSeq DEF Init
  <2> QED BY <2>1 DEF Init, TypeOK
<1>2. TypeOK /\ [Next]_vars => TypeOK'
  <2> SUFFICES ASSUME TypeOK, [Next]_vars PROVE TypeOK'
    OBVIOUS
  <2>1. CASE SiftUpSwap
    <3>1. i \in Nat /\ i > 0 /\ i < size /\ Parent(i) \in 0..(size - 1) /\ Parent(i) # i
      BY <2>1, ParentFacts DEF SiftUpSwap, TypeOK, size
    <3> QED BY <2>1, <3>1, SwapTypes DEF SiftUpSwap, TypeOK, Running, Aborted, size
  <2>2. CASE SiftUpDone
    BY <2>2 DEF SiftUpDone, TypeOK, Running, Aborted, size
  <2>3. CASE SiftDownSwap
    <3>1. i \in 0..(size - 1) /\ Smallest(i) \in 0..(size - 1) /\ Smallest(i) # i
      BY <2>3, SmallestFacts DEF SiftDownSwap, TypeOK, size
    <3>2. data' \in Seq(Items) /\ size' = size /\ i' \in Nat /\ i' < size'
      BY <2>3, <3>1, SwapTypes DEF SiftDownSwap, TypeOK, size
    <3>3. swaps' \in Nat /\ pc' = pc /\ pc \notin {"build", "idle"}
      BY <2>3 DEF SiftDownSwap, TypeOK
    <3> QED BY <2>3, <3>2, <3>3 DEF SiftDownSwap, TypeOK
  <2>4. CASE SiftDownDone
    <3>1. size' = size /\ data' = data
      BY <2>4 DEF SiftDownDone, size
    <3>2. CASE pc = "build_down"
      BY <2>4, <3>1, <3>2 DEF SiftDownDone, TypeOK, Running, Aborted
    <3>3. CASE pc # "build_down"
      <4>1. pc' = "idle" /\ i' \in Nat /\ swaps' \in Nat
        BY <2>4, <3>3 DEF SiftDownDone
      <4> QED BY <2>4, <3>1, <4>1 DEF SiftDownDone, TypeOK
    <3> QED BY <3>2, <3>3
  <2>5. CASE BuildStep
    <3>1. CASE b > 0
      <4>1. b - 1 \in Nat /\ b - 1 < size /\ b - 1 <= size /\ size' = size /\ pc' = "build_down"
        BY <2>5, <3>1 DEF BuildStep, TypeOK, size
      <4>2. b' = b - 1 /\ i' = b - 1 /\ swaps' = swaps /\ b' <= size'
        BY <2>5, <3>1, <4>1 DEF BuildStep, TypeOK
      <4> QED BY <2>5, <4>1, <4>2 DEF BuildStep, TypeOK, Running
    <3>2. CASE ~(b > 0)
      BY <2>5, <3>2 DEF BuildStep, TypeOK, Running, Aborted
    <3> QED BY <3>1, <3>2
  <2>6. ASSUME NEW x \in Items, Push(x) PROVE TypeOK'
    BY <2>6 DEF Push, TypeOK, Running, Aborted, size
  <2>7. ASSUME NEW s \in Batches, PushHeapRange(s) \/ Construct(s) PROVE TypeOK'
    <3>1. s \in Seq(Items) /\ data \in Seq(Items) /\ data \o s \in Seq(Items)
      BY BatchIsSeq DEF TypeOK
    <3> QED BY <2>7, <3>1, StartBuildTypes DEF PushHeapRange, Construct
  <2>8. ASSUME NEW s \in Batches, NEW k \in 0..MaxSize, PushHeapRangeThrows(s, k)
        PROVE  TypeOK'
    <3>1. data' \in Seq(Items)
      BY <2>8, BatchIsSeq, BoundAssumption DEF PushHeapRangeThrows, TypeOK
    <3> QED BY <2>8, <3>1 DEF PushHeapRangeThrows, TypeOK, Running, Aborted
  <2>9. CASE Pop
    BY <2>9, RemoveTopTypes DEF Pop
  <2>10. CASE PopValue
    <3>1. At(0) \in Items
      BY <2>10 DEF PopValue, TypeOK, At
    <3> QED BY <2>10, <3>1, RemoveTopTypes DEF PopValue
  <2>11. CASE AssertFails
    BY <2>11 DEF AssertFails, TypeOK, Running, Aborted
  <2>12. CASE Clear
    BY <2>12, EmptyIsSeq DEF Clear, TypeOK, Running, Aborted
  <2>13. CASE CopyAssign
    BY <2>13 DEF CopyAssign, TypeOK, Running, Aborted
  <2>14. CASE MoveAssign
    BY <2>14, EmptyIsSeq DEF MoveAssign, TypeOK, Running, Aborted
  <2>15. CASE SwapHeaps
    BY <2>15 DEF SwapHeaps, TypeOK, Running, Aborted
  <2>16. CASE Terminated \/ UNCHANGED vars
    BY <2>16 DEF Terminated, vars, TypeOK, size
  <2> QED
    BY <2>1, <2>2, <2>3, <2>4, <2>5, <2>6, <2>7, <2>8, <2>9, <2>10, <2>11, <2>12,
       <2>13, <2>14, <2>15, <2>16 DEF Next, SiftUp, SiftDown
<1> QED BY <1>1, <1>2, PTL DEF Spec

-----------------------------------------------------------------------------
\* Heap order.  It holds between operations only, so what is inductive is its
\* conjunction with the invariants of the loops.
Inv == TypeOK /\ HeapOrder /\ LoopInv

\* A swap of sift_up leaves at most the edge above the moved slot out of order.
LEMMA InvSiftUpSwap == Inv /\ SiftUpSwap => HeapOrder' /\ LoopInv'
<1> SUFFICES ASSUME Inv, SiftUpSwap PROVE HeapOrder' /\ LoopInv'
  OBVIOUS
<1>1. /\ data \in Seq(Items) /\ i \in 1..(size - 1) /\ pc = "sift_up" /\ pc' = "sift_up"
      /\ data' = SwapSlots(i, Parent(i)) /\ i' = Parent(i)
      /\ Less(At(i), At(Parent(i)))
  BY DEF Inv, TypeOK, SiftUpSwap, size
<1>2. size' = size
  BY <1>1, ParentFacts, SwapFacts DEF size
<1>3. ASSUME ~torn' PROVE SiftUpInv'
  <2>1. /\ \A j \in 1..(size - 1) : j # i => EdgeOK(data, j)
        /\ Bridged(i)
    BY <1>1, <1>3 DEF Inv, LoopInv, SiftUpInv, SiftUpSwap
  <2>2. /\ \A j \in 1..(size - 1) : j # i' => EdgeOK(data', j)
        /\ i' > 0 => \A c \in 1..(size - 1) :
             Parent(c) = i' => ~Less(data'[c + 1], data'[Parent(i') + 1])
    BY <1>1, <2>1, SiftUpSwapFacts
  <2> QED BY <1>2, <2>2 DEF SiftUpInv, Bridged, At
<1>4. SiftUpInv' /\ PopDownInv' /\ BuildInv'
  BY <1>1, <1>3 DEF SiftUpInv, PopDownInv, BuildInv
<1>5. HeapOrder'
  BY <1>1 DEF Inv, HeapOrder, SiftUpSwap, IsHeap
<1> QED BY <1>4, <1>5 DEF LoopInv

\* sift_up ends with every edge in order.
LEMMA InvSiftUpDone == Inv /\ SiftUpDone => HeapOrder' /\ LoopInv'
<1> SUFFICES ASSUME Inv, SiftUpDone PROVE HeapOrder' /\ LoopInv'
  OBVIOUS
<1>1. ASSUME ~torn PROVE IsHeap(data)
  <2>1. \A j \in 1..(size - 1) : j # i => EdgeOK(data, j)
    BY <1>1 DEF Inv, LoopInv, SiftUpInv, SiftUpDone
  <2>2. i > 0 => EdgeOK(data, i)
    BY DEF SiftUpDone, EdgeOK, At
  <2> QED BY <2>1, <2>2 DEF IsHeap, size
<1>2. HeapOrder'
  BY <1>1 DEF Inv, HeapOrder, SiftUpDone
<1>3. SiftUpInv' /\ PopDownInv' /\ BuildInv'
  BY DEF SiftUpDone, SiftUpInv, PopDownInv, BuildInv
<1> QED BY <1>2, <1>3 DEF LoopInv

\* A swap of sift_down leaves at most the edges below the moved slot out of order.
LEMMA InvSiftDownSwap == Inv /\ SiftDownSwap => HeapOrder' /\ LoopInv'
<1> SUFFICES ASSUME Inv, SiftDownSwap PROVE HeapOrder' /\ LoopInv'
  OBVIOUS
<1>1. /\ data \in Seq(Items) /\ i \in 0..(size - 1) /\ b \in Nat
      /\ pc \in {"pop_down", "build_down"} /\ pc' = pc
      /\ Smallest(i) # i /\ data' = SwapSlots(i, Smallest(i)) /\ i' = Smallest(i)
      /\ b' = b /\ torn' = torn
  BY DEF Inv, TypeOK, SiftDownSwap, size
<1>2. /\ size' = size /\ i' > i /\ size \in Nat
      /\ \A j \in 1..(size - 1) : Parent(j) \in Nat
  BY <1>1, SmallestFacts, SwapFacts, ParentFacts DEF size
<1>3. PopDownInv'
  <2> SUFFICES ASSUME pc = "pop_down", ~torn
               PROVE  /\ \A j \in 1..(size - 1) : Parent(j) # i' => EdgeOK(data', j)
                      /\ \A c \in 1..(size - 1) :
                           Parent(c) = i' => ~Less(data'[c + 1], data'[Parent(i') + 1])
    BY <1>1, <1>2 DEF PopDownInv, Bridged, At
  <2>1. /\ \A j \in 1..(size - 1) : Parent(j) >= 0 /\ Parent(j) # i => EdgeOK(data, j)
        /\ Parent(i) >= 0 => Bridged(i)
    BY DEF Inv, LoopInv, PopDownInv
  <2>2. 0 \in Nat /\ 0 <= i
    BY <1>1
  <2>3. /\ \A j \in 1..(size - 1) : Parent(j) >= 0 /\ Parent(j) # i' => EdgeOK(data', j)
        /\ \A c \in 1..(size - 1) :
             Parent(c) = i' => ~Less(data'[c + 1], data'[Parent(i') + 1])
    BY <1>1, <2>1, <2>2, SiftDownSwapFacts
  <2> QED BY <1>2, <2>3
<1>4. BuildInv'
  <2> SUFFICES ASSUME pc = "build_down"
               PROVE  /\ ~torn
                      /\ b <= i'
                      /\ \A j \in 1..(size - 1) :
                           Parent(j) >= b /\ Parent(j) # i' => EdgeOK(data', j)
                      /\ \A c \in 1..(size - 1) :
                           Parent(c) = i' => ~Less(data'[c + 1], data'[Parent(i') + 1])
    BY <1>1, <1>2 DEF BuildInv, Bridged, At
  <2>1. /\ ~torn /\ b <= i
        /\ \A j \in 1..(size - 1) : Parent(j) >= b /\ Parent(j) # i => EdgeOK(data, j)
        /\ Parent(i) >= b => Bridged(i)
    BY DEF Inv, LoopInv, BuildInv
  <2>2. /\ \A j \in 1..(size - 1) : Parent(j) >= b /\ Parent(j) # i' => EdgeOK(data', j)
        /\ \A c \in 1..(size - 1) :
             Parent(c) = i' => ~Less(data'[c + 1], data'[Parent(i') + 1])
    BY <1>1, <2>1, SiftDownSwapFacts
  <2>3. b <= i'
    BY <1>1, <1>2, <2>1, SmallestFacts
  <2> QED BY <2>1, <2>2, <2>3
<1>5. HeapOrder' /\ SiftUpInv'
  BY <1>1 DEF Inv, HeapOrder, SiftDownSwap, IsHeap, SiftUpInv
<1> QED BY <1>3, <1>4, <1>5 DEF LoopInv

\* sift_down ends with the edges below its start in order: the heap after a pop,
\* one more subtree while heapify runs.
LEMMA InvSiftDownDone == Inv /\ SiftDownDone => HeapOrder' /\ LoopInv'
<1> SUFFICES ASSUME Inv, SiftDownDone PROVE HeapOrder' /\ LoopInv'
  OBVIOUS
<1>1. /\ data \in Seq(Items) /\ i \in 0..(size - 1) /\ Smallest(i) = i
      /\ pc \in {"pop_down", "build_down"} /\ data' = data /\ size' = size
  BY DEF Inv, TypeOK, SiftDownDone, size
<1>2. \A j \in 1..(size - 1) : Parent(j) = i => EdgeOK(data, j)
  BY <1>1, SmallestFacts DEF EdgeOK, At
<1>3. CASE pc = "pop_down"
  <2>1. ~torn => IsHeap(data)
    BY <1>2, <1>3 DEF Inv, LoopInv, PopDownInv, IsHeap, size
  <2> QED BY <1>1, <1>3, <2>1
    DEF Inv, HeapOrder, LoopInv, SiftUpInv, PopDownInv, BuildInv, SiftDownDone
<1>4. CASE pc = "build_down"
  <2>1. ~torn /\ \A j \in 1..(size - 1) : Parent(j) >= b => EdgeOK(data, j)
    BY <1>2, <1>4 DEF Inv, LoopInv, BuildInv
  <2>2. pc' = "build" /\ torn' = torn /\ b' = b
    BY <1>4 DEF SiftDownDone
  <2> QED BY <1>1, <1>4, <2>1, <2>2
    DEF Inv, HeapOrder, LoopInv, SiftUpInv, PopDownInv, BuildInv, SiftDownDone
<1> QED BY <1>1, <1>3, <1>4

\* heapify's loop goes on to the subtree before, or ends with a heap.
LEMMA InvBuildStep == Inv /\ BuildStep => HeapOrder' /\ LoopInv'
<1> SUFFICES ASSUME Inv, BuildStep PROVE HeapOrder' /\ LoopInv'
  OBVIOUS
<1>1. /\ pc = "build" /\ data' = data /\ size' = size /\ size \in Nat /\ b \in Nat
      /\ ~torn /\ ~torn' /\ other' = other /\ otherTorn' = otherTorn
      /\ \A j \in 1..(size - 1) : Parent(j) >= b => EdgeOK(data, j)
  BY DEF Inv, TypeOK, LoopInv, BuildInv, BuildStep, size
<1>2. \A j \in 1..(size - 1) : Parent(j) \in Nat
  BY <1>1, ParentFacts
<1>3. CASE b > 0
  <2>1. pc' = "build_down" /\ b' = b - 1 /\ i' = b - 1
    BY <1>3 DEF BuildStep
  <2>2. \A j \in 1..(size' - 1) : Parent(j) >= b' /\ Parent(j) # i' => EdgeOK(data', j)
    BY <1>1, <1>2, <1>3, <2>1
  <2>3. ~(Parent(i') >= b')
    BY <1>1, <1>3, <2>1 DEF Parent
  <2>4. BuildInv'
    BY <1>1, <1>3, <2>1, <2>2, <2>3 DEF BuildInv
  <2> QED BY <1>1, <2>1, <2>4 DEF Inv, HeapOrder, LoopInv, SiftUpInv, PopDownInv
<1>4. CASE ~(b > 0)
  <2>1. pc' = "idle"
    BY <1>4 DEF BuildStep
  <2>2. IsHeap(data)
    BY <1>1, <1>2, <1>4 DEF IsHeap, size
  <2> QED BY <1>1, <2>1, <2>2 DEF Inv, HeapOrder, LoopInv, SiftUpInv, PopDownInv, BuildInv
<1> QED BY <1>3, <1>4

\* push leaves only the edge above the new last slot to sift_up.
LEMMA InvPush == ASSUME NEW x \in Items, Inv, Push(x) PROVE HeapOrder' /\ LoopInv'
<1>1. /\ data \in Seq(Items) /\ size \in Nat /\ pc = "idle" /\ pc' = "sift_up"
      /\ i' = size /\ data' = Append(data, x) /\ torn' = torn
  BY DEF Inv, TypeOK, Push, size
<1>2. /\ size' = size + 1 /\ data' \in Seq(Items)
      /\ \A j \in 1..size : data'[j] = data[j]
  BY <1>1, AppendProperties DEF size
<1>3. ASSUME ~torn, NEW j \in 1..size, j # size PROVE EdgeOK(data', j)
  <2>1. EdgeOK(data, j)
    BY <1>1, <1>3 DEF Inv, HeapOrder, IsHeap, size
  <2>2. Parent(j) \in Nat /\ Parent(j) < j
    BY <1>3, ParentFacts
  <2>3. j + 1 \in 1..size /\ Parent(j) + 1 \in 1..size
    BY <1>1, <1>3, <2>2
  <2>4. data'[j + 1] = data[j + 1] /\ data'[Parent(j) + 1] = data[Parent(j) + 1]
    BY <1>2, <2>3
  <2> QED BY <2>1, <2>4 DEF EdgeOK
<1>4. Bridged(i)'
  <2>1. \A c \in 1..(size' - 1) : Parent(c) # i'
    BY <1>1, <1>2, ParentFacts
  <2> QED BY <2>1 DEF Bridged
<1>5. SiftUpInv'
  BY <1>1, <1>2, <1>3, <1>4 DEF SiftUpInv
<1>6. HeapOrder'
  BY <1>1 DEF Inv, HeapOrder, Push, IsHeap
<1> QED BY <1>1, <1>5, <1>6 DEF LoopInv, PopDownInv, BuildInv

\* heapify starts where no edge lies behind its first subtree.
LEMMA InvStartBuild ==
  ASSUME NEW s \in Seq(Items), Inv, pc = "idle", StartBuild(s)
  PROVE  HeapOrder' /\ LoopInv'
<1>1. /\ data' = s /\ size' = Len(s) /\ Len(s) \in Nat /\ ~torn'
      /\ other' = other /\ otherTorn' = otherTorn
  BY DEF StartBuild, size
<1>2. CASE Len(s) < 2
  <2>1. pc' = "idle" /\ IsHeap(data')
    BY <1>1, <1>2 DEF StartBuild, IsHeap
  <2> QED BY <1>1, <2>1 DEF Inv, HeapOrder, LoopInv, SiftUpInv, PopDownInv, BuildInv
<1>3. CASE ~(Len(s) < 2)
  <2>1. pc' = "build" /\ b' = (Len(s) - 1) \div 2 + 1
    BY <1>3 DEF StartBuild
  <2>2. \A j \in 1..(size' - 1) : ~(Parent(j) >= b')
    BY <1>1, <1>3, <2>1 DEF Parent
  <2> QED BY <1>1, <2>1, <2>2 DEF Inv, HeapOrder, LoopInv, SiftUpInv, PopDownInv, BuildInv
<1> QED BY <1>2, <1>3

\* Moving the last element to the root leaves only its own edges to sift_down.
LEMMA InvRemoveTop ==
  ASSUME Inv, pc = "idle", data # <<>>, RemoveTop
  PROVE  HeapOrder' /\ LoopInv'
<1>1. /\ data \in Seq(Items) /\ size \in Nat \ {0} /\ data' \in Seq(Items)
      /\ size' = size - 1
      /\ \A m \in 1..(size - 2) : data'[m + 1] = At(m)
      /\ other' = other /\ otherTorn' = otherTorn /\ torn' = torn
  BY RemoveTopFacts DEF Inv, TypeOK, RemoveTop
<1>2. CASE size = 1
  <2>1. IsHeap(data')
    BY <1>1, <1>2 DEF IsHeap, size
  <2>2. pc' = "idle"
    BY <1>2 DEF RemoveTop
  <2> QED BY <1>1, <2>1, <2>2 DEF Inv, HeapOrder, LoopInv, SiftUpInv, PopDownInv, BuildInv
<1>3. CASE size # 1
  <2>1. pc' = "pop_down" /\ i' = 0
    BY <1>3 DEF RemoveTop
  <2>2. ASSUME ~torn, NEW j \in 1..(size' - 1), Parent(j) # 0
        PROVE  EdgeOK(data', j)
    <3>1. j \in 1..(size - 1) /\ j \in 1..(size - 2) /\ Parent(j) \in 1..(size - 2)
      BY <1>1, <2>2, ParentFacts
    <3>2. ~Less(data[j + 1], data[Parent(j) + 1])
      BY <2>2, <3>1 DEF Inv, HeapOrder, IsHeap, EdgeOK, size
    <3> QED BY <1>1, <3>1, <3>2 DEF EdgeOK, At
  <2>3. PopDownInv'
    BY <1>1, <2>1, <2>2 DEF PopDownInv, Bridged
  <2> QED BY <1>1, <2>1, <2>3 DEF Inv, HeapOrder, LoopInv, SiftUpInv, BuildInv
<1> QED BY <1>2, <1>3

\* The inductive invariant holds.
THEOREM InvCorrect == Spec => []Inv
<1>1. Init => HeapOrder /\ LoopInv
  BY DEF Init, HeapOrder, IsHeap, LoopInv, SiftUpInv, PopDownInv, BuildInv
<1>2. TypeOK /\ HeapOrder /\ LoopInv /\ [Next]_vars => HeapOrder' /\ LoopInv'
  <2> SUFFICES ASSUME Inv, [Next]_vars PROVE HeapOrder' /\ LoopInv'
    BY DEF Inv
  <2>1. CASE SiftUp
    BY <2>1, InvSiftUpSwap, InvSiftUpDone DEF SiftUp
  <2>2. CASE SiftDown
    BY <2>2, InvSiftDownSwap, InvSiftDownDone DEF SiftDown
  <2>3. CASE BuildStep
    BY <2>3, InvBuildStep
  <2>4. ASSUME NEW x \in Items, Push(x) PROVE HeapOrder' /\ LoopInv'
    BY <2>4, InvPush
  <2>5. ASSUME NEW s \in Batches, PushHeapRange(s) \/ Construct(s)
        PROVE  HeapOrder' /\ LoopInv'
    <3>1. s \in Seq(Items) /\ data \in Seq(Items) /\ data \o s \in Seq(Items)
      BY BatchIsSeq DEF Inv, TypeOK
    <3> QED BY <2>5, <3>1, InvStartBuild DEF PushHeapRange, Construct
  <2>6. ASSUME NEW s \in Batches, NEW k \in 0..MaxSize, PushHeapRangeThrows(s, k)
        PROVE  HeapOrder' /\ LoopInv'
    <3>1. pc = "idle" /\ pc' = pc /\ other' = other /\ otherTorn' = otherTorn
      BY <2>6 DEF PushHeapRangeThrows
    <3>2. ASSUME ~torn' PROVE data' = data /\ torn' = torn
      <4>1. ~torn /\ ~(k > 0)
        BY <3>2, <2>6 DEF PushHeapRangeThrows
      <4>2. k = 0
        BY <4>1, BoundAssumption
      <4>3. torn \in BOOLEAN /\ torn' \in BOOLEAN
        BY <2>6 DEF Inv, TypeOK, PushHeapRangeThrows
      <4>4. torn' = torn
        BY <3>2, <4>1, <4>3
      <4>5. SubSeq(s, 1, 0) = <<>> /\ data \o <<>> = data
        BY BatchIsSeq, SubSeqEmpty, ConcatEmptySeq DEF Inv, TypeOK
      <4>6. data' = data \o SubSeq(s, 1, k)
        BY <2>6 DEF PushHeapRangeThrows
      <4> QED BY <4>2, <4>4, <4>5, <4>6
    <3> QED BY <3>1, <3>2 DEF Inv, HeapOrder, LoopInv, SiftUpInv, PopDownInv, BuildInv
  <2>7. CASE Pop \/ PopValue
    BY <2>7, InvRemoveTop DEF Pop, PopValue
  <2>8. CASE Clear
    <3>1. IsHeap(<<>>)
      BY EmptyIsSeq DEF IsHeap
    <3> QED BY <2>8, <3>1
      DEF Clear, Inv, HeapOrder, LoopInv, SiftUpInv, PopDownInv, BuildInv
  <2>9. CASE CopyAssign \/ MoveAssign \/ SwapHeaps
    <3>1. IsHeap(<<>>)
      BY EmptyIsSeq DEF IsHeap
    <3> QED BY <2>9, <3>1
      DEF CopyAssign, MoveAssign, SwapHeaps, Inv, HeapOrder, LoopInv, SiftUpInv, PopDownInv, BuildInv
  <2>10. CASE AssertFails
    BY <2>10 DEF AssertFails, Aborted, Inv, HeapOrder, LoopInv, SiftUpInv, PopDownInv, BuildInv
  <2>11. CASE Terminated \/ UNCHANGED vars
    BY <2>11 DEF Terminated, vars, Inv, HeapOrder, LoopInv, SiftUpInv, PopDownInv,
       BuildInv, Bridged, At, size, IsHeap
  <2> QED
    BY <2>1, <2>2, <2>3, <2>4, <2>5, <2>6, <2>7, <2>8, <2>9, <2>10, <2>11 DEF Next
<1> QED BY <1>1, <1>2, TypeCorrect, PTL DEF Spec, Inv

\* Whenever no operation runs, no element precedes its parent: the heap order
\* that top() and pop() rely on survives every sequence of operations, a range
\* insert that threw excepted.
THEOREM HeapOrderCorrect == Spec => []HeapOrder
BY InvCorrect, PTL DEF Inv

\* While a sift or build loop runs, only the edges at its index can be out of
\* order, and those of slots that build_heap has not reached.
THEOREM LoopInvCorrect == Spec => []LoopInv
BY InvCorrect, PTL DEF Inv

-----------------------------------------------------------------------------
\* What is stored.  A vector without duplicates stands for the set of its
\* elements: each step changes that set as the operation promises.

\* What a vector holds, slot by slot.
LEMMA RangeAt ==
  ASSUME NEW s \in Seq(Items)
  PROVE  /\ Range(s) \subseteq Items
         /\ \A x : x \in Range(s) <=> \E j \in 1..Len(s) : s[j] = x
BY DEF Range

\* A vector without duplicates, slot by slot.
LEMMA InjectiveAt ==
  ASSUME NEW s \in Seq(Items)
  PROVE  IsInjective(s) <=> \A j, k \in 1..Len(s) : s[j] = s[k] => j = k
BY DEF IsInjective

\* A swap of the loops neither loses nor duplicates an object.
LEMMA SwapKeeps ==
  ASSUME data \in Seq(Items), NEW j \in 0..(size - 1), NEW k \in 0..(size - 1), j # k,
         IsInjective(data), NEW d, d = SwapSlots(j, k)
  PROVE  Range(d) = Range(data) /\ IsInjective(d)
<1>1. /\ d \in Seq(Items) /\ Len(d) = size /\ Len(data) = size /\ size \in Nat
      /\ j + 1 \in 1..size /\ k + 1 \in 1..size /\ j + 1 # k + 1
      /\ d[j + 1] = data[k + 1] /\ d[k + 1] = data[j + 1]
  BY SwapFacts DEF size, At
<1>2. \A m \in 1..size : m # j + 1 /\ m # k + 1 => d[m] = data[m]
  BY <1>1 DEF SwapSlots, size
<1>3. Range(d) = Range(data)
  <2>1. ASSUME NEW m \in 1..size PROVE \E n \in 1..size : data[n] = d[m]
    BY <1>1, <1>2
  <2>2. ASSUME NEW m \in 1..size PROVE \E n \in 1..size : d[n] = data[m]
    BY <1>1, <1>2
  <2>3. ASSUME NEW x, x \in Range(d) PROVE x \in Range(data)
    <3>1. PICK m \in 1..size : d[m] = x
      BY <1>1, <2>3, RangeAt
    <3>2. PICK n \in 1..size : data[n] = x
      BY <2>1, <3>1
    <3> QED BY <1>1, <3>2, RangeAt
  <2>4. ASSUME NEW x, x \in Range(data) PROVE x \in Range(d)
    <3>1. PICK m \in 1..size : data[m] = x
      BY <1>1, <2>4, RangeAt
    <3>2. PICK n \in 1..size : d[n] = x
      BY <2>2, <3>1
    <3> QED BY <1>1, <3>2, RangeAt
  <2> QED BY <2>3, <2>4
<1>4. \A m, n \in 1..size : data[m] = data[n] => m = n
  BY <1>1, InjectiveAt
<1>5. ASSUME NEW m \in 1..size, NEW n \in 1..size, d[m] = d[n] PROVE m = n
  BY <1>1, <1>2, <1>4, <1>5
<1> QED BY <1>1, <1>3, <1>5, InjectiveAt

\* push adds the object and nothing else.
LEMMA AppendAdds ==
  ASSUME NEW s \in Seq(Items), NEW x \in Items \ Range(s), IsInjective(s)
  PROVE  Range(Append(s, x)) = Range(s) \union {x} /\ IsInjective(Append(s, x))
<1> DEFINE d == Append(s, x)
<1>1. /\ d \in Seq(Items) /\ Len(d) = Len(s) + 1 /\ Len(s) \in Nat
      /\ d[Len(s) + 1] = x /\ \A m \in 1..Len(s) : d[m] = s[m]
  BY AppendProperties
<1>2. \A m \in 1..Len(d) : m \in 1..Len(s) \/ m = Len(s) + 1
  BY <1>1
<1> HIDE DEF d
<1>3. \A y : y \in Range(d) <=> y \in Range(s) \/ y = x
  BY <1>1, <1>2, RangeAt
<1>4. \A m \in 1..Len(s) : s[m] # x
  BY RangeAt
<1>5. ASSUME NEW m \in 1..Len(d), NEW n \in 1..Len(d), d[m] = d[n] PROVE m = n
  BY <1>1, <1>2, <1>4, <1>5, InjectiveAt
<1>6. Range(d) = Range(s) \union {x} /\ IsInjective(d)
  BY <1>1, <1>3, <1>5, InjectiveAt
<1> QED BY <1>6 DEF d

\* push_heap_range adds the objects of the batch to those stored.
LEMMA ConcatAdds ==
  ASSUME NEW s \in Seq(Items), NEW t \in Seq(Items), IsInjective(s \o t)
  PROVE  /\ Range(s \o t) = Range(s) \union Range(t)
         /\ Range(s) \intersect Range(t) = {}
<1> DEFINE d == s \o t
<1>1. /\ d \in Seq(Items) /\ Len(d) = Len(s) + Len(t) /\ Len(s) \in Nat /\ Len(t) \in Nat
      /\ \A m \in 1..Len(s) : d[m] = s[m] /\ m \in 1..Len(d)
      /\ \A m \in 1..Len(t) : d[Len(s) + m] = t[m] /\ Len(s) + m \in 1..Len(d)
  BY ConcatProperties
<1>2. \A m \in 1..Len(d) : m \in 1..Len(s) \/ \E n \in 1..Len(t) : m = Len(s) + n
  <2> SUFFICES ASSUME NEW m \in 1..Len(d), m \notin 1..Len(s)
               PROVE  \E n \in 1..Len(t) : m = Len(s) + n
    OBVIOUS
  <2>1. m - Len(s) \in 1..Len(t) /\ m = Len(s) + (m - Len(s))
    BY <1>1
  <2> QED BY <2>1
<1>3. \A m, n \in 1..Len(d) : d[m] = d[n] => m = n
  BY <1>1, InjectiveAt
<1> HIDE DEF d
<1>4. ASSUME NEW y PROVE y \in Range(d) <=> y \in Range(s) \/ y \in Range(t)
  <2>1. ASSUME NEW m \in 1..Len(d), d[m] = y PROVE y \in Range(s) \/ y \in Range(t)
    <3>1. CASE m \in 1..Len(s)
      BY <1>1, <2>1, <3>1, RangeAt
    <3>2. CASE m \notin 1..Len(s)
      <4>1. PICK n \in 1..Len(t) : m = Len(s) + n
        BY <1>2, <3>2
      <4>2. t[n] = y
        BY <1>1, <2>1, <4>1
      <4> QED BY <4>2, RangeAt
    <3> QED BY <3>1, <3>2
  <2>2. ASSUME NEW m \in 1..Len(s), s[m] = y PROVE \E n \in 1..Len(d) : d[n] = y
    BY <1>1, <2>2
  <2>3. ASSUME NEW m \in 1..Len(t), t[m] = y PROVE \E n \in 1..Len(d) : d[n] = y
    BY <1>1, <2>3
  <2>4. y \in Range(d) => y \in Range(s) \/ y \in Range(t)
    BY <1>1, <2>1, RangeAt
  <2>5. y \in Range(s) => y \in Range(d)
    BY <1>1, <2>2, RangeAt
  <2>6. y \in Range(t) => y \in Range(d)
    BY <1>1, <2>3, RangeAt
  <2> QED BY <2>4, <2>5, <2>6
<1>5. ASSUME NEW y \in Range(s), y \in Range(t) PROVE FALSE
  <2>1. PICK m \in 1..Len(s) : s[m] = y
    BY RangeAt
  <2>2. PICK n \in 1..Len(t) : t[n] = y
    BY <1>5, RangeAt
  <2>3. /\ m \in 1..Len(d) /\ d[m] = y
        /\ Len(s) + n \in 1..Len(d) /\ d[Len(s) + n] = y
    BY <1>1, <2>1, <2>2
  <2>4. m = Len(s) + n
    BY <1>3, <2>3
  <2> QED BY <1>1, <2>4
<1>6. Range(d) = Range(s) \union Range(t) /\ Range(s) \intersect Range(t) = {}
  BY <1>4, <1>5
<1> QED BY <1>6 DEF d

\* pop takes the root and nothing else.
LEMMA RemoveTopTakesTop ==
  ASSUME data \in Seq(Items), data # <<>>, RemoveTop, IsInjective(data)
  PROVE  Range(data') = Range(data) \ {At(0)} /\ IsInjective(data')
<1>1. /\ size \in Nat \ {0} /\ data' \in Seq(Items) /\ Len(data') = size - 1
      /\ Len(data) = size
      /\ size > 1 => data'[1] = data[size]
      /\ \A m \in 1..(size - 2) : data'[m + 1] = data[m + 1]
  BY RemoveTopFacts DEF At, size
<1>2. \A m \in 2..(size - 1) : data'[m] = data[m]
  <2> SUFFICES ASSUME NEW m \in 2..(size - 1) PROVE data'[m] = data[m]
    OBVIOUS
  <2>1. m - 1 \in 1..(size - 2) /\ (m - 1) + 1 = m
    BY <1>1
  <2> QED BY <1>1, <2>1
<1>3. \A m, n \in 1..size : data[m] = data[n] => m = n
  BY <1>1, InjectiveAt
<1>4. ASSUME NEW y PROVE y \in Range(data') <=> y \in Range(data) /\ y # data[1]
  <2>1. ASSUME NEW m \in 1..(size - 1), data'[m] = y
        PROVE  y \in Range(data) /\ y # data[1]
    <3>1. CASE m = 1
      <4>1. size \in 1..size /\ 1 \in 1..size /\ size # 1 /\ y = data[size]
        BY <1>1, <2>1, <3>1
      <4> QED BY <1>1, <1>3, <4>1, RangeAt
    <3>2. CASE m # 1
      <4>1. m \in 1..size /\ 1 \in 1..size /\ y = data[m]
        BY <1>1, <1>2, <2>1, <3>2
      <4> QED BY <1>1, <1>3, <3>2, <4>1, RangeAt
    <3> QED BY <3>1, <3>2
  <2>2. ASSUME NEW m \in 1..size, data[m] = y, y # data[1]
        PROVE  \E n \in 1..(size - 1) : data'[n] = y
    <3>1. CASE m = size
      <4>1. 1 \in 1..(size - 1) /\ data'[1] = y
        BY <1>1, <2>2, <3>1
      <4> QED BY <4>1
    <3>2. CASE m # size
      <4>1. m \in 1..(size - 1) /\ data'[m] = y
        BY <1>1, <1>2, <2>2, <3>2
      <4> QED BY <4>1
    <3> QED BY <3>1, <3>2
  <2> QED BY <1>1, <2>1, <2>2, RangeAt
<1>5. ASSUME NEW m \in 1..(size - 1), NEW n \in 1..(size - 1), data'[m] = data'[n]
      PROVE  m = n
  <2> DEFINE from(k) == IF k = 1 THEN size ELSE k
  <2>1. \A k \in 1..(size - 1) : data'[k] = data[from(k)] /\ from(k) \in 1..size
    BY <1>1, <1>2
  <2>2. from(m) = from(n)
    BY <1>3, <1>5, <2>1
  <2> QED BY <1>1, <2>2
<1> QED BY <1>1, <1>4, <1>5, InjectiveAt DEF At

\* The part of a range that was copied before an exception.
LEMMA PrefixOfBatch ==
  ASSUME NEW s \in Seq(Items), NEW t \in Seq(Items), IsInjective(s \o t),
         NEW k \in Nat, k < Len(t)
  PROVE  SubSeq(t, 1, k) \in Seq(Items) /\ IsInjective(s \o SubSeq(t, 1, k))
<1> DEFINE d == s \o t
           u == SubSeq(t, 1, k)
           e == s \o u
<1>1. u \in Seq(Items) /\ Len(u) = k /\ \A m \in 1..k : u[m] = t[m]
  <2>1. \A m \in 1..k : t[m] \in Items
    OBVIOUS
  <2>2. /\ u \in Seq(Items) /\ Len(u) = (IF 1 <= k THEN k - 1 + 1 ELSE 0)
        /\ \A m \in 1..(k - 1 + 1) : u[m] = t[1 + m - 1]
    BY <2>1, SubSeqProperties
  <2> QED BY <2>2
<1> HIDE DEF u
<1>2. /\ d \in Seq(Items) /\ Len(d) = Len(s) + Len(t)
      /\ \A m \in 1..(Len(s) + Len(t)) : d[m] = IF m <= Len(s) THEN s[m] ELSE t[m - Len(s)]
  BY ConcatProperties
<1>3. /\ e \in Seq(Items) /\ Len(e) = Len(s) + k
      /\ \A m \in 1..(Len(s) + k) : e[m] = IF m <= Len(s) THEN s[m] ELSE u[m - Len(s)]
  BY <1>1, ConcatProperties
<1>4. \A m, n \in 1..Len(d) : d[m] = d[n] => m = n
  BY <1>2, InjectiveAt
<1> HIDE DEF d, e
<1>5. ASSUME NEW m \in 1..Len(e) PROVE e[m] = d[m] /\ m \in 1..Len(d)
  <2>1. m \in 1..(Len(s) + Len(t)) /\ m \in 1..(Len(s) + k)
    BY <1>3
  <2>2. CASE m <= Len(s)
    BY <1>2, <1>3, <2>1, <2>2
  <2>3. CASE ~(m <= Len(s))
    <3>1. m - Len(s) \in 1..k
      BY <2>1, <2>3
    <3>2. e[m] = u[m - Len(s)] /\ d[m] = t[m - Len(s)]
      BY <1>2, <1>3, <2>1, <2>3
    <3> QED BY <1>1, <1>2, <2>1, <3>1, <3>2
  <2> QED BY <2>2, <2>3
<1>6. IsInjective(e)
  BY <1>3, <1>4, <1>5, InjectiveAt
<1> QED BY <1>1, <1>6 DEF e, u

\* The empty vector stores nothing.
LEMMA EmptyIsDistinct == Range(<<>>) = {} /\ IsInjective(<<>>)
BY EmptyIsSeq DEF Range, IsInjective

\* The vectors given to the bulk operations hold no object twice.
LEMMA BatchIsInjective == \A s \in Batches : IsInjective(s)
BY DEF Batches

\* No step duplicates or loses an object.
THEOREM DistinctCorrect == Spec => []Distinct
<1>1. Init => Distinct
  BY EmptyIsDistinct DEF Init, Distinct
<1>2. TypeOK /\ Distinct /\ [Next]_vars => Distinct'
  <2> SUFFICES ASSUME TypeOK, Distinct, [Next]_vars PROVE Distinct'
    OBVIOUS
  <2> USE DEF Distinct
  <2>1. CASE SiftUpSwap
    <3>1. i \in 0..(size - 1) /\ Parent(i) \in 0..(size - 1) /\ Parent(i) # i
      BY <2>1, ParentFacts DEF SiftUpSwap, TypeOK, size
    <3> QED BY <2>1, <3>1, SwapKeeps DEF SiftUpSwap, TypeOK
  <2>2. CASE SiftDownSwap
    <3>1. i \in 0..(size - 1) /\ Smallest(i) \in 0..(size - 1) /\ Smallest(i) # i
      BY <2>2, SmallestFacts DEF SiftDownSwap, TypeOK, size
    <3> QED BY <2>2, <3>1, SwapKeeps DEF SiftDownSwap, TypeOK
  <2>3. CASE SiftUpDone \/ SiftDownDone \/ BuildStep \/ AssertFails \/ Terminated
             \/ UNCHANGED vars
    BY <2>3 DEF SiftUpDone, SiftDownDone, BuildStep, AssertFails, Terminated, vars
  <2>4. ASSUME NEW x \in Items, Push(x) PROVE Distinct'
    BY <2>4, AppendAdds DEF Push, TypeOK
  <2>5. ASSUME NEW s \in Batches, PushHeapRange(s) \/ Construct(s) PROVE Distinct'
    BY <2>5, BatchIsInjective DEF PushHeapRange, Construct, StartBuild
  <2>6. ASSUME NEW s \in Batches, NEW k \in 0..MaxSize, PushHeapRangeThrows(s, k)
        PROVE  Distinct'
    <3>1. k \in Nat /\ s \in Seq(Items) /\ data \in Seq(Items)
      BY BoundAssumption, BatchIsSeq DEF TypeOK
    <3> QED BY <2>6, <3>1, PrefixOfBatch DEF PushHeapRangeThrows
  <2>7. CASE Pop \/ PopValue
    BY <2>7, RemoveTopTakesTop DEF Pop, PopValue, RemoveTop, TypeOK
  <2>8. CASE Clear \/ CopyAssign \/ MoveAssign \/ SwapHeaps
    BY <2>8, EmptyIsDistinct DEF Clear, CopyAssign, MoveAssign, SwapHeaps
  <2> QED
    BY <2>1, <2>2, <2>3, <2>4, <2>5, <2>6, <2>7, <2>8 DEF Next, SiftUp, SiftDown
<1> QED BY <1>1, <1>2, TypeCorrect, PTL DEF Spec

-----------------------------------------------------------------------------
\* The root of a heap is a minimum.  The induction along the path from a slot to
\* the root is a least counterexample: a set of slots has a smallest member.
LEMMA LeastSlot ==
  ASSUME NEW T \in SUBSET Nat, T # {}
  PROVE  \E x \in T : \A y \in T : x <= y
<1> DEFINE R == OpToRel(<, Nat)
<1>1. IsWellFoundedOn(R, Nat)
  BY NatLessThanWellFounded
<1>2. ASSUME NEW x \in Nat, NEW y \in Nat, <<y, x>> \notin R
      PROVE  x <= y
  <2>1. <<y, x>> \in Nat \X Nat /\ ~(y < x)
    BY <1>2 DEF OpToRel
  <2> QED BY <2>1
<1> HIDE DEF R
<1>3. PICK x \in T : \A y \in T : <<y, x>> \notin R
  BY <1>1, WFMin
<1> QED BY <1>2, <1>3

\* Nothing in a heap precedes the element at its root, which top() returns.
THEOREM RootIsMinimum ==
  ASSUME NEW s \in Seq(Items), s # <<>>, IsHeap(s)
  PROVE  \A x \in Range(s) : ~Less(x, s[1])
<1> DEFINE Bad == {j \in 0..(Len(s) - 1) : Less(s[j + 1], s[1])}
<1>1. Len(s) \in Nat \ {0} /\ \A j \in 0..(Len(s) - 1) : s[j + 1] \in Items
  OBVIOUS
<1>2. ASSUME Bad # {} PROVE FALSE
  <2>1. PICK j \in Bad : \A k \in Bad : j <= k
    <3>1. Bad \in SUBSET Nat
      BY <1>1
    <3> HIDE DEF Bad
    <3> QED BY <1>2, <3>1, LeastSlot
  <2>2. j \in 1..(Len(s) - 1)
    BY <1>1, LessAssumption
  <2>3. Parent(j) \in 0..(Len(s) - 1) /\ Parent(j) < j
    BY <1>1, <2>2, ParentFacts
  <2>4. ~Less(s[Parent(j) + 1], s[1])
    BY <1>1, <2>1, <2>2, <2>3
  <2>5. ~Less(s[j + 1], s[Parent(j) + 1])
    BY <2>2 DEF IsHeap, EdgeOK
  <2>6. ~Less(s[j + 1], s[1])
    BY <1>1, <2>2, <2>3, <2>4, <2>5, NegativeTransitivity
  <2> QED BY <2>6
<1>3. ASSUME NEW x \in Range(s) PROVE ~Less(x, s[1])
  <2>1. PICK m \in 1..Len(s) : s[m] = x
    BY RangeAt
  <2>2. m - 1 \in 0..(Len(s) - 1) /\ (m - 1) + 1 = m
    BY <1>1
  <2> QED BY <1>2, <2>1, <2>2
<1> QED BY <1>3

-----------------------------------------------------------------------------
\* The heap implements PriorityQueue: a step of a loop changes nothing there, and
\* the first step of an operation does what the operation promises.

\* The first step of pop and of pop_value is a Pop of PriorityQueue.
LEMMA RefinePop ==
  ASSUME TypeOK, HeapOrder, Distinct, pc = "idle", data # <<>>, RemoveTop,
         out' \in {At(0), NoItem}
  PROVE  \E x \in Items : PQ!Pop(x)
<1>1. data \in Seq(Items) /\ At(0) = data[1] /\ At(0) \in Range(data) /\ At(0) \in Items
  <2>1. data \in Seq(Items) /\ 1 \in 1..Len(data) /\ At(0) = data[1]
    BY DEF TypeOK, At
  <2> QED BY <2>1, RangeAt
<1>2. ~torn => \A x \in Range(data) : ~Less(x, At(0))
  BY <1>1, RootIsMinimum DEF HeapOrder
<1>3. At(0) \in PQ!Removable
  BY <1>1, <1>2 DEF PQ!Removable
<1>4. Range(data') = Range(data) \ {At(0)}
  BY <1>1, RemoveTopTakesTop DEF Distinct
<1>5. torn' = torn /\ other' = other /\ otherTorn' = otherTorn
  BY DEF RemoveTop
<1>6. PQ!Pop(At(0))
  BY <1>3, <1>4, <1>5 DEF PQ!Pop
<1> QED BY <1>1, <1>6

\* Every step of the heap is a step of PriorityQueue or changes nothing there.
LEMMA RefineStep ==
  TypeOK /\ HeapOrder /\ Distinct /\ [Next]_vars => [PQ!Next]_(PQ!pqVars)
<1> SUFFICES ASSUME TypeOK, HeapOrder, Distinct, [Next]_vars
             PROVE  PQ!Next \/ UNCHANGED PQ!pqVars
  OBVIOUS
<1>1. CASE SiftUpSwap
  <2>1. i \in 0..(size - 1) /\ Parent(i) \in 0..(size - 1) /\ Parent(i) # i
    BY <1>1, ParentFacts DEF SiftUpSwap, TypeOK, size
  <2>2. Range(data') = Range(data)
    BY <1>1, <2>1, SwapKeeps DEF SiftUpSwap, TypeOK, Distinct
  <2> QED BY <1>1, <2>2 DEF SiftUpSwap, PQ!pqVars
<1>2. CASE SiftDownSwap
  <2>1. i \in 0..(size - 1) /\ Smallest(i) \in 0..(size - 1) /\ Smallest(i) # i
    BY <1>2, SmallestFacts DEF SiftDownSwap, TypeOK, size
  <2>2. Range(data') = Range(data)
    BY <1>2, <2>1, SwapKeeps DEF SiftDownSwap, TypeOK, Distinct
  <2> QED BY <1>2, <2>2 DEF SiftDownSwap, PQ!pqVars
<1>3. CASE SiftUpDone \/ SiftDownDone \/ BuildStep \/ AssertFails \/ Terminated
           \/ UNCHANGED vars
  BY <1>3 DEF SiftUpDone, SiftDownDone, BuildStep, AssertFails, Terminated, vars, PQ!pqVars
<1>4. ASSUME NEW x \in Items, Push(x) PROVE PQ!Next
  <2>1. data' = Append(data, x) /\ x \in Items \ Range(data) /\ data \in Seq(Items)
    BY <1>4 DEF Push, TypeOK
  <2>2. Range(data') = Range(data) \union {x}
    BY <2>1, AppendAdds DEF Distinct
  <2>3. PQ!Push(x)
    BY <1>4, <2>2 DEF Push, PQ!Push
  <2> QED BY <2>3 DEF PQ!Next
<1>5. ASSUME NEW s \in Batches, PushHeapRange(s) PROVE PQ!Next
  <2>1. s \in Seq(Items) /\ data \in Seq(Items) /\ IsInjective(data \o s)
    BY <1>5, BatchIsSeq DEF PushHeapRange, TypeOK
  <2>2. /\ Range(data \o s) = Range(data) \union Range(s)
        /\ Range(s) \in SUBSET (Items \ Range(data))
    BY <2>1, ConcatAdds, RangeAt
  <2>3. /\ data' = data \o s /\ torn' = FALSE /\ out' = NoItem
        /\ other' = other /\ otherTorn' = otherTorn
    BY <1>5 DEF PushHeapRange, StartBuild
  <2>4. PQ!PushAll(Range(s)) /\ Range(s) \in SUBSET Items
    BY <2>2, <2>3 DEF PQ!PushAll
  <2> QED BY <2>4 DEF PQ!Next
<1>6. ASSUME NEW s \in Batches, Construct(s) PROVE PQ!Next
  <2>1. Range(s) \in SUBSET Items
    BY BatchIsSeq, RangeAt
  <2>2. PQ!Assign(Range(s))
    BY <1>6, <2>1 DEF Construct, StartBuild, PQ!Assign
  <2> QED BY <2>1, <2>2 DEF PQ!Next
<1>7. ASSUME NEW s \in Batches, NEW k \in 0..MaxSize, PushHeapRangeThrows(s, k)
      PROVE  PQ!Next
  <2> DEFINE u == SubSeq(s, 1, k)
  <2>1. /\ k \in Nat /\ s \in Seq(Items) /\ data \in Seq(Items)
        /\ IsInjective(data \o s) /\ k < Len(s) /\ CopyMayThrow
    BY <1>7, BoundAssumption, BatchIsSeq DEF PushHeapRangeThrows, TypeOK
  <2>2. u \in Seq(Items) /\ IsInjective(data \o u)
    BY <2>1, PrefixOfBatch
  <2>3. Range(u) = {} <=> ~(k > 0)
    <3>1. \A m \in 1..k : s[m] \in Items
      BY <2>1
    <3>2. Len(u) = (IF 1 <= k THEN k - 1 + 1 ELSE 0)
      BY <2>1, <3>1, SubSeqProperties
    <3> HIDE DEF u
    <3>3. CASE k > 0
      <4>1. 1 \in 1..Len(u)
        BY <2>1, <3>2, <3>3
      <4>2. u[1] \in Range(u)
        BY <2>2, <4>1, RangeAt
      <4> QED BY <3>3, <4>2
    <3>4. CASE ~(k > 0)
      <4>1. Len(u) = 0
        BY <2>1, <3>2, <3>4
      <4>2. ASSUME NEW x \in Range(u) PROVE FALSE
        <5>1. PICK m \in 1..Len(u) : u[m] = x
          BY <2>2, <4>2, RangeAt
        <5> QED BY <4>1, <5>1
      <4> QED BY <3>4, <4>2
    <3> QED BY <3>3, <3>4
  <2>4. /\ data' = data \o u /\ (torn' <=> torn \/ k > 0) /\ out' = NoItem
        /\ other' = other /\ otherTorn' = otherTorn
    BY <1>7 DEF PushHeapRangeThrows
  <2> HIDE DEF u
  <2>5. /\ Range(data') = Range(data) \union Range(u)
        /\ Range(u) \in SUBSET (Items \ Range(data))
    BY <2>1, <2>2, <2>4, ConcatAdds, RangeAt
  <2>6. (~torn') <=> (~torn /\ Range(u) = {})
    BY <2>3, <2>4
  <2>7. PQ!PushPart(Range(u)) /\ Range(u) \in SUBSET Items
    BY <2>1, <2>4, <2>5, <2>6 DEF PQ!PushPart
  <2> QED BY <2>7 DEF PQ!Next
<1>8. CASE Pop \/ PopValue
  BY <1>8, RefinePop DEF Pop, PopValue, PQ!Next
<1>9. CASE Clear
  <2>1. {} \in SUBSET Items
    OBVIOUS
  <2>2. PQ!Assign({})
    BY <1>9, EmptyIsDistinct DEF Clear, PQ!Assign
  <2> QED BY <2>1, <2>2 DEF PQ!Next
<1>10. CASE CopyAssign
  BY <1>10 DEF CopyAssign, PQ!CopyAssign, PQ!Next
<1>11. CASE MoveAssign
  BY <1>11, EmptyIsDistinct DEF MoveAssign, PQ!MoveAssign, PQ!Next
<1>12. CASE SwapHeaps
  BY <1>12 DEF SwapHeaps, PQ!Swap, PQ!Next
<1> QED
  BY <1>1, <1>2, <1>3, <1>4, <1>5, <1>6, <1>7, <1>8, <1>9, <1>10, <1>11, <1>12
  DEF Next, SiftUp, SiftDown

\* Every behaviour of the heap is one of a priority queue.
THEOREM HeapIsPriorityQueue == Spec => PriorityQueueSpec
<1>1. Init => PQ!Init
  BY EmptyIsDistinct DEF Init, PQ!Init
<1> QED
  BY <1>1, RefineStep, TypeCorrect, HeapOrderCorrect, DistinctCorrect, PTL
  DEF Spec, PriorityQueueSpec, PQ!Spec

-----------------------------------------------------------------------------
\* Powers of two, from the number of subsets.
LEMMA PowerDoubles ==
  ASSUME NEW n \in Nat
  PROVE  2 ^ n \in Nat /\ 2 ^ (n + 1) = 2 ^ n + 2 ^ n
<1>1. PICK A, x : A = 1..n /\ x = n + 1
  OBVIOUS
<1>2. IsFiniteSet(A) /\ Cardinality(A) = n
  BY <1>1, FS_Interval
<1>3. x \notin A
  BY <1>1
<1>4. IsFiniteSet(A \union {x}) /\ Cardinality(A \union {x}) = n + 1
  BY <1>2, <1>3, FS_AddElement
<1>5. PICK S, T : S = SUBSET A /\ T = {q \union {x} : q \in S}
  OBVIOUS
<1>6. IsFiniteSet(S) /\ Cardinality(S) = 2 ^ n
  BY Zenon, <1>2, <1>5, FS_SUBSET
<1>7. Cardinality(SUBSET (A \union {x})) = 2 ^ (n + 1)
  BY Zenon, <1>4, FS_SUBSET
<1>8. SUBSET (A \union {x}) = S \union T
  <2>1. ASSUME NEW c \in SUBSET (A \union {x})
        PROVE  c \in S \union T
    <3>1. CASE x \in c
      <4>1. c \ {x} \in S /\ c = (c \ {x}) \union {x}
        BY <3>1, <1>5
      <4> QED BY <4>1, <1>5
    <3>2. CASE x \notin c
      BY <3>2, <1>5
    <3> QED BY <3>1, <3>2
  <2>2. S \union T \subseteq SUBSET (A \union {x})
    BY <1>5
  <2> QED BY <2>1, <2>2
<1>9. ExistsBijection(S, T)
  <2>1. PICK f : f = [q \in S |-> q \union {x}]
    OBVIOUS
  <2>2. f \in [S -> T]
    BY <2>1, <1>5
  <2>3. ASSUME NEW q \in S, NEW c \in S, f[q] = f[c]
        PROVE  q = c
    <3>1. q \union {x} = c \union {x}
      BY <2>1, <2>3
    <3>2. x \notin q /\ x \notin c
      BY <1>3, <1>5
    <3> QED BY <3>1, <3>2
  <2>4. \A d \in T : \E q \in S : f[q] = d
    BY <2>1, <1>5
  <2>5. f \in Bijection(S, T)
    BY Zenon, <2>2, <2>3, <2>4, Fun_IsBij
  <2> QED BY <2>5 DEF ExistsBijection
<1>10. IsFiniteSet(T) /\ Cardinality(T) = 2 ^ n
  BY <1>6, <1>9, FS_Bijection
<1>11. S \intersect T = {}
  BY <1>3, <1>5
<1>12. /\ Cardinality(S \union T) = Cardinality(S) + Cardinality(T) - Cardinality(S \intersect T)
       /\ Cardinality(S \intersect T) = 0
  BY <1>6, <1>10, <1>11, FS_Union, FS_EmptySet
<1>13. PICK c, d : c = Cardinality(S) /\ d = Cardinality(S \union T)
  OBVIOUS
<1>14. c \in Nat /\ d = c + c
  <2>1. c \in Nat
    BY <1>6, <1>13, FS_CardinalityType
  <2>2. Cardinality(T) = c
    BY Zenon, <1>6, <1>10, <1>13
  <2> QED BY <2>1, <2>2, <1>12, <1>13
<1> QED BY Zenon, <1>6, <1>7, <1>8, <1>13, <1>14

-----------------------------------------------------------------------------
\* How often the loops swap.

\* f[b] is what heapify of n elements may have swapped when the slots from b on are done: a slot
\* that has descendants c levels below it, and so some in the vector, may cost c swaps.
Charges(f, n) ==
  /\ f \in [0..n -> Nat] /\ \A j \in 0..n : f[j] < n
  /\ \A j \in 0..(n - 1), c \in Nat : 2 ^ c * (j + 1) <= n => f[j + 1] + c <= f[j]

\* A larger factor makes a larger product.
LEMMA TimesGrows ==
  ASSUME NEW p \in Nat, NEW a \in Nat, NEW c \in Nat, a <= c
  PROVE  p * a \in Nat /\ p * c \in Nat /\ p * a <= p * c
<1>1. PICK e \in Nat : c = a + e
  <2>1. c - a \in Nat /\ c = a + (c - a)
    OBVIOUS
  <2> QED BY <2>1
<1>2. p * a \in Nat /\ p * e \in Nat /\ p * c \in Nat
  OBVIOUS
<1>3. p * c = p * a + p * e
  BY <1>1
<1> QED BY <1>2, <1>3

\* A power of two, one level up.
LEMMA LevelUp ==
  ASSUME NEW c \in Nat, NEW j \in Nat, NEW k \in Nat, 2 ^ c * (j + 1) <= k
  PROVE  2 ^ (c + 1) * (j + 1) <= k + k
<1>1. PICK p \in Nat : p = 2 ^ c /\ 2 ^ (c + 1) = p + p
  BY PowerDoubles
<1>2. PICK q \in Nat : q = p * (j + 1) /\ (p + p) * (j + 1) = q + q
  OBVIOUS
<1>3. 2 ^ c * (j + 1) = q /\ 2 ^ (c + 1) * (j + 1) = q + q
  BY <1>1, <1>2
<1> QED BY <1>2, <1>3

\* A power of two, one level down.
LEMMA LevelDown ==
  ASSUME NEW c \in Nat, NEW j \in Nat, NEW n \in Nat, 2 ^ c * (j + 1) <= n, c # 0
  PROVE  c - 1 \in Nat /\ 2 ^ (c - 1) * (j + 1) <= n \div 2
<1>1. PICK d \in Nat : c = d + 1
  <2>1. c - 1 \in Nat /\ c = (c - 1) + 1
    OBVIOUS
  <2> QED BY <2>1
<1>2. PICK p \in Nat : p = 2 ^ d /\ 2 ^ c = p + p
  BY <1>1, PowerDoubles
<1>3. PICK q \in Nat : q = p * (j + 1) /\ 2 ^ c * (j + 1) = q + q
  BY <1>2
<1>4. q <= n \div 2
  BY <1>3
<1> QED BY <1>1, <1>2, <1>3, <1>4

\* A power of two is at least one, so that what it multiplies is no larger than the product.
LEMMA PowerCovers ==
  ASSUME NEW c \in Nat, NEW j \in Nat
  PROVE  2 ^ c * (j + 1) \in Nat /\ j + 1 <= 2 ^ c * (j + 1) /\ 2 ^ c <= 2 ^ c * (j + 1)
         /\ 2 ^ 0 * (j + 1) = j + 1 /\ 2 ^ 0 = 1
<1> DEFINE Bad == {k \in Nat : ~(1 <= 2 ^ k)}
<1>1. 2 ^ 0 = 1
  <2>1. IsFiniteSet({}) /\ Cardinality({}) = 0
    BY FS_EmptySet
  <2>2. Cardinality(SUBSET {}) = 2 ^ 0
    BY Zenon, <2>1, FS_SUBSET
  <2>3. SUBSET {} = {{}}
    OBVIOUS
  <2>4. Cardinality({{}}) = 1
    BY FS_Singleton
  <2> QED BY Zenon, <2>2, <2>3, <2>4
<1>2. 1 <= 2 ^ c
  <2>1. ASSUME Bad # {} PROVE FALSE
    <3>1. PICK k \in Bad : \A m \in Bad : k <= m
      <4>1. Bad \in SUBSET Nat
        OBVIOUS
      <4> HIDE DEF Bad
      <4> QED BY <2>1, <4>1, LeastSlot
    <3>2. k \in Nat /\ k # 0
      <4>1. k \in Nat /\ ~(1 <= 2 ^ k) /\ 1 <= 1
        OBVIOUS
      <4> QED BY Zenon, <4>1, <1>1
    <3>3. k - 1 \in Nat /\ k = (k - 1) + 1
      BY <3>2
    <3>4. PICK m \in Nat : k = m + 1
      BY <3>3
    <3>5. 1 <= 2 ^ m
      BY <3>1, <3>4
    <3>6. 2 ^ m \in Nat /\ 2 ^ k = 2 ^ m + 2 ^ m
      BY <3>4, PowerDoubles
    <3>7. 1 <= 2 ^ k
      BY <3>5, <3>6
    <3> QED BY <3>7
  <2> QED BY <2>1
<1>3. PICK p : p = 2 ^ c
  OBVIOUS
<1>4. p \in Nat /\ 1 <= p
  BY <1>2, <1>3, PowerDoubles
<1>5. p * (j + 1) \in Nat /\ j + 1 <= (j + 1) * p /\ p * 1 <= p * (j + 1)
  <2>1. (j + 1) * 1 <= (j + 1) * p
    BY <1>4, TimesGrows
  <2>2. p * 1 <= p * (j + 1) /\ p * (j + 1) \in Nat
    BY <1>4, TimesGrows
  <2> QED BY <2>1, <2>2
<1>6. p * (j + 1) = (j + 1) * p /\ p * 1 = p
  BY <1>4
<1> QED BY <1>1, <1>3, <1>4, <1>5, <1>6

\* There is room for the swaps of every heapify: fewer than its elements.
LEMMA ChargesExist ==
  ASSUME NEW n \in Nat, n > 0
  PROVE  \E f : Charges(f, n)
<1> DEFINE Bad == {k \in Nat : k > 0 /\ ~ \E f : Charges(f, k)}
<1> SUFFICES ASSUME Bad # {} PROVE FALSE
  OBVIOUS
<1>1. PICK k \in Bad : \A j \in Bad : k <= j
  <2>1. Bad \in SUBSET Nat
    OBVIOUS
  <2> HIDE DEF Bad
  <2> QED BY <2>1, LeastSlot
<1>2. k \in Nat /\ k > 0 /\ ~ \E f : Charges(f, k)
  OBVIOUS
<1>3. k # 1
  <2> SUFFICES ASSUME k = 1 PROVE FALSE
    OBVIOUS
  <2> DEFINE f == [j \in 0..1 |-> 0]
  <2>1. f \in [0..1 -> Nat] /\ \A j \in 0..1 : f[j] < 1
    OBVIOUS
  <2>2. ASSUME NEW j \in 0..0, NEW c \in Nat, 2 ^ c * (j + 1) <= 1
        PROVE  f[j + 1] + c <= f[j]
    <3>1. c = 0
      <4>1. CASE c # 0
        <5>1. c - 1 \in Nat /\ 2 ^ (c - 1) * (j + 1) <= 1 \div 2
          BY <2>2, <4>1, 1 \in Nat, j \in Nat, LevelDown
        <5>2. j + 1 <= 2 ^ (c - 1) * (j + 1) /\ 2 ^ (c - 1) * (j + 1) \in Nat
          BY <5>1, PowerCovers
        <5> QED BY <5>1, <5>2
      <4> QED BY <4>1
    <3> QED BY <3>1
  <2>3. Charges(f, 1)
    BY <2>1, <2>2 DEF Charges
  <2> QED BY <2>3, <1>2
<1>4. PICK m : m = k \div 2
  OBVIOUS
<1>5. m \in Nat /\ m > 0 /\ m < k /\ m + m <= k
  BY <1>2, <1>3, <1>4
<1>6. PICK g : Charges(g, m)
  <2>1. m \notin Bad
    BY <1>1, <1>2, <1>5
  <2> QED BY <2>1, <1>5
<1> DEFINE f == [j \in 0..k |-> IF j <= m THEN (m - j) + g[j] ELSE 0]
<1>7. \A j \in 0..m : g[j] \in Nat /\ g[j] < m
  BY <1>6 DEF Charges
<1>8. f \in [0..k -> Nat] /\ \A j \in 0..k : f[j] < k
  <2>1. ASSUME NEW j \in 0..k
        PROVE  (IF j <= m THEN (m - j) + g[j] ELSE 0) \in Nat
               /\ (IF j <= m THEN (m - j) + g[j] ELSE 0) < k
    BY <1>2, <1>5, <1>7
  <2> QED BY <2>1
<1>9. ASSUME NEW j \in 0..(k - 1), NEW c \in Nat, 2 ^ c * (j + 1) <= k
      PROVE  f[j + 1] + c <= f[j]
  <2>1. j \in 0..k /\ j + 1 \in 0..k /\ j \in Nat
    BY <1>2
  <2>2. CASE j + 1 <= m
    <3>1. j \in 0..m /\ j + 1 \in 0..m /\ j \in 0..(m - 1)
      BY <2>1, <2>2, <1>5
    <3>2. CASE c = 0
      <4>1. g[j + 1] + 0 <= g[j]
        <5>1. 2 ^ 0 * (j + 1) <= m
          BY <2>1, <2>2, PowerCovers
        <5> QED BY <5>1, <3>1, <1>6 DEF Charges
      <4> QED BY <4>1, <3>1, <3>2, <2>1, <1>5, <1>7
    <3>3. CASE c # 0
      <4>1. c - 1 \in Nat /\ 2 ^ (c - 1) * (j + 1) <= m
        BY <3>3, <1>9, <1>2, <1>4, <2>1, LevelDown
      <4>2. g[j + 1] + (c - 1) <= g[j]
        BY <4>1, <3>1, <1>6 DEF Charges
      <4> QED BY <4>1, <4>2, <3>1, <2>1, <1>5, <1>7
    <3> QED BY <3>2, <3>3
  <2>3. CASE ~(j + 1 <= m)
    <3>1. c = 0
      <4>1. CASE c # 0
        <5>1. c - 1 \in Nat /\ 2 ^ (c - 1) * (j + 1) <= m
          BY <4>1, <1>9, <1>2, <1>4, <2>1, LevelDown
        <5>2. j + 1 <= 2 ^ (c - 1) * (j + 1) /\ 2 ^ (c - 1) * (j + 1) \in Nat
          BY <5>1, <2>1, PowerCovers
        <5> QED BY <5>1, <5>2, <2>1, <2>3, <1>5
      <4> QED BY <4>1
    <3>2. f[j + 1] = 0 /\ f[j] \in Nat
      BY <2>1, <2>3, <1>5, <1>8
    <3> QED BY <3>1, <3>2
  <2> QED BY <2>2, <2>3
<1>10. Charges(f, k)
  BY <1>8, <1>9 DEF Charges
<1> QED BY <1>2, <1>10

\* The swaps counted so far, in each loop.  In push and pop each one has doubled or halved the
\* place of the element that moves; in heapify what is left of the charge of its slot is spent.
SwapInv ==
  /\ pc = "idle" => swaps = 0
  /\ pc = "sift_up" => 2 ^ swaps * (i + 1) <= size
  /\ pc = "pop_down" => 2 ^ swaps <= i + 1
  /\ pc = "build" => size > 0 /\ \E f : Charges(f, size) /\ swaps <= f[b]
  /\ pc = "build_down" =>
       \E f : Charges(f, size) /\ \E c \in Nat : 2 ^ c * (b + 1) <= i + 1 /\ swaps <= f[b + 1] + c

\* Init and the steps of the loops and operations keep the count.
LEMMA SwapInvNext == TypeOK /\ SwapInv /\ [Next]_vars => SwapInv'
<1> SUFFICES ASSUME TypeOK, SwapInv, [Next]_vars PROVE SwapInv'
  OBVIOUS
<1>1. data \in Seq(Items) /\ size \in Nat /\ i \in Nat /\ b \in Nat /\ swaps \in Nat
  BY DEF TypeOK, size
<1>2. CASE SiftUpSwap
  <2>1. pc = "sift_up" /\ pc' = "sift_up" /\ i > 0 /\ i < size /\ i' = Parent(i) /\ swaps' = swaps + 1
    BY <1>2 DEF SiftUpSwap, TypeOK
  <2>2. size' = size
    <3>1. i \in 0..(size - 1) /\ Parent(i) \in 0..(size - 1) /\ Parent(i) # i
      BY <1>1, <2>1, ParentFacts
    <3>2. data' = SwapSlots(i, Parent(i))
      BY <1>2 DEF SiftUpSwap
    <3> QED BY <1>1, <3>1, <3>2, SwapFacts DEF size
  <2>3. PICK p \in Nat : p = 2 ^ swaps /\ 2 ^ (swaps + 1) = p + p
    BY <1>1, PowerDoubles
  <2>4. p * (i + 1) <= size
    BY <2>1, <2>3 DEF SwapInv
  <2>5. i' \in Nat /\ (i' + 1) + (i' + 1) <= i + 1
    BY <1>1, <2>1 DEF Parent
  <2>6. /\ p * ((i' + 1) + (i' + 1)) <= p * (i + 1)
        /\ p * ((i' + 1) + (i' + 1)) \in Nat /\ p * (i + 1) \in Nat
    <3>1. PICK j \in Nat : j = i'
      BY <2>5
    <3>2. (j + 1) + (j + 1) \in Nat /\ i + 1 \in Nat
      BY <1>1
    <3> QED BY Zenon, <3>1, <3>2, <2>5, TimesGrows
  <2>7. (p + p) * (i' + 1) = p * ((i' + 1) + (i' + 1))
    BY <2>5
  <2>8. 2 ^ swaps' * (i' + 1) <= size'
    <3>1. p * ((i' + 1) + (i' + 1)) <= size
      BY <2>4, <2>6, <1>1
    <3> QED BY Zenon, <3>1, <2>1, <2>2, <2>3, <2>7
  <2> QED BY <2>1, <2>8 DEF SwapInv
<1>3. CASE SiftDownSwap
  <2>1. /\ pc \in {"pop_down", "build_down"} /\ pc' = pc /\ swaps' = swaps + 1 /\ b' = b
        /\ i < size /\ i' = Smallest(i) /\ Smallest(i) # i
    BY <1>3 DEF SiftDownSwap, TypeOK
  <2>2. i' \in Nat /\ i' > i /\ Parent(i') = i /\ size' = size
    <3>1. i \in 0..(size - 1) /\ Smallest(i) \in 0..(size - 1) /\ Smallest(i) > i /\ Parent(Smallest(i)) = i
      BY <1>1, <2>1, SmallestFacts
    <3>2. data' = SwapSlots(i, Smallest(i))
      BY <1>3 DEF SiftDownSwap
    <3> QED BY <1>1, <2>1, <3>1, <3>2, SwapFacts DEF size
  <2>3. (i + 1) + (i + 1) <= i' + 1
    <3>1. i' = Left(i) \/ i' = Right(i)
      BY <2>2, <1>1, ParentFacts
    <3> QED BY <3>1, <1>1 DEF Left, Right
  <2>4. CASE pc = "pop_down"
    <3>1. 2 ^ swaps <= i + 1 /\ 2 ^ swaps \in Nat /\ 2 ^ (swaps + 1) = 2 ^ swaps + 2 ^ swaps
      BY <2>4, <1>1, PowerDoubles DEF SwapInv
    <3>2. 2 ^ swaps' <= i' + 1
      BY <3>1, <2>1, <2>2, <2>3, <1>1
    <3> QED BY <3>2, <2>1, <2>4 DEF SwapInv
  <2>5. CASE pc = "build_down"
    <3>1. PICK f : Charges(f, size) /\ \E c \in Nat : 2 ^ c * (b + 1) <= i + 1 /\ swaps <= f[b + 1] + c
      BY <2>5 DEF SwapInv
    <3>2. PICK c \in Nat : 2 ^ c * (b + 1) <= i + 1 /\ swaps <= f[b + 1] + c
      BY <3>1
    <3>3. 2 ^ (c + 1) * (b + 1) <= (i + 1) + (i + 1) /\ 2 ^ (c + 1) * (b + 1) \in Nat
      <4>1. i + 1 \in Nat /\ c + 1 \in Nat
        BY <1>1
      <4> QED BY Zenon, <4>1, <3>2, <1>1, LevelUp, PowerCovers
    <3>4. 2 ^ (c + 1) * (b + 1) <= i' + 1
      <4>1. PICK z \in Nat : z = 2 ^ (c + 1) * (b + 1)
        BY <3>3
      <4>2. z <= (i + 1) + (i + 1)
        BY Zenon, <3>3, <4>1
      <4>3. PICK j \in Nat : j = i'
        BY <2>2
      <4>4. (i + 1) + (i + 1) <= j + 1
        BY Zenon, <2>3, <4>3
      <4>5. z <= j + 1
        BY <4>2, <4>4, <1>1
      <4> QED BY Zenon, <4>1, <4>3, <4>5
    <3>5. f[b + 1] \in Nat
      <4>1. b + 1 \in 0..size
        BY <3>2, <1>1, <2>1, PowerCovers
      <4> QED BY <4>1, <3>1 DEF Charges
    <3>6. swaps' <= f[b + 1] + (c + 1)
      BY <3>2, <3>5, <2>1, <1>1
    <3>7. c + 1 \in Nat
      OBVIOUS
    <3> QED BY <3>1, <3>4, <3>6, <3>7, <2>1, <2>2, <2>5 DEF SwapInv
  <2> QED BY <2>1, <2>4, <2>5
<1>4. CASE SiftUpDone
  BY <1>4 DEF SiftUpDone, SwapInv
<1>5. CASE SiftDownDone
  <2>1. CASE pc = "build_down"
    <3>1. pc' = "build" /\ swaps' = swaps /\ b' = b /\ data' = data /\ i < size /\ b <= size
      BY <1>5, <2>1 DEF SiftDownDone, TypeOK
    <3>2. PICK f : Charges(f, size) /\ \E c \in Nat : 2 ^ c * (b + 1) <= i + 1 /\ swaps <= f[b + 1] + c
      BY <2>1 DEF SwapInv
    <3>3. PICK c \in Nat : 2 ^ c * (b + 1) <= i + 1 /\ swaps <= f[b + 1] + c
      BY <3>2
    <3>4. 2 ^ c * (b + 1) \in Nat /\ b + 1 <= 2 ^ c * (b + 1)
      BY <1>1, PowerCovers
    <3>5. b \in 0..(size - 1) /\ b + 1 \in 0..size /\ b \in 0..size /\ 2 ^ c * (b + 1) <= size
      BY <3>1, <3>3, <3>4, <1>1
    <3>6. f[b + 1] + c <= f[b] /\ f[b + 1] \in Nat /\ f[b] \in Nat
      BY <3>2, <3>5 DEF Charges
    <3>7. swaps <= f[b]
      BY <3>3, <3>6, <1>1
    <3>8. size' = size /\ size > 0
      BY <3>1, <1>1 DEF size
    <3> QED BY <3>1, <3>2, <3>7, <3>8 DEF SwapInv
  <2>2. CASE pc # "build_down"
    BY <1>5, <2>2 DEF SiftDownDone, SwapInv
  <2> QED BY <2>1, <2>2
<1>6. CASE BuildStep
  <2>1. CASE b > 0
    <3>1. /\ pc = "build" /\ pc' = "build_down" /\ b' = b - 1 /\ i' = b - 1 /\ swaps' = swaps /\ data' = data
      BY <1>6, <2>1 DEF BuildStep
    <3>2. PICK f : Charges(f, size) /\ swaps <= f[b]
      BY <3>1 DEF SwapInv
    <3>3. b' \in Nat /\ b' + 1 = b /\ i' + 1 = b
      BY <2>1, <3>1, <1>1
    <3>4. 2 ^ 0 * (b' + 1) <= i' + 1
      <4>1. 2 ^ 0 * (b' + 1) = b' + 1
        BY Zenon, <3>3, PowerCovers
      <4>2. \A m \in Nat : m <= m
        OBVIOUS
      <4> QED BY Zenon, <4>1, <4>2, <3>3, <1>1
    <3>5. f[b] \in Nat
      <4>1. b \in 0..size
        BY <1>1, <3>1 DEF TypeOK
      <4> QED BY <4>1, <3>2 DEF Charges
    <3>6. swaps' <= f[b' + 1] + 0 /\ 0 \in Nat
      BY <3>1, <3>2, <3>3, <3>5, <1>1
    <3>7. size' = size
      BY <3>1 DEF size
    <3>8. \E c \in Nat : 2 ^ c * (b' + 1) <= i' + 1 /\ swaps' <= f[b' + 1] + c
      BY <3>4, <3>6
    <3> QED BY <3>1, <3>2, <3>7, <3>8 DEF SwapInv
  <2>2. CASE ~(b > 0)
    BY <1>6, <2>2 DEF BuildStep, SwapInv
  <2> QED BY <2>1, <2>2
<1>7. ASSUME NEW x \in Items, Push(x) PROVE SwapInv'
  <2>1. /\ pc = "idle" /\ swaps = 0 /\ swaps' = swaps /\ pc' = "sift_up" /\ i' = size
        /\ data' = Append(data, x)
    BY <1>7 DEF Push, SwapInv
  <2>2. size' = size + 1
    BY <2>1, <1>1, AppendProperties DEF size
  <2>3. 2 ^ swaps' * (i' + 1) <= size'
    BY <2>1, <2>2, <1>1, PowerCovers
  <2> QED BY <2>1, <2>3 DEF SwapInv
<1>8. ASSUME NEW s \in Batches, PushHeapRange(s) \/ Construct(s) PROVE SwapInv'
  <2>1. PICK d \in Seq(Items) : StartBuild(d) /\ pc = "idle" /\ swaps = 0
    <3>1. s \in Seq(Items) /\ data \o s \in Seq(Items)
      BY <1>1, BatchIsSeq
    <3> QED BY <1>8, <3>1 DEF PushHeapRange, Construct, SwapInv
  <2>2. swaps' = 0 /\ data' = d /\ size' = Len(d) /\ Len(d) \in Nat
    BY <2>1 DEF StartBuild, size
  <2>3. CASE Len(d) < 2
    <3>1. pc' = "idle"
      BY <2>1, <2>3 DEF StartBuild
    <3> QED BY <3>1, <2>2 DEF SwapInv
  <2>4. CASE ~(Len(d) < 2)
    <3>1. pc' = "build" /\ b' = (Len(d) - 1) \div 2 + 1
      BY <2>1, <2>4 DEF StartBuild
    <3>2. b' \in 0..Len(d) /\ Len(d) > 0
      BY <3>1, <2>2, <2>4
    <3>3. PICK f : Charges(f, Len(d))
      BY <3>2, <2>2, ChargesExist
    <3>4. f[b'] \in Nat
      BY <3>2, <3>3 DEF Charges
    <3>5. swaps' <= f[b']
      BY <3>4, <2>2
    <3> QED BY <3>1, <3>2, <3>3, <3>5, <2>2 DEF SwapInv
  <2> QED BY <2>3, <2>4
<1>9. CASE Pop \/ PopValue
  <2>1. RemoveTop /\ pc = "idle" /\ swaps = 0 /\ data # <<>>
    BY <1>9 DEF Pop, PopValue, SwapInv
  <2>2. swaps' = 0 /\ pc' \in {"idle", "pop_down"} /\ (pc' = "pop_down" => i' = 0)
    BY <2>1 DEF RemoveTop
  <2>3. 2 ^ 0 <= 0 + 1
    BY PowerCovers
  <2> QED BY <2>2, <2>3 DEF SwapInv
<1>10. CASE AssertFails
  BY <1>10 DEF AssertFails, Aborted, SwapInv
<1>11. CASE Clear \/ CopyAssign \/ MoveAssign \/ SwapHeaps
  BY <1>11 DEF Clear, CopyAssign, MoveAssign, SwapHeaps, SwapInv
<1>12. ASSUME NEW s \in Batches, NEW k \in 0..MaxSize, PushHeapRangeThrows(s, k) PROVE SwapInv'
  BY <1>12 DEF PushHeapRangeThrows, SwapInv
<1>13. CASE Terminated \/ UNCHANGED vars
  BY <1>13 DEF Terminated, vars, SwapInv, size
<1> QED
  BY <1>2, <1>3, <1>4, <1>5, <1>6, <1>7, <1>8, <1>9, <1>10, <1>11, <1>12, <1>13
  DEF Next, SiftUp, SiftDown

\* push and pop swap at most log2(n) times and heapify fewer than n times, as
\* docs/algorithms.md has it of MinHeap, for every n.
THEOREM SwapBoundCorrect == Spec => []SwapBound
<1>1. Init => SwapInv
  BY DEF Init, SwapInv
<1>2. TypeOK /\ SwapInv => SwapBound
  <2> SUFFICES ASSUME TypeOK, SwapInv PROVE SwapBound
    OBVIOUS
  <2>1. size \in Nat /\ i \in Nat /\ b \in Nat /\ swaps \in Nat
    BY DEF TypeOK, size
  <2>2. CASE pc = "sift_up"
    <3>1. 2 ^ swaps <= 2 ^ swaps * (i + 1) /\ 2 ^ swaps * (i + 1) \in Nat /\ 2 ^ swaps \in Nat
      BY <2>1, PowerCovers, PowerDoubles
    <3> QED BY <2>1, <2>2, <3>1 DEF SwapInv, SwapBound
  <2>3. CASE pc = "pop_down"
    <3>1. i < size /\ 2 ^ swaps \in Nat
      BY <2>1, <2>3, PowerDoubles DEF TypeOK
    <3> QED BY <2>1, <2>3, <3>1 DEF SwapInv, SwapBound
  <2>4. CASE pc = "build"
    <3>1. PICK f : Charges(f, size) /\ swaps <= f[b]
      BY <2>4 DEF SwapInv
    <3>2. b \in 0..size
      BY <2>1, <2>4 DEF TypeOK
    <3>3. f[b] \in Nat /\ f[b] < size
      BY <3>1, <3>2 DEF Charges
    <3> QED BY <2>1, <2>4, <3>1, <3>3 DEF SwapBound
  <2>5. CASE pc = "build_down"
    <3>1. PICK f : Charges(f, size) /\ \E c \in Nat : 2 ^ c * (b + 1) <= i + 1 /\ swaps <= f[b + 1] + c
      BY <2>5 DEF SwapInv
    <3>2. PICK c \in Nat : 2 ^ c * (b + 1) <= i + 1 /\ swaps <= f[b + 1] + c
      BY <3>1
    <3>3. i < size /\ 2 ^ c * (b + 1) \in Nat /\ b + 1 <= 2 ^ c * (b + 1)
      BY <2>1, <2>5, PowerCovers DEF TypeOK
    <3>4. b \in 0..(size - 1) /\ b \in 0..size /\ b + 1 \in 0..size /\ 2 ^ c * (b + 1) <= size
      BY <2>1, <3>2, <3>3
    <3>5. f[b + 1] + c <= f[b] /\ f[b + 1] \in Nat /\ f[b] \in Nat /\ f[b] < size
      BY <3>1, <3>4 DEF Charges
    <3>6. swaps < size
      BY <2>1, <3>2, <3>5
    <3> QED BY <2>5, <3>6 DEF SwapBound
  <2>6. CASE pc \notin {"sift_up", "pop_down", "build", "build_down"}
    BY <2>6 DEF SwapBound
  <2> QED BY <2>2, <2>3, <2>4, <2>5, <2>6
<1> QED BY <1>1, <1>2, SwapInvNext, TypeCorrect, PTL DEF Spec
=============================================================================
