------------------------- MODULE TopKParallelProofs -------------------------
(***************************************************************************)
(* Proofs about TopKParallel for every number of threads, every file and   *)
(* every k: however the threads interleave, the heaps hold the best copies *)
(* while they are filled and merged, and a best selection is returned.     *)
(***************************************************************************)
EXTENDS TopKParallel, FiniteSetTheorems, SequenceTheorems, WellFoundedInduction, TLAPS

\* Not being better chains, for copies as for movies.
LEMMA CopyOrder ==
  /\ \A x, y \in Copies : BetterCopy(x, y) => ~BetterCopy(y, x)
  /\ \A x, y, z \in Copies : BetterCopy(x, z) => BetterCopy(x, y) \/ BetterCopy(y, z)
BY OrderAssumption DEF BetterCopy, Copies

-----------------------------------------------------------------------------
\* What TopKProofs shows of heaps and sequences of movies holds of copies.
Single == INSTANCE TopKProofs WITH
  Rows <- Copies, Better <- BetterCopy, Files <- {},
  todo <- <<>>, given <- <<>>, status <- "ended", heap <- global

LEMMA SingleNames ==
  /\ \A s : Single!Range(s) = Range(s) /\ (Single!IsInjective(s) <=> IsInjective(s))
  /\ \A s : Single!Reverse(s) = Reverse(s)
  /\ \A S : Single!Cardinality(S) = Cardinality(S) /\ (Single!IsFiniteSet(S) <=> IsFiniteSet(S))
  /\ \A n, h, m : Single!Offered(n, h, m) = Heap!Offered(n, h, m)
<1>1. \A s : Single!Range(s) = Range(s) /\ (Single!IsInjective(s) <=> IsInjective(s))
  BY DEF Single!Range, Range, Single!IsInjective, IsInjective
<1>2. \A s : Single!Reverse(s) = Reverse(s)
  BY DEF Single!Reverse, Reverse
<1>3. \A S : Single!Cardinality(S) = Cardinality(S)
  BY DEF Single!Cardinality, Cardinality
<1>4. \A S : Single!IsFiniteSet(S) <=> IsFiniteSet(S)
  BY DEF Single!IsFiniteSet, IsFiniteSet
<1>5. \A n, h, m : Single!Offered(n, h, m) = Heap!Offered(n, h, m)
  BY DEF Single!Offered, Heap!Offered, Single!Worst, Heap!Worst, Single!Cardinality,
         Heap!Cardinality
<1> QED BY <1>1, <1>2, <1>3, <1>4, <1>5

LEMMA RangeFacts ==
  ASSUME NEW s \in Seq(Copies)
  PROVE  /\ Range(s) \subseteq Copies
         /\ \A x : x \in Range(s) <=> \E i \in 1..Len(s) : s[i] = x
         /\ IsFiniteSet(Range(s))
BY Single!RangeFacts, CopyOrder, ParallelAssumption, SingleNames

LEMMA AppendFacts ==
  ASSUME NEW s \in Seq(Copies), NEW m \in Copies
  PROVE  /\ Append(s, m) \in Seq(Copies) /\ Len(Append(s, m)) = Len(s) + 1
         /\ \A i \in 1..Len(s) : Append(s, m)[i] = s[i]
         /\ Append(s, m)[Len(s) + 1] = m
         /\ Range(Append(s, m)) = Range(s) \union {m}
BY Single!AppendFacts, CopyOrder, ParallelAssumption, SingleNames

LEMMA TailFacts ==
  ASSUME NEW s \in Seq(Copies), s # <<>>, IsInjective(s)
  PROVE  /\ Head(s) \in Copies /\ Tail(s) \in Seq(Copies) /\ IsInjective(Tail(s))
         /\ Range(s) = {Head(s)} \union Range(Tail(s))
         /\ Head(s) \notin Range(Tail(s))
BY Single!TailFacts, CopyOrder, ParallelAssumption, SingleNames

LEMMA ReverseFacts ==
  ASSUME NEW s \in Seq(Copies)
  PROVE  /\ Reverse(s) \in Seq(Copies) /\ Len(Reverse(s)) = Len(s)
         /\ \A i \in 1..Len(s) : Reverse(s)[i] = s[Len(s) - i + 1] /\ Len(s) - i + 1 \in 1..Len(s)
         /\ Range(Reverse(s)) = Range(s)
BY Single!ReverseFacts, CopyOrder, ParallelAssumption, SingleNames

\* The range of the empty sequence.
LEMMA EmptyRange ==
  <<>> \in Seq(Copies) /\ Range(<<>>) = {} /\ IsInjective(<<>>) /\ Len(<<>>) = 0
<1>1. <<>> \in Seq(Copies) /\ 1..Len(<<>>) = {} /\ Len(<<>>) = 0
  BY EmptySeq
<1>2. \A x : x \in Range(<<>>) <=> \E i \in 1..Len(<<>>) : <<>>[i] = x
  BY <1>1, RangeFacts
<1> QED BY <1>1, <1>2 DEF IsInjective

\* No member of S outside H is better than a member of H.
BestIn(H, S) == \A lost \in S \ H, kept \in H : ~BetterCopy(lost, kept)

AtMost(n, c) == IF c <= n THEN c ELSE n

\* A heap that holds the best n of S and is offered a new copy holds the best n of both.
LEMMA OfferKeepsBest ==
  ASSUME NEW n \in Nat, NEW S \in SUBSET Copies, IsFiniteSet(S), NEW H \in SUBSET S,
         Cardinality(H) = AtMost(n, Cardinality(S)), BestIn(H, S),
         NEW m \in Copies \ S, NEW G \in Heap!Offered(n, H, m)
  PROVE  /\ G \in SUBSET (S \union {m}) /\ IsFiniteSet(G)
         /\ Cardinality(G) = AtMost(n, Cardinality(S \union {m}))
         /\ BestIn(G, S \union {m})
<1>1. /\ \A c : Single!AtMost(n, c) = AtMost(n, c)
      /\ \A A, B : Single!BestIn(A, B) <=> BestIn(A, B)
  BY DEF Single!AtMost, AtMost, Single!BestIn, BestIn
<1> QED BY <1>1, Single!OfferKeepsBest, CopyOrder, ParallelAssumption, SingleNames

LEMMA MinIsAtMost ==
  ASSUME NEW n \in Nat, NEW c \in Nat
  PROVE  Min({c, n}) = AtMost(n, c)
<1>1. AtMost(n, c) \in {c, n} /\ \A y \in {c, n} : AtMost(n, c) <= y
  BY DEF AtMost
<1>2. \A x \in {c, n} : (\A y \in {c, n} : x <= y) => x = AtMost(n, c)
  BY DEF AtMost
<1> QED BY <1>1, <1>2 DEF Min

\* A heap that is offered a copy loses one only for k others that are as good.
LEMMA OfferLosesNoBetter ==
  ASSUME NEW n \in Nat, NEW H \in SUBSET Copies, IsFiniteSet(H), Cardinality(H) <= n,
         NEW m \in Copies \ H, NEW G \in Heap!Offered(n, H, m)
  PROVE  /\ G \subseteq H \union {m} /\ IsFiniteSet(G) /\ Cardinality(G) <= n
         /\ \A x \in (H \union {m}) \ G :
              Cardinality(G) = n /\ \A y \in G : ~BetterCopy(x, y)
<1>1. Cardinality(H) \in Nat /\ \A S : Heap!Cardinality(S) = Cardinality(S)
  BY FS_CardinalityType DEF Heap!Cardinality, Cardinality
<1>2. CASE Cardinality(H) < n
  <2>1. G = H \union {m}
    BY <1>1, <1>2 DEF Heap!Offered
  <2>2. IsFiniteSet(G) /\ Cardinality(G) = Cardinality(H) + 1
    BY <2>1, FS_AddElement
  <2> QED BY <1>1, <1>2, <2>1, <2>2
<1>3. CASE ~(Cardinality(H) < n)
  <2>1. PICK t \in Heap!Worst(H) : G = IF BetterCopy(m, t) THEN (H \ {t}) \union {m} ELSE H
    BY <1>1, <1>3 DEF Heap!Offered
  <2>2. t \in H /\ t \in Copies /\ \A x \in H : ~BetterCopy(t, x)
    BY <2>1 DEF Heap!Worst
  <2>3. Cardinality(H) = n
    BY <1>1, <1>3
  <2>4. CASE BetterCopy(m, t)
    <3>1. G = (H \ {t}) \union {m}
      BY <2>1, <2>4
    <3>2. IsFiniteSet(H \ {t}) /\ Cardinality(H \ {t}) = n - 1
      BY <2>2, <2>3, FS_RemoveElement
    <3>3. m \notin H \ {t}
      OBVIOUS
    <3>4. IsFiniteSet(G) /\ Cardinality(G) = n - 1 + 1
      BY <3>1, <3>2, <3>3, FS_AddElement
    <3>5. ~BetterCopy(t, m)
      BY <2>2, <2>4, CopyOrder
    <3> QED BY <2>2, <3>1, <3>4, <3>5
  <2>5. CASE ~BetterCopy(m, t)
    <3>1. G = H
      BY <2>1, <2>5
    <3>2. \A y \in H : ~BetterCopy(m, y)
      BY <2>2, <2>5, CopyOrder
    <3> QED BY <2>3, <3>1, <3>2
  <2> QED BY <2>4, <2>5
<1> QED BY <1>2, <1>3

-----------------------------------------------------------------------------
\* The inductive invariant.

\* Threads outside the team do nothing; the main thread goes on when all have ended.
Threading ==
  /\ \A t \in Threads \ team : at[t] = "outside" /\ given[t] = 0
  /\ \A t \in Threads : at[t] = "ended" => given[t] = Len(file)
  /\ pc = "start" => team = {}
  /\ pc \in {"joined", "merging", "draining"} => \A t \in team : given[t] = Len(file)
  /\ pc \in {"parallel", "joined", "merging", "draining"} => k > 0

\* What the phases have not touched yet, and what they leave behind.
Phases ==
  /\ pc \in {"start", "parallel", "joined"} => tmp = <<>> /\ global = {}
  /\ pc \in {"start", "parallel", "joined", "merging"} => rows = <<>>
  /\ pc = "start" => \A t \in Threads : heaps[t] = {}
  /\ pc = "merging" => merging \in Threads /\ \A t \in 1..(merging - 1) : heaps[t] = {}

\* Every copy given to a thread was a new one, and its heap holds no other's.
Counted ==
  \A t \in Threads :
    /\ IsFiniteSet(Mine(t)) /\ Cardinality(Mine(t)) = given[t]
    /\ heaps[t] \subseteq {t} \X Rows

\* A copy is in one place at a time.
Apart ==
  pc = "merging" =>
    /\ IsInjective(tmp) /\ Range(tmp) \intersect global = {}
    /\ \A t \in Threads : heaps[t] \intersect (global \union Range(tmp)) = {}

\* The copies that the main thread holds while it drains the merged heap.
Drained == global \union Range(rows)

\* While the merged heap is drained, heap and rows together are the best k of all; what
\* has been popped is worst first, and nothing still in the heap is worse.
DrainInv ==
  pc = "draining" =>
    /\ Drained \subseteq AllCopies /\ BestIn(Drained, AllCopies)
    /\ Len(rows) + Cardinality(global) = AtMost(k, Cardinality(AllCopies))
    /\ global \intersect Range(rows) = {}
    /\ \A i, j \in 1..Len(rows) : rows[i] = rows[j] => i = j
    /\ \A i, j \in 1..Len(rows) : i < j => ~BetterCopy(rows[i], rows[j])
    /\ \A i \in 1..Len(rows), x \in global : ~BetterCopy(rows[i], x)
    /\ stats = Cardinality(team) * Len(file)

Inv ==
  /\ TypeOK /\ IsFiniteSet(global) /\ \A t \in Threads : IsFiniteSet(heaps[t])
  /\ Threading /\ Phases /\ Counted /\ Apart
  /\ HeapsHoldBest /\ DrainInv /\ CopiesSelected

\* The arguments as a run has them, and threads as numbers.
LEMMA Arguments ==
  ASSUME TypeOK
  PROVE  /\ k \in Nat /\ file \in Seq(Rows) /\ IsInjective(file) /\ Len(file) \in Nat
         /\ MaxThreads \in Nat /\ Threads \subseteq Nat /\ 1 \in Threads
         /\ \A t \in Threads : given[t] \in 0..Len(file) /\ given[t] \in Nat
         /\ team \subseteq Threads
BY ParallelAssumption DEF TypeOK, Threads

\* The rows of a file, the team, and all its copies are finitely many.
LEMMA CopiesAreFinite ==
  ASSUME TypeOK
  PROVE  /\ Range(file) \subseteq Rows
         /\ \A x : x \in Range(file) <=> \E i \in 1..Len(file) : file[i] = x
         /\ IsFiniteSet(Threads) /\ IsFiniteSet(team) /\ IsFiniteSet(Range(file))
         /\ AllCopies \subseteq Copies /\ IsFiniteSet(AllCopies)
         /\ Cardinality(AllCopies) \in Nat
<1>1. Range(file) \subseteq Rows /\ \A x : x \in Range(file) <=> \E i \in 1..Len(file) : file[i] = x
  BY Arguments DEF Range
<1>2. IsFiniteSet(Range(file))
  <2>1. file \in Surjection(1..Len(file), Range(file))
    BY <1>1, Arguments, LenProperties DEF Surjection
  <2>2. IsFiniteSet(1..Len(file))
    BY Arguments, FS_Interval
  <2> QED BY <2>1, <2>2, FS_Surjection
<1>3. IsFiniteSet(Threads) /\ IsFiniteSet(team)
  <2>1. IsFiniteSet(Threads)
    BY Arguments, FS_Interval DEF Threads
  <2> QED BY <2>1, Arguments, FS_Subset
<1>4. IsFiniteSet(AllCopies) /\ AllCopies \subseteq Copies
  <2>1. IsFiniteSet(AllCopies)
    BY <1>2, <1>3, FS_Product DEF AllCopies
  <2>2. AllCopies \subseteq Copies
    BY <1>1, Arguments DEF AllCopies, Copies
  <2> QED BY <2>1, <2>2
<1> QED BY <1>1, <1>2, <1>3, <1>4, FS_CardinalityType

\* A call starts with nothing.
LEMMA InitInv == Init => Inv
<1> SUFFICES ASSUME Init PROVE Inv
  OBVIOUS
<1>1. /\ k \in Bounds /\ k \in Nat /\ file \in Files /\ Len(file) \in Nat
      /\ team = {} /\ stats = Unset /\ pc = "start"
      /\ at = [t \in Threads |-> "outside"] /\ given = [t \in Threads |-> 0]
      /\ heaps = [t \in Threads |-> {}] /\ merging = 0 /\ MaxThreads \in Nat
      /\ tmp = <<>> /\ global = {} /\ rows = <<>>
  BY ParallelAssumption, LenProperties DEF Init
<1>2. IsFiniteSet({}) /\ Cardinality({}) = 0
  BY FS_EmptySet
<1>3. given \in [Threads -> 0..Len(file)] /\ \A t \in Threads : given[t] = 0
  BY <1>1
<1>4. \A t \in Threads : heaps[t] = {} /\ at[t] = "outside"
  BY <1>1
<1>5. \A t \in Threads : Mine(t) = {}
  BY <1>3 DEF Mine
<1>6. TypeOK
  BY <1>1, <1>2, <1>3, <1>4, EmptyRange DEF TypeOK
<1> QED
  BY <1>1, <1>2, <1>3, <1>4, <1>5, <1>6
  DEF Inv, Threading, Phases, Counted, Apart, HeapsHoldBest, DrainInv, CopiesSelected

\* The copy that a thread parses next is not one that it was given before.
LEMMA NextCopy ==
  ASSUME TypeOK, NEW t \in Threads, given[t] < Len(file)
  PROVE  LET m == <<t, file[given[t] + 1]>>
         IN  /\ m \in Copies /\ m \in {t} \X Rows /\ m \notin Mine(t)
             /\ {<<t, file[n]>> : n \in 1..(given[t] + 1)} = Mine(t) \union {m}
<1> DEFINE g == given[t]
           m == <<t, file[g + 1]>>
<1>1. /\ g \in Nat /\ g + 1 \in 1..Len(file) /\ 1..g \subseteq 1..Len(file)
      /\ 1..(g + 1) = 1..g \union {g + 1} /\ g + 1 \notin 1..g
  BY Arguments
<1>2. file[g + 1] \in Rows
  BY <1>1, Arguments
<1>3. \A n \in 1..g : file[n] # file[g + 1]
  BY <1>1, Arguments DEF IsInjective
<1>4. m \in Copies /\ m \in {t} \X Rows
  BY <1>2 DEF Copies
<1> HIDE DEF g
<1>5. {<<t, file[n]>> : n \in 1..(g + 1)} = {<<t, file[n]>> : n \in 1..g} \union {m}
  BY <1>1
<1>6. m \notin {<<t, file[n]>> : n \in 1..g}
  BY <1>3
<1> QED BY <1>4, <1>5, <1>6 DEF g, Mine

\* What HeapsHoldBest says of one thread, in the terms of OfferKeepsBest.
LEMMA HeapOfThread ==
  ASSUME TypeOK, NEW t \in Threads
  PROVE  /\ Cardinality(heaps[t]) = Min({given[t], k}) <=> Cardinality(heaps[t]) = AtMost(k, given[t])
         /\ BestIn(heaps[t], Mine(t)) <=>
              \A lost \in Mine(t) \ heaps[t], kept \in heaps[t] : ~BetterCopy(lost, kept)
BY Arguments, MinIsAtMost DEF BestIn

\* A visitor call gives one thread a new copy, which only its own heap is offered.
LEMMA VisitInv == ASSUME Inv, NEW t \in Threads, ThreadVisits(t) PROVE Inv'
<1> DEFINE m == <<t, file[given[t] + 1]>>
<1>1. PICK h \in Heap!Offered(k, heaps[t], m) : heaps' = [heaps EXCEPT ![t] = h]
  BY DEF ThreadVisits, Tid
<1>2. /\ pc = "parallel" /\ at[t] = "reading" /\ given[t] < Len(file)
      /\ given' = [given EXCEPT ![t] = @ + 1]
      /\ UNCHANGED <<k, file, pc, team, at, merging, tmp, global, rows, stats>>
      /\ TypeOK /\ k \in Nat
  BY Arguments DEF ThreadVisits, InRegion, Inv
<1>3. /\ m \in Copies /\ m \in {t} \X Rows /\ m \notin Mine(t)
      /\ {<<t, file[n]>> : n \in 1..(given[t] + 1)} = Mine(t) \union {m}
  BY <1>2, NextCopy
<1> HIDE DEF m
<1>4. /\ heaps \in [Threads -> SUBSET Copies] /\ given \in [Threads -> 0..Len(file)]
      /\ given[t] \in Nat
  BY <1>2, Arguments DEF TypeOK
<1>5. /\ given'[t] = given[t] + 1 /\ heaps'[t] = h
      /\ \A s \in Threads \ {t} : given'[s] = given[s] /\ heaps'[s] = heaps[s]
  BY <1>1, <1>2, <1>4
<1>6. Mine(t)' = Mine(t) \union {m} /\ \A s \in Threads \ {t} : Mine(s)' = Mine(s)
  BY <1>2, <1>3, <1>5 DEF Mine
<1>7. /\ IsFiniteSet(Mine(t)) /\ Cardinality(Mine(t)) = given[t] /\ heaps[t] \subseteq {t} \X Rows
  BY DEF Inv, Counted
<1>8. IsFiniteSet(Mine(t)') /\ Cardinality(Mine(t)') = given[t] + 1
  BY <1>3, <1>6, <1>7, FS_AddElement
<1>9. /\ heaps[t] \subseteq Mine(t) /\ Cardinality(heaps[t]) = AtMost(k, given[t])
      /\ BestIn(heaps[t], Mine(t))
  BY <1>2, HeapOfThread DEF Inv, HeapsHoldBest
<1>10. /\ h \subseteq Mine(t)' /\ IsFiniteSet(h)
       /\ Cardinality(h) = AtMost(k, given[t] + 1) /\ BestIn(h, Mine(t)')
  <2> DEFINE S == Mine(t)
  <2>1. S \in SUBSET Copies
    <3>1. \A n \in 1..given[t] : <<t, file[n]>> \in Copies
      BY <1>2, Arguments DEF Copies
    <3> QED BY <3>1 DEF Mine
  <2>2. m \in Copies \ S
    BY <1>3
  <2>3. IsFiniteSet(S) /\ heaps[t] \in SUBSET S /\ Cardinality(heaps[t]) = AtMost(k, Cardinality(S))
    BY <1>7, <1>9
  <2>4. BestIn(heaps[t], S)
    BY <1>9
  <2> HIDE DEF S
  <2>5. /\ h \in SUBSET (S \union {m}) /\ IsFiniteSet(h)
        /\ Cardinality(h) = AtMost(k, Cardinality(S \union {m})) /\ BestIn(h, S \union {m})
    BY <1>1, <1>2, <2>1, <2>2, <2>3, <2>4, OfferKeepsBest
  <2> QED BY <1>6, <1>8, <2>5 DEF S
<1>11. h \subseteq {t} \X Rows /\ h \in SUBSET Copies /\ Cardinality(h) <= k
  <2>1. Mine(t) \subseteq {t} \X Rows
    <3>1. \A n \in 1..given[t] : <<t, file[n]>> \in {t} \X Rows
      BY <1>2, Arguments
    <3> QED BY <3>1 DEF Mine
  <2>2. h \subseteq {t} \X Rows
    BY <1>3, <1>6, <1>10, <2>1
  <2>3. Cardinality(h) <= k
    BY <1>2, <1>4, <1>10 DEF AtMost
  <2> QED BY <2>2, <2>3 DEF Copies
<1>12. TypeOK'
  <2>1. given' \in [Threads -> 0..Len(file)]
    BY <1>2, <1>4, Arguments
  <2>2. heaps' \in [Threads -> SUBSET Copies]
    BY <1>1, <1>4, <1>11
  <2>3. \A s \in Threads : Cardinality(heaps'[s]) <= k
    BY <1>2, <1>5, <1>11 DEF TypeOK
  <2> QED BY <1>2, <2>1, <2>2, <2>3 DEF TypeOK
<1>13. \A s \in Threads : IsFiniteSet(heaps'[s])
  BY <1>5, <1>10 DEF Inv
<1>14. Counted'
  BY <1>5, <1>6, <1>8, <1>11 DEF Inv, Counted
<1>15. Threading'
  BY <1>2, <1>5 DEF Inv, Threading
<1>16. HeapsHoldBest'
  <2>1. ASSUME NEW s \in Threads
        PROVE  /\ heaps'[s] \subseteq Mine(s)' /\ Cardinality(heaps'[s]) = Min({given'[s], k'})
               /\ \A lost \in Mine(s)' \ heaps'[s], kept \in heaps'[s] : ~BetterCopy(lost, kept)
    <3>1. CASE s = t
      BY <1>2, <1>4, <1>5, <1>10, <3>1, MinIsAtMost DEF BestIn
    <3>2. CASE s # t
      BY <1>2, <1>5, <1>6, <3>2 DEF Inv, HeapsHoldBest
    <3> QED BY <3>1, <3>2
  <2> QED BY <1>2, <2>1 DEF HeapsHoldBest
<1>17. Phases' /\ Apart' /\ DrainInv' /\ CopiesSelected'
  BY <1>2 DEF Inv, Phases, Apart, DrainInv, CopiesSelected
<1> QED BY <1>2, <1>12, <1>13, <1>14, <1>15, <1>16, <1>17 DEF Inv

\* Who is among the copies still held.
LEMMA HeldMembers ==
  \A x : x \in Held <=> \/ x \in global \/ x \in Range(tmp)
                        \/ \E t \in Threads : x \in heaps[t]
BY DEF Held

\* The copies of S as good as x, and that every copy missing from S leaves k of them.
AsGood(x, S) == {y \in S : ~BetterCopy(x, y)}

EnoughIn(S) == \A x \in AllCopies \ S : Cardinality(AsGood(x, S)) >= k

\* Behind the barrier every thread's heap holds the best k of a whole file, so a copy
\* that is in none of them was lost to k others.
LEMMA JoinInv == ASSUME Inv, Join PROVE Inv'
<1>1. /\ pc = "parallel" /\ \A t \in team : at[t] = "ended"
      /\ pc' = "joined"
      /\ UNCHANGED <<k, file, team, at, given, heaps, merging, tmp, global, rows, stats>>
      /\ TypeOK /\ tmp = <<>> /\ global = {} /\ k \in Nat
  BY Arguments DEF Join, Inv, Phases
<1>2. \A t \in team : given[t] = Len(file)
  BY <1>1, Arguments DEF Inv, Threading
<1>3. \A t \in Threads : /\ heaps[t] \subseteq Mine(t) /\ Cardinality(heaps[t]) = AtMost(k, given[t])
                         /\ BestIn(heaps[t], Mine(t))
  BY <1>1, HeapOfThread DEF Inv, HeapsHoldBest
<1>4. \A t \in team : \A r \in Range(file) : <<t, r>> \in Mine(t)
  BY <1>1, <1>2, CopiesAreFinite DEF Mine
<1>5. \A t \in Threads : Mine(t) \subseteq AllCopies
  <2> SUFFICES ASSUME NEW t \in Threads, NEW n \in 1..given[t] PROVE <<t, file[n]>> \in AllCopies
    BY DEF Mine
  <2>1. t \in team
    BY DEF Inv, Threading
  <2>2. file[n] \in Range(file)
    BY <1>1, <1>2, <2>1, CopiesAreFinite
  <2> QED BY <2>1, <2>2 DEF AllCopies
<1>6. Held \subseteq AllCopies
  BY <1>1, <1>3, <1>5, HeldMembers, EmptyRange
<1>7. EnoughIn(Held)
  <2> SUFFICES ASSUME NEW x \in AllCopies \ Held PROVE Cardinality(AsGood(x, Held)) >= k
    BY DEF EnoughIn
  <2>1. PICK t \in team, r \in Range(file) : x = <<t, r>>
    BY DEF AllCopies
  <2>2. t \in Threads /\ x \in Mine(t) /\ x \notin heaps[t]
    BY <1>1, <1>4, <2>1, HeldMembers, Arguments
  <2>3. heaps[t] \subseteq AsGood(x, Held)
    BY <1>3, <2>2, HeldMembers DEF AsGood, BestIn
  <2>4. IsFiniteSet(AsGood(x, Held)) /\ IsFiniteSet(AllCopies)
    <3>1. AsGood(x, Held) \subseteq AllCopies
      BY <1>6 DEF AsGood
    <3> QED BY <1>1, <3>1, CopiesAreFinite, FS_Subset
  <2>5. Cardinality(heaps[t]) = k
    <3>1. IsFiniteSet(Mine(t)) /\ Cardinality(Mine(t)) = given[t] /\ given[t] \in Nat
      BY <1>1, <2>2, Arguments DEF Inv, Counted
    <3>2. Cardinality(heaps[t]) # Cardinality(Mine(t))
      BY <1>3, <2>2, <3>1, FS_Subset
    <3> QED BY <1>1, <1>3, <2>2, <3>1, <3>2 DEF AtMost
  <2>6. Cardinality(heaps[t]) <= Cardinality(AsGood(x, Held)) /\ Cardinality(AsGood(x, Held)) \in Nat
    BY <2>3, <2>4, FS_Subset, FS_CardinalityType
  <2> QED BY <1>1, <2>5, <2>6
<1>8. Held' = Held /\ AllCopies' = AllCopies
  BY <1>1 DEF Held, AllCopies
<1>9. HeapsHoldBest'
  BY <1>1, <1>6, <1>7, <1>8 DEF HeapsHoldBest, EnoughIn, AsGood
<1>10. TypeOK' /\ IsFiniteSet(global') /\ (\A t \in Threads : IsFiniteSet(heaps'[t])) /\ Counted'
  BY <1>1 DEF Inv, TypeOK, Counted, Mine
<1>11. Threading' /\ Phases'
  BY <1>1, <1>2 DEF Inv, Threading, Phases
<1> QED BY <1>1, <1>9, <1>10, <1>11 DEF Inv, Apart, DrainInv, CopiesSelected

\* The merge loop goes on to a thread before which all heaps are empty.
LEMMA MergeFromInv ==
  ASSUME Inv, BeginMerge \/ MergeNext PROVE Inv'
<1>1. /\ pc \in {"joined", "merging"} /\ pc' = "merging"
      /\ UNCHANGED <<k, file, team, at, given, heaps, tmp, global, rows, stats>>
      /\ TypeOK
  BY DEF BeginMerge, MergeNext, Merged, MergeFrom, Inv
<1>2. merging' \in Threads /\ \A t \in 1..(merging' - 1) : heaps[t] = {}
  <2>1. CASE BeginMerge
    BY <1>1, <2>1, Arguments DEF BeginMerge, MergeFrom
  <2>2. CASE MergeNext
    <3>1. /\ merging \in Threads /\ \A t \in 1..(merging - 1) : heaps[t] = {}
          /\ heaps[merging] = {} /\ merging' = merging + 1 /\ merging < MaxThreads
      BY <2>2 DEF MergeNext, Merged, MergeFrom, NextHeap, Inv, Phases
    <3>2. \A t \in 1..(merging' - 1) : t \in 1..(merging - 1) \/ t = merging
      BY <1>1, <3>1, Arguments DEF Threads
    <3>3. merging' \in Threads
      BY <1>1, <3>1, Arguments DEF Threads
    <3> QED BY <3>1, <3>2, <3>3
  <2> QED BY <2>1, <2>2
<1>3. TypeOK' /\ IsFiniteSet(global') /\ (\A t \in Threads : IsFiniteSet(heaps'[t])) /\ Counted'
  <2>1. merging' \in 0..MaxThreads
    BY <1>1, <1>2, Arguments DEF Threads
  <2> QED BY <1>1, <2>1 DEF Inv, TypeOK, Counted, Mine
<1>4. Threading' /\ Phases'
  BY <1>1, <1>2 DEF Inv, Threading, Phases
<1>5. Apart'
  <2>1. CASE pc = "joined"
    <3>1. tmp = <<>> /\ global = {}
      BY <2>1 DEF Inv, Phases
    <3> QED BY <1>1, <3>1, EmptyRange DEF Apart
  <2>2. CASE pc = "merging"
    BY <1>1, <2>2 DEF Inv, Apart
  <2> QED BY <1>1, <2>1, <2>2
<1>6. HeapsHoldBest'
  <2>1. Held' = Held /\ AllCopies' = AllCopies
    BY <1>1 DEF Held, AllCopies
  <2> QED BY <1>1, <2>1 DEF Inv, HeapsHoldBest
<1> QED BY <1>1, <1>3, <1>4, <1>5, <1>6 DEF Inv, DrainInv, CopiesSelected

\* pop_value moves a copy from a thread's heap to the buffer: it is still held.
LEMMA MergePopInv == ASSUME Inv, MergePop PROVE Inv'
<1>1. PICK m \in Heap!Worst(heaps[merging]) :
        heaps' = [heaps EXCEPT ![merging] = @ \ {m}] /\ tmp' = Append(tmp, m)
  BY DEF MergePop
<1>2. /\ pc = "merging" /\ TypeOK /\ merging \in Threads
      /\ UNCHANGED <<k, file, pc, team, at, given, merging, global, rows, stats>>
      /\ \A t \in 1..(merging - 1) : heaps[t] = {}
      /\ heaps \in [Threads -> SUBSET Copies] /\ tmp \in Seq(Copies) /\ k \in Nat
  BY Arguments DEF MergePop, Inv, Phases, TypeOK
<1>3. m \in heaps[merging] /\ m \in Copies
  BY <1>1, <1>2 DEF Heap!Worst
<1>4. /\ tmp' \in Seq(Copies) /\ Len(tmp') = Len(tmp) + 1
      /\ \A i \in 1..Len(tmp) : tmp'[i] = tmp[i]
      /\ tmp'[Len(tmp) + 1] = m /\ Range(tmp') = Range(tmp) \union {m}
      /\ Len(tmp) \in Nat
  BY <1>1, <1>2, <1>3, AppendFacts, LenProperties
<1>5. /\ heaps'[merging] = heaps[merging] \ {m}
      /\ \A t \in Threads \ {merging} : heaps'[t] = heaps[t]
      /\ heaps' \in [Threads -> SUBSET Copies]
  BY <1>1, <1>2
<1>6. \A t \in Threads : heaps'[t] \subseteq heaps[t] /\ m \notin heaps'[t]
  <2> SUFFICES ASSUME NEW t \in Threads PROVE heaps'[t] \subseteq heaps[t] /\ m \notin heaps'[t]
    OBVIOUS
  <2>1. CASE t = merging
    BY <1>5, <2>1
  <2>2. CASE t # merging
    <3>1. heaps'[t] = heaps[t] /\ heaps[t] \subseteq {t} \X Rows /\ heaps[merging] \subseteq {merging} \X Rows
      BY <1>2, <1>5, <2>2 DEF Inv, Counted
    <3> QED BY <1>3, <2>2, <3>1
  <2> QED BY <2>1, <2>2
<1>7. \A t \in Threads : IsFiniteSet(heaps'[t]) /\ Cardinality(heaps'[t]) <= k
  <2> SUFFICES ASSUME NEW t \in Threads PROVE IsFiniteSet(heaps'[t]) /\ Cardinality(heaps'[t]) <= k
    OBVIOUS
  <2>1. IsFiniteSet(heaps[t]) /\ Cardinality(heaps[t]) <= k /\ Cardinality(heaps[t]) \in Nat
    BY FS_CardinalityType DEF Inv, TypeOK
  <2>2. /\ IsFiniteSet(heaps'[t]) /\ Cardinality(heaps'[t]) <= Cardinality(heaps[t])
        /\ Cardinality(heaps'[t]) \in Nat
    BY <1>6, <2>1, FS_Subset, FS_CardinalityType
  <2> QED BY <1>2, <2>1, <2>2
<1>8. TypeOK' /\ IsFiniteSet(global') /\ (\A t \in Threads : IsFiniteSet(heaps'[t]))
  BY <1>2, <1>4, <1>5, <1>7 DEF Inv, TypeOK
<1>9. Threading' /\ Counted'
  <2>1. \A t \in Threads : Mine(t)' = Mine(t)
    BY <1>2 DEF Mine
  <2>2. Counted'
    BY <1>2, <1>6, <2>1 DEF Inv, Counted
  <2> QED BY <1>2, <2>2 DEF Inv, Threading
<1>10. Phases'
  <2>1. \A t \in 1..(merging - 1) : t \in Threads /\ t # merging
    BY <1>2, Arguments DEF Threads
  <2> QED BY <1>2, <1>5, <2>1 DEF Inv, Phases
<1>11. Apart'
  <2>1. m \notin global /\ m \notin Range(tmp)
    BY <1>2, <1>3 DEF Inv, Apart
  <2>2. \A i \in 1..Len(tmp) : tmp[i] \in Range(tmp)
    BY <1>2, RangeFacts
  <2>3. \A i \in 1..Len(tmp') : i \in 1..Len(tmp) \/ i = Len(tmp) + 1
    BY <1>4
  <2>4. \A i, j \in 1..Len(tmp) : tmp[i] = tmp[j] => i = j
    BY <1>2 DEF Inv, Apart, IsInjective
  <2>5. ASSUME NEW i \in 1..Len(tmp'), NEW j \in 1..Len(tmp'), tmp'[i] = tmp'[j] PROVE i = j
    BY <1>4, <2>1, <2>2, <2>3, <2>4, <2>5
  <2>6. IsInjective(tmp')
    BY <1>4, <2>5 DEF IsInjective
  <2> QED BY <1>2, <1>4, <1>6, <2>1, <2>6 DEF Inv, Apart
<1>12. HeapsHoldBest'
  <2>1. Held' = Held
    <3>1. ASSUME NEW x \in Held' PROVE x \in Held
      BY <1>2, <1>3, <1>4, <1>6, <3>1 DEF Held
    <3>2. ASSUME NEW x \in Held PROVE x \in Held'
      <4>1. CASE x = m
        BY <1>4, <4>1 DEF Held
      <4>2. CASE x # m
        BY <1>2, <1>4, <1>5, <3>2, <4>2 DEF Held
      <4> QED BY <4>1, <4>2
    <3> QED BY <3>1, <3>2
  <2>2. AllCopies' = AllCopies
    BY <1>2 DEF AllCopies
  <2> QED BY <1>2, <2>1, <2>2 DEF Inv, HeapsHoldBest
<1> QED BY <1>2, <1>8, <1>9, <1>10, <1>11, <1>12 DEF Inv, DrainInv, CopiesSelected

\* The merged heap is offered a copy of the buffer: it loses one only for k better ones
\* or equals, and so for every copy that had counted on the one lost.
LEMMA MergeOfferInv == ASSUME Inv, MergeOffer PROVE Inv'
<1> DEFINE m == Head(tmp)
<1>1. /\ pc = "merging" /\ tmp # <<>> /\ tmp' = Tail(tmp)
      /\ global' \in Heap!Offered(k, global, m)
      /\ UNCHANGED <<k, file, pc, team, at, given, heaps, merging, rows, stats>>
      /\ TypeOK /\ k \in Nat /\ tmp \in Seq(Copies) /\ IsInjective(tmp)
      /\ global \in SUBSET Copies /\ IsFiniteSet(global) /\ Cardinality(global) <= k
  BY Arguments DEF MergeOffer, Inv, Apart, TypeOK
<1>2. /\ m \in Copies /\ tmp' \in Seq(Copies) /\ IsInjective(tmp')
      /\ Range(tmp) = {m} \union Range(tmp') /\ m \notin Range(tmp')
  BY <1>1, TailFacts
<1>3. m \in Copies \ global
  BY <1>1, <1>2 DEF Inv, Apart
<1> HIDE DEF m
<1>4. /\ global' \subseteq global \union {m} /\ IsFiniteSet(global') /\ Cardinality(global') <= k
      /\ \A x \in (global \union {m}) \ global' :
           Cardinality(global') = k /\ \A y \in global' : ~BetterCopy(x, y)
  BY <1>1, <1>3, OfferLosesNoBetter
<1>5. AllCopies' = AllCopies /\ IsFiniteSet(AllCopies) /\ AllCopies \subseteq Copies
  BY <1>1, CopiesAreFinite DEF AllCopies
<1>6. \A x : x \in Held' <=> \/ x \in global' \/ x \in Range(tmp')
                             \/ \E t \in Threads : x \in heaps[t]
  BY <1>1 DEF Held
<1>7. Held' \subseteq Held /\ \A x \in Held \ Held' : x \in (global \union {m}) \ global'
  BY <1>2, <1>4, <1>6, HeldMembers
<1>8. Held \subseteq AllCopies /\ EnoughIn(Held)
  BY <1>1 DEF Inv, HeapsHoldBest, EnoughIn, AsGood
<1>9. \A x \in AllCopies \ Held' : Cardinality(AsGood(x, Held')) >= k
  <2> SUFFICES ASSUME NEW x \in AllCopies \ Held' PROVE Cardinality(AsGood(x, Held')) >= k
    OBVIOUS
  <2>1. IsFiniteSet(AsGood(x, Held')) /\ Cardinality(AsGood(x, Held')) \in Nat
    <3>1. AsGood(x, Held') \subseteq AllCopies
      BY <1>7, <1>8 DEF AsGood
    <3> QED BY <1>5, <3>1, FS_Subset, FS_CardinalityType
  <2>2. ASSUME NEW e \in (global \union {m}) \ global', ~BetterCopy(x, e)
        PROVE  Cardinality(AsGood(x, Held')) >= k
    <3>1. x \in Copies /\ e \in Copies /\ global' \subseteq Copies
      BY <1>1, <1>3, <1>4, <1>5
    <3>2. Cardinality(global') = k /\ \A y \in global' : ~BetterCopy(e, y)
      BY <1>4
    <3>3. \A y \in global' : ~BetterCopy(x, y)
      BY <2>2, <3>1, <3>2, CopyOrder
    <3>4. global' \subseteq AsGood(x, Held')
      BY <1>6, <3>3 DEF AsGood
    <3> QED BY <1>1, <2>1, <3>2, <3>4, FS_Subset
  <2>3. CASE x \in Held
    <3>1. x \in (global \union {m}) \ global' /\ x \in Copies
      BY <1>5, <1>7, <2>3
    <3>2. ~BetterCopy(x, x)
      BY <3>1, CopyOrder
    <3> QED BY <2>2, <3>1, <3>2
  <2>4. CASE x \notin Held
    <3>1. Cardinality(AsGood(x, Held)) >= k
      BY <1>8, <2>4 DEF EnoughIn
    <3>2. CASE AsGood(x, Held) \subseteq Held'
      <4>1. AsGood(x, Held) \subseteq AsGood(x, Held')
        BY <3>2 DEF AsGood
      <4>2. Cardinality(AsGood(x, Held)) <= Cardinality(AsGood(x, Held')) /\ Cardinality(AsGood(x, Held)) \in Nat
        BY <2>1, <4>1, FS_Subset, FS_CardinalityType
      <4> QED BY <1>1, <2>1, <3>1, <4>2
    <3>3. CASE ~(AsGood(x, Held) \subseteq Held')
      <4>1. PICK e \in AsGood(x, Held) : e \notin Held'
        BY <3>3
      <4> QED BY <1>7, <2>2, <4>1 DEF AsGood
    <3> QED BY <3>2, <3>3
  <2> QED BY <2>3, <2>4
<1>10. HeapsHoldBest'
  <2>1. Held' \subseteq AllCopies'
    BY <1>5, <1>7, <1>8
  <2> QED BY <1>1, <1>5, <1>9, <2>1 DEF HeapsHoldBest, AsGood
<1>11. TypeOK' /\ IsFiniteSet(global') /\ (\A t \in Threads : IsFiniteSet(heaps'[t])) /\ Counted'
  <2>1. global' \in SUBSET Copies
    BY <1>1, <1>3, <1>4
  <2>2. TypeOK'
    BY <1>1, <1>2, <1>4, <2>1 DEF TypeOK
  <2>3. Counted'
    BY <1>1 DEF Inv, Counted, Mine
  <2> QED BY <1>1, <1>4, <2>2, <2>3 DEF Inv
<1>12. Threading' /\ Phases'
  BY <1>1 DEF Inv, Threading, Phases
<1>13. Apart'
  BY <1>1, <1>2, <1>4 DEF Inv, Apart
<1> QED BY <1>1, <1>10, <1>11, <1>12, <1>13 DEF Inv, DrainInv, CopiesSelected

-----------------------------------------------------------------------------
\* The counters.

\* A set of natural numbers has a least member.
LEMMA LeastNatural ==
  ASSUME NEW S \in SUBSET Nat, S # {}
  PROVE  \E m \in S : \A n \in S : m <= n
<1> DEFINE R == OpToRel(<, Nat)
<1>1. IsWellFoundedOn(R, Nat)
  BY NatLessThanWellFounded
<1>2. \A m, n \in Nat : <<n, m>> \in R <=> n < m
  BY DEF OpToRel
<1>3. \A m, n \in Nat : n < m \/ m <= n
  OBVIOUS
<1> HIDE DEF R
<1>4. PICK m \in S : \A n \in S : ~(<<n, m>> \in R)
  BY <1>1, WFMin
<1>5. m \in Nat /\ \A n \in S : n \in Nat
  OBVIOUS
<1>6. \A n \in S : m <= n
  BY <1>2, <1>3, <1>4, <1>5, Zenon
<1> QED BY <1>6

\* The sum over a set of threads, taken one thread at a time, is the only function that
\* the equation of MapThenSumSet allows: here, one file's length for each of the team.
LEMMA SumIsTeamTimesFile ==
  ASSUME TypeOK, \A t \in team : given[t] = Len(file), \A t \in Threads \ team : given[t] = 0
  PROVE  SumKept = Cardinality(team) * Len(file)
<1> DEFINE c == Len(file)
           pick(S) == CHOOSE x \in S : TRUE
           sum == [S \in SUBSET Threads |-> Cardinality(S \intersect team) * c]
           Eq(f) == f = [S \in SUBSET Threads |->
                           IF S = {} THEN 0 ELSE given[pick(S)] + f[S \ {pick(S)}]]
           iter == CHOOSE f : Eq(f)
<1>1. SumKept = iter[Threads]
  BY DEF SumKept, MapThenSumSet, MapThenFoldSet
<1>2. c \in Nat /\ IsFiniteSet(Threads) /\ team \subseteq Threads
  BY Arguments, CopiesAreFinite
<1>3. \A S \in SUBSET Threads :
        /\ IsFiniteSet(S) /\ Cardinality(S) \in Nat
        /\ IsFiniteSet(S \intersect team) /\ Cardinality(S \intersect team) \in Nat
  BY <1>2, FS_Subset, FS_CardinalityType
<1>4. sum[{}] = 0
  <2>1. {} \intersect team = {} /\ Cardinality({}) = 0
    BY FS_EmptySet
  <2> QED BY <1>2, <2>1
<1>5. ASSUME NEW S \in SUBSET Threads, S # {}
      PROVE  /\ pick(S) \in S
             /\ Cardinality(S \ {pick(S)}) = Cardinality(S) - 1
             /\ sum[S] = given[pick(S)] + sum[S \ {pick(S)}]
  <2>1. pick(S) \in S
    BY <1>5
  <2> DEFINE x == pick(S)
             n == Cardinality(S \intersect team)
  <2> HIDE DEF pick
  <2>2. Cardinality(S \ {x}) = Cardinality(S) - 1
    BY <1>3, <2>1, FS_RemoveElement
  <2>3. CASE x \in team
    <3>1. (S \ {x}) \intersect team = (S \intersect team) \ {x} /\ x \in S \intersect team
      BY <2>1, <2>3
    <3>2. Cardinality((S \ {x}) \intersect team) = n - 1 /\ n \in Nat
      <4>1. IsFiniteSet(S \intersect team) /\ n \in Nat
        BY <1>3
      <4>2. Cardinality((S \intersect team) \ {x}) = n - 1
        BY <3>1, <4>1, FS_RemoveElement
      <4> QED BY <3>1, <4>1, <4>2
    <3>3. given[x] = c /\ sum[S] = n * c /\ sum[S \ {x}] = (n - 1) * c
      BY <2>3, <3>2
    <3>4. n * c = c + (n - 1) * c
      BY <1>2, <3>2
    <3> QED BY <2>1, <2>2, <3>3, <3>4
  <2>4. CASE x \notin team
    <3>1. (S \ {x}) \intersect team = S \intersect team
      BY <2>4
    <3>2. given[x] = 0 /\ sum[S] = n * c /\ sum[S \ {x}] = n * c
      BY <2>1, <2>4, <3>1
    <3>3. n * c \in Nat
      <4>1. n \in Nat
        BY <1>3
      <4> HIDE DEF n, c
      <4> QED BY <1>2, <4>1
    <3> QED BY <2>1, <2>2, <3>2, <3>3
  <2> QED BY <2>3, <2>4
<1> HIDE DEF pick
<1>6. Eq(sum)
  <2>1. \A S \in SUBSET Threads :
          sum[S] = IF S = {} THEN 0 ELSE given[pick(S)] + sum[S \ {pick(S)}]
    BY <1>4, <1>5
  <2>2. sum = [S \in SUBSET Threads |-> sum[S]]
    OBVIOUS
  <2> HIDE DEF sum
  <2> QED BY <2>1, <2>2
<1> HIDE DEF sum
<1>7. Eq(iter)
  BY <1>6
<1> HIDE DEF iter
<1>8. \A S \in SUBSET Threads :
        iter[S] = IF S = {} THEN 0 ELSE given[pick(S)] + iter[S \ {pick(S)}]
  BY <1>7
<1> DEFINE bad == {S \in SUBSET Threads : iter[S] # sum[S]}
<1>9. CASE bad # {}
  <2>1. {Cardinality(S) : S \in bad} \in SUBSET Nat /\ {Cardinality(S) : S \in bad} # {}
    BY <1>3, <1>9
  <2>2. PICK n \in {Cardinality(S) : S \in bad} : \A m \in {Cardinality(S) : S \in bad} : n <= m
    BY <2>1, LeastNatural
  <2>3. PICK S \in bad : Cardinality(S) = n
    BY <2>2
  <2>4. S # {}
    BY <1>4, <1>8, <2>3
  <2>5. S \ {pick(S)} \in SUBSET Threads /\ Cardinality(S \ {pick(S)}) = n - 1 /\ n \in Nat
    BY <1>3, <1>5, <2>3, <2>4
  <2>6. S \ {pick(S)} \notin bad
    <3>1. ~(n <= n - 1)
      BY <2>5
    <3> QED BY <2>2, <2>5, <3>1
  <2> QED BY <1>5, <1>8, <2>3, <2>4, <2>5, <2>6
<1>10. CASE bad = {}
  <2>1. iter[Threads] = sum[Threads] /\ Threads \intersect team = team
    BY <1>2, <1>10
  <2> QED BY <1>1, <2>1 DEF sum
<1> QED BY <1>9, <1>10

-----------------------------------------------------------------------------
\* Draining, and the whole call.

\* The last heap is merged: what is left is the merged heap alone, at most k copies,
\* and so every copy that is missing counts on all of them.
LEMMA MergeEndsInv == ASSUME Inv, MergeEnds PROVE Inv'
<1>1. /\ pc = "merging" /\ pc' = "draining" /\ merging = MaxThreads
      /\ heaps[merging] = {} /\ tmp = <<>> /\ rows = <<>> /\ stats' = SumKept
      /\ UNCHANGED <<k, file, team, at, given, heaps, merging, tmp, global, rows>>
      /\ TypeOK /\ k \in Nat /\ k > 0
      /\ IsFiniteSet(global) /\ Cardinality(global) <= k /\ Cardinality(global) \in Nat
  BY Arguments, FS_CardinalityType DEF MergeEnds, Merged, Inv, Phases, Threading, TypeOK
<1>2. \A t \in Threads : heaps[t] = {}
  <2> SUFFICES ASSUME NEW t \in Threads PROVE heaps[t] = {}
    OBVIOUS
  <2>1. t = merging \/ t \in 1..(merging - 1)
    BY <1>1, Arguments DEF Threads
  <2> QED BY <1>1, <2>1 DEF Inv, Phases
<1>3. Held = global
  BY <1>1, <1>2, HeldMembers, EmptyRange
<1>4. global \subseteq AllCopies /\ \A x \in AllCopies \ global : Cardinality(AsGood(x, global)) >= k
  BY <1>1, <1>3 DEF Inv, HeapsHoldBest, AsGood
<1>5. IsFiniteSet(AllCopies) /\ Cardinality(AllCopies) \in Nat
  BY <1>1, CopiesAreFinite
<1>6. ASSUME NEW x \in AllCopies \ global
      PROVE  AsGood(x, global) = global /\ Cardinality(global) = k
  <2>1. AsGood(x, global) \subseteq global
    BY DEF AsGood
  <2>2. /\ IsFiniteSet(AsGood(x, global)) /\ Cardinality(AsGood(x, global)) \in Nat
        /\ Cardinality(AsGood(x, global)) <= Cardinality(global)
        /\ Cardinality(AsGood(x, global)) = Cardinality(global) => AsGood(x, global) = global
    BY <1>1, <2>1, FS_Subset, FS_CardinalityType
  <2> QED BY <1>1, <1>4, <2>2
<1>7. BestIn(global, AllCopies)
  BY <1>6 DEF BestIn, AsGood
<1>8. Cardinality(global) = AtMost(k, Cardinality(AllCopies))
  <2>1. CASE global = AllCopies
    BY <1>1, <2>1 DEF AtMost
  <2>2. CASE global # AllCopies
    <3>1. PICK x \in AllCopies : x \notin global
      BY <1>4, <2>2
    <3>2. /\ Cardinality(global) <= Cardinality(AllCopies)
          /\ Cardinality(global) # Cardinality(AllCopies)
      BY <1>4, <1>5, <2>2, FS_Subset
    <3> QED BY <1>1, <1>5, <1>6, <3>1, <3>2 DEF AtMost
  <2> QED BY <2>1, <2>2
<1>9. SumKept = Cardinality(team) * Len(file)
  BY <1>1, SumIsTeamTimesFile DEF Inv, Threading
<1>10. Len(rows) = 0 /\ Range(rows) = {} /\ 1..Len(rows) = {} /\ Drained = global
  BY <1>1, EmptyRange DEF Drained
<1>11. DrainInv'
  <2>1. Drained' = Drained /\ AllCopies' = AllCopies
    BY <1>1 DEF Drained, AllCopies
  <2> QED BY <1>1, <1>4, <1>7, <1>8, <1>9, <1>10, <2>1 DEF DrainInv, BestIn
<1>12. TypeOK' /\ Counted'
  <2>1. stats' \in Nat
    <3>1. Cardinality(team) \in Nat /\ Len(file) \in Nat
      BY <1>1, Arguments, CopiesAreFinite, FS_CardinalityType
    <3> QED BY <1>1, <1>9, <3>1
  <2> QED BY <1>1, <2>1 DEF Inv, TypeOK, Counted, Mine
<1>13. Threading' /\ Phases'
  BY <1>1 DEF Inv, Threading, Phases
<1> QED
  BY <1>1, <1>11, <1>12, <1>13 DEF Inv, Apart, HeapsHoldBest, CopiesSelected

\* pop_value moves a worst copy from the merged heap to the end of the rows.
LEMMA DrainStepInv == ASSUME Inv, Drain PROVE Inv'
<1>1. PICK m \in Heap!Worst(global) : global' = global \ {m} /\ rows' = Append(rows, m)
  BY DEF Drain
<1>2. /\ pc = "draining" /\ UNCHANGED <<k, file, pc, team, at, given, heaps, merging, tmp, stats>>
      /\ rows \in Seq(Copies) /\ global \in SUBSET Copies /\ IsFiniteSet(global) /\ TypeOK
      /\ k \in Nat
  BY Arguments DEF Drain, Inv, TypeOK
<1>3. m \in global /\ m \in Copies /\ \A x \in global : ~BetterCopy(m, x)
  BY <1>1, <1>2 DEF Heap!Worst
<1>4. /\ rows' \in Seq(Copies) /\ Len(rows') = Len(rows) + 1 /\ Len(rows) \in Nat
      /\ \A i \in 1..Len(rows) : rows'[i] = rows[i]
      /\ rows'[Len(rows) + 1] = m /\ Range(rows') = Range(rows) \union {m}
  BY <1>1, <1>2, <1>3, AppendFacts, LenProperties
<1>5. /\ IsFiniteSet(global') /\ Cardinality(global') = Cardinality(global) - 1
      /\ Cardinality(global) \in Nat
  BY <1>1, <1>2, <1>3, FS_RemoveElement, FS_CardinalityType
<1>6. TypeOK' /\ Counted'
  <2>1. Cardinality(global') <= k
    BY <1>2, <1>5 DEF TypeOK
  <2>2. TypeOK'
    BY <1>1, <1>2, <1>4, <2>1 DEF TypeOK
  <2> QED BY <1>2, <2>2 DEF Inv, Counted, Mine
<1>7. \A i \in 1..Len(rows) : rows[i] \in Range(rows)
  BY <1>2, RangeFacts
<1>8. \A i \in 1..Len(rows') : i \in 1..Len(rows) \/ i = Len(rows) + 1
  BY <1>4
<1>9. DrainInv'
  <2>1. Drained' = Drained /\ AllCopies' = AllCopies
    BY <1>1, <1>2, <1>3, <1>4 DEF Drained, AllCopies
  <2>2. Len(rows') + Cardinality(global') = AtMost(k', Cardinality(AllCopies'))
    <3>1. Cardinality(AllCopies) \in Nat
      BY <1>2, CopiesAreFinite
    <3> QED BY <1>2, <1>4, <1>5, <2>1, <3>1 DEF Inv, DrainInv, AtMost
  <2>3. global' \intersect Range(rows') = {} /\ m \notin Range(rows)
    BY <1>1, <1>2, <1>3, <1>4 DEF Inv, DrainInv
  <2>4. ASSUME NEW i \in 1..Len(rows'), NEW j \in 1..Len(rows'), rows'[i] = rows'[j]
        PROVE  i = j
    BY <1>2, <1>4, <1>7, <1>8, <2>3, <2>4 DEF Inv, DrainInv
  <2>5. ASSUME NEW i \in 1..Len(rows'), NEW j \in 1..Len(rows'), i < j
        PROVE  ~BetterCopy(rows'[i], rows'[j])
    <3>1. i \in 1..Len(rows)
      BY <1>4, <2>5
    <3>2. CASE j \in 1..Len(rows)
      BY <1>2, <1>4, <2>5, <3>1, <3>2 DEF Inv, DrainInv
    <3>3. CASE j = Len(rows) + 1
      BY <1>2, <1>3, <1>4, <3>1, <3>3 DEF Inv, DrainInv
    <3> QED BY <1>8, <3>2, <3>3
  <2>6. ASSUME NEW i \in 1..Len(rows'), NEW x \in global' PROVE ~BetterCopy(rows'[i], x)
    BY <1>1, <1>2, <1>3, <1>4, <1>8, <2>6 DEF Inv, DrainInv
  <2>7. Drained' \subseteq AllCopies' /\ BestIn(Drained', AllCopies')
    BY <1>2, <2>1 DEF Inv, DrainInv, BestIn
  <2>8. stats' = Cardinality(team') * Len(file')
    BY <1>2 DEF Inv, DrainInv
  <2> QED BY <2>2, <2>3, <2>4, <2>5, <2>6, <2>7, <2>8 DEF DrainInv
<1>10. Threading' /\ Phases'
  BY <1>2 DEF Inv, Threading, Phases
<1> QED BY <1>2, <1>5, <1>6, <1>9, <1>10 DEF Inv, Apart, HeapsHoldBest, CopiesSelected

\* Selection's names of library operators mean the same there.
LEMMA AnsweredNames ==
  /\ \A S : Answered!Cardinality(S) = Cardinality(S)
  /\ \A s : Answered!Range(s) = Range(s) /\ (Answered!IsInjective(s) <=> IsInjective(s))
<1>1. \A S : Answered!Cardinality(S) = Cardinality(S)
  BY DEF Answered!Cardinality, Cardinality
<1>2. \A s : Answered!Range(s) = Range(s) /\ (Answered!IsInjective(s) <=> IsInjective(s))
  BY DEF Answered!Range, Range, Answered!IsInjective, IsInjective
<1> QED BY <1>1, <1>2

\* What the reversal returns is a best selection of the copies of all threads.
LEMMA FinishAnswers == ASSUME Inv, Finish PROVE Answered!IsBestOf(rows', AllCopies)
<1>1. /\ pc = "draining" /\ global = {} /\ rows' = Reverse(rows)
      /\ rows \in Seq(Copies) /\ Len(rows) \in Nat /\ TypeOK /\ k \in Nat
  BY Arguments, LenProperties DEF Finish, Inv, TypeOK
<1>2. /\ rows' \in Seq(Copies) /\ Len(rows') = Len(rows) /\ Range(rows') = Range(rows)
      /\ \A i \in 1..Len(rows) : /\ rows'[i] = rows[Len(rows) - i + 1]
                                 /\ Len(rows) - i + 1 \in 1..Len(rows)
  BY <1>1, ReverseFacts
<1>3. Drained = Range(rows) /\ Cardinality(global) = 0
  BY <1>1, FS_EmptySet DEF Drained
<1>4. Len(rows') = Answered!Fewer(k, Cardinality(AllCopies))
  <2>1. Cardinality(AllCopies) \in Nat
    BY <1>1, CopiesAreFinite
  <2> QED BY <1>1, <1>2, <1>3, <2>1 DEF Inv, DrainInv, Answered!Fewer, AtMost
<1>5. ASSUME NEW i \in 1..Len(rows'), NEW j \in 1..Len(rows'), rows'[i] = rows'[j]
      PROVE  i = j
  <2>1. /\ i \in 1..Len(rows) /\ j \in 1..Len(rows)
        /\ rows[Len(rows) - i + 1] = rows[Len(rows) - j + 1]
    BY <1>2, <1>5
  <2>2. \A m, n \in 1..Len(rows) : rows[m] = rows[n] => m = n
    BY <1>1 DEF Inv, DrainInv
  <2>3. Len(rows) - i + 1 = Len(rows) - j + 1
    BY <1>2, <2>1, <2>2
  <2> QED BY <1>1, <1>2, <2>3
<1>6. ASSUME NEW i \in 1..Len(rows'), NEW j \in 1..Len(rows'), i < j
      PROVE  ~BetterCopy(rows'[j], rows'[i])
  <2>1. Len(rows) - j + 1 < Len(rows) - i + 1
    BY <1>1, <1>2, <1>6
  <2> QED BY <1>1, <1>2, <2>1 DEF Inv, DrainInv
<1>7. ASSUME NEW x \in AllCopies \ Range(rows'), NEW i \in 1..Len(rows')
      PROVE  ~BetterCopy(x, rows'[i])
  <2>1. rows'[i] \in Range(rows')
    BY <1>2, RangeFacts
  <2> QED BY <1>1, <1>2, <1>3, <1>7, <2>1 DEF Inv, DrainInv, BestIn
<1>8. IsInjective(rows')
  BY <1>2, <1>5, LenProperties DEF IsInjective
<1>9. Range(rows') \subseteq AllCopies
  BY <1>1, <1>2, <1>3 DEF Inv, DrainInv
<1> QED BY <1>4, <1>6, <1>7, <1>8, <1>9, AnsweredNames DEF Answered!IsBestOf

LEMMA FinishInv == ASSUME Inv, Finish PROVE Inv'
<1>1. /\ pc = "draining" /\ pc' = "returned" /\ rows' = Reverse(rows)
      /\ UNCHANGED <<k, file, team, at, given, heaps, merging, tmp, global, stats>>
      /\ rows \in Seq(Copies) /\ k > 0 /\ stats = Cardinality(team) * Len(file)
  BY DEF Finish, Inv, TypeOK, Threading, DrainInv
<1>2. Answered!IsBestOf(rows', AllCopies) /\ rows' \in Seq(Copies)
  BY <1>1, FinishAnswers, ReverseFacts
<1>3. Answered!IsBestOf(rows, AllCopies)'
  BY <1>1, <1>2 DEF Answered!IsBestOf, Answered!Fewer, AllCopies
<1>4. CopiesSelected'
  BY <1>1, <1>3 DEF CopiesSelected
<1>5. TypeOK' /\ Counted'
  BY <1>1, <1>2 DEF Inv, TypeOK, Counted, Mine
<1> QED
  BY <1>1, <1>4, <1>5 DEF Inv, Threading, Phases, Apart, HeapsHoldBest, DrainInv

\* No step leaves the invariant.
LEMMA StepInv == Inv /\ [Next]_vars => Inv'
<1> SUFFICES ASSUME Inv, [Next]_vars PROVE Inv'
  OBVIOUS
<1>0. TypeOK /\ k \in Nat
  BY Arguments DEF Inv
<1>1. CASE ReturnNothing
  <2>1. TypeOK'
    BY <1>1 DEF ReturnNothing, Inv, TypeOK
  <2>2. Counted'
    BY <1>1 DEF ReturnNothing, Inv, Counted, Mine
  <2>3. CopiesSelected'
    BY <1>0, <1>1 DEF ReturnNothing, CopiesSelected
  <2> QED BY <1>1, <2>1, <2>2, <2>3
          DEF ReturnNothing, Inv, Threading, Phases, Apart, HeapsHoldBest, DrainInv
<1>2. CASE ReserveThrows
  <2>1. TypeOK' /\ Counted'
    BY <1>2 DEF ReserveThrows, Inv, TypeOK, Counted, Mine
  <2> QED BY <1>2, <2>1
          DEF ReserveThrows, Inv, Threading, Phases, Apart, HeapsHoldBest, DrainInv, CopiesSelected
<1>3. ASSUME NEW n \in Threads, Fork(n) PROVE Inv'
  <2>1. /\ pc = "start" /\ pc' = "parallel" /\ team = {} /\ k > 0
        /\ team' = 1..n
        /\ at' = [t \in Threads |-> IF t <= n THEN "opening" ELSE "outside"]
        /\ UNCHANGED <<k, file, given, heaps, merging, tmp, global, rows, stats>>
    BY <1>3 DEF Fork, Inv, Threading
  <2>2. TypeOK'
    <3>1. team' \subseteq Threads
      BY <1>0, <2>1, Arguments DEF Threads
    <3> QED BY <2>1, <3>1 DEF Inv, TypeOK
  <2>3. Counted'
    BY <2>1 DEF Inv, Counted, Mine
  <2>4. \A t \in Threads : given[t] = 0 /\ heaps[t] = {} /\ at'[t] # "ended"
    BY <2>1 DEF Inv, Threading, Phases
  <2>5. \A t \in Threads \ team' : at'[t] = "outside"
    BY <1>0, <2>1, Arguments DEF Threads
  <2>6. Threading' /\ Phases'
    BY <2>1, <2>4, <2>5 DEF Inv, Threading, Phases
  <2>7. HeapsHoldBest'
    <3>1. \A t \in Threads : Mine(t)' = {}
      BY <2>1, <2>4 DEF Mine
    <3>2. Cardinality({}) = 0 /\ Min({0, k}) = 0
      BY <1>0, FS_EmptySet, MinIsAtMost DEF AtMost
    <3> QED BY <2>1, <2>4, <3>1, <3>2 DEF HeapsHoldBest
  <2> QED BY <2>1, <2>2, <2>3, <2>6, <2>7 DEF Inv, Apart, DrainInv, CopiesSelected
<1>4. ASSUME NEW t \in Threads, ThreadOpens(t) \/ ThreadEnds(t) PROVE Inv'
  <2>1. /\ pc = "parallel"
        /\ UNCHANGED <<k, file, pc, team, given, heaps, merging, tmp, global, rows, stats>>
        /\ at \in [Threads -> {"outside", "opening", "reading", "ended"}]
        /\ at[t] # "outside" /\ t \in team
        /\ \E w \in {"reading", "ended"} : /\ at' = [at EXCEPT ![t] = w]
                                           /\ w = "ended" => given[t] = Len(file)
    BY <1>4 DEF ThreadOpens, ThreadEnds, InRegion, Inv, TypeOK, Threading
  <2>2. TypeOK' /\ Counted'
    <3>1. TypeOK'
      BY <2>1 DEF Inv, TypeOK
    <3>2. Counted'
      <4>1. \A s \in Threads : Mine(s)' = Mine(s)
        BY <2>1 DEF Mine
      <4> QED BY <2>1, <4>1 DEF Inv, Counted
    <3> QED BY <3>1, <3>2
  <2>3. Threading'
    BY <2>1 DEF Inv, Threading
  <2>4. HeapsHoldBest'
    BY <2>1 DEF Inv, HeapsHoldBest, Mine
  <2> QED BY <2>1, <2>2, <2>3, <2>4 DEF Inv, Phases, Apart, DrainInv, CopiesSelected
<1>5. ASSUME NEW t \in Threads, ThreadThrows(t) PROVE Inv'
  <2>1. TypeOK' /\ Counted'
    BY <1>5 DEF ThreadThrows, InRegion, Inv, TypeOK, Counted, Mine
  <2> QED BY <1>5, <2>1
          DEF ThreadThrows, InRegion, Inv, Threading, Phases, Apart, HeapsHoldBest, DrainInv,
              CopiesSelected
<1>6. CASE UNCHANGED vars
  <2>1. TypeOK'
    BY <1>6 DEF vars, Inv, TypeOK
  <2>3. Counted'
    <3>1. \A t \in Threads : Mine(t)' = Mine(t)
      BY <1>6 DEF vars, Mine
    <3> QED BY <1>6, <3>1 DEF vars, Inv, Counted
  <2>2. HeapsHoldBest'
    BY <1>6 DEF vars, Inv, HeapsHoldBest, Mine, AllCopies, Held, BestIn
  <2>4. DrainInv' /\ CopiesSelected'
    BY <1>6 DEF vars, Inv, AllCopies, DrainInv, Drained, BestIn, CopiesSelected,
                Answered!IsBestOf, Answered!Fewer
  <2> QED BY <1>6, <2>1, <2>2, <2>3, <2>4 DEF vars, Inv, Threading, Phases, Apart
<1>7. CASE Done
  BY <1>6, <1>7 DEF Done
<1> QED
  BY <1>1, <1>2, <1>3, <1>4, <1>5, <1>6, <1>7, VisitInv, JoinInv, MergeFromInv, MergePopInv,
     MergeOfferInv, MergeEndsInv, DrainStepInv, FinishInv
  DEF Next, MainStep, ThreadStep

\* The invariant holds in every state of every call.
LEMMA InvCorrect == Spec => []Inv
BY InitInv, StepInv, PTL DEF Spec

\* No heap outgrows k, whatever the threads do, and all values have their types.
THEOREM TypeCorrect == Spec => []TypeOK
BY InvCorrect, PTL DEF Inv

\* In every interleaving each thread's heap holds the best of what the thread was given,
\* and the merge (TopK.h:52-71) loses a copy only for k that are as good.
THEOREM HeapsHoldBestCorrect == Spec => []HeapsHoldBest
BY InvCorrect, PTL DEF Inv

\* For every number of threads the call returns the best k of the copies of all threads,
\* and the caller's counter is the file's times the size of the team.
THEOREM CopiesSelectedCorrect == Spec => []CopiesSelected
BY InvCorrect, PTL DEF Inv
=============================================================================
