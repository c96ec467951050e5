----------------------------- MODULE TopKProofs -----------------------------
(***************************************************************************)
(* Proofs about TopK for every file, every k and every order of movies     *)
(* without a NaN: the heap holds the best movies while the file is read,   *)
(* and what is returned is a best selection, best first.                   *)
(***************************************************************************)
EXTENDS TopK, FiniteSetTheorems, SequenceTheorems, TLAPS

\* No two movies are better than each other.
LEMMA Asymmetry ==
  ASSUME NEW x \in Rows, NEW y \in Rows, Better(x, y)
  PROVE  ~Better(y, x)
BY OrderAssumption

\* Not being better chains: ties are an equivalence.
LEMMA NegativeTransitivity ==
  ASSUME NEW x \in Rows, NEW y \in Rows, NEW z \in Rows, ~Better(x, y), ~Better(y, z)
  PROVE  ~Better(x, z)
BY OrderAssumption

\* A sequence's range, index by index; it is finite.
LEMMA RangeFacts ==
  ASSUME NEW s \in Seq(Rows)
  PROVE  /\ Range(s) \subseteq Rows
         /\ \A x : x \in Range(s) <=> \E i \in 1..Len(s) : s[i] = x
         /\ IsFiniteSet(Range(s))
<1>1. Range(s) \subseteq Rows /\ \A x : x \in Range(s) <=> \E i \in 1..Len(s) : s[i] = x
  BY DEF Range
<1>2. s \in Surjection(1..Len(s), Range(s))
  BY <1>1, LenProperties DEF Surjection
<1>3. IsFiniteSet(1..Len(s))
  BY LenProperties, FS_Interval
<1>4. IsFiniteSet(Range(s))
  BY <1>2, <1>3, FS_Surjection
<1> QED BY <1>1, <1>4

\* Append adds one movie to the range.
LEMMA AppendFacts ==
  ASSUME NEW s \in Seq(Rows), NEW m \in Rows
  PROVE  /\ Append(s, m) \in Seq(Rows) /\ Len(Append(s, m)) = Len(s) + 1
         /\ \A i \in 1..Len(s) : Append(s, m)[i] = s[i]
         /\ Append(s, m)[Len(s) + 1] = m
         /\ Range(Append(s, m)) = Range(s) \union {m}
<1> DEFINE t == Append(s, m)
<1>1. /\ t \in Seq(Rows) /\ Len(t) = Len(s) + 1 /\ Len(s) \in Nat
      /\ \A i \in 1..Len(s) : t[i] = s[i]
      /\ t[Len(s) + 1] = m
  OBVIOUS
<1> HIDE DEF t
<1>2. ASSUME NEW x \in Range(t) PROVE x \in Range(s) \union {m}
  <2>1. PICK i \in 1..Len(t) : t[i] = x
    BY <1>1, RangeFacts
  <2>2. CASE i = Len(s) + 1
    BY <1>1, <2>1, <2>2
  <2>3. CASE i # Len(s) + 1
    <3>1. i \in 1..Len(s) /\ s[i] = x
      BY <1>1, <2>1, <2>3
    <3> QED BY <3>1, RangeFacts
  <2> QED BY <2>2, <2>3
<1>3. ASSUME NEW x \in Range(s) PROVE x \in Range(t)
  <2>1. PICK i \in 1..Len(s) : s[i] = x
    BY RangeFacts
  <2>2. i \in 1..Len(t) /\ t[i] = x
    BY <1>1, <2>1
  <2> QED BY <1>1, <2>2, RangeFacts
<1>4. m \in Range(t)
  <2>1. Len(s) + 1 \in 1..Len(t)
    BY <1>1
  <2> QED BY <1>1, <2>1, RangeFacts
<1>5. Range(t) = Range(s) \union {m}
  BY <1>2, <1>3, <1>4
<1> QED BY <1>1, <1>5 DEF t

\* The head of a sequence without repetition is not in its tail, and they are all of it.
LEMMA TailFacts ==
  ASSUME NEW s \in Seq(Rows), s # <<>>, IsInjective(s)
  PROVE  /\ Head(s) \in Rows /\ Tail(s) \in Seq(Rows) /\ IsInjective(Tail(s))
         /\ Range(s) = {Head(s)} \union Range(Tail(s))
         /\ Head(s) \notin Range(Tail(s))
<1> DEFINE t == Tail(s)
<1>1. /\ Head(s) = s[1] /\ s[1] \in Rows /\ Len(s) \in Nat \ {0}
      /\ t \in Seq(Rows) /\ Len(t) = Len(s) - 1
      /\ \A i \in 1..Len(t) : t[i] = s[i + 1]
  OBVIOUS
<1>2. \A i, j \in 1..Len(s) : s[i] = s[j] => i = j
  BY DEF IsInjective
<1>3. \A i \in 1..Len(t) : i + 1 \in 1..Len(s) /\ i \in Int
  BY <1>1
<1> HIDE DEF t
<1>4. \A i, j \in 1..Len(t) : t[i] = t[j] => i = j
  <2> SUFFICES ASSUME NEW i \in 1..Len(t), NEW j \in 1..Len(t), t[i] = t[j] PROVE i = j
    OBVIOUS
  <2>1. s[i + 1] = s[j + 1]
    BY <1>1
  <2>2. i + 1 = j + 1
    BY <1>2, <1>3, <2>1
  <2> QED BY <1>3, <2>2
<1>5. IsInjective(t)
  BY <1>1, <1>4 DEF IsInjective
<1>6. ASSUME NEW x \in Range(t) PROVE x \in Range(s) /\ x # s[1]
  <2>1. PICK i \in 1..Len(t) : t[i] = x
    BY <1>1, RangeFacts
  <2>2. s[i + 1] = x /\ i + 1 \in 1..Len(s) /\ 1 \in 1..Len(s) /\ i + 1 # 1
    BY <1>1, <1>3, <2>1
  <2> QED BY <1>2, <2>2, RangeFacts
<1>7. ASSUME NEW x \in Range(s), x # s[1] PROVE x \in Range(t)
  <2>1. PICK i \in 1..Len(s) : s[i] = x
    BY RangeFacts
  <2>2. i - 1 \in 1..Len(t) /\ (i - 1) + 1 = i
    BY <1>1, <1>7, <2>1
  <2>3. t[i - 1] = x
    BY <1>1, <2>1, <2>2
  <2> QED BY <1>1, <2>2, <2>3, RangeFacts
<1>8. s[1] \in Range(s)
  BY <1>1, RangeFacts
<1> QED BY <1>1, <1>5, <1>6, <1>7, <1>8 DEF t

\* No member of S outside H is better than a member of H.
BestIn(H, S) == \A lost \in S \ H, kept \in H : ~Better(lost, kept)

AtMost(n, c) == IF c <= n THEN c ELSE n

\* The visitor's body: a heap that holds the best n of S and is offered a new movie
\* holds the best n of both, whichever of several worst movies was its top.
LEMMA OfferKeepsBest ==
  ASSUME NEW n \in Nat, NEW S \in SUBSET Rows, IsFiniteSet(S), NEW H \in SUBSET S,
         Cardinality(H) = AtMost(n, Cardinality(S)), BestIn(H, S),
         NEW m \in Rows \ S, NEW G \in Offered(n, H, m)
  PROVE  /\ G \in SUBSET (S \union {m}) /\ IsFiniteSet(G)
         /\ Cardinality(G) = AtMost(n, Cardinality(S \union {m}))
         /\ BestIn(G, S \union {m})
<1>1. /\ IsFiniteSet(H) /\ Cardinality(H) \in Nat /\ Cardinality(S) \in Nat
      /\ Cardinality(H) = Cardinality(S) => H = S
  BY FS_Subset, FS_CardinalityType
<1>2. Cardinality(S \union {m}) = Cardinality(S) + 1
  BY FS_AddElement
<1>3. m \notin H
  OBVIOUS
<1>4. CASE Cardinality(H) < n
  <2>1. G = H \union {m}
    BY <1>4 DEF Offered
  <2>2. Cardinality(H) = Cardinality(S)
    BY <1>1, <1>4 DEF AtMost
  <2>3. Cardinality(G) = Cardinality(H) + 1 /\ IsFiniteSet(G)
    BY <1>1, <1>3, <2>1, FS_AddElement
  <2> QED BY <1>1, <1>2, <1>4, <2>1, <2>2, <2>3 DEF AtMost, BestIn
<1>5. CASE ~(Cardinality(H) < n)
  <2>1. PICK t \in Worst(H) : G = IF Better(m, t) THEN (H \ {t}) \union {m} ELSE H
    BY <1>5 DEF Offered
  <2>2. t \in H /\ t \in Rows /\ \A x \in H : ~Better(t, x)
    BY <2>1 DEF Worst
  <2>3. Cardinality(H) = n /\ AtMost(n, Cardinality(S \union {m})) = n
    BY <1>1, <1>2, <1>5 DEF AtMost
  <2>4. CASE Better(m, t)
    <3>1. G = (H \ {t}) \union {m}
      BY <2>1, <2>4
    <3>2. IsFiniteSet(H \ {t}) /\ Cardinality(H \ {t}) = n - 1
      BY <1>1, <2>2, <2>3, FS_RemoveElement
    <3>3. IsFiniteSet(G) /\ Cardinality(G) = n
      <4>1. m \notin H \ {t}
        BY <1>3
      <4>2. /\ IsFiniteSet((H \ {t}) \union {m})
            /\ Cardinality((H \ {t}) \union {m}) = Cardinality(H \ {t}) + 1
        BY <3>2, <4>1, FS_AddElement
      <4> QED BY <3>1, <3>2, <4>2
    <3>4. ASSUME NEW lost \in (S \union {m}) \ G, NEW kept \in G PROVE ~Better(lost, kept)
      <4>1. lost \in S /\ (lost = t \/ lost \notin H)
        BY <3>1, <3>4
      <4>2. ~Better(t, kept)
        BY <2>2, <2>4, <3>1, Asymmetry
      <4>3. CASE lost = t
        BY <4>2, <4>3
      <4>4. CASE lost \notin H
        <5>1. ~Better(lost, t)
          BY <2>2, <4>1, <4>4 DEF BestIn
        <5> QED BY <2>2, <3>1, <4>1, <4>2, <5>1, NegativeTransitivity
      <4> QED BY <4>1, <4>3, <4>4
    <3> QED BY <2>3, <3>1, <3>3, <3>4 DEF BestIn
  <2>5. CASE ~Better(m, t)
    <3>1. G = H
      BY <2>1, <2>5
    <3>2. \A kept \in H : ~Better(m, kept)
      BY <2>2, <2>5, NegativeTransitivity
    <3> QED BY <1>1, <2>3, <3>1, <3>2 DEF BestIn
  <2> QED BY <2>4, <2>5
<1> QED BY <1>4, <1>5

-----------------------------------------------------------------------------
\* The inductive invariant.

\* Every movie is ahead or given, and comes once.
Counted ==
  /\ IsInjective(todo)
  /\ Range(given) \intersect Range(todo) = {}
  /\ Cardinality(Range(given)) = Len(given)

\* What the phases leave untouched.
Phases ==
  /\ pc = "start" => given = <<>> /\ heap = {}
  /\ pc \in {"start", "streaming"} => status = "open" /\ rows = <<>>
  /\ pc = "draining" => todo = <<>>

\* The movies that the call still holds while it drains the heap.
Held == heap \union Range(rows)

\* While the heap is drained, heap and rows together hold the best k of the file;
\* what has been popped is worst first, and nothing still in the heap is worse.
DrainInv ==
  pc = "draining" =>
    /\ Held \subseteq Range(given) /\ BestIn(Held, Range(given))
    /\ Len(rows) + Cardinality(heap) = AtMost(k, Len(given))
    /\ heap \intersect Range(rows) = {}
    /\ \A i, j \in 1..Len(rows) : rows[i] = rows[j] => i = j
    /\ \A i, j \in 1..Len(rows) : i < j => ~Better(rows[i], rows[j])
    /\ \A i \in 1..Len(rows), x \in heap : ~Better(rows[i], x)

Inv ==
  /\ TypeOK /\ IsFiniteSet(heap)
  /\ Counted /\ Phases /\ HoldsBest /\ DrainInv

\* A call starts with nothing.
LEMMA InitInv == Init => Inv
<1> SUFFICES ASSUME Init PROVE Inv
  OBVIOUS
<1>1. todo \in Seq(Rows) /\ IsInjective(todo) /\ k \in Nat
  BY FileAssumption, BoundAssumption DEF Init
<1>2. IsFiniteSet(heap) /\ Cardinality(heap) = 0
  BY FS_EmptySet DEF Init
<1>3. given \in Seq(Rows) /\ Len(given) = 0
  BY EmptySeq DEF Init
<1>4. Range(given) = {} /\ Cardinality(Range(given)) = 0
  <2>1. \A x : x \notin Range(given)
    <3>1. 1..Len(given) = {}
      BY <1>3
    <3>2. \A x : x \in Range(given) <=> \E i \in 1..Len(given) : given[i] = x
      BY <1>3, RangeFacts
    <3> HIDE <1>3
    <3> QED BY <3>1, <3>2
  <2> QED BY <2>1, FS_EmptySet
<1> QED
  BY <1>1, <1>2, <1>3, <1>4
  DEF Init, Inv, TypeOK, Counted, Phases, HoldsBest, DrainInv

\* The visitor moves one movie from ahead to given, and offers it to the heap.
LEMMA VisitInv == Inv /\ Visit => Inv'
<1> SUFFICES ASSUME Inv, Visit PROVE Inv'
  OBVIOUS
<1> DEFINE m == Head(todo)
<1>1. /\ todo \in Seq(Rows) /\ given \in Seq(Rows) /\ todo # <<>> /\ k \in Nat
      /\ given' = Append(given, m) /\ todo' = Tail(todo) /\ status' = "open"
      /\ heap' \in Offered(k, heap, m)
      /\ pc = "streaming" /\ UNCHANGED <<k, rows, stats, pc>>
  BY BoundAssumption DEF Visit, Stream!Deliver, Inv, TypeOK
<1>2. /\ m \in Rows /\ todo' \in Seq(Rows) /\ IsInjective(todo')
      /\ Range(todo) = {m} \union Range(todo') /\ m \notin Range(todo')
  BY <1>1, TailFacts DEF Inv, Counted
<1>3. /\ given' \in Seq(Rows) /\ Len(given') = Len(given) + 1
      /\ Range(given') = Range(given) \union {m}
  BY <1>1, <1>2, AppendFacts
<1>4. m \notin Range(given)
  BY <1>2 DEF Inv, Counted
<1>5. Range(given) \in SUBSET Rows /\ IsFiniteSet(Range(given))
  BY <1>1, RangeFacts
<1>6. Cardinality(Range(given')) = Len(given')
  BY <1>3, <1>4, <1>5, FS_AddElement DEF Inv, Counted
<1>7. Counted'
  BY <1>2, <1>3, <1>4, <1>6 DEF Inv, Counted
<1>8. /\ heap \in SUBSET Range(given)
      /\ Cardinality(heap) = AtMost(k, Cardinality(Range(given)))
      /\ BestIn(heap, Range(given))
  BY <1>1 DEF Inv, HoldsBest, Counted, AtMost, BestIn
<1> HIDE DEF m
<1>9. /\ heap' \in SUBSET Range(given') /\ IsFiniteSet(heap')
      /\ Cardinality(heap') = AtMost(k, Len(given'))
      /\ BestIn(heap', Range(given'))
  <2> DEFINE S == Range(given)
  <2>1. m \in Rows \ S
    BY <1>2, <1>4
  <2> HIDE DEF S
  <2>2. /\ heap' \in SUBSET (S \union {m}) /\ IsFiniteSet(heap')
        /\ Cardinality(heap') = AtMost(k, Cardinality(S \union {m}))
        /\ BestIn(heap', S \union {m})
    <3>1. S \in SUBSET Rows /\ IsFiniteSet(S)
      BY <1>5 DEF S
    <3>2. heap \in SUBSET S /\ Cardinality(heap) = AtMost(k, Cardinality(S)) /\ BestIn(heap, S)
      BY <1>8 DEF S
    <3>3. k \in Nat /\ heap' \in Offered(k, heap, m)
      BY <1>1 DEF m
    <3> QED BY <2>1, <3>1, <3>2, <3>3, OfferKeepsBest
  <2> QED BY <1>3, <1>6, <2>2 DEF S
<1>10. HoldsBest'
  BY <1>1, <1>9 DEF HoldsBest, AtMost, BestIn
<1>11. TypeOK'
  <2>1. Len(given') \in Nat
    BY <1>3, LenProperties
  <2>2. Cardinality(heap') <= k
    BY <1>1, <1>9, <2>1 DEF AtMost
  <2>3. heap' \in SUBSET Rows
    BY <1>2, <1>3, <1>5, <1>9
  <2> QED BY <1>1, <1>2, <1>3, <2>2, <2>3 DEF Inv, TypeOK
<1>12. Phases' /\ DrainInv'
  BY <1>1 DEF Inv, Phases, DrainInv
<1> QED BY <1>7, <1>9, <1>10, <1>11, <1>12 DEF Inv

\* pop_value moves a worst movie from the heap to the end of the rows.
LEMMA DrainStepInv == Inv /\ Drain => Inv'
<1> SUFFICES ASSUME Inv, Drain PROVE Inv'
  OBVIOUS
<1>1. PICK m \in Worst(heap) : heap' = heap \ {m} /\ rows' = Append(rows, m)
  BY DEF Drain
<1>2. /\ pc = "draining" /\ UNCHANGED <<k, todo, given, status, stats, pc>>
      /\ rows \in Seq(Rows) /\ heap \in SUBSET Rows /\ IsFiniteSet(heap)
  BY DEF Drain, Inv, TypeOK
<1>3. m \in heap /\ m \in Rows /\ \A x \in heap : ~Better(m, x)
  BY <1>1, <1>2 DEF Worst
<1>4. /\ rows' \in Seq(Rows) /\ Len(rows') = Len(rows) + 1 /\ Len(rows) \in Nat
      /\ \A i \in 1..Len(rows) : rows'[i] = rows[i]
      /\ rows'[Len(rows) + 1] = m
      /\ Range(rows') = Range(rows) \union {m}
  BY <1>1, <1>2, <1>3, AppendFacts, LenProperties
<1>5. IsFiniteSet(heap') /\ Cardinality(heap') = Cardinality(heap) - 1 /\ Cardinality(heap) \in Nat
  BY <1>1, <1>2, <1>3, FS_RemoveElement, FS_CardinalityType
<1>6. TypeOK'
  BY <1>1, <1>2, <1>4, <1>5, BoundAssumption DEF Inv, TypeOK
<1>7. Held' = Held
  BY <1>1, <1>3, <1>4 DEF Held
<1>8. \A i \in 1..Len(rows) : rows[i] \in Range(rows)
  BY <1>2, RangeFacts
<1>9. \A i \in 1..Len(rows') : i \in 1..Len(rows) \/ i = Len(rows) + 1
  BY <1>4
<1>10. DrainInv'
  <2>1. /\ Held' \subseteq Range(given') /\ BestIn(Held', Range(given'))
    BY <1>2, <1>7 DEF Inv, DrainInv, BestIn
  <2>2. Len(rows') + Cardinality(heap') = AtMost(k', Len(given'))
    BY <1>2, <1>4, <1>5 DEF Inv, DrainInv, AtMost
  <2>3. heap' \intersect Range(rows') = {}
    BY <1>1, <1>2, <1>4 DEF Inv, DrainInv
  <2>4. m \notin Range(rows)
    BY <1>2, <1>3 DEF Inv, DrainInv
  <2>5. ASSUME NEW i \in 1..Len(rows'), NEW j \in 1..Len(rows'), rows'[i] = rows'[j]
        PROVE  i = j
    BY <1>2, <1>4, <1>8, <1>9, <2>4, <2>5 DEF Inv, DrainInv
  <2>6. ASSUME NEW i \in 1..Len(rows'), NEW j \in 1..Len(rows'), i < j
        PROVE  ~Better(rows'[i], rows'[j])
    <3>1. i \in 1..Len(rows)
      BY <1>4, <2>6
    <3>2. CASE j \in 1..Len(rows)
      BY <1>2, <1>4, <2>6, <3>1, <3>2 DEF Inv, DrainInv
    <3>3. CASE j = Len(rows) + 1
      BY <1>2, <1>3, <1>4, <3>1, <3>3 DEF Inv, DrainInv
    <3> QED BY <1>9, <3>2, <3>3
  <2>7. ASSUME NEW i \in 1..Len(rows'), NEW x \in heap' PROVE ~Better(rows'[i], x)
    BY <1>1, <1>2, <1>3, <1>4, <1>9, <2>7 DEF Inv, DrainInv
  <2> QED BY <2>1, <2>2, <2>3, <2>5, <2>6, <2>7 DEF DrainInv
<1>11. Counted' /\ Phases' /\ HoldsBest'
  BY <1>2 DEF Inv, Counted, Phases, HoldsBest
<1> QED BY <1>5, <1>6, <1>10, <1>11 DEF Inv

\* The stream has ended: all movies were given, none of them popped.
LEMMA EndStreamInv == Inv /\ EndStream => Inv'
<1> SUFFICES ASSUME Inv, EndStream PROVE Inv'
  OBVIOUS
<1>1. /\ pc = "streaming" /\ pc' = "draining" /\ todo = <<>> /\ status' = "ended"
      /\ stats' = Len(given) /\ UNCHANGED <<k, todo, given, heap, rows>>
      /\ rows = <<>> /\ Len(given) \in Nat /\ Len(rows) = 0
  BY DEF EndStream, Stream!End, Inv, Phases, TypeOK
<1>2. Range(rows) = {}
  <2>1. 1..Len(rows) = {} /\ rows \in Seq(Rows)
    BY <1>1 DEF Inv, TypeOK
  <2>2. \A x : x \in Range(rows) <=> \E i \in 1..Len(rows) : rows[i] = x
    BY <2>1, RangeFacts
  <2> QED BY <2>1, <2>2
<1>3. Held = heap
  BY <1>2 DEF Held
<1>4. heap \subseteq Range(given) /\ BestIn(heap, Range(given)) /\ Cardinality(heap) = AtMost(k, Len(given))
  BY <1>1 DEF Inv, HoldsBest, BestIn, AtMost
<1>5. Held' = Held /\ Range(rows') = {} /\ Len(rows') = 0 /\ Range(given') = Range(given)
      /\ heap' = heap /\ 1..Len(rows') = {} /\ k' = k /\ Len(given') = Len(given)
  BY <1>1, <1>2 DEF Held
<1>6. Cardinality(heap) \in Nat
  BY FS_CardinalityType DEF Inv
<1>7. Held' \subseteq Range(given') /\ BestIn(Held', Range(given'))
  BY <1>3, <1>4, <1>5 DEF BestIn
<1>8. Len(rows') + Cardinality(heap') = AtMost(k', Len(given'))
  BY <1>4, <1>5, <1>6 DEF AtMost
<1>9. DrainInv'
  BY <1>5, <1>7, <1>8 DEF DrainInv
<1> QED
  BY <1>1, <1>9 DEF Inv, TypeOK, Counted, Phases, HoldsBest

\* Reversing keeps what a sequence holds.
LEMMA ReverseFacts ==
  ASSUME NEW s \in Seq(Rows)
  PROVE  /\ Reverse(s) \in Seq(Rows) /\ Len(Reverse(s)) = Len(s)
         /\ \A i \in 1..Len(s) : Reverse(s)[i] = s[Len(s) - i + 1] /\ Len(s) - i + 1 \in 1..Len(s)
         /\ Range(Reverse(s)) = Range(s)
<1> DEFINE t == Reverse(s)
<1>1. \A i \in 1..Len(s) : Len(s) - i + 1 \in 1..Len(s) /\ i = Len(s) - (Len(s) - i + 1) + 1
  BY LenProperties
<1>2. t \in Seq(Rows) /\ Len(t) = Len(s) /\ \A i \in 1..Len(s) : t[i] = s[Len(s) - i + 1]
  BY <1>1 DEF Reverse
<1> HIDE DEF t
<1>3. \A i \in 1..Len(s) : s[i] = t[Len(s) - i + 1]
  BY <1>1, <1>2
<1>4. \A x : x \in Range(t) <=> x \in Range(s)
  <2>1. ASSUME NEW i \in 1..Len(s) PROVE t[i] \in Range(s) /\ s[i] \in Range(t)
    <3>1. Len(s) - i + 1 \in 1..Len(s) /\ Len(s) - i + 1 \in 1..Len(t)
      BY <1>1, <1>2
    <3> QED BY <1>2, <1>3, <3>1, RangeFacts
  <2> QED BY <1>2, <2>1, RangeFacts
<1> QED BY <1>1, <1>2, <1>4 DEF t

\* No step leaves the invariant.
LEMMA StepInv == Inv /\ [Next]_vars => Inv'
<1> SUFFICES ASSUME Inv, [Next]_vars PROVE Inv'
  OBVIOUS
<1>1. CASE ReturnNothing
  BY <1>1 DEF ReturnNothing, Inv, TypeOK, Counted, Phases, HoldsBest, DrainInv
<1>2. CASE Start
  <2>1. /\ given = <<>> /\ heap = {} /\ k \in Nat /\ Len(given) = 0
    BY <1>2, BoundAssumption DEF Start, Inv, Phases, TypeOK
  <2>2. HoldsBest'
    BY <1>2, <2>1, FS_EmptySet DEF Start, HoldsBest
  <2> QED BY <1>2, <2>2 DEF Start, Inv, TypeOK, Counted, Phases, DrainInv
<1>3. CASE ReserveThrows
  BY <1>3 DEF ReserveThrows, Inv, TypeOK, Counted, Phases, HoldsBest, DrainInv
<1>4. CASE StreamThrows
  BY <1>4 DEF StreamThrows, Stream!Fail, Inv, TypeOK, Counted, Phases, HoldsBest, DrainInv
<1>5. CASE Finish
  <2>1. rows' \in Seq(Rows)
    BY <1>5, ReverseFacts DEF Finish, Inv, TypeOK
  <2> QED BY <1>5, <2>1 DEF Finish, Inv, TypeOK, Counted, Phases, HoldsBest, DrainInv
<1>6. CASE Done \/ UNCHANGED vars
  BY <1>6 DEF Done, vars, Inv, TypeOK, Counted, Phases, HoldsBest, DrainInv, Held
<1> QED
  BY <1>1, <1>2, <1>3, <1>4, <1>5, <1>6, VisitInv, DrainStepInv, EndStreamInv DEF Next

\* The invariant holds in every state of every call.
LEMMA InvCorrect == Spec => []Inv
BY InitInv, StepInv, PTL DEF Spec

\* The heap never holds more than k movies, and all values have their types.
THEOREM TypeCorrect == Spec => []TypeOK
BY InvCorrect, PTL DEF Inv

\* While the file is read, the heap holds the best k of the movies given so far.
THEOREM HoldsBestCorrect == Spec => []HoldsBest
BY InvCorrect, PTL DEF Inv

-----------------------------------------------------------------------------
\* TopK implements Selection.

\* Selection's names of library operators mean the same there.
LEMMA AskedNames ==
  /\ \A S : Asked!Cardinality(S) = Cardinality(S)
  /\ \A s : Asked!Range(s) = Range(s) /\ (Asked!IsInjective(s) <=> IsInjective(s))
<1>1. \A S : Asked!Cardinality(S) = Cardinality(S)
  BY DEF Asked!Cardinality, Cardinality
<1>2. \A s : Asked!Range(s) = Range(s) /\ (Asked!IsInjective(s) <=> IsInjective(s))
  BY DEF Asked!Range, Range, Asked!IsInjective, IsInjective
<1> QED BY <1>1, <1>2

\* What Finish returns is a best selection of the file, best first.
LEMMA FinishAnswers == Inv /\ Finish => Asked!IsBestOf(rows', File)
<1> SUFFICES ASSUME Inv, Finish PROVE Asked!IsBestOf(rows', File)
  OBVIOUS
<1>1. /\ pc = "draining" /\ heap = {} /\ rows' = Reverse(rows) /\ todo = <<>>
      /\ rows \in Seq(Rows) /\ given \in Seq(Rows) /\ Len(rows) \in Nat /\ Len(given) \in Nat
  BY LenProperties DEF Finish, Inv, TypeOK, Phases
<1>2. /\ rows' \in Seq(Rows) /\ Len(rows') = Len(rows) /\ Range(rows') = Range(rows)
      /\ \A i \in 1..Len(rows) : /\ rows'[i] = rows[Len(rows) - i + 1]
                                 /\ Len(rows) - i + 1 \in 1..Len(rows)
  BY <1>1, ReverseFacts
<1>3. File = Range(given)
  <2>1. Range(todo) = {}
    <3>1. 1..Len(todo) = {} /\ todo \in Seq(Rows)
      BY <1>1 DEF Inv, TypeOK
    <3>2. \A x : x \in Range(todo) <=> \E i \in 1..Len(todo) : todo[i] = x
      BY <3>1, RangeFacts
    <3> QED BY <3>1, <3>2
  <2> QED BY <2>1 DEF File
<1>4. Held = Range(rows) /\ Cardinality(heap) = 0
  BY <1>1, FS_EmptySet DEF Held
<1>5. Len(rows') = Asked!Fewer(k, Cardinality(File))
  BY <1>1, <1>2, <1>3, <1>4, BoundAssumption
  DEF Inv, DrainInv, Counted, Asked!Fewer, AtMost, TypeOK
<1>6. ASSUME NEW i \in 1..Len(rows'), NEW j \in 1..Len(rows'), rows'[i] = rows'[j]
      PROVE  i = j
  <2>1. Len(rows) - i + 1 = Len(rows) - j + 1
    <3>1. /\ i \in 1..Len(rows) /\ j \in 1..Len(rows)
          /\ rows[Len(rows) - i + 1] = rows[Len(rows) - j + 1]
      BY <1>2, <1>6
    <3>2. \A m, n \in 1..Len(rows) : rows[m] = rows[n] => m = n
      BY <1>1 DEF Inv, DrainInv
    <3> QED BY <1>2, <3>1, <3>2
  <2> QED BY <1>1, <1>2, <2>1
<1>7. ASSUME NEW i \in 1..Len(rows'), NEW j \in 1..Len(rows'), i < j
      PROVE  ~Better(rows'[j], rows'[i])
  <2>1. Len(rows) - j + 1 < Len(rows) - i + 1
    BY <1>1, <1>2, <1>7
  <2> QED BY <1>1, <1>2, <2>1 DEF Inv, DrainInv
<1>8. ASSUME NEW x \in File \ Range(rows'), NEW i \in 1..Len(rows')
      PROVE  ~Better(x, rows'[i])
  <2>1. rows'[i] \in Range(rows')
    BY <1>2, RangeFacts
  <2> QED BY <1>1, <1>2, <1>3, <1>4, <1>8, <2>1 DEF Inv, DrainInv, BestIn
<1>9. IsInjective(rows')
  BY <1>2, <1>6, LenProperties DEF IsInjective
<1>10. Range(rows') \subseteq File
  BY <1>1, <1>2, <1>3, <1>4 DEF Inv, DrainInv
<1>11. \A i, j \in 1..Len(rows') : i < j => ~Better(rows'[j], rows'[i])
  BY <1>7
<1>12. \A x \in File \ Range(rows'), i \in 1..Len(rows') : ~Better(x, rows'[i])
  BY <1>8
<1> QED BY <1>5, <1>9, <1>10, <1>11, <1>12, AskedNames DEF Asked!IsBestOf

\* A call for no movies returns none, whatever the file holds.
LEMMA NothingAnswers == Inv /\ ReturnNothing => Asked!IsBestOf(rows', File)
<1> SUFFICES ASSUME Inv, ReturnNothing PROVE Asked!IsBestOf(rows', File)
  OBVIOUS
<1>1. k = 0 /\ rows' = <<>> /\ rows' \in Seq(Rows) /\ Len(rows') = 0 /\ 1..Len(rows') = {}
  BY EmptySeq DEF ReturnNothing, Inv, Phases
<1>2. Range(rows') = {}
  <2>1. \A x : x \in Range(rows') <=> \E i \in 1..Len(rows') : rows'[i] = x
    BY <1>1, RangeFacts
  <2> QED BY <1>1, <2>1
<1>3. Cardinality(File) \in Nat
  <2>1. File \subseteq Rows /\ Range(given) = {}
    <3>1. given = <<>> /\ todo \in Seq(Rows) /\ 1..Len(given) = {} /\ given \in Seq(Rows)
      BY EmptySeq DEF ReturnNothing, Inv, Phases, TypeOK
    <3>2. \A x : x \in Range(given) <=> \E i \in 1..Len(given) : given[i] = x
      BY <3>1, RangeFacts
    <3> QED BY <3>1, <3>2, RangeFacts DEF File
  <2>2. IsFiniteSet(File)
    BY <2>1, RangeFacts DEF File, Inv, TypeOK
  <2> QED BY <2>2, FS_CardinalityType
<1>4. Len(rows') = Asked!Fewer(k, Cardinality(File))
  BY <1>1, <1>3 DEF Asked!Fewer
<1>5. IsInjective(rows')
  BY <1>1, LenProperties DEF IsInjective
<1> QED BY <1>1, <1>2, <1>4, <1>5, AskedNames DEF Asked!IsBestOf

\* Giving a movie to the visitor keeps the movies of the file.
LEMMA VisitKeepsFile == Inv /\ Visit => File' = File
<1> SUFFICES ASSUME Inv, Visit PROVE File' = File
  OBVIOUS
<1> DEFINE m == Head(todo)
<1>1. /\ todo \in Seq(Rows) /\ given \in Seq(Rows) /\ todo # <<>> /\ IsInjective(todo)
      /\ given' = Append(given, m) /\ todo' = Tail(todo)
  BY DEF Visit, Stream!Deliver, Inv, TypeOK, Counted
<1>2. Range(todo) = {m} \union Range(todo') /\ m \in Rows
  BY <1>1, TailFacts
<1>3. Range(given') = Range(given) \union {m}
  BY <1>1, <1>2, AppendFacts
<1> QED BY <1>2, <1>3 DEF File

\* A call begins as a question about its file.
LEMMA RefineInit == Init => Asked!Init
<1> SUFFICES ASSUME Init PROVE Asked!Init
  OBVIOUS
<1>1. todo \in Seq(Rows) /\ given \in Seq(Rows)
  BY FileAssumption, EmptySeq DEF Init
<1>2. File \in SUBSET Rows
  BY <1>1, RangeFacts DEF File
<1> QED BY <1>2 DEF Init, Asked!Init

\* Every step answers, fails, or is one that Selection does not see.
LEMMA RefineStep == Inv /\ [Next]_vars => [Asked!Next]_(Asked!selectionVars)
<1> SUFFICES ASSUME Inv, [Next]_vars PROVE [Asked!Next]_(Asked!selectionVars)
  OBVIOUS
<1>1. CASE ReturnNothing
  <2>1. /\ pc = "start" /\ pc' = "returned" /\ k' = k /\ File' = File
    BY <1>1 DEF ReturnNothing, File
  <2>2. Asked!Answer
    BY <1>1, <2>1, NothingAnswers DEF Asked!Answer
  <2> QED BY <2>2 DEF Asked!Next
<1>2. CASE Start
  BY <1>2 DEF Start, File, Asked!selectionVars
<1>3. CASE ReserveThrows
  BY <1>3 DEF ReserveThrows, File, Asked!Next, Asked!Fail
<1>4. CASE StreamThrows
  BY <1>4 DEF StreamThrows, Stream!Fail, File, Asked!Next, Asked!Fail
<1>5. CASE Visit
  BY <1>5, VisitKeepsFile DEF Visit, Asked!selectionVars
<1>6. CASE EndStream
  BY <1>6 DEF EndStream, Stream!End, File, Asked!selectionVars
<1>7. CASE Drain
  BY <1>7 DEF Drain, File, Asked!selectionVars
<1>8. CASE Finish
  <2>1. /\ pc = "draining" /\ pc' = "returned" /\ k' = k /\ File' = File
    BY <1>8 DEF Finish, File
  <2>2. Asked!Answer
    BY <1>8, <2>1, FinishAnswers DEF Asked!Answer
  <2> QED BY <2>2 DEF Asked!Next
<1>9. CASE Done \/ UNCHANGED vars
  BY <1>9 DEF Done, vars, File, Asked!selectionVars
<1> QED
  BY <1>1, <1>2, <1>3, <1>4, <1>5, <1>6, <1>7, <1>8, <1>9 DEF Next

\* What top_k promises it does: a call returns the best k movies of its file, best
\* first and each once, or throws and returns nothing.
THEOREM TopKIsSelection == Spec => SelectionSpec
BY RefineInit, RefineStep, InvCorrect, PTL DEF Spec, SelectionSpec, Asked!Spec
=============================================================================
