------------------------- MODULE TreeHandlesProofs -------------------------
(***************************************************************************)
(* Proofs about TreeHandles for any two objects, keys and addresses: types,*)
(* who owns which sentinel, and which iterators can walk without end.      *)
(***************************************************************************)
EXTENDS TreeHandles, WellFoundedInduction, TLAPS

Inv == TypeOK /\ SentinelsOwned /\ HomeIteratorEnds

\* Two different objects are all there are.
LEMMA TwoObjects ==
  ASSUME NEW o \in Objects, NEW p \in Objects, o # p, NEW q \in Objects
  PROVE  q = o \/ q = p
BY HandleAssumption

\* Every set of natural numbers with a member has a least one.
LEMMA LeastNatural ==
  ASSUME NEW T, T \subseteq Nat, T # {}
  PROVE  \E x \in T : \A y \in T : x <= y
<1> DEFINE R == OpToRel(<, Nat)
<1>1. IsWellFoundedOn(R, Nat)
  BY NatLessThanWellFounded
<1>2. ASSUME NEW x \in Nat, NEW y \in Nat, <<y, x>> \notin R
      PROVE  x <= y
  <2>1. <<y, x>> \in Nat \X Nat /\ ~(y < x)
    BY <1>2 DEF OpToRel
  <2> QED BY <2>1
<1> HIDE DEF R
<1>3. PICK x \in T : \A y \in T : <<y, x>> \notin R
  BY <1>1, WFMin
<1> QED BY <1>2, <1>3

\* ++it finds a key of the object, the least above, or the end.
LEMMA SuccessorFacts ==
  ASSUME TypeOK, NEW o \in Objects, NEW n \in keys[o]
  PROVE  Successor(o, n) = Null \/ Successor(o, n) \in keys[o]
<1> DEFINE above == {k \in keys[o] : n < k}
           gaps == {k - n : k \in above}
<1>1. keys[o] \subseteq Int
  BY HandleAssumption DEF TypeOK
<1>2. CASE above = {}
  BY <1>2 DEF Successor
<1>3. CASE above # {}
  <2>1. gaps \subseteq Nat /\ gaps # {}
    BY <1>1, <1>3
  <2>2. PICK g \in gaps : \A h \in gaps : g <= h
    BY <2>1, LeastNatural
  <2>3. PICK k \in above : g = k - n
    BY <2>2
  <2>4. \A m \in above : k <= m
    BY <1>1, <2>2, <2>3
  <2>5. Successor(o, n) \in above
    BY <1>3, <2>3, <2>4 DEF Successor
  <2> QED BY <2>5
<1> QED BY <1>2, <1>3

\* Two new objects have a sentinel each and nothing else.
LEMMA InitInv == Init => Inv
BY HandleAssumption DEF Init, Inv, TypeOK, SentinelsOwned, HomeIteratorEnds

\* Every operation keeps types, ownership and what is said of an iterator.
LEMMA StepInv == Inv /\ [Next]_vars => Inv'
<1> SUFFICES ASSUME Inv, [Next]_vars PROVE Inv'
  OBVIOUS
<1> USE HandleAssumption
<1>1. ASSUME NEW o \in Objects, NEW k \in Keys, Insert(o, k) PROVE Inv'
  BY <1>1 DEF Insert, IteratorAt, Inv, TypeOK, SentinelsOwned, HomeIteratorEnds
<1>2. ASSUME NEW o \in Objects, NEW k \in Keys, Erase(o, k) PROVE Inv'
  BY <1>2 DEF Erase, DropIterator, IteratorAt, Inv, TypeOK, SentinelsOwned, HomeIteratorEnds
<1>3. ASSUME NEW o \in Objects, Clear(o) PROVE Inv'
  BY <1>3 DEF Clear, DropIterator, IteratorAt, Inv, TypeOK, SentinelsOwned, HomeIteratorEnds
<1>4. ASSUME NEW o \in Objects, NEW p \in Objects, BeginCopy(o, p) PROVE Inv'
  <2>1. PICK s \in Sentinels \ live :
          copy' = [to |-> o, from |-> p, nil |-> s, keys |-> {}] /\ live' = live \union {s}
    BY <1>4 DEF BeginCopy
  <2>2. SentinelsOwned'
    BY <1>4, <2>1 DEF BeginCopy, Inv, TypeOK, SentinelsOwned
  <2>3. TypeOK'
    BY <1>4, <2>1 DEF BeginCopy, Inv, TypeOK
  <2> QED BY <1>4, <2>2, <2>3 DEF BeginCopy, Inv, HomeIteratorEnds
<1>5. CASE CopyNode
  <2>1. PICK k \in ToCopy : copy' = [copy EXCEPT !.keys = @ \union {k}]
    BY <1>5 DEF CopyNode
  <2>2. copy' \in [to : Objects, from : Objects, nil : live, keys : SUBSET Keys]
    BY <1>5, <2>1 DEF CopyNode, ToCopy, Inv, TypeOK
  <2>3. /\ copy'.to = copy.to /\ copy'.from = copy.from /\ copy'.nil = copy.nil
        /\ copy'.keys = copy.keys \union {k}
    BY <1>5, <2>1 DEF CopyNode, Inv, TypeOK
  <2>4. TypeOK'
    BY <1>5, <2>2, <2>3 DEF CopyNode, ToCopy, Inv, TypeOK
  <2>5. SentinelsOwned'
    BY <1>5, <2>3 DEF CopyNode, Inv, SentinelsOwned
  <2> QED BY <1>5, <2>4, <2>5 DEF CopyNode, Inv, HomeIteratorEnds
<1>6. CASE CopyThrows
  <2>1. SentinelsOwned'
    BY <1>6 DEF CopyThrows, CopyOver, Inv, TypeOK, SentinelsOwned
  <2>2. nil' \in [Objects -> live'] /\ ends' \in [Objects -> live'] /\ live' \subseteq Sentinels
    BY <1>6 DEF CopyThrows, CopyOver, Inv, TypeOK, SentinelsOwned
  <2>3. TypeOK'
    BY <1>6, <2>2 DEF CopyThrows, CopyOver, Inv, TypeOK
  <2> QED BY <1>6, <2>1, <2>3 DEF CopyThrows, CopyOver, Inv, HomeIteratorEnds
<1>7. CASE CopyEnds
  <2> DEFINE o == copy.to
             s == copy.nil
  <2>1. /\ o \in Objects /\ s \in live /\ copy.keys \subseteq Keys /\ pc = "copying"
        /\ nil' = [nil EXCEPT ![o] = s] /\ ends' = [ends EXCEPT ![o] = s]
        /\ live' = live \ {nil[o]} /\ keys' = [keys EXCEPT ![o] = copy.keys]
        /\ copy' = NoCopy /\ pc' = "run"
    BY <1>7 DEF CopyEnds, CopyOver, SwappedNil, Inv, TypeOK
  <2>2. DropIterator(owner = o)
    BY <1>7 DEF CopyEnds
  <2> HIDE DEF o, s
  <2>3. \A q \in Objects : nil[q] # copy.nil
    BY <2>1 DEF Inv, TypeOK, SentinelsOwned
  <2>4. s = copy.nil
    BY DEF s
  <2>5. SentinelsOwned'
    BY <2>1, <2>3, <2>4 DEF Inv, TypeOK, SentinelsOwned
  <2>6. nil' \in [Objects -> live'] /\ ends' \in [Objects -> live'] /\ live' \subseteq Sentinels
    BY <2>1, <2>3, <2>4 DEF Inv, TypeOK, SentinelsOwned
  <2>7. TypeOK'
    BY <2>1, <2>2, <2>6 DEF DropIterator, IteratorAt, Inv, TypeOK
  <2> QED BY <2>1, <2>5, <2>7 DEF Inv, HomeIteratorEnds
<1>8. ASSUME NEW o \in Objects, NEW p \in Objects, MoveAssign(o, p) PROVE Inv'
  <2>1. PICK s \in Sentinels \ live :
          /\ nil' = [nil EXCEPT ![o] = nil[p], ![p] = s]
          /\ ends' = [ends EXCEPT ![o] = ends[p], ![p] = s]
          /\ live' = (live \ {nil[o]}) \union {s}
    BY <1>8 DEF MoveAssign, NilAnew
  <2>2. /\ o # p /\ \A q \in Objects : q = o \/ q = p
        /\ pc = "run" /\ pc' = pc
    BY <1>8, TwoObjects DEF MoveAssign
  <2>3. SentinelsOwned'
    BY <2>1, <2>2 DEF Inv, TypeOK, SentinelsOwned
  <2>4. TypeOK'
    <3>1. nil' \in [Objects -> live'] /\ ends' \in [Objects -> live'] /\ live' \subseteq Sentinels
      BY <2>1, <2>2 DEF Inv, TypeOK, SentinelsOwned
    <3> QED
      BY <1>8, <2>2, <3>1 DEF MoveAssign, NodesMove, DropIterator, IteratorAt, Inv, TypeOK
  <2> QED BY <1>8, <2>3, <2>4 DEF MoveAssign, Inv, HomeIteratorEnds, TypeOK
<1>9. ASSUME NEW o \in Objects, NEW p \in Objects, Swap(o, p) PROVE Inv'
  <2>1. o # p /\ \A q \in Objects : q = o \/ q = p
    BY <1>9, TwoObjects DEF Swap
  <2> QED BY <1>9, <2>1 DEF Swap, SwappedNil, Inv, TypeOK, SentinelsOwned, HomeIteratorEnds
<1>10. CASE MoveThrows
  BY <1>10 DEF MoveThrows, Inv, TypeOK, SentinelsOwned, HomeIteratorEnds
<1>11. CASE Advance
  <2>1. SentinelsOwned'
    BY <1>11 DEF Advance, Inv, SentinelsOwned
  <2>2. HomeIteratorEnds'
    BY <1>11 DEF Advance, Inv, TypeOK, SentinelsOwned, HomeIteratorEnds
  <2>3. TypeOK'
    <3>1. Successor(owner, node) = Null \/ Successor(owner, node) \in keys[owner]
      BY <1>11, SuccessorFacts DEF Advance, Inv, TypeOK
    <3> QED BY <1>11, <3>1 DEF Advance, Inv, TypeOK
  <2> QED BY <2>1, <2>2, <2>3 DEF Inv
<1>12. CASE Stopped \/ UNCHANGED vars
  BY <1>12 DEF Stopped, vars, Inv, TypeOK, SentinelsOwned, HomeIteratorEnds
<1> QED
  BY <1>1, <1>2, <1>3, <1>4, <1>5, <1>6, <1>7, <1>8, <1>9, <1>10, <1>11, <1>12 DEF Next

\* All of Inv at every state.
THEOREM InvCorrect == Spec => []Inv
BY InitInv, StepInv, PTL DEF Spec

\* No link of any tree ends in a sentinel that has been deleted.
THEOREM TypeCorrect == Spec => []TypeOK
BY InvCorrect, PTL DEF Inv

\* Copies, moves and swaps hand the sentinels on so that each object has one to itself
\* and none is lost or deleted twice.
THEOREM SentinelsOwnedCorrect == Spec => []SentinelsOwned
BY InvCorrect, PTL DEF Inv

\* Only an iterator whose node has gone to the other object can walk without end.
THEOREM HomeIteratorEndsCorrect == Spec => []HomeIteratorEnds
BY InvCorrect, PTL DEF Inv
=============================================================================
