--------------------------- MODULE PriorityQueue ---------------------------
(***************************************************************************)
(* What imdb::MinHeap (include/imdb/MinHeap.h) promises its callers: a     *)
(* collection whose pop removes an element that no other element precedes. *)
(* There is no array here and no order of slots, only what is stored.      *)
(*                                                                         *)
(* An element is an object: two objects with equal values are different    *)
(* members of Items which Less leaves unordered.                           *)
(***************************************************************************)
CONSTANTS
  Items,      \* the objects a heap can hold
  Less(_, _), \* comp_, the strict weak order the heap is built on
  NoItem,     \* "nothing has been returned yet"
  CopyMayThrow \* TRUE: a range insert may throw half-way

VARIABLES
  contents,     \* the objects stored in the heap
  ordered,      \* FALSE between a range insert that threw and its repair
  other,        \* the same two for a second heap object, the peer of a
  otherOrdered, \* copy, a move or a swap
  out           \* what pop_value returned, if it was the last operation

pqVars == <<contents, ordered, other, otherOrdered, out>>

\* The elements a pop may remove: those no stored element precedes.  A heap
\* that a throwing range insert left behind promises only that it is a member.
Removable ==
  IF ordered
  THEN {m \in contents : \A x \in contents : ~Less(x, m)}
  ELSE contents

Init ==
  /\ contents = {} /\ ordered = TRUE
  /\ other = {} /\ otherOrdered = TRUE
  /\ out = NoItem

Push(x) ==
  /\ x \in Items \ contents
  /\ contents' = contents \union {x}
  /\ out' = NoItem
  /\ UNCHANGED <<ordered, other, otherOrdered>>

\* A range insert puts the whole heap in order again.
PushAll(S) ==
  /\ S \subseteq Items \ contents
  /\ contents' = contents \union S
  /\ ordered' = TRUE
  /\ out' = NoItem
  /\ UNCHANGED <<other, otherOrdered>>

\* A range insert that throws keeps S, the part it had copied.
PushPart(S) ==
  /\ CopyMayThrow
  /\ S \subseteq Items \ contents
  /\ contents' = contents \union S
  /\ ordered' = (ordered /\ S = {})
  /\ out' = NoItem
  /\ UNCHANGED <<other, otherOrdered>>

Pop(m) ==
  /\ m \in Removable
  /\ contents' = contents \ {m}
  /\ out' \in {m, NoItem}
  /\ UNCHANGED <<ordered, other, otherOrdered>>

\* Construction from a range, and clear.
Assign(S) ==
  /\ S \subseteq Items
  /\ contents' = S
  /\ ordered' = TRUE
  /\ out' = NoItem
  /\ UNCHANGED <<other, otherOrdered>>

CopyAssign ==
  /\ contents' = other /\ ordered' = otherOrdered
  /\ out' = NoItem
  /\ UNCHANGED <<other, otherOrdered>>

MoveAssign ==
  /\ contents' = other /\ ordered' = otherOrdered
  /\ other' = {} /\ otherOrdered' = TRUE
  /\ out' = NoItem

Swap ==
  /\ contents' = other /\ ordered' = otherOrdered
  /\ other' = contents /\ otherOrdered' = ordered
  /\ out' = NoItem

Next ==
  \/ \E x \in Items : Push(x) \/ Pop(x)
  \/ \E S \in SUBSET Items : PushAll(S) \/ PushPart(S) \/ Assign(S)
  \/ CopyAssign
  \/ MoveAssign
  \/ Swap

Spec == Init /\ [][Next]_pqVars
=============================================================================
