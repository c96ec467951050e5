---------------------------- MODULE TreeHandles ----------------------------
(***************************************************************************)
(* Two objects of type imdb::RedBlackTree (include/imdb/RedBlackTree.h)    *)
(* that are copied, moved and swapped, and an iterator.  What a tree holds *)
(* is a set of keys here (RedBlackTree implements OrderedSet); what counts *)
(* is whose the nodes and the sentinel nil_ are, since an iterator walks   *)
(* with the sentinel of the object in its tree_, wherever its node now is. *)
(***************************************************************************)
EXTENDS Integers, FiniteSets

CONSTANTS
  Objects,   \* the two tree objects
  Keys,      \* the keys that can be inserted
  Sentinels, \* the addresses a nil_ can have
  Null       \* nullptr, the node of end()

ASSUME HandleAssumption ==
  /\ \E o, p \in Objects : o # p /\ Objects = {o, p}
  /\ Cardinality(Sentinels) >= 3
  /\ Keys \subseteq Int /\ Null \notin Keys

VARIABLES
  keys,  \* per object: the keys of the nodes it owns
  nil,   \* per object: nil_
  ends,  \* per object: the sentinel that the links of its nodes end in
  live,  \* the sentinels allocated and not deleted
  tree_, \* the iterator: the object it was obtained from
  node,  \* the iterator: the key of its node, or Null
  owner, \* which object owns that node now
  copy,  \* the copy assignment under way, NoCopy if there is none
  pc     \* "run", "copying", "hung" in an endless walk, "terminated" by an exception

vars == <<keys, nil, ends, live, tree_, node, owner, copy, pc>>

NoCopy == [to |-> Null]

Init ==
  /\ keys = [o \in Objects |-> {}]
  /\ nil \in {f \in [Objects -> Sentinels] : \A o, p \in Objects : o # p => f[o] # f[p]}
  /\ ends = nil /\ live = {nil[o] : o \in Objects}
  /\ tree_ \in Objects /\ node = Null /\ owner = tree_
  /\ copy = NoCopy /\ pc = "run"

Other(o) == CHOOSE p \in Objects : p # o

IteratorAt(o, n) == tree_' = o /\ node' = n /\ owner' = o

\* The caller lets go of an iterator whose node is destroyed.
DropIterator(destroyed) ==
  IF node # Null /\ destroyed THEN IteratorAt(tree_, Null) ELSE UNCHANGED <<tree_, node, owner>>

Insert(o, k) ==
  /\ pc = "run"
  /\ keys' = [keys EXCEPT ![o] = @ \union {k}]
  /\ IteratorAt(o, k)
  /\ UNCHANGED <<nil, ends, live, copy, pc>>

Erase(o, k) ==
  /\ pc = "run" /\ k \in keys[o]
  /\ keys' = [keys EXCEPT ![o] = @ \ {k}]
  /\ DropIterator(owner = o /\ node = k)
  /\ UNCHANGED <<nil, ends, live, copy, pc>>

Clear(o) ==
  /\ pc = "run"
  /\ keys' = [keys EXCEPT ![o] = {}]
  /\ DropIterator(owner = o)
  /\ UNCHANGED <<nil, ends, live, copy, pc>>

\* o = p: a temporary tree gets a sentinel of its own.
BeginCopy(o, p) ==
  /\ pc = "run" /\ o # p
  /\ \E s \in Sentinels \ live :
       copy' = [to |-> o, from |-> p, nil |-> s, keys |-> {}] /\ live' = live \union {s}
  /\ pc' = "copying"
  /\ UNCHANGED <<keys, nil, ends, tree_, node, owner>>

ToCopy == keys[copy.from] \ copy.keys

\* insert_unique puts the next key in order into the temporary.
CopyNode ==
  /\ pc = "copying"
  /\ \E k \in ToCopy :
       /\ \A m \in ToCopy : k <= m
       /\ copy' = [copy EXCEPT !.keys = @ \union {k}]
  /\ UNCHANGED <<keys, nil, ends, live, tree_, node, owner, pc>>

CopyOver == pc' = "run" /\ copy' = NoCopy

\* A node cannot be allocated or its key cannot be copied: the constructor it happens
\* in is a delegating one, so the temporary is destroyed, with what it has so far.
CopyThrows ==
  /\ pc = "copying" /\ ToCopy # {}
  /\ live' = live \ {copy.nil}
  /\ CopyOver
  /\ UNCHANGED <<keys, nil, ends, tree_, node, owner>>

\* Mutant of SwappedNil: swap exchanges roots and sizes but not the sentinels.
SwappedNilNot(o, s) == nil

\* nil_ behind a swap of o with a tree whose sentinel is s.
SwappedNil(o, s) == [nil EXCEPT ![o] = s]

\* The temporary is swapped with o and takes o's old nodes and sentinel with it.
CopyEnds ==
  /\ pc = "copying" /\ ToCopy = {}
  /\ keys' = [keys EXCEPT ![copy.to] = copy.keys]
  /\ nil' = SwappedNil(copy.to, copy.nil)
  /\ ends' = [ends EXCEPT ![copy.to] = copy.nil]
  /\ live' = live \ {nil[copy.to]}
  /\ DropIterator(owner = copy.to)
  /\ CopyOver

\* An iterator whose node is in p goes with it to o, but keeps its tree_.
NodesMove(o, p) ==
  IF node # Null /\ owner = p THEN owner' = o /\ UNCHANGED <<tree_, node>>
  ELSE DropIterator(owner = o)

\* Mutant of NilAnew: the source keeps the sentinel it has given away.
NilShared(o, p, s) == [nil EXCEPT ![o] = nil[p]]

\* init_nil gives the source p the new sentinel s.
NilAnew(o, p, s) == [nil EXCEPT ![o] = nil[p], ![p] = s]

\* o = std::move(p), or o made anew by a move: o takes the nodes and the sentinel,
\* p gets a new one.
MoveAssign(o, p) ==
  /\ pc = "run" /\ o # p
  /\ keys' = [keys EXCEPT ![o] = keys[p], ![p] = {}]
  /\ \E s \in Sentinels \ live :
       /\ nil' = NilAnew(o, p, s)
       /\ ends' = [ends EXCEPT ![o] = ends[p], ![p] = s]
       /\ live' = (live \ {nil[o]}) \union {s}
  /\ NodesMove(o, p)
  /\ UNCHANGED <<copy, pc>>

\* init_nil cannot allocate: the move is noexcept, std::terminate.
MoveThrows ==
  /\ pc = "run"
  /\ pc' = "terminated"
  /\ UNCHANGED <<keys, nil, ends, live, tree_, node, owner, copy>>

Swap(o, p) ==
  /\ pc = "run" /\ o # p
  /\ keys' = [keys EXCEPT ![o] = keys[p], ![p] = keys[o]]
  /\ nil' = [SwappedNil(o, nil[p]) EXCEPT ![p] = nil[o]]
  /\ ends' = [ends EXCEPT ![o] = ends[p], ![p] = ends[o]]
  /\ owner' = (IF node = Null THEN owner ELSE IF owner = o THEN p ELSE o)
  /\ UNCHANGED <<live, tree_, node, copy, pc>>

Successor(o, n) ==
  LET above == {k \in keys[o] : n < k}
  IN  IF above = {} THEN Null ELSE CHOOSE k \in above : \A m \in above : k <= m

\* ++it.  next_node compares links with the nil_ of tree_: if the links end in
\* another sentinel, the walk down its own child links never ends.
Advance ==
  /\ pc = "run" /\ node # Null
  /\ IF nil[tree_] = ends[owner]
     THEN /\ node' = Successor(owner, node)
          /\ owner' = (IF node' = Null THEN tree_ ELSE owner)
          /\ UNCHANGED pc
     ELSE pc' = "hung" /\ UNCHANGED <<node, owner>>
  /\ UNCHANGED <<keys, nil, ends, live, tree_, copy>>

Stopped == pc \in {"hung", "terminated"} /\ UNCHANGED vars

Next ==
  \/ \E o \in Objects, k \in Keys : Insert(o, k) \/ Erase(o, k)
  \/ \E o \in Objects : Clear(o)
  \/ \E o, p \in Objects : BeginCopy(o, p) \/ MoveAssign(o, p) \/ Swap(o, p)
  \/ CopyNode \/ CopyThrows \/ CopyEnds
  \/ MoveThrows
  \/ Advance
  \/ Stopped

Spec == Init /\ [][Next]_vars

-----------------------------------------------------------------------------
\* The kind of value each variable holds; no link ends in a deleted sentinel.
TypeOK ==
  /\ keys \in [Objects -> SUBSET Keys]
  /\ live \subseteq Sentinels
  /\ nil \in [Objects -> live] /\ ends \in [Objects -> live]
  /\ tree_ \in Objects /\ owner \in Objects
  /\ node = Null \/ node \in keys[owner]
  /\ pc \in {"run", "copying", "hung", "terminated"}
  /\ IF pc # "copying" THEN copy = NoCopy
     ELSE /\ copy \in [to : Objects, from : Objects, nil : live, keys : SUBSET Keys]
          /\ copy.to # copy.from /\ copy.keys \subseteq keys[copy.from]

\* However objects are copied, moved and swapped, and whether a copy succeeds or not,
\* each has a sentinel to itself, in which its links end, and every sentinel allocated
\* is some object's or that of the copy under way: none is deleted twice, none lost.
SentinelsOwned ==
  LET temporary == IF pc = "copying" THEN {copy.nil} ELSE {}
      owned == {nil[o] : o \in Objects}
  IN  /\ \A o, p \in Objects : o # p => nil[o] # nil[p]
      /\ ends = nil
      /\ temporary \intersect owned = {}
      /\ live = owned \union temporary

\* An iterator whose node is still in the object it was obtained from walks on to
\* the end, whatever was copied, moved and swapped since: it can run into an endless
\* walk only while its node is in the other object.
HomeIteratorEnds == pc = "hung" => owner # tree_

-----------------------------------------------------------------------------
\* What the docs of the repository say and the code does not do.

\* docs/algorithms.md:153-154: "an iterator stays valid as long as the node it points
\* at is not erased".
IteratorStaysValid == pc # "hung"
=============================================================================
