----------------------------- MODULE OrderedSet -----------------------------
(***************************************************************************)
(* What imdb::RedBlackTree (include/imdb/RedBlackTree.h) promises its      *)
(* callers, keys only: a set of keys, and an iterator that is at one of    *)
(* them or at end(), is where the last call has put it, and is disturbed   *)
(* by nothing but the erasure of its own key: docs/algorithms.md:154 lets  *)
(* an insertion invalidate iterators, but the code's nodes never move.     *)
(* Every step says in call which operation it is and of which key: an      *)
(* answer that is right for another operation only is no step.  There are  *)
(* no nodes and no colours.                                                *)
(***************************************************************************)
EXTENDS Integers, FiniteSets

CONSTANTS
  Keys,   \* the keys that can be inserted
  Sought, \* the keys that are looked up
  End     \* the position behind the last key

VARIABLES
  keys, \* the keys in the tree
  it,   \* where the iterator is
  call  \* the operation called last, with its key

setVars == <<keys, it, call>>

\* The first and the last of some keys, End if there are none.
First(S) == IF S = {} THEN End ELSE CHOOSE k \in S : \A m \in S : k <= m
Final(S) == IF S = {} THEN End ELSE CHOOSE k \in S : \A m \in S : m <= k

Next(k) == First({m \in keys : k < m})
Prev(k) == Final({m \in keys : m < k})

Init == keys = {} /\ it = End /\ call = <<>>

\* insert, emplace and operator[]: the iterator returned is at the key.
Insert(k) == call' = <<"insert", k>> /\ keys' = keys \union {k} /\ it' = k

\* erase(k), by a caller who drops an iterator that was at k.
Erase(k) ==
  /\ call' = <<"erase", k>>
  /\ keys' = keys \ {k}
  /\ it' = (IF it = k THEN End ELSE it)

\* erase(it) returns the iterator behind the erased key.
EraseAt ==
  /\ call' = <<"erase_at">>
  /\ it \in keys
  /\ keys' = keys \ {it}
  /\ it' = Next(it)

Clear == call' = <<"clear">> /\ keys' = {} /\ it' = End

\* An operation that reads the set only, and its answer.
Seek(c, answer) == call' = c /\ it' = answer /\ UNCHANGED keys

Find(k) == Seek(<<"find", k>>, IF k \in keys THEN k ELSE End)
LowerBound(k) == Seek(<<"lower_bound", k>>, First({m \in keys : k <= m}))
UpperBound(k) == Seek(<<"upper_bound", k>>, First({m \in keys : k < m}))
Begin == Seek(<<"begin">>, First(keys))
ToEnd == Seek(<<"end">>, End)

\* ++it, of an iterator that is at a key.
Advance == it \in keys /\ Seek(<<"++">>, Next(it))

\* --it: from end() to the last key; from the first key to end().
Retreat == keys # {} /\ Seek(<<"--">>, IF it = End THEN Final(keys) ELSE Prev(it))

Step ==
  \/ \E k \in Keys : Insert(k) \/ Erase(k)
  \/ \E k \in Sought : Find(k) \/ LowerBound(k) \/ UpperBound(k)
  \/ EraseAt \/ Clear
  \/ Begin \/ ToEnd \/ Advance \/ Retreat

Spec == Init /\ [][Step]_setVars
=============================================================================
