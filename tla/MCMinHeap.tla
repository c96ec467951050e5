----------------------------- MODULE MCMinHeap -----------------------------
(* Small instances of MinHeap: objects are numbers, at most two to a value.  *)
EXTENDS MinHeap

MCItems4 == 1..4

\* Objects 1, {2, 3} and 4: two of them have an equal value.
MCLess(x, y) == x \div 2 < y \div 2
=============================================================================
