--------------------------- MODULE MCRedBlackTree ---------------------------
(* Eight keys, given in the configuration: the fewest with which an erasure    *)
(* climbs more than one level, as seven black nodes on three levels need an    *)
(* eighth to be inserted and erased again.                                     *)
EXTENDS RedBlackTree
=============================================================================
