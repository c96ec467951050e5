--------------------------- MODULE MCTopKParallel ---------------------------
(* A small instance of TopKParallel: movies with a number as the thing they are *)
(* compared by, two of them equal.                                              *)
EXTENDS TopKParallel

MCRows == {<<"a", 2>>, <<"b", 1>>, <<"c", 1>>}
MCBetter(x, y) == x[2] > y[2]
MCFiles == {f \in UNION {[1..n -> MCRows] : n \in 0..3} : IsInjective(f)}
MCBounds == 0..3
=============================================================================
