------------------------------- MODULE MCTopK -------------------------------
(* Small instances of TopK and TopKParallel: movies with a number as the thing *)
(* they are compared by, and two of them that compare equal.                   *)
EXTENDS TopK

MCRows == {<<"a", 3>>, <<"b", 2>>, <<"c", 2>>, <<"d", 1>>, <<"e", 0>>}
MCBetter(x, y) == x[2] > y[2]

\* The movies of a file in every order: a row is a line, so it comes once.
MCFiles == {f \in UNION {[1..n -> MCRows] : n \in 0..5} : IsInjective(f)}
MCBounds == 0..3
=============================================================================
