----------------------------- MODULE Selection -----------------------------
(***************************************************************************)
(* What imdb::top_k (include/imdb/TopK.h) promises: asked for the best k   *)
(* of the movies that pass the filter, it answers with k of them, or all   *)
(* if there are fewer, best first, none worse than one left out.  There is *)
(* no heap here and no order in which the movies arrive.                   *)
(***************************************************************************)
EXTENDS Integers, Sequences, FiniteSets, Functions

CONSTANTS
  Rows,         \* the movies, equal ones told apart
  Bounds,       \* the numbers that can be asked for
  Better(_, _)  \* Movie::operator<

VARIABLES
  k,      \* how many are asked for
  input,  \* the movies that pass the filter
  phase,  \* "asked", "answered", or "failed"
  answer  \* the movies returned, <<>> until then

selectionVars == <<k, input, phase, answer>>

Fewer(m, n) == IF m <= n THEN m ELSE n

\* s lists the best k members of S, best first.
IsBestOf(s, S) ==
  /\ IsInjective(s) /\ Range(s) \subseteq S
  /\ Len(s) = Fewer(k, Cardinality(S))
  /\ \A i, j \in 1..Len(s) : i < j => ~Better(s[j], s[i])
  /\ \A x \in S \ Range(s), i \in 1..Len(s) : ~Better(x, s[i])

Init ==
  /\ k \in Bounds
  /\ input \in SUBSET Rows
  /\ phase = "asked"
  /\ answer = <<>>

Answer ==
  /\ phase = "asked"
  /\ phase' = "answered"
  /\ IsBestOf(answer', input)
  /\ UNCHANGED <<k, input>>

\* The file cannot be opened, or memory runs out: nothing is returned.
Fail ==
  /\ phase = "asked"
  /\ phase' = "failed"
  /\ UNCHANGED <<k, input, answer>>

Next == Answer \/ Fail

Spec == Init /\ [][Next]_selectionVars
=============================================================================
