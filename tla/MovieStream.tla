----------------------------- MODULE MovieStream -----------------------------
(***************************************************************************)
(* What StreamMovies (include/imdb/Loader.h) promises its caller: the      *)
(* movies of a file that pass the filter, in file order, each given to the *)
(* visitor once, until the file ends or the visitor stops it.  Lines, *)
(* parsing and counters are Loader's.                                      *)
(***************************************************************************)
EXTENDS Sequences

CONSTANT Rows \* the movies a file can hold, equal ones told apart

VARIABLES
  todo,  \* the movies that pass the filter and are still ahead
  given, \* the movies the visitor has been given
  status \* "open", "ended", "stopped" by the visitor, or "failed"

streamVars == <<todo, given, status>>

Init ==
  /\ todo \in Seq(Rows)
  /\ given = <<>>
  /\ status = "open"

\* The next movie is given to the visitor, behind which the stream is s.
Deliver(s) ==
  /\ status = "open"
  /\ todo # <<>>
  /\ given' = Append(given, Head(todo))
  /\ todo' = Tail(todo)
  /\ status' = s

End ==
  /\ status = "open"
  /\ todo = <<>>
  /\ status' = "ended"
  /\ UNCHANGED <<todo, given>>

\* The file cannot be opened: no movie was given and none will be.
Fail ==
  /\ status = "open"
  /\ given = <<>>
  /\ status' = "failed"
  /\ UNCHANGED <<todo, given>>

Next ==
  \/ \E s \in {"open", "stopped", "failed"} : Deliver(s)
  \/ End
  \/ Fail

Spec == Init /\ [][Next]_streamVars
=============================================================================
