------------------------------- MODULE MCCli -------------------------------
(* 2^64 is 32 and 2^32 is 8.  There is room for 20 movies: for the default *)
(* and for 9, not for 31, which is -1 wrapped.  A file is a header and at  *)
(* most three different rows; two of them differ in their tconst only.     *)
EXTENDS Command

MCWords == {"file", "gone", "0", "1", "9", "-1", "99x"}
MCReadable == {"file"}
MCNumber(w) ==
  CASE w = "0" -> 0 [] w = "1" -> 1 [] w = "9" -> 9 [] w = "-1" -> -1
    [] w = "99x" -> 99 [] OTHER -> NoNumber

MCFloat(r) == r

Row == [columns |-> 11, endsInTab |-> FALSE, titleType |-> "movie", bad |-> {},
        rating |-> 8, votes |-> 5, startYear |-> 1, title |-> 1, tconst |-> 1]

MCRows == {
  Row,
  [Row EXCEPT !.tconst = 2],
  [Row EXCEPT !.rating = 9, !.votes = 1],   \* the best, with few votes
  [Row EXCEPT !.rating = 7, !.votes = 12],  \* wraps to 4 votes
  [Row EXCEPT !.columns = 9],               \* no rating, no votes
  [Row EXCEPT !.columns = 7]}               \* a parse error

MCContents ==
  {<<>>} \union {<<Row>> \o s : s \in {t \in UNION {[1..n -> MCRows] : n \in 0..3} : IsInjective(t)}}
=============================================================================
