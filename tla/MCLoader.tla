------------------------------ MODULE MCLoader ------------------------------
(* Small instances of Loader.  Ratings are numbers that static_cast<float>    *)
(* rounds down to an even one; votes are kept modulo 8 for 2^32.              *)
EXTENDS Loader

MCFloat(r) == IF r = NaN THEN NaN ELSE r - (r % 2)

Good == [columns |-> 11, endsInTab |-> FALSE, titleType |-> "movie", bad |-> {},
         rating |-> 8, votes |-> 5]

Rows == {
  Good,
  [Good EXCEPT !.rating = 6],                        \* on the rating threshold
  [Good EXCEPT !.rating = 7],                        \* rounded below it
  [Good EXCEPT !.rating = NaN],
  [Good EXCEPT !.votes = 1],                         \* too few votes
  [Good EXCEPT !.votes = 9],                         \* wraps to 1 vote
  [Good EXCEPT !.titleType = "short"],
  [Good EXCEPT !.titleType = "short", !.bad = {"startYear"}],
  [Good EXCEPT !.bad = {"numVotes"}],
  [Good EXCEPT !.columns = 9],                       \* no rating, no votes
  [Good EXCEPT !.columns = 8],
  [Good EXCEPT !.columns = 9, !.endsInTab = TRUE],
  [Good EXCEPT !.columns = 8, !.endsInTab = TRUE],   \* a parse error
  [Good EXCEPT !.columns = 7]}                       \* a parse error

SeqsUpTo(S, n) == UNION {[1..m -> S] : m \in 0..n}

\* Every short file, and longer ones with little to tell their lines apart.
MCFiles ==
  SeqsUpTo(Rows \union {Blank}, 2)
    \union [1..5 -> {Good, [Good EXCEPT !.votes = 1], Blank}]

Options(rating, votes, types, skip, every) ==
  [min_rating |-> rating, min_votes |-> votes, types |-> types, skip_header |-> skip,
   progress_every |-> every]

Call(api, o) == [api |-> api, opts |-> o]

MCCalls == {
  Call("StreamMovies", Options(0, 0, {}, TRUE, Unset)),
  Call("StreamMovies", Options(6, 2, {"movie"}, TRUE, 1)),
  Call("StreamMovies", Options(0, 2, {}, FALSE, 2)),
  Call("StreamMovies", Options(0, -1, {"movie"}, FALSE, 0)),
  Call("LoadMovies", Options(7, 0, {"movie", "short"}, FALSE, Unset)),
  Call("load_movies", Options(6, 2, {}, TRUE, Unset)),
  Call("for_each_movie", Options(6, 2, {}, TRUE, Unset)),
  Call("for_each_movie", Options(0, 0, {}, TRUE, Unset))}
=============================================================================
