---------------------------- MODULE MCMovieOrder ----------------------------
(* Two values for every field, two for the rating and NaN. *)
EXTENDS MovieOrder

MCRatings == {8, 9, NaN}
MCTwo == {1, 2}
=============================================================================
