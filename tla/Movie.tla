------------------------------- MODULE Movie -------------------------------
(***************************************************************************)
(* The comparisons of include/imdb/Movie.h.  A movie is a record of the    *)
(* five fields they read; titles and keys, which are compared as strings,  *)
(* are numbers here, of which only the order matters.                      *)
(***************************************************************************)
EXTENDS Integers

CONSTANTS
  Ratings, \* the ratings of the movies compared
  Votes, Years, Titles, Keys,
  NaN      \* the float that is not a number

ASSUME FieldAssumption ==
  /\ Ratings \subseteq Int \union {NaN}
  /\ Votes \subseteq Int /\ Years \subseteq Int /\ Titles \subseteq Int /\ Keys \subseteq Int

Movies == [rating : Ratings, num_votes : Votes, start_year : Years,
           primary_title : Titles, tconst : Keys]

\* The rating is a number.  A movie whose text says "nan" is ranked against none.
Rated(m) == m.rating # NaN

\* Mutant of Differ: two NaNs are equal, as they are for bits.
DifferAsBits(x, y) == x # y

\* Mutant of Above: the lower rating comes first.
Below(x, y) == x # NaN /\ y # NaN /\ x < y

\* != and > of floats: a NaN differs from every number and from itself, and it is
\* neither above nor below anything.
Differ(x, y) == x = NaN \/ y = NaN \/ x # y
Above(x, y) == x # NaN /\ y # NaN /\ x > y

\* operator<: a comes before b in the ranking.
Better(a, b) ==
  IF Differ(a.rating, b.rating) THEN Above(a.rating, b.rating)
  ELSE IF a.num_votes # b.num_votes THEN a.num_votes > b.num_votes
  ELSE IF a.start_year # b.start_year THEN a.start_year < b.start_year
  ELSE IF a.primary_title # b.primary_title THEN a.primary_title < b.primary_title
  ELSE a.tconst < b.tconst

\* operator>
Worse(a, b) == Better(b, a)

\* operator==, which reads neither the rating nor the votes; operator!= negates it.
Same(a, b) ==
  a.tconst = b.tconst /\ a.primary_title = b.primary_title /\ a.start_year = b.start_year
=============================================================================
