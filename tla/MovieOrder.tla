----------------------------- MODULE MovieOrder -----------------------------
(* What the comparisons of Movie say of any three movies someone compares. *)
EXTENDS Movie

\* Each of the three is replaced in turn.
VARIABLES a, b, c

trio == <<a, b, c>>

OrderInit == a \in Movies /\ b = a /\ c = a

Compare(m) == a' = b /\ b' = c /\ c' = m

OrderNext == \E m \in Movies : Compare(m)

OrderSpec == OrderInit /\ [][OrderNext]_trio

-----------------------------------------------------------------------------
\* Movie.h:47 calls operator< "a strict total order".  On movies whose ratings are
\* numbers it is one.  With NaNs it still never ranks two movies both ways and is
\* transitive, but a movie with a NaN is ranked against none, itself included: not
\* the weak order a heap needs, but no contradiction either.  operator== is coarser:
\* of movies that are equal to it, the ranking still tells those apart whose rating
\* or votes differ, and no others.
StrictTotalOrder ==
  /\ Better(a, b) => ~Better(b, a)
  /\ Better(a, b) /\ Better(b, c) => Better(a, c)
  /\ Rated(a) /\ Rated(b) => a = b \/ Better(a, b) \/ Better(b, a)
  /\ ~Rated(a) => ~Better(a, b) /\ ~Better(b, a)
  /\ Rated(a) /\ Rated(b) /\ Same(a, b) =>
       (Better(a, b) \/ Better(b, a) <=> a.rating # b.rating \/ a.num_votes # b.num_votes)

\* The order that cli.cpp:6-7 documents: "rating desc, then votes desc, then year
\* asc, then title asc, then tconst asc", said by the first key that differs.
RankKeys(m) == <<-m.rating, -m.num_votes, m.start_year, m.primary_title, m.tconst>>

DocumentedOrder ==
  Rated(a) /\ Rated(b) =>
    (Better(a, b) <=>
       \E n \in 1..5 :
         /\ \A m \in 1..(n - 1) : RankKeys(a)[m] = RankKeys(b)[m]
         /\ RankKeys(a)[n] < RankKeys(b)[n])
=============================================================================
