----------------------------- MODULE RowProofs -----------------------------
(***************************************************************************)
(* The two parts of the program that are about one row and know of no      *)
(* others: what SplitTsvLine returns, for lines and fields of any length,  *)
(* and what the ranking is on movies with and without a NaN as their       *)
(* rating, whatever values their fields take.                              *)
(***************************************************************************)
EXTENDS TsvSplit, MovieOrder, FiniteSetTheorems, SequenceTheorems, WellFoundedInduction, TLAPS

\* A set of natural numbers has a least member.
LEMMA LeastNatural ==
  ASSUME NEW S \in SUBSET Nat, S # {}
  PROVE  \E m \in S : \A n \in S : m <= n
<1> DEFINE R == OpToRel(<, Nat)
<1>1. IsWellFoundedOn(R, Nat)
  BY NatLessThanWellFounded
<1>2. \A m, n \in Nat : <<n, m>> \in R <=> n < m
  BY DEF OpToRel
<1>3. \A m, n \in Nat : n < m \/ m <= n
  OBVIOUS
<1> HIDE DEF R
<1>4. PICK m \in S : \A n \in S : ~(<<n, m>> \in R)
  BY <1>1, WFMin
<1>5. m \in Nat /\ \A n \in S : n \in Nat
  OBVIOUS
<1>6. \A n \in S : m <= n
  BY <1>2, <1>3, <1>4, <1>5, Zenon
<1> QED BY <1>6

-----------------------------------------------------------------------------
\* Counting characters.

\* Sets of positions are finite.
LEMMA Bounded ==
  ASSUME NEW n \in Nat, NEW S \in SUBSET (1..n)
  PROVE  IsFiniteSet(S) /\ Cardinality(S) \in Nat /\ Cardinality(S) <= n
<1>1. IsFiniteSet(1..n) /\ Cardinality(1..n) = n
  BY FS_Interval
<1>2. IsFiniteSet(S) /\ Cardinality(S) <= n
  BY <1>1, FS_Subset
<1> QED BY <1>2, FS_CardinalityType

\* Of the first n characters at most n are k.
LEMMA CountBounds ==
  ASSUME NEW s, NEW k, NEW n \in Nat
  PROVE  Count(s, k, n) \in Nat /\ Count(s, k, n) <= n
<1>1. {m \in 1..n : s[m] = k} \in SUBSET (1..n)
  OBVIOUS
<1> QED BY <1>1, Bounded DEF Count

\* The next character counts if it is k.
LEMMA CountStep ==
  ASSUME NEW s, NEW k, NEW n \in Nat
  PROVE  /\ s[n + 1] = k => Count(s, k, n + 1) = Count(s, k, n) + 1
         /\ s[n + 1] # k => Count(s, k, n + 1) = Count(s, k, n)
<1> DEFINE S == {m \in 1..n : s[m] = k}
           T == {m \in 1..(n + 1) : s[m] = k}
<1>1. s[n + 1] = k => T = S \union {n + 1}
  OBVIOUS
<1>2. s[n + 1] # k => T = S
  OBVIOUS
<1>3. n + 1 \notin S
  OBVIOUS
<1>4. IsFiniteSet(S)
  <2>1. S \in SUBSET (1..n)
    OBVIOUS
  <2> QED BY <2>1, Bounded
<1>5. Count(s, k, n) = Cardinality(S) /\ Count(s, k, n + 1) = Cardinality(T)
  BY DEF Count
<1> HIDE DEF S, T
<1>6. Cardinality(S \union {n + 1}) = Cardinality(S) + 1
  BY <1>3, <1>4, FS_AddElement
<1> QED BY <1>1, <1>2, <1>5, <1>6

\* More characters hold no fewer k.
LEMMA CountGrows ==
  ASSUME NEW s, NEW k, NEW m \in Nat, NEW n \in Nat, m <= n
  PROVE  Count(s, k, m) <= Count(s, k, n)
<1> DEFINE S == {i \in 1..m : s[i] = k}
           T == {i \in 1..n : s[i] = k}
<1>1. S \subseteq T
  OBVIOUS
<1>2. IsFiniteSet(T)
  <2>1. T \in SUBSET (1..n)
    OBVIOUS
  <2> QED BY <2>1, Bounded
<1>3. Count(s, k, m) = Cardinality(S) /\ Count(s, k, n) = Cardinality(T)
  BY DEF Count
<1> HIDE DEF S, T
<1> QED BY <1>1, <1>2, <1>3, FS_Subset

\* Characters in between that are not k do not count.
LEMMA CountSame ==
  ASSUME NEW s, NEW k, NEW m \in Nat, NEW n \in Nat, m <= n,
         \A i \in (m + 1)..n : s[i] # k
  PROVE  Count(s, k, n) = Count(s, k, m)
<1>1. {i \in 1..n : s[i] = k} = {i \in 1..m : s[i] = k}
  <2>1. \A i \in 1..n : i \in 1..m \/ i \in (m + 1)..n
    OBVIOUS
  <2>2. \A i \in 1..m : i \in 1..n
    OBVIOUS
  <2> QED BY <2>1, <2>2
<1> QED BY <1>1 DEF Count

\* Nothing is counted of nothing.
LEMMA CountNone ==
  ASSUME NEW s, NEW k
  PROVE  Count(s, k, 0) = 0
BY CountBounds

-----------------------------------------------------------------------------
\* The types.

\* Where the doubled field has a character of the field.
Place(f, m) == {m + Count(f, Quote, m - 1), m + Count(f, Quote, m)}

\* A place comes behind those of the characters before it.
LEMMA PlacesAscend ==
  ASSUME NEW f, NEW m \in Nat, NEW n \in Nat, 0 < m, m < n,
         NEW i \in Place(f, m), NEW j \in Place(f, n)
  PROVE  i \in Nat /\ j \in Nat /\ i < j
<1>1. PICK n1, m1, q1, q2, q3, q4 :
        /\ n1 = n - 1 /\ m1 = m - 1
        /\ q1 = Count(f, Quote, m1) /\ q2 = Count(f, Quote, m)
        /\ q3 = Count(f, Quote, n1) /\ q4 = Count(f, Quote, n)
  OBVIOUS
<1>2. n1 \in Nat /\ m1 \in Nat /\ m1 <= m /\ m <= n1 /\ n1 <= n
  BY <1>1
<1>3. q1 \in Nat /\ q2 \in Nat /\ q3 \in Nat /\ q4 \in Nat
  BY <1>1, <1>2, CountBounds
<1>4. q1 <= q2 /\ q2 <= q3 /\ q3 <= q4
  BY <1>1, <1>2, CountGrows
<1>5. i \in {m + q1, m + q2} /\ j \in {n + q3, n + q4}
  BY <1>1 DEF Place
<1> QED BY <1>3, <1>4, <1>5

\* Every character of a doubled field has a place.
LEMMA PlacesCover ==
  ASSUME NEW f, NEW l \in Nat, NEW n \in 1..(l + Count(f, Quote, l))
  PROVE  \E m \in 1..l : n \in Place(f, m)
<1> DEFINE S == {m \in Nat : n <= m + Count(f, Quote, m)}
<1>1. Count(f, Quote, l) \in Nat
  BY CountBounds
<1>2. S \in SUBSET Nat /\ S # {}
  <2>1. n <= l + Count(f, Quote, l)
    BY <1>1
  <2> QED BY <2>1
<1>3. PICK m \in S : \A i \in S : m <= i
  <2> HIDE DEF S
  <2> QED BY <1>2, LeastNatural
<1>4. m \in Nat /\ m <= l /\ n <= m + Count(f, Quote, m)
  <2>1. l \in S
    BY <1>1
  <2> QED BY <1>3, <2>1
<1>5. m # 0
  BY <1>4, CountNone, <1>1
<1>6. PICK h \in Nat : m = h + 1
  <2>1. m - 1 \in Nat /\ m = (m - 1) + 1
    BY <1>4, <1>5
  <2> QED BY <2>1
<1>7. h \notin S
  BY <1>3, <1>6
<1>8. Count(f, Quote, h) \in Nat /\ Count(f, Quote, m) \in Nat
  BY <1>4, CountBounds
<1>9. ~(n <= h + Count(f, Quote, h))
  BY <1>7, <1>6
<1>10. \/ Count(f, Quote, m) = Count(f, Quote, h) + 1
       \/ Count(f, Quote, m) = Count(f, Quote, h)
  BY <1>6, CountStep
<1>11. n = m + Count(f, Quote, h) \/ n = m + Count(f, Quote, m)
  <2>1. PICK q, r : q = Count(f, Quote, h) /\ r = Count(f, Quote, m)
    OBVIOUS
  <2>2. q \in Nat /\ r \in Nat /\ (r = q + 1 \/ r = q) /\ n <= m + r /\ ~(n <= h + q) /\ n \in Nat
    BY <2>1, <1>1, <1>4, <1>8, <1>9, <1>10
  <2>3. n = m + q \/ n = m + r
    BY <2>2, <1>6
  <2> QED BY <2>1, <2>3
<1>12. m \in 1..l /\ m - 1 = h
  BY <1>4, <1>5, <1>6
<1> QED BY <1>11, <1>12 DEF Place

\* What a doubled field holds: its characters in their places, quotes in two.
LEMMA DoubleHas ==
  ASSUME NEW f \in Seq(Chars)
  PROVE  /\ Double(f) \in Seq(Chars)
         /\ Len(Double(f)) = Len(f) + Count(f, Quote, Len(f))
         /\ \A m \in 1..Len(f) : \A n \in Place(f, m) :
              n \in 1..Len(Double(f)) /\ Double(f)[n] = f[m]
<1> DEFINE l == Len(f)
           L == l + Count(f, Quote, l)
           At(n) == CHOOSE m \in DOMAIN f : n \in Place(f, m)
<1>1. l \in Nat /\ DOMAIN f = 1..l /\ \A m \in 1..l : f[m] \in Chars
  OBVIOUS
<1>2. Count(f, Quote, l) \in Nat /\ L \in Nat
  BY <1>1, CountBounds
<1>3. Double(f) = [n \in 1..L |-> f[At(n)]]
  BY DEF Double, Place
<1> HIDE DEF l, L
<1>4. ASSUME NEW n \in 1..L
      PROVE  At(n) \in 1..l /\ n \in Place(f, At(n))
  <2>1. \E m \in 1..l : n \in Place(f, m)
    BY <1>1, PlacesCover DEF L
  <2> QED BY <2>1, <1>1, Zenon
<1>5. ASSUME NEW m \in 1..l, NEW n \in Place(f, m)
      PROVE  n \in 1..L
  <2>1. PICK h \in Nat : m = h + 1
    <3>1. m - 1 \in Nat /\ m = (m - 1) + 1
      BY <1>1
    <3> QED BY <3>1
  <2>2. PICK q, r, t : q = Count(f, Quote, h) /\ r = Count(f, Quote, m) /\ t = Count(f, Quote, l)
    OBVIOUS
  <2>3. m \in Nat /\ m <= l /\ h <= m /\ m - 1 = h
    BY <1>1, <2>1
  <2>4. q \in Nat /\ r \in Nat /\ t \in Nat /\ q <= r /\ r <= t
    BY <1>1, <2>1, <2>2, <2>3, CountBounds, CountGrows
  <2>5. n = m + q \/ n = m + r
    BY <2>2, <2>3 DEF Place
  <2>6. L = l + t
    BY <2>2 DEF L
  <2> QED BY <1>1, <2>1, <2>3, <2>4, <2>5, <2>6
<1>6. ASSUME NEW m \in 1..l, NEW n \in Place(f, m)
      PROVE  At(n) = m
  <2>1. n \in 1..L
    BY <1>5
  <2>2. At(n) \in 1..l /\ n \in Place(f, At(n))
    BY <1>4, <2>1
  <2>3. PICK o : o = At(n)
    OBVIOUS
  <2>4. o \in Nat /\ m \in Nat /\ 0 < o /\ 0 < m /\ n \in Place(f, o)
    BY <2>2, <2>3, <1>1
  <2>5. ~(o < m) /\ ~(m < o)
    <3>1. CASE o < m
      BY <3>1, <2>4, PlacesAscend
    <3>2. CASE m < o
      BY <3>2, <2>4, PlacesAscend
    <3> QED BY <3>1, <3>2
  <2>6. o = m
    BY <2>4, <2>5
  <2> QED BY <2>3, <2>6
<1> HIDE DEF At
<1>7. \A n \in 1..L : f[At(n)] \in Chars
  BY <1>1, <1>4
<1>8. Double(f) \in Seq(Chars) /\ Len(Double(f)) = L
  BY <1>2, <1>3, <1>7
<1> QED BY <1>3, <1>5, <1>6, <1>8 DEF L, l

-----------------------------------------------------------------------------
\* What a writer writes consists of characters.
LEMMA EncodingsType ==
  ASSUME NEW f \in Seq(Chars), NEW e \in Encodings(f)
  PROVE  e \in Seq(Chars)
<1>1. <<Quote>> \in Seq(Chars)
  BY DEF Chars
<1>2. Double(f) \in Seq(Chars)
  BY DoubleHas
<1>3. <<Quote>> \o Double(f) \o <<Quote>> \in Seq(Chars)
  BY <1>1, <1>2
<1> QED BY <1>3 DEF Encodings

\* A bounded sequence is a sequence.
LEMMA BoundedIsSeq ==
  ASSUME NEW S, NEW n \in Nat, NEW f \in BoundedSeq(S, n)
  PROVE  f \in Seq(S)
<1>1. BoundedSeq(S, n) = UNION {[1..m -> S] : m \in 0..n}
  BY DEF BoundedSeq, SeqOf
<1>2. PICK m \in 0..n : f \in [1..m -> S]
  BY <1>1
<1> QED BY <1>2

\* Before the call nothing is read.
Unread == mode = "write" => p = 0 /\ fields = <<>>

\* What a step of the writer does to the line.
LEMMA WriteTypes ==
  ASSUME TypeOK, WriteField
  PROVE  \E f \in Seq(Chars) : \E e \in Encodings(f) :
           /\ e \in Seq(Chars)
           /\ written' = Append(written, f)
           /\ line' = IF written = <<>> THEN e ELSE line \o <<Tab>> \o e
           /\ line' \in Seq(Chars) /\ written' \in Seq(Seq(Chars))
<1>1. PICK f \in BoundedSeq(Chars, MaxChars) : \E e \in Encodings(f) :
        /\ written' = Append(written, f)
        /\ line' = IF written = <<>> THEN e ELSE line \o <<Tab>> \o e
  BY DEF WriteField
<1>2. PICK e \in Encodings(f) :
        /\ written' = Append(written, f)
        /\ line' = IF written = <<>> THEN e ELSE line \o <<Tab>> \o e
  BY <1>1
<1>3. f \in Seq(Chars)
  BY BoundedIsSeq, BoundAssumption
<1>4. e \in Seq(Chars) /\ <<Tab>> \in Seq(Chars)
  BY <1>3, EncodingsType DEF Chars
<1>5. line \o <<Tab>> \o e \in Seq(Chars)
  BY <1>4 DEF TypeOK
<1>6. line' \in Seq(Chars) /\ written' \in Seq(Seq(Chars))
  BY <1>2, <1>3, <1>4, <1>5 DEF TypeOK
<1> QED BY <1>2, <1>3, <1>4, <1>6

\* The types are invariant, and with them that the pointer stays in the line.
LEMMA TypeStep ==
  ASSUME TypeOK, Unread, [Next]_vars
  PROVE  TypeOK' /\ Unread'
<1> USE DEF TypeOK, Unread, end
<1>0. line \in Seq(Chars) /\ Len(line) \in Nat /\ p \in 0..Len(line)
  OBVIOUS
<1>1. CASE WriteField
  <2>1. line' \in Seq(Chars) /\ written' \in Seq(Seq(Chars))
    BY <1>1, WriteTypes, Zenon
  <2>2. Len(line') \in Nat
    BY <2>1
  <2> QED BY <1>1, <2>1, <2>2 DEF WriteField
<1>2. ASSUME p < Len(line)
      PROVE  Char \in Chars /\ Append(out, Char) \in Seq(Chars) /\ p + 1 \in 0..Len(line)
  <2>1. p + 1 \in 1..Len(line)
    BY <1>0, <1>2
  <2>2. Char \in Chars
    BY <1>0, <2>1 DEF Char
  <2> QED BY <2>1, <2>2
<1>3. Append(fields, out) \in Seq(Seq(Chars)) /\ Append(fields, <<>>) \in Seq(Seq(Chars))
  OBVIOUS
<1>4. CASE EndLine
  BY <1>4 DEF EndLine
<1>5. CASE TrailingField
  BY <1>3, <1>5 DEF TrailingField
<1>6. CASE StartQuoted
  BY <1>2, <1>6 DEF StartQuoted
<1>7. CASE StartPlain
  BY <1>7 DEF StartPlain
<1>8. CASE QuotedChar
  <2>1. p' \in 0..Len(line)
    BY <1>0, <1>8 DEF QuotedChar, Doubled
  <2>2. out' \in Seq(Chars)
    BY <1>2, <1>8 DEF QuotedChar
  <2> QED BY <1>8, <2>1, <2>2 DEF QuotedChar
<1>9. CASE EndQuoted
  BY <1>2, <1>3, <1>9 DEF EndQuoted
<1>10. CASE ToNextTab
  BY <1>2, <1>10 DEF ToNextTab
<1>11. CASE EndField
  BY <1>2, <1>3, <1>11 DEF EndField
<1>12. CASE UNCHANGED vars
  BY <1>12 DEF vars
<1> QED
  BY <1>1, <1>4, <1>5, <1>6, <1>7, <1>8, <1>9, <1>10, <1>11, <1>12 DEF Next, Split, Returned

\* They hold when a line is there, or a writer about to begin one.
LEMMA TypeInit == Init => TypeOK /\ Unread
<1> SUFFICES ASSUME Init PROVE TypeOK /\ Unread
  OBVIOUS
<1>1. line \in Seq(Chars)
  <2>1. CASE line \in Lines
    BY <2>1, BoundedIsSeq, BoundAssumption DEF Lines
  <2>2. CASE line = <<>>
    BY <2>2
  <2> QED BY <2>1, <2>2 DEF Init
<1>2. Len(line) \in Nat /\ <<>> \in Seq(Seq(Chars)) /\ <<>> \in Seq(Chars)
  BY <1>1
<1> QED BY <1>1, <1>2 DEF Init, TypeOK, Unread, end

\* So they always hold.
LEMMA TypeInvariant == Spec => [](TypeOK /\ Unread)
BY TypeInit, TypeStep, PTL DEF Spec

\* The types, and that p never leaves the line (loader.cpp:69-115), whatever is
\* in the line.
THEOREM SplitTypeCorrect == Spec => []TypeOK
BY TypeInvariant, PTL

-----------------------------------------------------------------------------
\* A written line.

\* Field f is written without quotes in the characters of l behind i up to j.
PlainAt(l, f, i, j) ==
  /\ j = i + Len(f)
  /\ \A m \in 1..Len(f) : l[i + m] = f[m] /\ f[m] # Tab
  /\ f # <<>> => f[1] # Quote

\* There it is written in quotes.
QuotedAt(l, f, i, j) ==
  /\ j = i + Len(f) + Count(f, Quote, Len(f)) + 2
  /\ l[i + 1] = Quote /\ l[j] = Quote
  /\ \A m \in 1..Len(f) : \A n \in Place(f, m) : l[i + 1 + n] = f[m]

\* s tells behind which character each field of w starts in l.
Laid(l, w, s) ==
  /\ s \in [1..(Len(w) + 1) -> Nat]
  /\ s[1] = 0 /\ s[Len(w) + 1] = Len(l) + 1
  /\ \A k \in 1..Len(w) :
       /\ s[k] < s[k + 1] /\ s[k + 1] <= Len(l) + 1
       /\ k < Len(w) => s[k + 1] <= Len(l) /\ l[s[k + 1]] = Tab
       /\ PlainAt(l, w[k], s[k], s[k + 1] - 1) \/ QuotedAt(l, w[k], s[k], s[k + 1] - 1)

\* An encoded field at the end of a line.
LEMMA EncodedAt ==
  ASSUME NEW f \in Seq(Chars), NEW e \in Encodings(f), NEW l, NEW i \in Nat,
         \A m \in 1..Len(e) : l[i + m] = e[m]
  PROVE  PlainAt(l, f, i, i + Len(e)) \/ QuotedAt(l, f, i, i + Len(e))
<1>1. CASE e = f /\ Tab \notin Range(f) /\ (f # <<>> => f[1] # Quote)
  <2>1. \A m \in 1..Len(f) : f[m] # Tab
    BY <1>1 DEF Range
  <2> QED BY <1>1, <2>1 DEF PlainAt
<1>2. CASE e = <<Quote>> \o Double(f) \o <<Quote>>
  <2>1. PICK d : d = Double(f)
    OBVIOUS
  <2>2. /\ d \in Seq(Chars) /\ Len(d) = Len(f) + Count(f, Quote, Len(f))
        /\ \A m \in 1..Len(f) : \A n \in Place(f, m) : n \in 1..Len(d) /\ d[n] = f[m]
    BY <2>1, DoubleHas
  <2>3. Len(d) \in Nat /\ Quote \in Chars
    BY <2>2 DEF Chars
  <2>4. /\ Len(e) = Len(d) + 2 /\ e[1] = Quote /\ e[Len(d) + 2] = Quote
        /\ \A n \in 1..Len(d) : e[1 + n] = d[n]
    BY <1>2, <2>1, <2>2, <2>3
  <2>5. l[i + 1] = Quote /\ l[i + Len(e)] = Quote
    <3>1. 1 \in 1..Len(e) /\ Len(e) \in 1..Len(e)
      BY <2>3, <2>4
    <3> QED BY <2>4, <3>1
  <2>6. ASSUME NEW m \in 1..Len(f), NEW n \in Place(f, m)
        PROVE  l[i + 1 + n] = f[m]
    <3>1. n \in 1..Len(d) /\ d[n] = f[m]
      BY <2>2
    <3>2. 1 + n \in 1..Len(e) /\ i + (1 + n) = i + 1 + n
      BY <2>3, <2>4, <3>1
    <3> QED BY <2>4, <3>1, <3>2
  <2>7. i + Len(e) = i + Len(f) + Count(f, Quote, Len(f)) + 2
    <3>1. Len(f) \in Nat /\ Count(f, Quote, Len(f)) \in Nat
      BY CountBounds
    <3> QED BY <2>2, <2>4, <3>1
  <2> QED BY <2>5, <2>6, <2>7 DEF QuotedAt
<1> QED BY <1>1, <1>2 DEF Encodings

\* A field in a line is there in a longer line that starts the same.
LEMMA FieldStays ==
  ASSUME NEW f \in Seq(Chars), NEW l \in Seq(Chars), NEW k, NEW i \in Nat, NEW j \in Nat,
         j <= Len(l), \A n \in 1..Len(l) : k[n] = l[n]
  PROVE  /\ PlainAt(l, f, i, j) => PlainAt(k, f, i, j)
         /\ QuotedAt(l, f, i, j) => QuotedAt(k, f, i, j)
<1>1. Len(f) \in Nat /\ Len(l) \in Nat
  OBVIOUS
<1>2. ASSUME PlainAt(l, f, i, j)
      PROVE  PlainAt(k, f, i, j)
  <2>1. \A m \in 1..Len(f) : i + m \in 1..Len(l)
    BY <1>1, <1>2 DEF PlainAt
  <2> QED BY <1>2, <2>1 DEF PlainAt
<1>3. ASSUME QuotedAt(l, f, i, j)
      PROVE  QuotedAt(k, f, i, j)
  <2>1. PICK q : q = Count(f, Quote, Len(f))
    OBVIOUS
  <2>2. q \in Nat /\ j = i + Len(f) + q + 2
    BY <2>1, <1>1, <1>3, CountBounds DEF QuotedAt
  <2>3. i + 1 \in 1..Len(l) /\ j \in 1..Len(l)
    BY <1>1, <2>2
  <2>4. ASSUME NEW m \in 1..Len(f), NEW n \in Place(f, m)
        PROVE  i + 1 + n \in 1..Len(l)
    <3>1. n \in 1..(Len(f) + q)
      BY <2>1, DoubleHas
    <3> QED BY <1>1, <2>2, <3>1
  <2> QED BY <1>3, <2>3, <2>4 DEF QuotedAt
<1> QED BY <1>2, <1>3

\* The first field of a line.
LEMMA FirstField ==
  ASSUME NEW f \in Seq(Chars), NEW e \in Encodings(f), e \in Seq(Chars)
  PROVE  \E s : Laid(e, <<f>>, s)
<1>1. PICK s : s = [k \in 1..2 |-> IF k = 1 THEN 0 ELSE Len(e) + 1]
  OBVIOUS
<1>2. Len(e) \in Nat /\ s \in [1..2 -> Nat] /\ s[1] = 0 /\ s[2] = Len(e) + 1
  BY <1>1
<1>3. PlainAt(e, f, 0, Len(e)) \/ QuotedAt(e, f, 0, Len(e))
  <2>1. \A m \in 1..Len(e) : e[0 + m] = e[m]
    OBVIOUS
  <2>2. 0 + Len(e) = Len(e)
    BY <1>2
  <2>3. PlainAt(e, f, 0, 0 + Len(e)) \/ QuotedAt(e, f, 0, 0 + Len(e))
    BY <2>1, EncodedAt
  <2> QED BY <2>2, <2>3
<1>4. Len(<<f>>) = 1 /\ <<f>>[1] = f
  OBVIOUS
<1>5. ASSUME NEW k \in 1..1
      PROVE  k = 1 /\ k + 1 = 2 /\ ~(k < 1)
  OBVIOUS
<1>6. s[2] - 1 = Len(e) /\ s[1] < s[2] /\ 1 + 1 = 2
  BY <1>2
<1>7. Laid(e, <<f>>, s)
  <2>1. PICK w : w = <<f>>
    OBVIOUS
  <2>2. Len(w) = 1 /\ w[1] = f
    BY <2>1, <1>4
  <2>3. Laid(e, w, s)
    BY <1>2, <1>3, <1>5, <1>6, <2>2 DEF Laid
  <2> QED BY <2>1, <2>3
<1> QED BY <1>7

\* The next field, behind a tab.
LEMMA NextField ==
  ASSUME NEW f \in Seq(Chars), NEW e \in Encodings(f), e \in Seq(Chars),
         NEW l \in Seq(Chars), NEW w \in Seq(Seq(Chars)), NEW s, Laid(l, w, s)
  PROVE  \E t : Laid(l \o <<Tab>> \o e, Append(w, f), t)
<1>1. PICK n, o, x, v : n = Len(w) /\ o = Len(l) /\ x = l \o <<Tab>> \o e /\ v = Append(w, f)
  OBVIOUS
<1>2. n \in Nat /\ o \in Nat /\ Len(e) \in Nat /\ Len(v) = n + 1
  BY <1>1
<1>3. /\ Len(x) = o + 1 + Len(e) /\ Len(x) \in Nat /\ o + 1 <= Len(x)
      /\ x[o + 1] = Tab
      /\ \A m \in 1..o : x[m] = l[m]
      /\ \A m \in 1..Len(e) : x[(o + 1) + m] = e[m]
  <2>1. Tab \in Chars
    BY DEF Chars
  <2>2. PICK h : h = l \o <<Tab>>
    OBVIOUS
  <2>3. /\ h \in Seq(Chars) /\ Len(h) = o + 1 /\ h[o + 1] = Tab
        /\ \A m \in 1..o : h[m] = l[m]
    BY <2>1, <2>2, <1>1, <1>2
  <2>4. x = h \o e
    BY <1>1, <2>2
  <2>5. /\ Len(x) = Len(h) + Len(e)
        /\ \A m \in 1..Len(h) : x[m] = h[m]
        /\ \A m \in 1..Len(e) : x[Len(h) + m] = e[m]
    <3>1. h \in Seq(Chars) /\ e \in Seq(Chars)
      BY <2>3
    <3> QED BY <2>4, <3>1
  <2>6. Len(x) = o + 1 + Len(e)
    BY <2>3, <2>5
  <2>7. Len(x) \in Nat /\ o + 1 <= Len(x)
    BY <2>6, <1>2
  <2>8. x[o + 1] = Tab /\ \A m \in 1..o : x[m] = l[m]
    BY <1>2, <2>3, <2>5
  <2> QED BY <2>3, <2>5, <2>6, <2>7, <2>8
<1>4. PICK t : t = [k \in 1..(n + 2) |-> IF k <= n + 1 THEN s[k] ELSE Len(x) + 1]
  OBVIOUS
<1>5. /\ s \in [1..(n + 1) -> Nat] /\ s[1] = 0 /\ s[n + 1] = o + 1
      /\ \A k \in 1..n :
           /\ s[k] < s[k + 1] /\ s[k + 1] <= o + 1
           /\ k < n => s[k + 1] <= o /\ l[s[k + 1]] = Tab
           /\ PlainAt(l, w[k], s[k], s[k + 1] - 1) \/ QuotedAt(l, w[k], s[k], s[k + 1] - 1)
  BY <1>1 DEF Laid
<1>6. /\ t \in [1..(n + 2) -> Nat] /\ t[1] = 0 /\ t[n + 1] = o + 1 /\ t[n + 2] = Len(x) + 1
      /\ \A k \in 1..(n + 1) : t[k] = s[k]
  BY <1>2, <1>3, <1>4, <1>5
<1>7. /\ \A k \in 1..n : v[k] = w[k] /\ w[k] \in Seq(Chars)
      /\ v[n + 1] = f
  BY <1>1, <1>2
<1>8. ASSUME NEW k \in 1..n
      PROVE  /\ t[k] < t[k + 1] /\ t[k + 1] <= Len(x) /\ x[t[k + 1]] = Tab
             /\ PlainAt(x, v[k], t[k], t[k + 1] - 1) \/ QuotedAt(x, v[k], t[k], t[k + 1] - 1)
  <2>1. k \in Nat /\ k \in 1..(n + 1) /\ k + 1 \in 1..(n + 1) /\ t[k] = s[k] /\ t[k + 1] = s[k + 1]
    BY <1>2, <1>6
  <2>2. PICK i, h, j : i = s[k] /\ h = s[k + 1] /\ j = h - 1
    OBVIOUS
  <2>3. i \in Nat /\ j \in Nat /\ j <= o /\ h = j + 1 /\ i < h
    <3>1. i \in Nat /\ h \in Nat
      BY <1>5, <2>1, <2>2
    <3>2. i < h /\ h <= o + 1
      BY <1>5, <2>2
    <3>3. j = h - 1
      BY <2>2
    <3>4. o \in Nat
      BY <1>2
    <3> QED BY <3>1, <3>2, <3>3, <3>4
  <2>4. PlainAt(l, w[k], i, j) \/ QuotedAt(l, w[k], i, j)
    BY <1>5, <2>2
  <2>5. PlainAt(x, w[k], i, j) \/ QuotedAt(x, w[k], i, j)
    <3>1. j <= Len(l) /\ \A m \in 1..Len(l) : x[m] = l[m]
      BY <1>1, <1>3, <2>3
    <3>2. w[k] \in Seq(Chars)
      BY <1>7
    <3> QED BY <2>3, <2>4, <3>1, <3>2, FieldStays
  <2>6. x[s[k + 1]] = Tab
    <3>1. CASE k < n
      <4>1. h <= o /\ l[h] = Tab
        BY <3>1, <1>5, <2>2
      <4>2. h \in 1..o
        BY <4>1, <1>2, <2>3
      <4> QED BY <4>1, <4>2, <1>3, <2>2
    <3>2. CASE k = n
      BY <3>2, <1>3, <1>5
    <3> QED BY <3>1, <3>2, <1>2
  <2>7. s[k + 1] <= Len(x) /\ s[k] < s[k + 1]
    <3>1. Len(x) \in Nat /\ o + 1 <= Len(x) /\ o \in Nat
      BY <1>2, <1>3
    <3>2. h <= Len(x) /\ i < h
      BY <3>1, <2>3
    <3> QED BY <3>2, <2>2
  <2>8. PlainAt(x, v[k], t[k], t[k + 1] - 1) \/ QuotedAt(x, v[k], t[k], t[k + 1] - 1)
    BY <1>7, <2>1, <2>2, <2>5
  <2> QED BY <2>1, <2>6, <2>7, <2>8
<1>9. PlainAt(x, f, o + 1, Len(x)) \/ QuotedAt(x, f, o + 1, Len(x))
  <2>1. o + 1 \in Nat /\ (o + 1) + Len(e) = Len(x)
    BY <1>2, <1>3
  <2>2. PlainAt(x, f, o + 1, (o + 1) + Len(e)) \/ QuotedAt(x, f, o + 1, (o + 1) + Len(e))
    BY <1>3, <2>1, EncodedAt
  <2> QED BY <2>1, <2>2
<1>10. ASSUME NEW k \in 1..(n + 1)
       PROVE  /\ t[k] < t[k + 1] /\ t[k + 1] <= Len(x) + 1
              /\ k < n + 1 => t[k + 1] <= Len(x) /\ x[t[k + 1]] = Tab
              /\ PlainAt(x, v[k], t[k], t[k + 1] - 1) \/ QuotedAt(x, v[k], t[k], t[k + 1] - 1)
  <2>1. CASE k \in 1..n
    <3>1. k + 1 \in 1..(n + 2) /\ Len(x) \in Nat
      <4>1. k + 1 \in 1..(n + 2)
        BY <2>1, <1>2
      <4> QED BY <4>1, <1>3
    <3>2. t[k + 1] \in Nat
      BY <3>1, <1>6
    <3> QED BY <2>1, <3>1, <3>2, <1>8
  <2>2. CASE k = n + 1
    <3>1. k + 1 = n + 2 /\ (Len(x) + 1) - 1 = Len(x) /\ o + 1 < Len(x) + 1 /\ Len(x) \in Nat
      BY <2>2, <1>2, <1>3
    <3> QED BY <2>2, <3>1, <1>2, <1>6, <1>7, <1>9
  <2> QED BY <2>1, <2>2, <1>2
<1>11. Laid(x, v, t)
  <2>1. (n + 1) + 1 = n + 2
    BY <1>2
  <2> QED BY <2>1, <1>2, <1>6, <1>10 DEF Laid
<1> QED BY <1>1, <1>11

-----------------------------------------------------------------------------
\* Reading a written line.

\* The loop over a plain field f, which starts behind i, has read part of it.
InPlain(f, i, j) ==
  /\ PlainAt(line, f, i, j) /\ i < end
  /\ Len(out) <= Len(f) /\ \A m \in 1..Len(out) : out[m] = f[m]
  /\ p = i + Len(out)

\* The loop over a quoted field has.
InQuoted(f, i, j) ==
  /\ QuotedAt(line, f, i, j)
  /\ Len(out) <= Len(f) /\ \A m \in 1..Len(out) : out[m] = f[m]
  /\ p = i + 1 + Len(out) + Count(f, Quote, Len(out))

\* The fields that are read are the first of those written, and the pointer is at the
\* start of the next one, in it, or behind its closing quote.
Aligned(s) ==
  LET n == Len(fields)
  IN  /\ n <= Len(written)
      /\ \A k \in 1..n : fields[k] = written[k]
      /\ mode = "next" /\ n < Len(written) => p = s[n + 1]
      /\ mode = "next" /\ n = Len(written) => p = end /\ line # <<>> /\ line[end] # Tab
      /\ mode = "plain" => n < Len(written) /\ InPlain(written[n + 1], s[n + 1], s[n + 2] - 1)
      /\ mode = "quoted" => n < Len(written) /\ InQuoted(written[n + 1], s[n + 1], s[n + 2] - 1)
      /\ mode = "skip" => n > 0 /\ p > 0 /\ p = s[n + 1] - 1 /\ line[p] = Quote

RoundInv ==
  /\ mode # "write" => \/ written = <<>>
                       \/ mode = "done" /\ RoundTrip
                       \/ mode # "done" /\ \E s : Laid(line, written, s) /\ Aligned(s)
  /\ mode = "write" /\ written # <<>> => \E s : Laid(line, written, s)

\* The types of what the steps below speak of.
LEMMA FieldTypes ==
  ASSUME TypeOK, NEW s, Laid(line, written, s), NEW k \in 1..Len(written)
  PROVE  /\ k \in 1..(Len(written) + 1) /\ k + 1 \in 1..(Len(written) + 1)
         /\ s[k] \in Nat /\ s[k + 1] \in Nat /\ s[k] < s[k + 1] /\ s[k + 1] <= end + 1
         /\ written[k] \in Seq(Chars) /\ Len(written[k]) \in Nat
         /\ k < Len(written) => s[k + 1] <= end /\ line[s[k + 1]] = Tab
         /\ k = Len(written) => s[k + 1] = end + 1
<1>1. written \in Seq(Seq(Chars)) /\ Len(written) \in Nat /\ line \in Seq(Chars) /\ Len(line) \in Nat
  BY DEF TypeOK
<1>2. k \in 1..(Len(written) + 1) /\ k + 1 \in 1..(Len(written) + 1)
  BY <1>1
<1>3. s[k] \in Nat /\ s[k + 1] \in Nat
  BY <1>2 DEF Laid
<1>4. written[k] \in Seq(Chars)
  BY <1>1
<1>5. Len(written[k]) \in Nat
  BY <1>4
<1> QED BY <1>2, <1>3, <1>4, <1>5 DEF Laid, end

\* A quoted field takes two characters more than it has, at least.
LEMMA QuotedIsLong ==
  ASSUME NEW f \in Seq(Chars), NEW l, NEW i \in Nat, NEW j \in Nat, QuotedAt(l, f, i, j)
  PROVE  i + 2 <= j
<1>1. Len(f) \in Nat /\ Count(f, Quote, Len(f)) \in Nat
  BY CountBounds
<1> QED BY <1>1 DEF QuotedAt

\* At the end of the line the last field has been read, or is empty and read now.
LEMMA TrailingAligned ==
  ASSUME TypeOK, written # <<>>, NEW s, Laid(line, written, s), Aligned(s), TrailingField
  PROVE  RoundTrip'
<1>1. PICK n, w : n = Len(fields) /\ w = Len(written)
  OBVIOUS
<1>2. /\ n \in Nat /\ w \in Nat /\ w > 0 /\ Len(line) \in Nat
      /\ fields \in Seq(Seq(Chars)) /\ written \in Seq(Seq(Chars)) /\ line \in Seq(Chars)
  BY <1>1 DEF TypeOK
<1>3. fields' = Append(fields, <<>>) /\ written' = written /\ line' = line /\ p = Len(line) /\ mode = "next"
  BY DEF TrailingField, end
<1>4. n <= w /\ \A k \in 1..n : fields[k] = written[k]
  BY <1>1 DEF Aligned
<1>5. Len(fields') = n + 1 /\ fields'[n + 1] = <<>> /\ \A k \in 1..n : fields'[k] = fields[k]
  BY <1>1, <1>2, <1>3
<1>6. fields' \in Seq(Seq(Chars))
  BY <1>2, <1>3
<1>7. CASE n = w
  <2>1. line # <<>> /\ line[Len(line)] # Tab
    BY <1>1, <1>3, <1>7 DEF Aligned, end
  <2>2. Phantom(line) = << <<>> >>
    BY <2>1 DEF Phantom, Last
  <2>3. fields = written
    BY <1>1, <1>2, <1>4, <1>7, SeqEqual
  <2>4. fields' = written \o << <<>> >>
    BY <1>3, <2>3, <1>2, AppendIsConcat
  <2> QED BY <1>3, <2>2, <2>4 DEF RoundTrip
<1>8. CASE n < w
  <2>1. n + 1 \in 1..w /\ p = s[n + 1]
    BY <1>1, <1>2, <1>3, <1>8 DEF Aligned
  <2>2. /\ s[n + 1] \in Nat /\ s[n + 2] \in Nat /\ s[n + 1] < s[n + 2] /\ s[n + 2] <= Len(line) + 1
        /\ written[n + 1] \in Seq(Chars)
        /\ n + 1 < w => s[n + 2] <= Len(line)
    <3>1. (n + 1) + 1 = n + 2
      BY <1>2
    <3> QED BY <1>1, <2>1, <3>1, FieldTypes DEF end
  <2>3. s[n + 2] = Len(line) + 1 /\ n + 1 = w
    BY <1>2, <1>3, <2>1, <2>2
  <2>4. \/ PlainAt(line, written[n + 1], Len(line), Len(line))
        \/ QuotedAt(line, written[n + 1], Len(line), Len(line))
    <3>1. (n + 1) + 1 = n + 2 /\ (Len(line) + 1) - 1 = Len(line)
      BY <1>2
    <3> QED BY <1>1, <1>3, <2>1, <2>3, <3>1 DEF Laid
  <2>5. PlainAt(line, written[n + 1], Len(line), Len(line))
    BY <1>2, <2>2, <2>4, QuotedIsLong
  <2>6. written[n + 1] = <<>>
    <3>1. Len(written[n + 1]) \in Nat /\ Len(line) = Len(line) + Len(written[n + 1])
      BY <2>2, <2>5 DEF PlainAt
    <3>2. Len(written[n + 1]) = 0
      BY <1>2, <3>1
    <3> QED BY <2>2, <3>2
  <2>7. fields' = written
    <3>1. \A k \in 1..(n + 1) : k \in 1..n \/ k = n + 1
      BY <1>2
    <3>2. \A k \in 1..Len(fields') : fields'[k] = written[k]
      BY <1>4, <1>5, <2>6, <3>1
    <3>3. Len(fields') = Len(written)
      BY <1>1, <1>5, <2>3
    <3> QED BY <1>2, <1>6, <3>2, <3>3, SeqEqual
  <2>8. line = <<>> \/ line[Len(line)] = Tab
    <3>1. CASE n = 0
      <4>1. n + 1 = 1 /\ s[1] = 0
        BY <3>1 DEF Laid
      <4>2. Len(line) = 0
        BY <4>1, <1>3, <2>1
      <4> QED BY <4>2, <1>2
    <3>2. CASE n > 0
      <4>1. n \in 1..w /\ n < w
        BY <3>2, <1>2, <1>8
      <4> QED BY <4>1, <1>1, <1>3, <2>1, FieldTypes
    <3> QED BY <3>1, <3>2, <1>2
  <2>9. Phantom(line) = <<>>
    BY <2>8 DEF Phantom, Last
  <2>10. written \o <<>> = written
    BY <1>2
  <2> QED BY <1>3, <2>7, <2>9, <2>10 DEF RoundTrip
<1> QED BY <1>2, <1>4, <1>7, <1>8

\* A field that is read to its end is a field written.
LEMMA WholeField ==
  ASSUME TypeOK, NEW n, n = Len(fields), n < Len(written),
         \A k \in 1..n : fields[k] = written[k],
         Len(out) = Len(written[n + 1]), \A m \in 1..Len(out) : out[m] = written[n + 1][m],
         fields' = Append(fields, out)
  PROVE  /\ Len(fields') = n + 1 /\ n + 1 <= Len(written)
         /\ \A k \in 1..(n + 1) : fields'[k] = written[k]
<1>1. /\ n \in Nat /\ Len(written) \in Nat /\ fields \in Seq(Seq(Chars)) /\ out \in Seq(Chars)
      /\ written \in Seq(Seq(Chars))
  BY DEF TypeOK
<1>2. n + 1 \in 1..Len(written) /\ n + 1 <= Len(written)
  BY <1>1
<1>3. written[n + 1] \in Seq(Chars)
  BY <1>1, <1>2
<1>4. out = written[n + 1]
  BY <1>1, <1>3, SeqEqual
<1>5. Len(fields') = n + 1 /\ fields'[n + 1] = out /\ \A k \in 1..n : fields'[k] = fields[k]
  BY <1>1
<1>6. \A k \in 1..(n + 1) : k \in 1..n \/ k = n + 1
  BY <1>1
<1> QED BY <1>2, <1>4, <1>5, <1>6

\* The two starts of a field.
LEMMA StartAligned ==
  ASSUME TypeOK, NEW s, Laid(line, written, s), Aligned(s), StartQuoted \/ StartPlain
  PROVE  Aligned(s)'
<1>1. PICK n : n = Len(fields)
  OBVIOUS
<1>2. /\ n \in Nat /\ Len(written) \in Nat /\ Len(line) \in Nat /\ p < Len(line)
      /\ line' = line /\ written' = written /\ fields' = fields /\ out' = <<>> /\ mode = "next"
  BY <1>1 DEF TypeOK, StartQuoted, StartPlain, end
<1>3. n <= Len(written) /\ \A k \in 1..n : fields[k] = written[k]
  BY <1>1 DEF Aligned
<1>4. n < Len(written) /\ p = s[n + 1]
  BY <1>1, <1>2, <1>3 DEF Aligned, end
<1>5. PICK f, i, j : f = written[n + 1] /\ i = s[n + 1] /\ j = s[n + 2] - 1
  OBVIOUS
<1>6. n + 1 \in 1..Len(written) /\ (n + 1) + 1 = n + 2
  BY <1>2, <1>4
<1>7. i \in Nat /\ s[n + 2] \in Nat /\ i < s[n + 2] /\ f \in Seq(Chars)
  BY <1>5, <1>6, FieldTypes
<1>8. j \in Nat /\ s[n + 2] = j + 1
  BY <1>5, <1>7
<1>9. PlainAt(line, f, i, j) \/ QuotedAt(line, f, i, j)
  BY <1>5, <1>6 DEF Laid
<1>10. Len(<<>>) = 0 /\ \A m \in 1..0 : <<>>[m] = f[m]
  OBVIOUS
<1>11. Len(f) \in Nat /\ Char = line[i + 1]
  BY <1>4, <1>5, <1>7 DEF Char
<1>12. CASE StartQuoted
  <2>1. Char = Quote /\ p' = p + 1 /\ mode' = "quoted"
    BY <1>12 DEF StartQuoted
  <2>2. ~PlainAt(line, f, i, j)
    <3> SUFFICES ASSUME PlainAt(line, f, i, j) PROVE FALSE
      OBVIOUS
    <3>1. CASE Len(f) = 0
      \* An empty field ends where it starts, and a tab is there.
      <4>1. j = i
        BY <3>1, <1>7 DEF PlainAt
      <4>2. s[n + 2] = i + 1 /\ i < Len(line)
        BY <4>1, <1>2, <1>4, <1>5, <1>8
      <4>3. n + 1 < Len(written)
        <5> SUFFICES ASSUME n + 1 = Len(written) PROVE FALSE
          BY <1>2, <1>4
        <5>1. s[n + 2] = Len(line) + 1
          BY <1>6, FieldTypes DEF end
        <5> QED BY <5>1, <4>2, <1>2, <1>7
      <4>4. line[i + 1] = Tab
        BY <4>2, <4>3, <1>6, FieldTypes
      <4> QED BY <4>4, <2>1, <1>11, CharAssumption
    <3>2. CASE Len(f) > 0
      <4>1. f # <<>> /\ 1 \in 1..Len(f)
        BY <3>2, <1>11
      <4>2. line[i + 1] = f[1] /\ f[1] # Quote
        BY <4>1 DEF PlainAt
      <4> QED BY <4>2, <2>1, <1>11
    <3> QED BY <3>1, <3>2, <1>11
  <2>3. QuotedAt(line, f, i, j)
    BY <1>9, <2>2
  <2>4. i + 1 = i + 1 + Len(<<>>) + Count(f, Quote, Len(<<>>))
    BY <1>7, <1>10, CountNone
  <2>5. InQuoted(f, i, j)'
    BY <2>1, <2>3, <2>4, <1>2, <1>4, <1>5, <1>10, <1>11 DEF InQuoted
  <2> QED BY <1>1, <1>2, <1>3, <1>4, <1>5, <2>1, <2>5 DEF Aligned
<1>13. CASE StartPlain
  <2>1. Char # Quote /\ p' = p /\ mode' = "plain"
    BY <1>13 DEF StartPlain
  <2>2. PlainAt(line, f, i, j)
    BY <1>9, <1>11, <2>1 DEF QuotedAt
  <2>3. InPlain(f, i, j)'
    BY <2>1, <2>2, <1>2, <1>4, <1>5, <1>7, <1>10, <1>11 DEF InPlain, end
  <2> QED BY <1>1, <1>2, <1>3, <1>4, <1>5, <2>1, <2>3 DEF Aligned
<1> QED BY <1>12, <1>13

\* The loop over a quoted field sees its next character, once or doubled, or the
\* closing quote, behind which the field's part of the line ends.
LEMMA SeenInQuotes ==
  ASSUME TypeOK, NEW s, Laid(line, written, s), NEW n \in Nat, n < Len(written),
         NEW f, f = written[n + 1], InQuoted(f, s[n + 1], s[n + 2] - 1)
  PROVE  /\ p \in Nat /\ p < end /\ end \in Nat /\ f \in Seq(Chars) /\ s[n + 2] \in Nat
         /\ Len(out) < Len(f) =>
              /\ Char = f[Len(out) + 1]
              /\ Doubled <=> f[Len(out) + 1] = Quote
         /\ Len(out) = Len(f) => Char = Quote /\ ~Doubled /\ p + 1 = s[n + 2] - 1
<1>1. PICK i, j, o, q, t : /\ i = s[n + 1] /\ j = s[n + 2] - 1 /\ o = Len(out)
                           /\ q = Count(f, Quote, o) /\ t = Count(f, Quote, Len(f))
  OBVIOUS
<1>2. n + 1 \in 1..Len(written) /\ (n + 1) + 1 = n + 2 /\ Len(written) \in Nat
  BY DEF TypeOK
<1>3. /\ i \in Nat /\ s[n + 2] \in Nat /\ i < s[n + 2] /\ s[n + 2] <= end + 1 /\ f \in Seq(Chars)
      /\ n + 1 < Len(written) => s[n + 2] <= end /\ line[s[n + 2]] = Tab
      /\ n + 1 = Len(written) => s[n + 2] = end + 1
  BY <1>1, <1>2, FieldTypes
<1>4. j \in Nat /\ s[n + 2] = j + 1 /\ end \in Nat /\ j <= end /\ p \in Nat
  <2>1. end \in Nat /\ p \in Nat
    BY DEF TypeOK, end
  <2>2. j = s[n + 2] - 1
    BY <1>1
  <2>3. s[n + 2] \in Nat /\ s[n + 2] > 0 /\ s[n + 2] <= end + 1
    BY <1>3
  <2> QED BY <2>1, <2>2, <2>3
<1>5. o \in Nat /\ Len(f) \in Nat /\ o <= Len(f)
  <2>1. o \in Nat
    BY <1>1 DEF TypeOK
  <2>2. Len(f) \in Nat
    BY <1>3
  <2>3. o <= Len(f)
    BY <1>1 DEF InQuoted
  <2> QED BY <2>1, <2>2, <2>3
<1>6. q \in Nat /\ t \in Nat /\ q <= t
  BY <1>1, <1>5, CountBounds, CountGrows
<1>7. j = i + Len(f) + t + 2 /\ line[j] = Quote /\ p = i + 1 + o + q
  BY <1>1 DEF InQuoted, QuotedAt
<1>8. p < end
  BY <1>3, <1>4, <1>5, <1>6, <1>7
<1>9. ASSUME o < Len(f)
      PROVE  Char = f[o + 1] /\ (Doubled <=> f[o + 1] = Quote)
  <2>1. PICK m : m = o + 1
    OBVIOUS
  <2>2. m \in 1..Len(f) /\ m - 1 = o /\ m \in Nat
    BY <1>5, <1>9, <2>1
  <2>3. m + q \in Place(f, m) /\ m + Count(f, Quote, m) \in Place(f, m)
    BY <1>1, <2>2 DEF Place
  <2>4. line[i + 1 + (m + q)] = f[m] /\ line[i + 1 + (m + Count(f, Quote, m))] = f[m]
    BY <1>1, <2>2, <2>3 DEF InQuoted, QuotedAt
  <2>5. i + 1 + (m + q) = p + 1
    BY <1>3, <1>5, <1>6, <1>7, <2>1
  <2>6. Char = f[m]
    BY <2>4, <2>5 DEF Char
  <2>7. CASE f[m] = Quote
    <3>1. Count(f, Quote, m) = q + 1
      BY <1>1, <1>5, <2>1, <2>7, CountStep
    <3>2. i + 1 + (m + (q + 1)) = p + 2
      BY <1>3, <1>5, <1>6, <1>7, <2>1
    <3>3. line[p + 2] = Quote
      BY <2>4, <2>7, <3>1, <3>2
    <3>4. q + 1 <= t
      BY <1>1, <1>5, <2>2, <3>1, CountGrows
    <3>5. p + 1 < end
      BY <1>3, <1>4, <1>5, <1>6, <1>7, <1>9, <3>4
    <3> QED BY <2>1, <2>6, <2>7, <3>3, <3>5 DEF Doubled
  <2>8. CASE f[m] # Quote
    BY <2>1, <2>6, <2>8 DEF Doubled
  <2> QED BY <2>1, <2>6, <2>7, <2>8
<1>10. ASSUME o = Len(f)
       PROVE  Char = Quote /\ ~Doubled /\ p + 1 = j
  <2>1. q = t
    BY <1>1, <1>10
  <2>2. p + 1 = j
    <3>1. j = i + o + q + 2 /\ p = i + 1 + o + q
      BY <1>7, <1>10, <2>1
    <3> QED BY <3>1, <1>3, <1>5, <1>6
  <2>3. Char = Quote
    BY <1>7, <2>2 DEF Char
  <2>4. ~Doubled
    <3> SUFFICES ASSUME p + 1 < end, line[p + 2] = Quote PROVE FALSE
      BY DEF Doubled
    <3>1. p + 2 = s[n + 2]
      BY <1>4, <2>2
    <3>2. n + 1 < Len(written)
      BY <1>2, <1>3, <1>4, <3>1
    <3> QED BY <1>3, <3>1, <3>2, CharAssumption
  <2> QED BY <2>2, <2>3, <2>4
<1> QED BY <1>1, <1>3, <1>4, <1>8, <1>9, <1>10

\* The steps in a quoted field.
LEMMA QuotedAligned ==
  ASSUME TypeOK, NEW s, Laid(line, written, s), Aligned(s), QuotedChar \/ EndQuoted
  PROVE  Aligned(s)'
<1>1. PICK n, f, i, j, o : /\ n = Len(fields) /\ f = written[n + 1]
                           /\ i = s[n + 1] /\ j = s[n + 2] - 1 /\ o = Len(out)
  OBVIOUS
<1>2. /\ n \in Nat /\ o \in Nat /\ p \in Nat /\ out \in Seq(Chars) /\ mode = "quoted"
      /\ line' = line /\ written' = written
  BY <1>1 DEF TypeOK, QuotedChar, EndQuoted
<1>3. /\ n < Len(written) /\ InQuoted(f, i, j)
      /\ \A k \in 1..n : fields[k] = written[k]
  BY <1>1, <1>2 DEF Aligned
<1>4. /\ p < end /\ end \in Nat /\ f \in Seq(Chars) /\ s[n + 2] \in Nat
      /\ o < Len(f) => Char = f[o + 1] /\ (Doubled <=> f[o + 1] = Quote)
      /\ o = Len(f) => Char = Quote /\ ~Doubled /\ p + 1 = j
  <2>1. InQuoted(f, s[n + 1], s[n + 2] - 1)
    BY <1>1, <1>3
  <2>2. n \in Nat /\ n < Len(written) /\ f = written[n + 1]
    BY <1>1, <1>2, <1>3
  <2>3. /\ p < end /\ end \in Nat /\ f \in Seq(Chars) /\ s[n + 2] \in Nat
        /\ Len(out) < Len(f) => Char = f[Len(out) + 1] /\ (Doubled <=> f[Len(out) + 1] = Quote)
        /\ Len(out) = Len(f) => Char = Quote /\ ~Doubled /\ p + 1 = s[n + 2] - 1
    BY <2>1, <2>2, SeenInQuotes
  <2> QED BY <2>3, <1>1
<1>5. /\ QuotedAt(line, f, i, j) /\ o <= Len(f) /\ p = i + 1 + o + Count(f, Quote, o)
      /\ \A m \in 1..o : out[m] = f[m]
  BY <1>1, <1>3 DEF InQuoted
<1>6. i \in Nat /\ n + 1 \in 1..Len(written) /\ (n + 1) + 1 = n + 2
  <2>1. n + 1 \in 1..Len(written) /\ (n + 1) + 1 = n + 2
    BY <1>2, <1>3 DEF TypeOK
  <2> QED BY <2>1, <1>1, FieldTypes
<1>7. Len(f) \in Nat /\ Count(f, Quote, o) \in Nat
  BY <1>2, <1>4, CountBounds
<1>8. CASE QuotedChar
  <2>1. /\ Char # Quote \/ Doubled
        /\ out' = Append(out, Char) /\ p' = p + (IF Doubled THEN 2 ELSE 1)
        /\ fields' = fields /\ mode' = mode
    BY <1>8 DEF QuotedChar
  <2>2. o < Len(f)
    BY <1>2, <1>4, <1>5, <1>7, <2>1
  <2>3. Len(out') = o + 1 /\ out'[o + 1] = f[o + 1] /\ \A m \in 1..o : out'[m] = out[m]
    BY <1>1, <1>2, <1>4, <2>1, <2>2
  <2>4. \A m \in 1..(o + 1) : m \in 1..o \/ m = o + 1
    BY <1>2
  <2>5. \A m \in 1..(o + 1) : out'[m] = f[m]
    BY <1>5, <2>3, <2>4
  <2>6. p' = i + 1 + (o + 1) + Count(f, Quote, o + 1)
    <3>1. PICK q, r : q \in Nat /\ q = Count(f, Quote, o) /\ r = Count(f, Quote, o + 1)
      BY <1>7
    <3>2. p = i + 1 + o + q
      BY <1>5, <3>1
    <3>3. (r = q + 1 /\ p' = p + 2) \/ (r = q /\ p' = p + 1)
      BY <1>2, <1>4, <2>1, <2>2, <3>1, CountStep
    <3>4. q \in Nat
      BY <3>1
    <3>5. p' = i + 1 + (o + 1) + r
      BY <1>2, <1>6, <3>2, <3>3, <3>4
    <3> QED BY <3>1, <3>5
  <2>7. o + 1 <= Len(f)
    BY <1>2, <1>7, <2>2
  <2>8. InQuoted(f, i, j)'
    BY <1>2, <1>5, <2>3, <2>5, <2>6, <2>7 DEF InQuoted
  <2> QED BY <1>1, <1>2, <1>3, <2>1, <2>8 DEF Aligned
<1>9. CASE EndQuoted
  <2>1. /\ Char = Quote /\ ~Doubled
        /\ fields' = Append(fields, out) /\ p' = p + 1 /\ mode' = "skip"
    BY <1>4, <1>9 DEF EndQuoted
  <2>2. o = Len(f) /\ p + 1 = j
    BY <1>2, <1>4, <1>5, <1>7, <2>1
  <2>3. /\ Len(fields') = n + 1 /\ n + 1 <= Len(written)
        /\ \A k \in 1..(n + 1) : fields'[k] = written[k]
    BY <1>1, <1>3, <1>5, <2>1, <2>2, WholeField
  <2>4. line[j] = Quote
    BY <1>5 DEF QuotedAt
  <2>5. n + 1 > 0 /\ p + 1 > 0 /\ p + 1 = s[(n + 1) + 1] - 1
    BY <1>1, <1>2, <1>6, <2>2
  <2> QED BY <1>2, <2>1, <2>2, <2>3, <2>4, <2>5 DEF Aligned
<1> QED BY <1>8, <1>9

\* The loops to the next tab.
LEMMA TabAligned ==
  ASSUME TypeOK, NEW s, Laid(line, written, s), Aligned(s), ToNextTab
  PROVE  Aligned(s)'
<1>1. PICK n, o : n = Len(fields) /\ o = Len(out)
  OBVIOUS
<1>2. /\ n \in Nat /\ o \in Nat /\ p \in Nat /\ end \in Nat /\ Len(written) \in Nat /\ out \in Seq(Chars)
  BY <1>1 DEF TypeOK, end
<1>3. /\ mode \in {"skip", "plain"} /\ p < end /\ Char # Tab /\ p' = p + 1
      /\ out' = IF mode = "plain" THEN Append(out, Char) ELSE out
      /\ fields' = fields /\ line' = line /\ written' = written /\ mode' = mode
  BY DEF ToNextTab
<1>4. n <= Len(written) /\ \A k \in 1..n : fields[k] = written[k]
  BY <1>1 DEF Aligned
<1>5. CASE mode = "skip"
  \* Behind a closing quote is a tab or nothing.
  <2>1. n > 0 /\ p = s[n + 1] - 1
    BY <1>1, <1>5 DEF Aligned
  <2>2. n \in 1..Len(written)
    BY <1>2, <1>4, <2>1
  <2>3. /\ s[n + 1] \in Nat
        /\ n < Len(written) => line[s[n + 1]] = Tab
        /\ n = Len(written) => s[n + 1] = end + 1
    BY <2>2, FieldTypes
  <2>4. s[n + 1] = p + 1
    BY <1>2, <2>1, <2>3
  <2> QED BY <1>2, <1>3, <1>4, <2>3, <2>4 DEF Char
<1>6. CASE mode = "plain"
  <2>1. PICK f, i, j : f = written[n + 1] /\ i = s[n + 1] /\ j = s[n + 2] - 1
    OBVIOUS
  <2>2. n < Len(written) /\ InPlain(f, i, j)
    BY <1>1, <1>6, <2>1 DEF Aligned
  <2>3. n + 1 \in 1..Len(written) /\ (n + 1) + 1 = n + 2
    BY <1>2, <2>2
  <2>4. /\ i \in Nat /\ s[n + 2] \in Nat /\ f \in Seq(Chars) /\ Len(f) \in Nat
        /\ n + 1 < Len(written) => line[s[n + 2]] = Tab
        /\ n + 1 = Len(written) => s[n + 2] = end + 1
    BY <2>1, <2>3, FieldTypes
  <2>5. /\ j = i + Len(f) /\ p = i + o /\ o <= Len(f) /\ \A m \in 1..o : out[m] = f[m]
        /\ \A m \in 1..Len(f) : line[i + m] = f[m]
    BY <1>1, <2>2 DEF InPlain, PlainAt
  <2>6. o < Len(f)
    <3> SUFFICES ASSUME o = Len(f) PROVE FALSE
      BY <1>2, <2>4, <2>5
    <3>1. s[n + 2] = p + 1
      <4>1. s[n + 2] = j + 1
        BY <2>1, <2>4
      <4> QED BY <4>1, <1>2, <2>4, <2>5
    <3>2. CASE n + 1 < Len(written)
      BY <3>1, <3>2, <1>3, <2>4 DEF Char
    <3>3. CASE n + 1 = Len(written)
      BY <3>1, <3>3, <1>2, <1>3, <2>4
    <3> QED BY <3>2, <3>3, <1>2, <2>3
  <2>7. o + 1 \in 1..Len(f) /\ i + (o + 1) = p + 1
    BY <1>2, <2>4, <2>5, <2>6
  <2>8. Char = f[o + 1]
    BY <2>5, <2>7 DEF Char
  <2>9. Len(out') = o + 1 /\ out'[o + 1] = f[o + 1] /\ \A m \in 1..o : out'[m] = out[m]
    BY <1>1, <1>2, <1>3, <1>6, <2>4, <2>7, <2>8
  <2>10. \A m \in 1..(o + 1) : m \in 1..o \/ m = o + 1
    BY <1>2
  <2>11. \A m \in 1..(o + 1) : out'[m] = f[m]
    BY <2>5, <2>9, <2>10
  <2>12. InPlain(f, i, j)'
    BY <1>3, <2>2, <2>7, <2>9, <2>11 DEF InPlain, end
  <2> QED BY <1>1, <1>3, <1>4, <1>6, <2>1, <2>2, <2>12 DEF Aligned
<1> QED BY <1>3, <1>5, <1>6

\* The end of a field at a tab or at the end of the line.
LEMMA EndAligned ==
  ASSUME TypeOK, NEW s, Laid(line, written, s), Aligned(s), EndField
  PROVE  Aligned(s)'
<1>1. PICK n, o : n = Len(fields) /\ o = Len(out)
  OBVIOUS
<1>2. /\ n \in Nat /\ o \in Nat /\ p \in Nat /\ p <= end /\ end \in Nat /\ end = Len(line)
      /\ Len(written) \in Nat
  BY <1>1 DEF TypeOK, end
<1>3. /\ mode \in {"skip", "plain"} /\ (p < end => Char = Tab)
      /\ fields' = IF mode = "plain" THEN Append(fields, out) ELSE fields
      /\ p' = (IF p < end THEN p + 1 ELSE p) /\ mode' = "next"
      /\ line' = line /\ written' = written /\ out' = out
  BY DEF EndField
<1>4. n <= Len(written) /\ \A k \in 1..n : fields[k] = written[k]
  BY <1>1 DEF Aligned
\* The fields are those written, and the next starts behind the tab.
<1>5. ASSUME NEW h \in 1..Len(written), Len(fields') = h, p = s[h + 1] - 1,
             \A k \in 1..h : fields'[k] = written[k], p > 0, line[p] # Tab
      PROVE  Aligned(s)'
  <2>1. /\ s[h + 1] \in Nat
        /\ h < Len(written) => s[h + 1] <= end
        /\ h = Len(written) => s[h + 1] = end + 1
    BY FieldTypes
  <2>2. s[h + 1] = p + 1 /\ h \in Nat
    BY <1>2, <1>5, <2>1
  <2>3. h < Len(written) => p' = s[h + 1]
    BY <1>2, <1>3, <2>1, <2>2
  <2>4. h = Len(written) => p = end /\ p' = end
    BY <1>2, <1>3, <2>1, <2>2
  <2>5. p = end => line # <<>> /\ line[end] # Tab
    BY <1>2, <1>5
  <2>6. end' = end
    BY <1>3 DEF end
  <2>7. h <= Len(written) /\ (h < Len(written) \/ h = Len(written)) /\ ~(h < Len(written) /\ h = Len(written))
    BY <1>2
  <2> QED BY <1>3, <1>5, <2>3, <2>4, <2>5, <2>6, <2>7 DEF Aligned
<1>6. CASE mode = "skip"
  <2>1. n > 0 /\ p > 0 /\ p = s[n + 1] - 1 /\ line[p] = Quote /\ fields' = fields
    BY <1>1, <1>3, <1>6 DEF Aligned
  <2>2. n \in 1..Len(written)
    BY <1>2, <1>4, <2>1
  <2> QED BY <1>1, <1>4, <1>5, <2>1, <2>2, CharAssumption
<1>7. CASE mode = "plain"
  <2>1. PICK f, i, j : f = written[n + 1] /\ i = s[n + 1] /\ j = s[n + 2] - 1
    OBVIOUS
  <2>2. n < Len(written) /\ InPlain(f, i, j) /\ fields' = Append(fields, out)
    BY <1>1, <1>3, <1>7, <2>1 DEF Aligned
  <2>3. n + 1 \in 1..Len(written) /\ (n + 1) + 1 = n + 2
    BY <1>2, <2>2
  <2>4. /\ i \in Nat /\ s[n + 2] \in Nat /\ s[n + 2] <= end + 1 /\ f \in Seq(Chars) /\ Len(f) \in Nat
        /\ n + 1 < Len(written) => s[n + 2] <= end /\ line[s[n + 2]] = Tab
    BY <2>1, <2>3, FieldTypes
  <2>5. /\ j = i + Len(f) /\ p = i + o /\ o <= Len(f) /\ \A m \in 1..o : out[m] = f[m]
        /\ \A m \in 1..Len(f) : line[i + m] = f[m] /\ f[m] # Tab
        /\ i < end
    BY <1>1, <2>2 DEF InPlain, PlainAt
  <2>6. o = Len(f)
    <3> SUFFICES ASSUME o < Len(f) PROVE FALSE
      BY <1>2, <2>4, <2>5
    <3>1. o + 1 \in 1..Len(f) /\ i + (o + 1) = p + 1
      BY <1>2, <2>4, <2>5
    <3>2. line[p + 1] # Tab
      BY <2>5, <3>1
    <3>3. p < end
      <4>1. s[n + 2] = j + 1
        BY <2>1, <2>4
      <4> QED BY <4>1, <1>2, <2>4, <2>5
    <3> QED BY <1>3, <3>2, <3>3 DEF Char
  <2>7. /\ Len(fields') = n + 1 /\ \A k \in 1..(n + 1) : fields'[k] = written[k]
    BY <1>1, <1>4, <2>1, <2>2, <2>5, <2>6, WholeField
  <2>8. p = s[n + 2] - 1
    BY <2>1, <2>5, <2>6
  <2>9. CASE o = 0
    \* Nothing was read, so the field is not the last.
    <3>1. p = i /\ p < end /\ s[n + 2] = p + 1
      BY <1>2, <2>4, <2>5, <2>8, <2>9
    <3>2. n + 1 < Len(written)
      <4> SUFFICES ASSUME n + 1 = Len(written) PROVE FALSE
        BY <1>2, <2>3
      <4>1. s[n + 2] = end + 1
        BY <2>3, FieldTypes
      <4> QED BY <3>1, <4>1, <1>2
    <3>3. p' = s[n + 2]
      BY <1>3, <3>1
    <3> QED BY <1>2, <1>3, <2>3, <2>7, <3>2, <3>3 DEF Aligned
  <2>10. CASE o > 0
    <3>1. p > 0 /\ o \in 1..Len(f)
      BY <1>2, <2>4, <2>5, <2>6, <2>10
    <3>2. line[p] # Tab
      BY <2>5, <3>1
    <3> QED BY <1>5, <2>3, <2>7, <2>8, <3>1, <3>2
  <2> QED BY <1>2, <2>9, <2>10
<1> QED BY <1>3, <1>6, <1>7

\* The call of the splitter finds the pointer at the first field.
LEMMA CallAligned ==
  ASSUME TypeOK, Unread, NEW s, Laid(line, written, s), EndLine
  PROVE  Aligned(s)'
<1>1. /\ mode = "write" /\ written # <<>> /\ mode' = "next"
      /\ line' = line /\ written' = written /\ p' = p /\ fields' = fields
  BY DEF EndLine
<1>2. p = 0 /\ fields = <<>> /\ Len(fields) = 0
  BY <1>1 DEF Unread
<1>3. Len(written) \in Nat /\ Len(written) > 0
  BY <1>1 DEF TypeOK
<1>4. s[0 + 1] = 0
  BY DEF Laid
<1> QED BY <1>1, <1>2, <1>3, <1>4 DEF Aligned

\* Each step of the writer and of the splitter keeps the fields aligned.
LEMMA RoundStep ==
  ASSUME TypeOK, Unread, RoundInv, [Next]_vars
  PROVE  RoundInv'
<1>1. CASE WriteField
  <2>1. PICK f \in Seq(Chars) : \E e \in Encodings(f) :
          /\ e \in Seq(Chars) /\ written' = Append(written, f)
          /\ line' = IF written = <<>> THEN e ELSE line \o <<Tab>> \o e
    BY <1>1, WriteTypes, Zenon
  <2>2. PICK e \in Encodings(f) :
          /\ e \in Seq(Chars) /\ written' = Append(written, f)
          /\ line' = IF written = <<>> THEN e ELSE line \o <<Tab>> \o e
    BY <2>1
  <2>3. mode = "write" /\ mode' = "write"
    BY <1>1 DEF WriteField
  <2>4. CASE written = <<>>
    <3>1. written' = <<f>> /\ line' = e
      BY <2>2, <2>4
    <3>2. \E s : Laid(e, <<f>>, s)
      BY <2>2, FirstField
    <3> QED BY <2>3, <3>1, <3>2 DEF RoundInv
  <2>5. CASE written # <<>>
    <3>1. PICK s : Laid(line, written, s)
      BY <2>3, <2>5 DEF RoundInv
    <3>2. \E t : Laid(line \o <<Tab>> \o e, Append(written, f), t)
      BY <2>2, <3>1, NextField DEF TypeOK
    <3> QED BY <2>2, <2>3, <2>5, <3>2 DEF RoundInv
  <2> QED BY <2>4, <2>5
<1>2. CASE EndLine
  <2>1. mode = "write" /\ written # <<>> /\ mode' = "next" /\ line' = line /\ written' = written
    BY <1>2 DEF EndLine
  <2>2. PICK s : Laid(line, written, s)
    BY <2>1 DEF RoundInv
  <2>3. Aligned(s)'
    BY <1>2, <2>2, CallAligned
  <2> QED BY <2>1, <2>2, <2>3 DEF RoundInv
<1>3. CASE Split
  <2>1. /\ line' = line /\ written' = written /\ mode # "write" /\ mode # "done"
        /\ mode' \in {"next", "quoted", "skip", "plain", "done"}
        /\ mode' = "done" => TrailingField
    BY <1>3 DEF Split, TrailingField, StartQuoted, StartPlain, QuotedChar, EndQuoted, ToNextTab,
                EndField
  <2>2. CASE written = <<>>
    BY <2>1, <2>2 DEF RoundInv
  <2>3. CASE written # <<>>
    <3>1. PICK s : Laid(line, written, s) /\ Aligned(s)
      BY <2>1, <2>3 DEF RoundInv
    <3>2. CASE TrailingField
      <4>1. RoundTrip' /\ mode' = "done"
        BY <2>3, <3>1, <3>2, TrailingAligned DEF TrailingField
      <4> QED BY <4>1 DEF RoundInv
    <3>3. CASE ~TrailingField
      <4>1. Aligned(s)'
        BY <1>3, <3>1, <3>3, StartAligned, QuotedAligned, TabAligned, EndAligned DEF Split
      <4>2. Laid(line', written', s)
        BY <2>1, <3>1
      <4> QED BY <2>1, <3>3, <4>1, <4>2 DEF RoundInv
    <3> QED BY <3>2, <3>3
  <2> QED BY <2>2, <2>3
<1>4. CASE UNCHANGED vars
  <2>1. /\ line' = line /\ written' = written /\ p' = p /\ fields' = fields /\ out' = out
        /\ mode' = mode
    BY <1>4 DEF vars
  <2>2. RoundTrip => RoundTrip'
    BY <2>1 DEF RoundTrip
  <2>3. \A s : Aligned(s) => Aligned(s)'
    BY <2>1 DEF Aligned, InPlain, InQuoted, end
  <2> QED BY <2>1, <2>2, <2>3 DEF RoundInv
<1> QED BY <1>1, <1>2, <1>3, <1>4 DEF Next, Returned

\* What a writer that follows the rules of the comment at loader.cpp:60-66 encodes,
\* tabs and quotes included, SplitTsvLine reads back, with the additional empty field.
THEOREM RoundTripCorrect == Spec => []RoundTrip
<1>1. Init => RoundInv
  BY DEF Init, RoundInv
<1>2. TypeOK /\ RoundInv => RoundTrip
  BY DEF RoundInv, RoundTrip
<1> QED BY <1>1, <1>2, RoundStep, TypeInvariant, PTL DEF Spec

-----------------------------------------------------------------------------
\* A line without quotes.

\* The tab that is the k-th is found as that.
LEMMA TabFound ==
  ASSUME NEW l \in Seq(Chars), NEW q \in 1..Len(l), l[q] = Tab
  PROVE  /\ Count(l, Tab, q) \in 1..Count(l, Tab, Len(l))
         /\ TabAt(l, Count(l, Tab, q)) = q
<1>1. PICK k, o : k = Count(l, Tab, q) /\ o = Count(l, Tab, Len(l))
  OBVIOUS
<1>2. Len(l) \in Nat /\ q \in Nat /\ q <= Len(l) /\ DOMAIN l = 1..Len(l)
  OBVIOUS
<1>3. k \in Nat /\ o \in Nat /\ k <= o
  BY <1>1, <1>2, CountBounds, CountGrows
\* The tab itself counts.
<1>4. ASSUME NEW n \in 1..Len(l), l[n] = Tab
      PROVE  Count(l, Tab, n) = Count(l, Tab, n - 1) + 1 /\ n - 1 \in Nat
  <2>1. n - 1 \in Nat /\ n = (n - 1) + 1
    BY <1>2
  <2> QED BY <1>4, <2>1, CountStep
<1>5. k > 0
  <2>1. k = Count(l, Tab, q - 1) + 1 /\ q - 1 \in Nat
    BY <1>1, <1>4
  <2>2. Count(l, Tab, q - 1) \in Nat
    BY <2>1, CountBounds
  <2> QED BY <2>1, <2>2
\* Of two tabs the later has the higher count.
<1>6. ASSUME NEW m \in 1..Len(l), NEW n \in 1..Len(l), m < n, l[n] = Tab
      PROVE  Count(l, Tab, m) < Count(l, Tab, n)
  <2>1. Count(l, Tab, n) = Count(l, Tab, n - 1) + 1 /\ n - 1 \in Nat
    BY <1>4, <1>6
  <2>2. m \in Nat /\ m <= n - 1
    BY <1>2, <1>6
  <2>3. Count(l, Tab, m) <= Count(l, Tab, n - 1)
    BY <2>1, <2>2, CountGrows
  <2>4. Count(l, Tab, m) \in Nat /\ Count(l, Tab, n - 1) \in Nat
    BY <2>1, <2>2, CountBounds
  <2> QED BY <2>1, <2>3, <2>4
<1>7. ASSUME NEW n \in 1..Len(l), l[n] = Tab, Count(l, Tab, n) = k
      PROVE  n = q
  <2>1. CASE n < q
    BY <2>1, <1>1, <1>3, <1>6, <1>7
  <2>2. CASE q < n
    BY <2>2, <1>1, <1>3, <1>6, <1>7
  <2> QED BY <2>1, <2>2, <1>2
<1>8. (CHOOSE n \in DOMAIN l : l[n] = Tab /\ Count(l, Tab, n) = k) = q
  <2>1. \E n \in DOMAIN l : l[n] = Tab /\ Count(l, Tab, n) = k
    BY <1>1, <1>2
  <2>2. \A n \in DOMAIN l : l[n] = Tab /\ Count(l, Tab, n) = k => n = q
    BY <1>2, <1>7
  <2> QED BY <2>1, <2>2, Zenon
<1>9. TabAt(l, k) = q
  <2>1. k # 0 /\ ~(k > Count(l, Tab, Len(l)))
    BY <1>1, <1>3, <1>5
  <2> QED BY <2>1, <1>8 DEF TabAt
<1> QED BY <1>1, <1>3, <1>5, <1>9

\* What lies between two tabs, or a tab and an end of the line, is a piece.
LEMMA PieceIs ==
  ASSUME NEW l \in Seq(Chars), NEW q \in Nat, NEW r \in Nat, q <= r, r <= Len(l),
         q = 0 \/ l[q] = Tab, \A m \in (q + 1)..r : l[m] # Tab, r < Len(l) => l[r + 1] = Tab
  PROVE  /\ Count(l, Tab, q) + 1 \in 1..(Count(l, Tab, Len(l)) + 1)
         /\ r = Len(l) => Count(l, Tab, Len(l)) = Count(l, Tab, q)
         /\ Pieces(l)[Count(l, Tab, q) + 1] = SubSeq(l, q + 1, r)
<1>1. PICK k, o : k = Count(l, Tab, q) /\ o = Count(l, Tab, Len(l))
  OBVIOUS
<1>2. Len(l) \in Nat /\ k \in Nat /\ o \in Nat /\ k <= o
  <2>1. Len(l) \in Nat /\ q <= Len(l)
    OBVIOUS
  <2> QED BY <1>1, <2>1, CountBounds, CountGrows
<1>3. Count(l, Tab, r) = k
  BY <1>1, CountSame
<1>4. TabAt(l, k) = q
  <2>1. CASE q = 0
    BY <2>1, <1>1, CountNone DEF TabAt
  <2>2. CASE q # 0
    <3>1. q \in 1..Len(l) /\ l[q] = Tab
      BY <2>2, <1>2
    <3> QED BY <3>1, <1>1, TabFound
  <2> QED BY <2>1, <2>2
<1>5. TabAt(l, k + 1) = r + 1
  <2>1. CASE r < Len(l)
    <3>1. r + 1 \in 1..Len(l) /\ l[r + 1] = Tab
      BY <2>1, <1>2
    <3>2. Count(l, Tab, r + 1) = k + 1
      BY <1>3, <3>1, CountStep
    <3> QED BY <3>1, <3>2, TabFound
  <2>2. CASE r = Len(l)
    <3>1. o = k
      BY <2>2, <1>1, <1>3
    <3>2. k + 1 # 0 /\ k + 1 > Count(l, Tab, Len(l))
      BY <3>1, <1>1, <1>2
    <3> QED BY <2>2, <3>2 DEF TabAt
  <2> QED BY <2>1, <2>2, <1>2
<1>6. k + 1 \in 1..(o + 1) /\ (k + 1) - 1 = k /\ (r + 1) - 1 = r
  BY <1>2
<1>7. Pieces(l)[k + 1] = SubSeq(l, TabAt(l, (k + 1) - 1) + 1, TabAt(l, k + 1) - 1)
  BY <1>1, <1>6 DEF Pieces
<1>8. Pieces(l)[k + 1] = SubSeq(l, q + 1, r)
  BY <1>4, <1>5, <1>6, <1>7
<1> QED BY <1>1, <1>3, <1>6, <1>8

\* A list with as many members as there are pieces, each the piece, is the list of them.
LEMMA AllPieces ==
  ASSUME NEW l \in Seq(Chars), NEW g \in Seq(Seq(Chars)),
         Len(g) = Count(l, Tab, Len(l)) + 1, \A k \in 1..Len(g) : g[k] = Pieces(l)[k]
  PROVE  g = Pieces(l)
<1>1. g = [k \in 1..Len(g) |-> g[k]]
  OBVIOUS
<1>2. Pieces(l) = [k \in 1..Len(g) |-> Pieces(l)[k]]
  BY DEF Pieces
<1> QED BY <1>1, <1>2, Zenon

\* The fields are the first pieces; the pointer is at the start of the next, or at the
\* end of a line whose last piece has been read; or in a piece that starts behind q.
CutInv ==
  Quote \notin Range(line) /\ mode # "write" =>
    /\ mode \in {"next", "plain", "done"}
    /\ mode # "done" => \A k \in 1..Len(fields) : fields[k] = Pieces(line)[k]
    /\ mode = "next" =>
         \/ (p = 0 \/ line[p] = Tab) /\ Len(fields) = Count(line, Tab, p)
         \/ /\ p = end /\ p > 0 /\ line[p] # Tab
            /\ Len(fields) = Count(line, Tab, Len(line)) + 1
    /\ mode = "plain" =>
         \E q \in 0..p :
           /\ q < end /\ (q = 0 \/ line[q] = Tab) /\ Len(fields) = Count(line, Tab, q)
           /\ \A m \in (q + 1)..p : line[m] # Tab
           /\ Len(out) = p - q /\ \A m \in 1..Len(out) : out[m] = line[q + m]
    /\ mode = "done" => PlainSplit

\* The end of a line without quotes: the last piece is empty and is read now, or has
\* been read, and then the empty field is one more.
LEMMA CutTrailing ==
  ASSUME TypeOK, CutInv, Quote \notin Range(line), TrailingField
  PROVE  PlainSplit'
<1>1. PICK n, o, d : n = Len(fields) /\ o = Len(line) /\ d = Count(line, Tab, o)
  OBVIOUS
<1>2. /\ n \in Nat /\ o \in Nat /\ fields \in Seq(Seq(Chars)) /\ line \in Seq(Chars) /\ p = o
      /\ fields' = Append(fields, <<>>) /\ line' = line /\ mode = "next"
  BY <1>1 DEF TypeOK, TrailingField, end
<1>3. d \in Nat
  BY <1>1, <1>2, CountBounds
<1>4. \A k \in 1..n : fields[k] = Pieces(line)[k]
  BY <1>1, <1>2 DEF CutInv
<1>5. \/ (o = 0 \/ line[o] = Tab) /\ n = d
      \/ o > 0 /\ line[o] # Tab /\ n = d + 1
  BY <1>1, <1>2 DEF CutInv
<1>6. CASE (o = 0 \/ line[o] = Tab) /\ n = d
  <2>1. Pieces(line)[d + 1] = SubSeq(line, o + 1, o)
    <3>1. \A m \in (o + 1)..o : line[m] # Tab
      BY <1>2
    <3>2. o <= o /\ o <= Len(line) /\ ~(o < Len(line))
      BY <1>1, <1>2
    <3> QED BY <3>1, <3>2, <1>1, <1>2, <1>6, PieceIs
  <2>2. SubSeq(line, o + 1, o) = <<>>
    BY <1>1, <1>2
  <2>3. Len(fields') = d + 1 /\ fields'[d + 1] = <<>> /\ \A k \in 1..n : fields'[k] = fields[k]
    <3>1. Len(fields') = n + 1 /\ fields'[n + 1] = <<>> /\ \A k \in 1..n : fields'[k] = fields[k]
      BY <1>1, <1>2
    <3> QED BY <3>1, <1>6
  <2>4. fields' \in Seq(Seq(Chars))
    BY <1>2
  <2>5. \A k \in 1..(d + 1) : k \in 1..n \/ k = d + 1
    BY <1>3, <1>6
  <2>6. \A k \in 1..(d + 1) : fields'[k] = Pieces(line)[k]
    BY <1>4, <2>1, <2>2, <2>3, <2>5
  <2>7. fields' = Pieces(line)
    BY <1>1, <1>2, <2>3, <2>4, <2>6, AllPieces
  <2>8. Phantom(line) = <<>>
    <3>1. line = <<>> \/ line[Len(line)] = Tab
      BY <1>1, <1>2, <1>6
    <3> QED BY <3>1 DEF Phantom, Last
  <2>9. fields' \o <<>> = fields'
    BY <2>4
  <2> QED BY <1>2, <2>7, <2>8, <2>9 DEF PlainSplit
<1>7. CASE o > 0 /\ line[o] # Tab /\ n = d + 1
  <2>1. fields = Pieces(line)
    BY <1>1, <1>2, <1>4, <1>7, AllPieces
  <2>2. Phantom(line) = << <<>> >>
    BY <1>1, <1>2, <1>7 DEF Phantom, Last
  <2>3. fields' = fields \o << <<>> >>
    BY <1>2, AppendIsConcat
  <2> QED BY <1>2, <2>1, <2>2, <2>3 DEF PlainSplit
<1> QED BY <1>5, <1>6, <1>7

\* The end of a piece.
LEMMA CutEnd ==
  ASSUME TypeOK, CutInv, Quote \notin Range(line), EndField
  PROVE  CutInv'
<1>1. PICK n, o, d : n = Len(fields) /\ o = Len(line) /\ d = Count(line, Tab, o)
  OBVIOUS
<1>2. /\ n \in Nat /\ o \in Nat /\ end = o /\ fields \in Seq(Seq(Chars)) /\ line \in Seq(Chars)
      /\ out \in Seq(Chars) /\ p \in Nat /\ p <= o
  BY <1>1 DEF TypeOK, end
<1>3. /\ mode \in {"skip", "plain"} /\ (p < o => Char = Tab)
      /\ fields' = IF mode = "plain" THEN Append(fields, out) ELSE fields
      /\ p' = (IF p < o THEN p + 1 ELSE p) /\ mode' = "next"
      /\ line' = line
  BY <1>2 DEF EndField
<1>4. mode = "plain" /\ \A k \in 1..n : fields[k] = Pieces(line)[k]
  BY <1>1, <1>3 DEF CutInv
<1>5. PICK q \in 0..p :
        /\ q < o /\ (q = 0 \/ line[q] = Tab) /\ n = Count(line, Tab, q)
        /\ \A m \in (q + 1)..p : line[m] # Tab
        /\ Len(out) = p - q /\ \A m \in 1..Len(out) : out[m] = line[q + m]
  BY <1>1, <1>2, <1>4 DEF CutInv
<1>6. q \in Nat /\ q <= p
  BY <1>2
<1>7. p < Len(line) => line[p + 1] = Tab
  BY <1>1, <1>3 DEF Char
<1>8. /\ p = o => d = n
      /\ Pieces(line)[n + 1] = SubSeq(line, q + 1, p)
  <2>1. /\ line \in Seq(Chars) /\ q \in Nat /\ p \in Nat /\ q <= p /\ p <= Len(line)
        /\ q = 0 \/ line[q] = Tab
        /\ \A m \in (q + 1)..p : line[m] # Tab
        /\ p < Len(line) => line[p + 1] = Tab
    BY <1>1, <1>2, <1>5, <1>6, <1>7
  <2>2. /\ p = Len(line) => Count(line, Tab, Len(line)) = Count(line, Tab, q)
        /\ Pieces(line)[Count(line, Tab, q) + 1] = SubSeq(line, q + 1, p)
    BY <2>1, PieceIs
  <2> QED BY <2>2, <1>1, <1>5
<1>9. out = SubSeq(line, q + 1, p)
  <2>1. PICK t : t = SubSeq(line, q + 1, p)
    OBVIOUS
  <2>2. t \in Seq(Chars) /\ Len(t) = p - q /\ \A m \in 1..(p - q) : t[m] = line[q + m]
    BY <2>1, <1>1, <1>2, <1>6
  <2>3. Len(out) = Len(t) /\ \A m \in 1..Len(out) : out[m] = t[m]
    BY <2>2, <1>5
  <2>4. out = t
    BY <2>2, <2>3, <1>2, SeqEqual
  <2> QED BY <2>1, <2>4
<1>10. Len(fields') = n + 1 /\ \A k \in 1..(n + 1) : fields'[k] = Pieces(line)[k]
  <2>1. \A k \in 1..(n + 1) : k \in 1..n \/ k = n + 1
    BY <1>2
  <2>2. fields' = Append(fields, out)
    BY <1>3, <1>4
  <2>3. Len(fields') = n + 1 /\ fields'[n + 1] = out /\ \A k \in 1..n : fields'[k] = fields[k]
    BY <2>2, <1>1, <1>2
  <2> QED BY <2>1, <2>3, <1>4, <1>8, <1>9
<1>11. CASE p < o
  <2>1. p' = p + 1 /\ line[p + 1] = Tab
    BY <1>1, <1>3, <1>7, <1>11
  <2>2. Count(line, Tab, p) = n
    BY <1>2, <1>5, <1>6, CountSame
  <2>3. Count(line, Tab, p + 1) = n + 1
    BY <1>2, <2>1, <2>2, CountStep
  <2>4. Len(fields') = Count(line, Tab, p + 1)
    BY <1>10, <2>3
  <2>5. \A k \in 1..Len(fields') : fields'[k] = Pieces(line)[k]
    BY <1>10
  <2> QED BY <1>3, <2>1, <2>4, <2>5 DEF CutInv
<1>12. CASE p = o
  <2>1. p' = p /\ p > 0 /\ line[p] # Tab
    <3>1. p \in (q + 1)..p
      BY <1>2, <1>5, <1>6, <1>12
    <3>2. line[p] # Tab
      BY <3>1, <1>5
    <3>3. p > 0
      BY <1>2, <1>5, <1>6, <1>12
    <3>4. p' = p
      BY <1>2, <1>3, <1>12
    <3> QED BY <3>2, <3>3, <3>4
  <2>2. end' = p /\ n + 1 = Count(line, Tab, Len(line)) + 1
    BY <1>1, <1>3, <1>8, <1>12 DEF end
  <2> QED BY <1>3, <1>10, <2>1, <2>2 DEF CutInv
<1> QED BY <1>2, <1>11, <1>12

\* A step over a character of a piece.
LEMMA CutChar ==
  ASSUME TypeOK, CutInv, Quote \notin Range(line), ToNextTab
  PROVE  CutInv'
<1>1. /\ end = Len(line) /\ Len(line) \in Nat /\ p \in Nat /\ out \in Seq(Chars) /\ line \in Seq(Chars)
  BY DEF TypeOK, end
<1>2. /\ mode \in {"skip", "plain"} /\ p < end /\ Char # Tab /\ p' = p + 1
      /\ out' = IF mode = "plain" THEN Append(out, Char) ELSE out
      /\ fields' = fields /\ line' = line /\ mode' = mode
  BY DEF ToNextTab
<1>3. mode = "plain" /\ \A k \in 1..Len(fields) : fields[k] = Pieces(line)[k]
  BY <1>2 DEF CutInv
<1>4. PICK q \in 0..p :
        /\ q < end /\ (q = 0 \/ line[q] = Tab) /\ Len(fields) = Count(line, Tab, q)
        /\ \A m \in (q + 1)..p : line[m] # Tab
        /\ Len(out) = p - q /\ \A m \in 1..Len(out) : out[m] = line[q + m]
  BY <1>2, <1>3 DEF CutInv
<1>5. q \in 0..(p + 1) /\ q \in Nat
  BY <1>1
<1>6. \A m \in (q + 1)..(p + 1) : line[m] # Tab
  <2>1. \A m \in (q + 1)..(p + 1) : m \in (q + 1)..p \/ m = p + 1
    BY <1>1, <1>5
  <2> QED BY <2>1, <1>2, <1>4 DEF Char
<1>7. Len(out') = (p + 1) - q /\ \A m \in 1..Len(out') : out'[m] = line[q + m]
  <2>1. PICK h \in Nat : h = p - q
    BY <1>1, <1>4
  <2>2. out' = Append(out, Char) /\ Char = line[q + (h + 1)] /\ h + 1 = (p + 1) - q /\ Len(out) = h
    BY <2>1, <1>1, <1>2, <1>3, <1>4, <1>5 DEF Char
  <2>3. Len(out') = h + 1 /\ out'[h + 1] = Char /\ \A m \in 1..h : out'[m] = out[m]
    BY <1>1, <2>2
  <2>4. \A m \in 1..(h + 1) : m \in 1..h \/ m = h + 1
    BY <2>1
  <2> QED BY <2>2, <2>3, <2>4, <1>4
<1>8. end' = end
  BY <1>2 DEF end
<1>9. \E r \in 0..p' :
        /\ r < end' /\ (r = 0 \/ line'[r] = Tab) /\ Len(fields') = Count(line', Tab, r)
        /\ \A m \in (r + 1)..p' : line'[m] # Tab
        /\ Len(out') = p' - r /\ \A m \in 1..Len(out') : out'[m] = line'[r + m]
  BY <1>2, <1>4, <1>5, <1>6, <1>7, <1>8
<1> QED BY <1>2, <1>3, <1>9 DEF CutInv

\* Each step keeps the fields the first pieces; without quotes none takes the quoted loop.
LEMMA CutStep ==
  ASSUME TypeOK, Unread, CutInv, [Next]_vars
  PROVE  CutInv'
<1> SUFFICES ASSUME Quote \notin Range(line'), mode' # "write"
             PROVE  CutInv'
  BY DEF CutInv
<1>1. CASE EndLine
  <2>1. p' = 0 /\ fields' = <<>> /\ mode' = "next"
    BY <1>1 DEF EndLine, Unread
  <2>2. Len(fields') = 0 /\ Count(line', Tab, 0) = 0
    BY <2>1, CountNone
  <2> QED BY <2>1, <2>2 DEF CutInv
<1>2. CASE WriteField
  BY <1>2 DEF WriteField
<1>3. CASE Split
  <2>1. line' = line /\ mode # "write" /\ Quote \notin Range(line)
    BY <1>3 DEF Split, TrailingField, StartQuoted, StartPlain, QuotedChar, EndQuoted, ToNextTab,
                EndField
  <2>2. /\ mode \in {"next", "plain", "done"}
        /\ \A n \in 1..Len(line) : line[n] # Quote
        /\ p \in Nat /\ Len(line) \in Nat
    BY <2>1 DEF CutInv, TypeOK, Range, end
  <2>3. p < end => Char # Quote
    <3> SUFFICES ASSUME p < end PROVE Char # Quote
      OBVIOUS
    <3>1. p + 1 \in 1..Len(line)
      BY <2>2 DEF end
    <3> QED BY <3>1, <2>2 DEF Char
  <2>4. ~StartQuoted /\ ~QuotedChar /\ ~EndQuoted
    BY <2>2, <2>3 DEF StartQuoted, QuotedChar, EndQuoted
  <2>5. CASE TrailingField
    <3>1. PlainSplit' /\ mode' = "done"
      BY <2>1, <2>5, CutTrailing DEF TrailingField
    <3> QED BY <3>1 DEF CutInv
  <2>6. CASE StartPlain
    <3>1. /\ mode = "next" /\ p < end /\ out' = <<>> /\ mode' = "plain"
          /\ p' = p /\ fields' = fields /\ line' = line
      BY <2>6 DEF StartPlain
    <3>2. /\ p = 0 \/ line[p] = Tab
          /\ Len(fields) = Count(line, Tab, p)
          /\ \A k \in 1..Len(fields) : fields[k] = Pieces(line)[k]
      BY <2>1, <2>2, <3>1 DEF CutInv, end
    <3>3. /\ Len(<<>>) = p - p /\ p \in 0..p
          /\ \A m \in 1..Len(<<>>) : <<>>[m] = line[p + m]
          /\ \A m \in (p + 1)..p : line[m] # Tab
      BY <2>2
    <3>4. end' = end
      BY <3>1 DEF end
    <3> QED BY <3>1, <3>2, <3>3, <3>4 DEF CutInv
  <2> QED BY <1>3, <2>1, <2>4, <2>5, <2>6, CutEnd, CutChar DEF Split
<1>4. CASE UNCHANGED vars
  BY <1>4 DEF vars, CutInv, PlainSplit, end
<1> QED BY <1>1, <1>2, <1>3, <1>4 DEF Next, Returned

\* A line without quotes is cut at its tabs, and gets an additional empty field unless it
\* ends in one (loader.cpp:69-115); what Loader counts rests on this.
THEOREM PlainSplitCorrect == Spec => []PlainSplit
<1>1. Init => CutInv
  <2>1. Count(line, Tab, 0) = 0 /\ Len(<<>>) = 0
    BY CountNone
  <2> QED BY <2>1 DEF Init, CutInv
<1>2. TypeOK /\ CutInv => PlainSplit
  BY DEF CutInv, PlainSplit
<1> QED BY <1>1, <1>2, CutStep, TypeInvariant, PTL DEF Spec

-----------------------------------------------------------------------------
\* What the rest of the program rests on.

\* The fields a row comes to, as Loader counts them: one more than it has, unless it
\* ends in a tab.  Without quotes it has one more than tabs; else those written.
FieldsCounted ==
  mode = "done" /\ line # <<>> =>
    /\ Quote \notin Range(line) =>
         Len(fields) = Count(line, Tab, Len(line)) + (IF Last(line) = Tab THEN 1 ELSE 2)
    /\ written # <<>> =>
         Len(fields) = Len(written) + (IF Last(line) = Tab THEN 0 ELSE 1)

\* The pieces are a sequence, one longer than the tabs are many, and an empty field may
\* follow them.
LEMMA PiecesAndPhantom ==
  ASSUME NEW l \in Seq(Chars)
  PROVE  Len(Pieces(l) \o Phantom(l)) = Count(l, Tab, Len(l)) + 1 + Len(Phantom(l))
<1> DEFINE n == Count(l, Tab, Len(l)) + 1
           Piece(k) == SubSeq(l, TabAt(l, k - 1) + 1, TabAt(l, k) - 1)
           U == {Piece(k) : k \in 1..n} \union {<<>>}
<1>1. n \in Nat
  BY CountBounds
<1>2. Pieces(l) = [k \in 1..n |-> Piece(k)]
  BY DEF Pieces
<1>3. <<>> \in U /\ \A k \in 1..n : Piece(k) \in U
  OBVIOUS
<1> HIDE DEF Piece, U
<1>4. Pieces(l) \in Seq(U) /\ Len(Pieces(l)) = n
  <2> HIDE DEF n
  <2> QED BY <1>1, <1>2, <1>3
<1>5. Phantom(l) \in Seq(U)
  <2>1. Phantom(l) = <<>> \/ Phantom(l) = << <<>> >>
    BY DEF Phantom
  <2>2. <<>> \in Seq(U)
    OBVIOUS
  <2>3. ASSUME NEW u \in U
        PROVE  <<u>> \in Seq(U)
    OBVIOUS
  <2> QED BY <1>3, <2>1, <2>2, <2>3, Zenon
<1>6. Len(Pieces(l) \o Phantom(l)) = Len(Pieces(l)) + Len(Phantom(l))
  BY <1>4, <1>5, ConcatProperties
<1> QED BY <1>4, <1>6

\* The field that is not there (loader.cpp:76-80) is counted by the tests of
\* loader.cpp:215-216, which is FieldCount of Loader.
THEOREM FieldsCountedCorrect == Spec => []FieldsCounted
<1>1. ASSUME TypeOK, PlainSplit, RoundTrip
      PROVE  FieldsCounted
  <2> SUFFICES ASSUME mode = "done", line # <<>> PROVE FieldsCounted
    BY DEF FieldsCounted
  <2>1. PICK h : h = Phantom(line)
    OBVIOUS
  <2>2. h \in {<<>>, << <<>> >>} /\ Len(h) = IF Last(line) = Tab THEN 0 ELSE 1
    BY <2>1 DEF Phantom
  <2>3. Count(line, Tab, Len(line)) \in Nat
    BY CountBounds, <1>1 DEF TypeOK
  <2>4. ASSUME Quote \notin Range(line)
        PROVE  Len(fields) = Count(line, Tab, Len(line)) + (IF Last(line) = Tab THEN 1 ELSE 2)
    <3>1. fields = Pieces(line) \o h
      BY <1>1, <2>1, <2>4 DEF PlainSplit
    <3>2. Len(fields) = Count(line, Tab, Len(line)) + 1 + Len(h)
      BY <1>1, <2>1, <3>1, PiecesAndPhantom DEF TypeOK
    <3> QED BY <2>2, <2>3, <3>2
  <2>5. ASSUME written # <<>>
        PROVE  Len(fields) = Len(written) + (IF Last(line) = Tab THEN 0 ELSE 1)
    <3>1. fields = written \o h
      BY <1>1, <2>1, <2>5 DEF RoundTrip
    <3>2. written \in Seq(Seq(Chars)) /\ h \in Seq(Seq(Chars))
      <4>1. <<>> \in Seq(Seq(Chars)) /\ << <<>> >> \in Seq(Seq(Chars))
        OBVIOUS
      <4> QED BY <1>1, <2>2, <4>1 DEF TypeOK
    <3>3. Len(fields) = Len(written) + Len(h)
      BY <3>1, <3>2, ConcatProperties
    <3> QED BY <2>2, <3>3
  <2> QED BY <2>4, <2>5 DEF FieldsCounted
<1> QED BY <1>1, SplitTypeCorrect, PlainSplitCorrect, RoundTripCorrect, PTL

\* What is left of the line, and at one p how far the loops are from the end.
Remaining ==
  5 * (end - p) + CASE mode = "quoted" -> 3
                    [] mode = "skip" -> 2
                    [] mode = "plain" -> IF p < end THEN 0 ELSE 2
                    [] mode = "next" -> 1
                    [] OTHER -> 0

\* The loops of SplitTsvLine end: every step of them lessens what remains.
THEOREM SplitEnds == Spec => [][Split => Remaining' \in Nat /\ Remaining' < Remaining]_vars
<1>1. ASSUME TypeOK, Split
      PROVE  Remaining' \in Nat /\ Remaining' < Remaining
  <2>1. /\ end \in Nat /\ p \in Nat /\ p <= end
        /\ mode \in {"write", "next", "quoted", "skip", "plain", "done"}
    BY <1>1 DEF TypeOK, end
  <2>2. end' = end
    BY <1>1 DEF Split, TrailingField, StartQuoted, StartPlain, QuotedChar, EndQuoted, ToNextTab,
                EndField, end
  <2>3. CASE TrailingField
    BY <2>1, <2>2, <2>3 DEF TrailingField, Remaining
  <2>4. CASE StartQuoted
    BY <2>1, <2>2, <2>4 DEF StartQuoted, Remaining
  <2>5. CASE StartPlain
    BY <2>1, <2>2, <2>5 DEF StartPlain, Remaining
  <2>6. CASE QuotedChar
    <3>1. mode = "quoted" /\ mode' = "quoted" /\ p' \in {p + 1, p + 2} /\ p' <= end
      BY <2>1, <2>6 DEF QuotedChar, Doubled
    <3>2. Remaining = 5 * (end - p) + 3 /\ Remaining' = 5 * (end - p') + 3
      BY <2>2, <3>1 DEF Remaining
    <3>3. CASE p' = p + 1
      BY <2>1, <3>1, <3>2, <3>3
    <3>4. CASE p' = p + 2
      BY <2>1, <3>1, <3>2, <3>4
    <3> QED BY <3>1, <3>3, <3>4
  <2>7. CASE EndQuoted
    BY <2>1, <2>2, <2>7 DEF EndQuoted, Remaining
  <2>8. CASE ToNextTab
    BY <2>1, <2>2, <2>8 DEF ToNextTab, Remaining
  <2>9. CASE EndField
    BY <2>1, <2>2, <2>9 DEF EndField, Remaining
  <2> QED BY <1>1, <2>3, <2>4, <2>5, <2>6, <2>7, <2>8, <2>9 DEF Split
<1> QED BY <1>1, SplitTypeCorrect, PTL DEF Spec

-----------------------------------------------------------------------------
\* The three variables always hold movies.
THEOREM AlwaysMovies == OrderSpec => [](a \in Movies /\ b \in Movies /\ c \in Movies)
<1> DEFINE Inv == a \in Movies /\ b \in Movies /\ c \in Movies
<1>1. OrderInit => Inv
  BY DEF OrderInit
<1>2. Inv /\ [OrderNext]_trio => Inv'
  BY DEF OrderNext, Compare, trio
<1> QED
  BY <1>1, <1>2, PTL DEF OrderSpec

\* Numbers are compared as numbers: != and > mean what they say of them.
LEMMA NumbersCompare ==
  ASSUME NEW x \in Movies, NEW y \in Movies, Rated(x), Rated(y)
  PROVE  /\ x.rating \in Int /\ y.rating \in Int
         /\ Differ(x.rating, y.rating) <=> x.rating # y.rating
         /\ Above(x.rating, y.rating) <=> x.rating > y.rating
<1>1. x.rating \in Ratings /\ y.rating \in Ratings
  BY DEF Movies
<1>2. x.rating \in Int /\ y.rating \in Int
  BY <1>1, FieldAssumption DEF Rated
<1> QED
  BY <1>2 DEF Rated, Differ, Above

\* The fields of a movie are integers but for a rating that is a NaN.
LEMMA FieldsAreIntegers ==
  ASSUME NEW x \in Movies
  PROVE  /\ Rated(x) => x.rating \in Int
         /\ x.num_votes \in Int /\ x.start_year \in Int
         /\ x.primary_title \in Int /\ x.tconst \in Int
<1>1. x.rating \in Ratings
  BY DEF Movies
<1> QED
  BY <1>1, FieldAssumption DEF Movies, Rated

\* A NaN is neither equal to nor above anything (Movie.h:51): such a movie is ranked
\* neither before nor behind any other.
LEMMA NaNIsUnranked ==
  ASSUME NEW x, NEW y, Better(x, y)
  PROVE  Rated(x) /\ Rated(y)
BY DEF Better, Rated, Differ, Above

\* operator< (Movie.h:50-56) ranks by the first of the five keys that differs.
LEMMA RanksByFirstDifference ==
  ASSUME NEW x \in Movies, NEW y \in Movies, Rated(x), Rated(y)
  PROVE  Better(x, y) <=>
           \/ x.rating > y.rating
           \/ /\ x.rating = y.rating
              /\ \/ x.num_votes > y.num_votes
                 \/ /\ x.num_votes = y.num_votes
                    /\ \/ x.start_year < y.start_year
                       \/ /\ x.start_year = y.start_year
                          /\ \/ x.primary_title < y.primary_title
                             \/ /\ x.primary_title = y.primary_title
                                /\ x.tconst < y.tconst
BY NumbersCompare, FieldsAreIntegers DEF Better

\* Of all movies, with NaNs or without: operator< never ranks two both ways, is
\* transitive, and of two different movies with numbers ranks one first (Movie.h:47).
THEOREM BetterIsTotalOrder ==
  /\ \A x, y \in Movies : Better(x, y) => ~Better(y, x)
  /\ \A x, y, z \in Movies : Better(x, y) /\ Better(y, z) => Better(x, z)
  /\ \A x, y \in Movies :
       Rated(x) /\ Rated(y) => x = y \/ Better(x, y) \/ Better(y, x)
<1>1. ASSUME NEW x \in Movies, NEW y \in Movies, Better(x, y)
      PROVE  ~Better(y, x)
  <2>1. Rated(x) /\ Rated(y)
    BY <1>1, NaNIsUnranked
  <2> QED
    BY <1>1, <2>1, RanksByFirstDifference, FieldsAreIntegers
<1>2. ASSUME NEW x \in Movies, NEW y \in Movies, NEW z \in Movies,
             Better(x, y), Better(y, z)
      PROVE  Better(x, z)
  <2>1. Rated(x) /\ Rated(y) /\ Rated(z)
    BY <1>2, NaNIsUnranked
  <2> QED
    BY <1>2, <2>1, RanksByFirstDifference, FieldsAreIntegers
<1>3. ASSUME NEW x \in Movies, NEW y \in Movies, Rated(x), Rated(y), x # y
      PROVE  Better(x, y) \/ Better(y, x)
  <2>1. \/ x.rating # y.rating \/ x.num_votes # y.num_votes
        \/ x.start_year # y.start_year \/ x.primary_title # y.primary_title
        \/ x.tconst # y.tconst
    BY <1>3 DEF Movies
  <2> QED
    BY <1>3, <2>1, RanksByFirstDifference, FieldsAreIntegers
<1> QED
  BY <1>1, <1>2, <1>3

\* Without a NaN, what is unranked is transitive too: the weak order that a heap
\* assumes of its comparator (OrderAssumption of TopK and MinHeap).
THEOREM RatedIsWeakOrder ==
  ASSUME NEW x \in Movies, NEW y \in Movies, NEW z \in Movies,
         Rated(x), Rated(y), Rated(z), Better(x, z)
  PROVE  Better(x, y) \/ Better(y, z)
<1>1. x = y \/ Better(x, y) \/ Better(y, x)
  BY BetterIsTotalOrder
<1>2. CASE x = y
  BY <1>2
<1>3. CASE Better(y, x)
  BY <1>3, BetterIsTotalOrder
<1> QED
  BY <1>1, <1>2, <1>3

\* Movies that operator== takes for the same (Movie.h:63-67) are ranked by rating and
\* votes alone.
LEMMA SameRanksByNumbers ==
  ASSUME NEW x \in Movies, NEW y \in Movies, Rated(x), Rated(y), Same(x, y)
  PROVE  Better(x, y) \/ Better(y, x) <=> x.rating # y.rating \/ x.num_votes # y.num_votes
BY RanksByFirstDifference, FieldsAreIntegers DEF Same

\* The property the run checks, for all fields: StrictTotalOrder always holds.
THEOREM OrderCorrect == OrderSpec => []StrictTotalOrder
<1> DEFINE Inv == a \in Movies /\ b \in Movies /\ c \in Movies
<1>1. ASSUME Inv PROVE StrictTotalOrder
  <2>1. ~Rated(a) => ~Better(a, b) /\ ~Better(b, a)
    BY NaNIsUnranked
  <2> QED
    BY <1>1, <2>1, BetterIsTotalOrder, SameRanksByNumbers DEF StrictTotalOrder
<1> QED
  BY <1>1, AlwaysMovies, PTL

\* The order of keys that cli.cpp:6-7 documents is the one operator< (Movie.h:50-56)
\* decides by: "the first key that differs" said as a place and as nested tests.
LEMMA DocumentedIsRanking ==
  ASSUME NEW x \in Movies, NEW y \in Movies, Rated(x), Rated(y)
  PROVE  Better(x, y) <=>
           \E n \in 1..5 :
             /\ \A m \in 1..(n - 1) : RankKeys(x)[m] = RankKeys(y)[m]
             /\ RankKeys(x)[n] < RankKeys(y)[n]
<1> DEFINE r == RankKeys(x)
           s == RankKeys(y)
           First(n) == (\A m \in 1..(n - 1) : r[m] = s[m]) /\ r[n] < s[n]
<1>1. /\ r[1] = -x.rating /\ r[2] = -x.num_votes /\ r[3] = x.start_year
      /\ r[4] = x.primary_title /\ r[5] = x.tconst
      /\ s[1] = -y.rating /\ s[2] = -y.num_votes /\ s[3] = y.start_year
      /\ s[4] = y.primary_title /\ s[5] = y.tconst
  BY DEF RankKeys
<1>2. (\E n \in 1..5 : First(n)) <=> First(1) \/ First(2) \/ First(3) \/ First(4) \/ First(5)
  <2>1. \A n \in 1..5 : n = 1 \/ n = 2 \/ n = 3 \/ n = 4 \/ n = 5
    OBVIOUS
  <2>2. 1 \in 1..5 /\ 2 \in 1..5 /\ 3 \in 1..5 /\ 4 \in 1..5 /\ 5 \in 1..5
    OBVIOUS
  <2> HIDE DEF First
  <2> QED BY <2>1, <2>2
<1> HIDE DEF r, s
<1>3. /\ First(1) <=> r[1] < s[1]
      /\ First(2) <=> r[1] = s[1] /\ r[2] < s[2]
      /\ First(3) <=> r[1] = s[1] /\ r[2] = s[2] /\ r[3] < s[3]
      /\ First(4) <=> r[1] = s[1] /\ r[2] = s[2] /\ r[3] = s[3] /\ r[4] < s[4]
      /\ First(5) <=> r[1] = s[1] /\ r[2] = s[2] /\ r[3] = s[3] /\ r[4] = s[4] /\ r[5] < s[5]
  <2>1. /\ 1..(1 - 1) = {} /\ 1..(2 - 1) = {1} /\ 1..(3 - 1) = {1, 2}
        /\ 1..(4 - 1) = {1, 2, 3} /\ 1..(5 - 1) = {1, 2, 3, 4}
    OBVIOUS
  <2> QED BY <2>1, Zenon
<1> HIDE DEF First
<1>4. Better(x, y) <=> First(1) \/ First(2) \/ First(3) \/ First(4) \/ First(5)
  BY <1>1, <1>3, RanksByFirstDifference, FieldsAreIntegers
<1> QED BY <1>2, <1>4 DEF First, r, s

\* The property the run checks, for all fields: movies are ranked as documented.
THEOREM DocumentedOrderCorrect == OrderSpec => []DocumentedOrder
<1> DEFINE Inv == a \in Movies /\ b \in Movies /\ c \in Movies
<1>1. ASSUME Inv PROVE DocumentedOrder
  BY <1>1, DocumentedIsRanking DEF DocumentedOrder
<1> QED
  BY <1>1, AlwaysMovies, PTL
=============================================================================
