------------------------------ MODULE TsvSplit ------------------------------
(***************************************************************************)
(* SplitTsvLine of src/loader.cpp: the split of one line into fields, one  *)
(* step per iteration of its loops.  p is the offset of the pointer p from *)
(* line.data(), so p = Len(line) is the pointer end.                       *)
(*                                                                         *)
(* A character is the quote, the tab or one of Others: no other character  *)
(* is told apart.                                                          *)
(***************************************************************************)
EXTENDS Naturals, SequencesExt

CONSTANTS
  Quote, Tab, \* the two characters the splitter looks for
  Others,     \* some ordinary characters
  MaxLine,    \* bound: characters in any line
  MaxFields,  \* bound: fields a writer puts in a line
  MaxChars    \* bound: characters in such a field

ASSUME CharAssumption == Quote # Tab
ASSUME BoundAssumption == MaxLine \in Nat /\ MaxFields \in Nat /\ MaxChars \in Nat

Chars == {Quote, Tab} \union Others
Lines == BoundedSeq(Chars, MaxLine)

VARIABLES
  line,    \* the argument
  written, \* history: the fields a writer has put in the line; none if it is any line
  p,       \* the read position
  fields,  \* the result so far
  out,     \* the field being read
  mode     \* the loop that runs: "next", "quoted", "skip" or "plain"; "done"; or
           \* "write", before the call

vars == <<line, written, p, fields, out, mode>>

end == Len(line)
Char == line[p + 1]

\* Any line, or one that a writer is about to put together.
Init ==
  /\ written = <<>>
  /\ \/ line \in Lines /\ mode = "next"
     \/ line = <<>> /\ mode = "write"
  /\ p = 0 /\ fields = <<>> /\ out = <<>>

-----------------------------------------------------------------------------
\* A writer that follows the rules in the comment above SplitTsvLine: a quoted
\* field doubles its quotes; an unquoted one holds no tab and no first quote.

\* How often c is among the first n characters of s.
Count(s, c, n) == Cardinality({m \in 1..n : s[m] = c})

\* Character m of f comes at m and the number of quotes before it, and a quote once
\* more behind that.
Double(f) ==
  [n \in 1..(Len(f) + Count(f, Quote, Len(f))) |->
     f[CHOOSE m \in DOMAIN f : n \in {m + Count(f, Quote, m - 1), m + Count(f, Quote, m)}]]

Encodings(f) ==
  {<<Quote>> \o Double(f) \o <<Quote>>}
    \union (IF Tab \notin Range(f) /\ (f # <<>> => f[1] # Quote) THEN {f} ELSE {})

WriteField ==
  /\ mode = "write" /\ Len(written) < MaxFields
  /\ \E f \in BoundedSeq(Chars, MaxChars) : \E e \in Encodings(f) :
       /\ written' = Append(written, f)
       /\ line' = (IF written = <<>> THEN e ELSE line \o <<Tab>> \o e)
  /\ UNCHANGED <<p, fields, out, mode>>

EndLine ==
  /\ mode = "write" /\ written # <<>>
  /\ mode' = "next"
  /\ UNCHANGED <<line, written, p, fields, out>>

-----------------------------------------------------------------------------
\* Mutant of TrailingField: the end of the line simply ends the loop.
TrailingFieldDropped ==
  /\ mode = "next" /\ p = end
  /\ mode' = "done"
  /\ UNCHANGED <<line, written, p, fields, out>>

\* The first statement of the loop at the end of the line.
TrailingField ==
  /\ mode = "next" /\ p = end
  /\ fields' = Append(fields, <<>>)
  /\ mode' = "done"
  /\ UNCHANGED <<line, written, p, out>>

StartQuoted ==
  /\ mode = "next" /\ p < end /\ Char = Quote
  /\ p' = p + 1 /\ out' = <<>> /\ mode' = "quoted"
  /\ UNCHANGED <<line, written, fields>>

StartPlain ==
  /\ mode = "next" /\ p < end /\ Char # Quote
  /\ out' = <<>> /\ mode' = "plain"
  /\ UNCHANGED <<line, written, p, fields>>

\* Mutant of Doubled: the test of the character after the quote is left out.
DoubledUnchecked == p < end /\ Char = Quote

\* Two quotes in a row, both inside the line.
Doubled == p + 1 < end /\ Char = Quote /\ line[p + 2] = Quote

\* Mutant of QuotedChar: a doubled quote is read as one character.
QuotedCharOnce ==
  /\ mode = "quoted" /\ p < end
  /\ Char # Quote \/ Doubled
  /\ out' = Append(out, Char)
  /\ p' = p + 1
  /\ UNCHANGED <<line, written, fields, mode>>

QuotedChar ==
  /\ mode = "quoted" /\ p < end
  /\ Char # Quote \/ Doubled
  /\ out' = Append(out, Char)
  /\ p' = p + (IF Doubled THEN 2 ELSE 1)
  /\ UNCHANGED <<line, written, fields, mode>>

\* A closing quote, or the end of a line that never closes the field.
EndQuoted ==
  /\ mode = "quoted"
  /\ p < end => Char = Quote /\ ~Doubled
  /\ fields' = Append(fields, out)
  /\ p' = (IF p < end THEN p + 1 ELSE p)
  /\ mode' = "skip"
  /\ UNCHANGED <<line, written, out>>

\* Mutant of ToNextTab: the loop behind a closing quote does not advance.
ToNextTabStuck ==
  /\ mode \in {"skip", "plain"} /\ p < end /\ Char # Tab
  /\ p' = (IF mode = "plain" THEN p + 1 ELSE p)
  /\ out' = (IF mode = "plain" THEN Append(out, Char) ELSE out)
  /\ UNCHANGED <<line, written, fields, mode>>

\* The loops to the next tab: behind a closing quote, and over a plain field.
ToNextTab ==
  /\ mode \in {"skip", "plain"} /\ p < end /\ Char # Tab
  /\ p' = p + 1
  /\ out' = (IF mode = "plain" THEN Append(out, Char) ELSE out)
  /\ UNCHANGED <<line, written, fields, mode>>

EndField ==
  /\ mode \in {"skip", "plain"} /\ (p < end => Char = Tab)
  /\ fields' = (IF mode = "plain" THEN Append(fields, out) ELSE fields)
  /\ p' = (IF p < end THEN p + 1 ELSE p)
  /\ mode' = "next"
  /\ UNCHANGED <<line, written, out>>

Returned == mode = "done" /\ UNCHANGED vars

\* A step of SplitTsvLine.
Split ==
  \/ TrailingField \/ StartQuoted \/ StartPlain
  \/ QuotedChar \/ EndQuoted \/ ToNextTab \/ EndField

Next == WriteField \/ EndLine \/ Split \/ Returned

\* The loops run on one thread and never wait.
Spec == Init /\ [][Next]_vars /\ WF_vars(Split)

-----------------------------------------------------------------------------
\* The types, and the pointer stays within the line or one past it.
TypeOK ==
  /\ line \in Seq(Chars) /\ written \in Seq(Seq(Chars))
  /\ p \in 0..end
  /\ fields \in Seq(Seq(Chars)) /\ out \in Seq(Chars)
  /\ mode \in {"write", "next", "quoted", "skip", "plain", "done"}

\* Where the k-th tab of a line is; one more is thought before it and one behind it.
TabAt(l, k) ==
  IF k = 0 THEN 0
  ELSE IF k > Count(l, Tab, Len(l)) THEN Len(l) + 1
  ELSE CHOOSE n \in DOMAIN l : l[n] = Tab /\ Count(l, Tab, n) = k

\* The pieces of a line between its tabs.
Pieces(l) ==
  [k \in 1..(Count(l, Tab, Len(l)) + 1) |-> SubSeq(l, TabAt(l, k - 1) + 1, TabAt(l, k) - 1)]

\* What the last iteration adds: nothing when the line is empty or ends in a tab,
\* whose last piece is then the empty field, and an empty field otherwise.
Phantom(l) == IF l = <<>> \/ Last(l) = Tab THEN <<>> ELSE << <<>> >>

\* A line without quotes is cut at its tabs; a line that does not end in a tab
\* gets an additional empty field.  Loader counts fields this way.
PlainSplit ==
  mode = "done" /\ Quote \notin Range(line) => fields = Pieces(line) \o Phantom(line)

\* What a writer encoded, quotes and tabs in quoted fields included, is read
\* back, with the same additional empty field.
RoundTrip ==
  mode = "done" /\ written # <<>> => fields = written \o Phantom(line)

\* The loop ends on every line.
Terminates == mode = "next" ~> mode = "done"
=============================================================================
