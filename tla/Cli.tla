-------------------------------- MODULE Cli --------------------------------
(***************************************************************************)
(* The command imdb-topk of src/cli.cpp: ParseArgs, one action per         *)
(* iteration of its loop, and main, to which top_k is a call that returns  *)
(* or throws (Command says when).  An argument is one of the flags or      *)
(* another word, which may be a number, a path, both or neither.           *)
(***************************************************************************)
EXTENDS Integers, Sequences

CONSTANTS
  Words,        \* the arguments that are no flags
  Number(_),    \* the number a word starts with, or NoNumber
  NoNumber,
  Readable,     \* the words that are paths of files that can be opened
  SizeModulus,  \* 2^64: stoull and stoul throw out_of_range from here on
  VoteModulus,  \* 2^32: static_cast<uint32_t> keeps a number modulo this
  MaxReserve,   \* the most movies that reserve(k) can make room for
  DefaultTop, DefaultVotes, \* 250 and 1000
  MaxArgs       \* bound: arguments in a command line

ASSUME CliAssumption ==
  /\ \A w \in Words : Number(w) \in Int \union {NoNumber}
  /\ Readable \subseteq Words
  /\ {SizeModulus, VoteModulus, MaxReserve, DefaultTop, DefaultVotes, MaxArgs} \subseteq Nat \ {0}
  /\ DefaultTop < SizeModulus /\ DefaultVotes < VoteModulus /\ VoteModulus <= SizeModulus

NumberFlags == {"--top", "--min-votes", "--min-rating"}
ValueFlags == NumberFlags \union {"--data"}
HelpFlags == {"--help", "-h"}
QuietFlags == {"--quiet", "-q"}
Flags == ValueFlags \union HelpFlags \union QuietFlags
Args == Flags \union Words

ASSUME WordAssumption == Words \intersect Flags = {}

VARIABLES
  argv, \* the arguments behind the program name
  i,    \* the local i
  opts, \* the CliOptions, and the local data_set
  pc,   \* "parsing", "running", "exited", "terminated" by an exception
  code  \* the exit code, -1 before there is one

vars == <<argv, i, opts, pc, code>>

Defaults == [top_k |-> DefaultTop, min_votes |-> DefaultVotes, min_rating |-> 0,
             data |-> "data/sample.tsv", data_set |-> FALSE, show_help |-> FALSE]

Init ==
  /\ \E n \in 0..MaxArgs : argv \in [1..n -> Args]
  /\ i = 1 /\ opts = Defaults /\ pc = "parsing" /\ code = -1

Exit(c) == pc' = "exited" /\ code' = c /\ UNCHANGED <<argv, i, opts>>

Arg == argv[i]
Parsing(flags) == pc = "parsing" /\ i <= Len(argv) /\ Arg \in flags

\* need_value at the end of the arguments.
MissingValue == Parsing(ValueFlags) /\ i = Len(argv) /\ Exit(2)

UnknownFlag == Parsing(Words) /\ Exit(2)

\* What need_value returns: the next argument, whatever it looks like.
Value == argv[i + 1]
HasValue(flags) == Parsing(flags) /\ i < Len(argv)

ParsedNumber(w) == IF w \in Words THEN Number(w) ELSE NoNumber

\* stoull wraps a negative number; it throws for a word that does not start with a
\* number and for one out of range.  (stof has no such range in the model.)
NumberThrows(flag, w) ==
  \/ ParsedNumber(w) = NoNumber
  \/ flag # "--min-rating" /\ ParsedNumber(w) \notin (-SizeModulus + 1)..(SizeModulus - 1)

Unsigned(w) == ParsedNumber(w) % SizeModulus

\* The exception leaves main: the handler is only around top_k.
BadNumber ==
  /\ HasValue(NumberFlags) /\ NumberThrows(Arg, Value)
  /\ pc' = "terminated"
  /\ UNCHANGED <<argv, i, opts, code>>

\* Mutant of GoOn: the loop does not step on.
GoOnHere(last) == i' = last /\ UNCHANGED <<argv, pc, code>>

\* The arguments up to last are read.
GoOn(last) == i' = last + 1 /\ UNCHANGED <<argv, pc, code>>

SetOption ==
  /\ HasValue(ValueFlags) /\ (Arg \in NumberFlags => ~NumberThrows(Arg, Value))
  /\ opts' = CASE Arg = "--data" -> [opts EXCEPT !.data = Value, !.data_set = TRUE]
               [] Arg = "--top" -> [opts EXCEPT !.top_k = Unsigned(Value)]
               [] Arg = "--min-votes" -> [opts EXCEPT !.min_votes = Unsigned(Value) % VoteModulus]
               [] Arg = "--min-rating" -> [opts EXCEPT !.min_rating = ParsedNumber(Value)]
  /\ GoOn(i + 1)

SetSwitch ==
  /\ Parsing(HelpFlags \union QuietFlags)
  /\ opts' = [opts EXCEPT !.show_help = @ \/ Arg \in HelpFlags]
  /\ GoOn(i)

Parsed == pc = "parsing" /\ i > Len(argv)

\* Mutant of NoData: --data is required next to --help as well.
NoDataForgetsHelp == Parsed /\ ~opts.data_set /\ Exit(2)

NoData == Parsed /\ ~opts.data_set /\ ~opts.show_help /\ Exit(2)

Help == Parsed /\ opts.show_help /\ Exit(0)

Run ==
  /\ Parsed /\ opts.data_set /\ ~opts.show_help
  /\ pc' = "running"
  /\ UNCHANGED <<argv, i, opts, code>>

\* top_k throws (TopK): k movies are too many, or the file cannot be opened.
TopKThrows ==
  /\ pc = "running"
  /\ opts.top_k > MaxReserve \/ (opts.top_k > 0 /\ opts.data \notin Readable)
  /\ Exit(1)

\* top_k returns, for k = 0 without having opened the file; the table is printed.
TopKReturns ==
  /\ pc = "running"
  /\ opts.top_k <= MaxReserve
  /\ opts.top_k > 0 => opts.data \in Readable
  /\ Exit(0)

Stopped == pc \in {"exited", "terminated"} /\ UNCHANGED vars

ParseArgs ==
  MissingValue \/ UnknownFlag \/ BadNumber \/ SetOption \/ SetSwitch \/ NoData \/ Help

Next ==
  \/ ParseArgs \/ Run
  \/ TopKThrows \/ TopKReturns
  \/ Stopped

Spec == Init /\ [][Next]_vars

-----------------------------------------------------------------------------
\* The kind of value each variable holds.
TypeOK ==
  /\ argv \in Seq(Args) /\ i \in 1..(Len(argv) + 1)
  /\ opts \in [top_k : Nat, min_votes : Nat, min_rating : Int,
               data : Args \union {Defaults.data}, data_set : BOOLEAN, show_help : BOOLEAN]
  /\ pc \in {"parsing", "running", "exited", "terminated"}
  /\ code \in {-1, 0, 1, 2}

-----------------------------------------------------------------------------
\* What a command line says, without the loop.

\* The arguments that are read as flags: the first, and each behind a switch or
\* behind the value of another.
FlagAt ==
  LET f[n \in 0..Len(argv)] ==
        \/ n = 1
        \/ n > 1 /\ f[n - 1] /\ argv[n - 1] \notin ValueFlags
        \/ n > 2 /\ f[n - 2] /\ argv[n - 2] \in ValueFlags
  IN  {n \in 1..Len(argv) : f[n]}

Uses(flags) == {n \in FlagAt : argv[n] \in flags}

\* What is wrong with it: words where flags should be and flags without a value,
\* and values that are no numbers.
Wrong == Uses(Words) \union {n \in Uses(ValueFlags) : n = Len(argv)}
NoNumbers ==
  {n \in Uses(NumberFlags) : n < Len(argv) /\ NumberThrows(argv[n], argv[n + 1])}

WellFormed == Wrong = {} /\ Uses({"--data"} \union HelpFlags) # {}

\* The value given at the last use of a flag.
Given(flag) == argv[1 + CHOOSE n \in Uses({flag}) : \A m \in Uses({flag}) : m <= n]

\* cli.cpp:17-20, and what they do not say: a number that does not parse ends the
\* program by an exception unless something else is wrong before it.  Otherwise a
\* command line that is not well formed exits with 2 and one that is does not,
\* whatever the values of flags look like; --help exits with 0; and a program that
\* ends with 0 has read a file, unless it was asked for help or for no movies.
ExitCodes ==
  /\ pc \in {"exited", "terminated"} =>
       (pc = "terminated" <=> \E n \in NoNumbers : \A m \in Wrong : n < m)
  /\ pc = "exited" =>
       /\ code = 2 <=> ~WellFormed
       /\ WellFormed /\ Uses(HelpFlags) # {} => code = 0
       /\ code = 0 /\ Uses(HelpFlags) = {} /\ opts.top_k > 0 => opts.data \in Readable
=============================================================================
