--------------------------- MODULE CommandProofs ---------------------------
(***************************************************************************)
(* Proofs about Cli and Command, for every command line, file and number:  *)
(* the loop of ParseArgs reads the flags that the grammar of the command   *)
(* line names, so the exit codes and the options are those of the last use *)
(* of each flag; and the program as a whole does to its arguments and its  *)
(* exit code what Cli says.                                                *)
(***************************************************************************)
EXTENDS Command, FiniteSetTheorems, SequenceTheorems, WellFoundedInduction, TLAPS

-----------------------------------------------------------------------------
\* The flags of a command line.

\* Why the argument at n may be read as a flag, if those in S are.
Follows(S, n) ==
  \/ n = 1
  \/ n > 1 /\ n - 1 \in S /\ argv[n - 1] \notin ValueFlags
  \/ n > 2 /\ n - 2 \in S /\ argv[n - 2] \in ValueFlags

\* FlagAt is defined by a recursive function.  There is one: the largest set of
\* arguments in which each has a reason to be read as a flag solves the equation.
LEMMA FlagAtFollows ==
  ASSUME Len(argv) \in Nat
  PROVE  /\ FlagAt \subseteq 1..Len(argv)
         /\ \A n \in 1..Len(argv) : n \in FlagAt <=> Follows(FlagAt, n)
<1> DEFINE body(f, n) == \/ n = 1
                         \/ n > 1 /\ f[n - 1] /\ argv[n - 1] \notin ValueFlags
                         \/ n > 2 /\ f[n - 2] /\ argv[n - 2] \in ValueFlags
           N == 0..Len(argv)
           Reasoned(S) == \A n \in S : Follows(S, n)
           F == UNION {S \in SUBSET (1..Len(argv)) : Reasoned(S)}
           g == [n \in N |-> n \in F]
           f == CHOOSE h : h = [n \in N |-> body(h, n)]
<1>1. \A S, T : \A n : S \subseteq T /\ Follows(S, n) => Follows(T, n)
  BY DEF Follows
<1>2. F \subseteq 1..Len(argv) /\ \A n \in F : Follows(F, n)
  <2> SUFFICES ASSUME NEW n \in F PROVE n \in 1..Len(argv) /\ Follows(F, n)
    OBVIOUS
  <2>1. PICK S \in SUBSET (1..Len(argv)) : n \in S /\ Reasoned(S) /\ S \subseteq F
    OBVIOUS
  <2> QED BY <2>1, <1>1
<1>3. ASSUME NEW n \in 1..Len(argv), Follows(F, n) PROVE n \in F
  <2> DEFINE S == F \union {n}
  <2>1. \A m \in S : Follows(F, m) /\ F \subseteq S
    BY <1>2, <1>3
  <2>2. Reasoned(S)
    BY <2>1, <1>1
  <2>3. S \in SUBSET (1..Len(argv))
    BY <1>2
  <2> QED BY <2>2, <2>3
<1>4. \A n \in N : g[n] = body(g, n)
  <2> SUFFICES ASSUME NEW n \in N PROVE g[n] = body(g, n)
    OBVIOUS
  <2>0. F \subseteq 1..Len(argv)
    BY <1>2
  <2> HIDE DEF F
  <2>1. n > 1 => n - 1 \in N
    OBVIOUS
  <2>2. n > 2 => n - 2 \in N
    OBVIOUS
  <2>3. (n > 1 => g[n - 1] = (n - 1 \in F)) /\ (n > 2 => g[n - 2] = (n - 2 \in F)) /\ g[n] = (n \in F)
    BY <2>1, <2>2
  <2> HIDE DEF g
  <2>4. body(g, n) <=> Follows(F, n)
    BY <2>3 DEF Follows
  <2>5. n \in F <=> Follows(F, n)
    <3>1. CASE n = 0
      BY <3>1, <2>0 DEF Follows
    <3>2. CASE n # 0
      <4>1. n \in 1..Len(argv)
        BY <3>2
      <4> QED BY <4>1, <1>2, <1>3
    <3> QED BY <3>1, <3>2
  <2>6. g[n] \in BOOLEAN /\ body(g, n) \in BOOLEAN
    BY <2>3
  <2>7. g[n] <=> body(g, n)
    BY <2>3, <2>4, <2>5
  <2> HIDE DEF body
  <2> QED BY <2>6, <2>7
<1>5. g = [n \in N |-> body(g, n)]
  <2> HIDE DEF F
  <2>1. g = [n \in N |-> g[n]]
    OBVIOUS
  <2> HIDE DEF g
  <2> QED BY <2>1, <1>4
<1>6. f = [n \in N |-> body(f, n)]
  BY <1>5
<1>7. FlagAt = {n \in 1..Len(argv) : f[n]}
  BY DEF FlagAt
<1> HIDE DEF f, g, F
<1>8. \A n \in N : f[n] = body(f, n)
  BY <1>6
<1>9. ASSUME NEW n \in 1..Len(argv) PROVE n \in FlagAt <=> Follows(FlagAt, n)
  <2>1. n \in N /\ (n > 1 => n - 1 \in 1..Len(argv)) /\ (n > 2 => n - 2 \in 1..Len(argv))
    OBVIOUS
  <2>2. n \in FlagAt <=> body(f, n)
    BY <1>7, <1>8, <2>1
  <2> QED BY <1>7, <2>1, <2>2 DEF Follows
<1> QED BY <1>7, <1>9

\* The flags are the strings they are, and no word is one of them.
LEMMA FlagNames ==
  /\ ValueFlags = {"--top", "--min-votes", "--min-rating", "--data"}
  /\ \A a \in Args : a \in ValueFlags \/ a \in HelpFlags \/ a \in QuietFlags \/ a \in Words
  /\ \A a \in ValueFlags : a \notin Words /\ a \notin HelpFlags /\ a \notin QuietFlags
  /\ \A a \in HelpFlags \union QuietFlags : a \notin Words
BY WordAssumption DEF NumberFlags, ValueFlags, HelpFlags, QuietFlags, Flags, Args

-----------------------------------------------------------------------------
\* The inductive invariant of Cli.

\* The next argument is read as a flag, and the one before it is not waiting for
\* a value.
AtFlag ==
  /\ i <= Len(argv) => i \in FlagAt
  /\ i - 1 \in FlagAt => argv[i - 1] \notin ValueFlags

\* Nothing was wrong with what has been read.
NothingWrong == \A n \in Wrong \union NoNumbers : n >= i

\* n is the last use of a flag that has been read.
Latest(flag, n) ==
  n \in Uses({flag}) /\ n < i /\ \A m \in Uses({flag}) : m < i => m <= n

Unread(flags) == \A n \in Uses(flags) : n >= i

\* The options hold the values of the last uses that have been read.
TopRead ==
  \/ Unread({"--top"}) /\ opts.top_k = DefaultTop
  \/ \E n \in Nat : Latest("--top", n) /\ opts.top_k = Unsigned(argv[n + 1])
VotesRead ==
  \/ Unread({"--min-votes"}) /\ opts.min_votes = DefaultVotes
  \/ \E n \in Nat : Latest("--min-votes", n)
                    /\ opts.min_votes = Unsigned(argv[n + 1]) % VoteModulus
RatingRead ==
  \/ Unread({"--min-rating"}) /\ opts.min_rating = 0
  \/ \E n \in Nat : Latest("--min-rating", n)
                    /\ opts.min_rating = ParsedNumber(argv[n + 1])
SwitchesRead ==
  /\ opts.data_set <=> ~Unread({"--data"})
  /\ opts.show_help <=> ~Unread(HelpFlags)

\* top_k runs, and a program ends with 0 unasked, when all arguments are read.
AllRead ==
  /\ pc = "running" => i > Len(argv) /\ opts.data_set /\ ~opts.show_help
  /\ pc = "exited" /\ code = 0 /\ Uses(HelpFlags) = {} => i > Len(argv)

CliInv ==
  /\ TypeOK
  /\ AtFlag /\ NothingWrong
  /\ TopRead /\ VotesRead /\ RatingRead /\ SwitchesRead
  /\ AllRead /\ ExitCodes

\* Uses of a flag are arguments.
LEMMA UsesAre ==
  ASSUME argv \in Seq(Args)
  PROVE  /\ Len(argv) \in Nat /\ \A n \in 1..Len(argv) : argv[n] \in Args
         /\ FlagAt \subseteq 1..Len(argv)
         /\ \A flags : Uses(flags) \subseteq 1..Len(argv)
         /\ Wrong \subseteq 1..Len(argv) /\ NoNumbers \subseteq 1..Len(argv)
<1>1. Len(argv) \in Nat /\ \A n \in 1..Len(argv) : argv[n] \in Args
  OBVIOUS
<1> QED BY <1>1, FlagAtFollows DEF Uses, Wrong, NoNumbers

\* The arguments do not change, so neither does what they say.
LEMMA ArgumentsStay ==
  ASSUME argv' = argv
  PROVE  /\ FlagAt' = FlagAt /\ Wrong' = Wrong /\ NoNumbers' = NoNumbers
         /\ (WellFormed' <=> WellFormed)
         /\ \A flags : Uses(flags)' = Uses(flags)
<1>1. FlagAt' = FlagAt
  BY DEF FlagAt
<1>2. \A flags : Uses(flags)' = Uses(flags)
  BY <1>1 DEF Uses
<1>3. \A flag, w : NumberThrows(flag, w)' <=> NumberThrows(flag, w)
  BY DEF NumberThrows, ParsedNumber
<1> QED BY <1>1, <1>2, <1>3 DEF Wrong, NoNumbers, WellFormed

\* Before the first argument nothing is read.
LEMMA CliInit == Init => CliInv
<1> SUFFICES ASSUME Init PROVE CliInv
  OBVIOUS
<1>1. PICK n \in 0..MaxArgs : argv \in [1..n -> Args]
  BY DEF Init
<1>2. argv \in Seq(Args) /\ i = 1 /\ pc = "parsing" /\ code = -1
  <2>1. n \in Nat
    BY CliAssumption
  <2> QED BY <1>1, <2>1, SeqDef DEF Init
<1>3. /\ opts.top_k = DefaultTop /\ opts.min_votes = DefaultVotes /\ opts.min_rating = 0
      /\ opts.data_set = FALSE /\ opts.show_help = FALSE
  BY DEF Init, Defaults
<1>4. TypeOK
  <2>1. opts \in [top_k : Nat, min_votes : Nat, min_rating : Int,
                  data : Args \union {Defaults.data}, data_set : BOOLEAN, show_help : BOOLEAN]
    BY CliAssumption DEF Init, Defaults
  <2>2. Len(argv) \in Nat
    BY <1>2
  <2> QED BY <1>2, <2>1, <2>2 DEF TypeOK
<1>5. \A flags : Unread(flags)
  BY <1>2, UsesAre DEF Unread
<1>6. AtFlag
  BY <1>2, FlagAtFollows, UsesAre DEF AtFlag, Follows
<1>7. NothingWrong
  BY <1>2, UsesAre DEF NothingWrong
<1> QED
  BY <1>2, <1>3, <1>4, <1>5, <1>6, <1>7
  DEF CliInv, TopRead, VotesRead, RatingRead, SwitchesRead, AllRead, ExitCodes

-----------------------------------------------------------------------------
\* One iteration of the loop of ParseArgs.

\* Stepping over a switch, or over a flag and its value, reads one flag and gets to
\* the next, and nothing is wrong with a flag whose value is there and parses.
LEMMA FlagRead ==
  ASSUME TypeOK, AtFlag, NothingWrong, i <= Len(argv), argv' = argv, argv[i] \notin Words,
         \/ argv[i] \notin ValueFlags /\ i' = i + 1
         \/ /\ argv[i] \in ValueFlags /\ i < Len(argv) /\ i' = i + 2
            /\ argv[i] \in NumberFlags => ~NumberThrows(argv[i], argv[i + 1])
  PROVE  /\ AtFlag' /\ NothingWrong'
         /\ i \in FlagAt /\ \A n \in FlagAt : n < i' <=> n < i \/ n = i
<1>1. i \in 1..Len(argv) /\ Len(argv) \in Nat /\ argv[i] \in Args /\ FlagAt \subseteq 1..Len(argv)
  BY UsesAre DEF TypeOK
<1>2. i \in FlagAt /\ (i - 1 \in FlagAt => argv[i - 1] \notin ValueFlags)
  BY <1>1 DEF AtFlag
<1>3. \A n \in 1..Len(argv) : n \in FlagAt <=> Follows(FlagAt, n)
  BY <1>1, FlagAtFollows
<1>4. i + 1 \in FlagAt => argv[i] \notin ValueFlags
  BY <1>1, <1>2, <1>3 DEF Follows
<1>5. \A n \in FlagAt : n < i' <=> n < i \/ n = i
  <2> SUFFICES ASSUME NEW n \in FlagAt PROVE n < i' <=> n < i \/ n = i
    OBVIOUS
  <2>1. n \in Int /\ i \in Int
    BY <1>1
  <2> QED BY <1>1, <1>4, <2>1
<1>6. AtFlag'
  <2>1. i' <= Len(argv) => i' \in FlagAt
    BY <1>1, <1>2, <1>3 DEF Follows
  <2>2. i' - 1 \in FlagAt => argv[i' - 1] \notin ValueFlags
    <3>1. CASE i' = i + 1
      <4>1. i' - 1 = i
        BY <1>1, <3>1
      <4> QED BY <1>1, <1>2, <3>1, <4>1
    <3>2. CASE i' = i + 2
      <4>1. i' - 1 = i + 1 /\ i + 1 # i + 2
        BY <1>1, <3>2
      <4> QED BY <1>1, <1>4, <3>2, <4>1
    <3> QED BY <3>1, <3>2
  <2> QED BY <2>1, <2>2, ArgumentsStay DEF AtFlag
<1>7. NothingWrong'
  <2>1. i \notin Wrong
    BY <1>1, FlagNames DEF Wrong, Uses
  <2>2. i \notin NoNumbers
    BY <1>1, FlagNames DEF NoNumbers, Uses, ValueFlags
  <2>3. Wrong \union NoNumbers \subseteq FlagAt
    BY DEF Wrong, NoNumbers, Uses
  <2>4. ASSUME NEW n \in Wrong \union NoNumbers PROVE n >= i'
    <3>1. n \in FlagAt /\ n # i
      BY <2>1, <2>2, <2>3
    <3>2. n >= i
      BY DEF NothingWrong
    <3>3. n \in Int /\ i' \in Int /\ i \in Int
      BY <1>1, <3>1
    <3>4. ~(n < i')
      BY <1>5, <3>1, <3>2, <3>3
    <3> QED BY <3>3, <3>4
  <2> QED BY <2>4, ArgumentsStay DEF NothingWrong
<1> QED BY <1>2, <1>5, <1>6, <1>7

\* What has been read of a flag changes by its use alone.
LEMMA UseRead ==
  ASSUME argv' = argv, i \in FlagAt, i \in Nat, i' \in Nat, FlagAt \subseteq Nat,
         \A n \in FlagAt : n < i' <=> n < i \/ n = i
  PROVE  \A flag :
           /\ argv[i] = flag => \A n \in Nat : n = i => Latest(flag, n)'
           /\ argv[i] # flag => \A n \in Nat : Latest(flag, n) => Latest(flag, n)'
<1>1. \A flags : Uses(flags)' = Uses(flags)
  BY ArgumentsStay
<1>2. \A flag, n : n \in Uses({flag}) <=> n \in FlagAt /\ argv[n] = flag
  BY DEF Uses
<1>3. \A flag, n : Latest(flag, n)' <=>
        n \in Uses({flag}) /\ n < i' /\ \A m \in Uses({flag}) : m < i' => m <= n
  BY <1>1 DEF Latest
<1> SUFFICES ASSUME NEW flag
             PROVE  /\ argv[i] = flag => \A n \in Nat : n = i => Latest(flag, n)'
                    /\ argv[i] # flag => \A n \in Nat : Latest(flag, n) => Latest(flag, n)'
  OBVIOUS
<1>4. ASSUME argv[i] = flag, NEW n \in Nat, n = i PROVE Latest(flag, n)'
  <2>1. i \in Uses({flag}) /\ i < i'
    BY <1>2, <1>4
  <2>2. ASSUME NEW m \in Uses({flag}), m < i' PROVE m <= i
    <3>1. m \in FlagAt /\ m \in Nat
      BY <1>2
    <3>2. m < i \/ m = i
      BY <2>2, <3>1
    <3> QED BY <3>1, <3>2
  <2>3. \A m \in Uses({flag}) : m < i' => m <= i
    BY <2>2
  <2> QED BY <1>3, <1>4, <2>1, <2>3
<1>5. ASSUME argv[i] # flag, NEW n \in Nat, Latest(flag, n) PROVE Latest(flag, n)'
  <2>1. n \in Uses({flag}) /\ n < i' /\ \A m \in Uses({flag}) : m < i => m <= n
    BY <1>2, <1>5 DEF Latest
  <2>2. \A m \in Uses({flag}) : m < i' => m <= n
    BY <1>2, <1>5, <2>1
  <2> QED BY <1>3, <2>1, <2>2
<1> QED BY <1>4, <1>5

LEMMA UnreadUse ==
  ASSUME argv' = argv, i \in FlagAt, i \in Nat, i' \in Nat, FlagAt \subseteq Nat,
         \A n \in FlagAt : n < i' <=> n < i \/ n = i
  PROVE  \A flags : Unread(flags)' <=> Unread(flags) /\ argv[i] \notin flags
<1>1. \A flags : Uses(flags)' = Uses(flags)
  BY ArgumentsStay
<1>2. \A flags : Unread(flags)' <=> \A n \in Uses(flags) : n >= i'
  BY <1>1 DEF Unread
<1>3. \A n \in FlagAt : n \in Nat /\ (n >= i' <=> n >= i /\ n # i)
  <2> SUFFICES ASSUME NEW n \in FlagAt PROVE n \in Nat /\ (n >= i' <=> n >= i /\ n # i)
    OBVIOUS
  <2>1. n \in Nat /\ (n < i' <=> n < i \/ n = i)
    OBVIOUS
  <2> QED BY <2>1
<1>4. \A flags : \A n \in Uses(flags) : n \in FlagAt /\ argv[n] \in flags
  BY DEF Uses
<1>5. \A flags : i \in Uses(flags) <=> argv[i] \in flags
  BY DEF Uses
<1> QED BY <1>2, <1>3, <1>4, <1>5 DEF Unread

\* A flag other than the one that is read keeps its option.
LEMMA OthersRead ==
  ASSUME CliInv, argv' = argv, i \in FlagAt, i \in Nat, i' \in Nat, FlagAt \subseteq Nat,
         \A n \in FlagAt : n < i' <=> n < i \/ n = i
  PROVE  /\ argv[i] # "--top" /\ opts'.top_k = opts.top_k => TopRead'
         /\ argv[i] # "--min-votes" /\ opts'.min_votes = opts.min_votes => VotesRead'
         /\ argv[i] # "--min-rating" /\ opts'.min_rating = opts.min_rating => RatingRead'
<1>1. \A flag : argv[i] # flag => /\ Unread({flag}) => Unread({flag})'
                                  /\ \A n \in Nat : Latest(flag, n) => Latest(flag, n)'
  <2>1. \A flag : argv[i] # flag => argv[i] \notin {flag}
    OBVIOUS
  <2> QED BY <2>1, UseRead, UnreadUse
<1>2. ASSUME argv[i] # "--top", opts'.top_k = opts.top_k PROVE TopRead'
  BY <1>1, <1>2 DEF CliInv, TopRead, Unsigned, ParsedNumber
<1>3. ASSUME argv[i] # "--min-votes", opts'.min_votes = opts.min_votes PROVE VotesRead'
  BY <1>1, <1>3 DEF CliInv, VotesRead, Unsigned, ParsedNumber
<1>4. ASSUME argv[i] # "--min-rating", opts'.min_rating = opts.min_rating PROVE RatingRead'
  BY <1>1, <1>4 DEF CliInv, RatingRead, ParsedNumber
<1> QED BY <1>2, <1>3, <1>4

\* A number that does not throw is one, and a size_t can hold it.
LEMMA Parses ==
  ASSUME NEW flag, NEW w, ~NumberThrows(flag, w)
  PROVE  ParsedNumber(w) \in Int /\ Unsigned(w) \in 0..(SizeModulus - 1)
<1>1. ParsedNumber(w) \in Int
  BY CliAssumption DEF NumberThrows, ParsedNumber
<1>2. SizeModulus \in Nat \ {0}
  BY CliAssumption
<1> QED BY <1>1, <1>2 DEF Unsigned

\* --help and --quiet.
LEMMA SetSwitchInv == CliInv /\ SetSwitch => CliInv'
<1> SUFFICES ASSUME CliInv, SetSwitch PROVE CliInv'
  OBVIOUS
<1>1. /\ pc = "parsing" /\ i <= Len(argv) /\ argv[i] \in HelpFlags \union QuietFlags
      /\ opts' = [opts EXCEPT !.show_help = opts.show_help \/ argv[i] \in HelpFlags]
      /\ i' = i + 1 /\ argv' = argv /\ pc' = pc /\ code' = code
  BY DEF SetSwitch, Parsing, Arg, GoOn
<1>2. /\ argv \in Seq(Args) /\ i \in 1..Len(argv) /\ Len(argv) \in Nat /\ i \in Nat /\ i' \in Nat
      /\ opts \in [top_k : Nat, min_votes : Nat, min_rating : Int,
                   data : Args \union {Defaults.data}, data_set : BOOLEAN, show_help : BOOLEAN]
  BY <1>1 DEF CliInv, TypeOK
<1>3. /\ argv[i] \notin Words /\ argv[i] \notin ValueFlags
      /\ argv[i] \notin {"--data"} /\ argv[i] # "--top" /\ argv[i] # "--min-votes"
      /\ argv[i] # "--min-rating"
  BY <1>1, FlagNames
<1>4. /\ AtFlag' /\ NothingWrong' /\ i \in FlagAt
      /\ \A n \in FlagAt : n < i' <=> n < i \/ n = i
  BY <1>1, <1>2, <1>3, FlagRead DEF CliInv
<1>5. FlagAt \subseteq Nat
  BY <1>2, UsesAre
<1>6. /\ opts'.top_k = opts.top_k /\ opts'.min_votes = opts.min_votes
      /\ opts'.min_rating = opts.min_rating /\ opts'.data_set = opts.data_set
      /\ opts'.show_help = (opts.show_help \/ argv[i] \in HelpFlags)
      /\ opts' \in [top_k : Nat, min_votes : Nat, min_rating : Int,
                    data : Args \union {Defaults.data}, data_set : BOOLEAN, show_help : BOOLEAN]
  BY <1>1, <1>2
<1>7. TopRead' /\ VotesRead' /\ RatingRead'
  BY <1>1, <1>2, <1>3, <1>4, <1>5, <1>6, OthersRead
<1>8. SwitchesRead'
  <2>1. \A flags : Unread(flags)' <=> Unread(flags) /\ argv[i] \notin flags
    BY <1>1, <1>2, <1>4, <1>5, UnreadUse
  <2> QED BY <1>3, <1>6, <2>1 DEF CliInv, SwitchesRead, HelpFlags
<1>9. TypeOK'
  <2>1. i' \in 1..(Len(argv) + 1)
    BY <1>1, <1>2
  <2> QED BY <1>1, <1>2, <1>6, <2>1 DEF CliInv, TypeOK
<1> QED
  BY <1>1, <1>4, <1>7, <1>8, <1>9 DEF CliInv, AllRead, ExitCodes

\* The flags with a value.
LEMMA SetOptionInv == CliInv /\ SetOption => CliInv'
<1> SUFFICES ASSUME CliInv, SetOption PROVE CliInv'
  OBVIOUS
<1> DEFINE w == argv[i + 1]
<1>1. /\ pc = "parsing" /\ i < Len(argv) /\ i <= Len(argv) /\ argv[i] \in ValueFlags
      /\ argv[i] \in NumberFlags => ~NumberThrows(argv[i], w)
      /\ i' = i + 2 /\ argv' = argv /\ pc' = pc /\ code' = code
  <2>1. i \in Int /\ Len(argv) \in Nat
    BY DEF CliInv, TypeOK
  <2> QED BY <2>1 DEF SetOption, HasValue, Parsing, Arg, Value, GoOn
<1>2. /\ argv \in Seq(Args) /\ i \in 1..Len(argv) /\ Len(argv) \in Nat /\ i \in Nat /\ i' \in Nat
      /\ opts \in [top_k : Nat, min_votes : Nat, min_rating : Int,
                   data : Args \union {Defaults.data}, data_set : BOOLEAN, show_help : BOOLEAN]
      /\ w \in Args
  <2>1. argv \in Seq(Args) /\ i \in 1..Len(argv) /\ Len(argv) \in Nat
    BY <1>1 DEF CliInv, TypeOK
  <2>2. i + 1 \in 1..Len(argv)
    BY <1>1, <2>1
  <2> QED BY <1>1, <2>1, <2>2 DEF CliInv, TypeOK
<1>3. argv[i] \notin Words /\ argv[i] \notin HelpFlags
  BY <1>1, FlagNames
<1>4. /\ AtFlag' /\ NothingWrong' /\ i \in FlagAt
      /\ \A n \in FlagAt : n < i' <=> n < i \/ n = i
  BY <1>1, <1>2, <1>3, FlagRead DEF CliInv
<1>5. FlagAt \subseteq Nat
  BY <1>2, UsesAre
<1>6. /\ \A flags : Unread(flags)' <=> Unread(flags) /\ argv[i] \notin flags
      /\ \A flag : argv[i] = flag => \A n \in Nat : n = i => Latest(flag, n)'
  BY <1>1, <1>2, <1>4, <1>5, UnreadUse, UseRead
<1>7. \/ argv[i] \notin NumberFlags
      \/ ParsedNumber(w) \in Int /\ Unsigned(w) \in Nat /\ Unsigned(w) % VoteModulus \in Nat
  <2> SUFFICES ASSUME argv[i] \in NumberFlags
               PROVE  ParsedNumber(w) \in Int /\ Unsigned(w) \in Nat
                      /\ Unsigned(w) % VoteModulus \in Nat
    OBVIOUS
  <2>1. ParsedNumber(w) \in Int /\ Unsigned(w) \in 0..(SizeModulus - 1)
    BY <1>1, Parses
  <2>2. VoteModulus \in Nat \ {0} /\ SizeModulus \in Nat
    BY CliAssumption
  <2> QED BY <2>1, <2>2
<1> DEFINE Typed(o) == o \in [top_k : Nat, min_votes : Nat, min_rating : Int,
                              data : Args \union {Defaults.data}, data_set : BOOLEAN,
                              show_help : BOOLEAN]
<1> HIDE DEF w
<1>8. Typed(opts') /\ TopRead' /\ VotesRead' /\ RatingRead' /\ SwitchesRead'
  <2>1. CASE argv[i] = "--data"
    <3>1. opts' = [opts EXCEPT !.data = w, !.data_set = TRUE]
      BY <2>1 DEF SetOption, Arg, Value, w
    <3>2. /\ Typed(opts') /\ opts'.data_set = TRUE /\ opts'.show_help = opts.show_help
          /\ opts'.top_k = opts.top_k /\ opts'.min_votes = opts.min_votes
          /\ opts'.min_rating = opts.min_rating
      BY <1>2, <3>1
    <3>3. TopRead' /\ VotesRead' /\ RatingRead'
      BY <1>1, <1>2, <1>4, <1>5, <2>1, <3>2, OthersRead
    <3>4. SwitchesRead'
      BY <1>3, <1>6, <2>1, <3>2 DEF CliInv, SwitchesRead
    <3> QED BY <3>2, <3>3, <3>4
  <2>2. CASE argv[i] = "--top"
    <3>1. opts' = [opts EXCEPT !.top_k = Unsigned(w)]
      BY <2>2 DEF SetOption, Arg, Value, w
    <3>2. /\ Typed(opts') /\ opts'.data_set = opts.data_set /\ opts'.show_help = opts.show_help
          /\ opts'.top_k = Unsigned(w) /\ opts'.min_votes = opts.min_votes
          /\ opts'.min_rating = opts.min_rating
      BY <1>2, <1>7, <2>2, <3>1 DEF NumberFlags
    <3>3. VotesRead' /\ RatingRead'
      BY <1>1, <1>2, <1>4, <1>5, <2>2, <3>2, OthersRead
    <3>4. TopRead'
      BY <1>1, <1>2, <1>6, <2>2, <3>2 DEF TopRead, Unsigned, ParsedNumber, w
    <3>5. SwitchesRead'
      BY <1>3, <1>6, <2>2, <3>2 DEF CliInv, SwitchesRead
    <3> QED BY <3>2, <3>3, <3>4, <3>5
  <2>3. CASE argv[i] = "--min-votes"
    <3>1. opts' = [opts EXCEPT !.min_votes = Unsigned(w) % VoteModulus]
      BY <2>3 DEF SetOption, Arg, Value, w
    <3>2. /\ Typed(opts') /\ opts'.data_set = opts.data_set /\ opts'.show_help = opts.show_help
          /\ opts'.top_k = opts.top_k /\ opts'.min_votes = Unsigned(w) % VoteModulus
          /\ opts'.min_rating = opts.min_rating
      BY <1>2, <1>7, <2>3, <3>1 DEF NumberFlags
    <3>3. TopRead' /\ RatingRead'
      BY <1>1, <1>2, <1>4, <1>5, <2>3, <3>2, OthersRead
    <3>4. VotesRead'
      BY <1>1, <1>2, <1>6, <2>3, <3>2 DEF VotesRead, Unsigned, ParsedNumber, w
    <3>5. SwitchesRead'
      BY <1>3, <1>6, <2>3, <3>2 DEF CliInv, SwitchesRead
    <3> QED BY <3>2, <3>3, <3>4, <3>5
  <2>4. CASE argv[i] = "--min-rating"
    <3>1. opts' = [opts EXCEPT !.min_rating = ParsedNumber(w)]
      BY <2>4 DEF SetOption, Arg, Value, w
    <3>2. /\ Typed(opts') /\ opts'.data_set = opts.data_set /\ opts'.show_help = opts.show_help
          /\ opts'.top_k = opts.top_k /\ opts'.min_votes = opts.min_votes
          /\ opts'.min_rating = ParsedNumber(w)
      BY <1>2, <1>7, <2>4, <3>1 DEF NumberFlags
    <3>3. TopRead' /\ VotesRead'
      BY <1>1, <1>2, <1>4, <1>5, <2>4, <3>2, OthersRead
    <3>4. RatingRead'
      BY <1>1, <1>2, <1>6, <2>4, <3>2 DEF RatingRead, ParsedNumber, w
    <3>5. SwitchesRead'
      BY <1>3, <1>6, <2>4, <3>2 DEF CliInv, SwitchesRead
    <3> QED BY <3>2, <3>3, <3>4, <3>5
  <2> QED BY <1>1, <2>1, <2>2, <2>3, <2>4, FlagNames
<1>9. TypeOK'
  <2>1. i' \in 1..(Len(argv) + 1)
    BY <1>1, <1>2
  <2> QED BY <1>1, <1>2, <1>8, <2>1 DEF CliInv, TypeOK
<1> QED
  BY <1>1, <1>4, <1>8, <1>9 DEF CliInv, AllRead, ExitCodes

-----------------------------------------------------------------------------
\* The ends of ParseArgs and of main.

\* A step that reads no argument leaves what has been read.
LEMMA ReadStays ==
  ASSUME CliInv, UNCHANGED <<argv, i, opts>>,
         pc' \in {"parsing", "running", "exited", "terminated"}, code' \in {-1, 0, 1, 2}
  PROVE  /\ TypeOK' /\ AtFlag' /\ NothingWrong'
         /\ TopRead' /\ VotesRead' /\ RatingRead' /\ SwitchesRead'
<1>1. /\ FlagAt' = FlagAt /\ Wrong' = Wrong /\ NoNumbers' = NoNumbers
      /\ \A flags : Uses(flags)' = Uses(flags)
  BY ArgumentsStay
<1>2. TypeOK'
  BY DEF CliInv, TypeOK
<1>3. AtFlag' /\ NothingWrong'
  BY <1>1 DEF CliInv, AtFlag, NothingWrong
<1>4. /\ \A flags : Unread(flags)' <=> Unread(flags)
      /\ \A flag, n : Latest(flag, n)' <=> Latest(flag, n)
  BY <1>1 DEF Unread, Latest
<1>5. TopRead' /\ VotesRead' /\ RatingRead'
  BY <1>4 DEF CliInv, TopRead, VotesRead, RatingRead, Unsigned, ParsedNumber
<1>6. SwitchesRead'
  BY <1>4 DEF CliInv, SwitchesRead
<1> QED BY <1>2, <1>3, <1>5, <1>6

\* When all arguments are read, nothing is wrong with them and every use is read.
LEMMA NothingAhead ==
  ASSUME CliInv, i > Len(argv)
  PROVE  /\ Wrong = {} /\ NoNumbers = {}
         /\ opts.data_set <=> Uses({"--data"}) # {}
         /\ opts.show_help <=> Uses(HelpFlags) # {}
<1>1. /\ Wrong \subseteq 1..Len(argv) /\ NoNumbers \subseteq 1..Len(argv)
      /\ \A flags : Uses(flags) \subseteq 1..Len(argv)
      /\ Len(argv) \in Nat /\ i \in Nat
  BY UsesAre DEF CliInv, TypeOK
<1>2. \A n \in 1..Len(argv) : ~(n >= i)
  BY <1>1
<1>3. Wrong = {} /\ NoNumbers = {}
  BY <1>1, <1>2 DEF CliInv, NothingWrong
<1>4. \A flags : Unread(flags) <=> Uses(flags) = {}
  BY <1>1, <1>2 DEF Unread
<1> QED BY <1>3, <1>4 DEF CliInv, SwitchesRead

LEMMA HelpOrData == Uses({"--data"} \union HelpFlags) = Uses({"--data"}) \union Uses(HelpFlags)
BY DEF Uses

\* The line is wrong at its next argument: nothing before it threw.
LEMMA MalformedInv == CliInv /\ (MissingValue \/ UnknownFlag) => CliInv'
<1> SUFFICES ASSUME CliInv, MissingValue \/ UnknownFlag PROVE CliInv'
  OBVIOUS
<1>1. /\ pc = "parsing" /\ pc' = "exited" /\ code' = 2 /\ UNCHANGED <<argv, i, opts>>
      /\ i <= Len(argv)
      /\ argv[i] \in Words \/ (argv[i] \in ValueFlags /\ i = Len(argv))
  BY DEF MissingValue, UnknownFlag, Parsing, Arg, Exit
<1>2. i \in FlagAt
  BY <1>1 DEF CliInv, AtFlag
<1>3. i \in Wrong
  BY <1>1, <1>2 DEF Wrong, Uses
<1>4. \A n \in NoNumbers : ~(n < i)
  <2>1. NoNumbers \subseteq Nat /\ i \in Nat
    BY UsesAre DEF CliInv, TypeOK
  <2> QED BY <2>1 DEF CliInv, NothingWrong
<1>5. ~(\E n \in NoNumbers : \A m \in Wrong : n < m) /\ ~WellFormed
  BY <1>3, <1>4 DEF WellFormed
<1>6. ExitCodes'
  BY <1>1, <1>5, ArgumentsStay DEF ExitCodes
<1>7. AllRead'
  BY <1>1 DEF AllRead
<1> QED BY <1>1, <1>6, <1>7, ReadStays DEF CliInv

\* The exception: nothing is wrong with the line up to here.
LEMMA BadNumberInv == CliInv /\ BadNumber => CliInv'
<1> SUFFICES ASSUME CliInv, BadNumber PROVE CliInv'
  OBVIOUS
<1>1. /\ pc = "parsing" /\ pc' = "terminated" /\ code' = code /\ UNCHANGED <<argv, i, opts>>
      /\ i <= Len(argv) /\ i < Len(argv)
      /\ argv[i] \in NumberFlags /\ NumberThrows(argv[i], argv[i + 1])
  BY DEF BadNumber, HasValue, Parsing, Arg, Value
<1>2. i \in FlagAt
  BY <1>1 DEF CliInv, AtFlag
<1>3. /\ i \in NoNumbers
  BY <1>1, <1>2 DEF NoNumbers, Uses
<1>4. i \notin Wrong
  <2>1. argv[i] \notin Words /\ i # Len(argv)
    BY <1>1, FlagNames DEF CliInv, TypeOK, ValueFlags
  <2> QED BY <2>1 DEF Wrong, Uses
<1>5. \A m \in Wrong : i < m
  <2>1. Wrong \subseteq Nat /\ i \in Nat
    BY UsesAre DEF CliInv, TypeOK
  <2>2. \A m \in Wrong : m >= i /\ m # i
    BY <1>4 DEF CliInv, NothingWrong
  <2> QED BY <2>1, <2>2
<1>6. ExitCodes'
  BY <1>1, <1>3, <1>5, ArgumentsStay DEF ExitCodes
<1>7. AllRead'
  BY <1>1 DEF AllRead
<1> QED BY <1>1, <1>6, <1>7, ReadStays DEF CliInv, TypeOK

\* All arguments are read, and main is left or goes on to top_k.
LEMMA ParsedInv == CliInv /\ (NoData \/ Help \/ Run) => CliInv'
<1> SUFFICES ASSUME CliInv, NoData \/ Help \/ Run PROVE CliInv'
  OBVIOUS
<1>1. /\ pc = "parsing" /\ i > Len(argv) /\ UNCHANGED <<argv, i, opts>>
      /\ \/ pc' = "exited" /\ code' = 2 /\ ~opts.data_set /\ ~opts.show_help
         \/ pc' = "exited" /\ code' = 0 /\ opts.show_help
         \/ pc' = "running" /\ code' = code /\ opts.data_set /\ ~opts.show_help
  BY DEF NoData, Help, Run, Parsed, Exit
<1>2. /\ Wrong = {} /\ NoNumbers = {}
      /\ opts.data_set <=> Uses({"--data"}) # {}
      /\ opts.show_help <=> Uses(HelpFlags) # {}
  BY <1>1, NothingAhead
<1>3. WellFormed <=> opts.data_set \/ opts.show_help
  BY <1>2, HelpOrData DEF WellFormed
<1>4. ExitCodes'
  BY <1>1, <1>2, <1>3, ArgumentsStay DEF ExitCodes
<1>5. AllRead'
  BY <1>1, <1>2 DEF AllRead
<1> QED BY <1>1, <1>4, <1>5, ReadStays DEF CliInv, TypeOK

\* top_k returns or throws.
LEMMA TopKInv == CliInv /\ (TopKThrows \/ TopKReturns) => CliInv'
<1> SUFFICES ASSUME CliInv, TopKThrows \/ TopKReturns PROVE CliInv'
  OBVIOUS
<1>1. /\ pc = "running" /\ pc' = "exited" /\ UNCHANGED <<argv, i, opts>>
      /\ \/ code' = 1
         \/ code' = 0 /\ (opts.top_k > 0 => opts.data \in Readable)
  BY DEF TopKThrows, TopKReturns, Exit
<1>2. i > Len(argv) /\ opts.data_set /\ ~opts.show_help
  BY <1>1 DEF CliInv, AllRead
<1>3. /\ Wrong = {} /\ NoNumbers = {} /\ Uses({"--data"}) # {} /\ Uses(HelpFlags) = {}
  BY <1>2, NothingAhead
<1>4. WellFormed
  BY <1>3, HelpOrData DEF WellFormed
<1>5. ExitCodes'
  BY <1>1, <1>3, <1>4, ArgumentsStay DEF ExitCodes
<1>6. AllRead'
  BY <1>1, <1>2 DEF AllRead
<1> QED BY <1>1, <1>5, <1>6, ReadStays DEF CliInv

\* No step leaves the invariant.
LEMMA CliStep == CliInv /\ [Next]_vars => CliInv'
<1> SUFFICES ASSUME CliInv, [Next]_vars PROVE CliInv'
  OBVIOUS
<1>1. CASE UNCHANGED vars
  <2>1. UNCHANGED <<argv, i, opts, pc, code>>
    BY <1>1 DEF vars
  <2>2. AllRead' /\ ExitCodes'
    BY <2>1, ArgumentsStay DEF CliInv, AllRead, ExitCodes
  <2> QED BY <2>1, <2>2, ReadStays DEF CliInv, TypeOK
<1> QED
  BY <1>1, SetSwitchInv, SetOptionInv, MalformedInv, BadNumberInv, ParsedInv, TopKInv
  DEF Next, ParseArgs, Stopped

LEMMA CliInvCorrect == Spec => []CliInv
BY CliInit, CliStep, PTL DEF Spec

\* The options are of their types whatever numbers are given.
THEOREM CliTypeCorrect == Spec => []TypeOK
BY CliInvCorrect, PTL DEF CliInv

\* The exit code says what cli.cpp:17-20 says of it, for every command line: 2 for
\* one that is not well formed, an exception for the first number that does not
\* parse, 0 for help, and 0 without it only when the file can be read.
THEOREM ExitCodesCorrect == Spec => []ExitCodes
BY CliInvCorrect, PTL DEF CliInv

-----------------------------------------------------------------------------
\* The program does to its arguments and its exit code what Cli says.

\* Where top_k and the stream are: the call is made once the arguments are read, and
\* the path names a file that can be opened or does not; top_k throws when there is
\* no room or no file, and returns when it did not have to.
ControlInv ==
  /\ topk \in {"idle", "start", "streaming", "draining", "returned", "threw"}
  /\ stream \in {"open", "reading", "ending", "returned"}
       \/ (stream = "threw" /\ topk = "threw")
  /\ file \in Contents \union {NoFile}
  /\ pc = "parsing" => topk = "idle"
  /\ topk = "idle" => file = NoFile
  /\ topk \in {"idle", "start"} => stream = "open"
  /\ topk # "idle" => (file = NoFile <=> opts.data \notin Readable)
  /\ topk = "streaming" =>
       /\ opts.top_k \in 1..MaxReserve
       /\ stream \in {"open", "reading", "ending"}
       /\ stream # "open" => file # NoFile
  /\ topk = "draining" => opts.top_k \in 1..MaxReserve /\ file # NoFile
  /\ topk = "returned" => opts.top_k <= MaxReserve /\ (opts.top_k > 0 => file # NoFile)
  /\ topk = "threw" => opts.top_k > MaxReserve \/ (opts.top_k > 0 /\ file = NoFile)

\* main has called the stream as top_k does, with a callable that is never null.
LEMMA CallIs ==
  /\ Call.api = "StreamMovies"
  /\ Call.opts = [min_votes |-> opts.min_votes, min_rating |-> opts.min_rating, types |-> {},
                  skip_header |-> TRUE, progress_every |-> Unset]
BY DEF Call, CallWith

LEMMA ControlInit == CommandInit => ControlInv
BY DEF CommandInit, ControlInv, Init

\* What the steps of the stream do to its own control, and that top_k does nothing
\* to the arguments meanwhile.
LEMMA StreamMoves ==
  ASSUME topk = "streaming", Read \/ Visit
  PROVE  /\ UNCHANGED <<argv, i, opts, pc, code, topk, rows, file>>
         /\ \/ stream = "open" /\ file # NoFile /\ stream' = "reading"
            \/ stream = "reading" /\ stream' \in {"reading", "ending"}
<1>1. UNCHANGED <<argv, i, opts, pc, code, topk, rows>>
  BY DEF Read, Visit, vars
<1>2. CASE Visit
  BY <1>1, <1>2
  DEF Visit, Stream!Keep, Stream!Row, Stream!NextLine, Stream!AfterVisit
<1>3. CASE Read
  BY <1>1, <1>3
  DEF Read, Stream!Open, Stream!SkipBlank, Stream!ConsumeHeader, Stream!RejectUnparsed,
      Stream!RejectFiltered, Stream!EndOfFile, Stream!Row, Stream!NextLine
<1> QED BY <1>1, <1>2, <1>3

LEMMA ControlStep == TypeOK /\ ControlInv /\ [CommandNext]_commandVars => ControlInv'
<1> SUFFICES ASSUME TypeOK, ControlInv, [CommandNext]_commandVars PROVE ControlInv'
  OBVIOUS
<1>0. opts.top_k \in Nat /\ MaxReserve \in Nat
  BY CliAssumption DEF TypeOK
<1>1. CASE ParseStep
  <2>1. pc = "parsing" /\ UNCHANGED <<topk, file, stream>>
    BY <1>1 DEF ParseStep, ParseArgs, MissingValue, UnknownFlag, BadNumber, SetOption, SetSwitch,
                NoData, Help, HasValue, Parsing, Parsed, loaderVars
  <2> QED BY <2>1 DEF ControlInv
<1>2. CASE CallTopK
  BY <1>2, ContentsAssumption DEF CallTopK, Run, Parsed, ControlInv
<1>3. CASE ReturnNothing \/ ReserveThrows \/ Start
  <2>1. /\ topk = "start" /\ UNCHANGED <<argv, i, opts, pc, code, file, stream>>
        /\ \/ topk' = "returned" /\ opts.top_k = 0
           \/ topk' = "threw" /\ opts.top_k > MaxReserve
           \/ topk' = "streaming" /\ opts.top_k \in 1..MaxReserve
    BY <1>3 DEF ReturnNothing, ReserveThrows, Start, TopKStep, vars, loaderVars
  <2> QED BY <1>0, <2>1 DEF ControlInv
<1>4. CASE StreamThrows
  <2>1. /\ topk = "streaming" /\ topk' = "threw" /\ stream' = "threw" /\ file = NoFile
        /\ UNCHANGED <<argv, i, opts, pc, code, file>>
    BY <1>4, CallIs DEF StreamThrows, Stream!OpenFails, Stream!Throws, vars
  <2> QED BY <1>0, <2>1 DEF ControlInv
<1>5. CASE Read \/ Visit
  <2>1. topk = "streaming"
    BY <1>5 DEF Read, Visit
  <2> QED BY <1>5, <2>1, StreamMoves DEF ControlInv
<1>6. CASE EndStream
  <2>1. /\ topk = "streaming" /\ topk' = "draining" /\ stream = "ending" /\ stream' = "returned"
        /\ UNCHANGED <<argv, i, opts, pc, code, file>>
    BY <1>6, CallIs DEF EndStream, Stream!Finish, vars
  <2> QED BY <2>1 DEF ControlInv
<1>7. CASE Drain \/ ReverseRows
  <2>1. /\ topk = "draining" /\ topk' \in {"draining", "returned"}
        /\ UNCHANGED <<argv, i, opts, pc, code, file, stream>>
    BY <1>7 DEF Drain, ReverseRows, TopKStep, vars, loaderVars
  <2> QED BY <1>0, <2>1 DEF ControlInv
<1>8. CASE Catch \/ PrintTable
  <2>1. pc' = "exited" /\ UNCHANGED <<opts, topk, file, stream>>
    BY <1>8 DEF Catch, PrintTable, Exit, loaderVars
  <2> QED BY <2>1 DEF ControlInv
<1>9. CASE CommandStopped \/ UNCHANGED commandVars
  <2>1. UNCHANGED <<opts, pc, topk, file, stream>>
    BY <1>9 DEF CommandStopped, commandVars, vars, loaderVars
  <2> QED BY <2>1 DEF ControlInv
<1> QED
  BY <1>1, <1>2, <1>3, <1>4, <1>5, <1>6, <1>7, <1>8, <1>9 DEF CommandNext

\* Every step is one of Cli's or one that Cli does not see.
LEMMA CliStepOf == TypeOK /\ ControlInv /\ [CommandNext]_commandVars => [Next]_vars
<1> SUFFICES ASSUME TypeOK, ControlInv, [CommandNext]_commandVars PROVE [Next]_vars
  OBVIOUS
<1>0. opts.top_k \in Nat /\ MaxReserve \in Nat
  BY CliAssumption DEF TypeOK
<1>1. CASE ParseStep \/ CallTopK
  BY <1>1 DEF ParseStep, CallTopK, Next
<1>2. CASE Catch
  <2>1. /\ pc = "running" /\ Exit(1)
        /\ opts.top_k > MaxReserve \/ (opts.top_k > 0 /\ opts.data \notin Readable)
    BY <1>2 DEF Catch, ControlInv
  <2> QED BY <2>1 DEF Next, TopKThrows
<1>3. CASE PrintTable
  <2>1. /\ pc = "running" /\ Exit(0)
        /\ opts.top_k <= MaxReserve /\ (opts.top_k > 0 => opts.data \in Readable)
    BY <1>3 DEF PrintTable, ControlInv
  <2> QED BY <2>1 DEF Next, TopKReturns
<1>4. CASE ReturnNothing \/ ReserveThrows \/ Start \/ Drain \/ ReverseRows
  BY <1>4 DEF ReturnNothing, ReserveThrows, Start, Drain, ReverseRows, TopKStep
<1>5. CASE StreamThrows \/ Read \/ Visit \/ EndStream
  BY <1>5 DEF StreamThrows, Read, Visit, EndStream
<1>6. CASE CommandStopped \/ UNCHANGED commandVars
  BY <1>6 DEF CommandStopped, Stopped, commandVars
<1> QED BY <1>1, <1>2, <1>3, <1>4, <1>5, <1>6 DEF CommandNext

LEMMA ControlCorrect == CommandSpec => [](CliInv /\ ControlInv)
<1>1. CommandInit => CliInv /\ ControlInv
  BY CliInit, ControlInit DEF CommandInit
<1>2. CliInv /\ ControlInv /\ [CommandNext]_commandVars => CliInv' /\ ControlInv'
  BY ControlStep, CliStepOf, CliStep DEF CliInv
<1> QED BY <1>1, <1>2, PTL DEF CommandSpec

\* The whole program, seen from its arguments and its exit code, is what Cli says: a
\* call of top_k throws and returns exactly when Cli lets it.
THEOREM ProgramIsCli == CommandSpec => CliSpec
<1>1. CommandInit => Init
  BY DEF CommandInit
<1>2. CliInv /\ ControlInv /\ [CommandNext]_commandVars => [Next]_vars
  BY CliStepOf DEF CliInv
<1> QED BY <1>1, <1>2, ControlCorrect, PTL DEF CommandSpec, CliSpec, Spec

\* So the exit codes are right for the whole program, which MCCli checks.
THEOREM ProgramExitCodes == CommandSpec => []ExitCodes
BY ControlCorrect, PTL DEF CliInv

-----------------------------------------------------------------------------
\* What LoaderProofs shows of the loop of StreamMovies holds of the one that top_k
\* runs: the same substitution as Stream.
Loop == INSTANCE LoaderProofs WITH
  Files <- Contents, Calls <- {}, call <- Call, pc <- stream,
  since_progress <- 0, replayed <- <<>>, refusals <- 0, reports <- <<>>, result <- 0

\* The assumptions of Loader hold here.
LEMMA LoopAssumptions ==
  /\ \A f \in Contents : Loop!IsFile(f)
  /\ \A c \in {} : Loop!IsCall(c)
  /\ VoteModulus \in Nat \ {0}
  /\ \A f : Loop!IsFile(f) <=> Stream!IsFile(f)
<1>1. \A f : Loop!IsFile(f) <=> Stream!IsFile(f)
  BY DEF Loop!IsFile, Stream!IsFile
<1> QED BY <1>1, ContentsAssumption, CliAssumption

\* Its steps are those of Loader.
LEMMA LoopActions ==
  /\ Loop!Open <=> Stream!Open
  /\ Loop!SkipBlank <=> Stream!SkipBlank
  /\ Loop!ConsumeHeader <=> Stream!ConsumeHeader
  /\ Loop!RejectUnparsed <=> Stream!RejectUnparsed
  /\ Loop!RejectFiltered <=> Stream!RejectFiltered
  /\ Loop!Keep("go_on") <=> Stream!Keep("go_on")
<1>1. Loop!opts = Stream!opts /\ Loop!Line = Stream!Line /\ Loop!Saw = Stream!Saw
  BY DEF Loop!opts, Stream!opts, Loop!Line, Stream!Line, Loop!Saw, Stream!Saw
<1>2. /\ \A r : Loop!FieldCount(r) = Stream!FieldCount(r)
      /\ \A r : Loop!TypeAllowed(r) <=> Stream!TypeAllowed(r)
  BY <1>1 DEF Loop!FieldCount, Stream!FieldCount, Loop!TypeAllowed, Stream!TypeAllowed
<1>3. \A r : Loop!Builds(r) <=> Stream!Builds(r)
  BY <1>2 DEF Loop!Builds, Stream!Builds, Loop!ColumnOf, Stream!ColumnOf
<1>4. \A r : Loop!Keeps(r) <=> Stream!Keeps(r)
  BY <1>1 DEF Loop!Keeps, Stream!Keeps, Loop!Rating, Stream!Rating, Loop!Votes, Stream!Votes
<1>5. (Loop!NextLine <=> Stream!NextLine) /\ (Loop!Row <=> Stream!Row)
  BY <1>1 DEF Loop!NextLine, Stream!NextLine, Loop!Row, Stream!Row
<1>6. (Loop!Open <=> Stream!Open) /\ (Loop!SkipBlank <=> Stream!SkipBlank)
      /\ (Loop!ConsumeHeader <=> Stream!ConsumeHeader)
  BY <1>1, <1>5 DEF Loop!Open, Stream!Open, Loop!SkipBlank, Stream!SkipBlank,
     Loop!ConsumeHeader, Stream!ConsumeHeader
<1>7. (Loop!RejectUnparsed <=> Stream!RejectUnparsed)
      /\ (Loop!RejectFiltered <=> Stream!RejectFiltered)
  BY <1>1, <1>2, <1>3, <1>4, <1>5
  DEF Loop!RejectUnparsed, Stream!RejectUnparsed, Loop!RejectFiltered, Stream!RejectFiltered
<1>8. Loop!Keep("go_on") <=> Stream!Keep("go_on")
  BY <1>1, <1>2, <1>3, <1>4, <1>5
  DEF Loop!Keep, Stream!Keep, Loop!AfterVisit, Stream!AfterVisit, Loop!Progress, Stream!Progress
<1> QED BY <1>6, <1>7, <1>8


\* What is known of the stream: nothing is read before top_k streams, the whole file
\* is when it ends, and main's counters are written then.
StreamInv ==
  /\ Loop!LoopInv /\ ~local.aborted
  /\ stream = "open" => pos = 0 /\ visited = <<>> /\ local = Stream!ZeroStats
  /\ stream \in {"ending", "returned"} => pos = Len(file)
  /\ stats = IF stream = "returned" THEN local ELSE Stream!ZeroStats
  /\ stream = "threw" => visited = <<>>
  /\ topk \in {"threw", "returned"} => stream \in {"open", "threw", "returned"}
  /\ topk = "draining" => stream = "returned"
  /\ topk = "returned" => (stream = "returned" <=> opts.top_k > 0)
  /\ stream = "returned" => topk \in {"draining", "returned"}

\* Any thresholds can be passed.
LEMMA CallOK ==
  ASSUME NEW v \in Int, NEW r \in Int
  PROVE  Loop!IsCall(CallWith(v, r))
<1> DEFINE c == CallWith(v, r)
<1>1. /\ c.api = "StreamMovies" /\ c.opts.min_rating = r /\ c.opts.min_votes = v
      /\ c.opts.skip_header = TRUE /\ c.opts.progress_every = Unset
  BY DEF CallWith
<1> HIDE DEF c
<1>2. Loop!IsCall(c)
  BY <1>1 DEF Loop!IsCall, Loop!Apis
<1> QED BY <1>2 DEF c

LEMMA StreamInit == CommandInit => StreamInv
<1> SUFFICES ASSUME CommandInit PROVE StreamInv
  OBVIOUS
<1>1. /\ topk = "idle" /\ file = NoFile /\ stream = "open" /\ pos = 0 /\ first_line = FALSE
      /\ visited = <<>> /\ stats = Stream!ZeroStats /\ local = Stream!ZeroStats
      /\ local = [rows_seen |-> 0, rows_kept |-> 0, parse_errors |-> 0, aborted |-> FALSE]
  BY DEF CommandInit, Stream!ZeroStats
<1>2. TypeOK
  BY CliInit DEF CommandInit, CliInv
<1>3. Loop!ArgumentsOK
  <2>1. opts.min_votes \in Int /\ opts.min_rating \in Int
    BY <1>2 DEF TypeOK
  <2> QED BY <1>1, <2>1, CallOK DEF Loop!ArgumentsOK, Call
<1>4. Loop!LocalOK
  <2>1. visited \in Seq(1..pos)
    BY <1>1, EmptySeq
  <2>2. local \in [rows_seen : Nat, rows_kept : Nat, parse_errors : Nat, aborted : BOOLEAN]
    <3>1. [rows_seen |-> 0, rows_kept |-> 0, parse_errors |-> 0, aborted |-> FALSE]
            \in [rows_seen : Nat, rows_kept : Nat, parse_errors : Nat, aborted : BOOLEAN]
      OBVIOUS
    <3> QED BY <1>1, <3>1, Zenon
  <2>3. pos \in 0..(IF file = NoFile THEN 0 ELSE Len(file))
    BY <1>1
  <2>4. first_line \in BOOLEAN
    BY <1>1
  <2> QED BY <2>1, <2>2, <2>3, <2>4 DEF Loop!LocalOK
<1>5. Loop!HeaderInv /\ Loop!StatsMatchPrefix /\ Loop!Delivered
  BY <1>1 DEF Loop!HeaderInv, Loop!StatsMatchPrefix, Loop!Delivered
<1> QED BY <1>1, <1>3, <1>4, <1>5 DEF Loop!LoopInv, StreamInv

\* As long as no line is read, the arguments and the file may still be settled.
LEMMA NothingRead ==
  ASSUME StreamInv, TypeOK', stream = "open", stream' = "open", topk = "idle",
         topk' \in {"idle", "start"}, file' \in Contents \union {NoFile},
         UNCHANGED <<pos, first_line, local, stats, visited>>
  PROVE  StreamInv'
<1>1. /\ pos = 0 /\ visited = <<>> /\ local = Stream!ZeroStats /\ stats = Stream!ZeroStats
      /\ local = [rows_seen |-> 0, rows_kept |-> 0, parse_errors |-> 0, aborted |-> FALSE]
  BY DEF StreamInv, Stream!ZeroStats
<1>2. Loop!ArgumentsOK'
  <2>1. opts'.min_votes \in Int /\ opts'.min_rating \in Int
    BY DEF TypeOK
  <2>2. Loop!IsCall(Call')
    BY <2>1, CallOK DEF Call
  <2>3. file' # NoFile => Loop!IsFile(file')
    BY LoopAssumptions
  <2> QED BY <2>2, <2>3 DEF Loop!ArgumentsOK
<1>3. Loop!LocalOK'
  <2>1. file' # NoFile => Len(file') \in Nat
    BY LoopAssumptions DEF Loop!IsFile
  <2> QED BY <1>1, <2>1 DEF StreamInv, Loop!LoopInv, Loop!LocalOK
<1>4. Loop!StatsMatchPrefix' /\ Loop!HeaderInv'
  <2>1. /\ Loop!DataRows(pos)' = {} /\ Loop!WantedRows(pos)' = {}
        /\ {m \in Loop!DataRows(pos) : Loop!Erroneous(file[m])}' = {}
    BY <1>1 DEF Loop!DataRows, Loop!WantedRows
  <2>2. Loop!Cardinality({}) = 0
    BY FS_EmptySet DEF Loop!Cardinality, Cardinality
  <2>3. local'.rows_seen = 0 /\ local'.rows_kept = 0 /\ local'.parse_errors = 0
    BY <1>1
  <2>4. Loop!StatsMatchPrefix'
    BY <2>1, <2>2, <2>3 DEF Loop!StatsMatchPrefix
  <2>5. Loop!HeaderInv'
    BY DEF Loop!HeaderInv
  <2> QED BY <2>4, <2>5
<1>5. Loop!Delivered'
  <2>1. Loop!WantedRows(0)' = {}
    BY DEF Loop!DataRows, Loop!WantedRows
  <2> QED BY <1>1 DEF Loop!Delivered
<1> QED BY <1>1, <1>2, <1>3, <1>4, <1>5 DEF StreamInv, Loop!LoopInv

\* A step that leaves the stream alone.
LEMMA StreamRests ==
  ASSUME StreamInv, UNCHANGED <<opts, loaderVars>>,
         topk' \in {"start", "streaming"} => stream \in {"open", "reading", "ending"},
         topk' \in {"threw", "returned"} => stream \in {"open", "threw", "returned"},
         topk' = "draining" => stream = "returned",
         topk' = "returned" => (stream = "returned" <=> opts.top_k > 0),
         stream = "returned" => topk' \in {"draining", "returned"}
  PROVE  StreamInv'
<1>1. Call' = Call
  BY DEF Call, CallWith
<1>2. Loop!LoopInv'
  BY <1>1, LoopAssumptions, Loop!LoopStays DEF StreamInv, loaderVars
<1> QED BY <1>2 DEF StreamInv, loaderVars

\* A step of the loop, which is at a line or at the end of the file.
LEMMA StreamReads ==
  ASSUME TypeOK, ControlInv, StreamInv, Read \/ Visit
  PROVE  StreamInv'
<1>1. /\ topk = "streaming" /\ topk' = "streaming" /\ UNCHANGED vars
      /\ Call' = Call /\ opts' = opts
  BY DEF Read, Visit, vars, Call, CallWith
<1>2. /\ local \in [rows_seen : Nat, rows_kept : Nat, parse_errors : Nat, aborted : BOOLEAN]
      /\ Loop!LoopInv /\ ~local.aborted
  BY DEF StreamInv, Loop!LoopInv, Loop!LocalOK
<1>3. CASE Stream!Open
  <2>1. /\ stream = "open" /\ stream' = "reading" /\ file # NoFile
        /\ first_line' = Loop!opts.skip_header
        /\ UNCHANGED <<file, pos, local, stats, visited>>
    BY <1>3 DEF Stream!Open, Stream!opts, Loop!opts
  <2>2. Loop!LoopInv'
    BY <1>1, <1>2, <2>1, Loop!OpenLoop, LoopAssumptions DEF StreamInv
  <2> QED BY <1>1, <2>1, <2>2 DEF StreamInv
<1>4. CASE Stream!SkipBlank \/ Stream!ConsumeHeader
  <2>1. stream = "reading" /\ stream' = "reading" /\ UNCHANGED <<file, local, stats>>
    BY <1>4 DEF Stream!SkipBlank, Stream!ConsumeHeader, Stream!NextLine
  <2>2. file # NoFile
    BY <1>1, <2>1 DEF ControlInv
  <2>3. Loop!LoopInv'
    BY <1>2, <1>4, <2>2, Loop!SkipInv, LoopActions, LoopAssumptions
  <2> QED BY <1>1, <2>1, <2>3 DEF StreamInv
<1>5. CASE Stream!RejectUnparsed \/ Stream!RejectFiltered
  <2>1. /\ stream = "reading" /\ stream' = "reading" /\ UNCHANGED <<file, stats>>
        /\ local' \in {[Stream!Saw EXCEPT !.parse_errors = @ + 1], Stream!Saw}
    BY <1>5 DEF Stream!RejectUnparsed, Stream!RejectFiltered, Stream!Row, Stream!NextLine
  <2>2. ~local'.aborted
    BY <1>2, <2>1 DEF Stream!Saw
  <2>3. file # NoFile
    BY <1>1, <2>1 DEF ControlInv
  <2>4. Loop!LoopInv'
    BY <1>2, <1>5, <2>3, Loop!RejectInv, LoopActions, LoopAssumptions
  <2> QED BY <1>1, <2>1, <2>2, <2>4 DEF StreamInv
<1>6. CASE Stream!Keep("go_on")
  <2>1. stream = "reading" /\ stream' = "reading" /\ UNCHANGED <<file, stats>>
    BY <1>6 DEF Stream!Keep, Stream!Row, Stream!NextLine, Stream!AfterVisit
  <2>2. file # NoFile
    BY <1>1, <2>1 DEF ControlInv
  <2>3. /\ Loop!LoopInv'
        /\ local' = [rows_seen |-> local.rows_seen + 1, rows_kept |-> local.rows_kept + 1,
                     parse_errors |-> local.parse_errors, aborted |-> "go_on" = "stop"]
    BY <1>2, <1>6, <2>2, Loop!KeepInv, LoopActions, LoopAssumptions
  <2>4. ~local'.aborted
    BY <2>3
  <2> QED BY <1>1, <2>1, <2>3, <2>4 DEF StreamInv
<1>7. CASE Stream!EndOfFile
  <2>1. /\ stream = "reading" /\ stream' = "ending" /\ pos = Len(file)
        /\ UNCHANGED <<file, pos, first_line, local, stats, visited>>
    BY <1>7 DEF Stream!EndOfFile
  <2>2. Loop!LoopInv'
    BY <1>1, <1>2, <2>1, Loop!LoopStays, LoopAssumptions
  <2> QED BY <1>1, <2>1, <2>2 DEF StreamInv
<1>8. Visit => Stream!Keep("go_on")
  BY DEF Visit
<1> QED BY <1>3, <1>4, <1>5, <1>6, <1>7, <1>8 DEF Read

\* The stream ends, one way or the other.
LEMMA StreamEnds ==
  ASSUME TypeOK, ControlInv, StreamInv, StreamThrows \/ EndStream
  PROVE  StreamInv'
<1>1. Call' = Call /\ opts' = opts /\ topk = "streaming"
  BY DEF StreamThrows, EndStream, vars, Call, CallWith
<1>2. CASE StreamThrows
  <2>1. /\ stream = "open" /\ stream' = "threw" /\ topk' = "threw" /\ file = NoFile
        /\ UNCHANGED <<file, pos, first_line, local, stats, visited>>
    BY <1>2, CallIs DEF StreamThrows, Stream!OpenFails, Stream!Throws
  <2>2. Loop!LoopInv'
    BY <1>1, <2>1, Loop!LoopStays, LoopAssumptions DEF StreamInv
  <2> QED BY <1>1, <2>1, <2>2 DEF StreamInv
<1>3. CASE EndStream
  <2>1. /\ stream = "ending" /\ stream' = "returned" /\ topk' = "draining" /\ stats' = local
        /\ UNCHANGED <<file, pos, first_line, local, visited>>
    BY <1>3, CallIs DEF EndStream, Stream!Finish, Stream!Throws
  <2>2. Loop!LoopInv'
    BY <1>1, <2>1, Loop!LoopStays, LoopAssumptions DEF StreamInv
  <2> QED BY <1>1, <2>1, <2>2 DEF StreamInv
<1> QED BY <1>2, <1>3

LEMMA StreamStep ==
  ASSUME TypeOK, TypeOK', ControlInv, StreamInv, [CommandNext]_commandVars
  PROVE  StreamInv'
<1>0. opts.top_k \in Nat
  BY DEF TypeOK
<1>1. CASE ParseStep
  <2>1. pc = "parsing" /\ UNCHANGED <<topk, loaderVars>>
    BY <1>1 DEF ParseStep, ParseArgs, MissingValue, UnknownFlag, BadNumber, SetOption, SetSwitch,
                NoData, Help, HasValue, Parsing, Parsed
  <2>2. topk = "idle" /\ stream = "open" /\ file = NoFile
    BY <2>1 DEF ControlInv
  <2> QED BY <2>1, <2>2, NothingRead DEF loaderVars
<1>2. CASE CallTopK
  <2>1. /\ pc = "parsing" /\ topk' = "start" /\ file' \in Contents \union {NoFile}
        /\ UNCHANGED <<stream, pos, first_line, local, stats, visited>>
    BY <1>2 DEF CallTopK, Run, Parsed
  <2>2. topk = "idle" /\ stream = "open"
    BY <2>1 DEF ControlInv
  <2> QED BY <2>1, <2>2, NothingRead
<1>3. CASE ReturnNothing \/ ReserveThrows \/ Start
  <2>1. /\ topk = "start" /\ UNCHANGED <<opts, loaderVars>> /\ stream = "open"
        /\ \/ topk' = "returned" /\ opts.top_k = 0
           \/ topk' \in {"threw", "streaming"}
    BY <1>3 DEF ReturnNothing, ReserveThrows, Start, TopKStep, vars, ControlInv
  <2> QED BY <2>1, StreamRests
<1>4. CASE Drain \/ ReverseRows
  <2>1. /\ topk = "draining" /\ topk' \in {"draining", "returned"} /\ UNCHANGED <<opts, loaderVars>>
        /\ stream = "returned" /\ opts.top_k > 0
    BY <1>0, <1>4 DEF Drain, ReverseRows, TopKStep, vars, ControlInv, StreamInv
  <2> QED BY <2>1, StreamRests
<1>5. CASE Catch \/ PrintTable \/ CommandStopped \/ UNCHANGED commandVars
  <2>1. UNCHANGED <<opts, topk, loaderVars>>
    BY <1>5 DEF Catch, PrintTable, Exit, CommandStopped, commandVars, vars
  <2> QED BY <2>1, StreamRests DEF ControlInv, StreamInv
<1> QED
  BY <1>1, <1>2, <1>3, <1>4, <1>5, StreamReads, StreamEnds DEF CommandNext

-----------------------------------------------------------------------------
\* The heap.  A movie is a line that can be ranked, with its number.
MoviesOf(f) == {<<n, f[n]>> : n \in {m \in 1..Len(f) : f[m] # Blank}}
Movies == UNION {MoviesOf(f) : f \in Contents}

\* The movies that the visitor has been given.
GivenMovies == [n \in 1..Len(visited) |-> <<visited[n], file[visited[n]]>>]

\* What TopKProofs shows of one call holds of the one that main makes, from the
\* arguments to its end: nothing is given before it streams.
Single == INSTANCE TopKProofs WITH
  Rows <- Movies, Better <- BetterLine, Files <- {}, Bounds <- Nat,
  k <- opts.top_k, todo <- <<>>, given <- GivenMovies,
  status <- CASE stream = "returned" -> "ended" [] stream = "threw" -> "failed"
              [] OTHER -> "open",
  stats <- CASE stream = "returned" -> Len(visited) [] topk = "returned" -> 0
             [] OTHER -> Unset,
  pc <- IF topk = "idle" THEN "start" ELSE topk

\* The numbers that are compared are numbers.
LEMMA Ranked ==
  ASSUME NEW x \in Movies
  PROVE  /\ Built(x[2]).rating \in Int /\ Built(x[2]).rating # NaN
         /\ Built(x[2]).num_votes \in Int /\ Built(x[2]).start_year \in Int
         /\ Built(x[2]).primary_title \in Int /\ Built(x[2]).tconst \in Int
<1>1. PICK f \in Contents : x \in MoviesOf(f)
  BY DEF Movies
<1>2. PICK n \in 1..Len(f) : x = <<n, f[n]>> /\ f[n] # Blank
  BY <1>1 DEF MoviesOf
<1> DEFINE r == f[n]
<1>3. x[2] = r
  BY <1>2
<1>4. /\ r.columns \in Int /\ r.votes \in Int /\ Float(r.rating) \in Int /\ 0 # NaN
      /\ r.startYear \in Int /\ r.title \in Int /\ r.tconst \in Int
  BY <1>2, ContentsAssumption, RatingAssumption DEF Stream!IsFile
<1> HIDE DEF r
<1>5. Stream!Rating(r) \in Int /\ Stream!Rating(r) # NaN
  BY <1>4, RatingAssumption DEF Stream!Rating
<1>6. Stream!Votes(r) \in Int
  <2>1. VoteModulus \in Nat \ {0}
    BY CliAssumption
  <2> QED BY <1>4, <2>1 DEF Stream!Votes
<1> QED BY <1>3, <1>4, <1>5, <1>6 DEF Built

\* So operator< puts them in classes of ties.
LEMMA RankingOrder ==
  /\ \A x, y \in Movies : BetterLine(x, y) => ~BetterLine(y, x)
  /\ \A x, y, z \in Movies : BetterLine(x, z) => BetterLine(x, y) \/ BetterLine(y, z)
<1>1. ASSUME NEW x \in Movies, NEW y \in Movies, BetterLine(x, y) PROVE ~BetterLine(y, x)
  BY <1>1, Ranked DEF BetterLine, Movie!Better, Movie!Differ, Movie!Above
<1>2. ASSUME NEW x \in Movies, NEW y \in Movies, NEW z \in Movies, BetterLine(x, z)
      PROVE  BetterLine(x, y) \/ BetterLine(y, z)
  BY <1>2, Ranked DEF BetterLine, Movie!Better, Movie!Differ, Movie!Above
<1> QED BY <1>1, <1>2

\* The assumptions of TopK hold here.
LEMMA SingleAssumptions ==
  /\ Nat \subseteq Nat
  /\ \A f \in {} : f \in Seq(Movies) /\ Single!IsInjective(f)
  /\ \A x, y \in Movies : BetterLine(x, y) => ~BetterLine(y, x)
  /\ \A x, y, z \in Movies : BetterLine(x, z) => BetterLine(x, y) \/ BetterLine(y, z)
BY RankingOrder


\* Its names of library operators mean the same there.
LEMMA SingleNames ==
  /\ \A s : Single!Range(s) = Range(s)
  /\ \A S : Single!Cardinality(S) = Cardinality(S) /\ (Single!IsFiniteSet(S) <=> IsFiniteSet(S))
  /\ \A S : Heap!Cardinality(S) = Cardinality(S)
  /\ \A n, h, m : Single!Offered(n, h, m) = Heap!Offered(n, h, m)
  /\ \A h : Single!Worst(h) = Heap!Worst(h)
  /\ \A s : Single!Reverse(s) = Reverse(s)
<1>1. \A s : Single!Range(s) = Range(s)
  BY DEF Single!Range, Range
<1>2. /\ \A S : Single!Cardinality(S) = Cardinality(S)
      /\ \A S : Heap!Cardinality(S) = Cardinality(S)
  BY DEF Single!Cardinality, Cardinality, Heap!Cardinality
<1>3. \A S : Single!IsFiniteSet(S) <=> IsFiniteSet(S)
  BY DEF Single!IsFiniteSet, IsFiniteSet
<1>4. \A h : Single!Worst(h) = Heap!Worst(h)
  BY DEF Single!Worst, Heap!Worst
<1>5. \A n, h, m : Single!Offered(n, h, m) = Heap!Offered(n, h, m)
  BY <1>4 DEF Single!Offered, Heap!Offered, Single!Cardinality, Heap!Cardinality
<1>6. \A s : Single!Reverse(s) = Reverse(s)
  BY DEF Single!Reverse, Reverse
<1> QED BY <1>1, <1>2, <1>3, <1>4, <1>5, <1>6

\* Before top_k streams.
Fresh ==
  /\ topk \in {"idle", "start"} /\ stream = "open" /\ visited = <<>>
  /\ heap = {} /\ rows = <<>> /\ opts.top_k \in Nat

LEMMA NothingGiven == visited = <<>> => GivenMovies = <<>>
<1> SUFFICES ASSUME visited = <<>> PROVE GivenMovies = <<>>
  OBVIOUS
<1>1. 1..Len(visited) = {} /\ Len(visited) = 0
  OBVIOUS
<1> QED BY <1>1 DEF GivenMovies

LEMMA EmptyRange == Range(<<>>) = {} /\ Len(<<>>) = 0 /\ \A S : <<>> \in Seq(S)
<1>1. <<>> \in Seq(Movies) /\ 1..Len(<<>>) = {} /\ Len(<<>>) = 0
  BY EmptySeq
<1>2. \A x : x \in Range(<<>>) <=> \E n \in 1..Len(<<>>) : <<>>[n] = x
  BY <1>1, Single!RangeFacts, SingleAssumptions, SingleNames
<1>3. Range(<<>>) = {}
  BY <1>1, <1>2
<1> QED BY <1>1, <1>3, EmptySeq

\* What the returned rows are, and where there are none.
SelectInv ==
  /\ Single!Inv
  /\ topk \notin {"draining", "returned"} => rows = <<>>
  /\ topk \in {"idle", "start", "threw", "returned"} => heap = {}
  /\ topk = "returned" => Single!Asked!IsBestOf(rows, Single!File)

LEMMA FreshSelects == Fresh => SelectInv
<1> SUFFICES ASSUME Fresh PROVE SelectInv
  OBVIOUS
<1>1. /\ topk \in {"idle", "start"} /\ stream = "open" /\ visited = <<>>
      /\ heap = {} /\ rows = <<>> /\ opts.top_k \in Nat
      /\ GivenMovies = <<>>
  BY NothingGiven DEF Fresh
<1>2. IsFiniteSet({}) /\ Cardinality({}) = 0
  BY FS_EmptySet
<1>3. Range(<<>>) = {} /\ Len(<<>>) = 0 /\ <<>> \in Seq(Movies)
  BY EmptyRange
<1>4. Single!TypeOK
  BY <1>1, <1>2, <1>3, SingleNames DEF Single!TypeOK
<1>5. Single!Counted
  <2>1. Single!IsInjective(<<>>)
    BY <1>3 DEF Single!IsInjective
  <2> QED BY <1>1, <1>2, <1>3, <2>1, SingleNames DEF Single!Counted
<1>6. Single!Phases /\ Single!HoldsBest /\ Single!DrainInv
  BY <1>1 DEF Single!Phases, Single!HoldsBest, Single!DrainInv
<1> QED BY <1>1, <1>2, <1>4, <1>5, <1>6, SingleNames DEF SelectInv, Single!Inv

LEMMA FreshNext == Fresh' => SelectInv'
BY FreshSelects, PTL

\* A step that changes neither the request nor the answer.
LEMMA AnswerStays ==
  ASSUME opts' = opts, file' = file, visited' = visited
  PROVE  /\ GivenMovies' = GivenMovies
         /\ Single!Asked!IsBestOf(rows', Single!File)
              <=> Single!Asked!IsBestOf(rows, Single!File)'
<1>1. GivenMovies' = GivenMovies
  BY DEF GivenMovies
<1>2. Single!File' = Single!File
  BY <1>1 DEF Single!File
<1> QED BY <1>1, <1>2 DEF Single!Asked!IsBestOf

LEMMA SelectStays ==
  ASSUME SelectInv, UNCHANGED <<opts, topk, file, visited, heap, rows>>,
         stream' = stream \/ (topk = "streaming" /\ {stream, stream'} \subseteq {"open", "reading", "ending"})
  PROVE  SelectInv'
<1>1. GivenMovies' = GivenMovies
  BY AnswerStays
<1>2. UNCHANGED Single!vars
  <2>1. UNCHANGED <<opts.top_k, <<>>, GivenMovies, heap, rows, IF topk = "idle" THEN "start" ELSE topk>>
    BY <1>1
  <2>2. CASE stream' = stream
    BY <2>1, <2>2 DEF Single!vars
  <2>3. CASE topk = "streaming" /\ {stream, stream'} \subseteq {"open", "reading", "ending"}
    <3>1. /\ stream # "returned" /\ stream # "threw" /\ stream' # "returned" /\ stream' # "threw"
          /\ topk # "returned" /\ topk' # "returned"
      BY <2>3
    <3> QED BY <2>1, <3>1 DEF Single!vars
  <2> QED BY <2>2, <2>3
<1>3. Single!Inv'
  BY <1>2, SingleAssumptions, Single!StepInv DEF SelectInv
<1> QED BY <1>3, AnswerStays DEF SelectInv

\* The start of the call, as TopK has it.
LEMMA StartSelects ==
  ASSUME TypeOK, ControlInv, StreamInv, SelectInv, ReturnNothing \/ ReserveThrows \/ Start
  PROVE  SelectInv'
<1>1. /\ topk = "start" /\ UNCHANGED <<opts, file, stream, visited, heap, rows>>
      /\ stream = "open" /\ rows = <<>> /\ heap = {} /\ visited = <<>>
      /\ opts.top_k \in Nat /\ MaxReserve \in Nat \ {0}
  BY CliAssumption
  DEF ReturnNothing, ReserveThrows, Start, TopKStep, vars, loaderVars, ControlInv, StreamInv,
      SelectInv, TypeOK
<1>2. GivenMovies' = GivenMovies
  BY <1>1, AnswerStays
<1>3. CASE ReturnNothing
  <2>1. topk' = "returned" /\ opts.top_k = 0
    BY <1>3 DEF ReturnNothing, TopKStep
  <2>2. Single!ReturnNothing
    BY <1>1, <1>2, <2>1 DEF Single!ReturnNothing
  <2>3. Single!Inv'
    BY <2>2, SingleAssumptions, Single!StepInv DEF SelectInv, Single!Next
  <2>4. Single!Asked!IsBestOf(rows', Single!File)
    BY <2>2, SingleAssumptions, Single!NothingAnswers DEF SelectInv
  <2> QED BY <1>1, <2>1, <2>3, <2>4, AnswerStays DEF SelectInv
<1>4. CASE ReserveThrows
  <2>1. topk' = "threw" /\ opts.top_k > 0
    BY <1>1, <1>4 DEF ReserveThrows, TopKStep
  <2>2. Single!ReserveThrows
    BY <1>1, <1>2, <2>1 DEF Single!ReserveThrows
  <2>3. Single!Inv'
    BY <2>2, SingleAssumptions, Single!StepInv DEF SelectInv, Single!Next
  <2> QED BY <1>1, <2>1, <2>3 DEF SelectInv
<1>5. CASE Start
  <2>1. topk' = "streaming" /\ opts.top_k > 0
    BY <1>1, <1>5 DEF Start, TopKStep
  <2>2. Single!Start
    BY <1>1, <1>2, <2>1 DEF Single!Start
  <2>3. Single!Inv'
    BY <2>2, SingleAssumptions, Single!StepInv DEF SelectInv, Single!Next
  <2> QED BY <1>1, <2>1, <2>3 DEF SelectInv
<1> QED BY <1>3, <1>4, <1>5

\* The ends of the stream.
LEMMA EndSelects ==
  ASSUME TypeOK, ControlInv, StreamInv, SelectInv, StreamThrows \/ EndStream
  PROVE  SelectInv'
<1>1. topk = "streaming" /\ UNCHANGED <<opts, file, visited, heap, rows>> /\ rows = <<>>
  BY CallIs DEF StreamThrows, EndStream, Stream!OpenFails, Stream!Finish, vars, SelectInv
<1>2. GivenMovies' = GivenMovies
  BY <1>1, AnswerStays
<1>3. CASE StreamThrows
  <2>1. topk' = "threw" /\ stream = "open" /\ stream' = "threw" /\ visited = <<>>
    BY <1>3, CallIs DEF StreamThrows, Stream!OpenFails, Stream!Throws, StreamInv
  <2>2. GivenMovies = <<>>
    BY <2>1, NothingGiven
  <2>3. Single!StreamThrows
    BY <1>1, <1>2, <2>1, <2>2 DEF Single!StreamThrows, Single!Stream!Fail
  <2>4. Single!Inv'
    BY <2>3, SingleAssumptions, Single!StepInv DEF SelectInv, Single!Next
  <2>5. heap = {}
    BY <1>1, <2>2, EmptyRange, SingleNames DEF SelectInv, Single!Inv, Single!HoldsBest
  <2> QED BY <1>1, <2>1, <2>4, <2>5 DEF SelectInv
<1>4. CASE EndStream
  <2>1. topk' = "draining" /\ stream = "ending" /\ stream' = "returned"
    BY <1>4, CallIs DEF EndStream, Stream!Finish
  <2>2. Len(GivenMovies) = Len(visited) /\ visited' = visited
    BY <1>1 DEF GivenMovies, StreamInv, Loop!LoopInv, Loop!LocalOK
  <2>3. Single!EndStream
    BY <1>1, <1>2, <2>1, <2>2 DEF Single!EndStream, Single!Stream!End
  <2>4. Single!Inv'
    BY <2>3, SingleAssumptions, Single!StepInv DEF SelectInv, Single!Next
  <2> QED BY <1>1, <2>1, <2>4 DEF SelectInv
<1> QED BY <1>3, <1>4

\* The heap is drained and the rows reversed, as TopK has it.
LEMMA DrainSelects ==
  ASSUME ControlInv, StreamInv, SelectInv, Drain \/ ReverseRows
  PROVE  SelectInv'
<1>1. /\ topk = "draining" /\ UNCHANGED <<opts, file, stream, visited>> /\ stream = "returned"
  BY DEF Drain, ReverseRows, TopKStep, vars, loaderVars, StreamInv
<1>2. GivenMovies' = GivenMovies
  BY <1>1, AnswerStays
<1>3. CASE Drain
  <2>1. topk' = "draining"
    BY <1>3 DEF Drain, TopKStep
  <2>2. \E m \in Single!Worst(heap) : heap' = heap \ {m} /\ rows' = Append(rows, m)
    BY <1>3, SingleNames DEF Drain
  <2>3. Single!Drain
    BY <1>1, <1>2, <2>1, <2>2 DEF Single!Drain
  <2>4. Single!Inv'
    BY <2>3, SingleAssumptions, Single!StepInv DEF SelectInv, Single!Next
  <2> QED BY <2>1, <2>4 DEF SelectInv
<1>4. CASE ReverseRows
  <2>1. topk' = "returned" /\ heap = {} /\ heap' = heap /\ rows' = Single!Reverse(rows)
    BY <1>4, SingleNames DEF ReverseRows, TopKStep
  <2>2. Single!Finish
    BY <1>1, <1>2, <2>1 DEF Single!Finish
  <2>3. Single!Inv'
    BY <2>2, SingleAssumptions, Single!StepInv DEF SelectInv, Single!Next
  <2>4. Single!Asked!IsBestOf(rows', Single!File)
    BY <2>2, SingleAssumptions, Single!FinishAnswers DEF SelectInv
  <2> QED BY <1>1, <2>1, <2>3, <2>4, AnswerStays DEF SelectInv
<1> QED BY <1>3, <1>4

-----------------------------------------------------------------------------
\* The visitor.

\* The visitor has been given the wanted lines, each once, with their numbers.
LEMMA GivenIs ==
  ASSUME StreamInv, ControlInv, file # NoFile
  PROVE  /\ GivenMovies \in Seq(Movies) /\ Len(GivenMovies) = Len(visited) /\ Len(visited) \in Nat
         /\ \A n \in 1..Len(visited) : GivenMovies[n] = <<visited[n], file[visited[n]]>>
         /\ \A m : m \in Range(GivenMovies) <=>
              \E n \in Loop!WantedRows(pos) : m = <<n, file[n]>>
         /\ \A n \in Loop!WantedRows(pos) : n \in 1..pos
         /\ pos \in 0..Len(file) /\ file \in Contents
<1>1. /\ visited \in Seq(1..pos) /\ pos \in 0..Len(file) /\ file \in Contents
      /\ Len(visited) \in Nat
  BY DEF StreamInv, ControlInv, Loop!LoopInv, Loop!LocalOK
<1>2. \A r \in 1..pos : r \in Loop!WantedRows(pos) <=> \E n \in 1..Len(visited) : visited[n] = r
  BY DEF StreamInv, Loop!LoopInv, Loop!Delivered
<1>3. \A n \in Loop!WantedRows(pos) : n \in 1..pos /\ file[n] # Blank
  BY DEF Loop!WantedRows, Loop!DataRows
<1>4. \A n \in 1..Len(visited) : visited[n] \in 1..pos /\ visited[n] \in Loop!WantedRows(pos)
  BY <1>1, <1>2
<1>5. Len(file) \in Nat
  BY <1>1, ContentsAssumption DEF Stream!IsFile
<1>6. \A n \in 1..pos : n \in 1..Len(file)
  BY <1>1, <1>5
<1>7. \A n \in Loop!WantedRows(pos) : <<n, file[n]>> \in Movies
  BY <1>1, <1>3, <1>6 DEF Movies, MoviesOf
<1>8. \A n \in 1..Len(visited) : GivenMovies[n] = <<visited[n], file[visited[n]]>>
  BY DEF GivenMovies
<1>9. GivenMovies \in Seq(Movies) /\ Len(GivenMovies) = Len(visited)
  <2>1. GivenMovies \in [1..Len(visited) -> Movies]
    BY <1>4, <1>7 DEF GivenMovies
  <2> QED BY <1>1, <2>1, SeqDef
<1>10. \A m : m \in Range(GivenMovies) <=> \E n \in 1..Len(visited) : GivenMovies[n] = m
  BY <1>9, Single!RangeFacts, SingleAssumptions, SingleNames
<1>11. ASSUME NEW m \in Range(GivenMovies)
       PROVE  \E n \in Loop!WantedRows(pos) : m = <<n, file[n]>>
  <2>1. PICK n \in 1..Len(visited) : GivenMovies[n] = m
    BY <1>10
  <2>2. m = <<visited[n], file[visited[n]]>> /\ visited[n] \in Loop!WantedRows(pos)
    BY <1>4, <1>8, <2>1
  <2> QED BY <2>2
<1>12. ASSUME NEW n \in Loop!WantedRows(pos) PROVE <<n, file[n]>> \in Range(GivenMovies)
  <2>1. PICK m \in 1..Len(visited) : visited[m] = n
    BY <1>2, <1>3
  <2> QED BY <1>8, <1>10, <2>1
<1> QED BY <1>1, <1>3, <1>8, <1>9, <1>11, <1>12

LEMMA VisitSelects ==
  ASSUME TypeOK, ControlInv, StreamInv, SelectInv, Visit
  PROVE  SelectInv'
<1> DEFINE m == <<pos + 1, file[pos + 1]>>
           S == Range(GivenMovies)
<1>1. /\ topk = "streaming" /\ topk' = "streaming" /\ UNCHANGED <<opts, rows, file>>
      /\ stream = "reading" /\ stream' = "reading" /\ pos < Len(file)
      /\ file[pos + 1] # Blank /\ visited' = Append(visited, pos + 1)
      /\ heap' \in Heap!Offered(opts.top_k, heap, m)
      /\ rows = <<>> /\ opts.top_k \in Nat /\ file # NoFile
  <2>1. topk = "streaming" /\ topk' = "streaming" /\ UNCHANGED <<opts, rows>> /\ Stream!Keep("go_on")
        /\ heap' \in Heap!Offered(opts.top_k, heap, m)
    BY DEF Visit, vars
  <2> QED
    BY <2>1 DEF Stream!Keep, Stream!Row, Stream!NextLine, Stream!Line, Stream!AfterVisit,
                ControlInv, SelectInv, TypeOK
<1>2. /\ GivenMovies \in Seq(Movies) /\ Len(GivenMovies) = Len(visited) /\ Len(visited) \in Nat
      /\ \A n \in 1..Len(visited) : GivenMovies[n] = <<visited[n], file[visited[n]]>>
      /\ \A x : x \in S <=> \E n \in Loop!WantedRows(pos) : x = <<n, file[n]>>
      /\ \A n \in Loop!WantedRows(pos) : n \in 1..pos
      /\ pos \in 0..Len(file) /\ file \in Contents
  BY <1>1, GivenIs
<1>3. visited \in Seq(1..pos) /\ pos \in Nat
  BY <1>1, <1>2 DEF StreamInv, Loop!LoopInv, Loop!LocalOK
<1>4. m \in Movies
  <2>1. Len(file) \in Nat
    BY <1>2, ContentsAssumption DEF Stream!IsFile
  <2>2. pos + 1 \in 1..Len(file)
    BY <1>1, <1>3, <2>1
  <2> QED BY <1>1, <1>2, <2>2 DEF Movies, MoviesOf
<1>5. m \notin S
  BY <1>2, <1>3
<1>6. GivenMovies' = Append(GivenMovies, m)
  <2>1. /\ Len(visited') = Len(visited) + 1 /\ visited'[Len(visited) + 1] = pos + 1
        /\ \A n \in 1..Len(visited) : visited'[n] = visited[n]
    BY <1>1, <1>3
  <2>2. GivenMovies' = [n \in 1..(Len(visited) + 1) |-> <<visited'[n], file[visited'[n]]>>]
    BY <1>1, <2>1 DEF GivenMovies
  <2> DEFINE t == Append(GivenMovies, m)
  <2>3. /\ t \in Seq(Movies) /\ Len(t) = Len(visited) + 1 /\ t[Len(visited) + 1] = m
        /\ \A n \in 1..Len(visited) : t[n] = GivenMovies[n]
    BY <1>2, <1>4, SingleAssumptions, Single!AppendFacts
  <2>4. t = [n \in 1..(Len(visited) + 1) |-> t[n]]
    BY <2>3
  <2> HIDE DEF t, m
  <2>5. ASSUME NEW n \in 1..(Len(visited) + 1) PROVE t[n] = <<visited'[n], file[visited'[n]]>>
    <3>1. CASE n = Len(visited) + 1
      BY <2>1, <2>3, <3>1 DEF m
    <3>2. CASE n # Len(visited) + 1
      <4>1. n \in 1..Len(visited)
        BY <1>2, <3>2
      <4> QED BY <1>2, <2>1, <2>3, <4>1
    <3> QED BY <3>1, <3>2
  <2> QED BY <2>2, <2>4, <2>5 DEF t
<1>7. /\ GivenMovies' \in Seq(Movies) /\ Len(GivenMovies') = Len(GivenMovies) + 1
      /\ Range(GivenMovies') = S \union {m}
  BY <1>2, <1>4, <1>6, SingleAssumptions, Single!AppendFacts, SingleNames
<1>8. S \in SUBSET Movies /\ IsFiniteSet(S)
  BY <1>2, SingleAssumptions, Single!RangeFacts, SingleNames
<1>9. /\ IsFiniteSet(heap) /\ heap \in SUBSET S
      /\ Cardinality(heap) = Single!AtMost(opts.top_k, Cardinality(S))
      /\ Single!BestIn(heap, S) /\ Cardinality(S) = Len(GivenMovies)
      /\ Single!IsInjective(<<>>)
  BY <1>1, SingleNames
  DEF SelectInv, Single!Inv, Single!HoldsBest, Single!Counted, Single!AtMost, Single!BestIn
<1> HIDE DEF m, S
<1>10. Cardinality(S \union {m}) = Len(GivenMovies')
  BY <1>5, <1>7, <1>8, <1>9, FS_AddElement
<1>11. /\ heap' \in SUBSET (S \union {m}) /\ IsFiniteSet(heap')
       /\ Cardinality(heap') = Single!AtMost(opts.top_k, Cardinality(S \union {m}))
       /\ Single!BestIn(heap', S \union {m})
  <2>1. m \in Movies \ S
    BY <1>4, <1>5
  <2>2. heap' \in Single!Offered(opts.top_k, heap, m)
    BY <1>1, SingleNames
  <2>3. /\ Single!IsFiniteSet(S)
        /\ Single!Cardinality(heap) = Single!AtMost(opts.top_k, Single!Cardinality(S))
    BY <1>8, <1>9, SingleNames
  <2>4. /\ heap' \in SUBSET (S \union {m}) /\ Single!IsFiniteSet(heap')
        /\ Single!Cardinality(heap') = Single!AtMost(opts.top_k, Single!Cardinality(S \union {m}))
        /\ Single!BestIn(heap', S \union {m})
    <3> DEFINE n == opts.top_k
    <3>1. n \in Nat
      BY <1>1
    <3> HIDE DEF n
    <3>2. /\ heap' \in Single!Offered(n, heap, m)
          /\ Single!Cardinality(heap) = Single!AtMost(n, Single!Cardinality(S))
      BY <2>2, <2>3 DEF n
    <3>3. /\ heap' \in SUBSET (S \union {m}) /\ Single!IsFiniteSet(heap')
          /\ Single!Cardinality(heap') = Single!AtMost(n, Single!Cardinality(S \union {m}))
          /\ Single!BestIn(heap', S \union {m})
      BY <1>8, <1>9, <2>1, <2>3, <3>1, <3>2, SingleAssumptions, Single!OfferKeepsBest
    <3> QED BY <3>3 DEF n
  <2> QED BY <2>4, SingleNames
<1>12. Single!TypeOK'
  <2>1. Cardinality(heap') <= opts.top_k
    BY <1>1, <1>7, <1>2, <1>10, <1>11 DEF Single!AtMost
  <2>2. heap' \in SUBSET Movies
    BY <1>4, <1>8, <1>11
  <2> QED BY <1>1, <1>7, <2>1, <2>2, EmptyRange, SingleNames DEF Single!TypeOK
<1>13. Single!Counted'
  BY <1>7, <1>9, <1>10, EmptyRange, SingleNames DEF Single!Counted
<1>14. Single!Phases' /\ Single!DrainInv'
  BY <1>1 DEF Single!Phases, Single!DrainInv
<1>15. Single!HoldsBest'
  BY <1>1, <1>7, <1>10, <1>11, SingleNames DEF Single!HoldsBest, Single!AtMost, Single!BestIn
<1>16. Single!Inv'
  BY <1>11, <1>12, <1>13, <1>14, <1>15, SingleNames DEF Single!Inv
<1> QED BY <1>1, <1>16 DEF SelectInv

LEMMA SelectStep ==
  ASSUME TypeOK, TypeOK', ControlInv, StreamInv, SelectInv, [CommandNext]_commandVars
  PROVE  SelectInv'
<1>1. CASE ParseStep \/ CallTopK
  <2>1. /\ pc = "parsing" /\ UNCHANGED <<stream, visited, heap, rows>>
        /\ topk' = topk \/ topk' = "start"
    BY <1>1 DEF ParseStep, ParseArgs, MissingValue, UnknownFlag, BadNumber, SetOption, SetSwitch,
                NoData, Help, HasValue, Parsing, Parsed, loaderVars, CallTopK, Run
  <2>2. topk = "idle" /\ stream = "open" /\ visited = <<>> /\ heap = {} /\ rows = <<>>
    BY <2>1 DEF ControlInv, StreamInv, SelectInv
  <2>3. Fresh'
    BY <2>1, <2>2 DEF Fresh, TypeOK
  <2> QED BY <2>3, FreshNext
<1>2. CASE Read
  <2>1. topk = "streaming"
    BY <1>2 DEF Read
  <2>2. UNCHANGED <<opts, topk, file, visited, heap, rows>>
    BY <1>2
    DEF Read, vars, Stream!Open, Stream!SkipBlank, Stream!ConsumeHeader, Stream!RejectUnparsed,
        Stream!RejectFiltered, Stream!EndOfFile, Stream!Row, Stream!NextLine
  <2>3. {stream, stream'} \subseteq {"open", "reading", "ending"}
    BY <1>2, <2>1, StreamMoves
  <2> QED BY <2>1, <2>2, <2>3, SelectStays
<1>3. CASE Catch \/ PrintTable \/ CommandStopped \/ UNCHANGED commandVars
  <2>1. UNCHANGED <<opts, topk, file, stream, visited, heap, rows>>
    BY <1>3 DEF Catch, PrintTable, Exit, CommandStopped, commandVars, vars, loaderVars
  <2> QED BY <2>1, SelectStays
<1> QED
  BY <1>1, <1>2, <1>3, StartSelects, VisitSelects, EndSelects, DrainSelects DEF CommandNext

-----------------------------------------------------------------------------
\* The table.

\* The last use of a flag is the one that Given chooses.
LEMMA LatestGiven ==
  ASSUME CliInv, i > Len(argv), NEW flag, NEW n \in Nat, Latest(flag, n)
  PROVE  Uses({flag}) # {} /\ Given(flag) = argv[n + 1]
<1>1. Uses({flag}) \subseteq 1..Len(argv) /\ i \in Nat /\ Len(argv) \in Nat
  BY UsesAre DEF CliInv, TypeOK
<1>2. \A m \in Uses({flag}) : m \in Nat /\ m < i
  BY <1>1
<1>3. n \in Uses({flag}) /\ \A m \in Uses({flag}) : m <= n
  BY <1>2 DEF Latest
<1> DEFINE c == CHOOSE u \in Uses({flag}) : \A m \in Uses({flag}) : m <= u
<1>4. c \in Uses({flag}) /\ \A m \in Uses({flag}) : m <= c
  BY <1>3
<1>5. Given(flag) = argv[1 + c]
  BY DEF Given
<1> HIDE DEF c
<1>6. c = n
  <2>1. c \in Nat /\ c <= n /\ n <= c
    BY <1>2, <1>3, <1>4
  <2> QED BY <2>1
<1>7. 1 + c = n + 1
  BY <1>6
<1> QED BY <1>3, <1>5, <1>7

\* When all arguments are read, the options are what the command line says.
LEMMA ToldIsRead ==
  ASSUME CliInv, i > Len(argv)
  PROVE  ToldTop = opts.top_k /\ ToldCall = Call
<1>1. \A flag : Unread({flag}) => Uses({flag}) = {}
  <2>1. \A flags : Uses(flags) \subseteq 1..Len(argv) /\ i \in Nat /\ Len(argv) \in Nat
    BY UsesAre DEF CliInv, TypeOK
  <2>2. \A n \in 1..Len(argv) : ~(n >= i)
    BY <2>1
  <2> QED BY <2>1, <2>2 DEF Unread
<1>2. /\ DefaultTop % SizeModulus = DefaultTop
      /\ (DefaultVotes % SizeModulus) % VoteModulus = DefaultVotes
  <2>1. /\ DefaultTop \in Nat /\ DefaultVotes \in Nat /\ SizeModulus \in Nat \ {0}
        /\ VoteModulus \in Nat \ {0} /\ DefaultTop < SizeModulus /\ DefaultVotes < VoteModulus
        /\ VoteModulus <= SizeModulus
    BY CliAssumption
  <2>2. DefaultTop % SizeModulus = DefaultTop
    BY <2>1
  <2>3. DefaultVotes % SizeModulus = DefaultVotes
    BY <2>1
  <2>4. DefaultVotes % VoteModulus = DefaultVotes
    BY <2>1
  <2> QED BY <2>2, <2>3, <2>4
<1>3. ToldTop = opts.top_k
  <2>1. CASE Unread({"--top"}) /\ opts.top_k = DefaultTop
    BY <1>1, <1>2, <2>1 DEF ToldTop, Told
  <2>2. CASE \E n \in Nat : Latest("--top", n) /\ opts.top_k = Unsigned(argv[n + 1])
    BY <2>2, LatestGiven DEF ToldTop, Told, Unsigned
  <2> QED BY <2>1, <2>2 DEF CliInv, TopRead
<1>4. (Told("--min-votes", DefaultVotes) % SizeModulus) % VoteModulus = opts.min_votes
  <2>1. CASE Unread({"--min-votes"}) /\ opts.min_votes = DefaultVotes
    BY <1>1, <1>2, <2>1 DEF Told
  <2>2. CASE \E n \in Nat : Latest("--min-votes", n)
                            /\ opts.min_votes = Unsigned(argv[n + 1]) % VoteModulus
    BY <2>2, LatestGiven DEF Told, Unsigned
  <2> QED BY <2>1, <2>2 DEF CliInv, VotesRead
<1>5. Told("--min-rating", 0) = opts.min_rating
  <2>1. CASE Unread({"--min-rating"}) /\ opts.min_rating = 0
    BY <1>1, <2>1 DEF Told
  <2>2. CASE \E n \in Nat : Latest("--min-rating", n)
                            /\ opts.min_rating = ParsedNumber(argv[n + 1])
    BY <2>2, LatestGiven DEF Told
  <2> QED BY <2>1, <2>2 DEF CliInv, RatingRead
<1>6. ToldCall = Call
  BY <1>4, <1>5 DEF ToldCall, Call
<1> QED BY <1>3, <1>6

\* A program that exits with 0 unasked has printed the table.
PrintedInv == pc = "exited" /\ code = 0 /\ Uses(HelpFlags) = {} => topk = "returned"

LEMMA PrintedStep ==
  ASSUME CliInv, ControlInv, PrintedInv, [CommandNext]_commandVars
  PROVE  PrintedInv'
<1>1. CASE ParseStep
  <2>1. pc' = "exited" => code' = 2 \/ (Parsed /\ opts.show_help /\ argv' = argv)
                          \/ (pc' = pc)
    BY <1>1 DEF ParseStep, ParseArgs, MissingValue, UnknownFlag, BadNumber, SetOption, SetSwitch,
                NoData, Help, GoOn, Exit
  <2>2. pc = "parsing"
    BY <1>1 DEF ParseStep, ParseArgs, MissingValue, UnknownFlag, BadNumber, SetOption, SetSwitch,
                NoData, Help, HasValue, Parsing, Parsed
  <2>3. Parsed /\ opts.show_help => Uses(HelpFlags) # {}
    BY NothingAhead DEF Parsed
  <2> QED BY <2>1, <2>2, <2>3, ArgumentsStay DEF PrintedInv
<1>2. CASE CallTopK
  BY <1>2 DEF CallTopK, Run, PrintedInv
<1>3. CASE Catch
  BY <1>3 DEF Catch, Exit, PrintedInv
<1>4. CASE PrintTable
  BY <1>4 DEF PrintTable, Exit, PrintedInv
<1>5. CASE ReturnNothing \/ ReserveThrows \/ Start \/ Drain \/ ReverseRows
  <2>1. UNCHANGED <<argv, pc, code>> /\ topk # "returned"
    BY <1>5 DEF ReturnNothing, ReserveThrows, Start, Drain, ReverseRows, TopKStep, vars
  <2> QED BY <2>1, ArgumentsStay DEF PrintedInv
<1>6. CASE StreamThrows \/ Read \/ Visit \/ EndStream
  <2>1. UNCHANGED <<argv, pc, code>> /\ topk = "streaming"
    BY <1>6 DEF StreamThrows, Read, Visit, EndStream, vars
  <2> QED BY <2>1, ArgumentsStay DEF PrintedInv
<1>7. CASE CommandStopped \/ UNCHANGED commandVars
  <2>1. UNCHANGED <<argv, pc, code, topk>>
    BY <1>7 DEF CommandStopped, commandVars, vars
  <2> QED BY <2>1, ArgumentsStay DEF PrintedInv
<1> QED BY <1>1, <1>2, <1>3, <1>4, <1>5, <1>6, <1>7 DEF CommandNext

-----------------------------------------------------------------------------
\* The whole program.
CommandInv == CliInv /\ ControlInv /\ StreamInv /\ SelectInv /\ PrintedInv

LEMMA CommandInvInit == CommandInit => CommandInv
<1> SUFFICES ASSUME CommandInit PROVE CommandInv
  OBVIOUS
<1>1. CliInv /\ ControlInv /\ StreamInv
  BY CliInit, ControlInit, StreamInit DEF CommandInit
<1>2. Fresh
  BY <1>1 DEF CommandInit, Fresh, CliInv, TypeOK
<1>3. PrintedInv
  BY DEF CommandInit, Init, PrintedInv
<1> QED BY <1>1, <1>2, <1>3, FreshSelects DEF CommandInv

LEMMA CommandInvStep == CommandInv /\ [CommandNext]_commandVars => CommandInv'
<1> SUFFICES ASSUME CommandInv, [CommandNext]_commandVars PROVE CommandInv'
  OBVIOUS
<1>1. CliInv' /\ TypeOK' /\ TypeOK
  BY CliStepOf, CliStep DEF CommandInv, CliInv
<1>2. ControlInv' /\ StreamInv' /\ SelectInv' /\ PrintedInv'
  BY <1>1, ControlStep, StreamStep, SelectStep, PrintedStep DEF CommandInv
<1> QED BY <1>1, <1>2 DEF CommandInv

LEMMA CommandInvCorrect == CommandSpec => []CommandInv
BY CommandInvInit, CommandInvStep, PTL DEF CommandSpec

\* What the heap and the rows hold was given to the visitor.
LEMMA HeldIsGiven ==
  ASSUME CommandInv, NEW m \in heap \union Range(rows)
  PROVE  m \in Range(GivenMovies) /\ file # NoFile
<1>1. /\ ControlInv /\ StreamInv /\ SelectInv /\ Single!Inv
  BY DEF CommandInv, SelectInv
<1>2. topk \in {"streaming", "draining", "returned"}
  BY <1>1, EmptyRange DEF ControlInv, SelectInv
<1>3. m \in Range(GivenMovies)
  <2>1. CASE topk = "streaming"
    BY <1>1, <2>1, EmptyRange, SingleNames DEF SelectInv, Single!Inv, Single!HoldsBest
  <2>2. CASE topk = "draining"
    BY <1>1, <2>2, SingleNames DEF Single!Inv, Single!DrainInv, Single!Held
  <2>3. CASE topk = "returned"
    <3>1. heap = {} /\ Single!Asked!IsBestOf(rows, Single!File)
      BY <1>1, <2>3 DEF SelectInv
    <3>2. \A s : Single!Asked!Range(s) = Range(s)
      BY DEF Single!Asked!Range, Range
    <3>3. Range(rows) \subseteq Single!File
      BY <3>1, <3>2 DEF Single!Asked!IsBestOf
    <3>4. Single!File = Range(GivenMovies)
      BY EmptyRange, SingleNames DEF Single!File
    <3> QED BY <3>1, <3>3, <3>4
  <2> QED BY <1>2, <2>1, <2>2, <2>3
<1>4. file # NoFile
  <2>1. ASSUME file = NoFile PROVE visited = <<>>
    BY <1>1, <2>1 DEF StreamInv, Loop!LoopInv, Loop!LocalOK
  <2> QED BY <1>3, <2>1, NothingGiven, EmptyRange
<1> QED BY <1>3, <1>4

LEMMA CommandTypes == CommandInv => CommandTypeOK
<1> SUFFICES ASSUME CommandInv PROVE CommandTypeOK
  OBVIOUS
<1>1. TypeOK /\ ControlInv /\ StreamInv /\ SelectInv /\ Single!Inv
  BY DEF CommandInv, CliInv, SelectInv
<1>2. /\ topk \in {"idle", "start", "streaming", "draining", "returned", "threw"}
      /\ stream \in {"open", "reading", "ending", "returned", "threw"}
      /\ pos \in 0..(IF file = NoFile THEN 0 ELSE Len(file))
      /\ opts.top_k \in Nat
  BY <1>1 DEF ControlInv, StreamInv, Loop!LoopInv, Loop!LocalOK, TypeOK
<1>3. Cardinality(heap) <= opts.top_k /\ Cardinality(heap) \in Nat /\ rows \in Seq(Movies)
  <2>1. IsFiniteSet(heap) /\ Cardinality(heap) <= opts.top_k /\ rows \in Seq(Movies)
    BY <1>1, SingleNames DEF Single!Inv, Single!TypeOK
  <2> QED BY <2>1, FS_CardinalityType
<1>4. Len(rows) <= opts.top_k
  <2>0. Len(rows) \in Nat /\ Len(GivenMovies) \in Nat
    BY <1>1, <1>3 DEF Single!Inv, Single!TypeOK
  <2>1. CASE topk \notin {"draining", "returned"}
    BY <1>1, <1>2, <2>1, EmptyRange DEF SelectInv
  <2>2. CASE topk = "draining"
    <3>1. Len(rows) + Cardinality(heap) = Single!AtMost(opts.top_k, Len(GivenMovies))
      BY <1>1, <2>2, SingleNames DEF Single!Inv, Single!DrainInv
    <3> QED BY <1>2, <1>3, <2>0, <3>1 DEF Single!AtMost
  <2>3. CASE topk = "returned"
    <3>1. Len(rows) = Single!Asked!Fewer(opts.top_k, Single!Asked!Cardinality(Single!File))
      BY <1>1, <2>3 DEF SelectInv, Single!Asked!IsBestOf
    <3>2. Single!File = Range(GivenMovies)
      BY EmptyRange, SingleNames DEF Single!File
    <3>3. Single!Asked!Cardinality(Single!File) = Len(GivenMovies)
      BY <1>1, <3>2, SingleNames
      DEF Single!Inv, Single!Counted, Single!Asked!Cardinality, Cardinality
    <3> QED BY <1>2, <2>0, <3>1, <3>3 DEF Single!Asked!Fewer
  <2> QED BY <2>1, <2>2, <2>3
<1>5. ASSUME NEW m \in heap \union Range(rows) PROVE m[1] \in 1..pos /\ m[2] = file[m[1]]
  <2>1. m \in Range(GivenMovies) /\ file # NoFile
    BY HeldIsGiven
  <2>2. PICK n \in Loop!WantedRows(pos) : m = <<n, file[n]>> /\ n \in 1..pos
    BY <1>1, <2>1, GivenIs
  <2> QED BY <2>2
<1> QED BY <1>1, <1>2, <1>3, <1>4, <1>5 DEF CommandTypeOK

\* The rows that the command line asks for are those that the loop looks for.
LEMMA AskedIsRead ==
  ASSUME ToldCall = Call
  PROVE  /\ AskedData = Loop!DataRows(Len(file)) /\ AskedRows = Loop!WantedRows(Len(file))
         /\ AskedErrors = {n \in Loop!DataRows(Len(file)) : Loop!Erroneous(file[n])}
<1>1. Asked!opts = Loop!opts
  BY DEF Asked!opts, Loop!opts
<1>2. \A n : Asked!DataRows(n) = Loop!DataRows(n)
  BY <1>1 DEF Asked!DataRows, Loop!DataRows
<1>3. /\ \A r : Asked!FieldCount(r) = Loop!FieldCount(r)
      /\ \A r : Asked!TypeAllowed(r) <=> Loop!TypeAllowed(r)
      /\ \A r : Asked!Rating(r) = Loop!Rating(r) /\ Asked!Votes(r) = Loop!Votes(r)
  BY <1>1
  DEF Asked!FieldCount, Loop!FieldCount, Asked!TypeAllowed, Loop!TypeAllowed,
      Asked!Rating, Loop!Rating, Asked!Votes, Loop!Votes
<1>4. \A r : Asked!Builds(r) <=> Loop!Builds(r)
  BY <1>3 DEF Asked!Builds, Loop!Builds, Asked!ColumnOf, Loop!ColumnOf
<1>5. \A r : Asked!Erroneous(r) <=> Loop!Erroneous(r)
  BY <1>3, <1>4 DEF Asked!Erroneous, Loop!Erroneous
<1>6. \A r : Asked!Wanted(r) <=> Loop!Wanted(r)
  BY <1>1, <1>3, <1>5 DEF Asked!Wanted, Loop!Wanted
<1>7. \A n : Asked!WantedRows(n) = Loop!WantedRows(n)
  BY <1>2, <1>6 DEF Asked!WantedRows, Loop!WantedRows
<1> QED BY <1>2, <1>5, <1>7 DEF AskedData, AskedRows, AskedErrors

\* So does the selection of the best of them.
LEMMA BestIsSelected ==
  ASSUME NEW s, NEW S, ToldTop = opts.top_k, Single!Asked!IsBestOf(s, S)
  PROVE  Best!IsBestOf(s, S)
<1>1. /\ Single!Asked!Range(s) = Best!Range(s)
      /\ Single!Asked!IsInjective(s) <=> Best!IsInjective(s)
  BY DEF Single!Asked!Range, Best!Range, Single!Asked!IsInjective, Best!IsInjective
<1>2. Single!Asked!Cardinality(S) = Best!Cardinality(S)
  BY DEF Single!Asked!Cardinality, Best!Cardinality
<1>3. \A a, b : Single!Asked!Fewer(a, b) = Best!Fewer(a, b)
  BY DEF Single!Asked!Fewer, Best!Fewer
<1> QED BY <1>1, <1>2, <1>3 DEF Single!Asked!IsBestOf, Best!IsBestOf

LEMMA TableIsAnswer == CommandInv => TableAnswers
<1> SUFFICES ASSUME CommandInv, pc = "exited", code = 0, Uses(HelpFlags) = {}
             PROVE  IF ToldTop = 0 THEN rows = <<>> /\ stats = Stream!ZeroStats
                    ELSE /\ file # NoFile
                         /\ Best!IsBestOf(rows, {<<n, file[n]>> : n \in AskedRows})
                         /\ stats = [rows_seen |-> Cardinality(AskedData),
                                     rows_kept |-> Cardinality(AskedRows),
                                     parse_errors |-> Cardinality(AskedErrors),
                                     aborted |-> FALSE]
  BY DEF TableAnswers
<1>1. CliInv /\ ControlInv /\ StreamInv /\ SelectInv /\ Single!Inv /\ topk = "returned"
  BY DEF CommandInv, SelectInv, PrintedInv
<1>2. ToldTop = opts.top_k /\ ToldCall = Call /\ opts.top_k \in Nat
  BY <1>1, ToldIsRead DEF CliInv, AllRead, TypeOK
<1>3. Single!Asked!IsBestOf(rows, Range(GivenMovies))
  <2>1. Single!File = Range(GivenMovies)
    BY EmptyRange, SingleNames DEF Single!File
  <2> QED BY <1>1, <2>1 DEF SelectInv
<1>4. CASE ToldTop = 0
  <2>1. stream = "open" \/ stream = "threw" \/ stream = "returned"
    BY <1>1 DEF StreamInv
  <2>2. stream # "returned" /\ stats = Stream!ZeroStats
    BY <1>1, <1>2, <1>4 DEF StreamInv
  <2>3. CommandTypeOK
    BY CommandTypes
  <2>4. Len(rows) = 0 /\ rows \in Seq(Movies)
    BY <1>1, <1>2, <1>4, <2>3 DEF CommandTypeOK, Single!Inv, Single!TypeOK
  <2> QED BY <1>4, <2>2, <2>4
<1>5. CASE ToldTop # 0
  <2>1. opts.top_k > 0 /\ stream = "returned" /\ file # NoFile
    BY <1>1, <1>2, <1>5 DEF StreamInv, ControlInv
  <2>2. pos = Len(file) /\ stats = local /\ ~local.aborted
    BY <1>1, <2>1 DEF StreamInv
  <2>3. Range(GivenMovies) = {<<n, file[n]>> : n \in AskedRows}
    <3>1. \A m : m \in Range(GivenMovies) <=> \E n \in Loop!WantedRows(pos) : m = <<n, file[n]>>
      BY <1>1, <2>1, GivenIs
    <3>2. AskedRows = Loop!WantedRows(pos)
      BY <1>2, <2>2, AskedIsRead
    <3> QED BY <3>1, <3>2
  <2>4. Best!IsBestOf(rows, {<<n, file[n]>> : n \in AskedRows})
    BY <1>2, <1>3, <2>3, BestIsSelected
  <2>5. /\ local.rows_seen = Cardinality(AskedData)
        /\ local.rows_kept = Cardinality(AskedRows)
        /\ local.parse_errors = Cardinality(AskedErrors)
    <3>1. \A S : Loop!Cardinality(S) = Cardinality(S)
      BY DEF Loop!Cardinality, Cardinality
    <3>2. Loop!StatsMatchPrefix
      BY <1>1 DEF StreamInv, Loop!LoopInv
    <3> QED BY <1>2, <2>1, <2>2, <3>1, <3>2, AskedIsRead DEF Loop!StatsMatchPrefix
  <2>6. local \in [rows_seen : Nat, rows_kept : Nat, parse_errors : Nat, aborted : BOOLEAN]
    BY <1>1 DEF StreamInv, Loop!LoopInv, Loop!LocalOK
  <2>7. local = [rows_seen |-> local.rows_seen, rows_kept |-> local.rows_kept,
                 parse_errors |-> local.parse_errors, aborted |-> FALSE]
    BY <2>2, <2>6
  <2> QED BY <1>5, <2>1, <2>2, <2>4, <2>5, <2>7
<1> QED BY <1>4, <1>5

\* All values have their types in every run of the program, the heap and the rows
\* never hold more movies than were asked for, and hold lines that have been read.
THEOREM CommandTypeCorrect == CommandSpec => []CommandTypeOK
BY CommandInvCorrect, CommandTypes, PTL

\* From the arguments to the table: a program that exits with 0 and was not asked for
\* help has printed the best N of the movies that pass the thresholds, best first, and
\* counted the rows of the whole file, for every command line and every file.
THEOREM TableAnswersCorrect == CommandSpec => []TableAnswers
BY CommandInvCorrect, TableIsAnswer, PTL
=============================================================================
