# A TLA+ model of imdb-topk

The repository ranks IMDb titles: a command, `imdb-topk`, streams a TSV file, keeps the best
K movies in a bounded binary heap and prints them. This directory models that program and the
two containers it is built around, model-checks the models with TLC and proves with TLAPS almost all
safety properties the runs check: of the heap, of the red-black tree and its fixups, and of the program up
to the table it prints.

Contents: the parts of the system, how the modules stand for them, what the runs check, what
is proved, what is left out, where the code and its documentation disagree, and what comes next.

## 1. The system

| Part | State | Operations | Interacts with |
| --- | --- | --- | --- |
| `MinHeap<T, Compare>` (`include/imdb/MinHeap.h`) | a vector in heap order | push, emplace, pop, pop_value, top, range insert and construction, clear, copy, move, swap | owned by `top_k`; calls the comparator |
| Movie ordering (`include/imdb/Movie.h`) | none | `operator<` ("better first"), `operator>`, `operator==` | comparator of the heap and of the eviction test |
| Line splitter (`SplitTsvLine`, `src/loader.cpp`) | read position, fields | one call per line | called by the loader |
| Streaming loader (`src/loader.cpp`, `include/imdb/Loader.h`) | counters, header flag, progress counter | `StreamMovies`, `LoadMovies`, `load_movies`, `for_each_movie` | calls a visitor and a progress callback, throws or returns 0 |
| Top-K (`include/imdb/TopK.h`) | a bounded heap, per thread under OpenMP | `top_k`, `merge_top_k` | its visitor fills the heap while the loader streams |
| `RedBlackTree<Key, Value, Compare>` (`include/imdb/RedBlackTree.h`) | nodes, colours, a sentinel | insert, erase, lookups, bounds, iteration, clear, copy, move, swap | a library of its own; tests and benchmarks use it |
| Command (`src/cli.cpp`) | options | argument parsing, exit codes | calls `top_k` |

What is hard about each, and what makes it correct:

* **MinHeap.** Sequences of operations with ties, the unsigned index of `build_heap`, a range
  insert that throws half-way. Correct: heap order whenever a caller looks, no object lost or
  duplicated, pop removes a minimum, logarithmic and linear swap counts, every operation ends.
* **Ordering.** Five keys in two directions, and floats that may be NaN. Correct: a strict total
  order, and the documented one.
* **Splitter.** Ends of lines in every position, doubled quotes. Correct: plain lines are cut at
  tabs, encoded fields are read back, it ends, and never looks past the line.
* **Loader.** Many ways out of one loop body, each with its counters; a visitor that stops or
  throws; a file that cannot be opened. Correct: counters are those of the lines read, the
  wanted movies are delivered once and in order, reports agree with counters.
* **Top-K.** Ties at the bound; a heap whose order is the reverse of the ranking; under OpenMP,
  interleaved threads and a merge behind a barrier. Correct: what is returned is a best
  selection of K, best first, and a call ends whatever a thread meets.
* **RedBlackTree.** Fixups that climb, one shared sentinel whose parent link is written, iterators
  across erasures and across moves of the whole tree, copies that fail half-way. Correct: search order, links, colours and
  black heights, a shallow tree, iterators that only their own erasure disturbs, one sentinel to
  an object.
* **Command.** Flags that are read as values, conversions that throw or wrap, three numbers on their
  way through two calls. Correct: documented exit codes; the table holds the best N of the rows that
  pass the thresholds, N and the thresholds being what the last use of each flag says; it ends.

The program is sequential but for the OpenMP region. Nothing is persisted and nothing is sent, so
there is no crash recovery and no message loss to model.

## 2. The modules

```
 PriorityQueue <== MinHeap -- MinHeapProofs          Movie -- MovieOrder --+
                                                       :                    +-- RowProofs
 MovieStream <== Loader      TsvSplit -----------------:--------------------+
      ^                         :...> FieldCount of    : (Better)
      | INSTANCE                      Loader           :
     TopK ==> Selection       BoundedHeap <-- TopK, TopKParallel
              TopKParallel ...> Selection!IsBestOf, over the copies of all threads

 LoaderProofs   TopKProofs <-- TopKParallelProofs   CommandProofs --> LoaderProofs, TopKProofs

 Cli <== Command, made of Cli, Loader, BoundedHeap and Movie; its table is Selection!IsBestOf

 OrderedSet <== RedBlackTree -- RedBlackTreeProofs

 TreeHandles (trees as sets of keys) -- TreeHandlesProofs
```

`A <== B`: B is shown to implement A. Dotted: a fact shown of one module is what the other
assumes. `MC*` modules hold the constants of the instances, `*Proofs` modules the theorems; one that points
at another uses its lemmas through an INSTANCE.

* **PriorityQueue / MinHeap.** `data` is `data_`; slot `j` of the vector is `data[j + 1]`. Elements
  are objects, so two equal values stay distinguishable. An operation is an action that begins
  when `pc = "idle"`; each iteration of `sift_up`, `sift_down` and `build_heap` is an action of
  its own. `other` is the second heap of copies, moves and swaps. `torn` records that a range
  insert threw and nothing has rebuilt the heap since. PriorityQueue knows only what is stored.
  An element pushed must not be in the heap already: an object is in one place.
* **Movie / MovieOrder.** `Better` is `operator<` on records of the five fields, `Same` is
  `operator==`; `Differ` and `Above` are `!=` and `>` of floats with NaN. The variables of MovieOrder
  are three movies someone compares.
* **TsvSplit.** `p` is the offset of the pointer; `mode` says which loop runs. The characters are
  the quote, the tab and a letter. Lines are all short ones, and those that a writer puts together field by
  field (`WriteField`, `EndLine`, before the call) by the quoting rules in the comment above `SplitTsvLine`.
* **MovieStream / Loader.** One call of an entry point; one action per line, named after the way
  the loop body leaves it (`SkipBlank`, `ConsumeHeader`, `RejectUnparsed`, `RejectFiltered`,
  `Keep`). A line is a record of what the loop tells apart. `FieldCount` is what `TsvSplit!PlainSplit`
  shows of the splitter. `refusals` counts how often the callback of `for_each_movie` has answered false:
  it is read by properties only, to tell a loop over the sink that was stopped from one that ran to its end.
  MovieStream knows only the wanted movies and the visitor's answers.
* **Selection / BoundedHeap / TopK.** TopK composes MovieStream (the stream) and BoundedHeap (the
  heap, as the set PriorityQueue shows): `Visit` is the visitor's body. Selection says what a best
  selection is, without a heap.
* **TopKParallel.** Threads of the OpenMP team interleave opening, visiting and ending; `Join` is
  the barrier; `MergePop`, `MergeOffer`, `MergeNext` are `merge_top_k`. The team may be smaller
  than asked for. A movie in a heap is a pair of the thread that parsed it and the row. The main thread
  (`MainStep`) and each worker (`ThreadStep`) are scheduled apart.
* **OrderedSet / RedBlackTree.** `tree` holds root, links and colours; a node is named by its key.
  Left and right branches, which the code writes out twice, are one definition with a side `s`.
  Linking or unlinking a node is the first action of an insertion or erasure, each round of a fixup
  another. `it` is an iterator of the caller. OrderedSet knows keys and the iterator's position. In both modules
  `call` names the operation called last and its key, so that a step of the tree is compared with the step of
  the ordered set for that very operation and key: what `upper_bound(4)` answers is no excuse for `find(4)`, nor
  `end()` for `++`. `Sought` are the keys that lookups are asked for.
* **TreeHandles.** Two tree objects as sets of keys with their sentinels; `ends` is the sentinel the
  links of an object's nodes end in, `tree_` the object an iterator was made from. `copy` is the
  temporary of a copy assignment, which is filled node by node and may fail at each (`CopyThrows`).
* **Cli.** One action per argument; words that are no flags have a number, a readable file, or
  neither. `opts` holds the `CliOptions` and the local `data_set`. `top_k` is a call that throws or returns.
* **Command.** The program put together. `topk` says where `top_k` is; `stream`, `pos`, `local` and the
  like are Loader's variables, and `Read`, `Visit` and `EndStream` are Loader's actions, with the
  insertion into the heap as part of `Visit`. A movie is a line with its number, and the heap ranks it by
  `Movie!Better` of the fields that `Built` makes of it. What the path names is chosen when `top_k` is
  called (`CallTopK`): nothing else in the program opens it.

Definitions marked "Mutant of ..." are plausible mistakes in one operation. No specification uses
them: each shows that a property would notice if the code were wrong in that way, and
`PROJECT.json` pairs them up.

## 3. What the runs check

Runs named in bold must hold. `TypeOK` in each is the type invariant, which also keeps loop indices
inside their vectors and heaps within their bounds.

| Run | Instance | Shows |
| --- | --- | --- |
| **MCMinHeap** | 2 heaps, 4 objects of 3 values, throwing inserts | `HeapOrder`, `LoopInv`, `Distinct`; `PriorityQueueSpec`; `SwapBound`: push and pop swap at most log2 n times, heapify fewer than n; `OperationsReturn` |
| **MCMovieOrder** | 2 values a field, 2 ratings and NaN | `StrictTotalOrder`, `DocumentedOrder` on all triples |
| **MCTsvSplit** | all lines of 6 characters, all encodings of 3 fields of 2 characters | `PlainSplit`, `RoundTrip`, `Terminates` |
| **MCLoader** | 8 calls; every file of 2 lines of 15 kinds, 5-line files of 3 kinds | `StatsMatchPrefix`, `ReportsMatchStats`, `CountsWholeFile`, `StatsWrittenAtEnd`, `StreamSpec` |
| **MCTopK** | up to 5 movies in every order, 2 equal, k in 0..3 | `HoldsBest`, `SelectionSpec` |
| **MCTopKParallel** | 3 threads, 3 movies, k in 0..3 | `HeapsHoldBest`, through the region and the merge; `CopiesSelected`; `CallEnds` |
| **MCRedBlackTree** | 8 keys with an iterator, one of them looked up | `SearchTree`, `RedBlack`, `LoopInv`; `OrderedSetSpec`: the answer of each operation; `FixupsEnd` |
| **MCTreeHandles** | 2 objects, 3 keys, 3 sentinels | `SentinelsOwned`, `HomeIteratorEnds` |
| **MCCli** | command lines of 4 arguments, 7 words; files of a header and 3 different rows of 6 | `ExitCodes`; `TableAnswers`: from the arguments to the table; `CliSpec`: Command implements Cli; `ProgramEnds` |

The remaining runs end in a counterexample: section 6.

**Why the bounds are enough.** Four objects give a heap of three levels, and two of
them have the same value; the proofs of section 4 cover every size. Every branch of the splitter looks
at most one character ahead, and six characters hold two quoted fields with a tab. The loader's body
depends on the history of a call through the header flag and the progress counter only, which change
within two or three lines. Five movies against k = 3 evict twice with a tie among the kept and among
the evicted. Three threads have an order in which each is first, between and last. Eight keys give trees
of four levels, in which the erase fixup climbs and all its cases and mirror images occur: the runs
fire every action, and `Next` has no disjunct that no run takes. One sought key is enough to meet what lookups
meet: in the trees the run visits, the key 4 is present or absent, with none to three keys below it and none to four
above it. Lookups of all eight keys exceed the time of a run; the theorem covers all. Three sentinels are as many as two
objects and a temporary need. Four arguments hold a path and one more value, or a path and two switches, so
that each flag meets each word, the defaults and the wrong number of arguments; three rows against the default
of two evict once, and two rows differ in their last key only. Named bounds in the guards (`MaxSize`, `MaxLine`, `MaxFields`,
`MaxChars`, `MaxArgs`) cut off nothing but larger instances.

Moduli stand for widths: 8 for 2^32 votes, 32 for 2^64. What matters is that some numbers in the
instance lie above them.

**Fairness and ending.** Liveness assumes that a loop that can take a step takes one: weak fairness of the
heap's sift and build steps and of the splitter's steps. Each runs on one thread inside a call and
waits for nothing, so this is what a C++ thread's progress gives. No operation is assumed to be called.
`CallEnds` assumes the same of the main thread and of each worker by itself (`FairSpec`): they share no lock,
and the one place where one waits for others, the barrier, is the guard of `Join`. `ProgramEnds` assumes it of
the program's only thread.
That the tree's fixups end is stated without fairness, as a variant: each round lessens twice the
depth of the node it is at, plus one for a black node.

## 4. What is proved

`MinHeapProofs`, for every set of objects, every strict weak order on them, every bound on the size, with and
without throwing copies (the assumptions of MinHeap, which TLC evaluates in every run of it):

* `TypeCorrect`: `Spec => []TypeOK`.
* `HeapOrderCorrect`, `LoopInvCorrect`: heap order alone is not inductive, since a loop breaks it on
  its way. What is inductive is `Inv == TypeOK /\ HeapOrder /\ LoopInv`. `LoopInv` says for each loop
  which edges may be out of order: for `sift_up` the one above its index, for a pop's `sift_down`
  those below, for `build_heap` all edges whose parent lies ahead of its index. `Bridged` adds that
  the children of the moved slot are in order with its parent: without it a swap could not be shown
  to repair the edge it leaves behind. There is one lemma per action.
* `DistinctCorrect`: swaps and moves of slots neither lose nor duplicate an object.
* `RootIsMinimum`: in a vector in heap order nothing precedes slot 0. A minimal counterexample: the
  first slot that precedes the root has a parent that does not, so its edge is out of order.
* `HeapIsPriorityQueue`: `Spec => PriorityQueueSpec`, from the invariants and `RootIsMinimum`.
* `SwapBoundCorrect`: push and pop swap at most log2 n times, heapify fewer than n times. Inductive is `SwapInv`. In
  `sift_up` and `sift_down` the index halves or doubles with each swap, so 2^swaps times one is bounded by the other. For
  `build_heap` no sum over the levels is taken: `Charges(f, n)` says that f[b] swaps are enough for the slots from b on,
  that a slot from which c levels lead down costs c of them, and that f[0] < n; `ChargesExist` shows by induction over n
  that there is such an f, as the slots with children are at most half of all.

`RowProofs` is about the two parts that see one row only.

* The splitter, for lines and fields of any length and any characters of which the quote is not the tab.
  `SplitTypeCorrect`: the pointer never leaves the line, whatever is in it, an unterminated quote included.
  `PlainSplitCorrect`: inductive is `CutInv`, which says which piece the pointer is in and that the fields so far are
  the pieces before it; a piece is found by counting tabs (`PieceIs`). `RoundTripCorrect`: while the writer writes,
  there are places where its fields start (`Laid`); while the splitter reads, the fields it has are the first of
  those and its pointer is at a start, behind a closing quote, or as far into the field as what it has of it
  takes up (`Aligned`). `SeenInQuotes` is why it takes no doubled quote for the closing one and the closing one
  for no doubled quote: a tab or nothing follows the latter. `FieldsCountedCorrect` is the assumption that Loader
  makes of a row's number of fields (`FieldCount`). `SplitEnds`: each step of the loops lessens `Remaining`.
* The ranking, for every set of field values, NaN among the ratings or not: `BetterIsTotalOrder` (asymmetric and
  transitive on all movies, total on those with a number), `RatedIsWeakOrder` and `OrderCorrect`. By
  `RatedIsWeakOrder` the assumption TopK makes of its order is met by the code's for files without a NaN, and what
  MinHeap assumes of its comparator by `std::greater<Movie>`. `NaNIsUnranked` is why transitivity survives a NaN.
  `DocumentedOrderCorrect`: the chain of tests compares by the first key that differs, in the documented directions.

`TopKProofs`, for every set of files without repeated rows, every k, and every order that puts equals in
classes (the assumptions of TopK):

* `TypeCorrect` and `HoldsBestCorrect`. The step that matters is `OfferKeepsBest`, a lemma about sets: a heap
  with the best n of S that is offered a new movie holds the best n of both. Its inductive invariant adds
  `Counted` (a movie is ahead or given, and comes once) and, for the drain, `DrainInv`: heap and rows
  together are the best k, the rows are worst first, and nothing left in the heap is worse than a row.
* `TopKIsSelection`: `Spec => SelectionSpec`. That reversing the rows puts the best first, and that k of them
  are returned or all there are, follows from `DrainInv` with an empty heap.

`TopKParallelProofs`, for every number of threads, every interleaving, every set of files without repeated rows
and every order that puts equals in classes:

* `TypeCorrect`, `HeapsHoldBestCorrect`, `CopiesSelectedCorrect`. One thread's visits are those of TopK on that
  thread's copies, so `OfferKeepsBest` is reused through an instance of TopKProofs. The inductive invariant adds
  `Threading` (a thread outside the team has been given nothing, and behind the barrier each has ended), `Phases`
  (what the main thread may be doing with which heaps), `Counted` (a thread's visits are different copies, and its heap holds no other's), `Apart` (during the merge
  a copy is in one of heaps, buffer and global heap only) and, for the drain, a `DrainInv` like that of TopKProofs.
  That nobody disturbs another's heap needs no lock: each action changes its own thread's components only.

`LoaderProofs`, for every file of any length, every option and every visitor (a line has integers and a rating that
may be a NaN; a call's options are those that its entry point lets a caller set: `IsFile` and `IsCall`):

* `TypeCorrect`, `StatsMatchPrefixCorrect`, `ReportsMatchStatsCorrect`, `CountsWholeFileCorrect`. Inductive is their
  conjunction with `HeaderInv` (the header is awaited as long as only blank lines were read), `Delivered` (the
  visitor was given the wanted rows of the lines read, in file order), `ProgressInv` (kept rows = reports times the
  threshold + the counter, which stays below the threshold) and `EndInv` (what each way to end leaves behind: a loop over the sink that still runs has met no refusal, and one that
  has ended without one has given everything). The sets of
  rows among the first lines are related from one line to the next by lemmas of their own.
* `StatsWrittenAtEndCorrect`, an action property, follows from the actions alone.
* `LoaderIsStream`: `Spec => StreamSpec`. The rows not yet delivered, in order, lose their first when a row is kept
  and stay as they are whatever else the loop does with a line.

`CommandProofs`, for every command line of words and flags, every file without a NaN and all moduli (words are no
flags; numbers that a flag stores are those of the conversions):

* `CliTypeCorrect`, `ExitCodesCorrect`: of Cli by itself, whatever `top_k` does. What ParseArgs reads as a flag is
  defined in Cli by a recursive function over the positions (`FlagAt`), since the argument behind a value flag is no flag whatever it
  looks like; `FlagAtFollows` shows that the equation has a solution, the largest set in which each position is
  reasoned. The inductive invariant says that the parser stands at a flag, that nothing was wrong before it, and that
  every option holds the value at the last use of its flag before it.
* `ProgramIsCli`: `CommandSpec => CliSpec`; `ProgramExitCodes` follows.
* `CommandTypeCorrect`, `TableAnswersCorrect`: the table is a best selection of the rows that pass the thresholds, N
  and the thresholds being what the last use of each flag says. The proof is put together like the program: the
  loader's loop invariant comes from an instance of LoaderProofs, the heap's and the drain's from an instance of
  TopKProofs, whose assumption on the order is proved of `operator<` on the movies of a file without a NaN
  (`RankingOrder`); `ToldIsRead` connects the three numbers with the command line.

`RedBlackTreeProofs`, for every set of integers as keys and every sequence of operations:

* `TreeIsInvariant`: `Spec => []TreeInv`. None of the properties below is inductive, as they speak of the tree
  through functions recursive over the links. `TreeInv` says instead that functions exist with which the tree is
  well built node by node: B, the nodes at and below each (`Shape`: links, parents, search order), and H, the black
  height of each (`Even`). In a whole tree every node has the same H on both sides and no red node is below a red
  one. During an insertion (`Rising`) one node may be red below a red one; during an erasure (`Deficit`) one black
  is missing at one link, to which the loop's node leads even if it is the sentinel (`Gap`), and two reds meet at
  that node only. Keys that are not allocated have no links at all (`Bare`), and the links of a node being
  erased lead into the tree (`Loose`), so that the code's walks end whatever key they start from.
  For each rotation, transplant and repainting a lemma says what it does to B and to H (`TurnKeepsBelow`, `TurnKeepsEven`,
  `SpliceKeepsShape`, `RenameKeepsShape`, ...); each case of the fixups puts a few of these together.
* `SearchTreeCorrect`, `RedBlackCorrect`, `LoopInvCorrect`, `TypeCorrect` follow from it, once the recursive functions
  of the properties are known to be B and H. That their equations have a solution, which no recursive definition
  guarantees, is `WalkExists`: by induction over B, what is computed at a node from its children's values exists. The
  height bound is `ManyNodes` (a node of black height h has 2^h - 1 nodes below and at it) and `HeightIs`; powers of two double
  because sets of n + 1 elements have twice as many subsets as those of n (`PowerDoubles`).
* `OrderedSetRefined`: `Spec => OrderedSetSpec`. `Find`, `Bound`, `Outermost` and `Neighbour` are the lookups and
  neighbours of the set of keys (`FindIs`, `BoundIs`, `NeighbourIs`), for every key sought, all of `Keys` included; an
  action of the tree implies the action of the ordered set with the same name and key (`LookupSet`, `MoveSet`,
  `InsertSet`, `EraseSet`, `ClearSet`); an iterator is at a node in the tree or at the
  end (`CursorInv`), and a round of a fixup is a stutter.
* `FixupsEndCorrect`: every round of a fixup lessens `Remaining`. The depth of a node is the number of nodes above it
  (`DeepExists`), and a rotation changes depths only below its top (`TurnDepth`). Together with the invariant this says
  that the loops end, without a liveness argument.

`TreeHandlesProofs`, for any two objects: `TypeCorrect`, `SentinelsOwnedCorrect` and `HomeIteratorEndsCorrect`. Their
conjunction is inductive: that links end in their own object's sentinel is what tells an iterator at home
from one that is not, and that the sentinel of a copy under way is no object's is what lets it be swapped in or
deleted.

## 5. Model-checked only, and not modelled

Every safety property and action property of a passing run is proved. Only model-checked is liveness, which like
ENABLED is outside the prover's reach: `OperationsReturn`, `Terminates`, `CallEnds`, `ProgramEnds`. The induction
theorems of the library take an operator, which the installed provers cannot instantiate; the inductions of
this project are written as the search for a least counterexample instead.

Not modelled:

* benchmarks, tests (read as statements about the other parts), build files and sample data. One thing met
  in passing: `CMakeLists.txt:73-74` passes the words `OpenMP_CXX_FLAGS` themselves as a compile and link
  option.
* allocations that fail in `push` and `insert`: they change nothing before they throw. `reserve(k)` that throws
  is modelled, as are throwing range inserts, tree copies, visitors and noexcept moves.
* values in the tree. A value stays in its node, and erasure relinks nodes and never copies between them, so
  in a model that names nodes by their keys a property of values would hold whatever the code does; that is why
  RedBlackTree is listed as partly modelled. With values the reverse iterator's dereference is left out; its `++`
  is `Retreat`.
* a progress callback that throws; comparators with state; iterator dereferences, which
  reinterpret a node as a pair (`RedBlackTree.h:99`); `erase(const_iterator)`, which uses members
  `const_iterator` does not have; `emplace`, whose arguments all go to the key (`RedBlackTree.h:444`);
  the sentinel's storage, freed without its destructor (`RedBlackTree.h:298`); `--end()` on an empty tree,
  which puts the sentinel into an iterator.
* the bytes of a line. `StripBom` runs on every line (`loader.cpp:200`) while `docs/foundation.md:63-64` has it
  drop "the first one".
* a read error in the middle of a file: `getline` ends the loop as at the end of the file, and the files of
  Loader are what `getline` delivers.
* how `--min-rating` is read: `std::stof` (`cli.cpp:91`) rounds to a float, throws `out_of_range` for a number too
  large, and takes "nan" and "inf". Thresholds of Cli are integers that a word stands for.
* what a moved-from element is, once `pop_value` or a swap has moved it: objects of MinHeap are values in slots.
* the text of table and summary (that they show `rows` and `stats` is modelled); the values of the defaults, where
  the README's usage text and the code disagree; the program of the OpenMP build beyond its `top_k`.

## 6. Where the code and what is said of it disagree

The first three are runs whose one property states the quoted text and which TLC refutes.

| Run | Said | Done |
| --- | --- | --- |
| MCTopKPartition | threads read slices of the file (`TopK.h:22-25`) | each reads all of it; rows repeat, counters multiply |
| MCTreeHandlesIterator | an iterator is valid while its node lives (`algorithms.md:153-154`) | not when the node moves to another object: it walks without end |
| MCLoaderColumns | fewer than 9 columns are parse errors (`loader.cpp:19`) | 8 columns pass, since a line that does not end in a tab has one field more than columns |

The others were met in reading. The models do what the code does, and no run is spent on the text; where a
definition shows the behaviour it is named.

| Said | Done | Seen in |
| --- | --- | --- |
| callers cannot violate the heap invariant (`MinHeap.h:12-14`) | a range insert that throws leaves appended elements out of order | `torn` of MinHeap |
| `pop_value` on an empty heap returns a value (`MinHeap.h:141-143`) | it asserts | `Aborted` of MinHeap |
| a strict total order (`Movie.h:47`) | not with NaN, which `stod` reads and which is neither above nor equal to anything | `Differ`, `Above` of Movie |
| a column count mismatch can be detected (`foundation.md:61-62`) | "a, tab, b" and "a, tab, b, tab" have the same fields | `Phantom` in `PlainSplit` |
| a report every `progress_every` rows (`Loader.h:80`) | every so many kept rows | `ReportsMatchStats` |
| the visitor of the Top-K path aborts early, once there are enough candidates (`foundation.md:46-49`) | it never does: a later row may be better | `Visit` of TopK |
| the example output ranks 8.5 above 8.7 (`README.md:74-75`) | the higher rating comes first, as `Movie.h:44` says | `DocumentedOrder` |
| `for_each_movie` streams, and `false` aborts the stream (`Loader.h:46-48`) | the file is read to its end first | `CountsWholeFile` |
| only rows with rating >= the threshold (`Loader.h:70`) | a NaN passes, and a rating is rounded to float before it is compared with a double | `Float` of Loader |
| rows with enough votes are kept (`Loader.h:73`) | votes count modulo 2^32 | `VoteModulus` of Loader |
| `operator==` is never true of distinct movies (`Movie.h:57-61`) | it reads neither rating nor votes, and movies equal to it can be ranked | `Same` in `StrictTotalOrder` |
| an unreadable file throws (`Loader.h:100-102`), and exits with 1 (`cli.cpp:19`) | a directory opens, and a read error ends the loop like the end of the file: exit code 0 with what was read | `EndOfFile` of Loader |
| exit code 1 for a missing file (`cli.cpp:19`) | the OpenMP build is terminated | "terminated" in TopKParallel |
| left-leaning (`RedBlackTree.h:2`) | red right children | RedBlackTree |
| an insert may invalidate all iterators (`algorithms.md:154-155`) | none does, as in `std::map`: nodes never move | `Insert` of OrderedSet |
| `verify_invariants` checks black heights (`algorithms.md:128-130`) | it does not count black nodes | `VerifyInvariants` |
| moves do no work and cannot fail (`algorithms.md:165`) | they allocate, and terminate the program if that fails | `MoveThrows` of TreeHandles |
| invalid arguments exit with 2 (`cli.cpp:20`) | `--top x` terminates the program | `BadNumber` of Cli |
| 1 means the file cannot be opened (`cli.cpp:19`) | so does `--top -1` | `TopKThrows` of Cli |
| fewer than V votes are skipped (`cli.cpp:66`) | V counts modulo 2^32 | `TableAnswers` of Command |

Several meet in one point: a rating NaN breaks the strict weak order that MinHeap assumes, so the theorems
about the heap do not cover files that contain one; the models of top_k assume an order without it.

## 7. Plan

Written so far, in this order: MinHeap with its proofs, TsvSplit, Loader, TopK, TopKParallel, MovieOrder with
its proofs, RedBlackTree, TreeHandles, Cli, the proofs about TreeHandles and TopK, Command, which puts the
program together, the proofs about TopKParallel, Loader, Cli and Command, and
those about RedBlackTree and the splitter. What is left to prove is what liveness rests on: a variant for the
heap's sift and build loops and for the threads of `TopKParallel` up to the barrier and behind it, as `Remaining` is one
for the tree's fixups and for the splitter.
