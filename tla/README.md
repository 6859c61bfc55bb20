# A verification project for raptorial

[raptorial](../src/README.md) replaces a set of APT tools: it lexes Debian
package lists, the dpkg status file, Contents files and changelogs, in parallel
where it can, and answers which versions of a package are installed or
available and which package holds a file. This directory holds TLA+
specifications of its library, TLC configurations that check them on small
instances, and TLAPS proofs that hold for every instance. File names below are
relative to `src/src/lib` unless they say otherwise.

## 1. Inventory

| Component | State | Operations | What is hard | What makes it correct |
|---|---|---|---|---|
| Contents walk, `contents.c` 105-432 | one `struct dirparse` for all threads (queue of `workmonad`s, `holdup_sem`, lock), a shared `DIR`; per thread a buffer and a stream | `lex_contents_dir`, `lex_dir`, oneshot, nextshot, work queue | any number of threads; work handed from thread to thread; a counter keeps idle threads from leaving; dirents read after other `readdir` calls; a thread that fails | every buffer searched exactly once on success, one owner per stream, exact counter, the call returns |
| Contents lexer, `contents.c` 28-103 | five lexer states, in-place buffer | `lex_content` | lines that straddle two buffers | each whole line is tested once, with its own packages; the header is skipped; a cut line takes no other with it |
| Package and status lexer, `packages.c` 64-459 | `struct pkgparse` (chunk offset, lock), shared `pkglist`, per-lexer list | `lex_packages_file`, `lex_status_file`, `lex_chunks`, `lex_chunk` | records cut by chunks anywhere; lexers splice their lists; objects go on shared trie chains | the list is what the whole text says, whatever the chunks |
| Package directory walk, `packages.c` 561-691 | `pkgcache` (list of lists), the trie's objects and their chains, shared `DIR` | `lex_packages_dir`, `free_package_cache` | concurrent pushes, failing threads, dirents read late, partial results | each list once, chains complete, failure reported |
| Version order, `versioncmp.c` | none | `debcmp` | a hand-written total order | antisymmetric, transitive, agrees with deb-version(5) |
| Trie and matchers, `aac.c` | vertex array with sorted edge arrays, Boyer-Moore tables | `augment_dfa`, `match_*`, `walk_dfa` | reallocation under live pointers, binary search, skip tables | the trie is a map from patterns to objects; the matcher finds what is there |
| Changelog lexer, `changelog.c` | thirteen lexer states, list of entries, `*cptr` | `lex_changelog` | many ways out, partial results, a layout that is not checked | each entry of the file is read, with its own fields; the caller can reach all that were lexed |
| Version queries, `packages.c` 693-754, `bin/rapt-show-versions.c` | chains read only | `find_installed`, `find_newest`, the two outputs | an order that is not the list order | the newest is the newest, whatever the chain's order |
| File mapping, `util.c` | none | `mapit` | failure paths | - |
| Paths, front ends, tests | none | option parsing, printing | - | - |

How they interact. A front end builds a trie of patterns (`augment_dfa`), or
lets `lex_status_file` build it (`lex_chunks` calls `augment_dfa` while it holds
the list's lock). `lex_packages_dir` then runs one thread per processing
element; each thread calls `lex_packages_file_internal` for the files
`readdir` hands it, which filters by the trie and pushes every package it makes
on the chain of the trie object of its name. `find_newest` and `find_installed`
walk such a chain and compare with `debcmp`. `lex_contents_dir` runs a pool of
its own over Contents files and uses the trie as a matcher only. The threads
come from libblossom (`blossom_per_pe`, `blossom_join_all`,
`blossom_validate_joinrets`), which is external: it appears as a caller that
starts all threads, waits for all of them, and fails if one returned NULL.

PROJECT.json lists the components with their status, and under "hazards" what
can go wrong in this code that a test would hardly reach, each with the
properties that cover it or the reason why none does yet.

## 2. Modules

| Module | Models | Kind |
|---|---|---|
| `DirStream` | a `DIR` shared by threads, as both walkers use `readdir(3)` | external component, extended by the two walkers |
| `ContentsQueue` | `contents.c` 105-432 | detailed specification |
| `ContentsScan` | what `lex_contents_dir` promises | abstract specification; `ContentsQueue` implements it |
| `DirStreamProofs` | | the premise `OneFill`, lemmas about `DirStream` |
| `ContentsQueueProofs` | | theorems about `ContentsQueue`: counter, exit, streams, buffers, refinement of `ContentsScan` |
| `PkgLex` | `packages.c` 64-124, 156-459 | detailed specification and the text's meaning |
| `PkgLexProofs` | | theorems about `PkgLex`: chunks, records, list, chains, trie |
| `PkgDir` | `packages.c` 226-242 (the push), 461-500, 561-691 | detailed specification, extended by `ShowVersions` |
| `ShowVersions` | `packages.c` 693-754, `bin/rapt-show-versions.c` 32-103, 163-208 | composition: `PkgDir`'s threads, then the report, with `VersionCmp` |
| `ShowVersionsProofs` | | theorems about `PkgDir` and `ShowVersions` |
| `Trie` | `aac.c` 21-89, 131-276, 300-355 | detailed specification |
| `TrieMap` | what the automaton's callers see of it | the refinement mapping to `PatternMap`, and what the searches find; extended by `ContentsFile` |
| `TrieProofs` | | theorems about `Trie`, `Matcher` and `TrieMap`: the refinement of `PatternMap`, both searches |
| `ContentsLex` | `contents.c` 28-103 and its two calls | operators over `Trie`, which is the matcher they use |
| `ContentsFile` | what `lex_content` is to print of a file, line by line | files put together from lines, and the lexer's properties; extended by `MCTrie` |
| `ContentsFileProofs` | | theorems about `ContentsFile`, on top of `TrieProofs` |
| `Changelog` | `changelog.c` | detailed specification |
| `ChangelogEntries` | the layout of a changelog, without its lexer | reference definition, `EntriesExact`, `ChangesWhole`; extended by `MCChangelog` |
| `ChangelogProofs` | | theorems about `Changelog` and `ChangelogEntries` |
| `Matcher` | `aac.c` 91-152, 278-296 | operators, extended by `Trie` |
| `PatternMap` | what `augment_dfa` promises | abstract specification; `Trie` implements it |
| `VersionCmp` | `versioncmp.c` | operators |
| `VersionOrder` | what the callers of `debcmp` build on | strings that grow, to compare; extended by `MCVersionCmp` |
| `VersionPolicy` | the order of deb-version(5), which the comment at `versioncmp.c` 20-37 refers to and quotes | reference definition, extended by `VersionOrder` |
| `VersionCmpProofs` | | theorems about `VersionCmp` and `VersionOrder` |
| `MC...` | | instances for TLC |

### DirStream

`readdir` hands out pointers into a buffer that it refills `BatchSize` entries
at a time. A pointer is a slot; `EntryAt(slot)` is what a read through it finds
at that moment. `Advance` is one call: it is atomic (the C library locks the
`DIR`), what the callers do with the pointer afterwards is not.

### ContentsQueue

`pc[t]` is where a pool thread stands in `lex_dir()` or the functions it calls.
One action is one section under `dp->lock`, or one stretch of code between two
such sections that touches only the thread's own data. `Arrive`, `Rearm`,
`Take` are the increments of `holdup_sem`; `Leave`, `FinishFirst`, `FinishLast`
and the posts `CreateWorkmonad`, `EnqueueWorkmonad` the decrements. `Readdir`,
`Filter` and `Mapit` are apart because each reads through the dirent pointer.
`CheckHoldup`, then `Take` or `Idle`, are the do-while loop at lines 344-352.
A stream (`workmonad` or the `z_stream` on the stack) is a file and the number
of buffers inflated so far; `Shots[e]` says how many a file needs, 0 that it is
not a gzip file. `lexed` is a history variable: how often each buffer went to
`lex_content()`. `Abandon` is the way out with NULL that leaves the counter as
it is (lines 331-334, 348-351). `pthread_cond_signal` is left out: nothing
waits on that condition, idle threads spin (and so does the model, between
`CheckHoldup` and `Idle`), although the comment at 119-120 speaks of sleeping.

### PkgLex

The text is a sequence of characters of the kinds the lexer tells apart. The
states EXPECT and DELIM are folded into PDATA, which they can only leave for a
delimited line or for PDATA: the head of a line says which. `TakeChunk` is
`get_new_offset()` with the head of `lex_chunk()`; `SkipChar` and `SkipAll` the
search for the chunk's first record; `LexChar`, `LexBlank`, `LexLine`,
`GoodRecord` and `BadRecord` one turn of the main loop; `Splice` the locked end
of `lex_chunks()`. The code runs a single lexer (`create_pkglist` calls
`lex_chunks` directly), but is written for many: `crew` is 1 or more. The
properties compare with what the text means as a whole (`RecordStart`,
`ObjectOf`, `Listed`, `WellFormed`), which knows of no chunk.
`EnterNames` is the loop over `augment_dfa()` in `Splice`. It refuses a name that the
trie knows, and may run out of memory at any object (the fault "augment"); the code
looks at neither answer, so that a name may be missing from the trie, or known by a
later record, although the list is returned. The one failure that is not taken is the
allocation of the trie's first array, which frees the trie and leaves the pointer to
it: what follows is undefined (`Trie` has that state and stops there).

### PkgDir

A file is the sequence of package names that the trie selects, and whether it
is malformed at its end. `Hang` is the push on a chain (a section under the
trie object's own lock), `Publish` the naming of the list and the push on the
cache, `GiveUp` the error exits with `free_package_cache`.
The filter and the names are read through the dirent pointer in `Inspect`,
again in `Open` and again in `Publish`.

### ShowVersions

`ShowVersions` extends `PkgDir` with the one thread that is left when
`lex_packages_dir` has returned. `StartReport` is the test of its answer in
`main()`, `ReportObject` one callback of `walk_dfa()`, with every place at which
`printf` may fail, `EndReport` the end. `FindInstalled` and `FindNewest` are the
two walks along a chain. The command line and the status file are read before
the directory walk; what they leave is in the trie (`Names`, the version of the
trie's own object, and in named mode the status file's package at the end of the
chain), and `PkgDir` never reads it. They are therefore chosen when the report
starts (`call`), which saves TLC a walk per choice. `Compare` is `Debcmp` on the
versions of the instance. `SummaryTrue` says what a line may say in terms of the
lists as sets, so that no order of a chain can show in it. A name that
`augment_dfa()` lost (see `PkgLex`) is not in the trie, and not among `Names`.
Nothing is asked of what the program does after `main()` has left by its NULL test:
the walk's packages are freed then, and there is nothing to report.

### ContentsLex

`Step` is one turn of the loop, with the five states; `LexContent` a whole
buffer. `hol` and `val` are what the pointers point at, up to the NUL that ends
it. `LeftBehind` is what a call leaves in its buffer: the next one lexes the
whole buffer, though inflate() may have filled only its beginning
(`lex_content_map_nextshot`); the first buffer comes zeroed from the system. A
line that is cut between two buffers is what the FIXME at line 43 speaks of;
what can be asked is that it takes no other line with it.

`ContentsFile` puts files together from lines: white space or none, a name, and
what stands behind it, with the packages behind its first slash if it has one
(`LinesAssumption` says what a line may be; its characters are those of the first
128 codes that are no newline). `Wanted` is what one search term should make the
lexer print of a line, in terms of `Occurs` and not of any automaton.

### Changelog

One action per case of the loop, one step per turn; a case that falls through
is a step that stays at its character. Strings are slices of the text, so that
a pointer left over from an earlier entry shows as a slice in the wrong place.
`Err`, `Abort` and `EndOfText` are the three kinds of ways out, which differ in
what they write to `*cptr`. Faults are those of `mapit`, `malloc` and each
`strndup`. "urgency=" and "priority=" are one character, since the lexer either
takes all of it or gives up. Behind it the code reads one character without
asking whether the text has ended; whatever it finds, the entry is incomplete
and is forgotten, as it is in the model.

`ChangelogEntries` is the reference, made from the layout of the file and not from the
lexer: a header line, an empty line, the changes, the trailer. `Layout` says where the
parts of an entry are in a text, `InFormat` whether there is one, `EntryOf` what its
fields are; its changes are all lines up to the last one before the trailer that is not
blank. `EntriesExact` asks that an entry which has this layout is read, with each field
in its place, and that none follows the last one read; of the text it asks only that it
is the header and whole lines of the entry's own changes (`IsEntry`). That it is all of
them is `ChangesWhole`, which the code does not keep. `Plain` is what the lexer does not
know of a header that is in the format: it refuses digits in a distribution (`util.h`
21-24), and takes a comma behind the urgency into the urgency. `MCChangelog` puts texts
together from eight entries, four that have the format (`Good`) and four that only the
lexer takes (`Odd`), and `ComposedAssumption` compares `Layout` with what they were put
together from.

### Trie, Matcher, PatternMap

`Trie` has the fields of `struct dfa` as variables; a vertex is an offset into
`vtxarray`, as in the code. `Call` is the head of `augment_dfa()` with the
creation of a new automaton, `Follow` and `AddEdge` one turn of its loop (the
growth of the vertex array included), `AddEdgeFails`, `Duplicate` and `Enter`
its ways out. The code's offsets are kept: position `pos` of an edge array is
`set[pos + 1]`. `EdgeSearch` is the binary search with its two special cases;
`Match`, `MatchWalk` and `WalkDfa` are the readers, as recursive functions (of
one argument that yield functions, which the prover can reason about).
After a failure that leaves `*space` or `bmg.match` pointing to freed memory
the model makes no further call (`MayCall`); the code's callers may.
`Matcher` states `delta1` and `delta2` by what their loops leave in them: the
last assignment to a place is the one that counts.

`PatternMap` knows only a map and the last answer. The refinement mapping
(`Contents` in `TrieMap`) reads the map off the automaton with the exact matcher,
in every state, so that a half-made path, a moved array or a failed allocation
must not be seen by any reader.

### VersionCmp

`debcmp` as operators over sequences of codes; loops are written as "the least
index at which the loop ends". `Overruns` describes the inputs on which the
loop at lines 86-94 leaves the strings; elsewhere the answer is `Debcmp`.
`VersionPolicy` walks the strings in pairs of parts, as deb-version(5) does, and
the first pair that differs decides (`PartsCmp`); epochs compare as numbers.
An epoch that is missing is zero. `Legal` are the versions with a digit behind the
epoch, as deb-version(5) wants them. `Usual` are those of them that have no number with
zeros in front and no epoch 0 written out: in that spelling `debcmp` never decides
against deb-version(5); in the others it may (`VersionCmp_policy`).

## 3. What is checked

Every property has a mutant in PROJECT.json: an operator `X_Something` written
before the definition `X` it mutates, which is the code with a plausible bug;
TLC finds the property violated with it.

| Run | Bounds | Shows |
|---|---|---|
| `ContentsQueue_safety` | 3 threads (symmetric), 4 entries of which one is filtered out, files of 1, 2 and 3 buffers, all faults | `HoldupExact`, `NoEarlyExit`, `ExclusiveStreams`, `LexedAtMostOnce`, `CompleteOnSuccess` |
| `ContentsQueue_live` | 2 threads, the same files, the faults that do not abandon a file | `EventuallyStops`; `ImplementsScan`: the pool refines `ContentsScan` |
| `PkgLex_all` | 2 lexers on all texts of up to 3 pieces of 3 kinds with chunks of 3 and 7; 1 lexer on all texts of up to 2 pieces of 7 kinds, well-formed and not, chunks of 2 and 4, both files, every use of a trie, with faults and without | the list, the count and the chains are exactly what the text says; the trie that is built has only the list's own records, and while memory lasts the first of each name |
| `ShowVersions_all` | 3 threads, 4 entries, 3 lists that share names, one possibly malformed, all faults; four versions, one with an epoch, two that compare equal; 5 calls, with and without names and `--allversions` | cache and chains complete, file order kept, failure reported; `SummariesTrue`, `AllVersionsListed`: the output follows from the lists, whatever the interleaving |
| `Trie_all` | 3 calls with any of 9 strings of up to 3 of 4 letters (one negative), room for 2 vertices at first, every allocation failure; texts of up to 6 characters | `TypeOK` with the sorted tree, `SearchExact` (arrays of up to 6 edges), `SolePattern`, `WalkInOrder`, `BmgExact`, `ReportsOccur`; for the lexer, on files of two lines of five kinds: `LinesFound` (each line with any other or nothing behind it), `HeaderSkipped`, `CutLosesOneLine` (every cut), `StaleTailSilent` (every length); `ImplementsMap`: the automaton refines `PatternMap` |
| `Changelog_all` | all changelogs of up to 2 of 8 entries, then each of 6 invalid lines, each of 2 early ends or nothing, with all faults and without; all strings of up to 4 of 6 kinds of characters behind a version, of up to 5 of 4 kinds behind a trailer | `EntriesExact` (every entry in the format, every field; the text's length aside), `EntriesApart`, `FieldsClean`, `EntriesReachable` |
| `VersionCmp_order` | all pairs and triples of short strings over digits, letter, tilde, colon, plus (see the cfg) | `Antisymmetric`, `Transitive`; `NeverInverts`, for versions in the usual spelling |

Why these bounds are enough to be interesting. Three threads are the fewest
with one that holds work, one that posts, and one that is about to leave. A
file of three buffers goes through the queue twice, so that a thread may take a
stream that it did not post. Chunks of 2 to 7 against records of 3 to 8
characters put every cut at every place of a record, chunks with no record
start included. Two lists with common names and a third give pushes on one
chain by three threads.

Three patterns of up to three characters make the array double twice or three
times, at every character of a pattern, and share prefixes. Strings on which
the code is undefined (an empty first pattern, bytes over 127 in a first
pattern) are not offered: `Tabulated`.

The versions of `ShowVersions_all` are such that the newest is not the first of
its chain in some interleavings, is an epoch in others, and that debcmp-equal
versions of different lists compete. Four changelog entries have
the format: two changes behind an urgency that ends the header, a comment behind the
urgency with two distributions, no urgency, no distributions. Four have not: a colon in
the urgency's place, an underscore in the version and no changes, a date in the next
line, changes right behind the header.

Fairness. Only `FairSpec` of `ContentsQueue` has any, for `EventuallyStops`: each
thread, and the caller, keeps taking steps while it can (weak fairness of
`ThreadStep(t)` and of `MainStep`). The kernel schedules runnable threads; the only
blocking calls are the join, whose guard says what it waits for, and mutexes held for
a few instructions, which the model makes part of one step. No strong fairness is used.
In `ContentsQueue_live` the environment's failures are choices, never obligations. In
the other modules nothing waits but the same join, and no liveness is asked of them.

### Runs that find a violation

- `ContentsQueue_badfile`: one `.gz` file that inflate() refuses and the call
  never returns. Its thread ends with its unit of `holdup_sem` unreturned.
- `ContentsQueue_refill`: a directory that needs two `readdir` buffers; a file
  is skipped and the call returns 0. `ContentsQueue_safety` uses a directory
  that fits into one buffer (`BatchSize >= Len(Dir)`), where this cannot happen:
  its properties about completeness hold under that premise.
- `ShowVersions_installed`: an installed package whose version is on no list is
  reported as not installed, because `find_installed` looks among the packages
  of the lists.
- `Changelog_changes`: an entry's text ends at the first newline that `STATE_CHANGES`
  sees, marked FIXME. Behind an urgency that ends the header that is the end of the
  first line of the changes, in any other entry that of the header; the program that
  prints it is to match the output of dpkg-parsechangelog.
- `VersionCmp_policy`: numbers are compared by their number of digits, zeros in front
  included, so that "00" is newer than "0" and "01" newer than "2"; and a version with
  an epoch is newer than any without one, so that "0:1" is newer than "2". The run's
  counterexample is the first of these.

PROJECT.json quotes the documentation each of them contradicts.

Other things seen while modelling have no run of their own; some are among the
hazards with a note:

- `lex_packages_dir` reads its dirents before and after the lexing of a whole list, so
  that in a directory of two `readdir` buffers a list may be there twice and another
  not at all, or one under another's name (as in `ContentsQueue_refill`;
  `ShowVersions_all` uses a directory that fits into one buffer).
- `lex_changelog` returns the entries it has also when it ends on an error, so that
  `rapt-parsechangelog`, which tests for NULL, never warns that it "couldn't lex all"
  of a file (`EntriesReachable` asks only that the caller can reach the entries).
- `longest` is the length of the longest pattern, where `aac.c` 40 says one more, and
  sizes the buffer of `walk_dfa`.
- Letters sort after non-letters, where `versioncmp.c` 26-27 says before; versions that
  begin with a digit never come to that comparison.
- A name of the status file may be missing from the trie when memory runs out, because
  `lex_chunks` does not look at `augment_dfa()`'s answer.
- Freed packages stay on trie chains (`packages.c` 384-389); `free_package_list` frees
  no package, although `raptorial.h` 74-75 promises "any associated state".
- `create_pkglist` returns NULL without writing `*err`, its own FIXME at 418, although
  `raptorial.h` 39-41 says it is written.
- A name given on the command line is a stub without a version, so that nothing named
  is ever reported as installed; of two debcmp-equal versions the first of the chain is
  printed as the installed one.

## 4. What is proved

`ContentsQueueProofs`, for any finite set of threads, any directory, any batch
size, any files and any faults:

- `TypeCorrect` and `HoldupCorrect` together: neither is inductive alone. That
  `holdup_sem` stays within 0..|Threads| follows from its being the cardinality
  of the set `Holding`; that a decrement decrements a positive number follows
  from the decrementing thread being in that set. The lemmas `Gain`, `Lose` and
  `Keep` say what one thread's move does to the cardinality, `TypeStep` and
  `HoldupStep` go through the actions.
- `NoEarlyExitCorrect`: the invariant is strengthened by what a thread knows
  while it walks the do-while loop: whoever is past `Leave` has seen the end of
  the directory (`EndSeen`), whoever copied a zero did so when nobody held a
  unit, and no one can come to hold an entry after that (`ZeroSeen`,
  `LeftAtZero`).

In the same module, for any directory that one refill of `readdir`'s buffer brings
in (`OneFill`, `BatchSize >= Len(Dir)`).
The premise is needed: without it `ContentsQueue_refill` shows a file that nobody
searches. It is the premise under which the code works, not a bound of the proof.

- The invariant `ScanInv` follows a file from the `readdir` that hands it out. It
  is in one thread's hands or once on the queue (`Apart`, `AllHanded`,
  `SlotsBehind`); nothing past the buffers its stream has given has been searched
  (`NotBeyond`); a buffer in a thread's hands has not (`PendingOnce`); what the
  stream has given was searched or is about to be, and a file that is nowhere is
  finished (`NothingLost`, unless a thread failed). `StepMoves` reduces the
  actions to the few ways in which a file changes hands; one lemma per conjunct
  (`ApartStep`, `BeyondStep`, `OnceStep`, `LostStep` ...) goes through those.
- `ExclusiveCorrect` is `Apart`, `LexedOnceCorrect` is `NotBeyond` with
  `PendingOnce`, `CompleteCorrect` is `NothingLost` when the last thread has left.
- `ScanImplemented`: the refinement mapping sends the state to how often each
  wanted buffer was searched and to the call's status. A search adds one buffer that `PendingOnce` says
  is new; the join reports success only when `NothingLost` leaves no buffer out;
  every other step stutters.

The first part of `ShowVersionsProofs` is about `PkgDir`, for any threads,
directory, lists and faults:

- `TypeCorrect`, without `OneFill`: however often the buffer is refilled, every
  dirent that is read is a slot of it.
- Under `OneFill`, `OrderCorrect`, `ChainsCorrect` and `ListsCorrect`. `DirInv`
  says that no two threads have the same entry (`Apart`), that its name is the
  same at each of its reads (`NamesRight`), that a chain has nothing of a list
  beyond what its thread has come to (`NoneBeyond`, why a new head keeps the
  order) and misses nothing up to there (`NoneMissing`), and that a list that was
  handed out is in hand or on the cache (`NoneLost`). Five moves are all a thread
  can do: `Receive`, `Stay`, `HangNext`, `PutOnCache`, `Drop`.

`PkgLexProofs`, for every text, every `csize` of at least 2 and every crew:

- `BegunOnceCorrect`: the invariant is `IInv`: chunks in hand tile a prefix of
  the text (`Tiled`); a lexer between two records has an empty line or the start
  of the text behind it and one in the state NLINE a newline (`Knows`); a record
  begun in a chunk that is still being lexed lies behind its lexer (`Behind`).
  Without `Behind` a second lexer might begin the same record; without `Knows`
  what is begun need not be a record. The assumption `csize >= 2` is what the
  `start - 2` of line 187 needs.

In the same module, under the same assumptions: what comes back is what the text says
as a whole (`RecordStart`, `WellFormed`, `Listed`, `ObjectOf` know of no chunk).
`ListInv` adds to `IInv`:

- what a lexer in a record knows (`Reads`): the lines it has passed are those of
  its record, and each field is set exactly when one line of its kind was passed;
  at the record's empty line the fields are therefore the record's (`RecordEnd`),
  and a repeated field is a malformed record (`RepeatedMalformed`);
- that no record is missed (`NotMissed`): a record start before `offset` was begun
  or lies ahead of the lexer that has its chunk. `SkipKnows` is what keeps it true
  in the search for a chunk's first record: a lexer there knows of a newline that
  it has just passed, which is why the search starts two characters before;
- that a record begun is in some lexer's hands or has been read, with its object
  made (`Kept`), and that a lexer fails for a reason only (`Blame`);
- that an object stands for a record read to its end (`ObjectsRight`), lists are
  in file order and behind their lexer (`MineSorted`), and no two objects anywhere
  are of one record (`MineApart`): a record in hand has no object yet
  (`MadeNotInHand`), which keeps it so when one is made;
- that chains and trie agree with the objects (`ChainsRight`, `RootsRight`).

`TypeCorrect`, `ListCorrect`, `RefusedCorrect`, `ChainsCorrect` and `RootsCorrect`
read the end state off it (`AtTheEnd`). `RootsCorrect` is for any failures: a name of
the trie that is built is given a record of its own in the list that is returned, or
none, and none at all when the call fails; when `augment_dfa()` does not run out of
memory every name of the list is known by its first record. A least element of a set of
naturals, which `FirstNamed` chooses, comes from the inclusion of finite sets being well
founded (`LeastNatural`).
TLC checked `ListInv` on the instance of `PkgLex_all` before it was proved.

`VersionCmpProofs`, for all strings of characters (any integers but the NUL, as C's
`char` may have a sign), of any length:

- `DebcmpAntisymmetric` and `DebcmpTransitive`: where `debcmp` does not run past its
  strings (`Overruns`) it is a total preorder. `Debccmp` decides at the first offset
  at which two strings differ or one has a digit, by the order of two characters or
  by how many digits follow on either side (`Verdict`). As in any lexicographic order, of three strings the smaller of
  the two offsets at which the first and the third part with the second decides
  between these two as well; the cases are which of the offsets is smaller, and
  whether there are digits there. Epochs come before all that. Where one string
  has a digit and the other a letter the code counts digits, none against some, and
  does not look at the letter; that it is consistent about it is what the cases show.

- `NeverInvertsCorrect`: of two legal versions in the usual spelling `debcmp` never decides what
  deb-version(5) decides the other way. A legal version has a digit behind its
  epoch, so that `debcmp` compares at offset 0 and counts digits there. That the
  longer numeral is the larger number (`LongerIsMore`) goes by the values that the
  numeral's beginnings spell: `NumberOf` is a recursive function, shown to exist by
  extending it, and the two numerals are compared digit by digit up to the first
  place at which the claim would fail. The pair with that number is the first one
  that deb-version(5) looks at, and later pairs do not count (`PairDecides`). Epochs
  are compared by their lengths and then digit by digit; for numerals of one length
  that is the order of their values.
- `AntisymmetricCorrect`, `TransitiveCorrect` and `NeverInvertsCorrect` are the three
  properties of `VersionCmp_order`, for every alphabet without the NUL and without
  its bounds on the strings' lengths.

The second part of `ShowVersionsProofs`, for any threads, lists, faults, trie and command line, any
versions on which `debcmp` is defined, and any directory that one refill brings in
(`OneFill`):

- `SummariesCorrect`, `AllListedCorrect`. What a chain holds when the walk is over
  comes from the walk's theorems (`ChainsRight`, `ListsRight`): the packages of the lists,
  each once, in an order nobody knows. `ShowInv` says that what was printed so far is
  the output for the names walked so far: one line for each (`Summaries`), or one
  block of lines for each (`Listings`), made of `Plain`, which names a package's list
  without a look at the cache. It is needed because the properties speak of the end
  only, and because `printf` may fail between two lines.
- That a line is true (`SummaryCorrect`) needs the order of the versions: among
  finitely many there is one that no other is newer than (`NewestExists`), and the
  first of those is as new as any, so that neither the chain's order nor which of two
  equal versions is met first matters to the verdict. This is where transitivity is
  used: an installed version equal to an offered one is compared with the newest only.
- That nothing is printed twice or left out (`BlockRight`) is a bijection between the
  lines of a block and the places of its chain.

TLC checked `ShowInv` on the instance of `ShowVersions_all` before it was proved.

`ChangelogProofs`, for every text and every set of failing calls:

- `TypeCorrect`: the position never passes the text's end by more than one
  character, although the trailer is looked for five characters ahead.
- `EntriesApartCorrect`: `EntriesApart` speaks of the list only, and the fields
  get there through pointers set up to ten states earlier. The strengthening
  `IInv` says for each state which slices are complete and where they stand
  (`SourcePlaced`, `VersionPlaced`, `DistPlaced`, `UrgPlaced`, `ChangesPlaced`,
  `TrailerPlaced`), and that the entry that is read begins behind the last one
  of the list (`BehindLast`). Without `ChangesPlaced`, an end of the changes left
  from the entry before would end this one's text before it begins.
  `PlacedStep` goes through the cases of the loop, `Completed` puts the parts
  together where an entry ends.
- `ReachableCorrect`: the entries completed are what the return value or `*cptr` leads
  to. `*cptr` is NULL while the lexing goes on (`Handed`); a way out that does not
  write it returns the list.
- `FieldsCleanCorrect`: `CleanInv` says of every slice that is set or growing which
  characters it has so far (`HeaderClean`, `ChangesClean`, `TrailerClean`). It
  rests on the places of `IInv`: a growing slice ends at the position, so that the
  character a longer slice gains is the one that the state has just looked at
  (`OnlyLonger`). `CompletedClean` hands it over to the list.
- `EntriesExactCorrect`, in two parts. First, what the lexer takes is written as places
  in the text, each the first of its kind behind the one before it (`Lexed`, `Taken`),
  and the list is what these places say (`TakenCorrect`). `ExactInv` says for each state
  between which two places the position is, that the slices begin and end at places, and
  that the characters at the places left behind are the right ones (`HeaderRead`,
  `TermsRead`, `ChangesRead`); `IInv` alone would let the lexer miss an entry, or end a
  field too early. There is one lemma for each case of the loop (`ReadReset` to
  `ReadDateEnds`); all turn on `Turn`: on the way to a place a character of the kind
  passed over leaves the position on the way, any other one means that it is there.
  `NoFurther` goes through the ways out. Second, these places are compared with those of
  the format (`Layout`), which are found in another way: the header line by its end, the
  changes from behind. Where an entry has the format both lead to the same place, since
  a place of a kind with none of its kind before it is the first (`FirstIs`, `PastIs`):
  `SameHeader`, `SameUrgency`, `SameTrailer` for the fields, `TextInChanges` for the text,
  `FormatTaken` for the whole: the lexer takes every entry that has the format, and what
  it makes of it is that entry.

TLC checked `ExactInv` on the instance of `Changelog_all` before it was proved.

`TrieProofs`, for all characters, patterns, objects and texts, any first
allocation, and every allocation that fails:

- The invariant `IInv` has four parts. `TypeOK` holds the sorted edges and the
  tree; `CallInv` says what a call in progress has in hand; `PathInv` that it
  stands where its string's path ends, that no two edges end at one vertex, and that
  the tables' pattern leads to the tables' object and is the only one counted;
  `ValuesInv` that a vertex with an object is where some pattern's path ends.
  TLC checked all four on the instance of `Trie_all` before they were proved.
- `SearchCorrect`: `edge_search()` with its two special cases and its `pos - 1`
  for the upper end finds the place of every label, in sorted arrays of any
  length. `TypeCorrect` needs it: an edge that is put anywhere else leaves its
  array unsorted, and the next search misses it.
- The matchers follow the edges (`MatchAlong`), so that a string yields what hangs
  at the end of its path from the root, if it has one (`MatchLeads`). No two edges
  end at one vertex, so that different strings end at different ones
  (`PathsDiffer`): a new edge changes no match (`MatchAddEdge`), and entering an object
  that of its own string only (`MatchEnter`). This gives `MapImplemented`, step
  by step, and with `PathInv` and `ValuesInv` `SolePatternCorrect`.
- `ReportsCorrect`: where the search for several patterns stands in the automaton
  spells a part of the text that ends where it stands in the text (`Behind`), also
  after it starts afresh at the root.
- `SearchPlaces` reads off `SearchCorrect` that the place is the number of the labels
  that are less.
- `BmgCorrect`: the Boyer-Moore search says whether the pattern occurs in the text.
  `AgreedRight` says how much of the pattern agreed, `Delta1Right` and `Delta2Right`
  what the tables hold. An occurrence further on must put the character that did
  not agree on one of the same kind, which `delta1` finds, and what agreed on the
  same characters: inside the pattern, behind another character than before
  (`SuffixRight`), or over the pattern's beginning, as a suffix that is a prefix. So
  no shift passes an occurrence, and each is at least by one (`NoneSkipped`).
  The loop, a recursive function, is then right from the text's end backwards:
  `HitWhenAgreed` is one turn, `SearchEnds` the least counterexample.
- `BmgFound` puts it in the automaton: while there is one pattern, its tables are in use
  and are its own (`IInv`), and the pattern is one that `bmgprepare()` is defined for
  (`TablesInv`, an invariant of its own that follows the pattern from the call to the
  tables; checked by TLC first).
- `WalkCorrect`: what `walk_dfa()` calls back with from any vertex is, in the order of
  the strings, the objects below it with the strings that lead to them (`Walked`). The
  vertex's own object goes first; what lies behind its edges is joined (`FlattenFacts`:
  the elements of any number of pieces, in the order of the pieces), and strings
  that go on over different edges differ first in the edges' labels, which are
  sorted (`LexHead`), those over the same edge where they differed below it
  (`LexTail`). That holds of every vertex because edges lead to later ones
  (`AllWalked`, from the last vertex down); at the root the strings are those that Match
  finds, and by `ValuesInv` they are patterns.
- The recursive functions are handled without induction over data: that one exists
  is shown from the string's end downwards, what it yields by a counterexample that
  is the least (`LeastNatural`, from the library's well-foundedness of finite
  subsets).

`ContentsFileProofs`, for any lines, any automaton that calls of `augment_dfa()` can
leave, and text of any length. The lexer's loop is a recursive function over the buffer. That it
exists is shown by extending it (`RunExists`), what it yields by any function that
goes from turn to turn in the same way (`RunRight`), and what every turn keeps the
loop keeps (`LexKeeps`).

- Three facts carry the rest: two texts are read one after the other (`LexCompose`),
  what is printed goes behind what was printed before and has no influence on anything
  else (`LexPrefixed`), and behind a newline the lexer is as fresh as at the start
  (`LexLine`). So what is printed of a whole text and what follows it is what is
  printed of either (`NextShotSplits`).
- `CutCorrect` and `StaleTailCorrect` follow for every place of the cut and every
  length of the tail: a piece without a newline prints nothing (`LexSilent`), and a
  piece with one newline prints at most once (`NextShotOfPart`); `LeftFacts` says that a
  call leaves no newline behind.
- `HeaderCorrect`: a line before the header changes nothing, as the word FILE cannot be
  its name (`LineBefore`); the header line sets `*pastheader` (`HeaderLine`).
- `LinesCorrect`: the lexer is followed through a line piece by piece. White space is
  passed over (`HeadRead`), the name is gathered and lowered (`NameRead`), what stands
  behind it is dropped when the name does not match (`TailSunk`) and kept from its
  first slash on when it does (`TailKept`). That the name matches exactly when the
  pattern occurs in it is `SoleFound` of `TrieProofs`, where the automaton's invariants
  come in.

The assumptions are the named ones of the modules (`DirAssumption`,
`TrieAssumption`, `ProbesAssumption`, `ArraysAssumption`, `LinesAssumption`, `ContentsAssumption`, `LexAssumption`, `PkgDirAssumption`, `ChangelogAssumption`,
`OrderAssumption`, `ShowVersionsAssumption`);
TLC evaluates them in every run. `PkgDirAssumption` keeps the model's mark "none"
apart from the names of files.

`ShowVersionsAssumption` says that a package of a list has a version, that
`walk_dfa()` comes to each name once, that names which are not on the command line
are from the status file, and that `debcmp` is asked only about versions it is
defined on: equal ones without a digit would make it read past their ends, which is
among the hazards.

Only model-checked: liveness (`EventuallyStops`: temporal properties under
fairness are out of the prover's reach), and on the texts of
`Changelog_all` that what was put together from entries has, by `ChangelogEntries`,
those entries and no others (`ComposedAssumption`).

## 5. What is not modelled

`free_dfa()`, and matching contexts that are used again after a match: every
caller starts a new one. That `match_dfactx_against_nstring()` misses patterns
is what its own FIXME says; the model shows that it reports none that is absent.
`delta1` has 128 entries and is indexed by the text's bytes: what the search for one
pattern makes of a text with a byte from 128 on (a name in UTF-8) is undefined
(`aac.c` 292-293), and `BmgExact` leaves such texts out.

Option parsing, default paths, `mapit` (a fault that may occur), the test driver,
and `format_changes` of `bin/rapt-parsechangelog.c`, which reads past the NUL of
a text without a final newline, undefined from there on: the text that the lexer cuts
ends before a newline, so that nearly every entry is such a text. In named mode the model
keeps to status files that have a version for each named package: `debcmp` is
handed NULL otherwise. Regular expressions on the command line are documented
and not implemented.

zlib (a file inflates or not), libblossom, the C library's allocator but for the
failures that the code tests for, undefined behaviour after a failed allocation
of a version string (`packages.c` 103-108), `pthread_mutex_init` failures, the
text that is printed, options and paths. A refill of the dirent buffer replaces
whole slots (entries of equal size); in the code the pieces may be smaller.

The walk and the lexer of contents files are not composed: `ContentsQueue` counts
which buffers reach `lex_content()`, `ContentsLex` says what becomes of one. Only
blanks stand for the white space that is no newline, in all lexers.

## 6. Plan

In this order; all of it is done.

1. `DirStream`, `ContentsQueue`, `ContentsScan`, their runs; the proofs of the
   counter and of `NoEarlyExit`.
2. `PkgLex`, its run, the proof of `BegunOnce`.
3. `PkgDir`, its run.
4. `VersionCmp` against `VersionPolicy`.
5. The runs of section 3 that contradict the documentation.
6. `Trie`: `augment_dfa`, `edge_search`, the vertex array and its growth, the
   exact matchers, `walk_dfa`, against `PatternMap`.
7. `Matcher`: Boyer-Moore for one pattern against "occurs in"; the walk for
   several patterns never reports what is not there.
8. `ShowVersions`: `find_installed`, `find_newest` over the chains of `PkgDir`
   in any order, with `Debcmp`, and the program's output.
9. `Changelog`: the lexer's states and each way out.
10. `ContentsLex`: `lex_content` on buffers cut out of a file.
11. Proofs: `ChangelogProofs`, `DirStreamProofs`, `ContentsQueueProofs`,
   `PkgLexProofs`, `VersionCmpProofs`, `ShowVersionsProofs`, `TrieProofs`,
   `ContentsFileProofs`.
