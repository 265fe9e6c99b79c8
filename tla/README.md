# Verification of tde2_introspector

`tde2_introspector` is a command-line tool that reads C++ headers, finds the
enumerations, classes and structures they declare, and writes one header,
`metadata.h`, with type traits for them.  It keeps a symbol table per header in a
cache directory, so that later runs parse only what changed, and it processes the
headers on a pool of threads.

This directory holds TLA+ models of the tool, the configurations that TLC checks,
and proofs that TLAPS checks.  `PROJECT.json` lists the runs, what each definition
of a module stands for in the source, the hazards and the theorems.

## 1. Inventory

| Component | Source | State it keeps | Operations |
|---|---|---|---|
| Worker pool | `jobmanager.cpp`, `jobmanager.h` | queue of jobs, `mIsRunning`, mutex, condition variable, threads | construct, `_submitJob`, `_executeTasksLoop`, destroy |
| Driver | `main.cpp` | the list of headers, one symbol table per header | load the cache, submit one job per header, wait, generate, save the cache |
| Cache | `common.cpp` (`TCacheData`), cache files written by `main.cpp` | input hash, index header -> hash, one file per hash | `Load`, `Save`, `Reset`, `Contains`, `AddSymTableEntity`, `SetInputHash` |
| Options and file search | `common.cpp` (`ParseOptions`, `GetHeaderFiles`) | the options; a worklist of paths | parse the command line, list the headers |
| Symbol table | `symtable.cpp`, `symtable.h` | a tree of scopes, the current and the previous scope, the visiting mode | `CreateScope`, `EnterScope`, `ExitScope`, `AddSymbol`, `LookUpSymbol`, `LookUpNamedScope`, `Save`, `Load`, `Visit` |
| Lexer | `lexer.cpp`, `tokens.cpp` | position in the stream, queue of peeked tokens, two modes | `GetCurrToken`, `GetNextToken`, `PeekToken`, mode switches, scanning |
| Parser | `parser.cpp` | recursion, the symbol table it fills, pending tag attributes | the productions of a subset of C++ |
| Extractors | `symtable.cpp`, `symtable.h` (`MetaExtractor`) | the list of types to emit | visit a table |
| Code generator | `codegenerator.cpp`, `codegenerator.h` | the output stream | `Init`, `Generate`, one visit per type |
| Serializer | `deps/archive` | a stream | write and read plain values; a short read throws |
| Argument parser, SHA-256, string utilities | `deps/argparse`, `deps/PicoSHA2`, `deps/Wrench` | - | libraries |

How they interact.  `main` parses the options, lists the headers and loads the
index of the cache; if the index was saved for another input it forgets it.  It
opens a scope with a `JobManager` and submits one job per header.  A job computes
the hash of its header (path and modification time), and either loads the symbol
table from the cache file of that name or runs lexer and parser, writes the cache
file and adds the header to the index.  The jobs share the index (behind a mutex)
and a vector with one slot per job (no lock: each job writes its own slot, and
`main` reads them after the scope).  Leaving the scope destroys the `JobManager`,
which waits for the threads.  Then the extractors walk every table, the generator
writes `metadata.h`, and the index is saved.

What is hard about it:

* the pool: a mutex, a condition variable and an atomic flag that is written
  outside the mutex; one notification per job; a destructor that must neither
  lose a queued job nor wait for ever;
* the cache: headers are edited while the tool runs and between its runs, the
  process may die between two writes, and what one run leaves on disk is what the
  next one trusts;
* the symbol table: a cursor over a tree that is built by one sequence of calls
  and walked again by another, with a different rule for anonymous scopes;
* lexer and parser: a queue of peeked tokens under two lexical modes, loops that
  skip characters or tokens until some other comes;
* the search: the same header under several spellings, with links, and exclusions
  that look at the spelling.

What makes each part correct:

| Component | Correct means |
|---|---|
| Worker pool | every submitted job is executed once, and jobs are begun in the order of submission; no pop of an empty queue; no worker sleeps over work; the scope ends, and only after the last job |
| Driver and cache | the output describes every header, not older than the start of the run; no cache file is older than its name; a run that was not disturbed leaves a cache the next one can use, and uses; a process that stops short of its end does so for a reason that is named |
| Symbol table | a walk with the same calls comes to the same scopes; a detour through a file changes nothing of it |
| Options and file search | every header the sources lead to is listed once, but for the excluded ones; the pool gets a thread |
| Lexer | nothing is lost or repeated between the queue and the text; a peeked token is the one that comes; comments, directives and ignored sections give no tokens, and the text around them gives all of its own |
| Parser | the scopes it leaves behind are those of the blocks it read; it finds every type of a header it knows; it comes to an end |
| Extractors and generator | one trait per type, one for every type that is wanted, each with its header included under its section |

## 2. Hazards

`PROJECT.json` lists each hazard at its line, with the properties that guard it
or the reason why none does.  The ones that shaped the models:

* `jobmanager.cpp:19`: the flag of the pool falls outside the mutex;
* `main.cpp:87` and `111`: a header is hashed, then read, and may change between;
* `common.cpp:425` and `main.cpp:115`: files of the cache are written in place;
* `symtable.cpp:374`: one slot for the place of a walk, instead of a stack;
* `lexer.cpp:211`: a mode is switched while tokens wait in the queue;
* `parser.cpp:599`: blocks are left in the middle, and the cursor with them;
* `parser.cpp:170`, `195`, `929`, `1208`: loops that wait for one kind of token;
* `codegenerator.h:72`: what the generator includes depends on the order in which
  a hash map lists the types;
* `main.cpp:91` and `symtable.cpp:56`: a table from the cache was written by a run
  with other options, and has lost a part of what the parser found;
* `lexer.cpp:433` and `306`: where a comment or a directive really ends;
* `common.cpp:249` and `274`: one header, several spellings;
* `common.cpp:230`: a glob pattern is matched with absolute canonical paths.

## 3. Modules

How they are composed:

    JobManager  --implements-->  JobBatch  <--instance--  Introspector
    Scanner  --implements-->  Lexer  <--instance--  Parser  --instance-->  SymTable
    HeaderSearch  (the list of headers that a run of Introspector begins with)
    Output  (the tables that a run hands to the generator)

**JobManager** (`jobmanager.cpp`).  `mutex`, `running`, `jobs` are `mQueueMutex`,
`mIsRunning`, `mJobs`; `place[w]` is the line a thread has come to, and the
threads with place `"wait"` are those blocked on `mHasNewJobAdded`.  A step is what
happens between two synchronisation points: `Acquire`, `EvaluatePredicate`,
`Block`, `TakeJob`, `Leave`, `RunJob` are the loop of a worker; `Spawn`,
`SubmitJob`, `StopRunning`, `NotifyAll`, `Join` are what main's thread does.
`SubmitJob` is one step since it holds the mutex from the emplace to the
notification.  The predicate and the blocking are two steps since the flag may
fall in between: the standard makes the release of the mutex and the blocking one
step, and nothing else.

**JobBatch** is what `main()` relies on: jobs are submitted in turn, started in that
order, each by one thread, and the scope closes when all were executed.

**Introspector** (`main.cpp`, `TCacheData` of `common.cpp`) is a sequence of
processes over one cache directory.  What survives a process (`mtime`,
`tableFile`, `indexFile`, `output`) is kept apart from what does not (`cached`,
`tables`, `stage`, `hash` and the pool, which is an instance of JobBatch).  A job is
split where it meets the disk or the index: `TakeJob` (hash), `ReuseTable` or
`MissTable`, `ParseHeader`, `OpenTableFile`, `WriteTableFile`.  Between any two
steps somebody may edit, remove or restore a header, remove a cache file or kill
the process.  A file that is open for writing is `Partial`, and stays so when its
writer dies.  `metadata.h` is closed by the destructor of the generator, behind the
saving of the index: until then it is `"unclosed"`.  The file may also fail to open
(`MissOutput`); nobody looks, and the run goes on.  Two actions are outcomes that other modules
show in detail: `~JobManager` may wait for ever on a worker that missed the notification
(`MissShutdown`, run `pool_shutdown`), and a parse may not come to its end (`ParseForever`, the
exceptions of `ParsingEnds`).  `MissShutdown` may happen at every end of a scope, and `ParseForever` to
every text: which runs and texts do so is not a question of this module.

**HeaderSearch** (`ParseOptions` and `GetHeaderFiles` of `common.cpp`).  A path is a sequence of
names; `headers` and `processed` are `headersPaths` and `processedPaths`, the one with paths as they
were spelled, the other canonical.  `entries` is what a directory iterator has still to list, in any
order.  The file system (`Canonical`, `Entries`, ...) is external.  `Fits` and `Matches` are the
regular expression a glob pattern becomes: `*` and every `.` stand for anything, slashes too, and
the whole canonical path has to match.  Since names are not taken apart, the constant `Dotted` gives
for a name with a dot, such as `b.hpp`, the names that `b.*hpp` is good for.  What a pattern should
lead to is stated without them: `IsMeant` compares name by name (`Demanded`), and `HasNamesOf` asks
for the fixed names of a pattern on the path (`Reachable`).

**SymTable** (`symtable.cpp`).  A scope is its path.  `curr`, `reading`, `last`, `prev` are the
members of the class; `where`, `entered`, `visited` are what a client knows without looking into it,
and the properties compare the two.  `Saved` and `Loaded` are what a file makes of `mIndex`: -1 goes
out as the largest int, and has to come back as -1.  `strayed` marks the histories that
`mPrevVisitedScopeIndex` does not suffice for: a return from a named scope that lies in the global
or in a named one, where the slot was not written, or two returns open at a time.

**Lexer** (`lexer.cpp`).  `queue`, `token`, `templateMode`, `metaMode` are the members;
`rest` is what of the text was not scanned.  A word of the text stands for a token,
except for the words that the modes and the ignored sections are about.

**Scanner** is `_scanToken` and the functions it calls, one step per character or per
call.  `at` is the current character, `place` the loop the call is in, `depth` how
many `_skipMultiLineComment` are on the stack.  `items` is what a compiler makes of the
text (`ItemsOf`, a definition of its own and not of the code): blanks, comments,
directives and words.  The refinement maps the words to the text of Lexer, and what is
behind the last token returned to its `rest`.

**Parser** (`parser.cpp`) is a machine with a stack of frames, one per call of a production, over an
instance of Lexer and one of SymTable.  Each production is a group of actions named for it; a loop
of the code is a label that a frame stays at.  So a loop that never ends is a behaviour that never
ends, and a scope that is not left stays in `curr` when its frame is gone.  `types` is the types of
the scopes, each with the full name that `GetMangledNameForNamedScope` puts together.  It is the
release build: a failed assertion is recorded and passed over.

**Output** (`codegenerator.cpp`, `codegenerator.h` and the extractors of `symtable.cpp`).
`whole` has the types of each header, and `writers` who made its table: the parser of
this run, or that of an earlier run for all or for tagged types, by way of the cache.  A
table is its types in the order of a walk, `enums` and `classes` are what the
extractors have collected, `inclusions` and `traits` what was written.

**Selections** has one operator, the elements of a sequence that are in a set, as a
recursive function; Parser, HeaderSearch and Output select with it.  **InductionLemmas**
proves what it returns.  `JobManagerProofs`, `IntrospectorProofs`, `SymTableProofs`,
`LexerProofs`, `HeaderSearchProofs`, `OutputProofs` and `ParserProofs` hold the theorems
about the module they are named for (section 6).

Each `MC` module gives the constants of its module values for TLC.  An operator
commented as a variant is a plausible mistake in the operator behind it; no
specification uses it, and it is there to see that a property notices it.

## 4. Runs

| Run | Instance | What it shows |
|---|---|---|
| `pool` | 4 threads, 5 jobs | all safety of the pool, that it implements JobBatch, that every job is executed, and that the destructor returns when no thread is blocked or about to be |
| `pool_shutdown` | 2 threads, 1 job | violated: the destructor may wait for ever (finding) |
| `cache_edits` | 2 headers with 2 edits, 2 threads, 2 runs, 1 fault (a kill, or an output that does not open) | freshness of the output and of the cache files, that a saved index names no file that is cut off, and that a second run on untouched headers parses nothing after two jobs filled the index at the same time |
| `cache_repeat` | 2 overlapping inputs, 3 runs, 1 fault, 1 thread | the cache is spoiled by deaths only, belongs to its input, is used when nothing changed; a process ends, or stops at the join with a worker that missed the notification or over headers whose parse does not end |
| `scope_walks` | 1 name, depth 2, 2 anonymous scopes per scope, 13 calls | walks keep their place, also back from a named scope to an anonymous one; the mark for a scope without an index is read back as one |
| `token_queue` | texts of 4 words, queue of 3, offsets 0 to 2 | no token is lost, repeated or reordered, a peek is kept |
| `characters` | texts of up to 7 characters, over an alphabet for each of comments, directives, symbols and marks | the scanner implements Lexer on texts without five forms, each of which it reads otherwise than a compiler; a call returns on every text |
| `comments` | texts of up to 5 characters | violated: a line comment without text swallows the next line (finding) |
| `header_search` | command lines of up to 2 sources and an option, a tree with a link to a directory and one to a header, a tree with a link to nowhere | each header once, none missed that a file, a directory or a pattern from `.` or the root names, threads for the pool |
| `headers` | about 1500 headers: one or two declarations, plain and in namespaces, and such headers with one word missing | known headers are understood, the cursor follows the blocks, parsing ends, the modes change between tokens |
| `reopened_namespace` | headers that open a namespace twice | violated: an assertion fails (finding) |
| `output` | two headers with up to three and two types, each parsed or from either kind of cache, 8 command lines | one trait per type, one for every wanted definition, no trait of a hidden type but for two forms, headers included where their traits are |

Why the bounds are enough.  The pool has room for one thread in each of its places at the same time
as several jobs queue, and more jobs than threads, so that threads come back for a second one.  For
the cache, whose two headers and two threads are interchangeable in `cache_edits` (symmetry), an
edit between two steps of a job needs two times of one header, a stale entry needs a second run, an
index of another input that comes back needs a third.  A walk goes wrong when it leaves a scope
behind another at two levels: eleven calls build two scopes with one inside, save them and walk
them, and two more put a named scope into one of them to come back from.  The queue of the lexer is
never longer than two tokens in the parser.  For the scanner, all of its loops look one or two
characters ahead, and a comment with one inside of it has six.  A header has two spellings with one
link, and two sources overlap.  In Output three levels of types are needed for a type whose encloser
is visible inside of a hidden one.  The headers have every production, each pair of declarations,
one in a namespace and one behind it, and every way to leave a production that one missing word
opens.

Deadlock is checked for the pool, the lexer and the scanner.  The other systems stop on purpose: the
bounds on runs, edits or calls are used up, or the text is parsed, the header written.

Fairness.  The threads of the pool are scheduled (`WF` of each thread's steps). `Acquire` and
`SubmitJob` are strongly fair: a mutex that other threads, and spurious wake-ups that nothing
bounds, take again and again is still given to a thread that waits for it.  Without that, no program
with a mutex can be shown to end; a spurious wake-up itself is never forced.  `RunsEndOrStop`
assumes that a process that nobody kills executes its next statement.  It does not assume that
`~JobManager` returns or that a parse ends, which the code does not guarantee: `MissShutdown` and
`ParseForever` may happen instead, at any time, and the property says that the process has no third
place to stop at (`Hung`, `HeldUp`), and that an endless parse takes nothing but its own worker from
the other jobs.  The parser and the scanner are sequential calls: `WF` of their next steps, not of
those of their clients.

## 5. Findings

1. `~JobManager` may never return (`pool_shutdown`).  A worker finds the predicate
   false; before it blocks, the destructor clears the flag, without the mutex, and
   notifies.  The worker then blocks and nobody notifies again.
   `ReturnsWhenNobodySleeps` of run `pool` shows that this is the only way.
2. A namespace that is opened twice in one header fails an assertion, and in a
   release build the second body is skipped with its types (`reopened_namespace`).
3. A comment is entered two characters too late (`comments`): `//` in front of the end
   of a line comments the next line out, `/**/` runs on, an opener inside of a block
   comment needs a closer of its own, and of two comments in a row behind a blank the
   second comes through as tokens.

Met while modelling, and characterised by properties that hold:

* a cache index that was cut off by the death of a run makes every later run abort,
  with `--force` too (`OnlyDeathsSpoilCache`: nothing else does);
* types reused from the cache have lost their section, a run for tagged types finds
  none in them, hidden ones come out, and a table written by a run for tagged types
  hides types from a run for all (`EveryDefinitionHasTrait`, `OnlyDeepTypesLeak`);
* the second of two adjacent ignored sections is parsed (`OnlyAdjacentSectionsLeak`);
* a backslash inside of a directive, and one in front of CR LF, end it on another line
  than a compiler does (the fourth form of `IsRead` in Scanner);
* a number of threads that is a multiple of 65536 makes a pool without any
  (`PoolHasThreads`);
* a header found under two spellings, of which one is excluded, is listed or not
  depending on the order of the search (`ListIsComplete`);
* a glob pattern is matched with canonical paths, so `src/*/b.hpp` leads to nothing although
  `src/gen.h/b.hpp` is there, against the comment at `common.cpp:216` ("we should collect all
  directories that corresponds to that pattern"), and so does `*.h`, with no directory left in front
  of the `*`; only patterns from `.` or from the root, and not through links, are sure to find what
  they mean.  A `.` in a name stands for anything, so that `./*/g.hpp` finds `src/gen.h/b.hpp` as
  well (`ListIsComplete` asks for the first kind only, and allows for the second);
* a class declared again behind its definition loses its members, and a tag without a
  section takes that of the tag before (`KnownHeaderIsUnderstood`);
* enumerations of hidden or template classes are emitted (`OnlyDeepTypesLeak`);
* a run whose output cannot be opened ends as if it had been written; the next run
  repairs it (`OutputIsFresh`).

A stray close brace hangs the parser, and so does the end of the text inside of some productions
(the exceptions of `ParsingEnds`).  Without a property: `-C` sets the name of the output file, and
so an exclusion (`common.cpp:70`); the emit flags default to none.

## 6. Proofs

Every module but Scanner has a proof module.  A theorem there is about all values of the
constants that fulfil the assumption the module names; a run shows the same property on
the instance of section 4.  In each, the properties are not inductive by themselves, and
`IInv` is the invariant they follow from: `Init => IInv`, `IInv /\ [Next]_vars => IInv'`, a
lemma for each action or for each conjunct.

| Module | Theorems | For all |
|---|---|---|
| `JobManagerProofs` | `TypeCorrect`, `PopIsSafe`, `JobsAccountedFor`, `ScopeWaitsForAll`, `NotifyOneSuffices`, `WorkersLeaveForGood`, `PoolImplementsBatch`, `OnlyOneMisses`, `PoolStopsOnlyWhenDone`, `PoolUsesUpWork` | finite sets of threads, numbers of jobs |
| `IntrospectorProofs` | `TypeCorrect`, `CacheIsNotStale`, `RunsAreFresh`, `OnlyDeathsSpoil`, `IndexIsUsable`, `IndexKeepsToItsInput`, `WarmRunsParseNothing`, `RunsUseBatches`, `RunsStopInTwoPlaces`, `RunsAreBounded` | finite sets of headers, inputs, threads, edits, runs and faults |
| `SymTableProofs` | `TypeCorrect`, `WalksKeepTheirPlace` | names, symbols, depths, anonymous scopes and calls |
| `LexerProofs` | `TypeCorrect`, `ScannedAreTheWords`, `LeaksAreOfAdjacentSections`, `PeeksAreKept` | words, texts, queues and offsets |
| `HeaderSearchProofs` | `HeadersAreListedOnce`, `ListsAreComplete`, `PoolsHaveThreads` | command lines, trees and orders of reading |
| `OutputProofs` | `TypeCorrect`, `TraitsAreUnique`, `DefinitionsHaveTraits`, `TraitsHaveTheirHeader`, `LeaksAreDeep` | headers, writers of their tables, options |
| `ParserProofs` | `TypeCorrect`, `BlocksAreFollowed`, `NoTokenIsOfAnotherMode`, `PartsAreCalled`, `HeaderIsReadInOrder`, `ParsingGoesOn` | headers: sequences of words of any length |

**The pool.**  Assumed: `PoolAssumption`; `ScopeWaitsForAll`, `PoolImplementsBatch` and
`PoolStopsOnlyWhenDone` also need a thread, which the code does not check: the number of threads is
cut to 16 bits. `EachJobInOnePlace` and `NoPopOfEmptyQueue` are not inductive alone.  `IInv` adds

* `MutexOwner`: a worker between line 40 and the release is the owner of the mutex,
  so no two look at the queue at a time;
* `StopComesLast`: the flag is false only after the last submission;
* `GapMeansEmpty`: a worker about to block has an empty queue, for it holds the mutex;
* `ExitMeansDrained`: a worker has returned only on an empty queue that nobody fills;
* `HoldsOnlyWhenRunning` and `DoneMeansJoined`.

`NotifyOneSuffices` adds a count of the workers on their way to the queue: a pop takes
one job and one worker from the two sides, a submission adds one of each while somebody
is blocked.  `WorkersLeaveForGood` and `PoolImplementsBatch` are about steps and use `IInv`
before each.

**The driver and its cache.**  Assumed: there are finitely many headers, inputs name
headers, and no input has the hash of an empty index.  The argument goes through time.
`TimesAdvance` and `HashIsOfThisRun` say that the hash of a job is a time its header has
had since the run began; `ParsedIsNotOlder`, that a text read after that is not older than
the hash.  So a file is never older than its name (`CacheFileIsNotStale`), a finished job
leaves a table as new as the start of the run (`FinishedIsFresh`), and
`BatchIsAccounted`, `JobsRunInScope` and `GeneratedIsTables` carry this to the output: all jobs
have finished, each was executed once, and the output is made of their tables.
`CutOffWhileWritten` says that without a death a file is incomplete only while somebody
writes it, and `CachedIsOfInput` is the index before it is saved.  For `WarmRunsParseNothing`,
`QuietRunCaches` says what a run that nobody disturbs has put into the cache so far, and
`WarmRunFinds` that the next one finds it.  `RunsUseBatches` joins this with the pool: from the
opening of the scope to its end, or the end of the process, each step is one of JobBatch or
leaves the batch alone, and the batch is new when the scope opens; and JobBatch is what
`PoolImplementsBatch` shows of the pool.

**The symbol table.**  Assumed: names are no integers, there is a value for an uninitialised index,
and a scope has fewer anonymous ones than the largest int.  `PositionsAreDense` says that the
anonymous scopes of a scope are numbered from 0 without a gap, so that their number is the position
of the next; `IndexIsPosition`, that `mIndex` is this number, or -1 for a named scope, through every
save and load (there the bound on the anonymous scopes is needed: none has the largest int for its
index); `WalkIsFollowed`, that a client that builds and walks in turn and has not strayed has
`mLastVisitedScopeIndex` at its own count, and `mIsReadOnlyMode` at whether it is walking.
`SlotIsHeld` is the new part for the way back: while the client walks inside of a named scope that
lies in an anonymous one, `mPrevVisitedScopeIndex` has the place in that one, and there is one such
scope at most.

**The lexer.**  Assumed: keys are words that stand for themselves, and not one of the
words that modes and sections are about.  `IsRest` and `IsFaithful` relate what is left of the text
to what was scanned: each word that is passed has one token, or two if it is a `>>` taken
in halves, and the half that is left is the front of the rest.  `StartsOutside` and
`LeaksFollow` are the same for ignored sections: when scanning starts inside of one, this
one follows another.  `PromiseIsQueued` says that a peek is the front of the queue.

**The search for headers.**  Assumed: the kinds of arguments, that a name is not both a file and a
directory nor either and a link, that the first directory exists, that paths are sequences of names,
that sources have no `..` and a `.` only in front, and that the expression for a name with a dot is
good for that name. `ProcessedAreListed` says that `processedPaths` is the canonical paths of the
list; `SourcesAreRead`, that whatever a source taken so far leads to is processed or still in the
iterator; `ExclusionsAreApplied` and `OthersAreExcluded`, what the exclusions applied so far have
left and why something is missing.  `Found` in these is what the code's own matching finds, and the
theorem does not speak of it: `FoundIsReachable` and `DemandedIsFound` relate it to what patterns
mean.  For the second, a `*` that stands for one name is cut out of the path as one name; the first
needs that a fixed name of the pattern is one of the path.

**The output.**  Assumed, of the headers and not of the code: a scope has one type, the
parent of a type is one around it, and no type is defined in two headers (`DefinesOnce`: the
program that is introspected keeps the one definition rule).  `IInv` describes
each of the six loops by how far it is: the extractors' lists are, each once, the types
met so far that are wanted; the inclusions are of the types passed so far; the traits are
those of the extracted types written so far, and a header has one of a name.

**The parser.**  Assumed: identifiers are no reserved words, and headers are sequences of
words.  `MaxDepth` and `MaxCalls` bound the table as in SymTable, and may be any numbers.
`IInv` has a conjunct for each part of the state: what is left and queued of the text
(`LexerOK`), the tree of scopes (`TableOK`), which call may stand above which on the stack, and
which of them have entered a scope (`StackOK`), that a scope that is going to be looked up is
near (`LookingOK`), the types (`TypesOK`) and the marks.  `NothingFails` is why
`CursorFollowsBlocks` is kept: the body of a namespace that fails has reported an error or
come to the end of the text.  `AheadOK` is why `ModesChangeBetweenTokens` holds: a peeked
token waits only behind a colon, an identifier or in front of a member, and no mode is switched
there but behind a colon.  `PartsAreCalled` says that each step of the parser makes at most one
call to the lexer and one to the table and changes neither by itself.  No run checks it: the
names of the scopes are an infinite set.  With it the invariant of `LexerProofs`, instantiated
for the lexer inside of the parser, is one of the parser, and so `HeaderIsReadInOrder`:
whatever is peeked at, skipped and switched, the parser is given the words of the header in
their order, each once.  The theorems of `SymTableProofs` cannot be instantiated in the same way: the
names of a parser's scopes are sequences, and that no sequence is an integer, which
`SymTableAssumption` asks for, is not a fact of TLA+.

**Coming to an end.**  The liveness properties have two parts that need no fairness, and these
are proved: that nothing stops before it is done, and that nothing goes on for ever.  The third
part, that what can go on does, is fairness and stays with TLC.  For the first part each module
has predicates for when a thread can go on (`MainCanGoOn`, `WorkerCanGoOn`, `JobCanGoOn`), the
guards of its actions, and for the second a number that its steps lower.

* The pool: `PoolStopsOnlyWhenDone`.  If no thread can go on, the mutex is free and everybody is
  blocked, at its end, or joined on; a blocked worker means an empty queue (`NotifyOneSuffices`),
  so every job was executed.  `OnlyOneMisses` is new there: the flag falls without the mutex,
  but a worker that has seen it up and is not yet blocked owns the mutex, so there is one such
  worker at most, and the join that hangs (section 5) hangs on it alone.  `PoolUsesUpWork`
  weighs each worker by how far it is from its next wait and each job by the round it needs.
  Spurious wake-ups are the only steps that add work.
* The driver: `RunsStopInTwoPlaces` (for at least one thread) needs `NoJobIsDropped`, a job that was
  started is finished or in the hands of a worker, and `ScopeIsLeft`.  That the scope may end in a
  join for ever, and a parse in a loop, is in the model, and the theorem names these two as the only
  stops.  `RunsAreBounded` counts the statements left of main() and of each job, a parse as one;
  edits, and the end of other processes, add none.
* The parser: `ParsingGoesOn`.  `Fuel` is 40 times the tokens that are left and 10 times the calls
  that are open, plus the `Rank` of the one on top: the `Height` of its label, which is how many steps
  it may still take without taking a token.  A step that takes a token may open one call and go to
  any label; that is less than 40.  Every other step goes to a lower label, or calls from a label
  more than 10 above, or returns, which gains 10 and must not lose more.  For that the order of
  calls on the stack (`Above`) says where a call may return to: none returns to the label of a list of
  members, only balanced tokens return to a method, and a name returns to a class or to a list of
  bases.  Two cases depend on more than the label: balanced tokens take one only if the current one opens
  some, and behind a method the members go on at once.  The tokens that are left count a peeked one
  (`KeepingKeeps`) and a `>>` twice, for it may be taken in halves.  Behind the end of the text
  the theorem says nothing: some loops take the end of the text for ever there, as `ParsingEnds` has it.

**Lemmas.**  `InductionLemmas` has induction on numbers in terms of sets (a set with 0
and every successor has all numbers), the existence of a function that is defined by
its value at 0 and by a step, and from these what `Selected` returns.

Only model-checked:

* liveness: `EveryJobIsExecuted`, `ReturnsWhenNobodySleeps`, `RunsEndOrStop`, `ParsingEnds` and that a
  call of the scanner returns, since the prover has no rules for fairness; what of them is
  safety is proved but for the parser's part that some action is possible at every label, and
  for the scanner;
* everything about Scanner: its refinement of Lexer rests on `ItemsOf`, which is recursive
  over the text, and what a recursive definition computes on all inputs is an induction
  over data;
* `KnownHeaderIsUnderstood`: what a known header declares is given with each header of the
  run, and to define it for all texts would take a grammar.

## 7. Assumptions and what is not modelled

* Every edit advances the modification time of a header, and SHA-256 has no collisions.
* Threads can be created, and memory does not run out.
* In Scanner, positions in lines are left out, and literals: the scanner has none, and
  takes a quote for an unknown character.  A comment inside of a directive is not one to
  the scanner, and `ItemsOf` does not make it one.  The refinement is about texts without
  the five forms; what happens on the others is in the model.  In Lexer and Parser a
  text is its words.
* In HeaderSearch a path leads through at most one link, a glob pattern has `*` for whole names only
  and no `?`, a source has no `..`, and the file system does not change during the search.
* In SymTable, `LookUpSymbol` is left out: it reads from the cursor outwards and changes nothing.
* In Output a type keeps its name, kind and place in the cache; its fields do not
  matter to which traits there are.
* Two processes of the tool at the same time: nothing in the code serialises them,
  and no property of the cache would hold.
* Write errors after a file was opened.
* In Parser, `class` stands for class, struct and union, `public` for the three access
  words, and names for all identifiers.  What a type has besides its kind, place,
  tag and members is left out there and a part of Output.
* A known header has no method template.  What the code does with one is in the model;
  the properties about known headers do not ask for more.
* After ExitScope of the global scope the cursor is null, and the model stops there.
* Options that only decide what is emitted are inputs of Output.
* The libraries are what the tool relies on them to be.

## 8. Plan

Modelled: JobManager with JobBatch, Introspector, SymTable, Lexer, Scanner, Parser,
HeaderSearch, Output, with the proofs of section 6.  Of the core logic there is left a run from a
text to the traits, with the types as Parser leaves them in Output.

To prove next, each checked by TLC first where it can be:

1. `Parser`: the walk of the table that is behind it, with a symbol table whose anonymous scopes
   are told from named ones by something else than their kind of key.
2. `Scanner`: the parts of its safety that do not need `ItemsOf`, in a module without it: the
   modes change between calls only, and a call that skips a section ends behind it.
3. `SymTable`: what a client may rely on that comes back from a named scope in the global or in a
   named one.
4. `Introspector`: a run that follows one that was killed repairs what that one left, but for the
   index, as a property of two runs.
