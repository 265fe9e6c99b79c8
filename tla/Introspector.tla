---------------------------- MODULE Introspector ----------------------------
(***************************************************************************)
(* Runs of the tool over one cache directory: main() of src/source/main.cpp *)
(* with TCacheData (common.cpp), the jobs it gives to the pool, the header  *)
(* files other programs edit, and the death of the process at any moment.   *)
(*                                                                         *)
(* A header is known by its modification time, which every edit advances,  *)
(* so one number is both its mtime and the version of its text; the        *)
(* SHA-256 of its path and mtime, which names its cache file, is the pair. *)
(* A symbol table is known by the version it was parsed from and by what   *)
(* distinguishes tables of one version in the generated file.              *)
(***************************************************************************)
EXTENDS Naturals, Sequences, FiniteSets

CONSTANTS Headers,      \* every header file there may be
          Inputs,       \* the command lines: what directories to scan
          HeadersOf,    \* HeadersOf[i]: the headers the input i names
          InputHash,    \* InputHash[i]: the hash of the input's paths
          NoHash,       \* the hash of a cache that was never saved
          NoInput,
          Workers,      \* the threads of the pool
          MaxTime,      \* bound: the modification times are 1..MaxTime
          MaxRuns,      \* bound: how often the tool is started
          MaxFaults     \* bound: how often its process is killed or finds no
                        \* place for its output

ASSUME IntrospectorAssumption ==
    /\ IsFiniteSet(Headers)
    /\ \A i \in Inputs : HeadersOf[i] \subseteq Headers
    /\ NoHash \notin {InputHash[i] : i \in Inputs}
    /\ NoInput \notin Inputs
    /\ MaxTime \in Nat \ {0} /\ {MaxRuns, MaxFaults} \subseteq Nat

VARIABLES
    \* what survives the process
    mtime,      \* mtime[h]: of header h, 0 while the file does not exist
    lastTime,   \* lastTime[h]: the latest mtime h has had
    tableFile,  \* tableFile[h][t]: the cache file named after h at time t
    indexFile,  \* index.cache
    output,     \* metadata.h, "unclosed" while its stream may hold a part of it
    \* the running process
    main,       \* the statement main() has come to, "idle" with no process
    opts,       \* the options of the run
    files,      \* filesToProcess
    cached,     \* cachedData: the input hash and the index
    tables,     \* symbolsPerFile
    opened,     \* the stream of metadata.h is open
    stage,      \* stage[w]: where worker w is in its job
    hash,       \* hash[w]: the hash the job of w computed
    size, submitted, started, current, finished, closed, \* its JobManager
    \* history
    seen,       \* the modification times when the run started
    warm,       \* the input of the last finished run, as long as nobody
                \* touched a header or the cache since that run started
    quiet,      \* nobody touched a header or the cache since the run started
    ended,      \* how the last process ended
    died,       \* some process ended before its work was done, and not
                \* because it read a malformed file
    runs, faults

diskVars == <<mtime, lastTime, tableFile, indexFile, output>>
poolVars == <<size, submitted, started, current, finished, closed>>
jobVars == <<tables, opened, stage, hash>>
historyVars == <<seen, warm, quiet, ended, died, runs, faults>>
vars == <<diskVars, main, opts, files, cached, jobVars, poolVars, historyVars>>

Pool == INSTANCE JobBatch

Times == 1..MaxTime
None == [kind |-> "none"]          \* no file, or no object
Partial == [kind |-> "partial"]    \* opened for writing and not closed since

\* A table stands for the version of the header it was parsed from.
Tables == [kind : {"table"}, time : Times]
Indices == [kind : {"index"}, input : {InputHash[i] : i \in Inputs} \cup {NoHash},
            table : [Headers -> 0..MaxTime]]
Outputs == [kind : {"output", "unclosed"}, of : [Headers -> Tables \cup {None}]]

EmptyIndex == [kind |-> "index", input |-> NoHash, table |-> [h \in Headers |-> 0]]

Statements == {"idle", "load", "scope", "hung", "open_output", "generate",
               "open_index", "write_index", "close_output"}

Endings == {"none", "finished", "killed", "malformed_index", "malformed_table",
            "header_gone"}

TypeOK ==
    /\ mtime \in [Headers -> 0..MaxTime]
    /\ lastTime \in [Headers -> 0..MaxTime]
    /\ tableFile \in [Headers -> [Times -> Tables \cup {None, Partial}]]
    /\ indexFile \in Indices \cup {None, Partial}
    /\ output \in {None, Partial} \/ output \in Outputs
    /\ main \in Statements
    /\ opts \in [input : Inputs \cup {NoInput}, force : BOOLEAN]
    /\ files \in Seq(Headers)
    /\ cached \in Indices
    /\ tables \in Seq(Tables \cup {None})
    /\ stage \in [Workers -> {"none", "lookup", "parse", "endless", "open", "write"}]
    /\ hash \in [Workers -> 0..MaxTime]
    /\ seen \in [Headers -> 0..MaxTime]
    /\ warm \in Inputs \cup {NoInput}
    /\ quiet \in BOOLEAN /\ opened \in BOOLEAN
    /\ ended \in Endings
    /\ died \in BOOLEAN

-----------------------------------------------------------------------------
(* A process begins and ends *)

IdlePool == /\ size' = 0 /\ submitted' = 0 /\ started' = 0
            /\ current' = [w \in Workers |-> 0]
            /\ finished' = {} /\ closed' = FALSE

IdleJobs == /\ tables' = <<>> /\ opened' = FALSE
            /\ stage' = [w \in Workers |-> "none"]
            /\ hash' = [w \in Workers |-> 0]

\* The memory of the process is gone; the options are kept for the record.
ProcessEnds(how) ==
    /\ main' = "idle"
    /\ ended' = how
    /\ died' = (died \/ how \in {"killed", "header_gone"})
    /\ files' = <<>>
    /\ cached' = EmptyIndex
    /\ seen' = [h \in Headers |-> 0] /\ quiet' = FALSE
    /\ IdleJobs /\ IdlePool
    /\ UNCHANGED <<mtime, lastTime, opts, runs>>

\* An exception nobody catches, or a null pointer: std::terminate or a fault.
Aborts(how) == /\ ProcessEnds(how)
               /\ warm' = NoInput
               /\ UNCHANGED <<indexFile, output, faults>>

Init ==
    /\ mtime \in [Headers -> 0..1] /\ lastTime = mtime
    /\ tableFile = [h \in Headers |-> [t \in Times |-> None]]
    /\ indexFile = None /\ output = None
    /\ main = "idle"
    /\ opts = [input |-> NoInput, force |-> FALSE]
    /\ files = <<>> /\ cached = EmptyIndex
    /\ tables = <<>> /\ opened = FALSE
    /\ stage = [w \in Workers |-> "none"] /\ hash = [w \in Workers |-> 0]
    /\ size = 0 /\ submitted = 0 /\ started = 0
    /\ current = [w \in Workers |-> 0] /\ finished = {} /\ closed = FALSE
    /\ seen = [h \in Headers |-> 0] /\ warm = NoInput /\ quiet = FALSE
    /\ ended = "none" /\ died = FALSE /\ runs = 0 /\ faults = 0

-----------------------------------------------------------------------------
(* The rest of the world *)

Disturbs == warm' = NoInput /\ quiet' = FALSE

\* Somebody creates or edits a header, at any time.
EditHeader(h) ==
    /\ lastTime[h] < MaxTime
    /\ lastTime' = [lastTime EXCEPT ![h] = @ + 1]
    /\ mtime' = [mtime EXCEPT ![h] = lastTime[h] + 1]
    /\ Disturbs
    /\ UNCHANGED <<tableFile, indexFile, output, main, opts, files, cached,
                   jobVars, poolVars, seen, ended, died, runs, faults>>

RemoveHeader(h) ==
    /\ mtime[h] # 0
    /\ mtime' = [mtime EXCEPT ![h] = 0]
    /\ Disturbs
    /\ UNCHANGED <<lastTime, tableFile, indexFile, output, main, opts, files,
                   cached, jobVars, poolVars, seen, ended, died, runs, faults>>

\* A header comes back as it was: moved away and back, say.
RestoreHeader(h) ==
    /\ mtime[h] = 0 /\ lastTime[h] # 0
    /\ mtime' = [mtime EXCEPT ![h] = lastTime[h]]
    /\ Disturbs
    /\ UNCHANGED <<lastTime, tableFile, indexFile, output, main, opts, files,
                   cached, jobVars, poolVars, seen, ended, died, runs, faults>>

\* Somebody cleans the cache directory, or a part of it.
RemoveTableFile(h, t) ==
    /\ tableFile[h][t] # None
    /\ tableFile' = [tableFile EXCEPT ![h][t] = None]
    /\ Disturbs
    /\ UNCHANGED <<mtime, lastTime, indexFile, output, main, opts, files, cached,
                   jobVars, poolVars, seen, ended, died, runs, faults>>

\* The machine stops, or somebody kills the process.
Kill ==
    /\ main # "idle"
    /\ faults < MaxFaults
    /\ faults' = faults + 1
    /\ ProcessEnds("killed")
    /\ warm' = NoInput
    /\ UNCHANGED <<tableFile, indexFile, output>>

-----------------------------------------------------------------------------
(* main() up to the scope of the JobManager *)

\* The listing order of a directory is not specified.
Listings(hs) == {s \in [1..Cardinality(hs) -> hs] :
                    \A a, b \in 1..Cardinality(hs) : a # b => s[a] # s[b]}

\* ParseOptions and GetHeaderFiles.
StartRun ==
    /\ main = "idle"
    /\ runs < MaxRuns
    /\ \E input \in Inputs, force \in BOOLEAN :
         /\ opts' = [input |-> input, force |-> force]
         /\ files' \in Listings({h \in HeadersOf[input] : mtime[h] # 0})
    /\ runs' = runs + 1
    /\ IF files' = <<>>
       THEN /\ ended' = "finished"
            /\ UNCHANGED <<main, seen, quiet>>
       ELSE /\ main' = "load"
            /\ seen' = mtime /\ quiet' = TRUE
            /\ ended' = "none"
    /\ UNCHANGED <<diskVars, cached, jobVars, poolVars, warm, died, faults>>

OpensScope == /\ main' = "scope"
              /\ tables' = [i \in 1..Len(files) |-> None]
              /\ size' = Len(files)

\* Variant: the index of another input is kept.
NeverResets(index) == index

\* The cache of another input is dropped; its cache files stay.
ResetIfOther(index) ==
    IF index.input = InputHash[opts.input] THEN index ELSE EmptyIndex

\* TCacheData::Load and the comparison of the input hashes.  A file that ends
\* too early makes the archive throw.
LoadIndex ==
    /\ main = "load"
    /\ indexFile # Partial
    /\ cached' = ResetIfOther(IF indexFile = None THEN EmptyIndex ELSE indexFile)
    /\ OpensScope
    /\ UNCHANGED <<diskVars, opts, files, opened, stage, hash, submitted, started,
                   current, finished, closed, historyVars>>

LoadMalformedIndex ==
    /\ main = "load"
    /\ indexFile = Partial
    /\ Aborts("malformed_index")
    /\ UNCHANGED tableFile

SubmitJob ==
    /\ main = "scope"
    /\ Pool!Submit
    /\ UNCHANGED <<diskVars, main, opts, files, cached, jobVars, historyVars>>

\* Variant: the jobs are not waited for.
LeaveScopeAtOnce ==
    /\ main = "scope"
    /\ main' = "open_output"
    /\ closed' = TRUE
    /\ UNCHANGED <<diskVars, opts, files, cached, jobVars, historyVars, size,
                   submitted, started, current, finished>>

\* ~JobManager joins for ever: a worker that saw no job and no shutdown blocks
\* behind the only notification, as module JobManager has it.
MissShutdown ==
    /\ main = "scope"
    /\ ~closed /\ submitted = size /\ finished = 1..size
    /\ main' = "hung"
    /\ UNCHANGED <<diskVars, opts, files, cached, jobVars, poolVars, historyVars>>

\* ~JobManager returns; the next statement is after the scope.
LeaveScope ==
    /\ main = "scope"
    /\ Pool!Close
    /\ main' = "open_output"
    /\ UNCHANGED <<diskVars, opts, files, cached, jobVars, historyVars>>

-----------------------------------------------------------------------------
(* A job, as worker w executes it *)

Job(w) == current[w]
Header(w) == files[current[w]]

\* Takes the next job and computes the hash of its header.
TakeJob(w) ==
    /\ main = "scope"
    /\ Pool!Start(w)
    /\ mtime[files[started + 1]] # 0
    /\ hash' = [hash EXCEPT ![w] = mtime[files[started + 1]]]
    /\ stage' = [stage EXCEPT ![w] = "lookup"]
    /\ UNCHANGED <<diskVars, main, opts, files, cached, tables, opened, historyVars>>

\* Variant: a job that waits until its header is there.
WaitsForHeader(w) ==
    /\ main = "scope"
    /\ started < submitted /\ current[w] = 0
    /\ mtime[files[started + 1]] = 0
    /\ UNCHANGED vars

\* last_write_time throws for a header that went away since it was listed.
HashOfMissingHeader(w) ==
    /\ main = "scope"
    /\ started < submitted /\ current[w] = 0
    /\ mtime[files[started + 1]] = 0
    /\ Aborts("header_gone")
    /\ UNCHANGED tableFile

\* Contains(filename, hash) && !isForceModeEnabled.
Hit(w) == ~opts.force /\ cached.table[Header(w)] = hash[w]

CachedTable(w) == tableFile[Header(w)][hash[w]]

ReuseTable(w) ==
    /\ stage[w] = "lookup"
    /\ Hit(w)
    /\ CachedTable(w) \in Tables
    /\ tables' = [tables EXCEPT ![Job(w)] = CachedTable(w)]
    /\ stage' = [stage EXCEPT ![w] = "none"]
    /\ hash' = [hash EXCEPT ![w] = 0]
    /\ Pool!Finish(w)
    /\ UNCHANGED <<diskVars, main, opts, files, cached, opened, historyVars>>

ReadMalformedTable(w) ==
    /\ stage[w] = "lookup"
    /\ Hit(w)
    /\ CachedTable(w) = Partial
    /\ Aborts("malformed_table")
    /\ UNCHANGED tableFile

\* Also when the file the index names cannot be opened.
MissTable(w) ==
    /\ stage[w] = "lookup"
    /\ ~Hit(w) \/ CachedTable(w) = None
    /\ stage' = [stage EXCEPT ![w] = "parse"]
    /\ UNCHANGED <<diskVars, main, opts, files, cached, tables, opened, hash, poolVars,
                   historyVars>>

\* Variant: the hash is taken when the text has been read.
HashAfterParse(w) ==
    /\ stage[w] = "parse"
    /\ mtime[Header(w)] # 0
    /\ \E before \in hash[w]..mtime[Header(w)] :
         tables' = [tables EXCEPT ![Job(w)] =
                      [kind |-> "table", time |-> before]]
    /\ hash' = [hash EXCEPT ![w] = mtime[Header(w)]]
    /\ stage' = [stage EXCEPT ![w] = "open"]
    /\ UNCHANGED <<diskVars, main, opts, files, cached, opened, poolVars, historyVars>>

\* ProcessHeaderFile: the text is read now, not when the hash was computed; a
\* header that cannot be opened gives a null table.
ParseHeader(w) ==
    /\ stage[w] = "parse"
    /\ tables' = [tables EXCEPT ![Job(w)] =
            IF mtime[Header(w)] = 0 THEN None
            ELSE [kind |-> "table", time |-> mtime[Header(w)]]]
    /\ stage' = [stage EXCEPT ![w] = "open"]
    /\ UNCHANGED <<diskVars, main, opts, files, cached, opened, hash, poolVars,
                   historyVars>>

\* The parser does not come to the end of every text: module Parser shows on
\* which ones it looks at one token for ever.
ParseForever(w) ==
    /\ stage[w] = "parse"
    /\ mtime[Header(w)] # 0
    /\ stage' = [stage EXCEPT ![w] = "endless"]
    /\ UNCHANGED <<diskVars, main, opts, files, cached, tables, opened, hash, poolVars,
                   historyVars>>

\* Variant: the name of the cache file is computed again when it is written.
HashesAgain(w, content) ==
    tableFile' = [tableFile EXCEPT
        ![Header(w)][IF mtime[Header(w)] = 0 THEN hash[w] ELSE mtime[Header(w)]] = content]

\* The cache file is named after the hash computed when the job began.
SetTableFile(w, content) ==
    tableFile' = [tableFile EXCEPT ![Header(w)][hash[w]] = content]

\* The ofstream truncates the cache file.
OpenTableFile(w) ==
    /\ stage[w] = "open"
    /\ SetTableFile(w, Partial)
    /\ stage' = [stage EXCEPT ![w] = "write"]
    /\ UNCHANGED <<mtime, lastTime, indexFile, output, main, opts, files, cached,
                   tables, opened, hash, poolVars, historyVars>>

\* Variant: the stream fails on a full disk and nobody looks at it.
NothingStored(table) == Partial

\* What Save and Load keep of a table: not all of its types' members, as module
\* Output has it, but the version of the text.
Stored(table) == [kind |-> "table", time |-> table.time]

\* Variant: an entry replaces the index.
ForgetsEntries(index, h, t) == [g \in {h} |-> t]

\* Variant: the entry of one header drops those of the others.
DropsOthers(index, h, t) == [g \in Headers |-> IF g = h THEN t ELSE 0]

\* AddSymTableEntity.
WithEntry(index, h, t) == [index EXCEPT ![h] = t]

\* A cache file that was removed in the meantime does not come back.
WriteTableFile(w) ==
    /\ stage[w] = "write"
    /\ tables[Job(w)] # None
    /\ IF CachedTable(w) = None THEN UNCHANGED tableFile
       ELSE SetTableFile(w, Stored(tables[Job(w)]))
    /\ cached' = [cached EXCEPT !.table = WithEntry(@, Header(w), hash[w])]
    /\ stage' = [stage EXCEPT ![w] = "none"]
    /\ hash' = [hash EXCEPT ![w] = 0]
    /\ Pool!Finish(w)
    /\ UNCHANGED <<mtime, lastTime, indexFile, output, main, opts, files, tables, opened,
                   historyVars>>

\* Save on a null table.
WriteNullTable(w) ==
    /\ stage[w] = "write"
    /\ tables[Job(w)] = None
    /\ Aborts("header_gone")
    /\ UNCHANGED tableFile

-----------------------------------------------------------------------------
(* main() after the scope *)

After(statement, next) == main = statement /\ main' = next

\* The open truncates the file.
OpenOutput ==
    /\ After("open_output", "generate")
    /\ output' = Partial /\ opened' = TRUE
    /\ UNCHANGED <<mtime, lastTime, tableFile, indexFile, opts, files, cached,
                   tables, stage, hash, poolVars, historyVars>>

\* FileOutputStream::Open does not look whether there is a file.
MissOutput ==
    /\ After("open_output", "generate")
    /\ faults < MaxFaults /\ faults' = faults + 1
    /\ UNCHANGED <<diskVars, opts, files, cached, jobVars, poolVars,
                   seen, warm, quiet, ended, died, runs>>

TableFor(h) == IF \E i \in 1..Len(files) : files[i] = h
               THEN tables[CHOOSE i \in 1..Len(files) : files[i] = h]
               ELSE None

GenerateOutput ==
    /\ After("generate", "open_index")
    /\ output' = IF opened THEN [kind |-> "unclosed", of |-> [h \in Headers |-> TableFor(h)]]
                 ELSE output
    /\ UNCHANGED <<mtime, lastTime, tableFile, indexFile, opts, files, cached,
                   jobVars, poolVars, historyVars>>

\* SetInputHash(GetHashFromInputFiles(...)).
NewInputHash == InputHash[opts.input]

\* TCacheData::Save overwrites the index in place.
OpenIndex ==
    /\ After("open_index", "write_index")
    /\ indexFile' = Partial
    /\ cached' = [cached EXCEPT !.input = NewInputHash]
    /\ UNCHANGED <<mtime, lastTime, tableFile, output, opts, files, jobVars,
                   poolVars, historyVars>>

WriteIndex ==
    /\ After("write_index", "close_output")
    /\ indexFile' = cached
    /\ UNCHANGED <<mtime, lastTime, tableFile, output, opts, files, cached, jobVars,
                   poolVars, historyVars>>

\* ~CodeGenerator, when main() returns.
CloseOutput ==
    /\ main = "close_output"
    /\ output' = IF opened THEN [output EXCEPT !.kind = "output"] ELSE output
    /\ ProcessEnds("finished")
    /\ warm' = IF quiet THEN opts.input ELSE NoInput
    /\ UNCHANGED <<tableFile, indexFile, faults>>

-----------------------------------------------------------------------------
JobStep(w) ==
    \/ TakeJob(w) \/ HashOfMissingHeader(w)
    \/ ReuseTable(w) \/ ReadMalformedTable(w) \/ MissTable(w)
    \/ ParseHeader(w) \/ ParseForever(w)
    \/ OpenTableFile(w) \/ WriteTableFile(w) \/ WriteNullTable(w)

MainStep ==
    \/ LoadIndex \/ LoadMalformedIndex \/ SubmitJob \/ MissShutdown \/ LeaveScope
    \/ OpenOutput \/ MissOutput \/ GenerateOutput
    \/ OpenIndex \/ WriteIndex \/ CloseOutput

ProcessStep == MainStep \/ \E w \in Workers : JobStep(w)

WorldStep ==
    \/ StartRun \/ Kill
    \/ \E h \in Headers : \/ EditHeader(h) \/ RemoveHeader(h) \/ RestoreHeader(h)
                         \/ \E t \in Times : RemoveTableFile(h, t)

Next == ProcessStep \/ WorldStep

Spec == Init /\ [][Next]_vars

\* The threads of a process that nobody kills go on.
FairSpec == Spec /\ WF_vars(ProcessStep)

-----------------------------------------------------------------------------
(* Properties *)

\* A cache file never holds a table older than its name says: the hash is
\* computed before the text is read, so an edit in between makes the file
\* newer than its name, and a later run misses it.
CacheFileIsNotStale ==
    \A h \in Headers, t \in Times :
        tableFile[h][t] \in Tables => tableFile[h][t].time >= t

\* When the run reaches the end, metadata.h describes every header that was
\* listed, in a version at least as new as when the run started, whatever was
\* edited, killed, reused or forced in this run and the runs before, and whether
\* or not those found a place for their output.
OutputIsFresh ==
    main \in {"open_index", "write_index", "close_output"} /\ opened =>
        /\ output \in Outputs
        /\ \A i \in 1..Len(files) :
              /\ output.of[files[i]] # None
              /\ output.of[files[i]].time >= seen[files[i]]

\* A run on headers nobody touched since the last finished run on the same
\* input parses nothing, unless it is forced to.
WarmRunParsesNothing ==
    \A w \in Workers : stage[w] = "parse" => opts.force \/ opts.input # warm

\* Runs that come to their end do not spoil the cache for each other, however
\* their jobs interleave: a malformed file is met only if some process before
\* was killed, or fell over a header that went away.
OnlyDeathsSpoilCache ==
    ended \in {"malformed_index", "malformed_table"} => died

\* A saved index names no cache file that is cut off, as long as no process died
\* over one: the pool is empty before the index is written.
SavedIndexIsUsable ==
    main = "idle" /\ ~died /\ indexFile \in Indices =>
        \A h \in Headers : indexFile.table[h] # 0 =>
            tableFile[h][indexFile.table[h]] # Partial

\* main.cpp:68: the index keeps no header that its input does not name: "Reset
\* cache if we introspect another headers pack".
IndexIsOfItsInput ==
    indexFile \in Indices =>
        \A h \in Headers : indexFile.table[h] # 0 =>
            \E i \in Inputs : InputHash[i] = indexFile.input /\ h \in HeadersOf[i]

\* What keeps a process from its end: the join with a worker that missed the
\* notification, when every job was executed ...
Hung == main = "hung" /\ finished = 1..size

\* ... and texts whose parse does not end.  Each keeps one worker, and with it the
\* scope; another job is left out only if there is no worker left.
HeldUp == /\ main = "scope" /\ submitted = size
          /\ \E w \in Workers : stage[w] = "endless"
          /\ \A w \in Workers : \/ stage[w] = "endless"
                               \/ (current[w] = 0 /\ started = size)

\* A process comes to its end, or to one of these two stops: whatever it meets on
\* the disk, neither main() nor a job waits for it to change, and one endless
\* header does not keep the others from their turn.
RunsEndOrStop == (main # "idle") ~> (main = "idle" \/ Hung \/ HeldUp)
=============================================================================
