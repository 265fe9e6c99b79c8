------------------------- MODULE IntrospectorProofs -------------------------
(***************************************************************************)
(* Proofs about Introspector, for any headers, command lines, threads,      *)
(* edits, kills and runs.  IInv is the inductive invariant: types, what is  *)
(* known of times, what the pool has made of the batch, and what the files  *)
(* on the disk have to do with the jobs that read and write them.           *)
(***************************************************************************)
EXTENDS Introspector, FiniteSetTheorems, FunctionTheorems, TLAPS

USE IntrospectorAssumption

AfterScope == {"open_output", "generate", "open_index", "write_index", "close_output"}

\* A header has the latest of its modification times, or does not exist.
TimesAdvance ==
    \A h \in Headers : mtime[h] \in {0, lastTime[h]} /\ seen[h] <= lastTime[h]

\* The list of a run names headers of its input, each once.
FilesAreListed ==
    /\ \A i, j \in 1..Len(files) : i # j => files[i] # files[j]
    /\ main # "idle" => /\ opts.input \in Inputs
                        /\ \A i \in 1..Len(files) : files[i] \in HeadersOf[opts.input]

\* The batch is the list; a job is executed by one worker, and finished only once.
BatchIsAccounted ==
    /\ size \in Nat /\ submitted \in Nat /\ started \in Nat
    /\ current \in [Workers -> Nat]
    /\ submitted <= size /\ started <= submitted /\ finished \subseteq 1..started
    /\ Len(tables) = size /\ size = IF main \in {"idle", "load"} THEN 0 ELSE Len(files)
    /\ \A w \in Workers : current[w] <= started /\ current[w] \notin finished
    /\ \A v, w \in Workers : v # w /\ current[v] # 0 => current[v] # current[w]

\* Jobs run in the scope of the pool, which is left when all are finished.
JobsRunInScope ==
    /\ \A w \in Workers : stage[w] = "none" <=> current[w] = 0
    /\ \A w \in Workers : stage[w] # "none" => main = "scope"
    /\ main \in AfterScope \cup {"hung"} => finished = 1..size
    /\ opened => main \in AfterScope \ {"open_output"}

\* The hash of a job is of a version that the header has had since the run began.
HashIsOfThisRun ==
    \A w \in Workers : stage[w] # "none" =>
        hash[w] \in Times /\ seen[Header(w)] <= hash[w] /\ hash[w] <= lastTime[Header(w)]

\* A table that was parsed is not older than the hash it will be stored under.
ParsedIsNotOlder ==
    \A w \in Workers : stage[w] \in {"open", "write"} /\ tables[Job(w)] # None =>
        tables[Job(w)].time >= hash[w]

\* A finished job has left a table that is as new as the header was at the start.
FinishedIsFresh ==
    \A i \in finished : tables[i] # None /\ tables[i].time >= seen[files[i]]

\* What was generated is what the jobs left.
GeneratedIsTables ==
    main \in {"open_index", "write_index", "close_output"} /\ opened =>
        output = [kind |-> "unclosed", of |-> [h \in Headers |-> TableFor(h)]]

\* Unless a process died before, a file is cut off only while it is written.
CutOffWhileWritten ==
    ~died => /\ \A h \in Headers, t \in Times : tableFile[h][t] = Partial =>
                   \E w \in Workers : stage[w] = "write" /\ Header(w) = h /\ hash[w] = t
             /\ indexFile = Partial => main = "write_index"

\* The index in memory has entries of headers that the input of the run names.
CachedIsOfInput ==
    /\ main \notin {"idle", "load"} =>
         \A h \in Headers : cached.table[h] # 0 =>
            \E i \in Inputs : InputHash[i] = InputHash[opts.input] /\ h \in HeadersOf[i]
    /\ main \in {"write_index", "close_output"} => cached.input = InputHash[opts.input]

\* The index and the cache files of header h are those of its present version.
IsCached(index, h) ==
    index.table[h] = mtime[h] /\ tableFile[h][mtime[h]] \in Tables

\* What a finished run has left of its input in the cache.
KeepsInput(index, input) ==
    /\ index \in Indices /\ index.input = InputHash[input]
    /\ \A h \in HeadersOf[input] : mtime[h] # 0 => IsCached(index, h)

\* As long as nobody disturbs it, a run lists all headers of its input, computes
\* the hash of what it lists, writes what it opened, and leaves it cached.
QuietRunCaches ==
    quiet /\ main # "idle" =>
        /\ \A h \in HeadersOf[opts.input] : mtime[h] # 0 => \E i \in 1..Len(files) : files[i] = h
        /\ \A i \in 1..Len(files) : mtime[files[i]] # 0
        /\ \A w \in Workers : stage[w] # "none" => hash[w] = mtime[Header(w)]
        /\ \A w \in Workers : stage[w] \in {"open", "write"} => tables[Job(w)] # None
        /\ \A w \in Workers : stage[w] = "write" => CachedTable(w) # None
        /\ \A i \in finished : IsCached(cached, files[i])
        /\ main = "close_output" => indexFile = cached

\* A run on the input of the last one finds all of it, and writes none of it again.
WarmRunFinds ==
    warm # NoInput =>
        /\ main \in {"idle", "load"} => KeepsInput(indexFile, warm)
        /\ main # "idle" => quiet
        /\ main \notin {"idle", "load"} /\ opts.input = warm /\ ~opts.force =>
              /\ \A h \in HeadersOf[warm] : mtime[h] # 0 => IsCached(cached, h)
              /\ \A w \in Workers : stage[w] \in {"none", "lookup"}

IInv == /\ TypeOK
        /\ TimesAdvance
        /\ FilesAreListed
        /\ BatchIsAccounted
        /\ JobsRunInScope
        /\ HashIsOfThisRun
        /\ ParsedIsNotOlder
        /\ CacheFileIsNotStale
        /\ FinishedIsFresh
        /\ GeneratedIsTables
        /\ CutOffWhileWritten
        /\ OnlyDeathsSpoilCache
        /\ CachedIsOfInput
        /\ IndexIsOfItsInput
        /\ QuietRunCaches
        /\ WarmRunFinds

-----------------------------------------------------------------------------
(* Files and tables *)

\* What an empty, a cut off and a complete file are told apart by.
LEMMA KindsDiffer ==
    /\ None # Partial
    /\ None \notin Tables \cup Indices \cup Outputs
    /\ Partial \notin Tables \cup Indices \cup Outputs
  BY DEF None, Partial, Tables, Indices, Outputs

LEMMA TableTimes ==
    /\ \A x \in Tables : x.time \in Times
    /\ \A t \in Times : LET x == [kind |-> "table", time |-> t]
                        IN  x \in Tables /\ x.time = t
  BY DEF Tables

LEMMA EmptyIndexIsIndex ==
    /\ EmptyIndex \in Indices
    /\ \A h \in Headers : EmptyIndex.table[h] = 0
    /\ \A i \in Inputs : EmptyIndex.input # InputHash[i]
  BY DEF EmptyIndex, Indices

FileTypes == [Headers -> [Times -> Tables \cup {None, Partial}]]

\* A step that sets the cache file of a header and a time leaves the others.
LEMMA OneFileIsSet ==
    ASSUME tableFile \in FileTypes,
           NEW h \in Headers, NEW t \in Times, NEW v \in Tables \cup {None, Partial},
           tableFile' = [tableFile EXCEPT ![h][t] = v]
    PROVE  /\ tableFile' \in FileTypes
           /\ \A a \in Headers, b \in Times :
                 tableFile'[a][b] = IF a = h /\ b = t THEN v ELSE tableFile[a][b]
  BY DEF FileTypes

\* What is generated, and closed, is an output.
LEMMA OutputsAreClosed ==
    ASSUME NEW f \in [Headers -> Tables \cup {None}]
    PROVE  LET o == [kind |-> "unclosed", of |-> f]
           IN  o \in Outputs /\ [o EXCEPT !.kind = "output"] \in Outputs
  BY DEF Outputs

\* A listing has every header of the set once.
LEMMA ListingsList ==
    ASSUME NEW hs \in SUBSET Headers, NEW s \in Listings(hs)
    PROVE  /\ s \in Seq(Headers)
           /\ \A i \in 1..Len(s) : s[i] \in hs
           /\ \A i, j \in 1..Len(s) : i # j => s[i] # s[j]
           /\ \A h \in hs : \E i \in 1..Len(s) : s[i] = h
  <1> DEFINE n == Cardinality(hs)
  <1>1. IsFiniteSet(hs) /\ n \in Nat
    BY FS_Subset, FS_CardinalityType
  <1>2. s \in [1..n -> hs] /\ \A i, j \in 1..n : i # j => s[i] # s[j]
    BY DEF Listings
  <1>3. s \in Seq(Headers) /\ Len(s) = n
    BY <1>1, <1>2
  <1>4. s \in Injection(1..n, hs)
    BY <1>2, Fun_IsInj
  <1>5. Cardinality(1..n) = n
    BY <1>1, FS_Interval
  <1>6. s \in Surjection(1..n, hs)
    BY <1>1, <1>4, <1>5, FS_Injection
  <1>7. \A h \in hs : \E i \in 1..n : s[i] = h
    BY <1>6 DEF Surjection
  <1>8. QED
    BY <1>2, <1>3, <1>7

-----------------------------------------------------------------------------
(* The steps, as the proofs divide them *)

\* Steps with which the process ends, and with it everything it had in memory.
Dies == \/ Kill \/ LoadMalformedIndex \/ CloseOutput
        \/ \E w \in Workers : HashOfMissingHeader(w) \/ ReadMalformedTable(w)
                              \/ WriteNullTable(w)

\* Steps of the world that no process sees at once.
Edits == \E h \in Headers : \/ EditHeader(h) \/ RemoveHeader(h) \/ RestoreHeader(h)
                           \/ \E t \in Times : RemoveTableFile(h, t)

Gone == /\ main' = "idle" /\ files' = <<>> /\ cached' = EmptyIndex
        /\ seen' = [h \in Headers |-> 0] /\ quiet' = FALSE
        /\ IdleJobs /\ IdlePool
        /\ UNCHANGED <<mtime, lastTime, tableFile, opts, runs>>

LEMMA DeathLeavesNothing == Dies => Gone
  BY DEF Dies, Gone, Kill, LoadMalformedIndex, CloseOutput, HashOfMissingHeader,
         ReadMalformedTable, WriteNullTable, Aborts, ProcessEnds

LEMMA EditsAreSeenLater ==
    Edits => /\ warm' = NoInput /\ quiet' = FALSE
             /\ UNCHANGED <<indexFile, output, main, opts, files, cached, jobVars,
                            poolVars, seen, ended, died, runs, faults>>
  BY DEF Edits, EditHeader, RemoveHeader, RestoreHeader, RemoveTableFile, Disturbs

\* Steps of main() after which the process goes on, and those of a job.
MainGoesOn == \/ LoadIndex \/ SubmitJob \/ MissShutdown \/ LeaveScope
              \/ OpenOutput \/ MissOutput \/ GenerateOutput \/ OpenIndex \/ WriteIndex

JobGoesOn(w) == \/ TakeJob(w) \/ ReuseTable(w) \/ MissTable(w)
                \/ ParseHeader(w) \/ ParseForever(w) \/ OpenTableFile(w) \/ WriteTableFile(w)

LEMMA MainLeavesHeaders ==
    MainGoesOn => /\ main # "idle" /\ main' \notin {"idle", "load"}
                  /\ UNCHANGED <<mtime, lastTime, tableFile, opts, files, stage, hash,
                                 started, current, finished, seen, warm, quiet, ended,
                                 died, runs>>
  BY DEF MainGoesOn, LoadIndex, OpensScope, SubmitJob, MissShutdown, LeaveScope,
         Pool!Submit, Pool!Close, OpenOutput, MissOutput, GenerateOutput, OpenIndex,
         WriteIndex, After, diskVars, jobVars, poolVars, historyVars

LEMMA JobsLeaveMain ==
    ASSUME NEW w \in Workers, JobGoesOn(w)
    PROVE  UNCHANGED <<mtime, lastTime, indexFile, output, main, opts, files, opened,
                       size, submitted, closed, historyVars>>
  BY DEF JobGoesOn, TakeJob, ReuseTable, MissTable, ParseHeader, ParseForever, OpenTableFile,
         WriteTableFile, Pool!Start, Pool!Finish, diskVars, poolVars

LEMMA StepCases ==
    ASSUME [Next]_vars
    PROVE  \/ Dies \/ Edits \/ StartRun \/ MainGoesOn
           \/ \E w \in Workers : JobGoesOn(w)
           \/ UNCHANGED vars
  BY DEF Next, ProcessStep, MainStep, JobStep, WorldStep, Dies, Edits, MainGoesOn, JobGoesOn

LEMMA InitEstablishes == Init => IInv
  <1> SUFFICES ASSUME Init PROVE IInv
    OBVIOUS
  <1> USE KindsDiffer, EmptyIndexIsIndex DEF Init
  <1>1. TypeOK
    <2>1. mtime \in [Headers -> 0..MaxTime] /\ lastTime \in [Headers -> 0..MaxTime]
      OBVIOUS
    <2>2. tableFile \in [Headers -> [Times -> Tables \cup {None, Partial}]]
      OBVIOUS
    <2>3. files \in Seq(Headers) /\ tables \in Seq(Tables \cup {None})
      OBVIOUS
    <2>4. opts \in [input : Inputs \cup {NoInput}, force : BOOLEAN]
      OBVIOUS
    <2>5. quiet \in BOOLEAN /\ opened \in BOOLEAN /\ died \in BOOLEAN
      OBVIOUS
    <2>6. /\ seen \in [Headers -> 0..MaxTime]
          /\ stage \in [Workers -> {"none", "lookup", "parse", "endless", "open", "write"}]
          /\ hash \in [Workers -> 0..MaxTime]
      OBVIOUS
    <2>7. QED
      BY <2>1, <2>2, <2>3, <2>4, <2>5, <2>6 DEF TypeOK, Statements, Endings
  <1>2. TimesAdvance /\ FilesAreListed
    BY DEF TimesAdvance, FilesAreListed
  <1>3. BatchIsAccounted /\ JobsRunInScope
    BY DEF BatchIsAccounted, JobsRunInScope, AfterScope
  <1>4. HashIsOfThisRun /\ ParsedIsNotOlder /\ CacheFileIsNotStale /\ FinishedIsFresh
    BY DEF HashIsOfThisRun, ParsedIsNotOlder, CacheFileIsNotStale, FinishedIsFresh
  <1>5. GeneratedIsTables /\ CutOffWhileWritten /\ OnlyDeathsSpoilCache
    BY DEF GeneratedIsTables, CutOffWhileWritten, OnlyDeathsSpoilCache
  <1>6. CachedIsOfInput /\ IndexIsOfItsInput
    BY DEF CachedIsOfInput, IndexIsOfItsInput
  <1>7. QuietRunCaches /\ WarmRunFinds
    BY DEF QuietRunCaches, WarmRunFinds
  <1>8. QED
    BY <1>1, <1>2, <1>3, <1>4, <1>5, <1>6, <1>7 DEF IInv

-----------------------------------------------------------------------------
(* Types *)

\* The job of a worker is one of the list, with a header and a table.
LEMMA JobsAreListed ==
    ASSUME TypeOK, BatchIsAccounted, JobsRunInScope, FilesAreListed,
           NEW w \in Workers, stage[w] # "none"
    PROVE  /\ main = "scope" /\ Job(w) \in 1..Len(files) /\ Job(w) \in 1..Len(tables)
           /\ Header(w) \in HeadersOf[opts.input] /\ Header(w) \in Headers
  <1>1. main = "scope" /\ current[w] # 0
    BY DEF JobsRunInScope
  <1>2. /\ current[w] \in Nat /\ current[w] <= started /\ started \in Nat
        /\ started <= submitted /\ submitted \in Nat /\ submitted <= size
        /\ size = Len(files) /\ size = Len(tables) /\ size \in Nat
    BY <1>1 DEF BatchIsAccounted
  <1>3. Job(w) \in 1..Len(files) /\ Job(w) \in 1..Len(tables)
    BY <1>1, <1>2 DEF Job
  <1>4. Header(w) \in HeadersOf[opts.input] /\ opts.input \in Inputs
    BY <1>1, <1>3 DEF FilesAreListed, Header, Job
  <1>5. QED
    BY <1>1, <1>3, <1>4

\* So is the job that a worker takes.
LEMMA NextJobIsListed ==
    ASSUME TypeOK, BatchIsAccounted, FilesAreListed,
           main = "scope", started < submitted
    PROVE  /\ started + 1 \in 1..Len(files) /\ started + 1 \in 1..Len(tables)
           /\ files[started + 1] \in HeadersOf[opts.input]
           /\ files[started + 1] \in Headers
  BY DEF TypeOK, BatchIsAccounted, FilesAreListed

LEMMA TablesAreFound ==
    ASSUME TypeOK, BatchIsAccounted, main \notin {"idle", "load"}
    PROVE  [h \in Headers |-> TableFor(h)] \in [Headers -> Tables \cup {None}]
  <1>1. size = Len(files) /\ Len(tables) = Len(files)
    BY DEF BatchIsAccounted
  <1>2. tables \in Seq(Tables \cup {None}) /\ files \in Seq(Headers)
    BY DEF TypeOK
  <1>3. ASSUME NEW h \in Headers
        PROVE  TableFor(h) \in Tables \cup {None}
    BY <1>1, <1>2 DEF TableFor
  <1>4. QED
    BY <1>3

LEMMA TypeOKStep ==
    ASSUME TypeOK, FilesAreListed, BatchIsAccounted, JobsRunInScope, HashIsOfThisRun,
           GeneratedIsTables, [Next]_vars
    PROVE  TypeOK'
  <1> USE KindsDiffer
  <1>0. /\ tableFile \in FileTypes
        /\ tables \in Seq(Tables \cup {None})
        /\ stage \in [Workers -> {"none", "lookup", "parse", "endless", "open", "write"}]
        /\ hash \in [Workers -> 0..MaxTime]
    BY DEF TypeOK, FileTypes
  <1> DEFINE StageType == [Workers -> {"none", "lookup", "parse", "endless", "open", "write"}]
  <1>1. CASE Dies
    <2>1. Gone
      BY <1>1, DeathLeavesNothing
    <2>2. ended' \in Endings /\ died' \in BOOLEAN /\ warm' \in Inputs \cup {NoInput}
      BY <1>1 DEF TypeOK, Dies, Kill, LoadMalformedIndex, CloseOutput, HashOfMissingHeader,
            ReadMalformedTable, WriteNullTable, Aborts, ProcessEnds, Endings
    <2>3. indexFile' = indexFile
      BY <1>1 DEF Dies, Kill, LoadMalformedIndex, CloseOutput, HashOfMissingHeader,
            ReadMalformedTable, WriteNullTable, Aborts
    <2>4. output' \in {None, Partial} \/ output' \in Outputs
      <3>1. CASE CloseOutput /\ opened
        <4>1. output = [kind |-> "unclosed", of |-> [h \in Headers |-> TableFor(h)]]
          BY <3>1 DEF CloseOutput, GeneratedIsTables
        <4>2. [h \in Headers |-> TableFor(h)] \in [Headers -> Tables \cup {None}]
          BY <3>1, TablesAreFound DEF CloseOutput
        <4>3. [output EXCEPT !.kind = "output"] \in Outputs
          BY <4>1, <4>2, OutputsAreClosed
        <4>4. output' = [output EXCEPT !.kind = "output"]
          BY <3>1 DEF CloseOutput
        <4>5. QED
          BY <4>3, <4>4
      <3>2. CASE ~(CloseOutput /\ opened)
        BY <1>1, <3>2 DEF TypeOK, Dies, Kill, LoadMalformedIndex, CloseOutput,
             HashOfMissingHeader, ReadMalformedTable, WriteNullTable, Aborts
      <3>3. QED
        BY <3>1, <3>2
    <2>5. /\ files' \in Seq(Headers) /\ tables' \in Seq(Tables \cup {None})
          /\ cached' \in Indices
      BY <2>1, EmptyIndexIsIndex DEF Gone, IdleJobs
    <2>6. /\ seen' \in [Headers -> 0..MaxTime]
          /\ stage' \in [Workers -> {"none", "lookup", "parse", "endless", "open", "write"}]
          /\ hash' \in [Workers -> 0..MaxTime]
      BY <2>1 DEF Gone, IdleJobs
    <2>7. QED
      BY <2>1, <2>2, <2>3, <2>4, <2>5, <2>6 DEF Gone, IdleJobs, TypeOK, Statements
  <1>2. CASE Edits
    <2>1. /\ warm' = NoInput /\ quiet' = FALSE
          /\ UNCHANGED <<indexFile, output, main, opts, files, cached, jobVars,
                         poolVars, seen, ended, died, runs, faults>>
      BY <1>2, EditsAreSeenLater
    <2>2. mtime' \in [Headers -> 0..MaxTime] /\ lastTime' \in [Headers -> 0..MaxTime]
      <3>1. mtime \in [Headers -> 0..MaxTime] /\ lastTime \in [Headers -> 0..MaxTime]
        BY DEF TypeOK
      <3>2. PICK h \in Headers : \/ EditHeader(h) \/ RemoveHeader(h) \/ RestoreHeader(h)
                                 \/ UNCHANGED <<mtime, lastTime>>
        BY <1>2 DEF Edits, RemoveTableFile
      <3>3. CASE EditHeader(h)
        BY <3>1, <3>3 DEF EditHeader
      <3>4. CASE RemoveHeader(h) \/ RestoreHeader(h)
        BY <3>1, <3>4 DEF RemoveHeader, RestoreHeader
      <3>5. QED
        BY <3>1, <3>2, <3>3, <3>4
    <2>3. tableFile' \in FileTypes
      <3>1. CASE \E h \in Headers, t \in Times : RemoveTableFile(h, t)
        <4>1. PICK h \in Headers, t \in Times : RemoveTableFile(h, t)
          BY <3>1
        <4>2. tableFile' = [tableFile EXCEPT ![h][t] = None]
          BY <4>1 DEF RemoveTableFile
        <4>3. None \in Tables \cup {None, Partial}
          OBVIOUS
        <4>4. QED
          BY <1>0, <4>2, <4>3, OneFileIsSet
      <3>2. CASE tableFile' = tableFile
        BY <1>0, <3>2
      <3>3. QED
        BY <1>2, <3>1, <3>2 DEF Edits, EditHeader, RemoveHeader, RestoreHeader
    <2>4. QED
      BY <2>1, <2>2, <2>3 DEF TypeOK, FileTypes, jobVars
  <1>3. CASE StartRun
    <2>1. opts' \in [input : Inputs \cup {NoInput}, force : BOOLEAN]
      BY <1>3 DEF StartRun
    <2>2. files' \in Seq(Headers)
      BY <1>3, ListingsList DEF StartRun
    <2>3. QED
      BY <1>3, <2>1, <2>2 DEF StartRun, TypeOK, diskVars, jobVars, Statements, Endings
  <1>4. CASE LoadIndex
    <2>1. cached' \in Indices
      BY <1>4, EmptyIndexIsIndex DEF LoadIndex, ResetIfOther, TypeOK
    <2>2. tables' \in Seq(Tables \cup {None})
      BY <1>4 DEF LoadIndex, OpensScope, TypeOK
    <2>3. QED
      BY <1>4, <2>1, <2>2
         DEF LoadIndex, OpensScope, TypeOK, diskVars, historyVars, Statements
  <1>5. CASE SubmitJob \/ MissShutdown \/ LeaveScope \/ MissOutput
    BY <1>5 DEF SubmitJob, MissShutdown, LeaveScope, MissOutput, After, TypeOK, diskVars,
                jobVars, poolVars, historyVars, Statements
  <1>6. CASE OpenOutput
    BY <1>6 DEF OpenOutput, After, TypeOK, poolVars, historyVars, Statements
  <1>7. CASE GenerateOutput
    <2>1. [h \in Headers |-> TableFor(h)] \in [Headers -> Tables \cup {None}]
      BY <1>7, TablesAreFound DEF GenerateOutput, After
    <2>2. output' \in {None, Partial} \/ output' \in Outputs
      BY <1>7, <2>1, OutputsAreClosed DEF GenerateOutput, TypeOK
    <2>3. QED
      BY <1>7, <2>2
         DEF GenerateOutput, After, TypeOK, jobVars, poolVars, historyVars, Statements
  <1>8. CASE OpenIndex
    <2>1. cached' \in Indices
      BY <1>8 DEF OpenIndex, After, NewInputHash, TypeOK, Indices, FilesAreListed
    <2>2. QED
      BY <1>8, <2>1
         DEF OpenIndex, After, TypeOK, jobVars, poolVars, historyVars, Statements
  <1>9. CASE WriteIndex
    BY <1>9 DEF WriteIndex, After, TypeOK, jobVars, poolVars, historyVars, Statements
  <1>10. ASSUME NEW w \in Workers, JobGoesOn(w)
         PROVE  TypeOK'
    <2>1. CASE TakeJob(w)
      <3>1. mtime[files[started + 1]] \in 0..MaxTime
        BY <2>1, NextJobIsListed DEF TakeJob, Pool!Start, TypeOK
      <3>2. QED
        BY <2>1, <3>1 DEF TakeJob, TypeOK, diskVars, historyVars
    <2>2. CASE ReuseTable(w)
      <3>1. CachedTable(w) \in Tables /\ tables' = [tables EXCEPT ![Job(w)] = CachedTable(w)]
        BY <2>2 DEF ReuseTable
      <3>2. tables' \in Seq(Tables \cup {None})
        BY <1>0, <2>2, <3>1, JobsAreListed DEF ReuseTable
      <3>3. stage' \in StageType /\ hash' \in [Workers -> 0..MaxTime]
        BY <1>0, <2>2 DEF ReuseTable
      <3>4. QED
        BY <2>2, <3>2, <3>3 DEF ReuseTable, TypeOK, diskVars, historyVars
    <2>3. CASE MissTable(w) \/ ParseForever(w)
      BY <2>3 DEF MissTable, ParseForever, TypeOK, diskVars, poolVars, historyVars
    <2>4. CASE ParseHeader(w)
      <3>1. IF mtime[Header(w)] = 0 THEN None \in Tables \cup {None}
            ELSE [kind |-> "table", time |-> mtime[Header(w)]] \in Tables \cup {None}
        BY <2>4, JobsAreListed, TableTimes DEF ParseHeader, TypeOK, Times
      <3>2. tables' \in Seq(Tables \cup {None})
        BY <2>4, <3>1, JobsAreListed DEF ParseHeader, TypeOK
      <3>3. QED
        BY <2>4, <3>2, SMTT(30) DEF ParseHeader, TypeOK, diskVars, poolVars, historyVars
    <2>5. CASE OpenTableFile(w)
      <3>1. tableFile' \in FileTypes
        <4>1. stage[w] = "open" /\ hash[w] \in Times /\ Header(w) \in Headers
          BY <2>5, JobsAreListed DEF OpenTableFile, HashIsOfThisRun
        <4>2. tableFile' = [tableFile EXCEPT ![Header(w)][hash[w]] = Partial]
          BY <2>5 DEF OpenTableFile, SetTableFile
        <4>3. Partial \in Tables \cup {None, Partial}
          OBVIOUS
        <4>4. QED
          BY <1>0, <4>1, <4>2, <4>3, OneFileIsSet
      <3>2. QED
        BY <2>5, <3>1 DEF OpenTableFile, TypeOK, FileTypes, poolVars, historyVars
    <2>6. CASE WriteTableFile(w)
      <3>1. /\ stage[w] = "write" /\ hash[w] \in Times
            /\ Header(w) \in Headers /\ tables[Job(w)] \in Tables
        <4>1. stage[w] = "write" /\ tables[Job(w)] # None
          BY <2>6 DEF WriteTableFile
        <4>2. Header(w) \in Headers /\ Job(w) \in 1..Len(tables) /\ hash[w] \in Times
          BY <4>1, JobsAreListed DEF HashIsOfThisRun
        <4>3. QED
          BY <1>0, <4>1, <4>2
      <3>2. Stored(tables[Job(w)]) \in Tables
        BY <3>1, TableTimes DEF Stored
      <3>3. tableFile' \in FileTypes
        <4>1. \/ tableFile' = tableFile
              \/ tableFile' = [tableFile EXCEPT
                                  ![Header(w)][hash[w]] = Stored(tables[Job(w)])]
          BY <2>6 DEF WriteTableFile, SetTableFile
        <4>2. Stored(tables[Job(w)]) \in Tables \cup {None, Partial}
          BY <3>2
        <4>3. QED
          BY <1>0, <3>1, <4>1, <4>2, OneFileIsSet
      <3>4. cached' \in Indices
        BY <2>6, <3>1 DEF WriteTableFile, WithEntry, TypeOK, Indices, Times
      <3>5. stage' \in StageType /\ hash' \in [Workers -> 0..MaxTime]
        BY <1>0, <2>6 DEF WriteTableFile
      <3>6. QED
        BY <2>6, <3>3, <3>4, <3>5 DEF WriteTableFile, TypeOK, FileTypes, historyVars
    <2>7. QED
      BY <1>10, <2>1, <2>2, <2>3, <2>4, <2>5, <2>6 DEF JobGoesOn
  <1>11. CASE UNCHANGED vars
    BY <1>11 DEF vars, diskVars, jobVars, historyVars, TypeOK
  <1>12. QED
    BY <1>1, <1>2, <1>3, <1>4, <1>5, <1>6, <1>7, <1>8, <1>9, <1>10, <1>11, StepCases
       DEF MainGoesOn

-----------------------------------------------------------------------------
(* Times *)

\* An edit gives a header a later time, its latest one again, or none.
LEMMA EditsAdvance ==
    ASSUME TypeOK, TimesAdvance, Edits
    PROVE  \A h \in Headers : /\ lastTime[h] \in Nat /\ lastTime'[h] \in Nat
                              /\ lastTime[h] <= lastTime'[h]
                              /\ mtime'[h] \in {0, lastTime'[h]}
  <1>1. mtime \in [Headers -> 0..MaxTime] /\ lastTime \in [Headers -> 0..MaxTime]
    BY DEF TypeOK
  <1>2. \A h \in Headers : mtime[h] \in {0, lastTime[h]}
    BY DEF TimesAdvance
  <1>3. PICK h \in Headers : \/ EditHeader(h) \/ RemoveHeader(h) \/ RestoreHeader(h)
                             \/ UNCHANGED <<mtime, lastTime>>
    BY DEF Edits, RemoveTableFile
  <1>4. CASE EditHeader(h)
    BY <1>1, <1>2, <1>4 DEF EditHeader
  <1>5. CASE RemoveHeader(h)
    BY <1>1, <1>2, <1>5 DEF RemoveHeader
  <1>6. CASE RestoreHeader(h)
    BY <1>1, <1>2, <1>6 DEF RestoreHeader
  <1>7. CASE UNCHANGED <<mtime, lastTime>>
    BY <1>1, <1>2, <1>7
  <1>8. QED
    BY <1>3, <1>4, <1>5, <1>6, <1>7

LEMMA TimesAdvanceStep ==
    ASSUME TypeOK, TimesAdvance, [Next]_vars
    PROVE  TimesAdvance'
  <1>1. \A h \in Headers : mtime[h] \in Nat /\ lastTime[h] \in Nat /\ seen[h] \in Nat
    BY DEF TypeOK
  <1>2. CASE Dies
    BY <1>1, <1>2, DeathLeavesNothing DEF Gone, TimesAdvance
  <1>3. CASE Edits
    BY <1>1, <1>3, EditsAdvance, EditsAreSeenLater DEF TimesAdvance
  <1>4. CASE StartRun
    BY <1>1, <1>4 DEF StartRun, TimesAdvance, diskVars
  <1>5. CASE MainGoesOn
    BY <1>5, MainLeavesHeaders DEF TimesAdvance
  <1>6. CASE \E w \in Workers : JobGoesOn(w)
    BY <1>6, JobsLeaveMain DEF TimesAdvance, historyVars
  <1>7. CASE UNCHANGED vars
    BY <1>7 DEF vars, diskVars, historyVars, TimesAdvance
  <1>8. QED
    BY <1>2, <1>3, <1>4, <1>5, <1>6, <1>7, StepCases

-----------------------------------------------------------------------------
(* The list and the batch *)

LEMMA FilesAreListedStep ==
    ASSUME TypeOK, FilesAreListed, [Next]_vars
    PROVE  FilesAreListed'
  <1>1. CASE Dies
    BY <1>1, DeathLeavesNothing DEF Gone, FilesAreListed
  <1>2. CASE Edits
    BY <1>2, EditsAreSeenLater DEF FilesAreListed
  <1>3. CASE StartRun
    <2>1. PICK input \in Inputs, force \in BOOLEAN :
             /\ opts' = [input |-> input, force |-> force]
             /\ files' \in Listings({h \in HeadersOf[input] : mtime[h] # 0})
      BY <1>3 DEF StartRun
    <2>2. {h \in HeadersOf[input] : mtime[h] # 0} \in SUBSET Headers
      OBVIOUS
    <2>3. /\ \A i \in 1..Len(files') : files'[i] \in HeadersOf[input]
          /\ \A i, j \in 1..Len(files') : i # j => files'[i] # files'[j]
      BY <2>1, <2>2, ListingsList
    <2>4. QED
      BY <2>1, <2>3 DEF FilesAreListed
  <1>4. CASE MainGoesOn
    BY <1>4, MainLeavesHeaders DEF FilesAreListed
  <1>5. CASE \E w \in Workers : JobGoesOn(w)
    BY <1>5, JobsLeaveMain DEF FilesAreListed
  <1>6. CASE UNCHANGED vars
    BY <1>6 DEF vars, FilesAreListed
  <1>7. QED
    BY <1>1, <1>2, <1>3, <1>4, <1>5, <1>6, StepCases

LEMMA BatchStep ==
    ASSUME TypeOK, BatchIsAccounted, JobsRunInScope, [Next]_vars
    PROVE  BatchIsAccounted' /\ JobsRunInScope'
  <1> USE DEF BatchIsAccounted, JobsRunInScope
  <1>0. /\ stage \in [Workers -> {"none", "lookup", "parse", "endless", "open", "write"}]
        /\ Len(tables) \in Nat /\ Len(files) \in Nat
        /\ tables \in Seq(Tables \cup {None})
    BY SMTT(30) DEF TypeOK
  <1>1. CASE Dies
    BY <1>1, DeathLeavesNothing DEF Gone, IdleJobs, IdlePool, AfterScope
  <1>2. CASE Edits
    <2>1. UNCHANGED <<main, files, tables, opened, stage, poolVars>>
      BY <1>2, EditsAreSeenLater DEF jobVars
    <2>2. QED
      BY <2>1 DEF poolVars
  <1>3. CASE StartRun
    <2>1. main = "idle" /\ main' \in {"idle", "load"} /\ UNCHANGED <<jobVars, poolVars>>
      BY <1>3 DEF StartRun
    <2>2. QED
      BY <2>1 DEF jobVars, poolVars, AfterScope
  <1>4. CASE LoadIndex
    <2>1. /\ main = "load" /\ main' = "scope"
          /\ tables' = [i \in 1..Len(files) |-> None] /\ size' = Len(files)
          /\ UNCHANGED <<files, opened, stage, submitted, started, current, finished>>
      BY <1>4 DEF LoadIndex, OpensScope
    <2>2. Len(tables') = Len(files)
      BY <1>0, <2>1
    <2>3. QED
      BY <1>0, <2>1, <2>2 DEF AfterScope
  <1>5. CASE SubmitJob
    BY <1>5 DEF SubmitJob, Pool!Submit, jobVars
  <1>6. CASE MissShutdown \/ LeaveScope
    <2>1. /\ main = "scope" /\ main' \in {"hung", "open_output"} /\ finished = 1..size
          /\ UNCHANGED <<files, tables, opened, stage, size, submitted, started,
                         current, finished>>
      BY <1>6 DEF MissShutdown, LeaveScope, Pool!Close, jobVars, poolVars
    <2>2. \A w \in Workers : current[w] = 0
      BY <2>1
    <2>3. QED
      BY <2>1, <2>2 DEF AfterScope
  <1>7. CASE OpenOutput \/ MissOutput \/ GenerateOutput \/ OpenIndex \/ WriteIndex
    <2>1. /\ main \in AfterScope /\ main' \in AfterScope \ {"open_output"}
          /\ main \in AfterScope \ {"open_output"} \/ main = "open_output"
          /\ UNCHANGED <<files, tables, stage, poolVars>>
          /\ opened' \in {opened, TRUE}
      BY <1>7 DEF OpenOutput, MissOutput, GenerateOutput, OpenIndex, WriteIndex, After,
                  AfterScope, jobVars
    <2>2. QED
      BY <2>1 DEF poolVars, AfterScope
  <1>8. ASSUME NEW w \in Workers, JobGoesOn(w)
        PROVE  BatchIsAccounted' /\ JobsRunInScope'
    <2>1. UNCHANGED <<main, files, opened, size, submitted>>
      BY <1>8, JobsLeaveMain
    <2>2. CASE TakeJob(w)
      BY <1>0, <2>1, <2>2 DEF TakeJob, Pool!Start, AfterScope
    <2>3. CASE ReuseTable(w) \/ WriteTableFile(w)
      <3>1. /\ stage[w] # "none" /\ stage' = [stage EXCEPT ![w] = "none"]
            /\ finished' = finished \cup {current[w]}
            /\ current' = [current EXCEPT ![w] = 0]
            /\ UNCHANGED <<submitted, started>>
        BY <2>3 DEF ReuseTable, WriteTableFile, Pool!Finish
      <3>2. Len(tables') = Len(tables)
        BY <1>0, <2>3 DEF ReuseTable, WriteTableFile
      <3>3. current[w] # 0 /\ current[w] \in 1..started /\ main = "scope"
        BY <3>1
      <3>4. finished' \subseteq 1..started'
        BY <3>1, <3>3
      <3>5. /\ current' \in [Workers -> Nat]
            /\ \A v \in Workers : current'[v] = IF v = w THEN 0 ELSE current[v]
        BY <3>1
      <3>6. \A v \in Workers : current'[v] <= started' /\ current'[v] \notin finished'
        BY <3>1, <3>3, <3>5
      <3>7. \A u, v \in Workers : u # v /\ current'[u] # 0 => current'[u] # current'[v]
        BY <3>5
      <3>8. \A v \in Workers : stage'[v] = IF v = w THEN "none" ELSE stage[v]
        BY <1>0, <3>1
      <3>9. QED
        BY <2>1, <3>1, <3>2, <3>3, <3>4, <3>5, <3>6, <3>7, <3>8 DEF AfterScope
    <2>4. CASE MissTable(w) \/ ParseHeader(w) \/ ParseForever(w) \/ OpenTableFile(w)
      <3>1. /\ stage[w] # "none" /\ \E s \in {"parse", "endless", "open", "write"} :
                                       stage' = [stage EXCEPT ![w] = s]
            /\ UNCHANGED <<submitted, started, current, finished>>
        BY <2>4 DEF MissTable, ParseHeader, ParseForever, OpenTableFile, poolVars
      <3>2. Len(tables') = Len(tables)
        BY <1>0, <2>4 DEF MissTable, ParseHeader, ParseForever, OpenTableFile
      <3>3. QED
        BY <1>0, <2>1, <3>1, <3>2 DEF AfterScope
    <2>5. QED
      BY <1>8, <2>2, <2>3, <2>4 DEF JobGoesOn
  <1>9. CASE UNCHANGED vars
    BY <1>9 DEF vars, jobVars, poolVars
  <1>10. QED
    BY <1>1, <1>2, <1>3, <1>4, <1>5, <1>6, <1>7, <1>8, <1>9, StepCases DEF MainGoesOn

-----------------------------------------------------------------------------
(* Tables are not older than the names they are stored under *)

LEMMA HashStep ==
    ASSUME TypeOK, TimesAdvance, FilesAreListed, BatchIsAccounted, JobsRunInScope,
           HashIsOfThisRun, [Next]_vars
    PROVE  HashIsOfThisRun'
  <1> USE DEF HashIsOfThisRun, Header
  <1>0. /\ stage \in [Workers -> {"none", "lookup", "parse", "endless", "open", "write"}]
        /\ hash \in [Workers -> 0..MaxTime] /\ current \in [Workers -> Nat]
        /\ lastTime \in [Headers -> 0..MaxTime] /\ mtime \in [Headers -> 0..MaxTime]
        /\ seen \in [Headers -> 0..MaxTime]
    BY DEF TypeOK, BatchIsAccounted
  <1>1. CASE Dies
    BY <1>1, DeathLeavesNothing DEF Gone, IdleJobs
  <1>2. CASE Edits
    <2>1. \A h \in Headers : lastTime[h] \in Nat /\ lastTime'[h] \in Nat
                             /\ lastTime[h] <= lastTime'[h]
      BY <1>2, EditsAdvance
    <2>2. UNCHANGED <<files, current, stage, hash, seen>>
      BY <1>2, EditsAreSeenLater DEF jobVars, poolVars
    <2>3. \A w \in Workers : stage[w] # "none" => files[current[w]] \in Headers
      BY JobsAreListed
    <2>4. QED
      BY <1>0, <2>1, <2>2, <2>3 DEF Times
  <1>3. CASE StartRun
    BY <1>3 DEF StartRun, JobsRunInScope, jobVars
  <1>4. CASE MainGoesOn
    BY <1>4, MainLeavesHeaders
  <1>5. ASSUME NEW w \in Workers, JobGoesOn(w)
        PROVE  HashIsOfThisRun'
    <2>1. UNCHANGED <<mtime, lastTime, files, seen>>
      BY <1>5, JobsLeaveMain DEF historyVars
    <2>2. CASE TakeJob(w)
      <3>1. /\ files[started + 1] \in Headers /\ mtime[files[started + 1]] # 0
            /\ current' = [current EXCEPT ![w] = started + 1]
            /\ hash' = [hash EXCEPT ![w] = mtime[files[started + 1]]]
            /\ stage' = [stage EXCEPT ![w] = "lookup"]
        BY <2>2, NextJobIsListed DEF TakeJob, Pool!Start
      <3>2. /\ mtime[files[started + 1]] = lastTime[files[started + 1]]
            /\ seen[files[started + 1]] <= lastTime[files[started + 1]]
        BY <3>1 DEF TimesAdvance
      <3>3. QED
        BY <1>0, <2>1, <3>1, <3>2 DEF Times
    <2>3. CASE ReuseTable(w) \/ WriteTableFile(w)
      BY <1>0, <2>1, <2>3 DEF ReuseTable, WriteTableFile, Pool!Finish
    <2>4. CASE MissTable(w) \/ ParseHeader(w) \/ ParseForever(w) \/ OpenTableFile(w)
      BY <1>0, <2>1, <2>4 DEF MissTable, ParseHeader, ParseForever, OpenTableFile, poolVars
    <2>5. QED
      BY <1>5, <2>2, <2>3, <2>4 DEF JobGoesOn
  <1>6. CASE UNCHANGED vars
    BY <1>6 DEF vars, diskVars, jobVars, poolVars, historyVars
  <1>7. QED
    BY <1>1, <1>2, <1>3, <1>4, <1>5, <1>6, StepCases

LEMMA ParsedStep ==
    ASSUME TypeOK, TimesAdvance, FilesAreListed, BatchIsAccounted, JobsRunInScope,
           HashIsOfThisRun, ParsedIsNotOlder, [Next]_vars
    PROVE  ParsedIsNotOlder'
  <1> USE DEF ParsedIsNotOlder, Job
  <1>0. /\ stage \in [Workers -> {"none", "lookup", "parse", "endless", "open", "write"}]
        /\ hash \in [Workers -> 0..MaxTime] /\ current \in [Workers -> Nat]
        /\ tables \in Seq(Tables \cup {None})
    BY DEF TypeOK, BatchIsAccounted
  <1>1. CASE Dies
    BY <1>1, DeathLeavesNothing DEF Gone, IdleJobs
  <1>2. CASE Edits
    BY <1>2, EditsAreSeenLater DEF jobVars, poolVars
  <1>3. CASE StartRun
    BY <1>3 DEF StartRun, jobVars, poolVars
  <1>4. CASE LoadIndex
    BY <1>4 DEF LoadIndex, JobsRunInScope
  <1>5. CASE MainGoesOn /\ ~LoadIndex
    <2>1. UNCHANGED <<stage, hash, current>>
      BY <1>5, MainLeavesHeaders
    <2>2. UNCHANGED tables
      BY <1>5 DEF MainGoesOn, SubmitJob, MissShutdown, LeaveScope, OpenOutput, MissOutput,
                  GenerateOutput, OpenIndex, WriteIndex, jobVars
    <2>3. QED
      BY <2>1, <2>2
  <1>6. ASSUME NEW w \in Workers, JobGoesOn(w)
        PROVE  ParsedIsNotOlder'
    <2>0. \A v \in Workers : v # w /\ stage[v] # "none" => current[v] # current[w]
      BY DEF BatchIsAccounted, JobsRunInScope
    <2>1. CASE TakeJob(w)
      BY <1>0, <2>1 DEF TakeJob, Pool!Start
    <2>2. CASE ReuseTable(w)
      <3>1. \A v \in Workers : v # w /\ stage[v] # "none" =>
               tables'[current[v]] = tables[current[v]]
        BY <1>0, <2>0, <2>2, JobsAreListed DEF ReuseTable
      <3>2. QED
        BY <1>0, <2>2, <3>1 DEF ReuseTable, Pool!Finish
    <2>3. CASE ParseHeader(w)
      <3>1. \A v \in Workers : v # w /\ stage[v] # "none" =>
               tables'[current[v]] = tables[current[v]]
        BY <1>0, <2>0, <2>3, JobsAreListed DEF ParseHeader
      <3>2. /\ stage[w] = "parse" /\ Header(w) \in Headers
            /\ current[w] \in 1..Len(tables)
        BY <2>3, JobsAreListed DEF ParseHeader
      <3>3. mtime[Header(w)] # 0 => mtime[Header(w)] >= hash[w]
        BY <3>2 DEF TimesAdvance, HashIsOfThisRun
      <3>4. tables'[current[w]] # None => tables'[current[w]].time >= hash[w]
        BY <1>0, <2>3, <3>2, <3>3 DEF ParseHeader
      <3>5. QED
        BY <1>0, <2>3, <3>1, <3>4 DEF ParseHeader, poolVars
    <2>4. CASE MissTable(w) \/ ParseForever(w) \/ OpenTableFile(w)
      BY <1>0, <2>4 DEF MissTable, ParseForever, OpenTableFile, poolVars
    <2>5. CASE WriteTableFile(w)
      BY <1>0, <2>5 DEF WriteTableFile, Pool!Finish
    <2>6. QED
      BY <1>6, <2>1, <2>2, <2>3, <2>4, <2>5 DEF JobGoesOn
  <1>7. CASE UNCHANGED vars
    BY <1>7 DEF vars, jobVars, poolVars
  <1>8. QED
    BY <1>1, <1>2, <1>3, <1>4, <1>5, <1>6, <1>7, StepCases DEF MainGoesOn

\* Which cache files a step sets, and to what.
LEMMA OpenedFile ==
    ASSUME TypeOK, FilesAreListed, BatchIsAccounted, JobsRunInScope, HashIsOfThisRun,
           NEW w \in Workers, OpenTableFile(w)
    PROVE  \A h \in Headers, t \in Times :
              tableFile'[h][t] = IF h = Header(w) /\ t = hash[w] THEN Partial
                                 ELSE tableFile[h][t]
  <1>1. Header(w) \in Headers /\ hash[w] \in Times
    BY JobsAreListed DEF OpenTableFile, HashIsOfThisRun
  <1>2. tableFile' = [tableFile EXCEPT ![Header(w)][hash[w]] = Partial]
    BY DEF OpenTableFile, SetTableFile
  <1>3. Partial \in Tables \cup {None, Partial} /\ tableFile \in FileTypes
    BY DEF TypeOK, FileTypes
  <1>4. QED
    BY <1>1, <1>2, <1>3 DEF FileTypes

LEMMA WrittenFile ==
    ASSUME TypeOK, FilesAreListed, BatchIsAccounted, JobsRunInScope, HashIsOfThisRun,
           ParsedIsNotOlder, NEW w \in Workers, WriteTableFile(w)
    PROVE  /\ tables[Job(w)] \in Tables /\ tables[Job(w)].time >= hash[w]
           /\ Stored(tables[Job(w)]) \in Tables
           /\ Stored(tables[Job(w)]).time = tables[Job(w)].time
           /\ \A h \in Headers, t \in Times :
                 tableFile'[h][t] = IF /\ h = Header(w) /\ t = hash[w]
                                       /\ CachedTable(w) # None
                                    THEN Stored(tables[Job(w)])
                                    ELSE tableFile[h][t]
  <1>1. /\ Header(w) \in Headers /\ hash[w] \in Times
        /\ tables[Job(w)] # None /\ Job(w) \in 1..Len(tables)
    BY JobsAreListed DEF WriteTableFile, HashIsOfThisRun
  <1>2. tables[Job(w)] \in Tables
    BY <1>1 DEF TypeOK
  <1>3. tables[Job(w)].time >= hash[w]
    BY <1>1 DEF ParsedIsNotOlder, WriteTableFile
  <1>4. /\ Stored(tables[Job(w)]) \in Tables
        /\ Stored(tables[Job(w)]).time = tables[Job(w)].time
    BY <1>2, TableTimes DEF Stored
  <1>5. tableFile \in FileTypes
    BY DEF TypeOK, FileTypes
  <1>6. CASE CachedTable(w) = None
    BY <1>2, <1>3, <1>4, <1>6 DEF WriteTableFile
  <1>7. CASE CachedTable(w) # None
    <2>1. tableFile' = [tableFile EXCEPT ![Header(w)][hash[w]] = Stored(tables[Job(w)])]
      BY <1>7 DEF WriteTableFile, SetTableFile
    <2>2. Stored(tables[Job(w)]) \in Tables \cup {None, Partial}
      BY <1>4
    <2>3. \A h \in Headers, t \in Times :
             tableFile'[h][t] = IF h = Header(w) /\ t = hash[w] THEN Stored(tables[Job(w)])
                                ELSE tableFile[h][t]
      BY <1>1, <1>5, <2>1, <2>2 DEF FileTypes
    <2>4. QED
      BY <1>2, <1>3, <1>4, <1>7, <2>3
  <1>8. QED
    BY <1>6, <1>7

LEMMA EditedFiles ==
    ASSUME TypeOK, Edits, NEW h \in Headers, NEW t \in Times
    PROVE  tableFile'[h][t] \in {tableFile[h][t], None}
  <1>1. CASE \E g \in Headers, u \in Times : RemoveTableFile(g, u)
    <2>1. PICK g \in Headers, u \in Times : tableFile' = [tableFile EXCEPT ![g][u] = None]
      BY <1>1 DEF RemoveTableFile
    <2>2. tableFile \in FileTypes /\ None \in Tables \cup {None, Partial}
      BY DEF TypeOK, FileTypes
    <2>3. QED
      BY <2>1, <2>2, OneFileIsSet
  <1>2. CASE tableFile' = tableFile
    BY <1>2
  <1>3. QED
    BY <1>1, <1>2 DEF Edits, EditHeader, RemoveHeader, RestoreHeader

LEMMA OthersLeaveFiles ==
    ASSUME \/ Dies \/ StartRun \/ MainGoesOn \/ UNCHANGED vars
           \/ \E w \in Workers : \/ TakeJob(w) \/ ReuseTable(w) \/ MissTable(w)
                                \/ ParseHeader(w) \/ ParseForever(w)
    PROVE  tableFile' = tableFile
  BY DeathLeavesNothing, MainLeavesHeaders
     DEF Gone, StartRun, TakeJob, ReuseTable, MissTable, ParseHeader, ParseForever, vars,
         diskVars

LEMMA CacheFileStep ==
    ASSUME TypeOK, FilesAreListed, BatchIsAccounted, JobsRunInScope, HashIsOfThisRun,
           ParsedIsNotOlder, CacheFileIsNotStale, [Next]_vars
    PROVE  CacheFileIsNotStale'
  <1> SUFFICES ASSUME NEW h \in Headers, NEW t \in Times, tableFile'[h][t] \in Tables
               PROVE  tableFile'[h][t].time >= t
    BY DEF CacheFileIsNotStale
  <1> USE KindsDiffer
  <1>1. CASE tableFile' = tableFile
    BY <1>1 DEF CacheFileIsNotStale
  <1>2. CASE Edits
    BY <1>2, EditedFiles DEF CacheFileIsNotStale
  <1>3. CASE \E w \in Workers : OpenTableFile(w)
    BY <1>3, OpenedFile DEF CacheFileIsNotStale
  <1>4. CASE \E w \in Workers : WriteTableFile(w)
    BY <1>4, WrittenFile DEF CacheFileIsNotStale
  <1>5. QED
    BY <1>1, <1>2, <1>3, <1>4, StepCases, OthersLeaveFiles DEF JobGoesOn

LEMMA FinishedStep ==
    ASSUME TypeOK, TimesAdvance, FilesAreListed, BatchIsAccounted, JobsRunInScope,
           HashIsOfThisRun, ParsedIsNotOlder, CacheFileIsNotStale, FinishedIsFresh, [Next]_vars
    PROVE  FinishedIsFresh'
  <1> USE KindsDiffer DEF FinishedIsFresh, Job
  <1>0. tables \in Seq(Tables \cup {None}) /\ finished \subseteq 1..Len(tables)
    BY DEF TypeOK, BatchIsAccounted
  <1>1. CASE main \in {"idle", "load"} /\ UNCHANGED finished
    BY <1>1 DEF BatchIsAccounted
  <1>2. CASE Dies
    BY <1>2, DeathLeavesNothing DEF Gone, IdlePool
  <1>3. CASE Edits \/ UNCHANGED vars
    BY <1>3, EditsAreSeenLater DEF vars, jobVars, poolVars, historyVars
  <1>4. CASE StartRun
    BY <1>1, <1>4 DEF StartRun, poolVars
  <1>5. CASE MainGoesOn
    <2>1. UNCHANGED <<finished, files, seen>>
      BY <1>5, MainLeavesHeaders
    <2>2. CASE LoadIndex
      BY <1>1, <2>1, <2>2 DEF LoadIndex
    <2>3. CASE ~LoadIndex
      BY <1>5, <2>1, <2>3
         DEF MainGoesOn, SubmitJob, MissShutdown, LeaveScope, OpenOutput, MissOutput,
             GenerateOutput, OpenIndex, WriteIndex, jobVars
    <2>4. QED
      BY <2>2, <2>3
  <1>6. ASSUME NEW w \in Workers, JobGoesOn(w)
        PROVE  FinishedIsFresh'
    <2>1. UNCHANGED <<files, seen>>
      BY <1>6, JobsLeaveMain DEF historyVars
    <2>2. current[w] \notin finished
      BY DEF BatchIsAccounted
    <2>3. stage[w] # "none" => /\ hash[w] \in Times /\ Header(w) \in Headers
                               /\ seen[Header(w)] <= hash[w] /\ Header(w) = files[current[w]]
                               /\ current[w] \in 1..Len(tables)
                               /\ seen[Header(w)] \in Nat
      <3>1. seen \in [Headers -> 0..MaxTime]
        BY DEF TypeOK
      <3>2. QED
        BY <3>1, JobsAreListed DEF HashIsOfThisRun, Header
    <2>4. CASE TakeJob(w) \/ MissTable(w) \/ ParseForever(w) \/ OpenTableFile(w)
      BY <2>1, <2>4 DEF TakeJob, MissTable, ParseForever, OpenTableFile, Pool!Start, poolVars
    <2>5. CASE ReuseTable(w)
      <3>1. /\ CachedTable(w) \in Tables /\ CachedTable(w).time >= hash[w]
        BY <2>3, <2>5 DEF ReuseTable, CachedTable, CacheFileIsNotStale
      <3>2. CachedTable(w).time \in Nat
        BY <3>1, TableTimes DEF Times
      <3>3. tables' = [tables EXCEPT ![current[w]] = CachedTable(w)]
            /\ finished' = finished \cup {current[w]}
        BY <2>5 DEF ReuseTable, Pool!Finish
      <3>4. stage[w] # "none"
        BY <2>5 DEF ReuseTable
      <3>5. tables'[current[w]].time >= seen[files[current[w]]] /\ tables'[current[w]] # None
        BY <1>0, <2>3, <3>1, <3>2, <3>3, <3>4 DEF Times
      <3>6. \A i \in finished : tables'[i] = tables[i]
        BY <1>0, <2>2, <3>3
      <3>7. QED
        BY <2>1, <3>3, <3>5, <3>6
    <2>6. CASE ParseHeader(w)
      <3>1. \A i \in finished : tables'[i] = tables[i]
        BY <1>0, <2>2, <2>6 DEF ParseHeader
      <3>2. QED
        BY <2>1, <2>6, <3>1 DEF ParseHeader, poolVars
    <2>7. CASE WriteTableFile(w)
      <3>1. tables[current[w]] \in Tables /\ tables[current[w]].time >= hash[w]
        BY <2>7, WrittenFile
      <3>2. tables[current[w]].time \in Nat
        BY <3>1, TableTimes DEF Times
      <3>3. stage[w] # "none" /\ tables' = tables /\ finished' = finished \cup {current[w]}
        BY <2>7 DEF WriteTableFile, Pool!Finish
      <3>4. tables[current[w]].time >= seen[files[current[w]]]
        BY <2>3, <3>1, <3>2, <3>3 DEF Times
      <3>5. QED
        BY <2>1, <3>1, <3>3, <3>4
    <2>8. QED
      BY <1>6, <2>4, <2>5, <2>6, <2>7 DEF JobGoesOn
  <1>7. QED
    BY <1>2, <1>3, <1>4, <1>5, <1>6, StepCases

LEMMA GeneratedStep ==
    ASSUME TypeOK, JobsRunInScope, GeneratedIsTables, [Next]_vars
    PROVE  GeneratedIsTables'
  <1> USE DEF GeneratedIsTables
  <1>1. CASE UNCHANGED <<main, files, tables, opened, output>>
    BY <1>1 DEF TableFor
  <1>2. CASE Dies
    BY <1>2, DeathLeavesNothing DEF Gone
  <1>3. CASE Edits \/ UNCHANGED vars
    BY <1>1, <1>3, EditsAreSeenLater DEF vars, diskVars, jobVars
  <1>4. CASE StartRun
    BY <1>4 DEF StartRun
  <1>5. CASE LoadIndex \/ SubmitJob \/ MissShutdown \/ LeaveScope \/ OpenOutput \/ MissOutput
    BY <1>5 DEF LoadIndex, OpensScope, SubmitJob, MissShutdown, LeaveScope, OpenOutput,
                MissOutput, After
  <1>6. CASE GenerateOutput
    <2>1. \A h \in Headers : TableFor(h)' = TableFor(h)
      BY <1>6 DEF GenerateOutput, TableFor, jobVars
    <2>2. opened' = opened
      BY <1>6 DEF GenerateOutput, jobVars
    <2>3. opened => output' = [kind |-> "unclosed", of |-> [h \in Headers |-> TableFor(h)]]
      BY <1>6 DEF GenerateOutput
    <2>4. QED
      BY <2>1, <2>2, <2>3
  <1>7. CASE OpenIndex \/ WriteIndex
    <2>1. /\ main \in {"open_index", "write_index"}
          /\ UNCHANGED <<files, tables, opened, output>>
      BY <1>7 DEF OpenIndex, WriteIndex, After, jobVars
    <2>2. QED
      BY <2>1 DEF TableFor
  <1>8. CASE \E w \in Workers : JobGoesOn(w)
    <2>1. main = "scope"
      BY <1>8 DEF JobGoesOn, TakeJob, ReuseTable, MissTable, ParseHeader, ParseForever,
                  OpenTableFile, WriteTableFile, JobsRunInScope
    <2>2. QED
      BY <1>8, <2>1, JobsLeaveMain
  <1>9. QED
    BY <1>2, <1>3, <1>4, <1>5, <1>6, <1>7, <1>8, StepCases DEF MainGoesOn

-----------------------------------------------------------------------------
(* A file is cut off only while it is written, or by a death *)

LEMMA OneJobPerHeader ==
    ASSUME TypeOK, FilesAreListed, BatchIsAccounted, JobsRunInScope,
           NEW v \in Workers, NEW w \in Workers,
           stage[v] # "none", stage[w] # "none", Header(v) = Header(w)
    PROVE  v = w
  <1>1. Job(v) \in 1..Len(files) /\ Job(w) \in 1..Len(files)
    BY JobsAreListed
  <1>2. current[v] = current[w] /\ current[v] # 0
    BY <1>1 DEF FilesAreListed, Header, Job, JobsRunInScope
  <1>3. QED
    BY <1>2 DEF BatchIsAccounted

LEMMA NothingIsMalformed ==
    ASSUME TypeOK, FilesAreListed, BatchIsAccounted, JobsRunInScope, HashIsOfThisRun,
           CutOffWhileWritten, ~died
    PROVE  ~LoadMalformedIndex /\ \A w \in Workers : ~ReadMalformedTable(w)
  <1>1. ~LoadMalformedIndex
    BY DEF LoadMalformedIndex, CutOffWhileWritten
  <1>2. ASSUME NEW w \in Workers, ReadMalformedTable(w)
        PROVE  FALSE
    <2>1. /\ stage[w] = "lookup" /\ Header(w) \in Headers /\ hash[w] \in Times
          /\ tableFile[Header(w)][hash[w]] = Partial
      BY <1>2, JobsAreListed DEF ReadMalformedTable, CachedTable, HashIsOfThisRun
    <2>2. PICK v \in Workers : stage[v] = "write" /\ Header(v) = Header(w)
      BY <2>1 DEF CutOffWhileWritten
    <2>3. v = w
      BY <2>1, <2>2, OneJobPerHeader
    <2>4. QED
      BY <2>1, <2>2, <2>3
  <1>3. QED
    BY <1>1, <1>2

LEMMA OnlyDeathsStep ==
    ASSUME TypeOK, FilesAreListed, BatchIsAccounted, JobsRunInScope, HashIsOfThisRun,
           CutOffWhileWritten, OnlyDeathsSpoilCache, [Next]_vars
    PROVE  OnlyDeathsSpoilCache'
  <1> USE DEF OnlyDeathsSpoilCache
  <1>0. died \in BOOLEAN
    BY DEF TypeOK
  <1>1. CASE LoadMalformedIndex \/ \E w \in Workers : ReadMalformedTable(w)
    <2>1. died /\ died'
      BY <1>0, <1>1, NothingIsMalformed
         DEF LoadMalformedIndex, ReadMalformedTable, Aborts, ProcessEnds
    <2>2. QED
      BY <2>1
  <1>2. CASE \/ Kill \/ CloseOutput
             \/ \E w \in Workers : HashOfMissingHeader(w) \/ WriteNullTable(w)
    BY <1>2 DEF Kill, CloseOutput, HashOfMissingHeader, WriteNullTable, Aborts, ProcessEnds
  <1>3. CASE StartRun
    BY <1>3 DEF StartRun
  <1>4. CASE Edits \/ MainGoesOn \/ (\E w \in Workers : JobGoesOn(w)) \/ UNCHANGED vars
    BY <1>4, EditsAreSeenLater, MainLeavesHeaders, JobsLeaveMain DEF vars, historyVars
  <1>5. QED
    BY <1>1, <1>2, <1>3, <1>4, StepCases DEF Dies

LEMMA CutOffStep ==
    ASSUME TypeOK, FilesAreListed, BatchIsAccounted, JobsRunInScope, HashIsOfThisRun,
           ParsedIsNotOlder, CutOffWhileWritten, [Next]_vars
    PROVE  CutOffWhileWritten'
  <1> USE KindsDiffer
  <1>0. /\ died \in BOOLEAN /\ current \in [Workers -> Nat]
        /\ stage \in [Workers -> {"none", "lookup", "parse", "endless", "open", "write"}]
        /\ hash \in [Workers -> 0..MaxTime]
    BY DEF TypeOK, BatchIsAccounted
  <1> DEFINE Writes(h, t) ==
                \E w \in Workers : stage[w] = "write" /\ Header(w) = h /\ hash[w] = t
  <1> SUFFICES ASSUME ~died'
               PROVE  /\ \A h \in Headers, t \in Times :
                            tableFile'[h][t] = Partial => Writes(h, t)'
                      /\ indexFile' = Partial => main' = "write_index"
    BY DEF CutOffWhileWritten
  <1>1. ~died
    BY <1>0, StepCases, EditsAreSeenLater, MainLeavesHeaders, JobsLeaveMain
       DEF Dies, Kill, LoadMalformedIndex, CloseOutput, HashOfMissingHeader,
           ReadMalformedTable, WriteNullTable, Aborts, ProcessEnds, StartRun,
           vars, historyVars
  <1>2. /\ \A h \in Headers, t \in Times : tableFile[h][t] = Partial => Writes(h, t)
        /\ indexFile = Partial => main = "write_index"
    BY <1>1 DEF CutOffWhileWritten
  <1> HIDE DEF Writes
  <1>3. CASE Dies
    <2>1. CloseOutput
      BY <1>1, <1>3, NothingIsMalformed
         DEF Dies, Kill, HashOfMissingHeader, WriteNullTable, Aborts, ProcessEnds
    <2>2. UNCHANGED <<tableFile, indexFile>> /\ main = "close_output"
      BY <2>1 DEF CloseOutput
    <2>3. \A h \in Headers, t \in Times : ~Writes(h, t)
      BY <2>2 DEF JobsRunInScope, Writes
    <2>4. QED
      BY <1>2, <2>2, <2>3
  <1>4. CASE Edits \/ UNCHANGED vars
    <2>1. UNCHANGED <<indexFile, main, files, stage, hash, current>>
      BY <1>4, EditsAreSeenLater DEF vars, diskVars, jobVars, poolVars
    <2>2. \A h \in Headers, t \in Times : tableFile'[h][t] \in {tableFile[h][t], None}
      BY <1>4, EditedFiles DEF vars, diskVars
    <2>3. QED
      BY <1>2, <2>1, <2>2 DEF Writes, Header
  <1>5. CASE StartRun
    <2>1. \A h \in Headers, t \in Times : ~Writes(h, t)
      BY <1>5 DEF StartRun, JobsRunInScope, Writes
    <2>2. QED
      BY <1>2, <1>5, <2>1 DEF StartRun, diskVars
  <1>6. CASE MainGoesOn
    <2>1. UNCHANGED <<tableFile, files, stage, hash, current>>
      BY <1>6, MainLeavesHeaders
    <2>2. indexFile' = Partial => main' = "write_index"
      BY <1>2, <1>6 DEF MainGoesOn, LoadIndex, SubmitJob, MissShutdown, LeaveScope,
                        OpenOutput, MissOutput, GenerateOutput, OpenIndex, WriteIndex,
                        After, diskVars, TypeOK
    <2>3. QED
      BY <1>2, <2>1, <2>2 DEF Writes, Header
  <1>7. ASSUME NEW w \in Workers, JobGoesOn(w)
        PROVE  /\ \A h \in Headers, t \in Times : tableFile'[h][t] = Partial => Writes(h, t)'
               /\ indexFile' = Partial => main' = "write_index"
    <2>0. UNCHANGED <<indexFile, main, files>>
      BY <1>7, JobsLeaveMain
    <2>1. ASSUME NEW v \in Workers, stage[v] = "write", v # w
          PROVE  stage'[v] = "write" /\ Header(v)' = Header(v) /\ hash'[v] = hash[v]
      BY <1>0, <1>7, <2>0, <2>1
         DEF JobGoesOn, TakeJob, ReuseTable, MissTable, ParseHeader, ParseForever,
             OpenTableFile, WriteTableFile, Pool!Start, Pool!Finish, poolVars, Header
    <2>2. CASE TakeJob(w) \/ ReuseTable(w) \/ MissTable(w) \/ ParseHeader(w) \/ ParseForever(w)
      <3>1. stage[w] # "write" /\ stage'[w] # "write"
        BY <1>0, <2>2 DEF TakeJob, ReuseTable, MissTable, ParseHeader, ParseForever, Pool!Start,
                          JobsRunInScope
      <3>2. tableFile' = tableFile
        BY <2>2, OthersLeaveFiles
      <3>3. QED
        BY <1>2, <2>0, <2>1, <3>1, <3>2 DEF Writes
    <2>3. CASE OpenTableFile(w)
      <3>1. stage[w] # "write" /\ stage'[w] = "write" /\ hash'[w] = hash[w]
            /\ Header(w)' = Header(w)
        BY <1>0, <2>0, <2>3 DEF OpenTableFile, poolVars, Header
      <3>2. QED
        BY <1>2, <2>0, <2>1, <2>3, <3>1, OpenedFile DEF Writes
    <2>4. CASE WriteTableFile(w)
      <3>1. ASSUME NEW h \in Headers, NEW t \in Times, tableFile'[h][t] = Partial
            PROVE  Writes(h, t)'
        <4>1. /\ tableFile'[h][t] = tableFile[h][t]
              /\ ~(h = Header(w) /\ t = hash[w])
          BY <2>4, <3>1, WrittenFile DEF CachedTable
        <4>2. PICK v \in Workers : stage[v] = "write" /\ Header(v) = h /\ hash[v] = t
          BY <1>2, <3>1, <4>1 DEF Writes
        <4>3. v # w
          BY <4>1, <4>2
        <4>4. QED
          BY <2>1, <4>2, <4>3 DEF Writes
      <3>2. QED
        BY <1>2, <2>0, <3>1
    <2>5. QED
      BY <1>7, <2>2, <2>3, <2>4 DEF JobGoesOn
  <1>8. QED
    BY <1>3, <1>4, <1>5, <1>6, <1>7, StepCases

-----------------------------------------------------------------------------
(* The entries of the index *)

\* What a job that writes its table adds to the index.
LEMMA EntryIsAdded ==
    ASSUME TypeOK, NEW w \in Workers, WriteTableFile(w), Header(w) \in Headers
    PROVE  /\ cached'.input = cached.input
           /\ \A h \in Headers :
                 cached'.table[h] = IF h = Header(w) THEN hash[w] ELSE cached.table[h]
  <1>1. cached.table \in [Headers -> 0..MaxTime] /\ cached \in Indices
    BY DEF TypeOK, Indices
  <1>2. cached' = [cached EXCEPT !.table = [cached.table EXCEPT ![Header(w)] = hash[w]]]
    BY DEF WriteTableFile, WithEntry
  <1>3. cached'.input = cached.input /\ cached'.table = [cached.table EXCEPT ![Header(w)] = hash[w]]
    BY <1>1, <1>2 DEF Indices
  <1>4. QED
    BY <1>1, <1>3

\* What the index is when main() has loaded it.
LEMMA LoadedIndex ==
    ASSUME TypeOK, LoadIndex
    PROVE  \/ cached' = EmptyIndex
           \/ /\ indexFile \in Indices /\ cached' = indexFile
              /\ indexFile.input = InputHash[opts.input]
  <1>1. indexFile = None \/ indexFile \in Indices
    BY DEF TypeOK, LoadIndex
  <1>2. QED
    BY <1>1 DEF LoadIndex, ResetIfOther

LEMMA SavedInput ==
    ASSUME TypeOK, OpenIndex
    PROVE  cached'.table = cached.table /\ cached'.input = InputHash[opts.input]
  BY DEF TypeOK, OpenIndex, NewInputHash, Indices

LEMMA IndexStep ==
    ASSUME TypeOK, FilesAreListed, BatchIsAccounted, JobsRunInScope, CachedIsOfInput,
           IndexIsOfItsInput, [Next]_vars
    PROVE  CachedIsOfInput' /\ IndexIsOfItsInput'
  <1> USE KindsDiffer
  <1> DEFINE Named(h, input) == \E i \in Inputs : InputHash[i] = input /\ h \in HeadersOf[i]
  <1>0. /\ main \notin {"idle", "load"} =>
              \A h \in Headers : cached.table[h] # 0 => Named(h, InputHash[opts.input])
        /\ main \in {"write_index", "close_output"} => cached.input = InputHash[opts.input]
        /\ indexFile \in Indices =>
              \A h \in Headers : indexFile.table[h] # 0 => Named(h, indexFile.input)
    BY DEF CachedIsOfInput, IndexIsOfItsInput
  <1> SUFFICES
        /\ main' \notin {"idle", "load"} =>
              \A h \in Headers : cached'.table[h] # 0 => Named(h, InputHash[opts'.input])
        /\ main' \in {"write_index", "close_output"} =>
              cached'.input = InputHash[opts'.input]
        /\ indexFile' \in Indices =>
              \A h \in Headers : indexFile'.table[h] # 0 => Named(h, indexFile'.input)
    BY DEF CachedIsOfInput, IndexIsOfItsInput
  <1> HIDE DEF Named
  <1>1. CASE Dies
    <2>1. indexFile' = indexFile
      BY <1>1 DEF Dies, Kill, LoadMalformedIndex, CloseOutput, HashOfMissingHeader,
                  ReadMalformedTable, WriteNullTable, Aborts
    <2>2. QED
      BY <1>0, <1>1, <2>1, DeathLeavesNothing DEF Gone
  <1>2. CASE Edits \/ UNCHANGED vars
    BY <1>0, <1>2, EditsAreSeenLater DEF vars, diskVars
  <1>3. CASE StartRun
    BY <1>0, <1>3 DEF StartRun, diskVars
  <1>4. CASE LoadIndex
    <2>1. main' = "scope" /\ UNCHANGED <<indexFile, opts>>
      BY <1>4 DEF LoadIndex, OpensScope, diskVars
    <2>2. \A h \in Headers : cached'.table[h] # 0 => Named(h, InputHash[opts.input])
      BY <1>0, <1>4, LoadedIndex, EmptyIndexIsIndex
    <2>3. QED
      BY <1>0, <2>1, <2>2
  <1>5. CASE SubmitJob \/ MissShutdown \/ LeaveScope \/ OpenOutput \/ MissOutput \/ GenerateOutput
    <2>1. /\ main \notin {"idle", "load"} /\ main' \notin {"write_index", "close_output"}
          /\ UNCHANGED <<indexFile, opts, cached>>
      BY <1>5 DEF SubmitJob, MissShutdown, LeaveScope, OpenOutput, MissOutput, GenerateOutput,
                  After, diskVars
    <2>2. QED
      BY <1>0, <2>1
  <1>6. CASE OpenIndex
    <2>1. main = "open_index" /\ indexFile' = Partial /\ UNCHANGED opts
      BY <1>6 DEF OpenIndex, After
    <2>2. QED
      BY <1>0, <1>6, <2>1, SavedInput
  <1>7. CASE WriteIndex
    <2>1. main = "write_index" /\ indexFile' = cached /\ UNCHANGED <<opts, cached>>
      BY <1>7 DEF WriteIndex, After
    <2>2. QED
      BY <1>0, <2>1
  <1>8. ASSUME NEW w \in Workers, JobGoesOn(w), ~WriteTableFile(w)
        PROVE  UNCHANGED <<main, indexFile, opts, cached>>
    BY <1>8, JobsLeaveMain
       DEF JobGoesOn, TakeJob, ReuseTable, MissTable, ParseHeader, ParseForever, OpenTableFile
  <1>9. ASSUME NEW w \in Workers, WriteTableFile(w)
        PROVE  /\ main' \notin {"idle", "load", "write_index", "close_output"}
               /\ \A h \in Headers : cached'.table[h] # 0 => Named(h, InputHash[opts.input])
               /\ UNCHANGED <<indexFile, opts>>
    <2>1. /\ stage[w] # "none" /\ main = "scope"
          /\ Header(w) \in HeadersOf[opts.input] /\ Header(w) \in Headers
      BY <1>9, JobsAreListed DEF WriteTableFile
    <2>2. opts.input \in Inputs /\ Named(Header(w), InputHash[opts.input])
      BY <2>1 DEF FilesAreListed, Named
    <2>3. UNCHANGED <<main, indexFile, opts>>
      BY <1>9 DEF WriteTableFile
    <2>4. QED
      BY <1>0, <1>9, <2>1, <2>2, <2>3, EntryIsAdded
  <1>10. QED
    BY <1>0, <1>1, <1>2, <1>3, <1>4, <1>5, <1>6, <1>7, <1>8, <1>9, StepCases
       DEF MainGoesOn, JobGoesOn

-----------------------------------------------------------------------------
(* Runs that nobody disturbs *)

\* A job changes nothing of another one: they work on different headers.
LEMMA OtherJobsAreLeft ==
    ASSUME TypeOK, FilesAreListed, BatchIsAccounted, JobsRunInScope, HashIsOfThisRun,
           ParsedIsNotOlder,
           NEW w \in Workers, JobGoesOn(w), NEW v \in Workers, v # w, stage[v] # "none"
    PROVE  /\ stage'[v] = stage[v] /\ hash'[v] = hash[v]
           /\ Header(v)' = Header(v) /\ Job(v)' = Job(v)
           /\ tables'[Job(v)] = tables[Job(v)]
           /\ CachedTable(v)' = CachedTable(v)
  <1>0. /\ stage \in [Workers -> {"none", "lookup", "parse", "endless", "open", "write"}]
        /\ hash \in [Workers -> 0..MaxTime] /\ current \in [Workers -> Nat]
        /\ tables \in Seq(Tables \cup {None})
    BY DEF TypeOK, BatchIsAccounted
  <1>1. files' = files
    BY JobsLeaveMain
  <1>2. stage'[v] = stage[v] /\ hash'[v] = hash[v] /\ current'[v] = current[v]
    BY <1>0 DEF JobGoesOn, TakeJob, ReuseTable, MissTable, ParseHeader, ParseForever,
                OpenTableFile, WriteTableFile, Pool!Start, Pool!Finish, poolVars
  <1>3. Header(v)' = Header(v) /\ Job(v)' = Job(v)
    BY <1>1, <1>2 DEF Header, Job
  <1>4. Job(v) \in 1..Len(tables) /\ Header(v) \in Headers /\ hash[v] \in Times
    BY JobsAreListed DEF HashIsOfThisRun
  <1>5. Job(v) # Job(w)
    BY DEF BatchIsAccounted, JobsRunInScope, Job
  <1>6. tables'[Job(v)] = tables[Job(v)]
    BY <1>0, <1>4, <1>5 DEF JobGoesOn, TakeJob, ReuseTable, MissTable, ParseHeader,
                            ParseForever, OpenTableFile, WriteTableFile
  <1>7. tableFile'[Header(v)][hash[v]] = tableFile[Header(v)][hash[v]]
    <2>1. CASE OpenTableFile(w)
      <3>1. Header(v) # Header(w)
        BY <2>1, OneJobPerHeader DEF OpenTableFile
      <3>2. QED
        BY <1>4, <2>1, <3>1, OpenedFile
    <2>2. CASE WriteTableFile(w)
      <3>1. Header(v) # Header(w)
        BY <2>2, OneJobPerHeader DEF WriteTableFile
      <3>2. QED
        BY <1>4, <2>2, <3>1, WrittenFile
    <2>3. QED
      BY <2>1, <2>2, OthersLeaveFiles DEF JobGoesOn
  <1>8. QED
    BY <1>2, <1>3, <1>6, <1>7 DEF CachedTable

\* Nor does it change anything of the headers whose jobs are finished.
LEMMA FinishedAreLeft ==
    ASSUME TypeOK, FilesAreListed, BatchIsAccounted, JobsRunInScope, HashIsOfThisRun,
           ParsedIsNotOlder,
           NEW w \in Workers, JobGoesOn(w), NEW i \in finished, NEW t \in Times
    PROVE  /\ files[i] \in Headers
           /\ tableFile'[files[i]][t] = tableFile[files[i]][t]
           /\ cached'.table[files[i]] = cached.table[files[i]]
  <1>1. main = "scope"
    BY DEF JobGoesOn, TakeJob, ReuseTable, MissTable, ParseHeader, ParseForever, OpenTableFile,
           WriteTableFile, JobsRunInScope
  <1>2. i \in 1..Len(files) /\ i # current[w] /\ files[i] \in Headers
    <2>1. i \in 1..Len(files) /\ i # current[w]
      <3>1. /\ size \in Nat /\ submitted \in Nat /\ started \in Nat
            /\ submitted <= size /\ started <= submitted /\ size = Len(files)
            /\ finished \subseteq 1..started /\ current[w] \notin finished
        BY <1>1 DEF BatchIsAccounted
      <3>2. QED
        BY ONLY <3>1, i \in finished
    <2>2. files \in Seq(Headers)
      BY DEF TypeOK
    <2>3. QED
      BY <2>1, <2>2
  <1>3. CASE OpenTableFile(w)
    <2>1. Header(w) # files[i]
      BY <1>2, <1>3, JobsAreListed DEF OpenTableFile, FilesAreListed, Header, Job
    <2>2. cached' = cached
      BY <1>3 DEF OpenTableFile
    <2>3. QED
      BY <1>2, <1>3, <2>1, <2>2, OpenedFile
  <1>4. CASE WriteTableFile(w)
    <2>1. Header(w) # files[i] /\ Header(w) \in Headers
      BY <1>2, <1>4, JobsAreListed DEF WriteTableFile, FilesAreListed, Header, Job
    <2>2. QED
      BY <1>2, <1>4, <2>1, WrittenFile, EntryIsAdded
  <1>5. CASE TakeJob(w) \/ ReuseTable(w) \/ MissTable(w) \/ ParseHeader(w) \/ ParseForever(w)
    <2>1. cached' = cached
      BY <1>5 DEF TakeJob, ReuseTable, MissTable, ParseHeader, ParseForever
    <2>2. QED
      BY <1>2, <1>5, <2>1, OthersLeaveFiles
  <1>6. QED
    BY <1>3, <1>4, <1>5 DEF JobGoesOn

\* The parts of QuietRunCaches.
ListsAll == \A h \in HeadersOf[opts.input] :
               mtime[h] # 0 => \E i \in 1..Len(files) : files[i] = h
ListsExisting == \A i \in 1..Len(files) : mtime[files[i]] # 0
QuietJob(w) == /\ stage[w] # "none" => hash[w] = mtime[Header(w)]
               /\ stage[w] \in {"open", "write"} => tables[Job(w)] # None
               /\ stage[w] = "write" => CachedTable(w) # None
QuietFinish(i) == IsCached(cached, files[i])

LEMMA QuietParts ==
    QuietRunCaches <=> (quiet /\ main # "idle" =>
        /\ ListsAll /\ ListsExisting
        /\ \A w \in Workers : QuietJob(w)
        /\ \A i \in finished : QuietFinish(i)
        /\ main = "close_output" => indexFile = cached)
  BY DEF QuietRunCaches, ListsAll, ListsExisting, QuietJob, QuietFinish

\* Steps that touch neither the list, nor a header, nor a job keep the parts.
LEMMA QuietFrame ==
    ASSUME UNCHANGED <<mtime, tableFile, opts, files, tables, stage, hash, current, finished>>,
           cached'.table = cached.table
    PROVE  /\ ListsAll' <=> ListsAll
           /\ ListsExisting' <=> ListsExisting
           /\ \A w \in Workers : QuietJob(w)' <=> QuietJob(w)
           /\ \A i \in finished : QuietFinish(i)' <=> QuietFinish(i)
  BY DEF ListsAll, ListsExisting, QuietJob, QuietFinish, IsCached, Header, Job, CachedTable

LEMMA QuietJobStep ==
    ASSUME TypeOK, FilesAreListed, BatchIsAccounted, JobsRunInScope, HashIsOfThisRun,
           ParsedIsNotOlder, ListsExisting, NEW w \in Workers, QuietJob(w), JobGoesOn(w)
    PROVE  /\ QuietJob(w)'
           /\ \A i \in finished' \ finished : QuietFinish(i)'
  <1> USE KindsDiffer
  <1>0. /\ stage \in [Workers -> {"none", "lookup", "parse", "endless", "open", "write"}]
        /\ hash \in [Workers -> 0..MaxTime] /\ current \in [Workers -> Nat]
        /\ tables \in Seq(Tables \cup {None}) /\ mtime \in [Headers -> 0..MaxTime]
    BY DEF TypeOK, BatchIsAccounted
  <1>1. UNCHANGED <<mtime, files, opts>>
    BY JobsLeaveMain
  <1>2. CASE TakeJob(w)
    <2>1. /\ current'[w] = started + 1 /\ hash'[w] = mtime[files[started + 1]]
          /\ stage'[w] = "lookup" /\ finished' = finished
      BY <1>0, <1>2 DEF TakeJob, Pool!Start
    <2>2. QED
      BY <1>1, <2>1 DEF QuietJob, Header
  <1>3. CASE ReuseTable(w)
    <2>1. /\ stage'[w] = "none" /\ finished' = finished \cup {current[w]}
          /\ UNCHANGED <<cached, tableFile>>
          /\ cached.table[Header(w)] = hash[w] /\ CachedTable(w) \in Tables
      BY <1>0, <1>3 DEF ReuseTable, Pool!Finish, Hit, diskVars
    <2>2. hash[w] = mtime[Header(w)]
      BY <1>3 DEF ReuseTable, QuietJob
    <2>3. IsCached(cached, Header(w))
      BY <2>1, <2>2 DEF IsCached, CachedTable
    <2>4. ASSUME NEW i, i = current[w] PROVE QuietFinish(i)'
      BY <1>1, <2>1, <2>3, <2>4 DEF QuietFinish, IsCached, Header
    <2>5. QED
      BY <2>1, <2>4 DEF QuietJob
  <1>4. CASE MissTable(w) \/ ParseForever(w)
    <2>1. /\ stage[w] # "none" /\ stage'[w] \in {"parse", "endless"}
          /\ UNCHANGED <<hash, current, finished>>
      BY <1>0, <1>4 DEF MissTable, ParseForever, poolVars
    <2>2. QED
      BY <1>1, <2>1 DEF QuietJob, Header
  <1>5. CASE ParseHeader(w)
    <2>1. /\ stage[w] # "none" /\ stage'[w] = "open"
          /\ UNCHANGED <<hash, current, finished>>
      BY <1>0, <1>5 DEF ParseHeader, poolVars
    <2>2. Job(w) \in 1..Len(files) /\ Job(w) \in 1..Len(tables) /\ Header(w) \in Headers
      BY <2>1, JobsAreListed
    <2>3. mtime[Header(w)] \in Times
      BY <1>0, <2>2 DEF ListsExisting, Header, Job, Times
    <2>4. [kind |-> "table", time |-> mtime[Header(w)]] \in Tables
      BY <2>3, TableTimes
    <2>5. tables'[Job(w)] # None
      BY <1>0, <1>5, <2>2, <2>3, <2>4 DEF ParseHeader, Times
    <2>6. QED
      BY <1>1, <2>1, <2>5 DEF QuietJob, Header, Job
  <1>6. CASE OpenTableFile(w)
    <2>1. /\ stage[w] = "open" /\ stage'[w] = "write"
          /\ UNCHANGED <<hash, current, finished, tables>>
      BY <1>0, <1>6 DEF OpenTableFile, poolVars
    <2>2. Header(w) \in Headers /\ hash[w] \in Times
      BY <2>1, JobsAreListed DEF HashIsOfThisRun
    <2>3. tableFile'[Header(w)][hash[w]] # None
      BY <1>6, <2>2, OpenedFile
    <2>4. QED
      BY <1>1, <2>1, <2>3 DEF QuietJob, Header, Job, CachedTable
  <1>7. CASE WriteTableFile(w)
    <2>1. /\ stage[w] = "write" /\ stage'[w] = "none" /\ finished' = finished \cup {current[w]}
      BY <1>0, <1>7 DEF WriteTableFile, Pool!Finish
    <2>2. Header(w) \in Headers /\ hash[w] \in Times
      BY <2>1, JobsAreListed DEF HashIsOfThisRun
    <2>3. hash[w] = mtime[Header(w)] /\ CachedTable(w) # None
      BY <2>1 DEF QuietJob
    <2>4. tableFile'[Header(w)][hash[w]] \in Tables
      BY <1>7, <2>2, <2>3, WrittenFile
    <2>5. cached'.table[Header(w)] = hash[w]
      BY <1>7, <2>2, EntryIsAdded
    <2>6. ASSUME NEW i, i = current[w] PROVE QuietFinish(i)'
      BY <1>1, <2>3, <2>4, <2>5, <2>6 DEF QuietFinish, IsCached, Header
    <2>7. QED
      BY <2>1, <2>6 DEF QuietJob
  <1>8. QED
    BY <1>2, <1>3, <1>4, <1>5, <1>6, <1>7 DEF JobGoesOn

LEMMA QuietStep ==
    ASSUME TypeOK, FilesAreListed, BatchIsAccounted, JobsRunInScope, HashIsOfThisRun,
           ParsedIsNotOlder, QuietRunCaches, [Next]_vars
    PROVE  QuietRunCaches'
  <1> DEFINE Parts == /\ ListsAll /\ ListsExisting
                      /\ \A w \in Workers : QuietJob(w)
                      /\ \A i \in finished : QuietFinish(i)
  <1>0. quiet \in BOOLEAN
    BY DEF TypeOK
  <1>1. quiet /\ main # "idle" => Parts /\ (main = "close_output" => indexFile = cached)
    BY QuietParts
  <1> SUFFICES ASSUME quiet', main' # "idle"
               PROVE  Parts' /\ (main' = "close_output" => indexFile' = cached')
    BY DEF QuietRunCaches, ListsAll, ListsExisting, QuietJob, QuietFinish
  <1>2. CASE Dies \/ Edits
    BY <1>2, DeathLeavesNothing, EditsAreSeenLater DEF Gone
  <1>3. CASE UNCHANGED vars
    <2>1. Parts' <=> Parts
      BY <1>3, QuietFrame DEF vars, diskVars, jobVars, poolVars
    <2>2. QED
      BY <1>1, <1>3, <2>1 DEF vars, diskVars, historyVars
  <1>4. CASE StartRun
    <2>1. PICK input \in Inputs, force \in BOOLEAN :
             /\ opts' = [input |-> input, force |-> force]
             /\ files' \in Listings({h \in HeadersOf[input] : mtime[h] # 0})
      BY <1>4 DEF StartRun
    <2>2. /\ main = "idle" /\ main' = "load" /\ mtime' = mtime
          /\ UNCHANGED <<jobVars, poolVars>>
      BY <1>4 DEF StartRun, diskVars
    <2>3. {h \in HeadersOf[input] : mtime[h] # 0} \in SUBSET Headers
      OBVIOUS
    <2>4. /\ \A i \in 1..Len(files') : mtime[files'[i]] # 0
          /\ \A h \in HeadersOf[input] : mtime[h] # 0 =>
                \E i \in 1..Len(files') : files'[i] = h
      BY <2>1, <2>3, ListingsList
    <2>5. ListsAll' /\ ListsExisting'
      BY <2>1, <2>2, <2>4 DEF ListsAll, ListsExisting
    <2>6. finished' = {} /\ \A w \in Workers : stage'[w] = "none"
      BY <2>2 DEF BatchIsAccounted, JobsRunInScope, jobVars, poolVars
    <2>7. QED
      BY <2>2, <2>5, <2>6 DEF QuietJob
  <1>5. CASE MainGoesOn
    <2>0. /\ quiet /\ main # "idle"
          /\ UNCHANGED <<mtime, tableFile, opts, files, stage, hash, current, finished>>
      BY <1>5, MainLeavesHeaders
    <2>1. CASE LoadIndex
      <3>1. finished' = {} /\ main' = "scope" /\ \A w \in Workers : stage'[w] = "none"
        BY <2>0, <2>1 DEF LoadIndex, OpensScope, BatchIsAccounted, JobsRunInScope
      <3>2. ListsAll' /\ ListsExisting'
        BY <1>1, <2>0 DEF ListsAll, ListsExisting
      <3>3. QED
        BY <3>1, <3>2 DEF QuietJob
    <2>2. CASE ~LoadIndex
      <3>1. UNCHANGED tables
        BY <1>5, <2>2 DEF MainGoesOn, SubmitJob, MissShutdown, LeaveScope, OpenOutput,
                          MissOutput, GenerateOutput, OpenIndex, WriteIndex, jobVars
      <3>2. cached'.table = cached.table
        BY <1>5, <2>2, SavedInput DEF MainGoesOn, SubmitJob, MissShutdown, LeaveScope,
                                      OpenOutput, MissOutput, GenerateOutput, WriteIndex
      <3>3. Parts'
        BY <1>1, <2>0, <3>1, <3>2, QuietFrame
      <3>4. main' = "close_output" => indexFile' = cached'
        BY <1>5, <2>2 DEF MainGoesOn, SubmitJob, MissShutdown, LeaveScope, OpenOutput,
                          MissOutput, GenerateOutput, OpenIndex, WriteIndex, After
      <3>5. QED
        BY <3>3, <3>4
    <2>3. QED
      BY <2>1, <2>2
  <1>6. ASSUME NEW w \in Workers, JobGoesOn(w)
        PROVE  Parts' /\ (main' = "close_output" => indexFile' = cached')
    <2>1. /\ quiet /\ main # "idle"
          /\ UNCHANGED <<mtime, files, opts, main>>
      BY <1>6, JobsLeaveMain DEF historyVars
    <2>2. Parts
      BY <1>1, <2>1
    <2>3. ListsAll' /\ ListsExisting'
      BY <2>1, <2>2 DEF ListsAll, ListsExisting
    <2>4. QuietJob(w)' /\ \A i \in finished' \ finished : QuietFinish(i)'
      BY <1>6, <2>2, QuietJobStep
    <2>5. ASSUME NEW v \in Workers, v # w PROVE QuietJob(v)'
      <3>1. CASE stage[v] = "none"
        <4>1. stage'[v] = "none"
          BY <1>6, <2>5, <3>1 DEF JobGoesOn, TakeJob, ReuseTable, MissTable, ParseHeader,
                                  ParseForever, OpenTableFile, WriteTableFile, TypeOK
        <4>2. QED
          BY <4>1 DEF QuietJob
      <3>2. CASE stage[v] # "none"
        <4>1. /\ stage'[v] = stage[v] /\ hash'[v] = hash[v]
              /\ Header(v)' = Header(v) /\ Job(v)' = Job(v)
              /\ tables'[Job(v)] = tables[Job(v)]
              /\ CachedTable(v)' = CachedTable(v)
          BY <1>6, <2>5, <3>2, OtherJobsAreLeft
        <4>2. QED
          BY <2>1, <2>2, <4>1 DEF QuietJob
      <3>3. QED
        BY <3>1, <3>2
    <2>6. ASSUME NEW i \in finished PROVE QuietFinish(i)'
      <3>1. main = "scope"
        BY <1>6 DEF JobGoesOn, TakeJob, ReuseTable, MissTable, ParseHeader, ParseForever,
                    OpenTableFile, WriteTableFile, JobsRunInScope
      <3>2. i \in 1..Len(files)
        BY <3>1 DEF BatchIsAccounted
      <3>3. mtime[files[i]] \in Times
        <4>1. mtime \in [Headers -> 0..MaxTime] /\ files \in Seq(Headers)
          BY DEF TypeOK
        <4>2. QED
          BY <2>2, <3>2, <4>1 DEF ListsExisting, Times
      <3>4. QuietFinish(i)
        BY <2>2
      <3>5. QED
        BY <1>6, <2>1, <3>3, <3>4, FinishedAreLeft DEF QuietFinish, IsCached
    <2>7. main' # "close_output"
      BY <1>6, <2>1 DEF JobGoesOn, TakeJob, ReuseTable, MissTable, ParseHeader,
                        ParseForever, OpenTableFile, WriteTableFile, JobsRunInScope
    <2>8. QED
      BY <2>3, <2>4, <2>5, <2>6, <2>7
  <1>7. QED
    BY <1>2, <1>3, <1>4, <1>5, <1>6, StepCases

-----------------------------------------------------------------------------
(* A run on an input that is cached *)

\* What a run on the input of the last one knows while it works.
AllCached(input) == \A h \in HeadersOf[input] : mtime[h] # 0 => IsCached(cached, h)
NobodyParses == \A w \in Workers : stage[w] \in {"none", "lookup"}

\* An undisturbed run that closes its output has left all of its input in the cache.
LEMMA ClosedRunKeepsInput ==
    ASSUME TypeOK, FilesAreListed, BatchIsAccounted, JobsRunInScope, CachedIsOfInput,
           QuietRunCaches, quiet, main = "close_output"
    PROVE  KeepsInput(indexFile, opts.input)
  <1>1. indexFile = cached /\ cached \in Indices /\ cached.input = InputHash[opts.input]
    BY DEF QuietRunCaches, TypeOK, CachedIsOfInput
  <1>2. finished = 1..Len(files)
    BY DEF BatchIsAccounted, JobsRunInScope, AfterScope
  <1>3. \A h \in HeadersOf[opts.input] : mtime[h] # 0 => IsCached(cached, h)
    BY <1>2 DEF QuietRunCaches
  <1>4. QED
    BY <1>1, <1>3 DEF KeepsInput

\* A job of such a run finds its table.
LEMMA WarmJobHits ==
    ASSUME TypeOK, FilesAreListed, BatchIsAccounted, JobsRunInScope,
           quiet, QuietRunCaches, AllCached(opts.input), ~opts.force,
           NEW w \in Workers, stage[w] = "lookup"
    PROVE  ~MissTable(w)
  <1>1. /\ main = "scope" /\ Job(w) \in 1..Len(files)
        /\ Header(w) \in HeadersOf[opts.input]
    BY JobsAreListed
  <1>2. mtime[Header(w)] # 0 /\ hash[w] = mtime[Header(w)]
    BY <1>1 DEF QuietRunCaches, Header, Job
  <1>3. cached.table[Header(w)] = hash[w] /\ CachedTable(w) \in Tables
    BY <1>1, <1>2 DEF AllCached, IsCached, CachedTable
  <1>4. QED
    BY <1>3, KindsDiffer DEF MissTable, Hit

LEMMA WarmStep ==
    ASSUME TypeOK, FilesAreListed, BatchIsAccounted, JobsRunInScope, CachedIsOfInput,
           QuietRunCaches, WarmRunFinds, [Next]_vars
    PROVE  WarmRunFinds'
  <1> USE KindsDiffer
  <1> DEFINE Warm == /\ main \in {"idle", "load"} => KeepsInput(indexFile, warm)
                     /\ main # "idle" => quiet
                     /\ main \notin {"idle", "load"} /\ opts.input = warm /\ ~opts.force =>
                           AllCached(warm) /\ NobodyParses
  <1>0. warm # NoInput => Warm
    BY DEF WarmRunFinds, AllCached, NobodyParses
  <1> SUFFICES ASSUME warm' # NoInput PROVE Warm'
    BY DEF WarmRunFinds, AllCached, NobodyParses
  <1>1. CASE Dies
    <2>1. CloseOutput /\ quiet /\ warm' = opts.input /\ indexFile' = indexFile
      BY <1>1 DEF Dies, Kill, LoadMalformedIndex, CloseOutput, HashOfMissingHeader,
                  ReadMalformedTable, WriteNullTable, Aborts
    <2>2. KeepsInput(indexFile, opts.input)
      BY <2>1, ClosedRunKeepsInput DEF CloseOutput
    <2>3. main' = "idle" /\ UNCHANGED <<mtime, tableFile>>
      BY <1>1, DeathLeavesNothing DEF Gone
    <2>4. QED
      BY <2>1, <2>2, <2>3 DEF KeepsInput, IsCached
  <1>2. CASE Edits
    BY <1>2, EditsAreSeenLater
  <1>3. CASE UNCHANGED vars
    BY <1>0, <1>3 DEF vars, diskVars, jobVars, historyVars, KeepsInput, AllCached, NobodyParses,
                      IsCached
  <1>4. CASE StartRun
    <2>1. /\ main = "idle" /\ UNCHANGED <<warm, mtime, indexFile, tableFile>>
          /\ main' = "idle" \/ (main' = "load" /\ quiet' = TRUE)
      BY <1>4 DEF StartRun, diskVars
    <2>2. QED
      BY <1>0, <2>1 DEF KeepsInput, IsCached
  <1>5. CASE MainGoesOn
    <2>1. /\ main # "idle" /\ main' \notin {"idle", "load"}
          /\ UNCHANGED <<mtime, tableFile, opts, stage, warm, quiet>>
      BY <1>5, MainLeavesHeaders
    <2>2. Warm
      BY <1>0, <2>1
    <2>3. CASE LoadIndex
      <3>1. main = "load" /\ KeepsInput(indexFile, warm)
        BY <2>2, <2>3 DEF LoadIndex
      <3>2. opts.input = warm => cached' = indexFile
        BY <2>3, <3>1 DEF LoadIndex, ResetIfOther, KeepsInput
      <3>3. NobodyParses
        BY <3>1 DEF NobodyParses, JobsRunInScope
      <3>4. QED
        BY <2>1, <2>2, <3>1, <3>2, <3>3 DEF KeepsInput, IsCached, AllCached, NobodyParses
    <2>4. CASE ~LoadIndex
      <3>1. cached'.table = cached.table /\ main # "load"
        BY <1>5, <2>4, SavedInput DEF MainGoesOn, SubmitJob, MissShutdown, LeaveScope,
                                      OpenOutput, MissOutput, GenerateOutput, OpenIndex,
                                      WriteIndex, After
      <3>2. QED
        BY <2>1, <2>2, <3>1 DEF IsCached, AllCached, NobodyParses
    <2>5. QED
      BY <2>3, <2>4
  <1>6. ASSUME NEW w \in Workers, JobGoesOn(w)
        PROVE  Warm'
    <2>1. UNCHANGED <<main, warm, quiet, opts, mtime>>
      BY <1>6, JobsLeaveMain DEF historyVars
    <2>2. main = "scope"
      BY <1>6 DEF JobGoesOn, TakeJob, ReuseTable, MissTable, ParseHeader, ParseForever,
                  OpenTableFile, WriteTableFile, JobsRunInScope
    <2>3. Warm
      BY <1>0, <2>1
    <2>4. CASE opts.input = warm /\ ~opts.force
      <3>1. AllCached(warm) /\ NobodyParses /\ quiet
        BY <2>2, <2>3, <2>4
      <3>2. ~MissTable(w)
        BY <2>4, <3>1, WarmJobHits DEF MissTable
      <3>3. TakeJob(w) \/ ReuseTable(w)
        BY <1>6, <3>1, <3>2 DEF JobGoesOn, NobodyParses, ParseHeader, ParseForever,
                                OpenTableFile, WriteTableFile
      <3>4. /\ UNCHANGED <<cached, tableFile>>
            /\ \A v \in Workers : stage'[v] \in {stage[v], "none", "lookup"}
        BY <3>3 DEF TakeJob, ReuseTable, diskVars, TypeOK
      <3>5. QED
        BY <2>1, <2>2, <3>1, <3>4 DEF AllCached, NobodyParses, IsCached
    <2>5. CASE ~(opts.input = warm /\ ~opts.force)
      BY <2>1, <2>2, <2>3, <2>5
    <2>6. QED
      BY <2>4, <2>5
  <1>7. QED
    BY <1>1, <1>2, <1>3, <1>4, <1>5, <1>6, StepCases

-----------------------------------------------------------------------------
(* The invariant, and what follows from it *)

LEMMA IInvStep == IInv /\ [Next]_vars => IInv'
  <1> SUFFICES ASSUME IInv, [Next]_vars PROVE IInv'
    OBVIOUS
  <1> USE DEF IInv
  <1>1. TypeOK'
    BY TypeOKStep
  <1>2. TimesAdvance' /\ FilesAreListed' /\ BatchIsAccounted' /\ JobsRunInScope'
    BY TimesAdvanceStep, FilesAreListedStep, BatchStep
  <1>3. HashIsOfThisRun' /\ ParsedIsNotOlder' /\ CacheFileIsNotStale'
    BY HashStep, ParsedStep, CacheFileStep
  <1>4. FinishedIsFresh' /\ GeneratedIsTables'
    BY FinishedStep, GeneratedStep
  <1>5. CutOffWhileWritten' /\ OnlyDeathsSpoilCache'
    BY CutOffStep, OnlyDeathsStep
  <1>6. CachedIsOfInput' /\ IndexIsOfItsInput'
    BY IndexStep
  <1>7. QuietRunCaches' /\ WarmRunFinds'
    BY QuietStep, WarmStep
  <1>8. QED
    BY <1>1, <1>2, <1>3, <1>4, <1>5, <1>6, <1>7

LEMMA Invariance == Spec => []IInv
  BY InitEstablishes, IInvStep, PTL DEF Spec

\* The variables of a run have their types; in particular every job a worker has
\* is one of the list, and what main() generates from is a table for every job.
THEOREM TypeCorrect == Spec => []TypeOK
  <1>1. IInv => TypeOK
    BY DEF IInv
  <1>2. QED
    BY <1>1, Invariance, PTL

\* Whatever is edited while whatever jobs run, no cache file holds a table that is
\* older than the hash in its name (main.cpp:104-121: the hash first, then the text).
THEOREM CacheIsNotStale == Spec => []CacheFileIsNotStale
  <1>1. IInv => CacheFileIsNotStale
    BY DEF IInv
  <1>2. QED
    BY <1>1, Invariance, PTL

\* A run that gets to its end writes a metadata.h with every header it listed, as
\* new as when it started, out of tables of this run and of runs before.
THEOREM RunsAreFresh == Spec => []OutputIsFresh
  <1>1. IInv => OutputIsFresh
    <2> SUFFICES ASSUME IInv, main \in {"open_index", "write_index", "close_output"}, opened
                 PROVE  /\ output \in Outputs
                        /\ \A i \in 1..Len(files) :
                              /\ output.of[files[i]] # None
                              /\ output.of[files[i]].time >= seen[files[i]]
      BY DEF OutputIsFresh
    <2>1. output = [kind |-> "unclosed", of |-> [h \in Headers |-> TableFor(h)]]
      BY DEF IInv, GeneratedIsTables
    <2>2. output \in Outputs
      BY <2>1, TablesAreFound, OutputsAreClosed DEF IInv
    <2>3. finished = 1..Len(files) /\ files \in Seq(Headers)
      BY DEF IInv, JobsRunInScope, BatchIsAccounted, AfterScope, TypeOK
    <2>4. ASSUME NEW i \in 1..Len(files)
          PROVE  /\ output.of[files[i]] # None
                 /\ output.of[files[i]].time >= seen[files[i]]
      <3>1. files[i] \in Headers /\ output.of[files[i]] = TableFor(files[i])
        BY <2>1, <2>3
      <3>2. PICK j \in 1..Len(files) :
               files[j] = files[i] /\ TableFor(files[i]) = tables[j]
        BY DEF TableFor
      <3>3. tables[j] # None /\ tables[j].time >= seen[files[j]]
        BY <2>3 DEF IInv, FinishedIsFresh
      <3>4. QED
        BY <3>1, <3>2, <3>3
    <2>5. QED
      BY <2>2, <2>4
  <1>2. QED
    BY <1>1, Invariance, PTL

\* A malformed index or cache file is met only after a process died over one.
THEOREM OnlyDeathsSpoil == Spec => []OnlyDeathsSpoilCache
  <1>1. IInv => OnlyDeathsSpoilCache
    BY DEF IInv
  <1>2. QED
    BY <1>1, Invariance, PTL

\* As long as no process died, the saved index names complete cache files only.
THEOREM IndexIsUsable == Spec => []SavedIndexIsUsable
  <1>1. IInv => SavedIndexIsUsable
    <2> SUFFICES ASSUME IInv, main = "idle", ~died, indexFile \in Indices,
                        NEW h \in Headers, indexFile.table[h] # 0
                 PROVE  tableFile[h][indexFile.table[h]] # Partial
      BY DEF SavedIndexIsUsable
    <2>1. indexFile.table[h] \in Times
      BY DEF Indices, Times
    <2>2. \A w \in Workers : stage[w] = "none"
      BY DEF IInv, JobsRunInScope
    <2>3. QED
      BY <2>1, <2>2 DEF IInv, CutOffWhileWritten
  <1>2. QED
    BY <1>1, Invariance, PTL

\* The index has entries only of headers that an input with its hash names,
\* whatever inputs were introspected in the same directory before.
THEOREM IndexKeepsToItsInput == Spec => []IndexIsOfItsInput
  <1>1. IInv => IndexIsOfItsInput
    BY DEF IInv
  <1>2. QED
    BY <1>1, Invariance, PTL

\* A run on the input of the last one that nobody disturbed parses nothing.
THEOREM WarmRunsParseNothing == Spec => []WarmRunParsesNothing
  <1>1. IInv => WarmRunParsesNothing
    <2> SUFFICES ASSUME IInv, NEW w \in Workers, stage[w] = "parse",
                        ~opts.force, opts.input = warm
                 PROVE  FALSE
      BY DEF WarmRunParsesNothing
    <2>1. main = "scope"
      BY DEF IInv, JobsRunInScope
    <2>2. warm # NoInput
      BY <2>1 DEF IInv, FilesAreListed
    <2>3. QED
      BY <2>1, <2>2 DEF IInv, WarmRunFinds
  <1>2. QED
    BY <1>1, Invariance, PTL

-----------------------------------------------------------------------------
(* The driver as a user of the pool *)

\* The scope of the pool is left when main() is behind it.
ScopeIsLeft == closed \in BOOLEAN /\ (closed <=> main \in AfterScope)

LEMMA ScopeStep ==
    ASSUME IInv, ScopeIsLeft, [Next]_vars
    PROVE  ScopeIsLeft'
  <1>1. CASE Dies
    BY <1>1, DeathLeavesNothing DEF Gone, IdlePool, ScopeIsLeft, AfterScope
  <1>2. CASE Edits
    BY <1>2, EditsAreSeenLater DEF poolVars, ScopeIsLeft, AfterScope
  <1>3. CASE StartRun
    BY <1>3 DEF StartRun, poolVars, ScopeIsLeft, AfterScope
  <1>4. CASE LoadIndex \/ SubmitJob \/ MissShutdown \/ LeaveScope
    <2>1. CASE LoadIndex
      BY <2>1 DEF LoadIndex, OpensScope, ScopeIsLeft, AfterScope
    <2>2. CASE SubmitJob
      BY <2>2 DEF SubmitJob, Pool!Submit, ScopeIsLeft, AfterScope
    <2>3. CASE LeaveScope
      BY <2>3 DEF LeaveScope, Pool!Close, ScopeIsLeft, AfterScope
    <2>4. CASE MissShutdown
      BY <2>4 DEF MissShutdown, poolVars, ScopeIsLeft, AfterScope
    <2>5. QED
      BY <1>4, <2>1, <2>2, <2>3, <2>4
  <1>5. CASE OpenOutput \/ MissOutput \/ GenerateOutput \/ OpenIndex \/ WriteIndex
    <2>1. main \in AfterScope /\ main' \in AfterScope /\ closed' = closed
      BY <1>5 DEF OpenOutput, MissOutput, GenerateOutput, OpenIndex, WriteIndex, After,
                  poolVars, AfterScope
    <2>2. QED
      BY <2>1 DEF ScopeIsLeft
  <1>6. ASSUME NEW w \in Workers, JobGoesOn(w)
        PROVE  ScopeIsLeft'
    BY <1>6, JobsLeaveMain DEF ScopeIsLeft, AfterScope
  <1>7. CASE UNCHANGED vars
    BY <1>7 DEF vars, poolVars, ScopeIsLeft, AfterScope
  <1>8. QED
    BY <1>1, <1>2, <1>3, <1>4, <1>5, <1>6, <1>7, StepCases DEF MainGoesOn

\* Opening a scope and the end of a process leave a batch nothing was done of.
NewBatch == Pool!Init'
GoesOnWithBatch == main' = main \/ main' \notin {"idle", "scope"}

LEMMA ScopeOpensBatch ==
    ASSUME IInv, ScopeIsLeft, LoadIndex
    PROVE  NewBatch
  <1>1. main = "load" /\ size' = Len(files)
        /\ UNCHANGED <<submitted, started, current, finished, closed>>
    BY DEF LoadIndex, OpensScope
  <1>2. size = 0 /\ submitted = 0 /\ started = 0 /\ finished = {}
    BY <1>1 DEF IInv, BatchIsAccounted
  <1>3. current = [w \in Workers |-> 0]
    <2>1. \A w \in Workers : current[w] \in Nat /\ current[w] <= 0
      BY <1>2 DEF IInv, BatchIsAccounted
    <2>2. \A w \in Workers : current[w] = 0
      BY <2>1
    <2>3. QED
      BY <2>2 DEF IInv, BatchIsAccounted
  <1>4. closed = FALSE
    BY <1>1 DEF ScopeIsLeft, AfterScope
  <1>5. Len(files) \in Nat
    <2>1. files \in Seq(Headers)
      BY DEF IInv, TypeOK
    <2>2. QED
      BY <2>1
  <1>6. QED
    BY <1>1, <1>2, <1>3, <1>4, <1>5 DEF NewBatch, Pool!Init

LEMMA DeathsEndBatch ==
    ASSUME IInv, Dies
    PROVE  NewBatch /\ main # "idle" /\ main' = "idle"
  <1>1. NewBatch /\ main' = "idle"
    BY DeathLeavesNothing DEF Gone, IdlePool, NewBatch, Pool!Init
  <1>2. \A w \in Workers : stage[w] # "none" => main = "scope"
    BY DEF IInv, JobsRunInScope
  <1>3. main # "idle"
    BY <1>2 DEF Dies, Kill, LoadMalformedIndex, CloseOutput, HashOfMissingHeader,
       ReadMalformedTable, WriteNullTable
  <1>4. QED
    BY <1>1, <1>3

\* main() and its jobs use the pool as JobBatch allows, which PoolImplementsBatch of
\* JobManagerProofs shows of jobmanager.cpp: from the opening of a scope to its end,
\* or to the end of the process, every step is one of a batch of jobs, of which
\* nothing was done when it was opened, or leaves the batch alone.
THEOREM RunsUseBatches ==
    Spec => /\ Pool!Init
            /\ [][IF GoesOnWithBatch THEN [Pool!Next]_(Pool!batchVars) ELSE NewBatch]_vars
  <1>1. ASSUME Init PROVE Pool!Init /\ ScopeIsLeft
    <2>1. /\ size = 0 /\ submitted = 0 /\ started = 0 /\ current = [w \in Workers |-> 0]
          /\ finished = {} /\ closed = FALSE /\ main = "idle"
      BY <1>1 DEF Init
    <2>2. QED
      BY <2>1 DEF Pool!Init, ScopeIsLeft, AfterScope
  <1>2. IInv /\ ScopeIsLeft /\ [Next]_vars => ScopeIsLeft'
    BY ScopeStep
  <1>3. ASSUME IInv, ScopeIsLeft, [Next]_vars
        PROVE  IF GoesOnWithBatch THEN [Pool!Next]_(Pool!batchVars) ELSE NewBatch
    <2>1. CASE Dies
      BY <1>3, <2>1, DeathsEndBatch DEF GoesOnWithBatch
    <2>2. CASE Edits \/ StartRun \/ UNCHANGED vars
      <3>1. UNCHANGED poolVars
        BY <2>2, EditsAreSeenLater DEF StartRun, vars
      <3>2. main' = main \/ main' = "load"
        BY <2>2, EditsAreSeenLater DEF StartRun, vars
      <3>3. UNCHANGED Pool!batchVars
        BY <3>1 DEF poolVars, Pool!batchVars
      <3>4. QED
        BY <3>2, <3>3 DEF GoesOnWithBatch
    <2>3. CASE LoadIndex
      BY <1>3, <2>3, ScopeOpensBatch DEF GoesOnWithBatch, LoadIndex, OpensScope
    <2>4. CASE MainGoesOn /\ ~LoadIndex
      <3>1. Pool!Submit \/ Pool!Close \/ UNCHANGED poolVars
        BY <2>4 DEF MainGoesOn, SubmitJob, MissShutdown, LeaveScope, OpenOutput, MissOutput,
                    GenerateOutput, OpenIndex, WriteIndex
      <3>2. GoesOnWithBatch
        BY <2>4 DEF MainGoesOn, SubmitJob, MissShutdown, LeaveScope, OpenOutput, MissOutput,
                    GenerateOutput, OpenIndex, WriteIndex, After, GoesOnWithBatch
      <3>3. QED
        BY <3>1, <3>2 DEF poolVars, Pool!batchVars, Pool!Next
    <2>5. ASSUME NEW w \in Workers, JobGoesOn(w)
          PROVE  IF GoesOnWithBatch THEN [Pool!Next]_(Pool!batchVars) ELSE NewBatch
      <3>1. Pool!Start(w) \/ Pool!Finish(w) \/ UNCHANGED poolVars
        BY <2>5 DEF JobGoesOn, TakeJob, ReuseTable, MissTable, ParseHeader, ParseForever,
                    OpenTableFile, WriteTableFile
      <3>2. main' = main
        BY <2>5, JobsLeaveMain
      <3>3. QED
        BY <3>1, <3>2 DEF GoesOnWithBatch, poolVars, Pool!batchVars, Pool!Next
    <2>6. QED
      BY <1>3, <2>1, <2>2, <2>3, <2>4, <2>5, StepCases
  <1>4. QED
    BY <1>1, <1>2, <1>3, Invariance, PTL DEF Spec

-----------------------------------------------------------------------------
(***************************************************************************)
(* Going on.  A process comes to a stop in two places only, and each        *)
(* statement of main() or of a job that is executed leaves fewer to execute.*)
(***************************************************************************)

CanFinish(w) == current[w] # 0 /\ current[w] \notin finished

\* What the actions of main() and of a job look at before they are taken.
MainCanGoOn ==
    \/ main \in {"load"} \cup AfterScope
    \/ main = "scope" /\ ~closed /\ (submitted < size \/ finished = 1..size)

JobCanGoOn(w) ==
    \/ main = "scope" /\ started < submitted /\ current[w] = 0
    \/ /\ stage[w] = "lookup"
       /\ Hit(w) => \/ CachedTable(w) \in Tables /\ CanFinish(w)
                    \/ CachedTable(w) \in {None, Partial}
    \/ stage[w] \in {"parse", "open"}
    \/ stage[w] = "write" /\ (tables[Job(w)] # None => CanFinish(w))

\* Whatever the disk holds, a process is stopped only by a missed notification,
\* behind its last job, or by texts whose parse does not end.
StopsOnlyThere ==
    main # "idle" => \/ MainCanGoOn \/ \E w \in Workers : JobCanGoOn(w)
                     \/ Hung \/ HeldUp

\* A job that was started is finished, or in the hands of a worker.
NoJobIsDropped ==
    \A i \in 1..started : i \in finished \/ \E w \in Workers : current[w] = i

LEMMA NoJobIsDroppedStep ==
    ASSUME IInv, NoJobIsDropped, [Next]_vars
    PROVE  NoJobIsDropped'
  <1>1. CASE Dies
    <2>1. started' = 0
      BY <1>1, DeathLeavesNothing DEF Gone, IdlePool
    <2>2. QED
      BY <2>1 DEF NoJobIsDropped
  <1>2. CASE UNCHANGED <<started, current, finished>>
    BY <1>2 DEF NoJobIsDropped
  <1>3. CASE Edits \/ StartRun \/ MainGoesOn \/ UNCHANGED vars
    BY <1>2, <1>3, EditsAreSeenLater, MainLeavesHeaders DEF StartRun, poolVars, vars
  <1>4. ASSUME NEW w \in Workers, JobGoesOn(w) PROVE NoJobIsDropped'
    <2>0. current \in [Workers -> Nat] /\ started \in Nat
      BY DEF IInv, BatchIsAccounted
    <2>1. CASE TakeJob(w)
      <3>1. /\ current[w] = 0 /\ started' = started + 1 /\ finished' = finished
            /\ current' = [current EXCEPT ![w] = started + 1]
        BY <2>1 DEF TakeJob, Pool!Start
      <3>2. current'[w] = started + 1 /\ \A v \in Workers \ {w} : current'[v] = current[v]
        BY <2>0, <3>1
      <3>3. ASSUME NEW i \in 1..started', i \notin finished'
            PROVE  \E v \in Workers : current'[v] = i
        <4>1. CASE i = started + 1
          BY <3>2, <4>1
        <4>2. CASE i \in 1..started
          <5>1. PICK v \in Workers : current[v] = i
            BY <3>1, <3>3, <4>2 DEF NoJobIsDropped
          <5>2. v # w
            BY <3>1, <4>2, <5>1
          <5>3. QED
            BY <3>2, <5>1, <5>2
        <4>3. QED
          BY <2>0, <3>1, <4>1, <4>2
      <3>4. QED
        BY <3>3 DEF NoJobIsDropped
    <2>2. CASE ReuseTable(w) \/ WriteTableFile(w)
      <3>1. /\ finished' = finished \cup {current[w]} /\ started' = started
            /\ current' = [current EXCEPT ![w] = 0]
        BY <2>2 DEF ReuseTable, WriteTableFile, Pool!Finish
      <3>2. \A v \in Workers \ {w} : current'[v] = current[v]
        BY <2>0, <3>1
      <3>3. ASSUME NEW i \in 1..started', i \notin finished'
            PROVE  \E v \in Workers : current'[v] = i
        <4>1. i \in 1..started /\ i \notin finished /\ i # current[w]
          BY <3>1, <3>3
        <4>2. PICK v \in Workers : current[v] = i
          BY <4>1 DEF NoJobIsDropped
        <4>3. QED
          BY <3>2, <4>1, <4>2
      <3>4. QED
        BY <3>3 DEF NoJobIsDropped
    <2>3. CASE MissTable(w) \/ ParseHeader(w) \/ ParseForever(w) \/ OpenTableFile(w)
      BY <1>2, <2>3 DEF MissTable, ParseHeader, ParseForever, OpenTableFile, poolVars
    <2>4. QED
      BY <1>4, <2>1, <2>2, <2>3 DEF JobGoesOn
  <1>5. QED
    BY <1>1, <1>3, <1>4, StepCases

LEMMA JobsAreKept == Spec => [](IInv /\ ScopeIsLeft /\ NoJobIsDropped)
  <1>1. Init => ScopeIsLeft /\ NoJobIsDropped
    <2> SUFFICES ASSUME Init PROVE ScopeIsLeft /\ NoJobIsDropped
      OBVIOUS
    <2>1. main = "idle" /\ closed = FALSE /\ started = 0
      BY DEF Init
    <2>2. ScopeIsLeft
      BY <2>1 DEF ScopeIsLeft, AfterScope
    <2>3. NoJobIsDropped
      BY <2>1 DEF NoJobIsDropped
    <2>4. QED
      BY <2>2, <2>3
  <1>2. IInv /\ ScopeIsLeft /\ [Next]_vars => ScopeIsLeft'
    BY ScopeStep
  <1>3. IInv /\ NoJobIsDropped /\ [Next]_vars => NoJobIsDropped'
    BY NoJobIsDroppedStep
  <1>4. QED
    BY <1>1, <1>2, <1>3, Invariance, PTL DEF Spec

\* main.cpp: as long as a process lives, main() or one of its jobs can execute its
\* next statement, whatever the headers, the index and the cache files are by then -
\* unless all jobs were executed and ~JobManager joins with a worker that missed the
\* notification, or the parse of some headers does not end and every other job was
\* executed or every worker is at one of these headers.
THEOREM RunsStopInTwoPlaces ==
    ASSUME Workers # {}
    PROVE  Spec => []StopsOnlyThere
  <1>1. ASSUME IInv, ScopeIsLeft, NoJobIsDropped, main # "idle"
        PROVE  \/ MainCanGoOn \/ \E w \in Workers : JobCanGoOn(w)
               \/ Hung \/ HeldUp
    <2> SUFFICES ASSUME ~MainCanGoOn, \A w \in Workers : ~JobCanGoOn(w), ~Hung
                 PROVE  HeldUp
      OBVIOUS
    <2>1. main \in Statements
      BY <1>1 DEF IInv, TypeOK
    <2>2. main = "scope" /\ ~closed
      <3>1. main # "hung"
        BY <1>1 DEF IInv, JobsRunInScope, Hung
      <3>2. QED
        BY <1>1, <2>1, <3>1 DEF MainCanGoOn, Statements, AfterScope, ScopeIsLeft
    <2>3. /\ size \in Nat /\ submitted \in Nat /\ started \in Nat
          /\ submitted <= size /\ started <= submitted /\ finished \subseteq 1..started
      BY <1>1 DEF IInv, BatchIsAccounted
    <2>4. submitted = size /\ finished # 1..size
      BY <2>2, <2>3 DEF MainCanGoOn
    <2>5. ASSUME NEW w \in Workers, current[w] # 0 PROVE stage[w] = "endless"
      <3>1. stage[w] \in {"lookup", "parse", "endless", "open", "write"}
        BY <1>1, <2>5 DEF IInv, TypeOK, JobsRunInScope
      <3>2. CanFinish(w)
        BY <1>1, <2>5 DEF IInv, BatchIsAccounted, CanFinish
      <3>3. stage[w] \in {"lookup", "endless"}
        BY <3>1, <3>2 DEF JobCanGoOn
      <3>4. ASSUME stage[w] = "lookup" PROVE FALSE
        <4>1. Header(w) \in Headers
          BY <1>1, <3>4, JobsAreListed DEF IInv
        <4>2. hash[w] \in Times
          BY <1>1, <3>4 DEF IInv, HashIsOfThisRun
        <4>3. tableFile \in [Headers -> [Times -> Tables \cup {None, Partial}]]
          BY <1>1 DEF IInv, TypeOK
        <4>4. CachedTable(w) \in Tables \cup {None, Partial}
          BY <4>1, <4>2, <4>3 DEF CachedTable
        <4>5. QED
          BY <3>2, <3>4, <4>4 DEF JobCanGoOn
      <3>5. QED
        BY <3>3, <3>4
    <2>6. ASSUME NEW w \in Workers, current[w] = 0 PROVE started = size
      BY <2>2, <2>3, <2>4, <2>6 DEF JobCanGoOn
    <2>7. \A w \in Workers : stage[w] = "endless" \/ (current[w] = 0 /\ started = size)
      BY <2>5, <2>6
    <2>8. \E w \in Workers : stage[w] = "endless"
      <3> SUFFICES ASSUME \A w \in Workers : stage[w] # "endless" PROVE FALSE
        OBVIOUS
      <3>1. \A w \in Workers : current[w] = 0
        BY <2>5
      <3>2. started = size
        BY <2>6, <3>1
      <3>3. \A i \in 1..started : i \in finished
        BY <1>1, <2>3, <3>1 DEF NoJobIsDropped
      <3>4. QED
        BY <2>3, <2>4, <3>2, <3>3
    <2>9. QED
      BY <2>2, <2>4, <2>7, <2>8 DEF HeldUp
  <1>2. QED
    BY <1>1, JobsAreKept, PTL DEF StopsOnlyThere

-----------------------------------------------------------------------------
(* Every step of the process uses up some of the work of the run. *)

BusyStages == {"lookup", "parse", "endless", "open", "write"}

\* The jobs that are at a stage, and how many there are.
JobsAt == [s \in BusyStages |-> {current[w] : w \in {v \in Workers : stage[v] = s}}]
Count == [s \in BusyStages |-> Cardinality(JobsAt[s])]

\* The statements main() has before it.
MainWork == CASE main = "load"        -> 7
              [] main = "scope"       -> 6
              [] main = "open_output" -> 5
              [] main = "generate"    -> 4
              [] main = "open_index"  -> 3
              [] main = "write_index" -> 2
              [] main = "close_output" -> 1
              [] main = "hung"        -> 1
              [] main = "idle"        -> 0

\* A job is submitted, started, looked up, parsed, and its cache file opened and
\* written.  Nothing is left of one whose parse does not end.
Work(m, s, t, l, p, o, w) == m + s + 5 * t + 4 * l + 3 * p + 2 * o + w

WorkLeft == Work(MainWork, Len(files) - submitted, Len(files) - started,
                 Count["lookup"], Count["parse"], Count["open"], Count["write"])

\* What main() and its jobs do uses up work; what others do adds none to a run.
RunsUseUpWork ==
    [][/\ ProcessStep => WorkLeft' < WorkLeft
       /\ main # "idle" => WorkLeft' <= WorkLeft]_vars

LEMMA WorkFalls ==
    \A m, s, t, l, p, o, w \in Nat :
        LET Now == Work(m, s, t, l, p, o, w)
        IN  /\ Now \in Nat /\ m <= Now
            /\ Work(m, s - 1, t, l, p, o, w) < Now
            /\ Work(m, s, t - 1, l + 1, p, o, w) < Now
            /\ Work(m, s, t, l - 1, p, o, w) < Now
            /\ Work(m, s, t, l - 1, p + 1, o, w) < Now
            /\ Work(m, s, t, l, p - 1, o + 1, w) < Now
            /\ Work(m, s, t, l, p - 1, o, w) < Now
            /\ Work(m, s, t, l, p, o - 1, w + 1) < Now
            /\ Work(m, s, t, l, p, o, w - 1) < Now
            /\ \A n \in Nat : n < m => Work(n, s, t, l, p, o, w) < Now
  BY DEF Work

LEMMA CountIsNumber ==
    ASSUME IInv
    PROVE  Count \in [BusyStages -> Nat] /\ \A s \in BusyStages : IsFiniteSet(JobsAt[s])
  <1>1. ASSUME NEW s \in BusyStages PROVE IsFiniteSet(JobsAt[s])
    <2>1. started \in Nat
      BY DEF IInv, BatchIsAccounted
    <2>2. IsFiniteSet(1..started)
      BY <2>1, FS_Interval
    <2>3. ASSUME NEW w \in Workers, stage[w] = s PROVE current[w] \in 1..started
      <3>1. current[w] # 0
        BY <2>3 DEF IInv, JobsRunInScope, BusyStages
      <3>2. current[w] \in Nat /\ current[w] <= started
        BY DEF IInv, BatchIsAccounted
      <3>3. QED
        BY <2>1, <3>1, <3>2
    <2>4. JobsAt[s] \subseteq 1..started
      BY <2>3 DEF JobsAt
    <2>5. QED
      BY <2>2, <2>4, FS_Subset
  <1>2. ASSUME NEW s \in BusyStages PROVE Cardinality(JobsAt[s]) \in Nat
    BY <1>1, FS_CardinalityType
  <1>3. QED
    BY <1>1, <1>2 DEF Count

\* The numbers that the work is made of.
Numbers == /\ MainWork \in Nat
           /\ Len(files) - submitted \in Nat /\ Len(files) - started \in Nat
           /\ Count["lookup"] \in Nat /\ Count["parse"] \in Nat
           /\ Count["open"] \in Nat /\ Count["write"] \in Nat

LEMMA NumbersAre == IInv => Numbers
  <1> SUFFICES ASSUME IInv PROVE Numbers
    OBVIOUS
  <1>1. main \in Statements /\ files \in Seq(Headers)
    BY DEF IInv, TypeOK
  <1>2. MainWork \in Nat
    BY <1>1 DEF MainWork, Statements
  <1>3. Len(files) - submitted \in Nat /\ Len(files) - started \in Nat
    BY <1>1 DEF IInv, BatchIsAccounted
  <1>4. QED
    BY <1>2, <1>3, CountIsNumber DEF Numbers, BusyStages

LEMMA WorkIsCounted == IInv => WorkLeft \in Nat
  BY NumbersAre, WorkFalls DEF Numbers, WorkLeft

\* Without a process there is no work, and with one there is some.
LEMMA IdleIsNoWork ==
    ASSUME IInv
    PROVE  /\ main = "idle" /\ files = <<>> => WorkLeft = 0
           /\ main # "idle" => 1 <= WorkLeft
  <1>1. ASSUME main = "idle", files = <<>> PROVE WorkLeft = 0
    <2>1. Len(files) = 0 /\ submitted = 0 /\ started = 0
      BY <1>1 DEF IInv, BatchIsAccounted
    <2>2. \A s \in BusyStages : JobsAt[s] = {}
      BY <1>1 DEF IInv, JobsRunInScope, JobsAt, BusyStages
    <2>3. \A s \in BusyStages : Count[s] = 0
      BY <2>2, FS_EmptySet DEF Count
    <2>4. WorkLeft = Work(0, 0, 0, 0, 0, 0, 0)
      BY <1>1, <2>1, <2>3 DEF WorkLeft, MainWork, BusyStages
    <2>5. QED
      BY <2>4 DEF Work
  <1>2. ASSUME main # "idle" PROVE 1 <= WorkLeft
    <2>1. main \in Statements
      BY DEF IInv, TypeOK
    <2>2. 1 <= MainWork
      BY <1>2, <2>1 DEF MainWork, Statements
    <2>3. MainWork <= WorkLeft /\ WorkLeft \in Nat /\ MainWork \in Nat
      BY NumbersAre, WorkFalls DEF Numbers, WorkLeft
    <2>4. QED
      BY <2>2, <2>3
  <1>3. QED
    BY <1>1, <1>2

\* The same, of the state after a step.
IdleIsWorkless == /\ WorkLeft \in Nat
                  /\ main = "idle" /\ files = <<>> => WorkLeft = 0

LEMMA WorklessNext == IInv' => IdleIsWorkless'
  <1>1. IInv => IdleIsWorkless
    BY WorkIsCounted, IdleIsNoWork DEF IdleIsWorkless
  <1>2. QED
    BY <1>1, PTL

\* A job is at one stage, of one worker.
LEMMA JobIsAt ==
    ASSUME IInv, NEW w \in Workers, NEW s \in BusyStages
    PROVE  /\ stage[w] = s => current[w] \in JobsAt[s]
           /\ \A v \in Workers : stage[v] \in BusyStages /\ current[v] = current[w] => v = w
  <1>1. \A v \in Workers : stage[v] \in BusyStages => current[v] # 0
    BY DEF IInv, JobsRunInScope, BusyStages
  <1>2. \A u, v \in Workers : u # v /\ current[u] # 0 => current[u] # current[v]
    BY DEF IInv, BatchIsAccounted
  <1>3. QED
    BY <1>1, <1>2 DEF JobsAt

LEMMA JobMovesOn ==
    ASSUME IInv, NEW w \in Workers, NEW s \in BusyStages, NEW r \in BusyStages, s # r,
           stage[w] = s, stage' = [stage EXCEPT ![w] = r], current' = current
    PROVE  /\ Count'[s] = Count[s] - 1 /\ Count'[r] = Count[r] + 1
           /\ \A q \in BusyStages : q # s /\ q # r => Count'[q] = Count[q]
  <1>0. stage \in [Workers -> BusyStages \cup {"none"}]
    BY DEF IInv, TypeOK, BusyStages
  <1>1. \A v \in Workers : stage'[v] = IF v = w THEN r ELSE stage[v]
    BY <1>0
  <1>2. JobsAt'[s] = JobsAt[s] \ {current[w]} /\ current[w] \in JobsAt[s]
    BY <1>1, JobIsAt DEF JobsAt
  <1>3. JobsAt'[r] = JobsAt[r] \cup {current[w]} /\ current[w] \notin JobsAt[r]
    BY <1>1, JobIsAt DEF JobsAt
  <1>4. \A q \in BusyStages : q # s /\ q # r => JobsAt'[q] = JobsAt[q]
    BY <1>1 DEF JobsAt
  <1>5. IsFiniteSet(JobsAt[s]) /\ IsFiniteSet(JobsAt[r])
    BY CountIsNumber
  <1>6. Cardinality(JobsAt'[s]) = Cardinality(JobsAt[s]) - 1
    BY ONLY <1>2, <1>5, FS_RemoveElement
  <1>7. Cardinality(JobsAt'[r]) = Cardinality(JobsAt[r]) + 1
    BY ONLY <1>3, <1>5, FS_AddElement
  <1>8. QED
    BY <1>4, <1>6, <1>7 DEF Count

LEMMA JobEnds ==
    ASSUME IInv, NEW w \in Workers, NEW s \in BusyStages, stage[w] = s,
           stage' = [stage EXCEPT ![w] = "none"], current' = [current EXCEPT ![w] = 0]
    PROVE  /\ Count'[s] = Count[s] - 1
           /\ \A q \in BusyStages : q # s => Count'[q] = Count[q]
  <1>0. stage \in [Workers -> BusyStages \cup {"none"}] /\ current \in [Workers -> Nat]
    BY DEF IInv, TypeOK, BatchIsAccounted, BusyStages
  <1>1. \A v \in Workers : /\ stage'[v] = IF v = w THEN "none" ELSE stage[v]
                           /\ v # w => current'[v] = current[v]
    BY <1>0
  <1>2. "none" \notin BusyStages
    BY DEF BusyStages
  <1>3. JobsAt'[s] = JobsAt[s] \ {current[w]} /\ current[w] \in JobsAt[s]
    BY <1>1, <1>2, JobIsAt DEF JobsAt
  <1>4. \A q \in BusyStages : q # s => JobsAt'[q] = JobsAt[q]
    BY <1>1, <1>2 DEF JobsAt
  <1>5. IsFiniteSet(JobsAt[s])
    BY CountIsNumber
  <1>6. Cardinality(JobsAt'[s]) = Cardinality(JobsAt[s]) - 1
    BY ONLY <1>3, <1>5, FS_RemoveElement
  <1>7. QED
    BY <1>4, <1>6 DEF Count

LEMMA JobBegins ==
    ASSUME IInv, NEW w \in Workers, stage[w] = "none",
           stage' = [stage EXCEPT ![w] = "lookup"],
           current' = [current EXCEPT ![w] = started + 1]
    PROVE  /\ Count'["lookup"] = Count["lookup"] + 1
           /\ \A q \in BusyStages : q # "lookup" => Count'[q] = Count[q]
  <1>0. /\ stage \in [Workers -> BusyStages \cup {"none"}] /\ current \in [Workers -> Nat]
        /\ "none" \notin BusyStages /\ "lookup" \in BusyStages
    BY DEF IInv, TypeOK, BatchIsAccounted, BusyStages
  <1>1. \A v \in Workers : /\ stage'[v] = IF v = w THEN "lookup" ELSE stage[v]
                           /\ current'[v] = IF v = w THEN started + 1 ELSE current[v]
    BY <1>0
  <1>2. \A v \in Workers : current[v] # started + 1
    BY DEF IInv, BatchIsAccounted
  <1>3. /\ JobsAt'["lookup"] = JobsAt["lookup"] \cup {started + 1}
        /\ started + 1 \notin JobsAt["lookup"]
    BY <1>0, <1>1, <1>2 DEF JobsAt
  <1>4. \A q \in BusyStages : q # "lookup" => JobsAt'[q] = JobsAt[q]
    BY <1>0, <1>1 DEF JobsAt
  <1>5. IsFiniteSet(JobsAt["lookup"])
    BY <1>0, CountIsNumber
  <1>6. Cardinality(JobsAt'["lookup"]) = Cardinality(JobsAt["lookup"]) + 1
    BY ONLY <1>3, <1>5, FS_AddElement
  <1>7. QED
    BY <1>0, <1>4, <1>6 DEF Count

LEMMA JobsUseUpWork ==
    ASSUME IInv, NEW w \in Workers, JobGoesOn(w)
    PROVE  WorkLeft' < WorkLeft
  <1>n. Numbers
    BY NumbersAre
  <1>m. MainWork' = MainWork /\ files' = files /\ submitted' = submitted
    BY JobsLeaveMain DEF MainWork
  <1>1. CASE TakeJob(w)
    <2>1. /\ current[w] = 0 /\ started' = started + 1
          /\ current' = [current EXCEPT ![w] = started + 1]
          /\ stage' = [stage EXCEPT ![w] = "lookup"]
      BY <1>1 DEF TakeJob, Pool!Start
    <2>2. stage[w] = "none"
      BY <2>1 DEF IInv, JobsRunInScope
    <2>3. /\ Count'["lookup"] = Count["lookup"] + 1
          /\ \A r \in BusyStages : r # "lookup" => Count'[r] = Count[r]
      BY <2>1, <2>2, JobBegins
    <2>4. Len(files) - (started + 1) = Len(files) - started - 1
      BY DEF IInv, TypeOK, BatchIsAccounted
    <2>5. WorkLeft' = Work(MainWork, Len(files) - submitted, Len(files) - started - 1,
                         Count["lookup"] + 1, Count["parse"], Count["open"], Count["write"])
      BY <1>m, <2>1, <2>3, <2>4 DEF WorkLeft, BusyStages
    <2>6. QED
      BY <2>5, <1>n, WorkFalls DEF WorkLeft, Numbers
  <1>2. CASE ReuseTable(w)
    <2>1. stage[w] = "lookup" /\ stage' = [stage EXCEPT ![w] = "none"]
      BY <1>2 DEF ReuseTable
    <2>2. current' = [current EXCEPT ![w] = 0] /\ UNCHANGED <<submitted, started>>
      BY <1>2 DEF ReuseTable, Pool!Finish
    <2>3. /\ Count'["lookup"] = Count["lookup"] - 1
          /\ \A r \in BusyStages : r # "lookup" => Count'[r] = Count[r]
      BY <2>1, <2>2, JobEnds DEF BusyStages
    <2>4. WorkLeft' = Work(MainWork, Len(files) - submitted, Len(files) - started,
                         Count["lookup"] - 1, Count["parse"], Count["open"], Count["write"])
      BY <1>m, <2>2, <2>3 DEF WorkLeft, BusyStages
    <2>5. QED
      BY <2>4, <1>n, WorkFalls DEF WorkLeft, Numbers
  <1>3. CASE MissTable(w)
    <2>1. stage[w] = "lookup" /\ stage' = [stage EXCEPT ![w] = "parse"]
      BY <1>3 DEF MissTable
    <2>2. UNCHANGED <<submitted, started, current>>
      BY <1>3 DEF MissTable, poolVars
    <2>3. /\ Count'["lookup"] = Count["lookup"] - 1 /\ Count'["parse"] = Count["parse"] + 1
          /\ \A r \in BusyStages : r # "lookup" /\ r # "parse" => Count'[r] = Count[r]
      BY <2>1, <2>2, JobMovesOn DEF BusyStages
    <2>4. WorkLeft' = Work(MainWork, Len(files) - submitted, Len(files) - started,
                         Count["lookup"] - 1, Count["parse"] + 1, Count["open"], Count["write"])
      BY <1>m, <2>2, <2>3 DEF WorkLeft, BusyStages
    <2>5. QED
      BY <2>4, <1>n, WorkFalls DEF WorkLeft, Numbers
  <1>4. CASE ParseHeader(w)
    <2>1. stage[w] = "parse" /\ stage' = [stage EXCEPT ![w] = "open"]
      BY <1>4 DEF ParseHeader
    <2>2. UNCHANGED <<submitted, started, current>>
      BY <1>4 DEF ParseHeader, poolVars
    <2>3. /\ Count'["parse"] = Count["parse"] - 1 /\ Count'["open"] = Count["open"] + 1
          /\ \A r \in BusyStages : r # "parse" /\ r # "open" => Count'[r] = Count[r]
      BY <2>1, <2>2, JobMovesOn DEF BusyStages
    <2>4. WorkLeft' = Work(MainWork, Len(files) - submitted, Len(files) - started,
                         Count["lookup"], Count["parse"] - 1, Count["open"] + 1, Count["write"])
      BY <1>m, <2>2, <2>3 DEF WorkLeft, BusyStages
    <2>5. QED
      BY <2>4, <1>n, WorkFalls DEF WorkLeft, Numbers
  <1>5. CASE OpenTableFile(w)
    <2>1. stage[w] = "open" /\ stage' = [stage EXCEPT ![w] = "write"]
      BY <1>5 DEF OpenTableFile
    <2>2. UNCHANGED <<submitted, started, current>>
      BY <1>5 DEF OpenTableFile, poolVars
    <2>3. /\ Count'["open"] = Count["open"] - 1 /\ Count'["write"] = Count["write"] + 1
          /\ \A r \in BusyStages : r # "open" /\ r # "write" => Count'[r] = Count[r]
      BY <2>1, <2>2, JobMovesOn DEF BusyStages
    <2>4. WorkLeft' = Work(MainWork, Len(files) - submitted, Len(files) - started,
                         Count["lookup"], Count["parse"], Count["open"] - 1, Count["write"] + 1)
      BY <1>m, <2>2, <2>3 DEF WorkLeft, BusyStages
    <2>5. QED
      BY <2>4, <1>n, WorkFalls DEF WorkLeft, Numbers
  <1>6. CASE WriteTableFile(w)
    <2>1. stage[w] = "write" /\ stage' = [stage EXCEPT ![w] = "none"]
      BY <1>6 DEF WriteTableFile
    <2>2. current' = [current EXCEPT ![w] = 0] /\ UNCHANGED <<submitted, started>>
      BY <1>6 DEF WriteTableFile, Pool!Finish
    <2>3. /\ Count'["write"] = Count["write"] - 1
          /\ \A r \in BusyStages : r # "write" => Count'[r] = Count[r]
      BY <2>1, <2>2, JobEnds DEF BusyStages
    <2>4. WorkLeft' = Work(MainWork, Len(files) - submitted, Len(files) - started,
                         Count["lookup"], Count["parse"], Count["open"], Count["write"] - 1)
      BY <1>m, <2>2, <2>3 DEF WorkLeft, BusyStages
    <2>5. QED
      BY <2>4, <1>n, WorkFalls DEF WorkLeft, Numbers
  <1>7. CASE ParseForever(w)
    <2>1. stage[w] = "parse" /\ stage' = [stage EXCEPT ![w] = "endless"]
      BY <1>7 DEF ParseForever
    <2>2. UNCHANGED <<submitted, started, current>>
      BY <1>7 DEF ParseForever, poolVars
    <2>3. /\ Count'["parse"] = Count["parse"] - 1
          /\ \A r \in BusyStages : r # "parse" /\ r # "endless" => Count'[r] = Count[r]
      BY <2>1, <2>2, JobMovesOn DEF BusyStages
    <2>4. WorkLeft' = Work(MainWork, Len(files) - submitted, Len(files) - started,
                         Count["lookup"], Count["parse"] - 1, Count["open"], Count["write"])
      BY <1>m, <2>2, <2>3 DEF WorkLeft, BusyStages
    <2>5. QED
      BY <2>4, <1>n, WorkFalls DEF WorkLeft, Numbers
  <1>8. QED
    BY <1>1, <1>2, <1>3, <1>4, <1>5, <1>6, <1>7 DEF JobGoesOn

LEMMA MainUsesUpWork ==
    ASSUME IInv, MainGoesOn
    PROVE  WorkLeft' < WorkLeft
  <1>n. Numbers
    BY NumbersAre
  <1>c. Count' = Count /\ files' = files /\ started' = started
    BY MainLeavesHeaders DEF Count, JobsAt
  <1>1. CASE SubmitJob
    <2>1. MainWork' = MainWork /\ submitted' = submitted + 1
      BY <1>1 DEF SubmitJob, Pool!Submit, MainWork
    <2>2. Len(files) - (submitted + 1) = Len(files) - submitted - 1
      BY DEF IInv, TypeOK, BatchIsAccounted
    <2>3. WorkLeft' = Work(MainWork, Len(files) - submitted - 1, Len(files) - started,
                         Count["lookup"], Count["parse"], Count["open"], Count["write"])
      BY <1>c, <2>1, <2>2 DEF WorkLeft
    <2>4. QED
      BY <2>3, <1>n, WorkFalls DEF WorkLeft, Numbers
  <1>2. CASE ~SubmitJob
    <2>1. submitted' = submitted
      BY <1>2 DEF MainGoesOn, LoadIndex, MissShutdown, LeaveScope, Pool!Close, OpenOutput,
                  MissOutput, GenerateOutput, OpenIndex, WriteIndex, poolVars
    <2>2. MainWork' \in Nat /\ MainWork' < MainWork
      BY <1>2 DEF MainGoesOn, LoadIndex, OpensScope, MissShutdown, LeaveScope, OpenOutput,
                  MissOutput, GenerateOutput, OpenIndex, WriteIndex, After, MainWork
    <2>3. WorkLeft' = Work(MainWork', Len(files) - submitted, Len(files) - started,
                         Count["lookup"], Count["parse"], Count["open"], Count["write"])
      BY <1>c, <2>1 DEF WorkLeft
    <2>4. QED
      BY <2>2, <2>3, <1>n, WorkFalls DEF WorkLeft, Numbers
  <1>3. QED
    BY <1>1, <1>2

\* main.cpp: a run executes a bounded number of statements, counting the parse of a
\* header as one, whatever others do to the headers and the cache meanwhile, and
\* however its jobs interleave.
THEOREM RunsAreBounded == Spec => [](WorkLeft \in Nat) /\ RunsUseUpWork
  <1> DEFINE Step == /\ ProcessStep => WorkLeft' < WorkLeft
                     /\ main # "idle" => WorkLeft' <= WorkLeft
  <1>1. ASSUME IInv, [Next]_vars PROVE [Step]_vars
    <2> SUFFICES ASSUME IInv', WorkLeft \in Nat, WorkLeft' \in Nat
                 PROVE  [Step]_vars
      <3>1. IInv' /\ WorkLeft \in Nat
        BY <1>1, IInvStep, WorkIsCounted
      <3>2. WorkLeft' \in Nat
        BY <3>1, WorklessNext DEF IdleIsWorkless
      <3>3. QED
        BY <3>1, <3>2
    <2> USE <1>1
    <2>1. CASE Dies
      <3>1. main # "idle" /\ main' = "idle" /\ files' = <<>>
        BY <2>1, DeathsEndBatch, DeathLeavesNothing DEF Gone
      <3>2. WorkLeft' = 0
        BY <3>1, WorklessNext DEF IdleIsWorkless
      <3>3. 1 <= WorkLeft
        BY <3>1, IdleIsNoWork
      <3>4. QED
        BY <3>2, <3>3
    <2>2. CASE MainGoesOn
      BY <2>2, MainUsesUpWork
    <2>3. ASSUME NEW w \in Workers, JobGoesOn(w) PROVE Step
      BY <2>3, JobsUseUpWork
    <2>4. CASE ~(Dies \/ MainGoesOn \/ \E w \in Workers : JobGoesOn(w))
      <3>1. ~ProcessStep
        BY <2>4 DEF ProcessStep, MainStep, JobStep, Dies, MainGoesOn, JobGoesOn
      <3>2. CASE Edits \/ UNCHANGED vars
        <4>1. UNCHANGED <<main, files, submitted, started, stage, current>>
          BY <3>2, EditsAreSeenLater DEF vars, jobVars, poolVars
        <4>2. WorkLeft' = WorkLeft
          BY <4>1 DEF WorkLeft, MainWork, Count, JobsAt
        <4>3. QED
          BY <3>1, <4>2
      <3>3. CASE StartRun
        BY <3>1, <3>3 DEF StartRun
      <3>4. QED
        BY <2>4, <3>2, <3>3, StepCases
    <2>5. QED
      BY <2>1, <2>2, <2>3, <2>4
  <1>2. IInv => WorkLeft \in Nat
    BY WorkIsCounted
  <1>3. QED
    BY <1>1, <1>2, Invariance, PTL DEF Spec, RunsUseUpWork
=============================================================================
