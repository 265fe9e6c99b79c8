------------------------- MODULE HeaderSearchProofs -------------------------
(***************************************************************************)
(* What the list of headers is for every command line, every directory tree *)
(* and every order in which sources and directories are read.               *)
(***************************************************************************)
EXTENDS HeaderSearch, InductionLemmas

SourcePaths == {arg.value : arg \in {a \in Arguments : a.kind = "source"}}
Strings == DOMAIN PartOf

\* The spellings of headers a source leads to, by the pattern the code makes of it.
FoundIn(path) ==
    {p \in IF ~HasGlobPattern(path)
           THEN IF IsDirectory(path) THEN Entries(path) ELSE {path}
           ELSE IF IsDirectory(MostCommonPath(path))
           THEN {e \in Entries(MostCommonPath(path)) : Matches(path, Canonical(e))}
           ELSE {} : HasValidExtension(p)}

Found == UNION {FoundIn(options.sources[i]) : i \in 1..Len(options.sources)}

Types == /\ args \in Seq(Arguments)
         /\ options \in [sources : Seq(SourcePaths), output : Strings,
                         excluded : Seq(Strings), threads : Int, asked : Int]
         /\ status \in {"parsing", "searching", "excluding", "listed", "terminated"}
         /\ paths \in Seq(SourcePaths)
         /\ headers \in Seq(Found)
         /\ exclusions \in Seq(Strings)

\* The search begins with nothing found.
NothingFound ==
    status = "parsing" => /\ source = NoSource /\ entries = {} /\ processed = {}
                          /\ headers = <<>>

\* The checks of the options have been made before the search.
OptionsAreChecked ==
    status \in {"searching", "excluding", "listed"} =>
        options.asked > 0 /\ options.threads = options.asked % 65536

\* The iterator lists what is below the source it was made for.
IteratorIsOfSource ==
    status = "searching" =>
        \/ source = NoSource /\ entries = {}
        \/ /\ source # NoSource
           /\ \E i \in 1..Len(options.sources) : options.sources[i] = source
           /\ ~HasGlobPattern(source) => IsDirectory(source) /\ entries \subseteq Entries(source)
           /\ HasGlobPattern(source) => /\ IsDirectory(MostCommonPath(source))
                                        /\ entries \subseteq Entries(MostCommonPath(source))

\* processedPaths has the headers on the list, under their canonical paths.
ProcessedAreListed ==
    status = "searching" => processed = {Canonical(headers[k]) : k \in 1..Len(headers)}

\* What a source that was taken leads to is processed or still to be listed.
SourcesAreRead ==
    status = "searching" =>
        /\ Len(paths) <= Len(options.sources)
        /\ \A i \in 1..Len(paths) : paths[i] = options.sources[i]
        /\ \A i \in 1..Len(options.sources) : i > Len(paths) =>
              \A path \in FoundIn(options.sources[i]) :
                  Canonical(path) \in processed \/ (options.sources[i] = source /\ path \in entries)

\* Exclusions are applied in their order, to every header.
ExclusionsAreApplied ==
    /\ status \in {"excluding", "listed"} =>
          /\ Len(exclusions) <= Len(options.excluded)
          /\ \A i \in 1..Len(exclusions) :
                exclusions[i] = options.excluded[i + (Len(options.excluded) - Len(exclusions))]
          /\ \A i \in 1..Len(options.excluded) : i <= Len(options.excluded) - Len(exclusions) =>
                \A k \in 1..Len(headers) : ~IsExcluded(headers[k], options.excluded[i])
    /\ status = "listed" => exclusions = <<>>

\* A header is missing only if one of its spellings is excluded.
OthersAreExcluded ==
    status \in {"excluding", "listed"} =>
        \A path \in Found :
            \/ \E i \in 1..Len(headers) : Canonical(headers[i]) = Canonical(path)
            \/ \E other \in Found : Canonical(other) = Canonical(path) /\ Excluded(other)

IInv == /\ Types /\ NothingFound /\ OptionsAreChecked /\ IteratorIsOfSource
        /\ ProcessedAreListed /\ SourcesAreRead /\ ExclusionsAreApplied /\ OthersAreExcluded
        /\ EachHeaderOnce

-----------------------------------------------------------------------------
(* The directory tree and the command line are fixed. *)

LEMMA DiskIsFixed ==
    ASSUME disk' = disk
    PROVE  \A path : /\ Canonical(path)' = Canonical(path)
                     /\ Exists(path)' <=> Exists(path)
                     /\ IsDirectory(path)' <=> IsDirectory(path)
                     /\ Entries(path)' = Entries(path)
  <1> TAKE path
  <1>1. Canonical(path)' = Canonical(path)
    BY DEF Canonical
  <1>2. Exists(path)' <=> Exists(path)
    BY <1>1 DEF Exists
  <1>3. IsDirectory(path)' <=> IsDirectory(path)
    BY <1>1 DEF IsDirectory
  <1>4. Entries(path)' = Entries(path)
    BY <1>1, Zenon DEF Entries
  <1>5. QED
    BY <1>1, <1>2, <1>3, <1>4

LEMMA SourcesAreFixed ==
    ASSUME disk' = disk
    PROVE  \A path : FoundIn(path)' = FoundIn(path)
  <1> TAKE path
  <1>1. \A p : /\ Canonical(p)' = Canonical(p)
               /\ IsDirectory(p)' <=> IsDirectory(p)
               /\ Entries(p)' = Entries(p)
    BY DiskIsFixed
  <1>2. CASE ~HasGlobPattern(path) /\ IsDirectory(path)
    BY <1>1, <1>2 DEF FoundIn
  <1>3. CASE ~HasGlobPattern(path) /\ ~IsDirectory(path)
    BY <1>1, <1>3 DEF FoundIn
  <1>4. CASE HasGlobPattern(path) /\ IsDirectory(MostCommonPath(path))
    BY <1>1, <1>4 DEF FoundIn
  <1>5. CASE HasGlobPattern(path) /\ ~IsDirectory(MostCommonPath(path))
    BY <1>1, <1>5 DEF FoundIn
  <1>6. QED
    BY <1>2, <1>3, <1>4, <1>5

LEMMA SearchIsFixed ==
    ASSUME disk' = disk, options'.sources = options.sources
    PROVE  Found' = Found
  <1>1. \A path : FoundIn(path)' = FoundIn(path)
    BY SourcesAreFixed
  <1>2. QED
    BY <1>1 DEF Found

LEMMA ListIsFixed ==
    ASSUME EachHeaderOnce, disk' = disk, headers' = headers
    PROVE  EachHeaderOnce'
  <1>1. \A path : Canonical(path)' = Canonical(path)
    BY DiskIsFixed
  <1>2. QED
    BY <1>1 DEF EachHeaderOnce

\* What a source of each kind leads to.
LEMMA FoundByKind ==
    ASSUME NEW p
    PROVE  /\ ~HasGlobPattern(p) /\ IsDirectory(p) =>
                 FoundIn(p) = {e \in Entries(p) : HasValidExtension(e)}
           /\ ~HasGlobPattern(p) /\ ~IsDirectory(p) =>
                 FoundIn(p) = {e \in {p} : HasValidExtension(e)}
           /\ HasGlobPattern(p) /\ IsDirectory(MostCommonPath(p)) =>
                 FoundIn(p) = {e \in Entries(MostCommonPath(p)) :
                                  Matches(p, Canonical(e)) /\ HasValidExtension(e)}
           /\ HasGlobPattern(p) /\ ~IsDirectory(MostCommonPath(p)) => FoundIn(p) = {}
  <1>1. CASE ~HasGlobPattern(p)
    BY <1>1 DEF FoundIn
  <1>2. CASE HasGlobPattern(p)
    BY <1>2 DEF FoundIn
  <1>3. QED
    BY <1>1, <1>2

-----------------------------------------------------------------------------
(* ParseOptions *)

LEMMA InitStep == Init => IInv
  <1> SUFFICES ASSUME Init PROVE IInv
    OBVIOUS
  <1>1. args \in Seq(Arguments)
    BY HeaderSearchAssumption DEF Init
  <1>2. \A S : <<>> \in Seq(S)
    OBVIOUS
  <1>3. Types
    BY <1>1, <1>2, HeaderSearchAssumption DEF Init, Types, Strings
  <1>4. QED
    BY <1>3 DEF IInv, Init, NothingFound, OptionsAreChecked, IteratorIsOfSource,
                ProcessedAreListed, SourcesAreRead, ExclusionsAreApplied, OthersAreExcluded,
                EachHeaderOnce

LEMMA ArgumentStep == ASSUME IInv, ParseArgument PROVE IInv'
  <1> DEFINE arg == Head(args)
  <1>1. arg \in Arguments /\ Tail(args) \in Seq(Arguments)
    BY HeadTailProperties DEF IInv, Types, ParseArgument
  <1>2. options' \in [sources : Seq(SourcePaths), output : Strings,
                      excluded : Seq(Strings), threads : Int, asked : Int]
    <2>1. CASE arg.kind = "source"
      <3>1. arg.value \in SourcePaths
        BY <1>1, <2>1 DEF SourcePaths
      <3>2. Append(options.sources, arg.value) \in Seq(SourcePaths)
        BY <3>1, AppendProperties DEF IInv, Types
      <3>3. options' = [options EXCEPT !.sources = Append(@, arg.value)]
        BY <2>1 DEF ParseArgument
      <3>4. QED
        BY <3>2, <3>3 DEF IInv, Types
    <2>2. CASE arg.kind \in {"outfile", "cache-dir"}
      BY <1>1, <2>2, HeaderSearchAssumption DEF ParseArgument, IInv, Types, Strings
    <2>3. CASE arg.kind = "exclude-paths"
      BY <1>1, <2>3, HeaderSearchAssumption DEF ParseArgument, IInv, Types, Strings
    <2>4. CASE arg.kind = "num-threads"
      BY <1>1, <2>4, HeaderSearchAssumption DEF ParseArgument, IInv, Types
    <2>5. QED
      BY <1>1, <2>1, <2>2, <2>3, <2>4, HeaderSearchAssumption
  <1>3. /\ status = "parsing" /\ status' = "parsing" /\ args' = Tail(args)
        /\ source = NoSource /\ source' = source /\ entries = {} /\ entries' = entries
        /\ processed = {} /\ processed' = processed /\ headers = <<>> /\ headers' = <<>>
        /\ paths' = paths /\ exclusions' = exclusions /\ disk' = disk
    BY DEF ParseArgument, IInv, NothingFound, search
  <1>4. Types'
    <2>1. headers' \in Seq(Found')
      BY <1>3
    <2>2. QED
      BY <1>1, <1>2, <1>3, <2>1 DEF Types, IInv
  <1>5. EachHeaderOnce'
    BY <1>3, ListIsFixed DEF IInv
  <1>6. QED
    BY <1>3, <1>4, <1>5 DEF IInv, NothingFound, OptionsAreChecked, IteratorIsOfSource,
            ProcessedAreListed, SourcesAreRead, ExclusionsAreApplied, OthersAreExcluded

LEMMA OptionsStep == ASSUME IInv, EndOptions PROVE IInv'
  <1>1. /\ status = "parsing" /\ source = NoSource /\ source' = source /\ entries = {}
        /\ entries' = entries /\ processed = {} /\ processed' = processed /\ headers = <<>>
        /\ headers' = <<>> /\ exclusions' = exclusions /\ disk' = disk /\ args' = args
    BY DEF EndOptions, IInv, NothingFound
  <1>2. EachHeaderOnce'
    BY <1>1, ListIsFixed DEF IInv
  <1>3. headers' \in Seq(Found')
    BY <1>1
  <1>4. CASE options.sources = <<>> \/ ~IsAllowed(options.asked)
    <2>1. status' = "terminated" /\ options' = options /\ paths' = paths
      BY <1>4 DEF EndOptions
    <2>2. Types'
      BY <1>1, <1>3, <2>1 DEF IInv, Types
    <2>3. QED
      BY <1>2, <2>1, <2>2 DEF IInv, NothingFound, OptionsAreChecked, IteratorIsOfSource,
            ProcessedAreListed, SourcesAreRead, ExclusionsAreApplied, OthersAreExcluded
  <1>5. CASE ~(options.sources = <<>> \/ ~IsAllowed(options.asked))
    <2>1. /\ status' = "searching" /\ paths' = options.sources
          /\ options' = [options EXCEPT !.threads = Uint16(options.asked),
                                        !.excluded = Append(@, options.output)]
      BY <1>5 DEF EndOptions
    <2>2. /\ Append(options.excluded, options.output) \in Seq(Strings)
          /\ options.asked > 0 /\ Uint16(options.asked) = options.asked % 65536
          /\ Uint16(options.asked) \in Int
      BY <1>5, AppendProperties DEF IInv, Types, IsAllowed, Uint16
    <2>3. Types'
      <3>1. options \in [sources : Seq(SourcePaths), output : Strings,
                         excluded : Seq(Strings), threads : Int, asked : Int]
        BY DEF IInv, Types
      <3>2. options' \in [sources : Seq(SourcePaths), output : Strings,
                          excluded : Seq(Strings), threads : Int, asked : Int]
        <4> DEFINE number == Uint16(options.asked)
                   names == Append(options.excluded, options.output)
        <4>1. options' = [options EXCEPT !.threads = number, !.excluded = names]
          BY <2>1
        <4>2. number \in Int /\ names \in Seq(Strings)
          BY <2>2
        <4> HIDE DEF number, names
        <4>3. QED
          BY ONLY <3>1, <4>1, <4>2
      <3>3. paths' \in Seq(SourcePaths)
        BY <2>1, <3>1
      <3>4. QED
        BY <1>1, <1>3, <2>1, <3>2, <3>3 DEF IInv, Types
    <2>4. OptionsAreChecked'
      BY <2>1, <2>2 DEF OptionsAreChecked, IInv, Types
    <2>5. ProcessedAreListed'
      BY <1>1, <2>1 DEF ProcessedAreListed
    <2>6. options'.sources = paths' /\ paths' \in Seq(SourcePaths)
      BY <2>1 DEF IInv, Types
    <2>7. SourcesAreRead'
      <3>1. Len(paths') \in Nat
        BY <2>6, LenProperties
      <3>2. QED
        BY <2>6, <3>1 DEF SourcesAreRead
    <2>8. QED
      BY <1>1, <1>2, <2>1, <2>3, <2>4, <2>5, <2>7 DEF IInv, NothingFound,
            IteratorIsOfSource, ExclusionsAreApplied, OthersAreExcluded
  <1>6. QED
    BY <1>4, <1>5
-----------------------------------------------------------------------------
(* GetHeaderFiles: what the sources lead to *)

\* A path goes to the list if it is a header of a source and not there yet.
LEMMA ListStep ==
    ASSUME IInv, status = "searching", disk' = disk, options' = options,
           NEW path, List(path),
           HasValidExtension(path) /\ Exists(path) => path \in Found
    PROVE  /\ headers' \in Seq(Found')
           /\ EachHeaderOnce'
           /\ processed \subseteq processed'
           /\ \/ status' = "terminated"
              \/ /\ status' = "searching"
                 /\ ProcessedAreListed'
                 /\ HasValidExtension(path) => Canonical(path) \in processed'
  <1>1. /\ \A q : Canonical(q)' = Canonical(q)
        /\ Found' = Found
    BY DiskIsFixed, SearchIsFixed
  <1>2. /\ headers \in Seq(Found) /\ Len(headers) \in Nat
        /\ processed = {Canonical(headers[k]) : k \in 1..Len(headers)}
    BY LenProperties DEF IInv, Types, ProcessedAreListed
  <1>3. CASE headers' = headers /\ processed' = processed
    <2>1. EachHeaderOnce'
      BY <1>3, ListIsFixed DEF IInv
    <2>2. status' = "terminated" \/ status' = "searching"
      BY DEF List
    <2>3. ProcessedAreListed'
      BY <1>1, <1>2, <1>3 DEF ProcessedAreListed
    <2>4. status' = "searching" => (HasValidExtension(path) => Canonical(path) \in processed')
      BY <1>3 DEF List, Identity
    <2>5. QED
      BY <1>1, <1>2, <1>3, <2>1, <2>2, <2>3, <2>4
  <1>4. CASE ~(headers' = headers /\ processed' = processed)
    <2>1. /\ status' = "searching" /\ Canonical(path) \notin processed
          /\ HasValidExtension(path) /\ Exists(path)
          /\ headers' = Append(headers, path)
          /\ processed' = processed \cup {Canonical(path)}
      BY <1>4 DEF List, Identity
    <2>2. /\ headers' \in Seq(Found) /\ Len(headers') = Len(headers) + 1
          /\ \A k \in 1..Len(headers) : headers'[k] = headers[k]
          /\ headers'[Len(headers) + 1] = path
      BY <1>2, <2>1, AppendProperties
    <2>3. EachHeaderOnce'
      <3>1. \A i, j \in 1..Len(headers) : i # j => Canonical(headers[i]) # Canonical(headers[j])
        BY DEF IInv, EachHeaderOnce
      <3>2. \A k \in 1..Len(headers) : Canonical(headers[k]) # Canonical(path)
        BY <1>2, <2>1
      <3>3. \A i, j \in 1..(Len(headers) + 1) :
               i # j => Canonical(headers'[i]) # Canonical(headers'[j])
        BY <1>2, <2>2, <3>1, <3>2
      <3>4. QED
        BY <1>1, <2>2, <3>3 DEF EachHeaderOnce
    <2>4. ProcessedAreListed'
      <3>1. processed' = {Canonical(headers'[k]) : k \in 1..(Len(headers) + 1)}
        BY <1>2, <2>1, <2>2
      <3>2. QED
        BY <1>1, <2>2, <3>1 DEF ProcessedAreListed
    <2>5. QED
      BY <1>1, <2>1, <2>2, <2>3, <2>4
  <1>5. QED
    BY <1>3, <1>4

\* Once the search has failed nothing is promised but the types and the list.
LEMMA FailedStep ==
    ASSUME Types', EachHeaderOnce', status' = "terminated"
    PROVE  IInv'
  BY DEF IInv, NothingFound, OptionsAreChecked, IteratorIsOfSource, ProcessedAreListed,
         SourcesAreRead, ExclusionsAreApplied, OthersAreExcluded

LEMMA FoundIsOfSources ==
    ASSUME IInv
    PROVE  \A i \in 1..Len(options.sources) : FoundIn(options.sources[i]) \subseteq Found
  BY DEF Found

LEMMA SourceStep == ASSUME IInv, NextSource PROVE IInv'
  <1> DEFINE n == Len(paths)
             path == paths[n]
             sources == options.sources
  <1>1. /\ status = "searching" /\ source = NoSource /\ entries = {} /\ paths # <<>>
        /\ paths' = SubSeq(paths, 1, n - 1)
        /\ disk' = disk /\ args' = args /\ options' = options /\ exclusions' = exclusions
    BY DEF NextSource, TakeSource, Unchanging, IInv, IteratorIsOfSource
  <1>2. /\ sources \in Seq(SourcePaths) /\ Len(sources) \in Nat
        /\ paths \in Seq(SourcePaths) /\ n \in Nat /\ n >= 1
        /\ paths' \in Seq(SourcePaths) /\ Len(paths') = n - 1
        /\ \A i \in 1..(n - 1) : paths'[i] = paths[i]
    <2>1. sources \in Seq(SourcePaths) /\ paths \in Seq(SourcePaths)
      BY DEF IInv, Types
    <2>2. Len(sources) \in Nat /\ n \in Nat
      BY <2>1, LenProperties
    <2>3. n >= 1
      BY <1>1, <2>1, <2>2, EmptySeq
    <2>4. /\ SubSeq(paths, 1, n - 1) \in Seq(SourcePaths) /\ Len(SubSeq(paths, 1, n - 1)) = n - 1
          /\ \A i \in 1..(n - 1) : SubSeq(paths, 1, n - 1)[i] = paths[i]
      <3>1. 1 \in Int /\ n - 1 \in Int /\ \A i \in 1..(n - 1) : i \in 1..n
        BY <2>2
      <3>2. \A i \in 1..(n - 1) : paths[i] \in SourcePaths
        BY <2>1, <3>1, ElementOfSeq
      <3> DEFINE last == n - 1
                 rest == SubSeq(paths, 1, last)
      <3>3. /\ rest \in Seq(SourcePaths)
            /\ Len(rest) = IF 1 <= last THEN last - 1 + 1 ELSE 0
            /\ \A i \in 1..(last - 1 + 1) : rest[i] = paths[1 + i - 1]
        <4> HIDE DEF last
        <4>1. \A i \in 1..last : paths[i] \in SourcePaths
          BY <3>2 DEF last
        <4>2. 1 \in Int /\ last \in Int
          BY <3>1 DEF last
        <4>3. QED
          BY ONLY <4>1, <4>2, SubSeqProperties
      <3>4. rest = SubSeq(paths, 1, n - 1)
        OBVIOUS
      <3> HIDE DEF rest
      <3>5. Len(rest) = n - 1
        <4>1. last \in Int /\ (1 <= last \/ last = 0)
          BY <2>2, <2>3
        <4>2. Len(rest) = last
          <5> HIDE DEF last
          <5>1. QED
            BY ONLY <3>3, <4>1
        <4>3. QED
          BY <4>2
      <3>6. \A i \in 1..(n - 1) : 1 + i - 1 = i /\ i \in 1..(last - 1 + 1)
        BY <2>2
      <3>7. \A i \in 1..(n - 1) : rest[i] = paths[i]
        BY <3>3, <3>6
      <3>8. QED
        BY <3>3, <3>4, <3>5, <3>7
    <2>5. QED
      BY <1>1, <2>1, <2>2, <2>3, <2>4
  <1>3. /\ n <= Len(sources)
        /\ \A i \in 1..n : paths[i] = sources[i]
        /\ \A i \in 1..Len(sources) : i > n =>
              \A p \in FoundIn(sources[i]) : Canonical(p) \in processed
    BY <1>1 DEF IInv, SourcesAreRead
  <1>4. /\ path = sources[n] /\ n \in 1..Len(sources) /\ path \in SourcePaths /\ path # NoSource
        /\ FoundIn(path) \subseteq Found
    <2>1. path = sources[n] /\ n \in 1..Len(sources)
      BY <1>2, <1>3
    <2>2. path \in SourcePaths
      BY <1>2, <2>1, ElementOfSeq
    <2>3. path # NoSource
      BY <2>2, HeaderSearchAssumption DEF SourcePaths
    <2>4. QED
      BY <2>1, <2>2, <2>3, FoundIsOfSources
  <1>5. /\ \A q : /\ Canonical(q)' = Canonical(q) /\ Entries(q)' = Entries(q)
                  /\ IsDirectory(q)' <=> IsDirectory(q)
        /\ \A q : FoundIn(q)' = FoundIn(q)
        /\ Found' = Found
    BY <1>1, DiskIsFixed, SourcesAreFixed, SearchIsFixed
  <1> HIDE DEF path
  <1>6. ASSUME headers' \in Seq(Found'), EachHeaderOnce', processed \subseteq processed',
               status' = "searching", ProcessedAreListed', IteratorIsOfSource',
               \A p \in FoundIn(path) : Canonical(p) \in processed'
                                        \/ (path = source' /\ p \in entries')
        PROVE  IInv'
    <2>1. Types'
      BY <1>1, <1>2, <1>6 DEF IInv, Types
    <2>2. SourcesAreRead'
      <3>1. \A i \in 1..Len(sources) : i > n - 1 =>
               \A p \in FoundIn(sources[i]) :
                   Canonical(p) \in processed' \/ (sources[i] = source' /\ p \in entries')
        BY <1>2, <1>3, <1>4, <1>6
      <3>2. \A i \in 1..(n - 1) : paths'[i] = sources[i]
        BY <1>2, <1>3
      <3>3. n - 1 <= Len(sources)
        BY <1>2, <1>3
      <3>4. QED
        BY <1>1, <1>2, <1>5, <3>1, <3>2, <3>3 DEF SourcesAreRead
    <2>3. OptionsAreChecked'
      BY <1>1 DEF IInv, OptionsAreChecked
    <2>4. QED
      BY <1>6, <2>1, <2>2, <2>3 DEF IInv, NothingFound, ExclusionsAreApplied, OthersAreExcluded
  <1>7. ASSUME headers' = headers, processed' = processed
        PROVE  /\ headers' \in Seq(Found') /\ EachHeaderOnce' /\ ProcessedAreListed'
    <2>1. EachHeaderOnce'
      BY <1>1, <1>7, ListIsFixed DEF IInv
    <2>2. QED
      BY <1>1, <1>5, <1>7, <2>1 DEF IInv, Types, ProcessedAreListed
  <1>8. CASE SkipStrangeGlob(path)
    <2>1. /\ status' = "searching" /\ source' = NoSource /\ entries' = {}
          /\ headers' = headers /\ processed' = processed
      BY <1>1, <1>8 DEF SkipStrangeGlob
    <2>2. FoundIn(path) = {}
      BY <1>8, FoundByKind DEF SkipStrangeGlob
    <2>3. IteratorIsOfSource'
      BY <2>1 DEF IteratorIsOfSource
    <2>4. QED
      BY <1>6, <1>7, <2>1, <2>2, <2>3
  <1>9. CASE EnterGlob(path)
    <2>1. /\ status' = "searching" /\ source' = path /\ entries' = Entries(MostCommonPath(path))
          /\ HasGlobPattern(path) /\ IsDirectory(MostCommonPath(path))
          /\ headers' = headers /\ processed' = processed
      BY <1>1, <1>9 DEF EnterGlob
    <2>2. FoundIn(path) \subseteq Entries(MostCommonPath(path))
      BY <2>1, FoundByKind
    <2>3. IteratorIsOfSource'
      BY <1>1, <1>4, <1>5, <2>1 DEF IteratorIsOfSource
    <2>4. QED
      BY <1>6, <1>7, <2>1, <2>2, <2>3
  <1>10. CASE ListFile(path)
    <2>1. /\ source' = NoSource /\ entries' = {} /\ List(path)
          /\ ~HasGlobPattern(path) /\ ~IsDirectory(path)
      BY <1>1, <1>10 DEF ListFile
    <2>2. FoundIn(path) = {e \in {path} : HasValidExtension(e)}
      BY <2>1, FoundByKind
    <2>3. HasValidExtension(path) => path \in Found
      BY <1>4, <2>2
    <2>4. /\ headers' \in Seq(Found') /\ EachHeaderOnce' /\ processed \subseteq processed'
          /\ \/ status' = "terminated"
             \/ /\ status' = "searching" /\ ProcessedAreListed'
                /\ HasValidExtension(path) => Canonical(path) \in processed'
      BY <1>1, <2>1, <2>3, ListStep
    <2>5. CASE status' = "terminated"
      <3>1. Types'
        BY <1>1, <1>2, <2>4, <2>5 DEF IInv, Types
      <3>2. QED
        BY <2>4, <2>5, <3>1, FailedStep
    <2>6. CASE status' # "terminated"
      <3>1. IteratorIsOfSource'
        BY <2>1 DEF IteratorIsOfSource
      <3>2. QED
        BY <1>6, <2>2, <2>4, <2>6, <3>1
    <2>7. QED
      BY <2>5, <2>6
  <1>11. CASE EnterDirectory(path)
    <2>1. /\ status' = "searching" /\ source' = path /\ entries' = Entries(path)
          /\ ~HasGlobPattern(path) /\ IsDirectory(path)
          /\ headers' = headers /\ processed' = processed
      BY <1>1, <1>11 DEF EnterDirectory
    <2>2. FoundIn(path) \subseteq Entries(path)
      BY <2>1, FoundByKind
    <2>3. IteratorIsOfSource'
      BY <1>1, <1>4, <1>5, <2>1 DEF IteratorIsOfSource
    <2>4. QED
      BY <1>6, <1>7, <2>1, <2>2, <2>3
  <1>12. QED
    BY <1>8, <1>9, <1>10, <1>11 DEF NextSource, path
LEMMA EntryStep == ASSUME IInv, VisitEntry PROVE IInv'
  <1> DEFINE sources == options.sources
             IsPassedOver(p) == HasGlobPattern(source) /\ Exists(p) /\ ~Matches(source, Canonical(p))
  <1>1. PICK p \in entries :
           /\ IF IsPassedOver(p) THEN UNCHANGED <<status, processed, headers>> ELSE List(p)
           /\ entries' = entries \ {p}
    BY DEF VisitEntry
  <1>2. /\ status = "searching" /\ paths' = paths /\ source' = source /\ disk' = disk
        /\ args' = args /\ options' = options /\ exclusions' = exclusions
    BY DEF VisitEntry, Unchanging
  <1>3. /\ source # NoSource
        /\ \E i \in 1..Len(sources) : sources[i] = source
        /\ ~HasGlobPattern(source) => IsDirectory(source) /\ entries \subseteq Entries(source)
        /\ HasGlobPattern(source) => /\ IsDirectory(MostCommonPath(source))
                                     /\ entries \subseteq Entries(MostCommonPath(source))
    BY <1>1, <1>2 DEF IInv, IteratorIsOfSource
  <1>4. FoundIn(source) \subseteq Found
    BY <1>3, FoundIsOfSources
  <1>5. /\ \A q : /\ Canonical(q)' = Canonical(q) /\ Entries(q)' = Entries(q)
                  /\ IsDirectory(q)' <=> IsDirectory(q)
        /\ \A q : FoundIn(q)' = FoundIn(q)
        /\ Found' = Found
    BY <1>2, DiskIsFixed, SourcesAreFixed, SearchIsFixed
  <1>6. IteratorIsOfSource'
    <2>1. entries' \subseteq entries
      BY <1>1
    <2>2. QED
      BY <1>2, <1>3, <1>5, <2>1 DEF IteratorIsOfSource
  <1>7. IsPassedOver(p) => p \notin FoundIn(source)
    BY <1>3, FoundByKind
  <1>8. ~IsPassedOver(p) /\ HasValidExtension(p) /\ Exists(p) => p \in FoundIn(source)
    BY <1>1, <1>3, FoundByKind
  <1>9. \A q \in FoundIn(source) : HasValidExtension(q)
    BY DEF FoundIn
  <1>10. /\ headers' \in Seq(Found') /\ EachHeaderOnce' /\ processed \subseteq processed'
         /\ \/ status' = "terminated"
            \/ /\ status' = "searching" /\ ProcessedAreListed'
               /\ p \in FoundIn(source) => Canonical(p) \in processed'
    <2>1. CASE IsPassedOver(p)
      <3>1. status' = status /\ processed' = processed /\ headers' = headers
        BY <1>1, <2>1
      <3>2. EachHeaderOnce'
        BY <1>2, <3>1, ListIsFixed DEF IInv
      <3>3. ProcessedAreListed'
        BY <1>5, <3>1 DEF IInv, ProcessedAreListed
      <3>4. headers' \in Seq(Found')
        BY <1>5, <3>1 DEF IInv, Types
      <3>5. QED
        BY <1>2, <1>7, <2>1, <3>1, <3>2, <3>3, <3>4
    <2>2. CASE ~IsPassedOver(p)
      <3>1. List(p)
        BY <1>1, <2>2
      <3>2. HasValidExtension(p) /\ Exists(p) => p \in Found
        BY <1>4, <1>8, <2>2
      <3> HIDE DEF IsPassedOver
      <3>3. /\ headers' \in Seq(Found') /\ EachHeaderOnce' /\ processed \subseteq processed'
            /\ \/ status' = "terminated"
               \/ /\ status' = "searching" /\ ProcessedAreListed'
                  /\ HasValidExtension(p) => Canonical(p) \in processed'
        BY <1>2, <3>1, <3>2, ListStep
      <3>4. QED
        BY <1>9, <3>3
    <2>3. QED
      BY <2>1, <2>2
  <1>11. Types'
    BY <1>2, <1>10 DEF IInv, Types
  <1>12. CASE status' = "terminated"
    BY <1>10, <1>11, <1>12, FailedStep
  <1>13. CASE status' # "terminated"
    <2>1. SourcesAreRead'
      <3>1. /\ Len(paths) <= Len(sources)
            /\ \A i \in 1..Len(paths) : paths[i] = sources[i]
            /\ \A i \in 1..Len(sources) : i > Len(paths) =>
                  \A q \in FoundIn(sources[i]) :
                      Canonical(q) \in processed \/ (sources[i] = source /\ q \in entries)
        BY <1>2 DEF IInv, SourcesAreRead
      <3>2. \A i \in 1..Len(sources) : i > Len(paths) =>
               \A q \in FoundIn(sources[i]) :
                   Canonical(q) \in processed' \/ (sources[i] = source /\ q \in entries')
        <4>1. SUFFICES ASSUME NEW i \in 1..Len(sources), i > Len(paths),
                              NEW q \in FoundIn(sources[i])
                       PROVE  Canonical(q) \in processed' \/ (sources[i] = source /\ q \in entries')
          OBVIOUS
        <4>2. CASE Canonical(q) \in processed
          BY <1>10, <4>2
        <4>3. CASE sources[i] = source /\ q \in entries
          BY <1>1, <1>10, <1>13, <4>1, <4>3
        <4>4. QED
          BY <3>1, <4>1, <4>2, <4>3
      <3>3. QED
        BY <1>2, <1>5, <3>1, <3>2 DEF SourcesAreRead
    <2>2. OptionsAreChecked'
      BY <1>2 DEF IInv, OptionsAreChecked
    <2>3. QED
      BY <1>6, <1>10, <1>11, <1>13, <2>1, <2>2 DEF IInv, NothingFound, ExclusionsAreApplied,
            OthersAreExcluded
  <1>14. QED
    BY <1>12, <1>13

LEMMA LeaveStep == ASSUME IInv, LeaveSource PROVE IInv'
  <1>1. /\ status = "searching" /\ status' = status /\ source' = NoSource /\ entries = {}
        /\ entries' = {} /\ paths' = paths /\ processed' = processed /\ headers' = headers
        /\ disk' = disk /\ args' = args /\ options' = options /\ exclusions' = exclusions
    BY DEF LeaveSource, Unchanging
  <1>2. /\ \A q : Canonical(q)' = Canonical(q) /\ FoundIn(q)' = FoundIn(q)
        /\ Found' = Found
    BY <1>1, DiskIsFixed, SourcesAreFixed, SearchIsFixed
  <1>3. Types'
    BY <1>1, <1>2 DEF IInv, Types
  <1>4. EachHeaderOnce'
    BY <1>1, ListIsFixed DEF IInv
  <1>5. IteratorIsOfSource' /\ ProcessedAreListed' /\ OptionsAreChecked'
    BY <1>1, <1>2 DEF IInv, IteratorIsOfSource, ProcessedAreListed, OptionsAreChecked
  <1>6. SourcesAreRead'
    BY <1>1, <1>2 DEF IInv, SourcesAreRead
  <1>7. QED
    BY <1>1, <1>3, <1>4, <1>5, <1>6 DEF IInv, NothingFound, ExclusionsAreApplied, OthersAreExcluded
-----------------------------------------------------------------------------
(* GetHeaderFiles: what is excluded *)

LEMMA EndStep == ASSUME IInv, EndSearch PROVE IInv'
  <1>1. /\ status = "searching" /\ source = NoSource /\ entries = {} /\ paths = <<>>
        /\ status' = "excluding" /\ exclusions' = options.excluded
        /\ paths' = paths /\ headers' = headers /\ disk' = disk /\ args' = args
        /\ options' = options
    BY DEF EndSearch, IInv, IteratorIsOfSource
  <1>2. /\ \A q : Canonical(q)' = Canonical(q)
        /\ Found' = Found
    BY <1>1, DiskIsFixed, SearchIsFixed
  <1>3. Types'
    BY <1>1, <1>2 DEF IInv, Types
  <1>4. EachHeaderOnce'
    BY <1>1, ListIsFixed DEF IInv
  <1>5. OptionsAreChecked'
    BY <1>1 DEF IInv, OptionsAreChecked
  <1>6. ExclusionsAreApplied'
    <2>1. Len(options.excluded) \in Nat
      BY LenProperties DEF IInv, Types
    <2>2. QED
      BY <1>1, <2>1 DEF ExclusionsAreApplied
  <1>7. OthersAreExcluded'
    <2>1. ASSUME NEW path \in Found
          PROVE  \E k \in 1..Len(headers) : Canonical(headers[k]) = Canonical(path)
      <3>1. PICK i \in 1..Len(options.sources) : path \in FoundIn(options.sources[i])
        BY <2>1 DEF Found
      <3>2. Len(paths) = 0 /\ i > 0
        BY <1>1
      <3>3. Canonical(path) \in processed
        BY <1>1, <3>1, <3>2 DEF IInv, SourcesAreRead
      <3>4. QED
        BY <1>1, <3>3 DEF IInv, ProcessedAreListed
    <2>2. QED
      BY <1>1, <1>2, <2>1 DEF OthersAreExcluded
  <1>8. QED
    BY <1>1, <1>3, <1>4, <1>5, <1>6, <1>7 DEF IInv, NothingFound, IteratorIsOfSource,
          ProcessedAreListed, SourcesAreRead

LEMMA ExcludeStep == ASSUME IInv, Exclude PROVE IInv'
  <1> DEFINE string == Head(exclusions)
             all == options.excluded
             n == Len(all) - Len(exclusions)
             Kept == {headers[k] : k \in {j \in 1..Len(headers) : ~IsExcluded(headers[j], string)}}
  <1>1. /\ status = "excluding" /\ status' = status /\ exclusions # <<>>
        /\ headers' = Selected(headers, Kept) /\ exclusions' = Tail(exclusions)
        /\ disk' = disk /\ args' = args /\ options' = options /\ paths' = paths
    BY DEF Exclude, Erased
  <1>2. /\ \A q : Canonical(q)' = Canonical(q)
        /\ Found' = Found
    BY <1>1, DiskIsFixed, SearchIsFixed
  <1>3. \A q : Excluded(q)' <=> Excluded(q)
    BY <1>1 DEF Excluded
  <1>4. headers \in Seq(Found) /\ Len(headers) \in Nat
    BY LenProperties DEF IInv, Types
  <1>5. \A k \in 1..Len(headers) : headers[k] \in Kept <=> ~IsExcluded(headers[k], string)
    OBVIOUS
  <1>6. /\ headers' \in Seq(Found)
        /\ \E at \in Seq(1..Len(headers)) : Picks(at, headers, Kept)
    <2> HIDE DEF Kept
    <2>1. QED
      BY <1>1, <1>4, SelectedProperties
  <1>7. PICK at \in Seq(1..Len(headers)) : Picks(at, headers, Kept)
    BY <1>6
  <1> HIDE DEF Kept
  <1>8. /\ Len(headers') = Len(at) /\ Len(at) \in Nat
        /\ \A i \in 1..Len(at) : at[i] \in 1..Len(headers)
        /\ \A i \in 1..Len(at) : headers'[i] = headers[at[i]] /\ headers[at[i]] \in Kept
        /\ \A i, j \in 1..Len(at) : i < j => at[i] < at[j]
        /\ \A k \in 1..Len(headers) : headers[k] \in Kept => \E i \in 1..Len(at) : at[i] = k
    <2>1. Len(at) \in Nat
      BY <1>7, LenProperties
    <2>2. \A i \in 1..Len(at) : at[i] \in 1..Len(headers)
      BY <1>7, ElementOfSeq
    <2>3. QED
      BY <1>1, <1>7, <2>1, <2>2 DEF Picks
  <1>9. /\ exclusions \in Seq(Strings) /\ Len(exclusions) \in Nat /\ Len(exclusions) >= 1
        /\ string = exclusions[1] /\ string \in Strings
        /\ exclusions' \in Seq(Strings) /\ Len(exclusions') = Len(exclusions) - 1
        /\ \A i \in 1..(Len(exclusions) - 1) : exclusions'[i] = exclusions[i + 1]
        /\ all \in Seq(Strings) /\ Len(all) \in Nat
    <2>1. exclusions \in Seq(Strings) /\ all \in Seq(Strings)
      BY DEF IInv, Types
    <2>2. Len(exclusions) \in Nat /\ Len(exclusions) >= 1 /\ Len(all) \in Nat
      BY <1>1, <2>1, LenProperties, EmptySeq
    <2>3. QED
      BY <1>1, <2>1, <2>2, HeadTailProperties
  <1>10. /\ Len(exclusions) <= Len(all)
         /\ \A i \in 1..Len(exclusions) : exclusions[i] = all[i + n]
         /\ \A i \in 1..Len(all) : i <= n =>
               \A k \in 1..Len(headers) : ~IsExcluded(headers[k], all[i])
    BY <1>1 DEF IInv, ExclusionsAreApplied
  <1>11. n + 1 \in 1..Len(all) /\ string = all[n + 1]
    BY <1>9, <1>10
  <1> HIDE DEF string
  <1>12. Types'
    BY <1>1, <1>2, <1>6, <1>9 DEF IInv, Types
  <1>13. EachHeaderOnce'
    <2>1. ASSUME NEW i \in 1..Len(at), NEW j \in 1..Len(at), i # j
          PROVE  Canonical(headers'[i]) # Canonical(headers'[j])
      <3>1. at[i] \in 1..Len(headers) /\ at[j] \in 1..Len(headers) /\ at[i] # at[j]
        BY <1>8, <2>1
      <3>2. Canonical(headers[at[i]]) # Canonical(headers[at[j]])
        BY <3>1 DEF IInv, EachHeaderOnce
      <3>3. QED
        BY <1>8, <3>2
    <2>2. QED
      BY <1>2, <1>8, <2>1 DEF EachHeaderOnce
  <1>14. ExclusionsAreApplied'
    <2>1. Len(all) - Len(exclusions') = n + 1 /\ Len(exclusions') <= Len(all)
      BY <1>9, <1>10
    <2>2. \A i \in 1..Len(exclusions') : exclusions'[i] = all[i + (n + 1)]
      <3>1. SUFFICES ASSUME NEW i \in 1..Len(exclusions') PROVE exclusions'[i] = all[i + (n + 1)]
        OBVIOUS
      <3>2. i + 1 \in 1..Len(exclusions) /\ exclusions'[i] = exclusions[i + 1]
        BY <1>9
      <3>3. (i + 1) + n = i + (n + 1)
        <4>1. n \in Int /\ i \in Int
          BY <1>9
        <4> HIDE DEF n
        <4>2. QED
          BY <4>1
      <3>4. exclusions[i + 1] = all[(i + 1) + n]
        BY <1>10, <3>2
      <3>5. QED
        BY <3>2, <3>3, <3>4
    <2>3. \A i \in 1..Len(all) : i <= n + 1 =>
             \A k \in 1..Len(headers') : ~IsExcluded(headers'[k], all[i])
      <3>1. SUFFICES ASSUME NEW i \in 1..Len(all), i <= n + 1, NEW k \in 1..Len(headers')
                     PROVE  ~IsExcluded(headers'[k], all[i])
        OBVIOUS
      <3>2. /\ at[k] \in 1..Len(headers) /\ headers'[k] = headers[at[k]]
            /\ headers[at[k]] \in Kept
        BY <1>8
      <3>3. CASE i <= n
        BY <1>10, <3>2, <3>3
      <3>4. CASE i = n + 1
        BY <1>5, <1>11, <3>2, <3>4
      <3>5. QED
        <4>1. n \in Int /\ i \in Int
          BY <1>9
        <4> HIDE DEF n
        <4>2. i <= n \/ i = n + 1
          BY <3>1, <4>1
        <4>3. QED
          BY <3>3, <3>4, <4>2
    <2> HIDE DEF n, all
    <2>4. QED
      <3>1. options'.excluded = all /\ status' = "excluding"
        BY <1>1 DEF all
      <3>2. QED
        BY <2>1, <2>2, <2>3, <3>1 DEF ExclusionsAreApplied
  <1>15. OthersAreExcluded'
    <2>1. ASSUME NEW path \in Found
          PROVE  \/ \E i \in 1..Len(headers') : Canonical(headers'[i]) = Canonical(path)
                 \/ \E other \in Found : Canonical(other) = Canonical(path) /\ Excluded(other)
      <3>1. CASE \E other \in Found : Canonical(other) = Canonical(path) /\ Excluded(other)
        BY <3>1
      <3>2. CASE \E i \in 1..Len(headers) : Canonical(headers[i]) = Canonical(path)
        <4>1. PICK i \in 1..Len(headers) : Canonical(headers[i]) = Canonical(path)
          BY <3>2
        <4>2. CASE IsExcluded(headers[i], string)
          <5>1. headers[i] \in Found
            BY <1>4, ElementOfSeq
          <5>2. Excluded(headers[i])
            BY <1>11, <4>2 DEF Excluded
          <5>3. QED
            BY <4>1, <5>1, <5>2
        <4>3. CASE ~IsExcluded(headers[i], string)
          <5>1. PICK k \in 1..Len(at) : at[k] = i
            BY <1>5, <1>8, <4>3
          <5>2. k \in 1..Len(headers') /\ headers'[k] = headers[i]
            BY <1>8, <5>1
          <5>3. QED
            BY <4>1, <5>2
        <4>4. QED
          BY <4>2, <4>3
      <3>3. QED
        BY <1>1, <3>1, <3>2 DEF IInv, OthersAreExcluded
    <2>2. QED
      BY <1>2, <1>3, <2>1 DEF OthersAreExcluded
  <1>16. OptionsAreChecked'
    BY <1>1 DEF IInv, OptionsAreChecked
  <1>17. QED
    BY <1>1, <1>12, <1>13, <1>14, <1>15, <1>16 DEF IInv, NothingFound, IteratorIsOfSource,
          ProcessedAreListed, SourcesAreRead

LEMMA ReturnStep == ASSUME IInv, Return PROVE IInv'
  <1>1. /\ status = "excluding" /\ status' = "listed" /\ exclusions = <<>> /\ exclusions' = <<>>
        /\ disk' = disk /\ args' = args /\ options' = options /\ paths' = paths
        /\ headers' = headers
    BY DEF Return, search
  <1>2. /\ \A q : Canonical(q)' = Canonical(q)
        /\ Found' = Found
        /\ \A q : Excluded(q)' <=> Excluded(q)
    BY <1>1, DiskIsFixed, SearchIsFixed DEF Excluded
  <1>3. Types'
    BY <1>1, <1>2 DEF IInv, Types
  <1>4. EachHeaderOnce'
    BY <1>1, ListIsFixed DEF IInv
  <1>5. OptionsAreChecked'
    BY <1>1 DEF IInv, OptionsAreChecked
  <1>6. ExclusionsAreApplied'
    BY <1>1 DEF IInv, ExclusionsAreApplied
  <1>7. OthersAreExcluded'
    BY <1>1, <1>2 DEF IInv, OthersAreExcluded
  <1>8. QED
    BY <1>1, <1>3, <1>4, <1>5, <1>6, <1>7 DEF IInv, NothingFound, IteratorIsOfSource,
          ProcessedAreListed, SourcesAreRead

LEMMA StutterStep == ASSUME IInv, UNCHANGED vars PROVE IInv'
  <1>1. /\ disk' = disk /\ args' = args /\ options' = options /\ status' = status
        /\ paths' = paths /\ source' = source /\ entries' = entries
        /\ processed' = processed /\ headers' = headers /\ exclusions' = exclusions
    BY DEF vars, search
  <1>2. /\ \A q : /\ Canonical(q)' = Canonical(q) /\ Entries(q)' = Entries(q)
                  /\ IsDirectory(q)' <=> IsDirectory(q)
        /\ \A q : FoundIn(q)' = FoundIn(q)
        /\ Found' = Found
        /\ \A q : Excluded(q)' <=> Excluded(q)
    BY <1>1, DiskIsFixed, SourcesAreFixed, SearchIsFixed DEF Excluded
  <1>3. Types' /\ NothingFound' /\ OptionsAreChecked' /\ IteratorIsOfSource'
    BY <1>1, <1>2 DEF IInv, Types, NothingFound, OptionsAreChecked, IteratorIsOfSource
  <1>4. ProcessedAreListed' /\ SourcesAreRead' /\ ExclusionsAreApplied' /\ OthersAreExcluded'
    BY <1>1, <1>2 DEF IInv, ProcessedAreListed, SourcesAreRead, ExclusionsAreApplied,
                      OthersAreExcluded
  <1>5. EachHeaderOnce'
    BY <1>1, ListIsFixed DEF IInv
  <1>6. QED
    BY <1>3, <1>4, <1>5 DEF IInv

-----------------------------------------------------------------------------

LEMMA Invariance == Spec => []IInv
  <1>1. IInv /\ [Next]_vars => IInv'
    BY ArgumentStep, OptionsStep, SourceStep, EntryStep, LeaveStep, EndStep, ExcludeStep,
       ReturnStep, StutterStep DEF Next
  <1>2. QED
    BY InitStep, <1>1, PTL DEF Spec

\* The list has no two paths to one file, at any time of the search and however
\* many sources, spellings and links lead to it.
THEOREM HeadersAreListedOnce == Spec => []EachHeaderOnce
  BY Invariance, PTL DEF IInv

-----------------------------------------------------------------------------
(* Patterns *)

LEMMA DiskIsOfDisks == Spec => [](disk \in Disks)
  <1>1. Init => disk \in Disks
    BY DEF Init
  <1>2. [Next]_vars => disk' = disk
    BY DEF Next, vars, ParseArgument, EndOptions, NextSource, TakeSource, Unchanging,
       VisitEntry, LeaveSource, EndSearch, Exclude, Return
  <1>3. disk \in Disks /\ [Next]_vars => (disk \in Disks)'
    BY <1>2
  <1>4. QED
    BY <1>1, <1>3, PTL DEF Spec

LEMMA SourcesAreSequences == SourcePaths \subseteq Seq(STRING)
  BY HeaderSearchAssumption DEF SourcePaths

\* Names in sequences of names.
LEMMA AbsoluteIsPath ==
    ASSUME NEW p \in Seq(STRING)
    PROVE  Absolute(p) \in Seq(STRING)
  <1>1. <<Root>> \in Seq(STRING)
    BY HeaderSearchAssumption
  <1>2. p # <<>> => Tail(p) \in Seq(STRING)
    BY HeadTailProperties
  <1>3. QED
    BY <1>1, <1>2, ConcatProperties DEF Absolute

LEMMA PartIsPath ==
    ASSUME NEW p \in Seq(STRING), NEW m \in Nat \ {0}, NEW n \in Int, n <= Len(p)
    PROVE  SubSeq(p, m, n) \in Seq(STRING)
  <1>1. \A k \in m..n : p[k] \in STRING
    BY LenProperties, ElementOfSeq
  <1>2. QED
    BY <1>1, SubSeqProperties

LEMMA CanonicalIsPath ==
    ASSUME disk \in Disks, NEW p \in Seq(STRING)
    PROVE  Canonical(p) \in Seq(STRING)
  <1> DEFINE whole == Absolute(p)
             ends == {k \in 1..Len(whole) : SubSeq(whole, 1, k) \in DOMAIN disk.links}
             at == CHOOSE k \in ends : TRUE
  <1>1. whole \in Seq(STRING) /\ Len(whole) \in Nat
    BY AbsoluteIsPath, LenProperties
  <1>2. Canonical(p) = IF ends = {} THEN whole
                       ELSE disk.links[SubSeq(whole, 1, at)] \o SubSeq(whole, at + 1, Len(whole))
    BY DEF Canonical
  <1>3. CASE ends = {}
    BY <1>1, <1>2, <1>3
  <1>4. CASE ends # {}
    <2>1. at \in ends
      BY <1>4
    <2> HIDE DEF at, whole
    <2>2. at \in Nat \ {0} /\ SubSeq(whole, 1, at) \in DOMAIN disk.links
      BY <1>1, <2>1
    <2>3. disk.links[SubSeq(whole, 1, at)] \in Seq(STRING)
      BY <2>2, HeaderSearchAssumption
    <2>4. SubSeq(whole, at + 1, Len(whole)) \in Seq(STRING)
      BY <1>1, <2>2, PartIsPath
    <2>5. QED
      BY <1>2, <1>4, <2>3, <2>4, ConcatProperties
  <1>5. QED
    BY <1>3, <1>4

LEMMA EntriesArePaths ==
    ASSUME disk \in Disks, NEW p \in Seq(STRING), NEW e \in Entries(p)
    PROVE  e \in Seq(STRING)
  <1> DEFINE top == Canonical(p)
             nodes == disk.files \cup disk.directories \cup DOMAIN disk.links
  <1>1. PICK n \in nodes : e = p \o SubSeq(n, Len(top) + 1, Len(n))
    BY DEF Entries
  <1>2. n \in Seq(STRING) /\ Len(n) \in Nat
    <2>1. n \in Seq(STRING)
      BY HeaderSearchAssumption
    <2>2. QED
      BY <2>1, LenProperties
  <1>3. Len(top) + 1 \in Nat \ {0}
    <2>1. Len(top) \in Nat
      BY CanonicalIsPath, LenProperties
    <2>2. QED
      BY <2>1
  <1> HIDE DEF top, nodes
  <1>4. SubSeq(n, Len(top) + 1, Len(n)) \in Seq(STRING)
    BY <1>2, <1>3, PartIsPath
  <1>5. QED
    BY <1>1, <1>4, ConcatProperties

LEMMA CommonPathIsPath ==
    ASSUME NEW glob \in Seq(STRING), HasGlobPattern(glob)
    PROVE  MostCommonPath(glob) \in Seq(STRING)
  <1> DEFINE stars == {k \in 1..Len(glob) : glob[k] = "*"}
             first == CHOOSE k \in stars : \A j \in stars : k <= j
  <1>1. Len(glob) \in Nat
    BY LenProperties
  <1>2. stars \in SUBSET Nat /\ stars # {}
    BY <1>1 DEF HasGlobPattern
  <1>3. \E k \in stars : \A j \in stars : k <= j
    <2> HIDE DEF stars
    <2> QED
      BY <1>2, SmallestNumber
  <1>4. first \in stars
    BY <1>3
  <1>5. first - 1 \in Int /\ first - 1 <= Len(glob)
    <2> HIDE DEF first
    <2> QED
      BY <1>1, <1>4
  <1>6. MostCommonPath(glob) = SubSeq(glob, 1, first - 1)
    BY DEF MostCommonPath
  <1> HIDE DEF first
  <1>7. QED
    BY <1>5, <1>6, PartIsPath

\* A path that matches a pattern has the names of it.
LEMMA MatchesHaveNames ==
    ASSUME NEW glob \in Seq(STRING), NEW path \in Seq(STRING), Matches(glob, path)
    PROVE  HasNamesOf(glob, path)
  <1> DEFINE n == Len(glob) + 1
             m == Len(path) + 1
             fixed == {k \in 1..Len(glob) : Plain(glob[k])}
  <1>1. Len(glob) \in Nat /\ Len(path) \in Nat
    BY LenProperties
  <1>2. PICK cut \in [1..n -> 1..m] :
           \A k \in 1..Len(glob) :
              /\ cut[k] <= cut[k + 1]
              /\ Fits(glob[k], SubSeq(path, cut[k], cut[k + 1] - 1), k = 1)
    BY DEF Matches
  <1> HIDE DEF n, m
  <1>3. n = Len(glob) + 1 /\ m = Len(path) + 1
    BY DEF n, m
  <1>4. \A k \in 1..n : cut[k] \in 1..m
    BY <1>2
  <1>5. \A i, j \in 1..n : i <= j => cut[i] <= cut[j]
    <2> DEFINE Far(d) == \A i \in 1..n : i + d <= n => cut[i] <= cut[i + d]
               All == {d \in Nat : Far(d)}
    <2>1. Far(0)
      BY <1>1, <1>3, <1>4
    <2>2. ASSUME NEW d \in Nat, Far(d) PROVE Far(d + 1)
      <3> SUFFICES ASSUME NEW i \in 1..n, i + (d + 1) <= n PROVE cut[i] <= cut[i + (d + 1)]
        OBVIOUS
      <3>1. i + d \in 1..Len(glob) /\ i + d \in 1..n /\ i + (d + 1) \in 1..n
            /\ i + (d + 1) = (i + d) + 1
        BY <1>1, <1>3
      <3>2. cut[i] <= cut[i + d] /\ cut[i + d] <= cut[i + (d + 1)]
        BY <1>2, <2>2, <3>1
      <3>3. cut[i] \in Int /\ cut[i + d] \in Int /\ cut[i + (d + 1)] \in Int
        BY <1>1, <1>3, <1>4, <3>1
      <3>4. QED
        BY <3>2, <3>3
    <2>3. Nat \subseteq All
      <3>1. 0 \in All /\ \A d \in Nat : d \in All => d + 1 \in All
        <4> HIDE DEF Far
        <4> QED
          BY <2>1, <2>2
      <3> HIDE DEF All
      <3>2. QED
        BY <3>1, AllNumbers
    <2>4. \A d \in Nat : Far(d)
      BY <2>3
    <2>5. SUFFICES ASSUME NEW i \in 1..n, NEW j \in 1..n, i <= j PROVE cut[i] <= cut[j]
      OBVIOUS
    <2>6. j - i \in Nat /\ i + (j - i) = j
      BY <1>1, <1>3, <2>5
    <2>7. Far(j - i)
      <3> HIDE DEF Far
      <3> QED
        BY <2>4, <2>6
    <2>8. i + (j - i) <= n => cut[i] <= cut[i + (j - i)]
      BY <2>7
    <2>9. QED
      BY <1>1, <1>3, <2>5, <2>6, <2>8
  <1>6. ASSUME NEW k \in fixed
        PROVE  cut[k + 1] = cut[k] + 1 /\ cut[k] \in 1..Len(path) /\ path[cut[k]] = glob[k]
    <2> DEFINE part == SubSeq(path, cut[k], cut[k + 1] - 1)
    <2>1. /\ k \in 1..Len(glob) /\ cut[k] <= cut[k + 1]
          /\ cut[k] \in 1..m /\ cut[k + 1] \in 1..m
      BY <1>1, <1>2, <1>3, <1>4
    <2>2. part = <<glob[k]>>
      <3>1. Fits(glob[k], part, k = 1) /\ Plain(glob[k])
        BY <1>2, <2>1
      <3>2. QED
        BY <3>1 DEF Fits, Plain
    <2>3. Len(part) = 1 /\ part[1] = glob[k]
      <3>1. Len(<<glob[k]>>) = 1 /\ <<glob[k]>>[1] = glob[k]
        OBVIOUS
      <3> HIDE DEF part
      <3>2. QED
        BY <2>2, <3>1
    <2>4. \A i \in cut[k]..(cut[k + 1] - 1) : path[i] \in STRING
      <3>1. \A i \in cut[k]..(cut[k + 1] - 1) : i \in 1..Len(path)
        BY <1>1, <1>3, <2>1
      <3>2. QED
        BY <3>1, ElementOfSeq
    <2>5. cut[k] \in Int /\ cut[k + 1] \in Int /\ cut[k + 1] - 1 \in Int
      BY <1>1, <1>3, <2>1
    <2>6. /\ Len(part) = IF cut[k] <= cut[k + 1] - 1 THEN (cut[k + 1] - 1) - cut[k] + 1 ELSE 0
          /\ \A i \in 1..((cut[k + 1] - 1) - cut[k] + 1) : part[i] = path[cut[k] + i - 1]
      <3> DEFINE a == cut[k]
                 b == cut[k + 1] - 1
      <3>1. a \in Int /\ b \in Int /\ \A i \in a..b : path[i] \in STRING
        BY <2>4, <2>5
      <3> HIDE DEF a, b
      <3>2. /\ Len(SubSeq(path, a, b)) = IF a <= b THEN b - a + 1 ELSE 0
            /\ \A i \in 1..(b - a + 1) : SubSeq(path, a, b)[i] = path[a + i - 1]
        BY <3>1, SubSeqProperties
      <3>3. QED
        BY <3>2 DEF a, b
    <2> HIDE DEF part
    <2>7. cut[k + 1] = cut[k] + 1
      <3>1. CASE cut[k] <= cut[k + 1] - 1
        <4>1. (cut[k + 1] - 1) - cut[k] + 1 = 1
          BY <2>3, <2>6, <3>1
        <4> DEFINE a == cut[k]
                   b == cut[k + 1]
        <4>2. a \in Int /\ b \in Int /\ (b - 1) - a + 1 = 1
          BY <2>5, <4>1
        <4> HIDE DEF a, b
        <4>3. b = a + 1
          BY ONLY <4>2
        <4>4. QED
          BY <4>3 DEF a, b
      <3>2. CASE ~(cut[k] <= cut[k + 1] - 1)
        BY <2>3, <2>6, <3>2
      <3>3. QED
        BY <3>1, <3>2
    <2>8. part[1] = path[cut[k] + 1 - 1] /\ cut[k] + 1 - 1 = cut[k]
      <3>1. (cut[k + 1] - 1) - cut[k] + 1 = 1 /\ cut[k] + 1 - 1 = cut[k]
        BY <2>5, <2>7
      <3>2. 1 \in 1..((cut[k + 1] - 1) - cut[k] + 1)
        BY <3>1
      <3>3. QED
        BY <2>6, <3>1, <3>2
    <2>9. QED
      BY <1>1, <1>3, <2>1, <2>3, <2>7, <2>8
  <1> DEFINE at == [k \in fixed |-> cut[k]]
  <1>7. at \in [fixed -> 1..Len(path)] /\ \A k \in fixed : path[at[k]] = glob[k]
    BY <1>6
  <1>8. ASSUME NEW j \in fixed, NEW k \in fixed, j < k PROVE at[j] < at[k]
    <2>1. j + 1 \in 1..n /\ k \in 1..n /\ j \in 1..n /\ j + 1 <= k
      BY <1>1, <1>3, <1>8
    <2>2. cut[j + 1] <= cut[k] /\ cut[j + 1] = cut[j] + 1 /\ cut[j] \in Int /\ cut[k] \in Int
      BY <1>1, <1>3, <1>4, <1>5, <1>6, <2>1
    <2>3. cut[j] < cut[k]
      BY <2>2
    <2>4. QED
      BY <2>3
  <1> HIDE DEF at
  <1>9. QED
    BY <1>7, <1>8 DEF HasNamesOf

\* A path that is what a pattern means matches it: every name is a part of its own.
LEMMA MeantMatches ==
    ASSUME NEW glob \in Seq(STRING), NEW p \in Seq(STRING), glob # <<>>,
           glob[1] \in {".", Root}, IsMeant(glob, p)
    PROVE  Matches(glob, Absolute(p))
  <1> DEFINE q == Absolute(p)
             n == Len(glob) + 1
             cut == [k \in 1..n |-> k]
  <1>1. Len(glob) \in Nat /\ Len(glob) >= 1 /\ Len(p) = Len(glob)
    BY LenProperties, EmptySeq DEF IsMeant
  <1>2. p # <<>> /\ p[1] = glob[1] /\ Root # "." /\ Root # "*"
    <2>1. glob[1] \in {"*", p[1]} /\ glob[1] # "*" /\ Root # "." /\ Root # "*"
      BY <1>1, HeaderSearchAssumption DEF IsMeant
    <2>2. p # <<>>
      BY <1>1, EmptySeq
    <2>3. QED
      BY <2>1, <2>2
  <1>3. q \in Seq(STRING) /\ Len(q) = Len(glob) /\ \A k \in 2..Len(glob) : q[k] = p[k]
    <2>1. q \in Seq(STRING)
      BY AbsoluteIsPath
    <2>2. CASE p[1] = Root
      BY <1>1, <1>2, <2>1, <2>2 DEF Absolute
    <2>3. CASE p[1] = "."
      <3>1. q = <<Root>> \o Tail(p)
        BY <1>2, <2>3 DEF Absolute
      <3>2. /\ Tail(p) \in Seq(STRING) /\ Len(Tail(p)) = Len(glob) - 1
            /\ \A i \in 1..(Len(glob) - 1) : Tail(p)[i] = p[i + 1]
        BY <1>1, <1>2, HeadTailProperties
      <3>3. <<Root>> \in Seq(STRING) /\ Len(<<Root>>) = 1
        BY HeaderSearchAssumption
      <3>4. /\ Len(q) = 1 + (Len(glob) - 1)
            /\ \A k \in 1..(1 + (Len(glob) - 1)) :
                  q[k] = IF k <= 1 THEN <<Root>>[k] ELSE Tail(p)[k - 1]
        <4> HIDE DEF q
        <4>1. QED
          BY <3>1, <3>2, <3>3, ConcatProperties
      <3>5. ASSUME NEW k \in 2..Len(glob) PROVE q[k] = p[k]
        <4>1. k - 1 \in 1..(Len(glob) - 1) /\ (k - 1) + 1 = k /\ ~(k <= 1)
              /\ k \in 1..(1 + (Len(glob) - 1))
          BY <1>1
        <4>2. q[k] = Tail(p)[k - 1] /\ Tail(p)[k - 1] = p[k]
          BY <3>2, <3>4, <4>1
        <4>3. QED
          BY <4>2
      <3>6. QED
        BY <1>1, <2>1, <3>4, <3>5
    <2>4. QED
      BY <1>2, <2>2, <2>3
  <1>4. q[1] = Root
    <2>1. CASE p[1] = Root
      BY <1>2, <2>1 DEF Absolute
    <2>2. CASE p[1] = "."
      <3>1. q = <<Root>> \o Tail(p) /\ Tail(p) \in Seq(STRING) /\ <<Root>> \in Seq(STRING)
        BY <1>2, <2>2, HeadTailProperties, HeaderSearchAssumption DEF Absolute
      <3>2. QED
        BY <3>1
    <2>3. QED
      BY <1>2, <2>1, <2>2
  <1> HIDE DEF q
  <1>5. ASSUME NEW k \in 1..Len(glob)
        PROVE  /\ cut[k] <= cut[k + 1]
               /\ Fits(glob[k], SubSeq(q, cut[k], cut[k + 1] - 1), k = 1)
    <2>1. cut[k] = k /\ cut[k + 1] = k + 1 /\ (k + 1) - 1 = k
      BY <1>1
    <2>2. SubSeq(q, k, k) = <<q[k]>>
      <3>1. q[k] \in STRING /\ k \in Int /\ k - k + 1 = 1
        BY <1>1, <1>3, ElementOfSeq
      <3>2. \A i \in k..k : i = k
        BY <3>1
      <3>3. /\ SubSeq(q, k, k) \in Seq(STRING) /\ Len(SubSeq(q, k, k)) = 1
            /\ SubSeq(q, k, k)[1] = q[k]
        <4>1. /\ SubSeq(q, k, k) \in Seq(STRING)
              /\ Len(SubSeq(q, k, k)) = IF k <= k THEN k - k + 1 ELSE 0
              /\ \A i \in 1..(k - k + 1) : SubSeq(q, k, k)[i] = q[k + i - 1]
          BY <3>1, <3>2, SubSeqProperties
        <4>2. k <= k /\ k + 1 - 1 = k /\ 1 \in 1..(k - k + 1)
          BY <3>1
        <4>3. QED
          BY <3>1, <4>1, <4>2
      <3>4. <<q[k]>> \in Seq(STRING) /\ Len(<<q[k]>>) = 1 /\ <<q[k]>>[1] = q[k]
        BY <3>1
      <3>5. \A i \in 1..1 : i = 1
        OBVIOUS
      <3>6. QED
        BY ONLY <3>3, <3>4, <3>5, SeqEqual
    <2>3. k = 1 \/ q[k] = p[k]
      BY <1>1, <1>3
    <2>4. glob[k] = "*" \/ glob[k] = p[k]
      BY <1>1 DEF IsMeant
    <2>5. Fits(glob[k], <<q[k]>>, k = 1)
      <3>1. <<q[k]>> # <<>> /\ Len(<<q[k]>>) = 1 /\ <<q[k]>>[1] = q[k]
        OBVIOUS
      <3>2. CASE glob[k] \in {".", "*"}
        BY <3>1, <3>2 DEF Fits
      <3>3. CASE glob[k] \notin {".", "*"}
        <4>1. glob[k] = q[k]
          BY <1>2, <1>4, <2>3, <2>4, <3>3
        <4>2. CASE glob[k] \in DOMAIN Dotted
          <5>1. glob[k] \in Dotted[glob[k]].whole
            BY <4>2, HeaderSearchAssumption
          <5>2. QED
            BY <3>1, <4>1, <4>2, <5>1 DEF Fits
        <4>3. CASE glob[k] \notin DOMAIN Dotted
          BY <3>3, <4>1, <4>3 DEF Fits
        <4>4. QED
          BY <4>2, <4>3
      <3>4. QED
        BY <3>2, <3>3
    <2>6. SubSeq(q, cut[k], cut[k + 1] - 1) = <<q[k]>>
      <3> HIDE DEF cut
      <3> QED
        BY <2>1, <2>2
    <2>7. cut[k] <= cut[k + 1]
      BY <1>1
    <2> HIDE DEF cut
    <2>8. QED
      BY <2>5, <2>6, <2>7
  <1>6. cut \in [1..n -> 1..(Len(q) + 1)] /\ cut[1] = 1 /\ cut[n] = Len(q) + 1
    BY <1>1, <1>3
  <1> HIDE DEF cut
  <1>7. QED
    BY <1>5, <1>6 DEF Matches, q

LEMMA FoundIsReachable ==
    ASSUME disk \in Disks, NEW path \in Seq(STRING)
    PROVE  FoundIn(path) \subseteq Reachable(path)
  <1>1. CASE ~HasGlobPattern(path)
    BY <1>1 DEF FoundIn, Reachable
  <1>2. CASE HasGlobPattern(path)
    <2>1. \A e \in Entries(MostCommonPath(path)) :
             Matches(path, Canonical(e)) => HasNamesOf(path, Canonical(e))
      BY <1>2, CommonPathIsPath, EntriesArePaths, CanonicalIsPath, MatchesHaveNames
    <2>2. QED
      BY <1>2, <2>1 DEF FoundIn, Reachable
  <1>3. QED
    BY <1>1, <1>2

LEMMA DemandedIsFound ==
    ASSUME disk \in Disks, NEW path \in Seq(STRING)
    PROVE  Demanded(path) \subseteq FoundIn(path)
  <1>1. CASE ~HasGlobPattern(path)
    BY <1>1 DEF FoundIn, Reachable, Demanded
  <1>2. CASE HasGlobPattern(path)
    <2>1. ASSUME NEW p \in Demanded(path) PROVE p \in FoundIn(path)
      <3>1. /\ IsDirectory(MostCommonPath(path)) /\ p \in Entries(MostCommonPath(path))
            /\ HasValidExtension(p) /\ path[1] \in {".", Root}
            /\ Canonical(p) = Absolute(p) /\ IsMeant(path, p)
        BY <1>2, <2>1 DEF Demanded, Reachable
      <3>2. p \in Seq(STRING) /\ path # <<>>
        BY <1>2, <3>1, CommonPathIsPath, EntriesArePaths DEF HasGlobPattern
      <3>3. Matches(path, Canonical(p))
        BY <3>1, <3>2, MeantMatches
      <3>4. QED
        BY <1>2, <3>1, <3>3 DEF FoundIn
    <2>2. QED
      BY <2>1
  <1>3. QED
    BY <1>1, <1>2

\* The list that GetHeaderFiles returns has nothing but headers the sources may lead
\* to and no excluded path, and misses one that they have to lead to only if one of its
\* spellings is excluded, in whatever order the sources and the directories are read.
THEOREM ListsAreComplete == Spec => []ListIsComplete
  <1>1. ASSUME IInv, disk \in Disks, status = "listed" PROVE ListIsComplete
    <2>1. /\ headers \in Seq(Found) /\ Len(headers) \in Nat
          /\ options.excluded \in Seq(Strings) /\ Len(options.excluded) \in Nat
          /\ options.sources \in Seq(SourcePaths)
      BY <1>1, LenProperties DEF IInv, Types
    <2>2. \A i \in 1..Len(headers) : headers[i] \in Found
      BY <2>1, ElementOfSeq
    <2>3. \A i \in 1..Len(headers) : ~Excluded(headers[i])
      <3>1. Len(exclusions) = 0
        BY <1>1 DEF IInv, ExclusionsAreApplied
      <3>2. QED
        BY <1>1, <2>1, <3>1 DEF IInv, ExclusionsAreApplied, Excluded
    <2>4. Found \subseteq AllReachable /\ AllDemanded \subseteq Found
      <3>1. \A i \in 1..Len(options.sources) : options.sources[i] \in Seq(STRING)
        BY <2>1, ElementOfSeq, SourcesAreSequences
      <3>2. \A i \in 1..Len(options.sources) :
               /\ FoundIn(options.sources[i]) \subseteq Reachable(options.sources[i])
               /\ Demanded(options.sources[i]) \subseteq FoundIn(options.sources[i])
        BY <1>1, <3>1, FoundIsReachable, DemandedIsFound
      <3>3. QED
        BY <3>2 DEF Found, AllReachable, AllDemanded
    <2>5. \A path \in Found :
             \/ \E i \in 1..Len(headers) : Canonical(headers[i]) = Canonical(path)
             \/ \E other \in Found : Canonical(other) = Canonical(path) /\ Excluded(other)
      BY <1>1 DEF IInv, OthersAreExcluded
    <2>6. QED
      BY <2>2, <2>3, <2>4, <2>5 DEF ListIsComplete
  <1>2. IInv /\ disk \in Disks => ListIsComplete
    BY <1>1 DEF ListIsComplete
  <1>3. QED
    BY <1>2, Invariance, DiskIsOfDisks, PTL

\* A search that ends gives main() a number of threads that is not zero, unless
\* the one asked for is a multiple of 2^16: the only ones the checks of
\* ParseOptions let through.
THEOREM PoolsHaveThreads == Spec => []PoolHasThreads
  <1>1. IInv => PoolHasThreads
    BY DEF IInv, Types, OptionsAreChecked, PoolHasThreads
  <1>2. QED
    BY <1>1, Invariance, PTL
=============================================================================
