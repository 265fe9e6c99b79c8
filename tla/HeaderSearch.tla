---------------------------- MODULE HeaderSearch ----------------------------
(***************************************************************************)
(* ParseOptions and GetHeaderFiles of src/source/common.cpp: the command    *)
(* line, and the list of headers it leads to in a directory tree with links.*)
(*                                                                         *)
(* A path is a sequence of names, absolute if it begins with Root.  The same*)
(* file has several: the spelling goes into the list, the canonical path    *)
(* tells files apart.  Options that other modules take as a parameter       *)
(* (output directory, emission, tags, force) are left out, and so are glob  *)
(* patterns with a part of a name in front of "*" or with "?", and sources  *)
(* with "..", or with "." further on than at their beginning.               *)
(***************************************************************************)
EXTENDS Integers, Sequences, FiniteSets, Selections

CONSTANTS Arguments,    \* arguments the command line may have
          CommandLines, \* sequences of arguments
          Disks,        \* directory trees
          Root,         \* the absolute path of the working directory, a name
          HeaderNames,  \* the names that end in .h or .hpp
          PartOf,       \* names that contain a string, for the strings excluded
          Dotted,       \* names of patterns with a dot: what ".*" for it makes of them
          NoSource

\* A tree has the canonical paths of its files and directories, and what the
\* symbolic links in it lead to.  The value of an option is of the option's kind,
\* and PartOf knows every string that may be excluded.
ASSUME HeaderSearchAssumption ==
    /\ Root \in STRING \ {".", "..", "*"}
    /\ \A tree \in Disks : /\ tree.files \cup tree.directories \subseteq Seq(STRING)
                           /\ \A link \in DOMAIN tree.links : link \in Seq(STRING)
                                                             /\ tree.links[link] \in Seq(STRING)
                           /\ <<Root>> \in tree.directories
                           /\ tree.files \cap tree.directories = {}
                           /\ DOMAIN tree.links \cap (tree.files \cup tree.directories) = {}
    /\ CommandLines \subseteq Seq(Arguments)
    /\ \A arg \in Arguments :
          \/ /\ arg.kind = "source" /\ arg.value # NoSource /\ arg.value \in Seq(STRING)
             /\ \A k \in 1..Len(arg.value) :
                   arg.value[k] # ".." /\ (arg.value[k] \in {".", Root} => k = 1)
          \/ arg.kind \in {"outfile", "cache-dir"} /\ arg.value \in DOMAIN PartOf
          \/ arg.kind = "exclude-paths" /\ arg.value \in Seq(DOMAIN PartOf)
          \/ arg.kind = "num-threads" /\ arg.value \in Int
    /\ "metadata.h" \in DOMAIN PartOf
    /\ \A name \in DOMAIN Dotted : name \in Dotted[name].whole /\ name \notin {".", "*"}

VARIABLES
    disk,
    args,      \* what is left of the command line
    options,   \* TIntrospectorOptions as far as the search is concerned
    status,    \* "parsing", "searching", "excluding", "listed" or "terminated"
    paths,     \* sources that are still to search, the last one next
    source,    \* the glob pattern or directory that is searched, or NoSource
    entries,   \* what its iterator has still to list
    processed, \* processedPaths: canonical
    headers,   \* headersPaths: as they were spelled
    exclusions \* the strings of excludedPaths that are still to apply

search == <<paths, source, entries, processed, headers, exclusions>>
vars == <<disk, args, options, status, search>>

-----------------------------------------------------------------------------
(* Paths *)

\* The path from the root.
Absolute(path) ==
    IF path # <<>> /\ path[1] = Root THEN path
    ELSE IF path # <<>> /\ path[1] = "." THEN <<Root>> \o Tail(path)
    ELSE <<Root>> \o path

\* fs::canonical of a path with at most one link on its way.
Canonical(path) ==
    LET whole == Absolute(path)
        ends == {k \in 1..Len(whole) : SubSeq(whole, 1, k) \in DOMAIN disk.links}
    IN  IF ends = {} THEN whole
        ELSE LET k == CHOOSE k \in ends : TRUE
             IN  disk.links[SubSeq(whole, 1, k)] \o SubSeq(whole, k + 1, Len(whole))

Exists(path) == Canonical(path) \in disk.files \cup disk.directories
IsDirectory(path) == path # <<>> /\ Canonical(path) \in disk.directories

\* HasValidExtension, of the path as it is spelled.
HasValidExtension(path) == path # <<>> /\ path[Len(path)] \in HeaderNames

\* fs::recursive_directory_iterator: all below, links listed and not followed.
Entries(path) ==
    LET top == Canonical(path)
        IsBelow(other) == Len(other) > Len(top) /\ SubSeq(other, 1, Len(top)) = top
        nodes == disk.files \cup disk.directories \cup DOMAIN disk.links
    IN  {path \o SubSeq(other, Len(top) + 1, Len(other)) : other \in {n \in nodes : IsBelow(n)}}

\* HasGlobPattern, and the path up to the first "*".
HasGlobPattern(path) == \E k \in 1..Len(path) : path[k] = "*"
MostCommonPath(path) ==
    LET stars == {k \in 1..Len(path) : path[k] = "*"}
    IN  SubSeq(path, 1, (CHOOSE k \in stars : \A j \in stars : k <= j) - 1)

\* Variant: a dot is left a dot.
KeepsDots(name, names, isFirst) ==
    IF name = "*" THEN names # <<>> \/ isFirst ELSE names = <<name>>

\* GetRegexFromGlobStr turns "*" and every "." into ".*", which stands for slashes,
\* too.  So "*" and "." are good for one name or more - the first one for none, the
\* slash after it is that of the root.  A name with a dot, such as "b.hpp", is good for
\* the names that begin like it and end like it, or for more, if the first begins and
\* the last ends like it.  Any other name is good for itself.
Fits(name, names, isFirst) ==
    \/ name \in {".", "*"} /\ (names # <<>> \/ isFirst)
    \/ /\ name \in DOMAIN Dotted /\ names # <<>>
       /\ IF Len(names) = 1 THEN names[1] \in Dotted[name].whole
          ELSE names[1] \in Dotted[name].front /\ names[Len(names)] \in Dotted[name].back
    \/ name \notin {".", "*"} \cup DOMAIN Dotted /\ names = <<name>>

\* regex_match: the pattern is cut out of the whole canonical path.
Matches(glob, path) ==
    \E cut \in [1..(Len(glob) + 1) -> 1..(Len(path) + 1)] :
        /\ cut[1] = 1 /\ cut[Len(glob) + 1] = Len(path) + 1
        /\ \A k \in 1..Len(glob) :
              /\ cut[k] <= cut[k + 1]
              /\ Fits(glob[k], SubSeq(path, cut[k], cut[k + 1] - 1), k = 1)

IsExcluded(path, string) == \E k \in 1..Len(path) : path[k] \in PartOf[string]

-----------------------------------------------------------------------------
(* ParseOptions *)

Init == /\ disk \in Disks
        /\ args \in CommandLines
        /\ options = [sources |-> <<>>, output |-> "metadata.h", excluded |-> <<>>,
                      threads |-> 1, asked |-> 1]
        /\ status = "parsing"
        /\ paths = <<>> /\ source = NoSource /\ entries = {} /\ processed = {}
        /\ headers = <<>> /\ exclusions = <<>>

\* An option, or a source; a later option of a kind replaces an earlier one.  The
\* directory for the cache is stored as the name of the output file.
ParseArgument ==
    /\ status = "parsing" /\ args # <<>>
    /\ LET arg == Head(args)
       IN  options' = CASE arg.kind = "source" -> [options EXCEPT !.sources = Append(@, arg.value)]
                        [] arg.kind \in {"outfile", "cache-dir"} -> [options EXCEPT !.output = arg.value]
                        [] arg.kind = "num-threads" -> [options EXCEPT !.asked = arg.value]
                        [] arg.kind = "exclude-paths" -> [options EXCEPT !.excluded = arg.value]
    /\ args' = Tail(args)
    /\ UNCHANGED <<disk, status, search>>

MaxInt == 2147483647
Uint16(n) == n % 65536

\* Variant: no threads are taken for a number of threads.
AllowsNone(n) == n >= 0 /\ n <= MaxInt \div 2

IsAllowed(n) == n > 0 /\ n <= MaxInt \div 2

\* The checks that terminate the tool, and the name of the output among the
\* paths to exclude.
EndOptions ==
    /\ status = "parsing" /\ args = <<>>
    /\ IF options.sources = <<>> \/ ~IsAllowed(options.asked)
       THEN status' = "terminated" /\ UNCHANGED <<options, paths>>
       ELSE /\ status' = "searching"
            /\ options' = [options EXCEPT !.threads = Uint16(options.asked),
                                          !.excluded = Append(@, options.output)]
            /\ paths' = options.sources
    /\ UNCHANGED <<disk, args, source, entries, processed, headers, exclusions>>

-----------------------------------------------------------------------------
(* GetHeaderFiles *)

\* Variant: files are told apart by their spelling.
BySpelling(path) == path

\* What processedPaths holds of a path.
Identity(path) == Canonical(path)

\* A path that leads nowhere makes fs::canonical throw in a noexcept function.
\* Any other header is listed, unless it is listed already.
List(path) ==
    IF ~Exists(path) THEN status' = "terminated" /\ UNCHANGED <<headers, processed>>
    ELSE /\ IF HasValidExtension(path) /\ Identity(path) \notin processed
            THEN /\ headers' = Append(headers, path)
                 /\ processed' = processed \cup {Identity(path)}
            ELSE UNCHANGED <<headers, processed>>
         /\ UNCHANGED status

Unchanging == UNCHANGED <<disk, args, options, exclusions>>

\* paths.back() and pop_back().
TakeSource ==
    /\ status = "searching" /\ source = NoSource /\ paths # <<>>
    /\ paths' = SubSeq(paths, 1, Len(paths) - 1)
    /\ Unchanging

SkipStrangeGlob(path) ==
    /\ HasGlobPattern(path) /\ ~IsDirectory(MostCommonPath(path))
    /\ UNCHANGED <<status, source, entries, processed, headers>>

EnterGlob(path) ==
    /\ HasGlobPattern(path) /\ IsDirectory(MostCommonPath(path))
    /\ source' = path /\ entries' = Entries(MostCommonPath(path))
    /\ UNCHANGED <<status, processed, headers>>

ListFile(path) ==
    /\ ~HasGlobPattern(path) /\ ~IsDirectory(path)
    /\ List(path) /\ UNCHANGED <<source, entries>>

EnterDirectory(path) ==
    /\ ~HasGlobPattern(path) /\ IsDirectory(path)
    /\ source' = path /\ entries' = Entries(path)
    /\ UNCHANGED <<status, processed, headers>>

NextSource == TakeSource /\ LET path == paths[Len(paths)]
                            IN  \/ SkipStrangeGlob(path) \/ EnterGlob(path)
                                \/ ListFile(path) \/ EnterDirectory(path)

\* The iterator lists the entries in no order that is specified.
VisitEntry ==
    /\ status = "searching"
    /\ \E path \in entries :
          /\ IF HasGlobPattern(source) /\ Exists(path) /\ ~Matches(source, Canonical(path))
             THEN UNCHANGED <<status, processed, headers>>
             ELSE List(path)
          /\ entries' = entries \ {path}
    /\ UNCHANGED <<paths, source>> /\ Unchanging

LeaveSource ==
    /\ status = "searching" /\ source # NoSource /\ entries = {}
    /\ source' = NoSource
    /\ UNCHANGED <<status, paths, entries, processed, headers>> /\ Unchanging

EndSearch ==
    /\ status = "searching" /\ source = NoSource /\ paths = <<>>
    /\ status' = "excluding" /\ exclusions' = options.excluded
    /\ UNCHANGED <<disk, args, options, paths, source, entries, processed, headers>>

Erased(string) ==
    Selected(headers, {headers[k] : k \in {j \in 1..Len(headers) : ~IsExcluded(headers[j], string)}})

Exclude ==
    /\ status = "excluding" /\ exclusions # <<>>
    /\ headers' = Erased(Head(exclusions))
    /\ exclusions' = Tail(exclusions)
    /\ UNCHANGED <<disk, args, options, status, paths, source, entries, processed>>

Return ==
    /\ status = "excluding" /\ exclusions = <<>>
    /\ status' = "listed"
    /\ UNCHANGED <<disk, args, options, search>>

Next == \/ ParseArgument \/ EndOptions \/ NextSource \/ VisitEntry \/ LeaveSource
        \/ EndSearch \/ Exclude \/ Return

Spec == Init /\ [][Next]_vars

-----------------------------------------------------------------------------
(* Properties *)

\* A header is listed once however many sources, spellings and links lead to it:
\* two jobs never work on one header, and its types are not emitted twice.
EachHeaderOnce ==
    \A i, j \in 1..Len(headers) :
        i # j => Canonical(headers[i]) # Canonical(headers[j])

Plain(name) == name \notin {".", "*"} \cup DOMAIN Dotted

\* The names of the pattern that are no wildcard and have no dot are on the path, in
\* their order.
HasNamesOf(glob, path) ==
    LET fixed == {k \in 1..Len(glob) : Plain(glob[k])}
    IN  \E at \in [fixed -> 1..Len(path)] :
            /\ \A k \in fixed : path[at[k]] = glob[k]
            /\ \A j, k \in fixed : j < k => at[j] < at[k]

\* The spellings of the headers a source may lead to: itself, or what is below it, for
\* a pattern below its part before the first "*".
Reachable(path) ==
    {p \in IF HasGlobPattern(path)
           THEN IF IsDirectory(MostCommonPath(path))
                THEN {e \in Entries(MostCommonPath(path)) : HasNamesOf(path, Canonical(e))}
                ELSE {}
           ELSE IF IsDirectory(path) THEN Entries(path) ELSE {path} : HasValidExtension(p)}

\* A pattern as its reader means it: a "*" for a name.
IsMeant(glob, path) ==
    Len(path) = Len(glob) /\ \A k \in 1..Len(glob) : glob[k] \in {"*", path[k]}

\* The headers a source has to lead to.  A pattern has to only if it begins with "." or
\* with the root, and not for entries behind a link: the regex is matched with canonical
\* paths.
Demanded(path) ==
    {p \in Reachable(path) :
        HasGlobPattern(path) => /\ path[1] \in {".", Root}
                                /\ Canonical(p) = Absolute(p) /\ IsMeant(path, p)}

AllReachable == UNION {Reachable(options.sources[i]) : i \in 1..Len(options.sources)}
AllDemanded == UNION {Demanded(options.sources[i]) : i \in 1..Len(options.sources)}
Excluded(path) == \E i \in 1..Len(options.excluded) : IsExcluded(path, options.excluded[i])

\* The list has nothing the sources cannot lead to and no excluded path, such as the
\* file the tool writes, and it has what the sources have to lead to, in whatever order
\* sources and directories are read.  A header that is found under two spellings of
\* which one is excluded may be missing: which of them counts depends on that order.
\* Against the comment at common.cpp:216 a pattern like src/*/b.hpp need not lead to
\* anything: no canonical path begins with src, and the list does not have what the
\* pattern means; nor does one that begins with "*", of which no directory is left.
ListIsComplete ==
    status = "listed" =>
        /\ \A i \in 1..Len(headers) : headers[i] \in AllReachable /\ ~Excluded(headers[i])
        /\ \A path \in AllDemanded :
              \/ \E i \in 1..Len(headers) : Canonical(headers[i]) = Canonical(path)
              \/ \E other \in AllReachable : Canonical(other) = Canonical(path) /\ Excluded(other)

\* The pool of main(), which never ends a job without a worker, gets one - unless
\* the number asked for is a positive multiple of 2^16, which no check rejects.
PoolHasThreads ==
    status = "listed" => \/ options.threads > 0
                         \/ options.asked > 0 /\ options.asked % 65536 = 0
=============================================================================
