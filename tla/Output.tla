------------------------------- MODULE Output -------------------------------
(***************************************************************************)
(* What becomes of the symbol tables: CodeGenerator::Generate with the two *)
(* extractors that walk every table (codegenerator.cpp, codegenerator.h and *)
(* MetaExtractor of symtable.h and symtable.cpp).                          *)
(*                                                                         *)
(* A table is the sequence of its types in the order in which a walk meets *)
(* them: an enclosing type before the types inside it, the rest as the hash *)
(* map of the named scopes happens to list them.  A table the driver left  *)
(* null is an empty one, and one it took from the cache has lost a part of  *)
(* what the parser found.  A type is a record of what decides whether,     *)
(* where and how often it is emitted.                                      *)
(***************************************************************************)
EXTENDS Naturals, Sequences, SequencesExt, Selections

CONSTANTS Ids,        \* the identifiers of types and of what is around them
          Tables,     \* the sequences of tables, one per header, with all types
          Options,    \* the options of the command line
          Group,      \* Group[s]: section identifier s in upper case
          NoSection   \* the identifier of a type without a section

Kinds == {"enum", "class", "struct"}

Declarations ==
    [id : Ids, name : Seq(Ids), parent : Seq(Ids), kind : Kinds, forward : BOOLEAN,
     template : BOOLEAN, hidden : BOOLEAN, tagged : BOOLEAN,
     section : DOMAIN Group \cup {NoSection}]

\* The types t is inside of.
Around(table, t) == {u \in ToSet(table) : u # t /\ IsPrefix(u.name, t.name)}

\* A scope has one type; the parent of a type is around it, and the parent of a
\* class is the type right around it, if there is one.
IsOfHeader(table) ==
    /\ \A i, j \in DOMAIN table : table[i].name = table[j].name => i = j
    /\ \A t \in ToSet(table) :
          /\ t.name # <<>>
          /\ t.parent # <<>> => \E p \in Around(table, t) : p.name = t.parent
          /\ t.kind # "enum" => \A u \in Around(table, t) :
                Len(u.name) = Len(t.name) - 1 => t.parent = u.name

\* The program that is introspected defines a type in one header.
DefinesOnce(headers) ==
    \A f, g \in DOMAIN headers : f # g =>
        \A t \in ToSet(headers[f]), u \in ToSet(headers[g]) :
            t.name = u.name => t.forward \/ u.forward

ASSUME OutputAssumption ==
    /\ \A headers \in Tables :
          /\ headers \in Seq(Seq(Declarations)) /\ headers # <<>>
          /\ \A f \in DOMAIN headers : IsOfHeader(headers[f])
          /\ DefinesOnce(headers)
    /\ Options \subseteq [flags : SUBSET Kinds, taggedOnly : BOOLEAN, excluded : SUBSET Ids]

VARIABLES
    whole,        \* the types of the headers
    writers,      \* the run whose parser wrote a table: this one, or an earlier
                  \* one, for all types or for the tagged ones only
    tables,       \* symbolTablesPerFile
    opts,         \* mEmitFlags, mIsTaggedOnlyMode, mTypenamesToHidePatterns
    phase,        \* the loop of Generate that runs
    file, place,  \* the table and the type, or the extracted type, it is at
    enums,        \* mpTypesInfo of the EnumsMetaExtractor
    classes,      \* mpTypesInfo of the ClassMetaExtractor
    inclusions,   \* the inclusions written: the headers under each section
    traits        \* the traits written, in order

input == <<whole, writers, tables, opts>>
vars == <<input, phase, file, place, enums, classes, inclusions, traits>>

Phases == {"visit_enums", "visit_classes", "include_enums", "include_classes",
           "write_enums", "write_classes", "end"}

\* A class or structure without a tag is passed over with all that is inside of
\* it by a run for tagged types only.
IsSkipped(table, t) == \E u \in Around(table, t) : u.kind # "enum" /\ ~u.tagged

ParsedTable(table, taggedOnly) ==
    Selected(table, {t \in ToSet(table) : ~(taggedOnly /\ IsSkipped(table, t))})

\* What Save and Load keep of a type: neither its attributes nor its access
\* modifier nor the type around it.
Reloaded(table) ==
    [i \in DOMAIN table |-> [table[i] EXCEPT !.parent = <<>>, !.hidden = FALSE,
                                             !.tagged = FALSE, !.section = NoSection]]

Writers == {"this", "all", "tagged_only"}

\* The cache does not know which types a table was written for.
TableOf(table, writer) ==
    IF writer = "this" THEN ParsedTable(table, opts.taggedOnly)
    ELSE Reloaded(ParsedTable(table, writer = "tagged_only"))

Types == UNION {ToSet(tables[f]) : f \in DOMAIN tables}

Extracted == [type : Types, header : 1..Len(tables)]

TypeOK ==
    /\ whole \in Tables /\ writers \in [DOMAIN whole -> Writers]
    /\ DOMAIN tables = DOMAIN whole
    /\ opts \in Options
    /\ phase \in Phases
    /\ file \in 1..Len(tables)
    /\ place \in Nat \ {0}
    /\ phase \in {"visit_enums", "visit_classes"} => place <= Len(tables[file]) + 1
    /\ enums \in Seq(Extracted) /\ classes \in Seq(Extracted)
    /\ \A i \in DOMAIN enums : enums[i].type.kind = "enum"
    /\ \A i \in DOMAIN classes : classes[i].type.kind # "enum"

Init ==
    /\ whole \in Tables
    /\ writers \in [DOMAIN whole -> Writers]
    /\ opts \in Options
    /\ tables = [f \in DOMAIN whole |-> TableOf(whole[f], writers[f])]
    /\ phase = "visit_enums" /\ file = 1 /\ place = 1
    /\ enums = <<>> /\ classes = <<>>
    /\ inclusions = {} /\ traits = <<>>

-----------------------------------------------------------------------------
(* The extractors *)

\* The type mpParentType points to; it is none at namespace level.
HasParent(t) == t.parent # <<>>
Parent(t) == CHOOSE p \in ToSet(tables[file]) : p.name = t.parent

EnumIsWanted(t) ==
    /\ t.kind = "enum" /\ "enum" \in opts.flags
    /\ ~t.hidden
    /\ HasParent(t) => ~Parent(t).template

\* Variant: the extractor of the classes takes what it is shown.
TakesAnyType(t) ==
    /\ t.kind \in opts.flags
    /\ ~t.hidden /\ ~t.template

\* Variant: the type around a class does not matter.
AsksNoParent(t) ==
    /\ t.kind # "enum" /\ t.kind \in opts.flags
    /\ ~t.hidden /\ ~t.template

ClassIsWanted(t) ==
    /\ t.kind # "enum" /\ t.kind \in opts.flags
    /\ ~t.hidden /\ ~t.template
    /\ HasParent(t) => ~Parent(t).hidden

\* Variant: the table of the types that are known is filled, and the later
\* declaration of a class replaces the earlier one.
ReplaceType(list, t) ==
    IF \E i \in DOMAIN list : list[i].type.name = t.name
    THEN [i \in DOMAIN list |-> IF list[i].type.name = t.name
                                THEN [type |-> t, header |-> file] ELSE list[i]]
    ELSE Append(list, [type |-> t, header |-> file])

\* mTypesHashTable is looked up and never filled, so the list may hold
\* declarations of one type from several headers.
AddType(list, t) == Append(list, [type |-> t, header |-> file])

TypesAreLeft == place <= Len(tables[file])

\* One type of a table is met by the extractor whose walk it is.
VisitType ==
    /\ phase \in {"visit_enums", "visit_classes"}
    /\ TypesAreLeft
    /\ LET t == tables[file][place] IN
         /\ enums' = IF phase = "visit_enums" /\ EnumIsWanted(t)
                     THEN AddType(enums, t) ELSE enums
         /\ classes' = IF phase = "visit_classes" /\ ClassIsWanted(t)
                       THEN AddType(classes, t) ELSE classes
    /\ place' = place + 1
    /\ UNCHANGED <<input, phase, file, inclusions, traits>>

\* Each table is walked for its enumerations and then for its classes.
EndVisit ==
    /\ phase \in {"visit_enums", "visit_classes"}
    /\ ~TypesAreLeft
    /\ place' = 1
    /\ \/ phase = "visit_enums" /\ phase' = "visit_classes" /\ file' = file
       \/ /\ phase = "visit_classes" /\ file < Len(tables)
          /\ phase' = "visit_enums" /\ file' = file + 1
       \/ /\ phase = "visit_classes" /\ file = Len(tables)
          /\ phase' = "include_enums" /\ file' = file
    /\ UNCHANGED <<input, enums, classes, inclusions, traits>>

-----------------------------------------------------------------------------
(* The generated header *)

Section(t) == IF t.section = NoSection THEN "ALL" ELSE Group[t.section]

List == IF phase \in {"include_enums", "write_enums"} THEN enums ELSE classes

Left(phases) == phase \in phases /\ place <= Len(List)

\* Variant: a header that is skipped for a type counts as included.
AnyEarlier == {List[i].header : i \in 1..(place - 1)}

\* The headers that are included for the types before this one.
IncludedHeaders ==
    {List[i].header : i \in {j \in 1..(place - 1) :
                        List[j].type.tagged \/ ~opts.taggedOnly}}

\* WriteInclusions: a header is included once per extractor, under the section
\* of the first of its types.
WriteInclusion ==
    /\ Left({"include_enums", "include_classes"})
    /\ LET e == List[place] IN
         inclusions' = IF \/ ~e.type.tagged /\ opts.taggedOnly
                          \/ e.header \in IncludedHeaders
                       THEN inclusions
                       ELSE inclusions \cup {<<Section(e.type), e.header>>}
    /\ place' = place + 1
    /\ UNCHANGED <<input, phase, file, enums, classes, traits>>

\* Variant: a declaration counts as a definition.
CountsDeclarations(t) ==
    /\ ~t.template
    /\ t.id \notin opts.excluded
    /\ t.tagged \/ ~opts.taggedOnly

\* CodeGenerator::VisitEnumType and VisitClassType up to their return.
IsEmitted(t) ==
    /\ ~t.forward
    /\ ~t.template
    /\ t.id \notin opts.excluded
    /\ t.tagged \/ ~opts.taggedOnly

WriteTrait ==
    /\ Left({"write_enums", "write_classes"})
    /\ LET e == List[place] IN
         traits' = IF IsEmitted(e.type)
                   THEN Append(traits, [name |-> e.type.name, header |-> e.header,
                                        kind |-> e.type.kind,
                                        section |-> Section(e.type)])
                   ELSE traits
    /\ place' = place + 1
    /\ UNCHANGED <<input, phase, file, enums, classes, inclusions>>

EndLoop ==
    /\ phase \in Phases \ {"visit_enums", "visit_classes", "end"}
    /\ place > Len(List)
    /\ place' = 1
    /\ phase' = CASE phase = "include_enums" -> "include_classes"
                  [] phase = "include_classes" -> "write_enums"
                  [] phase = "write_enums" -> "write_classes"
                  [] phase = "write_classes" -> "end"
    /\ UNCHANGED <<input, file, enums, classes, inclusions, traits>>

-----------------------------------------------------------------------------
Next == VisitType \/ EndVisit \/ WriteInclusion \/ WriteTrait \/ EndLoop

Spec == Init /\ [][Next]_vars

-----------------------------------------------------------------------------
(* Properties *)

\* metadata.h specialises no trait twice, whatever headers declare a type again
\* that one of them defines: codegenerator.cpp:186, "skip forward declarations
\* to prevent duplicates of traits of the same type".
OneTraitPerType ==
    \A i, j \in DOMAIN traits : i # j => traits[i].name # traits[j].name

\* Neither the type nor one around it is hidden or a template.
IsExposed(f, t) == \A u \in Around(whole[f], t) \cup {t} : ~u.hidden /\ ~u.template

IsCached(f) == writers[f] # "this"
ForTaggedOnly(f) == IF IsCached(f) THEN writers[f] = "tagged_only" ELSE opts.taggedOnly

\* Once metadata.h is written it has a trait of every type that is public all
\* the way, defined, and wanted by the options, although other headers may
\* declare the type and other types may be left out.  A table of the cache adds
\* the same types, all in section ALL, but none to a run for tagged types only;
\* and what is inside of a class without a tag is missing if the run that wrote
\* the table, not this one, was for tagged types only.
EveryDefinitionHasTrait ==
    phase = "end" =>
        \A f \in DOMAIN whole : \A t \in ToSet(whole[f]) :
            (/\ t.kind \in opts.flags /\ IsEmitted(t) /\ IsExposed(f, t)
             /\ ~(ForTaggedOnly(f) /\ IsSkipped(whole[f], t))
             /\ ~(IsCached(f) /\ opts.taggedOnly))
            => \E i \in DOMAIN traits :
                  /\ traits[i].name = t.name /\ traits[i].header = f
                  /\ traits[i].section = IF IsCached(f) THEN "ALL" ELSE Section(t)

\* Program text cannot name a type that is hidden or inside one that is, so a
\* trait of it does not compile.  From the tables of the parser such a trait
\* comes out only for a type whose own encloser is visible, or for an
\* enumeration in a class; from those of the cache for every type but templates.
OnlyDeepTypesLeak ==
    \A i \in DOMAIN traits :
        LET f == traits[i].header
        IN  \E t \in ToSet(whole[f]) :
                /\ t.name = traits[i].name /\ t.kind \in opts.flags /\ ~t.forward
                /\ \/ IsCached(f) /\ ~t.template
                   \/ IsExposed(f, t)
                   \/ /\ ~t.hidden /\ ~t.template
                      /\ \A u \in Around(whole[f], t) :
                            u.hidden => t.kind = "enum" \/ Len(u.name) < Len(t.name) - 1

\* The extracted types of a header and a kind that inclusions are written for.
Included(list, f) ==
    {list[i].type : i \in {j \in DOMAIN list :
        list[j].header = f /\ (list[j].type.tagged \/ ~opts.taggedOnly)}}

ListOf(trait) == IF trait.kind = "enum" THEN enums ELSE classes

\* A program that defines META_EXPORT_S_SECTION gets the header of every trait
\* of section S with it, if the types of that header which come through the
\* same extractor are all of one section.
TraitsSeeTheirHeader ==
    phase = "end" =>
        \A i \in DOMAIN traits :
            LET f == traits[i].header IN
            (\A t, u \in Included(ListOf(traits[i]), f) : Section(t) = Section(u))
                => <<traits[i].section, f>> \in inclusions
=============================================================================
