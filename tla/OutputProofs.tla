---------------------------- MODULE OutputProofs ----------------------------
(***************************************************************************)
(* Proofs about Output: for any headers, any options and any mixture of     *)
(* parsed and cached tables, the generated header has the traits it should *)
(* have, each once and below the inclusion of its header.                  *)
(***************************************************************************)
EXTENDS Output, InductionLemmas

\* What a table holds of a type of its header, if it holds it.
Held(f, t) == IF IsCached(f)
              THEN [t EXCEPT !.parent = <<>>, !.hidden = FALSE, !.tagged = FALSE,
                             !.section = NoSection]
              ELSE t
IsKept(f, t) == ~(ForTaggedOnly(f) /\ IsSkipped(whole[f], t))

InputIsFixed ==
    /\ whole \in Tables /\ writers \in [DOMAIN whole -> Writers] /\ opts \in Options
    /\ tables = [f \in DOMAIN whole |-> TableOf(whole[f], writers[f])]

Visits == {"visit_enums", "visit_classes"}
Loops == {"include_enums", "include_classes", "write_enums", "write_classes"}

Counts ==
    /\ phase \in Phases
    /\ file \in 1..Len(tables) /\ place \in Nat \ {0}
    /\ phase \in Visits => place <= Len(tables[file]) + 1
    /\ phase \in Loops => place <= Len(List) + 1
    /\ phase \notin Visits => file = Len(tables)

\* The extractor of the enumerations, or of the classes, has met the type at i of
\* the table of f.
HasMetEnum(f, i) ==
    f < file \/ (f = file /\ (phase = "visit_enums" => i < place))
HasMetClass(f, i) ==
    \/ f < file
    \/ f = file /\ phase # "visit_enums" /\ (phase = "visit_classes" => i < place)

\* EnumIsWanted and ClassIsWanted in the table of f.
ParentIn(f, t) == CHOOSE p \in ToSet(tables[f]) : p.name = t.parent
WantedEnum(f, t) ==
    /\ t.kind = "enum" /\ "enum" \in opts.flags
    /\ ~t.hidden
    /\ HasParent(t) => ~ParentIn(f, t).template
WantedClass(f, t) ==
    /\ t.kind # "enum" /\ t.kind \in opts.flags
    /\ ~t.hidden /\ ~t.template
    /\ HasParent(t) => ~ParentIn(f, t).hidden

MetEnums ==
    {e \in Extracted : /\ \E i \in 1..Len(tables[e.header]) :
                            HasMetEnum(e.header, i) /\ tables[e.header][i] = e.type
                       /\ WantedEnum(e.header, e.type)}
MetClasses ==
    {e \in Extracted : /\ \E i \in 1..Len(tables[e.header]) :
                            HasMetClass(e.header, i) /\ tables[e.header][i] = e.type
                       /\ WantedClass(e.header, e.type)}

\* A list has the elements of a set, each once.
Lists(list, elements) ==
    /\ list \in Seq(elements)
    /\ \A e \in elements : \E k \in 1..Len(list) : list[k] = e
    /\ \A k, l \in 1..Len(list) : list[k] = list[l] => k = l

\* The headers of the first n extracted types are included, each for one of them.
Wants(t) == t.tagged \/ ~opts.taggedOnly
AreIncluded(list, n) ==
    \A k \in 1..n : Wants(list[k].type) =>
        \E m \in 1..n : /\ Wants(list[m].type) /\ list[m].header = list[k].header
                        /\ <<Section(list[m].type), list[m].header>> \in inclusions

InclusionsAreWritten ==
    /\ phase = "include_enums" => AreIncluded(enums, place - 1)
    /\ phase \in {"include_classes", "write_enums", "write_classes", "end"} =>
          AreIncluded(enums, Len(enums))
    /\ phase = "include_classes" => AreIncluded(classes, place - 1)
    /\ phase \in {"write_enums", "write_classes", "end"} => AreIncluded(classes, Len(classes))

\* How many extracted types the traits are written of.
EnumsWritten == IF phase = "write_enums" THEN place - 1
                ELSE IF phase \in {"write_classes", "end"} THEN Len(enums) ELSE 0
ClassesWritten == IF phase = "write_classes" THEN place - 1
                  ELSE IF phase = "end" THEN Len(classes) ELSE 0

TraitOf(e) == [name |-> e.type.name, header |-> e.header, kind |-> e.type.kind,
               section |-> Section(e.type)]
Written == {e \in Extracted : /\ IsEmitted(e.type)
                              /\ \/ \E k \in 1..EnumsWritten : enums[k] = e
                                 \/ \E k \in 1..ClassesWritten : classes[k] = e}

\* The traits are those of the types they are written of; a header has one of a name.
TraitsAreWritten ==
    /\ traits \in Seq({TraitOf(e) : e \in Written})
    /\ \A e \in Written : \E i \in 1..Len(traits) : traits[i] = TraitOf(e)
    /\ \A i, j \in 1..Len(traits) :
          traits[i].header = traits[j].header /\ traits[i].name = traits[j].name => i = j

IInv == /\ InputIsFixed
        /\ Counts
        /\ Lists(enums, MetEnums)
        /\ Lists(classes, MetClasses)
        /\ InclusionsAreWritten
        /\ TraitsAreWritten

-----------------------------------------------------------------------------
(* Names inside of names *)

LEMMA PrefixByElements ==
    ASSUME NEW S, NEW s \in Seq(S), NEW t \in Seq(S)
    PROVE  IsPrefix(s, t) <=> Len(s) <= Len(t) /\ \A k \in 1..Len(s) : s[k] = t[k]
  <1>1. Len(s) \in Nat /\ Len(t) \in Nat
    BY LenProperties
  <1>2. SubSeq(s, 1, Len(s)) = s
    BY SubSeqFull
  <1> SUFFICES ASSUME Len(s) <= Len(t)
               PROVE  SubSeq(t, 1, Len(s)) = s <=> \A k \in 1..Len(s) : s[k] = t[k]
    BY <1>2 DEF IsPrefix
  <1> DEFINE u == SubSeq(t, 1, Len(s))
  <1>3. u \in Seq(S) /\ Len(u) = Len(s) /\ \A k \in 1..Len(s) : u[k] = t[k]
    <2>1. \A k \in 1..Len(s) : t[k] \in S
      <3>1. \A k \in 1..Len(s) : k \in 1..Len(t)
        BY <1>1
      <3>2. QED
        BY <3>1, ElementOfSeq
    <2>2. /\ u \in Seq(S) /\ Len(u) = IF 1 <= Len(s) THEN Len(s) - 1 + 1 ELSE 0
          /\ \A k \in 1..(Len(s) - 1 + 1) : u[k] = t[1 + k - 1]
      BY <1>1, <2>1, SubSeqProperties
    <2>3. QED
      BY <1>1, <2>2
  <1> HIDE DEF u
  <1>4. (\A k \in 1..Len(s) : s[k] = t[k]) => u = s
    BY <1>3, SeqEqual
  <1>5. QED
    BY <1>3, <1>4 DEF u

LEMMA PrefixIsShorter ==
    ASSUME NEW S, NEW s \in Seq(S), NEW t \in Seq(S), IsPrefix(s, t), s # t
    PROVE  Len(s) < Len(t)
  <1>1. Len(s) \in Nat /\ Len(t) \in Nat
    BY LenProperties
  <1>2. Len(s) <= Len(t) /\ \A k \in 1..Len(s) : s[k] = t[k]
    BY PrefixByElements
  <1>3. Len(s) # Len(t)
    BY <1>2, SeqEqual
  <1>4. QED
    BY <1>1, <1>2, <1>3

LEMMA PrefixOfPrefix ==
    ASSUME NEW S, NEW s \in Seq(S), NEW t \in Seq(S), NEW u \in Seq(S),
           IsPrefix(s, t), IsPrefix(t, u)
    PROVE  IsPrefix(s, u)
  <1>1. Len(s) \in Nat /\ Len(t) \in Nat /\ Len(u) \in Nat
    BY LenProperties
  <1>2. /\ Len(s) <= Len(t) /\ \A k \in 1..Len(s) : s[k] = t[k]
        /\ Len(t) <= Len(u) /\ \A k \in 1..Len(t) : t[k] = u[k]
    BY PrefixByElements
  <1>3. Len(s) <= Len(u) /\ \A k \in 1..Len(s) : s[k] = u[k]
    BY <1>1, <1>2
  <1>4. QED
    BY <1>3, PrefixByElements

-----------------------------------------------------------------------------
(* Tables *)

LEMMA HeaderFacts ==
    ASSUME InputIsFixed, NEW f \in DOMAIN whole
    PROVE  /\ whole \in Seq(Seq(Declarations)) /\ whole[f] \in Seq(Declarations)
           /\ DOMAIN whole[f] = 1..Len(whole[f]) /\ Len(whole[f]) \in Nat
           /\ ToSet(whole[f]) \subseteq Declarations
           /\ IsOfHeader(whole[f])
  <1>1. whole \in Seq(Seq(Declarations)) /\ IsOfHeader(whole[f])
    BY OutputAssumption DEF InputIsFixed
  <1>2. whole[f] \in Seq(Declarations)
    BY <1>1, ElementOfSeq, LenProperties
  <1>3. DOMAIN whole[f] = 1..Len(whole[f]) /\ Len(whole[f]) \in Nat
    BY <1>2, LenProperties
  <1>4. ToSet(whole[f]) \subseteq Declarations
    BY <1>2, <1>3, ElementOfSeq DEF ToSet
  <1>5. QED
    BY <1>1, <1>2, <1>3, <1>4

LEMMA HeldIsTyped ==
    ASSUME NEW f, NEW t \in Declarations
    PROVE  /\ Held(f, t) \in Declarations
           /\ Held(f, t).name = t.name /\ Held(f, t).kind = t.kind /\ Held(f, t).id = t.id
           /\ Held(f, t).forward = t.forward /\ Held(f, t).template = t.template
           /\ IsCached(f) => /\ Held(f, t).parent = <<>> /\ Held(f, t).hidden = FALSE
                             /\ Held(f, t).section = NoSection /\ Held(f, t).tagged = FALSE
           /\ ~IsCached(f) => Held(f, t) = t
  <1>1. <<>> \in Seq(Ids)
    OBVIOUS
  <1>2. QED
    BY <1>1 DEF Held, Declarations

LEMMA TableFacts ==
    ASSUME InputIsFixed, NEW f \in DOMAIN whole
    PROVE  /\ tables[f] \in Seq(Declarations)
           /\ \A i \in 1..Len(tables[f]) : \E t \in ToSet(whole[f]) :
                 IsKept(f, t) /\ tables[f][i] = Held(f, t)
           /\ \A t \in ToSet(whole[f]) : IsKept(f, t) =>
                 \E i \in 1..Len(tables[f]) : tables[f][i] = Held(f, t)
           /\ \A i, j \in 1..Len(tables[f]) :
                 tables[f][i].name = tables[f][j].name => i = j
  <1> DEFINE w == whole[f]
             K == {t \in ToSet(w) : IsKept(f, t)}
             p == Selected(w, K)
  <1>1. /\ w \in Seq(Declarations) /\ Len(w) \in Nat /\ DOMAIN w = 1..Len(w)
        /\ ToSet(w) \subseteq Declarations
        /\ \A i, j \in 1..Len(w) : w[i].name = w[j].name => i = j
    BY HeaderFacts DEF IsOfHeader
  <1>2. ToSet(w) = {w[k] : k \in 1..Len(w)}
    BY <1>1 DEF ToSet
  <1>3. /\ p \in Seq(Declarations)
        /\ \E at \in Seq(1..Len(w)) : Picks(at, w, K)
    <2> HIDE DEF w, K
    <2> QED
      BY <1>1, SelectedProperties DEF p
  <1>4. tables[f] = [i \in 1..Len(p) |-> Held(f, p[i])]
    <2>1. DOMAIN p = 1..Len(p) /\ p = [i \in 1..Len(p) |-> p[i]]
      <3> HIDE DEF p
      <3> QED
        BY <1>3, LenProperties
    <2>2. tables[f] = TableOf(w, writers[f])
      BY DEF InputIsFixed
    <2>3. CASE writers[f] = "this"
      <3>1. K = {t \in ToSet(w) : ~(opts.taggedOnly /\ IsSkipped(w, t))}
        BY <2>3 DEF IsKept, ForTaggedOnly, IsCached
      <3>2. tables[f] = p
        BY <2>2, <2>3, <3>1 DEF TableOf, ParsedTable
      <3>3. \A t : Held(f, t) = t
        BY <2>3 DEF Held, IsCached
      <3> HIDE DEF p
      <3>4. QED
        BY <2>1, <3>2, <3>3
    <2>4. CASE writers[f] # "this"
      <3>1. K = {t \in ToSet(w) : ~(writers[f] = "tagged_only" /\ IsSkipped(w, t))}
        BY <2>4 DEF IsKept, ForTaggedOnly, IsCached
      <3>2. tables[f] = Reloaded(p)
        BY <2>2, <2>4, <3>1 DEF TableOf, ParsedTable
      <3> HIDE DEF p
      <3>3. QED
        BY <2>1, <2>4, <3>2 DEF Reloaded, Held, IsCached
    <2>5. QED
      BY <2>3, <2>4
  <1>5. PICK at \in Seq(1..Len(w)) :
             /\ Len(at) = Len(p)
             /\ \A i \in 1..Len(at) : p[i] = w[at[i]] /\ w[at[i]] \in K
             /\ \A i, j \in 1..Len(at) : i < j => at[i] < at[j]
             /\ \A k \in 1..Len(w) : w[k] \in K => \E i \in 1..Len(at) : at[i] = k
    <2> HIDE DEF w, K
    <2> QED
      BY <1>3 DEF p, Picks
  <1> HIDE DEF p, K
  <1>6. Len(p) \in Nat /\ \A i \in 1..Len(p) : p[i] \in Declarations
    BY <1>3, LenProperties, ElementOfSeq
  <1>7. \A i \in 1..Len(p) : Held(f, p[i]) \in Declarations /\ Held(f, p[i]).name = p[i].name
    BY <1>6, HeldIsTyped
  <1>8. tables[f] \in Seq(Declarations) /\ Len(tables[f]) = Len(p)
    BY <1>4, <1>6, <1>7, SeqDef, LenProperties
  <1>9. \A i \in 1..Len(p) : p[i] \in K /\ tables[f][i] = Held(f, p[i])
    BY <1>4, <1>5
  <1>10. \A t \in K : \E i \in 1..Len(p) : p[i] = t
    <2>1. \A t \in K : \E k \in 1..Len(w) : w[k] = t
      BY <1>2 DEF K
    <2>2. ASSUME NEW t \in K PROVE \E i \in 1..Len(p) : p[i] = t
      <3>1. PICK k \in 1..Len(w) : w[k] = t
        BY <2>1
      <3>2. PICK i \in 1..Len(at) : at[i] = k
        BY <1>5, <3>1
      <3>3. QED
        BY <1>5, <3>1, <3>2
    <2>3. QED
      BY <2>2
  <1>11. \A i, j \in 1..Len(p) : p[i].name = p[j].name => i = j
    <2> SUFFICES ASSUME NEW i \in 1..Len(p), NEW j \in 1..Len(p), p[i].name = p[j].name, i # j
                 PROVE  FALSE
      OBVIOUS
    <2>1. at[i] \in 1..Len(w) /\ at[j] \in 1..Len(w)
      BY <1>5, ElementOfSeq
    <2>2. at[i] = at[j]
      BY <1>1, <1>5, <2>1
    <2>3. i < j \/ j < i
      BY <1>6
    <2>4. at[i] < at[j] \/ at[j] < at[i]
      BY <1>5, <2>3
    <2>5. QED
      BY <1>1, <2>1, <2>2, <2>4
  <1>12. \A i, j \in 1..Len(tables[f]) : tables[f][i].name = tables[f][j].name => i = j
    BY <1>7, <1>8, <1>9, <1>11
  <1>13. \A i \in 1..Len(tables[f]) : \E t \in ToSet(whole[f]) :
            IsKept(f, t) /\ tables[f][i] = Held(f, t)
    BY <1>8, <1>9 DEF K
  <1>14. ASSUME NEW t \in ToSet(whole[f]), IsKept(f, t)
         PROVE  \E i \in 1..Len(tables[f]) : tables[f][i] = Held(f, t)
    <2>1. PICK i \in 1..Len(p) : p[i] = t
      BY <1>10, <1>14 DEF K
    <2>2. QED
      BY <1>8, <1>9, <2>1
  <1>15. QED
    BY <1>8, <1>12, <1>13, <1>14

LEMMA TablesAreTyped ==
    ASSUME InputIsFixed
    PROVE  /\ Len(tables) \in Nat \ {0} /\ DOMAIN tables = 1..Len(tables)
           /\ DOMAIN whole = 1..Len(tables)
           /\ \A f \in 1..Len(tables) : Len(tables[f]) \in Nat
           /\ \A f \in 1..Len(tables) : \A i \in 1..Len(tables[f]) :
                 tables[f][i] \in Types /\ tables[f][i] \in Declarations
           /\ \A f \in 1..Len(tables) : \A i, j \in 1..Len(tables[f]) :
                 tables[f][i].name = tables[f][j].name => i = j
  <1>1. whole \in Seq(Seq(Declarations)) /\ whole # <<>>
    BY OutputAssumption DEF InputIsFixed
  <1>2. DOMAIN whole = 1..Len(whole) /\ Len(whole) \in Nat \ {0}
    BY <1>1, LenProperties, EmptySeq
  <1>3. DOMAIN tables = 1..Len(whole) /\ Len(tables) = Len(whole)
    BY <1>2 DEF InputIsFixed
  <1>4. \A f \in 1..Len(tables) :
           /\ tables[f] \in Seq(Declarations)
           /\ \A i, j \in 1..Len(tables[f]) : tables[f][i].name = tables[f][j].name => i = j
    BY <1>2, <1>3, TableFacts
  <1>5. ASSUME NEW f \in 1..Len(tables)
        PROVE  /\ Len(tables[f]) \in Nat
               /\ \A i \in 1..Len(tables[f]) :
                     tables[f][i] \in Types /\ tables[f][i] \in Declarations
    <2>1. Len(tables[f]) \in Nat /\ DOMAIN tables[f] = 1..Len(tables[f])
      BY <1>4, LenProperties
    <2>2. \A i \in 1..Len(tables[f]) : tables[f][i] \in Declarations
      BY <1>4, ElementOfSeq
    <2>3. \A i \in 1..Len(tables[f]) : tables[f][i] \in ToSet(tables[f])
      BY <2>1 DEF ToSet
    <2>4. ToSet(tables[f]) \subseteq Types
      BY <1>3 DEF Types
    <2>5. QED
      BY <2>1, <2>2, <2>3, <2>4
  <1>6. QED
    BY <1>2, <1>3, <1>4, <1>5

-----------------------------------------------------------------------------
(* Walks *)

LEMMA ListGrows ==
    ASSUME NEW S, NEW list, Lists(list, S), NEW new, new \notin S
    PROVE  Lists(Append(list, new), S \cup {new})
  <1> DEFINE more == Append(list, new)
             all == S \cup {new}
  <1>1. list \in Seq(all) /\ Len(list) \in Nat
    BY LenProperties, SeqMonotonic DEF Lists
  <1>2. /\ more \in Seq(all) /\ Len(more) = Len(list) + 1
        /\ \A i \in 1..Len(list) : more[i] = list[i]
        /\ more[Len(list) + 1] = new
    BY <1>1, AppendProperties
  <1>3. \A i \in 1..Len(list) : list[i] \in S
    BY ElementOfSeq DEF Lists
  <1>4. /\ \A e \in S : \E k \in 1..Len(list) : list[k] = e
        /\ \A k, l \in 1..Len(list) : list[k] = list[l] => k = l
    BY DEF Lists
  <1> HIDE DEF more, all
  <1>5. /\ \A i \in 1..Len(more) : i \in 1..Len(list) \/ i = Len(list) + 1
        /\ \A i \in 1..Len(list) : i \in 1..Len(more)
        /\ Len(list) + 1 \in 1..Len(more)
    BY <1>1, <1>2
  <1>6. \A e \in all : \E k \in 1..Len(more) : more[k] = e
    BY <1>2, <1>4, <1>5 DEF all
  <1>7. \A k, l \in 1..Len(more) : more[k] = more[l] => k = l
    BY <1>2, <1>3, <1>4, <1>5
  <1>8. QED
    BY <1>2, <1>6, <1>7 DEF Lists, more, all

\* Nothing that the sets of extracted types depend on, but for the place of the
\* walk, changes.
LEMMA InputStays ==
    ASSUME UNCHANGED input
    PROVE  /\ Extracted' = Extracted /\ tables' = tables /\ opts' = opts
           /\ InputIsFixed => InputIsFixed'
           /\ \A f, t : WantedEnum(f, t)' <=> WantedEnum(f, t)
           /\ \A f, t : WantedClass(f, t)' <=> WantedClass(f, t)
           /\ \A t : (Section(t)' = Section(t)) /\ (Wants(t)' <=> Wants(t))
           /\ \A t : IsEmitted(t)' <=> IsEmitted(t)
           /\ \A e : TraitOf(e)' = TraitOf(e)
  <1>1. whole' = whole /\ writers' = writers /\ tables' = tables /\ opts' = opts
    BY DEF input
  <1>2. Extracted' = Extracted
    BY <1>1 DEF Extracted, Types
  <1>3. InputIsFixed => InputIsFixed'
    BY <1>1 DEF InputIsFixed, TableOf, ParsedTable
  <1>4. \A f, t : ParentIn(f, t)' = ParentIn(f, t)
    BY <1>1 DEF ParentIn
  <1>5. /\ \A f, t : WantedEnum(f, t)' <=> WantedEnum(f, t)
        /\ \A f, t : WantedClass(f, t)' <=> WantedClass(f, t)
    BY <1>1, <1>4 DEF WantedEnum, WantedClass
  <1>6. /\ \A t : (Section(t)' = Section(t)) /\ (Wants(t)' <=> Wants(t))
        /\ \A t : IsEmitted(t)' <=> IsEmitted(t)
        /\ \A e : TraitOf(e)' = TraitOf(e)
    BY <1>1 DEF Wants, IsEmitted
  <1>7. QED
    BY <1>1, <1>2, <1>3, <1>5, <1>6

\* An entry comes from one place of one table.
LEMMA EntryFacts ==
    ASSUME InputIsFixed, NEW e \in MetEnums \cup MetClasses
    PROVE  /\ e \in Extracted /\ e.header \in 1..Len(tables)
           /\ e = [type |-> e.type, header |-> e.header]
           /\ \E i \in 1..Len(tables[e.header]) : tables[e.header][i] = e.type
           /\ e \in MetEnums <=> e.type.kind = "enum"
           /\ e \in MetClasses <=> e.type.kind # "enum"
  <1>1. e \in Extracted
    BY DEF MetEnums, MetClasses
  <1>2. e \in MetEnums => e.type.kind = "enum"
    BY DEF MetEnums, WantedEnum
  <1>3. e \in MetClasses => e.type.kind # "enum"
    BY DEF MetClasses, WantedClass
  <1>4. \E i \in 1..Len(tables[e.header]) : tables[e.header][i] = e.type
    BY DEF MetEnums, MetClasses
  <1>5. e.header \in 1..Len(tables) /\ e = [type |-> e.type, header |-> e.header]
    BY <1>1 DEF Extracted
  <1>6. QED
    BY <1>1, <1>2, <1>3, <1>4, <1>5

\* Two entries of one name and header are one.
LEMMA EntriesDiffer ==
    ASSUME InputIsFixed, NEW d \in MetEnums \cup MetClasses, NEW e \in MetEnums \cup MetClasses,
           d.header = e.header, d.type.name = e.type.name
    PROVE  d = e
  <1>1. PICK i \in 1..Len(tables[d.header]) : tables[d.header][i] = d.type
    BY EntryFacts
  <1>2. PICK j \in 1..Len(tables[e.header]) : tables[e.header][j] = e.type
    BY EntryFacts
  <1>3. d.header \in 1..Len(tables) /\ d = [type |-> d.type, header |-> d.header]
    BY EntryFacts
  <1>4. e = [type |-> e.type, header |-> e.header]
    BY EntryFacts
  <1>5. i = j
    BY <1>1, <1>2, <1>3, TablesAreTyped
  <1>6. QED
    BY <1>1, <1>2, <1>3, <1>4, <1>5

LEMMA MetEnumsStay ==
    ASSUME UNCHANGED input,
           \A f \in 1..Len(tables) : \A i \in 1..Len(tables[f]) :
               HasMetEnum(f, i)' <=> HasMetEnum(f, i)
    PROVE  MetEnums' = MetEnums
  <1>1. ASSUME NEW e \in Extracted
        PROVE  (\E i \in 1..Len(tables[e.header]) :
                   HasMetEnum(e.header, i) /\ tables[e.header][i] = e.type)'
               <=> \E i \in 1..Len(tables[e.header]) :
                      HasMetEnum(e.header, i) /\ tables[e.header][i] = e.type
    <2>1. e.header \in 1..Len(tables) /\ tables' = tables
      BY InputStays DEF Extracted
    <2>2. QED
      BY <2>1
  <1>2. QED
    BY <1>1, InputStays DEF MetEnums

LEMMA EnumsAreVisited ==
    ASSUME InputIsFixed, Counts, Lists(enums, MetEnums), VisitType
    PROVE  Lists(enums, MetEnums)'
  <1> DEFINE t == tables[file][place]
             new == [type |-> t, header |-> file]
             IsNew(f, i) == f = file /\ i = place
  <1>1. UNCHANGED input /\ file' = file /\ phase' = phase /\ place' = place + 1
    BY DEF VisitType
  <1>2. /\ file \in 1..Len(tables) /\ place \in 1..Len(tables[file]) /\ Len(tables) \in Nat
        /\ \A f \in 1..Len(tables) : Len(tables[f]) \in Nat
    <2>1. file \in 1..Len(tables) /\ place \in Nat \ {0} /\ place <= Len(tables[file])
      BY DEF Counts, VisitType, TypesAreLeft
    <2>2. /\ \A f \in 1..Len(tables) : Len(tables[f]) \in Nat
          /\ Len(tables) \in Nat
      BY TablesAreTyped
    <2>3. QED
      BY <2>1, <2>2
  <1>3. t \in Types /\ new \in Extracted
    BY <1>2, TablesAreTyped DEF Extracted
  <1>4. EnumIsWanted(t) <=> WantedEnum(file, t)
    BY DEF EnumIsWanted, WantedEnum, Parent, ParentIn
  <1>5. CASE phase = "visit_enums"
    <2>1. \A f \in 1..Len(tables) : \A i \in 1..Len(tables[f]) :
             HasMetEnum(f, i)' <=> HasMetEnum(f, i) \/ IsNew(f, i)
      BY <1>1, <1>2, <1>5 DEF HasMetEnum
    <2>2. enums' = IF EnumIsWanted(t) THEN Append(enums, new) ELSE enums
      BY <1>5 DEF VisitType, AddType
    <2>3. \A e \in Extracted : e.header \in 1..Len(tables) /\ e = [type |-> e.type, header |-> e.header]
      BY DEF Extracted
    <2>4. MetEnums' = {e \in Extracted : e \in MetEnums \/ (e = new /\ WantedEnum(file, t))}
      <3>1. ASSUME NEW e \in Extracted
            PROVE  e \in MetEnums' <=> e \in MetEnums \/ (e = new /\ WantedEnum(file, t))
        <4>1. e \in MetEnums' <=> /\ \E i \in 1..Len(tables[e.header]) :
                                     HasMetEnum(e.header, i)' /\ tables[e.header][i] = e.type
                                  /\ WantedEnum(e.header, e.type)
          BY <1>1, InputStays DEF MetEnums
        <4>2. (\E i \in 1..Len(tables[e.header]) :
                  HasMetEnum(e.header, i)' /\ tables[e.header][i] = e.type)
              <=> \/ \E i \in 1..Len(tables[e.header]) :
                        HasMetEnum(e.header, i) /\ tables[e.header][i] = e.type
                  \/ e.header = file /\ e.type = t
          BY <1>2, <2>1, <2>3
        <4>3. e \in MetEnums <=> /\ \E i \in 1..Len(tables[e.header]) :
                                    HasMetEnum(e.header, i) /\ tables[e.header][i] = e.type
                                 /\ WantedEnum(e.header, e.type)
          BY DEF MetEnums
        <4>4. e.header = file /\ e.type = t <=> e = new
          BY <2>3
        <4>5. new.header = file /\ new.type = t
          OBVIOUS
        <4> HIDE DEF t, new
        <4>6. QED
          BY <4>1, <4>2, <4>3, <4>4, <4>5
      <3>2. MetEnums' \subseteq Extracted
        BY <1>1, InputStays DEF MetEnums
      <3>3. QED
        BY <3>1, <3>2
    <2>5. new \notin MetEnums
      <3> SUFFICES ASSUME new \in MetEnums PROVE FALSE
        OBVIOUS
      <3>1. PICK i \in 1..Len(tables[file]) : HasMetEnum(file, i) /\ tables[file][i] = t
        BY DEF MetEnums
      <3>2. i = place
        BY <1>2, <3>1, TablesAreTyped
      <3>3. ~HasMetEnum(file, place)
        BY <1>2, <1>5 DEF HasMetEnum
      <3>4. QED
        BY <3>1, <3>2, <3>3
    <2>6. MetEnums \subseteq Extracted
      BY DEF MetEnums
    <2> HIDE DEF t, new
    <2>7. CASE EnumIsWanted(t)
      <3>1. MetEnums' = MetEnums \cup {new} /\ enums' = Append(enums, new)
        BY <1>3, <1>4, <2>2, <2>4, <2>6, <2>7
      <3>2. QED
        BY <2>5, <3>1, ListGrows
    <2>8. CASE ~EnumIsWanted(t)
      <3>1. MetEnums' = MetEnums /\ enums' = enums
        BY <1>3, <1>4, <2>2, <2>4, <2>6, <2>8
      <3>2. QED
        BY <3>1
    <2>9. QED
      BY <2>7, <2>8
  <1>6. CASE phase # "visit_enums"
    <2>1. \A f \in 1..Len(tables) : \A i \in 1..Len(tables[f]) :
             HasMetEnum(f, i)' <=> HasMetEnum(f, i)
      BY <1>1, <1>6 DEF HasMetEnum, VisitType
    <2>2. MetEnums' = MetEnums
      BY <1>1, <2>1, MetEnumsStay
    <2>3. enums' = enums
      BY <1>6 DEF VisitType
    <2>4. QED
      BY <2>2, <2>3
  <1>7. QED
    BY <1>5, <1>6

LEMMA MetClassesStay ==
    ASSUME UNCHANGED input,
           \A f \in 1..Len(tables) : \A i \in 1..Len(tables[f]) :
               HasMetClass(f, i)' <=> HasMetClass(f, i)
    PROVE  MetClasses' = MetClasses
  <1>1. ASSUME NEW e \in Extracted
        PROVE  (\E i \in 1..Len(tables[e.header]) :
                   HasMetClass(e.header, i) /\ tables[e.header][i] = e.type)'
               <=> \E i \in 1..Len(tables[e.header]) :
                      HasMetClass(e.header, i) /\ tables[e.header][i] = e.type
    <2>1. e.header \in 1..Len(tables) /\ tables' = tables
      BY InputStays DEF Extracted
    <2>2. QED
      BY <2>1
  <1>2. QED
    BY <1>1, InputStays DEF MetClasses

LEMMA ClassesAreVisited ==
    ASSUME InputIsFixed, Counts, Lists(classes, MetClasses), VisitType
    PROVE  Lists(classes, MetClasses)'
  <1> DEFINE t == tables[file][place]
             new == [type |-> t, header |-> file]
             IsNew(f, i) == f = file /\ i = place
  <1>1. UNCHANGED input /\ file' = file /\ phase' = phase /\ place' = place + 1
    BY DEF VisitType
  <1>2. /\ file \in 1..Len(tables) /\ place \in 1..Len(tables[file]) /\ Len(tables) \in Nat
        /\ \A f \in 1..Len(tables) : Len(tables[f]) \in Nat
    <2>1. file \in 1..Len(tables) /\ place \in Nat \ {0} /\ place <= Len(tables[file])
      BY DEF Counts, VisitType, TypesAreLeft
    <2>2. /\ \A f \in 1..Len(tables) : Len(tables[f]) \in Nat
          /\ Len(tables) \in Nat
      BY TablesAreTyped
    <2>3. QED
      BY <2>1, <2>2
  <1>3. t \in Types /\ new \in Extracted
    BY <1>2, TablesAreTyped DEF Extracted
  <1>4. ClassIsWanted(t) <=> WantedClass(file, t)
    BY DEF ClassIsWanted, WantedClass, Parent, ParentIn
  <1>5. CASE phase = "visit_classes"
    <2>1. \A f \in 1..Len(tables) : \A i \in 1..Len(tables[f]) :
             HasMetClass(f, i)' <=> HasMetClass(f, i) \/ IsNew(f, i)
      BY <1>1, <1>2, <1>5 DEF HasMetClass
    <2>2. classes' = IF ClassIsWanted(t) THEN Append(classes, new) ELSE classes
      BY <1>5 DEF VisitType, AddType
    <2>3. \A e \in Extracted : e.header \in 1..Len(tables) /\ e = [type |-> e.type, header |-> e.header]
      BY DEF Extracted
    <2>4. MetClasses' = {e \in Extracted : e \in MetClasses \/ (e = new /\ WantedClass(file, t))}
      <3>1. ASSUME NEW e \in Extracted
            PROVE  e \in MetClasses' <=> e \in MetClasses \/ (e = new /\ WantedClass(file, t))
        <4>1. e \in MetClasses' <=> /\ \E i \in 1..Len(tables[e.header]) :
                                     HasMetClass(e.header, i)' /\ tables[e.header][i] = e.type
                                  /\ WantedClass(e.header, e.type)
          BY <1>1, InputStays DEF MetClasses
        <4>2. (\E i \in 1..Len(tables[e.header]) :
                  HasMetClass(e.header, i)' /\ tables[e.header][i] = e.type)
              <=> \/ \E i \in 1..Len(tables[e.header]) :
                        HasMetClass(e.header, i) /\ tables[e.header][i] = e.type
                  \/ e.header = file /\ e.type = t
          BY <1>2, <2>1, <2>3
        <4>3. e \in MetClasses <=> /\ \E i \in 1..Len(tables[e.header]) :
                                    HasMetClass(e.header, i) /\ tables[e.header][i] = e.type
                                 /\ WantedClass(e.header, e.type)
          BY DEF MetClasses
        <4>4. e.header = file /\ e.type = t <=> e = new
          BY <2>3
        <4>5. new.header = file /\ new.type = t
          OBVIOUS
        <4> HIDE DEF t, new
        <4>6. QED
          BY <4>1, <4>2, <4>3, <4>4, <4>5
      <3>2. MetClasses' \subseteq Extracted
        BY <1>1, InputStays DEF MetClasses
      <3>3. QED
        BY <3>1, <3>2
    <2>5. new \notin MetClasses
      <3> SUFFICES ASSUME new \in MetClasses PROVE FALSE
        OBVIOUS
      <3>1. PICK i \in 1..Len(tables[file]) : HasMetClass(file, i) /\ tables[file][i] = t
        BY DEF MetClasses
      <3>2. i = place
        BY <1>2, <3>1, TablesAreTyped
      <3>3. ~HasMetClass(file, place)
        BY <1>2, <1>5 DEF HasMetClass
      <3>4. QED
        BY <3>1, <3>2, <3>3
    <2>6. MetClasses \subseteq Extracted
      BY DEF MetClasses
    <2> HIDE DEF t, new
    <2>7. CASE ClassIsWanted(t)
      <3>1. MetClasses' = MetClasses \cup {new} /\ classes' = Append(classes, new)
        BY <1>3, <1>4, <2>2, <2>4, <2>6, <2>7
      <3>2. QED
        BY <2>5, <3>1, ListGrows
    <2>8. CASE ~ClassIsWanted(t)
      <3>1. MetClasses' = MetClasses /\ classes' = classes
        BY <1>3, <1>4, <2>2, <2>4, <2>6, <2>8
      <3>2. QED
        BY <3>1
    <2>9. QED
      BY <2>7, <2>8
  <1>6. CASE phase # "visit_classes"
    <2>1. \A f \in 1..Len(tables) : \A i \in 1..Len(tables[f]) :
             HasMetClass(f, i)' <=> HasMetClass(f, i)
      BY <1>1, <1>6 DEF HasMetClass, VisitType
    <2>2. MetClasses' = MetClasses
      BY <1>1, <2>1, MetClassesStay
    <2>3. classes' = classes
      BY <1>6 DEF VisitType
    <2>4. QED
      BY <2>2, <2>3
  <1>7. QED
    BY <1>5, <1>6

\* The end of a walk changes what has been met as little as what comes after it does.
LEMMA WalkEnds ==
    ASSUME InputIsFixed, Counts, EndVisit
    PROVE  MetEnums' = MetEnums /\ MetClasses' = MetClasses /\ Counts'
  <1>1. UNCHANGED <<input, enums, classes, inclusions, traits>> /\ place' = 1
    BY DEF EndVisit
  <1>2. /\ file \in 1..Len(tables) /\ Len(tables) \in Nat
        /\ \A f \in 1..Len(tables) : Len(tables[f]) \in Nat
        /\ place \in Nat \ {0} /\ place > Len(tables[file])
    <2>1. /\ file \in 1..Len(tables) /\ place \in Nat \ {0}
          /\ ~(place <= Len(tables[file]))
      BY DEF Counts, EndVisit, TypesAreLeft
    <2>2. /\ \A f \in 1..Len(tables) : Len(tables[f]) \in Nat
          /\ Len(tables) \in Nat
      BY TablesAreTyped
    <2>3. QED
      BY <2>1, <2>2
  <1>3. \/ phase = "visit_enums" /\ phase' = "visit_classes" /\ file' = file
        \/ phase = "visit_classes" /\ file < Len(tables) /\ phase' = "visit_enums" /\ file' = file + 1
        \/ phase = "visit_classes" /\ file = Len(tables) /\ phase' = "include_enums" /\ file' = file
    BY DEF EndVisit
  <1>4. \A f \in 1..Len(tables) : \A i \in 1..Len(tables[f]) :
           HasMetEnum(f, i)' <=> HasMetEnum(f, i)
    BY <1>1, <1>2, <1>3 DEF HasMetEnum
  <1>5. \A f \in 1..Len(tables) : \A i \in 1..Len(tables[f]) :
           HasMetClass(f, i)' <=> HasMetClass(f, i)
    BY <1>1, <1>2, <1>3 DEF HasMetClass
  <1>6. MetEnums' = MetEnums /\ MetClasses' = MetClasses
    BY <1>1, <1>4, <1>5, MetEnumsStay, MetClassesStay
  <1>7. Counts'
    <2>1. tables' = tables /\ enums' = enums
      BY <1>1 DEF input
    <2>2. file' \in 1..Len(tables) /\ phase' \in Phases /\ place' \in Nat \ {0}
      BY <1>1, <1>2, <1>3 DEF Phases
    <2>3. phase' \in Visits => 1 <= Len(tables[file']) + 1
      BY <1>2, <2>2
    <2>4. phase' \in Loops => 1 <= Len(List') + 1
      <3> SUFFICES ASSUME phase' \in Loops PROVE 1 <= Len(List') + 1
        OBVIOUS
      <3>1. phase' = "include_enums"
        BY <1>3 DEF Loops
      <3>2. List' = enums
        BY <2>1, <3>1 DEF List
      <3>3. QED
        BY <3>2
    <2>5. phase' \notin Visits => file' = Len(tables)
      BY <1>3 DEF Visits
    <2>6. QED
      BY <1>1, <2>1, <2>2, <2>3, <2>4, <2>5 DEF Counts
  <1>8. QED
    BY <1>6, <1>7

LEMMA WalksStep ==
    ASSUME IInv, VisitType \/ EndVisit
    PROVE  IInv'
  <1>1. UNCHANGED <<input, inclusions, traits>> /\ phase \in Visits
    BY DEF VisitType, EndVisit, Visits
  <1>2. InputIsFixed'
    BY <1>1, InputStays DEF IInv
  <1>3. Lists(enums, MetEnums)' /\ Lists(classes, MetClasses)'
    <2>1. CASE VisitType
      BY <2>1, EnumsAreVisited, ClassesAreVisited DEF IInv
    <2>2. CASE EndVisit
      <3>1. enums' = enums /\ classes' = classes /\ MetEnums' = MetEnums /\ MetClasses' = MetClasses
        BY <2>2, WalkEnds DEF IInv, EndVisit
      <3>2. QED
        BY <3>1 DEF IInv
    <2>3. QED
      BY <2>1, <2>2
  <1>4. Counts'
    <2>1. CASE VisitType
      <3>1. place <= Len(tables[file]) /\ place \in Nat \ {0} /\ file \in 1..Len(tables)
        BY <2>1 DEF VisitType, TypesAreLeft, IInv, Counts
      <3>2. Len(tables[file]) \in Nat
        BY <3>1, TablesAreTyped DEF IInv
      <3>3. phase' = phase /\ file' = file /\ place' = place + 1 /\ tables' = tables
        BY <1>1, <2>1 DEF VisitType, input
      <3>4. phase \notin Loops
        BY <1>1 DEF Visits, Loops
      <3>5. QED
        BY <1>1, <3>1, <3>2, <3>3, <3>4 DEF Counts, IInv
    <2>2. CASE EndVisit
      BY <2>2, WalkEnds DEF IInv
    <2>3. QED
      BY <2>1, <2>2
  <1>5. InclusionsAreWritten'
    <2>1. CASE phase' = "include_enums"
      <3>1. place' - 1 = 0
        BY <1>1, <2>1 DEF VisitType, EndVisit, Visits
      <3>2. AreIncluded(enums, place - 1)'
        BY <3>1 DEF AreIncluded
      <3>3. QED
        BY <2>1, <3>2 DEF InclusionsAreWritten
    <2>2. CASE phase' \in Visits
      BY <2>2 DEF InclusionsAreWritten, Visits
    <2>3. QED
      BY <1>1, <2>1, <2>2 DEF VisitType, EndVisit, Visits
  <1>6. TraitsAreWritten'
    <2>1. /\ EnumsWritten = 0 /\ ClassesWritten = 0
          /\ EnumsWritten' = 0 /\ ClassesWritten' = 0
      BY <1>1 DEF EnumsWritten, ClassesWritten, VisitType, EndVisit, Visits
    <2>2. Written = {} /\ Written' = {}
      BY <2>1 DEF Written
    <2>3. QED
      BY <1>1, <2>2 DEF TraitsAreWritten, IInv
  <1>7. QED
    BY <1>2, <1>3, <1>4, <1>5, <1>6 DEF IInv

-----------------------------------------------------------------------------
(* Loops *)

\* All types have been met when the loops begin.
LEMMA LoopsKeepTheLists ==
    ASSUME IInv, UNCHANGED <<input, file, enums, classes>>, phase \notin Visits, phase' \notin Visits
    PROVE  InputIsFixed' /\ Lists(enums, MetEnums)' /\ Lists(classes, MetClasses)'
  <1>1. \A f \in 1..Len(tables) : \A i \in 1..Len(tables[f]) :
           /\ HasMetEnum(f, i)' <=> HasMetEnum(f, i)
           /\ HasMetClass(f, i)' <=> HasMetClass(f, i)
    BY DEF HasMetEnum, HasMetClass, Visits
  <1>2. MetEnums' = MetEnums /\ MetClasses' = MetClasses
    BY <1>1, MetEnumsStay, MetClassesStay
  <1>3. QED
    BY <1>2, InputStays DEF IInv

LEMMA ListsAreTyped ==
    ASSUME IInv
    PROVE  /\ Len(enums) \in Nat /\ Len(classes) \in Nat /\ Len(List) \in Nat
           /\ \A k \in 1..Len(enums) : enums[k] \in MetEnums
           /\ \A k \in 1..Len(classes) : classes[k] \in MetClasses
  <1>1. enums \in Seq(MetEnums) /\ classes \in Seq(MetClasses)
    BY DEF IInv, Lists
  <1>2. Len(enums) \in Nat /\ Len(classes) \in Nat
    BY <1>1, LenProperties
  <1>3. QED
    BY <1>1, <1>2, ElementOfSeq DEF List

LEMMA CountsGoOn ==
    ASSUME IInv, UNCHANGED <<input, phase, file, enums, classes>>, Left(Loops),
           place' = place + 1
    PROVE  Counts' /\ place \in 1..Len(List) /\ List' = List
  <1>1. List' = List
    BY DEF List
  <1>2. Len(List) \in Nat /\ place \in Nat \ {0} /\ place <= Len(List) /\ phase \in Loops
    BY ListsAreTyped DEF Left, IInv, Counts
  <1>3. phase \notin Visits
    BY <1>2 DEF Loops, Visits
  <1>4. tables' = tables
    BY DEF input
  <1>5. QED
    BY <1>1, <1>2, <1>3, <1>4 DEF Counts, IInv

LEMMA InclusionIsAdded ==
    ASSUME NEW list, NEW n \in Nat \ {0}, AreIncluded(list, n - 1),
           UNCHANGED input,
           NEW earlier,
           earlier = {list[i].header : i \in {j \in 1..(n - 1) : Wants(list[j].type)}},
           inclusions' = IF ~Wants(list[n].type) \/ list[n].header \in earlier
                         THEN inclusions
                         ELSE inclusions \cup {<<Section(list[n].type), list[n].header>>}
    PROVE  AreIncluded(list, n)'
  <1>1. \A t : Wants(t)' <=> Wants(t)
    BY InputStays
  <1>2. inclusions \subseteq inclusions'
    OBVIOUS
  <1>3. \A k \in 1..n : k \in 1..(n - 1) \/ k = n
    OBVIOUS
  <1>4. \A k \in 1..(n - 1) : k \in 1..n
    OBVIOUS
  <1>5. \A k \in 1..(n - 1) : Wants(list[k].type) =>
           \E m \in 1..n : /\ Wants(list[m].type) /\ list[m].header = list[k].header
                           /\ <<Section(list[m].type), list[m].header>> \in inclusions'
    BY <1>2, <1>4 DEF AreIncluded
  <1>6. Wants(list[n].type) =>
           \E m \in 1..n : /\ Wants(list[m].type) /\ list[m].header = list[n].header
                           /\ <<Section(list[m].type), list[m].header>> \in inclusions'
    <2> SUFFICES ASSUME Wants(list[n].type)
                 PROVE  \E m \in 1..n :
                           /\ Wants(list[m].type) /\ list[m].header = list[n].header
                           /\ <<Section(list[m].type), list[m].header>> \in inclusions'
      OBVIOUS
    <2>1. CASE list[n].header \in earlier
      <3>1. PICK j \in 1..(n - 1) : Wants(list[j].type) /\ list[j].header = list[n].header
        BY <2>1
      <3>2. QED
        BY <1>5, <3>1
    <2>2. CASE list[n].header \notin earlier
      <3>1. <<Section(list[n].type), list[n].header>> \in inclusions' /\ n \in 1..n
        BY <2>2
      <3>2. QED
        BY <3>1
    <2>3. QED
      BY <2>1, <2>2
  <1>7. \A k \in 1..n : Wants(list[k].type)' =>
           \E m \in 1..n : /\ Wants(list[m].type)' /\ list[m].header = list[k].header
                           /\ <<Section(list[m].type), list[m].header>> \in inclusions'
    BY <1>1, <1>3, <1>5, <1>6
  <1>8. QED
    BY <1>7 DEF AreIncluded

LEMMA InclusionsStep ==
    ASSUME IInv, WriteInclusion
    PROVE  IInv'
  <1>1. /\ UNCHANGED <<input, phase, file, enums, classes, traits>> /\ place' = place + 1
        /\ phase \in {"include_enums", "include_classes"} /\ place <= Len(List)
    BY DEF WriteInclusion, Left
  <1>2. phase \in Loops /\ phase \notin Visits
    BY <1>1 DEF Loops, Visits
  <1>3. Counts' /\ place \in 1..Len(List) /\ List' = List /\ place \in Nat \ {0}
    BY <1>1, <1>2, CountsGoOn DEF Left, IInv, Counts
  <1>4. InputIsFixed' /\ Lists(enums, MetEnums)' /\ Lists(classes, MetClasses)'
    BY <1>1, <1>2, LoopsKeepTheLists
  <1>5. TraitsAreWritten'
    <2>1. Written' = {} /\ Written = {}
      BY <1>1 DEF Written, EnumsWritten, ClassesWritten
    <2>2. QED
      BY <1>1, <2>1 DEF TraitsAreWritten, IInv
  <1>6. inclusions' = IF ~Wants(List[place].type) \/ List[place].header \in IncludedHeaders
                      THEN inclusions
                      ELSE inclusions \cup {<<Section(List[place].type), List[place].header>>}
    BY DEF WriteInclusion, Wants
  <1>7. IncludedHeaders = {List[i].header : i \in {j \in 1..(place - 1) : Wants(List[j].type)}}
    BY DEF IncludedHeaders, Wants
  <1>8. AreIncluded(List, place - 1)
    BY <1>1 DEF IInv, InclusionsAreWritten, List
  <1>9. \A list : list = List => AreIncluded(list, place - 1)
    BY <1>8
  <1>10. \A list, n : list = List /\ n = place => AreIncluded(list, n)'
    <2> SUFFICES ASSUME NEW list, NEW n, list = List, n = place PROVE AreIncluded(list, n)'
      OBVIOUS
    <2>1. n \in Nat \ {0} /\ AreIncluded(list, n - 1)
      BY <1>3, <1>8
    <2>2. IncludedHeaders = {list[i].header : i \in {j \in 1..(n - 1) : Wants(list[j].type)}}
      BY <1>7
    <2>3. QED
      BY <1>1, <1>6, <2>1, <2>2, InclusionIsAdded
  <1>11. (place - 1)' = place
    BY <1>1, <1>3
  <1>12. CASE phase = "include_enums"
    <2>1. AreIncluded(enums, place - 1)'
      BY <1>1, <1>10, <1>11, <1>12 DEF AreIncluded, List
    <2>2. QED
      BY <1>1, <1>3, <1>4, <1>5, <1>12, <2>1 DEF IInv, InclusionsAreWritten
  <1>13. CASE phase = "include_classes"
    <2>1. AreIncluded(classes, place - 1)'
      <3>1. classes = List /\ classes' = classes
        BY <1>1, <1>13 DEF List
      <3>2. QED
        BY <1>10, <1>11, <3>1 DEF AreIncluded
    <2>2. AreIncluded(enums, Len(enums))'
      <3>1. inclusions \subseteq inclusions' /\ enums' = enums /\ \A t : Wants(t)' <=> Wants(t)
        BY <1>1, <1>6, InputStays
      <3>2. AreIncluded(enums, Len(enums))
        BY <1>13 DEF IInv, InclusionsAreWritten
      <3>3. QED
        BY <3>1, <3>2 DEF AreIncluded
    <2>3. QED
      BY <1>1, <1>3, <1>4, <1>5, <1>13, <2>1, <2>2 DEF IInv, InclusionsAreWritten
  <1>14. QED
    BY <1>1, <1>12, <1>13

LEMMA TraitsStep ==
    ASSUME IInv, WriteTrait
    PROVE  IInv'
  <1> DEFINE e == List[place]
             Names(s) == \A i, j \in 1..Len(s) :
                 s[i].header = s[j].header /\ s[i].name = s[j].name => i = j
  <1>1. /\ UNCHANGED <<input, phase, file, enums, classes, inclusions>> /\ place' = place + 1
        /\ phase \in {"write_enums", "write_classes"} /\ place <= Len(List)
    BY DEF WriteTrait, Left
  <1>2. phase \in Loops /\ phase \notin Visits
    BY <1>1 DEF Loops, Visits
  <1>3. Counts' /\ place \in 1..Len(List) /\ List' = List /\ place \in Nat \ {0}
    BY <1>1, <1>2, CountsGoOn DEF Left, IInv, Counts
  <1>4. InputIsFixed' /\ Lists(enums, MetEnums)' /\ Lists(classes, MetClasses)'
    BY <1>1, <1>2, LoopsKeepTheLists
  <1>5. InclusionsAreWritten'
    <2>1. AreIncluded(enums, Len(enums)) /\ AreIncluded(classes, Len(classes))
      BY <1>1 DEF IInv, InclusionsAreWritten
    <2>2. \A t : Wants(t)' <=> Wants(t)
      BY <1>1, InputStays
    <2>3. AreIncluded(enums, Len(enums))' /\ AreIncluded(classes, Len(classes))'
      BY <1>1, <2>1, <2>2 DEF AreIncluded
    <2>4. QED
      BY <1>1, <2>3 DEF InclusionsAreWritten
  <1>6. /\ \A k \in 1..Len(enums) : enums[k] \in MetEnums
        /\ \A k \in 1..Len(classes) : classes[k] \in MetClasses
        /\ \A k, l \in 1..Len(enums) : enums[k] = enums[l] => k = l
        /\ \A k, l \in 1..Len(classes) : classes[k] = classes[l] => k = l
        /\ Len(enums) \in Nat /\ Len(classes) \in Nat
    BY ListsAreTyped DEF IInv, Lists
  <1>7. \/ /\ phase = "write_enums" /\ List = enums
           /\ EnumsWritten = place - 1 /\ EnumsWritten' = place
           /\ ClassesWritten = 0 /\ ClassesWritten' = 0
        \/ /\ phase = "write_classes" /\ List = classes
           /\ EnumsWritten = Len(enums) /\ EnumsWritten' = Len(enums)
           /\ ClassesWritten = place - 1 /\ ClassesWritten' = place
    BY <1>1, <1>3 DEF List, EnumsWritten, ClassesWritten
  <1>8. /\ e \in MetEnums \cup MetClasses /\ e \in Extracted
        /\ List = enums => e \in MetEnums
        /\ List = classes => e \in MetClasses
    <2>1. e \in MetEnums \cup MetClasses
      BY <1>3, <1>6, <1>7
    <2>2. e \in Extracted
      BY <2>1, EntryFacts DEF IInv
    <2>3. QED
      BY <1>3, <1>6, <1>7, <2>1, <2>2
  <1>9. \A d \in Written : d \in MetEnums \cup MetClasses
    BY <1>3, <1>6, <1>7 DEF Written
  <1>10. e \notin Written
    <2> SUFFICES ASSUME e \in Written PROVE FALSE
      OBVIOUS
    <2>1. e \in MetEnums <=> e \notin MetClasses
      BY <1>8, EntryFacts DEF IInv
    <2>2. \A k \in 1..(place - 1) : k \in 1..Len(List) /\ k # place
      BY <1>3
    <2>3. \/ \E k \in 1..EnumsWritten : enums[k] = e
          \/ \E k \in 1..ClassesWritten : classes[k] = e
      BY DEF Written
    <2> HIDE DEF e
    <2>4. CASE phase = "write_enums"
      <3>1. List = enums /\ EnumsWritten = place - 1 /\ ClassesWritten = 0
        BY <1>7, <2>4
      <3>2. PICK k \in 1..(place - 1) : enums[k] = e
        BY <2>3, <3>1
      <3>3. enums[place] = e
        BY <3>1 DEF e
      <3>4. QED
        BY <1>3, <1>6, <2>2, <3>1, <3>2, <3>3
    <2>5. CASE phase = "write_classes"
      <3>1. List = classes /\ EnumsWritten = Len(enums) /\ ClassesWritten = place - 1
        BY <1>7, <2>5
      <3>2. e \notin MetEnums
        BY <1>8, <2>1, <3>1
      <3>3. PICK k \in 1..(place - 1) : classes[k] = e
        BY <1>6, <2>3, <3>1, <3>2
      <3>4. classes[place] = e
        BY <3>1 DEF e
      <3>5. QED
        BY <1>3, <1>6, <2>2, <3>1, <3>3, <3>4
    <2>6. QED
      BY <1>1, <2>4, <2>5
  <1>11. \A d \in Extracted :
            d \in Written' <=> d \in Written \/ (d = e /\ IsEmitted(e.type))
    <2> SUFFICES ASSUME NEW d \in Extracted
                 PROVE  d \in Written' <=> d \in Written \/ (d = e /\ IsEmitted(e.type))
      OBVIOUS
    <2>1. d \in Written' <=> /\ IsEmitted(d.type)
                             /\ \/ \E k \in 1..EnumsWritten' : enums[k] = d
                                \/ \E k \in 1..ClassesWritten' : classes[k] = d
      BY <1>1, InputStays DEF Written
    <2>2. d \in Written <=> /\ IsEmitted(d.type)
                            /\ \/ \E k \in 1..EnumsWritten : enums[k] = d
                               \/ \E k \in 1..ClassesWritten : classes[k] = d
      BY DEF Written
    <2>3. \A k : k \in 1..place <=> k \in 1..(place - 1) \/ k = place
      BY <1>3
    <2>4. CASE phase = "write_enums"
      <3>1. /\ List = enums /\ EnumsWritten = place - 1 /\ EnumsWritten' = place
            /\ ClassesWritten' = ClassesWritten
        BY <1>7, <2>4
      <3>2. QED
        BY <2>1, <2>2, <2>3, <3>1
    <2>5. CASE phase = "write_classes"
      <3>1. /\ List = classes /\ ClassesWritten = place - 1 /\ ClassesWritten' = place
            /\ EnumsWritten' = EnumsWritten
        BY <1>7, <2>5
      <3>2. QED
        BY <2>1, <2>2, <2>3, <3>1
    <2>6. QED
      BY <1>1, <2>4, <2>5
  <1>12. Written \subseteq Extracted /\ Written' \subseteq Extracted
    BY <1>1, InputStays DEF Written
  <1>13. /\ traits \in Seq({TraitOf(d) : d \in Written})
         /\ \A d \in Written : \E i \in 1..Len(traits) : traits[i] = TraitOf(d)
         /\ Names(traits)
    BY DEF IInv, TraitsAreWritten
  <1>14. traits' = IF IsEmitted(e.type) THEN Append(traits, TraitOf(e)) ELSE traits
    BY DEF WriteTrait, TraitOf
  <1>15. TraitsAreWritten'
    <2>1. CASE ~IsEmitted(e.type)
      <3>1. Written' = Written /\ traits' = traits
        BY <1>11, <1>12, <1>14, <2>1
      <3>2. QED
        BY <1>13, <3>1 DEF TraitsAreWritten
    <2>2. CASE IsEmitted(e.type)
      <3> DEFINE S == {TraitOf(d) : d \in Written'}
                 new == TraitOf(e)
      <3>1. Written' = Written \cup {e} /\ traits' = Append(traits, new)
        BY <1>8, <1>11, <1>12, <1>14, <2>2
      <3>2. new \in S /\ {TraitOf(d) : d \in Written} \subseteq S
        BY <3>1
      <3>3. traits \in Seq(S) /\ Len(traits) \in Nat
        BY <1>13, <3>2, SeqMonotonic, LenProperties
      <3>4. \A i \in 1..Len(traits) : \E d \in Written : traits[i] = TraitOf(d)
        <4>1. \A i \in 1..Len(traits) : traits[i] \in {TraitOf(d) : d \in Written}
          BY <1>13, ElementOfSeq
        <4>2. QED
          BY <4>1
      <3>5. \A i \in 1..Len(traits) : ~(traits[i].header = new.header /\ traits[i].name = new.name)
        <4> SUFFICES ASSUME NEW i \in 1..Len(traits),
                            traits[i].header = new.header, traits[i].name = new.name
                     PROVE  FALSE
          OBVIOUS
        <4>1. PICK d \in Written : traits[i] = TraitOf(d)
          BY <3>4
        <4>2. d.header = e.header /\ d.type.name = e.type.name
          BY <4>1 DEF TraitOf
        <4>3. d = e
          BY <1>8, <1>9, <4>2, EntriesDiffer DEF IInv
        <4>4. QED
          BY <1>10, <4>3
      <3> HIDE DEF S, new
      <3>6. /\ traits' \in Seq(S) /\ Len(traits') = Len(traits) + 1
            /\ \A i \in 1..Len(traits) : traits'[i] = traits[i]
            /\ traits'[Len(traits) + 1] = new
        BY <3>1, <3>2, <3>3, AppendProperties
      <3>7. /\ \A i \in 1..Len(traits') : i \in 1..Len(traits) \/ i = Len(traits) + 1
            /\ \A i \in 1..Len(traits) : i \in 1..Len(traits')
            /\ Len(traits) + 1 \in 1..Len(traits')
        BY <3>3, <3>6
      <3>8. \A d \in Written' : \E i \in 1..Len(traits') : traits'[i] = TraitOf(d)
        BY <1>13, <3>1, <3>6, <3>7 DEF new
      <3>9. Names(traits')
        BY <1>13, <3>5, <3>6, <3>7
      <3>10. QED
        BY <3>6, <3>8, <3>9 DEF TraitsAreWritten, S
    <2>3. QED
      BY <2>1, <2>2
  <1>16. QED
    BY <1>3, <1>4, <1>5, <1>15 DEF IInv

LEMMA LoopEndsStep ==
    ASSUME IInv, EndLoop
    PROVE  IInv'
  <1>1. /\ UNCHANGED <<input, file, enums, classes, inclusions, traits>> /\ place' = 1
        /\ phase \in Loops /\ place > Len(List)
    BY DEF EndLoop, Phases, Loops, IInv, Counts
  <1>2. \/ phase = "include_enums" /\ phase' = "include_classes"
        \/ phase = "include_classes" /\ phase' = "write_enums"
        \/ phase = "write_enums" /\ phase' = "write_classes"
        \/ phase = "write_classes" /\ phase' = "end"
    BY <1>1 DEF EndLoop, Loops
  <1>3. phase \notin Visits /\ phase' \notin Visits /\ phase' \in Phases
    BY <1>2 DEF Visits, Phases
  <1>4. InputIsFixed' /\ Lists(enums, MetEnums)' /\ Lists(classes, MetClasses)'
    BY <1>1, <1>3, LoopsKeepTheLists
  <1>5. place \in Nat \ {0} /\ Len(List) \in Nat /\ place <= Len(List) + 1
    BY <1>1, ListsAreTyped DEF IInv, Counts
  <1>6. place - 1 = Len(List)
    BY <1>1, <1>5
  <1>7. Counts'
    <2>1. file \in 1..Len(tables) /\ file = Len(tables) /\ tables' = tables
      BY <1>1, <1>3 DEF IInv, Counts, input
    <2>2. Len(enums) \in Nat /\ Len(classes) \in Nat
      BY ListsAreTyped
    <2>3. List' = enums \/ List' = classes
      BY <1>1 DEF List
    <2>4. 1 <= Len(List') + 1
      BY <2>2, <2>3
    <2>5. QED
      BY <1>1, <1>3, <2>1, <2>4 DEF Counts
  <1>8. InclusionsAreWritten'
    <2>1. phase = "include_enums" => AreIncluded(enums, Len(enums))
      BY <1>6 DEF IInv, InclusionsAreWritten, List
    <2>2. phase \in {"include_classes", "write_enums", "write_classes"} =>
             AreIncluded(enums, Len(enums))
      BY DEF IInv, InclusionsAreWritten
    <2>3. phase = "include_classes" => AreIncluded(classes, Len(classes))
      BY <1>6 DEF IInv, InclusionsAreWritten, List
    <2>4. phase \in {"write_enums", "write_classes"} => AreIncluded(classes, Len(classes))
      BY DEF IInv, InclusionsAreWritten
    <2>5. \A t : Wants(t)' <=> Wants(t)
      BY <1>1, InputStays
    <2>6. AreIncluded(enums, Len(enums))'
      <3>1. AreIncluded(enums, Len(enums))
        BY <1>2, <2>1, <2>2
      <3>2. QED
        BY <1>1, <2>5, <3>1 DEF AreIncluded
    <2>7. phase' \in {"write_enums", "write_classes", "end"} => AreIncluded(classes, Len(classes))'
      <3> SUFFICES ASSUME phase' \in {"write_enums", "write_classes", "end"}
                   PROVE  AreIncluded(classes, Len(classes))'
        OBVIOUS
      <3>1. AreIncluded(classes, Len(classes))
        BY <1>2, <2>3, <2>4
      <3>2. QED
        BY <1>1, <2>5, <3>1 DEF AreIncluded
    <2>8. phase' = "include_classes" => AreIncluded(classes, place - 1)'
      <3>1. (place - 1)' = 0
        BY <1>1
      <3>2. QED
        BY <3>1 DEF AreIncluded
    <2>9. QED
      BY <1>2, <2>6, <2>7, <2>8 DEF InclusionsAreWritten
  <1>9. TraitsAreWritten'
    <2>1. EnumsWritten' = EnumsWritten /\ ClassesWritten' = ClassesWritten
      BY <1>1, <1>2, <1>6 DEF EnumsWritten, ClassesWritten, List
    <2>2. Written' = Written
      BY <1>1, <2>1, InputStays DEF Written
    <2>3. QED
      BY <1>1, <2>2 DEF TraitsAreWritten, IInv
  <1>10. QED
    BY <1>4, <1>7, <1>8, <1>9 DEF IInv

-----------------------------------------------------------------------------
(* What holds of every output *)

LEMMA InitEstablishes == Init => IInv
  <1> SUFFICES ASSUME Init PROVE IInv
    OBVIOUS
  <1>1. InputIsFixed
    BY DEF Init, InputIsFixed
  <1>2. /\ Len(tables) \in Nat \ {0}
        /\ \A f \in 1..Len(tables) : Len(tables[f]) \in Nat
    BY <1>1, TablesAreTyped
  <1>3. /\ phase = "visit_enums" /\ file = 1 /\ place = 1
        /\ enums = <<>> /\ classes = <<>> /\ traits = <<>>
    BY DEF Init
  <1>4. Counts
    BY <1>2, <1>3 DEF Counts, Phases, Visits, Loops
  <1>5. MetEnums = {} /\ MetClasses = {}
    <2>1. \A f \in 1..Len(tables) : \A i \in 1..Len(tables[f]) :
             ~HasMetEnum(f, i) /\ ~HasMetClass(f, i)
      BY <1>2, <1>3 DEF HasMetEnum, HasMetClass
    <2>2. QED
      BY <2>1 DEF MetEnums, MetClasses, Extracted
  <1>6. Lists(enums, MetEnums) /\ Lists(classes, MetClasses)
    BY <1>3, <1>5 DEF Lists
  <1>7. InclusionsAreWritten
    BY <1>3 DEF InclusionsAreWritten
  <1>8. TraitsAreWritten
    <2>1. Written = {}
      BY <1>3 DEF Written, EnumsWritten, ClassesWritten
    <2>2. QED
      BY <1>3, <2>1 DEF TraitsAreWritten
  <1>9. QED
    BY <1>1, <1>4, <1>6, <1>7, <1>8 DEF IInv

LEMMA Invariance == Spec => []IInv
  <1>1. IInv /\ UNCHANGED vars => IInv'
    <2> SUFFICES ASSUME IInv, UNCHANGED vars PROVE IInv'
      OBVIOUS
    <2>1. UNCHANGED <<input, phase, file, place, enums, classes, inclusions, traits>>
      BY DEF vars
    <2>2. \A t : Wants(t)' <=> Wants(t)
      BY <2>1, InputStays
    <2>3. MetEnums' = MetEnums /\ MetClasses' = MetClasses
      BY <2>1, MetEnumsStay, MetClassesStay DEF HasMetEnum, HasMetClass
    <2>4. Written' = Written
      BY <2>1, InputStays DEF Written, EnumsWritten, ClassesWritten
    <2>5. InputIsFixed' /\ tables' = tables
      BY <2>1, InputStays DEF IInv
    <2>6. Counts' /\ TraitsAreWritten'
      BY <2>1, <2>4, <2>5 DEF IInv, Counts, List, TraitsAreWritten
    <2>7. InclusionsAreWritten'
      BY <2>1, <2>2 DEF IInv, InclusionsAreWritten, AreIncluded
    <2>8. QED
      BY <2>1, <2>3, <2>5, <2>6, <2>7 DEF IInv
  <1>2. IInv /\ [Next]_vars => IInv'
    BY <1>1, WalksStep, InclusionsStep, TraitsStep, LoopEndsStep DEF Next
  <1>3. QED
    BY InitEstablishes, <1>2, PTL DEF Spec

\* The walks stay in the tables there are, and an extractor collects types of these
\* tables that are of its kind.
THEOREM TypeCorrect == Spec => []TypeOK
  <1>1. ASSUME IInv PROVE TypeOK
    <2>1. \A k \in 1..Len(enums) : enums[k] \in MetEnums
      BY <1>1, ListsAreTyped
    <2>2. \A k \in 1..Len(classes) : classes[k] \in MetClasses
      BY <1>1, ListsAreTyped
    <2>3. /\ \A k \in 1..Len(enums) : enums[k].type.kind = "enum"
          /\ \A k \in 1..Len(classes) : classes[k].type.kind # "enum"
      BY <1>1, <2>1, <2>2 DEF MetEnums, MetClasses, WantedEnum, WantedClass
    <2>4. enums \in Seq(MetEnums) /\ classes \in Seq(MetClasses)
      BY <1>1 DEF IInv, Lists
    <2>5. enums \in Seq(Extracted) /\ classes \in Seq(Extracted)
      <3>1. MetEnums \subseteq Extracted /\ MetClasses \subseteq Extracted
        BY DEF MetEnums, MetClasses
      <3>2. QED
        BY <2>4, <3>1, SeqMonotonic
    <2>6. DOMAIN enums = 1..Len(enums) /\ DOMAIN classes = 1..Len(classes)
      BY <2>4, LenProperties
    <2>7. DOMAIN tables = DOMAIN whole
      BY <1>1, TablesAreTyped DEF IInv
    <2>8. QED
      BY <1>1, <2>3, <2>5, <2>6, <2>7 DEF IInv, InputIsFixed, Counts, Visits, TypeOK
  <1>2. QED
    BY <1>1, Invariance, PTL

\* A trait is that of a type which a table holds, and an extractor wanted.
LEMMA TraitsHaveTypes ==
    ASSUME IInv, NEW i \in DOMAIN traits
    PROVE  \E e \in MetEnums \cup MetClasses :
              /\ traits[i] = TraitOf(e) /\ e \in Written /\ IsEmitted(e.type)
              /\ e.header \in DOMAIN whole
              /\ \E t \in ToSet(whole[e.header]) :
                    IsKept(e.header, t) /\ e.type = Held(e.header, t)
  <1>1. traits \in Seq({TraitOf(e) : e \in Written})
    BY DEF IInv, TraitsAreWritten
  <1>2. traits[i] \in {TraitOf(e) : e \in Written}
    BY <1>1, ElementOfSeq, LenProperties
  <1>3. PICK e \in Written : traits[i] = TraitOf(e)
    BY <1>2
  <1>4. e \in MetEnums \cup MetClasses /\ IsEmitted(e.type)
    <2>1. /\ \A k \in 1..EnumsWritten : k \in 1..Len(enums)
          /\ \A k \in 1..ClassesWritten : k \in 1..Len(classes)
      <3>1. Len(enums) \in Nat /\ Len(classes) \in Nat
        BY ListsAreTyped
      <3>2. /\ phase \in Loops => place \in Nat \ {0} /\ place <= Len(List) + 1
        BY DEF IInv, Counts
      <3>3. CASE phase = "write_enums"
        <4>1. List = enums /\ EnumsWritten = place - 1 /\ ClassesWritten = 0 /\ phase \in Loops
          BY <3>3 DEF List, EnumsWritten, ClassesWritten, Loops
        <4>2. QED
          BY <3>1, <3>2, <4>1
      <3>4. CASE phase = "write_classes"
        <4>1. /\ List = classes /\ EnumsWritten = Len(enums) /\ ClassesWritten = place - 1
              /\ phase \in Loops
          BY <3>4 DEF List, EnumsWritten, ClassesWritten, Loops
        <4>2. QED
          BY <3>1, <3>2, <4>1
      <3>5. CASE phase \notin {"write_enums", "write_classes"}
        <4>1. /\ EnumsWritten = Len(enums) \/ EnumsWritten = 0
              /\ ClassesWritten = Len(classes) \/ ClassesWritten = 0
          BY <3>5 DEF EnumsWritten, ClassesWritten
        <4>2. QED
          BY <3>1, <4>1
      <3>6. QED
        BY <3>3, <3>4, <3>5
    <2>2. QED
      BY <2>1, ListsAreTyped DEF Written
  <1>5. e.header \in 1..Len(tables) /\ \E k \in 1..Len(tables[e.header]) :
                                          tables[e.header][k] = e.type
    BY <1>4, EntryFacts DEF IInv
  <1>6. e.header \in DOMAIN whole
    BY <1>5, TablesAreTyped DEF IInv
  <1>7. \E t \in ToSet(whole[e.header]) : IsKept(e.header, t) /\ e.type = Held(e.header, t)
    BY <1>5, <1>6, TableFacts DEF IInv
  <1>8. QED
    BY <1>3, <1>4, <1>6, <1>7

LEMMA AroundIsShorter ==
    ASSUME InputIsFixed, NEW f \in DOMAIN whole, NEW t \in ToSet(whole[f]),
           NEW u \in Around(whole[f], t)
    PROVE  /\ u \in ToSet(whole[f]) /\ u \in Declarations /\ t \in Declarations
           /\ IsPrefix(u.name, t.name) /\ Len(u.name) < Len(t.name)
           /\ Len(u.name) \in Nat /\ Len(t.name) \in Nat
  <1>1. u \in ToSet(whole[f]) /\ IsPrefix(u.name, t.name) /\ u # t
    BY DEF Around
  <1>2. t \in Declarations /\ u \in Declarations
    BY <1>1, HeaderFacts
  <1>3. u.name \in Seq(Ids) /\ t.name \in Seq(Ids)
    BY <1>2 DEF Declarations
  <1>4. u.name # t.name
    BY <1>1, HeaderFacts DEF IsOfHeader, ToSet
  <1>5. QED
    BY <1>1, <1>2, <1>3, <1>4, PrefixIsShorter, LenProperties

\* A table that holds a type holds the types around it.
LEMMA AroundIsKept ==
    ASSUME InputIsFixed, NEW f \in DOMAIN whole, NEW t \in ToSet(whole[f]), IsKept(f, t),
           NEW u \in Around(whole[f], t)
    PROVE  IsKept(f, u)
  <1> SUFFICES ASSUME IsSkipped(whole[f], u) PROVE IsSkipped(whole[f], t)
    BY DEF IsKept
  <1>1. PICK v \in Around(whole[f], u) : v.kind # "enum" /\ ~v.tagged
    BY DEF IsSkipped
  <1>2. /\ u \in ToSet(whole[f]) /\ IsPrefix(u.name, t.name) /\ Len(u.name) < Len(t.name)
        /\ u \in Declarations /\ t \in Declarations
        /\ Len(u.name) \in Nat /\ Len(t.name) \in Nat
    BY AroundIsShorter
  <1>3. /\ v \in ToSet(whole[f]) /\ IsPrefix(v.name, u.name) /\ Len(v.name) < Len(u.name)
        /\ v \in Declarations /\ Len(v.name) \in Nat
    BY <1>2, AroundIsShorter
  <1>4. v # t
    BY <1>2, <1>3
  <1>5. IsPrefix(v.name, t.name)
    <2>1. v.name \in Seq(Ids) /\ u.name \in Seq(Ids) /\ t.name \in Seq(Ids)
      BY <1>2, <1>3 DEF Declarations
    <2>2. QED
      BY <1>2, <1>3, <2>1, PrefixOfPrefix
  <1>6. v \in Around(whole[f], t)
    BY <1>3, <1>4, <1>5 DEF Around
  <1>7. QED
    BY <1>1, <1>6 DEF IsSkipped

\* In a table of the parser the parent of a type is found by its name.
LEMMA ParentIsFound ==
    ASSUME InputIsFixed, NEW f \in DOMAIN whole, ~IsCached(f),
           NEW t \in ToSet(whole[f]), IsKept(f, t),
           NEW u \in Around(whole[f], t), u.name = t.parent
    PROVE  ParentIn(f, t) = u
  <1>1. u \in ToSet(whole[f]) /\ IsKept(f, u) /\ u \in Declarations
    BY AroundIsKept, AroundIsShorter
  <1>2. Held(f, u) = u
    BY <1>1, HeldIsTyped
  <1>3. tables[f] \in Seq(Declarations)
    BY TableFacts
  <1>4. DOMAIN tables[f] = 1..Len(tables[f])
    BY <1>3, LenProperties
  <1>5. u \in ToSet(tables[f])
    BY <1>1, <1>2, <1>4, TableFacts DEF ToSet
  <1>6. \A p \in ToSet(tables[f]) : p.name = u.name => p = u
    BY <1>4, <1>5, TableFacts DEF ToSet
  <1>7. QED
    BY <1>5, <1>6 DEF ParentIn

\* metadata.h has one trait of a name, whatever headers declare a type that one of
\* them defines and in whatever order they come.
THEOREM TraitsAreUnique == Spec => []OneTraitPerType
  <1>1. ASSUME IInv, NEW i \in DOMAIN traits, NEW j \in DOMAIN traits,
               i # j, traits[i].name = traits[j].name
        PROVE  FALSE
    <2>1. PICK d \in MetEnums \cup MetClasses :
             /\ traits[i] = TraitOf(d) /\ d \in Written /\ IsEmitted(d.type)
             /\ d.header \in DOMAIN whole
             /\ \E t \in ToSet(whole[d.header]) : d.type = Held(d.header, t)
      BY <1>1, TraitsHaveTypes
    <2>2. PICK e \in MetEnums \cup MetClasses :
             /\ traits[j] = TraitOf(e) /\ e \in Written /\ IsEmitted(e.type)
             /\ e.header \in DOMAIN whole
             /\ \E t \in ToSet(whole[e.header]) : e.type = Held(e.header, t)
      BY <1>1, TraitsHaveTypes
    <2>3. CASE d.header = e.header
      <3>1. DOMAIN traits = 1..Len(traits)
        BY <1>1, LenProperties DEF IInv, TraitsAreWritten
      <3>2. traits[i].header = traits[j].header
        BY <2>1, <2>2, <2>3 DEF TraitOf
      <3>3. QED
        BY <1>1, <3>1, <3>2 DEF IInv, TraitsAreWritten
    <2>4. CASE d.header # e.header
      <3>1. PICK t \in ToSet(whole[d.header]) : d.type = Held(d.header, t)
        BY <2>1
      <3>2. PICK u \in ToSet(whole[e.header]) : e.type = Held(e.header, u)
        BY <2>2
      <3>3. t \in Declarations /\ u \in Declarations
        BY <1>1, <2>1, <2>2, HeaderFacts DEF IInv
      <3>4. /\ d.type.name = t.name /\ d.type.forward = t.forward
            /\ e.type.name = u.name /\ e.type.forward = u.forward
        <4>1. \A f, x : x \in Declarations =>
                 Held(f, x).name = x.name /\ Held(f, x).forward = x.forward
          BY HeldIsTyped
        <4>2. QED
          BY ONLY <3>1, <3>2, <3>3, <4>1
      <3>5. t.name = u.name /\ ~t.forward /\ ~u.forward
        BY <1>1, <2>1, <2>2, <3>4 DEF TraitOf, IsEmitted
      <3>6. DefinesOnce(whole)
        BY <1>1, OutputAssumption DEF IInv, InputIsFixed
      <3>7. QED
        BY <2>1, <2>2, <2>4, <3>5, <3>6 DEF DefinesOnce
    <2>5. QED
      BY <2>3, <2>4
  <1>2. IInv => OneTraitPerType
    BY <1>1 DEF OneTraitPerType
  <1>3. QED
    BY <1>2, Invariance, PTL

\* A trait that program text cannot use comes out of a table of the parser only for
\* an enumeration in a class or for a class whose own encloser is visible, and is
\* of a type that is defined and wanted in any case.
THEOREM LeaksAreDeep == Spec => []OnlyDeepTypesLeak
  <1>1. ASSUME IInv, NEW i \in DOMAIN traits
        PROVE  LET f == traits[i].header
               IN  \E t \in ToSet(whole[f]) :
                       /\ t.name = traits[i].name /\ t.kind \in opts.flags /\ ~t.forward
                       /\ \/ IsCached(f) /\ ~t.template
                          \/ IsExposed(f, t)
                          \/ /\ ~t.hidden /\ ~t.template
                             /\ \A u \in Around(whole[f], t) :
                                   u.hidden => t.kind = "enum" \/ Len(u.name) < Len(t.name) - 1
    <2>0. InputIsFixed
      BY <1>1 DEF IInv
    <2>1. PICK e \in MetEnums \cup MetClasses :
             /\ traits[i] = TraitOf(e) /\ IsEmitted(e.type) /\ e.header \in DOMAIN whole
             /\ \E t \in ToSet(whole[e.header]) :
                   IsKept(e.header, t) /\ e.type = Held(e.header, t)
      BY <1>1, TraitsHaveTypes
    <2> DEFINE f == e.header
    <2>2. PICK t \in ToSet(whole[f]) : IsKept(f, t) /\ e.type = Held(f, t)
      BY <2>1
    <2>3. t \in Declarations /\ f \in DOMAIN whole
      BY <2>0, <2>1, HeaderFacts
    <2>4. /\ e.type.name = t.name
          /\ e.type.kind = t.kind
          /\ e.type.forward = t.forward
          /\ e.type.template = t.template
          /\ ~IsCached(f) => e.type = t
      <3>1. \A g, x : x \in Declarations =>
               /\ Held(g, x).name = x.name
               /\ Held(g, x).kind = x.kind
               /\ Held(g, x).forward = x.forward
               /\ Held(g, x).template = x.template
               /\ ~IsCached(g) => Held(g, x) = x
        BY HeldIsTyped
      <3>2. QED
        BY ONLY <2>2, <2>3, <3>1
    <2>5. traits[i].header = f /\ traits[i].name = t.name
      BY <2>1, <2>4 DEF TraitOf
    <2>6. ~t.forward /\ ~t.template
      BY <2>1, <2>4 DEF IsEmitted
    <2>7. /\ e.type.kind \in opts.flags /\ ~e.type.hidden
          /\ e.type.kind # "enum" => WantedClass(f, e.type)
      <3>1. CASE e \in MetEnums
        BY <3>1 DEF MetEnums, WantedEnum
      <3>2. CASE e \in MetClasses
        BY <3>2 DEF MetClasses, WantedClass
      <3>3. QED
        BY <3>1, <3>2
    <2> HIDE DEF f
    <2>8. ASSUME ~IsCached(f), NEW u \in Around(whole[f], t), u.hidden, t.kind # "enum"
          PROVE  Len(u.name) < Len(t.name) - 1
      <3>1. /\ Len(u.name) < Len(t.name) /\ Len(u.name) \in Nat /\ Len(t.name) \in Nat
            /\ u \in ToSet(whole[f])
        BY <2>0, <2>2, <2>3, AroundIsShorter
      <3>2. ASSUME Len(u.name) = Len(t.name) - 1 PROVE FALSE
        <4>1. t.parent = u.name /\ u.name # <<>>
          BY <2>0, <2>2, <2>3, <2>8, <3>1, <3>2, HeaderFacts DEF IsOfHeader
        <4>2. ParentIn(f, t) = u
          BY <2>0, <2>2, <2>3, <2>8, <4>1, ParentIsFound
        <4>3. ~ParentIn(f, t).hidden
          BY <2>4, <2>7, <2>8, <4>1 DEF WantedClass, HasParent
        <4>4. QED
          BY <2>8, <4>2, <4>3
      <3>3. QED
        BY <3>1, <3>2
    <2>9. \/ IsCached(f) /\ ~t.template
          \/ /\ ~t.hidden /\ ~t.template
             /\ \A u \in Around(whole[f], t) :
                   u.hidden => t.kind = "enum" \/ Len(u.name) < Len(t.name) - 1
      BY <2>4, <2>6, <2>7, <2>8
    <2>10. QED
      BY <2>2, <2>4, <2>5, <2>6, <2>7, <2>9
  <1>2. IInv => OnlyDeepTypesLeak
    <2> SUFFICES ASSUME IInv PROVE OnlyDeepTypesLeak
      OBVIOUS
    <2>1. QED
      BY <1>1 DEF OnlyDeepTypesLeak
  <1>3. QED
    BY <1>2, Invariance, PTL

\* metadata.h has a trait of every type that is public all the way, defined and
\* wanted, under the section of its tag; cached tables cost the sections and the
\* types of a run for tagged types only.
THEOREM DefinitionsHaveTraits == Spec => []EveryDefinitionHasTrait
  <1>1. ASSUME IInv, phase = "end", NEW f \in DOMAIN whole, NEW t \in ToSet(whole[f]),
               t.kind \in opts.flags, IsEmitted(t), IsExposed(f, t),
               ~(ForTaggedOnly(f) /\ IsSkipped(whole[f], t)),
               ~(IsCached(f) /\ opts.taggedOnly)
        PROVE  \E i \in DOMAIN traits :
                  /\ traits[i].name = t.name /\ traits[i].header = f
                  /\ traits[i].section = IF IsCached(f) THEN "ALL" ELSE Section(t)
    <2> DEFINE held == Held(f, t)
               e == [type |-> held, header |-> f]
    <2>0. InputIsFixed
      BY <1>1 DEF IInv
    <2>1. IsKept(f, t)
      BY <1>1 DEF IsKept
    <2>2. PICK k \in 1..Len(tables[f]) : tables[f][k] = held
      BY <2>0, <2>1, TableFacts
    <2>3. f \in 1..Len(tables) /\ Len(tables) \in Nat /\ held \in Types
      BY <2>0, <2>2, TablesAreTyped
    <2>4. t \in Declarations
      BY <2>0, HeaderFacts
    <2>5. /\ held.name = t.name /\ held.kind = t.kind /\ held.id = t.id
          /\ held.forward = t.forward /\ held.template = t.template
          /\ IsCached(f) => /\ held.parent = <<>> /\ held.hidden = FALSE
                            /\ held.section = NoSection
          /\ ~IsCached(f) => held = t
      BY <2>4, HeldIsTyped
    <2>6. ~held.hidden /\ ~held.template
      BY <1>1, <2>5 DEF IsExposed
    <2>7. IsEmitted(held)
      <3>1. CASE IsCached(f)
        BY <1>1, <2>5, <3>1 DEF IsEmitted
      <3>2. CASE ~IsCached(f)
        BY <1>1, <2>5, <3>2
      <3>3. QED
        BY <3>1, <3>2
    <2>8. HasParent(held) => ~ParentIn(f, held).hidden /\ ~ParentIn(f, held).template
      <3> SUFFICES ASSUME HasParent(held)
                   PROVE  ~ParentIn(f, held).hidden /\ ~ParentIn(f, held).template
        OBVIOUS
      <3>1. ~IsCached(f) /\ held = t
        BY <2>5 DEF HasParent
      <3>2. PICK u \in Around(whole[f], t) : u.name = t.parent
        BY <2>0, <3>1, HeaderFacts DEF IsOfHeader, HasParent
      <3>3. ParentIn(f, t) = u
        BY <2>0, <2>1, <3>1, <3>2, ParentIsFound
      <3>4. ~u.hidden /\ ~u.template
        BY <1>1, <3>2 DEF IsExposed
      <3>5. QED
        BY <3>1, <3>3, <3>4
    <2>9. Section(held) = IF IsCached(f) THEN "ALL" ELSE Section(t)
      BY <2>5 DEF Section
    <2> HIDE DEF held
    <2>10. e \in Extracted /\ e.type = held /\ e.header = f
      BY <2>3 DEF Extracted
    <2>11. HasMetEnum(f, k) /\ HasMetClass(f, k)
      <3>1. file = Len(tables)
        BY <1>1 DEF IInv, Counts, Visits
      <3>2. f < file \/ f = file
        BY <2>3, <3>1
      <3>3. QED
        BY <1>1, <3>2 DEF HasMetEnum, HasMetClass
    <2>12. e \in Written
      <3>1. CASE held.kind = "enum"
        <4>1. WantedEnum(f, held)
          BY <1>1, <2>5, <2>6, <2>8, <3>1 DEF WantedEnum
        <4>2. e \in MetEnums
          BY <2>2, <2>10, <2>11, <4>1 DEF MetEnums
        <4>3. \E m \in 1..Len(enums) : enums[m] = e
          BY <1>1, <4>2 DEF IInv, Lists
        <4>4. EnumsWritten = Len(enums)
          BY <1>1 DEF EnumsWritten
        <4>5. QED
          BY <2>7, <2>10, <4>3, <4>4 DEF Written
      <3>2. CASE held.kind # "enum"
        <4>1. WantedClass(f, held)
          BY <1>1, <2>5, <2>6, <2>8, <3>2 DEF WantedClass
        <4>2. e \in MetClasses
          BY <2>2, <2>10, <2>11, <4>1 DEF MetClasses
        <4>3. \E m \in 1..Len(classes) : classes[m] = e
          BY <1>1, <4>2 DEF IInv, Lists
        <4>4. ClassesWritten = Len(classes)
          BY <1>1 DEF ClassesWritten
        <4>5. QED
          BY <2>7, <2>10, <4>3, <4>4 DEF Written
      <3>3. QED
        BY <3>1, <3>2
    <2> HIDE DEF e
    <2>13. PICK i \in 1..Len(traits) : traits[i] = TraitOf(e)
      BY <1>1, <2>12 DEF IInv, TraitsAreWritten
    <2>14. i \in DOMAIN traits
      BY <1>1, LenProperties DEF IInv, TraitsAreWritten
    <2>15. QED
      BY <2>5, <2>9, <2>10, <2>13, <2>14 DEF TraitOf
  <1>2. IInv => EveryDefinitionHasTrait
    <2> SUFFICES ASSUME IInv PROVE EveryDefinitionHasTrait
      OBVIOUS
    <2>1. QED
      BY <1>1 DEF EveryDefinitionHasTrait
  <1>3. QED
    BY <1>2, Invariance, PTL

\* Below the definition of a section the header of a trait is included with it, if
\* the types that come from this header and through one extractor are of one section.
THEOREM TraitsHaveTheirHeader == Spec => []TraitsSeeTheirHeader
  <1>1. ASSUME IInv, phase = "end", NEW i \in DOMAIN traits
        PROVE  LET f == traits[i].header IN
               (\A t, u \in Included(ListOf(traits[i]), f) : Section(t) = Section(u))
                   => <<traits[i].section, f>> \in inclusions
    <2> DEFINE list == ListOf(traits[i])
    <2>1. PICK e \in MetEnums \cup MetClasses :
             traits[i] = TraitOf(e) /\ IsEmitted(e.type)
      BY <1>1, TraitsHaveTypes
    <2> DEFINE f == e.header
    <2>2. /\ traits[i].header = f /\ traits[i].section = Section(e.type)
          /\ traits[i].kind = e.type.kind
      BY <2>1 DEF TraitOf
    <2>3. /\ AreIncluded(list, Len(list)) /\ DOMAIN list = 1..Len(list)
          /\ \E k \in 1..Len(list) : list[k] = e
      <3>1. /\ AreIncluded(enums, Len(enums)) /\ AreIncluded(classes, Len(classes))
            /\ enums \in Seq(MetEnums) /\ classes \in Seq(MetClasses)
        BY <1>1 DEF IInv, InclusionsAreWritten, Lists
      <3>2. DOMAIN enums = 1..Len(enums) /\ DOMAIN classes = 1..Len(classes)
        BY <3>1, LenProperties
      <3>3. CASE e.type.kind = "enum"
        <4>1. list = enums /\ e \in MetEnums
          BY <1>1, <2>1, <2>2, <3>3, EntryFacts DEF ListOf, IInv
        <4>2. QED
          BY <1>1, <3>1, <3>2, <4>1 DEF IInv, Lists
      <3>4. CASE e.type.kind # "enum"
        <4>1. list = classes /\ e \in MetClasses
          BY <1>1, <2>1, <2>2, <3>4, EntryFacts DEF ListOf, IInv
        <4>2. QED
          BY <1>1, <3>1, <3>2, <4>1 DEF IInv, Lists
      <3>5. QED
        BY <3>3, <3>4
    <2> HIDE DEF list
    <2>4. PICK k \in 1..Len(list) : list[k] = e
      BY <2>3
    <2>5. Wants(e.type)
      BY <2>1 DEF IsEmitted, Wants
    <2>6. PICK m \in 1..Len(list) :
             /\ Wants(list[m].type) /\ list[m].header = f
             /\ <<Section(list[m].type), list[m].header>> \in inclusions
      BY <2>3, <2>4, <2>5 DEF AreIncluded
    <2>7. e.type \in Included(list, f) /\ list[m].type \in Included(list, f)
      BY <2>3, <2>4, <2>5, <2>6 DEF Included, Wants
    <2>8. (\A t, u \in Included(list, f) : Section(t) = Section(u))
             => <<Section(e.type), f>> \in inclusions
      BY <2>6, <2>7
    <2>9. QED
      BY <2>2, <2>8 DEF list
  <1>2. IInv => TraitsSeeTheirHeader
    <2> SUFFICES ASSUME IInv PROVE TraitsSeeTheirHeader
      OBVIOUS
    <2>1. QED
      BY <1>1 DEF TraitsSeeTheirHeader
  <1>3. QED
    BY <1>2, Invariance, PTL
=============================================================================
