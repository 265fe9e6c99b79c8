--------------------------- MODULE SymTableProofs ---------------------------
(***************************************************************************)
(* Proofs about SymTable: for any names, depths and numbers of scopes, and  *)
(* whatever calls a client makes, the tree of scopes is well formed and a   *)
(* disciplined client is where it means to be.                              *)
(***************************************************************************)
EXTENDS SymTable, InductionLemmas

Keys == Names \cup Nat

\* Scopes are paths of names and positions, and there are finitely many.
ScopesArePaths == scopes \subseteq Seq(Keys) /\ IsFiniteSet(scopes)

\* The anonymous scopes in a scope have the positions from 0 without a gap, so
\* that their number is the position of the next one.
PositionsAreDense ==
    \A s \in scopes :
        /\ Cardinality(Nested(s)) \in 0..MaxNested
        /\ \A k \in Nat : Append(s, k) \in scopes <=> k < Cardinality(Nested(s))

\* The anonymous scopes the client entered on its way have such positions.
EnteredArePositions ==
    \A n \in 1..Len(where) : entered[n + 1] /\ where[n] \notin Names =>
                                where[n] \in 0..MaxNested

\* mIndex is the position of an anonymous scope and -1 for the others.
IndexIsPosition ==
    \A s \in scopes \ {Global} : index[s] = IF Key(s) \in Names THEN -1 ELSE Key(s)

\* A disciplined client has built all scopes around it or entered all of them,
\* which mIsReadOnlyMode knows; while it builds, mLastVisitedScopeIndex keeps
\* the place it has in the global scope.
WalkIsFollowed ==
    ~mixed /\ ~strayed =>
        /\ curr = where
        /\ \A n \in 2..Len(entered) : entered[n] = reading
        /\ last = IF Walking THEN visited[Len(visited)] ELSE visited[1]

\* While it walks in a named scope to come back from, the slot has the place in the
\* anonymous scope around that, and no other named scope needs it.
SlotIsHeld ==
    ~mixed /\ ~strayed /\ reading =>
        /\ \A n \in Waiting : prev = visited[n]
        /\ \A n, m \in Waiting : n = m

IInv == /\ TypeOK
        /\ ScopesArePaths
        /\ PositionsAreDense
        /\ IndexIsPosition
        /\ EnteredArePositions
        /\ WalkIsFollowed
        /\ SlotIsHeld

-----------------------------------------------------------------------------
(* Paths *)

LEMMA AppendedPath ==
    ASSUME NEW s \in Seq(Keys), NEW k \in Keys
    PROVE  /\ Append(s, k) \in Seq(Keys) /\ Append(s, k) # Global
           /\ Parent(Append(s, k)) = s /\ Key(Append(s, k)) = k
           /\ Len(Append(s, k)) = Len(s) + 1
           /\ \A n \in 1..Len(s) : Append(s, k)[n] = s[n]
  <1>1. /\ Append(s, k) \in Seq(Keys) /\ Append(s, k) # <<>>
        /\ Len(Append(s, k)) = Len(s) + 1 /\ Append(s, k)[Len(s) + 1] = k
        /\ \A n \in 1..Len(s) : Append(s, k)[n] = s[n]
    BY AppendProperties
  <1>2. Len(s) \in Nat
    BY LenProperties
  <1>3. /\ Parent(Append(s, k)) \in Seq(Keys)
        /\ Len(Parent(Append(s, k))) = Len(s)
        /\ \A n \in 1..Len(s) : Parent(Append(s, k))[n] = Append(s, k)[n]
    <2>1. \A n \in 1..Len(s) : Append(s, k)[n] \in Keys
      BY <1>1, ElementOfSeq
    <2>2. Parent(Append(s, k)) = SubSeq(Append(s, k), 1, Len(s))
      BY <1>1, <1>2 DEF Parent
    <2>3. QED
      BY <1>2, <2>1, <2>2, SubSeqProperties
  <1>4. Parent(Append(s, k)) = s
    BY <1>1, <1>2, <1>3, SeqEqual
  <1>5. QED
    BY <1>1, <1>4 DEF Global, Key

LEMMA PathIsAppended ==
    ASSUME NEW s \in Seq(Keys), s # Global
    PROVE  /\ Parent(s) \in Seq(Keys) /\ Key(s) \in Keys
           /\ Len(s) \in Nat \ {0} /\ Len(Parent(s)) = Len(s) - 1
           /\ s = Append(Parent(s), Key(s))
  <1>1. PICK r \in Seq(Keys), k \in Keys : s = Append(r, k)
    BY SequenceEmptyOrAppend DEF Global
  <1>2. Len(r) \in Nat
    BY LenProperties
  <1>3. QED
    BY <1>1, <1>2, AppendedPath

LEMMA NestedIsFinite ==
    ASSUME ScopesArePaths, NEW s
    PROVE  IsFiniteSet(Nested(s)) /\ Cardinality(Nested(s)) \in Nat
  <1>1. Nested(s) \in SUBSET scopes
    BY DEF Nested
  <1>2. QED
    BY <1>1, FS_Subset, FS_CardinalityType DEF ScopesArePaths

-----------------------------------------------------------------------------
(* The tree *)

TreeOK == /\ Global \in scopes
          /\ \A s \in scopes \ {Global} : Parent(s) \in scopes /\ Key(s) \in Names \cup Nat
          /\ index \in [scopes -> -1..MaxNested]
          /\ symbols \in [scopes -> SUBSET Symbols]

Tree == TreeOK /\ ScopesArePaths /\ PositionsAreDense /\ IndexIsPosition

LEMMA SameTree ==
    ASSUME Tree, UNCHANGED <<scopes, index>>, symbols' \in [scopes -> SUBSET Symbols]
    PROVE  Tree'
  <1>1. TreeOK' /\ ScopesArePaths'
    BY DEF Tree, TreeOK, ScopesArePaths
  <1>2. \A s : Nested(s)' = Nested(s)
    BY DEF Nested
  <1>3. PositionsAreDense'
    BY <1>2 DEF Tree, PositionsAreDense
  <1>4. IndexIsPosition'
    BY DEF Tree, IndexIsPosition
  <1>5. QED
    BY <1>1, <1>3, <1>4 DEF Tree

\* Every scope that is created lies in the current one, at the position after the
\* anonymous scopes there or under a name of its own.
LEMMA NewScopeInTree ==
    ASSUME Tree, NEW key \in Keys, NEW at, curr \in scopes,
           NewScope(Append(curr, key), at), Append(curr, key) \notin scopes,
           \/ key \in Names /\ at = -1
           \/ key = at /\ at = Cardinality(Nested(curr)) /\ at < MaxNested
    PROVE  Tree' /\ curr' \in scopes'
  <1> DEFINE new == Append(curr, key)
  <1>0. /\ scopes \subseteq Seq(Keys) /\ curr \in Seq(Keys) /\ MaxNested \in Nat
        /\ Names \cap Int = {} /\ Nat \subseteq Int
    BY SymTableAssumption DEF Tree, ScopesArePaths
  <1>1. new \in Seq(Keys) /\ new # Global /\ Parent(new) = curr /\ Key(new) = key
    BY <1>0, AppendedPath
  <1>2. scopes' = scopes \cup {new} /\ curr' = new
    BY DEF NewScope
  <1>3. at \in -1..MaxNested /\ at = IF key \in Names THEN -1 ELSE key
    <2>1. CASE key \in Names /\ at = -1
      BY <1>0, <2>1
    <2>2. CASE key = at /\ at = Cardinality(Nested(curr)) /\ at < MaxNested
      <3>1. at \in Nat
        BY <2>2, NestedIsFinite DEF Tree
      <3>2. QED
        BY <1>0, <2>2, <3>1
    <2>3. QED
      BY <2>1, <2>2
  <1>4. /\ index' = [t \in scopes \cup {new} |-> IF t = new THEN at ELSE index[t]]
        /\ symbols' = [t \in scopes \cup {new} |-> IF t = new THEN {} ELSE symbols[t]]
    BY DEF NewScope, Extended, Tree, TreeOK
  <1>5. TreeOK'
    <2>1. index' \in [scopes' -> -1..MaxNested]
      BY <1>2, <1>3, <1>4 DEF Tree, TreeOK
    <2>2. symbols' \in [scopes' -> SUBSET Symbols]
      BY <1>2, <1>4 DEF Tree, TreeOK
    <2>3. \A s \in scopes' \ {Global} : Parent(s) \in scopes' /\ Key(s) \in Names \cup Nat
      BY <1>1, <1>2 DEF Tree, TreeOK, Keys
    <2>4. QED
      BY <1>2, <2>1, <2>2, <2>3 DEF Tree, TreeOK
  <1>6. ScopesArePaths'
    BY <1>0, <1>1, <1>2, FS_AddElement DEF Tree, ScopesArePaths
  <1>7. IndexIsPosition'
    BY <1>1, <1>2, <1>3, <1>4 DEF Tree, IndexIsPosition
  <1>8. PositionsAreDense'
    <2>0. \A s \in scopes : IsFiniteSet(Nested(s)) /\ Cardinality(Nested(s)) \in Nat
      BY NestedIsFinite DEF Tree
    <2>1. \A s : Nested(s)' = IF s = curr /\ key \notin Names THEN Nested(s) \cup {new}
                              ELSE Nested(s)
      BY <1>1, <1>2 DEF Nested
    <2>2. new \notin Nested(curr)
      BY DEF Nested
    <2>3. Nested(new) = {}
      <3>1. \A c \in scopes \ {Global} : Parent(c) # new
        BY DEF Tree, TreeOK
      <3>2. QED
        BY <3>1 DEF Nested
    <2>4. \A k \in Nat : Append(new, k) \notin scopes /\ Append(new, k) # new
      <3>1. \A k \in Nat : Parent(Append(new, k)) = new /\ Append(new, k) # Global
                           /\ Len(Append(new, k)) = Len(new) + 1
        BY <1>1, AppendedPath DEF Keys
      <3>2. Len(new) \in Nat
        BY <1>1, LenProperties
      <3>3. \A c \in scopes : c # Global => Parent(c) # new
        BY DEF Tree, TreeOK
      <3>4. \A k \in Nat : Append(new, k) # new
        <4> HIDE DEF new
        <4> QED
          BY <3>1, <3>2
      <3>5. QED
        BY <3>1, <3>3, <3>4
    <2>5. \A s \in scopes, k \in Nat : Append(s, k) = new <=> s = curr /\ k = key
      BY <1>0, <1>1, AppendedPath DEF Keys
    <2> SUFFICES ASSUME NEW s \in scopes'
                 PROVE  /\ Cardinality(Nested(s)') \in 0..MaxNested
                        /\ \A k \in Nat : Append(s, k) \in scopes'
                                             <=> k < Cardinality(Nested(s)')
      BY DEF PositionsAreDense
    <2>6. CASE s = new
      <3>1. Nested(s)' = {}
        BY <2>1, <2>3, <2>6
      <3>2. QED
        BY <1>0, <1>2, <2>4, <2>6, <3>1, FS_EmptySet
    <2>7. CASE s \in scopes /\ ~(s = curr /\ key \notin Names)
      <3>1. Nested(s)' = Nested(s)
        BY <2>1, <2>7
      <3>2. \A k \in Nat : Append(s, k) # new
        BY <1>0, <2>5, <2>7
      <3>3. QED
        BY <1>2, <2>7, <3>1, <3>2 DEF Tree, PositionsAreDense
    <2>8. CASE s = curr /\ key \notin Names
      <3>1. key = Cardinality(Nested(curr)) /\ key < MaxNested /\ key \in Nat
        BY <2>0, <2>8
      <3>2. Cardinality(Nested(s)') = Cardinality(Nested(s)) + 1
        BY <2>0, <2>1, <2>2, <2>8, FS_AddElement
      <3>3. \A k \in Nat : Append(s, k) \in scopes' <=> k < key \/ k = key
        BY <1>2, <2>5, <2>8, <3>1 DEF Tree, PositionsAreDense
      <3>4. QED
        BY <1>0, <2>8, <3>1, <3>2, <3>3
    <2>9. QED
      BY <1>2, <2>6, <2>7, <2>8
  <1>9. QED
    BY <1>2, <1>5, <1>6, <1>7, <1>8 DEF Tree

-----------------------------------------------------------------------------
(* The client and its walk *)

LEMMA InitEstablishes == Init => IInv
  <1> SUFFICES ASSUME Init PROVE IInv
    OBVIOUS
  <1>0. MaxNested \in Nat /\ MaxCalls \in Nat /\ Names \cap Int = {}
    BY SymTableAssumption
  <1>1. TypeOK
    <2>1. where \in Seq(Names \cup Nat) /\ entered \in Seq(BOOLEAN) /\ visited \in Seq(-1..MaxNested)
          /\ Len(where) = 0 /\ Len(entered) = 1 /\ Len(visited) = 1
      BY <1>0 DEF Init, Global
    <2>2. last \in (-1..MaxNested) \cup Uninitialised /\ prev \in (-1..MaxNested) \cup Uninitialised
      BY <1>0 DEF Init
    <2>3. index \in [scopes -> -1..MaxNested] /\ symbols \in [scopes -> SUBSET Symbols]
      BY <1>0 DEF Init
    <2>4. scopes = {Global} /\ curr = Global /\ reading = FALSE /\ mixed = FALSE
          /\ strayed = FALSE /\ calls \in 0..MaxCalls
      BY <1>0 DEF Init
    <2>5. Len(entered) = Len(where) + 1 /\ Len(visited) = Len(where) + 1
      BY <2>1
    <2>6. Global \in scopes /\ curr \in scopes /\ scopes \ {Global} = {}
      BY <2>4
    <2>7. reading \in BOOLEAN /\ mixed \in BOOLEAN /\ strayed \in BOOLEAN
      BY <2>4
    <2>8. QED
      BY <2>1, <2>2, <2>3, <2>4, <2>5, <2>6, <2>7 DEF TypeOK
  <1>2. scopes = {Global} /\ Global \in Seq(Keys)
    BY DEF Init, Global
  <1>3. ScopesArePaths
    BY <1>2, FS_Singleton DEF ScopesArePaths
  <1>4. \A k \in Nat : Append(Global, k) # Global
    BY <1>2, AppendedPath DEF Keys
  <1>5. Nested(Global) = {}
    BY <1>2 DEF Nested
  <1>6. PositionsAreDense
    <2>1. Cardinality(Nested(Global)) = 0
      BY <1>5, FS_EmptySet
    <2>2. QED
      BY <1>0, <1>2, <1>4, <2>1 DEF PositionsAreDense
  <1>7. IndexIsPosition /\ EnteredArePositions
    BY <1>2 DEF IndexIsPosition, EnteredArePositions, Init, Global
  <1>8. WalkIsFollowed /\ SlotIsHeld
    BY DEF WalkIsFollowed, SlotIsHeld, Init
  <1>9. QED
    BY <1>1, <1>3, <1>6, <1>7, <1>8 DEF IInv

\* A position is less than the mark, which is the largest int.
LEMMA SameAfterReload ==
    ASSUME NEW i \in -1..MaxNested
    PROVE  Loaded(Saved(i)) = i
  BY SymTableAssumption DEF Loaded, Saved

\* What every step keeps of the tree, of the place in it and of the count of calls.
LEMMA TreeStep ==
    ASSUME IInv, [Next]_vars
    PROVE  /\ Tree' /\ curr' \in scopes'
           /\ calls' \in 0..MaxCalls
  <1>0. /\ Tree /\ curr \in scopes /\ scopes \subseteq Seq(Keys)
        /\ calls \in 0..MaxCalls /\ MaxCalls \in Nat /\ Names \cap Int = {}
        /\ symbols \in [scopes -> SUBSET Symbols] /\ index \in [scopes -> -1..MaxNested]
    BY SymTableAssumption DEF IInv, Tree, TreeOK, TypeOK, ScopesArePaths
  <1>1. CASE UNCHANGED <<tree, curr, calls>>
    BY <1>0, <1>1, SameTree DEF tree
  <1>2. ASSUME Call PROVE calls' \in 0..MaxCalls
    BY <1>0, <1>2 DEF Call
  <1>3. CASE CreateAnonymousScope
    <2> DEFINE at == Cardinality(Nested(curr))
    <2>1. at \in Nat /\ NewScope(Append(curr, at), at) /\ at < MaxNested
      BY <1>0, <1>3, NestedIsFinite DEF CreateAnonymousScope, Tree
    <2>2. Append(curr, at) \notin scopes
      BY <1>0, <2>1 DEF Tree, PositionsAreDense
    <2>3. Tree' /\ curr' \in scopes'
      BY <1>0, <2>1, <2>2, NewScopeInTree DEF Keys
    <2>4. QED
      BY <1>2, <1>3, <2>3 DEF CreateAnonymousScope
  <1>4. ASSUME NEW name \in Names, CreateNamedScope(name)
        PROVE  Tree' /\ curr' \in scopes' /\ calls' \in 0..MaxCalls
    <2>1. CASE Append(curr, name) \in scopes
      BY <1>0, <1>2, <1>4, <2>1, SameTree DEF CreateNamedScope, tree
    <2>2. CASE Append(curr, name) \notin scopes
      <3>1. NewScope(Append(curr, name), -1)
        BY <1>4, <2>2 DEF CreateNamedScope
      <3>2. Tree' /\ curr' \in scopes'
        BY <1>0, <2>2, <3>1, NewScopeInTree DEF Keys
      <3>3. QED
        BY <1>2, <1>4, <3>2 DEF CreateNamedScope
    <2>3. QED
      BY <2>1, <2>2
  <1>5. CASE EnterAnonymousScope
    <2>1. UNCHANGED tree /\ curr' \in scopes
      BY <1>5 DEF EnterAnonymousScope, Neighbours
    <2>2. QED
      BY <1>0, <1>2, <1>5, <2>1, SameTree DEF tree, EnterAnonymousScope
  <1>6. ASSUME NEW name \in Names, EnterNamedScope(name)
        PROVE  Tree' /\ curr' \in scopes' /\ calls' \in 0..MaxCalls
    <2>1. UNCHANGED tree /\ curr' \in scopes
      BY <1>0, <1>6 DEF EnterNamedScope
    <2>2. QED
      BY <1>0, <1>2, <1>6, <2>1, SameTree DEF tree, EnterNamedScope
  <1>7. CASE ExitScope
    <2>1. UNCHANGED tree /\ curr' \in scopes
      BY <1>0, <1>7 DEF ExitScope, Tree, TreeOK
    <2>2. QED
      BY <1>0, <1>2, <1>7, <2>1, SameTree DEF tree, ExitScope
  <1>8. ASSUME NEW id \in Symbols, AddSymbol(id)
        PROVE  Tree' /\ curr' \in scopes' /\ calls' \in 0..MaxCalls
    <2>1. UNCHANGED <<scopes, index, curr>> /\ symbols' = [symbols EXCEPT ![curr] = @ \cup {id}]
      BY <1>8 DEF AddSymbol, cursor
    <2>2. symbols' \in [scopes -> SUBSET Symbols]
      BY <1>0, <2>1
    <2>3. QED
      BY <1>0, <1>2, <1>8, <2>1, <2>2, SameTree DEF AddSymbol
  <1>9. CASE SaveAndLoad
    <2>1. UNCHANGED <<scopes, symbols>> /\ index' = index
      BY <1>0, <1>9, SameAfterReload DEF SaveAndLoad
    <2>2. curr' \in scopes'
      BY <1>9 DEF SaveAndLoad, IInv, TypeOK
    <2>3. QED
      BY <1>0, <1>2, <1>9, <2>1, <2>2, SameTree DEF SaveAndLoad
  <1>10. QED
    BY <1>1, <1>3, <1>4, <1>5, <1>6, <1>7, <1>8, <1>9 DEF Next, vars, cursor

\* What the client counts, apart from the place it means to be in.
ClientOK == /\ where \in Seq(Keys)
            /\ entered \in Seq(BOOLEAN) /\ Len(entered) = Len(where) + 1
            /\ visited \in Seq(-1..MaxNested) /\ Len(visited) = Len(where) + 1
            /\ EnteredArePositions

LEMMA ClientGoesDown ==
    ASSUME ClientOK, NEW key \in Keys, NEW enters \in BOOLEAN, GoesTo(key, enters),
           enters /\ key \notin Names => key \in 0..MaxNested
    PROVE  /\ ClientOK'
           /\ where' = Append(where, key)
           /\ Len(where) \in Nat /\ Len(where') = Len(where) + 1 /\ where'[Len(where')] = key
           /\ \A n \in 1..Len(where) : where'[n] = where[n]
           /\ \A n \in 1..Len(visited) : visited'[n] = visited[n]
           /\ Len(entered') = Len(entered) + 1 /\ entered'[Len(entered')] = enters
           /\ \A n \in 1..Len(entered) : entered'[n] = entered[n]
           /\ visited'[Len(visited')] = -1 /\ visited'[1] = visited[1]
  <1>0. Len(where) \in Nat /\ Len(entered) \in Nat /\ Len(visited) \in Nat /\ -1 \in -1..MaxNested
    BY SymTableAssumption, LenProperties DEF ClientOK
  <1>1. /\ where' \in Seq(Keys) /\ Len(where') = Len(where) + 1
        /\ \A n \in 1..Len(where) : where'[n] = where[n]
        /\ where'[Len(where) + 1] = key
    BY AppendProperties DEF ClientOK, GoesTo
  <1>2. /\ entered' \in Seq(BOOLEAN) /\ Len(entered') = Len(entered) + 1
        /\ \A n \in 1..Len(entered) : entered'[n] = entered[n]
        /\ entered'[Len(entered) + 1] = enters
    BY AppendProperties DEF ClientOK, GoesTo
  <1>3. /\ visited' \in Seq(-1..MaxNested) /\ Len(visited') = Len(visited) + 1
        /\ \A n \in 1..Len(visited) : visited'[n] = visited[n]
        /\ visited'[Len(visited) + 1] = -1
    BY <1>0, AppendProperties DEF ClientOK, GoesTo
  <1>4. EnteredArePositions'
    <2> SUFFICES ASSUME NEW n \in 1..Len(where'), entered'[n + 1], where'[n] \notin Names
                 PROVE  where'[n] \in 0..MaxNested
      BY DEF EnteredArePositions
    <2>1. CASE n = Len(where) + 1
      BY <1>0, <1>1, <1>2, <2>1 DEF ClientOK
    <2>2. CASE n # Len(where) + 1
      <3>1. n \in 1..Len(where) /\ n + 1 \in 1..Len(entered)
        BY <1>0, <1>1, <2>2 DEF ClientOK
      <3>2. QED
        BY <1>1, <1>2, <3>1 DEF ClientOK, EnteredArePositions
    <2>3. QED
      BY <2>1, <2>2
  <1>5. QED
    BY <1>0, <1>1, <1>2, <1>3, <1>4 DEF ClientOK, GoesTo

LEMMA ClientComesBack ==
    ASSUME ClientOK, where # Global, ComesBack
    PROVE  /\ ClientOK'
           /\ Len(entered) \in Nat /\ Len(entered) >= 2
           /\ Len(where) \in Nat /\ Len(where') = Len(where) - 1
           /\ \A n \in 1..Len(where') : where'[n] = where[n]
           /\ Len(entered') = Len(entered) - 1
           /\ \A n \in 1..Len(entered') : entered'[n] = entered[n]
           /\ IF entered[Len(entered)] /\ Key(where) \notin Names
              THEN /\ visited'[Len(visited')] = Key(where)
                   /\ \A n \in 1..(Len(visited') - 1) : visited'[n] = visited[n]
              ELSE \A n \in 1..Len(visited') : visited'[n] = visited[n]
  <1>0. Len(where) \in Nat \ {0} /\ Len(entered) \in Nat /\ Len(visited) \in Nat
    BY PathIsAppended, LenProperties DEF ClientOK
  <1>1. /\ where' \in Seq(Keys) /\ Len(where') = Len(where) - 1
        /\ \A n \in 1..Len(where') : where'[n] = where[n]
    <2>1. /\ Parent(where) \in Seq(Keys) /\ Len(Parent(where)) = Len(where) - 1
          /\ Key(where) \in Keys /\ where = Append(Parent(where), Key(where))
      BY PathIsAppended DEF ClientOK
    <2>2. \A n \in 1..Len(Parent(where)) : where[n] = Parent(where)[n]
      BY <2>1, AppendedPath
    <2>3. QED
      BY <2>1, <2>2 DEF ComesBack
  <1>2. /\ entered' \in Seq(BOOLEAN) /\ Len(entered') = Len(entered) - 1
        /\ \A n \in 1..Len(entered') : entered'[n] = entered[n]
    <2>1. \A n \in 1..(Len(entered) - 1) : entered[n] \in BOOLEAN
      BY <1>0, ElementOfSeq DEF ClientOK
    <2>2. QED
      BY <1>0, <2>1, SubSeqProperties DEF ClientOK, ComesBack
  <1> DEFINE above == SubSeq(visited, 1, Len(visited) - 1)
  <1>3. /\ above \in Seq(-1..MaxNested) /\ Len(above) = Len(visited) - 1
        /\ \A n \in 1..Len(above) : above[n] = visited[n]
    <2> DEFINE Places == -1..MaxNested
    <2>1. visited \in Seq(Places)
      BY DEF ClientOK
    <2> SUFFICES /\ above \in Seq(Places) /\ Len(above) = Len(visited) - 1
                 /\ \A n \in 1..Len(above) : above[n] = visited[n]
      OBVIOUS
    <2> HIDE DEF Places
    <2>2. \A n \in 1..(Len(visited) - 1) : visited[n] \in Places
      BY <1>0, <2>1, ElementOfSeq
    <2>3. QED
      BY <1>0, <2>2, SubSeqProperties DEF ClientOK
  <1>4. EnteredArePositions'
    <2> SUFFICES ASSUME NEW n \in 1..Len(where'), entered'[n + 1], where'[n] \notin Names
                 PROVE  where'[n] \in 0..MaxNested
      BY DEF EnteredArePositions
    <2>1. n \in 1..Len(where) /\ n + 1 \in 1..Len(entered')
      BY <1>0, <1>1, <1>2 DEF ClientOK
    <2>2. QED
      BY <1>1, <1>2, <2>1 DEF ClientOK, EnteredArePositions
  <1> HIDE DEF above
  <1>5. CASE entered[Len(entered)] /\ Key(where) \notin Names
    <2>1. visited' = [above EXCEPT ![Len(above)] = Key(where)]
      BY <1>5 DEF ComesBack, above
    <2>2. Key(where) \in 0..MaxNested
      BY <1>0, <1>5 DEF ClientOK, EnteredArePositions, Key
    <2>3. Key(where) \in -1..MaxNested /\ Len(above) \in 1..Len(above)
      BY <1>0, <1>3, <2>2 DEF ClientOK
    <2>4. /\ visited' \in Seq(-1..MaxNested) /\ Len(visited') = Len(above)
          /\ \A n \in 1..Len(above) : visited'[n] = IF n = Len(above) THEN Key(where)
                                                    ELSE above[n]
      BY <1>3, <2>1, <2>3, ExceptSeq
    <2>5. QED
      BY <1>0, <1>1, <1>2, <1>3, <1>4, <1>5, <2>3, <2>4 DEF ClientOK
  <1>6. CASE ~(entered[Len(entered)] /\ Key(where) \notin Names)
    <2>1. visited' = above
      BY <1>6 DEF ComesBack, above
    <2>2. QED
      BY <1>0, <1>1, <1>2, <1>3, <1>4, <1>6, <2>1 DEF ClientOK
  <1>7. QED
    BY <1>5, <1>6

\* The neighbour a client enters has a position.
LEMMA EnteredPosition ==
    ASSUME IInv, EnterAnonymousScope
    PROVE  LET key == visited[Len(visited)] + 1
           IN  key \notin Names /\ key \in Keys /\ key \in 0..MaxNested
  <1>0. /\ ClientOK /\ IndexIsPosition /\ MaxNested \in Nat /\ Names \cap Int = {}
        /\ index \in [scopes -> -1..MaxNested]
    BY SymTableAssumption DEF IInv, TypeOK, ClientOK, Keys
  <1> DEFINE key == visited[Len(visited)] + 1
  <1>1. key \in 0..(MaxNested + 1)
    <2> DEFINE Places == -1..MaxNested
    <2>1. visited \in Seq(Places) /\ Len(visited) \in 1..Len(visited)
      BY <1>0, LenProperties DEF ClientOK
    <2>2. visited[Len(visited)] \in Places
      <3> HIDE DEF Places
      <3> QED
        BY <2>1, ElementOfSeq
    <2>3. QED
      BY <1>0, <2>2
  <1>2. key \in Keys /\ key \notin Names
    BY <1>0, <1>1 DEF Keys
  <1>3. Append(where, key) \in scopes
    BY DEF EnterAnonymousScope
  <1>4. Append(where, key) # Global /\ Key(Append(where, key)) = key
    BY <1>0, <1>2, AppendedPath DEF ClientOK
  <1>5. key = index[Append(where, key)]
    BY <1>0, <1>2, <1>3, <1>4 DEF IndexIsPosition
  <1>6. key \in 0..MaxNested
    BY <1>0, <1>1, <1>3, <1>5
  <1>7. QED
    BY <1>2, <1>6

LEMMA ClientStep ==
    ASSUME IInv, [Next]_vars
    PROVE  ClientOK'
  <1>0. /\ ClientOK /\ Tree /\ IndexIsPosition /\ scopes \subseteq Seq(Keys)
        /\ MaxNested \in Nat /\ Names \cap Int = {}
        /\ index \in [scopes -> -1..MaxNested]
    BY SymTableAssumption
       DEF IInv, TypeOK, Tree, TreeOK, ClientOK, ScopesArePaths, Keys
  <1>1. CASE UNCHANGED <<where, entered, visited>>
    BY <1>0, <1>1 DEF ClientOK, EnteredArePositions
  <1>2. CASE CreateAnonymousScope
    <2>1. Cardinality(Nested(where)) \in Keys
      BY <1>0, NestedIsFinite DEF Keys, Tree
    <2>2. QED
      BY <1>0, <1>2, <2>1, ClientGoesDown DEF CreateAnonymousScope
  <1>3. ASSUME NEW name \in Names, CreateNamedScope(name) PROVE ClientOK'
    <2>1. CASE Append(curr, name) \notin scopes
      BY <1>0, <1>3, <2>1, ClientGoesDown DEF CreateNamedScope, Keys
    <2>2. QED
      BY <1>1, <1>3, <2>1 DEF CreateNamedScope
  <1>4. CASE EnterAnonymousScope
    <2> DEFINE key == visited[Len(visited)] + 1
    <2>1. key \in Keys /\ key \notin Names /\ key \in 0..MaxNested
      BY <1>4, EnteredPosition
    <2>2. GoesTo(key, TRUE)
      BY <1>4 DEF EnterAnonymousScope
    <2>3. QED
      BY <1>0, <2>1, <2>2, ClientGoesDown
  <1>5. ASSUME NEW name \in Names, EnterNamedScope(name) PROVE ClientOK'
    <2>1. CASE Append(curr, name) \in scopes
      BY <1>0, <1>5, <2>1, ClientGoesDown DEF EnterNamedScope, Keys
    <2>2. QED
      BY <1>1, <1>5, <2>1 DEF EnterNamedScope
  <1>6. CASE ExitScope
    BY <1>0, <1>6, ClientComesBack DEF ExitScope
  <1>7. ASSUME NEW id \in Symbols, AddSymbol(id) PROVE ClientOK'
    BY <1>1, <1>7 DEF AddSymbol, count
  <1>8. CASE SaveAndLoad
    <2>1. /\ where' \in Seq(Keys) /\ entered' \in Seq(BOOLEAN) /\ visited' \in Seq(-1..MaxNested)
          /\ Len(where') = 0 /\ Len(entered') = 1 /\ Len(visited') = 1
      BY <1>0, <1>8 DEF SaveAndLoad, Global
    <2>2. QED
      BY <2>1 DEF ClientOK, EnteredArePositions
  <1>9. QED
    BY <1>1, <1>2, <1>3, <1>4, <1>5, <1>6, <1>7, <1>8 DEF Next, vars, count

LEMMA TypeStep ==
    ASSUME IInv, [Next]_vars
    PROVE  TypeOK'
  <1>0. /\ Tree' /\ curr' \in scopes' /\ calls' \in 0..MaxCalls /\ ClientOK'
    BY TreeStep, ClientStep
  <1> DEFINE Places == (-1..MaxNested) \cup Uninitialised
  <1>1. /\ curr \in scopes /\ index \in [scopes -> -1..MaxNested] /\ MaxNested \in Nat
        /\ last \in Places /\ prev \in Places /\ -1 \in Places
        /\ reading \in BOOLEAN /\ mixed \in BOOLEAN /\ strayed \in BOOLEAN
    BY SymTableAssumption DEF IInv, TypeOK
  <1>2. index[curr] \in Places
    BY <1>1
  <1> HIDE DEF Places
  <1>3. last' \in Places /\ prev' \in Places
    BY <1>1, <1>2 DEF Next, vars, cursor, CreateAnonymousScope, CreateNamedScope,
       EnterAnonymousScope, EnterNamedScope, ExitScope, RestoreCursor, AddSymbol, SaveAndLoad
  <1>4. reading' \in BOOLEAN /\ mixed' \in BOOLEAN /\ strayed' \in BOOLEAN
    BY <1>1 DEF Next, vars, cursor, count, CreateAnonymousScope, CreateNamedScope,
       EnterAnonymousScope, EnterNamedScope, ExitScope, AddSymbol, SaveAndLoad, Mixes,
       GoesTo, ComesBack
  <1>5. QED
    BY <1>0, <1>3, <1>4 DEF TypeOK, Tree, TreeOK, ClientOK, Keys, Places

\* What is known of a disciplined client that enters a scope or comes back from one
\* it entered.
LEMMA WalkingClient ==
    ASSUME IInv, ~mixed, ~strayed
    PROVE  /\ curr = where /\ ClientOK /\ Len(where) \in Nat
           /\ reading \/ \A n \in 2..Len(entered) : ~entered[n]
           /\ where = Global => Waiting = {}
           /\ where # Global =>
                 /\ Len(where) >= 1 /\ Key(where) = where[Len(where)]
                 /\ Key(where) \in Names => index[where] = -1
                 /\ Key(where) \notin Names => index[where] \in Nat
                 /\ Anonymous(Parent(where)) /\ Key(where) \in Names
                        => Len(where) \in Waiting
  <1>1. curr = where /\ ClientOK /\ where \in scopes /\ where \in Seq(Keys)
    BY DEF IInv, WalkIsFollowed, TypeOK, ClientOK, Keys
  <1>2. Len(where) \in Nat /\ Len(Global) = 0
    BY <1>1, LenProperties DEF Global
  <1>3. reading \/ \A n \in 2..Len(entered) : ~entered[n]
    BY DEF IInv, WalkIsFollowed, TypeOK
  <1>4. ASSUME where # Global
        PROVE  /\ Len(where) >= 1 /\ Key(where) = where[Len(where)]
               /\ Key(where) \in Names => index[where] = -1
               /\ Key(where) \notin Names => index[where] \in Nat
               /\ Anonymous(Parent(where)) /\ Key(where) \in Names
                      => Len(where) \in Waiting
    <2>1. /\ Len(where) >= 1 /\ Parent(where) \in Seq(Keys) /\ Len(Parent(where)) = Len(where) - 1
          /\ Key(where) \in Keys /\ where = Append(Parent(where), Key(where))
      BY <1>1, <1>4, PathIsAppended
    <2>2. \A n \in 1..Len(Parent(where)) : where[n] = Parent(where)[n]
      BY <2>1, AppendedPath
    <2>3. Parent(where) # Global <=> Len(where) >= 2
      BY <1>2, <2>1, EmptySeq DEF Global
    <2>4. Len(where) >= 2 => Key(Parent(where)) = where[Len(where) - 1]
      BY <1>2, <2>1, <2>2 DEF Key
    <2>5. Key(where) = where[Len(where)]
      BY DEF Key
    <2>6. Anonymous(Parent(where)) /\ Key(where) \in Names => Len(where) \in Waiting
      BY <1>2, <2>1, <2>3, <2>4, <2>5 DEF Anonymous, Waiting
    <2>7. /\ Key(where) \in Names => index[where] = -1
          /\ Key(where) \notin Names => index[where] \in Nat
      BY <1>1, <1>4, <2>1 DEF IInv, IndexIsPosition, Keys
    <2>8. QED
      BY <2>1, <2>5, <2>6, <2>7
  <1>5. where = Global => Waiting = {}
    BY <1>2 DEF Waiting
  <1>6. QED
    BY <1>1, <1>2, <1>3, <1>4, <1>5

LEMMA SlotStep ==
    ASSUME IInv, [Next]_vars
    PROVE  SlotIsHeld'
  <1> SUFFICES ASSUME ~mixed', ~strayed', reading'
               PROVE  /\ \A n \in Waiting' : prev' = visited'[n]
                      /\ \A n, m \in Waiting' : n = m
    BY DEF SlotIsHeld, Waiting
  <1> DEFINE Held == (\A n \in Waiting : prev = visited[n]) /\ (\A n, m \in Waiting : n = m)
  <1>1. CASE UNCHANGED <<cursor, count>>
    BY <1>1 DEF cursor, count, IInv, SlotIsHeld, Waiting
  <1>2. ASSUME ~mixed, ~strayed, Mixes(TRUE) PROVE Held /\ (reading \/ where = Global)
    <2>1. ~reading => Len(entered) < 2
      <3>1. Len(entered) \in Nat
        BY LenProperties DEF IInv, TypeOK
      <3>2. \A n \in 2..Len(entered) : entered[n] = TRUE
        BY <1>2 DEF Mixes
      <3>3. ~reading => \A n \in 2..Len(entered) : ~entered[n]
        BY <1>2, WalkingClient
      <3>4. QED
        BY <3>1, <3>2, <3>3
    <2>2. reading \/ where = Global
      BY <1>2, <2>1, WalkingClient DEF ClientOK
    <2>3. QED
      BY <1>2, <2>2, WalkingClient DEF IInv, SlotIsHeld
  <1>3. CASE EnterAnonymousScope
    <2> DEFINE key == visited[Len(visited)] + 1
    <2>1. ~mixed /\ ~strayed /\ Mixes(TRUE) /\ prev' = prev /\ GoesTo(key, TRUE)
      BY <1>3 DEF EnterAnonymousScope, Mixes
    <2>2. key \notin Names /\ key \in Keys /\ key \in 0..MaxNested
      BY <1>3, EnteredPosition
    <2>3. /\ Len(where) \in Nat /\ Len(where') = Len(where) + 1 /\ where'[Len(where')] = key
          /\ \A n \in 1..Len(where) : where'[n] = where[n]
          /\ \A n \in 1..Len(visited) : visited'[n] = visited[n]
          /\ Len(visited) = Len(where) + 1
      BY <2>1, <2>2, WalkingClient, ClientGoesDown DEF ClientOK
    <2>4. \A n \in Waiting' : n \in Waiting /\ n \in 1..Len(visited)
      BY <2>2, <2>3 DEF Waiting
    <2>5. QED
      BY <1>2, <2>1, <2>3, <2>4
  <1>4. ASSUME NEW name \in Names, EnterNamedScope(name)
        PROVE  /\ \A n \in Waiting' : prev' = visited'[n]
               /\ \A n, m \in Waiting' : n = m
    <2>1. /\ ~mixed /\ ~strayed /\ Mixes(TRUE) /\ (Anonymous(where) => Waiting = {})
          /\ prev' = IF index[curr] >= 0 THEN last ELSE prev
      BY <1>4 DEF EnterNamedScope, Mixes
    <2>2. Held /\ curr = where /\ ClientOK /\ Len(where) \in Nat
      BY <1>2, <2>1, WalkingClient
    <2>3. last = visited[Len(visited)]
      <3>1. Walking
        BY <2>1 DEF Mixes, Walking
      <3>2. QED
        BY <2>1, <3>1 DEF IInv, WalkIsFollowed
    <2>4. where # Global /\ ~Anonymous(where) => prev' = prev
      BY <2>1, <2>2, WalkingClient DEF Anonymous
    <2>5. where = Global => Waiting = {}
      BY <2>1, WalkingClient
    <2>6. CASE Append(curr, name) \notin scopes
      <3>1. where' = where /\ visited' = visited
        BY <1>4, <2>6 DEF EnterNamedScope
      <3>2. Waiting' = Waiting
        BY <3>1 DEF Waiting
      <3>3. QED
        BY <2>1, <2>2, <2>4, <2>5, <3>1, <3>2
    <2>7. CASE Append(curr, name) \in scopes
      <3>1. GoesTo(name, TRUE) /\ name \in Keys
        BY <1>4, <2>7 DEF EnterNamedScope, Keys
      <3>2. /\ Len(where') = Len(where) + 1 /\ where'[Len(where')] = name
            /\ \A n \in 1..Len(where) : where'[n] = where[n]
            /\ \A n \in 1..Len(visited) : visited'[n] = visited[n]
            /\ Len(visited) = Len(where) + 1
        BY <2>2, <3>1, ClientGoesDown DEF ClientOK
      <3>3. \A n \in Waiting' : n \in Waiting \/ (n = Len(where) + 1 /\ Anonymous(where))
        <4> SUFFICES ASSUME NEW n \in Waiting'
                     PROVE  n \in Waiting \/ (n = Len(where) + 1 /\ Anonymous(where))
          OBVIOUS
        <4>1. n \in 2..(Len(where) + 1) /\ where'[n] \in Names /\ where'[n - 1] \notin Names
          BY <3>2 DEF Waiting
        <4>2. CASE n \in 2..Len(where)
          BY <2>2, <3>2, <4>1, <4>2 DEF Waiting
        <4>3. CASE n = Len(where) + 1
          <5>1. Len(where) >= 1 /\ where[Len(where)] \notin Names
            BY <2>2, <3>2, <4>1, <4>3
          <5>2. where # Global
            BY <5>1, EmptySeq DEF Global
          <5>3. QED
            BY <4>3, <5>1, <5>2 DEF Anonymous, Key
        <4>4. QED
          BY <2>2, <4>1, <4>2, <4>3
      <3>4. \A n \in Waiting : n \in 1..Len(visited)
        BY <2>2, <3>2 DEF Waiting
      <3>5. CASE Anonymous(where)
        <4>1. index[curr] >= 0
          <5>1. index[where] \in Nat
            BY <2>1, <3>5, WalkingClient DEF Anonymous
          <5>2. QED
            BY <2>2, <5>1
        <4>2. prev' = visited[Len(where) + 1]
          BY <2>1, <2>3, <3>2, <4>1
        <4>3. \A n \in Waiting' : n = Len(where) + 1
          BY <2>1, <3>3, <3>5
        <4>4. visited'[Len(where) + 1] = visited[Len(where) + 1]
          BY <2>2, <3>2
        <4>5. QED
          BY <4>2, <4>3, <4>4
      <3>6. CASE ~Anonymous(where)
        <4>1. \A n \in Waiting' : n \in Waiting
          BY <3>3, <3>6
        <4>2. QED
          BY <2>2, <2>4, <2>5, <3>2, <3>4, <3>6, <4>1
      <3>7. QED
        BY <3>5, <3>6
    <2>8. QED
      BY <2>6, <2>7
  <1>5. CASE ExitScope
    <2>1. /\ ~mixed /\ ~strayed /\ reading /\ where # Global /\ RestoreCursor /\ ComesBack
      BY <1>5 DEF ExitScope, ComesBack
    <2>2. Held /\ curr = where /\ ClientOK
      BY <2>1, WalkingClient DEF IInv, SlotIsHeld
    <2>3. /\ Len(where) \in Nat /\ Len(where') = Len(where) - 1
          /\ \A n \in 1..Len(where') : where'[n] = where[n]
          /\ Len(visited') = Len(where)
          /\ \A n \in 1..(Len(visited') - 1) : visited'[n] = visited[n]
          /\ Len(entered) \in Nat /\ Len(entered) >= 2
      <3>1. Len(visited') = Len(where') + 1 /\ Len(where') = Len(where) - 1 /\ Len(where) \in Nat
        BY <2>1, <2>2, ClientComesBack DEF ClientOK
      <3>2. \A n \in 1..(Len(visited') - 1) : visited'[n] = visited[n]
        BY <2>1, <2>2, <3>1, ClientComesBack
      <3>3. QED
        BY <2>1, <2>2, <3>1, <3>2, ClientComesBack
    <2>4. \A n \in Waiting' : n \in Waiting /\ n # Len(where) /\ n \in 1..(Len(visited') - 1)
      BY <2>3 DEF Waiting
    <2>5. CASE Key(where) \notin Names
      <3>1. index[curr] >= 0
        <4>1. index[where] \in Nat
          BY <2>1, <2>5, WalkingClient
        <4>2. QED
          BY <2>2, <4>1
      <3>2. prev' = prev
        BY <2>1, <3>1 DEF RestoreCursor
      <3>3. QED
        BY <2>2, <2>3, <2>4, <3>2
    <2>6. CASE Key(where) \in Names
      <3>1. entered[Len(entered)]
        <4>1. \A n \in 2..Len(entered) : entered[n] = reading
          BY <2>1 DEF IInv, WalkIsFollowed
        <4>2. Len(entered) \in 2..Len(entered)
          BY <2>3
        <4>3. QED
          BY <2>1, <4>1, <4>2, Zenon
      <3>2. Anonymous(Parent(where))
        BY <2>1, <2>6, <3>1 DEF ComesBack
      <3>3. Len(where) \in Waiting
        BY <2>1, <2>6, <3>2, WalkingClient
      <3>4. QED
        BY <2>2, <2>4, <3>3
    <2>7. QED
      BY <2>5, <2>6
  <1>6. ASSUME NEW id \in Symbols, AddSymbol(id) PROVE UNCHANGED <<cursor, count>>
    BY <1>6 DEF AddSymbol
  <1>7. ~CreateAnonymousScope /\ ~SaveAndLoad /\ \A name \in Names : ~CreateNamedScope(name)
    BY DEF CreateAnonymousScope, SaveAndLoad, CreateNamedScope
  <1>8. QED
    BY <1>1, <1>3, <1>4, <1>5, <1>6, <1>7 DEF Next, vars

LEMMA WalkStep ==
    ASSUME IInv, [Next]_vars
    PROVE  WalkIsFollowed'
  <1> SUFFICES ASSUME ~mixed', ~strayed'
               PROVE  /\ curr' = where'
                      /\ \A n \in 2..Len(entered') : entered'[n] = reading'
                      /\ last' = IF Walking' THEN visited'[Len(visited')] ELSE visited'[1]
    BY DEF WalkIsFollowed, Walking
  <1>0. /\ ClientOK /\ ClientOK' /\ Tree /\ scopes \subseteq Seq(Keys) /\ Names \cap Int = {}
        /\ curr \in scopes
    BY SymTableAssumption, ClientStep
       DEF IInv, TypeOK, Tree, TreeOK, ClientOK, ScopesArePaths, Keys
  <1>1. Len(entered) \in Nat \ {0} /\ Len(visited) = Len(entered) /\ Len(entered') \in Nat
        /\ Len(visited') = Len(entered')
    BY <1>0, LenProperties DEF ClientOK
  <1> DEFINE Followed == /\ curr = where
                         /\ \A n \in 2..Len(entered) : entered[n] = reading
                         /\ last = IF Walking THEN visited[Len(visited)] ELSE visited[1]
             Disciplined(enters) == \A n \in 2..Len(entered) : entered[n] = enters
  <1>2. ~mixed /\ ~strayed => Followed
    BY DEF IInv, WalkIsFollowed
  <1>3. CASE UNCHANGED <<cursor, count>>
    BY <1>2, <1>3 DEF cursor, count, Walking
  <1>4. ASSUME NEW enters, Mixes(enters) PROVE ~mixed /\ Disciplined(enters)
    BY <1>4 DEF Mixes
  <1>5. Followed /\ Disciplined(FALSE) => last = visited[1]
    BY <1>1 DEF Walking
  <1>6. Followed /\ Disciplined(TRUE) => last = visited[Len(visited)]
    BY DEF Walking
  <1>7. ASSUME NEW key \in Keys, GoesTo(key, FALSE), Mixes(FALSE), Followed,
               curr' = Append(curr, key), reading' = FALSE, last' = last
        PROVE  /\ curr' = where'
               /\ \A n \in 2..Len(entered') : entered'[n] = reading'
               /\ last' = IF Walking' THEN visited'[Len(visited')] ELSE visited'[1]
    <2>1. /\ where' = Append(where, key) /\ visited'[1] = visited[1]
          /\ Len(entered') = Len(entered) + 1 /\ entered'[Len(entered')] = FALSE
          /\ \A n \in 1..Len(entered) : entered'[n] = entered[n]
      BY <1>0, <1>7, ClientGoesDown
    <2>2. ~Walking'
      BY <1>1, <2>1 DEF Walking
    <2>3. \A n \in 2..Len(entered') : entered'[n] = FALSE
      <3>1. Disciplined(FALSE)
        BY <1>4, <1>7
      <3>2. \A n \in 2..Len(entered') : n \in 2..Len(entered) \/ n = Len(entered')
        BY <1>1, <2>1
      <3>3. QED
        BY <1>1, <2>1, <3>1, <3>2
    <2>4. QED
      BY <1>4, <1>5, <1>7, <2>1, <2>2, <2>3
  <1>8. ASSUME NEW key \in Keys, GoesTo(key, TRUE), Mixes(TRUE), Followed,
               key \notin Names => key \in 0..MaxNested,
               curr' = Append(curr, key), reading' = TRUE, last' = -1
        PROVE  /\ curr' = where'
               /\ \A n \in 2..Len(entered') : entered'[n] = reading'
               /\ last' = IF Walking' THEN visited'[Len(visited')] ELSE visited'[1]
    <2>1. /\ where' = Append(where, key) /\ visited'[Len(visited')] = -1
          /\ Len(entered') = Len(entered) + 1 /\ entered'[Len(entered')] = TRUE
          /\ \A n \in 1..Len(entered) : entered'[n] = entered[n]
      BY <1>0, <1>8, ClientGoesDown
    <2>2. \A n \in 2..Len(entered') : entered'[n] = TRUE
      <3>1. Disciplined(TRUE)
        BY <1>4, <1>8
      <3>2. \A n \in 2..Len(entered') : n \in 2..Len(entered) \/ n = Len(entered')
        BY <1>1, <2>1
      <3>3. QED
        BY <1>1, <2>1, <3>1, <3>2
    <2>3. QED
      BY <1>8, <2>1, <2>2 DEF Walking
  <1>9. CASE CreateAnonymousScope
    <2> DEFINE key == Cardinality(Nested(curr))
    <2>1. Mixes(FALSE) /\ strayed' = strayed
      BY <1>9 DEF CreateAnonymousScope
    <2>2. Followed
      BY <1>2, <1>4, <2>1
    <2>3. key \in Keys
      BY <1>0, NestedIsFinite DEF Keys, Tree
    <2>4. curr' = Append(curr, key) /\ GoesTo(key, FALSE) /\ reading' = FALSE /\ last' = last
      BY <1>9, <2>2 DEF CreateAnonymousScope, NewScope
    <2>5. QED
      BY <1>7, <2>1, <2>2, <2>3, <2>4
  <1>10. ASSUME NEW name \in Names, CreateNamedScope(name)
         PROVE  /\ curr' = where'
                /\ \A n \in 2..Len(entered') : entered'[n] = reading'
                /\ last' = IF Walking' THEN visited'[Len(visited')] ELSE visited'[1]
    <2>1. Mixes(FALSE) /\ strayed' = strayed /\ reading' = FALSE /\ last' = last
      BY <1>10 DEF CreateNamedScope
    <2>2. Followed
      BY <1>2, <1>4, <2>1
    <2>3. CASE Append(curr, name) \notin scopes
      <3>1. curr' = Append(curr, name) /\ GoesTo(name, FALSE) /\ name \in Keys
        BY <1>10, <2>3 DEF CreateNamedScope, NewScope, Keys
      <3>2. QED
        BY <1>7, <2>1, <2>2, <3>1
    <2>4. CASE Append(curr, name) \in scopes
      <3>1. UNCHANGED <<curr, where, entered, visited>>
        BY <1>10, <2>4 DEF CreateNamedScope
      <3>2. QED
        BY <1>4, <2>1, <2>2, <3>1 DEF Walking
    <2>5. QED
      BY <2>3, <2>4
  <1>11. CASE EnterAnonymousScope
    <2> DEFINE key == visited[Len(visited)] + 1
    <2>1. Mixes(TRUE) /\ strayed' = strayed
      BY <1>11 DEF EnterAnonymousScope
    <2>2. Followed /\ last = visited[Len(visited)]
      BY <1>2, <1>4, <1>6, <2>1
    <2>3. GoesTo(key, TRUE) /\ Append(where, key) \in scopes /\ reading' = TRUE /\ last' = -1
      BY <1>11 DEF EnterAnonymousScope
    <2>4. curr' = Append(curr, key)
      BY <1>11, <2>2, <2>3 DEF EnterAnonymousScope, Neighbours
    <2>5. key \in Keys /\ key \in 0..MaxNested
      BY <1>11, EnteredPosition
    <2>6. QED
      BY <1>8, <2>1, <2>2, <2>3, <2>4, <2>5
  <1>12. ASSUME NEW name \in Names, EnterNamedScope(name)
         PROVE  /\ curr' = where'
                /\ \A n \in 2..Len(entered') : entered'[n] = reading'
                /\ last' = IF Walking' THEN visited'[Len(visited')] ELSE visited'[1]
    <2>1. Mixes(TRUE) /\ ~strayed /\ reading' = TRUE
      BY <1>12 DEF EnterNamedScope
    <2>2. Followed
      BY <1>2, <1>4, <2>1
    <2>3. CASE Append(curr, name) \in scopes
      <3>1. curr' = Append(curr, name) /\ GoesTo(name, TRUE) /\ last' = -1 /\ name \in Keys
        BY <1>12, <2>3 DEF EnterNamedScope, Keys
      <3>2. QED
        BY <1>8, <2>1, <2>2, <3>1
    <2>4. CASE Append(curr, name) \notin scopes
      <3>1. UNCHANGED <<curr, last, where, entered, visited>>
        BY <1>12, <2>4 DEF EnterNamedScope
      <3>2. QED
        BY <1>4, <2>1, <2>2, <3>1 DEF Walking
    <2>5. QED
      BY <2>3, <2>4
  <1>13. CASE ExitScope
    <2> DEFINE walked == entered[Len(entered)]
    <2>1. /\ where # Global /\ curr' = Parent(curr) /\ RestoreCursor /\ ComesBack
          /\ reading' = reading /\ mixed' = mixed
          /\ strayed' = (strayed \/ (walked /\ Key(where) \in Names /\ ~Anonymous(Parent(where))))
      BY <1>13 DEF ExitScope, ComesBack
    <2>2. Followed /\ ~mixed /\ ~strayed
      BY <1>2, <2>1
    <2>3. curr' = where'
      BY <2>1, <2>2 DEF ComesBack
    <2>4. /\ Len(entered) >= 2 /\ Len(entered') = Len(entered) - 1
          /\ \A n \in 1..Len(entered') : entered'[n] = entered[n]
          /\ IF walked /\ Key(where) \notin Names
             THEN /\ visited'[Len(visited')] = Key(where)
                  /\ \A n \in 1..(Len(visited') - 1) : visited'[n] = visited[n]
             ELSE \A n \in 1..Len(visited') : visited'[n] = visited[n]
      BY <1>0, <2>1, ClientComesBack
    <2>5. \A n \in 2..Len(entered') : entered'[n] = reading'
      BY <1>1, <2>1, <2>2, <2>4
    <2>6. walked = reading
      BY <1>1, <2>2, <2>4
    <2>7. CASE reading
      <3>1. Walking' /\ curr # Global /\ curr \in Seq(Keys)
        BY <1>0, <2>1, <2>2, <2>5, <2>7 DEF Walking
      <3>2. index[curr] = IF Key(curr) \in Names THEN -1 ELSE Key(curr)
        BY <1>0, <3>1 DEF Tree, IndexIsPosition
      <3>3. CASE Key(where) \notin Names
        <4>1. Key(curr) \in Nat /\ Parent(curr) \in scopes
          BY <1>0, <2>2, <3>1, <3>3 DEF Tree, TreeOK
        <4>2. curr = Append(Parent(curr), Key(curr))
          BY <3>1, PathIsAppended
        <4>3. Key(curr) < Cardinality(Nested(Parent(curr)))
          BY <1>0, <4>1, <4>2 DEF Tree, PositionsAreDense
        <4>4. Cardinality(Nested(Parent(curr))) \in Nat
          BY <1>0, NestedIsFinite DEF Tree
        <4>5. last' = Key(where)
          BY <2>1, <2>2, <2>7, <3>2, <3>3, <4>1, <4>3, <4>4 DEF RestoreCursor
        <4>6. QED
          BY <2>3, <2>4, <2>5, <2>6, <2>7, <3>1, <3>3, <4>5
      <3>4. CASE Key(where) \in Names
        <4>1. last' = prev
          BY <2>1, <2>2, <2>7, <3>2, <3>4 DEF RestoreCursor
        <4>2. Len(where) \in Waiting
          BY <2>1, <2>2, <2>6, <2>7, <3>4, WalkingClient
        <4>3. prev = visited[Len(where)]
          BY <2>2, <2>7, <4>2 DEF IInv, SlotIsHeld
        <4>4. Len(visited') = Len(where) /\ Len(where) \in 1..Len(visited')
          <5>1. Len(where) \in Nat /\ Len(where) >= 1
            BY <2>1, <2>2, WalkingClient
          <5>2. Len(visited') = Len(where)
            BY <1>0, <1>1, <2>4, <5>1 DEF ClientOK
          <5>3. QED
            BY <5>1, <5>2
        <4>5. visited'[Len(where)] = visited[Len(where)]
          BY <2>4, <3>4, <4>4
        <4>6. QED
          BY <2>3, <2>5, <3>1, <4>1, <4>3, <4>4, <4>5
      <3>5. QED
        BY <3>3, <3>4
    <2>8. CASE ~reading
      <3>1. last' = last
        BY <2>1, <2>8 DEF RestoreCursor
      <3>2. last = visited[1]
        BY <1>1, <2>2, <2>4, <2>6, <2>8 DEF Walking
      <3>3. /\ \A n \in 1..Len(visited') : visited'[n] = visited[n]
        BY <2>4, <2>6, <2>8
      <3>4. Walking' => Len(visited') = 1
        BY <1>1, <2>1, <2>4, <2>5, <2>8 DEF Walking
      <3>5. visited'[1] = visited[1]
        BY <1>1, <2>4, <3>3
      <3>6. QED
        BY <2>3, <2>5, <3>1, <3>2, <3>4, <3>5
    <2>9. QED
      BY <2>7, <2>8 DEF IInv, TypeOK
  <1>14. ASSUME NEW id \in Symbols, AddSymbol(id) PROVE UNCHANGED <<cursor, count>>
    BY <1>14 DEF AddSymbol
  <1>15. CASE SaveAndLoad
    BY <1>15 DEF SaveAndLoad, Walking, Global
  <1>16. QED
    BY <1>3, <1>9, <1>10, <1>11, <1>12, <1>13, <1>14, <1>15 DEF Next, vars

-----------------------------------------------------------------------------
(* What holds of every history of calls *)

LEMMA Invariance == Spec => []IInv
  <1>1. IInv /\ [Next]_vars => IInv'
    BY TreeStep, ClientStep, TypeStep, WalkStep, SlotStep DEF IInv, Tree, ClientOK
  <1>2. QED
    BY InitEstablishes, <1>1, PTL DEF Spec

\* Whatever calls a client makes, the table has its types: no path leads out of the
\* tree and no index beyond the scopes there are.
THEOREM TypeCorrect == Spec => []TypeOK
  <1>1. IInv => TypeOK
    BY DEF IInv
  <1>2. QED
    BY <1>1, Invariance, PTL

\* EnterScope and ExitScope keep the place of a walk in a tree of any depth, for a client
\* that builds and walks in turn, also when it comes back from a named scope to an
\* anonymous one, as long as it needs mPrevVisitedScopeIndex for one return at a time;
\* a save and a load of the table in between change nothing.
THEOREM WalksKeepTheirPlace == Spec => []WalkKeepsItsPlace
  <1>1. IInv => WalkKeepsItsPlace
    BY DEF IInv, WalkIsFollowed, WalkKeepsItsPlace
  <1>2. QED
    BY <1>1, Invariance, PTL
=============================================================================
