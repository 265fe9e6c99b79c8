------------------------------ MODULE SymTable ------------------------------
(***************************************************************************)
(* SymTable of src/source/symtable.cpp: a tree of scopes, built with        *)
(* CreateScope and ExitScope and walked again with EnterScope and ExitScope. *)
(* A named scope is found by its name; EnterScope() without a name goes to  *)
(* the neighbour after the anonymous scope that was left last.              *)
(*                                                                         *)
(* A scope is its path from the global scope: a sequence of names and, for  *)
(* anonymous scopes, of positions in mpNestedScopes (from 0).  A client may *)
(* make any calls, as long as it leaves no scope it did not enter and, by   *)
(* its own count, enters no neighbour that is not there.  The history       *)
(* variables hold the client's count.                                      *)
(***************************************************************************)
EXTENDS Integers, Sequences, FiniteSets

CONSTANTS Names,         \* the names of scopes
          Symbols,       \* the names of symbols
          Uninitialised, \* what an int that was never written may hold
          MaxDepth,      \* bound: the length of a path
          MaxNested,     \* bound: the anonymous scopes in one scope
          MaxCalls       \* bound: the calls of one history

\* std::numeric_limits<int>::max
MaxInt == 2147483647

ASSUME SymTableAssumption ==
    /\ Names \cap Int = {}
    /\ Uninitialised \subseteq Int /\ Uninitialised # {}
    /\ MaxDepth \in Nat /\ MaxNested \in Nat /\ MaxCalls \in Nat
    /\ MaxNested < MaxInt  \* the positions are values of an int

VARIABLES
    scopes,    \* the paths of the scopes there are
    index,     \* index[s]: mIndex
    symbols,   \* symbols[s]: the names in mVariables
    curr,      \* mpCurrScope
    reading,   \* mIsReadOnlyMode
    last,      \* mLastVisitedScopeIndex
    prev,      \* mPrevVisitedScopeIndex
    \* history
    where,     \* the scope the client means to be in
    entered,   \* for the scopes on the way there, the global one first:
               \* whether the client entered it or created it
    visited,   \* for the same scopes: the position of the anonymous scope in
               \* it that the client entered and left last, -1 if none
    mixed,     \* the client walked in a scope it was building, or built in
               \* one it was walking in
    strayed,   \* the client went through named scopes in a way for which the
               \* one slot mPrevVisitedScopeIndex does not suffice
    calls

tree == <<scopes, index, symbols>>
cursor == <<curr, reading, last, prev>>
count == <<where, entered, visited, mixed, strayed>>
vars == <<tree, cursor, count, calls>>

Global == <<>>
Parent(s) == SubSeq(s, 1, Len(s) - 1)
Key(s) == s[Len(s)]
Nested(s) == {c \in scopes : c # Global /\ Parent(c) = s /\ Key(c) \notin Names}

Anonymous(s) == s # Global /\ Key(s) \notin Names

\* s and the scopes around it.
Enclosing(s) == {SubSeq(s, 1, n) : n \in 0..Len(s)}
Innermost(S) == CHOOSE s \in S : \A t \in S : Len(t) <= Len(s)

\* The named scopes around the client, by their depth, that lie directly in an
\* anonymous one: for the return from them the slot is kept.
Waiting == {n \in 2..Len(where) : where[n] \in Names /\ where[n - 1] \notin Names}

TypeOK ==
    /\ Global \in scopes
    /\ \A s \in scopes \ {Global} : Parent(s) \in scopes /\ Key(s) \in Names \cup Nat
    /\ index \in [scopes -> -1..MaxNested]
    /\ symbols \in [scopes -> SUBSET Symbols]
    /\ curr \in scopes
    /\ reading \in BOOLEAN
    /\ last \in (-1..MaxNested) \cup Uninitialised
    /\ prev \in (-1..MaxNested) \cup Uninitialised
    /\ where \in Seq(Names \cup Nat)
    /\ entered \in Seq(BOOLEAN) /\ Len(entered) = Len(where) + 1
    /\ visited \in Seq(-1..MaxNested) /\ Len(visited) = Len(where) + 1
    /\ mixed \in BOOLEAN /\ strayed \in BOOLEAN
    /\ calls \in 0..MaxCalls

-----------------------------------------------------------------------------
\* mPrevVisitedScopeIndex has no initializer.
Init == /\ scopes = {Global}
        /\ index = [s \in {Global} |-> -1] /\ symbols = [s \in {Global} |-> {}]
        /\ curr = Global /\ reading = FALSE
        /\ last = -1 /\ prev \in Uninitialised
        /\ where = Global /\ entered = <<FALSE>> /\ visited = <<-1>>
        /\ mixed = FALSE /\ strayed = FALSE
        /\ calls = 0

Call == calls < MaxCalls /\ calls' = calls + 1

Mixes(enters) ==
    mixed' = (mixed \/ \E n \in 2..Len(entered) : entered[n] # enters)

\* The client goes down into its scope key.
GoesTo(key, enters) ==
    /\ where' = Append(where, key)
    /\ entered' = Append(entered, enters)
    /\ visited' = Append(visited, -1)

Extended(f, s, value) == [t \in DOMAIN f \cup {s} |-> IF t = s THEN value ELSE f[t]]

NewScope(s, at) == /\ scopes' = scopes \cup {s}
                   /\ index' = Extended(index, s, at)
                   /\ symbols' = Extended(symbols, s, {})
                   /\ curr' = s

CreateAnonymousScope ==
    /\ Call
    /\ Len(curr) < MaxDepth /\ Cardinality(Nested(curr)) < MaxNested
    /\ LET at == Cardinality(Nested(curr))
       IN  NewScope(Append(curr, at), at)
    /\ GoesTo(Cardinality(Nested(where)), FALSE) /\ Mixes(FALSE)
    /\ reading' = FALSE
    /\ UNCHANGED <<last, prev, strayed>>

CreateNamedScope(name) ==
    /\ Call
    /\ Len(curr) < MaxDepth
    /\ reading' = FALSE
    /\ IF Append(curr, name) \in scopes
       THEN UNCHANGED <<tree, curr, where, entered, visited>>
       ELSE /\ NewScope(Append(curr, name), -1)
            /\ GoesTo(name, FALSE)
    /\ Mixes(FALSE)
    /\ UNCHANGED <<last, prev, strayed>>

\* mpNestedScopes[mLastVisitedScopeIndex + 1]; an index outside the vector is
\* undefined, any scope may come out.
Neighbours == IF Append(curr, last + 1) \in scopes THEN {Append(curr, last + 1)}
              ELSE scopes

EnterAnonymousScope ==
    /\ Call
    /\ Append(where, visited[Len(visited)] + 1) \in scopes
    /\ curr' \in Neighbours
    /\ GoesTo(visited[Len(visited)] + 1, TRUE) /\ Mixes(TRUE)
    /\ reading' = TRUE
    /\ last' = -1
    /\ UNCHANGED <<tree, prev, strayed>>

\* The slot is written in an anonymous scope, whether there is such a named scope
\* in it or not: from there the client asks for none while the slot is in use.
EnterNamedScope(name) ==
    /\ Call
    /\ reading' = TRUE
    /\ prev' = IF index[curr] >= 0 THEN last ELSE prev
    /\ IF Append(curr, name) \in scopes
       THEN /\ curr' = Append(curr, name)
            /\ last' = -1
            /\ GoesTo(name, TRUE)
       ELSE UNCHANGED <<curr, last, where, entered, visited>>
    /\ Mixes(TRUE)
    /\ strayed' = (strayed \/ (Anonymous(where) /\ Waiting # {}))
    /\ UNCHANGED tree

\* The client notes where it was, if it walked.  From a named scope it comes back
\* only to an anonymous one, the slot was not written elsewhere.
ComesBack ==
    /\ where' = Parent(where)
    /\ entered' = SubSeq(entered, 1, Len(entered) - 1)
    /\ LET above == SubSeq(visited, 1, Len(visited) - 1)
       IN  visited' = IF entered[Len(entered)] /\ Key(where) \notin Names
                      THEN [above EXCEPT ![Len(above)] = Key(where)]
                      ELSE above
    /\ strayed' = (strayed \/ (/\ entered[Len(entered)] /\ Key(where) \in Names
                               /\ ~Anonymous(Parent(where))))
    /\ UNCHANGED mixed

\* Variant: the return from a named scope is not restored.
ForgetsTheSlot ==
    /\ last' = IF reading /\ index[curr] >= 0 THEN index[curr] ELSE last
    /\ UNCHANGED prev

\* What ExitScope does to the cursor of the walk.
RestoreCursor ==
    IF ~reading THEN UNCHANGED <<last, prev>>
    ELSE IF index[curr] >= 0
         THEN /\ last' = IF Cardinality(Nested(Parent(curr))) > index[curr] THEN index[curr]
                         ELSE last
              /\ UNCHANGED prev
         ELSE last' = prev /\ prev' = -1

ExitScope ==
    /\ Call
    /\ where # Global /\ curr # Global
    /\ curr' = Parent(curr)
    /\ RestoreCursor
    /\ ComesBack
    /\ UNCHANGED <<tree, reading>>

\* An existing symbol gets the new type.
AddSymbol(id) ==
    /\ Call
    /\ symbols' = [symbols EXCEPT ![curr] = @ \cup {id}]
    /\ UNCHANGED <<scopes, index, cursor, count>>

\* Save writes the largest int as the index of a scope that is not anonymous.
Saved(i) == IF i >= 0 THEN i ELSE MaxInt

\* Variant: the index is read as it was written.
KeepsTheMark(i) == i

Loaded(i) == IF i = MaxInt THEN -1 ELSE i

\* The table is saved, and loaded into a SymTable.
SaveAndLoad ==
    /\ Call
    /\ index' = [s \in scopes |-> Loaded(Saved(index[s]))]
    /\ curr' = Global /\ reading' = FALSE
    /\ last' = -1 /\ prev' = -1
    /\ where' = Global /\ entered' = <<FALSE>> /\ visited' = <<-1>>
    /\ mixed' = FALSE /\ strayed' = FALSE
    /\ UNCHANGED <<scopes, symbols>>

-----------------------------------------------------------------------------
Next == \/ CreateAnonymousScope \/ EnterAnonymousScope \/ ExitScope \/ SaveAndLoad
        \/ \E name \in Names : CreateNamedScope(name) \/ EnterNamedScope(name)
        \/ \E id \in Symbols : AddSymbol(id)

Spec == Init /\ [][Next]_vars

-----------------------------------------------------------------------------
(* Properties *)

\* No scope around the client is one it is building.
Walking == \A n \in 2..Len(entered) : entered[n]

\* A client that builds and walks in turn is in the scope it means to be in, and its
\* next EnterScope() goes to the neighbour it counts to, also after it has come back
\* from a named scope that lies in an anonymous one and after a detour of the table
\* through a cache file.  ExitScope takes the place in the outer scope from the index
\* of an anonymous scope that is left, so no stack of places is needed there; a named
\* scope has no index, and mPrevVisitedScopeIndex is one slot, written only inside an
\* anonymous scope.  So the walk is lost, and nothing is said of it, when the client
\* comes back from a named scope in the global or in a named one, or looks for a named
\* scope from an anonymous one while it is inside a named scope it will come back from.
WalkKeepsItsPlace ==
    ~mixed /\ ~strayed =>
        /\ curr = where
        /\ Walking => last = visited[Len(visited)]
=============================================================================
