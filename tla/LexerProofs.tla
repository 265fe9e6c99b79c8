----------------------------- MODULE LexerProofs -----------------------------
(***************************************************************************)
(* Proofs about Lexer: for every set of words, every text and every history *)
(* of calls, the queue and the modes lose and repeat nothing of the text,   *)
(* what a peek promises is delivered, and only a section right behind       *)
(* another one comes through.                                              *)
(***************************************************************************)
EXTENDS Lexer, InductionLemmas

Letters == Words \cup {">"}

\* The word at the front of r is the second half of a >>.
Half(r) == r # <<>> /\ text[Position(r)] = ">>" /\ r[1] = ">"

\* r is an end of the text, but for the half of a word at its front.
IsRest(r) ==
    /\ r \in Seq(Letters) /\ Len(r) <= Len(text)
    /\ \A i \in 1..Len(r) : r[i] = text[Position(r) - 1 + i] \/ (i = 1 /\ Half(r))

\* The tokens of the word at k in the sequence s.
At(s, k) == {i \in 1..Len(s) : s[i].at = k}
IsSplit(s, k) == text[k] = ">>" /\ \E i \in 1..Len(s) : s[i] = [type |-> ">", at |-> k]

\* The tokens s are those of the text up to r.
IsFaithful(s, r) ==
    /\ s \in Seq(Tokens \cup {Eof})
    /\ \A i \in 1..Len(s) : \/ s[i] = Eof /\ r = <<>>
                            \/ s[i] \in Tokens /\ s[i].at \in 1..(Position(r) - 1)
                            \/ s[i] \in Tokens /\ s[i].at = Position(r) /\ Half(r)
    /\ \A i, j \in 1..Len(s) : i < j /\ s[j] # Eof => s[i] # Eof /\ s[i].at <= s[j].at
    /\ \A k \in 1..(Position(r) - 1) \ Ignored :
          Cardinality(At(s, k)) = IF IsSplit(s, k) THEN 2 ELSE 1
    /\ Half(r) => \E i \in 1..Len(s) : /\ s[i] = [type |-> ">", at |-> Position(r)]
                                       /\ At(s, Position(r)) = {i}

\* The word at k is in a section that begins right behind another one.
FollowsSection(k) == \E b \in SectionOf(k) : b - 1 \in Ignored /\ text[b - 1] = "end"
LeaksFollow(s) == \A i \in 1..Len(s) : s[i].at \in Ignored => FollowsSection(s[i].at)

\* If r begins behind the first mark of a section, that section follows another.
StartsOutside(r) ==
    r # <<>> /\ (\E b \in SectionOf(Position(r)) : b < Position(r))
        => FollowsSection(Position(r))

\* As much as was promised is at the front of the queue.
PromiseIsQueued == promised # Invalid => queue # <<>> /\ promised = queue[1]

IInv == /\ TypeOK
        /\ IsRest(rest)
        /\ IsFaithful(Scanned, rest)
        /\ LeaksFollow(Scanned)
        /\ StartsOutside(rest)
        /\ PromiseIsQueued

-----------------------------------------------------------------------------
(* Sections are skipped *)

LEMMA Positions ==
    ASSUME TypeOK, NEW r, IsRest(r)
    PROVE  /\ Len(text) \in Nat /\ Len(r) \in Nat
           /\ Position(r) \in 1..(Len(text) + 1) /\ Len(r) = Len(text) + 1 - Position(r)
           /\ r = <<>> <=> Position(r) = Len(text) + 1
  <1>1. Len(text) \in Nat /\ Len(r) \in Nat /\ Len(r) <= Len(text)
    BY LenProperties DEF TypeOK, IsRest
  <1>2. r = <<>> <=> Len(r) = 0
    BY EmptySeq DEF IsRest
  <1>3. QED
    BY <1>1, <1>2 DEF Position

LEMMA SectionIsSkipped ==
    ASSUME TypeOK, NEW r, IsRest(r)
    PROVE  LET u == Unignored(r) IN
           /\ IsRest(u)
           /\ \/ u = r /\ (r # <<>> => r[1] # "begin")
              \/ /\ r # <<>> /\ ~Half(u) /\ ~Half(r)
                 /\ Position(r) < Position(u)
                 /\ \A k \in Position(r)..(Position(u) - 1) : k \in Ignored
                 /\ u # <<>> => text[Position(u) - 1] = "end"
  <1>1. CASE r = <<>> \/ r[1] # "begin"
    BY <1>1 DEF Unignored
  <1>2. CASE r # <<>> /\ r[1] = "begin"
    <2> DEFINE pos == Position(r)
               ends == {k \in 1..Len(r) : r[k] = "end"}
               e == CHOOSE k \in ends : \A j \in ends : k <= j
               u == Unignored(r)
    <2>1. /\ Len(text) \in Nat /\ Len(r) \in Nat /\ pos \in 1..Len(text)
          /\ Len(r) = Len(text) + 1 - pos
      BY <1>2, Positions
    <2>2. ~Half(r) /\ \A i \in 1..Len(r) : r[i] = text[pos - 1 + i]
      BY <1>2 DEF Half, IsRest
    <2>3. \A j \in pos..Len(text) : text[j] = r[j - pos + 1]
      <3>1. \A j \in pos..Len(text) : j - pos + 1 \in 1..Len(r) /\ pos - 1 + (j - pos + 1) = j
        BY <2>1
      <3>2. QED
        BY <2>2, <3>1
    <2>4. text[pos] = "begin"
      BY <1>2, <2>1, <2>3
    <2>5. ASSUME NEW k \in pos..Len(text), \A j \in pos..(k - 1) : text[j] # "end"
          PROVE  k \in Ignored
      <3>1. k \in 1..Len(text) /\ pos \in 1..k
        BY <2>1
      <3>2. pos \in SectionOf(k)
        BY <2>4, <2>5, <3>1 DEF SectionOf
      <3>3. QED
        BY <3>1, <3>2 DEF Ignored
    <2>6. u = IF ends = {} THEN <<>> ELSE SubSeq(r, e + 1, Len(r))
      BY <1>2 DEF Unignored, AfterSection
    <2>7. CASE ends = {}
      <3>1. u = <<>>
        BY <2>6, <2>7
      <3>2. Len(u) = 0 /\ u \in Seq(Letters) /\ Position(u) = Len(text) + 1
        BY <2>1, <3>1 DEF Position
      <3>3. IsRest(u) /\ ~Half(u)
        BY <2>1, <3>1, <3>2 DEF IsRest, Half
      <3>4. \A j \in pos..Len(text) : text[j] # "end"
        <4>1. \A j \in pos..Len(text) : j - pos + 1 \in 1..Len(r)
          BY <2>1
        <4>2. QED
          BY <2>3, <2>7, <4>1
      <3>5. \A k \in pos..Len(text) : k \in Ignored
        BY <2>1, <2>5, <3>4
      <3>6. QED
        BY <1>2, <2>1, <2>2, <3>1, <3>2, <3>3, <3>5
    <2>8. CASE ends # {}
      <3>1. e \in ends /\ \A j \in ends : e <= j
        <4>1. ends \in SUBSET Nat
          OBVIOUS
        <4>2. \E k \in ends : \A j \in ends : k <= j
          <5> HIDE DEF ends
          <5> QED
            BY <2>8, <4>1, SmallestNumber
        <4>3. QED
          BY <4>2
      <3>2. e \in 1..Len(r) /\ r[e] = "end" /\ u = SubSeq(r, e + 1, Len(r))
        BY <2>6, <2>8, <3>1
      <3> HIDE DEF e, u
      <3>3. u \in Seq(Letters) /\ Len(u) = Len(r) - e /\ \A i \in 1..Len(u) : u[i] = r[e + i]
        <4>1. \A i \in (e + 1)..Len(r) : r[i] \in Letters
          BY <2>1, <3>2, ElementOfSeq DEF IsRest
        <4>2. e + 1 \in Int /\ Len(r) \in Int
          BY <2>1, <3>2
        <4>3. /\ u \in Seq(Letters)
              /\ Len(u) = IF e + 1 <= Len(r) THEN Len(r) - (e + 1) + 1 ELSE 0
              /\ \A i \in 1..(Len(r) - (e + 1) + 1) : u[i] = r[e + 1 + i - 1]
          BY <3>2, <4>1, <4>2, SubSeqProperties
        <4>4. QED
          BY <2>1, <3>2, <4>3
      <3>4. Position(u) = pos + e
        <4>1. Position(u) = Len(text) - Len(u) + 1
          BY DEF Position
        <4>2. e \in Int /\ pos \in Int /\ Len(u) = Len(text) + 1 - pos - e
          BY <2>1, <3>2, <3>3
        <4> HIDE DEF pos
        <4>3. QED
          BY <2>1, <4>1, <4>2
      <3>5. \A i \in 1..Len(u) : u[i] = text[Position(u) - 1 + i]
        <4>1. \A i \in 1..Len(u) : /\ e + i \in 1..Len(r)
                                   /\ pos - 1 + (e + i) = Position(u) - 1 + i
          BY <2>1, <3>2, <3>3, <3>4, SMTT(30)
        <4>2. QED
          BY <2>2, <3>3, <4>1
      <3>6. IsRest(u)
        BY <2>1, <3>2, <3>3, <3>5 DEF IsRest
      <3>7. ~Half(u)
        <4>1. u # <<>> => u[1] = text[Position(u)]
          <5>1. u # <<>> => 1 \in 1..Len(u) /\ Position(u) - 1 + 1 = Position(u)
            BY <3>3, EmptySeq, <2>1, <3>2, <3>4
          <5>2. QED
            BY <3>5, <5>1
        <4>2. QED
          BY <4>1 DEF Half
      <3>8. text[Position(u) - 1] = "end"
        BY <2>1, <2>2, <3>2, <3>4
      <3>9. ASSUME NEW k \in pos..(pos + e - 1) PROVE k \in Ignored
        <4>1. ASSUME NEW j \in pos..(k - 1) PROVE text[j] # "end"
          <5>1. /\ j \in pos..Len(text) /\ j - pos + 1 \in 1..Len(r) /\ j - pos + 1 < e
            BY <2>1, <3>2, SMTT(30)
          <5>2. j - pos + 1 \notin ends
            BY <3>1, <5>1
          <5>3. QED
            BY <2>3, <5>1, <5>2
        <4>2. k \in pos..Len(text)
          BY <2>1, <3>2
        <4>3. QED
          BY <2>5, <4>1, <4>2
      <3>10. pos < Position(u) /\ \A k \in pos..(Position(u) - 1) : k \in Ignored
        BY <2>1, <3>2, <3>4, <3>9
      <3>11. QED
        BY <1>2, <2>2, <3>6, <3>7, <3>8, <3>10 DEF u
    <2>9. QED
      BY <2>7, <2>8
  <1>3. QED
    BY <1>1, <1>2

LEMMA SkippingIsFaithful ==
    ASSUME TypeOK, NEW r, IsRest(r), NEW s, IsFaithful(s, r)
    PROVE  IsFaithful(s, Unignored(r))
  <1> DEFINE u == Unignored(r)
  <1> SUFFICES ASSUME ~Half(u), r # <<>>, ~Half(r), Position(r) < Position(u), IsRest(u),
                      \A k \in Position(r)..(Position(u) - 1) : k \in Ignored
               PROVE  IsFaithful(s, u)
    BY SectionIsSkipped
  <1> HIDE DEF u
  <1>1. Position(r) \in Nat /\ Position(u) \in Nat
    BY Positions
  <1>2. ASSUME NEW i \in 1..Len(s)
        PROVE  s[i] \in Tokens /\ s[i].at \in 1..(Position(u) - 1)
    BY <1>1 DEF IsFaithful
  <1>3. \A k \in 1..(Position(u) - 1) \ Ignored : k \in 1..(Position(r) - 1)
    BY <1>1
  <1>4. QED
    BY <1>2, <1>3 DEF IsFaithful

LEMMA TokenIsTyped ==
    ASSUME TypeOK, NEW u, IsRest(u)
    PROVE  ScannedToken(u) \in Tokens \cup {Eof}
  <1>1. CASE u = <<>>
    BY <1>1 DEF ScannedToken
  <1>2. CASE u # <<>>
    <2>1. Head(u) \in Letters /\ Position(u) \in Nat
      BY <1>2, Positions DEF IsRest
    <2>2. TypeOf(Head(u)) \in Types
      BY <2>1, LexerAssumption DEF TypeOf, Types, Letters
    <2>3. QED
      BY <1>2, <2>1, <2>2 DEF ScannedToken, Tokens
  <1>3. QED
    BY <1>1, <1>2

\* The tokens of one word when another token is scanned.
LEMMA TokensOfWord ==
    ASSUME NEW s \in Seq(Tokens \cup {Eof}), NEW t \in Tokens \cup {Eof}, NEW k
    PROVE  /\ Append(s, t) \in Seq(Tokens \cup {Eof}) /\ Len(s) \in Nat
           /\ Len(Append(s, t)) = Len(s) + 1 /\ Append(s, t)[Len(s) + 1] = t
           /\ \A i \in 1..Len(s) : Append(s, t)[i] = s[i]
           /\ At(Append(s, t), k) = At(s, k) \cup IF t.at = k THEN {Len(s) + 1} ELSE {}
           /\ IsFiniteSet(At(s, k))
  <1> DEFINE All == Tokens \cup {Eof}
  <1>1. /\ Append(s, t) \in Seq(All) /\ Len(s) \in Nat
        /\ Len(Append(s, t)) = Len(s) + 1 /\ Append(s, t)[Len(s) + 1] = t
        /\ \A i \in 1..Len(s) : Append(s, t)[i] = s[i]
    <2> HIDE DEF All
    <2> QED
      BY AppendProperties, LenProperties DEF All
  <1>2. \A i \in 1..(Len(s) + 1) : i \in 1..Len(s) \/ i = Len(s) + 1
    BY <1>1
  <1>3. At(Append(s, t), k) = At(s, k) \cup IF t.at = k THEN {Len(s) + 1} ELSE {}
    BY <1>1, <1>2 DEF At
  <1>4. IsFiniteSet(At(s, k))
    <2>1. IsFiniteSet(1..Len(s)) /\ At(s, k) \in SUBSET (1..Len(s))
      BY <1>1, FS_Interval DEF At
    <2>2. QED
      BY <2>1, FS_Subset
  <1>5. QED
    BY <1>1, <1>3, <1>4

-----------------------------------------------------------------------------
(* A token is scanned *)

\* What is left behind a token begins at the next word, or at the half of this one.
LEMMA TokenIsPassed ==
    ASSUME TypeOK, NEW u, IsRest(u), u # <<>>
    PROVE  LET v == AfterToken(u) IN
           /\ IsRest(v)
           /\ ScannedToken(u).at = Position(u) /\ ScannedToken(u) \in Tokens
           /\ \/ /\ Half(v) /\ ~Half(u) /\ Position(v) = Position(u)
                 /\ ScannedToken(u).type = ">"
              \/ /\ ~Half(v) /\ Position(v) = Position(u) + 1
                 /\ Half(u) => ScannedToken(u).type = ">"
                 /\ ~Half(u) /\ text[Position(u)] = ">>" => ScannedToken(u).type # ">"
  <1> DEFINE v == AfterToken(u)
             pos == Position(u)
  <1>1. /\ Len(text) \in Nat /\ Len(u) \in Nat \ {0} /\ pos \in 1..Len(text)
        /\ Len(u) = Len(text) + 1 - pos
    BY Positions
  <1>2. u \in Seq(Letters) /\ Head(u) = u[1] /\ u[1] \in Letters
    BY <1>1, ElementOfSeq DEF IsRest
  <1>3. ~Half(u) => u[1] = text[pos]
    BY <1>1 DEF IsRest
  <1>4. \A i \in 2..Len(u) : u[i] = text[pos - 1 + i]
    BY <1>1 DEF IsRest
  <1>5. /\ Tail(u) \in Seq(Letters) /\ Len(Tail(u)) = Len(u) - 1
        /\ \A i \in 1..(Len(u) - 1) : Tail(u)[i] = u[i + 1]
    BY <1>2, HeadTailProperties
  <1>6. ScannedToken(u) = [type |-> TypeOf(u[1]), at |-> pos]
    BY <1>2 DEF ScannedToken
  <1>7. ScannedToken(u) \in Tokens /\ ScannedToken(u).at = pos
        /\ ScannedToken(u).type = TypeOf(u[1])
    <2>1. TypeOf(u[1]) \in Types
      BY <1>2, LexerAssumption DEF TypeOf, Types, Letters
    <2>2. QED
      BY <1>1, <1>6, <2>1 DEF Tokens
  <1>8. CASE u[1] = ">>" /\ templateMode
    <2>1. v = <<">">> \o Tail(u)
      BY <1>2, <1>8 DEF AfterToken
    <2>2. /\ v \in Seq(Letters) /\ Len(v) = Len(u) /\ v[1] = ">"
          /\ \A i \in 2..Len(u) : v[i] = u[i]
      <3>1. <<">">> \in Seq(Letters) /\ Len(<<">">>) = 1 /\ <<">">>[1] = ">"
        BY DEF Letters
      <3>2. /\ v \in Seq(Letters) /\ Len(v) = 1 + Len(Tail(u))
            /\ \A i \in 1..(1 + Len(Tail(u))) :
                  v[i] = IF i <= 1 THEN <<">">>[i] ELSE Tail(u)[i - 1]
        BY <1>5, <2>1, <3>1, ConcatProperties
      <3>3. v[1] = ">" /\ Len(v) = Len(u)
        BY <1>1, <1>5, <3>1, <3>2
      <3>4. ASSUME NEW i \in 2..Len(u) PROVE v[i] = u[i]
        <4>1. i \in 1..(1 + Len(Tail(u))) /\ ~(i <= 1) /\ i - 1 \in 1..(Len(u) - 1)
          BY <1>1, <1>5
        <4>2. v[i] = Tail(u)[i - 1] /\ Tail(u)[i - 1] = u[i - 1 + 1]
          BY <1>5, <3>2, <4>1
        <4>3. QED
          BY <4>1, <4>2
      <3>5. QED
        BY <3>2, <3>3, <3>4
    <2>3. ~Half(u) /\ text[pos] = ">>"
      BY <1>3, <1>8 DEF Half
    <2> HIDE DEF v
    <2>4. Position(v) = pos /\ v # <<>>
      BY <1>1, <2>2 DEF Position
    <2>5. Half(v)
      BY <2>2, <2>3, <2>4 DEF Half
    <2>6. IsRest(v)
      <3>1. \A i \in 1..Len(v) : i = 1 \/ i \in 2..Len(u)
        BY <1>1, <2>2
      <3>2. QED
        BY <1>1, <1>4, <2>2, <2>4, <2>5, <3>1 DEF IsRest
    <2>7. TypeOf(u[1]) = ">"
      BY <1>8, LexerAssumption DEF TypeOf
    <2>8. QED
      BY <1>7, <2>3, <2>4, <2>5, <2>6, <2>7 DEF v
  <1>9. CASE ~(u[1] = ">>" /\ templateMode)
    <2>1. v = Tail(u)
      BY <1>2, <1>9 DEF AfterToken
    <2> HIDE DEF v
    <2>2. Position(v) = pos + 1
      BY <1>1, <1>5, <2>1 DEF Position
    <2>3. ASSUME NEW i \in 1..Len(v) PROVE v[i] = text[Position(v) - 1 + i]
      <3>1. i + 1 \in 2..Len(u) /\ i \in 1..(Len(u) - 1) /\ pos - 1 + (i + 1) = Position(v) - 1 + i
        BY <1>1, <1>5, <2>1, <2>2, SMTT(30)
      <3>2. QED
        BY <1>4, <1>5, <2>1, <3>1
    <2>4. IsRest(v)
      BY <1>1, <1>5, <2>1, <2>3 DEF IsRest
    <2>5. ~Half(v)
      <3>1. v # <<>> => 1 \in 1..Len(v) /\ Position(v) - 1 + 1 = Position(v)
        BY <1>1, <1>5, <2>1, <2>2, EmptySeq
      <3>2. QED
        BY <2>3, <3>1 DEF Half
    <2>6. Half(u) => TypeOf(u[1]) = ">"
      BY LexerAssumption DEF Half, TypeOf
    <2>7. ~Half(u) /\ text[pos] = ">>" => TypeOf(u[1]) # ">"
      BY <1>3, <1>9, LexerAssumption DEF TypeOf
    <2>8. QED
      BY <1>7, <2>2, <2>4, <2>5, <2>6, <2>7 DEF v
  <1>10. QED
    BY <1>8, <1>9

LEMMA EndIsFaithful ==
    ASSUME TypeOK, NEW u, IsRest(u), u = <<>>, NEW s, IsFaithful(s, u)
    PROVE  IsFaithful(Append(s, Eof), u)
  <1> DEFINE more == Append(s, Eof)
  <1>1. s \in Seq(Tokens \cup {Eof}) /\ Eof.at = 0 /\ ~Half(u) /\ Position(u) \in Nat
    BY Positions DEF IsFaithful, Eof, Half
  <1>2. /\ more \in Seq(Tokens \cup {Eof}) /\ Len(s) \in Nat
        /\ Len(more) = Len(s) + 1 /\ more[Len(s) + 1] = Eof
        /\ \A i \in 1..Len(s) : more[i] = s[i]
        /\ \A k : At(more, k) = At(s, k) \cup IF Eof.at = k THEN {Len(s) + 1} ELSE {}
    BY <1>1, TokensOfWord
  <1> HIDE DEF more
  <1>3. \A i \in 1..Len(more) : i \in 1..Len(s) \/ i = Len(s) + 1
    BY <1>2
  <1>4. ASSUME NEW k \in 1..(Position(u) - 1)
        PROVE  At(more, k) = At(s, k) /\ (IsSplit(more, k) <=> IsSplit(s, k))
    <2>0. ~(Eof.at = k)
      BY <1>1
    <2>1. At(more, k) = At(s, k)
      <3>1. At(more, k) = At(s, k) \cup IF Eof.at = k THEN {Len(s) + 1} ELSE {}
        BY <1>2
      <3>2. QED
        BY <2>0, <3>1
    <2>2. [type |-> ">", at |-> k] # Eof
      BY DEF Eof
    <2>3. (\E i \in 1..Len(more) : more[i] = [type |-> ">", at |-> k])
            <=> \E i \in 1..Len(s) : s[i] = [type |-> ">", at |-> k]
      BY <1>2, <1>3, <2>2
    <2>4. QED
      BY <2>1, <2>3 DEF IsSplit
  <1>5. ASSUME NEW i \in 1..Len(more)
        PROVE  \/ more[i] = Eof /\ u = <<>>
               \/ more[i] \in Tokens /\ more[i].at \in 1..(Position(u) - 1)
               \/ more[i] \in Tokens /\ more[i].at = Position(u) /\ Half(u)
    <2>1. CASE i \in 1..Len(s)
      BY <1>2, <2>1 DEF IsFaithful
    <2>2. CASE i = Len(s) + 1
      BY <1>2, <2>2
    <2>3. QED
      BY <1>3, <2>1, <2>2
  <1>6. ASSUME NEW i \in 1..Len(more), NEW j \in 1..Len(more), i < j, more[j] # Eof
        PROVE  more[i] # Eof /\ more[i].at <= more[j].at
    <2>1. i \in 1..Len(s) /\ j \in 1..Len(s)
      BY <1>2, <1>6
    <2>2. QED
      BY <1>2, <1>6, <2>1 DEF IsFaithful
  <1>7. \A k \in 1..(Position(u) - 1) \ Ignored :
           Cardinality(At(more, k)) = IF IsSplit(more, k) THEN 2 ELSE 1
    BY <1>4 DEF IsFaithful
  <1>8. IsFaithful(more, u)
    BY <1>1, <1>2, <1>5, <1>6, <1>7 DEF IsFaithful
  <1>9. QED
    BY <1>8 DEF more

LEMMA TokenIsFaithful ==
    ASSUME TypeOK, NEW u, IsRest(u), u # <<>>, NEW s, IsFaithful(s, u)
    PROVE  IsFaithful(Append(s, ScannedToken(u)), AfterToken(u))
  <1> DEFINE v == AfterToken(u)
             t == ScannedToken(u)
             pos == Position(u)
             more == Append(s, t)
  <1>1. /\ IsRest(v) /\ t.at = pos /\ t \in Tokens
        /\ \/ Half(v) /\ ~Half(u) /\ Position(v) = pos /\ t.type = ">"
           \/ /\ ~Half(v) /\ Position(v) = pos + 1
              /\ Half(u) => t.type = ">"
              /\ ~Half(u) /\ text[pos] = ">>" => t.type # ">"
    BY TokenIsPassed
  <1>2. /\ pos \in 1..Len(text) /\ Len(text) \in Nat /\ s \in Seq(Tokens \cup {Eof})
    BY Positions DEF IsFaithful
  <1> HIDE DEF v, t
  <1>3. /\ more \in Seq(Tokens \cup {Eof}) /\ Len(s) \in Nat
        /\ Len(more) = Len(s) + 1 /\ more[Len(s) + 1] = t
        /\ \A i \in 1..Len(s) : more[i] = s[i]
        /\ \A k : At(more, k) = At(s, k) \cup IF t.at = k THEN {Len(s) + 1} ELSE {}
    BY <1>1, <1>2, TokensOfWord
  <1> HIDE DEF more
  <1>4. \A i \in 1..Len(more) : i \in 1..Len(s) \/ i = Len(s) + 1
    BY <1>3
  <1>5. \A i \in 1..Len(s) : /\ s[i] \in Tokens /\ s[i].at \in 1..pos
                             /\ s[i].at = pos => Half(u)
    BY <1>2 DEF IsFaithful
  <1>6. \A x \in Tokens : x # Eof \/ x.at = 0
    BY DEF Eof
  <1>7. ASSUME NEW i \in 1..Len(more)
        PROVE  \/ more[i] \in Tokens /\ more[i].at \in 1..(Position(v) - 1)
               \/ more[i] \in Tokens /\ more[i].at = Position(v) /\ Half(v)
    <2>1. CASE i \in 1..Len(s)
      BY <1>1, <1>2, <1>3, <1>5, <2>1
    <2>2. CASE i = Len(s) + 1
      BY <1>1, <1>2, <1>3, <2>2
    <2>3. QED
      BY <1>4, <2>1, <2>2
  <1>8. ASSUME NEW i \in 1..Len(more), NEW j \in 1..Len(more), i < j
        PROVE  more[i] # Eof /\ more[i].at <= more[j].at
    <2>1. i \in 1..Len(s) /\ (j \in 1..Len(s) \/ j = Len(s) + 1)
      BY <1>3, <1>8
    <2>2. more[i] # Eof
      BY <1>3, <1>5, <1>6, <2>1
    <2>3. CASE j \in 1..Len(s)
      <3>1. s[j] # Eof
        BY <1>5, <1>6, <2>3
      <3>2. QED
        BY <1>3, <1>8, <2>1, <2>2, <2>3, <3>1 DEF IsFaithful
    <2>4. CASE j = Len(s) + 1
      BY <1>1, <1>2, <1>3, <1>5, <2>1, <2>2, <2>4
    <2>5. QED
      BY <2>1, <2>3, <2>4
  <1>9. ASSUME NEW k \in 1..(pos - 1)
        PROVE  At(more, k) = At(s, k) /\ (IsSplit(more, k) <=> IsSplit(s, k))
    <2>1. k # pos
      BY <1>2
    <2>2. At(more, k) = At(s, k)
      BY <1>1, <1>3, <2>1
    <2>3. [type |-> ">", at |-> k] # t
      BY <1>1, <2>1
    <2>4. (\E i \in 1..Len(more) : more[i] = [type |-> ">", at |-> k])
            <=> \E i \in 1..Len(s) : s[i] = [type |-> ">", at |-> k]
      BY <1>3, <1>4, <2>3
    <2>5. QED
      BY <2>2, <2>4 DEF IsSplit
  <1>10. \A k \in 1..(pos - 1) \ Ignored :
            Cardinality(At(more, k)) = IF IsSplit(more, k) THEN 2 ELSE 1
    BY <1>9 DEF IsFaithful
  <1>11. t = [type |-> t.type, at |-> pos]
    BY <1>1 DEF Tokens
  <1>12. ~Half(u) => At(more, pos) = {Len(s) + 1}
    <2>1. ~Half(u) => At(s, pos) = {}
      BY <1>5 DEF At
    <2>2. QED
      BY <1>1, <1>3, <2>1
  <1>13. CASE Half(v)
    <2>1. ~Half(u) /\ Position(v) = pos /\ t = [type |-> ">", at |-> pos]
      BY <1>1, <1>11, <1>13
    <2>2. Len(s) + 1 \in 1..Len(more)
      BY <1>3
    <2>3. \E i \in 1..Len(more) : /\ more[i] = [type |-> ">", at |-> Position(v)]
                                  /\ At(more, Position(v)) = {i}
      BY <1>3, <1>12, <2>1, <2>2
    <2>4. IsFaithful(more, v)
      BY <1>3, <1>7, <1>8, <1>10, <2>1, <2>3 DEF IsFaithful
    <2>5. QED
      BY <2>4 DEF more, t, v
  <1>14. CASE ~Half(v)
    <2>1. Position(v) = pos + 1
      BY <1>1, <1>14
    <2>2. Cardinality(At(more, pos)) = IF IsSplit(more, pos) THEN 2 ELSE 1
      <3>1. CASE Half(u)
        <4>1. PICK i \in 1..Len(s) : /\ s[i] = [type |-> ">", at |-> pos]
                                     /\ At(s, pos) = {i}
          BY <3>1 DEF IsFaithful
        <4>2. At(more, pos) = {i} \cup {Len(s) + 1} /\ Len(s) + 1 \notin {i}
          BY <1>1, <1>3, <4>1
        <4>3. Cardinality(At(more, pos)) = 2
          <5>1. IsFiniteSet({i}) /\ Cardinality({i}) = 1
            BY FS_Singleton
          <5>2. Cardinality({i} \cup {Len(s) + 1}) = Cardinality({i}) + 1
            BY <4>2, <5>1, FS_AddElement
          <5>3. QED
            BY <4>2, <5>1, <5>2
        <4>4. i \in 1..Len(more) /\ more[i] = [type |-> ">", at |-> pos]
          BY <1>3, <4>1
        <4>5. IsSplit(more, pos)
          BY <3>1, <4>4 DEF IsSplit, Half
        <4>6. QED
          BY <4>3, <4>5
      <3>2. CASE ~Half(u)
        <4>1. Cardinality(At(more, pos)) = 1
          BY <1>12, <3>2, FS_Singleton
        <4>2. ASSUME IsSplit(more, pos) PROVE FALSE
          <5>1. PICK i \in 1..Len(more) : more[i] = [type |-> ">", at |-> pos]
            BY <4>2 DEF IsSplit
          <5>2. i \in At(more, pos)
            BY <5>1 DEF At
          <5>3. t = [type |-> ">", at |-> pos]
            BY <1>3, <1>12, <3>2, <5>1, <5>2
          <5>4. text[pos] = ">>" /\ t.type = ">"
            BY <4>2, <5>3 DEF IsSplit
          <5>5. QED
            BY <1>1, <1>14, <3>2, <5>4
        <4>3. QED
          BY <4>1, <4>2
      <3>3. QED
        BY <3>1, <3>2
    <2>3. \A k \in 1..(Position(v) - 1) : k \in 1..(pos - 1) \/ k = pos
      BY <1>2, <2>1
    <2>4. \A k \in 1..(Position(v) - 1) \ Ignored :
             Cardinality(At(more, k)) = IF IsSplit(more, k) THEN 2 ELSE 1
      BY <1>10, <2>2, <2>3
    <2>5. IsFaithful(more, v)
      BY <1>3, <1>7, <1>8, <1>14, <2>4 DEF IsFaithful
    <2>6. QED
      BY <2>5 DEF more, t, v
  <1>15. QED
    BY <1>13, <1>14

-----------------------------------------------------------------------------
(* What comes through of a section *)

LEMMA SkippedFollows ==
    ASSUME TypeOK, NEW r, IsRest(r), StartsOutside(r), Unignored(r) # <<>>,
           Position(Unignored(r)) \in Ignored
    PROVE  FollowsSection(Position(Unignored(r)))
  <1> DEFINE u == Unignored(r)
             pos == Position(u)
  <1>1. IsRest(u) /\ u # <<>>
    BY SectionIsSkipped
  <1>2. pos \in 1..Len(text) /\ Len(text) \in Nat /\ Len(u) \in Nat \ {0}
    BY <1>1, Positions
  <1>3. PICK b \in SectionOf(pos) : TRUE
    BY DEF Ignored
  <1>4. b \in 1..pos /\ text[b] = "begin" /\ \A j \in b..(pos - 1) : text[j] # "end"
    BY <1>3 DEF SectionOf
  <1>5. CASE u = r /\ (r # <<>> => r[1] # "begin")
    <2>1. r[1] = text[pos] \/ Half(r)
      BY <1>1, <1>2, <1>5 DEF IsRest
    <2>2. b # pos
      BY <1>1, <1>4, <1>5, <2>1 DEF Half
    <2>3. b < pos
      BY <1>2, <1>4, <2>2
    <2>4. QED
      BY <1>1, <1>3, <1>5, <2>3 DEF StartsOutside
  <1>6. CASE /\ r # <<>> /\ Position(r) < pos /\ text[pos - 1] = "end"
             /\ \A k \in Position(r)..(pos - 1) : k \in Ignored
    <2>1. Position(r) \in Nat
      BY Positions
    <2>2. pos - 1 \in Ignored
      BY <1>2, <1>6, <2>1
    <2>3. b = pos
      <3>1. b # pos => pos - 1 \in b..(pos - 1)
        BY <1>2, <1>4
      <3>2. QED
        BY <1>4, <1>6, <3>1
    <2>4. QED
      BY <1>3, <1>6, <2>2, <2>3 DEF FollowsSection
  <1>7. QED
    BY <1>1, <1>5, <1>6, SectionIsSkipped

LEMMA ScanningFollows ==
    ASSUME TypeOK, NEW r, IsRest(r), StartsOutside(r),
           NEW s \in Seq(Tokens \cup {Eof}), LeaksFollow(s)
    PROVE  LeaksFollow(Append(s, NextToken(r))) /\ StartsOutside(AfterNext(r))
  <1> DEFINE u == Unignored(r)
             pos == Position(u)
             t == ScannedToken(u)
             v == AfterToken(u)
  <1>1. IsRest(u)
    BY SectionIsSkipped
  <1>2. t \in Tokens \cup {Eof}
    BY <1>1, TokenIsTyped
  <1>3. t.at \in Ignored => FollowsSection(t.at)
    <2>1. CASE u = <<>>
      BY <2>1 DEF ScannedToken, Eof, Ignored
    <2>2. CASE u # <<>>
      <3>1. t.at = pos
        BY <1>1, <2>2, TokenIsPassed
      <3>2. QED
        BY <2>2, <3>1, SkippedFollows
    <2>3. QED
      BY <2>1, <2>2
  <1>4. LeaksFollow(Append(s, t))
    <2>1. /\ Len(s) \in Nat /\ Len(Append(s, t)) = Len(s) + 1 /\ Append(s, t)[Len(s) + 1] = t
          /\ \A i \in 1..Len(s) : Append(s, t)[i] = s[i]
      BY <1>2, TokensOfWord
    <2> HIDE DEF t
    <2>2. \A i \in 1..Len(Append(s, t)) : i \in 1..Len(s) \/ i = Len(s) + 1
      BY <2>1
    <2>3. QED
      BY <1>3, <2>1, <2>2 DEF LeaksFollow
  <1>5. StartsOutside(v)
    <2>1. CASE u = <<>>
      BY <2>1 DEF AfterToken, StartsOutside
    <2>2. CASE u # <<>>
      <3>1. pos \in 1..Len(text) /\ Len(text) \in Nat
        BY <1>1, <2>2, Positions
      <3>2. IsRest(v) /\ (Position(v) = pos \/ Position(v) = pos + 1)
        BY <1>1, <2>2, TokenIsPassed
      <3> SUFFICES ASSUME v # <<>>, NEW b \in SectionOf(Position(v)), b < Position(v)
                   PROVE  FollowsSection(Position(v))
        BY DEF StartsOutside
      <3>3. b \in 1..Position(v) /\ text[b] = "begin"
            /\ \A j \in b..(Position(v) - 1) : text[j] # "end"
        BY DEF SectionOf
      <3>4. b \in SectionOf(pos)
        <4>1. b \in 1..pos
          BY <3>1, <3>2, <3>3
        <4>2. \A j \in b..(pos - 1) : j \in b..(Position(v) - 1)
          BY <3>1, <3>2, <3>3
        <4>3. QED
          BY <3>3, <4>1, <4>2 DEF SectionOf
      <3>5. FollowsSection(pos)
        <4>1. pos \in Ignored
          BY <3>1, <3>4 DEF Ignored
        <4>2. QED
          BY <2>2, <4>1, SkippedFollows
      <3>6. CASE Position(v) = pos
        BY <3>5, <3>6
      <3>7. CASE Position(v) = pos + 1
        <4>1. PICK c \in SectionOf(pos) : c - 1 \in Ignored /\ text[c - 1] = "end"
          BY <3>5 DEF FollowsSection
        <4>2. text[pos] # "end"
          BY <3>1, <3>3, <3>7
        <4>3. c \in 1..pos /\ text[c] = "begin" /\ \A j \in c..(pos - 1) : text[j] # "end"
          BY <4>1 DEF SectionOf
        <4>4. \A j \in c..(pos + 1 - 1) : j \in c..(pos - 1) \/ j = pos
          BY <3>1, <4>3
        <4>5. c \in SectionOf(pos + 1)
          BY <3>1, <4>2, <4>3, <4>4 DEF SectionOf
        <4>6. QED
          BY <3>7, <4>1, <4>5 DEF FollowsSection
      <3>8. QED
        BY <3>2, <3>6, <3>7
    <2>3. QED
      BY <2>1, <2>2
  <1>6. QED
    BY <1>4, <1>5 DEF NextToken, AfterNext

-----------------------------------------------------------------------------
(* The tokens s have been scanned, and r is left *)

Scans(s, r) == IsRest(r) /\ IsFaithful(s, r) /\ LeaksFollow(s) /\ StartsOutside(r)

LEMMA NextIsScanned ==
    ASSUME TypeOK, NEW r, NEW s, Scans(s, r)
    PROVE  /\ Scans(Append(s, NextToken(r)), AfterNext(r))
           /\ NextToken(r) \in Tokens \cup {Eof}
  <1> DEFINE u == Unignored(r)
  <1>1. IsRest(u) /\ IsFaithful(s, u)
    BY SectionIsSkipped, SkippingIsFaithful DEF Scans
  <1>2. NextToken(r) \in Tokens \cup {Eof}
    BY <1>1, TokenIsTyped DEF NextToken
  <1>3. IsRest(AfterNext(r)) /\ IsFaithful(Append(s, NextToken(r)), AfterNext(r))
    <2>1. CASE u = <<>>
      BY <1>1, <2>1, EndIsFaithful DEF NextToken, AfterNext, ScannedToken, AfterToken
    <2>2. CASE u # <<>>
      BY <1>1, <2>2, TokenIsPassed, TokenIsFaithful DEF NextToken, AfterNext
    <2>3. QED
      BY <2>1, <2>2
  <1>4. s \in Seq(Tokens \cup {Eof})
    BY DEF Scans, IsFaithful
  <1>5. QED
    BY <1>2, <1>3, <1>4, ScanningFollows DEF Scans

LEMMA EndIsDropped ==
    ASSUME TypeOK, NEW r, NEW s, Scans(s, r), NEW n \in Nat, Len(s) = n + 1, s[n + 1] = Eof
    PROVE  Scans(SubSeq(s, 1, n), r)
  <1> DEFINE All == Tokens \cup {Eof}
             less == SubSeq(s, 1, n)
  <1>1. less \in Seq(All) /\ Len(less) = n /\ \A i \in 1..n : less[i] = s[i]
    <2>1. s \in Seq(All)
      BY DEF Scans, IsFaithful
    <2>2. \A i \in 1..n : s[i] \in All
      <3> HIDE DEF All
      <3> QED
        BY <2>1, ElementOfSeq
    <2> HIDE DEF All
    <2>3. QED
      BY <2>2, SubSeqProperties
  <1> HIDE DEF less
  <1>2. \A i \in 1..(n + 1) : i \in 1..n \/ i = n + 1
    OBVIOUS
  <1>3. 1..n \subseteq 1..Len(s) /\ Position(r) \in Nat /\ Eof.at = 0
        /\ Position(r) >= 1 /\ n + 1 \in 1..Len(s)
    BY Positions DEF Scans, Eof
  <1>4. ASSUME NEW k \in 1..Position(r)
        PROVE  /\ At(less, k) = At(s, k) /\ (IsSplit(less, k) <=> IsSplit(s, k))
    <2>1. s[n + 1].at # k /\ s[n + 1] # [type |-> ">", at |-> k]
      BY <1>3 DEF Eof
    <2>2. At(less, k) = At(s, k)
      BY <1>1, <1>2, <1>3, <2>1 DEF At
    <2>3. (\E i \in 1..Len(less) : less[i] = [type |-> ">", at |-> k])
            <=> \E i \in 1..Len(s) : s[i] = [type |-> ">", at |-> k]
      BY <1>1, <1>2, <1>3, <2>1
    <2>4. QED
      BY <2>2, <2>3 DEF IsSplit
  <1>5. ~Half(r)
    BY <1>3 DEF Scans, IsFaithful, Half, Tokens
  <1>6. \A k \in 1..(Position(r) - 1) : k \in 1..Position(r)
    BY <1>3
  <1>7. \A k \in 1..(Position(r) - 1) \ Ignored :
           Cardinality(At(less, k)) = IF IsSplit(less, k) THEN 2 ELSE 1
    BY <1>4, <1>6 DEF Scans, IsFaithful
  <1>8. IsFaithful(less, r)
    BY <1>1, <1>3, <1>5, <1>7 DEF Scans, IsFaithful
  <1>9. LeaksFollow(less)
    BY <1>1, <1>3 DEF Scans, LeaksFollow
  <1>10. QED
    BY <1>8, <1>9 DEF Scans, less

\* The predicates speak of the text only.
LEMMA TextStays ==
    ASSUME text' = text, NEW s, NEW r, Scanned' = s, rest' = r, Scans(s, r)
    PROVE  Scans(Scanned, rest)'
  <1>1. Ignored' = Ignored /\ \A k : SectionOf(k)' = SectionOf(k)
    BY DEF Ignored, SectionOf
  <1>2. Position(rest)' = Position(r) /\ (Half(rest)' <=> Half(r))
    BY DEF Position, Half
  <1>3. IsRest(rest)'
    BY <1>2 DEF Scans, IsRest
  <1>4. \A k : IsSplit(Scanned, k)' <=> IsSplit(s, k)
    BY DEF IsSplit
  <1>5. IsFaithful(Scanned, rest)'
    BY <1>1, <1>2, <1>4 DEF Scans, IsFaithful, At
  <1>6. \A k : FollowsSection(k)' <=> FollowsSection(k)
    BY <1>1 DEF FollowsSection
  <1>7. LeaksFollow(Scanned)'
    BY <1>1, <1>6 DEF Scans, LeaksFollow
  <1>8. StartsOutside(rest)'
    BY <1>1, <1>2, <1>6 DEF Scans, StartsOutside
  <1>9. QED
    BY <1>3, <1>5, <1>7, <1>8 DEF Scans

-----------------------------------------------------------------------------
(* The steps of the lexer *)

\* The first of the queue goes to the end of what is delivered.
LEMMA HeadIsDelivered ==
    ASSUME NEW S, NEW p \in Seq(S), NEW q \in Seq(S), q # <<>>
    PROVE  Append(p, Head(q)) \o Tail(q) = p \o q
  <1>1. /\ Len(p) \in Nat /\ Len(q) \in Nat \ {0} /\ Head(q) = q[1] /\ Head(q) \in S
        /\ Tail(q) \in Seq(S) /\ Len(Tail(q)) = Len(q) - 1
        /\ \A i \in 1..(Len(q) - 1) : Tail(q)[i] = q[i + 1]
    BY HeadTailProperties, LenProperties, EmptySeq
  <1> DEFINE more == Append(p, Head(q))
  <1>2. /\ more \in Seq(S) /\ Len(more) = Len(p) + 1 /\ more[Len(p) + 1] = q[1]
        /\ \A i \in 1..Len(p) : more[i] = p[i]
    BY <1>1, AppendProperties
  <1> HIDE DEF more
  <1>3. /\ more \o Tail(q) \in Seq(S) /\ Len(more \o Tail(q)) = Len(p) + Len(q)
        /\ \A i \in 1..(Len(p) + Len(q)) :
              (more \o Tail(q))[i] = IF i <= Len(p) + 1 THEN more[i]
                                     ELSE Tail(q)[i - (Len(p) + 1)]
    <2>1. /\ more \o Tail(q) \in Seq(S) /\ Len(more \o Tail(q)) = Len(more) + Len(Tail(q))
          /\ \A i \in 1..(Len(more) + Len(Tail(q))) :
                (more \o Tail(q))[i] = IF i <= Len(more) THEN more[i]
                                       ELSE Tail(q)[i - Len(more)]
      BY <1>1, <1>2, ConcatProperties
    <2>2. Len(more) + Len(Tail(q)) = Len(p) + Len(q)
      BY <1>1, <1>2
    <2>3. QED
      BY <1>2, <2>1, <2>2
  <1>4. /\ p \o q \in Seq(S) /\ Len(p \o q) = Len(p) + Len(q)
        /\ \A i \in 1..(Len(p) + Len(q)) :
              (p \o q)[i] = IF i <= Len(p) THEN p[i] ELSE q[i - Len(p)]
    BY ConcatProperties
  <1>5. ASSUME NEW i \in 1..(Len(p) + Len(q)) PROVE (more \o Tail(q))[i] = (p \o q)[i]
    <2>1. CASE i <= Len(p)
      BY <1>1, <1>2, <1>3, <1>4, <2>1
    <2>2. CASE i = Len(p) + 1
      BY <1>1, <1>2, <1>3, <1>4, <2>2
    <2>3. CASE i > Len(p) + 1
      <3>1. i - (Len(p) + 1) \in 1..(Len(q) - 1) /\ i - (Len(p) + 1) + 1 = i - Len(p)
        BY <1>1, <2>3
      <3>2. (more \o Tail(q))[i] = Tail(q)[i - (Len(p) + 1)]
        BY <1>1, <1>3, <2>3
      <3>3. (p \o q)[i] = q[i - Len(p)]
        BY <1>1, <1>4, <2>3
      <3>4. QED
        BY <1>1, <3>1, <3>2, <3>3
    <2>4. i <= Len(p) \/ i = Len(p) + 1 \/ i > Len(p) + 1
      BY <1>1
    <2>5. QED
      BY <2>1, <2>2, <2>3, <2>4
  <1>6. QED
    BY <1>3, <1>4, <1>5, SeqEqual DEF more

LEMMA AppendBehind ==
    ASSUME NEW S, NEW p \in Seq(S), NEW q \in Seq(S), NEW e \in S
    PROVE  p \o Append(q, e) = Append(p \o q, e)
  <1>1. /\ Append(q, e) = q \o <<e>> /\ <<e>> \in Seq(S) /\ p \o q \in Seq(S)
        /\ Append(p \o q, e) = (p \o q) \o <<e>>
    BY AppendIsConcat, ConcatProperties
  <1>2. QED
    BY <1>1, ConcatAssociative

\* Behind the end of the text there is only the end of the text.
LEMMA OnlyEndsBehindEnd ==
    ASSUME TypeOK, Scans(Scanned, rest), queue # <<>>, Head(queue) = Eof
    PROVE  Scans(delivered \o Tail(queue), rest)
  <1> DEFINE All == Tokens \cup {Eof}
             n == Len(Scanned) - 1
             less == delivered \o Tail(queue)
  <1>1. delivered \in Seq(All) /\ queue \in Seq(All)
    BY SeqMonotonic DEF TypeOK
  <1>2. /\ Len(delivered) \in Nat /\ Len(queue) \in Nat \ {0} /\ queue[1] = Eof
        /\ Tail(queue) \in Seq(All) /\ Len(Tail(queue)) = Len(queue) - 1
        /\ \A i \in 1..(Len(queue) - 1) : Tail(queue)[i] = queue[i + 1]
    <2> HIDE DEF All
    <2> QED
      BY <1>1, HeadTailProperties, LenProperties, EmptySeq
  <1>3. /\ Scanned \in Seq(All) /\ Len(Scanned) = Len(delivered) + Len(queue)
        /\ \A i \in 1..(Len(delivered) + Len(queue)) :
              Scanned[i] = IF i <= Len(delivered) THEN delivered[i]
                           ELSE queue[i - Len(delivered)]
    <2> HIDE DEF All
    <2> QED
      BY <1>1, ConcatProperties DEF Scanned
  <1>4. /\ less \in Seq(All) /\ Len(less) = n
        /\ \A i \in 1..n : less[i] = IF i <= Len(delivered) THEN delivered[i]
                                     ELSE Tail(queue)[i - Len(delivered)]
    <2>1. /\ less \in Seq(All) /\ Len(less) = Len(delivered) + Len(Tail(queue))
          /\ \A i \in 1..(Len(delivered) + Len(Tail(queue))) :
                less[i] = IF i <= Len(delivered) THEN delivered[i]
                          ELSE Tail(queue)[i - Len(delivered)]
      <3> HIDE DEF All
      <3> QED
        BY <1>1, <1>2, ConcatProperties
    <2>2. n = Len(delivered) + Len(Tail(queue))
      BY <1>2, <1>3
    <2>3. QED
      BY <2>1, <2>2
  <1>5. n \in Nat /\ n + 1 = Len(Scanned)
    BY <1>2, <1>3
  <1> HIDE DEF less, n
  <1>6. ASSUME NEW i \in 1..Len(Scanned), i > Len(delivered) PROVE Scanned[i] = Eof
    <2>1. Len(delivered) + 1 \in 1..Len(Scanned) /\ Scanned[Len(delivered) + 1] = Eof
      BY <1>2, <1>3
    <2>2. i = Len(delivered) + 1 \/ i > Len(delivered) + 1
      BY <1>2, <1>6
    <2>3. QED
      BY <2>1, <2>2 DEF Scans, IsFaithful
  <1>7. Scans(SubSeq(Scanned, 1, n), rest)
    <2>1. Scanned[n + 1] = Eof
      BY <1>2, <1>3, <1>5, <1>6
    <2>2. QED
      BY <1>5, <2>1, EndIsDropped
  <1>8. /\ SubSeq(Scanned, 1, n) \in Seq(All) /\ Len(SubSeq(Scanned, 1, n)) = n
        /\ \A i \in 1..n : SubSeq(Scanned, 1, n)[i] = Scanned[i]
    <2>1. \A i \in 1..n : Scanned[i] \in All
      <3> HIDE DEF All
      <3> QED
        BY <1>3, <1>5, ElementOfSeq
    <2> HIDE DEF All
    <2>2. QED
      BY <1>5, <2>1, SubSeqProperties
  <1>9. ASSUME NEW i \in 1..n PROVE less[i] = Scanned[i]
    <2>1. CASE i <= Len(delivered)
      BY <1>3, <1>4, <1>5, <2>1, SMTT(30)
    <2>2. CASE i > Len(delivered)
      <3>1. /\ i - Len(delivered) \in 1..(Len(queue) - 1)
            /\ i + 1 \in 1..Len(Scanned) /\ i \in 1..Len(Scanned)
            /\ (i + 1) - Len(delivered) = i - Len(delivered) + 1
            /\ i + 1 > Len(delivered)
        BY <1>2, <1>3, <1>5, <2>2
      <3>2. less[i] = queue[i - Len(delivered) + 1]
        BY <1>2, <1>4, <2>2, <3>1
      <3>3. Scanned[i + 1] = queue[i - Len(delivered) + 1]
        BY <1>2, <1>3, <3>1
      <3>4. Scanned[i] = Eof /\ Scanned[i + 1] = Eof
        BY <1>2, <1>6, <2>2, <3>1
      <3>5. QED
        BY <3>2, <3>3, <3>4
    <2>3. QED
      BY <1>2, <1>5, <2>1, <2>2
  <1>10. less = SubSeq(Scanned, 1, n)
    <2> HIDE DEF All
    <2> QED
      BY <1>4, <1>8, <1>9, SeqEqual
  <1>11. QED
    BY <1>7, <1>10 DEF less

LEMMA DeliversStep ==
    ASSUME IInv, Delivers
    PROVE  TypeOK' /\ Scans(Scanned, rest)' /\ PromiseIsQueued'
  <1> DEFINE All == Tokens \cup {Eof}
  <1>0. /\ TypeOK /\ Scans(Scanned, rest) /\ text' = text /\ promised' = Invalid
        /\ templateMode' = templateMode /\ metaMode' = metaMode
    BY DEF IInv, Scans, Delivers
  <1>1. delivered \in Seq(All) /\ queue \in Seq(All) /\ delivered \in Seq(Tokens)
    BY SeqMonotonic DEF IInv, TypeOK
  <1>2. \A t \in All : t # Eof => t \in Tokens
    OBVIOUS
  <1>3. /\ token' \in All /\ queue' \in Seq(All) /\ delivered' \in Seq(Tokens)
        /\ \E s, r : s = Scanned' /\ r = rest' /\ Scans(s, r)
    <2>1. CASE queue # <<>>
      <3>1. /\ token' = Head(queue) /\ queue' = Tail(queue) /\ rest' = rest
            /\ Head(queue) \in All /\ Tail(queue) \in Seq(All)
        <4> HIDE DEF All
        <4> QED
          BY <1>1, <2>1, HeadTailProperties DEF Delivers, Advance
      <3>2. CASE token' = Eof
        <4>1. delivered' = delivered
          BY <3>2 DEF Delivers
        <4>2. Scanned' = delivered \o Tail(queue)
          BY <3>1, <4>1 DEF Scanned
        <4>3. Scans(delivered \o Tail(queue), rest)
          BY <1>0, <2>1, <3>1, <3>2, OnlyEndsBehindEnd
        <4>4. QED
          BY <1>1, <3>1, <4>1, <4>2, <4>3
      <3>3. CASE token' # Eof
        <4>1. delivered' = Append(delivered, Head(queue)) /\ Head(queue) \in Tokens
          BY <1>2, <3>1, <3>3 DEF Delivers
        <4>2. Scanned' = Append(delivered, Head(queue)) \o Tail(queue)
          BY <3>1, <4>1 DEF Scanned
        <4>3. Scanned' = Scanned
          <5> HIDE DEF All
          <5> QED
            BY <1>1, <2>1, <4>2, HeadIsDelivered DEF Scanned
        <4>4. delivered' \in Seq(Tokens)
          BY <1>1, <4>1, AppendProperties
        <4>5. QED
          BY <1>0, <3>1, <4>3, <4>4
      <3>4. QED
        BY <3>2, <3>3
    <2>2. CASE queue = <<>>
      <3>1. token' = NextToken(rest) /\ rest' = AfterNext(rest) /\ queue' = <<>>
        BY <2>2 DEF Delivers, Advance
      <3>2. /\ Scans(Append(Scanned, NextToken(rest)), AfterNext(rest))
            /\ NextToken(rest) \in All
        BY <1>0, NextIsScanned
      <3>3. Scanned = delivered
        <4> HIDE DEF All
        <4> QED
          BY <1>1, <2>2, ConcatEmptySeq DEF Scanned
      <3>4. CASE token' = Eof
        <4>1. delivered' = delivered /\ Scanned' = delivered
          <5>1. delivered' = delivered
            BY <3>4 DEF Delivers
          <5>2. QED
            BY <3>1, <3>3, <5>1, <2>2 DEF Scanned
        <4> DEFINE more == Append(delivered, Eof)
                   n == Len(delivered)
        <4>2. n \in Nat /\ Len(more) = n + 1 /\ more[n + 1] = Eof
              /\ \A i \in 1..n : more[i] = delivered[i]
          BY <1>1, TokensOfWord
        <4>3. SubSeq(more, 1, n) = delivered
          <5>1. \A i \in 1..n : delivered[i] \in All /\ more[i] \in All
            <6> HIDE DEF All
            <6> QED
              BY <1>1, <4>2, ElementOfSeq
          <5> HIDE DEF more, All
          <5>2. /\ SubSeq(more, 1, n) \in Seq(All) /\ Len(SubSeq(more, 1, n)) = n
                /\ \A i \in 1..n : SubSeq(more, 1, n)[i] = more[i]
            BY <4>2, <5>1, SubSeqProperties
          <5>3. QED
            BY <1>1, <4>2, <5>2, SeqEqual
        <4>4. Scans(more, rest')
          BY <3>1, <3>2, <3>3, <3>4
        <4>5. Scans(SubSeq(more, 1, n), rest')
          <5> HIDE DEF more
          <5> QED
            BY <1>0, <4>2, <4>4, EndIsDropped
        <4>6. QED
          BY <1>1, <2>2, <3>1, <3>2, <4>1, <4>3, <4>5
      <3>5. CASE token' # Eof
        <4>1. delivered' = Append(delivered, token') /\ token' \in Tokens
          BY <1>2, <3>1, <3>2, <3>5 DEF Delivers
        <4>2. delivered' \in Seq(Tokens) /\ delivered' \in Seq(All)
          BY <1>1, <4>1, AppendProperties, SeqMonotonic
        <4>3. Scanned' = delivered'
          <5> HIDE DEF All
          <5> QED
            BY <3>1, <4>2, ConcatEmptySeq DEF Scanned
        <4>4. QED
          BY <1>1, <2>2, <3>1, <3>2, <3>3, <4>1, <4>2, <4>3
      <3>6. QED
        BY <3>4, <3>5
    <2>3. QED
      BY <2>1, <2>2
  <1>4. Scans(Scanned, rest)'
    BY <1>0, <1>3, TextStays
  <1>5. rest' \in Seq(Letters) /\ Len(rest') <= Len(text')
    BY <1>4 DEF Scans, IsRest
  <1>6. answer' = token'
    BY DEF Delivers
  <1>7. TypeOK'
    BY <1>0, <1>3, <1>5, <1>6 DEF TypeOK, Letters
  <1>8. PromiseIsQueued'
    BY <1>0 DEF PromiseIsQueued
  <1>9. QED
    BY <1>4, <1>7, <1>8

-----------------------------------------------------------------------------
(* The tokens PeekToken scans *)

Found == {found \in Seq(Tokens \cup {Eof}) \X Seq(Letters) :
             Scans(delivered \o found[1], found[2])}
Further(found) == <<Append(found[1], NextToken(found[2])), AfterNext(found[2])>>

LEMMA FetchByRecursion ==
    ASSUME <<queue, rest>> \in Found, \A found \in Found : Further(found) \in Found
    PROVE  /\ Fetch[0] = <<queue, rest>>
           /\ \A n \in Nat : Fetch[n] \in Found /\ Fetch[n + 1] = Further(Fetch[n])
  <1> DEFINE next == [found \in Found |-> Further(found)]
             Equation(f) == f = [n \in Nat |-> IF n = 0 THEN <<queue, rest>>
                                               ELSE Further(f[n - 1])]
  <1>1. PICK f \in [Nat -> Found] : /\ f[0] = <<queue, rest>>
                                    /\ \A n \in Nat : f[n + 1] = next[f[n]]
    <2> DEFINE first == <<queue, rest>>
    <2>1. next \in [Found -> Found] /\ first \in Found
      OBVIOUS
    <2>2. \E f \in [Nat -> Found] : f[0] = first /\ \A n \in Nat : f[n + 1] = next[f[n]]
      <3> HIDE DEF next, Found, first
      <3> QED
          BY ONLY <2>1, FunctionByRecursion
    <2>3. QED
      BY <2>2
  <1>2. Equation(f)
    <2>1. \A n \in Nat : n # 0 => n - 1 \in Nat /\ (n - 1) + 1 = n
      OBVIOUS
    <2>2. \A n \in Nat : n # 0 => f[n] = Further(f[n - 1])
      <3> HIDE DEF Found
      <3> QED
        BY <1>1, <2>1
    <2>3. \A n \in Nat : f[n] = IF n = 0 THEN <<queue, rest>> ELSE Further(f[n - 1])
      BY <1>1, <2>2
    <2>4. QED
      BY <1>1, <2>3
  <1>3. Fetch = CHOOSE g : Equation(g)
    BY DEF Fetch, Further
  <1>4. Equation(Fetch)
    <2> HIDE DEF Equation
    <2> QED
      BY <1>2, <1>3
  <1> HIDE DEF Found
  <1>5. Fetch[0] = <<queue, rest>>
    BY <1>4
  <1>6. ASSUME NEW n \in Nat PROVE Fetch[n + 1] = Further(Fetch[n])
    <2>1. n + 1 \in Nat /\ n + 1 # 0 /\ (n + 1) - 1 = n
      OBVIOUS
    <2>2. QED
      BY <1>4, <2>1
  <1>7. Nat \subseteq {n \in Nat : Fetch[n] \in Found}
    <2> DEFINE S == {n \in Nat : Fetch[n] \in Found}
    <2>1. 0 \in S /\ \A n \in Nat : n \in S => n + 1 \in S
      BY <1>5, <1>6
    <2> HIDE DEF S
    <2>2. QED
      BY <2>1, AllNumbers DEF S
  <1>8. QED
    BY <1>5, <1>6, <1>7

LEMMA FurtherIsFound ==
    ASSUME TypeOK, NEW found \in Found
    PROVE  /\ Further(found) \in Found
           /\ Further(found)[1] = Append(found[1], NextToken(found[2]))
           /\ Len(Further(found)[1]) = Len(found[1]) + 1
           /\ \A i \in 1..Len(found[1]) : Further(found)[1][i] = found[1][i]
  <1> DEFINE All == Tokens \cup {Eof}
             q == found[1]
             r == found[2]
             t == NextToken(r)
  <1>1. q \in Seq(All) /\ Scans(delivered \o q, r)
    BY DEF Found
  <1>2. delivered \in Seq(All)
    BY SeqMonotonic DEF TypeOK
  <1>3. Scans(Append(delivered \o q, t), AfterNext(r)) /\ t \in All
    BY <1>1, NextIsScanned
  <1> HIDE DEF All, q, r, t
  <1>4. Append(delivered \o q, t) = delivered \o Append(q, t)
    <2>1. q \in Seq(All) /\ delivered \in Seq(All) /\ t \in All
      BY <1>1, <1>2, <1>3
    <2>2. \A p, s \in Seq(All), e \in All : p \o Append(s, e) = Append(p \o s, e)
      BY AppendBehind
    <2>3. QED
      BY <2>1, <2>2
  <1>5. /\ Append(q, t) \in Seq(All) /\ Len(Append(q, t)) = Len(q) + 1
        /\ \A i \in 1..Len(q) : Append(q, t)[i] = q[i]
    BY <1>1, <1>3, AppendProperties
  <1>6. AfterNext(r) \in Seq(Letters)
    BY <1>3 DEF Scans, IsRest
  <1>7. Further(found) = <<Append(q, t), AfterNext(r)>>
    BY DEF Further, q, r, t
  <1>8. <<Append(q, t), AfterNext(r)>> \in Found
    BY <1>3, <1>4, <1>5, <1>6 DEF Found, All
  <1>9. QED
    BY <1>5, <1>7, <1>8 DEF q, r, t

LEMMA FetchedIsScanned ==
    ASSUME IInv, NEW n \in Nat
    PROVE  /\ Fetch[n] \in Found
           /\ Len(Fetch[n][1]) = Len(queue) + n
           /\ \A i \in 1..Len(queue) : Fetch[n][1][i] = queue[i]
  <1>0. TypeOK /\ Len(queue) \in Nat
    BY LenProperties DEF IInv, TypeOK
  <1>1. <<queue, rest>> \in Found
    BY DEF IInv, TypeOK, Found, Scans, Scanned, Letters
  <1>2. /\ Fetch[0] = <<queue, rest>>
        /\ \A m \in Nat : Fetch[m] \in Found /\ Fetch[m + 1] = Further(Fetch[m])
    BY <1>0, <1>1, FurtherIsFound, FetchByRecursion
  <1> DEFINE Grows(m) == /\ Len(Fetch[m][1]) = Len(queue) + m
                         /\ \A i \in 1..Len(queue) : Fetch[m][1][i] = queue[i]
             S == {m \in Nat : Grows(m)}
  <1>3. 0 \in S
    <2>1. Fetch[0][1] = queue /\ Len(queue) + 0 = Len(queue)
      BY <1>0, <1>2
    <2>2. Grows(0)
      BY <2>1
    <2>3. QED
      BY <2>2
  <1>4. ASSUME NEW m \in Nat, m \in S PROVE m + 1 \in S
    <2>1. /\ Len(Fetch[m + 1][1]) = Len(Fetch[m][1]) + 1
          /\ \A i \in 1..Len(Fetch[m][1]) : Fetch[m + 1][1][i] = Fetch[m][1][i]
      <3> DEFINE before == Fetch[m]
      <3>1. before \in Found /\ Fetch[m + 1] = Further(before)
        BY <1>2
      <3> HIDE DEF before
      <3>2. /\ Len(Further(before)[1]) = Len(before[1]) + 1
            /\ \A i \in 1..Len(before[1]) : Further(before)[1][i] = before[1][i]
        BY <1>0, <3>1, FurtherIsFound
      <3>3. QED
        BY <3>1, <3>2 DEF before
    <2>2. Grows(m)
      BY <1>4
    <2>3. \A i \in 1..Len(queue) : i \in 1..Len(Fetch[m][1])
      BY <1>0, <2>2
    <2>4. Grows(m + 1)
      BY <1>0, <2>1, <2>2, <2>3
    <2>5. QED
      BY <2>4
  <1>5. Nat \subseteq S
    <2> HIDE DEF S
    <2> QED
      BY <1>3, <1>4, AllNumbers
  <1>6. QED
    BY <1>2, <1>5

LEMMA PeekStep ==
    ASSUME IInv, NEW offset \in Offsets, PeekToken(offset)
    PROVE  TypeOK' /\ Scans(Scanned, rest)' /\ PromiseIsQueued'
  <1> DEFINE All == Tokens \cup {Eof}
             q == Peeked(offset)[1]
             r == Peeked(offset)[2]
  <1>0. /\ TypeOK /\ Len(queue) \in Nat /\ offset \in Nat
        /\ queue \in Seq(All) /\ <<queue, rest>> \in Found
    BY LexerAssumption, LenProperties DEF IInv, TypeOK, Found, Scans, Scanned, Letters
  <1>1. /\ Peeked(offset) \in Found /\ Len(q) >= Len(queue) /\ Len(q) \in Nat
        /\ \A i \in 1..Len(queue) : q[i] = queue[i]
        /\ offset = 0 => Len(q) >= 1
        /\ Len(q) >= offset
    <2>1. CASE offset = 0
      <3>1. /\ Fetch[1] \in Found /\ Len(Fetch[1][1]) = Len(queue) + 1
            /\ \A i \in 1..Len(queue) : Fetch[1][1][i] = queue[i]
        BY FetchedIsScanned
      <3>2. Peeked(offset) = Fetch[1]
        BY <2>1 DEF Peeked
      <3> HIDE DEF All
      <3>3. QED
        BY <1>0, <2>1, <3>1, <3>2
    <2>2. CASE offset # 0 /\ offset <= Len(queue)
      BY <1>0, <2>2 DEF Peeked
    <2>3. CASE offset # 0 /\ ~(offset <= Len(queue))
      <3>1. offset - Len(queue) \in Nat /\ Peeked(offset) = Fetch[offset - Len(queue)]
        BY <1>0, <2>3 DEF Peeked
      <3>2. /\ Peeked(offset) \in Found /\ Len(q) = Len(queue) + (offset - Len(queue))
            /\ \A i \in 1..Len(queue) : q[i] = queue[i]
        BY <3>1, FetchedIsScanned
      <3>3. QED
        BY <1>0, <2>3, <3>2
    <2>4. QED
      BY <2>1, <2>2, <2>3
  <1> HIDE DEF q, r
  <1>2. q \in Seq(All) /\ Scans(delivered \o q, r)
    BY <1>1 DEF Found, q, r
  <1>3. /\ queue' = q /\ rest' = r /\ answer' = q[Place(offset, q)]
        /\ promised' = IF offset = 1 /\ Len(queue) <= 1 THEN answer' ELSE promised
        /\ UNCHANGED <<text, token, templateMode, metaMode, delivered>>
    BY DEF PeekToken, q, r
  <1>4. Scans(Scanned, rest)'
    <2>1. Scanned' = delivered \o q
      BY <1>3 DEF Scanned
    <2>2. QED
      BY <1>2, <1>3, <2>1, TextStays
  <1>5. Place(offset, q) \in 1..Len(q)
    BY <1>0, <1>1 DEF Place
  <1>6. answer' \in All
    <2> HIDE DEF All
    <2> QED
      BY <1>2, <1>3, <1>5, ElementOfSeq
  <1>7. rest' \in Seq(Letters) /\ Len(rest') <= Len(text')
    BY <1>4 DEF Scans, IsRest
  <1>8. TypeOK'
    BY <1>0, <1>2, <1>3, <1>6, <1>7 DEF TypeOK, Letters
  <1>9. PromiseIsQueued'
    <2>1. CASE offset = 1 /\ Len(queue) <= 1
      <3>1. Len(queue) = 0 \/ Len(queue) = 1
        <4>1. Len(queue) \in Nat /\ Len(queue) <= 1
          BY <1>0, <2>1
        <4>2. QED
          BY ONLY <4>1
      <3>2. Len(q) = 1 /\ Place(offset, q) = 1
        <4>1. CASE Len(queue) = 0
          <5>1. Peeked(offset) = Fetch[1]
            BY <2>1, <4>1 DEF Peeked
          <5>2. Len(q) = 1
            <6>1. Len(Fetch[1][1]) = Len(queue) + 1
              BY FetchedIsScanned
            <6>2. QED
              BY <4>1, <5>1, <6>1 DEF q
          <5>3. QED
            BY <2>1, <4>1, <5>2 DEF Place
        <4>2. CASE Len(queue) = 1
          <5>1. q = queue
            BY <2>1, <4>2 DEF Peeked, q
          <5>2. QED
            BY <2>1, <4>2, <5>1 DEF Place
        <4>3. QED
          BY <3>1, <4>1, <4>2
      <3>3. q # <<>>
        BY <3>2
      <3>4. QED
        BY <1>3, <2>1, <3>2, <3>3 DEF PromiseIsQueued
    <2>2. CASE ~(offset = 1 /\ Len(queue) <= 1)
      <3>1. promised' = promised
        BY <1>3, <2>2
      <3>2. queue # <<>> => 1 \in 1..Len(queue) /\ q # <<>>
        BY <1>0, <1>1, EmptySeq
      <3>3. QED
        BY <1>1, <1>3, <3>1, <3>2 DEF IInv, PromiseIsQueued
    <2>3. QED
      BY <2>1, <2>2
  <1>10. QED
    BY <1>4, <1>8, <1>9

Begins == /\ queue = <<>> /\ delivered = <<>>
          /\ token = Invalid /\ answer = Invalid /\ promised = Invalid
          /\ templateMode = FALSE /\ metaMode = FALSE

\* Of any text, also one that no bound on texts allows.
LEMMA NothingIsScanned ==
    ASSUME text \in Seq(Words), rest = text, Begins
    PROVE  IInv
  <1>1. text \in Seq(Words) /\ Len(text) \in Nat
    BY LenProperties
  <1>2. text \in Seq(Letters)
    BY <1>1, SeqMonotonic DEF Letters
  <1>3. TypeOK
    <2>1. rest \in Seq(Words \cup {">"}) /\ Len(rest) <= Len(text)
      BY <1>1, <1>2 DEF Letters
    <2>2. queue \in Seq(Tokens \cup {Eof}) /\ delivered \in Seq(Tokens)
      BY DEF Begins
    <2>3. /\ token = Invalid /\ answer = Invalid /\ promised = Invalid
          /\ templateMode \in BOOLEAN /\ metaMode \in BOOLEAN
      BY DEF Begins
    <2>4. QED
      BY <1>1, <2>1, <2>2, <2>3 DEF TypeOK
  <1>4. Position(rest) = 1 /\ rest = text
    BY <1>1 DEF Position
  <1>5. IsRest(rest)
    BY <1>1, <1>2, <1>4 DEF IsRest
  <1>6. Scanned = <<>>
    BY DEF Begins, Scanned
  <1>7. ~Half(rest)
    <2>1. rest # <<>> => rest[1] = text[Position(rest)]
      BY <1>4
    <2>2. QED
      BY <2>1 DEF Half
  <1>8. IsFaithful(Scanned, rest)
    BY <1>4, <1>6, <1>7 DEF IsFaithful
  <1>9. LeaksFollow(Scanned)
    BY <1>6 DEF LeaksFollow
  <1>10. StartsOutside(rest)
    BY <1>4 DEF StartsOutside, SectionOf
  <1>11. PromiseIsQueued
    BY DEF Begins, PromiseIsQueued
  <1>12. QED
    BY <1>3, <1>5, <1>8, <1>9, <1>10, <1>11 DEF IInv

LEMMA InitEstablishes == Init => IInv
  <1> SUFFICES ASSUME Init PROVE IInv
    OBVIOUS
  <1>1. PICK n \in Nat : text \in [1..n -> Words]
    BY LexerAssumption DEF Init
  <1>2. text \in Seq(Words)
    BY <1>1, SeqDef
  <1>3. QED
    BY <1>2, NothingIsScanned DEF Init, Begins

LEMMA IInvStep == IInv /\ [Next]_vars => IInv'
  <1> SUFFICES ASSUME IInv, [Next]_vars PROVE IInv'
    OBVIOUS
  <1>1. ASSUME UNCHANGED <<text, rest, queue, delivered, promised, token>>,
               answer' \in Tokens \cup {Eof, Invalid},
               templateMode' \in BOOLEAN, metaMode' \in BOOLEAN
        PROVE  IInv'
    <2>1. TypeOK'
      BY <1>1 DEF IInv, TypeOK
    <2>2. Scans(Scanned, rest)'
      <3>1. Scanned' = Scanned /\ rest' = rest
        BY <1>1 DEF Scanned
      <3>2. QED
        BY <1>1, <3>1, TextStays DEF IInv, Scans
    <2>3. PromiseIsQueued'
      BY <1>1 DEF IInv, PromiseIsQueued
    <2>4. QED
      BY <2>1, <2>2, <2>3 DEF IInv, Scans
  <1>2. CASE GetNextToken
    BY <1>2, DeliversStep DEF GetNextToken, IInv, Scans
  <1>3. CASE GetCurrToken
    <2>1. CASE Delivers
      BY <2>1, DeliversStep DEF IInv, Scans
    <2>2. CASE ~Delivers
      <3>1. answer' = token /\ UNCHANGED <<text, rest, queue, token, templateMode, metaMode,
                                           delivered, promised>>
        BY <1>3, <2>2 DEF GetCurrToken
      <3>2. QED
        BY <1>1, <3>1 DEF IInv, TypeOK
    <2>3. QED
      BY <2>1, <2>2
  <1>4. ASSUME NEW offset \in Offsets, PeekToken(offset) PROVE IInv'
    BY <1>4, PeekStep DEF IInv, Scans
  <1>5. ASSUME NEW state \in BOOLEAN, SetTemplateArgsParsingMode(state) PROVE IInv'
    BY <1>1, <1>5 DEF SetTemplateArgsParsingMode, IInv, TypeOK
  <1>6. ASSUME NEW state \in BOOLEAN, SetMetaTagParsingMode(state) PROVE IInv'
    BY <1>1, <1>6 DEF SetMetaTagParsingMode, IInv, TypeOK
  <1>7. CASE UNCHANGED vars
    BY <1>1, <1>7 DEF vars, IInv, TypeOK
  <1>8. QED
    BY <1>2, <1>3, <1>4, <1>5, <1>6, <1>7 DEF Next

-----------------------------------------------------------------------------
(* What holds of every text and every history of calls *)

LEMMA Invariance == Spec => []IInv
  BY InitEstablishes, IInvStep, PTL DEF Spec

\* The lexer keeps its types; in particular the answer of every call is a token, the
\* end of the text or, before the first token, the invalid one.
THEOREM TypeCorrect == Spec => []TypeOK
  <1>1. IInv => TypeOK
    BY DEF IInv
  <1>2. QED
    BY <1>1, Invariance, PTL

LEMMA TokensAreTheWords ==
    ASSUME IInv
    PROVE  ScannedIsText
  <1>1. \A i, j \in 1..Len(Scanned) :
           i < j /\ Scanned[j] # Eof => Scanned[i].at <= Scanned[j].at /\ Scanned[i] # Eof
    BY DEF IInv, IsFaithful
  <1>2. Passed = 1..(Position(rest) - 1)
    <2>1. Len(text) \in Nat /\ Len(rest) \in Nat
      BY Positions DEF IInv
    <2>2. QED
      BY <2>1 DEF Passed, Position
  <1>3. QED
    BY <1>1, <1>2 DEF IInv, IsFaithful, ScannedIsText, At, IsSplit

\* The tokens delivered and queued are the text that was read, but for the ignored
\* sections: in order, each word once, and a >> as one token or as its two halves.
THEOREM ScannedAreTheWords == Spec => []ScannedIsText
  BY Invariance, TokensAreTheWords, PTL

\* A word of an ignored section is delivered only if the section begins right
\* behind another one.
THEOREM LeaksAreOfAdjacentSections == Spec => []OnlyAdjacentSectionsLeak
  <1>1. ASSUME IInv PROVE OnlyAdjacentSectionsLeak
    <2> SUFFICES ASSUME NEW i \in 1..Len(delivered), delivered[i].at \in Ignored
                 PROVE  FollowsSection(delivered[i].at)
      BY DEF OnlyAdjacentSectionsLeak, FollowsSection
    <2> DEFINE All == Tokens \cup {Eof}
    <2>1. delivered \in Seq(All) /\ queue \in Seq(All)
      BY <1>1, SeqMonotonic DEF IInv, TypeOK
    <2>2. i \in 1..Len(Scanned) /\ Scanned[i] = delivered[i]
      <3> HIDE DEF All
      <3>1. Len(delivered) \in Nat /\ Len(queue) \in Nat
        BY <2>1, LenProperties
      <3>2. i \in 1..(Len(delivered) + Len(queue)) /\ i <= Len(delivered)
        BY <3>1
      <3>3. QED
        BY <2>1, <3>2, ConcatProperties DEF Scanned
    <2>3. QED
      BY <1>1, <2>2 DEF IInv, LeaksFollow
  <1>2. QED
    BY <1>1, Invariance, PTL

LEMMA NextTokenIsPromised ==
    ASSUME IInv, GetNextToken
    PROVE  promised \in {Invalid, token'}
  <1> SUFFICES ASSUME promised # Invalid PROVE token' = promised
    OBVIOUS
  <1>1. queue # <<>> /\ promised = queue[1] /\ queue \in Seq(Tokens \cup {Eof})
    BY DEF IInv, PromiseIsQueued, TypeOK
  <1>2. token' = Head(queue)
    BY <1>1 DEF GetNextToken, Delivers, Advance
  <1>3. QED
    BY <1>1, <1>2

\* GetNextToken gives the token PeekToken() returned, whatever was peeked at and
\* whatever mode was switched since.
THEOREM PeeksAreKept == Spec => PeekIsKept
  <1>1. IInv /\ [Next]_vars => [GetNextToken => promised \in {Invalid, token'}]_vars
    BY NextTokenIsPromised
  <1>2. QED
    BY <1>1, Invariance, PTL DEF Spec, PeekIsKept
=============================================================================
