--------------------------- MODULE InductionLemmas ---------------------------
(***************************************************************************)
(* Induction by sets: sets of numbers have a smallest and, if bounded, a    *)
(* largest element, a set that has 0 and every successor has all of them,  *)
(* and a function can be defined by what it is at 0 and from n to n + 1.   *)
(* The theorems of NaturalsInduction say this of operators.  The selection  *)
(* of Selections is proved from these.                                     *)
(***************************************************************************)
EXTENDS Selections, FiniteSetTheorems, SequenceTheorems, TLAPS

LEMMA SmallestNumber ==
    ASSUME NEW S \in SUBSET Nat, S # {}
    PROVE  \E m \in S : \A k \in S : m <= k
  <1> DEFINE Below == {1..k : k \in S}
             R == StrictSubsetOrdering(Nat)
  <1>1. Below \subseteq FiniteSubsetsOf(Nat) /\ Below # {}
    <2>1. \A k \in S : k \in Int /\ 1..k \in SUBSET Nat
      OBVIOUS
    <2>2. \A k \in S : IsFiniteSet(1..k)
      BY <2>1, FS_Interval
    <2>3. QED
      BY <2>1, <2>2 DEF FiniteSubsetsOf
  <1>2. PICK x \in Below : \A y \in Below : ~(<<y, x>> \in R)
    <2> HIDE DEF Below
    <2> QED
      BY <1>1, FS_StrictSubsetOrderingWellFounded, WFMin
  <1>3. PICK m \in S : x = 1..m
    BY <1>2
  <1>4. ASSUME NEW k \in S, k < m PROVE FALSE
    <2>1. 1..k \in Below /\ 1..k \in SUBSET Nat /\ 1..m \in SUBSET Nat
      OBVIOUS
    <2>2. 1..k \subseteq 1..m /\ m \in 1..m /\ m \notin 1..k
      BY <1>4
    <2>3. <<1..k, 1..m>> \in R
      BY <2>1, <2>2 DEF StrictSubsetOrdering
    <2>4. QED
      BY <1>2, <1>3, <2>1, <2>3
  <1>5. QED
    BY <1>4

LEMMA LargestNumber ==
    ASSUME NEW n \in Nat, NEW S \in SUBSET (0..n), S # {}
    PROVE  \E m \in S : \A k \in S : k <= m
  <1> DEFINE Distances == {n - k : k \in S}
  <1>1. Distances \in SUBSET Nat /\ Distances # {}
    <2>1. \A k \in S : n - k \in Nat
      OBVIOUS
    <2>2. QED
      BY <2>1
  <1>2. PICK d \in Distances : \A e \in Distances : d <= e
    <2> HIDE DEF Distances
    <2> QED
      BY <1>1, SmallestNumber
  <1>3. PICK m \in S : d = n - m
    OBVIOUS
  <1>4. \A k \in S : n - m <= n - k
    BY <1>2, <1>3
  <1>5. QED
    BY <1>4

LEMMA AllNumbers ==
    ASSUME NEW S, 0 \in S, \A n \in Nat : n \in S => n + 1 \in S
    PROVE  Nat \subseteq S
  <1> SUFFICES ASSUME Nat \ S # {} PROVE FALSE
    OBVIOUS
  <1>1. PICK m \in Nat \ S : \A k \in Nat \ S : m <= k
    BY SmallestNumber
  <1>2. m - 1 \in Nat /\ m - 1 \in S
    BY <1>1
  <1>3. m \in S
    BY <1>2
  <1>4. QED
    BY <1>1, <1>3

LEMMA FunctionByRecursion ==
    ASSUME NEW S, NEW first \in S, NEW next \in [S -> S]
    PROVE  \E f \in [Nat -> S] : f[0] = first /\ \A n \in Nat : f[n + 1] = next[f[n]]
  <1> DEFINE IsPart(f, n) == /\ f \in [0..n -> S] /\ f[0] = first
                             /\ \A i \in 0..(n - 1) : f[i + 1] = next[f[i]]
             Reached == {n \in Nat : \E f \in [0..n -> S] : IsPart(f, n)}
             Part(n) == CHOOSE f \in [0..n -> S] : IsPart(f, n)
  <1>1. Nat \subseteq Reached
    <2>1. 0 \in Reached
      <3>1. IsPart([i \in 0..0 |-> first], 0)
        OBVIOUS
      <3>2. QED
        BY <3>1
    <2>2. ASSUME NEW n \in Nat, n \in Reached PROVE n + 1 \in Reached
      <3>1. PICK f \in [0..n -> S] : IsPart(f, n)
        BY <2>2
      <3>0. 0..n \subseteq 0..(n + 1) /\ 0 \in 0..n /\ n \in 0..n /\ n + 1 \notin 0..n
        OBVIOUS
      <3> DEFINE g == [i \in 0..(n + 1) |-> IF i = n + 1 THEN next[f[n]] ELSE f[i]]
      <3>2. g \in [0..(n + 1) -> S] /\ g[0] = first
        <4>1. \A i \in 0..(n + 1) : i # n + 1 => i \in 0..n
          OBVIOUS
        <4>2. \A i \in 0..(n + 1) : g[i] \in S
          BY <3>0, <3>1, <4>1
        <4>3. QED
          BY <3>0, <3>1, <4>2
      <3>3. \A i \in 0..n : g[i + 1] = next[g[i]]
        <4>1. \A i \in 0..n : i \in 0..(n + 1) /\ i + 1 \in 0..(n + 1) /\ g[i] = f[i]
          OBVIOUS
        <4>2. \A i \in 0..n : i = n \/ i \in 0..(n - 1)
          OBVIOUS
        <4>3. ASSUME NEW i \in 0..n PROVE g[i + 1] = next[g[i]]
          <5>1. CASE i = n
            BY <4>1, <5>1
          <5>2. CASE i \in 0..(n - 1)
            <6>1. i + 1 # n + 1 /\ g[i + 1] = f[i + 1]
              BY <4>1, <5>2
            <6>2. QED
              BY <3>1, <4>1, <5>2, <6>1
          <5>3. QED
            BY <4>2, <5>1, <5>2
        <4>4. QED
          BY <4>3
      <3> HIDE DEF g
      <3>4. 0..((n + 1) - 1) = 0..n /\ n + 1 \in Nat
        OBVIOUS
      <3>5. IsPart(g, n + 1)
        BY <3>2, <3>3, <3>4
      <3>6. \E h \in [0..(n + 1) -> S] : IsPart(h, n + 1)
        BY <3>2, <3>5
      <3>7. QED
        BY <3>4, <3>6
    <2>3. QED
      <3> HIDE DEF Reached
      <3> QED
        BY <2>1, <2>2, AllNumbers
  <1>2. \A n \in Nat : IsPart(Part(n), n)
    BY <1>1
  <1>3. \A n, m \in Nat : \A i \in Nat : i <= n /\ i <= m => Part(n)[i] = Part(m)[i]
    <2> SUFFICES ASSUME NEW n \in Nat, NEW m \in Nat
                 PROVE  \A i \in Nat : i <= n /\ i <= m => Part(n)[i] = Part(m)[i]
      OBVIOUS
    <2> HIDE DEF Part
    <2> DEFINE Same == {i \in Nat : i <= n /\ i <= m => Part(n)[i] = Part(m)[i]}
    <2>1. 0 \in Same
      BY <1>2
    <2>2. ASSUME NEW i \in Nat, i \in Same PROVE i + 1 \in Same
      <3> SUFFICES ASSUME i + 1 <= n, i + 1 <= m PROVE Part(n)[i + 1] = Part(m)[i + 1]
        OBVIOUS
      <3>1. i \in 0..(n - 1) /\ i \in 0..(m - 1) /\ Part(n)[i] = Part(m)[i]
        BY <2>2
      <3>2. QED
        BY <1>2, <3>1
    <2>3. Nat \subseteq Same
      <3> HIDE DEF Same
      <3> QED
        BY <2>1, <2>2, AllNumbers
    <2>4. QED
      BY <2>3
  <1> HIDE DEF Part
  <1> DEFINE f == [n \in Nat |-> Part(n)[n]]
  <1>4. f \in [Nat -> S] /\ f[0] = first
    BY <1>2
  <1>5. ASSUME NEW n \in Nat PROVE f[n + 1] = next[f[n]]
    <2>1. Part(n + 1)[n + 1] = next[Part(n + 1)[n]]
      BY <1>2
    <2>2. Part(n + 1)[n] = Part(n)[n]
      BY <1>3
    <2>3. QED
      BY <2>1, <2>2
  <1>6. QED
    BY <1>4, <1>5

-----------------------------------------------------------------------------
(* What is selected *)

\* from has what is selected of every beginning of s.
Builds(from, s, Kept) ==
    /\ from[0] = <<>>
    /\ \A n \in 1..Len(s) : from[n] = IF s[n] \in Kept THEN Append(from[n - 1], s[n])
                                      ELSE from[n - 1]
    /\ Selected(s, Kept) = from[Len(s)]

LEMMA SelectedByRecursion ==
    ASSUME NEW S, NEW s \in Seq(S), NEW Kept
    PROVE  \E from \in [Nat -> Seq(S)] : Builds(from, s, Kept)
  <1> DEFINE State == Nat \X Seq(S)
             Taken(n, q) == IF n + 1 \in 1..Len(s) /\ s[n + 1] \in Kept
                            THEN Append(q, s[n + 1]) ELSE q
             next == [p \in State |-> <<p[1] + 1, Taken(p[1], p[2])>>]
             first == <<0, <<>>>>
             Equation(g) ==
                g = [n \in 0..Len(s) |-> IF n = 0 THEN <<>>
                                         ELSE IF s[n] \in Kept THEN Append(g[n - 1], s[n])
                                         ELSE g[n - 1]]
  <1>0. Len(s) \in Nat
    BY LenProperties
  <1>1. first \in State /\ next \in [State -> State]
    <2>1. \A n \in Nat, q \in Seq(S) : Taken(n, q) \in Seq(S)
      <3> SUFFICES ASSUME NEW n \in Nat, NEW q \in Seq(S) PROVE Taken(n, q) \in Seq(S)
        OBVIOUS
      <3>1. CASE n + 1 \in 1..Len(s)
        <4>1. s[n + 1] \in S
          BY <3>1, ElementOfSeq
        <4>2. Append(q, s[n + 1]) \in Seq(S)
          BY <4>1, AppendProperties
        <4>3. QED
          BY <4>2
      <3>2. CASE n + 1 \notin 1..Len(s)
        BY <3>2
      <3>3. QED
        BY <3>1, <3>2
    <2> HIDE DEF Taken
    <2>2. \A p \in State : p[1] \in Nat /\ p[2] \in Seq(S) /\ p[1] + 1 \in Nat
      OBVIOUS
    <2>3. \A p \in State : <<p[1] + 1, Taken(p[1], p[2])>> \in State
      BY <2>1, <2>2
    <2>4. first \in State
      <3>1. <<>> \in Seq(S) /\ 0 \in Nat
        OBVIOUS
      <3>2. QED
        BY <3>1
    <2> HIDE DEF State
    <2>5. QED
      BY <2>3, <2>4
  <1>2. PICK f \in [Nat -> State] : f[0] = first /\ \A n \in Nat : f[n + 1] = next[f[n]]
    <2>1. \E f \in [Nat -> State] : f[0] = first /\ \A n \in Nat : f[n + 1] = next[f[n]]
      <3> DEFINE Iterates(g, x, h) == h[0] = x /\ \A n \in Nat : h[n + 1] = g[h[n]]
      <3>1. \A T : \A x \in T : \A g \in [T -> T] : \E h \in [Nat -> T] : Iterates(g, x, h)
        BY FunctionByRecursion
      <3>2. \E h \in [Nat -> State] : Iterates(next, first, h)
        <4> HIDE DEF State, next, first, Iterates
        <4> QED
          BY ONLY <1>1, <3>1
      <3> HIDE DEF State, next, first
      <3>3. QED
        BY ONLY <3>2
    <2>2. QED
      BY <2>1
  <1> DEFINE from == [n \in Nat |-> f[n][2]]
  <1>3. from \in [Nat -> Seq(S)] /\ from[0] = <<>>
    <2>1. \A p \in State : p[2] \in Seq(S)
      OBVIOUS
    <2>2. first[2] = <<>>
      OBVIOUS
    <2> HIDE DEF State, next, first
    <2>3. QED
      BY <1>2, <2>1, <2>2
  <1>4. Nat \subseteq {n \in Nat : f[n][1] = n}
    <2> DEFINE C == {n \in Nat : f[n][1] = n}
    <2>1. \A p \in State : next[p][1] = p[1] + 1
      <3> HIDE DEF Taken
      <3> QED
        OBVIOUS
    <2>2. first[1] = 0
      OBVIOUS
    <2>3. 0 \in C /\ \A n \in Nat : n \in C => n + 1 \in C
      <3> HIDE DEF State, next, first
      <3>1. \A n \in Nat : f[n] \in State /\ f[n + 1][1] = f[n][1] + 1
        BY <1>2, <2>1
      <3>2. f[0][1] = 0
        BY <1>2, <2>2
      <3>3. \A n \in Nat : n + 1 \in Nat
        OBVIOUS
      <3>4. QED
        BY <3>1, <3>2, <3>3
    <2> HIDE DEF C
    <2>4. Nat \subseteq C
      BY <2>3, AllNumbers
    <2>5. QED
      BY <2>4 DEF C
  <1>5. ASSUME NEW n \in 1..Len(s)
        PROVE  from[n] = IF s[n] \in Kept THEN Append(from[n - 1], s[n]) ELSE from[n - 1]
    <2>1. n - 1 \in Nat /\ (n - 1) + 1 = n
      BY <1>0
    <2>2. f[n] = next[f[n - 1]]
      BY <1>2, <2>1
    <2>3. f[n - 1][1] = n - 1 /\ f[n - 1] \in State
      BY <1>2, <1>4, <2>1
    <2>4. f[n][2] = Taken(n - 1, f[n - 1][2])
      <3>1. \A p \in State : next[p][2] = Taken(p[1], p[2])
        <4> HIDE DEF Taken
        <4> QED
          OBVIOUS
      <3> HIDE DEF State, next, first, Taken
      <3>2. QED
        BY <2>2, <2>3, <3>1
    <2>5. Taken(n - 1, f[n - 1][2]) = IF s[n] \in Kept THEN Append(f[n - 1][2], s[n])
                                      ELSE f[n - 1][2]
      BY <2>1
    <2>6. QED
      <3> HIDE DEF Taken
      <3> QED
        BY <2>1, <2>4, <2>5
  <1> HIDE DEF from
  <1> DEFINE part == [n \in 0..Len(s) |-> from[n]]
  <1>6. Equation(part)
    <2>1. \A n \in 0..Len(s) : n # 0 => n \in 1..Len(s) /\ n - 1 \in 0..Len(s)
      BY <1>0
    <2>2. \A n \in 0..Len(s) : part[n] = IF n = 0 THEN <<>>
                                         ELSE IF s[n] \in Kept THEN Append(part[n - 1], s[n])
                                         ELSE part[n - 1]
      BY <1>3, <1>5, <2>1
    <2>3. QED
      BY <2>2
  <1> DEFINE From == CHOOSE g : Equation(g)
  <1>7. Equation(From)
    <2> HIDE DEF Equation, part
    <2> QED
      BY <1>6
  <1>8. Selected(s, Kept) = From[Len(s)]
    BY DEF Selected
  <1> HIDE DEF From
  <1>9. From[0] = <<>> /\ \A n \in 1..Len(s) :
           From[n] = IF s[n] \in Kept THEN Append(From[n - 1], s[n]) ELSE From[n - 1]
    <2>1. 0 \in 0..Len(s) /\ \A n \in 1..Len(s) : n \in 0..Len(s) /\ n # 0
      BY <1>0
    <2>2. QED
      BY <1>7, <2>1
  <1>10. Nat \subseteq {n \in Nat : n <= Len(s) => From[n] = from[n]}
    <2> DEFINE C == {n \in Nat : n <= Len(s) => From[n] = from[n]}
    <2>1. 0 \in C
      BY <1>3, <1>9
    <2>2. ASSUME NEW n \in Nat, n \in C PROVE n + 1 \in C
      <3>0. n + 1 \in Nat
        OBVIOUS
      <3> SUFFICES ASSUME n + 1 <= Len(s) PROVE From[n + 1] = from[n + 1]
        BY <3>0
      <3>1. n + 1 \in 1..Len(s) /\ (n + 1) - 1 = n /\ From[n] = from[n]
        BY <1>0, <2>2
      <3>2. QED
        BY <1>5, <1>9, <3>1
    <2> HIDE DEF C
    <2>3. Nat \subseteq C
      BY <2>1, <2>2, AllNumbers
    <2>4. QED
      BY <2>3 DEF C
  <1>11. Selected(s, Kept) = from[Len(s)]
    BY <1>0, <1>8, <1>10
  <1>12. QED
    BY <1>3, <1>5, <1>11 DEF Builds

\* at has the places in s of what is selected.
Picks(at, s, Kept) ==
    /\ Len(at) = Len(Selected(s, Kept))
    /\ \A i \in 1..Len(at) : Selected(s, Kept)[i] = s[at[i]] /\ s[at[i]] \in Kept
    /\ \A i, j \in 1..Len(at) : i < j => at[i] < at[j]
    /\ \A k \in 1..Len(s) : s[k] \in Kept => \E i \in 1..Len(at) : at[i] = k

LEMMA SelectedProperties ==
    ASSUME NEW S, NEW s \in Seq(S), NEW Kept
    PROVE  /\ Selected(s, Kept) \in Seq(S)
           /\ \E at \in Seq(1..Len(s)) : Picks(at, s, Kept)
  <1>0. Len(s) \in Nat
    BY LenProperties
  <1>1. PICK from \in [Nat -> Seq(S)] : Builds(from, s, Kept)
    BY SelectedByRecursion
  <1>2. /\ from[0] = <<>> /\ Selected(s, Kept) = from[Len(s)]
        /\ \A n \in 1..Len(s) : s[n] \in Kept => from[n] = Append(from[n - 1], s[n])
        /\ \A n \in 1..Len(s) : s[n] \notin Kept => from[n] = from[n - 1]
    BY <1>1 DEF Builds
  <1> DEFINE Selects(n, at) ==
                /\ Len(at) = Len(from[n])
                /\ \A i \in 1..Len(at) : from[n][i] = s[at[i]] /\ s[at[i]] \in Kept /\ at[i] <= n
                /\ \A i, j \in 1..Len(at) : i < j => at[i] < at[j]
                /\ \A k \in 1..n : s[k] \in Kept => \E i \in 1..Len(at) : at[i] = k
             C == {n \in Nat : n <= Len(s) => \E at \in Seq(1..Len(s)) : Selects(n, at)}
  <1>3. 0 \in C
    <2>1. Selects(0, <<>>) /\ <<>> \in Seq(1..Len(s))
      BY <1>2
    <2>2. QED
      BY <2>1
  <1>4. ASSUME NEW n \in Nat, n \in C PROVE n + 1 \in C
    <2>0. n + 1 \in Nat
      OBVIOUS
    <2> SUFFICES ASSUME n + 1 <= Len(s)
                 PROVE  \E at \in Seq(1..Len(s)) : Selects(n + 1, at)
      <3> HIDE DEF Selects
      <3> QED
        BY <2>0
    <2>1. /\ n + 1 \in 1..Len(s) /\ (n + 1) - 1 = n /\ n <= Len(s)
          /\ \A k \in 1..(n + 1) : k \in 1..n \/ k = n + 1
          /\ \A k \in Nat : k <= n => k <= n + 1 /\ k < n + 1
      BY <1>0, SMTT(30)
    <2>2. PICK at \in Seq(1..Len(s)) : Selects(n, at)
      BY <1>4, <2>1
    <2>3. CASE s[n + 1] \notin Kept
      <3>1. from[n + 1] = from[n]
        <4>1. from[n + 1] = from[(n + 1) - 1]
          BY <1>2, <2>1, <2>3
        <4>2. QED
          BY <2>1, <4>1
      <3>2. \A i \in 1..Len(at) : at[i] \in Nat
        <4>1. \A i \in 1..Len(at) : at[i] \in 1..Len(s)
          BY ElementOfSeq
        <4>2. 1..Len(s) \subseteq Nat
          BY <1>0
        <4>3. QED
          BY ONLY <4>1, <4>2
      <3>3. Selects(n + 1, at)
        BY <2>1, <2>2, <2>3, <3>1, <3>2
      <3>4. QED
        BY <3>3
    <2>4. CASE s[n + 1] \in Kept
      <3> DEFINE more == Append(at, n + 1)
      <3>1. from[n + 1] = Append(from[n], s[n + 1]) /\ from[n] \in Seq(S) /\ s[n + 1] \in S
        BY <1>2, <2>1, <2>4, ElementOfSeq
      <3>2. /\ Len(from[n]) \in Nat /\ Len(from[n + 1]) = Len(from[n]) + 1
            /\ \A i \in 1..Len(from[n]) : from[n + 1][i] = from[n][i]
            /\ from[n + 1][Len(from[n]) + 1] = s[n + 1]
        BY <3>1, LenProperties, AppendProperties
      <3>3. /\ more \in Seq(1..Len(s)) /\ Len(more) = Len(at) + 1
            /\ \A i \in 1..Len(at) : more[i] = at[i]
            /\ more[Len(at) + 1] = n + 1
        BY <2>1, AppendProperties
      <3> HIDE DEF more
      <3>4. /\ Len(at) \in Nat
            /\ \A i \in 1..Len(more) : i \in 1..Len(at) \/ i = Len(at) + 1
            /\ \A i \in 1..Len(at) : at[i] \in Nat
        <4>1. Len(at) \in Nat /\ \A i \in 1..Len(at) : at[i] \in 1..Len(s)
          BY LenProperties, ElementOfSeq
        <4>2. \A i \in 1..(Len(at) + 1) : i \in 1..Len(at) \/ i = Len(at) + 1
          <5>1. Len(at) \in Nat
            BY <4>1
          <5> DEFINE m == Len(at)
          <5> HIDE DEF m
          <5>2. m \in Nat => \A i \in 1..(m + 1) : i \in 1..m \/ i = m + 1
            OBVIOUS
          <5>3. QED
            BY <5>1, <5>2 DEF m
        <4>3. \A k \in 1..Len(s) : k \in Nat
          BY <1>0
        <4>4. QED
          BY <3>3, <4>1, <4>2, <4>3
      <3>5. \A i \in 1..Len(more) :
               from[n + 1][i] = s[more[i]] /\ s[more[i]] \in Kept /\ more[i] <= n + 1
        <4>1. ASSUME NEW i \in 1..Len(at)
              PROVE  from[n + 1][i] = s[more[i]] /\ s[more[i]] \in Kept /\ more[i] <= n + 1
          <5>1. from[n][i] = s[at[i]] /\ s[at[i]] \in Kept /\ at[i] <= n /\ at[i] \in Nat
            BY <2>2, <3>4
          <5>2. from[n + 1][i] = from[n][i] /\ more[i] = at[i]
            BY <2>2, <3>2, <3>3
          <5>3. QED
            BY <2>1, <5>1, <5>2
        <4>2. from[n + 1][Len(at) + 1] = s[n + 1] /\ more[Len(at) + 1] = n + 1
          BY <2>2, <3>2, <3>3
        <4>3. QED
          <5>1. n + 1 <= n + 1
            OBVIOUS
          <5>2. QED
            BY ONLY <2>4, <3>4, <4>1, <4>2, <5>1
      <3>6. \A i, j \in 1..Len(more) : i < j => more[i] < more[j]
        <4> SUFFICES ASSUME NEW i \in 1..Len(more), NEW j \in 1..Len(more), i < j
                     PROVE  more[i] < more[j]
          OBVIOUS
        <4>1. i \in 1..Len(at)
          BY <3>3, <3>4
        <4>2. CASE j \in 1..Len(at)
          BY <2>2, <3>3, <4>1, <4>2
        <4>3. CASE j = Len(at) + 1
          <5>1. more[i] = at[i] /\ at[i] <= n /\ at[i] \in Nat
            BY <2>2, <3>3, <3>4, <4>1
          <5>2. QED
            BY <2>1, <3>3, <4>3, <5>1
        <4>4. QED
          BY <3>4, <4>2, <4>3
      <3>7. \A k \in 1..(n + 1) : s[k] \in Kept => \E i \in 1..Len(more) : more[i] = k
        <4>1. Len(at) + 1 \in 1..Len(more) /\ \A i \in 1..Len(at) : i \in 1..Len(more)
          BY <3>3, <3>4
        <4>2. QED
          BY <2>1, <2>2, <3>3, <4>1
      <3>8. Selects(n + 1, more)
        BY <2>2, <3>2, <3>3, <3>5, <3>6, <3>7
      <3>9. QED
        BY <3>3, <3>8
    <2>5. QED
      BY <2>3, <2>4
  <1>5. Nat \subseteq C
    <2> HIDE DEF C
    <2> QED
      BY <1>3, <1>4, AllNumbers
  <1>6. PICK at \in Seq(1..Len(s)) : Selects(Len(s), at)
    <2> HIDE DEF Selects
    <2>1. Len(s) \in C
      <3> HIDE DEF C
      <3> QED
        BY <1>0, <1>5
    <2>2. Len(s) <= Len(s)
      BY <1>0
    <2>3. QED
      BY <2>1, <2>2
  <1>7. Selected(s, Kept) \in Seq(S)
    BY <1>0, <1>2
  <1>8. /\ Len(at) = Len(Selected(s, Kept))
        /\ \A i \in 1..Len(at) : Selected(s, Kept)[i] = s[at[i]] /\ s[at[i]] \in Kept
    BY <1>2, <1>6
  <1>9. \A i, j \in 1..Len(at) : i < j => at[i] < at[j]
    BY <1>6
  <1>10. \A k \in 1..Len(s) : s[k] \in Kept => \E i \in 1..Len(at) : at[i] = k
    BY <1>6
  <1> HIDE DEF Selects
  <1>11. QED
    BY <1>7, <1>8, <1>9, <1>10 DEF Picks

\* One more element at the end is selected, or it is not.
LEMMA SelectedOfAppend ==
    ASSUME NEW S, NEW s \in Seq(S), NEW x \in S, NEW Kept
    PROVE  Selected(Append(s, x), Kept) =
              IF x \in Kept THEN Append(Selected(s, Kept), x) ELSE Selected(s, Kept)
  <1> DEFINE t == Append(s, x)
             n == Len(s)
  <1>1. n \in Nat /\ t \in Seq(S) /\ Len(t) = n + 1 /\ t[n + 1] = x
        /\ \A i \in 1..n : t[i] = s[i]
    BY LenProperties, AppendProperties
  <1> HIDE DEF t, n
  <1>2. PICK f \in [Nat -> Seq(S)] : Builds(f, s, Kept)
    BY SelectedByRecursion
  <1>3. PICK g \in [Nat -> Seq(S)] : Builds(g, t, Kept)
    BY <1>1, SelectedByRecursion
  <1>4. /\ f[0] = <<>> /\ Selected(s, Kept) = f[n]
        /\ \A i \in 1..n : f[i] = IF s[i] \in Kept THEN Append(f[i - 1], s[i]) ELSE f[i - 1]
    BY <1>2 DEF Builds, n
  <1>5. /\ g[0] = <<>> /\ Selected(t, Kept) = g[n + 1]
        /\ \A i \in 1..(n + 1) :
              g[i] = IF t[i] \in Kept THEN Append(g[i - 1], t[i]) ELSE g[i - 1]
    BY <1>1, <1>3 DEF Builds
  <1> DEFINE C == {i \in Nat : i <= n => g[i] = f[i]}
  <1>6. 0 \in C
    BY <1>4, <1>5
  <1>7. ASSUME NEW i \in Nat, i \in C PROVE i + 1 \in C
    <2>0. i + 1 \in Nat
      OBVIOUS
    <2> SUFFICES ASSUME i + 1 <= n PROVE g[i + 1] = f[i + 1]
      BY <2>0
    <2>1. i + 1 \in 1..n /\ i + 1 \in 1..(n + 1) /\ (i + 1) - 1 = i /\ g[i] = f[i]
      BY <1>1, <1>7
    <2>2. t[i + 1] = s[i + 1]
      BY <1>1, <2>1
    <2>3. QED
      BY <1>4, <1>5, <2>1, <2>2
  <1>8. n \in C
    <2> HIDE DEF C
    <2>1. Nat \subseteq C
      BY <1>6, <1>7, AllNumbers
    <2>2. QED
      BY <1>1, <2>1
  <1>9. g[n] = f[n]
    BY <1>1, <1>8
  <1>10. g[n + 1] = IF x \in Kept THEN Append(g[n], x) ELSE g[n]
    <2>0. n \in Nat
      BY <1>1
    <2>1. n + 1 \in 1..(n + 1) /\ (n + 1) - 1 = n
      BY ONLY <2>0
    <2>2. QED
      BY <1>1, <1>5, <2>1
  <1>11. QED
    BY <1>4, <1>5, <1>9, <1>10 DEF t

LEMMA NothingSelected ==
    ASSUME NEW Kept
    PROVE  Selected(<<>>, Kept) = <<>>
  <1>1. <<>> \in Seq({}) /\ Len(<<>>) = 0
    OBVIOUS
  <1>2. PICK f \in [Nat -> Seq({})] : Builds(f, <<>>, Kept)
    BY <1>1, SelectedByRecursion
  <1>3. QED
    BY <1>1, <1>2 DEF Builds
=============================================================================
