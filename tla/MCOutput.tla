------------------------------ MODULE MCOutput ------------------------------
(* Two headers with up to three types in the first and two in the second,    *)
(* each parsed or read from the cache of an earlier run.                    *)
EXTENDS Output, TLC

MCIds == {"A", "B", "C", "D", "E"}

Upper == ("common" :> "COMMON" @@ "Common" :> "COMMON" @@ "tools" :> "TOOLS")

Plain == [id |-> "A", name |-> <<"A">>, parent |-> <<>>, kind |-> "class",
          forward |-> FALSE, template |-> FALSE, hidden |-> FALSE,
          tagged |-> FALSE, section |-> "none"]

\* A class or a structure with each of its peculiarities.
Outer(id) ==
    LET t == [Plain EXCEPT !.id = id, !.name = <<id>>] IN
    {t, [t EXCEPT !.template = TRUE], [t EXCEPT !.forward = TRUE],
     [t EXCEPT !.kind = "struct", !.tagged = TRUE, !.section = "common"]}

\* A type inside p.  The parser takes the parent of an enumeration from the scope
\* of the enumeration itself, which has no type yet (parser.cpp:451).
Inner(p) ==
    LET t == [Plain EXCEPT !.id = "B", !.name = p.name \o <<"B">>, !.parent = p.name]
        e == [t EXCEPT !.kind = "enum", !.parent = <<>>]
    IN  IF p.forward THEN {}
        ELSE {t, [t EXCEPT !.hidden = TRUE],
              [t EXCEPT !.tagged = TRUE, !.section = "Common"],
              e, [e EXCEPT !.tagged = TRUE, !.section = "tools"]}

Enums == LET t == [Plain EXCEPT !.id = "C", !.name = <<"C">>, !.kind = "enum"] IN
         {t, [t EXCEPT !.forward = TRUE],
          [t EXCEPT !.tagged = TRUE, !.section = "common"]}

\* A type inside a class inside a class.
Deepest(n) == LET t == [Plain EXCEPT !.id = "E", !.name = n.name \o <<"E">>, !.parent = n.name]
              IN  IF n.kind = "enum" THEN {} ELSE {t, [t EXCEPT !.kind = "enum", !.parent = <<>>]}

Parsed1 ==
    LET pairs == UNION {{<<p, n>> : n \in Inner(p)} : p \in Outer("A")}
        deep == UNION {{s \o <<d>> : d \in Deepest(s[2])} : s \in pairs}
    IN  {<<p>> : p \in Outer("A")} \cup pairs \cup deep
        \cup UNION {{s \o <<e>>, <<e>> \o s} : s \in pairs, e \in Enums}

\* The second header has its own types, and perhaps declares those of the first.
Parsed2 == {<<>>} \cup {<<o>> : o \in Outer("A") \cup Enums}
           \cup {<<o, e>> : o \in Outer("D"), e \in Enums}

\* Every type is of one kind and defined in one header.
AgreeOn(t, u) == t.name = u.name =>
    (t.forward \/ u.forward) /\ (t.kind = "enum" <=> u.kind = "enum")

MCTables == {ts \in Parsed1 \X Parsed2 :
                \A t \in ToSet(ts[1]), u \in ToSet(ts[2]) : AgreeOn(t, u)}

MCOptions ==
    [flags : {{"enum", "struct"}, Kinds}, taggedOnly : BOOLEAN,
     excluded : {{}, {"B"}}]
=============================================================================
