------------------------------ MODULE MCParser ------------------------------
(* Parser for TLC: headers put together from declarations, with the types   *)
(* they declare, and the same headers with one word missing.                *)
EXTENDS Parser, TLC

Identifiers == {"A", "B", "E", "N", "s", "x", "y", "f"}

Decl(words, declares) ==
    [words |-> words, known |-> TRUE, declares |-> declares, spaces |-> {}]

Rec(kind, path, members) ==
    [path |-> path, kind |-> kind, forward |-> FALSE, tagged |-> FALSE,
     members |-> members, section |-> None]
Cls(path, members) == Rec("class", path, members)
Enm(path, members) == Rec("enum", path, members)
Forward(type) == [type EXCEPT !.forward = TRUE]
TaggedAs(type, section) == [type EXCEPT !.tagged = TRUE, !.section = section]

A == <<"A">>
B == <<"B">>
E == <<"E">>

Field == <<"{", "x", "y", ";", "}">>
AnyArgs == <<"template", "<", "class", "B", "=", "s", "<", "s", ">>">>

Simple == {
    Decl(<<"x", "y", ";">>, {}),
    Decl(<<"x", "f", "(", "class", "B", "y", ")", "{", "{", "}", "}">>, {}),
    Decl(<<"typedef", "x", "y", ";">>, {}),
    Decl(<<"typedef", "class", "A">> \o Field \o <<"B", ";">>, {Cls(<<A>>, <<"y">>)}),
    Decl(<<"class", "A", ";">>, {Forward(Cls(<<A>>, <<>>))}),
    Decl(<<"class", "A", ";", "class", "A">> \o Field \o <<";">>, {Cls(<<A>>, <<"y">>)}),
    \* The fresh type of the second declaration takes the place of the first.
    Decl(<<"class", "A">> \o Field \o <<";", "class", "A", ";">>,
         {Forward(Cls(<<A>>, <<>>))}),
    Decl(<<"class", "A", "{", "public", ":", "x", "f", "(", ")", "{", "}",
           "x", "y", ",", "s", "=", "x", ";", "}", ";">>, {Cls(<<A>>, <<"y", "s">>)}),
    Decl(<<"class", "B", "final", ":", "public", "A", "<", "A", "<", "s", ">>", ",",
           "virtual", ":", ":", "s", "{", "x", "f", "(", ")", ";", "}", ";">>, {Cls(<<B>>, <<>>)}),
    Decl(<<"enum", "E", "{", "x", ",", "y", "=", "A", "}", ";">>, {Enm(<<E>>, <<"x", "y">>)}),
    Decl(<<"enum", "class", "E", ":", "x", ";">>, {Forward(Enm(<<E>>, <<>>))})}

Compound == {
    Decl(AnyArgs \o <<"class", "A">> \o Field \o <<";">>, {Cls(<<A>>, <<"y">>)}),
    Decl(AnyArgs \o <<"x", "f", "(", ")", "{", "}">>, {}),
    Decl(AnyArgs \o <<"using", "A", "=", "B", ";">>, {}),
    Decl(<<"template", "<", ">", "class", "A", "<", "s", ">">> \o Field \o <<";">>,
         {Cls(<<<<"A", "<", "s", ">">>>>, <<"y">>)}),
    Decl(<<"ENUM_META", "(", "SECTION", "=", "s", ")", "enum", "E", "{", "x", "}", ";">>,
         {TaggedAs(Enm(<<E>>, <<"x">>), "s")}),
    \* A tag without a section is in that of the tag before.
    Decl(<<"ENUM_META", "(", "SECTION", "=", "y", ")", "enum", "s", "{", "}", ";",
           "CLASS_META", "(", "FLAGS", "=", "ALL_FIELDS", ")", "class", "x", "{", "}", ";">>,
         {TaggedAs(Enm(<<<<"s">>>>, <<>>), "y"), TaggedAs(Cls(<<<<"x">>>>, <<>>), "y")}),
    Decl(<<"CLASS_META", "(", "SECTION", "=", "x", ",", "FLAGS", "=", "ALL_FIELDS", "|",
           "MARKED_ONLY", ")", "class", "B", "{", "FIELD_META", "(", "NAME", "=", "s", ")",
           "x", "y", ";", "}", ";">>, {TaggedAs(Cls(<<B>>, <<"y">>), "x")}),
    Decl(<<"class", "A", "{", "enum", "E", "{", "x", "}", ";", "class", "B">> \o Field \o
         <<";", "typedef", "x", "y", ";">> \o AnyArgs \o
         <<"class", "s", "{", "}", ";", "SECTION", "f", ";", "}", ";">>,
         {Cls(<<A>>, <<"f">>), Enm(<<A, E>>, <<"x">>), Cls(<<A, B>>, <<"y">>),
          Cls(<<A, <<"s">>>>, <<>>)})}

Empty == Decl(<<>>, {})

Paths(h) == {r.path : r \in h.declares}

Then(h, g) ==
    [words |-> h.words \o g.words, declares |-> h.declares \cup g.declares,
     spaces |-> h.spaces \cup g.spaces,
     known |-> h.known /\ g.known /\ Paths(h) \cap Paths(g) = {}
               /\ h.spaces \cap g.spaces = {}]

In(name, h) ==
    [h EXCEPT !.words = <<"namespace", name, "{">> \o @ \o <<"}">>,
              !.declares = {[r EXCEPT !.path = <<<<name>>>> \o @] : r \in @},
              !.spaces = {name}]
Unnamed(h) == [h EXCEPT !.words = <<"namespace", "{">> \o @ \o <<"}">>]

Without(h, k) ==
    [h EXCEPT !.words = SubSeq(@, 1, k - 1) \o SubSeq(@, k + 1, Len(@)), !.known = FALSE]
Damaged(S) == UNION {{Without(h, k) : k \in 1..Len(h.words)} : h \in S}

All == Simple \cup Compound
Pairs == {Then(h, g) : h, g \in All}
Whole == Pairs \cup {In("N", h) : h \in Pairs}
         \cup {Then(In("N", Unnamed(h)), g) : h, g \in Simple}
         \cup {Then(In("N", h), In("B", h)) : h \in All}

MCHeaders == Whole \cup Damaged(All \cup {Then(In("N", h), h) : h \in All})

\* The same namespace twice in one header, and an enumeration declared twice.
Reopened == {Then(In("N", h), In("N", g)) : h, g \in Simple}
=============================================================================
