-------------------------- MODULE MCHeaderSearch --------------------------
(* HeaderSearch for TLC: short command lines over a small tree with a link   *)
(* to a directory and one to a header, and over one with a link to nowhere.  *)
EXTENDS HeaderSearch, TLC

Dir(names) == <<"root">> \o names

Tree == [directories |-> {Dir(<<>>), Dir(<<"src">>), Dir(<<"src", "gen.h">>)},
         files |-> {Dir(<<"src", "a.h">>), Dir(<<"src", "metadata.h">>),
                    Dir(<<"src", "gen.h", "b.hpp">>), Dir(<<"src", "c.cpp">>)},
         links |-> Dir(<<"copy">>) :> Dir(<<"src">>)
                   @@ Dir(<<"src", "link.h">>) :> Dir(<<"src", "a.h">>)]
Broken == [Tree EXCEPT !.links = Dir(<<"src", "gone">>) :> Dir(<<"lost">>)]
MCDisks == {Tree, Broken}

MCHeaderNames == {"a.h", "b.hpp", "metadata.h", "link.h", "gen.h", "lost.h"}
MCPartOf == [s \in {"metadata.h", "gen", "link", "out"} |->
                CASE s = "metadata.h" -> {"metadata.h"}
                  [] s = "gen" -> {"gen.h"}
                  [] s = "link" -> {"link.h"}
                  [] s = "out" -> {}]

\* "b.*hpp" is good for "b.hpp", and "g.*hpp" for "gen.h/b.hpp".
MCDotted == [name \in {"b.hpp", "g.hpp"} |->
                CASE name = "b.hpp" -> [whole |-> {"b.hpp"}, front |-> {"b.hpp"}, back |-> {"b.hpp"}]
                  [] name = "g.hpp" -> [whole |-> {"g.hpp"}, front |-> {"gen.h"}, back |-> {"b.hpp"}]]

Arg(kind, values) == {[kind |-> kind, value |-> v] : v \in values}
Sources == Arg("source", {<<"src">>, <<".", "src", "a.h">>, <<"copy">>, <<"lost.h">>,
                          <<".", "src", "*">>, <<"root", "src", "*", "b.hpp">>,
                          <<"src", "*", "b.hpp">>, <<".", "*", "g.hpp">>, <<"lost", "*">>})
Switches == Arg("outfile", {"out"}) \cup Arg("cache-dir", {"gen"})
            \cup Arg("exclude-paths", {<<"link">>, <<"gen", "link">>})
Threads == Arg("num-threads", {-1, 0, 65536, 65537, 1073741824})

MCArguments == Sources \cup Switches \cup Threads

MCCommandLines == UNION {[1..n -> Sources] : n \in 0..2}
                  \cup {<<s, t>> : s \in Sources, t \in Switches \cup Threads}
                  \cup {<<s, t, u>> : s \in Sources, t \in Sources, u \in Switches}
=============================================================================
