------------------------------ MODULE MCScanner ------------------------------
(* Scanner for TLC: short texts over small alphabets, one for each group of  *)
(* the scanner's functions.                                                 *)
EXTENDS Scanner, TLC

Upto(n, chars) == UNION {[1..k -> chars] : k \in 0..n}

Comments == {"/", "*", "nl", " ", "a"}
Directives == {"#", "bs", "nl", "cr", "a"}
Symbols == {">", "k", " ", ";"}
Marks == {"b", "e", " ", "/"}

Behind(begin, texts) == {begin \o t : t \in texts}

\* All short texts, and longer ones behind the beginning of a comment or directive.
SymbolTexts == Upto(4, Symbols)
CommentTexts == Upto(5, Comments)
MCTexts == SymbolTexts \cup Upto(4, Comments) \cup Upto(5, Marks)
           \cup Behind(<<"/", "*">>, Upto(5, Comments))
           \cup Behind(<<" ", "/", "/">>, Upto(4, Comments))
           \cup Behind(<<"a", "/", "/">>, Upto(3, Comments))
           \cup Behind(<<"#">>, Upto(4, Directives))
NoTexts == {}

MCLetters == {"a", "b", "e", "k"}
MCReserved == <<"k">> :> "key" @@ <<"b">> :> "begin" @@ <<"e">> :> "end"
              @@ <<">">> :> ">" @@ <<">", ">">> :> ">>" @@ <<";">> :> ";"
=============================================================================
