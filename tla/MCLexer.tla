------------------------------ MODULE MCLexer ------------------------------
(* Lexer for TLC: every text of up to MaxText of the words below.           *)
EXTENDS Lexer, TLC

AllWords == {"id", "key", ">>", "begin", "end"}
TagKeys == {"key"}
=============================================================================
