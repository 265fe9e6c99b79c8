----------------------------- MODULE MCSymTable -----------------------------
(* SymTable for TLC: names of scopes and symbols are model values.           *)
EXTENDS SymTable, TLC

CONSTANTS n1, x

\* What the stack may hold where no int was written.
LeftOver == {-1, 1}
=============================================================================
