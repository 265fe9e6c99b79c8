----------------------------- MODULE Selections -----------------------------
(***************************************************************************)
(* The elements of a sequence that are in a set, in their order: SelectSeq  *)
(* with a set for the test, as a recursive function that a lemma can be     *)
(* proved of (InductionLemmas).                                            *)
(***************************************************************************)
EXTENDS Naturals, Sequences

Selected(s, Kept) ==
    LET From[n \in 0..Len(s)] ==
            IF n = 0 THEN <<>>
            ELSE IF s[n] \in Kept THEN Append(From[n - 1], s[n])
            ELSE From[n - 1]
    IN  From[Len(s)]
=============================================================================
