--------------------------- MODULE MCIntrospector ---------------------------
(* Introspector for TLC: two headers, a command line that names both and     *)
(* one that names the first only.                                            *)
EXTENDS Introspector, TLC

CONSTANTS h1, h2, all, one, hashA, hashB

MCHeadersOf == (all :> {h1, h2}) @@ (one :> {h1})
MCInputHash == (all :> hashA) @@ (one :> hashB)

MCAllHeaders == all :> {h1, h2}

\* Of one command line that names every header, neither these nor the threads
\* are told apart.
AllSymmetry == Permutations(Workers) \cup Permutations(Headers)
=============================================================================
