---------------------------- MODULE MCJobManager ----------------------------
(* JobManager for TLC: threads are model values and interchangeable. *)
EXTENDS JobManager, TLC

ThreadSymmetry == Permutations(Workers)
=============================================================================
