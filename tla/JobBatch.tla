------------------------------ MODULE JobBatch ------------------------------
(***************************************************************************)
(* What main() relies on when it opens a scope around a JobManager: jobs   *)
(* are submitted one after the other, a worker takes the oldest one that   *)
(* nobody took, every job is executed by one worker, once, and the scope   *)
(* closes only when every job of the batch has been executed.              *)
(* Threads, locks and notifications are not visible at this level.         *)
(***************************************************************************)
EXTENDS Naturals

CONSTANT Workers     \* the threads of the pool

VARIABLES size,      \* the jobs of the batch are 1..size
          submitted, \* jobs 1..submitted have been handed over
          started,   \* jobs 1..started have been taken by a worker
          current,   \* current[w]: the job w executes, 0 when it has none
          finished,  \* the jobs that were executed
          closed     \* the scope has been left

batchVars == <<size, submitted, started, current, finished, closed>>

Init == /\ size \in Nat
        /\ submitted = 0
        /\ started = 0
        /\ current = [w \in Workers |-> 0]
        /\ finished = {}
        /\ closed = FALSE

Submit == /\ ~closed
          /\ submitted < size
          /\ submitted' = submitted + 1
          /\ UNCHANGED <<size, started, current, finished, closed>>

Start(w) == /\ started < submitted
            /\ current[w] = 0
            /\ started' = started + 1
            /\ current' = [current EXCEPT ![w] = started + 1]
            /\ UNCHANGED <<size, submitted, finished, closed>>

Finish(w) == /\ current[w] # 0
             /\ current[w] \notin finished
             /\ finished' = finished \cup {current[w]}
             /\ current' = [current EXCEPT ![w] = 0]
             /\ UNCHANGED <<size, submitted, started, closed>>

Close == /\ ~closed
         /\ finished = 1..size
         /\ closed' = TRUE
         /\ UNCHANGED <<size, submitted, started, current, finished>>

Next == Submit \/ Close \/ \E w \in Workers : Start(w) \/ Finish(w)

Spec == Init /\ [][Next]_batchVars
=============================================================================
