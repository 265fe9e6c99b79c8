----------------------------- MODULE JobManager -----------------------------
(***************************************************************************)
(* The worker pool of src/source/jobmanager.cpp at the granularity of its  *)
(* mutex, its condition variable and its atomic flag.  The thread of       *)
(* main() constructs the pool, submits NumJobs jobs and runs ~JobManager.  *)
(* A worker is in one of these places of _executeTasksLoop():              *)
(*   "unborn"  the constructor has not started the thread                  *)
(*   "lock"    wants mQueueMutex: line 40, or waking up inside wait()      *)
(*   "pred"    holds the mutex, about to evaluate the predicate (line 42)  *)
(*   "gap"     saw the predicate false, not yet blocked; holds the mutex   *)
(*   "wait"    blocked on mHasNewJobAdded, the mutex released              *)
(*   "decide"  saw the predicate true, holds the mutex (line 44)           *)
(*   "run"     executes a job (line 54), the mutex released                *)
(*   "exit"    returned                                                    *)
(***************************************************************************)
EXTENDS Integers, Sequences, FiniteSets

CONSTANTS Workers,  \* the mNumOfThreads threads of the pool
          NumJobs,  \* main() submits the jobs 1..NumJobs
          NoThread  \* the owner of a free mutex

ASSUME PoolAssumption ==
    /\ IsFiniteSet(Workers)
    /\ NoThread \notin Workers
    /\ NumJobs \in Nat

VARIABLES
    main,      \* "scope", then ~JobManager: "notify", "join", "done"
    running,   \* mIsRunning
    mutex,     \* the owner of mQueueMutex
    jobs,      \* mJobs
    place,     \* place[w]: where worker w is
    pJob,      \* pJob[w]: the job worker w still has to run, else 0
    submitted, \* how many jobs main() has submitted
    finished   \* the jobs whose call has returned

vars == <<main, running, mutex, jobs, place, pJob, submitted, finished>>

Holding == {"pred", "gap", "decide"}
Places == Holding \cup {"unborn", "lock", "wait", "run", "exit"}

TypeOK == /\ main \in {"scope", "notify", "join", "done"}
          /\ running \in BOOLEAN
          /\ mutex \in Workers \cup {NoThread}
          /\ jobs \in Seq(1..NumJobs)
          /\ place \in [Workers -> Places]
          /\ pJob \in [Workers -> 0..NumJobs]
          /\ submitted \in 0..NumJobs
          /\ finished \in SUBSET (1..NumJobs)

Waiting == {w \in Workers : place[w] = "wait"}
Constructed == \A w \in Workers : place[w] # "unborn"

-----------------------------------------------------------------------------
Init == /\ main = "scope"
        /\ running = TRUE
        /\ mutex = NoThread
        /\ jobs = <<>>
        /\ place = [w \in Workers |-> "unborn"]
        /\ pJob = [w \in Workers |-> 0]
        /\ submitted = 0
        /\ finished = {}

(* The thread of main() *)

\* One iteration of the constructor's loop.
Spawn(w) ==
    /\ main = "scope"
    /\ place[w] = "unborn"
    /\ place' = [place EXCEPT ![w] = "lock"]
    /\ UNCHANGED <<main, running, mutex, jobs, pJob, submitted, finished>>

\* Variant: the job is queued without a notification.
NotifyNobody == place' = place

\* notify_one(): some blocked thread, if there is one, goes on to reacquire
\* the mutex.
NotifyOne == IF Waiting = {} THEN place' = place
             ELSE \E w \in Waiting : place' = [place EXCEPT ![w] = "lock"]

\* Variant: one job more than there are.
SubmitOneMore ==
    /\ main = "scope"
    /\ Constructed
    /\ submitted <= NumJobs
    /\ mutex = NoThread
    /\ jobs' = Append(jobs, submitted + 1)
    /\ submitted' = submitted + 1
    /\ NotifyOne
    /\ UNCHANGED <<main, running, mutex, pJob, finished>>

\* The mutex is held from the emplace to the notification, so no other
\* thread sees the queue in between.
SubmitJob ==
    /\ main = "scope"
    /\ Constructed
    /\ submitted < NumJobs
    /\ mutex = NoThread
    /\ jobs' = Append(jobs, submitted + 1)
    /\ submitted' = submitted + 1
    /\ NotifyOne
    /\ UNCHANGED <<main, running, mutex, pJob, finished>>

\* The end of the scope: the flag is cleared without taking mQueueMutex.
StopRunning ==
    /\ main = "scope"
    /\ Constructed
    /\ submitted = NumJobs
    /\ running' = FALSE
    /\ main' = "notify"
    /\ UNCHANGED <<mutex, jobs, place, pJob, submitted, finished>>

NotifyAll ==
    /\ main = "notify"
    /\ place' = [w \in Workers |-> IF place[w] = "wait" THEN "lock" ELSE place[w]]
    /\ main' = "join"
    /\ UNCHANGED <<running, mutex, jobs, pJob, submitted, finished>>

\* Variant: a destructor that does not wait for the threads.
JoinAtOnce ==
    /\ main = "join"
    /\ main' = "done"
    /\ UNCHANGED <<running, mutex, jobs, place, pJob, submitted, finished>>

\* The loop of join() calls ends when every thread has returned.
Join ==
    /\ main = "join"
    /\ \A w \in Workers : place[w] = "exit"
    /\ main' = "done"
    /\ UNCHANGED <<running, mutex, jobs, place, pJob, submitted, finished>>

-----------------------------------------------------------------------------
(* The threads of the pool *)

Acquire(w) ==
    /\ place[w] = "lock"
    /\ mutex = NoThread
    /\ mutex' = w
    /\ place' = [place EXCEPT ![w] = "pred"]
    /\ UNCHANGED <<main, running, jobs, pJob, submitted, finished>>

\* Variant: a predicate that does not look at the flag.
WakeOnJobsOnly == jobs # <<>>

\* Variant: a worker that has woken up takes it that there is a job.
WakeAnyway == TRUE

\* The predicate given to wait().
WakePredicate == ~running \/ jobs # <<>>

EvaluatePredicate(w) ==
    /\ place[w] = "pred"
    /\ place' = [place EXCEPT ![w] = IF WakePredicate THEN "decide" ELSE "gap"]
    /\ UNCHANGED <<main, running, mutex, jobs, pJob, submitted, finished>>

Block(w) ==
    /\ place[w] = "gap"
    /\ place' = [place EXCEPT ![w] = "wait"]
    /\ mutex' = NoThread
    /\ UNCHANGED <<main, running, jobs, pJob, submitted, finished>>

\* A condition variable may wake a thread that nobody notified.
SpuriousWakeup(w) ==
    /\ place[w] = "wait"
    /\ place' = [place EXCEPT ![w] = "lock"]
    /\ UNCHANGED <<main, running, mutex, jobs, pJob, submitted, finished>>

\* Variant: a worker leaves although jobs are queued.
LeaveOnFlag == ~running

\* The stop condition of the loop, line 44.
MayLeave == ~running /\ jobs = <<>>

Leave(w) ==
    /\ place[w] = "decide"
    /\ MayLeave
    /\ place' = [place EXCEPT ![w] = "exit"]
    /\ mutex' = NoThread
    /\ UNCHANGED <<main, running, jobs, pJob, submitted, finished>>

\* Variant: front() without pop().
PeekOnly(w) ==
    /\ place[w] = "decide"
    /\ ~MayLeave
    /\ pJob' = [pJob EXCEPT ![w] = Head(jobs)]
    /\ place' = [place EXCEPT ![w] = "run"]
    /\ mutex' = NoThread
    /\ UNCHANGED <<main, running, jobs, submitted, finished>>

\* front(), move and pop() under the mutex, which is then released.
TakeJob(w) ==
    /\ place[w] = "decide"
    /\ ~MayLeave
    /\ pJob' = [pJob EXCEPT ![w] = Head(jobs)]
    /\ jobs' = Tail(jobs)
    /\ place' = [place EXCEPT ![w] = "run"]
    /\ mutex' = NoThread
    /\ UNCHANGED <<main, running, submitted, finished>>

\* Variant: one job per thread.
ReturnAfterJob(w) ==
    /\ place[w] = "run"
    /\ finished' = finished \cup {pJob[w]}
    /\ pJob' = [pJob EXCEPT ![w] = 0]
    /\ place' = [place EXCEPT ![w] = "exit"]
    /\ UNCHANGED <<main, running, mutex, jobs, submitted>>

\* The call of the job, and back to the top of the loop.
RunJob(w) ==
    /\ place[w] = "run"
    /\ finished' = finished \cup {pJob[w]}
    /\ pJob' = [pJob EXCEPT ![w] = 0]
    /\ place' = [place EXCEPT ![w] = "lock"]
    /\ UNCHANGED <<main, running, mutex, jobs, submitted>>

-----------------------------------------------------------------------------
MainStep == SubmitJob \/ StopRunning \/ NotifyAll \/ Join \/ \E w \in Workers : Spawn(w)

\* What a thread does of its own accord; a spurious wake-up is not.
WorkerStep(w) == \/ Acquire(w) \/ EvaluatePredicate(w) \/ Block(w)
                 \/ Leave(w) \/ TakeJob(w) \/ RunJob(w)

Terminated == main = "done" /\ UNCHANGED vars

Next == \/ MainStep
        \/ \E w \in Workers : WorkerStep(w) \/ SpuriousWakeup(w)
        \/ Terminated

Spec == Init /\ [][Next]_vars

(***************************************************************************)
(* A thread that can run does run, and a thread that wants the mutex is    *)
(* not overtaken forever: spurious wake-ups, which no fairness forces and  *)
(* nothing bounds, may otherwise keep the mutex busy.                      *)
(***************************************************************************)
Fairness == /\ WF_vars(MainStep)
            /\ SF_vars(SubmitJob)
            /\ \A w \in Workers : WF_vars(WorkerStep(w)) /\ SF_vars(Acquire(w))

FairSpec == Spec /\ Fairness
-----------------------------------------------------------------------------
(* Properties *)

\* How many jobs were popped.
Taken == submitted - Len(jobs)

InFlight == {w \in Workers : place[w] = "run"}

\* wait() returns to line 44 only when there is a job to pop or the pool is
\* stopping, whatever other threads did since the notification: front() and
\* pop() never meet an empty queue.
NoPopOfEmptyQueue ==
    \A w \in Workers : place[w] = "decide" => ~running \/ jobs # <<>>

\* Every submitted job is in the queue, in the hands of one worker or
\* executed, and in one of these places only; the queue keeps the jobs in the
\* order of their submission.  So none is lost and none is executed twice.
EachJobInOnePlace ==
    /\ \A k \in 1..Len(jobs) : jobs[k] = Taken + k
    /\ \A w \in InFlight : pJob[w] \in (1..Taken) \ finished
    /\ \A v, w \in InFlight : v # w => pJob[v] # pJob[w]
    /\ 1..Taken = finished \cup {pJob[w] : w \in InFlight}

\* main.cpp reads symbolsPerFile right after the scope: ~JobManager returns
\* only when every job was executed, although no job count is kept.
ScopeEndMeansAllDone ==
    main = "done" => finished = 1..NumJobs

\* No worker sleeps over work: as long as some worker is blocked, every queued
\* job has a worker of its own on its way to the queue.  It is what makes
\* notify_one(), instead of notify_all(), enough in _submitJob().
Heading == {w \in Workers : place[w] \in {"lock"} \cup Holding}
NoSleepOverWork ==
    Waiting # {} => Len(jobs) <= Cardinality(Heading)

\* A worker that has returned never comes back, and none returns while main()
\* may still submit or the queue still holds a job.
LeavesForGood ==
    [][\A w \in Workers :
         /\ place[w] = "exit" => place'[w] = "exit"
         /\ place[w] # "exit" /\ place'[w] = "exit" =>
              submitted = NumJobs /\ jobs = <<>> /\ main # "scope"]_vars

\* Every job main() means to submit is executed in the end, even when the
\* shutdown starts while jobs are queued.
EveryJobIsExecuted == \A j \in 1..NumJobs : <>(j \in finished)

\* Once notify_all() has been called and no worker is blocked or about to
\* block, ~JobManager returns: the window at "gap" is the only thing that can
\* keep it from returning.
NobodyAsleep == \A w \in Workers : place[w] \notin {"gap", "wait"}
ReturnsWhenNobodySleeps == (main = "join" /\ NobodyAsleep) ~> (main = "done")

\* main.cpp:77: the scope "makes us possible to wait for all jobs will be
\* done to the end of the scope": the wait ends.
ScopeEnds == <>(main = "done")

\* The pool implements the batch of jobs main() relies on.
Batch == INSTANCE JobBatch WITH
            size <- NumJobs,
            started <- Taken,
            current <- pJob,
            closed <- (main = "done")
ImplementsBatch == Batch!Spec
=============================================================================
