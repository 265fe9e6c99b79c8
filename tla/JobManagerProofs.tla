-------------------------- MODULE JobManagerProofs --------------------------
(***************************************************************************)
(* Proofs about JobManager, for every finite pool and every number of      *)
(* jobs.  IInv is the inductive invariant: the type invariant, who may     *)
(* hold the mutex, what a returned worker implies, and the accounting of   *)
(* the jobs.                                                               *)
(***************************************************************************)
EXTENDS JobManager, FiniteSetTheorems, TLAPS

USE PoolAssumption

\* A worker is between line 40 and the release of the mutex exactly when it
\* owns it: at most one worker looks at the queue.
MutexOwner ==
    \A w \in Workers : place[w] \in Holding <=> mutex = w

\* The flag falls only after the last submission, with the pool constructed.
StopComesLast ==
    /\ running <=> main = "scope"
    /\ ~running => submitted = NumJobs /\ Constructed

\* A worker blocks only on an empty queue: it keeps the mutex until it does.
GapMeansEmpty ==
    \A w \in Workers : place[w] = "gap" => jobs = <<>>

\* A worker returns only on an empty queue nobody will refill.
ExitMeansDrained ==
    \A w \in Workers : place[w] = "exit" => ~running /\ jobs = <<>>

\* Only a worker that runs a job holds one.
HoldsOnlyWhenRunning ==
    \A w \in Workers : pJob[w] # 0 <=> place[w] = "run"

\* The destructor is over only when every thread was joined.
DoneMeansJoined ==
    main = "done" => \A w \in Workers : place[w] = "exit"

IInv == /\ TypeOK
        /\ MutexOwner
        /\ StopComesLast
        /\ ExitMeansDrained
        /\ HoldsOnlyWhenRunning
        /\ DoneMeansJoined
        /\ GapMeansEmpty
        /\ NoPopOfEmptyQueue
        /\ EachJobInOnePlace

-----------------------------------------------------------------------------
(* The initial state *)

LEMMA InitEstablishes == Init => IInv
  BY DEF Init, IInv, TypeOK, MutexOwner, StopComesLast, ExitMeansDrained,
         HoldsOnlyWhenRunning, DoneMeansJoined, GapMeansEmpty, NoPopOfEmptyQueue,
         EachJobInOnePlace, Taken, InFlight, Places, Holding, Constructed

-----------------------------------------------------------------------------
(* The type invariant is inductive given that no pop meets an empty queue  *)
(* and that a worker that runs has a job.                                  *)

LEMMA TypeOKStep ==
    TypeOK /\ NoPopOfEmptyQueue /\ HoldsOnlyWhenRunning /\ [Next]_vars => TypeOK'
  <1> SUFFICES ASSUME TypeOK, NoPopOfEmptyQueue, HoldsOnlyWhenRunning, [Next]_vars
               PROVE  TypeOK'
    OBVIOUS
  <1> USE DEF TypeOK, Places, Holding
  <1>1. CASE \E w \in Workers : Spawn(w)
    BY <1>1 DEF Spawn
  <1>2. CASE SubmitJob
    <2>1. place' \in [Workers -> Places]
      BY <1>2 DEF SubmitJob, NotifyOne, Waiting
    <2>2. submitted + 1 \in 1..NumJobs
      BY <1>2 DEF SubmitJob
    <2>3. jobs' \in Seq(1..NumJobs)
      BY <1>2, <2>2 DEF SubmitJob
    <2>4. QED
      BY <1>2, <2>1, <2>2, <2>3 DEF SubmitJob
  <1>3. CASE StopRunning
    BY <1>3 DEF StopRunning
  <1>4. CASE NotifyAll
    BY <1>4 DEF NotifyAll
  <1>5. CASE Join
    BY <1>5 DEF Join
  <1>6. ASSUME NEW w \in Workers, WorkerStep(w) \/ SpuriousWakeup(w)
        PROVE  TypeOK'
    <2>1. CASE Acquire(w)
      BY <2>1 DEF Acquire
    <2>2. CASE EvaluatePredicate(w)
      BY <2>2 DEF EvaluatePredicate
    <2>3. CASE Block(w)
      BY <2>3 DEF Block
    <2>4. CASE Leave(w)
      BY <2>4 DEF Leave
    <2>5. CASE TakeJob(w)
      <3>1. jobs # <<>>
        BY <2>5 DEF TakeJob, MayLeave, NoPopOfEmptyQueue
      <3>2. Head(jobs) \in 1..NumJobs /\ Tail(jobs) \in Seq(1..NumJobs)
        BY <3>1
      <3>3. pJob' \in [Workers -> 0..NumJobs] /\ jobs' \in Seq(1..NumJobs)
        BY <2>5, <3>2 DEF TakeJob
      <3>4. place' \in [Workers -> Places]
        BY <2>5 DEF TakeJob
      <3>5. mutex' = NoThread /\ UNCHANGED <<main, running, submitted, finished>>
        BY <2>5 DEF TakeJob
      <3>6. QED
        BY <3>3, <3>4, <3>5
    <2>6. CASE RunJob(w)
      <3>1. pJob[w] \in 1..NumJobs
        BY <2>6 DEF RunJob, HoldsOnlyWhenRunning
      <3>2. finished' \in SUBSET (1..NumJobs)
        BY <2>6, <3>1 DEF RunJob
      <3>3. 0 \in 0..NumJobs
        OBVIOUS
      <3>4. pJob' \in [Workers -> 0..NumJobs]
        BY <2>6, <3>3 DEF RunJob
      <3>5. place' \in [Workers -> Places]
        BY <2>6 DEF RunJob
      <3>6. UNCHANGED <<main, running, mutex, jobs, submitted>>
        BY <2>6 DEF RunJob
      <3>7. QED
        BY <3>2, <3>4, <3>5, <3>6
    <2>7. CASE SpuriousWakeup(w)
      BY <2>7 DEF SpuriousWakeup
    <2>8. QED
      BY <1>6, <2>1, <2>2, <2>3, <2>4, <2>5, <2>6, <2>7 DEF WorkerStep
  <1>7. CASE UNCHANGED vars
    BY <1>7 DEF vars
  <1>8. QED
    BY <1>1, <1>2, <1>3, <1>4, <1>5, <1>6, <1>7 DEF Next, MainStep, Terminated

-----------------------------------------------------------------------------
(* Locking, shutdown and the predicate of wait() *)

ControlInv == /\ MutexOwner
              /\ StopComesLast
              /\ ExitMeansDrained
              /\ HoldsOnlyWhenRunning
              /\ DoneMeansJoined
              /\ GapMeansEmpty
              /\ NoPopOfEmptyQueue

LEMMA ControlStep ==
    TypeOK /\ EachJobInOnePlace /\ ControlInv /\ [Next]_vars => ControlInv'
  <1> SUFFICES ASSUME TypeOK, EachJobInOnePlace, ControlInv, [Next]_vars
               PROVE  ControlInv'
    OBVIOUS
  <1> USE DEF ControlInv, TypeOK, Places, Holding, MutexOwner, StopComesLast,
              ExitMeansDrained, HoldsOnlyWhenRunning, DoneMeansJoined, GapMeansEmpty,
              NoPopOfEmptyQueue, Constructed
  <1>1. CASE \E w \in Workers : Spawn(w)
    BY <1>1 DEF Spawn
  <1>2. CASE SubmitJob
    <2>1. \A w \in Workers : place[w] \notin Holding
      BY <1>2 DEF SubmitJob
    <2>2. \A w \in Workers :
            /\ place'[w] = place[w] \/ (place[w] = "wait" /\ place'[w] = "lock")
      BY <1>2 DEF SubmitJob, NotifyOne, Waiting
    <2>3. QED
      BY <1>2, <2>1, <2>2 DEF SubmitJob
  <1>3. CASE StopRunning
    BY <1>3 DEF StopRunning
  <1>4. CASE NotifyAll
    BY <1>4 DEF NotifyAll
  <1>5. CASE Join
    BY <1>5 DEF Join
  <1>6. ASSUME NEW w \in Workers, WorkerStep(w) \/ SpuriousWakeup(w)
        PROVE  ControlInv'
    <2>1. CASE Acquire(w)
      BY <2>1 DEF Acquire
    <2>2. CASE EvaluatePredicate(w)
      BY <2>2 DEF EvaluatePredicate, WakePredicate
    <2>3. CASE Block(w)
      BY <2>3 DEF Block
    <2>4. CASE Leave(w)
      BY <2>4 DEF Leave, MayLeave
    <2>5. CASE TakeJob(w)
      <3>1. jobs # <<>>
        BY <2>5 DEF TakeJob, MayLeave
      <3>2. Head(jobs) \in 1..NumJobs
        BY <3>1
      <3>3. \A v \in Workers : place[v] # "exit"
        BY <3>1
      <3>4. QED
        BY <2>5, <3>1, <3>2, <3>3 DEF TakeJob
    <2>6. CASE RunJob(w)
      BY <2>6 DEF RunJob
    <2>7. CASE SpuriousWakeup(w)
      BY <2>7 DEF SpuriousWakeup
    <2>8. QED
      BY <1>6, <2>1, <2>2, <2>3, <2>4, <2>5, <2>6, <2>7 DEF WorkerStep
  <1>7. CASE UNCHANGED vars
    BY <1>7 DEF vars
  <1>8. QED
    BY <1>1, <1>2, <1>3, <1>4, <1>5, <1>6, <1>7 DEF Next, MainStep, Terminated

-----------------------------------------------------------------------------
(* The accounting of the jobs *)

\* What a pop leaves of the queue.
LEMMA TailOfJobs ==
    ASSUME TypeOK, EachJobInOnePlace, jobs # <<>>
    PROVE  /\ Head(jobs) = Taken + 1
           /\ Len(Tail(jobs)) = Len(jobs) - 1
           /\ \A k \in 1..Len(Tail(jobs)) : Tail(jobs)[k] = Taken + 1 + k
  <1>1. jobs \in Seq(1..NumJobs) /\ jobs # <<>>
    BY DEF TypeOK
  <1>2. Len(jobs) \in Nat /\ Len(jobs) >= 1
    BY <1>1
  <1>3. /\ Head(jobs) = jobs[1]
        /\ Len(Tail(jobs)) = Len(jobs) - 1
        /\ \A k \in 1..(Len(jobs) - 1) : Tail(jobs)[k] = jobs[k + 1]
    BY <1>1, <1>2
  <1>4. \A k \in 1..Len(jobs) : jobs[k] = Taken + k
    BY DEF EachJobInOnePlace
  <1>5. Taken \in Int
    BY <1>2 DEF Taken, TypeOK
  <1>6. Head(jobs) = Taken + 1
    BY <1>2, <1>3, <1>4
  <1>7. ASSUME NEW k \in 1..Len(Tail(jobs)) PROVE Tail(jobs)[k] = Taken + 1 + k
    <2>1. k + 1 \in 1..Len(jobs) /\ Tail(jobs)[k] = jobs[k + 1]
      BY <1>2, <1>3
    <2>2. jobs[k + 1] = Taken + (k + 1)
      BY <1>4, <2>1
    <2>3. QED
      BY <1>5, <2>1, <2>2
  <1>8. QED
    BY <1>3, <1>6, <1>7

LEMMA AccountingStep ==
    TypeOK /\ ControlInv /\ EachJobInOnePlace /\ [Next]_vars => EachJobInOnePlace'
  <1> SUFFICES ASSUME TypeOK, ControlInv, EachJobInOnePlace, [Next]_vars
               PROVE  EachJobInOnePlace'
    OBVIOUS
  <1> DEFINE Settled == /\ UNCHANGED <<jobs, pJob, submitted, finished>>
                        /\ InFlight' = InFlight
  <1>1. ASSUME Settled PROVE EachJobInOnePlace'
    BY <1>1 DEF EachJobInOnePlace, Taken
  <1>2. CASE \E w \in Workers : Spawn(w)
    <2>1. Settled
      BY <1>2 DEF Spawn, InFlight, TypeOK
    <2>2. QED
      BY <1>1, <2>1
  <1>3. CASE SubmitJob
    <2>1. InFlight' = InFlight
      BY <1>3 DEF SubmitJob, NotifyOne, Waiting, InFlight, TypeOK
    <2>2. /\ Len(jobs') = Len(jobs) + 1
          /\ \A k \in 1..Len(jobs) : jobs'[k] = jobs[k]
          /\ jobs'[Len(jobs) + 1] = submitted + 1
          /\ submitted' = submitted + 1
      BY <1>3 DEF SubmitJob, TypeOK
    <2>3. Taken' = Taken
      BY <2>2 DEF Taken, TypeOK
    <2>4. ASSUME NEW k \in 1..Len(jobs') PROVE jobs'[k] = Taken' + k
      <3>1. CASE k \in 1..Len(jobs)
        BY <2>2, <2>3, <3>1 DEF EachJobInOnePlace
      <3>2. CASE k = Len(jobs) + 1
        BY <2>2, <2>3, <3>2 DEF Taken, TypeOK
      <3>3. QED
        BY <2>2, <3>1, <3>2 DEF TypeOK
    <2>5. UNCHANGED <<pJob, finished>>
      BY <1>3 DEF SubmitJob
    <2>6. QED
      BY <2>1, <2>3, <2>4, <2>5 DEF EachJobInOnePlace
  <1>4. CASE StopRunning \/ NotifyAll \/ Join
    <2>1. Settled
      BY <1>4 DEF StopRunning, NotifyAll, Join, InFlight, TypeOK
    <2>2. QED
      BY <1>1, <2>1
  <1>5. ASSUME NEW w \in Workers, WorkerStep(w) \/ SpuriousWakeup(w)
        PROVE  EachJobInOnePlace'
    <2>1. CASE \/ Acquire(w) \/ EvaluatePredicate(w) \/ Block(w)
               \/ Leave(w) \/ SpuriousWakeup(w)
      <3>1. Settled
        BY <2>1 DEF Acquire, EvaluatePredicate, Block, Leave, SpuriousWakeup,
                    InFlight, TypeOK
      <3>2. QED
        BY <1>1, <3>1
    <2>2. CASE TakeJob(w)
      <3>1. jobs # <<>>
        BY <2>2 DEF TakeJob, MayLeave, ControlInv, NoPopOfEmptyQueue
      <3>2. /\ InFlight' = InFlight \cup {w}
            /\ w \notin InFlight
            /\ UNCHANGED <<submitted, finished>>
            /\ jobs' = Tail(jobs)
        BY <2>2 DEF TakeJob, InFlight, TypeOK
      <3>3. pJob' = [pJob EXCEPT ![w] = Taken + 1]
        BY <2>2, <3>1, TailOfJobs DEF TakeJob
      <3>4. Taken \in Nat /\ Taken' = Taken + 1
        BY <3>1, <3>2, TailOfJobs DEF Taken, TypeOK, EachJobInOnePlace
      <3>5. \A k \in 1..Len(jobs') : jobs'[k] = Taken' + k
        BY <3>1, <3>2, <3>4, TailOfJobs
      <3>6. \A v \in InFlight : pJob'[v] = pJob[v] /\ pJob[v] \in 1..Taken
        BY <3>2, <3>3 DEF EachJobInOnePlace, TypeOK, InFlight
      <3>7. pJob'[w] = Taken + 1
        BY <3>3 DEF TypeOK
      <3>8. \A v \in InFlight' : pJob'[v] \in (1..Taken') \ finished'
        BY <3>2, <3>4, <3>6, <3>7 DEF EachJobInOnePlace
      <3>9. \A u, v \in InFlight' : u # v => pJob'[u] # pJob'[v]
        BY <3>2, <3>4, <3>6, <3>7 DEF EachJobInOnePlace
      <3>10. 1..Taken' = finished' \cup {pJob'[v] : v \in InFlight'}
        <4>1. {pJob'[v] : v \in InFlight'} = {pJob[v] : v \in InFlight} \cup {Taken + 1}
          BY <3>2, <3>6, <3>7
        <4>2. 1..Taken' = (1..Taken) \cup {Taken + 1}
          BY <3>4
        <4>3. QED
          BY <4>1, <4>2, <3>2 DEF EachJobInOnePlace
      <3>11. QED
        BY <3>5, <3>8, <3>9, <3>10 DEF EachJobInOnePlace
    <2>3. CASE RunJob(w)
      <3>1. /\ w \in InFlight
            /\ InFlight' = InFlight \ {w}
            /\ finished' = finished \cup {pJob[w]}
            /\ \A v \in InFlight' : pJob'[v] = pJob[v]
            /\ UNCHANGED <<jobs, submitted>>
        BY <2>3 DEF RunJob, InFlight, TypeOK
      <3>2. Taken' = Taken
        BY <3>1 DEF Taken
      <3>3. finished' \cup {pJob'[v] : v \in InFlight'} = finished \cup {pJob[v] : v \in InFlight}
        BY <3>1
      <3>4. QED
        BY <3>1, <3>2, <3>3 DEF EachJobInOnePlace
    <2>4. QED
      BY <1>5, <2>1, <2>2, <2>3 DEF WorkerStep
  <1>6. CASE UNCHANGED vars
    BY <1>6, <1>1 DEF vars, InFlight
  <1>7. QED
    BY <1>2, <1>3, <1>4, <1>5, <1>6 DEF Next, MainStep, Terminated

-----------------------------------------------------------------------------
(* The theorems *)

LEMMA Invariance == Spec => []IInv
  <1>1. Init => IInv
    BY InitEstablishes
  <1>2. IInv /\ [Next]_vars => IInv'
    BY TypeOKStep, ControlStep, AccountingStep DEF IInv, ControlInv
  <1>3. QED
    BY <1>1, <1>2, PTL DEF Spec

\* Every variable keeps its type: in particular the popped value is a job.
THEOREM TypeCorrect == Spec => []TypeOK
  BY Invariance, PTL DEF IInv

\* jobmanager.cpp:49: front() and pop() are never called on an empty queue.
THEOREM PopIsSafe == Spec => []NoPopOfEmptyQueue
  BY Invariance, PTL DEF IInv

\* No job is lost, duplicated or reordered on its way through the pool.
THEOREM JobsAccountedFor == Spec => []EachJobInOnePlace
  BY Invariance, PTL DEF IInv

\* main.cpp:77: with at least one worker the scope ends after every job.  The
\* pool itself does not check that it has one, so the theorem assumes it.
THEOREM ScopeWaitsForAll ==
    ASSUME Workers # {}
    PROVE  Spec => []ScopeEndMeansAllDone
  <1>1. IInv => ScopeEndMeansAllDone
    <2> SUFFICES ASSUME IInv, main = "done" PROVE finished = 1..NumJobs
      BY DEF ScopeEndMeansAllDone
    <2>1. \A w \in Workers : place[w] = "exit"
      BY DEF IInv, DoneMeansJoined
    <2>2. jobs = <<>> /\ InFlight = {}
      BY <2>1 DEF IInv, ExitMeansDrained, InFlight
    <2>3. submitted = NumJobs
      BY DEF IInv, StopComesLast
    <2>4. Taken = NumJobs
      BY <2>2, <2>3 DEF Taken
    <2>5. QED
      BY <2>2, <2>4 DEF IInv, EachJobInOnePlace
  <1>2. QED
    BY <1>1, Invariance, PTL

-----------------------------------------------------------------------------
(* notify_one() is enough *)

LEMMA HeadingIsFinite ==
    IsFiniteSet(Heading) /\ Cardinality(Heading) \in Nat
  BY FS_Subset, FS_CardinalityType DEF Heading

LEMMA AddedElementCounts ==
    ASSUME NEW S, IsFiniteSet(S), NEW x
    PROVE  /\ Cardinality(S \cup {x}) \in Nat
           /\ Cardinality(S) <= Cardinality(S \cup {x})
  <1>1. Cardinality(S) \in Nat
    BY FS_CardinalityType
  <1>2. \/ Cardinality(S \cup {x}) = Cardinality(S)
        \/ Cardinality(S \cup {x}) = Cardinality(S) + 1
    BY FS_AddElement
  <1>3. QED
    BY <1>1, <1>2

LEMMA NoSleepStep ==
    IInv /\ NoSleepOverWork /\ [Next]_vars => NoSleepOverWork'
  <1> SUFFICES ASSUME IInv, NoSleepOverWork, [Next]_vars
               PROVE  NoSleepOverWork'
    OBVIOUS
  <1> USE DEF IInv, TypeOK, Places, Holding
  <1> DEFINE Same == UNCHANGED <<jobs, Waiting, Heading>>
             Joins(w) == /\ Waiting' \subseteq Waiting
                         /\ Heading' = Heading \cup {w}
                         /\ UNCHANGED jobs
  <1>1. ASSUME Same PROVE NoSleepOverWork'
    BY <1>1 DEF NoSleepOverWork
  <1>2. ASSUME NEW w \in Workers, Joins(w) PROVE NoSleepOverWork'
    <2>1. /\ Cardinality(Heading') \in Nat
          /\ Cardinality(Heading) <= Cardinality(Heading')
      BY <1>2, HeadingIsFinite, AddedElementCounts
    <2>2. Len(jobs) \in Nat
      OBVIOUS
    <2>3. QED
      BY <1>2, <2>1, <2>2, HeadingIsFinite DEF NoSleepOverWork
  <1>3. ASSUME NEW w \in Workers, Spawn(w) PROVE NoSleepOverWork'
    <2>1. Joins(w)
      BY <1>3 DEF Spawn, Waiting, Heading
    <2>2. QED
      BY <1>2, <2>1
  <1>4. CASE SubmitJob
    <2>1. Len(jobs) \in Nat /\ Len(jobs') = Len(jobs) + 1
      BY <1>4 DEF SubmitJob
    <2>2. CASE Waiting = {}
      <3>1. Waiting' = {}
        BY <1>4, <2>2 DEF SubmitJob, NotifyOne, Waiting
      <3>2. QED
        BY <3>1 DEF NoSleepOverWork
    <2>3. CASE Waiting # {}
      <3>1. PICK w \in Waiting : place' = [place EXCEPT ![w] = "lock"]
        BY <1>4, <2>3 DEF SubmitJob, NotifyOne
      <3>2. w \notin Heading /\ Heading' = Heading \cup {w}
        BY <3>1 DEF Waiting, Heading
      <3>3. Cardinality(Heading') = Cardinality(Heading) + 1
        BY <3>2, HeadingIsFinite, FS_AddElement
      <3>4. QED
        BY <2>1, <2>3, <3>3, HeadingIsFinite DEF NoSleepOverWork
    <2>4. QED
      BY <2>2, <2>3
  <1>5. CASE StopRunning \/ Join \/ UNCHANGED vars
    BY <1>1, <1>5 DEF StopRunning, Join, vars, Waiting, Heading
  <1>6. CASE NotifyAll
    <2>1. Waiting' = {}
      BY <1>6 DEF NotifyAll, Waiting
    <2>2. QED
      BY <2>1 DEF NoSleepOverWork
  <1>7. ASSUME NEW w \in Workers, WorkerStep(w) \/ SpuriousWakeup(w)
        PROVE  NoSleepOverWork'
    <2>1. CASE Acquire(w) \/ EvaluatePredicate(w)
      <3>1. Same
        BY <2>1 DEF Acquire, EvaluatePredicate, Waiting, Heading
      <3>2. QED
        BY <1>1, <3>1
    <2>2. CASE Block(w) \/ Leave(w)
      <3>1. jobs = <<>> /\ jobs' = <<>>
        BY <2>2 DEF Block, Leave, MayLeave, GapMeansEmpty
      <3>2. Heading' = Heading \ {w}
        BY <2>2 DEF Block, Leave, Heading
      <3>3. IsFiniteSet(Heading')
        BY <3>2, HeadingIsFinite, FS_RemoveElement
      <3>4. Cardinality(Heading') \in Nat
        BY <3>3, FS_CardinalityType
      <3>5. Len(jobs') = 0
        BY <3>1
      <3>6. QED
        BY <3>4, <3>5 DEF NoSleepOverWork
    <2>3. CASE TakeJob(w)
      <3>1. jobs # <<>> /\ jobs' = Tail(jobs)
        BY <2>3 DEF TakeJob, MayLeave, NoPopOfEmptyQueue
      <3>2. Len(jobs) \in Nat /\ Len(jobs') = Len(jobs) - 1
        BY <3>1
      <3>3. w \in Heading /\ Heading' = Heading \ {w} /\ Waiting' = Waiting
        BY <2>3 DEF TakeJob, Heading, Waiting
      <3>4. Cardinality(Heading') = Cardinality(Heading) - 1
        BY <3>3, HeadingIsFinite, FS_RemoveElement
      <3>5. QED
        BY <3>2, <3>3, <3>4, HeadingIsFinite DEF NoSleepOverWork
    <2>4. CASE RunJob(w) \/ SpuriousWakeup(w)
      <3>1. Joins(w)
        BY <2>4 DEF RunJob, SpuriousWakeup, Waiting, Heading
      <3>2. QED
        BY <1>2, <3>1
    <2>5. QED
      BY <1>7, <2>1, <2>2, <2>3, <2>4 DEF WorkerStep
  <1>8. QED
    BY <1>3, <1>4, <1>5, <1>6, <1>7 DEF Next, MainStep, Terminated

\* jobmanager.cpp:69: one notification per job wakes as many workers as there
\* are jobs to take, for pools and batches of any size.
THEOREM NotifyOneSuffices == Spec => []NoSleepOverWork
  <1>1. Init => NoSleepOverWork
    BY DEF Init, NoSleepOverWork, Waiting
  <1>2. QED
    BY <1>1, NoSleepStep, Invariance, PTL DEF Spec

-----------------------------------------------------------------------------
(* Steps: leaving the loop, and the batch the pool implements *)

\* jobmanager.cpp:44-47: a worker leaves once, and only when nothing is left.
THEOREM WorkersLeaveForGood == Spec => LeavesForGood
  <1> DEFINE Leaves == \A w \in Workers :
                /\ place[w] = "exit" => place'[w] = "exit"
                /\ place[w] # "exit" /\ place'[w] = "exit" =>
                     submitted = NumJobs /\ jobs = <<>> /\ main # "scope"
  <1>1. IInv /\ [Next]_vars => [Leaves]_vars
    <2> SUFFICES ASSUME IInv, [Next]_vars PROVE Leaves
      OBVIOUS
    <2> USE DEF IInv, TypeOK
    <2>1. CASE MainStep
      BY <2>1 DEF MainStep, SubmitJob, NotifyOne, Waiting, StopRunning,
                  NotifyAll, Join, Spawn
    <2>2. ASSUME NEW w \in Workers, WorkerStep(w) \/ SpuriousWakeup(w)
          PROVE  Leaves
      <3>1. CASE Leave(w)
        BY <3>1 DEF Leave, MayLeave, StopComesLast
      <3>2. CASE ~Leave(w)
        BY <2>2, <3>2 DEF WorkerStep, Acquire, EvaluatePredicate, Block,
                          TakeJob, RunJob, SpuriousWakeup
      <3>3. QED
        BY <3>1, <3>2
    <2>3. CASE UNCHANGED vars
      BY <2>3 DEF vars
    <2>4. QED
      BY <2>1, <2>2, <2>3 DEF Next, Terminated
  <1>2. QED
    BY <1>1, Invariance, PTL DEF Spec, LeavesForGood

\* A step of the pool is a step of the batch, or invisible to it.
LEMMA BatchStep ==
    ASSUME Workers # {}, IInv, [Next]_vars
    PROVE  [Batch!Next]_Batch!batchVars
  <1> USE DEF IInv, TypeOK, Places, Holding
  <1> DEFINE Invisible == /\ UNCHANGED <<submitted, jobs, pJob, finished>>
                          /\ (main = "done")' = (main = "done")
  <1>1. ASSUME Invisible PROVE UNCHANGED Batch!batchVars
    BY <1>1 DEF Batch!batchVars, Taken
  <1>2. ASSUME NEW w \in Workers, Spawn(w) PROVE Invisible
    BY <1>2 DEF Spawn
  <1>3. CASE SubmitJob
    <2>1. Len(jobs') = Len(jobs) + 1 /\ Len(jobs) \in Nat
      BY <1>3 DEF SubmitJob
    <2>2. Taken' = Taken
      BY <1>3, <2>1 DEF SubmitJob, Taken
    <2>3. Batch!Submit
      BY <1>3, <2>2 DEF SubmitJob, Batch!Submit
    <2>4. QED
      BY <2>3 DEF Batch!Next
  <1>4. CASE StopRunning \/ NotifyAll
    BY <1>1, <1>4 DEF StopRunning, NotifyAll
  <1>5. CASE Join
    <2>1. jobs = <<>> /\ InFlight = {}
      BY <1>5 DEF Join, ExitMeansDrained, InFlight
    <2>2. submitted = NumJobs
      BY <1>5 DEF Join, StopComesLast
    <2>3. Taken = NumJobs
      BY <2>1, <2>2 DEF Taken
    <2>4. finished = 1..NumJobs
      BY <2>1, <2>3 DEF EachJobInOnePlace
    <2>5. Batch!Close
      BY <1>5, <2>4 DEF Join, Batch!Close, Taken
    <2>6. QED
      BY <2>5 DEF Batch!Next
  <1>6. ASSUME NEW w \in Workers, WorkerStep(w) \/ SpuriousWakeup(w)
        PROVE  [Batch!Next]_Batch!batchVars
    <2>1. CASE \/ Acquire(w) \/ EvaluatePredicate(w) \/ Block(w)
               \/ Leave(w) \/ SpuriousWakeup(w)
      BY <1>1, <2>1 DEF Acquire, EvaluatePredicate, Block, Leave, SpuriousWakeup
    <2>2. CASE TakeJob(w)
      <3>1. jobs # <<>>
        BY <2>2 DEF TakeJob, MayLeave, NoPopOfEmptyQueue
      <3>2. /\ Len(jobs) \in Nat \ {0}
            /\ Len(jobs') = Len(jobs) - 1
            /\ Head(jobs) = Taken + 1
        BY <2>2, <3>1, TailOfJobs DEF TakeJob
      <3>3. Taken < submitted /\ Taken' = Taken + 1
        BY <2>2, <3>2 DEF TakeJob, Taken
      <3>4. pJob[w] = 0
        BY <2>2 DEF TakeJob, HoldsOnlyWhenRunning
      <3>5. Batch!Start(w)
        BY <2>2, <3>2, <3>3, <3>4 DEF TakeJob, Batch!Start
      <3>6. QED
        BY <3>5 DEF Batch!Next
    <2>3. CASE RunJob(w)
      <3>1. pJob[w] # 0 /\ pJob[w] \notin finished
        BY <2>3 DEF RunJob, HoldsOnlyWhenRunning, EachJobInOnePlace, InFlight
      <3>2. Batch!Finish(w)
        BY <2>3, <3>1 DEF RunJob, Batch!Finish, Taken
      <3>3. QED
        BY <3>2 DEF Batch!Next
    <2>4. QED
      BY <1>6, <2>1, <2>2, <2>3 DEF WorkerStep
  <1>7. CASE UNCHANGED vars
    BY <1>1, <1>7 DEF vars
  <1>8. QED
    BY <1>1, <1>2, <1>3, <1>4, <1>5, <1>6, <1>7 DEF Next, MainStep, Terminated

\* jobmanager.cpp implements what main() relies on: jobs start in the order
\* of their submission, each is executed once, and the scope closes when all
\* were, for every batch and every pool that has a worker.
THEOREM PoolImplementsBatch ==
    ASSUME Workers # {}
    PROVE  Spec => ImplementsBatch
  <1>1. ASSUME Init PROVE Batch!Init
    <2>1. Taken = 0
      <3>1. jobs = <<>>
        BY <1>1 DEF Init
      <3>2. Len(jobs) = 0
        BY <3>1
      <3>3. submitted = 0
        BY <1>1 DEF Init
      <3>4. QED
        BY <3>2, <3>3 DEF Taken
    <2>2. (main = "done") = FALSE
      BY <1>1 DEF Init
    <2>3. QED
      BY <1>1, <2>1, <2>2, Zenon DEF Init, Batch!Init
  <1>2. IInv /\ [Next]_vars => [Batch!Next]_Batch!batchVars
    BY BatchStep
  <1>3. QED
    BY <1>1, <1>2, Invariance, PTL DEF Spec, ImplementsBatch, Batch!Spec

-----------------------------------------------------------------------------
(***************************************************************************)
(* Going on.  Fairness needs a prover of its own, but what it feeds on is  *)
(* safety: in which states no thread can take a step of its own accord,    *)
(* and a quantity that every such step lowers.                             *)
(***************************************************************************)

\* What keeps the thread of main() from its next step.
MainCanGoOn ==
    \/ main = "scope" /\ (Constructed /\ submitted < NumJobs => mutex = NoThread)
    \/ main = "notify"
    \/ main = "join" /\ \A w \in Workers : place[w] = "exit"

\* What keeps a worker from its next step; a spurious wake-up is not waited for.
WorkerCanGoOn(w) ==
    \/ place[w] = "lock" /\ mutex = NoThread
    \/ place[w] \in Holding \cup {"run"}

Stuck == ~MainCanGoOn /\ \A w \in Workers : ~WorkerCanGoOn(w)

\* A worker that blocks, or is about to.
Asleep(w) == place[w] \in {"gap", "wait"}

\* Of all workers one, the owner of the mutex, can be between its predicate and
\* its wait when the flag falls; the others see the flag, or are notified.
OneMissesTheNotification ==
    main \in {"join", "done"} =>
        \A v, w \in Workers : Asleep(v) /\ Asleep(w) => v = w

\* The only places where everything stops are the end of ~JobManager and its
\* join() on a worker that missed the notification; by then all jobs are done.
StopsOnlyWhenDone ==
    Stuck =>
        /\ finished = 1..NumJobs
        /\ \/ main = "done"
           \/ /\ main = "join"
              /\ \E w \in Workers :
                    /\ place[w] = "wait"
                    /\ \A v \in Workers \ {w} : place[v] = "exit"

LEMMA OneMissesStep ==
    IInv /\ OneMissesTheNotification /\ [Next]_vars => OneMissesTheNotification'
  <1> SUFFICES ASSUME IInv, OneMissesTheNotification, [Next]_vars, main' \in {"join", "done"},
                      NEW v \in Workers, NEW w \in Workers, Asleep(v)', Asleep(w)'
               PROVE  v = w
    BY DEF OneMissesTheNotification
  <1> USE DEF IInv, TypeOK, Asleep
  <1>1. CASE MainStep
    <2>1. CASE NotifyAll
      <3>1. place[v] = "gap" /\ place[w] = "gap"
        BY <2>1 DEF NotifyAll
      <3>2. mutex = v /\ mutex = w
        BY <3>1 DEF MutexOwner, Holding
      <3>3. QED
        BY <3>2
    <2>2. CASE Join
      BY <2>2 DEF Join, OneMissesTheNotification
    <2>3. QED
      BY <1>1, <2>1, <2>2 DEF MainStep, SubmitJob, StopRunning, Spawn
  <1>2. ASSUME NEW u \in Workers, WorkerStep(u) \/ SpuriousWakeup(u)
        PROVE  v = w
    <2>1. main' = main /\ ~running
      BY <1>2 DEF WorkerStep, SpuriousWakeup, Acquire, EvaluatePredicate, Block,
                  Leave, TakeJob, RunJob, StopComesLast
    <2>2. Asleep(v) /\ Asleep(w)
      <3>1. CASE EvaluatePredicate(u)
        BY <2>1, <3>1 DEF EvaluatePredicate, WakePredicate
      <3>2. CASE Block(u)
        BY <3>2 DEF Block
      <3>3. CASE ~(EvaluatePredicate(u) \/ Block(u))
        BY <1>2, <3>3 DEF WorkerStep, SpuriousWakeup, Acquire, Leave, TakeJob, RunJob
      <3>4. QED
        BY <3>1, <3>2, <3>3
    <2>3. QED
      BY <2>1, <2>2 DEF OneMissesTheNotification
  <1>3. CASE UNCHANGED vars
    BY <1>3 DEF vars, OneMissesTheNotification
  <1>4. QED
    BY <1>1, <1>2, <1>3 DEF Next, Terminated

\* jobmanager.cpp:23-30: the flag falls without the mutex, but of all workers
\* only one can miss the notification for it, for a pool of any size.
THEOREM OnlyOneMisses == Spec => []OneMissesTheNotification
  <1>1. Init => OneMissesTheNotification
    BY DEF Init, OneMissesTheNotification
  <1>2. QED
    BY <1>1, OneMissesStep, Invariance, PTL DEF Spec

\* jobmanager.cpp: threads that wait for the mutex, for a job and for each other
\* do not stop before every job was executed, and then only where the one worker
\* that missed the shutdown is waited for.
THEOREM PoolStopsOnlyWhenDone ==
    ASSUME Workers # {}
    PROVE  Spec => []StopsOnlyWhenDone
  <1>1. IInv /\ NoSleepOverWork /\ OneMissesTheNotification => StopsOnlyWhenDone
    <2> SUFFICES ASSUME IInv, NoSleepOverWork, OneMissesTheNotification, Stuck
                 PROVE  /\ finished = 1..NumJobs
                        /\ \/ main = "done"
                           \/ /\ main = "join"
                              /\ \E w \in Workers :
                                    /\ place[w] = "wait"
                                    /\ \A v \in Workers \ {w} : place[v] = "exit"
      BY DEF StopsOnlyWhenDone
    <2> USE DEF IInv, TypeOK
    <2>1. mutex = NoThread
      <3>1. \A w \in Workers : place[w] \notin Holding
        BY DEF Stuck, WorkerCanGoOn
      <3>2. QED
        BY <3>1 DEF MutexOwner
    <2>2. main \in {"join", "done"}
      BY <2>1 DEF Stuck, MainCanGoOn
    <2>3. \A w \in Workers : place[w] \in {"wait", "exit"}
      <3>1. ~running /\ Constructed
        BY <2>2 DEF StopComesLast
      <3>2. \A w \in Workers : place[w] # "unborn"
        BY <3>1 DEF Constructed
      <3>3. QED
        BY <2>1, <3>2 DEF Stuck, WorkerCanGoOn, Places
    <2>4. jobs = <<>>
      <3>1. CASE Waiting = {}
        <4>1. \A w \in Workers : place[w] = "exit"
          BY <2>3, <3>1 DEF Waiting
        <4>2. QED
          BY <4>1 DEF ExitMeansDrained
      <3>2. CASE Waiting # {}
        <4>1. Heading = {}
          BY <2>3 DEF Heading, Holding
        <4>2. Cardinality(Heading) = 0
          BY <4>1, FS_EmptySet
        <4>3. Len(jobs) \in Nat /\ Len(jobs) <= 0
          BY <3>2, <4>2 DEF NoSleepOverWork
        <4>4. QED
          BY <4>3
      <3>3. QED
        BY <3>1, <3>2
    <2>5. submitted = NumJobs /\ Taken = NumJobs /\ InFlight = {}
      <3>1. submitted = NumJobs
        BY <2>2 DEF StopComesLast
      <3>2. InFlight = {}
        BY <2>3 DEF InFlight
      <3>3. QED
        BY <2>4, <3>1, <3>2 DEF Taken
    <2>6. finished = 1..NumJobs
      BY <2>5 DEF EachJobInOnePlace
    <2>7. CASE main = "join"
      <3>1. PICK w \in Workers : place[w] = "wait"
        BY <2>3, <2>7 DEF Stuck, MainCanGoOn
      <3>2. \A v \in Workers \ {w} : place[v] = "exit"
        BY <2>2, <2>3, <3>1 DEF OneMissesTheNotification, Asleep
      <3>3. QED
        BY <2>6, <2>7, <3>1, <3>2
    <2>8. QED
      BY <2>2, <2>6, <2>7
  <1>2. QED
    BY <1>1, Invariance, NotifyOneSuffices, OnlyOneMisses, PTL

-----------------------------------------------------------------------------
(* Every step but a spurious wake-up uses up some of the work. *)

Count == [p \in Places |-> Cardinality({w \in Workers : place[w] = p})]

\* What main() still does apart from submitting; each of the workers that its
\* notification wakes goes round the loop once more.
MainWork == CASE main = "scope"  -> 3 * Cardinality(Workers) + 3
              [] main = "notify" -> 3 * Cardinality(Workers) + 2
              [] main = "join"   -> 1
              [] main = "done"   -> 0

\* A job is submitted, taken and run by a worker that goes from "lock" over
\* "pred" to "decide"; a worker that finds no job comes to rest in "wait".
Work(m, s, q, u, r, l, p, d, g) ==
    m + 8 * s + 4 * q + 4 * u + 4 * r + 3 * l + 2 * p + d + g

WorkLeft == Work(MainWork, NumJobs - submitted, Len(jobs), Count["unborn"],
                 Count["run"], Count["lock"], Count["pred"], Count["decide"],
                 Count["gap"])

\* A step of a thread uses up work; a spurious wake-up adds one way from "lock"
\* back to "wait".
StepsUseUpWork ==
    [][\/ WorkLeft' < WorkLeft
       \/ (\E w \in Workers : SpuriousWakeup(w)) /\ WorkLeft' = WorkLeft + 3]_vars

\* One worker fewer at p, one more at q.
Moved(p, q) == /\ Count'[p] = Count[p] - 1
               /\ Count'[q] = Count[q] + 1
               /\ \A r \in Places : r # p /\ r # q => Count'[r] = Count[r]

LEMMA PlacesAre ==
    Places = {"pred", "gap", "decide", "unborn", "lock", "wait", "run", "exit"}
  BY DEF Places, Holding

LEMMA CountIsNumber == Count \in [Places -> Nat] /\ Cardinality(Workers) \in Nat
  <1>1. ASSUME NEW p \in Places PROVE Cardinality({w \in Workers : place[w] = p}) \in Nat
    <2> DEFINE S == {w \in Workers : place[w] = p}
    <2>1. IsFiniteSet(S)
      BY FS_Subset
    <2>2. QED
      BY <2>1, FS_CardinalityType
  <1>2. QED
    BY <1>1, FS_CardinalityType DEF Count

\* The numbers that the work is made of.
Numbers == /\ Cardinality(Workers) \in Nat
           /\ submitted \in Nat /\ NumJobs - submitted \in Nat /\ Len(jobs) \in Nat
           /\ Count["unborn"] \in Nat /\ Count["run"] \in Nat /\ Count["lock"] \in Nat
           /\ Count["pred"] \in Nat /\ Count["decide"] \in Nat /\ Count["gap"] \in Nat

LEMMA NumbersAre == TypeOK => Numbers
  <1> SUFFICES ASSUME TypeOK PROVE Numbers
    OBVIOUS
  <1>1. submitted \in Nat /\ NumJobs - submitted \in Nat /\ Len(jobs) \in Nat
    BY DEF TypeOK
  <1>2. QED
    BY <1>1, CountIsNumber, PlacesAre DEF Numbers

LEMMA OneMoves ==
    ASSUME place \in [Workers -> Places],
           NEW w \in Workers, NEW p \in Places, NEW q \in Places, p # q,
           place[w] = p, place' = [place EXCEPT ![w] = q]
    PROVE  Moved(p, q)
  <1> DEFINE S(r) == {v \in Workers : place[v] = r}
             T(r) == {v \in Workers : place'[v] = r}
  <1>1. \A r : IsFiniteSet(S(r))
    BY FS_Subset
  <1>2. T(q) = S(q) \cup {w} /\ w \notin S(q)
    OBVIOUS
  <1>3. T(p) = S(p) \ {w} /\ w \in S(p)
    OBVIOUS
  <1>4. \A r \in Places : r # p /\ r # q => T(r) = S(r)
    OBVIOUS
  <1>5. \A r \in Places : Count[r] = Cardinality(S(r)) /\ Count'[r] = Cardinality(T(r))
    BY DEF Count
  <1>6. IsFiniteSet(S(p)) /\ IsFiniteSet(S(q))
    BY <1>1
  <1> HIDE DEF S, T
  <1>7. Cardinality(T(q)) = Cardinality(S(q)) + 1
    BY <1>6, <1>2, FS_AddElement
  <1>8. Cardinality(T(p)) = Cardinality(S(p)) - 1
    BY <1>6, <1>3, FS_RemoveElement
  <1>9. Count'[q] = Count[q] + 1
    BY ONLY <1>5, <1>7, q \in Places
  <1>10. Count'[p] = Count[p] - 1
    BY ONLY <1>5, <1>8, p \in Places
  <1>11. \A r \in Places : r # p /\ r # q => Count'[r] = Count[r]
    BY ONLY <1>4, <1>5
  <1>12. QED
    BY ONLY <1>9, <1>10, <1>11 DEF Moved

\* What the steps make of the work: arithmetic.
LEMMA WorkFalls ==
    \A m, s, q, u, r, l, p, d, g \in Nat :
        LET Now == Work(m, s, q, u, r, l, p, d, g)
        IN  /\ Now \in Nat
            /\ Work(m, s, q, u - 1, r, l + 1, p, d, g) < Now
            /\ Work(m, s - 1, q + 1, u, r, l, p, d, g) < Now
            /\ Work(m, s - 1, q + 1, u, r, l + 1, p, d, g) < Now
            /\ Work(m, s, q, u, r, l - 1, p + 1, d, g) < Now
            /\ Work(m, s, q, u, r, l, p - 1, d + 1, g) < Now
            /\ Work(m, s, q, u, r, l, p - 1, d, g + 1) < Now
            /\ Work(m, s, q, u, r, l, p, d - 1, g) < Now
            /\ Work(m, s, q, u, r, l, p, d, g - 1) < Now
            /\ Work(m, s, q - 1, u, r + 1, l, p, d - 1, g) < Now
            /\ Work(m, s, q, u, r - 1, l + 1, p, d, g) < Now
  BY DEF Work

LEMMA WorkGrows ==
    \A m, s, q, u, r, l, p, d, g \in Nat :
        LET Now == Work(m, s, q, u, r, l, p, d, g)
        IN  /\ Now \in Nat
            /\ Work(m, s, q, u, r, l + 1, p, d, g) \in Nat
            /\ Now + 3 <= Work(m, s, q, u, r, l + 1, p, d, g)
            /\ Work(m, s, q, u, r, l + 1, p, d, g) <= Now + 3
  BY DEF Work

LEMMA MainWorkFalls ==
    \A w, s, q, u, r, l, p, d, g \in Nat :
        /\ Work(3 * w + 2, s, q, u, r, l, p, d, g) < Work(3 * w + 3, s, q, u, r, l, p, d, g)
        /\ \A woken \in Nat : woken <= w =>
              Work(1, s, q, u, r, woken, p, d, g) < Work(3 * w + 2, s, q, u, r, l, p, d, g)
        /\ Work(0, s, q, u, r, l, p, d, g) < Work(1, s, q, u, r, l, p, d, g)
  BY DEF Work

LEMMA MainWorkIsNumber == TypeOK => MainWork \in Nat
  <1>1. \A w \in Nat : 3 * w + 3 \in Nat /\ 3 * w + 2 \in Nat
    OBVIOUS
  <1>2. QED
    BY <1>1, CountIsNumber DEF MainWork, TypeOK

LEMMA WorkIsCounted == TypeOK => WorkLeft \in Nat
  BY NumbersAre, MainWorkIsNumber, WorkFalls DEF WorkLeft, Numbers

LEMMA MainUsesUpWork == TypeOK /\ MainStep => WorkLeft' < WorkLeft
  <1> SUFFICES ASSUME TypeOK, MainStep PROVE WorkLeft' < WorkLeft
    OBVIOUS
  <1>t. place \in [Workers -> Places]
    BY DEF TypeOK
  <1>n. Numbers /\ MainWork \in Nat
    BY NumbersAre, MainWorkIsNumber
  <1>1. ASSUME NEW w \in Workers, Spawn(w) PROVE WorkLeft' < WorkLeft
    <2>1. place[w] = "unborn" /\ place' = [place EXCEPT ![w] = "lock"]
      BY <1>1 DEF Spawn
    <2>2. UNCHANGED <<main, submitted, jobs>>
      BY <1>1 DEF Spawn
    <2>3. Moved("unborn", "lock")
      BY <2>1, <1>t, OneMoves, PlacesAre
    <2>4. WorkLeft' = Work(MainWork, NumJobs - submitted, Len(jobs),
                          Count["unborn"] - 1, Count["run"], Count["lock"] + 1,
                          Count["pred"], Count["decide"], Count["gap"])
      BY <2>2, <2>3, PlacesAre DEF Moved, WorkLeft, MainWork
    <2>5. QED
      BY <2>4, <1>n, WorkFalls DEF WorkLeft, Numbers
  <1>2. CASE SubmitJob
    <2>1. /\ main' = main /\ submitted' = submitted + 1
          /\ Len(jobs') = Len(jobs) + 1
      BY <1>2 DEF SubmitJob, TypeOK
    <2>2. NumJobs - submitted' = NumJobs - submitted - 1
      BY <2>1 DEF TypeOK
    <2>3. MainWork' = MainWork
      BY <2>1 DEF MainWork
    <2>4. CASE place' = place
      <3>1. Count' = Count
        BY <2>4 DEF Count
      <3>2. WorkLeft' = Work(MainWork, NumJobs - submitted - 1, Len(jobs) + 1,
                          Count["unborn"], Count["run"], Count["lock"],
                          Count["pred"], Count["decide"], Count["gap"])
        BY <2>1, <2>2, <2>3, <3>1 DEF WorkLeft
      <3>3. QED
        BY <3>2, <1>n, WorkFalls DEF WorkLeft, Numbers
    <2>5. ASSUME NEW w \in Waiting, place' = [place EXCEPT ![w] = "lock"]
          PROVE  WorkLeft' < WorkLeft
      <3>1. Moved("wait", "lock")
        BY <2>5, <1>t, OneMoves, PlacesAre DEF Waiting
      <3>2. WorkLeft' = Work(MainWork, NumJobs - submitted - 1, Len(jobs) + 1,
                          Count["unborn"], Count["run"], Count["lock"] + 1,
                          Count["pred"], Count["decide"], Count["gap"])
        BY <2>1, <2>2, <2>3, <3>1, PlacesAre DEF Moved, WorkLeft
      <3>3. QED
        BY <3>2, <1>n, WorkFalls DEF WorkLeft, Numbers
    <2>6. QED
      BY <1>2, <2>4, <2>5 DEF SubmitJob, NotifyOne
  <1>3. CASE StopRunning
    <2>1. /\ main = "scope" /\ main' = "notify"
          /\ UNCHANGED <<submitted, jobs>> /\ Count' = Count
      BY <1>3 DEF StopRunning, Count
    <2>2. /\ MainWork = 3 * Cardinality(Workers) + 3
          /\ MainWork' = 3 * Cardinality(Workers) + 2
      BY <2>1 DEF MainWork
    <2>3. WorkLeft' = Work(3 * Cardinality(Workers) + 2, NumJobs - submitted, Len(jobs),
                          Count["unborn"], Count["run"], Count["lock"],
                          Count["pred"], Count["decide"], Count["gap"])
      BY <2>1, <2>2 DEF WorkLeft
    <2>4. QED
      BY <2>2, <2>3, <1>n, MainWorkFalls DEF WorkLeft, Numbers
  <1>4. CASE NotifyAll
    <2>1. main = "notify" /\ main' = "join" /\ UNCHANGED <<submitted, jobs>>
      BY <1>4 DEF NotifyAll
    <2>2. \A r \in Places : r # "wait" /\ r # "lock" => Count'[r] = Count[r]
      <3>1. \A w \in Workers :
              place'[w] = IF place[w] = "wait" THEN "lock" ELSE place[w]
        BY <1>4 DEF NotifyAll
      <3>2. ASSUME NEW r \in Places, r # "wait", r # "lock"
            PROVE  {w \in Workers : place'[w] = r} = {w \in Workers : place[w] = r}
        BY <3>1, <3>2
      <3>3. QED
        BY <3>2 DEF Count
    <2>3. Count'["lock"] \in Nat /\ Count'["lock"] <= Cardinality(Workers)
      <3> DEFINE S == {w \in Workers : place'[w] = "lock"}
      <3>1. IsFiniteSet(S) /\ Cardinality(S) <= Cardinality(Workers)
        BY FS_Subset
      <3>2. Cardinality(S) \in Nat
        BY <3>1, FS_CardinalityType
      <3>3. Count'["lock"] = Cardinality(S)
        BY PlacesAre DEF Count
      <3>4. QED
        BY <3>1, <3>2, <3>3
    <2>4. MainWork = 3 * Cardinality(Workers) + 2 /\ MainWork' = 1
      BY <2>1 DEF MainWork
    <2>5. WorkLeft' = Work(1, NumJobs - submitted, Len(jobs), Count["unborn"],
                           Count["run"], Count'["lock"], Count["pred"],
                           Count["decide"], Count["gap"])
      BY <2>1, <2>2, <2>4, PlacesAre DEF WorkLeft
    <2>6. QED
      BY <2>3, <2>4, <2>5, <1>n, MainWorkFalls DEF WorkLeft, Numbers
  <1>5. CASE Join
    <2>1. /\ main = "join" /\ main' = "done"
          /\ UNCHANGED <<submitted, jobs>> /\ Count' = Count
      BY <1>5 DEF Join, Count
    <2>2. MainWork = 1 /\ MainWork' = 0
      BY <2>1 DEF MainWork
    <2>3. WorkLeft' = Work(0, NumJobs - submitted, Len(jobs),
                          Count["unborn"], Count["run"], Count["lock"],
                          Count["pred"], Count["decide"], Count["gap"])
      BY <2>1, <2>2 DEF WorkLeft
    <2>4. QED
      BY <2>2, <2>3, <1>n, MainWorkFalls DEF WorkLeft, Numbers
  <1>6. QED
    BY <1>1, <1>2, <1>3, <1>4, <1>5 DEF MainStep

LEMMA WorkersUseUpWork ==
    ASSUME TypeOK, NoPopOfEmptyQueue, NEW w \in Workers
    PROVE  /\ WorkerStep(w) => WorkLeft' < WorkLeft
           /\ SpuriousWakeup(w) => WorkLeft' = WorkLeft + 3
  <1>t. place \in [Workers -> Places]
    BY DEF TypeOK
  <1>n. Numbers /\ MainWork \in Nat
    BY NumbersAre, MainWorkIsNumber
  <1>1. ASSUME WorkerStep(w) PROVE WorkLeft' < WorkLeft
    <2>1. CASE Acquire(w)
      <3>1. place[w] = "lock" /\ place' = [place EXCEPT ![w] = "pred"]
        BY <2>1 DEF Acquire
      <3>2. UNCHANGED <<main, submitted, jobs>>
        BY <2>1 DEF Acquire
      <3>3. Moved("lock", "pred")
        BY <3>1, <1>t, OneMoves, PlacesAre
      <3>4. WorkLeft' = Work(MainWork, NumJobs - submitted, Len(jobs),
                          Count["unborn"], Count["run"], Count["lock"] - 1,
                          Count["pred"] + 1, Count["decide"], Count["gap"])
        BY <3>2, <3>3, PlacesAre DEF Moved, WorkLeft, MainWork
      <3>5. QED
        BY <3>4, <1>n, WorkFalls DEF WorkLeft, Numbers
    <2>2. CASE EvaluatePredicate(w)
      <3>1. place[w] = "pred" /\ UNCHANGED <<main, submitted, jobs>>
        BY <2>2 DEF EvaluatePredicate
      <3>2. CASE place' = [place EXCEPT ![w] = "decide"]
        <4>1. Moved("pred", "decide")
          BY <3>1, <3>2, <1>t, OneMoves, PlacesAre
        <4>2. WorkLeft' = Work(MainWork, NumJobs - submitted, Len(jobs),
                          Count["unborn"], Count["run"], Count["lock"],
                          Count["pred"] - 1, Count["decide"] + 1, Count["gap"])
          BY <3>1, <4>1, PlacesAre DEF Moved, WorkLeft, MainWork
        <4>3. QED
          BY <4>2, <1>n, WorkFalls DEF WorkLeft, Numbers
      <3>3. CASE place' = [place EXCEPT ![w] = "gap"]
        <4>1. Moved("pred", "gap")
          BY <3>1, <3>3, <1>t, OneMoves, PlacesAre
        <4>2. WorkLeft' = Work(MainWork, NumJobs - submitted, Len(jobs),
                          Count["unborn"], Count["run"], Count["lock"],
                          Count["pred"] - 1, Count["decide"], Count["gap"] + 1)
          BY <3>1, <4>1, PlacesAre DEF Moved, WorkLeft, MainWork
        <4>3. QED
          BY <4>2, <1>n, WorkFalls DEF WorkLeft, Numbers
      <3>4. QED
        BY <2>2, <3>2, <3>3 DEF EvaluatePredicate
    <2>3. CASE Block(w)
      <3>1. place[w] = "gap" /\ place' = [place EXCEPT ![w] = "wait"]
        BY <2>3 DEF Block
      <3>2. UNCHANGED <<main, submitted, jobs>>
        BY <2>3 DEF Block
      <3>3. Moved("gap", "wait")
        BY <3>1, <1>t, OneMoves, PlacesAre
      <3>4. WorkLeft' = Work(MainWork, NumJobs - submitted, Len(jobs),
                          Count["unborn"], Count["run"], Count["lock"],
                          Count["pred"], Count["decide"], Count["gap"] - 1)
        BY <3>2, <3>3, PlacesAre DEF Moved, WorkLeft, MainWork
      <3>5. QED
        BY <3>4, <1>n, WorkFalls DEF WorkLeft, Numbers
    <2>4. CASE Leave(w)
      <3>1. place[w] = "decide" /\ place' = [place EXCEPT ![w] = "exit"]
        BY <2>4 DEF Leave
      <3>2. UNCHANGED <<main, submitted, jobs>>
        BY <2>4 DEF Leave
      <3>3. Moved("decide", "exit")
        BY <3>1, <1>t, OneMoves, PlacesAre
      <3>4. WorkLeft' = Work(MainWork, NumJobs - submitted, Len(jobs),
                          Count["unborn"], Count["run"], Count["lock"],
                          Count["pred"], Count["decide"] - 1, Count["gap"])
        BY <3>2, <3>3, PlacesAre DEF Moved, WorkLeft, MainWork
      <3>5. QED
        BY <3>4, <1>n, WorkFalls DEF WorkLeft, Numbers
    <2>5. CASE TakeJob(w)
      <3>1. place[w] = "decide" /\ place' = [place EXCEPT ![w] = "run"]
        BY <2>5 DEF TakeJob
      <3>2. jobs # <<>> /\ jobs' = Tail(jobs) /\ UNCHANGED <<main, submitted>>
        BY <2>5 DEF TakeJob, MayLeave, NoPopOfEmptyQueue
      <3>3. Len(jobs') = Len(jobs) - 1
        BY <3>2 DEF TypeOK
      <3>4. Moved("decide", "run")
        BY <3>1, <1>t, OneMoves, PlacesAre
      <3>5. WorkLeft' = Work(MainWork, NumJobs - submitted, Len(jobs) - 1,
                          Count["unborn"], Count["run"] + 1, Count["lock"],
                          Count["pred"], Count["decide"] - 1, Count["gap"])
        BY <3>2, <3>3, <3>4, PlacesAre DEF Moved, WorkLeft, MainWork
      <3>6. QED
        BY <3>5, <1>n, WorkFalls DEF WorkLeft, Numbers
    <2>6. CASE RunJob(w)
      <3>1. place[w] = "run" /\ place' = [place EXCEPT ![w] = "lock"]
        BY <2>6 DEF RunJob
      <3>2. UNCHANGED <<main, submitted, jobs>>
        BY <2>6 DEF RunJob
      <3>3. Moved("run", "lock")
        BY <3>1, <1>t, OneMoves, PlacesAre
      <3>4. WorkLeft' = Work(MainWork, NumJobs - submitted, Len(jobs),
                          Count["unborn"], Count["run"] - 1, Count["lock"] + 1,
                          Count["pred"], Count["decide"], Count["gap"])
        BY <3>2, <3>3, PlacesAre DEF Moved, WorkLeft, MainWork
      <3>5. QED
        BY <3>4, <1>n, WorkFalls DEF WorkLeft, Numbers
    <2>7. QED
      BY <1>1, <2>1, <2>2, <2>3, <2>4, <2>5, <2>6 DEF WorkerStep
  <1>2. ASSUME SpuriousWakeup(w) PROVE WorkLeft' = WorkLeft + 3
    <2>1. place[w] = "wait" /\ place' = [place EXCEPT ![w] = "lock"]
      BY <1>2 DEF SpuriousWakeup
    <2>2. UNCHANGED <<main, submitted, jobs>>
      BY <1>2 DEF SpuriousWakeup
    <2>3. Moved("wait", "lock")
      BY <2>1, <1>t, OneMoves, PlacesAre
    <2>4. WorkLeft' = Work(MainWork, NumJobs - submitted, Len(jobs),
                          Count["unborn"], Count["run"], Count["lock"] + 1,
                          Count["pred"], Count["decide"], Count["gap"])
      BY <2>2, <2>3, PlacesAre DEF Moved, WorkLeft, MainWork
    <2>5. /\ WorkLeft \in Nat /\ WorkLeft' \in Nat
          /\ WorkLeft + 3 <= WorkLeft' /\ WorkLeft' <= WorkLeft + 3
      BY <2>4, <1>n, WorkGrows DEF WorkLeft, Numbers
    <2>6. QED
      BY <2>5
  <1>3. QED
    BY <1>1, <1>2

\* jobmanager.cpp: whatever the interleaving, a pool that nobody wakes spuriously
\* takes a bounded number of steps, from where PoolStopsOnlyWhenDone has it stop.
THEOREM PoolUsesUpWork == Spec => [](WorkLeft \in Nat) /\ StepsUseUpWork
  <1> DEFINE Step == \/ WorkLeft' < WorkLeft
                     \/ (\E w \in Workers : SpuriousWakeup(w)) /\ WorkLeft' = WorkLeft + 3
  <1>1. IInv /\ [Next]_vars => [Step]_vars
    <2> SUFFICES ASSUME IInv, Next PROVE [Step]_vars
      OBVIOUS
    <2>1. CASE MainStep
      BY <2>1, MainUsesUpWork DEF IInv
    <2>2. ASSUME NEW w \in Workers, WorkerStep(w) PROVE Step
      BY <2>2, WorkersUseUpWork DEF IInv
    <2>3. ASSUME NEW w \in Workers, SpuriousWakeup(w) PROVE Step
      BY <2>3, WorkersUseUpWork DEF IInv
    <2>4. QED
      BY <2>1, <2>2, <2>3 DEF Next, Terminated
  <1>2. IInv => WorkLeft \in Nat
    BY WorkIsCounted DEF IInv
  <1>3. QED
    BY <1>1, <1>2, Invariance, PTL DEF Spec, StepsUseUpWork
=============================================================================
