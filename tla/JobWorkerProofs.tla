--------------------------- MODULE JobWorkerProofs ---------------------------
(* Theorems about the worker processes of JobWorker, for any number of      *)
(* processes, slots, jobs and sessions and any concurrency.                 *)
EXTENDS JobWorker, JobQueueProofs, FiniteSetTheorems

-----------------------------------------------------------------------------
(* The inductive invariant.                                                 *)

AtWork == {"handling", "handled", "failing", "writing", "completed", "failed"}
Phases == AtWork \cup {"claimed"}

FiniteJobs == {S \in SUBSET Jobs : IsFiniteSet(S)}

TaskRecord == [proc : Procs, job : Jobs, attempt : Nat, phase : Phases, fiber : BOOLEAN]

ProcRecord == [isRunning : BOOLEAN, isHealthy : BOOLEAN, shouldStop : BOOLEAN,
               stopping : BOOLEAN, session : Nat, slots : Nat,
               activeJobs : FiniteJobs]

WorkerType ==
    /\ proc \in [Procs -> ProcRecord]
    /\ task \in SUBSET TaskRecord
    /\ succeeded \in [Jobs -> Nat]
    /\ terminated \in [Jobs -> Nat]
    /\ throws \in Nat
    /\ dropped \in SUBSET Nat

\* A worker that runs has the session it started, no other worker has it, and only
\* workers that run poll.
Sessions ==
    /\ \A p \in Procs :
         /\ proc[p].isRunning => proc[p].session \in 1..lastSession
         /\ proc[p].stopping => proc[p].isRunning
         /\ Dequeuing(p) => proc[p].isRunning
    /\ \A p, q \in Procs :
         proc[p].isRunning /\ proc[q].isRunning /\ proc[p].session = proc[q].session => p = q

\* Every task has a token of its own.
OwnTokens ==
    /\ \A t \in task : t.attempt \in Tokens
    /\ \A t, u \in task : t.attempt = u.attempt => t = u

\* What fail() has read is of the task with its token, and while that attempt owns
\* its job no retry is counted.
Reads ==
    \A f \in failing :
        /\ f.attemptId \in Tokens
        /\ \A t \in task : t.attempt = f.attemptId => t.job = f.job
        /\ Owns(f.job, f.attemptId) => job[f.job].retryCount = f.retryCount

\* A job waits in the array of a poll of a worker that runs, and every attempt that
\* its process has started is an older one.
Waits ==
    \A t \in task : t.phase = "claimed" =>
        /\ ~t.fiber /\ proc[t.proc].isRunning
        /\ \A u \in task : u.proc = t.proc /\ u.phase # "claimed" => u.attempt < t.attempt

\* No task has a token younger than the one that owns its job.
YoungestOwns ==
    \A t \in task : job[t.job].status = Processing => t.attempt <= job[t.job].attemptId

\* An attempt that wrote an outcome, or whose fiber was replaced, owns nothing; a
\* fiber is one of a worker that runs.
LetsGo(t) ==
    t.phase \in {"completed", "failed"} \/ (t.phase # "claimed" /\ ~t.fiber)

LetGo ==
    \A t \in task :
        /\ LetsGo(t) => ~Owns(t.job, t.attempt)
        /\ t.fiber => proc[t.proc].isRunning

Done == {Completed, "deleted"}
Lost == {Failed, "deleted"}

\* A success is reported by the one attempt whose complete() was applied.
Outcomes ==
    /\ \A t \in task : t.phase = "completed" =>
         job[t.job].status \in Done /\ succeeded[t.job] = 0 /\ terminated[t.job] = 0
    /\ \A t, u \in task :
         t.phase = "completed" /\ u.phase = "completed" /\ t.job = u.job => t = u
    /\ \A j \in Jobs : /\ succeeded[j] <= 1
                       /\ succeeded[j] > 0 => job[j].status \in Done
                       /\ terminated[j] > 0 => job[j].status \in Lost
                       /\ succeeded[j] = 0 \/ terminated[j] = 0

-----------------------------------------------------------------------------
(* The workers drive the queue.                                             *)

LEMMA NowIsAStamp == TypeOK => now \in Stamps
BY QueueConstants DEF TypeOK, Stamps

\* Every step of a worker is a statement of the repository, or none.
LEMMA LifecycleDrives ==
    ASSUME TypeOK, WorkerType, Sessions, NEW p \in Procs, Lifecycle(p) \/ WorkerHeartbeat(p)
    PROVE  [Next]_vars
<1>1. now \in Stamps /\ SlotOf[p] \in Slots
  BY NowIsAStamp, WorkerConstants
<1>2. CASE StartWorker(p)
  BY <1>1, <1>2 DEF StartWorker, Next, Attend
<1>3. CASE RequestStop(p)
  BY <1>3 DEF RequestStop
<1>4. CASE StopWorker(p)
  <2>1. proc[p].session \in 1..lastSession
    BY <1>4 DEF StopWorker, Sessions
  <2>2. QED
    BY <1>1, <1>4, <2>1 DEF StopWorker, Next, Attend
<1>5. CASE Exit(p)
  <2> DEFINE S == {f \in failing : \E t \in task : t.proc = p /\ t.attempt = f.attemptId}
  <2>1. failing' = failing \ S
    BY <1>5 DEF Exit
  <2>2. S \in SUBSET failing
    OBVIOUS
  <2>3. UNCHANGED <<now, job, session, lastSession, lastAttempt, claims>>
    BY <1>5 DEF Exit
  <2> HIDE DEF S
  <2>4. CASE S = {}
    BY <2>1, <2>3, <2>4 DEF vars
  <2>5. CASE S # {}
    BY <2>1, <2>2, <2>3, <2>5 DEF CallersDie, Next
  <2>6. QED
    BY <2>4, <2>5
<1>6. CASE WorkerHeartbeat(p)
  <2>1. proc[p].session \in 1..lastSession
    BY <1>6 DEF WorkerHeartbeat, Sessions
  <2>2. QED
    BY <1>1, <1>6, <2>1 DEF WorkerHeartbeat, Next, Attend
<1>7. QED
  BY <1>2, <1>3, <1>4, <1>5, <1>6 DEF Lifecycle

LEMMA PollingDrives ==
    ASSUME TypeOK, WorkerType, Sessions, NEW p \in Procs, Polling(p) \/ PollThrows(p)
    PROVE  [Next]_vars
<1>1. now \in Stamps /\ SlotOf[p] \in Slots
  BY NowIsAStamp, WorkerConstants
<1>2. Dequeuing(p) => proc[p].session \in 1..lastSession
  BY DEF Sessions
<1>3. CASE BeginPoll(p) \/ StartClaimed(p)
  BY <1>3 DEF BeginPoll, StartClaimed
<1>4. CASE PollReturnsNothing(p)
  BY <1>1, <1>2, <1>4 DEF PollReturnsNothing, Next, Attend
<1>5. ASSUME NEW j \in Jobs, PollClaims(p, j)
      PROVE  [Next]_vars
  BY <1>1, <1>2, <1>5 DEF PollClaims, Next, Attend
<1>6. CASE PollThrows(p)
  BY <1>1, <1>2, <1>6 DEF PollThrows, Next, Attend
<1>7. QED
  BY <1>3, <1>4, <1>5, <1>6 DEF Polling

LEMMA AttemptDrives ==
    ASSUME TypeOK, WorkerType, OwnTokens, NEW t \in task, Attempt(t)
    PROVE  [Next]_vars
<1>1. now \in Stamps /\ t.job \in Jobs /\ t.attempt \in Tokens
  BY NowIsAStamp DEF WorkerType, TaskRecord, OwnTokens
<1>2. CASE AttemptHeartbeat(t) \/ ReportProgress(t)
  BY <1>1, <1>2 DEF AttemptHeartbeat, ReportProgress, Next, Work
<1>3. CASE Execute(t)
  BY <1>3 DEF Execute, HandlerEnds, HandlerOverruns
<1>4. CASE CompleteJob(t) \/ CompleteThrows(t)
  BY <1>1, <1>4 DEF CompleteJob, CompleteThrows, Next, Work
<1>5. CASE FailReads(t)
  BY <1>1, <1>5 DEF FailReads, Next, Work
<1>6. CASE FailWrites(t)
  BY <1>1, <1>6 DEF FailWrites, Next, Settling
<1>7. CASE FailThrows(t)
  <2> DEFINE S == {f \in failing : f.attemptId = t.attempt}
  <2>1. failing' = failing \ S
    BY <1>7 DEF FailThrows
  <2>2. S \in SUBSET failing
    OBVIOUS
  <2>3. UNCHANGED <<now, job, session, lastSession, lastAttempt, claims>>
    BY <1>7 DEF FailThrows
  <2> HIDE DEF S
  <2>4. CASE S = {}
    BY <2>1, <2>3, <2>4 DEF vars
  <2>5. CASE S # {}
    BY <2>1, <2>2, <2>3, <2>5 DEF CallersDie, Next
  <2>6. QED
    BY <2>4, <2>5
<1>8. CASE SuccessCallback(t) \/ EmitTerminalFailure(t)
  BY <1>8 DEF SuccessCallback, EmitTerminalFailure
<1>9. QED
  BY <1>2, <1>3, <1>4, <1>5, <1>6, <1>7, <1>8 DEF Attempt, Settle

LEMMA WorkersDrive ==
    ASSUME TypeOK, WorkerType, Sessions, OwnTokens, [WorkerNext]_wvars
    PROVE  [Next]_vars
<1>1. CASE (Produce \/ Tick) /\ UNCHANGED memory
  BY <1>1 DEF Next
<1>2. CASE UNCHANGED wvars
  BY <1>2 DEF wvars
<1>3. QED
  BY <1>1, <1>2, LifecycleDrives, PollingDrives, AttemptDrives DEF WorkerNext

-----------------------------------------------------------------------------
(* What a step of the queue leaves to an attempt.                           *)

\* No attempt gets its job back, and while it owns the job the row counts no retry
\* and names one session.
LEMMA OwnershipFades ==
    ASSUME TypeOK, [Next]_vars, NEW j \in Jobs, NEW a \in Tokens, Owns(j, a)'
    PROVE  /\ Owns(j, a)
           /\ job'[j].retryCount = job[j].retryCount
           /\ job'[j].workerSessionId = job[j].workerSessionId
<1>1. RowStep(j, job[j], job'[j])
  BY AnyStep
<1>2. a # Unfenced /\ a # lastAttempt + 1
  BY DEF Tokens, Unfenced, TypeOK
<1>3. job'[j].status = Processing /\ job'[j].attemptId = a
  BY <1>2 DEF Owns
<1>4. job'[j] = job[j] \/ Touched(job[j], job'[j])
  BY <1>1, <1>2, <1>3 DEF RowStep, LiveStep, Inserted, Given, GivenBack, SettledNow, Removed,
         Terminal, Pending, Processing, Completed, Failed
<1>5. QED
  BY <1>2, <1>3, <1>4 DEF Touched, Owns

\* A settled row keeps its outcome until it is removed.
LEMMA OutcomeStays ==
    ASSUME TypeOK, [Next]_vars, NEW j \in Jobs
    PROVE  /\ job[j].status \in Done => job'[j].status \in Done
           /\ job[j].status \in Lost => job'[j].status \in Lost
<1>1. RowStep(j, job[j], job'[j])
  BY AnyStep
<1>2. QED
  BY <1>1 DEF RowStep, LiveStep, Inserted, Touched, Given, GivenBack, SettledNow, Removed,
         Active, Terminal, Done, Lost, Pending, Processing, Completed, Failed

-----------------------------------------------------------------------------
(* Types and sessions.                                                      *)

LEMMA MovedType ==
    ASSUME WorkerType, NEW t \in task, NEW phase \in Phases
    PROVE  Moved(t, phase) \in SUBSET TaskRecord
BY DEF WorkerType, Moved, TaskRecord

\* The worker t.proc after the wrapper of t has ended.
Left(t) == [proc[t.proc] EXCEPT !.activeJobs = @ \ {t.job}]

LEMMA FinishedProc ==
    ASSUME WorkerType, NEW t \in task
    PROVE  /\ t.proc \in Procs
           /\ Left(t) \in ProcRecord
           /\ Left(t).isRunning = proc[t.proc].isRunning
           /\ Left(t).stopping = proc[t.proc].stopping
           /\ Left(t).session = proc[t.proc].session
           /\ Left(t).slots = proc[t.proc].slots
<1>1. t.proc \in Procs /\ proc[t.proc] \in ProcRecord
  BY DEF WorkerType, TaskRecord
<1>2. proc[t.proc].activeJobs \ {t.job} \in FiniteJobs
  BY <1>1, FS_RemoveElement DEF ProcRecord, FiniteJobs
<1>3. QED
  BY <1>1, <1>2 DEF Left, ProcRecord

LEMMA FinishType ==
    ASSUME WorkerType, NEW t \in task, Finish(t)
    PROVE  proc' \in [Procs -> ProcRecord] /\ task' \in SUBSET TaskRecord
<1>1. proc' = [proc EXCEPT ![t.proc] = Left(t)] /\ task' \subseteq task
  BY FinishedProc DEF Finish, Left, WorkerType
<1>2. QED
  BY <1>1, FinishedProc DEF WorkerType

\* The worker object of p is replaced.
LEMMA OneProcWritten ==
    ASSUME WorkerType, NEW p \in Procs, NEW w \in ProcRecord, proc' = [proc EXCEPT ![p] = w]
    PROVE  proc' \in [Procs -> ProcRecord]
BY DEF WorkerType

LEMMA DownType == Down \in ProcRecord
<1>1. {} \in FiniteJobs
  BY FS_EmptySet DEF FiniteJobs
<1>2. QED
  BY <1>1 DEF Down, ProcRecord, NoSession

LEMMA InitWorkerType == WorkerInit => WorkerType
BY DownType DEF WorkerInit, WorkerType

LEMMA LifecycleType ==
    ASSUME TypeOK, WorkerType, NEW p \in Procs, Lifecycle(p) \/ WorkerHeartbeat(p)
    PROVE  WorkerType'
<1>0. proc[p] \in ProcRecord /\ lastSession \in Nat /\ lastAttempt \in Nat
  BY DEF WorkerType, TypeOK
<1>1. CASE StartWorker(p)
  <2> DEFINE w == [proc[p] EXCEPT !.isRunning = TRUE, !.isHealthy = TRUE,
                                  !.shouldStop = FALSE, !.session = lastSession']
  <2>1. lastSession' \in Nat
    BY <1>0, <1>1 DEF StartWorker, StartWorkerSession
  <2>2. w \in ProcRecord
    BY <1>0, <2>1 DEF ProcRecord
  <2>3. proc' = [proc EXCEPT ![p] = w] /\ UNCHANGED <<task, history>>
    BY <1>1 DEF StartWorker
  <2> HIDE DEF w
  <2>4. QED
    BY <2>2, <2>3, OneProcWritten DEF WorkerType, history
<1>2. CASE RequestStop(p)
  <2> DEFINE w == [proc[p] EXCEPT !.shouldStop = TRUE, !.stopping = TRUE]
  <2>1. w \in ProcRecord
    BY <1>0 DEF ProcRecord
  <2>2. proc' = [proc EXCEPT ![p] = w] /\ UNCHANGED <<task, history>>
    BY <1>2 DEF RequestStop, WorkerType
  <2> HIDE DEF w
  <2>3. QED
    BY <2>1, <2>2, OneProcWritten DEF WorkerType, history
<1>3. CASE StopWorker(p)
  <2> DEFINE w == [proc[p] EXCEPT !.isRunning = FALSE, !.stopping = FALSE,
                                  !.session = NoSession]
  <2>1. w \in ProcRecord
    BY <1>0 DEF ProcRecord, NoSession
  <2>2. proc' = [proc EXCEPT ![p] = w] /\ UNCHANGED <<task, history>>
    BY <1>3 DEF StopWorker
  <2> HIDE DEF w
  <2>3. QED
    BY <2>1, <2>2, OneProcWritten DEF WorkerType, history
<1>4. CASE Exit(p)
  <2>2. proc' \in [Procs -> ProcRecord]
    BY <1>4, DownType, OneProcWritten DEF Exit
  <2>3. task' \in SUBSET TaskRecord
    BY <1>4 DEF Exit, WorkerType
  <2>4. UNCHANGED history
    BY <1>4 DEF Exit
  <2>5. QED
    BY <2>2, <2>3, <2>4 DEF WorkerType, history
<1>5. CASE WorkerHeartbeat(p)
  <2>1. Unhealthy(proc[p]) \in ProcRecord
    BY <1>0 DEF Unhealthy, ProcRecord
  <2>2. proc' = proc \/ proc' = [proc EXCEPT ![p] = Unhealthy(proc[p])]
    BY <1>5 DEF WorkerHeartbeat
  <2>3. UNCHANGED <<task, history>>
    BY <1>5 DEF WorkerHeartbeat
  <2>4. QED
    BY <2>1, <2>2, <2>3, OneProcWritten DEF WorkerType, history
<1>6. QED
  BY <1>1, <1>2, <1>3, <1>4, <1>5 DEF Lifecycle

\* What a poll writes of its worker.
Slotted(p, n) == [proc[p] EXCEPT !.slots = n]

LEMMA SlottedType ==
    ASSUME WorkerType, NEW p \in Procs, NEW n \in Nat
    PROVE  /\ Slotted(p, n) \in ProcRecord
           /\ Slotted(p, n).isRunning = proc[p].isRunning
           /\ Slotted(p, n).stopping = proc[p].stopping
           /\ Slotted(p, n).session = proc[p].session
           /\ Slotted(p, n).slots = n
BY DEF WorkerType, Slotted, ProcRecord

Activated(p, j) == [proc[p] EXCEPT !.activeJobs = @ \cup {j}]

LEMMA ActivatedType ==
    ASSUME WorkerType, NEW p \in Procs, NEW j \in Jobs
    PROVE  /\ Activated(p, j) \in ProcRecord
           /\ Activated(p, j).isRunning = proc[p].isRunning
           /\ Activated(p, j).stopping = proc[p].stopping
           /\ Activated(p, j).session = proc[p].session
           /\ Activated(p, j).slots = proc[p].slots
<1>1. proc[p] \in ProcRecord
  BY DEF WorkerType
<1>2. proc[p].activeJobs \cup {j} \in FiniteJobs
  BY <1>1, FS_AddElement DEF ProcRecord, FiniteJobs
<1>3. QED
  BY <1>1, <1>2 DEF Activated, ProcRecord

\* A poll changes the number of its open calls, and the jobs it starts.
LEMMA PollProc ==
    ASSUME WorkerType, NEW p \in Procs, Polling(p) \/ PollThrows(p)
    PROVE  \/ /\ \E n \in Nat : proc' = [proc EXCEPT ![p] = Slotted(p, n)]
              /\ proc[p].isRunning \/ Dequeuing(p)
           \/ \E j \in Jobs : proc' = [proc EXCEPT ![p] = Activated(p, j)]
<1>0. proc[p].slots \in Nat /\ 0 \in Nat
  BY DEF WorkerType, ProcRecord
<1>1. CASE BeginPoll(p)
  <2> DEFINE n == Concurrency - Cardinality(proc[p].activeJobs)
  <2>1. proc' = [proc EXCEPT ![p] = Slotted(p, n)]
    BY <1>1 DEF BeginPoll, Slotted
  <2>2. n \in Nat
    <3>1. proc[p].activeJobs \in FiniteJobs /\ Concurrency \in Nat
      BY WorkerConstants DEF WorkerType, ProcRecord
    <3>2. Cardinality(proc[p].activeJobs) \in Nat
      BY <3>1, FS_CardinalityType DEF FiniteJobs
    <3>3. QED
      BY <1>1, <3>1, <3>2 DEF BeginPoll
  <2>3. QED
    BY <1>1, <2>1, <2>2 DEF BeginPoll
<1>2. CASE PollReturnsNothing(p) \/ PollThrows(p)
  <2>1. proc' = [proc EXCEPT ![p] = Slotted(p, 0)] /\ Dequeuing(p)
    BY <1>2 DEF PollReturnsNothing, PollThrows, Slotted
  <2>2. QED
    BY <1>0, <2>1
<1>3. ASSUME NEW j \in Jobs, PollClaims(p, j)
      PROVE  /\ \E n \in Nat : proc' = [proc EXCEPT ![p] = Slotted(p, n)]
             /\ Dequeuing(p)
  <2> DEFINE n == IF proc[p].shouldStop THEN 0 ELSE proc[p].slots - 1
  <2>1. proc' = [proc EXCEPT ![p] = Slotted(p, n)] /\ Dequeuing(p)
    BY <1>3 DEF PollClaims, Slotted
  <2>2. n \in Nat
    BY <1>0, <2>1 DEF Dequeuing
  <2>3. QED
    BY <2>1, <2>2
<1>4. CASE StartClaimed(p)
  <2>1. PICK t \in Waiting(p) : proc' = [proc EXCEPT ![p].activeJobs = @ \cup {t.job}]
    BY <1>4 DEF StartClaimed
  <2>2. t.job \in Jobs
    BY DEF Waiting, WorkerType, TaskRecord
  <2>3. proc' = [proc EXCEPT ![p] = Activated(p, t.job)]
    BY <2>1 DEF Activated
  <2>4. QED
    BY <2>2, <2>3
<1>5. QED
  BY <1>1, <1>2, <1>3, <1>4 DEF Polling

\* The task t is the first to be started of those that wait with it.
Starts(t) ==
    /\ \A u \in Waiting(t.proc) : t.attempt <= u.attempt
    /\ task' = {Displaced(u, t) : u \in task \ {t}} \cup {Started(t)}

LEMMA StartTask ==
    ASSUME NEW p \in Procs, StartClaimed(p)
    PROVE  /\ UNCHANGED <<vars, history>>
           /\ \E t \in task : t.phase = "claimed" /\ t.proc = p /\ Starts(t)
BY DEF StartClaimed, Waiting, Starts

LEMMA DisplacedTask ==
    ASSUME WorkerType, NEW u \in task, NEW t
    PROVE  LET d == Displaced(u, t)
           IN  /\ d.proc = u.proc /\ d.job = u.job /\ d.attempt = u.attempt /\ d.phase = u.phase
               /\ d \in TaskRecord
               /\ IF u.proc = t.proc /\ u.job = t.job THEN ~d.fiber ELSE d = u
BY DEF WorkerType, TaskRecord, Displaced

LEMMA StartedTask ==
    ASSUME WorkerType, NEW t \in task
    PROVE  LET d == Started(t)
           IN  /\ d.proc = t.proc /\ d.job = t.job /\ d.attempt = t.attempt
               /\ d.phase = "handling" /\ d.fiber /\ d \in TaskRecord
BY DEF WorkerType, TaskRecord, Started, Phases, AtWork

LEMMA ClaimTask ==
    ASSUME NEW p \in Procs, NEW j \in Jobs, PollClaims(p, j)
    PROVE  /\ lastAttempt' = lastAttempt + 1
           /\ UNCHANGED <<lastSession, failing, history>>
           /\ task' = task \cup {ClaimedTask(p, j, lastAttempt + 1)}
BY DEF PollClaims, Claim

LEMMA PollThrowsTask ==
    ASSUME WorkerType, NEW p \in Procs, PollThrows(p)
    PROVE  /\ lastAttempt' \in {lastAttempt, lastAttempt + 1}
           /\ UNCHANGED <<lastSession, failing, succeeded, terminated>>
           /\ task' = task \ Waiting(p)
           /\ dropped' = dropped \cup {t.attempt : t \in Waiting(p)}
                                 \cup ((lastAttempt + 1) .. lastAttempt')
BY DEF PollThrows, Claim, ClaimSpent, vars

LEMMA PollingType ==
    ASSUME TypeOK, WorkerType, NEW p \in Procs, Polling(p) \/ PollThrows(p)
    PROVE  WorkerType'
<1>0. lastAttempt \in Nat
  BY DEF TypeOK
<1>1. proc' \in [Procs -> ProcRecord]
  BY PollProc, SlottedType, ActivatedType, OneProcWritten
<1>2. CASE PollThrows(p)
  <2>1. throws' \in Nat /\ UNCHANGED <<succeeded, terminated>>
    BY <1>2 DEF PollThrows, WorkerType
  <2>2. {t.attempt : t \in Waiting(p)} \subseteq Nat
    BY DEF Waiting, WorkerType, TaskRecord
  <2>3. dropped' \in SUBSET Nat
    <3> DEFINE W == {t.attempt : t \in Waiting(p)}
               N == (lastAttempt + 1) .. lastAttempt'
    <3>1. dropped' = dropped \cup W \cup N
      BY <1>2, PollThrowsTask
    <3>2. lastAttempt' \in Nat
      BY <1>0, <1>2, PollThrowsTask
    <3>3. N \subseteq Nat
      BY <1>0, <3>2
    <3>4. W \subseteq Nat
      BY <2>2
    <3> HIDE DEF W, N
    <3>5. QED
      BY <3>1, <3>3, <3>4 DEF WorkerType
  <2>4. task' \in SUBSET TaskRecord
    BY <1>2, PollThrowsTask DEF WorkerType
  <2>5. succeeded' \in [Jobs -> Nat] /\ terminated' \in [Jobs -> Nat]
    BY <2>1 DEF WorkerType
  <2>6. QED
    BY <1>1, <2>1, <2>3, <2>4, <2>5, Zenon DEF WorkerType
<1>3. ASSUME NEW j \in Jobs, PollClaims(p, j)
      PROVE  WorkerType'
  <2>1. ClaimedTask(p, j, lastAttempt + 1) \in TaskRecord
    BY <1>0 DEF ClaimedTask, TaskRecord, Phases
  <2>2. QED
    BY <1>1, <1>3, <2>1, ClaimTask DEF WorkerType, history
<1>4. CASE StartClaimed(p)
  <2>1. UNCHANGED history
    BY <1>4, StartTask
  <2>2. PICK t \in task : Starts(t)
    BY <1>4, StartTask
  <2>3. task' \in SUBSET TaskRecord
    BY <2>2, DisplacedTask, StartedTask DEF Starts
  <2>4. QED
    BY <1>1, <2>1, <2>3 DEF WorkerType, history
<1>5. CASE BeginPoll(p) \/ PollReturnsNothing(p)
  BY <1>1, <1>5 DEF BeginPoll, PollReturnsNothing, WorkerType, history
<1>6. QED
  BY <1>2, <1>3, <1>4, <1>5 DEF Polling

LEMMA AttemptType ==
    ASSUME TypeOK, WorkerType, NEW t \in task, Attempt(t)
    PROVE  WorkerType'
<1>0. t.proc \in Procs /\ t.job \in Jobs /\ proc[t.proc] \in ProcRecord
      /\ {"handled", "failing", "writing", "completed", "failed"} \subseteq Phases
  BY DEF WorkerType, TaskRecord, Phases, AtWork
<1>1. Unhealthy(proc[t.proc]) \in ProcRecord
  BY <1>0 DEF Unhealthy, ProcRecord
<1>2. CASE AttemptHeartbeat(t)
  BY <1>0, <1>1, <1>2, OneProcWritten DEF AttemptHeartbeat, WorkerType, history
<1>3. CASE ReportProgress(t)
  BY <1>3 DEF ReportProgress, WorkerType, memory, history
<1>4. CASE HandlerEnds(t)
  BY <1>0, <1>4, MovedType DEF HandlerEnds, WorkerType, history
<1>5. CASE HandlerOverruns(t)
  BY <1>0, <1>1, <1>5, OneProcWritten DEF HandlerOverruns, WorkerType, history
<1>6. CASE CompleteJob(t)
  BY <1>0, <1>6, MovedType, FinishType DEF CompleteJob, WorkerType, history
<1>7. CASE CompleteThrows(t)
  BY <1>0, <1>7, MovedType DEF CompleteThrows, WorkerType, history
<1>8. CASE FailReads(t)
  BY <1>0, <1>8, MovedType, FinishType DEF FailReads, WorkerType, history
<1>9. CASE FailWrites(t)
  <2>1. UNCHANGED history
    BY <1>9 DEF FailWrites
  <2>2. (task' = Moved(t, "failed") /\ UNCHANGED proc) \/ Finish(t)
    BY <1>9 DEF FailWrites
  <2>3. QED
    BY <1>0, <2>1, <2>2, MovedType, FinishType DEF WorkerType, history
<1>10. CASE FailThrows(t)
  <2>1. throws' \in Nat /\ dropped' \in SUBSET Nat
    <3>1. t.attempt \in Nat
      BY DEF WorkerType, TaskRecord
    <3>2. throws' = throws + 1 /\ dropped' = dropped \cup {t.attempt}
      BY <1>10 DEF FailThrows
    <3>3. throws \in Nat /\ dropped \in SUBSET Nat
      BY DEF WorkerType
    <3>4. throws' \in Nat
      BY <3>2, <3>3
    <3>5. dropped' \subseteq Nat
      BY <3>1, <3>2, <3>3
    <3>6. QED
      BY <3>4, <3>5
  <2>2. succeeded' \in [Jobs -> Nat] /\ terminated' \in [Jobs -> Nat]
    BY <1>10 DEF FailThrows, WorkerType
  <2>3. proc' \in [Procs -> ProcRecord] /\ task' \in SUBSET TaskRecord
    BY <1>10, FinishType DEF FailThrows
  <2>4. QED
    BY <2>1, <2>2, <2>3, Zenon DEF WorkerType
<1>11. CASE SuccessCallback(t)
  <2>1. succeeded' \in [Jobs -> Nat]
    BY <1>0, <1>11 DEF SuccessCallback, WorkerType
  <2>2. QED
    BY <1>11, <2>1, FinishType DEF SuccessCallback, WorkerType
<1>12. CASE EmitTerminalFailure(t)
  <2>1. terminated' \in [Jobs -> Nat]
    BY <1>0, <1>12 DEF EmitTerminalFailure, WorkerType
  <2>2. QED
    BY <1>12, <2>1, FinishType DEF EmitTerminalFailure, WorkerType
<1>13. QED
  BY <1>2, <1>3, <1>4, <1>5, <1>6, <1>7, <1>8, <1>9, <1>10, <1>11, <1>12
     DEF Attempt, Execute, Settle

LEMMA NextWorkerType ==
    ASSUME TypeOK, WorkerType, [WorkerNext]_wvars
    PROVE  WorkerType'
<1>1. CASE UNCHANGED memory
  BY <1>1 DEF WorkerType, memory, history
<1>2. QED
  BY <1>1, LifecycleType, PollingType, AttemptType DEF WorkerNext, wvars

\* What a step leaves of the session of a worker.
ProcKept(q) ==
    /\ proc'[q].isRunning = proc[q].isRunning /\ proc'[q].stopping = proc[q].stopping
    /\ proc'[q].session = proc[q].session /\ proc'[q].slots = proc[q].slots

LEMMA UnhealthyKeeps ==
    ASSUME WorkerType, NEW p \in Procs, proc' = [proc EXCEPT ![p] = Unhealthy(@)], NEW q \in Procs
    PROVE  ProcKept(q)
<1>1. proc[p] \in ProcRecord
  BY DEF WorkerType
<1> DEFINE w == Unhealthy(proc[p])
<1>2. /\ w.isRunning = proc[p].isRunning /\ w.stopping = proc[p].stopping
      /\ w.session = proc[p].session /\ w.slots = proc[p].slots
  BY <1>1 DEF Unhealthy, ProcRecord
<1>3. proc' = [proc EXCEPT ![p] = w]
  OBVIOUS
<1> HIDE DEF w
<1>4. QED
  BY <1>2, <1>3 DEF WorkerType, ProcKept

LEMMA FinishKeeps ==
    ASSUME WorkerType, NEW t \in task, Finish(t), NEW q \in Procs
    PROVE  ProcKept(q)
<1>1. proc' = [proc EXCEPT ![t.proc] = Left(t)]
  BY FinishedProc DEF Finish, Left, WorkerType
<1>2. QED
  BY <1>1, FinishedProc DEF WorkerType, ProcKept

\* An attempt writes its own task only, and no session.
LEMMA AttemptTask ==
    ASSUME WorkerType, NEW t \in task, Attempt(t)
    PROVE  /\ UNCHANGED <<lastSession, lastAttempt>>
           /\ task' \in {task, task \ {t}} \/ \E phase \in AtWork : task' = Moved(t, phase)
           /\ \A q \in Procs : ProcKept(q)
           /\ t.phase # "claimed"
<1>0. t.proc \in Procs
      /\ AtWork = {"handling", "handled", "failing", "writing", "completed", "failed"}
  BY DEF WorkerType, TaskRecord, AtWork
<1>a. proc' = proc => \A q \in Procs : ProcKept(q)
  BY DEF ProcKept
<1>1. CASE AttemptHeartbeat(t)
  BY <1>0, <1>a, <1>1, UnhealthyKeeps DEF AttemptHeartbeat, RenewLease, vars
<1>2. CASE ReportProgress(t)
  BY <1>a, <1>2 DEF ReportProgress, RecordProgress, memory
<1>3. CASE HandlerEnds(t)
  BY <1>0, <1>a, <1>3 DEF HandlerEnds, vars
<1>4. CASE HandlerOverruns(t)
  BY <1>0, <1>4, UnhealthyKeeps DEF HandlerOverruns, vars
<1>5. CASE CompleteJob(t)
  BY <1>0, <1>a, <1>5, FinishKeeps DEF CompleteJob, Complete, Finish, vars
<1>6. CASE CompleteThrows(t)
  BY <1>0, <1>a, <1>6 DEF CompleteThrows, Complete, vars
<1>7. CASE FailReads(t)
  BY <1>0, <1>a, <1>7, FinishKeeps DEF FailReads, FailRead, Finish, vars
<1>8. CASE FailWrites(t)
  BY <1>0, <1>a, <1>8, FinishKeeps DEF FailWrites, FailWrite, Finish
<1>9. CASE FailThrows(t)
  BY <1>9, FinishKeeps DEF FailThrows, Finish
<1>10. CASE SuccessCallback(t)
  BY <1>10, FinishKeeps DEF SuccessCallback, Finish, vars
<1>11. CASE EmitTerminalFailure(t)
  BY <1>11, FinishKeeps DEF EmitTerminalFailure, Finish, vars
<1>12. QED
  BY <1>1, <1>2, <1>3, <1>4, <1>5, <1>6, <1>7, <1>8, <1>9, <1>10, <1>11
     DEF Attempt, Execute, Settle

\* Starting, stopping, dying, heartbeats and polls that return nothing.
Quiet(p) == Lifecycle(p) \/ WorkerHeartbeat(p) \/ BeginPoll(p) \/ PollReturnsNothing(p)

\* They only remove tasks, those of a worker that no longer runs, and no token is
\* created.
LEMMA QuietTask ==
    ASSUME WorkerType, NEW p \in Procs, Quiet(p)
    PROVE  /\ lastAttempt' = lastAttempt
           /\ UNCHANGED history
           /\ failing' \subseteq failing
           /\ task' \subseteq task
           /\ task' = task \/ (task' = {t \in task : t.proc # p} /\ ~proc'[p].isRunning)
<1>1. CASE StartWorker(p)
  BY <1>1 DEF StartWorker, StartWorkerSession
<1>2. CASE RequestStop(p)
  BY <1>2 DEF RequestStop, vars
<1>3. CASE StopWorker(p)
  BY <1>3 DEF StopWorker, EndWorkerSession, vars
<1>4. CASE Exit(p)
  BY <1>4 DEF Exit, Down, WorkerType
<1>5. CASE WorkerHeartbeat(p)
  BY <1>5 DEF WorkerHeartbeat, HeartbeatWorkerSession, vars
<1>6. CASE BeginPoll(p)
  BY <1>6 DEF BeginPoll, vars
<1>7. CASE PollReturnsNothing(p)
  BY <1>7 DEF PollReturnsNothing, ClaimSpent, vars
<1>8. QED
  BY <1>1, <1>2, <1>3, <1>4, <1>5, <1>6, <1>7 DEF Lifecycle, Quiet

\* Producers and the clock leave the workers alone.
LEMMA EnvironmentStep ==
    ASSUME ((Produce \/ Tick) /\ UNCHANGED memory) \/ UNCHANGED wvars
    PROVE  UNCHANGED <<lastSession, lastAttempt, failing, memory>>
BY DEF Produce, Insert, Coalesce, Replace, Tick, wvars, vars

\* The lines of WorkerNext, with the steps apart that create or drop a claim.
LEMMA WorkerCases ==
    ASSUME [WorkerNext]_wvars
    PROVE  \/ \E p \in Procs : Quiet(p)
           \/ \E p \in Procs : PollThrows(p)
           \/ \E p \in Procs : StartClaimed(p)
           \/ \E p \in Procs, j \in Jobs : PollClaims(p, j)
           \/ \E t \in task : Attempt(t)
           \/ UNCHANGED <<lastSession, lastAttempt, failing, memory>>
BY EnvironmentStep DEF WorkerNext, Polling, Quiet

-----------------------------------------------------------------------------
(* Each worker has its own session.                                         *)

LEMMA SessionsByProc ==
    ASSUME WorkerType, Sessions, \A q \in Procs : ProcKept(q), UNCHANGED lastSession
    PROVE  Sessions'
BY DEF Sessions, ProcKept, Dequeuing, WorkerType

\* Only the worker p changes, and it has the session it had, or none.
LEMMA SessionsOfOne ==
    ASSUME WorkerType, Sessions, TypeOK, NEW p \in Procs, NEW w \in ProcRecord,
           proc' = [proc EXCEPT ![p] = w],
           UNCHANGED lastSession,
           w.isRunning => proc[p].isRunning /\ w.session = proc[p].session,
           w.stopping => w.isRunning,
           w.slots > 0 => w.isRunning
    PROVE  Sessions'
<1>1. proc' \in [Procs -> ProcRecord] /\ proc'[p] = w /\ \A q \in Procs \ {p} : proc'[q] = proc[q]
  BY OneProcWritten DEF WorkerType
<1>2. QED
  BY <1>1 DEF Sessions, Dequeuing

LEMMA LifecycleSessions ==
    ASSUME TypeOK, WorkerType, Sessions, NEW p \in Procs,
           Lifecycle(p) \/ WorkerHeartbeat(p)
    PROVE  Sessions'
<1>0. proc[p] \in ProcRecord /\ lastSession \in Nat
  BY DEF WorkerType, TypeOK
<1>1. CASE StartWorker(p)
  <2> DEFINE w == [proc[p] EXCEPT !.isRunning = TRUE, !.isHealthy = TRUE,
                                  !.shouldStop = FALSE, !.session = lastSession']
  <2>1. lastSession' = lastSession + 1 /\ ~proc[p].isRunning
    BY <1>1 DEF StartWorker, StartWorkerSession
  <2>2. w.session = lastSession + 1 /\ w.slots = proc[p].slots
    BY <1>0, <2>1 DEF ProcRecord
  <2>3. proc' = [proc EXCEPT ![p] = w]
    BY <1>1 DEF StartWorker
  <2> HIDE DEF w
  <2>4. proc'[p] = w /\ \A q \in Procs \ {p} : proc'[q] = proc[q]
    BY <2>3 DEF WorkerType
  <2>5. ~(proc[p].slots > 0)
    BY <2>1 DEF Sessions, Dequeuing
  <2>6. \A q \in Procs : proc'[q].isRunning => proc'[q].session \in 1..lastSession'
    BY <1>0, <2>1, <2>2, <2>4 DEF Sessions
  <2>7. \A q \in Procs \ {p} : proc'[q].isRunning => proc'[q].session # proc'[p].session
    BY <1>0, <2>1, <2>2, <2>4 DEF Sessions
  <2>8. \A q \in Procs : proc'[q].stopping => proc'[q].isRunning
    <3>1. w.isRunning
      BY <1>0 DEF w, ProcRecord
    <3>2. QED
      BY <2>4, <3>1 DEF Sessions
  <2>9. QED
    BY <2>2, <2>4, <2>5, <2>6, <2>7, <2>8 DEF Sessions, Dequeuing
<1>2. CASE RequestStop(p)
  <2> DEFINE w == [proc[p] EXCEPT !.shouldStop = TRUE, !.stopping = TRUE]
  <2>1. w \in ProcRecord /\ w.isRunning = proc[p].isRunning
        /\ w.session = proc[p].session /\ w.slots = proc[p].slots
    BY <1>0 DEF ProcRecord
  <2>2. proc' = [proc EXCEPT ![p] = w] /\ UNCHANGED lastSession /\ proc[p].isRunning
    BY <1>2 DEF RequestStop, WorkerType, vars
  <2> HIDE DEF w
  <2>3. w.slots > 0 => w.isRunning
    BY <2>1 DEF Sessions, Dequeuing
  <2>4. QED
    BY <2>1, <2>2, <2>3, SessionsOfOne
<1>3. CASE StopWorker(p)
  <2> DEFINE w == [proc[p] EXCEPT !.isRunning = FALSE, !.stopping = FALSE,
                                  !.session = NoSession]
  <2>1. w \in ProcRecord /\ ~w.isRunning /\ ~w.stopping /\ w.slots = proc[p].slots
    BY <1>0 DEF ProcRecord, NoSession
  <2>2. proc' = [proc EXCEPT ![p] = w] /\ UNCHANGED lastSession /\ Idle(p)
    BY <1>3 DEF StopWorker, EndWorkerSession, vars
  <2> HIDE DEF w
  <2>3. QED
    BY <2>1, <2>2, SessionsOfOne DEF Idle, Dequeuing
<1>4. CASE Exit(p)
  <2>1. Down \in ProcRecord /\ ~Down.isRunning /\ ~Down.stopping /\ Down.slots = 0
    BY DownType DEF Down
  <2>2. proc' = [proc EXCEPT ![p] = Down] /\ UNCHANGED lastSession
    BY <1>4 DEF Exit
  <2>3. /\ Down.isRunning => proc[p].isRunning /\ Down.session = proc[p].session
        /\ Down.stopping => Down.isRunning
        /\ Down.slots > 0 => Down.isRunning
    BY <2>1
  <2>4. QED
    BY <2>1, <2>2, <2>3, SessionsOfOne
<1>5. CASE WorkerHeartbeat(p)
  <2>1. proc' = proc \/ proc' = [proc EXCEPT ![p] = Unhealthy(@)]
    BY <1>5 DEF WorkerHeartbeat
  <2>2. \A q \in Procs : ProcKept(q)
    BY <2>1, UnhealthyKeeps DEF ProcKept
  <2>3. UNCHANGED lastSession
    BY <1>5 DEF WorkerHeartbeat, HeartbeatWorkerSession, vars
  <2>4. QED
    BY <2>2, <2>3, SessionsByProc
<1>6. QED
  BY <1>1, <1>2, <1>3, <1>4, <1>5 DEF Lifecycle

LEMMA PollingSessions ==
    ASSUME TypeOK, WorkerType, Sessions, NEW p \in Procs, Polling(p) \/ PollThrows(p)
    PROVE  Sessions'
<1>1. UNCHANGED lastSession
  BY DEF Polling, BeginPoll, PollReturnsNothing, ClaimSpent, PollClaims, Claim, StartClaimed,
     PollThrows, vars
<1>2. ASSUME NEW n \in Nat, proc' = [proc EXCEPT ![p] = Slotted(p, n)],
             proc[p].isRunning \/ Dequeuing(p)
      PROVE  Sessions'
  <2>1. proc[p].isRunning
    BY <1>2 DEF Sessions
  <2>2. QED
    BY <1>1, <1>2, <2>1, SlottedType, SessionsOfOne
<1>3. ASSUME NEW j \in Jobs, proc' = [proc EXCEPT ![p] = Activated(p, j)]
      PROVE  Sessions'
  <2>1. /\ Activated(p, j).stopping => Activated(p, j).isRunning
        /\ Activated(p, j).slots > 0 => Activated(p, j).isRunning
    BY ActivatedType DEF Sessions, Dequeuing
  <2>2. QED
    BY <1>1, <1>3, <2>1, ActivatedType, SessionsOfOne
<1>4. QED
  BY <1>2, <1>3, PollProc

\* Polls leave the session of every worker.
LEMMA PollKeeps ==
    ASSUME WorkerType, NEW p \in Procs, Polling(p) \/ PollThrows(p), NEW q \in Procs
    PROVE  proc'[q].isRunning = proc[q].isRunning /\ proc'[q].session = proc[q].session
<1>1. CASE \E n \in Nat : proc' = [proc EXCEPT ![p] = Slotted(p, n)]
  BY <1>1, SlottedType DEF WorkerType
<1>2. CASE \E j \in Jobs : proc' = [proc EXCEPT ![p] = Activated(p, j)]
  BY <1>2, ActivatedType DEF WorkerType
<1>3. QED
  BY <1>1, <1>2, PollProc

LEMMA NextSessions ==
    ASSUME TypeOK, WorkerType, Sessions, [WorkerNext]_wvars
    PROVE  Sessions'
<1>1. CASE UNCHANGED <<lastSession, lastAttempt, failing, memory>>
  BY <1>1, SessionsByProc DEF memory, ProcKept
<1>2. CASE \E t \in task : Attempt(t)
  BY <1>2, AttemptTask, SessionsByProc
<1>3. QED
  BY <1>1, <1>2, LifecycleSessions, PollingSessions, EnvironmentStep DEF WorkerNext

-----------------------------------------------------------------------------
(* Tasks and tokens.                                                        *)

\* A task that moves to another phase stays the task it is.
LEMMA MovedTask ==
    ASSUME WorkerType, NEW t \in task, NEW phase, NEW u \in Moved(t, phase)
    PROVE  \/ u \in task /\ u # t
           \/ /\ u = [t EXCEPT !.phase = phase]
              /\ u.proc = t.proc /\ u.job = t.job /\ u.attempt = t.attempt
              /\ u.fiber = t.fiber /\ u.phase = phase
BY DEF WorkerType, TaskRecord, Moved

LEMMA FewerTokens ==
    ASSUME TypeOK, OwnTokens, task' \subseteq task,
           lastAttempt' \in {lastAttempt, lastAttempt + 1}
    PROVE  OwnTokens'
BY DEF OwnTokens, Tokens, TypeOK

LEMMA NextOwnTokens ==
    ASSUME TypeOK, WorkerType, OwnTokens, [WorkerNext]_wvars
    PROVE  OwnTokens'
<1>1. CASE \E p \in Procs : Quiet(p) \/ PollThrows(p)
  BY <1>1, QuietTask, PollThrowsTask, FewerTokens
<1>2. ASSUME NEW p \in Procs, NEW j \in Jobs, PollClaims(p, j)
      PROVE  OwnTokens'
  <2> DEFINE n == ClaimedTask(p, j, lastAttempt + 1)
  <2>1. lastAttempt \in Nat /\ lastAttempt' = lastAttempt + 1 /\ n.attempt = lastAttempt + 1
    BY <1>2, ClaimTask DEF TypeOK, ClaimedTask
  <2>2. task' = task \cup {n}
    BY <1>2, ClaimTask
  <2> HIDE DEF n
  <2>3. QED
    BY <2>1, <2>2 DEF OwnTokens, Tokens
<1>3. ASSUME NEW p \in Procs, StartClaimed(p)
      PROVE  OwnTokens'
  <2>1. UNCHANGED lastAttempt
    BY <1>3, StartTask DEF vars
  <2>2. PICK t \in task : Starts(t)
    BY <1>3, StartTask
  <2> DEFINE After(u) == IF u = t THEN Started(t) ELSE Displaced(u, t)
  <2>3. task' = {After(u) : u \in task}
    BY <2>2 DEF Starts
  <2>4. \A u \in task : After(u).attempt = u.attempt
    BY DisplacedTask, StartedTask
  <2> HIDE DEF After
  <2>5. QED
    BY <2>1, <2>3, <2>4 DEF OwnTokens, Tokens
<1>4. ASSUME NEW t \in task, Attempt(t)
      PROVE  OwnTokens'
  <2>0. UNCHANGED lastAttempt
    BY <1>4, AttemptTask
  <2>1. CASE task' \in {task, task \ {t}}
    BY <2>0, <2>1, FewerTokens
  <2>2. ASSUME NEW phase \in AtWork, task' = Moved(t, phase)
        PROVE  OwnTokens'
    <3>1. \A u \in task' : \/ u \in task /\ u # t
                           \/ u = [t EXCEPT !.phase = phase] /\ u.attempt = t.attempt
      BY <2>2, MovedTask
    <3>2. QED
      BY <2>0, <3>1 DEF OwnTokens, Tokens
  <2>3. QED
    BY <1>4, <2>1, <2>2, AttemptTask
<1>5. CASE UNCHANGED <<lastSession, lastAttempt, failing, memory>>
  BY <1>5, FewerTokens DEF memory
<1>6. QED
  BY <1>1, <1>2, <1>3, <1>4, <1>5, WorkerCases

\* Every task of the next state is a new one or goes on from one of this state.
LEMMA TaskOrigin ==
    ASSUME TypeOK, WorkerType, OwnTokens, [WorkerNext]_wvars, NEW u \in task'
    PROVE  \/ /\ u.attempt = lastAttempt + 1
              /\ \E p \in Procs, j \in Jobs : PollClaims(p, j) /\ u.job = j
           \/ \E t \in task : u.proc = t.proc /\ u.job = t.job /\ u.attempt = t.attempt
<1>1. CASE \E p \in Procs : Quiet(p) \/ PollThrows(p)
  BY <1>1, QuietTask, PollThrowsTask
<1>2. ASSUME NEW p \in Procs, NEW j \in Jobs, PollClaims(p, j)
      PROVE  u \in task \/ (u.attempt = lastAttempt + 1 /\ u.job = j)
  BY <1>2, ClaimTask DEF ClaimedTask
<1>3. ASSUME NEW p \in Procs, StartClaimed(p)
      PROVE  \E s \in task : u.proc = s.proc /\ u.job = s.job /\ u.attempt = s.attempt
  BY <1>3, StartTask, StartedTask, DisplacedTask DEF Starts
<1>4. ASSUME NEW t \in task, Attempt(t)
      PROVE  \E s \in task : u.proc = s.proc /\ u.job = s.job /\ u.attempt = s.attempt
  BY <1>4, AttemptTask, MovedTask
<1>5. CASE UNCHANGED <<lastSession, lastAttempt, failing, memory>>
  BY <1>5 DEF memory
<1>6. QED
  BY <1>1, <1>2, <1>3, <1>4, <1>5, WorkerCases

-----------------------------------------------------------------------------
(* What fail() has read.                                                    *)

LEMMA FailingStep ==
    ASSUME TypeOK, WorkerType, OwnTokens, [WorkerNext]_wvars, NEW f \in failing', f \notin failing
    PROVE  \E t \in task : /\ f.job = t.job /\ f.attemptId = t.attempt
                           /\ f.retryCount = job[t.job].retryCount
                           /\ UNCHANGED <<job, lastAttempt>>
<1>1. CASE \E p \in Procs : Quiet(p) \/ PollThrows(p) \/ StartClaimed(p)
  BY <1>1, QuietTask, PollThrowsTask, StartTask DEF vars
<1>2. CASE \E p \in Procs, j \in Jobs : PollClaims(p, j)
  BY <1>2, ClaimTask
<1>3. ASSUME NEW t \in task, Attempt(t)
      PROVE  /\ f.job = t.job /\ f.attemptId = t.attempt
             /\ f.retryCount = job[t.job].retryCount
             /\ UNCHANGED <<job, lastAttempt>>
  <2>1. CASE FailReads(t)
    BY <2>1 DEF FailReads, FailRead, vars
  <2>2. ASSUME ~FailReads(t)
        PROVE  failing' \subseteq failing
    BY <1>3, <2>2 DEF Attempt, AttemptHeartbeat, RenewLease, ReportProgress, RecordProgress,
       Execute, HandlerEnds, HandlerOverruns, Settle, CompleteJob, Complete, CompleteThrows,
       FailWrites, FailWrite, FailThrows, SuccessCallback, EmitTerminalFailure, vars
  <2>3. QED
    BY <2>1, <2>2
<1>4. CASE UNCHANGED <<lastSession, lastAttempt, failing, memory>>
  BY <1>4
<1>5. QED
  BY <1>1, <1>2, <1>3, <1>4, WorkerCases

LEMMA TokensGrow ==
    ASSUME TypeOK, WorkerType, [WorkerNext]_wvars
    PROVE  Tokens \subseteq Tokens' /\ lastAttempt + 1 \notin Tokens
<1>1. lastAttempt \in Nat /\ lastAttempt' \in {lastAttempt, lastAttempt + 1}
  BY WorkerCases, QuietTask, PollThrowsTask, StartTask, ClaimTask, AttemptTask DEF TypeOK, vars
<1>2. QED
  BY <1>1 DEF Tokens

LEMMA NextReads ==
    ASSUME TypeOK, WorkerType, Sessions, OwnTokens, Reads, [WorkerNext]_wvars
    PROVE  Reads'
<1> SUFFICES ASSUME NEW f \in failing'
             PROVE  /\ f.attemptId \in Tokens'
                    /\ \A u \in task' : u.attempt = f.attemptId => u.job = f.job
                    /\ Owns(f.job, f.attemptId)' => job'[f.job].retryCount = f.retryCount
  BY DEF Reads
<1>1. [Next]_vars /\ failing \in SUBSET Call
  BY WorkersDrive DEF TypeOK
<1>2. CASE f \in failing
  <2>1. /\ f.attemptId \in Tokens /\ f.job \in Jobs
        /\ \A t \in task : t.attempt = f.attemptId => t.job = f.job
        /\ Owns(f.job, f.attemptId) => job[f.job].retryCount = f.retryCount
    BY <1>1, <1>2 DEF Reads, Call
  <2>2. f.attemptId \in Tokens' /\ f.attemptId # lastAttempt + 1
    BY <2>1, TokensGrow
  <2>3. \A u \in task' : u.attempt = f.attemptId => u.job = f.job
    BY <2>1, <2>2, TaskOrigin
  <2>4. Owns(f.job, f.attemptId)' => job'[f.job].retryCount = f.retryCount
    BY <1>1, <2>1, OwnershipFades
  <2>5. QED
    BY <2>2, <2>3, <2>4
<1>3. CASE f \notin failing
  <2>1. PICK t \in task : /\ f.job = t.job /\ f.attemptId = t.attempt
                          /\ f.retryCount = job[t.job].retryCount
                          /\ UNCHANGED <<job, lastAttempt>>
    BY <1>3, FailingStep
  <2>2. f.attemptId \in Tokens /\ \A s \in task : s.attempt = f.attemptId => s.job = f.job
    BY <2>1 DEF OwnTokens
  <2>3. f.attemptId \in Tokens' /\ f.attemptId # lastAttempt + 1
    BY <2>2, TokensGrow
  <2>4. \A u \in task' : u.attempt = f.attemptId => u.job = f.job
    BY <2>2, <2>3, TaskOrigin
  <2>5. QED
    BY <2>1, <2>3, <2>4
<1>4. QED
  BY <1>2, <1>3

-----------------------------------------------------------------------------
(* The jobs a poll has claimed.                                             *)

\* Fewer tasks, with every worker that still has a job waiting up.
LEMMA WaitsFewer ==
    ASSUME Waits, task' \subseteq task,
           \A t \in task' : t.phase = "claimed" => proc'[t.proc].isRunning
    PROVE  Waits'
BY DEF Waits

LEMMA QuietWaits ==
    ASSUME WorkerType, Sessions, Waits, NEW p \in Procs, Quiet(p)
    PROVE  Waits'
<1> SUFFICES ASSUME NEW t \in task', t.phase = "claimed"
             PROVE  proc'[t.proc].isRunning
  BY QuietTask, WaitsFewer
<1>1. t \in task /\ t.proc \in Procs /\ proc[t.proc].isRunning /\ proc[t.proc] \in ProcRecord
  BY QuietTask DEF Waits, WorkerType, TaskRecord
<1>2. CASE StopWorker(p)
  BY <1>1, <1>2 DEF StopWorker, Idle, Waiting, WorkerType
<1>3. CASE Exit(p)
  BY <1>1, <1>3 DEF Exit, WorkerType
<1>4. CASE WorkerHeartbeat(p)
  BY <1>1, <1>4, UnhealthyKeeps DEF WorkerHeartbeat, ProcKept
<1>5. CASE StartWorker(p)
  BY <1>1, <1>5 DEF StartWorker, WorkerType, ProcRecord
<1>6. CASE RequestStop(p)
  BY <1>1, <1>6 DEF RequestStop, WorkerType, ProcRecord
<1>7. CASE BeginPoll(p) \/ PollReturnsNothing(p)
  BY <1>1, <1>7, PollKeeps DEF Polling
<1>8. QED
  BY <1>2, <1>3, <1>4, <1>5, <1>6, <1>7 DEF Quiet, Lifecycle

LEMMA NextWaits ==
    ASSUME TypeOK, WorkerType, Sessions, OwnTokens, Waits, [WorkerNext]_wvars
    PROVE  Waits'
<1>0. \A t \in task : t.proc \in Procs /\ t.attempt \in Nat
  BY DEF WorkerType, TaskRecord
<1>1. CASE \E p \in Procs : Quiet(p)
  BY <1>1, QuietWaits
<1>2. ASSUME NEW p \in Procs, PollThrows(p)
      PROVE  Waits'
  BY <1>0, <1>2, PollThrowsTask, PollKeeps, WaitsFewer DEF Waits
<1>3. ASSUME NEW p \in Procs, StartClaimed(p)
      PROVE  Waits'
  <2>1. PICK t \in task : t.phase = "claimed" /\ t.proc = p /\ Starts(t)
    BY <1>3, StartTask
  <2>2. \A q \in Procs : proc'[q].isRunning = proc[q].isRunning
    BY <1>3, PollKeeps DEF Polling
  <2>3. \A u \in task' :
          \/ u = Started(t)
          \/ \E s \in task \ {t} : /\ u = Displaced(s, t)
                                   /\ u.proc = s.proc /\ u.attempt = s.attempt
                                   /\ u.phase = s.phase /\ (u.fiber => s.fiber)
    BY <2>1, DisplacedTask DEF Starts
  <2>4. Started(t).proc = p /\ Started(t).attempt = t.attempt /\ Started(t).phase = "handling"
    BY <2>1, StartedTask
  <2>5. ASSUME NEW s \in task \ {t}, s.phase = "claimed", s.proc = p
        PROVE  t.attempt < s.attempt
    <3>1. t.attempt <= s.attempt /\ t.attempt # s.attempt
      BY <2>1, <2>5 DEF Starts, Waiting, OwnTokens
    <3>2. QED
      BY <1>0, <3>1
  <2>6. ASSUME NEW u \in task', u.phase = "claimed"
        PROVE  /\ ~u.fiber /\ proc'[u.proc].isRunning
               /\ \A v \in task' : v.proc = u.proc /\ v.phase # "claimed" => v.attempt < u.attempt
    <3>1. PICK s \in task \ {t} : /\ u.proc = s.proc /\ u.attempt = s.attempt
                                 /\ u.phase = s.phase /\ (u.fiber => s.fiber)
      BY <2>3, <2>4, <2>6
    <3>2. ~s.fiber /\ proc[s.proc].isRunning
      BY <2>6, <3>1 DEF Waits
    <3>3. \A v \in task : v.proc = s.proc /\ v.phase # "claimed" => v.attempt < s.attempt
      BY <2>6, <3>1 DEF Waits
    <3>4. ASSUME NEW v \in task', v.proc = u.proc, v.phase # "claimed"
          PROVE  v.attempt < u.attempt
      BY <2>3, <2>4, <2>5, <2>6, <3>1, <3>3, <3>4
    <3>5. QED
      BY <1>0, <2>2, <3>1, <3>2, <3>4
  <2>7. QED
    BY <2>6 DEF Waits
<1>4. ASSUME NEW p \in Procs, NEW j \in Jobs, PollClaims(p, j)
      PROVE  Waits'
  <2> DEFINE n == ClaimedTask(p, j, lastAttempt + 1)
  <2>1. task' = task \cup {n}
    BY <1>4, ClaimTask
  <2>2. n.proc = p /\ n.phase = "claimed" /\ ~n.fiber /\ n.attempt = lastAttempt + 1
    BY DEF ClaimedTask
  <2>3. \A q \in Procs : proc'[q].isRunning = proc[q].isRunning
    BY <1>4, PollKeeps DEF Polling
  <2>4. proc[p].isRunning
    BY <1>4 DEF PollClaims, Sessions
  <2>5. \A t \in task : t.attempt < lastAttempt + 1
    BY DEF OwnTokens, Tokens, TypeOK
  <2> HIDE DEF n
  <2>6. QED
    BY <1>0, <2>1, <2>2, <2>3, <2>4, <2>5 DEF Waits
<1>5. ASSUME NEW t \in task, Attempt(t)
      PROVE  Waits'
  <2>1. t.phase # "claimed" /\ \A q \in Procs : proc'[q].isRunning = proc[q].isRunning
    BY <1>5, AttemptTask DEF ProcKept
  <2>2. CASE task' \in {task, task \ {t}}
    BY <1>0, <2>1, <2>2, WaitsFewer DEF Waits
  <2>3. ASSUME NEW phase \in AtWork, task' = Moved(t, phase)
        PROVE  Waits'
    <3>1. \A u \in task' : \/ u \in task
                           \/ /\ u.proc = t.proc /\ u.attempt = t.attempt
                              /\ u.phase # "claimed"
      BY <2>3, MovedTask DEF AtWork
    <3>2. QED
      BY <1>0, <2>1, <3>1 DEF Waits
  <2>4. QED
    BY <1>5, <2>2, <2>3, AttemptTask
<1>6. CASE UNCHANGED <<lastSession, lastAttempt, failing, memory>>
  BY <1>6 DEF Waits, memory
<1>7. QED
  BY <1>1, <1>2, <1>3, <1>4, <1>5, <1>6, WorkerCases

\* A job is given to a token younger than all tasks.
LEMMA NextYoungestOwns ==
    ASSUME TypeOK, WorkerType, Sessions, OwnTokens, YoungestOwns, [WorkerNext]_wvars
    PROVE  YoungestOwns'
<1> SUFFICES ASSUME NEW u \in task', job'[u.job].status = Processing
             PROVE  u.attempt <= job'[u.job].attemptId
  BY DEF YoungestOwns
<1>0. lastAttempt \in Nat
  BY DEF TypeOK
<1>1. ASSUME NEW p \in Procs, NEW j \in Jobs, PollClaims(p, j),
             u.attempt = lastAttempt + 1, u.job = j
      PROVE  u.attempt <= job'[u.job].attemptId
  BY <1>0, <1>1 DEF PollClaims, Claim, Claimed, TypeOK, Row
<1>2. ASSUME NEW t \in task, u.job = t.job, u.attempt = t.attempt
      PROVE  u.attempt <= job'[u.job].attemptId
  <2>1. t.job \in Jobs /\ t.attempt \in 1..lastAttempt
    BY DEF WorkerType, TaskRecord, OwnTokens, Tokens
  <2>2. RowStep(t.job, job[t.job], job'[t.job])
    BY <2>1, WorkersDrive, AnyStep
  <2>3. \/ job'[t.job] = job[t.job] \/ Touched(job[t.job], job'[t.job])
        \/ job'[t.job].attemptId = lastAttempt + 1
    BY <1>2, <2>2 DEF RowStep, LiveStep, Inserted, Given, GivenBack, SettledNow, Removed,
       Terminal, Pending, Processing, Completed, Failed
  <2>4. CASE job'[t.job].attemptId = lastAttempt + 1
    BY <1>0, <1>2, <2>1, <2>4
  <2>5. CASE job'[t.job] = job[t.job] \/ Touched(job[t.job], job'[t.job])
    <3>1. job[t.job].status = Processing /\ job'[t.job].attemptId = job[t.job].attemptId
      BY <1>2, <2>5 DEF Touched
    <3>2. QED
      BY <1>2, <3>1 DEF YoungestOwns
  <2>6. QED
    BY <2>3, <2>4, <2>5
<1>3. QED
  BY <1>1, <1>2, TaskOrigin

-----------------------------------------------------------------------------
(* An attempt that wrote its outcome, or lost its fiber, lets its job go.   *)

LEMMA CompleteLetsGo ==
    ASSUME TypeOK, NEW j \in Jobs, NEW a \in Tokens, Complete(j, a, now)
    PROVE  /\ job[j].status = Processing /\ Owns(j, a)
           /\ job'[j].status = Completed /\ ~Owns(j, a)'
<1>1. Owns(j, a) /\ a # Unfenced
  BY DEF Complete, Tokens, Unfenced
<1>2. job'[j].status = Completed
  BY DEF Complete, TypeOK, Row
<1>3. QED
  BY <1>1, <1>2 DEF Owns, Processing, Completed

LEMMA FailLetsGo ==
    ASSUME TypeOK, NEW f \in failing, FailWrite(f, now), FailApplies(f), f.attemptId \in Tokens
    PROVE  Owns(f.job, f.attemptId) /\ ~Owns(f.job, f.attemptId)'
<1>1. f \in Call /\ f.job \in Jobs /\ f.attemptId # Unfenced /\ job[f.job] \in Row
  BY DEF TypeOK, Call, Tokens, Unfenced
<1>2. Owns(f.job, f.attemptId)
  BY DEF FailApplies
<1>3. CASE CanRetry(f)
  <2>1. job' = [job EXCEPT ![f.job] = Retried(job[f.job], f, now)]
    BY <1>3 DEF FailWrite
  <2>2. Retried(job[f.job], f, now).status = Pending
    BY <1>1 DEF Retried, Released, Row
  <2>3. QED
    BY <1>1, <1>2, <2>1, <2>2 DEF Owns, TypeOK, Pending, Processing
<1>4. CASE ~CanRetry(f)
  <2>1. PICK u \in NextCursors(now) : job' = [job EXCEPT ![f.job] = Exhausted(job[f.job], f, now, u)]
    BY <1>4 DEF FailWrite
  <2>2. Exhausted(job[f.job], f, now, u).status = Failed
    BY <1>1 DEF Exhausted, Released, Row
  <2>3. QED
    BY <1>1, <1>2, <2>1, <2>2 DEF Owns, TypeOK, Failed, Processing
<1>5. QED
  BY <1>3, <1>4

\* The phases an attempt moves to, and what its statement did to the row.
LEMMA PhaseStep ==
    ASSUME TypeOK, WorkerType, OwnTokens, Reads, NEW t \in task, Attempt(t)
    PROVE  \/ task' \in {task, task \ {t}}
           \/ \E phase \in {"handled", "failing", "writing"} : task' = Moved(t, phase)
           \/ /\ task' = Moved(t, "completed") /\ Complete(t.job, t.attempt, now)
              /\ UNCHANGED <<succeeded, terminated>>
           \/ /\ task' = Moved(t, "failed") /\ ~Owns(t.job, t.attempt)'
              /\ UNCHANGED <<succeeded, terminated>>
<1>1. CASE FailWrites(t)
  <2>1. PICK f \in failing :
          /\ f.attemptId = t.attempt
          /\ FailWrite(f, now)
          /\ \/ FailApplies(f) /\ task' = Moved(t, "failed")
             \/ ~FailApplies(f) /\ Finish(t)
    BY <1>1 DEF FailWrites
  <2>2. f.attemptId \in Tokens /\ f.job = t.job
    BY <2>1 DEF Reads
  <2>3. QED
    BY <1>1, <2>1, <2>2, FailLetsGo DEF Finish, FailWrites, history
<1>2. CASE ~FailWrites(t)
  BY <1>2 DEF Attempt, AttemptHeartbeat, ReportProgress, Execute, HandlerEnds, HandlerOverruns,
     Settle, CompleteJob, CompleteThrows, FailReads, FailThrows, SuccessCallback,
     EmitTerminalFailure, Finish, history, memory
<1>3. QED
  BY <1>1, <1>2

LEMMA AttemptLetsGo ==
    ASSUME TypeOK, WorkerType, Sessions, OwnTokens, Reads, LetGo, NEW t \in task, Attempt(t),
           NEW u \in task', LetsGo(u)
    PROVE  ~Owns(u.job, u.attempt)'
<1>1. [Next]_vars /\ t.job \in Jobs /\ t.attempt \in Tokens
  BY AttemptDrives DEF WorkerType, TaskRecord, OwnTokens
<1>2. ASSUME NEW s \in task, LetsGo(s),
             s.job = u.job, s.attempt = u.attempt
      PROVE  ~Owns(u.job, u.attempt)'
  <2>1. s.job \in Jobs /\ s.attempt \in Tokens /\ ~Owns(s.job, s.attempt)
    BY <1>2 DEF LetGo, WorkerType, TaskRecord, OwnTokens
  <2>2. QED
    BY <1>1, <1>2, <2>1, OwnershipFades
<1>3. CASE u \in task
  BY <1>2, <1>3
<1>4. CASE u \notin task
  <2>1. PICK phase : /\ task' = Moved(t, phase)
                     /\ \/ phase \in {"handled", "failing", "writing"}
                        \/ phase = "completed" /\ Complete(t.job, t.attempt, now)
                        \/ phase = "failed" /\ ~Owns(t.job, t.attempt)'
    BY <1>4, PhaseStep
  <2>2. u.job = t.job /\ u.attempt = t.attempt /\ u.fiber = t.fiber /\ u.phase = phase
    BY <1>4, <2>1, MovedTask
  <2>3. CASE phase \in {"handled", "failing", "writing"}
    <3>1. LetsGo(t)
      BY <1>1, <2>2, <2>3, AttemptTask DEF LetsGo
    <3>2. QED
      BY <1>2, <2>2, <3>1
  <2>4. CASE phase = "completed" /\ Complete(t.job, t.attempt, now)
    BY <1>1, <2>2, <2>4, CompleteLetsGo
  <2>5. CASE phase = "failed" /\ ~Owns(t.job, t.attempt)'
    BY <2>2, <2>5
  <2>6. QED
    BY <2>1, <2>3, <2>4, <2>5
<1>5. QED
  BY <1>3, <1>4

\* A job that is started displaces the older fiber of that job, whose attempt was
\* superseded when this one was claimed.
LEMMA StartLetsGo ==
    ASSUME TypeOK, WorkerType, OwnTokens, Waits, YoungestOwns, LetGo,
           NEW p \in Procs, StartClaimed(p), NEW u \in task', LetsGo(u)
    PROVE  ~Owns(u.job, u.attempt)'
<1>1. UNCHANGED job
  BY StartTask DEF vars
<1>2. PICK t \in task : t.phase = "claimed" /\ t.proc = p /\ Starts(t)
  BY StartTask
<1>3. u # Started(t)
  BY StartedTask DEF LetsGo
<1>4. PICK s \in task \ {t} : u = Displaced(s, t)
  BY <1>2, <1>3 DEF Starts
<1>5. /\ u.job = s.job /\ u.attempt = s.attempt /\ u.phase = s.phase
      /\ IF s.proc = t.proc /\ s.job = t.job THEN ~u.fiber ELSE u = s
  BY <1>4, DisplacedTask
<1>6. s.attempt \in 1..lastAttempt /\ t.attempt \in Nat /\ lastAttempt \in Nat
      /\ s.attempt # Unfenced
  BY DEF OwnTokens, Tokens, TypeOK, WorkerType, TaskRecord, Unfenced
<1>7. CASE LetsGo(s)
  BY <1>1, <1>5, <1>7 DEF LetGo, Owns
<1>8. CASE ~LetsGo(s)
  <2>1. s.proc = t.proc /\ s.job = t.job /\ s.phase # "claimed"
    BY <1>5, <1>8 DEF LetsGo
  <2>2. s.attempt < t.attempt
    BY <1>2, <2>1 DEF Waits
  <2>3. job[s.job].status = Processing => t.attempt <= job[s.job].attemptId
    BY <2>1 DEF YoungestOwns
  <2>4. ~Owns(s.job, s.attempt)
    BY <1>6, <2>2, <2>3 DEF Owns
  <2>5. QED
    BY <1>1, <1>5, <2>4 DEF Owns
<1>9. QED
  BY <1>7, <1>8

\* A process that goes down or ends its session leaves no fiber behind.
LEMMA FibersRun ==
    ASSUME TypeOK, WorkerType, Sessions, OwnTokens, Waits, LetGo, [WorkerNext]_wvars,
           NEW u \in task', u.fiber
    PROVE  proc'[u.proc].isRunning
<1>1. ASSUME NEW p \in Procs, Quiet(p)
      PROVE  proc'[u.proc].isRunning
  <2>1. u \in task /\ u.proc \in Procs /\ proc[u.proc].isRunning
    BY <1>1, QuietTask DEF LetGo, WorkerType, TaskRecord
  <2>2. CASE StopWorker(p)
    BY <2>1, <2>2 DEF StopWorker, Fibers, WorkerType
  <2>3. CASE Exit(p)
    BY <2>1, <2>3 DEF Exit, WorkerType
  <2>4. CASE WorkerHeartbeat(p)
    <3>1. ProcKept(u.proc)
      BY <2>1, <2>4, UnhealthyKeeps DEF WorkerHeartbeat, ProcKept
    <3>2. QED
      BY <2>1, <3>1 DEF ProcKept
  <2>5. CASE StartWorker(p)
    BY <2>1, <2>5 DEF StartWorker, WorkerType, ProcRecord
  <2>6. CASE RequestStop(p)
    BY <2>1, <2>6 DEF RequestStop, WorkerType, ProcRecord
  <2>7. CASE BeginPoll(p) \/ PollReturnsNothing(p)
    BY <2>1, <2>7, PollKeeps DEF Polling
  <2>8. QED
    BY <1>1, <2>2, <2>3, <2>4, <2>5, <2>6, <2>7 DEF Lifecycle, Quiet
<1>2. ASSUME NEW p \in Procs, PollThrows(p) \/ \E j \in Jobs : PollClaims(p, j)
      PROVE  proc'[u.proc].isRunning
  <2>1. u \in task
    BY <1>2, PollThrowsTask, ClaimTask DEF ClaimedTask
  <2>2. QED
    BY <1>2, <2>1, PollKeeps DEF LetGo, WorkerType, TaskRecord, Polling
<1>3. ASSUME NEW p \in Procs, StartClaimed(p)
      PROVE  proc'[u.proc].isRunning
  <2>1. PICK t \in task : t.phase = "claimed" /\ t.proc = p /\ Starts(t)
    BY <1>3, StartTask
  <2>2. CASE u = Started(t)
    BY <1>3, <2>1, <2>2, StartedTask, PollKeeps DEF Waits, Polling
  <2>3. ASSUME NEW s \in task \ {t}, u = Displaced(s, t)
        PROVE  proc'[u.proc].isRunning
    <3>1. u = s
      BY <2>3, DisplacedTask
    <3>2. QED
      BY <1>3, <3>1, PollKeeps DEF LetGo, WorkerType, TaskRecord, Polling
  <2>4. QED
    BY <2>1, <2>2, <2>3 DEF Starts
<1>4. ASSUME NEW t \in task, Attempt(t)
      PROVE  proc'[u.proc].isRunning
  <2>1. \E s \in task : u.proc = s.proc /\ s.fiber
    BY <1>4, AttemptTask, MovedTask
  <2>2. QED
    BY <1>4, <2>1, AttemptTask DEF LetGo, ProcKept, WorkerType, TaskRecord
<1>5. CASE UNCHANGED <<lastSession, lastAttempt, failing, memory>>
  BY <1>5 DEF memory, LetGo
<1>6. QED
  BY <1>1, <1>2, <1>3, <1>4, <1>5, WorkerCases

LEMMA NextLetGo ==
    ASSUME TypeOK, WorkerType, Sessions, OwnTokens, Reads, Waits, YoungestOwns, LetGo,
           [WorkerNext]_wvars
    PROVE  LetGo'
<1> SUFFICES ASSUME NEW u \in task', LetsGo(u)
             PROVE  ~Owns(u.job, u.attempt)'
  BY FibersRun DEF LetGo, LetsGo
<1>1. ASSUME u \in task
      PROVE  ~Owns(u.job, u.attempt)'
  <2>1. u.job \in Jobs /\ u.attempt \in Tokens /\ ~Owns(u.job, u.attempt)
    BY <1>1 DEF LetGo, WorkerType, TaskRecord, OwnTokens
  <2>2. QED
    BY <2>1, WorkersDrive, OwnershipFades
<1>2. ASSUME NEW p \in Procs, NEW j \in Jobs, PollClaims(p, j)
      PROVE  u \in task
  BY <1>2, ClaimTask DEF ClaimedTask, LetsGo
<1>3. QED
  BY <1>1, <1>2, WorkerCases, QuietTask, PollThrowsTask, StartLetsGo, AttemptLetsGo DEF memory

-----------------------------------------------------------------------------
(* Outcomes.                                                                *)

\* Nothing is reported and no attempt completes.
LEMMA OutcomesKept ==
    ASSUME TypeOK, WorkerType, [Next]_vars, Outcomes, OwnTokens',
           UNCHANGED <<succeeded, terminated>>,
           \A u \in task' : u.phase = "completed" =>
             \E t \in task : t.phase = "completed" /\ t.job = u.job /\ t.attempt = u.attempt
    PROVE  Outcomes'
<1>1. \A u \in task' : u.phase = "completed" =>
        job'[u.job].status \in Done /\ succeeded'[u.job] = 0 /\ terminated'[u.job] = 0
  BY OutcomeStays DEF Outcomes, WorkerType, TaskRecord
<1>2. \A u, v \in task' :
        u.phase = "completed" /\ v.phase = "completed" /\ u.job = v.job => u = v
  BY DEF Outcomes, OwnTokens
<1>3. \A j \in Jobs : /\ succeeded'[j] <= 1
                      /\ succeeded'[j] > 0 => job'[j].status \in Done
                      /\ terminated'[j] > 0 => job'[j].status \in Lost
                      /\ succeeded'[j] = 0 \/ terminated'[j] = 0
  BY OutcomeStays DEF Outcomes
<1>4. QED
  BY <1>1, <1>2, <1>3 DEF Outcomes

\* complete() was applied: the job was running, so nobody reported an outcome.
LEMMA OutcomesCompleted ==
    ASSUME TypeOK, WorkerType, OwnTokens, Outcomes, [Next]_vars,
           NEW t \in task, task' = Moved(t, "completed"), Complete(t.job, t.attempt, now),
           UNCHANGED <<succeeded, terminated>>
    PROVE  Outcomes'
<1>1. t.job \in Jobs /\ t.attempt \in Tokens
  BY DEF WorkerType, TaskRecord, OwnTokens
<1>2. job[t.job].status = Processing /\ job'[t.job].status = Completed
  BY <1>1, CompleteLetsGo
<1>3. succeeded[t.job] = 0 /\ terminated[t.job] = 0
  BY <1>1, <1>2 DEF Outcomes, WorkerType, Done, Lost, Processing, Completed, Failed
<1>4. \A s \in task : s.phase = "completed" => s.job # t.job
  BY <1>2 DEF Outcomes, Done, Processing, Completed
<1>5. \A u \in task' : \/ u \in task /\ u # t
                       \/ u = [t EXCEPT !.phase = "completed"] /\ u.job = t.job
  BY MovedTask
<1>6. \A u \in task' : u.phase = "completed" =>
        job'[u.job].status \in Done /\ succeeded'[u.job] = 0 /\ terminated'[u.job] = 0
  BY <1>2, <1>3, <1>5, OutcomeStays DEF Outcomes, WorkerType, TaskRecord, Done
<1>7. \A u, v \in task' :
        u.phase = "completed" /\ v.phase = "completed" /\ u.job = v.job => u = v
  BY <1>4, <1>5 DEF Outcomes
<1>8. \A j \in Jobs : /\ succeeded'[j] <= 1
                      /\ succeeded'[j] > 0 => job'[j].status \in Done
                      /\ terminated'[j] > 0 => job'[j].status \in Lost
                      /\ succeeded'[j] = 0 \/ terminated'[j] = 0
  BY OutcomeStays DEF Outcomes
<1>9. QED
  BY <1>6, <1>7, <1>8 DEF Outcomes

LEMMA OutcomesReported ==
    ASSUME TypeOK, WorkerType, Outcomes, NEW t \in task,
           SuccessCallback(t) \/ EmitTerminalFailure(t)
    PROVE  Outcomes'
<1>1. t.job \in Jobs /\ task' = task \ {t} /\ UNCHANGED job
  BY DEF SuccessCallback, EmitTerminalFailure, Finish, WorkerType, TaskRecord, vars
<1>2. CASE SuccessCallback(t)
  <2>1. /\ job[t.job].status \in Done /\ succeeded[t.job] = 0 /\ terminated[t.job] = 0
        /\ \A s \in task : s.phase = "completed" /\ s.job = t.job => s = t
    BY <1>2 DEF SuccessCallback, Outcomes
  <2>2. /\ UNCHANGED terminated /\ succeeded'[t.job] = 1
        /\ \A j \in Jobs \ {t.job} : succeeded'[j] = succeeded[j]
    BY <1>1, <1>2, <2>1 DEF SuccessCallback, WorkerType
  <2>3. \A u \in task' : u.phase = "completed" => u.job # t.job /\ u.job \in Jobs
    BY <1>1, <2>1 DEF WorkerType, TaskRecord
  <2>4. QED
    BY <1>1, <2>1, <2>2, <2>3 DEF Outcomes
<1>3. CASE EmitTerminalFailure(t) /\ job[t.job].status = Failed
  <2>1. job[t.job].status \notin Done /\ job[t.job].status \in Lost
    BY <1>3 DEF Done, Lost, Completed, Failed
  <2>2. succeeded[t.job] = 0 /\ \A s \in task : s.phase = "completed" => s.job # t.job
    BY <1>1, <2>1 DEF Outcomes, WorkerType
  <2>3. /\ UNCHANGED succeeded
        /\ \A j \in Jobs \ {t.job} : terminated'[j] = terminated[j]
    BY <1>1, <1>3 DEF EmitTerminalFailure, WorkerType
  <2>4. \A u \in task' : u.phase = "completed" => u.job # t.job /\ u.job \in Jobs
    BY <1>1, <2>2 DEF WorkerType, TaskRecord
  <2>5. QED
    BY <1>1, <2>1, <2>2, <2>3, <2>4 DEF Outcomes
<1>4. CASE EmitTerminalFailure(t) /\ job[t.job].status # Failed
  <2>1. UNCHANGED <<succeeded, terminated>>
    BY <1>4 DEF EmitTerminalFailure
  <2>2. QED
    BY <1>1, <2>1 DEF Outcomes
<1>5. QED
  BY <1>2, <1>3, <1>4

LEMMA NextOutcomes ==
    ASSUME TypeOK, WorkerType, Sessions, OwnTokens, Reads, Outcomes, [WorkerNext]_wvars
    PROVE  Outcomes'
<1>0. [Next]_vars /\ OwnTokens'
  BY WorkersDrive, NextOwnTokens
<1>1. ASSUME NEW p \in Procs, Quiet(p) \/ PollThrows(p)
      PROVE  Outcomes'
  BY <1>0, <1>1, QuietTask, PollThrowsTask, OutcomesKept DEF history
<1>2. ASSUME NEW p \in Procs, StartClaimed(p) \/ \E j \in Jobs : PollClaims(p, j)
      PROVE  Outcomes'
  <2>1. UNCHANGED <<succeeded, terminated>>
    BY <1>2, StartTask, ClaimTask DEF history
  <2>2. CASE \E j \in Jobs : PollClaims(p, j)
    <3>1. \A u \in task' : u.phase = "completed" => u \in task
      BY <2>2, ClaimTask DEF ClaimedTask
    <3>2. QED
      BY <1>0, <2>1, <3>1, OutcomesKept
  <2>3. CASE StartClaimed(p)
    <3>1. PICK t \in task : Starts(t)
      BY <2>3, StartTask
    <3>2. \A u \in task' : u.phase = "completed" =>
            \E s \in task : s.phase = "completed" /\ s.job = u.job /\ s.attempt = u.attempt
      BY <3>1, StartedTask, DisplacedTask DEF Starts
    <3>3. QED
      BY <1>0, <2>1, <3>2, OutcomesKept
  <2>4. QED
    BY <1>2, <2>2, <2>3
<1>3. ASSUME NEW t \in task, Attempt(t)
      PROVE  Outcomes'
  <2>1. CASE SuccessCallback(t) \/ EmitTerminalFailure(t)
    BY <2>1, OutcomesReported
  <2>2. CASE task' = Moved(t, "completed") /\ Complete(t.job, t.attempt, now)
             /\ UNCHANGED <<succeeded, terminated>>
    BY <1>0, <2>2, OutcomesCompleted
  <2>3. CASE /\ ~(SuccessCallback(t) \/ EmitTerminalFailure(t))
             /\ \/ task' \in {task, task \ {t}}
                \/ \E phase \in {"handled", "failing", "writing", "failed"} :
                     task' = Moved(t, phase)
    <3>1. UNCHANGED <<succeeded, terminated>>
      BY <1>3, <2>3 DEF Attempt, AttemptHeartbeat, ReportProgress, Execute, HandlerEnds,
         HandlerOverruns, Settle, CompleteJob, CompleteThrows, FailReads, FailWrites, FailThrows,
         history, memory
    <3>2. \A u \in task' : u.phase = "completed" => u \in task
      BY <2>3, MovedTask
    <3>3. QED
      BY <1>0, <3>1, <3>2, OutcomesKept
  <2>4. QED
    BY <1>3, <2>1, <2>2, <2>3, PhaseStep
<1>4. CASE UNCHANGED <<lastSession, lastAttempt, failing, memory>>
  BY <1>0, <1>4, OutcomesKept DEF memory, history
<1>5. QED
  BY <1>1, <1>2, <1>3, <1>4, WorkerCases

-----------------------------------------------------------------------------
(* Claims with a live owner.                                                *)

\* An attempt gives up its task while it owns the job only when fail() throws.
LEMMA OwnerKeepsTask ==
    ASSUME TypeOK, WorkerType, OwnTokens, Reads, LetGo, NEW t \in task, Attempt(t),
           t.attempt \notin dropped', Owns(t.job, t.attempt)
    PROVE  \/ task' = task
           \/ \E phase \in Phases : task' = Moved(t, phase)
<1>1. ~FailThrows(t) /\ ~SuccessCallback(t) /\ ~EmitTerminalFailure(t)
  <2>1. ~FailThrows(t)
    BY DEF FailThrows
  <2>2. QED
    BY <2>1 DEF SuccessCallback, EmitTerminalFailure, LetGo, LetsGo
<1>2. \A f \in failing : f.attemptId = t.attempt => FailApplies(f)
  BY DEF Reads, FailApplies
<1>3. QED
  BY <1>1, <1>2 DEF Attempt, AttemptHeartbeat, ReportProgress, Execute, HandlerEnds,
     HandlerOverruns, Settle, CompleteJob, CompleteThrows, FailReads, FailWrites, Phases, AtWork,
     memory

\* An attempt that was left without a task stays so marked.
LEMMA DroppedGrows ==
    ASSUME WorkerType, [WorkerNext]_wvars
    PROVE  dropped \subseteq dropped'
<1>1. ASSUME NEW t \in task, Attempt(t)
      PROVE  dropped \subseteq dropped'
  BY <1>1 DEF Attempt, AttemptHeartbeat, ReportProgress, Execute, HandlerEnds, HandlerOverruns,
     Settle, CompleteJob, CompleteThrows, FailReads, FailWrites, FailThrows, SuccessCallback,
     EmitTerminalFailure, memory, history
<1>2. QED
  BY <1>1, WorkerCases, QuietTask, PollThrowsTask, StartTask, ClaimTask DEF memory, history

\* A row that runs after a step ran before it under the same attempt, unless the
\* step claimed it.
LEMMA RunningRow ==
    ASSUME TypeOK, WorkerType, Sessions, OwnTokens, [WorkerNext]_wvars, UNCHANGED lastAttempt,
           NEW j \in Jobs, job'[j].status = Processing
    PROVE  /\ job[j].status = Processing
           /\ job'[j].attemptId = job[j].attemptId
           /\ job'[j].workerSessionId = job[j].workerSessionId
           /\ job[j].attemptId \in Tokens
<1>1. RowStep(j, job[j], job'[j])
  BY WorkersDrive, AnyStep
<1>2. lastAttempt \in Nat
  BY DEF TypeOK
<1>3. job'[j] = job[j] \/ Touched(job[j], job'[j])
  BY <1>1, <1>2 DEF RowStep, LiveStep, Inserted, Given, GivenBack, SettledNow, Removed, Terminal,
     Pending, Processing, Completed, Failed
<1>4. QED
  BY <1>3 DEF Touched, TypeOK

\* A running row has an attempt and a session that exist.
LEMMA RunningTokens ==
    ASSUME TypeOK, NEW j \in Jobs, job[j].status = Processing
    PROVE  job[j].attemptId \in Tokens /\ job[j].workerSessionId \in 1..lastSession
BY DEF TypeOK

\* A worker that runs after a step ran with its session before, or has started.
LEMMA RunningWorker ==
    ASSUME TypeOK, WorkerType, [WorkerNext]_wvars, NEW p \in Procs, proc'[p].isRunning,
           proc'[p].session # lastSession + 1
    PROVE  proc[p].isRunning /\ proc[p].session = proc'[p].session
<1>1. ASSUME NEW q \in Procs, Lifecycle(q) \/ WorkerHeartbeat(q)
      PROVE  proc[p].isRunning /\ proc[p].session = proc'[p].session
  <2>0. proc[q] \in ProcRecord
    BY DEF WorkerType
  <2>1. CASE StartWorker(q)
    <3> DEFINE w == [proc[q] EXCEPT !.isRunning = TRUE, !.isHealthy = TRUE,
                                    !.shouldStop = FALSE, !.session = lastSession']
    <3>1. lastSession' = lastSession + 1 /\ proc' = [proc EXCEPT ![q] = w]
      BY <2>1 DEF StartWorker, StartWorkerSession
    <3>2. w.session = lastSession + 1
      BY <2>0, <3>1 DEF ProcRecord
    <3> HIDE DEF w
    <3>3. QED
      BY <3>1, <3>2 DEF WorkerType
  <2>2. CASE StopWorker(q)
    <3> DEFINE w == [proc[q] EXCEPT !.isRunning = FALSE, !.stopping = FALSE,
                                    !.session = NoSession]
    <3>1. proc' = [proc EXCEPT ![q] = w]
      BY <2>2 DEF StopWorker
    <3>2. ~w.isRunning
      BY <2>0 DEF ProcRecord
    <3> HIDE DEF w
    <3>3. QED
      BY <3>1, <3>2 DEF WorkerType
  <2>3. CASE Exit(q)
    BY <2>3 DEF Exit, Down, WorkerType
  <2>4. CASE WorkerHeartbeat(q)
    BY <2>4, UnhealthyKeeps DEF WorkerHeartbeat, ProcKept
  <2>5. CASE RequestStop(q)
    BY <2>5 DEF RequestStop, WorkerType, ProcRecord
  <2>6. QED
    BY <1>1, <2>1, <2>2, <2>3, <2>4, <2>5 DEF Lifecycle
<1>2. ASSUME NEW q \in Procs, Polling(q) \/ PollThrows(q)
      PROVE  proc[p].isRunning /\ proc[p].session = proc'[p].session
  BY <1>2, PollKeeps
<1>3. CASE UNCHANGED <<lastSession, lastAttempt, failing, memory>>
  BY <1>3 DEF memory
<1>4. ASSUME NEW t \in task, Attempt(t)
      PROVE  proc[p].isRunning /\ proc[p].session = proc'[p].session
  BY <1>4, AttemptTask DEF ProcKept
<1>5. QED
  BY <1>1, <1>2, <1>3, <1>4, WorkerCases DEF Quiet, Polling

\* The task of an attempt that was not dropped goes on, if no row was claimed.
LEMMA HeldGoesOn ==
    ASSUME TypeOK, WorkerType, OwnTokens, Reads, LetGo, [WorkerNext]_wvars,
           NEW t \in task, t.attempt \notin dropped', Owns(t.job, t.attempt),
           proc'[t.proc].isRunning
    PROVE  \E u \in task' : u.proc = t.proc /\ u.job = t.job /\ u.attempt = t.attempt
<1>1. ASSUME NEW q \in Procs, Quiet(q)
      PROVE  t \in task'
  BY <1>1, QuietTask
<1>2. ASSUME NEW q \in Procs, PollThrows(q)
      PROVE  t \in task'
  BY <1>2, PollThrowsTask
<1>3. ASSUME NEW q \in Procs, StartClaimed(q)
      PROVE  \E u \in task' : u.proc = t.proc /\ u.job = t.job /\ u.attempt = t.attempt
  <2>1. PICK s \in task : Starts(s)
    BY <1>3, StartTask
  <2>2. Started(s) \in task' /\ (t # s => Displaced(t, s) \in task')
    BY <2>1 DEF Starts
  <2>3. QED
    BY <2>2, StartedTask, DisplacedTask
<1>4. ASSUME NEW q \in Procs, NEW k \in Jobs, PollClaims(q, k)
      PROVE  t \in task'
  BY <1>4, ClaimTask
<1>5. ASSUME NEW s \in task, Attempt(s)
      PROVE  \E u \in task' : u.proc = t.proc /\ u.job = t.job /\ u.attempt = t.attempt
  <2>1. CASE t \in task'
    BY <2>1
  <2>2. CASE t \notin task'
    <3>1. s = t
      BY <1>5, <2>2, AttemptTask DEF Moved
    <3>2. PICK phase \in Phases : task' = Moved(t, phase)
      BY <1>5, <2>2, <3>1, OwnerKeepsTask
    <3>3. [t EXCEPT !.phase = phase] \in task' /\ t \in TaskRecord
      BY <3>2 DEF Moved, WorkerType
    <3>4. QED
      BY <3>3 DEF TaskRecord
  <2>3. QED
    BY <2>1, <2>2
<1>6. CASE UNCHANGED <<lastSession, lastAttempt, failing, memory>>
  BY <1>6 DEF memory
<1>7. QED
  BY <1>1, <1>2, <1>3, <1>4, <1>5, <1>6, WorkerCases

LEMMA NextNotStranded ==
    ASSUME TypeOK, WorkerType, Sessions, OwnTokens, Reads, LetGo, NoStrandedClaim,
           [WorkerNext]_wvars
    PROVE  NoStrandedClaim'
<1> SUFFICES ASSUME NEW j \in Jobs, NEW p \in Procs,
                    job'[j].status = Processing, proc'[p].isRunning,
                    proc'[p].session = job'[j].workerSessionId,
                    job'[j].attemptId \notin dropped'
             PROVE  \E t \in task' : t.proc = p /\ t.job = j /\ t.attempt = job'[j].attemptId
  BY DEF NoStrandedClaim
<1>0. lastSession \in Nat /\ lastAttempt \in Nat
  BY DEF TypeOK
<1>1. ASSUME job[j].status = Processing, job'[j].attemptId = job[j].attemptId,
             job'[j].workerSessionId = job[j].workerSessionId
      PROVE  \E t \in task' : t.proc = p /\ t.job = j /\ t.attempt = job'[j].attemptId
  <2>1. job[j].attemptId \in Tokens /\ job[j].workerSessionId \in 1..lastSession
    BY <1>1, RunningTokens
  <2>2. proc[p].isRunning /\ proc[p].session = job[j].workerSessionId
    BY <1>0, <1>1, <2>1, RunningWorker
  <2>3. PICK t \in task : t.proc = p /\ t.job = j /\ t.attempt = job[j].attemptId
    BY <1>1, <2>2, DroppedGrows DEF NoStrandedClaim
  <2>4. Owns(t.job, t.attempt)
    BY <1>1, <2>1, <2>3 DEF Owns, Tokens, Unfenced
  <2>5. QED
    BY <1>1, <2>3, <2>4, HeldGoesOn
<1>2. CASE UNCHANGED lastAttempt
  BY <1>1, <1>2, RunningRow
<1>3. ASSUME NEW q \in Procs, NEW k \in Jobs, Claim(k, SlotOf[q], proc[q].session, now), j # k
      PROVE  job'[j] = job[j]
  BY <1>3 DEF Claim, TypeOK
<1>4. ASSUME NEW q \in Procs, NEW k \in Jobs, PollClaims(q, k)
      PROVE  \E t \in task' : t.proc = p /\ t.job = j /\ t.attempt = job'[j].attemptId
  <2>1. CASE j = k
    <3>1. job'[j].attemptId = lastAttempt + 1 /\ job'[j].workerSessionId = proc[q].session
      BY <1>4, <2>1 DEF PollClaims, Claim, Claimed, TypeOK, Row
    <3>2. proc[q].isRunning
      BY <1>4 DEF PollClaims, Sessions
    <3>3. proc[p].isRunning /\ proc[p].session = proc'[p].session
      BY <1>4, PollKeeps DEF Polling
    <3>4. p = q
      BY <3>1, <3>2, <3>3 DEF Sessions
    <3>5. ClaimedTask(p, j, lastAttempt + 1) \in task'
      BY <1>4, <2>1, <3>4, ClaimTask
    <3>6. QED
      BY <3>1, <3>5 DEF ClaimedTask
  <2>2. CASE j # k
    BY <1>1, <1>3, <1>4, <2>2 DEF PollClaims
  <2>3. QED
    BY <2>1, <2>2
<1>5. ASSUME NEW q \in Procs, PollThrows(q), lastAttempt' # lastAttempt
      PROVE  \E t \in task' : t.proc = p /\ t.job = j /\ t.attempt = job'[j].attemptId
  <2>1. PICK k \in Jobs : Claim(k, SlotOf[q], proc[q].session, now)
    BY <1>5 DEF PollThrows, ClaimSpent, vars
  <2>2. CASE j = k
    <3>1. job'[j].attemptId = lastAttempt + 1 /\ lastAttempt' = lastAttempt + 1
      BY <2>1, <2>2 DEF Claim, Claimed, TypeOK, Row
    <3>2. QED
      BY <1>0, <1>5, <3>1, PollThrowsTask
  <2>3. CASE j # k
    BY <1>1, <1>3, <2>1, <2>3
  <2>4. QED
    BY <2>2, <2>3
<1>6. QED
  BY <1>2, <1>4, <1>5, WorkerCases, QuietTask, StartTask, AttemptTask DEF vars

-----------------------------------------------------------------------------
(* The theorems.                                                            *)

WorkersOK == /\ TypeOK /\ WorkerType /\ Sessions /\ OwnTokens /\ Reads /\ Waits /\ YoungestOwns
             /\ LetGo /\ Outcomes /\ NoStrandedClaim

LEMMA InitWorkersOK == WorkerInit => WorkersOK
<1> SUFFICES ASSUME WorkerInit
             PROVE  WorkersOK
  OBVIOUS
<1>1. TypeOK /\ WorkerType
  BY InitType, InitWorkerType DEF WorkerInit
<1>2. \A p \in Procs : ~proc[p].isRunning /\ ~proc[p].stopping /\ ~Dequeuing(p)
  BY DEF WorkerInit, Down, Dequeuing
<1>3. Sessions
  BY <1>2 DEF Sessions
<1>4. OwnTokens /\ Reads /\ Waits /\ YoungestOwns /\ LetGo
  BY DEF WorkerInit, Init, OwnTokens, Reads, Waits, YoungestOwns, LetGo
<1>5. Outcomes
  BY DEF WorkerInit, Outcomes
<1>6. NoStrandedClaim
  BY <1>2 DEF NoStrandedClaim
<1>7. QED
  BY <1>1, <1>3, <1>4, <1>5, <1>6 DEF WorkersOK

LEMMA NextWorkersOK == WorkersOK /\ [WorkerNext]_wvars => WorkersOK'
<1> SUFFICES ASSUME WorkersOK, [WorkerNext]_wvars
             PROVE  WorkersOK'
  OBVIOUS
<1>1. TypeOK' /\ WorkerType'
  BY WorkersDrive, NextType, NextWorkerType DEF WorkersOK
<1>2. Sessions' /\ OwnTokens' /\ Reads' /\ Waits' /\ YoungestOwns'
  BY NextSessions, NextOwnTokens, NextReads, NextWaits, NextYoungestOwns DEF WorkersOK
<1>3. LetGo' /\ Outcomes' /\ NoStrandedClaim'
  BY NextLetGo, NextOutcomes, NextNotStranded DEF WorkersOK
<1>4. QED
  BY <1>1, <1>2, <1>3 DEF WorkersOK

LEMMA WorkersStayOK == WorkerSpec => []WorkersOK
BY InitWorkersOK, NextWorkersOK, PTL DEF WorkerSpec

\* Workers that poll, run attempts, stall, stop and die issue only the statements
\* JobQueue allows: every theorem about the queue holds of these processes.
THEOREM WorkersDriveQueue == WorkerSpec => DrivesQueue
<1>1. WorkersOK /\ [WorkerNext]_wvars => [Next]_vars
  BY WorkersDrive DEF WorkersOK
<1>2. WorkerInit => Init
  BY DEF WorkerInit
<1>3. QED
  BY <1>1, <1>2, WorkersStayOK, PTL DEF WorkerSpec, DrivesQueue, Spec

\* The handlers of a job learn one outcome, however its attempts overlap.
THEOREM OneOutcomeOnly == WorkerSpec => []OneOutcome
<1>1. WorkersOK => OneOutcome
  <2> SUFFICES ASSUME WorkersOK, NEW j \in Jobs
               PROVE  succeeded[j] + (IF terminated[j] > 0 THEN 1 ELSE 0) <= 1
    BY DEF OneOutcome
  <2>1. succeeded[j] \in Nat /\ terminated[j] \in Nat
    BY DEF WorkersOK, WorkerType
  <2>2. succeeded[j] <= 1 /\ (succeeded[j] = 0 \/ terminated[j] = 0)
    BY DEF WorkersOK, Outcomes
  <2>3. QED
    BY <2>1, <2>2
<1>2. QED
  BY <1>1, WorkersStayOK, PTL

\* No claim of a worker that runs is without the poll or the task that has it in its
\* hands, but for the attempts whose own dequeue() or fail() threw.
THEOREM NothingStranded == WorkerSpec => []NoStrandedClaim
<1>1. WorkersOK => NoStrandedClaim
  BY DEF WorkersOK
<1>2. QED
  BY <1>1, WorkersStayOK, PTL

\* What still runs in a process that stopped has lost its job.
THEOREM StopLetsGo == WorkerSpec => []StoppedHoldsNoJob
<1>1. WorkersOK => StoppedHoldsNoJob
  BY DEF WorkersOK, LetGo, LetsGo, Waits, StoppedHoldsNoJob
<1>2. QED
  BY <1>1, WorkersStayOK, PTL
=============================================================================
