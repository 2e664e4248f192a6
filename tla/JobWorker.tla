------------------------------ MODULE JobWorker ------------------------------
(***************************************************************************)
(* The worker process that drains the queue                                *)
(* (shell/job-queue/src/job-queue-worker.ts) composed with the queue it    *)
(* drains (JobQueue).                                                      *)
(*                                                                         *)
(* A process is single-threaded and yields at every await, so an action is *)
(* what runs between two awaits together with the statement it waits for.  *)
(* Heartbeats, the polling loop, the running handlers, start and stop      *)
(* interleave.  A process may die at any moment; its supervisor starts a   *)
(* new one in the same slot.                                               *)
(***************************************************************************)
EXTENDS JobQueue

CONSTANTS
    Procs,            \* worker processes
    SlotOf,           \* SlotOf[p]: the worker slot p is configured with
    Concurrency,      \* concurrency of a worker
    MaxThrows         \* bound on the calls of dequeue() and fail() that throw

ASSUME WorkerConstants ==
    /\ SlotOf \in [Procs -> Slots]
    /\ Concurrency \in Nat \ {0}

VARIABLES
    proc,             \* proc[p]: the fields of the worker object in p
    task,             \* the calls of processJob in progress, in all processes
    succeeded,        \* succeeded[j]: calls of onTerminalSuccess for j
    terminated,       \* terminated[j]: calls of onTerminalError for j
    throws,           \* calls of dequeue() and fail() that threw
    dropped           \* the tokens of the attempts those calls left without a task

history == <<succeeded, terminated, throws, dropped>>
memory == <<proc, task, history>>
wvars == <<vars, memory>>

-----------------------------------------------------------------------------
NoSession == 0

\* slots: the calls of dequeue() that the poll in flight may still make.
Down == [isRunning |-> FALSE, isHealthy |-> TRUE, shouldStop |-> FALSE,
         stopping |-> FALSE, session |-> NoSession, slots |-> 0, activeJobs |-> {}]

\* A task is a record [proc, job, attempt, phase, fiber].  Its phase is "claimed"
\* while the job waits in the array of the poll that claimed it; "handling" while
\* the handler runs, under the attempt heartbeat; "handled" when it returned and
\* complete() comes next; "failing" and "writing" before the first and the second
\* statement of fail(); "completed" and "failed" once the write was applied and a
\* terminal callback may be due.  fiber: it is the task that the FiberMap holds for
\* its job.

WorkerInit ==
    /\ Init
    /\ proc = [p \in Procs |-> Down]
    /\ task = {}
    /\ succeeded = [j \in Jobs |-> 0]
    /\ terminated = [j \in Jobs |-> 0]
    /\ throws = 0
    /\ dropped = {}

Dequeuing(p) == proc[p].slots > 0
Waiting(p) == {t \in task : t.proc = p /\ t.phase = "claimed"}

\* No poll is in flight.
Idle(p) == ~Dequeuing(p) /\ Waiting(p) = {}
NoFibersSlip(p) == {}

Fibers(p) == {t \in task : t.proc = p /\ t.fiber}

Unhealthy(w) == [w EXCEPT !.isHealthy = FALSE, !.shouldStop = TRUE]

Moved(t, phase) == (task \ {t}) \cup {[t EXCEPT !.phase = phase]}

\* processJobWrapper's finally clause.
Finish(t) ==
    /\ task' = task \ {t}
    /\ proc' = [proc EXCEPT ![t.proc].activeJobs = @ \ {t.job}]

\* A fault may only happen while a replacement session can still be started.
SpareSession == lastSession < MaxSessions

-----------------------------------------------------------------------------
(* Start, stop, heartbeat of the session.                                  *)

StartWorker(p) ==
    /\ ~proc[p].isRunning
    /\ StartWorkerSession(SlotOf[p], now)
    /\ proc' = [proc EXCEPT ![p] =
                  [@ EXCEPT !.isRunning = TRUE, !.isHealthy = TRUE,
                            !.shouldStop = FALSE, !.session = lastSession']]
    /\ UNCHANGED <<task, history>>

RequestStop(p) ==
    /\ proc[p].isRunning /\ ~proc[p].stopping
    /\ SpareSession
    /\ proc' = [proc EXCEPT ![p].shouldStop = TRUE, ![p].stopping = TRUE]
    /\ UNCHANGED <<vars, task, history>>

\* The poll in flight and the fibers have ended: the session is ended too.
StopWorker(p) ==
    /\ proc[p].stopping /\ Idle(p) /\ Fibers(p) = {}
    /\ proc' = [proc EXCEPT ![p] =
                  [@ EXCEPT !.isRunning = FALSE, !.stopping = FALSE,
                            !.session = NoSession]]
    /\ \/ EndWorkerSession(SlotOf[p], proc[p].session)
       \/ session[SlotOf[p]].id # proc[p].session /\ UNCHANGED vars
    /\ UNCHANGED <<task, history>>

\* The process dies, or the runtime exits because its worker is unhealthy.
Exit(p) ==
    /\ proc[p].isRunning
    /\ SpareSession
    /\ proc' = [proc EXCEPT ![p] = Down]
    /\ task' = {t \in task : t.proc # p}
    /\ failing' = {f \in failing :
                     ~\E t \in task : t.proc = p /\ t.attempt = f.attemptId}
    /\ UNCHANGED <<now, job, session, lastSession, lastAttempt, claims>>
    /\ UNCHANGED history

UpsertHeartbeatSlip(p) ==
    /\ proc[p].isRunning
    /\ session' = [session EXCEPT ![SlotOf[p]] =
                     [id |-> proc[p].session, expiresAt |-> now + SessionTimeout]]
    /\ UNCHANGED <<now, job, lastSession, lastAttempt, failing, claims, memory>>

WorkerHeartbeat(p) ==
    /\ proc[p].isRunning
    /\ \/ /\ HeartbeatWorkerSession(SlotOf[p], proc[p].session, now)
          /\ UNCHANGED proc
       \/ /\ session[SlotOf[p]].id # proc[p].session      \* superseded
          /\ proc' = [proc EXCEPT ![p] = Unhealthy(@)]
          /\ UNCHANGED vars
    /\ UNCHANGED <<task, history>>

-----------------------------------------------------------------------------
(* The polling loop: as many calls of dequeue() as the worker has free      *)
(* slots, one awaited after the other; then the jobs they returned are      *)
(* started.                                                                 *)

BeginPoll(p) ==
    /\ proc[p].isRunning /\ ~proc[p].shouldStop /\ Idle(p)
    /\ Cardinality(proc[p].activeJobs) < Concurrency
    /\ proc' = [proc EXCEPT ![p].slots = Concurrency - Cardinality(proc[p].activeJobs)]
    /\ UNCHANGED <<vars, task, history>>

ClaimedTask(p, j, a) ==
    [proc |-> p, job |-> j, attempt |-> a, phase |-> "claimed", fiber |-> FALSE]

\* A dequeue() returns a job. The next one is called unless stop() was.
PollClaims(p, j) ==
    /\ Dequeuing(p)
    /\ Claim(j, SlotOf[p], proc[p].session, now)
    /\ task' = task \cup {ClaimedTask(p, j, lastAttempt')}
    /\ proc' = [proc EXCEPT ![p].slots = IF proc[p].shouldStop THEN 0 ELSE @ - 1]
    /\ UNCHANGED history

PollReturnsNothing(p) ==
    /\ Dequeuing(p)
    /\ proc' = [proc EXCEPT ![p].slots = 0]
    /\ \/ \E j \in Jobs : ClaimSpent(j, SlotOf[p], proc[p].session, now)
       \/ /\ Ready(now) = {} \/ ~SessionLive(SlotOf[p], proc[p].session, now)
          /\ UNCHANGED vars
    /\ UNCHANGED <<task, history>>

\* A dequeue() throws, with or without its write: the catch clause of the poll
\* forgets the jobs of its earlier calls.
PollThrows(p) ==
    /\ Dequeuing(p)
    /\ throws < MaxThrows
    /\ throws' = throws + 1
    /\ \/ \E j \in Jobs : \/ Claim(j, SlotOf[p], proc[p].session, now)
                          \/ ClaimSpent(j, SlotOf[p], proc[p].session, now)
       \/ UNCHANGED vars
    /\ dropped' = dropped \cup {t.attempt : t \in Waiting(p)}
                          \cup ((lastAttempt + 1) .. lastAttempt')
    /\ task' = task \ Waiting(p)
    /\ proc' = [proc EXCEPT ![p].slots = 0]
    /\ UNCHANGED <<succeeded, terminated>>

\* What the start of t leaves of the task u: an older fiber of the same job leaves
\* the map, while the promise beneath it goes on.
Displaced(u, t) ==
    IF u.proc = t.proc /\ u.job = t.job THEN [u EXCEPT !.fiber = FALSE] ELSE u

Started(t) == [t EXCEPT !.phase = "handling", !.fiber = TRUE]

DropsWhenStoppingSlip(p) ==
    /\ ~Dequeuing(p)
    /\ \E t \in Waiting(p) :
         /\ \A u \in Waiting(p) : t.attempt <= u.attempt
         /\ proc' = [proc EXCEPT ![p].activeJobs =
                       IF proc[p].shouldStop THEN @ ELSE @ \cup {t.job}]
         /\ task' = {Displaced(u, t) : u \in task \ {t}}
                    \cup (IF proc[p].shouldStop THEN {} ELSE {Started(t)})
    /\ UNCHANGED <<vars, history>>

\* The claimed jobs are run in the order they were claimed in, each on a fiber keyed
\* by its id.
StartClaimed(p) ==
    /\ ~Dequeuing(p)
    /\ \E t \in Waiting(p) :
         /\ \A u \in Waiting(p) : t.attempt <= u.attempt
         /\ proc' = [proc EXCEPT ![p].activeJobs = @ \cup {t.job}]
         /\ task' = {Displaced(u, t) : u \in task \ {t}} \cup {Started(t)}
    /\ UNCHANGED <<vars, history>>

-----------------------------------------------------------------------------
(* One attempt.                                                            *)

IgnoresRefusalSlip(t) ==
    /\ t.phase = "handling"
    /\ RenewLease(t.job, t.attempt, now)
    /\ UNCHANGED memory

\* A renewal that is refused aborts the handler and makes the worker unhealthy.
AttemptHeartbeat(t) ==
    /\ t.phase = "handling"
    /\ \/ RenewLease(t.job, t.attempt, now) /\ UNCHANGED proc
       \/ /\ ~Owns(t.job, t.attempt)
          /\ proc' = [proc EXCEPT ![t.proc] = Unhealthy(@)]
          /\ UNCHANGED vars
    /\ UNCHANGED <<task, history>>

ReportProgress(t) ==
    /\ t.phase = "handling"
    /\ RecordProgress(t.job, t.attempt, now)
    /\ UNCHANGED memory

\* The handler returns a result, returns a failure, or throws.
HandlerEnds(t) ==
    /\ t.phase = "handling"
    /\ \E phase \in {"handled", "failing"} : task' = Moved(t, phase)
    /\ UNCHANGED <<vars, proc, history>>

\* The deadline and the cancellation grace pass and the handler goes on.
HandlerOverruns(t) ==
    /\ t.phase = "handling"
    /\ proc[t.proc].isHealthy
    /\ SpareSession
    /\ proc' = [proc EXCEPT ![t.proc] = Unhealthy(@)]
    /\ UNCHANGED <<vars, task, history>>

Execute(t) == HandlerEnds(t) \/ HandlerOverruns(t)

CompleteJob(t) ==
    /\ t.phase = "handled"
    /\ \/ /\ Complete(t.job, t.attempt, now)
          /\ task' = Moved(t, "completed")
          /\ UNCHANGED proc
       \/ ~Owns(t.job, t.attempt) /\ UNCHANGED vars /\ Finish(t)
    /\ UNCHANGED history

\* complete() throws, with or without its write: the catch clause calls fail().
CompleteThrows(t) ==
    /\ t.phase = "handled"
    /\ task' = Moved(t, "failing")
    /\ Complete(t.job, t.attempt, now) \/ UNCHANGED vars
    /\ UNCHANGED <<proc, history>>

FailReads(t) ==
    /\ t.phase = "failing"
    /\ \/ /\ FailRead(t.job, t.attempt)
          /\ task' = Moved(t, "writing")
          /\ UNCHANGED proc
       \/ ~Owns(t.job, t.attempt) /\ UNCHANGED vars /\ Finish(t)
    /\ UNCHANGED history

FailWrites(t) ==
    /\ t.phase = "writing"
    /\ \E f \in failing :
         /\ f.attemptId = t.attempt
         /\ FailWrite(f, now)
         /\ \/ FailApplies(f) /\ task' = Moved(t, "failed") /\ UNCHANGED proc
            \/ ~FailApplies(f) /\ Finish(t)
    /\ UNCHANGED history

\* A statement of fail() throws in the catch clause: nothing catches it but
\* processJobWrapper, and the attempt ends with its job still claimed.
FailThrows(t) ==
    /\ t.phase \in {"failing", "writing"}
    /\ throws < MaxThrows
    /\ throws' = throws + 1
    /\ dropped' = dropped \cup {t.attempt}
    /\ failing' = {f \in failing : f.attemptId # t.attempt}
    /\ Finish(t)
    /\ UNCHANGED <<now, job, session, lastSession, lastAttempt, claims>>
    /\ UNCHANGED <<succeeded, terminated>>

SuccessCallback(t) ==
    /\ t.phase = "completed"
    /\ succeeded' = [succeeded EXCEPT ![t.job] = @ + 1]
    /\ Finish(t)
    /\ UNCHANGED <<vars, terminated, throws, dropped>>

AnyFailureIsTerminalSlip(t) ==
    /\ t.phase = "failed"
    /\ terminated' = [terminated EXCEPT ![t.job] = @ + 1]
    /\ Finish(t)
    /\ UNCHANGED <<vars, succeeded, throws, dropped>>

\* emitTerminalFailure reads the status again.
EmitTerminalFailure(t) ==
    /\ t.phase = "failed"
    /\ \/ /\ job[t.job].status = Failed
          /\ terminated' = [terminated EXCEPT ![t.job] = @ + 1]
       \/ job[t.job].status # Failed /\ UNCHANGED terminated
    /\ Finish(t)
    /\ UNCHANGED <<vars, succeeded, throws, dropped>>

-----------------------------------------------------------------------------
Lifecycle(p) == StartWorker(p) \/ RequestStop(p) \/ StopWorker(p) \/ Exit(p)

Polling(p) ==
    \/ BeginPoll(p) \/ PollReturnsNothing(p) \/ StartClaimed(p)
    \/ \E j \in Jobs : PollClaims(p, j)

Settle(t) ==
    \/ CompleteJob(t) \/ FailReads(t) \/ FailWrites(t)
    \/ SuccessCallback(t) \/ EmitTerminalFailure(t)

Attempt(t) ==
    \/ AttemptHeartbeat(t) \/ ReportProgress(t) \/ Execute(t)
    \/ Settle(t) \/ CompleteThrows(t) \/ FailThrows(t)

WorkerNext ==
    \/ \E p \in Procs :
         Lifecycle(p) \/ WorkerHeartbeat(p) \/ Polling(p) \/ PollThrows(p)
    \/ \E t \in task : Attempt(t)
    \/ (Produce \/ Tick) /\ UNCHANGED memory

WorkerSpec == WorkerInit /\ [][WorkerNext]_wvars

TaskOf(j, A(_)) == \E t \in task : t.job = j /\ A(t)

\* The heartbeat timers fire and their statements are answered.
HeartbeatFairness ==
    /\ \A p \in Procs : WF_wvars(WorkerHeartbeat(p))
    /\ \A j \in Jobs : WF_wvars(TaskOf(j, AttemptHeartbeat))

\* Also the polling schedule fires, statements are answered, the deadline bounds
\* every handler, and the supervisor replaces a process that stopped, died or
\* declared itself unhealthy.
WorkFairness ==
    /\ \A p \in Procs :
         /\ WF_wvars(StartWorker(p))
         /\ WF_wvars(Polling(p))
         /\ WF_wvars(StopWorker(p))
         /\ WF_wvars(~proc[p].isHealthy /\ Exit(p))
    /\ \A j \in Jobs : WF_wvars(TaskOf(j, Execute)) /\ WF_wvars(TaskOf(j, Settle))

\* Handlers may hang for ever here.
WatchedWorkerSpec == WorkerSpec /\ HeartbeatFairness

FairWorkerSpec == WorkerSpec /\ HeartbeatFairness /\ WorkFairness

-----------------------------------------------------------------------------
(* Properties.                                                             *)

\* However attempts of a job overlap, handlers learn one outcome of it: never
\* onTerminalSuccess twice, and never both onTerminalSuccess and onTerminalError.
OneOutcome ==
    \A j \in Jobs : succeeded[j] + (IF terminated[j] > 0 THEN 1 ELSE 0) <= 1

\* While the process whose session owns a running job is up, it has that job in its
\* hands: claimed by the poll in flight, or at work. Stops, polls, retries and
\* replaced fibers strand no claim with a live owner, from which no other worker
\* could take it. Only a throwing dequeue() or fail() does, and only the attempts
\* whose poll or task that very call ended.
NoStrandedClaim ==
    \A j \in Jobs, p \in Procs :
        /\ job[j].status = Processing
        /\ proc[p].isRunning
        /\ proc[p].session = job[j].workerSessionId
        /\ job[j].attemptId \notin dropped
        => \E t \in task : t.proc = p /\ t.job = j /\ t.attempt = job[j].attemptId

\* The workers use the queue as JobQueue allows: what holds of every behaviour of
\* the queue holds when these workers drive it.
DrivesQueue == Spec

\* "Await existing jobs without interrupting them, preserving graceful
\* shutdown": when stop() has ended the session, no handler of the process runs.
\* False: the FiberMap that stop() awaits holds one fiber of a job, and a process
\* that was stalled may claim a job again while its older handler still runs.
StoppedMeansDrained ==
    \A p \in Procs :
        ~proc[p].isRunning => ~\E t \in task : t.proc = p /\ t.phase = "handling"

\* What stop() does guarantee: a handler that goes on after it has lost its job,
\* so nothing it writes is applied, and no job waits for a worker that stopped.
StoppedHoldsNoJob ==
    \A p \in Procs :
        ~proc[p].isRunning => ~\E t \in task : t.proc = p /\ Owns(t.job, t.attempt)

\* A throwing call left the attempt that owns j without a task, and the worker that
\* claimed it goes on with the session that keeps others away from it.
Abandoned(j) ==
    /\ job[j].status = Processing /\ job[j].attemptId \in dropped
    /\ \E p \in Procs :
         proc[p].isRunning /\ proc[p].session = job[j].workerSessionId

\* Every job a producer submits is settled in the end, although workers die, stop
\* and overrun their deadlines; a job that a throwing dequeue() or fail() left with
\* a live session is settled too once that session is gone.
EveryJobSettles ==
    \A j \in Jobs :
        job[j].status \in Active ~> (job[j].status \in Terminal \/ Abandoned(j))

\* A handler whose attempt lost its job does not go on unnoticed, even if it
\* hangs: its attempt ends, or its worker declares itself unhealthy.
LostAttemptNoticed ==
    \A p \in Procs, j \in Jobs :
        (\E t \in task : t.proc = p /\ t.job = j /\ t.phase = "handling"
                         /\ ~Owns(j, t.attempt))
        ~> (~proc[p].isHealthy
            \/ ~\E t \in task : t.proc = p /\ t.job = j /\ t.phase = "handling"
                                /\ ~Owns(j, t.attempt))

=============================================================================
