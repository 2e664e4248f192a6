--------------------------- MODULE RecurringChecks ---------------------------
(***************************************************************************)
(* One recurring check (shell/recurring-checks): the web process schedules *)
(* it and lets an admin resolve its alerts, the worker process runs it as  *)
(* a durable job, and both write the alerts' rows in the runtime state.  A *)
(* combined Brain does all this in one process.                            *)
(*                                                                         *)
(* A `body` is the async function inside executeRegisteredCheck.  Aborting *)
(* a run settles its promise at once (Effect does not wait for a promise   *)
(* it interrupts), while the body goes on until it looks at its signal.    *)
(* The queue is reduced to what the service uses of it: `skip` requests,   *)
(* retries, and the loss of an attempt with its worker.                    *)
(***************************************************************************)
EXTENDS Integers

CONSTANTS
    Alerts,           \* dedupe keys of the alerts the check may find
    Jobs,             \* rows for active jobs of the check
    Bodies,           \* bodies that may exist at once
    NoBody, NoAlert, NoJob,
    MaxRetries,
    MaxOccurrences,   \* bound on the scheduled times that come
    MaxFaults         \* bound on errors, reloads, stops and deaths

ASSUME ChecksConstants ==
    /\ MaxRetries \in Nat /\ MaxOccurrences \in Nat \ {0} /\ MaxFaults \in Nat
    /\ NoBody \notin Bodies /\ NoAlert \notin Alerts /\ NoJob \notin Jobs

VARIABLES
    combined,         \* web and worker are one process
    row,              \* row[a]: the status of the stored alert
    success,          \* last-success, as the occurrence it was written after
    occurrence,       \* the latest scheduled time that has come
    web,              \* the process that schedules: [up, starting, catchUp]
    worker,           \* the check registered there, its delivery policy
    active,           \* activeCheck of that registration
    jobs,             \* active rows of the queue
    body,             \* the bodies
    resolving,        \* the call of resolveOpenAlert
    faults,           \* what went wrong so far
    history           \* what became of jobs and deliveries

runs == <<jobs, active, body>>
cvars == <<combined, row, success, occurrence, web, worker, runs, resolving, faults,
           history>>

-----------------------------------------------------------------------------
NoRun == [pc |-> "none", job |-> NoJob, deliver |-> TRUE, aborted |-> FALSE,
          todo |-> {}, seen |-> {}, at |-> NoAlert, step |-> "none"]
FreeRow == [status |-> "free", retries |-> 0]

Goes(unhurt) ==
    /\ unhurt \/ faults < MaxFaults
    /\ faults' = IF unhurt THEN faults ELSE faults + 1

-----------------------------------------------------------------------------
(* The queue.                                                              *)

\* enqueue with deduplication "skip": a waiting job takes the request in.
Enqueue ==
    \/ \E j \in Jobs : jobs[j].status = "pending" /\ UNCHANGED jobs
    \/ /\ \A j \in Jobs : jobs[j].status # "pending"
       /\ LET free == {j \in Jobs : jobs[j].status = "free"} IN
             /\ free # {}
             /\ jobs' = [jobs EXCEPT ![CHOOSE j \in free : TRUE].status = "pending"]

AfterFailure(r) ==
    IF r.retries < MaxRetries
    THEN [status |-> "pending", retries |-> r.retries + 1] ELSE FreeRow

\* These attempts failed or were lost, with what else `h` records.
Failed(J, h) ==
    /\ jobs' = [j \in Jobs |-> IF j \in J THEN AfterFailure(jobs[j]) ELSE jobs[j]]
    /\ history' = [h EXCEPT !.exhausted = @ \/ \E j \in J : jobs[j].retries = MaxRetries]

Completed(j) == jobs' = [jobs EXCEPT ![j] = FreeRow]

-----------------------------------------------------------------------------
(* Scheduling.                                                             *)

\* A combined Brain schedules what is registered there; a web process of its own
\* has registered the check for as long as it is up.
Scheduled == combined => worker.registered

\* A request that could not be queued is logged and forgotten; what history keeps
\* of it ends with the next request, or with the next catch-up.
Requested == [history EXCEPT !.unqueued = FALSE]
Forgotten == [history EXCEPT !.unqueued = TRUE]

\* The cron callback.
Occurs ==
    /\ occurrence < MaxOccurrences
    /\ occurrence' = occurrence + 1
    /\ \/ web.up /\ Scheduled /\ Goes(TRUE) /\ Enqueue /\ history' = Requested
       \/ web.up /\ Scheduled /\ Goes(FALSE) /\ UNCHANGED jobs /\ history' = Forgotten
       \/ ~(web.up /\ Scheduled) /\ UNCHANGED <<jobs, faults, history>>
    /\ UNCHANGED <<combined, row, success, web, worker, active, body, resolving>>

WebStarts ==
    /\ ~web.up
    /\ IF Scheduled
       THEN /\ web' = [up |-> TRUE, starting |-> TRUE, catchUp |-> "asking"]
            /\ history' = Requested
       ELSE /\ web' = [up |-> TRUE, starting |-> FALSE, catchUp |-> "none"]
            /\ UNCHANGED history
    /\ UNCHANGED <<combined, row, success, occurrence, worker, runs, resolving, faults>>

CatchUpEnds == web' = [web EXCEPT !.starting = FALSE, !.catchUp = "none"]

OnlyFirstSlip ==
    /\ web.catchUp = "asking"
    /\ IF success = 0 THEN web' = [web EXCEPT !.catchUp = "missed"] ELSE CatchUpEnds
    /\ UNCHANGED <<combined, row, success, occurrence, worker, runs, resolving, faults,
                   history>>

\* enqueueCatchUpIfNeeded: what it reads, and what it does about it.
CatchUpReads ==
    /\ web.catchUp = "asking"
    /\ IF success < occurrence THEN web' = [web EXCEPT !.catchUp = "missed"]
                               ELSE CatchUpEnds
    /\ UNCHANGED <<combined, row, success, occurrence, worker, runs, resolving, faults,
                   history>>

CatchUpEnqueues ==
    /\ web.catchUp = "missed"
    /\ CatchUpEnds
    /\ Enqueue
    /\ history' = Requested
    /\ UNCHANGED <<combined, row, success, occurrence, worker, active, body, resolving,
                   faults>>

\* The catch-up of a plugin loaded later is given up with a log line; that of a
\* process that starts ends the process (WebDies, WorkerDies).
CatchUpFails ==
    /\ web.catchUp # "none" /\ ~web.starting
    /\ Goes(FALSE)
    /\ CatchUpEnds
    /\ history' = Forgotten
    /\ UNCHANGED <<combined, row, success, occurrence, worker, runs, resolving>>

-----------------------------------------------------------------------------
(* Registration, stop and death.                                           *)

OnlySignalsSlip ==
    /\ UNCHANGED <<active, jobs, history>>
    /\ body' = IF active = NoBody THEN body
               ELSE [body EXCEPT ![active].aborted = TRUE]

\* The signal of the active run aborts: its promise rejects and its job fails;
\* its body has yet to notice.
Abort ==
    /\ active' = NoBody
    /\ IF active = NoBody THEN UNCHANGED <<body, jobs, history>>
       ELSE /\ body' = [body EXCEPT ![active].aborted = TRUE]
            /\ Failed({body[active].job}, history)

\* The worker's plugin is unloaded; in a combined Brain its schedule stops too.
Unregister ==
    /\ worker.registered
    /\ Goes(FALSE)
    /\ worker' = [worker EXCEPT !.registered = FALSE]
    /\ Abort
    /\ UNCHANGED <<combined, row, success, occurrence, web, resolving>>

\* In a combined Brain that is up this starts a catch-up; one that an earlier
\* registration began goes on in its place.
Register ==
    /\ ~worker.registered
    /\ \E deliver \in BOOLEAN : worker' = [registered |-> TRUE, deliver |-> deliver]
    /\ IF combined /\ web.up /\ web.catchUp = "none"
       THEN web' = [web EXCEPT !.catchUp = "asking"] /\ history' = Requested
       ELSE UNCHANGED <<web, history>>
    /\ UNCHANGED <<combined, row, success, occurrence, runs, resolving, faults>>

\* stop() waits for the catch-up; only a combined process has a run to abort.
StopChecks ==
    /\ web.up /\ web.catchUp = "none"
    /\ Goes(FALSE)
    /\ web' = [web EXCEPT !.up = FALSE]
    /\ IF combined THEN Abort ELSE UNCHANGED <<runs, history>>
    /\ UNCHANGED <<combined, row, success, occurrence, worker, resolving>>

Down == [up |-> FALSE, starting |-> FALSE, catchUp |-> "none"]
WebLost == web' = Down /\ resolving' = NoAlert

WebDies ==
    /\ ~combined /\ Goes(FALSE)
    /\ WebLost
    /\ UNCHANGED <<combined, row, success, occurrence, worker, runs, history>>

\* Its attempts are lost with it; it comes back with its configuration of then.
WorkerDies ==
    /\ Goes(FALSE)
    /\ IF combined THEN WebLost ELSE UNCHANGED <<web, resolving>>
    /\ body' = [b \in Bodies |-> NoRun]
    /\ active' = NoBody
    /\ worker' = [worker EXCEPT !.registered = FALSE]
    /\ Failed({j \in Jobs : jobs[j].status = "running"},
              [history EXCEPT !.cut = @ \cup
                 {body[b].at : b \in {c \in Bodies : body[c].step = "write"}}])
    /\ UNCHANGED <<combined, row, success, occurrence>>

-----------------------------------------------------------------------------
(* A run.                                                                  *)

InBody == UNCHANGED <<combined, success, occurrence, web, worker, resolving>>

Stored == {a \in Alerts : row[a] # "none"}

\* The job handler calls runNow.
RunNow(j) ==
    /\ jobs[j].status = "pending"
    /\ \/ /\ ~worker.registered
          /\ Failed({j}, history)
          /\ UNCHANGED <<active, body>>
       \/ /\ worker.registered /\ active # NoBody
          /\ Completed(j)
          /\ UNCHANGED <<active, body, history>>
       \/ /\ worker.registered /\ active = NoBody
          /\ LET gone == {b \in Bodies : body[b].pc = "none"} IN
                /\ gone # {}
                /\ active' = CHOOSE b \in gone : TRUE
                /\ body' = [body EXCEPT ![active'] =
                     [NoRun EXCEPT !.pc = "flush", !.job = j, !.deliver = worker.deliver,
                                   !.todo = Stored, !.seen = Stored]]
          /\ jobs' = [jobs EXCEPT ![j].status = "running"]
          /\ UNCHANGED history
    /\ UNCHANGED <<row, faults>> /\ InBody

\* The body of a settled run ends unseen; that of the active run settles it.
BodyFails(b, h) ==
    /\ body' = [body EXCEPT ![b] = NoRun]
    /\ IF active = b THEN active' = NoBody /\ Failed({body[b].job}, h)
       ELSE history' = h /\ UNCHANGED <<jobs, active>>

NoLockSlip(b, a) == TRUE

\* alertOperations: one operation per alert at a time, in each process.
Unlocked(b, a) ==
    /\ \A c \in Bodies : body[c].at # a
    /\ ~(combined /\ resolving = a)

Idle(b, pc) == body[b].pc = pc /\ body[b].at = NoAlert
Takes(b, a, step) == body' = [body EXCEPT ![b].at = a, ![b].step = step]
Skips(b, a) == body' = [body EXCEPT ![b].todo = @ \ {a}]
Leaves(b) == body' = [body EXCEPT ![b].todo = @ \ {body[b].at}, ![b].at = NoAlert,
                                  ![b].step = "none"]

PendingOnlySlip(b, a) == row[a] = "pending"

\* What flushPendingAlerts delivers, and suppressPendingAlerts suppresses.
Flushes(b, a) ==
    IF body[b].deliver THEN row[a] \in {"pending", "suppressed"} ELSE row[a] = "pending"

FlushNext(b) ==
    /\ Idle(b, "flush")
    /\ \E a \in body[b].todo :
          /\ Unlocked(b, a)
          /\ IF Flushes(b, a)
             THEN Takes(b, a, IF body[b].deliver THEN "deliver" ELSE "suppress")
             ELSE Skips(b, a)
    /\ UNCHANGED <<row, jobs, active, faults, history>> /\ InBody

Suppress(b) ==
    /\ body[b].step = "suppress"
    /\ row' = [row EXCEPT ![body[b].at] = "suppressed"]
    /\ Leaves(b)
    /\ UNCHANGED <<jobs, active, faults, history>> /\ InBody

\* definition.run, between two looks at the signal.
Check(b) ==
    /\ Idle(b, "flush") /\ body[b].todo = {}
    /\ \/ body[b].aborted /\ Goes(TRUE) /\ BodyFails(b, history)
       \/ Goes(FALSE) /\ BodyFails(b, history)
       \/ /\ ~body[b].aborted /\ Goes(TRUE)
          /\ \E found \in SUBSET Alerts :
                body' = [body EXCEPT ![b].pc = "record", ![b].todo = found,
                                     ![b].seen = @ \cup found]
          /\ UNCHANGED <<jobs, active, history>>
    /\ UNCHANGED row /\ InBody

\* recordAlert up to the delivery; no other process creates the row.
RecordNext(b) ==
    /\ Idle(b, "record") /\ body[b].todo # {}
    /\ \/ body[b].aborted /\ BodyFails(b, history) /\ UNCHANGED row
       \/ /\ ~body[b].aborted
          /\ \E a \in body[b].todo :
                /\ Unlocked(b, a)
                /\ row' = IF row[a] # "none" THEN row
                          ELSE [row EXCEPT ![a] = IF body[b].deliver THEN "pending"
                                                  ELSE "suppressed"]
                /\ IF body[b].deliver /\ row[a] \notin {"delivered", "resolved"}
                   THEN Takes(b, a, "deliver") ELSE Skips(b, a)
          /\ UNCHANGED <<jobs, active, history>>
    /\ UNCHANGED faults /\ InBody

\* deliverStoredAlert: the message is sent, no channel is there, or it throws.  A
\* channel that sends and then throws counts as one that has not sent.
Deliver(b) ==
    LET a == body[b].at IN
    /\ body[b].step = "deliver"
    /\ \/ /\ history' = [history EXCEPT !.sent[a] = IF @ < 2 THEN @ + 1 ELSE @,
                                        !.silent = @ \ {a}]
          /\ body' = [body EXCEPT ![b].step = "write"]
          /\ Goes(TRUE) /\ UNCHANGED <<jobs, active>>
       \/ /\ history' = [history EXCEPT !.silent = @ \cup {a}]
          /\ Leaves(b)
          /\ Goes(TRUE) /\ UNCHANGED <<jobs, active>>
       \/ Goes(FALSE) /\ BodyFails(b, history)
    /\ UNCHANGED row /\ InBody

\* It writes the row it had read with its new status.
WriteDelivered(b) ==
    /\ body[b].step = "write"
    /\ \/ /\ row' = [row EXCEPT ![body[b].at] = "delivered"]
          /\ Leaves(b)
          /\ Goes(TRUE) /\ UNCHANGED <<jobs, active, history>>
       \/ /\ Goes(FALSE)
          /\ BodyFails(b, [history EXCEPT !.cut = @ \cup {body[b].at}])
          /\ UNCHANGED row
    /\ InBody

\* last-success, and the end of the run.
Finish(b) ==
    /\ Idle(b, "record") /\ body[b].todo = {}
    /\ success' = occurrence
    /\ body' = [body EXCEPT ![b] = NoRun]
    /\ IF active = b THEN active' = NoBody /\ Completed(body[b].job)
       ELSE UNCHANGED <<jobs, active>>
    /\ UNCHANGED <<combined, row, occurrence, web, worker, resolving, faults, history>>

-----------------------------------------------------------------------------
(* resolveOpenAlert, called in the web process by an admin.                *)

ResolveReads(a) ==
    /\ resolving = NoAlert
    /\ row[a] \notin {"none", "resolved"}
    /\ combined => \A b \in Bodies : body[b].at # a
    /\ resolving' = a
    /\ UNCHANGED <<combined, row, success, occurrence, web, worker, runs, faults, history>>

ResolveWrites ==
    /\ resolving # NoAlert
    /\ row' = [row EXCEPT ![resolving] = "resolved"]
    /\ resolving' = NoAlert
    /\ UNCHANGED <<combined, success, occurrence, web, worker, runs, faults, history>>

-----------------------------------------------------------------------------
\* The first scheduled time of a fresh Brain lies in the past.
ChecksInit ==
    /\ combined \in BOOLEAN
    /\ row = [a \in Alerts |-> "none"]
    /\ success = 0
    /\ occurrence = 1
    /\ web = Down
    /\ worker = [registered |-> FALSE, deliver |-> TRUE]
    /\ active = NoBody
    /\ jobs = [j \in Jobs |-> FreeRow]
    /\ body = [b \in Bodies |-> NoRun]
    /\ resolving = NoAlert
    /\ faults = 0
    /\ history = [sent |-> [a \in Alerts |-> 0], cut |-> {}, silent |-> {},
                  exhausted |-> FALSE, unqueued |-> FALSE]

BodyStep(b) ==
    \/ FlushNext(b) \/ Suppress(b) \/ Check(b) \/ RecordNext(b)
    \/ Deliver(b) \/ WriteDelivered(b) \/ Finish(b)

ChecksNext ==
    \/ Occurs \/ WebStarts \/ CatchUpReads \/ CatchUpEnqueues \/ CatchUpFails
    \/ Unregister \/ Register \/ StopChecks \/ WebDies \/ WorkerDies
    \/ \E j \in Jobs : RunNow(j)
    \/ \E b \in Bodies : BodyStep(b)
    \/ \E a \in Alerts : ResolveReads(a)
    \/ ResolveWrites

ChecksSpec == ChecksInit /\ [][ChecksNext]_cvars

\* Processes come back, the worker polls, and checks, channels and statements
\* return.  A plugin need not be loaded again, and time may stand still.
FairChecks ==
    /\ ChecksSpec
    /\ WF_cvars(WebStarts) /\ WF_cvars(CatchUpReads) /\ WF_cvars(CatchUpEnqueues)
    /\ WF_cvars(\E j \in Jobs : RunNow(j))
    /\ \A b \in Bodies : WF_cvars(BodyStep(b))
    /\ WF_cvars(ResolveWrites)

-----------------------------------------------------------------------------
RunRecord ==
    [pc : {"none", "flush", "record"}, job : Jobs \cup {NoJob}, deliver : BOOLEAN,
     aborted : BOOLEAN, todo : SUBSET Alerts, seen : SUBSET Alerts,
     at : Alerts \cup {NoAlert}, step : {"none", "suppress", "deliver", "write"}]

\* Everything has its type; the active run is the one body that is not aborted, and
\* its job is running; a body is at an alert while it has a step to take there.
ChecksTypeOK ==
    /\ combined \in BOOLEAN
    /\ row \in [Alerts -> {"none", "pending", "suppressed", "delivered", "resolved"}]
    /\ success \in Nat /\ occurrence \in Nat /\ success <= occurrence
    /\ web \in [up : BOOLEAN, starting : BOOLEAN, catchUp : {"none", "asking", "missed"}]
    /\ worker \in [registered : BOOLEAN, deliver : BOOLEAN]
    /\ jobs \in [Jobs -> [status : {"free", "pending", "running"}, retries : Nat]]
    /\ active \in Bodies \cup {NoBody}
    /\ body \in [Bodies -> RunRecord]
    /\ resolving \in Alerts \cup {NoAlert}
    /\ faults \in Nat
    /\ history \in [sent : [Alerts -> 0..2], cut : SUBSET Alerts, silent : SUBSET Alerts,
                    exhausted : BOOLEAN, unqueued : BOOLEAN]
    /\ \A b \in Bodies : (body[b].pc # "none" /\ ~body[b].aborted) <=> b = active
    /\ \A b \in Bodies : b = active =>
          body[b].job \in Jobs /\ jobs[body[b].job].status = "running"
    /\ \A b \in Bodies : /\ body[b].step # "none" <=> body[b].at # NoAlert
                         /\ body[b].pc = "none" => body[b].at = NoAlert

\* An alert is sent once, however jobs are retried, plugins reloaded over running
\* bodies and admins resolve it, unless its row could not be written after that.
DeliveredOnce == \A a \in Alerts : history.sent[a] > 1 => a \in history.cut

\* When a run that delivers is about to record its success, every alert that was
\* stored when it began and every alert it found has been delivered or resolved,
\* or met no channel, or was sent by a run that could not write it, or is with
\* another run right now.
HandledBeforeSuccess ==
    \A b \in Bodies :
        body[b].deliver /\ Idle(b, "record") /\ body[b].todo = {} =>
            \A a \in body[b].seen :
                \/ row[a] \in {"delivered", "resolved"}
                \/ row[a] \in {"pending", "suppressed"}
                   /\ \/ a \in history.silent \cup history.cut
                      \/ \E c \in Bodies : body[c].at = a

\* "Does not reopen an alert when resolution races with delivery" (the test of this
\* name), in the one process that the test has.
ResolvedInOneProcess ==
    [][combined => \A a \in Alerts : row[a] = "resolved" => row'[a] = "resolved"]_cvars

\* A scheduled time that passed, while the web process was down too, is followed by
\* a successful run, or a job of the check has used up its retries.  Left out: the
\* request for it could not be queued, and the service has logged that and nothing
\* has asked again, neither a later time nor a new start; and a combined Brain whose
\* plugin has not been loaded again.
MissedTimeMadeUp ==
    success < occurrence ~>
        \/ success = occurrence \/ history.exhausted
        \/ history.unqueued
        \/ ~Scheduled

=============================================================================
