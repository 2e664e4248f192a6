------------------------------ MODULE JobQueue ------------------------------
(***************************************************************************)
(* The durable job queue: the tables job_queue and job_worker_sessions and *)
(* every statement JobQueueRepository runs against them                    *)
(* (shell/job-queue/src/job-queue-repository.ts).                          *)
(*                                                                         *)
(* Any number of processes share the tables.  Each statement, and each     *)
(* write transaction of enqueueAtomic, is one action, since SQLite         *)
(* serialises writers.  fail() is two statements, a SELECT and a guarded   *)
(* UPDATE, and is two actions.  A caller reads Date.now() before its       *)
(* statement runs, so a stamp may be up to Lag behind the clock.           *)
(*                                                                         *)
(* The environment is the most general one: any token ever issued may be   *)
(* presented again, by a worker that crashed, stalled or was superseded.   *)
(*                                                                         *)
(* An operator whose name ends in a "Slip" is a wrong variant   *)
(* of the definition after it: it shows that a property can tell.          *)
(***************************************************************************)
EXTENDS Integers, FiniteSets

CONSTANTS
    Jobs,             \* job ids the producers create, each used once
    Slots,            \* stable worker slots
    Executable,       \* job types the workers have handlers for
    NoKey,            \* a request without a deduplicationKey
    TypeOf,           \* TypeOf[j]: job type
    KeyOf,            \* KeyOf[j]: deduplication key, or NoKey
    StrategyOf,       \* StrategyOf[j]: "none", "skip", "replace" or "coalesce"
    Priority,         \* Priority[j]: lower is claimed first
    Delay,            \* Delay[j]: delayMs of the request
    MaxRetries,       \* MaxRetries[j]
    Backoff,          \* Backoff[r]: delay after the failure with retryCount r
    LeaseDuration,    \* leaseDurationMs of an attempt
    SessionTimeout,   \* workerSessionTimeoutMs
    Lag,              \* how far a caller's Date.now() may be behind the clock
    MaxTime,          \* bound on the clock
    MaxProgress,      \* bound on the stream positions progress may take
    MaxFailing,       \* bound on the calls of fail() in flight
    MaxSessions       \* bound on the number of worker sessions ever started

Null == 0             \* SQL NULL in a column of ids or times

ASSUME QueueConstants ==
    /\ Null \notin Slots
    /\ Delay \in [Jobs -> Nat]
    /\ MaxRetries \in [Jobs -> Nat]
    /\ \A j \in Jobs : \A r \in 0..MaxRetries[j] : Backoff[r] \in Nat
    /\ LeaseDuration \in Nat
    /\ SessionTimeout \in Nat
    /\ Lag \in Nat

VARIABLES
    now,              \* the clock
    job,              \* job[j]: the row of j in job_queue
    session,          \* session[s]: the row of slot s in job_worker_sessions
    lastSession,      \* session ids 1..lastSession were created
    lastAttempt,      \* attempt ids 1..lastAttempt were created
    failing,          \* calls of fail() between their SELECT and their UPDATE
    claims            \* claims[j]: how often j was handed to a worker (history)

vars == <<now, job, session, lastSession, lastAttempt, failing, claims>>

-----------------------------------------------------------------------------
Unfenced == 0         \* a call of complete, update or fail without an attemptId

Tokens == 1..lastAttempt

Stamps == {t \in 0..now : now - t <= Lag}

Pending == "pending"
Processing == "processing"
Completed == "completed"
Failed == "failed"
Terminal == {Completed, Failed}
Active == {Pending, Processing}

\* A row; "absent" is an id not yet inserted and "deleted" one that was removed.
Row == [status : {"absent", "deleted"} \cup Active \cup Terminal,
        retryCount : Nat,
        createdAt : Nat,
        scheduledFor : Nat,
        completedAt : Nat,
        attemptId : Nat,
        workerSlotId : Slots \cup {Null},
        workerSessionId : Nat,
        leaseExpiresAt : Nat,
        runtimeUpdatedAt : Nat]

NoRow == [status |-> "absent", retryCount |-> 0, createdAt |-> Null,
          scheduledFor |-> Null, completedAt |-> Null, attemptId |-> Null,
          workerSlotId |-> Null, workerSessionId |-> Null,
          leaseExpiresAt |-> Null, runtimeUpdatedAt |-> Null]

NewRow(j, t) ==
    [NoRow EXCEPT !.status = Pending, !.createdAt = t, !.scheduledFor = t + Delay[j]]

Init ==
    /\ now = 1
    /\ job = [j \in Jobs |-> NoRow]
    /\ session = [s \in Slots |-> [id |-> Null, expiresAt |-> Null]]
    /\ lastSession = 0
    /\ lastAttempt = 0
    /\ failing = {}
    /\ claims = [j \in Jobs |-> 0]

-----------------------------------------------------------------------------
(* Columns computed inside the statements.                                 *)

Stored == {k \in Jobs : job[k].status \notin {"absent", "deleted"}}
CursorOf(k) == IF k \in Stored THEN job[k].runtimeUpdatedAt ELSE Null

\* max(t, max(runtimeUpdatedAt) + 1) over the rows of the table.
NextCursors(t) ==
    {u \in {t} \cup {CursorOf(k) + 1 : k \in Jobs} :
        u >= t /\ \A k \in Jobs : u > CursorOf(k)}

\* The WHERE clause that fences a write of attempt a on job j.
Owns(j, a) ==
    IF a = Unfenced
    THEN job[j].attemptId = Null /\ job[j].status \in Active
    ELSE job[j].attemptId = a /\ job[j].status = Processing

SessionLive(s, id, t) == session[s].id = id /\ session[s].expiresAt > t

-----------------------------------------------------------------------------
(* Enqueue: one write transaction.                                         *)

Matching(j) ==
    {k \in Jobs : /\ job[k].status \in Active
                  /\ TypeOf[k] = TypeOf[j]
                  /\ KeyOf[j] \in {NoKey, KeyOf[k]}}

Newest(S) == {k \in S : \A i \in S : job[i].createdAt <= job[k].createdAt}

WaitingOnlySlip(j) == Newest({k \in Matching(j) : job[k].status = Pending})

\* The row findDuplicate selects: a set, since ids break ties and are random.
Duplicates(j) ==
    LET waiting == {k \in Matching(j) : job[k].status = Pending}
    IN  IF StrategyOf[j] = "none" THEN {}
        ELSE IF waiting # {} \/ StrategyOf[j] # "coalesce" THEN Newest(waiting)
        ELSE Newest(Matching(j))

Insert(j, t) ==
    /\ job[j].status = "absent"
    /\ Duplicates(j) = {}
    /\ job' = [job EXCEPT ![j] = NewRow(j, t)]
    /\ UNCHANGED <<now, session, lastSession, lastAttempt, failing, claims>>

Coalesce(j, t) ==
    /\ job[j].status = "absent"
    /\ StrategyOf[j] = "coalesce"
    /\ \E d \in Duplicates(j) : job' = [job EXCEPT ![d].scheduledFor = t]
    /\ UNCHANGED <<now, session, lastSession, lastAttempt, failing, claims>>

\* "Replaced by newer job"
Replaced(row, t, u) ==
    [row EXCEPT !.status = Failed, !.completedAt = t, !.runtimeUpdatedAt = u]

Replace(j, t) ==
    /\ job[j].status = "absent"
    /\ StrategyOf[j] = "replace"
    /\ \E d \in Duplicates(j), at \in t..now : \E u \in NextCursors(at) :
         job' = [job EXCEPT ![d] = Replaced(@, at, u), ![j] = NewRow(j, t)]
    /\ UNCHANGED <<now, session, lastSession, lastAttempt, failing, claims>>

-----------------------------------------------------------------------------
(* Worker sessions.                                                        *)

StartWorkerSession(s, t) ==
    /\ lastSession < MaxSessions
    /\ lastSession' = lastSession + 1
    /\ session' = [session EXCEPT ![s] =
                     [id |-> lastSession', expiresAt |-> t + SessionTimeout]]
    /\ UNCHANGED <<now, job, lastAttempt, failing, claims>>

HeartbeatWorkerSession(s, id, t) ==
    /\ session[s].id = id
    /\ session' = [session EXCEPT ![s].expiresAt = t + SessionTimeout]
    /\ UNCHANGED <<now, job, lastSession, lastAttempt, failing, claims>>

EndWorkerSession(s, id) ==
    /\ session[s].id = id
    /\ session' = [session EXCEPT ![s] = [id |-> Null, expiresAt |-> Null]]
    /\ UNCHANGED <<now, job, lastSession, lastAttempt, failing, claims>>

-----------------------------------------------------------------------------
(* Claims.                                                                 *)

DuePending(j, t) == job[j].status = Pending /\ job[j].scheduledFor <= t

OwnerRow(j) ==
    \E s \in Slots : /\ s = job[j].workerSlotId
                     /\ session[s].id = job[j].workerSessionId

OwnerRowStale(j, t) ==
    \E s \in Slots : /\ s = job[j].workerSlotId
                     /\ session[s].id = job[j].workerSessionId
                     /\ session[s].expiresAt <= t

LeaseOnlySlip(j, t) == job[j].status = Processing /\ job[j].leaseExpiresAt <= t

Reclaimable(j, t) ==
    /\ job[j].status = Processing
    /\ \/ job[j].attemptId = Null
       \/ ~OwnerRow(j)
       \/ job[j].leaseExpiresAt <= t /\ OwnerRowStale(j, t)

Ready(t) ==
    {j \in Jobs : TypeOf[j] \in Executable /\ (DuePending(j, t) \/ Reclaimable(j, t))}

Before(k, j) ==
    \/ Priority[k] < Priority[j]
    \/ Priority[k] = Priority[j] /\ job[k].createdAt < job[j].createdAt

\* ORDER BY priority, createdAt LIMIT 1; a tie is broken by the scan.
FirstReady(j, t) == j \in Ready(t) /\ \A k \in Ready(t) : ~Before(k, j)

Spent(j) == job[j].status = Processing /\ job[j].retryCount + 1 > MaxRetries[j]

UncountedReclaimSlip(row, a, s, id, t) ==
    [row EXCEPT !.status = Processing, !.attemptId = a, !.workerSlotId = s,
                !.workerSessionId = id, !.leaseExpiresAt = t + LeaseDuration]

Claimed(row, a, s, id, t) ==
    [row EXCEPT !.status = Processing,
                !.retryCount = IF row.status = Processing THEN @ + 1 ELSE @,
                !.completedAt = Null,
                !.attemptId = a,
                !.workerSlotId = s,
                !.workerSessionId = id,
                !.leaseExpiresAt = t + LeaseDuration]

\* A pending job, or the job of a lost attempt that has a retry left.
Claim(j, s, id, t) ==
    /\ SessionLive(s, id, t)
    /\ FirstReady(j, t)
    /\ ~Spent(j)
    /\ lastAttempt' = lastAttempt + 1
    /\ job' = [job EXCEPT ![j] = Claimed(@, lastAttempt', s, id, t)]
    /\ claims' = [claims EXCEPT ![j] = @ + 1]
    /\ UNCHANGED <<now, session, lastSession, failing>>

\* The lost attempt was the last one: the row fails and nothing is returned.
Expired(row, t, u) ==
    [row EXCEPT !.status = Failed, !.retryCount = @ + 1,
                !.completedAt = t, !.runtimeUpdatedAt = u]

ClaimSpent(j, s, id, t) ==
    /\ SessionLive(s, id, t)
    /\ FirstReady(j, t)
    /\ Spent(j)
    /\ \E u \in NextCursors(t) : job' = [job EXCEPT ![j] = Expired(@, t, u)]
    /\ UNCHANGED <<now, session, lastSession, lastAttempt, failing, claims>>

-----------------------------------------------------------------------------
(* Writes of an attempt.                                                   *)

Complete(j, a, t) ==
    /\ Owns(j, a)
    /\ \E u \in NextCursors(t) :
         job' = [job EXCEPT ![j].status = Completed, ![j].completedAt = t,
                            ![j].runtimeUpdatedAt = u]
    /\ UNCHANGED <<now, session, lastSession, lastAttempt, failing, claims>>

RecordProgress(j, a, t) ==
    /\ Owns(j, a)
    /\ \E u \in NextCursors(t) :
         /\ u <= MaxProgress
         /\ job' = [job EXCEPT ![j].runtimeUpdatedAt = u]
    /\ UNCHANGED <<now, session, lastSession, lastAttempt, failing, claims>>

RenewLease(j, a, t) ==
    /\ Owns(j, a)
    /\ job' = [job EXCEPT ![j].leaseExpiresAt = t + LeaseDuration]
    /\ UNCHANGED <<now, session, lastSession, lastAttempt, failing, claims>>

\* fail(), first statement: the caller keeps what it read.
FailRead(j, a) ==
    /\ Owns(j, a)
    /\ Cardinality(failing) < MaxFailing
    /\ failing' = failing \cup
         {[job |-> j, attemptId |-> a, retryCount |-> job[j].retryCount,
           scheduledFor |-> job[j].scheduledFor,
           runtimeUpdatedAt |-> job[j].runtimeUpdatedAt]}
    /\ UNCHANGED <<now, job, session, lastSession, lastAttempt, claims>>

Released(row) ==
    [row EXCEPT !.attemptId = Null, !.workerSlotId = Null,
                !.workerSessionId = Null, !.leaseExpiresAt = Null]

OneMoreRetrySlip(f) == f.retryCount <= MaxRetries[f.job]

CanRetry(f) == f.retryCount < MaxRetries[f.job]

KeepsOwnerSlip(row, f, t) ==
    [row EXCEPT !.status = Pending, !.retryCount = f.retryCount + 1,
                !.scheduledFor = t + Backoff[f.retryCount]]

Retried(row, f, t) ==
    [Released(row) EXCEPT !.status = Pending,
                          !.retryCount = f.retryCount + 1,
                          !.scheduledFor = t + Backoff[f.retryCount],
                          !.completedAt = Null,
                          !.runtimeUpdatedAt = f.runtimeUpdatedAt]

Exhausted(row, f, t, u) ==
    [Released(row) EXCEPT !.status = Failed,
                          !.scheduledFor = f.scheduledFor,
                          !.completedAt = t,
                          !.runtimeUpdatedAt = u]

UnfencedFailSlip(f) == job[f.job].retryCount = f.retryCount

FailApplies(f) == Owns(f.job, f.attemptId) /\ job[f.job].retryCount = f.retryCount

\* fail(), second statement.
FailWrite(f, t) ==
    /\ f \in failing
    /\ failing' = failing \ {f}
    /\ \/ /\ FailApplies(f) /\ CanRetry(f)
          /\ job' = [job EXCEPT ![f.job] = Retried(@, f, t)]
       \/ /\ FailApplies(f) /\ ~CanRetry(f)
          /\ \E u \in NextCursors(t) :
               job' = [job EXCEPT ![f.job] = Exhausted(@, f, t, u)]
       \/ ~FailApplies(f) /\ UNCHANGED job
    /\ UNCHANGED <<now, session, lastSession, lastAttempt, claims>>

-----------------------------------------------------------------------------
(* Retention, the clock and the callers.                                   *)

Cleanup(cutoff) ==
    /\ job' = [j \in Jobs |->
                 IF job[j].status \in Terminal /\ job[j].completedAt <= cutoff
                 THEN [job[j] EXCEPT !.status = "deleted"] ELSE job[j]]
    /\ UNCHANGED <<now, session, lastSession, lastAttempt, failing, claims>>

Tick ==
    /\ now < MaxTime
    /\ now' = now + 1
    /\ UNCHANGED <<job, session, lastSession, lastAttempt, failing, claims>>

\* Callers die between the two statements of fail().
CallersDie ==
    /\ \E S \in SUBSET failing : S # {} /\ failing' = failing \ S
    /\ UNCHANGED <<now, job, session, lastSession, lastAttempt, claims>>

Produce == \E j \in Jobs, t \in Stamps : Insert(j, t) \/ Coalesce(j, t) \/ Replace(j, t)

Attend ==
    \E s \in Slots, t \in Stamps :
        \/ StartWorkerSession(s, t)
        \/ \E id \in 1..lastSession :
              \/ HeartbeatWorkerSession(s, id, t)
              \/ EndWorkerSession(s, id)
              \/ \E j \in Jobs : Claim(j, s, id, t) \/ ClaimSpent(j, s, id, t)

Work ==
    \E j \in Jobs, t \in Stamps :
        \/ \E a \in Tokens \cup {Unfenced} : Complete(j, a, t) \/ FailRead(j, a)
        \/ \E a \in Tokens : RecordProgress(j, a, t) \/ RenewLease(j, a, t)

Settling == \E f \in failing, t \in Stamps : FailWrite(f, t)

Next == Produce \/ Attend \/ Work \/ Settling \/ CallersDie \/ Tick
        \/ \E cutoff \in 0..now : Cleanup(cutoff)

Spec == Init /\ [][Next]_vars

-----------------------------------------------------------------------------
(* Properties.                                                             *)

Call == [job : Jobs, attemptId : Nat, retryCount : Nat, scheduledFor : Nat,
         runtimeUpdatedAt : Nat]

\* Every column, session row and pending call of fail() has its type; a waiting
\* row names no attempt, and a running one names a token, slot and session that
\* were created.
TypeOK ==
    /\ now \in Nat
    /\ job \in [Jobs -> Row]
    /\ session \in [Slots -> [id : Nat, expiresAt : Nat]]
    /\ lastSession \in Nat
    /\ lastAttempt \in Nat
    /\ failing \in SUBSET Call
    /\ claims \in [Jobs -> Nat]
    /\ \A j \in Jobs : job[j].status = Pending => job[j].attemptId = Null
    /\ \A j \in Jobs : job[j].status = Processing =>
          /\ job[j].attemptId \in Tokens
          /\ job[j].workerSlotId \in Slots
          /\ job[j].workerSessionId \in 1..lastSession

\* "Reclaims count against the job's retry budget": however failures, lost
\* attempts and late writes interleave, a job is handed to a worker at most
\* maxRetries + 1 times.
AttemptBudget == \A j \in Jobs : claims[j] <= MaxRetries[j] + 1

\* Two requests with strategy coalesce and the same type and key never both
\* have an active row, also when the first one is running or being retried.
CoalesceSingleActive ==
    \A j, k \in Jobs :
        /\ j # k
        /\ StrategyOf[j] = "coalesce" /\ StrategyOf[k] = "coalesce"
        /\ TypeOf[j] = TypeOf[k] /\ KeyOf[j] = KeyOf[k]
        => ~(job[j].status \in Active /\ job[k].status \in Active)

\* A settled row is a constant until retention removes it: no late write of a
\* lost attempt, no second statement of fail() and no claim changes it.
SettledIsFinal ==
    [][\A j \in Jobs : job[j].status \in Terminal =>
          job'[j] = job[j] \/ job'[j].status = "deleted"]_vars

\* "Attempts from another slot are reclaimed only after both the attempt lease
\* and owner-session heartbeat expire": no claim takes a job from an attempt
\* whose lease or whose registered session is still good by the clock.
LiveAttemptKeepsJob ==
    [][\A j \in Jobs, s \in Slots :
          /\ job[j].status = Processing
          /\ s = job[j].workerSlotId /\ session[s].id = job[j].workerSessionId
          /\ job[j].leaseExpiresAt > now \/ session[s].expiresAt > now
          => job'[j].retryCount = job[j].retryCount \/ job'[j].status = Pending]_vars

\* The rows follow the life of a job that JobLifecycle promises.
Stage(status) ==
    IF status = Pending THEN "waiting"
    ELSE IF status = Processing THEN "running"
    ELSE IF status = "deleted" THEN "forgotten"
    ELSE status

Stages == [j \in Jobs |-> Stage(job[j].status)]
Budgets == [j \in Jobs |-> MaxRetries[j] + 1]

Life == INSTANCE JobLifecycle WITH state <- Stages, runs <- claims, Budget <- Budgets

ImplementsLifecycle == Life!LifeSpec

=============================================================================
