--------------------------- MODULE ProjectionWaves ---------------------------
(***************************************************************************)
(* The schedulers and rule jobs that drive the projection store            *)
(* (shell/core/src/projection-wave-scheduler.ts and                        *)
(* projection-rule-job-handler.ts) composed with ProjectionStore.          *)
(*                                                                         *)
(* The web process sweeps; the worker process runs the rule jobs and has a *)
(* scheduler of its own, which its handlers call.  A scheduler runs one    *)
(* operation at a time (its SerialQueue), but nothing serialises the two   *)
(* processes: each step below is one statement, and an operation goes on   *)
(* with what its earlier statements read.                                  *)
(*                                                                         *)
(* A rule job follows the life JobLifecycle describes; leases and tokens   *)
(* are those of JobQueue and are not repeated here.                        *)
(***************************************************************************)
EXTENDS ProjectionStore

CONSTANTS
    Triggers,         \* Triggers[r]: the sources that trigger r directly
    Edges,            \* <<q, r>> in Edges: r depends on what q derives
    MaxRuns,          \* MaxRuns[j]: maxRetries + 1 of rule job j
    MaxFaults         \* bound on crashes and on handlers that throw

Web == "web"
Executor == "worker"
Procs == {Web, Executor}

\* Registration refuses a cycle: of any rules, one depends on none of the others.
ASSUME WaveConstants ==
    /\ IsFiniteSet(Rules)
    /\ \A S \in SUBSET Rules :
         S # {} => \E r \in S : \A e \in Edges : e[2] = r => e[1] \notin S
    /\ Triggers \in [Rules -> SUBSET Sources]
    /\ Edges \subseteq Rules \X Rules
    /\ MaxRuns \in [RuleJobs -> Nat \ {0}]

VARIABLES
    op,               \* op[p]: the operation p's scheduler is in
    job,              \* job[j]: a rule job in the queue
    attempt,          \* attempt[j]: where the handler of j is
    faults            \* crashes and failures so far

runtime == <<op, job, attempt, faults>>
pvars == <<svars, runtime>>

-----------------------------------------------------------------------------
NoWave == "none"

\* next: the operation goes on to the next wave when this one completes; by: the
\* rule job whose handler waits for the operation.
Idle == [step |-> "idle", wave |-> NoWave, rules |-> <<>>, todo |-> {}, queue |-> {},
         bad |-> FALSE, next |-> FALSE, by |-> NoJob]

NewJob == [status |-> "absent", wave |-> NoWave, rule |-> NoWave, runs |-> 0]

WavesInit ==
    /\ StoreInit
    /\ op = [p \in Procs |-> Idle]
    /\ job = [j \in RuleJobs |-> NewJob]
    /\ attempt = [j \in RuleJobs |-> "none"]
    /\ faults = 0

\* planReachableRules: the least set with the triggered rules, closed under Edges.
Plan(inputs) ==
    LET Closed(S) == /\ \A r \in Rules : (\E i \in inputs : i.source \in Triggers[r]) => r \in S
                     /\ \A e \in Edges : e[1] \in S => e[2] \in S
    IN  {r \in Rules : \A S \in SUBSET Rules : Closed(S) => r \in S}

\* assignTopologicalLevels: the length of the longest path to r within S.
Levels(S) ==
    CHOOSE level \in [S -> 0..Cardinality(S)] :
        \A r \in S :
            LET before == {q \in S : <<q, r>> \in Edges}
            IN  /\ before = {} => level[r] = 0
                /\ \A q \in before : level[r] > level[q]
                /\ before # {} => \E q \in before : level[r] = level[q] + 1

RunningWave == {w \in Waves : Running(w)}

\* New ids never repeat and are told apart by nothing else, so one stands for all.
NextId(unused) == IF unused = {} THEN {} ELSE {CHOOSE id \in unused : TRUE}

\* An operation ends, and the handler that waits for it goes on.
Ends(p, ok) ==
    /\ op' = [op EXCEPT ![p] = Idle]
    /\ attempt' = IF op[p].by = NoJob THEN attempt
                  ELSE [attempt EXCEPT ![op[p].by] =
                          IF @ = "reported" THEN "none"
                          ELSE IF ok THEN "returned" ELSE "thrown"]
    /\ UNCHANGED <<job, faults>>

Goes(p, step) ==
    /\ op' = [op EXCEPT ![p].step = step]
    /\ UNCHANGED <<job, attempt, faults>>

-----------------------------------------------------------------------------
(* One operation of a scheduler.                                           *)

\* startNextWave, by the sweep timer or a wake-up.
Sweep ==
    /\ op[Web].step = "idle"
    /\ op' = [op EXCEPT ![Web] = [Idle EXCEPT !.step = "find", !.next = TRUE]]
    /\ UNCHANGED <<svars, job, attempt, faults>>

Find(p) ==
    /\ op[p].step = "find"
    /\ \/ \E w \in RunningWave : op' = [op EXCEPT ![p].step = "list", ![p].wave = w]
          /\ UNCHANGED <<job, attempt, faults>>
       \/ RunningWave = {} /\ dirty # {} /\ Goes(p, "claim")
       \/ RunningWave = {} /\ dirty = {} /\ Ends(p, TRUE)
    /\ UNCHANGED svars

\* claimPendingWave refuses under a barrier and throws if a wave runs.
Claim(p) ==
    /\ op[p].step = "claim"
    /\ \/ \E w \in NextId({v \in Waves : wave[v].status = "absent"}) :
             /\ ClaimWave(w)
             /\ op' = [op EXCEPT ![p].step = "list", ![p].wave = w]
             /\ UNCHANGED <<job, attempt, faults>>
       \/ Barrier /\ Ends(p, TRUE) /\ UNCHANGED svars
       \/ ~Barrier /\ RunningWave # {} /\ Ends(p, FALSE) /\ UNCHANGED svars
       \/ ~Barrier /\ RunningWave = {} /\ dirty = {} /\ Ends(p, TRUE) /\ UNCHANGED svars

With(rows, status) == {r \in Rules : rows[r].status = status}

EmptyIsCompleteSlip(rows, w) ==
    LET planned == {r \in Rules : rows[r].status # "absent"}
    IN  IF With(rows, "completed") = planned THEN "complete"
        ELSE IF With(rows, "failed") # {} THEN "fail"
        ELSE "inspect"

\* The decision of advanceWave about the rules it has just read.
Decided(rows, w) ==
    LET planned == {r \in Rules : rows[r].status # "absent"}
    IN  IF planned = {} THEN IF Plan(wave[w].inputs) = {} THEN "complete" ELSE "put"
        ELSE IF With(rows, "completed") = planned THEN "complete"
        ELSE IF With(rows, "failed") # {} THEN "fail"
        ELSE "inspect"

List(p) ==
    /\ op[p].step = "list"
    /\ LET w == op[p].wave
           step == Decided(rule[w], w)
       IN  op' = [op EXCEPT ![p].step = step, ![p].rules = rule[w],
                            ![p].todo = IF step = "fail" THEN With(rule[w], "failed")
                                        ELSE With(rule[w], "queued")]
    /\ UNCHANGED <<svars, job, attempt, faults>>

\* putWaveRules inserts plainly: it throws if the other process was first.
Put(p) ==
    /\ op[p].step = "put"
    /\ LET w == op[p].wave
           planned == Plan(wave[w].inputs)
       IN  \/ PutRules(w, planned) /\ Goes(p, "list")
           \/ /\ \E r \in planned : rule[w][r].status # "absent"
              /\ Ends(p, FALSE) /\ UNCHANGED svars

EveryLevelSlip(rows) == With(rows, "pending")

\* The pending rules of the first level that is not complete.
Due(rows) ==
    LET planned == {r \in Rules : rows[r].status # "absent"}
        level == Levels(planned)
    IN  {r \in With(rows, "pending") :
           \A q \in planned \ With(rows, "completed") : level[r] <= level[q]}

NeverStrandedSlip(j) == FALSE

Stranded(j) == job[j].status \in {"completed", "failed"}

\* findStrandedQueuedRule asks for the status of one job after the other.
Inspect(p) ==
    /\ op[p].step = "inspect"
    /\ \/ \E r \in op[p].todo :
             IF Stranded(op[p].rules[r].job)
             THEN op' = [op EXCEPT ![p].step = "fail", ![p].todo = {r}]
             ELSE op' = [op EXCEPT ![p].todo = @ \ {r}]
       \/ /\ op[p].todo = {}
          /\ op' = [op EXCEPT ![p].step = "enqueue", ![p].todo = Due(op[p].rules)]
    /\ UNCHANGED <<svars, job, attempt, faults>>

\* enqueueRule, first statement: a job that is active for this rule is coalesced.
EnqueueRule(p, r) ==
    /\ op[p].step = "enqueue" /\ r \in op[p].todo
    /\ LET w == op[p].wave
           same == {j \in RuleJobs : /\ job[j].wave = w /\ job[j].rule = r
                                     /\ job[j].status \in {"pending", "processing"}}
           fresh == {j \in RuleJobs : job[j].status = "absent"}
       IN  \E j \in IF same = {} THEN NextId(fresh) ELSE same :
             /\ job' = IF same # {} THEN job
                       ELSE [job EXCEPT ![j] = [status |-> "pending", wave |-> w,
                                                rule |-> r, runs |-> 0]]
             /\ op' = [op EXCEPT ![p].todo = @ \ {r}, ![p].queue = @ \cup {<<r, j>>}]
    /\ UNCHANGED <<svars, attempt, faults>>

\* Its second statement, queueWaveRule, which throws if the rule failed or was
\* queued with another job.
RecordQueued(p, r, j) ==
    /\ op[p].step = "enqueue" /\ <<r, j>> \in op[p].queue
    /\ LET w == op[p].wave
           settled == rule[w][r].status = "completed" \/ rule[w][r] = [status |-> "queued", job |-> j]
       IN  \/ /\ QueueRule(w, r, j)
              /\ op' = [op EXCEPT ![p].queue = @ \ {<<r, j>>}]
           \/ /\ rule[w][r].status # "pending"
              /\ op' = [op EXCEPT ![p].queue = @ \ {<<r, j>>}, ![p].bad = @ \/ ~settled]
              /\ UNCHANGED svars
    /\ UNCHANGED <<job, attempt, faults>>

EnqueueEnds(p) ==
    /\ op[p].step = "enqueue" /\ op[p].todo = {} /\ op[p].queue = {}
    /\ Ends(p, ~op[p].bad)
    /\ UNCHANGED svars

\* completeWave returns for a wave that the other process completed, and throws
\* for one that failed, was superseded, or has a rule that is not complete.
Complete(p) ==
    /\ op[p].step = "complete"
    /\ LET w == op[p].wave
           then == IF op[p].next
                   THEN op' = [op EXCEPT ![p] = [@ EXCEPT !.step = "find", !.wave = NoWave]]
                        /\ UNCHANGED <<job, attempt, faults>>
                   ELSE Ends(p, TRUE)
       IN  \/ CompleteWave(w) /\ then
           \/ wave[w].status = "completed" /\ then /\ UNCHANGED svars
           \/ /\ \/ wave[w].status \in {"failed", "superseded"}
                 \/ Running(w) /\ \E r \in Rules : rule[w][r].status \notin {"absent", "completed"}
              /\ Ends(p, FALSE) /\ UNCHANGED svars

OnlyMarksSlip(p) ==
    /\ op[p].step = "fail"
    /\ wave' = [wave EXCEPT ![op[p].wave].status = "failed"]
    /\ Ends(p, TRUE)
    /\ UNCHANGED <<journal, epoch, rule, batch, incident, history>>

\* failWaveWithIncident for a failed or stranded rule, or for a terminal error.
Fail(p) ==
    /\ op[p].step = "fail"
    /\ LET w == op[p].wave
       IN  \/ \E r \in op[p].todo : FailWave(w, r) /\ Ends(p, TRUE)
           \/ wave[w].status = "completed" /\ Ends(p, FALSE) /\ UNCHANGED svars

-----------------------------------------------------------------------------
(* A rule job.                                                             *)

At(j, pc) ==
    /\ attempt' = [attempt EXCEPT ![j] = pc]
    /\ UNCHANGED <<op, faults>>

Claimed(j) == [job EXCEPT ![j].status = "processing", ![j].runs = @ + 1]

\* A worker claims the job, also after the process of its last attempt died.
RunJob(j) ==
    /\ attempt[j] = "none"
    /\ job[j].status = "pending" \/ (job[j].status = "processing" /\ job[j].runs < MaxRuns[j])
    /\ job' = Claimed(j)
    /\ At(j, "started")
    /\ UNCHANGED svars

\* The last attempt died: the claim fails the job and nobody is told.
LoseJob(j) ==
    /\ attempt[j] = "none" /\ job[j].status = "processing" /\ job[j].runs = MaxRuns[j]
    /\ job' = [job EXCEPT ![j].status = "failed"]
    /\ UNCHANGED <<svars, op, attempt, faults>>

ReadWave(j) ==
    /\ attempt[j] = "started"
    /\ LET status == wave[job[j].wave].status
       IN  At(j, IF status = "running" THEN "read"
                 ELSE IF status = "superseded" THEN "returned" ELSE "thrown")
    /\ UNCHANGED <<svars, job>>

\* supersedeWaveIfStale before any work.
CheckStale(j) ==
    /\ attempt[j] = "read"
    /\ LET w == job[j].wave
       IN  \/ Supersede(w) /\ At(j, "superseded")
           \/ wave[w].status = "superseded" /\ At(j, "superseded") /\ UNCHANGED svars
           \/ wave[w].status # "superseded" /\ (Running(w) => Fresh(w))
              /\ At(j, "deriving") /\ UNCHANGED svars
    /\ UNCHANGED job

Apply(j) ==
    /\ attempt[j] = "deriving"
    /\ LET w == job[j].wave
           r == job[j].rule
       IN  \/ ApplyResult(w, r) /\ At(j, "applied")
           \/ Supersede(w) /\ At(j, "superseded")
           \/ wave[w].status = "superseded" /\ At(j, "superseded") /\ UNCHANGED svars
           \/ /\ Running(w) /\ Fresh(w) /\ rule[w][r].status = "completed"
              /\ At(j, "applied") /\ UNCHANGED svars
           \/ /\ wave[w].status \in {"completed", "failed"}
              /\ At(j, "thrown") /\ UNCHANGED svars
    /\ UNCHANGED job

\* selectInput, derive or reconcileTargets throws.
Throw(j) ==
    /\ attempt[j] \in {"deriving", "applied"}
    /\ faults < MaxFaults
    /\ faults' = faults + 1
    /\ attempt' = [attempt EXCEPT ![j] = "thrown"]
    /\ UNCHANGED <<svars, op, job>>

Calls(j, step, w, next, todo) ==
    op' = [op EXCEPT ![Executor] =
             [Idle EXCEPT !.step = step, !.wave = w, !.next = next, !.todo = todo, !.by = j]]

\* advanceActiveWave.
Advance(j) ==
    /\ attempt[j] = "applied" /\ op[Executor].step = "idle"
    /\ LET w == job[j].wave
       IN  \/ /\ Running(w)
              /\ Calls(j, "list", w, TRUE, {})
              /\ attempt' = [attempt EXCEPT ![j] = "waiting"]
              /\ UNCHANGED faults
           \/ ~Running(w) /\ At(j, "thrown")
    /\ UNCHANGED <<svars, job>>

\* continueAfterSupersession.
Continue(j) ==
    /\ attempt[j] = "superseded" /\ op[Executor].step = "idle"
    /\ \/ \E w \in RunningWave : Calls(j, "list", w, FALSE, {})
       \/ RunningWave = {} /\ Calls(j, "find", NoWave, TRUE, {})
    /\ attempt' = [attempt EXCEPT ![j] = "waiting"]
    /\ UNCHANGED <<svars, job, faults>>

\* The handler returned, or threw and has a retry left, or threw for good.
CompleteJob(j) ==
    /\ attempt[j] = "returned"
    /\ job' = [job EXCEPT ![j].status = "completed"]
    /\ At(j, "none")
    /\ UNCHANGED svars

FailJob(j) ==
    /\ attempt[j] = "thrown"
    /\ \/ job[j].runs < MaxRuns[j]
          /\ job' = [job EXCEPT ![j].status = "pending"] /\ At(j, "none")
       \/ job[j].runs = MaxRuns[j]
          /\ job' = [job EXCEPT ![j].status = "failed"] /\ At(j, "reporting")
    /\ UNCHANGED svars

\* onTerminalError: failActiveWaveWithIncident.
ReportError(j) ==
    /\ attempt[j] = "reporting" /\ op[Executor].step = "idle"
    /\ LET w == job[j].wave
           ignored == \/ RunningWave \notin {{}, {w}}
                      \/ RunningWave = {} /\ wave[w].status = "superseded"
       IN  \/ ignored /\ At(j, "none")
           \/ /\ ~ignored
              /\ Calls(j, "fail", w, FALSE, {job[j].rule})
              /\ attempt' = [attempt EXCEPT ![j] = "reported"]
              /\ UNCHANGED faults
    /\ UNCHANGED <<svars, job>>

-----------------------------------------------------------------------------
\* A process dies and is started again.
Crash(p) ==
    /\ faults < MaxFaults
    /\ faults' = faults + 1
    /\ op' = [op EXCEPT ![p] = Idle]
    /\ attempt' = IF p = Executor THEN [j \in RuleJobs |-> "none"] ELSE attempt
    /\ UNCHANGED <<svars, job>>

\* beforeWaveCompletion throws.
EffectFails(p) ==
    /\ op[p].step = "complete"
    /\ faults < MaxFaults
    /\ faults' = faults + 1
    /\ op' = [op EXCEPT ![p] = Idle]
    /\ attempt' = IF op[p].by = NoJob THEN attempt
                  ELSE [attempt EXCEPT ![op[p].by] = "thrown"]
    /\ UNCHANGED <<svars, job>>

Schedule(p) ==
    \/ Find(p) \/ Claim(p) \/ List(p) \/ Put(p) \/ Inspect(p)
    \/ \E r \in Rules : EnqueueRule(p, r) \/ \E j \in RuleJobs : RecordQueued(p, r, j)
    \/ EnqueueEnds(p) \/ Complete(p) \/ Fail(p)

Handle(j) ==
    \/ RunJob(j) \/ LoseJob(j) \/ ReadWave(j) \/ CheckStale(j) \/ Apply(j)
    \/ Advance(j) \/ Continue(j) \/ CompleteJob(j) \/ FailJob(j) \/ ReportError(j)

\* Mutations, and the batches that hold waves back.
Ingress ==
    /\ \/ \E s \in Sources, b \in Batches \cup {Unscoped} : Mutate(s, b)
       \/ \E b \in Callbacks : CallbackStep(b)
       \/ FenceCallbacks
    /\ UNCHANGED runtime

WavesNext ==
    \/ Sweep \/ Ingress
    \/ \E p \in Procs : Schedule(p) \/ Crash(p) \/ EffectFails(p)
    \/ \E j \in RuleJobs : Handle(j) \/ Throw(j)

WavesSpec == WavesInit /\ [][WavesNext]_pvars

\* The sweep timer fires, statements are answered, workers claim and handlers
\* end; a callback returns and closes its batch, or dies and is fenced.
FairWavesSpec ==
    /\ WavesSpec
    /\ WF_pvars(Sweep)
    /\ \A p \in Procs : WF_pvars(Schedule(p))
    /\ \A j \in RuleJobs : WF_pvars(Handle(j))
    /\ \A b \in Callbacks :
         WF_pvars((CloseCallbackBatch(b) \/ FenceCallbacks) /\ UNCHANGED runtime)

-----------------------------------------------------------------------------
(* Properties.                                                             *)

\* The schedulers use the store as ProjectionStore allows.
DrivesStore == StoreSpec

\* "Advances topological levels": whichever scheduler enqueues it, and however
\* often its job runs, a rule gets its result after the rules it depends on.
RulesInOrder ==
    \A w \in Waves, e \in Edges :
        rule[w][e[2]].status = "completed"
        => rule[w][e[1]].status \in {"absent", "completed", "failed"}

\* A wave completes only with the result of every rule its inputs reach, although
\* two schedulers plan it, enqueue for it and complete it.
CompleteMeansDerived ==
    \A w \in Waves : wave[w].status = "completed" =>
        \A r \in Plan(wave[w].inputs) : rule[w][r].status = "completed"

\* The incident of a failed wave never waits for nothing: until it is resolved,
\* the journal or the running wave holds what will resolve it.
IncidentWillResolve ==
    \A w \in Waves : wave[w].status = "failed" /\ incident[w].status = "unresolved" =>
        \/ dirty # {}
        \/ \E v \in Waves : Running(v) /\ wave[v].cutoff >= incident[w].recovery

\* Every mutation is at last taken by a wave that completes, whatever crashes,
\* handlers that throw, stranded jobs and abandoned batches come in between.
EveryMutationProjected ==
    \A s \in Sources : (revision[s] > covered[s]) ~> (revision[s] = covered[s])

=============================================================================
