--------------------------- MODULE ProjectionStore ---------------------------
(***************************************************************************)
(* The durable coordination of derived entities                            *)
(* (shell/entity-service/src/projection-store.ts): a journal of dirty      *)
(* sources, waves that claim the journal and recompute what depends on it, *)
(* the rules of a wave, batches of mutations that hold waves back, and     *)
(* incidents for waves that failed.                                        *)
(*                                                                         *)
(* Every method that writes is one transaction and one action, or one per  *)
(* outcome.  Callers are free: any process may call any method, with any   *)
(* wave, rule or batch that exists, at any time.  What a mutation writes   *)
(* and what a rule derives are left out; a source is its revision.         *)
(***************************************************************************)
EXTENDS Integers, FiniteSets, Functions

CONSTANTS
    Sources,          \* source entities
    Rules,            \* projection rules
    RuleJobs,         \* ids of rule jobs
    Waves,            \* wave ids, each used once
    Callbacks,        \* batches held open by a callback, under a lease
    Roots,            \* batches held open by the child jobs of a root job
    Children,         \* child keys of a root
    Unscoped,         \* a mutation outside every batch
    NoJob,            \* a rule whose job is not known
    MaxRevision       \* MaxRevision[s]: bound on the mutations of s

Batches == Callbacks \cup Roots

ASSUME StoreConstants ==
    /\ Unscoped \notin Batches
    /\ NoJob \notin RuleJobs
    /\ Callbacks \cap Roots = {}
    /\ MaxRevision \in [Sources -> Nat]

VARIABLES
    revision,         \* revision[s]: how often s was mutated
    dirty,            \* the rows of the journal
    generation,       \* the last generation the journal gave out
    epoch,            \* the admission epoch
    wave,             \* wave[w]: its row and its inputs
    rule,             \* rule[w][r]: the row of rule r in wave w
    batch,            \* batch[b]: its row and its children
    incident,         \* incident[w]: the incident of w
    covered,          \* covered[s]: the last revision a completed wave took (history)
    mutated           \* mutated[b]: the entries journalled under batch b (history)

journal == <<revision, dirty, generation>>
history == <<covered, mutated>>
svars == <<journal, epoch, wave, rule, batch, incident, history>>

-----------------------------------------------------------------------------
Never == 0            \* NULL in a column of generations

Entry == [source : Sources, revision : Nat, generation : Nat]

ActiveStatus == {"preparing", "open"}

WaveRow == [status : {"absent", "running", "completed", "failed", "superseded"},
            cutoff : Nat, epoch : Nat, inputs : SUBSET Entry]

RuleRow == [status : {"absent", "pending", "queued", "completed", "failed"},
            job : RuleJobs \cup {NoJob}]

BatchRow == [status : {"absent", "closed", "abandoned"} \cup ActiveStatus,
             leased : BOOLEAN, highest : Nat, recovery : Nat, recovered : BOOLEAN,
             child : [Children -> {"absent", "active", "completed", "failed"}]]

NoBatch == [status |-> "absent", leased |-> FALSE, highest |-> Never,
            recovery |-> Never, recovered |-> FALSE,
            child |-> [c \in Children |-> "absent"]]

StoreInit ==
    /\ revision = [s \in Sources |-> 0]
    /\ dirty = {}
    /\ generation = 0
    /\ epoch = 0
    /\ wave = [w \in Waves |-> [status |-> "absent", cutoff |-> 0, epoch |-> 0,
                                inputs |-> {}]]
    /\ rule = [w \in Waves |-> [r \in Rules |-> [status |-> "absent", job |-> NoJob]]]
    /\ batch = [b \in Batches |-> NoBatch]
    /\ incident = [w \in Waves |-> [status |-> "none", recovery |-> Never]]
    /\ covered = [s \in Sources |-> 0]
    /\ mutated = [b \in Batches |-> {}]

-----------------------------------------------------------------------------
(* Batches and the barrier they form.                                      *)

Active(b) == batch[b].status \in ActiveStatus
Barrier == \E b \in Batches : Active(b)

\* max(generation) of the journal, or the fallback if it is empty.
RecoveryGeneration(rows, fallback) ==
    CHOOSE g \in {d.generation : d \in rows} \cup (IF rows = {} THEN {fallback} ELSE {}) :
        \A d \in rows : d.generation <= g

\* A new batch makes every running wave stale.
Opened(b, status) ==
    /\ batch[b].status = "absent"
    /\ batch' = [batch EXCEPT ![b].status = status, ![b].leased = TRUE]
    /\ epoch' = epoch + 1

OpenCallbackBatch(b) ==
    /\ b \in Callbacks
    /\ Opened(b, "open")
    /\ UNCHANGED <<journal, wave, rule, incident, history>>

\* The lease of a callback that does not renew it in time runs out.
LeaseExpires(b) ==
    /\ b \in Callbacks /\ batch[b].status = "open"
    /\ batch' = [batch EXCEPT ![b].leased = FALSE]
    /\ UNCHANGED <<journal, epoch, wave, rule, incident, history>>

RenewCallbackBatch(b) ==
    /\ b \in Callbacks /\ batch[b].status = "open"
    /\ batch' = [batch EXCEPT ![b].leased = TRUE]
    /\ UNCHANGED <<journal, epoch, wave, rule, incident, history>>

CloseCallbackBatch(b) ==
    /\ b \in Callbacks /\ batch[b].status = "open"
    /\ batch' = [batch EXCEPT ![b].status = "closed"]
    /\ UNCHANGED <<journal, epoch, wave, rule, incident, history>>

PrepareRoot(b) ==
    /\ b \in Roots
    /\ Opened(b, "preparing")
    /\ UNCHANGED <<journal, wave, rule, incident, history>>

FinalizeRoot(b) ==
    /\ b \in Roots /\ Active(b)
    /\ batch' = [batch EXCEPT ![b].status = "open"]
    /\ UNCHANGED <<journal, epoch, wave, rule, incident, history>>

OpenChild(b, c) ==
    /\ b \in Roots
    /\ batch[b].status = "absent" \/ Active(b)
    /\ batch[b].child[c] \in {"absent", "active"}
    /\ batch' = [batch EXCEPT ![b].status = "open", ![b].child[c] = "active"]
    /\ epoch' = IF batch[b].status = "absent" THEN epoch + 1 ELSE epoch
    /\ UNCHANGED <<journal, wave, rule, incident, history>>

RecoveredAtOnceSlip(row) ==
    [row EXCEPT !.status = "abandoned",
                !.recovery = RecoveryGeneration(dirty, row.highest),
                !.recovered = TRUE]

\* A batch that mutated nothing has nothing to recover.
Abandoned(row) ==
    [row EXCEPT !.status = "abandoned",
                !.recovery = RecoveryGeneration(dirty, row.highest),
                !.recovered = (row.highest = Never)]

Terminal(children) == \A c \in Children : children[c] \in {"completed", "failed"}

Ended(row, clean) == IF clean THEN [row EXCEPT !.status = "closed"] ELSE Abandoned(row)

SettleChild(b, c, outcome) ==
    /\ b \in Roots /\ Active(b) /\ batch[b].child[c] # "absent"
    /\ LET children == [batch[b].child EXCEPT ![c] = outcome]
       IN  batch' = [batch EXCEPT ![b] =
                       [IF Terminal(children)
                        THEN Ended(@, \A k \in Children : children[k] = "completed")
                        ELSE @ EXCEPT !.child = children]]
    /\ UNCHANGED <<journal, epoch, wave, rule, incident, history>>

\* Recovery found that the jobs of the root have ended, with these outcomes; a
\* child without a job was never enqueued, or its job was removed.
ReconcileRoot(b, jobs) ==
    /\ b \in Roots /\ Active(b)
    /\ batch' = [batch EXCEPT ![b] =
                   [Ended(@, \A c \in Children : c \in DOMAIN jobs /\ jobs[c] = "completed")
                    EXCEPT !.child = [c \in Children |->
                      IF c \in DOMAIN jobs THEN jobs[c] ELSE batch[b].child[c]]]]
    /\ UNCHANGED <<journal, epoch, wave, rule, incident, history>>

\* Recovery fences the callbacks whose lease has run out.
FenceCallbacks ==
    LET expired == {b \in Callbacks : batch[b].status = "open" /\ ~batch[b].leased}
    IN  /\ expired # {}
        /\ batch' = [b \in Batches |->
                       IF b \in expired THEN Abandoned(batch[b]) ELSE batch[b]]
        /\ UNCHANGED <<journal, epoch, wave, rule, incident, history>>

-----------------------------------------------------------------------------
(* The journal.                                                            *)

\* recordBatchGeneration, for a mutation that runs in the scope of b.
Recorded(b, d) ==
    IF b = Unscoped THEN UNCHANGED <<batch, mutated>>
    ELSE /\ batch' = [batch EXCEPT ![b].highest = d.generation, ![b].leased = TRUE]
         /\ mutated' = [mutated EXCEPT ![b] = @ \cup {d}]

\* withDirtyInput: the mutation and its row in the journal, in one transaction,
\* refused if the batch it runs in is no longer open.
Mutate(s, b) ==
    /\ revision[s] < MaxRevision[s]
    /\ b # Unscoped => batch[b].status = "open"
    /\ revision' = [revision EXCEPT ![s] = @ + 1]
    /\ generation' = generation + 1
    /\ LET d == [source |-> s, revision |-> revision'[s], generation |-> generation']
       IN  dirty' = dirty \cup {d} /\ Recorded(b, d)
    /\ UNCHANGED <<epoch, wave, rule, incident, covered>>

\* coalesceLatestInputs.
Latest(rows) ==
    {d \in rows : \A e \in rows : e.source = d.source => e.generation <= d.generation}

Pending(s) == \E d \in dirty : d.source = s

ForgetsSlip(w) == UNCHANGED journal

OverwritesSlip(w) ==
    LET rows == wave[w].inputs
    IN  /\ \E place \in Bijection(rows, 1..Cardinality(rows)) :
             dirty' = dirty \cup
               {[source |-> i.source, revision |-> i.revision,
                 generation |-> generation + place[i]] : i \in rows}
        /\ generation' = generation + Cardinality(rows)
        /\ UNCHANGED revision

\* The inputs of a wave that ends without a result return to the journal, in
\* any order, unless their source is there already.
Requeue(w) ==
    LET rows == {i \in wave[w].inputs : ~Pending(i.source)}
    IN  /\ \E place \in Bijection(rows, 1..Cardinality(rows)) :
             dirty' = dirty \cup
               {[source |-> i.source, revision |-> i.revision,
                 generation |-> generation + place[i]] : i \in rows}
        /\ generation' = generation + Cardinality(rows)
        /\ UNCHANGED revision

-----------------------------------------------------------------------------
(* Waves.                                                                  *)

Running(w) == wave[w].status = "running"
Fresh(w) == wave[w].epoch = epoch

OverlappingSlip(w) ==
    /\ wave[w].status = "absent"
    /\ ~Barrier
    /\ dirty # {}
    /\ wave' = [wave EXCEPT ![w] =
                  [status |-> "running", cutoff |-> RecoveryGeneration(dirty, Never),
                   epoch |-> epoch, inputs |-> Latest(dirty)]]
    /\ dirty' = {}
    /\ UNCHANGED <<revision, generation, epoch, rule, batch, incident, history>>

\* The wave takes the journal as it is.
ClaimWave(w) ==
    /\ wave[w].status = "absent"
    /\ ~Barrier
    /\ \A v \in Waves : ~Running(v)
    /\ dirty # {}
    /\ wave' = [wave EXCEPT ![w] =
                  [status |-> "running", cutoff |-> RecoveryGeneration(dirty, Never),
                   epoch |-> epoch, inputs |-> Latest(dirty)]]
    /\ dirty' = {}
    /\ UNCHANGED <<revision, generation, epoch, rule, batch, incident, history>>

PutRules(w, R) ==
    /\ wave[w].status # "absent"
    /\ \A r \in R : rule[w][r].status = "absent"
    /\ rule' = [rule EXCEPT ![w] =
                  [r \in Rules |-> IF r \in R THEN [status |-> "pending", job |-> NoJob]
                                   ELSE rule[w][r]]]
    /\ UNCHANGED <<journal, epoch, wave, batch, incident, history>>

QueueRule(w, r, j) ==
    /\ rule[w][r].status = "pending"
    /\ rule' = [rule EXCEPT ![w][r] = [status |-> "queued", job |-> j]]
    /\ UNCHANGED <<journal, epoch, wave, batch, incident, history>>

StaleResultSlip(w, r) ==
    /\ Running(w)
    /\ rule[w][r].status \in {"pending", "queued"}
    /\ rule' = [rule EXCEPT ![w][r].status = "completed"]
    /\ UNCHANGED <<journal, epoch, wave, batch, incident, history>>

\* applyRuleResult.  A rule that completed before keeps its result; a result for
\* a stale wave supersedes the wave instead (Supersede).
ApplyResult(w, r) ==
    /\ Running(w) /\ Fresh(w)
    /\ rule[w][r].status \in {"pending", "queued"}
    /\ rule' = [rule EXCEPT ![w][r].status = "completed"]
    /\ UNCHANGED <<journal, epoch, wave, batch, incident, history>>

\* supersedeWaveIfStale, and applyRuleResult for a stale wave.
Supersede(w) ==
    /\ Running(w) /\ ~Fresh(w)
    /\ Requeue(w)
    /\ wave' = [wave EXCEPT ![w].status = "superseded"]
    /\ UNCHANGED <<epoch, rule, batch, incident, history>>

\* failWaveWithIncident.  Its coordinators may call it for a wave that failed or
\* was superseded meanwhile; it throws for one that completed.
FailWave(w, r) ==
    /\ wave[w].status \in {"running", "failed", "superseded"}
    /\ rule[w][r].status # "absent"
    /\ \/ /\ Running(w)
          /\ Requeue(w)
          /\ wave' = [wave EXCEPT ![w].status = "failed"]
       \/ ~Running(w) /\ UNCHANGED <<journal, wave>>
    /\ rule' = [rule EXCEPT ![w][r].status = "failed"]
    /\ incident' = IF incident[w].status # "none" THEN incident
                   ELSE [incident EXCEPT ![w] =
                           [status |-> "unresolved",
                            recovery |-> RecoveryGeneration(dirty', wave[w].cutoff)]]
    /\ UNCHANGED <<epoch, batch, history>>

BelowCutoffSlip(row, cutoff) ==
    IF row.status = "unresolved" /\ row.recovery < cutoff
    THEN [row EXCEPT !.status = "resolved"] ELSE row

\* What a wave with this cutoff has recovered.
Resolved(row, cutoff) ==
    IF row.status = "unresolved" /\ row.recovery <= cutoff
    THEN [row EXCEPT !.status = "resolved"] ELSE row

Recovered(row, cutoff) ==
    IF row.status = "abandoned" /\ row.recovery <= cutoff
    THEN [row EXCEPT !.recovered = TRUE] ELSE row

CompleteWave(w) ==
    /\ Running(w)
    /\ \A r \in Rules : rule[w][r].status \in {"absent", "completed"}
    /\ wave' = [wave EXCEPT ![w].status = "completed"]
    /\ incident' = [v \in Waves |-> Resolved(incident[v], wave[w].cutoff)]
    /\ batch' = [b \in Batches |-> Recovered(batch[b], wave[w].cutoff)]
    /\ covered' = [s \in Sources |->
                     IF \E i \in wave[w].inputs : i.source = s
                     THEN (CHOOSE i \in wave[w].inputs : i.source = s).revision
                     ELSE covered[s]]
    /\ UNCHANGED <<journal, epoch, rule, mutated>>

-----------------------------------------------------------------------------
CallbackStep(b) ==
    OpenCallbackBatch(b) \/ LeaseExpires(b) \/ RenewCallbackBatch(b) \/ CloseCallbackBatch(b)

Outcomes == {"completed", "failed"}

RootStep(b) ==
    \/ PrepareRoot(b) \/ FinalizeRoot(b)
    \/ \E c \in Children :
          OpenChild(b, c) \/ \E outcome \in Outcomes : SettleChild(b, c, outcome)
    \/ \E C \in SUBSET Children : \E jobs \in [C -> Outcomes] : ReconcileRoot(b, jobs)

WaveStep(w) ==
    \/ ClaimWave(w) \/ Supersede(w) \/ CompleteWave(w)
    \/ \E R \in SUBSET Rules : R # {} /\ PutRules(w, R)
    \/ \E r \in Rules : ApplyResult(w, r) \/ FailWave(w, r)
                        \/ \E j \in RuleJobs : QueueRule(w, r, j)

StoreNext ==
    \/ \E s \in Sources, b \in Batches \cup {Unscoped} : Mutate(s, b)
    \/ \E b \in Batches : CallbackStep(b) \/ RootStep(b)
    \/ FenceCallbacks
    \/ \E w \in Waves : WaveStep(w)

StoreSpec == StoreInit /\ [][StoreNext]_svars

-----------------------------------------------------------------------------
(* Properties.                                                             *)

\* Every row has its type, generations and epochs stay below their counters, and
\* at most one wave runs.
StoreTypeOK ==
    /\ revision \in [Sources -> Nat]
    /\ dirty \subseteq Entry
    /\ generation \in Nat
    /\ epoch \in Nat
    /\ wave \in [Waves -> WaveRow]
    /\ rule \in [Waves -> [Rules -> RuleRow]]
    /\ batch \in [Batches -> BatchRow]
    /\ incident \in [Waves -> [status : {"none", "unresolved", "resolved"}, recovery : Nat]]
    /\ covered \in [Sources -> Nat]
    /\ mutated \in [Batches -> SUBSET Entry]
    /\ \A d \in dirty : d.generation <= generation
    /\ \A w \in Waves : wave[w].epoch <= epoch
    /\ \A v, w \in Waves : Running(v) /\ Running(w) => v = w

TakenBy(w, s) == \E i \in wave[w].inputs : i.source = s /\ i.revision = revision[s]

\* No mutation is forgotten: however waves are claimed, fail, are superseded and
\* overlap new mutations, the latest revision of a source is in the journal, is
\* an input of the running wave, or was taken by a wave that completed.
NothingForgotten ==
    \A s \in Sources :
        \/ covered[s] = revision[s]
        \/ \E d \in Latest(dirty) : d.source = s /\ d.revision = revision[s]
        \/ \E w \in Waves : Running(w) /\ TakenBy(w, s)

\* The barrier: from the moment a batch opens until it ends, no wave is claimed
\* and no rule of any wave gets a result, also if it was derived before.
NoResultDuringBatch ==
    [][Barrier =>
         \A w \in Waves :
            /\ wave'[w].cutoff = wave[w].cutoff
            /\ \A r \in Rules : rule'[w][r].status = "completed"
                                => rule[w][r].status = "completed"]_svars

\* A resolved incident is recovered: every input of the wave that failed, at the
\* revision it had or a later one, was taken by a wave that completed.
ResolvedMeansRecovered ==
    \A w \in Waves : incident[w].status = "resolved" =>
        \A i \in wave[w].inputs : covered[i.source] >= i.revision

\* An abandoned batch counts as recovered only when everything it had mutated was
\* taken by a wave that completed.
BatchRecovery ==
    \A b \in Batches : batch[b].recovered =>
        \A d \in mutated[b] : covered[d.source] >= d.revision

=============================================================================
