-------------------------- MODULE GitReconciliation --------------------------
(***************************************************************************)
(* The roles around the owner of a checkout.  The web process pulls        *)
(* periodically, commits and pushes what was edited, and reconciles after  *)
(* an owner is lost; a worker pulls when a sync is requested.  What a pull *)
(* brought is derived from a checkpoint, queued for import, and only then  *)
(* is the checkpoint moved.                                                *)
(***************************************************************************)
EXTENDS GitBroker

CONSTANT Recoveries  \* replays that may be running at once

ASSUME ReconciliationAssumption ==
    /\ Recoveries # {} /\ IsFiniteSet(Recoveries)
    /\ Recoveries \cap Slots = {}

VARIABLES flow,       \* flow[f]: how far a role's piece of work has come
          cache,      \* cache[p]: the checkpoint a process has in memory
          stored,     \* the checkpoint in the runtime-state table; 0: none
          busy,       \* busy[p]: a sync batch is being queued by process p
          wanted,     \* a replay is scheduled
          unsaved,    \* an auto-commit is scheduled
          seen        \* history: [delivered, looked, overtaken]

roleVars == <<flow, cache, stored, busy, wanted, unsaved, seen>>
vars == <<brokerVars, roleVars>>

Processes == {"web", "worker"}
Flows == Callers \cup Recoveries
ProcessOf(f) == IF f = "job" THEN "worker" ELSE "web"
Replays == Recoveries \cup {"startup"}

Resting == [pc |-> "idle", from |-> 0, head |-> 0, stray |-> FALSE]
Unloaded == [loaded |-> FALSE, at |-> 0]
At(f, pc) == flow[f].pc = pc
Goes(f, pc) == flow' = [flow EXCEPT ![f].pc = pc]
Rests(f) == flow' = [flow EXCEPT ![f] = Resting]
Ready == At("startup", "idle")
Later(a, b) == IF a > b THEN a ELSE b

(* What the commits after `from`, up to `head`, brought from the remote. *)
Brought(from, head) == {c \in repo.pulled : from < c /\ c <= head}
-----------------------------------------------------------------------------
(* The whole runtime goes and comes back: in-memory state and every        *)
(* conversation are lost, the checkout, the journal and the checkpoint are *)
(* not.                                                                    *)
RuntimeRestarts ==
    /\ OwnerGone
    /\ call' = [c \in Slots |-> Quiet]
    /\ flow' = [f \in Flows |-> IF f = "startup" THEN [Resting EXCEPT !.pc = "attach"]
                                                 ELSE Resting]
    /\ cache' = [p \in Processes |-> Unloaded]
    /\ busy' = [p \in Processes |-> FALSE]
    /\ wanted' = FALSE
    /\ unsaved' = FALSE
    /\ UNCHANGED <<journal, repo, stored, seen>>

RuntimeDies == Mishap /\ RuntimeRestarts

GivesUpSlip(f) ==
    \/ /\ f \in Recoveries
       /\ Rests(f)
       /\ UNCHANGED <<owner, journal, call, repo, past, cache, stored, wanted, unsaved, seen>>
    \/ f = "startup" /\ RuntimeRestarts
    \/ /\ f \in Callers \ {"startup"}
       /\ Rests(f)
       /\ UNCHANGED <<owner, journal, call, repo, past, cache, stored, wanted, unsaved, seen>>

(* What follows a failed step: a replay is scheduled again, a failed       *)
(* registration ends the process, everything else gives up for this time.  *)
Fails(f) ==
    \/ /\ f \in Recoveries
       /\ Rests(f)
       /\ wanted' = TRUE
       /\ UNCHANGED <<owner, journal, call, repo, past, cache, stored, unsaved, seen>>
    \/ f = "startup" /\ RuntimeRestarts
    \/ /\ f \in Callers \ {"startup"}
       /\ Rests(f)
       /\ UNCHANGED <<owner, journal, call, repo, past, cache, stored, wanted, unsaved, seen>>

(* A worker is replaced; the operation it asked for goes on without it. *)
WorkerDies ==
    /\ Ready
    /\ Mishap
    /\ Rests("job")
    /\ cache' = [cache EXCEPT !["worker"] = Unloaded]
    /\ busy' = [busy EXCEPT !["worker"] = FALSE]
    /\ IF call["job"].st \in InOwner
       THEN /\ call[Nobody].st = "idle"
            /\ call' = [call EXCEPT !["job"] = Quiet, ![Nobody] = call["job"]]
            /\ journal' = [journal EXCEPT !.open =
                             IF "job" \in @ THEN (@ \ {"job"}) \cup {Nobody} ELSE @]
       ELSE call' = [call EXCEPT !["job"] = Quiet] /\ UNCHANGED journal
    /\ UNCHANGED <<owner, repo, past, stored, wanted, unsaved, seen>>

(* The web process sees the socket close and schedules a replay: its one   *)
(* connection closes under it, and what listens for that runs before any   *)
(* call that was waiting on it.  (Two calls that link at the same time can *)
(* leave the process with a second connection; that is not modelled.)  A   *)
(* replay that has read its delta goes on with it.                         *)
LosesOwner ==
    /\ OwnerDies
    /\ wanted' = TRUE
    /\ flow' = [f \in Flows |->
                  [flow[f] EXCEPT !.stray = f \in Replays /\
                     flow[f].pc \in {"queueing", "checkpoint", "open"}]]
    /\ UNCHANGED <<cache, stored, busy, unsaved, seen>>
-----------------------------------------------------------------------------
(* Replay, whoever asks for it: checkpoint, delta, batch, checkpoint. *)

(* The store is read once per process and then answers from memory. *)
ReadCheckpoint(f) ==
    LET p == ProcessOf(f)
        at == IF cache[p].loaded THEN cache[p].at ELSE stored
    IN /\ cache' = [cache EXCEPT ![p] = [loaded |-> TRUE, at |-> at]]
       /\ flow' = [flow EXCEPT ![f].pc = "derive", ![f].from = at]

BeginReplay(r) ==
    /\ wanted
    /\ At(r, "idle")
    /\ Serving
    /\ wanted' = FALSE
    /\ IF owner.admits THEN UNCHANGED <<flow, cache>> ELSE ReadCheckpoint(r)
    /\ UNCHANGED <<brokerVars, stored, busy, unsaved, seen>>

(* After its batch, or without one, a replay opens admission. *)
Finishes(f) ==
    flow' = [flow EXCEPT ![f] = IF f \in Replays
                                THEN [Resting EXCEPT !.pc = "open", !.stray = flow[f].stray]
                                ELSE Resting]

Reaches(f, pc) == flow' = [flow EXCEPT ![f].pc = pc, ![f].head = repo.head]

SavesWhenRefusedSlip(f) ==
    LET p == ProcessOf(f)
    IN /\ At(f, "derive")
       /\ Serving
       /\ \/ /\ flow[f].from = repo.head \/ busy[p]
             /\ Reaches(f, "checkpoint")
             /\ UNCHANGED busy
          \/ /\ flow[f].from # repo.head
             /\ ~busy[p]
             /\ Reaches(f, "queueing")
             /\ busy' = [busy EXCEPT ![p] = TRUE]
       /\ seen' = [seen EXCEPT !.looked = IF f \in Replays THEN Later(@, repo.head) ELSE @]
       /\ UNCHANGED <<brokerVars, cache, stored, wanted, unsaved>>

(* The delta from the checkpoint that was read to the head as it is now,   *)
(* and the start of its batch.  A batch is refused while this process is   *)
(* queueing another: then nothing is queued and the checkpoint stays.      *)
ReadDelta(f) ==
    LET p == ProcessOf(f)
    IN /\ At(f, "derive")
       /\ Serving
       /\ \/ /\ flow[f].from = repo.head
             /\ Reaches(f, "checkpoint")
             /\ UNCHANGED busy
          \/ /\ flow[f].from # repo.head
             /\ busy[p]
             /\ Finishes(f)
             /\ UNCHANGED busy
          \/ /\ flow[f].from # repo.head
             /\ ~busy[p]
             /\ Reaches(f, "queueing")
             /\ busy' = [busy EXCEPT ![p] = TRUE]
       /\ seen' = [seen EXCEPT !.looked = IF f \in Replays THEN Later(@, repo.head) ELSE @]
       /\ UNCHANGED <<brokerVars, cache, stored, wanted, unsaved>>

LosesTheRead(f) ==
    /\ flow[f].pc \in {"derive", "open"}
    /\ ~Serving
    /\ Fails(f)
    /\ UNCHANGED left
    /\ IF f = "startup" THEN TRUE ELSE UNCHANGED busy

QueuesLastCommitSlip(f) ==
    /\ At(f, "queueing")
    /\ flow' = [flow EXCEPT ![f].pc = "checkpoint", ![f].from = 0]
    /\ busy' = [busy EXCEPT ![ProcessOf(f)] = FALSE]
    /\ seen' = [seen EXCEPT !.delivered = @ \cup Brought(flow[f].head - 1, flow[f].head)]
    /\ UNCHANGED <<brokerVars, cache, stored, wanted, unsaved>>

FinishBatch(f) ==
    /\ At(f, "queueing")
    /\ flow' = [flow EXCEPT ![f].pc = "checkpoint", ![f].from = 0]
    /\ busy' = [busy EXCEPT ![ProcessOf(f)] = FALSE]
    /\ seen' = [seen EXCEPT !.delivered = @ \cup Brought(flow[f].from, flow[f].head)]
    /\ UNCHANGED <<brokerVars, cache, stored, wanted, unsaved>>

BatchFails(f) ==
    /\ At(f, "queueing")
    /\ Mishap
    /\ Fails(f)
    /\ IF f = "startup" THEN TRUE ELSE busy' = [busy EXCEPT ![ProcessOf(f)] = FALSE]

(* Auto-commit moves the checkpoint to the head it pushed, having queued   *)
(* nothing.                                                                *)
SaveCheckpoint(f) ==
    LET head == flow[f].head
    IN /\ At(f, "checkpoint")
       /\ cache' = [cache EXCEPT ![ProcessOf(f)] = [loaded |-> TRUE, at |-> head]]
       /\ stored' = head
       /\ seen' = [seen EXCEPT !.overtaken = IF f = "save" THEN Later(@, head) ELSE @]
       /\ Finishes(f)
       /\ UNCHANGED <<brokerVars, busy, wanted, unsaved>>

Opens(f) ==
    /\ At(f, "open")
    /\ OpenAdmission(flow[f].stray)
    /\ flow' = [flow EXCEPT ![f] = IF f = "startup"
                                   THEN [Resting EXCEPT !.pc = "initialize"]
                                   ELSE Resting]
    /\ UNCHANGED <<journal, call, repo, left,
                   cache, stored, busy, wanted, unsaved, seen>>
-----------------------------------------------------------------------------
(* Work that begins with a mutation. *)

AskPull(f) ==
    /\ f \in {"periodic", "job"}
    /\ Ready
    /\ At(f, "idle")
    /\ IF f = "job" THEN Spend("syncs") ELSE UNCHANGED left
    /\ Ask(f, "pull")
    /\ Goes(f, "asking")
    /\ UNCHANGED <<cache, stored, busy, wanted, unsaved, seen>>

Hears(f) ==
    /\ At(f, "asking")
    /\ call[f].st = "answered"
    /\ call' = [call EXCEPT ![f] = Quiet]
    /\ UNCHANGED <<owner, journal, repo, left, past,
                   stored, busy, wanted, unsaved, seen>>

HearPull(f) ==
    /\ f \in {"periodic", "job"}
    /\ Hears(f)
    /\ IF call[f].ok THEN ReadCheckpoint(f) ELSE Rests(f) /\ UNCHANGED cache

(* Edited entities are exported into the checkout, and a commit scheduled. *)
EditsArrive ==
    /\ Ready
    /\ Spend("edits")
    /\ repo' = [repo EXCEPT !.dirty = TRUE]
    /\ unsaved' = TRUE
    /\ UNCHANGED <<owner, journal, call, past,
                   flow, cache, stored, busy, wanted, seen>>

AskSave ==
    /\ unsaved
    /\ unsaved' = FALSE
    /\ At("save", "idle")
    /\ UNCHANGED left
    /\ Ask("save", "commit-and-push")
    /\ Goes("save", "asking")
    /\ UNCHANGED <<cache, stored, busy, wanted, seen>>

HearSave ==
    /\ Hears("save")
    /\ UNCHANGED cache
    /\ IF call["save"].ok /\ call["save"].head > 0
       THEN flow' = [flow EXCEPT !["save"].pc = "checkpoint",
                                 !["save"].head = call["save"].head]
       ELSE Rests("save")
-----------------------------------------------------------------------------
(* Startup: reconcile what the last owner left, initialise, pull, import   *)
(* everything, and take the head as the checkpoint.                        *)

StartupOnly == UNCHANGED <<brokerVars, busy, wanted, unsaved>>

Attach ==
    /\ At("startup", "attach")
    /\ Serving
    /\ IF owner.admits
       THEN Goes("startup", "initialize") /\ UNCHANGED cache
       ELSE ReadCheckpoint("startup")
    /\ StartupOnly
    /\ UNCHANGED <<stored, seen>>

(* Initialising is a mutation: it needs an owner that admits. *)
Initialize ==
    /\ At("startup", "initialize")
    /\ Serving /\ owner.admits
    /\ Goes("startup", "pull")
    /\ StartupOnly
    /\ UNCHANGED <<cache, stored, seen>>

InitializeFails ==
    /\ At("startup", "initialize")
    /\ ~(Serving /\ owner.admits)
    /\ RuntimeRestarts
    /\ UNCHANGED left

AskInitialPull ==
    /\ At("startup", "pull")
    /\ UNCHANGED left
    /\ Ask("startup", "pull")
    /\ Goes("startup", "asking")
    /\ UNCHANGED <<cache, stored, busy, wanted, unsaved, seen>>

(* A failed initial pull is reported and the Brain starts all the same. *)
HearInitialPull ==
    /\ Hears("startup")
    /\ UNCHANGED cache
    /\ IF call["startup"].ok THEN Goes("startup", "import") ELSE Rests("startup")

ImportEverything ==
    /\ At("startup", "import")
    /\ Goes("startup", "capture")
    /\ seen' = [seen EXCEPT !.delivered = @ \cup Brought(0, repo.head)]
    /\ StartupOnly
    /\ UNCHANGED <<cache, stored>>

CaptureCurrent ==
    /\ At("startup", "capture")
    /\ IF Serving
       THEN /\ cache' = [cache EXCEPT !["web"] = [loaded |-> TRUE, at |-> repo.head]]
            /\ stored' = repo.head
       ELSE UNCHANGED <<cache, stored>>
    /\ Rests("startup")
    /\ StartupOnly
    /\ UNCHANGED seen
-----------------------------------------------------------------------------
Replay(f) ==
    \/ ReadDelta(f)
    \/ LosesTheRead(f)
    \/ FinishBatch(f)
    \/ SaveCheckpoint(f)
    \/ Opens(f)

Startup ==
    \/ Attach
    \/ Initialize
    \/ InitializeFails
    \/ AskInitialPull
    \/ HearInitialPull
    \/ ImportEverything
    \/ CaptureCurrent

OwnerStarts == (OwnerRotates \/ OwnerWrites \/ OwnerListens) /\ UNCHANGED roleVars
Broker(c) == BrokerServes(c) /\ UNCHANGED roleVars

Next ==
    \/ \E f \in Flows : Replay(f) \/ BatchFails(f)
    \/ \E r \in Recoveries : BeginReplay(r)
    \/ \E f \in {"periodic", "job"} : AskPull(f) \/ HearPull(f)
    \/ AskSave
    \/ HearSave
    \/ EditsArrive
    \/ Startup
    \/ RuntimeDies
    \/ WorkerDies
    \/ LosesOwner
    \/ OwnerStarts
    \/ StartCrashes /\ UNCHANGED roleVars
    \/ RemoteAdvances /\ UNCHANGED roleVars
    \/ \E c \in Slots : Broker(c) \/ (RecordFails(c) /\ UNCHANGED roleVars)

Init ==
    /\ BrokerInit
    /\ flow = [f \in Flows |-> IF f = "startup" THEN [Resting EXCEPT !.pc = "attach"]
                                                ELSE Resting]
    /\ cache = [p \in Processes |-> Unloaded]
    /\ stored = 0
    /\ busy = [p \in Processes |-> FALSE]
    /\ wanted = FALSE
    /\ unsaved = FALSE
    /\ seen = [delivered |-> {}, looked |-> 0, overtaken |-> 0]

(* The supervisor brings an owner back, the event loops run what is        *)
(* scheduled, and the periodic cycle keeps coming; nothing obliges a sync  *)
(* to be requested, an entity to be edited or anything to fail.            *)
Fairness ==
    /\ WF_vars(OwnerStarts)
    /\ WF_vars(Startup)
    /\ \A f \in Flows : WF_vars(Replay(f))
    /\ \A r \in Recoveries : WF_vars(BeginReplay(r))
    /\ WF_vars(AskPull("periodic"))
    /\ \A f \in {"periodic", "job"} : WF_vars(HearPull(f))
    /\ WF_vars(AskSave) /\ WF_vars(HearSave)
    /\ \A c \in Slots : WF_vars(Broker(c))

ReconciliationSpec == Init /\ [][Next]_vars
FairReconciliation == ReconciliationSpec /\ Fairness
-----------------------------------------------------------------------------
(* The hand-over of a pull: whatever checkpoint a process would derive the *)
(* next delta from, the stored one or the one it has in memory, everything *)
(* the remote brought before it was queued for import, through crashes of  *)
(* any process at any step and with both processes moving one checkpoint.  *)
(* The commits below a checkpoint that auto-commit set are left out: it    *)
(* moves the checkpoint over what a pull brought and nothing has queued.   *)
CheckpointCovered ==
    \A at \in {stored} \cup {cache[p].at : p \in Processes} :
       Brought(seen.overtaken, at) \subseteq seen.delivered

(* An owner that replaced another changes nothing before a role has        *)
(* compared the checkout it took over with the checkpoint: what the lost   *)
(* owner may have done without an answer has been looked for.  Left out    *)
(* are an owner whose predecessor's record was lost in the middle of its   *)
(* rotation, and one that was opened by a replay of an earlier owner: both *)
(* may change the checkout first.                                          *)
ReplayBeforeMutation ==
    Serving /\ owner.admits /\ ~past.lost /\ ~past.strayed => seen.looked >= past.from

(* An operation that was cut short, whether or not it changed anything, is *)
(* among those the next owner reports as ambiguous: whichever processes    *)
(* and records fail before, none is settled in the journal too early, and  *)
(* none is forgotten with the client that asked for it.  Left out is an    *)
(* owner before which another died while it was starting, between moving   *)
(* the record aside and its first answer.                                  *)
LostWorkIsReported ==
    owner.phase # "down" /\ ~past.aside => past.interrupted \subseteq owner.ambiguous

(* An owner is replaced and opened again, whatever dies and in whatever    *)
(* order, unless a record could not be written: then admission stays       *)
(* closed, for no role is told.                                            *)
AdmissionReopens == <>[](Serving /\ (owner.admits \/ owner.failed))

(* What the remote brought into the checkout is queued for import some     *)
(* day, after any crash, or was passed over by auto-commit, or waits for   *)
(* an owner whose record failed.                                           *)
PulledIsDelivered ==
    []<>(Brought(seen.overtaken, repo.head) \subseteq seen.delivered \/ owner.failed)
=============================================================================
