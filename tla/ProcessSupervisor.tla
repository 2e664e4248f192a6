-------------------------- MODULE ProcessSupervisor --------------------------
(***************************************************************************)
(* The parent process of a Brain (brain-cli/src/lib/process-supervisor.ts) *)
(* and the processes it owns: the Git broker, which leads a process group  *)
(* of its own, the web role and the worker role.                           *)
(*                                                                         *)
(* A handler of the parent (a message, a timer, a close event, a signal)   *)
(* runs to its end before the next one.  Processes hang, exit and die by   *)
(* themselves; a close event and a message reach the parent later.  Timers *)
(* have no clock: one that is armed may fire at any moment.                *)
(***************************************************************************)
EXTENDS Integers, FiniteSets

CONSTANTS
    Pids,             \* process ids the kernel gives to brokers
    NoOwner,          \* a Brain without Git has no broker
    ProbeAttempts,    \* brokerGroupProbeAttempts
    RestartBudget,    \* workerRestartBudget
    MaxFaults         \* bound on what goes wrong by itself

ASSUME SupervisorConstants ==
    /\ ProbeAttempts \in Nat \ {0}
    /\ RestartBudget \in Nat \ {0}
    /\ MaxFaults \in Nat
    /\ NoOwner \notin Pids

VARIABLES
    broker,           \* the ManagedChild of the broker
    child,            \* child[r]: the ManagedChild of a role, and its process
    group,            \* group[p]: the members of process group p
    run,              \* flags, timers and counters of the supervisor
    escalations,      \* armed timers that will SIGKILL a broker's group
    handle,           \* brokerEscalation: the one that can still be cancelled
    probe,            \* attempts made to find the old group absent, or NoProbe
    faults            \* what went wrong so far

svars == <<broker, child, group, run, escalations, handle, probe, faults>>

-----------------------------------------------------------------------------
Roles == {"web", "worker"}
NoTimer == 0
NoProbe == 0

\* kill: a SIGKILL is on its way; term: it was asked to stop.
NoGroup == [leader |-> "none", git |-> FALSE, term |-> FALSE, kill |-> FALSE]
Populated(p) == group[p].leader # "none" \/ group[p].git

\* blamed: it was failed or missed its startup deadline (kept for the
\* properties).
NewBroker(p) ==
    [pid |-> p, ready |-> FALSE, closed |-> FALSE,
     watch |-> FALSE, blamed |-> FALSE]

NotSpawned == [proc |-> "none", ready |-> FALSE, closed |-> FALSE, kill |-> FALSE]
Spawned == [NotSpawned EXCEPT !.proc = "ok"]

Open(c) == c.proc # "none" /\ ~c.closed
RolesGone(c) == \A r \in Roles : ~Open(c[r])
OwnerOpen(b) == ~b.closed

Join(g, p) == [g EXCEPT ![p] = [NoGroup EXCEPT !.leader = "ok"]]
SignalGroup(g, p, signal) ==
    IF Populated(p) THEN [g EXCEPT ![p][signal] = TRUE] ELSE g
Killed(c) == [c EXCEPT !.kill = (c.proc \in {"ok", "hung"})]
Without(g) == IF g.leader = "none" /\ ~g.git THEN NoGroup ELSE g

\* A process that is fine goes wrong only at the cost of a fault.
Costs(unprovoked) ==
    /\ unprovoked => faults < MaxFaults
    /\ faults' = IF unprovoked THEN faults + 1 ELSE faults

Running == ~run.stopping /\ ~run.ended /\ ~run.settled

IgnoresOwnerSlip(r, b, c) ==
    [r EXCEPT !.settled = @ \/ (RolesGone(c) /\ (r.ended \/ r.stopping))]

MaybeFinish(r, b, c) ==
    [r EXCEPT !.settled = @ \/ (/\ RolesGone(c)
                                /\ ~OwnerOpen(b)
                                /\ r.ended \/ r.stopping)]

Stopped(r) ==
    [r EXCEPT !.stopping = TRUE, !.restart = FALSE,
              !.force = IF @ = "unset" THEN "armed" ELSE @]

SignalsAtOnceSlip(b, c) ==
    group' = IF b.pid # NoOwner THEN SignalGroup(group, b.pid, "term") ELSE group

\* The owner is asked to stop once no role is left.
StopBrokerWhenRolesAreGone(b, c) ==
    group' = IF RolesGone(c) /\ b.pid # NoOwner
             THEN SignalGroup(group, b.pid, "term") ELSE group

\* requestChildrenShutdown and maybeFinish, on the records as the handler has
\* left them.  Every open role gets its SIGTERM: from here on it may exit.
RequestShutdown(b, c, r) ==
    /\ broker' = b
    /\ child' = c
    /\ StopBrokerWhenRolesAreGone(b, c)
    /\ run' = MaybeFinish(Stopped(r), b, c)

-----------------------------------------------------------------------------
(* The owner of the checkout.                                              *)

FreePids == {p \in Pids : ~Populated(p)}

\* spawnChild("git-broker"); its pid is free because its group is empty.
SpawnBroker ==
    \E p \in FreePids :
        /\ broker' = NewBroker(p)
        /\ group' = Join(group, p)

\* "broker-ready": the roles may start; those that outlived the owner stay.
BrokerReady ==
    /\ OwnerOpen(broker) /\ ~broker.ready
    /\ broker' = [broker EXCEPT !.ready = TRUE, !.watch = ~run.stopping]
    /\ child' = IF child["web"].proc = "none" /\ Running
                THEN [child EXCEPT !["web"] = Spawned] ELSE child
    /\ UNCHANGED <<group, run, escalations, handle, probe, faults>>

\* failBroker: SIGTERM to the group, and a deadline for it.  The handle of an
\* earlier deadline is overwritten.
FreshTimer ==
    CHOOSE i \in 1..(Cardinality(escalations) + 1) : \A e \in escalations : e.id # i

NoDeadlineSlip ==
    /\ broker' = [broker EXCEPT !.watch = FALSE, !.blamed = TRUE]
    /\ group' = SignalGroup(group, broker.pid, "term")
    /\ UNCHANGED <<escalations, handle>>

FailBroker ==
    /\ broker' = [broker EXCEPT !.watch = FALSE, !.blamed = TRUE]
    /\ group' = SignalGroup(group, broker.pid, "term")
    /\ escalations' = escalations \cup
           {[id |-> FreshTimer, pid |-> broker.pid]}
    /\ handle' = FreshTimer

\* A heartbeat; one that was sent before the owner hung, heeded its SIGTERM or
\* exited is late.
BrokerBeat ==
    /\ OwnerOpen(broker) /\ broker.ready
    /\ Costs(group[broker.pid].leader # "ok" \/ group[broker.pid].term)
    /\ broker' = [broker EXCEPT !.watch = ~run.stopping \/ @]
    /\ UNCHANGED <<child, group, run, escalations, handle, probe>>

\* A heartbeat that reports a request without progress.
StaleBeat ==
    /\ OwnerOpen(broker) /\ broker.ready
    /\ Costs(TRUE)
    /\ FailBroker
    /\ UNCHANGED <<child, run, probe>>

\* The watchdog: three heartbeats were missed.
BrokerSilent ==
    /\ OwnerOpen(broker) /\ broker.watch /\ ~run.stopping
    /\ Costs(group[broker.pid].leader # "hung")
    /\ FailBroker
    /\ UNCHANGED <<child, run, probe>>

KeepsHandleSlip(e) ==
    /\ escalations' = escalations \ {e}
    /\ group' = SignalGroup(group, e.pid, "kill")
    /\ UNCHANGED <<broker, child, run, handle, probe, faults>>

EscalationFires(e) ==
    /\ escalations' = escalations \ {e}
    /\ handle' = NoTimer
    /\ group' = SignalGroup(group, e.pid, "kill")
    /\ UNCHANGED <<broker, child, run, probe, faults>>

BrokerStartupTimeout ==
    /\ OwnerOpen(broker) /\ ~broker.ready /\ ~group[broker.pid].kill
    /\ Costs(group[broker.pid].leader = "ok")
    /\ broker' = [broker EXCEPT !.blamed = TRUE]
    /\ group' = SignalGroup(group, broker.pid, "kill")
    /\ UNCHANGED <<child, run, escalations, handle, probe>>

\* replaceBrokerWhenGroupIsGone, called with the number of this attempt.
LeaderIsAbsentSlip(p) == group[p].leader = "none"
GroupIsAbsent(p) == ~Populated(p)

Probe(b, attempt) ==
    \/ /\ GroupIsAbsent(b.pid)
       /\ escalations' = {e \in escalations : e.id # handle}
       /\ handle' = NoTimer
       /\ probe' = NoProbe
       /\ SpawnBroker
       /\ UNCHANGED <<child, run>>
    \/ /\ ~GroupIsAbsent(b.pid) /\ attempt < ProbeAttempts
       /\ probe' = attempt
       /\ broker' = b
       /\ UNCHANGED <<child, group, run, escalations, handle>>
    \/ /\ ~GroupIsAbsent(b.pid) /\ attempt = ProbeAttempts
       /\ probe' = NoProbe
       /\ RequestShutdown(b, child, [run EXCEPT !.ended = TRUE])
       /\ UNCHANGED <<escalations, handle>>

BrokerCloses ==
    LET b == [broker EXCEPT !.closed = TRUE, !.watch = FALSE] IN
    /\ OwnerOpen(broker) /\ group[broker.pid].leader = "none"
    /\ \/ Running /\ broker.ready /\ Probe(b, 1)
       \/ /\ Running /\ ~broker.ready
          /\ RequestShutdown(b, child, [run EXCEPT !.ended = TRUE])
          /\ UNCHANGED <<escalations, handle, probe>>
       \/ /\ ~Running
          /\ broker' = b
          /\ run' = MaybeFinish(run, b, child)
          /\ UNCHANGED <<child, group, escalations, handle, probe>>
    /\ UNCHANGED faults

ProbeAgain ==
    /\ probe # NoProbe
    /\ \/ Running /\ Probe(broker, probe + 1)
       \/ /\ ~Running
          /\ probe' = NoProbe
          /\ UNCHANGED <<broker, child, group, run, escalations, handle>>
    /\ UNCHANGED faults

-----------------------------------------------------------------------------
(* The roles.                                                              *)

\* scheduleWorker.  Attempts older than the window, the first `aged` ones, are
\* forgotten.  Only a first start does not wait: an exit counts as a failure before
\* it schedules the next start, and a worker that gets ready only makes the next
\* wait short again.
ScheduleWorker(c, r) ==
    IF ~Running \/ ~c["web"].ready \/ c["web"].closed \/ Open(c["worker"]) \/ r.restart
    THEN /\ child' = c
         /\ run' = r
         /\ UNCHANGED <<broker, group>>
    ELSE \E aged \in 0..r.attempts :
            LET left == [r EXCEPT !.attempts = @ - aged] IN
            \/ /\ left.attempts = RestartBudget
               /\ RequestShutdown(broker, c, [left EXCEPT !.ended = TRUE])
            \/ /\ left.attempts < RestartBudget /\ ~r.failing
               /\ child' = [c EXCEPT !["worker"] = Spawned]
               /\ run' = [left EXCEPT !.attempts = @ + 1]
               /\ UNCHANGED <<broker, group>>
            \/ /\ left.attempts < RestartBudget /\ r.failing
               /\ child' = c
               /\ run' = [left EXCEPT !.restart = TRUE]
               /\ UNCHANGED <<broker, group>>

WorkerRestarts ==
    /\ run.restart
    /\ run' = [run EXCEPT !.restart = FALSE,
                          !.attempts = IF Running THEN @ + 1 ELSE @]
    /\ child' = IF Running THEN [child EXCEPT !["worker"] = Spawned] ELSE child
    /\ UNCHANGED <<broker, group, escalations, handle, probe, faults>>

WebReady ==
    /\ Open(child["web"]) /\ ~child["web"].ready
    /\ ScheduleWorker([child EXCEPT !["web"].ready = TRUE], run)
    /\ UNCHANGED <<escalations, handle, probe, faults>>

WorkerReady ==
    /\ Open(child["worker"]) /\ ~child["worker"].ready
    /\ child' = [child EXCEPT !["worker"].ready = TRUE]
    /\ run' = [run EXCEPT !.failing = FALSE]
    /\ UNCHANGED <<broker, group, escalations, handle, probe, faults>>

StartupTimeout(r) ==
    /\ Open(child[r]) /\ ~child[r].ready /\ ~child[r].kill
    /\ Costs(child[r].proc = "ok")
    /\ child' = [child EXCEPT ![r] = Killed(@)]
    /\ UNCHANGED <<broker, group, run, escalations, handle, probe>>

WorkerSilent ==
    /\ Open(child["worker"]) /\ child["worker"].ready
    /\ ~child["worker"].kill /\ ~run.stopping
    /\ Costs(child["worker"].proc = "ok")
    /\ child' = [child EXCEPT !["worker"] = Killed(@)]
    /\ UNCHANGED <<broker, group, run, escalations, handle, probe>>

WebCloses ==
    LET c == [child EXCEPT !["web"].closed = TRUE] IN
    /\ Open(child["web"]) /\ child["web"].proc = "dead"
    /\ \/ /\ ~run.stopping
          /\ RequestShutdown(broker, c, [run EXCEPT !.ended = TRUE])
       \/ /\ run.stopping
          /\ child' = c
          /\ StopBrokerWhenRolesAreGone(broker, c)
          /\ run' = MaybeFinish(run, broker, c)
          /\ UNCHANGED broker
    /\ UNCHANGED <<escalations, handle, probe, faults>>

WorkerCloses ==
    LET c == [child EXCEPT !["worker"].closed = TRUE] IN
    /\ Open(child["worker"]) /\ child["worker"].proc = "dead"
    /\ \/ /\ Running
          /\ ScheduleWorker(c, [run EXCEPT !.failing = TRUE])
       \/ /\ ~Running
          /\ child' = c
          /\ StopBrokerWhenRolesAreGone(broker, c)
          /\ run' = MaybeFinish(run, broker, c)
          /\ UNCHANGED broker
    /\ UNCHANGED <<escalations, handle, probe, faults>>

-----------------------------------------------------------------------------
(* Shutdown.                                                               *)

\* requestParentShutdown: SIGINT, SIGTERM or the exit of the parent.
ParentSignal ==
    /\ ~run.settled /\ ~run.stopping
    /\ RequestShutdown(broker, child, run)
    /\ UNCHANGED <<escalations, handle, probe, faults>>

SparesOwnerSlip ==
    /\ run.force = "armed" /\ ~run.settled
    /\ run' = [run EXCEPT !.force = "fired"]
    /\ child' = [r \in Roles |-> IF Open(child[r]) THEN Killed(child[r]) ELSE child[r]]
    /\ UNCHANGED <<broker, group, escalations, handle, probe, faults>>

ForceKill ==
    /\ run.force = "armed" /\ ~run.settled
    /\ run' = [run EXCEPT !.force = "fired"]
    /\ child' = [r \in Roles |-> IF Open(child[r]) THEN Killed(child[r]) ELSE child[r]]
    /\ group' = IF broker.pid # NoOwner /\ Populated(broker.pid)
                THEN [group EXCEPT ![broker.pid] = [@ EXCEPT !.term = TRUE, !.kill = TRUE]]
                ELSE group
    /\ UNCHANGED <<broker, escalations, handle, probe, faults>>

-----------------------------------------------------------------------------
(* The processes.                                                          *)

RoleHangs(r) ==
    /\ child[r].proc = "ok"
    /\ Costs(TRUE)
    /\ child' = [child EXCEPT ![r].proc = "hung"]
    /\ UNCHANGED <<broker, group, run, escalations, handle, probe>>

RoleExits(r) ==
    /\ child[r].proc \in {"ok", "hung"}
    /\ child[r].proc = "hung" => child[r].kill \/ run.stopping
    /\ Costs(~child[r].kill /\ ~run.stopping)
    /\ child' = [child EXCEPT ![r].proc = "dead", ![r].kill = FALSE]
    /\ UNCHANGED <<broker, group, run, escalations, handle, probe>>

OwnerHangs(p) ==
    /\ group[p].leader = "ok"
    /\ Costs(TRUE)
    /\ group' = [group EXCEPT ![p].leader = "hung"]
    /\ UNCHANGED <<broker, child, run, escalations, handle, probe>>

OwnerWakes(p) ==
    /\ group[p].leader = "hung"
    /\ group' = [group EXCEPT ![p].leader = "ok"]
    /\ UNCHANGED <<broker, child, run, escalations, handle, probe, faults>>

\* The leader exits; a Git child may survive it.
OwnerExits(p) ==
    /\ group[p].leader # "none"
    /\ group[p].leader = "hung" => group[p].kill
    /\ Costs(~group[p].kill /\ ~group[p].term)
    /\ group' = [group EXCEPT ![p] = Without([@ EXCEPT !.leader = "none"])]
    /\ UNCHANGED <<broker, child, run, escalations, handle, probe>>

GitStarts(p) ==
    /\ group[p].leader = "ok" /\ ~group[p].git /\ ~group[p].kill
    /\ group' = [group EXCEPT ![p].git = TRUE]
    /\ UNCHANGED <<broker, child, run, escalations, handle, probe, faults>>

GitEnds(p) ==
    /\ group[p].git
    /\ group' = [group EXCEPT ![p] = Without([@ EXCEPT !.git = FALSE])]
    /\ UNCHANGED <<broker, child, run, escalations, handle, probe, faults>>

-----------------------------------------------------------------------------
\* A Brain with Git starts the owner first, one without starts web at once.
SupervisorInit ==
    /\ \/ \E p \in Pids :
             /\ broker = NewBroker(p)
             /\ group = [q \in Pids |-> IF q = p THEN [NoGroup EXCEPT !.leader = "ok"]
                                        ELSE NoGroup]
             /\ child = [r \in Roles |-> NotSpawned]
       \/ /\ broker = [NewBroker(NoOwner) EXCEPT !.closed = TRUE]
          /\ group = [q \in Pids |-> NoGroup]
          /\ child = [r \in Roles |-> IF r = "web" THEN Spawned ELSE NotSpawned]
    /\ run = [stopping |-> FALSE, ended |-> FALSE, settled |-> FALSE, restart |-> FALSE,
              failing |-> FALSE, attempts |-> 0, force |-> "unset"]
    /\ escalations = {}
    /\ handle = NoTimer
    /\ probe = NoProbe
    /\ faults = 0

SupervisorNext ==
    \/ BrokerReady \/ BrokerBeat \/ StaleBeat \/ BrokerSilent
    \/ \E e \in escalations : EscalationFires(e)
    \/ BrokerStartupTimeout \/ BrokerCloses \/ ProbeAgain
    \/ WorkerRestarts \/ WebReady \/ WorkerReady \/ WorkerSilent
    \/ \E r \in Roles : StartupTimeout(r) \/ RoleHangs(r) \/ RoleExits(r)
    \/ WebCloses \/ WorkerCloses
    \/ ParentSignal \/ ForceKill
    \/ \E p \in Pids : \/ OwnerHangs(p) \/ OwnerWakes(p) \/ OwnerExits(p)
                       \/ GitStarts(p) \/ GitEnds(p)

SupervisorSpec == SupervisorInit /\ [][SupervisorNext]_svars

\* Timers fire and events are delivered; what is killed dies; a process that
\* runs gets ready unless it hangs.  Nothing makes a process hang, exit, heed a
\* SIGTERM or end its Git command, and nothing makes a healthy process silent.
OwnerFairness ==
    /\ WF_svars(BrokerReady /\ group[broker.pid].leader = "ok")
    /\ WF_svars(BrokerSilent /\ group[broker.pid].leader = "hung")
    /\ WF_svars(BrokerStartupTimeout /\ group[broker.pid].leader = "hung")
    /\ WF_svars(\E e \in escalations : EscalationFires(e))
    /\ WF_svars(BrokerCloses)
    /\ WF_svars(ProbeAgain)
    /\ \A p \in Pids : /\ WF_svars(group[p].kill /\ OwnerExits(p))
                       /\ WF_svars(group[p].kill /\ GitEnds(p))

RoleFairness ==
    /\ WF_svars(WebReady /\ child["web"].proc = "ok")
    /\ WF_svars(WorkerReady /\ child["worker"].proc = "ok")
    /\ WF_svars(WorkerSilent /\ child["worker"].proc = "hung")
    /\ \A r \in Roles : /\ WF_svars(child[r].proc = "hung" /\ StartupTimeout(r))
                        /\ WF_svars(child[r].kill /\ RoleExits(r))
    /\ WF_svars(WorkerRestarts) /\ WF_svars(WebCloses) /\ WF_svars(WorkerCloses)
    /\ WF_svars(ForceKill)

FairSupervisorSpec == SupervisorSpec /\ OwnerFairness /\ RoleFairness

-----------------------------------------------------------------------------
SupervisorTypeOK ==
    /\ broker \in [pid : Pids \cup {NoOwner}, ready : BOOLEAN, closed : BOOLEAN,
                   watch : BOOLEAN, blamed : BOOLEAN]
    /\ child \in [Roles -> [proc : {"none", "ok", "hung", "dead"}, ready : BOOLEAN,
                            closed : BOOLEAN, kill : BOOLEAN]]
    /\ group \in [Pids -> [leader : {"none", "ok", "hung"}, git : BOOLEAN,
                           term : BOOLEAN, kill : BOOLEAN]]
    /\ run \in [stopping : BOOLEAN, ended : BOOLEAN, settled : BOOLEAN,
                restart : BOOLEAN, failing : BOOLEAN, attempts : 0..RestartBudget,
                force : {"unset", "armed", "fired"}]
    /\ escalations \subseteq [id : Nat \ {0}, pid : Pids]
    /\ handle = NoTimer \/ \E e \in escalations : e.id = handle
    /\ probe \in NoProbe..(ProbeAttempts - 1)
    /\ faults \in 0..MaxFaults

\* "Starting a second owner beside it would put two writers on one repository":
\* no process of an old owner's group lives when its replacement does.
OneOwner == Cardinality({p \in Pids : Populated(p)}) <= 1

\* "Stop the roles, and only then the owner they were using": an owner that did
\* nothing wrong is not asked to stop while a role runs, unless the grace is over.
OwnerOutlivesRoles ==
    (broker.pid # NoOwner /\ group[broker.pid].term)
        => \/ broker.blamed
           \/ run.force = "fired"
           \/ \A r \in Roles : child[r].proc \in {"none", "dead"}

\* When the supervisor reports the runtime's outcome, no process that it started
\* runs; only a Git child of a lost owner can be left.
SettledMeansReaped ==
    run.settled => /\ \A r \in Roles : child[r].proc \in {"none", "dead"}
                   /\ \A p \in Pids : group[p].leader = "none"

\* A shutdown ends, whatever hangs.
ShutdownEnds == run.stopping ~> run.settled

\* A worker that exited or hung is replaced by one that gets ready, and an owner
\* that was ready is replaced by one that answers, or answers again itself; else
\* the runtime ends.
LostChildReplaced ==
    /\ (Open(child["worker"]) /\ child["worker"].proc # "ok")
          ~> \/ Open(child["worker"]) /\ child["worker"].ready /\ child["worker"].proc = "ok"
             \/ run.settled
    /\ (broker.ready /\ group[broker.pid].leader # "ok")
          ~> (broker.ready /\ group[broker.pid].leader = "ok") \/ run.settled

\* "A signal arriving then would kill the very owner it was meant to protect" (the
\* comment at process-supervisor.ts:434): an owner that is not blamed for anything
\* is not killed while the runtime goes on.
BlamelessOwnerSpared ==
    (OwnerOpen(broker) /\ group[broker.pid].kill) => broker.blamed \/ run.force = "fired"

=============================================================================
