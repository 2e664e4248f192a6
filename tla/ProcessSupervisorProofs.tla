----------------------- MODULE ProcessSupervisorProofs -----------------------
(* Theorems about ProcessSupervisor, for any process ids and any number of   *)
(* probes, restarts and faults.                                              *)
EXTENDS ProcessSupervisor, FiniteSetTheorems, TLAPS

-----------------------------------------------------------------------------
(* The inductive invariant.  Its parts are stated of any records, for a      *)
(* handler passes on records that it has changed before it stores them.      *)

BrokerRecord == [pid : Pids \cup {NoOwner}, ready : BOOLEAN, closed : BOOLEAN,
                 watch : BOOLEAN, blamed : BOOLEAN]
ChildRecord == [proc : {"none", "ok", "hung", "dead"}, ready : BOOLEAN,
                closed : BOOLEAN, kill : BOOLEAN]
GroupRecord == [leader : {"none", "ok", "hung"}, git : BOOLEAN,
                term : BOOLEAN, kill : BOOLEAN]
RunRecord == [stopping : BOOLEAN, ended : BOOLEAN, settled : BOOLEAN,
              restart : BOOLEAN, failing : BOOLEAN, attempts : 0..RestartBudget,
              force : {"unset", "armed", "fired"}]

Records(b, c, g, r) ==
    /\ b \in BrokerRecord
    /\ c \in [Roles -> ChildRecord]
    /\ g \in [Pids -> GroupRecord]
    /\ r \in RunRecord

Members(g, p) == g[p].leader # "none" \/ g[p].git

\* Only the group of the present owner has members, only an owner that was started
\* is open, and an owner or a role that has closed has no process.
Owned(b, c, g) ==
    /\ \A p \in Pids : Members(g, p) => p = b.pid
    /\ b.pid \notin Pids => b.closed
    /\ b.closed => \A p \in Pids : g[p].leader = "none"
    /\ \A x \in Roles : c[x].closed => c[x].proc = "dead"

\* An owner that did nothing wrong was asked to stop when the roles were gone, and
\* in a shutdown, which starts none.
Ordered(b, c, g, r) ==
    (b.pid \in Pids /\ g[b.pid].term)
        => b.blamed \/ r.force = "fired" \/ (r.stopping /\ RolesGone(c))

\* What the outcome and a restart that is due say of the rest.
Reaped(b, c, r) == r.settled => RolesGone(c) /\ ~OwnerOpen(b)
Ending(r) == r.ended \/ r.settled => r.stopping
Due(r) == r.restart => r.attempts < RestartBudget

Core(b, c, g, r) ==
    Records(b, c, g, r) /\ Owned(b, c, g) /\ Ordered(b, c, g, r) /\ Reaped(b, c, r)

State == Core(broker, child, group, run) /\ Ending(run) /\ Due(run)

Deadlines ==
    /\ escalations \subseteq [id : Nat \ {0}, pid : Pids]
    /\ IsFiniteSet(escalations)
    /\ handle = NoTimer \/ \E e \in escalations : e.id = handle

Counted == probe \in NoProbe..(ProbeAttempts - 1) /\ faults \in 0..MaxFaults

Inv == State /\ Deadlines /\ Counted

-----------------------------------------------------------------------------
(* What the invariant gives.                                                 *)

LEMMA InvGivesTypes == Inv => SupervisorTypeOK
BY DEF Inv, State, Core, Records, Deadlines, Counted, SupervisorTypeOK, BrokerRecord,
       ChildRecord, GroupRecord, RunRecord

LEMMA InvGivesOneOwner == Inv => OneOwner
<1> SUFFICES ASSUME Inv PROVE OneOwner
  OBVIOUS
<1> DEFINE living == {p \in Pids : Populated(p)}
<1>1. living \subseteq {broker.pid}
  BY DEF Inv, State, Core, Owned, Populated, Members
<1>2. IsFiniteSet({broker.pid}) /\ Cardinality({broker.pid}) = 1
  BY FS_Singleton
<1>3. Cardinality(living) <= 1
  BY <1>1, <1>2, FS_Subset
<1> QED
  BY <1>3 DEF OneOwner

LEMMA InvGivesReaped == Inv => SettledMeansReaped
<1> SUFFICES ASSUME Inv, run.settled
             PROVE  /\ \A r \in Roles : child[r].proc \in {"none", "dead"}
                    /\ \A p \in Pids : group[p].leader = "none"
  BY DEF SettledMeansReaped
<1>1. RolesGone(child) /\ broker.closed
  BY DEF Inv, State, Core, Reaped, OwnerOpen, Records, BrokerRecord
<1> QED
  BY <1>1 DEF Inv, State, Core, Owned, RolesGone, Open

LEMMA InvGivesOrder == Inv => OwnerOutlivesRoles
<1> SUFFICES ASSUME Inv, broker.pid # NoOwner, group[broker.pid].term
             PROVE  \/ broker.blamed
                    \/ run.force = "fired"
                    \/ \A r \in Roles : child[r].proc \in {"none", "dead"}
  BY DEF OwnerOutlivesRoles
<1>1. broker.pid \in Pids
  BY DEF Inv, State, Core, Records, BrokerRecord
<1>2. broker.blamed \/ run.force = "fired" \/ RolesGone(child)
  BY <1>1 DEF Inv, State, Core, Ordered
<1>3. \A r \in Roles : child[r].closed => child[r].proc = "dead"
  BY DEF Inv, State, Core, Owned
<1> QED
  BY <1>2, <1>3 DEF RolesGone, Open

-----------------------------------------------------------------------------
(* Init.                                                                     *)

LEMMA InitInv == SupervisorInit => Inv
<1> SUFFICES ASSUME SupervisorInit PROVE Inv
  OBVIOUS
<1> USE SupervisorConstants
<1>1. run \in RunRecord /\ Ending(run) /\ Due(run) /\ ~run.settled /\ ~run.stopping
  BY DEF SupervisorInit, RunRecord, Ending, Due
<1>2. Core(broker, child, group, run)
  <2>1. CASE \E p \in Pids :
               /\ broker = NewBroker(p)
               /\ group = [q \in Pids |-> IF q = p THEN [NoGroup EXCEPT !.leader = "ok"]
                                          ELSE NoGroup]
               /\ child = [r \in Roles |-> NotSpawned]
    <3> PICK p \in Pids :
               /\ broker = NewBroker(p)
               /\ group = [q \in Pids |-> IF q = p THEN [NoGroup EXCEPT !.leader = "ok"]
                                          ELSE NoGroup]
               /\ child = [r \in Roles |-> NotSpawned]
      BY <2>1
    <3>1. broker \in BrokerRecord /\ broker.pid = p /\ ~broker.closed
      BY DEF NewBroker, BrokerRecord
    <3>2. group \in [Pids -> GroupRecord]
      BY DEF NoGroup, GroupRecord
    <3>3. child \in [Roles -> ChildRecord] /\ \A r \in Roles : ~child[r].closed
      BY DEF NotSpawned, ChildRecord
    <3>4. \A q \in Pids : ~group[q].term /\ (q # p => ~Members(group, q))
      BY DEF NoGroup, Members
    <3> QED
      BY <1>1, <3>1, <3>2, <3>3, <3>4 DEF Core, Records, Owned, Ordered, Reaped
  <2>2. CASE /\ broker = [NewBroker(NoOwner) EXCEPT !.closed = TRUE]
             /\ group = [q \in Pids |-> NoGroup]
             /\ child = [r \in Roles |-> IF r = "web" THEN Spawned ELSE NotSpawned]
    <3>1. broker \in BrokerRecord /\ broker.pid \notin Pids /\ broker.closed
      BY <2>2 DEF NewBroker, BrokerRecord
    <3>2. group \in [Pids -> GroupRecord]
      BY <2>2 DEF NoGroup, GroupRecord
    <3>3. child \in [Roles -> ChildRecord] /\ \A r \in Roles : ~child[r].closed
      BY <2>2 DEF NotSpawned, Spawned, ChildRecord
    <3>4. \A q \in Pids : group[q].leader = "none" /\ ~Members(group, q)
      BY <2>2 DEF NoGroup, Members
    <3> QED
      BY <1>1, <3>1, <3>2, <3>3, <3>4 DEF Core, Records, Owned, Ordered, Reaped
  <2> QED
    BY <2>1, <2>2 DEF SupervisorInit
<1>3. Deadlines /\ Counted
  BY FS_EmptySet DEF SupervisorInit, Deadlines, Counted, NoTimer, NoProbe
<1> QED
  BY <1>1, <1>2, <1>3 DEF Inv, State

-----------------------------------------------------------------------------
(* Changes that keep the core.                                               *)

\* No process appears in a group by such a change.
Shrinks(g, h) ==
    \A p \in Pids : /\ h[p].leader # "none" => g[p].leader # "none"
                    /\ Members(h, p) => Members(g, p)

LEMMA GroupKeepsCore ==
    ASSUME NEW b, NEW c, NEW g, NEW r, Core(b, c, g, r),
           NEW h \in [Pids -> GroupRecord], Shrinks(g, h),
           \A p \in Pids : h[p].term => g[p].term
    PROVE  Core(b, c, h, r)
BY DEF Core, Records, Owned, Ordered, Reaped, Shrinks

LEMMA BrokerKeepsCore ==
    ASSUME NEW b, NEW c, NEW g, NEW r, Core(b, c, g, r),
           NEW d \in BrokerRecord, d.pid = b.pid, b.blamed => d.blamed,
           b.closed => d.closed,
           d.closed /\ ~b.closed => g[b.pid].leader = "none"
    PROVE  Core(d, c, g, r)
<1>1. Owned(d, c, g)
  BY DEF Core, Owned, Members, Records, GroupRecord
<1> QED
  BY <1>1 DEF Core, Records, Ordered, Reaped, OwnerOpen, BrokerRecord

LEMMA BlameKeepsCore ==
    ASSUME NEW b, NEW c, NEW g, NEW r, Core(b, c, g, r),
           NEW d \in BrokerRecord, d.pid = b.pid, d.closed = b.closed, d.blamed,
           NEW h \in [Pids -> GroupRecord], Shrinks(g, h)
    PROVE  Core(d, c, h, r)
BY DEF Core, Records, Owned, Ordered, Reaped, Shrinks, OwnerOpen

LEMMA RolesKeepCore ==
    ASSUME NEW b, NEW c, NEW g, NEW r, Core(b, c, g, r),
           NEW d \in [Roles -> ChildRecord],
           \A x \in Roles : /\ Open(d[x]) => Open(c[x])
                            /\ d[x].closed => d[x].proc = "dead"
    PROVE  Core(b, d, g, r)
BY DEF Core, Records, Owned, Ordered, Reaped, RolesGone

LEMMA RunKeepsCore ==
    ASSUME NEW b, NEW c, NEW g, NEW r, Core(b, c, g, r),
           NEW s \in RunRecord, s.settled => r.settled,
           r.stopping => s.stopping, r.force = "fired" => s.force = "fired"
    PROVE  Core(b, c, g, s)
BY DEF Core, Records, Ordered, Reaped

\* A signal leaves the members of every group where they are.
LEMMA SignalShrinks ==
    ASSUME group \in [Pids -> GroupRecord], NEW p \in Pids, NEW signal \in {"term", "kill"}
    PROVE  /\ SignalGroup(group, p, signal) \in [Pids -> GroupRecord]
           /\ Shrinks(group, SignalGroup(group, p, signal))
           /\ signal = "kill" =>
                \A q \in Pids : SignalGroup(group, p, signal)[q].term = group[q].term
<1> DEFINE h == SignalGroup(group, p, signal)
<1>1. CASE signal = "term"
  <2> DEFINE m == [group[p] EXCEPT !.term = TRUE]
  <2>1. h = group \/ h = [group EXCEPT ![p] = m]
    BY <1>1 DEF SignalGroup
  <2>2. m \in GroupRecord /\ m.leader = group[p].leader /\ m.git = group[p].git
    BY DEF GroupRecord
  <2> HIDE DEF m
  <2>3. h \in [Pids -> GroupRecord] /\ Shrinks(group, h)
    BY <2>1, <2>2 DEF Shrinks, Members
  <2> QED
    BY <1>1, <2>3
<1>2. CASE signal = "kill"
  <2> DEFINE m == [group[p] EXCEPT !.kill = TRUE]
  <2>1. h = group \/ h = [group EXCEPT ![p] = m]
    BY <1>2 DEF SignalGroup
  <2>2. m \in GroupRecord /\ m.leader = group[p].leader /\ m.git = group[p].git /\ m.term = group[p].term
    BY DEF GroupRecord
  <2> HIDE DEF m
  <2>3. h \in [Pids -> GroupRecord] /\ Shrinks(group, h)
        /\ \A q \in Pids : h[q].term = group[q].term
    BY <2>1, <2>2 DEF Shrinks, Members
  <2> QED
    BY <1>2, <2>3
<1> QED
  BY <1>1, <1>2

\* An open role starts while the runtime runs.
LEMMA SpawnKeepsCore ==
    ASSUME NEW b, NEW c, NEW g, NEW r, Core(b, c, g, r), NEW x \in Roles,
           ~r.stopping, ~r.settled
    PROVE  Core(b, [c EXCEPT ![x] = Spawned], g, r)
<1> DEFINE d == [c EXCEPT ![x] = Spawned]
<1>1. d \in [Roles -> ChildRecord]
  BY DEF Core, Records, Spawned, NotSpawned, ChildRecord
<1>2. \A y \in Roles : d[y].closed => d[y].proc = "dead"
  BY DEF Core, Records, Owned, Spawned, NotSpawned
<1> QED
  BY <1>1, <1>2 DEF Core, Records, Owned, Ordered, Reaped

LEMMA FinishKeepsCore ==
    ASSUME NEW b, NEW c, NEW g, NEW r, Core(b, c, g, r), r.stopping
    PROVE  /\ Core(b, c, g, MaybeFinish(r, b, c))
           /\ Ending(MaybeFinish(r, b, c))
           /\ Due(r) => Due(MaybeFinish(r, b, c))
<1> DEFINE s == MaybeFinish(r, b, c)
<1>1. s \in RunRecord
  BY DEF Core, Records, MaybeFinish, RunRecord
<1>2. /\ s.stopping /\ s.force = r.force /\ s.restart = r.restart
      /\ s.attempts = r.attempts
      /\ s.settled => r.settled \/ (RolesGone(c) /\ ~OwnerOpen(b))
  BY DEF Core, Records, MaybeFinish, RunRecord
<1> QED
  BY <1>1, <1>2 DEF Core, Records, Ordered, Reaped, Ending, Due

LEMMA StopKeepsCore ==
    ASSUME NEW b, NEW c, NEW r, Core(b, c, group, r), r.stopping,
           StopBrokerWhenRolesAreGone(b, c)
    PROVE  Core(b, c, group', r)
<1>1. CASE RolesGone(c) /\ b.pid # NoOwner
  <2>1. b.pid \in Pids /\ group \in [Pids -> GroupRecord]
    BY <1>1 DEF Core, Records, BrokerRecord
  <2>2. group' \in [Pids -> GroupRecord] /\ Shrinks(group, group')
    BY <1>1, <2>1, SignalShrinks DEF StopBrokerWhenRolesAreGone
  <2> QED
    BY <1>1, <2>1, <2>2 DEF Core, Records, Owned, Ordered, Reaped, Shrinks
<1>2. CASE ~(RolesGone(c) /\ b.pid # NoOwner)
  BY <1>2 DEF StopBrokerWhenRolesAreGone
<1> QED
  BY <1>1, <1>2

LEMMA ShutdownKeepsState ==
    ASSUME NEW b, NEW c, NEW r, Core(b, c, group, r), RequestShutdown(b, c, r)
    PROVE  State'
<1> DEFINE s == Stopped(r)
<1>1. s \in RunRecord
  BY DEF Core, Records, Stopped, RunRecord
<1>2. /\ s.stopping /\ ~s.restart /\ s.settled = r.settled
      /\ r.force = "fired" => s.force = "fired"
  BY DEF Core, Records, Stopped, RunRecord
<1>3. Core(b, c, group, s) /\ Due(s)
  BY <1>1, <1>2, RunKeepsCore DEF Due
<1>4. Core(b, c, group', s)
  BY <1>2, <1>3, StopKeepsCore DEF RequestShutdown
<1>5. Core(b, c, group', MaybeFinish(s, b, c)) /\ Ending(MaybeFinish(s, b, c))
      /\ Due(MaybeFinish(s, b, c))
  BY <1>2, <1>3, <1>4, FinishKeepsCore
<1>6. broker' = b /\ child' = c /\ run' = MaybeFinish(s, b, c)
  BY DEF RequestShutdown
<1> QED
  BY <1>5, <1>6 DEF State

-----------------------------------------------------------------------------
(* The deadlines of an owner.                                                *)

\* There are fewer armed timers than candidates.
LEMMA FreshTimerExists ==
    ASSUME Deadlines
    PROVE  FreshTimer \in Nat \ {0}
<1> DEFINE n == Cardinality(escalations)
           ids == {e.id : e \in escalations}
           f == [e \in escalations |-> e.id]
<1>1. n \in Nat
  BY FS_CardinalityType DEF Deadlines
<1>2. f \in Surjection(escalations, ids)
  BY DEF Surjection
<1>3. IsFiniteSet(ids) /\ Cardinality(ids) <= n
  BY <1>2, FS_Surjection DEF Deadlines
<1>4. Cardinality(ids) \in Nat
  BY <1>3, FS_CardinalityType
<1>5. Cardinality(1..(n + 1)) = n + 1
  BY <1>1, FS_Interval
<1>6. ~(1..(n + 1) \subseteq ids)
  <2> SUFFICES ASSUME 1..(n + 1) \subseteq ids PROVE FALSE
    OBVIOUS
  <2>1. Cardinality(1..(n + 1)) <= Cardinality(ids)
    BY <1>3, FS_Subset
  <2> QED
    BY <1>1, <1>3, <1>4, <1>5, <2>1
<1>7. \E i \in 1..(n + 1) : \A e \in escalations : e.id # i
  BY <1>6
<1>8. FreshTimer \in 1..(n + 1)
  BY <1>7 DEF FreshTimer
<1> QED
  BY <1>1, <1>8

LEMMA FailBrokerKeeps ==
    ASSUME State, Deadlines, OwnerOpen(broker), FailBroker, UNCHANGED <<child, run>>
    PROVE  State' /\ Deadlines'
<1>1. /\ broker \in BrokerRecord /\ group \in [Pids -> GroupRecord] /\ broker.pid \in Pids
      /\ ~broker.closed
  BY DEF State, Core, Records, Owned, OwnerOpen, BrokerRecord
<1>2. broker' \in BrokerRecord /\ broker'.pid = broker.pid
      /\ broker'.closed = broker.closed /\ broker'.blamed
  BY <1>1 DEF FailBroker, BrokerRecord
<1>3. group' \in [Pids -> GroupRecord] /\ Shrinks(group, group')
  BY <1>1, SignalShrinks DEF FailBroker
<1>4. Core(broker', child, group', run)
  BY <1>2, <1>3, BlameKeepsCore DEF State
<1>5. State'
  BY <1>4 DEF State
<1>6. FreshTimer \in Nat \ {0}
  BY FreshTimerExists
<1> DEFINE e == [id |-> FreshTimer, pid |-> broker.pid]
<1>7. e \in [id : Nat \ {0}, pid : Pids] /\ e.id = FreshTimer
  BY <1>1, <1>6
<1>8. escalations' = escalations \cup {e} /\ handle' = e.id
  BY <1>7 DEF FailBroker
<1> HIDE DEF e
<1>9. IsFiniteSet(escalations')
  BY <1>8, FS_AddElement DEF Deadlines
<1>10. Deadlines'
  BY <1>7, <1>8, <1>9 DEF Deadlines
<1> QED
  BY <1>5, <1>10

-----------------------------------------------------------------------------
(* The replacement of an owner.                                              *)

LEMMA SpawnBrokerKeepsState ==
    ASSUME State, Running, \A p \in Pids : ~Members(group, p), SpawnBroker,
           UNCHANGED <<child, run>>
    PROVE  State'
<1> PICK p \in FreePids : broker' = NewBroker(p) /\ group' = Join(group, p)
  BY DEF SpawnBroker
<1>1. p \in Pids
  BY DEF FreePids
<1>2. broker' \in BrokerRecord /\ broker'.pid = p /\ ~broker'.closed
  BY <1>1 DEF NewBroker, BrokerRecord
<1> DEFINE m == [NoGroup EXCEPT !.leader = "ok"]
<1>3. m \in GroupRecord /\ ~m.term
  BY DEF NoGroup, GroupRecord
<1>4. group' = [group EXCEPT ![p] = m]
  BY DEF Join
<1> HIDE DEF m
<1>5. group' \in [Pids -> GroupRecord] /\ ~group'[p].term
      /\ \A q \in Pids : Members(group', q) => q = p
  BY <1>1, <1>3, <1>4 DEF State, Core, Records, Members
<1>6. ~run.settled
  BY DEF Running
<1>7. Core(broker', child, group', run)
  BY <1>1, <1>2, <1>5, <1>6 DEF State, Core, Records, Owned, Ordered, Reaped
<1> QED
  BY <1>7 DEF State

LEMMA ProbeKeeps ==
    ASSUME Inv, Running, NEW b, NEW attempt \in 1..ProbeAttempts,
           Core(b, child, group, run), b.pid = broker.pid, Probe(b, attempt)
    PROVE  State' /\ Deadlines' /\ probe' \in NoProbe..(ProbeAttempts - 1)
<1> USE SupervisorConstants DEF NoProbe
<1>1. CASE /\ GroupIsAbsent(b.pid)
           /\ escalations' = {e \in escalations : e.id # handle}
           /\ handle' = NoTimer
           /\ probe' = NoProbe
           /\ SpawnBroker
           /\ UNCHANGED <<child, run>>
  <2>1. \A p \in Pids : ~Members(group, p)
    BY <1>1 DEF Inv, State, Core, Owned, GroupIsAbsent, Populated, Members
  <2>2. State'
    BY <1>1, <2>1, SpawnBrokerKeepsState DEF Inv
  <2>3. Deadlines'
    BY <1>1, FS_Subset DEF Inv, Deadlines
  <2> QED
    BY <1>1, <2>2, <2>3
<1>2. CASE /\ attempt < ProbeAttempts
           /\ probe' = attempt
           /\ broker' = b
           /\ UNCHANGED <<child, group, run, escalations, handle>>
  BY <1>2 DEF Inv, State, Deadlines
<1>3. CASE /\ probe' = NoProbe
           /\ RequestShutdown(b, child, [run EXCEPT !.ended = TRUE])
           /\ UNCHANGED <<escalations, handle>>
  <2> DEFINE s == [run EXCEPT !.ended = TRUE]
  <2>1. s \in RunRecord /\ s.settled = run.settled /\ s.stopping = run.stopping
        /\ s.force = run.force
    BY DEF Inv, State, Core, Records, RunRecord
  <2> HIDE DEF s
  <2>2. Core(b, child, group, s)
    BY <2>1, RunKeepsCore
  <2>3. RequestShutdown(b, child, s)
    BY <1>3 DEF s
  <2>4. State'
    BY <2>2, <2>3, ShutdownKeepsState
  <2> QED
    BY <1>3, <2>4 DEF Inv, Deadlines
<1> QED
  BY <1>1, <1>2, <1>3 DEF Probe

-----------------------------------------------------------------------------
(* The worker.                                                               *)

LEMMA ScheduleWorkerKeepsState ==
    ASSUME State, NEW c, NEW r, Core(broker, c, group, r), ScheduleWorker(c, r),
           r.stopping = run.stopping, r.settled = run.settled, r.ended = run.ended,
           r.attempts = run.attempts, r.restart = run.restart
    PROVE  State'
<1> USE SupervisorConstants
<1>1. CASE /\ child' = c
           /\ run' = r
           /\ UNCHANGED <<broker, group>>
  BY <1>1 DEF State, Ending, Due
<1>2. ASSUME NEW aged \in 0..r.attempts, Running, ~r.restart,
             LET left == [r EXCEPT !.attempts = @ - aged] IN
             \/ /\ left.attempts = RestartBudget
                /\ RequestShutdown(broker, c, [left EXCEPT !.ended = TRUE])
             \/ /\ left.attempts < RestartBudget /\ ~r.failing
                /\ child' = [c EXCEPT !["worker"] = Spawned]
                /\ run' = [left EXCEPT !.attempts = @ + 1]
                /\ UNCHANGED <<broker, group>>
             \/ /\ left.attempts < RestartBudget /\ r.failing
                /\ child' = c
                /\ run' = [left EXCEPT !.restart = TRUE]
                /\ UNCHANGED <<broker, group>>
      PROVE  State'
  <2> DEFINE left == [r EXCEPT !.attempts = @ - aged]
  <2>1. r \in RunRecord /\ ~r.stopping /\ ~r.settled /\ ~r.ended
    BY <1>2 DEF Core, Records, Running
  <2>2. left \in RunRecord /\ left.settled = r.settled /\ left.stopping = r.stopping
        /\ left.force = r.force /\ left.ended = r.ended /\ left.restart = r.restart
    BY <1>2, <2>1 DEF RunRecord
  <2> HIDE DEF left
  <2>3. CASE RequestShutdown(broker, c, [left EXCEPT !.ended = TRUE])
    <3> DEFINE s == [left EXCEPT !.ended = TRUE]
    <3>1. s \in RunRecord /\ s.settled = r.settled /\ s.stopping = r.stopping
          /\ s.force = r.force
      BY <2>2 DEF RunRecord
    <3> HIDE DEF s
    <3>2. Core(broker, c, group, s)
      BY <3>1, RunKeepsCore
    <3>3. RequestShutdown(broker, c, s)
      BY <2>3 DEF s
    <3> QED
      BY <3>2, <3>3, ShutdownKeepsState
  <2>4. CASE /\ left.attempts < RestartBudget
             /\ child' = [c EXCEPT !["worker"] = Spawned]
             /\ run' = [left EXCEPT !.attempts = @ + 1]
             /\ UNCHANGED <<broker, group>>
    <3>1. run' \in RunRecord /\ run'.settled = r.settled /\ run'.stopping = r.stopping
          /\ run'.force = r.force /\ run'.ended = r.ended /\ ~run'.restart
      BY <1>2, <2>2, <2>4 DEF RunRecord
    <3>2. Core(broker, child', group, r)
      BY <2>1, <2>4, SpawnKeepsCore DEF Roles
    <3>3. Core(broker, child', group, run')
      BY <3>1, <3>2, RunKeepsCore
    <3> QED
      BY <2>1, <2>4, <3>1, <3>3 DEF State, Ending, Due
  <2>5. CASE /\ left.attempts < RestartBudget
             /\ child' = c
             /\ run' = [left EXCEPT !.restart = TRUE]
             /\ UNCHANGED <<broker, group>>
    <3>1. run' \in RunRecord /\ run'.settled = r.settled /\ run'.stopping = r.stopping
          /\ run'.force = r.force /\ run'.ended = r.ended /\ run'.attempts < RestartBudget
      BY <2>2, <2>5 DEF RunRecord
    <3>2. Core(broker, c, group, run')
      BY <3>1, RunKeepsCore
    <3> QED
      BY <2>1, <2>5, <3>1, <3>2 DEF State, Ending, Due
  <2> QED
    BY <1>2, <2>3, <2>4, <2>5 DEF left
<1> QED
  BY <1>1, <1>2 DEF ScheduleWorker

-----------------------------------------------------------------------------
(* The steps.                                                                *)

LEMMA CostsCounted ==
    ASSUME NEW u, Counted, Costs(u)
    PROVE  faults' \in 0..MaxFaults
BY SupervisorConstants DEF Counted, Costs

\* A step that changes records only.
LEMMA FromCore ==
    ASSUME Inv, Core(broker', child', group', run'), UNCHANGED run
    PROVE  State'
BY DEF Inv, State

LEMMA SameTimers ==
    ASSUME Inv, UNCHANGED <<escalations, handle, probe>>
    PROVE  Deadlines' /\ probe' \in NoProbe..(ProbeAttempts - 1)
BY DEF Inv, Deadlines, Counted

LEMMA OwnerStep ==
    ASSUME Inv,
           \/ BrokerReady \/ BrokerBeat \/ StaleBeat \/ BrokerSilent
           \/ \E e \in escalations : EscalationFires(e)
           \/ BrokerStartupTimeout \/ BrokerCloses \/ ProbeAgain
    PROVE  Inv'
<1> USE SupervisorConstants
<1>0. /\ broker \in BrokerRecord /\ child \in [Roles -> ChildRecord]
      /\ group \in [Pids -> GroupRecord] /\ run \in RunRecord
      /\ OwnerOpen(broker) => broker.pid \in Pids /\ ~broker.closed
      /\ Core(broker, child, group, run) /\ Counted /\ faults \in 0..MaxFaults
  BY DEF Inv, State, Core, Records, Owned, OwnerOpen, Counted, BrokerRecord
<1>1. CASE BrokerReady
  <2>1. broker' \in BrokerRecord /\ broker'.pid = broker.pid
        /\ broker'.closed = broker.closed /\ broker'.blamed = broker.blamed
    BY <1>0, <1>1 DEF BrokerReady, BrokerRecord, RunRecord
  <2>2. Core(broker', child, group, run)
    BY <1>0, <2>1, BrokerKeepsCore
  <2>3. Core(broker', child', group, run)
    <3>1. CASE child["web"].proc = "none" /\ Running
      BY <1>1, <2>2, <3>1, SpawnKeepsCore DEF BrokerReady, Running, Roles
    <3>2. CASE ~(child["web"].proc = "none" /\ Running)
      BY <1>1, <2>2, <3>2 DEF BrokerReady
    <3> QED
      BY <3>1, <3>2
  <2>4. State'
    BY <1>1, <2>3, FromCore DEF BrokerReady
  <2> QED
    BY <1>0, <1>1, <2>4, SameTimers DEF BrokerReady, Inv, Counted
<1>2. CASE BrokerBeat
  <2>1. broker' \in BrokerRecord /\ broker'.pid = broker.pid
        /\ broker'.closed = broker.closed /\ broker'.blamed = broker.blamed
    BY <1>0, <1>2 DEF BrokerBeat, BrokerRecord, RunRecord
  <2>2. Core(broker', child, group, run)
    BY <1>0, <2>1, BrokerKeepsCore
  <2>3. State'
    BY <1>2, <2>2, FromCore DEF BrokerBeat
  <2>4. faults' \in 0..MaxFaults
    BY <1>0, <1>2, CostsCounted DEF BrokerBeat
  <2> QED
    BY <1>2, <2>3, <2>4, SameTimers DEF BrokerBeat, Inv, Counted
<1>3. CASE StaleBeat \/ BrokerSilent
  <2>1. OwnerOpen(broker) /\ FailBroker /\ UNCHANGED <<child, run, probe>>
    BY <1>3 DEF StaleBeat, BrokerSilent
  <2>2. faults' \in 0..MaxFaults
    BY <1>0, <1>3, CostsCounted DEF StaleBeat, BrokerSilent
  <2>3. State' /\ Deadlines'
    BY <2>1, FailBrokerKeeps DEF Inv
  <2> QED
    BY <2>1, <2>2, <2>3 DEF Inv, Counted
<1>4. ASSUME NEW e \in escalations, EscalationFires(e)
      PROVE  Inv'
  <2>1. e.pid \in Pids
    BY DEF Inv, Deadlines
  <2>2. /\ group' \in [Pids -> GroupRecord] /\ Shrinks(group, group')
        /\ \A p \in Pids : group'[p].term = group[p].term
    BY <1>0, <1>4, <2>1, SignalShrinks DEF EscalationFires
  <2>3. Core(broker, child, group', run)
    BY <1>0, <2>2, GroupKeepsCore
  <2>4. State'
    BY <1>4, <2>3, FromCore DEF EscalationFires
  <2>5. Deadlines'
    BY <1>4, FS_Subset DEF EscalationFires, Inv, Deadlines
  <2> QED
    BY <1>4, <2>4, <2>5 DEF EscalationFires, Inv, Counted
<1>5. CASE BrokerStartupTimeout
  <2>1. broker' \in BrokerRecord /\ broker'.pid = broker.pid
        /\ broker'.closed = broker.closed /\ broker'.blamed
    BY <1>0, <1>5 DEF BrokerStartupTimeout, BrokerRecord
  <2>2. group' \in [Pids -> GroupRecord] /\ Shrinks(group, group')
    BY <1>0, <1>5, SignalShrinks DEF BrokerStartupTimeout
  <2>3. Core(broker', child, group', run)
    BY <1>0, <2>1, <2>2, BlameKeepsCore
  <2>4. State'
    BY <1>5, <2>3, FromCore DEF BrokerStartupTimeout
  <2>5. faults' \in 0..MaxFaults
    BY <1>0, <1>5, CostsCounted DEF BrokerStartupTimeout
  <2> QED
    BY <1>5, <2>4, <2>5, SameTimers DEF BrokerStartupTimeout, Inv, Counted
<1>6. CASE BrokerCloses
  <2> DEFINE b == [broker EXCEPT !.closed = TRUE, !.watch = FALSE]
  <2>1. b \in BrokerRecord /\ b.pid = broker.pid /\ b.closed /\ b.blamed = broker.blamed
    BY <1>0 DEF BrokerRecord
  <2>2. group[broker.pid].leader = "none"
    BY <1>6 DEF BrokerCloses
  <2>3. /\ UNCHANGED faults
        /\ \/ Running /\ broker.ready /\ Probe(b, 1)
           \/ /\ Running /\ ~broker.ready
              /\ RequestShutdown(b, child, [run EXCEPT !.ended = TRUE])
              /\ UNCHANGED <<escalations, handle, probe>>
           \/ /\ ~Running
              /\ broker' = b
              /\ run' = MaybeFinish(run, b, child)
              /\ UNCHANGED <<child, group, escalations, handle, probe>>
    BY <1>6 DEF BrokerCloses
  <2> HIDE DEF b
  <2>4. Core(b, child, group, run)
    BY <1>0, <2>1, <2>2, BrokerKeepsCore
  <2>5. CASE Running /\ broker.ready /\ Probe(b, 1)
    <3>1. 1 \in 1..ProbeAttempts
      OBVIOUS
    <3>2. State' /\ Deadlines' /\ probe' \in NoProbe..(ProbeAttempts - 1)
      BY <2>1, <2>4, <2>5, <3>1, ProbeKeeps
    <3> QED
      BY <1>0, <2>3, <3>2 DEF Inv, Counted
  <2>6. CASE /\ RequestShutdown(b, child, [run EXCEPT !.ended = TRUE])
             /\ UNCHANGED <<escalations, handle, probe>>
    <3> DEFINE s == [run EXCEPT !.ended = TRUE]
    <3>1. s \in RunRecord /\ s.settled = run.settled /\ s.stopping = run.stopping
          /\ s.force = run.force
      BY <1>0 DEF RunRecord
    <3> HIDE DEF s
    <3>2. Core(b, child, group, s)
      BY <2>4, <3>1, RunKeepsCore
    <3>3. RequestShutdown(b, child, s)
      BY <2>6 DEF s
    <3>4. State'
      BY <3>2, <3>3, ShutdownKeepsState
    <3> QED
      BY <1>0, <2>3, <2>6, <3>4, SameTimers DEF Inv, Counted
  <2>7. CASE /\ ~Running
             /\ broker' = b
             /\ run' = MaybeFinish(run, b, child)
             /\ UNCHANGED <<child, group, escalations, handle, probe>>
    <3>1. run.stopping /\ Due(run)
      BY <2>7 DEF Running, Inv, State, Ending
    <3>2. Core(b, child, group, MaybeFinish(run, b, child))
          /\ Ending(MaybeFinish(run, b, child)) /\ Due(MaybeFinish(run, b, child))
      BY <2>4, <3>1, FinishKeepsCore
    <3>3. State'
      BY <2>7, <3>2 DEF State
    <3> QED
      BY <1>0, <2>3, <2>7, <3>3, SameTimers DEF Inv, Counted
  <2> QED
    BY <2>3, <2>5, <2>6, <2>7
<1>7. CASE ProbeAgain
  <2>1. CASE Running /\ Probe(broker, probe + 1)
    <3>1. probe + 1 \in 1..ProbeAttempts
      BY <1>0, <1>7 DEF ProbeAgain, Counted, NoProbe
    <3>2. State' /\ Deadlines' /\ probe' \in NoProbe..(ProbeAttempts - 1)
      BY <1>0, <2>1, <3>1, ProbeKeeps
    <3> QED
      BY <1>0, <1>7, <3>2 DEF ProbeAgain, Inv, Counted
  <2>2. CASE /\ probe' = NoProbe
             /\ UNCHANGED <<broker, child, group, run, escalations, handle>>
    BY <1>0, <1>7, <2>2, FromCore DEF ProbeAgain, Inv, Deadlines, Counted, NoProbe
  <2> QED
    BY <1>7, <2>1, <2>2 DEF ProbeAgain
<1> QED
  BY <1>1, <1>2, <1>3, <1>4, <1>5, <1>6, <1>7

LEMMA KilledKeeps ==
    ASSUME NEW c \in ChildRecord
    PROVE  Killed(c) \in ChildRecord /\ Killed(c).closed = c.closed
           /\ Killed(c).proc = c.proc
<1> DEFINE k == c.proc \in {"ok", "hung"}
           d == [c EXCEPT !.kill = k]
<1>1. k \in BOOLEAN
  OBVIOUS
<1> HIDE DEF k
<1>2. d \in ChildRecord /\ d.closed = c.closed /\ d.proc = c.proc
  BY <1>1 DEF ChildRecord
<1>3. Killed(c) = d
  BY DEF Killed, k
<1> QED
  BY <1>2, <1>3

LEMMA RoleStep ==
    ASSUME Inv,
           \/ WorkerRestarts \/ WebReady \/ WorkerReady \/ WorkerSilent
           \/ \E r \in Roles : StartupTimeout(r) \/ RoleHangs(r) \/ RoleExits(r)
           \/ WebCloses \/ WorkerCloses \/ ParentSignal \/ ForceKill
    PROVE  Inv'
<1> USE SupervisorConstants
<1>0. /\ broker \in BrokerRecord /\ child \in [Roles -> ChildRecord]
      /\ group \in [Pids -> GroupRecord] /\ run \in RunRecord
      /\ Core(broker, child, group, run) /\ Counted /\ faults \in 0..MaxFaults
      /\ \A x \in Roles : child[x].closed => child[x].proc = "dead"
  BY DEF Inv, State, Core, Records, Owned, Counted
\* A role that keeps its place.
<1>1. ASSUME NEW x \in Roles, NEW d \in ChildRecord, child' = [child EXCEPT ![x] = d],
             d.closed = child[x].closed, d.proc = "none" <=> child[x].proc = "none",
             d.closed => d.proc = "dead", UNCHANGED <<broker, group>>
      PROVE  Core(broker', child', group', run)
  <2>1. child' \in [Roles -> ChildRecord]
    BY <1>0, <1>1
  <2>2. \A y \in Roles : /\ Open(child'[y]) => Open(child[y])
                         /\ child'[y].closed => child'[y].proc = "dead"
    BY <1>0, <1>1 DEF Open
  <2> QED
    BY <1>0, <1>1, <2>1, <2>2, RolesKeepCore
\* A role that closes.
<1>2. ASSUME NEW x \in Roles, child[x].proc = "dead"
      PROVE  Core(broker, [child EXCEPT ![x].closed = TRUE], group, run)
  <2> DEFINE d == [child[x] EXCEPT !.closed = TRUE]
             c == [child EXCEPT ![x] = d]
  <2>1. d \in ChildRecord /\ d.closed /\ d.proc = "dead"
    BY <1>0, <1>2 DEF ChildRecord
  <2> HIDE DEF d
  <2>2. c \in [Roles -> ChildRecord]
        /\ \A y \in Roles : /\ Open(c[y]) => Open(child[y])
                            /\ c[y].closed => c[y].proc = "dead"
    BY <1>0, <2>1 DEF Open
  <2>3. Core(broker, c, group, run)
    BY <1>0, <2>2, RolesKeepCore
  <2> QED
    BY <1>0, <2>3 DEF d
\* The end of a role in a shutdown.
<1>3. ASSUME NEW c, Core(broker, c, group, run), run.stopping, child' = c,
             StopBrokerWhenRolesAreGone(broker, c), run' = MaybeFinish(run, broker, c),
             UNCHANGED broker
      PROVE  State'
  <2>1. Core(broker, c, group', run)
    BY <1>3, StopKeepsCore
  <2>2. Due(run)
    BY DEF Inv, State
  <2>3. Core(broker, c, group', run') /\ Ending(run') /\ Due(run')
    BY <1>3, <2>1, <2>2, FinishKeepsCore
  <2> QED
    BY <1>3, <2>3 DEF State
<1>4. CASE WorkerRestarts
  <2> DEFINE s == [run EXCEPT !.restart = FALSE,
                              !.attempts = IF Running THEN @ + 1 ELSE @]
             n == IF Running THEN run.attempts + 1 ELSE run.attempts
             t == [run EXCEPT !.restart = FALSE]
  <2>1. s \in RunRecord /\ s.settled = run.settled /\ s.stopping = run.stopping
        /\ s.force = run.force /\ s.ended = run.ended /\ ~s.restart
    <3>1. n \in 0..RestartBudget
      <4>1. run.attempts \in 0..RestartBudget /\ run.attempts < RestartBudget
        BY <1>0, <1>4 DEF WorkerRestarts, Inv, State, Due, RunRecord
      <4> QED
        BY <4>1
    <3>2. t \in RunRecord /\ t.settled = run.settled /\ t.stopping = run.stopping
          /\ t.force = run.force /\ t.ended = run.ended /\ ~t.restart
      BY <1>0 DEF RunRecord
    <3>3. s = [t EXCEPT !.attempts = n]
      BY <1>0 DEF RunRecord
    <3> HIDE DEF n, t, s
    <3> QED
      BY <3>1, <3>2, <3>3 DEF RunRecord
  <2>2. run' = s /\ UNCHANGED <<broker, group, escalations, handle, probe, faults>>
    BY <1>4 DEF WorkerRestarts
  <2> HIDE DEF s
  <2>3. Core(broker, child', group, run)
    <3>1. CASE Running
      BY <1>0, <1>4, <3>1, SpawnKeepsCore DEF WorkerRestarts, Running, Roles
    <3>2. CASE ~Running
      BY <1>0, <1>4, <3>2 DEF WorkerRestarts
    <3> QED
      BY <3>1, <3>2
  <2>4. Core(broker, child', group, s)
    BY <2>1, <2>3, RunKeepsCore
  <2>5. State'
    BY <2>1, <2>2, <2>4 DEF Inv, State, Ending, Due
  <2> QED
    BY <1>0, <2>2, <2>5, SameTimers DEF Inv, Counted
<1>5. CASE WebReady
  <2> DEFINE d == [child["web"] EXCEPT !.ready = TRUE]
             c == [child EXCEPT !["web"] = d]
  <2>1. d \in ChildRecord /\ d.closed = child["web"].closed /\ d.proc = child["web"].proc
    BY <1>0 DEF ChildRecord, Roles
  <2>2. ScheduleWorker(c, run) /\ UNCHANGED <<escalations, handle, probe, faults>>
    BY <1>0, <1>5 DEF WebReady, Roles
  <2> HIDE DEF d
  <2>3. c \in [Roles -> ChildRecord]
        /\ \A y \in Roles : /\ Open(c[y]) => Open(child[y])
                            /\ c[y].closed => c[y].proc = "dead"
    BY <1>0, <2>1 DEF Open, Roles
  <2>4. Core(broker, c, group, run)
    BY <1>0, <2>3, RolesKeepCore
  <2> HIDE DEF c
  <2>5. State'
    BY <2>2, <2>4, ScheduleWorkerKeepsState DEF Inv
  <2> QED
    BY <1>0, <2>2, <2>5, SameTimers DEF Inv, Counted
<1>6. CASE WorkerReady
  <2> DEFINE d == [child["worker"] EXCEPT !.ready = TRUE]
             s == [run EXCEPT !.failing = FALSE]
  <2>1. d \in ChildRecord /\ d.closed = child["worker"].closed
        /\ d.proc = child["worker"].proc
    BY <1>0 DEF ChildRecord, Roles
  <2>2. s \in RunRecord /\ s.settled = run.settled /\ s.stopping = run.stopping
        /\ s.force = run.force /\ s.ended = run.ended /\ s.restart = run.restart
        /\ s.attempts = run.attempts
    BY <1>0 DEF RunRecord
  <2>3. child' = [child EXCEPT !["worker"] = d] /\ run' = s
        /\ UNCHANGED <<broker, group, escalations, handle, probe, faults>>
    BY <1>0, <1>6 DEF WorkerReady, Roles
  <2> HIDE DEF d, s
  <2>4. Core(broker', child', group', run)
    BY <1>0, <1>1, <2>1, <2>3 DEF Roles
  <2>5. Core(broker', child', group', run')
    BY <2>2, <2>3, <2>4, RunKeepsCore
  <2>6. State'
    BY <2>2, <2>3, <2>5 DEF Inv, State, Ending, Due
  <2> QED
    BY <1>0, <2>3, <2>6, SameTimers DEF Inv, Counted
<1>7. ASSUME NEW x \in Roles, ~child[x].closed, child' = [child EXCEPT ![x] = Killed(@)],
             UNCHANGED <<broker, group, run, escalations, handle, probe>>,
             faults' \in 0..MaxFaults
      PROVE  Inv'
  <2> DEFINE d == Killed(child[x])
  <2>1. d \in ChildRecord /\ d.closed = child[x].closed /\ d.proc = child[x].proc
    BY <1>0, <1>7, KilledKeeps
  <2>2. child' = [child EXCEPT ![x] = d]
    BY <1>0, <1>7
  <2> HIDE DEF d
  <2>3. State'
    BY <1>1, <1>7, <2>1, <2>2, FromCore
  <2> QED
    BY <1>7, <2>3, SameTimers DEF Inv, Counted
<1>8. CASE WorkerSilent
  BY <1>0, <1>7, <1>8, CostsCounted DEF WorkerSilent, Roles, Open
<1>9. ASSUME NEW x \in Roles, StartupTimeout(x)
      PROVE  Inv'
  BY <1>0, <1>7, <1>9, CostsCounted DEF StartupTimeout, Open
<1>10. ASSUME NEW x \in Roles, RoleHangs(x) \/ RoleExits(x)
       PROVE  Inv'
  <2> PICK d \in ChildRecord : /\ child' = [child EXCEPT ![x] = d]
                               /\ d.closed = child[x].closed
                               /\ d.proc \in {"hung", "dead"}
    <3>1. CASE RoleHangs(x)
      <4> DEFINE d == [child[x] EXCEPT !.proc = "hung"]
      <4>1. d \in ChildRecord /\ d.closed = child[x].closed /\ d.proc = "hung"
        BY <1>0 DEF ChildRecord
      <4>2. child' = [child EXCEPT ![x] = d]
        BY <1>0, <3>1 DEF RoleHangs
      <4> QED
        BY <4>1, <4>2
    <3>2. CASE RoleExits(x)
      <4> DEFINE d == [child[x] EXCEPT !.proc = "dead", !.kill = FALSE]
      <4>1. d \in ChildRecord /\ d.closed = child[x].closed /\ d.proc = "dead"
        BY <1>0 DEF ChildRecord
      <4>2. child' = [child EXCEPT ![x] = d]
        BY <1>0, <3>2 DEF RoleExits
      <4> QED
        BY <4>1, <4>2
    <3> QED
      BY <1>10, <3>1, <3>2
  <2>1. child[x].proc \in {"ok", "hung"}
        /\ UNCHANGED <<broker, group, run, escalations, handle, probe>>
    BY <1>10 DEF RoleHangs, RoleExits
  <2>2. faults' \in 0..MaxFaults
    BY <1>0, <1>10, CostsCounted DEF RoleHangs, RoleExits
  <2>3. ~child[x].closed
    BY <1>0, <2>1
  <2>4. State'
    BY <1>0, <1>1, <2>1, <2>3, FromCore
  <2> QED
    BY <2>1, <2>2, <2>4, SameTimers DEF Inv, Counted
<1>11. CASE WebCloses
  <2> DEFINE c == [child EXCEPT !["web"].closed = TRUE]
  <2>1. Core(broker, c, group, run)
    BY <1>2, <1>11 DEF WebCloses, Roles
  <2>2. /\ UNCHANGED <<escalations, handle, probe, faults>>
        /\ \/ RequestShutdown(broker, c, [run EXCEPT !.ended = TRUE])
           \/ /\ run.stopping
              /\ child' = c
              /\ StopBrokerWhenRolesAreGone(broker, c)
              /\ run' = MaybeFinish(run, broker, c)
              /\ UNCHANGED broker
    BY <1>11 DEF WebCloses
  <2> HIDE DEF c
  <2>3. CASE RequestShutdown(broker, c, [run EXCEPT !.ended = TRUE])
    <3> DEFINE s == [run EXCEPT !.ended = TRUE]
    <3>1. s \in RunRecord /\ s.settled = run.settled /\ s.stopping = run.stopping
          /\ s.force = run.force
      BY <1>0 DEF RunRecord
    <3> HIDE DEF s
    <3>2. Core(broker, c, group, s)
      BY <2>1, <3>1, RunKeepsCore
    <3>3. RequestShutdown(broker, c, s)
      BY <2>3 DEF s
    <3>4. State'
      BY <3>2, <3>3, ShutdownKeepsState
    <3> QED
      BY <1>0, <2>2, <3>4, SameTimers DEF Inv, Counted
  <2>4. CASE /\ run.stopping
             /\ child' = c
             /\ StopBrokerWhenRolesAreGone(broker, c)
             /\ run' = MaybeFinish(run, broker, c)
             /\ UNCHANGED broker
    <3>1. State'
      BY <1>3, <2>1, <2>4
    <3> QED
      BY <1>0, <2>2, <3>1, SameTimers DEF Inv, Counted
  <2> QED
    BY <2>2, <2>3, <2>4
<1>12. CASE WorkerCloses
  <2> DEFINE c == [child EXCEPT !["worker"].closed = TRUE]
             s == [run EXCEPT !.failing = TRUE]
  <2>1. Core(broker, c, group, run)
    BY <1>2, <1>12 DEF WorkerCloses, Roles
  <2>2. /\ UNCHANGED <<escalations, handle, probe, faults>>
        /\ \/ ScheduleWorker(c, s)
           \/ /\ ~Running
              /\ child' = c
              /\ StopBrokerWhenRolesAreGone(broker, c)
              /\ run' = MaybeFinish(run, broker, c)
              /\ UNCHANGED broker
    BY <1>12 DEF WorkerCloses
  <2>3. s \in RunRecord /\ s.settled = run.settled /\ s.stopping = run.stopping
        /\ s.force = run.force /\ s.ended = run.ended /\ s.restart = run.restart
        /\ s.attempts = run.attempts
    BY <1>0 DEF RunRecord
  <2> HIDE DEF c, s
  <2>4. CASE ScheduleWorker(c, s)
    <3>1. Core(broker, c, group, s)
      BY <2>1, <2>3, RunKeepsCore
    <3>2. State'
      BY <2>3, <2>4, <3>1, ScheduleWorkerKeepsState DEF Inv
    <3> QED
      BY <1>0, <2>2, <3>2, SameTimers DEF Inv, Counted
  <2>5. CASE /\ ~Running
             /\ child' = c
             /\ StopBrokerWhenRolesAreGone(broker, c)
             /\ run' = MaybeFinish(run, broker, c)
             /\ UNCHANGED broker
    <3>1. run.stopping
      BY <2>5 DEF Running, Inv, State, Ending
    <3>2. State'
      BY <1>3, <2>1, <2>5, <3>1
    <3> QED
      BY <1>0, <2>2, <3>2, SameTimers DEF Inv, Counted
  <2> QED
    BY <2>2, <2>4, <2>5
<1>13. CASE ParentSignal
  <2>1. State'
    BY <1>0, <1>13, ShutdownKeepsState DEF ParentSignal
  <2> QED
    BY <1>0, <1>13, <2>1, SameTimers DEF ParentSignal, Inv, Counted
<1>14. CASE ForceKill
  <2> DEFINE s == [run EXCEPT !.force = "fired"]
  <2>1. s \in RunRecord /\ s.settled = run.settled /\ s.stopping = run.stopping
        /\ s.force = "fired" /\ s.ended = run.ended /\ s.restart = run.restart
        /\ s.attempts = run.attempts
    BY <1>0 DEF RunRecord
  <2>2. run' = s /\ UNCHANGED <<broker, escalations, handle, probe, faults>>
    BY <1>14 DEF ForceKill
  <2> HIDE DEF s
  <2>3. /\ child' \in [Roles -> ChildRecord]
        /\ \A x \in Roles : /\ Open(child'[x]) => Open(child[x])
                            /\ child'[x].closed => child'[x].proc = "dead"
    <3>1. \A x \in Roles : child'[x] = IF Open(child[x]) THEN Killed(child[x]) ELSE child[x]
      BY <1>14 DEF ForceKill
    <3>2. \A x \in Roles : /\ Killed(child[x]) \in ChildRecord
                           /\ Killed(child[x]).proc = child[x].proc
                           /\ Killed(child[x]).closed = child[x].closed
      BY <1>0, KilledKeeps
    <3>3. child' = [x \in Roles |-> child'[x]]
      BY <1>14 DEF ForceKill
    <3> QED
      BY <1>0, <3>1, <3>2, <3>3 DEF Open
  <2>4. Core(broker, child', group, s)
    BY <1>0, <2>1, <2>3, RolesKeepCore, RunKeepsCore
  <2>5. group' \in [Pids -> GroupRecord] /\ Shrinks(group, group')
    <3>1. CASE broker.pid # NoOwner /\ Populated(broker.pid)
      <4> DEFINE m == [group[broker.pid] EXCEPT !.term = TRUE, !.kill = TRUE]
      <4>1. broker.pid \in Pids
        BY <1>0, <3>1 DEF BrokerRecord
      <4>2. m \in GroupRecord /\ m.leader = group[broker.pid].leader
            /\ m.git = group[broker.pid].git
        BY <1>0, <4>1, ZenonT(60) DEF GroupRecord
      <4>3. group' = [group EXCEPT ![broker.pid] = m]
        BY <1>14, <3>1 DEF ForceKill
      <4> HIDE DEF m
      <4> QED
        BY <1>0, <4>1, <4>2, <4>3 DEF Shrinks, Members
    <3>2. CASE ~(broker.pid # NoOwner /\ Populated(broker.pid))
      BY <1>0, <1>14, <3>2 DEF ForceKill, Shrinks
    <3> QED
      BY <3>1, <3>2
  <2>6. Core(broker, child', group', s)
    BY <2>1, <2>4, <2>5 DEF Core, Records, Owned, Ordered, Reaped, Shrinks
  <2>7. State'
    BY <2>1, <2>2, <2>6 DEF Inv, State, Ending, Due
  <2> QED
    BY <1>0, <2>2, <2>7, SameTimers DEF Inv, Counted
<1> QED
  BY <1>4, <1>5, <1>6, <1>8, <1>9, <1>10, <1>11, <1>12, <1>13, <1>14

\* What a process of a group does to itself.
LEMMA GroupStep ==
    ASSUME Inv, NEW p \in Pids,
           \/ OwnerHangs(p) \/ OwnerWakes(p) \/ OwnerExits(p)
           \/ GitStarts(p) \/ GitEnds(p)
    PROVE  Inv'
<1> USE SupervisorConstants
<1>0. /\ group \in [Pids -> GroupRecord] /\ Core(broker, child, group, run)
      /\ Counted /\ faults \in 0..MaxFaults
  BY DEF Inv, State, Core, Records, Counted
<1>1. ASSUME NEW m \in GroupRecord, group' = [group EXCEPT ![p] = m],
             m.leader # "none" => group[p].leader # "none",
             m.git => Members(group, p), m.term => group[p].term,
             UNCHANGED <<broker, child, run>>
      PROVE  State'
  <2>1. /\ group' \in [Pids -> GroupRecord] /\ Shrinks(group, group')
        /\ \A q \in Pids : group'[q].term => group[q].term
    BY <1>0, <1>1 DEF Shrinks, Members
  <2>2. Core(broker, child, group', run)
    BY <1>0, <2>1, GroupKeepsCore
  <2> QED
    BY <1>1, <2>2, FromCore
<1>2. CASE OwnerHangs(p)
  <2> DEFINE m == [group[p] EXCEPT !.leader = "hung"]
  <2>1. m \in GroupRecord /\ m.git = group[p].git /\ m.term = group[p].term
    BY <1>0 DEF GroupRecord
  <2>2. group' = [group EXCEPT ![p] = m]
    BY <1>0, <1>2 DEF OwnerHangs
  <2> HIDE DEF m
  <2>3. State'
    BY <1>0, <1>1, <1>2, <2>1, <2>2 DEF OwnerHangs, Members
  <2>4. faults' \in 0..MaxFaults
    BY <1>0, <1>2, CostsCounted DEF OwnerHangs
  <2> QED
    BY <1>2, <2>3, <2>4, SameTimers DEF OwnerHangs, Inv, Counted
<1>3. CASE OwnerWakes(p)
  <2> DEFINE m == [group[p] EXCEPT !.leader = "ok"]
  <2>1. m \in GroupRecord /\ m.git = group[p].git /\ m.term = group[p].term
    BY <1>0 DEF GroupRecord
  <2>2. group' = [group EXCEPT ![p] = m]
    BY <1>0, <1>3 DEF OwnerWakes
  <2> HIDE DEF m
  <2>3. State'
    BY <1>0, <1>1, <1>3, <2>1, <2>2 DEF OwnerWakes, Members
  <2> QED
    BY <1>0, <1>3, <2>3, SameTimers DEF OwnerWakes, Inv, Counted
<1>4. CASE OwnerExits(p)
  <2> DEFINE m == Without([group[p] EXCEPT !.leader = "none"])
  <2>1. m \in GroupRecord /\ m.leader = "none" /\ (m.git => group[p].git)
        /\ (m.term => group[p].term)
    <3> DEFINE g == [group[p] EXCEPT !.leader = "none"]
    <3>1. g \in GroupRecord /\ g.leader = "none" /\ g.git = group[p].git
          /\ g.term = group[p].term
      BY <1>0 DEF GroupRecord
    <3>2. NoGroup \in GroupRecord /\ NoGroup.leader = "none" /\ ~NoGroup.git
          /\ ~NoGroup.term
      BY DEF NoGroup, GroupRecord
    <3>3. m = NoGroup \/ m = g
      BY DEF Without
    <3> QED
      BY <3>1, <3>2, <3>3
  <2>2. group' = [group EXCEPT ![p] = m]
    BY <1>0, <1>4 DEF OwnerExits
  <2> HIDE DEF m
  <2>3. State'
    BY <1>0, <1>1, <1>4, <2>1, <2>2 DEF OwnerExits, Members
  <2>4. faults' \in 0..MaxFaults
    BY <1>0, <1>4, CostsCounted DEF OwnerExits
  <2> QED
    BY <1>4, <2>3, <2>4, SameTimers DEF OwnerExits, Inv, Counted
<1>5. CASE GitStarts(p)
  <2> DEFINE m == [group[p] EXCEPT !.git = TRUE]
  <2>1. m \in GroupRecord /\ m.leader = group[p].leader /\ m.term = group[p].term
    BY <1>0 DEF GroupRecord
  <2>2. group' = [group EXCEPT ![p] = m]
    BY <1>0, <1>5 DEF GitStarts
  <2> HIDE DEF m
  <2>3. State'
    BY <1>0, <1>1, <1>5, <2>1, <2>2 DEF GitStarts, Members
  <2> QED
    BY <1>0, <1>5, <2>3, SameTimers DEF GitStarts, Inv, Counted
<1>6. CASE GitEnds(p)
  <2> DEFINE m == Without([group[p] EXCEPT !.git = FALSE])
  <2>1. m \in GroupRecord /\ ~m.git /\ (m.leader # "none" => group[p].leader # "none")
        /\ (m.term => group[p].term)
    <3> DEFINE g == [group[p] EXCEPT !.git = FALSE]
    <3>1. g \in GroupRecord /\ ~g.git /\ g.leader = group[p].leader
          /\ g.term = group[p].term
      BY <1>0 DEF GroupRecord
    <3>2. NoGroup \in GroupRecord /\ NoGroup.leader = "none" /\ ~NoGroup.git
          /\ ~NoGroup.term
      BY DEF NoGroup, GroupRecord
    <3>3. m = NoGroup \/ m = g
      BY DEF Without
    <3> QED
      BY <3>1, <3>2, <3>3
  <2>2. group' = [group EXCEPT ![p] = m]
    BY <1>0, <1>6 DEF GitEnds
  <2> HIDE DEF m
  <2>3. State'
    BY <1>0, <1>1, <1>6, <2>1, <2>2 DEF GitEnds, Members
  <2> QED
    BY <1>0, <1>6, <2>3, SameTimers DEF GitEnds, Inv, Counted
<1> QED
  BY <1>2, <1>3, <1>4, <1>5, <1>6

LEMMA StutterInv == Inv /\ UNCHANGED svars => Inv'
BY DEF Inv, State, Ending, Due, Deadlines, Counted, svars

THEOREM SupervisorInvariant == SupervisorSpec => []Inv
<1>1. SupervisorInit => Inv
  BY InitInv
<1>2. Inv /\ [SupervisorNext]_svars => Inv'
  BY OwnerStep, RoleStep, GroupStep, StutterInv DEF SupervisorNext
<1> QED
  BY <1>1, <1>2, PTL DEF SupervisorSpec

-----------------------------------------------------------------------------
(* The theorems.                                                             *)

\* Whatever hangs, exits or is signalled and in whatever order the parent hears of
\* it: records, groups, timers and counters keep their types, attempts their budget.
THEOREM SupervisorTypeCorrect == SupervisorSpec => []SupervisorTypeOK
BY SupervisorInvariant, InvGivesTypes, PTL

\* No two process groups ever have members: the replacement of an owner starts after
\* the last process of the old group has gone.
THEOREM OwnerIsAlone == SupervisorSpec => []OneOwner
BY SupervisorInvariant, InvGivesOneOwner, PTL

\* An owner that did nothing wrong is asked to stop after the roles have gone, or when
\* the grace of a shutdown is over.
THEOREM OwnerGoesLast == SupervisorSpec => []OwnerOutlivesRoles
BY SupervisorInvariant, InvGivesOrder, PTL

\* The outcome is reported when no role runs and no owner leads a group.
THEOREM NothingIsLeft == SupervisorSpec => []SettledMeansReaped
BY SupervisorInvariant, InvGivesReaped, PTL
=============================================================================
