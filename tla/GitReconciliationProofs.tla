------------------------ MODULE GitReconciliationProofs ------------------------
(* Theorems about the owner of the checkout and the roles around it, for any *)
(* set of replays and any number of faults, pushes, edits and syncs.         *)
EXTENDS GitReconciliation, TLAPS

-----------------------------------------------------------------------------
(* The inductive invariant.                                                 *)

Steps == {"idle", "attach", "derive", "queueing", "checkpoint", "open", "initialize",
          "pull", "asking", "import", "capture"}

OwnerRecord == [phase : {"down", "rotating", "listening", "up"}, inherits : BOOLEAN, admits : BOOLEAN,
                failed : BOOLEAN, ambiguous : SUBSET Slots]
JournalRecord == [exists : BOOLEAN, written : BOOLEAN, open : SUBSET Slots]
CallRecord == [st : {"idle", "answered"} \cup InOwner,
               op : {"none", "pull", "commit-and-push"}, ok : BOOLEAN, head : Nat]
RepoRecord == [head : Nat, pulled : SUBSET Nat, dirty : BOOLEAN, unpushed : BOOLEAN,
               behind : BOOLEAN]
PastRecord == [born : BOOLEAN, from : Nat, interrupted : SUBSET Slots, lost : BOOLEAN,
               aside : BOOLEAN, strayed : BOOLEAN]
FlowRecord == [pc : Steps, from : Nat, head : Nat, stray : BOOLEAN]
CacheRecord == [loaded : BOOLEAN, at : Nat]
SeenRecord == [delivered : SUBSET Nat, looked : Nat, overtaken : Nat]

BrokerType ==
    /\ owner \in OwnerRecord
    /\ journal \in JournalRecord
    /\ call \in [Slots -> CallRecord]
    /\ repo \in RepoRecord
    /\ past \in PastRecord

\* An owner that does not serve carries out nothing, what it was carrying out is in the
\* journal, and a journal that does not exist holds nothing.
Recorded ==
    /\ ~Serving => \A c \in Slots : call[c].st \notin InOwner
    /\ \A c \in Slots : call[c].st \in {"started", "ran"} => c \in journal.open
    /\ journal.open # {} => journal.written
    /\ journal.written => journal.exists
    /\ owner.phase \in {"listening", "up"} => journal.exists
    /\ owner.phase \in {"rotating", "listening"} => ~journal.written

\* What was cut short is in the record of the owner that is down, and among what the
\* next one found, unless one died with it while it was starting.
Found ==
    ~past.aside =>
        /\ owner.phase = "down" => past.interrupted \subseteq journal.open
        /\ owner.phase # "down" => past.interrupted \subseteq owner.ambiguous

\* An owner that is not the first knows it, unless the record was lost.
Inherited ==
    /\ past.born /\ ~past.lost =>
         /\ owner.phase = "down" => journal.exists
         /\ owner.phase \in {"rotating", "listening"} => owner.inherits
    /\ past.from <= repo.head

\* A replay that has read its delta has looked at what the owner of today took over.
Looked ==
    /\ \A f \in Replays :
         flow[f].pc \in {"queueing", "checkpoint", "open"} /\ ~flow[f].stray
           => Serving /\ seen.looked >= past.from
    /\ ReplayBeforeMutation

\* While the web process starts nothing but its own pull reaches the owner.
Starting ==
    /\ ~Ready => ~unsaved /\ \A c \in Slots \ {"startup"} : call[c].st = "idle"
    /\ ~At("startup", "asking") => call["startup"].st = "idle"

\* A number the next delta may start from: not beyond the head, and what the remote
\* brought up to it was queued for import or passed over by auto-commit.
Mark(n, checkout, had) ==
    /\ n \in Nat /\ n <= checkout.head
    /\ \A c \in checkout.pulled : had.overtaken < c /\ c <= n => c \in had.delivered

\* What a role goes on with when it has come as far as r.
Fits(f, r, checkout, had) ==
    /\ r \in FlowRecord
    /\ r.from <= checkout.head /\ r.head <= checkout.head
    /\ r.pc \in {"derive", "queueing"} => Mark(r.from, checkout, had)
    /\ r.pc = "checkpoint" /\ f # "save" => Mark(r.head, checkout, had)
    /\ r.pc = "capture" /\ f = "startup" => Mark(checkout.head, checkout, had)
    /\ r.pc = "open" => f \in Replays

\* Every number that may become a checkpoint is one the next delta may start from.
Handed ==
    /\ seen \in SeenRecord
    /\ flow \in [Flows -> FlowRecord] /\ cache \in [Processes -> CacheRecord]
    /\ Mark(stored, repo, seen)
    /\ \A p \in Processes : Mark(cache[p].at, repo, seen)
    /\ \A f \in Flows : Fits(f, flow[f], repo, seen)
    /\ \A c \in Slots : call[c].head <= repo.head

BrokerInv == BrokerType /\ Recorded /\ Found /\ Inherited
GitInv == BrokerInv /\ Handed /\ Starting /\ Looked

-----------------------------------------------------------------------------
(* Sets and records.                                                        *)

LEMMA SlotFacts ==
    /\ Callers = {"startup", "periodic", "save", "job"} /\ Callers \subseteq Flows
    /\ Callers \subseteq Slots /\ Nobody \in Slots /\ Nobody \notin Callers
    /\ Recoveries \subseteq Flows /\ Recoveries \cap Callers = {}
    /\ "startup" \in Replays /\ Replays \subseteq Flows
    /\ InOwner = {"admitted", "started", "ran"}
BY ReconciliationAssumption DEF Callers, Slots, Flows, Replays, Nobody, InOwner

LEMMA CallFacts ==
    /\ Quiet \in CallRecord /\ Quiet.st = "idle" /\ Quiet.head = 0
    /\ Refused \in CallRecord /\ Refused.st = "answered" /\ Refused.head = 0
    /\ \A op \in {"pull", "commit-and-push"} :
         LET r == [Quiet EXCEPT !.st = "admitted", !.op = op]
         IN  r \in CallRecord /\ r.st = "admitted" /\ r.head = 0
BY DEF Quiet, Refused, CallRecord, InOwner

LEMMA FlowFacts ==
    Resting \in FlowRecord /\ Resting.pc = "idle" /\ Resting.from = 0 /\ Resting.head = 0
    /\ Resting.stray = FALSE
BY DEF Resting, FlowRecord, Steps

\* A caller asks, or takes its answer.
CallStep(c) ==
    /\ \/ call' = [call EXCEPT ![c] = Quiet]
       \/ call' = [call EXCEPT ![c] = Refused]
       \/ /\ Admits
          /\ \E op \in {"pull", "commit-and-push"} :
               call' = [call EXCEPT ![c] = [Quiet EXCEPT !.st = "admitted", !.op = op]]
    /\ UNCHANGED <<owner, journal, repo, past>>

\* The steps of Next, by what they do to the owner, its journal and its calls.
LEMMA BrokerCases ==
    ASSUME [Next]_vars
    PROVE  \/ UNCHANGED <<owner, journal, call, repo, past>>
           \/ \E c \in Callers : CallStep(c)
           \/ RuntimeRestarts
           \/ \E f \in Flows : Opens(f)
           \/ EditsArrive \/ WorkerDies \/ LosesOwner
           \/ OwnerRotates \/ OwnerWrites \/ OwnerListens \/ StartCrashes \/ RemoteAdvances
           \/ \E c \in Slots : \/ RecordStart(c) \/ Execute(c) \/ RecordSettled(c)
                               \/ StartRecordFails(c) \/ SettledRecordFails(c)
<1>1. ASSUME NEW f \in Flows, Replay(f) \/ BatchFails(f)
      PROVE  \/ UNCHANGED <<owner, journal, call, repo, past>>
             \/ RuntimeRestarts \/ Opens(f)
  BY <1>1 DEF Replay, ReadDelta, LosesTheRead, FinishBatch, SaveCheckpoint, BatchFails, Fails,
     brokerVars
<1>2. ASSUME NEW r \in Recoveries, BeginReplay(r)
      PROVE  UNCHANGED <<owner, journal, call, repo, past>>
  BY <1>2 DEF BeginReplay, brokerVars
<1>3. ASSUME NEW f \in {"periodic", "job"}, AskPull(f) \/ HearPull(f)
      PROVE  \E c \in Callers : CallStep(c)
  BY <1>3, SlotFacts DEF AskPull, HearPull, Hears, Ask, CallStep
<1>4. CASE AskSave \/ HearSave
  BY <1>4, SlotFacts DEF AskSave, HearSave, Hears, Ask, CallStep
<1>5. CASE Startup
  <2>1. CASE Attach \/ Initialize \/ ImportEverything \/ CaptureCurrent
    BY <2>1 DEF Attach, Initialize, ImportEverything, CaptureCurrent, StartupOnly, brokerVars
  <2>2. CASE AskInitialPull \/ HearInitialPull
    BY <2>2, SlotFacts DEF AskInitialPull, HearInitialPull, Hears, Ask, CallStep
  <2>3. CASE InitializeFails
    BY <2>3 DEF InitializeFails
  <2>4. QED
    BY <1>5, <2>1, <2>2, <2>3 DEF Startup
<1>6. CASE RuntimeDies
  BY <1>6 DEF RuntimeDies
<1>7. CASE OwnerStarts
  BY <1>7 DEF OwnerStarts
<1>8. ASSUME NEW c \in Slots, Broker(c) \/ RecordFails(c)
      PROVE  \/ RecordStart(c) \/ Execute(c) \/ RecordSettled(c)
             \/ StartRecordFails(c) \/ SettledRecordFails(c)
  BY <1>8 DEF Broker, BrokerServes, RecordFails
<1>9. CASE UNCHANGED vars
  BY <1>9 DEF vars, brokerVars
<1>10. QED
  BY <1>1, <1>2, <1>3, <1>4, <1>5, <1>6, <1>7, <1>8, <1>9 DEF Next

-----------------------------------------------------------------------------
(* Types.                                                                   *)

\* Committing keeps what was pulled and adds at most one commit.
LEMMA CommittedType ==
    ASSUME repo \in RepoRecord
    PROVE  /\ Committed \in RepoRecord
           /\ Committed.head \in {repo.head, repo.head + 1}
           /\ Committed.pulled = repo.pulled
           /\ Committed.head \in Nat /\ Committed.pulled \in SUBSET Nat
<1> DEFINE h == IF repo.dirty THEN repo.head + 1 ELSE repo.head
           u == repo.unpushed \/ repo.dirty
<1>1. Committed = [repo EXCEPT !.head = h, !.unpushed = u, !.dirty = FALSE]
  BY DEF Committed
<1>2. h \in {repo.head, repo.head + 1} /\ h \in Nat
  BY DEF RepoRecord
<1>3. u \in BOOLEAN
  BY DEF RepoRecord
<1> HIDE DEF h, u
<1>4. QED
  BY <1>1, <1>2, <1>3 DEF RepoRecord

RanRecord(ok, head) == [st |-> "ran", op |-> "none", ok |-> ok, head |-> head]

LEMMA RanFacts ==
    ASSUME NEW ok \in BOOLEAN, NEW head \in Nat
    PROVE  /\ RanRecord(ok, head) \in CallRecord
           /\ RanRecord(ok, head).st = "ran" /\ RanRecord(ok, head).head = head
BY DEF RanRecord, CallRecord, InOwner

\* What an operation leaves in the checkout and answers.
LEMMA PullStep ==
    ASSUME BrokerType, NEW c \in Slots, NEW reached \in BOOLEAN, Pull(c, reached)
    PROVE  /\ call' = [call EXCEPT ![c] = RanRecord(reached, 0)]
           /\ repo' \in RepoRecord /\ repo'.head >= repo.head
           /\ repo'.pulled \in {repo.pulled, repo.pulled \cup {repo'.head}}
           /\ repo'.pulled # repo.pulled => repo'.head > repo.head
<1>1. repo \in RepoRecord /\ repo.head \in Nat
  BY DEF BrokerType, RepoRecord
<1>2. call' = [call EXCEPT ![c] = RanRecord(reached, 0)]
  BY DEF Pull, Ran, RanRecord
<1> DEFINE l == Committed
<1>3. /\ l \in RepoRecord /\ l.head \in {repo.head, repo.head + 1} /\ l.pulled = repo.pulled
      /\ l.head + 1 \in Nat /\ l.pulled \cup {l.head + 1} \in SUBSET Nat
  BY <1>1, CommittedType
<1>4. \/ repo' = l
      \/ repo' = [l EXCEPT !.head = l.head + 1, !.behind = FALSE,
                           !.pulled = l.pulled \cup {l.head + 1}]
  BY DEF Pull
<1> HIDE DEF l
<1>5. CASE repo' = l
  BY <1>1, <1>2, <1>3, <1>5
<1>6. CASE repo' = [l EXCEPT !.head = l.head + 1, !.behind = FALSE,
                             !.pulled = l.pulled \cup {l.head + 1}]
  <2>1. /\ repo' \in RepoRecord /\ repo'.head = l.head + 1
        /\ repo'.pulled = repo.pulled \cup {l.head + 1}
    BY <1>3, <1>6 DEF RepoRecord
  <2>2. QED
    BY <1>1, <1>2, <1>3, <2>1
<1>7. QED
  BY <1>4, <1>5, <1>6

LEMMA PushStep ==
    ASSUME BrokerType, NEW c \in Slots, NEW reached \in BOOLEAN, CommitAndPush(c, reached)
    PROVE  /\ \E ok \in BOOLEAN : \E head \in Nat :
                /\ call' = [call EXCEPT ![c] = RanRecord(ok, head)]
                /\ head <= repo'.head
           /\ repo' \in RepoRecord /\ repo'.head >= repo.head
           /\ repo'.pulled = repo.pulled
<1>1. repo \in RepoRecord /\ repo.head \in Nat
  BY DEF BrokerType, RepoRecord
<1> DEFINE l == Committed
           pushed == reached /\ ~repo.behind
           n == IF pushed THEN l.head ELSE 0
<1>2. /\ l \in RepoRecord /\ l.head \in {repo.head, repo.head + 1} /\ l.pulled = repo.pulled
      /\ l.head \in Nat
  BY <1>1, CommittedType
<1>3. pushed \in BOOLEAN
  OBVIOUS
<1>4. \/ call' = [call EXCEPT ![c] = RanRecord(TRUE, 0)] /\ repo' = repo
      \/ /\ call' = [call EXCEPT ![c] = RanRecord(pushed, n)]
         /\ repo' = [l EXCEPT !.unpushed = ~pushed]
  BY DEF CommitAndPush, Ran, RanRecord
<1>5. n \in Nat /\ n <= l.head
  BY <1>1, <1>2
<1> HIDE DEF l, pushed, n
<1>6. CASE call' = [call EXCEPT ![c] = RanRecord(TRUE, 0)] /\ repo' = repo
  <2>1. 0 <= repo'.head /\ repo'.head >= repo.head
    BY <1>1, <1>6
  <2>2. QED
    BY <1>1, <1>6, <2>1
<1>7. CASE /\ call' = [call EXCEPT ![c] = RanRecord(pushed, n)]
           /\ repo' = [l EXCEPT !.unpushed = ~pushed]
  <2> DEFINE q == ~pushed
  <2>1. q \in BOOLEAN
    BY <1>3
  <2>2. repo' = [l EXCEPT !.unpushed = q]
    BY <1>7
  <2> HIDE DEF q
  <2>3. repo' \in RepoRecord /\ repo'.head = l.head /\ repo'.pulled = l.pulled
    BY <1>2, <2>1, <2>2 DEF RepoRecord
  <2>4. repo'.head >= repo.head /\ n <= repo'.head /\ repo'.pulled = repo.pulled
    BY <1>1, <1>2, <1>5, <2>3
  <2>5. QED
    BY <1>3, <1>5, <1>7, <2>3, <2>4
<1>8. QED
  BY <1>4, <1>6, <1>7

LEMMA ExecuteStep ==
    ASSUME BrokerType, NEW c \in Slots, Execute(c)
    PROVE  /\ UNCHANGED <<owner, journal, past>>
           /\ call[c].st = "started"
           /\ \E r \in CallRecord : /\ call' = [call EXCEPT ![c] = r] /\ r.st = "ran"
                                    /\ r.head <= repo'.head
           /\ repo' \in RepoRecord /\ repo'.head >= repo.head
           /\ repo'.pulled \in {repo.pulled, repo.pulled \cup {repo'.head}}
           /\ repo'.pulled # repo.pulled => repo'.head > repo.head
<1>1. /\ call[c].st = "started"
      /\ UNCHANGED <<owner, journal, past>>
      /\ \E reached \in BOOLEAN : Pull(c, reached) \/ CommitAndPush(c, reached)
  BY DEF Execute
<1>2. ASSUME NEW reached \in BOOLEAN, Pull(c, reached)
      PROVE  \E r \in CallRecord : /\ call' = [call EXCEPT ![c] = r] /\ r.st = "ran"
                                   /\ r.head <= repo'.head
  <2>1. RanRecord(reached, 0) \in CallRecord
        /\ RanRecord(reached, 0).st = "ran" /\ RanRecord(reached, 0).head = 0
    BY RanFacts
  <2>2. repo'.head >= 0
    BY <1>2, PullStep DEF RepoRecord
  <2>3. QED
    BY <1>2, <2>1, <2>2, PullStep
<1>3. ASSUME NEW reached \in BOOLEAN, CommitAndPush(c, reached)
      PROVE  \E r \in CallRecord : /\ call' = [call EXCEPT ![c] = r] /\ r.st = "ran"
                                   /\ r.head <= repo'.head
  <2>1. PICK ok \in BOOLEAN, head \in Nat :
          call' = [call EXCEPT ![c] = RanRecord(ok, head)] /\ head <= repo'.head
    BY <1>3, PushStep
  <2>2. QED
    BY <2>1, RanFacts
<1>4. QED
  BY <1>1, <1>2, <1>3, PullStep, PushStep

-----------------------------------------------------------------------------
(* The owner, its journal and its calls.                                    *)

LEMMA OwnerFacts ==
    ASSUME BrokerType
    PROVE  /\ owner.phase \in {"down", "rotating", "listening", "up"}
           /\ Down \in OwnerRecord /\ Down.phase = "down" /\ Down.inherits = FALSE
           /\ \A c \in Slots : call[c] \in CallRecord
           /\ journal.open \in SUBSET Slots /\ past.interrupted \in SUBSET Slots
           /\ repo.head \in Nat /\ past.from \in Nat
BY DEF BrokerType, OwnerRecord, JournalRecord, PastRecord, RepoRecord, Down

\* A step that only tells callers something.
LEMMA TellsKeep ==
    ASSUME BrokerInv, call' \in [Slots -> CallRecord],
           \A c \in Slots : call'[c] = call[c] \/ call'[c].st \in {"idle", "answered"},
           UNCHANGED <<owner, journal, repo, past>>
    PROVE  BrokerInv'
BY DEF BrokerInv, BrokerType, Recorded, Found, Inherited, Serving, InOwner

LEMMA CallKeeps ==
    ASSUME BrokerInv, NEW c \in Callers, CallStep(c)
    PROVE  BrokerInv'
<1>1. c \in Slots /\ call \in [Slots -> CallRecord]
  BY SlotFacts DEF BrokerInv, BrokerType
<1>2. CASE call' = [call EXCEPT ![c] = Quiet]
  BY <1>1, <1>2, CallFacts, TellsKeep DEF CallStep
<1>3. CASE call' = [call EXCEPT ![c] = Refused]
  BY <1>1, <1>3, CallFacts, TellsKeep DEF CallStep
<1>4. ASSUME Admits, NEW op \in {"pull", "commit-and-push"},
             call' = [call EXCEPT ![c] = [Quiet EXCEPT !.st = "admitted", !.op = op]]
      PROVE  BrokerInv'
  <2> DEFINE r == [Quiet EXCEPT !.st = "admitted", !.op = op]
  <2>1. r \in CallRecord /\ r.st = "admitted"
    BY CallFacts
  <2>2. call' = [call EXCEPT ![c] = r]
    BY <1>4
  <2> HIDE DEF r
  <2>3. UNCHANGED <<owner, journal, repo, past>> /\ Serving
    BY <1>4 DEF CallStep, Admits
  <2>4. QED
    BY <1>1, <2>1, <2>2, <2>3
       DEF BrokerInv, BrokerType, Recorded, Found, Inherited, Serving, InOwner
<1>5. QED
  BY <1>2, <1>3, <1>4 DEF CallStep

LEMMA ServesKeeps ==
    ASSUME BrokerInv, NEW c \in Slots, RecordStart(c) \/ RecordSettled(c)
    PROVE  BrokerInv'
<1>1. call \in [Slots -> CallRecord] /\ journal \in JournalRecord /\ call[c] \in CallRecord
  BY DEF BrokerInv, BrokerType
<1>2. CASE RecordStart(c)
  <2>1. Serving /\ owner.phase = "up"
    BY <1>2 DEF RecordStart, BrokerInv, Recorded, InOwner, Serving
  <2>2. /\ journal' \in JournalRecord /\ journal'.open = journal.open \cup {c}
        /\ journal'.written = TRUE /\ journal'.exists = journal.exists
    BY <1>1, <1>2 DEF RecordStart, JournalRecord
  <2>3. /\ call' \in [Slots -> CallRecord] /\ call'[c].st = "started"
        /\ \A d \in Slots \ {c} : call'[d] = call[d]
    BY <1>1, <1>2 DEF RecordStart, Advance, CallRecord, InOwner
  <2>4. UNCHANGED <<owner, repo, past>>
    BY <1>2 DEF RecordStart
  <2>5. QED
    BY <2>1, <2>2, <2>3, <2>4
       DEF BrokerInv, BrokerType, Recorded, Found, Inherited, Serving, InOwner
<1>3. CASE RecordSettled(c)
  <2>1. Serving /\ owner.phase = "up"
    BY <1>3 DEF RecordSettled, BrokerInv, Recorded, InOwner, Serving
  <2>2. /\ journal' \in JournalRecord /\ journal'.open = journal.open \ {c}
        /\ journal'.written = journal.written /\ journal'.exists = journal.exists
    BY <1>1, <1>3 DEF RecordSettled, JournalRecord
  <2>3. [call[c] EXCEPT !.st = "answered"] \in CallRecord
        /\ [call[c] EXCEPT !.st = "answered"].st = "answered"
    BY <1>1 DEF CallRecord
  <2>4. /\ call' \in [Slots -> CallRecord] /\ call'[c].st \in {"idle", "answered"}
        /\ \A d \in Slots \ {c} : call'[d] = call[d]
    BY <1>1, <1>3, <2>3, CallFacts DEF RecordSettled, Reply
  <2>5. UNCHANGED <<owner, repo, past>>
    BY <1>3 DEF RecordSettled
  <2>6. QED
    BY <2>1, <2>2, <2>4, <2>5
       DEF BrokerInv, BrokerType, Recorded, Found, Inherited, Serving, InOwner
<1>4. QED
  BY <1>2, <1>3

LEMMA ExecuteKeeps ==
    ASSUME BrokerInv, NEW c \in Slots, Execute(c)
    PROVE  BrokerInv'
<1>1. BrokerType
  BY DEF BrokerInv
<1>2. PICK r \in CallRecord : call' = [call EXCEPT ![c] = r] /\ r.st = "ran"
  BY <1>1, ExecuteStep
<1>3. /\ UNCHANGED <<owner, journal, past>> /\ call[c].st = "started"
      /\ repo' \in RepoRecord /\ repo'.head >= repo.head
  BY <1>1, ExecuteStep
<1>4. call' \in [Slots -> CallRecord] /\ \A d \in Slots \ {c} : call'[d] = call[d]
  BY <1>1, <1>2 DEF BrokerType
<1>5. past.from <= repo'.head
  <2>1. past.from \in Nat /\ repo.head \in Nat /\ repo'.head \in Nat /\ past.from <= repo.head
    BY <1>1, <1>3, OwnerFacts DEF BrokerInv, Inherited, RepoRecord
  <2>2. QED
    BY <1>3, <2>1
<1>6. QED
  BY <1>1, <1>2, <1>3, <1>4, <1>5
     DEF BrokerInv, BrokerType, Recorded, Found, Inherited, Serving, InOwner

LEMMA FailedRecordKeeps ==
    ASSUME BrokerInv, NEW c \in Slots, StartRecordFails(c) \/ SettledRecordFails(c)
    PROVE  BrokerInv'
<1>1. call \in [Slots -> CallRecord] /\ owner \in OwnerRecord
  BY DEF BrokerInv, BrokerType
<1>2. /\ owner' \in OwnerRecord /\ owner'.phase = owner.phase
      /\ owner'.inherits = owner.inherits /\ owner'.ambiguous = owner.ambiguous
  BY <1>1 DEF StartRecordFails, SettledRecordFails, CloseAdmission, OwnerRecord
<1>3. /\ call' \in [Slots -> CallRecord] /\ call'[c].st \in {"idle", "answered"}
      /\ \A d \in Slots \ {c} : call'[d] = call[d]
  BY <1>1, CallFacts DEF StartRecordFails, SettledRecordFails, Reply
<1>4. UNCHANGED <<journal, repo, past>>
  BY DEF StartRecordFails, SettledRecordFails
<1>5. QED
  BY <1>2, <1>3, <1>4
     DEF BrokerInv, BrokerType, Recorded, Found, Inherited, Serving, InOwner

\* What the journal holds of an owner that goes is what it was carrying out; one that goes
\* before it serves takes what it had read with it, and the record if it had written none.
LEMMA GoneKeeps ==
    ASSUME BrokerInv, OwnerGone, UNCHANGED <<journal, repo>>,
           call' \in [Slots -> CallRecord], \A c \in Slots : call'[c].st \notin InOwner
    PROVE  BrokerInv'
<1> DEFINE cut == IF Serving THEN {c \in Slots : call[c].st \in {"started", "ran"}}
                             ELSE past.interrupted
           gone == ~journal.exists /\ (owner.inherits \/ past.lost)
           read == ~Serving /\ (owner.ambiguous # {} \/ past.aside)
<1>1. BrokerType
  BY DEF BrokerInv
<1>2. past' = [past EXCEPT !.strayed = FALSE, !.lost = gone, !.aside = read,
                         !.interrupted = cut]
  BY DEF OwnerGone
<1>3. gone \in BOOLEAN /\ read \in BOOLEAN
  OBVIOUS
<1>4. cut \in SUBSET Slots
  <2>1. {c \in Slots : call[c].st \in {"started", "ran"}} \in SUBSET Slots
    OBVIOUS
  <2>2. QED
    BY <1>1, <2>1, OwnerFacts
<1>5. ~read => cut \subseteq journal.open
  <2>1. CASE Serving
    BY <2>1 DEF BrokerInv, Recorded
  <2>2. ASSUME ~Serving, ~past.aside, owner.ambiguous = {}
        PROVE  cut \subseteq journal.open
    BY <2>2 DEF BrokerInv, Found
  <2>3. QED
    BY <2>1, <2>2
<1>6. past.born /\ ~gone => journal.exists
  BY <1>1, OwnerFacts DEF BrokerInv, Recorded, Inherited, Serving
<1> HIDE DEF cut, gone, read
<1>7. /\ past' \in PastRecord /\ past'.lost = gone /\ past'.aside = read
      /\ past'.interrupted = cut
      /\ past'.born = past.born /\ past'.from = past.from
  BY <1>1, <1>2, <1>3, <1>4 DEF BrokerType, PastRecord
<1>8. owner' = Down
  BY DEF OwnerGone
<1>9. owner'.phase = "down" /\ owner' \in OwnerRecord
  BY <1>1, <1>8, OwnerFacts
<1>10. BrokerType'
  BY <1>1, <1>7, <1>9 DEF BrokerType
<1>11. Recorded'
  BY <1>9 DEF BrokerInv, Recorded, Serving, InOwner
<1>12. Found'
  BY <1>5, <1>7, <1>9 DEF Found
<1>13. Inherited'
  BY <1>6, <1>7, <1>9 DEF BrokerInv, Inherited
<1>14. QED
  BY <1>10, <1>11, <1>12, <1>13 DEF BrokerInv

LEMMA DiesKeeps ==
    ASSUME BrokerInv, OwnerDies
    PROVE  BrokerInv'
<1>1. call \in [Slots -> CallRecord]
  BY DEF BrokerInv, BrokerType
<1>2. PICK gone \in SUBSET {c \in Callers : call[c].st = "answered"} :
        call' = [c \in Slots |->
                   IF c \in gone \/ (c \in Callers /\ call[c].st \in InOwner)
                   THEN Refused ELSE IF c = Nobody THEN Quiet ELSE call[c]]
  BY DEF OwnerDies
<1>3. call' \in [Slots -> CallRecord]
  BY <1>1, <1>2, CallFacts
<1>4. \A c \in Slots : call'[c].st \notin InOwner
  BY <1>1, <1>2, CallFacts DEF InOwner, Slots
<1>5. QED
  BY <1>3, <1>4, GoneKeeps DEF OwnerDies

LEMMA RestartKeeps ==
    ASSUME BrokerInv, RuntimeRestarts
    PROVE  BrokerInv'
<1>1. /\ call' \in [Slots -> CallRecord]
      /\ \A c \in Slots : call'[c].st \notin InOwner
  BY CallFacts DEF RuntimeRestarts, InOwner
<1>2. QED
  BY <1>1, GoneKeeps DEF RuntimeRestarts

LEMMA RotationKeeps ==
    ASSUME BrokerInv, OwnerRotates \/ OwnerWrites \/ OwnerListens \/ StartCrashes
    PROVE  BrokerInv'
<1>1. BrokerType /\ owner \in OwnerRecord /\ journal \in JournalRecord /\ past \in PastRecord
  BY DEF BrokerInv, BrokerType
<1>2. CASE OwnerRotates
  <2> DEFINE kept == journal.exists /\ ~journal.written
  <2>1. /\ owner' = [Down EXCEPT !.phase = "rotating", !.inherits = journal.exists,
                                 !.ambiguous = journal.open]
        /\ journal' = [exists |-> kept, written |-> FALSE, open |-> {}]
        /\ owner.phase = "down" /\ UNCHANGED <<call, repo, past>>
    BY <1>2 DEF OwnerRotates
  <2>2. /\ owner' \in OwnerRecord /\ owner'.phase = "rotating"
        /\ owner'.inherits = journal.exists /\ owner'.ambiguous = journal.open
    BY <1>1, <2>1 DEF Down, OwnerRecord, JournalRecord
  <2>3. kept \in BOOLEAN
    OBVIOUS
  <2>4. journal.exists /\ kept => journal.open = {}
    BY DEF BrokerInv, Recorded
  <2>5. ~journal.exists => journal.open = {}
    BY DEF BrokerInv, Recorded
  <2> HIDE DEF kept
  <2>6. /\ journal' \in JournalRecord /\ journal'.exists = kept
        /\ journal'.written = FALSE /\ journal'.open = {}
    BY <2>1, <2>3 DEF JournalRecord
  <2>7. QED
    BY <2>1, <2>2, <2>4, <2>5, <2>6
       DEF BrokerInv, BrokerType, Recorded, Found, Inherited, Serving, InOwner
<1>3. CASE OwnerListens
  <2> DEFINE free == ~owner.inherits
             from == IF past.born THEN repo.head ELSE 0
  <2>1. /\ owner' = [owner EXCEPT !.phase = "up", !.admits = free]
        /\ past' = [past EXCEPT !.born = TRUE, !.from = from]
        /\ owner.phase = "listening" /\ UNCHANGED <<journal, call, repo>>
    BY <1>3 DEF OwnerListens
  <2>2. free \in BOOLEAN
    OBVIOUS
  <2>3. from \in Nat /\ from <= repo.head
    BY <1>1, OwnerFacts
  <2> HIDE DEF free, from
  <2>4. /\ owner' \in OwnerRecord /\ owner'.phase = "up"
        /\ owner'.ambiguous = owner.ambiguous
    BY <1>1, <2>1, <2>2 DEF OwnerRecord
  <2>5. journal.exists = TRUE
    BY <1>1, <2>1 DEF BrokerInv, Recorded, JournalRecord
  <2>6. /\ past' \in PastRecord /\ past'.from = from /\ past'.born = TRUE
        /\ past'.lost = past.lost /\ past'.aside = past.aside
        /\ past'.interrupted = past.interrupted
    BY <1>1, <2>1, <2>3 DEF PastRecord
  <2>7. QED
    BY <2>1, <2>3, <2>4, <2>5, <2>6
       DEF BrokerInv, BrokerType, Recorded, Found, Inherited, Serving
<1>4. CASE StartCrashes
  <2>1. ~Serving
    BY <1>4 DEF StartCrashes, Serving
  <2>2. QED
    BY <1>1, <1>4, <2>1, GoneKeeps DEF StartCrashes, BrokerInv, BrokerType, Recorded
<1>5. CASE OwnerWrites
  <2>1. /\ owner' = [owner EXCEPT !.phase = "listening"]
        /\ journal' = [journal EXCEPT !.exists = TRUE]
        /\ owner.phase = "rotating" /\ UNCHANGED <<call, repo, past>>
    BY <1>5 DEF OwnerWrites
  <2>2. /\ owner' \in OwnerRecord /\ owner'.phase = "listening"
        /\ owner'.inherits = owner.inherits /\ owner'.ambiguous = owner.ambiguous
    BY <1>1, <2>1 DEF OwnerRecord
  <2>3. /\ journal' \in JournalRecord /\ journal'.exists = TRUE
        /\ journal'.written = journal.written /\ journal'.open = journal.open
    BY <1>1, <2>1 DEF JournalRecord
  <2>4. QED
    BY <2>1, <2>2, <2>3
       DEF BrokerInv, BrokerType, Recorded, Found, Inherited, Serving, InOwner
<1>6. QED
  BY <1>2, <1>3, <1>4, <1>5

LEMMA OpensKeeps ==
    ASSUME BrokerInv, NEW f \in Flows, Opens(f)
    PROVE  BrokerInv'
<1> DEFINE strayed == past.strayed \/ (~owner.admits /\ flow[f].stray)
<1>1. /\ owner' = [owner EXCEPT !.admits = TRUE, !.failed = FALSE]
      /\ past' = [past EXCEPT !.strayed = strayed]
      /\ UNCHANGED <<journal, call, repo>>
  BY DEF Opens, OpenAdmission
<1>2. strayed \in BOOLEAN
  OBVIOUS
<1> HIDE DEF strayed
<1>3. /\ owner' \in OwnerRecord /\ owner'.phase = owner.phase
      /\ owner'.inherits = owner.inherits /\ owner'.ambiguous = owner.ambiguous
  BY <1>1 DEF BrokerInv, BrokerType, OwnerRecord
<1>4. /\ past' \in PastRecord /\ past'.from = past.from /\ past'.born = past.born
      /\ past'.lost = past.lost /\ past'.aside = past.aside
      /\ past'.interrupted = past.interrupted
  BY <1>1, <1>2 DEF BrokerInv, BrokerType, PastRecord
<1>5. QED
  BY <1>1, <1>3, <1>4 DEF BrokerInv, BrokerType, Recorded, Found, Inherited, Serving

LEMMA CheckoutKeeps ==
    ASSUME BrokerInv, EditsArrive \/ RemoteAdvances
    PROVE  /\ BrokerInv' /\ UNCHANGED <<owner, journal, call, past>>
           /\ repo' \in RepoRecord /\ repo'.head = repo.head /\ repo'.pulled = repo.pulled
<1>1. /\ repo' \in RepoRecord /\ repo'.head = repo.head /\ repo'.pulled = repo.pulled
  BY DEF EditsArrive, RemoteAdvances, BrokerInv, BrokerType, RepoRecord
<1>2. UNCHANGED <<owner, journal, call, past>>
  BY DEF EditsArrive, RemoteAdvances
<1>3. QED
  BY <1>1, <1>2 DEF BrokerInv, BrokerType, Recorded, Found, Inherited, Serving

\* A worker's call that the owner holds goes on in nobody's name.
LEMMA WorkerKeeps ==
    ASSUME BrokerInv, WorkerDies
    PROVE  BrokerInv'
<1>1. /\ call \in [Slots -> CallRecord] /\ journal \in JournalRecord
      /\ call["job"] \in CallRecord /\ "job" \in Slots /\ Nobody \in Slots /\ "job" # Nobody
  BY SlotFacts DEF BrokerInv, BrokerType, Nobody
<1>2. UNCHANGED <<owner, repo, past>>
  BY DEF WorkerDies
<1>3. CASE call["job"].st \in InOwner
  <2> DEFINE held == IF "job" \in journal.open
                     THEN (journal.open \ {"job"}) \cup {Nobody} ELSE journal.open
  <2>1. /\ call' = [call EXCEPT !["job"] = Quiet, ![Nobody] = call["job"]]
        /\ journal' = [journal EXCEPT !.open = held]
    BY <1>3 DEF WorkerDies
  <2>2. Serving /\ owner.phase = "up"
    BY <1>1, <1>3 DEF BrokerInv, Recorded, Serving
  <2>3. call' \in [Slots -> CallRecord]
    BY <1>1, <2>1, CallFacts
  <2>4. /\ call'[Nobody] = call["job"] /\ call'["job"].st = "idle"
        /\ \A c \in Slots \ {"job", Nobody} : call'[c] = call[c]
    BY <1>1, <2>1, CallFacts
  <2>5. held \in SUBSET Slots /\ (held # {} => journal.open # {})
    BY <1>1 DEF JournalRecord
  <2>6. \A c \in Slots : call'[c].st \in {"started", "ran"} => c \in held
    BY <1>1, <2>4 DEF BrokerInv, Recorded
  <2> HIDE DEF held
  <2>7. /\ journal' \in JournalRecord /\ journal'.open = held
        /\ journal'.exists = journal.exists /\ journal'.written = journal.written
    BY <1>1, <2>1, <2>5 DEF JournalRecord
  <2>8. QED
    BY <1>2, <2>2, <2>3, <2>5, <2>6, <2>7
       DEF BrokerInv, BrokerType, Recorded, Found, Inherited, Serving
<1>4. CASE call["job"].st \notin InOwner
  <2>1. /\ call' \in [Slots -> CallRecord] /\ UNCHANGED journal
        /\ \A c \in Slots : call'[c] = call[c] \/ call'[c].st \in {"idle", "answered"}
    BY <1>1, <1>4, CallFacts DEF WorkerDies
  <2>2. QED
    BY <1>2, <2>1, TellsKeep
<1>5. QED
  BY <1>3, <1>4

LEMMA BrokerKept ==
    ASSUME BrokerInv, [Next]_vars
    PROVE  BrokerInv'
<1>1. CASE UNCHANGED <<owner, journal, call, repo, past>>
  BY <1>1 DEF BrokerInv, BrokerType, Recorded, Found, Inherited, Serving
<1>2. CASE LosesOwner
  BY <1>2, DiesKeeps DEF LosesOwner
<1>3. QED
  BY <1>1, <1>2, BrokerCases, CallKeeps, RestartKeeps, OpensKeeps, CheckoutKeeps,
     WorkerKeeps, RotationKeeps, ServesKeeps, ExecuteKeeps, FailedRecordKeeps

-----------------------------------------------------------------------------
(* What the roles go on with.                                               *)

\* The checkout and the history move on: commits are added beyond the head.
Grown(rp, sn, rq, sq) ==
    /\ rp \in RepoRecord /\ rq \in RepoRecord /\ sn \in SeenRecord /\ sq \in SeenRecord
    /\ rp.head <= rq.head
    /\ \A c \in rq.pulled \ rp.pulled : rp.head < c
    /\ sn.delivered \subseteq sq.delivered
    /\ sn.overtaken <= sq.overtaken

LEMMA MarkGrown ==
    ASSUME NEW n, NEW rp, NEW sn, NEW rq, NEW sq, Mark(n, rp, sn), Grown(rp, sn, rq, sq)
    PROVE  Mark(n, rq, sq)
<1>1. /\ n \in Nat /\ rp.head \in Nat /\ rq.head \in Nat /\ rq.pulled \subseteq Nat
      /\ sn.overtaken \in Nat /\ sq.overtaken \in Nat
  BY DEF Mark, Grown, RepoRecord, SeenRecord
<1>2. n <= rp.head /\ rp.head <= rq.head /\ sn.overtaken <= sq.overtaken
  BY DEF Mark, Grown
<1>3. ASSUME NEW c \in rq.pulled, sq.overtaken < c, c <= n
      PROVE  c \in sq.delivered
  <2>1. c \in Nat /\ c <= rp.head /\ sn.overtaken < c
    BY <1>1, <1>2, <1>3
  <2>2. c \in rp.pulled
    BY <1>1, <2>1 DEF Grown
  <2>3. QED
    BY <1>3, <2>1, <2>2 DEF Mark, Grown
<1>4. QED
  BY <1>1, <1>2, <1>3 DEF Mark

LEMMA FitsGrown ==
    ASSUME NEW f, NEW r, NEW rp, NEW sn, NEW rq, NEW sq, Fits(f, r, rp, sn),
           Grown(rp, sn, rq, sq),
           r.pc = "capture" /\ f = "startup" => rq.head = rp.head
    PROVE  Fits(f, r, rq, sq)
<1>1. /\ r.from \in Nat /\ r.head \in Nat /\ rp.head \in Nat /\ rq.head \in Nat
      /\ rp.head <= rq.head
  BY DEF Fits, FlowRecord, Grown, RepoRecord
<1>2. r.from <= rq.head /\ r.head <= rq.head
  BY <1>1 DEF Fits
<1>3. r.pc \in {"derive", "queueing"} => Mark(r.from, rq, sq)
  BY MarkGrown DEF Fits
<1>4. r.pc = "checkpoint" /\ f # "save" => Mark(r.head, rq, sq)
  BY MarkGrown DEF Fits
<1>5. r.pc = "capture" /\ f = "startup" => Mark(rq.head, rq, sq)
  BY MarkGrown DEF Fits
<1>6. QED
  BY <1>2, <1>3, <1>4, <1>5 DEF Fits

LEMMA MarkZero ==
    ASSUME NEW rp \in RepoRecord, NEW sn \in SeenRecord
    PROVE  Mark(0, rp, sn)
<1>1. rp.head \in Nat /\ sn.overtaken \in Nat /\ rp.pulled \subseteq Nat
  BY DEF RepoRecord, SeenRecord
<1>2. QED
  BY <1>1 DEF Mark

\* A role that rests, or that begins anew, goes on with nothing.
LEMMA FitsResting ==
    ASSUME NEW f \in Flows, NEW rp \in RepoRecord, NEW sn,
           NEW r \in FlowRecord, r.from = 0, r.head = 0,
           \/ r.pc \in {"idle", "attach", "initialize", "pull", "asking", "import"}
           \/ r.pc = "open" /\ f \in Replays
    PROVE  Fits(f, r, rp, sn)
<1>1. rp.head \in Nat
  BY DEF RepoRecord
<1>2. QED
  BY <1>1 DEF Fits

LEMMA GrownSame ==
    ASSUME NEW rp \in RepoRecord, NEW sn \in SeenRecord, NEW sq \in SeenRecord,
           sn.delivered \subseteq sq.delivered, sn.overtaken <= sq.overtaken
    PROVE  Grown(rp, sn, rp, sq)
<1>1. rp.head \in Nat
  BY DEF RepoRecord
<1>2. QED
  BY <1>1 DEF Grown

LEMMA HandedFacts ==
    ASSUME BrokerType, Handed
    PROVE  /\ repo \in RepoRecord /\ seen \in SeenRecord
           /\ repo.head \in Nat /\ seen.overtaken \in Nat /\ seen.looked \in Nat
           /\ seen.delivered \in SUBSET Nat /\ repo.pulled \in SUBSET Nat
           /\ \A f \in Flows : flow[f] \in FlowRecord /\ Fits(f, flow[f], repo, seen)
           /\ \A p \in Processes : Mark(cache[p].at, repo, seen)
           /\ \A c \in Slots : call[c] \in CallRecord /\ call[c].head <= repo.head
           /\ Grown(repo, seen, repo, seen)
<1>1. repo \in RepoRecord /\ seen \in SeenRecord /\ seen.overtaken \in Nat
  BY DEF BrokerType, Handed, SeenRecord
<1>2. Grown(repo, seen, repo, seen)
  BY <1>1, GrownSame
<1>3. QED
  BY <1>1, <1>2 DEF BrokerType, Handed, RepoRecord, SeenRecord

\* A step keeps what the roles go on with if whatever it sets anew is sound.
LEMMA HandedStep ==
    ASSUME BrokerType, Handed, Grown(repo, seen, repo', seen'),
           flow' \in [Flows -> FlowRecord], cache' \in [Processes -> CacheRecord],
           stored' = stored \/ Mark(stored', repo', seen'),
           \A p \in Processes :
              cache'[p].at = cache[p].at \/ Mark(cache'[p].at, repo', seen'),
           \A f \in Flows :
              \/ /\ flow'[f] = flow[f]
                 /\ f = "startup" /\ flow[f].pc = "capture" => repo'.head = repo.head
              \/ Fits(f, flow'[f], repo', seen'),
           \A c \in Slots : call'[c].head <= repo'.head
    PROVE  Handed'
<1>1. Mark(stored', repo', seen')
  BY MarkGrown DEF Handed
<1>2. ASSUME NEW p \in Processes
      PROVE  Mark(cache'[p].at, repo', seen')
  BY <1>2, MarkGrown DEF Handed
<1>3. ASSUME NEW f \in Flows
      PROVE  Fits(f, flow'[f], repo', seen')
  BY <1>3, FitsGrown DEF Handed
<1>4. seen' \in SeenRecord
  BY DEF Grown
<1>5. QED
  BY <1>1, <1>2, <1>3, <1>4 DEF Handed

\* A role's own step.
LEMMA OneFlow ==
    ASSUME BrokerType, Handed, NEW f \in Flows, NEW r \in FlowRecord,
           flow' = [flow EXCEPT ![f] = r], Fits(f, r, repo, seen'),
           Grown(repo, seen, repo, seen'), repo' = repo, cache' \in [Processes -> CacheRecord],
           stored' = stored \/ Mark(stored', repo, seen'),
           \A p \in Processes :
              cache'[p].at = cache[p].at \/ Mark(cache'[p].at, repo, seen'),
           \A c \in Slots : call'[c].head <= repo.head
    PROVE  Handed'
<1>1. flow \in [Flows -> FlowRecord]
  BY DEF Handed
<1>2. flow' \in [Flows -> FlowRecord] /\ flow'[f] = r /\ \A g \in Flows \ {f} : flow'[g] = flow[g]
  BY <1>1
<1>3. QED
  BY <1>2, HandedStep

-----------------------------------------------------------------------------
(* The steps of a replay.                                                   *)

LEMMA RolesAndProcesses ==
    /\ Replays \subseteq Flows /\ Callers \subseteq Flows /\ Recoveries \subseteq Flows
    /\ {"startup", "periodic", "save", "job"} \subseteq Flows
    /\ \A f \in Flows : ProcessOf(f) \in Processes
    /\ "web" \in Processes /\ "worker" \in Processes
BY SlotFacts DEF ProcessOf, Processes

\* A process that reads the checkpoint goes on from one that is sound.
LEMMA ReadCheckpointHands ==
    ASSUME BrokerType, Handed, NEW f \in Flows, ReadCheckpoint(f),
           UNCHANGED <<repo, stored, seen>>, \A c \in Slots : call'[c].head <= repo.head
    PROVE  Handed'
<1> DEFINE p == ProcessOf(f)
           at == IF cache[p].loaded THEN cache[p].at ELSE stored
           k == [loaded |-> TRUE, at |-> at]
           r == [flow[f] EXCEPT !.pc = "derive", !.from = at]
<1>1. /\ cache' = [cache EXCEPT ![p] = k]
      /\ flow' = [flow EXCEPT ![f] = r]
  BY DEF ReadCheckpoint, Handed
<1>2. Mark(at, repo, seen) /\ p \in Processes
  BY RolesAndProcesses DEF Handed
<1>3. at \in Nat /\ at <= repo.head
  BY <1>2 DEF Mark
<1> HIDE DEF at, p
<1>4. k \in CacheRecord /\ k.at = at
  BY <1>3 DEF CacheRecord
<1>5. flow[f] \in FlowRecord /\ Fits(f, flow[f], repo, seen)
  BY DEF Handed
<1>6. /\ r \in FlowRecord /\ r.pc = "derive" /\ r.from = at /\ r.head = flow[f].head
  BY <1>3, <1>5 DEF FlowRecord, Steps
<1> HIDE DEF k, r
<1>7. Fits(f, r, repo, seen)
  BY <1>2, <1>3, <1>5, <1>6 DEF Fits
<1>8. cache' \in [Processes -> CacheRecord] /\ cache'[p].at = at
      /\ \A q \in Processes \ {p} : cache'[q] = cache[q]
  BY <1>1, <1>2, <1>4 DEF Handed
<1>9. QED
  BY <1>1, <1>2, <1>6, <1>7, <1>8, OneFlow, HandedFacts

LEMMA RestsHands ==
    ASSUME BrokerType, Handed, NEW f \in Flows, Rests(f),
           UNCHANGED <<repo, cache, stored, seen>>,
           \A c \in Slots : call'[c].head <= repo.head
    PROVE  Handed'
<1>1. Fits(f, Resting, repo, seen)
  <2>1. repo \in RepoRecord
    BY HandedFacts
  <2>2. QED
    BY <2>1, FlowFacts, FitsResting
<1>2. cache' \in [Processes -> CacheRecord]
  BY DEF Handed
<1>3. QED
  BY <1>1, <1>2, FlowFacts, OneFlow, HandedFacts DEF Rests

LEMMA RestartHands ==
    ASSUME BrokerType, Handed, RuntimeRestarts
    PROVE  Handed'
<1> DEFINE s == [Resting EXCEPT !.pc = "attach"]
<1>1. s \in FlowRecord /\ s.pc = "attach" /\ s.from = 0 /\ s.head = 0
  BY DEF Resting, FlowRecord, Steps
<1>2. flow' = [f \in Flows |-> IF f = "startup" THEN s ELSE Resting]
  BY DEF RuntimeRestarts
<1> HIDE DEF s
<1>3. flow' \in [Flows -> FlowRecord]
  BY <1>1, <1>2, FlowFacts
<1>4. \A f \in Flows : Fits(f, flow'[f], repo, seen)
  <2>1. repo \in RepoRecord
    BY HandedFacts
  <2>2. \A f \in Flows : Fits(f, Resting, repo, seen) /\ Fits(f, s, repo, seen)
    BY <1>1, <2>1, FlowFacts, FitsResting
  <2>3. QED
    BY <1>2, <2>2
<1>5. /\ cache' \in [Processes -> CacheRecord]
      /\ \A p \in Processes : cache'[p].at = 0
  BY DEF RuntimeRestarts, Unloaded, CacheRecord
<1>6. \A c \in Slots : call'[c].head = 0
  BY CallFacts DEF RuntimeRestarts
<1>7. Mark(0, repo, seen) /\ repo.head >= 0
  BY MarkZero, HandedFacts
<1>8. UNCHANGED <<repo, stored, seen>>
  BY DEF RuntimeRestarts
<1>9. QED
  BY <1>3, <1>4, <1>5, <1>6, <1>7, <1>8, HandedStep, HandedFacts

LEMMA FailsHands ==
    ASSUME BrokerType, Handed, NEW f \in Flows, Fails(f)
    PROVE  Handed'
<1>1. RuntimeRestarts \/ (Rests(f) /\ UNCHANGED <<repo, call, cache, stored, seen>>)
  BY DEF Fails
<1>2. QED
  BY <1>1, RestartHands, RestsHands, HandedFacts

\* After its batch, or without one, a role rests or is about to open.
LEMMA FinishesFacts ==
    ASSUME Handed, NEW f \in Flows, Finishes(f)
    PROVE  \E r \in FlowRecord :
             /\ flow' = [flow EXCEPT ![f] = r] /\ r.from = 0 /\ r.head = 0
             /\ \/ f \in Replays /\ r.pc = "open" /\ r.stray = flow[f].stray
                \/ f \notin Replays /\ r.pc = "idle"
<1> DEFINE b == flow[f].stray
           r == [Resting EXCEPT !.pc = "open", !.stray = b]
<1>1. b \in BOOLEAN
  BY DEF Handed, FlowRecord
<1>2. f \in Replays => flow' = [flow EXCEPT ![f] = r]
  BY DEF Finishes
<1> HIDE DEF b
<1>3. /\ r \in FlowRecord /\ r.pc = "open" /\ r.stray = b /\ r.from = 0 /\ r.head = 0
  BY <1>1 DEF Resting, FlowRecord, Steps
<1> HIDE DEF r
<1>4. CASE f \in Replays
  BY <1>2, <1>3, <1>4 DEF b
<1>5. CASE f \notin Replays
  BY <1>5, FlowFacts DEF Finishes
<1>6. QED
  BY <1>4, <1>5

\* What was looked at only grows, and what was delivered and overtaken with it.
LEMMA LooksFacts ==
    ASSUME BrokerType, Handed, NEW f \in Flows, ReadDelta(f)
    PROVE  /\ seen' \in SeenRecord /\ Grown(repo, seen, repo, seen')
           /\ seen'.looked >= seen.looked
           /\ f \in Replays => seen'.looked >= repo.head
<1> DEFINE far == IF f \in Replays THEN Later(seen.looked, repo.head) ELSE seen.looked
<1>1. seen' = [seen EXCEPT !.looked = far]
  BY DEF ReadDelta
<1>2. far \in Nat /\ far >= seen.looked /\ (f \in Replays => far >= repo.head)
  BY HandedFacts DEF Later
<1> HIDE DEF far
<1>3. /\ seen' \in SeenRecord /\ seen'.looked = far
      /\ seen'.delivered = seen.delivered /\ seen'.overtaken = seen.overtaken
  BY <1>1, <1>2, HandedFacts DEF SeenRecord
<1>4. repo \in RepoRecord /\ seen \in SeenRecord /\ seen.overtaken \in Nat
  BY HandedFacts
<1>5. Grown(repo, seen, repo, seen')
  BY <1>3, <1>4, GrownSame
<1>6. QED
  BY <1>2, <1>3, <1>5

LEMMA ReadDeltaHands ==
    ASSUME BrokerType, Handed, NEW f \in Flows, ReadDelta(f)
    PROVE  Handed'
<1>1. /\ flow[f].pc = "derive" /\ flow[f] \in FlowRecord
      /\ repo \in RepoRecord /\ repo.head \in Nat /\ Fits(f, flow[f], repo, seen)
  BY HandedFacts DEF ReadDelta, At
<1>2. Mark(flow[f].from, repo, seen')
  BY <1>1, LooksFacts, MarkGrown DEF Fits
<1>3. /\ UNCHANGED <<repo, call, cache, stored>> /\ cache \in [Processes -> CacheRecord]
      /\ Grown(repo, seen, repo, seen')
      /\ \A c \in Slots : call'[c].head <= repo.head
  BY LooksFacts, HandedFacts DEF ReadDelta, brokerVars, Handed
<1>4. ASSUME NEW pc \in {"checkpoint", "queueing"}, Reaches(f, pc),
             pc = "checkpoint" => flow[f].from = repo.head
      PROVE  Handed'
  <2> DEFINE r == [flow[f] EXCEPT !.pc = pc, !.head = repo.head]
  <2>1. flow' = [flow EXCEPT ![f] = r]
    BY <1>4 DEF Reaches, Handed
  <2>2. r \in FlowRecord /\ r.pc = pc /\ r.head = repo.head /\ r.from = flow[f].from
    BY <1>1, <1>4 DEF FlowRecord, Steps
  <2> HIDE DEF r
  <2>3. Fits(f, r, repo, seen')
    BY <1>1, <1>2, <1>4, <2>2 DEF Fits
  <2>4. QED
    BY <1>3, <2>1, <2>2, <2>3, OneFlow
<1>5. CASE Finishes(f)
  <2>1. PICK r \in FlowRecord :
          /\ flow' = [flow EXCEPT ![f] = r] /\ r.from = 0 /\ r.head = 0
          /\ (f \in Replays /\ r.pc = "open") \/ r.pc = "idle"
    BY <1>5, FinishesFacts
  <2>2. Fits(f, r, repo, seen')
    BY <1>1, <2>1, FitsResting
  <2>3. QED
    BY <1>3, <2>1, <2>2, OneFlow
<1>6. QED
  BY <1>4, <1>5 DEF ReadDelta

LEMMA FinishBatchHands ==
    ASSUME BrokerType, Handed, NEW f \in Flows, FinishBatch(f)
    PROVE  Handed'
<1> DEFINE r == [flow[f] EXCEPT !.pc = "checkpoint", !.from = 0]
           more == seen.delivered \cup Brought(flow[f].from, flow[f].head)
<1>1. /\ flow[f].pc = "queueing" /\ flow[f] \in FlowRecord
      /\ repo \in RepoRecord /\ repo.head \in Nat /\ Fits(f, flow[f], repo, seen)
      /\ seen \in SeenRecord /\ repo.pulled \in SUBSET Nat /\ seen.overtaken \in Nat
  BY HandedFacts DEF FinishBatch, At
<1>2. /\ flow' = [flow EXCEPT ![f] = r] /\ seen' = [seen EXCEPT !.delivered = more]
      /\ UNCHANGED <<repo, call, cache, stored>>
  BY DEF FinishBatch, brokerVars, Handed
<1>3. more \in SUBSET Nat /\ seen.delivered \subseteq more
  BY <1>1 DEF Brought, SeenRecord
<1>4. \A c \in repo.pulled : seen.overtaken < c /\ c <= flow[f].head => c \in more
  <2>1. flow[f].from \in Nat /\ flow[f].head \in Nat
    BY <1>1 DEF FlowRecord
  <2>2. ASSUME NEW c \in repo.pulled, seen.overtaken < c, c <= flow[f].head
        PROVE  c \in more
    <3>1. CASE c <= flow[f].from
      BY <1>1, <2>2, <3>1 DEF Fits, Mark
    <3>2. CASE ~(c <= flow[f].from)
      BY <1>1, <2>1, <2>2, <3>2 DEF Brought
    <3>3. QED
      BY <3>1, <3>2
  <2>3. QED
    BY <2>2
<1>5. /\ r \in FlowRecord /\ r.pc = "checkpoint" /\ r.from = 0 /\ r.head = flow[f].head
  BY <1>1 DEF FlowRecord, Steps
<1> HIDE DEF r, more
<1>6. /\ seen' \in SeenRecord /\ seen'.delivered = more
      /\ seen'.overtaken = seen.overtaken /\ seen'.looked = seen.looked
  BY <1>1, <1>2, <1>3 DEF SeenRecord
<1>7. Grown(repo, seen, repo, seen')
  BY <1>1, <1>3, <1>6, GrownSame
<1>8. Fits(f, r, repo, seen')
  <2>1. flow[f].head \in Nat /\ flow[f].head <= repo.head
    BY <1>1 DEF Fits, FlowRecord
  <2>2. Mark(r.head, repo, seen')
    BY <1>4, <1>5, <1>6, <2>1 DEF Mark
  <2>3. QED
    BY <1>1, <1>5, <2>1, <2>2 DEF Fits
<1>9. cache' \in [Processes -> CacheRecord] /\ \A c \in Slots : call'[c].head <= repo.head
  BY <1>2, HandedFacts DEF Handed
<1>10. QED
  BY <1>2, <1>5, <1>7, <1>8, <1>9, OneFlow

\* Auto-commit marks its head as overtaken with the checkpoint.
LEMMA SaveHands ==
    ASSUME BrokerType, Handed, NEW f \in Flows, SaveCheckpoint(f)
    PROVE  Handed'
<1> DEFINE p == ProcessOf(f)
           n == flow[f].head
           k == [loaded |-> TRUE, at |-> n]
           far == IF f = "save" THEN Later(seen.overtaken, n) ELSE seen.overtaken
<1>1. /\ flow[f].pc = "checkpoint" /\ flow[f] \in FlowRecord /\ p \in Processes
      /\ repo \in RepoRecord /\ repo.head \in Nat /\ Fits(f, flow[f], repo, seen)
      /\ seen \in SeenRecord /\ repo.pulled \in SUBSET Nat /\ seen.overtaken \in Nat
  BY HandedFacts, RolesAndProcesses DEF SaveCheckpoint, At
<1>2. n \in Nat /\ n <= repo.head
  BY <1>1 DEF Fits, FlowRecord
<1>3. /\ cache' = [cache EXCEPT ![p] = k] /\ stored' = n
      /\ seen' = [seen EXCEPT !.overtaken = far]
      /\ Finishes(f) /\ UNCHANGED <<repo, call>>
  BY DEF SaveCheckpoint, brokerVars
<1>4. far \in Nat /\ far >= seen.overtaken /\ (f = "save" => far >= n)
  BY <1>1, <1>2 DEF Later
<1>5. k \in CacheRecord /\ k.at = n
  BY <1>2 DEF CacheRecord
<1> HIDE DEF k, far, n, p
<1>6. /\ seen' \in SeenRecord /\ seen'.overtaken = far
      /\ seen'.delivered = seen.delivered /\ seen'.looked = seen.looked
  BY <1>1, <1>3, <1>4 DEF SeenRecord
<1>7. Grown(repo, seen, repo, seen')
  BY <1>1, <1>4, <1>6, GrownSame
<1>8. Mark(n, repo, seen')
  <2>1. CASE f = "save"
    BY <1>1, <1>2, <1>4, <1>6, <2>1 DEF Mark
  <2>2. CASE f # "save"
    BY <1>1, <1>7, <2>2, MarkGrown DEF Fits, n
  <2>3. QED
    BY <2>1, <2>2
<1>9. PICK r \in FlowRecord :
        /\ flow' = [flow EXCEPT ![f] = r] /\ r.from = 0 /\ r.head = 0
        /\ (f \in Replays /\ r.pc = "open") \/ r.pc = "idle"
  BY <1>3, FinishesFacts
<1>10. Fits(f, r, repo, seen')
  BY <1>1, <1>9, FitsResting
<1>11. /\ cache' \in [Processes -> CacheRecord] /\ cache'[p].at = n
       /\ \A q \in Processes \ {p} : cache'[q] = cache[q]
  BY <1>1, <1>3, <1>5 DEF Handed
<1>12. \A c \in Slots : call'[c].head <= repo.head
  BY <1>3, HandedFacts
<1>13. QED
  BY <1>3, <1>7, <1>8, <1>9, <1>10, <1>11, <1>12, OneFlow

\* A role's step to a place where it goes on with no number.
LEMMA GoesHands ==
    ASSUME BrokerType, Handed, NEW f \in Flows, NEW r \in FlowRecord,
           flow' = [flow EXCEPT ![f] = r], r.from <= repo.head, r.head <= repo.head,
           r.pc \in {"idle", "attach", "initialize", "pull", "asking", "import"},
           UNCHANGED <<repo, cache, stored, seen>>,
           \A c \in Slots : call'[c].head <= repo.head
    PROVE  Handed'
<1>1. repo \in RepoRecord /\ Grown(repo, seen, repo, seen)
  BY HandedFacts
<1>2. Fits(f, r, repo, seen)
  BY DEF Fits
<1>3. cache' \in [Processes -> CacheRecord]
  BY DEF Handed
<1>4. QED
  BY <1>1, <1>2, <1>3, OneFlow

LEMMA GoesFacts ==
    ASSUME BrokerType, Handed, NEW f \in Flows, NEW pc \in Steps, Goes(f, pc)
    PROVE  \E r \in FlowRecord :
             /\ flow' = [flow EXCEPT ![f] = r] /\ r.pc = pc
             /\ r.from = flow[f].from /\ r.head = flow[f].head /\ r.stray = flow[f].stray
             /\ r.from <= repo.head /\ r.head <= repo.head
<1> DEFINE r == [flow[f] EXCEPT !.pc = pc]
<1>1. flow[f] \in FlowRecord /\ flow[f].from <= repo.head /\ flow[f].head <= repo.head
  BY HandedFacts DEF Fits
<1>2. r \in FlowRecord /\ r.pc = pc /\ r.from = flow[f].from /\ r.head = flow[f].head
      /\ r.stray = flow[f].stray
  BY <1>1 DEF FlowRecord
<1>3. flow' = [flow EXCEPT ![f] = r]
  BY DEF Goes, Handed
<1> HIDE DEF r
<1>4. QED
  BY <1>1, <1>2, <1>3

LEMMA OpensFacts ==
    ASSUME NEW f \in Flows, Opens(f)
    PROVE  \E r \in FlowRecord :
             /\ flow' = [flow EXCEPT ![f] = r] /\ r.from = 0 /\ r.head = 0
             /\ IF f = "startup" THEN r.pc = "initialize" ELSE r.pc = "idle"
<1> DEFINE s == [Resting EXCEPT !.pc = "initialize"]
<1>1. s \in FlowRecord /\ s.pc = "initialize" /\ s.from = 0 /\ s.head = 0
  BY DEF Resting, FlowRecord, Steps
<1>2. flow' = [flow EXCEPT ![f] = IF f = "startup" THEN s ELSE Resting]
  BY DEF Opens
<1> HIDE DEF s
<1>3. QED
  BY <1>1, <1>2, FlowFacts

LEMMA OpensHands ==
    ASSUME BrokerType, Handed, NEW f \in Flows, Opens(f)
    PROVE  Handed'
<1>1. PICK r \in FlowRecord :
        /\ flow' = [flow EXCEPT ![f] = r] /\ r.from = 0 /\ r.head = 0
        /\ r.pc \in {"idle", "initialize"}
  BY OpensFacts
<1>2. r.from <= repo.head /\ r.head <= repo.head
  BY <1>1, HandedFacts
<1>3. UNCHANGED <<call, repo, cache, stored, seen>>
  BY DEF Opens
<1>4. QED
  BY <1>1, <1>2, <1>3, GoesHands, HandedFacts

LEMMA ReplayHands ==
    ASSUME BrokerType, Handed, NEW f \in Flows, Replay(f) \/ BatchFails(f)
    PROVE  Handed'
<1>1. CASE LosesTheRead(f) \/ BatchFails(f)
  BY <1>1, FailsHands DEF LosesTheRead, BatchFails
<1>2. QED
  BY <1>1, ReadDeltaHands, FinishBatchHands, SaveHands, OpensHands DEF Replay

-----------------------------------------------------------------------------
(* Work that begins with a mutation, and startup.                           *)

LEMMA CallHeads ==
    ASSUME BrokerType, Handed, NEW c \in Callers, CallStep(c)
    PROVE  \A d \in Slots : call'[d].head <= repo.head
<1>1. /\ c \in Slots /\ call \in [Slots -> CallRecord]
      /\ repo.head \in Nat /\ \A d \in Slots : call[d].head <= repo.head
  BY SlotFacts, HandedFacts DEF BrokerType
<1>2. \E r : r.head = 0 /\ call' = [call EXCEPT ![c] = r]
  BY CallFacts DEF CallStep
<1>3. QED
  BY <1>1, <1>2

LEMMA AskHands ==
    ASSUME BrokerType, Handed, NEW f \in Callers, NEW op \in {"pull", "commit-and-push"},
           Ask(f, op), Goes(f, "asking"), UNCHANGED <<cache, stored, seen>>
    PROVE  Handed'
<1>1. CallStep(f) /\ repo' = repo
  BY DEF Ask, CallStep
<1>2. f \in Flows /\ "asking" \in Steps
  BY SlotFacts DEF Steps
<1>3. PICK r \in FlowRecord : /\ flow' = [flow EXCEPT ![f] = r] /\ r.pc = "asking"
                              /\ r.from <= repo.head /\ r.head <= repo.head
  BY <1>2, GoesFacts
<1>4. QED
  BY <1>1, <1>2, <1>3, CallHeads, GoesHands

LEMMA HearsFacts ==
    ASSUME NEW f \in Callers, Hears(f)
    PROVE  CallStep(f) /\ UNCHANGED <<owner, journal, repo, past, stored, seen>>
BY DEF Hears, CallStep

LEMMA HearPullHands ==
    ASSUME BrokerType, Handed, NEW f \in {"periodic", "job"}, HearPull(f)
    PROVE  Handed'
<1>1. f \in Callers /\ f \in Flows /\ Hears(f)
  BY SlotFacts, RolesAndProcesses DEF HearPull
<1>2. UNCHANGED <<repo, stored, seen>> /\ \A c \in Slots : call'[c].head <= repo.head
  BY <1>1, HearsFacts, CallHeads
<1>3. CASE ReadCheckpoint(f)
  BY <1>1, <1>2, <1>3, ReadCheckpointHands
<1>4. CASE Rests(f) /\ UNCHANGED cache
  BY <1>1, <1>2, <1>4, RestsHands
<1>5. QED
  BY <1>3, <1>4 DEF HearPull

LEMMA HearSaveHands ==
    ASSUME BrokerType, Handed, HearSave
    PROVE  Handed'
<1> DEFINE n == call["save"].head
           r == [flow["save"] EXCEPT !.pc = "checkpoint", !.head = n]
<1>1. "save" \in Callers /\ "save" \in Flows /\ "save" \in Slots /\ Hears("save")
  BY SlotFacts, RolesAndProcesses DEF HearSave
<1>2. /\ UNCHANGED <<repo, stored, seen, cache>> /\ cache \in [Processes -> CacheRecord]
      /\ \A c \in Slots : call'[c].head <= repo.head
  BY <1>1, HearsFacts, CallHeads DEF HearSave, Handed
<1>3. CASE Rests("save")
  BY <1>1, <1>2, <1>3, RestsHands
<1>4. CASE flow' = [flow EXCEPT !["save"].pc = "checkpoint", !["save"].head = n]
  <2>1. flow' = [flow EXCEPT !["save"] = r]
    BY <1>1, <1>4 DEF Handed
  <2>2. /\ n \in Nat /\ n <= repo.head /\ flow["save"] \in FlowRecord
        /\ Fits("save", flow["save"], repo, seen)
    BY <1>1, HandedFacts DEF CallRecord
  <2> HIDE DEF n
  <2>3. /\ r \in FlowRecord /\ r.pc = "checkpoint" /\ r.head = n
        /\ r.from = flow["save"].from
    BY <2>2 DEF FlowRecord, Steps
  <2> HIDE DEF r
  <2>4. Fits("save", r, repo, seen)
    BY <2>2, <2>3 DEF Fits
  <2>5. Grown(repo, seen, repo, seen)
    BY HandedFacts
  <2>6. QED
    BY <1>1, <1>2, <2>1, <2>3, <2>4, <2>5, OneFlow
<1>5. QED
  BY <1>3, <1>4 DEF HearSave

\* What startup imports is everything up to the head.
LEMMA ImportHands ==
    ASSUME BrokerType, Handed, ImportEverything
    PROVE  Handed'
<1> DEFINE more == seen.delivered \cup Brought(0, repo.head)
<1>1. /\ repo \in RepoRecord /\ repo.head \in Nat /\ seen \in SeenRecord
      /\ repo.pulled \in SUBSET Nat /\ seen.overtaken \in Nat /\ seen.delivered \in SUBSET Nat
      /\ "startup" \in Flows /\ "capture" \in Steps
  BY HandedFacts, RolesAndProcesses DEF Steps
<1>2. /\ seen' = [seen EXCEPT !.delivered = more] /\ UNCHANGED <<repo, call, cache, stored>>
      /\ Goes("startup", "capture")
  BY DEF ImportEverything, StartupOnly, brokerVars
<1>3. /\ more \in SUBSET Nat /\ seen.delivered \subseteq more
      /\ \A c \in repo.pulled : seen.overtaken < c /\ c <= repo.head => c \in more
  BY <1>1 DEF Brought
<1> HIDE DEF more
<1>4. seen' \in SeenRecord /\ seen'.delivered = more /\ seen'.overtaken = seen.overtaken
  BY <1>1, <1>2, <1>3 DEF SeenRecord
<1>5. Grown(repo, seen, repo, seen')
  BY <1>1, <1>3, <1>4, GrownSame
<1>6. Mark(repo.head, repo, seen')
  BY <1>1, <1>3, <1>4 DEF Mark
<1>7. PICK r \in FlowRecord :
        /\ flow' = [flow EXCEPT !["startup"] = r] /\ r.pc = "capture"
        /\ r.from <= repo.head /\ r.head <= repo.head
  BY <1>1, <1>2, GoesFacts
<1>8. Fits("startup", r, repo, seen')
  BY <1>6, <1>7 DEF Fits
<1>9. cache' \in [Processes -> CacheRecord] /\ \A c \in Slots : call'[c].head <= repo.head
  BY <1>2, HandedFacts DEF Handed
<1>10. QED
  BY <1>1, <1>2, <1>5, <1>7, <1>8, <1>9, OneFlow

LEMMA CaptureHands ==
    ASSUME BrokerType, Handed, CaptureCurrent
    PROVE  Handed'
<1> DEFINE k == [loaded |-> TRUE, at |-> repo.head]
<1>1. /\ "startup" \in Flows /\ "web" \in Processes /\ repo.head \in Nat
      /\ cache \in [Processes -> CacheRecord] /\ repo \in RepoRecord
      /\ Grown(repo, seen, repo, seen) /\ Mark(repo.head, repo, seen)
  BY HandedFacts, RolesAndProcesses DEF CaptureCurrent, At, Handed, Fits
<1>2. /\ UNCHANGED <<repo, call, seen>> /\ flow' = [flow EXCEPT !["startup"] = Resting]
      /\ \A c \in Slots : call'[c].head <= repo.head
  BY HandedFacts DEF CaptureCurrent, StartupOnly, brokerVars, Rests
<1>3. k \in CacheRecord /\ k.at = repo.head
  BY <1>1 DEF CacheRecord
<1>4. \/ UNCHANGED <<cache, stored>>
      \/ cache' = [cache EXCEPT !["web"] = k] /\ stored' = repo.head
  BY DEF CaptureCurrent
<1> HIDE DEF k
<1>5. Fits("startup", Resting, repo, seen)
  BY <1>1, FlowFacts, FitsResting
<1>6. CASE UNCHANGED <<cache, stored>>
  BY <1>1, <1>2, <1>5, <1>6, FlowFacts, OneFlow
<1>7. CASE cache' = [cache EXCEPT !["web"] = k] /\ stored' = repo.head
  <2>1. /\ cache' \in [Processes -> CacheRecord] /\ cache'["web"].at = repo.head
        /\ \A p \in Processes \ {"web"} : cache'[p] = cache[p]
    BY <1>1, <1>3, <1>7
  <2>2. QED
    BY <1>1, <1>2, <1>5, <1>7, <2>1, FlowFacts, OneFlow
<1>8. QED
  BY <1>4, <1>6, <1>7

LEMMA StartupHands ==
    ASSUME BrokerType, Handed, Startup
    PROVE  Handed'
<1>1. "startup" \in Flows /\ "startup" \in Callers /\ {"initialize", "pull", "import"} \subseteq Steps
  BY SlotFacts, RolesAndProcesses DEF Steps
<1>2. ASSUME NEW pc \in {"initialize", "pull", "import"}, Goes("startup", pc),
             UNCHANGED <<repo, cache, stored, seen>>,
             \A c \in Slots : call'[c].head <= repo.head
      PROVE  Handed'
  <2>1. PICK r \in FlowRecord :
          /\ flow' = [flow EXCEPT !["startup"] = r] /\ r.pc = pc
          /\ r.from <= repo.head /\ r.head <= repo.head
    BY <1>1, <1>2, GoesFacts
  <2>2. QED
    BY <1>1, <1>2, <2>1, GoesHands
<1>3. CASE Attach
  <2>1. UNCHANGED <<repo, call, stored, seen>> /\ \A c \in Slots : call'[c].head <= repo.head
    BY <1>3, HandedFacts DEF Attach, StartupOnly, brokerVars
  <2>2. (Goes("startup", "initialize") /\ UNCHANGED cache) \/ ReadCheckpoint("startup")
    BY <1>3 DEF Attach
  <2>3. QED
    BY <1>1, <1>2, <2>1, <2>2, ReadCheckpointHands
<1>4. CASE Initialize
  <2>1. /\ UNCHANGED <<repo, call, cache, stored, seen>> /\ Goes("startup", "pull")
        /\ \A c \in Slots : call'[c].head <= repo.head
    BY <1>4, HandedFacts DEF Initialize, StartupOnly, brokerVars
  <2>2. QED
    BY <1>2, <2>1
<1>5. CASE InitializeFails
  BY <1>5, RestartHands DEF InitializeFails
<1>6. CASE AskInitialPull
  BY <1>1, <1>6, AskHands DEF AskInitialPull
<1>7. CASE HearInitialPull
  <2>1. Hears("startup") /\ UNCHANGED <<repo, stored, seen, cache>>
    BY <1>1, <1>7, HearsFacts DEF HearInitialPull
  <2>2. \A c \in Slots : call'[c].head <= repo.head
    BY <1>1, <2>1, HearsFacts, CallHeads
  <2>3. Goes("startup", "import") \/ Rests("startup")
    BY <1>7 DEF HearInitialPull
  <2>4. QED
    BY <1>1, <1>2, <2>1, <2>2, <2>3, RestsHands
<1>8. QED
  BY <1>3, <1>4, <1>5, <1>6, <1>7, ImportHands, CaptureHands DEF Startup

-----------------------------------------------------------------------------
(* Steps of the owner, of the remote, and deaths.                           *)

\* A step of the owner leaves the roles where they are.
LEMMA OwnerHands ==
    ASSUME BrokerType, Handed, UNCHANGED roleVars, UNCHANGED repo,
           \A c \in Slots : call'[c].head <= repo.head
    PROVE  Handed'
<1>1. UNCHANGED <<flow, cache, stored, seen>>
  BY DEF roleVars
<1>2. Grown(repo, seen, repo, seen)
  BY HandedFacts
<1>3. QED
  BY <1>1, <1>2, HandedStep DEF Handed

\* An operation adds commits beyond the head, and never while startup takes the head
\* as its checkpoint: then nobody's call is with the owner.
LEMMA ExecuteHands ==
    ASSUME BrokerType, Handed, Starting, NEW c \in Slots, Execute(c), UNCHANGED roleVars
    PROVE  Handed'
<1>1. PICK r \in CallRecord : call' = [call EXCEPT ![c] = r] /\ r.head <= repo'.head
  BY ExecuteStep
<1>2. /\ repo \in RepoRecord /\ repo' \in RepoRecord /\ repo.head \in Nat /\ repo'.head \in Nat
      /\ repo.head <= repo'.head /\ seen \in SeenRecord /\ seen.overtaken \in Nat
      /\ UNCHANGED <<flow, cache, stored, seen>>
  BY ExecuteStep, HandedFacts DEF roleVars, RepoRecord
<1>3. \A n \in repo'.pulled \ repo.pulled : repo.head < n
  BY ExecuteStep
<1>4. Grown(repo, seen, repo', seen')
  BY <1>2, <1>3 DEF Grown
<1>5. flow["startup"].pc # "capture"
  BY ExecuteStep DEF Starting, Ready, At
<1>6. \A d \in Slots : call'[d].head <= repo'.head
  <2>1. \A d \in Slots : call[d].head \in Nat /\ call[d].head <= repo.head
    BY HandedFacts DEF CallRecord
  <2>2. QED
    BY <1>1, <1>2, <2>1 DEF BrokerType
<1>7. QED
  BY <1>2, <1>4, <1>5, <1>6, HandedStep DEF Handed

LEMMA WorkerHands ==
    ASSUME BrokerType, Handed, WorkerDies
    PROVE  Handed'
<1>1. /\ "job" \in Flows /\ "job" \in Slots /\ Nobody \in Slots /\ "worker" \in Processes
      /\ repo \in RepoRecord /\ Grown(repo, seen, repo, seen) /\ repo.head \in Nat
      /\ cache \in [Processes -> CacheRecord] /\ call \in [Slots -> CallRecord]
      /\ \A c \in Slots : call[c].head <= repo.head
  BY SlotFacts, RolesAndProcesses, HandedFacts DEF Handed, BrokerType
<1>2. \A c \in Slots : call'[c].head <= repo.head
  BY <1>1, CallFacts DEF WorkerDies
<1>3. /\ flow' = [flow EXCEPT !["job"] = Resting] /\ UNCHANGED <<repo, stored, seen>>
      /\ cache' = [cache EXCEPT !["worker"] = Unloaded]
  BY DEF WorkerDies, Rests
<1>4. Unloaded \in CacheRecord /\ Unloaded.at = 0
  BY DEF Unloaded, CacheRecord
<1>5. /\ cache' \in [Processes -> CacheRecord] /\ cache'["worker"].at = 0
      /\ \A p \in Processes \ {"worker"} : cache'[p] = cache[p]
  BY <1>1, <1>3, <1>4
<1>6. Mark(0, repo, seen)
  BY HandedFacts, MarkZero
<1>7. Fits("job", Resting, repo, seen)
  BY <1>1, FlowFacts, FitsResting
<1>8. QED
  BY <1>1, <1>2, <1>3, <1>5, <1>6, <1>7, FlowFacts, OneFlow

\* The roles of an owner that died are marked, and go on.
StraysFrom(f) == f \in Replays /\ flow[f].pc \in {"queueing", "checkpoint", "open"}

LEMMA LosesFacts ==
    ASSUME Handed, LosesOwner
    PROVE  /\ flow' \in [Flows -> FlowRecord]
           /\ \A f \in Flows :
                /\ flow'[f].pc = flow[f].pc /\ flow'[f].from = flow[f].from
                /\ flow'[f].head = flow[f].head /\ flow'[f].stray = StraysFrom(f)
<1>1. flow' = [f \in Flows |-> [flow[f] EXCEPT !.stray = StraysFrom(f)]]
  BY DEF LosesOwner, StraysFrom
<1>2. \A f \in Flows : StraysFrom(f) \in BOOLEAN
  BY DEF StraysFrom
<1>3. \A f \in Flows : flow[f] \in FlowRecord
  BY DEF Handed
<1>4. QED
  BY <1>1, <1>2, <1>3 DEF FlowRecord

LEMMA LosesHands ==
    ASSUME BrokerType, Handed, LosesOwner
    PROVE  Handed'
<1>1. /\ UNCHANGED <<repo, cache, stored, seen>> /\ cache \in [Processes -> CacheRecord]
      /\ call \in [Slots -> CallRecord] /\ repo.head \in Nat
      /\ \A c \in Slots : call[c].head <= repo.head
      /\ Grown(repo, seen, repo, seen)
  BY HandedFacts DEF LosesOwner, OwnerDies, Handed, BrokerType
<1>2. \A c \in Slots : call'[c].head <= repo.head
  BY <1>1, CallFacts DEF LosesOwner, OwnerDies
<1>3. ASSUME NEW f \in Flows
      PROVE  Fits(f, flow'[f], repo, seen)
  <2>1. Fits(f, flow[f], repo, seen) /\ flow'[f] \in FlowRecord
    BY <1>3, LosesFacts, HandedFacts
  <2>2. QED
    BY <1>3, <2>1, LosesFacts DEF Fits
<1>4. QED
  BY <1>1, <1>2, <1>3, LosesFacts, HandedStep

LEMMA HandedKept ==
    ASSUME BrokerType, Handed, Starting, [Next]_vars
    PROVE  Handed'
<1>1. ASSUME NEW f \in Flows, Replay(f) \/ BatchFails(f)
      PROVE  Handed'
  BY <1>1, ReplayHands
<1>2. ASSUME NEW r \in Recoveries, BeginReplay(r)
      PROVE  Handed'
  <2>1. /\ r \in Flows /\ UNCHANGED <<repo, call, stored, seen>>
        /\ \A c \in Slots : call'[c].head <= repo.head
    BY <1>2, RolesAndProcesses, HandedFacts DEF BeginReplay, brokerVars
  <2>2. CASE ReadCheckpoint(r)
    BY <2>1, <2>2, ReadCheckpointHands
  <2>3. CASE UNCHANGED <<flow, cache>>
    BY <2>1, <2>3 DEF Handed
  <2>4. QED
    BY <1>2, <2>2, <2>3 DEF BeginReplay
<1>3. ASSUME NEW f \in {"periodic", "job"}, AskPull(f) \/ HearPull(f)
      PROVE  Handed'
  BY <1>3, SlotFacts, AskHands, HearPullHands DEF AskPull
<1>4. CASE AskSave \/ HearSave
  BY <1>4, SlotFacts, AskHands, HearSaveHands DEF AskSave
<1>5. CASE EditsArrive \/ (RemoteAdvances /\ UNCHANGED roleVars)
  <2>1. /\ repo' \in RepoRecord /\ repo'.head = repo.head /\ repo'.pulled = repo.pulled
        /\ UNCHANGED <<call, flow, cache, stored, seen>>
    BY <1>5 DEF EditsArrive, RemoteAdvances, BrokerType, RepoRecord, roleVars
  <2>2. Grown(repo, seen, repo', seen')
    BY <2>1, HandedFacts DEF Grown
  <2>3. \A c \in Slots : call'[c].head <= repo'.head
    BY <2>1, HandedFacts
  <2>4. QED
    BY <2>1, <2>2, <2>3, HandedStep DEF Handed
<1>6. CASE RuntimeDies
  BY <1>6, RestartHands DEF RuntimeDies
<1>7. CASE OwnerStarts \/ (StartCrashes /\ UNCHANGED roleVars)
  <2>1. UNCHANGED roleVars /\ UNCHANGED <<repo, call>>
    BY <1>7 DEF OwnerStarts, OwnerRotates, OwnerWrites, OwnerListens, StartCrashes
  <2>2. QED
    BY <2>1, OwnerHands, HandedFacts
<1>8. ASSUME NEW c \in Slots, UNCHANGED roleVars,
             RecordStart(c) \/ RecordSettled(c) \/ RecordFails(c)
      PROVE  Handed'
  <2>1. /\ call \in [Slots -> CallRecord] /\ repo.head \in Nat
        /\ \A d \in Slots : call[d].head <= repo.head /\ call[d] \in CallRecord
    BY HandedFacts DEF BrokerType
  <2>2. [call[c] EXCEPT !.st = "answered"].head = call[c].head
    BY <2>1 DEF CallRecord
  <2>3. CASE RecordStart(c)
    BY <1>8, <2>1, <2>3, OwnerHands DEF RecordStart, Advance, CallRecord
  <2>4. CASE RecordSettled(c)
    BY <1>8, <2>1, <2>2, <2>4, CallFacts, OwnerHands DEF RecordSettled, Reply
  <2>5. CASE RecordFails(c)
    BY <1>8, <2>1, <2>5, CallFacts, OwnerHands
       DEF RecordFails, StartRecordFails, SettledRecordFails, Reply
  <2>6. QED
    BY <1>8, <2>3, <2>4, <2>5
<1>9. ASSUME NEW c \in Slots, Execute(c), UNCHANGED roleVars
      PROVE  Handed'
  BY <1>9, ExecuteHands
<1>10. CASE UNCHANGED vars
  BY <1>10, OwnerHands, HandedFacts DEF vars, brokerVars
<1>11. QED
  BY <1>1, <1>2, <1>3, <1>4, <1>5, <1>6, <1>7, <1>8, <1>9, <1>10,
     StartupHands, WorkerHands, LosesHands DEF Next, Broker, BrokerServes

-----------------------------------------------------------------------------
(* While the web process starts.                                            *)

\* Nothing but a restart makes a role that runs start again.
StartupStays ==
    /\ flow'["startup"].pc # "idle" => flow["startup"].pc # "idle"
    /\ flow["startup"].pc # "asking" => flow'["startup"].pc # "asking"
    /\ flow["startup"].pc = "asking" => flow'["startup"].pc = "asking"

LEMMA StartingStep ==
    ASSUME Starting, StartupStays, unsaved' => unsaved \/ Ready,
           \A c \in Slots :
              call'[c] = call[c] \/ call'[c].st = "idle" \/ call[c].st # "idle"
                 \/ (Ready /\ c # "startup")
    PROVE  Starting'
BY SlotFacts DEF Starting, StartupStays, Ready, At

LEMMA RestartStarts ==
    ASSUME RuntimeRestarts
    PROVE  Starting'
<1>1. ~unsaved' /\ \A c \in Slots : call'[c].st = "idle"
  BY CallFacts DEF RuntimeRestarts
<1>2. QED
  BY <1>1, SlotFacts DEF Starting

LEMMA OtherFlow ==
    ASSUME Handed, NEW f \in Flows, f # "startup", NEW r, flow' = [flow EXCEPT ![f] = r]
    PROVE  StartupStays
BY RolesAndProcesses DEF StartupStays, Handed

LEMMA ReplayStarts ==
    ASSUME BrokerType, Handed, Starting, NEW f \in Flows, Replay(f) \/ BatchFails(f)
    PROVE  Starting'
<1>1. "startup" \in Flows /\ flow \in [Flows -> FlowRecord]
  BY RolesAndProcesses DEF Handed
<1>2. CASE RuntimeRestarts
  BY <1>2, RestartStarts
<1>3. CASE ~RuntimeRestarts
  <2>1. UNCHANGED <<call, unsaved>>
    BY <1>3 DEF Replay, ReadDelta, LosesTheRead, FinishBatch, SaveCheckpoint, Opens, BatchFails,
       Fails, brokerVars
  <2>2. \E r : flow' = [flow EXCEPT ![f] = r]
    BY <1>1, <1>3, FinishesFacts, OpensFacts
       DEF Replay, ReadDelta, LosesTheRead, FinishBatch, SaveCheckpoint, BatchFails,
           Fails, Rests, Reaches
  <2>3. CASE f # "startup"
    BY <2>1, <2>2, <2>3, OtherFlow, StartingStep
  <2>4. CASE f = "startup"
    <3>1. StartupStays
      <4>1. CASE Opens(f)
        BY <1>1, <2>4, <4>1, OpensFacts DEF StartupStays, Opens, At
      <4>2. CASE ReadDelta(f) \/ SaveCheckpoint(f)
        <5>1. flow[f].pc \in {"derive", "checkpoint"}
          BY <4>2 DEF ReadDelta, SaveCheckpoint, At
        <5>2. CASE Finishes(f)
          BY <1>1, <2>4, <5>1, <5>2, FinishesFacts DEF StartupStays
        <5>3. ASSUME NEW pc \in {"checkpoint", "queueing"}, Reaches(f, pc)
              PROVE  StartupStays
          BY <1>1, <2>4, <5>1, <5>3 DEF StartupStays, Reaches
        <5>4. QED
          BY <4>2, <5>2, <5>3 DEF ReadDelta, SaveCheckpoint
      <4>3. CASE FinishBatch(f)
        BY <1>1, <2>4, <4>3 DEF StartupStays, FinishBatch, At
      <4>4. CASE LosesTheRead(f) \/ BatchFails(f)
        BY <1>3, <2>4, <4>4, SlotFacts, ReconciliationAssumption
           DEF LosesTheRead, BatchFails, Fails
      <4>5. QED
        BY <4>1, <4>2, <4>3, <4>4 DEF Replay
    <3>2. QED
      BY <2>1, <3>1, StartingStep
  <2>5. QED
    BY <2>3, <2>4
<1>4. QED
  BY <1>2, <1>3

\* The steps of startup itself, its pull first.
LEMMA StartupStarts ==
    ASSUME BrokerType, Handed, Starting, Startup
    PROVE  Starting'
<1>1. /\ "startup" \in Flows /\ "startup" \in Slots /\ flow \in [Flows -> FlowRecord]
      /\ call \in [Slots -> CallRecord]
  BY SlotFacts, RolesAndProcesses DEF Handed, BrokerType
<1>2. CASE Attach \/ Initialize \/ ImportEverything \/ CaptureCurrent
  <2>1. /\ UNCHANGED <<call, unsaved>> /\ flow["startup"].pc \notin {"idle", "asking"}
    BY <1>2 DEF Attach, Initialize, ImportEverything, CaptureCurrent, StartupOnly,
       brokerVars, At
  <2>2. flow'["startup"].pc # "asking"
    <3>1. \A pc : Goes("startup", pc) => flow'["startup"].pc = pc
      BY <1>1 DEF Goes
    <3>2. ReadCheckpoint("startup") => flow'["startup"].pc = "derive"
      BY <1>1 DEF ReadCheckpoint
    <3>3. Rests("startup") => flow'["startup"].pc = "idle"
      BY <1>1, FlowFacts DEF Rests
    <3>4. QED
      BY <1>2, <3>1, <3>2, <3>3 DEF Attach, Initialize, ImportEverything, CaptureCurrent
  <2>3. StartupStays
    BY <2>1, <2>2 DEF StartupStays
  <2>4. QED
    BY <2>1, <2>3, StartingStep
<1>3. CASE InitializeFails
  BY <1>3, RestartStarts DEF InitializeFails
<1>4. CASE AskInitialPull
  <2>1. /\ flow["startup"].pc = "pull" /\ flow'["startup"].pc = "asking"
        /\ unsaved' = unsaved /\ \A c \in Slots \ {"startup"} : call'[c] = call[c]
    BY <1>1, <1>4 DEF AskInitialPull, Ask, Goes, At
  <2>2. QED
    BY <2>1, SlotFacts DEF Starting, Ready, At
<1>5. CASE HearInitialPull
  <2>1. /\ flow["startup"].pc = "asking" /\ flow'["startup"].pc \in {"import", "idle"}
        /\ unsaved' = unsaved /\ call'["startup"].st = "idle"
        /\ \A c \in Slots \ {"startup"} : call'[c] = call[c]
    <3>1. Goes("startup", "import") => flow'["startup"].pc = "import"
      BY <1>1 DEF Goes
    <3>2. Rests("startup") => flow'["startup"].pc = "idle"
      BY <1>1, FlowFacts DEF Rests
    <3>3. Hears("startup") /\ (Goes("startup", "import") \/ Rests("startup"))
      BY <1>5 DEF HearInitialPull
    <3>4. /\ flow["startup"].pc = "asking" /\ unsaved' = unsaved
          /\ call' = [call EXCEPT !["startup"] = Quiet]
      BY <3>3 DEF Hears, At
    <3>5. QED
      BY <1>1, <3>1, <3>2, <3>3, <3>4, CallFacts
  <2>2. QED
    BY <2>1, SlotFacts DEF Starting, Ready, At
<1>6. QED
  BY <1>2, <1>3, <1>4, <1>5 DEF Startup

LEMMA SameFlow ==
    ASSUME UNCHANGED flow
    PROVE  StartupStays
BY DEF StartupStays

LEMMA StartingKept ==
    ASSUME BrokerType, Handed, Starting, [Next]_vars
    PROVE  Starting'
<1>0. /\ "startup" \in Flows /\ flow \in [Flows -> FlowRecord] /\ call \in [Slots -> CallRecord]
      /\ {"periodic", "job", "save"} \subseteq Slots /\ Nobody \in Slots /\ Nobody # "startup"
  BY SlotFacts, RolesAndProcesses DEF Handed, BrokerType, Nobody
<1>1. ASSUME NEW r \in Recoveries, BeginReplay(r)
      PROVE  Starting'
  <2>1. UNCHANGED <<call, unsaved>> /\ r # "startup"
    BY <1>1, SlotFacts DEF BeginReplay, brokerVars
  <2>2. StartupStays
    BY <1>0, <1>1, <2>1, SameFlow DEF BeginReplay, ReadCheckpoint, StartupStays
  <2>3. QED
    BY <2>1, <2>2, StartingStep
<1>2. ASSUME NEW f \in {"periodic", "job"}, AskPull(f) \/ HearPull(f)
      PROVE  Starting'
  <2>1. /\ StartupStays /\ unsaved' = unsaved
    BY <1>0, <1>2 DEF AskPull, HearPull, Hears, Goes, Rests, ReadCheckpoint, StartupStays
  <2>2. CASE AskPull(f)
    <3>1. Ready /\ f # "startup" /\ \A c \in Slots \ {f} : call'[c] = call[c]
      BY <1>0, <2>2 DEF AskPull, Ask
    <3>2. QED
      BY <2>1, <3>1, StartingStep
  <2>3. CASE HearPull(f)
    <3>1. call'[f].st = "idle" /\ \A c \in Slots \ {f} : call'[c] = call[c]
      BY <1>0, <2>3, CallFacts DEF HearPull, Hears
    <3>2. QED
      BY <2>1, <3>1, StartingStep
  <2>4. QED
    BY <1>2, <2>2, <2>3
<1>3. CASE AskSave
  <2>1. StartupStays /\ ~unsaved' /\ unsaved /\ Ready
    BY <1>0, <1>3 DEF AskSave, Goes, StartupStays, Starting
  <2>2. \A c \in Slots \ {"save"} : call'[c] = call[c]
    BY <1>0, <1>3 DEF AskSave, Ask
  <2>3. QED
    BY <2>1, <2>2, StartingStep
<1>4. CASE HearSave
  <2>1. StartupStays /\ unsaved' = unsaved
    BY <1>0, <1>4 DEF HearSave, Hears, Rests, StartupStays
  <2>2. call'["save"].st = "idle" /\ \A c \in Slots \ {"save"} : call'[c] = call[c]
    BY <1>0, <1>4, CallFacts DEF HearSave, Hears
  <2>3. QED
    BY <2>1, <2>2, StartingStep
<1>5. CASE EditsArrive
  BY <1>5, SameFlow, StartingStep DEF EditsArrive
<1>6. CASE RuntimeDies
  BY <1>6, RestartStarts DEF RuntimeDies
<1>7. CASE WorkerDies
  <2>1. StartupStays /\ unsaved' = unsaved /\ Ready
    BY <1>0, <1>7 DEF WorkerDies, Rests, StartupStays
  <2>2. \A c \in Slots \ {"job", Nobody} : call'[c] = call[c]
    BY <1>0, <1>7 DEF WorkerDies
  <2>3. QED
    BY <1>0, <2>1, <2>2, StartingStep
<1>8. CASE LosesOwner
  <2>1. StartupStays /\ unsaved' = unsaved
    BY <1>0, <1>8, LosesFacts DEF LosesOwner, StartupStays
  <2>2. \A c \in Slots : call'[c] = call[c] \/ call'[c].st = "idle" \/ call[c].st # "idle"
    BY <1>0, <1>8, CallFacts, SlotFacts DEF LosesOwner, OwnerDies
  <2>3. QED
    BY <2>1, <2>2, StartingStep
<1>9. CASE OwnerStarts \/ (StartCrashes /\ UNCHANGED roleVars)
             \/ (RemoteAdvances /\ UNCHANGED roleVars) \/ UNCHANGED vars
  <2>1. UNCHANGED <<call, unsaved, flow>>
    BY <1>9 DEF OwnerStarts, OwnerRotates, OwnerWrites, OwnerListens, StartCrashes, RemoteAdvances,
       roleVars, vars, brokerVars
  <2>2. QED
    BY <2>1, SameFlow, StartingStep
<1>10. ASSUME NEW c \in Slots, Broker(c) \/ (RecordFails(c) /\ UNCHANGED roleVars)
       PROVE  Starting'
  <2>1. UNCHANGED <<unsaved, flow>>
    BY <1>10 DEF Broker, roleVars
  <2>2. call[c].st # "idle" /\ \A d \in Slots \ {c} : call'[d] = call[d]
    BY <1>0, <1>10, ExecuteStep
       DEF Broker, BrokerServes, RecordFails, RecordStart, RecordSettled,
           StartRecordFails, SettledRecordFails, Advance, Reply
  <2>3. QED
    BY <2>1, <2>2, SameFlow, StartingStep
<1>11. QED
  BY <1>1, <1>2, <1>3, <1>4, <1>5, <1>6, <1>7, <1>8, <1>9, <1>10,
     ReplayStarts, StartupStarts DEF Next

-----------------------------------------------------------------------------
(* What an owner took over is looked at before it changes anything.         *)

Has(f) == flow[f].pc \in {"queueing", "checkpoint", "open"} /\ ~flow[f].stray

LEMMA LookedFacts ==
    ASSUME GitInv
    PROVE  /\ seen.looked \in Nat /\ past.from \in Nat /\ repo.head \in Nat
           /\ past.from <= repo.head
           /\ flow \in [Flows -> FlowRecord]
           /\ \A f \in Replays : f \in Flows /\ (Has(f) => Serving /\ seen.looked >= past.from)
BY HandedFacts, OwnerFacts, RolesAndProcesses
   DEF GitInv, BrokerInv, Inherited, Handed, Looked, Has

\* A step keeps it that leaves the owner where it is, opens nothing, and takes no replay
\* past its delta.
LEMMA LookedStep ==
    ASSUME GitInv, seen'.looked = seen.looked, past' = past,
           owner'.phase = owner.phase, owner'.admits => owner.admits,
           \A f \in Replays : Has(f)' => Has(f)
    PROVE  Looked'
BY LookedFacts DEF GitInv, Looked, Has, Serving, ReplayBeforeMutation

\* So does one after which no owner serves and no replay is past its delta.
LEMMA LookedDown ==
    ASSUME ~Serving', \A f \in Replays : ~Has(f)'
    PROVE  Looked'
BY DEF Looked, Has, ReplayBeforeMutation

LEMMA LookedRestart ==
    ASSUME RuntimeRestarts
    PROVE  Looked'
<1>1. ~Serving'
  BY DEF RuntimeRestarts, OwnerGone, Down, Serving
<1>2. \A f \in Flows : flow'[f].pc \in {"idle", "attach"}
  BY DEF RuntimeRestarts, Resting
<1>3. \A f \in Replays : ~Has(f)'
  BY <1>2, RolesAndProcesses DEF Has
<1>4. QED
  BY <1>1, <1>3, LookedDown

\* A step of one role that does not have its delta afterwards, or had it before.
LEMMA LookedFlow ==
    ASSUME GitInv, NEW f \in Flows, NEW r, flow' = [flow EXCEPT ![f] = r],
           \/ r.pc \notin {"queueing", "checkpoint", "open"} \/ f \notin Replays
           \/ Has(f) /\ r.stray = flow[f].stray
           \/ flow[f].stray /\ r.stray = flow[f].stray,
           seen'.looked = seen.looked, UNCHANGED <<owner, past>>
    PROVE  Looked'
<1>1. /\ flow'[f] = r /\ \A g \in Flows \ {f} : flow'[g] = flow[g]
  BY LookedFacts
<1>2. \A g \in Replays : Has(g)' => Has(g)
  BY <1>1, RolesAndProcesses DEF Has
<1>3. QED
  BY <1>2, LookedStep

LEMMA LookedReadDelta ==
    ASSUME GitInv, NEW f \in Flows, ReadDelta(f)
    PROVE  Looked'
<1>1. /\ BrokerType /\ Handed /\ Serving /\ UNCHANGED <<owner, past>>
  BY DEF GitInv, BrokerInv, ReadDelta, brokerVars
<1>2. /\ seen'.looked >= seen.looked /\ (f \in Replays => seen'.looked >= repo.head)
      /\ seen'.looked \in Nat
  BY <1>1, LooksFacts DEF SeenRecord
<1>3. \A g \in Flows \ {f} : flow'[g] = flow[g]
  BY <1>1, FinishesFacts, LookedFacts DEF ReadDelta, Reaches
<1>4. \A g \in Replays : Has(g)' => seen'.looked >= past.from
  BY <1>2, <1>3, LookedFacts DEF Has
<1>5. ReplayBeforeMutation'
  BY <1>1, <1>2, LookedFacts DEF GitInv, Looked, ReplayBeforeMutation, Serving
<1>6. QED
  BY <1>1, <1>4, <1>5 DEF Looked, Has, Serving

\* Admission is opened by a replay that has its delta, or by one that strayed.
LEMMA LookedOpens ==
    ASSUME GitInv, NEW f \in Flows, Opens(f)
    PROVE  Looked'
<1> DEFINE strayed == past.strayed \/ (~owner.admits /\ flow[f].stray)
<1>1. /\ Serving /\ flow[f].pc = "open" /\ flow[f] \in FlowRecord
      /\ f \in Replays /\ UNCHANGED seen
      /\ BrokerType /\ Handed
  BY HandedFacts DEF Opens, OpenAdmission, At, GitInv, BrokerInv, Fits
<1>2. /\ owner' = [owner EXCEPT !.admits = TRUE, !.failed = FALSE]
      /\ past' = [past EXCEPT !.strayed = strayed]
  BY DEF Opens, OpenAdmission
<1>3. strayed = FALSE => seen.looked >= past.from \/ past.lost
  BY <1>1, LookedFacts DEF Has, GitInv, Looked, ReplayBeforeMutation
<1>4. strayed \in BOOLEAN
  OBVIOUS
<1> HIDE DEF strayed
<1>5. /\ past'.strayed = strayed /\ past'.from = past.from /\ past'.lost = past.lost
      /\ owner'.phase = owner.phase
  BY <1>1, <1>2 DEF BrokerType, PastRecord, OwnerRecord
<1>6. PICK r \in FlowRecord : flow' = [flow EXCEPT ![f] = r] /\ r.pc \in {"idle", "initialize"}
  BY OpensFacts
<1>7. \A g \in Replays : Has(g)' => Has(g)
  BY <1>6, LookedFacts DEF Has
<1>8. ReplayBeforeMutation'
  BY <1>1, <1>3, <1>4, <1>5 DEF ReplayBeforeMutation
<1>9. QED
  BY <1>1, <1>5, <1>7, <1>8, LookedFacts DEF Looked, Has, Serving

LEMMA LookedReplay ==
    ASSUME GitInv, NEW f \in Flows, Replay(f) \/ BatchFails(f)
    PROVE  Looked'
<1>1. /\ BrokerType /\ Handed /\ flow[f] \in FlowRecord /\ flow \in [Flows -> FlowRecord]
      /\ seen \in SeenRecord
  BY LookedFacts, HandedFacts DEF GitInv, BrokerInv
<1>2. CASE Fails(f)
  <2>1. CASE RuntimeRestarts
    BY <2>1, LookedRestart
  <2>2. CASE Rests(f) /\ UNCHANGED <<owner, past, seen>>
    BY <2>2, FlowFacts, LookedFlow DEF Rests
  <2>3. QED
    BY <1>2, <2>1, <2>2 DEF Fails
<1>3. CASE FinishBatch(f)
  <2> DEFINE r == [flow[f] EXCEPT !.pc = "checkpoint", !.from = 0]
  <2>1. flow' = [flow EXCEPT ![f] = r] /\ flow[f].pc = "queueing"
    BY <1>1, <1>3 DEF FinishBatch, At
  <2>2. r.stray = flow[f].stray /\ flow[f].stray \in BOOLEAN
    BY <1>1 DEF FlowRecord
  <2> HIDE DEF r
  <2>3. seen'.looked = seen.looked /\ UNCHANGED <<owner, past>>
    BY <1>1, <1>3 DEF FinishBatch, brokerVars, SeenRecord
  <2>4. QED
    BY <2>1, <2>2, <2>3, LookedFlow DEF Has
<1>4. CASE SaveCheckpoint(f)
  <2>1. PICK r \in FlowRecord :
          /\ flow' = [flow EXCEPT ![f] = r]
          /\ \/ f \in Replays /\ r.pc = "open" /\ r.stray = flow[f].stray
             \/ f \notin Replays /\ r.pc = "idle"
    BY <1>1, <1>4, FinishesFacts DEF SaveCheckpoint
  <2>2. flow[f].pc = "checkpoint" /\ flow[f].stray \in BOOLEAN
    BY <1>1, <1>4 DEF SaveCheckpoint, At, FlowRecord
  <2>3. seen'.looked = seen.looked /\ UNCHANGED <<owner, past>>
    BY <1>1, <1>4 DEF SaveCheckpoint, brokerVars, SeenRecord
  <2>4. QED
    BY <2>1, <2>2, <2>3, LookedFlow DEF Has
<1>5. QED
  BY <1>2, <1>3, <1>4, LookedReadDelta, LookedOpens
     DEF Replay, LosesTheRead, BatchFails

\* An owner that is not the first waits for a replay; the first took over nothing.
LEMMA LookedOwner ==
    ASSUME GitInv, UNCHANGED roleVars, OwnerRotates \/ OwnerWrites \/ OwnerListens \/ StartCrashes
    PROVE  Looked'
<1>1. ~Serving /\ \A f \in Replays : ~Has(f)
  BY LookedFacts DEF OwnerRotates, OwnerWrites, OwnerListens, StartCrashes, Serving
<1>2. \A f \in Replays : ~Has(f)'
  BY <1>1 DEF Has, roleVars
<1>3. CASE OwnerRotates \/ OwnerWrites \/ StartCrashes
  <2>1. owner'.phase # "up"
    <3>1. CASE OwnerRotates
      BY <3>1 DEF OwnerRotates, Down
    <3>2. CASE StartCrashes
      BY <3>2 DEF StartCrashes, OwnerGone, Down
    <3>3. CASE OwnerWrites
      BY <3>3 DEF OwnerWrites, GitInv, BrokerInv, BrokerType, OwnerRecord
    <3>4. QED
      BY <1>3, <3>1, <3>2, <3>3
  <2>2. QED
    BY <1>2, <2>1, LookedDown DEF Serving
<1>4. CASE OwnerListens
  <2>1. /\ owner \in OwnerRecord /\ past \in PastRecord /\ owner.phase = "listening"
        /\ UNCHANGED seen
    BY <1>4 DEF OwnerListens, GitInv, BrokerInv, BrokerType, roleVars
  <2>2. owner'.admits => ~owner.inherits
    BY <1>4, <2>1 DEF OwnerListens, OwnerRecord
  <2>3. past'.lost = past.lost /\ (~past.born => past'.from = 0)
    BY <1>4, <2>1 DEF OwnerListens, PastRecord
  <2>4. ReplayBeforeMutation'
    BY <2>1, <2>2, <2>3, LookedFacts
       DEF GitInv, BrokerInv, Inherited, ReplayBeforeMutation
  <2>5. QED
    BY <1>2, <2>4 DEF Looked, Has
<1>5. QED
  BY <1>3, <1>4

LEMMA LookedStartup ==
    ASSUME GitInv, Startup
    PROVE  Looked'
<1>1. "startup" \in Flows /\ "startup" \in Callers /\ flow \in [Flows -> FlowRecord]
  BY LookedFacts, SlotFacts, RolesAndProcesses
<1>2. CASE InitializeFails
  BY <1>2, LookedRestart DEF InitializeFails
<1>3. CASE ~InitializeFails
  <2>1. UNCHANGED <<owner, past>> /\ seen'.looked = seen.looked
    <3>1. CASE ImportEverything
      BY <3>1, HandedFacts
         DEF ImportEverything, StartupOnly, brokerVars, GitInv, BrokerInv, SeenRecord
    <3>2. CASE ~ImportEverything
      BY <1>1, <1>3, <3>2, HearsFacts
         DEF Startup, Attach, Initialize, AskInitialPull, Ask, HearInitialPull,
             CaptureCurrent, StartupOnly, brokerVars
    <3>3. QED
      BY <3>1, <3>2
  <2>2. \E r : /\ flow' = [flow EXCEPT !["startup"] = r]
               /\ r.pc \in {"derive", "initialize", "pull", "asking", "import", "capture", "idle"}
    <3>1. ASSUME NEW pc \in {"initialize", "pull", "asking", "import", "capture"},
                 Goes("startup", pc)
          PROVE  \E r : flow' = [flow EXCEPT !["startup"] = r] /\ r.pc = pc
      BY <1>1, <3>1, GoesFacts DEF GitInv, BrokerInv, Steps
    <3>2. ASSUME ReadCheckpoint("startup")
          PROVE  \E r : flow' = [flow EXCEPT !["startup"] = r] /\ r.pc = "derive"
      <4> DEFINE at == IF cache[ProcessOf("startup")].loaded
                       THEN cache[ProcessOf("startup")].at ELSE stored
                 r == [flow["startup"] EXCEPT !.pc = "derive", !.from = at]
      <4>1. flow["startup"] \in FlowRecord
        BY <1>1
      <4>2. flow' = [flow EXCEPT !["startup"] = r]
        BY <1>1, <3>2 DEF ReadCheckpoint
      <4> HIDE DEF at
      <4>3. r.pc = "derive"
        BY <4>1 DEF FlowRecord
      <4>4. QED
        BY <4>2, <4>3
    <3>3. Rests("startup") => \E r : flow' = [flow EXCEPT !["startup"] = r] /\ r.pc = "idle"
      BY FlowFacts DEF Rests
    <3>4. QED
      BY <1>3, <3>1, <3>2, <3>3
         DEF Startup, Attach, Initialize, AskInitialPull, HearInitialPull,
             ImportEverything, CaptureCurrent
  <2>3. QED
    BY <1>1, <2>1, <2>2, LookedFlow
<1>4. QED
  BY <1>2, <1>3

LEMMA LookedKept ==
    ASSUME GitInv, [Next]_vars
    PROVE  Looked'
<1>0. /\ BrokerType /\ Handed /\ flow \in [Flows -> FlowRecord]
      /\ {"periodic", "job", "save"} \subseteq Callers /\ {"periodic", "job", "save"} \subseteq Flows
      /\ {"periodic", "job", "save"} \cap Replays = {}
  BY LookedFacts, SlotFacts, RolesAndProcesses, ReconciliationAssumption
     DEF GitInv, BrokerInv, Replays
<1>1. ASSUME NEW r \in Recoveries, BeginReplay(r)
      PROVE  Looked'
  <2>1. r \in Flows /\ UNCHANGED <<owner, past, seen>>
    BY <1>1, RolesAndProcesses DEF BeginReplay, brokerVars
  <2>2. CASE UNCHANGED flow
    BY <2>1, <2>2, LookedStep DEF Has
  <2>3. CASE ReadCheckpoint(r)
    <3>1. \A g \in Flows : flow'[g] = flow[g] \/ flow'[g].pc = "derive"
      BY <1>0, <2>1, <2>3 DEF ReadCheckpoint, Handed, FlowRecord
    <3>2. \A g \in Replays : Has(g)' => Has(g)
      BY <3>1, RolesAndProcesses DEF Has
    <3>3. QED
      BY <2>1, <3>2, LookedStep
  <2>4. QED
    BY <1>1, <2>2, <2>3 DEF BeginReplay
<1>2. ASSUME NEW f \in {"periodic", "job", "save"},
             \/ AskPull(f) \/ HearPull(f)
             \/ f = "save" /\ (AskSave \/ HearSave)
      PROVE  Looked'
  <2>1. UNCHANGED <<owner, past, seen>>
    BY <1>0, <1>2, HearsFacts DEF AskPull, HearPull, AskSave, HearSave, Ask
  <2>2. \A g \in Flows \ {f} : flow'[g] = flow[g]
    BY <1>0, <1>2 DEF AskPull, HearPull, AskSave, HearSave, Goes, Rests, ReadCheckpoint
  <2>3. \A g \in Replays : Has(g)' => Has(g)
    BY <1>0, <2>2, RolesAndProcesses DEF Has
  <2>4. QED
    BY <2>1, <2>3, LookedStep
<1>3. CASE EditsArrive \/ (RemoteAdvances /\ UNCHANGED roleVars) \/ UNCHANGED vars
  <2>1. UNCHANGED <<owner, past, seen, flow>>
    BY <1>3 DEF EditsArrive, RemoteAdvances, roleVars, vars, brokerVars
  <2>2. QED
    BY <2>1, LookedStep DEF Has
<1>4. CASE RuntimeDies
  BY <1>4, LookedRestart DEF RuntimeDies
<1>5. CASE WorkerDies
  <2>1. UNCHANGED <<owner, past, seen>> /\ flow' = [flow EXCEPT !["job"] = Resting]
    BY <1>5 DEF WorkerDies, Rests
  <2>2. QED
    BY <1>0, <2>1, FlowFacts, LookedFlow
<1>6. CASE LosesOwner
  <2>1. ~Serving'
    BY <1>6 DEF LosesOwner, OwnerDies, OwnerGone, Down, Serving
  <2>2. \A f \in Replays : ~Has(f)'
    BY <1>0, <1>6, LosesFacts, RolesAndProcesses DEF Has, StraysFrom
  <2>3. QED
    BY <2>1, <2>2, LookedDown
<1>7. CASE OwnerStarts \/ (StartCrashes /\ UNCHANGED roleVars)
  BY <1>7, LookedOwner DEF OwnerStarts
<1>8. ASSUME NEW c \in Slots, Broker(c) \/ (RecordFails(c) /\ UNCHANGED roleVars)
      PROVE  Looked'
  <2>1. UNCHANGED <<flow, seen, past>>
    BY <1>8 DEF Broker, BrokerServes, RecordStart, Execute, RecordSettled, RecordFails,
       StartRecordFails, SettledRecordFails, roleVars
  <2>2. owner \in OwnerRecord
    BY <1>0 DEF BrokerType
  <2>3. owner'.phase = owner.phase /\ (owner'.admits => owner.admits)
    BY <1>8, <2>2 DEF Broker, BrokerServes, RecordStart, Execute, RecordSettled, RecordFails,
       StartRecordFails, SettledRecordFails, CloseAdmission, OwnerRecord
  <2>4. QED
    BY <2>1, <2>3, LookedStep DEF Has
<1>9. QED
  BY <1>1, <1>2, <1>3, <1>4, <1>5, <1>6, <1>7, <1>8, LookedReplay, LookedStartup DEF Next

-----------------------------------------------------------------------------
(* The theorems.                                                            *)

LEMMA GitInit ==
    ASSUME Init
    PROVE  GitInv
<1>1. BrokerType
  <2>1. owner \in OwnerRecord /\ call \in [Slots -> CallRecord]
    BY CallFacts DEF Init, BrokerInit, Down, OwnerRecord
  <2>2. journal \in JournalRecord /\ repo \in RepoRecord /\ past \in PastRecord
    BY DEF Init, BrokerInit, JournalRecord, RepoRecord, PastRecord
  <2>3. QED
    BY <2>1, <2>2 DEF BrokerType
<1>2. Recorded /\ Found /\ Inherited
  BY CallFacts DEF Init, BrokerInit, Down, Recorded, Found, Inherited, Serving, InOwner
<1> DEFINE s == [Resting EXCEPT !.pc = "attach"]
<1>3. s \in FlowRecord /\ s.pc = "attach" /\ s.from = 0 /\ s.head = 0
  BY DEF Resting, FlowRecord, Steps
<1>4. flow = [f \in Flows |-> IF f = "startup" THEN s ELSE Resting]
  BY DEF Init
<1> HIDE DEF s
<1>5. repo \in RepoRecord /\ seen \in SeenRecord
  BY <1>1 DEF BrokerType, Init, SeenRecord
<1>6. \A f \in Flows : Fits(f, flow[f], repo, seen) /\ flow[f] \in FlowRecord
  <2>1. \A f \in Flows : Fits(f, Resting, repo, seen) /\ Fits(f, s, repo, seen)
    BY <1>3, <1>5, FlowFacts, FitsResting
  <2>2. QED
    BY <1>3, <1>4, <2>1, FlowFacts
<1>7. /\ cache \in [Processes -> CacheRecord] /\ stored = 0
      /\ \A p \in Processes : cache[p].at = 0
  BY DEF Init, Unloaded, CacheRecord
<1>8. \A c \in Slots : call[c].st = "idle" /\ call[c].head <= repo.head
  BY CallFacts DEF Init, BrokerInit
<1>9. Handed
  BY <1>4, <1>5, <1>6, <1>7, <1>8, MarkZero DEF Handed
<1>10. Starting
  BY <1>8, SlotFacts DEF Starting, Init
<1>11. Looked
  <2>1. \A f \in Flows : flow[f].pc \in {"idle", "attach"}
    BY <1>3, <1>4, FlowFacts
  <2>2. ~Serving
    BY DEF Init, BrokerInit, Down, Serving
  <2>3. QED
    BY <2>1, <2>2, RolesAndProcesses DEF Looked, ReplayBeforeMutation
<1>12. QED
  BY <1>1, <1>2, <1>9, <1>10, <1>11 DEF GitInv, BrokerInv

LEMMA GitInvariant == ReconciliationSpec => []GitInv
<1>1. GitInv /\ [Next]_vars => GitInv'
  BY BrokerKept, HandedKept, StartingKept, LookedKept DEF GitInv, BrokerInv
<1>2. QED
  BY <1>1, GitInit, PTL DEF ReconciliationSpec

\* The hand-over of a pull: whichever checkpoint a process would derive the next delta
\* from, what the remote brought up to it was queued for import, or passed over by
\* auto-commit, through crashes of every process at every step.
THEOREM PulledIsHandedOver == ReconciliationSpec => []CheckpointCovered
<1>1. GitInv => CheckpointCovered
  BY DEF GitInv, Handed, Mark, CheckpointCovered, Brought
<1>2. QED
  BY <1>1, GitInvariant, PTL

\* An owner that replaced another changes nothing before a role has looked at what it
\* took over.
THEOREM LooksBeforeItChanges == ReconciliationSpec => []ReplayBeforeMutation
<1>1. GitInv => ReplayBeforeMutation
  BY DEF GitInv, Looked
<1>2. QED
  BY <1>1, GitInvariant, PTL

\* An operation that was cut short is among those the next owner reports, unless an owner
\* died between them while it was starting.
THEOREM LostWorkIsFound == ReconciliationSpec => []LostWorkIsReported
<1>1. GitInv => LostWorkIsReported
  BY DEF GitInv, BrokerInv, Found, LostWorkIsReported
<1>2. QED
  BY <1>1, GitInvariant, PTL
=============================================================================
