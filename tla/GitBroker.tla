------------------------------ MODULE GitBroker ------------------------------
(***************************************************************************)
(* The owner of a Git checkout: one process that runs every Git operation, *)
(* answers over a socket, and keeps a journal of what it started.  An      *)
(* owner that replaces another starts with admission closed: it serves     *)
(* reads and refuses to change the checkout until a role tells it that     *)
(* what the last owner left has been accounted for.                        *)
(*                                                                         *)
(* Commits are numbered along the checkout's history; the only content     *)
(* that matters is which of them brought something from the remote.  That  *)
(* the last owner's Git processes are gone before the next owner starts is *)
(* what ProcessSupervisor!OneOwner shows.                                  *)
(***************************************************************************)
EXTENDS Naturals, FiniteSets

CONSTANT Budgets  \* what may happen of itself: [mishaps, pushes, edits, syncs]

ASSUME BudgetsAssumption ==
    Budgets \subseteq [mishaps : Nat, pushes : Nat, edits : Nat, syncs : Nat]

VARIABLES owner,    \* the owner process: [phase, inherits, admits, failed, ambiguous]
          journal,  \* broker-journal.jsonl: [exists, written, open]
          call,     \* call[c]: the mutation caller c has asked for, if any
          repo,     \* the checkout and how it stands to its remote
          left,     \* what is left of the budget
          past      \* history: [born, from, interrupted, lost, aside, strayed]

brokerVars == <<owner, journal, call, repo, left, past>>

(* Who asks for mutations.  Work whose client has gone belongs to Nobody:  *)
(* the owner carries it to its end whether or not anyone still listens.    *)
Callers == {"startup", "periodic", "save", "job"}
Nobody == "nobody"
Slots == Callers \cup {Nobody}

Quiet == [st |-> "idle", op |-> "none", ok |-> FALSE, head |-> 0]
Refused == [Quiet EXCEPT !.st = "answered"]

InOwner == {"admitted", "started", "ran"}
Serving == owner.phase = "up"
Spend(kind) == left[kind] > 0 /\ left' = [left EXCEPT ![kind] = @ - 1]
Mishap == Spend("mishaps")
Advance(c, st) == call' = [call EXCEPT ![c].st = st]

(* A reply nobody waits for is written to a closed socket. *)
Reply(c, answer) ==
    call' = [call EXCEPT ![c] = IF c = Nobody THEN Quiet ELSE answer]
-----------------------------------------------------------------------------
(* Admission is read once, before the request waits for anything.  Without *)
(* an owner the call fails at once; the client never sends a mutation      *)
(* twice.                                                                  *)
Admits == Serving /\ owner.admits

Ask(c, op) ==
    /\ call[c].st = "idle"
    /\ call' = [call EXCEPT ![c] =
                  IF Admits THEN [Quiet EXCEPT !.st = "admitted", !.op = op]
                            ELSE Refused]
    /\ UNCHANGED <<owner, journal, repo, past>>

RecordStart(c) ==
    /\ call[c].st = "admitted"
    /\ journal' = [journal EXCEPT !.open = @ \cup {c}, !.written = TRUE]
    /\ Advance(c, "started")
    /\ UNCHANGED <<owner, repo, left, past>>

CloseAdmission == owner' = [owner EXCEPT !.admits = FALSE, !.failed = TRUE]

(* Nothing runs whose start is not on disk. *)
StartRecordFails(c) ==
    /\ call[c].st = "admitted"
    /\ Mishap
    /\ CloseAdmission
    /\ Reply(c, Refused)
    /\ UNCHANGED <<journal, repo, past>>
-----------------------------------------------------------------------------
Ran(c, ok, head) ==
    call' = [call EXCEPT ![c] = [st |-> "ran", op |-> "none", ok |-> ok, head |-> head]]

(* Local edits are committed before anything else. *)
Committed ==
    [repo EXCEPT !.head = IF repo.dirty THEN @ + 1 ELSE @,
                 !.unpushed = @ \/ repo.dirty,
                 !.dirty = FALSE]

(* Edits are committed, then the remote is merged in.  A network that      *)
(* fails leaves the first half done.                                       *)
Pull(c, reached) ==
    LET local == Committed
        merged == local.head + 1
    IN /\ call[c].op = "pull"
       /\ Ran(c, reached, 0)
       /\ repo' = IF reached /\ repo.behind
                  THEN [local EXCEPT !.head = merged, !.behind = FALSE,
                                     !.pulled = @ \cup {merged}]
                  ELSE local

(* Commit and push; the checkpoint is the head the push left.  A push onto *)
(* a remote that has moved is rejected, and the commit stays.              *)
CommitAndPush(c, reached) ==
    LET local == Committed
        pushed == reached /\ ~repo.behind
    IN /\ call[c].op = "commit-and-push"
       /\ IF ~local.unpushed
          THEN Ran(c, TRUE, 0) /\ UNCHANGED repo
          ELSE /\ Ran(c, pushed, IF pushed THEN local.head ELSE 0)
               /\ repo' = [local EXCEPT !.unpushed = ~pushed]

SettlesEarlySlip(c) ==
    /\ call[c].st = "started"
    /\ \E reached \in BOOLEAN :
          /\ IF reached THEN UNCHANGED left ELSE Mishap
          /\ Pull(c, reached) \/ CommitAndPush(c, reached)
    /\ journal' = [journal EXCEPT !.open = @ \ {c}]
    /\ UNCHANGED <<owner, past>>

(* One operation at a time holds the checkout. *)
Execute(c) ==
    /\ call[c].st = "started"
    /\ \E reached \in BOOLEAN :
          /\ IF reached THEN UNCHANGED left ELSE Mishap
          /\ Pull(c, reached) \/ CommitAndPush(c, reached)
    /\ UNCHANGED <<owner, journal, past>>

RecordSettled(c) ==
    /\ call[c].st = "ran"
    /\ journal' = [journal EXCEPT !.open = @ \ {c}]
    /\ Reply(c, [call[c] EXCEPT !.st = "answered"])
    /\ UNCHANGED <<owner, repo, left, past>>

(* Git may have changed the checkout and the record does not say so. *)
SettledRecordFails(c) ==
    /\ call[c].st = "ran"
    /\ Mishap
    /\ CloseAdmission
    /\ Reply(c, Refused)
    /\ UNCHANGED <<journal, repo, past>>

BrokerServes(c) ==
    \/ RecordStart(c)
    \/ Execute(c)
    \/ RecordSettled(c)

RecordFails(c) == StartRecordFails(c) \/ SettledRecordFails(c)

(* Opening names no owner: whichever answers now is the one that opens.    *)
(* History keeps whether it is the one the caller looked at.               *)
OpenAdmission(stray) ==
    /\ Serving
    /\ owner' = [owner EXCEPT !.admits = TRUE, !.failed = FALSE]
    /\ past' = [past EXCEPT !.strayed = @ \/ (~owner.admits /\ stray)]
-----------------------------------------------------------------------------
Down == [phase |-> "down", inherits |-> FALSE, admits |-> FALSE,
         failed |-> FALSE, ambiguous |-> {}]

(* The process is gone, with whatever it was doing half done.  Gone in the *)
(* middle of the rotation it leaves no record at all, so that the owner    *)
(* after it takes itself for the first: the record is lost.  Gone anywhere *)
(* between the rotation and its first answer it takes with it what it had  *)
(* read in the record, which is now aside: nobody reads that again.        *)
OwnerGone ==
    /\ owner' = Down
    /\ past' = [past EXCEPT
                  !.strayed = FALSE,
                  !.lost = ~journal.exists /\ (owner.inherits \/ @),
                  !.aside = ~Serving /\ (owner.ambiguous # {} \/ @),
                  !.interrupted =
                     IF Serving
                     THEN {c \in Slots : call[c].st \in {"started", "ran"}}
                     ELSE @]

(* Every caller still waiting is told, and only that the owner is gone; a  *)
(* reply that was being written may be lost with it.                       *)
OwnerDies ==
    /\ Serving
    /\ Mishap
    /\ OwnerGone
    /\ \E lost \in SUBSET {c \in Callers : call[c].st = "answered"} :
          call' = [c \in Slots |->
                     IF c \in lost \/ (c \in Callers /\ call[c].st \in InOwner)
                     THEN Refused
                     ELSE IF c = Nobody THEN Quiet ELSE call[c]]
    /\ UNCHANGED <<journal, repo>>

(* The next owner reads the record and moves it aside.  Then it writes an  *)
(* empty one of its own, and only then does it listen.                     *)
OwnerRotates ==
    /\ owner.phase = "down"
    /\ owner' = [Down EXCEPT !.phase = "rotating",
                             !.inherits = journal.exists,
                             !.ambiguous = journal.open]
    /\ journal' = [exists |-> journal.exists /\ ~journal.written,
                   written |-> FALSE, open |-> {}]
    /\ UNCHANGED <<call, repo, left, past>>

OwnerWrites ==
    /\ owner.phase = "rotating"
    /\ owner' = [owner EXCEPT !.phase = "listening"]
    /\ journal' = [journal EXCEPT !.exists = TRUE]
    /\ UNCHANGED <<call, repo, left, past>>

StartCrashes ==
    /\ owner.phase \in {"rotating", "listening"}
    /\ Mishap
    /\ OwnerGone
    /\ UNCHANGED <<journal, call, repo>>

TrustsSettledSlip ==
    /\ owner.phase = "listening"
    /\ owner' = [owner EXCEPT !.phase = "up", !.admits = owner.ambiguous = {}]
    /\ past' = [past EXCEPT !.born = TRUE,
                            !.from = IF past.born THEN repo.head ELSE 0]
    /\ UNCHANGED <<journal, call, repo, left>>

OwnerListens ==
    /\ owner.phase = "listening"
    /\ owner' = [owner EXCEPT !.phase = "up", !.admits = ~owner.inherits]
    /\ past' = [past EXCEPT !.born = TRUE,
                            !.from = IF past.born THEN repo.head ELSE 0]
    /\ UNCHANGED <<journal, call, repo, left>>

(* Somebody else pushes. *)
RemoteAdvances ==
    /\ ~repo.behind
    /\ Spend("pushes")
    /\ repo' = [repo EXCEPT !.behind = TRUE]
    /\ UNCHANGED <<owner, journal, call, past>>

BrokerInit ==
    /\ owner = Down
    /\ journal = [exists |-> FALSE, written |-> FALSE, open |-> {}]
    /\ call = [c \in Slots |-> Quiet]
    /\ repo = [head |-> 1, pulled |-> {1}, dirty |-> FALSE,
               unpushed |-> FALSE, behind |-> FALSE]
    /\ left \in Budgets
    /\ past = [born |-> FALSE, from |-> 0, interrupted |-> {},
               lost |-> FALSE, aside |-> FALSE, strayed |-> FALSE]
=============================================================================
