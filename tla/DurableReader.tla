---------------------------- MODULE DurableReader ----------------------------
(***************************************************************************)
(* The progress monitor of the web process, in its durable-reader mode     *)
(* (shell/job-queue/src/job-progress-monitor.ts): it has no worker of its  *)
(* own and learns what the workers did by seeking through the table, in    *)
(* the order of (runtimeUpdatedAt, id).                                    *)
(*                                                                         *)
(* JobQueue supplies the writers.  Retention is left out: cleanup() has no *)
(* caller outside the tests.                                               *)
(***************************************************************************)
EXTENDS JobQueue, Sequences

CONSTANTS
    IdOrder,          \* IdOrder[j] \in Nat \ {0}: the order of the ids
    PageSize          \* limit of one getRuntimeUpdates

ASSUME ReaderConstants ==
    /\ \A j, k \in Jobs : IdOrder[j] \in Nat \ {0} /\ (IdOrder[j] = IdOrder[k] => j = k)
    /\ PageSize \in Nat \ {0}

VARIABLES
    started,          \* start() was called
    pollCursor,       \* the position read so far
    updates,          \* the rest of the page pollDurableUpdates is publishing
    announced,        \* announced[j]: terminal events of j handed on (history)
    startedAt,        \* the stamp start() took (history)
    due,              \* jobs that settled since start() (history)
    rewound           \* a statement gave a row an older cursor back (history)

reader == <<started, pollCursor, updates, announced>>
written == <<startedAt, due, rewound>>
rvars == <<vars, reader, written>>

Position(j) == [updatedAt |-> job[j].runtimeUpdatedAt, order |-> IdOrder[j]]

NotBeforeSlip(p, c) ==
    p.updatedAt > c.updatedAt \/ (p.updatedAt = c.updatedAt /\ p.order >= c.order)

TimeOnlySlip(p, c) == p.updatedAt > c.updatedAt

\* The row-value comparison of getRuntimeUpdates.
After(p, c) ==
    p.updatedAt > c.updatedAt \/ (p.updatedAt = c.updatedAt /\ p.order > c.order)

ReaderInit ==
    /\ Init
    /\ started = FALSE
    /\ pollCursor = [updatedAt |-> 0, order |-> 0]
    /\ updates = <<>>
    /\ announced = [j \in Jobs |-> 0]
    /\ startedAt = Null
    /\ due = {}
    /\ rewound = FALSE

Start(t) ==
    /\ ~started
    /\ started' = TRUE
    /\ pollCursor' = [updatedAt |-> t, order |-> 0]
    /\ startedAt' = t
    /\ UNCHANGED <<vars, updates, announced, due, rewound>>

\* A row whose runtimeUpdatedAt is NULL compares with nothing.
Unread == {j \in Stored : job[j].runtimeUpdatedAt # Null /\ After(Position(j), pollCursor)}

\* The first PageSize rows in the order of (runtimeUpdatedAt, id): they are read
\* now, and published one by one later.
Fetch ==
    /\ started /\ updates = <<>>
    /\ \E n \in 1..PageSize : \E page \in [1..n -> Unread] :
         LET rest == Unread \ {page[i] : i \in 1..n}
         IN  /\ \A i, k \in 1..n : i < k =>
                   page[i] # page[k] /\ ~After(Position(page[i]), Position(page[k]))
             /\ \A i \in 1..n, j \in rest : ~After(Position(page[i]), Position(j))
             /\ n < PageSize => rest = {}
             /\ updates' = [i \in 1..n |-> [job |-> page[i], status |-> job[page[i]].status,
                                          cursor |-> Position(page[i])]]
    /\ UNCHANGED <<vars, started, pollCursor, announced, written>>

\* A terminal event is announced when it is handed to handleJobStatusChange, which
\* catches and logs an error of the publication itself: the event is lost then, and
\* still counts as announced.
Publish ==
    /\ updates # <<>>
    /\ pollCursor' = Head(updates).cursor
    /\ updates' = Tail(updates)
    /\ announced' = IF Head(updates).status \in Terminal
                    THEN [announced EXCEPT ![Head(updates).job] = @ + 1]
                    ELSE announced
    /\ UNCHANGED <<vars, started, written>>

\* Publishing progress throws: the rest of the page is dropped, to be read again.
PublishThrows ==
    /\ updates # <<>> /\ Head(updates).status = Processing
    /\ pollCursor' = Head(updates).cursor
    /\ updates' = <<>>
    /\ UNCHANGED <<vars, started, announced, written>>

Settled == {j \in Jobs : job[j].status \in Terminal}

Write ==
    /\ Produce \/ Attend \/ Work \/ Settling \/ CallersDie \/ Tick
    /\ rewound' = (rewound \/ \E j \in Jobs :
                                job'[j].runtimeUpdatedAt < job[j].runtimeUpdatedAt)
    /\ due' = IF started
              THEN due \cup {j \in Settled' \ Settled : job'[j].completedAt >= startedAt}
              ELSE due
    /\ UNCHANGED <<reader, startedAt>>

ReaderNext == Write \/ Fetch \/ Publish \/ PublishThrows \/ \E t \in Stamps : Start(t)

ReaderSpec == ReaderInit /\ [][ReaderNext]_rvars

-----------------------------------------------------------------------------
(* Properties.                                                             *)

\* A job's terminal event is handed on at most once, although pages overlap
\* writes and a settled row may be written by nobody but read at any time.
AnnouncedOnce == \A j \in Jobs : announced[j] <= 1

\* No terminal write is lost to the reader: unless a retry gave its row an older
\* cursor back, a job that settled with a stamp not before that of start() has
\* been announced, is in the page, or still lies beyond the cursor, ties in the
\* millisecond and writes that commit late included. Whether the publication of an
\* announced event then succeeds is not said.
NothingSkipped ==
    \A j \in due :
        \/ rewound
        \/ announced[j] > 0
        \/ \E i \in DOMAIN updates : updates[i].job = j /\ updates[i].status \in Terminal
        \/ j \in Unread

=============================================================================
