------------------------- MODULE DurableReaderProofs -------------------------
(* Theorems about DurableReader, for every set of jobs and workers, every    *)
(* order of the ids, every size of a page, and stamps as old as Lag allows.  *)
EXTENDS DurableReader, JobQueueProofs

-----------------------------------------------------------------------------
(* Positions in the stream are ordered like pairs.                          *)

Cursor == [updatedAt : Nat, order : Nat]

LEMMA AfterIsAnOrder ==
    ASSUME NEW p \in Cursor, NEW c \in Cursor, NEW d \in Cursor
    PROVE  /\ ~After(p, p)
           /\ After(p, c) /\ After(c, d) => After(p, d)
           /\ ~After(p, c) /\ After(d, c) => ~After(p, d)
           /\ ~After(p, c) /\ p # c => After(c, p)
           /\ After(p, c) => ~After(c, p)
BY DEF After, Cursor

LEMMA PositionType ==
    ASSUME TypeOK, NEW j \in Jobs
    PROVE  Position(j) \in Cursor
BY ReaderConstants DEF Position, Cursor, TypeOK, Row

LEMMA OnePosition ==
    ASSUME NEW j \in Jobs, NEW k \in Jobs, Position(j) = Position(k)
    PROVE  j = k
BY ReaderConstants DEF Position

-----------------------------------------------------------------------------
(* The invariant of the reader.                                             *)

Statuses == {"absent", "deleted"} \cup Active \cup Terminal

Update == [job : Jobs, status : Statuses, cursor : Cursor]

ReaderTypeOK ==
    /\ TypeOK
    /\ started \in BOOLEAN
    /\ startedAt \in Nat
    /\ pollCursor \in Cursor
    /\ updates \in Seq(Update)
    /\ announced \in [Jobs -> Nat]
    /\ due \in SUBSET Jobs
    /\ rewound \in BOOLEAN

Fresh ==
    /\ startedAt = Null
    /\ updates = <<>> /\ due = {}
    /\ \A j \in Jobs : announced[j] = 0

\* The page lies beyond the cursor in strictly rising order, and a row that was
\* settled when it was read has not moved since.
Page ==
    /\ \A i \in 1..Len(updates) :
          updates[i].cursor.updatedAt # Null /\ After(updates[i].cursor, pollCursor)
    /\ \A i, k \in 1..Len(updates) : i < k => After(updates[k].cursor, updates[i].cursor)
    /\ \A i \in 1..Len(updates) : updates[i].status \in Terminal =>
          /\ updates[i].job \in Settled
          /\ Position(updates[i].job) = updates[i].cursor

\* What was announced was settled, and lies behind the cursor for good.
Behind ==
    \A j \in Jobs : announced[j] # 0 =>
        announced[j] = 1 /\ j \in Settled /\ ~After(Position(j), pollCursor)

\* How far the reader has looked: the end of its page.
Frontier == IF updates = <<>> THEN pollCursor ELSE updates[Len(updates)].cursor

\* A row that settles takes a position beyond the frontier: that lies no further
\* than the stamp of start(), or than a row that is still there.
Overtaken ==
    \/ rewound
    \/ ~After(Frontier, [updatedAt |-> startedAt, order |-> 0])
    \/ \E k \in Stored : job[k].runtimeUpdatedAt >= Frontier.updatedAt

InPage(j) == \E i \in 1..Len(updates) : updates[i].job = j /\ updates[i].status \in Terminal

Ahead(j) == job[j].runtimeUpdatedAt # Null /\ After(Position(j), Frontier)

Accountable ==
    \A j \in due :
        j \in Settled /\ (rewound \/ announced[j] # 0 \/ InPage(j) \/ Ahead(j))

ReaderInv ==
    /\ ReaderTypeOK
    /\ ~started => Fresh
    /\ Page
    /\ Behind
    /\ started => Overtaken
    /\ Accountable

LEMMA FrontierType ==
    ASSUME ReaderTypeOK
    PROVE  Frontier \in Cursor
<1>1. CASE updates = <<>>
  BY <1>1 DEF Frontier, ReaderTypeOK
<1>2. CASE updates # <<>>
  <2>1. Len(updates) \in 1..Len(updates)
    BY <1>2 DEF ReaderTypeOK
  <2>2. updates[Len(updates)] \in Update
    BY <2>1 DEF ReaderTypeOK
  <2>3. QED
    BY <1>2, <2>2 DEF Frontier, Update
<1>3. QED
  BY <1>1, <1>2

LEMMA ReaderInitHolds == ReaderInit => ReaderInv
<1> SUFFICES ASSUME ReaderInit
             PROVE  ReaderInv
  OBVIOUS
<1>1. ReaderTypeOK
  <2>1. TypeOK
    BY InitType DEF ReaderInit
  <2>2. pollCursor \in Cursor /\ announced \in [Jobs -> Nat]
    BY DEF ReaderInit, Cursor
  <2>3. updates \in Seq(Update) /\ due \in SUBSET Jobs
    BY DEF ReaderInit
  <2>4. started \in BOOLEAN /\ startedAt \in Nat /\ rewound \in BOOLEAN
    BY DEF ReaderInit, Null
  <2>5. QED
    BY <2>1, <2>2, <2>3, <2>4 DEF ReaderTypeOK
<1>2. Fresh /\ Page /\ Behind
  <2>1. Fresh /\ Behind
    BY DEF ReaderInit, Fresh, Behind
  <2>2. Len(updates) = 0
    BY DEF ReaderInit
  <2>3. QED
    BY <2>1, <2>2 DEF Page
<1>3. Accountable /\ ~started
  BY DEF ReaderInit, Accountable
<1>4. QED
  BY <1>1, <1>2, <1>3 DEF ReaderInv

-----------------------------------------------------------------------------
(* What the writers do, as the reader sees it.                              *)

LEMMA WriteStep ==
    ASSUME TypeOK, Write
    PROVE  TypeOK' /\ \A j \in Jobs : LiveStep(j, job[j], job'[j])
<1>1. [Next]_vars
  BY DEF Write, Next
<1>2. ASSUME UNCHANGED <<job, claims>>, NEW j \in Jobs
      PROVE  LiveStep(j, job[j], job'[j])
  BY <1>2 DEF LiveStep
<1>3. Produce \/ Attend \/ Work \/ Settling \/ UNCHANGED <<job, claims>>
  BY DEF Write, CallersDie, Tick
<1>4. \A j \in Jobs : LiveStep(j, job[j], job'[j])
  BY <1>2, <1>3, ProduceStep, AttendStep, WorkStep, SettlingStep
<1>5. QED
  BY <1>1, <1>4, NextType

\* A settled row stays where it is.
LEMMA SettledStand ==
    ASSUME TypeOK, Write, NEW j \in Settled
    PROVE  j \in Jobs /\ job'[j] = job[j]
<1>1. j \in Jobs /\ LiveStep(j, job[j], job'[j])
  BY WriteStep DEF Settled
<1>2. QED
  BY <1>1 DEF Settled, LiveStep, Inserted, Touched, Given, GivenBack, SettledNow,
              Active, Terminal, Pending, Processing, Completed, Failed

\* A row that is in the table stays in it.
LEMMA StoredStay ==
    ASSUME TypeOK, Write, NEW j \in Stored
    PROVE  j \in Stored'
<1>1. j \in Jobs /\ LiveStep(j, job[j], job'[j])
  BY WriteStep DEF Stored
<1>2. QED
  BY <1>1 DEF Stored, LiveStep, Inserted, Touched, Given, GivenBack, SettledNow,
              Active, Terminal, Pending, Processing, Completed, Failed

\* A row that settles takes a position beyond every other, not before its stamp.
LEMMA SettlingTakesNewPosition ==
    ASSUME TypeOK, Write, NEW j \in Settled' \ Settled
    PROVE  /\ j \in Jobs
           /\ job'[j].runtimeUpdatedAt \in Nat \ {Null} /\ job'[j].completedAt \in Nat
           /\ job'[j].runtimeUpdatedAt >= job'[j].completedAt
           /\ \A k \in Stored : job'[j].runtimeUpdatedAt > job[k].runtimeUpdatedAt
<1>1. j \in Jobs /\ LiveStep(j, job[j], job'[j])
  BY WriteStep DEF Settled
<1>2. SettledNow(job[j], job'[j])
  BY <1>1 DEF Settled, LiveStep, Inserted, Touched, Given, GivenBack,
              Active, Terminal, Pending, Processing, Completed, Failed
<1> DEFINE at == job'[j].completedAt
           u == job'[j].runtimeUpdatedAt
<1>3. at \in Nat /\ u \in NextCursors(at)
  BY <1>2 DEF SettledNow
<1>4. u \in Nat /\ u >= at /\ \A k \in Jobs : u > CursorOf(k)
  <2> HIDE DEF at, u
  <2>1. QED
    BY <1>3, CursorType DEF TypeOK
<1>5. \A k \in Stored : k \in Jobs /\ CursorOf(k) = job[k].runtimeUpdatedAt
  BY DEF CursorOf, Stored
<1>6. CursorOf(j) \in Nat
  BY <1>1 DEF CursorOf, TypeOK, Row, Null
<1>7. QED
  BY <1>1, <1>3, <1>4, <1>5, <1>6 DEF Null

-----------------------------------------------------------------------------
(* A statement of a writer.                                                 *)

LEMMA WriteKeeps == ReaderInv /\ Write => ReaderInv'
<1> SUFFICES ASSUME ReaderInv, Write
             PROVE  ReaderInv'
  OBVIOUS
<1>1. TypeOK /\ TypeOK' /\ ReaderTypeOK
  BY WriteStep DEF ReaderInv, ReaderTypeOK
<1>2. UNCHANGED <<started, pollCursor, updates, announced, startedAt>>
  BY DEF Write, reader
<1>3. \A j \in Settled : j \in Settled' /\ job'[j] = job[j] /\ Position(j)' = Position(j)
  BY <1>1, SettledStand DEF Settled, Position
<1>4. rewound' \in BOOLEAN /\ due' \in SUBSET Jobs
  BY <1>1 DEF Write, ReaderTypeOK, Settled
<1>5. ReaderTypeOK'
  BY <1>1, <1>2, <1>4 DEF ReaderTypeOK
<1>6. (~started => Fresh)'
  BY <1>2 DEF ReaderInv, Fresh, Write
<1>7. Page'
  BY <1>2, <1>3 DEF ReaderInv, Page
<1>8. Behind'
  BY <1>2, <1>3 DEF ReaderInv, Behind
<1>9. Frontier' = Frontier
  BY <1>2 DEF Frontier
<1>10. ASSUME started
       PROVE  Overtaken'
  <2>1. Overtaken /\ (rewound => rewound')
    BY <1>10 DEF ReaderInv, Write
  <2>2. ASSUME NEW k \in Stored, job[k].runtimeUpdatedAt >= Frontier.updatedAt, ~rewound'
        PROVE  k \in Stored' /\ job'[k].runtimeUpdatedAt >= Frontier.updatedAt
    <3>1. k \in Stored' /\ k \in Jobs
      BY <1>1, StoredStay DEF Stored
    <3>2. ~(job'[k].runtimeUpdatedAt < job[k].runtimeUpdatedAt)
      BY <2>2, <3>1 DEF Write
    <3>3. /\ job[k].runtimeUpdatedAt \in Nat /\ job'[k].runtimeUpdatedAt \in Nat
      BY <1>1, <3>1 DEF TypeOK, Row
    <3>4. Frontier \in Cursor
      BY <1>1, FrontierType
    <3>5. QED
      BY <2>2, <3>1, <3>2, <3>3, <3>4 DEF Cursor
  <2>3. QED
    BY <1>2, <1>9, <2>1, <2>2 DEF Overtaken
<1>11. ASSUME NEW j \in due
       PROVE  j \in Settled' /\ (rewound' \/ announced'[j] # 0 \/ InPage(j)' \/ Ahead(j)')
  <2>1. j \in Settled /\ (rewound \/ announced[j] # 0 \/ InPage(j) \/ Ahead(j))
    BY <1>11 DEF ReaderInv, Accountable
  <2>2. rewound => rewound'
    BY DEF Write
  <2>3. InPage(j)' = InPage(j)
    BY <1>2 DEF InPage
  <2>4. Ahead(j) => Ahead(j)'
    BY <1>3, <1>9, <2>1 DEF Ahead
  <2>5. QED
    BY <1>2, <1>3, <2>1, <2>2, <2>3, <2>4
<1>12. ASSUME started, NEW j \in Settled' \ Settled, job'[j].completedAt >= startedAt
       PROVE  j \in Settled' /\ (rewound' \/ Ahead(j)')
  <2> DEFINE u == job'[j].runtimeUpdatedAt
  <2>1. /\ j \in Jobs /\ u \in Nat \ {Null} /\ u >= startedAt /\ startedAt \in Nat
        /\ \A k \in Stored : u > job[k].runtimeUpdatedAt
    BY <1>1, <1>12, SettlingTakesNewPosition DEF ReaderTypeOK
  <2>2. Frontier \in Cursor
    BY <1>1, FrontierType
  <2>3. Position(j)' = [updatedAt |-> u, order |-> IdOrder[j]] /\ IdOrder[j] \in Nat \ {0}
    BY <2>1, ReaderConstants DEF Position
  <2>4. \A k \in Stored : job[k].runtimeUpdatedAt \in Nat
    BY <1>1 DEF TypeOK, Row, Stored
  <2>5. rewound => rewound'
    BY DEF Write
  <2> HIDE DEF u
  <2>6. ASSUME ~After(Frontier, [updatedAt |-> startedAt, order |-> 0])
        PROVE  After([updatedAt |-> u, order |-> IdOrder[j]], Frontier)
    BY <2>1, <2>2, <2>3, <2>6 DEF After, Cursor
  <2>7. ASSUME NEW k \in Stored, job[k].runtimeUpdatedAt >= Frontier.updatedAt
        PROVE  After([updatedAt |-> u, order |-> IdOrder[j]], Frontier)
    BY <2>1, <2>2, <2>4, <2>7 DEF After, Cursor
  <2>8. Overtaken
    BY <1>12 DEF ReaderInv
  <2>9. QED
    BY <1>9, <1>12, <2>1, <2>3, <2>5, <2>6, <2>7, <2>8 DEF Overtaken, Ahead, u
<1>13. Accountable'
  BY <1>2, <1>11, <1>12 DEF Accountable, Write
<1>14. QED
  BY <1>2, <1>5, <1>6, <1>7, <1>8, <1>10, <1>13 DEF ReaderInv

-----------------------------------------------------------------------------
(* What the reader does.                                                    *)

\* The page is empty, so a step that only moves the cursor of a fresh reader or
\* leaves the page empty has nothing to show of it.
LEMMA EmptyPage ==
    ASSUME updates = <<>>
    PROVE  Page /\ Frontier = pollCursor /\ \A j : ~InPage(j)
<1>1. Len(updates) = 0
  OBVIOUS
<1>2. QED
  BY <1>1 DEF Page, Frontier, InPage

LEMMA StartKeeps ==
    ASSUME ReaderInv, NEW t \in Stamps, Start(t)
    PROVE  ReaderInv'
<1>1. ReaderTypeOK /\ TypeOK /\ Fresh /\ t \in Nat
  BY StampType DEF ReaderInv, Start, ReaderTypeOK, TypeOK
<1>2. updates' = <<>> /\ due' = {} /\ UNCHANGED <<vars, updates, announced, due, rewound>>
  BY <1>1 DEF Start, Fresh
<1>3. TypeOK'
  BY <1>1, <1>2, NextType
<1>4. pollCursor' \in Cursor /\ started' /\ startedAt' \in Nat
  BY <1>1 DEF Start, Cursor
<1>5. ReaderTypeOK'
  BY <1>1, <1>2, <1>3, <1>4 DEF ReaderTypeOK, Start
<1>6. Page' /\ Frontier' = pollCursor'
  <2>1. Len(updates') = 0
    BY <1>2
  <2>2. QED
    BY <1>2, <2>1 DEF Page, Frontier
<1>7. Behind'
  BY <1>1, <1>2 DEF Fresh, Behind
<1>8. Overtaken'
  BY <1>1, <1>4, <1>6, AfterIsAnOrder DEF Overtaken, Start
<1>9. Accountable'
  BY <1>2 DEF Accountable
<1>10. QED
  BY <1>4, <1>5, <1>6, <1>7, <1>8, <1>9 DEF ReaderInv

LEMMA FetchKeeps == ReaderInv /\ Fetch => ReaderInv'
<1> SUFFICES ASSUME ReaderInv, Fetch
             PROVE  ReaderInv'
  OBVIOUS
<1> DEFINE Entry(k) == [job |-> k, status |-> job[k].status, cursor |-> Position(k)]
<1> DEFINE Read(n, page) ==
             /\ \A i, k \in 1..n : i < k =>
                   page[i] # page[k] /\ ~After(Position(page[i]), Position(page[k]))
             /\ \A i \in 1..n, j \in Unread \ {page[i] : i \in 1..n} :
                   ~After(Position(page[i]), Position(j))
             /\ updates' = [i \in 1..n |-> Entry(page[i])]
<1>0. PICK n \in 1..PageSize : \E page \in [1..n -> Unread] : Read(n, page)
  BY DEF Fetch
<1>1. PICK page \in [1..n -> Unread] : Read(n, page)
  BY <1>0
<1>2. /\ ReaderTypeOK /\ TypeOK /\ started /\ updates = <<>>
      /\ UNCHANGED <<vars, started, pollCursor, announced, startedAt, due, rewound>>
  BY DEF ReaderInv, ReaderTypeOK, Fetch, written
<1>3. TypeOK'
  BY <1>2, NextType
<1>4. /\ \A i \in 1..n : /\ page[i] \in Unread /\ page[i] \in Jobs /\ page[i] \in Stored
                         /\ Position(page[i]) \in Cursor
                         /\ After(Position(page[i]), pollCursor)
                         /\ Position(page[i]).updatedAt # Null
      /\ n \in Nat \ {0}
  BY <1>2, PositionType, ReaderConstants DEF Unread, Stored, Position
<1>5. \A i \in 1..n : Entry(page[i]) \in Update
  BY <1>2, <1>4 DEF Update, TypeOK, Row, Statuses
<1>6. /\ updates' \in Seq(Update) /\ Len(updates') = n
      /\ \A i \in 1..n : updates'[i] = Entry(page[i])
  <2> HIDE DEF Entry
  <2>1. QED
    BY <1>1, <1>4, <1>5
<1>7. ReaderTypeOK'
  BY <1>2, <1>3, <1>6 DEF ReaderTypeOK
<1>8. \A j : Position(j)' = Position(j)
  BY <1>2 DEF Position, vars
<1>9. \A i, k \in 1..n : i < k => After(Position(page[k]), Position(page[i]))
  <2> SUFFICES ASSUME NEW i \in 1..n, NEW k \in 1..n, i < k
               PROVE  After(Position(page[k]), Position(page[i]))
    OBVIOUS
  <2>1. page[i] # page[k] /\ ~After(Position(page[i]), Position(page[k]))
    BY <1>1
  <2>2. Position(page[i]) # Position(page[k])
    BY <1>4, <2>1, OnePosition
  <2>3. QED
    BY <1>4, <2>1, <2>2, AfterIsAnOrder
<1>10. Settled' = Settled
  BY <1>2 DEF Settled, vars
<1>11. Page'
  <2>1. \A i \in 1..n :
           updates'[i].cursor.updatedAt # Null /\ After(updates'[i].cursor, pollCursor')
    BY <1>2, <1>4, <1>6
  <2>2. \A i, k \in 1..n : i < k => After(updates'[k].cursor, updates'[i].cursor)
    BY <1>6, <1>9
  <2>3. \A i \in 1..n : updates'[i].status \in Terminal =>
           /\ updates'[i].job \in Settled'
           /\ [updatedAt |-> job'[updates'[i].job].runtimeUpdatedAt,
               order |-> IdOrder[updates'[i].job]] = updates'[i].cursor
    BY <1>2, <1>4, <1>6, <1>10 DEF Settled, Position, vars
  <2> HIDE DEF Entry
  <2>4. QED
    BY <1>6, <2>1, <2>2, <2>3 DEF Page, Position
<1>12. Behind'
  BY <1>2, <1>8, <1>10 DEF ReaderInv, Behind
<1>13. Frontier' = Position(page[n]) /\ n \in 1..n
  <2>1. n \in 1..n /\ updates' # <<>>
    BY <1>4, <1>6
  <2>2. QED
    BY <1>6, <2>1 DEF Frontier
<1>14. Overtaken'
  <2>1. page[n] \in Stored' /\ job'[page[n]].runtimeUpdatedAt = Frontier'.updatedAt
    BY <1>2, <1>4, <1>13 DEF Position, Stored, vars
  <2>2. job'[page[n]].runtimeUpdatedAt \in Nat
    BY <1>3, <1>4, <1>13 DEF TypeOK, Row
  <2>3. QED
    BY <2>1, <2>2 DEF Overtaken
<1>15. ASSUME NEW j \in due
       PROVE  j \in Settled' /\ (rewound' \/ announced'[j] # 0 \/ InPage(j)' \/ Ahead(j)')
  <2>1. j \in Settled /\ (rewound \/ announced[j] # 0 \/ InPage(j) \/ Ahead(j))
    BY <1>15 DEF ReaderInv, Accountable
  <2>2. CASE rewound \/ announced[j] # 0
    BY <1>2, <1>10, <2>1, <2>2
  <2>3. CASE Ahead(j)
    <3>1. j \in Unread
      BY <1>2, <2>1, <2>3, EmptyPage
         DEF Ahead, Unread, Stored, Settled, Terminal, Completed, Failed
    <3>2. CASE \E i \in 1..n : page[i] = j
      <4>1. PICK i \in 1..n : page[i] = j
        BY <3>2
      <4>2. updates'[i].job = j /\ updates'[i].status \in Terminal
        BY <1>6, <2>1, <4>1 DEF Settled
      <4>3. InPage(j)'
        BY <1>6, <4>2 DEF InPage
      <4>4. QED
        BY <1>10, <2>1, <4>3
    <3>3. CASE \A i \in 1..n : page[i] # j
      <4>1. ~After(Position(page[n]), Position(j))
        BY <1>1, <1>13, <3>1, <3>3
      <4>2. Position(page[n]) # Position(j) /\ Position(j) \in Cursor
        BY <1>2, <1>4, <1>13, <2>1, <3>3, OnePosition, PositionType DEF Settled
      <4>3. After(Position(j), Position(page[n]))
        BY <1>4, <1>13, <4>1, <4>2, AfterIsAnOrder
      <4>4. Ahead(j)'
        BY <1>2, <1>8, <1>13, <2>3, <4>3 DEF Ahead, vars
      <4>5. QED
        BY <1>10, <2>1, <4>4
    <3>4. QED
      BY <3>2, <3>3
  <2>4. QED
    BY <1>2, <2>1, <2>2, <2>3, EmptyPage
<1>16. Accountable'
  BY <1>2, <1>15 DEF Accountable
<1>17. QED
  BY <1>2, <1>7, <1>11, <1>12, <1>14, <1>16 DEF ReaderInv

\* Publishing the head of the page: what is left of the page lies beyond it, and
\* everything already announced behind it.
LEMMA HeadOfPage ==
    ASSUME ReaderInv, updates # <<>>
    PROVE  /\ Head(updates) \in Update /\ Head(updates) = updates[1]
           /\ 1 \in 1..Len(updates)
           /\ After(Head(updates).cursor, pollCursor)
           /\ \A i \in 2..Len(updates) : /\ updates[i].cursor.updatedAt # Null
                                          /\ After(updates[i].cursor, Head(updates).cursor)
           /\ \A j \in Jobs : announced[j] # 0 => ~After(Position(j), Head(updates).cursor)
<1>1. updates \in Seq(Update) /\ pollCursor \in Cursor /\ TypeOK
  BY DEF ReaderInv, ReaderTypeOK
<1>2. Head(updates) \in Update /\ Head(updates) = updates[1] /\ 1 \in 1..Len(updates)
  BY <1>1
<1>3. After(Head(updates).cursor, pollCursor)
  BY <1>2 DEF ReaderInv, Page
<1>4. \A i \in 2..Len(updates) : /\ updates[i].cursor.updatedAt # Null
                                 /\ After(updates[i].cursor, Head(updates).cursor)
  <2> SUFFICES ASSUME NEW i \in 2..Len(updates)
               PROVE  /\ updates[i].cursor.updatedAt # Null
                      /\ After(updates[i].cursor, updates[1].cursor)
    BY <1>2
  <2>1. i \in 1..Len(updates) /\ 1 < i
    BY <1>2
  <2>2. QED
    BY <1>2, <2>1 DEF ReaderInv, Page
<1>5. ASSUME NEW j \in Jobs, announced[j] # 0
      PROVE  ~After(Position(j), Head(updates).cursor)
  <2>1. ~After(Position(j), pollCursor)
    BY <1>5 DEF ReaderInv, Behind
  <2>2. Position(j) \in Cursor /\ Head(updates).cursor \in Cursor
    BY <1>1, <1>2, PositionType DEF Update
  <2>3. QED
    BY <1>1, <1>3, <2>1, <2>2, AfterIsAnOrder
<1>6. QED
  BY <1>2, <1>3, <1>4, <1>5

LEMMA PublishKeeps == ReaderInv /\ Publish => ReaderInv'
<1> SUFFICES ASSUME ReaderInv, Publish
             PROVE  ReaderInv'
  OBVIOUS
<1> DEFINE head == Head(updates)
<1>1. /\ ReaderTypeOK /\ TypeOK /\ updates # <<>> /\ updates \in Seq(Update)
      /\ UNCHANGED <<vars, started, startedAt, due, rewound>>
      /\ pollCursor' = head.cursor /\ updates' = Tail(updates)
  BY DEF ReaderInv, ReaderTypeOK, Publish, written
<1>2. /\ head \in Update /\ head = updates[1] /\ 1 \in 1..Len(updates)
      /\ head.job \in Jobs /\ head.cursor \in Cursor
      /\ After(head.cursor, pollCursor)
      /\ \A i \in 2..Len(updates) :
            updates[i].cursor.updatedAt # Null /\ After(updates[i].cursor, head.cursor)
      /\ \A j \in Jobs : announced[j] # 0 => ~After(Position(j), head.cursor)
  BY <1>1, HeadOfPage DEF Update
<1>3. started
  BY <1>1 DEF ReaderInv, Fresh
<1>4. /\ updates' \in Seq(Update) /\ Len(updates') = Len(updates) - 1
      /\ \A i \in 1..Len(updates') : updates'[i] = updates[i + 1] /\ i + 1 \in 2..Len(updates)
  BY <1>1
<1>5. TypeOK' /\ Settled' = Settled /\ job' = job
  BY <1>1, NextType DEF Settled, vars
<1>6. \A j : Position(j)' = Position(j)
  BY <1>5 DEF Position
<1>7. head.status \in Terminal => head.job \in Settled /\ Position(head.job) = head.cursor
  BY <1>2 DEF ReaderInv, Page
<1>8. \A j \in Jobs : \/ announced'[j] = announced[j]
                      \/ /\ j = head.job /\ head.status \in Terminal
                         /\ announced'[j] = announced[j] + 1
  BY <1>1, <1>2 DEF Publish, ReaderTypeOK
<1>9. announced' \in [Jobs -> Nat]
  BY <1>1, <1>2 DEF Publish, ReaderTypeOK
<1> HIDE DEF head
<1>10. ReaderTypeOK'
  BY <1>1, <1>2, <1>4, <1>5, <1>9 DEF ReaderTypeOK
<1>11. Page'
  <2>1. \A i \in 1..Len(updates') :
           updates'[i].cursor.updatedAt # Null /\ After(updates'[i].cursor, pollCursor')
    BY <1>1, <1>2, <1>4
  <2>2. \A i, k \in 1..Len(updates') : i < k => After(updates'[k].cursor, updates'[i].cursor)
    <3> SUFFICES ASSUME NEW i \in 1..Len(updates'), NEW k \in 1..Len(updates'), i < k
                 PROVE  After(updates'[k].cursor, updates'[i].cursor)
      OBVIOUS
    <3>1. /\ updates'[i] = updates[i + 1] /\ updates'[k] = updates[k + 1]
          /\ i + 1 \in 1..Len(updates) /\ k + 1 \in 1..Len(updates) /\ i + 1 < k + 1
      BY <1>1, <1>4
    <3>2. QED
      BY <3>1 DEF ReaderInv, Page
  <2>3. \A i \in 1..Len(updates') : updates'[i].status \in Terminal =>
           /\ updates'[i].job \in Settled'
           /\ [updatedAt |-> job'[updates'[i].job].runtimeUpdatedAt,
               order |-> IdOrder[updates'[i].job]] = updates'[i].cursor
    <3> SUFFICES ASSUME NEW i \in 1..Len(updates'), updates'[i].status \in Terminal
                 PROVE  /\ updates'[i].job \in Settled'
                        /\ [updatedAt |-> job'[updates'[i].job].runtimeUpdatedAt,
                            order |-> IdOrder[updates'[i].job]] = updates'[i].cursor
      OBVIOUS
    <3>1. updates'[i] = updates[i + 1] /\ i + 1 \in 1..Len(updates)
      BY <1>1, <1>4
    <3>2. QED
      BY <1>5, <3>1 DEF ReaderInv, Page, Position
  <2>4. QED
    BY <2>1, <2>2, <2>3 DEF Page, Position
<1>12. Behind'
  <2> SUFFICES ASSUME NEW j \in Jobs, announced'[j] # 0
               PROVE  /\ announced'[j] = 1 /\ j \in Settled'
                      /\ ~After(Position(j), head.cursor)
    BY <1>1, <1>6 DEF Behind
  <2>1. CASE announced'[j] = announced[j]
    BY <1>2, <1>5, <2>1 DEF ReaderInv, Behind
  <2>2. CASE j = head.job /\ head.status \in Terminal /\ announced'[j] = announced[j] + 1
    <3>1. j \in Settled /\ Position(j) = head.cursor /\ ~After(Position(j), head.cursor)
      BY <1>2, <1>7, <2>2, AfterIsAnOrder
    <3>2. After(Position(j), pollCursor)
      BY <1>2, <3>1
    <3>3. announced[j] = 0
      BY <3>2 DEF ReaderInv, Behind
    <3>4. QED
      BY <1>5, <2>2, <3>1, <3>3
  <2>3. QED
    BY <1>8, <2>1, <2>2
<1>13. Frontier' = Frontier
  <2>1. CASE Len(updates) = 1
    <3>1. updates' = <<>>
      BY <1>4, <2>1
    <3>2. QED
      BY <1>1, <1>2, <2>1, <3>1 DEF Frontier
  <2>2. CASE Len(updates) # 1
    <3>1. Len(updates) \in Nat /\ Len(updates') \in 1..Len(updates')
      BY <1>1, <1>2, <1>4, <2>2
    <3>2. updates' # <<>>
      BY <3>1
    <3>3. updates'[Len(updates')] = updates[Len(updates)]
      BY <1>1, <1>4, <3>1
    <3>4. QED
      BY <1>1, <3>2, <3>3 DEF Frontier
  <2>3. QED
    BY <2>1, <2>2
<1>14. Overtaken'
  BY <1>1, <1>3, <1>5, <1>13 DEF ReaderInv, Overtaken, Stored
<1>15. ASSUME NEW j \in due
       PROVE  j \in Settled' /\ (rewound' \/ announced'[j] # 0 \/ InPage(j)' \/ Ahead(j)')
  <2>1. /\ j \in Settled /\ j \in Jobs
        /\ rewound \/ announced[j] # 0 \/ InPage(j) \/ Ahead(j)
    BY <1>1 DEF ReaderInv, Accountable, ReaderTypeOK
  <2>2. CASE rewound
    BY <1>1, <1>5, <2>1, <2>2
  <2>3. CASE announced[j] # 0
    <3>1. announced'[j] # 0
      BY <1>1, <1>8, <2>1, <2>3 DEF ReaderTypeOK
    <3>2. QED
      BY <1>5, <2>1, <3>1
  <2>4. CASE InPage(j)
    <3>1. PICK i \in 1..Len(updates) : updates[i].job = j /\ updates[i].status \in Terminal
      BY <2>4 DEF InPage
    <3>2. CASE i = 1
      <4>1. announced'[j] = announced[j] + 1
        BY <1>1, <1>2, <2>1, <3>1, <3>2 DEF Publish, ReaderTypeOK, head
      <4>2. announced'[j] # 0
        BY <1>1, <2>1, <4>1 DEF ReaderTypeOK
      <4>3. QED
        BY <1>5, <2>1, <4>2
    <3>3. CASE i # 1
      <4>1. i - 1 \in 1..Len(updates') /\ updates'[i - 1] = updates[i]
        BY <1>1, <1>4, <3>1, <3>3
      <4>2. InPage(j)'
        BY <3>1, <4>1 DEF InPage
      <4>3. QED
        BY <1>5, <2>1, <4>2
    <3>4. QED
      BY <3>2, <3>3
  <2>5. CASE Ahead(j)
    BY <1>5, <1>6, <1>13, <2>1, <2>5 DEF Ahead
  <2>6. QED
    BY <2>1, <2>2, <2>3, <2>4, <2>5
<1>16. Accountable'
  BY <1>1, <1>15 DEF Accountable
<1>17. QED
  BY <1>1, <1>3, <1>10, <1>11, <1>12, <1>14, <1>16 DEF ReaderInv

\* When publishing throws, the frontier falls back to the head, and what the page
\* held of settled rows lies ahead again.
LEMMA PublishThrowsKeeps == ReaderInv /\ PublishThrows => ReaderInv'
<1> SUFFICES ASSUME ReaderInv, PublishThrows
             PROVE  ReaderInv'
  OBVIOUS
<1> DEFINE head == Head(updates)
<1>1. /\ ReaderTypeOK /\ TypeOK /\ updates # <<>> /\ updates \in Seq(Update)
      /\ UNCHANGED <<vars, started, announced, startedAt, due, rewound>>
      /\ head.status = Processing /\ pollCursor' = head.cursor /\ updates' = <<>>
  BY DEF ReaderInv, ReaderTypeOK, PublishThrows, written
<1>2. /\ head \in Update /\ head = updates[1] /\ head.cursor \in Cursor
      /\ \A i \in 2..Len(updates) :
            updates[i].cursor.updatedAt # Null /\ After(updates[i].cursor, head.cursor)
      /\ \A j \in Jobs : announced[j] # 0 => ~After(Position(j), head.cursor)
  BY <1>1, HeadOfPage DEF Update
<1>3. started
  BY <1>1 DEF ReaderInv, Fresh
<1>4. TypeOK' /\ Settled' = Settled /\ job' = job
  BY <1>1, NextType DEF Settled, vars
<1>5. \A j : Position(j)' = Position(j)
  BY <1>4 DEF Position
<1> HIDE DEF head
<1>6. ReaderTypeOK'
  BY <1>1, <1>2, <1>4 DEF ReaderTypeOK
<1>7. Page' /\ Frontier' = head.cursor
  <2>1. Len(updates') = 0
    BY <1>1
  <2>2. QED
    BY <1>1, <2>1 DEF Page, Frontier
<1>8. Behind'
  BY <1>1, <1>2, <1>4, <1>5 DEF ReaderInv, Behind
<1>9. Frontier \in Cursor /\ (Frontier = head.cursor \/ After(Frontier, head.cursor))
  <2>1. Frontier = updates[Len(updates)].cursor
    BY <1>1 DEF Frontier
  <2>2. Len(updates) = 1 \/ Len(updates) \in 2..Len(updates)
    BY <1>1
  <2>3. QED
    BY <1>1, <1>2, <2>1, <2>2, FrontierType
<1>10. Overtaken'
  <2>1. Overtaken
    BY <1>3 DEF ReaderInv
  <2>2. CASE rewound
    BY <1>1, <2>2 DEF Overtaken
  <2>3. ASSUME ~After(Frontier, [updatedAt |-> startedAt, order |-> 0])
        PROVE  ~After(head.cursor, [updatedAt |-> startedAt, order |-> 0])
    <3>1. startedAt \in Nat
      BY <1>1 DEF ReaderTypeOK
    <3>2. QED
      BY <1>2, <1>9, <2>3, <3>1 DEF After, Cursor
  <2>4. ASSUME NEW k \in Stored, job[k].runtimeUpdatedAt >= Frontier.updatedAt
        PROVE  job[k].runtimeUpdatedAt >= head.cursor.updatedAt
    <3>1. job[k].runtimeUpdatedAt \in Nat
      BY <1>1 DEF TypeOK, Row, Stored
    <3>2. QED
      BY <1>2, <1>9, <2>4, <3>1 DEF After, Cursor
  <2>5. QED
    BY <1>1, <1>4, <1>7, <2>1, <2>2, <2>3, <2>4 DEF Overtaken, Stored
<1>11. ASSUME NEW j \in due
       PROVE  j \in Settled' /\ (rewound' \/ announced'[j] # 0 \/ Ahead(j)')
  <2>1. /\ j \in Settled /\ j \in Jobs /\ Position(j) \in Cursor
        /\ rewound \/ announced[j] # 0 \/ InPage(j) \/ Ahead(j)
    BY <1>1, PositionType DEF ReaderInv, Accountable, ReaderTypeOK
  <2>2. CASE rewound \/ announced[j] # 0
    BY <1>1, <1>4, <2>1, <2>2
  <2>3. CASE InPage(j)
    <3>1. PICK i \in 1..Len(updates) : updates[i].job = j /\ updates[i].status \in Terminal
      BY <2>3 DEF InPage
    <3>2. i \in 2..Len(updates)
      BY <1>1, <1>2, <3>1 DEF Terminal, Processing, Completed, Failed
    <3>3. Position(j) = updates[i].cursor
      BY <3>1 DEF ReaderInv, Page
    <3>4. Ahead(j)'
      BY <1>2, <1>4, <1>5, <1>7, <3>2, <3>3 DEF Ahead, Position
    <3>5. QED
      BY <1>4, <2>1, <3>4
  <2>4. CASE Ahead(j)
    <3>1. After(Position(j), head.cursor)
      BY <1>2, <1>9, <2>1, <2>4, AfterIsAnOrder DEF Ahead
    <3>2. Ahead(j)'
      BY <1>4, <1>5, <1>7, <2>4, <3>1 DEF Ahead
    <3>3. QED
      BY <1>4, <2>1, <3>2
  <2>5. QED
    BY <2>1, <2>2, <2>3, <2>4
<1>12. Accountable'
  BY <1>1, <1>11 DEF Accountable
<1>13. QED
  BY <1>1, <1>3, <1>6, <1>7, <1>8, <1>10, <1>12 DEF ReaderInv

-----------------------------------------------------------------------------
LEMMA StutterKeeps == ReaderInv /\ UNCHANGED rvars => ReaderInv'
<1> SUFFICES ASSUME ReaderInv, UNCHANGED rvars
             PROVE  ReaderInv'
  OBVIOUS
<1>1. UNCHANGED <<vars, started, pollCursor, updates, announced, startedAt, due, rewound>>
  BY DEF rvars, reader, written
<1>2. TypeOK' /\ job' = job /\ Frontier' = Frontier
  BY <1>1, NextType DEF vars, Frontier, ReaderInv, ReaderTypeOK
<1>3. ReaderTypeOK'
  BY <1>1, <1>2 DEF ReaderInv, ReaderTypeOK
<1>4. (~started => Fresh)' /\ Page' /\ Behind'
  BY <1>1, <1>2 DEF ReaderInv, Fresh, Page, Behind, Settled, Position
<1>5. (started => Overtaken)' /\ Accountable'
  BY <1>1, <1>2
     DEF ReaderInv, Overtaken, Stored, Accountable, Settled, InPage, Ahead, Position
<1>6. QED
  BY <1>3, <1>4, <1>5 DEF ReaderInv

LEMMA ReaderStep == ReaderInv /\ [ReaderNext]_rvars => ReaderInv'
BY WriteKeeps, StartKeeps, FetchKeeps, PublishKeeps, PublishThrowsKeeps, StutterKeeps
   DEF ReaderNext

LEMMA ReaderCorrect == ReaderSpec => []ReaderInv
BY ReaderInitHolds, ReaderStep, PTL DEF ReaderSpec

\* However pages and writes interleave, and whatever is read twice, the terminal
\* event of a job is published at most once.
THEOREM EventsAnnouncedOnce == ReaderSpec => []AnnouncedOnce
<1>1. ReaderInv => AnnouncedOnce
  BY DEF ReaderInv, Behind, AnnouncedOnce, ReaderTypeOK
<1>2. QED
  BY <1>1, ReaderCorrect, PTL

\* For any number of jobs and writers, any size of a page and any delay between
\* the stamp of a write and its commit, no terminal write stamped from start() on
\* falls behind the cursor unseen, unless a row was given an older cursor back.
THEOREM NoSettlementSkipped == ReaderSpec => []NothingSkipped
<1>1. ASSUME ReaderInv
      PROVE  NothingSkipped
  <2> SUFFICES ASSUME NEW j \in due, ~rewound, ~(announced[j] > 0)
               PROVE  \/ \E i \in DOMAIN updates :
                            updates[i].job = j /\ updates[i].status \in Terminal
                      \/ j \in Unread
    BY DEF NothingSkipped
  <2>1. /\ ReaderTypeOK /\ TypeOK /\ j \in Settled /\ j \in Jobs /\ announced[j] = 0
        /\ InPage(j) \/ Ahead(j)
    BY <1>1 DEF ReaderInv, Accountable, ReaderTypeOK
  <2>2. CASE InPage(j)
    BY <2>1, <2>2 DEF InPage, ReaderTypeOK
  <2>3. CASE Ahead(j)
    <3>1. Frontier = pollCursor \/ After(Frontier, pollCursor)
      <4>1. updates # <<>> => Len(updates) \in 1..Len(updates)
        BY <2>1 DEF ReaderTypeOK
      <4>2. QED
        BY <1>1, <4>1 DEF ReaderInv, Page, Frontier
    <3>2. After(Position(j), pollCursor)
      BY <2>1, <2>3, <3>1, AfterIsAnOrder, FrontierType, PositionType DEF Ahead, ReaderTypeOK
    <3>3. QED
      BY <2>1, <2>3, <3>2
         DEF Ahead, Unread, Stored, Settled, Terminal, Completed, Failed
  <2>4. QED
    BY <2>1, <2>2, <2>3
<1>2. QED
  BY <1>1, ReaderCorrect, PTL

=============================================================================
