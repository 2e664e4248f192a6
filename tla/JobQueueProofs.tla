--------------------------- MODULE JobQueueProofs ---------------------------
(* Theorems about JobQueue, for every set of jobs and slots, every retry    *)
(* budget, backoff, lease and timeout, and any number of processes.         *)
EXTENDS JobQueue, WellFoundedInduction, TLAPS

-----------------------------------------------------------------------------
(* What the operators on rows return.                                       *)

\* A stamp is a time of the clock, so the columns computed from it are times.
LEMMA StampType ==
    ASSUME now \in Nat, NEW t \in Stamps
    PROVE  t \in Nat /\ t <= now
BY DEF Stamps

\* nextRuntimeUpdatedAt allocates a number above every stored position.
LEMMA CursorType ==
    ASSUME job \in [Jobs -> Row], NEW t \in Nat, NEW u \in NextCursors(t)
    PROVE  u \in Nat /\ u >= t /\ \A k \in Jobs : u > CursorOf(k)
<1>1. \A k \in Jobs : CursorOf(k) \in Nat
  BY DEF CursorOf, Row, Null
<1>2. QED
  BY <1>1 DEF NextCursors

\* The rows the statements write are rows.
LEMMA NewRowType ==
    ASSUME NEW j \in Jobs, NEW t \in Nat
    PROVE  /\ NewRow(j, t) \in Row
           /\ NewRow(j, t).status = Pending
           /\ NewRow(j, t).attemptId = Null
           /\ NewRow(j, t).retryCount = 0
<1>1. NoRow \in Row
  BY DEF NoRow, Row, Null
<1>2. t + Delay[j] \in Nat
  BY QueueConstants
<1>3. QED
  BY <1>1, <1>2 DEF NewRow, NoRow, Row, Null, Active

LEMMA SettledRowType ==
    ASSUME NEW row \in Row, NEW t \in Nat, NEW u \in Nat
    PROVE  Replaced(row, t, u) \in Row /\ Expired(row, t, u) \in Row
<1>1. row.retryCount + 1 \in Nat
  BY DEF Row
<1>2. Replaced(row, t, u) \in Row
  BY DEF Replaced, Row, Terminal
<1>3. Expired(row, t, u) \in Row
  BY <1>1 DEF Expired, Row, Terminal
<1>4. QED
  BY <1>2, <1>3

LEMMA ClaimedType ==
    ASSUME NEW row \in Row, NEW a \in Nat, NEW s \in Slots, NEW id \in Nat,
           NEW t \in Nat
    PROVE  Claimed(row, a, s, id, t) \in Row
<1>1. row.retryCount + 1 \in Nat /\ row.retryCount \in Nat
  BY DEF Row
<1>2. t + LeaseDuration \in Nat
  BY QueueConstants
<1>3. QED
  BY <1>1, <1>2 DEF Claimed, Row, Active, Null

LEMMA RetriedType ==
    ASSUME NEW row \in Row, NEW f \in Call, CanRetry(f), NEW t \in Nat
    PROVE  Retried(row, f, t) \in Row
<1>1. f.job \in Jobs /\ f.retryCount \in Nat /\ f.runtimeUpdatedAt \in Nat
  BY DEF Call
<1>2. MaxRetries[f.job] \in Nat
  BY <1>1, QueueConstants
<1>3. f.retryCount \in 0..MaxRetries[f.job]
  BY <1>1, <1>2 DEF CanRetry
<1>4. Backoff[f.retryCount] \in Nat
  BY <1>1, <1>3, QueueConstants
<1>5. Released(row) \in Row
  BY DEF Released, Row, Null
<1>6. f.retryCount + 1 \in Nat /\ t + Backoff[f.retryCount] \in Nat
  BY <1>1, <1>4
<1>7. QED
  BY <1>1, <1>5, <1>6 DEF Retried, Row, Active, Null

LEMMA ExhaustedType ==
    ASSUME NEW row \in Row, NEW f \in Call, NEW t \in Nat, NEW u \in Nat
    PROVE  Exhausted(row, f, t, u) \in Row
BY DEF Exhausted, Released, Row, Terminal, Failed, Call, Null

-----------------------------------------------------------------------------
(* Type correctness.                                                        *)

\* A write that leaves the tokens in row k alone, or hands them to a waiting
\* row's owner, keeps the shape TypeOK asks of rows.
RowOK(row, a, id) ==
    /\ row \in Row
    /\ row.status = Pending => row.attemptId = Null
    /\ row.status = Processing =>
          /\ row.attemptId \in 1..a
          /\ row.workerSlotId \in Slots
          /\ row.workerSessionId \in 1..id

\* TypeOK speaks of each row on its own.
LEMMA TypeByRow ==
    TypeOK <=> /\ now \in Nat
               /\ DOMAIN job = Jobs /\ job = [j \in Jobs |-> job[j]]
               /\ \A j \in Jobs : RowOK(job[j], lastAttempt, lastSession)
               /\ session \in [Slots -> [id : Nat, expiresAt : Nat]]
               /\ lastSession \in Nat
               /\ lastAttempt \in Nat
               /\ failing \in SUBSET Call
               /\ claims \in [Jobs -> Nat]
BY DEF TypeOK, RowOK, Tokens

LEMMA InitType == Init => TypeOK
<1>1. NoRow \in Row /\ NoRow.status = "absent"
  BY DEF NoRow, Row, Null
<1>2. QED
  BY <1>1 DEF Init, TypeOK, Null, Pending, Processing

\* A statement that writes one row keeps TypeOK if the row it writes is well formed.
LEMMA OneRowWritten ==
    ASSUME TypeOK, NEW j \in Jobs, NEW row,
           RowOK(row, lastAttempt', lastSession),
           job' = [job EXCEPT ![j] = row],
           lastAttempt' \in {lastAttempt, lastAttempt + 1},
           UNCHANGED <<now, session, lastSession>>,
           failing' \in SUBSET Call, claims' \in [Jobs -> Nat]
    PROVE  TypeOK'
<1>1. lastAttempt \in Nat /\ lastAttempt' \in Nat /\ lastAttempt <= lastAttempt'
  BY DEF TypeOK
<1>2. \A k \in Jobs : RowOK(job[k], lastAttempt', lastSession)
  BY <1>1, TypeByRow DEF RowOK
<1>3. \A k \in Jobs : RowOK(job'[k], lastAttempt', lastSession')
  BY <1>2 DEF TypeOK
<1>4. job' \in [Jobs -> Row]
  BY <1>3 DEF TypeOK, RowOK
<1>5. QED
  BY <1>1, <1>3, <1>4 DEF TypeOK, RowOK, Tokens

LEMMA ProduceType ==
    ASSUME TypeOK, Produce
    PROVE  TypeOK'
<1>1. PICK j \in Jobs, t \in Stamps : Insert(j, t) \/ Coalesce(j, t) \/ Replace(j, t)
  BY DEF Produce
<1>2. t \in Nat /\ t <= now /\ now \in Nat
  BY StampType DEF TypeOK
<1>3. RowOK(NewRow(j, t), lastAttempt, lastSession)
  BY <1>2, NewRowType DEF RowOK, Pending, Processing
<1>4. CASE Insert(j, t)
  BY <1>3, <1>4, OneRowWritten DEF Insert, TypeOK
<1>5. CASE Coalesce(j, t)
  <2>1. PICK d \in Duplicates(j) : job' = [job EXCEPT ![d].scheduledFor = t]
    BY <1>5 DEF Coalesce
  <2>2. d \in Jobs
    BY DEF Duplicates, Newest, Matching
  <2>3. RowOK([job[d] EXCEPT !.scheduledFor = t], lastAttempt, lastSession)
    BY <1>2, <2>2, TypeByRow DEF RowOK, Row
  <2>4. QED
    BY <1>5, <2>1, <2>2, <2>3, OneRowWritten DEF Coalesce, TypeOK
<1>6. CASE Replace(j, t)
  <2>1. PICK d \in Duplicates(j), at \in t..now : \E u \in NextCursors(at) :
          job' = [job EXCEPT ![d] = Replaced(@, at, u), ![j] = NewRow(j, t)]
    BY <1>6 DEF Replace
  <2>2. PICK u \in NextCursors(at) :
          job' = [job EXCEPT ![d] = Replaced(@, at, u), ![j] = NewRow(j, t)]
    BY <2>1
  <2>3. d \in Jobs
    BY DEF Duplicates, Newest, Matching
  <2>4. at \in Nat /\ u \in Nat
    BY <1>2, CursorType DEF TypeOK
  <2>5. RowOK(Replaced(job[d], at, u), lastAttempt, lastSession)
    <3>1. Replaced(job[d], at, u) \in Row
      BY <2>3, <2>4, SettledRowType DEF TypeOK
    <3>2. Replaced(job[d], at, u).status = Failed
      BY <2>3 DEF Replaced, TypeOK, Row
    <3>3. QED
      BY <3>1, <3>2 DEF RowOK, Failed, Pending, Processing
  <2>6. \A k \in Jobs : RowOK(job'[k], lastAttempt, lastSession)
    BY <1>3, <2>2, <2>3, <2>5, TypeByRow
  <2>7. DOMAIN job' = Jobs /\ job' = [k \in Jobs |-> job'[k]]
    BY <2>2, TypeByRow
  <2>8. QED
    BY <1>6, <2>6, <2>7 DEF Replace, TypeOK, RowOK, Tokens
<1>7. QED
  BY <1>1, <1>4, <1>5, <1>6

LEMMA AttendType ==
    ASSUME TypeOK, Attend
    PROVE  TypeOK'
<1>1. PICK s \in Slots, t \in Stamps :
        \/ StartWorkerSession(s, t)
        \/ \E id \in 1..lastSession :
              \/ HeartbeatWorkerSession(s, id, t)
              \/ EndWorkerSession(s, id)
              \/ \E j \in Jobs : Claim(j, s, id, t) \/ ClaimSpent(j, s, id, t)
  BY DEF Attend
<1>2. t \in Nat /\ t + SessionTimeout \in Nat
  BY StampType, QueueConstants DEF TypeOK
<1>3. lastSession \in Nat /\ lastAttempt \in Nat
  BY DEF TypeOK
<1>4. CASE StartWorkerSession(s, t)
  <2>1. session' \in [Slots -> [id : Nat, expiresAt : Nat]]
    BY <1>2, <1>3, <1>4 DEF StartWorkerSession, TypeOK
  <2>2. QED
    BY <1>3, <1>4, <2>1 DEF StartWorkerSession, TypeOK, Tokens
<1>5. ASSUME NEW id \in 1..lastSession, HeartbeatWorkerSession(s, id, t)
      PROVE  TypeOK'
  BY <1>2, <1>5 DEF HeartbeatWorkerSession, TypeOK, Tokens
<1>6. ASSUME NEW id \in 1..lastSession, EndWorkerSession(s, id)
      PROVE  TypeOK'
  BY <1>6 DEF EndWorkerSession, TypeOK, Tokens, Null
<1>7. ASSUME NEW id \in 1..lastSession, NEW j \in Jobs, Claim(j, s, id, t)
      PROVE  TypeOK'
  <2> DEFINE row == Claimed(job[j], lastAttempt', s, id, t)
  <2>1. job' = [job EXCEPT ![j] = row] /\ lastAttempt' = lastAttempt + 1
    BY <1>7 DEF Claim
  <2>2. job[j] \in Row /\ lastAttempt' \in Nat /\ id \in Nat
    BY <1>3, <2>1 DEF TypeOK
  <2>3. row \in Row
    BY <1>2, <2>2, ClaimedType
  <2>4. /\ row.status = Processing /\ row.attemptId = lastAttempt'
        /\ row.workerSlotId = s /\ row.workerSessionId = id
    BY <2>2 DEF Claimed, Row
  <2>5. RowOK(row, lastAttempt', lastSession)
    BY <1>3, <2>1, <2>3, <2>4 DEF RowOK, Pending, Processing
  <2>6. claims' \in [Jobs -> Nat]
    BY <1>7 DEF Claim, TypeOK
  <2>7. failing' \in SUBSET Call /\ UNCHANGED <<now, session, lastSession>>
    BY <1>7 DEF Claim, TypeOK
  <2> HIDE DEF row
  <2>8. QED
    BY <2>1, <2>5, <2>6, <2>7, OneRowWritten
<1>8. ASSUME NEW id \in 1..lastSession, NEW j \in Jobs, ClaimSpent(j, s, id, t)
      PROVE  TypeOK'
  <2>1. PICK u \in NextCursors(t) : job' = [job EXCEPT ![j] = Expired(@, t, u)]
    BY <1>8 DEF ClaimSpent
  <2>2. u \in Nat /\ job[j] \in Row
    BY <1>2, CursorType DEF TypeOK
  <2>3. Expired(job[j], t, u) \in Row /\ Expired(job[j], t, u).status = Failed
    BY <1>2, <2>2, SettledRowType, ZenonT(60) DEF Expired, Row
  <2>4. RowOK(Expired(job[j], t, u), lastAttempt, lastSession)
    BY <2>3 DEF RowOK, Failed, Pending, Processing
  <2>5. QED
    BY <1>8, <2>1, <2>4, OneRowWritten DEF ClaimSpent, TypeOK
<1>9. QED
  BY <1>1, <1>4, <1>5, <1>6, <1>7, <1>8

LEMMA WorkType ==
    ASSUME TypeOK, Work
    PROVE  TypeOK'
<1>1. PICK j \in Jobs, t \in Stamps, a \in Tokens \cup {Unfenced} :
        Complete(j, a, t) \/ FailRead(j, a) \/ RecordProgress(j, a, t) \/ RenewLease(j, a, t)
  BY DEF Work
<1>2. t \in Nat /\ t + LeaseDuration \in Nat /\ a \in Nat
  BY StampType, QueueConstants DEF TypeOK, Tokens, Unfenced
<1>3. job[j] \in Row /\ RowOK(job[j], lastAttempt, lastSession)
  BY TypeByRow DEF RowOK
<1>4. CASE Complete(j, a, t)
  <2>1. PICK u \in NextCursors(t) :
          job' = [job EXCEPT ![j] = [job[j] EXCEPT !.status = Completed,
                                      !.completedAt = t, !.runtimeUpdatedAt = u]]
    BY <1>4 DEF Complete
  <2>2. u \in Nat
    BY <1>2, CursorType DEF TypeOK
  <2>3. RowOK([job[j] EXCEPT !.status = Completed, !.completedAt = t,
                             !.runtimeUpdatedAt = u], lastAttempt, lastSession)
    BY <1>2, <1>3, <2>2 DEF RowOK, Row, Terminal, Completed, Pending, Processing
  <2>4. QED
    BY <1>4, <2>1, <2>3, OneRowWritten DEF Complete, TypeOK
<1>5. CASE FailRead(j, a)
  <2>1. [job |-> j, attemptId |-> a, retryCount |-> job[j].retryCount,
         scheduledFor |-> job[j].scheduledFor,
         runtimeUpdatedAt |-> job[j].runtimeUpdatedAt] \in Call
    BY <1>2, <1>3 DEF Call, Row
  <2>2. QED
    BY <1>5, <2>1 DEF FailRead, TypeOK, Tokens
<1>6. CASE RecordProgress(j, a, t)
  <2>1. PICK u \in NextCursors(t) :
          job' = [job EXCEPT ![j] = [job[j] EXCEPT !.runtimeUpdatedAt = u]]
    BY <1>6 DEF RecordProgress
  <2>2. u \in Nat
    BY <1>2, CursorType DEF TypeOK
  <2>3. RowOK([job[j] EXCEPT !.runtimeUpdatedAt = u], lastAttempt, lastSession)
    BY <1>3, <2>2 DEF RowOK, Row
  <2>4. QED
    BY <1>6, <2>1, <2>3, OneRowWritten DEF RecordProgress, TypeOK
<1>7. CASE RenewLease(j, a, t)
  <2>1. job' = [job EXCEPT ![j] = [job[j] EXCEPT !.leaseExpiresAt = t + LeaseDuration]]
    BY <1>7 DEF RenewLease
  <2>2. RowOK([job[j] EXCEPT !.leaseExpiresAt = t + LeaseDuration],
              lastAttempt, lastSession)
    BY <1>2, <1>3 DEF RowOK, Row
  <2>3. QED
    BY <1>7, <2>1, <2>2, OneRowWritten DEF RenewLease, TypeOK
<1>8. QED
  BY <1>1, <1>4, <1>5, <1>6, <1>7

LEMMA SettlingType ==
    ASSUME TypeOK, Settling
    PROVE  TypeOK'
<1>1. PICK f \in failing, t \in Stamps : FailWrite(f, t)
  BY DEF Settling
<1>2. t \in Nat /\ f \in Call /\ f.job \in Jobs
  BY StampType DEF TypeOK, Call
<1>3. job[f.job] \in Row /\ failing' \in SUBSET Call
  BY <1>1, <1>2 DEF FailWrite, TypeOK
<1>4. CASE CanRetry(f) /\ job' = [job EXCEPT ![f.job] = Retried(@, f, t)]
  <2> DEFINE row == Retried(job[f.job], f, t)
  <2>1. row \in Row
    BY <1>2, <1>3, <1>4, RetriedType
  <2>2. row.status = Pending /\ row.attemptId = Null
    BY <1>3 DEF Retried, Released, Row
  <2>3. RowOK(row, lastAttempt, lastSession)
    BY <2>1, <2>2 DEF RowOK, Pending, Processing
  <2> HIDE DEF row
  <2>4. QED
    BY <1>1, <1>2, <1>3, <1>4, <2>3, OneRowWritten DEF FailWrite, TypeOK, row
<1>5. ASSUME NEW u \in NextCursors(t),
             job' = [job EXCEPT ![f.job] = Exhausted(@, f, t, u)]
      PROVE  TypeOK'
  <2> DEFINE row == Exhausted(job[f.job], f, t, u)
  <2>1. u \in Nat
    BY <1>2, CursorType DEF TypeOK
  <2>2. row \in Row
    BY <1>2, <1>3, <2>1, ExhaustedType
  <2>3. row.status = Failed
    BY <1>3 DEF Exhausted, Released, Row
  <2>4. RowOK(row, lastAttempt, lastSession)
    BY <2>2, <2>3 DEF RowOK, Failed, Pending, Processing
  <2> HIDE DEF row
  <2>5. QED
    BY <1>1, <1>2, <1>3, <1>5, <2>4, OneRowWritten DEF FailWrite, TypeOK, row
<1>6. CASE UNCHANGED job
  BY <1>1, <1>3, <1>6 DEF FailWrite, TypeOK, Tokens
<1>7. QED
  BY <1>1, <1>4, <1>5, <1>6 DEF FailWrite

LEMMA CleanupType ==
    ASSUME TypeOK, NEW cutoff \in Nat, Cleanup(cutoff)
    PROVE  TypeOK'
<1>1. ASSUME NEW j \in Jobs PROVE RowOK(job'[j], lastAttempt, lastSession)
  <2>1. job'[j] \in {job[j], [job[j] EXCEPT !.status = "deleted"]}
    BY DEF Cleanup
  <2>2. RowOK(job[j], lastAttempt, lastSession)
    BY TypeByRow
  <2>3. RowOK([job[j] EXCEPT !.status = "deleted"], lastAttempt, lastSession)
    BY <2>2 DEF RowOK, Row, Pending, Processing
  <2>4. QED
    BY <2>1, <2>2, <2>3
<1>2. job' \in [Jobs -> Row]
  BY <1>1 DEF Cleanup, RowOK
<1>3. QED
  BY <1>1, <1>2 DEF Cleanup, TypeOK, RowOK, Tokens

LEMMA NextType == TypeOK /\ [Next]_vars => TypeOK'
<1> SUFFICES ASSUME TypeOK, [Next]_vars PROVE TypeOK'
  OBVIOUS
<1>1. CASE CallersDie
  BY <1>1 DEF CallersDie, TypeOK, Tokens
<1>2. CASE Tick
  BY <1>2 DEF Tick, TypeOK, Tokens
<1>3. ASSUME NEW cutoff \in 0..now, Cleanup(cutoff) PROVE TypeOK'
  BY <1>3, CleanupType DEF TypeOK
<1>4. CASE UNCHANGED vars
  BY <1>4 DEF vars, TypeOK, Tokens
<1>5. QED
  BY <1>1, <1>2, <1>3, <1>4, ProduceType, AttendType, WorkType, SettlingType DEF Next

\* The rows, sessions and pending calls always have their types, a waiting row
\* names no attempt, and a running one names an attempt, slot and session that
\* were really created.
THEOREM TypeCorrect == Spec => []TypeOK
BY InitType, NextType, PTL DEF Spec

-----------------------------------------------------------------------------
(* What one step may do to one row and to its count of claims.  Every       *)
(* statement of the repository is summarised once here; the theorems about  *)
(* retries and settled rows follow from the summary alone.                  *)

Inserted(old, new) ==
    old.status = "absent" /\ new.status = Pending /\ new.retryCount = 0

Touched(old, new) ==
    /\ old.status \in Active /\ new.status = old.status /\ new.retryCount = old.retryCount
    /\ new.attemptId = old.attemptId /\ new.workerSessionId = old.workerSessionId

Given(j, old, new) ==
    /\ new.status = Processing
    /\ lastAttempt' = lastAttempt + 1 /\ new.attemptId = lastAttempt'
    /\ \/ old.status = Pending /\ new.retryCount = old.retryCount
       \/ /\ old.status = Processing /\ new.retryCount = old.retryCount + 1
          /\ new.retryCount <= MaxRetries[j]

GivenBack(j, old, new) ==
    /\ old.status \in Active /\ new.status = Pending
    /\ old.retryCount < MaxRetries[j] /\ new.retryCount = old.retryCount + 1

\* The position a settled row takes is allocated from the time it is stamped with.
SettledNow(old, new) ==
    /\ old.status \in Active /\ new.status \in Terminal
    /\ new.completedAt \in Nat /\ new.runtimeUpdatedAt \in NextCursors(new.completedAt)

Removed(old, new) == old.status \in Terminal /\ new.status = "deleted"

\* What any statement but retention does.
LiveStep(j, old, new) ==
    \/ /\ claims'[j] = claims[j]
       /\ \/ new = old
          \/ Inserted(old, new) \/ Touched(old, new) \/ GivenBack(j, old, new)
          \/ SettledNow(old, new)
    \/ claims'[j] = claims[j] + 1 /\ Given(j, old, new)

RowStep(j, old, new) ==
    LiveStep(j, old, new) \/ (claims'[j] = claims[j] /\ Removed(old, new))

LEMMA ProduceStep ==
    ASSUME TypeOK, Produce, NEW k \in Jobs
    PROVE  LiveStep(k, job[k], job'[k])
<1>1. PICK j \in Jobs, t \in Stamps : Insert(j, t) \/ Coalesce(j, t) \/ Replace(j, t)
  BY DEF Produce
<1>2. t \in Nat /\ job[k] \in Row /\ k \in DOMAIN job
  BY StampType DEF TypeOK
<1>3. /\ NewRow(j, t).status = Pending /\ NewRow(j, t).retryCount = 0
      /\ job[j].status = "absent"
  BY <1>1, <1>2, NewRowType DEF Insert, Coalesce, Replace
<1>4. claims'[k] = claims[k]
  BY <1>1 DEF Insert, Coalesce, Replace
<1>5. CASE Insert(j, t)
  BY <1>2, <1>3, <1>4, <1>5 DEF Insert, LiveStep, Inserted
<1>6. \A d \in Duplicates(j) : d \in Jobs /\ job[d].status \in Active
  BY DEF Duplicates, Newest, Matching
<1>7. CASE Coalesce(j, t)
  <2>1. PICK d \in Duplicates(j) :
          job' = [job EXCEPT ![d] = [job[d] EXCEPT !.scheduledFor = t]]
    BY <1>7 DEF Coalesce
  <2>2. Touched(job[d], [job[d] EXCEPT !.scheduledFor = t])
    BY <1>6 DEF Touched, TypeOK, Row
  <2>3. QED
    BY <1>2, <1>4, <2>1, <2>2 DEF LiveStep
<1>8. CASE Replace(j, t)
  <2>1. PICK d \in Duplicates(j), at \in t..now : \E u \in NextCursors(at) :
          job' = [job EXCEPT ![d] = Replaced(@, at, u), ![j] = NewRow(j, t)]
    BY <1>8 DEF Replace
  <2>2. PICK u \in NextCursors(at) :
          job' = [job EXCEPT ![d] = Replaced(@, at, u), ![j] = NewRow(j, t)]
    BY <2>1
  <2>3. SettledNow(job[d], Replaced(job[d], at, u))
    <3>1. at \in Nat
      BY <1>2 DEF TypeOK
    <3>2. QED
      BY <1>6, <2>2, <3>1 DEF SettledNow, Replaced, TypeOK, Row, Terminal
  <2>4. QED
    BY <1>2, <1>3, <1>4, <2>2, <2>3 DEF LiveStep, Inserted
<1>9. QED
  BY <1>1, <1>5, <1>7, <1>8

LEMMA AttendStep ==
    ASSUME TypeOK, Attend, NEW k \in Jobs
    PROVE  LiveStep(k, job[k], job'[k])
<1>1. PICK s \in Slots, t \in Stamps :
        \/ StartWorkerSession(s, t)
        \/ \E id \in 1..lastSession :
              \/ HeartbeatWorkerSession(s, id, t)
              \/ EndWorkerSession(s, id)
              \/ \E j \in Jobs : Claim(j, s, id, t) \/ ClaimSpent(j, s, id, t)
  BY DEF Attend
<1>2. CASE UNCHANGED <<job, claims>>
  BY <1>2 DEF LiveStep
<1>3. ASSUME NEW id, NEW j \in Jobs, Claim(j, s, id, t)
      PROVE  LiveStep(k, job[k], job'[k])
  <2> DEFINE row == Claimed(job[j], lastAttempt', s, id, t)
  <2>1. /\ row.status = Processing /\ row.attemptId = lastAttempt'
        /\ row.retryCount = IF job[j].status = Processing THEN job[j].retryCount + 1
                            ELSE job[j].retryCount
    BY DEF Claimed, TypeOK, Row
  <2>2. job[j].status \in {Pending, Processing}
    BY <1>3 DEF Claim, FirstReady, Ready, DuePending, Reclaimable
  <2>3. job[j].status = Processing => job[j].retryCount + 1 <= MaxRetries[j]
    <3>1. job[j].retryCount \in Nat /\ MaxRetries[j] \in Nat
      BY QueueConstants DEF TypeOK, Row
    <3>2. QED
      BY <1>3, <3>1 DEF Claim, Spent
  <2>4. Given(j, job[j], row)
    BY <1>3, <2>1, <2>2, <2>3 DEF Claim, Given, Pending, Processing
  <2>5. job' = [job EXCEPT ![j] = row] /\ claims' = [claims EXCEPT ![j] = @ + 1]
    BY <1>3 DEF Claim
  <2> HIDE DEF row
  <2>6. QED
    BY <2>4, <2>5 DEF LiveStep, TypeOK
<1>4. ASSUME NEW id, NEW j \in Jobs, ClaimSpent(j, s, id, t)
      PROVE  LiveStep(k, job[k], job'[k])
  <2>1. PICK u \in NextCursors(t) : job' = [job EXCEPT ![j] = Expired(@, t, u)]
    BY <1>4 DEF ClaimSpent
  <2>2. SettledNow(job[j], Expired(job[j], t, u))
    <3>1. job[j].status \in Active
      BY <1>4 DEF ClaimSpent, Spent, Active
    <3>2. /\ Expired(job[j], t, u).status = Failed
          /\ Expired(job[j], t, u).completedAt = t
          /\ Expired(job[j], t, u).runtimeUpdatedAt = u
      BY DEF Expired, TypeOK, Row
    <3>3. QED
      BY <2>1, <3>1, <3>2, StampType DEF SettledNow, Terminal, TypeOK
  <2>3. claims' = claims
    BY <1>4 DEF ClaimSpent
  <2>4. QED
    BY <2>1, <2>2, <2>3 DEF LiveStep, TypeOK
<1>5. QED
  BY <1>1, <1>2, <1>3, <1>4
     DEF StartWorkerSession, HeartbeatWorkerSession, EndWorkerSession

LEMMA WorkStep ==
    ASSUME TypeOK, Work, NEW k \in Jobs
    PROVE  LiveStep(k, job[k], job'[k])
<1>1. PICK j \in Jobs, t \in Stamps, a \in Tokens \cup {Unfenced} :
        Complete(j, a, t) \/ FailRead(j, a) \/ RecordProgress(j, a, t) \/ RenewLease(j, a, t)
  BY DEF Work
<1>2. claims' = claims /\ job[j].status \in Active
  BY <1>1 DEF Complete, FailRead, RecordProgress, RenewLease, Owns, Active
<1>3. CASE Complete(j, a, t)
  <2>1. PICK u \in NextCursors(t) :
          job' = [job EXCEPT ![j] = [job[j] EXCEPT !.status = Completed,
                                      !.completedAt = t, !.runtimeUpdatedAt = u]]
    BY <1>3 DEF Complete
  <2>2. /\ job'[j].status = Completed
        /\ job'[j].completedAt = t /\ job'[j].runtimeUpdatedAt = u
    BY <2>1 DEF TypeOK, Row
  <2>3. SettledNow(job[j], job'[j])
    BY <1>2, <2>1, <2>2, StampType DEF SettledNow, Terminal, TypeOK
  <2>4. k # j => job'[k] = job[k]
    BY <2>1 DEF TypeOK
  <2>5. QED
    BY <1>2, <2>3, <2>4 DEF LiveStep
<1>4. CASE FailRead(j, a)
  BY <1>2, <1>4 DEF FailRead, LiveStep
<1>5. CASE RecordProgress(j, a, t)
  <2>1. PICK u \in NextCursors(t) :
          job' = [job EXCEPT ![j] = [job[j] EXCEPT !.runtimeUpdatedAt = u]]
    BY <1>5 DEF RecordProgress
  <2>2. Touched(job[j], job'[j])
    BY <1>2, <2>1 DEF Touched, TypeOK, Row
  <2>3. k # j => job'[k] = job[k]
    BY <2>1 DEF TypeOK
  <2>4. QED
    BY <1>2, <2>2, <2>3 DEF LiveStep
<1>6. CASE RenewLease(j, a, t)
  <2>1. job' = [job EXCEPT ![j] = [job[j] EXCEPT !.leaseExpiresAt = t + LeaseDuration]]
    BY <1>6 DEF RenewLease
  <2>2. Touched(job[j], job'[j])
    BY <1>2, <2>1 DEF Touched, TypeOK, Row
  <2>3. k # j => job'[k] = job[k]
    BY <2>1 DEF TypeOK
  <2>4. QED
    BY <1>2, <2>2, <2>3 DEF LiveStep
<1>7. QED
  BY <1>1, <1>3, <1>4, <1>5, <1>6

LEMMA SettlingStep ==
    ASSUME TypeOK, Settling, NEW k \in Jobs
    PROVE  LiveStep(k, job[k], job'[k])
<1>1. PICK f \in failing, t \in Stamps : FailWrite(f, t)
  BY DEF Settling
<1>2. f.job \in Jobs /\ job[f.job] \in Row /\ claims' = claims
  BY <1>1 DEF FailWrite, TypeOK, Call
<1>3. CASE FailApplies(f) /\ CanRetry(f) /\ job' = [job EXCEPT ![f.job] = Retried(@, f, t)]
  <2>1. Retried(job[f.job], f, t).status = Pending
        /\ Retried(job[f.job], f, t).retryCount = f.retryCount + 1
    BY <1>2 DEF Retried, Released, Row
  <2>2. job[f.job].status \in Active /\ job[f.job].retryCount = f.retryCount
    BY <1>3 DEF FailApplies, Owns, Active
  <2>3. GivenBack(f.job, job[f.job], Retried(job[f.job], f, t))
    BY <1>3, <2>1, <2>2 DEF GivenBack, CanRetry
  <2>4. QED
    BY <1>2, <1>3, <2>3 DEF LiveStep, TypeOK
<1>4. ASSUME FailApplies(f), NEW u \in NextCursors(t),
             job' = [job EXCEPT ![f.job] = Exhausted(@, f, t, u)]
      PROVE  LiveStep(k, job[k], job'[k])
  <2>1. /\ Exhausted(job[f.job], f, t, u).status = Failed
        /\ Exhausted(job[f.job], f, t, u).completedAt = t
        /\ Exhausted(job[f.job], f, t, u).runtimeUpdatedAt = u
    BY <1>2 DEF Exhausted, Released, Row
  <2>2. job[f.job].status \in Active
    BY <1>4 DEF FailApplies, Owns, Active
  <2>3. SettledNow(job[f.job], Exhausted(job[f.job], f, t, u))
    BY <2>1, <2>2, StampType DEF SettledNow, Terminal, TypeOK
  <2>4. QED
    BY <1>2, <1>4, <2>3 DEF LiveStep, TypeOK
<1>5. CASE UNCHANGED job
  BY <1>2, <1>5 DEF LiveStep
<1>6. QED
  BY <1>1, <1>3, <1>4, <1>5 DEF FailWrite

LEMMA AnyStep ==
    ASSUME TypeOK, [Next]_vars, NEW k \in Jobs
    PROVE  RowStep(k, job[k], job'[k])
<1>1. ASSUME NEW cutoff \in 0..now, Cleanup(cutoff)
      PROVE  RowStep(k, job[k], job'[k])
  BY <1>1 DEF Cleanup, RowStep, LiveStep, Removed, TypeOK, Row
<1>2. CASE UNCHANGED <<job, claims>>
  BY <1>2 DEF RowStep, LiveStep
<1>3. QED
  BY <1>1, <1>2, ProduceStep, AttendStep, WorkStep, SettlingStep
     DEF Next, CallersDie, Tick, vars, RowStep

-----------------------------------------------------------------------------
(* The retry budget.                                                        *)

\* The strengthening of AttemptBudget: a waiting job was claimed at most once
\* per retry it has used, a running one once more than that, and the retries
\* used never exceed maxRetries.  Without the waiting case a claim could go
\* past the budget; without the running case so could a failure that gives the
\* job back.
Accounted(row, n, max) ==
    /\ row.status = "absent" => n = 0
    /\ row.status = Pending => n <= row.retryCount /\ row.retryCount <= max
    /\ row.status = Processing => n <= row.retryCount + 1 /\ row.retryCount <= max
    /\ n <= max + 1

RetryAccounting == \A j \in Jobs : Accounted(job[j], claims[j], MaxRetries[j])

LEMMA InitAccounting == Init => RetryAccounting
BY QueueConstants DEF Init, RetryAccounting, Accounted, NoRow, Pending, Processing

LEMMA RowAccounting ==
    ASSUME NEW j \in Jobs, NEW old \in Row, NEW new, RowStep(j, old, new),
           claims[j] \in Nat, MaxRetries[j] \in Nat,
           Accounted(old, claims[j], MaxRetries[j])
    PROVE  Accounted(new, claims'[j], MaxRetries[j])
<1> DEFINE n == claims[j]
           max == MaxRetries[j]
<1>1. old.retryCount \in Nat
  BY DEF Row
<1>2. CASE Given(j, old, new) /\ claims'[j] = n + 1
  BY <1>1, <1>2 DEF Given, Accounted, Pending, Processing
<1>3. CASE claims'[j] = n /\ new = old
  BY <1>3
<1>4. CASE claims'[j] = n /\ Inserted(old, new)
  BY <1>4 DEF Inserted, Accounted, Pending, Processing
<1>5. CASE claims'[j] = n /\ Touched(old, new)
  BY <1>5 DEF Touched, Accounted, Active, Pending, Processing
<1>6. CASE claims'[j] = n /\ GivenBack(j, old, new)
  BY <1>1, <1>6 DEF GivenBack, Accounted, Active, Pending, Processing
<1>7. CASE claims'[j] = n /\ (SettledNow(old, new) \/ Removed(old, new))
  BY <1>7 DEF SettledNow, Removed, Accounted, Terminal, Pending, Processing,
              Completed, Failed
<1>8. QED
  BY <1>2, <1>3, <1>4, <1>5, <1>6, <1>7 DEF RowStep, LiveStep

LEMMA NextAccounting == TypeOK /\ RetryAccounting /\ [Next]_vars => RetryAccounting'
<1> SUFFICES ASSUME TypeOK, RetryAccounting, [Next]_vars, NEW j \in Jobs
             PROVE  Accounted(job'[j], claims'[j], MaxRetries[j])
  BY DEF RetryAccounting
<1>1. claims[j] \in Nat /\ MaxRetries[j] \in Nat /\ job[j] \in Row
  BY QueueConstants DEF TypeOK
<1>2. Accounted(job[j], claims[j], MaxRetries[j])
  BY DEF RetryAccounting
<1>3. RowStep(j, job[j], job'[j])
  BY AnyStep
<1>4. QED
  BY <1>1, <1>2, <1>3, RowAccounting

\* No job is handed to a worker more than maxRetries + 1 times, whatever
\* failures, lost leases, superseded sessions and late writes do.
THEOREM BudgetHolds == Spec => []AttemptBudget
<1>1. RetryAccounting => AttemptBudget
  BY DEF RetryAccounting, Accounted, AttemptBudget
<1>2. QED
  BY <1>1, InitAccounting, NextAccounting, TypeCorrect, PTL DEF Spec

\* A settled row never changes again, except that retention removes it.
THEOREM SettledStays == Spec => SettledIsFinal
<1>1. TypeOK /\ [Next]_vars
        => [\A j \in Jobs : job[j].status \in Terminal =>
              job'[j] = job[j] \/ job'[j].status = "deleted"]_vars
  <2> SUFFICES ASSUME TypeOK, [Next]_vars, NEW j \in Jobs, job[j].status \in Terminal
               PROVE  job'[j] = job[j] \/ job'[j].status = "deleted"
    OBVIOUS
  <2>1. RowStep(j, job[j], job'[j])
    BY AnyStep
  <2>2. QED
    BY <2>1 DEF RowStep, LiveStep, Inserted, Touched, Given, GivenBack, SettledNow, Removed,
                Active, Terminal, Pending, Processing, Completed, Failed
<1>2. QED
  BY <1>1, TypeCorrect, PTL DEF Spec, SettledIsFinal

-----------------------------------------------------------------------------
(* The life of a job.                                                       *)

LEMMA StageCases ==
    /\ Stage("absent") = "absent" /\ Stage(Pending) = "waiting"
    /\ Stage(Processing) = "running" /\ Stage("deleted") = "forgotten"
    /\ Stage(Completed) = "completed" /\ Stage(Failed) = "failed"
BY DEF Stage, Pending, Processing, Completed, Failed

LEMMA StageOfRow == \A j \in Jobs : Stages[j] = Stage(job[j].status)
BY DEF Stages

\* A statement that writes one row moves one job.
LEMMA OneStage ==
    ASSUME TypeOK, NEW j \in Jobs, NEW row, job' = [job EXCEPT ![j] = row]
    PROVE  Stages' = [Stages EXCEPT ![j] = Stage(row.status)]
<1>1. \A k \in Jobs : job'[k] = IF k = j THEN row ELSE job[k]
  BY DEF TypeOK
<1>2. Stages' = [k \in Jobs |-> Stage(job'[k].status)]
  BY DEF Stages
<1>3. \A k \in Jobs : Stage(job'[k].status) = IF k = j THEN Stage(row.status) ELSE Stages[k]
  BY <1>1, StageOfRow
<1>4. DOMAIN Stages = Jobs
  BY DEF Stages
<1>5. QED
  BY <1>2, <1>3, <1>4

\* A write that keeps the status of a row moves nothing.
LEMMA SameStage ==
    ASSUME TypeOK, NEW j \in Jobs, NEW row, row.status = job[j].status,
           job' = [job EXCEPT ![j] = row]
    PROVE  Stages' = Stages
<1>1. Stages' = [Stages EXCEPT ![j] = Stages[j]]
  BY OneStage, StageOfRow, ZenonT(60)
<1>2. QED
  BY <1>1 DEF Stages

\* A write that settles one active row is the promised end of the job.
LEMMA SettledStage ==
    ASSUME TypeOK, NEW j \in Jobs, NEW row, job[j].status \in Active,
           row.status \in Terminal, job' = [job EXCEPT ![j] = row], claims' = claims
    PROVE  Life!Settle(j)
<1>1. Stages[j] \in {"waiting", "running"}
  BY StageCases, StageOfRow DEF Active
<1>2. Stage(row.status) \in {"completed", "failed"}
  BY StageCases DEF Terminal
<1>3. Stages' = [Stages EXCEPT ![j] = Stage(row.status)]
  BY OneStage
<1>4. QED
  BY <1>1, <1>2, <1>3 DEF Life!Settle, Life!Live, Life!Settled

LEMMA ProduceLife ==
    ASSUME TypeOK, Produce
    PROVE  Life!LifeNext \/ UNCHANGED <<Stages, claims>>
<1>1. PICK j \in Jobs, t \in Stamps : Insert(j, t) \/ Coalesce(j, t) \/ Replace(j, t)
  BY DEF Produce
<1>2. /\ NewRow(j, t).status = Pending /\ job[j].status = "absent"
      /\ claims' = claims /\ Stages[j] = "absent"
  BY <1>1, StampType, NewRowType, StageOfRow, StageCases
     DEF Insert, Coalesce, Replace, TypeOK
<1>3. CASE Insert(j, t)
  <2>1. Stages' = [Stages EXCEPT ![j] = "waiting"]
    BY <1>2, <1>3, OneStage, StageCases, ZenonT(60) DEF Insert
  <2>2. Life!Submit(j)
    BY <1>2, <2>1 DEF Life!Submit
  <2>3. QED
    BY <2>2 DEF Life!LifeNext
<1>4. \A d \in Duplicates(j) : d \in Jobs
  BY DEF Duplicates, Newest, Matching
<1>5. CASE Coalesce(j, t)
  <2>1. PICK d \in Duplicates(j) :
          job' = [job EXCEPT ![d] = [job[d] EXCEPT !.scheduledFor = t]]
    BY <1>5 DEF Coalesce
  <2>2. [job[d] EXCEPT !.scheduledFor = t].status = job[d].status
    BY <1>4 DEF TypeOK, Row
  <2>3. QED
    BY <1>2, <1>4, <2>1, <2>2, SameStage
<1>6. CASE Replace(j, t)
  <2>1. PICK d \in Duplicates(j), at \in t..now : \E u \in NextCursors(at) :
          job' = [job EXCEPT ![d] = Replaced(@, at, u), ![j] = NewRow(j, t)]
    BY <1>6 DEF Replace
  <2>2. PICK u \in NextCursors(at) :
          job' = [job EXCEPT ![d] = Replaced(@, at, u), ![j] = NewRow(j, t)]
    BY <2>1
  <2>3. job[d].status = Pending /\ d \in Jobs
    BY <1>6, <2>1 DEF Replace, Duplicates, Newest, Matching
  <2>4. Replaced(job[d], at, u).status = Failed
    BY <2>3 DEF Replaced, TypeOK, Row
  <2>5. \A k \in Jobs : job'[k] = IF k = j THEN NewRow(j, t)
                                  ELSE IF k = d THEN Replaced(job[d], at, u) ELSE job[k]
    BY <2>2, <2>3 DEF TypeOK
  <2>6. \A k \in Jobs : Stages'[k] = IF k = j THEN "waiting"
                                     ELSE IF k = d THEN "failed" ELSE Stages[k]
    BY <1>2, <2>4, <2>5, StageCases DEF Stages
  <2>7. Stages' = [Stages EXCEPT ![j] = "waiting", ![d] = "failed"]
    <3>1. d # j
      BY <1>2, <2>3 DEF Pending
    <3>2. DOMAIN Stages = Jobs /\ Stages' = [k \in Jobs |-> Stages'[k]]
      BY DEF Stages
    <3> HIDE DEF Stages
    <3>3. QED
      BY <2>3, <2>6, <3>1, <3>2
  <2>8. Stages[d] = "waiting"
    BY <2>3, StageOfRow, StageCases
  <2>9. Life!Supersede(j, d)
    BY <1>2, <2>7, <2>8 DEF Life!Supersede
  <2>10. QED
    BY <2>3, <2>9 DEF Life!LifeNext
<1>7. QED
  BY <1>1, <1>3, <1>5, <1>6

LEMMA AttendLife ==
    ASSUME TypeOK, RetryAccounting, Attend
    PROVE  Life!LifeNext \/ UNCHANGED <<Stages, claims>>
<1>1. PICK s \in Slots, t \in Stamps :
        \/ StartWorkerSession(s, t)
        \/ \E id \in 1..lastSession :
              \/ HeartbeatWorkerSession(s, id, t)
              \/ EndWorkerSession(s, id)
              \/ \E j \in Jobs : Claim(j, s, id, t) \/ ClaimSpent(j, s, id, t)
  BY DEF Attend
<1>2. CASE UNCHANGED <<job, claims>>
  BY <1>2 DEF Stages
<1>3. ASSUME NEW id, NEW j \in Jobs, Claim(j, s, id, t)
      PROVE  Life!LifeNext
  <2> DEFINE row == Claimed(job[j], lastAttempt', s, id, t)
  <2>1. row.status = Processing
    BY DEF Claimed, TypeOK, Row
  <2>2. job[j].status \in {Pending, Processing}
    BY <1>3 DEF Claim, FirstReady, Ready, DuePending, Reclaimable
  <2>3. claims[j] < MaxRetries[j] + 1
    <3>1. job[j].retryCount \in Nat /\ MaxRetries[j] \in Nat /\ claims[j] \in Nat
      BY QueueConstants DEF TypeOK, Row
    <3>2. job[j].status = Processing => job[j].retryCount + 1 <= MaxRetries[j]
      BY <1>3, <3>1 DEF Claim, Spent
    <3>3. QED
      BY <2>2, <3>1, <3>2 DEF RetryAccounting, Accounted
  <2>4. job' = [job EXCEPT ![j] = row] /\ claims' = [claims EXCEPT ![j] = @ + 1]
    BY <1>3 DEF Claim
  <2> HIDE DEF row
  <2>5. Stages' = [Stages EXCEPT ![j] = "running"]
    BY <2>1, <2>4, OneStage, StageCases
  <2>6. Life!Run(j)
    BY <2>2, <2>3, <2>4, <2>5, StageOfRow, StageCases DEF Life!Run, Life!Live, Budgets
  <2>7. QED
    BY <2>6 DEF Life!LifeNext
<1>4. ASSUME NEW id, NEW j \in Jobs, ClaimSpent(j, s, id, t)
      PROVE  Life!LifeNext
  <2>1. PICK u \in NextCursors(t) : job' = [job EXCEPT ![j] = Expired(@, t, u)]
    BY <1>4 DEF ClaimSpent
  <2>2. job[j].status \in Active /\ claims' = claims
    BY <1>4 DEF ClaimSpent, Spent, Active
  <2>3. Expired(job[j], t, u).status \in Terminal
    BY DEF Expired, TypeOK, Row, Terminal
  <2>4. Life!Settle(j)
    BY <2>1, <2>2, <2>3, SettledStage
  <2>5. QED
    BY <2>4 DEF Life!LifeNext
<1>5. QED
  BY <1>1, <1>2, <1>3, <1>4
     DEF StartWorkerSession, HeartbeatWorkerSession, EndWorkerSession

LEMMA WorkLife ==
    ASSUME TypeOK, Work
    PROVE  Life!LifeNext \/ UNCHANGED <<Stages, claims>>
<1>1. PICK j \in Jobs, t \in Stamps, a \in Tokens \cup {Unfenced} :
        Complete(j, a, t) \/ FailRead(j, a) \/ RecordProgress(j, a, t) \/ RenewLease(j, a, t)
  BY DEF Work
<1>2. claims' = claims /\ job[j].status \in Active
  BY <1>1 DEF Complete, FailRead, RecordProgress, RenewLease, Owns, Active
<1>3. CASE Complete(j, a, t)
  <2>1. PICK u \in NextCursors(t) :
          job' = [job EXCEPT ![j] = [job[j] EXCEPT !.status = Completed,
                                      !.completedAt = t, !.runtimeUpdatedAt = u]]
    BY <1>3 DEF Complete
  <2>2. [job[j] EXCEPT !.status = Completed, !.completedAt = t,
                       !.runtimeUpdatedAt = u].status \in Terminal
    BY DEF TypeOK, Row, Terminal
  <2>3. Life!Settle(j)
    BY <1>2, <2>1, <2>2, SettledStage
  <2>4. QED
    BY <2>3 DEF Life!LifeNext
<1>4. CASE FailRead(j, a)
  BY <1>2, <1>4 DEF FailRead, Stages
<1>5. CASE RecordProgress(j, a, t)
  <2>1. PICK u \in NextCursors(t) :
          job' = [job EXCEPT ![j] = [job[j] EXCEPT !.runtimeUpdatedAt = u]]
    BY <1>5 DEF RecordProgress
  <2>2. [job[j] EXCEPT !.runtimeUpdatedAt = u].status = job[j].status
    BY DEF TypeOK, Row
  <2>3. QED
    BY <1>2, <2>1, <2>2, SameStage
<1>6. CASE RenewLease(j, a, t)
  <2>1. job' = [job EXCEPT ![j] = [job[j] EXCEPT !.leaseExpiresAt = t + LeaseDuration]]
    BY <1>6 DEF RenewLease
  <2>2. [job[j] EXCEPT !.leaseExpiresAt = t + LeaseDuration].status = job[j].status
    BY DEF TypeOK, Row
  <2>3. QED
    BY <1>2, <2>1, <2>2, SameStage
<1>7. QED
  BY <1>1, <1>3, <1>4, <1>5, <1>6

\* A call of fail() without a token may meet a row that waits already; any other
\* meets a running one, which has a run left when it has a retry left.
LEMMA SettlingLife ==
    ASSUME TypeOK, RetryAccounting, Settling
    PROVE  Life!LifeNext \/ UNCHANGED <<Stages, claims>>
<1>1. PICK f \in failing, t \in Stamps : FailWrite(f, t)
  BY DEF Settling
<1> DEFINE j == f.job
<1>2. j \in Jobs /\ job[j] \in Row /\ claims' = claims
  BY <1>1 DEF FailWrite, TypeOK, Call
<1>3. ASSUME FailApplies(f)
      PROVE  job[j].status \in Active /\ job[j].retryCount = f.retryCount
  BY <1>3 DEF FailApplies, Owns, Active
<1>4. CASE FailApplies(f) /\ CanRetry(f) /\ job' = [job EXCEPT ![j] = Retried(@, f, t)]
  <2>1. Retried(job[j], f, t).status = Pending
    BY <1>2 DEF Retried, Released, Row
  <2>2. CASE job[j].status = Pending
    BY <1>2, <1>4, <2>1, <2>2, SameStage
  <2>3. CASE job[j].status = Processing
    <3>1. Stages[j] = "running"
      BY <1>2, <2>3, StageOfRow, StageCases
    <3>2. Stages' = [Stages EXCEPT ![j] = "waiting"]
      <4> DEFINE row == Retried(job[j], f, t)
      <4>1. job' = [job EXCEPT ![j] = row] /\ row.status = Pending
        BY <1>4, <2>1
      <4> HIDE DEF row, j
      <4>2. QED
        BY <1>2, <4>1, OneStage, StageCases
    <3>3. claims[j] < MaxRetries[j] + 1
      <4>1. job[j].retryCount \in Nat /\ MaxRetries[j] \in Nat /\ claims[j] \in Nat
        BY <1>2, QueueConstants DEF TypeOK, Row
      <4>2. job[j].retryCount < MaxRetries[j] /\ claims[j] <= job[j].retryCount + 1
        BY <1>2, <1>3, <1>4, <2>3 DEF CanRetry, RetryAccounting, Accounted
      <4>3. QED
        BY <4>1, <4>2
    <3>4. Life!GiveBack(j)
      BY <1>2, <3>1, <3>2, <3>3 DEF Life!GiveBack, Budgets
    <3>5. QED
      BY <1>2, <3>4 DEF Life!LifeNext
  <2>4. QED
    BY <1>3, <1>4, <2>2, <2>3 DEF Active
<1>5. ASSUME FailApplies(f), NEW u, job' = [job EXCEPT ![j] = Exhausted(@, f, t, u)]
      PROVE  Life!LifeNext
  <2>1. Exhausted(job[j], f, t, u).status \in Terminal
    BY <1>2 DEF Exhausted, Released, Row, Terminal
  <2>2. Life!Settle(j)
    BY <1>2, <1>3, <1>5, <2>1, SettledStage
  <2>3. QED
    BY <1>2, <2>2 DEF Life!LifeNext
<1>6. CASE UNCHANGED job
  BY <1>2, <1>6 DEF Stages
<1>7. QED
  BY <1>1, <1>4, <1>5, <1>6 DEF FailWrite

LEMMA CleanupLife ==
    ASSUME TypeOK, NEW cutoff, Cleanup(cutoff)
    PROVE  Life!LifeNext
<1> DEFINE S == {j \in Jobs : job[j].status \in Terminal /\ job[j].completedAt <= cutoff}
<1>1. S \in SUBSET {j \in Jobs : Stages[j] \in {"completed", "failed"}}
  BY StageOfRow, StageCases DEF Terminal
<1>2. ASSUME NEW j \in Jobs
      PROVE  Stages'[j] = IF j \in S THEN "forgotten" ELSE Stages[j]
  <2>1. job'[j].status = IF j \in S THEN "deleted" ELSE job[j].status
    BY DEF Cleanup, TypeOK, Row
  <2>2. Stages'[j] = Stage(job'[j].status)
    BY DEF Stages
  <2>3. QED
    BY <2>1, <2>2, StageOfRow, StageCases
<1>3. Stages' = [j \in Jobs |-> Stages'[j]]
  BY DEF Stages
<1> HIDE DEF S
<1>4. Stages' = [j \in Jobs |-> IF j \in S THEN "forgotten" ELSE Stages[j]]
  BY <1>2, <1>3
<1>5. Life!Forget
  BY <1>1, <1>4 DEF Life!Forget, Life!Settled, Cleanup
<1>6. QED
  BY <1>5 DEF Life!LifeNext

LEMMA NextLife ==
    ASSUME TypeOK, RetryAccounting, [Next]_vars
    PROVE  [Life!LifeNext]_(Life!lifeVars)
<1>1. ASSUME NEW cutoff, Cleanup(cutoff)
      PROVE  Life!LifeNext
  BY <1>1, CleanupLife
<1>2. CASE UNCHANGED <<job, claims>>
  BY <1>2 DEF Stages, Life!lifeVars
<1>3. QED
  BY <1>1, <1>2, ProduceLife, AttendLife, WorkLife, SettlingLife
     DEF Next, CallersDie, Tick, vars, Life!lifeVars

\* The queue keeps the promise of JobLifecycle: every statement is a step of the
\* life of one job, or none, for any number of workers, tokens and late calls.
THEOREM LifeIsKept == Spec => ImplementsLifecycle
<1>1. Init => Life!LifeInit
  BY StageCases DEF Init, Life!LifeInit, Stages, NoRow
<1>2. QED
  BY <1>1, InitAccounting, NextAccounting, NextLife, TypeCorrect, PTL
     DEF Spec, ImplementsLifecycle, Life!LifeSpec

-----------------------------------------------------------------------------
(* Deduplication.                                                           *)

\* A statement other than an enqueue writes rows that exist, and no row's creation
\* time.
Aged(k) ==
    /\ job'[k].createdAt = job[k].createdAt
    /\ job[k].status = "absent" => job'[k].status = "absent"

LEMMA OneRowAged ==
    ASSUME TypeOK, NEW j \in Jobs, NEW row, job' = [job EXCEPT ![j] = row],
           job[j].status # "absent", row.createdAt = job[j].createdAt, NEW k \in Jobs
    PROVE  Aged(k)
BY DEF Aged, TypeOK

LEMMA AttendAges ==
    ASSUME TypeOK, Attend, NEW k \in Jobs
    PROVE  Aged(k)
<1>1. PICK s \in Slots, t \in Stamps :
        \/ StartWorkerSession(s, t)
        \/ \E id \in 1..lastSession :
              \/ HeartbeatWorkerSession(s, id, t)
              \/ EndWorkerSession(s, id)
              \/ \E j \in Jobs : Claim(j, s, id, t) \/ ClaimSpent(j, s, id, t)
  BY DEF Attend
<1>2. CASE UNCHANGED job
  BY <1>2 DEF Aged
<1>3. ASSUME NEW id, NEW j \in Jobs, Claim(j, s, id, t)
      PROVE  Aged(k)
  <2> DEFINE row == Claimed(job[j], lastAttempt', s, id, t)
  <2>1. job[j].status # "absent"
    BY <1>3 DEF Claim, FirstReady, Ready, DuePending, Reclaimable, Pending, Processing
  <2>2. row.createdAt = job[j].createdAt
    BY DEF Claimed, TypeOK, Row
  <2>3. job' = [job EXCEPT ![j] = row]
    BY <1>3 DEF Claim
  <2> HIDE DEF row
  <2>4. QED
    BY <2>1, <2>2, <2>3, OneRowAged
<1>4. ASSUME NEW id, NEW j \in Jobs, ClaimSpent(j, s, id, t)
      PROVE  Aged(k)
  <2>1. PICK u \in NextCursors(t) : job' = [job EXCEPT ![j] = Expired(@, t, u)]
    BY <1>4 DEF ClaimSpent
  <2>2. job[j].status # "absent"
    BY <1>4 DEF ClaimSpent, Spent, Processing
  <2>3. Expired(job[j], t, u).createdAt = job[j].createdAt
    BY DEF Expired, TypeOK, Row
  <2>4. QED
    BY <2>1, <2>2, <2>3, OneRowAged
<1>5. QED
  BY <1>1, <1>2, <1>3, <1>4
     DEF StartWorkerSession, HeartbeatWorkerSession, EndWorkerSession

LEMMA WorkAges ==
    ASSUME TypeOK, Work, NEW k \in Jobs
    PROVE  Aged(k)
<1>1. PICK j \in Jobs, t \in Stamps, a \in Tokens \cup {Unfenced} :
        Complete(j, a, t) \/ FailRead(j, a) \/ RecordProgress(j, a, t) \/ RenewLease(j, a, t)
  BY DEF Work
<1>2. job[j].status # "absent"
  BY <1>1 DEF Complete, FailRead, RecordProgress, RenewLease, Owns, Active,
              Pending, Processing
<1>3. CASE Complete(j, a, t)
  <2>1. PICK u \in NextCursors(t) :
          job' = [job EXCEPT ![j] = [job[j] EXCEPT !.status = Completed,
                                      !.completedAt = t, !.runtimeUpdatedAt = u]]
    BY <1>3 DEF Complete
  <2>2. [job[j] EXCEPT !.status = Completed, !.completedAt = t,
                       !.runtimeUpdatedAt = u].createdAt = job[j].createdAt
    BY DEF TypeOK, Row
  <2>3. QED
    BY <1>2, <2>1, <2>2, OneRowAged
<1>4. CASE FailRead(j, a)
  BY <1>4 DEF FailRead, Aged
<1>5. CASE RecordProgress(j, a, t)
  <2>1. PICK u \in NextCursors(t) :
          job' = [job EXCEPT ![j] = [job[j] EXCEPT !.runtimeUpdatedAt = u]]
    BY <1>5 DEF RecordProgress
  <2>2. [job[j] EXCEPT !.runtimeUpdatedAt = u].createdAt = job[j].createdAt
    BY DEF TypeOK, Row
  <2>3. QED
    BY <1>2, <2>1, <2>2, OneRowAged
<1>6. CASE RenewLease(j, a, t)
  <2>1. job' = [job EXCEPT ![j] = [job[j] EXCEPT !.leaseExpiresAt = t + LeaseDuration]]
    BY <1>6 DEF RenewLease
  <2>2. [job[j] EXCEPT !.leaseExpiresAt = t + LeaseDuration].createdAt = job[j].createdAt
    BY DEF TypeOK, Row
  <2>3. QED
    BY <1>2, <2>1, <2>2, OneRowAged
<1>7. QED
  BY <1>1, <1>3, <1>4, <1>5, <1>6

LEMMA SettlingAges ==
    ASSUME TypeOK, Settling, NEW k \in Jobs
    PROVE  Aged(k)
<1>1. PICK f \in failing, t \in Stamps : FailWrite(f, t)
  BY DEF Settling
<1>2. f.job \in Jobs /\ job[f.job] \in Row
  BY <1>1 DEF FailWrite, TypeOK, Call
<1>3. FailApplies(f) => job[f.job].status # "absent"
  BY DEF FailApplies, Owns, Active, Pending, Processing
<1>4. Retried(job[f.job], f, t).createdAt = job[f.job].createdAt
  BY <1>2 DEF Retried, Released, Row
<1>5. \A u : Exhausted(job[f.job], f, t, u).createdAt = job[f.job].createdAt
  BY <1>2 DEF Exhausted, Released, Row
<1>6. CASE UNCHANGED job
  BY <1>6 DEF Aged
<1>7. CASE FailApplies(f) /\ job' = [job EXCEPT ![f.job] = Retried(@, f, t)]
  BY <1>2, <1>3, <1>4, <1>7, OneRowAged
<1>8. ASSUME FailApplies(f), NEW u, job' = [job EXCEPT ![f.job] = Exhausted(@, f, t, u)]
      PROVE  Aged(k)
  BY <1>2, <1>3, <1>5, <1>8, OneRowAged
<1>9. QED
  BY <1>1, <1>6, <1>7, <1>8 DEF FailWrite

\* A row appears in the transaction of its own request, at a time of the clock.
LEMMA Arrival ==
    ASSUME TypeOK, [Next]_vars, NEW k \in Jobs
    PROVE  \/ Aged(k)
           \/ \E t \in Stamps : /\ Insert(k, t) \/ Replace(k, t)
                                /\ job'[k].createdAt = t
<1>1. ASSUME NEW j \in Jobs, NEW t \in Stamps, Insert(j, t) \/ Coalesce(j, t) \/ Replace(j, t)
      PROVE  \/ Aged(k)
             \/ k = j /\ (Insert(j, t) \/ Replace(j, t)) /\ job'[k].createdAt = t
  <2>1. NewRow(j, t).createdAt = t
    BY DEF NewRow, NoRow
  <2>2. CASE Insert(j, t)
    BY <2>1, <2>2 DEF Insert, Aged, TypeOK
  <2>3. \A d \in Duplicates(j) : d \in Jobs /\ job[d].status # "absent"
    BY DEF Duplicates, Newest, Matching, Active, Pending, Processing
  <2>4. CASE Coalesce(j, t)
    <3>1. PICK d \in Duplicates(j) :
            job' = [job EXCEPT ![d] = [job[d] EXCEPT !.scheduledFor = t]]
      BY <2>4 DEF Coalesce
    <3>2. [job[d] EXCEPT !.scheduledFor = t].createdAt = job[d].createdAt
      BY <2>3 DEF TypeOK, Row
    <3>3. QED
      BY <2>3, <3>1, <3>2, OneRowAged
  <2>5. CASE Replace(j, t)
    <3>1. PICK d \in Duplicates(j), at \in t..now : \E u \in NextCursors(at) :
            job' = [job EXCEPT ![d] = Replaced(@, at, u), ![j] = NewRow(j, t)]
      BY <2>5 DEF Replace
    <3>2. PICK u \in NextCursors(at) :
            job' = [job EXCEPT ![d] = Replaced(@, at, u), ![j] = NewRow(j, t)]
      BY <3>1
    <3>3. Replaced(job[d], at, u).createdAt = job[d].createdAt
      BY <2>3 DEF Replaced, TypeOK, Row
    <3>4. job'[k] = IF k = j THEN NewRow(j, t)
                    ELSE IF k = d THEN Replaced(job[d], at, u) ELSE job[k]
      BY <2>3, <3>2 DEF TypeOK
    <3>5. QED
      BY <2>1, <2>3, <2>5, <3>3, <3>4 DEF Aged
  <2>6. QED
    BY <1>1, <2>2, <2>4, <2>5
<1>2. ASSUME NEW cutoff, Cleanup(cutoff)
      PROVE  Aged(k)
  BY <1>2 DEF Cleanup, Aged, TypeOK, Row, Terminal, Completed, Failed
<1>3. CASE UNCHANGED job
  BY <1>3 DEF Aged
<1>4. QED
  BY <1>1, <1>2, <1>3, AttendAges, WorkAges, SettlingAges
     DEF Next, Produce, CallersDie, Tick, vars

\* No row was created in the future, so that among matching rows one is newest.
CreatedBefore == \A j \in Jobs : job[j].createdAt <= now

LEMMA NextCreated == TypeOK /\ CreatedBefore /\ [Next]_vars => CreatedBefore'
<1> SUFFICES ASSUME TypeOK, CreatedBefore, [Next]_vars, NEW j \in Jobs
             PROVE  job'[j].createdAt <= now'
  BY DEF CreatedBefore
<1>1. now \in Nat /\ now' \in {now, now + 1} /\ job[j].createdAt \in Nat
  BY ZenonT(60) DEF TypeOK, Row, Next, Produce, Insert, Coalesce, Replace, Attend, StartWorkerSession,
         HeartbeatWorkerSession, EndWorkerSession, Claim, ClaimSpent, Work, Complete,
         FailRead, RecordProgress, RenewLease, Settling, FailWrite, CallersDie, Tick,
         Cleanup, vars
<1>2. CASE Aged(j)
  BY <1>1, <1>2 DEF Aged, CreatedBefore
<1>3. ASSUME NEW t \in Stamps, job'[j].createdAt = t
      PROVE  job'[j].createdAt <= now'
  BY <1>1, <1>3, StampType
<1>4. QED
  BY <1>2, <1>3, Arrival

\* A set of naturals has a least element: < is well founded, stated of a set of pairs.
LessThan == {ss \in Nat \X Nat : ss[1] < ss[2]}

LEMMA LeastExists ==
    ASSUME NEW T, T \subseteq Nat, T # {}
    PROVE  \E x \in T : \A y \in T : x <= y
<1>1. IsWellFoundedOn(LessThan, Nat)
  BY NatLessThanWellFounded DEF OpToRel, LessThan
<1>2. PICK x \in T : \A y \in T : ~(<<y, x>> \in LessThan)
  BY <1>1, WFMin
<1>3. \A a, b \in Nat : <<a, b>> \in LessThan <=> a < b
  BY DEF LessThan
<1>4. ASSUME NEW y \in T PROVE x <= y
  <2>1. ~(y < x)
    BY <1>2, <1>3
  <2>2. QED
    BY <2>1
<1>5. QED
  BY <1>4

LEMMA NewestExists ==
    ASSUME TypeOK, CreatedBefore, NEW S \in SUBSET Jobs, S # {}
    PROVE  Newest(S) # {}
<1> DEFINE age(k) == now - job[k].createdAt
           T == {age(k) : k \in S}
<1>1. \A k \in S : job[k].createdAt \in Nat /\ now \in Nat /\ job[k].createdAt <= now
  BY DEF TypeOK, Row, CreatedBefore
<1>2. T \subseteq Nat /\ T # {}
  BY <1>1
<1>3. PICK x \in T : \A y \in T : x <= y
  <2> HIDE DEF T
  <2>1. QED
    BY <1>2, LeastExists
<1>4. PICK k \in S : x = age(k)
  OBVIOUS
<1>5. ASSUME NEW i \in S PROVE job[i].createdAt <= job[k].createdAt
  <2>1. age(k) <= age(i)
    BY <1>3, <1>4
  <2>2. QED
    BY <1>1, <2>1
<1>6. QED
  BY <1>5 DEF Newest

LEMMA NextCoalesced ==
    TypeOK /\ CreatedBefore /\ CoalesceSingleActive /\ [Next]_vars => CoalesceSingleActive'
<1> SUFFICES ASSUME TypeOK, CreatedBefore, CoalesceSingleActive, [Next]_vars,
                    NEW j \in Jobs, NEW k \in Jobs, j # k,
                    StrategyOf[j] = "coalesce", StrategyOf[k] = "coalesce",
                    TypeOf[j] = TypeOf[k], KeyOf[j] = KeyOf[k],
                    job'[j].status \in Active, job'[k].status \in Active
             PROVE  FALSE
  BY DEF CoalesceSingleActive
<1>1. ASSUME NEW i \in Jobs, job'[i].status \in Active
      PROVE  job[i].status \in Active \/ job[i].status = "absent"
  BY <1>1, AnyStep DEF RowStep, LiveStep, Inserted, Touched, Given, GivenBack, SettledNow,
         Removed, Active, Terminal, Pending, Processing, Completed, Failed
\* The one that appears in this step finds the other.
<1>2. ASSUME NEW i \in Jobs, NEW m \in Jobs, i # m, job[i].status = "absent",
             StrategyOf[i] = "coalesce", TypeOf[i] = TypeOf[m], KeyOf[i] = KeyOf[m],
             job'[i].status \in Active, job'[m].status \in Active
      PROVE  FALSE
  <2>1. ~Aged(i)
    BY <1>2 DEF Aged, Active, Pending, Processing
  <2>2. PICK t \in Stamps : Insert(i, t)
    BY <1>2, <2>1, Arrival DEF Replace
  <2>3. job'[m] = job[m]
    BY <1>2, <2>2 DEF Insert, TypeOK
  <2>4. m \in Matching(i)
    BY <1>2, <2>3 DEF Matching
  <2>5. Newest(Matching(i)) # {}
    BY <2>4, NewestExists DEF Matching
  <2>6. \A S \in SUBSET Jobs : S # {} => Newest(S) # {}
    BY NewestExists
  <2>7. Duplicates(i) # {}
    <3> DEFINE W == {n \in Matching(i) : job[n].status = Pending}
    <3>1. W \in SUBSET Jobs
      BY DEF Matching
    <3>2. Duplicates(i) = IF W # {} THEN Newest(W) ELSE Newest(Matching(i))
      BY <1>2 DEF Duplicates
    <3> HIDE DEF W
    <3>3. QED
      BY <2>5, <2>6, <3>1, <3>2
  <2>8. QED
    BY <2>2, <2>7 DEF Insert
<1>3. job[j].status \in Active /\ job[k].status \in Active
  BY <1>1, <1>2
<1>4. QED
  BY <1>3 DEF CoalesceSingleActive

\* Two coalescing requests with one type and key never both have an active row.
THEOREM OneOfAKey == Spec => []CoalesceSingleActive
<1>1. Init => CreatedBefore /\ CoalesceSingleActive
  BY DEF Init, CreatedBefore, CoalesceSingleActive, NoRow, Null, Active, Pending, Processing
<1>2. QED
  BY <1>1, NextCreated, NextCoalesced, TypeCorrect, PTL DEF Spec

-----------------------------------------------------------------------------
(* Takeover.                                                                *)

\* By the statement's own clock, which is not ahead of the wall clock, such an
\* attempt is not one to reclaim.
LEMMA LiveIsNotReclaimed ==
    ASSUME TypeOK, NEW j \in Jobs, NEW s \in Slots, NEW t \in Stamps,
           job[j].status = Processing, s = job[j].workerSlotId,
           session[s].id = job[j].workerSessionId,
           job[j].leaseExpiresAt > now \/ session[s].expiresAt > now
    PROVE  j \notin Ready(t)
<1>1. t \in Nat /\ t <= now /\ now \in Nat
  BY StampType DEF TypeOK
<1>2. job[j].attemptId # Null
  BY DEF TypeOK, Tokens, Null
<1>3. OwnerRow(j)
  BY DEF OwnerRow
<1>4. ~(job[j].leaseExpiresAt <= t /\ OwnerRowStale(j, t))
  <2>1. job[j].leaseExpiresAt \in Nat /\ session[s].expiresAt \in Nat
    BY DEF TypeOK, Row
  <2>2. OwnerRowStale(j, t) => session[s].expiresAt <= t
    BY DEF OwnerRowStale
  <2>3. QED
    BY <1>1, <2>1, <2>2
<1>5. QED
  BY <1>2, <1>3, <1>4 DEF Ready, DuePending, Reclaimable, Pending, Processing

\* Otherwise only an expired attempt that was the last counts a retry and settles.
LEMMA RetryCounted ==
    ASSUME TypeOK, [Next]_vars, NEW j \in Jobs, job[j].status = Processing
    PROVE  \/ job'[j].retryCount = job[j].retryCount
           \/ job'[j].status = Pending
           \/ \E t \in Stamps : j \in Ready(t)
<1> DEFINE Kept == job'[j].retryCount = job[j].retryCount
<1>1. CASE UNCHANGED job
  BY <1>1
<1>2. ASSUME NEW cutoff, Cleanup(cutoff)
      PROVE  Kept
  BY <1>2 DEF Cleanup, TypeOK, Row
<1>3. CASE Produce
  <2>2. PICK k \in Jobs, t \in Stamps : Insert(k, t) \/ Coalesce(k, t) \/ Replace(k, t)
    BY <1>3 DEF Produce
  <2>3. CASE Insert(k, t)
    BY <2>3 DEF Insert, TypeOK, Processing
  <2>4. \A d \in Duplicates(k) : d \in Jobs
    BY DEF Duplicates, Newest, Matching
  <2>5. CASE Coalesce(k, t)
    <3>1. PICK d \in Duplicates(k) :
            job' = [job EXCEPT ![d] = [job[d] EXCEPT !.scheduledFor = t]]
      BY <2>5 DEF Coalesce
    <3>2. [job[d] EXCEPT !.scheduledFor = t].retryCount = job[d].retryCount
      BY <2>4 DEF TypeOK, Row
    <3>3. QED
      BY <2>4, <3>1, <3>2 DEF TypeOK
  <2>6. CASE Replace(k, t)
    <3>1. PICK d \in Duplicates(k), at \in t..now : \E u \in NextCursors(at) :
            job' = [job EXCEPT ![d] = Replaced(@, at, u), ![k] = NewRow(k, t)]
      BY <2>6 DEF Replace
    <3>2. PICK u \in NextCursors(at) :
            job' = [job EXCEPT ![d] = Replaced(@, at, u), ![k] = NewRow(k, t)]
      BY <3>1
    <3>3. Replaced(job[d], at, u).retryCount = job[d].retryCount
      BY <2>4 DEF Replaced, TypeOK, Row
    <3>4. j # k
      BY <2>6 DEF Replace, Processing
    <3>5. job'[j] = IF j = d THEN Replaced(job[d], at, u) ELSE job[j]
      BY <2>4, <3>2, <3>4 DEF TypeOK
    <3>6. QED
      BY <3>3, <3>5
  <2>7. QED
    BY <2>2, <2>3, <2>5, <2>6
<1>4. CASE Attend
  <2>1. PICK s \in Slots, t \in Stamps :
          \/ StartWorkerSession(s, t)
          \/ \E id \in 1..lastSession :
                \/ HeartbeatWorkerSession(s, id, t)
                \/ EndWorkerSession(s, id)
                \/ \E k \in Jobs : Claim(k, s, id, t) \/ ClaimSpent(k, s, id, t)
    BY <1>4 DEF Attend
  <2>2. ASSUME NEW id, NEW k \in Jobs, Claim(k, s, id, t) \/ ClaimSpent(k, s, id, t)
        PROVE  Kept \/ j \in Ready(t)
    <3>1. k \in Ready(t)
      BY <2>2 DEF Claim, ClaimSpent, FirstReady
    <3>2. k # j => job'[j] = job[j]
      BY <2>2 DEF Claim, ClaimSpent, TypeOK
    <3>3. QED
      BY <3>1, <3>2
  <2>3. QED
    BY <1>1, <2>1, <2>2 DEF StartWorkerSession, HeartbeatWorkerSession, EndWorkerSession
<1>5. CASE Work
  <2>2. PICK k \in Jobs, t \in Stamps, a \in Tokens \cup {Unfenced} :
          Complete(k, a, t) \/ FailRead(k, a) \/ RecordProgress(k, a, t) \/ RenewLease(k, a, t)
    BY <1>5 DEF Work
  <2>3. CASE Complete(k, a, t)
    <3>1. PICK u \in NextCursors(t) :
            job' = [job EXCEPT ![k] = [job[k] EXCEPT !.status = Completed,
                                        !.completedAt = t, !.runtimeUpdatedAt = u]]
      BY <2>3 DEF Complete
    <3>2. QED
      BY <3>1 DEF TypeOK, Row
  <2>5. CASE RecordProgress(k, a, t) \/ RenewLease(k, a, t) \/ FailRead(k, a)
    <3>1. \E row : /\ row.retryCount = job[k].retryCount
                   /\ job' = [job EXCEPT ![k] = row]
      <4>1. CASE RecordProgress(k, a, t)
        <5>1. PICK u : job' = [job EXCEPT ![k] = [job[k] EXCEPT !.runtimeUpdatedAt = u]]
          BY <4>1 DEF RecordProgress
        <5>2. [job[k] EXCEPT !.runtimeUpdatedAt = u].retryCount = job[k].retryCount
          BY DEF TypeOK, Row
        <5>3. QED
          BY <5>1, <5>2
      <4>2. CASE RenewLease(k, a, t)
        <5>1. [job[k] EXCEPT !.leaseExpiresAt = t + LeaseDuration].retryCount
                = job[k].retryCount
          BY DEF TypeOK, Row
        <5>2. QED
          BY <4>2, <5>1 DEF RenewLease
      <4>3. CASE FailRead(k, a)
        BY <4>3 DEF FailRead, TypeOK
      <4>4. QED
        BY <2>5, <4>1, <4>2, <4>3
    <3>2. QED
      BY <3>1 DEF TypeOK
  <2>6. QED
    BY <2>2, <2>3, <2>5
<1>6. CASE Settling
  <2>1. PICK f \in failing, t \in Stamps : FailWrite(f, t)
    BY <1>6 DEF Settling
  <2>2. f.job \in Jobs /\ job[f.job] \in Row
    BY <2>1 DEF FailWrite, TypeOK, Call
  <2>3. CASE job' = [job EXCEPT ![f.job] = Retried(@, f, t)]
    <3>1. Retried(job[f.job], f, t).status = Pending
      BY <2>2 DEF Retried, Released, Row
    <3>2. QED
      BY <2>2, <2>3, <3>1 DEF TypeOK
  <2>4. ASSUME NEW u, job' = [job EXCEPT ![f.job] = Exhausted(@, f, t, u)]
        PROVE  Kept
    <3>1. Exhausted(job[f.job], f, t, u).retryCount = job[f.job].retryCount
      BY <2>2 DEF Exhausted, Released, Row
    <3>2. QED
      BY <2>2, <2>4, <3>1 DEF TypeOK
  <2>5. QED
    BY <1>1, <2>1, <2>3, <2>4 DEF FailWrite
<1>7. QED
  BY <1>1, <1>2, <1>3, <1>4, <1>5, <1>6 DEF Next, CallersDie, Tick, vars

\* No claim takes a job from an attempt whose lease or whose registered session is
\* good by the clock, however late the caller read its own.
THEOREM LiveAttemptIsSafe == Spec => LiveAttemptKeepsJob
<1>1. TypeOK /\ [Next]_vars
        => [\A j \in Jobs, s \in Slots :
              /\ job[j].status = Processing
              /\ s = job[j].workerSlotId /\ session[s].id = job[j].workerSessionId
              /\ job[j].leaseExpiresAt > now \/ session[s].expiresAt > now
              => job'[j].retryCount = job[j].retryCount \/ job'[j].status = Pending]_vars
  BY LiveIsNotReclaimed, RetryCounted
<1>2. QED
  BY <1>1, TypeCorrect, PTL DEF Spec, LiveAttemptKeepsJob

=============================================================================
