------------------------ MODULE RecurringChecksProofs ------------------------
(* Theorems about RecurringChecks, for every set of alerts, jobs and bodies *)
(* and any number of retries, occurrences and faults.                       *)
EXTENDS RecurringChecks, TLAPS

-----------------------------------------------------------------------------
(* Types.                                                                   *)

LEMMA InitTyped == ChecksInit => ChecksTypeOK
<1> SUFFICES ASSUME ChecksInit PROVE ChecksTypeOK
  OBVIOUS
<1> USE ChecksConstants
<1>1. NoRun \in RunRecord
  BY DEF NoRun, RunRecord
<1>2. \A b \in Bodies : /\ body[b].pc = "none" /\ b # active
                        /\ body[b].step = "none" /\ body[b].at = NoAlert
  BY DEF ChecksInit, NoRun
<1>3. body \in [Bodies -> RunRecord] /\ active \in Bodies \cup {NoBody}
  BY <1>1 DEF ChecksInit
<1>4. jobs \in [Jobs -> [status : {"free", "pending", "running"}, retries : Nat]]
  BY DEF ChecksInit, FreeRow
<1>5. history \in [sent : [Alerts -> 0..2], cut : SUBSET Alerts, silent : SUBSET Alerts,
                   exhausted : BOOLEAN, unqueued : BOOLEAN]
  BY DEF ChecksInit
<1>6. worker \in [registered : BOOLEAN, deliver : BOOLEAN]
      /\ web \in [up : BOOLEAN, starting : BOOLEAN, catchUp : {"none", "asking", "missed"}]
  BY DEF ChecksInit, Down
<1> QED
  BY <1>2, <1>3, <1>4, <1>5, <1>6 DEF ChecksInit, ChecksTypeOK

LEMMA FaultsTyped ==
    ASSUME NEW unhurt \in BOOLEAN, faults \in Nat, Goes(unhurt)
    PROVE  faults' \in Nat
BY ChecksConstants DEF Goes

JobsTyped == jobs \in [Jobs -> [status : {"free", "pending", "running"}, retries : Nat]]
HistoryTyped ==
    history \in [sent : [Alerts -> 0..2], cut : SUBSET Alerts, silent : SUBSET Alerts,
                 exhausted : BOOLEAN, unqueued : BOOLEAN]

\* Only a free row becomes a waiting one.
LEMMA EnqueueTyped ==
    ASSUME JobsTyped, Enqueue
    PROVE  /\ JobsTyped'
           /\ \A j \in Jobs : jobs[j].status = "running" => jobs'[j] = jobs[j]
<1>1. CASE UNCHANGED jobs
  BY <1>1 DEF JobsTyped
<1>2. CASE ~UNCHANGED jobs
  <2> DEFINE free == {j \in Jobs : jobs[j].status = "free"}
             k == CHOOSE j \in free : TRUE
  <2>1. free # {} /\ jobs' = [jobs EXCEPT ![k].status = "pending"]
    BY <1>2 DEF Enqueue
  <2>2. k \in Jobs /\ jobs[k].status = "free"
    BY <2>1
  <2> QED
    BY <2>1, <2>2 DEF JobsTyped
<1> QED
  BY <1>1, <1>2

\* A failed attempt leaves the other rows alone.
LEMMA FailedTyped ==
    ASSUME JobsTyped, NEW J \in SUBSET Jobs, NEW h, Failed(J, h),
           h \in [sent : [Alerts -> 0..2], cut : SUBSET Alerts, silent : SUBSET Alerts,
                  exhausted : BOOLEAN, unqueued : BOOLEAN]
    PROVE  /\ JobsTyped'
           /\ HistoryTyped'
           /\ \A j \in Jobs \ J : jobs'[j] = jobs[j]
           /\ history'.sent = h.sent /\ history'.cut = h.cut /\ history'.silent = h.silent
<1>1. \A j \in Jobs : AfterFailure(jobs[j]) \in
        [status : {"free", "pending", "running"}, retries : Nat]
  BY ChecksConstants DEF AfterFailure, FreeRow, JobsTyped
<1>2. JobsTyped' /\ \A j \in Jobs \ J : jobs'[j] = jobs[j]
  BY <1>1 DEF Failed, JobsTyped
<1>3. HistoryTyped' /\ history'.sent = h.sent /\ history'.cut = h.cut /\ history'.silent = h.silent
  BY DEF Failed, HistoryTyped
<1> QED
  BY <1>2, <1>3

LEMMA CompletedTyped ==
    ASSUME JobsTyped, NEW j \in Jobs, Completed(j)
    PROVE  JobsTyped' /\ \A k \in Jobs \ {j} : jobs'[k] = jobs[k]
BY DEF Completed, JobsTyped, FreeRow

ActiveAlone ==
    /\ \A b \in Bodies : (body[b].pc # "none" /\ ~body[b].aborted) <=> b = active
    /\ \A b \in Bodies : b = active =>
          body[b].job \in Jobs /\ jobs[body[b].job].status = "running"
    /\ \A b \in Bodies : /\ body[b].step # "none" <=> body[b].at # NoAlert
                         /\ body[b].pc = "none" => body[b].at = NoAlert

\* What the rest of the type invariant needs of an action that touches only these.
Runs ==
    /\ JobsTyped
    /\ HistoryTyped
    /\ active \in Bodies \cup {NoBody}
    /\ body \in [Bodies -> RunRecord]
    /\ ActiveAlone

Rest ==
    /\ combined \in BOOLEAN
    /\ row \in [Alerts -> {"none", "pending", "suppressed", "delivered", "resolved"}]
    /\ success \in Nat /\ occurrence \in Nat /\ success <= occurrence
    /\ web \in [up : BOOLEAN, starting : BOOLEAN, catchUp : {"none", "asking", "missed"}]
    /\ worker \in [registered : BOOLEAN, deliver : BOOLEAN]
    /\ resolving \in Alerts \cup {NoAlert}
    /\ faults \in Nat

LEMMA Parts == ChecksTypeOK <=> Runs /\ Rest
BY DEF ChecksTypeOK, Runs, Rest, JobsTyped, HistoryTyped, ActiveAlone

LEMMA PartsPrime == ChecksTypeOK' <=> Runs' /\ Rest'
BY DEF ChecksTypeOK, Runs, Rest, JobsTyped, HistoryTyped, ActiveAlone

LEMMA AbortKeeps ==
    ASSUME Runs, Abort
    PROVE  Runs'
<1> USE ChecksConstants
<1>1. CASE active = NoBody
  BY <1>1 DEF Abort, Runs, JobsTyped, HistoryTyped, ActiveAlone
<1>2. CASE active # NoBody
  <2>1. active \in Bodies /\ body[active].job \in Jobs
    BY <1>2 DEF Runs, ActiveAlone
  <2>2. body' = [body EXCEPT ![active].aborted = TRUE] /\ active' = NoBody
        /\ Failed({body[active].job}, history)
    BY <1>2 DEF Abort
  <2>3. JobsTyped' /\ HistoryTyped'
    BY <2>1, <2>2, FailedTyped DEF Runs, HistoryTyped
  <2>4. body' \in [Bodies -> RunRecord]
    <3>1. [body[active] EXCEPT !.aborted = TRUE] \in RunRecord
      BY <2>1 DEF Runs, RunRecord
    <3> QED
      BY <2>1, <2>2, <3>1 DEF Runs
  <2>5. ActiveAlone'
    BY <2>1, <2>2 DEF Runs, ActiveAlone, RunRecord
  <2> QED
    BY <2>2, <2>3, <2>4, <2>5 DEF Runs
<1> QED
  BY <1>1, <1>2

LEMMA BodyFailsKeeps ==
    ASSUME Runs, NEW b \in Bodies, NEW h, BodyFails(b, h),
           h \in [sent : [Alerts -> 0..2], cut : SUBSET Alerts, silent : SUBSET Alerts,
                  exhausted : BOOLEAN, unqueued : BOOLEAN]
    PROVE  Runs' /\ history'.sent = h.sent /\ history'.cut = h.cut /\ history'.silent = h.silent
<1> USE ChecksConstants
<1>1. NoRun \in RunRecord /\ NoRun.pc = "none" /\ NoRun.step = "none" /\ NoRun.at = NoAlert
  BY DEF NoRun, RunRecord
<1>2. body' = [body EXCEPT ![b] = NoRun] /\ body' \in [Bodies -> RunRecord]
  BY <1>1 DEF BodyFails, Runs
<1>3. CASE active = b
  <2>1. body[b].job \in Jobs /\ active' = NoBody /\ Failed({body[b].job}, h)
    BY <1>3 DEF BodyFails, Runs, ActiveAlone
  <2>2. JobsTyped' /\ HistoryTyped' /\ history'.sent = h.sent /\ history'.cut = h.cut
        /\ history'.silent = h.silent
    BY <2>1, FailedTyped DEF Runs
  <2>3. ActiveAlone'
    BY <1>1, <1>2, <1>3, <2>1 DEF Runs, ActiveAlone
  <2> QED
    BY <1>2, <2>1, <2>2, <2>3 DEF Runs
<1>4. CASE active # b
  <2>1. history' = h /\ jobs' = jobs /\ active' = active
    BY <1>4 DEF BodyFails
  <2>2. ActiveAlone'
    BY <1>1, <1>2, <1>4, <2>1 DEF Runs, ActiveAlone
  <2> QED
    BY <1>2, <2>1, <2>2 DEF Runs, JobsTyped, HistoryTyped
<1> QED
  BY <1>3, <1>4

\* A change of one body that ends nothing keeps its place.
LEMMA StepKeeps ==
    ASSUME Runs, NEW b \in Bodies, NEW r \in RunRecord, body[b].pc # "none",
           r.pc # "none", r.step # "none" <=> r.at # NoAlert, r.aborted = body[b].aborted, r.job = body[b].job,
           body' = [body EXCEPT ![b] = r], UNCHANGED <<jobs, active>>, HistoryTyped'
    PROVE  Runs'
<1>1. body' \in [Bodies -> RunRecord]
  BY DEF Runs
<1>2. ActiveAlone'
  BY DEF Runs, ActiveAlone
<1> QED
  BY <1>1, <1>2 DEF Runs, JobsTyped

\* A run's record with its place, its list or its check changed: the rest is kept.
Taken(x, a, step) == [x EXCEPT !.at = a, !.step = step]
Skipped(x, a)     == [x EXCEPT !.todo = @ \ {a}]
Left(x)           == [x EXCEPT !.todo = @ \ {x.at}, !.at = NoAlert, !.step = "none"]
Checked(x, found) == [x EXCEPT !.pc = "record", !.todo = found, !.seen = @ \cup found]

SameRun(r, x) == r.pc = x.pc /\ r.aborted = x.aborted /\ r.job = x.job /\ r.deliver = x.deliver

LEMMA TakenRun ==
    ASSUME NEW x \in RunRecord, NEW a \in Alerts, NEW step \in {"suppress", "deliver", "write"}
    PROVE  /\ Taken(x, a, step) \in RunRecord /\ SameRun(Taken(x, a, step), x)
           /\ Taken(x, a, step).at = a /\ Taken(x, a, step).step = step
           /\ Taken(x, a, step).todo = x.todo /\ Taken(x, a, step).seen = x.seen
BY DEF RunRecord, SameRun, Taken

LEMMA SkippedRun ==
    ASSUME NEW x \in RunRecord, NEW a \in Alerts
    PROVE  /\ Skipped(x, a) \in RunRecord /\ SameRun(Skipped(x, a), x)
           /\ Skipped(x, a).at = x.at /\ Skipped(x, a).step = x.step
           /\ Skipped(x, a).todo = x.todo \ {a} /\ Skipped(x, a).seen = x.seen
BY DEF RunRecord, SameRun, Skipped

LEMMA LeftRun ==
    ASSUME NEW x \in RunRecord
    PROVE  /\ Left(x) \in RunRecord /\ SameRun(Left(x), x)
           /\ Left(x).at = NoAlert /\ Left(x).step = "none"
           /\ Left(x).todo = x.todo \ {x.at} /\ Left(x).seen = x.seen
BY DEF RunRecord, SameRun, Left

LEMMA CheckedRun ==
    ASSUME NEW x \in RunRecord, NEW found \in SUBSET Alerts
    PROVE  LET r == Checked(x, found)
           IN /\ r \in RunRecord /\ r.pc = "record" /\ r.aborted = x.aborted /\ r.job = x.job
              /\ r.deliver = x.deliver /\ r.at = x.at /\ r.step = x.step
              /\ r.todo = found /\ r.seen = x.seen \cup found
BY DEF RunRecord, Checked

\* What the parts say of one body.
LEMMA OneBody ==
    ASSUME Runs, NEW b \in Bodies
    PROVE  /\ body[b] \in RunRecord
           /\ body[b].step # "none" <=> body[b].at # NoAlert
<1>1. body[b] \in RunRecord
  BY DEF Runs
<1>2. body[b].step # "none" <=> body[b].at # NoAlert
  BY DEF Runs, ActiveAlone
<1> QED
  BY <1>1, <1>2

LEMMA TakesKeeps ==
    ASSUME Runs, NEW b \in Bodies, NEW a \in Alerts, body[b].pc # "none",
           NEW step \in {"suppress", "deliver", "write"}, Takes(b, a, step),
           UNCHANGED <<jobs, active>>, HistoryTyped'
    PROVE  Runs'
<1> DEFINE r == Taken(body[b], a, step)
<1>1. r \in RunRecord /\ r.pc = body[b].pc /\ r.aborted = body[b].aborted /\ r.job = body[b].job
      /\ (r.step # "none" <=> r.at # NoAlert)
  <2>1. body[b] \in RunRecord /\ (body[b].step # "none" <=> body[b].at # NoAlert)
    BY OneBody
  <2>2. r.pc = body[b].pc /\ r.aborted = body[b].aborted /\ r.job = body[b].job
        /\ r.at = a /\ r.step = step
    BY <2>1, TakenRun DEF SameRun
  <2>3. r \in RunRecord
    BY <2>1, TakenRun
  <2>4. r.step # "none" /\ r.at # NoAlert
    BY <2>2, ChecksConstants
  <2> QED
    BY <2>2, <2>3, <2>4
<1>2. body' = [body EXCEPT ![b] = r]
  BY DEF Taken, Takes, Runs
<1> HIDE DEF r
<1> QED
  BY <1>1, <1>2, StepKeeps

LEMMA SkipsKeeps ==
    ASSUME Runs, NEW b \in Bodies, NEW a \in Alerts, body[b].pc # "none", Skips(b, a),
           UNCHANGED <<jobs, active>>, HistoryTyped'
    PROVE  Runs'
<1> DEFINE r == Skipped(body[b], a)
<1>1. r \in RunRecord /\ r.pc = body[b].pc /\ r.aborted = body[b].aborted /\ r.job = body[b].job
      /\ (r.step # "none" <=> r.at # NoAlert)
  <2>1. body[b] \in RunRecord /\ (body[b].step # "none" <=> body[b].at # NoAlert)
    BY OneBody
  <2>2. r.pc = body[b].pc /\ r.aborted = body[b].aborted /\ r.job = body[b].job
        /\ r.at = body[b].at /\ r.step = body[b].step
    BY <2>1, SkippedRun DEF SameRun
  <2>3. r \in RunRecord
    BY <2>1, SkippedRun
  <2>4. r.step # "none" <=> r.at # NoAlert
    BY <2>1, <2>2
  <2> QED
    BY <2>2, <2>3, <2>4
<1>2. body' = [body EXCEPT ![b] = r]
  BY DEF Skipped, Skips, Runs
<1> HIDE DEF r
<1> QED
  BY <1>1, <1>2, StepKeeps

LEMMA LeavesKeeps ==
    ASSUME Runs, NEW b \in Bodies, body[b].pc # "none", Leaves(b),
           UNCHANGED <<jobs, active>>, HistoryTyped'
    PROVE  Runs'
<1> DEFINE r == Left(body[b])
<1>1. r \in RunRecord /\ r.pc = body[b].pc /\ r.aborted = body[b].aborted /\ r.job = body[b].job
      /\ (r.step # "none" <=> r.at # NoAlert)
  <2>1. body[b] \in RunRecord /\ (body[b].step # "none" <=> body[b].at # NoAlert)
    BY OneBody
  <2>2. r.pc = body[b].pc /\ r.aborted = body[b].aborted /\ r.job = body[b].job
        /\ r.at = NoAlert /\ r.step = "none"
    BY <2>1, LeftRun DEF SameRun
  <2>3. r \in RunRecord
    BY <2>1, LeftRun
  <2>4. r.step = "none" /\ r.at = NoAlert
    BY <2>2
  <2> QED
    BY <2>2, <2>3, <2>4
<1>2. body' = [body EXCEPT ![b] = r]
  BY DEF Left, Leaves, Runs
<1> HIDE DEF r
<1> QED
  BY <1>1, <1>2, StepKeeps

-----------------------------------------------------------------------------
(* The actions.                                                             *)

LEMMA Undisturbed ==
    ASSUME Runs, UNCHANGED <<jobs, active, body, history>>
    PROVE  Runs'
BY DEF Runs, JobsTyped, HistoryTyped, ActiveAlone

\* What the scheduling process does.
Scheduling ==
    Occurs \/ WebStarts \/ CatchUpReads \/ CatchUpEnqueues \/ CatchUpFails \/ Register

\* It notes what became of a request, and nothing else of a run or an alert.
LEMMA SchedulingKeeps ==
    ASSUME HistoryTyped, Scheduling
    PROVE  /\ UNCHANGED <<combined, row, active, body, resolving>>
           /\ HistoryTyped'
           /\ history'.sent = history.sent /\ history'.cut = history.cut
           /\ history'.silent = history.silent
<1>1. UNCHANGED <<combined, row, active, body, resolving>>
  BY DEF Scheduling, Occurs, WebStarts, CatchUpReads, CatchUpEnqueues, CatchUpFails,
     Register, runs
<1>2. history' \in {history, Requested, Forgotten}
  BY DEF Scheduling, Occurs, WebStarts, CatchUpReads, CatchUpEnqueues, CatchUpFails,
     Register
<1>3. history' = history \/ \E u \in BOOLEAN : history' = [history EXCEPT !.unqueued = u]
  BY <1>2 DEF Requested, Forgotten
<1> QED
  BY <1>1, <1>3 DEF HistoryTyped

LEMMA ScheduleTyped ==
    ASSUME ChecksTypeOK, Scheduling
    PROVE  ChecksTypeOK'
<1>0. Runs /\ Rest /\ JobsTyped /\ HistoryTyped
  BY Parts DEF Runs
<1>1. UNCHANGED <<combined, row, active, body, resolving>> /\ HistoryTyped'
  BY <1>0, SchedulingKeeps
<1>2. Enqueue \/ UNCHANGED jobs
  BY DEF Scheduling, Occurs, WebStarts, CatchUpReads, CatchUpEnqueues, CatchUpFails,
     Register, runs
<1>3. JobsTyped' /\ \A j \in Jobs : jobs[j].status = "running" => jobs'[j] = jobs[j]
  <2>1. CASE Enqueue
    BY <1>0, <2>1, EnqueueTyped
  <2>2. CASE UNCHANGED jobs
    BY <1>0, <2>2 DEF JobsTyped
  <2> QED
    BY <1>2, <2>1, <2>2
<1>4. Runs'
  BY <1>0, <1>1, <1>3 DEF Runs, ActiveAlone
<1>5. web' \in [up : BOOLEAN, starting : BOOLEAN, catchUp : {"none", "asking", "missed"}]
  <2> DEFINE WebRecord ==
               [up : BOOLEAN, starting : BOOLEAN, catchUp : {"none", "asking", "missed"}]
  <2>0. web \in WebRecord
    BY <1>0 DEF Rest
  <2>1. CatchUpEnds => web' \in WebRecord
    BY <2>0 DEF CatchUpEnds
  <2>2. [web EXCEPT !.catchUp = "missed"] \in WebRecord
        /\ [web EXCEPT !.catchUp = "asking"] \in WebRecord
    BY <2>0
  <2>3. \A c \in {"none", "asking"}, b \in BOOLEAN :
           [up |-> TRUE, starting |-> b, catchUp |-> c] \in WebRecord
    OBVIOUS
  <2> SUFFICES web' \in WebRecord
    OBVIOUS
  <2> HIDE DEF WebRecord
  <2>4. CASE Occurs
    BY <2>0, <2>4 DEF Occurs
  <2>5. CASE WebStarts
    BY <2>3, <2>5 DEF WebStarts
  <2>6. CASE CatchUpReads
    BY <2>1, <2>2, <2>6 DEF CatchUpReads
  <2>7. CASE CatchUpEnqueues \/ CatchUpFails
    BY <2>1, <2>7 DEF CatchUpEnqueues, CatchUpFails
  <2>8. CASE Register
    BY <2>0, <2>2, <2>8 DEF Register
  <2> QED
    BY <2>4, <2>5, <2>6, <2>7, <2>8 DEF Scheduling
<1>6. worker' \in [registered : BOOLEAN, deliver : BOOLEAN]
  <2>1. CASE Register
    BY <2>1 DEF Register
  <2>2. CASE ~Register
    BY <1>0, <2>2 DEF Scheduling, Occurs, WebStarts, CatchUpReads, CatchUpEnqueues,
       CatchUpFails, Rest
  <2> QED
    BY <2>1, <2>2
<1>7. faults' \in Nat
  <2>1. faults' = faults \/ Goes(TRUE) \/ Goes(FALSE)
    BY DEF Scheduling, Occurs, WebStarts, CatchUpReads, CatchUpEnqueues, CatchUpFails,
       Register
  <2> QED
    BY <1>0, <2>1, FaultsTyped DEF Rest
<1>8. success' = success /\ occurrence' \in Nat /\ success' <= occurrence'
  <2>1. success' = success /\ occurrence' \in {occurrence, occurrence + 1}
    BY DEF Scheduling, Occurs, WebStarts, CatchUpReads, CatchUpEnqueues, CatchUpFails,
       Register
  <2>2. success \in Nat /\ occurrence \in Nat /\ success <= occurrence
    BY <1>0 DEF Rest
  <2> QED
    BY <2>1, <2>2
<1>9. Rest'
  BY <1>0, <1>1, <1>5, <1>6, <1>7, <1>8 DEF Rest
<1> QED
  BY <1>4, <1>9, PartsPrime

LEMMA EndsTyped ==
    ASSUME ChecksTypeOK, Unregister \/ StopChecks \/ WebDies \/ WorkerDies
    PROVE  ChecksTypeOK'
<1>0. Runs /\ Rest
  BY Parts
<1>1. faults' \in Nat
  BY <1>0, FaultsTyped DEF Unregister, StopChecks, WebDies, WorkerDies, Rest
<1>2. Rest'
  <2>1. CASE Unregister
    BY <1>0, <1>1, <2>1 DEF Unregister, Rest
  <2>2. CASE StopChecks
    BY <1>0, <1>1, <2>2 DEF StopChecks, Rest
  <2>3. CASE WebDies
    BY <1>0, <1>1, <2>3 DEF WebDies, WebLost, Down, Rest
  <2>4. CASE WorkerDies
    <3>1. worker' \in [registered : BOOLEAN, deliver : BOOLEAN]
      BY <1>0, <2>4 DEF WorkerDies, Rest
    <3>2. web' \in [up : BOOLEAN, starting : BOOLEAN, catchUp : {"none", "asking", "missed"}]
          /\ resolving' \in Alerts \cup {NoAlert}
      <4>1. WebLost \/ (web' = web /\ resolving' = resolving)
        BY <2>4 DEF WorkerDies
      <4>2. web \in [up : BOOLEAN, starting : BOOLEAN, catchUp : {"none", "asking", "missed"}]
            /\ resolving \in Alerts \cup {NoAlert}
        BY <1>0 DEF Rest
      <4>3. CASE WebLost
        BY <4>3 DEF WebLost, Down
      <4>4. CASE web' = web /\ resolving' = resolving
        BY <4>2, <4>4
      <4> QED
        BY <4>1, <4>3, <4>4
    <3> QED
      BY <1>0, <1>1, <2>4, <3>1, <3>2 DEF WorkerDies, Rest
  <2> QED
    BY <2>1, <2>2, <2>3, <2>4
<1>3. CASE Unregister \/ StopChecks \/ WebDies
  BY <1>0, <1>2, <1>3, AbortKeeps, Undisturbed, PartsPrime
     DEF Unregister, StopChecks, WebDies, runs
<1>4. CASE WorkerDies
  <2> DEFINE J == {j \in Jobs : jobs[j].status = "running"}
             h == [history EXCEPT !.cut = @ \cup
                     {body[b].at : b \in {c \in Bodies : body[c].step = "write"}}]
  <2>1. {body[b].at : b \in {c \in Bodies : body[c].step = "write"}} \subseteq Alerts
    BY <1>0 DEF Runs, ActiveAlone, RunRecord
  <2>2. h \in [sent : [Alerts -> 0..2], cut : SUBSET Alerts, silent : SUBSET Alerts,
               exhausted : BOOLEAN, unqueued : BOOLEAN]
    BY <1>0, <2>1 DEF Runs, HistoryTyped
  <2>3. Failed(J, h)
    BY <1>4 DEF WorkerDies
  <2>4. JobsTyped' /\ HistoryTyped'
    <3> HIDE DEF h
    <3> QED
      BY <1>0, <2>2, <2>3, FailedTyped DEF Runs
  <2>5. NoRun \in RunRecord /\ NoRun.pc = "none" /\ NoRun.step = "none" /\ NoRun.at = NoAlert
    BY DEF NoRun, RunRecord
  <2>6. body' = [b \in Bodies |-> NoRun] /\ active' = NoBody
    BY <1>4 DEF WorkerDies
  <2>7. ActiveAlone'
    BY <2>5, <2>6, ChecksConstants DEF ActiveAlone
  <2>8. Runs'
    BY <2>4, <2>5, <2>6, <2>7 DEF Runs
  <2> QED
    BY <1>2, <2>8, PartsPrime
<1> QED
  BY <1>3, <1>4

LEMMA RunNowTyped ==
    ASSUME ChecksTypeOK, NEW j \in Jobs, RunNow(j)
    PROVE  ChecksTypeOK'
<1>0. Runs /\ Rest
  BY Parts
<1>1. Rest'
  BY <1>0 DEF RunNow, InBody, Rest
<1>2. CASE Failed({j}, history) /\ UNCHANGED <<active, body>>
  <2>1. JobsTyped' /\ HistoryTyped' /\ \A k \in Jobs \ {j} : jobs'[k] = jobs[k]
    BY <1>0, <1>2, FailedTyped DEF Runs, HistoryTyped
  <2> QED
    BY <1>0, <1>1, <1>2, <2>1, PartsPrime DEF Runs, ActiveAlone, RunNow
<1>3. CASE Completed(j) /\ UNCHANGED <<active, body, history>>
  <2>1. JobsTyped' /\ \A k \in Jobs \ {j} : jobs'[k] = jobs[k]
    BY <1>0, <1>3, CompletedTyped DEF Runs
  <2> QED
    BY <1>0, <1>1, <1>3, <2>1, PartsPrime DEF Runs, HistoryTyped, ActiveAlone, RunNow
<1> DEFINE gone == {b \in Bodies : body[b].pc = "none"}
           r == [NoRun EXCEPT !.pc = "flush", !.job = j, !.deliver = worker.deliver,
                              !.todo = Stored, !.seen = Stored]
<1>4. CASE /\ active = NoBody /\ gone # {} /\ active' = CHOOSE b \in gone : TRUE
           /\ body' = [body EXCEPT ![active'] = r]
           /\ jobs' = [jobs EXCEPT ![j].status = "running"] /\ UNCHANGED history
  <2>1. active' \in Bodies
    BY <1>4
  <2>2. /\ r \in RunRecord /\ r.pc = "flush" /\ ~r.aborted /\ r.job = j
        /\ r.step = "none" /\ r.at = NoAlert
    BY <1>0 DEF NoRun, RunRecord, Stored, Rest
  <2> HIDE DEF r
  <2>3. body' \in [Bodies -> RunRecord] /\ JobsTyped' /\ HistoryTyped'
    BY <1>0, <1>4, <2>1, <2>2 DEF Runs, JobsTyped, HistoryTyped
  <2>4. ActiveAlone'
    BY <1>0, <1>4, <2>1, <2>2, ChecksConstants DEF Runs, ActiveAlone, JobsTyped
  <2> QED
    BY <1>1, <2>1, <2>3, <2>4, PartsPrime DEF Runs
<1> QED
  BY <1>2, <1>3, <1>4 DEF RunNow

LEMMA BodyStepTyped ==
    ASSUME ChecksTypeOK, NEW b \in Bodies, BodyStep(b)
    PROVE  ChecksTypeOK'
<1>0. Runs /\ Rest
  BY Parts
<1>1. faults' \in Nat
  BY <1>0, FaultsTyped
     DEF BodyStep, FlushNext, Suppress, Check, RecordNext, Deliver, WriteDelivered, Finish,
         Rest
<1>2. body[b].at # NoAlert => body[b].at \in Alerts /\ body[b].pc # "none"
  BY <1>0 DEF Runs, ActiveAlone, RunRecord
<1>3. HistoryTyped
  BY <1>0 DEF Runs
<1>4. CASE FlushNext(b)
  <2>1. PICK a \in body[b].todo :
          IF Flushes(b, a) THEN Takes(b, a, IF body[b].deliver THEN "deliver" ELSE "suppress")
          ELSE Skips(b, a)
    BY <1>4 DEF FlushNext
  <2>2. a \in Alerts /\ body[b].pc # "none"
    BY <1>0, <1>4 DEF FlushNext, Idle, Runs, RunRecord
  <2>3. UNCHANGED <<jobs, active>> /\ HistoryTyped'
    BY <1>3, <1>4 DEF FlushNext, HistoryTyped
  <2>4. Runs'
    BY <1>0, <2>1, <2>2, <2>3, TakesKeeps, SkipsKeeps
  <2>5. Rest'
    BY <1>0, <1>1, <1>4 DEF FlushNext, InBody, Rest
  <2> QED
    BY <2>4, <2>5, PartsPrime
<1>5. CASE Suppress(b)
  <2>1. body[b].at \in Alerts /\ body[b].pc # "none"
    BY <1>0, <1>2, <1>5 DEF Suppress, Runs, ActiveAlone
  <2>2. UNCHANGED <<jobs, active>> /\ HistoryTyped'
    BY <1>3, <1>5 DEF Suppress, HistoryTyped
  <2>3. Runs'
    BY <1>0, <1>5, <2>1, <2>2, LeavesKeeps DEF Suppress
  <2>4. Rest'
    BY <1>0, <1>1, <1>5, <2>1 DEF Suppress, InBody, Rest
  <2> QED
    BY <2>3, <2>4, PartsPrime
<1>6. CASE Check(b)
  <2>1. Rest'
    BY <1>0, <1>1, <1>6 DEF Check, InBody, Rest
  <2>2. CASE BodyFails(b, history)
    BY <1>0, <1>3, <2>1, <2>2, BodyFailsKeeps, PartsPrime DEF HistoryTyped
  <2>3. CASE ~BodyFails(b, history)
    <3>1. PICK found \in SUBSET Alerts :
            body' = [body EXCEPT ![b].pc = "record", ![b].todo = found,
                                 ![b].seen = @ \cup found]
      BY <1>6, <2>3 DEF Check
    <3> DEFINE r == Checked(body[b], found)
    <3>2. /\ r \in RunRecord /\ r.pc = "record" /\ r.aborted = body[b].aborted
          /\ r.job = body[b].job /\ (r.step # "none" <=> r.at # NoAlert)
      BY <1>0, OneBody, CheckedRun
    <3>3. body' = [body EXCEPT ![b] = r]
      BY <1>0, <3>1 DEF Checked, Runs
    <3>4. body[b].pc # "none" /\ UNCHANGED <<jobs, active>> /\ HistoryTyped'
      BY <1>3, <1>6, <2>3 DEF Check, Idle, HistoryTyped
    <3> HIDE DEF r
    <3> QED
      BY <1>0, <2>1, <3>2, <3>3, <3>4, StepKeeps, PartsPrime
  <2> QED
    BY <2>2, <2>3
<1>7. CASE RecordNext(b)
  <2>1. CASE body[b].aborted
    <3>1. BodyFails(b, history) /\ UNCHANGED row
      BY <1>7, <2>1 DEF RecordNext
    <3>2. Rest'
      BY <1>0, <1>1, <1>7, <3>1 DEF RecordNext, InBody, Rest
    <3> QED
      BY <1>0, <1>3, <3>1, <3>2, BodyFailsKeeps, PartsPrime DEF HistoryTyped
  <2>2. CASE ~body[b].aborted
    <3>1. PICK a \in body[b].todo :
            /\ row' = IF row[a] # "none" THEN row
                      ELSE [row EXCEPT ![a] = IF body[b].deliver THEN "pending"
                                              ELSE "suppressed"]
            /\ IF body[b].deliver /\ row[a] \notin {"delivered", "resolved"}
               THEN Takes(b, a, "deliver") ELSE Skips(b, a)
      BY <1>7, <2>2 DEF RecordNext
    <3>2. a \in Alerts /\ body[b].pc # "none"
      BY <1>0, <1>7 DEF RecordNext, Idle, Runs, RunRecord
    <3>3. UNCHANGED <<jobs, active>> /\ HistoryTyped'
      BY <1>3, <1>7, <2>2 DEF RecordNext, HistoryTyped
    <3>4. Runs'
      BY <1>0, <3>1, <3>2, <3>3, TakesKeeps, SkipsKeeps
    <3>5. Rest'
      BY <1>0, <1>1, <1>7, <3>1, <3>2 DEF RecordNext, InBody, Rest
    <3> QED
      BY <3>4, <3>5, PartsPrime
  <2> QED
    BY <2>1, <2>2
<1>8. CASE Deliver(b)
  <2> DEFINE a == body[b].at
             h == [history EXCEPT !.sent[a] = IF @ < 2 THEN @ + 1 ELSE @,
                                  !.silent = @ \ {a}]
  <2>1. a \in Alerts /\ body[b].pc # "none"
    BY <1>0, <1>2, <1>8 DEF Deliver, Runs, ActiveAlone
  <2>2. Rest'
    BY <1>0, <1>1, <1>8 DEF Deliver, InBody, Rest
  <2>3. CASE /\ history' = h /\ body' = [body EXCEPT ![b].step = "write"]
             /\ UNCHANGED <<jobs, active>>
    <3>1. HistoryTyped'
      <4>1. history.sent[a] \in 0..2
        BY <1>3, <2>1 DEF HistoryTyped
      <4>2. (IF history.sent[a] < 2 THEN history.sent[a] + 1 ELSE history.sent[a]) \in 0..2
        BY <4>1
      <4> QED
        BY <1>3, <2>1, <2>3, <4>2 DEF HistoryTyped
    <3> DEFINE r == [body[b] EXCEPT !.step = "write"]
    <3>2. /\ r \in RunRecord /\ r.pc = body[b].pc /\ r.aborted = body[b].aborted
          /\ r.job = body[b].job /\ (r.step # "none" <=> r.at # NoAlert)
      BY <1>0, <2>1, ChecksConstants DEF Runs, RunRecord
    <3>3. body' = [body EXCEPT ![b] = r]
      BY <1>0, <2>3 DEF Runs
    <3> HIDE DEF r
    <3> QED
      BY <1>0, <2>1, <2>2, <2>3, <3>1, <3>2, <3>3, StepKeeps, PartsPrime
  <2>4. CASE /\ history' = [history EXCEPT !.silent = @ \cup {a}]
             /\ Leaves(b) /\ UNCHANGED <<jobs, active>>
    <3>1. HistoryTyped'
      BY <1>3, <2>1, <2>4 DEF HistoryTyped
    <3> QED
      BY <1>0, <2>1, <2>2, <2>4, <3>1, LeavesKeeps, PartsPrime
  <2>5. CASE BodyFails(b, history)
    BY <1>0, <1>3, <2>2, <2>5, BodyFailsKeeps, PartsPrime DEF HistoryTyped
  <2> QED
    BY <1>8, <2>3, <2>4, <2>5 DEF Deliver
<1>9. CASE WriteDelivered(b)
  <2>1. body[b].at \in Alerts /\ body[b].pc # "none"
    BY <1>0, <1>2, <1>9 DEF WriteDelivered, Runs, ActiveAlone
  <2>2. Rest'
    BY <1>0, <1>1, <1>9, <2>1 DEF WriteDelivered, InBody, Rest
  <2>3. CASE Leaves(b) /\ UNCHANGED <<jobs, active, history>>
    BY <1>0, <1>3, <2>1, <2>2, <2>3, LeavesKeeps, PartsPrime DEF HistoryTyped
  <2>4. CASE BodyFails(b, [history EXCEPT !.cut = @ \cup {body[b].at}])
    <3> DEFINE h == [history EXCEPT !.cut = @ \cup {body[b].at}]
    <3>1. h \in [sent : [Alerts -> 0..2], cut : SUBSET Alerts, silent : SUBSET Alerts,
                 exhausted : BOOLEAN, unqueued : BOOLEAN]
      BY <1>3, <2>1 DEF HistoryTyped
    <3> HIDE DEF h
    <3>2. BodyFails(b, h)
      BY <2>4 DEF h
    <3> QED
      BY <1>0, <2>2, <3>1, <3>2, BodyFailsKeeps, PartsPrime
  <2> QED
    BY <1>9, <2>3, <2>4 DEF WriteDelivered
<1>10. CASE Finish(b)
  <2>1. Rest'
    BY <1>0, <1>10 DEF Finish, Rest
  <2>2. NoRun \in RunRecord /\ NoRun.pc = "none" /\ NoRun.step = "none" /\ NoRun.at = NoAlert
    BY DEF NoRun, RunRecord
  <2>3. body' = [body EXCEPT ![b] = NoRun] /\ HistoryTyped'
    BY <1>3, <1>10 DEF Finish, HistoryTyped
  <2>4. JobsTyped' /\ (active = b => active' = NoBody) /\ (active # b => UNCHANGED <<jobs, active>>)
    BY <1>0, <1>10, CompletedTyped DEF Finish, Runs, ActiveAlone, JobsTyped
  <2>5. active' \in Bodies \cup {NoBody} /\ body' \in [Bodies -> RunRecord]
    BY <1>0, <2>2, <2>3, <2>4 DEF Runs
  <2>6. ActiveAlone'
    BY <1>0, <2>2, <2>3, <2>4, ChecksConstants DEF Runs, ActiveAlone
  <2> QED
    BY <2>1, <2>3, <2>4, <2>5, <2>6, PartsPrime DEF Runs
<1> QED
  BY <1>4, <1>5, <1>6, <1>7, <1>8, <1>9, <1>10 DEF BodyStep

LEMMA ResolveTyped ==
    ASSUME ChecksTypeOK, ResolveWrites \/ \E a \in Alerts : ResolveReads(a)
    PROVE  ChecksTypeOK'
<1>0. Runs /\ Rest
  BY Parts
<1>1. Runs'
  BY <1>0, Undisturbed DEF ResolveReads, ResolveWrites, runs
<1>2. Rest'
  BY <1>0 DEF ResolveReads, ResolveWrites, Rest
<1> QED
  BY <1>1, <1>2, PartsPrime

\* Every behaviour keeps the types, and the activeCheck of the registration the only
\* run that has not been aborted.
THEOREM ChecksTypeCorrect == ChecksSpec => []ChecksTypeOK
<1>1. ChecksTypeOK /\ [ChecksNext]_cvars => ChecksTypeOK'
  <2> SUFFICES ASSUME ChecksTypeOK, [ChecksNext]_cvars PROVE ChecksTypeOK'
    OBVIOUS
  <2>1. CASE UNCHANGED cvars
    BY <2>1 DEF cvars, runs, ChecksTypeOK
  <2> QED
    BY <2>1, ScheduleTyped, EndsTyped, RunNowTyped, BodyStepTyped, ResolveTyped
       DEF ChecksNext, Scheduling
<1> QED
  BY <1>1, InitTyped, PTL DEF ChecksSpec

-----------------------------------------------------------------------------
(* One delivery of each alert, and no alert reopened in a combined process. *)

\* One operation per alert; what is to be sent has not been; what was sent is written
\* or about to be; in one process an operation finds no resolution under way.
Lane ==
    /\ \A b, c \in Bodies : body[b].at \in Alerts /\ body[b].at = body[c].at => b = c
    /\ \A b \in Bodies : body[b].step \in {"deliver", "suppress"} =>
          body[b].at \in history.cut \/ history.sent[body[b].at] = 0
    /\ \A a \in Alerts \ history.cut :
          \/ history.sent[a] = 0
          \/ history.sent[a] = 1 /\ \/ row[a] \in {"delivered", "resolved"}
                                    \/ \E b \in Bodies : body[b].at = a /\ body[b].step = "write"
    /\ combined => \A b \in Bodies : body[b].at \in Alerts =>
          row[body[b].at] # "resolved" /\ resolving # body[b].at

\* What an action must show of a body it does not move along: the body stays where it
\* is, or leaves, a write it had begun being counted as lost.
Fades(b) ==
    \/ body'[b].at = body[b].at /\ body'[b].step = body[b].step
    \/ /\ body'[b].at = NoAlert /\ body'[b].step = "none"
       /\ body[b].step = "write" => body[b].at \in history'.cut

\* Neither rows that count as handled nor deliveries change.
Calm ==
    /\ combined' = combined /\ resolving' \in {resolving, NoAlert}
    /\ history'.sent = history.sent /\ history.cut \subseteq history'.cut
    /\ \A a \in Alerts : \/ row'[a] = row[a]
                         \/ row[a] = "none" /\ row'[a] \in {"pending", "suppressed"}

LEMMA CalmKeepsLane ==
    ASSUME ChecksTypeOK, Lane, Calm, \A b \in Bodies : Fades(b)
    PROVE  Lane'
<1> USE ChecksConstants
<1>0. \A b \in Bodies : body[b].at \in Alerts \cup {NoAlert}
                        /\ (body[b].step # "none" <=> body[b].at # NoAlert)
  BY DEF ChecksTypeOK, RunRecord
<1>1. (\A b, c \in Bodies : body[b].at \in Alerts /\ body[b].at = body[c].at => b = c)'
  BY DEF Lane, Fades
<1>2. (\A b \in Bodies : body[b].step \in {"deliver", "suppress"} =>
          body[b].at \in history.cut \/ history.sent[body[b].at] = 0)'
  BY DEF Lane, Fades, Calm
<1>3. ASSUME NEW a \in Alerts, a \notin history'.cut
      PROVE  \/ history'.sent[a] = 0
             \/ history'.sent[a] = 1 /\ \/ row'[a] \in {"delivered", "resolved"}
                                        \/ \E b \in Bodies : body'[b].at = a /\ body'[b].step = "write"
  <2>1. a \notin history.cut /\ history'.sent[a] = history.sent[a]
    BY <1>3 DEF Calm
  <2>2. CASE row[a] \in {"delivered", "resolved"}
    BY <2>1, <2>2 DEF Lane, Calm
  <2>3. ASSUME NEW b \in Bodies, body[b].at = a, body[b].step = "write"
        PROVE  body'[b].at = a /\ body'[b].step = "write"
    BY <1>3, <2>3 DEF Fades
  <2> QED
    BY <2>1, <2>2, <2>3 DEF Lane
<1>4. (combined => \A b \in Bodies : body[b].at \in Alerts =>
          row[body[b].at] # "resolved" /\ resolving # body[b].at)'
  BY DEF Lane, Fades, Calm
<1> QED
  BY <1>1, <1>2, <1>3, <1>4 DEF Lane

\* An operation begins, on a row that is neither delivered nor resolved.
LEMMA TakesKeepsLane ==
    ASSUME ChecksTypeOK, Lane, NEW b \in Bodies, NEW a \in Alerts, body[b].at = NoAlert,
           NEW step \in {"suppress", "deliver"},
           Takes(b, a, step), Unlocked(b, a), row[a] \notin {"delivered", "resolved"},
           UNCHANGED <<combined, resolving, history>>,
           row'[a] \notin {"delivered", "resolved"},
           \A d \in Alerts \ {a} : row'[d] = row[d]
    PROVE  Lane'
<1> USE ChecksConstants
<1>0. \A c \in Bodies : body[c] \in RunRecord
  BY DEF ChecksTypeOK
<1>1. /\ body'[b].at = a /\ body'[b].step = step
      /\ \A c \in Bodies \ {b} : body'[c] = body[c]
  BY <1>0 DEF Takes, ChecksTypeOK, RunRecord
<1>2. \A c \in Bodies : body[c].at # a
  BY DEF Unlocked
<1>3. a \in history.cut \/ history.sent[a] = 0
  BY <1>2 DEF Lane
<1>4. (\A c, d \in Bodies : body[c].at \in Alerts /\ body[c].at = body[d].at => c = d)'
  BY <1>1, <1>2 DEF Lane
<1>5. (\A c \in Bodies : body[c].step \in {"deliver", "suppress"} =>
          body[c].at \in history.cut \/ history.sent[body[c].at] = 0)'
  BY <1>1, <1>3 DEF Lane
<1>6. ASSUME NEW d \in Alerts, d \notin history'.cut
      PROVE  \/ history'.sent[d] = 0
             \/ history'.sent[d] = 1 /\ \/ row'[d] \in {"delivered", "resolved"}
                                        \/ \E c \in Bodies : body'[c].at = d /\ body'[c].step = "write"
  <2>1. CASE d = a
    BY <1>3, <1>6, <2>1
  <2>2. CASE d # a
    <3>1. ASSUME NEW c \in Bodies, body[c].at = d, body[c].step = "write"
          PROVE  \E e \in Bodies : body'[e].at = d /\ body'[e].step = "write"
      <4>1. CASE c # b
        BY <1>1, <3>1, <4>1
      <4>2. CASE c = b
        BY <3>1, <4>2
      <4> QED
        BY <4>1, <4>2
    <3> QED
      BY <1>6, <2>2, <3>1 DEF Lane
  <2> QED
    BY <2>1, <2>2
<1>7. (combined => \A c \in Bodies : body[c].at \in Alerts =>
          row[body[c].at] # "resolved" /\ resolving # body[c].at)'
  BY <1>1, <1>2 DEF Lane, Unlocked
<1> QED
  BY <1>4, <1>5, <1>6, <1>7 DEF Lane

\* What the body at an alert does to its row, and the end of its operation.
LEMMA RowKeepsLane ==
    ASSUME ChecksTypeOK, Lane, NEW b \in Bodies, body[b].at \in Alerts,
           NEW status \in {"suppressed", "delivered"},
           status = "suppressed" => body[b].step = "suppress",
           row' = [row EXCEPT ![body[b].at] = status], Leaves(b),
           UNCHANGED <<combined, resolving, history>>
    PROVE  Lane'
<1> USE ChecksConstants
<1>0. /\ \A c \in Bodies : body[c] \in RunRecord /\ (body[c].step # "none" <=> body[c].at # NoAlert)
      /\ row \in [Alerts -> {"none", "pending", "suppressed", "delivered", "resolved"}]
  BY DEF ChecksTypeOK
<1>1. /\ body'[b].at = NoAlert /\ body'[b].step = "none"
      /\ \A c \in Bodies \ {b} : body'[c] = body[c]
  BY <1>0 DEF Leaves, ChecksTypeOK, RunRecord
<1>2. /\ row'[body[b].at] = status
      /\ \A a \in Alerts : a # body[b].at => row'[a] = row[a]
  BY <1>0
<1>3. \A c \in Bodies \ {b} : body[c].at # body[b].at
  BY DEF Lane
<1>4. (\A c, d \in Bodies : body[c].at \in Alerts /\ body[c].at = body[d].at => c = d)'
  BY <1>1 DEF Lane
<1>5. (\A c \in Bodies : body[c].step \in {"deliver", "suppress"} =>
          body[c].at \in history.cut \/ history.sent[body[c].at] = 0)'
  BY <1>1 DEF Lane
<1>6. ASSUME NEW d \in Alerts, d \notin history'.cut
      PROVE  \/ history'.sent[d] = 0
             \/ history'.sent[d] = 1 /\ \/ row'[d] \in {"delivered", "resolved"}
                                        \/ \E c \in Bodies : body'[c].at = d /\ body'[c].step = "write"
  <2>1. CASE d = body[b].at
    BY <1>2, <1>6, <2>1 DEF Lane
  <2>2. CASE d # body[b].at
    <3>1. ASSUME NEW c \in Bodies, body[c].at = d, body[c].step = "write"
          PROVE  body'[c].at = d /\ body'[c].step = "write"
      BY <1>1, <2>2, <3>1
    <3> QED
      BY <1>2, <1>6, <2>2, <3>1 DEF Lane
  <2> QED
    BY <2>1, <2>2
<1>7. (combined => \A c \in Bodies : body[c].at \in Alerts =>
          row[body[c].at] # "resolved" /\ resolving # body[c].at)'
  <2> SUFFICES ASSUME combined', NEW c \in Bodies, body'[c].at \in Alerts
               PROVE  row'[body'[c].at] # "resolved" /\ resolving' # body'[c].at
    OBVIOUS
  <2>1. c # b /\ body'[c] = body[c]
    BY <1>1
  <2> QED
    BY <1>2, <1>3, <2>1 DEF Lane
<1> QED
  BY <1>4, <1>5, <1>6, <1>7 DEF Lane

LEMMA SendKeepsLane ==
    ASSUME ChecksTypeOK, Lane, NEW b \in Bodies, body[b].step = "deliver",
           body[b].at \in Alerts,
           history' = [history EXCEPT !.sent[body[b].at] = IF @ < 2 THEN @ + 1 ELSE @,
                                      !.silent = @ \ {body[b].at}],
           body' = [body EXCEPT ![b].step = "write"],
           UNCHANGED <<combined, resolving, row>>
    PROVE  Lane'
<1> USE ChecksConstants
<1> DEFINE a == body[b].at
<1>0. /\ \A c \in Bodies : body[c] \in RunRecord
      /\ history \in [sent : [Alerts -> 0..2], cut : SUBSET Alerts, silent : SUBSET Alerts,
                      exhausted : BOOLEAN, unqueued : BOOLEAN]
  BY DEF ChecksTypeOK
<1>1. /\ body'[b].at = a /\ body'[b].step = "write"
      /\ \A c \in Bodies \ {b} : body'[c] = body[c]
  BY <1>0 DEF ChecksTypeOK, RunRecord
<1>2. /\ history'.cut = history.cut
      /\ history'.sent = [history.sent EXCEPT ![a] = IF @ < 2 THEN @ + 1 ELSE @]
  BY <1>0
<1>3. /\ \A d \in Alerts : d # a => history'.sent[d] = history.sent[d]
      /\ history.sent[a] = 0 => history'.sent[a] = 1
  BY <1>0, <1>2
<1>4. \A c \in Bodies \ {b} : body[c].at # a
  BY DEF Lane
<1>5. a \in history.cut \/ history.sent[a] = 0
  BY DEF Lane
<1>6. (\A c, d \in Bodies : body[c].at \in Alerts /\ body[c].at = body[d].at => c = d)'
  BY <1>1, <1>4 DEF Lane
<1>7. (\A c \in Bodies : body[c].step \in {"deliver", "suppress"} =>
          body[c].at \in history.cut \/ history.sent[body[c].at] = 0)'
  <2> SUFFICES ASSUME NEW c \in Bodies, body'[c].step \in {"deliver", "suppress"}
               PROVE  body'[c].at \in history'.cut \/ history'.sent[body'[c].at] = 0
    OBVIOUS
  <2>1. c # b /\ body'[c] = body[c] /\ body[c].at # a
    BY <1>1, <1>4
  <2>2. body[c].at \in Alerts
    BY <1>0, <2>1 DEF ChecksTypeOK, RunRecord
  <2> QED
    BY <1>2, <1>3, <2>1, <2>2 DEF Lane
<1>8. ASSUME NEW d \in Alerts, d \notin history'.cut
      PROVE  \/ history'.sent[d] = 0
             \/ history'.sent[d] = 1 /\ \/ row'[d] \in {"delivered", "resolved"}
                                        \/ \E c \in Bodies : body'[c].at = d /\ body'[c].step = "write"
  <2>1. CASE d = a
    BY <1>1, <1>2, <1>3, <1>5, <1>8, <2>1
  <2>2. CASE d # a
    <3>1. ASSUME NEW c \in Bodies, body[c].at = d, body[c].step = "write"
          PROVE  body'[c].at = d /\ body'[c].step = "write"
      BY <1>1, <2>2, <3>1
    <3> QED
      BY <1>2, <1>3, <1>8, <2>2, <3>1 DEF Lane
  <2> QED
    BY <2>1, <2>2
<1>9. (combined => \A c \in Bodies : body[c].at \in Alerts =>
          row[body[c].at] # "resolved" /\ resolving # body[c].at)'
  <2> SUFFICES ASSUME combined', NEW c \in Bodies, body'[c].at \in Alerts
               PROVE  row'[body'[c].at] # "resolved" /\ resolving' # body'[c].at
    OBVIOUS
  <2>1. body'[c].at = body[c].at
    BY <1>1
  <2> QED
    BY <2>1 DEF Lane
<1> QED
  BY <1>6, <1>7, <1>8, <1>9 DEF Lane

\* A row becomes resolved when no operation of this process is at its alert.
LEMMA ResolveKeepsLane ==
    ASSUME ChecksTypeOK, Lane, ResolveWrites \/ \E a \in Alerts : ResolveReads(a)
    PROVE  Lane'
<1> USE ChecksConstants
<1>1. CASE ResolveWrites
  <2>1. resolving \in Alerts /\ row' = [row EXCEPT ![resolving] = "resolved"]
        /\ resolving' = NoAlert /\ UNCHANGED <<combined, body, history>>
    BY <1>1 DEF ResolveWrites, ChecksTypeOK, runs
  <2>2. row'[resolving] = "resolved" /\ \A a \in Alerts \ {resolving} : row'[a] = row[a]
    BY <2>1 DEF ChecksTypeOK
  <2>3. (\A b, c \in Bodies : body[b].at \in Alerts /\ body[b].at = body[c].at => b = c)'
    BY <2>1 DEF Lane
  <2>4. (\A b \in Bodies : body[b].step \in {"deliver", "suppress"} =>
            body[b].at \in history.cut \/ history.sent[body[b].at] = 0)'
    BY <2>1 DEF Lane
  <2>5. ASSUME NEW d \in Alerts, d \notin history'.cut
        PROVE  \/ history'.sent[d] = 0
               \/ history'.sent[d] = 1 /\ \/ row'[d] \in {"delivered", "resolved"}
                                          \/ \E b \in Bodies : body'[b].at = d /\ body'[b].step = "write"
    <3>1. CASE d = resolving
      BY <2>1, <2>2, <2>5, <3>1 DEF Lane
    <3>2. CASE d # resolving
      BY <2>1, <2>2, <2>5, <3>2 DEF Lane
    <3> QED
      BY <3>1, <3>2
  <2>6. (combined => \A b \in Bodies : body[b].at \in Alerts =>
            row[body[b].at] # "resolved" /\ resolving # body[b].at)'
    BY <2>1, <2>2 DEF Lane
  <2> QED
    BY <2>3, <2>4, <2>5, <2>6 DEF Lane
<1>2. ASSUME NEW a \in Alerts, ResolveReads(a) PROVE Lane'
  <2>1. /\ resolving' = a /\ UNCHANGED <<combined, body, history, row>>
        /\ combined => \A b \in Bodies : body[b].at # a
    BY <1>2 DEF ResolveReads, runs
  <2>2. (combined => \A b \in Bodies : body[b].at \in Alerts =>
            row[body[b].at] # "resolved" /\ resolving # body[b].at)'
    BY <2>1 DEF Lane
  <2> QED
    BY <2>1, <2>2 DEF Lane
<1> QED
  BY <1>1, <1>2

-----------------------------------------------------------------------------
\* No action but a body's own moves it along.
LEMMA OutsideKeepsLane ==
    ASSUME ChecksTypeOK, Lane,
           \/ Scheduling \/ Unregister \/ StopChecks \/ WebDies \/ WorkerDies
           \/ \E j \in Jobs : RunNow(j)
    PROVE  Lane'
<1>0. /\ Runs /\ HistoryTyped /\ JobsTyped
      /\ \A b \in Bodies : body[b] \in RunRecord /\ (body[b].pc = "none" => body[b].at = NoAlert)
  BY Parts DEF Runs, ActiveAlone
<1>1. CASE Scheduling
  <2>1. UNCHANGED <<combined, row, body, resolving>> /\ history'.sent = history.sent
        /\ history'.cut = history.cut
    BY <1>0, <1>1, SchedulingKeeps
  <2> QED
    BY <2>1, CalmKeepsLane DEF Calm, Fades
<1>2. CASE Unregister \/ StopChecks \/ WebDies
  <2>1. UNCHANGED <<combined, row>> /\ resolving' \in {resolving, NoAlert}
        /\ (Abort \/ UNCHANGED <<runs, history>>)
    BY <1>2 DEF Unregister, StopChecks, WebDies, WebLost
  <2>2. CASE UNCHANGED <<runs, history>>
    BY <2>1, <2>2, CalmKeepsLane DEF Calm, Fades, runs
  <2>3. CASE Abort
    <3>1. history'.sent = history.sent /\ history'.cut = history.cut
      <4>1. CASE active = NoBody
        BY <2>3, <4>1 DEF Abort
      <4>2. CASE active # NoBody
        <5>1. body[active].job \in Jobs /\ Failed({body[active].job}, history)
          BY <1>0, <2>3, <4>2 DEF Abort, Runs, ActiveAlone
        <5> QED
          BY <1>0, <5>1, FailedTyped DEF HistoryTyped
      <4> QED
        BY <4>1, <4>2
    <3>2. \A b \in Bodies : body'[b].at = body[b].at /\ body'[b].step = body[b].step
      BY <1>0, <2>3 DEF Abort, Runs, RunRecord
    <3> QED
      BY <2>1, <3>1, <3>2, CalmKeepsLane DEF Calm, Fades
  <2> QED
    BY <2>1, <2>2, <2>3
<1>3. CASE WorkerDies
  <2> DEFINE lost == {body[b].at : b \in {c \in Bodies : body[c].step = "write"}}
             h == [history EXCEPT !.cut = @ \cup lost]
             J == {j \in Jobs : jobs[j].status = "running"}
  <2>1. h \in [sent : [Alerts -> 0..2], cut : SUBSET Alerts, silent : SUBSET Alerts,
               exhausted : BOOLEAN, unqueued : BOOLEAN]
        /\ h.sent = history.sent /\ h.cut = history.cut \cup lost
    <3>1. lost \subseteq Alerts
      BY <1>0 DEF Runs, ActiveAlone, RunRecord
    <3> HIDE DEF lost
    <3> QED
      BY <1>0, <3>1 DEF HistoryTyped
  <2>2. Failed(J, h)
    BY <1>3 DEF WorkerDies
  <2>3. history'.sent = history.sent /\ history'.cut = history.cut \cup lost
    <3> HIDE DEF h, lost
    <3> QED
      BY <1>0, <2>1, <2>2, FailedTyped
  <2>4. UNCHANGED <<combined, row>> /\ resolving' \in {resolving, NoAlert}
        /\ body' = [b \in Bodies |-> NoRun]
    BY <1>3 DEF WorkerDies, WebLost
  <2>5. \A b \in Bodies : Fades(b)
    BY <2>3, <2>4 DEF Fades, NoRun
  <2>6. Calm
    <3> HIDE DEF lost
    <3> QED
      BY <2>3, <2>4 DEF Calm
  <2> QED
    BY <2>5, <2>6, CalmKeepsLane
<1>4. ASSUME NEW j \in Jobs, RunNow(j) PROVE Lane'
  <2>1. UNCHANGED <<combined, row, resolving>>
    BY <1>4 DEF RunNow, InBody
  <2>2. history'.sent = history.sent /\ history'.cut = history.cut
    <3>1. CASE UNCHANGED history
      BY <3>1
    <3>2. CASE Failed({j}, history)
      BY <1>0, <3>2, FailedTyped DEF HistoryTyped
    <3> QED
      BY <1>4, <3>1, <3>2 DEF RunNow
  <2>3. \A b \in Bodies : Fades(b)
    <3>1. CASE UNCHANGED body
      BY <3>1 DEF Fades
    <3> DEFINE gone == {b \in Bodies : body[b].pc = "none"}
               r == [NoRun EXCEPT !.pc = "flush", !.job = j, !.deliver = worker.deliver,
                                  !.todo = Stored, !.seen = Stored]
    <3>2. CASE gone # {} /\ active' = (CHOOSE b \in gone : TRUE)
               /\ body' = [body EXCEPT ![active'] = r]
      <4>1. active' \in Bodies /\ body[active'].pc = "none"
        BY <3>2
      <4>2. r.at = NoAlert /\ r.step = "none"
        BY DEF NoRun
      <4>3. body[active'].at = NoAlert /\ body[active'].step = "none"
        BY <1>0, <4>1 DEF Runs, ActiveAlone, RunRecord
      <4> HIDE DEF r
      <4> QED
        BY <1>0, <3>2, <4>1, <4>2, <4>3 DEF Fades, Runs
    <3> QED
      BY <1>4, <3>1, <3>2 DEF RunNow
  <2> QED
    BY <2>1, <2>2, <2>3, CalmKeepsLane DEF Calm
<1> QED
  BY <1>1, <1>2, <1>3, <1>4

LEMMA FailureKeepsLane ==
    ASSUME ChecksTypeOK, Lane, NEW b \in Bodies, NEW h, BodyFails(b, h),
           h \in [sent : [Alerts -> 0..2], cut : SUBSET Alerts, silent : SUBSET Alerts,
                  exhausted : BOOLEAN, unqueued : BOOLEAN],
           h.sent = history.sent, history.cut \subseteq h.cut,
           body[b].step = "write" => body[b].at \in h.cut,
           UNCHANGED <<combined, row, resolving>>
    PROVE  Lane'
<1>1. history'.sent = history.sent /\ history'.cut = h.cut
  BY BodyFailsKeeps, Parts
<1>2. \A c \in Bodies : Fades(c)
  BY <1>1 DEF BodyFails, Fades, NoRun, ChecksTypeOK
<1> QED
  BY <1>1, <1>2, CalmKeepsLane DEF Calm

LEMMA BodyKeepsLane ==
    ASSUME ChecksTypeOK, Lane, NEW b \in Bodies, BodyStep(b)
    PROVE  Lane'
<1> USE ChecksConstants
<1>0. /\ HistoryTyped
      /\ \A c \in Bodies : body[c] \in RunRecord
      /\ body[b].step # "none" <=> body[b].at # NoAlert
  BY Parts DEF Runs, ActiveAlone
<1>1. UNCHANGED <<combined, resolving>>
  BY DEF BodyStep, FlushNext, Suppress, Check, RecordNext, Deliver, WriteDelivered, Finish,
         InBody
<1>2. body[b].at \in Alerts \cup {NoAlert}
  BY <1>0 DEF RunRecord
<1>3. ASSUME NEW a \in Alerts, Skips(b, a), UNCHANGED <<history>>,
             \A d \in Alerts : \/ row'[d] = row[d]
                               \/ row[d] = "none" /\ row'[d] \in {"pending", "suppressed"}
      PROVE  Lane'
  <2>1. \A c \in Bodies : Fades(c)
    BY <1>0, <1>3 DEF Skips, Fades, ChecksTypeOK, RunRecord
  <2> QED
    BY <1>1, <1>3, <2>1, CalmKeepsLane DEF Calm
<1>4. CASE FlushNext(b)
  <2>1. PICK a \in body[b].todo :
          /\ Unlocked(b, a)
          /\ IF Flushes(b, a) THEN Takes(b, a, IF body[b].deliver THEN "deliver" ELSE "suppress")
             ELSE Skips(b, a)
    BY <1>4 DEF FlushNext
  <2>2. a \in Alerts /\ body[b].at = NoAlert /\ UNCHANGED <<row, history>>
    BY <1>0, <1>4 DEF FlushNext, Idle, RunRecord
  <2>3. CASE Flushes(b, a)
    <3>1. row[a] \notin {"delivered", "resolved"}
      BY <2>3 DEF Flushes
    <3>2. PICK step \in {"suppress", "deliver"} : Takes(b, a, step)
      BY <2>1, <2>3
    <3> QED
      BY <1>1, <2>1, <2>2, <3>1, <3>2, TakesKeepsLane
  <2>4. CASE ~Flushes(b, a)
    BY <1>3, <2>1, <2>2, <2>4
  <2> QED
    BY <2>3, <2>4
<1>5. CASE Suppress(b)
  BY <1>0, <1>1, <1>2, <1>5, RowKeepsLane DEF Suppress
<1>6. CASE Check(b)
  <2>1. UNCHANGED row /\ body[b].step = "none"
    BY <1>0, <1>6 DEF Check, Idle
  <2>2. CASE BodyFails(b, history)
    BY <1>0, <1>1, <2>1, <2>2, FailureKeepsLane DEF HistoryTyped
  <2>3. CASE ~BodyFails(b, history)
    <3>1. PICK found \in SUBSET Alerts :
            body' = [body EXCEPT ![b].pc = "record", ![b].todo = found,
                                 ![b].seen = @ \cup found]
      BY <1>6, <2>3 DEF Check
    <3>2. \A c \in Bodies : Fades(c)
      BY <1>0, <3>1 DEF Fades, ChecksTypeOK, RunRecord
    <3>3. UNCHANGED history
      BY <1>6, <2>3 DEF Check
    <3> QED
      BY <1>1, <2>1, <3>2, <3>3, CalmKeepsLane DEF Calm
  <2> QED
    BY <2>2, <2>3
<1>7. CASE RecordNext(b)
  <2>0. body[b].step = "none" /\ body[b].at = NoAlert
    BY <1>0, <1>7 DEF RecordNext, Idle
  <2>1. CASE body[b].aborted
    BY <1>0, <1>1, <1>7, <2>0, <2>1, FailureKeepsLane DEF RecordNext, HistoryTyped
  <2>2. CASE ~body[b].aborted
    <3>1. PICK a \in body[b].todo :
            /\ Unlocked(b, a)
            /\ row' = IF row[a] # "none" THEN row
                      ELSE [row EXCEPT ![a] = IF body[b].deliver THEN "pending"
                                              ELSE "suppressed"]
            /\ IF body[b].deliver /\ row[a] \notin {"delivered", "resolved"}
               THEN Takes(b, a, "deliver") ELSE Skips(b, a)
      BY <1>7, <2>2 DEF RecordNext
    <3>2. a \in Alerts /\ UNCHANGED history
      BY <1>0, <1>7, <2>2 DEF RecordNext, RunRecord
    <3>3. /\ \A d \in Alerts \ {a} : row'[d] = row[d]
          /\ \/ row'[a] = row[a]
             \/ row[a] = "none" /\ row'[a] \in {"pending", "suppressed"}
      BY <3>1, <3>2 DEF ChecksTypeOK
    <3>4. CASE body[b].deliver /\ row[a] \notin {"delivered", "resolved"}
      BY <1>1, <2>0, <3>1, <3>2, <3>3, <3>4, TakesKeepsLane
    <3>5. CASE ~(body[b].deliver /\ row[a] \notin {"delivered", "resolved"})
      BY <1>3, <3>1, <3>2, <3>3, <3>5
    <3> QED
      BY <3>4, <3>5
  <2> QED
    BY <2>1, <2>2
<1>8. CASE Deliver(b)
  <2>0. body[b].step = "deliver" /\ body[b].at \in Alerts /\ UNCHANGED row
    BY <1>0, <1>2, <1>8 DEF Deliver
  <2>1. CASE /\ history' = [history EXCEPT !.sent[body[b].at] = IF @ < 2 THEN @ + 1 ELSE @,
                                           !.silent = @ \ {body[b].at}]
             /\ body' = [body EXCEPT ![b].step = "write"]
    BY <1>1, <2>0, <2>1, SendKeepsLane
  <2>2. CASE history' = [history EXCEPT !.silent = @ \cup {body[b].at}] /\ Leaves(b)
    <3>1. history'.sent = history.sent /\ history'.cut = history.cut
      BY <1>0, <2>2 DEF HistoryTyped
    <3>2. \A c \in Bodies : Fades(c)
      BY <1>0, <2>0, <2>2 DEF Leaves, Fades, ChecksTypeOK, RunRecord
    <3> QED
      BY <1>1, <2>0, <3>1, <3>2, CalmKeepsLane DEF Calm
  <2>3. CASE BodyFails(b, history)
    BY <1>0, <1>1, <2>0, <2>3, FailureKeepsLane DEF HistoryTyped
  <2> QED
    BY <1>8, <2>1, <2>2, <2>3 DEF Deliver
<1>9. CASE WriteDelivered(b)
  <2>0. body[b].step = "write" /\ body[b].at \in Alerts
    BY <1>0, <1>2, <1>9 DEF WriteDelivered
  <2>1. CASE /\ row' = [row EXCEPT ![body[b].at] = "delivered"]
             /\ Leaves(b) /\ UNCHANGED history
    BY <1>1, <2>0, <2>1, RowKeepsLane
  <2> DEFINE h == [history EXCEPT !.cut = @ \cup {body[b].at}]
  <2>2. CASE BodyFails(b, h) /\ UNCHANGED row
    <3>1. h \in [sent : [Alerts -> 0..2], cut : SUBSET Alerts, silent : SUBSET Alerts,
                 exhausted : BOOLEAN, unqueued : BOOLEAN]
          /\ h.sent = history.sent /\ h.cut = history.cut \cup {body[b].at}
      BY <1>0, <2>0 DEF HistoryTyped
    <3> HIDE DEF h
    <3> QED
      BY <1>1, <2>2, <3>1, FailureKeepsLane
  <2> QED
    BY <1>9, <2>1, <2>2 DEF WriteDelivered
<1>10. CASE Finish(b)
  <2>1. \A c \in Bodies : Fades(c)
    <3>1. body[b].step = "none" /\ body[b].at = NoAlert /\ body' = [body EXCEPT ![b] = NoRun]
      BY <1>0, <1>10 DEF Finish, Idle
    <3> QED
      BY <3>1 DEF Fades, NoRun, ChecksTypeOK
  <2>2. UNCHANGED <<row, history>>
    BY <1>10 DEF Finish
  <2> QED
    BY <1>1, <2>1, <2>2, CalmKeepsLane DEF Calm
<1> QED
  BY <1>4, <1>5, <1>6, <1>7, <1>8, <1>9, <1>10 DEF BodyStep

LEMMA LaneKept == ChecksSpec => [](ChecksTypeOK /\ Lane)
<1>1. ChecksInit => Lane
  <2> SUFFICES ASSUME ChecksInit PROVE Lane
    OBVIOUS
  <2>1. \A b \in Bodies : body[b].at = NoAlert /\ body[b].step = "none"
    BY DEF ChecksInit, NoRun
  <2>2. \A a \in Alerts : history.sent[a] = 0
    BY DEF ChecksInit
  <2> QED
    BY <2>1, <2>2, ChecksConstants DEF Lane
<1>2. ChecksTypeOK /\ Lane /\ [ChecksNext]_cvars => Lane'
  <2> SUFFICES ASSUME ChecksTypeOK, Lane, [ChecksNext]_cvars PROVE Lane'
    OBVIOUS
  <2>1. CASE UNCHANGED cvars
    BY <2>1, CalmKeepsLane DEF cvars, runs, Calm, Fades
  <2>2. CASE ChecksNext
    BY <2>2, OutsideKeepsLane, BodyKeepsLane, ResolveKeepsLane DEF ChecksNext, Scheduling
  <2> QED
    BY <2>1, <2>2
<1> QED
  BY <1>1, <1>2, ChecksTypeCorrect, PTL DEF ChecksSpec

\* However jobs are retried, plugins reloaded over running bodies and alerts resolved
\* from another process, an alert is sent once, but for a row lost after sending.
THEOREM AlertsDeliveredOnce == ChecksSpec => []DeliveredOnce
<1>1. ChecksTypeOK /\ Lane => DeliveredOnce
  BY DEF Lane, DeliveredOnce
<1> QED
  BY <1>1, LaneKept, PTL

\* In a combined process no step takes a resolved alert out of that state.
THEOREM ResolutionHolds == ChecksSpec => ResolvedInOneProcess
<1> DEFINE Kept == combined => \A a \in Alerts : row[a] = "resolved" => row'[a] = "resolved"
<1>1. ChecksTypeOK /\ Lane /\ [ChecksNext]_cvars => [Kept]_cvars
  <2> SUFFICES ASSUME ChecksTypeOK, Lane, ChecksNext, combined,
                      NEW a \in Alerts, row[a] = "resolved"
               PROVE  row'[a] = "resolved"
    OBVIOUS
  <2>1. row \in [Alerts -> {"none", "pending", "suppressed", "delivered", "resolved"}]
    BY DEF ChecksTypeOK
  <2>2. ASSUME NEW b \in Bodies, BodyStep(b) PROVE row'[a] = "resolved"
    <3>0. body[b].at \in Alerts => body[b].at # a
      BY DEF Lane
    <3>1. body[b].step # "none" => body[b].at \in Alerts
      BY DEF ChecksTypeOK, RunRecord
    <3>2. CASE Suppress(b) \/ WriteDelivered(b)
      BY <2>1, <3>0, <3>1, <3>2 DEF Suppress, WriteDelivered
    <3>3. CASE RecordNext(b)
      BY <2>1, <3>3 DEF RecordNext
    <3>4. CASE FlushNext(b) \/ Check(b) \/ Deliver(b) \/ Finish(b)
      BY <3>4 DEF FlushNext, Check, Deliver, Finish
    <3> QED
      BY <2>2, <3>2, <3>3, <3>4 DEF BodyStep
  <2>3. CASE ResolveWrites
    BY <2>1, <2>3 DEF ResolveWrites
  <2>4. CASE Scheduling \/ Unregister \/ StopChecks \/ WebDies \/ WorkerDies
    BY <2>4 DEF Scheduling, Occurs, WebStarts, CatchUpReads, CatchUpEnqueues, CatchUpFails,
                Register, Unregister, StopChecks, WebDies, WorkerDies
  <2>5. ASSUME NEW j \in Jobs, RunNow(j) PROVE row'[a] = "resolved"
    BY <2>5 DEF RunNow
  <2>6. ASSUME NEW d \in Alerts, ResolveReads(d) PROVE row'[a] = "resolved"
    BY <2>6 DEF ResolveReads
  <2> QED
    BY <2>2, <2>3, <2>4, <2>5, <2>6 DEF ChecksNext, Scheduling
<1> QED
  BY <1>1, LaneKept, PTL DEF ChecksSpec, ResolvedInOneProcess

-----------------------------------------------------------------------------
(* What a run that delivers has been through is answered.                   *)

\* An alert met no channel or was cut short; or it was sent and its row is about to be
\* written; or its row counts as handled and no body is about to change that.
Answered(a) ==
    \/ a \in history.silent \cup history.cut
    \/ \E c \in Bodies : body[c].at = a /\ body[c].step = "write"
    \/ /\ row[a] \in {"delivered", "resolved"}
       /\ \A c \in Bodies : body[c].at = a => body[c].step = "write"

Seen(r) ==
    /\ r.pc = "flush" => r.todo \subseteq r.seen /\ r.seen \subseteq Stored
    /\ r.at # NoAlert => r.at \in Stored
    /\ r.step = "suppress" => ~r.deliver

Handles ==
    /\ \A b \in Bodies : body[b].deliver =>
          \A a \in body[b].seen \ body[b].todo : Answered(a)
    /\ \A b \in Bodies : Seen(body[b])
    /\ history.silent \cup history.cut \subseteq Stored

\* What every action must show of the alerts: an answer stays one.
Answers ==
    /\ \A a \in Alerts : Answered(a) => Answered(a)'
    /\ Stored \subseteq Stored'

ChecksInv == ChecksTypeOK /\ Lane /\ Handles

LEMMA CalmAnswers ==
    ASSUME ChecksInv,
           \A a \in Alerts : \/ row'[a] = row[a]
                             \/ row[a] = "none" /\ row'[a] \in {"pending", "suppressed"},
           history.silent \cup history.cut \subseteq history'.silent \cup history'.cut,
           \A b \in Bodies : Fades(b)
    PROVE  Answers
<1>1. Stored \subseteq Stored'
  BY DEF Stored
<1>2. ASSUME NEW a \in Alerts, Answered(a) PROVE Answered(a)'
  <2>1. CASE a \in history.silent \cup history.cut
    BY <2>1 DEF Answered
  <2>2. ASSUME NEW c \in Bodies, body[c].at = a, body[c].step = "write" PROVE Answered(a)'
    <3>1. CASE body'[c].at = body[c].at /\ body'[c].step = body[c].step
      BY <2>2, <3>1 DEF Answered
    <3>2. CASE body[c].at \in history'.cut
      BY <2>2, <3>2 DEF Answered
    <3> QED
      BY <2>2, <3>1, <3>2 DEF Fades
  <2>3. CASE /\ row[a] \in {"delivered", "resolved"}
             /\ \A c \in Bodies : body[c].at = a => body[c].step = "write"
    <3>1. row'[a] = row[a]
      BY <2>3
    <3>2. \A c \in Bodies : body'[c].at = a => body'[c].step = "write"
      BY <2>3, ChecksConstants DEF Fades
    <3> QED
      BY <2>3, <3>1, <3>2 DEF Answered
  <2> QED
    BY <1>2, <2>1, <2>2, <2>3 DEF Answered
<1> QED
  BY <1>1, <1>2 DEF Answers

LEMMA TakesAnswers ==
    ASSUME ChecksInv, NEW b \in Bodies, NEW a \in Alerts, body[b].at = NoAlert,
           NEW step \in {"suppress", "deliver"},
           Takes(b, a, step), Unlocked(b, a), row[a] \notin {"delivered", "resolved"},
           UNCHANGED history,
           \A d \in Alerts : \/ row'[d] = row[d]
                             \/ row[d] = "none" /\ row'[d] \in {"pending", "suppressed"}
    PROVE  Answers
<1>0. \A c \in Bodies : body[c] \in RunRecord
  BY DEF ChecksInv, ChecksTypeOK
<1>1. /\ body'[b].at = a /\ body'[b].step = step
      /\ \A c \in Bodies \ {b} : body'[c] = body[c]
  BY <1>0 DEF Takes, ChecksInv, ChecksTypeOK, RunRecord
<1>2. \A c \in Bodies : body[c].at # a
  BY DEF Unlocked
<1>3. Stored \subseteq Stored'
  BY DEF Stored
<1>4. ASSUME NEW d \in Alerts, Answered(d) PROVE Answered(d)'
  <2>1. CASE d = a
    BY <1>2, <1>4, <2>1 DEF Answered
  <2>2. CASE d # a
    <3>1. \A c \in Bodies : body[c].at = d <=> body'[c].at = d
      BY <1>1, <2>2, ChecksConstants
    <3>2. \A c \in Bodies : body[c].at = d => body'[c].step = body[c].step
      BY <1>1, ChecksConstants
    <3>3. row[d] \in {"delivered", "resolved"} => row'[d] = row[d]
      OBVIOUS
    <3> QED
      BY <1>4, <3>1, <3>2, <3>3 DEF Answered
  <2> QED
    BY <2>1, <2>2
<1> QED
  BY <1>3, <1>4 DEF Answers

\* A body that suppresses finds an answered alert among those that were not sent.
LEMMA RowAnswers ==
    ASSUME ChecksInv, NEW b \in Bodies, body[b].at \in Alerts,
           NEW status \in {"suppressed", "delivered"},
           status = "suppressed" => body[b].step = "suppress",
           row' = [row EXCEPT ![body[b].at] = status], Leaves(b), UNCHANGED history
    PROVE  /\ Answers
           /\ \A d \in Alerts : d = body[b].at /\ status = "delivered" => Answered(d)'
<1>0. /\ \A c \in Bodies : body[c] \in RunRecord
      /\ row \in [Alerts -> {"none", "pending", "suppressed", "delivered", "resolved"}]
  BY DEF ChecksInv, ChecksTypeOK
<1>1. /\ body'[b].at = NoAlert /\ body'[b].step = "none"
      /\ \A c \in Bodies \ {b} : body'[c] = body[c]
  BY <1>0 DEF Leaves, ChecksInv, ChecksTypeOK, RunRecord
<1>2. /\ row'[body[b].at] = status
      /\ \A a \in Alerts : a # body[b].at => row'[a] = row[a]
  BY <1>0
<1>3. \A c \in Bodies \ {b} : body[c].at # body[b].at
  BY DEF ChecksInv, Lane
<1>4. Stored \subseteq Stored'
  BY <1>2 DEF Stored
<1>5. \A c \in Bodies : body'[c].at # body[b].at
  BY <1>1, <1>3, ChecksConstants
<1>6. \A d \in Alerts : d = body[b].at /\ status = "delivered" => Answered(d)'
  BY <1>2, <1>5 DEF Answered
<1>7. ASSUME NEW d \in Alerts, Answered(d) PROVE Answered(d)'
  <2>1. CASE d = body[b].at /\ status = "suppressed"
    <3>1. d \in history.silent \cup history.cut
      BY <1>3, <1>7, <2>1 DEF Answered
    <3> QED
      BY <3>1 DEF Answered
  <2>2. CASE d = body[b].at /\ status = "delivered"
    BY <1>6, <2>2
  <2>3. CASE d # body[b].at
    <3>1. \A c \in Bodies : body[c].at = d <=> body'[c].at = d
      BY <1>1, <2>3, ChecksConstants
    <3>2. \A c \in Bodies : body[c].at = d => body'[c].step = body[c].step
      BY <1>1, <2>3
    <3> QED
      BY <1>2, <1>7, <2>3, <3>1, <3>2 DEF Answered
  <2> QED
    BY <2>1, <2>2, <2>3
<1> QED
  BY <1>4, <1>6, <1>7 DEF Answers

LEMMA SendAnswers ==
    ASSUME ChecksInv, NEW b \in Bodies, body[b].step = "deliver", body[b].at \in Alerts,
           history'.silent = history.silent \ {body[b].at}, history'.cut = history.cut,
           body' = [body EXCEPT ![b].step = "write"], UNCHANGED row
    PROVE  Answers
<1>0. \A c \in Bodies : body[c] \in RunRecord
  BY DEF ChecksInv, ChecksTypeOK
<1>1. /\ body'[b].at = body[b].at /\ body'[b].step = "write"
      /\ \A c \in Bodies \ {b} : body'[c] = body[c]
  BY <1>0 DEF ChecksInv, ChecksTypeOK, RunRecord
<1>2. ASSUME NEW d \in Alerts, Answered(d) PROVE Answered(d)'
  <2>1. CASE d = body[b].at
    BY <1>1, <2>1 DEF Answered
  <2>2. CASE d # body[b].at
    BY <1>1, <1>2, <2>2 DEF Answered
  <2> QED
    BY <2>1, <2>2
<1> QED
  BY <1>2 DEF Answers, Stored

\* A step that moves one body along keeps the invariant when the alerts' answers stay,
\* and what the body adds to what it has been through is answered.
LEMMA OneBodyHandles ==
    ASSUME ChecksInv, Answers, NEW b \in Bodies, NEW r \in RunRecord,
           body' = [body EXCEPT ![b] = r],
           r.deliver => \A a \in r.seen \ r.todo : Answered(a)',
           r.pc = "flush" => r.todo \subseteq r.seen /\ r.seen \subseteq Stored',
           r.at # NoAlert => r.at \in Stored', r.step = "suppress" => ~r.deliver,
           history'.silent \cup history'.cut \subseteq Stored'
    PROVE  Handles'
<1>0. /\ body \in [Bodies -> RunRecord]
      /\ \A c \in Bodies : body[c].seen \subseteq Alerts
  BY DEF ChecksInv, ChecksTypeOK, RunRecord
<1>1. body'[b] = r /\ \A c \in Bodies \ {b} : body'[c] = body[c]
  BY <1>0
<1>2. ASSUME NEW c \in Bodies, body'[c].deliver, NEW a \in body'[c].seen \ body'[c].todo
      PROVE  Answered(a)'
  <2>1. CASE c = b
    BY <1>1, <1>2, <2>1
  <2>2. CASE c # b
    BY <1>0, <1>1, <1>2, <2>2 DEF ChecksInv, Handles, Answers
  <2> QED
    BY <2>1, <2>2
<1>3. ASSUME NEW c \in Bodies PROVE Seen(body[c])'
  <2>1. CASE c = b
    BY <1>1, <2>1 DEF Seen
  <2>2. CASE c # b
    BY <1>1, <2>2 DEF Seen, ChecksInv, Handles, Answers
  <2> QED
    BY <2>1, <2>2
<1> QED
  BY <1>2, <1>3 DEF Handles

LEMMA ResolveHandles ==
    ASSUME ChecksInv, ResolveWrites \/ \E a \in Alerts : ResolveReads(a)
    PROVE  Handles'
<1>1. row \in [Alerts -> {"none", "pending", "suppressed", "delivered", "resolved"}]
  BY DEF ChecksInv, ChecksTypeOK
<1>2. UNCHANGED <<body, history>>
  BY DEF ResolveReads, ResolveWrites, runs
<1>3. \A a \in Alerts : row'[a] = row[a] \/ row'[a] = "resolved"
  BY <1>1 DEF ResolveReads, ResolveWrites
<1>4. \A a \in Alerts : Answered(a) => Answered(a)'
  BY <1>2, <1>3 DEF Answered
<1>5. Stored \subseteq Stored'
  BY <1>3 DEF Stored
<1>6. \A b \in Bodies : body[b].seen \subseteq Alerts
  BY DEF ChecksInv, ChecksTypeOK, RunRecord
<1> QED
  BY <1>2, <1>4, <1>5, <1>6 DEF ChecksInv, Handles, Seen

\* The bodies stay where they are, or all go.
LEMMA IdleHandles ==
    ASSUME ChecksInv, UNCHANGED row,
           history'.silent = history.silent, history'.cut = history.cut,
           \A b \in Bodies : /\ body'[b].at = body[b].at /\ body'[b].step = body[b].step
                             /\ body'[b].pc = body[b].pc /\ body'[b].deliver = body[b].deliver
                             /\ body'[b].seen = body[b].seen /\ body'[b].todo = body[b].todo
    PROVE  Handles'
<1>1. Answers
  BY CalmAnswers DEF Fades
<1>2. \A b \in Bodies : body[b].seen \subseteq Alerts
  BY DEF ChecksInv, ChecksTypeOK, RunRecord
<1> QED
  BY <1>1, <1>2 DEF ChecksInv, Handles, Answers, Seen, Stored

LEMMA OutsideHandles ==
    ASSUME ChecksInv,
           \/ Scheduling \/ Unregister \/ StopChecks \/ WebDies \/ WorkerDies
    PROVE  Handles'
<1>0. /\ Runs /\ HistoryTyped /\ JobsTyped /\ ChecksTypeOK
      /\ \A b \in Bodies : body[b] \in RunRecord
  BY Parts DEF ChecksInv, Runs, ActiveAlone
<1>1. CASE Scheduling
  <2>1. UNCHANGED <<row, body>> /\ history'.silent = history.silent
        /\ history'.cut = history.cut
    BY <1>0, <1>1, SchedulingKeeps
  <2> QED
    BY <2>1, IdleHandles
<1>2. CASE Unregister \/ StopChecks \/ WebDies
  <2>1. UNCHANGED row /\ (Abort \/ UNCHANGED <<runs, history>>)
    BY <1>2 DEF Unregister, StopChecks, WebDies, WebLost
  <2>2. CASE UNCHANGED <<runs, history>>
    BY <2>1, <2>2, IdleHandles DEF runs
  <2>3. CASE Abort /\ active = NoBody
    BY <2>1, <2>3, IdleHandles DEF Abort
  <2>4. CASE Abort /\ active # NoBody
    <3>1. body[active].job \in Jobs /\ Failed({body[active].job}, history)
      BY <1>0, <2>4 DEF Abort, Runs, ActiveAlone
    <3>2. history'.silent = history.silent /\ history'.cut = history.cut
      BY <1>0, <3>1, FailedTyped DEF HistoryTyped
    <3>3. body' = [body EXCEPT ![active].aborted = TRUE]
      BY <2>4 DEF Abort
    <3>4. \A b \in Bodies :
             /\ body'[b].at = body[b].at /\ body'[b].step = body[b].step
             /\ body'[b].pc = body[b].pc /\ body'[b].deliver = body[b].deliver
             /\ body'[b].seen = body[b].seen /\ body'[b].todo = body[b].todo
      BY <1>0, <3>3 DEF Runs, RunRecord
    <3> QED
      BY <2>1, <3>2, <3>4, IdleHandles
  <2> QED
    BY <2>1, <2>2, <2>3, <2>4
<1>3. CASE WorkerDies
  <2> DEFINE lost == {body[b].at : b \in {c \in Bodies : body[c].step = "write"}}
             h == [history EXCEPT !.cut = @ \cup lost]
             J == {j \in Jobs : jobs[j].status = "running"}
  <2>1. h \in [sent : [Alerts -> 0..2], cut : SUBSET Alerts, silent : SUBSET Alerts,
               exhausted : BOOLEAN, unqueued : BOOLEAN]
        /\ h.silent = history.silent /\ h.cut = history.cut \cup lost
    <3>1. lost \subseteq Alerts
      BY <1>0 DEF Runs, ActiveAlone, RunRecord
    <3> HIDE DEF lost
    <3> QED
      BY <1>0, <3>1 DEF HistoryTyped
  <2>2. Failed(J, h)
    BY <1>3 DEF WorkerDies
  <2>3. history'.silent = history.silent /\ history'.cut = history.cut \cup lost
    <3> HIDE DEF h, lost
    <3> QED
      BY <1>0, <2>1, <2>2, FailedTyped
  <2>4. UNCHANGED row /\ body' = [b \in Bodies |-> NoRun]
    BY <1>3 DEF WorkerDies
  <2>5. lost \subseteq Stored
    BY <1>0, ChecksConstants DEF ChecksInv, Handles, Seen, Runs, ActiveAlone
  <2>6. history'.silent \cup history'.cut \subseteq Stored'
    <3> HIDE DEF lost
    <3> QED
      BY <2>3, <2>4, <2>5 DEF ChecksInv, Handles, Stored
  <2>7. \A b \in Bodies : body'[b] = NoRun
    BY <2>4
  <2> QED
    BY <2>6, <2>7 DEF Handles, Seen, NoRun
<1> QED
  BY <1>1, <1>2, <1>3

LEMMA RunNowHandles ==
    ASSUME ChecksInv, NEW j \in Jobs, RunNow(j)
    PROVE  Handles'
<1>0. /\ Runs /\ HistoryTyped /\ JobsTyped /\ ChecksTypeOK
      /\ \A b \in Bodies : body[b] \in RunRecord /\ (body[b].pc = "none" => body[b].at = NoAlert)
  BY Parts DEF ChecksInv, Runs, ActiveAlone
<1>1. UNCHANGED row
  BY DEF RunNow
<1>2. CASE Failed({j}, history) /\ UNCHANGED <<active, body>>
  <2>1. history'.silent = history.silent /\ history'.cut = history.cut
    BY <1>0, <1>2, FailedTyped DEF HistoryTyped
  <2> QED
    BY <1>1, <1>2, <2>1, IdleHandles
<1>3. CASE UNCHANGED <<active, body, history>>
  BY <1>1, <1>3, IdleHandles
<1> DEFINE gone == {b \in Bodies : body[b].pc = "none"}
           r == [NoRun EXCEPT !.pc = "flush", !.job = j, !.deliver = worker.deliver,
                              !.todo = Stored, !.seen = Stored]
<1>4. CASE /\ gone # {} /\ active' = (CHOOSE b \in gone : TRUE)
           /\ body' = [body EXCEPT ![active'] = r] /\ UNCHANGED history
  <2>1. active' \in Bodies /\ body[active'].pc = "none"
    BY <1>4
  <2>2. r \in RunRecord /\ r.at = NoAlert /\ r.step = "none" /\ r.seen = Stored /\ r.todo = Stored
    BY <1>0 DEF NoRun, RunRecord, Stored, ChecksTypeOK
  <2> HIDE DEF r
  <2>3. \A b \in Bodies : Fades(b)
    <3>1. body[active'].at = NoAlert /\ body[active'].step = "none"
      BY <1>0, <2>1 DEF Runs, ActiveAlone, RunRecord
    <3> QED
      BY <1>0, <1>4, <2>1, <2>2, <3>1 DEF Fades, Runs
  <2>4. Answers
    BY <1>1, <1>4, <2>3, CalmAnswers
  <2>5. Stored' = Stored
    BY <1>1 DEF Stored
  <2>6. history'.silent \cup history'.cut \subseteq Stored'
    BY <1>4, <2>5 DEF ChecksInv, Handles
  <2> QED
    BY <1>4, <2>1, <2>2, <2>4, <2>5, <2>6, OneBodyHandles
<1> QED
  BY <1>2, <1>3, <1>4 DEF RunNow

\* A body that ends drops what it has been through.
LEMMA DropHandles ==
    ASSUME ChecksInv, Answers, NEW b \in Bodies, body' = [body EXCEPT ![b] = NoRun],
           history'.silent \cup history'.cut \subseteq Stored'
    PROVE  Handles'
<1>1. /\ NoRun \in RunRecord /\ NoRun.pc = "none" /\ NoRun.at = NoAlert
      /\ NoRun.seen = {} /\ NoRun.step = "none"
  BY DEF NoRun, RunRecord
<1> QED
  BY <1>1, OneBodyHandles

LEMMA FailureHandles ==
    ASSUME ChecksInv, NEW b \in Bodies, NEW h, BodyFails(b, h),
           h \in [sent : [Alerts -> 0..2], cut : SUBSET Alerts, silent : SUBSET Alerts,
                  exhausted : BOOLEAN, unqueued : BOOLEAN],
           h.silent = history.silent, history.cut \subseteq h.cut, h.cut \subseteq Stored,
           body[b].step = "write" => body[b].at \in h.cut, UNCHANGED row
    PROVE  Handles'
<1>1. history'.silent = h.silent /\ history'.cut = h.cut
  BY BodyFailsKeeps, Parts DEF ChecksInv
<1>2. \A c \in Bodies : Fades(c)
  BY <1>1 DEF BodyFails, Fades, NoRun, ChecksInv, ChecksTypeOK
<1>3. Answers
  BY <1>1, <1>2, CalmAnswers
<1>4. history'.silent \cup history'.cut \subseteq Stored'
  BY <1>1 DEF ChecksInv, Handles, Stored
<1> QED
  BY <1>3, <1>4, DropHandles DEF BodyFails

\* A body passes over an alert whose row counts as handled.
LEMMA SkipsHandles ==
    ASSUME ChecksInv, NEW b \in Bodies, NEW a \in Alerts, Skips(b, a), UNCHANGED history,
           body[b].at = NoAlert, Unlocked(b, a),
           body[b].deliver => row[a] \in {"delivered", "resolved"},
           \A d \in Alerts : \/ row'[d] = row[d]
                             \/ row[d] = "none" /\ row'[d] \in {"pending", "suppressed"}
    PROVE  Handles'
<1>0. /\ \A c \in Bodies : body[c] \in RunRecord /\ Seen(body[c])
      /\ body \in [Bodies -> RunRecord]
  BY DEF ChecksInv, ChecksTypeOK, Handles
<1> DEFINE r == Skipped(body[b], a)
<1>1. /\ r \in RunRecord /\ r.deliver = body[b].deliver /\ r.seen = body[b].seen
      /\ r.todo = body[b].todo \ {a} /\ r.pc = body[b].pc /\ r.at = NoAlert
      /\ r.step = body[b].step
  BY <1>0, SkippedRun DEF SameRun
<1>2. body' = [body EXCEPT ![b] = r]
  BY <1>0 DEF Skipped, Skips, RunRecord
<1>3. \A c \in Bodies : Fades(c)
  BY <1>0 DEF Skips, Fades, RunRecord
<1> HIDE DEF r
<1>4. Answers
  BY <1>3, CalmAnswers
<1>5. body[b].deliver => Answered(a)
  BY DEF Answered, Unlocked
<1>6. body[b].seen \subseteq Alerts
  BY <1>0 DEF RunRecord
<1>7. r.deliver => \A d \in r.seen \ r.todo : Answered(d)'
  BY <1>1, <1>4, <1>5, <1>6 DEF ChecksInv, Handles, Answers
<1>8. /\ r.step = "suppress" => ~r.deliver
      /\ r.pc = "flush" => r.todo \subseteq r.seen /\ r.seen \subseteq Stored'
      /\ history'.silent \cup history'.cut \subseteq Stored'
  BY <1>0, <1>1, <1>4 DEF Seen, Answers, ChecksInv, Handles
<1> QED
  BY <1>1, <1>2, <1>4, <1>7, <1>8, OneBodyHandles

LEMMA TakesHandles ==
    ASSUME ChecksInv, NEW b \in Bodies, NEW a \in Alerts, body[b].at = NoAlert,
           NEW step \in {"suppress", "deliver"}, step = "suppress" => ~body[b].deliver,
           Takes(b, a, step), Unlocked(b, a), row[a] \notin {"delivered", "resolved"},
           UNCHANGED history, row'[a] # "none",
           \A d \in Alerts : \/ row'[d] = row[d]
                             \/ row[d] = "none" /\ row'[d] \in {"pending", "suppressed"}
    PROVE  Handles'
<1>0. /\ body \in [Bodies -> RunRecord] /\ Seen(body[b]) /\ body[b].seen \subseteq Alerts
  BY DEF ChecksInv, ChecksTypeOK, Handles, RunRecord
<1> DEFINE r == Taken(body[b], a, step)
<1>1. /\ r \in RunRecord /\ r.deliver = body[b].deliver /\ r.seen = body[b].seen
      /\ r.todo = body[b].todo /\ r.pc = body[b].pc /\ r.at = a /\ r.step = step
  BY <1>0, TakenRun DEF SameRun
<1>2. body' = [body EXCEPT ![b] = r]
  BY <1>0 DEF Taken, Takes, RunRecord
<1> HIDE DEF r
<1>3. Answers
  BY TakesAnswers
<1>4. r.deliver => \A d \in r.seen \ r.todo : Answered(d)'
  BY <1>0, <1>1, <1>3 DEF ChecksInv, Handles, Answers
<1>5. /\ r.pc = "flush" => r.todo \subseteq r.seen /\ r.seen \subseteq Stored'
      /\ r.at \in Stored'
      /\ history'.silent \cup history'.cut \subseteq Stored'
  BY <1>0, <1>1, <1>3 DEF Seen, Answers, ChecksInv, Handles, Stored
<1> QED
  BY <1>1, <1>2, <1>3, <1>4, <1>5, OneBodyHandles

\* A body leaves an alert answered.
LEMMA LeavesHandles ==
    ASSUME ChecksInv, Answers, NEW b \in Bodies, body[b].at \in Alerts, Leaves(b),
           body[b].deliver => \A d \in Alerts : d = body[b].at => Answered(d)',
           history'.silent \cup history'.cut \subseteq Stored'
    PROVE  Handles'
<1>0. /\ body \in [Bodies -> RunRecord] /\ Seen(body[b]) /\ body[b].seen \subseteq Alerts
  BY DEF ChecksInv, ChecksTypeOK, Handles, RunRecord
<1> DEFINE r == Left(body[b])
<1>1. /\ r \in RunRecord /\ r.deliver = body[b].deliver /\ r.seen = body[b].seen
      /\ r.todo = body[b].todo \ {body[b].at} /\ r.pc = body[b].pc /\ r.at = NoAlert
      /\ r.step = "none"
  BY <1>0, LeftRun DEF SameRun
<1>2. body' = [body EXCEPT ![b] = r]
  BY <1>0 DEF Left, Leaves, RunRecord
<1> HIDE DEF r
<1>3. r.deliver => \A d \in r.seen \ r.todo : Answered(d)'
  BY <1>0, <1>1 DEF ChecksInv, Handles, Answers
<1>4. r.pc = "flush" => r.todo \subseteq r.seen /\ r.seen \subseteq Stored'
  BY <1>0, <1>1 DEF Seen, Answers
<1> QED
  BY <1>1, <1>2, <1>3, <1>4, OneBodyHandles

LEMMA BodyHandles ==
    ASSUME ChecksInv, NEW b \in Bodies, BodyStep(b)
    PROVE  Handles'
<1> USE ChecksConstants
<1>0. /\ HistoryTyped
      /\ \A c \in Bodies : body[c] \in RunRecord
      /\ body \in [Bodies -> RunRecord]
      /\ body[b].step # "none" <=> body[b].at # NoAlert
      /\ row \in [Alerts -> {"none", "pending", "suppressed", "delivered", "resolved"}]
  BY Parts DEF ChecksInv, Runs, Rest, ActiveAlone
<1>1. /\ body[b].at \in Alerts \cup {NoAlert} /\ body[b].todo \subseteq Alerts
      /\ body[b].seen \subseteq Alerts
  BY <1>0 DEF RunRecord
<1>2. /\ history.silent \cup history.cut \subseteq Stored
      /\ body[b].at # NoAlert => body[b].at \in Stored
      /\ body[b].pc = "flush" => body[b].todo \subseteq body[b].seen /\ body[b].seen \subseteq Stored
  BY DEF ChecksInv, Handles, Seen
<1>3. ASSUME BodyFails(b, history), body[b].step # "write", UNCHANGED row PROVE Handles'
  BY <1>0, <1>2, <1>3, FailureHandles DEF HistoryTyped
<1>4. CASE FlushNext(b)
  <2>1. PICK a \in body[b].todo :
          /\ Unlocked(b, a)
          /\ IF Flushes(b, a) THEN Takes(b, a, IF body[b].deliver THEN "deliver" ELSE "suppress")
             ELSE Skips(b, a)
    BY <1>4 DEF FlushNext
  <2>2. a \in Alerts /\ body[b].at = NoAlert /\ UNCHANGED <<row, history>> /\ row[a] # "none"
    BY <1>1, <1>2, <1>4 DEF FlushNext, Idle, Stored
  <2>3. CASE Flushes(b, a)
    <3>1. row[a] \notin {"delivered", "resolved"}
      BY <2>3 DEF Flushes
    <3>2. PICK step \in {"suppress", "deliver"} :
             Takes(b, a, step) /\ (step = "suppress" => ~body[b].deliver)
      BY <2>1, <2>3
    <3> QED
      BY <2>1, <2>2, <3>1, <3>2, TakesHandles
  <2>4. CASE ~Flushes(b, a)
    <3>1. body[b].deliver => row[a] \in {"delivered", "resolved"}
      BY <1>0, <2>2, <2>4 DEF Flushes
    <3> QED
      BY <2>1, <2>2, <2>4, <3>1, SkipsHandles
  <2> QED
    BY <2>3, <2>4
<1>5. CASE Suppress(b)
  <2>1. /\ body[b].step = "suppress" /\ body[b].at \in Alerts /\ UNCHANGED history
        /\ row' = [row EXCEPT ![body[b].at] = "suppressed"] /\ Leaves(b)
    BY <1>0, <1>1, <1>5 DEF Suppress
  <2>2. Answers
    BY <2>1, RowAnswers
  <2>3. ~body[b].deliver
    BY <2>1 DEF ChecksInv, Handles, Seen
  <2>4. history'.silent \cup history'.cut \subseteq Stored'
    BY <1>2, <2>1, <2>2 DEF Answers
  <2> QED
    BY <2>1, <2>2, <2>3, <2>4, LeavesHandles
<1>6. CASE Check(b)
  <2>1. UNCHANGED row /\ body[b].step = "none" /\ body[b].at = NoAlert /\ body[b].todo = {}
    BY <1>0, <1>6 DEF Check, Idle
  <2>2. CASE BodyFails(b, history)
    BY <1>3, <2>1, <2>2
  <2>3. CASE ~BodyFails(b, history)
    <3>1. PICK found \in SUBSET Alerts :
            body' = [body EXCEPT ![b].pc = "record", ![b].todo = found,
                                 ![b].seen = @ \cup found]
      BY <1>6, <2>3 DEF Check
    <3> DEFINE r == Checked(body[b], found)
    <3>2. /\ r \in RunRecord /\ r.pc = "record" /\ r.at = NoAlert /\ r.deliver = body[b].deliver
          /\ r.step = "none"
          /\ r.todo = found /\ r.seen = body[b].seen \cup found
      BY <1>0, <2>1, CheckedRun
    <3>3. body' = [body EXCEPT ![b] = r]
      BY <1>0, <3>1 DEF Checked, RunRecord
    <3>4. \A c \in Bodies : Fades(c)
      BY <1>0, <3>1 DEF Fades, RunRecord
    <3> HIDE DEF r
    <3>5. UNCHANGED history
      BY <1>6, <2>3 DEF Check
    <3>6. Answers
      BY <2>1, <3>4, <3>5, CalmAnswers
    <3>7. r.deliver => \A d \in r.seen \ r.todo : Answered(d)'
      BY <1>1, <2>1, <3>2, <3>6 DEF ChecksInv, Handles, Answers
    <3>8. history'.silent \cup history'.cut \subseteq Stored'
      BY <1>2, <3>5, <3>6 DEF Answers
    <3> QED
      BY <3>2, <3>3, <3>6, <3>7, <3>8, OneBodyHandles
  <2> QED
    BY <2>2, <2>3
<1>7. CASE RecordNext(b)
  <2>0. body[b].step = "none" /\ body[b].at = NoAlert
    BY <1>0, <1>7 DEF RecordNext, Idle
  <2>1. CASE body[b].aborted
    BY <1>3, <1>7, <2>0, <2>1 DEF RecordNext
  <2>2. CASE ~body[b].aborted
    <3>1. PICK a \in body[b].todo :
            /\ Unlocked(b, a)
            /\ row' = IF row[a] # "none" THEN row
                      ELSE [row EXCEPT ![a] = IF body[b].deliver THEN "pending"
                                              ELSE "suppressed"]
            /\ IF body[b].deliver /\ row[a] \notin {"delivered", "resolved"}
               THEN Takes(b, a, "deliver") ELSE Skips(b, a)
      BY <1>7, <2>2 DEF RecordNext
    <3>2. a \in Alerts /\ UNCHANGED history
      BY <1>1, <1>7, <2>2 DEF RecordNext
    <3>3. /\ \A d \in Alerts : \/ row'[d] = row[d]
                               \/ row[d] = "none" /\ row'[d] \in {"pending", "suppressed"}
          /\ row'[a] # "none"
      BY <1>0, <3>1, <3>2
    <3>4. CASE body[b].deliver /\ row[a] \notin {"delivered", "resolved"}
      BY <2>0, <3>1, <3>2, <3>3, <3>4, TakesHandles
    <3>5. CASE ~(body[b].deliver /\ row[a] \notin {"delivered", "resolved"})
      BY <2>0, <3>1, <3>2, <3>3, <3>5, SkipsHandles
    <3> QED
      BY <3>4, <3>5
  <2> QED
    BY <2>1, <2>2
<1>8. CASE Deliver(b)
  <2>0. body[b].step = "deliver" /\ body[b].at \in Stored /\ body[b].at \in Alerts /\ UNCHANGED row
    BY <1>0, <1>1, <1>2, <1>8 DEF Deliver
  <2>1. CASE /\ history' = [history EXCEPT !.sent[body[b].at] = IF @ < 2 THEN @ + 1 ELSE @,
                                           !.silent = @ \ {body[b].at}]
             /\ body' = [body EXCEPT ![b].step = "write"]
    <3>1. history'.silent = history.silent \ {body[b].at} /\ history'.cut = history.cut
      BY <1>0, <2>1 DEF HistoryTyped
    <3>2. Answers
      BY <2>0, <2>1, <3>1, SendAnswers
    <3> DEFINE r == [body[b] EXCEPT !.step = "write"]
    <3>3. /\ r \in RunRecord /\ r.pc = body[b].pc /\ r.at = body[b].at /\ r.step = "write"
          /\ r.deliver = body[b].deliver /\ r.todo = body[b].todo /\ r.seen = body[b].seen
      BY <1>0 DEF RunRecord
    <3>4. body' = [body EXCEPT ![b] = r]
      BY <1>0, <2>1 DEF RunRecord
    <3> HIDE DEF r
    <3>5. r.deliver => \A d \in r.seen \ r.todo : Answered(d)'
      BY <1>1, <3>2, <3>3 DEF ChecksInv, Handles, Answers
    <3>6. /\ history'.silent \cup history'.cut \subseteq Stored'
          /\ r.pc = "flush" => r.todo \subseteq r.seen /\ r.seen \subseteq Stored'
          /\ r.at \in Stored'
      BY <1>2, <2>0, <3>1, <3>2, <3>3 DEF Answers
    <3> QED
      BY <3>2, <3>3, <3>4, <3>5, <3>6, OneBodyHandles
  <2>2. CASE history' = [history EXCEPT !.silent = @ \cup {body[b].at}] /\ Leaves(b)
    <3>1. history'.silent = history.silent \cup {body[b].at} /\ history'.cut = history.cut
      BY <1>0, <2>2 DEF HistoryTyped
    <3>2. \A c \in Bodies : Fades(c)
      BY <1>0, <2>0, <2>2 DEF Leaves, Fades, RunRecord
    <3>3. Answers
      BY <2>0, <3>1, <3>2, CalmAnswers
    <3>4. \A d \in Alerts : d = body[b].at => Answered(d)'
      BY <3>1 DEF Answered
    <3>5. history'.silent \cup history'.cut \subseteq Stored'
      BY <1>2, <2>0, <3>1, <3>3 DEF Answers
    <3> QED
      BY <2>0, <2>2, <3>3, <3>4, <3>5, LeavesHandles
  <2>3. CASE BodyFails(b, history)
    BY <1>3, <2>0, <2>3
  <2> QED
    BY <1>8, <2>1, <2>2, <2>3 DEF Deliver
<1>9. CASE WriteDelivered(b)
  <2>0. body[b].step = "write" /\ body[b].at \in Alerts /\ body[b].at \in Stored
    BY <1>0, <1>1, <1>2, <1>9 DEF WriteDelivered
  <2>1. CASE /\ row' = [row EXCEPT ![body[b].at] = "delivered"]
             /\ Leaves(b) /\ UNCHANGED history
    <3>1. Answers /\ \A d \in Alerts : d = body[b].at => Answered(d)'
      BY <2>0, <2>1, RowAnswers
    <3>2. history'.silent \cup history'.cut \subseteq Stored'
      BY <1>2, <2>1, <3>1 DEF Answers
    <3> QED
      BY <2>0, <2>1, <3>1, <3>2, LeavesHandles
  <2> DEFINE h == [history EXCEPT !.cut = @ \cup {body[b].at}]
  <2>2. CASE BodyFails(b, h) /\ UNCHANGED row
    <3>1. h \in [sent : [Alerts -> 0..2], cut : SUBSET Alerts, silent : SUBSET Alerts,
                 exhausted : BOOLEAN, unqueued : BOOLEAN]
          /\ h.silent = history.silent /\ h.cut = history.cut \cup {body[b].at}
      BY <1>0, <2>0 DEF HistoryTyped
    <3> HIDE DEF h
    <3> QED
      BY <1>2, <2>0, <2>2, <3>1, FailureHandles
  <2> QED
    BY <1>9, <2>1, <2>2 DEF WriteDelivered
<1>10. CASE Finish(b)
  <2>1. UNCHANGED <<row, history>> /\ body' = [body EXCEPT ![b] = NoRun]
    BY <1>10 DEF Finish
  <2>2. \A c \in Bodies : Fades(c)
    <3>1. body[b].step = "none" /\ body[b].at = NoAlert
      BY <1>0, <1>10 DEF Finish, Idle
    <3> QED
      BY <1>0, <2>1, <3>1 DEF Fades, NoRun
  <2>3. Answers
    BY <2>1, <2>2, CalmAnswers
  <2>4. history'.silent \cup history'.cut \subseteq Stored'
    BY <1>2, <2>1, <2>3 DEF Answers
  <2> QED
    BY <2>1, <2>3, <2>4, DropHandles
<1> QED
  BY <1>4, <1>5, <1>6, <1>7, <1>8, <1>9, <1>10 DEF BodyStep

\* When a run that delivers is about to record its success, every alert it was to handle
\* is delivered or resolved, or met no channel, or was cut short, or is with another run.
THEOREM SuccessMeansHandled == ChecksSpec => []HandledBeforeSuccess
<1>1. ChecksInit => Handles
  BY DEF ChecksInit, Handles, Seen, NoRun
<1>2. ChecksTypeOK /\ Lane /\ Handles /\ [ChecksNext]_cvars => Handles'
  <2> SUFFICES ASSUME ChecksInv, [ChecksNext]_cvars PROVE Handles'
    BY DEF ChecksInv
  <2>1. CASE UNCHANGED cvars
    BY <2>1, IdleHandles DEF cvars, runs
  <2>2. CASE ChecksNext
    BY <2>2, OutsideHandles, RunNowHandles, BodyHandles, ResolveHandles
       DEF ChecksNext, Scheduling
  <2> QED
    BY <2>1, <2>2
<1>3. ChecksTypeOK /\ Handles => HandledBeforeSuccess
  <2> SUFFICES ASSUME ChecksTypeOK, Handles, NEW b \in Bodies, body[b].deliver,
                      body[b].todo = {}, NEW a \in body[b].seen
               PROVE  \/ row[a] \in {"delivered", "resolved"}
                      \/ row[a] \in {"pending", "suppressed"}
                         /\ \/ a \in history.silent \cup history.cut
                            \/ \E c \in Bodies : body[c].at = a
    BY DEF HandledBeforeSuccess
  <2>1. /\ a \in Alerts /\ a # NoAlert
        /\ row \in [Alerts -> {"none", "pending", "suppressed", "delivered", "resolved"}]
    BY ChecksConstants DEF ChecksTypeOK, RunRecord
  <2>2. Answered(a)
    BY DEF Handles
  <2>3. row[a] # "none" \/ row[a] \in {"delivered", "resolved"}
    BY <2>1, <2>2 DEF Answered, Handles, Seen, Stored
  <2> QED
    BY <2>1, <2>2, <2>3 DEF Answered
<1> QED
  BY <1>1, <1>2, <1>3, LaneKept, PTL DEF ChecksSpec

=============================================================================
