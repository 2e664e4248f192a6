----------------------------- MODULE MCJobWorker -----------------------------
(* Small instances of JobWorker for TLC.                                    *)
EXTENDS JobWorker

CONSTANTS j1, j2, s1, s2, p1, p2, p3

OneJob == {j1}
TwoJobs == {j1, j2}
OneSlot == {s1}
TwoSlots == {s1, s2}
OneProc == {p1}
TwoProcs == {p1, p2}
ThreeProcs == {p1, p2, p3}

OwnSlots == [p \in Procs |-> IF p = p1 THEN s1 ELSE s2]
SharedSlot == [p \in Procs |-> IF p = p2 THEN s2 ELSE s1]
MCExecutable == {"embed"}
MCTypeOf == [j \in Jobs |-> "embed"]
NoBackoff == [r \in 0..2 |-> 0]
OneTick == [r \in 0..1 |-> 1]
NoKeys == [j \in Jobs |-> NoKey]
AllInserted == [j \in Jobs |-> "none"]
\* j2 replaces a job that waits.
OneReplaces == [j \in Jobs |-> IF j = j1 THEN "none" ELSE "replace"]
SamePriority == [j \in Jobs |-> 0]
NoDelay == [j \in Jobs |-> 0]
RetryOnce == [j \in Jobs |-> 1]
RetryTwice == [j \in Jobs |-> 2]
=============================================================================
