--------------------------- MODULE MCDurableReader ---------------------------
(* Small instances of DurableReader for TLC.                                *)
EXTENDS DurableReader

CONSTANTS j1, j2, s1

TwoJobs == {j1, j2}
OneSlot == {s1}

MCExecutable == {"embed"}
MCTypeOf == [j \in Jobs |-> "embed"]
NoKeys == [j \in Jobs |-> NoKey]
AllInserted == [j \in Jobs |-> "none"]
SamePriority == [j \in Jobs |-> 0]
NoDelay == [j \in Jobs |-> 0]
OneTick == [r \in 0..1 |-> 1]
RetrySecond == [j \in Jobs |-> IF j = j2 THEN 1 ELSE 0]
MCIdOrder == [j \in Jobs |-> IF j = j1 THEN 1 ELSE 2]
=============================================================================
