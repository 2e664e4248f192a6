----------------------------- MODULE MCJobQueue -----------------------------
(* A small instance of JobQueue for TLC.                                   *)
EXTENDS JobQueue

CONSTANTS j1, j2, s1, s2

TwoJobs == {j1, j2}
TwoSlots == {s1, s2}

MCExecutable == {"embed"}
MCTypeOf == [j \in Jobs |-> "embed"]
MCBackoff == [r \in 0..2 |-> 1]
NoDelay == [j \in Jobs |-> 0]
RetryOnce == [j \in Jobs |-> IF j = j1 THEN 1 ELSE 0]

\* Both coalesce on one key, and j1 is claimed first.
MCKeyOf == [j \in Jobs |-> "doc"]
MCStrategyOf == [j \in Jobs |-> "coalesce"]
MCPriority == [j \in Jobs |-> IF j = j2 THEN 1 ELSE 0]
=============================================================================
