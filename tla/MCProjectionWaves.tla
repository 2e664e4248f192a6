-------------------------- MODULE MCProjectionWaves --------------------------
(* Small instances of ProjectionWaves for TLC.                              *)
EXTENDS ProjectionWaves

CONSTANTS a, b, r1, r2, w1, w2, w3, callback, j1, j2, j3, j4, c1

Once == [s \in Sources |-> 1]
Siblings == {}
Chain == {<<r1, r2>>}
AllTrigger == [r \in Rules |-> Sources]
FirstTriggered == [r \in Rules |-> IF r = r1 THEN Sources ELSE {}]

\* The first job may be retried once, the others never.
FirstRetried == [j \in RuleJobs |-> IF j = j1 THEN 2 ELSE 1]
NoRetry == [j \in RuleJobs |-> 1]
=============================================================================
