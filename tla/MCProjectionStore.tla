-------------------------- MODULE MCProjectionStore --------------------------
(* Small instances of ProjectionStore for TLC.                              *)
EXTENDS ProjectionStore, TLC

CONSTANTS a, b, r1, w1, w2, w3, root, callback, c1, c2, job

FirstAgain == [s \in Sources |-> IF s = a THEN 2 ELSE 1]

\* Nothing tells wave ids apart, nor children.
Symmetric == Permutations(Waves) \cup Permutations(Children)

\* A bound: one behaviour opens one of the batches.
OneBatch == Cardinality({x \in Batches : batch[x].status # "absent"}) <= 1

=============================================================================
