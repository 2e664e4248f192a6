------------------------- MODULE MCGitReconciliation -------------------------
(* Small instances of GitReconciliation for TLC.                            *)
EXTENDS GitReconciliation

CONSTANTS r1, r2

May(mishaps, pushes, edits, syncs) ==
    [mishaps |-> mishaps, pushes |-> pushes, edits |-> edits, syncs |-> syncs]

\* Two faults with a push and a requested sync, or with an edit; one fault with a push and
\* an edit; two pushes, an edit and a sync with no fault.
FewFaults == {May(2, 1, 0, 1), May(2, 0, 1, 0), May(1, 1, 1, 0), May(0, 2, 1, 1)}
TwoReplays == {r1, r2}
=============================================================================
