-------------------------- MODULE MCRecurringChecks --------------------------
(* A small instance of RecurringChecks for TLC.                            *)
EXTENDS RecurringChecks

CONSTANT a1

=============================================================================
