------------------------- MODULE MCProcessSupervisor -------------------------
(* A small instance of ProcessSupervisor for TLC.                           *)
EXTENDS ProcessSupervisor

TwoPids == 1..2
=============================================================================
