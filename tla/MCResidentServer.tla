--------------------------- MODULE MCResidentServer ---------------------------
(* Instances of ResidentServer for TLC. *)
EXTENDS ResidentServer, TLC

CONSTANTS o1
=============================================================================
