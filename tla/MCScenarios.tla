------------------------------ MODULE MCScenarios ------------------------------
(* Instances of Scenarios for TLC. *)
EXTENDS Scenarios

CONSTANTS n1, n2, j1, j2
=============================================================================
