------------------------------- MODULE MCDrivers -------------------------------
(* Instances of Drivers for TLC. *)
EXTENDS Drivers

\* awaitShutdown: two queries, a wait, a third one.
TwoCalls == {2, 3}
=============================================================================
