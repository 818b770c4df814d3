---------------------------- MODULE MCGlobalRules ----------------------------
(* Instances of GlobalRules for TLC. *)
EXTENDS GlobalRules, TLC

CONSTANTS j1, j2, j3

\* Rule 1 starts jobs that may be endless, one at a time; rule 2 works in the
\* main goroutine and asks for an interval; rule 3 does not parse.
OneAtATime == [d \in Descs |-> IF d = 1 THEN 1 ELSE 0]
Unlimited  == [d \in Descs |-> 0]
Spaced     == [d \in Descs |-> IF d = 2 THEN 2 ELSE 0]
Unspaced   == [d \in Descs |-> 0]
JobsTimeOut == [d \in Descs |-> IF d = 1 THEN 1 ELSE 0]
NoTimeout  == [d \in Descs |-> 0]

JobSymmetry == Permutations(Jobs)
=============================================================================
