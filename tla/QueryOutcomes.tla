----------------------------- MODULE QueryOutcomes -----------------------------
(***************************************************************************)
(* What a query job may do to the table of queries, seen from the rules    *)
(* that read it: the outcomes which ProjectRules allows a job in its steps *)
(* Connect, Query and EndScenario.  Records are appended one at a time and *)
(* only while the job runs; a connection that failed, an error of the      *)
(* saver (with the record saved or not), and a lost answer end the job     *)
(* with an error.                                                          *)
(***************************************************************************)
EXTENDS Sequences

CONSTANT Queries              \* what a record may be about
VARIABLES phase, err, log

Init == phase = "connect" /\ err = FALSE /\ log = <<>>

Save(st) == \E q \in Queries : log' = Append(log, [q |-> q, st |-> st])
Fail == phase' = "over" /\ err' = TRUE

\* randomDriver: a driver that has no connection leaves no record.
Connect ==
    /\ phase = "connect"
    /\ \/ (Save("ok") \/ UNCHANGED log) /\ phase' = "run" /\ UNCHANGED err
       \/ (Save("ok") \/ Save("failed") \/ UNCHANGED log) /\ Fail

Query ==
    /\ phase = "run"
    /\ \/ (Save("ok") \/ Save("failed")) /\ UNCHANGED <<phase, err>>
       \/ (Save("ok") /\ phase' = "over" /\ UNCHANGED err)
       \/ (Save("ok") \/ Save("failed") \/ UNCHANGED log) /\ Fail

EndScenario ==
    /\ phase = "run"
    /\ phase' = "over" /\ err' \in BOOLEAN
    /\ UNCHANGED log

Next == Connect \/ Query \/ EndScenario

Spec == Init /\ [][Next]_<<phase, err, log>>
=============================================================================
