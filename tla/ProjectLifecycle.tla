--------------------------- MODULE ProjectLifecycle ---------------------------
(***************************************************************************)
(* What the store of projects promises, seen from outside: a project first *)
(* exists at the provider, then serves rules as a live row, then is        *)
(* withdrawn from the rules and only then removed at the provider.  It     *)
(* never goes back and never skips a stage.  A project may stay in a stage *)
(* for ever: a crash can leave it provisioned or retiring.                 *)
(***************************************************************************)
EXTENDS Naturals

CONSTANT Projects
VARIABLE stage

Stages == <<"none", "provisioned", "live", "retiring", "gone">>

Init == stage = [p \in Projects |-> "none"]

Advance(p) == \E i \in 1 .. 4 :
    /\ stage[p] = Stages[i]
    /\ stage' = [stage EXCEPT ![p] = Stages[i + 1]]

Next == \E p \in Projects : Advance(p)

Spec == Init /\ [][Next]_stage
=============================================================================
