---------------------------- MODULE MCProjectRules ----------------------------
(* Instances of ProjectRules for TLC. *)
EXTENDS ProjectRules, TLC

CONSTANTS n1, n2, n3, j1, j2, j3, act, wait, chg

\* One process, or the jobs spread over two.
OneHome == [j \in Jobs |-> n1]
TwoHomes == [j \in Jobs |-> IF j = j1 THEN n1 ELSE n2]

\* The plain rule may run one job at a time.
ActLimit == [r \in Rules |-> IF r = act THEN 1 ELSE 0]

OneMatrix == [p \in Projects |-> 0]
LastApart == [p \in Projects |-> IF \E q \in Projects : q > p THEN 0 ELSE 1]

JobSymmetry == Permutations(Jobs)
NodeSymmetry == Permutations(Nodes)
=============================================================================
