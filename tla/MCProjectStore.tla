---------------------------- MODULE MCProjectStore ----------------------------
(* Instances of ProjectStore for TLC. *)
EXTENDS ProjectStore

CONSTANTS n1, n2, c1, c2

OneHome == [c \in Creators |-> n1]
TwoHomes == [c \in Creators |-> IF c = c1 THEN n1 ELSE n2]
=============================================================================
