---------------------------- MODULE ProjectAccess ----------------------------
(***************************************************************************)
(* What the project locks of a process are for (the comments of            *)
(* internal/bgjobs/query_lock.go): its threads may query a project         *)
(* together, do anything else with it alone, and delete it once.           *)
(* There are no locks here, and no table of them.                          *)
(***************************************************************************)
CONSTANTS Threads, Owner,   \* goroutines, and the process of each
          Nodes, Projects,
          None              \* nowhere

Keys == Nodes \X Projects
Work == {"query", "alone", "change", "delete"}

VARIABLES doing,   \* what a thread does with a project, or "nothing"
          at,      \* the project, as its process knows it
          done     \* what a process has deleted, as far as it remembers
vars == <<doing, at, done>>

Init ==
    /\ doing = [t \in Threads |-> "nothing"]
    /\ at = [t \in Threads |-> None]
    /\ done = {}

\* Queries go together; awaitShutdown, a change of mode and a deletion do not.
Together(a, b) == a = "query" /\ b = "query"

Begin(t, p, w) ==
    LET k == <<Owner[t], p>> IN
    /\ doing[t] = "nothing"
    /\ w = "delete" => k \notin done
    /\ doing' = [doing EXCEPT ![t] = w]
    /\ at' = [at EXCEPT ![t] = k]
    /\ \A u \in Threads : at[u] = k /\ doing[u] # "nothing" => Together(w, doing[u])
    /\ UNCHANGED done

Stop(t) == /\ doing' = [doing EXCEPT ![t] = "nothing"]
           /\ at' = [at EXCEPT ![t] = None]

End(t) == doing[t] # "nothing" /\ Stop(t) /\ UNCHANGED done

\* A deletion that has succeeded.
Complete(t) == doing[t] = "delete" /\ Stop(t) /\ done' = done \cup {at[t]}

\* A process that is started again remembers nothing.
Restart(n) ==
    /\ doing' = [t \in Threads |-> IF Owner[t] = n THEN "nothing" ELSE doing[t]]
    /\ at' = [t \in Threads |-> IF Owner[t] = n THEN None ELSE at[t]]
    /\ done' = {k \in done : k[1] # n}

Next ==
    \/ \E t \in Threads : \/ \E p \in Projects, w \in Work : Begin(t, p, w)
                          \/ End(t) \/ Complete(t)
    \/ \E n \in Nodes : Restart(n)

Spec == Init /\ [][Next]_vars
=============================================================================
