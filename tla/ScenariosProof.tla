----------------------------- MODULE ScenariosProof -----------------------------
(***************************************************************************)
(* Proofs about Scenarios for any jobs, processes and durations: alwaysOn  *)
(* keeps the endpoint awake, its rounds are at most half a suspend timeout *)
(* apart, awaitShutdown queries an endpoint that sleeps.                   *)
(***************************************************************************)
EXTENDS Scenarios, TLAPS

Inv == TypeOK /\ TimeInv

\* The durations derived from the row are natural numbers.
LEMMA Durations ==
    /\ SuspendTimeout \in Nat /\ TargetDuration \in Nat /\ TargetTime \in Nat
    /\ Late \in Nat /\ Grace \in Nat
    /\ 3 * TargetDuration + Late < SuspendTimeout
    /\ SuspendTimeout + Grace < TargetTime
<1>1. SuspendTimeout \in Nat /\ Late \in Nat /\ Grace \in Nat /\ Margin \in Nat
  BY ScenariosAssumption DEF SuspendTimeout
<1>2. \A n \in Nat : n \div 4 \in Nat /\ n \div 10 \in Nat
  BY SMT
<1>3. TargetDuration \in Nat /\ SuspendTimeout \div 10 \in Nat
  BY <1>1, <1>2 DEF TargetDuration
<1> QED
  BY <1>1, <1>3, TimingAssumption DEF TargetTime

\* A job that is not running knows nothing.
LEMMA InitInv == Init => Inv
<1> SUFFICES ASSUME Init PROVE Inv
  OBVIOUS
<1>1. TypeOK
  <2>1. pc \in [Jobs -> Queries \cup Waits \cup {"idle"}] /\ timer \in [Jobs -> Int]
    BY DEF Init
  <2>2. /\ home \in [Jobs -> Nodes \cup {None}] /\ scen \in [Jobs -> Names \cup {None}]
        /\ since \in [Jobs -> Nat]
    BY DEF Init
  <2>3. reports \in [Jobs -> BOOLEAN] /\ reached \in [Jobs -> BOOLEAN]
    BY DEF Init
  <2> QED
    BY <2>1, <2>2, <2>3 DEF Init, TypeOK
<1>2. TimeInv
  BY Durations, ScenariosAssumption DEF Init, TimeInv, Recently, Longer, Past, Alone
<1> QED
  BY <1>1, <1>2 DEF Inv

\* A step of job j that leaves the endpoint alone, and the others too, keeps the
\* invariant if it keeps what the invariant says of j and j enters no process
\* where somebody awaits a shutdown.
LEMMA JobMoves ==
    ASSUME TimeInv, TypeOK, TypeOK', NEW j \in Jobs,
           awake' = awake, idle' = idle,
           \A i \in Jobs \ {j} :
              /\ home'[i] = home[i] /\ scen'[i] = scen[i] /\ pc'[i] = pc[i]
              /\ reports'[i] = reports[i] /\ reached'[i] = reached[i]
              /\ since'[i] = since[i] /\ timer'[i] = timer[i]
              /\ i \in disturbed' <=> i \in disturbed,
           \A i \in Jobs \ {j} :
              scen[i] = "awaitShutdown" /\ pc'[j] # "idle" => home'[j] # home[i],
           Recently(j)', Longer(j)'
    PROVE  TimeInv'
<1>1. awake' => idle' <= SuspendTimeout + Grace
  BY DEF TimeInv
<1>2. ASSUME NEW i \in Jobs, i # j PROVE Recently(i)' /\ Longer(i)'
  <2>1. Recently(i) /\ Longer(i)
    BY DEF TimeInv
  <2>2. Recently(i)'
    BY <1>2, <2>1 DEF Recently, Past
  <2>3. Longer(i)'
    BY <1>2, <2>1 DEF Longer, Alone
  <2> QED
    BY <2>2, <2>3
<1> QED
  BY <1>1, <1>2 DEF TimeInv
-----------------------------------------------------------------------------
(* One lemma per action *)

LEMMA ReturnInv ==
    ASSUME Inv, NEW j \in Jobs, Return(j), UNCHANGED <<awake, idle>>, stray' \in BOOLEAN
    PROVE  Inv'
<1> USE DEF Inv
<1>1. TypeOK'
  BY Durations DEF TypeOK, Return
<1>2. Recently(j)' /\ Longer(j)'
  BY ScenariosAssumption DEF TypeOK, Return, Recently, Longer, Past
<1>3. TimeInv'
  BY <1>1, <1>2, JobMoves DEF TypeOK, Return
<1> QED
  BY <1>1, <1>3

\* Whatever a call leaves behind, the endpoint is as it was.
LEMMA CallEnds ==
    ASSUME TypeOK, NEW open \in BOOLEAN, CallOver(open)
    PROVE  UNCHANGED <<awake, idle>> /\ stray' \in BOOLEAN
BY DEF TypeOK, CallOver

LEMMA StartInv ==
    ASSUME Inv, NEW j \in Jobs, NEW n \in Nodes, NEW s \in Names, NEW driver \in BOOLEAN,
           Start(j, n, s, driver)
    PROVE  Inv'
<1> USE DEF Inv
<1>1. FirstStep[s] \in {"activity", "wakeup", "warmup"} /\ (FirstStep[s] = "warmup" => s = "awaitShutdown")
  BY DEF FirstStep, Names
<1>2. TypeOK'
  BY <1>1 DEF TypeOK, Start, Send, endpointVars, Queries
<1>3. Recently(j)' /\ Longer(j)'
  BY <1>1 DEF TypeOK, Start, Send, Recently, Longer, Past, Allowed
<1>4. \A i \in Jobs \ {j} : scen[i] = "awaitShutdown" => home'[j] # home[i]
  BY DEF TypeOK, Start, Allowed
<1>5. TimeInv'
  BY <1>2, <1>3, <1>4, JobMoves DEF TypeOK, Start, Send, endpointVars
<1> QED
  BY <1>2, <1>5

LEMMA ReachInv ==
    ASSUME Inv, NEW j \in Jobs, Reach(j) PROVE Inv'
<1> USE DEF Inv
<1>1. TypeOK'
  BY DEF TypeOK, Reach, Sleepers
<1>2. ASSUME NEW i \in Jobs PROVE Recently(i)' /\ Longer(i)'
  <2>1. Recently(i) /\ Longer(i)
    BY DEF TimeInv
  <2>2. since[i] \in Nat /\ TargetDuration \in Nat /\ Late \in Nat /\ timer[i] \in Int
    BY Durations DEF TypeOK
  <2>3. Recently(i)'
    BY <2>1, <2>2 DEF TypeOK, Reach, Recently, Past, Queries
  <2>4. Longer(i)'
    <3>1. CASE i = j
      BY <3>1, <2>1 DEF TypeOK, Reach, Longer, Alone, Queries, Sleepers
    <3>2. CASE i # j
      <4>1. pc[i] \in {"sleep", "final"} => home[j] # home[i]
        BY <3>2, <2>1 DEF Longer, Reach, Queries
      <4>2. pc[i] \in {"sleep", "final"} => ~Alone(i)'
        BY <3>2, <4>1 DEF TypeOK, Reach, Alone, Sleepers
      <4> QED
        BY <3>2, <2>1, <4>2 DEF TypeOK, Reach, Longer
    <3> QED
      BY <3>1, <3>2
  <2> QED
    BY <2>3, <2>4
<1>3. TimeInv'
  BY <1>2, Durations DEF TimeInv, Reach
<1> QED
  BY <1>1, <1>3

LEMMA StrayReachInv ==
    ASSUME Inv, StrayReach PROVE Inv'
<1> USE DEF Inv
<1>1. TypeOK'
  BY DEF TypeOK, StrayReach, Sleepers
<1>2. ASSUME NEW i \in Jobs PROVE Recently(i)' /\ Longer(i)'
  <2>1. Recently(i) /\ Longer(i)
    BY DEF TimeInv
  <2>2. since[i] \in Nat /\ TargetDuration \in Nat /\ Late \in Nat
    BY Durations DEF TypeOK
  <2>3. Recently(i)'
    BY <2>1, <2>2 DEF TypeOK, StrayReach, Recently, Past
  <2>4. pc[i] \in {"sleep", "final"} => ~Alone(i)'
    BY DEF StrayReach, Alone, Sleepers
  <2>5. Longer(i)'
    BY <2>1, <2>4 DEF TypeOK, StrayReach, Longer
  <2> QED
    BY <2>3, <2>5
<1>3. TimeInv'
  BY <1>2, Durations DEF TimeInv, StrayReach
<1> QED
  BY <1>1, <1>3

LEMMA SuspendInv ==
    ASSUME Inv, Suspend PROVE Inv'
<1> USE DEF Inv
<1>1. TypeOK'
  BY DEF TypeOK, Suspend
<1>2. ASSUME NEW i \in Jobs PROVE Recently(i)' /\ Longer(i)'
  <2>1. Recently(i) /\ Longer(i)
    BY DEF TimeInv
  <2>2. since[i] \in Nat /\ timer[i] \in Int /\ idle \in Nat
    BY Durations DEF TypeOK
  <2>3. pc[i] = "wait" => since[i] <= 2 * TargetDuration + Late
    BY <2>1, <2>2, Durations DEF Recently
  <2>4. Recently(i)'
    BY <2>1, <2>2, <2>3, Durations DEF Suspend, Recently, Past
  <2>5. Longer(i)'
    BY <2>1 DEF Suspend, Longer, Alone
  <2> QED
    BY <2>4, <2>5
<1>3. TimeInv'
  BY <1>2 DEF TimeInv, Suspend
<1> QED
  BY <1>1, <1>3

LEMMA WokenUpInv ==
    ASSUME Inv, NEW j \in Jobs, WokenUp(j) PROVE Inv'
<1> USE DEF Inv
<1>0. UNCHANGED <<awake, idle>> /\ stray' \in BOOLEAN
  BY CallEnds DEF WokenUp, TypeOK
<1>1. TypeOK'
  BY <1>0 DEF TypeOK, WokenUp, Send, Queries
<1>2. Recently(j)' /\ Longer(j)'
  BY DEF TypeOK, TimeInv, WokenUp, Send, Recently, Longer, Past
<1>3. TimeInv'
  BY <1>0, <1>1, <1>2, JobMoves DEF TypeOK, TimeInv, Longer, WokenUp, Send
<1> QED
  BY <1>1, <1>3

LEMMA NextRoundInv ==
    ASSUME Inv, NEW j \in Jobs, NextRound(j) PROVE Inv'
<1> USE DEF Inv
<1>0. UNCHANGED <<awake, idle>> /\ stray' \in BOOLEAN
  BY CallEnds DEF NextRound, TypeOK
<1>1. CASE Return(j)
  BY <1>0, <1>1, ReturnInv
<1>2. CASE ~Return(j)
  <2>1. /\ since[j] <= TargetDuration
        /\ Await(j, "wait", TargetDuration - (since[j] - TargetDuration))
        /\ UNCHANGED <<home, scen, reports, since, canceled, disturbed>>
    BY <1>2, Durations DEF NextRound, TypeOK, Stops, Remaining
  <2>2. TypeOK'
    BY <1>0, <2>1, Durations DEF TypeOK, Await, Waits
  <2>3. Recently(j) /\ Longer(j) /\ since[j] \in Nat /\ pc[j] \in {"init", "loop"}
    BY Durations DEF TypeOK, TimeInv, NextRound
  <2>4. reports[j] => awake /\ idle <= since[j]
    BY <2>1, <2>3 DEF NextRound, Succeeded, Recently, Past
  <2>5. Recently(j)'
    BY <1>0, <2>1, <2>3, <2>4, Durations DEF TypeOK, Await, Recently, Past
  <2>6. Longer(j)'
    BY <2>1, <2>3 DEF TypeOK, Await, Longer
  <2>7. TimeInv'
    BY <1>0, <2>1, <2>2, <2>5, <2>6, <2>3, JobMoves DEF TypeOK, TimeInv, Longer, Await
  <2> QED
    BY <2>2, <2>7
<1> QED
  BY <1>1, <1>2

LEMMA DoActivityInv ==
    ASSUME Inv, NEW j \in Jobs, DoActivity(j) PROVE Inv'
<1> USE DEF Inv
<1>1. TypeOK'
  BY Durations DEF TypeOK, DoActivity, Send, endpointVars, Queries
<1>2. Recently(j) /\ Longer(j) /\ since[j] \in Nat /\ timer[j] \in Int /\ idle \in Nat
  BY Durations DEF TypeOK, TimeInv
<1>3. since[j] <= 2 * TargetDuration + Late
  BY <1>2, Durations DEF Recently, DoActivity
<1>4. Recently(j)'
  BY <1>2, <1>3, Durations DEF TypeOK, DoActivity, Send, Recently, Past, endpointVars
<1>5. Longer(j)'
  BY <1>2 DEF TypeOK, DoActivity, Send, Longer
<1>6. TimeInv'
  BY <1>1, <1>2, <1>4, <1>5, JobMoves DEF TypeOK, TimeInv, Longer, DoActivity, Send, endpointVars
<1> QED
  BY <1>1, <1>6

LEMMA WarmedUpInv ==
    ASSUME Inv, NEW j \in Jobs, WarmedUp(j) PROVE Inv'
<1> USE DEF Inv
<1>0. UNCHANGED <<awake, idle>> /\ stray' \in BOOLEAN
  BY CallEnds DEF WarmedUp, TypeOK
<1>1. CASE Return(j)
  BY <1>0, <1>1, ReturnInv
<1>2. CASE ~Return(j)
  <2>1. /\ pc[j] = "warmup"
        /\ Await(j, "sleep", TargetTime)
        /\ UNCHANGED <<home, scen, reports, since, canceled, disturbed>>
    BY <1>2 DEF WarmedUp
  <2>2. TypeOK'
    BY <1>0, <2>1, Durations DEF TypeOK, Await, Waits
  <2>3. Recently(j)' /\ Longer(j)'
    BY <1>0, <2>1, Durations DEF TypeOK, TimeInv, Await, Recently, Longer, Past
  <2>4. TimeInv'
    BY <1>0, <2>1, <2>2, <2>3, JobMoves DEF TypeOK, TimeInv, Longer, Await
  <2> QED
    BY <2>2, <2>4
<1> QED
  BY <1>1, <1>2

LEMMA FinalQueryInv ==
    ASSUME Inv, NEW j \in Jobs, FinalQuery(j) PROVE Inv'
<1> USE DEF Inv
<1>1. TypeOK'
  BY DEF TypeOK, FinalQuery, Send, endpointVars, Queries
<1>2. Longer(j) /\ timer[j] \in Int /\ idle \in Nat /\ timer[j] <= 0
  BY DEF TypeOK, TimeInv, FinalQuery
<1>3. ~(awake /\ Alone(j))
  BY <1>2, Durations DEF TimeInv, Longer, FinalQuery
<1>4. Recently(j)' /\ Longer(j)'
  BY <1>2, <1>3 DEF TypeOK, FinalQuery, Send, Recently, Longer, Past, Alone, endpointVars
<1>5. TimeInv'
  BY <1>1, <1>2, <1>4, JobMoves DEF TypeOK, TimeInv, Longer, FinalQuery, Send, endpointVars
<1> QED
  BY <1>1, <1>5

LEMMA CancelInv ==
    ASSUME Inv, NEW j \in Jobs, Cancel(j) PROVE Inv'
<1> USE DEF Inv
<1>1. TypeOK'
  BY DEF TypeOK, Cancel, endpointVars
<1>2. TimeInv'
  BY DEF TimeInv, Recently, Longer, Past, Alone, Cancel, endpointVars
<1> QED
  BY <1>1, <1>2

LEMMA TickInv ==
    ASSUME Inv, Tick PROVE Inv'
<1> USE DEF Inv
<1>1. idle \in Nat /\ \A i \in Jobs : since[i] \in Nat /\ timer[i] \in Int
  BY DEF TypeOK
<1>2. TypeOK'
  BY <1>1, Durations DEF TypeOK, Tick, Ages
<1>3. ASSUME NEW i \in Jobs PROVE Recently(i)' /\ Longer(i)'
  <2>1. Recently(i) /\ Longer(i)
    BY DEF TimeInv
  <2>2. pc[i] \in {"init", "loop"} =>
            since'[i] = IF since[i] <= TargetDuration THEN since[i] + 1 ELSE since[i]
    BY <1>1 DEF Tick, Ages
  <2>3. pc[i] = "wait" => since'[i] = since[i] + 1 /\ timer'[i] = timer[i] - 1 /\ timer[i] > -Late
    BY <1>1, <2>1, Durations DEF Tick, Ages, Recently, Waits
  <2>4. pc[i] = "sleep" => timer'[i] = timer[i] - 1
    BY <1>1 DEF Tick, Waits
  <2>5. idle' = (IF awake THEN idle + 1 ELSE 0) /\ awake' = awake
    BY DEF Tick
  <2>6. Past(i)' => Past(i) /\ since'[i] = since[i] + 1
    BY <1>1, <2>2, Durations DEF Past, Tick
  <2>7. Recently(i)'
    BY <1>1, <2>1, <2>3, <2>5, <2>6, Durations DEF Recently, Tick
  <2>8. Longer(i)'
    BY <1>1, <2>1, <2>4, <2>5, Durations DEF Longer, Alone, Tick
  <2> QED
    BY <2>7, <2>8
<1>4. TimeInv'
  BY <1>1, <1>3, Durations DEF TimeInv, Tick
<1> QED
  BY <1>2, <1>4
-----------------------------------------------------------------------------
(* The specification *)

LEMMA NextInv == Inv /\ [Next]_vars => Inv'
<1> SUFFICES ASSUME Inv, [Next]_vars PROVE Inv'
  OBVIOUS
<1>1. ASSUME NEW j \in Jobs, JobStep(j) PROVE Inv'
  <2>1. ASSUME NEW n \in Nodes, NEW s \in Names, NEW driver \in BOOLEAN, Start(j, n, s, driver)
        PROVE  Inv'
    BY <2>1, StartInv
  <2>2. CASE Reach(j)
    BY <2>2, ReachInv
  <2>3. CASE QueriesFail(j) \/ Finish(j) \/ ContextDone(j)
    <3>1. Return(j) /\ UNCHANGED <<awake, idle>> /\ stray' \in BOOLEAN
      BY <2>3, CallEnds DEF QueriesFail, Finish, ContextDone, Inv, TypeOK, endpointVars
    <3> QED
      BY <3>1, ReturnInv
  <2>4. CASE WokenUp(j) \/ NextRound(j) \/ WarmedUp(j)
    BY <2>4, WokenUpInv, NextRoundInv, WarmedUpInv
  <2>5. CASE DoActivity(j) \/ FinalQuery(j) \/ Cancel(j)
    BY <2>5, DoActivityInv, FinalQueryInv, CancelInv
  <2> QED
    BY <1>1, <2>1, <2>2, <2>3, <2>4, <2>5 DEF JobStep, Answer, Proceed
<1>2. CASE StrayReach \/ Suspend \/ Tick
  BY <1>2, StrayReachInv, SuspendInv, TickInv
<1>3. CASE UNCHANGED vars
  <2>1. TypeOK'
    BY <1>3 DEF Inv, TypeOK, vars, endpointVars
  <2>2. TimeInv'
    BY <1>3 DEF Inv, TimeInv, Recently, Longer, Past, Alone, vars, endpointVars
  <2> QED
    BY <2>1, <2>2 DEF Inv
<1> QED
  BY <1>1, <1>2, <1>3 DEF Next

LEMMA Inductive == Spec => []Inv
  BY InitInv, NextInv, PTL DEF Spec

\* The variables keep their types.
THEOREM ScenariosTyped == Spec => []TypeOK
<1>1. Inv => TypeOK
  BY DEF Inv
<1> QED
  BY <1>1, Inductive, PTL

\* alwaysOn keeps the endpoint awake for every suspend timeout, however many
\* jobs run, as long as timers are late by less than what remains of the timeout
\* after three quarters.
THEOREM StaysAwake == Spec => []AlwaysOnAwake
<1>1. Inv => AlwaysOnAwake
  <2> SUFFICES ASSUME Inv, NEW j \in Jobs, reports[j], OnTime(j) PROVE awake
    BY DEF AlwaysOnAwake
  <2>1. Recently(j)
    BY DEF Inv, TimeInv
  <2> QED
    BY <2>1 DEF OnTime, Recently, Past
<1> QED
  BY <1>1, Inductive, PTL

\* awaitShutdown lets the endpoint sleep, for every suspend timeout, although calls
\* may leave queries behind: only those and other processes wake it up.
THEOREM LetsSleep == Spec => []AwaitShutdownSleeps
<1>1. Inv => AwaitShutdownSleeps
  <2> SUFFICES ASSUME Inv, NEW j \in Jobs, pc[j] = "final", ~reached[j], awake
               PROVE  j \in disturbed
    BY DEF AwaitShutdownSleeps
  <2>1. ~Alone(j)
    BY DEF Inv, TimeInv, Longer
  <2> QED
    BY <2>1 DEF Alone
<1> QED
  BY <1>1, Inductive, PTL

\* Two rounds of alwaysOn are at most half a suspend timeout apart.
THEOREM RoundsInTime == Spec => RoundsSpaced
<1>1. Inv /\ [Next]_vars =>
        [\A j \in Jobs : pc[j] = "wait" /\ pc'[j] = "loop" =>
            since[j] <= 2 * TargetDuration + Late]_vars
  <2> SUFFICES ASSUME Inv, NEW j \in Jobs, pc[j] = "wait"
               PROVE  since[j] <= 2 * TargetDuration + Late
    OBVIOUS
  <2>1. Recently(j) /\ since[j] \in Int /\ timer[j] \in Int
    BY Durations DEF Inv, TimeInv, TypeOK
  <2> QED
    BY <2>1, Durations DEF Recently
<1> QED
  BY <1>1, Inductive, PTL DEF Spec, RoundsSpaced
=============================================================================
