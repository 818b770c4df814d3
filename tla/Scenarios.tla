------------------------------- MODULE Scenarios -------------------------------
(***************************************************************************)
(* The query scenarios of internal/rules/query_scenario.go in time: jobs   *)
(* of one or more processes on one project, against the suspend timer of   *)
(* its endpoint.  A unit of time is any fraction of a second; timers fire  *)
(* at most Late after they are due, a query may take any time.             *)
(*                                                                         *)
(* Left to other modules: who may query at all (ProjectRules), what a      *)
(* driver records and when it reports a failure (Drivers).                 *)
(***************************************************************************)
EXTENDS Integers

CONSTANTS Jobs, Nodes,           \* jobs at a time, processes
          SuspendTimeoutSeconds,  \* projects.suspend_timeout_seconds
          DefaultTimeout,         \* 5 * 60
          Margin,                 \* the 10 s awaitShutdown adds
          Late,                   \* timers and goroutines are late by at most this
          Grace,                  \* the provider suspends an endpoint at most this late
          None

SuspendTimeout == IF SuspendTimeoutSeconds = 0 THEN DefaultTimeout
                                               ELSE SuspendTimeoutSeconds

\* "we want to make one query at least every 1/4 of suspend timeout"
TargetDuration == SuspendTimeout \div 4

\* Mutant: the 10 % and the 10 s are missing.
TargetTimeExact == SuspendTimeout

\* "add 10% to the target time, so we don't query before shutdown"
TargetTime == SuspendTimeout + SuspendTimeout \div 10 + Margin

ASSUME ScenariosAssumption ==
    /\ {SuspendTimeoutSeconds, DefaultTimeout, Margin, Late, Grace} \subseteq Nat
    /\ None \notin {"activityV1", "alwaysOn", "awaitShutdown"}

\* What the scenarios expect of the provider and of the scheduler: a timeout that
\* can be divided, an endpoint that sleeps before awaitShutdown looks, timers
\* that are not late by a quarter of the timeout.
ASSUME TimingAssumption ==
    /\ SuspendTimeout >= 4
    /\ Grace < SuspendTimeout \div 10 + Margin
    /\ Late < SuspendTimeout - 3 * TargetDuration

VARIABLES awake, idle,  \* the endpoint; time since its last activity
          stray,        \* may a query still run whose call is over?
          home,         \* the process of a job
          scen, pc,     \* scenario of a job and its step
          reports,      \* does its driver report a query that failed?
          reached,      \* has a query of the call it is in reached the endpoint?
          since,        \* time since lastQuery
          timer,        \* time until time.After
          canceled,     \* jobs whose context is done
          disturbed     \* history: jobs that await a shutdown while another process
                        \* queries, or a query runs whose call is over

endpointVars == <<awake, idle, stray>>
vars == <<endpointVars, home, scen, pc, reports, reached, since, timer, canceled, disturbed>>

Names   == {"activityV1", "alwaysOn", "awaitShutdown"}
\* Steps inside executeManyQueries, and those inside a select.
Queries == {"activity", "wakeup", "init", "loop", "warmup", "final"}
Waits   == {"wait", "sleep"}

TypeOK ==
    /\ awake \in BOOLEAN /\ idle \in Nat /\ stray \in BOOLEAN
    /\ home \in [Jobs -> Nodes \cup {None}]
    /\ scen \in [Jobs -> Names \cup {None}]
    /\ pc \in [Jobs -> Queries \cup Waits \cup {"idle"}]
    /\ reports \in [Jobs -> BOOLEAN]
    /\ reached \in [Jobs -> BOOLEAN]
    /\ since \in [Jobs -> Nat]
    /\ timer \in [Jobs -> Int]
    /\ canceled \in SUBSET Jobs
    /\ disturbed \in SUBSET Jobs

Init ==
    /\ awake \in BOOLEAN /\ idle = 0 /\ stray = FALSE
    /\ home = [j \in Jobs |-> None]
    /\ scen = [j \in Jobs |-> None]
    /\ pc = [j \in Jobs |-> "idle"]
    /\ reports = [j \in Jobs |-> TRUE]
    /\ reached = [j \in Jobs |-> FALSE]
    /\ since = [j \in Jobs |-> 0]
    /\ timer = [j \in Jobs |-> 0]
    /\ canceled = {}
    /\ disturbed = {}
-----------------------------------------------------------------------------
(* Locals of a job *)

Return(j) == /\ home' = [home EXCEPT ![j] = None]
             /\ scen' = [scen EXCEPT ![j] = None]
             /\ pc' = [pc EXCEPT ![j] = "idle"]
             /\ reports' = [reports EXCEPT ![j] = TRUE]
             /\ reached' = [reached EXCEPT ![j] = FALSE]
             /\ since' = [since EXCEPT ![j] = 0]
             /\ timer' = [timer EXCEPT ![j] = 0]
             /\ canceled' = canceled \ {j}
             /\ disturbed' = disturbed \ {j}

\* The next call of executeManyQueries.
Send(j, step) == /\ pc' = [pc EXCEPT ![j] = step]
                 /\ reached' = [reached EXCEPT ![j] = FALSE]
                 /\ timer' = [timer EXCEPT ![j] = 0]

Await(j, step, duration) == /\ pc' = [pc EXCEPT ![j] = step]
                            /\ reached' = [reached EXCEPT ![j] = FALSE]
                            /\ timer' = [timer EXCEPT ![j] = duration]

\* executeManyQueries returned nil.  The Vercel driver returns nil too when the
\* queries it sent have failed (module Drivers).
Succeeded(j) == reports[j] => reached[j]

\* A call is over; a query of it may run yet when its answer was lost or, by the
\* Vercel driver, was an error that nobody reported.
CallOver(open) == UNCHANGED <<awake, idle>> /\ stray' \in {stray, stray \/ open}
-----------------------------------------------------------------------------
(* The endpoint (external) *)

Sleepers == {i \in Jobs : pc[i] \in {"sleep", "final"}}

\* A query of job j is executed; it wakes the endpoint up if necessary.
Reach(j) ==
    /\ pc[j] \in Queries
    /\ awake' = TRUE /\ idle' = 0
    /\ reached' = [reached EXCEPT ![j] = TRUE]
    /\ disturbed' = disturbed \cup {i \in Sleepers : home[i] # home[j]}
    /\ UNCHANGED <<stray, home, scen, pc, reports, since, timer, canceled>>

\* A query is executed after its call was over, and whatever became of its job.
StrayReach ==
    /\ stray
    /\ awake' = TRUE /\ idle' = 0
    /\ stray' \in BOOLEAN
    /\ disturbed' = disturbed \cup Sleepers
    /\ UNCHANGED <<home, scen, pc, reports, reached, since, timer, canceled>>

Suspend ==
    /\ awake /\ idle >= SuspendTimeout
    /\ awake' = FALSE /\ idle' = 0
    /\ UNCHANGED <<stray, home, scen, pc, reports, reached, since, timer, canceled, disturbed>>
-----------------------------------------------------------------------------
(* The scenarios *)

FirstStep == [activityV1 |-> "activity", alwaysOn |-> "wakeup", awaitShutdown |-> "warmup"]

\* The project lock, taken by executeForProject: see ExclusiveScenarioAlone.
Allowed(n, s) ==
    \A i \in Jobs : home[i] = n =>
        s # "awaitShutdown" /\ scen[i] # "awaitShutdown"

Start(j, n, s, driver) ==
    /\ pc[j] = "idle"
    /\ Allowed(n, s)
    /\ home' = [home EXCEPT ![j] = n]
    /\ scen' = [scen EXCEPT ![j] = s]
    /\ reports' = [reports EXCEPT ![j] = driver]
    /\ Send(j, FirstStep[s])
    /\ UNCHANGED <<endpointVars, since, canceled, disturbed>>

\* executeManyQueries returned an error, which ends every scenario.
QueriesFail(j) ==
    /\ pc[j] \in Queries
    /\ Return(j)
    /\ CallOver(TRUE)

\* The last call of activityV1 and of awaitShutdown.
Finish(j) ==
    /\ pc[j] \in {"activity", "final"} /\ Succeeded(j)
    /\ Return(j)
    /\ CallOver(~reports[j])

\* Mutant: lastQuery is not set.
WokenUpUnset(j) ==
    /\ pc[j] = "wakeup" /\ Succeeded(j)
    /\ CallOver(~reports[j])
    /\ Send(j, "init")
    /\ since' = [since EXCEPT ![j] = None]
    /\ UNCHANGED <<home, scen, reports, canceled, disturbed>>

\* alwaysOn: lastQuery is set, the table created.
WokenUp(j) ==
    /\ pc[j] = "wakeup" /\ Succeeded(j)
    /\ CallOver(~reports[j])
    /\ Send(j, "init")
    /\ since' = [since EXCEPT ![j] = 0]
    /\ UNCHANGED <<home, scen, reports, canceled, disturbed>>

\* Mutants: the time spent is not looked at; the context is not; the time spent
\* is not subtracted.
StopsIfCanceled(j) == j \in canceled
StopsIfLate(j) == since[j] > TargetDuration
RemainingFull(j) == 2 * TargetDuration

Stops(j) == since[j] > TargetDuration \/ j \in canceled
Remaining(j) == TargetDuration - (since[j] - TargetDuration)

\* "last query was too long ago", or the select: with the context done before
\* the timer is set, it returns at once.
NextRound(j) ==
    /\ pc[j] \in {"init", "loop"} /\ Succeeded(j)
    /\ CallOver(~reports[j])
    /\ IF Stops(j) THEN Return(j)
       ELSE /\ Await(j, "wait", Remaining(j))
            /\ UNCHANGED <<home, scen, reports, since, canceled, disturbed>>

\* time.After: lastQuery = time.Now(), the next query.
DoActivity(j) ==
    /\ pc[j] = "wait" /\ timer[j] <= 0
    /\ Send(j, "loop")
    /\ since' = [since EXCEPT ![j] = 0]
    /\ UNCHANGED <<endpointVars, home, scen, reports, canceled, disturbed>>

\* awaitShutdown: the select after the first two queries.
WarmedUp(j) ==
    /\ pc[j] = "warmup" /\ Succeeded(j)
    /\ CallOver(~reports[j])
    /\ IF j \in canceled THEN Return(j)
       ELSE /\ Await(j, "sleep", TargetTime)
            /\ UNCHANGED <<home, scen, reports, since, canceled, disturbed>>

\* Mutant: it waits again for an endpoint somebody woke up.
FinalQueryRetried(j) ==
    /\ pc[j] = "sleep" /\ timer[j] <= 0
    /\ IF awake THEN Await(j, "sleep", TargetTime)
                ELSE Send(j, "final")
    /\ UNCHANGED <<endpointVars, home, scen, reports, since, canceled, disturbed>>

FinalQuery(j) ==
    /\ pc[j] = "sleep" /\ timer[j] <= 0
    /\ Send(j, "final")
    /\ UNCHANGED <<endpointVars, home, scen, reports, since, canceled, disturbed>>

\* case <-ctx.Done()
ContextDone(j) ==
    /\ pc[j] \in Waits /\ j \in canceled
    /\ Return(j)
    /\ UNCHANGED endpointVars

\* The context of a job is done: a signal, a reload or a timeout (GlobalRules).
Cancel(j) ==
    /\ pc[j] # "idle" /\ j \notin canceled
    /\ canceled' = canceled \cup {j}
    /\ UNCHANGED <<endpointVars, home, scen, pc, reports, reached, since, timer, disturbed>>
-----------------------------------------------------------------------------
\* Bound: once a query is too late, it is not counted how late.
Ages(j) == pc[j] = "wait" \/ (pc[j] \in {"init", "loop"} /\ since[j] <= TargetDuration)

Tick ==
    /\ awake => idle < SuspendTimeout + Grace
    /\ \A j \in Jobs : pc[j] \in Waits => timer[j] > -Late
    /\ idle' = IF awake THEN idle + 1 ELSE 0
    /\ since' = [j \in Jobs |-> IF Ages(j) THEN since[j] + 1 ELSE since[j]]
    /\ timer' = [j \in Jobs |-> IF pc[j] \in Waits THEN timer[j] - 1 ELSE timer[j]]
    /\ UNCHANGED <<awake, stray, home, scen, pc, reports, reached, canceled, disturbed>>

\* executeManyQueries returns.
Answer(j) == QueriesFail(j) \/ Finish(j) \/ WokenUp(j) \/ NextRound(j) \/ WarmedUp(j)
\* A select goes on.
Proceed(j) == DoActivity(j) \/ FinalQuery(j) \/ ContextDone(j)

JobStep(j) ==
    \/ \E n \in Nodes, s \in Names, driver \in BOOLEAN : Start(j, n, s, driver)
    \/ Reach(j) \/ Answer(j) \/ Proceed(j) \/ Cancel(j)

Next == (\E j \in Jobs : JobStep(j)) \/ StrayReach \/ Suspend \/ Tick

Spec == Init /\ [][Next]_vars

\* Time passes, the provider suspends, requests return, goroutines are scheduled.
\* No query has to be executed, during its call or after.
Fairness ==
    /\ WF_vars(Tick) /\ WF_vars(Suspend)
    /\ \A j \in Jobs : WF_vars(Answer(j)) /\ WF_vars(Proceed(j))

FairSpec == Spec /\ Fairness
-----------------------------------------------------------------------------
(* Properties *)

\* alwaysOn does what it is named for: as long as its driver reports failures, a
\* job that waits, or whose query is not yet late, finds the endpoint awake.  An
\* endpoint that fell asleep is noticed as "last query was too long ago".
OnTime(j) == pc[j] = "wait" \/ (pc[j] = "loop" /\ since[j] <= TargetDuration)
AlwaysOnAwake == \A j \in Jobs : reports[j] /\ OnTime(j) => awake

\* Two queries of alwaysOn start at most half a suspend timeout apart, give or
\* take the lateness of one timer.
RoundsSpaced ==
    [][\A j \in Jobs : pc[j] = "wait" /\ pc'[j] = "loop" =>
          since[j] <= 2 * TargetDuration + Late]_vars

\* What awaitShutdown is for: its last query finds a sleeping endpoint, unless
\* meanwhile ANOTHER process queried the project (a lock reaches no further than
\* its process) or a query was executed whose call was over (a lock is given back
\* when the call returns).  No call under way in its own process excuses it.
AwaitShutdownSleeps ==
    \A j \in Jobs : pc[j] = "final" /\ ~reached[j] /\ awake => j \in disturbed

\* awaitShutdown returns, and alwaysOn does once its context is done, whatever
\* the endpoint does and whoever disturbs.
AwaitShutdownEnds == \A j \in Jobs : scen[j] = "awaitShutdown" ~> pc[j] = "idle"
CanceledEnds == \A j \in Jobs : j \in canceled ~> pc[j] = "idle"

\* A claim the code does not keep: "we want to make one query at least every 1/4
\* of suspend timeout" (query_scenario.go:77).
RoundEveryQuarter ==
    [][\A j \in Jobs : pc[j] = "wait" /\ pc'[j] = "loop" =>
          since[j] <= TargetDuration + Late]_vars
-----------------------------------------------------------------------------
(* The invariant behind the safety properties *)

\* alwaysOn: what is left of a wait and what is past make up two targets; the
\* endpoint was active since lastQuery, or since the one before that.
Past(j) == /\ pc[j] \in {"init", "loop"} /\ since[j] <= TargetDuration
           /\ reports[j]
Recently(j) ==
    /\ pc[j] = "wait" => timer[j] >= -Late /\ since[j] + timer[j] = 2 * TargetDuration
    /\ pc[j] = "wait" /\ reports[j] => awake /\ idle <= since[j]
    /\ Past(j) /\ reached[j] => awake /\ idle <= since[j]
    /\ Past(j) /\ pc[j] = "loop" => awake /\ idle <= since[j] + 2 * TargetDuration + Late

\* awaitShutdown: no other job of its process is there; an endpoint that is still
\* awake and that nothing else has queried was active before the wait began.
Alone(j) == j \notin disturbed
Longer(j) ==
    /\ pc[j] # "idle" => home[j] \in Nodes
    /\ pc[j] \in {"warmup", "sleep", "final"} => scen[j] = "awaitShutdown"
    /\ scen[j] = "awaitShutdown" =>
          \A i \in Jobs : i # j /\ pc[i] # "idle" => home[i] # home[j]
    /\ pc[j] = "sleep" /\ awake /\ Alone(j) => idle + timer[j] >= TargetTime
    /\ pc[j] = "final" /\ awake /\ Alone(j) => reached[j]

TimeInv ==
    /\ awake => idle <= SuspendTimeout + Grace
    /\ \A j \in Jobs : Recently(j) /\ Longer(j)
=============================================================================
