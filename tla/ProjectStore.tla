----------------------------- MODULE ProjectStore -----------------------------
(***************************************************************************)
(* How a project comes into being and goes away:                           *)
(*   internal/rules/create_project.go   a background job per region        *)
(*   internal/rules/delete_project.go   deleteProject, the four steps that *)
(*                                      write (choice and locks: module    *)
(*                                      ProjectRules)                      *)
(*   internal/rules/query_api.go        record, call, record the result    *)
(* across three stores that fail separately: the provider (Neon's API),    *)
(* the projects and sequences tables, and the queries table.  One region.  *)
(***************************************************************************)
EXTENDS Naturals

CONSTANTS Nodes,       \* processes; all share one database
          Creators,    \* executeForRegion jobs
          Home,        \* the process of a job
          Projects,    \* provider IDs, in order of creation: 1 .. k
          Timeouts,    \* values of suspend_timeout_seconds
          Default,     \* what a new endpoint starts with
          OneEndpoint, \* the projects that get exactly one endpoint
          MaxSeq,      \* bound: creation attempts per process
          None

ASSUME StoreAssumption ==
    /\ Home \in [Creators -> Nodes]
    /\ Projects \subseteq Nat
    /\ Default \in Timeouts
    /\ OneEndpoint \subseteq Projects
    /\ MaxSeq \in Nat
    /\ None \notin Projects \cup (Nodes \X Nat)

VARIABLES cloud, ops, endpoint, name,  \* the provider: projects, their operations,
                                       \* suspend timeout and name
          row, timeout, recent,        \* projects table; is its newest row recent?
          seq,                         \* sequences table
          createRec, deleteRec,        \* queries table: API records
          pc, num, proj, want,         \* locals of a creation job
          dpc, dproj                   \* locals of a deletion

providerVars == <<cloud, ops, endpoint, name>>
tableVars    == <<row, timeout, recent>>
recordVars   == <<createRec, deleteRec>>
jobVars      == <<pc, num, proj, want>>
mainVars     == <<dpc, dproj>>
vars == <<providerVars, tableVars, seq, recordVars, jobVars, mainVars>>

Numbers  == 0 .. MaxSeq
Statuses == {"none", "unfinished", "ok", "failed"}
JobSteps == {"idle", "seq", "save", "call", "finish", "post", "poll", "update", "insert"}
MainSteps == {"idle", "save", "drop", "call", "done", "undone"}

TypeOK ==
    /\ cloud \in [Projects -> {"none", "running", "gone"}]
    /\ ops \in [Projects -> {"running", "finished", "failed"}]
    /\ endpoint \in [Projects -> Timeouts]
    /\ name \in [Projects -> (Nodes \X Numbers) \cup {None}]
    /\ row \in [Projects -> {"absent", "live", "deleted"}]
    /\ timeout \in [Projects -> Timeouts]
    /\ recent \in BOOLEAN
    /\ seq \in [Nodes -> Numbers]
    /\ createRec \in [Nodes \X Numbers -> Statuses]
    /\ deleteRec \in [Nodes \X Projects -> Statuses]
    /\ pc \in [Creators -> JobSteps]
    /\ num \in [Creators -> Numbers]
    /\ proj \in [Creators -> Projects \cup {None}]
    /\ want \in [Creators -> Timeouts]
    /\ dpc \in [Nodes -> MainSteps]
    /\ dproj \in [Nodes -> Projects \cup {None}]

Init ==
    /\ cloud = [p \in Projects |-> "none"]
    /\ ops = [p \in Projects |-> "finished"]
    /\ endpoint = [p \in Projects |-> Default]
    /\ name = [p \in Projects |-> None]
    /\ row = [p \in Projects |-> "absent"]
    /\ timeout = [p \in Projects |-> Default]
    /\ recent = FALSE
    /\ seq = [n \in Nodes |-> 0]
    /\ createRec = [a \in Nodes \X Numbers |-> "none"]
    /\ deleteRec = [a \in Nodes \X Projects |-> "none"]
    /\ pc = [c \in Creators |-> "idle"]
    /\ num = [c \in Creators |-> 0]
    /\ proj = [c \in Creators |-> None]
    /\ want = [c \in Creators |-> Default]
    /\ dpc = [n \in Nodes |-> "idle"]
    /\ dproj = [n \in Nodes |-> None]
-----------------------------------------------------------------------------
(* The provider (external) *)

\* POST /projects: the new project, with its operations still running.
Provision(p, id) ==
    /\ cloud[p] = "none" /\ \A q \in Projects : q < p => cloud[q] # "none"
    /\ cloud' = [cloud EXCEPT ![p] = "running"]
    /\ ops' = [ops EXCEPT ![p] = "running"]
    /\ name' = [name EXCEPT ![p] = id]
    /\ UNCHANGED endpoint

\* "failed" stands for every status in which operations end but "finished".
OperationsFinish(p) ==
    /\ ops[p] = "running"
    /\ \E s \in {"finished", "failed"} : ops' = [ops EXCEPT ![p] = s]
    /\ UNCHANGED <<cloud, endpoint, name, tableVars, seq, recordVars, jobVars, mainVars>>

\* PATCH endpoint is refused while operations run, and starts new ones.
Reconfigure(p, t) ==
    /\ cloud[p] = "running" /\ ops[p] = "finished"
    /\ endpoint' = [endpoint EXCEPT ![p] = t]
    /\ ops' = [ops EXCEPT ![p] = "running"]
    /\ UNCHANGED <<cloud, name>>

\* DELETE /projects; a project that is gone answers 404.
Remove(p) ==
    /\ cloud[p] = "running"
    /\ cloud' = [cloud EXCEPT ![p] = "gone"]
    /\ UNCHANGED <<ops, endpoint, name>>
-----------------------------------------------------------------------------
(* CreateProject.  The answer to a statement or a call may be lost after it took *)
(* effect: the job then returns as after any error.                             *)

Goto(c, s) == pc' = [pc EXCEPT ![c] = s]
Locals == UNCHANGED <<num, proj, want>>
\* Return forgets the locals.
Return(c) == /\ Goto(c, "idle")
             /\ num' = [num EXCEPT ![c] = 0]
             /\ proj' = [proj EXCEPT ![c] = None]
             /\ want' = [want EXCEPT ![c] = Default]

Number(c) == <<Home[c], num[c]>>

\* Mutant: the newest row is not looked at.
FindNothing(c) ==
    /\ pc[c] = "idle"
    /\ Goto(c, "seq") /\ Locals
    /\ UNCHANGED <<providerVars, tableVars, seq, recordVars, mainVars>>

\* FindLastCreatedProject, deleted rows included.
FindLast(c) ==
    /\ pc[c] = "idle" /\ ~recent
    /\ Goto(c, "seq") /\ Locals
    /\ UNCHANGED <<providerVars, tableVars, seq, recordVars, mainVars>>

\* UPDATE sequences ... RETURNING, and the random choice of the parameters.
NextNumber(c) ==
    /\ pc[c] = "seq"
    /\ seq[Home[c]] < MaxSeq
    /\ seq' = [seq EXCEPT ![Home[c]] = @ + 1]
    /\ num' = [num EXCEPT ![c] = seq[Home[c]] + 1]
    /\ \E t \in Timeouts : want' = [want EXCEPT ![c] = t]
    /\ Goto(c, "save")
    /\ UNCHANGED <<providerVars, tableVars, recordVars, proj, mainVars>>

\* Mutant: the call first.
SaveNothing(c) ==
    /\ pc[c] = "save"
    /\ Goto(c, "call") /\ Locals
    /\ UNCHANGED <<providerVars, tableVars, seq, recordVars, mainVars>>

\* queryAPI: the record first ...
SaveCreate(c) ==
    /\ pc[c] = "save"
    /\ createRec' = [createRec EXCEPT ![Number(c)] = "unfinished"]
    /\ (Goto(c, "call") /\ Locals) \/ Return(c)
    /\ UNCHANGED <<providerVars, tableVars, seq, deleteRec, mainVars>>

\* ... then the call, whose answer may be lost after the project was made ...
CallCreate(c) ==
    /\ pc[c] = "call"
    /\ \/ \E p \in Projects :
             /\ Provision(p, Number(c))
             /\ proj' \in {[proj EXCEPT ![c] = p], proj}
       \/ UNCHANGED <<providerVars, proj>>
    /\ Goto(c, "finish")
    /\ UNCHANGED <<tableVars, seq, recordVars, num, want, mainVars>>

\* ... then the result; an error of any of the three ends the job.
FinishCreate(c) ==
    LET result == IF proj[c] = None THEN "failed" ELSE "ok" IN
    /\ pc[c] = "finish"
    /\ \/ /\ createRec' = [createRec EXCEPT ![Number(c)] = result]
          /\ IF result = "ok" THEN Goto(c, "post") /\ Locals ELSE Return(c)
       \/ UNCHANGED createRec /\ Return(c)
    /\ UNCHANGED <<providerVars, tableVars, seq, deleteRec, mainVars>>

\* Mutant: the timeout is never compared.
PostNothing(c) ==
    /\ pc[c] = "post"
    /\ Goto(c, "insert") /\ Locals
    /\ UNCHANGED <<providerVars, tableVars, seq, recordVars, mainVars>>

\* postCreate: nothing to do if the timeout is right, or if there is not
\* exactly one endpoint.
PostCreate(c) ==
    /\ pc[c] = "post"
    /\ IF proj[c] \in OneEndpoint /\ want[c] # endpoint[proj[c]]
       THEN Goto(c, "poll") ELSE Goto(c, "insert")
    /\ Locals
    /\ UNCHANGED <<providerVars, tableVars, seq, recordVars, mainVars>>

\* Mutant: the answer is compared with a status the provider never sends.
PollForEver(c) ==
    /\ pc[c] = "poll"
    /\ ops[proj[c]] = "done"
    /\ Goto(c, "update") /\ Locals
    /\ UNCHANGED <<providerVars, tableVars, seq, recordVars, mainVars>>

\* waitAllOperations: the poll that finds every operation finished; one that failed
\* counts as running.
PollOperations(c) ==
    /\ pc[c] = "poll"
    /\ ops[proj[c]] = "finished"
    /\ Goto(c, "update") /\ Locals
    /\ UNCHANGED <<providerVars, tableVars, seq, recordVars, mainVars>>

\* UpdateEndpoint; again the answer may be lost.
UpdateEndpoint(c) ==
    /\ pc[c] = "update"
    /\ Reconfigure(proj[c], want[c])
    /\ (Goto(c, "insert") /\ Locals) \/ Return(c)
    /\ UNCHANGED <<tableVars, seq, recordVars, mainVars>>

\* Mutant: the row has no timeout.
InsertRowUnset(c) ==
    /\ pc[c] = "insert"
    /\ row' = [row EXCEPT ![proj[c]] = "live"]
    /\ timeout' = [timeout EXCEPT ![proj[c]] = None]
    /\ recent' = TRUE
    /\ Return(c)
    /\ UNCHANGED <<providerVars, seq, recordVars, mainVars>>

\* INSERT INTO projects
InsertRow(c) ==
    /\ pc[c] = "insert"
    /\ row' = [row EXCEPT ![proj[c]] = "live"]
    /\ timeout' = [timeout EXCEPT ![proj[c]] = want[c]]
    /\ recent' = TRUE
    /\ Return(c)
    /\ UNCHANGED <<providerVars, seq, recordVars, mainVars>>

\* A statement or a call that fails without effect ends the job.
CreateFails(c) ==
    /\ pc[c] \in {"seq", "save", "poll", "update", "insert"}
    /\ Return(c)
    /\ UNCHANGED <<providerVars, tableVars, seq, recordVars, mainVars>>

\* The newest row gets older than the interval.
IntervalPasses ==
    /\ recent
    /\ recent' = FALSE
    /\ UNCHANGED <<providerVars, row, timeout, seq, recordVars, jobVars, mainVars>>
-----------------------------------------------------------------------------
(* DeleteProject *)

MainGoto(n, s) == dpc' = [dpc EXCEPT ![n] = s] /\ UNCHANGED dproj
MainReturn(n) == /\ dpc' = [dpc EXCEPT ![n] = "idle"]
                 /\ dproj' = [dproj EXCEPT ![n] = None]

StartDelete(n) ==
    /\ dpc[n] = "idle"
    /\ \E p \in Projects : row[p] = "live" /\ dproj' = [dproj EXCEPT ![n] = p]
    /\ dpc' = [dpc EXCEPT ![n] = "save"]
    /\ UNCHANGED <<providerVars, tableVars, seq, recordVars, jobVars>>

\* Mutant: the API is called before the row is withdrawn.
SaveThenCall(n) ==
    /\ dpc[n] = "save"
    /\ deleteRec' = [deleteRec EXCEPT ![<<n, dproj[n]>>] = "unfinished"]
    /\ MainGoto(n, "call")
    /\ UNCHANGED <<providerVars, tableVars, seq, createRec, jobVars>>

\* 1. save delete_project query to db
SaveDelete(n) ==
    /\ dpc[n] = "save"
    /\ deleteRec' = [deleteRec EXCEPT ![<<n, dproj[n]>>] = "unfinished"]
    /\ MainGoto(n, "drop") \/ MainReturn(n)
    /\ UNCHANGED <<providerVars, tableVars, seq, createRec, jobVars>>

\* 2. set deleted_at in db
DropRow(n) ==
    /\ dpc[n] = "drop"
    /\ row' = [row EXCEPT ![dproj[n]] = "deleted"]
    /\ MainGoto(n, "call") \/ MainReturn(n)
    /\ UNCHANGED <<providerVars, timeout, recent, seq, recordVars, jobVars>>

\* 3. call API
CallDelete(n) ==
    /\ dpc[n] = "call"
    /\ \/ Remove(dproj[n]) /\ (MainGoto(n, "done") \/ MainGoto(n, "undone"))
       \/ UNCHANGED providerVars /\ MainGoto(n, "undone")
    /\ UNCHANGED <<tableVars, seq, recordVars, jobVars>>

\* Mutants: the error is not recorded; the row is brought back after an error.
FinishAlwaysOk(n) ==
    /\ dpc[n] \in {"done", "undone"}
    /\ deleteRec' = [deleteRec EXCEPT ![<<n, dproj[n]>>] = "ok"]
    /\ MainReturn(n)
    /\ UNCHANGED <<providerVars, tableVars, seq, createRec, jobVars>>
FinishUndeletes(n) ==
    /\ dpc[n] \in {"done", "undone"}
    /\ row' = [row EXCEPT ![dproj[n]] = IF dpc[n] = "done" THEN "deleted" ELSE "live"]
    /\ MainReturn(n)
    /\ UNCHANGED <<providerVars, timeout, recent, seq, recordVars, jobVars>>

FinishDelete(n) ==
    /\ dpc[n] \in {"done", "undone"}
    /\ \/ deleteRec' = [deleteRec EXCEPT ![<<n, dproj[n]>>] =
                            IF dpc[n] = "done" THEN "ok" ELSE "failed"]
       \/ UNCHANGED deleteRec
    /\ MainReturn(n)
    /\ UNCHANGED <<providerVars, tableVars, seq, createRec, jobVars>>

DeleteFails(n) ==
    /\ dpc[n] \in {"save", "drop"}
    /\ MainReturn(n)
    /\ UNCHANGED <<providerVars, tableVars, seq, recordVars, jobVars>>

\* Mutant: the sequence starts again with the process.
CrashResets(n) ==
    /\ pc' = [c \in Creators |-> IF Home[c] = n THEN "idle" ELSE pc[c]]
    /\ num' = [c \in Creators |-> IF Home[c] = n THEN 0 ELSE num[c]]
    /\ proj' = [c \in Creators |-> IF Home[c] = n THEN None ELSE proj[c]]
    /\ want' = [c \in Creators |-> IF Home[c] = n THEN Default ELSE want[c]]
    /\ MainReturn(n)
    /\ seq' = [seq EXCEPT ![n] = 0]
    /\ UNCHANGED <<providerVars, tableVars, recordVars>>

\* The process dies between any two steps and starts again: SequenceRepo.Get
\* inserts the sequence only if it is not there.
Crash(n) ==
    /\ pc' = [c \in Creators |-> IF Home[c] = n THEN "idle" ELSE pc[c]]
    /\ num' = [c \in Creators |-> IF Home[c] = n THEN 0 ELSE num[c]]
    /\ proj' = [c \in Creators |-> IF Home[c] = n THEN None ELSE proj[c]]
    /\ want' = [c \in Creators |-> IF Home[c] = n THEN Default ELSE want[c]]
    /\ MainReturn(n)
    /\ UNCHANGED <<providerVars, tableVars, seq, recordVars>>
-----------------------------------------------------------------------------
CreateStep(c) ==
    \/ FindLast(c) \/ NextNumber(c) \/ SaveCreate(c) \/ CallCreate(c)
    \/ FinishCreate(c) \/ PostCreate(c) \/ PollOperations(c)
    \/ UpdateEndpoint(c) \/ InsertRow(c) \/ CreateFails(c)

DeleteStep(n) ==
    \/ StartDelete(n) \/ SaveDelete(n) \/ DropRow(n) \/ CallDelete(n)
    \/ FinishDelete(n) \/ DeleteFails(n)

Next ==
    \/ \E c \in Creators : CreateStep(c)
    \/ \E n \in Nodes : DeleteStep(n) \/ Crash(n)
    \/ \E p \in Projects : OperationsFinish(p)
    \/ IntervalPasses

Spec == Init /\ [][Next]_vars

\* A started job is scheduled, its calls are answered, and the operations the
\* provider has started end, well or not.  Nothing makes a job start or a step fail.
Fairness ==
    /\ \A c \in Creators :
          /\ WF_vars(NextNumber(c)) /\ WF_vars(SaveCreate(c)) /\ WF_vars(CallCreate(c))
          /\ WF_vars(FinishCreate(c)) /\ WF_vars(PostCreate(c))
          /\ WF_vars(PollOperations(c)) /\ WF_vars(UpdateEndpoint(c)) /\ WF_vars(InsertRow(c))
    /\ \A p \in Projects : WF_vars(OperationsFinish(p))

FairSpec == Spec /\ Fairness
-----------------------------------------------------------------------------
(* Properties *)

\* Rules only see projects that exist: the row is written after the project is
\* made and withdrawn before the provider is asked to remove it.
LiveIsBacked == \A p \in Projects : row[p] = "live" => cloud[p] = "running"

\* A project that was withdrawn and still exists at the provider is on record: a
\* delete_project query that failed or never finished, whatever crashed when.
DropLeavesTrace ==
    \A p \in Projects : row[p] = "deleted" /\ cloud[p] = "running" =>
        \E n \in Nodes : deleteRec[<<n, p>>] \in {"unfinished", "failed"}

\* No project exists without the CreateProject query that made it on record, not
\* even one whose answer was lost.
EveryProjectRecorded ==
    \A p \in Projects : cloud[p] # "none" =>
        createRec[name[p]] \in {"unfinished", "ok", "failed"}

\* Names are never used twice, across jobs, crashes and restarts.
NamesUnique ==
    \A p, q \in Projects : p # q /\ name[p] # None => name[p] # name[q]

\* The suspend timeout of a live row is the one its endpoint has ("Default
\* endpoint will be shut down after this timeout", models/project.go:36).
TimeoutTruthful ==
    \A p \in OneEndpoint : row[p] = "live" => timeout[p] = endpoint[p]

\* "Will create a project only if the last created project is older than
\* GapDuration" (create_project.go:114).
CreationSpaced == [][\A p \in Projects : row[p] = "absent" /\ row'[p] = "live" => ~recent]_vars

\* A creation job returns.  Only an operation that ends in failure may keep it: then
\* waitAllOperations polls on, until a poll fails.
Outwaits(c) == pc[c] = "poll" /\ ops[proj[c]] = "failed"
CreatorsReturn ==
    \A c \in Creators : pc[c] \notin {"idle", "seq"} ~> pc[c] = "idle" \/ Outwaits(c)

\* The abstract life of a project.
stage == [p \in Projects |->
    CASE cloud[p] = "none"                            -> "none"
      [] cloud[p] = "running" /\ row[p] = "absent"    -> "provisioned"
      [] row[p] = "live"                              -> "live"
      [] cloud[p] = "running" /\ row[p] = "deleted"   -> "retiring"
      [] OTHER                                        -> "gone"]
Lifecycle == INSTANCE ProjectLifecycle WITH Projects <- Projects, stage <- stage
LifecycleSpec == Lifecycle!Spec
=============================================================================
