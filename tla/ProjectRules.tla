----------------------------- MODULE ProjectRules -----------------------------
(***************************************************************************)
(* The rules that work on existing projects, on one or several processes   *)
(* that share one database:                                                *)
(*   internal/rules/query_project.go   background job, shared or exclusive *)
(*   internal/rules/change_mode.go     background job, wraps a query job   *)
(*   internal/rules/delete_project.go  runs in the main goroutine          *)
(*                                                                         *)
(* A step is one access to state another goroutine or process can see: the *)
(* lock table, a lock, the concurrency counter, a statement of the         *)
(* database.  SELECTs of FindRandomProjects are the first step of a rule.  *)
(***************************************************************************)
EXTENDS ProjectLocker, FiniteSets, FiniteSetsExt

CONSTANTS Rules,            \* instances of QueryProject, those inside ChangeMode included
          ExclusiveRules,   \* their scenario is awaitShutdown
          ChangeRules,      \* they are the QueryBeforeChange of a ChangeMode rule
          Limit,            \* ConcurrencyLimit of every rule, 0 for none
          Modes,            \* values of projects.current_mode
          Matrix,           \* the value of the DeleteProject matrix, by project
          ProjectsN,        \* DeleteProject.ProjectsN
          SkipFailed,       \* SkipFailedQueries.Enabled
          QueriesN,         \* SkipFailedQueries.QueriesN
          DatabaseLag,      \* a SELECT may still see a row deleted a moment ago
          LagCoversInFlight \* no fetch-to-Get window is longer than databaseMaxLag

ASSUME RulesAssumption ==
    /\ Rules # {} /\ ExclusiveRules \subseteq Rules /\ ChangeRules \subseteq Rules
    /\ Limit \in [Rules -> Nat]
ASSUME JobsAssumption == IsFiniteSet(Jobs)
ASSUME ArgsAssumption ==
    /\ ProjectsN \in Nat /\ QueriesN \in Nat \ {0}
    /\ {SkipFailed, DatabaseLag, LagCoversInFlight} \subseteq BOOLEAN

VARIABLES row,       \* projects table: no row, a row, a row with deleted_at set
          lagging,   \* deleted rows a SELECT may still return
          mode,      \* projects.current_mode
          recent,    \* queries table: the last QueriesN records of a project
          running,   \* QueryProject.nowRunning, by process and rule
          pc, rule, target, ptr, outer, err,  \* locals of a background job
          dpc, dtarget, dptr                        \* locals of a main goroutine

dbVars   == <<row, lagging, mode, recent>>
jobVars  == <<pc, rule, target, ptr, outer, err>>
mainVars == <<dpc, dtarget, dptr>>
vars     == <<lockerVars, dbVars, running, jobVars, mainVars>>

Window   == 1 .. QueriesN
Statuses == {"ok", "failed", "unfinished"}
Records  == [by : Nodes \cup {None}, st : Statuses]
JobSteps == {"idle", "outer", "get", "lock", "count", "connect", "run",
             "uncount", "unlock", "swap", "update", "settle"}
MainSteps == {"idle", "get", "lock", "check", "recent", "save", "drop",
              "call", "retire", "unlock"}

DbTypeOK ==
    /\ row \in [Projects -> {"absent", "live", "deleted"}]
    /\ lagging \in SUBSET Projects
    /\ mode \in [Projects -> Modes]
    /\ recent \in [Projects -> [Window -> Records]]

JobTypeOK ==
    /\ running \in [Nodes -> [Rules -> Int]]
    /\ pc \in [Jobs -> JobSteps]
    /\ rule \in [Jobs -> Rules \cup {None}]
    /\ target \in [Jobs -> Projects \cup {None}]
    /\ ptr \in [Jobs -> Locks \cup {None}]
    /\ outer \in [Jobs -> Locks \cup {None}]
    /\ err \in [Jobs -> BOOLEAN]

MainTypeOK ==
    /\ dpc \in [Nodes -> MainSteps]
    /\ dtarget \in [Nodes -> Projects \cup {None}]
    /\ dptr \in [Nodes -> Locks \cup {None}]

TypeOK == LockerTypeOK /\ DbTypeOK /\ JobTypeOK /\ MainTypeOK

\* A record nobody will update any more; it also stands for no record.
Blank == [by |-> None, st |-> "ok"]

Init ==
    /\ LockerInit
    /\ row \in [Projects -> {"absent", "live"}]
    /\ lagging = {}
    /\ mode \in [Projects -> Modes]
    /\ recent = [p \in Projects |-> [i \in Window |-> Blank]]
    /\ running = [n \in Nodes |-> [r \in Rules |-> 0]]
    /\ pc = [j \in Jobs |-> "idle"]
    /\ rule = [j \in Jobs |-> None]
    /\ target = [j \in Jobs |-> None]
    /\ ptr = [j \in Jobs |-> None]
    /\ outer = [j \in Jobs |-> None]
    /\ err = [j \in Jobs |-> FALSE]
    /\ dpc = [n \in Nodes |-> "idle"]
    /\ dtarget = [n \in Nodes |-> None]
    /\ dptr = [n \in Nodes |-> None]
-----------------------------------------------------------------------------
(* The database *)

\* Rows FindRandomProjects may return: deleted_at IS NULL, give or take the lag.
Selectable(p) == row[p] = "live" \/ p \in lagging

\* INSERT INTO queries, newest first.  The drivers save a query once, when it is
\* over; only the API query of a deletion is saved unfinished, then updated.
Push(p, t, s) == [recent EXCEPT ![p] = [i \in Window |->
                    IF i = 1 THEN [by |-> t, st |-> s] ELSE recent[p][i - 1]]]
Finish(p, t, s) == [recent EXCEPT ![p] = [i \in Window |->
                    IF recent[p][i].by = t THEN [by |-> None, st |-> s] ELSE recent[p][i]]]

\* The last step of CreateProject inserts the row (module ProjectStore).
InsertProject(p) ==
    /\ row[p] = "absent"
    /\ row' = [row EXCEPT ![p] = "live"]
    /\ UNCHANGED <<lockerVars, lagging, mode, recent, running, jobVars, mainVars>>

LagEnds(p) ==
    /\ p \in lagging
    /\ lagging' = lagging \ {p}
    /\ UNCHANGED <<lockerVars, row, mode, recent, running, jobVars, mainVars>>
-----------------------------------------------------------------------------
(* A background job: QueryProject, and ChangeMode around it *)

Locals == UNCHANGED <<rule, target, ptr, outer, err>>
Goto(j, s) == pc' = [pc EXCEPT ![j] = s]
Return(j) == /\ Goto(j, "idle")
             /\ rule' = [rule EXCEPT ![j] = None]
             /\ target' = [target EXCEPT ![j] = None]
             /\ ptr' = [ptr EXCEPT ![j] = None]
             /\ outer' = [outer EXCEPT ![j] = None]
             /\ err' = [err EXCEPT ![j] = FALSE]

\* Execute in the main goroutine: one of the rows found, copied into the job.
StartJob(j, r, p) ==
    /\ pc[j] = "idle" /\ dpc[Home[j]] = "idle"
    /\ Selectable(p)
    /\ Goto(j, IF r \in ChangeRules THEN "outer" ELSE "get")
    /\ rule' = [rule EXCEPT ![j] = r]
    /\ target' = [target EXCEPT ![j] = p]
    /\ UNCHANGED <<lockerVars, dbVars, running, ptr, outer, err, mainVars>>

\* ChangeMode.executeForProject asks for the lock before it queries.
GetOuter(j) ==
    /\ pc[j] = "outer"
    /\ outer' = [outer EXCEPT ![j] = Pointer(Home[j], target[j])]
    /\ Get(Home[j], target[j])
    /\ Goto(j, "get")
    /\ UNCHANGED <<dbVars, running, rule, target, ptr, err, mainVars>>

GetLock(j) ==
    /\ pc[j] = "get"
    /\ ptr' = [ptr EXCEPT ![j] = Pointer(Home[j], target[j])]
    /\ Get(Home[j], target[j])
    /\ Goto(j, "lock")
    /\ UNCHANGED <<dbVars, running, rule, target, outer, err, mainVars>>

\* Mutant: no scenario is exclusive.
LockKindShared(r) == "shared"

LockKind(r) == IF r \in ExclusiveRules THEN "exclusive" ELSE "shared"

TryLock(j) ==
    /\ pc[j] = "lock"
    /\ UNCHANGED <<dbVars, running, mainVars>>
    /\ \/ /\ Acquire(j, ptr[j], LockKind(rule[j]))
          /\ Goto(j, "count") /\ Locals
       \/ /\ ~Free(ptr[j], LockKind(rule[j]))       \* ErrProjectLocked
          /\ Return(j) /\ UNCHANGED lockerVars

\* Mutant: the value before Add is compared.
OverLate(j) == Limit[rule[j]] > 0 /\ running[Home[j]][rule[j]] > Limit[rule[j]]

\* nowRunning.Add(1) and the check of its result.
Over(j) == Limit[rule[j]] > 0 /\ running[Home[j]][rule[j]] + 1 > Limit[rule[j]]
Count(j) ==
    /\ pc[j] = "count"
    /\ running' = [running EXCEPT ![Home[j]][rule[j]] = @ + 1]
    /\ err' = [err EXCEPT ![j] = Over(j)]               \* ErrConcurrencyLimit
    /\ Goto(j, IF Over(j) THEN "uncount" ELSE "connect")
    /\ UNCHANGED <<lockerVars, dbVars, rule, target, ptr, outer, mainVars>>

\* A finished query of job j leaves a record, or none if it cannot be saved.  Save
\* may lose its answer: an error, and a record all the same.
Recorded(j, s) == recent' = Push(target[j], None, s)
Unrecorded == UNCHANGED recent

Fail(j) == Goto(j, "uncount") /\ err' = [err EXCEPT ![j] = TRUE]

\* randomDriver: one driver connects, and records it; the others do neither.
Connect(j) ==
    /\ pc[j] = "connect"
    /\ \/ (Recorded(j, "ok") \/ Unrecorded) /\ Goto(j, "run") /\ UNCHANGED err
       \/ (Recorded(j, "ok") \/ Recorded(j, "failed") \/ Unrecorded) /\ Fail(j)
    /\ UNCHANGED <<lockerVars, row, lagging, mode, running, rule, target, ptr, outer, mainVars>>

\* One query of the scenario.  A failure or an unsaved record ends it, except
\* that the Vercel driver does not report the failure of a single query.
Query(j) ==
    /\ pc[j] = "run"
    /\ \/ (Recorded(j, "ok") \/ Recorded(j, "failed")) /\ UNCHANGED <<pc, err>>
       \/ (Recorded(j, "ok") \/ Recorded(j, "failed") \/ Unrecorded) /\ Fail(j)
    /\ UNCHANGED <<lockerVars, row, lagging, mode, running, rule, target, ptr, outer, mainVars>>

\* After the last query, or because the context is done or a deadline missed.
EndScenario(j) ==
    /\ pc[j] = "run"
    /\ \/ Goto(j, "uncount") /\ UNCHANGED err
       \/ Fail(j)
    /\ UNCHANGED <<lockerVars, dbVars, running, rule, target, ptr, outer, mainVars>>

\* Mutant: a job that stops with an error, the limit reached or a failed query,
\* returns before the count is taken back.
UncountOnSuccess(j) ==
    /\ pc[j] = "uncount"
    /\ running' = IF err[j] THEN running ELSE [running EXCEPT ![Home[j]][rule[j]] = @ - 1]
    /\ Goto(j, "unlock") /\ Locals
    /\ UNCHANGED <<lockerVars, dbVars, mainVars>>

\* The deferred calls: nowRunning.Add(-1), then unlock.
Uncount(j) ==
    /\ pc[j] = "uncount"
    /\ running' = [running EXCEPT ![Home[j]][rule[j]] = @ - 1]
    /\ Goto(j, "unlock") /\ Locals
    /\ UNCHANGED <<lockerVars, dbVars, mainVars>>

Unlock(j) ==
    /\ pc[j] = "unlock"
    /\ Release(j)
    /\ IF rule[j] \in ChangeRules /\ ~err[j] THEN Goto(j, "swap") /\ Locals
                                             ELSE Return(j)
    /\ UNCHANGED <<dbVars, running, mainVars>>

\* Mutant: a shared lock for the update.
SwapLockShared(j) ==
    /\ pc[j] = "swap"
    /\ UNCHANGED <<dbVars, running, mainVars>>
    /\ \/ Acquire(j, outer[j], "shared") /\ Goto(j, "update") /\ Locals
       \/ ~Free(outer[j], "shared") /\ Return(j) /\ UNCHANGED lockerVars

\* ChangeMode locks the pointer it got before the query.
SwapLock(j) ==
    /\ pc[j] = "swap"
    /\ UNCHANGED <<dbVars, running, mainVars>>
    /\ \/ Acquire(j, outer[j], "exclusive") /\ Goto(j, "update") /\ Locals
       \/ ~Free(outer[j], "exclusive") /\ Return(j) /\ UNCHANGED lockerVars

\* Mutant: the new mode was never picked.
UpdateModeUnset(j) ==
    /\ pc[j] = "update"
    /\ row[target[j]] = "live" /\ mode' = [mode EXCEPT ![target[j]] = None]
    /\ Goto(j, "settle") /\ Locals
    /\ UNCHANGED <<lockerVars, row, lagging, recent, running, mainVars>>

\* UPDATE projects SET current_mode WHERE id AND deleted_at IS NULL.
UpdateMode(j) ==
    /\ pc[j] = "update"
    /\ \/ /\ row[target[j]] = "live"
          /\ \E m \in Modes : mode' = [mode EXCEPT ![target[j]] = m]
       \/ UNCHANGED mode                             \* no row matches, or an error
    /\ Goto(j, "settle") /\ Locals
    /\ UNCHANGED <<lockerVars, row, lagging, recent, running, mainVars>>

\* After time.Sleep(time.Second), or at once after an error.
EndChange(j) ==
    /\ pc[j] = "settle"
    /\ Release(j) /\ Return(j)
    /\ UNCHANGED <<dbVars, running, mainVars>>
-----------------------------------------------------------------------------
(* DeleteProject, in the main goroutine of process n *)

MainGoto(n, s) == dpc' = [dpc EXCEPT ![n] = s] /\ UNCHANGED <<dtarget, dptr>>

\* Mutant: any of the rows taken, without the order.
Whichever(S, p) == p \in S

\* sort.Slice by creation date, then projects[len(projects)/2].
Middle(S, p) == p \in S /\ Cardinality({q \in S : q < p}) = Cardinality(S) \div 2

\* randomProject picks a matrix; ProjectsN + 1 random rows of it must exist;
\* one of the first ProjectsN of them is chosen (the only one if ProjectsN = 0).
SelectForDelete(n) ==
    /\ dpc[n] = "idle"
    /\ \E p0 \in Projects : \E p \in Projects :
         LET similar == {q \in Projects : Selectable(q) /\ Matrix[q] = Matrix[p0]}
             taken   == IF ProjectsN > 0 THEN ProjectsN ELSE 1
         IN  /\ Selectable(p0)
             /\ Cardinality(similar) > ProjectsN
             /\ \E S \in kSubset(taken, similar) : Middle(S, p)
             /\ p \in similar
             /\ dtarget' = [dtarget EXCEPT ![n] = p]
    /\ dpc' = [dpc EXCEPT ![n] = "get"]
    /\ UNCHANGED <<lockerVars, dbVars, running, jobVars, dptr>>

DeleteGetLock(n) ==
    /\ dpc[n] = "get"
    /\ dptr' = [dptr EXCEPT ![n] = Pointer(n, dtarget[n])]
    /\ Get(n, dtarget[n])
    /\ dpc' = [dpc EXCEPT ![n] = "lock"]
    /\ UNCHANGED <<dbVars, running, jobVars, dtarget>>

MainReturn(n) == /\ dpc' = [dpc EXCEPT ![n] = "idle"]
                 /\ dtarget' = [dtarget EXCEPT ![n] = None]
                 /\ dptr' = [dptr EXCEPT ![n] = None]

DeleteTryLock(n) ==
    /\ dpc[n] = "lock"
    /\ UNCHANGED <<dbVars, running, jobVars>>
    /\ \/ Acquire(n, dptr[n], "exclusive") /\ MainGoto(n, "check")
       \/ ~Free(dptr[n], "exclusive") /\ MainReturn(n) /\ UNCHANGED lockerVars

\* Mutant: the flag is not looked at.
DeleteIgnoreFlag(n) ==
    /\ dpc[n] = "check"
    /\ MainGoto(n, IF SkipFailed THEN "recent" ELSE "save")
    /\ UNCHANGED <<lockerVars, dbVars, running, jobVars>>

\* projectLock.Deleted.Load()
DeleteCheckFlag(n) ==
    /\ dpc[n] = "check"
    /\ MainGoto(n, IF dptr[n] \in deleted THEN "unlock"
                   ELSE IF SkipFailed THEN "recent" ELSE "save")
    /\ UNCHANGED <<lockerVars, dbVars, running, jobVars>>

Clean(p) == \A i \in Window : recent[p][i].st = "ok"

\* hasRecentFailedQueries; an error in fetching them prevents the deletion too.
DeleteCheckRecent(n) ==
    /\ dpc[n] = "recent"
    /\ \/ Clean(dtarget[n]) /\ MainGoto(n, "save")
       \/ MainGoto(n, "unlock")
    /\ UNCHANGED <<lockerVars, dbVars, running, jobVars>>

\* 1. save delete_project query to db; a record whose answer is lost stays.
SaveDeleteQuery(n) ==
    /\ dpc[n] = "save"
    /\ \/ recent' = Push(dtarget[n], n, "unfinished") /\ MainGoto(n, "drop")
       \/ (recent' = Push(dtarget[n], None, "unfinished") \/ UNCHANGED recent)
          /\ MainGoto(n, "unlock")
    /\ UNCHANGED <<lockerVars, row, lagging, mode, running, jobVars>>

\* 2. set deleted_at in db (rows affected are not looked at).  A failure, or a lost
\* answer, leaves the record of step 1 unfinished for good.
SoftDelete(n) ==
    LET p == dtarget[n]
        dropped ==
            /\ row' = [row EXCEPT ![p] = "deleted"]
            /\ lagging' = IF DatabaseLag /\ row[p] = "live" THEN lagging \cup {p} ELSE lagging
    IN
    /\ dpc[n] = "drop"
    /\ \/ dropped /\ UNCHANGED recent /\ MainGoto(n, "call")
       \/ /\ dropped \/ UNCHANGED <<row, lagging>>
          /\ recent' = Finish(p, n, "unfinished") /\ MainGoto(n, "unlock")
    /\ UNCHANGED <<lockerVars, mode, running, jobVars>>

\* 3. call API, FinishSaveResult; Deleted is set only if both succeed.
CallDelete(n) ==
    /\ dpc[n] = "call"
    /\ \/ recent' = Finish(dtarget[n], n, "ok") /\ MainGoto(n, "retire")
       \/ \E s \in {"failed", "unfinished"} :
             recent' = Finish(dtarget[n], n, s) /\ MainGoto(n, "unlock")
    /\ UNCHANGED <<lockerVars, row, lagging, mode, running, jobVars>>

RetireLock(n) ==
    /\ dpc[n] = "retire"
    /\ Retire(dptr[n]) /\ MainGoto(n, "unlock")
    /\ UNCHANGED <<dbVars, running, jobVars>>

DeleteUnlock(n) ==
    /\ dpc[n] = "unlock"
    /\ Release(n) /\ MainReturn(n)
    /\ UNCHANGED <<dbVars, running, jobVars>>
-----------------------------------------------------------------------------
(* Time and failure *)

\* A thread that has read the row of p and has not asked for its lock yet.
InFlight(n, p) ==
    \/ \E j \in Jobs : Home[j] = n /\ pc[j] \in {"outer", "get"} /\ target[j] = p
    \/ dpc[n] = "get" /\ dtarget[n] = p

\* Mutant: ProjectLocker.Delete does not sleep.
ReapAtOnce(n, p) == Reap(n, p) /\ UNCHANGED <<dbVars, running, jobVars, mainVars>>

\* The sleep of ProjectLocker.Delete outlasts the lag of the database and, when
\* LagCoversInFlight, every window between a SELECT and Get.
ReapLock(n, p) ==
    /\ p \notin lagging
    /\ LagCoversInFlight => ~InFlight(n, p)
    /\ Reap(n, p)
    /\ UNCHANGED <<dbVars, running, jobVars, mainVars>>

\* The process dies and is started again by its supervisor: its memory is lost,
\* its unfinished records stay.
Crash(n) ==
    LET lost(j) == Home[j] = n IN
    /\ Forget(n)
    /\ recent' = [p \in Projects |-> [i \in Window |->
                    IF recent[p][i].by = n
                    THEN [by |-> None, st |-> recent[p][i].st] ELSE recent[p][i]]]
    /\ running' = [running EXCEPT ![n] = [r \in Rules |-> 0]]
    /\ pc' = [j \in Jobs |-> IF lost(j) THEN "idle" ELSE pc[j]]
    /\ rule' = [j \in Jobs |-> IF lost(j) THEN None ELSE rule[j]]
    /\ target' = [j \in Jobs |-> IF lost(j) THEN None ELSE target[j]]
    /\ ptr' = [j \in Jobs |-> IF lost(j) THEN None ELSE ptr[j]]
    /\ outer' = [j \in Jobs |-> IF lost(j) THEN None ELSE outer[j]]
    /\ err' = [j \in Jobs |-> IF lost(j) THEN FALSE ELSE err[j]]
    /\ dpc' = [dpc EXCEPT ![n] = "idle"]
    /\ dtarget' = [dtarget EXCEPT ![n] = None]
    /\ dptr' = [dptr EXCEPT ![n] = None]
    /\ UNCHANGED <<row, lagging, mode>>
-----------------------------------------------------------------------------
QueryStep(j) ==
    \/ \E r \in Rules, p \in Projects : StartJob(j, r, p)
    \/ GetLock(j) \/ TryLock(j) \/ Count(j) \/ Connect(j) \/ Query(j)
    \/ EndScenario(j) \/ Uncount(j) \/ Unlock(j)

ChangeStep(j) == GetOuter(j) \/ SwapLock(j) \/ UpdateMode(j) \/ EndChange(j)

DeleteStep(n) ==
    \/ SelectForDelete(n) \/ DeleteGetLock(n) \/ DeleteTryLock(n)
    \/ DeleteCheckFlag(n) \/ DeleteCheckRecent(n) \/ SaveDeleteQuery(n)
    \/ SoftDelete(n) \/ CallDelete(n) \/ RetireLock(n) \/ DeleteUnlock(n)

Next ==
    \/ \E j \in Jobs : QueryStep(j) \/ ChangeStep(j)
    \/ \E n \in Nodes : DeleteStep(n) \/ Crash(n)
    \/ \E p \in Projects : InsertProject(p) \/ LagEnds(p)
    \/ \E n \in Nodes, p \in Projects : ReapLock(n, p)

Spec == Init /\ [][Next]_vars
-----------------------------------------------------------------------------
(* Properties *)

\* Threads between lock and unlock, and those that talk to the database of the
\* project or have decided to delete it.
Querying(j) == pc[j] \in {"connect", "run"}
Changing(j) == pc[j] \in {"update", "settle"}
Deleting(n) == dpc[n] \in {"recent", "save", "drop", "call", "retire"}

\* All threads of a process agree on the lock of p: always while the row is
\* live, and after its deletion if the reaper never overtakes a stale reader.
Protected(p) == row[p] = "live" \/ LagCoversInFlight

\* "Prevent deleting a project while it's being queried" (query_lock.go:10):
\* a process never runs DeleteProject on a project one of its jobs queries.
NoDeleteWhileQueried ==
    \A n \in Nodes, j \in Jobs :
        /\ Home[j] = n /\ Querying(j) /\ Deleting(n)
        /\ target[j] = dtarget[n]
        => ~Protected(target[j])

\* awaitShutdown is alone with its project among the jobs of its process
\* (query_scenario.go, exclusive): no query, no change of mode.
ExclusiveScenarioAlone ==
    \A i, j \in Jobs :
        /\ i # j /\ Home[i] = Home[j] /\ target[i] = target[j]
        /\ Querying(i) /\ rule[i] \in ExclusiveRules
        /\ Querying(j) \/ Changing(j)
        => ~Protected(target[i])

\* ChangeMode updates a row under the lock it looked up before its own query,
\* and still no job of the process queries the project at that moment.
ModeStableWhileQueried ==
    [][\A j \in Jobs :
          pc[j] = "update" /\ mode'[target[j]] # mode[target[j]] =>
              \A i \in Jobs : Home[i] = Home[j] /\ target[i] = target[j] => ~Querying(i)]_vars

\* ConcurrencyLimit bounds the jobs of a rule that connect or query at once.
InQuery(n, r) == {j \in Jobs : Home[j] = n /\ rule[j] = r /\ Querying(j)}
LimitRespected ==
    \A n \in Nodes, r \in Rules : Limit[r] > 0 => Cardinality(InQuery(n, r)) <= Limit[r]

\* nowRunning counts the jobs between its two Add calls: none is lost on an
\* early return, none is given back twice.
Counted(n, r) == {j \in Jobs : /\ Home[j] = n /\ rule[j] = r
                               /\ pc[j] \in {"connect", "run", "uncount"}}
CounterExact == \A n \in Nodes, r \in Rules : running[n][r] = Cardinality(Counted(n, r))

\* "Project will be deleted if there are more than this number"
\* (delete_project.go:33).  The first row of a matrix is dropped while more are live.
\* Later a process can only say so of its own count; however many count at the same
\* time, they drop one row further at most, since all of them choose in the middle.
Similar(p) == {q \in Projects : row[q] = "live" /\ Matrix[q] = Matrix[p]}
NoneGone(p) == \A q \in Projects : Matrix[q] = Matrix[p] => row[q] # "deleted"
DeletionKeepsTarget ==
    [][\A p \in Projects : row[p] = "live" /\ row'[p] = "deleted" =>
          /\ Cardinality(Similar(p)) >= ProjectsN
          /\ NoneGone(p) => Cardinality(Similar(p)) > ProjectsN]_vars

\* The same to the letter: what a lone process keeps (proved, no run checks it).
DeletionExact ==
    [][\A p \in Projects : row[p] = "live" /\ row'[p] = "deleted" =>
          Cardinality(Similar(p)) > ProjectsN]_vars

\* "Projects with last failed or unfinished queries will not be deleted"
\* (delete_project.go:42): they still are all fine when a live row is dropped,
\* behind the record of the deletion itself.
DeletionSparesFailing ==
    [][\A n \in Nodes :
          /\ dpc[n] = "drop" /\ dpc'[n] # "drop" /\ SkipFailed
          /\ row[dtarget[n]] = "live" /\ row'[dtarget[n]] = "deleted"
          => \A i \in Window \ {1} : recent[dtarget[n]][i].st = "ok"]_vars

\* Once process n has deleted a project, no stale row makes it go through the
\* deletion again: the flag outlives the lag of the database (query_lock.go:40).
NoSecondDelete ==
    \A n \in Nodes : \A l \in deleted :
        l[1] = n /\ l[2] = dtarget[n] => dpc[n] \notin {"recent", "save", "drop", "call"}

\* A claim of the sources that the code does not keep (see README, disagreements).
\* "Postpone deletion to protect against in-flight requests" (query_lock.go:40):
\* no job queries a project whose deletion its own process completed.
NoQueryAfterDelete ==
    \A j \in Jobs : pc[j] = "run" => <<Home[j], target[j]>> \notin {<<l[1], l[2]>> : l \in deleted}
-----------------------------------------------------------------------------
(* The invariant behind the exclusion properties *)

Inside(j) == pc[j] \in {"count", "connect", "run", "uncount", "unlock"}
MainInside(n) == dpc[n] \in {"check", "recent", "save", "drop", "call", "retire", "unlock"}

\* Who holds what, by program counter.
Grip ==
    /\ \A j \in Jobs :
          /\ Inside(j) => kind[j] = LockKind(rule[j]) /\ held[j] = ptr[j]
          /\ Changing(j) => kind[j] = "exclusive" /\ held[j] = outer[j]
          /\ ~Inside(j) /\ ~Changing(j) => kind[j] = "none"
    /\ \A n \in Nodes :
          IF MainInside(n) THEN kind[n] = "exclusive" /\ held[n] = dptr[n]
                           ELSE kind[n] = "none"

\* The pointers a thread uses come from the table of its own process.
Issued(l, n, p) == \E g \in 1 .. gen[n][p] : l = <<n, p, g>>
Pointers ==
    /\ \A n \in Nodes, p \in Projects : <<n, p>> \in inMap => gen[n][p] > 0
    /\ \A j \in Jobs :
          /\ pc[j] # "idle" => target[j] \in Projects /\ rule[j] \in Rules
          /\ pc[j] = "lock" \/ Inside(j) => Issued(ptr[j], Home[j], target[j])
          /\ pc[j] \in {"outer", "swap"} \/ Changing(j) => rule[j] \in ChangeRules
          /\ pc[j] \notin {"idle", "outer"} /\ rule[j] \in ChangeRules
                => Issued(outer[j], Home[j], target[j])
    /\ \A n \in Nodes :
          /\ dpc[n] # "idle" => dtarget[n] \in Projects
          /\ dpc[n] \notin {"idle", "get"} => Issued(dptr[n], n, dtarget[n])

\* One pointer, at most one writer or many readers.
Mutex == \A t, u \in Threads :
    t # u /\ kind[t] # "none" /\ kind[u] # "none" /\ held[t] = held[u]
    => kind[t] = "shared" /\ kind[u] = "shared"

\* A table entry is only removed after its project was dropped for good ...
Doomed ==
    /\ \A p \in lagging : row[p] = "deleted"
    /\ \A k \in reapers : row[k[2]] = "deleted"
    /\ \A n \in Nodes : dpc[n] \in {"call", "retire"} => row[dtarget[n]] = "deleted"

\* ... so that a process makes one lock for a project, and no second one before
\* the drop, nor later if no reader of the row is left when the entry goes.
Reaped(n, p) == gen[n][p] > 0 /\ <<n, p>> \notin inMap
OneLock == \A n \in Nodes, p \in Projects :
    /\ row[p] # "deleted" => ~Reaped(n, p)
    /\ LagCoversInFlight /\ Reaped(n, p) => p \notin lagging /\ ~InFlight(n, p)
    /\ row[p] # "deleted" \/ LagCoversInFlight => gen[n][p] \in {0, 1}

LockInv == Grip /\ Pointers /\ Mutex /\ Doomed /\ OneLock
-----------------------------------------------------------------------------
(* What the locks are for *)

\* What a thread does under a lock; a main goroutine has read the flag by then.
WorkOf(t) ==
    IF t \in Nodes THEN IF Deleting(t) THEN "delete" ELSE "nothing"
    ELSE IF Inside(t) THEN IF rule[t] \in ExclusiveRules THEN "alone" ELSE "query"
    ELSE IF Changing(t) THEN "change" ELSE "nothing"
PlaceOf(t) ==
    IF WorkOf(t) = "nothing" THEN None
    ELSE <<NodeOf(t), IF t \in Nodes THEN dtarget[t] ELSE target[t]>>
doing == [t \in Threads |-> WorkOf(t)]
at == [t \in Threads |-> PlaceOf(t)]
done == {<<l[1], l[2]>> : l \in deleted}

\* The threads of a process share, keep apart and delete projects as ProjectAccess
\* says, if every process has one lock for a project (LagCoversInFlight).
Access == INSTANCE ProjectAccess WITH
    Threads <- Threads, Owner <- [t \in Threads |-> NodeOf(t)],
    Nodes <- Nodes, Projects <- Projects, None <- None,
    doing <- doing, at <- at, done <- done
AccessSpec == Access!Spec
=============================================================================
