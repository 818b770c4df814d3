# Verification of neon-lights

neon-lights (this repository) keeps a population of Neon projects alive for
monitoring: rules create projects, query them, change their mode and delete
them; everything that was sent to a database or to the provider's API is
recorded.  This directory holds TLA+ models of the program, the TLC instances
that check them, and proofs about them for TLAPS.

    tlc -config rules_locks.cfg MCProjectRules     check one instance
    tlapm ProjectRulesProof.tla                    check the proofs of one component

Paths below are relative to the repository.

## Inventory

| component | state | operations | interacts with |
|---|---|---|---|
| project locks, `internal/bgjobs/query_lock.go` | map from project ID to lock; per lock a RWMutex and a `Deleted` flag | `Get`, `TryExclusiveLock`, `TrySharedLock`, `Delete` (a goroutine that sleeps 30 s, then removes the entry) | all rules on existing projects |
| query_project, `internal/rules/query_project.go`, `query_scenario.go` | `nowRunning`; locals of one background job per project | lock, count, connect, run a scenario | locks, drivers, query records |
| change_mode, `internal/rules/change_mode.go` | locals of a job | a query job, then an exclusive lock and an UPDATE | locks, projects table |
| delete_project, `internal/rules/delete_project.go` | locals of the main goroutine | choose, lock, check, record, drop the row, call the API, record, retire the lock | locks, both tables, provider |
| create_project, `internal/rules/create_project.go`, `query_api.go` | locals of one background job per region | look up the newest row, number, record, call, wait for operations, update the endpoint, insert the row | sequence, both tables, provider |
| executor and global rules, `internal/rules/executor.go`, `do_global_rules.go`, `rule.go` | loaded rules with `lastRun`, the table they came from, one context per load | periodic loop, reload, `MinInterval`, `Timeout` | all rules |
| background jobs, `internal/bgjobs/jobs.go`, `main.go` | a wait group, the root context | `Go`, `WaitAll`, the signal | executor, all jobs |
| repositories, `internal/repos/` | the tables projects, queries, sequences, global_rules, regions | one SQL statement each | all rules |
| provider client, `internal/neonapi/` | none | one HTTP call each | create_project, delete_project |
| drivers, `internal/drivers/` | a connection | connect, query; every finished query is saved | query_project, query records |
| algorithms: `rdesc/wrand.go`, `rule.go`, `repos/sql_filters.go`, `models/project.go` | none | weighted choice, period, matrix filters, common features | rules |
| wiring, configuration, logging, test rule | none | straight-line | |

What is hard here: one main goroutine executes the rules and many background
jobs run on rows it read earlier; they meet in the lock table, in counters and
in three stores (provider, projects, queries) that fail separately; a process
can be killed between any two statements; several processes share the database
and nothing else; rule objects are replaced while jobs of the old ones run.

What makes it correct, per component:
- locks: one lock per project and process as long as it matters; nobody
  deletes what is queried; exclusive scenarios are alone; a mode changes only
  between queries;
- query_project: the limit is kept, the counter is exact; alwaysOn keeps its
  endpoint awake, awaitShutdown lets it sleep, both notice that their context
  is done;
- drivers: a record never claims what did not happen, a job without error has
  done all of its scenario, in order and once; connections are closed;
- delete_project: keeps the target number, spares projects with failed or
  unfinished queries, deletes once, leaves a trace of every half-done deletion;
- create_project: never reuses a name, leaves a record of every project, states
  the timeout the endpoint has, spaces creations;
- scheduler: follows the table, spaces executions, ends replaced jobs, exits
  after a signal.

## Modules

**ProjectLocker** is the lock table.  A lock is a Go pointer, written
`<<process, project, generation>>`, so that the model can tell two locks of one
project apart: `gen` counts the locks made, `inMap` is the key set of the map,
`deleted` the set flags, `reapers` the sleeping goroutines of `Delete`, and
`held`, `kind` what each goroutine holds.

**ProjectRules** (on top of it) has the three rules that work on existing
projects.  Each background job has a program counter and the locals of
`executeForProject` (`target`, `ptr`, and for change_mode the pointer `outer`
taken before the query); the main goroutine of each process has those of
`deleteProject`.  Steps are accesses to shared state, one action per call or
SQL statement, with its failure as another outcome.  `recent` is the window of
the last records of a project: the drivers save a query once, after it is over,
while delete_project saves its record unfinished first and updates it later.
`lagging` holds rows that a SELECT may still return after their deletion.
A statement may take effect and lose its answer: the code sees an error, the table
has the record or the deletion (`Connect`, `Query`, `SaveDeleteQuery`, `SoftDelete`).
`Crash` kills a process: memory goes, the tables stay.

**ProjectAccess** is what the locks are for, without any lock in it: the threads
of a process query a project together, do anything else with it alone, and delete
it once as long as the process remembers.  `ProjectRules!AccessSpec` is the
refinement; `doing`, `at` and `done` are the mapping (what a thread does under a
lock, with which project, and the flags that are set).

**ProjectStore** has create_project and the writing half of delete_project over
the three stores.  `cloud`, `ops`, `endpoint`, `name` are the provider's side
(external; a PATCH is refused while operations run, as the comment in
`postCreate` says, and an operation may end in failure, after which
`waitAllOperations` polls on until a poll fails), `row`, `timeout`, `recent` and `seq` the tables,
`createRec`, `deleteRec` the records of API calls.  A statement or call may
fail without effect, or take effect and lose its answer.

**ProjectLifecycle** is the abstract promise of the store: a project is
provisioned, live, retiring, gone, in this order and without a way back.
`ProjectStore!LifecycleSpec` is the refinement; `stage` the mapping.

**Scenarios** puts the three scenarios in time, against the suspend timer of
the endpoint (external: `awake`, `idle`, `Suspend`, at most `Grace` late).  A
job is in a call of `executeManyQueries` (which may take any time, fail, and
reach the endpoint at any moment of it: `Reach`) or in a `select` with a `timer`
that fires at most `Late` after it is due.  `since` is the time since
`lastQuery`.  `reports` tells drivers that report a failed query from Vercel,
which does not.  A call that fails, or whose failure nobody reports, may leave a
query behind that is executed later, after the lock was given back and whatever
has become of its job: `stray` says that there may be one, `StrayReach` is its
arrival.  `disturbed` is a history variable: the jobs that await a shutdown and
whose endpoint was reached meanwhile by another process or by such a query.

**Drivers** is one job from the choice of its driver to its end, with `remote`
(what became of each query at the database) beside `log` (what was recorded) and
`err` (what the job returns).  pgx and serverless send one query at a time, the
Vercel functions take a batch; an answer may be lost, late or unreadable while
the query ran, runs later, or never does; a record may not be saved, or be saved
while the saver returns an error (`SaveFails`); the process may die.  Pool or direct connection only changes the string.  The seven names
are three kinds, all Vercel URLs being one.  `Pick` is the weighted choice over
integer weights.

**QueryOutcomes** is what ProjectRules lets a job do to the table of queries
(`Connect`, `Query`, `EndScenario`); `Drivers!OutcomesSpec` is the refinement,
which ties the two levels together: no driver does anything ProjectRules does
not allow for.

**GlobalRules** is the scheduler: the main rule as `main.go` starts it
(do_global_rules, periodic; a rule loaded by it is never periodic itself,
because the context of its load says so), `fetchRules` with throttling,
comparison, refusal and reload, `executeOnce` with `MinInterval`, one context
per load (done by cancellation, by its deadline or with the root context), and
background jobs that hold the context they were started with.  Three kinds of
rules start background jobs: those whose work ends, `Endless` ones (alwaysOn, which
looks at its context), and `Deaf` ones: create_project never looks at its context,
and a job of it whose operation failed polls on (`GetStuck`) until a poll fails.

`MC*` modules only give values to constants.  Definitions marked *Mutant* are
broken variants of the definition that follows them; no specification uses
them.  `PROJECT.json` says which property each of them violates.

## Runs

| run | instance | shows |
|---|---|---|
| rules_locks | 1 process, 1 project, 3 jobs, 3 rules (plain with limit 1, exclusive, in a change_mode), QueriesN = 2, lag | TypeOK, NoDeleteWhileQueried, ExclusiveScenarioAlone, LimitRespected, CounterExact, NoSecondDelete, ModeStableWhileQueried, DeletionSparesFailing, the refinement |
| rules_delete | 3 processes (a symmetry), 4 projects (3 similar), ProjectsN = 2, no jobs | DeletionKeepsTarget |
| store | 2 processes that delete, 1 creation job, 2 projects, 2 timeouts, fairness | the invariants of ProjectStore, the refinement, CreationSpaced, CreatorsReturn |
| scenarios | 2 jobs, 2 processes, timeout 5, lateness 1, fairness | TypeOK, AlwaysOnAwake, AwaitShutdownSleeps, RoundsSpaced, AwaitShutdownEnds, CanceledEnds |
| drivers | 3 queries in two calls (2 and 1), weights 0 to 2 | TypeOK, SuccessIsComplete, RecordsTruthful, BatchesWhole, LeaksOnlyUnused, InOrder, Proportional, the refinement |
| sched_limits | 2 rules, 2 jobs, up to 3 loads, deadlines | TypeOK, LiveJobsLimited, RunsSpaced |
| sched_live | 3 rules (one unparsable, one endless, one deaf), 1 job at a time, up to 3 loads, fairness | OldJobsEnd, TableFollowed, RuleServed, ShutdownCompletes |

Bounds.  Two jobs suffice for a conflict on a lock and a third lets a
change_mode job meet both; locks of different projects never interact, so one
project is enough there.  A window of two records lets the second be about a
query while the first is about the deletion.  Three similar projects and one
other, ProjectsN = 2 and three processes are the least for which everybody may
count enough, choose a row of his own and leave nothing; of two processes the
second to drop finds two rows, whichever they choose.  Two projects let names
collide and let one creation overlap another's deletion; `MaxSeq` bounds
creation attempts per process (a successful one, and one before or after it
that fails or is cut).  `MaxGen` bounds reloads: two, and the one that is in
flight when edits end; `Jobs` bounds jobs at a time, a rule that finds no free
one behaves as if it had found no project.  In sched_limits the deadline of a
load (3 ticks) outlasts the `MinInterval` of rule 2 (2 ticks): with a shorter one
no rule would ever be executed twice by one load.  Ages stop at the constant they are
compared with, so they bound nothing else.  In scenarios, a timeout of 5 units
with a target of 1, a margin of 2 and a lateness and grace of 1 satisfies
`TimingAssumption` with equality nowhere to spare: one more unit of lateness or
grace breaks AlwaysOnAwake or AwaitShutdownSleeps, so the run is at the edge.
Two jobs are one that is observed and one that disturbs it, from its own or from
the other process.  `since` stops for a query that is already later than the properties
allow.  In drivers, three queries in calls of two and one are what
awaitShutdown sends, and the least for which a batch can break in the middle
and be followed by another; weights to 2 include 0, equal and unequal ones.
`CHECK_DEADLOCK FALSE` is said
where the system stops: the scheduler because the process exits, the store
because names and projects run out at the bounds, drivers because its one job
ends.

Fairness.  ProjectStore: the steps of a started creation job are weakly fair
(goroutines are scheduled, calls return) and the provider's operations end, well or
not: CreatorsReturn exempts a job that polls for one that failed;
starting, failing and crashing are not.  GlobalRules: the main goroutine and
the steps of jobs are weakly fair, time passes, and reading the table, if tried
again and again, succeeds in the end (strong fairness; a broken connection
pool that never recovers is out of scope).  An endless job is only assumed to
end once its context is done, which is what the `select` in `alwaysOn` does.  A
deaf job is assumed to end with its operations, not with its context; if one of them
fails it is stuck, and nothing is assumed to end that, as in ProjectStore.
OldJobsEnd and ShutdownCompletes exempt a job that is stuck, and only that: it may
hold `WaitAll` back for ever, since no poll has to fail.
HTTP requests of jobs have no timeout in the code, that they return is an
assumption.  Scenarios: time passes, an idle endpoint is suspended, calls of
`executeManyQueries` return, and a `select` one of whose cases is ready goes on;
contexts need not end, queries need not reach the endpoint, in their call or after
it.  For Vercel, that
calls return is a real assumption: the request is made with
`context.Background()` and a client without timeout (vercel_sl.go:100).  Drivers
has no liveness property.  Nobody is assumed to edit the table or to signal.

## Disagreements between comments and code

Each is a run that TLC must find violated.

- *rules_query_deleted*: query_lock.go:40 wants to protect against in-flight
  requests, but query_project never looks at `Deleted`; a job started from a
  row read before the deletion queries the deleted project.
- *store_overlap*: create_project.go:114; the newest row is looked up long
  before the next is inserted, and the rule starts a second job meanwhile.
- *sched_reload*: rdesc/rule.go:29; a reload forgets `lastRun`, and every rule
  runs at once whatever its `MinInterval`.
- *sched_main_timeout*: README.md:11; with a `Timeout` on do_global_rules the
  context made at a load expires with that one call, and no rule is executed
  until the table changes again.

- *scenarios_quarter*: query_scenario.go:77 wants a query "at least every 1/4 of
  suspend timeout"; line 106 subtracts the target from the time spent, and the
  timer is set to two targets minus the time spent.  RoundsSpaced states the
  half that the code keeps, AlwaysOnAwake that it is enough.

Met on the way, without a run of their own.  models/query.go:28 records the
"project mode at the moment of query execution", which is the mode of the row
as it was selected; a change_mode job may finish in between (the TODO at
change_mode.go:119 knows of the race).  delete_project.go:33 deletes "if there
are more than this number of projects"; processes that count at the same time
leave one fewer, and no more than one however many they are, which is what
DeletionKeepsTarget says; it holds the first deletion of a matrix to the letter.  query_project.go:176 goes on after an error that Vercel answers in
JSON (no status check, vercel_sl.go:113): BatchesWhole states exactly that case
beside the promise, so no property would notice what goes wrong in it.  PgxConnect
forgets an open connection when saving its record returns an error, the record
being in the table or not (pgx_conn.go:46): LeaksOnlyUnused says that there is no
other leak, and that such a connection has run no query.  A lock is given back when
the call returns, not when its query is over: a query whose answer was lost may wake
the endpoint that another job of the process awaits to sleep, which
AwaitShutdownSleeps exempts.

`README.md:11` also gives the default period as `random(5,35)`; `main.go:37` has
`random(1,3)`.  The comment of `awaitShutdown.exclusive` ("any other process")
holds inside one process only, which is how the property is stated.

## Proofs

All theorems hold for any values of the constants that satisfy the `ASSUME`s of
the modules (every run checks those) and, where the table says so, a condition
of their own.

| module | theorem | property |
|---|---|---|
| ProjectRulesProof | TypeCorrect | TypeOK |
| | LocksCorrect | LockInv, the invariant behind the next three |
| | DeletionExcludesQueries | NoDeleteWhileQueried |
| | ExclusiveIsAlone | ExclusiveScenarioAlone |
| | ModeIsStable | ModeStableWhileQueried |
| ProjectCountersProof | CounterCorrect | CounterExact |
| | LimitCorrect | LimitRespected |
| | DeletionOnce | NoSecondDelete, if `LagCoversInFlight` |
| | DeletionChoosesSurplus | DeletionKeepsTarget, if the database has no lag |
| | LoneDeletionExact | for one process, that it keeps ProjectsN to the letter (`DeletionExact`) |
| | DeletionSpares | DeletionSparesFailing, as long as no other process works on the project (`Undisturbed`) |
| | LoneDeletionSpares | DeletionSparesFailing, for one process |
| ProjectAccessProof | LocksImplementAccess | AccessSpec, if `LagCoversInFlight` |
| ProjectStoreProof | StoreTyped, LiveBacked, DropTraced, ProjectsRecorded, NamesAreUnique, TimeoutsTruthful | TypeOK and the five invariants of the store |
| | CreationIsSpaced | CreationSpaced, as long as no two creation jobs overlap (`OneAtATime`) |
| | OneJobSpacesCreation | CreationSpaced, for one creation job |
| | StoreImplementsLifecycle | LifecycleSpec |
| GlobalRulesProof | SchedulerTyped | TypeOK |
| | LimitsHold | LiveJobsLimited |
| | IntervalsHold | RunsSpaced |
| ScenariosProof | ScenariosTyped | TypeOK |
| | StaysAwake | AlwaysOnAwake |
| | LetsSleep | AwaitShutdownSleeps |
| | RoundsInTime | RoundsSpaced |
| DriversProof | DriversTyped, SuccessComplete, LogTruthful, BatchesAreWhole, LeaksBounded, RunsInOrder, PickProportional | TypeOK and the six other invariants of Drivers |
| | ImplementsOutcomes | OutcomesSpec |

**Locks.**  None of the three exclusion properties is inductive: they speak of
who queries what, and follow from who holds which pointer.  The inductive
invariant is `TypeOK /\ LockInv`.  `Grip` says what each goroutine holds at each
step; `Mutex` that holders of one pointer are all readers; `Pointers` that
pointers come from the table of the own process.  The rest of the argument is
that two goroutines that work on one project of one process hold *the same*
pointer, and this is where deletion comes in: a second lock for a project
exists only if the first was removed from the table.  `Doomed` says that an
entry is removed only after its row was dropped, so as long as the row is live
there is one lock (`OneLock`); change_mode, which locks the pointer it fetched
before its query, relies on it.  After the drop, there is still one lock if the
30 s of `ProjectLocker.Delete` outlast both the lag of the database and the time
between a SELECT and the `Get` that follows; that assumption is the constant
`LagCoversInFlight`, and the properties claim nothing about a dropped project
without it (`Protected`).  Three lemmas carry the actions that are alike:
`JobMoves` and `MainMoves` (a goroutine that keeps its lock and moves on) and
`GetMoves` (a goroutine that asks the table for a lock).  Then there is one
lemma per action, `NextInv`, `Inductive`, and the theorems.

**Counters and deletion.**  Built on that invariant.  `CounterExact` and
`LimitRespected` are inductive together: only `Count` and `Uncount` move a job
into or out of the counted part (`Steady` is every other step), and the limit
follows because the value that is compared is the number of jobs counted, the
new one included.  `Jobs` is assumed finite.  `Flagged` says that a flagged
lock was issued and that a main goroutine works with one whose flag it saw
unset; with one lock per project, that excludes a second deletion.
The two properties of deletion hold for any number of processes, each in its own
way.  Every process decides by a count that others may have made too, so its
count says nothing when it comes to the drop: with three similar rows and
ProjectsN = 2, three processes can find enough at the same moment.  What saves the rows
is that each chooses in the middle of ProjectsN rows by age, which was meant to
avoid old and new projects.  The inductive part is `Surplus`: a project that is
chosen and not dropped yet is `Flanked`, with half of ProjectsN live similar rows older
than it and the rest of ProjectsN, itself not counted, younger.  A
creation only adds to either side.  A drop of another project takes that one
from one side, but it was flanked itself, and what is beyond it on that side is
beyond the first one too.  So no drop leaves fewer than ProjectsN - 1, however many
processes there are; the other part of `Surplus` (`Roomy`) says that the rows of the
count are still live when the process is alone or no row of the matrix is deleted
yet, so that these deletions leave ProjectsN.  With any row
of the ones taken in place of the middle one (the mutant), three processes
delete all three.  The theorem needs a database without lag: a replica lets a
process count rows that are gone.
The check of the last records is kept up to the drop by `Sparing`: the jobs of the
process are off the project in between, which is `NoDeleteWhileQueried` again,
used here inside an invariant.  Nothing keeps other processes off, so the theorem
has the hypothesis that they are (`Undisturbed`: none queries the project or is
in the middle of deleting it between this process's check and its drop).

**Access.**  Taking a lock is Begin, giving it back End, the flag Complete, a crash
Restart, and everything else a stutter.  `AtWork` says that whoever is at work
holds a lock issued by its process for the project, of the kind its work asks
for; with one lock per project and process the free lock of `TryLock` is then
the very lock all others at work there would hold (`FreeToBegin`).  A deletion
begins a step later than it locks, behind the check of the flag: that the flag is
not set means, again by the one lock and by `Flagged`, that the project is not
among those deleted (`DeleteBegins`).

**Store.**  The invariant is `TypeOK /\ Owned /\ Configured /\ Named /\
Recorded /\ Withdrawn /\ TimeoutTruthful`: a job owns the project it made, alone,
until it has inserted the row; an endpoint is configured after its operations;
a number is spent by one attempt; the record comes before the call; and a
withdrawal passes record, row, provider in this order.  `TimeoutTruthful`
rests on the row being inserted only after a PATCH that succeeded, not on the wait
for the operations before it: without the wait the PATCH is refused.  `CreationIsSpaced` has the
condition of the code's comment as its hypothesis: a job that is under way has
found no recent row, and only another job that is under way could add one.  The refinement maps each
step to one step of ProjectLifecycle or to a stutter, by cases on what it does to
`cloud` and `row`.

**Scheduler.**  `TypeOK /\ Counts /\ Superseded /\ Bounded /\ Loaded /\ Stamps`.
`Counts` is the exactness of `nowRunning` per load; `Superseded` says that the
context of every older load is cancelled, so that what the new rule objects do not
count is not live; `Stamps` relates `lastRun` to the real time since the last run.

**Scenarios.**  `TypeOK /\ TimeInv`.  While alwaysOn waits, what is past of the
round and what is left of it make up two targets (`Recently`), so a query that is
in time starts before three targets and a lateness have passed since the
endpoint was active, which `TimingAssumption` puts below the suspend timeout.
While awaitShutdown sleeps and neither another process nor a query left over from
a call reaches the endpoint, the idle time of an endpoint still awake
and the timer make up the target time (`Longer`), so that it would be suspended,
with all its grace, before the timer fires.

**Drivers.**  The invariant relates the program counter to `remote` and `log`:
queries run, and are sent and recorded, in the order of the scenario and once (`Serial`, `Ahead`, `Order`), a record
yet to be saved or saved as a success is about a query that ran (`Truth`), and an
open connection belongs to a job that will close it, or to one that returned from
PgxConnect with an error (`Link`).  The batches of
Vercel need a second one, `Settled`: of a call that is over without error either
nothing is recorded, or all of it.  `PickProportional` counts the rolls of each
item as an interval.

Only model-checked: all liveness (OldJobsEnd, TableFollowed, RuleServed,
ShutdownCompletes, CreatorsReturn, AwaitShutdownEnds, CanceledEnds), which
TLAPS does not do.

## Not modelled

- The contents of requests, responses and rows, but for what decides a branch;
  the SQL of filters, `MatrixFilters`, `CommonProjectFeatures` (JSON of rows),
  the parsing of durations and periods.  `parsePeriod` accepts
  `random(0,18446744073709551615)`, for which the argument of `rand.Intn` is 0,
  and periods that overflow `time.Duration`; in GlobalRules the period is an
  arbitrary wait.
- `Wrand.Pick` computes in float64: the rounding that may give the last item a
  little more, and a list without items (which panics), are left out.
- A main rule without period and nested do_global_rules rows.
- Regions: create_project runs one job per region, and jobs of different
  regions share only the sequence.
- The values a record has beside its project and its outcome, such as
  `RelatedQueryID` and durations.
- Wiring, configuration, logging, the test rule, metrics.
- `ExclusiveLock`, `SharedLock`, `FindAllByRegion`, and `VercelSL.Query`, which
  `executeManyQueries` never calls.

## Plan

Done, in this order: ProjectLocker, ProjectRules, ProjectLifecycle,
ProjectStore, GlobalRules, the proofs about locks; then Scenarios, Drivers,
QueryOutcomes, and the proofs about counters, deletion, store, scheduler,
scenarios and drivers; then ProjectAccess, its refinement, and deletion by any
number of processes.

What could follow: several regions; the algorithms on text and JSON, against
reference definitions; DeletionKeepsTarget on a database with lag.
