------------------------------ MODULE GlobalRules ------------------------------
(***************************************************************************)
(* The scheduler of one process:                                           *)
(*   main.go                            signal, main rule, WaitAll         *)
(*   internal/rules/executor.go         Execute, executeOnce               *)
(*   internal/rules/do_global_rules.go  rules reloaded from global_rules   *)
(*   internal/bgjobs/jobs.go            background jobs                    *)
(* The main rule is do_global_rules with a period, as in main.go.  Time    *)
(* passes in ticks; clocks are ages that stop at the largest constant they *)
(* are compared with, contexts count down to their deadline.               *)
(***************************************************************************)
EXTENDS Integers, FiniteSets

CONSTANTS Descs,          \* rows of global_rules: their priority is their name
          Broken,         \* rows that ParseJSON refuses
          Background,     \* rules that start background jobs
          Endless,        \* whose jobs run until their context is done (alwaysOn)
          Deaf,           \* whose jobs never look at their context (create_project)
          Limit,          \* ConcurrencyLimit of a rule, 0 for none
          MinInterval,    \* MinInterval of a rule, 0 for none
          Timeout,        \* Timeout of a rule, 0 for none
          MainTimeout,    \* Timeout of the main rule, 0 for none
          UpdateInterval, \* DoGlobalRules.updateInterval
          Jobs,           \* bound: background jobs at a time
          MaxGen,         \* bound: reloads after which the table is left alone
          None            \* Go's nil; no deadline

ASSUME DescsAssumption ==
    /\ IsFiniteSet(Descs) /\ Descs \subseteq Nat
    /\ Broken \subseteq Descs /\ Background \subseteq Descs
    /\ Endless \subseteq Background /\ Deaf \subseteq Background /\ Endless \cap Deaf = {}
    /\ {Limit, MinInterval, Timeout} \subseteq [Descs -> Nat]
    /\ \A d \in Deaf : Limit[d] = 0
ASSUME TimesAssumption ==
    /\ {MainTimeout, UpdateInterval, MaxGen} \subseteq Nat
    /\ UpdateInterval > 0
    /\ None \notin Int
ASSUME JobsAssumption == IsFiniteSet(Jobs)

VARIABLES table,       \* the enabled rows of global_rules
          stopping,    \* the signal has come: the root context is cancelled
          gen,         \* how often the rules were loaded; names the rule objects
          dbRules,     \* DoGlobalRules.dbRules, and the keys of loadedRules
          sinceUpdate, \* age of lastUpdate
          cancelled,   \* generations whose cancelContext was called
          left,        \* ticks to the deadline of a generation's globalContext
          lastRun,     \* age of Rule.lastRun, by loaded rule
          nowRunning,  \* QueryProject.nowRunning, by generation and rule
          job,         \* background jobs
          pc, fetched, ts, queue, current, callLeft,  \* locals of main
          gap, ranIn   \* history: age and generation of the last execution

ruleVars == <<gen, dbRules, sinceUpdate, cancelled, left, lastRun>>
jobVars  == <<nowRunning, job>>
mainVars == <<pc, fetched, ts, queue, current, callLeft>>
history  == <<gap, ranIn>>
vars     == <<table, stopping, ruleVars, jobVars, mainVars, history>>

Gens     == 0 .. MaxGen + 1
Idle     == [at |-> "idle"]
JobState == [at : {"starting", "running", "stuck", "leaving"}, desc : Descs, gen : Gens,
             left : Nat \cup {None}]

TypeOK ==
    /\ table \in SUBSET Descs
    /\ stopping \in BOOLEAN
    /\ gen \in Gens
    /\ dbRules \in (SUBSET (Descs \ Broken)) \cup {None}
    /\ sinceUpdate \in 0 .. UpdateInterval
    /\ cancelled \in SUBSET Gens
    /\ left \in [Gens -> 0 .. MainTimeout \cup {None}]
    /\ lastRun \in [Descs -> Nat \cup {None}]
    /\ nowRunning \in [Gens -> [Descs -> Nat]]
    /\ job \in [Jobs -> JobState \cup {Idle}]
    /\ pc \in {"top", "fetch", "swap", "next", "impl", "sleep", "wait", "exited"}
    /\ fetched \in SUBSET Descs
    /\ ts \in 0 .. UpdateInterval
    /\ queue \in SUBSET Descs
    /\ current \in Descs \cup {None}
    /\ callLeft \in 0 .. MainTimeout \cup {None}
    /\ gap \in [Descs -> Nat \cup {None}]
    /\ ranIn \in [Descs -> Gens]

Init ==
    /\ table \in SUBSET Descs
    /\ stopping = FALSE
    /\ gen = 0
    /\ dbRules = None
    /\ sinceUpdate = UpdateInterval
    /\ cancelled = {}
    /\ left = [g \in Gens |-> None]
    /\ lastRun = [d \in Descs |-> None]
    /\ nowRunning = [g \in Gens |-> [d \in Descs |-> 0]]
    /\ job = [j \in Jobs |-> Idle]
    /\ pc = "top"
    /\ fetched = {}
    /\ ts = 0
    /\ queue = {}
    /\ current = None
    /\ callLeft = None
    /\ gap = [d \in Descs |-> None]
    /\ ranIn = [d \in Descs |-> 0]

Busy(j) == job[j] # Idle
Deadline(t) == IF t = 0 THEN None ELSE t

\* Mutant: globalContext descends from context.Background().
DoneDetached(g) == g \in cancelled \/ left[g] = 0

\* ctx.Err() # nil for the globalContext of generation g: it descends from the
\* root context and from the context of the call that loaded the rules ...
Done(g) == stopping \/ g \in cancelled \/ left[g] = 0

\* ... and the context of a job descends from it.
JobDone(j) == Done(job[j].gen) \/ job[j].left = 0
-----------------------------------------------------------------------------
(* The main goroutine *)

Goto(s) == pc' = s

\* executePeriodic: return once the root context is done, else executeOnce,
\* with a context that is never cancelled but may have a deadline.
Top ==
    /\ pc = "top"
    /\ Goto(IF stopping THEN "wait" ELSE "fetch")
    /\ callLeft' = Deadline(MainTimeout)
    /\ UNCHANGED <<table, stopping, ruleVars, jobVars, fetched, ts, queue, current, history>>

\* fetchRules, the rules loaded a moment ago are good enough.
Throttled ==
    /\ pc = "fetch" /\ sinceUpdate < UpdateInterval
    /\ queue' = dbRules
    /\ Goto("next")
    /\ UNCHANGED <<table, stopping, ruleVars, jobVars, fetched, ts, current, callLeft, history>>

\* GlobalRuleRepo.AllEnabled and the time stamp after it; it may fail.
ReadTable ==
    /\ pc = "fetch" /\ sinceUpdate = UpdateInterval
    /\ \/ fetched' = table /\ ts' = 0 /\ Goto("swap")
       \/ UNCHANGED <<fetched, ts>> /\ Goto("sleep")
    /\ UNCHANGED <<table, stopping, ruleVars, jobVars, queue, current, callLeft, history>>

\* Mutant: compareRules compares lengths.
EqualLength == dbRules # None /\ Cardinality(fetched) = Cardinality(dbRules)

\* compareRules
Equal == fetched = dbRules

\* Nothing new; lastUpdate stays as it is.
Same ==
    /\ pc = "swap" /\ Equal
    /\ queue' = dbRules
    /\ Goto("next")
    /\ UNCHANGED <<table, stopping, ruleVars, jobVars, fetched, ts, current, callLeft, history>>

\* One row that cannot be parsed: nothing is replaced and nothing is run.
Refuse ==
    /\ pc = "swap" /\ ~Equal /\ fetched \cap Broken # {}
    /\ Goto("sleep")
    /\ UNCHANGED <<table, stopping, ruleVars, jobVars, fetched, ts, queue, current, callLeft, history>>

\* Mutants: the old context is not cancelled; the new one is, too.
CancelNone == UNCHANGED cancelled
CancelBoth == cancelled' = cancelled \cup {gen, gen + 1}
CancelOld == cancelled' = cancelled \cup {gen}

\* New rule objects, a new context, the old one cancelled.
Reload ==
    /\ pc = "swap" /\ ~Equal /\ fetched \cap Broken = {}
    /\ gen' = gen + 1
    /\ CancelOld
    /\ dbRules' = fetched
    /\ sinceUpdate' = ts
    /\ left' = [left EXCEPT ![gen + 1] = callLeft]
    /\ lastRun' = [d \in Descs |-> None]
    /\ queue' = fetched
    /\ Goto("next")
    /\ UNCHANGED <<table, stopping, jobVars, fetched, ts, current, callLeft, history>>

\* Execute and the first half of executeOnce for the next rule, by priority: not
\* with a context that is done, nor too early.
TooEarly(d) == lastRun[d] # None /\ lastRun[d] < MinInterval[d]
IsNext(d) == d \in queue /\ \A e \in queue : d <= e
Skip(d) ==
    /\ Done(gen) \/ TooEarly(d)
    /\ Goto("next")
    /\ UNCHANGED <<lastRun, current>>
Start(d) ==
    /\ ~Done(gen) /\ ~TooEarly(d)
    /\ Goto("impl")
    /\ lastRun' = [lastRun EXCEPT ![d] = 0]
    /\ current' = d
NextRule ==
    /\ pc = "next"
    /\ \E d \in Descs :
          /\ IsNext(d)
          /\ queue' = queue \ {d}
          /\ Skip(d) \/ Start(d)
    /\ UNCHANGED <<table, stopping, gen, dbRules, sinceUpdate, cancelled, left, jobVars,
                   fetched, ts, callLeft, history>>

\* Mutant: lastRun is the time of the start only.
FinishedUnstamped ==
    /\ gap' = [gap EXCEPT ![current] = 0]
    /\ ranIn' = [ranIn EXCEPT ![current] = gen]
    /\ UNCHANGED lastRun

\* The end of impl.Execute.  A rule with background jobs has started one with
\* Register.Go, or none when it found no project.
Finished ==
    /\ lastRun' = [lastRun EXCEPT ![current] = 0]
    /\ gap' = [gap EXCEPT ![current] = 0]
    /\ ranIn' = [ranIn EXCEPT ![current] = gen]
EndImpl ==
    /\ pc = "impl"
    /\ Finished
    /\ \/ /\ current \in Background
          /\ \E j \in Jobs :
                /\ ~Busy(j)
                /\ job' = [job EXCEPT ![j] = [at |-> "starting", desc |-> current, gen |-> gen,
                                              left |-> Deadline(Timeout[current])]]
       \/ UNCHANGED job
    /\ current' = None
    /\ Goto("next")
    /\ UNCHANGED <<table, stopping, gen, dbRules, sinceUpdate, cancelled, left, nowRunning,
                   fetched, ts, queue, callLeft>>

AllRun ==
    /\ pc = "next" /\ queue = {}
    /\ Goto("sleep")
    /\ UNCHANGED <<table, stopping, ruleVars, jobVars, fetched, ts, queue, current, callLeft, history>>

\* Period.Sleep ends, at the latest when the root context is done.
Wake ==
    /\ pc = "sleep"
    /\ Goto("top")
    /\ UNCHANGED <<table, stopping, ruleVars, jobVars, fetched, ts, queue, current, callLeft, history>>

\* Register.WaitAll returns, and main with it.
Exit ==
    /\ pc = "wait" /\ \A j \in Jobs : ~Busy(j)
    /\ Goto("exited")
    /\ UNCHANGED <<table, stopping, ruleVars, jobVars, fetched, ts, queue, current, callLeft, history>>
-----------------------------------------------------------------------------
(* Background jobs.  Project locks are in module ProjectRules. *)

JobGoto(j, s) == job' = [job EXCEPT ![j].at = s]
Rest == UNCHANGED <<table, stopping, ruleVars, mainVars, history>>

\* Mutant: over the limit, one is given back at once and again at the end.
EnterGivesBack(j) ==
    LET d == job[j].desc
        g == job[j].gen
        over == Limit[d] > 0 /\ nowRunning[g][d] + 1 > Limit[d]
    IN  /\ job[j].at = "starting"
        /\ nowRunning' = [nowRunning EXCEPT ![g][d] = IF over THEN @ ELSE @ + 1]
        /\ JobGoto(j, IF over THEN "leaving" ELSE "running")
        /\ Rest

\* nowRunning.Add(1) of the rule object the job belongs to, and the limit.
Enter(j) ==
    LET d == job[j].desc
        g == job[j].gen
        count == nowRunning[g][d] + 1
    IN  /\ job[j].at = "starting"
        /\ nowRunning' = [nowRunning EXCEPT ![g][d] = count]
        /\ JobGoto(j, IF Limit[d] > 0 /\ count > Limit[d] THEN "leaving" ELSE "running")
        /\ Rest

\* A scenario runs to its end, an endless one until it sees its context done; a
\* creation ends with the operations it waits for.
Complete(j) ==
    /\ job[j].at = "running" /\ (job[j].desc \in Endless => JobDone(j))
    /\ JobGoto(j, "leaving")
    /\ UNCHANGED nowRunning /\ Rest

\* waitAllOperations polls for "finished" without limit and without its context:
\* one operation that has failed keeps it there.
GetStuck(j) ==
    /\ job[j].at = "running" /\ job[j].desc \in Deaf
    /\ JobGoto(j, "stuck")
    /\ UNCHANGED nowRunning /\ Rest

\* Any query of an endless scenario may fail before, any poll of a stuck creation.
FailJob(j) ==
    /\ \/ job[j].at = "running" /\ job[j].desc \in Endless /\ ~JobDone(j)
       \/ job[j].at = "stuck"
    /\ JobGoto(j, "leaving")
    /\ UNCHANGED nowRunning /\ Rest

\* nowRunning.Add(-1), then WaitGroup.Done.
Leave(j) ==
    /\ job[j].at = "leaving"
    /\ nowRunning' = [nowRunning EXCEPT ![job[j].gen][job[j].desc] = @ - 1]
    /\ job' = [job EXCEPT ![j] = Idle]
    /\ Rest
-----------------------------------------------------------------------------
(* The environment *)

Older(age, most) == IF age = None \/ age >= most THEN age ELSE age + 1
Closer(t) == IF t = None \/ t = 0 THEN t ELSE t - 1

Tick ==
    /\ pc # "exited"
    /\ sinceUpdate' = Older(sinceUpdate, UpdateInterval)
    /\ ts' = Older(ts, UpdateInterval)
    /\ left' = [g \in Gens |-> Closer(left[g])]
    /\ callLeft' = Closer(callLeft)
    /\ lastRun' = [d \in Descs |-> Older(lastRun[d], MinInterval[d])]
    /\ gap' = [d \in Descs |-> Older(gap[d], MinInterval[d])]
    /\ job' = [j \in Jobs |-> IF Busy(j) THEN [job[j] EXCEPT !.left = Closer(@)] ELSE Idle]
    /\ UNCHANGED <<table, stopping, gen, dbRules, cancelled, nowRunning,
                   pc, fetched, queue, current, ranIn>>

\* An operator edits global_rules.
EditTable ==
    /\ gen < MaxGen
    /\ table' \in SUBSET Descs
    /\ UNCHANGED <<stopping, ruleVars, jobVars, mainVars, history>>

\* SIGINT, SIGTERM or SIGQUIT.
Signal ==
    /\ ~stopping
    /\ stopping' = TRUE
    /\ UNCHANGED <<table, ruleVars, jobVars, mainVars, history>>
-----------------------------------------------------------------------------
MainStep ==
    \/ Top \/ Throttled \/ ReadTable \/ Same \/ Refuse \/ Reload
    \/ NextRule \/ EndImpl \/ AllRun \/ Wake \/ Exit

JobStep(j) == Enter(j) \/ Complete(j) \/ GetStuck(j) \/ FailJob(j) \/ Leave(j)

Next ==
    \/ MainStep
    \/ \E j \in Jobs : JobStep(j)
    \/ Tick \/ EditTable \/ Signal

Spec == Init /\ [][Next]_vars

\* Goroutines are scheduled, calls return, a job notices in the end that its
\* scenario or its operations are over and, unless it is deaf, that its context is
\* done; reading the table succeeds now and then, and time passes.  Nobody has to
\* edit or to signal, no poll of a stuck job has to fail.
Fairness ==
    /\ WF_vars(MainStep) /\ WF_vars(Tick)
    /\ SF_vars(ReadTable /\ pc' = "swap")
    /\ \A j \in Jobs : WF_vars(Enter(j)) /\ WF_vars(Complete(j)) /\ WF_vars(Leave(j))

FairSpec == Spec /\ Fairness
-----------------------------------------------------------------------------
(* Properties *)

\* ConcurrencyLimit survives a reload: the jobs of a rule that have entered and
\* whose context is open stay within it, although a reload makes a new counter
\* and the jobs of the old one go on for a while.
Open(d) == {j \in Jobs : job[j].at \in {"running", "stuck"} /\ job[j].desc = d /\ ~JobDone(j)}
LiveJobsLimited == \A d \in Descs : Limit[d] > 0 => Cardinality(Open(d)) <= Limit[d]

\* "Limit the execution frequency by setting minimal interval" (rdesc/rule.go:29),
\* as long as the rules are not reloaded: an execution starts at least
\* MinInterval after the end of the one before.
Starts(d) == pc # "impl" /\ pc' = "impl" /\ current' = d
Early(d) == gap[d] # None /\ gap[d] < MinInterval[d]
RunsSpaced == [][\A d \in Descs : Starts(d) /\ ranIn[d] = gen => ~Early(d)]_vars

\* The jobs of rules that were replaced all end, an endless one too, except a
\* creation while it waits for an operation that has failed.
OldJobsEnd == \A j \in Jobs, g \in Gens :
    Busy(j) /\ job[j].gen = g /\ g < gen
        ~> ~(Busy(j) /\ job[j].gen = g) \/ job[j].at = "stuck"

\* A table without broken rows that stays is loaded in the end, whatever broken
\* tables and failed readings came before.
Sound(t) == t \cap Broken = {}
TableFollowed == \A t \in SUBSET Descs :
    Sound(t) /\ table = t ~> dbRules = t \/ table # t \/ stopping

\* "Will fetch and execute all rules from the database" (README.md:11): an
\* enabled rule is executed again and again.
RuleServed == \A d \in Descs :
    d \in table ~> (pc = "impl" /\ current = d) \/ d \notin table \/ ~Sound(table) \/ stopping

\* After a signal the process exits: main leaves its loop, no job that looks at its
\* context outlives it, and the others end with their work.  Only a creation that
\* waits for a failed operation holds WaitAll back, as long as its polls succeed.
ShutdownCompletes == stopping ~> pc = "exited" \/ \E j \in Jobs : job[j].at = "stuck"

\* Claim that the code does not keep (README, findings): the interval of
\* rdesc/rule.go:29 over reloads.
RunsSpacedOverReloads == [][\A d \in Descs : Starts(d) => ~Early(d)]_vars
=============================================================================
