--------------------------- MODULE GlobalRulesProof ---------------------------
(***************************************************************************)
(* Proofs about GlobalRules for any rules, limits, intervals, timeouts and *)
(* number of reloads: a rule's concurrency limit over reloads and its      *)
(* minimal interval within one load.  The inductive invariant says that    *)
(* the counter of a rule object counts its jobs (Counts), that a job of a  *)
(* replaced rule has its context cancelled (Superseded), and that lastRun  *)
(* is the age of the last execution (Stamps).                              *)
(***************************************************************************)
EXTENDS GlobalRules, FiniteSetTheorems, TLAPS

\* The jobs that nowRunning of a rule object counts, and those past the limit.
Counted(g, d) ==
    {j \in Jobs : job[j].at \in {"running", "stuck", "leaving"} /\ job[j].gen = g /\ job[j].desc = d}
Inside(g, d) ==
    {j \in Jobs : job[j].at \in {"running", "stuck"} /\ job[j].gen = g /\ job[j].desc = d}

Counts == \A g \in Gens, d \in Descs :
    /\ nowRunning[g][d] = Cardinality(Counted(g, d))
    /\ Limit[d] > 0 => Cardinality(Inside(g, d)) <= Limit[d]

Superseded ==
    /\ \A g \in Gens : g < gen => g \in cancelled
    /\ \A j \in Jobs : job[j].at # "idle" => job[j].gen <= gen
    /\ \A d \in Descs : ranIn[d] <= gen

\* The rules are loaded once more at most after the table is left alone.
Bounded ==
    /\ gen >= MaxGen /\ pc = "swap" => fetched = table
    /\ gen = MaxGen + 1 => dbRules = table

\* The throttle lets through only what was loaded.
Loaded == sinceUpdate < UpdateInterval => dbRules \in SUBSET (Descs \ Broken)

Stamps ==
    /\ pc = "impl" => current \in Descs
    /\ \A d \in Descs : ranIn[d] = gen => lastRun[d] = gap[d] \/ (pc = "impl" /\ current = d)

Inv == TypeOK /\ Counts /\ Superseded /\ Bounded /\ Loaded /\ Stamps

\* The states of a job tell its fields apart.
LEMMA JobType ==
    ASSUME TypeOK, NEW j \in Jobs
    PROVE  /\ job[j].at \in {"idle", "starting", "running", "stuck", "leaving"}
           /\ Busy(j) <=> job[j].at # "idle"
           /\ Busy(j) => job[j] \in JobState
BY DEF TypeOK, JobState, Idle, Busy

LEMMA CountedFinite ==
    ASSUME NEW g, NEW d
    PROVE  /\ IsFiniteSet(Counted(g, d)) /\ IsFiniteSet(Inside(g, d))
           /\ Inside(g, d) \subseteq Counted(g, d)
           /\ Cardinality(Inside(g, d)) <= Cardinality(Counted(g, d))
           /\ Cardinality(Inside(g, d)) \in Nat /\ Cardinality(Counted(g, d)) \in Nat
<1>1. Counted(g, d) \subseteq Jobs /\ Inside(g, d) \subseteq Counted(g, d)
  BY DEF Counted, Inside
<1>2. IsFiniteSet(Counted(g, d))
  BY <1>1, FS_Subset, JobsAssumption
<1> QED BY <1>1, <1>2, FS_Subset, FS_CardinalityType

LEMMA InitInv == Init => Inv
<1> SUFFICES ASSUME Init PROVE Inv
  OBVIOUS
<1>1. TypeOK
  <2>1. 0 \in Gens /\ 0 \in 0 .. UpdateInterval /\ UpdateInterval \in 0 .. UpdateInterval
    BY TimesAssumption DEF Gens
  <2>2. left \in [Gens -> 0 .. MainTimeout \cup {None}] /\ callLeft \in 0 .. MainTimeout \cup {None}
    BY DEF Init
  <2>3. nowRunning \in [Gens -> [Descs -> Nat]] /\ job \in [Jobs -> JobState \cup {Idle}]
    BY DEF Init
  <2>4. /\ lastRun \in [Descs -> Nat \cup {None}] /\ gap \in [Descs -> Nat \cup {None}]
        /\ ranIn \in [Descs -> Gens]
    BY <2>1 DEF Init
  <2> QED BY <2>1, <2>2, <2>3, <2>4 DEF Init, TypeOK
<1>2. Counts
  <2> SUFFICES ASSUME NEW g \in Gens, NEW d \in Descs
               PROVE  /\ nowRunning[g][d] = Cardinality(Counted(g, d))
                      /\ Limit[d] > 0 => Cardinality(Inside(g, d)) <= Limit[d]
    BY DEF Counts
  <2>1. Counted(g, d) = {} /\ Inside(g, d) = {}
    BY DEF Init, Counted, Inside, Idle
  <2>2. nowRunning[g][d] = 0 /\ Limit[d] \in Nat
    BY DescsAssumption DEF Init
  <2> QED BY <2>1, <2>2, FS_EmptySet
<1>3. Superseded /\ Loaded /\ Stamps
  BY DescsAssumption, TimesAssumption DEF Init, Superseded, Loaded, Stamps, Gens, Idle
<1>4. Bounded
  BY TimesAssumption DEF Init, Bounded
<1> QED BY <1>1, <1>2, <1>3, <1>4 DEF Inv

-----------------------------------------------------------------------------
(* The steps *)

LEMMA TopInv ==
    ASSUME Inv, Top
    PROVE  Inv'
<1>1. UNCHANGED <<table, stopping, gen, dbRules, sinceUpdate, cancelled, left, lastRun,
                  nowRunning, job, fetched, ts, queue, current, gap, ranIn>>
  BY DEF Top, Goto, ruleVars, jobVars, mainVars, history
<1>2. pc = "top" /\ pc' \in {"wait", "fetch"} /\ callLeft' = Deadline(MainTimeout)
  BY DEF Top, Goto, ruleVars, jobVars, mainVars, history
<1>3. TypeOK'
  <2>1. callLeft' \in 0 .. MainTimeout \cup {None}
    BY <1>2, TimesAssumption DEF Deadline
  <2> QED BY <1>1, <1>2, <2>1 DEF Inv, TypeOK
<1>4. Counts' /\ Superseded' /\ Loaded'
  BY <1>1 DEF Inv, Counts, Counted, Inside, Superseded, Loaded
<1>5. Bounded'
  BY <1>1, <1>2 DEF Inv, Bounded
<1>6. Stamps'
  BY <1>1, <1>2 DEF Inv, Stamps
<1> QED BY <1>3, <1>4, <1>5, <1>6 DEF Inv

LEMMA ThrottledInv ==
    ASSUME Inv, Throttled
    PROVE  Inv'
<1>1. UNCHANGED <<table, stopping, gen, dbRules, sinceUpdate, cancelled, left, lastRun,
                  nowRunning, job, fetched, ts, current, callLeft, gap, ranIn>>
  BY DEF Throttled, Goto, ruleVars, jobVars, mainVars, history
<1>2. pc = "fetch" /\ sinceUpdate < UpdateInterval /\ queue' = dbRules /\ pc' = "next"
  BY DEF Throttled, Goto, ruleVars, jobVars, mainVars, history
<1>3. TypeOK'
  <2>1. queue' \in SUBSET Descs
    BY <1>2 DEF Inv, Loaded
  <2> QED BY <1>1, <1>2, <2>1 DEF Inv, TypeOK
<1>4. Counts' /\ Superseded' /\ Loaded'
  BY <1>1 DEF Inv, Counts, Counted, Inside, Superseded, Loaded
<1>5. Bounded'
  BY <1>1, <1>2 DEF Inv, Bounded
<1>6. Stamps'
  BY <1>1, <1>2 DEF Inv, Stamps
<1> QED BY <1>3, <1>4, <1>5, <1>6 DEF Inv

LEMMA ReadTableInv ==
    ASSUME Inv, ReadTable
    PROVE  Inv'
<1>1. UNCHANGED <<table, stopping, gen, dbRules, sinceUpdate, cancelled, left, lastRun,
                  nowRunning, job, queue, current, callLeft, gap, ranIn>>
  BY DEF ReadTable, Goto, ruleVars, jobVars, mainVars, history
<1>2. /\ pc = "fetch"
      /\ \/ fetched' = table /\ ts' = 0 /\ pc' = "swap"
         \/ UNCHANGED <<fetched, ts>> /\ pc' = "sleep"
  BY DEF ReadTable, Goto, ruleVars, jobVars, mainVars, history
<1>3. TypeOK'
  <2>1. ts' \in 0 .. UpdateInterval /\ fetched' \in SUBSET Descs
    BY <1>2, TimesAssumption DEF Inv, TypeOK
  <2> QED BY <1>1, <1>2, <2>1 DEF Inv, TypeOK
<1>4. Counts' /\ Superseded' /\ Loaded'
  BY <1>1 DEF Inv, Counts, Counted, Inside, Superseded, Loaded
<1>5. Bounded'
  BY <1>1, <1>2 DEF Inv, Bounded
<1>6. Stamps'
  BY <1>1, <1>2 DEF Inv, Stamps
<1> QED BY <1>3, <1>4, <1>5, <1>6 DEF Inv

LEMMA SameInv ==
    ASSUME Inv, Same
    PROVE  Inv'
<1>1. UNCHANGED <<table, stopping, gen, dbRules, sinceUpdate, cancelled, left, lastRun,
                  nowRunning, job, fetched, ts, current, callLeft, gap, ranIn>>
  BY DEF Same, Goto, Equal, ruleVars, jobVars, mainVars, history
<1>2. pc = "swap" /\ fetched = dbRules /\ queue' = dbRules /\ pc' = "next"
  BY DEF Same, Goto, Equal, ruleVars, jobVars, mainVars, history
<1>3. TypeOK'
  BY <1>1, <1>2, DescsAssumption, TimesAssumption DEF Inv, TypeOK
<1>4. Counts' /\ Superseded' /\ Loaded'
  BY <1>1 DEF Inv, Counts, Counted, Inside, Superseded, Loaded
<1>5. Bounded'
  BY <1>1, <1>2 DEF Inv, Bounded
<1>6. Stamps'
  BY <1>1, <1>2 DEF Inv, Stamps
<1> QED BY <1>3, <1>4, <1>5, <1>6 DEF Inv

LEMMA RefuseInv ==
    ASSUME Inv, Refuse
    PROVE  Inv'
<1>1. UNCHANGED <<table, stopping, gen, dbRules, sinceUpdate, cancelled, left, lastRun,
                  nowRunning, job, fetched, ts, queue, current, callLeft, gap, ranIn>>
  BY DEF Refuse, Goto, ruleVars, jobVars, mainVars, history
<1>2. pc = "swap" /\ pc' = "sleep"
  BY DEF Refuse, Goto, ruleVars, jobVars, mainVars, history
<1>3. TypeOK'
  BY <1>1, <1>2, DescsAssumption, TimesAssumption DEF Inv, TypeOK
<1>4. Counts' /\ Superseded' /\ Loaded'
  BY <1>1 DEF Inv, Counts, Counted, Inside, Superseded, Loaded
<1>5. Bounded'
  BY <1>1, <1>2 DEF Inv, Bounded
<1>6. Stamps'
  BY <1>1, <1>2 DEF Inv, Stamps
<1> QED BY <1>3, <1>4, <1>5, <1>6 DEF Inv

LEMMA ReloadInv ==
    ASSUME Inv, Reload
    PROVE  Inv'
<1>1. UNCHANGED <<table, stopping, nowRunning, job, fetched, ts, current, callLeft, gap,
                  ranIn>>
  BY DEF Reload, Goto, Equal, ruleVars, jobVars, mainVars, history, CancelOld
<1>2. /\ pc = "swap" /\ pc' = "next" /\ fetched # dbRules /\ fetched \cap Broken = {}
      /\ gen' = gen + 1 /\ cancelled' = cancelled \cup {gen}
      /\ dbRules' = fetched /\ sinceUpdate' = ts /\ queue' = fetched
      /\ left' = [left EXCEPT ![gen + 1] = callLeft]
      /\ lastRun' = [d \in Descs |-> None]
  BY DEF Reload, Goto, Equal, ruleVars, jobVars, mainVars, history, CancelOld
<1>a. gen \in Nat /\ gen <= MaxGen /\ gen + 1 \in Gens
  BY <1>2, TimesAssumption DEF Inv, TypeOK, Gens, Bounded
<1>3. TypeOK'
  <2>1. left' \in [Gens -> 0 .. MainTimeout \cup {None}]
    BY <1>2, <1>a DEF Inv, TypeOK
  <2>2. dbRules' \in SUBSET (Descs \ Broken) /\ queue' \in SUBSET Descs
    BY <1>2 DEF Inv, TypeOK
  <2>3. gen' \in Gens /\ cancelled' \in SUBSET Gens
    BY <1>2, <1>a DEF Inv, TypeOK
  <2>4. lastRun' \in [Descs -> Nat \cup {None}] /\ sinceUpdate' \in 0 .. UpdateInterval
    BY <1>2 DEF Inv, TypeOK
  <2> QED BY <1>1, <1>2, <2>1, <2>2, <2>3, <2>4 DEF Inv, TypeOK
<1>4. Counts'
  BY <1>1 DEF Inv, Counts, Counted, Inside
<1>5. Superseded'
  <2>1. \A g \in Gens : g \in Int
    BY TimesAssumption DEF Gens
  <2>2. \A j \in Jobs : job[j].at # "idle" => job[j].gen \in Int
    BY <2>1, JobType DEF Inv, JobState
  <2>3. \A d \in Descs : ranIn[d] \in Int
    BY <2>1 DEF Inv, TypeOK
  <2> QED BY <1>1, <1>2, <1>a, <2>1, <2>2, <2>3 DEF Inv, Superseded
<1>6. Bounded'
  BY <1>1, <1>2, <1>a, TimesAssumption DEF Inv, Bounded
<1>7. Loaded'
  BY <1>2 DEF Inv, TypeOK, Loaded
<1>8. Stamps'
  <2>1. \A d \in Descs : ranIn[d] \in Int /\ ranIn[d] <= gen
    BY TimesAssumption DEF Inv, TypeOK, Gens, Superseded
  <2> QED BY <1>1, <1>2, <1>a, <2>1 DEF Stamps
<1> QED BY <1>3, <1>4, <1>5, <1>6, <1>7, <1>8 DEF Inv

LEMMA NextRuleInv ==
    ASSUME Inv, NextRule
    PROVE  Inv'
<1>1. UNCHANGED <<table, stopping, gen, dbRules, sinceUpdate, cancelled, left, nowRunning,
                  job, fetched, ts, callLeft, gap, ranIn>>
  BY DEF NextRule, Goto, Skip, Start, ruleVars, jobVars, mainVars, history
<1>2. /\ pc = "next"
      /\ \E d \in Descs :
            /\ queue' = queue \ {d}
            /\ \/ pc' = "next" /\ UNCHANGED <<lastRun, current>>
               \/ pc' = "impl" /\ lastRun' = [lastRun EXCEPT ![d] = 0] /\ current' = d
  BY DEF NextRule, Goto, Skip, Start, ruleVars, jobVars, mainVars, history
<1>3. TypeOK'
  BY <1>1, <1>2, DescsAssumption, TimesAssumption DEF Inv, TypeOK
<1>4. Counts' /\ Superseded' /\ Loaded'
  BY <1>1 DEF Inv, Counts, Counted, Inside, Superseded, Loaded
<1>5. Bounded'
  BY <1>1, <1>2 DEF Inv, Bounded
<1>6. Stamps'
  <2>1. \A d \in Descs : lastRun'[d] # lastRun[d] => pc' = "impl" /\ current' = d
    BY <1>2 DEF Inv, TypeOK
  <2>2. pc' = "impl" => current' \in Descs
    BY <1>2
  <2> QED BY <1>1, <1>2, <2>1, <2>2 DEF Inv, Stamps
<1> QED BY <1>3, <1>4, <1>5, <1>6 DEF Inv

LEMMA EndImplInv ==
    ASSUME Inv, EndImpl
    PROVE  Inv'
<1>1. UNCHANGED <<table, stopping, gen, dbRules, sinceUpdate, cancelled, left, nowRunning,
                  fetched, ts, queue, callLeft>>
  BY DEF EndImpl, Goto, Finished, ruleVars, jobVars, mainVars, history
<1>2. /\ pc = "impl" /\ pc' = "next" /\ current' = None
      /\ lastRun' = [lastRun EXCEPT ![current] = 0] /\ gap' = [gap EXCEPT ![current] = 0]
      /\ ranIn' = [ranIn EXCEPT ![current] = gen]
      /\ \/ job' = job
         \/ \E j \in Jobs :
               /\ ~Busy(j)
               /\ job' = [job EXCEPT ![j] = [at |-> "starting", desc |-> current, gen |-> gen,
                                             left |-> Deadline(Timeout[current])]]
  BY DEF EndImpl, Goto, Finished, ruleVars, jobVars, mainVars, history
<1>a. current \in Descs
  BY <1>2 DEF Inv, Stamps
<1>b. \A j \in Jobs : \/ job'[j] = job[j]
                      \/ job[j].at = "idle" /\ job'[j].at = "starting" /\ job'[j].gen = gen
  BY <1>2, JobType DEF Inv, TypeOK
<1>3. TypeOK'
  <2>1. job' \in [Jobs -> JobState \cup {Idle}]
    <3>1. Timeout[current] \in Nat
      BY <1>a, DescsAssumption
    <3>2. [at |-> "starting", desc |-> current, gen |-> gen,
           left |-> Deadline(Timeout[current])] \in JobState
      BY <1>a, <3>1 DEF Inv, TypeOK, JobState, Deadline
    <3> QED BY <1>2, <3>2 DEF Inv, TypeOK
  <2>2. /\ lastRun' \in [Descs -> Nat \cup {None}] /\ gap' \in [Descs -> Nat \cup {None}]
        /\ ranIn' \in [Descs -> Gens]
    BY <1>2, <1>a DEF Inv, TypeOK
  <2> QED BY <1>1, <1>2, <2>1, <2>2 DEF Inv, TypeOK
<1>4. Loaded'
  BY <1>1 DEF Inv, Loaded
<1>5. Counts'
  <2> SUFFICES ASSUME NEW g \in Gens, NEW d \in Descs
               PROVE  Counted(g, d)' = Counted(g, d) /\ Inside(g, d)' = Inside(g, d)
    BY <1>1 DEF Inv, Counts
  <2>1. \A j \in Jobs : job'[j].at \in {"running", "stuck", "leaving"}
                            \/ job[j].at \in {"running", "stuck", "leaving"}
                        => job'[j] = job[j]
    BY <1>b
  <2> QED BY <2>1 DEF Counted, Inside
<1>6. Superseded'
  <2>1. \A d \in Descs : ranIn'[d] <= gen
    BY <1>2, TimesAssumption DEF Inv, TypeOK, Superseded, Gens
  <2>2. gen <= gen
    BY TimesAssumption DEF Inv, TypeOK, Gens
  <2> QED BY <1>1, <1>b, <2>1, <2>2 DEF Inv, Superseded
<1>7. Bounded'
  BY <1>1, <1>2 DEF Inv, Bounded
<1>8. Stamps'
  <2>1. lastRun'[current] = 0 /\ gap'[current] = 0
    BY <1>2, <1>a DEF Inv, TypeOK
  <2>2. \A d \in Descs : d # current => lastRun'[d] = lastRun[d] /\ gap'[d] = gap[d]
    BY <1>2, <1>a DEF Inv, TypeOK
  <2>3. \A d \in Descs : d # current => ranIn'[d] = ranIn[d]
    BY <1>2, <1>a DEF Inv, TypeOK
  <2> QED BY <1>1, <1>2, <2>1, <2>2, <2>3 DEF Inv, Stamps
<1> QED BY <1>3, <1>4, <1>5, <1>6, <1>7, <1>8 DEF Inv

LEMMA AllRunInv ==
    ASSUME Inv, AllRun
    PROVE  Inv'
<1>1. UNCHANGED <<table, stopping, gen, dbRules, sinceUpdate, cancelled, left, lastRun,
                  nowRunning, job, fetched, ts, queue, current, callLeft, gap, ranIn>>
  BY DEF AllRun, Goto, ruleVars, jobVars, mainVars, history
<1>2. pc = "next" /\ pc' = "sleep"
  BY DEF AllRun, Goto, ruleVars, jobVars, mainVars, history
<1>3. TypeOK'
  BY <1>1, <1>2, DescsAssumption, TimesAssumption DEF Inv, TypeOK
<1>4. Counts' /\ Superseded' /\ Loaded'
  BY <1>1 DEF Inv, Counts, Counted, Inside, Superseded, Loaded
<1>5. Bounded'
  BY <1>1, <1>2 DEF Inv, Bounded
<1>6. Stamps'
  BY <1>1, <1>2 DEF Inv, Stamps
<1> QED BY <1>3, <1>4, <1>5, <1>6 DEF Inv

LEMMA WakeInv ==
    ASSUME Inv, Wake
    PROVE  Inv'
<1>1. UNCHANGED <<table, stopping, gen, dbRules, sinceUpdate, cancelled, left, lastRun,
                  nowRunning, job, fetched, ts, queue, current, callLeft, gap, ranIn>>
  BY DEF Wake, Goto, ruleVars, jobVars, mainVars, history
<1>2. pc = "sleep" /\ pc' = "top"
  BY DEF Wake, Goto, ruleVars, jobVars, mainVars, history
<1>3. TypeOK'
  BY <1>1, <1>2, DescsAssumption, TimesAssumption DEF Inv, TypeOK
<1>4. Counts' /\ Superseded' /\ Loaded'
  BY <1>1 DEF Inv, Counts, Counted, Inside, Superseded, Loaded
<1>5. Bounded'
  BY <1>1, <1>2 DEF Inv, Bounded
<1>6. Stamps'
  BY <1>1, <1>2 DEF Inv, Stamps
<1> QED BY <1>3, <1>4, <1>5, <1>6 DEF Inv

LEMMA ExitInv ==
    ASSUME Inv, Exit
    PROVE  Inv'
<1>1. UNCHANGED <<table, stopping, gen, dbRules, sinceUpdate, cancelled, left, lastRun,
                  nowRunning, job, fetched, ts, queue, current, callLeft, gap, ranIn>>
  BY DEF Exit, Goto, ruleVars, jobVars, mainVars, history
<1>2. pc = "wait" /\ pc' = "exited"
  BY DEF Exit, Goto, ruleVars, jobVars, mainVars, history
<1>3. TypeOK'
  BY <1>1, <1>2, DescsAssumption, TimesAssumption DEF Inv, TypeOK
<1>4. Counts' /\ Superseded' /\ Loaded'
  BY <1>1 DEF Inv, Counts, Counted, Inside, Superseded, Loaded
<1>5. Bounded'
  BY <1>1, <1>2 DEF Inv, Bounded
<1>6. Stamps'
  BY <1>1, <1>2 DEF Inv, Stamps
<1> QED BY <1>3, <1>4, <1>5, <1>6 DEF Inv

LEMMA EnterInv ==
    ASSUME Inv, NEW j \in Jobs, Enter(j)
    PROVE  Inv'
<1>1. UNCHANGED <<table, stopping, gen, dbRules, sinceUpdate, cancelled, left, lastRun, pc,
                  fetched, ts, queue, current, callLeft, gap, ranIn>>
  BY DEF Enter, JobGoto, Rest, ruleVars, jobVars, mainVars, history
<1>2. /\ job[j].at = "starting"
      /\ nowRunning' = [nowRunning EXCEPT ![job[j].gen][job[j].desc] = nowRunning[job[j].gen][job[j].desc] + 1]
      /\ job' = [job EXCEPT ![j].at =
                    IF Limit[job[j].desc] > 0 /\ nowRunning[job[j].gen][job[j].desc] + 1 > Limit[job[j].desc]
                    THEN "leaving" ELSE "running"]
  BY DEF Enter, JobGoto, Rest, ruleVars, jobVars, mainVars, history
<1>a. /\ job[j] \in JobState
      /\ job' = [job EXCEPT ![j] = [job[j] EXCEPT !.at = job'[j].at]]
      /\ job'[j].at \in {"running", "leaving"}
  BY <1>2, JobType DEF Inv, TypeOK, JobState, Idle, Busy
<1>b. /\ job[j].gen \in Gens /\ job[j].desc \in Descs
      /\ job'[j].gen = job[j].gen /\ job'[j].desc = job[j].desc
      /\ \A i \in Jobs : i # j => job'[i] = job[i]
  BY <1>a DEF Inv, TypeOK, JobState
<1>3. TypeOK'
  <2>1. job' \in [Jobs -> JobState \cup {Idle}]
    <3>1. [job[j] EXCEPT !.at = job'[j].at] \in JobState
      BY <1>a DEF JobState
    <3> QED BY <1>a, <3>1 DEF Inv, TypeOK
  <2>2. nowRunning' \in [Gens -> [Descs -> Nat]]
    BY <1>2, <1>b DEF Inv, TypeOK
  <2> QED BY <1>1, <2>1, <2>2 DEF Inv, TypeOK
<1>4. Bounded' /\ Loaded' /\ Stamps'
  BY <1>1 DEF Inv, Bounded, Loaded, Stamps
<1>5. Counts'
  <2> SUFFICES ASSUME NEW g \in Gens, NEW d \in Descs
               PROVE  /\ nowRunning'[g][d] = Cardinality(Counted(g, d)')
                      /\ Limit[d] > 0 => Cardinality(Inside(g, d)') <= Limit[d]
    BY DEF Counts
  <2>1. /\ nowRunning[g][d] = Cardinality(Counted(g, d))
        /\ Limit[d] > 0 => Cardinality(Inside(g, d)) <= Limit[d]
    BY DEF Inv, Counts
  <2>2. CASE g # job[j].gen \/ d # job[j].desc
    <3>1. Counted(g, d)' = Counted(g, d) /\ Inside(g, d)' = Inside(g, d)
      BY <1>b, <2>2 DEF Counted, Inside
    <3>2. nowRunning'[g][d] = nowRunning[g][d]
      BY <1>2, <1>b, <2>2 DEF Inv, TypeOK
    <3> QED BY <2>1, <3>1, <3>2
  <2>3. CASE g = job[j].gen /\ d = job[j].desc
    <3>1. j \notin Counted(g, d) /\ Counted(g, d)' = Counted(g, d) \cup {j}
      BY <1>2, <1>a, <1>b, <2>3 DEF Counted
    <3>2. nowRunning'[g][d] = nowRunning[g][d] + 1
      BY <1>2, <2>3 DEF Inv, TypeOK
    <3>3. Cardinality(Counted(g, d)') = Cardinality(Counted(g, d)) + 1
      BY <3>1, CountedFinite, FS_AddElement
    <3>4. CASE job'[j].at = "leaving"
      <4>1. Inside(g, d)' = Inside(g, d)
        BY <1>2, <1>b, <3>4 DEF Inside
      <4> QED BY <2>1, <3>2, <3>3, <4>1
    <3>5. CASE job'[j].at = "running"
      <4>1. Limit[d] > 0 => nowRunning[g][d] + 1 <= Limit[d]
        <5>1. ~(Limit[d] > 0 /\ nowRunning[g][d] + 1 > Limit[d])
          BY <1>2, <2>3, <3>5 DEF Inv, TypeOK
        <5>2. Limit[d] \in Nat /\ nowRunning[g][d] \in Nat
          BY DescsAssumption DEF Inv, TypeOK
        <5> QED BY <5>1, <5>2
      <4>2. Inside(g, d)' = Inside(g, d) \cup {j} /\ j \notin Inside(g, d)
        BY <1>2, <1>b, <2>3, <3>5 DEF Inside
      <4>3. Cardinality(Inside(g, d)') = Cardinality(Inside(g, d)) + 1
        BY <4>2, CountedFinite, FS_AddElement
      <4>4. Limit[d] \in Nat
        BY DescsAssumption
      <4> QED BY <2>1, <3>2, <3>3, <4>1, <4>3, <4>4, CountedFinite
    <3> QED BY <1>a, <3>4, <3>5
  <2> QED BY <2>2, <2>3
<1>6. Superseded'
  <2>1. \A i \in Jobs : job'[i].at # "idle" => job[i].at # "idle" /\ job'[i].gen = job[i].gen
    BY <1>2, JobType DEF Inv, TypeOK, JobState, Idle
  <2> QED BY <1>1, <2>1 DEF Inv, Superseded
<1> QED BY <1>3, <1>4, <1>5, <1>6 DEF Inv

\* A job past its limit moves on: it stays counted, and inside or no more.
LEMMA MoveOnInv ==
    ASSUME Inv, NEW j \in Jobs, job[j].at \in {"running", "stuck"}, NEW s \in {"stuck", "leaving"},
           JobGoto(j, s), UNCHANGED nowRunning, Rest
    PROVE  Inv'
<1>1. UNCHANGED <<table, stopping, gen, dbRules, sinceUpdate, cancelled, left, lastRun,
                  nowRunning, pc, fetched, ts, queue, current, callLeft, gap, ranIn>>
  BY DEF JobGoto, Rest, ruleVars, jobVars, mainVars, history
<1>2. job[j].at \in {"running", "stuck"} /\ job' = [job EXCEPT ![j].at = s]
  BY DEF JobGoto, Rest, ruleVars, jobVars, mainVars, history
<1>a. /\ job[j] \in JobState
      /\ job' = [job EXCEPT ![j] = [job[j] EXCEPT !.at = job'[j].at]]
      /\ job'[j].at = s
  BY <1>2, JobType DEF Inv, TypeOK, JobState, Idle, Busy
<1>b. /\ job[j].gen \in Gens /\ job[j].desc \in Descs
      /\ job'[j].gen = job[j].gen /\ job'[j].desc = job[j].desc
      /\ \A i \in Jobs : i # j => job'[i] = job[i]
  BY <1>a DEF Inv, TypeOK, JobState
<1>3. TypeOK'
  <2>1. job' \in [Jobs -> JobState \cup {Idle}]
    BY <1>2, JobType DEF Inv, TypeOK, JobState
  <2> QED BY <1>1, <2>1 DEF Inv, TypeOK
<1>4. Bounded' /\ Loaded' /\ Stamps'
  BY <1>1 DEF Inv, Bounded, Loaded, Stamps
<1>5. Counts'
  <2> SUFFICES ASSUME NEW g \in Gens, NEW d \in Descs
               PROVE  /\ nowRunning'[g][d] = Cardinality(Counted(g, d)')
                      /\ Limit[d] > 0 => Cardinality(Inside(g, d)') <= Limit[d]
    BY DEF Counts
  <2>1. /\ nowRunning[g][d] = Cardinality(Counted(g, d))
        /\ Limit[d] > 0 => Cardinality(Inside(g, d)) <= Limit[d]
    BY DEF Inv, Counts
  <2>2. Counted(g, d)' = Counted(g, d)
    BY <1>2, <1>b DEF Counted
  <2>3. Inside(g, d)' \subseteq Inside(g, d)
    BY <1>2, <1>b DEF Inside
  <2>4. Cardinality(Inside(g, d)') <= Cardinality(Inside(g, d)) /\ Cardinality(Inside(g, d)') \in Nat
    BY <2>3, CountedFinite, FS_Subset, FS_CardinalityType
  <2>5. Limit[d] \in Nat /\ Cardinality(Inside(g, d)) \in Nat
    BY DescsAssumption, CountedFinite
  <2> QED BY <1>1, <2>1, <2>2, <2>4, <2>5
<1>6. Superseded'
  <2>1. \A i \in Jobs : job'[i].at # "idle" => job[i].at # "idle" /\ job'[i].gen = job[i].gen
    BY <1>2, JobType DEF Inv, TypeOK, JobState, Idle
  <2> QED BY <1>1, <2>1 DEF Inv, Superseded
<1> QED BY <1>3, <1>4, <1>5, <1>6 DEF Inv

LEMMA CompleteInv ==
    ASSUME Inv, NEW j \in Jobs, Complete(j) \/ GetStuck(j) \/ FailJob(j)
    PROVE  Inv'
<1>1. UNCHANGED nowRunning /\ Rest /\ job[j].at \in {"running", "stuck"}
  BY DEF Complete, GetStuck, FailJob
<1>2. JobGoto(j, "stuck") \/ JobGoto(j, "leaving")
  BY DEF Complete, GetStuck, FailJob
<1> QED BY <1>1, <1>2, MoveOnInv

LEMMA LeaveInv ==
    ASSUME Inv, NEW j \in Jobs, Leave(j)
    PROVE  Inv'
<1>1. UNCHANGED <<table, stopping, gen, dbRules, sinceUpdate, cancelled, left, lastRun, pc,
                  fetched, ts, queue, current, callLeft, gap, ranIn>>
  BY DEF Leave, JobGoto, Rest, ruleVars, jobVars, mainVars, history
<1>2. /\ job[j].at = "leaving" /\ job' = [job EXCEPT ![j] = Idle]
      /\ nowRunning' = [nowRunning EXCEPT ![job[j].gen][job[j].desc] = nowRunning[job[j].gen][job[j].desc] - 1]
  BY DEF Leave, JobGoto, Rest, ruleVars, jobVars, mainVars, history
<1>a. job[j] \in JobState /\ job'[j].at = "idle" /\ \A i \in Jobs : i # j => job'[i] = job[i]
  BY <1>2, JobType DEF Inv, TypeOK, Idle
<1>b. job[j].gen \in Gens /\ job[j].desc \in Descs
  BY <1>a DEF JobState
<1>c. /\ j \in Counted(job[j].gen, job[j].desc)
      /\ nowRunning[job[j].gen][job[j].desc] = Cardinality(Counted(job[j].gen, job[j].desc))
      /\ nowRunning[job[j].gen][job[j].desc] - 1 \in Nat
  <2>1. j \in Counted(job[j].gen, job[j].desc)
    BY <1>2 DEF Counted
  <2>2. nowRunning[job[j].gen][job[j].desc] = Cardinality(Counted(job[j].gen, job[j].desc))
    BY <1>b DEF Inv, Counts
  <2>3. Cardinality(Counted(job[j].gen, job[j].desc)) # 0
    BY <2>1, CountedFinite, FS_EmptySet
  <2>4. Cardinality(Counted(job[j].gen, job[j].desc)) \in Nat
    BY CountedFinite
  <2> QED BY <2>1, <2>2, <2>3, <2>4
<1>3. TypeOK'
  <2>1. job' \in [Jobs -> JobState \cup {Idle}]
    BY <1>2 DEF Inv, TypeOK
  <2>2. nowRunning' \in [Gens -> [Descs -> Nat]]
    BY <1>2, <1>b, <1>c DEF Inv, TypeOK
  <2> QED BY <1>1, <2>1, <2>2 DEF Inv, TypeOK
<1>4. Bounded' /\ Loaded' /\ Stamps'
  BY <1>1 DEF Inv, Bounded, Loaded, Stamps
<1>5. Counts'
  <2> SUFFICES ASSUME NEW g \in Gens, NEW d \in Descs
               PROVE  /\ nowRunning'[g][d] = Cardinality(Counted(g, d)')
                      /\ Limit[d] > 0 => Cardinality(Inside(g, d)') <= Limit[d]
    BY DEF Counts
  <2>1. /\ nowRunning[g][d] = Cardinality(Counted(g, d))
        /\ Limit[d] > 0 => Cardinality(Inside(g, d)) <= Limit[d]
    BY DEF Inv, Counts
  <2>2. Inside(g, d)' = Inside(g, d)
    BY <1>2, <1>a DEF Inside
  <2>3. CASE g # job[j].gen \/ d # job[j].desc
    <3>1. Counted(g, d)' = Counted(g, d)
      BY <1>a, <2>3 DEF Counted
    <3>2. nowRunning'[g][d] = nowRunning[g][d]
      BY <1>2, <1>b, <2>3 DEF Inv, TypeOK
    <3> QED BY <2>1, <2>2, <3>1, <3>2
  <2>4. CASE g = job[j].gen /\ d = job[j].desc
    <3>1. Counted(g, d)' = Counted(g, d) \ {j}
      BY <1>a, <2>4 DEF Counted
    <3>2. Cardinality(Counted(g, d)') = Cardinality(Counted(g, d)) - 1
      <4>1. IsFiniteSet(Counted(g, d)) /\ j \in Counted(g, d)
        BY <1>c, <2>4, CountedFinite
      <4> QED BY <3>1, <4>1, FS_RemoveElement
    <3>3. nowRunning'[g][d] = nowRunning[g][d] - 1
      BY <1>2, <2>4 DEF Inv, TypeOK
    <3> QED BY <2>1, <2>2, <3>2, <3>3
  <2> QED BY <2>3, <2>4
<1>6. Superseded'
  <2>1. \A i \in Jobs : job'[i].at # "idle" => job[i].at # "idle" /\ job'[i].gen = job[i].gen
    BY <1>2, JobType DEF Inv, TypeOK, JobState, Idle
  <2> QED BY <1>1, <2>1 DEF Inv, Superseded
<1> QED BY <1>3, <1>4, <1>5, <1>6 DEF Inv

LEMMA TickInv ==
    ASSUME Inv, Tick
    PROVE  Inv'
<1>1. UNCHANGED <<table, stopping, gen, dbRules, cancelled, nowRunning, pc, fetched, queue,
                  current, ranIn>>
  BY DEF Tick, ruleVars, jobVars, mainVars, history
<1>2. /\ sinceUpdate' = Older(sinceUpdate, UpdateInterval) /\ ts' = Older(ts, UpdateInterval)
      /\ left' = [g \in Gens |-> Closer(left[g])] /\ callLeft' = Closer(callLeft)
      /\ lastRun' = [d \in Descs |-> Older(lastRun[d], MinInterval[d])]
      /\ gap' = [d \in Descs |-> Older(gap[d], MinInterval[d])]
      /\ job' = [j \in Jobs |-> IF Busy(j) THEN [job[j] EXCEPT !.left = Closer(@)] ELSE Idle]
  BY DEF Tick, ruleVars, jobVars, mainVars, history
<1>b. \A j \in Jobs :
        /\ job'[j] \in JobState \cup {Idle}
        /\ job'[j].at = job[j].at
        /\ job'[j].at # "idle" => job'[j].gen = job[j].gen /\ job'[j].desc = job[j].desc
  <2> SUFFICES ASSUME NEW j \in Jobs
               PROVE  /\ job'[j] \in JobState \cup {Idle}
                      /\ job'[j].at = job[j].at
                      /\ job'[j].at # "idle" => job'[j].gen = job[j].gen /\ job'[j].desc = job[j].desc
    OBVIOUS
  <2>1. CASE ~Busy(j)
    BY <1>2, <2>1 DEF Busy, Idle
  <2>2. CASE Busy(j)
    <3>1. job[j] \in JobState /\ Closer(job[j].left) \in Nat \cup {None}
      BY <2>2, JobType, TimesAssumption DEF Inv, JobState, Closer
    <3>2. job'[j] = [job[j] EXCEPT !.left = Closer(job[j].left)]
      BY <1>2, <2>2
    <3> QED BY <3>1, <3>2 DEF JobState
  <2> QED BY <2>1, <2>2
<1>3. TypeOK'
  <2>1. sinceUpdate' \in 0 .. UpdateInterval /\ ts' \in 0 .. UpdateInterval
    BY <1>2, TimesAssumption DEF Inv, TypeOK, Older
  <2>2. \A t \in 0 .. MainTimeout \cup {None} : Closer(t) \in 0 .. MainTimeout \cup {None}
    BY TimesAssumption DEF Closer
  <2>3. left' \in [Gens -> 0 .. MainTimeout \cup {None}] /\ callLeft' \in 0 .. MainTimeout \cup {None}
    BY <1>2, <2>2 DEF Inv, TypeOK
  <2>4. \A a \in Nat \cup {None}, d \in Descs : Older(a, MinInterval[d]) \in Nat \cup {None}
    BY DescsAssumption DEF Older
  <2>5. lastRun' \in [Descs -> Nat \cup {None}] /\ gap' \in [Descs -> Nat \cup {None}]
    BY <1>2, <2>4 DEF Inv, TypeOK
  <2>6. job' \in [Jobs -> JobState \cup {Idle}]
    BY <1>2, <1>b
  <2> QED BY <1>1, <2>1, <2>3, <2>5, <2>6 DEF Inv, TypeOK
<1>4. Bounded'
  BY <1>1 DEF Inv, Bounded
<1>5. Counts'
  <2> SUFFICES ASSUME NEW g \in Gens, NEW d \in Descs
               PROVE  Counted(g, d)' = Counted(g, d) /\ Inside(g, d)' = Inside(g, d)
    BY <1>1 DEF Inv, Counts
  <2> QED BY <1>b DEF Counted, Inside
<1>6. Superseded'
  BY <1>1, <1>b DEF Inv, Superseded
<1>7. Loaded'
  <2>1. sinceUpdate' < UpdateInterval => sinceUpdate < UpdateInterval
    BY <1>2, TimesAssumption DEF Inv, TypeOK, Older
  <2> QED BY <1>1, <2>1 DEF Inv, Loaded
<1>8. Stamps'
  BY <1>1, <1>2 DEF Inv, Stamps
<1> QED BY <1>3, <1>4, <1>5, <1>6, <1>7, <1>8 DEF Inv

LEMMA EditTableInv ==
    ASSUME Inv, EditTable
    PROVE  Inv'
<1>1. UNCHANGED <<stopping, gen, dbRules, sinceUpdate, cancelled, left, lastRun, nowRunning,
                  job, pc, fetched, ts, queue, current, callLeft, gap, ranIn>>
  BY DEF EditTable, ruleVars, jobVars, mainVars, history
<1>2. gen < MaxGen /\ table' \in SUBSET Descs
  BY DEF EditTable, ruleVars, jobVars, mainVars, history
<1>3. TypeOK'
  BY <1>1, <1>2, DescsAssumption, TimesAssumption DEF Inv, TypeOK
<1>4. Counts' /\ Superseded' /\ Loaded' /\ Stamps'
  BY <1>1 DEF Inv, Counts, Counted, Inside, Superseded, Loaded, Stamps
<1>5. Bounded'
  <2>1. ~(gen >= MaxGen) /\ gen # MaxGen + 1
    BY <1>2, TimesAssumption DEF Inv, TypeOK, Gens
  <2> QED BY <1>1, <2>1 DEF Bounded
<1> QED BY <1>3, <1>4, <1>5 DEF Inv

LEMMA SignalInv ==
    ASSUME Inv, Signal
    PROVE  Inv'
<1>1. UNCHANGED <<table, gen, dbRules, sinceUpdate, cancelled, left, lastRun, nowRunning, job,
                  pc, fetched, ts, queue, current, callLeft, gap, ranIn>>
  BY DEF Signal, ruleVars, jobVars, mainVars, history
<1>2. stopping' = TRUE
  BY DEF Signal, ruleVars, jobVars, mainVars, history
<1>3. TypeOK'
  BY <1>1, <1>2, DescsAssumption, TimesAssumption DEF Inv, TypeOK
<1>4. Counts' /\ Superseded' /\ Bounded' /\ Loaded' /\ Stamps'
  BY <1>1 DEF Inv, Counts, Counted, Inside, Superseded, Bounded, Loaded, Stamps
<1> QED BY <1>3, <1>4 DEF Inv

-----------------------------------------------------------------------------
(* The invariant *)

LEMMA NextInv == Inv /\ [Next]_vars => Inv'
<1> SUFFICES ASSUME Inv, [Next]_vars PROVE Inv'
  OBVIOUS
<1>1. CASE MainStep
  BY <1>1, TopInv, ThrottledInv, ReadTableInv, SameInv, RefuseInv, ReloadInv, NextRuleInv,
     EndImplInv, AllRunInv, WakeInv, ExitInv DEF MainStep
<1>2. ASSUME NEW j \in Jobs, JobStep(j)
      PROVE  Inv'
  BY <1>2, EnterInv, CompleteInv, LeaveInv DEF JobStep
<1>3. CASE Tick \/ EditTable \/ Signal
  BY <1>3, TickInv, EditTableInv, SignalInv
<1>4. CASE UNCHANGED vars
  <2>1. UNCHANGED <<table, stopping, gen, dbRules, sinceUpdate, cancelled, left, lastRun, nowRunning,
                    job, pc, fetched, ts, queue, current, callLeft, gap, ranIn>>
    BY <1>4 DEF vars, ruleVars, jobVars, mainVars, history
  <2>2. TypeOK'
    BY <2>1 DEF Inv, TypeOK
  <2>3. Counts' /\ Superseded' /\ Bounded' /\ Loaded' /\ Stamps'
    BY <2>1 DEF Inv, Counts, Counted, Inside, Superseded, Bounded, Loaded, Stamps
  <2> QED BY <2>2, <2>3 DEF Inv
<1> QED BY <1>1, <1>2, <1>3, <1>4 DEF Next

LEMMA Inductive == Spec => []Inv
BY InitInv, NextInv, PTL DEF Spec

\* The variables keep their types; the counters never fall below zero and the rules
\* are reloaded as often as the table is edited, and once more at most.
THEOREM SchedulerTyped == Spec => []TypeOK
<1>1. Inv => TypeOK
  BY DEF Inv
<1> QED BY <1>1, Inductive, PTL

\* ConcurrencyLimit holds over reloads: a new counter starts at zero, but the jobs
\* of the old one have their context cancelled when it starts.
THEOREM LimitsHold == Spec => []LiveJobsLimited
<1>1. Inv => LiveJobsLimited
  <2> SUFFICES ASSUME Inv, NEW d \in Descs, Limit[d] > 0
               PROVE  Cardinality(Open(d)) <= Limit[d]
    BY DEF LiveJobsLimited
  <2>1. gen \in Gens /\ Cardinality(Inside(gen, d)) <= Limit[d]
    BY DEF Inv, TypeOK, Counts
  <2>2. Open(d) \subseteq Inside(gen, d)
    <3> SUFFICES ASSUME NEW j \in Jobs, job[j].at \in {"running", "stuck"}, job[j].desc = d, ~JobDone(j)
                 PROVE  job[j].gen = gen
      BY DEF Open, Inside
    <3>1. job[j].gen \in Gens /\ job[j].gen <= gen
      BY JobType DEF Inv, Superseded, JobState
    <3>2. ~(job[j].gen < gen)
      BY <3>1 DEF Inv, Superseded, JobDone, Done
    <3> QED BY <2>1, <3>1, <3>2, TimesAssumption DEF Gens
  <2>3. Cardinality(Open(d)) <= Cardinality(Inside(gen, d)) /\ Cardinality(Open(d)) \in Nat
    BY <2>2, CountedFinite, FS_Subset, FS_CardinalityType
  <2>4. Limit[d] \in Nat /\ Cardinality(Inside(gen, d)) \in Nat
    BY DescsAssumption, CountedFinite
  <2> QED BY <2>1, <2>3, <2>4
<1> QED BY <1>1, Inductive, PTL

\* MinInterval holds while the rules are not reloaded: executeOnce stamps the rule
\* before and after it runs, and asks the stamp first.
THEOREM IntervalsHold == Spec => RunsSpaced
<1>1. Inv /\ [Next]_vars => [\A d \in Descs : Starts(d) /\ ranIn[d] = gen => ~Early(d)]_vars
  <2> SUFFICES ASSUME Inv, Next, NEW d \in Descs, Starts(d), ranIn[d] = gen
               PROVE  ~Early(d)
    OBVIOUS
  <2>1. NextRule
    <3>1. ASSUME NEW j \in Jobs, JobStep(j) PROVE pc' = pc
      BY <3>1 DEF JobStep, Enter, Complete, GetStuck, FailJob, Leave, Rest, mainVars
    <3>2. ASSUME Tick \/ EditTable \/ Signal PROVE pc' = pc
      BY <3>2 DEF Tick, EditTable, Signal, mainVars
    <3>3. ASSUME MainStep, ~NextRule PROVE pc' # "impl"
      BY <3>3 DEF MainStep, Top, Throttled, ReadTable, Same, Refuse, Reload, EndImpl, AllRun,
         Wake, Exit, Goto, CancelOld
    <3> QED BY <3>1, <3>2, <3>3 DEF Next, Starts
  <2>2. PICK e \in Descs : Skip(e) \/ Start(e)
    BY <2>1 DEF NextRule
  <2>3. Start(d) /\ pc = "next"
    BY <2>1, <2>2 DEF Skip, Start, Goto, Starts, NextRule
  <2>4. lastRun[d] = gap[d]
    BY <2>3 DEF Inv, Stamps
  <2> QED BY <2>3, <2>4 DEF Start, TooEarly, Early
<1> QED BY <1>1, Inductive, PTL DEF Spec, RunsSpaced
=============================================================================
