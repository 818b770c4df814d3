------------------------- MODULE ProjectCountersProof -------------------------
(***************************************************************************)
(* More proofs about ProjectRules, on top of the invariant of module       *)
(* ProjectRulesProof: the concurrency counter of QueryProject, for any     *)
(* rules, limits, jobs and crashes; the flag that keeps a process from     *)
(* deleting a project twice; how many projects any number of processes     *)
(* may delete, and which they spare.                                       *)
(***************************************************************************)
EXTENDS ProjectRulesProof, FiniteSetTheorems

CInv == CounterExact /\ LimitRespected

CountedSteps == {"connect", "run", "uncount"}

LEMMA CountedFinite ==
    ASSUME NEW n, NEW r
    PROVE  /\ IsFiniteSet(Counted(n, r)) /\ IsFiniteSet(InQuery(n, r))
           /\ InQuery(n, r) \subseteq Counted(n, r)
           /\ Cardinality(InQuery(n, r)) <= Cardinality(Counted(n, r))
           /\ Cardinality(InQuery(n, r)) \in Nat /\ Cardinality(Counted(n, r)) \in Nat
<1>1. Counted(n, r) \subseteq Jobs /\ InQuery(n, r) \subseteq Counted(n, r)
  BY DEF Counted, InQuery, Querying
<1>2. IsFiniteSet(Counted(n, r))
  BY <1>1, FS_Subset, JobsAssumption
<1> QED BY <1>1, <1>2, FS_Subset, FS_CardinalityType

\* A step that moves no job into the counted part or out of it, and none into the
\* queries, disturbs neither property.
Steady ==
    /\ running' = running
    /\ \A j \in Jobs :
          /\ pc'[j] \in CountedSteps <=> pc[j] \in CountedSteps
          /\ pc[j] \in CountedSteps => rule'[j] = rule[j]
          /\ Querying(j)' => Querying(j)

LEMMA SteadyCounts == ASSUME CInv, Steady PROVE CInv'
<1>1. ASSUME NEW n \in Nodes, NEW r \in Rules
      PROVE  /\ running'[n][r] = Cardinality(Counted(n, r)')
             /\ Limit[r] > 0 => Cardinality(InQuery(n, r)') <= Limit[r]
  <2>1. Counted(n, r)' = Counted(n, r)
    BY DEF Counted, Steady, CountedSteps
  <2>2. InQuery(n, r)' \subseteq InQuery(n, r)
    BY DEF InQuery, Steady, CountedSteps, Querying
  <2>3. Cardinality(InQuery(n, r)') <= Cardinality(InQuery(n, r)) /\ Cardinality(InQuery(n, r)') \in Nat
    BY <2>2, CountedFinite, FS_Subset, FS_CardinalityType
  <2>4. Limit[r] \in Nat /\ Cardinality(InQuery(n, r)) \in Nat
    BY RulesAssumption, CountedFinite
  <2> QED BY <2>1, <2>3, <2>4 DEF CInv, CounterExact, LimitRespected, Steady
<1> QED BY <1>1 DEF CInv, CounterExact, LimitRespected

LEMMA InitCounts == Init => CInv
<1> SUFFICES ASSUME Init, NEW n \in Nodes, NEW r \in Rules
             PROVE  /\ running[n][r] = Cardinality(Counted(n, r))
                    /\ Limit[r] > 0 => Cardinality(InQuery(n, r)) <= Limit[r]
  BY DEF CInv, CounterExact, LimitRespected
<1>1. Counted(n, r) = {} /\ InQuery(n, r) = {}
  BY DEF Init, Counted, InQuery, Querying
<1> QED BY <1>1, FS_EmptySet, RulesAssumption DEF Init

LEMMA CountCounts ==
    ASSUME IInv, CInv, NEW j \in Jobs, Count(j)
    PROVE  CInv'
<1> DEFINE h == Home[j]
           k == rule[j]
<1>1. h \in Nodes /\ k \in Rules /\ pc[j] = "count"
  BY HomeAssumption DEF IInv, LockInv, Pointers, Count
<1>2. /\ running' = [running EXCEPT ![h][k] = running[h][k] + 1]
      /\ rule' = rule
      /\ pc' = [pc EXCEPT ![j] = IF Limit[k] > 0 /\ running[h][k] + 1 > Limit[k]
                                 THEN "uncount" ELSE "connect"]
  BY DEF Count, Over, Goto
<1>3. pc'[j] \in {"uncount", "connect"} /\ \A i \in Jobs : i # j => pc'[i] = pc[i]
  BY <1>2 DEF IInv, TypeOK, JobTypeOK
<1>4. ASSUME NEW n \in Nodes, NEW r \in Rules
      PROVE  /\ running'[n][r] = Cardinality(Counted(n, r)')
             /\ Limit[r] > 0 => Cardinality(InQuery(n, r)') <= Limit[r]
  <2>1. /\ running[n][r] = Cardinality(Counted(n, r))
        /\ Limit[r] > 0 => Cardinality(InQuery(n, r)) <= Limit[r]
    BY DEF CInv, CounterExact, LimitRespected
  <2>2. CASE n # h \/ r # k
    <3>1. Counted(n, r)' = Counted(n, r) /\ InQuery(n, r)' = InQuery(n, r)
      BY <1>2, <1>3, <2>2 DEF Counted, InQuery, Querying
    <3>2. running'[n][r] = running[n][r]
      BY <1>1, <1>2, <2>2 DEF IInv, TypeOK, JobTypeOK
    <3> QED BY <2>1, <3>1, <3>2
  <2>3. CASE n = h /\ r = k
    <3>1. j \notin Counted(n, r) /\ Counted(n, r)' = Counted(n, r) \cup {j}
      BY <1>1, <1>2, <1>3, <2>3 DEF Counted
    <3>2. running'[n][r] = running[n][r] + 1
      BY <1>1, <1>2, <2>3 DEF IInv, TypeOK, JobTypeOK
    <3>3. Cardinality(Counted(n, r)') = Cardinality(Counted(n, r)) + 1
      BY <3>1, CountedFinite, FS_AddElement
    <3>4. CASE pc'[j] = "uncount"
      <4>1. InQuery(n, r)' = InQuery(n, r)
        BY <1>1, <1>2, <1>3, <3>4 DEF InQuery, Querying
      <4> QED BY <2>1, <3>2, <3>3, <4>1
    <3>5. CASE pc'[j] = "connect"
      <4>1. Limit[r] \in Nat /\ running[n][r] \in Int
        BY RulesAssumption DEF IInv, TypeOK, JobTypeOK
      <4>2. Limit[r] > 0 => running[n][r] + 1 <= Limit[r]
        <5>1. ~(Limit[r] > 0 /\ running[n][r] + 1 > Limit[r])
          BY <1>2, <2>3, <3>5 DEF IInv, TypeOK, JobTypeOK
        <5> QED BY <4>1, <5>1
      <4>3. InQuery(n, r)' = InQuery(n, r) \cup {j} /\ j \notin InQuery(n, r)
        BY <1>1, <1>2, <1>3, <2>3, <3>5 DEF InQuery, Querying
      <4>4. Cardinality(InQuery(n, r)') = Cardinality(InQuery(n, r)) + 1
        BY <4>3, CountedFinite, FS_AddElement
      <4> QED BY <2>1, <3>2, <3>3, <4>1, <4>2, <4>4, CountedFinite
    <3> QED BY <1>3, <3>4, <3>5
  <2> QED BY <2>2, <2>3
<1> QED BY <1>4 DEF CInv, CounterExact, LimitRespected

LEMMA UncountCounts ==
    ASSUME IInv, CInv, NEW j \in Jobs, Uncount(j)
    PROVE  CInv'
<1> DEFINE h == Home[j]
           k == rule[j]
<1>1. h \in Nodes /\ k \in Rules /\ pc[j] = "uncount"
  BY HomeAssumption DEF IInv, LockInv, Pointers, Uncount
<1>2. /\ running' = [running EXCEPT ![h][k] = running[h][k] - 1]
      /\ rule' = rule /\ pc' = [pc EXCEPT ![j] = "unlock"]
  BY DEF Uncount, Goto, Locals
<1>3. pc'[j] = "unlock" /\ \A i \in Jobs : i # j => pc'[i] = pc[i]
  BY <1>2 DEF IInv, TypeOK, JobTypeOK
<1>4. ASSUME NEW n \in Nodes, NEW r \in Rules
      PROVE  /\ running'[n][r] = Cardinality(Counted(n, r)')
             /\ Limit[r] > 0 => Cardinality(InQuery(n, r)') <= Limit[r]
  <2>1. /\ running[n][r] = Cardinality(Counted(n, r))
        /\ Limit[r] > 0 => Cardinality(InQuery(n, r)) <= Limit[r]
    BY DEF CInv, CounterExact, LimitRespected
  <2>2. InQuery(n, r)' = InQuery(n, r)
    BY <1>1, <1>2, <1>3 DEF InQuery, Querying
  <2>3. CASE n # h \/ r # k
    <3>1. Counted(n, r)' = Counted(n, r)
      BY <1>2, <1>3, <2>3 DEF Counted
    <3>2. running'[n][r] = running[n][r]
      BY <1>1, <1>2, <2>3 DEF IInv, TypeOK, JobTypeOK
    <3> QED BY <2>1, <2>2, <3>1, <3>2
  <2>4. CASE n = h /\ r = k
    <3>1. j \in Counted(n, r) /\ Counted(n, r)' = Counted(n, r) \ {j}
      BY <1>1, <1>2, <1>3, <2>4 DEF Counted
    <3>2. running'[n][r] = running[n][r] - 1
      BY <1>1, <1>2, <2>4 DEF IInv, TypeOK, JobTypeOK
    <3>3. Cardinality(Counted(n, r)') = Cardinality(Counted(n, r)) - 1
      <4>1. IsFiniteSet(Counted(n, r))
        BY CountedFinite
      <4> QED BY <3>1, <4>1, FS_RemoveElement
    <3> QED BY <2>1, <2>2, <3>2, <3>3
  <2> QED BY <2>3, <2>4
<1> QED BY <1>4 DEF CInv, CounterExact, LimitRespected

\* The counters of a process start again at zero, and so do its jobs.
LEMMA CrashCounts ==
    ASSUME IInv, CInv, NEW m \in Nodes, Crash(m)
    PROVE  CInv'
<1>1. /\ running' = [running EXCEPT ![m] = [r \in Rules |-> 0]]
      /\ \A j \in Jobs : Home[j] = m => pc'[j] = "idle"
      /\ \A j \in Jobs : Home[j] # m => pc'[j] = pc[j] /\ rule'[j] = rule[j]
  BY DEF Crash
<1>2. ASSUME NEW n \in Nodes, NEW r \in Rules
      PROVE  /\ running'[n][r] = Cardinality(Counted(n, r)')
             /\ Limit[r] > 0 => Cardinality(InQuery(n, r)') <= Limit[r]
  <2>1. CASE n = m
    <3>1. Counted(n, r)' = {} /\ InQuery(n, r)' = {}
      BY <1>1, <2>1 DEF Counted, InQuery, Querying
    <3>2. running'[n][r] = 0
      BY <1>1, <2>1 DEF IInv, TypeOK, JobTypeOK
    <3> QED BY <3>1, <3>2, FS_EmptySet, RulesAssumption
  <2>2. CASE n # m
    <3>1. Counted(n, r)' = Counted(n, r) /\ InQuery(n, r)' = InQuery(n, r)
      BY <1>1, <2>2 DEF Counted, InQuery, Querying
    <3>2. running'[n][r] = running[n][r]
      BY <1>1, <2>2 DEF IInv, TypeOK, JobTypeOK
    <3> QED BY <3>1, <3>2 DEF CInv, CounterExact, LimitRespected
  <2> QED BY <2>1, <2>2
<1> QED BY <1>2 DEF CInv, CounterExact, LimitRespected

\* A job that goes on, or returns, outside the counted part or within it.
LEMMA JobSteady ==
    ASSUME IInv, NEW j \in Jobs, running' = running,
           \A i \in Jobs : i # j => pc'[i] = pc[i] /\ rule'[i] = rule[i],
           \/ pc[j] \notin CountedSteps /\ pc'[j] \notin CountedSteps
           \/ pc[j] \in {"connect", "run"} /\ pc'[j] \in CountedSteps /\ rule'[j] = rule[j]
    PROVE  Steady
BY DEF Steady, CountedSteps, Querying

LEMMA JobStepCounts ==
    ASSUME IInv, CInv, NEW j \in Jobs, QueryStep(j) \/ ChangeStep(j)
    PROVE  CInv'
<1>1. ASSUME NEW s, Goto(j, s)
      PROVE  /\ s \in JobSteps => pc'[j] = s
             /\ \A i \in Jobs : i # j => pc'[i] = pc[i]
  BY <1>1 DEF Goto, IInv, TypeOK, JobTypeOK
<1>2. ASSUME NEW v, rule' = [rule EXCEPT ![j] = v]
      PROVE  \A i \in Jobs : i # j => rule'[i] = rule[i]
  BY <1>2 DEF IInv, TypeOK, JobTypeOK
<1>3. ASSUME NEW r \in Rules, NEW p \in Projects, StartJob(j, r, p) PROVE CInv'
  BY <1>1, <1>2, <1>3, JobSteady, SteadyCounts DEF StartJob, CountedSteps, JobSteps
<1>4. ASSUME GetLock(j) \/ GetOuter(j) \/ UpdateMode(j) PROVE CInv'
  BY <1>1, <1>4, JobSteady, SteadyCounts DEF GetLock, GetOuter, UpdateMode, CountedSteps, JobSteps, Locals
<1>5. ASSUME TryLock(j) \/ SwapLock(j) \/ EndChange(j) \/ Unlock(j) PROVE CInv'
  BY <1>1, <1>2, <1>5, JobSteady, SteadyCounts DEF TryLock, SwapLock, EndChange, Unlock, CountedSteps,
     JobSteps, Locals, Return
<1>6. ASSUME Connect(j) \/ Query(j) \/ EndScenario(j) PROVE CInv'
  <2>1. /\ pc[j] \in {"connect", "run"} /\ running' = running /\ rule' = rule
        /\ (pc' = pc \/ Goto(j, "run") \/ Goto(j, "uncount"))
    BY <1>6 DEF Connect, Query, EndScenario, Fail
  <2>2. pc'[j] \in CountedSteps /\ \A i \in Jobs : i # j => pc'[i] = pc[i]
    BY <1>1, <2>1 DEF CountedSteps, JobSteps
  <2>3. Steady
    BY <2>1, <2>2, JobSteady
  <2> QED BY <2>3, SteadyCounts
<1>7. ASSUME Count(j) \/ Uncount(j) PROVE CInv'
  BY <1>7, CountCounts, UncountCounts
<1> QED BY <1>3, <1>4, <1>5, <1>6, <1>7 DEF QueryStep, ChangeStep

LEMMA NextCounts == IInv /\ CInv /\ [Next]_vars => CInv'
<1> SUFFICES ASSUME IInv, CInv, [Next]_vars PROVE CInv'
  OBVIOUS
<1>1. UNCHANGED <<running, pc, rule>> => CInv'
  <2> SUFFICES ASSUME UNCHANGED <<running, pc, rule>> PROVE Steady
    BY SteadyCounts
  <2> QED BY DEF Steady, Querying
<1>2. ASSUME NEW n \in Nodes, DeleteStep(n) PROVE UNCHANGED <<running, pc, rule>>
  BY <1>2 DEF DeleteStep, SelectForDelete, DeleteGetLock, DeleteTryLock, DeleteCheckFlag,
     DeleteCheckRecent, SaveDeleteQuery, SoftDelete, CallDelete, RetireLock, DeleteUnlock, jobVars
<1>3. ASSUME NEW p \in Projects, InsertProject(p) \/ LagEnds(p) PROVE UNCHANGED <<running, pc, rule>>
  BY <1>3 DEF InsertProject, LagEnds, jobVars
<1>4. ASSUME NEW n \in Nodes, NEW p \in Projects, ReapLock(n, p) PROVE UNCHANGED <<running, pc, rule>>
  BY <1>4 DEF ReapLock, jobVars
<1>5. CASE UNCHANGED vars
  BY <1>1, <1>5 DEF vars, jobVars
<1> QED BY <1>1, <1>2, <1>3, <1>4, <1>5, JobStepCounts, CrashCounts DEF Next

LEMMA CountersInductive == Spec => []CInv
BY InitCounts, NextCounts, Inductive, PTL DEF Spec

\* nowRunning counts exactly the jobs between its two Add calls: no early return
\* loses one or gives one back twice, and a restart starts from nothing.
THEOREM CounterCorrect == Spec => []CounterExact
BY CountersInductive, PTL DEF CInv

\* ConcurrencyLimit bounds the jobs of a rule that talk to a project at once.
THEOREM LimitCorrect == Spec => []LimitRespected
BY CountersInductive, PTL DEF CInv

-----------------------------------------------------------------------------
(* The flag *)

\* A flagged lock is one its process has issued, and the main goroutine works with
\* a lock whose flag it has seen unset.
Working(n) == dpc[n] \in {"recent", "save", "drop", "call", "retire"}
Flagged ==
    /\ \A n \in Nodes, p \in Projects, g \in Nat : <<n, p, g>> \in deleted => g \in 1 .. gen[n][p]
    /\ \A n \in Nodes : Working(n) => dptr[n] \notin deleted

\* What the steps of other threads leave of it.
LEMMA FlagsStay ==
    ASSUME Flagged, deleted' \subseteq deleted,
           \A n \in Nodes, p \in Projects : gen[n][p] \in Nat /\ gen'[n][p] \in Nat,
           \A n \in Nodes, p \in Projects, g \in Nat : <<n, p, g>> \in deleted' => gen[n][p] <= gen'[n][p],
           \A n \in Nodes : Working(n)' => Working(n) /\ dptr'[n] = dptr[n]
    PROVE  Flagged'
<1>1. ASSUME NEW n \in Nodes, NEW p \in Projects, NEW g \in Nat, <<n, p, g>> \in deleted'
      PROVE  g \in 1 .. gen'[n][p]
  <2>1. g \in 1 .. gen[n][p] /\ gen[n][p] <= gen'[n][p]
    BY <1>1 DEF Flagged
  <2> QED BY <2>1
<1>2. ASSUME NEW n \in Nodes, Working(n)'
      PROVE  dptr'[n] \notin deleted'
  BY <1>2 DEF Flagged
<1> QED BY <1>1, <1>2 DEF Flagged

\* No step of a job touches a flag or the main goroutine, and Get forgets no lock.
LEMMA JobKeepsFlags ==
    ASSUME IInv, Flagged, NEW j \in Jobs, QueryStep(j) \/ ChangeStep(j)
    PROVE  Flagged'
<1>1. /\ deleted' = deleted /\ UNCHANGED mainVars
      /\ gen' = gen \/ (target[j] \in Projects /\ Get(Home[j], target[j]))
  <2>1. pc[j] # "idle" => target[j] \in Projects
    BY DEF IInv, LockInv, Pointers
  <2> QED BY <2>1 DEF QueryStep, ChangeStep, StartJob, GetLock, TryLock, Count, Connect, Query, EndScenario,
     Uncount, Unlock, GetOuter, SwapLock, UpdateMode, EndChange, Acquire, Release, Get, lockerVars
<1>2. \A n \in Nodes, p \in Projects :
         gen[n][p] \in Nat /\ gen'[n][p] \in Nat /\ gen[n][p] <= gen'[n][p]
  <2>1. CASE gen' = gen
    BY <2>1 DEF IInv, TypeOK, LockerTypeOK
  <2>2. CASE target[j] \in Projects /\ Get(Home[j], target[j])
    <3>1. Home[j] \in Nodes /\ LockerTypeOK /\ Pointers
      BY HomeAssumption DEF IInv, TypeOK, LockInv
    <3>2. LockerTypeOK' /\ \A n \in Nodes, p \in Projects : gen[n][p] <= gen'[n][p]
      BY <2>2, <3>1, GetFacts
    <3> QED BY <3>1, <3>2 DEF LockerTypeOK
  <2> QED BY <1>1, <2>1, <2>2
<1> QED BY <1>1, <1>2, FlagsStay DEF mainVars, Working

LEMMA MainKeepsFlags ==
    ASSUME IInv, Flagged, NEW n \in Nodes, DeleteStep(n)
    PROVE  Flagged'
<1>1. \A m \in Nodes, p \in Projects : gen[m][p] \in Nat
  BY DEF IInv, TypeOK, LockerTypeOK
<1>2. ASSUME NEW s, MainGoto(n, s), s \in MainSteps
      PROVE  dpc'[n] = s /\ \A m \in Nodes : (m # n => dpc'[m] = dpc[m]) /\ dptr'[m] = dptr[m]
  BY <1>2 DEF MainGoto, IInv, TypeOK, MainTypeOK
<1>3. ASSUME NEW s \in MainSteps, dpc' = [dpc EXCEPT ![n] = s],
             \A m \in Nodes : m # n => dptr'[m] = dptr[m],
             s \notin {"recent", "save", "drop", "call", "retire"},
             deleted' = deleted, gen' = gen
      PROVE  Flagged'
  <2>1. \A m \in Nodes : Working(m)' => Working(m) /\ dptr'[m] = dptr[m]
    BY <1>3 DEF Working, IInv, TypeOK, MainTypeOK
  <2> QED BY <1>1, <1>3, <2>1, FlagsStay
<1>4. ASSUME SelectForDelete(n) PROVE Flagged'
  BY <1>3, <1>4 DEF SelectForDelete, lockerVars, MainSteps
<1>5. ASSUME DeleteGetLock(n) PROVE Flagged'
  <2>1. dtarget[n] \in Projects
    BY <1>5 DEF DeleteGetLock, IInv, LockInv, Pointers
  <2>2. \A m \in Nodes, p \in Projects : gen'[m][p] \in Nat /\ gen[m][p] <= gen'[m][p]
    <3>1. Get(n, dtarget[n]) /\ LockerTypeOK /\ Pointers
      BY <1>5 DEF DeleteGetLock, IInv, TypeOK, LockInv
    <3>2. LockerTypeOK' /\ \A m \in Nodes, p \in Projects : gen[m][p] <= gen'[m][p]
      BY <2>1, <3>1, GetFacts
    <3> QED BY <3>1, <3>2 DEF LockerTypeOK
  <2>3. \A m \in Nodes : Working(m)' => Working(m) /\ dptr'[m] = dptr[m]
    BY <1>5 DEF DeleteGetLock, Working, IInv, TypeOK, MainTypeOK
  <2>4. deleted' = deleted
    BY <1>5 DEF DeleteGetLock, Get
  <2> QED BY <1>1, <2>2, <2>3, <2>4, FlagsStay
<1>6. ASSUME MainReturn(n), deleted' = deleted, gen' = gen PROVE Flagged'
  <2>1. \A m \in Nodes : Working(m)' => Working(m) /\ dptr'[m] = dptr[m]
    BY <1>6 DEF MainReturn, Working, IInv, TypeOK, MainTypeOK
  <2> QED BY <1>1, <1>6, <2>1, FlagsStay
<1>7. ASSUME NEW s \in MainSteps, MainGoto(n, s), deleted' = deleted, gen' = gen,
             s \in {"unlock", "check"} \/ Working(n)
      PROVE  Flagged'
  <2>1. \A m \in Nodes : Working(m)' => Working(m) /\ dptr'[m] = dptr[m]
    BY <1>2, <1>7 DEF Working
  <2> QED BY <1>1, <1>7, <2>1, FlagsStay
<1>8. ASSUME DeleteTryLock(n) PROVE Flagged'
  BY <1>6, <1>7, <1>8 DEF DeleteTryLock, Acquire, lockerVars, MainSteps
<1>9. ASSUME DeleteCheckFlag(n) PROVE Flagged'
  <2>1. deleted' = deleted /\ gen' = gen
    BY <1>9 DEF DeleteCheckFlag, lockerVars
  <2>2. CASE dptr[n] \in deleted
    BY <1>7, <1>9, <2>1, <2>2 DEF DeleteCheckFlag, MainSteps
  <2>3. CASE dptr[n] \notin deleted
    <3>1. \A m \in Nodes : dptr'[m] = dptr[m] /\ (m # n => dpc'[m] = dpc[m])
      BY <1>2, <1>9, <2>3 DEF DeleteCheckFlag, MainSteps
    <3>2. \A m \in Nodes : Working(m)' => dptr'[m] \notin deleted'
      BY <2>1, <2>3, <3>1 DEF Flagged, Working
    <3> QED BY <2>1, <3>2 DEF Flagged
  <2> QED BY <2>2, <2>3
<1>10. ASSUME DeleteCheckRecent(n) \/ SaveDeleteQuery(n) \/ SoftDelete(n) \/ CallDelete(n) PROVE Flagged'
  <2>1. deleted' = deleted /\ gen' = gen /\ Working(n)
    BY <1>10 DEF DeleteCheckRecent, SaveDeleteQuery, SoftDelete, CallDelete, lockerVars, Working
  <2>2. \E s \in MainSteps : MainGoto(n, s)
    BY <1>10 DEF DeleteCheckRecent, SaveDeleteQuery, SoftDelete, CallDelete, MainSteps
  <2> QED BY <1>7, <2>1, <2>2
<1>11. ASSUME RetireLock(n) PROVE Flagged'
  <2>1. /\ dpc[n] = "retire" /\ deleted' = deleted \cup {dptr[n]} /\ gen' = gen /\ MainGoto(n, "unlock")
    BY <1>11 DEF RetireLock, Retire
  <2>2. PICK g \in 1 .. gen[n][dtarget[n]] : dptr[n] = <<n, dtarget[n], g>>
    BY <2>1 DEF IInv, LockInv, Pointers, Issued
  <2>3. ASSUME NEW m \in Nodes, Working(m)' PROVE dptr'[m] \notin deleted'
    <3>1. m # n /\ dpc'[m] = dpc[m] /\ dptr'[m] = dptr[m]
      BY <1>2, <2>1, <2>3 DEF Working, MainSteps
    <3>2. Working(m) /\ dptr[m] \notin deleted
      BY <2>3, <3>1 DEF Flagged, Working
    <3>3. dptr[m] # dptr[n]
      BY <2>2, <3>1, <3>2 DEF IInv, LockInv, Pointers, Issued, Working
    <3> QED BY <2>1, <3>1, <3>2, <3>3
  <2>4. ASSUME NEW m \in Nodes, NEW p \in Projects, NEW h \in Nat, <<m, p, h>> \in deleted'
        PROVE  h \in 1 .. gen'[m][p]
    BY <2>1, <2>2, <2>4 DEF Flagged
  <2> QED BY <2>3, <2>4 DEF Flagged
<1>12. ASSUME DeleteUnlock(n) PROVE Flagged'
  BY <1>6, <1>12 DEF DeleteUnlock, Release
<1> QED BY <1>4, <1>5, <1>8, <1>9, <1>10, <1>11, <1>12 DEF DeleteStep

LEMMA CrashKeepsFlags ==
    ASSUME IInv, Flagged, NEW m \in Nodes, Crash(m)
    PROVE  Flagged'
<1>1. /\ gen' = [gen EXCEPT ![m] = [p \in Projects |-> 0]]
      /\ deleted' = {l \in deleted : l[1] # m}
      /\ dpc' = [dpc EXCEPT ![m] = "idle"] /\ dptr' = [dptr EXCEPT ![m] = None]
  BY DEF Crash, Forget
<1>2. \A n \in Nodes, p \in Projects : gen[n][p] \in Nat /\ gen'[n][p] \in Nat /\ (n # m => gen'[n][p] = gen[n][p])
  BY <1>1 DEF IInv, TypeOK, LockerTypeOK
<1>3. \A n \in Nodes, p \in Projects, g \in Nat : <<n, p, g>> \in deleted' => n # m
  BY <1>1
<1>4. \A n \in Nodes : Working(n)' => Working(n) /\ dptr'[n] = dptr[n]
  BY <1>1 DEF Working, IInv, TypeOK, MainTypeOK
<1> QED BY <1>1, <1>2, <1>3, <1>4, FlagsStay

LEMMA FlagsInductive == Spec => []Flagged
<1>1. Init => Flagged
  BY DEF Init, LockerInit, Flagged, Working
<1>2. IInv /\ Flagged /\ [Next]_vars => Flagged'
  <2> SUFFICES ASSUME IInv, Flagged, [Next]_vars PROVE Flagged'
    OBVIOUS
  <2>1. UNCHANGED <<gen, deleted, dpc, dptr>> => Flagged'
    BY DEF Flagged, Working
  <2>2. ASSUME NEW p \in Projects, InsertProject(p) \/ LagEnds(p) PROVE UNCHANGED <<gen, deleted, dpc, dptr>>
    BY <2>2 DEF InsertProject, LagEnds, lockerVars, mainVars
  <2>3. ASSUME NEW n \in Nodes, NEW p \in Projects, ReapLock(n, p) PROVE UNCHANGED <<gen, deleted, dpc, dptr>>
    BY <2>3 DEF ReapLock, Reap, mainVars
  <2>4. CASE UNCHANGED vars
    BY <2>1, <2>4 DEF vars, lockerVars, mainVars
  <2> QED BY <2>1, <2>2, <2>3, <2>4, JobKeepsFlags, MainKeepsFlags, CrashKeepsFlags DEF Next
<1> QED BY <1>1, <1>2, Inductive, PTL DEF Spec

\* If no window between a SELECT and Get is longer than databaseMaxLag, a process
\* never starts on a project whose deletion it has completed: it still has the one
\* lock it made for it, and the lock is flagged.
THEOREM DeletionOnce ==
    ASSUME LagCoversInFlight
    PROVE  Spec => []NoSecondDelete
<1>1. IInv /\ Flagged => NoSecondDelete
  <2> SUFFICES ASSUME IInv, Flagged, NEW n \in Nodes, NEW l \in deleted, l[1] = n, l[2] = dtarget[n],
                      dpc[n] \in {"recent", "save", "drop", "call"}
               PROVE  FALSE
    BY DEF NoSecondDelete
  <2>1. dtarget[n] \in Projects /\ gen[n][dtarget[n]] \in {0, 1}
    BY DEF IInv, LockInv, Pointers, OneLock
  <2>2. l = <<n, dtarget[n], l[3]>> /\ l[3] \in Nat
    BY DEF IInv, TypeOK, LockerTypeOK, Locks
  <2>3. l[3] \in 1 .. gen[n][dtarget[n]]
    BY <2>1, <2>2 DEF Flagged
  <2>4. \E g \in 1 .. gen[n][dtarget[n]] : dptr[n] = <<n, dtarget[n], g>>
    BY DEF IInv, LockInv, Pointers, Issued
  <2>5. dptr[n] = l
    BY <2>1, <2>2, <2>3, <2>4
  <2> QED BY <2>5 DEF Flagged, Working
<1> QED BY <1>1, Inductive, FlagsInductive, PTL
-----------------------------------------------------------------------------
(* The choice for deletion, by any number of processes, from a database without lag *)

NoLag == ~DatabaseLag /\ IsFiniteSet(Projects) /\ IsFiniteSet(Nodes)

\* The projects some process has chosen and not dropped yet.
Chosen(n) == dpc[n] \in {"get", "lock", "check", "recent", "save", "drop"}
Picked(p) == \E n \in Nodes : Chosen(n) /\ dtarget[n] = p

\* The live rows of its matrix that are older, or younger, than project p.
Older(p)   == {q \in Similar(p) : q < p}
Younger(p) == {q \in Similar(p) : q > p}

\* A project in the middle of ProjectsN has so many on either side.
Flanked(p) ==
    /\ Cardinality(Older(p)) >= ProjectsN \div 2
    /\ Cardinality(Younger(p)) >= ProjectsN - 1 - ProjectsN \div 2
Roomy(p) == Cardinality(Nodes) = 1 \/ NoneGone(p) => Cardinality(Similar(p)) > ProjectsN

\* What a choice was based on stays true up to the drop: the place in the middle and,
\* as long as nobody else deletes or has deleted, the count.
Surplus ==
    /\ lagging = {}
    /\ \A p \in Projects : Picked(p) => Flanked(p) /\ Roomy(p)

LEMMA ClassesFinite ==
    ASSUME NoLag, NEW p
    PROVE  /\ \A S \in SUBSET Similar(p) : IsFiniteSet(S) /\ Cardinality(S) \in Nat
           /\ \A S \in SUBSET Similar(p)' : IsFiniteSet(S) /\ Cardinality(S) \in Nat
<1>1. Similar(p) \subseteq Projects /\ Similar(p)' \subseteq Projects
  BY DEF Similar
<1>2. IsFiniteSet(Similar(p)) /\ IsFiniteSet(Similar(p)')
  BY <1>1, FS_Subset DEF NoLag
<1> QED BY <1>2, FS_Subset, FS_CardinalityType

\* A flank that takes in another is at least as long.
LEMMA FlankGrows ==
    ASSUME NoLag, NEW p, NEW S \in SUBSET Similar(p)', NEW T \in SUBSET S, NEW k \in Int,
           Cardinality(T) >= k
    PROVE  Cardinality(S) >= k
<1>1. IsFiniteSet(S) /\ Cardinality(S) \in Nat
  BY ClassesFinite
<1>2. Cardinality(T) <= Cardinality(S) /\ Cardinality(T) \in Nat
  BY <1>1, FS_Subset, FS_CardinalityType
<1> QED BY <1>1, <1>2

LEMMA Halves == ProjectsN \div 2 \in Int /\ ProjectsN - 1 - ProjectsN \div 2 \in Int
BY ArgsAssumption

\* Rows are only added to what is live, and no project is chosen.
LEMMA SurplusStays ==
    ASSUME NoLag, Surplus, lagging' = lagging,
           \A q \in Projects : row[q] # "absent" => row'[q] = row[q],
           \A n \in Nodes : Chosen(n)' => Chosen(n) /\ dtarget'[n] = dtarget[n]
    PROVE  Surplus'
<1> SUFFICES ASSUME NEW p \in Projects, Picked(p)' PROVE Flanked(p)' /\ Roomy(p)'
  BY DEF Surplus
<1>1. Flanked(p) /\ Roomy(p)
  BY DEF Surplus, Picked
<1>2. /\ Older(p) \subseteq Older(p)' /\ Younger(p) \subseteq Younger(p)'
      /\ Similar(p) \subseteq Similar(p)'
  BY DEF Older, Younger, Similar
<1>3. Older(p)' \subseteq Similar(p)' /\ Younger(p)' \subseteq Similar(p)'
  BY DEF Older, Younger
<1>4. Flanked(p)'
  BY <1>1, <1>2, <1>3, FlankGrows, Halves DEF Flanked
<1>5. Cardinality(Similar(p)) > ProjectsN => Cardinality(Similar(p)') > ProjectsN
  <2>1. Cardinality(Similar(p)) \in Nat /\ Cardinality(Similar(p)') \in Nat
    BY ClassesFinite
  <2> QED BY <1>2, <2>1, FlankGrows, ArgsAssumption
<1>6. NoneGone(p)' => NoneGone(p)
  BY DEF NoneGone
<1> QED BY <1>1, <1>4, <1>5, <1>6 DEF Roomy

LEMMA TotalOrder ==
    /\ \A q, r \in Nat : (q = r /\ ~(q < r) /\ ~(q > r)) \/ (q # r /\ q < r /\ ~(q > r)) \/ (q # r /\ q > r /\ ~(q < r))
    /\ \A q, r, s \in Nat : (q < r /\ r < s => q < s) /\ (q > r /\ r > s => q > s)
OBVIOUS

\* The middle of a set has half of it on one side, and the rest on the other.
LEMMA MiddleFlanked ==
    ASSUME NEW S \in SUBSET Nat, IsFiniteSet(S), NEW p, Middle(S, p)
    PROVE  /\ Cardinality({q \in S : q < p}) = Cardinality(S) \div 2
           /\ Cardinality({q \in S : q > p}) = Cardinality(S) - 1 - Cardinality(S) \div 2
<1> DEFINE A == {q \in S : q < p}
           B == {q \in S : q > p}
<1>1. p \in S /\ Cardinality(A) = Cardinality(S) \div 2
  BY DEF Middle
<1>2. B = (S \ A) \ {p} /\ p \in S \ A
  <2>1. \A q \in S : q \in Nat
    OBVIOUS
  <2>2. \A q \in S : q > p <=> ~(q < p) /\ q # p
    BY <1>1, <2>1, TotalOrder
  <2> QED BY <1>1, <2>1, <2>2, TotalOrder
<1>3. IsFiniteSet(A) /\ IsFiniteSet(S \ A) /\ S \cap A = A
  BY FS_Subset
<1>4. Cardinality(S \ A) = Cardinality(S) - Cardinality(A)
  BY <1>3, FS_Difference
<1>5. Cardinality(B) = Cardinality(S \ A) - 1
  BY <1>2, <1>3, FS_RemoveElement
<1>6. Cardinality(S) \in Nat /\ Cardinality(S \ A) \in Nat /\ Cardinality(S) \div 2 \in Int
  BY <1>3, FS_CardinalityType
<1> QED BY <1>1, <1>4, <1>5, <1>6

\* A process that counts finds more than ProjectsN, and takes the middle of some.
LEMMA SelectLeavesSurplus ==
    ASSUME NoLag, IInv, Surplus, NEW n \in Nodes, SelectForDelete(n)
    PROVE  Surplus'
<1> DEFINE taken == IF ProjectsN > 0 THEN ProjectsN ELSE 1
<1>1. PICK p0 \in Projects, p \in Projects, S \in SUBSET Projects :
         /\ Cardinality({q \in Projects : Selectable(q) /\ Matrix[q] = Matrix[p0]}) > ProjectsN
         /\ S \in SUBSET {q \in Projects : Selectable(q) /\ Matrix[q] = Matrix[p0]}
         /\ Cardinality(S) = taken /\ Middle(S, p)
         /\ Selectable(p) /\ Matrix[p] = Matrix[p0] /\ dtarget' = [dtarget EXCEPT ![n] = p]
  BY DEF SelectForDelete, kSubset
<1>2. {q \in Projects : Selectable(q) /\ Matrix[q] = Matrix[p0]} = Similar(p)
  BY <1>1 DEF Selectable, Surplus, Similar
<1>3. /\ row' = row /\ lagging' = lagging /\ ~Chosen(n) /\ dtarget'[n] = p
      /\ \A m \in Nodes : m # n => dpc'[m] = dpc[m] /\ dtarget'[m] = dtarget[m]
  BY <1>1 DEF SelectForDelete, dbVars, Chosen, IInv, TypeOK, MainTypeOK
<1>4. Flanked(p) /\ Roomy(p)
  <2>1. /\ S \in SUBSET Similar(p) /\ S \in SUBSET Nat /\ IsFiniteSet(S)
        /\ Older(p) \in SUBSET Similar(p) /\ Younger(p) \in SUBSET Similar(p)
    BY <1>1, <1>2, ClassesFinite, ProjectsAssumption DEF Older, Younger
  <2>2. /\ {q \in S : q < p} \subseteq Older(p) /\ {q \in S : q > p} \subseteq Younger(p)
    BY <2>1 DEF Older, Younger
  <2>3. /\ Cardinality({q \in S : q < p}) <= Cardinality(Older(p))
        /\ Cardinality({q \in S : q > p}) <= Cardinality(Younger(p))
        /\ {Cardinality(Older(p)), Cardinality(Younger(p))} \subseteq Nat
    BY <2>1, <2>2, ClassesFinite, FS_Subset
  <2>4. /\ Cardinality({q \in S : q < p}) = taken \div 2
        /\ Cardinality({q \in S : q > p}) = taken - 1 - taken \div 2
    BY <1>1, <2>1, MiddleFlanked
  <2>5. taken \div 2 >= ProjectsN \div 2 /\ taken - 1 - taken \div 2 >= ProjectsN - 1 - ProjectsN \div 2
    BY ArgsAssumption
  <2>6. taken \div 2 \in Int /\ taken \in Int
    BY ArgsAssumption
  <2> HIDE DEF taken
  <2>7. Flanked(p)
    BY <2>3, <2>4, <2>5, <2>6, Halves DEF Flanked
  <2> QED BY <1>1, <1>2, <2>7 DEF Roomy
<1>5. ASSUME NEW q \in Projects, Picked(q)' PROVE Flanked(q) /\ Roomy(q)
  BY <1>3, <1>4, <1>5 DEF Picked, Chosen, Surplus
<1>6. \A q : Similar(q)' = Similar(q)
  BY <1>3 DEF Similar
<1> QED BY <1>3, <1>5, <1>6 DEF Surplus, Flanked, Roomy, NoneGone, Older, Younger

\* A row that is dropped on one side of another project had as many behind it.
LEMMA DropLeavesSurplus ==
    ASSUME NoLag, IInv, Surplus, NEW n \in Nodes, SoftDelete(n), NEW s \in {"call", "unlock"}, MainGoto(n, s),
           row' = [row EXCEPT ![dtarget[n]] = "deleted"]
    PROVE  Surplus'
<1>1. /\ Chosen(n) /\ ~Chosen(n)' /\ lagging' = lagging /\ dtarget' = dtarget
      /\ \A m \in Nodes : m # n => dpc'[m] = dpc[m]
  BY DEF SoftDelete, MainGoto, NoLag, Chosen, IInv, TypeOK, MainTypeOK
<1>2. PICK d \in Projects : d = dtarget[n]
  BY <1>1 DEF Chosen, IInv, LockInv, Pointers
<1>3. \A q \in Projects : q # d => row'[q] = row[q]
  BY <1>2 DEF IInv, TypeOK, DbTypeOK
<1>4. Flanked(d) /\ d \in Nat
  BY <1>1, <1>2, ProjectsAssumption DEF Surplus, Picked
<1>5. ASSUME NEW p \in Projects, Picked(p)' PROVE Flanked(p)' /\ Roomy(p)'
  <2>1. PICK m \in Nodes : m # n /\ Chosen(m) /\ dtarget[m] = p
    BY <1>1, <1>5 DEF Picked, Chosen
  <2>2. Cardinality(Nodes) # 1
    BY <2>1, FS_Singleton DEF NoLag
  <2>3. Flanked(p) /\ p \in Nat
    BY <2>1, ProjectsAssumption DEF Surplus, Picked
  <2>4. /\ Older(p)' \subseteq Similar(p)' /\ Younger(p)' \subseteq Similar(p)'
        /\ \A q \in Projects : q \in Nat
    BY ProjectsAssumption DEF Older, Younger
  <2>5. Older(p) \subseteq Older(p)' \/ Older(d) \subseteq Older(p)'
    <3>1. CASE d \in Older(p)
      <4>1. d < p /\ Matrix[d] = Matrix[p]
        BY <3>1 DEF Older, Similar
      <4>2. ASSUME NEW q \in Older(d) PROVE q \in Older(p)'
        <5>1. q \in Projects /\ row[q] = "live" /\ Matrix[q] = Matrix[d] /\ q < d
          BY DEF Older, Similar
        <5>2. q < p /\ q # d
          BY <1>4, <2>3, <2>4, <4>1, <5>1, TotalOrder
        <5> QED BY <1>3, <4>1, <5>1, <5>2 DEF Older, Similar
      <4> QED BY <4>2
    <3>2. CASE d \notin Older(p)
      BY <1>3, <3>2 DEF Older, Similar
    <3> QED BY <3>1, <3>2
  <2>6. Younger(p) \subseteq Younger(p)' \/ Younger(d) \subseteq Younger(p)'
    <3>1. CASE d \in Younger(p)
      <4>1. d > p /\ Matrix[d] = Matrix[p]
        BY <3>1 DEF Younger, Similar
      <4>2. ASSUME NEW q \in Younger(d) PROVE q \in Younger(p)'
        <5>1. q \in Projects /\ row[q] = "live" /\ Matrix[q] = Matrix[d] /\ q > d
          BY DEF Younger, Similar
        <5>2. q > p /\ q # d
          BY <1>4, <2>3, <2>4, <4>1, <5>1, TotalOrder
        <5> QED BY <1>3, <4>1, <5>1, <5>2 DEF Younger, Similar
      <4> QED BY <4>2
    <3>2. CASE d \notin Younger(p)
      BY <1>3, <3>2 DEF Younger, Similar
    <3> QED BY <3>1, <3>2
  <2>7. Cardinality(Older(p)') >= ProjectsN \div 2
    BY <1>4, <2>3, <2>4, <2>5, FlankGrows, Halves DEF Flanked
  <2>8. Cardinality(Younger(p)') >= ProjectsN - 1 - ProjectsN \div 2
    BY <1>4, <2>3, <2>4, <2>6, FlankGrows, Halves DEF Flanked
  <2>9. NoneGone(p)' => Cardinality(Similar(p)') > ProjectsN
    <3> SUFFICES ASSUME NoneGone(p)' PROVE Cardinality(Similar(p)') > ProjectsN
      OBVIOUS
    <3>1. Matrix[d] # Matrix[p]
      BY <1>2 DEF NoneGone, IInv, TypeOK, DbTypeOK
    <3>2. Similar(p)' = Similar(p)
      BY <1>3, <3>1 DEF Similar
    <3>3. NoneGone(p)
      BY <1>3, <3>1 DEF NoneGone
    <3>4. Roomy(p)
      BY <2>1 DEF Surplus, Picked
    <3> QED BY <3>2, <3>3, <3>4 DEF Roomy
  <2> QED BY <2>2, <2>7, <2>8, <2>9 DEF Flanked, Roomy
<1> QED BY <1>1, <1>5 DEF Surplus

\* What the steps of threads do to the table of projects.
LEMMA JobKeepsRows ==
    ASSUME NEW j \in Jobs, QueryStep(j) \/ ChangeStep(j)
    PROVE  UNCHANGED <<row, lagging, mainVars>>
BY DEF QueryStep, ChangeStep, StartJob, GetLock, TryLock, Count, Connect, Query, EndScenario,
   Uncount, Unlock, GetOuter, SwapLock, UpdateMode, EndChange, dbVars, mainVars

LEMMA DeleteKeepsSurplus ==
    ASSUME NoLag, IInv, Surplus, NEW n \in Nodes, DeleteStep(n)
    PROVE  Surplus'
<1>1. CASE \E s : MainGoto(n, s) /\ (Chosen(n) \/ s \notin {"get", "lock", "check", "recent", "save", "drop"})
                  /\ row' = row /\ lagging' = lagging
  BY <1>1, SurplusStays DEF MainGoto, Chosen, IInv, TypeOK, MainTypeOK
<1>2. CASE MainReturn(n) /\ row' = row /\ lagging' = lagging
  BY <1>2, SurplusStays DEF MainReturn, Chosen, IInv, TypeOK, MainTypeOK
<1>3. CASE DeleteGetLock(n)
  BY <1>3, SurplusStays DEF DeleteGetLock, dbVars, Chosen, IInv, TypeOK, MainTypeOK
<1>4. ASSUME DeleteTryLock(n) \/ DeleteUnlock(n) PROVE Surplus'
  BY <1>1, <1>2, <1>4 DEF DeleteTryLock, DeleteUnlock, dbVars, Chosen
<1>5. ASSUME DeleteCheckFlag(n) \/ DeleteCheckRecent(n) \/ SaveDeleteQuery(n) PROVE Surplus'
  BY <1>1, <1>5 DEF DeleteCheckFlag, DeleteCheckRecent, SaveDeleteQuery, dbVars, Chosen
<1>6. ASSUME SoftDelete(n) PROVE Surplus'
  <2>1. PICK s \in {"call", "unlock"} :
           /\ MainGoto(n, s)
           /\ row' = [row EXCEPT ![dtarget[n]] = "deleted"] \/ UNCHANGED <<row, lagging>>
    BY <1>6 DEF SoftDelete
  <2> QED BY <1>1, <1>6, <2>1, DropLeavesSurplus
<1>7. ASSUME CallDelete(n) \/ RetireLock(n) PROVE Surplus'
  BY <1>1, <1>7 DEF CallDelete, RetireLock, dbVars
<1> QED BY <1>3, <1>4, <1>5, <1>6, <1>7, SelectLeavesSurplus DEF DeleteStep

LEMMA SurplusInductive == ASSUME NoLag PROVE Spec => []Surplus
<1>1. Init => Surplus
  BY DEF Init, Surplus, Picked, Chosen
<1>2. IInv /\ Surplus /\ [Next]_vars => Surplus'
  <2> SUFFICES ASSUME IInv, Surplus, [Next]_vars PROVE Surplus'
    OBVIOUS
  <2>1. UNCHANGED <<row, lagging, mainVars>> => Surplus'
    BY SurplusStays DEF Chosen, mainVars
  <2>2. ASSUME NEW n \in Nodes, Crash(n) PROVE Surplus'
    BY <2>2, SurplusStays DEF Crash, Chosen, IInv, TypeOK, MainTypeOK
  <2>3. ASSUME NEW p \in Projects, InsertProject(p) PROVE Surplus'
    BY <2>3, SurplusStays DEF InsertProject, mainVars, Chosen, IInv, TypeOK, DbTypeOK
  <2>4. ASSUME NEW p \in Projects, LagEnds(p) PROVE Surplus'
    BY <2>4 DEF LagEnds, Surplus
  <2>5. ASSUME NEW n \in Nodes, NEW p \in Projects, ReapLock(n, p) PROVE Surplus'
    BY <2>1, <2>5 DEF ReapLock, dbVars
  <2>6. CASE UNCHANGED vars
    BY <2>1, <2>6 DEF vars, dbVars
  <2> QED BY <2>1, <2>2, <2>3, <2>4, <2>5, <2>6, JobKeepsRows, DeleteKeepsSurplus DEF Next
<1> QED BY <1>1, <1>2, Inductive, PTL DEF Spec

\* Only SoftDelete takes a row out of the table.
LEMMA DropIsSoftDelete ==
    ASSUME IInv, [Next]_vars, NEW p \in Projects, row[p] = "live", row'[p] = "deleted"
    PROVE  \E n \in Nodes : SoftDelete(n) /\ p = dtarget[n]
<1>1. row' # row /\ Next
  BY DEF vars, dbVars
<1>2. ASSUME NEW n \in Nodes, DeleteStep(n) PROVE SoftDelete(n) /\ p = dtarget[n]
  <2>1. SoftDelete(n)
    BY <1>1, <1>2 DEF DeleteStep, SelectForDelete, DeleteGetLock, DeleteTryLock, DeleteCheckFlag,
       DeleteCheckRecent, SaveDeleteQuery, CallDelete, RetireLock, DeleteUnlock, dbVars
  <2> QED BY <2>1 DEF SoftDelete, IInv, TypeOK, DbTypeOK
<1>3. ASSUME NEW q \in Projects, InsertProject(q) PROVE FALSE
  BY <1>3 DEF InsertProject, IInv, TypeOK, DbTypeOK
<1>4. ASSUME NEW n \in Nodes, Crash(n) PROVE row' = row
  BY <1>4 DEF Crash
<1>5. ASSUME NEW q \in Projects, LagEnds(q) PROVE row' = row
  BY <1>5 DEF LagEnds
<1>6. ASSUME NEW n \in Nodes, NEW q \in Projects, ReapLock(n, q) PROVE row' = row
  BY <1>6 DEF ReapLock, dbVars
<1> QED BY <1>1, <1>2, <1>3, <1>4, <1>5, <1>6, JobKeepsRows DEF Next

\* A project that is dropped still has its neighbours, and is one of a count.
LEMMA DropFindsSurplus ==
    ASSUME NoLag, IInv, Surplus, [Next]_vars, NEW p \in Projects, row[p] = "live", row'[p] = "deleted"
    PROVE  Cardinality(Similar(p)) >= ProjectsN /\ Roomy(p)
<1>1. PICK n \in Nodes : SoftDelete(n) /\ p = dtarget[n]
  BY DropIsSoftDelete
<1>2. Flanked(p) /\ Roomy(p)
  BY <1>1 DEF SoftDelete, Surplus, Picked, Chosen
<1>3. /\ Older(p) \in SUBSET Similar(p) /\ Younger(p) \in SUBSET Similar(p)
      /\ p \in Similar(p) /\ p \in Nat
  BY ProjectsAssumption DEF Older, Younger, Similar
<1>4. /\ IsFiniteSet(Older(p)) /\ IsFiniteSet(Younger(p)) /\ IsFiniteSet(Similar(p))
      /\ {Cardinality(Older(p)), Cardinality(Younger(p)), Cardinality(Similar(p))} \subseteq Nat
  BY <1>3, ClassesFinite
<1>5. Older(p) \cap Younger(p) = {} /\ p \notin Older(p) \cup Younger(p)
  <2>1. \A q \in Similar(p) : ~(q < p /\ q > p) /\ ~(p < p) /\ ~(p > p)
    BY <1>3, ProjectsAssumption, TotalOrder DEF Similar
  <2> QED BY <2>1 DEF Older, Younger
<1>6. /\ IsFiniteSet(Older(p) \cup Younger(p))
      /\ Cardinality(Older(p) \cup Younger(p)) = Cardinality(Older(p)) + Cardinality(Younger(p))
  <2>1. /\ IsFiniteSet(Older(p) \cup Younger(p))
        /\ Cardinality(Older(p) \cup Younger(p))
             = Cardinality(Older(p)) + Cardinality(Younger(p)) - Cardinality(Older(p) \cap Younger(p))
    BY <1>4, FS_Union
  <2>2. Cardinality(Older(p) \cap Younger(p)) = 0
    BY <1>5, FS_EmptySet
  <2> QED BY <1>4, <2>1, <2>2
<1>7. Cardinality(Older(p) \cup Younger(p) \cup {p}) = Cardinality(Older(p)) + Cardinality(Younger(p)) + 1
  BY <1>5, <1>6, FS_AddElement
<1>8. Cardinality(Older(p) \cup Younger(p) \cup {p}) <= Cardinality(Similar(p))
  BY <1>3, <1>4, FS_Subset
<1> QED BY <1>2, <1>4, <1>7, <1>8, Halves, ArgsAssumption DEF Flanked

\* However many processes count and delete at the same time, and whatever jobs and
\* creations do in between, the first drop of a matrix leaves ProjectsN projects of
\* it, and every later one at most one less.
THEOREM DeletionChoosesSurplus ==
    ASSUME NoLag
    PROVE  Spec => DeletionKeepsTarget
<1>1. IInv /\ Surplus /\ [Next]_vars =>
        [\A p \in Projects : row[p] = "live" /\ row'[p] = "deleted" =>
            /\ Cardinality(Similar(p)) >= ProjectsN
            /\ NoneGone(p) => Cardinality(Similar(p)) > ProjectsN]_vars
  BY DropFindsSurplus DEF Roomy
<1> QED BY <1>1, Inductive, SurplusInductive, PTL DEF Spec, DeletionKeepsTarget

\* A lone process leaves ProjectsN.
THEOREM LoneDeletionExact ==
    ASSUME NoLag, Cardinality(Nodes) = 1
    PROVE  Spec => DeletionExact
<1>1. IInv /\ Surplus /\ [Next]_vars =>
        [\A p \in Projects : row[p] = "live" /\ row'[p] = "deleted" =>
            Cardinality(Similar(p)) > ProjectsN]_vars
  BY DropFindsSurplus DEF Roomy
<1> QED BY <1>1, Inductive, SurplusInductive, PTL DEF Spec, DeletionExact
-----------------------------------------------------------------------------
(* The check of the last queries, by any number of processes *)

\* No other process queries the project, or deletes it too, between the check and
\* the drop: the locks of this process do not reach it.
Undisturbed ==
    \A n \in Nodes : dpc[n] \in {"save", "drop"} =>
        /\ \A j \in Jobs : Home[j] # n /\ target[j] = dtarget[n] => ~Querying(j)
        /\ \A m \in Nodes \ {n} : dtarget[m] = dtarget[n] => dpc[m] \notin {"save", "drop", "call"}

\* From the check of the last records to the drop they stay as they were, behind
\* the record of the deletion, if the row is still there.
Spares(n) ==
    /\ Chosen(n) => row[dtarget[n]] # "absent"
    /\ SkipFailed /\ row[dtarget[n]] = "live" =>
          /\ dpc[n] = "save" => Clean(dtarget[n])
          /\ dpc[n] = "drop" => \A i \in Window \ {1} : recent[dtarget[n]][i].st = "ok"
Sparing == \A n \in Nodes : Spares(n)

\* The last records of p are as good or bad as before.
Untouched(p) == \A i \in Window : recent'[p][i].st = recent[p][i].st

\* A step that neither checks nor records anything for n.
LEMMA SparesStays ==
    ASSUME IInv, Sparing, NEW n \in Nodes, dtarget'[n] = dtarget[n], Chosen(n)' => Chosen(n),
           \A q \in Projects : row[q] # "absent" => row'[q] # "absent" /\ (row'[q] = "live" => row[q] = "live"),
           dpc'[n] \in {"save", "drop"} => dpc'[n] = dpc[n] /\ (row[dtarget[n]] = "live" => Untouched(dtarget[n]))
    PROVE  Spares(n)'
<1>1. Chosen(n) => dtarget[n] \in Projects
  BY DEF Chosen, IInv, LockInv, Pointers
<1>2. Chosen(n)' => row'[dtarget'[n]] # "absent"
  BY <1>1 DEF Sparing, Spares
<1>3. ASSUME row'[dtarget'[n]] = "live", dpc'[n] \in {"save", "drop"}
      PROVE  Untouched(dtarget[n]) /\ row[dtarget[n]] = "live" /\ dpc'[n] = dpc[n]
  BY <1>1, <1>3 DEF Sparing, Spares, Chosen
<1> QED BY <1>2, <1>3 DEF Sparing, Spares, Clean, Untouched

\* The jobs of process n are off the project (NoDeleteWhileQueried), and those of
\* the others by assumption.
LEMMA JobSpares ==
    ASSUME IInv, Sparing, Undisturbed, NEW j \in Jobs, QueryStep(j) \/ ChangeStep(j), NEW n \in Nodes
    PROVE  Spares(n)'
<1>1. UNCHANGED <<row, dpc, dtarget>>
  BY JobKeepsRows DEF mainVars
<1>2. ASSUME dpc[n] \in {"save", "drop"}, row[dtarget[n]] = "live"
      PROVE  Untouched(dtarget[n])
  <2>1. CASE Connect(j) \/ Query(j)
    <3>1. Querying(j) /\ (recent' = recent \/ \E s : recent' = Push(target[j], None, s))
      BY <2>1 DEF Connect, Query, Querying, Recorded, Unrecorded
    <3>2. target[j] # dtarget[n]
      <4>1. Home[j] = n => target[j] # dtarget[n]
        BY <1>2, <3>1, QueriesExcluded DEF NoDeleteWhileQueried, Deleting, Protected
      <4>2. Home[j] # n => target[j] # dtarget[n]
        BY <1>2, <3>1 DEF Undisturbed
      <4> QED BY <4>1, <4>2
    <3>3. recent'[dtarget[n]] = recent[dtarget[n]]
      BY <1>2, <3>1, <3>2 DEF Push, IInv, TypeOK, DbTypeOK, LockInv, Pointers
    <3> QED BY <3>3 DEF Untouched
  <2>2. CASE ~(Connect(j) \/ Query(j))
    <3>1. recent' = recent
      BY <2>2 DEF QueryStep, ChangeStep, StartJob, GetLock, TryLock, Count, EndScenario,
         Uncount, Unlock, GetOuter, SwapLock, UpdateMode, EndChange, dbVars
    <3> QED BY <3>1 DEF Untouched
  <2> QED BY <2>1, <2>2
<1>3. dpc'[n] = dpc[n] /\ dtarget'[n] = dtarget[n] /\ row' = row
  BY <1>1
<1> QED BY <1>2, <1>3, SparesStays DEF Chosen

\* Another process works on another project, or is not at the records.
LEMMA OthersSpare ==
    ASSUME IInv, Sparing, Undisturbed, NEW m \in Nodes, DeleteStep(m), NEW n \in Nodes, n # m
    PROVE  Spares(n)'
<1>1. dpc'[n] = dpc[n] /\ dtarget'[n] = dtarget[n]
  BY DEF DeleteStep, SelectForDelete, DeleteGetLock, DeleteTryLock, DeleteCheckFlag, DeleteCheckRecent,
     SaveDeleteQuery, SoftDelete, CallDelete, RetireLock, DeleteUnlock, MainGoto, MainReturn,
     IInv, TypeOK, MainTypeOK
<1>2. \A q \in Projects : row'[q] = row[q] \/ row'[q] = "deleted"
  BY DEF DeleteStep, SelectForDelete, DeleteGetLock, DeleteTryLock, DeleteCheckFlag, DeleteCheckRecent,
     SaveDeleteQuery, SoftDelete, CallDelete, RetireLock, DeleteUnlock, dbVars, IInv, TypeOK, DbTypeOK
<1>3. ASSUME dpc[n] \in {"save", "drop"} PROVE Untouched(dtarget[n])
  <2>1. CASE SaveDeleteQuery(m) \/ SoftDelete(m) \/ CallDelete(m)
    <3>1. /\ dpc[m] \in {"save", "drop", "call"}
          /\ recent' = recent \/ \E t, s : recent' = Push(dtarget[m], t, s) \/ recent' = Finish(dtarget[m], t, s)
      BY <2>1 DEF SaveDeleteQuery, SoftDelete, CallDelete
    <3>2. dtarget[m] # dtarget[n]
      BY <1>3, <3>1 DEF Undisturbed
    <3>3. recent'[dtarget[n]] = recent[dtarget[n]]
      BY <1>3, <3>1, <3>2 DEF Push, Finish, IInv, TypeOK, DbTypeOK, LockInv, Pointers
    <3> QED BY <3>3 DEF Untouched
  <2>2. CASE ~(SaveDeleteQuery(m) \/ SoftDelete(m) \/ CallDelete(m))
    <3>1. recent' = recent
      BY <2>2 DEF DeleteStep, SelectForDelete, DeleteGetLock, DeleteTryLock, DeleteCheckFlag,
         DeleteCheckRecent, RetireLock, DeleteUnlock, dbVars
    <3> QED BY <3>1 DEF Untouched
  <2> QED BY <2>1, <2>2
<1> QED BY <1>1, <1>2, <1>3, SparesStays DEF Chosen

\* Its own process checks the records, then puts its own in front of them.
LEMMA OwnSpares ==
    ASSUME IInv, Sparing, NEW n \in Nodes, DeleteStep(n)
    PROVE  Spares(n)'
<1>1. CASE SelectForDelete(n)
  <2>1. PICK p \in Projects : Selectable(p) /\ dtarget' = [dtarget EXCEPT ![n] = p]
    BY <1>1 DEF SelectForDelete, Selectable
  <2>2. dtarget'[n] = p /\ dpc'[n] = "get" /\ row' = row
    BY <1>1, <2>1 DEF SelectForDelete, dbVars, IInv, TypeOK, MainTypeOK
  <2>3. row[p] # "absent"
    BY <2>1 DEF Selectable, IInv, LockInv, Doomed
  <2> QED BY <2>2, <2>3 DEF Spares
<1>2. CASE DeleteCheckRecent(n)
  <2>1. /\ dpc[n] = "recent" /\ dtarget'[n] = dtarget[n] /\ row' = row /\ recent' = recent
        /\ dpc'[n] = "unlock" \/ (Clean(dtarget[n]) /\ dpc'[n] = "save")
    BY <1>2 DEF DeleteCheckRecent, MainGoto, dbVars, IInv, TypeOK, MainTypeOK
  <2> QED BY <2>1 DEF Sparing, Spares, Chosen, Clean
<1>3. CASE SaveDeleteQuery(n) /\ MainGoto(n, "drop")
  <2>1. /\ dpc[n] = "save" /\ dpc'[n] = "drop" /\ dtarget'[n] = dtarget[n] /\ row' = row
        /\ dtarget[n] \in Projects /\ recent' = Push(dtarget[n], n, "unfinished")
    BY <1>3 DEF SaveDeleteQuery, MainGoto, IInv, TypeOK, MainTypeOK, LockInv, Pointers
  <2>2. \A i \in Window \ {1} : i - 1 \in Window /\ recent'[dtarget[n]][i] = recent[dtarget[n]][i - 1]
    BY <2>1, ArgsAssumption DEF Push, Window, IInv, TypeOK, DbTypeOK
  <2> QED BY <2>1, <2>2 DEF Sparing, Spares, Chosen, Clean
<1>4. CASE DeleteCheckFlag(n)
  <2>1. /\ dpc[n] = "check" /\ dtarget'[n] = dtarget[n] /\ row' = row
        /\ SkipFailed => dpc'[n] \notin {"save", "drop"}
    BY <1>4 DEF DeleteCheckFlag, MainGoto, dbVars, IInv, TypeOK, MainTypeOK
  <2> QED BY <2>1 DEF Sparing, Spares, Chosen
<1>5. CASE DeleteGetLock(n) \/ (DeleteTryLock(n) /\ MainGoto(n, "check"))
  <2>1. /\ Chosen(n) /\ dtarget'[n] = dtarget[n] /\ row' = row /\ dpc'[n] \in {"lock", "check"}
    BY <1>5 DEF DeleteGetLock, DeleteTryLock, MainGoto, dbVars, Chosen, IInv, TypeOK, MainTypeOK
  <2> QED BY <2>1 DEF Sparing, Spares
<1>6. CASE dpc'[n] \notin {"get", "lock", "check", "recent", "save", "drop"}
  BY <1>6 DEF Spares, Chosen
<1>7. ASSUME DeleteTryLock(n) \/ SaveDeleteQuery(n) PROVE Spares(n)'
  BY <1>3, <1>5, <1>6, <1>7 DEF DeleteTryLock, SaveDeleteQuery, MainGoto, MainReturn, IInv, TypeOK, MainTypeOK
<1>8. ASSUME SoftDelete(n) \/ CallDelete(n) \/ RetireLock(n) \/ DeleteUnlock(n) PROVE Spares(n)'
  BY <1>6, <1>8 DEF SoftDelete, CallDelete, RetireLock, DeleteUnlock, MainGoto, MainReturn,
     IInv, TypeOK, MainTypeOK
<1> QED BY <1>1, <1>2, <1>4, <1>5, <1>7, <1>8 DEF DeleteStep

LEMMA NextSparing == IInv /\ Sparing /\ Undisturbed /\ [Next]_vars => Sparing'
<1> SUFFICES ASSUME IInv, Sparing, Undisturbed, [Next]_vars, NEW n \in Nodes
             PROVE  Spares(n)'
  BY DEF Sparing
<1>1. UNCHANGED <<row, recent, dpc, dtarget>> => Spares(n)'
  BY DEF Sparing, Spares, Chosen, Clean
<1>2. ASSUME NEW m \in Nodes, Crash(m) PROVE Spares(n)'
  <2>1. CASE m = n
    BY <1>2, <2>1 DEF Crash, Spares, Chosen, IInv, TypeOK, MainTypeOK
  <2>2. CASE m # n
    <3>1. dpc'[n] = dpc[n] /\ dtarget'[n] = dtarget[n] /\ row' = row
      BY <1>2, <2>2 DEF Crash, IInv, TypeOK, MainTypeOK
    <3>2. \A p \in Projects : Untouched(p)
      BY <1>2 DEF Crash, Untouched
    <3>3. Chosen(n) => dtarget[n] \in Projects
      BY DEF Chosen, IInv, LockInv, Pointers
    <3> QED BY <3>1, <3>2, <3>3, SparesStays DEF Chosen
  <2> QED BY <2>1, <2>2
<1>3. ASSUME NEW p \in Projects, InsertProject(p) PROVE Spares(n)'
  <2>1. /\ dpc' = dpc /\ dtarget' = dtarget /\ recent' = recent
        /\ \A q \in Projects : row[q] # "absent" => row'[q] = row[q]
    BY <1>3 DEF InsertProject, mainVars, IInv, TypeOK, DbTypeOK
  <2> QED BY <2>1, SparesStays DEF Chosen, Untouched
<1>4. ASSUME NEW p \in Projects, LagEnds(p) PROVE Spares(n)'
  BY <1>1, <1>4 DEF LagEnds, mainVars
<1>5. ASSUME NEW m \in Nodes, NEW p \in Projects, ReapLock(m, p) PROVE Spares(n)'
  BY <1>1, <1>5 DEF ReapLock, dbVars, mainVars
<1>6. CASE UNCHANGED vars
  BY <1>1, <1>6 DEF vars, dbVars, mainVars
<1> QED BY <1>2, <1>3, <1>4, <1>5, <1>6, JobSpares, OthersSpare, OwnSpares DEF Next

\* With SkipFailedQueries, a live row is dropped only while the last records of the
\* project, behind that of the deletion, are all fine: as long as no other process
\* works on the project between the check and the drop, whatever else it does.
THEOREM DeletionSpares == Spec /\ []Undisturbed => DeletionSparesFailing
<1>1. Init => Sparing
  BY DEF Init, Sparing, Spares, Chosen
<1>2. IInv /\ Sparing /\ Undisturbed /\ [Next]_vars => Sparing'
  BY NextSparing
<1>3. Sparing /\ [Next]_vars =>
        [\A n \in Nodes :
            /\ dpc[n] = "drop" /\ dpc'[n] # "drop" /\ SkipFailed
            /\ row[dtarget[n]] = "live" /\ row'[dtarget[n]] = "deleted"
            => \A i \in Window \ {1} : recent[dtarget[n]][i].st = "ok"]_vars
  BY DEF Sparing, Spares
<1> QED BY <1>1, <1>2, <1>3, Inductive, PTL DEF Spec, DeletionSparesFailing

\* In particular, a process that is alone on its database spares them.
COROLLARY LoneDeletionSpares ==
    ASSUME \A m, n \in Nodes : m = n
    PROVE  Spec => DeletionSparesFailing
<1>1. Undisturbed
  BY HomeAssumption DEF Undisturbed
<1> QED BY <1>1, DeletionSpares, PTL
=============================================================================
