--------------------------- MODULE ProjectAccessProof ---------------------------
(***************************************************************************)
(* ProjectRules implements ProjectAccess, for any number of processes,     *)
(* jobs, rules and projects, if no reader of a row is slower than          *)
(* databaseMaxLag.  A thread that does something with a project holds the  *)
(* one lock its process has made for the project, so the lock alone        *)
(* decides who may begin; every other step is a stutter of ProjectAccess.  *)
(***************************************************************************)
EXTENDS ProjectCountersProof

Seen == <<doing, at, done>>

\* The functions of the mapping, thread by thread.
LEMMA Mapped ==
    /\ doing = [t \in Threads |-> doing[t]] /\ at = [t \in Threads |-> at[t]]
    /\ \A t \in Threads : doing[t] = WorkOf(t) /\ at[t] = PlaceOf(t)
    /\ doing' = [t \in Threads |-> doing'[t]] /\ at' = [t \in Threads |-> at'[t]]
    /\ \A t \in Threads : doing'[t] = WorkOf(t)' /\ at'[t] = PlaceOf(t)'
BY DEF doing, at

\* A step that changes what no thread does is a stutter ...
LEMMA Unseen ==
    ASSUME \A t \in Threads : WorkOf(t)' = WorkOf(t) /\ PlaceOf(t)' = PlaceOf(t),
           deleted' = deleted
    PROVE  UNCHANGED Seen
<1>1. doing' = doing /\ at' = at
  BY Mapped
<1>2. done' = done
  BY DEF done
<1> QED BY <1>1, <1>2 DEF Seen

\* ... and one that changes what one thread does is told by that thread.
LEMMA OneSeen ==
    ASSUME NEW t \in Threads,
           \A u \in Threads : u # t => WorkOf(u)' = WorkOf(u) /\ PlaceOf(u)' = PlaceOf(u)
    PROVE  /\ doing' = [doing EXCEPT ![t] = WorkOf(t)']
           /\ at' = [at EXCEPT ![t] = PlaceOf(t)']
BY Mapped

\* A thread at work holds a lock of its process for the project it works with.
LEMMA AtWork ==
    ASSUME IInv, NEW t \in Threads, WorkOf(t) # "nothing"
    PROVE  /\ NodeOf(t) \in Nodes
           /\ \E p \in Projects : PlaceOf(t) = <<NodeOf(t), p>> /\ Issued(held[t], NodeOf(t), p)
           /\ kind[t] = IF WorkOf(t) = "query" THEN "shared" ELSE "exclusive"
<1>1. CASE t \in Nodes
  BY <1>1 DEF WorkOf, PlaceOf, NodeOf, Deleting, MainInside, IInv, LockInv, Grip, Pointers
<1>2. CASE t \notin Nodes
  <2>1. t \in Jobs /\ Home[t] \in Nodes /\ NodeOf(t) = Home[t]
    BY <1>2, HomeAssumption DEF Threads, NodeOf
  <2>2. CASE Inside(t)
    BY <1>2, <2>1, <2>2 DEF WorkOf, PlaceOf, Inside, LockKind, IInv, LockInv, Grip, Pointers
  <2>3. CASE ~Inside(t)
    BY <1>2, <2>1, <2>3 DEF WorkOf, PlaceOf, Changing, IInv, LockInv, Grip, Pointers
  <2> QED BY <2>2, <2>3
<1> QED BY <1>1, <1>2

LEMMA NoWorkIsNowhere == \A t : WorkOf(t) = "nothing" => PlaceOf(t) = None
BY DEF PlaceOf

\* Who may take a lock of project p may begin work there.
LEMMA FreeToBegin ==
    ASSUME LagCoversInFlight, IInv, NEW t \in Threads, NEW p \in Projects, NEW l,
           Issued(l, NodeOf(t), p), NodeOf(t) \in Nodes,
           NEW w \in Access!Work, Free(l, IF w = "query" THEN "shared" ELSE "exclusive")
    PROVE  \A u \in Threads : doing[u] # "nothing" /\ at[u] = <<NodeOf(t), p>>
               => Access!Together(w, doing[u])
<1> SUFFICES ASSUME NEW u \in Threads, WorkOf(u) # "nothing", PlaceOf(u) = <<NodeOf(t), p>>
             PROVE  Access!Together(w, WorkOf(u))
  BY Mapped
<1>1. NodeOf(u) = NodeOf(t) /\ Issued(held[u], NodeOf(t), p)
  BY AtWork
<1>2. kind[u] = IF WorkOf(u) = "query" THEN "shared" ELSE "exclusive"
  BY AtWork
<1>3. gen[NodeOf(t)][p] \in {0, 1}
  BY DEF IInv, LockInv, OneLock
<1>4. held[u] = l
  BY <1>1, <1>3 DEF Issued
<1>5. w = "query" /\ kind[u] = "shared"
  BY <1>2, <1>4 DEF Free, Holds
<1> QED BY <1>2, <1>5 DEF Access!Together

-----------------------------------------------------------------------------
(* Jobs *)

\* What is seen of a job depends on its program counter, rule and target alone.
LEMMA OthersUnseen ==
    ASSUME TypeOK, NEW j \in Jobs, UNCHANGED mainVars,
           \A i \in Jobs : i # j => pc'[i] = pc[i] /\ rule'[i] = rule[i] /\ target'[i] = target[i]
    PROVE  /\ j \in Threads
           /\ \A u \in Threads : u # j => WorkOf(u)' = WorkOf(u) /\ PlaceOf(u)' = PlaceOf(u)
<1>1. ASSUME NEW u \in Threads, u # j
      PROVE  WorkOf(u)' = WorkOf(u) /\ PlaceOf(u)' = PlaceOf(u)
  <2>1. CASE u \in Nodes
    BY <2>1 DEF WorkOf, PlaceOf, Deleting, mainVars, NodeOf
  <2>2. CASE u \notin Nodes
    <3>1. u \in Jobs
      BY <2>2 DEF Threads
    <3> QED BY <1>1, <2>2, <3>1 DEF WorkOf, PlaceOf, Inside, Changing, NodeOf
  <2> QED BY <2>1, <2>2
<1> QED BY <1>1 DEF Threads

\* A job that stays where it is, at work or not.
LEMMA JobUnseen ==
    ASSUME TypeOK, NEW j \in Jobs, UNCHANGED mainVars, deleted' = deleted,
           \A i \in Jobs : i # j => pc'[i] = pc[i] /\ rule'[i] = rule[i] /\ target'[i] = target[i],
           \/ /\ pc[j] \in {"idle", "outer", "get", "lock", "swap"}
              /\ pc'[j] \in {"idle", "outer", "get", "lock", "swap"}
           \/ /\ rule'[j] = rule[j] /\ target'[j] = target[j]
              /\ \/ Inside(j) /\ Inside(j)'
                 \/ Changing(j) /\ Changing(j)'
    PROVE  UNCHANGED Seen
<1>1. j \notin Nodes
  BY ThreadsAssumption
<1>2. WorkOf(j)' = WorkOf(j) /\ PlaceOf(j)' = PlaceOf(j)
  BY <1>1 DEF WorkOf, PlaceOf, Inside, Changing, NodeOf
<1> QED BY <1>2, OthersUnseen, Unseen

\* A job that lets its lock go.
LEMMA JobEnds ==
    ASSUME TypeOK, NEW j \in Jobs, UNCHANGED mainVars, deleted' = deleted,
           \A i \in Jobs : i # j => pc'[i] = pc[i] /\ rule'[i] = rule[i] /\ target'[i] = target[i],
           Inside(j) \/ Changing(j), pc'[j] \in {"idle", "swap"}
    PROVE  Access!End(j)
<1>1. j \notin Nodes
  BY ThreadsAssumption
<1>2. WorkOf(j) # "nothing" /\ WorkOf(j)' = "nothing" /\ PlaceOf(j)' = None
  BY <1>1 DEF WorkOf, PlaceOf, Inside, Changing
<1>3. doing' = [doing EXCEPT ![j] = "nothing"] /\ at' = [at EXCEPT ![j] = None]
  BY <1>2, OthersUnseen, OneSeen
<1> QED BY <1>2, <1>3, OthersUnseen, Mapped DEF Access!End, Access!Stop, done

\* A job that takes a lock.
LEMMA JobBegins ==
    ASSUME LagCoversInFlight, IInv, NEW j \in Jobs, UNCHANGED mainVars, deleted' = deleted,
           UNCHANGED <<rule, target>>,
           \A i \in Jobs : i # j => pc'[i] = pc[i],
           ~Inside(j) /\ ~Changing(j), target[j] \in Projects,
           NEW l, NEW k \in {"shared", "exclusive"}, Acquire(j, l, k), Issued(l, Home[j], target[j]),
           \/ Inside(j)' /\ k = LockKind(rule[j])
           \/ Changing(j)' /\ k = "exclusive"
    PROVE  \E w \in Access!Work : Access!Begin(j, target[j], w)
<1>1. j \notin Nodes /\ j \in Threads /\ NodeOf(j) = Home[j] /\ Home[j] \in Nodes
  BY ThreadsAssumption, HomeAssumption DEF Threads, NodeOf
<1> DEFINE w == WorkOf(j)'
<1>2. /\ w \in Access!Work /\ w # "delete"
      /\ k = IF w = "query" THEN "shared" ELSE "exclusive"
      /\ PlaceOf(j)' = <<Home[j], target[j]>>
  BY <1>1 DEF WorkOf, PlaceOf, Inside, Changing, LockKind, Access!Work, NodeOf
<1>3. WorkOf(j) = "nothing"
  BY <1>1 DEF WorkOf
<1>4. doing' = [doing EXCEPT ![j] = w] /\ at' = [at EXCEPT ![j] = <<Home[j], target[j]>>]
  <2>1. \A u \in Threads : u # j => WorkOf(u)' = WorkOf(u) /\ PlaceOf(u)' = PlaceOf(u)
    BY OthersUnseen DEF IInv
  <2> QED BY <1>1, <1>2, <2>1, OneSeen
<1>5. \A u \in Threads : doing[u] # "nothing" /\ at[u] = <<Home[j], target[j]>>
          => Access!Together(w, doing[u])
  <2> HIDE DEF w
  <2>1. Free(l, IF w = "query" THEN "shared" ELSE "exclusive")
    BY <1>2 DEF Acquire
  <2> QED BY <1>1, <1>2, <2>1, FreeToBegin
<1>6. done' = done
  BY DEF done
<1> HIDE DEF w
<1> QED BY <1>1, <1>2, <1>3, <1>4, <1>5, <1>6, Mapped DEF Access!Begin

\* What a step of the job itself leaves alone.
LEMMA JobTouches ==
    ASSUME IInv, NEW j \in Jobs, QueryStep(j) \/ ChangeStep(j)
    PROVE  /\ UNCHANGED mainVars /\ deleted' = deleted
           /\ \A i \in Jobs : i # j => pc'[i] = pc[i] /\ rule'[i] = rule[i] /\ target'[i] = target[i]
BY DEF QueryStep, ChangeStep, StartJob, GetLock, TryLock, Count, Connect, Query, EndScenario, Uncount,
   Unlock, GetOuter, SwapLock, UpdateMode, EndChange, Goto, Return, Fail, Locals, Acquire, Release, Get,
   lockerVars, mainVars, IInv, TypeOK, JobTypeOK

LEMMA JobImplements ==
    ASSUME LagCoversInFlight, IInv, NEW j \in Jobs, QueryStep(j) \/ ChangeStep(j)
    PROVE  Access!Next \/ UNCHANGED Seen
<1> USE DEF Access!Next
<1>1. j \in Threads /\ TypeOK
  BY DEF Threads, IInv
<1>2. /\ UNCHANGED mainVars /\ deleted' = deleted
      /\ \A i \in Jobs : i # j => pc'[i] = pc[i] /\ rule'[i] = rule[i] /\ target'[i] = target[i]
  BY JobTouches
<1>3. /\ pc[j] # "idle" => target[j] \in Projects
      /\ pc[j] = "lock" => Issued(ptr[j], Home[j], target[j])
      /\ pc[j] = "swap" => Issued(outer[j], Home[j], target[j])
  BY DEF IInv, LockInv, Pointers
<1>4. pc \in [Jobs -> JobSteps]
  BY DEF IInv, TypeOK, JobTypeOK
<1>5. ASSUME Inside(j) \/ Changing(j), pc'[j] \in {"idle", "swap"} PROVE Access!Next
  BY <1>1, <1>2, <1>5, JobEnds
<1>6. CASE (\E r \in Rules, p \in Projects : StartJob(j, r, p)) \/ GetOuter(j) \/ GetLock(j)
  <2>1. /\ pc[j] \in {"idle", "outer", "get", "lock", "swap"}
        /\ pc'[j] \in {"idle", "outer", "get", "lock", "swap"}
    BY <1>4, <1>6 DEF StartJob, GetOuter, GetLock, Goto
  <2> QED BY <1>1, <1>2, <2>1, JobUnseen
<1>7. CASE TryLock(j)
  <2>1. CASE Acquire(j, ptr[j], LockKind(rule[j])) /\ Goto(j, "count") /\ Locals
    <3>1. /\ LockKind(rule[j]) \in {"shared", "exclusive"} /\ UNCHANGED <<rule, target>>
          /\ ~Inside(j) /\ ~Changing(j) /\ Inside(j)' /\ target[j] \in Projects
          /\ Issued(ptr[j], Home[j], target[j])
      BY <1>3, <1>4, <1>7, <2>1 DEF TryLock, Goto, Locals, LockKind, Inside, Changing
    <3>2. \E w \in Access!Work : Access!Begin(j, target[j], w)
      BY <1>2, <2>1, <3>1, JobBegins
    <3> QED BY <1>1, <3>1, <3>2 DEF Access!Work
  <2>2. CASE Return(j)
    <3>1. pc[j] = "lock" /\ pc'[j] = "idle"
      BY <1>4, <1>7, <2>2 DEF TryLock, Return, Goto
    <3> QED BY <1>1, <1>2, <3>1, JobUnseen
  <2> QED BY <1>7, <2>1, <2>2 DEF TryLock
<1>8. CASE Count(j) \/ Connect(j) \/ Query(j) \/ EndScenario(j) \/ Uncount(j)
  <2>1. Inside(j) /\ Inside(j)' /\ rule' = rule /\ target' = target
    BY <1>4, <1>8 DEF Count, Connect, Query, EndScenario, Uncount, Goto, Fail, Locals, Inside
  <2> QED BY <1>1, <1>2, <2>1, JobUnseen
<1>9. CASE Unlock(j)
  <2>1. Inside(j) /\ pc'[j] \in {"idle", "swap"}
    BY <1>4, <1>9 DEF Unlock, Goto, Return, Inside
  <2> QED BY <1>5, <2>1
<1>10. CASE SwapLock(j)
  <2>1. CASE Acquire(j, outer[j], "exclusive") /\ Goto(j, "update") /\ Locals
    <3>1. /\ UNCHANGED <<rule, target>> /\ ~Inside(j) /\ ~Changing(j) /\ Changing(j)'
          /\ target[j] \in Projects /\ Issued(outer[j], Home[j], target[j])
      BY <1>3, <1>4, <1>10, <2>1 DEF SwapLock, Goto, Locals, Inside, Changing
    <3>2. \E w \in Access!Work : Access!Begin(j, target[j], w)
      BY <1>2, <2>1, <3>1, JobBegins
    <3> QED BY <1>1, <3>1, <3>2 DEF Access!Work
  <2>2. CASE Return(j)
    <3>1. pc[j] = "swap" /\ pc'[j] = "idle"
      BY <1>4, <1>10, <2>2 DEF SwapLock, Return, Goto
    <3> QED BY <1>1, <1>2, <3>1, JobUnseen
  <2> QED BY <1>10, <2>1, <2>2 DEF SwapLock
<1>11. CASE UpdateMode(j)
  <2>1. Changing(j) /\ Changing(j)' /\ rule' = rule /\ target' = target
    BY <1>4, <1>11 DEF UpdateMode, Goto, Locals, Changing
  <2> QED BY <1>1, <1>2, <2>1, JobUnseen
<1>12. CASE EndChange(j)
  <2>1. Changing(j) /\ pc'[j] = "idle"
    BY <1>4, <1>12 DEF EndChange, Goto, Return, Changing
  <2> QED BY <1>5, <2>1
<1> QED BY <1>6, <1>7, <1>8, <1>9, <1>10, <1>11, <1>12 DEF QueryStep, ChangeStep

-----------------------------------------------------------------------------
(* Main goroutines *)

LEMMA MainAlone ==
    ASSUME IInv, NEW n \in Nodes, UNCHANGED <<pc, rule, target>>,
           \A m \in Nodes : m # n => dpc'[m] = dpc[m] /\ dtarget'[m] = dtarget[m]
    PROVE  /\ n \in Threads
           /\ \A u \in Threads : u # n => WorkOf(u)' = WorkOf(u) /\ PlaceOf(u)' = PlaceOf(u)
<1>1. ASSUME NEW u \in Threads, u # n
      PROVE  WorkOf(u)' = WorkOf(u) /\ PlaceOf(u)' = PlaceOf(u)
  <2>1. CASE u \in Nodes
    BY <1>1, <2>1 DEF WorkOf, PlaceOf, Deleting, NodeOf
  <2>2. CASE u \notin Nodes
    BY <2>2 DEF WorkOf, PlaceOf, Inside, Changing, NodeOf
  <2> QED BY <2>1, <2>2
<1> QED BY <1>1 DEF Threads

\* What a step of DeleteProject leaves alone.
LEMMA MainTouches ==
    ASSUME IInv, NEW n \in Nodes, DeleteStep(n)
    PROVE  /\ UNCHANGED <<pc, rule, target>>
           /\ \A m \in Nodes : m # n => dpc'[m] = dpc[m] /\ dtarget'[m] = dtarget[m]
           /\ ~RetireLock(n) => deleted' = deleted
BY DEF DeleteStep, SelectForDelete, DeleteGetLock, DeleteTryLock, DeleteCheckFlag, DeleteCheckRecent,
   SaveDeleteQuery, SoftDelete, CallDelete, RetireLock, DeleteUnlock, MainGoto, MainReturn, Acquire,
   Release, Get, lockerVars, jobVars, IInv, TypeOK, MainTypeOK

\* A deletion begins behind the flag: a process has one lock for a project, so a
\* flag that is not set means it has not deleted the project.
LEMMA DeleteBegins ==
    ASSUME LagCoversInFlight, IInv, Flagged, NEW n \in Nodes, DeleteCheckFlag(n), dptr[n] \notin deleted
    PROVE  Access!Begin(n, dtarget[n], "delete") /\ dtarget[n] \in Projects
<1> DEFINE p == dtarget[n]
<1>1. /\ dpc[n] = "check" /\ UNCHANGED <<lockerVars, pc, rule, target, dtarget>>
      /\ dpc'[n] \in {"recent", "save"}
      /\ \A m \in Nodes : m # n => dpc'[m] = dpc[m]
  BY DEF DeleteCheckFlag, MainGoto, jobVars, IInv, TypeOK, MainTypeOK
<1>2. /\ p \in Projects /\ Issued(dptr[n], n, p)
      /\ kind[n] = "exclusive" /\ held[n] = dptr[n]
  BY <1>1 DEF IInv, LockInv, Pointers, Grip, MainInside
<1>3. n \in Threads /\ NodeOf(n) = n
  BY DEF Threads, NodeOf
<1>4. /\ WorkOf(n) = "nothing" /\ WorkOf(n)' = "delete"
      /\ PlaceOf(n)' = <<n, p>>
  BY <1>1, <1>3 DEF WorkOf, PlaceOf, Deleting
<1>5. doing' = [doing EXCEPT ![n] = "delete"] /\ at' = [at EXCEPT ![n] = <<n, p>>]
  BY <1>1, <1>4, MainAlone, OneSeen
<1>6. ASSUME NEW u \in Threads, doing[u] # "nothing", at[u] = <<n, p>> PROVE FALSE
  <2>1. WorkOf(u) # "nothing" /\ PlaceOf(u) = <<n, p>> /\ u # n
    BY <1>4, <1>6, Mapped
  <2>2. Issued(held[u], n, p) /\ kind[u] # "none"
    BY <2>1, AtWork
  <2>3. Protected(p)
    BY DEF Protected
  <2> QED BY <1>2, <1>3, <2>1, <2>2, <2>3, NoTwoInside
<1>7. <<n, p>> \notin done
  <2> SUFFICES ASSUME NEW l \in deleted, l[1] = n, l[2] = p PROVE FALSE
    BY DEF done
  <2>1. gen[n][p] \in {0, 1}
    BY <1>2 DEF IInv, LockInv, OneLock
  <2>2. l = <<n, p, l[3]>> /\ l[3] \in Nat
    BY DEF IInv, TypeOK, LockerTypeOK, Locks
  <2>3. l[3] \in 1 .. gen[n][p]
    BY <1>2, <2>2 DEF Flagged
  <2>4. dptr[n] = l
    BY <1>2, <2>1, <2>2, <2>3 DEF Issued
  <2> QED BY <2>4
<1>8. done' = done
  BY <1>1 DEF done, lockerVars
<1>9. doing[n] = "nothing"
  BY <1>3, <1>4, Mapped
<1> HIDE DEF p
<1> QED BY <1>2, <1>3, <1>5, <1>6, <1>7, <1>8, <1>9 DEF Access!Begin, p

LEMMA MainImplements ==
    ASSUME LagCoversInFlight, IInv, Flagged, NEW n \in Nodes, DeleteStep(n)
    PROVE  Access!Next \/ UNCHANGED Seen
<1>1. /\ n \in Threads /\ NodeOf(n) = n
      /\ \A u \in Threads : u # n => WorkOf(u)' = WorkOf(u) /\ PlaceOf(u)' = PlaceOf(u)
  BY MainTouches, MainAlone DEF NodeOf
<1>2. dpc \in [Nodes -> MainSteps] /\ dtarget \in [Nodes -> Projects \cup {None}]
  BY DEF IInv, TypeOK, MainTypeOK
<1>3. ASSUME ~RetireLock(n), WorkOf(n)' = WorkOf(n), PlaceOf(n)' = PlaceOf(n) PROVE UNCHANGED Seen
  BY <1>1, <1>3, MainTouches, Unseen
<1>4. ASSUME Deleting(n), ~Deleting(n)'
      PROVE  WorkOf(n) = "delete" /\ doing[n] = "delete" /\ Access!Stop(n)
  <2>1. WorkOf(n) = "delete" /\ WorkOf(n)' = "nothing" /\ PlaceOf(n)' = None
    BY <1>4 DEF WorkOf, PlaceOf
  <2>2. doing' = [doing EXCEPT ![n] = "nothing"] /\ at' = [at EXCEPT ![n] = None]
    BY <1>1, <2>1, OneSeen
  <2> QED BY <1>1, <2>1, <2>2, Mapped DEF Access!Stop
<1>5. CASE SelectForDelete(n) \/ DeleteGetLock(n) \/ DeleteTryLock(n) \/ DeleteUnlock(n)
  <2>1. ~Deleting(n) /\ ~Deleting(n)' /\ ~RetireLock(n)
    BY <1>2, <1>5 DEF SelectForDelete, DeleteGetLock, DeleteTryLock, DeleteUnlock, RetireLock, MainGoto,
       MainReturn, Deleting
  <2>2. WorkOf(n)' = WorkOf(n) /\ PlaceOf(n)' = PlaceOf(n)
    BY <2>1 DEF WorkOf, PlaceOf
  <2> QED BY <1>3, <2>1, <2>2
<1>6. CASE DeleteCheckFlag(n)
  <2>1. CASE dptr[n] \in deleted
    <3>1. ~Deleting(n) /\ ~Deleting(n)' /\ ~RetireLock(n)
      BY <1>2, <1>6, <2>1 DEF DeleteCheckFlag, RetireLock, MainGoto, Deleting
    <3>2. WorkOf(n)' = WorkOf(n) /\ PlaceOf(n)' = PlaceOf(n)
      BY <3>1 DEF WorkOf, PlaceOf
    <3> QED BY <1>3, <3>1, <3>2
  <2>2. CASE dptr[n] \notin deleted
    BY <1>1, <1>6, <2>2, DeleteBegins DEF Access!Next, Access!Work
  <2> QED BY <2>1, <2>2
<1>7. CASE DeleteCheckRecent(n) \/ SaveDeleteQuery(n) \/ SoftDelete(n) \/ CallDelete(n)
  <2>1. Deleting(n) /\ dtarget' = dtarget /\ ~RetireLock(n)
    BY <1>7 DEF DeleteCheckRecent, SaveDeleteQuery, SoftDelete, CallDelete, RetireLock, MainGoto, Deleting
  <2>2. done' = done
    BY <2>1, MainTouches DEF done
  <2>3. CASE Deleting(n)'
    <3>1. WorkOf(n)' = WorkOf(n) /\ PlaceOf(n)' = PlaceOf(n)
      BY <2>1, <2>3 DEF WorkOf, PlaceOf, NodeOf
    <3> QED BY <1>3, <2>1, <3>1
  <2>4. CASE ~Deleting(n)'
    BY <1>1, <1>4, <2>1, <2>2, <2>4 DEF Access!Next, Access!End
  <2> QED BY <2>3, <2>4
<1>8. CASE RetireLock(n)
  <2>1. Deleting(n) /\ ~Deleting(n)' /\ deleted' = deleted \cup {dptr[n]}
    BY <1>2, <1>8 DEF RetireLock, Retire, MainGoto, Deleting
  <2>2. Issued(dptr[n], n, dtarget[n])
    BY <2>1 DEF IInv, LockInv, Pointers, Deleting
  <2>3. done' = done \cup {<<n, dtarget[n]>>}
    <3>1. dptr[n][1] = n /\ dptr[n][2] = dtarget[n]
      BY <2>2 DEF Issued
    <3>2. done' = {<<l[1], l[2]>> : l \in deleted \cup {dptr[n]}}
      BY <2>1 DEF done
    <3> QED BY <3>1, <3>2 DEF done
  <2>4. at[n] = <<n, dtarget[n]>>
    BY <1>1, <2>1, Mapped DEF PlaceOf, WorkOf
  <2> QED BY <1>1, <1>4, <2>1, <2>3, <2>4 DEF Access!Next, Access!Complete
<1> QED BY <1>5, <1>6, <1>7, <1>8 DEF DeleteStep

-----------------------------------------------------------------------------
(* The process and its environment *)

LEMMA CrashImplements ==
    ASSUME IInv, NEW n \in Nodes, Crash(n)
    PROVE  Access!Restart(n)
<1>1. /\ pc' = [j \in Jobs |-> IF Home[j] = n THEN "idle" ELSE pc[j]]
      /\ rule' = [j \in Jobs |-> IF Home[j] = n THEN None ELSE rule[j]]
      /\ target' = [j \in Jobs |-> IF Home[j] = n THEN None ELSE target[j]]
      /\ dpc' = [dpc EXCEPT ![n] = "idle"] /\ dtarget' = [dtarget EXCEPT ![n] = None]
      /\ deleted' = {l \in deleted : l[1] # n}
      /\ dpc \in [Nodes -> MainSteps] /\ dtarget \in [Nodes -> Projects \cup {None}]
  BY DEF Crash, Forget, IInv, TypeOK, MainTypeOK
<1>2. ASSUME NEW t \in Threads
      PROVE  /\ WorkOf(t)' = IF NodeOf(t) = n THEN "nothing" ELSE WorkOf(t)
             /\ PlaceOf(t)' = IF NodeOf(t) = n THEN None ELSE PlaceOf(t)
  <2>1. CASE t \in Nodes
    BY <1>1, <2>1 DEF WorkOf, PlaceOf, Deleting, NodeOf
  <2>2. CASE t \notin Nodes
    <3>1. t \in Jobs /\ NodeOf(t) = Home[t]
      BY <2>2 DEF Threads, NodeOf
    <3> QED BY <1>1, <2>2, <3>1 DEF WorkOf, PlaceOf, Inside, Changing
  <2> QED BY <2>1, <2>2
<1>3. done' = {k \in done : k[1] # n}
  BY <1>1 DEF done
<1>4. /\ doing' = [t \in Threads |-> IF NodeOf(t) = n THEN "nothing" ELSE doing[t]]
      /\ at' = [t \in Threads |-> IF NodeOf(t) = n THEN None ELSE at[t]]
  BY <1>2, Mapped
<1> QED BY <1>3, <1>4 DEF Access!Restart

LEMMA OtherwiseUnseen ==
    ASSUME UNCHANGED <<pc, rule, target, dpc, dtarget, deleted>>
    PROVE  UNCHANGED Seen
BY DEF Seen, doing, at, done, WorkOf, PlaceOf, Deleting, Inside, Changing

LEMMA NextImplements ==
    ASSUME LagCoversInFlight, IInv, Flagged, [Next]_vars
    PROVE  [Access!Next]_(Access!vars)
<1>1. ASSUME NEW n \in Nodes, Crash(n) PROVE Access!Next
  BY <1>1, CrashImplements DEF Access!Next
<1>2. ASSUME NEW p \in Projects, InsertProject(p) \/ LagEnds(p) PROVE UNCHANGED Seen
  BY <1>2, OtherwiseUnseen DEF InsertProject, LagEnds, lockerVars, jobVars, mainVars
<1>3. ASSUME NEW n \in Nodes, NEW p \in Projects, ReapLock(n, p) PROVE UNCHANGED Seen
  BY <1>3, OtherwiseUnseen DEF ReapLock, Reap, jobVars, mainVars
<1>4. CASE UNCHANGED vars
  BY <1>4, OtherwiseUnseen DEF vars, lockerVars, jobVars, mainVars, Seen, Access!vars
<1> QED BY <1>1, <1>2, <1>3, <1>4, JobImplements, MainImplements DEF Next, Seen, Access!vars

\* ProjectAccess: the threads of a process query a project together, do anything
\* else with it alone, and no process deletes a project again while it remembers.
THEOREM LocksImplementAccess ==
    ASSUME LagCoversInFlight
    PROVE  Spec => AccessSpec
<1>1. Init => Access!Init
  <2> SUFFICES ASSUME Init PROVE Access!Init
    OBVIOUS
  <2>1. \A t \in Threads : WorkOf(t) = "nothing" /\ PlaceOf(t) = None
    BY DEF Init, WorkOf, PlaceOf, Deleting, Inside, Changing, Threads
  <2>2. doing = [t \in Threads |-> "nothing"] /\ at = [t \in Threads |-> None]
    BY <2>1 DEF doing, at
  <2>3. done = {}
    BY DEF Init, LockerInit, done
  <2> QED BY <2>2, <2>3 DEF Access!Init
<1>2. IInv /\ Flagged /\ [Next]_vars => [Access!Next]_(Access!vars)
  BY NextImplements
<1> QED BY <1>1, <1>2, Inductive, FlagsInductive, PTL DEF Spec, AccessSpec, Access!Spec
=============================================================================
