-------------------------- MODULE ProjectRulesProof --------------------------
(***************************************************************************)
(* Proofs about ProjectRules for any number of processes, jobs, rules and  *)
(* projects.  The inductive invariant is TypeOK /\ LockInv; there is one   *)
(* lemma per action, with one step per part of the invariant.              *)
(***************************************************************************)
EXTENDS ProjectRules, TLAPS

IInv == TypeOK /\ LockInv

LEMMA InitInv == Init => IInv
<1> SUFFICES ASSUME Init PROVE IInv
  OBVIOUS
<1> USE HomeAssumption, ThreadsAssumption, RulesAssumption, ArgsAssumption DEF Init, LockerInit
<1>1. TypeOK
  BY DEF TypeOK, LockerTypeOK, DbTypeOK, JobTypeOK, MainTypeOK, Keys, Locks, Kinds, Threads, JobSteps,
     MainSteps, Records, Statuses, Blank
<1>2. Grip /\ Pointers /\ Mutex /\ Doomed
  BY DEF Grip, Pointers, Mutex, Doomed, Inside, MainInside, Changing, Threads
<1>3. OneLock
  BY DEF OneLock, Reaped, Keys
<1> QED BY <1>1, <1>2, <1>3 DEF IInv, LockInv

-----------------------------------------------------------------------------
(* The operations of the lock table *)

\* Get returns a lock of the table, creates at most one, and forgets none.
LEMMA GetFacts ==
  ASSUME LockerTypeOK, Pointers, NEW n \in Nodes, NEW p \in Projects, Get(n, p)
  PROVE  /\ LockerTypeOK'
         /\ Pointer(n, p) \in Locks
         /\ Pointer(n, p) = <<n, p, gen'[n][p]>> /\ gen'[n][p] \in Nat \ {0}
         /\ \A m \in Nodes, q \in Projects : gen[m][q] <= gen'[m][q]
         /\ \A m \in Nodes, q \in Projects : <<m, q>> # <<n, p>> => gen'[m][q] = gen[m][q]
         /\ <<n, p>> \in inMap => gen'[n][p] = gen[n][p]
         /\ <<n, p>> \notin inMap => gen'[n][p] = gen[n][p] + 1
<1> DEFINE g == IF <<n, p>> \in inMap THEN gen[n][p] ELSE gen[n][p] + 1
<1>1. Pointer(n, p) = <<n, p, g>> /\ g \in Nat \ {0} /\ gen[n][p] \in Nat /\ g >= gen[n][p]
  BY DEF Pointer, LockerTypeOK, Pointers
<1>2. gen' = [gen EXCEPT ![n][p] = g]
  BY <1>1 DEF Get
<1>3. LockerTypeOK'
  BY <1>1, <1>2 DEF LockerTypeOK, Get, Keys
<1>4. Pointer(n, p) \in Locks
  BY <1>1 DEF Locks
<1>5. gen'[n][p] = g
  BY <1>2 DEF LockerTypeOK
<1>6. \A m \in Nodes, q \in Projects : <<m, q>> # <<n, p>> => gen'[m][q] = gen[m][q]
  BY <1>2 DEF LockerTypeOK
<1>7. \A m \in Nodes, q \in Projects : gen[m][q] <= gen'[m][q]
  BY <1>1, <1>5, <1>6 DEF LockerTypeOK
<1> QED BY <1>1, <1>3, <1>4, <1>5, <1>6, <1>7

LEMMA IssuedIsLock ==
  ASSUME LockerTypeOK, NEW n \in Nodes, NEW p \in Projects, NEW l, Issued(l, n, p)
  PROVE  l \in Locks
  BY DEF Issued, LockerTypeOK, Locks

\* A pointer once issued stays valid while no process forgets its table.
LEMMA IssuedStays ==
  ASSUME NEW l, NEW m \in Nodes, NEW q \in Projects, Issued(l, m, q),
         gen[m][q] \in Nat, gen'[m][q] \in Nat, gen[m][q] <= gen'[m][q]
  PROVE  Issued(l, m, q)'
  BY DEF Issued

\* Taking a free lock keeps writers alone.
LEMMA AcquireFacts ==
  ASSUME LockerTypeOK, Mutex, NEW t \in Threads, NEW l \in Locks,
         NEW k \in {"shared", "exclusive"}, Acquire(t, l, k)
  PROVE  LockerTypeOK' /\ Mutex'
<1>1. LockerTypeOK'
  BY DEF LockerTypeOK, Acquire, Kinds
<1>2. ASSUME NEW u \in Threads, u # t, kind[u] # "none", held[u] = l
      PROVE  k = "shared" /\ kind[u] = "shared"
  BY <1>2 DEF Acquire, Free, Holds
<1>3. /\ held'[t] = l /\ kind'[t] = k
      /\ \A u \in Threads : u # t => held'[u] = held[u] /\ kind'[u] = kind[u]
  BY DEF Acquire, LockerTypeOK
<1> QED BY <1>1, <1>2, <1>3 DEF Mutex

LEMMA ReleaseFacts ==
  ASSUME LockerTypeOK, Mutex, NEW t \in Threads, Release(t)
  PROVE  /\ LockerTypeOK' /\ Mutex'
         /\ kind'[t] = "none"
         /\ \A u \in Threads : u # t => held'[u] = held[u] /\ kind'[u] = kind[u]
<1>1. LockerTypeOK'
  BY DEF LockerTypeOK, Release, Kinds
<1>2. /\ kind'[t] = "none"
      /\ \A u \in Threads : u # t => held'[u] = held[u] /\ kind'[u] = kind[u]
  BY DEF Release, LockerTypeOK
<1> QED BY <1>1, <1>2 DEF Mutex

\* The window of records keeps its shape.
LEMMA PushType ==
  ASSUME DbTypeOK, NEW p \in Projects, NEW t \in Nodes \cup {None}, NEW s \in Statuses
  PROVE  Push(p, t, s) \in [Projects -> [Window -> Records]]
<1>1. [by |-> t, st |-> s] \in Records
  BY DEF Records
<1>2. \A i \in Window : i # 1 => i - 1 \in Window
  BY ArgsAssumption DEF Window
<1>3. \A i \in Window : recent[p][i] \in Records
  BY DEF DbTypeOK
<1> DEFINE w == [i \in Window |-> IF i = 1 THEN [by |-> t, st |-> s] ELSE recent[p][i - 1]]
<1>4. w \in [Window -> Records]
  BY <1>1, <1>2, <1>3
<1> HIDE DEF w
<1>5. [recent EXCEPT ![p] = w] \in [Projects -> [Window -> Records]]
  BY <1>4 DEF DbTypeOK
<1> QED BY <1>5 DEF Push, w

LEMMA FinishType ==
  ASSUME DbTypeOK, NEW p \in Projects, NEW t \in Nodes, NEW s \in Statuses
  PROVE  Finish(p, t, s) \in [Projects -> [Window -> Records]]
<1>1. [by |-> None, st |-> s] \in Records
  BY DEF Records
<1>2. \A i \in Window : recent[p][i] \in Records
  BY DEF DbTypeOK
<1> DEFINE w == [i \in Window |-> IF recent[p][i].by = t THEN [by |-> None, st |-> s] ELSE recent[p][i]]
<1>3. w \in [Window -> Records]
  BY <1>1, <1>2
<1> HIDE DEF w
<1>4. [recent EXCEPT ![p] = w] \in [Projects -> [Window -> Records]]
  BY <1>3 DEF DbTypeOK
<1> QED BY <1>4 DEF Finish, w

\* A job that moves on between taking and releasing a lock, and changes no
\* other state the locks depend on.
LEMMA JobMoves ==
  ASSUME TypeOK, LockInv, NEW j \in Jobs, NEW s, Goto(j, s),
         \/ Inside(j) /\ s \in {"count", "connect", "run", "uncount", "unlock"}
         \/ Changing(j) /\ s \in {"update", "settle"},
         UNCHANGED <<lockerVars, row, lagging, rule, target, ptr, outer, mainVars>>
  PROVE  LockerTypeOK' /\ MainTypeOK' /\ pc' \in [Jobs -> JobSteps] /\ LockInv'
<1> USE DEF lockerVars, mainVars
<1>1. /\ pc \in [Jobs -> JobSteps]
      /\ pc'[j] = s
      /\ \A i \in Jobs : i # j => pc'[i] = pc[i]
  BY DEF Goto, TypeOK, JobTypeOK
<1>2. LockerTypeOK' /\ MainTypeOK' /\ pc' \in [Jobs -> JobSteps]
  BY DEF Goto, TypeOK, LockerTypeOK, MainTypeOK, JobTypeOK, JobSteps
<1>3. \A i \in Jobs : /\ Inside(i)' <=> Inside(i)
                      /\ Changing(i)' <=> Changing(i)
                      /\ pc'[i] \in {"outer", "get", "idle", "lock", "swap"}
                           <=> pc[i] \in {"outer", "get", "idle", "lock", "swap"}
                      /\ pc[i] \in {"outer", "get", "idle", "lock", "swap"} => pc'[i] = pc[i]
  BY <1>1 DEF Inside, Changing
<1>4. \A n \in Nodes : MainInside(n)' <=> MainInside(n)
  BY DEF MainInside
<1>5. Grip'
  BY <1>3, <1>4 DEF Grip, LockInv
<1>6. Pointers'
  <2>1. ASSUME NEW i \in Jobs
        PROVE  /\ pc'[i] # "idle" => target'[i] \in Projects /\ rule'[i] \in Rules
               /\ pc'[i] = "lock" \/ Inside(i)' => Issued(ptr[i], Home[i], target[i])
               /\ pc'[i] \in {"outer", "swap"} \/ Changing(i)' => rule'[i] \in ChangeRules
               /\ pc'[i] \notin {"idle", "outer"} /\ rule'[i] \in ChangeRules
                     => Issued(outer[i], Home[i], target[i])
    <3>1. CASE pc[i] \in {"outer", "get", "idle", "lock", "swap"}
      BY <1>3, <3>1 DEF Pointers, LockInv
    <3>2. CASE pc[i] \notin {"outer", "get", "idle", "lock", "swap"}
      BY <1>3, <3>2 DEF Pointers, LockInv
    <3> QED BY <3>1, <3>2
  <2> QED BY <2>1 DEF Pointers, Issued, LockInv
<1>7. Mutex' /\ Doomed'
  BY DEF Mutex, Doomed, LockInv
<1>8. \A n \in Nodes, p \in Projects : InFlight(n, p)' => InFlight(n, p)
  BY <1>3 DEF InFlight
<1>9. OneLock'
  BY <1>8 DEF OneLock, Reaped, LockInv
<1> QED BY <1>2, <1>5, <1>6, <1>7, <1>9 DEF LockInv

\* The same for a main goroutine between locking and unlocking a project.
LEMMA MainMoves ==
  ASSUME TypeOK, LockInv, NEW n \in Nodes, NEW s, MainGoto(n, s), MainInside(n),
         s \in {"check", "recent", "save", "drop", "call", "retire", "unlock"},
         s \in {"call", "retire"} => row[dtarget[n]] = "deleted",
         UNCHANGED <<lockerVars, row, lagging, jobVars>>
  PROVE  LockerTypeOK' /\ MainTypeOK' /\ LockInv'
<1> USE DEF lockerVars, jobVars, MainGoto
<1>1. /\ dpc'[n] = s
      /\ \A m \in Nodes : m # n => dpc'[m] = dpc[m]
  BY DEF TypeOK, MainTypeOK
<1>2. LockerTypeOK' /\ MainTypeOK'
  BY DEF TypeOK, LockerTypeOK, MainTypeOK, MainSteps
<1>3. \A m \in Nodes : /\ MainInside(m)' <=> MainInside(m)
                       /\ dpc'[m] = "idle" <=> dpc[m] = "idle"
                       /\ dpc'[m] = "get" <=> dpc[m] = "get"
  BY <1>1 DEF MainInside
<1>4. Grip'
  BY <1>3 DEF Grip, Inside, Changing, LockInv
<1>5. Pointers'
  BY <1>3 DEF Pointers, Issued, Inside, Changing, LockInv
<1>6. Mutex'
  BY DEF Mutex, LockInv
<1>7. Doomed'
  BY <1>1 DEF Doomed, LockInv
<1>8. \A m \in Nodes, p \in Projects : InFlight(m, p)' => InFlight(m, p)
  BY <1>3 DEF InFlight
<1>9. OneLock'
  BY <1>8 DEF OneLock, Reaped, LockInv
<1> QED BY <1>2, <1>4, <1>5, <1>6, <1>7, <1>9 DEF LockInv

\* What Get does to the invariant, whichever goroutine calls it.
LEMMA GetMoves ==
  ASSUME IInv, NEW n \in Nodes, NEW p \in Projects, Get(n, p), InFlight(n, p),
         UNCHANGED <<row, lagging>>,
         \A m \in Nodes, q \in Projects : InFlight(m, q)' => InFlight(m, q)
  PROVE  /\ LockerTypeOK' /\ Mutex' /\ OneLock'
         /\ Pointer(n, p) \in Locks
         /\ \A l : l = Pointer(n, p) => Issued(l, n, p)'
         /\ \A l, m, q : m \in Nodes /\ q \in Projects /\ Issued(l, m, q) => Issued(l, m, q)'
         /\ \A m \in Nodes, q \in Projects : <<m, q>> \in inMap' => gen'[m][q] > 0
<1> USE DEF IInv, LockInv
<1>1. /\ LockerTypeOK'
      /\ Pointer(n, p) \in Locks
      /\ Pointer(n, p) = <<n, p, gen'[n][p]>> /\ gen'[n][p] \in Nat \ {0}
      /\ \A m \in Nodes, q \in Projects : gen[m][q] <= gen'[m][q]
      /\ \A m \in Nodes, q \in Projects : <<m, q>> # <<n, p>> => gen'[m][q] = gen[m][q]
      /\ <<n, p>> \in inMap => gen'[n][p] = gen[n][p]
      /\ <<n, p>> \notin inMap => gen'[n][p] = gen[n][p] + 1
  BY GetFacts DEF TypeOK
<1>2. \A l, m, q : m \in Nodes /\ q \in Projects /\ Issued(l, m, q) => Issued(l, m, q)'
  BY <1>1, IssuedStays DEF TypeOK, LockerTypeOK
<1>3. \A l : l = Pointer(n, p) => Issued(l, n, p)'
  BY <1>1 DEF Issued
<1>4. ASSUME NEW m \in Nodes, NEW q \in Projects, <<m, q>> \in inMap'
      PROVE  gen'[m][q] > 0
  <2>1. CASE <<m, q>> = <<n, p>>
    BY <1>1, <2>1
  <2>2. CASE <<m, q>> # <<n, p>>
    BY <1>1, <1>4, <2>2 DEF Get, Pointers
  <2> QED BY <2>1, <2>2
<1>5. Mutex'
  BY DEF Mutex, Get
<1>6. OneLock'
  <2> SUFFICES ASSUME NEW m \in Nodes, NEW q \in Projects
               PROVE  /\ row'[q] # "deleted" => ~Reaped(m, q)'
                      /\ LagCoversInFlight /\ Reaped(m, q)' => q \notin lagging' /\ ~InFlight(m, q)'
                      /\ row'[q] # "deleted" \/ LagCoversInFlight => gen'[m][q] \in {0, 1}
    BY DEF OneLock
  <2>1. CASE <<m, q>> = <<n, p>>
    <3>1. ~Reaped(m, q)'
      BY <1>1, <2>1 DEF Reaped, Get
    <3>2. row[q] # "deleted" \/ LagCoversInFlight => ~Reaped(m, q) /\ gen[m][q] \in {0, 1}
      BY <2>1 DEF OneLock
    <3>3. gen[m][q] \in Nat
      BY DEF TypeOK, LockerTypeOK
    <3> QED BY <1>1, <2>1, <3>1, <3>2, <3>3 DEF Reaped
  <2>2. CASE <<m, q>> # <<n, p>>
    <3>1. Reaped(m, q)' = Reaped(m, q) /\ gen'[m][q] = gen[m][q]
      BY <1>1, <2>2 DEF Reaped, Get
    <3> QED BY <3>1 DEF OneLock
  <2> QED BY <2>1, <2>2
<1> QED BY <1>1, <1>2, <1>3, <1>4, <1>5, <1>6

-----------------------------------------------------------------------------
(* One lemma per action *)

LEMMA StartJobInv ==
  ASSUME IInv, NEW j \in Jobs, NEW r \in Rules, NEW p \in Projects, StartJob(j, r, p)
  PROVE  IInv'
<1> USE DEF IInv, LockInv, lockerVars, dbVars, mainVars
<1>1. /\ pc[j] = "idle" /\ Selectable(p)
      /\ UNCHANGED <<lockerVars, dbVars, running, ptr, outer, err, mainVars>>
  BY DEF StartJob
<1>2. /\ pc'[j] = IF r \in ChangeRules THEN "outer" ELSE "get"
      /\ rule'[j] = r /\ target'[j] = p
      /\ \A i \in Jobs : i # j => pc'[i] = pc[i] /\ rule'[i] = rule[i] /\ target'[i] = target[i]
  BY DEF StartJob, Goto, TypeOK, JobTypeOK
<1>3. LockerTypeOK' /\ DbTypeOK' /\ MainTypeOK'
  BY <1>1 DEF TypeOK, LockerTypeOK, DbTypeOK, MainTypeOK
<1>4. JobTypeOK'
  BY DEF StartJob, Goto, TypeOK, JobTypeOK, DbTypeOK, JobSteps
<1>5. Grip'
  BY <1>1, <1>2 DEF Grip, Inside, MainInside, Changing, LockKind
<1>6. Pointers'
  BY <1>1, <1>2 DEF Pointers, Issued, Inside, Changing
<1>7. Mutex' /\ Doomed'
  BY <1>1 DEF Mutex, Doomed
<1>8. \A m \in Nodes, q \in Projects : InFlight(m, q)' => InFlight(m, q) \/ q = p
  BY <1>1, <1>2 DEF InFlight
<1>9. \A m \in Nodes : LagCoversInFlight => ~Reaped(m, p)
  BY <1>1 DEF OneLock, Selectable
<1>10. OneLock'
  BY <1>1, <1>8, <1>9 DEF OneLock, Reaped
<1> QED BY <1>3, <1>4, <1>5, <1>6, <1>7, <1>10 DEF TypeOK

LEMMA GetOuterInv ==
  ASSUME IInv, NEW j \in Jobs, GetOuter(j)
  PROVE  IInv'
<1> USE DEF IInv, LockInv, GetOuter, Goto, dbVars, mainVars
<1>1. Home[j] \in Nodes /\ target[j] \in Projects
  BY HomeAssumption DEF Pointers
<1>2. \A m \in Nodes, q \in Projects : InFlight(m, q)' => InFlight(m, q)
  BY DEF InFlight, TypeOK, JobTypeOK
<1>3. /\ LockerTypeOK' /\ Mutex' /\ OneLock'
      /\ Pointer(Home[j], target[j]) \in Locks
      /\ \A l : l = Pointer(Home[j], target[j]) => Issued(l, Home[j], target[j])'
      /\ \A l, m, q : m \in Nodes /\ q \in Projects /\ Issued(l, m, q) => Issued(l, m, q)'
      /\ \A m \in Nodes, q \in Projects : <<m, q>> \in inMap' => gen'[m][q] > 0
  BY <1>1, <1>2, GetMoves DEF InFlight
<1>4. TypeOK'
  BY <1>1, <1>3 DEF TypeOK, DbTypeOK, JobTypeOK, MainTypeOK, JobSteps, MainSteps
<1>5. Grip'
  BY DEF Grip, Inside, MainInside, Changing, Get, TypeOK, JobTypeOK, MainTypeOK
<1>6. Pointers'
  <2>1. \A k \in Jobs :
          /\ pc'[k] # "idle" => target'[k] \in Projects /\ rule'[k] \in Rules
          /\ pc'[k] \in {"outer", "swap"} \/ Changing(k)' => rule'[k] \in ChangeRules
    BY DEF Pointers, Changing, TypeOK, JobTypeOK
  <2>2. ASSUME NEW k \in Jobs, pc'[k] = "lock" \/ Inside(k)'
        PROVE  Issued(ptr[k], Home[k], target[k])'
    BY <1>1, <1>3, <2>2, HomeAssumption DEF Pointers, Inside, TypeOK, JobTypeOK
  <2>3. ASSUME NEW k \in Jobs, pc'[k] \notin {"idle", "outer"}, rule'[k] \in ChangeRules
        PROVE  Issued(outer[k], Home[k], target[k])'
    BY <1>1, <1>3, <2>3, HomeAssumption DEF Pointers, TypeOK, JobTypeOK
  <2>4. \A m \in Nodes :
          /\ dpc'[m] # "idle" => dtarget'[m] \in Projects
          /\ dpc'[m] \notin {"idle", "get"} => Issued(dptr[m], m, dtarget[m])'
    BY <1>1, <1>3 DEF Pointers, TypeOK, MainTypeOK
  <2> QED BY <1>3, <2>1, <2>2, <2>3, <2>4 DEF Pointers
<1>7. Doomed'
  BY DEF Doomed, Get, TypeOK, MainTypeOK
<1> QED BY <1>3, <1>4, <1>5, <1>6, <1>7

LEMMA GetLockInv ==
  ASSUME IInv, NEW j \in Jobs, GetLock(j)
  PROVE  IInv'
<1> USE DEF IInv, LockInv, GetLock, Goto, dbVars, mainVars
<1>1. Home[j] \in Nodes /\ target[j] \in Projects
  BY HomeAssumption DEF Pointers
<1>2. \A m \in Nodes, q \in Projects : InFlight(m, q)' => InFlight(m, q)
  BY DEF InFlight, TypeOK, JobTypeOK
<1>3. /\ LockerTypeOK' /\ Mutex' /\ OneLock'
      /\ Pointer(Home[j], target[j]) \in Locks
      /\ \A l : l = Pointer(Home[j], target[j]) => Issued(l, Home[j], target[j])'
      /\ \A l, m, q : m \in Nodes /\ q \in Projects /\ Issued(l, m, q) => Issued(l, m, q)'
      /\ \A m \in Nodes, q \in Projects : <<m, q>> \in inMap' => gen'[m][q] > 0
  BY <1>1, <1>2, GetMoves DEF InFlight
<1>4. TypeOK'
  BY <1>1, <1>3 DEF TypeOK, DbTypeOK, JobTypeOK, MainTypeOK, JobSteps, MainSteps
<1>5. Grip'
  BY DEF Grip, Inside, MainInside, Changing, Get, TypeOK, JobTypeOK, MainTypeOK
<1>6. Pointers'
  <2>1. \A k \in Jobs :
          /\ pc'[k] # "idle" => target'[k] \in Projects /\ rule'[k] \in Rules
          /\ pc'[k] \in {"outer", "swap"} \/ Changing(k)' => rule'[k] \in ChangeRules
    BY DEF Pointers, Changing, TypeOK, JobTypeOK
  <2>2. ASSUME NEW k \in Jobs, pc'[k] = "lock" \/ Inside(k)'
        PROVE  Issued(ptr[k], Home[k], target[k])'
    BY <1>1, <1>3, <2>2, HomeAssumption DEF Pointers, Inside, TypeOK, JobTypeOK
  <2>3. ASSUME NEW k \in Jobs, pc'[k] \notin {"idle", "outer"}, rule'[k] \in ChangeRules
        PROVE  Issued(outer[k], Home[k], target[k])'
    BY <1>1, <1>3, <2>3, HomeAssumption DEF Pointers, TypeOK, JobTypeOK
  <2>4. \A m \in Nodes :
          /\ dpc'[m] # "idle" => dtarget'[m] \in Projects
          /\ dpc'[m] \notin {"idle", "get"} => Issued(dptr[m], m, dtarget[m])'
    BY <1>1, <1>3 DEF Pointers, TypeOK, MainTypeOK
  <2> QED BY <1>3, <2>1, <2>2, <2>3, <2>4 DEF Pointers
<1>7. Doomed'
  BY DEF Doomed, Get, TypeOK, MainTypeOK
<1> QED BY <1>3, <1>4, <1>5, <1>6, <1>7

LEMMA TryLockInv ==
  ASSUME IInv, NEW j \in Jobs, TryLock(j)
  PROVE  IInv'
<1> USE DEF IInv, LockInv, TryLock, Goto, Locals, Return, lockerVars, dbVars, jobVars, mainVars
<1>1. Home[j] \in Nodes /\ target[j] \in Projects /\ rule[j] \in Rules
  BY HomeAssumption DEF Pointers, Inside, Changing
<1>2. Issued(ptr[j], Home[j], target[j]) /\ ptr[j] \in Locks
  BY <1>1, IssuedIsLock DEF Pointers, Inside, Changing, TypeOK
<1>3. j \in Threads /\ LockKind(rule[j]) \in {"shared", "exclusive"}
  BY DEF Threads, LockKind
<1>4. CASE Acquire(j, ptr[j], LockKind(rule[j])) /\ Goto(j, "count") /\ Locals
  <2>1. LockerTypeOK' /\ Mutex'
    BY <1>2, <1>3, <1>4, AcquireFacts DEF TypeOK
  <2>2. /\ held'[j] = ptr[j] /\ kind'[j] = LockKind(rule[j])
        /\ \A u \in Threads : u # j => held'[u] = held[u] /\ kind'[u] = kind[u]
        /\ UNCHANGED <<gen, inMap, deleted, reapers>>
    BY <1>3, <1>4 DEF Acquire, TypeOK, LockerTypeOK
  <2>3. DbTypeOK' /\ JobTypeOK' /\ MainTypeOK'
    BY <1>1, <1>4 DEF TypeOK, DbTypeOK, JobTypeOK, MainTypeOK, JobSteps, MainSteps
  <2>4. Grip'
    <3>1. /\ pc'[j] = "count"
          /\ \A i \in Jobs : i # j => pc'[i] = pc[i]
      BY <1>4 DEF TypeOK, JobTypeOK
    <3>2. \A i \in Jobs : i # j => held'[i] = held[i] /\ kind'[i] = kind[i]
      BY <2>2 DEF Threads
    <3>3. \A n \in Nodes : n # j /\ held'[n] = held[n] /\ kind'[n] = kind[n]
      BY <2>2, ThreadsAssumption DEF Threads
    <3>4. ASSUME NEW i \in Jobs, i # j
          PROVE  /\ Inside(i)' => kind'[i] = LockKind(rule[i]) /\ held'[i] = ptr[i]
                 /\ Changing(i)' => kind'[i] = "exclusive" /\ held'[i] = outer[i]
                 /\ ~Inside(i)' /\ ~Changing(i)' => kind'[i] = "none"
      BY <3>1, <3>2, <3>4 DEF Grip, Inside, Changing
    <3>5. /\ Inside(j)' => kind'[j] = LockKind(rule[j]) /\ held'[j] = ptr[j]
          /\ Changing(j)' => kind'[j] = "exclusive" /\ held'[j] = outer[j]
          /\ Inside(j)' \/ Changing(j)'
      BY <2>2, <3>1 DEF Inside, Changing
    <3> QED BY <1>4, <3>3, <3>4, <3>5 DEF Grip, MainInside, LockKind
  <2>5. Pointers'
    BY <1>1, <1>2, <1>4, <2>2 DEF Pointers, Issued, Inside, Changing, TypeOK, JobTypeOK, MainTypeOK
  <2>6. Doomed'
    BY <1>4, <2>2 DEF Doomed, TypeOK, MainTypeOK
  <2>7. OneLock'
    BY <1>4, <2>2 DEF OneLock, Reaped, InFlight, TypeOK, JobTypeOK, MainTypeOK
  <2> QED BY <2>1, <2>3, <2>4, <2>5, <2>6, <2>7 DEF TypeOK
<1>5. CASE ~Free(ptr[j], LockKind(rule[j])) /\ Return(j) /\ UNCHANGED lockerVars
  <2>1. TypeOK'
    BY <1>5 DEF TypeOK, LockerTypeOK, DbTypeOK, JobTypeOK, MainTypeOK, JobSteps, MainSteps
  <2>2. Grip' /\ Mutex'
    BY <1>5 DEF Grip, Mutex, Inside, MainInside, Changing, TypeOK, JobTypeOK, MainTypeOK
  <2>3. Pointers'
    BY <1>5 DEF Pointers, Issued, Inside, Changing, TypeOK, JobTypeOK, MainTypeOK
  <2>4. Doomed' /\ OneLock'
    BY <1>5 DEF Doomed, OneLock, Reaped, InFlight, TypeOK, JobTypeOK, MainTypeOK
  <2> QED BY <2>1, <2>2, <2>3, <2>4
<1> QED BY <1>4, <1>5

LEMMA CountInv ==
  ASSUME IInv, NEW j \in Jobs, Count(j)
  PROVE  IInv'
<1> USE DEF IInv, Count, Over
<1>1. Home[j] \in Nodes /\ target[j] \in Projects /\ rule[j] \in Rules
  BY HomeAssumption DEF LockInv, Pointers
<1>2. LockerTypeOK' /\ MainTypeOK' /\ pc' \in [Jobs -> JobSteps] /\ LockInv'
  BY JobMoves DEF Inside, lockerVars, mainVars, dbVars
<1>3. running' \in [Nodes -> [Rules -> Int]]
  BY <1>1 DEF TypeOK, JobTypeOK
<1>4. err' \in [Jobs -> BOOLEAN]
  BY DEF TypeOK, JobTypeOK
<1>5. JobTypeOK'
  BY <1>2, <1>3, <1>4 DEF TypeOK, JobTypeOK
<1>6. DbTypeOK'
  BY <1>1 DEF Inside, lockerVars, mainVars, dbVars, TypeOK, DbTypeOK, Statuses
<1> QED BY <1>2, <1>5, <1>6 DEF TypeOK

LEMMA ConnectInv ==
  ASSUME IInv, NEW j \in Jobs, Connect(j)
  PROVE  IInv'
<1> USE DEF IInv, Connect
<1>1. Home[j] \in Nodes /\ target[j] \in Projects /\ rule[j] \in Rules
  BY HomeAssumption DEF LockInv, Pointers
<1>2. LockerTypeOK' /\ MainTypeOK' /\ pc' \in [Jobs -> JobSteps] /\ LockInv'
  BY JobMoves DEF Inside, Fail, Recorded, Unrecorded, lockerVars, mainVars, dbVars
<1>3. JobTypeOK'
  BY <1>1, <1>2 DEF Inside, Fail, Recorded, Unrecorded, lockerVars, mainVars, dbVars, TypeOK, JobTypeOK
<1>4. DbTypeOK'
  BY <1>1, PushType DEF Inside, Fail, Recorded, Unrecorded, lockerVars, mainVars, dbVars, TypeOK,
     DbTypeOK, Statuses
<1> QED BY <1>2, <1>3, <1>4 DEF TypeOK

LEMMA QueryInv ==
  ASSUME IInv, NEW j \in Jobs, Query(j)
  PROVE  IInv'
<1> USE DEF IInv, Query
<1>1. Home[j] \in Nodes /\ target[j] \in Projects /\ rule[j] \in Rules
  BY HomeAssumption DEF LockInv, Pointers
<1>2. Goto(j, "run") \/ Goto(j, "uncount")
  BY DEF Fail, Goto, TypeOK, JobTypeOK
<1>3. LockerTypeOK' /\ MainTypeOK' /\ pc' \in [Jobs -> JobSteps] /\ LockInv'
  BY <1>2, JobMoves DEF Inside, Fail, Recorded, Unrecorded, lockerVars, mainVars, dbVars
<1>4. JobTypeOK'
  BY <1>1, <1>3 DEF Inside, Fail, Recorded, Unrecorded, lockerVars, mainVars, dbVars, TypeOK, JobTypeOK
<1>5. DbTypeOK'
  BY <1>1, PushType DEF Inside, Fail, Recorded, Unrecorded, lockerVars, mainVars, dbVars, TypeOK,
     DbTypeOK, Statuses
<1> QED BY <1>3, <1>4, <1>5 DEF TypeOK

LEMMA EndScenarioInv ==
  ASSUME IInv, NEW j \in Jobs, EndScenario(j)
  PROVE  IInv'
<1> USE DEF IInv, EndScenario
<1>1. Home[j] \in Nodes /\ target[j] \in Projects /\ rule[j] \in Rules
  BY HomeAssumption DEF LockInv, Pointers
<1>2. LockerTypeOK' /\ MainTypeOK' /\ pc' \in [Jobs -> JobSteps] /\ LockInv'
  BY JobMoves DEF Inside, Fail, lockerVars, mainVars, dbVars
<1>3. JobTypeOK'
  BY <1>1, <1>2 DEF Inside, Fail, lockerVars, mainVars, dbVars, TypeOK, JobTypeOK
<1>4. DbTypeOK'
  BY <1>1 DEF Inside, Fail, lockerVars, mainVars, dbVars, TypeOK, DbTypeOK, Statuses
<1> QED BY <1>2, <1>3, <1>4 DEF TypeOK

LEMMA UncountInv ==
  ASSUME IInv, NEW j \in Jobs, Uncount(j)
  PROVE  IInv'
<1> USE DEF IInv, Uncount
<1>1. Home[j] \in Nodes /\ target[j] \in Projects /\ rule[j] \in Rules
  BY HomeAssumption DEF LockInv, Pointers
<1>2. LockerTypeOK' /\ MainTypeOK' /\ pc' \in [Jobs -> JobSteps] /\ LockInv'
  BY JobMoves DEF Inside, Locals, lockerVars, mainVars, dbVars
<1>3. JobTypeOK'
  BY <1>1, <1>2 DEF Inside, Locals, lockerVars, mainVars, dbVars, TypeOK, JobTypeOK
<1>4. DbTypeOK'
  BY <1>1 DEF Inside, Locals, lockerVars, mainVars, dbVars, TypeOK, DbTypeOK, Statuses
<1> QED BY <1>2, <1>3, <1>4 DEF TypeOK

LEMMA UnlockInv ==
  ASSUME IInv, NEW j \in Jobs, Unlock(j)
  PROVE  IInv'
<1> USE DEF IInv, LockInv, Unlock, Goto, Locals, Return, lockerVars, dbVars, jobVars, mainVars
<1>1. Home[j] \in Nodes /\ target[j] \in Projects /\ rule[j] \in Rules
  BY HomeAssumption DEF Pointers, Inside, Changing
<1>2. LockerTypeOK' /\ Mutex'
  BY ReleaseFacts DEF TypeOK, Threads
<1>3. DbTypeOK'
  BY <1>1 DEF TypeOK, DbTypeOK, Statuses
<1>4. JobTypeOK'
  <2>1. CASE Goto(j, "swap") /\ Locals
    BY <2>1 DEF TypeOK, JobTypeOK, JobSteps
  <2>2. CASE Return(j)
    BY <2>2 DEF TypeOK, JobTypeOK, JobSteps
  <2> QED BY <2>1, <2>2
<1>5. MainTypeOK'
  BY DEF TypeOK, MainTypeOK, MainSteps
<1>6. Grip'
  BY <1>1, ThreadsAssumption, HomeAssumption DEF Grip, Inside, MainInside, Changing, Release, Threads,
     NodeOf, TypeOK, LockerTypeOK, JobTypeOK, MainTypeOK
<1>7. Pointers'
  <2>1. UNCHANGED <<gen, inMap>>
    BY DEF Release
  <2>2. CASE rule[j] \in ChangeRules /\ ~err[j]
    <3>1. pc' = [pc EXCEPT ![j] = "swap"] /\ UNCHANGED <<rule, target, ptr, outer>>
      BY <2>2
    <3> QED BY <1>1, <2>1, <2>2, <3>1 DEF Pointers, Issued, Inside, Changing, TypeOK, JobTypeOK
  <2>3. CASE ~(rule[j] \in ChangeRules /\ ~err[j])
    <3>1. Return(j)
      BY <2>3
    <3> QED BY <1>1, <2>1, <3>1 DEF Pointers, Issued, Inside, Changing, TypeOK, JobTypeOK
  <2> QED BY <2>2, <2>3
<1>8. Doomed'
  BY <1>1, HomeAssumption DEF Doomed, Release, Pointers, Issued, MainInside, TypeOK, LockerTypeOK,
     DbTypeOK, MainTypeOK
<1>9. OneLock'
  <2>1. UNCHANGED <<gen, inMap>>
    BY DEF Release
  <2>2. \A m \in Nodes, q \in Projects : InFlight(m, q)' => InFlight(m, q)
    BY DEF InFlight, TypeOK, JobTypeOK
  <2> QED BY <2>1, <2>2 DEF OneLock, Reaped
<1> QED BY <1>1, <1>2, <1>3, <1>4, <1>5, <1>6, <1>7, <1>8, <1>9 DEF TypeOK

LEMMA SwapLockInv ==
  ASSUME IInv, NEW j \in Jobs, SwapLock(j)
  PROVE  IInv'
<1> USE DEF IInv, LockInv, SwapLock, Goto, Locals, Return, lockerVars, dbVars, jobVars, mainVars
<1>1. Home[j] \in Nodes /\ target[j] \in Projects /\ rule[j] \in Rules
  BY HomeAssumption DEF Pointers, Inside, Changing
<1>2. Issued(outer[j], Home[j], target[j]) /\ outer[j] \in Locks
  BY <1>1, IssuedIsLock DEF Pointers, Inside, Changing, TypeOK
<1>3. j \in Threads /\ "exclusive" \in {"shared", "exclusive"}
  BY DEF Threads, LockKind
<1>4. CASE Acquire(j, outer[j], "exclusive") /\ Goto(j, "update") /\ Locals
  <2>1. LockerTypeOK' /\ Mutex'
    BY <1>2, <1>3, <1>4, AcquireFacts DEF TypeOK
  <2>2. /\ held'[j] = outer[j] /\ kind'[j] = "exclusive"
        /\ \A u \in Threads : u # j => held'[u] = held[u] /\ kind'[u] = kind[u]
        /\ UNCHANGED <<gen, inMap, deleted, reapers>>
    BY <1>3, <1>4 DEF Acquire, TypeOK, LockerTypeOK
  <2>3. DbTypeOK' /\ JobTypeOK' /\ MainTypeOK'
    BY <1>1, <1>4 DEF TypeOK, DbTypeOK, JobTypeOK, MainTypeOK, JobSteps, MainSteps
  <2>4. Grip'
    <3>1. /\ pc'[j] = "update"
          /\ \A i \in Jobs : i # j => pc'[i] = pc[i]
      BY <1>4 DEF TypeOK, JobTypeOK
    <3>2. \A i \in Jobs : i # j => held'[i] = held[i] /\ kind'[i] = kind[i]
      BY <2>2 DEF Threads
    <3>3. \A n \in Nodes : n # j /\ held'[n] = held[n] /\ kind'[n] = kind[n]
      BY <2>2, ThreadsAssumption DEF Threads
    <3>4. ASSUME NEW i \in Jobs, i # j
          PROVE  /\ Inside(i)' => kind'[i] = LockKind(rule[i]) /\ held'[i] = ptr[i]
                 /\ Changing(i)' => kind'[i] = "exclusive" /\ held'[i] = outer[i]
                 /\ ~Inside(i)' /\ ~Changing(i)' => kind'[i] = "none"
      BY <3>1, <3>2, <3>4 DEF Grip, Inside, Changing
    <3>5. /\ Inside(j)' => kind'[j] = LockKind(rule[j]) /\ held'[j] = ptr[j]
          /\ Changing(j)' => kind'[j] = "exclusive" /\ held'[j] = outer[j]
          /\ Inside(j)' \/ Changing(j)'
      BY <2>2, <3>1 DEF Inside, Changing
    <3> QED BY <1>4, <3>3, <3>4, <3>5 DEF Grip, MainInside, LockKind
  <2>5. Pointers'
    BY <1>1, <1>2, <1>4, <2>2 DEF Pointers, Issued, Inside, Changing, TypeOK, JobTypeOK, MainTypeOK
  <2>6. Doomed'
    BY <1>4, <2>2 DEF Doomed, TypeOK, MainTypeOK
  <2>7. OneLock'
    BY <1>4, <2>2 DEF OneLock, Reaped, InFlight, TypeOK, JobTypeOK, MainTypeOK
  <2> QED BY <2>1, <2>3, <2>4, <2>5, <2>6, <2>7 DEF TypeOK
<1>5. CASE ~Free(outer[j], "exclusive") /\ Return(j) /\ UNCHANGED lockerVars
  <2>1. TypeOK'
    BY <1>5 DEF TypeOK, LockerTypeOK, DbTypeOK, JobTypeOK, MainTypeOK, JobSteps, MainSteps
  <2>2. Grip' /\ Mutex'
    BY <1>5 DEF Grip, Mutex, Inside, MainInside, Changing, TypeOK, JobTypeOK, MainTypeOK
  <2>3. Pointers'
    BY <1>5 DEF Pointers, Issued, Inside, Changing, TypeOK, JobTypeOK, MainTypeOK
  <2>4. Doomed' /\ OneLock'
    BY <1>5 DEF Doomed, OneLock, Reaped, InFlight, TypeOK, JobTypeOK, MainTypeOK
  <2> QED BY <2>1, <2>2, <2>3, <2>4
<1> QED BY <1>4, <1>5

LEMMA UpdateModeInv ==
  ASSUME IInv, NEW j \in Jobs, UpdateMode(j)
  PROVE  IInv'
<1> USE DEF IInv, UpdateMode
<1>1. Home[j] \in Nodes /\ target[j] \in Projects /\ rule[j] \in Rules
  BY HomeAssumption DEF LockInv, Pointers
<1>2. LockerTypeOK' /\ MainTypeOK' /\ pc' \in [Jobs -> JobSteps] /\ LockInv'
  BY JobMoves DEF Changing, Locals, lockerVars, mainVars, dbVars
<1>3. JobTypeOK'
  BY <1>1, <1>2 DEF Changing, Locals, lockerVars, mainVars, dbVars, TypeOK, JobTypeOK
<1>4. DbTypeOK'
  BY <1>1 DEF Changing, Locals, lockerVars, mainVars, dbVars, TypeOK, DbTypeOK, Statuses
<1> QED BY <1>2, <1>3, <1>4 DEF TypeOK

LEMMA EndChangeInv ==
  ASSUME IInv, NEW j \in Jobs, EndChange(j)
  PROVE  IInv'
<1> USE DEF IInv, LockInv, EndChange, Goto, Locals, Return, lockerVars, dbVars, jobVars, mainVars
<1>1. Home[j] \in Nodes /\ target[j] \in Projects /\ rule[j] \in Rules
  BY HomeAssumption DEF Pointers, Inside, Changing
<1>2. LockerTypeOK' /\ Mutex'
  BY ReleaseFacts DEF TypeOK, Threads
<1>3. DbTypeOK'
  BY <1>1 DEF TypeOK, DbTypeOK, Statuses
<1>4. JobTypeOK'
  BY <1>1, HomeAssumption DEF TypeOK, JobTypeOK, DbTypeOK, JobSteps
<1>5. MainTypeOK'
  BY DEF TypeOK, MainTypeOK, MainSteps
<1>6. Grip'
  BY <1>1, ThreadsAssumption, HomeAssumption DEF Grip, Inside, MainInside, Changing, Release, Threads,
     NodeOf, TypeOK, LockerTypeOK, JobTypeOK, MainTypeOK
<1>7. Pointers'
  BY <1>1, HomeAssumption DEF Pointers, Issued, Inside, MainInside, Changing, Release, TypeOK,
     LockerTypeOK, JobTypeOK, MainTypeOK
<1>8. Doomed'
  BY <1>1, HomeAssumption DEF Doomed, Release, Pointers, Issued, MainInside, TypeOK, LockerTypeOK,
     DbTypeOK, MainTypeOK
<1>9. OneLock'
  BY <1>1, HomeAssumption DEF OneLock, Reaped, InFlight, Selectable, Doomed, Pointers, Release, TypeOK,
     LockerTypeOK, DbTypeOK, JobTypeOK, MainTypeOK
<1> QED BY <1>1, <1>2, <1>3, <1>4, <1>5, <1>6, <1>7, <1>8, <1>9 DEF TypeOK

LEMMA SelectForDeleteInv ==
  ASSUME IInv, NEW n \in Nodes, SelectForDelete(n)
  PROVE  IInv'
<1> USE DEF IInv, LockInv
<1>1. PICK p \in Projects : Selectable(p) /\ dtarget' = [dtarget EXCEPT ![n] = p]
  BY DEF SelectForDelete
<1>2. /\ dpc[n] = "idle" /\ dpc' = [dpc EXCEPT ![n] = "get"]
      /\ UNCHANGED <<lockerVars, dbVars, running, jobVars, dptr>>
  BY DEF SelectForDelete
<1> USE DEF lockerVars, dbVars, jobVars
<1>3. /\ dpc'[n] = "get" /\ dtarget'[n] = p
      /\ \A m \in Nodes : m # n => dpc'[m] = dpc[m] /\ dtarget'[m] = dtarget[m]
  BY <1>1, <1>2 DEF TypeOK, MainTypeOK
<1>4. LockerTypeOK' /\ DbTypeOK' /\ JobTypeOK'
  BY <1>2 DEF TypeOK, LockerTypeOK, DbTypeOK, JobTypeOK
<1>5. MainTypeOK'
  BY <1>1, <1>2 DEF TypeOK, MainTypeOK, MainSteps
<1>6. Grip'
  BY <1>2, <1>3 DEF Grip, Inside, MainInside, Changing
<1>7. Pointers'
  BY <1>2, <1>3 DEF Pointers, Issued, Inside, Changing
<1>8. Mutex' /\ Doomed'
  BY <1>2, <1>3 DEF Mutex, Doomed
<1>9. \A m \in Nodes, q \in Projects : InFlight(m, q)' => InFlight(m, q) \/ q = p
  BY <1>2, <1>3 DEF InFlight
<1>10. \A m \in Nodes : LagCoversInFlight => ~Reaped(m, p)
  BY <1>1 DEF OneLock, Selectable
<1>11. OneLock'
  BY <1>2, <1>9, <1>10 DEF OneLock, Reaped
<1> QED BY <1>4, <1>5, <1>6, <1>7, <1>8, <1>11 DEF TypeOK

LEMMA DeleteGetLockInv ==
  ASSUME IInv, NEW n \in Nodes, DeleteGetLock(n)
  PROVE  IInv'
<1> USE DEF IInv, LockInv, DeleteGetLock, dbVars, jobVars
<1>1. dtarget[n] \in Projects
  BY DEF Pointers
<1>2. \A m \in Nodes, q \in Projects : InFlight(m, q)' => InFlight(m, q)
  BY DEF InFlight, TypeOK, MainTypeOK
<1>3. /\ LockerTypeOK' /\ Mutex' /\ OneLock'
      /\ Pointer(n, dtarget[n]) \in Locks
      /\ \A l : l = Pointer(n, dtarget[n]) => Issued(l, n, dtarget[n])'
      /\ \A l, m, q : m \in Nodes /\ q \in Projects /\ Issued(l, m, q) => Issued(l, m, q)'
      /\ \A m \in Nodes, q \in Projects : <<m, q>> \in inMap' => gen'[m][q] > 0
  BY <1>1, <1>2, GetMoves DEF InFlight
<1>4. TypeOK'
  BY <1>1, <1>3 DEF TypeOK, DbTypeOK, JobTypeOK, MainTypeOK, JobSteps, MainSteps
<1>5. Grip'
  BY DEF Grip, Inside, MainInside, Changing, Get, TypeOK, JobTypeOK, MainTypeOK
<1>6. Pointers'
  <2>1. \A k \in Jobs :
          /\ pc'[k] # "idle" => target'[k] \in Projects /\ rule'[k] \in Rules
          /\ pc'[k] \in {"outer", "swap"} \/ Changing(k)' => rule'[k] \in ChangeRules
    BY DEF Pointers, Changing, TypeOK, JobTypeOK
  <2>2. ASSUME NEW k \in Jobs, pc'[k] = "lock" \/ Inside(k)'
        PROVE  Issued(ptr[k], Home[k], target[k])'
    BY <1>1, <1>3, <2>2, HomeAssumption DEF Pointers, Inside, TypeOK, JobTypeOK
  <2>3. ASSUME NEW k \in Jobs, pc'[k] \notin {"idle", "outer"}, rule'[k] \in ChangeRules
        PROVE  Issued(outer[k], Home[k], target[k])'
    BY <1>1, <1>3, <2>3, HomeAssumption DEF Pointers, TypeOK, JobTypeOK
  <2>4. \A m \in Nodes :
          /\ dpc'[m] # "idle" => dtarget'[m] \in Projects
          /\ dpc'[m] \notin {"idle", "get"} => Issued(dptr[m], m, dtarget[m])'
    BY <1>1, <1>3 DEF Pointers, TypeOK, MainTypeOK
  <2> QED BY <1>3, <2>1, <2>2, <2>3, <2>4 DEF Pointers
<1>7. Doomed'
  BY DEF Doomed, Get, TypeOK, MainTypeOK
<1> QED BY <1>3, <1>4, <1>5, <1>6, <1>7

LEMMA DeleteTryLockInv ==
  ASSUME IInv, NEW n \in Nodes, DeleteTryLock(n)
  PROVE  IInv'
<1> USE DEF IInv, LockInv, DeleteTryLock, MainGoto, MainReturn, lockerVars, dbVars, jobVars, mainVars
<1>1. dtarget[n] \in Projects
  BY HomeAssumption DEF Pointers, Inside, Changing
<1>2. Issued(dptr[n], n, dtarget[n]) /\ dptr[n] \in Locks
  BY <1>1, IssuedIsLock DEF Pointers, Inside, Changing, TypeOK
<1>3. n \in Threads /\ "exclusive" \in {"shared", "exclusive"}
  BY DEF Threads, LockKind
<1>4. CASE Acquire(n, dptr[n], "exclusive") /\ MainGoto(n, "check")
  <2>1. LockerTypeOK' /\ Mutex'
    BY <1>2, <1>3, <1>4, AcquireFacts DEF TypeOK
  <2>2. /\ held'[n] = dptr[n] /\ kind'[n] = "exclusive"
        /\ \A u \in Threads : u # n => held'[u] = held[u] /\ kind'[u] = kind[u]
        /\ UNCHANGED <<gen, inMap, deleted, reapers>>
    BY <1>3, <1>4 DEF Acquire, TypeOK, LockerTypeOK
  <2>3. DbTypeOK' /\ JobTypeOK' /\ MainTypeOK'
    BY <1>1, <1>4 DEF TypeOK, DbTypeOK, JobTypeOK, MainTypeOK, JobSteps, MainSteps
  <2>4. Grip'
    <3>1. /\ dpc'[n] = "check"
          /\ \A m \in Nodes : m # n => dpc'[m] = dpc[m]
      BY <1>4 DEF TypeOK, MainTypeOK
    <3>2. \A m \in Nodes : m # n => held'[m] = held[m] /\ kind'[m] = kind[m]
      BY <2>2 DEF Threads
    <3>3. \A i \in Jobs : held'[i] = held[i] /\ kind'[i] = kind[i]
      BY <2>2, ThreadsAssumption DEF Threads
    <3>4. ASSUME NEW m \in Nodes
          PROVE  IF MainInside(m)' THEN kind'[m] = "exclusive" /\ held'[m] = dptr[m]
                                   ELSE kind'[m] = "none"
      BY <2>2, <3>1, <3>2 DEF Grip, MainInside
    <3> QED BY <1>4, <3>3, <3>4 DEF Grip, Inside, Changing
  <2>5. Pointers'
    BY <1>1, <1>2, <1>4, <2>2 DEF Pointers, Issued, Inside, Changing, TypeOK, JobTypeOK, MainTypeOK
  <2>6. Doomed'
    BY <1>4, <2>2 DEF Doomed, TypeOK, MainTypeOK
  <2>7. OneLock'
    BY <1>4, <2>2 DEF OneLock, Reaped, InFlight, TypeOK, JobTypeOK, MainTypeOK
  <2> QED BY <2>1, <2>3, <2>4, <2>5, <2>6, <2>7 DEF TypeOK
<1>5. CASE ~Free(dptr[n], "exclusive") /\ MainReturn(n) /\ UNCHANGED lockerVars
  <2>1. TypeOK'
    BY <1>5 DEF TypeOK, LockerTypeOK, DbTypeOK, JobTypeOK, MainTypeOK, JobSteps, MainSteps
  <2>2. Grip' /\ Mutex'
    BY <1>5 DEF Grip, Mutex, Inside, MainInside, Changing, TypeOK, JobTypeOK, MainTypeOK
  <2>3. Pointers'
    BY <1>5 DEF Pointers, Issued, Inside, Changing, TypeOK, JobTypeOK, MainTypeOK
  <2>4. Doomed' /\ OneLock'
    BY <1>5 DEF Doomed, OneLock, Reaped, InFlight, TypeOK, JobTypeOK, MainTypeOK
  <2> QED BY <2>1, <2>2, <2>3, <2>4
<1> QED BY <1>4, <1>5

LEMMA DeleteCheckFlagInv ==
  ASSUME IInv, NEW n \in Nodes, DeleteCheckFlag(n)
  PROVE  IInv'
<1> USE DEF IInv, DeleteCheckFlag
<1>1. dtarget[n] \in Projects
  BY DEF LockInv, Pointers
<1>2. LockerTypeOK' /\ MainTypeOK' /\ LockInv'
  BY MainMoves DEF MainInside, lockerVars, jobVars, dbVars
<1>3. JobTypeOK'
  BY DEF TypeOK, JobTypeOK, jobVars
<1>4. DbTypeOK'
  BY <1>1 DEF TypeOK, DbTypeOK, dbVars, Statuses
<1> QED BY <1>2, <1>3, <1>4 DEF TypeOK

LEMMA DeleteCheckRecentInv ==
  ASSUME IInv, NEW n \in Nodes, DeleteCheckRecent(n)
  PROVE  IInv'
<1> USE DEF IInv, DeleteCheckRecent
<1>1. dtarget[n] \in Projects
  BY DEF LockInv, Pointers
<1>2. LockerTypeOK' /\ MainTypeOK' /\ LockInv'
  BY MainMoves DEF MainInside, lockerVars, jobVars, dbVars
<1>3. JobTypeOK'
  BY DEF TypeOK, JobTypeOK, jobVars
<1>4. DbTypeOK'
  BY <1>1 DEF TypeOK, DbTypeOK, dbVars, Statuses
<1> QED BY <1>2, <1>3, <1>4 DEF TypeOK

LEMMA SaveDeleteQueryInv ==
  ASSUME IInv, NEW n \in Nodes, SaveDeleteQuery(n)
  PROVE  IInv'
<1> USE DEF IInv, SaveDeleteQuery
<1>1. dtarget[n] \in Projects
  BY DEF LockInv, Pointers
<1>2. LockerTypeOK' /\ MainTypeOK' /\ LockInv'
  BY MainMoves DEF MainInside, lockerVars, jobVars, dbVars
<1>3. JobTypeOK'
  BY DEF TypeOK, JobTypeOK, jobVars
<1>4. DbTypeOK'
  BY <1>1, PushType DEF TypeOK, DbTypeOK, dbVars, Statuses
<1> QED BY <1>2, <1>3, <1>4 DEF TypeOK

LEMMA SoftDeleteInv ==
  ASSUME IInv, NEW n \in Nodes, SoftDelete(n)
  PROVE  IInv'
<1> USE DEF IInv, LockInv, SoftDelete, MainGoto, MainReturn, lockerVars, dbVars, jobVars, mainVars
<1>1. dtarget[n] \in Projects
  BY DEF Pointers
<1>2. LockerTypeOK'
  BY <1>1 DEF TypeOK, LockerTypeOK, Keys, Locks, Kinds, Threads, Pointers, Issued, MainInside
<1>3. Mutex'
  BY DEF Mutex, Threads, TypeOK, LockerTypeOK
<1>4. DbTypeOK'
  <2>1. row' \in [Projects -> {"absent", "live", "deleted"}] /\ lagging' \subseteq Projects
    BY <1>1 DEF TypeOK, DbTypeOK
  <2>2. recent' \in [Projects -> [Window -> Records]]
    BY <1>1, FinishType DEF TypeOK, DbTypeOK, Statuses
  <2> QED BY <2>1, <2>2 DEF TypeOK, DbTypeOK
<1>5. JobTypeOK'
  BY <1>1, HomeAssumption DEF TypeOK, JobTypeOK, DbTypeOK, JobSteps
<1>6. MainTypeOK'
  BY DEF TypeOK, MainTypeOK, MainSteps
<1>7. Grip'
  BY <1>1, ThreadsAssumption, HomeAssumption DEF Grip, Inside, MainInside, Changing, Threads, NodeOf,
     TypeOK, LockerTypeOK, JobTypeOK, MainTypeOK
<1>8. Pointers'
  BY <1>1, HomeAssumption DEF Pointers, Issued, Inside, MainInside, Changing, TypeOK, LockerTypeOK,
     JobTypeOK, MainTypeOK
<1>9. Doomed'
  <2>1. \A p \in Projects : row[p] = "deleted" => row'[p] = "deleted"
    BY <1>1 DEF TypeOK, DbTypeOK
  <2>2. \A p \in lagging' : row'[p] = "deleted"
    BY <1>1, <2>1 DEF Doomed, TypeOK, DbTypeOK
  <2>3. \A k \in reapers : k[2] \in Projects
    BY DEF TypeOK, LockerTypeOK, Keys
  <2>4. \A k \in reapers' : row'[k[2]] = "deleted"
    BY <2>1, <2>3 DEF Doomed
  <2>5. dpc'[n] \in {"call", "retire"} => row'[dtarget'[n]] = "deleted"
    BY <1>1 DEF TypeOK, DbTypeOK, MainTypeOK
  <2>6. \A m \in Nodes : m # n /\ dpc'[m] \in {"call", "retire"} => row'[dtarget'[m]] = "deleted"
    BY <2>1 DEF Doomed, Pointers, TypeOK, MainTypeOK
  <2> QED BY <2>2, <2>4, <2>5, <2>6 DEF Doomed
<1>10. OneLock'
  <2>1. \A m \in Nodes, q \in Projects :
          /\ Reaped(m, q)' = Reaped(m, q) /\ gen'[m][q] = gen[m][q]
          /\ InFlight(m, q)' => InFlight(m, q)
    BY DEF Reaped, InFlight, TypeOK, MainTypeOK
  <2>2. \A q \in Projects : row'[q] # "deleted" => row[q] # "deleted"
    BY <1>1 DEF TypeOK, DbTypeOK
  <2>3. \A q \in Projects : q \in lagging' => q \in lagging \/ row[q] # "deleted"
    BY <1>1
  <2> QED BY <2>1, <2>2, <2>3 DEF OneLock
<1> QED BY <1>1, <1>2, <1>3, <1>4, <1>5, <1>6, <1>7, <1>8, <1>9, <1>10 DEF TypeOK

LEMMA CallDeleteInv ==
  ASSUME IInv, NEW n \in Nodes, CallDelete(n)
  PROVE  IInv'
<1> USE DEF IInv, CallDelete
<1>1. dtarget[n] \in Projects
  BY DEF LockInv, Pointers
<1>2. LockerTypeOK' /\ MainTypeOK' /\ LockInv'
  BY MainMoves DEF Doomed, LockInv, MainInside, lockerVars, jobVars, dbVars
<1>3. JobTypeOK'
  BY DEF TypeOK, JobTypeOK, jobVars
<1>4. DbTypeOK'
  BY <1>1, FinishType DEF TypeOK, DbTypeOK, dbVars, Statuses
<1> QED BY <1>2, <1>3, <1>4 DEF TypeOK

LEMMA RetireLockInv ==
  ASSUME IInv, NEW n \in Nodes, RetireLock(n)
  PROVE  IInv'
<1> USE DEF IInv, LockInv, RetireLock, MainGoto, MainReturn, lockerVars, dbVars, jobVars, mainVars
<1>1. dtarget[n] \in Projects
  BY DEF Pointers
<1>2. LockerTypeOK'
  <2>1. PICK g \in 1 .. gen[n][dtarget[n]] : dptr[n] = <<n, dtarget[n], g>>
    BY DEF Pointers, Issued
  <2>2. g \in Nat
    BY <1>1 DEF TypeOK, LockerTypeOK
  <2>3. dptr[n] \in Locks /\ <<dptr[n][1], dptr[n][2]>> \in Keys
    BY <1>1, <2>1, <2>2 DEF Locks, Keys
  <2> QED BY <2>3 DEF Retire, TypeOK, LockerTypeOK
<1>3. Mutex'
  BY DEF Mutex, Threads, TypeOK, LockerTypeOK, Retire
<1>4. DbTypeOK'
  BY <1>1 DEF TypeOK, DbTypeOK, Statuses
<1>5. JobTypeOK'
  BY <1>1, HomeAssumption DEF TypeOK, JobTypeOK, DbTypeOK, JobSteps
<1>6. MainTypeOK'
  BY DEF TypeOK, MainTypeOK, MainSteps
<1>7. Grip'
  BY <1>1, ThreadsAssumption, HomeAssumption DEF Grip, Inside, MainInside, Changing, Retire, Threads,
     NodeOf, TypeOK, LockerTypeOK, JobTypeOK, MainTypeOK
<1>8. Pointers'
  BY <1>1, HomeAssumption DEF Pointers, Issued, Inside, MainInside, Changing, Retire, TypeOK,
     LockerTypeOK, JobTypeOK, MainTypeOK
<1>9. Doomed'
  <2>1. dptr[n][2] = dtarget[n] /\ row[dtarget[n]] = "deleted"
    BY DEF Pointers, Issued, Doomed
  <2>2. reapers' = reapers \cup {<<dptr[n][1], dptr[n][2]>>}
    BY DEF Retire
  <2>3. \A k \in reapers' : row[k[2]] = "deleted"
    BY <2>1, <2>2 DEF Doomed
  <2>4. \A m \in Nodes : dpc'[m] \in {"call", "retire"} => dpc'[m] = dpc[m]
    BY DEF TypeOK, MainTypeOK
  <2> QED BY <2>3, <2>4 DEF Doomed
<1>10. OneLock'
  <2>1. UNCHANGED <<gen, inMap>>
    BY DEF Retire
  <2>2. \A m \in Nodes, q \in Projects : InFlight(m, q)' => InFlight(m, q)
    BY DEF InFlight, TypeOK, MainTypeOK
  <2> QED BY <2>1, <2>2 DEF OneLock, Reaped
<1> QED BY <1>1, <1>2, <1>3, <1>4, <1>5, <1>6, <1>7, <1>8, <1>9, <1>10 DEF TypeOK

LEMMA DeleteUnlockInv ==
  ASSUME IInv, NEW n \in Nodes, DeleteUnlock(n)
  PROVE  IInv'
<1> USE DEF IInv, LockInv, DeleteUnlock, MainGoto, MainReturn, lockerVars, dbVars, jobVars, mainVars
<1>1. dtarget[n] \in Projects
  BY DEF Pointers
<1>2. LockerTypeOK' /\ Mutex'
  BY ReleaseFacts DEF TypeOK, Threads
<1>3. DbTypeOK'
  BY <1>1 DEF TypeOK, DbTypeOK, Statuses
<1>4. JobTypeOK'
  BY <1>1, HomeAssumption DEF TypeOK, JobTypeOK, DbTypeOK, JobSteps
<1>5. MainTypeOK'
  BY DEF TypeOK, MainTypeOK, MainSteps
<1>6. Grip'
  BY <1>1, ThreadsAssumption, HomeAssumption DEF Grip, Inside, MainInside, Changing, Release, Threads,
     NodeOf, TypeOK, LockerTypeOK, JobTypeOK, MainTypeOK
<1>7. Pointers'
  BY <1>1, HomeAssumption DEF Pointers, Issued, Inside, MainInside, Changing, Release, TypeOK,
     LockerTypeOK, JobTypeOK, MainTypeOK
<1>8. Doomed'
  BY <1>1, HomeAssumption DEF Doomed, Release, Pointers, Issued, MainInside, TypeOK, LockerTypeOK,
     DbTypeOK, MainTypeOK
<1>9. OneLock'
  BY <1>1, HomeAssumption DEF OneLock, Reaped, InFlight, Selectable, Doomed, Pointers, Release, TypeOK,
     LockerTypeOK, DbTypeOK, JobTypeOK, MainTypeOK
<1> QED BY <1>1, <1>2, <1>3, <1>4, <1>5, <1>6, <1>7, <1>8, <1>9 DEF TypeOK

LEMMA InsertProjectInv ==
  ASSUME IInv, NEW p \in Projects, InsertProject(p)
  PROVE  IInv'
<1> USE DEF IInv, LockInv, InsertProject, lockerVars, dbVars, jobVars, mainVars
<1>1. LockerTypeOK'
  BY DEF TypeOK, LockerTypeOK, Keys, Locks, Kinds, Threads, Pointers, Issued, MainInside
<1>2. Mutex'
  BY DEF Mutex, Threads, TypeOK, LockerTypeOK
<1>3. DbTypeOK'
  BY DEF TypeOK, DbTypeOK, Statuses
<1>4. JobTypeOK'
  BY HomeAssumption DEF TypeOK, JobTypeOK, DbTypeOK, JobSteps
<1>5. MainTypeOK'
  BY DEF TypeOK, MainTypeOK, MainSteps
<1>6. Grip'
  BY ThreadsAssumption, HomeAssumption DEF Grip, Inside, MainInside, Changing, Threads, NodeOf, TypeOK,
     LockerTypeOK, JobTypeOK, MainTypeOK
<1>7. Pointers'
  BY HomeAssumption DEF Pointers, Issued, Inside, MainInside, Changing, TypeOK, LockerTypeOK, JobTypeOK,
     MainTypeOK
<1>8. Doomed'
  BY HomeAssumption DEF Doomed, Pointers, Issued, MainInside, TypeOK, LockerTypeOK, DbTypeOK, MainTypeOK
<1>9. OneLock'
  BY HomeAssumption DEF OneLock, Reaped, InFlight, Selectable, Doomed, Pointers, TypeOK, LockerTypeOK,
     DbTypeOK, JobTypeOK, MainTypeOK
<1> QED BY <1>1, <1>2, <1>3, <1>4, <1>5, <1>6, <1>7, <1>8, <1>9 DEF TypeOK

LEMMA LagEndsInv ==
  ASSUME IInv, NEW p \in Projects, LagEnds(p)
  PROVE  IInv'
<1> USE DEF IInv, LockInv, LagEnds, lockerVars, dbVars, jobVars, mainVars
<1>1. LockerTypeOK'
  BY DEF TypeOK, LockerTypeOK, Keys, Locks, Kinds, Threads, Pointers, Issued, MainInside
<1>2. Mutex'
  BY DEF Mutex, Threads, TypeOK, LockerTypeOK
<1>3. DbTypeOK'
  BY DEF TypeOK, DbTypeOK, Statuses
<1>4. JobTypeOK'
  BY HomeAssumption DEF TypeOK, JobTypeOK, DbTypeOK, JobSteps
<1>5. MainTypeOK'
  BY DEF TypeOK, MainTypeOK, MainSteps
<1>6. Grip'
  BY ThreadsAssumption, HomeAssumption DEF Grip, Inside, MainInside, Changing, Threads, NodeOf, TypeOK,
     LockerTypeOK, JobTypeOK, MainTypeOK
<1>7. Pointers'
  BY HomeAssumption DEF Pointers, Issued, Inside, MainInside, Changing, TypeOK, LockerTypeOK, JobTypeOK,
     MainTypeOK
<1>8. Doomed'
  BY HomeAssumption DEF Doomed, Pointers, Issued, MainInside, TypeOK, LockerTypeOK, DbTypeOK, MainTypeOK
<1>9. OneLock'
  BY HomeAssumption DEF OneLock, Reaped, InFlight, Selectable, Doomed, Pointers, TypeOK, LockerTypeOK,
     DbTypeOK, JobTypeOK, MainTypeOK
<1> QED BY <1>1, <1>2, <1>3, <1>4, <1>5, <1>6, <1>7, <1>8, <1>9 DEF TypeOK

LEMMA ReapLockInv ==
  ASSUME IInv, NEW n \in Nodes, NEW p \in Projects, ReapLock(n, p)
  PROVE  IInv'
<1> USE DEF IInv, LockInv, ReapLock, lockerVars, dbVars, jobVars, mainVars
<1>1. LockerTypeOK'
  BY DEF TypeOK, LockerTypeOK, Reap, Keys, Locks, Kinds, Threads, Pointers, Issued, MainInside
<1>2. Mutex'
  BY DEF Mutex, Threads, TypeOK, LockerTypeOK, Reap
<1>3. DbTypeOK'
  BY DEF TypeOK, DbTypeOK, Statuses
<1>4. JobTypeOK'
  BY HomeAssumption DEF TypeOK, JobTypeOK, DbTypeOK, JobSteps
<1>5. MainTypeOK'
  BY DEF TypeOK, MainTypeOK, MainSteps
<1>6. Grip'
  BY ThreadsAssumption, HomeAssumption DEF Grip, Inside, MainInside, Changing, Reap, Threads, NodeOf,
     TypeOK, LockerTypeOK, JobTypeOK, MainTypeOK
<1>7. Pointers'
  BY HomeAssumption DEF Pointers, Issued, Inside, MainInside, Changing, Reap, TypeOK, LockerTypeOK,
     JobTypeOK, MainTypeOK
<1>8. Doomed'
  BY HomeAssumption DEF Doomed, Reap, Pointers, Issued, MainInside, TypeOK, LockerTypeOK, DbTypeOK,
     MainTypeOK
<1>9. OneLock'
  BY HomeAssumption DEF OneLock, Reaped, InFlight, Selectable, Doomed, Pointers, Reap, TypeOK,
     LockerTypeOK, DbTypeOK, JobTypeOK, MainTypeOK
<1> QED BY <1>1, <1>2, <1>3, <1>4, <1>5, <1>6, <1>7, <1>8, <1>9 DEF TypeOK

LEMMA CrashInv ==
  ASSUME IInv, NEW n \in Nodes, Crash(n)
  PROVE  IInv'
<1> USE DEF IInv, LockInv, Crash, lockerVars, dbVars, jobVars, mainVars
<1>1. LockerTypeOK'
  BY DEF TypeOK, LockerTypeOK, Forget, Keys, Locks, Kinds, Threads, Pointers, Issued, MainInside
<1>2. Mutex'
  BY DEF Mutex, Threads, TypeOK, LockerTypeOK, Forget
<1>3. DbTypeOK'
  <2>1. \A p \in Projects, i \in Window :
          recent[p][i] \in Records /\ [by |-> None, st |-> recent[p][i].st] \in Records
    BY DEF TypeOK, DbTypeOK, Records
  <2>2. recent' \in [Projects -> [Window -> Records]]
    BY <2>1
  <2> QED BY <2>2 DEF TypeOK, DbTypeOK
<1>4. JobTypeOK'
  <2>1. running' \in [Nodes -> [Rules -> Int]]
    BY DEF TypeOK, JobTypeOK
  <2> QED BY <2>1 DEF TypeOK, JobTypeOK, JobSteps
<1>5. MainTypeOK'
  BY DEF TypeOK, MainTypeOK, MainSteps
<1>6. Grip'
  BY ThreadsAssumption, HomeAssumption DEF Grip, Inside, MainInside, Changing, Forget, Threads, NodeOf,
     TypeOK, LockerTypeOK, JobTypeOK, MainTypeOK
<1>7. Pointers'
  BY HomeAssumption DEF Pointers, Issued, Inside, MainInside, Changing, Forget, TypeOK, LockerTypeOK,
     JobTypeOK, MainTypeOK
<1>8. Doomed'
  BY HomeAssumption DEF Doomed, Forget, Pointers, Issued, MainInside, TypeOK, LockerTypeOK, DbTypeOK,
     MainTypeOK
<1>9. OneLock'
  <2> SUFFICES ASSUME NEW m \in Nodes, NEW q \in Projects
               PROVE  /\ row[q] # "deleted" => ~Reaped(m, q)'
                      /\ LagCoversInFlight /\ Reaped(m, q)' => q \notin lagging /\ ~InFlight(m, q)'
                      /\ row[q] # "deleted" \/ LagCoversInFlight => gen'[m][q] \in {0, 1}
    BY DEF OneLock
  <2>1. CASE m = n
    BY <2>1 DEF Reaped, Forget, TypeOK, LockerTypeOK
  <2>2. CASE m # n
    <3>1. Reaped(m, q)' = Reaped(m, q) /\ gen'[m][q] = gen[m][q]
      BY <2>2 DEF Reaped, Forget, TypeOK, LockerTypeOK
    <3>2. InFlight(m, q)' => InFlight(m, q)
      BY <2>2 DEF InFlight, TypeOK, MainTypeOK
    <3> QED BY <3>1, <3>2 DEF OneLock
  <2> QED BY <2>1, <2>2
<1> QED BY <1>1, <1>2, <1>3, <1>4, <1>5, <1>6, <1>7, <1>8, <1>9 DEF TypeOK
LEMMA StutterInv == ASSUME IInv, UNCHANGED vars PROVE IInv'
<1> USE DEF IInv, LockInv, vars, lockerVars, dbVars, jobVars, mainVars
<1>1. TypeOK'
  BY DEF TypeOK, LockerTypeOK, DbTypeOK, JobTypeOK, MainTypeOK
<1>2. Grip' /\ Mutex' /\ Doomed'
  BY DEF Grip, Mutex, Doomed, Inside, MainInside, Changing
<1>3. Pointers' /\ OneLock'
  BY DEF Pointers, OneLock, Issued, Reaped, InFlight, Inside, Changing
<1> QED BY <1>1, <1>2, <1>3

LEMMA NextInv == IInv /\ [Next]_vars => IInv'
<1> SUFFICES ASSUME IInv, [Next]_vars PROVE IInv'
  OBVIOUS
<1>1. ASSUME NEW j \in Jobs, QueryStep(j) PROVE IInv'
  BY <1>1, StartJobInv, GetLockInv, TryLockInv, CountInv, ConnectInv, QueryInv,
     EndScenarioInv, UncountInv, UnlockInv DEF QueryStep
<1>2. ASSUME NEW j \in Jobs, ChangeStep(j) PROVE IInv'
  BY <1>2, GetOuterInv, SwapLockInv, UpdateModeInv, EndChangeInv DEF ChangeStep
<1>3. ASSUME NEW n \in Nodes, DeleteStep(n) PROVE IInv'
  BY <1>3, SelectForDeleteInv, DeleteGetLockInv, DeleteTryLockInv, DeleteCheckFlagInv,
     DeleteCheckRecentInv, SaveDeleteQueryInv, SoftDeleteInv, CallDeleteInv,
     RetireLockInv, DeleteUnlockInv DEF DeleteStep
<1>4. ASSUME NEW n \in Nodes, Crash(n) PROVE IInv'
  BY <1>4, CrashInv
<1>5. ASSUME NEW p \in Projects, InsertProject(p) \/ LagEnds(p) PROVE IInv'
  BY <1>5, InsertProjectInv, LagEndsInv
<1>6. ASSUME NEW n \in Nodes, NEW p \in Projects, ReapLock(n, p) PROVE IInv'
  BY <1>6, ReapLockInv
<1>7. CASE UNCHANGED vars
  BY <1>7, StutterInv
<1> QED BY <1>1, <1>2, <1>3, <1>4, <1>5, <1>6, <1>7 DEF Next

LEMMA Inductive == Spec => []IInv
  BY InitInv, NextInv, PTL DEF Spec
-----------------------------------------------------------------------------
(* The theorems *)

\* Every variable keeps its type, whatever the number of processes and jobs.
THEOREM TypeCorrect == Spec => []TypeOK
  BY Inductive, PTL DEF IInv

\* Lock pointers, holders and table entries agree with the program counters.
THEOREM LocksCorrect == Spec => []LockInv
  BY Inductive, PTL DEF IInv

\* Two threads of a process inside locks of one protected project hold the same
\* lock, so one of them being a writer is a contradiction.
LEMMA NoTwoInside ==
  ASSUME IInv, NEW t \in Threads, NEW u \in Threads, t # u,
         NEW n \in Nodes, NEW p \in Projects,
         kind[t] = "exclusive", kind[u] # "none",
         Issued(held[t], n, p), Issued(held[u], n, p), Protected(p)
  PROVE  FALSE
<1>1. gen[n][p] \in {0, 1}
  BY DEF IInv, LockInv, OneLock, Protected
<1>2. held[t] = held[u]
  BY <1>1 DEF Issued
<1> QED BY <1>2 DEF IInv, LockInv, Mutex

\* What a job inside its lock holds.
LEMMA QueryingHolds ==
  ASSUME IInv, NEW j \in Jobs, Querying(j)
  PROVE  /\ target[j] \in Projects /\ kind[j] = LockKind(rule[j])
         /\ Issued(held[j], Home[j], target[j])
  BY DEF IInv, LockInv, Querying, Inside, Grip, Pointers

LEMMA ChangingHolds ==
  ASSUME IInv, NEW j \in Jobs, Changing(j)
  PROVE  /\ target[j] \in Projects /\ kind[j] = "exclusive"
         /\ Issued(held[j], Home[j], target[j])
  BY DEF IInv, LockInv, Changing, Grip, Pointers

LEMMA QueriesExcluded == IInv => NoDeleteWhileQueried
<1> SUFFICES ASSUME IInv, NEW n \in Nodes, NEW j \in Jobs,
                    Home[j] = n, Querying(j), Deleting(n), target[j] = dtarget[n],
                    Protected(target[j])
             PROVE  FALSE
  BY DEF NoDeleteWhileQueried
<1>1. n \in Threads /\ j \in Threads /\ n # j
  BY ThreadsAssumption DEF Threads
<1>2. kind[n] = "exclusive" /\ Issued(held[n], n, dtarget[n])
  BY DEF IInv, LockInv, Deleting, MainInside, Grip, Pointers
<1>3. target[j] \in Projects /\ kind[j] # "none" /\ Issued(held[j], n, target[j])
  BY QueryingHolds DEF LockKind
<1> QED BY <1>1, <1>2, <1>3, NoTwoInside

\* A process never deletes a project one of its own jobs is querying.
THEOREM DeletionExcludesQueries == Spec => []NoDeleteWhileQueried
BY Inductive, QueriesExcluded, PTL

\* A job of an exclusive scenario is alone with its project in its process.
THEOREM ExclusiveIsAlone == Spec => []ExclusiveScenarioAlone
<1>1. IInv => ExclusiveScenarioAlone
  <2> SUFFICES ASSUME IInv, NEW i \in Jobs, NEW j \in Jobs,
                      i # j, Home[i] = Home[j], target[i] = target[j],
                      Querying(i), rule[i] \in ExclusiveRules,
                      Querying(j) \/ Changing(j), Protected(target[i])
               PROVE  FALSE
    BY DEF ExclusiveScenarioAlone
  <2>1. i \in Threads /\ j \in Threads /\ Home[i] \in Nodes
    BY HomeAssumption DEF Threads
  <2>2. target[i] \in Projects /\ kind[i] = "exclusive" /\ Issued(held[i], Home[i], target[i])
    BY QueryingHolds DEF LockKind
  <2>3. kind[j] # "none" /\ Issued(held[j], Home[i], target[i])
    BY QueryingHolds, ChangingHolds DEF LockKind
  <2> QED BY <2>1, <2>2, <2>3, NoTwoInside
<1> QED BY Inductive, <1>1, PTL

\* The mode of a project changes only while no job of that process queries it,
\* although ChangeMode locks a pointer it fetched before its own query.
THEOREM ModeIsStable == Spec => ModeStableWhileQueried
<1> DEFINE Step == \A j \in Jobs :
             pc[j] = "update" /\ mode'[target[j]] # mode[target[j]] =>
                 \A i \in Jobs : Home[i] = Home[j] /\ target[i] = target[j] => ~Querying(i)
<1>1. IInv /\ [Next]_vars => [Step]_vars
  <2> SUFFICES ASSUME IInv, NEW j \in Jobs, NEW i \in Jobs, [Next]_vars,
                      pc[j] = "update", mode'[target[j]] # mode[target[j]],
                      Home[i] = Home[j], target[i] = target[j], Querying(i)
               PROVE  FALSE
    OBVIOUS
  <2>1. PICK k \in Jobs : UpdateMode(k)
    BY DEF Next, vars, dbVars, lockerVars, QueryStep, ChangeStep, DeleteStep, StartJob,
       GetOuter, GetLock, TryLock, Count, Connect, Query, EndScenario, Uncount, Unlock,
       SwapLock, EndChange, SelectForDelete, DeleteGetLock, DeleteTryLock, DeleteCheckFlag,
       DeleteCheckRecent, SaveDeleteQuery, SoftDelete, CallDelete, RetireLock, DeleteUnlock,
       InsertProject, LagEnds, ReapLock, Crash
  <2>2. target[k] = target[j] /\ row[target[k]] = "live"
    <3>1. target[j] \in Projects
      BY DEF IInv, LockInv, Pointers
    <3> QED BY <2>1, <3>1 DEF UpdateMode, IInv, TypeOK, DbTypeOK
  <2>3. Protected(target[j])
    BY <2>2 DEF Protected
  <2>4. Changing(j) /\ i # j /\ i \in Threads /\ j \in Threads /\ Home[j] \in Nodes
    BY HomeAssumption DEF Changing, Querying, Threads
  <2> QED BY <2>3, <2>4, QueryingHolds, ChangingHolds, NoTwoInside DEF LockKind
<1> QED BY Inductive, <1>1, PTL DEF Spec, ModeStableWhileQueried
=============================================================================
