---------------------------- MODULE ProjectLocker ----------------------------
(***************************************************************************)
(* internal/bgjobs/query_lock.go: the in-memory table of project locks     *)
(* that every process keeps.                                               *)
(*                                                                         *)
(* A lock is a Go pointer.  Two pointers of one process to locks of one    *)
(* project differ only if the table entry was removed in between, so a     *)
(* pointer is written <<n, p, g>>: the g-th lock that process n created    *)
(* for project p.  Every thread of a process is a client; the main         *)
(* goroutine of process n is named n itself.  The blocking ExclusiveLock   *)
(* and SharedLock have no caller and are left out.                         *)
(***************************************************************************)
EXTENDS Naturals

CONSTANTS Nodes,      \* the exitnode processes, and their main goroutines
          Projects,   \* project IDs: increasing in order of creation
          Jobs,       \* background goroutines started with Register.Go
          Home,       \* the process a background goroutine lives in
          None        \* Go's nil

ASSUME HomeAssumption == Home \in [Jobs -> Nodes]
ASSUME ThreadsAssumption == Jobs \cap Nodes = {}
ASSUME ProjectsAssumption == Projects \subseteq Nat

VARIABLES gen,        \* how many locks process n has created for project p
          inMap,      \* the keys <<n, p>> of ProjectLocker.m
          deleted,    \* the locks whose Deleted flag is set
          reapers,    \* keys with a sleeping ProjectLocker.Delete goroutine
          held,       \* the lock a thread holds or held last
          kind        \* how it holds it: RLock, Lock, or not at all

lockerVars == <<gen, inMap, deleted, reapers, held, kind>>

Threads == Jobs \cup Nodes
NodeOf(t) == IF t \in Nodes THEN t ELSE Home[t]

Keys  == Nodes \X Projects
Locks == Nodes \X Projects \X Nat
Kinds == {"none", "shared", "exclusive"}

LockerTypeOK ==
    /\ gen \in [Nodes -> [Projects -> Nat]]
    /\ inMap \in SUBSET Keys
    /\ deleted \in SUBSET Locks
    /\ reapers \in SUBSET Keys
    /\ held \in [Threads -> Locks \cup {None}]
    /\ kind \in [Threads -> Kinds]

LockerInit ==
    /\ gen = [n \in Nodes |-> [p \in Projects |-> 0]]
    /\ inMap = {}
    /\ deleted = {}
    /\ reapers = {}
    /\ held = [t \in Threads |-> None]
    /\ kind = [t \in Threads |-> "none"]

Holds(t, l) == kind[t] # "none" /\ held[t] = l
-----------------------------------------------------------------------------
\* The pointer Get(p) returns in process n, creating the lock if need be ...
Pointer(n, p) == <<n, p, IF <<n, p>> \in inMap THEN gen[n][p] ELSE gen[n][p] + 1>>

\* ... and what Get does to the table.
Get(n, p) ==
    /\ gen' = [gen EXCEPT ![n][p] = Pointer(n, p)[3]]
    /\ inMap' = inMap \cup {<<n, p>>}
    /\ UNCHANGED <<deleted, reapers, held, kind>>

\* Mutant: TryExclusiveLock calls TryRLock.
FreeForReaders(l, k) == \A t \in Threads : Holds(t, l) => kind[t] = "shared"

\* sync.RWMutex: TryLock needs nobody, TryRLock needs no writer.
Free(l, k) ==
    IF k = "exclusive" THEN \A t \in Threads : ~Holds(t, l)
                       ELSE \A t \in Threads : Holds(t, l) => kind[t] = "shared"

Acquire(t, l, k) ==
    /\ Free(l, k)
    /\ held' = [held EXCEPT ![t] = l]
    /\ kind' = [kind EXCEPT ![t] = k]
    /\ UNCHANGED <<gen, inMap, deleted, reapers>>

Release(t) ==
    /\ held' = [held EXCEPT ![t] = None]
    /\ kind' = [kind EXCEPT ![t] = "none"]
    /\ UNCHANGED <<gen, inMap, deleted, reapers>>

\* ProjectLock.Deleted.Store(true), then ProjectLocker.Delete(p), which only
\* starts a goroutine.
Retire(l) ==
    /\ deleted' = deleted \cup {l}
    /\ reapers' = reapers \cup {<<l[1], l[2]>>}
    /\ UNCHANGED <<gen, inMap, held, kind>>

\* That goroutine, databaseMaxLag later: delete(l.m, projectID).
Reap(n, p) ==
    /\ <<n, p>> \in reapers
    /\ reapers' = reapers \ {<<n, p>>}
    /\ inMap' = inMap \ {<<n, p>>}
    /\ UNCHANGED <<gen, deleted, held, kind>>

\* The process is killed: the table and every thread go with it.
Forget(n) ==
    /\ gen' = [gen EXCEPT ![n] = [p \in Projects |-> 0]]
    /\ inMap' = {k \in inMap : k[1] # n}
    /\ deleted' = {l \in deleted : l[1] # n}
    /\ reapers' = {k \in reapers : k[1] # n}
    /\ held' = [t \in Threads |-> IF NodeOf(t) = n THEN None ELSE held[t]]
    /\ kind' = [t \in Threads |-> IF NodeOf(t) = n THEN "none" ELSE kind[t]]
=============================================================================
