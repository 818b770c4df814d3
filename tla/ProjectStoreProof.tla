--------------------------- MODULE ProjectStoreProof ---------------------------
(***************************************************************************)
(* Proofs about ProjectStore for any processes, jobs, projects, timeouts   *)
(* and bounds: the safety properties, and that the store implements the    *)
(* life of a project in ProjectLifecycle.  The inductive invariant Inv     *)
(* says who owns a project before its row exists (Owned), which numbers    *)
(* are spent (Named), and how far a withdrawal has come (Withdrawn).       *)
(***************************************************************************)
EXTENDS ProjectStore, TLAPS

\* A creation job owns the project it made, alone, until it has inserted the row.
Owned == \A c \in Creators :
    /\ pc[c] \in {"idle", "seq", "save", "call"} => proj[c] = None
    /\ pc[c] \in {"post", "poll", "update", "insert"} => proj[c] # None
    /\ proj[c] # None => cloud[proj[c]] = "running" /\ row[proj[c]] = "absent"
    /\ \A d \in Creators : c # d /\ proj[c] # None => proj[c] # proj[d]

\* What a job knows of the endpoint when it updates it and when it inserts the row.
Configured == \A c \in Creators :
    /\ pc[c] = "update" => ops[proj[c]] = "finished"
    /\ pc[c] = "insert" /\ proj[c] \in OneEndpoint => want[c] = endpoint[proj[c]]

\* A number is spent by one attempt, and no name has it before the call.
Spent(c) == pc[c] \notin {"idle", "seq"}
Named ==
    /\ \A p \in Projects : cloud[p] = "none" <=> name[p] = None
    /\ \A p \in Projects, n \in Nodes, k \in Numbers : name[p] = <<n, k>> => k <= seq[n]
    /\ \A c \in Creators : Spent(c) => num[c] <= seq[Home[c]]
    /\ \A c, d \in Creators : Spent(c) /\ Spent(d) /\ c # d => Number(c) # Number(d)
    /\ \A c \in Creators, p \in Projects : pc[c] \in {"save", "call"} => name[p] # Number(c)
    /\ NamesUnique

\* The record comes before the call.
Recorded ==
    /\ \A c \in Creators : pc[c] = "call" => createRec[Number(c)] # "none"
    /\ EveryProjectRecorded

\* Record, row, provider: a withdrawal goes through them in this order.
Withdrawn ==
    /\ \A p \in Projects : cloud[p] = "none" => row[p] = "absent"
    /\ \A p \in Projects : cloud[p] = "gone" => row[p] = "deleted"
    /\ \A n \in Nodes :
          /\ dpc[n] # "idle" => dproj[n] \in Projects /\ row[dproj[n]] # "absent"
          /\ dpc[n] \in {"call", "done", "undone"} => row[dproj[n]] = "deleted"
          /\ dpc[n] = "drop" => deleteRec[<<n, dproj[n]>>] = "unfinished"
          /\ dpc[n] = "done" => cloud[dproj[n]] = "gone"
          /\ \A p \in Projects : deleteRec[<<n, p>>] = "ok" => cloud[p] = "gone"
    /\ DropLeavesTrace

Inv == TypeOK /\ Owned /\ Configured /\ Named /\ Recorded /\ Withdrawn /\ TimeoutTruthful

\* What a step does to the locals of a job.
Keeps(d) == pc'[d] = pc[d] /\ num'[d] = num[d] /\ proj'[d] = proj[d] /\ want'[d] = want[d]
Forgets(d) == pc'[d] = "idle" /\ num'[d] = 0 /\ proj'[d] = None /\ want'[d] = Default
Moves(d, s) == pc'[d] = s /\ num'[d] = num[d] /\ proj'[d] = proj[d] /\ want'[d] = want[d]

LEMMA NumberType ==
    ASSUME TypeOK, NEW c \in Creators
    PROVE  Number(c) \in Nodes \X Numbers /\ Number(c) # None
BY StoreAssumption DEF TypeOK, Number, Numbers

LEMMA InitInv == Init => Inv
<1> SUFFICES ASSUME Init PROVE Inv
  OBVIOUS
<1>1. TypeOK
  <2>1. createRec \in [Nodes \X Numbers -> Statuses] /\ deleteRec \in [Nodes \X Projects -> Statuses]
    BY DEF Init, Statuses
  <2>2. name \in [Projects -> (Nodes \X Numbers) \cup {None}] /\ seq \in [Nodes -> Numbers]
    BY StoreAssumption DEF Init, Numbers
  <2>3. /\ pc \in [Creators -> JobSteps] /\ num \in [Creators -> Numbers]
        /\ proj \in [Creators -> Projects \cup {None}] /\ want \in [Creators -> Timeouts]
    BY StoreAssumption DEF Init, Numbers, JobSteps
  <2>4. dpc \in [Nodes -> MainSteps] /\ dproj \in [Nodes -> Projects \cup {None}]
    BY DEF Init, MainSteps
  <2> QED BY <2>1, <2>2, <2>3, <2>4, StoreAssumption DEF Init, TypeOK
<1>2. Owned /\ Configured /\ TimeoutTruthful
  BY StoreAssumption DEF Init, Owned, Configured, TimeoutTruthful
<1>3. Withdrawn
  BY DEF Init, Withdrawn, DropLeavesTrace
<1>4. Named /\ Recorded
  <2>1. \A p \in Projects, n \in Nodes, k \in Numbers : name[p] # <<n, k>>
    BY StoreAssumption DEF Init, Numbers
  <2> QED BY <2>1 DEF Init, Named, Recorded, Spent, NamesUnique, EveryProjectRecorded
<1> QED BY <1>1, <1>2, <1>3, <1>4 DEF Inv

-----------------------------------------------------------------------------
(* The steps *)

LEMMA FindLastInv ==
    ASSUME Inv, NEW c \in Creators, FindLast(c)
    PROVE  Inv'
<1>1. UNCHANGED <<cloud, ops, endpoint, name, row, timeout, recent, seq, createRec, deleteRec,
                  num, proj, want, dpc, dproj>>
  BY DEF FindLast, Goto, Locals, providerVars, tableVars, recordVars, jobVars, mainVars
<1>2. pc[c] = "idle" /\ pc' = [pc EXCEPT ![c] = "seq"]
  BY DEF FindLast, Goto, Locals, providerVars, tableVars, recordVars, jobVars, mainVars
<1>3. TypeOK'
  BY <1>1, <1>2, StoreAssumption DEF Inv, TypeOK, JobSteps, MainSteps, Statuses
<1>4. TimeoutTruthful'
  BY <1>1 DEF Inv, TimeoutTruthful
<1>5. Withdrawn'
  BY <1>1 DEF Inv, Withdrawn, DropLeavesTrace
<1>6. Owned'
  BY <1>1, <1>2, <1>3 DEF Inv, TypeOK, Owned
<1>7. Configured'
  BY <1>1, <1>2, <1>3 DEF Inv, TypeOK, Configured, Owned
<1>8. Named'
  BY <1>1, <1>2, <1>3 DEF Inv, TypeOK, Named, Spent, Number, NamesUnique
<1>9. Recorded'
  BY <1>1, <1>2, <1>3 DEF Inv, TypeOK, Recorded, EveryProjectRecorded, Number
<1> QED BY <1>3, <1>4, <1>5, <1>6, <1>7, <1>8, <1>9 DEF Inv

LEMMA NextNumberInv ==
    ASSUME Inv, NEW c \in Creators, NextNumber(c)
    PROVE  Inv'
<1>1. UNCHANGED <<cloud, ops, endpoint, name, row, timeout, recent, createRec, deleteRec,
                  proj, dpc, dproj>>
  BY DEF NextNumber, Goto, Locals, providerVars, tableVars, recordVars, jobVars, mainVars
<1>2. /\ pc[c] = "seq" /\ pc' = [pc EXCEPT ![c] = "save"]
      /\ seq[Home[c]] < MaxSeq /\ seq' = [seq EXCEPT ![Home[c]] = @ + 1]
      /\ num' = [num EXCEPT ![c] = seq[Home[c]] + 1]
      /\ \E t \in Timeouts : want' = [want EXCEPT ![c] = t]
  BY DEF NextNumber, Goto, Locals, providerVars, tableVars, recordVars, jobVars, mainVars
<1>3. TypeOK'
  <2>1. seq[Home[c]] + 1 \in Numbers
    <3>1. seq[Home[c]] \in Numbers /\ seq[Home[c]] < MaxSeq
      BY <1>2, StoreAssumption DEF Inv, TypeOK
    <3> QED BY <3>1, StoreAssumption DEF Inv, TypeOK, Numbers
  <2>2. seq' \in [Nodes -> Numbers] /\ num' \in [Creators -> Numbers]
    BY <1>2, <2>1, StoreAssumption DEF Inv, TypeOK
  <2>3. want' \in [Creators -> Timeouts] /\ pc' \in [Creators -> JobSteps]
    BY <1>2 DEF Inv, TypeOK, JobSteps
  <2> QED BY <1>1, <2>2, <2>3 DEF Inv, TypeOK
<1>4. TimeoutTruthful'
  BY <1>1 DEF Inv, TimeoutTruthful
<1>5. Withdrawn'
  BY <1>1 DEF Inv, Withdrawn, DropLeavesTrace
<1>6. Owned'
  BY <1>1, <1>2, <1>3 DEF Inv, TypeOK, Owned
<1>7. Configured'
  BY <1>1, <1>2, <1>3 DEF Inv, TypeOK, Configured, Owned
<1>8. Named'
  <2>1. \A m \in Nodes : seq'[m] = (IF m = Home[c] THEN seq[m] + 1 ELSE seq[m]) /\ seq[m] \in Nat
    BY <1>2, StoreAssumption DEF Inv, TypeOK, Numbers
  <2>2. \A m \in Nodes : seq[m] <= seq'[m]
    BY <2>1
  <2>3. \A d \in Creators : num[d] \in Nat /\ Home[d] \in Nodes
    BY StoreAssumption DEF Inv, TypeOK, Numbers
  <2>4. \A d \in Creators : d # c => num'[d] = num[d] /\ pc'[d] = pc[d]
    BY <1>2 DEF Inv, TypeOK
  <2>5. num'[c] = seq[Home[c]] + 1 /\ seq'[Home[c]] = seq[Home[c]] + 1 /\ seq[Home[c]] \in Nat /\ seq[Home[c]] + 1 \in Numbers
    BY <1>2, <2>1, <2>3, StoreAssumption DEF Inv, TypeOK, Numbers
  <2>6. \A p \in Projects : name'[p] # <<Home[c], seq[Home[c]] + 1>>
    BY <1>1, <2>3, <2>5 DEF Inv, Named
  <2>7. \A p \in Projects, m \in Nodes, k \in Numbers : name'[p] = <<m, k>> => k <= seq'[m]
    BY <1>1, <2>1, <2>2 DEF Inv, Named, Numbers
  <2>8. \A d \in Creators : Spent(d)' => num'[d] <= seq'[Home[d]]
    BY <2>1, <2>2, <2>3, <2>4, <2>5 DEF Inv, Named, Spent
  <2>9. \A d, e \in Creators : Spent(d)' /\ Spent(e)' /\ d # e => <<Home[d], num'[d]>> # <<Home[e], num'[e]>>
    BY <2>3, <2>4, <2>5 DEF Inv, Named, Spent, Number
  <2>10. \A d \in Creators, p \in Projects : pc'[d] \in {"save", "call"} => name'[p] # <<Home[d], num'[d]>>
    BY <1>1, <2>4, <2>5, <2>6 DEF Inv, Named, Number
  <2> QED BY <1>1, <2>7, <2>8, <2>9, <2>10 DEF Inv, Named, Number, NamesUnique
<1>9. Recorded'
  BY <1>1, <1>2, <1>3 DEF Inv, TypeOK, Recorded, EveryProjectRecorded, Number
<1> QED BY <1>3, <1>4, <1>5, <1>6, <1>7, <1>8, <1>9 DEF Inv

LEMMA SaveCreateInv ==
    ASSUME Inv, NEW c \in Creators, SaveCreate(c)
    PROVE  Inv'
<1>1. UNCHANGED <<cloud, ops, endpoint, name, row, timeout, recent, seq, deleteRec, dpc,
                  dproj>>
  BY DEF SaveCreate, Goto, Locals, Return, Number, providerVars, tableVars, recordVars, jobVars, mainVars
<1>2. /\ pc[c] = "save" /\ createRec' = [createRec EXCEPT ![Number(c)] = "unfinished"]
      /\ \/ pc' = [pc EXCEPT ![c] = "call"] /\ UNCHANGED <<num, proj, want>>
         \/ pc' = [pc EXCEPT ![c] = "idle"] /\ num' = [num EXCEPT ![c] = 0] /\ proj' = [proj EXCEPT ![c] = None] /\ want' = [want EXCEPT ![c] = Default]
  BY DEF SaveCreate, Goto, Locals, Return, Number, providerVars, tableVars, recordVars, jobVars, mainVars
<1>a. Number(c) \in Nodes \X Numbers
  BY NumberType DEF Inv
<1>b. /\ \A d \in Creators : d # c => Keeps(d)
      /\ Moves(c, "call") \/ Forgets(c)
  BY <1>2 DEF Inv, TypeOK, Keeps, Forgets, Moves
<1>3. TypeOK'
  <2>1. pc' \in [Creators -> JobSteps]
    BY <1>2 DEF Inv, TypeOK, JobSteps
  <2>2. num' \in [Creators -> Numbers]
    BY <1>2, StoreAssumption DEF Inv, TypeOK, Numbers
  <2>3. proj' \in [Creators -> Projects \cup {None}]
    BY <1>2 DEF Inv, TypeOK
  <2>4. want' \in [Creators -> Timeouts]
    BY <1>2, StoreAssumption DEF Inv, TypeOK
  <2>5. createRec' \in [Nodes \X Numbers -> Statuses]
    BY <1>2, <1>a DEF Inv, TypeOK, Statuses
  <2> QED BY <1>1, <2>1, <2>2, <2>3, <2>4, <2>5 DEF Inv, TypeOK
<1>4. TimeoutTruthful'
  BY <1>1 DEF Inv, TimeoutTruthful
<1>5. Withdrawn'
  BY <1>1 DEF Inv, Withdrawn, DropLeavesTrace
<1>6. Owned'
  BY <1>1, <1>2, <1>b DEF Inv, Owned, Keeps, Forgets, Moves
<1>7. Configured'
  BY <1>1, <1>b DEF Inv, Configured, Keeps, Forgets, Moves
<1>8. Named'
  BY <1>1, <1>2, <1>b DEF Inv, Named, Spent, Number, NamesUnique, Keeps, Forgets, Moves
<1>9. Recorded'
  <2>1. \A a \in Nodes \X Numbers : createRec'[a] = IF a = Number(c) THEN "unfinished" ELSE createRec[a]
    BY <1>2, <1>a DEF Inv, TypeOK
  <2>2. \A d \in Creators : Number(d) \in Nodes \X Numbers
    BY NumberType DEF Inv
  <2>3. \A d \in Creators : pc'[d] = "call" => Number(d)' = Number(d) /\ (d = c \/ pc[d] = "call")
    BY <1>2 DEF Inv, TypeOK, Number
  <2>4. \A d \in Creators : pc'[d] = "call" => createRec'[Number(d)'] # "none"
    BY <2>1, <2>2, <2>3 DEF Inv, Recorded
  <2>5. \A p \in Projects : cloud[p] # "none" => name[p] \in Nodes \X Numbers
    BY DEF Inv, TypeOK, Named
  <2>6. EveryProjectRecorded'
    BY <1>1, <2>1, <2>5 DEF Inv, Recorded, EveryProjectRecorded
  <2> QED BY <2>4, <2>6 DEF Recorded
<1> QED BY <1>3, <1>4, <1>5, <1>6, <1>7, <1>8, <1>9 DEF Inv

LEMMA CallCreateInv ==
    ASSUME Inv, NEW c \in Creators, CallCreate(c)
    PROVE  Inv'
<1>1. UNCHANGED <<endpoint, row, timeout, recent, seq, createRec, deleteRec, num, want, dpc,
                  dproj>>
  BY DEF CallCreate, Goto, Locals, Provision, providerVars, tableVars, recordVars, jobVars, mainVars
<1>2. pc[c] = "call" /\ pc' = [pc EXCEPT ![c] = "finish"]
  BY DEF CallCreate, Goto, Locals, Provision, providerVars, tableVars, recordVars, jobVars, mainVars
<1>b. \/ UNCHANGED <<cloud, ops, name, proj>>
      \/ \E p \in Projects :
            /\ cloud[p] = "none" /\ cloud' = [cloud EXCEPT ![p] = "running"]
            /\ ops' = [ops EXCEPT ![p] = "running"] /\ name' = [name EXCEPT ![p] = Number(c)]
            /\ (proj' = [proj EXCEPT ![c] = p] \/ proj' = proj)
  BY DEF CallCreate, Provision, providerVars
<1>c. Number(c) \in Nodes \X Numbers /\ Number(c) # None
  BY NumberType DEF Inv
<1>3. TypeOK'
  <2>1. /\ cloud' \in [Projects -> {"none", "running", "gone"}] /\ ops' \in [Projects -> {"running", "finished", "failed"}]
        /\ proj' \in [Creators -> Projects \cup {None}] /\ pc' \in [Creators -> JobSteps]
    BY <1>2, <1>b DEF Inv, TypeOK, JobSteps
  <2>2. name' \in [Projects -> (Nodes \X Numbers) \cup {None}]
    BY <1>b, <1>c DEF Inv, TypeOK
  <2> QED BY <1>1, <2>1, <2>2 DEF Inv, TypeOK
<1>4. TimeoutTruthful'
  BY <1>1 DEF Inv, TimeoutTruthful
<1>5. Owned'
  <2>1. proj[c] = None
    BY <1>2 DEF Inv, Owned
  <2>2. \A d \in Creators : pc'[d] = IF d = c THEN "finish" ELSE pc[d]
    BY <1>2 DEF Inv, TypeOK
  <2>3. CASE UNCHANGED <<cloud, ops, name, proj>>
    BY <1>1, <2>2, <2>3 DEF Inv, Owned
  <2>4. ASSUME NEW p \in Projects, cloud[p] = "none", cloud' = [cloud EXCEPT ![p] = "running"],
               proj' = [proj EXCEPT ![c] = p] \/ proj' = proj
        PROVE  Owned'
    <3>1. \A d \in Creators : proj[d] # p
      BY <2>4, StoreAssumption DEF Inv, Owned
    <3>2. row[p] = "absent"
      BY <2>4 DEF Inv, Withdrawn
    <3>3. \A q \in Projects : cloud'[q] = IF q = p THEN "running" ELSE cloud[q]
      BY <2>4 DEF Inv, TypeOK
    <3>4. \A d \in Creators : d # c => proj'[d] = proj[d]
      BY <2>4 DEF Inv, TypeOK
    <3>5. proj'[c] \in {p, None} /\ p # None
      BY <2>1, <2>4, StoreAssumption DEF Inv, TypeOK
    <3>6. \A d \in Creators : proj[d] \in Projects \cup {None}
      BY DEF Inv, TypeOK
    <3> QED BY <1>1, <2>2, <3>1, <3>2, <3>3, <3>4, <3>5, <3>6 DEF Inv, Owned
  <2> QED BY <1>b, <2>3, <2>4
<1>6. Configured'
  <2>1. CASE UNCHANGED <<cloud, ops, name, proj>>
    BY <1>1, <1>2, <2>1 DEF Inv, TypeOK, Configured
  <2>2. ASSUME NEW p \in Projects, cloud[p] = "none", ops' = [ops EXCEPT ![p] = "running"],
               proj' = [proj EXCEPT ![c] = p] \/ proj' = proj
        PROVE  Configured'
    <3>1. \A d \in Creators : d # c => proj'[d] = proj[d] /\ pc'[d] = pc[d]
      BY <1>2, <2>2 DEF Inv, TypeOK
    <3>2. pc'[c] = "finish"
      BY <1>2 DEF Inv, TypeOK
    <3>3. \A d \in Creators : pc[d] \in {"update", "insert"} => proj[d] \in Projects /\ proj[d] # p
      BY <2>2 DEF Inv, TypeOK, Owned
    <3>4. \A q \in Projects : q # p => ops'[q] = ops[q]
      BY <2>2 DEF Inv, TypeOK
    <3> QED BY <1>1, <3>1, <3>2, <3>3, <3>4 DEF Inv, Configured
  <2> QED BY <1>b, <2>1, <2>2
<1>7. Named'
  <2>1. \A d \in Creators : pc'[d] = IF d = c THEN "finish" ELSE pc[d]
    BY <1>2 DEF Inv, TypeOK
  <2>2. CASE UNCHANGED <<cloud, ops, name, proj>>
    BY <1>1, <1>2, <2>1, <2>2 DEF Inv, Named, Spent, Number, NamesUnique
  <2>3. ASSUME NEW p \in Projects, cloud[p] = "none", cloud' = [cloud EXCEPT ![p] = "running"],
               name' = [name EXCEPT ![p] = Number(c)]
        PROVE  Named'
    <3>1. \A q \in Projects : /\ cloud'[q] = (IF q = p THEN "running" ELSE cloud[q])
                              /\ name'[q] = (IF q = p THEN Number(c) ELSE name[q])
      BY <2>3 DEF Inv, TypeOK
    <3>2. \A q \in Projects : cloud'[q] = "none" <=> name'[q] = None
      BY <1>c, <3>1 DEF Inv, Named
    <3>3. \A q \in Projects, n \in Nodes, k \in Numbers : name'[q] = <<n, k>> => k <= seq'[n]
      BY <1>1, <1>2, <3>1 DEF Inv, Named, Number, Spent
    <3>4. \A d \in Creators : Number(d)' = Number(d) /\ (Spent(d)' <=> Spent(d))
      BY <1>1, <1>2, <2>1 DEF Spent, Number
    <3>5. \A d \in Creators, q \in Projects : pc'[d] \in {"save", "call"} => name'[q] # Number(d)
      BY <1>2, <2>1, <3>1 DEF Inv, Named, Spent
    <3>6. \A q, r \in Projects : q # r /\ name'[q] # None => name'[q] # name'[r]
      BY <1>2, <1>c, <3>1 DEF Inv, Named, NamesUnique
    <3> QED BY <1>1, <3>2, <3>3, <3>4, <3>5, <3>6 DEF Inv, Named, NamesUnique, Spent
  <2> QED BY <1>b, <2>2, <2>3
<1>8. Recorded'
  <2>1. \A d \in Creators : pc'[d] = "call" => pc[d] = "call" /\ d # c
    BY <1>2 DEF Inv, TypeOK
  <2>2. \A p \in Projects : cloud'[p] # "none" => \/ cloud[p] # "none" /\ name'[p] = name[p]
                                                \/ name'[p] = Number(c)
    BY <1>b DEF Inv, TypeOK
  <2>3. createRec[Number(c)] \in {"unfinished", "ok", "failed"}
    BY <1>2, <1>c DEF Inv, TypeOK, Statuses, Recorded
  <2> QED BY <1>1, <2>1, <2>2, <2>3 DEF Inv, Recorded, EveryProjectRecorded, Number
<1>9. Withdrawn'
  <2>1. \A p \in Projects : \/ cloud'[p] = cloud[p]
                            \/ cloud[p] = "none" /\ cloud'[p] = "running"
    BY <1>b DEF Inv, TypeOK
  <2>2. \A p \in Projects : cloud[p] = "none" => row[p] = "absent"
    BY DEF Inv, Withdrawn
  <2>3. DropLeavesTrace'
    BY <1>1, <2>1, <2>2 DEF Inv, Withdrawn, DropLeavesTrace
  <2> QED BY <1>1, <2>1, <2>2, <2>3 DEF Inv, Withdrawn
<1> QED BY <1>3, <1>4, <1>5, <1>6, <1>7, <1>8, <1>9 DEF Inv

LEMMA FinishCreateInv ==
    ASSUME Inv, NEW c \in Creators, FinishCreate(c)
    PROVE  Inv'
<1>1. UNCHANGED <<cloud, ops, endpoint, name, row, timeout, recent, seq, deleteRec, dpc,
                  dproj>>
  BY DEF FinishCreate, Goto, Locals, Return, Number, providerVars, tableVars, recordVars, jobVars, mainVars
<1>2. /\ pc[c] = "finish"
      /\ \/ createRec' = createRec
         \/ createRec' = [createRec EXCEPT ![Number(c)] = IF proj[c] = None THEN "failed" ELSE "ok"]
      /\ \/ proj[c] # None /\ pc' = [pc EXCEPT ![c] = "post"] /\ UNCHANGED <<num, proj, want>>
         \/ pc' = [pc EXCEPT ![c] = "idle"] /\ num' = [num EXCEPT ![c] = 0] /\ proj' = [proj EXCEPT ![c] = None] /\ want' = [want EXCEPT ![c] = Default]
  BY DEF FinishCreate, Goto, Locals, Return, Number, providerVars, tableVars, recordVars, jobVars, mainVars
<1>a. Number(c) \in Nodes \X Numbers
  BY NumberType DEF Inv
<1>b. /\ \A d \in Creators : d # c => Keeps(d)
      /\ Forgets(c) \/ (proj[c] # None /\ Moves(c, "post"))
  BY <1>2 DEF Inv, TypeOK, Keeps, Forgets, Moves
<1>3. TypeOK'
  <2>1. pc' \in [Creators -> JobSteps]
    BY <1>2 DEF Inv, TypeOK, JobSteps
  <2>2. num' \in [Creators -> Numbers]
    BY <1>2, StoreAssumption DEF Inv, TypeOK, Numbers
  <2>3. proj' \in [Creators -> Projects \cup {None}]
    BY <1>2 DEF Inv, TypeOK
  <2>4. want' \in [Creators -> Timeouts]
    BY <1>2, StoreAssumption DEF Inv, TypeOK
  <2>5. createRec' \in [Nodes \X Numbers -> Statuses]
    BY <1>2, <1>a DEF Inv, TypeOK, Statuses
  <2> QED BY <1>1, <2>1, <2>2, <2>3, <2>4, <2>5 DEF Inv, TypeOK
<1>4. TimeoutTruthful'
  BY <1>1 DEF Inv, TimeoutTruthful
<1>5. Withdrawn'
  BY <1>1 DEF Inv, Withdrawn, DropLeavesTrace
<1>6. Owned'
  BY <1>1, <1>2, <1>b DEF Inv, Owned, Keeps, Forgets, Moves
<1>7. Configured'
  BY <1>1, <1>b DEF Inv, Configured, Keeps, Forgets, Moves
<1>8. Named'
  BY <1>1, <1>2, <1>b DEF Inv, Named, Spent, Number, NamesUnique, Keeps, Forgets, Moves
<1>9. Recorded'
  <2>1. \A a \in Nodes \X Numbers : createRec'[a] # createRec[a] => createRec'[a] \in {"failed", "ok"}
    BY <1>2, <1>a DEF Inv, TypeOK
  <2>2. \A d \in Creators : Number(d) \in Nodes \X Numbers
    BY NumberType DEF Inv
  <2>3. \A d \in Creators : pc'[d] = "call" => Number(d)' = Number(d) /\ pc[d] = "call"
    BY <1>2 DEF Inv, TypeOK, Number
  <2>4. \A d \in Creators : pc'[d] = "call" => createRec'[Number(d)'] # "none"
    BY <2>1, <2>2, <2>3 DEF Inv, Recorded
  <2>5. \A p \in Projects : cloud[p] # "none" => name[p] \in Nodes \X Numbers
    BY DEF Inv, TypeOK, Named
  <2>6. EveryProjectRecorded'
    BY <1>1, <2>1, <2>5 DEF Inv, Recorded, EveryProjectRecorded
  <2> QED BY <2>4, <2>6 DEF Recorded
<1> QED BY <1>3, <1>4, <1>5, <1>6, <1>7, <1>8, <1>9 DEF Inv

LEMMA PostCreateInv ==
    ASSUME Inv, NEW c \in Creators, PostCreate(c)
    PROVE  Inv'
<1>1. UNCHANGED <<cloud, ops, endpoint, name, row, timeout, recent, seq, createRec, deleteRec,
                  num, proj, want, dpc, dproj>>
  BY DEF PostCreate, Goto, Locals, providerVars, tableVars, recordVars, jobVars, mainVars
<1>2. /\ pc[c] = "post"
      /\ \/ pc' = [pc EXCEPT ![c] = "poll"]
         \/ /\ ~(proj[c] \in OneEndpoint /\ want[c] # endpoint[proj[c]])
            /\ pc' = [pc EXCEPT ![c] = "insert"]
  BY DEF PostCreate, Goto, Locals, providerVars, tableVars, recordVars, jobVars, mainVars
<1>3. TypeOK'
  BY <1>1, <1>2, StoreAssumption DEF Inv, TypeOK, JobSteps, MainSteps, Statuses
<1>4. TimeoutTruthful'
  BY <1>1 DEF Inv, TimeoutTruthful
<1>5. Withdrawn'
  BY <1>1 DEF Inv, Withdrawn, DropLeavesTrace
<1>6. Owned'
  BY <1>1, <1>2, <1>3 DEF Inv, TypeOK, Owned
<1>7. Configured'
  BY <1>1, <1>2, <1>3 DEF Inv, TypeOK, Configured, Owned
<1>8. Named'
  <2>1. \A d \in Creators : pc'[d] \in {"save", "call"} => pc'[d] = pc[d]
    BY <1>2 DEF Inv, TypeOK
  <2>2. \A d \in Creators : Spent(d)' <=> Spent(d)
    BY <1>2 DEF Inv, TypeOK, Spent
  <2> QED BY <1>1, <2>1, <2>2 DEF Inv, Named, Number, NamesUnique
<1>9. Recorded'
  BY <1>1, <1>2, <1>3 DEF Inv, TypeOK, Recorded, EveryProjectRecorded, Number
<1> QED BY <1>3, <1>4, <1>5, <1>6, <1>7, <1>8, <1>9 DEF Inv

LEMMA PollOperationsInv ==
    ASSUME Inv, NEW c \in Creators, PollOperations(c)
    PROVE  Inv'
<1>1. UNCHANGED <<cloud, ops, endpoint, name, row, timeout, recent, seq, createRec, deleteRec,
                  num, proj, want, dpc, dproj>>
  BY DEF PollOperations, Goto, Locals, providerVars, tableVars, recordVars, jobVars, mainVars
<1>2. pc[c] = "poll" /\ ops[proj[c]] = "finished" /\ pc' = [pc EXCEPT ![c] = "update"]
  BY DEF PollOperations, Goto, Locals, providerVars, tableVars, recordVars, jobVars, mainVars
<1>3. TypeOK'
  BY <1>1, <1>2, StoreAssumption DEF Inv, TypeOK, JobSteps, MainSteps, Statuses
<1>4. TimeoutTruthful'
  BY <1>1 DEF Inv, TimeoutTruthful
<1>5. Withdrawn'
  BY <1>1 DEF Inv, Withdrawn, DropLeavesTrace
<1>6. Owned'
  BY <1>1, <1>2, <1>3 DEF Inv, TypeOK, Owned
<1>7. Configured'
  BY <1>1, <1>2, <1>3 DEF Inv, TypeOK, Configured, Owned
<1>8. Named'
  <2>1. \A d \in Creators : pc'[d] \in {"save", "call"} => pc'[d] = pc[d]
    BY <1>2 DEF Inv, TypeOK
  <2>2. \A d \in Creators : Spent(d)' <=> Spent(d)
    BY <1>2 DEF Inv, TypeOK, Spent
  <2> QED BY <1>1, <2>1, <2>2 DEF Inv, Named, Number, NamesUnique
<1>9. Recorded'
  BY <1>1, <1>2, <1>3 DEF Inv, TypeOK, Recorded, EveryProjectRecorded, Number
<1> QED BY <1>3, <1>4, <1>5, <1>6, <1>7, <1>8, <1>9 DEF Inv

LEMMA UpdateEndpointInv ==
    ASSUME Inv, NEW c \in Creators, UpdateEndpoint(c)
    PROVE  Inv'
<1>1. UNCHANGED <<cloud, name, row, timeout, recent, seq, createRec, deleteRec, dpc, dproj>>
  BY DEF UpdateEndpoint, Goto, Locals, Return, Reconfigure, providerVars, tableVars, recordVars, jobVars,
     mainVars
<1>2. /\ pc[c] = "update" /\ endpoint' = [endpoint EXCEPT ![proj[c]] = want[c]]
      /\ ops' = [ops EXCEPT ![proj[c]] = "running"]
      /\ \/ pc' = [pc EXCEPT ![c] = "insert"] /\ UNCHANGED <<num, proj, want>>
         \/ pc' = [pc EXCEPT ![c] = "idle"] /\ num' = [num EXCEPT ![c] = 0] /\ proj' = [proj EXCEPT ![c] = None] /\ want' = [want EXCEPT ![c] = Default]
  BY DEF UpdateEndpoint, Goto, Locals, Return, Reconfigure, providerVars, tableVars, recordVars, jobVars,
     mainVars
<1>b. /\ \A d \in Creators : d # c => Keeps(d)
      /\ Moves(c, "insert") \/ Forgets(c)
  BY <1>2 DEF Inv, TypeOK, Keeps, Forgets, Moves
<1>c. proj[c] \in Projects /\ want[c] \in Timeouts
  BY <1>2 DEF Inv, TypeOK, Owned
<1>3. TypeOK'
  <2>1. pc' \in [Creators -> JobSteps]
    BY <1>2 DEF Inv, TypeOK, JobSteps
  <2>2. num' \in [Creators -> Numbers]
    BY <1>2, StoreAssumption DEF Inv, TypeOK, Numbers
  <2>3. proj' \in [Creators -> Projects \cup {None}]
    BY <1>2 DEF Inv, TypeOK
  <2>4. want' \in [Creators -> Timeouts]
    BY <1>2, StoreAssumption DEF Inv, TypeOK
  <2>5. endpoint' \in [Projects -> Timeouts] /\ ops' \in [Projects -> {"running", "finished", "failed"}]
    BY <1>2, StoreAssumption DEF Inv, TypeOK, Owned
  <2> QED BY <1>1, <2>1, <2>2, <2>3, <2>4, <2>5 DEF Inv, TypeOK
<1>4. Withdrawn'
  BY <1>1 DEF Inv, Withdrawn, DropLeavesTrace
<1>5. Owned'
  BY <1>1, <1>2, <1>b DEF Inv, Owned, Keeps, Forgets, Moves
<1>6. Configured'
  <2>1. /\ \A d \in Creators : d # c => pc'[d] = pc[d] /\ proj'[d] = proj[d] /\ want'[d] = want[d]
        /\ \A d \in Creators : d # c /\ proj[d] # None => proj[d] # proj[c]
        /\ \A p \in Projects : p # proj[c] => ops'[p] = ops[p] /\ endpoint'[p] = endpoint[p]
    BY <1>2 DEF Inv, TypeOK, Owned
  <2>2. \A d \in Creators : pc[d] \in {"update", "insert"} => proj[d] \in Projects
    BY DEF Inv, TypeOK, Owned
  <2>3. pc'[c] = "idle" \/ (pc'[c] = "insert" /\ proj'[c] = proj[c] /\ want'[c] = want[c])
    BY <1>b DEF Forgets, Moves
  <2>4. endpoint'[proj[c]] = want[c]
    BY <1>2, <2>2 DEF Inv, TypeOK
  <2>5. \A d \in Creators : d # c /\ pc[d] \in {"update", "insert"} => proj[d] # proj[c]
    BY <2>1 DEF Inv, Owned
  <2> QED BY <2>1, <2>2, <2>3, <2>4, <2>5, StoreAssumption DEF Inv, Configured
<1>7. Named'
  BY <1>1, <1>2, <1>b DEF Inv, Named, Spent, Number, NamesUnique, Keeps, Forgets, Moves
<1>8. Recorded'
  BY <1>1, <1>2, <1>b DEF Inv, Recorded, EveryProjectRecorded, Number, Keeps, Forgets, Moves
<1>9. TimeoutTruthful'
  <2>1. row[proj[c]] = "absent"
    BY <1>2 DEF Inv, Owned
  <2> QED BY <1>1, <1>2, <2>1, StoreAssumption DEF Inv, TypeOK, TimeoutTruthful
<1> QED BY <1>3, <1>4, <1>5, <1>6, <1>7, <1>8, <1>9 DEF Inv

LEMMA InsertRowInv ==
    ASSUME Inv, NEW c \in Creators, InsertRow(c)
    PROVE  Inv'
<1>1. UNCHANGED <<cloud, ops, endpoint, name, seq, createRec, deleteRec, dpc, dproj>>
  BY DEF InsertRow, Goto, Return, providerVars, tableVars, recordVars, jobVars, mainVars
<1>2. /\ pc[c] = "insert" /\ row' = [row EXCEPT ![proj[c]] = "live"]
      /\ timeout' = [timeout EXCEPT ![proj[c]] = want[c]] /\ recent' = TRUE
      /\ pc' = [pc EXCEPT ![c] = "idle"] /\ num' = [num EXCEPT ![c] = 0] /\ proj' = [proj EXCEPT ![c] = None] /\ want' = [want EXCEPT ![c] = Default]
  BY DEF InsertRow, Goto, Return, providerVars, tableVars, recordVars, jobVars, mainVars
<1>a. /\ proj[c] \in Projects /\ cloud[proj[c]] = "running" /\ row[proj[c]] = "absent"
      /\ \A p \in Projects : row'[p] = IF p = proj[c] THEN "live" ELSE row[p]
  BY <1>2 DEF Inv, TypeOK, Owned
<1>b. /\ \A d \in Creators : d # c => Keeps(d)
      /\ Forgets(c)
  BY <1>2 DEF Inv, TypeOK, Keeps, Forgets, Moves
<1>3. TypeOK'
  <2>1. pc' \in [Creators -> JobSteps]
    BY <1>2 DEF Inv, TypeOK, JobSteps
  <2>2. num' \in [Creators -> Numbers]
    BY <1>2, StoreAssumption DEF Inv, TypeOK, Numbers
  <2>3. proj' \in [Creators -> Projects \cup {None}]
    BY <1>2 DEF Inv, TypeOK
  <2>4. want' \in [Creators -> Timeouts]
    BY <1>2, StoreAssumption DEF Inv, TypeOK
  <2>5. row' \in [Projects -> {"absent", "live", "deleted"}] /\ timeout' \in [Projects -> Timeouts] /\ recent' \in BOOLEAN
    BY <1>2, StoreAssumption DEF Inv, TypeOK, Owned
  <2> QED BY <1>1, <2>1, <2>2, <2>3, <2>4, <2>5 DEF Inv, TypeOK
<1>4. Owned'
  <2>1. \A d \in Creators : d # c /\ proj[d] # None => proj[d] \in Projects /\ proj[d] # proj[c]
    BY <1>a DEF Inv, TypeOK, Owned
  <2> QED BY <1>1, <1>a, <1>b, <2>1 DEF Inv, Owned, Keeps, Forgets
<1>5. Configured'
  BY <1>1, <1>b DEF Inv, Configured, Keeps, Forgets, Moves
<1>6. Named'
  BY <1>1, <1>2, <1>b DEF Inv, Named, Spent, Number, NamesUnique, Keeps, Forgets, Moves
<1>7. Recorded'
  BY <1>1, <1>2, <1>b DEF Inv, Recorded, EveryProjectRecorded, Number, Keeps, Forgets, Moves
<1>8. Withdrawn'
  <2>1. DropLeavesTrace'
    BY <1>1, <1>a DEF Inv, Withdrawn, DropLeavesTrace
  <2> QED BY <1>1, <1>a, <2>1 DEF Inv, Withdrawn
<1>9. TimeoutTruthful'
  BY <1>1, <1>2, <1>a DEF Inv, TypeOK, Configured, TimeoutTruthful
<1> QED BY <1>3, <1>4, <1>5, <1>6, <1>7, <1>8, <1>9 DEF Inv

LEMMA CreateFailsInv ==
    ASSUME Inv, NEW c \in Creators, CreateFails(c)
    PROVE  Inv'
<1>1. UNCHANGED <<cloud, ops, endpoint, name, row, timeout, recent, seq, createRec, deleteRec,
                  dpc, dproj>>
  BY DEF CreateFails, Goto, Return, providerVars, tableVars, recordVars, jobVars, mainVars
<1>2. pc' = [pc EXCEPT ![c] = "idle"] /\ num' = [num EXCEPT ![c] = 0] /\ proj' = [proj EXCEPT ![c] = None] /\ want' = [want EXCEPT ![c] = Default]
  BY DEF CreateFails, Goto, Return, providerVars, tableVars, recordVars, jobVars, mainVars
<1>b. /\ \A d \in Creators : d # c => Keeps(d)
      /\ Forgets(c)
  BY <1>2 DEF Inv, TypeOK, Keeps, Forgets, Moves
<1>3. TypeOK'
  <2>1. pc' \in [Creators -> JobSteps]
    BY <1>2 DEF Inv, TypeOK, JobSteps
  <2>2. num' \in [Creators -> Numbers]
    BY <1>2, StoreAssumption DEF Inv, TypeOK, Numbers
  <2>3. proj' \in [Creators -> Projects \cup {None}]
    BY <1>2 DEF Inv, TypeOK
  <2>4. want' \in [Creators -> Timeouts]
    BY <1>2, StoreAssumption DEF Inv, TypeOK
  <2> QED BY <1>1, <2>1, <2>2, <2>3, <2>4 DEF Inv, TypeOK
<1>4. TimeoutTruthful'
  BY <1>1 DEF Inv, TimeoutTruthful
<1>5. Withdrawn'
  BY <1>1 DEF Inv, Withdrawn, DropLeavesTrace
<1>6. Owned'
  BY <1>1, <1>b DEF Inv, Owned, Keeps, Forgets, Moves
<1>7. Configured'
  BY <1>1, <1>b DEF Inv, Configured, Keeps, Forgets, Moves
<1>8. Named'
  BY <1>1, <1>2, <1>b DEF Inv, Named, Spent, Number, NamesUnique, Keeps, Forgets, Moves
<1>9. Recorded'
  BY <1>1, <1>2, <1>b DEF Inv, Recorded, EveryProjectRecorded, Number, Keeps, Forgets, Moves
<1> QED BY <1>3, <1>4, <1>5, <1>6, <1>7, <1>8, <1>9 DEF Inv

LEMMA StartDeleteInv ==
    ASSUME Inv, NEW n \in Nodes, StartDelete(n)
    PROVE  Inv'
<1>1. UNCHANGED <<cloud, ops, endpoint, name, row, timeout, recent, seq, createRec, deleteRec,
                  pc, num, proj, want>>
  BY DEF StartDelete, providerVars, tableVars, recordVars, jobVars, mainVars
<1>2. /\ dpc[n] = "idle" /\ dpc' = [dpc EXCEPT ![n] = "save"]
      /\ \E p \in Projects : row[p] = "live" /\ dproj' = [dproj EXCEPT ![n] = p]
  BY DEF StartDelete, providerVars, tableVars, recordVars, jobVars, mainVars
<1>3. TypeOK'
  BY <1>1, <1>2, StoreAssumption DEF Inv, TypeOK, JobSteps, MainSteps, Statuses
<1>4. Owned' /\ Configured' /\ Named' /\ Recorded' /\ TimeoutTruthful'
  BY <1>1 DEF Inv, Owned, Configured, Named, Spent, Number, NamesUnique, Recorded, EveryProjectRecorded,
     Number, TimeoutTruthful
<1>5. Withdrawn'
  <2>1. \A m \in Nodes : m # n => dpc'[m] = dpc[m] /\ dproj'[m] = dproj[m]
    BY <1>2 DEF Inv, TypeOK
  <2>2. dpc'[n] = "save" /\ dproj'[n] \in Projects /\ row[dproj'[n]] = "live"
    BY <1>2 DEF Inv, TypeOK
  <2>3. DropLeavesTrace'
    BY <1>1 DEF Inv, Withdrawn, DropLeavesTrace
  <2>4. \A m \in Nodes : dpc'[m] = "drop" => deleteRec'[<<m, dproj'[m]>>] = "unfinished"
    BY <1>1, <2>1, <2>2 DEF Inv, Withdrawn
  <2>5. \A m \in Nodes, p \in Projects : deleteRec'[<<m, p>>] = "ok" => cloud'[p] = "gone"
    BY <1>1 DEF Inv, Withdrawn
  <2> QED BY <1>1, <2>1, <2>2, <2>3, <2>4, <2>5 DEF Inv, Withdrawn
<1> QED BY <1>3, <1>4, <1>5 DEF Inv

LEMMA SaveDeleteInv ==
    ASSUME Inv, NEW n \in Nodes, SaveDelete(n)
    PROVE  Inv'
<1>1. UNCHANGED <<cloud, ops, endpoint, name, row, timeout, recent, seq, createRec, pc, num,
                  proj, want>>
  BY DEF SaveDelete, MainGoto, MainReturn, providerVars, tableVars, recordVars, jobVars, mainVars
<1>2. /\ dpc[n] = "save" /\ deleteRec' = [deleteRec EXCEPT ![<<n, dproj[n]>>] = "unfinished"]
      /\ \/ dpc' = [dpc EXCEPT ![n] = "drop"] /\ UNCHANGED dproj
         \/ dpc' = [dpc EXCEPT ![n] = "idle"] /\ dproj' = [dproj EXCEPT ![n] = None]
  BY DEF SaveDelete, MainGoto, MainReturn, providerVars, tableVars, recordVars, jobVars, mainVars
<1>a. /\ dproj[n] \in Projects
      /\ \A m \in Nodes, p \in Projects :
            deleteRec'[<<m, p>>] = IF m = n /\ p = dproj[n] THEN "unfinished" ELSE deleteRec[<<m, p>>]
  BY <1>2 DEF Inv, TypeOK, Withdrawn
<1>3. TypeOK'
  <2>1. deleteRec' \in [Nodes \X Projects -> Statuses]
    BY <1>2 DEF Inv, TypeOK, Statuses, Withdrawn
  <2>2. dpc' \in [Nodes -> MainSteps] /\ dproj' \in [Nodes -> Projects \cup {None}]
    BY <1>2 DEF Inv, TypeOK, MainSteps
  <2> QED BY <1>1, <2>1, <2>2 DEF Inv, TypeOK
<1>4. Owned' /\ Configured' /\ Named' /\ Recorded' /\ TimeoutTruthful'
  BY <1>1 DEF Inv, Owned, Configured, Named, Spent, Number, NamesUnique, Recorded, EveryProjectRecorded,
     Number, TimeoutTruthful
<1>5. Withdrawn'
  <2>1. \A m \in Nodes : m # n => dpc'[m] = dpc[m] /\ dproj'[m] = dproj[m]
    BY <1>2 DEF Inv, TypeOK
  <2>2. dpc'[n] = "idle" \/ (dpc'[n] = "drop" /\ dproj'[n] = dproj[n])
    BY <1>2 DEF Inv, TypeOK
  <2>3. DropLeavesTrace'
    BY <1>1, <1>a DEF Inv, Withdrawn, DropLeavesTrace
  <2>4. \A m \in Nodes : dpc'[m] = "drop" => deleteRec'[<<m, dproj'[m]>>] = "unfinished"
    BY <1>a, <2>1, <2>2 DEF Inv, Withdrawn
  <2> QED BY <1>1, <1>2, <1>a, <2>1, <2>2, <2>3, <2>4 DEF Inv, Withdrawn
<1> QED BY <1>3, <1>4, <1>5 DEF Inv

LEMMA DropRowInv ==
    ASSUME Inv, NEW n \in Nodes, DropRow(n)
    PROVE  Inv'
<1>1. UNCHANGED <<cloud, ops, endpoint, name, timeout, recent, seq, createRec, deleteRec, pc,
                  num, proj, want>>
  BY DEF DropRow, MainGoto, MainReturn, providerVars, tableVars, recordVars, jobVars, mainVars
<1>2. /\ dpc[n] = "drop" /\ row' = [row EXCEPT ![dproj[n]] = "deleted"]
      /\ \/ dpc' = [dpc EXCEPT ![n] = "call"] /\ UNCHANGED dproj
         \/ dpc' = [dpc EXCEPT ![n] = "idle"] /\ dproj' = [dproj EXCEPT ![n] = None]
  BY DEF DropRow, MainGoto, MainReturn, providerVars, tableVars, recordVars, jobVars, mainVars
<1>a. /\ dproj[n] \in Projects /\ row[dproj[n]] # "absent"
      /\ deleteRec[<<n, dproj[n]>>] = "unfinished"
      /\ \A p \in Projects : row'[p] = IF p = dproj[n] THEN "deleted" ELSE row[p]
  BY <1>2 DEF Inv, TypeOK, Withdrawn
<1>3. TypeOK'
  <2>1. row' \in [Projects -> {"absent", "live", "deleted"}]
    BY <1>2 DEF Inv, TypeOK
  <2>2. dpc' \in [Nodes -> MainSteps] /\ dproj' \in [Nodes -> Projects \cup {None}]
    BY <1>2 DEF Inv, TypeOK, MainSteps
  <2> QED BY <1>1, <2>1, <2>2 DEF Inv, TypeOK
<1>4. Configured' /\ Named' /\ Recorded'
  BY <1>1 DEF Inv, Configured, Named, Spent, Number, NamesUnique, Recorded, EveryProjectRecorded, Number
<1>5. Owned'
  BY <1>1, <1>a DEF Inv, Owned, TypeOK
<1>6. Withdrawn'
  <2>1. \A m \in Nodes : m # n => dpc'[m] = dpc[m] /\ dproj'[m] = dproj[m]
    BY <1>2 DEF Inv, TypeOK
  <2>2. dpc'[n] = "idle" \/ (dpc'[n] = "call" /\ dproj'[n] = dproj[n])
    BY <1>2 DEF Inv, TypeOK
  <2>3. DropLeavesTrace'
    BY <1>1, <1>a DEF Inv, Withdrawn, DropLeavesTrace
  <2>4. \A p \in Projects : cloud[p] = "none" => row'[p] = "absent"
    BY <1>a DEF Inv, Withdrawn
  <2> QED BY <1>1, <1>a, <2>1, <2>2, <2>3, <2>4 DEF Inv, Withdrawn
<1>7. TimeoutTruthful'
  BY <1>1, <1>2, <1>3 DEF Inv, TypeOK, TimeoutTruthful, Owned, Configured
<1> QED BY <1>3, <1>4, <1>5, <1>6, <1>7 DEF Inv

LEMMA CallDeleteInv ==
    ASSUME Inv, NEW n \in Nodes, CallDelete(n)
    PROVE  Inv'
<1>1. UNCHANGED <<ops, endpoint, name, row, timeout, recent, seq, createRec, deleteRec, pc,
                  num, proj, want, dproj>>
  BY DEF CallDelete, MainGoto, MainReturn, Remove, providerVars, tableVars, recordVars, jobVars, mainVars
<1>2. /\ dpc[n] = "call"
      /\ \/ /\ cloud[dproj[n]] = "running" /\ cloud' = [cloud EXCEPT ![dproj[n]] = "gone"]
            /\ (dpc' = [dpc EXCEPT ![n] = "done"] \/ dpc' = [dpc EXCEPT ![n] = "undone"])
         \/ UNCHANGED cloud /\ dpc' = [dpc EXCEPT ![n] = "undone"]
  BY DEF CallDelete, MainGoto, MainReturn, Remove, providerVars, tableVars, recordVars, jobVars, mainVars
<1>a. /\ dproj[n] \in Projects /\ row[dproj[n]] = "deleted"
      /\ \A p \in Projects : cloud'[p] = cloud[p] \/ (p = dproj[n] /\ cloud[p] = "running" /\ cloud'[p] = "gone")
  BY <1>2 DEF Inv, TypeOK, Withdrawn
<1>3. TypeOK'
  BY <1>1, <1>2, StoreAssumption DEF Inv, TypeOK, JobSteps, MainSteps, Statuses
<1>4. Configured' /\ TimeoutTruthful'
  BY <1>1 DEF Inv, Configured, TimeoutTruthful
<1>5. Owned'
  BY <1>1, <1>a DEF Inv, Owned, TypeOK
<1>6. Named'
  BY <1>1, <1>2, <1>3 DEF Inv, TypeOK, Named, Spent, Number, NamesUnique
<1>7. Recorded'
  BY <1>1, <1>2, <1>3 DEF Inv, TypeOK, Recorded, EveryProjectRecorded, Number
<1>8. Withdrawn'
  <2>1. \A m \in Nodes : m # n => dpc'[m] = dpc[m]
    BY <1>2 DEF Inv, TypeOK
  <2>2. dpc'[n] = "undone" \/ (dpc'[n] = "done" /\ cloud'[dproj[n]] = "gone")
    BY <1>2, <1>a DEF Inv, TypeOK
  <2>3. DropLeavesTrace'
    BY <1>1, <1>a DEF Inv, Withdrawn, DropLeavesTrace
  <2> QED BY <1>1, <1>a, <2>1, <2>2, <2>3 DEF Inv, Withdrawn
<1> QED BY <1>3, <1>4, <1>5, <1>6, <1>7, <1>8 DEF Inv

LEMMA FinishDeleteInv ==
    ASSUME Inv, NEW n \in Nodes, FinishDelete(n)
    PROVE  Inv'
<1>1. UNCHANGED <<cloud, ops, endpoint, name, row, timeout, recent, seq, createRec, pc, num,
                  proj, want>>
  BY DEF FinishDelete, MainGoto, MainReturn, providerVars, tableVars, recordVars, jobVars, mainVars
<1>2. /\ dpc[n] \in {"done", "undone"}
      /\ \/ deleteRec' = [deleteRec EXCEPT ![<<n, dproj[n]>>] = IF dpc[n] = "done" THEN "ok" ELSE "failed"]
         \/ UNCHANGED deleteRec
      /\ dpc' = [dpc EXCEPT ![n] = "idle"] /\ dproj' = [dproj EXCEPT ![n] = None]
  BY DEF FinishDelete, MainGoto, MainReturn, providerVars, tableVars, recordVars, jobVars, mainVars
<1>a. /\ dproj[n] \in Projects
      /\ dpc[n] = "done" => cloud[dproj[n]] = "gone"
      /\ \A m \in Nodes, p \in Projects :
            \/ deleteRec'[<<m, p>>] = deleteRec[<<m, p>>]
            \/ m = n /\ p = dproj[n] /\ dpc[n] = "done" /\ deleteRec'[<<m, p>>] = "ok"
            \/ m = n /\ p = dproj[n] /\ deleteRec'[<<m, p>>] = "failed"
  BY <1>2 DEF Inv, TypeOK, Withdrawn
<1>3. TypeOK'
  <2>1. deleteRec' \in [Nodes \X Projects -> Statuses]
    BY <1>2 DEF Inv, TypeOK, Statuses, Withdrawn
  <2>2. dpc' \in [Nodes -> MainSteps] /\ dproj' \in [Nodes -> Projects \cup {None}]
    BY <1>2 DEF Inv, TypeOK, MainSteps
  <2> QED BY <1>1, <2>1, <2>2 DEF Inv, TypeOK
<1>4. Owned' /\ Configured' /\ Named' /\ Recorded' /\ TimeoutTruthful'
  BY <1>1 DEF Inv, Owned, Configured, Named, Spent, Number, NamesUnique, Recorded, EveryProjectRecorded,
     Number, TimeoutTruthful
<1>5. Withdrawn'
  <2>1. \A m \in Nodes : m # n => dpc'[m] = dpc[m] /\ dproj'[m] = dproj[m]
    BY <1>2 DEF Inv, TypeOK
  <2>2. dpc'[n] = "idle"
    BY <1>2 DEF Inv, TypeOK
  <2>3. DropLeavesTrace'
    BY <1>1, <1>a DEF Inv, Withdrawn, DropLeavesTrace
  <2>4. \A m \in Nodes : dpc'[m] = "drop" => deleteRec'[<<m, dproj'[m]>>] = "unfinished"
    BY <1>a, <2>1, <2>2 DEF Inv, Withdrawn
  <2>5. \A m \in Nodes, p \in Projects : deleteRec'[<<m, p>>] = "ok" => cloud[p] = "gone"
    <3>1. \A m \in Nodes, p \in Projects : deleteRec[<<m, p>>] = "ok" => cloud[p] = "gone"
      BY DEF Inv, Withdrawn
    <3> QED BY <1>a, <3>1
  <2> QED BY <1>1, <2>1, <2>2, <2>3, <2>4, <2>5 DEF Inv, Withdrawn
<1> QED BY <1>3, <1>4, <1>5 DEF Inv

LEMMA DeleteFailsInv ==
    ASSUME Inv, NEW n \in Nodes, DeleteFails(n)
    PROVE  Inv'
<1>1. UNCHANGED <<cloud, ops, endpoint, name, row, timeout, recent, seq, createRec, deleteRec,
                  pc, num, proj, want>>
  BY DEF DeleteFails, MainGoto, MainReturn, providerVars, tableVars, recordVars, jobVars, mainVars
<1>2. dpc' = [dpc EXCEPT ![n] = "idle"] /\ dproj' = [dproj EXCEPT ![n] = None]
  BY DEF DeleteFails, MainGoto, MainReturn, providerVars, tableVars, recordVars, jobVars, mainVars
<1>3. TypeOK'
  BY <1>1, <1>2, StoreAssumption DEF Inv, TypeOK, JobSteps, MainSteps, Statuses
<1>4. Owned' /\ Configured' /\ Named' /\ Recorded' /\ TimeoutTruthful'
  BY <1>1 DEF Inv, Owned, Configured, Named, Spent, Number, NamesUnique, Recorded, EveryProjectRecorded,
     Number, TimeoutTruthful
<1>5. Withdrawn'
  <2>1. \A m \in Nodes : m # n => dpc'[m] = dpc[m] /\ dproj'[m] = dproj[m]
    BY <1>2 DEF Inv, TypeOK
  <2>2. dpc'[n] = "idle"
    BY <1>2 DEF Inv, TypeOK
  <2>3. DropLeavesTrace'
    BY <1>1 DEF Inv, Withdrawn, DropLeavesTrace
  <2>4. \A m \in Nodes : dpc'[m] = "drop" => deleteRec'[<<m, dproj'[m]>>] = "unfinished"
    BY <1>1, <2>1, <2>2 DEF Inv, Withdrawn
  <2>5. \A m \in Nodes, p \in Projects : deleteRec'[<<m, p>>] = "ok" => cloud'[p] = "gone"
    BY <1>1 DEF Inv, Withdrawn
  <2> QED BY <1>1, <2>1, <2>2, <2>3, <2>4, <2>5 DEF Inv, Withdrawn
<1> QED BY <1>3, <1>4, <1>5 DEF Inv

LEMMA CrashInv ==
    ASSUME Inv, NEW n \in Nodes, Crash(n)
    PROVE  Inv'
<1>1. UNCHANGED <<cloud, ops, endpoint, name, row, timeout, recent, seq, createRec, deleteRec>>
  BY DEF Crash, MainReturn, providerVars, tableVars, recordVars, jobVars, mainVars
<1>2. /\ pc' = [c \in Creators |-> IF Home[c] = n THEN "idle" ELSE pc[c]]
      /\ num' = [c \in Creators |-> IF Home[c] = n THEN 0 ELSE num[c]]
      /\ proj' = [c \in Creators |-> IF Home[c] = n THEN None ELSE proj[c]]
      /\ want' = [c \in Creators |-> IF Home[c] = n THEN Default ELSE want[c]]
      /\ dpc' = [dpc EXCEPT ![n] = "idle"] /\ dproj' = [dproj EXCEPT ![n] = None]
  BY DEF Crash, MainReturn, providerVars, tableVars, recordVars, jobVars, mainVars
<1>a. \A c \in Creators :
        \/ pc'[c] = "idle" /\ num'[c] = 0 /\ proj'[c] = None /\ want'[c] = Default
        \/ pc'[c] = pc[c] /\ num'[c] = num[c] /\ proj'[c] = proj[c] /\ want'[c] = want[c]
  BY <1>2
<1>3. TypeOK'
  <2>1. pc' \in [Creators -> JobSteps] /\ num' \in [Creators -> Numbers]
    BY <1>2, StoreAssumption DEF Inv, TypeOK, JobSteps, Numbers
  <2>2. proj' \in [Creators -> Projects \cup {None}] /\ want' \in [Creators -> Timeouts]
    BY <1>2, StoreAssumption DEF Inv, TypeOK
  <2>3. dpc' \in [Nodes -> MainSteps] /\ dproj' \in [Nodes -> Projects \cup {None}]
    BY <1>2 DEF Inv, TypeOK, MainSteps
  <2> QED BY <1>1, <2>1, <2>2, <2>3 DEF Inv, TypeOK
<1>4. TimeoutTruthful'
  BY <1>1 DEF Inv, TimeoutTruthful
<1>5. Owned'
  BY <1>1, <1>a DEF Inv, Owned
<1>6. Configured'
  BY <1>1, <1>a DEF Inv, Configured
<1>7. Named'
  BY <1>1, <1>a DEF Inv, Named, Spent, Number, NamesUnique
<1>8. Recorded'
  BY <1>1, <1>a DEF Inv, Recorded, EveryProjectRecorded, Number
<1>9. Withdrawn'
  <2>1. \A m \in Nodes : m # n => dpc'[m] = dpc[m] /\ dproj'[m] = dproj[m]
    BY <1>2 DEF Inv, TypeOK
  <2>2. dpc'[n] = "idle"
    BY <1>2 DEF Inv, TypeOK
  <2>3. DropLeavesTrace'
    BY <1>1 DEF Inv, Withdrawn, DropLeavesTrace
  <2>4. \A m \in Nodes : dpc'[m] = "drop" => deleteRec'[<<m, dproj'[m]>>] = "unfinished"
    BY <1>1, <2>1, <2>2 DEF Inv, Withdrawn
  <2>5. \A m \in Nodes, p \in Projects : deleteRec'[<<m, p>>] = "ok" => cloud'[p] = "gone"
    BY <1>1 DEF Inv, Withdrawn
  <2> QED BY <1>1, <2>1, <2>2, <2>3, <2>4, <2>5 DEF Inv, Withdrawn
<1> QED BY <1>3, <1>4, <1>5, <1>6, <1>7, <1>8, <1>9 DEF Inv

LEMMA OperationsFinishInv ==
    ASSUME Inv, NEW p \in Projects, OperationsFinish(p)
    PROVE  Inv'
<1>1. UNCHANGED <<cloud, endpoint, name, row, timeout, recent, seq, createRec, deleteRec, pc,
                  num, proj, want, dpc, dproj>>
  BY DEF OperationsFinish, providerVars, tableVars, recordVars, jobVars, mainVars
<1>2. ops[p] = "running" /\ \E s \in {"finished", "failed"} : ops' = [ops EXCEPT ![p] = s]
  BY DEF OperationsFinish, providerVars, tableVars, recordVars, jobVars, mainVars
<1>3. TypeOK'
  BY <1>1, <1>2, StoreAssumption DEF Inv, TypeOK, JobSteps, MainSteps, Statuses
<1>4. Owned' /\ Named' /\ Recorded' /\ TimeoutTruthful'
  BY <1>1 DEF Inv, Owned, Named, Spent, Number, NamesUnique, Recorded, EveryProjectRecorded, Number,
     TimeoutTruthful
<1>5. Withdrawn'
  BY <1>1 DEF Inv, Withdrawn, DropLeavesTrace
<1>6. Configured'
  BY <1>1, <1>2, <1>3 DEF Inv, TypeOK, Configured, Owned
<1> QED BY <1>3, <1>4, <1>5, <1>6 DEF Inv

LEMMA IntervalPassesInv ==
    ASSUME Inv, IntervalPasses
    PROVE  Inv'
<1>1. UNCHANGED <<cloud, ops, endpoint, name, row, timeout, seq, createRec, deleteRec, pc,
                  num, proj, want, dpc, dproj>>
  BY DEF IntervalPasses, providerVars, tableVars, recordVars, jobVars, mainVars
<1>2. recent' = FALSE
  BY DEF IntervalPasses, providerVars, tableVars, recordVars, jobVars, mainVars
<1>3. TypeOK'
  BY <1>1, <1>2, StoreAssumption DEF Inv, TypeOK, JobSteps, MainSteps, Statuses
<1>4. Owned' /\ Configured' /\ Named' /\ Recorded' /\ TimeoutTruthful'
  BY <1>1 DEF Inv, Owned, Configured, Named, Spent, Number, NamesUnique, Recorded, EveryProjectRecorded,
     Number, TimeoutTruthful
<1>5. Withdrawn'
  BY <1>1 DEF Inv, Withdrawn, DropLeavesTrace
<1> QED BY <1>3, <1>4, <1>5 DEF Inv

-----------------------------------------------------------------------------
(* The invariant *)

LEMMA NextInv == Inv /\ [Next]_vars => Inv'
<1> SUFFICES ASSUME Inv, [Next]_vars PROVE Inv'
  OBVIOUS
<1>1. ASSUME NEW c \in Creators, CreateStep(c)
      PROVE  Inv'
  BY <1>1, FindLastInv, NextNumberInv, SaveCreateInv, CallCreateInv, FinishCreateInv,
     PostCreateInv, PollOperationsInv, UpdateEndpointInv, InsertRowInv, CreateFailsInv
     DEF CreateStep
<1>2. ASSUME NEW n \in Nodes, DeleteStep(n) \/ Crash(n)
      PROVE  Inv'
  BY <1>2, StartDeleteInv, SaveDeleteInv, DropRowInv, CallDeleteInv, FinishDeleteInv,
     DeleteFailsInv, CrashInv DEF DeleteStep
<1>3. CASE IntervalPasses \/ \E p \in Projects : OperationsFinish(p)
  BY <1>3, IntervalPassesInv, OperationsFinishInv
<1>4. CASE UNCHANGED vars
  <2>1. UNCHANGED <<cloud, ops, endpoint, name, row, timeout, recent, seq, createRec, deleteRec,
                    pc, num, proj, want, dpc, dproj>>
    BY <1>4 DEF vars, providerVars, tableVars, recordVars, jobVars, mainVars
  <2>2. TypeOK' /\ Owned' /\ Configured' /\ Named' /\ Recorded' /\ TimeoutTruthful'
    BY <2>1 DEF Inv, TypeOK, Owned, Configured, Named, Spent, Number, NamesUnique, Recorded,
                EveryProjectRecorded, TimeoutTruthful
  <2>3. Withdrawn'
    BY <2>1 DEF Inv, Withdrawn, DropLeavesTrace
  <2> QED BY <2>2, <2>3 DEF Inv
<1> QED BY <1>1, <1>2, <1>3, <1>4 DEF Next

LEMMA Inductive == Spec => []Inv
BY InitInv, NextInv, PTL DEF Spec

\* The variables keep their types.
THEOREM StoreTyped == Spec => []TypeOK
<1>1. Inv => TypeOK
  BY DEF Inv
<1> QED BY <1>1, Inductive, PTL

\* A live row has a running project behind it, whatever fails, is lost or crashes:
\* createProject writes the row last and deleteProject withdraws it first.
THEOREM LiveBacked == Spec => []LiveIsBacked
<1>1. Inv => LiveIsBacked
  <2> SUFFICES ASSUME Inv, NEW p \in Projects, row[p] = "live"
               PROVE  cloud[p] = "running"
    BY DEF LiveIsBacked
  <2>1. cloud[p] # "none" /\ cloud[p] # "gone"
    BY DEF Inv, Withdrawn
  <2> QED BY <2>1 DEF Inv, TypeOK
<1> QED BY <1>1, Inductive, PTL

\* A withdrawn project that still exists has an unfinished or failed delete_project
\* query on record: deleteProject saves the query before anything else.
THEOREM DropTraced == Spec => []DropLeavesTrace
<1>1. Inv => DropLeavesTrace
  BY DEF Inv, Withdrawn
<1> QED BY <1>1, Inductive, PTL

\* A project at the provider has its CreateProject query on record: queryAPI saves
\* the query before it calls.
THEOREM ProjectsRecorded == Spec => []EveryProjectRecorded
<1>1. Inv => EveryProjectRecorded
  BY DEF Inv, Recorded
<1> QED BY <1>1, Inductive, PTL

\* No name is given twice: the sequence is advanced in the database before a name
\* is made from it.
THEOREM NamesAreUnique == Spec => []NamesUnique
<1>1. Inv => NamesUnique
  BY DEF Inv, Named
<1> QED BY <1>1, Inductive, PTL

\* The timeout of a live row is its endpoint's: postCreate has made them equal
\* before the row is inserted, and every error on the way returns.
THEOREM TimeoutsTruthful == Spec => []TimeoutTruthful
<1>1. Inv => TimeoutTruthful
  BY DEF Inv
<1> QED BY <1>1, Inductive, PTL

-----------------------------------------------------------------------------
(* The interval between creations *)

\* A job that is under way has found no recent row.
Spaced == \A c \in Creators : pc[c] # "idle" => ~recent

\* What create_project.go:114 takes for granted: an execution of the rule finds the
\* job of the one before at its end.
OneAtATime == \A c, d \in Creators : pc[c] # "idle" /\ pc[d] # "idle" => c = d

\* As long as creation jobs do not overlap, no row follows another within the
\* interval, over any crashes and lost answers.  Jobs that overlap break it: the
\* run store_overlap shows two.
THEOREM CreationIsSpaced == Spec /\ []OneAtATime => CreationSpaced
<1>1. Init => Spaced
  BY DEF Init, Spaced
<1>2. Inv /\ Spaced /\ OneAtATime /\ [Next]_vars => Spaced'
  <2> SUFFICES ASSUME Inv, Spaced, OneAtATime, [Next]_vars PROVE Spaced'
    OBVIOUS
  <2>1. ASSUME NEW c \in Creators, InsertRow(c)
        PROVE  Spaced'
    <3>1. pc[c] = "insert" /\ pc'[c] = "idle" /\ \A d \in Creators : d # c => pc'[d] = pc[d]
      BY <2>1 DEF InsertRow, Return, Goto, Inv, TypeOK
    <3>2. \A d \in Creators : d # c => pc[d] = "idle"
      BY <3>1 DEF OneAtATime
    <3> QED BY <3>1, <3>2 DEF Spaced
  <2>2. ASSUME NEW c \in Creators, FindLast(c)
        PROVE  Spaced'
    BY <2>2 DEF FindLast, tableVars, Spaced
  <2>3. ASSUME NEW c \in Creators, CreateStep(c), pc[c] # "idle", UNCHANGED recent
        PROVE  Spaced'
    BY <2>3 DEF Spaced
  <2>4. ASSUME NEW n \in Nodes, Crash(n)
        PROVE  Spaced'
    BY <2>4 DEF Crash, tableVars, Spaced
  <2>5. CASE IntervalPasses
    BY <2>5 DEF IntervalPasses, Spaced
  <2>6. ASSUME UNCHANGED <<pc, recent>>
        PROVE  Spaced'
    BY <2>6 DEF Spaced
  <2>7. ASSUME NEW c \in Creators, CreateStep(c), ~InsertRow(c), ~FindLast(c)
        PROVE  pc[c] # "idle" /\ UNCHANGED recent
    BY <2>7 DEF CreateStep, NextNumber, SaveCreate, CallCreate, FinishCreate, PostCreate,
       PollOperations, UpdateEndpoint, CreateFails, tableVars
  <2>8. ASSUME NEW n \in Nodes, DeleteStep(n)
        PROVE  UNCHANGED <<pc, recent>>
    BY <2>8 DEF DeleteStep, StartDelete, SaveDelete, DropRow, CallDelete, FinishDelete,
       DeleteFails, tableVars, jobVars
  <2>9. ASSUME NEW p \in Projects, OperationsFinish(p)
        PROVE  UNCHANGED <<pc, recent>>
    BY <2>9 DEF OperationsFinish, tableVars, jobVars
  <2>10. CASE UNCHANGED vars
    BY <2>6, <2>10 DEF vars, tableVars, jobVars
  <2> QED BY <2>1, <2>2, <2>3, <2>4, <2>5, <2>6, <2>7, <2>8, <2>9, <2>10 DEF Next
<1>3. Inv /\ Spaced /\ [Next]_vars =>
          [\A p \in Projects : row[p] = "absent" /\ row'[p] = "live" => ~recent]_vars
  <2> SUFFICES ASSUME Inv, Spaced, Next, NEW p \in Projects, row[p] = "absent", row'[p] = "live"
               PROVE  ~recent
    OBVIOUS
  <2>1. PICK c \in Creators : InsertRow(c)
    <3>1. ASSUME NEW c \in Creators, CreateStep(c), ~InsertRow(c) PROVE UNCHANGED row
      BY <3>1 DEF CreateStep, FindLast, NextNumber, SaveCreate, CallCreate, FinishCreate,
         PostCreate, PollOperations, UpdateEndpoint, CreateFails, tableVars
    <3>2. ASSUME NEW n \in Nodes, DeleteStep(n), ~DropRow(n) PROVE UNCHANGED row
      BY <3>2 DEF DeleteStep, StartDelete, SaveDelete, CallDelete, FinishDelete, DeleteFails, tableVars
    <3>3. ASSUME NEW n \in Nodes, DropRow(n) PROVE row'[p] # "live"
      BY <3>3 DEF DropRow, Inv, TypeOK
    <3>4. ASSUME NEW n \in Nodes, Crash(n) PROVE UNCHANGED row
      BY <3>4 DEF Crash, tableVars
    <3>5. ASSUME IntervalPasses \/ \E q \in Projects : OperationsFinish(q) PROVE UNCHANGED row
      BY <3>5 DEF IntervalPasses, OperationsFinish, tableVars
    <3> QED BY <3>1, <3>2, <3>3, <3>4, <3>5 DEF Next
  <2> QED BY <2>1 DEF InsertRow, Spaced
<1> QED BY <1>1, <1>2, <1>3, Inductive, PTL DEF Spec, CreationSpaced

\* One job, as executeForRegion starts for its region, cannot overlap itself.
COROLLARY OneJobSpacesCreation ==
    ASSUME \A c, d \in Creators : c = d
    PROVE  Spec => CreationSpaced
<1>1. OneAtATime
  BY DEF OneAtATime
<1> QED BY <1>1, CreationIsSpaced, PTL

-----------------------------------------------------------------------------
(* The life of a project *)

\* What a step may do to the stores the rules and the provider read.
Progress ==
    \/ UNCHANGED <<cloud, row>>
    \/ \E p \in Projects :
          \/ /\ cloud[p] = "none" /\ row[p] = "absent"
             /\ cloud' = [cloud EXCEPT ![p] = "running"] /\ row' = row
          \/ /\ cloud[p] = "running" /\ row[p] = "absent"
             /\ row' = [row EXCEPT ![p] = "live"] /\ cloud' = cloud
          \/ /\ row[p] # "absent"
             /\ row' = [row EXCEPT ![p] = "deleted"] /\ cloud' = cloud
          \/ /\ cloud[p] = "running" /\ row[p] = "deleted"
             /\ cloud' = [cloud EXCEPT ![p] = "gone"] /\ row' = row

LEMMA StepsProgress == Inv /\ [Next]_vars => Progress
<1> SUFFICES ASSUME Inv, [Next]_vars PROVE Progress
  OBVIOUS
<1>1. ASSUME NEW c \in Creators, CallCreate(c) PROVE Progress
  <2>1. row' = row
    BY <1>1 DEF CallCreate, tableVars
  <2>2. \/ cloud' = cloud
        \/ \E p \in Projects : cloud[p] = "none" /\ cloud' = [cloud EXCEPT ![p] = "running"]
    BY <1>1 DEF CallCreate, Provision, providerVars
  <2> QED BY <2>1, <2>2 DEF Progress, Inv, Withdrawn
<1>2. ASSUME NEW c \in Creators, InsertRow(c) PROVE Progress
  <2>1. row' = [row EXCEPT ![proj[c]] = "live"] /\ cloud' = cloud /\ pc[c] = "insert"
    BY <1>2 DEF InsertRow, providerVars
  <2>2. proj[c] \in Projects /\ cloud[proj[c]] = "running" /\ row[proj[c]] = "absent"
    BY <2>1 DEF Inv, TypeOK, Owned
  <2> QED BY <2>1, <2>2 DEF Progress
<1>3. ASSUME NEW n \in Nodes, DropRow(n) PROVE Progress
  <2>1. row' = [row EXCEPT ![dproj[n]] = "deleted"] /\ cloud' = cloud /\ dpc[n] = "drop"
    BY <1>3 DEF DropRow, providerVars
  <2>2. dproj[n] \in Projects /\ row[dproj[n]] # "absent"
    BY <2>1 DEF Inv, Withdrawn
  <2> QED BY <2>1, <2>2 DEF Progress
<1>4. ASSUME NEW n \in Nodes, CallDelete(n) PROVE Progress
  <2>1. /\ dpc[n] = "call" /\ row' = row
        /\ \/ cloud' = cloud
           \/ cloud[dproj[n]] = "running" /\ cloud' = [cloud EXCEPT ![dproj[n]] = "gone"]
    BY <1>4 DEF CallDelete, Remove, tableVars, providerVars
  <2>2. dproj[n] \in Projects /\ row[dproj[n]] = "deleted"
    BY <2>1 DEF Inv, Withdrawn
  <2> QED BY <2>1, <2>2 DEF Progress
<1>5. ASSUME NEW c \in Creators, CreateStep(c), ~CallCreate(c), ~InsertRow(c)
      PROVE  UNCHANGED <<cloud, row>>
  BY <1>5 DEF CreateStep, FindLast, NextNumber, SaveCreate, FinishCreate, PostCreate,
     PollOperations, UpdateEndpoint, Reconfigure, CreateFails, tableVars, providerVars
<1>6. ASSUME NEW n \in Nodes, DeleteStep(n) \/ Crash(n), ~DropRow(n), ~CallDelete(n)
      PROVE  UNCHANGED <<cloud, row>>
  BY <1>6 DEF DeleteStep, StartDelete, SaveDelete, FinishDelete, DeleteFails, Crash,
     tableVars, providerVars
<1>7. ASSUME IntervalPasses \/ (\E p \in Projects : OperationsFinish(p)) \/ UNCHANGED vars
      PROVE  UNCHANGED <<cloud, row>>
  BY <1>7 DEF IntervalPasses, OperationsFinish, vars, tableVars, providerVars
<1>8. UNCHANGED <<cloud, row>> => Progress
  BY DEF Progress
<1> QED BY <1>1, <1>2, <1>3, <1>4, <1>5, <1>6, <1>7, <1>8 DEF Next

StageOf(c, r) ==
    IF c = "none" THEN "none"
    ELSE IF c = "running" /\ r = "absent" THEN "provisioned"
    ELSE IF r = "live" THEN "live"
    ELSE IF c = "running" THEN "retiring" ELSE "gone"

LEMMA StageValue ==
    Inv => stage = [p \in Projects |-> StageOf(cloud[p], row[p])]
<1> SUFFICES ASSUME Inv, NEW p \in Projects
             PROVE  stage[p] = StageOf(cloud[p], row[p])
  BY DEF stage
<1>1. cloud[p] \in {"none", "running", "gone"} /\ row[p] \in {"absent", "live", "deleted"}
  BY DEF Inv, TypeOK
<1>2. cloud[p] = "none" => row[p] = "absent"
  BY DEF Inv, Withdrawn
<1> QED BY <1>1, <1>2 DEF stage, StageOf

\* Progress in either store is an advance of one project by one stage, or none.
LEMMA ProgressAdvances ==
    ASSUME Inv, Progress,
           stage = [p \in Projects |-> StageOf(cloud[p], row[p])],
           stage' = [p \in Projects |-> StageOf(cloud'[p], row'[p])]
    PROVE  [Lifecycle!Next]_stage
<1>1. CASE UNCHANGED <<cloud, row>>
  BY <1>1
<1>2. ASSUME NEW p \in Projects, NEW a, NEW b, stage[p] = a, stage' = [stage EXCEPT ![p] = b],
             \/ a = "none" /\ b = "provisioned"
             \/ a = "provisioned" /\ b = "live"
             \/ a = "live" /\ b = "retiring"
             \/ a = "retiring" /\ b = "gone"
      PROVE  Lifecycle!Next
  <2>1. /\ Lifecycle!Stages[1] = "none" /\ Lifecycle!Stages[2] = "provisioned"
        /\ Lifecycle!Stages[3] = "live" /\ Lifecycle!Stages[4] = "retiring"
        /\ Lifecycle!Stages[5] = "gone"
    BY DEF Lifecycle!Stages
  <2>2. \E i \in 1 .. 4 : a = Lifecycle!Stages[i] /\ b = Lifecycle!Stages[i + 1]
    <3>1. /\ 1 \in 1 .. 4 /\ 2 \in 1 .. 4 /\ 3 \in 1 .. 4 /\ 4 \in 1 .. 4
          /\ 1 + 1 = 2 /\ 2 + 1 = 3 /\ 3 + 1 = 4 /\ 4 + 1 = 5
      OBVIOUS
    <3> QED BY <1>2, <2>1, <3>1
  <2>3. PICK i \in 1 .. 4 : a = Lifecycle!Stages[i] /\ b = Lifecycle!Stages[i + 1]
    BY <2>2
  <2>4. stage[p] = Lifecycle!Stages[i]
    BY <1>2, <2>3
  <2>5. stage' = [stage EXCEPT ![p] = Lifecycle!Stages[i + 1]]
    BY <1>2, <2>3
  <2>6. Lifecycle!Advance(p)
    BY <2>4, <2>5 DEF Lifecycle!Advance
  <2> QED BY <2>6 DEF Lifecycle!Next
<1>3. ASSUME NEW p \in Projects, cloud[p] = "none", row[p] = "absent",
             cloud' = [cloud EXCEPT ![p] = "running"], row' = row
      PROVE  Lifecycle!Next
  <2>1. stage' = [stage EXCEPT ![p] = "provisioned"] /\ stage[p] = "none"
    BY <1>3 DEF Inv, TypeOK, StageOf
  <2> QED BY <2>1, <1>2
<1>4. ASSUME NEW p \in Projects, cloud[p] = "running", row[p] = "absent",
             row' = [row EXCEPT ![p] = "live"], cloud' = cloud
      PROVE  Lifecycle!Next
  <2>1. stage' = [stage EXCEPT ![p] = "live"] /\ stage[p] = "provisioned"
    BY <1>4 DEF Inv, TypeOK, StageOf
  <2> QED BY <2>1, <1>2
<1>5. ASSUME NEW p \in Projects, row[p] = "live",
             row' = [row EXCEPT ![p] = "deleted"], cloud' = cloud
      PROVE  Lifecycle!Next
  <2>1. cloud[p] = "running"
    BY <1>5 DEF Inv, TypeOK, Withdrawn
  <2>2. stage' = [stage EXCEPT ![p] = "retiring"] /\ stage[p] = "live"
    BY <1>5, <2>1 DEF Inv, TypeOK, StageOf
  <2> QED BY <2>2, <1>2
<1>6. ASSUME NEW p \in Projects, row[p] = "deleted",
             row' = [row EXCEPT ![p] = "deleted"], cloud' = cloud
      PROVE  UNCHANGED <<cloud, row>>
  BY <1>6 DEF Inv, TypeOK
<1>7. ASSUME NEW p \in Projects, cloud[p] = "running", row[p] = "deleted",
             cloud' = [cloud EXCEPT ![p] = "gone"], row' = row
      PROVE  Lifecycle!Next
  <2>1. stage' = [stage EXCEPT ![p] = "gone"] /\ stage[p] = "retiring"
    BY <1>7 DEF Inv, TypeOK, StageOf
  <2> QED BY <2>1, <1>2
<1>8. \A p \in Projects : row[p] # "absent" => row[p] \in {"live", "deleted"}
  BY DEF Inv, TypeOK
<1> QED BY <1>1, <1>3, <1>4, <1>5, <1>6, <1>7, <1>8 DEF Progress

\* create_project.go and delete_project.go together give every project the life of
\* ProjectLifecycle: no stage is skipped and none is gone back to.
THEOREM StoreImplementsLifecycle == Spec => LifecycleSpec
<1>1. Init => Lifecycle!Init
  BY DEF Init, stage, Lifecycle!Init
<1>2. (Inv => stage = [p \in Projects |-> StageOf(cloud[p], row[p])])'
  BY StageValue, PTL
<1>3. Inv /\ Inv' /\ [Next]_vars => [Lifecycle!Next]_stage
  BY <1>2, StageValue, StepsProgress, ProgressAdvances
<1> QED BY <1>1, <1>3, Inductive, PTL DEF Spec, LifecycleSpec, Lifecycle!Spec
====
