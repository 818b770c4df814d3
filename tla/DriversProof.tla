------------------------------ MODULE DriversProof ------------------------------
(***************************************************************************)
(* Proofs about Drivers for any number of queries, any calls and any       *)
(* weights.  The inductive invariant Inv says, for each place the job can  *)
(* be at, which queries are untouched, which have run and which are        *)
(* recorded; there is one lemma per action.                                *)
(***************************************************************************)
EXTENDS Drivers, FiniteSetTheorems, TLAPS

Over     == pc \in {"close", "done"}
Running  == pc \in {"send", "wait", "save", "saveBad"}
Early    == pc \in {"pick", "connect", "saveConnect"}
Known(q) == Recorded(q, "ok") \/ Recorded(q, "failed")

\* Where the job is, it has the driver for it; only a finished scenario ends well.
Stage ==
    /\ driver = "none" => pc = "pick" \/ (pc = "done" /\ err)
    /\ pc = "pick" => driver = "none"
    /\ pc \in {"connect", "saveConnect", "close"} => driver = "pgx"
    /\ Running => next <= N
    /\ pc = "saveBad" => driver = "vercel"
    /\ Early \/ driver = "none" =>
          log = <<>> /\ next = 1 /\ \A q \in 1 .. N : remote[q] = "unsent"
    /\ ~Over => ~err
    /\ Over /\ ~err => next = N + 1

\* Who holds a connection, and what the record of its attempt says.
Link ==
    /\ conn = "open" => driver = "pgx" /\ pc \notin {"pick", "connect"}
    /\ pc = "saveConnect" => \A r \in pend : r.q = 0 /\ (r.st = "failed" => conn # "open")
    /\ LeaksOnlyUnused

\* Nothing is said to be a success before it is one.
Truth ==
    /\ RecordsTruthful
    /\ pc = "save" => \A r \in pend : r.q \in 1 .. N /\ (r.st = "ok" => remote[r.q] = "ran")

\* No query after the current request has been sent, nor the request before Send.
Ahead ==
    /\ pc = "send" => \A q \in next .. N : remote[q] = "unsent"
    /\ Running => \A batch \in Request(next) : \A q \in next .. N :
                      q \notin batch => remote[q] = "unsent"

\* pgx and Serverless are done with all queries before the current one.
Serial ==
    driver # "vercel" =>
        /\ \A q \in 1 .. N : q < next => remote[q] = "ran" /\ Recorded(q, "ok")
        /\ \A q \in 1 .. N : next < q => remote[q] = "unsent"
        /\ pc = "save" => \A r \in pend : r.q = next

\* What is recorded lies behind the job; what is pending is not recorded.
Order ==
    /\ RecordedOnce
    /\ Running /\ ~(pc = "save" /\ driver = "vercel") =>
          \A q \in 0 .. N : Known(q) => q < next
    /\ Running /\ driver = "vercel" => ~Known(0)
    /\ pc = "save" /\ driver = "vercel" =>
          /\ \A e \in Ends, q \in 0 .. N : EndOfCall(next, e) /\ Known(q) => q <= e
          /\ \A r \in pend : next <= r.q /\ ~Known(r.q)
          /\ \A e \in Ends, r \in pend : EndOfCall(next, e) => r.q <= e
          /\ \A r, s \in pend : r.q = s.q => r = s

Inv == TypeOK /\ Stage /\ Link /\ Truth /\ Ahead /\ Serial /\ Order

-----------------------------------------------------------------------------
(* The log *)

\* An appended record is the only one that is new.
LEMMA Appended ==
    ASSUME TypeOK, NEW q \in 0 .. N, NEW st \in Results, Append1(q, st)
    PROVE  /\ log' \in Seq(Records)
           /\ \A p, s : Recorded(p, s)' <=> Recorded(p, s) \/ (p = q /\ s = st)
           /\ RecordedOnce /\ ~Known(q) => RecordedOnce'
<1> DEFINE r == [q |-> q, st |-> st]
<1>1. r \in Records /\ r.q = q /\ r.st = st
  BY DEF Records
<1>2. log \in Seq(Records)
  BY DEF TypeOK
<1>3. /\ log' \in Seq(Records) /\ Len(log') = Len(log) + 1 /\ Len(log) \in Nat
      /\ \A i \in 1 .. Len(log) : log'[i] = log[i]
      /\ log'[Len(log) + 1] = r
  BY <1>1, <1>2 DEF Append1
<1> HIDE DEF r
<1>4. ASSUME NEW p, NEW s PROVE Recorded(p, s)' <=> Recorded(p, s) \/ (p = q /\ s = st)
  <2> DEFINE t == [q |-> p, st |-> s]
  <2>1. t = r <=> p = q /\ s = st
    BY DEF r
  <2> HIDE DEF t
  <2>2. Recorded(p, s) <=> \E i \in 1 .. Len(log) : log[i] = t
    BY DEF Recorded, t
  <2>3. Recorded(p, s)' <=> \E i \in 1 .. Len(log') : log'[i] = t
    BY DEF Recorded, t
  <2>4. \A i \in 1 .. Len(log') : i \in 1 .. Len(log) \/ i = Len(log) + 1
    BY <1>3
  <2>5. \A i \in 1 .. Len(log) : i \in 1 .. Len(log')
    BY <1>3
  <2>6. Len(log) + 1 \in 1 .. Len(log')
    BY <1>3
  <2> QED BY <1>3, <2>1, <2>2, <2>3, <2>4, <2>5, <2>6
<1>5. ASSUME RecordedOnce, ~Known(q) PROVE RecordedOnce'
  <2>1. \A i \in 1 .. Len(log) : log[i].q # q
    <3> SUFFICES ASSUME NEW i \in 1 .. Len(log), log[i].q = q PROVE FALSE
      OBVIOUS
    <3>1. log[i] \in Records
      BY <1>2
    <3>2. log[i] = [q |-> q, st |-> log[i].st] /\ log[i].st \in Results
      BY <3>1 DEF Records
    <3> QED BY <3>2, <1>5 DEF Known, Recorded, Results
  <2>2. r.q = q
    BY <1>1 DEF r
  <2> QED BY <1>3, <1>5, <2>1, <2>2 DEF RecordedOnce
<1> QED BY <1>3, <1>4, <1>5

LEMMA SameLog ==
    ASSUME log' = log
    PROVE  /\ \A p, s : Recorded(p, s)' <=> Recorded(p, s)
           /\ RecordedOnce => RecordedOnce'
  BY DEF Recorded, RecordedOnce

\* One record more, or none.
LEMMA LogGrows ==
    ASSUME TypeOK, NEW q \in 0 .. N, NEW st \in Results, log' = log \/ Append1(q, st)
    PROVE  /\ log' \in Seq(Records)
           /\ \A p, s : Recorded(p, s) => Recorded(p, s)'
           /\ \A p, s : Recorded(p, s)' => Recorded(p, s) \/ (p = q /\ s = st)
           /\ Append1(q, st) => Recorded(q, st)'
           /\ RecordedOnce /\ ~Known(q) => RecordedOnce'
<1>1. CASE Append1(q, st)
  BY <1>1, Appended
<1>2. CASE log' = log /\ ~Append1(q, st)
  BY <1>2, SameLog DEF TypeOK
<1> QED BY <1>1, <1>2

LEMMA EmptyLog == log = <<>> => \A p, s : ~Recorded(p, s)
  BY DEF Recorded

\* Pick returns an item of the list.
LEMMA PickRange == ASSUME NEW w, NEW r PROVE Pick(w, r) \in 1 .. 3
<1> DEFINE hit == {i \in 1 .. 3 : Left(w, r)[i] < w[i]}
<1>1. CASE hit = {}
  BY <1>1 DEF Pick
<1>2. CASE hit # {}
  <2>1. \E x \in hit : \A y \in hit : x <= y
    <3>1. CASE 1 \in hit
      BY <3>1
    <3>2. CASE 1 \notin hit /\ 2 \in hit
      BY <3>2
    <3>3. CASE 1 \notin hit /\ 2 \notin hit
      BY <1>2, <3>3
    <3> QED BY <3>1, <3>2, <3>3
  <2> HIDE DEF hit
  <2>2. Min(hit) \in hit
    BY <2>1 DEF Min
  <2> QED BY <1>2, <2>2 DEF Pick, hit
<1> QED BY <1>1, <1>2

\* It is the first one that the roll falls into.
LEMMA PickIs ==
    ASSUME NEW w \in [1 .. 3 -> Nat], NEW r \in Nat
    PROVE  Pick(w, r) = IF r < w[1] THEN 1 ELSE IF r - w[1] < w[2] THEN 2 ELSE 3
<1> DEFINE hit == {i \in 1 .. 3 : Left(w, r)[i] < w[i]}
<1>1. /\ Left(w, r)[1] = r /\ Left(w, r)[2] = r - w[1] /\ Left(w, r)[3] = r - w[1] - w[2]
      /\ w[1] \in Nat /\ w[2] \in Nat /\ w[3] \in Nat
  BY DEF Left
<1>2. 1 \in hit <=> r < w[1]
  BY <1>1
<1>3. 2 \in hit <=> r - w[1] < w[2]
  BY <1>1
<1>4. hit \subseteq 1 .. 3
  OBVIOUS
<1> HIDE DEF hit
<1>5. Pick(w, r) = IF hit = {} THEN 3 ELSE Min(hit)
  BY DEF Pick, hit
<1>6. ASSUME NEW x \in hit, \A y \in hit : x <= y PROVE Min(hit) = x
  <2>1. \A y \in hit : (\A z \in hit : y <= z) => y = x
    BY <1>4, <1>6
  <2> QED BY <1>6, <2>1 DEF Min
<1>7. CASE 1 \in hit
  BY <1>2, <1>4, <1>5, <1>6, <1>7
<1>8. CASE 1 \notin hit /\ 2 \in hit
  BY <1>2, <1>3, <1>4, <1>5, <1>6, <1>8
<1>9. CASE 1 \notin hit /\ 2 \notin hit
  <2>1. hit = {} \/ hit = {3}
    <3>1. \A x \in hit : x = 3
      BY <1>4, <1>9
    <3> QED BY <3>1
  <2> QED BY <1>2, <1>3, <1>5, <1>6, <1>9, <2>1
<1> QED BY <1>7, <1>8, <1>9

\* A request to Vercel ends where its call ends.
LEMMA VercelRequest ==
    ASSUME driver = "vercel", NEW batch \in Request(next)
    PROVE  \E e \in Ends : EndOfCall(next, e) /\ batch = next .. e
  BY DEF Request

LEMMA InitInv == Init => Inv
<1> SUFFICES ASSUME Init PROVE Inv
  OBVIOUS
<1>1. \A p, s : ~Recorded(p, s)
  BY DEF Init, Recorded
<1>2. TypeOK
  <2>1. log \in Seq(Records) /\ next \in 1 .. N + 1
    BY DriversAssumption DEF Init
  <2> QED BY <2>1 DEF Init, TypeOK, Steps, Remote
<1>3. Stage /\ Link /\ Ahead
  BY <1>2 DEF Init, Stage, Link, Ahead, Over, Running, Early, LeaksOnlyUnused
<1>4. Truth /\ Serial /\ Order
  BY <1>1, DriversAssumption DEF Init, Truth, RecordsTruthful, Serial, Order, RecordedOnce, Known, Running
<1> QED BY <1>2, <1>3, <1>4 DEF Inv

-----------------------------------------------------------------------------
(* The steps *)

LEMMA PickDriverInv ==
    ASSUME Inv, PickDriver
    PROVE  Inv'
<1> USE DriversAssumption DEF Inv
<1>1. /\ \A p, s : Recorded(p, s)' <=> Recorded(p, s)
      /\ RecordedOnce => RecordedOnce'
  BY SameLog DEF PickDriver
<1>2. PICK r \in Rolls(weights) : driver' = Names[Pick(weights, r)]
  BY DEF PickDriver
<1>3. driver' \in Kinds
  BY <1>2, PickRange DEF Names, Kinds
<1>4. \A p, s : ~Recorded(p, s)
  BY EmptyLog DEF Stage, Early, PickDriver
<1>5. /\ pc = "pick" /\ pc' = IF driver' = "pgx" THEN "connect" ELSE "send"
      /\ UNCHANGED <<weights, next, err, conn, remote, pend, log>>
  BY DEF PickDriver
<1>6. TypeOK'
  BY <1>3, <1>5 DEF TypeOK, Steps
<1>7. Stage'
  BY <1>3, <1>5, <1>6 DEF TypeOK, Stage, Over, Running, Early, Kinds
<1>8. Link' /\ Truth'
  BY <1>1, <1>5 DEF Link, LeaksOnlyUnused, Stage, Truth, RecordsTruthful
<1>9. Ahead' /\ Serial'
  BY <1>5 DEF TypeOK, Stage, Ahead, Serial, Running, Early
<1>10. Order'
  BY <1>1, <1>4, <1>5 DEF Order, Known
<1> QED BY <1>6, <1>7, <1>8, <1>9, <1>10

LEMMA BadStringInv ==
    ASSUME Inv, BadString
    PROVE  Inv'
<1> USE DriversAssumption DEF Inv
<1>1. /\ \A p, s : Recorded(p, s)' <=> Recorded(p, s)
      /\ RecordedOnce => RecordedOnce'
  BY SameLog DEF BadString
<1>2. TypeOK'
  BY <1>1 DEF BadString, TypeOK, Steps, Kinds, Remote, Results, Records
<1>3. Stage'
  BY <1>1, <1>2 DEF BadString, TypeOK, Stage, Over, Running, Early
<1>4. Link'
  BY <1>1, <1>2 DEF BadString, TypeOK, Stage, Link, LeaksOnlyUnused, Running, Results, Records
<1>5. Truth'
  BY <1>1, <1>2 DEF BadString, TypeOK, Stage, Truth, RecordsTruthful, Running
<1>6. Ahead'
  BY <1>1, <1>2 DEF BadString, TypeOK, Stage, Ahead, Running, Request, EndOfCall
<1>7. Serial'
  BY <1>1, <1>2 DEF BadString, TypeOK, Stage, Serial, Running, Early
<1>8. Order'
  BY <1>1, <1>2 DEF BadString, TypeOK, Stage, Order, Known, Running, Early
<1> QED BY <1>2, <1>3, <1>4, <1>5, <1>6, <1>7, <1>8

LEMMA ConnectInv ==
    ASSUME Inv, Connect
    PROVE  Inv'
<1> USE DriversAssumption DEF Inv
<1>1. /\ \A p, s : Recorded(p, s)' <=> Recorded(p, s)
      /\ RecordedOnce => RecordedOnce'
  BY SameLog DEF Connect
<1>2. TypeOK'
  BY <1>1 DEF Connect, TypeOK, Steps, Kinds, Remote, Results, Records
<1>3. Stage'
  BY <1>1, <1>2 DEF Connect, TypeOK, Stage, Over, Running, Early
<1>4. Link'
  BY <1>1, <1>2 DEF Connect, TypeOK, Stage, Link, LeaksOnlyUnused, Running, Results, Records
<1>5. Truth'
  BY <1>1, <1>2 DEF Connect, TypeOK, Stage, Truth, RecordsTruthful, Running
<1>6. Ahead'
  BY <1>1, <1>2 DEF Connect, TypeOK, Stage, Ahead, Running, Request, EndOfCall
<1>7. Serial'
  BY <1>1, <1>2 DEF Connect, TypeOK, Stage, Serial, Running, Early
<1>8. Order'
  BY <1>1, <1>2 DEF Connect, TypeOK, Stage, Order, Known, Running, Early
<1> QED BY <1>2, <1>3, <1>4, <1>5, <1>6, <1>7, <1>8

LEMMA SaveConnectInv ==
    ASSUME Inv, SaveConnect
    PROVE  Inv'
<1> USE DriversAssumption DEF Inv
<1>1. PICK r \in pend :
         \/ Append1(0, r.st) /\ r.st = "ok" /\ pc' = "send" /\ UNCHANGED err
         \/ SaveFails(0, r.st) /\ pc' = "done" /\ err' = TRUE
  BY DEF SaveConnect
<1>2. r.st \in Results /\ r \in Records
  BY DEF TypeOK, Records
<1>3. /\ log' \in Seq(Records)
      /\ \A p, s : Recorded(p, s)' => Recorded(p, s) \/ (p = 0 /\ s = r.st)
      /\ RecordedOnce /\ ~Known(0) => RecordedOnce'
  <2>1. 0 \in 0 .. N /\ (log' = log \/ Append1(0, r.st))
    BY <1>1 DEF SaveFails
  <2> QED BY <1>2, <2>1, LogGrows
<1>4. /\ pc = "saveConnect" /\ pend' = {} /\ pc' \in {"send", "done"} /\ err' \in BOOLEAN
      /\ pc' = "done" => err'
      /\ pc' = "send" => ~err'
      /\ UNCHANGED <<weights, driver, next, conn, remote>>
  <2>1. pc = "saveConnect" /\ pend' = {} /\ UNCHANGED <<weights, driver, next, conn, remote>>
    BY DEF SaveConnect
  <2>2. err = FALSE
    BY <2>1 DEF Stage, Over, TypeOK
  <2>3. (pc' = "send" /\ err' = FALSE) \/ (pc' = "done" /\ err' = TRUE)
    BY <1>1, <2>2
  <2> QED BY <2>1, <2>3
<1>5. driver = "pgx" /\ next = 1 /\ log = <<>> /\ \A q \in 1 .. N : remote[q] = "unsent"
  BY <1>4 DEF Stage, Early
<1>6. \A p, s : ~Recorded(p, s)
  BY <1>5, EmptyLog
<1>7. pc' = "done" /\ conn = "open" => log' \in {<<>>, <<[q |-> 0, st |-> "ok"]>>}
  <2>1. conn = "open" => r.st = "ok"
    BY <1>2, <1>4 DEF Link, Results
  <2>2. pc' = "done" => log' = <<>> \/ log' = <<[q |-> 0, st |-> r.st]>>
    BY <1>1, <1>5 DEF SaveFails, Append1
  <2> QED BY <2>1, <2>2
<1>8. TypeOK'
  BY <1>3, <1>4 DEF TypeOK, Steps
<1>9. Stage' /\ Link'
  BY <1>4, <1>5, <1>7 DEF Stage, Link, LeaksOnlyUnused, Over, Running, Early
<1>10. Truth' /\ Ahead' /\ Serial'
  BY <1>3, <1>4, <1>5, <1>6 DEF Truth, RecordsTruthful, Ahead, Serial, Running
<1>11. Order'
  BY <1>3, <1>4, <1>5, <1>6 DEF Order, Known, Running
<1> QED BY <1>8, <1>9, <1>10, <1>11

LEMMA SendInv ==
    ASSUME Inv, Send
    PROVE  Inv'
<1> USE DriversAssumption DEF Inv
<1>1. /\ \A p, s : Recorded(p, s)' <=> Recorded(p, s)
      /\ RecordedOnce => RecordedOnce'
  BY SameLog DEF Send
<1>2. PICK batch \in Request(next) :
         remote' = [q \in 1 .. N |-> IF q \in batch THEN "sent" ELSE remote[q]]
  BY DEF Send
<1>3. pc = "send" /\ pc' = "wait" /\ UNCHANGED <<weights, driver, next, err, conn, pend, log>>
  BY DEF Send
<1>4. \A q \in batch : next <= q
  BY <1>2 DEF Request, TypeOK
<1>5. \A b \in Request(next) : b = batch
  <2> SUFFICES ASSUME NEW b \in Request(next) PROVE b = batch
    OBVIOUS
  <2>1. CASE driver = "vercel"
    <3>1. PICK e \in Ends, f \in Ends :
             EndOfCall(next, e) /\ batch = next .. e /\ EndOfCall(next, f) /\ b = next .. f
      BY <2>1, <1>2, VercelRequest
    <3> QED BY <3>1 DEF EndOfCall
  <2>2. CASE driver # "vercel"
    BY <2>2, <1>2 DEF Request
  <2> QED BY <2>1, <2>2
<1>6. /\ next \in 1 .. N
      /\ \A q \in 1 .. N : remote'[q] = IF q \in batch THEN "sent" ELSE remote[q]
      /\ \A q \in 1 .. N : q < next => remote'[q] = remote[q]
  BY <1>2, <1>3, <1>4 DEF TypeOK, Stage, Running
<1>7. TypeOK'
  BY <1>2, <1>3 DEF TypeOK, Steps, Remote
<1>8. Stage' /\ Link'
  BY <1>3 DEF Stage, Link, LeaksOnlyUnused, Over, Running, Early
<1>9. Truth'
  BY <1>1, <1>3, <1>6 DEF Truth, RecordsTruthful, Order, Known, Running
<1>10. Ahead'
  <2>1. Request(next)' = Request(next)
    BY <1>3 DEF Request
  <2> QED BY <1>3, <1>5, <1>6, <2>1 DEF Ahead
<1>11. Serial'
  <2>1. driver # "vercel" => batch = {next}
    BY <1>2 DEF Request
  <2> QED BY <1>1, <1>3, <1>6, <2>1 DEF Serial
<1>12. Order'
  BY <1>1, <1>3 DEF Order, Known, Running
<1> QED BY <1>7, <1>8, <1>9, <1>10, <1>11, <1>12

LEMMA GiveUpInv ==
    ASSUME Inv, GiveUp
    PROVE  Inv'
<1> USE DriversAssumption DEF Inv
<1>1. /\ \A p, s : Recorded(p, s)' <=> Recorded(p, s)
      /\ RecordedOnce => RecordedOnce'
  BY SameLog DEF GiveUp
<1>2. TypeOK'
  BY <1>1 DEF GiveUp, TypeOK, Steps, Kinds, Remote, Results, Records, Stop
<1>3. Stage'
  BY <1>1, <1>2 DEF GiveUp, TypeOK, Stage, Over, Running, Early, Stop
<1>4. Link'
  BY <1>1, <1>2 DEF GiveUp, TypeOK, Stage, Link, LeaksOnlyUnused, Running, Results, Records, Stop
<1>5. Truth'
  BY <1>1, <1>2 DEF GiveUp, TypeOK, Stage, Truth, RecordsTruthful, Running, Stop
<1>6. Ahead'
  BY <1>1, <1>2 DEF GiveUp, TypeOK, Stage, Ahead, Running, Request, EndOfCall, Stop
<1>7. Serial'
  BY <1>1, <1>2 DEF GiveUp, TypeOK, Stage, Serial, Running, Early, Stop
<1>8. Order'
  BY <1>1, <1>2 DEF GiveUp, TypeOK, Stage, Order, Known, Running, Early, Stop
<1> QED BY <1>2, <1>3, <1>4, <1>5, <1>6, <1>7, <1>8

LEMMA AnswerInv ==
    ASSUME Inv, Answer
    PROVE  Inv'
<1> USE DriversAssumption DEF Inv
<1>1. /\ \A p, s : Recorded(p, s)' <=> Recorded(p, s)
      /\ RecordedOnce => RecordedOnce'
  BY SameLog DEF Answer
<1>2. /\ pc = "wait" /\ driver # "vercel" /\ pc' = "save"
      /\ UNCHANGED <<weights, driver, next, err, conn, remote, log>>
  BY DEF Answer
<1>3. next \in 1 .. N /\ next \in 0 .. N
  BY <1>2 DEF TypeOK, Stage, Running
<1>4. PICK st \in Results :
         pend' = {[q |-> next, st |-> st]} /\ (st = "ok" => remote[next] = "ran")
  BY DEF Answer, Results
<1>5. [q |-> next, st |-> st] \in Records
  BY <1>3 DEF Records
<1>6. TypeOK'
  BY <1>2, <1>4, <1>5 DEF TypeOK, Steps
<1>7. Stage' /\ Link' /\ Ahead'
  BY <1>2 DEF Stage, Link, LeaksOnlyUnused, Ahead, Request, Over, Running, Early
<1>8. Truth' /\ Serial'
  BY <1>1, <1>2, <1>3, <1>4 DEF Truth, RecordsTruthful, Serial
<1>9. Order'
  BY <1>1, <1>2 DEF Order, Known, Running
<1> QED BY <1>6, <1>7, <1>8, <1>9

LEMMA SaveInv ==
    ASSUME Inv, Save
    PROVE  Inv'
<1> USE DriversAssumption DEF Inv
<1>1. PICK r \in pend :
         \/ Append1(r.q, r.st) /\ r.st = "ok" /\ Advance(next + 1)
         \/ SaveFails(r.q, r.st) /\ Stop(TRUE) /\ UNCHANGED next
  BY DEF Save
<1>2. /\ pc = "save" /\ driver # "vercel" /\ ~err /\ driver # "none"
      /\ UNCHANGED <<weights, driver, conn, remote>>
  BY DEF Save, Stage, Over
<1>3. /\ r.q = next /\ next \in 1 .. N /\ next \in 0 .. N /\ r.st \in Results
      /\ r.st = "ok" => remote[next] = "ran"
  BY <1>2 DEF TypeOK, Records, Stage, Running, Serial, Truth
<1>4. ~Known(r.q)
  BY <1>2, <1>3 DEF Order, Running
<1>5. /\ log' \in Seq(Records)
      /\ \A p, s : Recorded(p, s) => Recorded(p, s)'
      /\ \A p, s : Recorded(p, s)' => Recorded(p, s) \/ (p = r.q /\ s = r.st)
      /\ Append1(r.q, r.st) => Recorded(r.q, r.st)'
      /\ RecordedOnce'
  <2>1. log' = log \/ Append1(r.q, r.st)
    BY <1>1 DEF SaveFails
  <2>2. RecordedOnce /\ r.q \in 0 .. N
    BY <1>3 DEF Order
  <2> QED BY <1>3, <1>4, <2>1, <2>2, LogGrows
<1>6. CASE Stop(TRUE) /\ UNCHANGED next
  <2>1. /\ pc' \in {"close", "done"} /\ (pc' = "close" <=> driver = "pgx")
        /\ err' = TRUE /\ pend' = {}
    BY <1>6 DEF Stop
  <2>2. TypeOK'
    BY <1>2, <1>5, <1>6, <2>1 DEF TypeOK, Steps
  <2>3. Stage' /\ Link' /\ Ahead'
    BY <1>2, <1>6, <2>1 DEF Stage, Link, LeaksOnlyUnused, Ahead, Over, Running, Early
  <2>4. Truth' /\ Serial' /\ Order'
    BY <1>2, <1>3, <1>5, <1>6, <2>1 DEF Truth, RecordsTruthful, Serial, Order, Running
  <2> QED BY <2>2, <2>3, <2>4
<1>7. CASE r.st = "ok" /\ Append1(r.q, r.st) /\ Advance(next + 1)
  <2>1. /\ next' = next + 1 /\ pend' = {} /\ err' = FALSE
        /\ next + 1 > N => pc' \in {"close", "done"} /\ (pc' = "close" <=> driver = "pgx")
        /\ next + 1 <= N => pc' = "send"
    BY <1>2, <1>3, <1>7 DEF Advance, Stop
  <2>2. TypeOK'
    <3>1. next' \in 1 .. N + 1 /\ pc' \in Steps
      BY <1>3, <2>1 DEF Steps
    <3> QED BY <1>2, <1>5, <2>1, <3>1 DEF TypeOK
  <2>3. Stage' /\ Link'
    BY <1>2, <1>3, <2>1 DEF Stage, Link, LeaksOnlyUnused, Over, Running, Early
  <2>4. Truth'
    BY <1>2, <1>3, <1>5, <2>1 DEF Truth, RecordsTruthful
  <2>5. Serial'
    <3>1. Recorded(r.q, "ok")' /\ remote[r.q] = "ran"
      BY <1>3, <1>5, <1>7
    <3>2. ASSUME NEW q \in 1 .. N, q < next + 1 PROVE remote'[q] = "ran" /\ Recorded(q, "ok")'
      <4>1. CASE q < next
        BY <1>2, <1>5, <4>1 DEF Serial
      <4>2. CASE q = next
        BY <1>2, <1>3, <3>1, <4>2
      <4> QED BY <1>3, <3>2, <4>1, <4>2
    <3>3. \A q \in 1 .. N : next + 1 < q => remote'[q] = "unsent"
      BY <1>2, <1>3 DEF Serial
    <3> QED BY <1>2, <2>1, <3>2, <3>3 DEF Serial
  <2>6. Ahead'
    BY <1>2, <1>3, <2>1 DEF Ahead, Serial
  <2>7. Order'
    <3>1. \A q \in 0 .. N : Known(q)' => q < next + 1
      BY <1>2, <1>3, <1>5 DEF Known, Order, Running
    <3> QED BY <1>2, <1>5, <2>1, <3>1 DEF Order, Running
  <2> QED BY <2>2, <2>3, <2>4, <2>5, <2>6, <2>7
<1> QED BY <1>1, <1>6, <1>7

LEMMA AnswerLostInv ==
    ASSUME Inv, AnswerLost
    PROVE  Inv'
<1> USE DriversAssumption DEF Inv
<1>1. /\ \A p, s : Recorded(p, s)' <=> Recorded(p, s)
      /\ RecordedOnce => RecordedOnce'
  BY SameLog DEF AnswerLost
<1>2. TypeOK'
  BY <1>1 DEF AnswerLost, TypeOK, Steps, Kinds, Remote, Results, Records, Stop
<1>3. Stage'
  BY <1>1, <1>2 DEF AnswerLost, TypeOK, Stage, Over, Running, Early, Stop
<1>4. Link'
  BY <1>1, <1>2 DEF AnswerLost, TypeOK, Stage, Link, LeaksOnlyUnused, Running, Results, Records, Stop
<1>5. Truth'
  BY <1>1, <1>2 DEF AnswerLost, TypeOK, Stage, Truth, RecordsTruthful, Running, Stop
<1>6. Ahead'
  BY <1>1, <1>2 DEF AnswerLost, TypeOK, Stage, Ahead, Running, Request, EndOfCall, Stop
<1>7. Serial'
  BY <1>1, <1>2 DEF AnswerLost, TypeOK, Stage, Serial, Running, Early, Stop
<1>8. Order'
  BY <1>1, <1>2 DEF AnswerLost, TypeOK, Stage, Order, Known, Running, Early, Stop
<1> QED BY <1>2, <1>3, <1>4, <1>5, <1>6, <1>7, <1>8

LEMMA AnswerUnreadableInv ==
    ASSUME Inv, AnswerUnreadable
    PROVE  Inv'
<1> USE DriversAssumption DEF Inv
<1>1. /\ \A p, s : Recorded(p, s)' <=> Recorded(p, s)
      /\ RecordedOnce => RecordedOnce'
  BY SameLog DEF AnswerUnreadable
<1>2. TypeOK'
  BY <1>1 DEF AnswerUnreadable, TypeOK, Steps, Kinds, Remote, Results, Records
<1>3. Stage'
  BY <1>1, <1>2 DEF AnswerUnreadable, TypeOK, Stage, Over, Running, Early
<1>4. Link'
  BY <1>1, <1>2 DEF AnswerUnreadable, TypeOK, Stage, Link, LeaksOnlyUnused, Running, Results, Records
<1>5. Truth'
  BY <1>1, <1>2 DEF AnswerUnreadable, TypeOK, Stage, Truth, RecordsTruthful, Running
<1>6. Ahead'
  BY <1>1, <1>2 DEF AnswerUnreadable, TypeOK, Stage, Ahead, Running, Request, EndOfCall
<1>7. Serial'
  BY <1>1, <1>2 DEF AnswerUnreadable, TypeOK, Stage, Serial, Running, Early
<1>8. Order'
  BY <1>1, <1>2 DEF AnswerUnreadable, TypeOK, Stage, Order, Known, Running, Early
<1> QED BY <1>2, <1>3, <1>4, <1>5, <1>6, <1>7, <1>8

LEMMA SaveUnreadableInv ==
    ASSUME Inv, SaveUnreadable
    PROVE  Inv'
<1> USE DriversAssumption DEF Inv
<1>1. /\ pc = "saveBad" /\ driver = "vercel" /\ pc' = "done" /\ err' = TRUE /\ pend' = {}
      /\ UNCHANGED <<weights, driver, next, conn, remote>>
  BY DEF SaveUnreadable, Stop, Stage
<1>2. /\ log' \in Seq(Records)
      /\ \A p, s : Recorded(p, s)' => Recorded(p, s) \/ (p = 0 /\ s = "failed")
      /\ RecordedOnce /\ ~Known(0) => RecordedOnce'
  <2>1. 0 \in 0 .. N /\ "failed" \in Results
    BY DEF Results
  <2> QED BY <2>1, LogGrows DEF SaveUnreadable, SaveFails
<1>3. RecordedOnce'
  BY <1>1, <1>2 DEF Order, Running
<1>4. TypeOK'
  BY <1>1, <1>2 DEF TypeOK, Steps
<1>5. Stage' /\ Link' /\ Ahead' /\ Serial'
  BY <1>1 DEF Stage, Link, LeaksOnlyUnused, Ahead, Serial, Over, Running, Early
<1>6. Truth' /\ Order'
  BY <1>1, <1>2, <1>3 DEF Truth, RecordsTruthful, Order, Running
<1> QED BY <1>4, <1>5, <1>6

LEMMA AnswerBatchInv ==
    ASSUME Inv, AnswerBatch
    PROVE  Inv'
<1> USE DriversAssumption DEF Inv
<1>1. /\ \A p, s : Recorded(p, s)' <=> Recorded(p, s)
      /\ RecordedOnce => RecordedOnce'
  BY SameLog DEF AnswerBatch
<1>2. /\ pc = "wait" /\ driver = "vercel" /\ pc' = "save"
      /\ UNCHANGED <<weights, driver, next, err, conn, remote, log>>
  BY DEF AnswerBatch
<1>3. \A batch \in Request(next) : batch \subseteq next .. N /\ batch \subseteq 1 .. N
  BY <1>2, VercelRequest DEF TypeOK
<1>4. \A r \in pend' : /\ r.q \in next .. N /\ r.q \in 1 .. N
                       /\ r = [q |-> r.q, st |-> IF remote[r.q] = "ran" THEN "ok" ELSE "failed"]
  <2>1. CASE pend' = {}
    BY <2>1
  <2>2. ASSUME NEW batch \in Request(next),
               pend' = {[q |-> q, st |-> IF remote[q] = "ran" THEN "ok" ELSE "failed"] :
                        q \in {p \in batch : remote[p] # "lost"}}
        PROVE  \A r \in pend' :
                  /\ r.q \in next .. N /\ r.q \in 1 .. N
                  /\ r = [q |-> r.q, st |-> IF remote[r.q] = "ran" THEN "ok" ELSE "failed"]
    BY <1>3, <2>2
  <2> QED BY <2>1, <2>2 DEF AnswerBatch
<1>5. pend' \subseteq Records
  <2> SUFFICES ASSUME NEW r \in pend' PROVE r \in Records
    OBVIOUS
  <2>1. \A q \in 0 .. N, st \in Results : [q |-> q, st |-> st] \in Records
    BY DEF Records
  <2>2. r.q \in 0 .. N /\ (IF remote[r.q] = "ran" THEN "ok" ELSE "failed") \in Results
    BY <1>4 DEF Results
  <2> QED BY <1>4, <2>1, <2>2
<1>6. \A r \in pend' : r.st = "ok" => remote[r.q] = "ran"
  <2> SUFFICES ASSUME NEW r \in pend', r.st = "ok", remote[r.q] # "ran" PROVE FALSE
    OBVIOUS
  <2>1. r = [q |-> r.q, st |-> "failed"]
    BY <1>4
  <2>2. r.st = "failed"
    BY <2>1
  <2> QED BY <2>2
<1>7. \A r, s \in pend' : r.q = s.q => r = s
  <2> SUFFICES ASSUME NEW r \in pend', NEW s \in pend', r.q = s.q PROVE r = s
    OBVIOUS
  <2> DEFINE rec(q) == [q |-> q, st |-> IF remote[q] = "ran" THEN "ok" ELSE "failed"]
  <2>1. r = rec(r.q) /\ s = rec(s.q)
    BY <1>4
  <2> HIDE DEF rec
  <2> QED BY <2>1
<1>8. TypeOK'
  BY <1>2, <1>5 DEF TypeOK, Steps
<1>9. Stage' /\ Link' /\ Ahead' /\ Serial'
  BY <1>2 DEF Stage, Link, LeaksOnlyUnused, Ahead, Request, Serial, Over, Running, Early
<1>10. Truth'
  BY <1>1, <1>2, <1>4, <1>6 DEF Truth, RecordsTruthful
<1>11. Order'
  <2>1. \A q \in 0 .. N : Known(q) => q < next
    BY <1>2 DEF Order, Running
  <2>2. \A q : Known(q)' <=> Known(q)
    BY <1>1 DEF Known
  <2>3. \A r \in pend' : next <= r.q /\ ~Known(r.q)
    BY <1>4, <2>1 DEF TypeOK
  <2>4. \A e \in Ends, q \in 0 .. N : EndOfCall(next, e) /\ Known(q) => q <= e
    BY <2>1 DEF EndOfCall, TypeOK
  <2>5. \A q, e : EndOfCall(next, e)' <=> EndOfCall(next, e)
    BY <1>2 DEF EndOfCall
  <2>6. \A e \in Ends, r \in pend' : EndOfCall(next, e) => r.q <= e
    <3> SUFFICES ASSUME NEW e \in Ends, NEW r \in pend', EndOfCall(next, e) PROVE r.q <= e
      OBVIOUS
    <3>1. PICK batch \in Request(next) : r.q \in batch
      BY DEF AnswerBatch
    <3>2. PICK f \in Ends : EndOfCall(next, f) /\ batch = next .. f
      BY <1>2, VercelRequest
    <3>3. f <= e
      BY <3>2 DEF EndOfCall
    <3> QED BY <3>1, <3>2, <3>3 DEF TypeOK
  <2> QED BY <1>1, <1>2, <1>7, <2>2, <2>3, <2>4, <2>5, <2>6 DEF Order, Running
<1> QED BY <1>8, <1>9, <1>10, <1>11

LEMMA SaveBatchInv ==
    ASSUME Inv, SaveBatch
    PROVE  Inv'
<1> USE DriversAssumption DEF Inv
<1>1. PICK r \in pend :
         \/ Append1(r.q, r.st) /\ pend' = pend \ {r} /\ UNCHANGED <<pc, err>>
         \/ SaveFails(r.q, r.st) /\ Stop(TRUE)
  BY DEF SaveBatch
<1>2. /\ pc = "save" /\ driver = "vercel"
      /\ UNCHANGED <<weights, driver, next, conn, remote>>
  BY DEF SaveBatch
<1>3. /\ r.q \in 0 .. N /\ r.st \in Results /\ r.q \in 1 .. N /\ next <= r.q /\ ~Known(r.q)
      /\ r.st = "ok" => remote[r.q] = "ran"
  BY <1>2 DEF TypeOK, Records, Truth, Order
<1>4. /\ log' \in Seq(Records)
      /\ \A p, s : Recorded(p, s)' => Recorded(p, s) \/ (p = r.q /\ s = r.st)
      /\ RecordedOnce'
  BY <1>1, <1>3, LogGrows DEF Order, SaveFails
<1>5. /\ pend' \subseteq pend /\ pc' \in {"save", "done"} /\ err' \in BOOLEAN
      /\ pc' = "done" => err' = TRUE /\ pend' = {}
      /\ pc' = "save" => err' = FALSE /\ pend' = pend \ {r}
  <2>1. err = FALSE
    BY <1>2 DEF Stage, Over, TypeOK
  <2>2. CASE pend' = pend \ {r} /\ UNCHANGED <<pc, err>>
    BY <1>2, <2>1, <2>2
  <2>3. CASE Stop(TRUE)
    BY <1>2, <2>3 DEF Stop
  <2> QED BY <1>1, <2>2, <2>3
<1>6. TypeOK'
  BY <1>2, <1>4, <1>5 DEF TypeOK, Steps
<1>7. Stage' /\ Link' /\ Ahead' /\ Serial'
  BY <1>2, <1>5 DEF Stage, Link, LeaksOnlyUnused, Ahead, Request, Serial, Over, Running, Early
<1>8. Truth'
  BY <1>2, <1>3, <1>4, <1>5 DEF Truth, RecordsTruthful
<1>9. Order'
  <2>1. ~Known(0)' /\ \A q : Known(q)' => Known(q) \/ q = r.q
    BY <1>2, <1>3, <1>4 DEF Known, Order, Running
  <2>2. CASE pc' = "done"
    BY <1>4, <2>2 DEF Order, Running
  <2>3. CASE pc' = "save"
    <3>1. \A s \in pend' : s \in pend /\ s # r
      BY <1>5, <2>3
    <3>2. \A s \in pend' : next <= s.q /\ ~Known(s.q)'
      BY <1>2, <2>1, <3>1 DEF Order
    <3>3. \A e \in Ends : EndOfCall(next, e) => r.q <= e
      BY <1>2, <1>3 DEF Order
    <3>4. \A q, e : EndOfCall(next, e)' <=> EndOfCall(next, e)
      BY <1>2 DEF EndOfCall
    <3> QED BY <1>2, <1>4, <2>1, <2>3, <3>1, <3>2, <3>3, <3>4 DEF Order, Running
  <2> QED BY <1>5, <2>2, <2>3
<1> QED BY <1>6, <1>7, <1>8, <1>9

LEMMA BatchSavedInv ==
    ASSUME Inv, BatchSaved
    PROVE  Inv'
<1> USE DriversAssumption DEF Inv
<1>1. /\ \A p, s : Recorded(p, s)' <=> Recorded(p, s)
      /\ RecordedOnce => RecordedOnce'
  BY SameLog DEF BatchSaved
<1>2. PICK e \in Ends : EndOfCall(next, e) /\ Advance(e + 1)
  BY DEF BatchSaved
<1>3. /\ pc = "save" /\ driver = "vercel" /\ ~err /\ e \in 1 .. N /\ next <= e
      /\ UNCHANGED <<weights, driver, conn, remote, log>>
  BY <1>2 DEF BatchSaved, Stage, Over, EndOfCall
<1>4. /\ next' = e + 1 /\ pend' = {} /\ err' = FALSE
      /\ pc' \in {"done", "send"} /\ (pc' = "done" <=> e + 1 > N)
  BY <1>2, <1>3 DEF Advance, Stop
<1>5. TypeOK'
  <2>1. next' \in 1 .. N + 1
    BY <1>3, <1>4
  <2> QED BY <1>3, <1>4, <2>1 DEF TypeOK, Steps
<1>6. Stage' /\ Link' /\ Serial'
  BY <1>3, <1>4 DEF Stage, Link, LeaksOnlyUnused, Serial, Over, Running, Early
<1>7. Truth'
  BY <1>1, <1>3, <1>4 DEF Truth, RecordsTruthful
<1>8. Ahead'
  <2>1. next .. e \in Request(next)
    BY <1>2, <1>3 DEF Request
  <2>2. \A q \in e + 1 .. N : q \in next .. N /\ q \notin next .. e
    BY <1>3 DEF TypeOK
  <2>3. \A q \in next' .. N : remote'[q] = "unsent"
    BY <1>3, <1>4, <2>1, <2>2 DEF Ahead, Running
  <2> QED BY <2>3 DEF Ahead
<1>9. Order'
  <2>1. \A q \in 0 .. N : Known(q)' => q < next'
    BY <1>1, <1>2, <1>3, <1>4 DEF Order, Known
  <2> QED BY <1>1, <1>3, <1>4, <2>1 DEF Order, Known, Running
<1> QED BY <1>5, <1>6, <1>7, <1>8, <1>9

LEMMA CloseInv ==
    ASSUME Inv, Close
    PROVE  Inv'
<1> USE DriversAssumption DEF Inv
<1>1. /\ \A p, s : Recorded(p, s)' <=> Recorded(p, s)
      /\ RecordedOnce => RecordedOnce'
  BY SameLog DEF Close
<1>2. TypeOK'
  BY <1>1 DEF Close, TypeOK, Steps, Kinds, Remote, Results, Records
<1>3. Stage'
  BY <1>1, <1>2 DEF Close, TypeOK, Stage, Over, Running, Early
<1>4. Link'
  BY <1>1, <1>2 DEF Close, TypeOK, Stage, Link, LeaksOnlyUnused, Running, Results, Records
<1>5. Truth'
  BY <1>1, <1>2 DEF Close, TypeOK, Stage, Truth, RecordsTruthful, Running
<1>6. Ahead'
  BY <1>1, <1>2 DEF Close, TypeOK, Stage, Ahead, Running, Request, EndOfCall
<1>7. Serial'
  BY <1>1, <1>2 DEF Close, TypeOK, Stage, Serial, Running, Early
<1>8. Order'
  BY <1>1, <1>2 DEF Close, TypeOK, Stage, Order, Known, Running, Early
<1> QED BY <1>2, <1>3, <1>4, <1>5, <1>6, <1>7, <1>8

LEMMA CrashInv ==
    ASSUME Inv, Crash
    PROVE  Inv'
<1> USE DriversAssumption DEF Inv
<1>1. /\ \A p, s : Recorded(p, s)' <=> Recorded(p, s)
      /\ RecordedOnce => RecordedOnce'
  BY SameLog DEF Crash
<1>2. TypeOK'
  BY <1>1 DEF Crash, TypeOK, Steps, Kinds, Remote, Results, Records
<1>3. Stage'
  BY <1>1, <1>2 DEF Crash, TypeOK, Stage, Over, Running, Early
<1>4. Link'
  BY <1>1, <1>2 DEF Crash, TypeOK, Stage, Link, LeaksOnlyUnused, Running, Results, Records
<1>5. Truth'
  BY <1>1, <1>2 DEF Crash, TypeOK, Stage, Truth, RecordsTruthful, Running
<1>6. Ahead'
  BY <1>1, <1>2 DEF Crash, TypeOK, Stage, Ahead, Running, Request, EndOfCall
<1>7. Serial'
  BY <1>1, <1>2 DEF Crash, TypeOK, Stage, Serial, Running, Early
<1>8. Order'
  BY <1>1, <1>2 DEF Crash, TypeOK, Stage, Order, Known, Running, Early
<1> QED BY <1>2, <1>3, <1>4, <1>5, <1>6, <1>7, <1>8

LEMMA ResolveInv ==
    ASSUME Inv, NEW k \in 1 .. N, NEW res \in {"lost", "ran", "failed"}, Resolve(k, res)
    PROVE  Inv'
<1> USE DriversAssumption DEF Inv
<1>1. /\ \A p, s : Recorded(p, s)' <=> Recorded(p, s)
      /\ RecordedOnce => RecordedOnce'
  BY SameLog DEF Resolve, jobVars
<1>2. TypeOK'
  BY <1>1 DEF Resolve, TypeOK, Steps, Kinds, Remote, Results, Records, jobVars
<1>3. Stage'
  BY <1>1, <1>2 DEF Resolve, TypeOK, Stage, Over, Running, Early, jobVars
<1>4. Link'
  BY <1>1, <1>2 DEF Resolve, TypeOK, Stage, Link, LeaksOnlyUnused, Running, Results, Records, jobVars
<1>5. Truth'
  BY <1>1, <1>2 DEF Resolve, TypeOK, Stage, Truth, RecordsTruthful, Running, jobVars
<1>6. Ahead'
  <2>1. /\ remote[k] = "sent" /\ \A q \in 1 .. N : q # k => remote'[q] = remote[q]
        /\ UNCHANGED <<pc, next, driver>>
    BY DEF Resolve, jobVars, TypeOK
  <2>2. Request(next)' = Request(next)
    BY <2>1 DEF Request
  <2>3. \A q \in next .. N : q \in 1 .. N
    BY DEF TypeOK
  <2> QED BY <2>1, <2>2, <2>3 DEF Ahead, Running
<1>7. Serial'
  BY <1>1, <1>2 DEF Resolve, TypeOK, Stage, Serial, Running, Early, jobVars
<1>8. Order'
  BY <1>1, <1>2 DEF Resolve, TypeOK, Stage, Order, Known, Running, Early, jobVars
<1> QED BY <1>2, <1>3, <1>4, <1>5, <1>6, <1>7, <1>8

LEMMA NextInv == Inv /\ [Next]_vars => Inv'
<1> SUFFICES ASSUME Inv, [Next]_vars PROVE Inv'
  OBVIOUS
<1>1. CASE JobStep
  BY <1>1, PickDriverInv, BadStringInv, ConnectInv, SaveConnectInv, SendInv, GiveUpInv,
     AnswerInv, SaveInv, AnswerLostInv, AnswerUnreadableInv, SaveUnreadableInv,
     AnswerBatchInv, SaveBatchInv, BatchSavedInv, CloseInv, CrashInv DEF JobStep
<1>2. CASE \E q \in 1 .. N, s \in {"lost", "ran", "failed"} : Resolve(q, s)
  BY <1>2, ResolveInv
<1>3. CASE UNCHANGED vars
  <2>1. UNCHANGED <<weights, driver, pc, next, err, conn, pend, log, remote>>
    BY <1>3 DEF vars, jobVars
  <2>2. /\ \A p, s : Recorded(p, s)' <=> Recorded(p, s)
        /\ RecordedOnce => RecordedOnce'
    BY <2>1, SameLog
  <2>3. TypeOK' /\ Stage' /\ Link' /\ Ahead'
    BY <2>1 DEF Inv, TypeOK, Stage, Link, LeaksOnlyUnused, Ahead, Request, EndOfCall, Over, Running, Early
  <2>4. Truth' /\ Serial' /\ Order'
    BY <2>1, <2>2 DEF Inv, Truth, RecordsTruthful, Serial, Order, Known, EndOfCall, Running
  <2> QED BY <2>3, <2>4 DEF Inv
<1> QED BY <1>1, <1>2, <1>3 DEF Next

LEMMA Inductive == Spec => []Inv
  BY InitInv, NextInv, PTL DEF Spec

-----------------------------------------------------------------------------
(* What a batch of Vercel leaves behind *)

Batch(e) == {q \in 1 .. N : q <= e /\ \A d \in Ends : d < e => d < q}

Silent(e) == \A q \in Batch(e) : ~Known(q)

Whole(e) == \A q \in Batch(e) :
    /\ remote[q] # "sent"
    /\ remote[q] = "ran" => Recorded(q, "ok")
    /\ remote[q] = "failed" => Recorded(q, "failed")

\* The same, with the records that are still to be saved.
WillBeWhole(e) == \A q \in Batch(e) :
    /\ remote[q] # "sent"
    /\ remote[q] = "ran" => Recorded(q, "ok") \/ [q |-> q, st |-> "ok"] \in pend
    /\ remote[q] = "failed" => Recorded(q, "failed") \/ [q |-> q, st |-> "failed"] \in pend

\* The calls before the current one are settled, the current one is about to be.
Settled ==
    driver = "vercel" /\ ~err =>
        /\ next = 1 \/ next - 1 \in Ends
        /\ \A e \in Ends : e < next => Silent(e) \/ Whole(e)
        /\ pc = "save" => \A e \in Ends : EndOfCall(next, e) =>
              (pend = {} /\ Silent(e)) \/ WillBeWhole(e)

\* The current request is the batch of its call.
LEMMA BatchIs ==
    ASSUME TypeOK, next = 1 \/ next - 1 \in Ends, NEW e \in Ends, EndOfCall(next, e)
    PROVE  Batch(e) = next .. e
<1>1. e \in 1 .. N /\ next \in 1 .. N + 1 /\ Ends \subseteq 1 .. N /\ N \in Nat
  BY DriversAssumption DEF TypeOK
<1>2. ASSUME NEW q \in Batch(e) PROVE q \in next .. e
  BY <1>1, <1>2 DEF Batch, EndOfCall
<1>3. ASSUME NEW q \in next .. e PROVE q \in Batch(e)
  BY <1>1, <1>3 DEF Batch, EndOfCall
<1> QED BY <1>2, <1>3

\* Steps that leave the queries and records of a settled call alone.
LEMMA StaysSettled ==
    ASSUME TypeOK, NEW e \in Ends, e < next, Silent(e) \/ Whole(e),
           \A q \in 1 .. N : q < next /\ remote[q] # "sent" => remote'[q] = remote[q],
           \A p, s : Recorded(p, s) => Recorded(p, s)',
           \A p, s : Recorded(p, s)' => Recorded(p, s) \/ next <= p
    PROVE  Silent(e)' \/ Whole(e)'
<1>1. \A q \in Batch(e) : q \in 1 .. N /\ q < next /\ ~(next <= q)
  BY DriversAssumption DEF Batch, TypeOK
<1>2. Batch(e)' = Batch(e)
  BY DEF Batch
<1>3. CASE Silent(e)
  <2>1. \A q \in Batch(e) : ~Known(q)'
    BY <1>1, <1>3 DEF Silent, Known
  <2> QED BY <1>2, <2>1 DEF Silent
<1>4. CASE Whole(e)
  <2>1. \A q \in Batch(e) :
           /\ remote'[q] # "sent"
           /\ remote'[q] = "ran" => Recorded(q, "ok")'
           /\ remote'[q] = "failed" => Recorded(q, "failed")'
    BY <1>1, <1>4 DEF Whole
  <2> QED BY <1>2, <2>1 DEF Whole
<1> QED BY <1>3, <1>4

LEMMA SettledNext == Inv /\ Settled /\ [Next]_vars => Settled'
<1> SUFFICES ASSUME Inv, Settled, [Next]_vars, driver' = "vercel", ~err' PROVE Settled'
  BY DEF Settled
<1> USE DriversAssumption DEF Inv
<1>1. Inv'
  BY NextInv
<1>2. CASE PickDriver
  <2>1. next' = 1 /\ pc' # "save" /\ \A e \in Ends : ~(e < next')
    BY <1>2 DEF PickDriver, Stage, Early, TypeOK
  <2> QED BY <2>1 DEF Settled
<1>3. CASE Send
  <2>1. PICK batch \in Request(next) :
           remote' = [q \in 1 .. N |-> IF q \in batch THEN "sent" ELSE remote[q]]
    BY <1>3 DEF Send
  <2>2. \A q \in batch : ~(q < next)
    BY <2>1 DEF Request, TypeOK
  <2>3. \A q \in 1 .. N : q < next => remote'[q] = remote[q]
    BY <2>1, <2>2
  <2>4. /\ driver = "vercel" /\ ~err /\ next' = next /\ pc' = "wait"
        /\ \A p, s : Recorded(p, s)' <=> Recorded(p, s)
    BY <1>3, SameLog DEF Send
  <2>5. \A e \in Ends : e < next => Silent(e)' \/ Whole(e)'
    BY <2>3, <2>4, StaysSettled DEF Settled
  <2> QED BY <2>4, <2>5 DEF Settled
<1>4. CASE AnswerBatch
  <2>1. /\ driver = "vercel" /\ ~err /\ pc' = "save" /\ UNCHANGED <<next, remote>> /\ pc = "wait"
        /\ \A p, s : Recorded(p, s)' <=> Recorded(p, s)
    BY <1>4, SameLog DEF AnswerBatch
  <2>2. \A e \in Ends : e < next => Silent(e)' \/ Whole(e)'
    BY <2>1, StaysSettled DEF Settled
  <2>3. ASSUME NEW e \in Ends, EndOfCall(next, e)
        PROVE  (pend' = {} /\ Silent(e)') \/ WillBeWhole(e)'
    <3>1. Batch(e) = next .. e /\ Batch(e)' = Batch(e)
      BY <2>1, <2>3, BatchIs DEF Settled, Batch
    <3>2. CASE pend' = {}
      <4>1. \A q \in Batch(e) : q \in 0 .. N /\ ~(q < next)
        BY <3>1 DEF TypeOK
      <4>2. \A q \in Batch(e) : ~Known(q)'
        BY <2>1, <4>1 DEF Order, Running, Known
      <4> QED BY <3>1, <3>2, <4>2 DEF Silent
    <3>3. CASE \E batch \in Request(next) :
             /\ \A q \in batch : remote[q] # "sent"
             /\ pend' = {[q |-> q, st |-> IF remote[q] = "ran" THEN "ok" ELSE "failed"] :
                         q \in {p \in batch : remote[p] # "lost"}}
      <4>1. PICK batch \in Request(next) :
               /\ \A q \in batch : remote[q] # "sent"
               /\ pend' = {[q |-> q, st |-> IF remote[q] = "ran" THEN "ok" ELSE "failed"] :
                           q \in {p \in batch : remote[p] # "lost"}}
        BY <3>3
      <4>2. batch = Batch(e)
        <5>1. PICK f \in Ends : EndOfCall(next, f) /\ batch = next .. f
          BY <2>1, VercelRequest
        <5>2. f = e
          BY <2>3, <5>1 DEF EndOfCall
        <5> QED BY <3>1, <5>1, <5>2
      <4>3. \A q \in Batch(e) :
               /\ remote'[q] # "sent"
               /\ remote'[q] = "ran" => [q |-> q, st |-> "ok"] \in pend'
               /\ remote'[q] = "failed" => [q |-> q, st |-> "failed"] \in pend'
        BY <2>1, <4>1, <4>2
      <4> QED BY <3>1, <4>3 DEF WillBeWhole
    <3> QED BY <1>4, <3>2, <3>3 DEF AnswerBatch
  <2>4. \A e : EndOfCall(next, e)' <=> EndOfCall(next, e)
    BY <2>1 DEF EndOfCall
  <2> QED BY <2>1, <2>2, <2>3, <2>4 DEF Settled
<1>5. CASE SaveBatch
  <2>1. PICK r \in pend :
           \/ Append1(r.q, r.st) /\ pend' = pend \ {r} /\ UNCHANGED <<pc, err>>
           \/ SaveFails(r.q, r.st) /\ Stop(TRUE)
    BY <1>5 DEF SaveBatch
  <2>2. /\ driver = "vercel" /\ pc = "save" /\ UNCHANGED <<next, remote>>
        /\ Append1(r.q, r.st) /\ pend' = pend \ {r} /\ UNCHANGED <<pc, err>>
    BY <1>5, <2>1 DEF SaveBatch, Stop
  <2>3. /\ r \in Records /\ r.q \in 0 .. N /\ r.st \in Results /\ next <= r.q
        /\ r = [q |-> r.q, st |-> r.st]
    BY <2>1, <2>2 DEF TypeOK, Records, Order
  <2>4. /\ \A p, s : Recorded(p, s)' <=> Recorded(p, s) \/ (p = r.q /\ s = r.st)
    BY <2>2, <2>3, Appended
  <2>5. \A e \in Ends : e < next => Silent(e)' \/ Whole(e)'
    BY <2>2, <2>3, <2>4, StaysSettled DEF Settled
  <2>6. ASSUME NEW e \in Ends, EndOfCall(next, e) PROVE WillBeWhole(e)'
    <3>1. WillBeWhole(e) /\ Batch(e)' = Batch(e)
      BY <2>1, <2>2, <2>6 DEF Settled, Batch
    <3>2. \A q : [q |-> q, st |-> "ok"] \in pend => [q |-> q, st |-> "ok"] \in pend' \/ Recorded(q, "ok")'
      BY <2>2, <2>3, <2>4
    <3>3. \A q : [q |-> q, st |-> "failed"] \in pend =>
                    [q |-> q, st |-> "failed"] \in pend' \/ Recorded(q, "failed")'
      BY <2>2, <2>3, <2>4
    <3> QED BY <2>2, <2>4, <3>1, <3>2, <3>3 DEF WillBeWhole
  <2>7. \A e : EndOfCall(next, e)' <=> EndOfCall(next, e)
    BY <2>2 DEF EndOfCall
  <2> QED BY <2>2, <2>5, <2>6, <2>7 DEF Settled
<1>6. CASE BatchSaved
  <2>1. PICK f \in Ends : EndOfCall(next, f) /\ Advance(f + 1)
    BY <1>6 DEF BatchSaved
  <2>2. /\ driver = "vercel" /\ pc = "save" /\ pend = {} /\ ~err /\ UNCHANGED remote
        /\ next' = f + 1 /\ pc' # "save"
        /\ \A p, s : Recorded(p, s)' <=> Recorded(p, s)
    BY <1>6, <2>1, SameLog DEF BatchSaved, Advance, Stop, Stage, Over
  <2>3. ASSUME NEW e \in Ends, e < f + 1 PROVE Silent(e)' \/ Whole(e)'
    <3>1. CASE e < next
      BY <2>2, <3>1, StaysSettled DEF Settled
    <3>2. CASE next <= e
      <4>1. e = f
        BY <2>1, <2>3, <3>2 DEF EndOfCall
      <4>2. Silent(f) \/ WillBeWhole(f)
        BY <2>1, <2>2 DEF Settled
      <4>3. Batch(f)' = Batch(f)
        BY DEF Batch
      <4>4. Silent(f) => Silent(f)'
        BY <2>2, <4>3 DEF Silent, Known
      <4>5. WillBeWhole(f) => Whole(f)'
        BY <2>2, <4>3 DEF WillBeWhole, Whole
      <4> QED BY <4>1, <4>2, <4>4, <4>5
    <3> QED BY <3>1, <3>2 DEF TypeOK
  <2>4. next' - 1 \in Ends
    BY <2>1, <2>2
  <2> QED BY <2>2, <2>3, <2>4 DEF Settled
<1>7. ASSUME NEW k \in 1 .. N, NEW res \in {"lost", "ran", "failed"}, Resolve(k, res)
      PROVE  Settled'
  <2>1. /\ UNCHANGED <<driver, pc, next, err, pend, log>>
        /\ \A q \in 1 .. N : remote[q] # "sent" => remote'[q] = remote[q]
    BY <1>7 DEF Resolve, jobVars, TypeOK
  <2>2. \A p, s : Recorded(p, s)' <=> Recorded(p, s)
    BY <2>1, SameLog
  <2>3. \A e \in Ends : e < next => Silent(e)' \/ Whole(e)'
    BY <2>1, <2>2, StaysSettled DEF Settled
  <2>4. \A e : (EndOfCall(next, e)' <=> EndOfCall(next, e)) /\ Batch(e)' = Batch(e)
    BY <2>1 DEF EndOfCall, Batch
  <2>5. \A e \in Ends : (Silent(e) => Silent(e)') /\ (WillBeWhole(e) => WillBeWhole(e)')
    <3> SUFFICES ASSUME NEW e \in Ends
                 PROVE  (Silent(e) => Silent(e)') /\ (WillBeWhole(e) => WillBeWhole(e)')
      OBVIOUS
    <3>1. \A q \in Batch(e) : q \in 1 .. N
      BY DEF Batch
    <3> QED BY <2>1, <2>2, <2>4, <3>1 DEF Silent, Known, WillBeWhole
  <2> QED BY <2>1, <2>3, <2>4, <2>5 DEF Settled
<1>8. CASE Connect \/ SaveConnect \/ Answer \/ Save \/ Close
  <2>1. driver' = driver /\ driver # "vercel"
    BY <1>8 DEF Connect, SaveConnect, Answer, Save, Close, Stage
  <2> QED BY <2>1
<1>9. CASE BadString \/ GiveUp \/ AnswerLost \/ SaveUnreadable
  BY <1>9 DEF BadString, GiveUp, AnswerLost, SaveUnreadable, Stop
<1>10. CASE AnswerUnreadable \/ Crash \/ UNCHANGED vars
  <2>1. CASE AnswerUnreadable \/ UNCHANGED vars
    <3>1. /\ UNCHANGED <<driver, next, err, remote, log>>
          /\ pc' # "save" \/ UNCHANGED <<pc, pend>>
      BY <2>1 DEF AnswerUnreadable, vars, jobVars
    <3>2. \A p, s : Recorded(p, s)' <=> Recorded(p, s)
      BY <3>1, SameLog
    <3>3. \A e : /\ EndOfCall(next, e)' <=> EndOfCall(next, e)
                 /\ Silent(e)' <=> Silent(e)
                 /\ Whole(e)' <=> Whole(e)
      BY <3>1, <3>2 DEF EndOfCall, Silent, Whole, Known, Batch
    <3>4. UNCHANGED pend => \A e : WillBeWhole(e)' <=> WillBeWhole(e)
      BY <3>1, <3>2 DEF WillBeWhole, Batch
    <3> QED BY <3>1, <3>3, <3>4 DEF Settled
  <2>2. CASE Crash
    BY <2>2 DEF Crash, Stage
  <2> QED BY <1>10, <2>1, <2>2
<1> QED BY <1>2, <1>3, <1>4, <1>5, <1>6, <1>7, <1>8, <1>9, <1>10 DEF Next, JobStep

-----------------------------------------------------------------------------
(* The theorems *)

\* The state of a job stays within its types.
THEOREM DriversTyped == Spec => []TypeOK
<1>1. Inv => TypeOK
  BY DEF Inv
<1> QED BY Inductive, <1>1, PTL

\* SuccessIsComplete: pgx and Serverless return no error only after every query of
\* the scenario has run and is recorded as a success.
THEOREM SuccessComplete == Spec => []SuccessIsComplete
<1>1. Inv => SuccessIsComplete
  <2> SUFFICES ASSUME Inv, Succeeded, driver # "vercel"
               PROVE  \A q \in 1 .. N : remote[q] = "ran" /\ Recorded(q, "ok")
    BY DEF SuccessIsComplete
  <2>1. next = N + 1
    BY DEF Inv, Stage, Succeeded, Over
  <2> QED BY <2>1, DriversAssumption DEF Inv, Serial
<1> QED BY Inductive, <1>1, PTL

\* RecordsTruthful: a record of a success is never false, whichever driver wrote it.
THEOREM LogTruthful == Spec => []RecordsTruthful
<1>1. Inv => RecordsTruthful
  BY DEF Inv, Truth
<1> QED BY Inductive, <1>1, PTL

\* LeaksOnlyUnused: a connection nobody closes has run no query, and its job ended
\* with an error when it saved the record of the connect.
THEOREM LeaksBounded == Spec => []LeaksOnlyUnused
<1>1. Inv => LeaksOnlyUnused
  BY DEF Inv, Link
<1> QED BY Inductive, <1>1, PTL

\* InOrder: no query, and no attempt to connect, has two records; pgx and Serverless
\* run no query before the one it builds on.
THEOREM RunsInOrder == Spec => []InOrder
<1>1. Inv => InOrder
  <2> SUFFICES ASSUME Inv, driver # "vercel", NEW p \in 1 .. N, NEW q \in 1 .. N,
                      p < q, remote[q] = "ran"
               PROVE  remote[p] = "ran"
    BY DEF InOrder, Inv, Order
  <2>1. ~(next < q) /\ next \in Int
    BY DEF Inv, Serial, TypeOK
  <2>2. p < next
    BY <2>1
  <2> QED BY <2>2 DEF Inv, Serial
<1> QED BY Inductive, <1>1, PTL

\* BatchesWhole: a call to Vercel that returned no error hides all or nothing.
THEOREM BatchesAreWhole == Spec => []BatchesWhole
<1>1. Init => Settled
  BY DEF Init, Settled
<1>2. Inv /\ Settled => BatchesWhole
  <2> SUFFICES ASSUME Inv, Settled, Succeeded, driver = "vercel", NEW e \in Ends
               PROVE  Silent(e) \/ Whole(e)
    BY DEF BatchesWhole, Silent, Whole, Batch, Known, Results
  <2>1. next = N + 1 /\ ~err
    BY DEF Inv, Stage, Succeeded, Over
  <2>2. e < N + 1
    BY DriversAssumption
  <2> QED BY <2>1, <2>2 DEF Settled
<1> QED BY Inductive, SettledNext, <1>1, <1>2, PTL DEF Spec

\* Proportional: of the equally likely rolls, each driver owns as many as its
\* weight says.
THEOREM PickProportional == Spec => []Proportional
<1>1. ASSUME NEW w \in [1 .. 3 -> Nat], NEW i \in 1 .. 3, Total(w) > 0
      PROVE  Cardinality({r \in Rolls(w) : Pick(w, r) = i}) = w[i]
  <2> DEFINE lo == IF i = 1 THEN 0 ELSE IF i = 2 THEN w[1] ELSE w[1] + w[2]
  <2>1. w[1] \in Nat /\ w[2] \in Nat /\ w[3] \in Nat /\ w[i] \in Nat /\ lo \in Nat
    OBVIOUS
  <2>2. Rolls(w) = 0 .. w[1] + w[2] + w[3] - 1
    BY <1>1, <2>1 DEF Rolls, Total
  <2>3. ASSUME NEW r \in Rolls(w) PROVE Pick(w, r) = i <=> r \in lo .. lo + w[i] - 1
    <3>1. r \in Nat /\ r < w[1] + w[2] + w[3]
      BY <2>1, <2>2
    <3>2. Pick(w, r) = IF r < w[1] THEN 1 ELSE IF r - w[1] < w[2] THEN 2 ELSE 3
      BY <3>1, PickIs
    <3>3. CASE i = 1
      BY <2>1, <3>1, <3>2, <3>3
    <3>4. CASE i = 2
      BY <2>1, <3>1, <3>2, <3>4
    <3>5. CASE i = 3
      BY <2>1, <3>1, <3>2, <3>5
    <3> QED BY <3>3, <3>4, <3>5
  <2>4. {r \in Rolls(w) : Pick(w, r) = i} = lo .. lo + w[i] - 1
    BY <2>1, <2>2, <2>3
  <2> HIDE DEF lo
  <2>5. \A a, b \in Int : Cardinality(a .. b) = IF a > b THEN 0 ELSE b - a + 1
    BY FS_Interval
  <2> DEFINE hi == lo + w[i] - 1
  <2>6. lo \in Int /\ hi \in Int
    BY <2>1
  <2>7. hi = lo + w[i] - 1
    OBVIOUS
  <2> HIDE DEF hi
  <2>8. Cardinality(lo .. hi) = IF lo > hi THEN 0 ELSE hi - lo + 1
    BY <2>5, <2>6, Zenon
  <2>9. (IF lo > hi THEN 0 ELSE hi - lo + 1) = w[i]
    BY <2>1, <2>7
  <2>10. {r \in Rolls(w) : Pick(w, r) = i} = lo .. hi
    BY <2>4, <2>7
  <2> QED BY <2>8, <2>9, <2>10
<1>2. Inv => Proportional
  <2> SUFFICES ASSUME Inv, Total(weights) > 0, NEW i \in 1 .. 3
               PROVE  Cardinality({r \in Rolls(weights) : Pick(weights, r) = i}) = weights[i]
    BY DEF Proportional
  <2>1. weights \in [1 .. 3 -> Nat]
    BY DriversAssumption DEF Inv, TypeOK
  <2> QED BY <1>1, <2>1
<1> QED BY Inductive, <1>2, PTL

\* OutcomesSpec: a job does to the table of queries what ProjectRules lets it do.
THEOREM ImplementsOutcomes == Spec => OutcomesSpec
<1>1. Init => Outcomes!Init
  BY DEF Init, Outcomes!Init, phase
<1>2. Inv /\ [Next]_vars => [Outcomes!Next]_<<phase, err, log>>
  <2> SUFFICES ASSUME Inv, [Next]_vars PROVE [Outcomes!Next]_<<phase, err, log>>
    OBVIOUS
  <2> USE DEF phase, Outcomes!Next, Outcomes!Connect, Outcomes!Query, Outcomes!EndScenario,
          Outcomes!Save, Outcomes!Fail
  <2>1. CASE PickDriver \/ Connect \/ Send \/ Answer \/ AnswerUnreadable \/ AnswerBatch \/ Close
    BY <2>1 DEF PickDriver, Connect, Send, Answer, AnswerUnreadable, AnswerBatch, Close
  <2>2. CASE BadString \/ GiveUp \/ AnswerLost \/ Crash
    BY <2>2 DEF BadString, GiveUp, AnswerLost, Crash, Stop, Inv, TypeOK, Steps
  <2>3. CASE SaveConnect
    <3>1. PICK r \in pend :
             \/ Append1(0, r.st) /\ r.st = "ok" /\ pc' = "send" /\ UNCHANGED err
             \/ SaveFails(0, r.st) /\ pc' = "done" /\ err' = TRUE
      BY <2>3 DEF SaveConnect
    <3>2. r.st \in Results /\ pc = "saveConnect" /\ ~err /\ 0 \in 0 .. N
      BY <2>3, DriversAssumption DEF SaveConnect, Inv, TypeOK, Records, Stage, Over
    <3> QED BY <3>1, <3>2 DEF Append1, SaveFails, Results, Inv, TypeOK
  <2>4. CASE Save
    <3>1. PICK r \in pend :
             \/ Append1(r.q, r.st) /\ r.st = "ok" /\ Advance(next + 1)
             \/ SaveFails(r.q, r.st) /\ Stop(TRUE) /\ UNCHANGED next
      BY <2>4 DEF Save
    <3>2. r.st \in Results /\ r.q \in 0 .. N /\ pc = "save" /\ err = FALSE
      BY <2>4 DEF Save, Inv, TypeOK, Records, Stage, Over
    <3> QED BY <2>4, <3>1, <3>2 DEF Append1, SaveFails, Results, Save, Advance, Stop
  <2>5. CASE SaveUnreadable
    <3>1. pc = "saveBad" /\ 0 \in 0 .. N
      BY <2>5, DriversAssumption DEF SaveUnreadable
    <3> QED BY <2>5, <3>1 DEF SaveUnreadable, Append1, SaveFails, Stop
  <2>6. CASE SaveBatch
    <3>1. PICK r \in pend :
             \/ Append1(r.q, r.st) /\ pend' = pend \ {r} /\ UNCHANGED <<pc, err>>
             \/ SaveFails(r.q, r.st) /\ Stop(TRUE)
      BY <2>6 DEF SaveBatch
    <3>2. r.st \in Results /\ r.q \in 0 .. N /\ pc = "save"
      BY <2>6 DEF SaveBatch, Inv, TypeOK, Records
    <3> QED BY <3>1, <3>2 DEF Append1, SaveFails, Results, Stop
  <2>7. CASE BatchSaved
    <3>1. pc = "save" /\ err = FALSE /\ UNCHANGED log
      BY <2>7 DEF BatchSaved, Inv, TypeOK, Stage, Over
    <3> QED BY <2>7, <3>1 DEF BatchSaved, Advance, Stop
  <2>8. CASE \E q \in 1 .. N, s \in {"lost", "ran", "failed"} : Resolve(q, s)
    BY <2>8 DEF Resolve, jobVars
  <2>9. CASE UNCHANGED vars
    BY <2>9 DEF vars, jobVars
  <2> QED BY <2>1, <2>2, <2>3, <2>4, <2>5, <2>6, <2>7, <2>8, <2>9 DEF Next, JobStep
<1> QED BY Inductive, <1>1, <1>2, PTL DEF Spec, OutcomesSpec, Outcomes!Spec
=============================================================================
