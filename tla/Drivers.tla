-------------------------------- MODULE Drivers --------------------------------
(***************************************************************************)
(* One query job between the choice of its driver and its end:             *)
(*   internal/rules/query_project.go     randomDriver, the deferred Close  *)
(*   internal/rules/query_scenario.go    executeManyQueries                *)
(*   internal/drivers/pgx_conn.go        a connection, one query at a time *)
(*   internal/drivers/serverless.go      one HTTP request per query        *)
(*   internal/drivers/vercel_sl.go       one HTTP request per batch        *)
(*   internal/rdesc/wrand.go             the weighted choice               *)
(* Jobs share nothing here, so one is enough.  Queries are numbered in the *)
(* order of the scenario.  An answer may be late, lost or unreadable while *)
(* the query it is about has run, runs later, or never does.               *)
(***************************************************************************)
EXTENDS Integers, Sequences, FiniteSets, FiniteSetsExt

CONSTANTS N,          \* queries of the scenario
          Ends,       \* the last queries of its calls of executeManyQueries
          MaxWeight   \* bound: weights of the drivers in a rule

ASSUME DriversAssumption ==
    /\ N \in Nat \ {0} /\ MaxWeight \in Nat
    /\ Ends \subseteq 1 .. N /\ N \in Ends

Names   == <<"pgx", "serverless", "vercel">>   \* the last for all Vercel URLs
Kinds   == {"pgx", "serverless", "vercel"}
Results == {"ok", "failed"}
\* Query 0 is the connect of pgx, or an answer nobody could read.
Records == [q : 0 .. N, st : Results]
Remote  == {"unsent", "sent", "lost", "ran", "failed"}
Steps   == {"pick", "connect", "saveConnect", "send", "wait", "save", "saveBad",
            "close", "done"}

VARIABLES weights,    \* QueryProjectArgs.Driver
          driver, pc, next, err,
          conn,       \* the connection of pgx
          remote,     \* what became of each query
          pend,       \* records still to be saved
          log         \* queries table

jobVars == <<driver, pc, next, err, conn, pend, log>>
vars    == <<weights, jobVars, remote>>

TypeOK ==
    /\ weights \in [1 .. 3 -> 0 .. MaxWeight]
    /\ driver \in Kinds \cup {"none"}
    /\ pc \in Steps
    /\ next \in 1 .. N + 1
    /\ err \in BOOLEAN
    /\ conn \in {"none", "open", "closed"}
    /\ remote \in [1 .. N -> Remote]
    /\ pend \in SUBSET Records
    /\ log \in Seq(Records)

Init ==
    /\ weights \in [1 .. 3 -> 0 .. MaxWeight]
    /\ driver = "none" /\ pc = "pick" /\ next = 1 /\ err = FALSE
    /\ conn = "none"
    /\ remote = [q \in 1 .. N |-> "unsent"]
    /\ pend = {} /\ log = <<>>
-----------------------------------------------------------------------------
(* Wrand.Pick: r is rand.Float64() * sum (rounding is left out). *)

\* What is left of r when the loop comes to item i.
Left(w, r) == [i \in 1 .. 3 |->
    CASE i = 1 -> r [] i = 2 -> r - w[1] [] i = 3 -> r - w[1] - w[2]]

\* Mutant: <= in place of <.
PickLeq(w, r) ==
    LET hit == {i \in 1 .. 3 : Left(w, r)[i] <= w[i]}
    IN  IF hit = {} THEN 3 ELSE Min(hit)

\* The first item that r falls into, or the last one.
Pick(w, r) ==
    LET hit == {i \in 1 .. 3 : Left(w, r)[i] < w[i]}
    IN  IF hit = {} THEN 3 ELSE Min(hit)

Total(w) == w[1] + w[2] + w[3]
Rolls(w) == IF Total(w) = 0 THEN {0} ELSE 0 .. Total(w) - 1
-----------------------------------------------------------------------------
(* The job *)

\* Mutant: Close is only called when all went well.
StopLeaks(failed) ==
    /\ pc' = IF driver = "pgx" /\ ~failed THEN "close" ELSE "done"
    /\ err' = failed
    /\ pend' = {}

\* The scenario returns; a connection is closed by the deferred call.
Stop(failed) ==
    /\ pc' = IF driver = "pgx" THEN "close" ELSE "done"
    /\ err' = failed
    /\ pend' = {}

\* Mutant: the end of the scenario is stepped over.
AdvanceTwice(q) ==
    /\ next' = IF q > N THEN q + 1 ELSE q
    /\ IF q > N THEN Stop(FALSE) ELSE pc' = "send" /\ pend' = {} /\ UNCHANGED err

\* The next query, or the next call of executeManyQueries.
Advance(q) ==
    /\ next' = q
    /\ IF q > N THEN Stop(FALSE) ELSE pc' = "send" /\ pend' = {} /\ UNCHANGED err

Append1(q, st) == log' = Append(log, [q |-> q, st |-> st])

\* QuerySaver.Save with an error: the statement had no effect, or lost its answer.
SaveFails(q, st) == Append1(q, st) \/ UNCHANGED log

PickDriver ==
    /\ pc = "pick"
    /\ \E r \in Rolls(weights) : driver' = Names[Pick(weights, r)]
    /\ pc' = IF driver' = "pgx" THEN "connect" ELSE "send"
    /\ UNCHANGED <<weights, next, err, conn, remote, pend, log>>

\* "failed to append pooler suffix", or a string that does not parse.
BadString ==
    /\ pc = "pick"
    /\ pc' = "done" /\ err' = TRUE
    /\ UNCHANGED <<weights, driver, next, conn, remote, pend, log>>

\* PgxConnect: pgx.Connect ...
Connect ==
    /\ pc = "connect"
    /\ \E st \in Results :
          /\ conn' = IF st = "ok" THEN "open" ELSE "none"
          /\ pend' = {[q |-> 0, st |-> st]}
    /\ pc' = "saveConnect"
    /\ UNCHANGED <<weights, driver, next, err, remote, log>>

\* ... and saveQuery: any error returns no connection, so nobody closes one.
SaveConnect ==
    /\ pc = "saveConnect"
    /\ \E r \in pend :
          \/ Append1(0, r.st) /\ r.st = "ok" /\ pc' = "send" /\ UNCHANGED err
          \/ SaveFails(0, r.st) /\ pc' = "done" /\ err' = TRUE
    /\ pend' = {}
    /\ UNCHANGED <<weights, driver, next, conn, remote>>

EndOfCall(q, e) == q <= e /\ \A d \in Ends : q <= d => e <= d

\* Mutant: every driver gets the whole batch.
RequestAll(q) == {q .. e : e \in {f \in Ends : EndOfCall(q, f)}}

\* The request that begins with query q, in a set of its own: ManyQueriesDriver
\* takes what executeManyQueries was called with, the others one query.
Request(q) ==
    IF driver = "vercel" THEN {q .. e : e \in {f \in Ends : EndOfCall(q, f)}} ELSE {{q}}

Send ==
    /\ pc = "send"
    /\ \E batch \in Request(next) :
          remote' = [q \in 1 .. N |-> IF q \in batch THEN "sent" ELSE remote[q]]
    /\ pc' = "wait"
    /\ UNCHANGED <<weights, driver, next, err, conn, pend, log>>

\* alwaysOn, awaitShutdown: the context is done between two calls.
GiveUp ==
    /\ pc = "send" /\ next - 1 \in Ends
    /\ Stop(TRUE)
    /\ UNCHANGED <<weights, driver, next, conn, remote, log>>

\* Mutant: the status code is not looked at.
AnswerUnchecked ==
    /\ pc = "wait" /\ driver # "vercel"
    /\ \/ pend' = {[q |-> next, st |-> "ok"]} /\ remote[next] \in {"ran", "failed"}
       \/ pend' = {[q |-> next, st |-> "failed"]}
    /\ pc' = "save"
    /\ UNCHANGED <<weights, driver, next, err, conn, remote, log>>

\* pgx, Serverless: a result; or an error, a bad status, a dead connection, a
\* context that is done, whatever has become of the query.
Answer ==
    /\ pc = "wait" /\ driver # "vercel"
    /\ \/ pend' = {[q |-> next, st |-> "ok"]} /\ remote[next] = "ran"
       \/ pend' = {[q |-> next, st |-> "failed"]}
    /\ pc' = "save"
    /\ UNCHANGED <<weights, driver, next, err, conn, remote, log>>

\* Mutants: a failed query does not end the scenario; it ends it without
\* error.
SaveGoesOn ==
    /\ pc = "save" /\ driver # "vercel"
    /\ \E r \in pend :
          \/ Append1(r.q, r.st) /\ Advance(next + 1)
          \/ SaveFails(r.q, r.st) /\ Stop(TRUE) /\ UNCHANGED next
    /\ UNCHANGED <<weights, driver, conn, remote>>
SaveSwallows ==
    /\ pc = "save" /\ driver # "vercel"
    /\ \E r \in pend :
          \/ Append1(r.q, r.st) /\ r.st = "ok" /\ Advance(next + 1)
          \/ Append1(r.q, r.st) /\ r.st = "failed" /\ Stop(FALSE) /\ UNCHANGED next
          \/ SaveFails(r.q, r.st) /\ Stop(TRUE) /\ UNCHANGED next
    /\ UNCHANGED <<weights, driver, conn, remote>>

\* saveQuery joins the error of the query and that of Save; executeManyQueries
\* stops at the first error, also when the record is in the table.
Save ==
    /\ pc = "save" /\ driver # "vercel"
    /\ \E r \in pend :
          \/ Append1(r.q, r.st) /\ r.st = "ok" /\ Advance(next + 1)
          \/ SaveFails(r.q, r.st) /\ Stop(TRUE) /\ UNCHANGED next
    /\ UNCHANGED <<weights, driver, conn, remote>>
-----------------------------------------------------------------------------
(* VercelSL.Queries *)

\* The transport fails: no record, and the function may go on working.
AnswerLost ==
    /\ pc = "wait" /\ driver = "vercel"
    /\ Stop(TRUE)
    /\ UNCHANGED <<weights, driver, next, conn, remote, log>>

\* An answer that is not JSON: one record for all of the batch.
AnswerUnreadable ==
    /\ pc = "wait" /\ driver = "vercel"
    /\ pend' = {[q |-> 0, st |-> "failed"]}
    /\ pc' = "saveBad"
    /\ UNCHANGED <<weights, driver, next, err, conn, remote, log>>

SaveUnreadable ==
    /\ pc = "saveBad"
    /\ SaveFails(0, "failed")
    /\ Stop(TRUE)
    /\ UNCHANGED <<weights, driver, next, conn, remote>>

\* The function is done and lists what it ran; or it answers with an error in
\* JSON, which lists no query: the status code is not looked at.
AnswerBatch ==
    /\ pc = "wait" /\ driver = "vercel"
    /\ \/ \E batch \in Request(next) :
             /\ \A q \in batch : remote[q] # "sent"
             /\ pend' = {[q |-> q, st |-> IF remote[q] = "ran" THEN "ok" ELSE "failed"] :
                          q \in {p \in batch : remote[p] # "lost"}}
       \/ pend' = {}
    /\ pc' = "save"
    /\ UNCHANGED <<weights, driver, next, err, conn, remote, log>>

IsFirst(r) == \A s \in pend : r.q <= s.q

\* Mutant: an error of Save is skipped.
SaveBatchSkips ==
    /\ pc = "save" /\ driver = "vercel"
    /\ \E r \in pend :
          /\ IsFirst(r)
          /\ SaveFails(r.q, r.st)
          /\ pend' = pend \ {r} /\ UNCHANGED <<pc, err>>
    /\ UNCHANGED <<weights, driver, next, conn, remote>>

\* One record after the other; the first error of Save ends it.  A query that
\* failed is no error.
SaveBatch ==
    /\ pc = "save" /\ driver = "vercel"
    /\ \E r \in pend :
          /\ IsFirst(r)
          /\ \/ Append1(r.q, r.st) /\ pend' = pend \ {r} /\ UNCHANGED <<pc, err>>
             \/ SaveFails(r.q, r.st) /\ Stop(TRUE)
    /\ UNCHANGED <<weights, driver, next, conn, remote>>

BatchSaved ==
    /\ pc = "save" /\ driver = "vercel" /\ pend = {}
    /\ \E e \in Ends : EndOfCall(next, e) /\ Advance(e + 1)
    /\ UNCHANGED <<weights, driver, conn, remote, log>>
-----------------------------------------------------------------------------
\* defer cc.Close(ctx)
Close ==
    /\ pc = "close"
    /\ conn' = "closed" /\ pc' = "done"
    /\ UNCHANGED <<weights, driver, next, err, remote, pend, log>>

\* The process dies; its connections end with it.
Crash ==
    /\ pc # "done"
    /\ pc' = "done" /\ err' = (pc # "close" \/ err) /\ pend' = {}
    /\ conn' = IF conn = "open" THEN "closed" ELSE conn
    /\ UNCHANGED <<weights, driver, next, remote, log>>

\* The database and the networks before it (external): a query that was sent runs,
\* fails or gets lost, also when its job is over; those of a batch run in order.
Resolve(q, s) ==
    /\ remote[q] = "sent" /\ \A p \in 1 .. q - 1 : remote[p] # "sent"
    /\ remote' = [remote EXCEPT ![q] = s]
    /\ UNCHANGED <<weights, jobVars>>

JobStep ==
    \/ PickDriver \/ BadString \/ Connect \/ SaveConnect \/ Send \/ GiveUp
    \/ Answer \/ Save \/ AnswerLost \/ AnswerUnreadable \/ SaveUnreadable
    \/ AnswerBatch \/ SaveBatch \/ BatchSaved \/ Close \/ Crash

Next == JobStep \/ \E q \in 1 .. N, s \in {"lost", "ran", "failed"} : Resolve(q, s)

Spec == Init /\ [][Next]_vars
-----------------------------------------------------------------------------
(* Properties *)

Recorded(q, st) == \E i \in 1 .. Len(log) : log[i] = [q |-> q, st |-> st]
Succeeded == pc = "done" /\ ~err

\* A job of pgx or Serverless that returns no error has run every query of its
\* scenario and recorded each as a success.
SuccessIsComplete ==
    Succeeded /\ driver # "vercel" =>
        \A q \in 1 .. N : remote[q] = "ran" /\ Recorded(q, "ok")

\* No record claims a success that did not happen, however answers get lost.
RecordsTruthful == \A q \in 1 .. N : Recorded(q, "ok") => remote[q] = "ran"

\* Behind a job of Vercel that returns no error, a call has either left no record
\* at all (the error in JSON) or hides nothing: what ran or failed is recorded as
\* such, and nothing runs later.
BatchesWhole ==
    Succeeded /\ driver = "vercel" => \A e \in Ends :
        LET batch == {q \in 1 .. N : q <= e /\ \A d \in Ends : d < e => d < q}
        IN  \/ \A q \in batch, st \in Results : ~Recorded(q, st)
            \/ \A q \in batch :
                  /\ remote[q] # "sent"
                  /\ remote[q] = "ran" => Recorded(q, "ok")
                  /\ remote[q] = "failed" => Recorded(q, "failed")

\* A connection is left open for good only if PgxConnect could not save its own
\* record, returned nil and forgot it: the job ends with an error before any query
\* is sent, and at most the connect is recorded, as the success it was.
LeaksOnlyUnused ==
    pc = "done" /\ conn = "open" =>
        /\ err /\ \A q \in 1 .. N : remote[q] = "unsent"
        /\ log \in {<<>>, <<[q |-> 0, st |-> "ok"]>>}

\* Queries go one by one: none is recorded twice, and with pgx and Serverless none
\* runs before the one it builds on has.
RecordedOnce == \A i, k \in 1 .. Len(log) : log[i].q = log[k].q => i = k
InOrder ==
    /\ RecordedOnce
    /\ driver # "vercel" =>
          \A p, q \in 1 .. N : p < q /\ remote[q] = "ran" => remote[p] = "ran"

\* A driver is chosen as often as its weight says, never if it is 0.
Proportional ==
    Total(weights) > 0 => \A i \in 1 .. 3 :
        Cardinality({r \in Rolls(weights) : Pick(weights, r) = i}) = weights[i]

\* The outcomes ProjectRules allows for a job.
phase == CASE pc \in {"pick", "connect", "saveConnect"} -> "connect"
           [] pc \in {"close", "done"} -> "over"
           [] OTHER -> "run"
Outcomes == INSTANCE QueryOutcomes WITH Queries <- 0 .. N
OutcomesSpec == Outcomes!Spec
=============================================================================
