---------------------------- MODULE AIExplanation ----------------------------
(***************************************************************************)
(* AIExplanationService: a user's explanation requests for one question on *)
(* one stock, the daily quota they consume, the Celery messages that ask   *)
(* for them and the workers that execute them.                             *)
(*                                                                         *)
(* A run is identified by a hash of what its model is asked: the context,  *)
(* which contains the request's knowledge_cutoff (the moment it was made   *)
(* or last retried), and what each execution reads for itself: the latest  *)
(* snapshot, the signals there are, the prompt and the route with the      *)
(* revision of its configuration.  These only ever take new values, so a   *)
(* run is named here by its cutoff and by the edition of the rest that its *)
(* execution has read.                                                     *)
(*                                                                         *)
(* Every action is a database transaction; a worker's session keeps what   *)
(* it has read of the request (expire_on_commit=False), and writes only    *)
(* the columns it has changed.                                             *)
(***************************************************************************)
EXTENDS Integers, FiniteSets

CONSTANTS
    Requests,     \* the user's requests, all for the same question and stock
    Workers,      \* Celery processes running ai_research.generate_explanation
    DailyLimit,   \* limits["ai_explanations_daily"]
    MaxCutoffs,   \* bound on the instants at which requests are made or retried
    MaxEditions,  \* bound on changes of what executions read
    MaxCrashes,   \* bound on lost workers
    MaxApiLost,   \* bound on lost API processes
    MaxEnqueueFailures       \* bound on enqueues that raise

ASSUME LimitAssumption == DailyLimit \in Nat
ASSUME WorkersAssumption == IsFiniteSet(Workers)
ASSUME BoundAssumption ==
    {MaxCutoffs, MaxEditions, MaxCrashes, MaxApiLost, MaxEnqueueFailures} \subseteq Nat

VARIABLES
    request,   \* ai_explanation_requests
    run,       \* ai_research_runs, by idempotency_key
    calls,     \* how many llm_calls there are
    used,      \* ai_explanation_daily_usage.used_count
    clock,     \* the latest knowledge_cutoff handed out
    edition,   \* of what executions read besides the request
    owed,      \* API calls per request that have committed and not yet enqueued
    queue,     \* messages per request
    pc,        \* where each worker is in execute
    mine,      \* what each worker's session holds: request, cutoff, run_id, key, verdicts
    lost       \* lost processes and failed enqueues so far

vars == <<request, run, calls, used, clock, edition, owed, queue, pc, mine, lost>>

None == 0
Cutoffs == 1..MaxCutoffs
Editions == 0..MaxEditions
Keys == Cutoffs \X Editions
NoKey == <<None, None>>
Absent == [status |-> "absent", lapsed |-> FALSE, output |-> FALSE]
Fresh == [status |-> "running", lapsed |-> FALSE, output |-> FALSE]
Free == [request |-> None, status |-> "none", cutoff |-> None, runId |-> NoKey, key |-> NoKey,
         inserted |-> FALSE, seen |-> Absent, acquired |-> FALSE]

Locations == {"idle", "read", "building", "keyed", "inserted", "seen", "decided", "calling",
              "answered", "refused", "saved", "finished"}

TypeOK ==
    /\ request \in [Requests -> [status : {"none", "pending", "building", "ready", "failed"},
                                 cutoff : Cutoffs \cup {None}, runId : Keys \cup {NoKey},
                                 output : Keys \cup {NoKey}]]
    /\ run \in [Keys -> [status : {"absent", "running", "succeeded", "failed"},
                         lapsed : BOOLEAN, output : BOOLEAN]]
    /\ calls \in Nat
    /\ used \in 0..DailyLimit
    /\ clock \in Cutoffs \cup {None}
    /\ edition \in Editions
    /\ owed \in [Requests -> Nat]
    /\ queue \in [Requests -> Nat]
    /\ pc \in [Workers -> Locations]
    /\ lost \in [crashes : 0..MaxCrashes, api : 0..MaxApiLost, enqueues : 0..MaxEnqueueFailures]

Init ==
    /\ request = [r \in Requests |-> [status |-> "none", cutoff |-> None, runId |-> NoKey,
                                      output |-> NoKey]]
    /\ run = [k \in Keys |-> Absent]
    /\ calls = 0
    /\ used = 0
    /\ clock = None
    /\ edition = 0
    /\ owed = [r \in Requests |-> 0]
    /\ queue = [r \in Requests |-> 0]
    /\ pc = [w \in Workers |-> "idle"]
    /\ mine = [w \in Workers |-> Free]
    /\ lost = [crashes |-> 0, api |-> 0, enqueues |-> 0]

-----------------------------------------------------------------------------
(* The API *)

\* Variants of the definitions below, each the way a plausible bug would have it.
ReadThenCount == used <= DailyLimit
FreeRetry == 0
MarkedIfPending(k) ==
    [r \in Requests |-> IF request[r].runId = k /\ request[r].status = "pending"
                        THEN [request[r] EXCEPT !.status = "ready", !.output = k]
                        ELSE request[r]]

\* _consume_quota: the conditional upsert that takes one unit, or none is left.
QuotaLeft == used < DailyLimit

\* create_request: the unit and the row commit together; a request that exists is only
\* read back.  Access, snapshot and evidence are there (otherwise nothing is written).
Create(r) ==
    /\ request[r].status = "none"
    /\ QuotaLeft
    /\ clock < MaxCutoffs
    /\ used' = used + 1
    /\ clock' = clock + 1
    /\ request' = [request EXCEPT ![r].status = "pending", ![r].cutoff = clock']
    /\ owed' = [owed EXCEPT ![r] = @ + 1]
    /\ UNCHANGED <<run, calls, edition, queue, pc, mine, lost>>

\* What a retry consumes of the day's quota.
RetryCost == 1

\* retry, under SELECT ... FOR UPDATE on the request.
Retry(r) ==
    /\ request[r].status = "failed"
    /\ QuotaLeft
    /\ clock < MaxCutoffs
    /\ used' = used + RetryCost
    /\ clock' = clock + 1
    /\ request' = [request EXCEPT ![r].status = "pending", ![r].cutoff = clock']
    /\ owed' = [owed EXCEPT ![r] = @ + 1]
    /\ UNCHANGED <<run, calls, edition, queue, pc, mine, lost>>

\* The route's dispatcher.enqueue.
Enqueue(r) ==
    /\ owed[r] > 0
    /\ owed' = [owed EXCEPT ![r] = @ - 1]
    /\ queue' = [queue EXCEPT ![r] = @ + 1]
    /\ UNCHANGED <<request, run, calls, used, clock, edition, pc, mine, lost>>

\* enqueue raises and the route calls mark_dispatch_failed, which fails the request if it
\* is still pending.  lie says that the broker had taken the message all the same.
EnqueueFails(r, lie) ==
    /\ owed[r] > 0
    /\ lost.enqueues < MaxEnqueueFailures
    /\ owed' = [owed EXCEPT ![r] = @ - 1]
    /\ request' = [request EXCEPT ![r].status = IF @ = "pending" THEN "failed" ELSE @]
    /\ queue' = [queue EXCEPT ![r] = IF lie THEN @ + 1 ELSE @]
    /\ lost' = [lost EXCEPT !.enqueues = @ + 1]
    /\ UNCHANGED <<run, calls, used, clock, edition, pc, mine>>

-----------------------------------------------------------------------------
(* The worker: execute *)

Goto(w, l) == pc' = [pc EXCEPT ![w] = l]

\* A message is taken and its request read, without a lock.  A ready one is done.
Take(w, r) ==
    /\ pc[w] = "idle"
    /\ queue[r] > 0
    /\ queue' = [queue EXCEPT ![r] = @ - 1]
    /\ IF request[r].status = "ready"
       THEN UNCHANGED <<pc, mine>>
       ELSE /\ Goto(w, "read")
            /\ mine' = [mine EXCEPT ![w] = [Free EXCEPT !.request = r,
                            !.status = request[r].status, !.cutoff = request[r].cutoff,
                            !.runId = request[r].runId]]
    /\ UNCHANGED <<request, run, calls, used, clock, edition, owed, lost>>

\* Assigning a column the value the session holds writes nothing.
WritesBuilding(status) == status # "building"

\* status = "building", or the snapshot or the evidence is gone and the request fails.
Build(w) ==
    /\ pc[w] = "read"
    /\ LET r == mine[w].request
       IN request' = IF WritesBuilding(mine[w].status)
                     THEN [request EXCEPT ![r].status = "building"] ELSE request
    /\ Goto(w, "building")
    /\ UNCHANGED <<run, calls, used, clock, edition, owed, queue, mine, lost>>

\* _fail_request
FailRequest(w) ==
    /\ pc[w] = "building"
    /\ request' = [request EXCEPT ![mine[w].request].status = "failed"]
    /\ Goto(w, "finished")
    /\ UNCHANGED <<run, calls, used, clock, edition, owed, queue, mine, lost>>

\* What the run is to be asked, and the key that is its hash.  (A change between two of these
\* reads is taken to be before or after all of them.)
ReadContext(w) ==
    /\ pc[w] = "building"
    /\ mine' = [mine EXCEPT ![w].key = <<mine[w].cutoff, edition>>]
    /\ Goto(w, "keyed")
    /\ UNCHANGED <<request, run, calls, used, clock, edition, owed, queue, lost>>

\* _acquire_run: INSERT ... ON CONFLICT DO NOTHING, committed.
InsertRun(w) ==
    /\ pc[w] = "keyed"
    /\ LET k == mine[w].key
       IN  /\ run' = [run EXCEPT ![k] = IF @ = Absent THEN Fresh ELSE @]
           /\ mine' = [mine EXCEPT ![w].inserted = (run[k] = Absent)]
    /\ Goto(w, "inserted")
    /\ UNCHANGED <<request, calls, used, clock, edition, owed, queue, lost>>

\* _acquire_run: the SELECT of the run, without a lock.
SeeRun(w) ==
    /\ pc[w] = "inserted"
    /\ mine' = [mine EXCEPT ![w].seen = run[mine[w].key]]
    /\ Goto(w, "seen")
    /\ UNCHANGED <<request, run, calls, used, clock, edition, owed, queue, lost>>

\* A lapsed run is reclaimed; a failed one is run again by the request attached to it.
Reacquires(w) ==
    \/ mine[w].seen.status = "running" /\ mine[w].seen.lapsed
    \/ mine[w].seen.status = "failed" /\ mine[w].runId = mine[w].key

\* _acquire_run: the decision and its commit.
AcquireRun(w) ==
    /\ pc[w] = "seen"
    /\ IF Reacquires(w)
       THEN /\ run' = [run EXCEPT ![mine[w].key].status = "running",
                                  ![mine[w].key].lapsed = FALSE]
            /\ mine' = [mine EXCEPT ![w].acquired = TRUE, ![w].seen.status = "running"]
       ELSE /\ mine' = [mine EXCEPT ![w].acquired = mine[w].inserted]
            /\ UNCHANGED run
    /\ Goto(w, "decided")
    /\ UNCHANGED <<request, calls, used, clock, edition, owed, queue, lost>>

\* request.run_id = run.id, committed, and what the run's status leads to.
AttachRun(w) ==
    /\ pc[w] = "decided"
    /\ LET r == mine[w].request
           k == mine[w].key
       IN  request' = IF mine[w].runId # k THEN [request EXCEPT ![r].runId = k] ELSE request
    /\ \/ /\ mine[w].seen.status = "succeeded"
          /\ Goto(w, "saved")
       \/ /\ mine[w].seen.status = "running" /\ ~mine[w].acquired
          /\ Goto(w, "finished")
       \/ /\ mine[w].seen.status = "failed" \/ mine[w].acquired
          /\ Goto(w, "calling")
    /\ UNCHANGED <<run, calls, used, clock, edition, owed, queue, mine, lost>>

\* The model answers and the document is valid, or not; the call is recorded and committed.
CallModel(w) ==
    /\ pc[w] = "calling"
    /\ \E l \in {"answered", "refused"} : Goto(w, l)
    /\ calls' = calls + 1
    /\ UNCHANGED <<request, run, used, clock, edition, owed, queue, mine, lost>>

\* _fail_run: the run and every request attached to it.
FailRun(w) ==
    /\ pc[w] = "refused"
    /\ LET k == mine[w].key
       IN  /\ run' = [run EXCEPT ![k].status = "failed"]
           /\ request' = [r \in Requests |-> IF request[r].runId = k
                            THEN [request[r] EXCEPT !.status = "failed"] ELSE request[r]]
    /\ Goto(w, "finished")
    /\ UNCHANGED <<calls, used, clock, edition, owed, queue, mine, lost>>

\* uq_ai_research_output_run
OutputExists(k) == run[k].output

\* The output and the run's success commit together, or the INSERT raises.
SaveOutput(w) ==
    /\ pc[w] = "answered"
    /\ LET k == mine[w].key
       IN  IF OutputExists(k)
           THEN Goto(w, "finished") /\ UNCHANGED run
           ELSE /\ run' = [run EXCEPT ![k].status = "succeeded", ![k].output = TRUE]
                /\ Goto(w, "saved")
    /\ UNCHANGED <<request, calls, used, clock, edition, owed, queue, mine, lost>>

\* The UPDATE of _mark_ready: every request attached to the run.
Marked(k) ==
    [r \in Requests |-> IF request[r].runId = k
                        THEN [request[r] EXCEPT !.status = "ready", !.output = k]
                        ELSE request[r]]

MarkReady(w) ==
    /\ pc[w] = "saved"
    /\ request' = Marked(mine[w].key)
    /\ Goto(w, "finished")
    /\ UNCHANGED <<run, calls, used, clock, edition, owed, queue, mine, lost>>

\* The task returns or raises, and its message is acknowledged.
Return(w) ==
    /\ pc[w] = "finished"
    /\ Goto(w, "idle")
    /\ mine' = [mine EXCEPT ![w] = Free]
    /\ UNCHANGED <<request, run, calls, used, clock, edition, owed, queue, lost>>

-----------------------------------------------------------------------------
(* Failures and time *)

\* A worker is lost: task_acks_late and task_reject_on_worker_lost redeliver its message.
WorkerLost(w) ==
    /\ pc[w] # "idle"
    /\ lost.crashes < MaxCrashes
    /\ lost' = [lost EXCEPT !.crashes = @ + 1]
    /\ queue' = [queue EXCEPT ![mine[w].request] = @ + 1]
    /\ Goto(w, "idle")
    /\ mine' = [mine EXCEPT ![w] = Free]
    /\ UNCHANGED <<request, run, calls, used, clock, edition, owed>>

\* An API process is lost between the commit of a request and its enqueue.
ApiLost(r) ==
    /\ owed[r] > 0
    /\ lost.api < MaxApiLost
    /\ lost' = [lost EXCEPT !.api = @ + 1]
    /\ owed' = [owed EXCEPT ![r] = @ - 1]
    /\ UNCHANGED <<request, run, calls, used, clock, edition, queue, pc, mine>>

\* Thirty minutes pass over a run nobody executes: a model call is bounded far below it.
LeaseLapses(k) ==
    /\ run[k].status = "running" /\ ~run[k].lapsed
    /\ \A w \in Workers : mine[w].key # k
    /\ run' = [run EXCEPT ![k].lapsed = TRUE]
    /\ UNCHANGED <<request, calls, used, clock, edition, owed, queue, pc, mine, lost>>

\* A snapshot is computed, a signal is projected or a configuration is published.
EditionChanges ==
    /\ edition < MaxEditions
    /\ edition' = edition + 1
    /\ UNCHANGED <<request, run, calls, used, clock, owed, queue, pc, mine, lost>>

Execute(w) ==
    \/ Build(w) \/ FailRequest(w) \/ ReadContext(w) \/ InsertRun(w) \/ SeeRun(w)
    \/ AcquireRun(w) \/ AttachRun(w) \/ CallModel(w) \/ FailRun(w) \/ SaveOutput(w) \/ MarkReady(w)
    \/ Return(w)

Dispatch(r) == Enqueue(r) \/ \E lie \in BOOLEAN : EnqueueFails(r, lie)

Next ==
    \/ \E r \in Requests : Create(r) \/ Retry(r) \/ Dispatch(r) \/ ApiLost(r)
    \/ \E w \in Workers : (\E r \in Requests : Take(w, r)) \/ Execute(w) \/ WorkerLost(w)
    \/ \E k \in Keys : LeaseLapses(k)
    \/ EditionChanges

Spec == Init /\ [][Next]_vars

\* Celery delivers and executes what is queued, a route that has committed goes on to
\* enqueue, and time passes.  Nobody need create, retry or crash.
ExplainFairness ==
    /\ \A w \in Workers : WF_vars(Execute(w))
    /\ \A r \in Requests : WF_vars(Dispatch(r)) /\ WF_vars(\E w \in Workers : Take(w, r))
    /\ \A k \in Keys : WF_vars(LeaseLapses(k))

-----------------------------------------------------------------------------
(* Properties *)

\* Whatever is retried, delivered again or reclaimed: there are no more runs, and no more calls on
\* record, than units of the day's quota and lost workers.  (The message of a lost worker comes
\* back, and its execution opens and calls a run of its own if what it reads has changed.)
EveryCallIsPaidFor ==
    LET executions == used + lost.crashes
    IN  Cardinality({k \in Keys : run[k] # Absent}) <= executions /\ calls <= executions

\* A request that says ready shows an output, and that output exists.  (Its run need not say
\* succeeded: after two crashes two deliveries may both reclaim the lapsed run, and the one
\* that fails writes its failure over the other's success.)
ReadyHasItsOutput ==
    \A r \in Requests : request[r].status = "ready" =>
        /\ request[r].output # NoKey
        /\ run[request[r].output].output

\* Every accepted request is answered or fails, so that its user can retry it.
RequestSettles ==
    \A r \in Requests :
        request[r].status \in {"pending", "building"} ~> request[r].status \in {"ready", "failed"}
=============================================================================
