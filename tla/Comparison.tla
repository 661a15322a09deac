----------------------------- MODULE Comparison -----------------------------
(***************************************************************************)
(* ComparisonService: a user's comparison requests, the Celery messages    *)
(* that ask for them, the workers that build and explain them, and the     *)
(* reads that declare a build stalled.                                     *)
(*                                                                         *)
(* A build is one transaction.  Its snapshot and its AI run are identified *)
(* by hashes of the request's cutoff and of the retained rows known at     *)
(* that cutoff; backfills add such rows late, so what is retained is named *)
(* here by a number that may grow.  Autoflush writes the request's row     *)
(* before the document is built: from there to the commit the worker holds *)
(* the row's lock, and the keys it has inserted block other inserts.       *)
(***************************************************************************)
EXTENDS Integers, FiniteSets

CONSTANTS
    Comparisons,  \* requests of one user, each with a client_request_id of its own
    Builders,     \* Celery processes running comparisons.build
    CompareLimit, \* limits["ai_explanations_daily"]
    MaxInputs,    \* bound on the states of the retained rows
    MaxTroubles   \* bound on lost workers and repeated POSTs together

ASSUME CompareLimitAssumption == CompareLimit \in Nat
ASSUME CompareBoundAssumption == {MaxInputs, MaxTroubles} \subseteq Nat /\ MaxInputs > 0

VARIABLES
    comparison,   \* comparison_requests; run, snapshot and output name the inputs they are of
    built,        \* comparison_snapshots (and their succeeded build run), by request and inputs
    ai,           \* comparison_ai_runs (and their outputs), by request and inputs
    usage,        \* ai_explanation_daily_usage.used_count
    inputs,       \* what is retained about the pair
    aged,         \* the requests created ten minutes ago
    lapsed,       \* the build runs started thirty minutes ago
    judged,       \* requests some read has found stale and not yet marked
    unsent,       \* requests whose POST has committed and not yet enqueued
    messages,     \* messages per request
    stage,        \* where each worker is in execute
    held,         \* what each worker's session and transaction hold
    troubles      \* lost workers and repeated POSTs so far

compareWorld == <<inputs, aged, lapsed, judged, unsent, troubles>>
compareVars == <<comparison, built, ai, usage, messages, stage, held, compareWorld>>

NoInputs == 0
Inputs == 1..MaxInputs
Done == {"ready", "partial"}
Verdicts == {"none"} \cup Done
Answers == {"none", "failed", "succeeded"}
FreeBuilder == [request |-> NoInputs, status |-> "none", snapshot |-> NoInputs,
                inputs |-> NoInputs, opened |-> FALSE, verdict |-> "none", taken |-> FALSE, answer |-> "none"]

CompareTypeOK ==
    /\ comparison \in
         [Comparisons -> [status : {"none", "pending", "building", "failed"} \cup Done,
                          run : Inputs \cup {NoInputs}, snapshot : Inputs \cup {NoInputs},
                          output : Inputs \cup {NoInputs}, stalled : BOOLEAN]]
    /\ built \in [Comparisons -> [Inputs -> Verdicts]]
    /\ ai \in [Comparisons -> [Inputs -> Answers]]
    /\ usage \in 0..CompareLimit
    /\ inputs \in Inputs
    /\ aged \subseteq Comparisons
    /\ lapsed \subseteq Comparisons \X Inputs
    /\ judged \subseteq Comparisons
    /\ unsent \subseteq Comparisons
    /\ messages \in [Comparisons -> Nat]
    /\ stage \in [Builders -> {"idle", "read", "building", "looking", "missing", "adopting",
                           "opened", "explaining", "calling", "explained", "raised", "finished"}]
    /\ troubles \in 0..MaxTroubles

CompareInit ==
    /\ comparison = [r \in Comparisons |-> [status |-> "none", run |-> NoInputs, snapshot |-> NoInputs,
                                      output |-> NoInputs, stalled |-> FALSE]]
    /\ built = [r \in Comparisons |-> [v \in Inputs |-> "none"]]
    /\ ai = [r \in Comparisons |-> [v \in Inputs |-> "none"]]
    /\ usage = 0
    /\ inputs = 1
    /\ aged = {}
    /\ lapsed = {}
    /\ judged = {}
    /\ unsent = {}
    /\ messages = [r \in Comparisons |-> 0]
    /\ stage = [w \in Builders |-> "idle"]
    /\ held = [w \in Builders |-> FreeBuilder]
    /\ troubles = 0

-----------------------------------------------------------------------------
(* Locks and uncommitted rows *)

\* Variants of the definitions below, each the way a plausible bug would have it.
FoundIsReady(w) == "ready"
ChargedForTheAnswer(w) == IF held[w].answer = "none" THEN usage ELSE usage + 1

\* A worker's transaction has written the request's row.
Locked(r) ==
    \E w \in Builders : held[w].request = r /\ stage[w] \in {"explaining", "calling", "explained"}

\* A transaction under way has inserted the build run of these inputs.
BeingBuilt(r, v) ==
    \E w \in Builders : held[w].request = r /\ held[w].inputs = v /\ held[w].opened

\* A transaction under way has taken a unit, and so holds the row of the day's usage.
BeingTaken == \E w \in Builders : held[w].taken

-----------------------------------------------------------------------------
(* The API *)

\* create, of a client_request_id that is new; both symbols are ready and access is given.
CreateComparison(r) ==
    /\ comparison[r].status = "none"
    /\ comparison' = [comparison EXCEPT ![r].status = "pending"]
    /\ unsent' = unsent \cup {r}
    /\ UNCHANGED <<built, ai, usage, inputs, aged, lapsed, judged, messages, stage, held, troubles>>

\* create, of one that exists: a row that is still pending is enqueued once more.
Repost(r) ==
    /\ comparison[r].status = "pending"
    /\ r \notin unsent
    /\ troubles < MaxTroubles
    /\ troubles' = troubles + 1
    /\ unsent' = unsent \cup {r}
    /\ UNCHANGED <<comparison, built, ai, usage, inputs, aged, lapsed, judged, messages, stage,
                   held>>

\* The route's enqueue.  Whether it raises (503) or the process dies, the row stays pending;
\* what matters is whether the broker took the message.
DispatchComparison(r, delivered) ==
    /\ r \in unsent
    /\ unsent' = unsent \ {r}
    /\ messages' = [messages EXCEPT ![r] = IF delivered THEN @ + 1 ELSE @]
    /\ UNCHANGED <<comparison, built, ai, usage, inputs, aged, lapsed, judged, stage, held,
                   troubles>>

\* What _reconcile_stale calls stale: an old request, or a building one whose run's lease
\* has lapsed.
LooksStale(r) ==
    \/ comparison[r].status = "pending" /\ r \in aged
    \/ /\ comparison[r].status = "building"
       /\ IF comparison[r].run = NoInputs THEN r \in aged ELSE <<r, comparison[r].run>> \in lapsed

\* get, list_requests: a read finds the request stale.
Judge(r) ==
    /\ LooksStale(r)
    /\ judged' = judged \cup {r}
    /\ UNCHANGED <<comparison, built, ai, usage, inputs, aged, lapsed, unsent, messages, stage,
                   held, troubles>>

\* Its UPDATE, whatever has happened to the request meanwhile.
Mark(r) ==
    /\ r \in judged
    /\ ~Locked(r)
    /\ judged' = judged \ {r}
    /\ comparison' = [comparison EXCEPT ![r].status = "failed", ![r].stalled = TRUE]
    /\ UNCHANGED <<built, ai, usage, inputs, aged, lapsed, unsent, messages, stage, held, troubles>>

-----------------------------------------------------------------------------
(* The worker: execute *)

GoOn(w, l) == stage' = [stage EXCEPT ![w] = l]

\* A message is taken and its request read, without a lock.  One that is done is left alone.
TakeBuild(w, r) ==
    /\ stage[w] = "idle"
    /\ messages[r] > 0
    /\ messages' = [messages EXCEPT ![r] = @ - 1]
    /\ IF comparison[r].status \in Done
       THEN UNCHANGED <<stage, held>>
       ELSE /\ GoOn(w, "read")
            /\ held' = [held EXCEPT ![w] = [FreeBuilder EXCEPT !.request = r,
                            !.status = comparison[r].status, !.snapshot = comparison[r].snapshot]]
    /\ UNCHANGED <<comparison, built, ai, usage, compareWorld>>

\* status = "building", committed; it is written only if the session read something else.
Begin(w) ==
    /\ stage[w] = "read"
    /\ LET r == held[w].request
       IN  IF held[w].status = "building"
           THEN UNCHANGED comparison
           ELSE ~Locked(r) /\ comparison' = [comparison EXCEPT ![r].status = "building"]
    /\ GoOn(w, "building")
    /\ UNCHANGED <<built, ai, usage, messages, held, compareWorld>>

\* _input_manifest
ReadInputs(w) ==
    /\ stage[w] = "building"
    /\ held' = [held EXCEPT ![w].inputs = inputs]
    /\ GoOn(w, "looking")
    /\ UNCHANGED <<comparison, built, ai, usage, messages, compareWorld>>

\* _build_snapshot looks for the snapshot of these inputs.
FindSnapshot(w) ==
    /\ stage[w] = "looking"
    /\ GoOn(w, IF built[held[w].request][held[w].inputs] = "none" THEN "missing" ELSE "adopting")
    /\ UNCHANGED <<comparison, built, ai, usage, messages, held, compareWorld>>

\* There was none: the build run is inserted.  The INSERT waits for a transaction that has
\* inserted it; when the run is there by now, this INSERT or the snapshot's raises.
OpenRun(w) ==
    /\ stage[w] = "missing"
    /\ LET r == held[w].request
           v == held[w].inputs
       IN  /\ ~BeingBuilt(r, v)
           /\ IF built[r][v] = "none"
              THEN GoOn(w, "opened") /\ held' = [held EXCEPT ![w].opened = TRUE]
              ELSE GoOn(w, "raised") /\ UNCHANGED held
    /\ UNCHANGED <<comparison, built, ai, usage, messages, compareWorld>>

\* _build_document, after build_run_id has been flushed.
BuildDocument(w, verdict) ==
    /\ stage[w] = "opened"
    /\ ~Locked(held[w].request)
    /\ held' = [held EXCEPT ![w].verdict = verdict]
    /\ GoOn(w, "explaining")
    /\ UNCHANGED <<comparison, built, ai, usage, messages, compareWorld>>

\* What the snapshot that was found says of its limitations.
FoundVerdict(w) == built[held[w].request][held[w].inputs]

\* The snapshot that was found tells what the status will be.
Adopt(w) ==
    /\ stage[w] = "adopting"
    /\ ~Locked(held[w].request)
    /\ held' = [held EXCEPT ![w].verdict = FoundVerdict(w)]
    /\ GoOn(w, "explaining")
    /\ UNCHANGED <<comparison, built, ai, usage, messages, compareWorld>>

\* The build raises, or the explanation does other than by the gateway or the validator:
\* rollback.
Raise(w) ==
    /\ stage[w] \in {"opened", "explaining", "calling"}
    /\ held' = [held EXCEPT ![w].opened = FALSE, ![w].taken = FALSE]
    /\ GoOn(w, "raised")
    /\ UNCHANGED <<comparison, built, ai, usage, messages, compareWorld>>

\* _generate_ai without a call: not asked for, the route is off, there is an AI run of
\* this snapshot already, or the quota is used up.
SkipCall(w) ==
    /\ stage[w] = "explaining"
    /\ held' = [held EXCEPT ![w].answer = ai[held[w].request][held[w].inputs]]
    /\ GoOn(w, "explained")
    /\ UNCHANGED <<comparison, built, ai, usage, messages, compareWorld>>

\* _consume_ai_quota takes a unit, uncommitted, and the AI run is inserted.
TakeQuota(w) ==
    /\ stage[w] = "explaining"
    /\ ai[held[w].request][held[w].inputs] = "none"
    /\ ~BeingTaken
    /\ usage < CompareLimit
    /\ held' = [held EXCEPT ![w].taken = TRUE]
    /\ GoOn(w, "calling")
    /\ UNCHANGED <<comparison, built, ai, usage, messages, compareWorld>>

\* The model's answer is valid, or the gateway or the validator refuses it.
CompareModel(w) ==
    /\ stage[w] = "calling"
    /\ \E answer \in {"failed", "succeeded"} : held' = [held EXCEPT ![w].answer = answer]
    /\ GoOn(w, "explained")
    /\ UNCHANGED <<comparison, built, ai, usage, messages, compareWorld>>

\* used_count as the transaction leaves it.
Charged(w) == IF held[w].taken THEN usage + 1 ELSE usage

\* The request's row as the commit leaves it: a column is written if the session held another
\* value.
Answered(row, m) ==
    [row EXCEPT !.status = m.verdict,
                !.run = IF m.opened THEN m.inputs ELSE row.run,
                !.snapshot = IF m.snapshot = m.inputs THEN row.snapshot ELSE m.inputs,
                !.output = IF m.answer = "succeeded" THEN m.inputs ELSE row.output]

\* Everything commits together.
CommitBuild(w) ==
    /\ stage[w] = "explained"
    /\ LET r == held[w].request
           v == held[w].inputs
           m == held[w]
       IN  /\ comparison' = [comparison EXCEPT ![r] = Answered(comparison[r], m)]
           /\ built' = IF m.opened THEN [built EXCEPT ![r][v] = m.verdict] ELSE built
           /\ ai' = [ai EXCEPT ![r][v] = m.answer]
           /\ usage' = Charged(w)
    /\ held' = [held EXCEPT ![w].opened = FALSE, ![w].taken = FALSE]
    /\ GoOn(w, "finished")
    /\ UNCHANGED <<messages, compareWorld>>

\* The except clause: the request fails, whatever it has become.
FailBuild(w) ==
    /\ stage[w] = "raised"
    /\ ~Locked(held[w].request)
    /\ comparison' = [comparison EXCEPT ![held[w].request].status = "failed",
                                  ![held[w].request].stalled = FALSE]
    /\ GoOn(w, "finished")
    /\ UNCHANGED <<built, ai, usage, messages, held, compareWorld>>

\* The task returns or raises, and its message is acknowledged.
ReturnBuild(w) ==
    /\ stage[w] = "finished"
    /\ GoOn(w, "idle")
    /\ held' = [held EXCEPT ![w] = FreeBuilder]
    /\ UNCHANGED <<comparison, built, ai, usage, messages, compareWorld>>

-----------------------------------------------------------------------------
(* Failures, backfills and time *)

\* A worker is lost; its transaction is rolled back and its message redelivered.
BuilderLost(w) ==
    /\ stage[w] # "idle"
    /\ troubles < MaxTroubles
    /\ troubles' = troubles + 1
    /\ messages' = [messages EXCEPT ![held[w].request] = @ + 1]
    /\ GoOn(w, "idle")
    /\ held' = [held EXCEPT ![w] = FreeBuilder]
    /\ UNCHANGED <<comparison, built, ai, usage, inputs, aged, lapsed, judged, unsent>>

\* A backfill retains a row that was known before the cutoffs.
Backfill ==
    /\ inputs < MaxInputs
    /\ inputs' = inputs + 1
    /\ UNCHANGED <<comparison, built, ai, usage, aged, lapsed, judged, unsent, messages, stage,
                   held, troubles>>

\* Ten minutes pass since a request was created.
Age(r) ==
    /\ comparison[r].status # "none"
    /\ r \notin aged
    /\ aged' = aged \cup {r}
    /\ UNCHANGED <<comparison, built, ai, usage, inputs, lapsed, judged, unsent, messages,
                   stage, held,
                   troubles>>

\* Thirty minutes pass since a build run was started.
Lapse(r, v) ==
    /\ built[r][v] # "none"
    /\ r \in aged
    /\ <<r, v>> \notin lapsed
    /\ lapsed' = lapsed \cup {<<r, v>>}
    /\ UNCHANGED <<comparison, built, ai, usage, inputs, aged, judged, unsent, messages, stage,
                   held, troubles>>

ExecuteBuild(w) ==
    \/ Begin(w) \/ ReadInputs(w) \/ FindSnapshot(w) \/ OpenRun(w)
    \/ \E verdict \in Done : BuildDocument(w, verdict)
    \/ Adopt(w) \/ Raise(w) \/ SkipCall(w) \/ TakeQuota(w) \/ CompareModel(w)
    \/ CommitBuild(w) \/ FailBuild(w) \/ ReturnBuild(w)

Route(r) == \E delivered \in BOOLEAN : DispatchComparison(r, delivered)

CompareNext ==
    \/ \E r \in Comparisons : \/ CreateComparison(r) \/ Repost(r) \/ Route(r)
                              \/ Judge(r) \/ Mark(r) \/ Age(r)
    \/ \E w \in Builders : \/ \E r \in Comparisons : TakeBuild(w, r)
                           \/ ExecuteBuild(w) \/ BuilderLost(w)
    \/ \E r \in Comparisons, v \in Inputs : Lapse(r, v)
    \/ Backfill

CompareSpec == CompareInit /\ [][CompareNext]_compareVars

\* Celery delivers and executes what is queued, routes go on, time passes, and the page
\* that shows a request that is not done polls it.
CompareFairness ==
    /\ \A w \in Builders : WF_compareVars(ExecuteBuild(w))
    /\ \A r \in Comparisons :
         /\ WF_compareVars(Route(r)) /\ WF_compareVars(\E w \in Builders : TakeBuild(w, r))
         /\ WF_compareVars(Judge(r) /\ r \notin judged) /\ WF_compareVars(Mark(r))
         /\ WF_compareVars(Age(r))
         /\ WF_compareVars(\E v \in Inputs : Lapse(r, v))

-----------------------------------------------------------------------------
(* Properties *)

\* A unit of the quota and the AI run it pays for appear together or not at all: a build
\* that fails, crashes or races another gives back what it had taken.
QuotaMatchesRuns ==
    usage = Cardinality({p \in Comparisons \X Inputs : ai[p[1]][p[2]] # "none"})

\* A request that says ready or partial shows a snapshot that was built, and says what a snapshot
\* of it deserves.  (Not always the one it shows: of two workers that both read the request after
\* it had a snapshot, one may leave the other's snapshot_id and write its own status over it.)
AnswerIsBuilt ==
    \A r \in Comparisons : comparison[r].status \in Done =>
        /\ comparison[r].snapshot # NoInputs
        /\ built[r][comparison[r].snapshot] # "none"
        /\ \E v \in Inputs : built[r][v] = comparison[r].status

\* Every accepted request is answered or fails, though its message was never delivered.
ComparisonSettles ==
    \A r \in Comparisons :
        comparison[r].status \in {"pending", "building"}
            ~> comparison[r].status \in Done \cup {"failed"}
=============================================================================
