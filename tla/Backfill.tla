------------------------------ MODULE Backfill ------------------------------
(***************************************************************************)
(* ResearchCoverageService: what is retained about each stock is evaluated *)
(* into a coverage snapshot, a plan lists the actions that would close its *)
(* gaps, and calls of run_backfill execute the plan, a batch of items at a *)
(* time.                                                                   *)
(*                                                                         *)
(* A call locks the run only in its first transaction and its last, and    *)
(* in between works through a list of items it has loaded: two calls can   *)
(* overlap, an item's failure may end a call, and a worker may be lost.    *)
(***************************************************************************)
EXTENDS Integers, FiniteSets, Sequences

CONSTANTS
    Stocks,          \* the universe, as numbers in the order of their symbols
    Generals,        \* those whose issuer_type is "general"
    Callers,         \* processes that run run_backfill
    BatchSize,       \* coverage_backfill_batch_size
    AtFirst,         \* bound: what may be retained at first, by stock and dimension
    MaxInterruptions \* bound on lost processes and recover-coverage-backfill together

ASSUME StocksAssumption ==
    Stocks \subseteq Nat /\ IsFiniteSet(Stocks) /\ Generals \subseteq Stocks
ASSUME BatchAssumption == BatchSize \in Nat \ {0}
ASSUME BackfillBoundAssumption == MaxInterruptions \in Nat

VARIABLES
    developing,   \* coverage_usage_scope = "development_evaluation"
    retained,     \* what there is of each stock, by dimension
    coverage,     \* the latest coverage snapshot's manifest, or none
    plan,         \* coverage_backfill_runs.status
    item,         \* coverage_backfill_items, by stock and action
    asked,        \* calls that are asked for: commands, Celery messages
    at,           \* where each call is
    call,         \* what each call's session holds
    overlapped,   \* two calls, or a call and a recovery, have met
    gone          \* lost calls and recoveries so far

backfillVars == <<developing, retained, coverage, plan, item, asked, at, call, overlapped, gone>>

\* The dimensions that are planned for; ai_research is evaluated and never planned.
Dimensions == {"market", "financial", "fundamental_research", "industry", "peer_research",
               "event_radar", "screening"}
\* "some" is short of what counts as ready, "old" is beyond the dimension's freshness.
Levels(d) ==
    {"none", "fresh"}
        \cup (IF d = "screening" THEN {} ELSE {"old"})
        \cup (IF d \in {"financial", "event_radar", "screening"} THEN {"some"} ELSE {})

ASSUME AtFirstAssumption ==
    \A level \in AtFirst :
        /\ level \in [Stocks -> [Dimensions -> {"none", "some", "old", "fresh"}]]
        /\ \A s \in Stocks, d \in Dimensions : level[s][d] \in Levels(d)

\* plan_actions: dependency_order, action_key and dimension.
ActionPlan == [sync_market |-> <<10, "market">>,
          sync_financial_statements |-> <<20, "financial">>,
          sync_valuations |-> <<21, "financial">>,
          compute_fundamentals |-> <<30, "fundamental_research">>,
          build_research_snapshot |-> <<40, "fundamental_research">>,
          import_industry_membership |-> <<50, "industry">>,
          build_peer_research |-> <<60, "peer_research">>,
          sync_event_pipeline |-> <<70, "event_radar">>,
          rebuild_screening_snapshot |-> <<80, "screening">>]
ActionKeys == DOMAIN ActionPlan
Items == Stocks \X ActionKeys

\* The actions whose rows _artifact_fingerprint counts, and those that fetch from a source.
Counted == {"sync_market", "sync_financial_statements", "build_research_snapshot",
            "build_peer_research", "sync_event_pipeline"}
Sourced == {"sync_market", "sync_financial_statements", "sync_valuations",
            "import_industry_membership", "sync_event_pipeline"}

Unplanned == [status |-> "none", lapsed |-> FALSE, fed |-> FALSE]
NoCall == [list |-> <<>>, moved |-> FALSE, found |-> "none"]
RunOver == {"succeeded", "partial", "failed"}

BackfillTypeOK ==
    /\ developing \in BOOLEAN
    /\ \A s \in Stocks, d \in Dimensions : retained[s][d] \in Levels(d)
    /\ plan \in {"none", "pending", "running"} \cup RunOver
    /\ \A i \in Items :
         item[i].status \in {"none", "blocked", "pending", "running", "succeeded", "skipped",
                             "failed"}
    /\ at \in [Callers -> {"idle", "loading", "items", "working", "worked", "counting", "closing",
                           "evaluating"}]
    /\ \A c \in Callers : Len(call[c].list) <= BatchSize
                           /\ call[c].found \in {"none", "running"} \cup RunOver

BackfillInit ==
    /\ developing \in BOOLEAN
    /\ retained \in AtFirst
    /\ coverage = <<>>
    /\ plan = "none"
    /\ item = [i \in Items |-> Unplanned]
    /\ asked = 0
    /\ at = [c \in Callers |-> "idle"]
    /\ call = [c \in Callers |-> NoCall]
    /\ overlapped = FALSE
    /\ gone = 0

-----------------------------------------------------------------------------
(* Evaluation and planning *)

\* Variants of the definitions below, each the way a plausible bug would have it.
BySymbol(i, j) == i[1] < j[1] \/ (i[1] = j[1] /\ ActionPlan[i[2]][1] < ActionPlan[j[2]][1])
ProjectsSnapshots(a) == a \in {"build_research_snapshot", "build_peer_research"}

\* _evaluate_symbol, _dimension: the source health does not matter here.
Availability(s, d) ==
    IF d \in {"fundamental_research", "peer_research"} /\ s \notin Generals THEN "unsupported"
    ELSE IF d = "event_radar" /\ retained[s][d] = "some" THEN "partial"
    ELSE IF d # "screening" /\ ~developing THEN "blocked_by_policy"
    ELSE CASE retained[s][d] = "none" ->
                IF d \in {"market", "financial", "industry"} THEN "missing_source_data"
                ELSE "not_built"
           [] retained[s][d] = "some" -> "partial"
           [] OTHER -> "ready"

Evaluation ==
    [s \in Stocks |-> [d \in Dimensions |->
        [availability |-> Availability(s, d),
         stale |-> Availability(s, d) = "ready" /\ retained[s][d] = "old"]]]

\* build_coverage_snapshot
BuildCoverage ==
    /\ coverage = <<>>
    /\ coverage' = Evaluation
    /\ UNCHANGED <<developing, retained, plan, item, asked, at, call, overlapped, gone>>

\* plan_actions; valuations are added when the statements are not ready.
Needed(s, a) ==
    LET m == coverage[s][ActionPlan[a][2]]
    IN  m.availability # "ready" \/ (m.stale /\ a # "sync_valuations")

\* Screening is rebuilt once, for the first stock that asks.
Planned(s, a) ==
    Needed(s, a) /\ (a = "rebuild_screening_snapshot" => \A t \in Stocks : t < s => ~Needed(t, a))

\* plan_backfill of the latest coverage snapshot; a plan that exists is only read back.
PlanBackfill ==
    /\ coverage # <<>> /\ plan = "none"
    /\ item' = [i \in Items |->
          IF ~Planned(i[1], i[2]) THEN Unplanned
          ELSE [Unplanned EXCEPT !.status =
                   IF coverage[i[1]][ActionPlan[i[2]][2]].availability = "blocked_by_policy"
                   THEN "blocked" ELSE "pending"]]
    /\ plan' = "pending"
    /\ UNCHANGED <<developing, retained, coverage, asked, at, call, overlapped, gone>>

-----------------------------------------------------------------------------
(* run_backfill *)

Move(c, l) == at' = [at EXCEPT ![c] = l]

\* An operator asks for a call, by the command line or by the console's message.
Ask ==
    /\ plan \in {"pending", "running"} /\ asked = 0
    /\ asked' = 1
    /\ UNCHANGED <<developing, retained, coverage, plan, item, at, call, overlapped, gone>>

\* A lease that has expired is recovered by the next call.
Recoverable(i) == item[i].status = "running" /\ item[i].lapsed

\* The first transaction, under the run's lock.
StartCall(c) ==
    /\ at[c] = "idle" /\ asked > 0
    /\ asked' = asked - 1
    /\ IF plan \in RunOver
       THEN UNCHANGED <<plan, item, at, overlapped>>
       ELSE /\ plan' = "running"
            /\ item' = [i \in Items |-> IF Recoverable(i)
                          THEN [item[i] EXCEPT !.status = "pending", !.lapsed = FALSE] ELSE item[i]]
            /\ Move(c, "loading")
            /\ overlapped' = (overlapped \/ \E b \in Callers : at[b] # "idle")
    /\ UNCHANGED <<developing, retained, coverage, call, gone>>

\* ORDER BY dependency_order, symbol
Before(i, j) ==
    \/ ActionPlan[i[2]][1] < ActionPlan[j[2]][1]
    \/ ActionPlan[i[2]][1] = ActionPlan[j[2]][1] /\ i[1] < j[1]

Sorted(S) ==
    [k \in 1..Cardinality(S) |-> CHOOSE i \in S : Cardinality({j \in S : Before(j, i)}) = k - 1]

\* LIMIT coverage_backfill_batch_size
Batch(pending) == SubSeq(pending, 1, IF Len(pending) < BatchSize THEN Len(pending) ELSE BatchSize)

LoadItems(c) ==
    /\ at[c] = "loading"
    /\ call' = [call EXCEPT ![c].list =
                  Batch(Sorted({i \in Items : item[i].status = "pending"}))]
    /\ Move(c, IF call'[c].list = <<>> THEN "counting" ELSE "items")
    /\ UNCHANGED <<developing, retained, coverage, plan, item, asked, overlapped, gone>>

\* _execute_item: running and leased, whatever has become of it since it was loaded.
BeginItem(c) ==
    /\ at[c] = "items"
    /\ item' = [item EXCEPT ![Head(call[c].list)].status = "running",
                            ![Head(call[c].list)].lapsed = FALSE]
    /\ call' = [call EXCEPT ![c].moved = FALSE]
    /\ Move(c, "working")
    /\ UNCHANGED <<developing, retained, coverage, plan, asked, overlapped, gone>>

\* The action's service commits what it has got; its rows move the fingerprint every call
\* takes of that stock.
WorkItem(c) ==
    /\ at[c] = "working"
    /\ LET s == Head(call[c].list)[1]
           a == Head(call[c].list)[2]
       IN  \E got \in BOOLEAN :
             /\ retained' = IF got /\ a \notin {"sync_valuations", "compute_fundamentals"}
                            THEN [retained EXCEPT ![s][ActionPlan[a][2]] = "fresh"] ELSE retained
             /\ call' = IF got /\ a \in Counted
                        THEN [b \in Callers |->
                                IF at[b] \in {"working", "worked"} /\ Head(call[b].list)[1] = s
                                THEN [call[b] EXCEPT !.moved = TRUE] ELSE call[b]]
                        ELSE call
    /\ Move(c, "worked")
    /\ UNCHANGED <<developing, coverage, plan, item, asked, overlapped, gone>>

\* After an item: the next one of the list, or the count.
Proceed(c) ==
    /\ call' = [call EXCEPT ![c].list = Tail(@), ![c].moved = FALSE]
    /\ Move(c, IF Len(call[c].list) = 1 THEN "counting" ELSE "items")

\* The artifacts whose signals the research feed projects when the fingerprint has moved.
Projects(a) == a \in {"build_research_snapshot", "build_peer_research", "sync_event_pipeline"}

\* The status commits with the signals it projects.  What another call has changed meanwhile
\* counts as changed here, though the action's service may say that it skipped.
FinishItem(c, skipped) ==
    /\ at[c] = "worked"
    /\ LET i == Head(call[c].list)
       IN  item' = [item EXCEPT ![i] =
                      [status |-> IF call[c].moved /\ ~skipped THEN "succeeded" ELSE "skipped",
                       lapsed |-> FALSE,
                       fed |-> @.fed \/ (call[c].moved /\ Projects(i[2]))]]
    /\ Proceed(c)
    /\ UNCHANGED <<developing, retained, coverage, plan, asked, overlapped, gone>>

\* The action, the fingerprint or the projection raises.  The rollback expires every row
\* of the session if a transaction was under way, and the call raises at its next row.
FailItem(c, expired) ==
    /\ at[c] \in {"working", "worked"}
    /\ item' = [item EXCEPT ![Head(call[c].list)].status = "failed",
                            ![Head(call[c].list)].lapsed = FALSE]
    /\ IF expired THEN Move(c, "idle") /\ call' = [call EXCEPT ![c] = NoCall] ELSE Proceed(c)
    /\ UNCHANGED <<developing, retained, coverage, plan, asked, overlapped, gone>>

\* What counts as not done.
Unfinished(i) == item[i].status \in {"pending", "running"}

AnyItem(st) == \E i \in Items : item[i].status = st

\* The SELECT of the statuses, and what the run's status will be.
CountItems(c) ==
    /\ at[c] = "counting"
    /\ call' = [call EXCEPT ![c].found =
          IF \E i \in Items : Unfinished(i) THEN "running"
          ELSE IF ~AnyItem("failed") THEN "succeeded"
          ELSE IF AnyItem("succeeded") THEN "partial" ELSE "failed"]
    /\ Move(c, "closing")
    /\ UNCHANGED <<developing, retained, coverage, plan, item, asked, overlapped, gone>>

\* The run's last commit; running is what its session believes the status to be already.
CloseRun(c) ==
    /\ at[c] = "closing"
    /\ IF call[c].found = "running"
       THEN Move(c, "idle") /\ UNCHANGED plan
       ELSE Move(c, "evaluating") /\ plan' = call[c].found
    /\ call' = [call EXCEPT ![c] = NoCall]
    /\ UNCHANGED <<developing, retained, coverage, item, asked, overlapped, gone>>

\* build_coverage_snapshot of the run's universe.
EvaluateAgain(c) ==
    /\ at[c] = "evaluating"
    /\ coverage' = Evaluation
    /\ Move(c, "idle")
    /\ UNCHANGED <<developing, retained, plan, item, asked, call, overlapped, gone>>

-----------------------------------------------------------------------------
(* Interruptions *)

\* A process is lost; Celery redelivers its message, an operator repeats the command.
CallLost(c) ==
    /\ at[c] # "idle"
    /\ gone < MaxInterruptions
    /\ gone' = gone + 1
    /\ asked' = asked + 1
    /\ Move(c, "idle")
    /\ call' = [call EXCEPT ![c] = NoCall]
    /\ UNCHANGED <<developing, retained, coverage, plan, item, overlapped>>

\* recover_interrupted_backfill: every running item, and the run whatever its status.
Recover ==
    /\ plan # "none"
    /\ gone < MaxInterruptions
    /\ gone' = gone + 1
    /\ item' = [i \in Items |-> IF item[i].status = "running"
                  THEN [item[i] EXCEPT !.status = "pending", !.lapsed = FALSE] ELSE item[i]]
    /\ plan' = "pending"
    /\ overlapped' = (overlapped \/ \E b \in Callers : at[b] # "idle")
    /\ UNCHANGED <<developing, retained, coverage, asked, at, call>>

\* Thirty minutes pass over an item no call is executing.
ItemLapses(i) ==
    /\ item[i].status = "running" /\ ~item[i].lapsed
    /\ \A c \in Callers : at[c] \in {"working", "worked"} => Head(call[c].list) # i
    /\ item' = [item EXCEPT ![i].lapsed = TRUE]
    /\ UNCHANGED <<developing, retained, coverage, plan, asked, at, call, overlapped, gone>>

CallGoesOn(c) ==
    \/ LoadItems(c) \/ BeginItem(c) \/ WorkItem(c)
    \/ \E skipped \in BOOLEAN : FinishItem(c, skipped)
    \/ \E expired \in BOOLEAN : FailItem(c, expired)
    \/ CountItems(c) \/ CloseRun(c) \/ EvaluateAgain(c)

BackfillNext ==
    \/ BuildCoverage \/ PlanBackfill \/ Ask \/ Recover
    \/ \E c \in Callers : StartCall(c) \/ CallGoesOn(c) \/ CallLost(c)
    \/ \E i \in Items : ItemLapses(i)

BackfillSpec == BackfillInit /\ [][BackfillNext]_backfillVars

\* Calls that are asked for are made and go on, time passes, and an operator asks again
\* for a run that is not over.
BackfillFairness ==
    /\ WF_backfillVars(Ask)
    /\ WF_backfillVars(\E c \in Callers : StartCall(c))
    /\ \A c \in Callers : WF_backfillVars(CallGoesOn(c))
    /\ \A i \in Items : WF_backfillVars(ItemLapses(i))

-----------------------------------------------------------------------------
(* Properties *)

\* An artifact of research, peers or events that a run reports as changed has reached the
\* research feed, whatever was lost or overlapped: the status commits with the signals.
\* (compute_fundamentals writes none that the feed reads; it counts as changed when another
\* call's rows of the stock arrive meanwhile.)
SucceededIsProjected ==
    \A i \in Items :
        /\ item[i].status = "succeeded" /\ i[2] # "compute_fundamentals"
        /\ ActionPlan[i[2]][2] \in {"fundamental_research", "peer_research", "event_radar"}
        => item[i].fed

\* Unless calls have overlapped, a run that is over has no item left and its status tells
\* the truth of its items, though calls were lost or raised on the way.
OverIsAccountedFor ==
    plan \in RunOver /\ ~overlapped =>
        /\ \A i \in Items : item[i].status \notin {"pending", "running"}
        /\ (plan = "succeeded") = ~AnyItem("failed")
        /\ plan = "partial" => AnyItem("succeeded")

\* What an operator reads of a backfill is true: of its items as of the run.
ReportIsTrue == SucceededIsProjected /\ OverIsAccountedFor

\* What the dataset policy has blocked is never executed, by a call or after a recovery.
BlockedIsNeverRun ==
    [][\A i \in Items : item[i].status = "blocked" => item'[i].status = "blocked"]_item

\* Unless calls overlap, an item is begun only when no item of an earlier step is pending,
\* over batches, lost calls and recoveries.
UpstreamFirst ==
    [][~overlapped' => \A i \in Items :
         item[i].status # "running" /\ item'[i].status = "running" =>
            \A j \in Items :
                ActionPlan[j[2]][1] < ActionPlan[i[2]][1] => item[j].status # "pending"]_item

\* A run that its operator keeps asking for ends.
BackfillEnds == plan \in {"pending", "running"} ~> plan \in RunOver

\* AKShare-backed collection happens only in the scope that allows it.
SourcesAreGated ==
    \A i \in Items : ~developing /\ i[2] \in Sourced => item[i].status # "running"
=============================================================================
