------------------------------ MODULE Schedule ------------------------------
(***************************************************************************)
(* AutomationService's policy, its daily slot and the requests that make   *)
(* runs: operators edit the policy, ticks of Beat decide what is due and   *)
(* bring back what was not delivered, users and operators ask for runs.    *)
(*                                                                         *)
(* Every one of them is a session of its own, whose transactions the       *)
(* others come between.  What a run does once a worker has claimed it is   *)
(* in AutomationRun; here it ends, or its worker is lost.                  *)
(***************************************************************************)
EXTENDS Integers, FiniteSets, Sequences

CONSTANTS
    Configurations,   \* AutomationPolicyConfigurations
    DueAt,            \* daily_time of each, as an instant of the day
    TooSmall,         \* those whose max_universe_size is below the universe
    Ticks,            \* automation.tick tasks
    Askers,           \* requests for the preparation of a watchlist's stock
    Editors,          \* operators who edit the policy
    DayLength,        \* bound: instants of a day
    Catchup,          \* AUTOMATION_CATCHUP_WINDOW_MINUTES
    LeaseLength,      \* AUTOMATION_LEASE_MINUTES
    Concurrency,      \* AUTOMATION_MAX_CONCURRENCY
    MaxInstant,       \* bound: the last instant
    MaxAsked,         \* bound on rows that are not scheduled
    MaxMishaps,       \* bound on lost ticks and messages together
    MaxFollowed       \* bound on the rows whose progress is followed

ASSUME ScheduleAssumption ==
    /\ DayLength \in Nat \ {0} /\ DueAt \in [Configurations -> 0..(DayLength - 1)]
    /\ TooSmall \subseteq Configurations
    /\ Catchup \in Nat /\ LeaseLength \in Nat \ {0} /\ Concurrency \in Nat \ {0}
    /\ MaxInstant \in Nat /\ MaxAsked \in Nat
    /\ MaxMishaps \in Nat /\ MaxFollowed \in Nat

VARIABLES
    instant,
    enabled,      \* automation_policies.enabled
    editions,    \* the configurations of the revisions 1, 2, ...
    current,      \* current_revision_id, as the revision's number
    rows,         \* automation_runs, in the order of their creation
    sent,         \* rows whose automation.execute_run message is in the broker
    tick,         \* the sessions of the ticks
    asker,        \* the sessions of the requests
    editor,       \* the sessions of the operators
    ticked,       \* a tick has gone through in this instant
    steady,       \* nobody has edited the policy in this instant
    asks, mishaps

scheduleVars == <<instant, enabled, editions, current, rows, sent, tick, asker, editor,
                  ticked, steady, asks, mishaps>>

policyVars == <<enabled, editions, current, steady>>

Active == {"pending", "running"}
Day(i) == i \div DayLength
\* The slot of a configuration on the day of an instant.
SlotOf(i, c) == Day(i) * DayLength + DueAt[c]

NoTick == [at |-> "idle", ids |-> {}, moment |-> 0, enabled |-> FALSE, rev |-> 1]
NoAsk == [at |-> "idle", key |-> "first", bucket |-> 0, rev |-> 1, old |-> 0]
NoEdit == [at |-> "idle", rev |-> 1, enabled |-> FALSE]

\* Requests for a watchlist's stock, by how their key is made.
Watchlisting == {"first", "retry", "recovery"}

RunKinds == {"scheduled", "missed", "manual"} \cup Watchlisting

\* The columns of a run that matter: by what key it was made, and for which slot or bucket.
RunRows == [kind : RunKinds, slot : Int, rev : Nat,
            status : Active \cup {"ended", "failed", "blocked", "skipped"},
            made : 0..MaxInstant, lease : 0..(MaxInstant + LeaseLength)]
TickRows == [at : {"idle", "policy", "missing", "looking", "adding", "sending"}, ids : SUBSET Nat,
             moment : 0..MaxInstant, enabled : BOOLEAN, rev : Nat]
AskRows == [at : {"idle", "stalling", "looking", "adding"}, key : Watchlisting,
            bucket : 0..MaxInstant, rev : Nat, old : Nat]
EditRows == [at : {"idle", "editing"}, rev : Nat, enabled : BOOLEAN]

NewRow(kind, slot, rev, status) ==
    [kind |-> kind, slot |-> slot, rev |-> rev, status |-> status,
     made |-> IF kind \in Watchlisting THEN instant ELSE 0, lease |-> 0]

\* A tick brings back no more runs than run at a time, and adds one.
TickIsBounded(t) ==
    Cardinality(tick[t].ids) <= Concurrency + (IF tick[t].at = "sending" THEN 1 ELSE 0)

ScheduleTypeOK ==
    /\ instant \in 0..MaxInstant /\ {enabled, ticked, steady} \subseteq BOOLEAN
    /\ editions \in Seq(Configurations) /\ current \in 1..Len(editions)
    /\ rows \in Seq(RunRows) /\ \A k \in 1..Len(rows) : rows[k].rev \in 1..Len(editions)
    /\ sent \subseteq 1..Len(rows)
    /\ tick \in [Ticks -> TickRows]
    /\ \A t \in Ticks : /\ tick[t].ids \subseteq 1..Len(rows) /\ tick[t].moment <= instant
                        /\ tick[t].rev \in 1..Len(editions)
                        /\ TickIsBounded(t)
    /\ asker \in [Askers -> AskRows]
    /\ \A a \in Askers : /\ asker[a].rev \in 1..Len(editions) /\ asker[a].bucket <= instant
                         /\ asker[a].at = "stalling" => asker[a].old \in 1..Len(rows)
    /\ editor \in [Editors -> EditRows] /\ \A o \in Editors : editor[o].rev \in 1..Len(editions)
    /\ asks \in 0..MaxAsked /\ mishaps \in 0..MaxMishaps

\* ensure_default_policy: disabled, revision 1.
ScheduleInit ==
    /\ instant = 0
    /\ enabled = FALSE
    /\ editions \in {<<c>> : c \in Configurations}
    /\ current = 1
    /\ rows = <<>>
    /\ sent = {}
    /\ tick = [t \in Ticks |-> NoTick]
    /\ asker = [a \in Askers |-> NoAsk]
    /\ editor = [o \in Editors |-> NoEdit]
    /\ ticked = FALSE
    /\ steady = TRUE
    /\ asks = 0
    /\ mishaps = 0

-----------------------------------------------------------------------------
(* The policy *)

\* update_policy loads the policy, which the locking SELECT does not load again.
StartEdit(o) ==
    /\ editor[o].at = "idle"
    /\ editor' = [editor EXCEPT ![o] = [at |-> "editing", rev |-> current, enabled |-> enabled]]
    /\ UNCHANGED <<instant, policyVars, rows, sent, tick, asker, ticked, asks, mishaps>>

\* uq_automation_policy_revision and uq_automation_policy_hash
RevisionIsFree(rev, c) ==
    rev > Len(editions) /\ c \notin {editions[k] : k \in 1..Len(editions)}

\* current_revision_id is written with a new revision only.
WrittenRevision(mine, new) == IF new THEN mine.rev + 1 ELSE current

\* A configuration that differs from the loaded revision's becomes a revision, or raises;
\* enabled is written if it differs from what was loaded.
CommitEdit(o, c, enable) ==
    /\ editor[o].at = "editing"
    /\ LET mine == editor[o]
           new == c # editions[mine.rev]
       IN  IF new /\ ~RevisionIsFree(mine.rev + 1, c)
           THEN UNCHANGED policyVars
           ELSE /\ editions' = IF new THEN Append(editions, c) ELSE editions
                /\ current' = WrittenRevision(mine, new)
                /\ enabled' = IF enable # mine.enabled THEN enable ELSE enabled
                /\ steady' = FALSE
    /\ editor' = [editor EXCEPT ![o] = NoEdit]
    /\ UNCHANGED <<instant, rows, sent, tick, asker, ticked, asks, mishaps>>

-----------------------------------------------------------------------------
(* The tick *)

\* A variant: only lost workers are looked for.
OnlyLapsed(k) == rows[k].status = "running" /\ rows[k].lease <= instant

\* Pending, or running on a lease that is over.
BroughtBack(k) ==
    rows[k].status = "pending" \/ (rows[k].status = "running" /\ rows[k].lease <= instant)

\* The oldest, as many as run at a time.
Oldest(back) == {k \in back : Cardinality({j \in back : j < k}) < Concurrency}

\* The policy is loaded, then the oldest of the runs that are to be brought back.
StartTick(t) ==
    /\ tick[t].at = "idle"
    /\ tick' = [tick EXCEPT ![t] =
                  [at |-> "policy", moment |-> instant, enabled |-> enabled, rev |-> current,
                   ids |-> Oldest({k \in 1..Len(rows) : BroughtBack(k)})]]
    /\ UNCHANGED <<instant, policyVars, rows, sent, asker, editor, ticked, asks, mishaps>>

\* A variant: the next slot.
NextSlot(i, c) == SlotOf(i, c) + DayLength

\* due_slot
DueSlot(i, c) == SlotOf(i, c)

TickSlot(t) == DueSlot(tick[t].moment, editions[tick[t].rev])

\* The policy is locked and evaluated as it was loaded.
ReadPolicy(t) ==
    /\ tick[t].at = "policy"
    /\ tick' = [tick EXCEPT ![t] = [@ EXCEPT !.enabled = FALSE, !.at =
                  IF ~tick[t].enabled \/ tick[t].moment < TickSlot(t) THEN "sending"
                  ELSE IF tick[t].moment - TickSlot(t) > Catchup THEN "missing" ELSE "looking"]]
    /\ UNCHANGED <<instant, policyVars, rows, sent, asker, editor, ticked, asks, mishaps>>

\* A variant: no key.
NoKey(kind, slot, rev) == {}

\* The keys of _create_missed_run and trigger_run; a manual run's is unique.
MissedRows(slot) == {k \in 1..Len(rows) : rows[k].kind = "missed" /\ rows[k].slot = slot}
RowsOfKey(kind, slot, rev) ==
    {k \in 1..Len(rows) :
        rows[k].kind = kind /\ kind # "manual" /\ rows[k].slot = slot /\ rows[k].rev = rev}

\* _create_missed_run, which loses to another tick's row without a word.
AddMissed(t) ==
    /\ tick[t].at = "missing"
    /\ rows' = IF MissedRows(TickSlot(t)) = {}
               THEN Append(rows, NewRow("missed", TickSlot(t), tick[t].rev, "skipped")) ELSE rows
    /\ tick' = [tick EXCEPT ![t] = [@ EXCEPT !.at = "sending"]]
    /\ UNCHANGED <<instant, policyVars, sent, asker, editor, ticked, asks, mishaps>>

\* trigger_run looks for the slot's run, and freezes the universe if there is none.
LookForSlot(t) ==
    /\ tick[t].at = "looking"
    /\ LET found == RowsOfKey("scheduled", TickSlot(t), tick[t].rev)
       IN  tick' = [tick EXCEPT ![t] =
                      IF found = {} THEN [@ EXCEPT !.at = "adding"]
                      ELSE [@ EXCEPT !.at = "sending", !.ids = tick[t].ids \cup found]]
    /\ UNCHANGED <<instant, policyVars, rows, sent, asker, editor, ticked, asks, mishaps>>

\* A universe above the limit is blocked in full.
Accepted(rev) == IF editions[rev] \in TooSmall THEN "blocked" ELSE "pending"

\* The flush of trigger_run and its commit.  A row with this key raises, outside the try: the
\* task fails with all it was to deliver.
AddSlot(t) ==
    /\ tick[t].at = "adding"
    /\ LET rev == tick[t].rev
       IN  IF RowsOfKey("scheduled", TickSlot(t), rev) # {}
           THEN tick' = [tick EXCEPT ![t] = NoTick] /\ UNCHANGED rows
           ELSE /\ rows' = Append(rows, NewRow("scheduled", TickSlot(t), rev, Accepted(rev)))
                /\ tick' = [tick EXCEPT ![t] = [@ EXCEPT !.at = "sending",
                                                       !.ids = tick[t].ids \cup {Len(rows) + 1}]]
    /\ UNCHANGED <<instant, policyVars, sent, asker, editor, ticked, asks, mishaps>>

\* The task sends a message for each.
SendRuns(t) ==
    /\ tick[t].at = "sending"
    /\ sent' = sent \cup tick[t].ids
    /\ ticked' = (ticked \/ tick[t].moment = instant)
    /\ tick' = [tick EXCEPT ![t] = NoTick]
    /\ UNCHANGED <<instant, policyVars, rows, asker, editor, asks, mishaps>>

\* The task raises, or its worker is lost.
LoseTick(t) ==
    /\ tick[t].at # "idle" /\ mishaps < MaxMishaps
    /\ mishaps' = mishaps + 1
    /\ tick' = [tick EXCEPT ![t] = NoTick]
    /\ UNCHANGED <<instant, policyVars, rows, sent, asker, editor, ticked, asks>>

-----------------------------------------------------------------------------
(* Requests *)

\* What a route does with a row it has added: it sends a message, unless that fails.
SendRow(k) ==
    \/ sent' = sent \cup {k} /\ UNCHANGED mishaps
    \/ mishaps < MaxMishaps /\ mishaps' = mishaps + 1 /\ UNCHANGED sent

\* run_now and refresh_stock
AskManually ==
    /\ asks < MaxAsked
    /\ asks' = asks + 1
    /\ rows' = Append(rows, NewRow("manual", 0, current, Accepted(current)))
    /\ IF Accepted(current) = "pending" THEN SendRow(Len(rows) + 1) ELSE UNCHANGED <<sent, mishaps>>
    /\ UNCHANGED <<instant, policyVars, tick, asker, editor, ticked>>

\* A preparation that nobody has taken, or nobody is working on, for a lease's length.
Stalled(k) ==
    \/ rows[k].status = "pending" /\ rows[k].made + LeaseLength <= instant
    \/ rows[k].status = "running" /\ rows[k].lease <= instant

\* request_watchlist_preparation: the newest active run is reused unless it has stalled.
StartAsk(a, key) ==
    /\ asker[a].at = "idle" /\ asks < MaxAsked
    /\ asks' = asks + 1
    /\ LET active == {k \in 1..Len(rows) :
                         rows[k].kind \in Watchlisting /\ rows[k].status \in Active}
           last == CHOOSE k \in active : \A j \in active : j <= k
           mine(at, by, old) == [at |-> at, key |-> by, bucket |-> instant, rev |-> current,
                                 old |-> old]
       IN  asker' = [asker EXCEPT ![a] =
                       IF active = {} THEN mine("looking", key, 0)
                       ELSE IF Stalled(last)
                       THEN mine("stalling", IF key = "first" THEN "recovery" ELSE key, last)
                       ELSE NoAsk]
    /\ UNCHANGED <<instant, policyVars, rows, sent, tick, editor, ticked, mishaps>>

\* _mark_stalled_run, whatever has become of the run.
MarkStalledRow(a) ==
    /\ asker[a].at = "stalling"
    /\ rows' = [rows EXCEPT ![asker[a].old] = [@ EXCEPT !.status = "failed", !.lease = 0]]
    /\ asker' = [asker EXCEPT ![a] = [@ EXCEPT !.at = "looking"]]
    /\ UNCHANGED <<instant, policyVars, sent, tick, editor, ticked, asks, mishaps>>

LookForAsk(a) ==
    /\ asker[a].at = "looking"
    /\ asker' = [asker EXCEPT ![a] =
                   IF RowsOfKey(asker[a].key, asker[a].bucket, asker[a].rev) = {}
                   THEN [@ EXCEPT !.at = "adding"] ELSE NoAsk]
    /\ UNCHANGED <<instant, policyVars, rows, sent, tick, editor, ticked, asks, mishaps>>

\* One stock is never above the limit.
AddAsked(a) ==
    /\ asker[a].at = "adding"
    /\ IF RowsOfKey(asker[a].key, asker[a].bucket, asker[a].rev) # {}
       THEN UNCHANGED <<rows, sent, mishaps>>
       ELSE /\ rows' = Append(rows, NewRow(asker[a].key, asker[a].bucket, asker[a].rev, "pending"))
            /\ SendRow(Len(rows) + 1)
    /\ asker' = [asker EXCEPT ![a] = NoAsk]
    /\ UNCHANGED <<instant, policyVars, tick, editor, ticked, asks>>

-----------------------------------------------------------------------------
(* Workers and time *)

\* execute_run claims what is pending or whose lease is over, and leaves the rest alone.
TakeRun(k) ==
    /\ k \in sent
    /\ sent' = sent \ {k}
    /\ rows' = IF BroughtBack(k)
               THEN [rows EXCEPT ![k] = [@ EXCEPT !.status = "running",
                                                  !.lease = instant + LeaseLength]]
               ELSE rows
    /\ UNCHANGED <<instant, policyVars, tick, asker, editor, ticked, asks, mishaps>>

\* _finalize_run, unless the run's worker is lost.
EndRun(k) ==
    /\ rows[k].status = "running"
    /\ rows' = [rows EXCEPT ![k] = [@ EXCEPT !.status = "ended", !.lease = 0]]
    /\ UNCHANGED <<instant, policyVars, sent, tick, asker, editor, ticked, asks, mishaps>>

\* Beat's period is far below an instant: a tick goes through in each.
PassTime ==
    /\ instant < MaxInstant /\ ticked
    /\ instant' = instant + 1
    /\ ticked' = FALSE
    /\ steady' = TRUE
    /\ UNCHANGED <<enabled, editions, current, rows, sent, tick, asker, editor, asks, mishaps>>

TickGoesOn(t) ==
    ReadPolicy(t) \/ AddMissed(t) \/ LookForSlot(t) \/ AddSlot(t) \/ SendRuns(t)

ScheduleNext ==
    \/ \E o \in Editors :
         StartEdit(o) \/ \E c \in Configurations, enable \in BOOLEAN : CommitEdit(o, c, enable)
    \/ \E t \in Ticks : StartTick(t) \/ TickGoesOn(t) \/ LoseTick(t)
    \/ AskManually
    \/ \E a \in Askers : \/ \E key \in {"first", "retry"} : StartAsk(a, key)
                         \/ MarkStalledRow(a) \/ LookForAsk(a) \/ AddAsked(a)
    \/ \E k \in 1..Len(rows) : TakeRun(k) \/ EndRun(k)
    \/ PassTime

ScheduleSpec == ScheduleInit /\ [][ScheduleNext]_scheduleVars

-----------------------------------------------------------------------------
(* Properties *)

\* Whatever editors load and write, the policy stands in the latest of its revisions.
CurrentIsLatest == current = Len(editions)

\* However ticks overlap, lose their way or repeat, a slot has one run under one revision.
OneRunPerRevision ==
    \A j, k \in 1..Len(rows) :
        /\ rows[j].kind = "scheduled" /\ rows[k].kind = "scheduled"
        /\ rows[j].slot = rows[k].slot /\ rows[j].rev = rows[k].rev
        => j = k

\* Due, and enabled all through the instant in which a tick goes through, today's slot is not
\* passed over: it has a run, or is recorded as missed, whatever other ticks and requests did.
SlotIsAnswered ==
    LET slot == SlotOf(instant, editions[current])
    IN  steady /\ enabled /\ ticked /\ instant >= slot =>
            \E k \in 1..Len(rows) : rows[k].slot = slot /\ rows[k].kind \in {"scheduled", "missed"}

\* Whatever messages and ticks are lost, a run that is pending is taken or given up.
PendingIsTaken ==
    \A k \in 1..MaxFollowed :
        (k \in 1..Len(rows) /\ rows[k].status = "pending")
            ~> (k \in 1..Len(rows) /\ rows[k].status # "pending")
=============================================================================
