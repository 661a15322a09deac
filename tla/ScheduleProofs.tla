---------------------------- MODULE ScheduleProofs ----------------------------
(***************************************************************************)
(* What holds of the policy and its daily slot for every number of ticks,  *)
(* requests, operators and configurations: a slot has one run under one    *)
(* revision, the policy stands in its latest revision, a tick brings back  *)
(* no more runs than may run, and no slot is passed over.  The inductive   *)
(* invariant says what a tick that began in this instant knows of a policy *)
(* that nobody has edited since.                                           *)
(***************************************************************************)
EXTENDS Schedule, FiniteSetTheorems, WellFoundedInduction, TLAPS

\* A slot that has a run, or is recorded as missed.
Answered(slot) ==
    \E k \in 1..Len(rows) : rows[k].slot = slot /\ rows[k].kind \in {"scheduled", "missed"}

Today == SlotOf(instant, editions[current])

\* What a tick of this instant goes by is the policy as it stands, unless that was edited.
TickKnows(t) ==
    tick[t].at # "idle" /\ tick[t].moment = instant /\ steady =>
        /\ tick[t].rev = current
        /\ tick[t].at = "policy" => tick[t].enabled = enabled
        /\ tick[t].at = "sending" /\ enabled /\ instant >= Today => Answered(Today)

ScheduleInv ==
    /\ ScheduleTypeOK
    /\ CurrentIsLatest
    /\ OneRunPerRevision
    /\ \A t \in Ticks : TickKnows(t)
    /\ SlotIsAnswered

-----------------------------------------------------------------------------
USE ScheduleAssumption

(* Sequences of runs and of revisions *)

LEMMA RowAdded ==
    ASSUME rows \in Seq(RunRows), NEW row \in RunRows, rows' = Append(rows, row)
    PROVE  /\ rows' \in Seq(RunRows) /\ Len(rows) \in Nat /\ Len(rows') = Len(rows) + 1
           /\ \A k \in 1..Len(rows) : rows'[k] = rows[k]
           /\ rows'[Len(rows) + 1] = row
  OBVIOUS

LEMMA RowChanged ==
    ASSUME rows \in Seq(RunRows), NEW k \in 1..Len(rows), NEW row \in RunRows,
           rows' = [rows EXCEPT ![k] = row]
    PROVE  /\ rows' \in Seq(RunRows) /\ Len(rows) \in Nat /\ Len(rows') = Len(rows)
           /\ \A j \in 1..Len(rows) : rows'[j] = IF j = k THEN row ELSE rows[j]
  OBVIOUS

\* The status that a run begins in.
NewStatus == {"pending", "blocked", "skipped"}

LEMMA NewRowTypes ==
    ASSUME instant \in 0..MaxInstant,
           NEW kind \in RunKinds, NEW slot \in Int,
           NEW rev \in Nat, NEW status \in NewStatus
    PROVE  /\ NewRow(kind, slot, rev, status) \in RunRows
           /\ NewRow(kind, slot, rev, status).kind = kind
           /\ NewRow(kind, slot, rev, status).slot = slot
           /\ NewRow(kind, slot, rev, status).rev = rev
<1>1. 0 \in 0..MaxInstant /\ 0 \in 0..(MaxInstant + LeaseLength)
  OBVIOUS
<1>2. QED
  BY <1>1 DEF NewRow, RunRows, Active, NewStatus

\* A row whose status and lease have changed.
Turned(row, status, lease) == [row EXCEPT !.status = status, !.lease = lease]

LEMMA TurnedTypes ==
    ASSUME NEW row \in RunRows, NEW status \in Active \cup {"ended", "failed"},
           NEW lease \in 0..(MaxInstant + LeaseLength)
    PROVE  /\ Turned(row, status, lease) \in RunRows
           /\ Turned(row, status, lease).kind = row.kind
           /\ Turned(row, status, lease).slot = row.slot
           /\ Turned(row, status, lease).rev = row.rev
  BY DEF Turned, RunRows, Active

LEMMA SlotTypes ==
    ASSUME NEW i \in 0..MaxInstant, NEW c \in Configurations
    PROVE  SlotOf(i, c) \in Int
<1>1. Day(i) \in Int
  BY DEF Day
<1>2. Day(i) * DayLength \in Int /\ DueAt[c] \in Int
  BY <1>1
<1>3. QED
  BY <1>2 DEF SlotOf

-----------------------------------------------------------------------------
(* What the steps leave *)

\* Runs are added at the end, and what they were made for stays.
RowsGrow ==
    /\ rows' \in Seq(RunRows) /\ Len(rows) \in Nat /\ Len(rows') \in {Len(rows), Len(rows) + 1}
    /\ \A k \in 1..Len(rows) : /\ rows'[k].kind = rows[k].kind /\ rows'[k].slot = rows[k].slot
                               /\ rows'[k].rev = rows[k].rev
    /\ \A k \in 1..Len(rows') : rows'[k].rev \in 1..Len(editions)

LEMMA AddedGrow ==
    ASSUME ScheduleTypeOK, NEW kind \in RunKinds,
           NEW slot \in Int, NEW rev \in 1..Len(editions),
           NEW status \in NewStatus,
           rows' = Append(rows, NewRow(kind, slot, rev, status))
    PROVE  RowsGrow
<1> DEFINE row == NewRow(kind, slot, rev, status)
<1>1. rows \in Seq(RunRows) /\ instant \in 0..MaxInstant
      /\ \A k \in 1..Len(rows) : rows[k].rev \in 1..Len(editions)
  BY DEF ScheduleTypeOK
<1>2. row \in RunRows /\ row.rev = rev
  <2>1. rev \in Nat
    BY DEF ScheduleTypeOK
  <2>2. QED
    BY <1>1, <2>1, NewRowTypes
<1> HIDE DEF row
<1>3. /\ rows' \in Seq(RunRows) /\ Len(rows) \in Nat /\ Len(rows') = Len(rows) + 1
      /\ \A k \in 1..Len(rows) : rows'[k] = rows[k]
      /\ rows'[Len(rows) + 1] = row
  BY <1>1, <1>2, RowAdded DEF row
<1>4. ASSUME NEW k \in 1..Len(rows') PROVE rows'[k].rev \in 1..Len(editions)
  BY <1>1, <1>2, <1>3, <1>4
<1>5. QED
  BY <1>3, <1>4 DEF RowsGrow

LEMMA TurnedGrow ==
    ASSUME ScheduleTypeOK, NEW k \in 1..Len(rows), NEW status \in Active \cup {"ended", "failed"},
           NEW lease \in 0..(MaxInstant + LeaseLength),
           rows' = [rows EXCEPT ![k] = Turned(rows[k], status, lease)]
    PROVE  RowsGrow
<1>1. rows \in Seq(RunRows) /\ \A j \in 1..Len(rows) : rows[j].rev \in 1..Len(editions)
  BY DEF ScheduleTypeOK
<1>2. rows[k] \in RunRows
  BY <1>1
<1>3. PICK row : row = Turned(rows[k], status, lease)
  OBVIOUS
<1>4. row \in RunRows /\ row.kind = rows[k].kind /\ row.slot = rows[k].slot
      /\ row.rev = rows[k].rev
  BY <1>2, <1>3, TurnedTypes
<1>5. /\ rows' \in Seq(RunRows) /\ Len(rows) \in Nat /\ Len(rows') = Len(rows)
      /\ \A j \in 1..Len(rows) : rows'[j] = IF j = k THEN row ELSE rows[j]
  BY <1>1, <1>3, <1>4, RowChanged
<1>6. QED
  BY <1>1, <1>4, <1>5 DEF RowsGrow

LEMMA TickSlotTypes ==
    ASSUME ScheduleTypeOK, NEW t \in Ticks PROVE TickSlot(t) \in Int
<1>1. tick[t].moment \in 0..MaxInstant /\ tick[t].rev \in 1..Len(editions)
  BY DEF ScheduleTypeOK, TickRows
<1>2. editions[tick[t].rev] \in Configurations
  BY <1>1 DEF ScheduleTypeOK
<1>3. QED
  BY <1>1, <1>2, SlotTypes DEF TickSlot, DueSlot

LEMMA RowsStep ==
    ASSUME ScheduleTypeOK, [ScheduleNext]_scheduleVars PROVE RowsGrow
<1>1. CASE UNCHANGED rows
  <2>1. rows \in Seq(RunRows) /\ \A k \in 1..Len(rows) : rows[k].rev \in 1..Len(editions)
    BY DEF ScheduleTypeOK
  <2>2. QED
    BY <1>1, <2>1 DEF RowsGrow
<1>2. ASSUME NEW t \in Ticks, AddMissed(t) PROVE RowsGrow
  <2>1. tick[t].rev \in 1..Len(editions) /\ "missed" \in RunKinds /\ "skipped" \in NewStatus
    BY DEF ScheduleTypeOK, RunKinds, NewStatus
  <2>2. rows' = Append(rows, NewRow("missed", TickSlot(t), tick[t].rev, "skipped"))
        \/ UNCHANGED rows
    BY <1>2 DEF AddMissed
  <2>3. QED
    BY <1>1, <2>1, <2>2, TickSlotTypes, AddedGrow
<1>3. ASSUME NEW t \in Ticks, AddSlot(t) PROVE RowsGrow
  <2>1. tick[t].rev \in 1..Len(editions)
    BY DEF ScheduleTypeOK
  <2>2. Accepted(tick[t].rev) \in NewStatus /\ "scheduled" \in RunKinds
    BY DEF Accepted, NewStatus, RunKinds
  <2>3. rows' = Append(rows, NewRow("scheduled", TickSlot(t), tick[t].rev, Accepted(tick[t].rev)))
        \/ UNCHANGED rows
    BY <1>3 DEF AddSlot
  <2>4. TickSlot(t) \in Int
    BY TickSlotTypes
  <2>5. rows' = Append(rows, NewRow("scheduled", TickSlot(t), tick[t].rev, Accepted(tick[t].rev)))
        => RowsGrow
    BY <2>1, <2>2, <2>4, AddedGrow
  <2>6. QED
    BY <1>1, <2>3, <2>5
<1>4. CASE AskManually
  <2>1. current \in 1..Len(editions) /\ Accepted(current) \in NewStatus /\ "manual" \in RunKinds
    BY DEF ScheduleTypeOK, Accepted, NewStatus, RunKinds
  <2>2. rows' = Append(rows, NewRow("manual", 0, current, Accepted(current)))
    BY <1>4 DEF AskManually
  <2>3. QED
    BY <2>1, <2>2, AddedGrow
<1>5. ASSUME NEW a \in Askers, AddAsked(a) PROVE RowsGrow
  <2>1. /\ asker[a].key \in Watchlisting /\ asker[a].bucket \in Int
        /\ asker[a].rev \in 1..Len(editions)
    BY DEF ScheduleTypeOK, AskRows
  <2>3. asker[a].key \in RunKinds /\ "pending" \in NewStatus
    BY <2>1 DEF RunKinds, NewStatus
  <2>4. PICK kind, slot, rev : kind = asker[a].key /\ slot = asker[a].bucket /\ rev = asker[a].rev
    OBVIOUS
  <2>5. kind \in RunKinds /\ slot \in Int /\ rev \in 1..Len(editions) /\ "pending" \in NewStatus
    BY <2>1, <2>3, <2>4
  <2>6. rows' = Append(rows, NewRow(kind, slot, rev, "pending")) => RowsGrow
    BY <2>5, AddedGrow
  <2>7. rows' = Append(rows, NewRow(kind, slot, rev, "pending")) \/ UNCHANGED rows
    BY <1>5, <2>4 DEF AddAsked
  <2>8. QED
    BY <1>1, <2>6, <2>7
<1>6. ASSUME NEW a \in Askers, MarkStalledRow(a) PROVE RowsGrow
  <2>1. asker[a].old \in 1..Len(rows)
    BY <1>6 DEF ScheduleTypeOK, MarkStalledRow
  <2>2. rows' = [rows EXCEPT ![asker[a].old] = Turned(rows[asker[a].old], "failed", 0)]
    BY <1>6 DEF MarkStalledRow, Turned
  <2>3. 0 \in 0..(MaxInstant + LeaseLength)
    OBVIOUS
  <2>4. QED
    BY <2>1, <2>2, <2>3, TurnedGrow
<1>7. ASSUME NEW k \in 1..Len(rows), TakeRun(k) PROVE RowsGrow
  <2>1. instant + LeaseLength \in 0..(MaxInstant + LeaseLength)
    BY DEF ScheduleTypeOK
  <2>2. rows' = [rows EXCEPT ![k] = Turned(rows[k], "running", instant + LeaseLength)]
        \/ UNCHANGED rows
    BY <1>7 DEF TakeRun, Turned
  <2>3. QED
    BY <1>1, <2>1, <2>2, TurnedGrow DEF Active
<1>8. ASSUME NEW k \in 1..Len(rows), EndRun(k) PROVE RowsGrow
  <2>1. 0 \in 0..(MaxInstant + LeaseLength)
    OBVIOUS
  <2>2. rows' = [rows EXCEPT ![k] = Turned(rows[k], "ended", 0)]
    BY <1>8 DEF EndRun, Turned
  <2>3. QED
    BY <2>1, <2>2, TurnedGrow
<1>9. CASE PassTime \/ UNCHANGED scheduleVars
  BY <1>1, <1>9 DEF PassTime, scheduleVars
<1>10. ASSUME NEW o \in Editors,
              StartEdit(o) \/ \E c \in Configurations, enable \in BOOLEAN : CommitEdit(o, c, enable)
       PROVE  RowsGrow
  BY <1>1, <1>10 DEF StartEdit, CommitEdit
<1>11. ASSUME NEW t \in Ticks, StartTick(t) \/ TickGoesOn(t) \/ LoseTick(t) PROVE RowsGrow
  BY <1>1, <1>2, <1>3, <1>11
  DEF StartTick, LoseTick, TickGoesOn, ReadPolicy, LookForSlot, SendRuns
<1>12. ASSUME NEW a \in Askers, \/ \E key \in {"first", "retry"} : StartAsk(a, key)
                                \/ MarkStalledRow(a) \/ LookForAsk(a) \/ AddAsked(a)
       PROVE  RowsGrow
  BY <1>1, <1>5, <1>6, <1>12 DEF StartAsk, LookForAsk
<1>13. QED
  BY <1>4, <1>7, <1>8, <1>9, <1>10, <1>11, <1>12 DEF ScheduleNext

\* Revisions are added at the end, and the policy goes to what is added.
EditionsGrow ==
    /\ editions' \in Seq(Configurations) /\ Len(editions) \in Nat /\ Len(editions') \in Nat
    /\ Len(editions) <= Len(editions')
    /\ \A k \in 1..Len(editions) : editions'[k] = editions[k]
    /\ current' = Len(editions') /\ current' \in 1..Len(editions')

\* What is steady is as it was.
PolicyStays ==
    /\ steady' => UNCHANGED <<enabled, editions, current>>
    /\ steady' /\ instant' = instant => steady

LEMMA PolicyStep ==
    ASSUME ScheduleTypeOK, CurrentIsLatest, [ScheduleNext]_scheduleVars
    PROVE  /\ EditionsGrow /\ PolicyStays /\ {enabled', steady', ticked'} \subseteq BOOLEAN
           /\ instant' \in 0..MaxInstant /\ instant' \in {instant, instant + 1}
<1> DEFINE Goal == /\ EditionsGrow /\ PolicyStays /\ {enabled', steady', ticked'} \subseteq BOOLEAN
                   /\ instant' \in 0..MaxInstant /\ instant' \in {instant, instant + 1}
<1>1. /\ editions \in Seq(Configurations) /\ Len(editions) \in Nat /\ current \in 1..Len(editions)
      /\ current = Len(editions) /\ {enabled, steady, ticked} \subseteq BOOLEAN
      /\ instant \in 0..MaxInstant
  BY DEF ScheduleTypeOK, CurrentIsLatest
<1>2. UNCHANGED <<editions, current>> => EditionsGrow
  BY <1>1 DEF EditionsGrow
<1>3. CASE UNCHANGED policyVars /\ UNCHANGED instant /\ ticked' \in BOOLEAN
  BY <1>1, <1>2, <1>3 DEF policyVars, PolicyStays
<1>4. ASSUME NEW o \in Editors, NEW c \in Configurations, NEW enable \in BOOLEAN,
             CommitEdit(o, c, enable)
      PROVE  Goal
  <2>1. CASE UNCHANGED policyVars
    BY <1>1, <1>3, <1>4, <2>1 DEF CommitEdit
  <2>2. CASE ~UNCHANGED policyVars
    <3> DEFINE mine == editor[o]
               new == c # editions[mine.rev]
    <3>1. mine.rev \in 1..Len(editions)
      BY DEF ScheduleTypeOK
    <3>2. /\ new => RevisionIsFree(mine.rev + 1, c)
          /\ editions' = IF new THEN Append(editions, c) ELSE editions
          /\ current' = WrittenRevision(mine, new)
          /\ enabled' = IF enable # mine.enabled THEN enable ELSE enabled
          /\ steady' = FALSE /\ UNCHANGED <<instant, ticked>>
      BY <1>4, <2>2 DEF CommitEdit
    <3>3. CASE new
      <4>1. mine.rev = Len(editions)
        BY <1>1, <3>1, <3>2, <3>3 DEF RevisionIsFree
      <4>2. editions' = Append(editions, c) /\ current' = Len(editions) + 1
        BY <3>2, <3>3, <4>1 DEF WrittenRevision
      <4>3. Len(editions') = Len(editions) + 1 /\ editions' \in Seq(Configurations)
            /\ \A k \in 1..Len(editions) : editions'[k] = editions[k]
        BY <1>1, <4>2
      <4>4. EditionsGrow
        BY <1>1, <4>2, <4>3 DEF EditionsGrow
      <4>5. QED
        BY <1>1, <3>2, <4>4 DEF PolicyStays
    <3>4. CASE ~new
      <4>1. UNCHANGED <<editions, current>>
        BY <3>2, <3>4 DEF WrittenRevision
      <4>2. QED
        BY <1>1, <1>2, <3>2, <4>1 DEF PolicyStays
    <3>5. QED
      BY <3>3, <3>4
  <2>3. QED
    BY <2>1, <2>2
<1>5. CASE PassTime
  <2>1. instant + 1 \in 0..MaxInstant /\ instant' = instant + 1
    BY <1>1, <1>5 DEF PassTime
  <2>2. UNCHANGED <<enabled, editions, current>> /\ steady' = TRUE /\ ticked' = FALSE
    BY <1>5 DEF PassTime
  <2>3. EditionsGrow /\ instant' # instant
    BY <1>1, <1>2, <2>1, <2>2
  <2>4. PolicyStays
    BY <2>2, <2>3 DEF PolicyStays
  <2>5. {enabled', steady', ticked'} \subseteq BOOLEAN
    BY <1>1, <2>2
  <2>6. QED
    BY <2>1, <2>3, <2>4, <2>5
<1>6. ASSUME NEW t \in Ticks, StartTick(t) \/ TickGoesOn(t) \/ LoseTick(t) PROVE Goal
  BY <1>1, <1>3, <1>6
  DEF StartTick, LoseTick, TickGoesOn, ReadPolicy, AddMissed, LookForSlot, AddSlot, SendRuns
<1>7. ASSUME NEW a \in Askers, \/ \E key \in {"first", "retry"} : StartAsk(a, key)
                               \/ MarkStalledRow(a) \/ LookForAsk(a) \/ AddAsked(a)
      PROVE  Goal
  BY <1>1, <1>3, <1>7 DEF StartAsk, MarkStalledRow, LookForAsk, AddAsked
<1>8. CASE AskManually \/ (\E k \in 1..Len(rows) : TakeRun(k) \/ EndRun(k))
           \/ (\E o \in Editors : StartEdit(o)) \/ UNCHANGED scheduleVars
  BY <1>1, <1>3, <1>8 DEF AskManually, TakeRun, EndRun, StartEdit, scheduleVars, policyVars
<1>9. QED
  BY <1>4, <1>5, <1>6, <1>7, <1>8 DEF ScheduleNext

-----------------------------------------------------------------------------
(* What a tick brings back *)

\* Some runs have a latest.
LEMMA LatestExists ==
    ASSUME NEW n \in Nat, NEW some \in SUBSET (1..n), some # {}
    PROVE  \E m \in some : \A j \in some : j <= m
<1> DEFINE left == {n - k : k \in some}
<1>1. \A k \in some : k \in 1..n /\ n - k \in Nat
  <2>1. \A k \in 1..n : n - k \in Nat
    OBVIOUS
  <2>2. QED
    BY <2>1
<1>2. left \subseteq Nat /\ left # {}
  BY <1>1
<1>3. PICK x \in left : \A y \in left : ~(<<y, x>> \in OpToRel(<, Nat))
  BY <1>2, NatLessThanWellFounded, WFMin
<1>4. \A y, z \in Nat : y < z => <<y, z>> \in OpToRel(<, Nat)
  BY DEF OpToRel
<1>5. \A y \in left : y \in Nat /\ x \in Nat /\ ~(y < x)
  <2> HIDE DEF left
  <2>1. QED
    BY <1>2, <1>3, <1>4
<1>6. PICK m \in some : x = n - m
  OBVIOUS
<1>7. ASSUME NEW j \in some PROVE j <= m
  <2>1. n - j \in left
    OBVIOUS
  <2>2. ~(n - j < n - m) /\ j \in 1..n /\ m \in 1..n
    BY <1>1, <1>5, <1>6, <2>1
  <2>3. QED
    BY <2>2
<1>8. QED
  BY <1>7

\* The oldest of what is to be brought back are no more than run at a time.
LEMMA OldestIsBounded ==
    ASSUME NEW n \in Nat, NEW back \in SUBSET (1..n)
    PROVE  /\ Oldest(back) \subseteq back /\ IsFiniteSet(Oldest(back))
           /\ Cardinality(Oldest(back)) <= Concurrency
<1> DEFINE old == Oldest(back)
           before(m) == {j \in back : j < m}
<1>1. IsFiniteSet(back)
  <2>1. IsFiniteSet(1..n)
    BY FS_Interval
  <2>2. QED
    BY <2>1, FS_Subset
<1>2. old \subseteq back /\ \A m \in old : Cardinality(before(m)) < Concurrency
  BY DEF Oldest
<1>3. IsFiniteSet(old) /\ \A m \in old : IsFiniteSet(before(m))
  <2>1. IsFiniteSet(old)
    BY <1>1, <1>2, FS_Subset
  <2>2. ASSUME NEW m \in old PROVE IsFiniteSet(before(m))
    <3>1. before(m) \in SUBSET back
      OBVIOUS
    <3>2. QED
      BY <1>1, <3>1, FS_Subset
  <2>3. QED
    BY <2>1, <2>2
<1>4. CASE old = {}
  BY <1>2, <1>3, <1>4, FS_EmptySet
<1>5. CASE old # {}
  <2>1. PICK m \in old : \A j \in old : j <= m
    BY <1>2, <1>5, LatestExists
  <2>2. \A j \in old : j \in 1..n
    BY <1>2
  <2>6. old \ {m} \subseteq before(m)
    <3>1. \A j \in old \ {m} : j < m
      BY <2>1, <2>2
    <3>2. QED
      BY <1>2, <3>1
  <2> HIDE DEF old, before
  <2>7. Cardinality(old \ {m}) <= Cardinality(before(m))
    BY <1>3, <2>6, FS_Subset
  <2>8. Cardinality(old \ {m}) = Cardinality(old) - 1
    BY <1>3, FS_RemoveElement
  <2>9. Cardinality(old) \in Nat /\ Cardinality(before(m)) \in Nat
    BY <1>3, FS_CardinalityType
  <2>10. Cardinality(old) <= Concurrency
    BY <1>2, <2>7, <2>8, <2>9
  <2>11. QED
    BY <1>2, <1>3, <2>10 DEF old
<1>6. QED
  BY <1>4, <1>5

-----------------------------------------------------------------------------
(* Types of the sessions *)

\* A tick that is as it should be when there are n runs and m revisions.
GoodTick(row, n, m, now) ==
    /\ row \in TickRows /\ row.ids \subseteq 1..n /\ row.moment <= now /\ row.rev \in 1..m
    /\ Cardinality(row.ids) <= Concurrency + (IF row.at = "sending" THEN 1 ELSE 0)

LEMMA GoodTicks ==
    ASSUME ScheduleTypeOK, NEW t \in Ticks
    PROVE  GoodTick(tick[t], Len(rows), Len(editions), instant)
  BY DEF ScheduleTypeOK, GoodTick, TickIsBounded

LEMMA GoodTickStays ==
    ASSUME NEW row, NEW n \in Nat, NEW m \in Nat, NEW now \in Nat, GoodTick(row, n, m, now),
           NEW n2 \in Nat, NEW m2 \in Nat, NEW now2 \in Nat, n <= n2, m <= m2, now <= now2
    PROVE  GoodTick(row, n2, m2, now2)
<1>1. 1..n \subseteq 1..n2 /\ 1..m \subseteq 1..m2
  OBVIOUS
<1>2. row.moment <= now2
  BY DEF GoodTick, TickRows
<1>3. QED
  BY <1>1, <1>2 DEF GoodTick

LEMMA NoTickIsGood ==
    ASSUME NEW n \in Nat, NEW m \in Nat \ {0}, NEW now \in Nat PROVE GoodTick(NoTick, n, m, now)
<1>1. NoTick \in TickRows
  BY DEF NoTick, TickRows
<1>2. Cardinality({}) = 0
  BY FS_EmptySet
<1>3. QED
  BY <1>1, <1>2 DEF GoodTick, NoTick

\* What a tick does on its way to sending, and what it brings there.
Going(row, at) == [row EXCEPT !.at = at]
Bringing(row, at, ids) == [row EXCEPT !.at = at, !.ids = ids]
Read(row, at) == [row EXCEPT !.enabled = FALSE, !.at = at]
Steps == {"missing", "looking", "adding", "sending"}

LEMMA GoingRows ==
    ASSUME NEW row \in TickRows, NEW at \in Steps
    PROVE  /\ Going(row, at) \in TickRows /\ Going(row, at).at = at
           /\ Going(row, at).ids = row.ids /\ Going(row, at).moment = row.moment
           /\ Going(row, at).rev = row.rev
  BY DEF Going, TickRows, Steps

LEMMA BringingRows ==
    ASSUME NEW row \in TickRows, NEW at \in Steps, NEW ids \in SUBSET Nat
    PROVE  /\ Bringing(row, at, ids) \in TickRows /\ Bringing(row, at, ids).at = at
           /\ Bringing(row, at, ids).ids = ids /\ Bringing(row, at, ids).moment = row.moment
           /\ Bringing(row, at, ids).rev = row.rev
  BY DEF Bringing, TickRows, Steps

LEMMA ReadRows ==
    ASSUME NEW row \in TickRows, NEW at \in Steps
    PROVE  /\ Read(row, at) \in TickRows /\ Read(row, at).at = at
           /\ Read(row, at).ids = row.ids /\ Read(row, at).moment = row.moment
           /\ Read(row, at).rev = row.rev
  BY DEF Read, TickRows, Steps

\* A tick that goes on from before "sending" is good, and brings one run more at most.
LEMMA GoingIsGood ==
    ASSUME NEW row, NEW n \in Nat, NEW m \in Nat, NEW now \in Nat, GoodTick(row, n, m, now),
           NEW at \in Steps, row.at # "sending"
    PROVE  /\ GoodTick(Going(row, at), n, m, now) /\ GoodTick(Read(row, at), n, m, now)
           /\ \A k \in Nat \ {0}, n2 \in Nat :
                k <= n2 /\ n <= n2 =>
                    GoodTick(Bringing(row, "sending", row.ids \cup {k}), n2, m, now)
<1>1. row \in TickRows /\ row.ids \subseteq 1..n /\ row.ids \subseteq Nat
      /\ Cardinality(row.ids) <= Concurrency
  BY DEF GoodTick, TickRows
<1>2. IsFiniteSet(row.ids) /\ Cardinality(row.ids) \in Nat
  <2>1. IsFiniteSet(1..n)
    BY FS_Interval
  <2>2. QED
    BY <1>1, <2>1, FS_Subset, FS_CardinalityType
<1>3. GoodTick(Going(row, at), n, m, now)
  BY <1>1, <1>2, GoingRows DEF GoodTick
<1>4. GoodTick(Read(row, at), n, m, now)
  BY <1>1, <1>2, ReadRows DEF GoodTick
<1>5. ASSUME NEW k \in Nat \ {0}, NEW n2 \in Nat, k <= n2, n <= n2
      PROVE  GoodTick(Bringing(row, "sending", row.ids \cup {k}), n2, m, now)
  <2> DEFINE ids == row.ids \cup {k}
  <2>1. ids \in SUBSET Nat /\ ids \subseteq 1..n2
    BY <1>1, <1>5
  <2>2. Cardinality(ids) <= Concurrency + 1
    <3>1. Cardinality(ids) = IF k \in row.ids THEN Cardinality(row.ids)
                             ELSE Cardinality(row.ids) + 1
      BY <1>2, FS_AddElement
    <3> HIDE DEF ids
    <3>2. QED
      BY <1>1, <1>2, <3>1
  <2> HIDE DEF ids
  <2>3. "sending" \in Steps
    BY DEF Steps
  <2>4. PICK new : new = Bringing(row, "sending", ids)
    OBVIOUS
  <2>5. /\ new \in TickRows /\ new.at = "sending" /\ new.ids = ids
        /\ new.moment = row.moment /\ new.rev = row.rev
    BY <1>1, <2>1, <2>3, <2>4, BringingRows
  <2>6. GoodTick(new, n2, m, now)
    BY <2>1, <2>2, <2>5 DEF GoodTick
  <2>7. QED
    BY <2>4, <2>6 DEF ids
<1>6. QED
  BY <1>3, <1>4, <1>5

\* A slot's run is one.
LEMMA OneFound ==
    ASSUME OneRunPerRevision, NEW slot, NEW rev, RowsOfKey("scheduled", slot, rev) # {}
    PROVE  \E k \in 1..Len(rows) : /\ RowsOfKey("scheduled", slot, rev) = {k}
                                   /\ rows[k].kind = "scheduled" /\ rows[k].slot = slot
  BY DEF OneRunPerRevision, RowsOfKey

\* What becomes of a tick, step by step.
TickGoes(t, row) ==
    \/ /\ StartTick(t) /\ tick[t].at = "idle"
       /\ row = [at |-> "policy", moment |-> instant, enabled |-> enabled, rev |-> current,
                 ids |-> Oldest({k \in 1..Len(rows) : BroughtBack(k)})]
    \/ /\ ReadPolicy(t) /\ tick[t].at = "policy"
       /\ \E at \in {"missing", "looking", "sending"} :
            /\ row = Read(tick[t], at)
            /\ at = "sending" <=> ~tick[t].enabled \/ tick[t].moment < TickSlot(t)
    \/ /\ AddMissed(t) /\ tick[t].at = "missing" /\ row = Going(tick[t], "sending")
       /\ IF MissedRows(TickSlot(t)) = {}
          THEN rows' = Append(rows, NewRow("missed", TickSlot(t), tick[t].rev, "skipped"))
          ELSE UNCHANGED rows
    \/ /\ LookForSlot(t) /\ tick[t].at = "looking"
       /\ \/ row = Going(tick[t], "adding")
          \/ \E k \in 1..Len(rows) :
               /\ row = Bringing(tick[t], "sending", tick[t].ids \cup {k})
               /\ rows[k].kind = "scheduled" /\ rows[k].slot = TickSlot(t) /\ UNCHANGED rows
    \/ /\ AddSlot(t) /\ tick[t].at = "adding"
       /\ row = Bringing(tick[t], "sending", tick[t].ids \cup {Len(rows) + 1})
       /\ rows' = Append(rows, NewRow("scheduled", TickSlot(t), tick[t].rev, Accepted(tick[t].rev)))
    \/ (AddSlot(t) \/ SendRuns(t) \/ LoseTick(t)) /\ row = NoTick

LEMMA TickEffect ==
    ASSUME ScheduleTypeOK, OneRunPerRevision, NEW t \in Ticks,
           StartTick(t) \/ TickGoesOn(t) \/ LoseTick(t)
    PROVE  \E row : tick' = [tick EXCEPT ![t] = row] /\ TickGoes(t, row)
<1>1. CASE StartTick(t)
  BY <1>1 DEF StartTick, TickGoes
<1>2. CASE ReadPolicy(t)
  <2> DEFINE at == IF ~tick[t].enabled \/ tick[t].moment < TickSlot(t) THEN "sending"
                   ELSE IF tick[t].moment - TickSlot(t) > Catchup THEN "missing" ELSE "looking"
  <2>1. tick' = [tick EXCEPT ![t] = Read(tick[t], at)] /\ tick[t].at = "policy"
    BY <1>2 DEF ReadPolicy, Read
  <2>2. at \in {"missing", "looking", "sending"}
        /\ (at = "sending" <=> ~tick[t].enabled \/ tick[t].moment < TickSlot(t))
    OBVIOUS
  <2> HIDE DEF at
  <2>3. QED
    BY <1>2, <2>1, <2>2 DEF TickGoes
<1>3. CASE AddMissed(t)
  <2>1. tick' = [tick EXCEPT ![t] = Going(tick[t], "sending")] /\ tick[t].at = "missing"
        /\ IF MissedRows(TickSlot(t)) = {}
           THEN rows' = Append(rows, NewRow("missed", TickSlot(t), tick[t].rev, "skipped"))
           ELSE UNCHANGED rows
    BY <1>3 DEF AddMissed, Going
  <2>2. QED
    BY <1>3, <2>1 DEF TickGoes
<1>4. CASE LookForSlot(t)
  <2> DEFINE found == RowsOfKey("scheduled", TickSlot(t), tick[t].rev)
  <2>1. tick[t].at = "looking" /\ UNCHANGED rows
    BY <1>4 DEF LookForSlot
  <2>2. CASE found = {}
    <3>1. tick' = [tick EXCEPT ![t] = Going(tick[t], "adding")]
      BY <1>4, <2>2 DEF LookForSlot, Going
    <3>2. QED
      BY <1>4, <2>1, <3>1 DEF TickGoes
  <2>3. CASE found # {}
    <3>1. PICK k \in 1..Len(rows) : /\ found = {k}
                                    /\ rows[k].kind = "scheduled" /\ rows[k].slot = TickSlot(t)
      BY <2>3, OneFound
    <3>2. tick' = [tick EXCEPT ![t] = Bringing(tick[t], "sending", tick[t].ids \cup found)]
      BY <1>4, <2>3 DEF LookForSlot, Bringing
    <3> HIDE DEF found
    <3>3. tick' = [tick EXCEPT ![t] = Bringing(tick[t], "sending", tick[t].ids \cup {k})]
      BY <3>1, <3>2
    <3>4. QED
      BY <1>4, <2>1, <3>1, <3>3 DEF TickGoes
  <2>4. QED
    BY <2>2, <2>3
<1>5. CASE AddSlot(t)
  <2>1. CASE RowsOfKey("scheduled", TickSlot(t), tick[t].rev) # {}
    BY <1>5, <2>1 DEF AddSlot, TickGoes
  <2>2. CASE RowsOfKey("scheduled", TickSlot(t), tick[t].rev) = {}
    <3>1. /\ tick' = [tick EXCEPT ![t] =
                       Bringing(tick[t], "sending", tick[t].ids \cup {Len(rows) + 1})]
          /\ rows' = Append(rows, NewRow("scheduled", TickSlot(t), tick[t].rev,
                                         Accepted(tick[t].rev)))
          /\ tick[t].at = "adding"
      BY <1>5, <2>2 DEF AddSlot, Bringing
    <3>2. QED
      BY <1>5, <3>1 DEF TickGoes
  <2>3. QED
    BY <2>1, <2>2
<1>6. CASE SendRuns(t) \/ LoseTick(t)
  BY <1>6 DEF SendRuns, LoseTick, TickGoes
<1>7. QED
  BY <1>1, <1>2, <1>3, <1>4, <1>5, <1>6 DEF TickGoesOn

LEMMA TickSet ==
    ASSUME tick \in [Ticks -> TickRows], NEW t \in Ticks, NEW row \in TickRows,
           tick' = [tick EXCEPT ![t] = row]
    PROVE  tick' \in [Ticks -> TickRows]
           /\ \A u \in Ticks : tick'[u] = IF u = t THEN row ELSE tick[u]
  OBVIOUS

TickTypes ==
    tick' \in [Ticks -> TickRows]
    /\ \A t \in Ticks : GoodTick(tick'[t], Len(rows'), Len(editions'), instant')

LEMMA TickStep ==
    ASSUME ScheduleTypeOK, CurrentIsLatest, OneRunPerRevision, [ScheduleNext]_scheduleVars
    PROVE  TickTypes
<1> DEFINE n2 == Len(rows')
           m2 == Len(editions')
<1>1. /\ Len(rows) \in Nat /\ n2 \in Nat /\ Len(rows) <= n2
      /\ Len(editions) \in Nat \ {0} /\ m2 \in Nat \ {0} /\ Len(editions) <= m2
      /\ instant \in Nat /\ instant' \in Nat /\ instant <= instant'
  <2>1. Len(rows) \in Nat /\ n2 \in {Len(rows), Len(rows) + 1}
    BY RowsStep DEF RowsGrow
  <2>2. Len(editions) \in Nat /\ m2 \in Nat /\ Len(editions) <= m2 /\ instant' \in 0..MaxInstant
        /\ instant' \in {instant, instant + 1}
    BY PolicyStep DEF EditionsGrow
  <2>3. current \in 1..Len(editions) /\ instant \in 0..MaxInstant
    BY DEF ScheduleTypeOK
  <2> HIDE DEF n2, m2
  <2>4. QED
    BY <2>1, <2>2, <2>3
<1> HIDE DEF n2, m2
<1>2. tick \in [Ticks -> TickRows]
      /\ \A t \in Ticks : GoodTick(tick[t], Len(rows), Len(editions), instant)
  BY GoodTicks DEF ScheduleTypeOK
<1>3. \A t \in Ticks : GoodTick(tick[t], n2, m2, instant')
  BY <1>1, <1>2, GoodTickStays
<1>4. CASE UNCHANGED tick
  BY <1>2, <1>3, <1>4 DEF TickTypes, n2, m2
<1>5. ASSUME NEW t \in Ticks, StartTick(t) \/ TickGoesOn(t) \/ LoseTick(t) PROVE TickTypes
  <2>1. PICK row : tick' = [tick EXCEPT ![t] = row] /\ TickGoes(t, row)
    BY <1>5, TickEffect
  <2>2. GoodTick(row, n2, m2, instant')
    <3>0. GoodTick(tick[t], Len(rows), Len(editions), instant) /\ tick[t].ids \subseteq Nat
          /\ GoodTick(NoTick, n2, m2, instant')
      BY <1>1, <1>2, NoTickIsGood DEF TickRows
    <3>1. ASSUME row = [at |-> "policy", moment |-> instant, enabled |-> enabled, rev |-> current,
                        ids |-> Oldest({k \in 1..Len(rows) : BroughtBack(k)})]
          PROVE  GoodTick(row, n2, m2, instant')
      <4> DEFINE back == {k \in 1..Len(rows) : BroughtBack(k)}
      <4>1. back \in SUBSET (1..Len(rows))
        OBVIOUS
      <4> HIDE DEF back
      <4>2. Oldest(back) \subseteq 1..Len(rows) /\ Cardinality(Oldest(back)) <= Concurrency
        BY <1>1, <4>1, OldestIsBounded
      <4>3. Oldest(back) \in SUBSET Nat
        BY <4>2
      <4>4. PICK ids : ids = Oldest(back)
        OBVIOUS
      <4>5. row = [at |-> "policy", moment |-> instant, enabled |-> enabled, rev |-> current,
                   ids |-> ids]
        BY <3>1, <4>4 DEF back
      <4>6. /\ current \in 1..Len(editions) /\ current \in Nat /\ instant \in 0..MaxInstant
            /\ enabled \in BOOLEAN
        BY DEF ScheduleTypeOK
      <4>7. row \in TickRows
        BY <4>3, <4>4, <4>5, <4>6 DEF TickRows
      <4>8. GoodTick(row, Len(rows), Len(editions), instant)
        BY <1>1, <4>2, <4>4, <4>5, <4>6, <4>7 DEF GoodTick
      <4>9. QED
        BY <1>1, <4>8, GoodTickStays
    <3>2. ASSUME tick[t].at # "sending", NEW at \in Steps, row = Going(tick[t], at)
                                                           \/ row = Read(tick[t], at)
          PROVE  GoodTick(row, n2, m2, instant')
      <4>1. GoodTick(row, Len(rows), Len(editions), instant)
        BY <1>1, <3>0, <3>2, GoingIsGood
      <4>2. QED
        BY <1>1, <4>1, GoodTickStays
    <3>3. ASSUME tick[t].at # "sending", NEW k \in Nat \ {0}, k <= n2,
                 row = Bringing(tick[t], "sending", tick[t].ids \cup {k})
          PROVE  GoodTick(row, n2, m2, instant')
      <4>1. GoodTick(row, n2, Len(editions), instant)
        BY <1>1, <3>0, <3>3, GoingIsGood DEF Steps
      <4>2. QED
        BY <1>1, <4>1, GoodTickStays
    <3>4. ASSUME rows' = Append(rows, NewRow("scheduled", TickSlot(t), tick[t].rev,
                                             Accepted(tick[t].rev)))
          PROVE  Len(rows) + 1 <= n2
      <4>1. rows \in Seq(RunRows)
        BY DEF ScheduleTypeOK
      <4>2. n2 \in {Len(rows), Len(rows) + 1}
        BY RowsStep DEF RowsGrow, n2
      <4>3. n2 = Len(rows) + 1
        <5>1. NewRow("scheduled", TickSlot(t), tick[t].rev, Accepted(tick[t].rev)) \in RunRows
          <6>1. tick[t].rev \in Nat /\ "scheduled" \in RunKinds /\ instant \in 0..MaxInstant
            BY DEF ScheduleTypeOK, RunKinds, TickRows
          <6>2. Accepted(tick[t].rev) \in NewStatus /\ TickSlot(t) \in Int
            BY TickSlotTypes DEF Accepted, NewStatus
          <6>3. QED
            BY <6>1, <6>2, NewRowTypes
        <5>2. QED
          BY <3>4, <4>1, <5>1, RowAdded DEF n2
      <4>4. QED
        BY <1>1, <4>3
    <3>5. ASSUME tick[t].at # "sending",
                 NEW k \in 1..Len(rows), row = Bringing(tick[t], "sending", tick[t].ids \cup {k})
          PROVE  GoodTick(row, n2, m2, instant')
      <4>1. k \in Nat \ {0} /\ k <= n2
        BY <1>1
      <4>2. QED
        BY <3>3, <3>5, <4>1
    <3>6. ASSUME tick[t].at # "sending", Len(rows) + 1 <= n2,
                 row = Bringing(tick[t], "sending", tick[t].ids \cup {Len(rows) + 1})
          PROVE  GoodTick(row, n2, m2, instant')
      <4>1. Len(rows) + 1 \in Nat \ {0}
        BY <1>1
      <4>2. PICK k : k = Len(rows) + 1
        OBVIOUS
      <4>3. QED
        BY <3>3, <3>6, <4>1, <4>2
    <3>7. \/ row = [at |-> "policy", moment |-> instant, enabled |-> enabled, rev |-> current,
                    ids |-> Oldest({k \in 1..Len(rows) : BroughtBack(k)})]
          \/ tick[t].at # "sending" /\ \E at \in Steps : row = Going(tick[t], at)
                                                       \/ row = Read(tick[t], at)
          \/ tick[t].at # "sending" /\ \E k \in 1..Len(rows) :
                row = Bringing(tick[t], "sending", tick[t].ids \cup {k})
          \/ /\ tick[t].at # "sending"
             /\ row = Bringing(tick[t], "sending", tick[t].ids \cup {Len(rows) + 1})
             /\ rows' = Append(rows, NewRow("scheduled", TickSlot(t), tick[t].rev,
                                            Accepted(tick[t].rev)))
          \/ row = NoTick
      BY <2>1 DEF TickGoes, Steps
    <3>8. QED
      BY <3>0, <3>1, <3>2, <3>4, <3>5, <3>6, <3>7
  <2>3. row \in TickRows
    BY <2>2 DEF GoodTick
  <2>4. tick' \in [Ticks -> TickRows]
        /\ \A u \in Ticks : tick'[u] = IF u = t THEN row ELSE tick[u]
    BY <1>2, <2>1, <2>3, TickSet
  <2>5. QED
    BY <1>3, <2>2, <2>4 DEF TickTypes, n2, m2
<1>6. QED
  BY <1>4, <1>5 DEF ScheduleNext, StartEdit, CommitEdit, AskManually, StartAsk, MarkStalledRow,
     LookForAsk, AddAsked, TakeRun, EndRun, PassTime, scheduleVars

\* A request that is as it should be.
GoodAsk(row, n, m, now) ==
    /\ row \in AskRows /\ row.rev \in 1..m /\ row.bucket <= now
    /\ row.at = "stalling" => row.old \in 1..n

LEMMA GoodAskStays ==
    ASSUME NEW row, NEW n \in Nat, NEW m \in Nat, NEW now \in Nat, GoodAsk(row, n, m, now),
           NEW n2 \in Nat, NEW m2 \in Nat, NEW now2 \in Nat, n <= n2, m <= m2, now <= now2
    PROVE  GoodAsk(row, n2, m2, now2)
<1>1. 1..n \subseteq 1..n2 /\ 1..m \subseteq 1..m2
  OBVIOUS
<1>2. row.bucket <= now2
  BY DEF GoodAsk, AskRows
<1>3. QED
  BY <1>1, <1>2 DEF GoodAsk

AskTypes ==
    asker' \in [Askers -> AskRows]
    /\ \A a \in Askers : GoodAsk(asker'[a], Len(rows'), Len(editions'), instant')

LEMMA AskSet ==
    ASSUME asker \in [Askers -> AskRows], NEW a \in Askers, NEW row \in AskRows,
           asker' = [asker EXCEPT ![a] = row]
    PROVE  asker' \in [Askers -> AskRows]
           /\ \A b \in Askers : asker'[b] = IF b = a THEN row ELSE asker[b]
  OBVIOUS

LEMMA AskEffect ==
    ASSUME ScheduleTypeOK, Len(rows) \in Nat, NEW a \in Askers,
           \/ \E key \in {"first", "retry"} : StartAsk(a, key)
           \/ MarkStalledRow(a) \/ LookForAsk(a) \/ AddAsked(a)
    PROVE  \E row : /\ asker' = [asker EXCEPT ![a] = row]
                    /\ GoodAsk(row, Len(rows), Len(editions), instant)
<1> DEFINE Good(row) == GoodAsk(row, Len(rows), Len(editions), instant)
<1>1. /\ asker[a] \in AskRows /\ Good(asker[a]) /\ instant \in 0..MaxInstant
      /\ current \in 1..Len(editions) /\ current \in Nat /\ Len(editions) \in Nat
  BY DEF ScheduleTypeOK, GoodAsk
<1>2. Good(NoAsk)
  <2>1. 1 \in 1..Len(editions) /\ 0 <= instant /\ 0 \in 0..MaxInstant
    BY <1>1
  <2>2. QED
    BY <2>1 DEF NoAsk, GoodAsk, AskRows, Watchlisting
<1>3. \A at \in {"looking", "adding"} :
        Good([asker[a] EXCEPT !.at = at])
  BY <1>1 DEF GoodAsk, AskRows
<1>4. CASE MarkStalledRow(a)
  BY <1>3, <1>4 DEF MarkStalledRow
<1>5. CASE LookForAsk(a) \/ AddAsked(a)
  <2>1. asker' = [asker EXCEPT ![a] = [asker[a] EXCEPT !.at = "adding"]]
        \/ asker' = [asker EXCEPT ![a] = NoAsk]
    BY <1>5 DEF LookForAsk, AddAsked
  <2>2. QED
    BY <1>2, <1>3, <2>1
<1>6. ASSUME NEW key \in {"first", "retry"}, StartAsk(a, key)
      PROVE  \E row : asker' = [asker EXCEPT ![a] = row] /\ Good(row)
  <2> DEFINE active == {k \in 1..Len(rows) : rows[k].kind \in Watchlisting
                                             /\ rows[k].status \in Active}
             last == CHOOSE k \in active : \A j \in active : j <= k
             look == [at |-> "looking", key |-> key, bucket |-> instant, rev |-> current,
                      old |-> 0]
             stall == [at |-> "stalling", key |-> IF key = "first" THEN "recovery" ELSE key,
                       bucket |-> instant, rev |-> current, old |-> last]
  <2>1. asker' = [asker EXCEPT ![a] = IF active = {} THEN look
                                      ELSE IF Stalled(last) THEN stall ELSE NoAsk]
    BY <1>6 DEF StartAsk
  <2>2. Good(look)
    <3>1. look = [at |-> "looking", key |-> key, bucket |-> instant, rev |-> current, old |-> 0]
      OBVIOUS
    <3> HIDE DEF look
    <3>2. instant <= instant /\ key \in Watchlisting
      BY <1>1 DEF Watchlisting
    <3>3. look \in AskRows
      BY <1>1, <3>1, <3>2 DEF AskRows
    <3>4. QED
      BY <1>1, <3>1, <3>2, <3>3 DEF GoodAsk
  <2>3. ASSUME active # {} PROVE Good(stall)
    <3>1. last \in 1..Len(rows) /\ last \in Nat
      <4>1. \E m \in active : \A j \in active : j <= m
        BY <2>3, LatestExists
      <4>2. last \in active
        BY <4>1
      <4>3. QED
        BY <4>2
    <3> HIDE DEF last
    <3>2. QED
      <4> DEFINE kept == IF key = "first" THEN "recovery" ELSE key
      <4>1. stall = [at |-> "stalling", key |-> kept, bucket |-> instant, rev |-> current,
                     old |-> last]
        OBVIOUS
      <4>2. instant <= instant /\ kept \in Watchlisting
        BY <1>1 DEF Watchlisting
      <4> HIDE DEF stall, kept
      <4>3. stall \in AskRows
        BY <1>1, <3>1, <4>1, <4>2 DEF AskRows
      <4>4. QED
        BY <1>1, <3>1, <4>1, <4>2, <4>3 DEF GoodAsk
  <2> HIDE DEF active, look, stall
  <2>4. QED
    BY <1>2, <2>1, <2>2, <2>3
<1> HIDE DEF Good
<1>7. QED
  BY <1>4, <1>5, <1>6 DEF Good

LEMMA Counts ==
    ASSUME ScheduleTypeOK, CurrentIsLatest, [ScheduleNext]_scheduleVars
    PROVE  /\ Len(rows) \in Nat /\ Len(rows') \in Nat /\ Len(rows) <= Len(rows')
           /\ Len(editions) \in Nat /\ Len(editions') \in Nat /\ Len(editions) <= Len(editions')
           /\ instant \in Nat /\ instant' \in Nat /\ instant <= instant'
<1>1. Len(rows) \in Nat /\ Len(rows') \in {Len(rows), Len(rows) + 1}
  BY RowsStep DEF RowsGrow
<1>2. Len(editions) \in Nat /\ Len(editions') \in Nat /\ Len(editions) <= Len(editions')
      /\ instant' \in 0..MaxInstant /\ instant' \in {instant, instant + 1}
  BY PolicyStep DEF EditionsGrow
<1>3. instant \in 0..MaxInstant
  BY DEF ScheduleTypeOK
<1>4. QED
  BY <1>1, <1>2, <1>3

LEMMA AskStep ==
    ASSUME ScheduleTypeOK, CurrentIsLatest, [ScheduleNext]_scheduleVars PROVE AskTypes
<1> DEFINE Good(row) == GoodAsk(row, Len(rows'), Len(editions'), instant')
<1>1. asker \in [Askers -> AskRows]
      /\ \A a \in Askers : GoodAsk(asker[a], Len(rows), Len(editions), instant)
  BY DEF ScheduleTypeOK, GoodAsk
<1>2. \A row : GoodAsk(row, Len(rows), Len(editions), instant) => Good(row)
  <2> SUFFICES ASSUME NEW row, GoodAsk(row, Len(rows), Len(editions), instant) PROVE Good(row)
    OBVIOUS
  <2>1. QED
    BY Counts, GoodAskStays
<1> HIDE DEF Good
<1>3. CASE UNCHANGED asker
  BY <1>1, <1>2, <1>3 DEF AskTypes, Good
<1>4. ASSUME NEW a \in Askers, \/ \E key \in {"first", "retry"} : StartAsk(a, key)
                               \/ MarkStalledRow(a) \/ LookForAsk(a) \/ AddAsked(a)
      PROVE  AskTypes
  <2>1. PICK row : /\ asker' = [asker EXCEPT ![a] = row]
                   /\ GoodAsk(row, Len(rows), Len(editions), instant)
    BY <1>4, AskEffect, Counts
  <2>2. row \in AskRows
    BY <2>1 DEF GoodAsk
  <2>3. asker' \in [Askers -> AskRows]
        /\ \A b \in Askers : asker'[b] = IF b = a THEN row ELSE asker[b]
    BY SMTT(30), <1>1, <2>1, <2>2, AskSet
  <2>4. QED
    BY <1>1, <1>2, <2>1, <2>3 DEF AskTypes, Good
<1>5. QED
  BY <1>3, <1>4 DEF ScheduleNext, StartEdit, CommitEdit, StartTick, LoseTick, TickGoesOn, ReadPolicy,
     AddMissed, LookForSlot, AddSlot, SendRuns, AskManually, TakeRun, EndRun, PassTime, scheduleVars

EditTypes ==
    editor' \in [Editors -> EditRows] /\ \A o \in Editors : editor'[o].rev \in 1..Len(editions')

LEMMA EditStep ==
    ASSUME ScheduleTypeOK, CurrentIsLatest, [ScheduleNext]_scheduleVars PROVE EditTypes
<1>1. /\ editor \in [Editors -> EditRows] /\ \A o \in Editors : editor[o].rev \in 1..Len(editions)
      /\ 1..Len(editions) \subseteq 1..Len(editions') /\ current \in 1..Len(editions)
      /\ 1 \in 1..Len(editions') /\ enabled \in BOOLEAN /\ current \in Nat
  <2>1. /\ editor \in [Editors -> EditRows] /\ enabled \in BOOLEAN
        /\ \A o \in Editors : editor[o].rev \in 1..Len(editions)
    BY DEF ScheduleTypeOK
  <2>2. current \in 1..Len(editions)
    BY DEF ScheduleTypeOK
  <2>3. 1..Len(editions) \subseteq 1..Len(editions') /\ 1 \in 1..Len(editions') /\ current \in Nat
    BY <2>2, Counts
  <2>4. QED
    BY <2>1, <2>2, <2>3
<1>2. CASE UNCHANGED editor
  BY <1>1, <1>2 DEF EditTypes
<1>3. ASSUME NEW o \in Editors, NEW row \in EditRows, editor' = [editor EXCEPT ![o] = row],
             row.rev \in 1..Len(editions')
      PROVE  EditTypes
  BY <1>1, <1>3 DEF EditTypes
<1>4. ASSUME NEW o \in Editors, StartEdit(o) PROVE EditTypes
  <2>1. PICK row : row = [at |-> "editing", rev |-> current, enabled |-> enabled]
    OBVIOUS
  <2>2. row \in EditRows /\ row.rev \in 1..Len(editions')
    BY <1>1, <2>1 DEF EditRows
  <2>3. QED
    BY <1>3, <1>4, <2>1, <2>2 DEF StartEdit
<1>5. ASSUME NEW o \in Editors, NEW c \in Configurations, NEW enable \in BOOLEAN,
             CommitEdit(o, c, enable)
      PROVE  EditTypes
  <2>1. NoEdit \in EditRows /\ NoEdit.rev \in 1..Len(editions')
    BY <1>1 DEF NoEdit, EditRows
  <2>2. editor' = [editor EXCEPT ![o] = NoEdit]
    BY <1>5 DEF CommitEdit
  <2>3. QED
    BY <1>3, <2>1, <2>2
<1>6. QED
  BY <1>2, <1>4, <1>5 DEF ScheduleNext, StartAsk, MarkStalledRow, LookForAsk, AddAsked, StartTick,
     LoseTick, TickGoesOn, ReadPolicy, AddMissed, LookForSlot, AddSlot, SendRuns, AskManually,
     TakeRun, EndRun, PassTime, scheduleVars

LEMMA SentStep ==
    ASSUME ScheduleTypeOK, CurrentIsLatest, [ScheduleNext]_scheduleVars
    PROVE  sent' \subseteq 1..Len(rows') /\ asks' \in 0..MaxAsked /\ mishaps' \in 0..MaxMishaps
<1> DEFINE Goal == sent' \subseteq 1..Len(rows') /\ asks' \in 0..MaxAsked
                   /\ mishaps' \in 0..MaxMishaps
<1>1. /\ sent \subseteq 1..Len(rows) /\ asks \in 0..MaxAsked /\ mishaps \in 0..MaxMishaps
      /\ 1..Len(rows) \subseteq 1..Len(rows')
  <2>1. sent \subseteq 1..Len(rows) /\ asks \in 0..MaxAsked /\ mishaps \in 0..MaxMishaps
    BY DEF ScheduleTypeOK
  <2>2. QED
    BY <2>1, Counts
<1>2. (asks < MaxAsked => asks + 1 \in 0..MaxAsked)
      /\ (mishaps < MaxMishaps => mishaps + 1 \in 0..MaxMishaps)
  BY <1>1
<1>3. ASSUME NEW t \in Ticks, StartTick(t) \/ TickGoesOn(t) \/ LoseTick(t) PROVE Goal
  <2>1. tick[t].ids \subseteq 1..Len(rows)
    BY DEF ScheduleTypeOK
  <2>2. QED
    BY <1>1, <1>2, <1>3, <2>1 DEF StartTick, LoseTick, TickGoesOn, ReadPolicy, AddMissed,
       LookForSlot, AddSlot, SendRuns
<1>4. ASSUME NEW row, row \in RunRows, rows' = Append(rows, row), SendRow(Len(rows) + 1)
      PROVE  sent' \subseteq 1..Len(rows') /\ mishaps' \in 0..MaxMishaps
  <2>1. Len(rows') = Len(rows) + 1 /\ Len(rows) \in Nat
    BY <1>4, RowAdded DEF ScheduleTypeOK
  <2>2. Len(rows) + 1 \in 1..Len(rows')
    BY <2>1
  <2>3. QED
    BY <1>1, <1>2, <1>4, <2>2 DEF SendRow
<1>5. CASE AskManually
  <2>1. PICK row : row = NewRow("manual", 0, current, Accepted(current))
    OBVIOUS
  <2>2. row \in RunRows
    <3>1. current \in Nat /\ "manual" \in RunKinds /\ Accepted(current) \in NewStatus
          /\ instant \in 0..MaxInstant
      BY DEF ScheduleTypeOK, RunKinds, Accepted, NewStatus
    <3>2. QED
      BY <2>1, <3>1, NewRowTypes
  <2>3. rows' = Append(rows, row) /\ asks' = asks + 1 /\ asks < MaxAsked
        /\ (SendRow(Len(rows) + 1) \/ UNCHANGED <<sent, mishaps>>)
    BY <1>5, <2>1 DEF AskManually
  <2>4. QED
    BY <1>1, <1>2, <1>4, <2>2, <2>3
<1>6. ASSUME NEW a \in Askers, AddAsked(a) PROVE Goal
  <2>1. PICK row, kind, slot, rev : /\ row = NewRow(kind, slot, rev, "pending")
                                    /\ kind = asker[a].key /\ slot = asker[a].bucket
                                    /\ rev = asker[a].rev
    OBVIOUS
  <2>2. row \in RunRows
    <3>1. kind \in RunKinds /\ slot \in Int /\ rev \in Nat /\ "pending" \in NewStatus
          /\ instant \in 0..MaxInstant
      BY <2>1 DEF ScheduleTypeOK, RunKinds, NewStatus, AskRows
    <3>2. QED
      BY <2>1, <3>1, NewRowTypes
  <2>3. asks' = asks /\ \/ UNCHANGED <<sent, mishaps>>
                        \/ rows' = Append(rows, row) /\ SendRow(Len(rows) + 1)
    BY <1>6, <2>1 DEF AddAsked
  <2>4. QED
    BY <1>1, <1>4, <2>2, <2>3
<1>7. ASSUME NEW a \in Askers, \/ \E key \in {"first", "retry"} : StartAsk(a, key)
                               \/ MarkStalledRow(a) \/ LookForAsk(a)
      PROVE  Goal
  BY <1>1, <1>2, <1>7 DEF StartAsk, MarkStalledRow, LookForAsk
<1>8. CASE PassTime \/ (\E k \in 1..Len(rows) : TakeRun(k) \/ EndRun(k))
           \/ UNCHANGED scheduleVars
           \/ (\E o \in Editors :
                 StartEdit(o) \/ \E c \in Configurations, enable \in BOOLEAN : CommitEdit(o, c, enable))
  BY <1>1, <1>8 DEF StartEdit, CommitEdit, TakeRun, EndRun, PassTime, scheduleVars
<1>9. QED
  BY <1>3, <1>5, <1>6, <1>7, <1>8 DEF ScheduleNext

LEMMA ScheduleTypeStep ==
    ASSUME ScheduleTypeOK, CurrentIsLatest, OneRunPerRevision, [ScheduleNext]_scheduleVars
    PROVE  ScheduleTypeOK' /\ CurrentIsLatest'
<1>1. rows' \in Seq(RunRows) /\ \A k \in 1..Len(rows') : rows'[k].rev \in 1..Len(editions')
  <2>1. 1..Len(editions) \subseteq 1..Len(editions')
    BY Counts
  <2>2. QED
    BY <2>1, RowsStep DEF RowsGrow
<1>2. /\ instant' \in 0..MaxInstant /\ {enabled', ticked', steady'} \subseteq BOOLEAN
      /\ editions' \in Seq(Configurations) /\ current' \in 1..Len(editions')
      /\ CurrentIsLatest'
  BY PolicyStep DEF EditionsGrow, CurrentIsLatest
<1>3. /\ tick' \in [Ticks -> TickRows]
      /\ \A t \in Ticks : /\ tick'[t].ids \subseteq 1..Len(rows') /\ tick'[t].moment <= instant'
                          /\ tick'[t].rev \in 1..Len(editions')
                          /\ TickIsBounded(t)'
  BY TickStep DEF TickTypes, GoodTick, TickIsBounded
<1>4. /\ asker' \in [Askers -> AskRows]
      /\ \A a \in Askers : /\ asker'[a].rev \in 1..Len(editions') /\ asker'[a].bucket <= instant'
                           /\ asker'[a].at = "stalling" => asker'[a].old \in 1..Len(rows')
  BY AskStep DEF AskTypes, GoodAsk
<1>5. QED
  BY <1>1, <1>2, <1>3, <1>4, EditStep, SentStep DEF ScheduleTypeOK, EditTypes

-----------------------------------------------------------------------------
(* A slot has one run *)

\* A run that is added for a slot finds none of its key.
LEMMA AddedForASlot ==
    ASSUME ScheduleTypeOK, [ScheduleNext]_scheduleVars, Len(rows') # Len(rows),
           rows'[Len(rows) + 1].kind = "scheduled"
    PROVE  RowsOfKey("scheduled", rows'[Len(rows) + 1].slot, rows'[Len(rows) + 1].rev) = {}
<1> DEFINE Goal == RowsOfKey("scheduled", rows'[Len(rows) + 1].slot,
                             rows'[Len(rows) + 1].rev) = {}
<1>1. /\ rows \in Seq(RunRows) /\ instant \in 0..MaxInstant
      /\ current \in 1..Len(editions) /\ current \in Nat
  BY DEF ScheduleTypeOK
<1>2. ASSUME NEW row, rows' = Append(rows, row), row \in RunRows
      PROVE  rows'[Len(rows) + 1] = row
  BY <1>1, <1>2, RowAdded
<1>3. ~UNCHANGED rows
  OBVIOUS
<1>4. ASSUME NEW kind \in RunKinds, NEW slot \in Int, NEW rev \in Nat, NEW status \in NewStatus,
             rows' = Append(rows, NewRow(kind, slot, rev, status))
      PROVE  /\ kind = "scheduled" /\ slot = rows'[Len(rows) + 1].slot
             /\ rev = rows'[Len(rows) + 1].rev
  <2>1. PICK row : row = NewRow(kind, slot, rev, status)
    OBVIOUS
  <2>2. row \in RunRows /\ row.kind = kind /\ row.slot = slot /\ row.rev = rev
    BY <1>1, <2>1, NewRowTypes
  <2>3. rows'[Len(rows) + 1] = row
    BY <1>2, <1>4, <2>1, <2>2
  <2>4. QED
    BY <2>2, <2>3
<1>5. "missed" \in RunKinds /\ "manual" \in RunKinds /\ "scheduled" \in RunKinds
      /\ Watchlisting \subseteq RunKinds /\ "pending" \in NewStatus /\ "skipped" \in NewStatus
      /\ "scheduled" \notin Watchlisting
  BY DEF RunKinds, NewStatus, Watchlisting
<1>6. ASSUME NEW t \in Ticks, AddMissed(t) PROVE FALSE
  <2>1. TickSlot(t) \in Int /\ tick[t].rev \in Nat
    BY TickSlotTypes DEF ScheduleTypeOK, TickRows
  <2>2. rows' = Append(rows, NewRow("missed", TickSlot(t), tick[t].rev, "skipped"))
    BY <1>3, <1>6 DEF AddMissed
  <2>3. QED
    BY <1>4, <1>5, <2>1, <2>2
<1>7. ASSUME NEW t \in Ticks, AddSlot(t) PROVE Goal
  <2>1. TickSlot(t) \in Int /\ tick[t].rev \in Nat /\ Accepted(tick[t].rev) \in NewStatus
    BY TickSlotTypes DEF ScheduleTypeOK, TickRows, Accepted, NewStatus
  <2>2. RowsOfKey("scheduled", TickSlot(t), tick[t].rev) = {}
    BY <1>3, <1>7 DEF AddSlot
  <2>3. rows' = Append(rows, NewRow("scheduled", TickSlot(t), tick[t].rev,
                                    Accepted(tick[t].rev)))
    BY <2>2, <1>7 DEF AddSlot
  <2>4. TickSlot(t) = rows'[Len(rows) + 1].slot /\ tick[t].rev = rows'[Len(rows) + 1].rev
    BY <1>4, <1>5, <2>1, <2>3
  <2>5. QED
    BY <2>2, <2>4
<1>8. ASSUME NEW a \in Askers, AddAsked(a) PROVE FALSE
  <2>1. PICK kind, slot, rev : kind = asker[a].key /\ slot = asker[a].bucket /\ rev = asker[a].rev
    OBVIOUS
  <2>2. kind \in Watchlisting /\ slot \in Int /\ rev \in Nat
    BY <2>1 DEF ScheduleTypeOK, AskRows
  <2>3. rows' = Append(rows, NewRow(kind, slot, rev, "pending"))
    BY <1>3, <1>8, <2>1 DEF AddAsked
  <2>4. kind \in RunKinds
    BY <1>5, <2>2
  <2>5. QED
    BY <1>4, <1>5, <2>2, <2>3, <2>4
<1>9. ~AskManually
  <2> SUFFICES ASSUME AskManually PROVE FALSE
    OBVIOUS
  <2>1. rows' = Append(rows, NewRow("manual", 0, current, Accepted(current)))
    BY DEF AskManually
  <2>2. Accepted(current) \in NewStatus
    BY DEF Accepted, NewStatus
  <2>3. QED
    BY <1>1, <1>4, <1>5, <2>1, <2>2
<1>10. ASSUME NEW k \in 1..Len(rows), TakeRun(k) \/ EndRun(k) PROVE FALSE
  BY <1>1, <1>10 DEF TakeRun, EndRun
<1>11. ASSUME NEW a \in Askers, MarkStalledRow(a) PROVE FALSE
  BY <1>1, <1>11 DEF MarkStalledRow
<1>12. QED
  BY <1>3, <1>6, <1>7, <1>8, <1>9, <1>10, <1>11 DEF ScheduleNext, StartEdit, CommitEdit, StartTick,
     TickGoesOn, ReadPolicy, LookForSlot, SendRuns, LoseTick, StartAsk, LookForAsk, PassTime,
     scheduleVars

LEMMA OneRunStep ==
    ASSUME ScheduleTypeOK, OneRunPerRevision, [ScheduleNext]_scheduleVars
    PROVE  OneRunPerRevision'
<1>1. /\ Len(rows) \in Nat /\ Len(rows') \in {Len(rows), Len(rows) + 1}
      /\ \A k \in 1..Len(rows) : /\ rows'[k].kind = rows[k].kind /\ rows'[k].slot = rows[k].slot
                                 /\ rows'[k].rev = rows[k].rev
  BY RowsStep DEF RowsGrow
<1> SUFFICES ASSUME NEW j \in 1..Len(rows'), NEW k \in 1..Len(rows'), j < k,
                    rows'[j].kind = "scheduled", rows'[k].kind = "scheduled",
                    rows'[j].slot = rows'[k].slot, rows'[j].rev = rows'[k].rev
             PROVE  FALSE
  BY <1>1 DEF OneRunPerRevision
<1>2. CASE k \in 1..Len(rows)
  <2>1. j \in 1..Len(rows) /\ j # k
    BY <1>1, <1>2
  <2>2. QED
    BY <1>1, <1>2, <2>1 DEF OneRunPerRevision
<1>3. CASE k \notin 1..Len(rows)
  <2>1. k = Len(rows) + 1 /\ j \in 1..Len(rows) /\ Len(rows') # Len(rows)
    <3>1. PICK n \in Nat : n = Len(rows)
      BY <1>1
    <3>2. PICK n2 \in {n, n + 1} : n2 = Len(rows')
      BY <1>1, <3>1
    <3>3. j \in 1..n2 /\ k \in 1..n2 /\ k \notin 1..n /\ j < k
      BY <1>3, <3>1, <3>2
    <3>4. QED
      BY <3>1, <3>2, <3>3
  <2>2. RowsOfKey("scheduled", rows'[k].slot, rows'[k].rev) = {}
    BY <2>1, AddedForASlot
  <2>3. j \in RowsOfKey("scheduled", rows'[k].slot, rows'[k].rev)
    BY <1>1, <2>1 DEF RowsOfKey
  <2>4. QED
    BY <2>2, <2>3
<1>4. QED
  BY <1>2, <1>3

-----------------------------------------------------------------------------
(* No slot is passed over *)

LEMMA AnsweredStays ==
    ASSUME RowsGrow, NEW slot, Answered(slot) PROVE Answered(slot)'
<1>1. 1..Len(rows) \subseteq 1..Len(rows')
  BY DEF RowsGrow
<1>2. QED
  BY <1>1 DEF RowsGrow, Answered

\* A run or a record of a slot answers it.
LEMMA AnsweredBy ==
    ASSUME ScheduleTypeOK, NEW kind \in {"scheduled", "missed"}, NEW slot \in Int, NEW rev \in Nat,
           NEW status \in NewStatus, rows' = Append(rows, NewRow(kind, slot, rev, status))
    PROVE  Answered(slot)'
<1>1. PICK row : row = NewRow(kind, slot, rev, status)
  OBVIOUS
<1>2. rows \in Seq(RunRows) /\ instant \in 0..MaxInstant /\ kind \in RunKinds
  BY DEF ScheduleTypeOK, RunKinds
<1>3. row \in RunRows /\ row.kind = kind /\ row.slot = slot
  BY <1>1, <1>2, NewRowTypes
<1>4. Len(rows) \in Nat /\ Len(rows') = Len(rows) + 1 /\ rows'[Len(rows) + 1] = row
  BY <1>1, <1>2, <1>3, RowAdded
<1>5. Len(rows) + 1 \in 1..Len(rows')
  BY <1>4
<1>6. QED
  BY <1>3, <1>4, <1>5 DEF Answered

LEMMA TickKnowsStep ==
    ASSUME ScheduleInv, [ScheduleNext]_scheduleVars, NEW t \in Ticks PROVE TickKnows(t)'
<1> SUFFICES ASSUME tick'[t].at # "idle", tick'[t].moment = instant', steady' = TRUE
             PROVE  /\ tick'[t].rev = current'
                    /\ tick'[t].at = "policy" => tick'[t].enabled = enabled'
                    /\ tick'[t].at = "sending" /\ enabled' /\ instant' >= Today' =>
                         Answered(Today)'
  <2>1. steady' \in BOOLEAN
    BY PolicyStep DEF ScheduleInv
  <2>2. QED
    BY <2>1 DEF TickKnows
<1>1. ScheduleTypeOK /\ CurrentIsLatest /\ OneRunPerRevision /\ TickKnows(t)
  BY DEF ScheduleInv
<1>2. /\ tick[t] \in TickRows /\ tick[t].moment <= instant /\ tick[t].moment \in Nat
      /\ instant \in 0..MaxInstant /\ tick[t].rev \in Nat
      /\ enabled \in BOOLEAN
  <2>1. tick[t] \in TickRows /\ tick[t].moment <= instant /\ instant \in 0..MaxInstant
        /\ enabled \in BOOLEAN
    BY <1>1 DEF ScheduleTypeOK
  <2>2. tick[t].moment \in Nat /\ tick[t].rev \in Nat
    BY <2>1 DEF TickRows
  <2>3. QED
    BY <2>1, <2>2
<1>3. /\ UNCHANGED <<enabled, editions, current>>
      /\ instant' = instant => steady
      /\ instant' \in {instant, instant + 1}
  BY <1>1, PolicyStep DEF PolicyStays
<1>4. CASE instant' # instant
  <2>1. UNCHANGED tick
    BY <1>4 DEF ScheduleNext, StartEdit, CommitEdit, StartTick, TickGoesOn, ReadPolicy, AddMissed,
       LookForSlot, AddSlot, SendRuns, LoseTick, AskManually, StartAsk, MarkStalledRow, LookForAsk,
       AddAsked, TakeRun, EndRun, PassTime, scheduleVars
  <2>2. tick[t].moment = instant + 1
    BY <1>3, <1>4, <2>1
  <2>3. QED
    BY SMTT(30), <1>2, <2>2
<1>5. CASE instant' = instant
  <2>1. steady /\ Today' = Today
    BY <1>3, <1>5 DEF Today
  <2>2. PICK today : today = Today
    OBVIOUS
  <2>3. Answered(Today)' <=> Answered(today)'
    BY <2>1, <2>2 DEF Answered
  <2>4. Answered(Today) => Answered(today)'
    <3>1. Answered(today) => Answered(today)'
      BY <1>1, RowsStep, AnsweredStays
    <3>2. QED
      BY <2>2, <3>1 DEF Answered
  <2>5. CASE tick'[t] = tick[t]
    BY <1>1, <1>3, <1>5, <2>1, <2>2, <2>3, <2>4, <2>5 DEF TickKnows
  <2>6. ASSUME NEW u \in Ticks, StartTick(u) \/ TickGoesOn(u) \/ LoseTick(u), tick'[t] # tick[t]
        PROVE  TickKnows(t)'
    <3>1. PICK row : tick' = [tick EXCEPT ![u] = row] /\ TickGoes(u, row)
      BY <1>1, <2>6, TickEffect
    <3>2. u = t /\ tick'[t] = row
      BY <1>1, <2>6, <3>1 DEF ScheduleTypeOK
    <3>3. TickGoes(t, row)
      BY <3>1, <3>2
    <3>4. CASE row = [at |-> "policy", moment |-> instant, enabled |-> enabled, rev |-> current,
                      ids |-> Oldest({k \in 1..Len(rows) : BroughtBack(k)})]
      BY <1>3, <3>2, <3>4 DEF TickKnows
    <3>5. ASSUME tick[t].at # "idle", row.moment = tick[t].moment, row.rev = tick[t].rev,
                 row.at # "policy",
                 row.at = "sending" /\ enabled /\ instant >= Today => Answered(today)'
          PROVE  TickKnows(t)'
      BY <1>1, <1>3, <1>5, <2>1, <2>3, <3>2, <3>5 DEF TickKnows
    <3>6. tick[t].at # "idle" /\ tick[t].moment = instant =>
            tick[t].rev = current /\ TickSlot(t) = Today
      BY <1>1, <2>1 DEF TickKnows, TickSlot, DueSlot, Today
    <3>7. CASE ReadPolicy(t) /\ tick[t].at = "policy"
               /\ \E at \in {"missing", "looking", "sending"} :
                    /\ row = Read(tick[t], at)
                    /\ at = "sending" <=> ~tick[t].enabled \/ tick[t].moment < TickSlot(t)
      <4>1. PICK at \in {"missing", "looking", "sending"} :
                    /\ row = Read(tick[t], at)
                    /\ at = "sending" <=> ~tick[t].enabled \/ tick[t].moment < TickSlot(t)
        BY <3>7
      <4>2. row.at = at /\ row.moment = tick[t].moment /\ row.rev = tick[t].rev
        BY <1>2, <4>1, ReadRows DEF Steps
      <4>3. tick[t].moment = instant /\ tick[t].at = "policy"
        BY <1>5, <3>2, <3>7, <4>2
      <4>4. TickSlot(t) = Today /\ tick[t].enabled = enabled
        BY <1>1, <2>1, <3>6, <4>3 DEF TickKnows
      <4>5. at = "sending" => ~enabled \/ instant < TickSlot(t)
        BY <4>1, <4>3, <4>4
      <4>6. TickSlot(t) \in Int
        BY <1>1, TickSlotTypes
      <4>7. at = "sending" /\ enabled => ~(instant >= Today)
        BY <1>2, <4>4, <4>5, <4>6
      <4>8. QED
        BY <3>5, <4>2, <4>3, <4>7
    <3>8. CASE AddMissed(t) /\ tick[t].at = "missing" /\ row = Going(tick[t], "sending")
               /\ IF MissedRows(TickSlot(t)) = {}
                  THEN rows' = Append(rows, NewRow("missed", TickSlot(t), tick[t].rev, "skipped"))
                  ELSE UNCHANGED rows
      <4>1. row.at = "sending" /\ row.moment = tick[t].moment /\ row.rev = tick[t].rev
        BY <1>2, <3>8, GoingRows DEF Steps
      <4>2. TickSlot(t) = Today /\ TickSlot(t) \in Int
        BY <1>1, <1>5, <3>2, <3>6, <3>8, <4>1, TickSlotTypes
      <4>3. Answered(today)'
        <5>1. CASE MissedRows(TickSlot(t)) = {}
          <6>1. rows' = Append(rows, NewRow("missed", today, tick[t].rev, "skipped"))
            BY <2>2, <3>8, <4>2, <5>1
          <6>2. QED
            BY <1>1, <1>2, <2>2, <4>2, <6>1, AnsweredBy DEF NewStatus
        <5>2. CASE MissedRows(TickSlot(t)) # {}
          BY <2>2, <3>8, <4>2, <5>2 DEF MissedRows, Answered
        <5>3. QED
          BY <5>1, <5>2
      <4>4. QED
        BY <3>5, <3>8, <4>1, <4>3
    <3>9. CASE LookForSlot(t) /\ tick[t].at = "looking"
               /\ \/ row = Going(tick[t], "adding")
                  \/ \E k \in 1..Len(rows) :
                       /\ row = Bringing(tick[t], "sending", tick[t].ids \cup {k})
                       /\ rows[k].kind = "scheduled" /\ rows[k].slot = TickSlot(t)
                       /\ UNCHANGED rows
      <4>1. CASE row = Going(tick[t], "adding")
        <5>1. row.at = "adding" /\ row.moment = tick[t].moment /\ row.rev = tick[t].rev
          BY <1>2, <4>1, GoingRows DEF Steps
        <5>2. QED
          BY <3>5, <3>9, <5>1
      <4>2. ASSUME NEW k \in 1..Len(rows),
                   row = Bringing(tick[t], "sending", tick[t].ids \cup {k}),
                   rows[k].kind = "scheduled", rows[k].slot = TickSlot(t), UNCHANGED rows
            PROVE  TickKnows(t)'
        <5>1. tick[t].ids \cup {k} \in SUBSET Nat
          BY <1>2 DEF TickRows
        <5>2. row.at = "sending" /\ row.moment = tick[t].moment /\ row.rev = tick[t].rev
          BY <1>2, <4>2, <5>1, BringingRows DEF Steps
        <5>3. TickSlot(t) = today
          BY <1>5, <2>2, <3>2, <3>6, <3>9, <5>2
        <5>4. Answered(today)'
          BY <4>2, <5>3 DEF Answered
        <5>5. QED
          BY <3>5, <3>9, <5>2, <5>4
      <4>3. QED
        BY <3>9, <4>1, <4>2
    <3>10. CASE AddSlot(t) /\ tick[t].at = "adding"
                /\ row = Bringing(tick[t], "sending", tick[t].ids \cup {Len(rows) + 1})
                /\ rows' = Append(rows, NewRow("scheduled", TickSlot(t), tick[t].rev,
                                               Accepted(tick[t].rev)))
      <4>1. Len(rows) + 1 \in Nat
        BY <1>1, Counts
      <4>2. tick[t].ids \cup {Len(rows) + 1} \in SUBSET Nat
        BY <1>2, <4>1 DEF TickRows
      <4>3. row.at = "sending" /\ row.moment = tick[t].moment /\ row.rev = tick[t].rev
        BY <1>2, <3>10, <4>2, BringingRows DEF Steps
      <4>4. TickSlot(t) = today /\ today \in Int
        BY <1>1, <1>5, <2>2, <3>2, <3>6, <3>10, <4>3, TickSlotTypes
      <4>5. Accepted(tick[t].rev) \in NewStatus
        BY DEF Accepted, NewStatus
      <4>6. rows' = Append(rows, NewRow("scheduled", today, tick[t].rev, Accepted(tick[t].rev)))
        BY <3>10, <4>4
      <4>7. Answered(today)'
        BY SMTT(30), <1>1, <1>2, <4>4, <4>5, <4>6, AnsweredBy
      <4>8. QED
        BY <3>5, <3>10, <4>3, <4>7
    <3>11. CASE row = NoTick
      BY <3>2, <3>11 DEF NoTick
    <3>12. QED
      BY <3>3, <3>4, <3>7, <3>8, <3>9, <3>10, <3>11 DEF TickGoes
  <2>7. UNCHANGED tick \/ \E u \in Ticks : StartTick(u) \/ TickGoesOn(u) \/ LoseTick(u)
    BY ZenonT(40) DEF ScheduleNext, StartEdit, CommitEdit, AskManually, StartAsk, MarkStalledRow, LookForAsk,
       AddAsked, TakeRun, EndRun, PassTime, scheduleVars
  <2>8. QED
    BY <2>5, <2>6, <2>7 DEF TickKnows
<1>6. QED
  BY <1>4, <1>5

LEMMA SlotIsAnsweredStep ==
    ASSUME ScheduleInv, [ScheduleNext]_scheduleVars PROVE SlotIsAnswered'
<1>1. ScheduleTypeOK /\ CurrentIsLatest /\ SlotIsAnswered /\ \A t \in Ticks : TickKnows(t)
  BY DEF ScheduleInv
<1>2. /\ steady' \in BOOLEAN /\ ticked' \in BOOLEAN
      /\ steady' => UNCHANGED <<enabled, editions, current>>
      /\ steady' /\ instant' = instant => steady
  BY <1>1, PolicyStep DEF PolicyStays
<1> SUFFICES ASSUME steady', enabled', ticked', instant' >= Today' PROVE Answered(Today)'
  BY DEF SlotIsAnswered, Answered, Today
<1>3. ticked \/ \E t \in Ticks : SendRuns(t) /\ tick[t].moment = instant
  BY ZenonT(40) DEF ScheduleNext, StartEdit, CommitEdit, StartTick, TickGoesOn, ReadPolicy, AddMissed,
     LookForSlot, AddSlot, SendRuns, LoseTick, AskManually, StartAsk, MarkStalledRow, LookForAsk,
     AddAsked, TakeRun, EndRun, PassTime, scheduleVars
<1>4. instant' = instant
  BY DEF ScheduleNext, StartEdit, CommitEdit, StartTick, TickGoesOn, ReadPolicy, AddMissed,
     LookForSlot, AddSlot, SendRuns, LoseTick, AskManually, StartAsk, MarkStalledRow, LookForAsk,
     AddAsked, TakeRun, EndRun, PassTime, scheduleVars
<1>5. steady /\ enabled /\ Today' = Today /\ instant >= Today
  BY <1>2, <1>4 DEF Today
<1>6. PICK today : today = Today
  OBVIOUS
<1>7. Answered(today)
  <2>1. CASE ticked
    BY <1>1, <1>5, <1>6, <2>1 DEF SlotIsAnswered, Answered, Today
  <2>2. ASSUME NEW t \in Ticks, SendRuns(t), tick[t].moment = instant PROVE Answered(today)
    <3>1. tick[t].at = "sending" /\ TickKnows(t)
      BY <1>1, <2>2 DEF SendRuns
    <3>2. Answered(Today)
      BY <1>5, <2>2, <3>1 DEF TickKnows
    <3>3. QED
      BY <1>6, <3>2 DEF Answered
  <2>3. QED
    BY <1>3, <2>1, <2>2
<1>8. Answered(today)'
  BY <1>1, <1>7, RowsStep, AnsweredStays
<1>9. QED
  BY <1>5, <1>6, <1>8 DEF Answered

-----------------------------------------------------------------------------
(* The theorems *)

LEMMA ScheduleInitInv == ScheduleInit => ScheduleInv
<1> SUFFICES ASSUME ScheduleInit PROVE ScheduleInv
  OBVIOUS
<1>1. PICK c \in Configurations : editions = <<c>>
  BY DEF ScheduleInit
<1>2. editions \in Seq(Configurations) /\ Len(editions) = 1
  BY <1>1
<1>3. rows \in Seq(RunRows) /\ Len(rows) = 0
  BY DEF ScheduleInit
<1>4. 0 \in 0..MaxInstant /\ 0 \in 0..MaxAsked /\ 0 \in 0..MaxMishaps /\ 1 \in 1..1
  OBVIOUS
<1>5. tick \in [Ticks -> TickRows]
  BY <1>4 DEF ScheduleInit, NoTick, TickRows
<1>6. ASSUME NEW t \in Ticks
      PROVE  tick[t] = NoTick /\ TickIsBounded(t) /\ TickKnows(t)
  <2>1. tick[t] = NoTick
    BY DEF ScheduleInit
  <2>2. Cardinality({}) = 0
    BY FS_EmptySet
  <2>3. QED
    BY <2>1, <2>2 DEF NoTick, TickIsBounded, TickKnows
<1>7. asker \in [Askers -> AskRows] /\ \A a \in Askers : asker[a] = NoAsk
  BY <1>4 DEF ScheduleInit, NoAsk, AskRows, Watchlisting
<1>8. editor \in [Editors -> EditRows] /\ \A o \in Editors : editor[o] = NoEdit
  BY DEF ScheduleInit, NoEdit, EditRows
<1>9. ScheduleTypeOK
  <2>1. /\ instant = 0 /\ {enabled, ticked, steady} \subseteq BOOLEAN /\ current = 1 /\ sent = {}
        /\ asks = 0 /\ mishaps = 0
    BY DEF ScheduleInit
  <2>2. \A t \in Ticks : /\ tick[t].ids \subseteq 1..Len(rows) /\ tick[t].moment <= instant
                         /\ tick[t].rev \in 1..Len(editions) /\ TickIsBounded(t)
    BY <1>2, <1>4, <1>6, <2>1 DEF NoTick
  <2>3. \A a \in Askers : /\ asker[a].rev \in 1..Len(editions) /\ asker[a].bucket <= instant
                          /\ asker[a].at = "stalling" => asker[a].old \in 1..Len(rows)
    BY <1>2, <1>4, <1>7, <2>1 DEF NoAsk
  <2>4. \A o \in Editors : editor[o].rev \in 1..Len(editions)
    BY <1>2, <1>4, <1>8 DEF NoEdit
  <2>5. \A k \in 1..Len(rows) : rows[k].rev \in 1..Len(editions)
    BY <1>3
  <2>6. current \in 1..Len(editions) /\ instant \in 0..MaxInstant /\ asks \in 0..MaxAsked
        /\ mishaps \in 0..MaxMishaps
    BY <1>2, <1>4, <2>1
  <2>7. QED
    BY <1>2, <1>3, <1>5, <1>7, <1>8, <2>1, <2>2, <2>3, <2>4, <2>5, <2>6 DEF ScheduleTypeOK
<1>10. CurrentIsLatest /\ OneRunPerRevision /\ SlotIsAnswered
  BY <1>2, <1>3 DEF ScheduleInit, CurrentIsLatest, OneRunPerRevision, SlotIsAnswered
<1>11. QED
  BY <1>6, <1>9, <1>10 DEF ScheduleInv

LEMMA ScheduleNextKeeps == ScheduleInv /\ [ScheduleNext]_scheduleVars => ScheduleInv'
<1> SUFFICES ASSUME ScheduleInv, [ScheduleNext]_scheduleVars PROVE ScheduleInv'
  OBVIOUS
<1>1. ScheduleTypeOK' /\ CurrentIsLatest' /\ OneRunPerRevision'
  BY ScheduleTypeStep, OneRunStep DEF ScheduleInv
<1>2. \A t \in Ticks : TickKnows(t)'
  BY TickKnowsStep
<1>3. QED
  BY <1>1, <1>2, SlotIsAnsweredStep DEF ScheduleInv

\* What the invariant says is kept by every step of ticks, requests, editors and workers.
THEOREM ScheduleSafe == ScheduleSpec => []ScheduleInv
<1>1. QED
  BY ScheduleInitInv, ScheduleNextKeeps, PTL DEF ScheduleSpec

\* tick: every variable keeps its type; a tick brings back no more runs than may run at a time,
\* and adds one at most.
THEOREM ScheduleTypeCorrect == ScheduleSpec => []ScheduleTypeOK
<1>1. ScheduleInv => ScheduleTypeOK
  BY DEF ScheduleInv
<1>2. QED
  BY <1>1, ScheduleSafe, PTL

\* update_policy: whatever revision an editor has loaded, the policy stands in the latest.
THEOREM PolicyIsCurrent == ScheduleSpec => []CurrentIsLatest
<1>1. ScheduleInv => CurrentIsLatest
  BY DEF ScheduleInv
<1>2. QED
  BY <1>1, ScheduleSafe, PTL

\* trigger_run: however many ticks race for it, a slot has one run under one revision.
THEOREM OneRun == ScheduleSpec => []OneRunPerRevision
<1>1. ScheduleInv => OneRunPerRevision
  BY DEF ScheduleInv
<1>2. QED
  BY <1>1, ScheduleSafe, PTL

\* tick: once a tick has gone through, the slot of a day that is due has a run or is recorded as
\* missed, unless the policy was edited meanwhile.
THEOREM EverySlot == ScheduleSpec => []SlotIsAnswered
<1>1. ScheduleInv => SlotIsAnswered
  BY DEF ScheduleInv
<1>2. QED
  BY <1>1, ScheduleSafe, PTL
===============================================================================
