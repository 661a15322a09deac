--------------------------- MODULE RequestsProofs ---------------------------
(***************************************************************************)
(* What holds of the requests users make, for every number of requests,    *)
(* workers, retries, repeated messages and lost processes: explanations    *)
(* are paid for and shown, a comparison takes from the quota what it used, *)
(* and a backfill works upstream first and reports what it has done.       *)
(***************************************************************************)
EXTENDS MC_Requests, FiniteSetTheorems, FunctionTheorems, SequenceTheorems, TLAPS

-----------------------------------------------------------------------------
(* Explanations *)

RequestRows ==
    [status : {"none", "pending", "building", "ready", "failed"}, cutoff : Cutoffs \cup {None},
     runId : Keys \cup {NoKey}, output : Keys \cup {NoKey}]

RunRows == [status : {"absent", "running", "succeeded", "failed"}, lapsed : BOOLEAN,
            output : BOOLEAN]

SessionRows ==
    [request : Requests \cup {None}, status : {"none", "pending", "building", "ready", "failed"},
     cutoff : Cutoffs \cup {None}, runId : Keys \cup {NoKey}, key : Keys \cup {NoKey},
     inserted : BOOLEAN, seen : RunRows, acquired : BOOLEAN]

Typed == TypeOK /\ mine \in [Workers -> SessionRows]

\* Where a session has a key, a run of that key, and has read that run.
Keyed == {"keyed", "inserted", "seen", "decided", "calling", "answered", "refused", "saved"}
Opened == Keyed \ {"keyed"}
Sighted == Opened \ {"inserted"}

\* What a request holds, what a message can ask for and what a worker's session has read is there.
Named ==
    /\ \A r \in Requests :
         /\ request[r].status # "none" => request[r].cutoff # None
         /\ request[r].status = "none" => request[r].runId = NoKey
         /\ owed[r] + queue[r] > 0 => request[r].status # "none"
    /\ \A w \in Workers : pc[w] # "idle" =>
         /\ mine[w].request \in Requests
         /\ request[mine[w].request].status # "none"
         /\ mine[w].cutoff # None
         /\ pc[w] \in Keyed => mine[w].key \in Keys
         /\ pc[w] \in Opened => run[mine[w].key] # Absent

\* The runs there are, the executions that are still to come, and those that may still open a run
\* and call a model.
Runs == {k \in Keys : run[k] # Absent}
Waiting == {m \in Requests \X (Nat \ {0}) : m[2] <= owed[m[1]] + queue[m[1]]}
Opening == {w \in Workers : pc[w] \in {"read", "building", "keyed"}}
Calling == {w \in Workers : pc[w] \in {"read", "building", "keyed", "inserted", "seen", "decided",
                                        "calling"}}

\* Every execution, past or to come, has its unit of the quota or its lost worker.
Paid ==
    /\ IsFiniteSet(Waiting)
    /\ Cardinality(Runs) + Cardinality(Waiting) + Cardinality(Opening) <= used + lost.crashes
    /\ calls + Cardinality(Waiting) + Cardinality(Calling) <= used + lost.crashes

\* What a run or a session takes for a success has an output.
Shown ==
    /\ \A k \in Keys : run[k].status = "succeeded" => run[k].output
    /\ \A w \in Workers :
         pc[w] \in Sighted /\ (pc[w] = "saved" \/ mine[w].seen.status = "succeeded")
             => run[mine[w].key].output
    /\ ReadyHasItsOutput

ExplainInv == Typed /\ Named /\ Paid /\ Shown

USE LimitAssumption, BoundAssumption

\* The instants are numbers, and the keys are finitely many pairs.
LEMMA Instants ==
    /\ Cutoffs \subseteq Nat /\ None \notin Cutoffs /\ None = 0
    /\ NoKey \notin Keys /\ IsFiniteSet(Keys)
    /\ \A c \in Cutoffs, e \in Editions : <<c, e>> \in Keys
<1>1. Cutoffs \subseteq Nat /\ None \notin Cutoffs /\ None = 0
  BY DEF Cutoffs, None
<1>2. NoKey \notin Keys /\ \A c \in Cutoffs, e \in Editions : <<c, e>> \in Keys
  BY <1>1 DEF NoKey, Keys
<1>3. IsFiniteSet(Cutoffs) /\ IsFiniteSet(Editions)
  <2>1. MaxCutoffs \in Int /\ MaxEditions \in Int /\ 0 \in Int /\ 1 \in Int
    OBVIOUS
  <2>2. QED
    BY <2>1, FS_Interval DEF Cutoffs, Editions
<1>4. IsFiniteSet(Keys)
  BY <1>3, FS_Product DEF Keys
<1>5. QED
  BY <1>1, <1>2, <1>4

LEMMA ExplainInit == Init => ExplainInv
<1> SUFFICES ASSUME Init PROVE ExplainInv
  OBVIOUS
<1>1. TypeOK
  BY DEF Init, TypeOK, Cutoffs, Editions, None, Absent, Locations
<1>2. mine \in [Workers -> SessionRows]
  BY DEF Init, SessionRows, RunRows, Free, Absent
<1>3. Named
  BY DEF Init, Named
<1>4. Paid
  <2>1. Runs = {} /\ Waiting = {} /\ Opening = {} /\ Calling = {}
    BY DEF Init, Runs, Waiting, Opening, Calling
  <2>2. QED
    BY <2>1, FS_EmptySet DEF Paid, Init
<1>5. Shown
  BY DEF Init, Shown, Absent, ReadyHasItsOutput, Sighted, Opened, Keyed
<1>6. QED
  BY <1>1, <1>2, <1>3, <1>4, <1>5 DEF ExplainInv, Typed

\* What is written into a request's row when its run ends.
LEMMA EndedRows ==
    ASSUME NEW x \in RequestRows, NEW k \in Keys
    PROVE  /\ [x EXCEPT !.status = "ready", !.output = k] \in RequestRows
           /\ [x EXCEPT !.status = "ready", !.output = k].status = "ready"
           /\ [x EXCEPT !.status = "ready", !.output = k].output = k
           /\ [x EXCEPT !.status = "ready", !.output = k].cutoff = x.cutoff
           /\ [x EXCEPT !.status = "failed"] \in RequestRows
           /\ [x EXCEPT !.status = "failed"].status = "failed"
           /\ [x EXCEPT !.status = "failed"].output = x.output
           /\ [x EXCEPT !.status = "failed"].cutoff = x.cutoff
BY DEF RequestRows

\* What the actions write into a request's row.
LEMMA RowWrites ==
    ASSUME NEW f \in [Requests -> RequestRows], NEW r \in Requests, NEW c \in Cutoffs \cup {None},
           NEW st \in {"none", "pending", "building", "ready", "failed"}
    PROVE  /\ [f EXCEPT ![r].status = st] \in [Requests -> RequestRows]
           /\ [f EXCEPT ![r].status = st, ![r].cutoff = c] \in [Requests -> RequestRows]
<1>1. \A x \in RequestRows : /\ [x EXCEPT !.status = st] \in RequestRows
                             /\ [x EXCEPT !.cutoff = c] \in RequestRows
  BY DEF RequestRows
<1>2. \A g \in [Requests -> RequestRows] : /\ [g EXCEPT ![r].status = st] \in [Requests -> RequestRows]
                                           /\ [g EXCEPT ![r].cutoff = c] \in [Requests -> RequestRows]
  BY <1>1
<1>3. QED
  BY <1>2

LEMMA TypedKept == ASSUME ExplainInv, [Next]_vars PROVE Typed'
<1> USE DEF ExplainInv, Typed, TypeOK
<1>1. ASSUME NEW r \in Requests, Create(r) PROVE Typed'
  <2>1. clock + 1 \in Cutoffs /\ used + 1 \in 0..DailyLimit
    BY <1>1, Instants DEF Create, QuotaLeft, Cutoffs, None
  <2>2. request' \in [Requests -> RequestRows] /\ used' = used + 1 /\ clock' = clock + 1
    <3>1. request \in [Requests -> RequestRows]
      BY DEF RequestRows
    <3>2. QED
      BY <1>1, <2>1, <3>1, RowWrites DEF Create
  <2>3. owed' \in [Requests -> Nat] /\ UNCHANGED <<run, calls, edition, queue, pc, mine, lost>>
    BY <1>1 DEF Create
  <2>4. QED
    BY <2>1, <2>2, <2>3 DEF RequestRows
<1>2. ASSUME NEW r \in Requests, Retry(r) PROVE Typed'
  <2>1. clock + 1 \in Cutoffs /\ used + 1 \in 0..DailyLimit
    BY <1>2, Instants DEF Retry, QuotaLeft, Cutoffs, None
  <2>2. request' \in [Requests -> RequestRows] /\ used' = used + 1 /\ clock' = clock + 1
    <3>1. request \in [Requests -> RequestRows]
      BY DEF RequestRows
    <3>2. QED
      BY <1>2, <2>1, <3>1, RowWrites DEF Retry, RetryCost
  <2>3. owed' \in [Requests -> Nat] /\ UNCHANGED <<run, calls, edition, queue, pc, mine, lost>>
    BY <1>2 DEF Retry
  <2>4. QED
    BY <2>1, <2>2, <2>3 DEF RequestRows
<1>3. ASSUME NEW r \in Requests, Dispatch(r) PROVE Typed'
  <2>1. CASE Enqueue(r)
    BY <2>1 DEF Enqueue
  <2>2. ASSUME NEW lie \in BOOLEAN, EnqueueFails(r, lie) PROVE Typed'
    <3>1. request' \in [Requests -> RequestRows]
      <4>1. request \in [Requests -> RequestRows] /\ request[r].status \in
               {"none", "pending", "building", "ready", "failed"}
        BY DEF RequestRows
      <4>2. request' = [request EXCEPT ![r].status =
                          IF request[r].status = "pending" THEN "failed" ELSE request[r].status]
        BY <2>2 DEF EnqueueFails
      <4>3. QED
        BY <4>1, <4>2, RowWrites
    <3>2. queue' \in [Requests -> Nat] /\ owed' \in [Requests -> Nat]
      BY <2>2 DEF EnqueueFails
    <3>3. lost' \in [crashes : 0..MaxCrashes, api : 0..MaxApiLost, enqueues : 0..MaxEnqueueFailures]
      BY <2>2 DEF EnqueueFails
    <3>4. UNCHANGED <<run, calls, used, clock, edition, pc, mine>>
      BY <2>2 DEF EnqueueFails
    <3>5. QED
      BY <3>1, <3>2, <3>3, <3>4 DEF RequestRows
  <2>3. QED
    BY <1>3, <2>1, <2>2 DEF Dispatch
<1>4. ASSUME NEW r \in Requests, ApiLost(r) PROVE Typed'
  BY <1>4 DEF ApiLost
<1>5. ASSUME NEW w \in Workers, NEW r \in Requests, Take(w, r) PROVE Typed'
  <2>1. [Free EXCEPT !.request = r, !.status = request[r].status, !.cutoff = request[r].cutoff,
                     !.runId = request[r].runId] \in SessionRows
    BY DEF Free, SessionRows, RunRows, Absent
  <2>2. QED
    BY <1>5, <2>1 DEF Take, Goto, Locations
<1>6. ASSUME NEW w \in Workers, Build(w) \/ FailRequest(w) \/ CallModel(w) \/ MarkReady(w)
      PROVE  Typed'
  <2>1. mine[w].request \in Requests
    BY <1>6 DEF Named, Build, FailRequest, CallModel, MarkReady
  <2>2. CASE Build(w)
    BY ZenonT(40), <2>1, <2>2 DEF Build, Goto, Locations
  <2>3. CASE FailRequest(w)
    BY ZenonT(40), <2>1, <2>3 DEF FailRequest, Goto, Locations
  <2>4. CASE CallModel(w)
    BY <2>4 DEF CallModel, Goto, Locations
  <2>5. CASE MarkReady(w)
    <3>1. request' \in [Requests -> RequestRows]
      <4>1. request \in [Requests -> RequestRows] /\ mine[w].key \in Keys
        BY <2>5 DEF RequestRows, Named, MarkReady, Keyed
      <4>2. QED
        <5>1. \A q \in Requests : (IF request[q].runId = mine[w].key
                                   THEN [request[q] EXCEPT !.status = "ready", !.output = mine[w].key]
                                   ELSE request[q]) \in RequestRows
          BY <4>1, EndedRows
        <5>2. request' = [q \in Requests |-> IF request[q].runId = mine[w].key
                            THEN [request[q] EXCEPT !.status = "ready", !.output = mine[w].key]
                            ELSE request[q]]
          BY <2>5 DEF MarkReady, Marked
        <5>3. QED
          BY <5>1, <5>2
    <3>2. pc' \in [Workers -> Locations] /\ UNCHANGED <<run, calls, used, clock, edition, owed, queue, mine, lost>>
      BY <2>5 DEF MarkReady, Goto, Locations
    <3>3. QED
      BY <3>1, <3>2 DEF RequestRows
  <2>6. QED
    BY <1>6, <2>2, <2>3, <2>4, <2>5
<1>7. ASSUME NEW w \in Workers, InsertRun(w) \/ SeeRun(w) PROVE Typed'
  <2>1. mine[w].key \in Keys /\ mine[w] \in SessionRows
    BY <1>7 DEF Named, InsertRun, SeeRun, Keyed
  <2>2. /\ run[mine[w].key] \in RunRows
        /\ [mine[w] EXCEPT !.seen = run[mine[w].key]] \in SessionRows
        /\ \A b \in BOOLEAN : [mine[w] EXCEPT !.inserted = b] \in SessionRows
    BY <2>1 DEF SessionRows, RunRows
  <2>3. Fresh \in RunRows
    BY DEF Fresh, RunRows
  <2>4. CASE InsertRun(w)
    BY <2>1, <2>2, <2>3, <2>4 DEF InsertRun, Goto, Locations, RunRows
  <2>5. CASE SeeRun(w)
    BY <2>1, <2>2, <2>5 DEF SeeRun, Goto, Locations
  <2>6. QED
    BY <1>7, <2>4, <2>5
<1>8. ASSUME NEW w \in Workers, AcquireRun(w) PROVE Typed'
  <2>1. mine[w].key \in Keys /\ mine[w] \in SessionRows /\ pc[w] = "seen"
    BY <1>8 DEF Named, AcquireRun, Keyed
  <2>2. /\ \A b \in BOOLEAN : [mine[w] EXCEPT !.acquired = b] \in SessionRows
        /\ [mine[w] EXCEPT !.acquired = TRUE, !.seen.status = "running"] \in SessionRows
        /\ mine[w].inserted \in BOOLEAN
    BY <2>1 DEF SessionRows, RunRows
  <2>3. /\ mine' \in [Workers -> SessionRows]
        /\ run' \in [Keys -> RunRows]
    <3>1. CASE Reacquires(w)
      <4>1. mine' \in [Workers -> SessionRows]
        BY <1>8, <2>1, <2>2, <3>1 DEF AcquireRun
      <4>2. run' \in [Keys -> RunRows]
        BY <1>8, <2>1, <3>1 DEF AcquireRun, RunRows
      <4>3. QED
        BY <4>1, <4>2
    <3>2. CASE ~Reacquires(w)
      BY <1>8, <2>1, <2>2, <3>2 DEF AcquireRun, RunRows
    <3>3. QED
      BY <3>1, <3>2
  <2>4. QED
    BY <1>8, <2>3 DEF AcquireRun, Goto, Locations, RunRows
<1>9. ASSUME NEW w \in Workers, AttachRun(w) \/ FailRun(w) \/ SaveOutput(w) PROVE Typed'
  <2>1. mine[w].key \in Keys /\ mine[w].request \in Requests
    BY <1>9 DEF Named, AttachRun, FailRun, SaveOutput, Keyed
  <2>2. CASE AttachRun(w)
    BY <2>1, <2>2 DEF AttachRun, Goto, Locations
  <2>3. CASE FailRun(w)
    BY SMTT(30), <2>1, <2>3 DEF FailRun, Goto, Locations
  <2>4. CASE SaveOutput(w)
    <3>1. run' \in [Keys -> RunRows]
      BY <2>1, <2>4 DEF SaveOutput, RunRows
    <3>2. /\ pc' \in [Workers -> Locations]
          /\ UNCHANGED <<request, calls, used, clock, edition, owed, queue, mine, lost>>
      BY <2>4 DEF SaveOutput, Goto, Locations
    <3>3. QED
      BY <3>1, <3>2 DEF RunRows
  <2>5. QED
    BY <1>9, <2>2, <2>3, <2>4
<1>10. ASSUME NEW w \in Workers, Return(w) \/ WorkerLost(w) PROVE Typed'
  <2>1. Free \in SessionRows
    BY DEF Free, SessionRows, RunRows, Absent
  <2>2. CASE Return(w)
    BY <2>1, <2>2 DEF Return, Goto, Locations
  <2>3. CASE WorkerLost(w)
    <3>1. mine[w].request \in Requests
      BY <2>3 DEF Named, WorkerLost
    <3>2. QED
      BY <2>1, <2>3, <3>1 DEF WorkerLost, Goto, Locations
  <2>4. QED
    BY <1>10, <2>2, <2>3
<1>11. ASSUME NEW k \in Keys, LeaseLapses(k) PROVE Typed'
  BY <1>11 DEF LeaseLapses
<1>14. CASE EditionChanges
  BY <1>14 DEF EditionChanges, Editions
<1>15. ASSUME NEW w \in Workers, ReadContext(w) PROVE Typed'
  <2>1. mine[w].cutoff \in Cutoffs /\ mine[w] \in SessionRows
    BY <1>15 DEF Named, ReadContext, SessionRows
  <2>2. <<mine[w].cutoff, edition>> \in Keys
    BY <2>1, Instants
  <2>3. [mine[w] EXCEPT !.key = <<mine[w].cutoff, edition>>] \in SessionRows
    BY <2>1, <2>2 DEF SessionRows
  <2>4. QED
    BY <1>15, <2>3 DEF ReadContext, Goto, Locations
<1>12. CASE UNCHANGED vars
  BY <1>12 DEF vars
<1>13. QED
  BY <1>1, <1>2, <1>3, <1>4, <1>5, <1>6, <1>7, <1>8, <1>9, <1>10, <1>11, <1>12, <1>14, <1>15
     DEF Next, Execute

\* A run that was opened stays, and only _acquire_run opens one.
LEMMA RunsOfAStep ==
    ASSUME ExplainInv
    PROVE  /\ \A w \in Workers : Execute(w) =>
                /\ \A k \in Keys : run[k] # Absent => run'[k] # Absent
                /\ InsertRun(w) \/ \A k \in Keys : run'[k] # Absent <=> run[k] # Absent
           /\ \A d \in Keys : LeaseLapses(d) =>
                \A k \in Keys : run'[k] # Absent <=> run[k] # Absent
<1> USE DEF ExplainInv, Typed, TypeOK
<1>4. Absent.status = "absent"
  BY DEF Absent
<1>1. ASSUME NEW w \in Workers, Execute(w)
      PROVE  /\ \A k \in Keys : run[k] # Absent => run'[k] # Absent
             /\ InsertRun(w) \/ \A k \in Keys : run'[k] # Absent <=> run[k] # Absent
  <2>1. CASE InsertRun(w)
    BY <2>1 DEF InsertRun
  <2>2. CASE AcquireRun(w) \/ FailRun(w) \/ SaveOutput(w)
    <3>1. mine[w].key \in Keys /\ run[mine[w].key] # Absent
      BY <2>2 DEF Named, AcquireRun, FailRun, SaveOutput, Keyed, Opened
    <3>2. \A k \in Keys : k # mine[w].key => run'[k] = run[k]
      BY <2>2, <3>1 DEF AcquireRun, FailRun, SaveOutput
    <3>3. run' = run \/ run'[mine[w].key].status # "absent"
      BY <2>2, <3>1 DEF AcquireRun, FailRun, SaveOutput
    <3>4. QED
      BY <1>4, <3>1, <3>2, <3>3
  <2>3. CASE UNCHANGED run
    BY <2>3
  <2>4. QED
    BY <1>1, <2>1, <2>2, <2>3
       DEF Execute, Build, FailRequest, ReadContext, SeeRun, AttachRun, CallModel, MarkReady, Return
<1>2. ASSUME NEW d \in Keys, LeaseLapses(d)
      PROVE  \A k \in Keys : run'[k] # Absent <=> run[k] # Absent
  <2>1. /\ run[d].status = "running" /\ run'[d].status = "running"
        /\ \A k \in Keys : k # d => run'[k] = run[k]
    BY <1>2 DEF LeaseLapses
  <2>2. QED
    BY <1>4, <2>1
<1>3. QED
  BY <1>1, <1>2

LEMMA NamedKept == ASSUME ExplainInv, [Next]_vars PROVE Named'
<1> USE DEF ExplainInv, Typed, TypeOK
<1>1. ASSUME NEW r \in Requests, Create(r) \/ Retry(r) PROVE Named'
  <2>1. /\ clock + 1 \in Cutoffs /\ request[r] \in RequestRows
        /\ request[r].status = "none" \/ request[r].status = "failed"
    BY <1>1, Instants DEF Create, Retry, Cutoffs, RequestRows
  <2> DEFINE row == [request[r] EXCEPT !.status = "pending", !.cutoff = clock + 1]
  <2>2. row.status = "pending" /\ row.cutoff = clock + 1
    BY <2>1 DEF RequestRows
  <2>3. request' = [request EXCEPT ![r] = row]
    BY <1>1 DEF Create, Retry
  <2>4. UNCHANGED <<run, queue, pc, mine>> /\ \A q \in Requests : q # r => owed'[q] = owed[q]
    BY <1>1 DEF Create, Retry
  <2> HIDE DEF row
  <2>5. \A q \in Requests : request'[q] = IF q = r THEN row ELSE request[q]
    BY <2>3
  <2>6. QED
    BY <2>1, <2>2, <2>4, <2>5, Instants DEF Named
<1>2. ASSUME NEW r \in Requests, Dispatch(r) PROVE Named'
  <2>1. CASE Enqueue(r)
    BY <2>1 DEF Enqueue, Named
  <2>2. ASSUME NEW lie \in BOOLEAN, EnqueueFails(r, lie) PROVE Named'
    BY <2>2 DEF EnqueueFails, Named
  <2>3. QED
    BY <1>2, <2>1, <2>2 DEF Dispatch
<1>3. ASSUME NEW r \in Requests, ApiLost(r) PROVE Named'
  BY <1>3 DEF ApiLost, Named
<1>4. ASSUME NEW w \in Workers, NEW r \in Requests, Take(w, r) PROVE Named'
  <2>1. \A q \in Requests : queue'[q] \in Nat /\ queue'[q] <= queue[q]
    BY <1>4 DEF Take
  <2>2. request[r].status # "none" /\ request[r].cutoff # None
    BY <1>4 DEF Take, Named
  <2>3. pc'[w] # "idle" =>
          pc'[w] = "read" /\ mine'[w].request = r /\ mine'[w].cutoff = request[r].cutoff
    <3>1. CASE request[r].status = "ready"
      BY <1>4, <3>1 DEF Take
    <3>2. CASE request[r].status # "ready"
      <4>1. mine'[w] = [Free EXCEPT !.request = r, !.status = request[r].status,
                                    !.cutoff = request[r].cutoff, !.runId = request[r].runId]
        BY <1>4, <3>2 DEF Take
      <4>2. pc'[w] = "read"
        BY <1>4, <3>2 DEF Take, Goto
      <4>3. QED
        BY <4>1, <4>2 DEF Free
    <3>3. QED
      BY <3>1, <3>2
  <2>4. \A v \in Workers : v # w => pc'[v] = pc[v] /\ mine'[v] = mine[v]
    BY <1>4 DEF Take, Goto
  <2>5. UNCHANGED <<request, run, owed>>
    BY <1>4 DEF Take
  <2>6. QED
    BY <2>1, <2>2, <2>3, <2>4, <2>5 DEF Named, Keyed, Opened
<1>5. ASSUME NEW w \in Workers, Execute(w) PROVE Named'
  <2>1. pc[w] # "idle" /\ UNCHANGED <<owed, queue>>
    BY <1>5 DEF Execute, Build, FailRequest, ReadContext, InsertRun, SeeRun, AcquireRun, AttachRun,
                CallModel, FailRun, SaveOutput, MarkReady, Return
  <2>2. mine[w].request \in Requests /\ (pc[w] \in Keyed => mine[w].key \in Keys)
    BY <2>1 DEF Named
  <2>3. \A r \in Requests : /\ request'[r].cutoff = request[r].cutoff
                            /\ request[r].status # "none" <=> request'[r].status # "none"
                            /\ request'[r].status = "none" => request'[r].runId = NoKey
    <3>1. CASE Build(w)
      BY <2>1, <2>2, <3>1 DEF Build, Named
    <3>2. CASE FailRequest(w)
      BY <2>1, <2>2, <3>2 DEF FailRequest, Named
    <3>3. CASE AttachRun(w)
      <4>1. request[mine[w].request].status # "none"
        BY <2>1 DEF Named
      <4>2. \/ request' = [request EXCEPT ![mine[w].request].runId = mine[w].key]
            \/ request' = request
        BY <3>3 DEF AttachRun
      <4>3. QED
        <5>1. \A q \in Requests : request[q] \in RequestRows
          BY DEF RequestRows
        <5>2. \A q \in Requests :
                /\ [request[q] EXCEPT !.runId = mine[w].key].cutoff = request[q].cutoff
                /\ [request[q] EXCEPT !.runId = mine[w].key].status = request[q].status
          BY <5>1 DEF RequestRows
        <5>3. \A q \in Requests :
                \/ request'[q] = request[q]
                \/ q = mine[w].request /\ request'[q] = [request[q] EXCEPT !.runId = mine[w].key]
          BY <2>2, <4>2
        <5>4. ASSUME NEW q \in Requests
              PROVE  /\ request'[q].cutoff = request[q].cutoff
                     /\ request'[q].status = request[q].status
                     /\ request[q].status = "none" => request'[q] = request[q]
          BY <4>1, <5>2, <5>3
        <5>5. QED
          BY <5>4 DEF Named
    <3>4. CASE FailRun(w) \/ MarkReady(w)
      <4>1. mine[w].key \in Keys /\ \A q \in Requests : request[q] \in RequestRows
        BY <2>2, <3>4 DEF RequestRows, FailRun, MarkReady, Keyed
      <4>2. \A q \in Requests : /\ request[q].runId # mine[w].key => request'[q] = request[q]
                                /\ request[q].runId = mine[w].key =>
                                     /\ request'[q].cutoff = request[q].cutoff
                                     /\ request'[q].status \in {"ready", "failed"}
        <5>1. CASE FailRun(w)
          <6>1. \A q \in Requests : request'[q] = IF request[q].runId = mine[w].key
                                                  THEN [request[q] EXCEPT !.status = "failed"]
                                                  ELSE request[q]
            BY <5>1 DEF FailRun
          <6>2. \A q \in Requests :
                  /\ [request[q] EXCEPT !.status = "failed"].cutoff = request[q].cutoff
                  /\ [request[q] EXCEPT !.status = "failed"].status = "failed"
            BY <4>1, EndedRows
          <6>3. QED
            BY <6>1, <6>2
        <5>2. CASE MarkReady(w)
          <6>1. \A q \in Requests : request'[q] =
                  IF request[q].runId = mine[w].key
                  THEN [request[q] EXCEPT !.status = "ready", !.output = mine[w].key]
                  ELSE request[q]
            BY <5>2 DEF MarkReady, Marked
          <6>2. \A q \in Requests : request[q].runId = mine[w].key =>
                  request'[q].status = "ready" /\ request'[q].cutoff = request[q].cutoff
            BY <4>1, <6>1 DEF RequestRows
          <6>3. QED
            BY <6>1, <6>2
        <5>3. QED
          BY <3>4, <5>1, <5>2
      <4>3. \A q \in Requests : request[q].runId = mine[w].key => request[q].status # "none"
        BY <4>1, Instants DEF Named
      <4>4. QED
        BY <4>2, <4>3 DEF Named
    <3>5. CASE UNCHANGED request
      BY <3>5 DEF Named
    <3>6. QED
      BY <1>5, <3>1, <3>2, <3>3, <3>4, <3>5
         DEF Execute, ReadContext, InsertRun, SeeRun, AcquireRun, CallModel, SaveOutput, Return
  <2>4. \A k \in Keys : run[k] # Absent => run'[k] # Absent
    BY <1>5, RunsOfAStep
  <2>5. \A v \in Workers : v # w => pc'[v] = pc[v] /\ mine'[v] = mine[v]
    BY <1>5 DEF Execute, Build, FailRequest, ReadContext, InsertRun, SeeRun, AcquireRun, AttachRun,
                CallModel, FailRun, SaveOutput, MarkReady, Return, Goto
  <2>6. pc'[w] # "idle" =>
          /\ mine'[w].request = mine[w].request /\ mine'[w].cutoff = mine[w].cutoff
          /\ pc'[w] \in Keyed => mine'[w].key \in Keys
          /\ pc'[w] \in Opened => run'[mine'[w].key] # Absent
    <3>1. mine[w] \in SessionRows /\ mine[w].cutoff \in Cutoffs
      BY <2>1 DEF Named, SessionRows
    <3>2. CASE ReadContext(w)
      <4>1. mine'[w] = [mine[w] EXCEPT !.key = <<mine[w].cutoff, edition>>] /\ pc'[w] = "keyed"
        BY <3>2 DEF ReadContext, Goto
      <4>2. QED
        BY <3>1, <4>1, Instants DEF SessionRows, Opened
    <3>3. CASE InsertRun(w)
      <4>1. mine[w].key \in Keys
        BY <2>2, <3>3 DEF InsertRun, Keyed
      <4>2. /\ mine'[w].request = mine[w].request /\ mine'[w].cutoff = mine[w].cutoff
            /\ mine'[w].key = mine[w].key
        BY <3>1, <3>3 DEF InsertRun, SessionRows
      <4>3. run'[mine[w].key] # Absent
        BY <3>3, <4>1 DEF InsertRun, Fresh, Absent
      <4>4. QED
        BY <4>1, <4>2, <4>3
    <3>4. CASE SeeRun(w) \/ AcquireRun(w)
      <4>1. /\ mine'[w].request = mine[w].request /\ mine'[w].cutoff = mine[w].cutoff
            /\ mine'[w].key = mine[w].key /\ pc[w] \in Opened
        <5>1. CASE SeeRun(w)
          BY <3>1, <5>1 DEF SeeRun, SessionRows, Opened, Keyed
        <5>2. CASE AcquireRun(w)
          BY <3>1, <5>2 DEF AcquireRun, SessionRows, Opened, Keyed
        <5>3. QED
          BY <3>4, <5>1, <5>2
      <4>2. QED
        BY <2>1, <2>4, <4>1 DEF Named, Opened
    <3>5. CASE UNCHANGED mine /\ (pc'[w] \in Keyed => pc[w] \in Opened)
      BY <2>1, <2>4, <3>5 DEF Named, Opened
    <3>6. CASE Return(w)
      BY <3>6 DEF Return, Goto
    <3>7. CASE Build(w) \/ FailRequest(w) \/ FailRun(w) \/ MarkReady(w)
      BY <3>5, <3>7 DEF Build, FailRequest, FailRun, MarkReady, Goto, Keyed
    <3>8. CASE AttachRun(w) \/ CallModel(w) \/ SaveOutput(w)
      BY <3>5, <3>8 DEF AttachRun, CallModel, SaveOutput, Goto, Keyed, Opened
    <3>9. QED
      BY <1>5, <3>2, <3>3, <3>4, <3>6, <3>7, <3>8 DEF Execute
  <2>7. QED
    BY <2>1, <2>3, <2>4, <2>5, <2>6 DEF Named, Keyed, Opened
<1>6. ASSUME NEW w \in Workers, WorkerLost(w) PROVE Named'
  <2>1. mine[w].request \in Requests /\ request[mine[w].request].status # "none"
    BY <1>6 DEF WorkerLost, Named
  <2>2. \A q \in Requests : queue'[q] = queue[q] \/ q = mine[w].request
    BY <1>6, <2>1 DEF WorkerLost
  <2>3. \A v \in Workers : pc'[v] # "idle" => pc'[v] = pc[v] /\ mine'[v] = mine[v]
    BY <1>6 DEF WorkerLost, Goto
  <2>4. UNCHANGED <<request, run, owed>>
    BY <1>6 DEF WorkerLost
  <2>5. QED
    BY <2>1, <2>2, <2>3, <2>4 DEF Named
<1>7. ASSUME NEW k \in Keys, LeaseLapses(k) PROVE Named'
  <2>1. \A d \in Keys : run[d] # Absent => run'[d] # Absent
    BY <1>7, RunsOfAStep
  <2>2. UNCHANGED <<request, owed, queue, pc, mine>>
    BY <1>7 DEF LeaseLapses
  <2>3. QED
    BY <2>1, <2>2 DEF Named, Opened
<1>8. CASE UNCHANGED vars \/ EditionChanges
  BY <1>8 DEF vars, EditionChanges, Named
<1>9. QED
  BY <1>1, <1>2, <1>3, <1>4, <1>5, <1>6, <1>7, <1>8 DEF Next

\* One request has an execution more or less to come.
LEMMA WaitingMoves ==
    ASSUME NEW r \in Requests, IsFiniteSet(Waiting),
           \A q \in Requests : /\ owed[q] \in Nat /\ queue[q] \in Nat
                               /\ owed'[q] \in Nat /\ queue'[q] \in Nat
                               /\ q # r => owed'[q] + queue'[q] = owed[q] + queue[q]
    PROVE  /\ owed'[r] + queue'[r] = owed[r] + queue[r] => Waiting' = Waiting
           /\ owed'[r] + queue'[r] = owed[r] + queue[r] + 1 =>
                IsFiniteSet(Waiting') /\ Cardinality(Waiting') = Cardinality(Waiting) + 1
           /\ owed'[r] + queue'[r] + 1 = owed[r] + queue[r] =>
                IsFiniteSet(Waiting') /\ Cardinality(Waiting') + 1 = Cardinality(Waiting)
<1>1. ASSUME owed'[r] + queue'[r] = owed[r] + queue[r] PROVE Waiting' = Waiting
  BY <1>1 DEF Waiting
<1>2. ASSUME owed'[r] + queue'[r] = owed[r] + queue[r] + 1
      PROVE  IsFiniteSet(Waiting') /\ Cardinality(Waiting') = Cardinality(Waiting) + 1
  <2> DEFINE m == <<r, owed[r] + queue[r] + 1>>
  <2>1. Waiting' = Waiting \cup {m} /\ m \notin Waiting
    <3>1. \A x \in Requests \X (Nat \ {0}) :
            /\ x \in Waiting <=> x[2] <= owed[x[1]] + queue[x[1]]
            /\ x \in Waiting' <=> x[2] <= owed'[x[1]] + queue'[x[1]]
            /\ x = <<x[1], x[2]>> /\ x[1] \in Requests /\ x[2] \in Nat
      BY DEF Waiting
    <3>2. \A x \in Requests \X (Nat \ {0}) : x \in Waiting' <=> x \in Waiting \/ x = m
      BY <1>2, <3>1
    <3>3. m \in Requests \X (Nat \ {0})
      OBVIOUS
    <3>4. m \notin Waiting
      BY <3>1, <3>3
    <3>5. QED
      BY <3>2, <3>3, <3>4 DEF Waiting
  <2> HIDE DEF m
  <2>2. QED
    BY <2>1, FS_AddElement
<1>3. ASSUME owed'[r] + queue'[r] + 1 = owed[r] + queue[r]
      PROVE  IsFiniteSet(Waiting') /\ Cardinality(Waiting') + 1 = Cardinality(Waiting)
  <2> DEFINE m == <<r, owed[r] + queue[r]>>
  <2>1. Waiting' = Waiting \ {m} /\ m \in Waiting
    BY <1>3 DEF Waiting
  <2> HIDE DEF m
  <2>2. Cardinality(Waiting) \in Nat
    BY FS_CardinalityType
  <2>3. IsFiniteSet(Waiting \ {m}) /\ Cardinality(Waiting \ {m}) = Cardinality(Waiting) - 1
    BY <2>1, FS_RemoveElement
  <2>4. QED
    BY <2>1, <2>2, <2>3
<1>4. QED
  BY <1>1, <1>2, <1>3

\* Of what is counted, each is a number.
LEMMA Counts ==
    ASSUME ExplainInv
    PROVE  /\ IsFiniteSet(Opening) /\ IsFiniteSet(Calling) /\ IsFiniteSet(Runs) /\ IsFiniteSet(Waiting)
           /\ Cardinality(Opening) \in Nat /\ Cardinality(Calling) \in Nat
           /\ Cardinality(Runs) \in Nat /\ Cardinality(Waiting) \in Nat
           /\ used \in Nat /\ lost.crashes \in Nat /\ calls \in Nat
<1>1. Opening \in SUBSET Workers /\ Calling \in SUBSET Workers /\ Runs \in SUBSET Keys
  BY DEF Opening, Calling, Runs
<1>2. IsFiniteSet(Opening) /\ IsFiniteSet(Calling)
  BY <1>1, WorkersAssumption, FS_Subset
<1>3. IsFiniteSet(Runs) /\ IsFiniteSet(Waiting)
  BY <1>1, Instants, FS_Subset DEF ExplainInv, Paid
<1>4. /\ Cardinality(Opening) \in Nat /\ Cardinality(Calling) \in Nat
      /\ Cardinality(Runs) \in Nat /\ Cardinality(Waiting) \in Nat
  BY <1>2, <1>3, FS_CardinalityType
<1>5. used \in Nat /\ lost.crashes \in Nat /\ calls \in Nat
  BY DEF ExplainInv, Typed, TypeOK
<1>6. QED
  BY <1>2, <1>3, <1>4, <1>5

LEMMA PaidKept == ASSUME ExplainInv, [Next]_vars, Typed' PROVE Paid'
<1> USE DEF ExplainInv, Typed, TypeOK
<1> DEFINE Fewer == Opening' \subseteq Opening /\ Calling' \subseteq Calling
<1>1. Fewer => /\ Cardinality(Opening') <= Cardinality(Opening) /\ Cardinality(Opening') \in Nat
               /\ Cardinality(Calling') <= Cardinality(Calling) /\ Cardinality(Calling') \in Nat
  <2>2. ASSUME NEW S, NEW T, IsFiniteSet(S), T \subseteq S
        PROVE  IsFiniteSet(T) /\ Cardinality(T) <= Cardinality(S) /\ Cardinality(T) \in Nat
    <3>1. T \in SUBSET S
      BY <2>2
    <3>2. QED
      BY <2>2, <3>1, FS_Subset, FS_CardinalityType
  <2>3. QED
    BY <2>2, Counts
<1>2. ASSUME NEW r \in Requests, Create(r) \/ Retry(r) PROVE Paid'
  <2>1. /\ used' = used + 1 /\ UNCHANGED <<run, calls, pc, queue, lost>>
        /\ owed' = [owed EXCEPT ![r] = owed[r] + 1]
    BY <1>2 DEF Create, Retry, RetryCost
  <2>2. IsFiniteSet(Waiting') /\ Cardinality(Waiting') = Cardinality(Waiting) + 1
    <3>1. \A q \in Requests : /\ owed[q] \in Nat /\ queue[q] \in Nat /\ queue'[q] = queue[q]
                              /\ q # r => owed'[q] = owed[q]
      BY <2>1
    <3>4. owed'[r] = owed[r] + 1
      BY <2>1
    <3>2. /\ \A q \in Requests : /\ owed'[q] \in Nat /\ queue'[q] \in Nat
                                 /\ q # r => owed'[q] + queue'[q] = owed[q] + queue[q]
          /\ owed'[r] + queue'[r] = owed[r] + queue[r] + 1
      <4>1. ASSUME NEW q \in Requests, q # r
            PROVE  /\ owed'[q] \in Nat /\ queue'[q] \in Nat
                   /\ owed'[q] + queue'[q] = owed[q] + queue[q]
        BY <3>1, <4>1
      <4>2. owed'[r] \in Nat /\ queue'[r] \in Nat
        BY <3>1, <3>4
      <4>3. owed'[r] + queue'[r] = owed[r] + queue[r] + 1
        <5>1. owed[r] \in Nat /\ queue[r] \in Nat /\ queue'[r] = queue[r]
          BY <3>1
        <5>2. QED
          BY <3>4, <5>1
      <4>4. QED
        BY <4>1, <4>2, <4>3
    <3>3. QED
      BY <3>1, <3>2, WaitingMoves, Counts
  <2>3. Runs' = Runs /\ Opening' = Opening /\ Calling' = Calling
    BY <2>1 DEF Runs, Opening, Calling
  <2>4. QED
    BY <2>1, <2>2, <2>3, Counts DEF Paid
<1>3. ASSUME NEW r \in Requests, Dispatch(r) \/ ApiLost(r) PROVE Paid'
  <2>1. UNCHANGED <<run, calls, used, pc>> /\ lost'.crashes = lost.crashes
    BY <1>3 DEF Dispatch, Enqueue, EnqueueFails, ApiLost
  <2>2. \A q \in Requests : q # r => owed'[q] = owed[q] /\ queue'[q] = queue[q]
    BY <1>3 DEF Dispatch, Enqueue, EnqueueFails, ApiLost
  <2>3. \/ owed'[r] + queue'[r] = owed[r] + queue[r]
        \/ owed'[r] + queue'[r] + 1 = owed[r] + queue[r]
    BY <1>3 DEF Dispatch, Enqueue, EnqueueFails, ApiLost
  <2>4. IsFiniteSet(Waiting') /\ Cardinality(Waiting') <= Cardinality(Waiting)
        /\ Cardinality(Waiting') \in Nat
    <3>1. \/ Waiting' = Waiting
          \/ IsFiniteSet(Waiting') /\ Cardinality(Waiting') + 1 = Cardinality(Waiting)
      BY <2>2, <2>3, WaitingMoves, Counts
    <3>2. IsFiniteSet(Waiting')
      BY <3>1, Counts
    <3>3. Cardinality(Waiting') \in Nat
      BY <3>2, FS_CardinalityType
    <3>4. QED
      BY <3>1, <3>2, <3>3, Counts
  <2>5. Runs' = Runs /\ Opening' = Opening /\ Calling' = Calling
    BY <2>1 DEF Runs, Opening, Calling
  <2>6. QED
    BY <2>1, <2>4, <2>5, Counts DEF Paid
<1>4. ASSUME NEW w \in Workers, NEW r \in Requests, Take(w, r) PROVE Paid'
  <2>1. /\ UNCHANGED <<run, calls, used, owed, lost>> /\ queue[r] > 0
        /\ queue' = [queue EXCEPT ![r] = queue[r] - 1]
        /\ \A v \in Workers : v # w => pc'[v] = pc[v]
    BY <1>4 DEF Take, Goto
  <2>2. IsFiniteSet(Waiting') /\ Cardinality(Waiting') + 1 = Cardinality(Waiting)
    BY <2>1, WaitingMoves, Counts
  <2>3. /\ Opening' \subseteq Opening \cup {w} /\ Calling' \subseteq Calling \cup {w}
        /\ Runs' = Runs
    BY <2>1 DEF Runs, Opening, Calling
  <2>4. ASSUME NEW S, NEW T, IsFiniteSet(S), T \subseteq S \cup {w}
        PROVE  Cardinality(T) <= Cardinality(S) + 1 /\ Cardinality(T) \in Nat
    <3>1. /\ IsFiniteSet(S \cup {w}) /\ T \in SUBSET (S \cup {w})
          /\ Cardinality(S \cup {w}) <= Cardinality(S) + 1 /\ Cardinality(S) \in Nat
      <4>1. Cardinality(S) \in Nat
        BY <2>4, FS_CardinalityType
      <4>2. IsFiniteSet(S \cup {w})
            /\ Cardinality(S \cup {w}) = IF w \in S THEN Cardinality(S) ELSE Cardinality(S) + 1
        BY <2>4, FS_AddElement, Zenon
      <4>3. QED
        BY <2>4, <4>1, <4>2
    <3>2. IsFiniteSet(T) /\ Cardinality(T) <= Cardinality(S \cup {w})
      BY <3>1, FS_Subset
    <3>3. Cardinality(T) \in Nat /\ Cardinality(S \cup {w}) \in Nat
      BY <3>1, <3>2, FS_CardinalityType
    <3>4. QED
      BY <3>1, <3>2, <3>3
  <2>5. /\ Cardinality(Opening') <= Cardinality(Opening) + 1 /\ Cardinality(Opening') \in Nat
        /\ Cardinality(Calling') <= Cardinality(Calling) + 1 /\ Cardinality(Calling') \in Nat
    BY <2>3, <2>4, Counts
  <2>6. Cardinality(Waiting') \in Nat
    BY <2>2, FS_CardinalityType
  <2>7. QED
    BY <2>1, <2>2, <2>3, <2>5, <2>6, Counts DEF Paid
<1>5. ASSUME NEW w \in Workers, Execute(w) PROVE Paid'
  <2>1. UNCHANGED <<used, owed, queue, lost>> /\ Waiting' = Waiting
    BY <1>5 DEF Execute, Build, FailRequest, ReadContext, InsertRun, SeeRun, AcquireRun, AttachRun,
                CallModel, FailRun, SaveOutput, MarkReady, Return, Waiting
  <2>2. \A v \in Workers : v # w => pc'[v] = pc[v]
    BY <1>5 DEF Execute, Build, FailRequest, ReadContext, InsertRun, SeeRun, AcquireRun, AttachRun,
                CallModel, FailRun, SaveOutput, MarkReady, Return, Goto
  <2>3. Fewer
    <3>1. /\ pc'[w] \in {"read", "building", "keyed"} => pc[w] \in {"read", "building", "keyed"}
          /\ w \in Calling' => w \in Calling
      BY <1>5 DEF Execute, Build, FailRequest, ReadContext, InsertRun, SeeRun, AcquireRun, AttachRun,
                  CallModel, FailRun, SaveOutput, MarkReady, Return, Goto, Calling
    <3>2. QED
      BY <2>2, <3>1 DEF Opening, Calling
  <2>4. CASE InsertRun(w)
    <3>1. mine[w].key \in Keys /\ calls' = calls /\ pc[w] = "keyed" /\ pc'[w] = "inserted"
      BY <2>4 DEF InsertRun, Goto, Named, Keyed
    <3>2. Opening' = Opening \ {w} /\ w \in Opening
      BY <2>2, <3>1 DEF Opening
    <3>3. Cardinality(Opening') + 1 = Cardinality(Opening)
      <4>1. IsFiniteSet(Opening) /\ Cardinality(Opening) \in Nat
        BY Counts
      <4>2. Cardinality(Opening \ {w}) = Cardinality(Opening) - 1
        BY <3>2, <4>1, FS_RemoveElement
      <4>3. QED
        BY <3>2, <4>1, <4>2
    <3>4. Runs' \subseteq Runs \cup {mine[w].key}
      BY <2>4, <3>1 DEF InsertRun, Runs
    <3>5. Cardinality(Runs') <= Cardinality(Runs) + 1 /\ Cardinality(Runs') \in Nat
      <4> DEFINE more == Runs \cup {mine[w].key}
      <4>1. IsFiniteSet(more) /\ Cardinality(more) <= Cardinality(Runs) + 1
        <5>1. IsFiniteSet(Runs) /\ Cardinality(Runs) \in Nat
          BY Counts
        <5>2. IsFiniteSet(more) /\ Cardinality(more) = IF mine[w].key \in Runs
                                                      THEN Cardinality(Runs) ELSE Cardinality(Runs) + 1
          BY <5>1, FS_AddElement, Zenon
        <5>3. QED
          BY <5>1, <5>2
      <4>2. IsFiniteSet(Runs') /\ Cardinality(Runs') <= Cardinality(more)
        <5>1. Runs' \in SUBSET more
          BY <3>4
        <5>2. QED
          BY <4>1, <5>1, FS_Subset
      <4>3. Cardinality(more) \in Nat /\ Cardinality(Runs') \in Nat
        BY <4>1, <4>2, FS_CardinalityType
      <4> HIDE DEF more
      <4>4. QED
        BY <4>1, <4>2, <4>3, Counts
    <3>6. QED
      BY <1>1, <2>1, <2>3, <3>1, <3>3, <3>5, Counts DEF Paid
  <2>5. CASE CallModel(w)
    <3>1. calls' = calls + 1 /\ pc[w] = "calling" /\ pc'[w] \in {"answered", "refused"} /\ run' = run
      BY <2>5 DEF CallModel, Goto
    <3>2. Calling' = Calling \ {w} /\ w \in Calling
      BY <2>2, <3>1 DEF Calling
    <3>3. Cardinality(Calling') + 1 = Cardinality(Calling)
      <4>1. IsFiniteSet(Calling) /\ Cardinality(Calling) \in Nat
        BY Counts
      <4>2. Cardinality(Calling \ {w}) = Cardinality(Calling) - 1
        BY <3>2, <4>1, FS_RemoveElement
      <4>3. QED
        BY <3>2, <4>1, <4>2
    <3>4. Runs' = Runs
      BY <3>1 DEF Runs
    <3>5. QED
      BY <1>1, <2>1, <2>3, <3>1, <3>3, <3>4, Counts DEF Paid
  <2>6. CASE ~InsertRun(w) /\ ~CallModel(w)
    <3>1. calls' = calls
      BY <1>5, <2>6 DEF Execute, Build, FailRequest, ReadContext, SeeRun, AcquireRun, AttachRun,
                        FailRun, SaveOutput, MarkReady, Return
    <3>2. Runs' = Runs
      <4>1. \A k \in Keys : run'[k] # Absent <=> run[k] # Absent
        BY <1>5, <2>6, RunsOfAStep
      <4>2. QED
        BY <4>1 DEF Runs
    <3>3. QED
      BY <1>1, <2>1, <2>3, <3>1, <3>2, Counts DEF Paid
  <2>7. QED
    BY <2>4, <2>5, <2>6
<1>6. ASSUME NEW w \in Workers, WorkerLost(w) PROVE Paid'
  <2>1. /\ mine[w].request \in Requests /\ UNCHANGED <<run, calls, used, owed>>
        /\ lost'.crashes = lost.crashes + 1
        /\ queue' = [queue EXCEPT ![mine[w].request] = queue[mine[w].request] + 1]
        /\ \A v \in Workers : v # w => pc'[v] = pc[v]
        /\ pc'[w] = "idle"
    BY <1>6 DEF WorkerLost, Named, Goto
  <2>2. IsFiniteSet(Waiting') /\ Cardinality(Waiting') = Cardinality(Waiting) + 1
    BY <2>1, WaitingMoves, Counts
  <2>3. Fewer /\ Runs' = Runs
    BY <2>1 DEF Opening, Calling, Runs
  <2>4. QED
    BY <1>1, <2>1, <2>2, <2>3, Counts DEF Paid
<1>7. ASSUME NEW k \in Keys, LeaseLapses(k) PROVE Paid'
  <2>1. UNCHANGED <<calls, used, owed, queue, pc, lost>>
    BY <1>7 DEF LeaseLapses
  <2>2. Waiting' = Waiting /\ Opening' = Opening /\ Calling' = Calling
    BY <2>1 DEF Waiting, Opening, Calling
  <2>3. Runs' = Runs
    <3>1. \A d \in Keys : run'[d] # Absent <=> run[d] # Absent
      BY <1>7, RunsOfAStep
    <3>2. QED
      BY <3>1 DEF Runs
  <2>4. QED
    BY <2>1, <2>2, <2>3 DEF Paid
<1>8. CASE UNCHANGED vars \/ EditionChanges
  BY <1>8 DEF vars, EditionChanges, Paid, Runs, Waiting, Opening, Calling
<1>9. QED
  BY <1>2, <1>3, <1>4, <1>5, <1>6, <1>7, <1>8 DEF Next

\* An output is never lost.
LEMMA OutputsStay ==
    ASSUME ExplainInv, [Next]_vars
    PROVE  \A k \in Keys : run[k].output => run'[k].output
<1> USE DEF ExplainInv, Typed, TypeOK
<1>1. ASSUME NEW w \in Workers, Execute(w) PROVE \A k \in Keys : run[k].output => run'[k].output
  <2>1. CASE InsertRun(w)
    BY <2>1 DEF InsertRun, Absent
  <2>2. CASE AcquireRun(w)
    BY <2>2 DEF AcquireRun
  <2>3. CASE FailRun(w)
    BY <2>3 DEF FailRun
  <2>4. CASE SaveOutput(w)
    BY <2>4 DEF SaveOutput
  <2>5. CASE UNCHANGED run
    BY <2>5
  <2>6. QED
    BY <1>1, <2>1, <2>2, <2>3, <2>4, <2>5
       DEF Execute, Build, FailRequest, ReadContext, SeeRun, AttachRun, CallModel, MarkReady, Return
<1>2. ASSUME NEW k \in Keys, LeaseLapses(k)
      PROVE  \A d \in Keys : run[d].output => run'[d].output
  BY <1>2 DEF LeaseLapses
<1>3. CASE UNCHANGED run
  BY <1>3
<1>4. QED
  BY <1>1, <1>2, <1>3
     DEF Next, vars, Create, Retry, Dispatch, Enqueue, EnqueueFails, ApiLost, Take, WorkerLost, EditionChanges

LEMMA ShownKept == ASSUME ExplainInv, [Next]_vars PROVE Shown'
<1> USE DEF ExplainInv, Typed, TypeOK
<1>1. \A k \in Keys : run'[k].status = "succeeded" => run'[k].output
  <2>1. ASSUME NEW w \in Workers, Execute(w), NEW k \in Keys, run'[k].status = "succeeded"
        PROVE  run'[k].output
    <3>1. CASE InsertRun(w)
      BY <2>1, <3>1 DEF InsertRun, Fresh, Shown
    <3>2. CASE AcquireRun(w)
      <4>1. mine[w].key \in Keys
        BY <3>2 DEF AcquireRun, Named, Keyed
      <4>2. run' = run \/ /\ run'[mine[w].key].status = "running"
                          /\ \A d \in Keys : d # mine[w].key => run'[d] = run[d]
        BY <3>2, <4>1 DEF AcquireRun
      <4>3. QED
        BY <2>1, <4>2 DEF Shown
    <3>3. CASE FailRun(w)
      BY <2>1, <3>3 DEF FailRun, Shown
    <3>4. CASE SaveOutput(w)
      BY <2>1, <3>4 DEF SaveOutput, Shown
    <3>5. CASE UNCHANGED run
      BY <2>1, <3>5 DEF Shown
    <3>6. QED
      BY <2>1, <3>1, <3>2, <3>3, <3>4, <3>5
         DEF Execute, Build, FailRequest, ReadContext, SeeRun, AttachRun, CallModel, MarkReady, Return
  <2>2. ASSUME NEW d \in Keys, LeaseLapses(d), NEW k \in Keys, run'[k].status = "succeeded"
        PROVE  run'[k].output
    BY <2>2 DEF LeaseLapses, Shown
  <2>3. CASE UNCHANGED run
    BY <2>3 DEF Shown
  <2>4. QED
    BY <2>1, <2>2, <2>3
       DEF Next, vars, Create, Retry, Dispatch, Enqueue, EnqueueFails, ApiLost, Take, WorkerLost, EditionChanges
<1>2. \A v \in Workers :
        pc'[v] \in Sighted /\ (pc'[v] = "saved" \/ mine'[v].seen.status = "succeeded")
            => run'[mine'[v].key].output
  <2> DEFINE Trusts(v) == pc'[v] \in Sighted /\ (pc'[v] = "saved" \/ mine'[v].seen.status = "succeeded")
  <2>1. ASSUME NEW v \in Workers, pc'[v] = pc[v] /\ mine'[v] = mine[v], Trusts(v)
        PROVE  run'[mine'[v].key].output
    <3>1. pc[v] \in Sighted /\ mine[v].key \in Keys
      BY <2>1 DEF Named, Sighted, Opened, Keyed
    <3>2. QED
      BY <2>1, <3>1, OutputsStay DEF Shown
  <2>2. ASSUME NEW w \in Workers, NEW r \in Requests, Take(w, r), NEW v \in Workers, Trusts(v)
        PROVE  run'[mine'[v].key].output
    <3>1. CASE v = w /\ request[r].status # "ready"
      <4>1. mine'[w] = [Free EXCEPT !.request = r, !.status = request[r].status,
                                    !.cutoff = request[r].cutoff, !.runId = request[r].runId]
        BY <2>2, <3>1 DEF Take
      <4>2. mine'[w].seen.status = "absent"
        BY <4>1 DEF Free, Absent
      <4>3. pc'[w] = "read"
        BY <2>2, <3>1 DEF Take, Goto
      <4>4. QED
        BY <2>2, <3>1, <4>3 DEF Sighted, Opened, Keyed
    <3>2. CASE v # w \/ request[r].status = "ready"
      BY <2>1, <2>2, <3>2 DEF Take, Goto
    <3>3. QED
      BY <3>1, <3>2
  <2>3. ASSUME NEW w \in Workers, Execute(w), NEW v \in Workers, Trusts(v)
        PROVE  run'[mine'[v].key].output
    <3>1. CASE v # w
      <4>1. pc'[v] = pc[v] /\ mine'[v] = mine[v]
        BY <2>3, <3>1 DEF Execute, Build, FailRequest, ReadContext, InsertRun, SeeRun, AcquireRun, AttachRun,
                CallModel, FailRun, SaveOutput, MarkReady, Return, Goto
      <4>2. QED
        BY <2>1, <2>3, <4>1
    <3>2. CASE v = w
      <4>1. mine[w] \in SessionRows /\ (pc[w] \in Opened => mine[w].key \in Keys)
        BY DEF Named, Opened, Keyed
      <4>2. CASE \/ Build(w) \/ FailRequest(w) \/ ReadContext(w) \/ InsertRun(w) \/ FailRun(w)
                 \/ MarkReady(w) \/ Return(w)
        <5>1. pc'[w] \notin Sighted
          BY <4>2 DEF Build, FailRequest, ReadContext, InsertRun, FailRun, MarkReady, Return, Goto,
                Sighted, Opened, Keyed
        <5>2. QED
          BY <2>3, <3>2, <5>1
      <4>3. CASE AttachRun(w) \/ CallModel(w)
        <5>1. /\ UNCHANGED mine /\ pc[w] \in Sighted /\ pc[w] # "saved"
              /\ pc'[w] = "saved" => mine[w].seen.status = "succeeded"
          BY <4>3 DEF AttachRun, CallModel, Goto, Sighted, Opened, Keyed
        <5>2. QED
          BY <2>3, <3>2, <4>1, <5>1, OutputsStay DEF Shown, Sighted
      <4>4. CASE SeeRun(w)
        <5>1. /\ mine'[w].seen = run[mine[w].key] /\ mine'[w].key = mine[w].key
              /\ pc'[w] = "seen" /\ run' = run /\ mine[w].key \in Keys
          BY <4>1, <4>4 DEF SeeRun, Goto, SessionRows, Opened, Keyed
        <5>2. QED
          BY <2>3, <3>2, <5>1 DEF Shown
      <4>5. CASE AcquireRun(w)
        <5>1. /\ mine'[w].key = mine[w].key /\ pc'[w] = "decided" /\ pc[w] \in Sighted
              /\ mine'[w].seen.status = "succeeded" => mine[w].seen.status = "succeeded"
          BY <4>1, <4>5 DEF AcquireRun, Goto, SessionRows, RunRows, Sighted, Opened, Keyed
        <5>2. QED
          BY <2>3, <3>2, <4>1, <5>1, OutputsStay DEF Shown, Sighted
      <4>6. CASE SaveOutput(w)
        <5>1. mine'[w] = mine[w] /\ pc'[w] \in {"saved", "finished"}
              /\ (pc'[w] = "saved" => run'[mine[w].key].output)
          <6>1. mine[w].key \in Keys
            BY <4>1, <4>6 DEF SaveOutput, Opened, Keyed
          <6>2. CASE OutputExists(mine[w].key)
            BY <4>6, <6>2 DEF SaveOutput, Goto
          <6>3. CASE ~OutputExists(mine[w].key)
            BY <4>6, <6>1, <6>3 DEF SaveOutput, Goto
          <6>4. QED
            BY <6>2, <6>3
        <5>2. QED
          BY <2>3, <3>2, <5>1 DEF Sighted, Opened, Keyed
      <4>7. QED
        BY <2>3, <4>2, <4>3, <4>4, <4>5, <4>6 DEF Execute
    <3>3. QED
      BY <3>1, <3>2
  <2>4. ASSUME NEW w \in Workers, WorkerLost(w), NEW v \in Workers, Trusts(v)
        PROVE  run'[mine'[v].key].output
    <3>1. v # w
      BY <2>4 DEF WorkerLost, Goto, Sighted, Opened, Keyed
    <3>2. pc'[v] = pc[v] /\ mine'[v] = mine[v]
      BY <2>4, <3>1 DEF WorkerLost, Goto
    <3>3. QED
      BY <2>1, <2>4, <3>2
  <2>5. CASE UNCHANGED <<pc, mine>>
    BY <2>1, <2>5
  <2>6. QED
    BY <2>2, <2>3, <2>4, <2>5
       DEF Next, vars, Create, Retry, Dispatch, Enqueue, EnqueueFails, ApiLost, LeaseLapses,
           EditionChanges
<1>3. ReadyHasItsOutput'
  <2> SUFFICES ASSUME NEW r \in Requests, request'[r].status = "ready"
               PROVE  request'[r].output # NoKey /\ run'[request'[r].output].output
    BY DEF ReadyHasItsOutput
  <2>1. CASE request[r].status = "ready" /\ request'[r].output = request[r].output
    <3>1. request[r].output \in Keys /\ run[request[r].output].output
      BY <2>1 DEF Shown, ReadyHasItsOutput
    <3>2. QED
      BY <2>1, <3>1, Instants, OutputsStay
  <2>2. ASSUME NEW w \in Workers, Execute(w)
        PROVE  \/ request[r].status = "ready" /\ request'[r].output = request[r].output
               \/ MarkReady(w) /\ request'[r].output = mine[w].key
    <3>1. CASE Build(w)
      BY <3>1 DEF Build
    <3>2. CASE FailRequest(w)
      BY <3>2 DEF FailRequest
    <3>3. CASE AttachRun(w)
      BY <3>3 DEF AttachRun
    <3>4. CASE FailRun(w)
      BY <3>4 DEF FailRun
    <3>5. CASE MarkReady(w)
      BY ZenonT(40), <3>5 DEF MarkReady, Marked
    <3>6. CASE UNCHANGED request
      BY <3>6
    <3>7. QED
      BY <2>2, <3>1, <3>2, <3>3, <3>4, <3>5, <3>6
         DEF Execute, ReadContext, InsertRun, SeeRun, AcquireRun, CallModel, SaveOutput, Return
  <2>3. ASSUME NEW w \in Workers, MarkReady(w), request'[r].output = mine[w].key
        PROVE  request'[r].output # NoKey /\ run'[request'[r].output].output
    <3>1. mine[w].key \in Keys /\ run[mine[w].key].output /\ run' = run
      BY <2>3 DEF MarkReady, Named, Shown, Sighted, Opened, Keyed
    <3>2. QED
      BY <2>3, <3>1, Instants
  <2>4. ASSUME NEW q \in Requests, Create(q) \/ Retry(q) \/ Dispatch(q)
        PROVE  request[r].status = "ready" /\ request'[r].output = request[r].output
    <3>1. CASE Create(q)
      BY <3>1 DEF Create
    <3>2. CASE Retry(q)
      BY <3>2 DEF Retry
    <3>3. CASE Enqueue(q)
      BY <3>3 DEF Enqueue
    <3>4. ASSUME NEW lie \in BOOLEAN, EnqueueFails(q, lie)
          PROVE  request[r].status = "ready" /\ request'[r].output = request[r].output
      BY <3>4 DEF EnqueueFails
    <3>5. QED
      BY <2>4, <3>1, <3>2, <3>3, <3>4 DEF Dispatch
  <2>5. CASE UNCHANGED request
    BY <2>1, <2>5
  <2>6. QED
    BY <2>1, <2>2, <2>3, <2>4, <2>5 DEF Next, vars, ApiLost, Take, WorkerLost, LeaseLapses, EditionChanges
<1>4. QED
  BY <1>1, <1>2, <1>3 DEF Shown

\* For every number of requests and workers, through retries, repeated messages and lost
\* processes, what the explanations rest on is invariant (AIExplanationService).
THEOREM ExplainSafe == Spec => []ExplainInv
<1>1. ExplainInv /\ [Next]_vars => ExplainInv'
  BY TypedKept, NamedKept, PaidKept, ShownKept DEF ExplainInv
<1>2. QED
  BY <1>1, ExplainInit, PTL DEF Spec

\* The rows, the messages and the sessions keep their types.
THEOREM ExplainTypeCorrect == Spec => []TypeOK
<1>1. ExplainInv => TypeOK
  BY DEF ExplainInv, Typed
<1>2. QED
  BY <1>1, ExplainSafe, PTL

\* There are no more runs and no more recorded calls of a model than units of the day's quota and
\* lost workers, whose messages come back (create_request, retry, _acquire_run and _record_call).
THEOREM Affordable == Spec => []EveryCallIsPaidFor
<1>1. ASSUME ExplainInv PROVE EveryCallIsPaidFor
  <2>1. Cardinality(Runs) <= used + lost.crashes /\ calls <= used + lost.crashes
    BY <1>1, Counts DEF ExplainInv, Paid
  <2>2. QED
    BY <2>1 DEF EveryCallIsPaidFor, Runs
<1>2. QED
  BY <1>1, ExplainSafe, PTL

\* A request that says ready shows an output that exists (_mark_ready).
THEOREM ReadyIsShown == Spec => []ReadyHasItsOutput
<1>1. ExplainInv => ReadyHasItsOutput
  BY DEF ExplainInv, Shown
<1>2. QED
  BY <1>1, ExplainSafe, PTL

-----------------------------------------------------------------------------
(* Comparisons *)

HeldRows ==
    [request : Comparisons \cup {NoInputs},
     status : {"none", "pending", "building", "failed"} \cup Done,
     snapshot : Inputs \cup {NoInputs}, inputs : Inputs \cup {NoInputs}, opened : BOOLEAN,
     verdict : Verdicts, taken : BOOLEAN, answer : Answers]

CompareTyped == CompareTypeOK /\ held \in [Builders -> HeldRows]

\* The stages at which a worker's transaction has the request's row.
Locking == {"explaining", "calling", "explained"}

\* Where a worker's session knows its request and its inputs, and that a snapshot it has found
\* or has read of is there.
WorkersKnow ==
    \A w \in Builders :
        /\ stage[w] # "idle" =>
             /\ held[w].request \in Comparisons
             /\ held[w].snapshot # NoInputs => comparison[held[w].request].snapshot # NoInputs
        /\ stage[w] \in {"looking", "missing", "adopting", "opened"} \cup Locking
             => held[w].inputs \in Inputs
        /\ stage[w] = "adopting" => built[held[w].request][held[w].inputs] # "none"

\* A transaction's verdict is that of the snapshot it found, or that of the one it has inserted
\* and nobody else has or inserts.
VerdictIsBuilt ==
    /\ \A w \in Builders :
         /\ stage[w] = "opened" => held[w].opened
         /\ held[w].opened => /\ stage[w] \in {"opened"} \cup Locking
                              /\ built[held[w].request][held[w].inputs] = "none"
         /\ stage[w] \in Locking =>
              /\ held[w].verdict \in Done
              /\ held[w].opened \/ built[held[w].request][held[w].inputs] = held[w].verdict
    /\ \A v, w \in Builders :
         /\ held[v].opened /\ held[w].opened
         /\ held[v].request = held[w].request /\ held[v].inputs = held[w].inputs
         => v = w

\* What a request shows is there.
ShownIsBuilt ==
    /\ \A r \in Comparisons :
         comparison[r].snapshot # NoInputs => built[r][comparison[r].snapshot] # "none"
    /\ AnswerIsBuilt

\* The row lock of a request has one holder.
OneLockEach ==
    \A v, w \in Builders :
        /\ stage[v] \in Locking /\ stage[w] \in Locking
        /\ held[v].request = held[w].request
        => v = w

\* The pairs a model was called for.
Called == {p \in Comparisons \X Inputs : ai[p[1]][p[2]] # "none"}

\* What a transaction has taken and not committed pays for an AI run that is not there yet; a
\* transaction that takes nothing leaves the AI run as it is.
TakenIsOwed ==
    /\ \A w \in Builders :
         /\ held[w].taken => /\ stage[w] \in {"calling", "explained"}
                             /\ usage < CompareLimit
                             /\ ai[held[w].request][held[w].inputs] = "none"
         /\ stage[w] = "calling" => held[w].taken
         /\ stage[w] = "explained" =>
              IF held[w].taken THEN held[w].answer # "none"
              ELSE held[w].answer = ai[held[w].request][held[w].inputs]
    /\ \A v, w \in Builders : held[v].taken /\ held[w].taken => v = w

CompareInv ==
    /\ CompareTyped
    /\ WorkersKnow
    /\ VerdictIsBuilt
    /\ ShownIsBuilt
    /\ OneLockEach
    /\ TakenIsOwed
    /\ IsFiniteSet(Called) /\ usage = Cardinality(Called)

USE CompareLimitAssumption, CompareBoundAssumption

LEMMA CompareInitially == CompareInit => CompareInv
<1> SUFFICES ASSUME CompareInit PROVE CompareInv
  OBVIOUS
<1>1. CompareTypeOK
  BY DEF CompareInit, CompareTypeOK, Inputs, NoInputs, Done, Verdicts, Answers
<1>2. held \in [Builders -> HeldRows]
  BY DEF CompareInit, HeldRows, FreeBuilder, NoInputs, Done, Verdicts, Answers
<1>3. /\ WorkersKnow /\ VerdictIsBuilt /\ OneLockEach /\ TakenIsOwed
  BY DEF CompareInit, WorkersKnow, VerdictIsBuilt, OneLockEach, TakenIsOwed, Locking, FreeBuilder
<1>6. ShownIsBuilt
  BY DEF CompareInit, ShownIsBuilt, AnswerIsBuilt, Done
<1>4. Called = {}
  BY DEF CompareInit, Called
<1>5. IsFiniteSet(Called) /\ usage = Cardinality(Called)
  BY <1>4, FS_EmptySet DEF CompareInit
<1>7. QED
  BY <1>1, <1>2, <1>3, <1>5, <1>6 DEF CompareInv, CompareTyped

\* Inputs are numbers.
LEMMA InputNumbers == Inputs \subseteq Nat \ {0} /\ NoInputs = 0 /\ 1 \in Inputs
BY DEF Inputs, NoInputs

\* A session or a stage moves at one worker, which keeps its request and its snapshot.
Stages == {"idle", "read", "building", "looking", "missing", "adopting", "opened", "explaining",
           "calling", "explained", "raised", "finished"}

Moves(w) ==
    /\ \A v \in Builders : v # w => stage'[v] = stage[v] /\ held'[v] = held[v]
    /\ held' \in [Builders -> HeldRows]
    /\ stage' \in [Builders -> Stages]
    /\ stage'[w] # "idle" => /\ held'[w].request = held[w].request
                             /\ held'[w].snapshot = held[w].snapshot

\* A session's row of the same request and snapshot.
SameRequest(z, y) == z \in HeldRows /\ z.request = y.request /\ z.snapshot = y.snapshot

\* A step that writes one row of the sessions, of the same request and snapshot.
LEMMA OneMoves ==
    ASSUME stage \in [Builders -> Stages], held \in [Builders -> HeldRows],
           NEW w \in Builders, NEW l \in Stages, NEW y, SameRequest(y, held[w]),
           stage' = [stage EXCEPT ![w] = l], held' = [held EXCEPT ![w] = y]
    PROVE  Moves(w)
BY DEF Moves, SameRequest

\* What each action of execute does to its own worker's session.
LEMMA SessionMoves ==
    ASSUME CompareInv, NEW w \in Builders, ExecuteBuild(w)
    PROVE  /\ \A v \in Builders : v # w => stage'[v] = stage[v] /\ held'[v] = held[v]
           /\ stage[w] # "idle" /\ held[w] \in HeldRows /\ held[w].request \in Comparisons
           /\ held' \in [Builders -> HeldRows] /\ stage' \in [Builders -> Stages]
           /\ stage'[w] # "idle" => /\ held'[w].request = held[w].request
                                    /\ held'[w].snapshot = held[w].snapshot
<1>1. stage \in [Builders -> Stages] /\ held \in [Builders -> HeldRows] /\ held[w] \in HeldRows
  BY DEF CompareInv, CompareTyped, CompareTypeOK, Stages
<1>2. stage[w] # "idle"
  BY DEF ExecuteBuild, Begin, ReadInputs, FindSnapshot, OpenRun, BuildDocument, Adopt, Raise,
         SkipCall, TakeQuota, CompareModel, CommitBuild, FailBuild, ReturnBuild
<1>3. held[w].request \in Comparisons
  BY <1>2 DEF CompareInv, WorkersKnow
<1> SUFFICES Moves(w)
  BY <1>1, <1>2, <1>3 DEF Moves
<1> DEFINE To(l, y) ==
      l \in Stages /\ stage' = [stage EXCEPT ![w] = l] /\ held' = [held EXCEPT ![w] = y]
<1>4. ASSUME NEW l, NEW y, To(l, y), SameRequest(y, held[w]) PROVE Moves(w)
  BY <1>1, <1>4, OneMoves
<1> HIDE DEF To
<1>5. CASE UNCHANGED held /\ \E l \in Stages : GoOn(w, l)
  <2>1. \E l \in Stages : To(l, held[w])
    BY <1>1, <1>5 DEF GoOn, To
  <2>2. SameRequest(held[w], held[w])
    BY <1>1 DEF HeldRows, SameRequest
  <2>3. QED
    BY <1>4, <2>1, <2>2
<1>6. CASE ReadInputs(w)
  <2>1. To("looking", [held[w] EXCEPT !.inputs = inputs])
    BY <1>1, <1>6 DEF ReadInputs, GoOn, To, Stages
  <2>2. inputs \in Inputs
    BY DEF CompareInv, CompareTyped, CompareTypeOK
  <2>3. SameRequest([held[w] EXCEPT !.inputs = inputs], held[w])
    BY <1>1, <2>2 DEF HeldRows, SameRequest
  <2>4. QED
    BY <1>4, <2>1, <2>3
<1>7. CASE OpenRun(w) /\ held' # held
  <2>1. To("opened", [held[w] EXCEPT !.opened = TRUE])
    BY <1>1, <1>7 DEF OpenRun, GoOn, To, Stages
  <2>2. SameRequest([held[w] EXCEPT !.opened = TRUE], held[w])
    BY <1>1 DEF HeldRows, SameRequest
  <2>3. QED
    BY <1>4, <2>1, <2>2
<1>8. ASSUME NEW x \in Done, BuildDocument(w, x) PROVE Moves(w)
  <2>1. To("explaining", [held[w] EXCEPT !.verdict = x])
    BY <1>1, <1>8 DEF BuildDocument, GoOn, To, Stages
  <2>2. SameRequest([held[w] EXCEPT !.verdict = x], held[w])
    BY <1>1, <1>8 DEF HeldRows, SameRequest, Verdicts
  <2>3. QED
    BY <1>4, <2>1, <2>2
<1>9. CASE Adopt(w)
  <2>1. To("explaining", [held[w] EXCEPT !.verdict = FoundVerdict(w)])
    BY <1>1, <1>9 DEF Adopt, GoOn, To, Stages
  <2>2. FoundVerdict(w) \in Verdicts
    <3>1. held[w].inputs \in Inputs
      BY <1>9 DEF Adopt, CompareInv, WorkersKnow
    <3>2. built \in [Comparisons -> [Inputs -> Verdicts]]
      BY DEF CompareInv, CompareTyped, CompareTypeOK
    <3>3. QED
      BY <1>3, <3>1, <3>2 DEF FoundVerdict
  <2>3. SameRequest([held[w] EXCEPT !.verdict = FoundVerdict(w)], held[w])
    BY <1>1, <2>2 DEF HeldRows, SameRequest
  <2>4. QED
    BY <1>4, <2>1, <2>3
<1>10. CASE Raise(w) \/ CommitBuild(w)
  <2>1. \E l \in Stages : To(l, [held[w] EXCEPT !.opened = FALSE, !.taken = FALSE])
    BY <1>1, <1>10 DEF Raise, CommitBuild, GoOn, To, Stages
  <2>2. SameRequest([held[w] EXCEPT !.opened = FALSE, !.taken = FALSE], held[w])
    BY <1>1 DEF HeldRows, SameRequest
  <2>3. QED
    BY <1>4, <2>1, <2>2
<1>11. CASE SkipCall(w)
  <2>1. To("explained", [held[w] EXCEPT !.answer = ai[held[w].request][held[w].inputs]])
    BY <1>1, <1>11 DEF SkipCall, GoOn, To, Stages
  <2>2. ai[held[w].request][held[w].inputs] \in Answers
    <3>1. held[w].inputs \in Inputs
      BY <1>11 DEF SkipCall, CompareInv, WorkersKnow, Locking
    <3>2. ai \in [Comparisons -> [Inputs -> Answers]]
      BY DEF CompareInv, CompareTyped, CompareTypeOK
    <3>3. QED
      BY <1>3, <3>1, <3>2
  <2>3. SameRequest([held[w] EXCEPT !.answer = ai[held[w].request][held[w].inputs]], held[w])
    BY <1>1, <2>2 DEF HeldRows, SameRequest
  <2>4. QED
    BY <1>4, <2>1, <2>3
<1>12. CASE TakeQuota(w)
  <2>1. To("calling", [held[w] EXCEPT !.taken = TRUE])
    BY <1>1, <1>12 DEF TakeQuota, GoOn, To, Stages
  <2>2. SameRequest([held[w] EXCEPT !.taken = TRUE], held[w])
    BY <1>1 DEF HeldRows, SameRequest
  <2>3. QED
    BY <1>4, <2>1, <2>2
<1>13. CASE CompareModel(w)
  <2>1. \E a \in {"failed", "succeeded"} : To("explained", [held[w] EXCEPT !.answer = a])
    BY <1>1, <1>13 DEF CompareModel, GoOn, To, Stages
  <2>2. \A a \in {"failed", "succeeded"} : SameRequest([held[w] EXCEPT !.answer = a], held[w])
    BY <1>1 DEF HeldRows, SameRequest, Answers
  <2>3. QED
    BY <1>4, <2>1, <2>2
<1>14. CASE ReturnBuild(w)
  <2>1. stage' = [stage EXCEPT ![w] = "idle"] /\ held' = [held EXCEPT ![w] = FreeBuilder]
    BY <1>14 DEF ReturnBuild, GoOn
  <2>2. FreeBuilder \in HeldRows
    BY DEF FreeBuilder, HeldRows, Verdicts, Answers
  <2>3. stage' \in [Builders -> Stages] /\ stage'[w] = "idle"
    BY <1>1, <2>1 DEF Stages
  <2>4. held' \in [Builders -> HeldRows]
    BY <1>1, <2>1, <2>2
  <2>5. QED
    BY <1>1, <2>1, <2>3, <2>4 DEF Moves
<1>15. CASE Begin(w) \/ FindSnapshot(w) \/ FailBuild(w) \/ (OpenRun(w) /\ held' = held)
  <2>1. UNCHANGED held /\ \E l \in Stages : GoOn(w, l)
    BY <1>15 DEF Begin, FindSnapshot, FailBuild, OpenRun, Stages
  <2>2. QED
    BY <1>5, <2>1
<1>16. QED
  BY <1>6, <1>7, <1>8, <1>9, <1>10, <1>11, <1>12, <1>13, <1>14, <1>15 DEF ExecuteBuild

\* A message is taken: its worker knows its request and has taken nothing.
LEMMA TakingMoves ==
    ASSUME CompareInv, NEW w \in Builders, NEW r \in Comparisons, TakeBuild(w, r)
    PROVE  /\ \A v \in Builders : v # w => stage'[v] = stage[v] /\ held'[v] = held[v]
           /\ \/ stage'[w] = stage[w] /\ held'[w] = held[w]
              \/ /\ stage'[w] = "read" /\ held'[w].request = r
                 /\ held'[w].snapshot = comparison[r].snapshot
                 /\ held'[w].opened = FALSE /\ held'[w].taken = FALSE
           /\ UNCHANGED <<comparison, built, ai, usage>>
           /\ CompareTyped'
<1> USE DEF CompareInv, CompareTyped, CompareTypeOK
<1>1. [FreeBuilder EXCEPT !.request = r, !.status = comparison[r].status,
                          !.snapshot = comparison[r].snapshot] \in HeldRows
  BY DEF FreeBuilder, HeldRows, Verdicts, Answers
<1>2. CASE comparison[r].status \in Done
  BY <1>2 DEF TakeBuild, compareWorld
<1>3. CASE comparison[r].status \notin Done
  <2>1. /\ stage' = [stage EXCEPT ![w] = "read"]
        /\ held' = [held EXCEPT ![w] = [FreeBuilder EXCEPT !.request = r,
                            !.status = comparison[r].status, !.snapshot = comparison[r].snapshot]]
        /\ messages' = [messages EXCEPT ![r] = @ - 1] /\ messages[r] > 0
        /\ UNCHANGED <<comparison, built, ai, usage, compareWorld>>
    BY <1>3 DEF TakeBuild, GoOn
  <2>2. CompareTyped'
    BY <1>1, <2>1 DEF compareWorld
  <2>3. QED
    BY <2>1, <2>2 DEF FreeBuilder
<1>4. QED
  BY <1>2, <1>3

\* A lost worker is free again.
LEMMA LosingMoves ==
    ASSUME CompareInv, NEW w \in Builders, BuilderLost(w)
    PROVE  /\ \A v \in Builders : v # w => stage'[v] = stage[v] /\ held'[v] = held[v]
           /\ stage'[w] = "idle" /\ held'[w].opened = FALSE /\ held'[w].taken = FALSE
           /\ UNCHANGED <<comparison, built, ai, usage>>
           /\ CompareTyped'
<1> USE DEF CompareInv, CompareTyped, CompareTypeOK
<1>1. FreeBuilder \in HeldRows
  BY DEF FreeBuilder, HeldRows, Verdicts, Answers
<1>2. held[w].request \in Comparisons
  BY DEF BuilderLost, WorkersKnow
<1>3. QED
  BY <1>1, <1>2, CompareBoundAssumption DEF BuilderLost, GoOn, FreeBuilder

\* What the rest does: the API, time and backfills move no worker, take and call nothing.
Elsewhere ==
    \/ \E r \in Comparisons : \/ CreateComparison(r) \/ Repost(r) \/ Route(r)
                              \/ Judge(r) \/ Mark(r) \/ Age(r)
    \/ \E r \in Comparisons, v \in Inputs : Lapse(r, v)
    \/ Backfill
    \/ UNCHANGED compareVars

\* The rows of the requests.
ComparisonRows ==
    [status : {"none", "pending", "building", "failed"} \cup Done, run : Inputs \cup {NoInputs},
     snapshot : Inputs \cup {NoInputs}, output : Inputs \cup {NoInputs}, stalled : BOOLEAN]

\* What the API and the except clause write into one.
LEMMA StatusWrites ==
    ASSUME NEW f \in [Comparisons -> ComparisonRows], NEW r \in Comparisons, NEW b \in BOOLEAN,
           NEW st \in {"pending", "building", "failed"}
    PROVE  /\ [f EXCEPT ![r].status = st] \in [Comparisons -> ComparisonRows]
           /\ [f EXCEPT ![r].status = st, ![r].stalled = b] \in [Comparisons -> ComparisonRows]
<1>1. \A x \in ComparisonRows : /\ [x EXCEPT !.status = st] \in ComparisonRows
                                /\ [x EXCEPT !.stalled = b] \in ComparisonRows
  BY DEF ComparisonRows
<1>2. \A g \in [Comparisons -> ComparisonRows] :
        /\ [g EXCEPT ![r].status = st] \in [Comparisons -> ComparisonRows]
        /\ [g EXCEPT ![r].stalled = b] \in [Comparisons -> ComparisonRows]
  BY <1>1
<1>3. QED
  BY <1>2

\* What a commit writes into one.
LEMMA CommitWrites ==
    ASSUME NEW row \in ComparisonRows, NEW m \in HeldRows, m.verdict \in Done, m.inputs \in Inputs
    PROVE  /\ Answered(row, m) \in ComparisonRows
           /\ Answered(row, m).status = m.verdict
           /\ Answered(row, m).snapshot =
                IF m.snapshot = m.inputs THEN row.snapshot ELSE m.inputs
BY DEF ComparisonRows, Answered

\* The other writes leave the snapshot, and never say that a request is done.
LEMMA StatusOnly ==
    ASSUME CompareInv, NEW q \in Comparisons,
           \/ \E r \in Comparisons : CreateComparison(r) \/ Mark(r)
           \/ \E w \in Builders : Begin(w) \/ FailBuild(w)
    PROVE  /\ comparison'[q].snapshot = comparison[q].snapshot
           /\ comparison'[q].status \in Done => comparison'[q].status = comparison[q].status
<1>1. comparison \in [Comparisons -> ComparisonRows]
  BY DEF CompareInv, CompareTyped, CompareTypeOK, ComparisonRows
<1>2. ASSUME NEW r, NEW st \in {"pending", "building", "failed"}, NEW b,
             \/ comparison' = [comparison EXCEPT ![r].status = st]
             \/ comparison' = [comparison EXCEPT ![r].status = st, ![r].stalled = b]
      PROVE  /\ comparison'[q].snapshot = comparison[q].snapshot
             /\ comparison'[q].status \in Done => comparison'[q].status = comparison[q].status
  BY <1>1, <1>2 DEF ComparisonRows, Done
<1>3. ASSUME NEW r \in Comparisons, CreateComparison(r)
      PROVE  comparison' = [comparison EXCEPT ![r].status = "pending"]
  BY <1>3 DEF CreateComparison
<1>4. ASSUME NEW r \in Comparisons, Mark(r)
      PROVE  comparison' = [comparison EXCEPT ![r].status = "failed", ![r].stalled = TRUE]
  BY <1>4 DEF Mark
<1>5. ASSUME NEW w \in Builders, Begin(w)
      PROVE  \/ comparison' = [comparison EXCEPT ![held[w].request].status = "building"]
             \/ comparison' = comparison
  BY <1>5 DEF Begin
<1>6. ASSUME NEW w \in Builders, FailBuild(w)
      PROVE  comparison' = [comparison EXCEPT ![held[w].request].status = "failed",
                                              ![held[w].request].stalled = FALSE]
  BY <1>6 DEF FailBuild
<1>7. QED
  BY <1>2, <1>3, <1>4, <1>5, <1>6

LEMMA ElsewhereMoves ==
    ASSUME CompareInv, Elsewhere
    PROVE  /\ UNCHANGED <<built, ai, usage, stage, held>> /\ CompareTyped'
           /\ \A r \in Comparisons :
                /\ comparison'[r].snapshot = comparison[r].snapshot
                /\ comparison'[r].status \in Done => comparison'[r].status = comparison[r].status
<1> USE DEF CompareInv, CompareTyped, CompareTypeOK
<1> USE CompareBoundAssumption
<1>1. UNCHANGED <<built, ai, usage, stage, held>>
  BY DEF Elsewhere, CreateComparison, Repost, Route, DispatchComparison, Judge, Mark, Age, Lapse,
         Backfill, compareVars
<1>2. ASSUME NEW r \in Comparisons, CreateComparison(r) \/ Mark(r) PROVE CompareTyped'
  <2>1. comparison' \in [Comparisons -> ComparisonRows]
    <3>1. comparison \in [Comparisons -> ComparisonRows]
      BY DEF ComparisonRows
    <3>2. CASE CreateComparison(r)
      BY <3>1, <3>2, StatusWrites DEF CreateComparison
    <3>3. CASE Mark(r)
      BY <3>1, <3>3, StatusWrites DEF Mark
    <3>4. QED
      BY <1>2, <3>2, <3>3
  <2>2. /\ unsent' \subseteq Comparisons /\ judged' \subseteq Comparisons
        /\ UNCHANGED <<built, ai, usage, inputs, aged, lapsed, messages, stage, held, troubles>>
    BY <1>2 DEF CreateComparison, Mark
  <2>3. QED
    BY <2>1, <2>2 DEF ComparisonRows
<1>3. ASSUME NEW r \in Comparisons, Repost(r) \/ Judge(r) \/ Age(r) \/ Route(r)
      PROVE  CompareTyped'
  <2>1. CASE Repost(r)
    BY <2>1 DEF Repost
  <2>2. CASE Judge(r)
    BY <2>2 DEF Judge
  <2>3. CASE Age(r)
    BY <2>3 DEF Age
  <2>4. CASE Route(r)
    BY <2>4 DEF Route, DispatchComparison
  <2>5. QED
    BY <1>3, <2>1, <2>2, <2>3, <2>4
<1>4. ASSUME NEW r \in Comparisons, NEW v \in Inputs, Lapse(r, v) PROVE CompareTyped'
  BY <1>4 DEF Lapse
<1>5. CASE Backfill
  BY SMTT(30), <1>5 DEF Backfill, Inputs
<1>6. CASE UNCHANGED compareVars
  BY <1>6 DEF compareVars, compareWorld
<1>7. \A r \in Comparisons :
        /\ comparison'[r].snapshot = comparison[r].snapshot
        /\ comparison'[r].status \in Done => comparison'[r].status = comparison[r].status
  <2>1. ASSUME NEW r \in Comparisons, CreateComparison(r) \/ Mark(r)
        PROVE  \A q \in Comparisons :
                 /\ comparison'[q].snapshot = comparison[q].snapshot
                 /\ comparison'[q].status \in Done => comparison'[q].status = comparison[q].status
    BY <2>1, StatusOnly
  <2>2. CASE UNCHANGED comparison
    BY <2>2
  <2>3. QED
    BY <2>1, <2>2 DEF Elsewhere, Repost, Route, DispatchComparison, Judge, Age, Lapse, Backfill,
                      compareVars
<1>8. QED
  BY <1>1, <1>2, <1>3, <1>4, <1>5, <1>6, <1>7 DEF Elsewhere

LEMMA CompareSteps ==
    ASSUME [CompareNext]_compareVars
    PROVE  \/ \E w \in Builders : \/ \E r \in Comparisons : TakeBuild(w, r)
                                  \/ ExecuteBuild(w) \/ BuilderLost(w)
           \/ Elsewhere
BY DEF CompareNext, Elsewhere

LEMMA BuildTyped ==
    ASSUME CompareInv, NEW w \in Builders, ExecuteBuild(w) PROVE CompareTyped'
<1> USE DEF CompareInv, CompareTyped, CompareTypeOK
<1>1. /\ held' \in [Builders -> HeldRows]
      /\ stage' \in [Builders -> {"idle", "read", "building", "looking", "missing", "adopting",
                      "opened", "explaining", "calling", "explained", "raised", "finished"}]
      /\ held[w] \in HeldRows /\ held[w].request \in Comparisons
  BY SessionMoves DEF Stages
<1>2. UNCHANGED <<messages, compareWorld>>
  BY DEF ExecuteBuild, Begin, ReadInputs, FindSnapshot, OpenRun, BuildDocument, Adopt, Raise,
         SkipCall, TakeQuota, CompareModel, CommitBuild, FailBuild, ReturnBuild
<1>3. CASE CommitBuild(w)
  <2> DEFINE r == held[w].request
             v == held[w].inputs
             m == held[w]
  <2>1. v \in Inputs /\ m.verdict \in Verdicts /\ m.answer \in Answers
    BY <1>1, <1>3 DEF CommitBuild, WorkersKnow, Locking, HeldRows
  <2>2. m.taken => usage + 1 \in 0..CompareLimit
    BY <1>3 DEF CommitBuild, VerdictIsBuilt, TakenIsOwed, Locking
  <2>3. m.verdict \in Done
    BY <1>3 DEF CommitBuild, VerdictIsBuilt, Locking
  <2>4. /\ comparison' = [comparison EXCEPT ![r] = Answered(comparison[r], m)]
        /\ built' = IF m.opened THEN [built EXCEPT ![r][v] = m.verdict] ELSE built
        /\ ai' = [ai EXCEPT ![r][v] = m.answer]
        /\ usage' = Charged(w)
    BY <1>3 DEF CommitBuild
  <2>5. built' \in [Comparisons -> [Inputs -> Verdicts]] /\ ai' \in [Comparisons -> [Inputs -> Answers]]
    BY <1>1, <2>1, <2>4
  <2>6. usage' \in 0..CompareLimit
    BY <2>2, <2>4 DEF Charged
  <2>7. comparison' \in
         [Comparisons -> [status : {"none", "pending", "building", "failed"} \cup Done,
                          run : Inputs \cup {NoInputs}, snapshot : Inputs \cup {NoInputs},
                          output : Inputs \cup {NoInputs}, stalled : BOOLEAN]]
    <3>1. comparison \in [Comparisons -> ComparisonRows]
      BY DEF ComparisonRows
    <3>2. Answered(comparison[r], m) \in ComparisonRows
      BY <1>1, <2>1, <2>3, <3>1, CommitWrites
    <3>4. comparison' \in [Comparisons -> ComparisonRows]
      BY <1>1, <2>4, <3>1, <3>2
    <3>3. QED
      BY <3>4 DEF ComparisonRows
  <2>8. QED
    BY <1>1, <1>2, <2>5, <2>6, <2>7 DEF compareWorld
<1>4. CASE Begin(w) \/ FailBuild(w)
  <2>1. comparison' \in [Comparisons -> ComparisonRows]
    <3>1. comparison \in [Comparisons -> ComparisonRows]
      BY DEF ComparisonRows
    <3>2. CASE Begin(w)
      <4>1. \/ comparison' = [comparison EXCEPT ![held[w].request].status = "building"]
            \/ comparison' = comparison
        BY <3>2 DEF Begin
      <4>2. QED
        <5>1. [comparison EXCEPT ![held[w].request].status = "building"]
                \in [Comparisons -> ComparisonRows]
          BY <1>1, <3>1, StatusWrites
        <5>2. QED
          BY <3>1, <4>1, <5>1
    <3>3. CASE FailBuild(w)
      BY <1>1, <3>1, <3>3, StatusWrites DEF FailBuild
    <3>4. QED
      BY <1>4, <3>2, <3>3
  <2>2. UNCHANGED <<built, ai, usage>>
    BY <1>4 DEF Begin, FailBuild
  <2>3. QED
    BY <1>1, <1>2, <2>1, <2>2 DEF compareWorld, ComparisonRows
<1>5. CASE UNCHANGED <<comparison, built, ai, usage>>
  BY <1>1, <1>2, <1>5 DEF compareWorld
<1>6. QED
  BY <1>3, <1>4, <1>5 DEF ExecuteBuild, ReadInputs, FindSnapshot, OpenRun, BuildDocument, Adopt,
       Raise, SkipCall, TakeQuota, CompareModel, ReturnBuild

\* What a commit writes.
LEMMA Commits ==
    ASSUME CompareInv, NEW w \in Builders, CommitBuild(w),
           NEW r, r = held[w].request, NEW v, v = held[w].inputs, NEW m, m = held[w]
    PROVE  /\ r \in Comparisons /\ v \in Inputs /\ m.verdict \in Done
           /\ stage[w] = "explained" /\ stage'[w] = "finished"
           /\ ~held'[w].opened /\ ~held'[w].taken
           /\ built'[r][v] = m.verdict /\ ai'[r][v] = m.answer
           /\ \A q \in Comparisons, u \in Inputs :
                q # r \/ u # v => built'[q][u] = built[q][u] /\ ai'[q][u] = ai[q][u]
           /\ ~m.opened => built' = built
           /\ m.opened => built[r][v] = "none"
           /\ \A q \in Comparisons : q # r => comparison'[q] = comparison[q]
           /\ comparison'[r].status = m.verdict
           /\ comparison'[r].snapshot = IF m.snapshot = v THEN comparison[r].snapshot ELSE v
           /\ usage' = Charged(w)
<1> USE DEF CompareInv, CompareTyped, CompareTypeOK
<1>1. /\ r \in Comparisons /\ v \in Inputs /\ m.verdict \in Done /\ stage[w] = "explained"
      /\ m \in HeldRows
  BY DEF CommitBuild, WorkersKnow, VerdictIsBuilt, Locking
<1>2. /\ comparison' = [comparison EXCEPT ![r] = Answered(comparison[r], m)]
      /\ built' = IF m.opened THEN [built EXCEPT ![r][v] = m.verdict] ELSE built
      /\ ai' = [ai EXCEPT ![r][v] = m.answer]
      /\ usage' = Charged(w)
  BY DEF CommitBuild
<1>3. stage'[w] = "finished" /\ ~held'[w].opened /\ ~held'[w].taken
  BY <1>1 DEF CommitBuild, GoOn, HeldRows
<1>4. ~m.opened => built[r][v] = m.verdict
  BY <1>1 DEF VerdictIsBuilt, Locking
<1>5. m.opened => built[r][v] = "none"
  BY DEF VerdictIsBuilt
<1>6. /\ built'[r][v] = m.verdict
      /\ \A q \in Comparisons, u \in Inputs : q # r \/ u # v => built'[q][u] = built[q][u]
  <2>1. CASE m.opened
    BY <1>1, <1>2, <2>1
  <2>2. CASE ~m.opened
    BY <1>2, <1>4, <2>2
  <2>3. QED
    BY <2>1, <2>2
<1>7. /\ ai'[r][v] = m.answer
      /\ \A q \in Comparisons, u \in Inputs : q # r \/ u # v => ai'[q][u] = ai[q][u]
  BY <1>1, <1>2
<1>8. /\ \A q \in Comparisons : q # r => comparison'[q] = comparison[q]
      /\ comparison'[r].status = m.verdict
      /\ comparison'[r].snapshot = IF m.snapshot = v THEN comparison[r].snapshot ELSE v
  <2>1. comparison \in [Comparisons -> ComparisonRows]
    BY DEF ComparisonRows
  <2>2. QED
    BY <1>1, <1>2, <2>1, CommitWrites, Zenon
<1>9. \A q \in Comparisons, u \in Inputs :
        q # r \/ u # v => built'[q][u] = built[q][u] /\ ai'[q][u] = ai[q][u]
  BY <1>6, <1>7
<1>10. usage' = Charged(w) /\ (~m.opened => built' = built)
  BY <1>2
<1> HIDE DEF CompareInv, CompareTyped, CompareTypeOK
<1>11. QED
  BY <1>1, <1>3, <1>5, <1>6, <1>7, <1>8, <1>9, <1>10, Zenon

\* The commit leaves the worker nothing that it has opened or taken.
LEMMA Committed ==
    ASSUME CompareInv, NEW w \in Builders, CommitBuild(w)
    PROVE  ~held'[w].opened /\ ~held'[w].taken /\ stage'[w] = "finished"
  BY Commits

\* The other steps of execute write no snapshot and no AI run.
LEMMA OnlyCommitsWrite ==
    ASSUME NEW w \in Builders, ExecuteBuild(w), ~CommitBuild(w)
    PROVE  UNCHANGED <<built, ai, usage>>
BY DEF ExecuteBuild, Begin, ReadInputs, FindSnapshot, OpenRun, BuildDocument, Adopt, Raise,
       SkipCall, TakeQuota, CompareModel, FailBuild, ReturnBuild

LEMMA BuiltStays ==
    ASSUME CompareInv, [CompareNext]_compareVars
    PROVE  /\ \A r \in Comparisons, v \in Inputs :
                built[r][v] # "none" => built'[r][v] = built[r][v]
           /\ \A r \in Comparisons :
                comparison[r].snapshot # NoInputs => comparison'[r].snapshot # NoInputs
<1> DEFINE Goal == /\ \A r \in Comparisons, v \in Inputs :
                        built[r][v] # "none" => built'[r][v] = built[r][v]
                   /\ \A r \in Comparisons :
                        comparison[r].snapshot # NoInputs => comparison'[r].snapshot # NoInputs
<1>1. ASSUME NEW w \in Builders, CommitBuild(w) PROVE Goal
  <2> DEFINE r == held[w].request
             v == held[w].inputs
  <2>1. /\ r \in Comparisons /\ v \in Inputs
        /\ \A q \in Comparisons, u \in Inputs : q # r \/ u # v => built'[q][u] = built[q][u]
        /\ built[r][v] # "none" => built' = built
        /\ \A q \in Comparisons : q # r => comparison'[q] = comparison[q]
        /\ comparison'[r].snapshot = IF held[w].snapshot = v THEN comparison[r].snapshot ELSE v
    BY <1>1, Commits
  <2> HIDE DEF r, v
  <2>2. QED
    BY <2>1, InputNumbers
<1>2. ASSUME NEW w \in Builders, ExecuteBuild(w), ~CommitBuild(w) PROVE Goal
  <2>1. CASE Begin(w) \/ FailBuild(w)
    <3>1. \A r \in Comparisons : comparison'[r].snapshot = comparison[r].snapshot
      BY <2>1, StatusOnly
    <3>2. QED
      BY <1>2, <3>1, OnlyCommitsWrite
  <2>2. CASE UNCHANGED comparison
    BY <1>2, <2>2, OnlyCommitsWrite
  <2>3. QED
    BY <1>2, <2>1, <2>2 DEF ExecuteBuild, ReadInputs, FindSnapshot, OpenRun, BuildDocument, Adopt,
       Raise, SkipCall, TakeQuota, CompareModel, ReturnBuild
<1>3. ASSUME NEW w \in Builders, NEW r \in Comparisons, TakeBuild(w, r) PROVE Goal
  BY <1>3, TakingMoves
<1>4. ASSUME NEW w \in Builders, BuilderLost(w) PROVE Goal
  BY <1>4, LosingMoves
<1>5. CASE Elsewhere
  BY <1>5, ElsewhereMoves
<1>6. QED
  BY <1>1, <1>2, <1>3, <1>4, <1>5, CompareSteps

LEMMA KnowKept == ASSUME CompareInv, [CompareNext]_compareVars PROVE WorkersKnow'
<1> DEFINE Knows(v) ==
        /\ stage[v] # "idle" =>
             /\ held[v].request \in Comparisons
             /\ held[v].snapshot # NoInputs => comparison[held[v].request].snapshot # NoInputs
        /\ stage[v] \in {"looking", "missing", "adopting", "opened"} \cup Locking
             => held[v].inputs \in Inputs
        /\ stage[v] = "adopting" => built[held[v].request][held[v].inputs] # "none"
<1>1. \A v \in Builders : Knows(v)
  BY DEF CompareInv, WorkersKnow
<1>2. ASSUME NEW v \in Builders, stage'[v] = stage[v] /\ held'[v] = held[v] PROVE Knows(v)'
  BY <1>1, <1>2, BuiltStays
<1>3. ASSUME NEW w \in Builders, ExecuteBuild(w) PROVE Knows(w)'
  <2>1. /\ held[w].request \in Comparisons /\ held[w] \in HeldRows
        /\ stage'[w] # "idle" => /\ held'[w].request = held[w].request
                                 /\ held'[w].snapshot = held[w].snapshot
        /\ held[w].snapshot # NoInputs => comparison[held[w].request].snapshot # NoInputs
    BY <1>1, <1>3, SessionMoves
  <2>2. stage'[w] # "idle" =>
             /\ held'[w].request \in Comparisons
             /\ held'[w].snapshot # NoInputs => comparison'[held'[w].request].snapshot # NoInputs
    BY <2>1, BuiltStays
  <2>3. /\ stage'[w] \in {"looking", "missing", "adopting", "opened"} \cup Locking
             => held'[w].inputs \in Inputs
        /\ stage'[w] = "adopting" => built'[held'[w].request][held'[w].inputs] # "none"
    <3> USE DEF CompareInv, CompareTyped, CompareTypeOK, GoOn, Locking
    <3>1. CASE ReadInputs(w)
      BY <2>1, <3>1 DEF ReadInputs, HeldRows
    <3>2. CASE FindSnapshot(w)
      BY <1>1, <3>2 DEF FindSnapshot
    <3>3. CASE OpenRun(w)
      <4>1. held' = [held EXCEPT ![w].opened = TRUE] \/ held' = held
        BY <3>3 DEF OpenRun
      <4>2. held'[w].inputs = held[w].inputs
        BY <2>1, <4>1 DEF HeldRows
      <4>3. stage[w] = "missing" /\ stage'[w] \in {"opened", "raised"}
        BY <3>3 DEF OpenRun
      <4>4. QED
        BY <1>1, <4>2, <4>3
    <3>4. ASSUME NEW x \in Done, BuildDocument(w, x)
          PROVE  stage'[w] = "explaining" /\ held'[w].inputs = held[w].inputs /\ stage[w] = "opened"
      BY <2>1, <3>4 DEF BuildDocument, HeldRows
    <3>5. CASE Adopt(w)
      BY <1>1, <2>1, <3>5 DEF Adopt, HeldRows
    <3>6. CASE SkipCall(w) \/ TakeQuota(w) \/ CompareModel(w)
      <4>1. stage[w] \in Locking /\ held'[w].inputs = held[w].inputs
        <5>1. CASE SkipCall(w)
          BY <2>1, <5>1 DEF SkipCall, HeldRows
        <5>2. CASE TakeQuota(w)
          BY <2>1, <5>2 DEF TakeQuota, HeldRows
        <5>3. CASE CompareModel(w)
          BY <2>1, <5>3 DEF CompareModel, HeldRows
        <5>4. QED
          BY <3>6, <5>1, <5>2, <5>3
      <4>2. stage'[w] # "adopting"
        BY <3>6 DEF SkipCall, TakeQuota, CompareModel
      <4>3. QED
        BY <1>1, <4>1, <4>2
    <3>7. CASE Begin(w) \/ Raise(w) \/ CommitBuild(w) \/ FailBuild(w) \/ ReturnBuild(w)
      BY <3>7 DEF Begin, Raise, CommitBuild, FailBuild, ReturnBuild
    <3>8. QED
      BY <1>1, <1>3, <3>1, <3>2, <3>3, <3>4, <3>5, <3>6, <3>7 DEF ExecuteBuild
  <2>4. QED
    BY <2>2, <2>3
<1>4. ASSUME NEW w \in Builders, NEW r \in Comparisons, TakeBuild(w, r) PROVE Knows(w)'
  <2>1. CASE stage'[w] = stage[w] /\ held'[w] = held[w]
    BY <1>2, <2>1
  <2>2. CASE stage'[w] = "read" /\ held'[w].request = r /\ held'[w].snapshot = comparison[r].snapshot
    BY <1>4, <2>2, TakingMoves DEF Locking
  <2>3. QED
    BY <1>4, <2>1, <2>2, TakingMoves
<1>5. ASSUME NEW w \in Builders, BuilderLost(w) PROVE Knows(w)'
  BY <1>5, LosingMoves DEF Locking
<1>6. \A v \in Builders : Knows(v)'
  <2>1. ASSUME NEW w \in Builders, NEW v \in Builders,
               (\E r \in Comparisons : TakeBuild(w, r)) \/ ExecuteBuild(w) \/ BuilderLost(w)
        PROVE  Knows(v)'
    <3>1. CASE v = w
      BY <2>1, <3>1, <1>3, <1>4, <1>5
    <3>2. CASE v # w
      BY <2>1, <3>2, <1>2, SessionMoves, TakingMoves, LosingMoves
    <3>3. QED
      BY <3>1, <3>2
  <2>2. CASE Elsewhere
    BY <2>2, <1>2, ElsewhereMoves
  <2>3. QED
    BY <2>1, <2>2, CompareSteps
<1>7. QED
  BY <1>6 DEF WorkersKnow

\* One worker moves at a time.
LEMMA OthersRest ==
    ASSUME CompareInv, NEW w \in Builders,
           (\E r \in Comparisons : TakeBuild(w, r)) \/ ExecuteBuild(w) \/ BuilderLost(w),
           NEW v \in Builders, v # w
    PROVE  stage'[v] = stage[v] /\ held'[v] = held[v]
BY SessionMoves, TakingMoves, LosingMoves

\* What a transaction has inserted stays its own until it commits.
LEMMA OpenedStays ==
    ASSUME CompareInv, [CompareNext]_compareVars, NEW u \in Builders, held[u].opened,
           ~CommitBuild(u)
    PROVE  built'[held[u].request][held[u].inputs] = "none"
<1>1. /\ built[held[u].request][held[u].inputs] = "none"
      /\ held[u].request \in Comparisons /\ held[u].inputs \in Inputs
  BY DEF CompareInv, VerdictIsBuilt, WorkersKnow, Locking
<1>2. ASSUME NEW w \in Builders, CommitBuild(w) PROVE built'[held[u].request][held[u].inputs] = "none"
  <2>1. CASE held[w].opened
    <3>1. held[w].request # held[u].request \/ held[w].inputs # held[u].inputs
      BY <1>2, <2>1 DEF CompareInv, VerdictIsBuilt
    <3>2. QED
      BY <1>1, <1>2, <3>1, Commits
  <2>2. CASE ~held[w].opened
    BY <1>1, <1>2, <2>2, Commits
  <2>3. QED
    BY <2>1, <2>2
<1>3. CASE UNCHANGED built
  BY <1>1, <1>3
<1>4. QED
  BY <1>2, <1>3, CompareSteps, OnlyCommitsWrite, TakingMoves, LosingMoves, ElsewhereMoves

LEMMA VerdictKept == ASSUME CompareInv, [CompareNext]_compareVars PROVE VerdictIsBuilt'
<1> DEFINE Own(v) ==
        /\ stage[v] = "opened" => held[v].opened
        /\ held[v].opened => /\ stage[v] \in {"opened"} \cup Locking
                             /\ built[held[v].request][held[v].inputs] = "none"
        /\ stage[v] \in Locking =>
             /\ held[v].verdict \in Done
             /\ held[v].opened \/ built[held[v].request][held[v].inputs] = held[v].verdict
           Apart(u, v) == ~(/\ held[u].opened /\ held[v].opened
                            /\ held[u].request = held[v].request /\ held[u].inputs = held[v].inputs)
<1>1. \A v \in Builders : Own(v)
  BY DEF CompareInv, VerdictIsBuilt
<1>2. \A u, v \in Builders : u # v => Apart(u, v)
  BY DEF CompareInv, VerdictIsBuilt
<1>3. ASSUME NEW v \in Builders, stage'[v] = stage[v] /\ held'[v] = held[v], ~CommitBuild(v)
      PROVE  Own(v)'
  <2>1. CASE held[v].opened
    BY <1>1, <1>3, <2>1, OpenedStays
  <2>2. CASE ~held[v].opened /\ stage[v] \in Locking
    <3>1. /\ held[v].request \in Comparisons /\ held[v].inputs \in Inputs
          /\ built[held[v].request][held[v].inputs] = held[v].verdict /\ held[v].verdict # "none"
      BY <1>1, <2>2 DEF CompareInv, WorkersKnow, Locking, Done
    <3>2. QED
      BY <1>1, <1>3, <2>2, <3>1, BuiltStays
  <2>3. CASE ~held[v].opened /\ stage[v] \notin Locking
    BY <1>1, <1>3, <2>3
  <2>4. QED
    BY <2>1, <2>2, <2>3
<1>4. ASSUME NEW w \in Builders, ExecuteBuild(w) PROVE Own(w)'
  <2> USE DEF GoOn, Locking
  <2>1. held[w] \in HeldRows
    BY <1>4, SessionMoves
  <2>2. /\ stage \in [Builders -> {"idle", "read", "building", "looking", "missing", "adopting",
                      "opened", "explaining", "calling", "explained", "raised", "finished"}]
        /\ held \in [Builders -> HeldRows]
    BY DEF CompareInv, CompareTyped, CompareTypeOK
  <2>3. CASE Begin(w) \/ ReadInputs(w) \/ FindSnapshot(w)
    BY <1>1, <2>1, <2>2, <2>3 DEF Begin, ReadInputs, FindSnapshot, HeldRows
  <2>4. CASE OpenRun(w)
    BY <1>1, <2>1, <2>2, <2>4 DEF OpenRun, HeldRows
  <2>5. ASSUME NEW x \in Done, BuildDocument(w, x) PROVE Own(w)'
    BY <1>1, <2>1, <2>2, <2>5 DEF BuildDocument, HeldRows
  <2>6. CASE Adopt(w)
    <3>1. /\ built[held[w].request][held[w].inputs] \in Verdicts \ {"none"}
          /\ UNCHANGED built /\ ~held[w].opened
          /\ stage'[w] = "explaining"
          /\ held'[w] = [held[w] EXCEPT !.verdict = built[held[w].request][held[w].inputs]]
      BY <1>1, <2>1, <2>2, <2>6
         DEF Adopt, FoundVerdict, CompareInv, WorkersKnow, CompareTyped, CompareTypeOK
    <3>2. QED
      BY <2>1, <3>1 DEF HeldRows, Verdicts
  <2>7. CASE Raise(w)
    BY <2>1, <2>2, <2>7 DEF Raise, HeldRows
  <2>8. CASE SkipCall(w) \/ TakeQuota(w) \/ CompareModel(w)
    <3>1. /\ stage[w] \in Locking /\ stage'[w] \in Locking /\ UNCHANGED built
          /\ \E a, b : held'[w] = [held[w] EXCEPT !.taken = a, !.answer = b]
      <4>1. held[w] = [held[w] EXCEPT !.taken = held[w].taken]
        BY <2>1 DEF HeldRows
      <4>2. CASE SkipCall(w) \/ CompareModel(w)
        <5>1. PICK b : held'[w] = [held[w] EXCEPT !.answer = b]
          BY <2>2, <4>2 DEF SkipCall, CompareModel
        <5>2. held'[w] = [held[w] EXCEPT !.taken = held[w].taken, !.answer = b]
          BY <2>1, <5>1 DEF HeldRows
        <5>3. QED
          BY <2>2, <4>2, <5>2 DEF SkipCall, CompareModel
      <4>3. CASE TakeQuota(w)
        <5>1. held'[w] = [held[w] EXCEPT !.taken = TRUE, !.answer = held[w].answer]
          BY <2>1, <2>2, <4>3 DEF TakeQuota, HeldRows
        <5>2. QED
          BY <2>2, <4>3, <5>1 DEF TakeQuota
      <4>4. QED
        BY <2>8, <4>2, <4>3
    <3>2. held'[w].opened = held[w].opened /\ held'[w].verdict = held[w].verdict
          /\ held'[w].request = held[w].request /\ held'[w].inputs = held[w].inputs
      BY <2>1, <3>1 DEF HeldRows
    <3>3. QED
      BY <1>1, <3>1, <3>2
  <2>9. CASE CommitBuild(w)
    <3>1. ~held'[w].opened /\ stage'[w] = "finished"
      BY <2>9, Committed
    <3>2. QED
      BY <3>1
  <2>10. CASE FailBuild(w)
    BY <1>1, <2>2, <2>10 DEF FailBuild
  <2>11. CASE ReturnBuild(w)
    BY <2>2, <2>11 DEF ReturnBuild, FreeBuilder
  <2>12. QED
    BY <1>4, <2>3, <2>4, <2>5, <2>6, <2>7, <2>8, <2>9, <2>10, <2>11 DEF ExecuteBuild
<1>5. ASSUME NEW w \in Builders, ~ExecuteBuild(w),
             (\E r \in Comparisons : TakeBuild(w, r)) \/ BuilderLost(w)
      PROVE  Own(w)'
  <2>1. ASSUME NEW r \in Comparisons, TakeBuild(w, r) PROVE Own(w)'
    <3>1. ~CommitBuild(w)
      BY <1>5 DEF ExecuteBuild
    <3>2. QED
      BY <2>1, <3>1, <1>3, TakingMoves DEF Locking
  <2>2. CASE BuilderLost(w)
    BY <2>2, LosingMoves DEF Locking
  <2>3. QED
    BY <1>5, <2>1, <2>2
<1>6. \A v \in Builders : Own(v)'
  <2>1. ASSUME NEW w \in Builders, NEW v \in Builders, v # w,
               (\E r \in Comparisons : TakeBuild(w, r)) \/ ExecuteBuild(w) \/ BuilderLost(w)
        PROVE  Own(v)'
    <3>1. stage'[v] = stage[v] /\ held'[v] = held[v]
      BY <2>1, OthersRest
    <3>2. ~CommitBuild(v)
      <4>1. ASSUME CommitBuild(v) PROVE FALSE
        BY <3>1, <4>1, Commits
      <4>2. QED
        BY <4>1
    <3>3. QED
      BY <1>3, <3>1, <3>2
  <2>2. ASSUME NEW v \in Builders, Elsewhere PROVE Own(v)'
    <3>1. stage'[v] = stage[v] /\ held'[v] = held[v]
      BY <2>2, ElsewhereMoves
    <3>2. ~CommitBuild(v)
      <4>1. ASSUME CommitBuild(v) PROVE FALSE
        BY <3>1, <4>1, Commits
      <4>2. QED
        BY <4>1
    <3>3. QED
      BY <1>3, <3>1, <3>2
  <2>3. QED
    BY <1>4, <1>5, <2>1, <2>2, CompareSteps
<1>7. ASSUME NEW u \in Builders, NEW v \in Builders, u # v PROVE Apart(u, v)'
  <2>1. ASSUME NEW w \in Builders, OpenRun(w), NEW x \in Builders, x # w
        PROVE  Apart(w, x)' /\ Apart(x, w)'
    <3>1. held'[x] = held[x]
      BY <2>1, OthersRest DEF ExecuteBuild
    <3>2. /\ held'[w].request = held[w].request /\ held'[w].inputs = held[w].inputs
          /\ ~BeingBuilt(held[w].request, held[w].inputs)
      BY <2>1 DEF OpenRun, CompareInv, CompareTyped, HeldRows
    <3>3. QED
      BY <3>1, <3>2 DEF BeingBuilt
  <2>2. ASSUME NEW w \in Builders, ~OpenRun(w),
               (\E r \in Comparisons : TakeBuild(w, r)) \/ ExecuteBuild(w) \/ BuilderLost(w)
        PROVE  held'[w].opened => /\ held[w].opened /\ held'[w].request = held[w].request
                                  /\ held'[w].inputs = held[w].inputs
    <3>1. ASSUME ExecuteBuild(w), held'[w].opened
          PROVE  /\ held[w].opened /\ held'[w].request = held[w].request
                 /\ held'[w].inputs = held[w].inputs
      <4> USE DEF CompareInv, CompareTyped, CompareTypeOK
      <4>1. held[w] \in HeldRows
        OBVIOUS
      <4>2. CASE ReadInputs(w)
        BY <1>1, <3>1, <4>1, <4>2 DEF ReadInputs, HeldRows, Locking
      <4>3. CASE Begin(w) \/ FindSnapshot(w) \/ FailBuild(w)
        BY <3>1, <4>3 DEF Begin, FindSnapshot, FailBuild
      <4>4. ASSUME NEW x \in Done, BuildDocument(w, x)
            PROVE  /\ held[w].opened /\ held'[w].request = held[w].request
                   /\ held'[w].inputs = held[w].inputs
        BY <3>1, <4>1, <4>4 DEF BuildDocument, HeldRows
      <4>5. CASE Adopt(w) \/ SkipCall(w) \/ TakeQuota(w) \/ CompareModel(w)
        <5>1. CASE Adopt(w)
          BY <3>1, <4>1, <5>1 DEF Adopt, HeldRows
        <5>2. CASE SkipCall(w)
          BY <3>1, <4>1, <5>2 DEF SkipCall, HeldRows
        <5>3. CASE TakeQuota(w)
          BY <3>1, <4>1, <5>3 DEF TakeQuota, HeldRows
        <5>4. CASE CompareModel(w)
          BY <3>1, <4>1, <5>4 DEF CompareModel, HeldRows
        <5>5. QED
          BY <4>5, <5>1, <5>2, <5>3, <5>4
      <4>6. CASE Raise(w) \/ CommitBuild(w)
        BY <3>1, <4>1, <4>6 DEF Raise, CommitBuild, HeldRows
      <4>7. CASE ReturnBuild(w)
        BY <3>1, <4>7 DEF ReturnBuild, FreeBuilder
      <4>8. QED
        BY <2>2, <3>1, <4>2, <4>3, <4>4, <4>5, <4>6, <4>7 DEF ExecuteBuild
    <3>2. QED
      BY <2>2, <3>1, TakingMoves, LosingMoves
  <2>3. ASSUME NEW w \in Builders,
               (\E r \in Comparisons : TakeBuild(w, r)) \/ ExecuteBuild(w) \/ BuilderLost(w)
        PROVE  Apart(u, v)'
    <3>1. CASE OpenRun(w) /\ (u = w \/ v = w)
      BY <1>7, <2>1, <3>1
    <3>2. CASE ~OpenRun(w) \/ (u # w /\ v # w)
      <4>1. \A x \in {u, v} : held'[x].opened =>
                /\ held[x].opened /\ held'[x].request = held[x].request
                /\ held'[x].inputs = held[x].inputs
        BY <2>2, <2>3, <3>2, OthersRest
      <4>2. QED
        BY <1>2, <1>7, <4>1
    <3>3. QED
      BY <3>1, <3>2
  <2>4. CASE Elsewhere
    BY <1>2, <1>7, <2>4, ElsewhereMoves
  <2>5. QED
    BY <2>3, <2>4, CompareSteps
<1>8. QED
  BY <1>6, <1>7 DEF VerdictIsBuilt

\* Only a worker that finds the row unlocked locks it.
LEMMA LockKept == ASSUME CompareInv, [CompareNext]_compareVars PROVE OneLockEach'
<1> USE DEF Locking
<1>1. ASSUME NEW w \in Builders, ExecuteBuild(w), stage'[w] \in Locking
      PROVE  held'[w].request = held[w].request /\ (stage[w] \in Locking \/ ~Locked(held[w].request))
  <2> USE DEF CompareInv, CompareTyped, CompareTypeOK, GoOn
  <2>1. held'[w].request = held[w].request
    BY <1>1, SessionMoves
  <2>2. ASSUME NEW x \in Done, BuildDocument(w, x) PROVE ~Locked(held[w].request)
    BY <2>2 DEF BuildDocument
  <2>3. CASE Adopt(w) \/ SkipCall(w) \/ TakeQuota(w) \/ CompareModel(w)
    BY <2>1, <2>3 DEF Adopt, SkipCall, TakeQuota, CompareModel
  <2>4. CASE Begin(w) \/ ReadInputs(w) \/ FindSnapshot(w) \/ OpenRun(w)
    BY <1>1, <2>4 DEF Begin, ReadInputs, FindSnapshot, OpenRun
  <2>5. CASE Raise(w) \/ CommitBuild(w) \/ FailBuild(w) \/ ReturnBuild(w)
    BY <1>1, <2>5 DEF Raise, CommitBuild, FailBuild, ReturnBuild
  <2>6. QED
    BY <1>1, <2>1, <2>2, <2>3, <2>4, <2>5 DEF ExecuteBuild
<1>2. ASSUME NEW w \in Builders, NEW v \in Builders, v # w,
             (\E r \in Comparisons : TakeBuild(w, r)) \/ ExecuteBuild(w) \/ BuilderLost(w),
             stage'[v] \in Locking, stage'[w] \in Locking, held'[v].request = held'[w].request
      PROVE  FALSE
  <2>1. stage[v] \in Locking /\ held[v].request = held'[v].request
    BY <1>2, OthersRest
  <2>2. CASE ExecuteBuild(w)
    <3>1. held[w].request = held[v].request /\ stage[w] \notin Locking
      BY <1>1, <1>2, <2>1, <2>2 DEF CompareInv, OneLockEach
    <3>2. QED
      BY <1>1, <1>2, <2>1, <2>2, <3>1 DEF Locked
  <2>3. ASSUME NEW r \in Comparisons, TakeBuild(w, r) PROVE FALSE
    <3>1. stage[w] = "idle" /\ (stage'[w] = stage[w] \/ stage'[w] = "read")
      BY <2>3, TakingMoves DEF TakeBuild
    <3>2. QED
      BY <1>2, <3>1
  <2>4. CASE BuilderLost(w)
    BY <1>2, <2>4, LosingMoves
  <2>5. QED
    BY <1>2, <2>2, <2>3, <2>4
<1>3. ASSUME NEW u \in Builders, NEW v \in Builders, u # v, stage'[u] \in Locking,
             stage'[v] \in Locking, held'[u].request = held'[v].request
      PROVE  FALSE
  <2>1. ASSUME NEW w \in Builders,
               (\E r \in Comparisons : TakeBuild(w, r)) \/ ExecuteBuild(w) \/ BuilderLost(w)
        PROVE  FALSE
    <3>1. CASE w = u \/ w = v
      BY <1>2, <1>3, <2>1, <3>1
    <3>2. CASE w # u /\ w # v
      BY <1>3, <2>1, <3>2, OthersRest DEF CompareInv, OneLockEach
    <3>3. QED
      BY <3>1, <3>2
  <2>2. CASE Elsewhere
    BY <1>3, <2>2, ElsewhereMoves DEF CompareInv, OneLockEach
  <2>3. QED
    BY <2>1, <2>2, CompareSteps
<1>4. QED
  BY <1>3 DEF OneLockEach

LEMMA TakenKept == ASSUME CompareInv, [CompareNext]_compareVars PROVE TakenIsOwed'
<1> DEFINE Run(v) == ai[held[v].request][held[v].inputs]
           Owes(v) ==
             /\ held[v].taken => /\ stage[v] \in {"calling", "explained"}
                                 /\ usage < CompareLimit
                                 /\ Run(v) = "none"
             /\ stage[v] = "calling" => held[v].taken
             /\ stage[v] = "explained" =>
                  IF held[v].taken THEN held[v].answer # "none" ELSE held[v].answer = Run(v)
<1>1. \A v \in Builders : Owes(v)
  BY DEF CompareInv, TakenIsOwed
<1>2. \A u, v \in Builders : held[u].taken /\ held[v].taken => u = v
  BY DEF CompareInv, TakenIsOwed
<1>3. ASSUME NEW v \in Builders, stage'[v] = stage[v] /\ held'[v] = held[v], UNCHANGED <<ai, usage>>
      PROVE  Owes(v)'
  BY <1>1, <1>3
<1>4. ASSUME NEW w \in Builders, ExecuteBuild(w) PROVE Owes(w)'
  <2> USE DEF CompareInv, CompareTyped, CompareTypeOK, GoOn
  <2>1. held[w] \in HeldRows
    OBVIOUS
  <2>2. CASE Begin(w) \/ FindSnapshot(w) \/ FailBuild(w)
    BY <1>1, <2>2 DEF Begin, FindSnapshot, FailBuild
  <2>3. CASE ReadInputs(w) \/ OpenRun(w) \/ Adopt(w)
    <3>1. PICK f : \/ held' = [held EXCEPT ![w].inputs = f] \/ held' = [held EXCEPT ![w].opened = f]
                   \/ held' = [held EXCEPT ![w].verdict = f] \/ held' = held
      BY <2>3 DEF ReadInputs, OpenRun, Adopt
    <3>2. held'[w].taken = held[w].taken
      BY <2>1, <3>1 DEF HeldRows
    <3>3. /\ stage[w] \in {"building", "missing", "adopting"}
          /\ stage'[w] \in {"looking", "opened", "raised", "explaining"}
      BY <2>3 DEF ReadInputs, OpenRun, Adopt
    <3>4. QED
      BY <1>1, <3>2, <3>3
  <2>4. ASSUME NEW x \in Done, BuildDocument(w, x) PROVE Owes(w)'
    BY <1>1, <2>1, <2>4 DEF BuildDocument, HeldRows
  <2>5. CASE Raise(w)
    BY <1>1, <2>1, <2>5 DEF Raise, HeldRows
  <2>6. CASE SkipCall(w)
    BY <1>1, <2>1, <2>6 DEF SkipCall, HeldRows
  <2>7. CASE TakeQuota(w)
    BY <1>1, <2>1, <2>7 DEF TakeQuota, HeldRows
  <2>8. CASE CompareModel(w)
    BY <1>1, <2>1, <2>8 DEF CompareModel, HeldRows
  <2>9. CASE CommitBuild(w)
    <3>1. ~held'[w].taken /\ stage'[w] = "finished"
      BY <2>9, Committed
    <3>2. QED
      BY <3>1
  <2>10. CASE ReturnBuild(w)
    BY <2>10 DEF ReturnBuild, FreeBuilder
  <2>11. QED
    BY <1>4, <2>2, <2>3, <2>4, <2>5, <2>6, <2>7, <2>8, <2>9, <2>10 DEF ExecuteBuild
<1>5. ASSUME NEW w \in Builders, CommitBuild(w), NEW v \in Builders, v # w PROVE Owes(v)'
  <2>1. stage'[v] = stage[v] /\ held'[v] = held[v]
    BY <1>5, OthersRest DEF ExecuteBuild
  <2>2. stage[v] \in {"calling", "explained"} => Run(v)' = Run(v)
    <3>1. SUFFICES ASSUME stage[v] \in {"calling", "explained"} PROVE Run(v)' = Run(v)
      OBVIOUS
    <3>2. /\ held[v].request # held[w].request
          /\ held[v].request \in Comparisons /\ held[v].inputs \in Inputs
      BY <1>5, <3>1 DEF CompareInv, OneLockEach, WorkersKnow, Locking, CommitBuild
    <3>3. QED
      BY <1>5, <2>1, <3>2, Commits
  <2>3. held[v].taken => usage' = usage
    BY <1>2, <1>5, Commits DEF Charged
  <2>4. QED
    BY <1>1, <2>1, <2>2, <2>3
<1>6. ASSUME NEW w \in Builders, (\E r \in Comparisons : TakeBuild(w, r)) \/ BuilderLost(w)
      PROVE  \A v \in Builders : Owes(v)'
  <2>1. UNCHANGED <<ai, usage>>
    BY <1>6, TakingMoves, LosingMoves
  <2>2. \A v \in Builders : v # w => Owes(v)'
    BY <1>3, <1>6, <2>1, OthersRest
  <2>3. ASSUME NEW r \in Comparisons, TakeBuild(w, r) PROVE Owes(w)'
    BY <1>3, <2>1, <2>3, TakingMoves
  <2>4. ASSUME BuilderLost(w) PROVE Owes(w)'
    <3>1. stage'[w] = "idle" /\ held'[w].taken = FALSE
      BY <2>4, LosingMoves
    <3>2. QED
      BY <3>1
  <2>5. QED
    BY <1>6, <2>2, <2>3, <2>4
<1>7. \A v \in Builders : Owes(v)'
  <2>1. ASSUME NEW w \in Builders, ExecuteBuild(w), ~CommitBuild(w), NEW v \in Builders, v # w
        PROVE  Owes(v)'
    BY <1>3, <2>1, OthersRest, OnlyCommitsWrite
  <2>2. CASE Elsewhere
    BY <1>3, <2>2, ElsewhereMoves
  <2>3. QED
    BY <1>4, <1>5, <1>6, <2>1, <2>2, CompareSteps
<1>8. ASSUME NEW w \in Builders,
             (\E r \in Comparisons : TakeBuild(w, r)) \/ ExecuteBuild(w) \/ BuilderLost(w),
             held'[w].taken
      PROVE  held[w].taken \/ ~BeingTaken
  <2> USE DEF CompareInv, CompareTyped, CompareTypeOK
  <2>1. held[w] \in HeldRows
    OBVIOUS
  <2>2. ASSUME ExecuteBuild(w), ~TakeQuota(w) PROVE held[w].taken
    <3>1. CASE Begin(w) \/ FindSnapshot(w) \/ FailBuild(w)
      BY <1>8, <3>1 DEF Begin, FindSnapshot, FailBuild
    <3>2. CASE ReadInputs(w) \/ OpenRun(w) \/ Adopt(w) \/ SkipCall(w) \/ CompareModel(w)
      <4>1. CASE ReadInputs(w) \/ OpenRun(w)
        <5>1. PICK f : \/ held' = [held EXCEPT ![w].inputs = f]
                       \/ held' = [held EXCEPT ![w].opened = f]
                       \/ held' = held
          BY <4>1 DEF ReadInputs, OpenRun
        <5>2. held'[w].taken = held[w].taken
          BY <2>1, <5>1 DEF HeldRows
        <5>3. QED
          BY <1>8, <5>2
      <4>2. CASE Adopt(w) \/ SkipCall(w)
        <5>1. PICK f : held' = [held EXCEPT ![w].verdict = f] \/ held' = [held EXCEPT ![w].answer = f]
          BY <4>2 DEF Adopt, SkipCall
        <5>2. held'[w].taken = held[w].taken
          BY <2>1, <5>1 DEF HeldRows
        <5>3. QED
          BY <1>8, <5>2
      <4>3. CASE CompareModel(w)
        BY <1>8, <2>1, <4>3 DEF CompareModel, HeldRows
      <4>4. QED
        BY <3>2, <4>1, <4>2, <4>3
    <3>3. ASSUME NEW x \in Done, BuildDocument(w, x) PROVE held[w].taken
      BY <1>8, <2>1, <3>3 DEF BuildDocument, HeldRows
    <3>4. CASE Raise(w) \/ CommitBuild(w)
      BY <1>8, <2>1, <3>4 DEF Raise, CommitBuild, HeldRows
    <3>5. CASE ReturnBuild(w)
      BY <1>8, <3>5 DEF ReturnBuild, FreeBuilder
    <3>6. QED
      BY <2>2, <3>1, <3>2, <3>3, <3>4, <3>5 DEF ExecuteBuild
  <2>3. CASE TakeQuota(w)
    BY <2>3 DEF TakeQuota
  <2>4. QED
    BY <1>8, <2>2, <2>3, TakingMoves, LosingMoves
<1>9. ASSUME NEW u \in Builders, NEW v \in Builders, held'[u].taken, held'[v].taken, u # v
      PROVE  FALSE
  <2>1. ASSUME NEW w \in Builders,
               (\E r \in Comparisons : TakeBuild(w, r)) \/ ExecuteBuild(w) \/ BuilderLost(w)
        PROVE  FALSE
    <3>1. \A x \in Builders : x # w => held'[x] = held[x]
      BY <2>1, OthersRest
    <3>2. CASE w # u /\ w # v
      BY <1>2, <1>9, <3>1, <3>2
    <3>3. CASE w = u \/ w = v
      BY <1>2, <1>8, <1>9, <2>1, <3>1, <3>3 DEF BeingTaken
    <3>4. QED
      BY <3>2, <3>3
  <2>2. CASE Elsewhere
    BY <1>2, <1>9, <2>2, ElsewhereMoves
  <2>3. QED
    BY <2>1, <2>2, CompareSteps
<1>10. QED
  BY <1>7, <1>9 DEF TakenIsOwed

\* A commit that has taken a unit adds the run that it pays for; another leaves both.
LEMMA CountKept ==
    ASSUME CompareInv, [CompareNext]_compareVars
    PROVE  IsFiniteSet(Called') /\ usage' = Cardinality(Called')
<1>1. IsFiniteSet(Called) /\ usage = Cardinality(Called) /\ usage \in Nat
  BY DEF CompareInv, CompareTyped, CompareTypeOK
<1>2. ASSUME NEW w \in Builders, CommitBuild(w)
      PROVE  IsFiniteSet(Called') /\ usage' = Cardinality(Called')
  <2>1. PICK r \in Comparisons, v \in Inputs : r = held[w].request /\ v = held[w].inputs
    BY <1>2, Commits
  <2>2. /\ ai'[r][v] = held[w].answer /\ usage' = Charged(w)
        /\ \A q \in Comparisons, u \in Inputs : q # r \/ u # v => ai'[q][u] = ai[q][u]
    BY <1>2, <2>1, Commits
  <2>3. IF held[w].taken THEN ai[r][v] = "none" /\ held[w].answer # "none"
        ELSE held[w].answer = ai[r][v]
    BY <1>2, <2>1 DEF CommitBuild, CompareInv, TakenIsOwed
  <2>4. CASE held[w].taken
    <3>1. Called' = Called \cup {<<r, v>>} /\ <<r, v>> \notin Called
      BY <2>2, <2>3, <2>4 DEF Called
    <3>2. QED
      BY <1>1, <2>2, <2>4, <3>1, FS_AddElement DEF Charged
  <2>5. CASE ~held[w].taken
    <3>1. Called' = Called
      BY <2>2, <2>3, <2>5 DEF Called
    <3>2. QED
      BY <1>1, <2>2, <2>5, <3>1 DEF Charged
  <2>6. QED
    BY <2>4, <2>5
<1>3. CASE UNCHANGED <<ai, usage>>
  BY <1>1, <1>3 DEF Called
<1>4. QED
  BY <1>2, <1>3, CompareSteps, OnlyCommitsWrite, TakingMoves, LosingMoves, ElsewhereMoves

LEMMA ShownIsBuiltKept == ASSUME CompareInv, [CompareNext]_compareVars PROVE ShownIsBuilt'
<1> DEFINE There(r) ==
        /\ comparison[r].snapshot # NoInputs => built[r][comparison[r].snapshot] # "none"
        /\ comparison[r].status \in Done =>
             /\ comparison[r].snapshot # NoInputs
             /\ \E v \in Inputs : built[r][v] = comparison[r].status
<1>1. \A r \in Comparisons : There(r)
  BY DEF CompareInv, ShownIsBuilt, AnswerIsBuilt
<1>2. ASSUME NEW r \in Comparisons, comparison'[r].snapshot = comparison[r].snapshot,
             comparison'[r].status \in Done => comparison'[r].status = comparison[r].status
      PROVE  There(r)'
  <2>1. comparison[r].snapshot \in Inputs \cup {NoInputs} /\ "none" \notin Done
    BY DEF CompareInv, CompareTyped, CompareTypeOK, Done
  <2>2. QED
    BY <1>1, <1>2, <2>1, BuiltStays
<1>3. ASSUME NEW w \in Builders, CommitBuild(w), NEW r \in Comparisons PROVE There(r)'
  <2>1. CASE r # held[w].request
    BY <1>2, <1>3, <2>1, Commits
  <2>2. CASE r = held[w].request
    <3>1. PICK v \in Inputs : v = held[w].inputs
      BY <1>3, Commits
    <3>2. /\ built'[r][v] = held[w].verdict /\ held[w].verdict \in Done
          /\ comparison'[r].status = held[w].verdict
          /\ comparison'[r].snapshot = IF held[w].snapshot = v THEN comparison[r].snapshot ELSE v
      BY <1>3, <2>2, <3>1, Commits
    <3>3. v # NoInputs /\ "none" \notin Done
      BY InputNumbers DEF Done
    <3>4. CASE held[w].snapshot = v
      <4>1. comparison[r].snapshot # NoInputs
        BY <1>3, <2>2, <3>3, <3>4 DEF CompareInv, WorkersKnow, CommitBuild
      <4>2. comparison[r].snapshot \in Inputs /\ built'[r][comparison[r].snapshot] # "none"
        BY <1>1, <4>1, BuiltStays DEF CompareInv, CompareTyped, CompareTypeOK
      <4>3. QED
        BY <3>2, <3>4, <4>1, <4>2
    <3>5. CASE held[w].snapshot # v
      BY <3>2, <3>3, <3>5
    <3>6. QED
      BY <3>4, <3>5
  <2>3. QED
    BY <2>1, <2>2
<1>4. ASSUME NEW w \in Builders, ExecuteBuild(w), ~CommitBuild(w), NEW r \in Comparisons
      PROVE  There(r)'
  <2>1. CASE Begin(w) \/ FailBuild(w)
    <3>1. /\ comparison'[r].snapshot = comparison[r].snapshot
          /\ comparison'[r].status \in Done => comparison'[r].status = comparison[r].status
      BY <2>1, StatusOnly
    <3>2. QED
      BY <1>2, <3>1
  <2>2. CASE UNCHANGED comparison
    BY <1>2, <2>2
  <2>3. QED
    BY <1>4, <2>1, <2>2 DEF ExecuteBuild, ReadInputs, FindSnapshot, OpenRun, BuildDocument, Adopt,
       Raise, SkipCall, TakeQuota, CompareModel, ReturnBuild
<1>5. \A r \in Comparisons : There(r)'
  BY <1>2, <1>3, <1>4, CompareSteps, TakingMoves, LosingMoves, ElsewhereMoves
<1>6. QED
  BY <1>5 DEF ShownIsBuilt, AnswerIsBuilt

LEMMA CompareTypedKept == ASSUME CompareInv, [CompareNext]_compareVars PROVE CompareTyped'
BY CompareSteps, BuildTyped, TakingMoves, LosingMoves, ElsewhereMoves

\* For every number of requests and workers, through backfills, repeated messages and lost
\* workers, what the comparisons rest on is invariant (ComparisonService).
THEOREM CompareSafe == CompareSpec => []CompareInv
<1>1. CompareInv /\ [CompareNext]_compareVars => CompareInv'
  BY CompareTypedKept, KnowKept, VerdictKept, ShownIsBuiltKept, LockKept, TakenKept, CountKept
     DEF CompareInv
<1>2. QED
  BY <1>1, CompareInitially, PTL DEF CompareSpec

\* The rows, the messages and the sessions keep their types.
THEOREM CompareTypeCorrect == CompareSpec => []CompareTypeOK
<1>1. CompareInv => CompareTypeOK
  BY DEF CompareInv, CompareTyped
<1>2. QED
  BY <1>1, CompareSafe, PTL

\* The day's usage is the number of models called, whatever raced, raised or was lost
\* (_consume_ai_quota in the build's transaction).
THEOREM UsageIsCalls == CompareSpec => []QuotaMatchesRuns
<1>1. CompareInv => QuotaMatchesRuns
  BY DEF CompareInv, QuotaMatchesRuns, Called
<1>2. QED
  BY <1>1, CompareSafe, PTL

\* A request that says it is answered shows a snapshot that was built, and says what one of its
\* snapshots deserves.
THEOREM AnswersAreBuilt == CompareSpec => []AnswerIsBuilt
<1>1. CompareInv => AnswerIsBuilt
  BY DEF CompareInv, ShownIsBuilt
<1>2. QED
  BY <1>1, CompareSafe, PTL

-----------------------------------------------------------------------------
(* Backfills: the order of a plan *)

\* Items are finitely many, and dependency_order with the symbol orders them.
LEMMA ItemsAreOrdered ==
    /\ IsFiniteSet(Items)
    /\ \A i, j \in Items : i # j => Before(i, j) \/ Before(j, i)
    /\ \A i, j \in Items : ~(Before(i, j) /\ Before(j, i))
    /\ \A i, j, k \in Items : Before(i, j) /\ Before(j, k) => Before(i, k)
<1>1. ActionKeys = {"sync_market", "sync_financial_statements", "sync_valuations",
          "compute_fundamentals", "build_research_snapshot", "import_industry_membership",
          "build_peer_research", "sync_event_pipeline", "rebuild_screening_snapshot"}
  BY DEF ActionKeys, ActionPlan
<1>2. IsFiniteSet(ActionKeys)
  <2>1. IsFiniteSet({})
    BY FS_EmptySet
  <2> DEFINE add(S, x) == S \cup {x}
  <2>2. \A S, x : IsFiniteSet(S) => IsFiniteSet(add(S, x))
    BY FS_AddElement
  <2> HIDE DEF add
  <2>3. ActionKeys = add(add(add(add(add(add(add(add(add({}, "sync_market"),
          "sync_financial_statements"), "sync_valuations"), "compute_fundamentals"),
          "build_research_snapshot"), "import_industry_membership"), "build_peer_research"),
          "sync_event_pipeline"), "rebuild_screening_snapshot")
    BY <1>1 DEF add
  <2>4. QED
    BY <2>1, <2>2, <2>3, Zenon
<1>3. IsFiniteSet(Items)
  BY <1>2, FS_Product, StocksAssumption DEF Items
<1> DEFINE Order(a) == ActionPlan[a][1]
<1>4. \A a, b \in ActionKeys : Order(a) \in Nat /\ (Order(a) = Order(b) => a = b)
  BY <1>1 DEF ActionPlan
<1>5. \A i \in Items : i[1] \in Nat /\ i[2] \in ActionKeys /\ i = <<i[1], i[2]>>
  <2>1. \A i \in Items : i[1] \in Stocks /\ i[2] \in ActionKeys
    BY DEF Items
  <2>2. \A s \in Stocks, a \in ActionKeys : <<s, a>>[1] = s /\ <<s, a>>[2] = a
    OBVIOUS
  <2>3. \A i \in Items : \E s \in Stocks, a \in ActionKeys : i = <<s, a>>
    BY DEF Items
  <2>4. \A i \in Items : i = <<i[1], i[2]>>
    BY <2>2, <2>3
  <2>5. QED
    BY <2>1, <2>4, StocksAssumption
<1> HIDE DEF Order
<1>6. \A i, j \in Items : Before(i, j) <=> \/ Order(i[2]) < Order(j[2])
                                           \/ Order(i[2]) = Order(j[2]) /\ i[1] < j[1]
  BY DEF Before, Order
<1>7. \A i, j \in Items : i # j => Before(i, j) \/ Before(j, i)
  <2> SUFFICES ASSUME NEW i \in Items, NEW j \in Items, ~Before(i, j), ~Before(j, i) PROVE i = j
    OBVIOUS
  <2>1. Order(i[2]) = Order(j[2]) /\ i[1] = j[1]
    BY <1>4, <1>5, <1>6
  <2>2. QED
    BY <1>4, <1>5, <2>1
<1>8. \A i, j \in Items : ~(Before(i, j) /\ Before(j, i))
  BY <1>4, <1>5, <1>6
<1>9. \A i, j, k \in Items : Before(i, j) /\ Before(j, k) => Before(i, k)
  BY <1>4, <1>5, <1>6
<1>10. QED
  BY <1>3, <1>7, <1>8, <1>9

\* The place of an item among others: how many come before it.
Rank(S, i) == Cardinality({j \in S : Before(j, i)})

\* Places are those of a list of them all, and tell which item comes first.
LEMMA Ranks ==
    ASSUME NEW S \in SUBSET Items
    PROVE  /\ IsFiniteSet(S) /\ Cardinality(S) \in Nat
           /\ \A i \in S : Rank(S, i) \in 0..(Cardinality(S) - 1)
           /\ \A i, j \in S : Before(i, j) <=> Rank(S, i) < Rank(S, j)
           /\ \A i, j \in S : Rank(S, i) = Rank(S, j) => i = j
           /\ \A k \in 0..(Cardinality(S) - 1) : \E i \in S : Rank(S, i) = k
<1>1. IsFiniteSet(S) /\ Cardinality(S) \in Nat
  BY ItemsAreOrdered, FS_Subset, FS_CardinalityType
<1> DEFINE Below(i) == {j \in S : Before(j, i)}
<1>2. \A i \in S : IsFiniteSet(Below(i)) /\ Rank(S, i) = Cardinality(Below(i)) /\ Rank(S, i) \in Nat
  BY <1>1, FS_Subset, FS_CardinalityType DEF Rank
<1>12. \A i \in S : Rank(S, i) \in Nat
  BY <1>2
<1>3. ASSUME NEW i \in S PROVE Rank(S, i) < Cardinality(S)
  <2>1. Below(i) \subseteq S /\ i \notin Below(i)
    BY ItemsAreOrdered
  <2>2. Cardinality(Below(i)) <= Cardinality(S) /\ Cardinality(Below(i)) # Cardinality(S)
    BY <1>1, <2>1, FS_Subset
  <2>3. Rank(S, i) = Cardinality(Below(i)) /\ Rank(S, i) \in Nat
    BY <1>2
  <2> HIDE DEF Below
  <2>4. QED
    BY <1>1, <2>2, <2>3
<1>4. ASSUME NEW i \in S, NEW j \in S, Before(i, j) PROVE Rank(S, i) < Rank(S, j)
  <2>1. Below(i) \subseteq Below(j) /\ i \in Below(j) /\ i \notin Below(i)
    BY <1>4, ItemsAreOrdered
  <2>2. Cardinality(Below(i)) <= Cardinality(Below(j)) /\ Cardinality(Below(i)) # Cardinality(Below(j))
    BY <1>2, <2>1, FS_Subset
  <2>3. /\ Rank(S, i) = Cardinality(Below(i)) /\ Rank(S, i) \in Nat
        /\ Rank(S, j) = Cardinality(Below(j)) /\ Rank(S, j) \in Nat
    BY <1>2
  <2> HIDE DEF Below
  <2>4. QED
    BY <2>2, <2>3
<1>5. \A i, j \in S : Before(i, j) <=> Rank(S, i) < Rank(S, j)
  <2> SUFFICES ASSUME NEW i \in S, NEW j \in S, Rank(S, i) < Rank(S, j) PROVE Before(i, j)
    BY <1>4
  <2>1. Rank(S, i) \in Nat /\ Rank(S, j) \in Nat
    BY <1>12
  <2>2. i # j /\ ~Before(j, i)
    BY <1>4, <2>1
  <2>3. QED
    BY <2>2, ItemsAreOrdered
<1>6. \A i, j \in S : Rank(S, i) = Rank(S, j) => i = j
  <2> SUFFICES ASSUME NEW i \in S, NEW j \in S, Rank(S, i) = Rank(S, j) PROVE i = j
    OBVIOUS
  <2>1. Rank(S, i) \in Nat
    BY <1>12
  <2>2. ~Before(i, j) /\ ~Before(j, i)
    BY <1>4, <2>1
  <2>3. QED
    BY <2>2, ItemsAreOrdered
<1> DEFINE T == 0..(Cardinality(S) - 1)
           f == [i \in S |-> Rank(S, i)]
<1>7. \A i \in S : Rank(S, i) \in T
  BY <1>1, <1>12, <1>3
<1>8. IsFiniteSet(T) /\ Cardinality(T) = Cardinality(S)
  <2>1. 0 \in Int /\ Cardinality(S) - 1 \in Int
    BY <1>1
  <2>2. IsFiniteSet(T) /\ Cardinality(T) = IF 0 > Cardinality(S) - 1 THEN 0 ELSE Cardinality(S) - 1 - 0 + 1
    BY <2>1, FS_Interval, Zenon
  <2>3. QED
    BY <1>1, <2>2
<1>9. f \in Surjection(S, T)
  <2>1. f \in Injection(S, T)
    BY <1>6, <1>7, Fun_IsInj
  <2>2. QED
    BY <1>8, <2>1, FS_Injection
<1>10. \A k \in T : \E i \in S : Rank(S, i) = k
  <2>1. PICK g \in Surjection(S, T) : \A i \in S : g[i] = Rank(S, i)
    BY <1>9
  <2>2. \A k \in T : \E i \in S : g[i] = k
    BY <2>1, Fun_SurjectionProperties
  <2>3. QED
    BY <2>1, <2>2
<1>11. QED
  BY <1>1, <1>5, <1>6, <1>7, <1>10

\* What a call loads: the first items of those that are pending, in order.
LEMMA Loaded ==
    ASSUME NEW S \in SUBSET Items, NEW l, l = Batch(Sorted(S))
    PROVE  /\ l \in Seq(Items) /\ Len(l) <= BatchSize
           /\ \A k \in 1..Len(l) : l[k] \in S
           /\ \A k, m \in 1..Len(l) : k < m => Before(l[k], l[m])
           /\ \A j \in S : \/ \E k \in 1..Len(l) : j = l[k]
                           \/ \A k \in 1..Len(l) : Before(l[k], j)
<1> DEFINE n == Cardinality(S)
           all == Sorted(S)
           size == IF n < BatchSize THEN n ELSE BatchSize
<1>1. n \in Nat /\ BatchSize \in Nat
  BY Ranks, BatchAssumption
<1> DEFINE place(k) == CHOOSE i \in S : Rank(S, i) = k - 1
<1>2. all = [k \in 1..n |-> place(k)]
  BY Zenon DEF Sorted, Rank
<1>3. \A k \in 1..n : place(k) \in S /\ Rank(S, place(k)) = k - 1
  <2> SUFFICES ASSUME NEW k \in 1..n PROVE place(k) \in S /\ Rank(S, place(k)) = k - 1
    OBVIOUS
  <2>1. k - 1 \in 0..(n - 1)
    BY <1>1
  <2>2. \E i \in S : Rank(S, i) = k - 1
    BY <2>1, Ranks
  <2>3. QED
    BY <2>2, Zenon
<1> HIDE DEF all, n, place
<1>11. /\ \A k \in 1..n : all[k] \in S /\ Rank(S, all[k]) = k - 1
       /\ all \in Seq(Items) /\ Len(all) = n
  BY SMTT(30), <1>1, <1>2, <1>3
<1>4. l = SubSeq(all, 1, size)
  BY <1>11 DEF Batch, all
<1>5. size \in Nat /\ size <= n /\ size <= BatchSize
  BY <1>1
<1>6. /\ l \in Seq(Items) /\ Len(l) = size
      /\ \A k \in 1..size : l[k] = all[k]
  <2>1. \A k \in 1..size : all[k] \in Items
    BY <1>1, <1>11, <1>5
  <2>2. 1 \in Int /\ size \in Int
    BY <1>5
  <2>3. /\ SubSeq(all, 1, size) \in Seq(Items)
        /\ Len(SubSeq(all, 1, size)) = IF 1 <= size THEN size - 1 + 1 ELSE 0
        /\ \A k \in 1..(size - 1 + 1) : SubSeq(all, 1, size)[k] = all[1 + k - 1]
    BY <2>1, <2>2, SubSeqProperties
  <2> HIDE DEF size
  <2>4. QED
    BY <1>4, <1>5, <2>3
<1>7. \A k \in 1..Len(l) : l[k] \in S /\ Rank(S, l[k]) = k - 1
  BY <1>1, <1>11, <1>5, <1>6
<1>8. \A k, m \in 1..Len(l) : k < m => Before(l[k], l[m])
  <2> SUFFICES ASSUME NEW k \in 1..Len(l), NEW m \in 1..Len(l), k < m PROVE Before(l[k], l[m])
    OBVIOUS
  <2>1. Rank(S, l[k]) < Rank(S, l[m]) /\ l[k] \in S /\ l[m] \in S
    BY <1>5, <1>6, <1>7
  <2>2. QED
    BY <2>1, Ranks
<1>9. ASSUME NEW j \in S, \A k \in 1..Len(l) : j # l[k], NEW k \in 1..Len(l)
      PROVE  Before(l[k], j)
  <2>1. Rank(S, j) \in 0..(n - 1)
    BY Ranks DEF n
  <2>2. \A m \in 1..Len(l) : Rank(S, j) # m - 1
    <3> SUFFICES ASSUME NEW m \in 1..Len(l), Rank(S, j) = m - 1 PROVE FALSE
      OBVIOUS
    <3>1. Rank(S, j) = Rank(S, l[m]) /\ l[m] \in S
      BY <1>7
    <3>2. j = l[m]
      BY <3>1, Ranks
    <3>3. QED
      BY <1>9, <3>2
  <2>3. Rank(S, j) >= size
    <3>1. Rank(S, j) + 1 \in Nat /\ Rank(S, j) + 1 >= 1 /\ Rank(S, j) = (Rank(S, j) + 1) - 1
      BY <1>1, <2>1
    <3>2. ~(Rank(S, j) + 1 \in 1..size)
      BY <2>2, <1>6, <3>1
    <3>3. QED
      BY <1>5, <2>1, <3>1, <3>2
  <2>4. Rank(S, l[k]) < Rank(S, j) /\ l[k] \in S
    BY <1>1, <1>5, <1>6, <1>7, <2>1, <2>3
  <2>5. QED
    BY <2>4, Ranks
<1>10. QED
  BY <1>5, <1>6, <1>7, <1>8, <1>9

-----------------------------------------------------------------------------
(* Backfills *)

ItemRows ==
    [status : {"none", "blocked", "pending", "running", "succeeded", "skipped", "failed"},
     lapsed : BOOLEAN, fed : BOOLEAN]

CallRows == [list : Seq(Items), moved : BOOLEAN, found : {"none", "running"} \cup RunOver]

\* Where a call has a list of items to work through.
Listing == {"items", "working", "worked"}

BackfillTyped ==
    /\ BackfillTypeOK
    /\ retained \in [Stocks -> [Dimensions -> {"none", "some", "old", "fresh"}]]
    /\ item \in [Items -> ItemRows]
    /\ call \in [Callers -> CallRows]
    /\ asked \in Nat /\ overlapped \in BOOLEAN
    /\ \A c \in Callers : at[c] \in Listing => call[c].list # <<>>
    /\ \A c \in Callers : at[c] = "closing" => call[c].found # "none"

\* Nothing is asked for before there is a plan.
Unstarted ==
    plan = "none" =>
        /\ asked = 0 /\ \A c \in Callers : at[c] = "idle"
        /\ \A i \in Items : item[i] = Unplanned

\* What a call works through was planned and is not blocked.
ListsArePlanned ==
    \A c \in Callers : at[c] \in Listing =>
        \A k \in 1..Len(call[c].list) : item[call[c].list[k]].status \notin {"none", "blocked"}

\* Calls that have not overlapped were one.
OneCall == ~overlapped => \A b, c \in Callers : at[b] # "idle" /\ at[c] # "idle" => b = c

\* Where a list of items in order stands to the other pending ones.
FirstOf(l, pending) ==
    /\ \A k, m \in 1..Len(l) : k < m => Before(l[k], l[m])
    /\ \A j \in pending : \/ \E k \in 1..Len(l) : j = l[k]
                          \/ \A k \in 1..Len(l) : Before(l[k], j)

Pending == {j \in Items : item[j].status = "pending"}

\* The list of a call is in the order of the plan, and what else is pending comes after it.
InOrder ==
    ~overlapped => \A c \in Callers : at[c] \in Listing => FirstOf(call[c].list, Pending)

\* What a status says of the items of a run that is over.
Accounted(st) ==
    st \in RunOver =>
        /\ \A i \in Items : item[i].status \notin {"pending", "running"}
        /\ (st = "succeeded") = ~AnyItem("failed")
        /\ st = "partial" => AnyItem("succeeded")

\* It is true of the run, and of what the call that closes it has counted.
Closing ==
    ~overlapped =>
        /\ plan \in RunOver => \A c \in Callers : at[c] \in {"idle", "evaluating"}
        /\ Accounted(plan)
        /\ \A c \in Callers : at[c] = "closing" => Accounted(call[c].found)

BackfillInv ==
    /\ BackfillTyped
    /\ Unstarted
    /\ ListsArePlanned
    /\ OneCall
    /\ InOrder
    /\ Closing
    /\ SucceededIsProjected

LEMMA BackfillInitially == BackfillInit => BackfillInv
<1> SUFFICES ASSUME BackfillInit PROVE BackfillInv
  OBVIOUS
<1>1. \A s \in Stocks, d \in Dimensions : retained[s][d] \in Levels(d)
  BY AtFirstAssumption DEF BackfillInit
<1>2. retained \in [Stocks -> [Dimensions -> {"none", "some", "old", "fresh"}]]
  BY AtFirstAssumption DEF BackfillInit
<1>3. item \in [Items -> ItemRows]
  BY DEF BackfillInit, Unplanned, ItemRows
<1>4. call \in [Callers -> CallRows] /\ \A c \in Callers : Len(call[c].list) <= BatchSize
  BY BatchAssumption DEF BackfillInit, NoCall, CallRows
<1>5. BackfillTypeOK
  BY <1>1, <1>3, <1>4 DEF BackfillInit, BackfillTypeOK, CallRows, ItemRows
<1>6. BackfillTyped
  BY <1>2, <1>3, <1>4, <1>5 DEF BackfillInit, BackfillTyped, Listing
<1>7. Unstarted /\ ListsArePlanned /\ OneCall /\ InOrder
  BY DEF BackfillInit, Unstarted, ListsArePlanned, OneCall, InOrder, Listing
<1>8. Closing
  BY DEF BackfillInit, Closing, Accounted, RunOver
<1>9. SucceededIsProjected
  BY DEF BackfillInit, SucceededIsProjected, Unplanned
<1>10. QED
  BY <1>6, <1>7, <1>8, <1>9 DEF BackfillInv

\* What the steps write into a row of the items or of the calls.
LEMMA ItemWrites ==
    ASSUME NEW x \in ItemRows, NEW st \in {"pending", "running", "failed", "succeeded", "skipped"},
           NEW b \in BOOLEAN
    PROVE  /\ [x EXCEPT !.status = st, !.lapsed = FALSE] \in ItemRows
           /\ [x EXCEPT !.lapsed = TRUE] \in ItemRows
           /\ [status |-> st, lapsed |-> FALSE, fed |-> x.fed \/ b] \in ItemRows
BY DEF ItemRows

LEMMA CallWrites ==
    ASSUME NEW y \in CallRows, NEW l \in Seq(Items), NEW b \in BOOLEAN,
           NEW f \in {"none", "running"} \cup RunOver
    PROVE  /\ [y EXCEPT !.list = l] \in CallRows
           /\ [y EXCEPT !.list = l, !.moved = b] \in CallRows
           /\ [y EXCEPT !.moved = b] \in CallRows
           /\ [y EXCEPT !.found = f] \in CallRows
           /\ NoCall \in CallRows
<1>1. NoCall \in CallRows
  <2>1. <<>> \in Seq(Items)
    OBVIOUS
  <2>2. QED
    BY <2>1 DEF CallRows, NoCall
<1>2. /\ [y EXCEPT !.list = l] \in CallRows
      /\ [y EXCEPT !.list = l, !.moved = b] \in CallRows
      /\ [y EXCEPT !.moved = b] \in CallRows
      /\ [y EXCEPT !.found = f] \in CallRows
  BY DEF CallRows
<1>3. QED
  BY <1>1, <1>2

\* The rest of a list.
LEMMA RestOfList ==
    ASSUME NEW l \in Seq(Items), l # <<>>
    PROVE  /\ Len(l) \in Nat \ {0} /\ Head(l) = l[1] /\ Head(l) \in Items
           /\ Tail(l) \in Seq(Items) /\ Len(Tail(l)) = Len(l) - 1
           /\ Len(l) = 1 <=> Tail(l) = <<>>
           /\ \A k \in 1..Len(Tail(l)) : Tail(l)[k] = l[k + 1] /\ k + 1 \in 1..Len(l)
<1>1. Len(l) \in Nat \ {0} /\ Head(l) = l[1]
  BY EmptySeq
<1>2. /\ Head(l) \in Items /\ Tail(l) \in Seq(Items) /\ Len(Tail(l)) = Len(l) - 1
      /\ \A k \in 1..Len(Tail(l)) : Tail(l)[k] = l[k + 1]
  BY HeadTailProperties
<1>3. \A k \in 1..Len(Tail(l)) : k + 1 \in 1..Len(l)
  BY <1>1, <1>2
<1>4. (Len(l) = 1) <=> (Tail(l) = <<>>)
  <2> DEFINE t == Tail(l)
  <2>1. t \in Seq(Items) /\ Len(t) = Len(l) - 1
    BY <1>2
  <2>2. Len(t) = 0 <=> t = <<>>
    BY <2>1, EmptySeq
  <2> HIDE DEF t
  <2>3. (Len(l) = 1) <=> (Len(t) = 0)
    BY <1>1, <2>1
  <2>4. (Len(l) = 1) <=> (t = <<>>)
    BY <2>2, <2>3
  <2>5. QED
    BY <2>4 DEF t
<1>5. QED
  BY <1>1, <1>2, <1>3, <1>4

\* What the types say of one call and of the item it is at.
LEMMA OfACall ==
    ASSUME BackfillTyped, NEW c \in Callers
    PROVE  /\ call[c] \in CallRows /\ call[c].list \in Seq(Items)
           /\ Len(call[c].list) <= BatchSize
           /\ at[c] \in Listing => /\ call[c].list # <<>>
                                   /\ Head(call[c].list) \in Items
                                   /\ Head(call[c].list) = call[c].list[1]
                                   /\ 1 \in 1..Len(call[c].list)
<1>1. call[c] \in CallRows /\ call[c].list \in Seq(Items)
  BY DEF BackfillTyped, CallRows
<1>2. Len(call[c].list) <= BatchSize
  BY DEF BackfillTyped, BackfillTypeOK
<1>3. ASSUME at[c] \in Listing PROVE call[c].list # <<>>
  BY <1>3 DEF BackfillTyped
<1>4. QED
  BY <1>1, <1>2, <1>3, RestOfList

LEMMA BackfillTypedKept == BackfillTyped /\ BackfillNext => BackfillTyped'
<1> SUFFICES ASSUME BackfillTyped, BackfillNext PROVE BackfillTyped'
  OBVIOUS
<1> DEFINE Kept ==
      /\ developing \in BOOLEAN
      /\ \A s \in Stocks, d \in Dimensions : retained[s][d] \in Levels(d)
      /\ retained \in [Stocks -> [Dimensions -> {"none", "some", "old", "fresh"}]]
      /\ plan \in {"none", "pending", "running"} \cup RunOver
      /\ item \in [Items -> ItemRows]
      /\ asked \in Nat /\ overlapped \in BOOLEAN
    CallsKept ==
      /\ at \in [Callers -> {"idle", "loading", "items", "working", "worked", "counting",
                             "closing", "evaluating"}]
      /\ call \in [Callers -> CallRows]
      /\ \A c \in Callers : Len(call[c].list) <= BatchSize
      /\ \A c \in Callers : at[c] \in Listing => call[c].list # <<>>
      /\ \A c \in Callers : at[c] = "closing" => call[c].found # "none"
<1>1. Kept /\ CallsKept
  BY DEF BackfillTyped, BackfillTypeOK
<1>2. ASSUME Kept', CallsKept' PROVE BackfillTyped'
  BY <1>2 DEF BackfillTyped, BackfillTypeOK, ItemRows, CallRows
<1>3. NoCall \in CallRows /\ NoCall.list = <<>> /\ Len(NoCall.list) <= BatchSize
  BY BatchAssumption, <1>1, EmptySeq DEF NoCall, CallRows
<1>4. CASE BuildCoverage \/ Ask
  BY <1>1, <1>2, <1>4 DEF BuildCoverage, Ask
<1>5. CASE PlanBackfill
  <2>1. item' \in [Items -> ItemRows]
    BY <1>5 DEF PlanBackfill, Unplanned, ItemRows
  <2>2. QED
    BY <1>1, <1>2, <1>5, <2>1 DEF PlanBackfill
<1>6. CASE Recover
  <2>1. item' \in [Items -> ItemRows]
    BY <1>1, <1>6, ItemWrites DEF Recover
  <2>2. overlapped' \in BOOLEAN
    BY <1>6 DEF Recover
  <2>3. QED
    BY <1>1, <1>2, <1>6, <2>1, <2>2 DEF Recover
<1>7. ASSUME NEW c \in Callers, StartCall(c) PROVE BackfillTyped'
  <2> DEFINE recovered(i) == [item[i] EXCEPT !.status = "pending", !.lapsed = FALSE]
  <2>7. asked > 0 /\ asked' = asked - 1
    BY <1>7 DEF StartCall
  <2>0. \/ item' = item
        \/ item' = [i \in Items |-> IF Recoverable(i) THEN recovered(i) ELSE item[i]]
    BY <1>7 DEF StartCall
  <2>1. item' \in [Items -> ItemRows]
    <3>1. item \in [Items -> ItemRows]
      BY <1>1
    <3>2. \A i \in Items : recovered(i) \in ItemRows
      BY <3>1, ItemWrites
    <3> HIDE DEF Kept, CallsKept, recovered
    <3>3. QED
      BY <2>0, <3>1, <3>2
  <2>2. overlapped' \in BOOLEAN /\ plan' \in {"none", "pending", "running"} \cup RunOver
    BY <1>1, <1>7 DEF StartCall
  <2>3. asked' \in Nat
    <3>1. asked \in Nat
      BY <1>1
    <3>2. QED
      BY <2>7, <3>1
  <2>4. Kept'
    BY <1>1, <1>7, <2>1, <2>2, <2>3 DEF StartCall
  <2>5. CallsKept'
    BY <1>1, <1>7 DEF StartCall, Move, Listing
  <2>6. QED
    BY <1>2, <2>4, <2>5
<1>8. ASSUME NEW c \in Callers, CallLost(c) PROVE BackfillTyped'
  <2>1. CallsKept'
    BY <1>1, <1>3, <1>8 DEF CallLost, Move, Listing
  <2>2. asked' \in Nat
    BY <1>1, <1>8 DEF CallLost
  <2>3. QED
    BY <1>1, <1>2, <1>8, <2>1, <2>2 DEF CallLost
<1>9. ASSUME NEW i \in Items, ItemLapses(i) PROVE BackfillTyped'
  <2>1. item' \in [Items -> ItemRows]
    BY <1>1, <1>9, ItemWrites DEF ItemLapses
  <2>2. QED
    BY <1>1, <1>2, <1>9, <2>1 DEF ItemLapses
<1>10. ASSUME NEW c \in Callers, LoadItems(c) PROVE BackfillTyped'
  <2> DEFINE S == {i \in Items : item[i].status = "pending"}
             l == Batch(Sorted(S))
  <2>1. S \in SUBSET Items
    OBVIOUS
  <2> HIDE DEF S
  <2>2. l \in Seq(Items) /\ Len(l) <= BatchSize
    BY <2>1, Loaded, Zenon
  <2>3. call' = [call EXCEPT ![c].list = l]
    BY <1>10 DEF LoadItems, S
  <2> HIDE DEF l
  <2>4. call' = [call EXCEPT ![c] = [call[c] EXCEPT !.list = l]]
    BY <2>3
  <2>9. call[c] \in CallRows /\ call \in [Callers -> CallRows]
    BY <1>1
  <2>5. call'[c].list = l /\ [call[c] EXCEPT !.list = l] \in CallRows
    <3>1. [call[c] EXCEPT !.list = l] \in CallRows
      BY <2>2, <2>9, CallWrites DEF CallRows
    <3>2. call'[c].list = l
      BY <2>4, <2>9 DEF CallRows
    <3>3. QED
      BY <3>1, <3>2
  <2>6. at' = [at EXCEPT ![c] = IF l = <<>> THEN "counting" ELSE "items"]
    BY <1>10, <2>5 DEF LoadItems, Move
  <2>7. CallsKept'
    BY <1>1, <2>2, <2>4, <2>5, <2>6 DEF Listing
  <2>8. QED
    BY <1>1, <1>2, <1>10, <2>7 DEF LoadItems
<1>11. ASSUME NEW c \in Callers, BeginItem(c) PROVE BackfillTyped'
  <2>1. Head(call[c].list) \in Items
    BY <1>11, OfACall DEF BeginItem, Listing
  <2>2. item' \in [Items -> ItemRows]
    BY <1>1, <1>11, <2>1, ItemWrites DEF BeginItem
  <2>3. call' = [call EXCEPT ![c] = [call[c] EXCEPT !.moved = FALSE]]
    BY <1>11 DEF BeginItem
  <2>4. [call[c] EXCEPT !.moved = FALSE] \in CallRows
    BY <1>1 DEF CallRows
  <2>5. CallsKept'
    BY <1>1, <1>11, <2>3, <2>4 DEF BeginItem, Move, Listing, CallRows
  <2>6. QED
    BY <1>1, <1>2, <1>11, <2>2, <2>5 DEF BeginItem
<1>12. ASSUME NEW c \in Callers, WorkItem(c) PROVE BackfillTyped'
  <2> DEFINE i == Head(call[c].list)
  <2>1. i \in Items /\ i[1] \in Stocks /\ i[2] \in ActionKeys
    BY <1>12, OfACall DEF WorkItem, Listing, Items
  <2>2. ActionPlan[i[2]][2] \in Dimensions
    BY <2>1 DEF ActionKeys, ActionPlan, Dimensions
  <2> HIDE DEF i
  <2>3. retained' \in {retained, [retained EXCEPT ![i[1]][ActionPlan[i[2]][2]] = "fresh"]}
    BY <1>12 DEF WorkItem, i
  <2>4. \A d : "fresh" \in Levels(d)
    BY DEF Levels
  <2> DEFINE d0 == ActionPlan[i[2]][2]
  <2>5. d0 \in Dimensions /\ retained' \in {retained, [retained EXCEPT ![i[1]][d0] = "fresh"]}
    BY <2>2, <2>3
  <2> HIDE DEF d0
  <2>6. /\ \A s \in Stocks, d \in Dimensions : retained'[s][d] \in Levels(d)
        /\ retained' \in [Stocks -> [Dimensions -> {"none", "some", "old", "fresh"}]]
    <3>1. ASSUME retained' = [retained EXCEPT ![i[1]][d0] = "fresh"],
                 NEW s \in Stocks, NEW d \in Dimensions
          PROVE  \/ retained'[s][d] = "fresh" \/ retained'[s][d] = retained[s][d]
      <4>1. retained'[s] = IF s = i[1] THEN [retained[s] EXCEPT ![d0] = "fresh"] ELSE retained[s]
        BY <1>1, <3>1
      <4>2. retained[s] \in [Dimensions -> {"none", "some", "old", "fresh"}]
        BY <1>1
      <4>3. QED
        BY <4>1, <4>2
    <3>2. \A s \in Stocks, d \in Dimensions : retained'[s][d] \in Levels(d)
      BY <1>1, <2>4, <2>5, <3>1
    <3>3. retained' \in [Stocks -> [Dimensions -> {"none", "some", "old", "fresh"}]]
      <4> DEFINE R == {"none", "some", "old", "fresh"}
      <4>1. retained \in [Stocks -> [Dimensions -> R]] /\ "fresh" \in R
        BY <1>1
      <4> HIDE DEF R
      <4>2. \A s \in Stocks : [retained[s] EXCEPT ![d0] = "fresh"] \in [Dimensions -> R]
        BY <4>1
      <4>3. [retained EXCEPT ![i[1]][d0] = "fresh"]
              = [s \in Stocks |-> IF s = i[1] THEN [retained[s] EXCEPT ![d0] = "fresh"]
                                  ELSE retained[s]]
        BY <4>1
      <4>4. retained' \in [Stocks -> [Dimensions -> R]]
        BY <2>5, <4>1, <4>2, <4>3
      <4>5. QED
        BY <4>4 DEF R
    <3>4. QED
      BY <3>2, <3>3
  <2>7. \A b \in Callers : [call[b] EXCEPT !.moved = TRUE] \in CallRows
    BY <1>1 DEF CallRows
  <2>8. \A b \in Callers : call'[b] \in {call[b], [call[b] EXCEPT !.moved = TRUE]}
    BY <1>1, <1>12 DEF WorkItem
  <2>9. call' \in [Callers -> CallRows]
    BY <1>1, <1>12, <2>7 DEF WorkItem
  <2>10. \A b \in Callers : call'[b].list = call[b].list
    BY ZenonT(40), <1>1, <2>8 DEF CallRows
  <2>11. CallsKept'
    BY <1>1, <1>12, <2>9, <2>10 DEF WorkItem, Move, Listing
  <2>12. QED
    BY <1>1, <1>2, <1>12, <2>6, <2>11 DEF WorkItem
<1>13. ASSUME NEW c \in Callers, at[c] \in Listing, Proceed(c) PROVE CallsKept'
  <2> DEFINE l == call[c].list
  <2>1. l \in Seq(Items) /\ l # <<>> /\ Len(l) <= BatchSize
    BY <1>13, OfACall
  <2>2. Tail(l) \in Seq(Items) /\ Len(Tail(l)) = Len(l) - 1 /\ ((Len(l) = 1) <=> (Tail(l) = <<>>))
    BY <2>1, RestOfList
  <2>3. call' = [call EXCEPT ![c] = [call[c] EXCEPT !.list = Tail(l), !.moved = FALSE]]
    BY <1>13 DEF Proceed
  <2>4. [call[c] EXCEPT !.list = Tail(l), !.moved = FALSE] \in CallRows
    BY <1>1, <2>2, CallWrites
  <2>5. call'[c].list = Tail(l)
    BY <1>1, <2>3 DEF CallRows
  <2>6. at' = [at EXCEPT ![c] = IF Len(l) = 1 THEN "counting" ELSE "items"]
    BY <1>13 DEF Proceed, Move
  <2>7. Len(Tail(l)) <= BatchSize
    <3>1. Len(l) \in Nat /\ BatchSize \in Nat
      BY <2>1, BatchAssumption
    <3> HIDE DEF l
    <3>2. QED
      BY <3>1, <2>1, <2>2
  <2> HIDE DEF l
  <2>8. QED
    BY <1>1, <2>2, <2>3, <2>4, <2>5, <2>6, <2>7 DEF Listing
<1>14. ASSUME NEW c \in Callers, NEW skipped \in BOOLEAN, FinishItem(c, skipped) PROVE BackfillTyped'
  <2>1. at[c] \in Listing /\ Head(call[c].list) \in Items
    BY <1>14, OfACall DEF FinishItem, Listing
  <2>2. item' \in [Items -> ItemRows]
    BY <1>1, <1>14, <2>1 DEF FinishItem, ItemRows
  <2>3. CallsKept'
    BY <1>13, <1>14, <2>1 DEF FinishItem
  <2>4. QED
    BY <1>1, <1>2, <1>14, <2>2, <2>3 DEF FinishItem
<1>15. ASSUME NEW c \in Callers, NEW expired \in BOOLEAN, FailItem(c, expired) PROVE BackfillTyped'
  <2>1. at[c] \in Listing /\ Head(call[c].list) \in Items
    BY <1>15, OfACall DEF FailItem, Listing
  <2>2. item' \in [Items -> ItemRows]
    BY <1>1, <1>15, <2>1, ItemWrites DEF FailItem
  <2>3. CallsKept'
    <3>1. CASE expired
      BY <1>1, <1>3, <1>15, <3>1 DEF FailItem, Move, Listing
    <3>2. CASE ~expired
      BY <1>13, <1>15, <2>1, <3>2 DEF FailItem
    <3>3. QED
      BY <3>1, <3>2
  <2>4. QED
    BY <1>1, <1>2, <1>15, <2>2, <2>3 DEF FailItem
<1>16. ASSUME NEW c \in Callers, CountItems(c) PROVE BackfillTyped'
  <2>1. PICK f \in {"running"} \cup RunOver : call' = [call EXCEPT ![c].found = f]
    BY <1>16 DEF CountItems, RunOver
  <2>2. call' = [call EXCEPT ![c] = [call[c] EXCEPT !.found = f]]
    BY <2>1
  <2>3. [call[c] EXCEPT !.found = f] \in CallRows
    BY <1>1 DEF CallRows
  <2>4. CallsKept'
    <3>1. at' = [at EXCEPT ![c] = "closing"] /\ f # "none"
      BY <1>16 DEF CountItems, Move, RunOver
    <3>2. /\ call[c] \in CallRows
          /\ [call[c] EXCEPT !.found = f].found = f
          /\ [call[c] EXCEPT !.found = f].list = call[c].list
      BY <1>1 DEF CallRows
    <3> DEFINE to == [call[c] EXCEPT !.found = f]
    <3>3. call' = [call EXCEPT ![c] = to] /\ to \in CallRows /\ to.found = f /\ to.list = call[c].list
      BY <2>2, <2>3, <3>2
    <3> HIDE DEF to
    <3>4. QED
      BY <1>1, <3>1, <3>3 DEF Listing
  <2>5. QED
    BY <1>1, <1>2, <1>16, <2>4 DEF CountItems
<1>17. ASSUME NEW c \in Callers, CloseRun(c) PROVE BackfillTyped'
  <2>1. CallsKept'
    BY <1>1, <1>3, <1>17 DEF CloseRun, Move, Listing
  <2>2. plan' \in {"none", "pending", "running"} \cup RunOver
    BY <1>1, <1>17 DEF CloseRun, CallRows
  <2>3. QED
    BY <1>1, <1>2, <1>17, <2>1, <2>2 DEF CloseRun
<1>18. ASSUME NEW c \in Callers, EvaluateAgain(c) PROVE BackfillTyped'
  BY <1>1, <1>2, <1>18 DEF EvaluateAgain, Move, Listing
<1>19. QED
  BY <1>4, <1>5, <1>6, <1>7, <1>8, <1>9, <1>10, <1>11, <1>12, <1>14, <1>15, <1>16, <1>17, <1>18
     DEF BackfillNext, CallGoesOn

\* A step changes an item in one of few ways.
ItemStep(i) ==
    \/ item'[i] = item[i]
    \/ plan = "none" /\ item'[i].status \in {"none", "blocked", "pending"}
    \/ /\ item[i].status = "running" /\ item'[i].status \in {"running", "pending"}
       /\ item'[i].fed = item[i].fed
    \/ \E c \in Callers : at[c] \in Listing /\ i = Head(call[c].list)
         /\ \/ item'[i].status \in {"running", "failed"} /\ item'[i].fed = item[i].fed
            \/ item'[i].status = "skipped"
            \/ item'[i].status = "succeeded" /\ (Projects(i[2]) => item'[i].fed)

LEMMA ItemsStep == BackfillTyped /\ BackfillNext => \A i \in Items : ItemStep(i)
<1> SUFFICES ASSUME BackfillTyped, BackfillNext, NEW i \in Items PROVE ItemStep(i)
  OBVIOUS
<1>1. item \in [Items -> ItemRows]
  BY DEF BackfillTyped
<1>2. CASE item' = item
  BY <1>2 DEF ItemStep
<1>3. CASE PlanBackfill
  <2>1. plan = "none"
    BY <1>3 DEF PlanBackfill
  <2>2. item'[i].status \in {"none", "blocked", "pending"}
    BY <1>3 DEF PlanBackfill, Unplanned
  <2>3. QED
    BY <2>1, <2>2 DEF ItemStep
<1>4. CASE Recover
  <2>1. \/ item'[i] = item[i]
        \/ /\ item[i].status = "running"
           /\ item'[i] = [item[i] EXCEPT !.status = "pending", !.lapsed = FALSE]
    BY <1>4 DEF Recover
  <2>2. QED
    BY <1>1, <2>1 DEF ItemStep, ItemRows
<1>5. ASSUME NEW c \in Callers, StartCall(c) PROVE ItemStep(i)
  <2>1. \/ item'[i] = item[i]
        \/ /\ item[i].status = "running"
           /\ item'[i] = [item[i] EXCEPT !.status = "pending", !.lapsed = FALSE]
    BY <1>5 DEF StartCall, Recoverable
  <2>2. QED
    BY <1>1, <2>1 DEF ItemStep, ItemRows
<1>6. ASSUME NEW j \in Items, ItemLapses(j) PROVE ItemStep(i)
  BY <1>1, <1>6 DEF ItemLapses, ItemStep, ItemRows
<1>7. ASSUME NEW c \in Callers, BeginItem(c) PROVE ItemStep(i)
  <2>1. at[c] \in Listing
    BY <1>7 DEF BeginItem, Listing
  <2>2. \/ item'[i] = item[i]
        \/ /\ i = Head(call[c].list)
           /\ item'[i] = [item[i] EXCEPT !.status = "running", !.lapsed = FALSE]
    BY <1>1, <1>7 DEF BeginItem
  <2>3. QED
    BY <1>1, <2>1, <2>2 DEF ItemStep, ItemRows
<1>8. ASSUME NEW c \in Callers, NEW skipped \in BOOLEAN, FinishItem(c, skipped) PROVE ItemStep(i)
  <2>1. at[c] \in Listing
    BY <1>8 DEF FinishItem, Listing
  <2> DEFINE to == [status |-> IF call[c].moved /\ ~skipped THEN "succeeded" ELSE "skipped",
                    lapsed |-> FALSE, fed |-> item[i].fed \/ (call[c].moved /\ Projects(i[2]))]
  <2>2. \/ item'[i] = item[i]
        \/ i = Head(call[c].list) /\ item'[i] = to
    BY <1>1, <1>8 DEF FinishItem
  <2>3. \/ to.status = "skipped"
        \/ to.status = "succeeded" /\ (Projects(i[2]) => to.fed)
    OBVIOUS
  <2> HIDE DEF to
  <2>4. QED
    BY <2>1, <2>2, <2>3 DEF ItemStep
<1>9. ASSUME NEW c \in Callers, NEW expired \in BOOLEAN, FailItem(c, expired) PROVE ItemStep(i)
  <2>1. at[c] \in Listing
    BY <1>9 DEF FailItem, Listing
  <2>2. \/ item'[i] = item[i]
        \/ /\ i = Head(call[c].list)
           /\ item'[i] = [item[i] EXCEPT !.status = "failed", !.lapsed = FALSE]
    BY <1>1, <1>9 DEF FailItem
  <2>3. QED
    BY <1>1, <2>1, <2>2 DEF ItemStep, ItemRows
<1>10. BuildCoverage \/ Ask => item' = item
  BY DEF BuildCoverage, Ask
<1>11. \A c \in Callers :
         LoadItems(c) \/ WorkItem(c) \/ CountItems(c) \/ CloseRun(c) \/ EvaluateAgain(c) \/ CallLost(c)
           => item' = item
  BY DEF LoadItems, WorkItem, CountItems, CloseRun, EvaluateAgain, CallLost
<1>12. QED
  BY <1>2, <1>3, <1>4, <1>5, <1>6, <1>7, <1>8, <1>9, <1>10, <1>11 DEF BackfillNext, CallGoesOn

\* A step of a call leaves the other calls where they are, with their lists.
LEMMA OtherCalls ==
    ASSUME BackfillTyped, NEW c \in Callers, NEW b \in Callers, b # c,
           StartCall(c) \/ CallGoesOn(c) \/ CallLost(c)
    PROVE  at'[b] = at[b] /\ call'[b].list = call[b].list /\ call'[b].found = call[b].found
<1>1. at \in [Callers -> {"idle", "loading", "items", "working", "worked", "counting", "closing",
                           "evaluating"}] /\ call \in [Callers -> CallRows]
  BY DEF BackfillTyped, BackfillTypeOK
<1>2. ASSUME WorkItem(c)
      PROVE  at'[b] = at[b] /\ call'[b].list = call[b].list /\ call'[b].found = call[b].found
  <2>1. call'[b] \in {call[b], [call[b] EXCEPT !.moved = TRUE]}
    BY <1>1, <1>2 DEF WorkItem
  <2>2. at'[b] = at[b]
    BY <1>1, <1>2 DEF WorkItem, Move
  <2>3. QED
    BY <1>1, <2>1, <2>2 DEF CallRows
<1>3. ASSUME \E x \in BOOLEAN : FinishItem(c, x) \/ FailItem(c, x)
      PROVE  at'[b] = at[b] /\ call'[b] = call[b]
  BY <1>1, <1>3 DEF FinishItem, FailItem, Proceed, Move
<1>4. ASSUME StartCall(c) \/ CallLost(c) PROVE at'[b] = at[b] /\ call'[b] = call[b]
  BY <1>1, <1>4 DEF StartCall, CallLost, Move
<1>5. ASSUME LoadItems(c) PROVE at'[b] = at[b] /\ call'[b] = call[b]
  BY <1>1, <1>5 DEF LoadItems, Move
<1>6. ASSUME BeginItem(c) \/ CountItems(c) PROVE at'[b] = at[b] /\ call'[b] = call[b]
  BY <1>1, <1>6 DEF BeginItem, CountItems, Move
<1>7. ASSUME CloseRun(c) \/ EvaluateAgain(c) PROVE at'[b] = at[b] /\ call'[b] = call[b]
  BY <1>1, <1>7 DEF CloseRun, EvaluateAgain, Move
<1>8. QED
  BY <1>2, <1>3, <1>4, <1>5, <1>6, <1>7 DEF CallGoesOn

\* A step of a call loads its list, keeps it, or leaves its first item behind; it makes no
\* item pending.
LEMMA ListStep ==
    ASSUME BackfillTyped, NEW c \in Callers, StartCall(c) \/ CallGoesOn(c) \/ CallLost(c)
    PROVE  /\ at'[c] \in Listing =>
                \/ /\ at[c] = "loading" /\ item' = item
                   /\ call'[c].list = Batch(Sorted({i \in Items : item[i].status = "pending"}))
                \/ at[c] \in Listing /\ call'[c].list = call[c].list
                \/ /\ at[c] \in Listing /\ call'[c].list = Tail(call[c].list)
                   /\ item'[Head(call[c].list)].status # "pending"
           /\ at[c] # "idle" =>
                \A j \in Items : item'[j].status = "pending" => item[j].status = "pending"
<1> DEFINE Loads == /\ at[c] = "loading" /\ item' = item
                    /\ call'[c].list = Batch(Sorted({i \in Items : item[i].status = "pending"}))
           Keeps == at[c] \in Listing /\ call'[c].list = call[c].list
           Leaves == /\ at[c] \in Listing /\ call'[c].list = Tail(call[c].list)
                     /\ item'[Head(call[c].list)].status # "pending"
           NoneMore == \A j \in Items : item'[j].status = "pending" => item[j].status = "pending"
           Goal == /\ at'[c] \in Listing => Loads \/ Keeps \/ Leaves
                   /\ at[c] # "idle" => NoneMore
<1>1. /\ at \in [Callers -> {"idle", "loading", "items", "working", "worked", "counting", "closing",
                             "evaluating"}]
      /\ call \in [Callers -> CallRows] /\ item \in [Items -> ItemRows]
  BY DEF BackfillTyped, BackfillTypeOK
<1>2. at[c] \in Listing => Head(call[c].list) \in Items
  BY OfACall
<1>3. ASSUME StartCall(c) PROVE Goal
  <2>1. at[c] = "idle" /\ at'[c] \in {"idle", "loading"}
    BY <1>1, <1>3 DEF StartCall, Move
  <2>2. QED
    BY <2>1 DEF Listing
<1>4. ASSUME CallLost(c) PROVE Goal
  <2>1. item' = item /\ at'[c] = "idle"
    BY <1>1, <1>4 DEF CallLost, Move
  <2>2. QED
    BY <2>1 DEF Listing
<1>5. ASSUME LoadItems(c) PROVE Goal
  <2>1. item' = item /\ at[c] = "loading"
    BY <1>5 DEF LoadItems
  <2> DEFINE l == Batch(Sorted({i \in Items : item[i].status = "pending"}))
  <2>2. call' = [call EXCEPT ![c].list = l]
    BY <1>5 DEF LoadItems
  <2> HIDE DEF l
  <2>3. call'[c].list = l
    BY <1>1, <2>2 DEF CallRows
  <2>4. Loads
    BY <2>1, <2>3 DEF l
  <2>5. QED
    BY <2>1, <2>4
<1>6. ASSUME BeginItem(c) PROVE Goal
  <2>1. at[c] \in Listing /\ call'[c].list = call[c].list
    BY <1>1, <1>6 DEF BeginItem, Listing, CallRows
  <2>2. NoneMore
    BY <1>1, <1>6 DEF BeginItem, ItemRows
  <2>3. QED
    BY <2>1, <2>2
<1>7. ASSUME WorkItem(c) PROVE Goal
  <2>1. at[c] \in Listing /\ item' = item
    BY <1>7 DEF WorkItem, Listing
  <2>2. call'[c] \in {call[c], [call[c] EXCEPT !.moved = TRUE]}
    BY <1>1, <1>7 DEF WorkItem
  <2>3. call'[c].list = call[c].list
    BY <1>1, <2>2 DEF CallRows
  <2>4. QED
    BY <2>1, <2>3
<1>8. ASSUME Proceed(c) PROVE call'[c].list = Tail(call[c].list)
  BY <1>1, <1>8 DEF Proceed, CallRows
<1>9. ASSUME NEW x \in BOOLEAN, FinishItem(c, x) PROVE Goal
  <2>1. at[c] \in Listing /\ Head(call[c].list) \in Items
    BY <1>2, <1>9 DEF FinishItem, Listing
  <2>2. NoneMore /\ item'[Head(call[c].list)].status # "pending"
    BY <1>1, <1>9, <2>1 DEF FinishItem
  <2>3. call'[c].list = Tail(call[c].list)
    BY <1>8, <1>9 DEF FinishItem
  <2>4. QED
    BY <2>1, <2>2, <2>3
<1>10. ASSUME NEW x \in BOOLEAN, FailItem(c, x) PROVE Goal
  <2>1. at[c] \in Listing /\ Head(call[c].list) \in Items
    BY <1>2, <1>10 DEF FailItem, Listing
  <2>2. NoneMore /\ item'[Head(call[c].list)].status # "pending"
    BY <1>1, <1>10, <2>1 DEF FailItem, ItemRows
  <2>3. call'[c].list = Tail(call[c].list) \/ at'[c] = "idle"
    BY <1>1, <1>8, <1>10 DEF FailItem, Move
  <2>4. QED
    BY <2>1, <2>2, <2>3 DEF Listing
<1>11. ASSUME CountItems(c) \/ CloseRun(c) \/ EvaluateAgain(c) PROVE Goal
  <2>1. item' = item /\ at'[c] \in {"closing", "idle", "evaluating"}
    BY <1>1, <1>11 DEF CountItems, CloseRun, EvaluateAgain, Move
  <2>2. QED
    BY <2>1 DEF Listing
<1>12. Goal
  BY SMTT(30), <1>3, <1>4, <1>5, <1>6, <1>7, <1>9, <1>10, <1>11 DEF CallGoesOn
<1>13. QED
  BY <1>12

\* The steps that are of no call leave every call where it is.
LEMMA NoCallSteps ==
    ASSUME BuildCoverage \/ PlanBackfill \/ Ask \/ Recover \/ \E i \in Items : ItemLapses(i)
    PROVE  at' = at /\ call' = call
BY DEF BuildCoverage, PlanBackfill, Ask, Recover, ItemLapses

LEMMA UnstartedKept == BackfillTyped /\ Unstarted /\ BackfillNext => Unstarted'
<1> SUFFICES ASSUME BackfillTyped, Unstarted, BackfillNext, plan' = "none"
             PROVE  Unstarted'
  BY DEF Unstarted
<1>1. CASE BuildCoverage
  BY <1>1 DEF BuildCoverage, Unstarted, Unplanned
<1>2. CASE PlanBackfill \/ Ask \/ Recover
  BY <1>2 DEF PlanBackfill, Ask, Recover, RunOver
<1>3. ASSUME NEW c \in Callers, StartCall(c) PROVE FALSE
  <2>1. asked > 0 /\ (plan' = plan \/ plan' = "running")
    BY <1>3 DEF StartCall
  <2>2. QED
    BY <2>1 DEF Unstarted
<1>4. ASSUME NEW c \in Callers, CallGoesOn(c) \/ CallLost(c) PROVE FALSE
  <2>1. at[c] # "idle"
    BY ZenonT(40), <1>4 DEF CallGoesOn, CallLost, LoadItems, BeginItem, WorkItem, FinishItem, FailItem,
                CountItems, CloseRun, EvaluateAgain
  <2>2. plan' = plan \/ (at[c] = "closing" /\ plan' = call[c].found)
    BY <1>4 DEF CallGoesOn, CallLost, LoadItems, BeginItem, WorkItem, FinishItem, FailItem,
                CountItems, CloseRun, EvaluateAgain
  <2>3. QED
    BY SMTT(30), <2>1, <2>2 DEF Unstarted, BackfillTyped
<1>5. ASSUME NEW i \in Items, ItemLapses(i) PROVE FALSE
  <2>1. plan' = plan /\ item[i].status = "running"
    BY <1>5 DEF ItemLapses
  <2>2. QED
    BY <2>1 DEF Unstarted, Unplanned
<1>6. QED
  BY <1>1, <1>2, <1>3, <1>4, <1>5 DEF BackfillNext

LEMMA ListsArePlannedKept ==
    BackfillTyped /\ Unstarted /\ ListsArePlanned /\ BackfillNext => ListsArePlanned'
<1> SUFFICES ASSUME BackfillTyped, Unstarted, ListsArePlanned, BackfillNext,
                    NEW c \in Callers, at'[c] \in Listing, NEW k \in 1..Len(call'[c].list)
             PROVE  item'[call'[c].list[k]].status \notin {"none", "blocked"}
  BY DEF ListsArePlanned
<1> DEFINE Planned2(x) == x.status \notin {"none", "blocked"}
<1>1. plan # "none" => \A i \in Items : Planned2(item[i]) => Planned2(item'[i])
  <2> SUFFICES ASSUME plan # "none", NEW i \in Items, Planned2(item[i]) PROVE Planned2(item'[i])
    OBVIOUS
  <2>1. ItemStep(i)
    BY ItemsStep
  <2>2. QED
    BY <2>1 DEF ItemStep
<1>2. at[c] \in Listing => plan # "none"
  BY DEF Unstarted, Listing
<1>3. call[c].list \in Seq(Items)
  BY OfACall
<1>4. ASSUME at[c] \in Listing, call'[c].list = call[c].list
      PROVE  Planned2(item'[call'[c].list[k]])
  <2>1. call[c].list[k] \in Items /\ Planned2(item[call[c].list[k]])
    BY <1>3, <1>4 DEF ListsArePlanned
  <2>2. QED
    BY <1>1, <1>2, <1>4, <2>1
<1>5. CASE ~(StartCall(c) \/ CallGoesOn(c) \/ CallLost(c))
  <2>1. at'[c] = at[c] /\ call'[c].list = call[c].list
    <3>1. ASSUME NEW b \in Callers, StartCall(b) \/ CallGoesOn(b) \/ CallLost(b)
          PROVE  at'[c] = at[c] /\ call'[c].list = call[c].list
      BY <1>5, <3>1, OtherCalls
    <3>2. QED
      BY <3>1, NoCallSteps DEF BackfillNext
  <2>2. QED
    BY <1>4, <2>1
<1>6. CASE StartCall(c) \/ CallGoesOn(c) \/ CallLost(c)
  <2> DEFINE S == {i \in Items : item[i].status = "pending"}
  <2>1. CASE at[c] = "loading" /\ item' = item /\ call'[c].list = Batch(Sorted(S))
    <3>1. S \in SUBSET Items /\ \A i \in S : Planned2(item'[i])
      BY <2>1
    <3> HIDE DEF S, Planned2
    <3>2. call'[c].list[k] \in S
      BY <2>1, <3>1, Loaded
    <3>3. QED
      BY <3>1, <3>2 DEF Planned2
  <2>2. CASE at[c] \in Listing /\ call'[c].list = call[c].list
    BY <1>4, <2>2
  <2>3. CASE at[c] \in Listing /\ call'[c].list = Tail(call[c].list)
    <3> DEFINE l == call[c].list
    <3>1. l \in Seq(Items) /\ l # <<>>
      BY <2>3, OfACall
    <3>2. Tail(l)[k] = l[k + 1] /\ k + 1 \in 1..Len(l)
      BY <2>3, <3>1, RestOfList
    <3>3. l[k + 1] \in Items /\ Planned2(item[l[k + 1]])
      BY <2>3, <3>1, <3>2 DEF ListsArePlanned
    <3>4. QED
      BY <1>1, <1>2, <2>3, <3>2, <3>3
  <2>4. QED
    BY <1>6, <2>1, <2>2, <2>3, ListStep
<1>7. QED
  BY <1>5, <1>6

LEMMA OneCallKept == BackfillTyped /\ OneCall /\ BackfillNext => OneCall'
<1> SUFFICES ASSUME BackfillTyped, OneCall, BackfillNext, ~overlapped',
                    NEW b \in Callers, NEW c \in Callers, at'[b] # "idle", at'[c] # "idle"
             PROVE  b = c
  BY DEF OneCall
<1>1. at \in [Callers -> {"idle", "loading", "items", "working", "worked", "counting", "closing",
                           "evaluating"}]
  BY DEF BackfillTyped, BackfillTypeOK
<1>2. ASSUME NEW a \in Callers, StartCall(a) PROVE b = c
  <2>1. CASE at' = at /\ overlapped' = overlapped
    BY <2>1 DEF OneCall
  <2>2. CASE at' = [at EXCEPT ![a] = "loading"] /\ \A d \in Callers : at[d] = "idle"
    BY <1>1, <2>2
  <2>3. QED
    BY <1>2, <2>1, <2>2 DEF StartCall, Move
<1>3. ASSUME NEW a \in Callers, CallGoesOn(a) \/ CallLost(a) PROVE b = c
  <2>1. at[a] # "idle" /\ overlapped' = overlapped
    BY <1>3 DEF CallGoesOn, CallLost, LoadItems, BeginItem, WorkItem, FinishItem, FailItem,
                CountItems, CloseRun, EvaluateAgain
  <2>2. \A d \in Callers : d # a => at'[d] = at[d]
    BY <1>3, OtherCalls
  <2>3. QED
    BY SMTT(30), <2>1, <2>2 DEF OneCall
<1>4. CASE BuildCoverage \/ PlanBackfill \/ Ask \/ Recover \/ \E i \in Items : ItemLapses(i)
  <2>1. at' = at
    BY SMTT(30), <1>4, NoCallSteps
  <2>2. ~overlapped
    BY <1>4 DEF BuildCoverage, PlanBackfill, Ask, Recover, ItemLapses
  <2>3. QED
    BY <2>1, <2>2 DEF OneCall
<1>5. QED
  BY <1>2, <1>3, <1>4 DEF BackfillNext

\* What has overlapped stays so.
LEMMA OverlapStays == BackfillNext /\ overlapped \in BOOLEAN /\ ~overlapped' => ~overlapped
<1>1. ASSUME Recover PROVE overlapped => overlapped'
  BY <1>1 DEF Recover
<1>2. ASSUME NEW c \in Callers, StartCall(c) PROVE overlapped => overlapped'
  BY ZenonT(40), <1>2 DEF StartCall
<1>3. ASSUME NEW c \in Callers, CallGoesOn(c) \/ CallLost(c) PROVE overlapped' = overlapped
  BY <1>3 DEF CallGoesOn, CallLost, LoadItems, BeginItem, WorkItem, FinishItem, FailItem,
              CountItems, CloseRun, EvaluateAgain
<1>4. ASSUME BuildCoverage \/ PlanBackfill \/ Ask \/ \E i \in Items : ItemLapses(i)
      PROVE  overlapped' = overlapped
  BY <1>4 DEF BuildCoverage, PlanBackfill, Ask, ItemLapses
<1>5. QED
  BY <1>1, <1>2, <1>3, <1>4 DEF BackfillNext

LEMMA FirstOfRest ==
    ASSUME NEW l \in Seq(Items), l # <<>>, NEW P, NEW Q \in SUBSET P, FirstOf(l, P),
           Head(l) \notin Q
    PROVE  FirstOf(Tail(l), Q)
<1> DEFINE t == Tail(l)
<1>1. /\ Len(t) \in Nat /\ Len(l) = Len(t) + 1 /\ Head(l) = l[1]
      /\ \A k \in 1..Len(t) : t[k] = l[k + 1] /\ k + 1 \in 1..Len(l)
  BY RestOfList
<1> HIDE DEF t
<1>2. ASSUME NEW k \in 1..Len(t), NEW m \in 1..Len(t), k < m PROVE Before(t[k], t[m])
  BY <1>1, <1>2 DEF FirstOf
<1>3. ASSUME NEW j \in Q
      PROVE  \/ \E k \in 1..Len(t) : j = t[k]
             \/ \A k \in 1..Len(t) : Before(t[k], j)
  <2>1. CASE \E k \in 1..Len(l) : j = l[k]
    <3>1. PICK k \in 1..Len(l) : j = l[k]
      BY <2>1
    <3>2. k # 1
      BY <1>1, <3>1
    <3>3. k - 1 \in 1..Len(t) /\ (k - 1) + 1 = k
      BY <1>1, <3>2
    <3>4. j = t[k - 1]
      BY <1>1, <3>1, <3>3
    <3>5. QED
      BY <3>3, <3>4
  <2>2. CASE \A k \in 1..Len(l) : Before(l[k], j)
    BY <1>1, <2>2
  <2>3. QED
    BY <2>1, <2>2 DEF FirstOf
<1>4. FirstOf(t, Q)
  BY <1>2, <1>3 DEF FirstOf
<1>5. QED
  BY <1>4 DEF t

LEMMA InOrderKept ==
    BackfillTyped /\ Unstarted /\ OneCall /\ InOrder /\ BackfillNext => InOrder'
<1> SUFFICES ASSUME BackfillTyped, Unstarted, OneCall, InOrder, BackfillNext, ~overlapped',
                    NEW c \in Callers, at'[c] \in Listing
             PROVE  FirstOf(call'[c].list, Pending')
  BY DEF InOrder, FirstOf, Pending
<1>1. ~overlapped
  BY OverlapStays DEF BackfillTyped
<1>2. at[c] \in Listing => FirstOf(call[c].list, Pending) /\ plan # "none"
  BY <1>1 DEF InOrder, FirstOf, Pending, Unstarted, Listing
<1>3. ASSUME NEW l, FirstOf(l, Pending), Pending' \subseteq Pending PROVE FirstOf(l, Pending')
  BY <1>3 DEF FirstOf
<1>4. CASE ~(StartCall(c) \/ CallGoesOn(c) \/ CallLost(c))
  <2>1. at'[c] = at[c] /\ call'[c].list = call[c].list
    <3>1. ASSUME NEW b \in Callers, StartCall(b) \/ CallGoesOn(b) \/ CallLost(b)
          PROVE  at'[c] = at[c] /\ call'[c].list = call[c].list
      BY <1>4, <3>1, OtherCalls
    <3>2. QED
      BY <3>1, NoCallSteps DEF BackfillNext
  <2>2. Pending' \subseteq Pending
    <3>1. ASSUME NEW b \in Callers, StartCall(b) PROVE item' = item
      <4>1. at[c] # "idle"
        BY <2>1 DEF Listing
      <4>2. QED
        BY <3>1, <4>1 DEF StartCall
    <3>2. ASSUME NEW b \in Callers, CallGoesOn(b) \/ CallLost(b) PROVE FALSE
      <4>1. at[b] # "idle"
        BY <3>2 DEF CallGoesOn, CallLost, LoadItems, BeginItem, WorkItem, FinishItem, FailItem,
                    CountItems, CloseRun, EvaluateAgain
      <4>2. at[c] # "idle"
        BY <2>1 DEF Listing
      <4>3. b = c
        BY <1>1, <4>1, <4>2 DEF OneCall
      <4>4. QED
        BY SMTT(30), <1>4, <3>2, <4>3
    <3>3. ASSUME Recover PROVE FALSE
      BY <2>1, <3>3 DEF Recover, Listing
    <3>4. ASSUME PlanBackfill PROVE FALSE
      BY <1>2, <2>1, <3>4 DEF PlanBackfill
    <3>5. ASSUME BuildCoverage \/ Ask PROVE item' = item
      BY <3>5 DEF BuildCoverage, Ask
    <3>6. ASSUME NEW i \in Items, ItemLapses(i) PROVE Pending' \subseteq Pending
      <4>1. item \in [Items -> ItemRows]
        BY DEF BackfillTyped
      <4>2. \A j \in Items : item'[j].status = item[j].status
        BY <3>6, <4>1 DEF ItemLapses, ItemRows
      <4>3. QED
        BY <4>2 DEF Pending
    <3>7. item' = item => Pending' = Pending
      BY DEF Pending
    <3>8. QED
      BY <3>1, <3>2, <3>3, <3>4, <3>5, <3>6, <3>7 DEF BackfillNext
  <2>3. QED
    BY <1>2, <1>3, <2>1, <2>2
<1>5. CASE StartCall(c) \/ CallGoesOn(c) \/ CallLost(c)
  <2>1. CASE at[c] = "loading" /\ item' = item /\ call'[c].list = Batch(Sorted(Pending))
    <3>1. Pending \in SUBSET Items /\ Pending' = Pending
      BY <2>1 DEF Pending
    <3>2. FirstOf(call'[c].list, Pending)
      BY <2>1, <3>1, Loaded DEF FirstOf
    <3>3. QED
      BY <3>1, <3>2
  <2> DEFINE NoneMore == \A j \in Items : item'[j].status = "pending" => item[j].status = "pending"
  <2>2. ASSUME NoneMore PROVE Pending' \subseteq Pending
    BY <2>2 DEF Pending
  <2>3. at[c] \in Listing => at[c] # "idle"
    BY DEF Listing
  <2>4. CASE at[c] \in Listing /\ call'[c].list = call[c].list
    BY <1>2, <1>3, <1>5, <2>2, <2>3, <2>4, ListStep
  <2>5. CASE /\ at[c] \in Listing /\ call'[c].list = Tail(call[c].list)
             /\ item'[Head(call[c].list)].status # "pending"
    <3>1. call[c].list \in Seq(Items) /\ call[c].list # <<>>
      BY <2>5, OfACall
    <3>2. Pending' \subseteq Pending
      BY <1>5, <2>2, <2>3, <2>5, ListStep
    <3>3. Head(call[c].list) \notin Pending'
      BY <2>5 DEF Pending
    <3>4. QED
      BY <1>2, <2>5, <3>1, <3>2, <3>3, FirstOfRest
  <2>6. QED
    BY <1>5, <2>1, <2>4, <2>5, ListStep DEF Pending
<1>6. QED
  BY <1>4, <1>5

\* An account depends on the statuses of the items alone.
LEMMA AccountsStay ==
    ASSUME NEW st, Accounted(st), \A i \in Items : item'[i].status = item[i].status
    PROVE  Accounted(st)'
BY DEF Accounted, AnyItem

LEMMA ClosingKept ==
    BackfillTyped /\ Unstarted /\ OneCall /\ Closing /\ BackfillNext => Closing'
<1> SUFFICES ASSUME BackfillTyped, Unstarted, OneCall, Closing, BackfillNext, ~overlapped'
             PROVE  /\ plan' \in RunOver => \A c \in Callers : at'[c] \in {"idle", "evaluating"}
                    /\ Accounted(plan)'
                    /\ \A c \in Callers : at'[c] = "closing" => Accounted(call[c].found)'
  BY DEF Closing
<1> DEFINE Goal == /\ plan' \in RunOver => \A c \in Callers : at'[c] \in {"idle", "evaluating"}
                   /\ Accounted(plan)'
                   /\ \A c \in Callers : at'[c] = "closing" => Accounted(call[c].found)'
<1>1. /\ at \in [Callers -> {"idle", "loading", "items", "working", "worked", "counting", "closing",
                             "evaluating"}]
      /\ call \in [Callers -> CallRows] /\ item \in [Items -> ItemRows]
  BY DEF BackfillTyped, BackfillTypeOK
<1>2. /\ plan \in RunOver => \A c \in Callers : at[c] \in {"idle", "evaluating"}
      /\ Accounted(plan)
      /\ \A c \in Callers : at[c] = "closing" => Accounted(call[c].found)
  BY OverlapStays DEF BackfillTyped, Closing
<1>3. \A b, c \in Callers : at[b] # "idle" /\ at[c] # "idle" => b = c
  BY OverlapStays DEF BackfillTyped, OneCall
<1>4. ASSUME plan' \notin RunOver PROVE Accounted(plan)'
  BY <1>4 DEF Accounted
<1>5. ASSUME \A i \in Items : item'[i].status = item[i].status, plan' = plan,
             \A c \in Callers : \/ at'[c] = at[c] /\ call'[c].found = call[c].found
                                \/ at'[c] = "idle"
      PROVE  Goal
  <2>1. Accounted(plan)'
    BY <1>2, <1>5, AccountsStay DEF Accounted
  <2>2. ASSUME NEW c \in Callers, at'[c] = "closing" PROVE Accounted(call[c].found)'
    BY <1>2, <1>5, <2>2, AccountsStay DEF Accounted
  <2>3. QED
    BY <1>2, <1>5, <2>1, <2>2
<1>6. ASSUME plan' \notin RunOver, \A c \in Callers : at'[c] # "closing" PROVE Goal
  BY <1>4, <1>6
<1>7. CASE BuildCoverage \/ Ask
  BY <1>5, <1>7 DEF BuildCoverage, Ask
<1>8. CASE PlanBackfill
  <2>1. plan' = "pending" /\ at' = at /\ \A c \in Callers : at[c] = "idle"
    BY <1>8 DEF PlanBackfill, Unstarted
  <2>2. QED
    BY <1>6, <2>1 DEF RunOver
<1>9. CASE Recover
  <2>1. plan' = "pending" /\ at' = at /\ \A c \in Callers : at[c] = "idle"
    BY <1>9 DEF Recover
  <2>2. QED
    BY <1>6, <2>1 DEF RunOver
<1>10. ASSUME NEW i \in Items, ItemLapses(i) PROVE Goal
  <2>1. \A j \in Items : item'[j].status = item[j].status
    BY <1>1, <1>10 DEF ItemLapses, ItemRows
  <2>2. plan' = plan /\ at' = at /\ call' = call
    BY <1>10 DEF ItemLapses
  <2>3. QED
    BY <1>5, <2>1, <2>2
<1>11. ASSUME NEW c \in Callers, StartCall(c) PROVE Goal
  <2>1. CASE plan \in RunOver
    <3>1. plan' = plan /\ item' = item /\ at' = at /\ call' = call
      BY <1>11, <2>1 DEF StartCall
    <3>2. QED
      BY <1>5, <3>1
  <2>2. CASE plan \notin RunOver
    <3>1. /\ plan' = "running" /\ at' = [at EXCEPT ![c] = "loading"]
          /\ \A b \in Callers : at[b] = "idle"
      BY <1>11, <2>2 DEF StartCall, Move
    <3>2. QED
      BY <1>1, <1>6, <3>1 DEF RunOver
  <2>3. QED
    BY <2>1, <2>2
<1>12. ASSUME NEW c \in Callers, EvaluateAgain(c) \/ CallLost(c) PROVE Goal
  <2>1. item' = item /\ plan' = plan /\ at' = [at EXCEPT ![c] = "idle"]
    BY <1>12 DEF EvaluateAgain, CallLost, Move
  <2>2. \A b \in Callers : b # c => call'[b].found = call[b].found
    BY <1>12, OtherCalls DEF CallGoesOn
  <2>3. \A b \in Callers : \/ at'[b] = at[b] /\ call'[b].found = call[b].found
                           \/ at'[b] = "idle"
    BY <1>1, <2>1, <2>2
  <2>4. QED
    BY <1>5, <2>1, <2>3
<1>13. ASSUME NEW c \in Callers, CallGoesOn(c), at[c] # "idle", at'[c] # "closing", plan' = plan,
              at[c] # "evaluating"
       PROVE  Goal
  <2>1. \A b \in Callers : b # c => at'[b] = "idle"
    BY <1>3, <1>13, OtherCalls
  <2>2. QED
    BY <1>2, <1>6, <1>13, <2>1
<1>14. ASSUME NEW c \in Callers, LoadItems(c) \/ BeginItem(c) \/ WorkItem(c) PROVE Goal
  <2>1. /\ at[c] \in {"loading", "items", "working"} /\ plan' = plan
        /\ at'[c] \in {"counting", "items", "working", "worked"}
    BY <1>1, <1>14 DEF LoadItems, BeginItem, WorkItem, Move
  <2>2. QED
    BY <1>13, <1>14, <2>1 DEF CallGoesOn
<1>15. ASSUME NEW c \in Callers, \E x \in BOOLEAN : FinishItem(c, x) \/ FailItem(c, x) PROVE Goal
  <2>1. /\ at[c] \in {"working", "worked"} /\ plan' = plan
        /\ at'[c] \in {"counting", "items", "idle"}
    BY <1>1, <1>15 DEF FinishItem, FailItem, Proceed, Move
  <2>2. CallGoesOn(c)
    BY <1>15 DEF CallGoesOn
  <2>3. QED
    BY <1>13, <2>1, <2>2
<1>16. ASSUME NEW c \in Callers, CountItems(c) PROVE Goal
  <2> DEFINE f == IF \E i \in Items : Unfinished(i) THEN "running"
                  ELSE IF ~AnyItem("failed") THEN "succeeded"
                  ELSE IF AnyItem("succeeded") THEN "partial" ELSE "failed"
  <2>1. /\ item' = item /\ plan' = plan /\ at[c] = "counting" /\ call' = [call EXCEPT ![c].found = f]
        /\ at' = [at EXCEPT ![c] = "closing"]
    BY <1>16 DEF CountItems, Move
  <2>2. Accounted(f)
    <3>1. CASE \E i \in Items : Unfinished(i)
      BY <3>1 DEF Accounted, RunOver
    <3>2. CASE ~\E i \in Items : Unfinished(i)
      <4>1. \A i \in Items : item[i].status \notin {"pending", "running"}
        BY <3>2 DEF Unfinished
      <4>2. /\ AnyItem("failed") /\ AnyItem("succeeded") => f = "partial"
            /\ AnyItem("failed") /\ ~AnyItem("succeeded") => f = "failed"
            /\ ~AnyItem("failed") => f = "succeeded"
        BY <3>2
      <4> HIDE DEF f
      <4>3. QED
        BY <4>1, <4>2 DEF Accounted
    <3>3. QED
      BY <3>1, <3>2
  <2> HIDE DEF f
  <2>3. call'[c].found = f
    BY <1>1, <2>1 DEF CallRows
  <2>4. Accounted(call[c].found)'
    BY <2>1, <2>2, <2>3, AccountsStay DEF Accounted, AnyItem
  <2>5. \A b \in Callers : b # c => at'[b] = "idle"
    BY <1>3, <1>1, <2>1
  <2>6. plan' \notin RunOver
    BY <1>2, <2>1
  <2>7. QED
    BY <1>4, <2>4, <2>5, <2>6
<1>17. ASSUME NEW c \in Callers, CloseRun(c) PROVE Goal
  <2>1. /\ item' = item /\ at[c] = "closing"
        /\ \/ at' = [at EXCEPT ![c] = "idle"] /\ plan' = plan
           \/ at' = [at EXCEPT ![c] = "evaluating"] /\ plan' = call[c].found
    BY <1>17 DEF CloseRun, Move
  <2>2. plan \notin RunOver /\ \A b \in Callers : b # c => at[b] = "idle"
    BY <1>2, <1>3, <2>1
  <2>3. \A b \in Callers : at'[b] \in {"idle", "evaluating"}
    BY <1>1, <2>1, <2>2
  <2>4. Accounted(plan)'
    <3>1. CASE plan' = plan
      BY <1>4, <2>2, <3>1
    <3>2. CASE plan' = call[c].found
      BY <1>2, <2>1, <3>2 DEF Accounted, AnyItem
    <3>3. QED
      BY <2>1, <3>1, <3>2
  <2>5. QED
    BY <2>3, <2>4
<1>18. QED
  BY <1>7, <1>8, <1>9, <1>10, <1>11, <1>12, <1>14, <1>15, <1>16, <1>17 DEF BackfillNext, CallGoesOn

LEMMA ProjectedKept ==
    BackfillTyped /\ Unstarted /\ SucceededIsProjected /\ BackfillNext => SucceededIsProjected'
<1> SUFFICES ASSUME BackfillTyped, Unstarted, SucceededIsProjected, BackfillNext,
                    NEW i \in Items, item'[i].status = "succeeded", i[2] # "compute_fundamentals",
                    ActionPlan[i[2]][2] \in {"fundamental_research", "peer_research", "event_radar"}
             PROVE  item'[i].fed
  BY DEF SucceededIsProjected
<1>1. i[2] \in ActionKeys
  BY DEF Items
<1>2. Projects(i[2])
  BY <1>1 DEF ActionKeys, ActionPlan, Projects
<1>3. ItemStep(i)
  BY ItemsStep
<1>4. item'[i] = item[i] \/ item'[i].fed
  BY <1>2, <1>3 DEF ItemStep
<1>5. QED
  BY <1>4 DEF SucceededIsProjected

LEMMA BackfillStays == BackfillInv /\ UNCHANGED backfillVars => BackfillInv'
BY DEF BackfillInv, backfillVars, BackfillTyped, BackfillTypeOK, Unstarted, ListsArePlanned,
       OneCall, InOrder, FirstOf, Pending, Closing, Accounted, AnyItem, SucceededIsProjected

\* The invariant of every history of a backfill, with any number of calls.
THEOREM BackfillSafe == BackfillSpec => []BackfillInv
<1>1. BackfillInv /\ [BackfillNext]_backfillVars => BackfillInv'
  <2> SUFFICES ASSUME BackfillInv, [BackfillNext]_backfillVars PROVE BackfillInv'
    OBVIOUS
  <2>1. CASE BackfillNext
    <3>1. /\ BackfillTyped /\ Unstarted /\ ListsArePlanned /\ OneCall /\ InOrder /\ Closing
          /\ SucceededIsProjected
      BY DEF BackfillInv
    <3>2. BackfillTyped' /\ Unstarted' /\ ListsArePlanned' /\ OneCall'
      BY <2>1, <3>1, BackfillTypedKept, UnstartedKept, ListsArePlannedKept, OneCallKept
    <3>3. InOrder' /\ Closing' /\ SucceededIsProjected'
      BY <2>1, <3>1, InOrderKept, ClosingKept, ProjectedKept
    <3>4. QED
      BY <3>2, <3>3 DEF BackfillInv
  <2>2. CASE UNCHANGED backfillVars
    BY <2>2, BackfillStays
  <2>3. QED
    BY <2>1, <2>2
<1>2. QED
  BY <1>1, BackfillInitially, PTL DEF BackfillSpec

\* The variables of a backfill have their types.
THEOREM BackfillTypeCorrect == BackfillSpec => []BackfillTypeOK
<1>1. BackfillInv => BackfillTypeOK
  BY DEF BackfillInv, BackfillTyped
<1>2. QED
  BY <1>1, BackfillSafe, PTL

\* What an operator reads of a backfill is true, for any universe, batch size and number of
\* calls: of its items whatever was lost or overlapped, of the run unless calls have overlapped.
THEOREM TheReportIsTrue == BackfillSpec => []ReportIsTrue
<1>1. BackfillInv => SucceededIsProjected
  BY DEF BackfillInv
<1>2. BackfillInv => OverIsAccountedFor
  BY DEF BackfillInv, Closing, Accounted, OverIsAccountedFor
<1>3. BackfillInv => ReportIsTrue
  BY <1>1, <1>2 DEF ReportIsTrue
<1>4. QED
  BY <1>3, BackfillSafe, PTL

\* An item is begun only when no item of an earlier step is pending, unless calls overlap.
THEOREM UpstreamIsFirst == BackfillSpec => UpstreamFirst
<1> DEFINE A == ~overlapped' => \A i \in Items :
         item[i].status # "running" /\ item'[i].status = "running" =>
            \A j \in Items :
                ActionPlan[j[2]][1] < ActionPlan[i[2]][1] => item[j].status # "pending"
<1>1. BackfillInv /\ [BackfillNext]_backfillVars => [A]_item
  <2> SUFFICES ASSUME BackfillInv, BackfillNext, ~overlapped', NEW i \in Items,
                      item[i].status # "running", item'[i].status = "running", NEW j \in Items,
                      ActionPlan[j[2]][1] < ActionPlan[i[2]][1], item[j].status = "pending"
               PROVE  FALSE
    BY DEF backfillVars
  <2>1. BackfillTyped /\ ~overlapped /\ InOrder
    BY OverlapStays DEF BackfillInv, BackfillTyped
  <2>2. ItemStep(i)
    BY <2>1, ItemsStep
  <2>3. PICK c \in Callers : at[c] \in Listing /\ i = Head(call[c].list)
    BY <2>2 DEF ItemStep
  <2> DEFINE l == call[c].list
  <2>4. l \in Seq(Items) /\ l # <<>> /\ i = l[1] /\ 1 \in 1..Len(l) /\ Len(l) \in Nat
    BY <2>1, <2>3, OfACall, RestOfList
  <2>5. /\ \A k, m \in 1..Len(l) : k < m => Before(l[k], l[m])
        /\ (\E k \in 1..Len(l) : j = l[k]) \/ (\A k \in 1..Len(l) : Before(l[k], j))
    BY <2>1, <2>3 DEF InOrder, FirstOf, Pending
  <2> HIDE DEF l
  <2>6. j = i \/ Before(i, j)
    BY <2>4, <2>5
  <2>7. ActionPlan[i[2]][1] \in Nat /\ ActionPlan[j[2]][1] \in Nat
    <3>1. \A a \in ActionKeys : ActionPlan[a][1] \in Nat
      BY DEF ActionKeys, ActionPlan
    <3>2. QED
      BY <3>1 DEF Items
  <2>8. QED
    BY <2>6, <2>7 DEF Before
<1>2. QED
  BY <1>1, BackfillSafe, PTL DEF BackfillSpec, UpstreamFirst

\* What the dataset policy has blocked is never executed.
THEOREM BlockedStays == BackfillSpec => BlockedIsNeverRun
<1> DEFINE A == \A i \in Items : item[i].status = "blocked" => item'[i].status = "blocked"
<1>1. BackfillInv /\ [BackfillNext]_backfillVars => [A]_item
  <2> SUFFICES ASSUME BackfillInv, BackfillNext, NEW i \in Items, item[i].status = "blocked"
               PROVE  item'[i].status = "blocked"
    BY DEF backfillVars
  <2>1. BackfillTyped /\ Unstarted /\ ListsArePlanned
    BY DEF BackfillInv
  <2>2. ItemStep(i)
    BY <2>1, ItemsStep
  <2>3. plan # "none"
    BY <2>1 DEF Unstarted, Unplanned
  <2>4. ~(\E c \in Callers : at[c] \in Listing /\ i = Head(call[c].list))
    BY <2>1, OfACall DEF ListsArePlanned
  <2>5. QED
    BY <2>2, <2>3, <2>4 DEF ItemStep
<1>2. QED
  BY <1>1, BackfillSafe, PTL DEF BackfillSpec, BlockedIsNeverRun

-----------------------------------------------------------------------------
(* The three side by side *)

\* Each of the three takes its own steps or none.
LEMMA SidesAreSpecified == RequestsSpec => Spec /\ CompareSpec /\ BackfillSpec
<1> DEFINE SideMoves == ExplainMoves \/ CompareMoves \/ BackfillMoves
<1>1. RequestsInit => Init /\ CompareInit /\ BackfillInit
  BY DEF RequestsInit
<1>2. [SideMoves]_requestsVars => [Next]_vars /\ [CompareNext]_compareVars /\ [BackfillNext]_backfillVars
  BY DEF requestsVars, ExplainMoves, CompareMoves, BackfillMoves
<1>3. QED
  BY <1>1, <1>2, PTL DEF RequestsSpec, Spec, CompareSpec, BackfillSpec

\* The rows, the messages and the workers of the three keep their types.
THEOREM RequestsTypeCorrect == RequestsSpec => []RequestsTypeOK
<1>1. TypeOK /\ CompareTypeOK /\ BackfillTypeOK => RequestsTypeOK
  BY DEF RequestsTypeOK
<1>2. QED
  BY <1>1, SidesAreSpecified, ExplainTypeCorrect, CompareTypeCorrect, BackfillTypeCorrect, PTL

\* A request that says it is answered shows an output that exists, or a snapshot that exists and
\* a verdict that one of its snapshots deserves.
THEOREM AnsweredIsThere == RequestsSpec => []AnswersAreThere
<1>1. ReadyHasItsOutput /\ AnswerIsBuilt => AnswersAreThere
  BY DEF AnswersAreThere
<1>2. QED
  BY <1>1, SidesAreSpecified, ReadyIsShown, AnswersAreBuilt, PTL
=============================================================================
