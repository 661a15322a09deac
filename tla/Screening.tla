------------------------------ MODULE Screening ------------------------------
(***************************************************************************)
(* ScreeningService: snapshots that freeze which evidence a stock is       *)
(* screened by, and the executions of an account's queries over them.      *)
(*                                                                         *)
(* A snapshot references evidence, whose values an execution reads when it *)
(* is evaluated.  Metric points, peer positions, industry memberships and  *)
(* event radars are added and never changed; a valuation is observed again *)
(* in its row.  All five are evidence of a value for a period here.        *)
(***************************************************************************)
EXTENDS Integers, FiniteSets, Sequences

CONSTANTS
    Stocks,         \* by their symbols, as numbers
    Criteria,       \* what a filter can be on
    Periods, Values,\* of the evidence
    Valuations,     \* those that are valuations
    Queries,        \* canonical queries
    FiltersOf,      \* the filters of each, in order: [on, operator, value]
    SortOf,         \* the sort of each: [field, descending]
    Screeners,      \* screening.execute tasks
    ScreenLease,    \* LEASE_MINUTES
    MaxEvidence,    \* bound: rows of evidence
    MaxObserved,    \* bound: valuations observed again
    MaxSnapshots,   \* bound
    MaxScreenTime,  \* bound: the last minute
    MaxDelistings,  \* bound
    MaxScreenLosses \* bound: lost or repeated messages, workers and answers, failed evaluations

Unknown == 99   \* a status other than available

ASSUME ScreeningAssumption ==
    /\ Stocks \subseteq Nat /\ IsFiniteSet(Stocks) /\ Valuations \subseteq Criteria
    /\ Periods \subseteq Nat /\ Values \subseteq Nat \ {Unknown}
    /\ \A q \in Queries : /\ FiltersOf[q] \in Seq([on : Criteria, operator : {"gte", "lt"}, value : Nat])
                          /\ SortOf[q].field \in Criteria \cup {"symbol"}
                          /\ SortOf[q].descending \in BOOLEAN
    /\ ScreenLease \in Nat \ {0} /\ {MaxEvidence, MaxObserved, MaxSnapshots} \subseteq Nat
    /\ {MaxScreenTime, MaxDelistings, MaxScreenLosses} \subseteq Nat

VARIABLES
    minute,
    listed,         \* the stocks that are listed, with a general issuer
    material,       \* the rows a fact can reference, in the order of their ids
    observed,       \* how many valuations have been observed again
    snapshots,      \* screening_snapshots with their members and facts
    executions,     \* screen_executions and screen_results, by snapshot and query
    screenQueue,    \* messages of screening.execute
    answered,       \* the executions that a request has been answered with
    screener,
    screenLosses

screeningVars == <<minute, listed, material, observed, snapshots, executions, screenQueue,
                   answered, screener, screenLosses>>

Executions == (1..MaxSnapshots) \X Queries
NoExecution == [status |-> "absent", lease |-> 0, results |-> <<>>, evaluated |-> 0, unknown |-> 0,
                excluded |-> 0, count |-> 0]
NoScreener == [at |-> "idle", on |-> <<0, "">>, outcome |-> NoExecution, cleared |-> <<>>]

ScreeningTypeOK ==
    /\ \A k \in 1..Len(snapshots) :
         \A s \in Stocks, c \in Criteria :
            snapshots[k].facts[s][c] # 0 =>
                /\ s \in snapshots[k].members
                /\ LET row == material[snapshots[k].facts[s][c]]
                   IN  row.stock = s /\ row.on = c
    /\ \A x \in Executions :
         /\ executions[x].status \in {"absent", "pending", "running", "succeeded", "failed"}
         /\ executions[x].status # "absent" => x[1] \in 1..Len(snapshots)
    /\ screenQueue \subseteq Executions
    /\ \A w \in Screeners : screener[w].at \in {"idle", "taken", "claimed", "writing"}

ScreeningInit ==
    /\ minute = 0
    /\ listed = Stocks
    /\ material = <<>>
    /\ observed = 0
    /\ snapshots = <<>>
    /\ executions = [x \in Executions |-> NoExecution]
    /\ screenQueue = {}
    /\ answered = {}
    /\ screener = [w \in Screeners |-> NoScreener]
    /\ screenLosses = 0

-----------------------------------------------------------------------------
(* What is known, and the snapshots of it *)

\* New evidence for a period.  A valuation is known when it is collected, which is later than
\* any cutoff up to now; a statement, from when its source says, which may be earlier.
AddEvidence(s, c, period, v, known) ==
    /\ Len(material) < MaxEvidence
    /\ c \in Valuations => /\ known = minute + 1
                           /\ \A i \in 1..Len(material) :
                                <<material[i].stock, material[i].on, material[i].period>> # <<s, c, period>>
    /\ material' = Append(material, [stock |-> s, on |-> c, period |-> period,
                                     known |-> known, value |-> v])
    /\ UNCHANGED <<minute, listed, observed, snapshots, executions, screenQueue, answered,
                   screener, screenLosses>>

\* upsert_valuations, of a day that has been observed.
ObserveAgain(i, v) ==
    /\ observed < MaxObserved /\ material[i].on \in Valuations
    /\ observed' = observed + 1
    /\ material' = [material EXCEPT ![i].value = v, ![i].known = minute + 1]
    /\ UNCHANGED <<minute, listed, snapshots, executions, screenQueue, answered, screener,
                   screenLosses>>

LeaveListing(s) ==
    /\ s \in listed /\ Cardinality(Stocks \ listed) < MaxDelistings
    /\ listed' = listed \ {s}
    /\ UNCHANGED <<minute, material, observed, snapshots, executions, screenQueue, answered,
                   screener, screenLosses>>

NextMinute ==
    /\ minute < MaxScreenTime
    /\ minute' = minute + 1
    /\ UNCHANGED <<listed, material, observed, snapshots, executions, screenQueue, answered,
                   screener, screenLosses>>

\* A variant: of whatever period, what became known last.
KnownLater(i, j) == material[i].known > material[j].known \/ (material[i].known = material[j].known /\ i < j)

\* The order by which row i ranks before row j.
RanksBefore(i, j) ==
    \/ material[i].period > material[j].period
    \/ material[i].period = material[j].period /\ KnownLater(i, j)

First(rows) == IF rows = {} THEN 0
               ELSE CHOOSE i \in rows : \A j \in rows \ {i} : RanksBefore(i, j)

\* The row that ranks first of those known at a cutoff, or none.
Ranked(s, c, cutoff) ==
    First({i \in 1..Len(material) : /\ material[i].stock = s /\ material[i].on = c
                                    /\ material[i].known <= cutoff})

\* build_snapshot, as of a minute: one with the same cutoff and universe is not built again.
\* Not stored, for the properties: the rows there were, and the values referenced as they were.
BuildSnapshot(cutoff) ==
    LET facts == [s \in Stocks |-> [c \in Criteria |-> IF s \in listed THEN Ranked(s, c, cutoff) ELSE 0]]
    IN  /\ Len(snapshots) < MaxSnapshots
        /\ ~\E k \in 1..Len(snapshots) : snapshots[k].cutoff = cutoff /\ snapshots[k].members = listed
        /\ snapshots' = Append(snapshots,
             [cutoff |-> cutoff, members |-> listed, facts |-> facts, rows |-> Len(material),
              was |-> [s \in Stocks |-> [c \in Criteria |->
                         IF facts[s][c] = 0 THEN Unknown ELSE material[facts[s][c]].value]]])
        /\ UNCHANGED <<minute, listed, material, observed, executions, screenQueue, answered,
                       screener, screenLosses>>

-----------------------------------------------------------------------------
(* Requests *)

\* _latest_snapshot: by cutoff, then by creation.
LatestSnapshot == CHOOSE k \in 1..Len(snapshots) :
            \A j \in 1..Len(snapshots) \ {k} :
                \/ snapshots[k].cutoff > snapshots[j].cutoff
                \/ snapshots[k].cutoff = snapshots[j].cutoff /\ k > j

\* Variant and code: only a new execution is enqueued; one that is pending is.
EnqueuedIfNew(x) == executions[x].status = "absent"
Enqueued(x) == executions[x].status \in {"absent", "pending"}

\* create_execution, and its route, whose enqueueing may fail after the commit.
Request(q) ==
    LET x == <<LatestSnapshot, q>>
    IN  /\ snapshots # <<>>
        /\ executions' = IF executions[x].status = "absent"
                         THEN [executions EXCEPT ![x].status = "pending",
                                                 ![x].lease = minute + ScreenLease]
                         ELSE executions
        /\ \/ /\ screenQueue' = IF Enqueued(x) THEN screenQueue \cup {x} ELSE screenQueue
              /\ answered' = answered \cup {x}
              /\ UNCHANGED screenLosses
           \/ /\ Enqueued(x) /\ screenLosses < MaxScreenLosses
              /\ screenLosses' = screenLosses + 1
              /\ UNCHANGED <<screenQueue, answered>>
        /\ UNCHANGED <<minute, listed, material, observed, snapshots, screener>>

-----------------------------------------------------------------------------
(* Execution *)

Take(w, x) ==
    /\ screener[w].at = "idle" /\ x \in screenQueue
    /\ screenQueue' = screenQueue \ {x}
    /\ screener' = [screener EXCEPT ![w] = [NoScreener EXCEPT !.at = "taken", !.on = x]]
    /\ UNCHANGED <<minute, listed, material, observed, snapshots, executions, answered, screenLosses>>

LeaseIsOver(x) == executions[x].lease < minute

\* What is pending, or running beyond its lease.
MayClaim(x) ==
    executions[x].status = "pending" \/ (executions[x].status = "running" /\ LeaseIsOver(x))

ClaimExecution(w) ==
    /\ screener[w].at = "taken"
    /\ LET x == screener[w].on
       IN  IF MayClaim(x)
           THEN /\ executions' = [executions EXCEPT ![x].status = "running",
                                                    ![x].lease = minute + ScreenLease]
                /\ screener' = [screener EXCEPT ![w].at = "claimed"]
           ELSE /\ screener' = [screener EXCEPT ![w] = NoScreener]
                /\ UNCHANGED executions
    /\ UNCHANGED <<minute, listed, material, observed, snapshots, screenQueue, answered, screenLosses>>

Compare(value, operator, bound) == IF operator = "gte" THEN value >= bound ELSE value < bound

\* What is not known fails.
PassesFilter(v, f) == v # Unknown /\ Compare(v, f.operator, f.value)

\* The first filter that a stock does not pass decides what it counts as.
Outcome(q, values) ==
    LET stops == {i \in 1..Len(FiltersOf[q]) : ~PassesFilter(values[FiltersOf[q][i].on], FiltersOf[q][i])}
    IN  IF stops = {} THEN "matched"
        ELSE LET first == CHOOSE i \in stops : \A j \in stops : i <= j
             IN  IF values[FiltersOf[q][first].on] = Unknown THEN "unknown" ELSE "excluded"

\* Does s come before t?  Without a value a stock comes last, in the order of the symbols.
Precedes(q, values, s, t) ==
    LET sort == SortOf[q]
        up(a, b) == IF sort.descending THEN a > b ELSE a < b
        of(r) == values[r][sort.field]
    IN  IF sort.field = "symbol" THEN up(s, t)
        ELSE IF of(s) = Unknown \/ of(t) = Unknown
        THEN IF of(s) = of(t) THEN s < t ELSE of(t) = Unknown
        ELSE IF of(s) = of(t) THEN up(s, t) ELSE up(of(s), of(t))

InOrder(q, values, found) ==
    [n \in 1..Cardinality(found) |->
        CHOOSE s \in found : Cardinality({t \in found : Precedes(q, values, t, s)}) = n - 1]

\* _evaluate, of a snapshot's members with the values of its facts.
Evaluated(q, members, values) ==
    LET of(outcome) == {s \in members : Outcome(q, values[s]) = outcome}
    IN  [NoExecution EXCEPT !.status = "succeeded",
                            !.results = InOrder(q, values, of("matched")),
                            !.count = Cardinality(of("matched")),
                            !.unknown = Cardinality(of("unknown")),
                            !.excluded = Cardinality(of("excluded")),
                            !.evaluated = Cardinality(members)]

\* A variant: of the row that ranks first now.
ValueOfLatest(k, s, c) ==
    LET row == Ranked(s, c, minute + 1)
    IN  IF row = 0 \/ s \notin snapshots[k].members THEN Unknown ELSE material[row].value

\* Of the row that the snapshot references, as it is now.
ValueOf(k, s, c) ==
    LET row == snapshots[k].facts[s][c]
    IN  IF row = 0 THEN Unknown ELSE material[row].value

\* The values that are read, up to the deletion of the results there are.
EvaluateScreen(w) ==
    /\ screener[w].at = "claimed"
    /\ LET x == screener[w].on
           values == [s \in Stocks |-> [c \in Criteria |-> ValueOf(x[1], s, c)]]
       IN  screener' = [screener EXCEPT ![w].at = "writing",
                          ![w].outcome = Evaluated(x[2], snapshots[x[1]].members, values),
                          ![w].cleared = executions[x].results]
    /\ UNCHANGED <<minute, listed, material, observed, snapshots, executions, screenQueue,
                   answered, screenLosses>>

\* The commit.  Rows that another worker has committed since the deletion raise on the first
\* ordinal, and the session can write nothing more.
CommitResults(w) ==
    /\ screener[w].at = "writing"
    /\ LET x == screener[w].on
           outcome == screener[w].outcome
           left == IF executions[x].results = screener[w].cleared THEN <<>> ELSE executions[x].results
       IN  executions' = IF left # <<>> /\ outcome.results # <<>> THEN executions
                         ELSE [executions EXCEPT ![x] =
                                 [outcome EXCEPT !.lease = executions[x].lease,
                                                 !.results = outcome.results \o left]]
    /\ screener' = [screener EXCEPT ![w] = NoScreener]
    /\ UNCHANGED <<minute, listed, material, observed, snapshots, screenQueue, answered, screenLosses>>

\* The except clause, whatever another evaluation has written: failed, which nobody claims or
\* enqueues again.  After an error of the database the session can write nothing more.
FailScreen(w) ==
    /\ screener[w].at = "claimed" /\ screenLosses < MaxScreenLosses
    /\ screenLosses' = screenLosses + 1
    /\ executions' \in {executions, [executions EXCEPT ![screener[w].on].status = "failed"]}
    /\ screener' = [screener EXCEPT ![w] = NoScreener]
    /\ UNCHANGED <<minute, listed, material, observed, snapshots, screenQueue, answered>>

\* The broker delivers a message again that is not acknowledged: its worker is lost, or slow.
RedeliverScreen(w) ==
    /\ screener[w].at # "idle" /\ screenLosses < MaxScreenLosses
    /\ screenLosses' = screenLosses + 1
    /\ screenQueue' = screenQueue \cup {screener[w].on}
    /\ screener' \in {screener, [screener EXCEPT ![w] = NoScreener]}
    /\ UNCHANGED <<minute, listed, material, observed, snapshots, executions, answered>>

ScreeningNext ==
    \/ \E s \in Stocks, c \in Criteria, period \in Periods, v \in Values, known \in 0..(minute + 1) :
         AddEvidence(s, c, period, v, known)
    \/ \E i \in 1..Len(material), v \in Values : ObserveAgain(i, v)
    \/ \E s \in Stocks : LeaveListing(s)
    \/ NextMinute
    \/ \E cutoff \in 0..minute : BuildSnapshot(cutoff)
    \/ \E q \in Queries : Request(q)
    \/ \E w \in Screeners :
         \/ \E x \in screenQueue : Take(w, x)
         \/ ClaimExecution(w) \/ EvaluateScreen(w) \/ CommitResults(w) \/ FailScreen(w)
         \/ RedeliverScreen(w)

ScreeningSpec == ScreeningInit /\ [][ScreeningNext]_screeningVars

-----------------------------------------------------------------------------
(* Properties *)

\* An execution shows the members of its snapshot that pass every filter by the values known at
\* the cutoff, each once and in the order of the query, and accounts for the others.
PointInTime(x) ==
    LET row == executions[x]
        shot == snapshots[x[1]]
        passing == {s \in shot.members :
                      \A i \in 1..Len(FiltersOf[x[2]]) :
                          LET f == FiltersOf[x[2]][i] IN
                          /\ shot.was[s][f.on] # Unknown
                          /\ Compare(shot.was[s][f.on], f.operator, f.value)}
    IN  /\ {row.results[n] : n \in 1..Len(row.results)} = passing
        /\ Len(row.results) = Cardinality(passing) /\ row.count = Len(row.results)
        /\ \A m, n \in 1..Len(row.results) :
             m < n /\ SortOf[x[2]].field # "symbol" =>
                LET a == shot.was[row.results[m]][SortOf[x[2]].field]
                    b == shot.was[row.results[n]][SortOf[x[2]].field]
                IN  \/ b = Unknown
                    \/ a # Unknown /\ IF SortOf[x[2]].descending THEN a >= b ELSE a <= b
        /\ row.count + row.unknown + row.excluded = Cardinality(shot.members)

\* A snapshot holds, of every member and statement, the row of the latest period that was known
\* at its cutoff and recorded when it was built, and of one period the latest statement of it:
\* nothing that became known after the cutoff, although rows of any age arrive in any order.
SnapshotsAreOfTheirCutoff ==
    \A k \in 1..Len(snapshots) : \A s \in snapshots[k].members, c \in Criteria \ Valuations :
        \A i \in 1..snapshots[k].rows :
            material[i].stock = s /\ material[i].on = c /\ material[i].known <= snapshots[k].cutoff =>
                LET mine == snapshots[k].facts[s][c]
                IN  /\ mine # 0 /\ material[mine].known <= snapshots[k].cutoff
                    /\ \/ material[mine].period > material[i].period
                       \/ /\ material[mine].period = material[i].period
                          /\ material[mine].known >= material[i].known

\* Does an execution read no valuation?
ReadsStatements(x) ==
    /\ SortOf[x[2]].field \notin Valuations
    /\ \A i \in 1..Len(FiltersOf[x[2]]) : FiltersOf[x[2]][i].on \notin Valuations

\* Whatever has become known since, and however many workers have evaluated it: a succeeded
\* execution whose query reads no valuation shows what its snapshot's cutoff let it know.
StatementsArePointInTime ==
    /\ SnapshotsAreOfTheirCutoff
    /\ \A x \in Executions :
         executions[x].status = "succeeded" /\ ReadsStatements(x) => PointInTime(x)

\* docs/SCREENING_ENGINE.md:18-27, of every succeeded execution: source rows that became known
\* after the cutoff cannot enter the snapshot, which is immutable.
ResultsArePointInTime ==
    \A x \in Executions : executions[x].status = "succeeded" => PointInTime(x)

\* A pending execution that a user has been answered with has a message on its way, even if the
\* request that made it could not send one.
AnsweredIsQueued ==
    \A x \in answered : executions[x].status = "pending" =>
        x \in screenQueue \/ \E w \in Screeners : screener[w].at = "taken" /\ screener[w].on = x
=============================================================================
