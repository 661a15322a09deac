--------------------------- MODULE ScreeningProofs ---------------------------
(***************************************************************************)
(* What holds of screening for every number of stocks, criteria, queries,  *)
(* tasks and snapshots: a snapshot holds what was known at its cutoff, an  *)
(* execution that has succeeded shows it however many tasks evaluated it,  *)
(* and a pending one that a user was answered with has its message.        *)
(***************************************************************************)
EXTENDS Screening, FiniteSetTheorems, FunctionTheorems, SequenceTheorems, TLAPS

-----------------------------------------------------------------------------
(* Orders of finite sets *)

\* Who comes before s.
Ahead(S, R, s) == {t \in S : <<t, s>> \in R}

\* R puts S in a row.
IsRow(S, R) ==
    /\ \A s \in S : <<s, s>> \notin R
    /\ \A s, t \in S : s # t => <<s, t>> \in R \/ <<t, s>> \in R
    /\ \A s, t, u \in S : <<s, t>> \in R /\ <<t, u>> \in R => <<s, u>> \in R

\* In a row everybody has a place of his own, by the number of those before him.
LEMMA Places ==
    ASSUME NEW S, IsFiniteSet(S), NEW R, IsRow(S, R)
    PROVE  /\ Cardinality(S) \in Nat
           /\ \A s \in S : Cardinality(Ahead(S, R, s)) \in 0..(Cardinality(S) - 1)
           /\ \A s, t \in S :
                <<s, t>> \in R <=> Cardinality(Ahead(S, R, s)) < Cardinality(Ahead(S, R, t))
           /\ \A n \in 1..Cardinality(S) : \E s \in S : Cardinality(Ahead(S, R, s)) = n - 1
<1> DEFINE place(s) == Cardinality(Ahead(S, R, s))
           size == Cardinality(S)
<1>1. \A s \in S : IsFiniteSet(Ahead(S, R, s)) /\ place(s) \in Nat
  BY FS_Subset, FS_CardinalityType DEF Ahead
<1>2. size \in Nat
  BY FS_CardinalityType
<1>3. ASSUME NEW s \in S, NEW t \in S, <<s, t>> \in R PROVE place(s) < place(t)
  <2>1. Ahead(S, R, s) \cup {s} \subseteq Ahead(S, R, t) /\ s \notin Ahead(S, R, s)
    BY <1>3 DEF Ahead, IsRow
  <2>2. Cardinality(Ahead(S, R, s) \cup {s}) = place(s) + 1
    BY <1>1, <2>1, FS_AddElement
  <2>3. Cardinality(Ahead(S, R, s) \cup {s}) <= place(t)
    BY <1>1, <2>1, FS_Subset
  <2>4. QED
    BY <1>1, <2>2, <2>3
<1>4. ASSUME NEW s \in S PROVE place(s) < size
  <2>1. Ahead(S, R, s) \subseteq S \ {s}
    BY DEF Ahead, IsRow
  <2>2. IsFiniteSet(S \ {s}) /\ Cardinality(S \ {s}) = size - 1
    BY FS_RemoveElement
  <2>3. place(s) <= size - 1
    BY <2>1, <2>2, FS_Subset
  <2>4. QED
    BY <1>1, <1>2, <2>3
<1>5. ASSUME NEW s \in S, NEW t \in S PROVE <<s, t>> \in R <=> place(s) < place(t)
  <2>1. <<s, t>> \in R => place(s) < place(t)
    BY <1>3
  <2>2. <<t, s>> \in R => place(t) < place(s)
    BY <1>3
  <2>3. s = t \/ <<s, t>> \in R \/ <<t, s>> \in R
    BY DEF IsRow
  <2>4. place(s) \in Nat /\ place(t) \in Nat
    BY <1>1
  <2> HIDE DEF place
  <2>5. QED
    BY <2>1, <2>2, <2>3, <2>4
<1> DEFINE f == [s \in S |-> place(s) + 1]
<1>6. f \in [S -> 1..size] /\ \A s \in S : f[s] = place(s) + 1
  <2>1. \A s \in S : place(s) + 1 \in 1..size
    BY <1>1, <1>2, <1>4
  <2> HIDE DEF place, size
  <2>2. QED
    BY <2>1
<1>7. \A s, t \in S : f[s] = f[t] => s = t
  <2>1. ASSUME NEW s \in S, NEW t \in S, f[s] = f[t] PROVE s = t
    <3>1. f[s] = place(s) + 1 /\ f[t] = place(t) + 1
      BY <1>6
    <3>2. place(s) \in Nat /\ place(t) \in Nat
      BY <1>1
    <3>3. ~(place(s) < place(t)) /\ ~(place(t) < place(s))
      <4>1. place(s) + 1 = place(t) + 1
        BY <2>1, <3>1, Zenon
      <4> HIDE DEF place, f
      <4>2. QED
        BY <3>2, <4>1
    <3>4. <<s, t>> \notin R /\ <<t, s>> \notin R
      BY <1>5, <3>3
    <3>5. QED
      BY <3>4 DEF IsRow
  <2>2. QED
    BY <2>1
<1>8. f \in Injection(S, 1..size)
  <2> HIDE DEF f, place, size
  <2>1. QED
    BY <1>6, <1>7 DEF Injection, IsInjective
<1>9. IsFiniteSet(1..size) /\ Cardinality(1..size) = size
  <2>1. 1 \in Int /\ size \in Int
    BY <1>2
  <2>2. IsFiniteSet(1..size) /\ Cardinality(1..size) = IF 1 > size THEN 0 ELSE size - 1 + 1
    BY <2>1, FS_Interval, Zenon
  <2> HIDE DEF size
  <2>3. QED
    BY <1>2, <2>2
<1>10. f \in Surjection(S, 1..size)
  <2> HIDE DEF f, place
  <2>1. QED
    BY <1>8, <1>9, FS_Injection
<1>11. ASSUME NEW n \in 1..size PROVE \E s \in S : place(s) = n - 1
  <2>1. PICK s \in S : f[s] = n
    <3> HIDE DEF f, place, size
    <3>1. QED
      BY <1>10 DEF Surjection
  <2>2. place(s) \in Nat /\ place(s) + 1 = n
    BY <1>1, <1>6, <2>1
  <2>3. QED
    BY <2>2
<1>12. \A s \in S : place(s) \in 0..(size - 1)
  <2> HIDE DEF place, size
  <2>1. QED
    BY <1>1, <1>2, <1>4
<1>13. QED
  BY <1>2, <1>5, <1>11, <1>12

\* Somebody is the first of a row.
LEMMA SomebodyIsFirst ==
    ASSUME NEW S, IsFiniteSet(S), S # {}, NEW R, IsRow(S, R)
    PROVE  \E s \in S : \A t \in S \ {s} : <<s, t>> \in R
<1>1. Cardinality(S) \in Nat /\ Cardinality(S) # 0
  BY FS_CardinalityType, FS_EmptySet
<1>2. 1 \in 1..Cardinality(S)
  BY <1>1
<1>3. PICK s \in S : Cardinality(Ahead(S, R, s)) = 1 - 1
  BY <1>2, Places
<1>4. IsFiniteSet(Ahead(S, R, s))
  BY FS_Subset DEF Ahead
<1>5. Ahead(S, R, s) = {}
  BY <1>3, <1>4, FS_EmptySet
<1>6. QED
  BY <1>5 DEF Ahead, IsRow

-----------------------------------------------------------------------------
(* Types *)

EvidenceRows == [stock : Stocks, on : Criteria, period : Periods, known : Nat, value : Values]
Facts == [Stocks -> [Criteria -> Nat]]
Shots == [cutoff : Nat, members : SUBSET Stocks, facts : Facts, rows : Nat, was : Facts]
ExecutionRows == [status : {"absent", "pending", "running", "succeeded", "failed"}, lease : Nat,
                  results : Seq(Stocks), evaluated : Nat, unknown : Nat, excluded : Nat, count : Nat]
ScreenerRows == [at : {"idle", "taken", "claimed", "writing"}, on : Executions \cup {<<0, "">>},
                 outcome : ExecutionRows, cleared : Seq(Stocks)]

ScreeningTyped ==
    /\ minute \in Nat /\ listed \in SUBSET Stocks
    /\ material \in Seq(EvidenceRows)
    /\ snapshots \in Seq(Shots) /\ Len(snapshots) <= MaxSnapshots
    /\ executions \in [Executions -> ExecutionRows]
    /\ screenQueue \in SUBSET Executions /\ answered \in SUBSET Executions
    /\ screener \in [Screeners -> ScreenerRows]

-----------------------------------------------------------------------------
(* The evaluation of a query *)

\* The members of a snapshot that pass every filter of a query, by the values there were.
Passing(shot, q) ==
    {s \in shot.members :
        \A i \in 1..Len(FiltersOf[q]) :
            /\ shot.was[s][FiltersOf[q][i].on] # Unknown
            /\ Compare(shot.was[s][FiltersOf[q][i].on], FiltersOf[q][i].operator,
                       FiltersOf[q][i].value)}

\* What is shown of a query over a snapshot is as it should be.
Right(row, shot, q) ==
    /\ {row.results[n] : n \in 1..Len(row.results)} = Passing(shot, q)
    /\ Len(row.results) = Cardinality(Passing(shot, q)) /\ row.count = Len(row.results)
    /\ \A m, n \in 1..Len(row.results) :
         m < n /\ SortOf[q].field # "symbol" =>
            LET a == shot.was[row.results[m]][SortOf[q].field]
                b == shot.was[row.results[n]][SortOf[q].field]
            IN  \/ b = Unknown
                \/ a # Unknown /\ IF SortOf[q].descending THEN a >= b ELSE a <= b
    /\ row.count + row.unknown + row.excluded = Cardinality(shot.members)

\* The order of a query, between those that are found.
Order(q, values, found) == {p \in found \X found : Precedes(q, values, p[1], p[2])}

LEMMA QueryOrders ==
    ASSUME NEW q \in Queries, NEW values \in Facts, NEW found \in SUBSET Stocks
    PROVE  /\ IsRow(found, Order(q, values, found))
           /\ \A s \in found : Ahead(found, Order(q, values, found), s)
                                 = {t \in found : Precedes(q, values, t, s)}
<1> DEFINE field == SortOf[q].field
<1>1. \A s, t \in found : <<s, t>> \in Order(q, values, found) <=> Precedes(q, values, s, t)
  BY DEF Order
<1>2. /\ field \in Criteria \cup {"symbol"} /\ SortOf[q].descending \in BOOLEAN
      /\ \A s \in found : s \in Nat
  BY ScreeningAssumption
<1>3. CASE field = "symbol"
  <2>1. \A s, t \in found : Precedes(q, values, s, t) <=> IF SortOf[q].descending THEN s > t ELSE s < t
    BY <1>3 DEF Precedes
  <2>2. QED
    BY <1>1, <1>2, <2>1 DEF IsRow, Ahead
<1>4. CASE field # "symbol"
  <2>1. \A s \in found : values[s][field] \in Nat
    BY <1>2, <1>4 DEF Facts
  <2>2. \A s, t \in found : Precedes(q, values, s, t) <=>
          IF values[s][field] = Unknown \/ values[t][field] = Unknown
          THEN IF values[s][field] = values[t][field] THEN s < t ELSE values[t][field] = Unknown
          ELSE IF values[s][field] = values[t][field]
               THEN IF SortOf[q].descending THEN s > t ELSE s < t
               ELSE IF SortOf[q].descending THEN values[s][field] > values[t][field]
                                            ELSE values[s][field] < values[t][field]
    BY <1>4 DEF Precedes
  <2> HIDE DEF field
  <2>3. IsRow(found, Order(q, values, found))
    <3>1. \A s \in found : ~Precedes(q, values, s, s)
      BY <1>2, <2>1, <2>2
    <3>2. \A s, t \in found : s # t => Precedes(q, values, s, t) \/ Precedes(q, values, t, s)
      BY <1>2, <2>1, <2>2
    <3>3. ASSUME NEW s \in found, NEW t \in found, NEW u \in found,
                 Precedes(q, values, s, t), Precedes(q, values, t, u)
          PROVE  Precedes(q, values, s, u)
      BY <1>2, <2>1, <2>2, <3>3
    <3>4. QED
      BY <1>1, <3>1, <3>2, <3>3 DEF IsRow
  <2>4. QED
    BY <1>1, <2>3 DEF Ahead
<1>5. QED
  BY <1>3, <1>4

\* What is found is shown, each once and in the order of the query.
LEMMA ShownInOrder ==
    ASSUME NEW q \in Queries, NEW values \in Facts, NEW found \in SUBSET Stocks
    PROVE  LET shown == InOrder(q, values, found)
           IN  /\ Cardinality(found) \in Nat /\ shown \in Seq(Stocks)
               /\ Len(shown) = Cardinality(found)
               /\ {shown[n] : n \in 1..Len(shown)} = found
               /\ \A m, n \in 1..Len(shown) : m < n => Precedes(q, values, shown[m], shown[n])
<1> DEFINE R == Order(q, values, found)
           size == Cardinality(found)
           place(s) == Cardinality(Ahead(found, R, s))
           shown == InOrder(q, values, found)
<1>1. IsFiniteSet(found) /\ IsRow(found, R)
  BY ScreeningAssumption, FS_Subset, QueryOrders
<1>2. /\ size \in Nat
      /\ \A s \in found : place(s) \in 0..(size - 1)
      /\ \A s, t \in found : <<s, t>> \in R <=> place(s) < place(t)
      /\ \A n \in 1..size : \E s \in found : place(s) = n - 1
  BY <1>1, Places
<1>3. /\ shown = [n \in 1..size |->
                   CHOOSE s \in found : Cardinality({t \in found : Precedes(q, values, t, s)}) = n - 1]
      /\ \A n \in 1..size : shown[n] = CHOOSE s \in found : place(s) = n - 1
  <2>1. \A s \in found : {t \in found : Precedes(q, values, t, s)} = Ahead(found, R, s)
    BY QueryOrders
  <2>2. \A n \in 1..size : \A s \in found :
          (Cardinality({t \in found : Precedes(q, values, t, s)}) = n - 1) <=> (place(s) = n - 1)
    BY <2>1
  <2>3. \A n \in 1..size :
          (CHOOSE s \in found : Cardinality({t \in found : Precedes(q, values, t, s)}) = n - 1)
            = (CHOOSE s \in found : place(s) = n - 1)
    BY <2>2, Zenon
  <2>4. shown = [n \in 1..size |->
                   CHOOSE s \in found : Cardinality({t \in found : Precedes(q, values, t, s)}) = n - 1]
    BY DEF InOrder
  <2> HIDE DEF shown, size, place
  <2>5. \A n \in 1..size :
          shown[n] = CHOOSE s \in found : Cardinality({t \in found : Precedes(q, values, t, s)}) = n - 1
    BY <2>4, Zenon
  <2>6. QED
    BY <2>3, <2>4, <2>5, Zenon
<1>4. \A n \in 1..size : shown[n] \in found /\ place(shown[n]) = n - 1
  <2>1. ASSUME NEW n \in 1..size PROVE shown[n] \in found /\ place(shown[n]) = n - 1
    <3>1. shown[n] = CHOOSE s \in found : place(s) = n - 1
      BY <1>3, Zenon
    <3>2. QED
      BY <1>2, <3>1, Zenon
  <2>2. QED
    BY <2>1
<1> HIDE DEF shown
<1>5. shown \in Seq(Stocks) /\ Len(shown) = size
  <2>1. shown \in [1..size -> Stocks]
    BY <1>3, <1>4, Zenon
  <2> HIDE DEF size
  <2>2. QED
    BY <1>2, <2>1, SeqDef, IsASeq, LenProperties
<1>6. ASSUME NEW s \in found PROVE \E n \in 1..size : shown[n] = s
  <2>1. place(s) \in Nat /\ place(s) + 1 \in 1..size
    <3> HIDE DEF place, size
    <3>1. QED
      BY <1>2
  <2>2. shown[place(s) + 1] \in found /\ place(shown[place(s) + 1]) = place(s) + 1 - 1
    BY <1>4, <2>1
  <2>3. ~(place(s) < place(shown[place(s) + 1])) /\ ~(place(shown[place(s) + 1]) < place(s))
    <3> HIDE DEF place
    <3>1. QED
      BY <2>1, <2>2
  <2>4. <<s, shown[place(s) + 1]>> \notin R /\ <<shown[place(s) + 1], s>> \notin R
    BY <1>2, <2>2, <2>3
  <2>5. shown[place(s) + 1] = s
    BY <1>1, <2>2, <2>4 DEF IsRow
  <2>6. QED
    BY <2>1, <2>5
<1>7. {shown[n] : n \in 1..Len(shown)} = found
  BY <1>4, <1>5, <1>6
<1>8. ASSUME NEW m \in 1..Len(shown), NEW n \in 1..Len(shown), m < n
      PROVE  Precedes(q, values, shown[m], shown[n])
  <2>1. /\ shown[m] \in found /\ shown[n] \in found
        /\ place(shown[m]) = m - 1 /\ place(shown[n]) = n - 1
    BY <1>4, <1>5
  <2>2. place(shown[m]) < place(shown[n])
    <3> HIDE DEF place, size
    <3>1. m \in Nat /\ n \in Nat
      BY <1>2, <1>5
    <3>2. QED
      BY <1>8, <2>1, <3>1
  <2>3. <<shown[m], shown[n]>> \in R
    BY <1>2, <2>1, <2>2
  <2>4. QED
    BY <2>3 DEF Order
<1>9. QED
  BY <1>2, <1>5, <1>7, <1>8 DEF shown

\* A stock is matched when it passes every filter, and counts as one thing.
LEMMA Outcomes ==
    ASSUME NEW q \in Queries, NEW v
    PROVE  /\ Outcome(q, v) \in {"matched", "unknown", "excluded"}
           /\ Outcome(q, v) = "matched" <=>
                \A i \in 1..Len(FiltersOf[q]) : PassesFilter(v[FiltersOf[q][i].on], FiltersOf[q][i])
<1> DEFINE stops == {i \in 1..Len(FiltersOf[q]) : ~PassesFilter(v[FiltersOf[q][i].on], FiltersOf[q][i])}
           first == CHOOSE i \in stops : \A j \in stops : i <= j
<1>1. Outcome(q, v) = IF stops = {} THEN "matched"
                      ELSE IF v[FiltersOf[q][first].on] = Unknown THEN "unknown" ELSE "excluded"
  BY DEF Outcome
<1> HIDE DEF first
<1>2. stops = {} <=>
        \A i \in 1..Len(FiltersOf[q]) : PassesFilter(v[FiltersOf[q][i].on], FiltersOf[q][i])
  OBVIOUS
<1> HIDE DEF stops
<1>3. QED
  BY <1>1, <1>2

\* What a task writes is as it should be, if it has read the values that there were.
LEMMA EvaluatedIsRight ==
    ASSUME NEW q \in Queries, NEW shot \in Shots, NEW values \in Facts
    PROVE  LET row == Evaluated(q, shot.members, values)
           IN  /\ row \in ExecutionRows /\ row.status = "succeeded" /\ row.lease = 0
               /\ (/\ SortOf[q].field \notin Valuations
                   /\ \A i \in 1..Len(FiltersOf[q]) : FiltersOf[q][i].on \notin Valuations
                   /\ \A s \in shot.members, c \in Criteria \ Valuations :
                        values[s][c] = shot.was[s][c])
                  => Right(row, shot, q)
<1> DEFINE members == shot.members
           of(outcome) == {s \in members : Outcome(q, values[s]) = outcome}
           matched == of("matched")
           unknown == of("unknown")
           excluded == of("excluded")
           shown == InOrder(q, values, matched)
           row == Evaluated(q, members, values)
<1>1. members \in SUBSET Stocks /\ shot.was \in Facts
  BY DEF Shots
<1>2. \A outcome : of(outcome) \in SUBSET Stocks
  BY <1>1
<1>3. \A outcome : IsFiniteSet(of(outcome)) /\ Cardinality(of(outcome)) \in Nat
  BY <1>2, ScreeningAssumption, FS_Subset, FS_CardinalityType
<1>4. IsFiniteSet(members) /\ Cardinality(members) \in Nat
  BY <1>1, ScreeningAssumption, FS_Subset, FS_CardinalityType
<1>5. /\ shown \in Seq(Stocks) /\ Len(shown) = Cardinality(matched)
      /\ {shown[n] : n \in 1..Len(shown)} = matched
      /\ \A m, n \in 1..Len(shown) : m < n => Precedes(q, values, shown[m], shown[n])
  <2>1. matched \in SUBSET Stocks
    BY <1>2
  <2> HIDE DEF matched, of
  <2>2. QED
    BY <2>1, ShownInOrder
<1>6. /\ row.status = "succeeded" /\ row.lease = 0 /\ row.results = shown
      /\ row.count = Cardinality(matched) /\ row.unknown = Cardinality(unknown)
      /\ row.excluded = Cardinality(excluded) /\ row.evaluated = Cardinality(members)
      /\ row = [status |-> "succeeded", lease |-> 0, results |-> shown,
                evaluated |-> Cardinality(members), unknown |-> Cardinality(unknown),
                excluded |-> Cardinality(excluded), count |-> Cardinality(matched)]
  <2>1. row = [NoExecution EXCEPT !.status = "succeeded", !.results = shown,
                                  !.count = Cardinality(matched), !.unknown = Cardinality(unknown),
                                  !.excluded = Cardinality(excluded),
                                  !.evaluated = Cardinality(members)]
    BY DEF Evaluated
  <2> HIDE DEF row, shown, matched, unknown, excluded, of, members
  <2>2. QED
    BY <2>1 DEF NoExecution
<1>7. row \in ExecutionRows
  <2>1. /\ Cardinality(matched) \in Nat /\ Cardinality(unknown) \in Nat
        /\ Cardinality(excluded) \in Nat
    BY <1>3
  <2> HIDE DEF shown, matched, unknown, excluded, of, members, row
  <2>2. QED
    BY <1>4, <1>5, <1>6, <2>1 DEF ExecutionRows
<1>8. Cardinality(matched) + Cardinality(unknown) + Cardinality(excluded)
        = Cardinality(members)
  <2> DEFINE others == unknown \cup excluded
  <2>1. unknown \cap excluded = {} /\ matched \cap others = {} /\ matched \cup others = members
    <3>1. \A s \in members : Outcome(q, values[s]) \in {"matched", "unknown", "excluded"}
      BY Outcomes
    <3>2. QED
      BY <3>1
  <2>2. Cardinality({}) = 0
    BY FS_EmptySet
  <2>3. IsFiniteSet(unknown) /\ IsFiniteSet(excluded) /\ IsFiniteSet(matched)
    BY <1>3
  <2> HIDE DEF unknown, excluded, of, matched, members
  <2>4. IsFiniteSet(others) /\ Cardinality(others) = Cardinality(unknown) + Cardinality(excluded) - 0
    BY <2>1, <2>2, <2>3, FS_Union
  <2>5. Cardinality(matched \cup others) = Cardinality(matched) + Cardinality(others) - 0
    BY <2>1, <2>2, <2>3, <2>4, FS_Union
  <2>6. /\ Cardinality(unknown) \in Nat /\ Cardinality(excluded) \in Nat
        /\ Cardinality(matched) \in Nat /\ Cardinality(others) \in Nat
    BY <2>3, <2>4, FS_CardinalityType
  <2> HIDE DEF others
  <2>7. Cardinality(members) = Cardinality(matched) + Cardinality(others) - 0
    BY <2>1, <2>5, Zenon
  <2>8. QED
    BY <2>4, <2>6, <2>7
<1>9. ASSUME SortOf[q].field \notin Valuations,
             \A i \in 1..Len(FiltersOf[q]) : FiltersOf[q][i].on \notin Valuations,
             \A s \in members, c \in Criteria \ Valuations : values[s][c] = shot.was[s][c]
      PROVE  Right(row, shot, q)
  <2>1. \A i \in 1..Len(FiltersOf[q]) : FiltersOf[q][i].on \in Criteria \ Valuations
    <3>1. FiltersOf[q] \in Seq([on : Criteria, operator : {"gte", "lt"}, value : Nat])
      BY ScreeningAssumption
    <3>2. \A i \in 1..Len(FiltersOf[q]) :
            FiltersOf[q][i] \in [on : Criteria, operator : {"gte", "lt"}, value : Nat]
      BY <3>1, ElementOfSeq
    <3>3. QED
      BY <1>9, <3>2
  <2>2. matched = Passing(shot, q)
    <3>1. \A s \in members : Outcome(q, values[s]) = "matched" <=>
            \A i \in 1..Len(FiltersOf[q]) :
                PassesFilter(values[s][FiltersOf[q][i].on], FiltersOf[q][i])
      BY Outcomes
    <3>2. \A s \in members : \A i \in 1..Len(FiltersOf[q]) :
            values[s][FiltersOf[q][i].on] = shot.was[s][FiltersOf[q][i].on]
      BY <1>9, <2>1
    <3>3. QED
      BY <3>1, <3>2 DEF Passing, PassesFilter
  <2>3. ASSUME NEW m \in 1..Len(shown), NEW n \in 1..Len(shown), m < n, SortOf[q].field # "symbol"
        PROVE  LET a == shot.was[shown[m]][SortOf[q].field]
                   b == shot.was[shown[n]][SortOf[q].field]
               IN  \/ b = Unknown
                   \/ a # Unknown /\ IF SortOf[q].descending THEN a >= b ELSE a <= b
    <3> DEFINE field == SortOf[q].field
               a == values[shown[m]][field]
               b == values[shown[n]][field]
    <3>1. field \in Criteria \ Valuations /\ SortOf[q].descending \in BOOLEAN
      BY <1>9, <2>3, ScreeningAssumption
    <3>2. shown[m] \in members /\ shown[n] \in members
      BY <1>5
    <3>3. a = shot.was[shown[m]][field] /\ b = shot.was[shown[n]][field]
      BY <1>9, <3>1, <3>2
    <3>4. a \in Nat /\ b \in Nat
      BY <1>1, <3>1, <3>2 DEF Facts
    <3>5. IF a = Unknown \/ b = Unknown
          THEN IF a = b THEN shown[m] < shown[n] ELSE b = Unknown
          ELSE IF a = b THEN TRUE ELSE IF SortOf[q].descending THEN a > b ELSE a < b
      <4>1. Precedes(q, values, shown[m], shown[n])
        BY <1>5, <2>3
      <4> HIDE DEF shown
      <4>2. QED
        BY <2>3, <4>1 DEF Precedes
    <3> HIDE DEF a, b, shown, field
    <3>6. \/ b = Unknown
          \/ a # Unknown /\ IF SortOf[q].descending THEN a >= b ELSE a <= b
      BY <3>1, <3>4, <3>5
    <3>7. QED
      BY <3>3, <3>6 DEF field
  <2> HIDE DEF shown, matched, unknown, excluded, of, members, row
  <2>4. row.count + row.unknown + row.excluded = Cardinality(members)
    BY <1>6, <1>8
  <2>5. QED
    BY <1>5, <1>6, <2>2, <2>3, <2>4 DEF Right, members
<1> HIDE DEF row, shown, matched, unknown, excluded, of
<1>10. QED
  BY <1>6, <1>7, <1>9 DEF row

-----------------------------------------------------------------------------
(* The inductive invariant *)

\* What a snapshot refers to is there, and of a statement it is what the cutoff let it know.
Firm(shot) ==
    /\ shot.rows <= Len(material)
    /\ \A s \in Stocks, c \in Criteria :
         /\ shot.facts[s][c] = 0 => shot.was[s][c] = Unknown
         /\ shot.facts[s][c] # 0 =>
              /\ s \in shot.members /\ shot.facts[s][c] \in 1..shot.rows
              /\ material[shot.facts[s][c]].stock = s /\ material[shot.facts[s][c]].on = c
              /\ c \notin Valuations =>
                   /\ material[shot.facts[s][c]].known <= shot.cutoff
                   /\ shot.was[s][c] = material[shot.facts[s][c]].value
         /\ s \in shot.members /\ c \notin Valuations =>
              \A j \in 1..shot.rows :
                material[j].stock = s /\ material[j].on = c /\ material[j].known <= shot.cutoff =>
                    /\ shot.facts[s][c] # 0
                    /\ j = shot.facts[s][c] \/ RanksBefore(shot.facts[s][c], j)

SnapshotsAreFirm == \A k \in 1..Len(snapshots) : Firm(snapshots[k])

\* An execution is of a snapshot that is there, and has results only once it has succeeded.
ExecutionsAreSound ==
    \A x \in Executions :
        /\ executions[x].status # "absent" => x[1] \in 1..Len(snapshots)
        /\ executions[x].results # <<>> => executions[x].status \in {"succeeded", "failed"}
        /\ (executions[x].status = "succeeded" \/ executions[x].results # <<>>) /\ ReadsStatements(x)
             => Right(executions[x], snapshots[x[1]], x[2])
        /\ x \in screenQueue \cup answered => executions[x].status # "absent"

\* A task is for an execution that is there, and what it will write is as it should be.
ScreenersAreSound ==
    \A w \in Screeners : screener[w].at # "idle" =>
        /\ screener[w].on \in Executions /\ executions[screener[w].on].status # "absent"
        /\ screener[w].at = "writing" =>
             /\ screener[w].outcome.status = "succeeded"
             /\ ReadsStatements(screener[w].on)
                  => Right(screener[w].outcome, snapshots[screener[w].on[1]], screener[w].on[2])

ScreeningInv ==
    /\ ScreeningTyped /\ SnapshotsAreFirm /\ ExecutionsAreSound /\ ScreenersAreSound
    /\ AnsweredIsQueued

LEMMA NoExecutionIsTyped == NoExecution \in ExecutionRows /\ NoScreener \in ScreenerRows
<1>1. <<>> \in Seq(Stocks)
  OBVIOUS
<1>2. NoExecution \in ExecutionRows
  BY <1>1 DEF NoExecution, ExecutionRows
<1>3. QED
  BY <1>1, <1>2 DEF NoScreener, ScreenerRows

LEMMA ScreeningInitially == ScreeningInit => ScreeningInv
<1> SUFFICES ASSUME ScreeningInit PROVE ScreeningInv
  OBVIOUS
<1>1. Len(<<>>) = 0 /\ <<>> \in Seq(EvidenceRows) /\ <<>> \in Seq(Shots)
  OBVIOUS
<1>2. ScreeningTyped
  BY <1>1, NoExecutionIsTyped, ScreeningAssumption DEF ScreeningInit, ScreeningTyped
<1>3. SnapshotsAreFirm
  BY <1>1 DEF ScreeningInit, SnapshotsAreFirm
<1>4. ExecutionsAreSound
  BY DEF ScreeningInit, ExecutionsAreSound, NoExecution
<1>5. ScreenersAreSound /\ AnsweredIsQueued
  BY DEF ScreeningInit, ScreenersAreSound, AnsweredIsQueued, NoScreener
<1>6. QED
  BY <1>2, <1>3, <1>4, <1>5 DEF ScreeningInv

-----------------------------------------------------------------------------
(* Evidence and snapshots *)

\* Of the rows that are known one ranks first.
LEMMA SomeRowRanksFirst ==
    ASSUME ScreeningTyped, NEW found \in SUBSET (1..Len(material)), found # {}
    PROVE  First(found) \in found /\ \A j \in found \ {First(found)} : RanksBefore(First(found), j)
<1> DEFINE R == {p \in found \X found : p[1] # p[2] /\ RanksBefore(p[1], p[2])}
<1>1. Len(material) \in Nat /\ IsFiniteSet(1..Len(material))
  <2>1. Len(material) \in Nat
    BY LenProperties DEF ScreeningTyped
  <2>2. 1 \in Int /\ Len(material) \in Int
    BY <2>1
  <2>3. QED
    BY <2>1, <2>2, FS_Interval, Zenon
<1>2. IsFiniteSet(found)
  BY <1>1, FS_Subset
<1>3. \A i \in found : /\ i \in Nat /\ material[i].period \in Nat /\ material[i].known \in Nat
  <2>1. ASSUME NEW i \in found PROVE material[i] \in EvidenceRows
    BY ElementOfSeq DEF ScreeningTyped
  <2>2. \A i \in found : i \in Nat
    BY <1>1
  <2>3. Periods \subseteq Nat
    BY ScreeningAssumption
  <2>4. QED
    BY <2>1, <2>2, <2>3 DEF EvidenceRows
<1>4. IsRow(found, R)
  <2>1. \A i, j \in found : i # j => RanksBefore(i, j) \/ RanksBefore(j, i)
    BY <1>3 DEF RanksBefore, KnownLater
  <2>2. \A i, j, k \in found : i # j /\ j # k /\ RanksBefore(i, j) /\ RanksBefore(j, k)
          => i # k /\ RanksBefore(i, k)
    BY <1>3 DEF RanksBefore, KnownLater
  <2>3. QED
    BY <2>1, <2>2 DEF IsRow
<1>5. \E i \in found : \A j \in found \ {i} : RanksBefore(i, j)
  <2>1. PICK i \in found : \A j \in found \ {i} : <<i, j>> \in R
    BY ZenonT(40), <1>2, <1>4, SomebodyIsFirst
  <2>2. QED
    BY <2>1
<1>6. First(found) = CHOOSE i \in found : \A j \in found \ {i} : RanksBefore(i, j)
  BY DEF First
<1>7. QED
  BY <1>5, <1>6, Zenon

\* More evidence, and valuations that are observed again, leave the snapshots firm.
LEMMA EvidenceGrows ==
    ASSUME ScreeningInv, material' \in Seq(EvidenceRows), Len(material) <= Len(material'),
           \A i \in 1..Len(material) :
             /\ material'[i].stock = material[i].stock /\ material'[i].on = material[i].on
             /\ material[i].on \notin Valuations => material'[i] = material[i],
           UNCHANGED <<minute, listed, snapshots, executions, screenQueue, answered, screener>>
    PROVE  ScreeningInv'
<1>1. Len(material) \in Nat /\ Len(material') \in Nat
  BY LenProperties DEF ScreeningInv, ScreeningTyped
<1>2. ASSUME NEW k \in 1..Len(snapshots) PROVE Firm(snapshots[k])'
  <2> DEFINE shot == snapshots[k]
  <2>1. shot \in Shots /\ Firm(shot) /\ shot' = shot
    BY ElementOfSeq DEF ScreeningInv, ScreeningTyped, SnapshotsAreFirm
  <2>2. shot.rows \in Nat /\ shot.rows <= Len(material)
    BY <2>1 DEF Shots, Firm
  <2>3. \A i \in 1..shot.rows : i \in 1..Len(material)
    BY <1>1, <2>2
  <2> HIDE DEF shot
  <2>4. ASSUME NEW s \in Stocks, NEW c \in Criteria
        PROVE  /\ shot.facts[s][c] = 0 => shot.was[s][c] = Unknown
               /\ shot.facts[s][c] # 0 =>
                    /\ s \in shot.members /\ shot.facts[s][c] \in 1..shot.rows
                    /\ material'[shot.facts[s][c]].stock = s /\ material'[shot.facts[s][c]].on = c
                    /\ c \notin Valuations =>
                         /\ material'[shot.facts[s][c]].known <= shot.cutoff
                         /\ shot.was[s][c] = material'[shot.facts[s][c]].value
    BY <2>1, <2>3 DEF Firm
  <2>5. ASSUME NEW s \in Stocks, NEW c \in Criteria, s \in shot.members, c \notin Valuations,
               NEW j \in 1..shot.rows, material'[j].stock = s, material'[j].on = c,
               material'[j].known <= shot.cutoff
        PROVE  /\ shot.facts[s][c] # 0
               /\ j = shot.facts[s][c] \/ RanksBefore(shot.facts[s][c], j)'
    <3> DEFINE i == shot.facts[s][c]
    <3>1. material'[j] = material[j]
      BY <2>3, <2>5
    <3>2. i # 0 /\ (j = i \/ RanksBefore(i, j))
      BY <2>1, <2>5, <3>1 DEF Firm
    <3>3. i \in 1..Len(material) /\ material[i].on = c
      BY <2>1, <2>3, <3>2 DEF Firm
    <3>4. material'[i] = material[i]
      BY <2>5, <3>3
    <3> HIDE DEF i
    <3>5. (RanksBefore(i, j) => RanksBefore(i, j)') /\ i' = i
      BY <2>1, <3>1, <3>4 DEF RanksBefore, KnownLater, i
    <3>6. QED
      BY <2>1, <3>2, <3>5 DEF i
  <2>6. shot.rows <= Len(material')
    BY <1>1, <2>2
  <2>7. QED
    BY <2>1, <2>4, <2>5, <2>6 DEF Firm, shot
<1>3. ScreeningTyped' /\ SnapshotsAreFirm'
  BY <1>2 DEF ScreeningInv, ScreeningTyped, SnapshotsAreFirm
<1>4. ExecutionsAreSound'
  BY DEF ScreeningInv, ExecutionsAreSound, ReadsStatements
<1>5. ScreenersAreSound'
  BY DEF ScreeningInv, ScreenersAreSound, ReadsStatements
<1>6. AnsweredIsQueued'
  BY DEF ScreeningInv, AnsweredIsQueued
<1>7. QED
  BY <1>3, <1>4, <1>5, <1>6 DEF ScreeningInv

LEMMA EvidenceKeeps ==
    ASSUME ScreeningInv,
           \/ \E s \in Stocks, c \in Criteria, period \in Periods, v \in Values, known \in 0..(minute + 1) :
                AddEvidence(s, c, period, v, known)
           \/ \E i \in 1..Len(material), v \in Values : ObserveAgain(i, v)
    PROVE  ScreeningInv'
<1>1. material \in Seq(EvidenceRows) /\ Len(material) \in Nat /\ minute \in Nat
  BY LenProperties DEF ScreeningInv, ScreeningTyped
<1>2. ASSUME NEW s \in Stocks, NEW c \in Criteria, NEW period \in Periods, NEW v \in Values,
             NEW known \in 0..(minute + 1), AddEvidence(s, c, period, v, known)
      PROVE  ScreeningInv'
  <2> DEFINE row == [stock |-> s, on |-> c, period |-> period, known |-> known, value |-> v]
  <2>1. row \in EvidenceRows
    BY <1>1 DEF EvidenceRows
  <2>2. material' = Append(material, row)
    BY <1>2 DEF AddEvidence
  <2> HIDE DEF row
  <2>3. /\ material' \in Seq(EvidenceRows) /\ Len(material') = Len(material) + 1
        /\ \A i \in 1..Len(material) : material'[i] = material[i]
    BY <1>1, <2>1, <2>2, AppendProperties
  <2>4. Len(material) <= Len(material')
    BY <1>1, <2>3
  <2>5. UNCHANGED <<minute, listed, snapshots, executions, screenQueue, answered, screener>>
    BY <1>2 DEF AddEvidence
  <2>6. QED
    BY <2>3, <2>4, <2>5, EvidenceGrows
<1>3. ASSUME NEW i \in 1..Len(material), NEW v \in Values, ObserveAgain(i, v)
      PROVE  ScreeningInv'
  <2> DEFINE row == [material[i] EXCEPT !.value = v, !.known = minute + 1]
  <2>1. material[i] \in EvidenceRows /\ minute + 1 \in Nat
    BY <1>1, ElementOfSeq
  <2>2. row \in EvidenceRows /\ row.stock = material[i].stock /\ row.on = material[i].on
    BY <2>1 DEF EvidenceRows
  <2>3. material' = [material EXCEPT ![i] = row] /\ material[i].on \in Valuations
    BY <1>3 DEF ObserveAgain
  <2> HIDE DEF row
  <2>4. /\ material' \in Seq(EvidenceRows) /\ Len(material') = Len(material)
        /\ \A j \in 1..Len(material) : material'[j] = IF j = i THEN row ELSE material[j]
    BY <1>1, <2>2, <2>3, ExceptSeq
  <2>5. Len(material) <= Len(material')
    BY <1>1, <2>4
  <2>6. \A j \in 1..Len(material) :
          /\ material'[j].stock = material[j].stock /\ material'[j].on = material[j].on
          /\ material[j].on \notin Valuations => material'[j] = material[j]
    BY <2>2, <2>3, <2>4
  <2>7. UNCHANGED <<minute, listed, snapshots, executions, screenQueue, answered, screener>>
    BY <1>3 DEF ObserveAgain
  <2>8. QED
    BY <2>4, <2>5, <2>6, <2>7, EvidenceGrows
<1>4. QED
  BY <1>2, <1>3

\* A snapshot that is built is firm, and so are those before it.
LEMMA BuildKeeps ==
    ASSUME ScreeningInv, NEW cutoff \in 0..minute, BuildSnapshot(cutoff)
    PROVE  ScreeningInv'
<1> DEFINE facts == [s \in Stocks |-> [c \in Criteria |->
                       IF s \in listed THEN Ranked(s, c, cutoff) ELSE 0]]
           was == [s \in Stocks |-> [c \in Criteria |->
                     IF facts[s][c] = 0 THEN Unknown ELSE material[facts[s][c]].value]]
           shot == [cutoff |-> cutoff, members |-> listed, facts |-> facts, rows |-> Len(material),
                    was |-> was]
           found(s, c) == {i \in 1..Len(material) : /\ material[i].stock = s /\ material[i].on = c
                                                    /\ material[i].known <= cutoff}
<1>1. /\ material \in Seq(EvidenceRows) /\ Len(material) \in Nat /\ minute \in Nat
      /\ listed \in SUBSET Stocks /\ cutoff \in Nat
      /\ snapshots \in Seq(Shots) /\ Len(snapshots) \in Nat
  BY LenProperties DEF ScreeningInv, ScreeningTyped
<1>2. /\ snapshots' = Append(snapshots, shot) /\ Len(snapshots) < MaxSnapshots
      /\ UNCHANGED <<minute, listed, material, executions, screenQueue, answered, screener>>
  BY DEF BuildSnapshot
<1>3. ASSUME NEW s \in Stocks, NEW c \in Criteria
      PROVE  /\ facts[s][c] \in Nat
             /\ facts[s][c] = 0 => s \notin listed \/ found(s, c) = {}
             /\ facts[s][c] # 0 =>
                  /\ s \in listed /\ facts[s][c] \in found(s, c) /\ facts[s][c] \in 1..Len(material)
                  /\ \A j \in found(s, c) \ {facts[s][c]} : RanksBefore(facts[s][c], j)
  <2>1. facts[s][c] = IF s \in listed THEN First(found(s, c)) ELSE 0
    BY DEF Ranked
  <2> HIDE DEF facts
  <2>2. CASE s \in listed /\ found(s, c) # {}
    <3>1. found(s, c) \in SUBSET (1..Len(material))
      OBVIOUS
    <3> HIDE DEF found
    <3>2. /\ First(found(s, c)) \in found(s, c)
          /\ \A j \in found(s, c) \ {First(found(s, c))} : RanksBefore(First(found(s, c)), j)
      BY <2>2, <3>1, SomeRowRanksFirst DEF ScreeningInv
    <3>3. facts[s][c] = First(found(s, c)) /\ facts[s][c] \in 1..Len(material)
      BY <2>1, <2>2, <3>1, <3>2
    <3>4. facts[s][c] \in Nat /\ facts[s][c] # 0
      BY <1>1, <3>3
    <3>5. QED
      BY <2>2, <3>2, <3>3, <3>4
  <2>3. CASE s \notin listed
    BY <2>1, <2>3
  <2>4. CASE found(s, c) = {}
    BY <2>1, <2>4 DEF First
  <2>5. QED
    BY <2>2, <2>3, <2>4
<1>4. facts \in Facts
  BY <1>3 DEF Facts
<1>5. \A s \in Stocks, c \in Criteria :
        was[s][c] = IF facts[s][c] = 0 THEN Unknown ELSE material[facts[s][c]].value
  <2> HIDE DEF facts
  <2>1. QED
    OBVIOUS
<1> HIDE DEF facts
<1>6. was \in Facts
  <2>1. ASSUME NEW s \in Stocks, NEW c \in Criteria PROVE was[s][c] \in Nat
    <3>1. CASE facts[s][c] = 0
      BY <1>5, <3>1 DEF Unknown
    <3>2. CASE facts[s][c] # 0
      <4>1. material[facts[s][c]] \in EvidenceRows
        BY <1>1, <1>3, <3>2, ElementOfSeq
      <4>2. QED
        BY <1>5, <3>2, <4>1, ScreeningAssumption DEF EvidenceRows
    <3>3. QED
      BY <3>1, <3>2
  <2>2. QED
    BY <2>1 DEF Facts
<1> HIDE DEF was
<1>7. /\ shot \in Shots /\ shot.cutoff = cutoff /\ shot.members = listed /\ shot.facts = facts
      /\ shot.rows = Len(material) /\ shot.was = was
  BY <1>1, <1>4, <1>6 DEF Shots
<1> HIDE DEF shot
<1>8. Firm(shot)
  <2>1. \A s \in Stocks, c \in Criteria : facts[s][c] = 0 => was[s][c] = Unknown
    BY <1>5
  <2>2. \A s \in Stocks, c \in Criteria : facts[s][c] # 0 =>
          /\ s \in listed /\ facts[s][c] \in 1..Len(material)
          /\ material[facts[s][c]].stock = s /\ material[facts[s][c]].on = c
          /\ material[facts[s][c]].known <= cutoff
          /\ was[s][c] = material[facts[s][c]].value
    BY <1>3, <1>5
  <2>3. \A s \in Stocks, c \in Criteria : \A j \in 1..Len(material) :
          s \in listed /\ material[j].stock = s /\ material[j].on = c /\ material[j].known <= cutoff
            => facts[s][c] # 0 /\ (j = facts[s][c] \/ RanksBefore(facts[s][c], j))
    <3>1. \A s \in Stocks, c \in Criteria : \A j \in 1..Len(material) :
            material[j].stock = s /\ material[j].on = c /\ material[j].known <= cutoff
              => j \in found(s, c)
      OBVIOUS
    <3> HIDE DEF found
    <3>2. QED
      BY <1>3, <3>1
  <2>4. Len(material) <= Len(material)
    BY <1>1
  <2>5. QED
    BY <1>7, <2>1, <2>2, <2>3, <2>4 DEF Firm
<1>9. /\ snapshots' \in Seq(Shots) /\ Len(snapshots') = Len(snapshots) + 1
      /\ \A k \in 1..Len(snapshots) : snapshots'[k] = snapshots[k]
      /\ snapshots'[Len(snapshots) + 1] = shot
  BY <1>1, <1>2, <1>7, AppendProperties
<1>10. /\ Len(snapshots') <= MaxSnapshots
       /\ \A k \in 1..Len(snapshots') : k \in 1..Len(snapshots) \/ k = Len(snapshots) + 1
       /\ \A k \in 1..Len(snapshots) : k \in 1..Len(snapshots')
  BY <1>1, <1>2, <1>9, ScreeningAssumption
<1>11. ScreeningTyped'
  BY <1>2, <1>9, <1>10 DEF ScreeningInv, ScreeningTyped
<1>12. SnapshotsAreFirm'
  <2>1. \A k \in 1..Len(snapshots') : Firm(snapshots'[k])
    BY <1>8, <1>9, <1>10 DEF ScreeningInv, SnapshotsAreFirm
  <2>2. \A k \in 1..Len(snapshots') : Firm(snapshots'[k]) <=> Firm(snapshots[k])'
    BY <1>2 DEF Firm, RanksBefore, KnownLater
  <2>3. QED
    BY <2>1, <2>2 DEF SnapshotsAreFirm
<1>13. ExecutionsAreSound'
  BY <1>2, <1>9, <1>10 DEF ScreeningInv, ExecutionsAreSound, ReadsStatements
<1>14. ScreenersAreSound'
  <2>1. \A w \in Screeners : screener[w].at # "idle" =>
          /\ screener[w].on \in Executions /\ screener[w].on[1] \in 1..Len(snapshots)
    BY DEF ScreeningInv, ExecutionsAreSound, ScreenersAreSound
  <2>2. QED
    BY <1>2, <1>9, <2>1 DEF ScreeningInv, ScreenersAreSound, ReadsStatements
<1>15. AnsweredIsQueued'
  BY <1>2 DEF ScreeningInv, AnsweredIsQueued
<1>16. QED
  BY <1>11, <1>12, <1>13, <1>14, <1>15 DEF ScreeningInv

-----------------------------------------------------------------------------
(* Requests and tasks *)

\* Of the snapshots one is the latest.
LEMMA SomeSnapshotIsLatest ==
    ASSUME ScreeningTyped, snapshots # <<>>
    PROVE  LatestSnapshot \in 1..Len(snapshots)
<1> DEFINE ids == 1..Len(snapshots)
           later(k, j) == \/ snapshots[k].cutoff > snapshots[j].cutoff
                          \/ snapshots[k].cutoff = snapshots[j].cutoff /\ k > j
           R == {p \in ids \X ids : later(p[1], p[2])}
<1>1. snapshots \in Seq(Shots) /\ Len(snapshots) \in Nat /\ Len(snapshots) # 0
  BY LenProperties, EmptySeq DEF ScreeningTyped
<1>2. IsFiniteSet(ids) /\ ids # {}
  <2>1. 1 \in Int /\ Len(snapshots) \in Int
    BY <1>1
  <2>2. IsFiniteSet(ids)
    BY <2>1, FS_Interval, Zenon
  <2>3. 1 \in ids
    BY <1>1
  <2>4. QED
    BY <2>2, <2>3
<1>3. \A k \in ids : k \in Nat /\ snapshots[k].cutoff \in Nat
  <2>1. ASSUME NEW k \in ids PROVE snapshots[k] \in Shots
    BY <1>1, ElementOfSeq
  <2>2. QED
    BY <1>1, <2>1 DEF Shots
<1> HIDE DEF ids
<1>4. IsRow(ids, R)
  <2>1. /\ \A k \in ids : ~later(k, k)
        /\ \A k, j \in ids : k # j => later(k, j) \/ later(j, k)
        /\ \A k, j, i \in ids : later(k, j) /\ later(j, i) => later(k, i)
    BY <1>3
  <2> HIDE DEF later
  <2>2. QED
    BY <2>1 DEF IsRow
<1>5. PICK k \in ids : \A j \in ids \ {k} : <<k, j>> \in R
  BY <1>2, <1>4, SomebodyIsFirst
<1>6. \A j \in ids \ {k} : later(k, j)
  BY <1>5
<1>7. LatestSnapshot = CHOOSE i \in ids : \A j \in ids \ {i} : later(i, j)
  BY DEF LatestSnapshot, ids
<1> HIDE DEF later
<1>8. LatestSnapshot \in ids
  BY <1>6, <1>7, Zenon
<1>9. QED
  BY <1>8 DEF ids

\* Where evidence and snapshots stay, snapshots stay firm.
LEMMA FirmStays ==
    ASSUME SnapshotsAreFirm, UNCHANGED <<material, snapshots>> PROVE SnapshotsAreFirm'
BY DEF SnapshotsAreFirm, Firm, RanksBefore, KnownLater

LEMMA RequestKeeps ==
    ASSUME ScreeningInv, NEW q \in Queries, Request(q)
    PROVE  ScreeningInv'
<1> DEFINE x == <<LatestSnapshot, q>>
<1>1. /\ snapshots # <<>>
      /\ executions' = IF executions[x].status = "absent"
                       THEN [executions EXCEPT ![x].status = "pending",
                                               ![x].lease = minute + ScreenLease]
                       ELSE executions
      /\ \/ /\ screenQueue' = IF Enqueued(x) THEN screenQueue \cup {x} ELSE screenQueue
            /\ answered' = answered \cup {x}
         \/ Enqueued(x) /\ UNCHANGED <<screenQueue, answered>>
      /\ UNCHANGED <<minute, listed, material, snapshots, screener>>
  BY DEF Request
<1>2. x \in Executions /\ LatestSnapshot \in 1..Len(snapshots)
  <2>1. LatestSnapshot \in 1..Len(snapshots)
    BY <1>1, SomeSnapshotIsLatest DEF ScreeningInv
  <2>2. Len(snapshots) \in Nat /\ Len(snapshots) <= MaxSnapshots /\ MaxSnapshots \in Nat
    BY LenProperties, ScreeningAssumption DEF ScreeningInv, ScreeningTyped
  <2>3. LatestSnapshot \in 1..MaxSnapshots
    BY <2>1, <2>2
  <2>4. QED
    BY <2>1, <2>3 DEF Executions
<1> HIDE DEF x
<1>3. executions \in [Executions -> ExecutionRows] /\ minute + ScreenLease \in Nat
  BY ScreeningAssumption DEF ScreeningInv, ScreeningTyped
<1>4. /\ executions' \in [Executions -> ExecutionRows]
      /\ executions'[x].status # "absent"
      /\ \A y \in Executions : /\ y # x => executions'[y] = executions[y]
                               /\ executions'[y].results = executions[y].results
                               /\ executions[y].status # "absent" => executions'[y] = executions[y]
                               /\ executions[y].status = "absent" /\ y = x =>
                                    executions'[y].status = "pending"
  <2>1. CASE executions[x].status = "absent"
    <3>1. executions' = [executions EXCEPT ![x] = [executions[x] EXCEPT !.status = "pending",
                                                     !.lease = minute + ScreenLease]]
      BY <1>1, <2>1
    <3> DEFINE row == [executions[x] EXCEPT !.status = "pending", !.lease = minute + ScreenLease]
    <3>2. row \in ExecutionRows /\ row.status = "pending" /\ row.results = executions[x].results
      BY <1>2, <1>3 DEF ExecutionRows
    <3> HIDE DEF row
    <3>3. QED
      BY <1>2, <1>3, <2>1, <3>1, <3>2 DEF row
  <2>2. CASE executions[x].status # "absent"
    BY <1>1, <1>3, <2>2
  <2>3. QED
    BY <2>1, <2>2
<1>5. ScreeningTyped'
  BY <1>1, <1>2, <1>4 DEF ScreeningInv, ScreeningTyped
<1>6. SnapshotsAreFirm'
  BY <1>1, FirmStays DEF ScreeningInv
<1>7. ExecutionsAreSound'
  <2>1. ASSUME NEW y \in Executions, executions[y].status # "absent" \/ y # x
        PROVE  /\ executions'[y] = executions[y]
               /\ y \in screenQueue' \cup answered' => y = x \/ y \in screenQueue \cup answered
    BY <1>1, <1>4, <2>1
  <2>2. ASSUME executions[x].status = "absent"
        PROVE  executions'[x].status = "pending" /\ executions'[x].results = <<>>
    BY <1>2, <1>4, <2>2 DEF ScreeningInv, ExecutionsAreSound
  <2>3. x[1] \in 1..Len(snapshots)
    BY <1>2 DEF x
  <2>4. QED
    BY <1>1, <1>4, <2>1, <2>2, <2>3 DEF ScreeningInv, ExecutionsAreSound, ReadsStatements
<1>8. ScreenersAreSound'
  BY <1>1, <1>4 DEF ScreeningInv, ScreenersAreSound, ReadsStatements
<1>9. AnsweredIsQueued'
  <2>1. ASSUME NEW y \in answered', executions'[y].status = "pending", y # x
        PROVE  y \in screenQueue' \/ \E w \in Screeners : screener'[w].at = "taken" /\ screener'[w].on = y
    <3>1. y \in answered /\ y \in Executions
      BY <1>1, <2>1 DEF ScreeningInv, ScreeningTyped
    <3>2. executions[y].status = "pending"
      BY <1>4, <2>1, <3>1
    <3>3. QED
      BY <1>1, <3>1, <3>2 DEF ScreeningInv, AnsweredIsQueued
  <2>2. ASSUME x \in answered', executions'[x].status = "pending"
        PROVE  x \in screenQueue' \/ \E w \in Screeners : screener'[w].at = "taken" /\ screener'[w].on = x
    <3>1. CASE x \in answered
      <4>1. executions[x].status = "pending"
        BY <1>2, <1>4, <2>2, <3>1 DEF ScreeningInv, ExecutionsAreSound
      <4>2. QED
        BY <1>1, <3>1, <4>1 DEF ScreeningInv, AnsweredIsQueued
    <3>2. CASE x \notin answered
      <4>1. screenQueue' = IF Enqueued(x) THEN screenQueue \cup {x} ELSE screenQueue
        BY <1>1, <2>2, <3>2
      <4>2. Enqueued(x)
        BY <1>2, <1>4, <2>2 DEF Enqueued
      <4>3. QED
        BY <4>1, <4>2
    <3>3. QED
      BY <3>1, <3>2
  <2>3. QED
    BY <2>1, <2>2 DEF AnsweredIsQueued
<1>10. QED
  BY <1>5, <1>6, <1>7, <1>8, <1>9 DEF ScreeningInv

LEMMA TakeKeeps ==
    ASSUME ScreeningInv, NEW w \in Screeners, NEW x \in screenQueue, Take(w, x)
    PROVE  ScreeningInv'
<1> DEFINE row == [NoScreener EXCEPT !.at = "taken", !.on = x]
<1>1. /\ screenQueue' = screenQueue \ {x} /\ screener' = [screener EXCEPT ![w] = row]
      /\ screener[w].at = "idle"
      /\ UNCHANGED <<minute, listed, material, snapshots, executions, answered>>
  BY DEF Take
<1>2. x \in Executions /\ executions[x].status # "absent" /\ screener \in [Screeners -> ScreenerRows]
  BY DEF ScreeningInv, ScreeningTyped, ExecutionsAreSound
<1>3. row \in ScreenerRows /\ row.at = "taken" /\ row.on = x
  BY <1>2, NoExecutionIsTyped DEF ScreenerRows, NoScreener
<1> HIDE DEF row
<1>4. screener' \in [Screeners -> ScreenerRows]
      /\ \A v \in Screeners : screener'[v] = IF v = w THEN row ELSE screener[v]
  BY <1>1, <1>2, <1>3
<1>5. ScreeningTyped'
  BY <1>1, <1>4 DEF ScreeningInv, ScreeningTyped
<1>6. SnapshotsAreFirm'
  BY <1>1, FirmStays DEF ScreeningInv
<1>7. ExecutionsAreSound'
  BY <1>1 DEF ScreeningInv, ExecutionsAreSound, ReadsStatements
<1>8. ScreenersAreSound'
  BY <1>1, <1>2, <1>3, <1>4 DEF ScreeningInv, ScreenersAreSound, ReadsStatements
<1>9. AnsweredIsQueued'
  BY <1>1, <1>3, <1>4 DEF ScreeningInv, AnsweredIsQueued
<1>10. QED
  BY <1>5, <1>6, <1>7, <1>8, <1>9 DEF ScreeningInv

LEMMA ScreenClaimKeeps ==
    ASSUME ScreeningInv, NEW w \in Screeners, ClaimExecution(w)
    PROVE  ScreeningInv'
<1> DEFINE x == screener[w].on
<1>1. /\ screener[w].at = "taken"
      /\ \/ /\ MayClaim(x)
            /\ executions' = [executions EXCEPT ![x].status = "running",
                                                ![x].lease = minute + ScreenLease]
            /\ screener' = [screener EXCEPT ![w].at = "claimed"]
         \/ /\ ~MayClaim(x) /\ screener' = [screener EXCEPT ![w] = NoScreener]
            /\ UNCHANGED executions
      /\ UNCHANGED <<minute, listed, material, snapshots, screenQueue, answered>>
  BY DEF ClaimExecution
<1>2. /\ x \in Executions /\ executions[x].status # "absent"
      /\ screener \in [Screeners -> ScreenerRows] /\ executions \in [Executions -> ExecutionRows]
      /\ minute + ScreenLease \in Nat
  BY <1>1, ScreeningAssumption DEF ScreeningInv, ScreeningTyped, ScreenersAreSound
<1> HIDE DEF x
<1>3. SnapshotsAreFirm'
  BY <1>1, FirmStays DEF ScreeningInv
<1>4. CASE MayClaim(x)
  <2> DEFINE row == [executions[x] EXCEPT !.status = "running", !.lease = minute + ScreenLease]
             task == [screener[w] EXCEPT !.at = "claimed"]
  <2>1. /\ executions' = [executions EXCEPT ![x] = row]
        /\ screener' = [screener EXCEPT ![w] = task]
    BY <1>1, <1>4
  <2>2. /\ row \in ExecutionRows /\ row.status = "running" /\ row.results = executions[x].results
        /\ task \in ScreenerRows /\ task.at = "claimed" /\ task.on = x
    BY ZenonT(40), <1>2 DEF ExecutionRows, ScreenerRows, x
  <2> HIDE DEF row, task
  <2>3. /\ executions' \in [Executions -> ExecutionRows] /\ screener' \in [Screeners -> ScreenerRows]
        /\ \A y \in Executions : executions'[y] = IF y = x THEN row ELSE executions[y]
        /\ \A v \in Screeners : screener'[v] = IF v = w THEN task ELSE screener[v]
    BY <1>2, <2>1, <2>2
  <2>4. ScreeningTyped'
    BY <1>1, <2>3 DEF ScreeningInv, ScreeningTyped
  <2>5. executions[x].results = <<>>
    BY <1>2, <1>4 DEF MayClaim, ScreeningInv, ExecutionsAreSound
  <2>6. ExecutionsAreSound'
    BY <1>1, <1>2, <2>2, <2>3, <2>5 DEF ScreeningInv, ExecutionsAreSound, ReadsStatements
  <2>7. ScreenersAreSound'
    BY <1>1, <1>2, <2>2, <2>3 DEF ScreeningInv, ScreenersAreSound, ReadsStatements
  <2>8. AnsweredIsQueued'
    <3>1. ASSUME NEW y \in answered', executions'[y].status = "pending"
          PROVE  y \in screenQueue' \/ \E v \in Screeners : screener'[v].at = "taken" /\ screener'[v].on = y
      <4>1. y \in answered /\ y \in Executions
        BY <1>1, <3>1 DEF ScreeningInv, ScreeningTyped
      <4>2. y # x /\ executions[y].status = "pending"
        BY <2>2, <2>3, <3>1, <4>1
      <4>3. CASE y \in screenQueue
        BY <1>1, <4>3
      <4>4. ASSUME NEW v \in Screeners, screener[v].at = "taken", screener[v].on = y
            PROVE  \E u \in Screeners : screener'[u].at = "taken" /\ screener'[u].on = y
        BY <2>3, <4>2, <4>4 DEF x
      <4>5. QED
        BY <4>1, <4>2, <4>3, <4>4 DEF ScreeningInv, AnsweredIsQueued
    <3>2. QED
      BY <3>1 DEF AnsweredIsQueued
  <2>9. QED
    BY <1>3, <2>4, <2>6, <2>7, <2>8 DEF ScreeningInv
<1>5. CASE ~MayClaim(x)
  <2>1. screener' = [screener EXCEPT ![w] = NoScreener] /\ executions' = executions
    BY <1>1, <1>5
  <2>2. /\ screener' \in [Screeners -> ScreenerRows]
        /\ \A v \in Screeners : screener'[v] = IF v = w THEN NoScreener ELSE screener[v]
    BY <1>2, <2>1, NoExecutionIsTyped
  <2>3. ScreeningTyped'
    BY <1>1, <2>1, <2>2 DEF ScreeningInv, ScreeningTyped
  <2>4. ExecutionsAreSound'
    BY <1>1, <2>1 DEF ScreeningInv, ExecutionsAreSound, ReadsStatements
  <2>5. NoScreener.at = "idle"
    BY DEF NoScreener
  <2>6. ScreenersAreSound'
    BY <1>1, <2>1, <2>2, <2>5 DEF ScreeningInv, ScreenersAreSound, ReadsStatements
  <2>7. AnsweredIsQueued'
    <3>1. executions[x].status # "pending"
      BY <1>5 DEF MayClaim
    <3>2. QED
      BY <1>1, <2>1, <2>2, <3>1 DEF ScreeningInv, AnsweredIsQueued, x
  <2>8. QED
    BY <1>3, <2>3, <2>4, <2>6, <2>7 DEF ScreeningInv
<1>6. QED
  BY <1>4, <1>5

LEMMA EvaluateKeeps ==
    ASSUME ScreeningInv, NEW w \in Screeners, EvaluateScreen(w)
    PROVE  ScreeningInv'
<1> DEFINE x == screener[w].on
           shot == snapshots[x[1]]
           facts == shot.facts
           values == [s \in Stocks |-> [c \in Criteria |-> ValueOf(x[1], s, c)]]
           outcome == Evaluated(x[2], shot.members, values)
           task == [screener[w] EXCEPT !.at = "writing", !.outcome = outcome,
                                       !.cleared = executions[x].results]
<1>1. /\ screener[w].at = "claimed" /\ screener' = [screener EXCEPT ![w] = task]
      /\ UNCHANGED <<minute, listed, material, snapshots, executions, screenQueue, answered>>
  BY ZenonT(40) DEF EvaluateScreen
<1>2. /\ x \in Executions /\ executions[x].status # "absent" /\ x[1] \in 1..Len(snapshots)
      /\ screener \in [Screeners -> ScreenerRows] /\ executions \in [Executions -> ExecutionRows]
      /\ material \in Seq(EvidenceRows) /\ snapshots \in Seq(Shots) /\ Len(material) \in Nat
  BY <1>1, LenProperties DEF ScreeningInv, ScreeningTyped, ScreenersAreSound, ExecutionsAreSound
<1>3. /\ shot \in Shots /\ Firm(shot) /\ x[2] \in Queries
      /\ shot.rows \in Nat /\ shot.rows <= Len(material)
  <2>1. shot \in Shots
    BY <1>2, ElementOfSeq
  <2>2. Firm(shot)
    BY <1>2 DEF ScreeningInv, SnapshotsAreFirm
  <2>3. x[2] \in Queries
    BY <1>2 DEF Executions
  <2> HIDE DEF shot
  <2>4. QED
    BY <2>1, <2>2, <2>3 DEF Firm, Shots
<1>4. ASSUME NEW s \in Stocks, NEW c \in Criteria
      PROVE  /\ values[s][c] \in Nat
             /\ c \notin Valuations => values[s][c] = shot.was[s][c]
  <2>3. values[s][c] = IF facts[s][c] = 0 THEN Unknown ELSE material[facts[s][c]].value
    BY DEF ValueOf
  <2> HIDE DEF shot, values
  <2>1. CASE facts[s][c] = 0
    BY <1>3, <2>1, <2>3 DEF Firm, Unknown
  <2>2. CASE facts[s][c] # 0
    <3>1. values[s][c] = material[facts[s][c]].value
      BY <2>2, <2>3
    <3>2. facts[s][c] \in 1..Len(material)
      BY <1>2, <1>3, <2>2 DEF Firm
    <3>3. material[facts[s][c]] \in EvidenceRows
      BY <1>2, <3>2, ElementOfSeq
    <3>4. values[s][c] \in Nat
      BY <3>1, <3>3, ScreeningAssumption DEF EvidenceRows
    <3>5. c \notin Valuations => shot.was[s][c] = material[facts[s][c]].value
      BY <1>3, <2>2 DEF Firm
    <3>6. QED
      BY <3>1, <3>4, <3>5
  <2>4. QED
    BY <2>1, <2>2
<1> HIDE DEF shot
<1>5. values \in Facts
  BY <1>4 DEF Facts
<1> HIDE DEF values
<1>6. /\ outcome \in ExecutionRows /\ outcome.status = "succeeded"
      /\ ReadsStatements(x) => Right(outcome, shot, x[2])
  <2>1. \A s \in shot.members : s \in Stocks
    BY <1>3 DEF Shots
  <2>2. QED
    BY <1>3, <1>4, <1>5, <2>1, EvaluatedIsRight DEF ReadsStatements
<1> HIDE DEF outcome
<1>7. task \in ScreenerRows /\ task.at = "writing" /\ task.on = x /\ task.outcome = outcome
  <2>1. executions[x].results \in Seq(Stocks)
    BY <1>2 DEF ExecutionRows
  <2>2. QED
    BY <1>2, <1>6, <2>1 DEF ScreenerRows, x
<1> HIDE DEF task
<1>8. /\ screener' \in [Screeners -> ScreenerRows]
      /\ \A v \in Screeners : screener'[v] = IF v = w THEN task ELSE screener[v]
  BY <1>1, <1>2, <1>7
<1>9. ScreeningTyped'
  BY <1>1, <1>8 DEF ScreeningInv, ScreeningTyped
<1>10. SnapshotsAreFirm'
  BY <1>1, FirmStays DEF ScreeningInv
<1>11. ExecutionsAreSound'
  BY <1>1 DEF ScreeningInv, ExecutionsAreSound, ReadsStatements
<1>12. ScreenersAreSound'
  BY <1>1, <1>2, <1>6, <1>7, <1>8 DEF ScreeningInv, ScreenersAreSound, ReadsStatements, shot
<1>13. AnsweredIsQueued'
  BY <1>1, <1>8 DEF ScreeningInv, AnsweredIsQueued
<1>14. QED
  BY <1>9, <1>10, <1>11, <1>12, <1>13 DEF ScreeningInv

LEMMA CommitKeeps ==
    ASSUME ScreeningInv, NEW w \in Screeners, CommitResults(w)
    PROVE  ScreeningInv'
<1> DEFINE x == screener[w].on
           outcome == screener[w].outcome
           left == IF executions[x].results = screener[w].cleared THEN <<>> ELSE executions[x].results
           row == [outcome EXCEPT !.lease = executions[x].lease, !.results = outcome.results \o left]
           shot == snapshots[x[1]]
<1>1. /\ screener[w].at = "writing" /\ screener' = [screener EXCEPT ![w] = NoScreener]
      /\ executions' = IF left # <<>> /\ outcome.results # <<>> THEN executions
                       ELSE [executions EXCEPT ![x] = row]
      /\ UNCHANGED <<minute, listed, material, snapshots, screenQueue, answered>>
  BY DEF CommitResults
<1>2. /\ x \in Executions /\ executions[x].status # "absent" /\ outcome.status = "succeeded"
      /\ ReadsStatements(x) => Right(outcome, shot, x[2])
      /\ screener \in [Screeners -> ScreenerRows] /\ executions \in [Executions -> ExecutionRows]
  BY <1>1 DEF ScreeningInv, ScreeningTyped, ScreenersAreSound
<1>3. outcome \in ExecutionRows /\ executions[x] \in ExecutionRows
  BY <1>2 DEF ScreenerRows
<1>4. /\ outcome.results \in Seq(Stocks) /\ executions[x].results \in Seq(Stocks)
      /\ executions[x].lease \in Nat /\ left \in Seq(Stocks)
  BY <1>3 DEF ExecutionRows
<1> HIDE DEF x, outcome
<1>5. ASSUME ~(left # <<>> /\ outcome.results # <<>>)
      PROVE  /\ executions' \in [Executions -> ExecutionRows]
             /\ ExecutionsAreSound'
             /\ (\A y \in Executions : /\ executions'[y].status = "pending" => executions[y].status = "pending"
                                       /\ executions[y].status # "absent" => executions'[y].status # "absent")
  <2>1. executions' = [executions EXCEPT ![x] = row]
    BY <1>1, <1>5
  <2>2. /\ outcome.results \o left \in Seq(Stocks)
        /\ row.results = outcome.results \o left /\ row.status = "succeeded"
        /\ row.count = outcome.count /\ row.unknown = outcome.unknown
        /\ row.excluded = outcome.excluded /\ row \in ExecutionRows
    <3>1. outcome.results \o left \in Seq(Stocks)
      BY <1>4, ConcatProperties
    <3> DEFINE all == outcome.results \o left
    <3> HIDE DEF left
    <3> HIDE DEF all
    <3>2. /\ row.results = all /\ row.status = "succeeded" /\ row.count = outcome.count
          /\ row.unknown = outcome.unknown /\ row.excluded = outcome.excluded /\ row \in ExecutionRows
      BY <1>2, <1>3, <1>4, <3>1 DEF ExecutionRows, all
    <3>3. QED
      BY <3>1, <3>2 DEF all
  <2>3. \A y \in Executions : executions'[y] = IF y = x THEN row ELSE executions[y]
    <3> HIDE DEF row, left
    <3>1. QED
      BY <1>2, <2>1
  <2>4. executions' \in [Executions -> ExecutionRows]
    <3> HIDE DEF row, left
    <3>1. QED
      BY <1>2, <2>1, <2>2
  <2>5. ReadsStatements(x) => Right(row, shot, x[2])
    <3>1. ASSUME ReadsStatements(x), left # <<>> PROVE FALSE
      <4>1. executions[x].results # <<>> /\ outcome.results = <<>>
        BY <1>5, <3>1
      <4>2. Right(executions[x], shot, x[2]) /\ Right(outcome, shot, x[2])
        BY <1>2, <3>1, <4>1 DEF ScreeningInv, ExecutionsAreSound
      <4>3. Len(executions[x].results) = Len(outcome.results) /\ Len(outcome.results) = 0
        BY <4>1, <4>2 DEF Right
      <4>4. QED
        BY <1>4, <4>1, <4>3, EmptySeq
    <3>2. ASSUME left = <<>> PROVE row.results = outcome.results
      BY <1>4, <2>2, <3>2, ConcatEmptySeq
    <3> HIDE DEF row, left
    <3>3. QED
      BY ZenonT(40), <1>2, <2>2, <3>1, <3>2 DEF Right
  <2> HIDE DEF row, left
  <2>6. ExecutionsAreSound'
    BY <1>1, <1>2, <2>2, <2>3, <2>5 DEF ScreeningInv, ExecutionsAreSound, ReadsStatements, shot
  <2>7. \A y \in Executions : /\ executions'[y].status = "pending" => executions[y].status = "pending"
                              /\ executions[y].status # "absent" => executions'[y].status # "absent"
    BY <2>2, <2>3
  <2>8. QED
    BY <2>4, <2>6, <2>7
<1>6. ASSUME left # <<>> /\ outcome.results # <<>>
      PROVE  /\ executions' \in [Executions -> ExecutionRows]
             /\ ExecutionsAreSound'
             /\ (\A y \in Executions : /\ executions'[y].status = "pending" => executions[y].status = "pending"
                                       /\ executions[y].status # "absent" => executions'[y].status # "absent")
  <2>1. executions' = executions
    BY <1>1, <1>6
  <2>2. ExecutionsAreSound'
    BY <1>1, <2>1 DEF ScreeningInv, ExecutionsAreSound, ReadsStatements
  <2>3. QED
    BY <1>2, <2>1, <2>2
<1> HIDE DEF row, left
<1>7. /\ executions' \in [Executions -> ExecutionRows] /\ ExecutionsAreSound'
      /\ \A y \in Executions : /\ executions'[y].status = "pending" => executions[y].status = "pending"
                               /\ executions[y].status # "absent" => executions'[y].status # "absent"
  BY <1>5, <1>6
<1>8. /\ screener' \in [Screeners -> ScreenerRows] /\ NoScreener.at = "idle"
      /\ \A v \in Screeners : screener'[v] = IF v = w THEN NoScreener ELSE screener[v]
  BY <1>1, <1>2, NoExecutionIsTyped DEF NoScreener
<1>9. ScreeningTyped'
  BY <1>1, <1>7, <1>8 DEF ScreeningInv, ScreeningTyped
<1>10. SnapshotsAreFirm'
  BY <1>1, FirmStays DEF ScreeningInv
<1>11. ScreenersAreSound'
  BY <1>1, <1>7, <1>8 DEF ScreeningInv, ScreenersAreSound, ReadsStatements
<1>12. AnsweredIsQueued'
  <2>1. ASSUME NEW y \in answered', executions'[y].status = "pending"
        PROVE  y \in screenQueue' \/ \E v \in Screeners : screener'[v].at = "taken" /\ screener'[v].on = y
    <3>1. y \in answered /\ y \in Executions
      BY <1>1, <2>1 DEF ScreeningInv, ScreeningTyped
    <3>2. executions[y].status = "pending"
      BY <1>7, <2>1, <3>1
    <3>3. QED
      BY <1>1, <1>8, <3>1, <3>2 DEF ScreeningInv, AnsweredIsQueued
  <2>2. QED
    BY <2>1 DEF AnsweredIsQueued
<1>13. QED
  BY <1>7, <1>9, <1>10, <1>11, <1>12 DEF ScreeningInv

LEMMA RedeliverKeeps ==
    ASSUME ScreeningInv, NEW w \in Screeners, RedeliverScreen(w)
    PROVE  ScreeningInv'
<1> DEFINE x == screener[w].on
<1>1. /\ screener[w].at # "idle" /\ screenQueue' = screenQueue \cup {x}
      /\ screener' = screener \/ screener' = [screener EXCEPT ![w] = NoScreener]
      /\ UNCHANGED <<minute, listed, material, snapshots, executions, answered>>
  BY DEF RedeliverScreen
<1>2. /\ x \in Executions /\ executions[x].status # "absent"
      /\ screener \in [Screeners -> ScreenerRows]
  BY <1>1 DEF ScreeningInv, ScreeningTyped, ScreenersAreSound
<1> HIDE DEF x
<1>3. /\ screener' \in [Screeners -> ScreenerRows] /\ NoScreener.at = "idle"
      /\ \A v \in Screeners : \/ screener'[v] = screener[v]
                              \/ v = w /\ screener'[v] = NoScreener
  BY <1>1, <1>2, NoExecutionIsTyped DEF NoScreener
<1>4. ScreeningTyped'
  BY <1>1, <1>2, <1>3 DEF ScreeningInv, ScreeningTyped
<1>5. SnapshotsAreFirm'
  BY <1>1, FirmStays DEF ScreeningInv
<1>6. ExecutionsAreSound'
  BY <1>1, <1>2 DEF ScreeningInv, ExecutionsAreSound, ReadsStatements
<1>7. ScreenersAreSound'
  BY <1>1, <1>3 DEF ScreeningInv, ScreenersAreSound, ReadsStatements
<1>8. AnsweredIsQueued'
  BY <1>1, <1>3 DEF ScreeningInv, AnsweredIsQueued, x
<1>9. QED
  BY <1>4, <1>5, <1>6, <1>7, <1>8 DEF ScreeningInv

\* Two rows show the same.
Alike(a, b) ==
    /\ a.results = b.results /\ a.count = b.count /\ a.unknown = b.unknown
    /\ a.excluded = b.excluded

LEMMA FailScreenKeeps ==
    ASSUME ScreeningInv, NEW w \in Screeners, FailScreen(w)
    PROVE  ScreeningInv'
<1> DEFINE x == screener[w].on
<1>1. /\ screener[w].at = "claimed" /\ screener' = [screener EXCEPT ![w] = NoScreener]
      /\ executions' = executions \/ executions' = [executions EXCEPT ![x].status = "failed"]
      /\ UNCHANGED <<minute, listed, material, snapshots, screenQueue, answered>>
  BY DEF FailScreen
<1>2. /\ x \in Executions /\ executions[x].status # "absent"
      /\ screener \in [Screeners -> ScreenerRows] /\ executions \in [Executions -> ExecutionRows]
  BY <1>1 DEF ScreeningInv, ScreeningTyped, ScreenersAreSound
<1> HIDE DEF x
<1>3. /\ screener' \in [Screeners -> ScreenerRows] /\ NoScreener.at = "idle"
      /\ \A v \in Screeners : screener'[v] = IF v = w THEN NoScreener ELSE screener[v]
  BY <1>1, <1>2, NoExecutionIsTyped DEF NoScreener
<1>4. /\ executions' \in [Executions -> ExecutionRows]
      /\ \A y \in Executions :
           \/ executions'[y] = executions[y]
           \/ y = x /\ executions'[y].status = "failed" /\ Alike(executions'[y], executions[y])
  <2> DEFINE row == [executions[x] EXCEPT !.status = "failed"]
  <2>1. row \in ExecutionRows /\ row.status = "failed" /\ Alike(row, executions[x])
    <3>1. executions[x] \in ExecutionRows
      BY <1>2
    <3>2. QED
      BY <3>1 DEF ExecutionRows, Alike
  <2>2. executions' = executions \/ executions' = [executions EXCEPT ![x] = row]
    BY <1>1
  <2> HIDE DEF row
  <2>3. QED
    BY <1>2, <2>1, <2>2
<1>5. ScreeningTyped'
  BY <1>1, <1>3, <1>4 DEF ScreeningInv, ScreeningTyped
<1>6. SnapshotsAreFirm'
  BY <1>1, FirmStays DEF ScreeningInv
<1>7. ExecutionsAreSound'
  <2>1. ASSUME NEW y \in Executions, Alike(executions'[y], executions[y]),
               ReadsStatements(y), Right(executions[y], snapshots[y[1]], y[2])
        PROVE  Right(executions'[y], snapshots[y[1]], y[2])
    BY <2>1 DEF Alike, Right
  <2>2. ASSUME NEW y \in Executions PROVE ReadsStatements(y)' <=> ReadsStatements(y)
    BY DEF ReadsStatements
  <2>3. QED
    BY <1>1, <1>2, <1>4, <2>1, <2>2 DEF ScreeningInv, ExecutionsAreSound, Alike
<1>8. ScreenersAreSound'
  BY <1>1, <1>2, <1>3, <1>4 DEF ScreeningInv, ScreenersAreSound, ReadsStatements
<1>9. AnsweredIsQueued'
  <2>1. ASSUME NEW y \in answered', executions'[y].status = "pending"
        PROVE  y \in screenQueue' \/ \E v \in Screeners : screener'[v].at = "taken" /\ screener'[v].on = y
    <3>1. y \in answered /\ y \in Executions
      BY <1>1, <2>1 DEF ScreeningInv, ScreeningTyped
    <3>2. executions[y].status = "pending"
      BY <1>4, <2>1, <3>1
    <3>3. QED
      BY <1>1, <1>3, <3>1, <3>2 DEF ScreeningInv, AnsweredIsQueued
  <2>2. QED
    BY <2>1 DEF AnsweredIsQueued
<1>10. QED
  BY <1>5, <1>6, <1>7, <1>8, <1>9 DEF ScreeningInv

\* Nothing that screening does breaks the invariant.
LEMMA ScreeningNextKeeps == ScreeningInv /\ [ScreeningNext]_screeningVars => ScreeningInv'
<1> SUFFICES ASSUME ScreeningInv, [ScreeningNext]_screeningVars PROVE ScreeningInv'
  OBVIOUS
<1>1. ASSUME \/ UNCHANGED <<minute, listed, material, snapshots, executions, screenQueue, answered,
                            screener>>
             \/ NextMinute
             \/ \E s \in Stocks : LeaveListing(s)
      PROVE  ScreeningInv'
  <2>1. /\ minute' \in Nat /\ listed' \in SUBSET Stocks
        /\ UNCHANGED <<material, snapshots, executions, screenQueue, answered, screener>>
    BY <1>1 DEF NextMinute, LeaveListing, ScreeningInv, ScreeningTyped
  <2>2. ScreeningTyped'
    BY <2>1 DEF ScreeningInv, ScreeningTyped
  <2>3. SnapshotsAreFirm'
    BY <2>1, FirmStays DEF ScreeningInv
  <2>4. ExecutionsAreSound'
    BY <2>1 DEF ScreeningInv, ExecutionsAreSound, ReadsStatements
  <2>5. ScreenersAreSound'
    BY <2>1 DEF ScreeningInv, ScreenersAreSound, ReadsStatements
  <2>6. AnsweredIsQueued'
    BY <2>1 DEF ScreeningInv, AnsweredIsQueued
  <2>7. QED
    BY <2>2, <2>3, <2>4, <2>5, <2>6 DEF ScreeningInv
<1>2. CASE UNCHANGED screeningVars
  BY <1>1, <1>2 DEF screeningVars
<1>3. CASE ScreeningNext
  BY <1>1, <1>3, EvidenceKeeps, BuildKeeps, RequestKeeps, TakeKeeps, ScreenClaimKeeps, EvaluateKeeps,
     CommitKeeps, FailScreenKeeps, RedeliverKeeps DEF ScreeningNext
<1>4. QED
  BY <1>2, <1>3

-----------------------------------------------------------------------------
(* Theorems *)

\* The inductive invariant: what a snapshot refers to is what its cutoff let it know, and what a
\* task will write is as it should be, whenever it was evaluated.
THEOREM ScreeningSafe == ScreeningSpec => []ScreeningInv
<1>1. QED
  BY ScreeningInitially, ScreeningNextKeeps, PTL DEF ScreeningSpec

LEMMA ScreeningTypes == ScreeningInv => ScreeningTypeOK
<1> SUFFICES ASSUME ScreeningInv PROVE ScreeningTypeOK
  OBVIOUS
<1>1. ASSUME NEW k \in 1..Len(snapshots), NEW s \in Stocks, NEW c \in Criteria,
             snapshots[k].facts[s][c] # 0
      PROVE  /\ s \in snapshots[k].members
             /\ LET row == material[snapshots[k].facts[s][c]]
                IN  row.stock = s /\ row.on = c
  BY <1>1 DEF ScreeningInv, SnapshotsAreFirm, Firm
<1>2. \A x \in Executions :
        /\ executions[x].status \in {"absent", "pending", "running", "succeeded", "failed"}
        /\ executions[x].status # "absent" => x[1] \in 1..Len(snapshots)
  BY DEF ScreeningInv, ExecutionsAreSound, ScreeningTyped, ExecutionRows
<1>3. screenQueue \subseteq Executions
  BY DEF ScreeningInv, ScreeningTyped
<1>4. \A w \in Screeners : screener[w].at \in {"idle", "taken", "claimed", "writing"}
  BY DEF ScreeningInv, ScreeningTyped, ScreenerRows
<1>5. QED
  BY <1>1, <1>2, <1>3, <1>4 DEF ScreeningTypeOK

\* Snapshots, executions, messages and tasks keep their types, and a fact that a snapshot
\* references is of the stock and the criterion it is referenced for: screening/service.py.
THEOREM ScreeningTypeCorrect == ScreeningSpec => []ScreeningTypeOK
<1>1. QED
  BY ScreeningTypes, ScreeningSafe, PTL

\* Rows of any age arrive in any order, tasks repeat and are late: a snapshot holds what was known
\* at its cutoff, and a succeeded execution of a query on statements shows exactly the members
\* that pass by it, in order, and accounts for the others: build_snapshot, execute and _evaluate.
THEOREM StatementsStay == ScreeningSpec => []StatementsArePointInTime
<1>1. ScreeningInv => StatementsArePointInTime
  <2> SUFFICES ASSUME ScreeningInv PROVE StatementsArePointInTime
    OBVIOUS
  <2>1. ASSUME NEW x \in Executions, executions[x].status = "succeeded", ReadsStatements(x)
        PROVE  PointInTime(x)
    <3>1. Right(executions[x], snapshots[x[1]], x[2])
      BY <2>1 DEF ScreeningInv, ExecutionsAreSound
    <3>2. QED
      BY <3>1 DEF Right, Passing, PointInTime
  <2>2. ASSUME NEW k \in 1..Len(snapshots), NEW s \in snapshots[k].members,
               NEW c \in Criteria \ Valuations, NEW i \in 1..snapshots[k].rows,
               material[i].stock = s, material[i].on = c, material[i].known <= snapshots[k].cutoff
        PROVE  LET mine == snapshots[k].facts[s][c]
               IN  /\ mine # 0 /\ material[mine].known <= snapshots[k].cutoff
                   /\ \/ material[mine].period > material[i].period
                      \/ /\ material[mine].period = material[i].period
                         /\ material[mine].known >= material[i].known
    <3> DEFINE mine == snapshots[k].facts[s][c]
    <3>1. /\ snapshots[k] \in Shots
          /\ Firm(snapshots[k])
          /\ s \in Stocks
      <4>1. snapshots[k] \in Shots
        BY ElementOfSeq DEF ScreeningInv, ScreeningTyped
      <4>2. Firm(snapshots[k])
        BY DEF ScreeningInv, SnapshotsAreFirm
      <4>3. s \in Stocks
        BY <4>1 DEF Shots
      <4>4. QED
        BY <4>1, <4>2, <4>3
    <3>2. mine # 0 /\ (i = mine \/ RanksBefore(mine, i))
      BY <2>2, <3>1 DEF Firm
    <3>3. mine \in 1..snapshots[k].rows /\ material[mine].known <= snapshots[k].cutoff
      BY <3>1, <3>2 DEF Firm
    <3>4. /\ material[mine].known \in Nat /\ material[mine].period \in Nat
          /\ material[i].known \in Nat /\ material[i].period \in Nat
      <4>1. Len(material) \in Nat /\ snapshots[k].rows \in Nat /\ snapshots[k].rows <= Len(material)
        BY <3>1, LenProperties DEF ScreeningInv, ScreeningTyped, Firm, Shots
      <4>2. mine \in 1..Len(material) /\ i \in 1..Len(material)
        BY <2>2, <3>3, <4>1
      <4>3. material[mine] \in EvidenceRows /\ material[i] \in EvidenceRows
        BY <4>2, ElementOfSeq DEF ScreeningInv, ScreeningTyped
      <4>4. QED
        BY <4>3, ScreeningAssumption DEF EvidenceRows
    <3> HIDE DEF mine
    <3>5. /\ mine # 0 /\ material[mine].known <= snapshots[k].cutoff
          /\ \/ material[mine].period > material[i].period
             \/ /\ material[mine].period = material[i].period
                /\ material[mine].known >= material[i].known
      BY <3>2, <3>3, <3>4 DEF RanksBefore, KnownLater
    <3>6. QED
      BY <3>5 DEF mine
  <2>3. SnapshotsAreOfTheirCutoff
    BY <2>2 DEF SnapshotsAreOfTheirCutoff
  <2>4. QED
    BY SMTT(30), <2>1, <2>3 DEF StatementsArePointInTime
<1>2. QED
  BY <1>1, ScreeningSafe, PTL

\* However requests race, fail to enqueue and are repeated, and however tasks are lost: what a
\* user was told is pending has its message: create_execution and routes.py.
THEOREM AnsweredHasMessage == ScreeningSpec => []AnsweredIsQueued
<1>1. ScreeningInv => AnsweredIsQueued
  BY DEF ScreeningInv
<1>2. QED
  BY <1>1, ScreeningSafe, PTL
=============================================================================
