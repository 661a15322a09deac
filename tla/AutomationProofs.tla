--------------------------- MODULE AutomationProofs ---------------------------
(***************************************************************************)
(* What holds of the company's facts and of the research feed for every    *)
(* number of syncs, builds, sessions, sources and users, and of the whole  *)
(* of MC_Automation: the metrics and the research that are shown are of    *)
(* what was stored last, however syncs and builds overlap; a steady        *)
(* watcher is alerted, a signal is matched once and stays as it is, and    *)
(* paging shows no row twice.                                              *)
(***************************************************************************)
EXTENDS MC_Automation, AutomationRunProofs, ScreeningProofs

\* Some numbers have a last.
LEMMA LastNumber ==
    ASSUME NEW some, IsFiniteSet(some), some # {}, \A k \in some : k \in Nat
    PROVE  \E m \in some : \A k \in some : k <= m
<1> DEFINE after == {p \in some \X some : p[1] > p[2]}
<1>1. \A i, j \in some : <<i, j>> \in after <=> i > j
  OBVIOUS
<1> HIDE DEF after
<1>2. IsRow(some, after)
  BY <1>1 DEF IsRow
<1>3. PICK m \in some : \A k \in some \ {m} : <<m, k>> \in after
  BY <1>2, SomebodyIsFirst
<1>4. ASSUME NEW k \in some PROVE k <= m
  <2>1. k = m \/ m > k
    BY <1>1, <1>3
  <2>2. QED
    BY <2>1
<1>5. QED
  BY <1>4

\* Some moments have a last.
LEMMA LastOfSome ==
    ASSUME NEW n \in Nat, NEW some \in SUBSET (1..n), some # {}
    PROVE  \E m \in some : \A k \in some : k <= m
<1>1. IsFiniteSet(1..n)
  <2>1. 1 \in Int /\ n \in Int
    OBVIOUS
  <2>2. QED
    BY <2>1, FS_Interval, Zenon
<1>2. IsFiniteSet(some)
  BY <1>1, FS_Subset
<1>3. \A k \in some : k \in Nat
  OBVIOUS
<1>4. QED
  BY <1>2, <1>3, LastNumber

-----------------------------------------------------------------------------
(* The company's facts: types *)

SyncRows == [at : {"idle", "store", "reports", "valuations", "save", "finish"}, kind : Kinds,
             got : Nat, asof : Nat, r : 0..MaxRevision, v : 0..MaxValue]
BuilderRows == [at : {"idle", "valuations", "find", "acquire", "save", "finish"}, cutoff : Nat,
                r : 0..MaxRevision, v : 0..MaxValue]
StoredRows == [r : 0..MaxRevision, v : 0..MaxValue, at : Nat, by : Syncs \cup {"nobody"},
               sound : BOOLEAN]

SyncIsTyped(s) ==
    /\ sync[s].asof <= moment
    /\ sync[s].at = "store" =>
         sync[s].got <= IF sync[s].kind = "reports" THEN MaxRevision ELSE MaxValue
    /\ sync[s].at \in {"valuations", "save"} => sync[s].asof >= 1
SyncsAreTyped == sync \in [Syncs -> SyncRows] /\ \A s \in Syncs : SyncIsTyped(s)

BuildersAreTyped ==
    /\ builder \in [Builders -> BuilderRows]
    /\ \A b \in Builders : builder[b].at # "idle" => builder[b].cutoff \in 1..moment

MetricsAreTyped ==
    /\ \A m \in metrics : m.asof \in 1..moment /\ m.r \in 1..MaxRevision /\ m.v \in 0..MaxValue
    /\ \A m, o \in metrics : DataOf(m) = DataOf(o) => m = o

FiledIsTyped ==
    /\ \A n \in filed : n.cutoff \in 1..moment /\ n.r \in 0..MaxRevision /\ n.v \in 0..MaxValue
    /\ \A n, o \in filed : DataOf(n) = DataOf(o) => n = o

StoredIsTyped ==
    /\ moment \in Nat
    /\ given \in [r : 0..MaxRevision, v : 0..MaxValue]
    /\ stored \in StoredRows /\ stored.at <= moment
    /\ ended \in [cutoff : Nat, r : 0..MaxRevision, v : 0..MaxValue] /\ ended.cutoff <= moment
    /\ returned \in BOOLEAN /\ mixed \in BOOLEAN /\ torn \in BOOLEAN

FactsTyped == StoredIsTyped /\ SyncsAreTyped /\ BuildersAreTyped /\ MetricsAreTyped /\ FiledIsTyped

LEMMA FactsBounds == MaxRevision \in Nat /\ MaxValue \in Nat /\ 0 \in 0..MaxRevision /\ 0 \in 0..MaxValue
<1>1. MaxRevision \in Nat /\ MaxValue \in Nat
  BY FactsAssumption
<1>2. QED
  BY <1>1

LEMMA FactsTypedInitially == FactsInit => FactsTyped
<1> SUFFICES ASSUME FactsInit PROVE FactsTyped
  OBVIOUS
<1> USE FactsBounds
<1>1. StoredIsTyped
  <2>1. moment \in Nat /\ given \in [r : 0..MaxRevision, v : 0..MaxValue]
    BY DEF FactsInit, Nothing
  <2>2. stored \in StoredRows /\ stored.at <= moment
    BY DEF FactsInit, StoredRows, Nothing
  <2>3. ended \in [cutoff : Nat, r : 0..MaxRevision, v : 0..MaxValue] /\ ended.cutoff <= moment
    BY DEF FactsInit, Nothing
  <2>4. returned \in BOOLEAN /\ mixed \in BOOLEAN /\ torn \in BOOLEAN
    BY DEF FactsInit
  <2>5. QED
    BY <2>1, <2>2, <2>3, <2>4 DEF StoredIsTyped
<1>2. IdleSync \in SyncRows /\ IdleSync.at = "idle" /\ IdleSync.asof = 0
  BY DEF IdleSync, SyncRows, Kinds, Nothing
<1>3. IdleBuilder \in BuilderRows /\ IdleBuilder.at = "idle"
  BY DEF IdleBuilder, BuilderRows, Nothing
<1>4. SyncsAreTyped
  BY <1>2 DEF FactsInit, SyncsAreTyped, SyncIsTyped
<1>5. BuildersAreTyped
  BY <1>3 DEF FactsInit, BuildersAreTyped
<1>6. MetricsAreTyped /\ FiledIsTyped
  BY DEF FactsInit, MetricsAreTyped, FiledIsTyped
<1>7. QED
  BY <1>1, <1>4, <1>5, <1>6 DEF FactsTyped

\* What one sync or one build does, and the rest.
SyncStep(s) ==
    \/ \E kind \in Kinds : FetchFacts(s, kind)
    \/ StoreReports(s) \/ StoreValuations(s) \/ ReadReports(s) \/ ReadValuations(s) \/ SaveMetrics(s)
    \/ FinishSync(s) \/ FailSync(s)
BuilderStep(b) ==
    \/ BeginBuild(b) \/ ReadUpToCutoff(b) \/ FindSnapshot(b) \/ AcquireBuild(b)
    \/ SaveSnapshot(b) \/ FinishBuild(b) \/ FailBuild(b)

\* It moves a row of its own.
SyncMoves(s, row) == \A o \in Syncs : sync'[o] = IF o = s THEN row ELSE sync[o]
BuilderMoves(b, row) == \A c \in Builders : builder'[c] = IF c = b THEN row ELSE builder[c]

LEMMA SyncRowsMove ==
    ASSUME FactsTyped, NEW s \in Syncs
    PROVE  /\ FailSync(s) \/ FinishSync(s) => SyncMoves(s, IdleSync)
           /\ \A kind \in Kinds : FetchFacts(s, kind) =>
                SyncMoves(s, [IdleSync EXCEPT !.at = "store", !.kind = kind,
                                !.got = IF kind = "reports" THEN given.r ELSE given.v])
           /\ StoreReports(s) \/ StoreValuations(s) => SyncMoves(s, [sync[s] EXCEPT !.at = "reports"])
           /\ ReadReports(s) =>
                SyncMoves(s, [sync[s] EXCEPT !.at = "valuations", !.asof = moment', !.r = stored.r])
           /\ ReadValuations(s) => SyncMoves(s, [sync[s] EXCEPT !.at = "save", !.v = stored.v])
           /\ SaveMetrics(s) => SyncMoves(s, [sync[s] EXCEPT !.at = "finish"])
           /\ SyncStep(s) => /\ sync' = [o \in Syncs |-> sync'[o]]
                             /\ \A o \in Syncs \ {s} : sync'[o] = sync[o]
<1> USE DEF SyncMoves, FactsTyped, SyncsAreTyped
<1>1. FailSync(s) \/ FinishSync(s) => SyncMoves(s, IdleSync)
  BY DEF FailSync, FinishSync
<1>2. \A kind \in Kinds : FetchFacts(s, kind) =>
                SyncMoves(s, [IdleSync EXCEPT !.at = "store", !.kind = kind,
                                !.got = IF kind = "reports" THEN given.r ELSE given.v])
  BY DEF FetchFacts
<1>3. StoreReports(s) \/ StoreValuations(s) => SyncMoves(s, [sync[s] EXCEPT !.at = "reports"])
  BY DEF StoreReports, StoreValuations
<1>4. ReadReports(s) =>
        SyncMoves(s, [sync[s] EXCEPT !.at = "valuations", !.asof = moment', !.r = stored.r])
  BY DEF ReadReports
<1>5. ReadValuations(s) => SyncMoves(s, [sync[s] EXCEPT !.at = "save", !.v = stored.v])
  BY DEF ReadValuations, ValuationRead
<1>6. SaveMetrics(s) => SyncMoves(s, [sync[s] EXCEPT !.at = "finish"])
  BY DEF SaveMetrics
<1>7. SyncStep(s) => /\ sync' = [o \in Syncs |-> sync'[o]]
                     /\ \A o \in Syncs \ {s} : sync'[o] = sync[o]
  BY DEF FailSync, FinishSync, FetchFacts, StoreReports, StoreValuations, ReadReports,
         ReadValuations, SaveMetrics, SyncStep
<1>8. QED
  BY <1>1, <1>2, <1>3, <1>4, <1>5, <1>6, <1>7

LEMMA SyncsStayTyped ==
    ASSUME FactsTyped, moment' \in Nat, moment' >= moment, NEW s \in Syncs, NEW row \in SyncRows,
           SyncMoves(s, row), sync' = [o \in Syncs |-> sync'[o]],
           row.asof <= moment',
           row.at = "store" => row.got <= IF row.kind = "reports" THEN MaxRevision ELSE MaxValue,
           row.at \in {"valuations", "save"} => row.asof >= 1
    PROVE  SyncsAreTyped'
<1>1. \A o \in Syncs : sync'[o] \in SyncRows /\ SyncIsTyped(o)'
  <2> SUFFICES ASSUME NEW o \in Syncs PROVE sync'[o] \in SyncRows /\ SyncIsTyped(o)'
    OBVIOUS
  <2>1. CASE o = s
    BY <2>1 DEF SyncMoves, SyncIsTyped
  <2>2. CASE o # s
    <3>1. sync[o] \in SyncRows /\ SyncIsTyped(o) /\ sync'[o] = sync[o] /\ moment \in Nat
      BY <2>2 DEF SyncMoves, FactsTyped, SyncsAreTyped, StoredIsTyped
    <3>2. sync[o].asof \in Nat
      BY <3>1 DEF SyncRows
    <3>3. QED
      BY <3>1, <3>2 DEF SyncIsTyped
  <2>3. QED
    BY <2>1, <2>2
<1>2. sync' \in [Syncs -> SyncRows]
  BY <1>1
<1>3. QED
  BY <1>1, <1>2 DEF SyncsAreTyped

LEMMA RowsAreTyped ==
    ASSUME FactsTyped, NEW s \in Syncs
    PROVE  /\ sync[s] \in SyncRows /\ sync[s].kind \in Kinds /\ sync[s].got \in Nat
           /\ sync[s].asof \in Nat /\ sync[s].r \in 0..MaxRevision /\ sync[s].v \in 0..MaxValue
           /\ sync[s].r \in Nat /\ sync[s].v \in Nat /\ SyncIsTyped(s)
<1>1. sync[s] \in SyncRows /\ SyncIsTyped(s)
  BY DEF FactsTyped, SyncsAreTyped
<1>2. sync[s].kind \in Kinds /\ sync[s].got \in Nat
      /\ sync[s].asof \in Nat /\ sync[s].r \in 0..MaxRevision /\ sync[s].v \in 0..MaxValue
  <2>1. sync[s].kind \in Kinds /\ sync[s].got \in Nat /\ sync[s].asof \in Nat
    BY <1>1 DEF SyncRows
  <2>2. sync[s].r \in 0..MaxRevision /\ sync[s].v \in 0..MaxValue
    BY <1>1 DEF SyncRows
  <2>3. QED
    BY <2>1, <2>2
<1>3. QED
  BY <1>1, <1>2

LEMMA StoredTypes ==
    ASSUME FactsTyped
    PROVE  /\ moment \in Nat /\ stored.r \in 0..MaxRevision /\ stored.v \in 0..MaxValue
           /\ stored.r \in Nat /\ stored.v \in Nat /\ stored.at \in 0..moment /\ stored.at \in Nat
           /\ stored.sound \in BOOLEAN /\ given.r \in 0..MaxRevision /\ given.v \in 0..MaxValue
           /\ ended.cutoff \in Nat /\ ended.r \in Nat /\ ended.v \in Nat
<1>1. /\ moment \in Nat /\ stored.r \in 0..MaxRevision /\ stored.v \in 0..MaxValue
      /\ stored.at \in Nat /\ stored.at <= moment /\ stored.sound \in BOOLEAN
  BY DEF FactsTyped, StoredIsTyped, StoredRows
<1>2. /\ given.r \in 0..MaxRevision /\ given.v \in 0..MaxValue
      /\ ended.cutoff \in Nat /\ ended.r \in Nat /\ ended.v \in Nat
  BY DEF FactsTyped, StoredIsTyped
<1>3. QED
  BY <1>1, <1>2

LEMMA SyncsKeepTypes == ASSUME FactsTyped, NEW s \in Syncs, SyncStep(s) PROVE SyncsAreTyped'
<1>1. /\ sync[s] \in SyncRows /\ sync[s].kind \in Kinds /\ sync[s].got \in Nat
      /\ sync[s].asof \in Nat /\ sync[s].r \in 0..MaxRevision /\ sync[s].v \in 0..MaxValue
      /\ sync[s].asof <= moment
  BY RowsAreTyped DEF SyncIsTyped
<1>2. /\ moment \in Nat /\ stored.r \in 0..MaxRevision /\ stored.v \in 0..MaxValue
      /\ given.r \in 0..MaxRevision /\ given.v \in 0..MaxValue
  BY SMTT(30), StoredTypes
<1>3. sync' = [o \in Syncs |-> sync'[o]]
  BY SyncRowsMove DEF SyncStep
<1>4. IdleSync \in SyncRows /\ IdleSync.at = "idle" /\ IdleSync.asof = 0
  BY FactsBounds DEF IdleSync, SyncRows, Kinds, Nothing
<1>5. ASSUME FailSync(s) \/ FinishSync(s) PROVE SyncsAreTyped'
  <2>1. moment' = moment /\ SyncMoves(s, IdleSync)
    BY <1>5, SyncRowsMove DEF FailSync, FinishSync
  <2>2. QED
    BY SMTT(30), <1>2, <1>3, <1>4, <2>1, SyncsStayTyped
<1>6. ASSUME NEW kind \in Kinds, FetchFacts(s, kind) PROVE SyncsAreTyped'
  <2> DEFINE row == [IdleSync EXCEPT !.at = "store", !.kind = kind,
                                !.got = IF kind = "reports" THEN given.r ELSE given.v]
  <2>1. moment' = moment /\ SyncMoves(s, row)
    BY <1>6, SyncRowsMove DEF FetchFacts
  <2>2. (IF kind = "reports" THEN given.r ELSE given.v) \in Nat
    BY <1>2, FactsBounds
  <2>3. /\ row.at = "store" /\ row.asof = 0 /\ row.kind = kind
        /\ row.got = IF kind = "reports" THEN given.r ELSE given.v
    BY <1>4 DEF IdleSync
  <2>4. row \in SyncRows
    <3> HIDE DEF IdleSync
    <3>1. QED
      BY <1>4, <2>2 DEF SyncRows
  <2> HIDE DEF row
  <2>5. row.asof <= moment'
    BY <1>2, <2>1, <2>3
  <2>6. row.got <= IF row.kind = "reports" THEN MaxRevision ELSE MaxValue
    BY <1>2, <2>3, FactsBounds
  <2>7. QED
    BY <1>2, <1>3, <2>1, <2>3, <2>4, <2>5, <2>6, SyncsStayTyped
<1>7. ASSUME StoreReports(s) \/ StoreValuations(s) PROVE SyncsAreTyped'
  <2> DEFINE row == [sync[s] EXCEPT !.at = "reports"]
  <2>1. moment' \in {moment, moment + 1} /\ SyncMoves(s, row)
    BY <1>7, SyncRowsMove DEF StoreReports, StoreValuations, Later
  <2>2. row \in SyncRows /\ row.at = "reports" /\ row.asof = sync[s].asof
    BY <1>1 DEF SyncRows
  <2> HIDE DEF row
  <2>3. moment' \in Nat /\ moment' >= moment /\ row.asof <= moment'
    BY <1>1, <1>2, <2>1, <2>2
  <2>4. QED
    BY <1>3, <2>1, <2>2, <2>3, SyncsStayTyped
<1>8. ASSUME ReadReports(s) PROVE SyncsAreTyped'
  <2> DEFINE row == [sync[s] EXCEPT !.at = "valuations", !.asof = moment', !.r = stored.r]
  <2>1. moment' = moment + 1 /\ SyncMoves(s, row)
    BY <1>8, SyncRowsMove DEF ReadReports, Later
  <2>2. moment' \in Nat /\ moment' >= moment /\ moment' >= 1
    BY <1>2, <2>1
  <2>3. row \in SyncRows /\ row.at = "valuations" /\ row.asof = moment'
    BY <1>1, <1>2, <2>2 DEF SyncRows
  <2> HIDE DEF row
  <2>4. QED
    BY <1>3, <2>1, <2>2, <2>3, SyncsStayTyped
<1>9. ASSUME ReadValuations(s) PROVE SyncsAreTyped'
  <2> DEFINE row == [sync[s] EXCEPT !.at = "save", !.v = stored.v]
  <2>1. moment' = moment /\ SyncMoves(s, row) /\ sync[s].at = "valuations"
    BY <1>9, SyncRowsMove DEF ReadValuations
  <2>2. row \in SyncRows /\ row.at = "save" /\ row.asof = sync[s].asof
    BY <1>1, <1>2 DEF SyncRows
  <2>3. sync[s].asof >= 1
    BY <2>1, RowsAreTyped DEF SyncIsTyped
  <2> HIDE DEF row
  <2>4. QED
    BY <1>1, <1>2, <1>3, <2>1, <2>2, <2>3, SyncsStayTyped
<1>10. ASSUME SaveMetrics(s) PROVE SyncsAreTyped'
  <2> DEFINE row == [sync[s] EXCEPT !.at = "finish"]
  <2>1. moment' = moment /\ SyncMoves(s, row)
    BY <1>10, SyncRowsMove DEF SaveMetrics
  <2>2. row \in SyncRows /\ row.at = "finish" /\ row.asof = sync[s].asof
    BY <1>1, <1>2 DEF SyncRows
  <2> HIDE DEF row
  <2>3. QED
    BY <1>1, <1>2, <1>3, <2>1, <2>2, SyncsStayTyped
<1>11. QED
  BY <1>5, <1>6, <1>7, <1>8, <1>9, <1>10 DEF SyncStep

LEMMA StoredKeepsTypes ==
    ASSUME FactsTyped, [FactsNext]_factVars
    PROVE  StoredIsTyped' /\ moment' \in Nat /\ moment' >= moment
<1> USE FactsBounds DEF StoredIsTyped
<1>1. /\ moment \in Nat /\ given \in [r : 0..MaxRevision, v : 0..MaxValue]
      /\ stored \in StoredRows /\ stored.at <= moment
      /\ ended \in [cutoff : Nat, r : 0..MaxRevision, v : 0..MaxValue] /\ ended.cutoff <= moment
      /\ returned \in BOOLEAN /\ mixed \in BOOLEAN /\ torn \in BOOLEAN
  BY DEF FactsTyped
<1>2. ASSUME UNCHANGED <<given, stored, ended>>, moment' \in {moment, moment + 1},
             returned' \in BOOLEAN, mixed' \in BOOLEAN, torn' \in BOOLEAN
      PROVE  StoredIsTyped' /\ moment' \in Nat /\ moment' >= moment
  <2>1. stored.at \in Nat /\ ended.cutoff \in Nat
    BY <1>1 DEF StoredRows
  <2>2. moment' \in Nat /\ moment' >= moment
    BY <1>1, <1>2
  <2>3. stored.at <= moment' /\ ended.cutoff <= moment'
    BY <1>1, <2>1, <2>2
  <2>4. QED
    BY <1>1, <1>2, <2>2, <2>3
<1>3. CASE UNCHANGED factVars
  BY <1>1, <1>2, <1>3 DEF factVars
<1>4. CASE NextFactsDay \/ \E d \in Data : LapseBuild(d)
  BY <1>1, <1>2, <1>4 DEF NextFactsDay, LapseBuild
<1>5. CASE Publish
  <2>1. given' \in [r : 0..MaxRevision, v : 0..MaxValue]
    <3>1. given.r \in 0..MaxRevision /\ given.v \in 0..MaxValue
      BY <1>1
    <3>2. CASE given.r < MaxRevision /\ given' = [given EXCEPT !.r = @ + 1]
      <4>1. given.r + 1 \in 0..MaxRevision
        BY <3>1, <3>2
      <4>2. QED
        BY <1>1, <3>2, <4>1
    <3>3. CASE given.v < MaxValue /\ given' = [given EXCEPT !.v = @ + 1]
      <4>1. given.v + 1 \in 0..MaxValue
        BY <3>1, <3>3
      <4>2. QED
        BY <1>1, <3>3, <4>1
    <3>4. QED
      BY <1>5, <3>2, <3>3 DEF Publish
  <2>2. UNCHANGED <<moment, stored, ended, returned, mixed, torn>>
    BY <1>5 DEF Publish
  <2>3. QED
    BY <1>1, <2>1, <2>2
<1>6. ASSUME NEW s \in Syncs, SyncStep(s) PROVE StoredIsTyped' /\ moment' \in Nat /\ moment' >= moment
  <2>1. sync[s].got \in Nat /\ SyncIsTyped(s)
    BY RowsAreTyped
  <2>2. CASE \/ (\E kind \in Kinds : FetchFacts(s, kind)) \/ ReadReports(s) \/ SaveMetrics(s)
             \/ ReadValuations(s) \/ FailSync(s)
    BY <1>1, <1>2, <2>2
       DEF FetchFacts, ReadReports, SaveMetrics, ReadValuations, FailSync, FactTrouble, Later
  <2>3. CASE StoreReports(s)
    <3>1. sync[s].got \in 0..MaxRevision
      BY <2>1, <2>3 DEF StoreReports, SyncIsTyped
    <3>2. stored' = [stored EXCEPT !.r = IF sync[s].got > @ THEN sync[s].got ELSE @,
                                   !.by = s, !.sound = FALSE]
      BY <2>3 DEF StoreReports
    <3>3. stored' \in StoredRows /\ stored'.at = stored.at
      BY <1>1, <3>1, <3>2 DEF StoredRows
    <3>4. UNCHANGED <<moment, given, ended, returned, mixed, torn>>
      BY <2>3 DEF StoreReports
    <3>5. QED
      BY <1>1, <3>3, <3>4
  <2>4. CASE StoreValuations(s)
    <3>1. sync[s].got \in 0..MaxValue
      BY <2>1, <2>4 DEF StoreValuations, SyncIsTyped
    <3>2. moment' = moment + 1 /\ moment' \in Nat
      BY <1>1, <2>4 DEF StoreValuations, Later
    <3> DEFINE late == [stored EXCEPT !.by = s, !.sound = FALSE]
    <3>3. late \in StoredRows /\ late.at = stored.at
      BY <1>1 DEF StoredRows
    <3>4. stored' = (IF sync[s].got = Nothing THEN late ELSE [late EXCEPT !.v = sync[s].got, !.at = moment'])
      BY <2>4 DEF StoreValuations
    <3> HIDE DEF late
    <3>5. stored' \in StoredRows /\ stored'.at \in {stored.at, moment'}
      BY <3>1, <3>2, <3>3, <3>4 DEF StoredRows
    <3>6. UNCHANGED <<given, ended, mixed, torn>> /\ returned' \in BOOLEAN
      BY <1>1, <2>4 DEF StoreValuations
    <3>7. stored.at \in Nat /\ ended.cutoff \in Nat
      BY <1>1 DEF StoredRows
    <3>8. stored'.at <= moment' /\ ended.cutoff <= moment' /\ moment' >= moment
      BY <1>1, <3>2, <3>5, <3>7
    <3>9. QED
      BY <1>1, <3>2, <3>5, <3>6, <3>8
  <2>5. CASE FinishSync(s)
    <3>1. stored' = [stored EXCEPT !.sound = @ \/ stored.by = s]
      BY <2>5 DEF FinishSync
    <3>2. stored.sound \in BOOLEAN /\ (stored.sound \/ stored.by = s) \in BOOLEAN
      BY <1>1 DEF StoredRows
    <3>3. stored' \in StoredRows /\ stored'.at = stored.at
      BY <1>1, <3>1, <3>2 DEF StoredRows
    <3>4. UNCHANGED <<moment, given, ended, returned, mixed, torn>>
      BY <2>5 DEF FinishSync
    <3>5. QED
      BY <1>1, <3>3, <3>4
  <2>6. QED
    BY <1>6, <2>2, <2>3, <2>4, <2>5 DEF SyncStep
<1>7. ASSUME NEW b \in Builders, BuilderStep(b) PROVE StoredIsTyped' /\ moment' \in Nat /\ moment' >= moment
  <2>1. /\ UNCHANGED <<given, stored, returned, mixed>> /\ moment' \in {moment, moment + 1}
        /\ torn' \in BOOLEAN
        /\ ended' \in {ended, [cutoff |-> builder[b].cutoff, r |-> builder[b].r, v |-> builder[b].v]}
        /\ ended' # ended => moment' = moment
    BY <1>1, <1>7 DEF BuilderStep, BeginBuild, ReadUpToCutoff, FindSnapshot, AcquireBuild,
                      SaveSnapshot, FinishBuild, FailBuild, EndBuild, Later
  <2>2. builder[b] \in BuilderRows /\ (builder[b].at # "idle" => builder[b].cutoff \in 1..moment)
    BY DEF FactsTyped, BuildersAreTyped
  <2>3. ended' # ended => builder[b].at # "idle"
    BY <1>7 DEF BuilderStep, BeginBuild, ReadUpToCutoff, FindSnapshot, AcquireBuild,
                SaveSnapshot, FinishBuild, FailBuild
  <2>4. moment' \in Nat /\ moment' >= moment
    BY <1>1, <2>1
  <2>5. CASE ended' = ended
    BY <1>1, <1>2, <2>1, <2>5
  <2>6. CASE ended' # ended
    <3>1. ended' \in [cutoff : Nat, r : 0..MaxRevision, v : 0..MaxValue] /\ ended'.cutoff <= moment
      BY <1>1, <2>1, <2>2, <2>3, <2>6 DEF BuilderRows
    <3>2. QED
      BY <1>1, <2>1, <2>4, <2>6, <3>1
  <2>7. QED
    BY <2>5, <2>6
<1>8. QED
  BY <1>3, <1>4, <1>5, <1>6, <1>7 DEF FactsNext, SyncStep, BuilderStep

LEMMA BuilderRowsMove ==
    ASSUME FactsTyped, NEW b \in Builders
    PROVE  /\ BeginBuild(b) => BuilderMoves(b, [at |-> "valuations", cutoff |-> moment',
                                                r |-> stored.r, v |-> Nothing])
           /\ ReadUpToCutoff(b) =>
                BuilderMoves(b, [builder[b] EXCEPT !.at = "find",
                    !.v = IF stored.v # Nothing /\ stored.at > builder[b].cutoff THEN Nothing ELSE stored.v])
           /\ FindSnapshot(b) =>
                \/ BuilderMoves(b, IdleBuilder) /\ SavedAlready(DataOf(builder[b])) /\ EndBuild(b)
                \/ BuilderMoves(b, [builder[b] EXCEPT !.at = "acquire"]) /\ UNCHANGED ended
           /\ AcquireBuild(b) =>
                \/ BuilderMoves(b, [builder[b] EXCEPT !.at = "save"]) /\ UNCHANGED ended
                \/ BuilderMoves(b, IdleBuilder) /\ SavedAlready(DataOf(builder[b])) /\ EndBuild(b)
                \/ BuilderMoves(b, IdleBuilder) /\ UNCHANGED ended
           /\ SaveSnapshot(b) => BuilderMoves(b, [builder[b] EXCEPT !.at = "finish"])
           /\ FinishBuild(b) => BuilderMoves(b, IdleBuilder) /\ EndBuild(b)
           /\ FailBuild(b) => BuilderMoves(b, IdleBuilder) /\ UNCHANGED ended
           /\ BuilderStep(b) => builder' = [c \in Builders |-> builder'[c]]
<1> USE DEF BuilderMoves, FactsTyped, BuildersAreTyped
<1>1. BeginBuild(b) => BuilderMoves(b, [at |-> "valuations", cutoff |-> moment',
                                        r |-> stored.r, v |-> Nothing])
  BY DEF BeginBuild
<1>2. ReadUpToCutoff(b) =>
        BuilderMoves(b, [builder[b] EXCEPT !.at = "find",
                    !.v = IF stored.v # Nothing /\ stored.at > builder[b].cutoff THEN Nothing ELSE stored.v])
  BY DEF ReadUpToCutoff
<1>3. FindSnapshot(b) =>
                \/ BuilderMoves(b, IdleBuilder) /\ SavedAlready(DataOf(builder[b])) /\ EndBuild(b)
                \/ BuilderMoves(b, [builder[b] EXCEPT !.at = "acquire"]) /\ UNCHANGED ended
  BY DEF FindSnapshot, SavedAlready, EndBuild, GoBuilder
<1>4. AcquireBuild(b) =>
                \/ BuilderMoves(b, [builder[b] EXCEPT !.at = "save"]) /\ UNCHANGED ended
                \/ BuilderMoves(b, IdleBuilder) /\ SavedAlready(DataOf(builder[b])) /\ EndBuild(b)
                \/ BuilderMoves(b, IdleBuilder) /\ UNCHANGED ended
  BY DEF AcquireBuild, BuiltAlready, SavedAlready, EndBuild, GoBuilder
<1>5. SaveSnapshot(b) => BuilderMoves(b, [builder[b] EXCEPT !.at = "finish"])
  BY DEF SaveSnapshot, GoBuilder
<1>6. FinishBuild(b) => BuilderMoves(b, IdleBuilder) /\ EndBuild(b)
  BY DEF FinishBuild, EndBuild
<1>7. FailBuild(b) => BuilderMoves(b, IdleBuilder) /\ UNCHANGED ended
  BY DEF FailBuild
<1>8. BuilderStep(b) => builder' = [c \in Builders |-> builder'[c]]
  BY DEF BuilderStep, BeginBuild, ReadUpToCutoff, FindSnapshot, AcquireBuild,
         SaveSnapshot, FinishBuild, FailBuild, EndBuild, GoBuilder
<1>9. QED
  BY <1>1, <1>2, <1>3, <1>4, <1>5, <1>6, <1>7, <1>8

LEMMA BuildersStayTyped ==
    ASSUME FactsTyped, moment' \in Nat, moment' >= moment, NEW b \in Builders, NEW row \in BuilderRows,
           BuilderMoves(b, row), builder' = [c \in Builders |-> builder'[c]],
           row.at # "idle" => row.cutoff \in 1..moment'
    PROVE  BuildersAreTyped'
<1>1. ASSUME NEW c \in Builders
      PROVE  builder'[c] \in BuilderRows /\ (builder'[c].at # "idle" => builder'[c].cutoff \in 1..moment')
  <2>1. CASE c = b
    BY <2>1 DEF BuilderMoves
  <2>2. CASE c # b
    <3>1. /\ builder[c] \in BuilderRows /\ builder'[c] = builder[c] /\ moment \in Nat
          /\ builder[c].at # "idle" => builder[c].cutoff \in 1..moment
      BY <2>2 DEF BuilderMoves, FactsTyped, BuildersAreTyped, StoredIsTyped
    <3>2. QED
      BY <3>1
  <2>3. QED
    BY <2>1, <2>2
<1>2. builder' \in [Builders -> BuilderRows]
  BY <1>1
<1>3. QED
  BY <1>1, <1>2 DEF BuildersAreTyped

LEMMA BuilderRowTypes ==
    ASSUME FactsTyped, NEW b \in Builders
    PROVE  /\ builder[b] \in BuilderRows /\ builder[b].cutoff \in Nat
           /\ builder[b].r \in 0..MaxRevision /\ builder[b].v \in 0..MaxValue
           /\ builder[b].r \in Nat /\ builder[b].v \in Nat
           /\ builder[b].at # "idle" => builder[b].cutoff \in 1..moment
<1>1. builder[b] \in BuilderRows /\ (builder[b].at # "idle" => builder[b].cutoff \in 1..moment)
  BY DEF FactsTyped, BuildersAreTyped
<1>2. /\ builder[b].cutoff \in Nat /\ builder[b].r \in 0..MaxRevision /\ builder[b].v \in 0..MaxValue
  BY <1>1 DEF BuilderRows
<1>3. QED
  BY <1>1, <1>2

LEMMA BuildersKeepTypes == ASSUME FactsTyped, NEW b \in Builders, BuilderStep(b) PROVE BuildersAreTyped'
<1>1. /\ builder[b] \in BuilderRows /\ builder[b].cutoff \in Nat
      /\ builder[b].r \in 0..MaxRevision /\ builder[b].v \in 0..MaxValue
      /\ builder[b].at # "idle" => builder[b].cutoff \in 1..moment
  BY BuilderRowTypes
<1>2. moment \in Nat /\ stored.r \in 0..MaxRevision /\ stored.v \in 0..MaxValue
  BY StoredTypes
<1>3. builder' = [c \in Builders |-> builder'[c]]
  BY BuilderRowsMove
<1>4. IdleBuilder \in BuilderRows /\ IdleBuilder.at = "idle"
  BY FactsBounds DEF IdleBuilder, BuilderRows, Nothing
<1>5. ASSUME BeginBuild(b) PROVE BuildersAreTyped'
  <2> DEFINE row == [at |-> "valuations", cutoff |-> moment', r |-> stored.r, v |-> Nothing]
  <2>1. moment' = moment + 1 /\ BuilderMoves(b, row)
    BY <1>5, BuilderRowsMove DEF BeginBuild, Later
  <2>2. moment' \in Nat /\ moment' >= moment /\ moment' \in 1..moment'
    BY <1>2, <2>1
  <2>3. row \in BuilderRows /\ row.cutoff = moment'
    BY <1>2, <2>2, FactsBounds DEF BuilderRows, Nothing
  <2> HIDE DEF row
  <2>4. QED
    BY <1>3, <2>1, <2>2, <2>3, BuildersStayTyped
<1>6. ASSUME NEW row \in BuilderRows, moment' = moment, BuilderMoves(b, row),
             row.at # "idle" => row.cutoff = builder[b].cutoff /\ builder[b].at # "idle"
      PROVE  BuildersAreTyped'
  <2>1. row.at # "idle" => row.cutoff \in 1..moment'
    BY <1>1, <1>6
  <2>2. moment' \in Nat /\ moment' >= moment
    BY <1>2, <1>6
  <2>3. QED
    BY <1>3, <1>6, <2>1, <2>2, BuildersStayTyped
<1>7. ASSUME ReadUpToCutoff(b) PROVE BuildersAreTyped'
  <2> DEFINE v == IF stored.v # Nothing /\ stored.at > builder[b].cutoff THEN Nothing ELSE stored.v
             row == [builder[b] EXCEPT !.at = "find", !.v = v]
  <2>1. moment' = moment /\ BuilderMoves(b, row) /\ builder[b].at # "idle"
    BY <1>7, BuilderRowsMove DEF ReadUpToCutoff
  <2>2. v \in 0..MaxValue
    BY <1>2, FactsBounds DEF Nothing
  <2> HIDE DEF v
  <2>3. row \in BuilderRows /\ row.cutoff = builder[b].cutoff
    BY <1>1, <2>2 DEF BuilderRows
  <2> HIDE DEF row
  <2>4. QED
    BY <1>6, <2>1, <2>3
<1>8. ASSUME NEW at \in {"acquire", "save", "finish"}
      PROVE  [builder[b] EXCEPT !.at = at] \in BuilderRows
             /\ [builder[b] EXCEPT !.at = at].cutoff = builder[b].cutoff
  BY <1>1, <1>8 DEF BuilderRows
<1>9. ASSUME FindSnapshot(b) \/ AcquireBuild(b) \/ SaveSnapshot(b) \/ FinishBuild(b) \/ FailBuild(b)
      PROVE  BuildersAreTyped'
  <2>1. moment' = moment /\ builder[b].at # "idle"
    BY <1>9 DEF FindSnapshot, AcquireBuild, SaveSnapshot, FinishBuild, FailBuild
  <2>2. \/ BuilderMoves(b, IdleBuilder)
        \/ \E at \in {"acquire", "save", "finish"} : BuilderMoves(b, [builder[b] EXCEPT !.at = at])
    BY <1>9, BuilderRowsMove
  <2>3. CASE BuilderMoves(b, IdleBuilder)
    BY <1>4, <1>6, <2>1, <2>3
  <2>4. ASSUME NEW at \in {"acquire", "save", "finish"}, BuilderMoves(b, [builder[b] EXCEPT !.at = at])
        PROVE  BuildersAreTyped'
    BY <1>6, <1>8, <2>1, <2>4
  <2>5. QED
    BY <2>2, <2>3, <2>4
<1>10. QED
  BY <1>5, <1>7, <1>9 DEF BuilderStep

LEMMA MetricsKeepTypes == ASSUME FactsTyped, [FactsNext]_factVars PROVE MetricsAreTyped'
<1>1. moment \in Nat /\ moment' \in Nat /\ moment' >= moment
  BY StoredKeepsTypes, StoredTypes
<1>2. MetricsAreTyped
  BY DEF FactsTyped
<1>3. CASE metrics' = metrics
  <2>1. \A m \in metrics : m.asof \in 1..moment'
    BY <1>1, <1>2 DEF MetricsAreTyped
  <2>2. QED
    BY <1>2, <1>3, <2>1 DEF MetricsAreTyped, DataOf
<1>4. ASSUME NEW s \in Syncs, SaveMetrics(s), metrics' # metrics PROVE MetricsAreTyped'
  <2> DEFINE m == [asof |-> sync[s].asof, r |-> sync[s].r, v |-> sync[s].v]
  <2>1. /\ sync[s].asof \in Nat /\ sync[s].asof <= moment /\ sync[s].asof >= 1
        /\ sync[s].r \in 0..MaxRevision /\ sync[s].v \in 0..MaxValue
    BY <1>4, RowsAreTyped DEF SaveMetrics, SyncIsTyped
  <2>2. /\ metrics' = metrics \cup {m} /\ sync[s].r # 0 /\ moment' = moment
        /\ \A o \in metrics : DataOf(o) # DataOf(m)
    BY <1>4 DEF SaveMetrics, Stamped, Nothing, DataOf
  <2>3. m.asof \in 1..moment /\ m.r \in 1..MaxRevision /\ m.v \in 0..MaxValue
    BY SMTT(30), <1>1, <2>1, <2>2, FactsBounds
  <2> HIDE DEF m
  <2>4. QED
    BY <1>2, <2>2, <2>3 DEF MetricsAreTyped, DataOf
<1>5. metrics' = metrics \/ \E s \in Syncs : SaveMetrics(s)
  BY DEF FactsNext, factVars, Publish, NextFactsDay, FetchFacts, StoreReports, StoreValuations, ReadReports,
         ReadValuations, FinishSync, FailSync, BeginBuild, ReadUpToCutoff, FindSnapshot,
         AcquireBuild, SaveSnapshot, FinishBuild, FailBuild, LapseBuild
<1>6. QED
  BY <1>3, <1>4, <1>5

LEMMA FiledKeepsTypes == ASSUME FactsTyped, [FactsNext]_factVars PROVE FiledIsTyped'
<1>1. moment \in Nat /\ moment' \in Nat /\ moment' >= moment
  BY StoredKeepsTypes, StoredTypes
<1>2. FiledIsTyped
  BY DEF FactsTyped
<1>3. CASE filed' = filed
  <2>1. \A n \in filed : n.cutoff \in 1..moment'
    BY <1>1, <1>2 DEF FiledIsTyped
  <2>2. QED
    BY <1>2, <1>3, <2>1 DEF FiledIsTyped, DataOf
<1>4. ASSUME NEW b \in Builders, SaveSnapshot(b), filed' # filed PROVE FiledIsTyped'
  <2> DEFINE n == [cutoff |-> builder[b].cutoff, r |-> builder[b].r, v |-> builder[b].v]
  <2>1. /\ builder[b].cutoff \in 1..moment
        /\ builder[b].r \in 0..MaxRevision /\ builder[b].v \in 0..MaxValue
    BY <1>4, BuilderRowTypes DEF SaveSnapshot
  <2>2. /\ filed' = filed \cup {n} /\ moment' = moment
        /\ \A o \in filed : DataOf(o) # DataOf(n)
    BY <1>4 DEF SaveSnapshot, SavedAlready, DataOf
  <2>3. n.cutoff \in 1..moment /\ n.r \in 0..MaxRevision /\ n.v \in 0..MaxValue
    BY SMTT(30), <2>1
  <2> HIDE DEF n
  <2>4. QED
    BY <1>2, <2>2, <2>3 DEF FiledIsTyped, DataOf
<1>5. filed' = filed \/ \E b \in Builders : SaveSnapshot(b)
  BY DEF FactsNext, factVars, Publish, NextFactsDay, FetchFacts, StoreReports, StoreValuations, ReadReports,
         ReadValuations, SaveMetrics, FinishSync, FailSync, BeginBuild, ReadUpToCutoff, FindSnapshot,
         AcquireBuild, FinishBuild, FailBuild, LapseBuild
<1>6. QED
  BY <1>3, <1>4, <1>5

LEMMA FactsStayTyped == FactsTyped /\ [FactsNext]_factVars => FactsTyped'
<1> SUFFICES ASSUME FactsTyped, [FactsNext]_factVars PROVE FactsTyped'
  OBVIOUS
<1>1. moment \in Nat /\ moment' \in Nat /\ moment' >= moment
  BY StoredKeepsTypes, StoredTypes
<1>2. SyncsAreTyped'
  <2>1. CASE UNCHANGED sync
    <3>1. \A s \in Syncs : sync[s].asof \in Nat
      BY RowsAreTyped
    <3>2. QED
      BY <1>1, <2>1, <3>1 DEF FactsTyped, SyncsAreTyped, SyncIsTyped
  <2>2. UNCHANGED sync \/ \E s \in Syncs : SyncStep(s)
    BY DEF FactsNext, factVars, SyncStep, Publish, NextFactsDay, BeginBuild, ReadUpToCutoff, FindSnapshot,
           AcquireBuild, SaveSnapshot, FinishBuild, FailBuild, LapseBuild
  <2>3. QED
    BY <2>1, <2>2, SyncsKeepTypes
<1>3. BuildersAreTyped'
  <2>1. CASE UNCHANGED builder
    BY <1>1, <2>1 DEF FactsTyped, BuildersAreTyped
  <2>2. UNCHANGED builder \/ \E b \in Builders : BuilderStep(b)
    BY DEF FactsNext, factVars, BuilderStep, Publish, NextFactsDay, FetchFacts, StoreReports, StoreValuations,
           ReadReports, ReadValuations, SaveMetrics, FinishSync, FailSync, LapseBuild
  <2>3. QED
    BY <2>1, <2>2, BuildersKeepTypes
<1>4. QED
  BY <1>2, <1>3, StoredKeepsTypes, MetricsKeepTypes, FiledKeepsTypes DEF FactsTyped

-----------------------------------------------------------------------------
(* The company's facts: what syncs and builds have read *)

\* The metrics there are, and the syncs that have read the statements, or the valuations too.
HasRead == metrics \cup {sync[s] : s \in {t \in Syncs : sync[t].at \in {"valuations", "save"}}}
HasReadAll == metrics \cup {sync[s] : s \in {t \in Syncs : sync[t].at = "save"}}

\* A later as_of has read what is at least as new, and as new as what is stored if nothing has
\* been collected since.
MetricsInOrder ==
    /\ \A p \in HasRead : p.r <= stored.r
    /\ \A p, q \in HasRead : p.asof <= q.asof => p.r <= q.r
    /\ ~returned /\ ~mixed =>
         /\ \A p \in HasReadAll : p.v <= stored.v /\ (p.asof >= stored.at => p.v = stored.v)
         /\ \A p, q \in HasReadAll : p.asof <= q.asof => p.v <= q.v

\* The sync that stored last has read what it stored, and has metrics of it at the end.
HasMetrics == stored.r # Nothing => \E m \in metrics : DataOf(m) = DataOf(stored)
StoredIsRead ==
    /\ stored.sound => HasMetrics
    /\ \A s \in Syncs : stored.by = s =>
         /\ sync[s].at \in {"valuations", "save"} => sync[s].r = stored.r
         /\ sync[s].at = "save" => sync[s].v = stored.v
         /\ sync[s].at = "finish" => HasMetrics

\* The same of the builds, the research that is filed and the build that ended last.
BuildsRead == filed \cup {ended} \cup {builder[b] : b \in {c \in Builders : builder[c].at # "idle"}}
BuildsReadAll ==
    filed \cup {ended}
        \cup {builder[b] : b \in {c \in Builders : builder[c].at \notin {"idle", "valuations"}}}

BuildsInOrder ==
    /\ \A p \in BuildsRead : p.r <= stored.r
    /\ \A p, q \in BuildsRead : p.cutoff <= q.cutoff => p.r <= q.r
    /\ ~returned /\ ~torn =>
         /\ \A p \in BuildsReadAll : p.v <= stored.v /\ (p.cutoff >= stored.at => p.v = stored.v)
         /\ \A p, q \in BuildsReadAll : p.cutoff <= q.cutoff => p.v <= q.v

BuildsAreFiled ==
    /\ \A b \in Builders : builder[b].at = "finish" => SavedAlready(DataOf(builder[b]))
    /\ ended.cutoff > 0 => SavedAlready(DataOf(ended))

FactsInv == FactsTyped /\ MetricsInOrder /\ StoredIsRead /\ BuildsInOrder /\ BuildsAreFiled

LEMMA FactsInitially == FactsInit => FactsInv
<1> SUFFICES ASSUME FactsInit PROVE FactsInv
  OBVIOUS
<1>1. \A s \in Syncs : sync[s].at = "idle"
  BY DEF FactsInit, IdleSync
<1>2. \A b \in Builders : builder[b].at = "idle"
  BY DEF FactsInit, IdleBuilder
<1>3. HasRead = {} /\ HasReadAll = {}
  BY <1>1 DEF FactsInit, HasRead, HasReadAll
<1>4. BuildsRead = {ended} /\ BuildsReadAll = {ended}
  BY <1>2 DEF FactsInit, BuildsRead, BuildsReadAll
<1>5. /\ ended.r = 0 /\ ended.v = 0 /\ ended.cutoff = 0 /\ stored.r = 0 /\ stored.v = 0
      /\ stored.r = Nothing /\ ~stored.sound
  BY DEF FactsInit, Nothing
<1>6. MetricsInOrder
  BY <1>3 DEF MetricsInOrder
<1>7. StoredIsRead
  BY <1>1, <1>5 DEF StoredIsRead, HasMetrics
<1>8. BuildsInOrder
  BY <1>4, <1>5 DEF BuildsInOrder
<1>9. BuildsAreFiled
  BY <1>2, <1>5 DEF BuildsAreFiled
<1>10. QED
  BY <1>6, <1>7, <1>8, <1>9, FactsTypedInitially DEF FactsInv

\* What has read is typed.
LEMMA ReadTypes ==
    ASSUME FactsTyped
    PROVE  /\ \A p \in HasRead : p.r \in Nat /\ p.v \in Nat /\ p.asof \in Nat /\ p.asof <= moment
           /\ HasReadAll \subseteq HasRead
           /\ \A p \in BuildsRead : p.r \in Nat /\ p.v \in Nat /\ p.cutoff \in Nat /\ p.cutoff <= moment
           /\ BuildsReadAll \subseteq BuildsRead
<1>1. moment \in Nat /\ MaxRevision \in Nat /\ MaxValue \in Nat
  BY StoredTypes, FactsBounds
<1>2. \A m \in metrics : m.r \in Nat /\ m.v \in Nat /\ m.asof \in Nat /\ m.asof <= moment
  <2>1. \A m \in metrics : m.asof \in 1..moment /\ m.r \in 1..MaxRevision /\ m.v \in 0..MaxValue
    BY DEF FactsTyped, MetricsAreTyped
  <2>2. QED
    BY <1>1, <2>1
<1>3. \A s \in Syncs : sync[s].r \in Nat /\ sync[s].v \in Nat /\ sync[s].asof \in Nat /\ sync[s].asof <= moment
  BY RowsAreTyped DEF SyncIsTyped
<1>4. \A n \in filed : n.r \in Nat /\ n.v \in Nat /\ n.cutoff \in Nat /\ n.cutoff <= moment
  <2>1. \A n \in filed : n.cutoff \in 1..moment /\ n.r \in 0..MaxRevision /\ n.v \in 0..MaxValue
    BY DEF FactsTyped, FiledIsTyped
  <2>2. QED
    BY <1>1, <2>1
<1>5. ended.r \in Nat /\ ended.v \in Nat /\ ended.cutoff \in Nat /\ ended.cutoff <= moment
  BY StoredTypes DEF FactsTyped, StoredIsTyped
<1>6. \A b \in Builders : builder[b].at # "idle" =>
        /\ builder[b].r \in Nat /\ builder[b].v \in Nat /\ builder[b].cutoff \in Nat
        /\ builder[b].cutoff <= moment
  BY <1>1, BuilderRowTypes
<1>7. QED
  BY <1>2, <1>3, <1>4, <1>5, <1>6 DEF HasRead, HasReadAll, BuildsRead, BuildsReadAll

\* A step of which no sync has read more and by which nothing is stored.
LEMMA MetricsStayInOrder ==
    ASSUME FactsInv, stored'.r = stored.r, stored'.v = stored.v, stored'.at = stored.at,
           returned' \in BOOLEAN, mixed' \in BOOLEAN, returned => returned', mixed => mixed',
           \A p \in HasRead' : \E q \in HasRead : p.asof = q.asof /\ p.r = q.r,
           \A p \in HasReadAll' : \E q \in HasReadAll : p.asof = q.asof /\ p.v = q.v
    PROVE  MetricsInOrder'
<1>1. \A p \in HasRead' : p.r <= stored'.r
  BY DEF FactsInv, MetricsInOrder
<1>2. \A p, q \in HasRead' : p.asof <= q.asof => p.r <= q.r
  BY DEF FactsInv, MetricsInOrder
<1>3. ASSUME ~returned', ~mixed'
      PROVE  /\ \A p \in HasReadAll' : p.v <= stored'.v /\ (p.asof >= stored'.at => p.v = stored'.v)
             /\ \A p, q \in HasReadAll' : p.asof <= q.asof => p.v <= q.v
  BY <1>3 DEF FactsInv, MetricsInOrder
<1>4. QED
  BY <1>1, <1>2, <1>3 DEF MetricsInOrder

LEMMA StoreKeepsOrder ==
    ASSUME FactsInv, NEW s \in Syncs, StoreReports(s) \/ StoreValuations(s)
    PROVE  MetricsInOrder'
<1>0. FactsTyped
  BY SMTT(30) DEF FactsInv
<1>1. SyncMoves(s, [sync[s] EXCEPT !.at = "reports"]) /\ metrics' = metrics /\ mixed' = mixed
  BY <1>0, SyncRowsMove DEF StoreReports, StoreValuations
<1>2. \A o \in Syncs : sync'[o].at \in {"valuations", "save"} => o # s /\ sync'[o] = sync[o]
  <2>1. [sync[s] EXCEPT !.at = "reports"].at = "reports"
    BY <1>0, RowsAreTyped DEF SyncRows
  <2>2. QED
    BY <1>1, <2>1 DEF SyncMoves
<1>3. HasRead' \subseteq HasRead /\ HasReadAll' \subseteq HasReadAll
  BY <1>1, <1>2 DEF HasRead, HasReadAll
<1>4. /\ \A p \in HasRead : p.r \in Nat /\ p.v \in Nat /\ p.asof \in Nat /\ p.asof <= moment
      /\ HasReadAll \subseteq HasRead
  BY <1>0, ReadTypes
<1>5. /\ stored.r \in Nat /\ stored.v \in Nat /\ stored.at \in Nat /\ sync[s].got \in Nat
      /\ moment \in Nat /\ returned \in BOOLEAN /\ stored \in StoredRows
  BY <1>0, StoredTypes, RowsAreTyped DEF FactsTyped, StoredIsTyped
<1>6. ASSUME StoreReports(s) PROVE MetricsInOrder'
  <2>1. stored' = [stored EXCEPT !.r = IF sync[s].got > @ THEN sync[s].got ELSE @,
                                 !.by = s, !.sound = FALSE]
        /\ returned' = returned
    BY <1>6 DEF StoreReports
  <2>2. stored'.r >= stored.r /\ stored'.v = stored.v /\ stored'.at = stored.at /\ stored'.r \in Nat
    <3>1. stored'.v = stored.v /\ stored'.at = stored.at
          /\ stored'.r = IF sync[s].got > stored.r THEN sync[s].got ELSE stored.r
      BY <1>5, <2>1 DEF StoredRows
    <3>2. QED
      BY <1>5, <3>1
  <2>3. \A p \in HasRead' : p.r <= stored'.r
    <3>1. \A p \in HasRead : p.r <= stored.r
      BY DEF FactsInv, MetricsInOrder
    <3>2. QED
      BY <1>3, <1>4, <1>5, <2>2, <3>1
  <2>4. QED
    BY <1>1, <1>3, <2>1, <2>2, <2>3 DEF FactsInv, MetricsInOrder
<1>7. ASSUME StoreValuations(s) PROVE MetricsInOrder'
  <2> DEFINE late == [stored EXCEPT !.by = s, !.sound = FALSE]
  <2>1. /\ stored' = (IF sync[s].got = 0 THEN late ELSE [late EXCEPT !.v = sync[s].got, !.at = moment'])
        /\ returned' = (returned \/ sync[s].got < stored.v) /\ moment' = moment + 1
    BY <1>7 DEF StoreValuations, Later, Nothing
  <2>2. /\ stored'.r = stored.r
        /\ \/ sync[s].got = 0 /\ stored'.v = stored.v /\ stored'.at = stored.at
           \/ stored'.v = sync[s].got /\ stored'.at = moment'
    BY <1>5, <2>1 DEF StoredRows
  <2>3. ASSUME ~returned', ~mixed', NEW p \in HasReadAll
        PROVE  p.v <= stored'.v /\ (p.asof >= stored'.at => p.v = stored'.v)
    <3>1. ~returned /\ ~mixed /\ ~(sync[s].got < stored.v)
      BY <1>1, <1>5, <2>1, <2>3
    <3>2. p.v <= stored.v /\ (p.asof >= stored.at => p.v = stored.v)
      BY <2>3, <3>1 DEF FactsInv, MetricsInOrder
    <3>3. p.v \in Nat /\ p.asof \in Nat /\ p.asof <= moment
      BY <1>4, <2>3
    <3>4. QED
      BY <1>5, <2>1, <2>2, <3>1, <3>2, <3>3
  <2>4. ~returned' /\ ~mixed' => ~returned /\ ~mixed
    BY <1>1, <1>5, <2>1
  <2>5. QED
    BY <1>3, <2>2, <2>3, <2>4 DEF FactsInv, MetricsInOrder
<1>8. QED
  BY <1>6, <1>7

LEMMA ReadReportsKeepsOrder == ASSUME FactsInv, NEW s \in Syncs, ReadReports(s) PROVE MetricsInOrder'
<1>0. FactsTyped
  BY DEF FactsInv
<1> DEFINE row == [sync[s] EXCEPT !.at = "valuations", !.asof = moment', !.r = stored.r]
<1>1. /\ SyncMoves(s, row) /\ moment' = moment + 1
      /\ UNCHANGED <<stored, metrics, returned, mixed>>
  BY <1>0, SyncRowsMove DEF ReadReports, Later
<1>2. row.at = "valuations" /\ row.asof = moment' /\ row.r = stored.r
  BY <1>0, RowsAreTyped DEF SyncRows
<1> HIDE DEF row
<1>3. HasRead' \subseteq HasRead \cup {row} /\ HasReadAll' \subseteq HasReadAll
  BY <1>1, <1>2 DEF SyncMoves, HasRead, HasReadAll
<1>4. /\ \A p \in HasRead : p.r \in Nat /\ p.asof \in Nat /\ p.asof <= moment
      /\ moment \in Nat /\ stored.r \in Nat
  BY <1>0, ReadTypes, StoredTypes
<1>5. \A p \in HasRead' : p.r <= stored'.r
  BY <1>1, <1>2, <1>3, <1>4 DEF FactsInv, MetricsInOrder
<1>6. \A p, q \in HasRead' : p.asof <= q.asof => p.r <= q.r
  <2> SUFFICES ASSUME NEW p \in HasRead', NEW q \in HasRead', p.asof <= q.asof PROVE p.r <= q.r
    OBVIOUS
  <2>1. CASE q = row
    BY <1>1, <1>2, <1>5, <2>1
  <2>2. CASE q # row /\ p = row
    BY <1>1, <1>2, <1>3, <1>4, <2>2
  <2>3. CASE q # row /\ p # row
    BY <1>3, <2>3 DEF FactsInv, MetricsInOrder
  <2>4. QED
    BY <2>1, <2>2, <2>3
<1>7. QED
  BY <1>1, <1>3, <1>5, <1>6 DEF FactsInv, MetricsInOrder

LEMMA ReadValuationsKeepsOrder ==
    ASSUME FactsInv, NEW s \in Syncs, ReadValuations(s) PROVE MetricsInOrder'
<1>0. FactsTyped
  BY DEF FactsInv
<1> DEFINE row == [sync[s] EXCEPT !.at = "save", !.v = stored.v]
<1>1. /\ SyncMoves(s, row) /\ UNCHANGED <<stored, metrics, returned>>
      /\ sync[s].at = "valuations" /\ mixed' = (mixed \/ stored.at > sync[s].asof)
  BY <1>0, SyncRowsMove DEF ReadValuations
<1>2. row.at = "save" /\ row.asof = sync[s].asof /\ row.r = sync[s].r /\ row.v = stored.v
  BY <1>0, RowsAreTyped DEF SyncRows
<1> HIDE DEF row
<1>3. HasRead' \subseteq HasRead \cup {row} /\ HasReadAll' \subseteq HasReadAll \cup {row}
  BY <1>1, <1>2 DEF SyncMoves, HasRead, HasReadAll
<1>4. sync[s] \in HasRead
  BY <1>1 DEF HasRead
<1>5. /\ \A p \in HasRead : p.r \in Nat /\ p.asof \in Nat /\ p.v \in Nat
      /\ HasReadAll \subseteq HasRead
      /\ stored.at \in Nat /\ stored.v \in Nat /\ mixed \in BOOLEAN /\ returned \in BOOLEAN
  BY <1>0, ReadTypes, StoredTypes DEF FactsTyped, StoredIsTyped
<1>6. \A p \in HasRead' : \E q \in HasRead : p.asof = q.asof /\ p.r = q.r
  BY <1>2, <1>3, <1>4
<1>7. /\ \A p \in HasRead' : p.r <= stored'.r
      /\ \A p, q \in HasRead' : p.asof <= q.asof => p.r <= q.r
  BY <1>1, <1>6 DEF FactsInv, MetricsInOrder
<1>8. ASSUME ~returned', ~mixed'
      PROVE  /\ \A p \in HasReadAll' : p.v <= stored'.v /\ (p.asof >= stored'.at => p.v = stored'.v)
             /\ \A p, q \in HasReadAll' : p.asof <= q.asof => p.v <= q.v
  <2>1. ~returned /\ ~mixed /\ ~(stored.at > sync[s].asof)
    BY <1>1, <1>5, <1>8
  <2>2. /\ \A p \in HasReadAll : p.v <= stored.v /\ (p.asof >= stored.at => p.v = stored.v)
        /\ \A p, q \in HasReadAll : p.asof <= q.asof => p.v <= q.v
    BY <2>1 DEF FactsInv, MetricsInOrder
  <2>3. \A p \in HasReadAll' : p.v <= stored'.v /\ (p.asof >= stored'.at => p.v = stored'.v)
    BY <1>1, <1>2, <1>3, <1>5, <2>2
  <2>4. ASSUME NEW p \in HasReadAll', NEW q \in HasReadAll', p.asof <= q.asof PROVE p.v <= q.v
    <3>1. CASE q = row
      BY <1>1, <1>2, <2>3, <3>1
    <3>2. CASE q # row /\ p = row
      <4>1. q \in HasReadAll /\ q.asof \in Nat /\ sync[s].asof \in Nat /\ sync[s].asof <= q.asof
        BY <1>2, <1>3, <1>4, <1>5, <2>4, <3>2
      <4>2. q.asof >= stored.at
        BY <1>5, <2>1, <4>1
      <4>3. QED
        BY <1>2, <1>5, <2>2, <3>2, <4>1, <4>2
    <3>3. CASE q # row /\ p # row
      BY <1>3, <2>2, <2>4, <3>3
    <3>4. QED
      BY <3>1, <3>2, <3>3
  <2>5. QED
    BY <2>3, <2>4
<1>9. QED
  BY <1>7, <1>8 DEF MetricsInOrder

LEMMA MetricsKeepOrder == ASSUME FactsInv, [FactsNext]_factVars PROVE MetricsInOrder'
<1>0. FactsTyped /\ StoredIsTyped
  BY DEF FactsInv, FactsTyped
<1>1. returned' \in BOOLEAN /\ mixed' \in BOOLEAN
  BY <1>0, StoredKeepsTypes DEF StoredIsTyped
<1>2. ASSUME UNCHANGED <<sync, metrics, stored, returned, mixed>> PROVE MetricsInOrder'
  BY <1>2 DEF FactsInv, MetricsInOrder, HasRead, HasReadAll
<1>3. ASSUME NEW s \in Syncs, \/ \E kind \in Kinds : FetchFacts(s, kind)
                              \/ FailSync(s) \/ FinishSync(s) \/ SaveMetrics(s)
      PROVE  MetricsInOrder'
  <2>1. /\ stored'.r = stored.r /\ stored'.v = stored.v /\ stored'.at = stored.at
        /\ UNCHANGED <<returned, mixed>>
    BY ZenonT(40), <1>0, <1>3 DEF FetchFacts, FailSync, FinishSync, SaveMetrics, StoredIsTyped, StoredRows
  <2>2. /\ \A o \in Syncs \ {s} : sync'[o] = sync[o]
        /\ sync'[s].at \notin {"valuations", "save"}
    <3>1. sync[s] \in SyncRows /\ IdleSync.at = "idle"
      BY <1>0, RowsAreTyped DEF IdleSync
    <3>2. [sync[s] EXCEPT !.at = "finish"].at = "finish"
      BY <3>1 DEF SyncRows
    <3>3. ASSUME NEW kind \in Kinds, FetchFacts(s, kind) PROVE sync'[s].at = "store"
      <4> DEFINE row == [IdleSync EXCEPT !.at = "store", !.kind = kind,
                                !.got = IF kind = "reports" THEN given.r ELSE given.v]
      <4>1. SyncMoves(s, row)
        BY <1>0, <3>3, SyncRowsMove
      <4>2. row.at = "store"
        BY DEF IdleSync
      <4>3. QED
        BY <4>1, <4>2 DEF SyncMoves
    <3>4. QED
      BY <1>0, <1>3, <3>1, <3>2, <3>3, SyncRowsMove DEF SyncMoves
  <2>3. \A m \in metrics' \ metrics : /\ sync[s].at = "save"
                                      /\ m.asof = sync[s].asof /\ m.r = sync[s].r /\ m.v = sync[s].v
    <3>1. CASE SaveMetrics(s)
      <4>1. metrics' \subseteq metrics \cup {[asof |-> sync[s].asof, r |-> sync[s].r, v |-> sync[s].v]}
        BY <3>1 DEF SaveMetrics, Stamped
      <4>2. QED
        BY <3>1, <4>1 DEF SaveMetrics
    <3>2. CASE metrics' = metrics
      BY <3>2
    <3>3. QED
      BY <1>3, <3>1, <3>2 DEF FetchFacts, FailSync, FinishSync
  <2>4. /\ HasRead' \subseteq HasRead \cup (metrics' \ metrics)
        /\ HasReadAll' \subseteq HasReadAll \cup (metrics' \ metrics)
    BY <2>2 DEF HasRead, HasReadAll
  <2>5. sync[s].at = "save" => sync[s] \in HasRead /\ sync[s] \in HasReadAll
    BY DEF HasRead, HasReadAll
  <2>6. /\ \A p \in HasRead' : \E q \in HasRead : p.asof = q.asof /\ p.r = q.r
        /\ \A p \in HasReadAll' : \E q \in HasReadAll : p.asof = q.asof /\ p.v = q.v
    BY <2>3, <2>4, <2>5
  <2>7. QED
    BY <1>1, <2>1, <2>6, MetricsStayInOrder
<1>4. \/ UNCHANGED <<sync, metrics, stored, returned, mixed>> \/ \E s \in Syncs : SyncStep(s)
  BY DEF FactsNext, factVars, SyncStep, Publish, NextFactsDay, BeginBuild, ReadUpToCutoff, FindSnapshot,
         AcquireBuild, SaveSnapshot, FinishBuild, FailBuild, LapseBuild
<1>5. QED
  BY <1>2, <1>3, <1>4, StoreKeepsOrder, ReadReportsKeepsOrder, ReadValuationsKeepsOrder DEF SyncStep

LEMMA StoredStaysRead == ASSUME FactsInv, [FactsNext]_factVars PROVE StoredIsRead'
<1>0. FactsTyped /\ StoredIsRead
  BY DEF FactsInv
<1>1. ASSUME UNCHANGED <<sync, metrics, stored>> PROVE StoredIsRead'
  BY <1>0, <1>1 DEF StoredIsRead, HasMetrics, DataOf
<1>2. /\ metrics \subseteq metrics'
      /\ (stored'.r = stored.r /\ stored'.v = stored.v) /\ HasMetrics => HasMetrics'
  <2>1. metrics \subseteq metrics'
    BY DEF FactsNext, factVars, Publish, NextFactsDay, FetchFacts, StoreReports, StoreValuations,
           ReadReports, ReadValuations, SaveMetrics, FinishSync, FailSync, BeginBuild, ReadUpToCutoff,
           FindSnapshot, AcquireBuild, SaveSnapshot, FinishBuild, FailBuild, LapseBuild
  <2>2. QED
    BY <2>1 DEF HasMetrics, DataOf
<1>3. ASSUME NEW s \in Syncs, SyncStep(s) PROVE StoredIsRead'
  <2>1. sync[s] \in SyncRows /\ stored \in StoredRows /\ stored.sound \in BOOLEAN
    BY SMTT(30), <1>0, RowsAreTyped, StoredTypes DEF FactsTyped, StoredIsTyped
  <2>2. \A o \in Syncs \ {s} : sync'[o] = sync[o]
    BY <1>0, <1>3, SyncRowsMove
  <2>3. ASSUME stored'.r = stored.r, stored'.v = stored.v, stored'.by = stored.by,
               stored'.sound => stored.sound \/ (stored.by = s /\ HasMetrics),
               stored.by = s =>
                 /\ sync'[s].at \in {"valuations", "save"} => sync'[s].r = stored.r
                 /\ sync'[s].at = "save" => sync'[s].v = stored.v
                 /\ sync'[s].at = "finish" => HasMetrics'
        PROVE  StoredIsRead'
    <3>1. stored'.sound => HasMetrics'
      BY <1>0, <1>2, <2>3 DEF StoredIsRead
    <3>2. ASSUME NEW o \in Syncs, stored'.by = o
          PROVE  /\ sync'[o].at \in {"valuations", "save"} => sync'[o].r = stored'.r
                 /\ sync'[o].at = "save" => sync'[o].v = stored'.v
                 /\ sync'[o].at = "finish" => HasMetrics'
      <4>1. CASE o = s
        BY <2>3, <3>2, <4>1
      <4>2. CASE o # s
        BY <1>0, <1>2, <2>2, <2>3, <3>2, <4>2 DEF StoredIsRead
      <4>3. QED
        BY <4>1, <4>2
    <3>3. QED
      BY <3>1, <3>2 DEF StoredIsRead
  <2>4. CASE StoreReports(s) \/ StoreValuations(s)
    <3>1. stored'.by = s /\ ~stored'.sound
      BY <2>1, <2>4 DEF StoreReports, StoreValuations, StoredRows
    <3>2. sync'[s].at = "reports"
      <4>1. [sync[s] EXCEPT !.at = "reports"].at = "reports"
        BY <2>1 DEF SyncRows
      <4>2. QED
        BY <1>0, <2>4, <4>1, SyncRowsMove DEF SyncMoves
    <3>3. QED
      BY <3>1, <3>2 DEF StoredIsRead
  <2>5. ASSUME (\E kind \in Kinds : FetchFacts(s, kind)) \/ FailSync(s) PROVE StoredIsRead'
    <3>1. stored' = stored
      BY <2>5 DEF FetchFacts, FailSync
    <3>2. sync'[s].at \in {"store", "idle"}
      <4>1. CASE FailSync(s)
        <5>1. SyncMoves(s, IdleSync)
          BY ZenonT(40), <1>0, <4>1, SyncRowsMove
        <5>2. QED
          BY SMTT(30), <5>1 DEF SyncMoves, IdleSync
      <4>2. ASSUME NEW kind \in Kinds, FetchFacts(s, kind) PROVE sync'[s].at = "store"
        <5> DEFINE row == [IdleSync EXCEPT !.at = "store", !.kind = kind,
                                !.got = IF kind = "reports" THEN given.r ELSE given.v]
        <5>1. SyncMoves(s, row)
          BY <1>0, <4>2, SyncRowsMove
        <5>2. row.at = "store"
          BY DEF IdleSync
        <5>3. QED
          BY <5>1, <5>2 DEF SyncMoves
      <4>3. QED
        BY <2>5, <4>1, <4>2
    <3>3. QED
      BY <2>3, <3>1, <3>2
  <2>6. CASE FinishSync(s)
    <3>1. stored'.r = stored.r /\ stored'.v = stored.v /\ stored'.by = stored.by
          /\ stored'.sound = (stored.sound \/ stored.by = s) /\ sync[s].at = "finish"
      BY <2>1, <2>6 DEF FinishSync, StoredRows
    <3>2. sync'[s].at = "idle"
      <4>1. SyncMoves(s, IdleSync)
        BY <1>0, <2>6, SyncRowsMove
      <4>2. QED
        BY SMTT(30), <4>1 DEF SyncMoves, IdleSync
    <3>3. stored.by = s => HasMetrics
      BY <1>0, <3>1 DEF StoredIsRead
    <3>4. QED
      BY <2>1, <2>3, <3>1, <3>2, <3>3
  <2>7. CASE ReadReports(s)
    <3> DEFINE row == [sync[s] EXCEPT !.at = "valuations", !.asof = moment', !.r = stored.r]
    <3>1. stored' = stored /\ sync'[s] = row
      BY <1>0, <2>7, SyncRowsMove DEF ReadReports, SyncMoves
    <3>2. row.at = "valuations" /\ row.r = stored.r
      BY <2>1 DEF SyncRows
    <3> HIDE DEF row
    <3>3. QED
      BY <2>3, <3>1, <3>2
  <2>8. CASE ReadValuations(s)
    <3> DEFINE row == [sync[s] EXCEPT !.at = "save", !.v = stored.v]
    <3>1. stored' = stored /\ sync'[s] = row /\ sync[s].at = "valuations"
      BY <1>0, <2>8, SyncRowsMove DEF ReadValuations, SyncMoves
    <3>2. row.at = "save" /\ row.r = sync[s].r /\ row.v = stored.v
      BY <2>1 DEF SyncRows
    <3> HIDE DEF row
    <3>3. QED
      BY <1>0, <2>3, <3>1, <3>2 DEF StoredIsRead
  <2>9. CASE SaveMetrics(s)
    <3> DEFINE row == [sync[s] EXCEPT !.at = "finish"]
               m == [asof |-> sync[s].asof, r |-> sync[s].r, v |-> sync[s].v]
    <3>1. /\ stored' = stored /\ sync'[s] = row /\ sync[s].at = "save"
          /\ metrics' = IF sync[s].r = Nothing \/ \E o \in metrics : DataOf(o) = DataOf(sync[s])
                        THEN metrics ELSE metrics \cup {m}
      BY ZenonT(40), <1>0, <2>9, SyncRowsMove DEF SaveMetrics, SyncMoves, Stamped
    <3>2. row.at = "finish"
      BY <2>1 DEF SyncRows
    <3> HIDE DEF row
    <3>3. ASSUME stored.by = s PROVE HasMetrics'
      <4>1. sync[s].r = stored.r /\ sync[s].v = stored.v
        BY <1>0, <3>1, <3>3 DEF StoredIsRead
      <4>2. DataOf(m) = DataOf(stored) /\ DataOf(sync[s]) = DataOf(stored)
        BY <4>1 DEF DataOf
      <4> HIDE DEF m
      <4>3. stored.r # Nothing => \E o \in metrics' : DataOf(o) = DataOf(stored)
        BY <3>1, <4>1, <4>2
      <4>4. QED
        BY <3>1, <4>3 DEF HasMetrics, DataOf
    <3>4. QED
      BY <2>3, <3>1, <3>2, <3>3
  <2>10. QED
    BY <1>3, <2>4, <2>5, <2>6, <2>7, <2>8, <2>9 DEF SyncStep
<1>4. UNCHANGED <<sync, metrics, stored>> \/ \E s \in Syncs : SyncStep(s)
  BY DEF FactsNext, factVars, SyncStep, Publish, NextFactsDay, BeginBuild, ReadUpToCutoff, FindSnapshot,
         AcquireBuild, SaveSnapshot, FinishBuild, FailBuild, LapseBuild
<1>5. QED
  BY <1>1, <1>3, <1>4

LEMMA BuildsStayFiled == ASSUME FactsInv, [FactsNext]_factVars PROVE BuildsAreFiled'
<1>0. FactsTyped /\ BuildsAreFiled
  BY DEF FactsInv
<1>1. filed \subseteq filed'
  BY DEF FactsNext, factVars, Publish, NextFactsDay, FetchFacts, StoreReports, StoreValuations,
         ReadReports, ReadValuations, SaveMetrics, FinishSync, FailSync, BeginBuild, ReadUpToCutoff,
         FindSnapshot, AcquireBuild, SaveSnapshot, FinishBuild, FailBuild, LapseBuild
<1>3. ASSUME UNCHANGED <<builder, ended>> PROVE BuildsAreFiled'
  BY <1>0, <1>1, <1>3 DEF BuildsAreFiled, SavedAlready, DataOf
<1>4. ASSUME NEW b \in Builders, BuilderStep(b) PROVE BuildsAreFiled'
  <2>1. builder[b] \in BuilderRows /\ IdleBuilder.at = "idle" /\ builder[b].cutoff \in Nat
    BY <1>0, BuilderRowTypes DEF IdleBuilder
  <2>2. \A c \in Builders \ {b} : builder'[c] = builder[c]
    BY <1>0, <1>4, BuilderRowsMove DEF BuilderStep, BuilderMoves
  <2>3. builder'[b].at = "finish" => \E n \in filed' : n.r = builder'[b].r /\ n.v = builder'[b].v
    <3>1. CASE SaveSnapshot(b)
      <4> DEFINE row == [builder[b] EXCEPT !.at = "finish"]
                 n == [cutoff |-> builder[b].cutoff, r |-> builder[b].r, v |-> builder[b].v]
      <4>1. builder'[b] = row /\ filed' = IF SavedAlready(DataOf(builder[b])) THEN filed ELSE filed \cup {n}
        BY <1>0, <3>1, BuilderRowsMove DEF SaveSnapshot, BuilderMoves
      <4>2. row.r = builder[b].r /\ row.v = builder[b].v /\ n.r = builder[b].r /\ n.v = builder[b].v
        BY <2>1 DEF BuilderRows
      <4> HIDE DEF row, n
      <4>3. \E o \in filed' : o.r = row.r /\ o.v = row.v
        BY <4>1, <4>2 DEF SavedAlready, DataOf
      <4>4. QED
        BY <4>1, <4>3
    <3>2. CASE ~SaveSnapshot(b)
      <4>1. /\ [builder[b] EXCEPT !.at = "acquire"].at = "acquire"
            /\ [builder[b] EXCEPT !.at = "save"].at = "save"
            /\ \A v : [builder[b] EXCEPT !.at = "find", !.v = v].at = "find"
        BY <2>1 DEF BuilderRows
      <4>2. builder'[b].at # "finish"
        <5>1. CASE BeginBuild(b)
          <6> DEFINE row == [at |-> "valuations", cutoff |-> moment', r |-> stored.r, v |-> Nothing]
          <6>1. builder'[b] = row
            BY <1>0, <5>1, BuilderRowsMove DEF BuilderMoves
          <6>2. QED
            BY <6>1
        <5>2. CASE ~BeginBuild(b)
          BY <1>0, <1>4, <2>1, <3>2, <4>1, <5>2, BuilderRowsMove DEF BuilderStep, BuilderMoves
        <5>3. QED
          BY <5>1, <5>2
      <4>3. QED
        BY <4>2
    <3>3. QED
      BY <3>1, <3>2
  <2>4. \/ UNCHANGED ended
        \/ /\ ended' = [cutoff |-> builder[b].cutoff, r |-> builder[b].r, v |-> builder[b].v]
           /\ SavedAlready(DataOf(builder[b]))
    <3>1. FinishBuild(b) => SavedAlready(DataOf(builder[b]))
      BY <1>0 DEF FinishBuild, BuildsAreFiled
    <3>2. EndBuild(b) => \/ UNCHANGED ended
                         \/ ended' = [cutoff |-> builder[b].cutoff, r |-> builder[b].r, v |-> builder[b].v]
      BY DEF EndBuild
    <3>3. BeginBuild(b) \/ ReadUpToCutoff(b) \/ SaveSnapshot(b) => UNCHANGED ended
      BY DEF BeginBuild, ReadUpToCutoff, SaveSnapshot
    <3>4. QED
      BY <1>0, <1>4, <3>1, <3>2, <3>3, BuilderRowsMove DEF BuilderStep
  <2>5. ended'.cutoff > 0 => \E n \in filed' : n.r = ended'.r /\ n.v = ended'.v
    <3>1. CASE UNCHANGED ended
      BY <1>0, <1>1, <3>1 DEF BuildsAreFiled, SavedAlready, DataOf
    <3>2. CASE /\ ended' = [cutoff |-> builder[b].cutoff, r |-> builder[b].r, v |-> builder[b].v]
               /\ SavedAlready(DataOf(builder[b]))
      <4>1. ended'.r = builder[b].r /\ ended'.v = builder[b].v
        BY <3>2
      <4>2. \E n \in filed : n.r = builder[b].r /\ n.v = builder[b].v
        BY <3>2 DEF SavedAlready, DataOf
      <4>3. QED
        BY <1>1, <4>1, <4>2
    <3>3. QED
      BY <2>4, <3>1, <3>2
  <2>6. ASSUME NEW c \in Builders, builder'[c].at = "finish"
        PROVE  \E n \in filed' : n.r = builder'[c].r /\ n.v = builder'[c].v
    <3>1. CASE c = b
      BY <2>3, <2>6, <3>1
    <3>2. CASE c # b
      <4>1. builder'[c] = builder[c] /\ \E n \in filed : n.r = builder[c].r /\ n.v = builder[c].v
        BY <1>0, <2>2, <2>6, <3>2 DEF BuildsAreFiled, SavedAlready, DataOf
      <4>2. QED
        BY <1>1, <4>1
    <3>3. QED
      BY <3>1, <3>2
  <2>7. QED
    BY <2>5, <2>6 DEF BuildsAreFiled, SavedAlready, DataOf
<1>5. UNCHANGED <<builder, ended>> \/ \E b \in Builders : BuilderStep(b)
  BY DEF FactsNext, factVars, BuilderStep, Publish, NextFactsDay, FetchFacts, StoreReports, StoreValuations,
         ReadReports, ReadValuations, SaveMetrics, FinishSync, FailSync, LapseBuild
<1>6. QED
  BY <1>3, <1>4, <1>5

\* A step of which no build has read more.
LEMMA BuildsStayInOrder ==
    ASSUME FactsInv, stored'.r \in Nat, stored'.r >= stored.r,
           stored'.v = stored.v, stored'.at = stored.at,
           returned' \in BOOLEAN, torn' \in BOOLEAN, returned => returned', torn => torn',
           \A p \in BuildsRead' : \E q \in BuildsRead : p.cutoff = q.cutoff /\ p.r = q.r,
           \A p \in BuildsReadAll' : \E q \in BuildsReadAll : p.cutoff = q.cutoff /\ p.v = q.v
    PROVE  BuildsInOrder'
<1>1. \A p \in BuildsRead' : p.r <= stored'.r
  <2>1. stored.r \in Nat /\ \A p \in BuildsRead : p.r \in Nat /\ p.r <= stored.r
    BY StoredTypes, ReadTypes DEF FactsInv, BuildsInOrder
  <2>2. QED
    BY <2>1
<1>2. \A p, q \in BuildsRead' : p.cutoff <= q.cutoff => p.r <= q.r
  BY DEF FactsInv, BuildsInOrder
<1>3. ASSUME ~returned', ~torn'
      PROVE  /\ \A p \in BuildsReadAll' : p.v <= stored'.v /\ (p.cutoff >= stored'.at => p.v = stored'.v)
             /\ \A p, q \in BuildsReadAll' : p.cutoff <= q.cutoff => p.v <= q.v
  BY <1>3 DEF FactsInv, BuildsInOrder
<1>4. QED
  BY <1>1, <1>2, <1>3 DEF BuildsInOrder

LEMMA CollectingKeepsBuilds == ASSUME FactsInv, NEW s \in Syncs, StoreValuations(s) PROVE BuildsInOrder'
<1>0. FactsTyped
  BY DEF FactsInv
<1>1. UNCHANGED <<filed, ended, builder, torn>>
  BY DEF StoreValuations
<1>2. BuildsRead' = BuildsRead /\ BuildsReadAll' = BuildsReadAll
  BY <1>1 DEF BuildsRead, BuildsReadAll
<1>3. /\ \A p \in BuildsRead : p.r \in Nat /\ p.v \in Nat /\ p.cutoff \in Nat /\ p.cutoff <= moment
      /\ BuildsReadAll \subseteq BuildsRead
      /\ stored.v \in Nat /\ stored.at \in Nat /\ sync[s].got \in Nat
      /\ moment \in Nat /\ returned \in BOOLEAN /\ stored \in StoredRows
  BY <1>0, ReadTypes, StoredTypes, RowsAreTyped DEF FactsTyped, StoredIsTyped
<1> DEFINE late == [stored EXCEPT !.by = s, !.sound = FALSE]
<1>4. /\ stored' = (IF sync[s].got = 0 THEN late ELSE [late EXCEPT !.v = sync[s].got, !.at = moment'])
      /\ returned' = (returned \/ sync[s].got < stored.v) /\ moment' = moment + 1
  BY DEF StoreValuations, Later, Nothing
<1>5. /\ stored'.r = stored.r
      /\ \/ sync[s].got = 0 /\ stored'.v = stored.v /\ stored'.at = stored.at
         \/ stored'.v = sync[s].got /\ stored'.at = moment'
  BY <1>3, <1>4 DEF StoredRows
<1>6. ASSUME ~returned', ~torn', NEW p \in BuildsReadAll
      PROVE  p.v <= stored'.v /\ (p.cutoff >= stored'.at => p.v = stored'.v)
  <2>1. ~returned /\ ~torn /\ ~(sync[s].got < stored.v)
    BY <1>1, <1>3, <1>4, <1>6
  <2>2. p.v <= stored.v /\ (p.cutoff >= stored.at => p.v = stored.v)
    BY <1>6, <2>1 DEF FactsInv, BuildsInOrder
  <2>3. p.v \in Nat /\ p.cutoff \in Nat /\ p.cutoff <= moment
    BY <1>3, <1>6
  <2>4. QED
    BY <1>3, <1>4, <1>5, <2>1, <2>2, <2>3
<1>7. ~returned' /\ ~torn' => ~returned /\ ~torn
  BY <1>1, <1>3, <1>4
<1>8. QED
  BY <1>2, <1>5, <1>6, <1>7 DEF FactsInv, BuildsInOrder

LEMMA BeginKeepsBuilds == ASSUME FactsInv, NEW b \in Builders, BeginBuild(b) PROVE BuildsInOrder'
<1>0. FactsTyped
  BY DEF FactsInv
<1> DEFINE row == [at |-> "valuations", cutoff |-> moment', r |-> stored.r, v |-> Nothing]
<1>1. /\ BuilderMoves(b, row) /\ moment' = moment + 1
      /\ UNCHANGED <<stored, filed, ended, returned, torn>>
  BY <1>0, BuilderRowsMove DEF BeginBuild, Later
<1>2. row.at = "valuations" /\ row.cutoff = moment' /\ row.r = stored.r
  OBVIOUS
<1> HIDE DEF row
<1>3. BuildsRead' \subseteq BuildsRead \cup {row} /\ BuildsReadAll' \subseteq BuildsReadAll
  BY <1>1, <1>2 DEF BuilderMoves, BuildsRead, BuildsReadAll
<1>4. /\ \A p \in BuildsRead : p.r \in Nat /\ p.cutoff \in Nat /\ p.cutoff <= moment
      /\ moment \in Nat /\ stored.r \in Nat
  BY <1>0, ReadTypes, StoredTypes
<1>5. \A p \in BuildsRead' : p.r <= stored'.r
  BY <1>1, <1>2, <1>3, <1>4 DEF FactsInv, BuildsInOrder
<1>6. \A p, q \in BuildsRead' : p.cutoff <= q.cutoff => p.r <= q.r
  <2> SUFFICES ASSUME NEW p \in BuildsRead', NEW q \in BuildsRead', p.cutoff <= q.cutoff PROVE p.r <= q.r
    OBVIOUS
  <2>1. CASE q = row
    BY <1>1, <1>2, <1>5, <2>1
  <2>2. CASE q # row /\ p = row
    BY <1>1, <1>2, <1>3, <1>4, <2>2
  <2>3. CASE q # row /\ p # row
    BY <1>3, <2>3 DEF FactsInv, BuildsInOrder
  <2>4. QED
    BY <2>1, <2>2, <2>3
<1>7. QED
  BY <1>1, <1>3, <1>5, <1>6 DEF FactsInv, BuildsInOrder

LEMMA ReadUpKeepsBuilds == ASSUME FactsInv, NEW b \in Builders, ReadUpToCutoff(b) PROVE BuildsInOrder'
<1>0. FactsTyped
  BY DEF FactsInv
<1> DEFINE missed == stored.v # 0 /\ stored.at > builder[b].cutoff
           v == IF missed THEN 0 ELSE stored.v
           row == [builder[b] EXCEPT !.at = "find", !.v = v]
<1>1. /\ BuilderMoves(b, row) /\ UNCHANGED <<stored, filed, ended, returned>>
      /\ builder[b].at = "valuations" /\ torn' = (torn \/ missed)
  BY <1>0, BuilderRowsMove DEF ReadUpToCutoff, Nothing
<1> HIDE DEF v
<1>2. row.at = "find" /\ row.cutoff = builder[b].cutoff /\ row.r = builder[b].r /\ row.v = v
  BY <1>0, BuilderRowTypes DEF BuilderRows
<1>v. v = IF missed THEN 0 ELSE stored.v
  BY DEF v
<1> HIDE DEF row, missed
<1>3. BuildsRead' \subseteq BuildsRead \cup {row} /\ BuildsReadAll' \subseteq BuildsReadAll \cup {row}
  BY <1>1, <1>2 DEF BuilderMoves, BuildsRead, BuildsReadAll
<1>4. builder[b] \in BuildsRead
  BY <1>1 DEF BuildsRead
<1>5. /\ \A p \in BuildsRead : p.r \in Nat /\ p.cutoff \in Nat /\ p.v \in Nat
      /\ BuildsReadAll \subseteq BuildsRead
      /\ stored.at \in Nat /\ stored.v \in Nat /\ torn \in BOOLEAN /\ returned \in BOOLEAN
      /\ missed \in BOOLEAN
  BY <1>0, ReadTypes, StoredTypes DEF FactsTyped, StoredIsTyped, missed
<1>6. \A p \in BuildsRead' : \E q \in BuildsRead : p.cutoff = q.cutoff /\ p.r = q.r
  BY <1>2, <1>3, <1>4
<1>7. /\ \A p \in BuildsRead' : p.r <= stored'.r
      /\ \A p, q \in BuildsRead' : p.cutoff <= q.cutoff => p.r <= q.r
  BY <1>1, <1>6 DEF FactsInv, BuildsInOrder
<1>8. ASSUME ~returned', ~torn'
      PROVE  /\ \A p \in BuildsReadAll' : p.v <= stored'.v /\ (p.cutoff >= stored'.at => p.v = stored'.v)
             /\ \A p, q \in BuildsReadAll' : p.cutoff <= q.cutoff => p.v <= q.v
  <2>1. ~returned /\ ~torn /\ ~missed /\ v = stored.v
    BY <1>1, <1>5, <1>8, <1>v
  <2>2. /\ \A p \in BuildsReadAll : p.v <= stored.v /\ (p.cutoff >= stored.at => p.v = stored.v)
        /\ \A p, q \in BuildsReadAll : p.cutoff <= q.cutoff => p.v <= q.v
    BY <2>1 DEF FactsInv, BuildsInOrder
  <2>3. \A p \in BuildsReadAll' : p.v <= stored'.v /\ (p.cutoff >= stored'.at => p.v = stored'.v)
    BY <1>1, <1>2, <1>3, <1>5, <2>1, <2>2
  <2>4. ASSUME NEW p \in BuildsReadAll', NEW q \in BuildsReadAll', p.cutoff <= q.cutoff PROVE p.v <= q.v
    <3>1. CASE q = row
      BY <1>1, <1>2, <2>1, <2>3, <3>1
    <3>2. CASE q # row /\ p = row
      <4>1. /\ q \in BuildsReadAll /\ q.cutoff \in Nat /\ q.v \in Nat
            /\ builder[b].cutoff \in Nat /\ builder[b].cutoff <= q.cutoff
        BY <1>2, <1>3, <1>4, <1>5, <2>4, <3>2
      <4>2. stored.v = 0 \/ stored.at <= builder[b].cutoff
        BY <1>5, <2>1, <4>1 DEF missed
      <4>3. stored.v = 0 \/ q.cutoff >= stored.at
        BY <1>5, <4>1, <4>2
      <4>4. QED
        BY <1>2, <1>5, <2>1, <2>2, <3>2, <4>1, <4>3
    <3>3. CASE q # row /\ p # row
      BY <1>3, <2>2, <2>4, <3>3
    <3>4. QED
      BY <3>1, <3>2, <3>3
  <2>5. QED
    BY <2>3, <2>4
<1>9. QED
  BY <1>7, <1>8 DEF BuildsInOrder

LEMMA BuildsKeepOrder == ASSUME FactsInv, [FactsNext]_factVars PROVE BuildsInOrder'
<1>0. FactsTyped /\ StoredIsTyped
  BY DEF FactsInv, FactsTyped
<1>1. returned' \in BOOLEAN /\ torn' \in BOOLEAN
  BY <1>0, StoredKeepsTypes DEF StoredIsTyped
<1>2. ASSUME UNCHANGED <<builder, filed, ended, torn>>, ~\E s \in Syncs : StoreValuations(s)
      PROVE  BuildsInOrder'
  <2>1. /\ stored'.r \in Nat /\ stored'.r >= stored.r
        /\ stored'.v = stored.v /\ stored'.at = stored.at /\ returned' = returned
    <3>1. CASE stored' = stored /\ returned' = returned
      BY <1>0, <3>1, StoredTypes
    <3>2. ASSUME NEW s \in Syncs, StoreReports(s)
          PROVE  /\ stored'.r \in Nat /\ stored'.r >= stored.r
                 /\ stored'.v = stored.v /\ stored'.at = stored.at /\ returned' = returned
      <4>1. /\ stored'.r = IF sync[s].got > stored.r THEN sync[s].got ELSE stored.r
            /\ stored'.v = stored.v /\ stored'.at = stored.at /\ returned' = returned
        BY <1>0, <3>2 DEF StoreReports, StoredIsTyped, StoredRows
      <4>2. sync[s].got \in Nat /\ stored.r \in Nat
        BY <1>0, RowsAreTyped, StoredTypes
      <4>3. QED
        BY <4>1, <4>2
    <3>3. ASSUME NEW s \in Syncs, FinishSync(s)
          PROVE  /\ stored'.r \in Nat /\ stored'.r >= stored.r
                 /\ stored'.v = stored.v /\ stored'.at = stored.at /\ returned' = returned
      <4>1. stored'.r = stored.r /\ stored'.v = stored.v /\ stored'.at = stored.at /\ returned' = returned
        BY <1>0, <3>3 DEF FinishSync, StoredIsTyped, StoredRows
      <4>2. QED
        BY <1>0, <4>1, StoredTypes
    <3>4. \/ stored' = stored /\ returned' = returned
          \/ \E s \in Syncs : StoreReports(s) \/ FinishSync(s)
      BY <1>2 DEF FactsNext, factVars, Publish, NextFactsDay, FetchFacts, ReadReports, ReadValuations,
                  SaveMetrics, FailSync, BeginBuild, ReadUpToCutoff, FindSnapshot, AcquireBuild,
                  SaveSnapshot, FinishBuild, FailBuild, LapseBuild
    <3>5. QED
      BY <3>1, <3>2, <3>3, <3>4
  <2>2. BuildsRead' = BuildsRead /\ BuildsReadAll' = BuildsReadAll
    BY <1>2 DEF BuildsRead, BuildsReadAll
  <2>3. QED
    BY <1>1, <1>2, <2>1, <2>2, BuildsStayInOrder
<1>3. ASSUME NEW b \in Builders, \/ FindSnapshot(b) \/ AcquireBuild(b) \/ SaveSnapshot(b)
                                 \/ FinishBuild(b) \/ FailBuild(b)
      PROVE  BuildsInOrder'
  <2>1. builder[b].at \notin {"idle", "valuations"} \/ FailBuild(b)
    BY <1>3 DEF FindSnapshot, AcquireBuild, SaveSnapshot, FinishBuild, FailBuild
  <2>2. UNCHANGED <<stored, returned, torn>>
    BY <1>3 DEF FindSnapshot, AcquireBuild, SaveSnapshot, FinishBuild, FailBuild
  <2>3. \A c \in Builders \ {b} : builder'[c] = builder[c]
    BY <1>0, <1>3, BuilderRowsMove DEF BuilderMoves
  <2>4. \/ builder'[b].at = "idle"
        \/ /\ ~FailBuild(b) /\ builder'[b].cutoff = builder[b].cutoff
           /\ builder'[b].r = builder[b].r /\ builder'[b].v = builder[b].v
    <3>1. \A at \in {"acquire", "save", "finish"} :
            LET row == [builder[b] EXCEPT !.at = at]
            IN  row.cutoff = builder[b].cutoff /\ row.r = builder[b].r /\ row.v = builder[b].v
      BY <1>0, BuilderRowTypes DEF BuilderRows
    <3>2. FailBuild(b) => builder'[b].at = "idle"
      <4>1. FailBuild(b) => BuilderMoves(b, IdleBuilder)
        BY <1>0, BuilderRowsMove
      <4>2. QED
        BY <4>1 DEF BuilderMoves, IdleBuilder
    <3>3. \/ BuilderMoves(b, IdleBuilder)
          \/ \E at \in {"acquire", "save", "finish"} : BuilderMoves(b, [builder[b] EXCEPT !.at = at])
      BY <1>0, <1>3, BuilderRowsMove
    <3>4. CASE BuilderMoves(b, IdleBuilder)
      BY <3>4 DEF BuilderMoves, IdleBuilder
    <3>5. ASSUME NEW at \in {"acquire", "save", "finish"},
                 BuilderMoves(b, [builder[b] EXCEPT !.at = at])
          PROVE  builder'[b].cutoff = builder[b].cutoff /\ builder'[b].r = builder[b].r
                 /\ builder'[b].v = builder[b].v
      BY <3>1, <3>5 DEF BuilderMoves
    <3>6. QED
      BY <3>2, <3>3, <3>4, <3>5
  <2>5. \/ UNCHANGED ended
        \/ /\ ended' = [cutoff |-> builder[b].cutoff, r |-> builder[b].r, v |-> builder[b].v]
           /\ ~FailBuild(b) \/ UNCHANGED ended
    <3>1. EndBuild(b) => \/ UNCHANGED ended
                         \/ ended' = [cutoff |-> builder[b].cutoff, r |-> builder[b].r, v |-> builder[b].v]
      BY DEF EndBuild
    <3>2. SaveSnapshot(b) \/ FailBuild(b) => UNCHANGED ended
      BY DEF SaveSnapshot, FailBuild
    <3>3. QED
      BY <1>0, <1>3, <3>1, <3>2, BuilderRowsMove
  <2>6. \A n \in filed' \ filed : /\ ~FailBuild(b) \/ filed' = filed
                                  /\ n.cutoff = builder[b].cutoff /\ n.r = builder[b].r /\ n.v = builder[b].v
    BY <1>3 DEF FindSnapshot, AcquireBuild, SaveSnapshot, FinishBuild, FailBuild
  <2>7. FailBuild(b) => filed' = filed /\ UNCHANGED ended
    BY DEF FailBuild
  <2>8. ~FailBuild(b) => builder[b] \in BuildsRead /\ builder[b] \in BuildsReadAll
    BY <2>1 DEF BuildsRead, BuildsReadAll
  <2> DEFINE Old(p) == \E q \in BuildsRead : p.cutoff = q.cutoff /\ p.r = q.r
             OldAll(p) == \E q \in BuildsReadAll : p.cutoff = q.cutoff /\ p.v = q.v
  <2>9. \A n \in filed' : Old(n) /\ OldAll(n)
    <3>1. \A n \in filed : n \in BuildsRead /\ n \in BuildsReadAll
      BY DEF BuildsRead, BuildsReadAll
    <3>2. QED
      BY <2>6, <2>7, <2>8, <3>1
  <2>10. Old(ended') /\ OldAll(ended')
    <3>1. ended \in BuildsRead /\ ended \in BuildsReadAll
      BY DEF BuildsRead, BuildsReadAll
    <3>2. QED
      BY <2>5, <2>7, <2>8, <3>1
  <2>11. ASSUME NEW c \in Builders
         PROVE  /\ builder'[c].at # "idle" => Old(builder'[c])
                /\ builder'[c].at \notin {"idle", "valuations"} => OldAll(builder'[c])
    <3>1. CASE c = b
      BY <2>4, <2>8, <3>1
    <3>2. CASE c # b
      <4>1. builder'[c] = builder[c]
        BY <2>3, <3>2
      <4>2. /\ builder[c].at # "idle" => builder[c] \in BuildsRead
            /\ builder[c].at \notin {"idle", "valuations"} => builder[c] \in BuildsReadAll
        BY DEF BuildsRead, BuildsReadAll
      <4>3. QED
        BY <4>1, <4>2
    <3>3. QED
      BY <3>1, <3>2
  <2>12. /\ \A p \in BuildsRead' : Old(p)
         /\ \A p \in BuildsReadAll' : OldAll(p)
    <3>1. /\ \A p \in BuildsRead' : \/ p \in filed' \/ p = ended'
                                    \/ \E c \in Builders : p = builder'[c] /\ builder'[c].at # "idle"
          /\ \A p \in BuildsReadAll' :
               \/ p \in filed' \/ p = ended'
               \/ \E c \in Builders : p = builder'[c] /\ builder'[c].at \notin {"idle", "valuations"}
      BY DEF BuildsRead, BuildsReadAll
    <3> HIDE DEF Old, OldAll
    <3>2. QED
      BY <2>9, <2>10, <2>11, <3>1
  <2>13. stored'.r \in Nat /\ stored'.r >= stored.r /\ stored'.v = stored.v /\ stored'.at = stored.at
    BY <1>0, <2>2, StoredTypes
  <2>14. QED
    BY <1>1, <2>2, <2>12, <2>13, BuildsStayInOrder
<1>4. \/ UNCHANGED <<builder, filed, ended, torn>> /\ ~\E s \in Syncs : StoreValuations(s)
      \/ \E s \in Syncs : StoreValuations(s)
      \/ \E b \in Builders : BuilderStep(b)
  BY DEF FactsNext, factVars, BuilderStep, Publish, NextFactsDay, FetchFacts, StoreReports,
         ReadReports, ReadValuations, SaveMetrics, FinishSync, FailSync, LapseBuild
<1>5. QED
  BY <1>2, <1>3, <1>4, CollectingKeepsBuilds, BeginKeepsBuilds, ReadUpKeepsBuilds DEF BuilderStep

LEMMA FactsNextKeeps == FactsInv /\ [FactsNext]_factVars => FactsInv'
BY FactsStayTyped, MetricsKeepOrder, StoredStaysRead, BuildsKeepOrder, BuildsStayFiled DEF FactsInv

-----------------------------------------------------------------------------
(* The company's facts: what is shown *)

LEMMA FactsShown == FactsInv => FactsTypeOK /\ SyncedIsShown /\ BuiltIsShown
<1> SUFFICES ASSUME FactsInv PROVE FactsTypeOK /\ SyncedIsShown /\ BuiltIsShown
  OBVIOUS
<1>0. FactsTyped
  BY DEF FactsInv
<1>1. FactsTypeOK
  <2>1. stored.r \in 0..MaxRevision /\ stored.v \in 0..MaxValue /\ stored.at \in 0..moment
    BY <1>0, StoredTypes
  <2>2. QED
    BY <1>0, <2>1 DEF FactsTypeOK, FactsTyped, MetricsAreTyped, FiledIsTyped
<1>2. SyncedIsShown
  <2> SUFFICES ASSUME stored.sound, stored.r # Nothing, ~returned, ~mixed,
                      NEW m \in metrics, IsLatestMetrics(m)
               PROVE  DataOf(m) = DataOf(stored)
    BY DEF SyncedIsShown
  <2>1. PICK o \in metrics : DataOf(o) = DataOf(stored)
    BY DEF FactsInv, StoredIsRead, HasMetrics
  <2>2. o.asof <= m.asof /\ o.r = stored.r /\ o.v = stored.v
    BY <2>1 DEF IsLatestMetrics, DataOf
  <2>3. m \in HasRead /\ o \in HasRead /\ m \in HasReadAll /\ o \in HasReadAll
    BY DEF HasRead, HasReadAll
  <2>4. m.r <= stored.r /\ m.v <= stored.v /\ o.r <= m.r /\ o.v <= m.v
    BY <2>2, <2>3 DEF FactsInv, MetricsInOrder
  <2>5. m.r \in Nat /\ m.v \in Nat /\ stored.r \in Nat /\ stored.v \in Nat
    BY <1>0, <2>3, ReadTypes, StoredTypes
  <2>6. m.r = stored.r /\ m.v = stored.v
    BY <2>2, <2>4, <2>5
  <2>7. QED
    BY <2>6 DEF DataOf
<1>3. BuiltIsShown
  <2> SUFFICES ASSUME ended.cutoff > 0, ~returned, ~torn
               PROVE  \E n \in filed :
                         IsLatestResearch(n) /\ (DataOf(n) = DataOf(ended) \/ n.cutoff > ended.cutoff)
    BY DEF BuiltIsShown
  <2>1. PICK o \in filed : DataOf(o) = DataOf(ended)
    BY DEF FactsInv, BuildsAreFiled, SavedAlready
  <2>2. PICK n \in filed : \A k \in filed : k.cutoff <= n.cutoff
    <3> DEFINE cuts == {k.cutoff : k \in filed}
    <3>1. moment \in Nat /\ \A k \in filed : k.cutoff \in 1..moment
      BY <1>0, StoredTypes DEF FactsTyped, FiledIsTyped
    <3>2. cuts \in SUBSET (1..moment) /\ cuts # {}
      BY <3>1
    <3> HIDE DEF cuts
    <3>3. PICK c \in cuts : \A d \in cuts : d <= c
      BY <3>1, <3>2, LastOfSome
    <3> USE DEF cuts
    <3>4. QED
      BY <3>3
  <2>3. n \in BuildsRead /\ o \in BuildsRead /\ ended \in BuildsRead
        /\ n \in BuildsReadAll /\ o \in BuildsReadAll /\ ended \in BuildsReadAll
    BY DEF BuildsRead, BuildsReadAll
  <2>4. /\ n.r \in Nat /\ n.v \in Nat /\ n.cutoff \in Nat
        /\ ended.r \in Nat /\ ended.v \in Nat /\ ended.cutoff \in Nat
    BY <1>0, <2>3, ReadTypes
  <2>5. o.r = ended.r /\ o.v = ended.v /\ o.cutoff <= n.cutoff
    BY <2>1, <2>2 DEF DataOf
  <2>6. o.r <= n.r /\ o.v <= n.v
    BY <2>3, <2>5 DEF FactsInv, BuildsInOrder
  <2>7. n.cutoff <= ended.cutoff => n.r <= ended.r /\ n.v <= ended.v
    BY <2>3 DEF FactsInv, BuildsInOrder
  <2>8. n.cutoff > ended.cutoff \/ (n.r = ended.r /\ n.v = ended.v)
    BY <2>4, <2>5, <2>6, <2>7
  <2>9. QED
    BY <2>2, <2>8 DEF IsLatestResearch, DataOf
<1>4. QED
  BY <1>1, <1>2, <1>3

-----------------------------------------------------------------------------
(* The company's facts: theorems *)

\* The inductive invariant: who reads later has read what is at least as new.
THEOREM FactsSafe == FactsSpec => []FactsInv
<1>1. QED
  BY FactsInitially, FactsNextKeeps, PTL DEF FactsSpec

\* A build's data and a sync's data are filed once, and every as_of is of a moment that has been:
\* research/service.py, fundamentals/service.py.
THEOREM FactsTypeCorrect == FactsSpec => []FactsTypeOK
<1>1. QED
  BY FactsSafe, FactsShown, PTL

\* However syncs of a kind or of both overlap and fail, the metrics shown are those of what is
\* stored once the sync that stored last has succeeded.
THEOREM SyncedShown == FactsSpec => []SyncedIsShown
<1>1. QED
  BY FactsSafe, FactsShown, PTL

\* However builds overlap and fail, a build that has ended well leaves its data, or those of a
\* later cutoff, as the research shown.
THEOREM BuiltShown == FactsSpec => []BuiltIsShown
<1>1. QED
  BY FactsSafe, FactsShown, PTL

-----------------------------------------------------------------------------
(* The feed: its invariant *)

SignalStates == {"absent", "silent", "eligible"}
SettingRows == [is : {"absent", "on", "off"}, at : Instants]
SessionRows == [at : {"idle", "projecting", "dispatching", "matching"}, live : BOOLEAN,
                new : SUBSET Sources, fit : SUBSET Sources, signal : Sources \cup {None},
                members : [Users -> Instants \cup {None}],
                unread : SUBSET Users, matched : SUBSET Users]
PageRows == [at : {"closed", "open"}, cutoff : Instants, cursor : Sources \cup {None},
             shown : SUBSET Sources, rows : Nat]

FeedTyped ==
    /\ now \in Instants
    /\ known \in [Sources -> Instants \cup {None}]
    /\ signal \in [Sources -> SignalStates]
    /\ watch \in [Users -> Instants \cup {None}]
    /\ setting \in [Users -> SettingRows]
    /\ dispatched \in SUBSET Sources
    /\ delivery \in SUBSET (Users \X Sources)
    /\ session \in [Sessions -> SessionRows]
    /\ page \in [Users -> PageRows]

\* A signal is of something retained, which was known by now; an alert is of a signal.
SignalsAreRetained ==
    /\ Signals \subseteq Retained
    /\ \A s \in Retained : known[s] \in Instants /\ known[s] <= now
    /\ dispatched \subseteq Signals

\* The user has watched, and let signals pass, since before s was known.
Steady(u, s) ==
    /\ signal[s] = "eligible"
    /\ watch[u] # None /\ watch[u] < known[s]
    /\ setting[u].is = "on" /\ setting[u].at < known[s]

\* What a session holds is retained or projected; one of them matches a signal that has not been
\* dispatched, and its memberships and matches are right of the steady users.
SessionIsSound(p) ==
    /\ session[p].at = "projecting" => session[p].new \subseteq Retained
    /\ session[p].at # "projecting" => session[p].new \subseteq Signals
    /\ session[p].at = "matching" =>
         /\ session[p].signal \in Signals \ dispatched
         /\ \A q \in Sessions \ {p} :
              session[q].at = "matching" => session[q].signal # session[p].signal
         /\ \A u \in Users : Steady(u, session[p].signal) =>
              /\ session[p].members[u] = watch[u]
              /\ u \in session[p].unread \cup session[p].matched
SessionsAreSound == \A p \in Sessions : SessionIsSound(p)

\* What has been shown ends with the cursor.
PageIsSound(u) ==
    /\ page[u].rows = Cardinality(page[u].shown)
    /\ page[u].at = "open" =>
         /\ page[u].cursor \in Signals
         /\ page[u].shown \subseteq Signals
         /\ \A s \in page[u].shown : s = page[u].cursor \/ InFront(s, page[u].cursor)
PagesAreSound == \A u \in Users : PageIsSound(u)

FeedInv ==
    /\ FeedTyped /\ SignalsAreRetained /\ SessionsAreSound /\ SteadyWatcherIsAlerted
    /\ PagesAreSound

LEMMA IdleIsTyped == Idle \in SessionRows /\ Idle.at = "idle" /\ Idle.new = {}
<1>1. [u \in Users |-> None] \in [Users -> Instants \cup {None}]
  OBVIOUS
<1>2. QED
  BY <1>1 DEF Idle, SessionRows

LEMMA FeedInitially == FeedInit => FeedInv
<1> SUFFICES ASSUME FeedInit PROVE FeedInv
  OBVIOUS
<1>1. 0 \in Instants
  BY BoundsAssumption DEF Instants
<1>2. Closed \in PageRows /\ Closed.at = "closed" /\ Closed.rows = 0 /\ Closed.shown = {}
  BY <1>1 DEF Closed, PageRows
<1>3. FeedTyped
  <2>1. session \in [Sessions -> SessionRows] /\ page \in [Users -> PageRows]
    BY <1>2, IdleIsTyped DEF FeedInit
  <2>2. setting \in [Users -> SettingRows]
    BY <1>1 DEF FeedInit, SettingRows
  <2>3. QED
    BY <1>1, <2>1, <2>2 DEF FeedInit, FeedTyped, SignalStates
<1>4. Signals = {} /\ Retained = {}
  BY DEF FeedInit, Signals, Retained
<1>5. SignalsAreRetained /\ SteadyWatcherIsAlerted
  BY <1>4 DEF FeedInit, SignalsAreRetained, SteadyWatcherIsAlerted
<1>6. SessionsAreSound
  <2>1. \A p \in Sessions : session[p].at = "idle" /\ session[p].new = {}
    BY IdleIsTyped DEF FeedInit
  <2>2. QED
    BY <2>1 DEF SessionsAreSound, SessionIsSound
<1>7. PagesAreSound
  <2>1. \A u \in Users : page[u].at = "closed" /\ page[u].rows = 0 /\ page[u].shown = {}
    BY SMTT(30), <1>2 DEF FeedInit
  <2>2. QED
    BY <2>1, FS_EmptySet DEF PagesAreSound, PageIsSound
<1>8. QED
  BY <1>3, <1>5, <1>6, <1>7 DEF FeedInv
-----------------------------------------------------------------------------
(* The feed: what stays *)

\* Only a retained artifact is new, and only a commit of project_symbol makes a signal.
LEMMA WhoWrites ==
    ASSUME [FeedNext]_feedVars
    PROVE  /\ UNCHANGED known \/ \E s \in Sources, k \in Instants : Retain(s, k)
           /\ UNCHANGED signal \/ \E p \in Sessions : ProjectCommits(p)
           /\ UNCHANGED <<dispatched, delivery>> \/ \E p \in Sessions : DispatchCommits(p)
           /\ UNCHANGED watch \/ \E u \in Users : AddToWatchlist(u) \/ RemoveFromWatchlist(u)
           /\ \/ UNCHANGED setting
              \/ \E u \in Users, v \in {"on", "off"} : CreateSettings(u, v) \/ UpdateSettings(u, v)
           /\ UNCHANGED now \/ Tick
           /\ UNCHANGED page \/ \E u \in Users : OpenFeed(u) \/ NextPage(u)
BY DEF FeedNext, feedVars, Tick, Retain, AddToWatchlist, RemoveFromWatchlist, CreateSettings,
       UpdateSettings, Project, ProjectCommits, DispatchBegins, MatchUser, DispatchCommits,
       DispatchSkips, Fail, OpenFeed, NextPage

LEMMA SignalsStay ==
    ASSUME FeedInv, [FeedNext]_feedVars
    PROVE  /\ \A s \in Retained : s \in Retained' /\ known'[s] = known[s]
           /\ \A s \in Signals : s \in Signals' /\ signal'[s] = signal[s]
<1>0. FeedTyped /\ SessionsAreSound
  BY DEF FeedInv
<1>1. \A s \in Retained : s \in Retained' /\ known'[s] = known[s]
  <2>1. CASE UNCHANGED known
    BY <2>1 DEF Retained
  <2>2. ASSUME NEW r \in Sources, NEW k \in Instants, Retain(r, k)
        PROVE  \A s \in Retained : s \in Retained' /\ known'[s] = known[s]
    BY <1>0, <2>2 DEF Retain, Retained, FeedTyped
  <2>3. QED
    BY <2>1, <2>2, WhoWrites
<1>2. \A s \in Signals : s \in Signals' /\ signal'[s] = signal[s]
  <2>1. CASE UNCHANGED signal
    BY <2>1 DEF Signals
  <2>2. ASSUME NEW p \in Sessions, ProjectCommits(p)
        PROVE  \A s \in Signals : s \in Signals' /\ signal'[s] = signal[s]
    <3>1. \A s \in Signals : s \in Sources /\ s \notin session[p].new
      BY <2>2 DEF ProjectCommits, Conflicts, Signals
    <3>2. \A s \in Signals : signal'[s] = signal[s]
      BY <2>2, <3>1 DEF ProjectCommits
    <3>3. QED
      BY <3>1, <3>2 DEF Signals
  <2>3. QED
    BY <2>1, <2>2, WhoWrites
<1>3. QED
  BY <1>1, <1>2

LEMMA RetentionKeeps ==
    ASSUME FeedInv, [FeedNext]_feedVars, FeedTyped'
    PROVE  SignalsAreRetained'
<1>0. FeedTyped /\ SignalsAreRetained /\ SessionsAreSound /\ now \in Int
  BY BoundsAssumption DEF FeedInv, FeedTyped, Instants
<1>1. Signals' \subseteq Retained'
  <2>1. CASE UNCHANGED signal
    BY <1>0, <2>1, SignalsStay DEF Signals, SignalsAreRetained
  <2>2. ASSUME NEW p \in Sessions, ProjectCommits(p) PROVE Signals' \subseteq Retained'
    <3>1. session[p].new \subseteq Retained
      BY <1>0, <2>2 DEF ProjectCommits, SessionsAreSound, SessionIsSound
    <3>2. \A s \in Signals' : s \in Signals \/ s \in session[p].new
      BY <2>2 DEF ProjectCommits, Signals
    <3>3. QED
      BY <1>0, <3>1, <3>2, SignalsStay DEF SignalsAreRetained
  <2>3. QED
    BY <2>1, <2>2, WhoWrites
<1>2. ASSUME NEW s \in Retained' PROVE known'[s] \in Instants /\ known'[s] <= now'
  <2>1. now' = now \/ now' = now + 1
    BY WhoWrites DEF Tick
  <2>2. CASE s \in Retained
    <3>1. known[s] \in Instants /\ known[s] <= now /\ known[s] \in Int
      BY <1>0, <2>2 DEF SignalsAreRetained, Instants
    <3>2. known'[s] = known[s]
      BY <2>2, SignalsStay
    <3>3. QED
      BY <1>0, <2>1, <3>1, <3>2
  <2>3. CASE s \notin Retained
    <3>1. known' # known
      BY <2>3 DEF Retained
    <3>2. PICK r \in Sources, k \in Instants : Retain(r, k)
      BY <3>1, WhoWrites
    <3>3. s \in Sources /\ known'[s] # known[s]
      BY <2>3 DEF Retained
    <3>4. known'[s] = k /\ now' = now /\ k <= now
      BY <1>0, <3>2, <3>3 DEF Retain, FeedTyped
    <3>5. QED
      BY <3>4
  <2>4. QED
    BY <2>2, <2>3
<1>3. dispatched' \subseteq Signals'
  <2>1. CASE UNCHANGED dispatched
    BY <1>0, <2>1, SignalsStay DEF SignalsAreRetained
  <2>2. ASSUME NEW p \in Sessions, DispatchCommits(p) PROVE dispatched' \subseteq Signals'
    BY <1>0, <2>2, SignalsStay DEF DispatchCommits, SignalsAreRetained, SessionsAreSound,
                                   SessionIsSound
  <2>3. QED
    BY <2>1, <2>2, WhoWrites
<1>4. QED
  BY <1>1, <1>2, <1>3 DEF SignalsAreRetained

\* A steady user is one still.
LEMMA SteadyStays ==
    ASSUME FeedInv, [FeedNext]_feedVars, FeedTyped', NEW u \in Users, NEW s \in Signals, Steady(u, s)'
    PROVE  Steady(u, s) /\ watch'[u] = watch[u]
<1>0. /\ FeedTyped /\ known[s] \in Int /\ now \in Int /\ known[s] <= now
      /\ known'[s] = known[s] /\ signal'[s] = signal[s]
  <2>1. FeedTyped /\ SignalsAreRetained /\ s \in Retained
    BY DEF FeedInv, SignalsAreRetained
  <2>2. known'[s] = known[s] /\ signal'[s] = signal[s]
    BY <2>1, SignalsStay
  <2>3. QED
    BY <2>1, <2>2 DEF SignalsAreRetained, FeedTyped, Instants
<1>1. watch'[u] # None /\ watch'[u] < known[s] /\ setting'[u].is = "on" /\ setting'[u].at < known[s]
  BY <1>0 DEF Steady
<1>2. watch'[u] = watch[u]
  <2>1. ASSUME NEW w \in Users, AddToWatchlist(w) \/ RemoveFromWatchlist(w) PROVE watch'[u] = watch[u]
    BY <1>0, <1>1, <2>1 DEF AddToWatchlist, RemoveFromWatchlist, FeedTyped
  <2>2. QED
    BY <2>1, WhoWrites
<1>3. setting'[u] = setting[u]
  <2>1. ASSUME NEW w \in Users, NEW v \in {"on", "off"}, CreateSettings(w, v) \/ UpdateSettings(w, v)
        PROVE  setting'[u] = setting[u]
    <3>1. setting' = [setting EXCEPT ![w] = [is |-> v, at |-> now]]
      BY <2>1 DEF CreateSettings, UpdateSettings
    <3>2. CASE w = u
      <4>1. setting'[u].at = now
        BY <1>0, <3>1, <3>2 DEF FeedTyped
      <4>2. QED
        BY <1>0, <1>1, <4>1
    <3>3. CASE w # u
      BY <1>0, <3>1, <3>3 DEF FeedTyped
    <3>4. QED
      BY <3>2, <3>3
  <2>2. QED
    BY <2>1, WhoWrites
<1>4. QED
  BY <1>0, <1>1, <1>2, <1>3 DEF Steady

\* Only the commit of a dispatch makes alerts; it makes them for its steady users.
LEMMA SteadyAreAlerted ==
    ASSUME FeedInv, [FeedNext]_feedVars, FeedTyped'
    PROVE  SteadyWatcherIsAlerted'
<1>0. FeedTyped /\ SignalsAreRetained /\ SessionsAreSound /\ SteadyWatcherIsAlerted
  BY DEF FeedInv
<1>1. ASSUME NEW u \in Users, NEW s \in dispatched', Steady(u, s)'
      PROVE  <<u, s>> \in delivery'
  <2>1. CASE s \in dispatched
    <3>1. Steady(u, s)
      BY <1>0, <1>1, <2>1, SteadyStays DEF SignalsAreRetained
    <3>2. <<u, s>> \in delivery
      BY <1>0, <2>1, <3>1 DEF SteadyWatcherIsAlerted, Steady
    <3>3. QED
      BY <3>2, WhoWrites DEF DispatchCommits
  <2>2. CASE s \notin dispatched
    <3>1. PICK p \in Sessions : DispatchCommits(p)
      BY <2>2, WhoWrites
    <3>2. s = session[p].signal /\ session[p].at = "matching" /\ session[p].unread = {}
      BY <2>2, <3>1 DEF DispatchCommits
    <3>3. s \in Signals
      BY <1>0, <3>2 DEF SessionsAreSound, SessionIsSound
    <3>4. Steady(u, s)
      BY <1>1, <3>3, SteadyStays
    <3>5. u \in session[p].matched
      BY <1>0, <3>2, <3>4 DEF SessionsAreSound, SessionIsSound
    <3>6. QED
      BY <3>1, <3>2, <3>5 DEF DispatchCommits
  <2>3. QED
    BY <2>1, <2>2
<1>2. QED
  BY <1>1 DEF SteadyWatcherIsAlerted, Steady
-----------------------------------------------------------------------------
(* The feed: what a session does *)

SessionStep(p) ==
    \/ \E live \in BOOLEAN : Project(p, live)
    \/ ProjectCommits(p) \/ DispatchCommits(p) \/ Fail(p)
    \/ \E s \in Sources : DispatchBegins(p, s) \/ DispatchSkips(p, s)
    \/ \E u \in Users : MatchUser(p, u)

\* What becomes of a session, and that the others stay.
SessionTurns(p, row) ==
    /\ row \in SessionRows
    /\ session' = [session EXCEPT ![p] = row]

\* Between its matches a session is idle, projects, or has signals to dispatch.
BetweenMatches(row) ==
    \/ row.at = "projecting" /\ row.new \subseteq Retained
    \/ row.at \in {"idle", "dispatching"} /\ row.new \subseteq Signals'

LEMMA ProjectTurns ==
    ASSUME FeedInv, NEW p \in Sessions, NEW live \in BOOLEAN, Project(p, live)
    PROVE  \E row : SessionTurns(p, row) /\ BetweenMatches(row)
<1> DEFINE new == Retained \ Signals
           fit == {s \in new : Eligible(s, live)}
           row == [Idle EXCEPT !.at = "projecting", !.live = live, !.new = new, !.fit = fit]
<1>1. session' = [session EXCEPT ![p] = row]
  BY DEF Project
<1>2. new \in SUBSET Sources /\ fit \in SUBSET Sources /\ new \subseteq Retained
  BY DEF Retained
<1>3. row \in SessionRows /\ row.at = "projecting" /\ row.new = new
  <2> HIDE DEF new, fit
  <2>1. QED
    BY <1>2, IdleIsTyped DEF SessionRows
<1> HIDE DEF row, new
<1>4. QED
  BY <1>1, <1>2, <1>3 DEF SessionTurns, BetweenMatches

LEMMA ProjectCommitTurns ==
    ASSUME FeedInv, NEW p \in Sessions, ProjectCommits(p)
    PROVE  \E row : SessionTurns(p, row) /\ BetweenMatches(row)
<1> DEFINE new == session[p].new
           next == [Idle EXCEPT !.at = "dispatching", !.new = new]
<1>1. session[p] \in SessionRows
  BY DEF FeedInv, FeedTyped
<1>2. new \in SUBSET Sources
  BY <1>1 DEF SessionRows
<1>3. next \in SessionRows /\ next.at = "dispatching" /\ next.new = new
  <2> HIDE DEF new
  <2>1. QED
    BY <1>2, IdleIsTyped DEF SessionRows
<1>4. new \subseteq Signals'
  <2>1. \A s \in new : s \in Sources /\ signal'[s] \in {"eligible", "silent"}
    BY <1>2 DEF ProjectCommits
  <2>2. \A s \in new : signal'[s] # "absent"
    BY <2>1
  <2> HIDE DEF new
  <2>3. QED
    BY <2>1, <2>2 DEF Signals
<1>5. \/ session' = [session EXCEPT ![p] = next]
      \/ session' = [session EXCEPT ![p] = Idle]
  BY DEF ProjectCommits
<1> HIDE DEF next, new
<1>6. QED
  BY <1>3, <1>4, <1>5, IdleIsTyped DEF SessionTurns, BetweenMatches

LEMMA FailTurns ==
    ASSUME FeedInv, NEW p \in Sessions, Fail(p)
    PROVE  \E row : SessionTurns(p, row) /\ BetweenMatches(row)
BY IdleIsTyped DEF Fail, SessionTurns, BetweenMatches

LEMMA DispatchCommitTurns ==
    ASSUME FeedInv, NEW p \in Sessions, DispatchCommits(p)
    PROVE  \E row : SessionTurns(p, row) /\ BetweenMatches(row)
<1> DEFINE new == session[p].new
           next == [Idle EXCEPT !.at = "dispatching", !.new = new]
<1>1. session[p] \in SessionRows
  BY DEF FeedInv, FeedTyped
<1>2. new \in SUBSET Sources /\ new \subseteq Signals
  BY <1>1 DEF SessionRows, DispatchCommits, FeedInv, SessionsAreSound, SessionIsSound
<1>3. next \in SessionRows /\ next.at = "dispatching" /\ next.new = new
  <2> HIDE DEF new
  <2>1. QED
    BY <1>2, IdleIsTyped DEF SessionRows
<1>4. Signals' = Signals
  BY DEF DispatchCommits, Signals
<1>5. \/ session' = [session EXCEPT ![p] = next]
      \/ session' = [session EXCEPT ![p] = Idle]
  BY DEF DispatchCommits, AfterDispatch
<1> HIDE DEF next, new
<1>6. QED
  BY <1>2, <1>3, <1>4, <1>5, IdleIsTyped DEF SessionTurns, BetweenMatches

LEMMA DispatchSkipTurns ==
    ASSUME FeedInv, NEW p \in Sessions, NEW s \in Sources, DispatchSkips(p, s)
    PROVE  \E row : SessionTurns(p, row) /\ BetweenMatches(row)
<1> DEFINE old == session[p]
           at == IF old.new = {s} THEN "idle" ELSE old.at
           left == old.new \ {s}
           row == [old EXCEPT !.new = left, !.at = at]
<1>1. old \in SessionRows /\ old.at = "dispatching" /\ old.new \subseteq Signals
  BY DEF DispatchSkips, FeedInv, FeedTyped, SessionsAreSound, SessionIsSound
<1>2. session' = [session EXCEPT ![p] = row]
  BY DEF DispatchSkips, FeedInv, FeedTyped
<1>3. left \in SUBSET Sources /\ left \subseteq Signals /\ at \in {"idle", "dispatching"}
  BY <1>1 DEF SessionRows
<1>4. row \in SessionRows /\ row.at = at /\ row.new = left
  <2> HIDE DEF old, at, left
  <2>1. QED
    BY <1>1, <1>3 DEF SessionRows
<1>5. Signals' = Signals
  BY DEF DispatchSkips, Signals
<1> HIDE DEF row, left, at
<1>6. QED
  BY <1>2, <1>3, <1>4, <1>5 DEF SessionTurns, BetweenMatches

\* A session that matches has its signal to itself, and has read of u what is so, if u is steady.
KnowsOf(row, u) == row.members[u] = watch[u] /\ u \in row.unread \cup row.matched

LEMMA DispatchTurns ==
    ASSUME FeedInv, NEW p \in Sessions, NEW s \in Sources, DispatchBegins(p, s)
    PROVE  \E row :
             /\ SessionTurns(p, row)
             /\ row.at = "matching" /\ row.new \subseteq Signals /\ row.signal = s
             /\ s \in Signals \ dispatched /\ ~Matching(s)
             /\ \A u \in Users : Steady(u, s) => KnowsOf(row, u)
<1> DEFINE old == session[p]
           left == old.new \ {s}
           members == {u \in Users : watch[u] # None}
           row == [old EXCEPT !.at = "matching", !.signal = s, !.members = watch, !.new = left,
                              !.unread = members, !.matched = {}]
<1>1. /\ old \in SessionRows /\ watch \in [Users -> Instants \cup {None}]
      /\ old.at # "projecting" => old.new \subseteq Signals
  BY DEF FeedInv, FeedTyped, SessionsAreSound, SessionIsSound
<1>2. session' = [session EXCEPT ![p] = row]
  BY DEF DispatchBegins
<1>3. left \in SUBSET Sources /\ members \in SUBSET Users
  BY <1>1 DEF SessionRows
<1>4. /\ row \in SessionRows /\ row.at = "matching" /\ row.new = left /\ row.signal = s
      /\ row.members = watch /\ row.unread = members /\ row.matched = {}
  <2> HIDE DEF old, left, members
  <2>1. QED
    BY <1>1, <1>3 DEF SessionRows
<1> HIDE DEF row
<1>5. s \in Signals \ dispatched /\ ~Matching(s)
  BY <1>1 DEF DispatchBegins, MayDispatch
<1>6. left \subseteq Signals
  BY <1>1 DEF DispatchBegins, MayDispatch
<1>7. \A u \in Users : Steady(u, s) => KnowsOf(row, u)
  BY <1>4 DEF Steady, KnowsOf
<1> HIDE DEF left, members
<1>8. QED
  BY <1>2, <1>4, <1>5, <1>6, <1>7 DEF SessionTurns

LEMMA MatchTurns ==
    ASSUME FeedInv, NEW p \in Sessions, NEW v \in Users, MatchUser(p, v)
    PROVE  \E row :
             /\ SessionTurns(p, row)
             /\ session[p].at = "matching" /\ row.at = "matching" /\ row.new = session[p].new
             /\ row.signal = session[p].signal
             /\ \A u \in Users : Steady(u, session[p].signal) => KnowsOf(row, u)
<1> DEFINE old == session[p]
           s == session[p].signal
           fits == ShouldDeliver(s, old.members[v], setting[v].is)
           left == old.unread \ {v}
           matched == IF fits THEN old.matched \cup {v} ELSE old.matched
           row == [old EXCEPT !.unread = left, !.matched = matched]
<1>1. /\ old \in SessionRows /\ old.at = "matching"
      /\ \A u \in Users : Steady(u, s) => KnowsOf(old, u)
  BY DEF MatchUser, FeedInv, FeedTyped, SessionsAreSound, SessionIsSound, KnowsOf
<1>2. session' = [session EXCEPT ![p] = row]
  BY DEF MatchUser
<1>3. left \in SUBSET Users /\ matched \in SUBSET Users
  BY <1>1 DEF SessionRows
<1>4. /\ row \in SessionRows /\ row.at = old.at /\ row.new = old.new /\ row.signal = old.signal
      /\ row.members = old.members /\ row.unread = left /\ row.matched = matched
  <2> HIDE DEF old, left, matched
  <2>1. QED
    BY <1>1, <1>3 DEF SessionRows
<1> HIDE DEF row
<1>5. ASSUME NEW u \in Users, Steady(u, s) PROVE KnowsOf(row, u)
  <2>1. old.members[u] = watch[u] /\ u \in old.unread \cup old.matched
    BY <1>1, <1>5 DEF KnowsOf
  <2>2. u = v => fits
    BY <1>5, <2>1 DEF Steady, ShouldDeliver
  <2>3. u \in left \cup matched
    <3> HIDE DEF old, fits
    <3>1. QED
      BY <2>1, <2>2
  <2>4. QED
    BY <1>4, <2>1, <2>3 DEF KnowsOf
<1> HIDE DEF left, matched
<1>6. QED
  BY <1>1, <1>2, <1>4, <1>5 DEF SessionTurns
\* One session turns, to what lies between two matches or within one.
LEMMA SessionsTurn ==
    ASSUME FeedInv, NEW p \in Sessions, SessionStep(p)
    PROVE  \E row :
             /\ SessionTurns(p, row)
             /\ \/ BetweenMatches(row)
                \/ /\ row.at = "matching" /\ row.new \subseteq Signals
                   /\ row.signal \in Signals \ dispatched
                   /\ \A q \in Sessions \ {p} :
                        session[q].at = "matching" => session[q].signal # row.signal
                   /\ \A u \in Users : Steady(u, row.signal) => KnowsOf(row, u)
<1>1. ASSUME NEW s \in Sources, DispatchBegins(p, s)
      PROVE  \E row :
               /\ SessionTurns(p, row)
               /\ row.at = "matching" /\ row.new \subseteq Signals
               /\ row.signal \in Signals \ dispatched
               /\ \A q \in Sessions \ {p} :
                    session[q].at = "matching" => session[q].signal # row.signal
               /\ \A u \in Users : Steady(u, row.signal) => KnowsOf(row, u)
  BY <1>1, DispatchTurns DEF Matching
<1>2. ASSUME NEW v \in Users, MatchUser(p, v)
      PROVE  \E row :
               /\ SessionTurns(p, row)
               /\ row.at = "matching" /\ row.new \subseteq Signals
               /\ row.signal \in Signals \ dispatched
               /\ \A q \in Sessions \ {p} :
                    session[q].at = "matching" => session[q].signal # row.signal
               /\ \A u \in Users : Steady(u, row.signal) => KnowsOf(row, u)
  <2>1. /\ session[p].at = "matching" => session[p].new \subseteq Signals
        /\ session[p].at = "matching" => session[p].signal \in Signals \ dispatched
        /\ session[p].at = "matching" => \A q \in Sessions \ {p} :
             session[q].at = "matching" => session[q].signal # session[p].signal
    BY DEF FeedInv, SessionsAreSound, SessionIsSound
  <2>2. QED
    BY <1>2, <2>1, MatchTurns
<1>3. QED
  BY <1>1, <1>2, ProjectTurns, ProjectCommitTurns, FailTurns, DispatchCommitTurns, DispatchSkipTurns
  DEF SessionStep

\* Either no session moves, or one turns.
LEMMA SessionsMove ==
    ASSUME [FeedNext]_feedVars
    PROVE  UNCHANGED <<session, dispatched>> \/ \E p \in Sessions : SessionStep(p)
BY DEF FeedNext, feedVars, SessionStep, Tick, Retain, AddToWatchlist, RemoveFromWatchlist,
       CreateSettings, UpdateSettings, OpenFeed, NextPage

LEMMA SessionsStayTyped ==
    ASSUME FeedInv, [FeedNext]_feedVars PROVE session' \in [Sessions -> SessionRows]
<1>1. session \in [Sessions -> SessionRows]
  BY DEF FeedInv, FeedTyped
<1>2. CASE UNCHANGED session
  BY <1>1, <1>2
<1>3. ASSUME NEW p \in Sessions, SessionStep(p) PROVE session' \in [Sessions -> SessionRows]
  <2>1. PICK row : SessionTurns(p, row)
    BY SMTT(30), <1>3, SessionsTurn
  <2>2. QED
    BY <1>1, <2>1 DEF SessionTurns
<1>4. QED
  BY <1>2, <1>3, SessionsMove

\* What has been dispatched is what the session that commits has matched.
LEMMA WhoDispatches ==
    ASSUME FeedInv, NEW p \in Sessions, SessionStep(p)
    PROVE  /\ \/ dispatched' = dispatched
              \/ session[p].at = "matching" /\ dispatched' = dispatched \cup {session[p].signal}
           /\ dispatched' = dispatched \/ DispatchCommits(p)
BY DEF SessionStep, Project, ProjectCommits, DispatchCommits, Fail, DispatchBegins, DispatchSkips,
       MatchUser

\* A session that has not moved is sound still.
LEMMA SessionStaysSound ==
    ASSUME FeedInv, [FeedNext]_feedVars, FeedTyped', NEW q \in Sessions, session'[q] = session[q],
           session[q].at = "matching" =>
             /\ session[q].signal \notin dispatched'
             /\ \A o \in Sessions \ {q} :
                  session'[o].at = "matching" => session'[o].signal # session[q].signal
    PROVE  SessionIsSound(q)'
<1>1. SessionIsSound(q)
  BY DEF FeedInv, SessionsAreSound
<1>2. Retained \subseteq Retained' /\ Signals \subseteq Signals'
  BY SignalsStay
<1>3. ASSUME session[q].at = "matching", NEW u \in Users, Steady(u, session[q].signal)'
      PROVE  session[q].members[u] = watch'[u] /\ u \in session[q].unread \cup session[q].matched
  <2>1. PICK s \in Signals : s = session[q].signal
    BY <1>1, <1>3 DEF SessionIsSound
  <2>2. Steady(u, s)'
    BY <1>3, <2>1 DEF Steady
  <2>3. Steady(u, s) /\ watch'[u] = watch[u]
    BY <2>2, SteadyStays
  <2>4. QED
    BY <1>1, <1>3, <2>1, <2>3 DEF SessionIsSound
<1>4. session[q].at = "matching" =>
        \A u \in Users : Steady(u, session[q].signal)' =>
          /\ session[q].members[u] = watch'[u]
          /\ u \in session[q].unread \cup session[q].matched
  BY <1>3
<1>5. QED
  BY <1>1, <1>2, <1>4 DEF SessionIsSound

LEMMA SessionsStaySound ==
    ASSUME FeedInv, [FeedNext]_feedVars, FeedTyped' PROVE SessionsAreSound'
<1>0. FeedTyped /\ SessionsAreSound
  BY DEF FeedInv
<1>1. CASE UNCHANGED <<session, dispatched>>
  <2>1. ASSUME NEW q \in Sessions PROVE SessionIsSound(q)'
    <3>1. session[q].at = "matching" =>
            /\ session[q].signal \notin dispatched'
            /\ \A o \in Sessions \ {q} :
                 session'[o].at = "matching" => session'[o].signal # session[q].signal
      BY <1>0, <1>1 DEF SessionsAreSound, SessionIsSound
    <3>2. session'[q] = session[q]
      BY <1>1
    <3>3. QED
      BY <3>1, <3>2, SessionStaysSound
  <2>2. QED
    BY <2>1 DEF SessionsAreSound
<1>2. ASSUME NEW p \in Sessions, SessionStep(p) PROVE SessionsAreSound'
  <2>1. PICK row :
          /\ SessionTurns(p, row)
          /\ \/ BetweenMatches(row)
             \/ /\ row.at = "matching" /\ row.new \subseteq Signals
                /\ row.signal \in Signals \ dispatched
                /\ \A q \in Sessions \ {p} :
                     session[q].at = "matching" => session[q].signal # row.signal
                /\ \A u \in Users : Steady(u, row.signal) => KnowsOf(row, u)
    BY <1>2, SessionsTurn
  <2>2. session'[p] = row /\ \A q \in Sessions \ {p} : session'[q] = session[q]
    BY <1>0, <2>1 DEF SessionTurns, FeedTyped
  <2>3. ASSUME NEW q \in Sessions \ {p} PROVE SessionIsSound(q)'
    <3>1. session[q].at = "matching" => session[q].signal \notin dispatched'
      BY <1>0, <1>2, WhoDispatches DEF SessionsAreSound, SessionIsSound
    <3>2. ASSUME session[q].at = "matching", NEW o \in Sessions \ {q}, session'[o].at = "matching"
          PROVE  session'[o].signal # session[q].signal
      <4>1. CASE o = p
        BY <2>1, <2>2, <3>2, <4>1 DEF BetweenMatches
      <4>2. CASE o # p
        BY <1>0, <2>2, <3>2, <4>2 DEF SessionsAreSound, SessionIsSound
      <4>3. QED
        BY <4>1, <4>2
    <3>3. session'[q] = session[q] /\ q \in Sessions
      BY <2>2
    <3>4. QED
      BY <3>1, <3>2, <3>3, SessionStaysSound
  <2>4. SessionIsSound(p)'
    <3>1. CASE BetweenMatches(row)
      <4>1. Retained \subseteq Retained'
        BY SignalsStay
      <4>2. QED
        BY <2>2, <3>1, <4>1 DEF BetweenMatches, SessionIsSound
    <3>2. CASE ~BetweenMatches(row)
      <4>1. /\ row.at = "matching" /\ row.new \subseteq Signals
            /\ row.signal \in Signals \ dispatched
            /\ \A q \in Sessions \ {p} :
                 session[q].at = "matching" => session[q].signal # row.signal
            /\ \A u \in Users : Steady(u, row.signal) => KnowsOf(row, u)
        BY <2>1, <3>2
      <4>2. dispatched' = dispatched
        <5>1. DispatchCommits(p) => \E r : SessionTurns(p, r) /\ BetweenMatches(r)
          BY DispatchCommitTurns
        <5>2. \A r : SessionTurns(p, r) => r = row
          BY <1>0, <2>2 DEF SessionTurns, FeedTyped
        <5>3. ~DispatchCommits(p)
          BY <3>2, <5>1, <5>2
        <5>4. QED
          BY <1>2, <5>3, WhoDispatches
      <4>3. Signals \subseteq Signals'
        BY SignalsStay
      <4>4. ASSUME NEW u \in Users, Steady(u, row.signal)' PROVE KnowsOf(row, u)'
        <5> DEFINE s == row.signal
        <5>1. s \in Signals /\ Steady(u, s)'
          BY <4>1, <4>4
        <5> HIDE DEF s
        <5>2. Steady(u, s) /\ watch'[u] = watch[u]
          BY <5>1, SteadyStays
        <5> USE DEF s
        <5>3. QED
          BY <4>1, <5>2 DEF KnowsOf
      <4>5. QED
        BY <2>2, <4>1, <4>2, <4>3, <4>4 DEF SessionIsSound, KnowsOf
    <3>3. QED
      BY <3>1, <3>2
  <2>5. QED
    BY <2>3, <2>4 DEF SessionsAreSound
<1>3. QED
  BY <1>1, <1>2, SessionsMove
-----------------------------------------------------------------------------
(* The feed: its pages *)

LEMMA SignalsAreKnown ==
    ASSUME FeedInv, NEW s \in Signals
    PROVE  s \in Sources /\ known[s] \in Int /\ Attention[s] \in Int /\ Id[s] \in Int
<1>1. s \in Retained /\ s \in Sources
  BY DEF FeedInv, SignalsAreRetained, Signals
<1>2. known[s] \in Instants
  BY <1>1 DEF FeedInv, SignalsAreRetained
<1>3. Attention[s] \in 1..3 /\ Id[s] \in Nat
  BY <1>1, SourcesAssumption
<1>4. QED
  BY <1>1, <1>2, <1>3 DEF Instants

\* The feed shows signals in a row.
LEMMA FeedIsARow ==
    ASSUME FeedInv
    PROVE  /\ \A s \in Signals : ~InFront(s, s)
           /\ \A s, t \in Signals : s # t => InFront(s, t) \/ InFront(t, s)
           /\ \A s, t, u \in Signals : InFront(s, t) /\ InFront(t, u) => InFront(s, u)
<1>1. \A s \in Signals : s \in Sources /\ known[s] \in Int /\ Attention[s] \in Int /\ Id[s] \in Int
  BY SignalsAreKnown
<1>2. \A s \in Signals : ~InFront(s, s)
  BY <1>1 DEF InFront
<1>3. ASSUME NEW s \in Signals, NEW t \in Signals, s # t PROVE InFront(s, t) \/ InFront(t, s)
  <2>1. Id[s] # Id[t]
    BY <1>1, <1>3, SourcesAssumption
  <2>2. QED
    BY <1>1, <2>1 DEF InFront
<1>4. ASSUME NEW s \in Signals, NEW t \in Signals, NEW u \in Signals, InFront(s, t), InFront(t, u)
      PROVE  InFront(s, u)
  BY <1>1, <1>4 DEF InFront
<1>5. QED
  BY <1>2, <1>3, <1>4

\* Some signals have a first and a last.
LEMMA FirstAndLast ==
    ASSUME FeedInv, NEW some \in SUBSET Signals, some # {}
    PROVE  /\ IsFiniteSet(some)
           /\ \E s \in some : \A t \in some : ~InFront(t, s)
           /\ \E s \in some : \A t \in some : ~InFront(s, t)
<1> DEFINE before == {p \in some \X some : InFront(p[1], p[2])}
           behind == {p \in some \X some : InFront(p[2], p[1])}
<1>1. \A s, t \in some : <<s, t>> \in before <=> InFront(s, t)
  OBVIOUS
<1>2. \A s, t \in some : <<s, t>> \in behind <=> InFront(t, s)
  OBVIOUS
<1>3. IsFiniteSet(some)
  <2>1. some \subseteq Sources
    BY DEF Signals
  <2>2. QED
    BY <2>1, SourcesAssumption, FS_Subset
<1>4. /\ \A s \in some : ~InFront(s, s)
      /\ \A s, t \in some : s # t => InFront(s, t) \/ InFront(t, s)
      /\ \A s, t, u \in some : InFront(s, t) /\ InFront(t, u) => InFront(s, u)
  <2>1. \A s \in some : s \in Signals
    OBVIOUS
  <2>2. QED
    BY <2>1, FeedIsARow
<1> HIDE DEF before, behind
<1>5. IsRow(some, before)
  BY <1>1, <1>4 DEF IsRow
<1>6. IsRow(some, behind)
  BY <1>2, <1>4 DEF IsRow
<1>7. PICK s \in some : \A t \in some \ {s} : <<s, t>> \in before
  BY <1>3, <1>5, SomebodyIsFirst
<1>8. PICK r \in some : \A t \in some \ {r} : <<r, t>> \in behind
  BY <1>3, <1>6, SomebodyIsFirst
<1>9. \A t \in some : ~InFront(t, s)
  BY <1>1, <1>4, <1>7
<1>10. \A t \in some : ~InFront(r, t)
  BY <1>2, <1>4, <1>8
<1>11. QED
  BY <1>3, <1>9, <1>10

\* What a page continues: nothing, or what has been shown up to its cursor.
Continues(old) ==
    /\ old.cutoff \in Instants
    /\ old.shown \in SUBSET Signals /\ old.rows = Cardinality(old.shown)
    /\ \/ old.cursor = None /\ old.shown = {}
       \/ /\ old.cursor \in Signals
          /\ \A s \in old.shown : s = old.cursor \/ InFront(s, old.cursor)

\* The rows of a page are all after the cursor, and after what has been shown.
LEMMA PageTurns ==
    ASSUME FeedInv, NEW u \in Users, NEW old, Continues(old), ReadPage(u, old)
    PROVE  \E row \in PageRows :
             /\ page' = [page EXCEPT ![u] = row]
             /\ row.rows = Cardinality(row.shown)
             /\ row.at = "open" =>
                  /\ row.cursor \in Signals /\ row.shown \subseteq Signals
                  /\ \A s \in row.shown : s = row.cursor \/ InFront(s, row.cursor)
<1> DEFINE rest == {s \in Latest(u, old.cutoff) : AfterCursor(old.cursor, s)}
           rows == {s \in rest : Cardinality({t \in rest : InFront(t, s)}) < PageSize}
           last == CHOOSE s \in rows : \A t \in rows : ~InFront(s, t)
           shown == old.shown \cup rows
           row == [at |-> IF rows = rest THEN "closed" ELSE "open",
                   cutoff |-> old.cutoff,
                   cursor |-> IF rows = rest THEN None ELSE last,
                   shown |-> shown,
                   rows |-> old.rows + Cardinality(rows)]
<1>1. page' = [page EXCEPT ![u] = row]
  BY DEF ReadPage
<1>2. rest \subseteq Signals /\ rows \subseteq rest /\ \A s \in rest : AfterCursor(old.cursor, s)
  BY DEF Latest, Visible
<1>3. rows # rest => rows # {}
  <2>1. SUFFICES ASSUME rest # {} PROVE rows # {}
    OBVIOUS
  <2>2. PICK s \in rest : \A t \in rest : ~InFront(t, s)
    <3> HIDE DEF rest
    <3>1. QED
      BY <1>2, <2>1, FirstAndLast
  <2>3. {t \in rest : InFront(t, s)} = {}
    BY <2>2
  <2>4. Cardinality({t \in rest : InFront(t, s)}) = 0
    BY <2>3, FS_EmptySet
  <2>5. 0 < PageSize
    BY BoundsAssumption
  <2>6. s \in rows
    <3> HIDE DEF rest
    <3>1. QED
      BY <2>4, <2>5
  <2>7. QED
    BY <2>6
<1>4. rows # {} => last \in rows /\ \A t \in rows : ~InFront(last, t)
  <2>1. ASSUME rows # {} PROVE \E s \in rows : \A t \in rows : ~InFront(s, t)
    <3> HIDE DEF rows, rest
    <3>1. QED
      BY <1>2, <2>1, FirstAndLast
  <2> HIDE DEF rows, rest
  <2>2. QED
    BY <2>1
<1> HIDE DEF row, rest, rows, last
<1>5. row.at = (IF rows = rest THEN "closed" ELSE "open") /\ row.cutoff = old.cutoff
      /\ row.cursor = (IF rows = rest THEN None ELSE last)
      /\ row.shown = shown /\ row.rows = old.rows + Cardinality(rows)
  BY DEF row
<1>6. old.shown \cap rows = {}
  <2>1. ASSUME NEW s \in old.shown, s \in rows PROVE FALSE
    <3>1. s \in Signals /\ AfterCursor(old.cursor, s)
      BY <1>2, <2>1
    <3>2. /\ old.cursor \in Signals /\ InFront(old.cursor, s)
          /\ s = old.cursor \/ InFront(s, old.cursor)
      BY <2>1, <3>1, SourcesAssumption DEF Continues, AfterCursor, Signals
    <3>3. QED
      BY <3>1, <3>2, FeedIsARow
  <2>2. QED
    BY <2>1
<1>7. IsFiniteSet(old.shown) /\ IsFiniteSet(rows)
  <2>1. old.shown \subseteq Sources /\ rows \subseteq Sources
    BY <1>2 DEF Continues, Signals
  <2>2. QED
    BY <2>1, SourcesAssumption, FS_Subset
<1>8. /\ Cardinality(shown) = Cardinality(old.shown) + Cardinality(rows)
      /\ Cardinality(old.shown) \in Nat /\ Cardinality(rows) \in Nat
  <2>1. /\ Cardinality(shown)
             = Cardinality(old.shown) + Cardinality(rows) - Cardinality(old.shown \cap rows)
        /\ Cardinality(old.shown) \in Nat /\ Cardinality(rows) \in Nat
    BY <1>7, FS_Union, FS_CardinalityType
  <2>2. Cardinality(old.shown \cap rows) = 0
    BY <1>6, FS_EmptySet
  <2>3. QED
    BY <2>1, <2>2
<1>9. row.rows = Cardinality(row.shown) /\ row.rows \in Nat
  BY <1>5, <1>8 DEF Continues
<1>10. shown \subseteq Signals
  BY <1>2 DEF Continues
<1>11. ASSUME rows # rest
       PROVE  last \in Signals /\ \A s \in shown : s = last \/ InFront(s, last)
  <2>1. last \in rows /\ last \in Signals /\ AfterCursor(old.cursor, last)
    BY <1>2, <1>3, <1>4, <1>11
  <2>2. ASSUME NEW s \in rows PROVE s = last \/ InFront(s, last)
    <3>1. s \in Signals /\ ~InFront(last, s)
      BY <1>2, <1>3, <1>4, <1>11
    <3>2. QED
      BY <2>1, <3>1, FeedIsARow
  <2>3. ASSUME NEW s \in old.shown PROVE InFront(s, last)
    <3>1. /\ s \in Signals /\ old.cursor \in Signals /\ InFront(old.cursor, last)
          /\ s = old.cursor \/ InFront(s, old.cursor)
      BY <2>1, SourcesAssumption DEF Continues, AfterCursor, Signals
    <3>2. QED
      BY <2>1, <3>1, FeedIsARow
  <2>4. QED
    BY <2>1, <2>2, <2>3
<1>12. row \in PageRows
  <2>1. /\ (IF rows = rest THEN "closed" ELSE "open") \in {"closed", "open"}
        /\ old.cutoff \in Instants
        /\ (IF rows = rest THEN None ELSE last) \in Sources \cup {None}
        /\ shown \in SUBSET Sources
    BY <1>10, <1>11 DEF Continues, Signals
  <2>2. old.rows + Cardinality(rows) \in Nat
    BY <1>5, <1>9
  <2> HIDE DEF shown
  <2>3. QED
    BY <2>1, <2>2 DEF row, PageRows
<1>13. row.at = "open" => rows # rest
  BY <1>5
<1> HIDE DEF shown
<1>14. QED
  BY <1>1, <1>5, <1>9, <1>10, <1>11, <1>12, <1>13

LEMMA FeedTurns ==
    ASSUME FeedInv, NEW u \in Users, OpenFeed(u) \/ NextPage(u)
    PROVE  \E old : Continues(old) /\ ReadPage(u, old)
<1>1. CASE OpenFeed(u)
  <2> DEFINE old == [Closed EXCEPT !.cutoff = now]
  <2>1. /\ old.cutoff = now /\ old.cursor = None /\ old.shown = {} /\ old.rows = 0
    BY DEF Closed
  <2>2. ReadPage(u, old)
    BY <1>1 DEF OpenFeed
  <2> HIDE DEF old
  <2>3. Continues(old)
    BY <2>1, FS_EmptySet DEF Continues, FeedInv, FeedTyped
  <2>4. QED
    BY <2>2, <2>3
<1>2. CASE NextPage(u)
  <2>1. ReadPage(u, page[u]) /\ page[u].at = "open" /\ page[u] \in PageRows /\ PageIsSound(u)
    BY <1>2 DEF NextPage, FeedInv, FeedTyped, PagesAreSound
  <2>2. Continues(page[u])
    BY <2>1 DEF Continues, PageRows, PageIsSound
  <2>3. QED
    BY <2>1, <2>2
<1>3. QED
  BY <1>1, <1>2

LEMMA PagesStaySound ==
    ASSUME FeedInv, [FeedNext]_feedVars
    PROVE  page' \in [Users -> PageRows] /\ PagesAreSound'
<1>0. page \in [Users -> PageRows] /\ PagesAreSound
  BY DEF FeedInv, FeedTyped
<1>1. ASSUME NEW w \in Users, page'[w] = page[w] PROVE PageIsSound(w)'
  <2>1. PageIsSound(w)
    BY <1>0 DEF PagesAreSound
  <2>2. \A s \in Signals : s \in Signals' /\ known'[s] = known[s]
    BY SignalsStay DEF FeedInv, SignalsAreRetained
  <2>3. \A s, t \in Signals : InFront(s, t) => InFront(s, t)'
    BY <2>2 DEF InFront
  <2>4. QED
    BY <1>1, <2>1, <2>2, <2>3 DEF PageIsSound
<1>2. CASE UNCHANGED page
  BY <1>0, <1>1, <1>2 DEF PagesAreSound
<1>3. ASSUME NEW u \in Users, OpenFeed(u) \/ NextPage(u)
      PROVE  page' \in [Users -> PageRows] /\ PagesAreSound'
  <2>1. PICK old : Continues(old) /\ ReadPage(u, old)
    BY <1>3, FeedTurns
  <2>2. PICK row \in PageRows :
             /\ page' = [page EXCEPT ![u] = row]
             /\ row.rows = Cardinality(row.shown)
             /\ row.at = "open" =>
                  /\ row.cursor \in Signals /\ row.shown \subseteq Signals
                  /\ \A s \in row.shown : s = row.cursor \/ InFront(s, row.cursor)
    BY <2>1, PageTurns
  <2>3. /\ page' \in [Users -> PageRows] /\ page'[u] = row
        /\ \A w \in Users \ {u} : page'[w] = page[w]
    BY <1>0, <2>2
  <2>4. UNCHANGED <<known, signal>>
    BY <1>3 DEF OpenFeed, NextPage
  <2>5. PageIsSound(u)'
    BY <2>2, <2>3, <2>4 DEF PageIsSound, Signals, InFront
  <2>6. QED
    BY <1>1, <2>3, <2>5 DEF PagesAreSound
<1>4. QED
  BY <1>2, <1>3, WhoWrites
-----------------------------------------------------------------------------
(* The feed: theorems *)

LEMMA FeedStaysTyped == ASSUME FeedInv, [FeedNext]_feedVars PROVE FeedTyped'
<1>0. FeedTyped /\ SessionsAreSound
  BY DEF FeedInv
<1>1. now' \in Instants
  <2>1. CASE Tick
    BY <1>0, <2>1, BoundsAssumption DEF Tick, FeedTyped, Instants
  <2>2. CASE UNCHANGED now
    BY <1>0, <2>2 DEF FeedTyped
  <2>3. QED
    BY <2>1, <2>2, WhoWrites
<1>2. known' \in [Sources -> Instants \cup {None}]
  BY <1>0, WhoWrites DEF Retain, FeedTyped
<1>3. signal' \in [Sources -> SignalStates]
  <2>1. ASSUME NEW p \in Sessions, ProjectCommits(p) PROVE signal' \in [Sources -> SignalStates]
    BY <1>0, <2>1 DEF ProjectCommits, FeedTyped, SignalStates
  <2>2. QED
    BY <1>0, <2>1, WhoWrites DEF FeedTyped
<1>4. watch' \in [Users -> Instants \cup {None}]
  BY <1>0, WhoWrites DEF AddToWatchlist, RemoveFromWatchlist, FeedTyped
<1>5. setting' \in [Users -> SettingRows]
  <2>1. ASSUME NEW u \in Users, NEW v \in {"on", "off"}, CreateSettings(u, v) \/ UpdateSettings(u, v)
        PROVE  setting' \in [Users -> SettingRows]
    <3>1. [is |-> v, at |-> now] \in SettingRows
      BY <1>0 DEF FeedTyped, SettingRows
    <3>2. setting' = [setting EXCEPT ![u] = [is |-> v, at |-> now]]
      BY <2>1 DEF CreateSettings, UpdateSettings
    <3>3. QED
      BY <1>0, <3>1, <3>2 DEF FeedTyped
  <2>2. QED
    BY <1>0, <2>1, WhoWrites DEF FeedTyped
<1>6. dispatched' \in SUBSET Sources /\ delivery' \in SUBSET (Users \X Sources)
  <2>1. ASSUME NEW p \in Sessions, DispatchCommits(p)
        PROVE  dispatched' \in SUBSET Sources /\ delivery' \in SUBSET (Users \X Sources)
    <3>1. session[p] \in SessionRows /\ session[p].signal \in Signals
      BY <1>0, <2>1 DEF DispatchCommits, FeedTyped, SessionsAreSound, SessionIsSound
    <3>2. session[p].matched \in SUBSET Users /\ session[p].signal \in Sources
      BY <3>1 DEF SessionRows, Signals
    <3>3. QED
      BY <1>0, <2>1, <3>2 DEF DispatchCommits, FeedTyped
  <2>2. QED
    BY <1>0, <2>1, WhoWrites DEF FeedTyped
<1>7. session' \in [Sessions -> SessionRows] /\ page' \in [Users -> PageRows]
  BY SessionsStayTyped, PagesStaySound
<1>8. QED
  BY <1>1, <1>2, <1>3, <1>4, <1>5, <1>6, <1>7 DEF FeedTyped

LEMMA FeedNextKeeps == FeedInv /\ [FeedNext]_feedVars => FeedInv'
<1> SUFFICES ASSUME FeedInv, [FeedNext]_feedVars PROVE FeedInv'
  OBVIOUS
<1>1. FeedTyped'
  BY FeedStaysTyped
<1>2. SignalsAreRetained' /\ SessionsAreSound' /\ SteadyWatcherIsAlerted'
  BY <1>1, RetentionKeeps, SessionsStaySound, SteadyAreAlerted
<1>3. PagesAreSound'
  BY PagesStaySound
<1>4. QED
  BY <1>1, <1>2, <1>3 DEF FeedInv

\* The inductive invariant: a session that matches is right of the users who have been steady
\* since before its signal was known, and has the signal to itself.
THEOREM FeedSafe == FeedSpec => []FeedInv
<1>1. QED
  BY FeedInitially, FeedNextKeeps, PTL DEF FeedSpec

LEMMA PagesShown == FeedInv => PagesShowOnce
BY DEF FeedInv, PagesAreSound, PageIsSound, PagesShowOnce

LEMMA FeedTypes == FeedInv => FeedTypeOK
<1> SUFFICES ASSUME FeedInv PROVE FeedTypeOK
  OBVIOUS
<1>1. FeedTyped /\ PagesShowOnce
  BY PagesShown DEF FeedInv
<1>2. ASSUME NEW u \in Users PROVE page[u].rows \in 0..(PageSize * Cardinality(Sources))
  <2>1. page[u].rows = Cardinality(page[u].shown) /\ page[u].shown \subseteq Sources
    BY <1>1 DEF FeedTyped, PageRows, PagesShowOnce
  <2>2. page[u].rows \in Nat /\ page[u].rows <= Cardinality(Sources) /\ Cardinality(Sources) \in Nat
    BY <2>1, SourcesAssumption, FS_Subset, FS_CardinalityType
  <2>3. \A n, m, k \in Nat : k # 0 /\ n <= m => n <= k * m
    OBVIOUS
  <2>4. PageSize \in Nat /\ PageSize # 0
    BY BoundsAssumption
  <2>5. page[u].rows <= PageSize * Cardinality(Sources)
    BY <2>2, <2>3, <2>4
  <2>6. PageSize * Cardinality(Sources) \in Nat
    BY <2>2, <2>4
  <2>7. QED
    BY <2>2, <2>5, <2>6
<1>3. page \in [Users -> [at : {"closed", "open"}, cutoff : Instants,
                          cursor : Sources \cup {None}, shown : SUBSET Sources,
                          rows : 0..(PageSize * Cardinality(Sources))]]
  <2> DEFINE most == PageSize * Cardinality(Sources)
  <2>1. \A u \in Users : page[u].rows \in 0..most
    BY <1>2
  <2> HIDE DEF most
  <2>2. ASSUME NEW u \in Users
        PROVE  page[u] \in [at : {"closed", "open"}, cutoff : Instants,
                            cursor : Sources \cup {None}, shown : SUBSET Sources, rows : 0..most]
    <3>1. page[u] \in PageRows /\ page[u].rows \in 0..most
      BY <1>1, <2>1 DEF FeedTyped
    <3>2. QED
      BY <3>1 DEF PageRows
  <2>3. page \in [Users -> PageRows]
    BY <1>1 DEF FeedTyped
  <2>4. page \in [Users -> [at : {"closed", "open"}, cutoff : Instants,
                            cursor : Sources \cup {None}, shown : SUBSET Sources, rows : 0..most]]
    BY <2>2, <2>3
  <2> USE DEF most
  <2>5. QED
    BY <2>4
<1>4. session \in [Sessions -> [at : {"idle", "projecting", "dispatching", "matching"},
                                 live : BOOLEAN, new : SUBSET Sources, fit : SUBSET Sources,
                                 signal : Sources \cup {None},
                                 members : [Users -> Instants \cup {None}],
                                 unread : SUBSET Users, matched : SUBSET Users]]
  BY <1>1 DEF FeedTyped, SessionRows
<1>5. QED
  BY <1>1, <1>3, <1>4 DEF FeedTyped, FeedTypeOK, SignalStates, SettingRows

\* The rows, the sessions and the pages of the feed keep their types: research_feed/service.py.
THEOREM FeedTypeCorrect == FeedSpec => []FeedTypeOK
<1>1. QED
  BY FeedSafe, FeedTypes, PTL

\* Who has watched, and let signals pass, since before a signal was known has been alerted once
\* its dispatch has committed, whatever sessions project and dispatch beside each other and
\* whoever changes his settings meanwhile.
THEOREM SteadyAlerted == FeedSpec => []SteadyWatcherIsAlerted
<1>1. FeedInv => SteadyWatcherIsAlerted
  BY DEF FeedInv
<1>2. QED
  BY <1>1, FeedSafe, PTL

\* A user who pages while signals arrive is shown no row twice: feed's cursors.
THEOREM ShownOnce == FeedSpec => []PagesShowOnce
<1>1. QED
  BY FeedSafe, PagesShown, PTL

\* The first projection of a signal decides what it is: project_symbol's unique constraint.
THEOREM SignalsStayAsTheyAre == FeedSpec => SignalsAreImmutable
<1>1. FeedInv /\ [FeedNext]_feedVars => [\A s \in Signals : signal'[s] = signal[s]]_signal
  BY SignalsStay
<1>2. QED
  BY <1>1, FeedSafe, PTL DEF FeedSpec, SignalsAreImmutable

\* A dispatched signal makes no further alerts, whoever dispatches it again.
THEOREM AlertedOnce == FeedSpec => AlertsOnce
<1>1. ASSUME FeedInv, [FeedNext]_feedVars
      PROVE  [\A u \in Users, s \in dispatched :
                <<u, s>> \in delivery' => <<u, s>> \in delivery]_delivery
  <2>1. ASSUME NEW p \in Sessions, DispatchCommits(p), NEW u \in Users, NEW s \in dispatched,
               <<u, s>> \in delivery'
        PROVE  <<u, s>> \in delivery
    <3>1. session[p].signal \notin dispatched
      BY <1>1, <2>1 DEF DispatchCommits, FeedInv, SessionsAreSound, SessionIsSound
    <3>2. QED
      BY <2>1, <3>1 DEF DispatchCommits
  <2>2. QED
    BY <1>1, <2>1, WhoWrites
<1>2. QED
  BY <1>1, FeedSafe, PTL DEF FeedSpec, AlertsOnce

-----------------------------------------------------------------------------
(* The run, the feed, the screening and the facts together *)

\* Each of the four takes its own steps or none: what holds of it alone holds beside the others.
LEMMA EachIsItself == AutomationSpec => Spec /\ FeedSpec /\ ScreeningSpec /\ FactsSpec
<1>1. AutomationInit => Init /\ FeedInit /\ ScreeningInit /\ FactsInit
  BY DEF AutomationInit
<1>2. [RunMoves \/ FeedMoves \/ ScreeningMoves \/ FactsMoves]_automationVars =>
        /\ [Next]_vars /\ [FeedNext]_feedVars
        /\ [ScreeningNext]_screeningVars /\ [FactsNext]_factVars
  BY DEF automationVars, RunMoves, FeedMoves, ScreeningMoves, FactsMoves
<1>3. QED
  BY <1>1, <1>2, PTL DEF AutomationSpec, Spec, FeedSpec, ScreeningSpec, FactsSpec

\* The rows, the sessions and the messages of the four keep their types: automation/service.py,
\* research_feed/service.py, screening/service.py, and fundamentals/service.py with
\* research/service.py.
THEOREM AutomationTypeCorrect == AutomationSpec => []AutomationTypeOK
<1>1. TypeOK /\ FeedTypeOK /\ ScreeningTypeOK /\ FactsTypeOK => AutomationTypeOK
  BY DEF AutomationTypeOK
<1>2. QED
  BY <1>1, EachIsItself, TypeCorrect, FeedTypeCorrect, ScreeningTypeCorrect, FactsTypeCorrect, PTL
=============================================================================
