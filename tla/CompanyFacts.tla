----------------------------- MODULE CompanyFacts -----------------------------
(***************************************************************************)
(* FundamentalSyncService and DeterministicResearchService: the statements *)
(* and valuations of a company are fetched and stored, metrics of them are *)
(* kept in immutable snapshots, and research snapshots are built of what   *)
(* was known at a cutoff.  A snapshot is identified by the data it is of;  *)
(* the one of the latest cutoff is shown.                                  *)
(*                                                                         *)
(* One company with one valuation.  A revision of the statements is never  *)
(* changed; a valuation is, in place, with the moment it was collected.    *)
(***************************************************************************)
EXTENDS Integers

CONSTANTS
    Syncs,          \* sync_financial_statements and sync_valuations
    Builders,       \* build_snapshot
    MaxRevision,    \* bound: of the statements
    MaxValue,       \* bound: values the provider gives, in this order
    MaxMoment,      \* bound
    MaxFactLosses   \* bound: syncs and builds that fail or are lost

ASSUME FactsAssumption == {MaxRevision, MaxValue, MaxMoment, MaxFactLosses} \subseteq Nat \ {0}

VARIABLES
    moment,         \* of the last stamp or collection
    given,          \* what the provider gives
    stored,         \* financial_report_revisions and valuation_observations
    done,           \* the kinds of sync that have succeeded today (data_sync_runs)
    sync,
    metrics,        \* fundamental_snapshots
    builds,         \* research_build_runs, by their data
    builder,
    filed,          \* research_snapshots
    ended,          \* the build of the latest cutoff of those that have ended well
    returned,       \* whether a valuation has been set back to a value it had before
    mixed,          \* whether a sync has read a valuation that was collected after its as_of
    torn,           \* whether a build has left out a valuation for being collected meanwhile
    factLosses

factVars == <<moment, given, stored, done, sync, metrics, builds, builder, filed,
              ended, returned, mixed, torn, factLosses>>

Kinds == {"reports", "valuations"}
Nothing == 0           \* no revision, or no valuation
DataOf(row) == <<row.r, row.v>>
Data == (0..MaxRevision) \X (0..MaxValue)
IdleSync == [at |-> "idle", kind |-> "reports", got |-> 0, asof |-> 0, r |-> Nothing, v |-> Nothing]
IdleBuilder == [at |-> "idle", cutoff |-> 0, r |-> Nothing, v |-> Nothing]

FactsInit ==
    /\ moment = 0
    /\ given = [r |-> Nothing, v |-> Nothing]
    /\ stored = [r |-> Nothing, v |-> Nothing, at |-> 0, by |-> "nobody", sound |-> FALSE]
    /\ done = {}
    /\ sync = [s \in Syncs |-> IdleSync]
    /\ metrics = {}
    /\ builds = [d \in Data |-> "absent"]
    /\ builder = [b \in Builders |-> IdleBuilder]
    /\ filed = {}
    /\ ended = [cutoff |-> 0, r |-> Nothing, v |-> Nothing]
    /\ returned = FALSE /\ mixed = FALSE /\ torn = FALSE /\ factLosses = 0

Later == moment < MaxMoment /\ moment' = moment + 1
FactTrouble == factLosses < MaxFactLosses /\ factLosses' = factLosses + 1

-----------------------------------------------------------------------------
(* Syncs *)

\* The provider publishes a revision, or gives another value; a day passes.
Publish ==
    /\ \/ given.r < MaxRevision /\ given' = [given EXCEPT !.r = @ + 1]
       \/ given.v < MaxValue /\ given' = [given EXCEPT !.v = @ + 1]
    /\ UNCHANGED <<moment, stored, done, sync, metrics, builds, builder, filed,
                   ended, returned, mixed, torn, factLosses>>

NextFactsDay ==
    /\ done # {} /\ done' = {}
    /\ UNCHANGED <<moment, given, stored, sync, metrics, builds, builder, filed,
                   ended, returned, mixed, torn, factLosses>>

\* A sync that has succeeded today is skipped; the others ask the provider.
FetchFacts(s, kind) ==
    /\ sync[s].at = "idle" /\ kind \notin done
    /\ sync' = [sync EXCEPT ![s] = [IdleSync EXCEPT !.at = "store", !.kind = kind,
                                    !.got = IF kind = "reports" THEN given.r ELSE given.v]]
    /\ UNCHANGED <<moment, given, stored, done, metrics, builds, builder, filed,
                   ended, returned, mixed, torn, factLosses>>

\* upsert_reports: the revisions there are stay.
StoreReports(s) ==
    /\ sync[s].at = "store" /\ sync[s].kind = "reports"
    /\ stored' = [stored EXCEPT !.r = IF sync[s].got > @ THEN sync[s].got ELSE @,
                                !.by = s, !.sound = FALSE]
    /\ sync' = [sync EXCEPT ![s].at = "reports"]
    /\ UNCHANGED <<moment, given, done, metrics, builds, builder, filed, ended,
                   returned, mixed, torn, factLosses>>

\* upsert_valuations: the value is written over, with the moment of its collection.
StoreValuations(s) ==
    /\ sync[s].at = "store" /\ sync[s].kind = "valuations"
    /\ Later
    /\ LET got == sync[s].got  now == [stored EXCEPT !.by = s, !.sound = FALSE]
       IN  /\ stored' = IF got = Nothing THEN now ELSE [now EXCEPT !.v = got, !.at = moment']
           /\ returned' = (returned \/ got < stored.v)
    /\ sync' = [sync EXCEPT ![s].at = "reports"]
    /\ UNCHANGED <<given, done, metrics, builds, builder, filed, ended, mixed,
                   torn, factLosses>>

\* compute_snapshot: as_of is now, then the statements and then the valuations are read.
ReadReports(s) ==
    /\ sync[s].at = "reports"
    /\ Later
    /\ sync' = [sync EXCEPT ![s].at = "valuations", ![s].asof = moment', ![s].r = stored.r]
    /\ UNCHANGED <<given, stored, done, metrics, builds, builder, filed,
                   ended, returned, mixed, torn, factLosses>>

\* Variant and code: a sync of statements has loaded no valuations; every sync reads them.
OfItsKind(s) == IF sync[s].kind = "valuations" THEN stored.v ELSE Nothing
ValuationRead(s) == stored.v

ReadValuations(s) ==
    /\ sync[s].at = "valuations"
    /\ sync' = [sync EXCEPT ![s].at = "save", ![s].v = ValuationRead(s)]
    /\ mixed' = (mixed \/ stored.at > sync[s].asof)
    /\ UNCHANGED <<moment, given, stored, done, metrics, builds, builder, filed,
                   ended, returned, torn, factLosses>>

\* The moment before the first read.
Stamped(s) == sync[s].asof

\* save_snapshot, of a company with statements, unless there is one of the same data.
SaveMetrics(s) ==
    /\ sync[s].at = "save"
    /\ metrics' = IF sync[s].r = Nothing \/ \E m \in metrics : DataOf(m) = DataOf(sync[s])
                  THEN metrics
                  ELSE metrics \cup {[asof |-> Stamped(s), r |-> sync[s].r, v |-> sync[s].v]}
    /\ sync' = [sync EXCEPT ![s].at = "finish"]
    /\ UNCHANGED <<moment, given, stored, done, builds, builder, filed,
                   ended, returned, mixed, torn, factLosses>>

FinishSync(s) ==
    /\ sync[s].at = "finish"
    /\ done' = done \cup {sync[s].kind}
    /\ stored' = [stored EXCEPT !.sound = @ \/ stored.by = s]
    /\ sync' = [sync EXCEPT ![s] = IdleSync]
    /\ UNCHANGED <<moment, given, metrics, builds, builder, filed,
                   ended, returned, mixed, torn, factLosses>>

\* A sync fails, at the provider or at a write, or is lost: what it has stored stays.
FailSync(s) ==
    /\ sync[s].at # "idle" /\ FactTrouble
    /\ sync' = [sync EXCEPT ![s] = IdleSync]
    /\ UNCHANGED <<moment, given, stored, done, metrics, builds, builder, filed,
                   ended, returned, mixed, torn>>

-----------------------------------------------------------------------------
(* Research snapshots *)

GoBuilder(b, at) == builder' = [builder EXCEPT ![b].at = at]

\* A build that ends well, by its own snapshot or by one that is there.
EndBuild(b) ==
    /\ builder' = [builder EXCEPT ![b] = IdleBuilder]
    /\ ended' = IF builder[b].cutoff > ended.cutoff
                THEN [cutoff |-> builder[b].cutoff, r |-> builder[b].r, v |-> builder[b].v]
                ELSE ended

\* build_snapshot: the cutoff is now; statements, then valuations collected up to the cutoff.
BeginBuild(b) ==
    /\ builder[b].at = "idle" /\ Later
    /\ builder' = [builder EXCEPT ![b] = [at |-> "valuations", cutoff |-> moment',
                                            r |-> stored.r, v |-> Nothing]]
    /\ UNCHANGED <<given, stored, done, sync, metrics, builds, filed,
                   ended, returned, mixed, torn, factLosses>>

ReadUpToCutoff(b) ==
    /\ builder[b].at = "valuations"
    /\ LET missed == stored.v # Nothing /\ stored.at > builder[b].cutoff
       IN  /\ builder' = [builder EXCEPT ![b].at = "find",
                                         ![b].v = IF missed THEN Nothing ELSE stored.v]
           /\ torn' = (torn \/ missed)
    /\ UNCHANGED <<moment, given, stored, done, sync, metrics, builds, filed,
                   ended, returned, mixed, factLosses>>

FindSnapshot(b) ==
    /\ builder[b].at = "find"
    /\ IF \E n \in filed : DataOf(n) = DataOf(builder[b]) THEN EndBuild(b)
       ELSE GoBuilder(b, "acquire") /\ UNCHANGED ended
    /\ UNCHANGED <<moment, given, stored, done, sync, metrics, builds, filed,
                   returned, mixed, torn, factLosses>>

\* Variant and code: an equivalent build that runs will have a snapshot; one that has succeeded has.
BuiltOrBeing(d) == builds[d] \in {"running", "succeeded"}
BuiltAlready(d) == builds[d] = "succeeded" /\ \E n \in filed : DataOf(n) = d

\* acquire_research_run: a new run, a failed one or one whose lease of thirty minutes is over.
\* Of an equivalent build that has succeeded there is a snapshot; one that runs is an error.
AcquireBuild(b) ==
    /\ builder[b].at = "acquire"
    /\ LET d == DataOf(builder[b])
       IN  CASE builds[d] \in {"absent", "failed", "lapsed"} ->
                  /\ builds' = [builds EXCEPT ![d] = "running"]
                  /\ GoBuilder(b, "save") /\ UNCHANGED ended
             [] BuiltAlready(d) ->
                  EndBuild(b) /\ UNCHANGED builds
             [] OTHER -> /\ builder' = [builder EXCEPT ![b] = IdleBuilder]
                         /\ UNCHANGED <<builds, ended>>
    /\ UNCHANGED <<moment, given, stored, done, sync, metrics, filed, returned,
                   mixed, torn, factLosses>>

\* on_conflict_do_nothing.
SavedAlready(d) == \E n \in filed : DataOf(n) = d

SaveSnapshot(b) ==
    /\ builder[b].at = "save"
    /\ filed' = IF SavedAlready(DataOf(builder[b])) THEN filed
              ELSE filed \cup {[cutoff |-> builder[b].cutoff, r |-> builder[b].r,
                                    v |-> builder[b].v]}
    /\ GoBuilder(b, "finish")
    /\ UNCHANGED <<moment, given, stored, done, sync, metrics, builds, ended,
                   returned, mixed, torn, factLosses>>

FinishBuild(b) ==
    /\ builder[b].at = "finish"
    /\ builds' = [builds EXCEPT ![DataOf(builder[b])] = "succeeded"]
    /\ EndBuild(b)
    /\ UNCHANGED <<moment, given, stored, done, sync, metrics, filed, returned,
                   mixed, torn, factLosses>>

\* A build fails, which marks the run it has as failed, or is lost, which leaves it running.
FailBuild(b) ==
    /\ builder[b].at # "idle" /\ FactTrouble
    /\ \/ UNCHANGED builds
       \/ /\ builder[b].at \in {"save", "finish"}
          /\ builds' = [builds EXCEPT ![DataOf(builder[b])] = "failed"]
    /\ builder' = [builder EXCEPT ![b] = IdleBuilder]
    /\ UNCHANGED <<moment, given, stored, done, sync, metrics, filed, ended,
                   returned, mixed, torn>>

\* Thirty minutes pass over a run that nobody works on any more; a build takes seconds.
LapseBuild(d) ==
    /\ builds[d] = "running"
    /\ \A b \in Builders : builder[b].at \in {"save", "finish"} => DataOf(builder[b]) # d
    /\ builds' = [builds EXCEPT ![d] = "lapsed"]
    /\ UNCHANGED <<moment, given, stored, done, sync, metrics, builder, filed,
                   ended, returned, mixed, torn, factLosses>>

FactsNext ==
    \/ Publish \/ NextFactsDay
    \/ \E s \in Syncs :
         \/ \E kind \in Kinds : FetchFacts(s, kind)
         \/ StoreReports(s) \/ StoreValuations(s) \/ ReadReports(s) \/ ReadValuations(s) \/ SaveMetrics(s)
         \/ FinishSync(s) \/ FailSync(s)
    \/ \E b \in Builders :
         \/ BeginBuild(b) \/ ReadUpToCutoff(b) \/ FindSnapshot(b) \/ AcquireBuild(b)
         \/ SaveSnapshot(b) \/ FinishBuild(b) \/ FailBuild(b)
    \/ \E d \in Data : LapseBuild(d)

FactsSpec == FactsInit /\ [][FactsNext]_factVars

-----------------------------------------------------------------------------
(* Properties *)

\* What readers are shown: the metrics of the latest as_of (latest_snapshot), and the research
\* of the latest cutoff (latest_research_snapshot).
IsLatestMetrics(m) == m \in metrics /\ \A o \in metrics : o.asof <= m.asof
IsLatestResearch(n) == n \in filed /\ \A o \in filed : o.cutoff <= n.cutoff

FactsTypeOK ==
    /\ stored.r \in 0..MaxRevision /\ stored.v \in 0..MaxValue /\ stored.at \in 0..moment
    /\ \A m \in metrics : m.asof \in 1..moment /\ m.r \in 1..MaxRevision /\ m.v \in 0..MaxValue
    /\ \A n, o \in filed : DataOf(n) = DataOf(o) => n = o
    /\ \A m, o \in metrics : DataOf(m) = DataOf(o) => m = o

\* When the sync that stored last has succeeded, the metrics shown are those of what is stored,
\* however it overlapped with other syncs, of its own kind too, and whatever failed before.
\* (Not when a value returns to one it had before, whose snapshot is there and is not the latest:
\* the slower of two syncs of one kind may write the older value over the newer one; and not when
\* a sync has kept a valuation under an as_of from before it was collected, which the metrics of
\* the one before, stamped meanwhile, then hide.)
SyncedIsShown ==
    stored.sound /\ stored.r # Nothing /\ ~returned /\ ~mixed =>
        \A m \in metrics : IsLatestMetrics(m) => DataOf(m) = DataOf(stored)

\* When a build has ended well, the research shown is of the data it read, or of a later cutoff:
\* a slow build of older data does not hide it, and a run that has succeeded has its snapshot.
\* (Not when a valuation has returned to an earlier value, or has been collected again while a
\* build was reading.)
BuiltIsShown ==
    ended.cutoff > 0 /\ ~returned /\ ~torn =>
        \E n \in filed :
            IsLatestResearch(n) /\ (DataOf(n) = DataOf(ended) \/ n.cutoff > ended.cutoff)
=============================================================================
