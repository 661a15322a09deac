---------------------------- MODULE MC_Operations ----------------------------
(****************************************************************************)
(* Small instances of ProviderConfiguration, ProductionRelease,             *)
(* ProviderAcceptance, the ticks and edits of Schedule and the evidence of  *)
(* Screening.  What they share is evidence that a gate reads, which         *)
(* ProductionRelease lets come at any time: one of them moves in a          *)
(* behaviour.                                                               *)
(****************************************************************************)
EXTENDS ProviderConfiguration, ProductionRelease, ProviderAcceptance, Schedule, Screening, TLC

CONSTANTS
    MaxSessions,   \* bound: ticks and edits at a time
    t1, t2, t3, t4, s1, s2, early, late, pe, roe

MCRole == [t \in Staff |-> IF t = t4 THEN "operations" ELSE "security_admin"]
MCEvidence == <<"acceptance">>
MCSymbols == <<s1, s2>>
MCDatasets == <<"stock_master", "daily_bars", "industry_membership">>

MCDueAt == [c \in Configurations |-> IF c = late THEN 1 ELSE 0]

MCFilters == [q \in Queries |-> <<[on |-> roe, operator |-> "gte", value |-> 2]>>]
MCSort == [q \in Queries |-> [field |-> roe, descending |-> TRUE]]

MCSymmetry == Permutations(Operators)

VARIABLE side   \* which of them moves

operationsVars == <<side, vars, releaseVars, acceptanceVars, scheduleVars, screeningVars>>
OperationsInit ==
    /\ side \in {"configuration", "release", "acceptance", "schedule", "screening"}
    /\ Init /\ ReleaseInit /\ AcceptanceInit /\ ScheduleInit /\ ScreeningInit
ConfigurationMoves ==
    /\ side = "configuration"
    /\ Next /\ UNCHANGED <<side, releaseVars, acceptanceVars, scheduleVars, screeningVars>>
ReleaseMoves ==
    /\ side = "release"
    /\ ReleaseNext /\ UNCHANGED <<side, vars, acceptanceVars, scheduleVars, screeningVars>>
AcceptanceMoves ==
    /\ side = "acceptance"
    /\ AcceptanceNext /\ UNCHANGED <<side, vars, releaseVars, scheduleVars, screeningVars>>
ScheduleMoves ==
    /\ side = "schedule"
    /\ ScheduleNext /\ UNCHANGED <<side, vars, releaseVars, acceptanceVars, screeningVars>>
    /\ Cardinality({t \in Ticks : tick'[t].at # "idle"})
         + Cardinality({e \in Editors : editor'[e].at # "idle"}) <= MaxSessions
ScreeningMoves ==
    /\ side = "screening"
    /\ ScreeningNext /\ UNCHANGED <<side, vars, releaseVars, acceptanceVars, scheduleVars>>
OperationsSpec ==
    /\ OperationsInit
    /\ [][ConfigurationMoves \/ ReleaseMoves \/ AcceptanceMoves \/ ScheduleMoves
        \/ ScreeningMoves]_operationsVars

\* One of them alone.
ReleaseOnlySpec == OperationsInit /\ [][ReleaseMoves]_operationsVars

\* The rows and the sessions of the five keep their types, and the rows of each agree: one active
\* and one draft revision, a policy that stands in its latest edition, events that tell a status.
OperationsTypeOK ==
    /\ TypeOK /\ ReleaseTypeOK /\ AcceptanceTypeOK /\ ScheduleTypeOK /\ ScreeningTypeOK
    /\ OneActiveOneDraft /\ CurrentIsLatest /\ EventsTellStatus
=============================================================================
