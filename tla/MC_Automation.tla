---------------------------- MODULE MC_Automation ----------------------------
(* Small instances of AutomationRun, of the company's facts that its steps sync and build, its    *)
(* syncs and its builds apart, of the research feed that they project to and of the screening     *)
(* that they build snapshots for: one of them moves in a behaviour.                               *)
EXTENDS AutomationRun, MC_ResearchFeed, Screening, CompanyFacts

CONSTANTS
    FirstSync,  \* the sync that moves beside the builds
    pe

MCStage2 == <<10, 90>>

MCFilters == [q \in Queries |-> <<[on |-> pe, operator |-> "gte", value |-> 2],
                                 [on |-> pe, operator |-> "lt", value |-> 3]>>]
MCSort == [q \in Queries |-> [field |-> pe, descending |-> TRUE]]

\* The two workers, sessions, evaluators and builders change places all at once: since one side
\* moves, a permutation of one pair is this one, and it is cheaper than those of each pair.
Pairs == {Workers, Sessions, Screeners, Builders}
Other(x) == CHOOSE y \in (CHOOSE pair \in Pairs : x \in pair) : y # x
MCPairs == {[x \in UNION Pairs |-> IF swapped THEN Other(x) ELSE x] : swapped \in BOOLEAN}

VARIABLE side   \* which of them moves

automationVars == <<side, vars, feedVars, screeningVars, factVars>>
AutomationInit ==
    /\ side \in {"run", "feed", "pages", "screening", "syncs", "builds"}
    /\ Init /\ FeedInit /\ ScreeningInit /\ FactsInit
RunMoves == side = "run" /\ Next /\ UNCHANGED <<side, feedVars, screeningVars, factVars>>
FeedMoves ==
    /\ FeedNext
    /\ \/ side = "feed" /\ page' = page
       \/ side = "pages" /\ \A p, q \in Sessions :
                                session'[p].at # "idle" /\ session'[q].at # "idle" => p = q
    /\ UNCHANGED <<side, vars, screeningVars, factVars>>
ScreeningMoves ==
    side = "screening" /\ ScreeningNext /\ UNCHANGED <<side, vars, feedVars, factVars>>
FactsMoves ==
    /\ FactsNext
    /\ \/ side = "syncs" /\ builder' = builder
       \/ side = "builds" /\ \A s \in Syncs \ {FirstSync} : sync'[s] = sync[s]
    /\ UNCHANGED <<side, vars, feedVars, screeningVars>>

AutomationSpec ==
    AutomationInit /\ [][RunMoves \/ FeedMoves \/ ScreeningMoves \/ FactsMoves]_automationVars

\* One of them alone.
RunAloneSpec == AutomationInit /\ [][RunMoves]_automationVars
ScreeningAloneSpec == AutomationInit /\ [][ScreeningMoves]_automationVars

\* The rows, the sessions and the messages of the four keep their types.
AutomationTypeOK == TypeOK /\ FeedTypeOK /\ ScreeningTypeOK /\ FactsTypeOK
=============================================================================
