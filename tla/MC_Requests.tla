----------------------------- MODULE MC_Requests -----------------------------
(* Small instances of AIExplanation, Comparison and Backfill: what users and operators ask for   *)
(* and workers carry out.  They share no row: one of them moves in a behaviour.                  *)
EXTENDS AIExplanation, Comparison, Backfill, TLC

MCSymmetry == Permutations(Workers) \cup Permutations(Callers)

\* What is retained of each stock when all is fresh but for the gaps, <<stock, dimension, level>>.
Lacking(gaps) ==
    [s \in Stocks |-> [d \in Dimensions |->
        IF \E g \in gaps : g[1] = s /\ g[2] = d
        THEN (CHOOSE g \in gaps : g[1] = s /\ g[2] = d)[3] ELSE "fresh"]]
MCComplete == {Lacking({})}
MCOneGap == {Lacking({<<1, "event_radar", "some">>})}
MCFourGaps == {Lacking({<<1, "event_radar", "some">>, <<2, "event_radar", "none">>,
                        <<1, "screening", "some">>, <<2, "screening", "none">>})}

VARIABLE side   \* which of them moves

requestsVars == <<side, vars, compareVars, backfillVars>>
RequestsInit ==
    side \in {"explain", "compare", "backfill"} /\ Init /\ CompareInit /\ BackfillInit
ExplainMoves == side = "explain" /\ Next /\ UNCHANGED <<side, compareVars, backfillVars>>
CompareMoves == side = "compare" /\ CompareNext /\ UNCHANGED <<side, vars, backfillVars>>
BackfillMoves == side = "backfill" /\ BackfillNext /\ UNCHANGED <<side, vars, compareVars>>

RequestsSpec == RequestsInit /\ [][ExplainMoves \/ CompareMoves \/ BackfillMoves]_requestsVars

\* What the fairness is about is never enabled in an initial state, so it asks nothing of those
\* that do not move.
FairRequestsSpec == RequestsSpec /\ ExplainFairness /\ CompareFairness /\ BackfillFairness

\* Backfill alone.
BackfillAloneSpec == RequestsInit /\ [][BackfillMoves]_requestsVars

\* The rows, the messages and the workers of the three keep their types.
RequestsTypeOK == TypeOK /\ CompareTypeOK /\ BackfillTypeOK

\* A request that says it is answered shows an output that exists, or a snapshot that exists and
\* a verdict that one of its snapshots deserves.
AnswersAreThere == ReadyHasItsOutput /\ AnswerIsBuilt

\* Every explanation and every comparison that was accepted is answered or fails, and a backfill
\* that its operator keeps asking for ends.
EveryRequestSettles == RequestSettles /\ ComparisonSettles /\ BackfillEnds
=============================================================================
