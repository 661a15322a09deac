----------------------------- MODULE MC_Pipeline -----------------------------
(* Small instances of AutomationRun, with what makes its runs end, of ScreenParse and of         *)
(* AIResearch: one of them moves in a behaviour.                                                 *)
EXTENDS AutomationRun, ScreenParse, AIResearch, TLC

MCStage == <<10, 20, 90>>

VARIABLE side   \* which of them moves

pipelineVars == <<side, vars, parseVars, healthVars>>
PipelineInit == side \in {"run", "parse", "health"} /\ Init /\ ParseInit /\ HealthInit
RunMoves == side = "run" /\ Next /\ UNCHANGED <<side, parseVars, healthVars>>
ParseMoves == side = "parse" /\ ParseNext /\ UNCHANGED <<side, vars, healthVars>>
HealthMoves == side = "health" /\ HealthNext /\ UNCHANGED <<side, vars, parseVars>>

\* The fairness is that of a run: it leaves out the behaviours in which the run does not move.
PipelineSpec ==
    PipelineInit /\ [][RunMoves \/ ParseMoves \/ HealthMoves]_pipelineVars /\ RunFairness

\* The rows, the sessions and the messages of the three keep their types.
PipelineTypeOK == TypeOK /\ ParseTypeOK /\ HealthTypeOK
=============================================================================
