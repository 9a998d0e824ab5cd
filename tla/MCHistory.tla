----------------------------- MODULE MCHistory ------------------------------
(***************************************************************************)
(* What is computed from a history of bars, in one instance: a request     *)
(* either runs a backtest or an optimisation, or analyses a chart.  They   *)
(* share no state, so while one goes on the other stays as it began.       *)
(***************************************************************************)
EXTENDS MCBacktest, MCDetectors

HistoryInit == JobsInit /\ ChartInit

(* One of the states in which no job has begun: the chart grows beside it. *)
NoJobYet == JobsInit /\ job = "backtest" /\ series = CHOOSE s \in SeriesSet : TRUE

RunJob    == bars = <<>> /\ JobsNext /\ UNCHANGED detVars
GrowChart == NoJobYet /\ ChartNext /\ UNCHANGED <<jobVars, vars, optVars>>

HistoryNext == RunJob \/ GrowChart

HistorySpec == HistoryInit /\ [][HistoryNext]_<<jobVars, vars, optVars, detVars>>
=============================================================================
