---------------------------- MODULE BacktestJobs ----------------------------
(***************************************************************************)
(* The backtest routes, api/v1/backtests.py: a request runs one backtest   *)
(* or one optimisation to its end in a worker thread and stores what it    *)
(* returns.  Runs share nothing but the stores, which have a lock, so one  *)
(* request is all that is modelled.                                        *)
(***************************************************************************)
EXTENDS Backtest, Optimizer

VARIABLES
    job,             \* what the request asks for
    answer,          \* its status code, 0 before it is answered
    stored           \* the jobs whose result the stores hold

jobVars == <<job, answer, stored>>

JobsTypeOK ==
    /\ TypeOK /\ OptTypeOK
    /\ job \in {"backtest", "optimization"}
    /\ answer \in {0, 201, 400, 404}
    /\ stored = IF answer = 201 THEN {job} ELSE {}

JobsInit ==
    /\ Init /\ OptInit
    /\ \/ job = "backtest" /\ ranges = <<>> /\ metric = CHOOSE m \in RankBy : TRUE
       \/ job = "optimization" /\ series = CHOOSE s \in SeriesSet : TRUE
    /\ answer = 0 /\ stored = {}

(* The strategy is not registered or its parameters are refused, or there  *)
(* are no candles: run_backtest and optimize_strategy raise at once.       *)
Refuse ==
    /\ answer = 0 /\ at = "start" /\ hook # "none" /\ orders = <<>> /\ stage = "grid"
    /\ answer' \in {400, 404}
    /\ UNCHANGED <<job, stored, vars, optVars>>

RunBacktest ==
    /\ answer = 0 /\ job = "backtest"
    /\ Next
    /\ UNCHANGED <<jobVars, optVars>>

RunOptimization ==
    /\ answer = 0 /\ job = "optimization"
    /\ OptNext
    /\ UNCHANGED <<jobVars, vars>>

Answer ==
    /\ answer = 0
    /\ \/ /\ IF job = "backtest" THEN Finished ELSE stage = "done"
          /\ answer' = 201 /\ stored' = stored \cup {job}
       \/ /\ stage = "refused"
          /\ answer' = 400 /\ UNCHANGED stored
    /\ UNCHANGED <<job, vars, optVars>>

JobsNext == Refuse \/ RunBacktest \/ RunOptimization \/ Answer

JobsSpec == JobsInit /\ [][JobsNext]_<<jobVars, vars, optVars>>
=============================================================================
