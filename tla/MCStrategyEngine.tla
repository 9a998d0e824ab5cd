-------------------------- MODULE MCStrategyEngine --------------------------
(***************************************************************************)
(* Small instance of StrategyEngine for TLC: two instances on one broker,  *)
(* started and stopped by two worker threads next to the loop's thread, so *)
(* that two stops, or a start and a stop, of one instance overlap.         *)
(***************************************************************************)
EXTENDS StrategyEngine

(* Two candles, so that one instance may buy twice; one for its rival. *)
MCCandles == <<2, 1>>
=============================================================================
