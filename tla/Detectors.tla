----------------------------- MODULE Detectors ------------------------------
(***************************************************************************)
(* The analyses of market_structure.py and smc_objects.py, made again after*)
(* every bar of a series that starts at a fixed bar and grows, which is how*)
(* a replay of history sees them.  Each bar opens at the close of the one  *)
(* before.                                                                 *)
(*                                                                         *)
(* The routes of api/v1/structure.py and api/v1/smc.py analyse something   *)
(* else: the last `limit` candles, a window that loses a bar at the left   *)
(* for every bar it gains, of which the simulated provider makes the same  *)
(* walk anew under later times.  What is said here of two analyses is said *)
(* of the pure functions, not of two answers of a route.                   *)
(***************************************************************************)
EXTENDS SmcObjects

CONSTANTS
    Moves,           \* what a bar may do: [by, up, down], close and wicks
    Start,           \* the price the series starts at
    MaxBars          \* bound: the length of the series

ASSUME ChartAssumption ==
    /\ Moves \subseteq [by : Int, up : Nat, down : Nat]
    /\ Start \in Int /\ MaxBars \in Nat

VARIABLES
    bars,            \* the closed bars
    structure,       \* what analyze makes of them
    smc              \* what analyze_smc makes of them

detVars == <<bars, structure, smc>>

NewBar(m) ==
    LET open == IF bars = <<>> THEN Start ELSE Last(bars).c
    IN  [o |-> open, c |-> open + m.by, h |-> Max({open, open + m.by}) + m.up,
         l |-> Min({open, open + m.by}) - m.down]

ChartInit == bars = <<>> /\ structure = Analyze(<<>>) /\ smc = AnalyzeSmc(<<>>)

(* A bar closes, and the longer series is analysed. *)
ChartGrows ==
    /\ Len(bars) < MaxBars
    /\ \E m \in Moves : bars' = Append(bars, NewBar(m))
    /\ structure' = Analyze(bars')
    /\ smc' = AnalyzeSmc(bars')

ChartNext == ChartGrows

ChartSpec == ChartInit /\ [][ChartNext]_detVars

-----------------------------------------------------------------------------
(* A request that confirms swings as the code does by default, or with     *)
(* fewer bars to the left.                                                 *)
UsualRequest == Left <= SWING_LEFT /\ Right = SWING_RIGHT

(* For a usual request, what a series showed of the structure its longer   *)
(* series show too: a new bar leaves every swing, label, strength, break,  *)
(* regime change, breakout, retest, displacement and breaker block (its    *)
(* strength apart) as it was, and adds breaks on the new bar only, so that *)
(* no decision replayed on history sees what could not be seen at the time *)
(* (analyze and analyze_smc over prefixes of one series; a route's window  *)
(* that has lost its oldest bars is no such prefix).                       *)
NoRepaint ==
    [][/\ \A f \in DOMAIN structure : structure[f] \subseteq structure'[f]
       /\ \A f \in {"bos", "choch", "regimes", "breakouts", "retests"} :
             \A x \in structure'[f] \ structure[f] : x.bar = Len(bars')
       /\ smc.displacement \subseteq smc'.displacement
       /\ smc.breakers \subseteq smc'.breakers]_detVars

(* Gaps and order blocks never vanish, move or come back to life: a filled *)
(* gap stays filled and an invalidated block invalidated, from the bar     *)
(* that did it on, and no displacement weakens its block (detect_fvg and   *)
(* detect_order_blocks over prefixes of one series; from a route's window  *)
(* they leave with their bars).                                            *)
ObjectsOnlyAge ==
    [][/\ \A g \in smc.fvg :
             g \in smc'.fvg \/ (g.status = "active" /\ [g EXCEPT !.status = "filled"] \in smc'.fvg)
       /\ \A b \in smc.blocks : \E n \in smc'.blocks :
             /\ <<n.bar, n.direction, n.low, n.high>> = <<b.bar, b.direction, b.low, b.high>>
             /\ n.strength >= b.strength
             /\ b.since # {} => n.since = b.since]_detVars

(* A retest is of a breakout that is still good: its breakout was reported *)
(* on the same level and side, it is the latest one, and no close since    *)
(* was on the wrong side of the level (market_structure.py:409-411).       *)
RetestsAreLive ==
    \A r \in structure.retests :
       /\ \E b \in structure.breakouts :
             <<b.bar, b.direction, b.level>> = <<r.breakout, r.direction, r.level>>
       /\ \A b \in structure.breakouts : b.bar < r.bar => b.bar <= r.breakout
       /\ \A i \in r.breakout..r.bar :
             IF r.direction = "bullish" THEN bars[i].c >= r.level ELSE bars[i].c <= r.level

(* What the code says of breaks, whatever was asked for: none that was not *)
(* found with its bar the last is found there later ("no future bars leak into *)
(* a break", market_structure.py:211-212).                                 *)
NoFutureInBreaks ==
    [][\A f \in {"bos", "choch", "breakouts"} :
          \A x \in structure'[f] \ structure[f] : x.bar = Len(bars')]_detVars
=============================================================================
