----------------------------- MODULE Optimizer ------------------------------
(***************************************************************************)
(* One parameter optimisation: services/optimization.py.                   *)
(*                                                                         *)
(* optimize_strategy expands the parameter ranges to a grid, runs a        *)
(* backtest for every combination (one that raises is kept with the        *)
(* metrics of an idle run), ranks the results by one metric, replays the   *)
(* best parameters on both halves of the series and scores how likely the  *)
(* best result is noise.                                                   *)
(*                                                                         *)
(* A backtest is what it returns here: any of the metrics in Outcomes, or  *)
(* it raises.  Module Backtest says how they come about.  Profit factors   *)
(* and drawdown percentages are counted in tenths.                         *)
(***************************************************************************)
EXTENDS Integers, Sequences, FiniteSetsExt, SequencesExt

CONSTANTS
    RangeSets,       \* what param_ranges may be: sequences of ranges
    MaxCombinations, \* MAX_COMBINATIONS, 500 in the code
    Outcomes,        \* the metrics a backtest may return
    RankBy,          \* the metrics to rank by, fields of Outcomes
    SeriesLengths,   \* how many candles the series may have
    Lowest           \* -math.inf: below every metric value

(* A metric that may be undefined is <<>> or <<value>>. *)
Undefined  == <<>>
One(S)     == [1..1 -> S]
Maybe      == {Undefined} \cup One(Int)
Metric     == [net_profit : One(Int), total_trades : Nat, profit_factor : Maybe,
               max_drawdown_pct : One(Nat), largest_loss : Maybe, sharpe : Maybe]

(* The forms of a range: values one by one, in steps, or neither. *)
ParamRange == [kind : {"values"}, values : Seq(Int)]
              \cup [kind : {"steps"}, start : Int, step : Int, stop : Int]
              \cup [kind : {"malformed"}]

Descending == {"max_drawdown_pct", "largest_loss"}

MIN_TRADES_THRESHOLD    == 20
PROFIT_FACTOR_THRESHOLD == 12
DRAWDOWN_THRESHOLD_PCT  == 300

(* The metrics of a combination that raised name four of the fields.       *)
Failed == [net_profit |-> <<0>>, total_trades |-> 0, profit_factor |-> Undefined,
           max_drawdown_pct |-> <<0>>, largest_loss |-> Undefined, sharpe |-> Undefined]

ASSUME OptimizerAssumption ==
    /\ RangeSets \subseteq Seq(ParamRange) /\ MaxCombinations \in Nat
    /\ Outcomes \subseteq Metric /\ SeriesLengths \subseteq Nat
    /\ RankBy # {} /\ RankBy \subseteq DOMAIN Failed \ {"total_trades"}
    /\ Lowest \in Int
    /\ \A m \in Outcomes \cup {Failed}, field \in RankBy :
          m[field] # Undefined => Lowest < m[field][1]

VARIABLES
    stage,           \* "grid", "sweep", "rank", "walk", "done" or "refused"
    ranges,          \* param_ranges
    metric,          \* the metric to rank by
    combos,          \* the grid
    results,         \* results[k]: what combination k gave, ranked later on
    halves,          \* the walk-forward outcomes, <<>> when not made
    score            \* overfit_score

optVars == <<stage, ranges, metric, combos, results, halves, score>>

OptTypeOK ==
    /\ stage \in {"grid", "sweep", "rank", "walk", "done", "refused"}
    /\ ranges \in RangeSets /\ metric \in RankBy
    /\ combos \in Seq(Seq(Int)) /\ Len(combos) <= MaxCombinations
    /\ results \in Seq([params : ToSet(combos), metrics : Outcomes \cup {Failed}])
    /\ Len(results) <= Len(combos)
    /\ halves \in {<<>>} \cup (Outcomes \X Outcomes)
    /\ score \in 0..100

-----------------------------------------------------------------------------
(* _arange: from start by steps up to stop, nothing when the step is 0 or  *)
(* leads away from it.                                                     *)
Arange(start, step, stop) ==
    IF step = 0 \/ (stop - start) * step < 0 THEN <<>>
    ELSE LET n == IF step > 0 THEN (stop - start) \div step ELSE (start - stop) \div (-step)
         IN  [k \in 1..(n + 1) |-> start + (k - 1) * step]

Values(range) ==
    CASE range.kind = "values"    -> range.values
      [] range.kind = "steps"     -> Arange(range.start, range.step, range.stop)
      [] range.kind = "malformed" -> <<>>

(* The members of a set in the order that before gives them. *)
Sorted(S, before(_, _)) ==
    {order \in [1..Cardinality(S) -> S] :
        \A m, n \in DOMAIN order : m < n => before(order[m], order[n])}

(* itertools.product: every choice of a value each, the last one fastest.  *)
Picks(pools) ==
    {c \in [DOMAIN pools -> UNION {DOMAIN pools[k] : k \in DOMAIN pools}] :
        \A k \in DOMAIN c : c[k] \in DOMAIN pools[k]}

Faster(c, d) == \E k \in DOMAIN c : c[k] < d[k] /\ \A j \in 1..(k - 1) : c[j] = d[j]

Row(pools, c) == [k \in DOMAIN c |-> pools[k][c[k]]]

Products(pools) ==
    {[g \in DOMAIN order |-> Row(pools, order[g])] : order \in Sorted(Picks(pools), Faster)}

Pools == [k \in DOMAIN ranges |-> Values(ranges[k])]

OptInit ==
    /\ stage = "grid" /\ ranges \in RangeSets /\ metric \in RankBy
    /\ combos = <<>> /\ results = <<>> /\ halves = <<>> /\ score = 0

(* Faulty variant: the size of the grid is not tested.                     *)
GridUnbounded ==
    /\ stage = "grid"
    /\ IF ranges # <<>> /\ <<>> \notin ToSet(Pools)
       THEN stage' = "sweep" /\ combos' \in Products(Pools)
       ELSE stage' = "refused" /\ UNCHANGED combos
    /\ UNCHANGED <<ranges, metric, results, halves, score>>

(* expand_param_grid: a grid, or a refusal of empty, malformed or too many *)
(* ranges.                                                                 *)
ExpandGrid ==
    /\ stage = "grid"
    /\ IF /\ ranges # <<>> /\ <<>> \notin ToSet(Pools)
          /\ Cardinality(Picks(Pools)) <= MaxCombinations
       THEN stage' = "sweep" /\ combos' \in Products(Pools)
       ELSE stage' = "refused" /\ UNCHANGED combos
    /\ UNCHANGED <<ranges, metric, results, halves, score>>

(* One combination is replayed; whatever it raises is caught. *)
RunCombo ==
    /\ stage = "sweep" /\ Len(results) < Len(combos)
    /\ \E m \in Outcomes \cup {Failed} :
          results' = Append(results, [params |-> combos[Len(results) + 1], metrics |-> m])
    /\ stage' = IF Len(results') = Len(combos) THEN "rank" ELSE stage
    /\ UNCHANGED <<ranges, metric, combos, halves, score>>

-----------------------------------------------------------------------------
Value(r) == r.metrics[metric]

HigherIsBetter == metric \notin Descending

SortKey(r) == IF Value(r) = Undefined THEN Lowest ELSE Value(r)[1]

(* The stable sort by SortKey, reversed unless the metric is a descending  *)
(* one.                                                                    *)
Before(j, k) ==
    LET key(i) == IF HigherIsBetter THEN -SortKey(results[i]) ELSE SortKey(results[i])
    IN  key(j) < key(k) \/ (key(j) = key(k) /\ j < k)

Rank ==
    /\ stage = "rank"
    /\ \E order \in Sorted(DOMAIN results, Before) :
          results' = [k \in DOMAIN order |-> results[order[k]]]
    /\ stage' = "walk"
    /\ UNCHANGED <<ranges, metric, combos, halves, score>>

-----------------------------------------------------------------------------
Best == results[1].metrics

(* The best parameters hold up: both halves have enough trades and a       *)
(* profit.                                                                 *)
Consistent(walk) ==
    /\ walk # <<>>
    /\ \A k \in DOMAIN walk : walk[k].total_trades >= MIN_TRADES_THRESHOLD
                              /\ walk[k].net_profit[1] > 0

(* Twice the median of the values that are defined. *)
TwiceMedian(values) ==
    LET sorted == SortSeq(values, <)
        n      == Len(values)
    IN  IF n % 2 = 1 THEN 2 * sorted[(n + 1) \div 2]
        ELSE sorted[n \div 2] + sorted[n \div 2 + 1]

(* What the ranking itself adds to the score: nothing to compare with, an  *)
(* unprofitable median, or a best value twice the median.                  *)
SurfaceScore ==
    LET defined == SelectSeq(results, LAMBDA r : Value(r) # Undefined)
        values  == [k \in DOMAIN defined |-> Value(defined[k])[1]]
    IN  IF values = <<>> THEN 15
        ELSE IF ~HigherIsBetter THEN 0
        ELSE IF TwiceMedian(values) <= 0 THEN 15
        ELSE IF values[1] >= TwiceMedian(values) THEN 25 ELSE 0

OverfitScore(walk) ==
    Min({100, (IF Best.total_trades < MIN_TRADES_THRESHOLD THEN 25 ELSE 0)
            + (IF Best.profit_factor # Undefined
                  /\ Best.profit_factor[1] < PROFIT_FACTOR_THRESHOLD THEN 20 ELSE 0)
            + (IF Best.max_drawdown_pct[1] > DRAWDOWN_THRESHOLD_PCT THEN 15 ELSE 0)
            + SurfaceScore
            + (IF walk # <<>> /\ ~Consistent(walk) THEN 30 ELSE 0)})

Label == IF score < 25 THEN "low" ELSE IF score < 50 THEN "moderate" ELSE "high"

(* Faulty variant: the best parameters are not replayed on the halves.     *)
ScoreUnwalked(n) ==
    /\ stage = "walk"
    /\ halves' = <<>> /\ score' = OverfitScore(<<>>) /\ stage' = "done"
    /\ UNCHANGED <<ranges, metric, combos, results>>

(* Replay the best on both halves of n candles if it traded, and score the *)
(* result.  A series too short to split counts as inconsistent; a replay   *)
(* that raises here is not caught.                                         *)
WalkForward(n) ==
    /\ stage = "walk"
    /\ \/ /\ Best.total_trades = 0
          /\ halves' = <<>> /\ score' = OverfitScore(<<>>) /\ stage' = "done"
       \/ /\ Best.total_trades > 0 /\ n \div 2 < 2
          /\ halves' = <<>> /\ stage' = "done"
          /\ score' = Min({100, OverfitScore(<<>>) + 30})
       \/ /\ Best.total_trades > 0 /\ n \div 2 >= 2
          /\ halves' \in Outcomes \X Outcomes
          /\ score' = OverfitScore(halves') /\ stage' = "done"
       \/ /\ Best.total_trades > 0 /\ n \div 2 >= 2
          /\ stage' = "refused" /\ UNCHANGED <<halves, score>>
    /\ UNCHANGED <<ranges, metric, combos, results>>

OptNext == ExpandGrid \/ RunCombo \/ Rank \/ \E n \in SeriesLengths : WalkForward(n)

-----------------------------------------------------------------------------
(* The user reads "low" as: these parameters can be trusted.  Whatever the *)
(* metric, it is only said of a combination that ran, traded enough on the *)
(* whole series and made a profit with enough trades on both halves; and   *)
(* if higher values of the metric are better, no combination has a higher  *)
(* one (optimize_strategy, compute_overfit_assessment).                    *)
LowIsEarned ==
    (stage = "done" /\ Label = "low") =>
        /\ Best # Failed /\ Best.total_trades >= MIN_TRADES_THRESHOLD
        /\ Consistent(halves)
        /\ HigherIsBetter => \A r \in ToSet(results) :
               Value(r) # Undefined => Value(results[1]) # Undefined
                                       /\ Value(results[1])[1] >= Value(r)[1]
=============================================================================
