----------------------------- MODULE MCBacktest -----------------------------
(***************************************************************************)
(* Small instance of BacktestJobs for TLC.  The bars gap over levels and   *)
(* touch both protections of a position; prices stay near 10.              *)
(***************************************************************************)
EXTENDS BacktestJobs

Ohlc(o, h, l, c) == [o |-> o, h |-> h, l |-> l, c |-> c]

(* Quiet, a gap up with a wide range, a gap down. *)
MCSeriesSet == {<<Ohlc(10, 11, 9, 10), Ohlc(13, 15, 8, 12), Ohlc(11, 12, 11, 11)>>,
                <<Ohlc(10, 12, 10, 12), Ohlc(5, 6, 4, 5)>>}

Order(type, side, volume, price, limit, sl, tp) ==
    [type |-> type, side |-> side, volume |-> volume, price |-> price,
     limit |-> limit, sl |-> sl, tp |-> tp]

MCRequests == {Order("market", "buy", 2, None, None, 9, 14),
               Order("market", "sell", 1, None, None, None, 9),
               Order("limit", "buy", 1, 11, None, None, None),
               Order("stop", "sell", 2, 9, None, 12, None),
               Order("stop_limit", "buy", 1, 9, 10, None, None)}

MCChanges == {[sl |-> Unset, tp |-> Unset, trail |-> 2]}

Outcome(net, count, factor, dd, loss, sharpe) ==
    [net_profit |-> <<net>>, total_trades |-> count, profit_factor |-> factor,
     max_drawdown_pct |-> <<dd>>, largest_loss |-> <<loss>>, sharpe |-> sharpe]

(* A sound run, one without a loss, a losing one, few trades, an idle one. *)
MCOutcomes == {Outcome(50, 20, <<15>>, 100, -5, <<2>>), Outcome(90, 40, Undefined, 0, 0, <<9>>),
               Outcome(-40, 30, <<5>>, 400, -20, <<-3>>), Outcome(80, 3, <<30>>, 50, -1, <<4>>),
               Outcome(0, 0, Undefined, 0, 0, Undefined)}

MCSeriesLengths == {3, 4}

MCLowest == -1000

MCRankBy == {"net_profit", "profit_factor", "sharpe", "max_drawdown_pct", "largest_loss"}

Listed(values)           == [kind |-> "values", values |-> values]
Stepped(start, step, stop) == [kind |-> "steps", start |-> start, step |-> step, stop |-> stop]

MCRangeSets == {<<>>, <<Stepped(5, -2, 2), Listed(<<>>)>>, <<Stepped(1, 0, 3)>>,
                <<[kind |-> "malformed"]>>, <<Stepped(1, 1, 2), Listed(<<7, 8>>)>>,
                <<Listed(<<1, 2, 3>>), Listed(<<1, 2>>)>>, <<Stepped(5, -2, 1)>>}
=============================================================================
