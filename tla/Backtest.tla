------------------------------ MODULE Backtest ------------------------------
(***************************************************************************)
(* One backtest: services/backtest.py with the metrics of metrics.py.      *)
(*                                                                         *)
(* run_backtest replays a series of candles through a strategy.  For each  *)
(* candle the broker fills queued market orders at the open, resolves the  *)
(* resting orders and then the protections against the whole bar; last     *)
(* comes the strategy's on_candle.  Every fill or rejection calls back     *)
(* into the strategy (on_order, on_position), in the middle of the broker's*)
(* loops, and the strategy may trade there as it may in any hook.          *)
(*                                                                         *)
(* The strategy is arbitrary: in a hook it trades, returns, or raises and  *)
(* is fed no more.  A hook called from a hook adds nothing to that but the *)
(* chance to raise alone.  Prices and money are integers; bar i is day i,  *)
(* and the lot size and the pip value are 1.                               *)
(***************************************************************************)
EXTENDS Integers, Sequences, FiniteSetsExt, SequencesExt

CONSTANTS
    SeriesSet,       \* the candle series to replay, each a sequence of bars
    Requests,        \* the orders a strategy asks for
    Changes,         \* the protections it asks for on an open position
    MaxOrders,       \* bound: orders placed in one run
    HalfSpread, Slip, CommissionRate, SwapPoints, InitialBalance, Leverage

None  == 0           \* an absent price
Unset == -1          \* a protection a request leaves as it is

Sides  == {"buy", "sell"}
Types  == {"market", "limit", "stop", "stop_limit"}
States == {"pending", "filled", "cancelled", "rejected"}
Places == {"start", "opening", "resting", "closing", "stopping", "done"}
Hooks  == {"none", "initialize", "on_order", "on_candle", "shutdown"}
Lots   == Nat \ {0}

Bar == [o : Int, h : Int, l : Int, c : Int]

Request == [type : Types, side : Sides, volume : Lots, price : Int, limit : Int,
            sl : Int, tp : Int]

Change == [sl : Int, tp : Int, trail : Int]

ASSUME BacktestAssumption ==
    /\ {HalfSpread, Slip, CommissionRate, InitialBalance, MaxOrders} \subseteq Nat
    /\ SwapPoints \in Int /\ Leverage \in Nat \ {0}
    /\ Requests \subseteq Request /\ Changes \subseteq Change
    /\ SeriesSet \subseteq Seq(Bar) \ {<<>>}
    /\ \A s \in SeriesSet : \A i \in DOMAIN s :
          s[i].l > 0 /\ {s[i].o, s[i].c} \subseteq s[i].l..s[i].h

VARIABLES
    series,          \* the candles, one bar [o, h, l, c] a day
    bar,             \* the bar the broker quotes (_candle)
    at,              \* where the replay stands
    hook,            \* the hook the strategy is in, "none" outside of one
    status,          \* the runner's status
    orders,          \* _orders, in the order they were placed
    queue,           \* _open_fill_ids: market orders for the next open
    todo,            \* resting orders the bar has not been matched with
    positions,       \* _positions, in the order they were opened
    trades,          \* _closed
    balance,         \* the account
    curve            \* the equity after each bar

vars == <<series, bar, at, hook, status, orders, queue, todo, positions, trades,
          balance, curve>>
book == <<orders, queue, positions, trades, balance>>

(* done is the bar of the fill, by and during say from where it was placed. *)
OrderRecord == [type : Types, side : Sides, volume : Lots, price : Int, limit : Int,
                sl : Int, tp : Int, state : States, filled : Int, done : Nat,
                created : Nat, by : Hooks, during : Places]

PositionRecord == [id : Lots, side : Sides, volume : Lots, open : Int, sl : Int,
                   tp : Int, trail : Int, extreme : Int, since : Nat]

TradeRecord == [id : Lots, volume : Lots, close : Int, at : Nat,
                why : {"strategy", "protection", "end"}, swap : Int, net : Int]

TypeOK ==
    /\ series \in SeriesSet /\ bar \in DOMAIN series
    /\ at \in Places /\ hook \in Hooks
    /\ status \in {"running", "stopped", "error"}
    /\ orders \in Seq(OrderRecord) /\ positions \in Seq(PositionRecord)
    /\ trades \in Seq(TradeRecord)
    /\ queue \in Seq(DOMAIN orders) /\ todo \in Seq(DOMAIN orders)
    /\ \A p \in ToSet(positions) : p.id \in DOMAIN orders
                                   /\ p.volume <= orders[p.id].volume
    /\ \A t \in ToSet(trades) : t.at \in DOMAIN series
    /\ balance \in Int /\ curve \in Seq(Int)

-----------------------------------------------------------------------------
Candle     == series[bar]
Bid(price) == price - HalfSpread
Ask(price) == price + HalfSpread
Dir(side)  == IF side = "buy" THEN 1 ELSE -1
Other(side) == IF side = "buy" THEN "sell" ELSE "buy"

(* The price that is lower, or higher, for a holder of this side. *)
Worse(side, p, q)  == IF side = "buy" THEN Min({p, q}) ELSE Max({p, q})
Better(side, p, q) == Worse(Other(side), p, q)

(* What a buyer pays and a seller gets around the middle price. *)
Taken(side, price)    == IF side = "buy" THEN Ask(price) ELSE Bid(price)
Slipped(side, price)  == price + Dir(side) * Slip

Total(seq, f(_)) == SumFunction([k \in DOMAIN seq |-> f(seq[k])])

(* The members of a set of indices in their order.                         *)
Ascending(S) == {order \in [1..Cardinality(S) -> S] :
                    \A m, n \in DOMAIN order : m < n => order[m] < order[n]}

(* What seq has at the indices of order. *)
Chosen(seq, order) == [k \in DOMAIN order |-> seq[order[k]]]

(* _validate_sl_tp: the stop on the losing side of the price, the target   *)
(* on the winning one.                                                     *)
ValidProtection(side, price, sl, tp) ==
    /\ sl # None => Dir(side) * (price - sl) > 0
    /\ tp # None => Dir(side) * (tp - price) > 0

ValidRequest(r) ==
    \/ r.type = "market"
    \/ /\ ValidProtection(r.side, r.price, r.sl, r.tp)
       /\ r.type = "stop_limit" => Dir(r.side) * (r.limit - r.price) >= 0

Commission(price, volume) == CommissionRate * price * volume
SwapFor(p, volume)        == SwapPoints * volume * (bar - p.since)

Bought(p, close) == Dir(p.side) * (close - p.open)

Trade(p, volume, close, why) ==
    [id |-> p.id, volume |-> volume, close |-> close, at |-> bar, why |-> why,
     swap |-> SwapFor(p, volume),
     net |-> Bought(p, close) * volume - Commission(close, volume) - SwapFor(p, volume)]

(* Equity adds the swap that closing a position subtracts. *)
Equity(bal, held, closed) ==
    bal + Total(held, LAMBDA p : Bought(p, Taken(Other(p.side), Candle.c)) * p.volume)
        + Total(closed, LAMBDA t : t.swap)
        + Total(held, LAMBDA p : SwapFor(p, p.volume))

-----------------------------------------------------------------------------
(* _forward and the runner call the strategy back while it is running.     *)
Fed(name) == IF status = "running" THEN name ELSE "none"

(* _fill: an order becomes a position, or is rejected when its protections *)
(* make no sense at the price or the margin exceeds the balance.           *)
Fill(i, price) ==
    LET o == orders[i]
        ok == /\ ValidProtection(o.side, price, o.sl, o.tp)
              /\ price * o.volume <= balance * Leverage
    IN  IF ok
        THEN /\ orders' = [orders EXCEPT ![i].state = "filled", ![i].filled = price,
                                         ![i].done = bar]
             /\ positions' = Append(positions,
                    [id |-> i, side |-> o.side, volume |-> o.volume, open |-> price,
                     sl |-> o.sl, tp |-> o.tp, trail |-> None, extreme |-> None,
                     since |-> bar])
             /\ balance' = balance - Commission(price, o.volume)
        ELSE /\ orders' = [orders EXCEPT ![i].state = "rejected"]
             /\ UNCHANGED <<positions, balance>>

(* The price at which the bar fills a resting order, None if it does not.  *)
RestingPrice(o) ==
    LET reached(level)  == IF o.side = "buy" THEN Candle.l <= level ELSE Candle.h >= level
        broken(level)   == IF o.side = "buy" THEN Candle.h >= level ELSE Candle.l <= level
    IN  CASE o.type = "limit" /\ reached(o.price) -> o.price
          [] o.type = "stop" /\ broken(o.price) ->
                Slipped(o.side, Taken(o.side, o.price))
          [] o.type = "stop_limit" /\ broken(o.price) /\ reached(o.limit) -> o.limit
          [] OTHER -> None

(* _apply_trailing: the stop follows the bar's extreme and never retreats. *)
Trailed(p) ==
    LET best == Better(p.side, IF p.extreme = None THEN p.open ELSE p.extreme,
                       IF p.side = "buy" THEN Candle.h ELSE Candle.l)
        stop == best - Dir(p.side) * p.trail
    IN  IF p.trail = None THEN p
        ELSE [p EXCEPT !.extreme = best,
                       !.sl = IF p.sl = None THEN stop ELSE Better(p.side, p.sl, stop)]

(* Faulty variant: a bar that opens beyond a level is not looked at.       *)
ExitAtLevel(p) ==
    CASE p.sl # None /\ Dir(p.side) * (Worse(p.side, Candle.l, Candle.h) - p.sl) <= 0 ->
            Slipped(Other(p.side), p.sl)
      [] p.tp # None /\ Dir(p.side) * (Better(p.side, Candle.l, Candle.h) - p.tp) >= 0 -> p.tp
      [] OTHER -> None

(* _intrabar_exit: the price at which the bar closes a position.  A level  *)
(* the bar opened beyond gives the open; with both levels touched the one  *)
(* nearer to the open counts, without slippage.                            *)
ExitPrice(p) ==
    LET stopped == p.sl # None /\ Dir(p.side) * (Worse(p.side, Candle.l, Candle.h) - p.sl) <= 0
        taken   == p.tp # None /\ Dir(p.side) * (Better(p.side, Candle.l, Candle.h) - p.tp) >= 0
        stop    == Worse(p.side, p.sl, Candle.o)
        target  == Better(p.side, p.tp, Candle.o)
        nearer  == Dir(p.side) * (Candle.o - p.sl) <= Dir(p.side) * (p.tp - Candle.o)
    IN  CASE stopped /\ taken  -> IF nearer THEN stop ELSE target
          [] stopped /\ ~taken -> Slipped(Other(p.side), stop)
          [] taken /\ ~stopped -> target
          [] OTHER             -> None

-----------------------------------------------------------------------------
Init == /\ series \in SeriesSet
        /\ bar = 1 /\ at = "start"
        /\ hook = "initialize" /\ status = "running"
        /\ orders = <<>> /\ queue = <<>> /\ todo = <<>>
        /\ positions = <<>> /\ trades = <<>>
        /\ balance = InitialBalance /\ curve = <<>>

(* --- what a strategy does in a hook -------------------------------------*)
(* Placing and cancelling call on_order again, which may raise by itself.  *)
Renotified == status' \in {status} \cup (IF status = "running" THEN {"error"} ELSE {})

NewOrder(r) ==
    [type |-> r.type, side |-> r.side, volume |-> r.volume, price |-> r.price,
     limit |-> r.limit, sl |-> r.sl, tp |-> r.tp, state |-> "pending",
     filled |-> None, done |-> 0, created |-> bar, by |-> hook, during |-> at]

(* Faulty variant: on_bar clears the queue at its end, and with it what    *)
(* the hooks of the bar's resting orders asked for.                        *)
QueueLost(r) ==
    /\ Len(orders) < MaxOrders /\ ValidRequest(r)
    /\ orders' = Append(orders, NewOrder(r))
    /\ queue' = IF r.type = "market" /\ at # "resting"
                THEN Append(queue, Len(orders) + 1) ELSE queue
    /\ Renotified
    /\ UNCHANGED <<series, bar, at, hook, todo, positions, trades, balance, curve>>

PlaceOrder(r) ==
    /\ Len(orders) < MaxOrders /\ ValidRequest(r)
    /\ orders' = Append(orders, NewOrder(r))
    /\ queue' = IF r.type = "market" THEN Append(queue, Len(orders) + 1) ELSE queue
    /\ Renotified
    /\ UNCHANGED <<series, bar, at, hook, todo, positions, trades, balance, curve>>

CancelOrder(i) ==
    /\ orders[i].state = "pending"
    /\ orders' = [orders EXCEPT ![i].state = "cancelled"]
    /\ Renotified
    /\ UNCHANGED <<series, bar, at, hook, queue, todo, positions, trades, balance, curve>>

(* Faulty variant: closing a part closes the position.                     *)
CloseAll(k, volume, price, why) ==
    LET t == Trade(positions[k], volume, price, why)
    IN  /\ trades' = Append(trades, t)
        /\ balance' = balance + t.net
        /\ positions' = RemoveAt(positions, k)

(* What closing some lots of position k leaves of the positions. *)
Reduced(k, volume) ==
    IF volume = positions[k].volume
    THEN {Chosen(positions, rest) : rest \in Ascending(DOMAIN positions \ {k})}
    ELSE {[positions EXCEPT ![k].volume = positions[k].volume - volume]}

(* close_position: part of a position or all of it. *)
Close(k, volume, price, why) ==
    LET t == Trade(positions[k], volume, price, why)
    IN  /\ trades' = Append(trades, t)
        /\ balance' = balance + t.net
        /\ positions' \in Reduced(k, volume)

(* Without a price a position closes at the quote, which is the close of   *)
(* the bar, also while the bar is being worked through.                    *)
ClosePosition(k, volume) ==
    /\ Close(k, volume, Taken(Other(positions[k].side), Candle.c), "strategy")
    /\ UNCHANGED <<series, bar, at, hook, status, orders, queue, todo, curve>>

ModifyPosition(k, change) ==
    LET p     == positions[k]
        new(old, asked) == IF asked = Unset THEN old ELSE asked
        sl    == new(p.sl, change.sl)
        tp    == new(p.tp, change.tp)
        quote == Taken(Other(p.side), Candle.c)
    IN  /\ sl # None => IF p.side = "buy" THEN sl < Bid(Candle.c) ELSE sl > Ask(Candle.c)
        /\ tp # None => IF p.side = "buy" THEN tp > Bid(Candle.c) ELSE tp < Ask(Candle.c)
        /\ positions' = [positions EXCEPT ![k].sl = sl, ![k].tp = tp,
                ![k].trail = new(p.trail, change.trail),
                ![k].extreme = IF change.trail \in {Unset, None} THEN p.extreme ELSE quote]
        /\ UNCHANGED <<series, bar, at, hook, status, orders, queue, todo, trades,
                       balance, curve>>

HookReturns ==
    /\ hook' = "none"
    /\ UNCHANGED <<series, bar, at, status, todo, curve, book>>

HookRaises ==
    /\ hook' = "none" /\ status' = "error"
    /\ UNCHANGED <<series, bar, at, todo, curve, book>>

Strategy ==
    /\ hook # "none"
    /\ \/ \E r \in Requests : PlaceOrder(r)
       \/ \E i \in DOMAIN orders : CancelOrder(i)
       \/ \E k \in DOMAIN positions : \E v \in 1..positions[k].volume : ClosePosition(k, v)
       \/ \E k \in DOMAIN positions, c \in Changes : ModifyPosition(k, c)
       \/ HookReturns
       \/ HookRaises

(* --- what the replay does between hooks --------------------------------- *)
(* The loop iterates over the queue itself: orders its hooks add are next. *)
OpeningFill ==
    /\ at = "opening" /\ queue # <<>>
    /\ queue' = Tail(queue)
    /\ LET i == Head(queue) IN
       IF orders[i].state = "pending"
       THEN /\ Fill(i, Slipped(orders[i].side, Taken(orders[i].side, Candle.o)))
            /\ hook' = Fed("on_order")
       ELSE UNCHANGED <<orders, positions, balance, hook>>
    /\ UNCHANGED <<series, bar, at, status, todo, trades, curve>>

OpeningDone ==
    /\ at = "opening" /\ queue = <<>>
    /\ at' = "resting"
    /\ todo' \in Ascending({i \in DOMAIN orders : orders[i].state = "pending"})
    /\ UNCHANGED <<series, bar, hook, status, curve, book>>

RestingFill ==
    /\ at = "resting" /\ todo # <<>>
    /\ todo' = Tail(todo)
    /\ LET o == orders[Head(todo)] IN
       IF o.state = "pending" /\ RestingPrice(o) # None
       THEN /\ Fill(Head(todo), RestingPrice(o))
            /\ hook' = Fed("on_order")
       ELSE UNCHANGED <<orders, positions, balance, hook>>
    /\ UNCHANGED <<series, bar, at, status, queue, trades, curve>>

(* Trailing and exits of every position, then the strategy gets the bar.   *)
BarCloses ==
    /\ at = "resting" /\ todo = <<>>
    /\ LET trailed == [k \in DOMAIN positions |-> Trailed(positions[k])]
           hit     == {k \in DOMAIN trailed : ExitPrice(trailed[k]) # None}
           exit(p) == Trade(p, p.volume, ExitPrice(p), "protection")
       IN  \E out \in Ascending(hit), kept \in Ascending(DOMAIN trailed \ hit) :
             LET exits == [n \in DOMAIN out |-> exit(trailed[out[n]])]
             IN  /\ trades' = trades \o exits
                 /\ balance' = balance + Total(exits, LAMBDA t : t.net)
                 /\ positions' = Chosen(trailed, kept)
    /\ at' = "closing" /\ hook' = Fed("on_candle")
    /\ UNCHANGED <<series, bar, status, orders, queue, todo, curve>>

(* The curve gets its point and the next bar begins, if there is one.      *)
NextBar ==
    \/ /\ at = "start"
       /\ at' = "opening"
       /\ UNCHANGED <<series, bar, hook, status, todo, curve, book>>
    \/ /\ at = "closing"
       /\ curve' = Append(curve, Equity(balance, positions, trades))
       /\ IF bar < Len(series) THEN bar' = bar + 1 /\ at' = "opening"
                               ELSE bar' = bar /\ at' = "stopping"
       /\ UNCHANGED <<series, hook, status, todo, book>>

(* After the last bar the positions left are closed, one after the other.  *)
CloseLeft ==
    /\ at = "stopping" /\ positions # <<>>
    /\ Close(1, positions[1].volume, Taken(Other(positions[1].side), Candle.c), "end")
    /\ UNCHANGED <<series, bar, at, hook, status, orders, queue, todo, curve>>

RunnerStops ==
    /\ at = "stopping" /\ positions = <<>>
    /\ at' = "done"
    /\ IF status = "running" THEN status' = "stopped" /\ hook' = "shutdown"
                             ELSE UNCHANGED <<status, hook>>
    /\ UNCHANGED <<series, bar, todo, curve, book>>

Replay == hook = "none" /\ (OpeningFill \/ OpeningDone \/ RestingFill \/ BarCloses
                            \/ NextBar \/ CloseLeft \/ RunnerStops)

Next == Strategy \/ Replay

Finished == at = "done" /\ hook = "none"

-----------------------------------------------------------------------------
(* max_drawdown: a running peak and the largest decline from it, a point   *)
(* at a time.                                                              *)
MaxDrawdown ==
    LET walk[k \in DOMAIN curve] ==
            LET peak == IF k = 1 THEN curve[1] ELSE Max({walk[k - 1].peak, curve[k]})
                dd   == IF k = 1 THEN 0 ELSE walk[k - 1].dd
            IN  [peak |-> peak, dd |-> IF peak > 0 THEN Max({dd, peak - curve[k]}) ELSE dd]
    IN  IF curve = <<>> THEN 0 ELSE walk[Len(curve)].dd

Nets == [k \in DOMAIN trades |-> trades[k].net]

Metrics ==
    LET won  == {k \in DOMAIN trades : Nets[k] > 0}
        lost == {k \in DOMAIN trades : Nets[k] < 0}
    IN  [net_profit   |-> balance - InitialBalance,
         total_trades |-> Len(trades),
         winning_trades |-> Cardinality(won), losing_trades |-> Cardinality(lost),
         breakeven_trades |-> Len(trades) - Cardinality(won) - Cardinality(lost),
         gross_profit |-> SumFunctionOnSet(Nets, won),
         gross_loss   |-> -SumFunctionOnSet(Nets, lost),
         largest_win  |-> Max({Nets[k] : k \in won} \cup {0}),
         largest_loss |-> Min({Nets[k] : k \in lost} \cup {0}),
         max_drawdown |-> MaxDrawdown]

-----------------------------------------------------------------------------
(* What a strategy asks for on a bar is not filled on that bar: a market   *)
(* order from on_candle, or from the hook of a resting order's fill, is    *)
(* filled or refused at the open of the next bar and waits for no other,   *)
(* and a resting order is matched with later bars only.  Nothing is said   *)
(* of orders from initialize, which no bar precedes, nor of those a hook   *)
(* of the opening loop places, which the code treats otherwise             *)
(* (backtest.py:193-195, 211-248).                                         *)
NextOpenFills ==
    \A i \in DOMAIN orders :
       LET o == orders[i] IN
       (o.by # "initialize" /\ o.during # "opening") =>
          /\ o.state = "filled" => /\ o.done > o.created
                                   /\ o.type = "market" => o.done = o.created + 1
          /\ (o.type = "market" /\ o.state = "pending") =>
                 bar = o.created \/ (bar = o.created + 1 /\ at = "opening")

(* What the module's doc says of every market order: "a market order       *)
(* placed while processing bar *i* fills at bar *i+1*'s open"              *)
(* (backtest.py:9-10).                                                     *)
MarketAtNextOpen ==
    \A i \in DOMAIN orders :
       LET o == orders[i] IN
       (o.type = "market" /\ o.state = "filled" /\ o.by # "initialize") =>
          o.done = o.created + 1

(* A stop or a target is executed at a price the bar traded, give or take  *)
(* the slippage: never at a level the bar had left behind, wherever the    *)
(* level came from, the order, the strategy or the trailing stop           *)
(* (backtest.py:327-379).                                                  *)
ExitsTraded ==
    \A t \in ToSet(trades) :
       t.why = "protection" => /\ t.close >= series[t.at].l - Slip
                               /\ t.close <= series[t.at].h + Slip

OpeningCommissions ==
    Total(orders, LAMBDA o : IF o.state = "filled" THEN Commission(o.filled, o.volume) ELSE 0)

AccountBalances ==
    balance = InitialBalance - OpeningCommissions + Total(trades, LAMBDA t : t.net)

VolumeBalances ==
    \A i \in DOMAIN orders :
       Total(trades, LAMBDA t : IF t.id = i THEN t.volume ELSE 0)
       + Total(positions, LAMBDA p : IF p.id = i THEN p.volume ELSE 0)
       = IF orders[i].state = "filled" THEN orders[i].volume ELSE 0

ProfitExplained ==
    Metrics.net_profit = Metrics.gross_profit - Metrics.gross_loss - OpeningCommissions

DrawdownIsLargest ==
    Metrics.max_drawdown =
       Max({0} \cup {IF i < j /\ curve[i] > 0 THEN curve[i] - curve[j] ELSE 0 :
                      i, j \in DOMAIN curve})

(* Every lot bought is sold exactly once, by whichever of strategy,        *)
(* protection and end of the series closes it, in parts or whole, and the  *)
(* balance is explained by the trades and the opening commissions; at the  *)
(* end nothing is left open, the profit that is reported is what the       *)
(* trades made, and the drawdown, found in one pass over the curve, is the *)
(* largest decline from any point above zero to a later one (_fill,        *)
(* close_position, run_backtest, compute_metrics, max_drawdown).           *)
BooksBalance ==
    /\ AccountBalances
    /\ VolumeBalances
    /\ Finished => positions = <<>> /\ ProfitExplained /\ DrawdownIsLargest
=============================================================================
