----------------------------- MODULE PaperBroker -----------------------------
(***************************************************************************)
(* The in-memory paper broker of one account: services/broker.py.          *)
(*                                                                         *)
(* The class is synchronous and is entered from the event loop, so a call  *)
(* is atomic for its caller: every request handler is one action.          *)
(* on_quote, the call that sweeps the book after a price change, is split  *)
(* at its loop iterations (the variable sweep is its program counter) and  *)
(* the other calls are guarded by Idle: its iterations follow one another  *)
(* with nothing in between, as in the code, and each is a step of its own. *)
(*                                                                         *)
(* Prices, lots, money and days are integers.  A price is the value of one *)
(* lot (contract_size is folded into it), a fee is CommissionRate per unit *)
(* of notional, and round(., n) has nothing left to do.                    *)
(***************************************************************************)
EXTENDS Integers, Sequences, FiniteSetsExt

CONSTANTS
    Symbols,         \* the instruments of the market data provider
    Requests,        \* the order requests clients may send
    Changes,         \* the keyword arguments modify_position may be given
    Prices,          \* the bids the provider may quote
    Spread,          \* ask minus bid
    SwapPoints,      \* SWAP_POINTS_PER_LOT_DAY: symbol -> charge per lot-day
    CommissionRate,  \* COMMISSION_RATE, per unit of notional and side
    Leverage,        \* BrokerAccount.leverage
    InitialBalance,  \* initial_balance
    Cash,            \* the amounts deposit and withdraw are called with
    MaxVolume,       \* bound: the lots of the largest request
    MaxOrders,       \* bound: the orders that get an id
    MaxDay,          \* bound: the clock stops on this day
    CashRange,       \* bound: the values the net cash paid in may take
    None,            \* Python's None
    Unset            \* the _UNSET default of modify_position

Maybe(S) == S \cup {None}
Sides    == {"buy", "sell"}
Types    == {"market", "limit", "stop", "stop_limit"}
OrderIds == 1..MaxOrders
Days     == 0..MaxDay

Request == [symbol : Symbols, side : Sides, type : Types,
            volume : 1..MaxVolume, price : Maybe(Int), limit : Maybe(Int),
            sl : Maybe(Int), tp : Maybe(Int), expiry : Maybe(Int)]

Change == [sl : Maybe(Int) \cup {Unset}, tp : Maybe(Int) \cup {Unset},
           trail : Maybe(Int) \cup {Unset}]

(* What _orders can hold.  "rejected" is a state of orders that _fill      *)
(* returns without storing them: it only occurs in events.                 *)
OrderStates == {"pending", "filled", "cancelled", "expired"}

Order == [symbol : Symbols, side : Sides, type : Types, volume : 1..MaxVolume,
          price : Int, limit : Maybe(Int), sl : Maybe(Int), tp : Maybe(Int),
          expiry : Maybe(Int), state : OrderStates, triggered : BOOLEAN]

Position == [symbol : Symbols, side : Sides, volume : 1..MaxVolume,
             open : Int, sl : Maybe(Int), tp : Maybe(Int), openedAt : Days,
             commission : Int, trail : Maybe(Int), extreme : Maybe(Int)]

(* What the provider and the clients are assumed to be. *)
ASSUME BrokerAssumption ==
    /\ None \notin Int \cup Order \cup Position
    /\ Unset \notin Int \cup {None}
    /\ Prices \subseteq Nat \ {0} /\ Prices # {}
    /\ Spread \in Nat
    /\ SwapPoints \in [Symbols -> Int]
    /\ CommissionRate \in Nat /\ Leverage \in Nat \ {0}
    /\ InitialBalance \in Nat /\ Cash \subseteq Nat \ {0}
    /\ MaxVolume \in Nat \ {0} /\ MaxOrders \in Nat
    /\ MaxDay \in Nat /\ CashRange \subseteq Int
    /\ Requests \subseteq Request
    /\ Changes \subseteq Change

VARIABLES
    bid,             \* bid[s]: the provider's current bid; the ask is Spread above
    now,             \* the clock, in days
    orders,          \* _orders: the order with an id, or NoOrder
    positions,       \* _positions: the position p-<id> that order <id> opened
    balance,         \* _account.balance
    commissionTotal, \* _commission_total
    closed,          \* _closed
    paidIn,          \* history: deposits minus withdrawals
    sweep,           \* where on_quote is, see SweepState
    events           \* the (event, payload) pairs on_quote has collected

vars == <<bid, now, orders, positions, balance, commissionTotal, closed,
          paidIn, sweep, events>>

account == <<balance, commissionTotal, closed>>

(* An id that was not handed out yet, and a position that is not open.  A  *)
(* dict key's absence is the value None of a total function.               *)
NoOrder    == None
NoPosition == None

Trade == [id : OrderIds, volume : 1..MaxVolume, gross : Int, net : Int,
          commission : Int, swap : Int]

Event == [kind : {"order.filled", "order.expired", "position.closed"},
          id : OrderIds,
          state : OrderStates \cup {"rejected", "closed"}]

SweepState == [at : {"idle", "orders", "positions", "done"},
               symbol : Symbols, todo : SUBSET OrderIds]

TypeOK ==
    /\ bid \in [Symbols -> Prices]
    /\ now \in Days
    /\ orders \in [OrderIds -> Order \cup {NoOrder}]
    /\ positions \in [OrderIds -> Position \cup {NoPosition}]
    /\ balance \in Int /\ commissionTotal \in Int /\ paidIn \in Int
    /\ closed \in Seq(Trade)
    /\ sweep \in SweepState
    /\ events \in Seq(Event)

ask(s) == bid[s] + Spread

-----------------------------------------------------------------------------
(* Prices at which things happen.                                          *)

(* A buyer pays the ask and receives the bid. *)
EntryPrice(side, s) == IF side = "buy" THEN ask(s) ELSE bid[s]
ExitPrice(side, s)  == IF side = "buy" THEN bid[s] ELSE ask(s)

(* Faulty variant: the target is compared with nothing. *)
TpUnchecked(side, price, sl, tp) ==
    sl # None => IF side = "buy" THEN sl < price ELSE sl > price

SlTpValid(side, price, sl, tp) ==
    /\ sl # None => IF side = "buy" THEN sl < price ELSE sl > price
    /\ tp # None => IF side = "buy" THEN tp > price ELSE tp < price
    /\ sl # None /\ tp # None => IF side = "buy" THEN sl < tp ELSE sl > tp

StopLimitValid(side, stop, limit) ==
    IF side = "buy" THEN limit >= stop ELSE limit <= stop

LimitReached(side, s, level) ==
    IF side = "buy" THEN ask(s) <= level ELSE bid[s] >= level

StopReached(side, s, level) ==
    IF side = "buy" THEN ask(s) >= level ELSE bid[s] <= level

Commission(price, volume) == price * volume * CommissionRate

(* _fill compares the margin with the whole balance. *)
Affordable(price, volume) == ~ price * volume > balance * Leverage

Direction(side) == IF side = "buy" THEN 1 ELSE -1

-----------------------------------------------------------------------------
(* Filling.                                                                *)

(* The next id: dict order is the order in which ids are handed out. *)
NextId(o) == /\ orders[o] = NoOrder
             /\ \A q \in OrderIds : q < o => orders[q] # NoOrder

OrderOf(r, price) ==
    [symbol |-> r.symbol, side |-> r.side, type |-> r.type,
     volume |-> r.volume, price |-> price,
     limit |-> IF r.type = "stop_limit" THEN r.limit ELSE None,
     sl |-> r.sl, tp |-> r.tp, expiry |-> r.expiry,
     state |-> "pending", triggered |-> FALSE]

(* _fill of an affordable order: the order is rebuilt as filled at price   *)
(* and opens a position, and the opening fee leaves the balance.           *)
Fill(o, order, price) ==
    LET fee == Commission(price, order.volume)
    IN  /\ orders' = [orders EXCEPT ![o] =
                         [order EXCEPT !.state = "filled", !.price = price,
                                       !.triggered = FALSE]]
        /\ positions' = [positions EXCEPT ![o] =
                            [symbol |-> order.symbol, side |-> order.side,
                             volume |-> order.volume, open |-> price,
                             sl |-> order.sl, tp |-> order.tp,
                             openedAt |-> now, commission |-> fee,
                             trail |-> None, extreme |-> None]]
        /\ balance' = balance - fee
        /\ commissionTotal' = commissionTotal + fee
        /\ UNCHANGED closed

(* Faulty variant: the stop must hold at the very quote that fills. *)
LatchForgotten(order) ==
    [order EXCEPT !.triggered =
        /\ order.type = "stop_limit"
        /\ StopReached(order.side, order.symbol, order.price)]

(* A stop-limit order remembers that its stop level was crossed. *)
Latched(order) ==
    [order EXCEPT !.triggered =
        \/ order.triggered
        \/ /\ order.type = "stop_limit"
           /\ StopReached(order.side, order.symbol, order.price)]

(* The level a resting order, latched if need be, fills at, and whether    *)
(* the quote is there: _is_crossed, and both halves of a stop-limit.       *)
FillLevel(order) == IF order.type = "stop_limit" THEN order.limit ELSE order.price

Crossed(order) ==
    CASE order.type = "limit" -> LimitReached(order.side, order.symbol, order.price)
      [] order.type = "stop"  -> StopReached(order.side, order.symbol, order.price)
      [] OTHER -> /\ order.triggered
                  /\ LimitReached(order.side, order.symbol, order.limit)

Fillable(order) ==
    Crossed(order) /\ Affordable(FillLevel(order), order.volume)

(* _maybe_fill: only the latch is stored when the order does not fill, and *)
(* an order that cannot be paid for stays pending in the book.             *)
MaybeFill(o, order) ==
    LET latched == Latched(order)
    IN  \/ /\ Fillable(latched)
           /\ Fill(o, latched, FillLevel(latched))
        \/ /\ ~ Fillable(latched)
           /\ orders' = [orders EXCEPT ![o] = latched]
           /\ UNCHANGED <<positions, account>>

-----------------------------------------------------------------------------
(* Closing.                                                                *)

Swap(p, volume) == SwapPoints[p.symbol] * volume * (now - p.openedAt)

(* Faulty variants: an emptied position stays in the book; a partial close *)
(* leaves the whole volume open.                                           *)
EmptyStays(p, volume) == [p EXCEPT !.volume = @ - volume]

PartForgotten(p, volume) == IF p.volume > volume THEN p ELSE NoPosition

(* What a close leaves of the position.  Its commission stays as it was. *)
Remaining(p, volume) ==
    IF p.volume > volume THEN [p EXCEPT !.volume = @ - volume] ELSE NoPosition

(* Faulty variant: the balance pays the opening fee once more. *)
OpenFeeTwice(gross, closeFee, openFee, swap) ==
    gross - closeFee - openFee - swap

(* What a close moves into the balance: the opening fee was paid at the    *)
(* fill, only the trade's net pnl counts it.                               *)
Settlement(gross, closeFee, openFee, swap) == gross - closeFee - swap

(* close_position at a price, of the whole position or of a part. *)
Settle(o, price, volume) ==
    LET p        == positions[o]
        gross    == (price - p.open) * Direction(p.side) * volume
        closeFee == Commission(price, volume)
        openFee  == (p.commission * volume) \div p.volume
        swap     == Swap(p, volume)
    IN  /\ volume \in 1..p.volume
        /\ balance' = balance + Settlement(gross, closeFee, openFee, swap)
        /\ commissionTotal' = commissionTotal + closeFee
        /\ closed' = Append(closed,
                            [id |-> o, volume |-> volume, gross |-> gross,
                             net |-> gross - closeFee - openFee - swap,
                             commission |-> closeFee, swap |-> swap])
        /\ positions' = [positions EXCEPT ![o] = Remaining(p, volume)]
        /\ UNCHANGED orders

-----------------------------------------------------------------------------
(* The requests.                                                           *)

Idle == sweep.at = "idle"

Open(o) == positions[o] # NoPosition

Pending(o) == orders[o] # NoOrder /\ orders[o].state = "pending"

ExpiryValid(r) == r.expiry # None => r.expiry > now

(* place_order of a market order that can be paid for.  One that cannot is *)
(* answered "rejected" and leaves no trace.                                *)
PlaceMarket(r) ==
    LET price == EntryPrice(r.side, r.symbol)
    IN  /\ Idle
        /\ r.type = "market" /\ ExpiryValid(r)
        /\ SlTpValid(r.side, price, r.sl, r.tp)
        /\ Affordable(price, r.volume)
        /\ \E o \in OrderIds : NextId(o) /\ Fill(o, OrderOf(r, price), price)
        /\ UNCHANGED <<bid, now, paidIn, sweep, events>>

(* place_order of a resting order: stored, then tried at once. *)
PlaceResting(r) ==
    /\ Idle
    /\ r.type # "market" /\ r.price # None /\ ExpiryValid(r)
    /\ r.type = "stop_limit" =>
          r.limit # None /\ StopLimitValid(r.side, r.price, r.limit)
    /\ SlTpValid(r.side, r.price, r.sl, r.tp)
    /\ \E o \in OrderIds : NextId(o) /\ MaybeFill(o, OrderOf(r, r.price))
    /\ UNCHANGED <<bid, now, paidIn, sweep, events>>

(* Faulty variant: cancels an order in whatever state it is. *)
CancelAny(o) ==
    /\ Idle
    /\ orders[o] # NoOrder
    /\ orders' = [orders EXCEPT ![o].state = "cancelled"]
    /\ UNCHANGED <<positions, account, bid, now, paidIn, sweep, events>>

CancelOrder(o) ==
    /\ Idle
    /\ Pending(o)
    /\ orders' = [orders EXCEPT ![o].state = "cancelled"]
    /\ UNCHANGED <<positions, account, bid, now, paidIn, sweep, events>>

(* A client's close_position: at the side's exit price. *)
ClosePosition(o, volume) ==
    /\ Idle
    /\ Open(o)
    /\ Settle(o, ExitPrice(positions[o].side, positions[o].symbol), volume)
    /\ UNCHANGED <<bid, now, paidIn, sweep, events>>

Given(arg, old) == IF arg = Unset THEN old ELSE arg

(* modify_position: a new trailing distance restarts from the current      *)
(* price, everything not given stays.                                      *)
ModifyPosition(o, c) ==
    LET p     == positions[o]
        exit  == ExitPrice(p.side, p.symbol)
        sl    == Given(c.sl, p.sl)
        tp    == Given(c.tp, p.tp)
        trail == Given(c.trail, p.trail)
    IN  /\ Idle
        /\ Open(o)
        /\ SlTpValid(p.side, exit, sl, tp)
        /\ trail # None => trail > 0
        /\ positions' = [positions EXCEPT ![o] =
               [p EXCEPT !.sl = sl, !.tp = tp, !.trail = trail,
                         !.extreme = IF c.trail # Unset /\ trail # None
                                     THEN exit ELSE @]]
        /\ UNCHANGED <<orders, account, bid, now, paidIn, sweep, events>>

Deposit(amount) ==
    /\ Idle
    /\ paidIn + amount \in CashRange
    /\ balance' = balance + amount
    /\ paidIn' = paidIn + amount
    /\ UNCHANGED <<orders, positions, commissionTotal, closed, bid, now,
                   sweep, events>>

Withdraw(amount) ==
    /\ Idle
    /\ paidIn - amount \in CashRange
    /\ amount <= balance
    /\ balance' = balance - amount
    /\ paidIn' = paidIn - amount
    /\ UNCHANGED <<orders, positions, commissionTotal, closed, bid, now,
                   sweep, events>>

-----------------------------------------------------------------------------
(* on_quote.                                                               *)

(* The orders the first loop acts on.  It visits the whole book and skips  *)
(* the others; no iteration changes an order but its own.                  *)
BeginSweep(s) ==
    /\ Idle
    /\ sweep' = [at |-> "orders", symbol |-> s,
                 todo |-> {o \in OrderIds : Pending(o) /\ orders[o].symbol = s}]
    /\ UNCHANGED <<orders, positions, account, bid, now, paidIn, events>>

Visited(o) == sweep' = [sweep EXCEPT !.todo = @ \ {o}]

Report(kind, o, state) ==
    events' = Append(events, [kind |-> kind, id |-> o, state |-> state])

FirstTodo(o) == o \in sweep.todo /\ \A q \in sweep.todo : o <= q

(* Faulty variant: an order lives a day longer. *)
ExpiredLate(order) == order.expiry # None /\ order.expiry + 1 < now

Expired(order) == order.expiry # None /\ order.expiry < now

SweepExpires(o) ==
    /\ sweep.at = "orders" /\ FirstTodo(o)
    /\ Expired(orders[o])
    /\ orders' = [orders EXCEPT ![o].state = "expired"]
    /\ Report("order.expired", o, "expired")
    /\ Visited(o)
    /\ UNCHANGED <<positions, account, bid, now, paidIn>>

(* An attempt to fill is reported as order.filled, with whatever state the *)
(* order it returned is in.                                                *)
SweepTries(o) ==
    LET latched == Latched(orders[o])
    IN  /\ sweep.at = "orders" /\ FirstTodo(o)
        /\ ~ Expired(orders[o])
        /\ MaybeFill(o, orders[o])
        /\ IF Crossed(latched)
           THEN Report("order.filled", o,
                       IF Fillable(latched) THEN "filled" ELSE "rejected")
           ELSE UNCHANGED events
        /\ Visited(o)
        /\ UNCHANGED <<bid, now, paidIn>>

(* The second loop visits the positions, the ones just opened included. *)
TurnToPositions ==
    /\ sweep.at = "orders" /\ sweep.todo = {}
    /\ sweep' = [sweep EXCEPT !.at = "positions",
                 !.todo = {o \in OrderIds :
                             Open(o) /\ positions[o].symbol = sweep.symbol}]
    /\ UNCHANGED <<orders, positions, account, bid, now, paidIn, events>>

Better(side, a, b) == IF side = "buy" THEN Max({a, b}) ELSE Min({a, b})

(* Faulty variant: the stop follows the price down again. *)
TrailedBack(p) ==
    LET best == ExitPrice(p.side, p.symbol)
    IN  IF p.trail = None THEN p
        ELSE [p EXCEPT !.extreme = best,
                       !.sl = best - Direction(p.side) * p.trail]

(* _apply_trailing: the stop follows the best price at the distance trail *)
(* and is never moved back.                                               *)
Trailed(p) ==
    LET best   == Better(p.side, IF p.extreme = None THEN p.open ELSE p.extreme,
                         ExitPrice(p.side, p.symbol))
        behind == best - Direction(p.side) * p.trail
    IN  IF p.trail = None THEN p
        ELSE [p EXCEPT !.extreme = best,
                       !.sl = IF @ = None THEN behind
                              ELSE Better(p.side, @, behind)]

(* Faulty variant: a short position's stop watches the bid. *)
SlHitOnBid(p) ==
    /\ p.sl # None
    /\ IF p.side = "buy" THEN bid[p.symbol] <= p.sl ELSE bid[p.symbol] >= p.sl

SlHit(p) ==
    /\ p.sl # None
    /\ IF p.side = "buy" THEN bid[p.symbol] <= p.sl ELSE ask(p.symbol) >= p.sl

TpHit(p) ==
    /\ p.tp # None
    /\ IF p.side = "buy" THEN bid[p.symbol] >= p.tp ELSE ask(p.symbol) <= p.tp

(* One iteration of the second loop, the stop checked before the target.   *)
(* Positions do not affect one another here: their order is left open.     *)
SweepKeeps(o) ==
    LET p == Trailed(positions[o])
    IN  /\ sweep.at = "positions" /\ o \in sweep.todo
        /\ ~ SlHit(p) /\ ~ TpHit(p)
        /\ positions' = [positions EXCEPT ![o] = p]
        /\ Visited(o)
        /\ UNCHANGED <<orders, account, bid, now, paidIn, events>>

SweepCloses(o) ==
    LET p == Trailed(positions[o])
    IN  /\ sweep.at = "positions" /\ o \in sweep.todo
        /\ SlHit(p) \/ TpHit(p)
        /\ Settle(o, IF SlHit(p) THEN p.sl ELSE p.tp, p.volume)
        /\ Report("position.closed", o, "closed")
        /\ Visited(o)
        /\ UNCHANGED <<bid, now, paidIn>>

EndSweep ==
    /\ sweep.at = "positions" /\ sweep.todo = {}
    /\ sweep' = [sweep EXCEPT !.at = "done"]
    /\ UNCHANGED <<orders, positions, account, bid, now, paidIn, events>>

(* The caller takes the events. *)
Return ==
    /\ sweep.at = "done"
    /\ sweep' = [sweep EXCEPT !.at = "idle"]
    /\ events' = <<>>
    /\ UNCHANGED <<orders, positions, account, bid, now, paidIn>>

-----------------------------------------------------------------------------
(* The provider and the clock.  on_quote reads both once, before its first *)
(* loop, so that they move only between calls loses nothing.               *)

MarketMoves(s, price) ==
    /\ Idle
    /\ bid' = [bid EXCEPT ![s] = price]
    /\ UNCHANGED <<orders, positions, account, now, paidIn, sweep, events>>

NewDay ==
    /\ Idle
    /\ now < MaxDay
    /\ now' = now + 1
    /\ UNCHANGED <<orders, positions, account, bid, paidIn, sweep, events>>

Init ==
    /\ bid \in [Symbols -> Prices]
    /\ now = 0
    /\ orders = [o \in OrderIds |-> NoOrder]
    /\ positions = [o \in OrderIds |-> NoPosition]
    /\ balance = InitialBalance /\ commissionTotal = 0 /\ paidIn = 0
    /\ closed = <<>>
    /\ \E s \in Symbols : sweep = [at |-> "idle", symbol |-> s, todo |-> {}]
    /\ events = <<>>

Environment ==
    \/ \E s \in Symbols, price \in Prices : MarketMoves(s, price)
    \/ NewDay

(* The calls that are one step. *)
Requested ==
    \/ \E r \in Requests : PlaceMarket(r) \/ PlaceResting(r)
    \/ \E o \in OrderIds : CancelOrder(o)
    \/ \E o \in OrderIds, volume \in 1..MaxVolume : ClosePosition(o, volume)
    \/ \E o \in OrderIds, c \in Changes : ModifyPosition(o, c)
    \/ \E amount \in Cash : Deposit(amount) \/ Withdraw(amount)

OnQuote ==
    \/ \E s \in Symbols : BeginSweep(s)
    \/ \E o \in OrderIds : \/ SweepExpires(o) \/ SweepTries(o)
                           \/ SweepKeeps(o) \/ SweepCloses(o)
    \/ TurnToPositions
    \/ EndSweep
    \/ Return

Next == Environment \/ Requested \/ OnQuote

Spec == Init /\ [][Next]_vars

-----------------------------------------------------------------------------
(* What the broker must guarantee.                                         *)

ClosedVolume(o) ==
    SumFunctionOnSet([i \in DOMAIN closed |-> closed[i].volume],
                     {i \in DOMAIN closed : closed[i].id = o})

(* Exposure is neither lost nor invented: what a filled order bought is    *)
(* either still in its position or in the closed trades, through partial   *)
(* closes by the client and protections fired by on_quote; an order that   *)
(* did not fill has neither.                                               *)
VolumeConserved ==
    \A o \in OrderIds :
        (IF Open(o) THEN positions[o].volume ELSE 0) + ClosedVolume(o)
      = IF orders[o] # NoOrder /\ orders[o].state = "filled"
        THEN orders[o].volume ELSE 0

(* The money adds up: the balance is what was paid in plus what the trades *)
(* made before fees, minus every fee the broker ever charged; nothing is   *)
(* charged twice, the fees at the fill and at each close are all counted.  *)
BookBalances ==
    balance = InitialBalance + paidIn - commissionTotal
            + SumFunction([i \in DOMAIN closed |-> closed[i].gross - closed[i].swap])

(* A position's protections never cross: whatever sequence of fills,       *)
(* modifications and trailing set them, a stop stays on the losing side of *)
(* the target, so that on_quote's choice of checking the stop first never  *)
(* hides a target.                                                         *)
ProtectionsOrdered ==
    \A o \in OrderIds : Open(o) =>
        LET p == positions[o]
        IN  p.sl # None /\ p.tp # None =>
                IF p.side = "buy" THEN p.sl < p.tp ELSE p.sl > p.tp

(* Every open position is the exposure of a filled order on the same side  *)
(* of the same instrument, opened at the price the order says, and no      *)
(* larger than it.                                                         *)
PositionBacked ==
    \A o \in OrderIds : Open(o) =>
        /\ orders[o] # NoOrder
        /\ orders[o].state = "filled"
        /\ positions[o].symbol = orders[o].symbol
        /\ positions[o].side = orders[o].side
        /\ positions[o].open = orders[o].price
        /\ positions[o].volume <= orders[o].volume

(* A level lies on the near side of a price: a stop that has not been      *)
(* reached, or a target that has.                                          *)
Beyond(side, price, level) ==
    IF side = "buy" THEN price > level ELSE price < level

PastExpiry(order) == order.expiry # None /\ order.expiry < now

(* The quote is where a resting order asked for. *)
PriceReached(order) ==
    LET entry == EntryPrice(order.side, order.symbol)
    IN  CASE order.type = "limit" -> ~ Beyond(order.side, entry, order.price)
          [] order.type = "stop" ->
               entry = order.price \/ Beyond(order.side, entry, order.price)
          [] OTHER -> order.triggered /\ ~ Beyond(order.side, entry, order.limit)

(* When on_quote returns there is nothing left to do at that quote: no     *)
(* position of the symbol is past its stop or target, no resting order is  *)
(* past its expiry, and one whose price was reached was reported as        *)
(* rejected for want of margin.                                            *)
SweepSettles ==
    sweep.at = "done" =>
      \A o \in OrderIds :
        /\ Open(o) /\ positions[o].symbol = sweep.symbol =>
              LET p    == positions[o]
                  exit == ExitPrice(p.side, p.symbol)
              IN  /\ p.sl # None => Beyond(p.side, exit, p.sl)
                  /\ p.tp # None => Beyond(p.side, p.tp, exit)
        /\ Pending(o) /\ orders[o].symbol = sweep.symbol =>
              /\ ~ PastExpiry(orders[o])
              /\ PriceReached(orders[o]) =>
                    \E i \in DOMAIN events : events[i] =
                       [kind |-> "order.filled", id |-> o, state |-> "rejected"]

(* on_quote may tighten a stop or leave it, never loosen or drop it: only  *)
(* the client gives protection up.                                         *)
TightenedOnly ==
    \A o \in OrderIds :
        ~ Idle /\ Open(o) /\ Open(o)' /\ positions[o].sl # None =>
            LET old == positions[o].sl
                new == positions'[o].sl
            IN  /\ new # None
                /\ IF positions[o].side = "buy" THEN new >= old ELSE new <= old

StopNeverLoosened == [][TightenedOnly]_vars

(* A resting order does not fill once its expiry is past, whatever the     *)
(* quote: on_quote looks at the clock before it looks at the price.        *)
FillsInTime ==
    \A o \in OrderIds :
        Pending(o) /\ orders'[o].state = "filled" => ~ PastExpiry(orders[o])

NoFillAfterExpiry == [][FillsInTime]_vars

(* What tests/unit/test_broker.py says of a round trip, of any number of   *)
(* them: with no position open, the balance moved by the net pnl of the    *)
(* closed trades.                                                          *)
NetPnlExplainsBalance ==
    (\A o \in OrderIds : ~ Open(o)) =>
        balance - InitialBalance - paidIn
      = SumFunction([i \in DOMAIN closed |-> closed[i].net])

(* What the comment on SWAP_POINTS_PER_LOT_DAY says: negative points are a *)
(* cost, a trade does not earn by them.  (Said without commissions, which   *)
(* would hide it.)                                                         *)
NegativeSwapCosts ==
    CommissionRate = 0 => \A i \in DOMAIN closed :
        SwapPoints[orders[closed[i].id].symbol] < 0 => closed[i].net <= closed[i].gross

(* The life of each order and of its exposure is the abstract one. *)
OrderStatus ==
    [o \in OrderIds |->
        IF orders[o] = NoOrder THEN "unborn"
        ELSE IF orders[o].state = "pending" /\ orders[o].triggered THEN "armed"
        ELSE orders[o].state]

OpenLots == [o \in OrderIds |-> IF Open(o) THEN positions[o].volume ELSE 0]

Lifecycle == INSTANCE OrderLifecycle WITH status <- OrderStatus, lots <- OpenLots

LifecycleSpec == Lifecycle!Spec
=============================================================================
