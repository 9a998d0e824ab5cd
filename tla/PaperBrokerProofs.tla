-------------------------- MODULE PaperBrokerProofs --------------------------
(***************************************************************************)
(* What TLAPS proves of PaperBroker for every set of requests, every       *)
(* price range and every number of orders.                                 *)
(***************************************************************************)
EXTENDS PaperBroker, SumTheorems, TLAPS

USE DEF NoOrder, NoPosition

-----------------------------------------------------------------------------
(* Lemmas about the operators the actions are built from.                  *)

(* Better picks one of its two arguments, and for a buyer the larger one. *)
LEMMA BetterPicks ==
    ASSUME NEW side \in Sides, NEW a \in Int, NEW b \in Int
    PROVE  /\ Better(side, a, b) \in {a, b}
           /\ IF side = "buy" THEN Better(side, a, b) >= a /\ Better(side, a, b) >= b
              ELSE Better(side, a, b) <= a /\ Better(side, a, b) <= b
<1>1. \E x \in {a, b} : \A y \in {a, b} : x >= y
  <2>1. CASE a >= b BY <2>1
  <2>2. CASE b >= a BY <2>2
  <2>3. QED BY <2>1, <2>2
<1>2. \E x \in {a, b} : \A y \in {a, b} : x =< y
  <2>1. CASE a =< b BY <2>1
  <2>2. CASE b =< a BY <2>2
  <2>3. QED BY <2>1, <2>2
<1>3. Max({a, b}) \in {a, b} /\ \A y \in {a, b} : Max({a, b}) >= y
  BY <1>1 DEF Max
<1>4. Min({a, b}) \in {a, b} /\ \A y \in {a, b} : Min({a, b}) =< y
  BY <1>2 DEF Min
<1>5. QED BY <1>3, <1>4 DEF Better

(* The assumptions on the constants, element by element. *)
LEMMA Constants ==
    /\ \A p \in Prices : p \in Int
    /\ Spread \in Int /\ CommissionRate \in Int /\ Leverage \in Int
    /\ \A s \in Symbols : SwapPoints[s] \in Int
    /\ InitialBalance \in Int /\ \A c \in Cash : c \in Int
    /\ MaxVolume \in Nat \ {0} /\ MaxDay \in Nat /\ MaxOrders \in Nat
    /\ \A r \in Requests : r \in Request
    /\ \A c \in Changes : c \in Change
    /\ None \notin Int /\ Unset \notin Int /\ None # Unset
    /\ None \notin Order /\ None \notin Position
BY BrokerAssumption

LEMMA PricesInt ==
    ASSUME TypeOK, NEW s \in Symbols, NEW side
    PROVE  /\ bid[s] \in Int /\ ask(s) \in Int
           /\ ExitPrice(side, s) \in Int /\ EntryPrice(side, s) \in Int
BY Constants DEF TypeOK, ask, ExitPrice, EntryPrice

LEMMA CommissionInt == ASSUME NEW price \in Int, NEW volume \in Int
                       PROVE  Commission(price, volume) \in Int
BY Constants DEF Commission

LEMMA MaxVolumeRange == \A v \in 1..MaxVolume : v \in Int /\ v >= 1
BY Constants

(* A new order is well formed and pending. *)
LEMMA OrderOfType ==
    ASSUME NEW r \in Requests, NEW price \in Int
    PROVE  OrderOf(r, price) \in Order /\ OrderOf(r, price).state = "pending"
BY Constants DEF OrderOf, Order, Request, OrderStates, Maybe

LEMMA LatchedType == ASSUME NEW order \in Order
                     PROVE  /\ Latched(order) \in Order
                            /\ \A f \in {"symbol", "side", "type", "volume",
                                         "price", "limit", "sl", "tp", "expiry",
                                         "state"} : Latched(order)[f] = order[f]
BY DEF Latched, Order

(* The level a resting order that can fill asks for is a price. *)
LEMMA FillLevelType ==
    ASSUME NEW order \in Order, order.type = "stop_limit" => order.limit # None
    PROVE  FillLevel(order) \in Int
BY DEF FillLevel, Order, Maybe

-----------------------------------------------------------------------------
(* The inductive invariant.  PositionBacked and ProtectionsOrdered are not *)
(* inductive alone: a fill copies the protections of the order, so orders  *)
(* must have them in order, and a sweep acts on ids collected before its   *)
(* loop, so what was collected must still be pending or open.              *)

OrderSound(order) ==
    /\ order.type = "stop_limit" => order.limit # None
    /\ order.sl # None /\ order.tp # None =>
          IF order.side = "buy" THEN order.sl < order.tp ELSE order.sl > order.tp

OrdersSound == \A o \in OrderIds : orders[o] # NoOrder => OrderSound(orders[o])

Book == OrdersSound /\ PositionBacked /\ ProtectionsOrdered

SweepSound ==
    /\ sweep.at = "orders" => \A o \in sweep.todo : Pending(o)
    /\ sweep.at = "positions" => \A o \in sweep.todo : Open(o)

IInv == TypeOK /\ Book /\ SweepSound

(* The variables a fill or a close writes. *)
BookTypes ==
    /\ orders \in [OrderIds -> Order \cup {NoOrder}]
    /\ positions \in [OrderIds -> Position \cup {NoPosition}]
    /\ balance \in Int /\ commissionTotal \in Int
    /\ closed \in Seq(Trade)

(* Only the entries of one id change. *)
OnlyId(o) == \A q \in OrderIds \ {o} : /\ orders'[q] = orders[q]
                                      /\ positions'[q] = positions[q]

(* Filling a sound order keeps the book sound. *)
LEMMA FillKeeps ==
    ASSUME TypeOK, Book, NEW o \in OrderIds, NEW order \in Order,
           NEW price \in Int, OrderSound(order), Fill(o, order, price)
    PROVE  BookTypes' /\ Book' /\ OnlyId(o)
<1> DEFINE fee == Commission(price, order.volume)
           filled == [order EXCEPT !.state = "filled", !.price = price,
                                   !.triggered = FALSE]
           opened == [symbol |-> order.symbol, side |-> order.side,
                      volume |-> order.volume, open |-> price,
                      sl |-> order.sl, tp |-> order.tp,
                      openedAt |-> now, commission |-> fee,
                      trail |-> None, extreme |-> None]
<1>1. fee \in Int BY CommissionInt DEF Order
<1>2. filled \in Order BY DEF Order, OrderStates
<1>3. opened \in Position BY <1>1 DEF Order, Position, TypeOK, Maybe
<1>4. orders' = [orders EXCEPT ![o] = filled] BY DEF Fill
<1>5. positions' = [positions EXCEPT ![o] = opened] BY DEF Fill
<1>6. BookTypes'
  BY <1>1, <1>2, <1>3, <1>4, <1>5 DEF Fill, TypeOK, BookTypes
<1>7. OnlyId(o) BY <1>4, <1>5 DEF OnlyId, TypeOK
<1>8. orders'[o] = filled /\ positions'[o] = opened BY <1>4, <1>5 DEF TypeOK
<1> HIDE DEF filled, opened, fee
<1>9. filled # None /\ opened # None BY <1>2, <1>3, Constants
<1>10. /\ filled.state = "filled" /\ filled.price = price
       /\ \A f \in {"symbol", "side", "type", "volume", "limit", "sl", "tp"} :
             filled[f] = order[f]
  BY DEF filled, Order
<1>11. /\ opened.open = price
       /\ \A f \in {"symbol", "side", "volume", "sl", "tp"} :
             opened[f] = order[f]
  BY DEF opened
<1>12. OrdersSound'
  BY <1>7, <1>8, <1>10 DEF OnlyId, Book, OrdersSound, OrderSound
<1>13. PositionBacked'
  <2> SUFFICES ASSUME NEW q \in OrderIds, Open(q)'
               PROVE  /\ orders'[q] # NoOrder
                      /\ orders'[q].state = "filled"
                      /\ positions'[q].symbol = orders'[q].symbol
                      /\ positions'[q].side = orders'[q].side
                      /\ positions'[q].open = orders'[q].price
                      /\ positions'[q].volume <= orders'[q].volume
    BY DEF PositionBacked
  <2>1. CASE q = o
    BY <2>1, <1>8, <1>9, <1>10, <1>11, MaxVolumeRange DEF Order
  <2>2. CASE q # o
    BY <2>2, <1>7 DEF OnlyId, Book, PositionBacked, Open
  <2>3. QED BY <2>1, <2>2
<1>14. ProtectionsOrdered'
  BY <1>7, <1>8, <1>11 DEF OnlyId, Book, ProtectionsOrdered, Open, OrderSound
<1>15. QED BY <1>6, <1>7, <1>12, <1>13, <1>14 DEF Book

(* So does trying to fill a pending order that has opened nothing. *)
LEMMA MaybeFillKeeps ==
    ASSUME TypeOK, Book, NEW o \in OrderIds, NEW order \in Order,
           OrderSound(order), order.state = "pending", ~ Open(o),
           MaybeFill(o, order)
    PROVE  BookTypes' /\ Book' /\ OnlyId(o)
<1> DEFINE latched == Latched(order)
<1>1. latched \in Order /\ OrderSound(latched)
  BY LatchedType DEF OrderSound
<1>2. CASE Fillable(latched) /\ Fill(o, latched, FillLevel(latched))
  <2>1. FillLevel(latched) \in Int BY <1>1, FillLevelType DEF OrderSound
  <2>2. QED BY <1>1, <1>2, <2>1, FillKeeps
<1>3. CASE /\ orders' = [orders EXCEPT ![o] = latched]
           /\ UNCHANGED <<positions, account>>
  <2>1. BookTypes' BY <1>1, <1>3 DEF TypeOK, BookTypes, account
  <2>2. OnlyId(o) BY <1>3 DEF OnlyId, TypeOK
  <2>3. OrdersSound' BY <1>1, <1>3, <2>2 DEF OnlyId, OrdersSound, Book, TypeOK
  <2>4. \A q \in OrderIds : Open(q)' => Open(q) /\ q # o BY <1>3 DEF Open
  <2>5. PositionBacked' BY <2>2, <2>4 DEF OnlyId, PositionBacked, Book
  <2>6. ProtectionsOrdered' BY <2>2, <2>4 DEF OnlyId, ProtectionsOrdered, Book
  <2>7. QED BY <2>1, <2>2, <2>3, <2>5, <2>6 DEF Book
<1>4. QED BY <1>2, <1>3 DEF MaybeFill

(* What a partial close leaves is the same position with fewer lots. *)
LEMMA RemainingType ==
    ASSUME NEW p \in Position, NEW volume \in 1..p.volume
    PROVE  \/ Remaining(p, volume) = None
           \/ /\ Remaining(p, volume) \in Position
              /\ Remaining(p, volume).volume <= p.volume
              /\ \A f \in {"symbol", "side", "open", "sl", "tp"} :
                    Remaining(p, volume)[f] = p[f]
<1>1. p.volume \in 1..MaxVolume BY DEF Position
<1>2. p.volume \in Int /\ volume \in Int BY <1>1, MaxVolumeRange
<1>3. CASE p.volume > volume
  <2>1. p.volume - volume \in 1..MaxVolume /\ p.volume - volume <= p.volume
    BY <1>1, <1>2, <1>3, Constants
  <2>2. Remaining(p, volume) = [p EXCEPT !.volume = p.volume - volume]
    BY <1>3 DEF Remaining
  <2>3. QED BY <2>1, <2>2 DEF Position
<1>4. CASE ~ p.volume > volume BY <1>4 DEF Remaining
<1>5. QED BY <1>3, <1>4

(* Closing an open position, in part or in full, keeps the book sound. *)
LEMMA SettleKeeps ==
    ASSUME TypeOK, Book, NEW o \in OrderIds, Open(o), NEW price \in Int,
           NEW volume, Settle(o, price, volume)
    PROVE  BookTypes' /\ Book' /\ OnlyId(o)
<1> DEFINE p        == positions[o]
           gross    == (price - p.open) * Direction(p.side) * volume
           closeFee == Commission(price, volume)
           openFee  == (p.commission * volume) \div p.volume
           swap     == Swap(p, volume)
           trade    == [id |-> o, volume |-> volume, gross |-> gross,
                        net |-> gross - closeFee - openFee - swap,
                        commission |-> closeFee, swap |-> swap]
           left     == Remaining(p, volume)
<1>1. p \in Position BY DEF TypeOK, Open
<1>2. volume \in 1..p.volume BY DEF Settle
<1>3. /\ p.volume \in 1..MaxVolume /\ p.open \in Int /\ p.commission \in Int
      /\ p.symbol \in Symbols /\ p.openedAt \in Int /\ now \in Int
      /\ Direction(p.side) \in Int
  BY <1>1, Constants DEF Position, TypeOK, Direction, Days
<1>4. volume \in 1..MaxVolume /\ volume \in Int /\ p.volume \in Int /\ p.volume > 0
  BY <1>2, <1>3, Constants
<1>5. gross \in Int BY <1>3, <1>4
<1>6. closeFee \in Int BY <1>4, CommissionInt
<1>7. openFee \in Int BY <1>3, <1>4
<1>8. swap \in Int BY <1>3, <1>4, Constants DEF Swap
<1>9. trade \in Trade BY <1>4, <1>5, <1>6, <1>7, <1>8 DEF Trade
<1>10. left = None \/ left \in Position BY <1>1, <1>2, RemainingType
<1>11. /\ positions' = [positions EXCEPT ![o] = left] /\ orders' = orders
       /\ balance' = balance + (gross - closeFee - swap)
       /\ commissionTotal' = commissionTotal + closeFee
       /\ closed' = Append(closed, trade)
  BY DEF Settle, Settlement
<1>12. BookTypes'
  <2>1. balance' \in Int /\ commissionTotal' \in Int
    BY <1>5, <1>6, <1>8, <1>11 DEF TypeOK
  <2>2. closed' \in Seq(Trade) BY <1>9, <1>11 DEF TypeOK
  <2>3. QED BY <2>1, <2>2, <1>10, <1>11 DEF BookTypes, TypeOK
<1>13. OnlyId(o) BY <1>11 DEF OnlyId, TypeOK
<1>14. positions'[o] = left BY <1>11 DEF TypeOK
<1>15. OrdersSound' BY <1>11 DEF OrdersSound, Book
<1> HIDE DEF p, left, trade, gross, closeFee, openFee, swap
<1>16. \/ left = None
       \/ /\ left.volume \in Int /\ left.volume <= p.volume
          /\ \A f \in {"symbol", "side", "open", "sl", "tp"} : left[f] = p[f]
  BY <1>1, <1>2, RemainingType, MaxVolumeRange DEF left, Position
<1>17. PositionBacked'
  <2> SUFFICES ASSUME NEW q \in OrderIds, Open(q)'
               PROVE  /\ orders'[q] # NoOrder
                      /\ orders'[q].state = "filled"
                      /\ positions'[q].symbol = orders'[q].symbol
                      /\ positions'[q].side = orders'[q].side
                      /\ positions'[q].open = orders'[q].price
                      /\ positions'[q].volume <= orders'[q].volume
    BY DEF PositionBacked
  <2>1. CASE q = o
    <3>1. /\ orders[o] # NoOrder /\ orders[o].state = "filled"
          /\ p.symbol = orders[o].symbol /\ p.side = orders[o].side
          /\ p.open = orders[o].price /\ p.volume <= orders[o].volume
      BY DEF Book, PositionBacked, p
    <3>2. orders[o].volume \in Int
      BY <3>1, MaxVolumeRange DEF TypeOK, Order
    <3>3. QED BY <2>1, <3>1, <3>2, <1>4, <1>11, <1>14, <1>16 DEF Open
  <2>2. CASE q # o
    BY <2>2, <1>11, <1>13 DEF OnlyId, Book, PositionBacked, Open
  <2>3. QED BY <2>1, <2>2
<1>18. ProtectionsOrdered'
  BY <1>13, <1>14, <1>16 DEF OnlyId, Book, ProtectionsOrdered, Open, p
<1>19. QED BY <1>12, <1>13, <1>15, <1>17, <1>18 DEF Book

(* The trailing stop of a position is recomputed and nothing else, and the *)
(* stop it had is only ever tightened.                                     *)
LEMMA TrailedType ==
    ASSUME TypeOK, NEW p \in Position
    PROVE  /\ Trailed(p) \in Position
           /\ \A f \in {"symbol", "side", "volume", "open", "tp"} :
                 Trailed(p)[f] = p[f]
           /\ p.sl # None =>
                 /\ Trailed(p).sl # None
                 /\ IF p.side = "buy" THEN Trailed(p).sl >= p.sl
                                     ELSE Trailed(p).sl <= p.sl
<1> DEFINE seen   == IF p.extreme = None THEN p.open ELSE p.extreme
           exit   == ExitPrice(p.side, p.symbol)
           best   == Better(p.side, seen, exit)
           behind == best - Direction(p.side) * p.trail
           stop   == IF p.sl = None THEN behind ELSE Better(p.side, p.sl, behind)
<1>1. CASE p.trail = None BY <1>1 DEF Trailed, Position, Maybe
<1>2. CASE p.trail # None
  <2>1. /\ p.trail \in Int /\ p.side \in Sides /\ p.symbol \in Symbols
        /\ p.open \in Int /\ p.sl \in Int \cup {None} /\ seen \in Int
    BY <1>2 DEF Position, Maybe
  <2>2. exit \in Int BY <2>1, PricesInt
  <2>3. best \in Int BY <2>1, <2>2, BetterPicks
  <2>4. behind \in Int BY <2>1, <2>3 DEF Direction
  <2>5. /\ stop \in Int
        /\ p.sl # None => IF p.side = "buy" THEN stop >= p.sl ELSE stop <= p.sl
    BY <2>1, <2>4, BetterPicks
  <2>6. Trailed(p) = [p EXCEPT !.extreme = best, !.sl = stop]
    BY <1>2 DEF Trailed
  <2> HIDE DEF best, stop
  <2>7. QED BY <2>3, <2>5, <2>6, Constants DEF Position, Maybe
<1>3. QED BY <1>1, <1>2

-----------------------------------------------------------------------------
(* The invariant holds initially and every step preserves it.              *)

LEMMA InitIInv == Init => IInv
<1> SUFFICES ASSUME Init PROVE IInv OBVIOUS
<1>1. TypeOK BY Constants DEF Init, TypeOK, SweepState, Days, Event, Trade
<1>2. Book
  BY DEF Init, Book, OrdersSound, PositionBacked, ProtectionsOrdered, Open
<1>3. SweepSound BY DEF Init, SweepSound
<1>4. QED BY <1>1, <1>2, <1>3 DEF IInv

(* The steps that leave the order book and the positions alone. *)
LEMMA BookUnchanged ==
    ASSUME Book, UNCHANGED <<orders, positions>>
    PROVE  Book'
BY DEF Book, OrdersSound, PositionBacked, ProtectionsOrdered, Open

LEMMA IdleSound == ASSUME sweep'.at \in {"idle", "done"} PROVE SweepSound'
BY DEF SweepSound

(* SlTpValid at any price puts the protections in order. *)
LEMMA SlTpValidOrdered ==
    ASSUME NEW side, NEW price \in Int, NEW sl \in Int \cup {None},
           NEW tp \in Int \cup {None}, SlTpValid(side, price, sl, tp)
    PROVE  sl # None /\ tp # None => IF side = "buy" THEN sl < tp ELSE sl > tp
BY DEF SlTpValid

(* A sweep's iteration over id o keeps the ids still to visit as they were. *)
LEMMA VisitedSound ==
    ASSUME TypeOK, SweepSound, NEW o \in OrderIds, OnlyId(o), Visited(o)
    PROVE  SweepSound' /\ sweep' \in SweepState
<1>1. /\ sweep'.at = sweep.at /\ sweep'.todo = sweep.todo \ {o}
      /\ sweep'.symbol = sweep.symbol /\ sweep.todo \subseteq OrderIds
  BY DEF Visited, TypeOK, SweepState
<1>2. sweep' \in SweepState BY DEF Visited, TypeOK, SweepState
<1>3. SweepSound' BY <1>1 DEF SweepSound, OnlyId, Pending, Open
<1>4. QED BY <1>2, <1>3

LEMMA ReportType ==
    ASSUME TypeOK, NEW kind \in {"order.filled", "order.expired", "position.closed"},
           NEW o \in OrderIds,
           NEW state \in OrderStates \cup {"rejected", "closed"},
           Report(kind, o, state)
    PROVE  events' \in Seq(Event)
BY DEF Report, TypeOK, Event

(* modify_position replaces protections and keeps everything else. *)
LEMMA ModifyType ==
    ASSUME TypeOK, NEW o \in OrderIds, NEW c \in Changes, ModifyPosition(o, c)
    PROVE  /\ positions[o] \in Position /\ positions'[o] \in Position
           /\ positions' = [positions EXCEPT ![o] = positions'[o]]
           /\ \A f \in {"symbol", "side", "open", "volume"} :
                 positions'[o][f] = positions[o][f]
           /\ LET sl == positions'[o].sl
                  tp == positions'[o].tp
              IN  sl # None /\ tp # None =>
                     IF positions[o].side = "buy" THEN sl < tp ELSE sl > tp
<1> DEFINE p     == positions[o]
           exit  == ExitPrice(p.side, p.symbol)
           sl    == Given(c.sl, p.sl)
           tp    == Given(c.tp, p.tp)
           trail == Given(c.trail, p.trail)
           ext   == IF c.trail # Unset /\ trail # None THEN exit ELSE p.extreme
           new   == [p EXCEPT !.sl = sl, !.tp = tp, !.trail = trail,
                              !.extreme = ext]
<1>1. p \in Position /\ c \in Change
  BY Constants DEF ModifyPosition, Open, TypeOK
<1>2. exit \in Int BY <1>1, PricesInt DEF Position
<1>3. sl \in Maybe(Int) /\ tp \in Maybe(Int) /\ trail \in Maybe(Int)
  BY <1>1 DEF Position, Change, Given, Maybe
<1>4. ext \in Maybe(Int) BY <1>1, <1>2 DEF Position, Maybe
<1>5. new \in Position BY <1>1, <1>3, <1>4 DEF Position
<1>6. positions' = [positions EXCEPT ![o] = new] /\ SlTpValid(p.side, exit, sl, tp)
  BY DEF ModifyPosition
<1>7. positions'[o] = new BY <1>6 DEF TypeOK
<1>8. /\ new.sl = sl /\ new.tp = tp
      /\ \A f \in {"symbol", "side", "open", "volume"} : new[f] = p[f]
  BY <1>1 DEF Position
<1>9. sl # None /\ tp # None => IF p.side = "buy" THEN sl < tp ELSE sl > tp
  BY <1>2, <1>3, <1>6, SlTpValidOrdered DEF Maybe
<1> HIDE DEF new, sl, tp, exit
<1>10. QED BY <1>1, <1>5, <1>6, <1>7, <1>8, <1>9

(* The requests. *)
LEMMA RequestedKeeps == ASSUME IInv, Requested PROVE IInv'
<1> USE DEF IInv
<1>1. ASSUME NEW r \in Requests, PlaceMarket(r) PROVE IInv'
  <2> DEFINE price == EntryPrice(r.side, r.symbol)
  <2>1. r \in Request BY Constants
  <2>2. price \in Int BY <2>1, PricesInt DEF Request
  <2>3. OrderOf(r, price) \in Order BY <2>2, OrderOfType
  <2>4. SlTpValid(r.side, price, r.sl, r.tp) BY <1>1 DEF PlaceMarket
  <2>5. OrderSound(OrderOf(r, price))
    BY <1>1, <2>1, <2>2, <2>4, SlTpValidOrdered
    DEF OrderSound, OrderOf, Request, Maybe, PlaceMarket
  <2>6. PICK o \in OrderIds : Fill(o, OrderOf(r, price), price)
    BY <1>1 DEF PlaceMarket
  <2>7. BookTypes' /\ Book' BY <2>2, <2>3, <2>5, <2>6, FillKeeps
  <2>8. UNCHANGED <<bid, now, paidIn, sweep, events>> /\ Idle
    BY <1>1 DEF PlaceMarket
  <2>9. SweepSound' BY <2>8, IdleSound DEF Idle
  <2>10. QED BY <2>7, <2>8, <2>9 DEF TypeOK, BookTypes
<1>2. ASSUME NEW r \in Requests, PlaceResting(r) PROVE IInv'
  <2>1. r \in Request BY Constants
  <2>2. r.price \in Int BY <1>2, <2>1 DEF Request, Maybe, PlaceResting
  <2>3. /\ OrderOf(r, r.price) \in Order
        /\ OrderOf(r, r.price).state = "pending" BY <2>2, OrderOfType
  <2>4. SlTpValid(r.side, r.price, r.sl, r.tp) BY <1>2 DEF PlaceResting
  <2>5. OrderSound(OrderOf(r, r.price))
    BY <1>2, <2>1, <2>2, <2>4, SlTpValidOrdered
    DEF OrderSound, OrderOf, Request, Maybe, PlaceResting
  <2>6. PICK o \in OrderIds : NextId(o) /\ MaybeFill(o, OrderOf(r, r.price))
    BY <1>2 DEF PlaceResting
  <2>7. ~ Open(o) BY <2>6 DEF NextId, Book, PositionBacked
  <2>8. BookTypes' /\ Book' BY <2>3, <2>5, <2>6, <2>7, MaybeFillKeeps
  <2>9. UNCHANGED <<bid, now, paidIn, sweep, events>> /\ Idle
    BY <1>2 DEF PlaceResting
  <2>10. SweepSound' BY <2>9, IdleSound DEF Idle
  <2>11. QED BY <2>8, <2>9, <2>10 DEF TypeOK, BookTypes
<1>3. ASSUME NEW o \in OrderIds, CancelOrder(o) PROVE IInv'
  <2>1. orders[o] \in Order /\ ~ Open(o)
    BY <1>3 DEF CancelOrder, Pending, Book, PositionBacked, TypeOK
  <2>2. orders' = [orders EXCEPT ![o] = [orders[o] EXCEPT !.state = "cancelled"]]
    BY <1>3 DEF CancelOrder
  <2>3. [orders[o] EXCEPT !.state = "cancelled"] \in Order
    BY <2>1 DEF Order, OrderStates
  <2>4. TypeOK' BY <1>3, <2>2, <2>3 DEF CancelOrder, TypeOK, account
  <2>5. OrdersSound'
    <3> DEFINE gone == [orders[o] EXCEPT !.state = "cancelled"]
    <3>1. /\ orders'[o] = gone
          /\ \A q \in OrderIds \ {o} : orders'[q] = orders[q]
      BY <2>2 DEF TypeOK
    <3>2. \A f \in {"type", "limit", "sl", "tp", "side"} : gone[f] = orders[o][f]
      BY <2>1 DEF Order
    <3>3. OrderSound(orders[o]) BY <2>1, Constants DEF Book, OrdersSound
    <3> HIDE DEF gone
    <3>4. OrderSound(gone) BY <3>2, <3>3 DEF OrderSound
    <3>5. QED BY <3>1, <3>4 DEF Book, OrdersSound
  <2>6. PositionBacked' /\ ProtectionsOrdered'
    BY <1>3, <2>1, <2>2
    DEF CancelOrder, Book, PositionBacked, ProtectionsOrdered, Open, TypeOK
  <2>7. SweepSound' BY <1>3, IdleSound DEF CancelOrder, Idle
  <2>8. QED BY <2>4, <2>5, <2>6, <2>7 DEF Book
<1>4. ASSUME NEW o \in OrderIds, NEW volume \in 1..MaxVolume,
             ClosePosition(o, volume)
      PROVE  IInv'
  <2> DEFINE price == ExitPrice(positions[o].side, positions[o].symbol)
  <2>1. Open(o) /\ Settle(o, price, volume) BY <1>4 DEF ClosePosition
  <2>2. price \in Int BY <2>1, PricesInt DEF TypeOK, Open, Position
  <2>3. BookTypes' /\ Book' BY <2>1, <2>2, SettleKeeps
  <2>4. UNCHANGED <<bid, now, paidIn, sweep, events>> /\ Idle
    BY <1>4 DEF ClosePosition
  <2>5. SweepSound' BY <2>4, IdleSound DEF Idle
  <2>6. QED BY <2>3, <2>4, <2>5 DEF TypeOK, BookTypes
<1>5. ASSUME NEW o \in OrderIds, NEW c \in Changes, ModifyPosition(o, c)
      PROVE  IInv'
  <2>1. /\ Idle
        /\ UNCHANGED <<orders, account, bid, now, paidIn, sweep, events>>
    BY <1>5 DEF ModifyPosition
  <2>2. positions[o] \in Position /\ positions'[o] \in Position
    BY <1>5, ModifyType
  <2>3. \A q \in OrderIds :
           positions'[q] = IF q = o THEN positions'[o] ELSE positions[q]
    BY <1>5, ModifyType DEF TypeOK
  <2>4. TypeOK' BY <1>5, <2>1, ModifyType DEF TypeOK, account
  <2>5. OrdersSound' BY <2>1 DEF OrdersSound, Book
  <2>6. PositionBacked'
    BY <1>5, <2>1, <2>2, <2>3, ModifyType, Constants
    DEF PositionBacked, Book, Open
  <2>7. ProtectionsOrdered'
    BY <1>5, <2>3, ModifyType DEF ProtectionsOrdered, Book, Open
  <2>8. SweepSound' BY <2>1, IdleSound DEF Idle
  <2>9. QED BY <2>4, <2>5, <2>6, <2>7, <2>8 DEF Book
<1>6. ASSUME NEW amount \in Cash, Deposit(amount) \/ Withdraw(amount)
      PROVE  IInv'
  <2>1. TypeOK' BY <1>6, Constants DEF Deposit, Withdraw, TypeOK
  <2>2. Book' BY <1>6, BookUnchanged DEF Deposit, Withdraw
  <2>3. SweepSound' BY <1>6, IdleSound DEF Deposit, Withdraw, Idle
  <2>4. QED BY <2>1, <2>2, <2>3
<1>7. QED BY <1>1, <1>2, <1>3, <1>4, <1>5, <1>6 DEF Requested

(* The provider and the clock. *)
LEMMA EnvironmentKeeps == ASSUME IInv, Environment PROVE IInv'
<1> USE DEF IInv
<1>1. ASSUME NEW s \in Symbols, NEW price \in Prices, MarketMoves(s, price)
      PROVE  IInv'
  <2>1. TypeOK' BY <1>1 DEF MarketMoves, TypeOK, account
  <2>2. Book' BY <1>1, BookUnchanged DEF MarketMoves
  <2>3. SweepSound' BY <1>1, IdleSound DEF MarketMoves, Idle
  <2>4. QED BY <2>1, <2>2, <2>3
<1>2. ASSUME NewDay PROVE IInv'
  <2>1. TypeOK' BY <1>2, Constants DEF NewDay, TypeOK, account, Days
  <2>2. Book' BY <1>2, BookUnchanged DEF NewDay
  <2>3. SweepSound' BY <1>2, IdleSound DEF NewDay, Idle
  <2>4. QED BY <2>1, <2>2, <2>3
<1>3. QED BY <1>1, <1>2 DEF Environment

(* The iterations of on_quote. *)
LEMMA OnQuoteKeeps == ASSUME IInv, OnQuote PROVE IInv'
<1> USE DEF IInv
<1>1. ASSUME NEW s \in Symbols, BeginSweep(s) PROVE IInv'
  <2>1. TypeOK' BY <1>1 DEF BeginSweep, TypeOK, account, SweepState
  <2>2. Book' BY <1>1, BookUnchanged DEF BeginSweep
  <2>3. SweepSound' BY <1>1 DEF BeginSweep, SweepSound, Pending
  <2>4. QED BY <2>1, <2>2, <2>3
<1>2. ASSUME NEW o \in OrderIds, SweepExpires(o) PROVE IInv'
  <2> DEFINE gone == [orders[o] EXCEPT !.state = "expired"]
  <2>1. Pending(o) /\ ~ Open(o) /\ orders[o] \in Order
    BY <1>2 DEF SweepExpires, FirstTodo, SweepSound, Pending, Book,
                PositionBacked, TypeOK
  <2>2. /\ orders' = [orders EXCEPT ![o] = gone] /\ Visited(o)
        /\ Report("order.expired", o, "expired")
        /\ UNCHANGED <<positions, account, bid, now, paidIn>>
    BY <1>2 DEF SweepExpires
  <2>3. gone \in Order BY <2>1 DEF Order, OrderStates
  <2>4. /\ orders'[o] = gone
        /\ \A q \in OrderIds \ {o} : orders'[q] = orders[q]
    BY <2>2 DEF TypeOK
  <2>5. \A f \in {"type", "limit", "sl", "tp", "side"} : gone[f] = orders[o][f]
    BY <2>1 DEF Order
  <2>6. OrderSound(orders[o]) BY <2>1, Constants DEF Book, OrdersSound
  <2> HIDE DEF gone
  <2>7. OnlyId(o) BY <2>2, <2>4 DEF OnlyId
  <2>8. OrdersSound'
    <3>1. OrderSound(gone) BY <2>5, <2>6 DEF OrderSound
    <3>2. QED BY <3>1, <2>4 DEF Book, OrdersSound
  <2>9. PositionBacked' /\ ProtectionsOrdered'
    BY <2>1, <2>2, <2>4 DEF Book, PositionBacked, ProtectionsOrdered, Open
  <2>10. SweepSound' /\ sweep' \in SweepState BY <2>2, <2>7, VisitedSound
  <2>11. events' \in Seq(Event) BY <2>2, ReportType DEF OrderStates
  <2>12. TypeOK' BY <2>2, <2>3, <2>10, <2>11 DEF TypeOK, account
  <2>13. QED BY <2>8, <2>9, <2>10, <2>12 DEF Book
<1>3. ASSUME NEW o \in OrderIds, SweepTries(o) PROVE IInv'
  <2>1. Pending(o) /\ ~ Open(o) /\ orders[o] \in Order
    BY <1>3 DEF SweepTries, FirstTodo, SweepSound, Pending, Book,
                PositionBacked, TypeOK
  <2>2. OrderSound(orders[o]) BY <2>1 DEF Pending, Book, OrdersSound
  <2>3. MaybeFill(o, orders[o]) /\ Visited(o) /\ UNCHANGED <<bid, now, paidIn>>
    BY <1>3 DEF SweepTries
  <2>4. BookTypes' /\ Book' /\ OnlyId(o)
    BY <2>1, <2>2, <2>3, MaybeFillKeeps DEF Pending
  <2>5. SweepSound' /\ sweep' \in SweepState BY <2>3, <2>4, VisitedSound
  <2>6. \/ Report("order.filled", o, "filled")
        \/ Report("order.filled", o, "rejected")
        \/ UNCHANGED events
    BY <1>3 DEF SweepTries
  <2>7. events' \in Seq(Event) BY <2>6, ReportType DEF OrderStates, TypeOK
  <2>8. QED BY <2>3, <2>4, <2>5, <2>7 DEF TypeOK, BookTypes
<1>4. ASSUME TurnToPositions PROVE IInv'
  <2>1. TypeOK' BY <1>4 DEF TurnToPositions, TypeOK, account, SweepState
  <2>2. Book' BY <1>4, BookUnchanged DEF TurnToPositions
  <2>3. SweepSound' BY <1>4 DEF TurnToPositions, SweepSound, Open, TypeOK, SweepState
  <2>4. QED BY <2>1, <2>2, <2>3
<1>5. ASSUME NEW o \in OrderIds, SweepKeeps(o) PROVE IInv'
  <2> DEFINE p == Trailed(positions[o])
  <2>1. Open(o) /\ positions[o] \in Position
    BY <1>5 DEF SweepKeeps, SweepSound, Open, TypeOK
  <2>2. /\ p \in Position
        /\ \A f \in {"symbol", "side", "volume", "open", "tp"} :
              p[f] = positions[o][f]
    BY <2>1, TrailedType
  <2>3. /\ positions' = [positions EXCEPT ![o] = p] /\ Visited(o)
        /\ ~ SlHit(p) /\ ~ TpHit(p)
        /\ UNCHANGED <<orders, account, bid, now, paidIn, events>>
    BY <1>5 DEF SweepKeeps
  <2>4. p.sl # None /\ p.tp # None =>
          IF p.side = "buy" THEN p.sl < p.tp ELSE p.sl > p.tp
    <3>1. /\ p.symbol \in Symbols /\ p.sl \in Int \cup {None}
          /\ p.tp \in Int \cup {None}
      BY <2>2 DEF Position, Maybe
    <3>2. bid[p.symbol] \in Int /\ ask(p.symbol) \in Int BY <3>1, PricesInt
    <3>3. QED BY <2>3, <3>1, <3>2 DEF SlHit, TpHit
  <2> HIDE DEF p
  <2>5. \A q \in OrderIds : positions'[q] = IF q = o THEN p ELSE positions[q]
    BY <2>3 DEF TypeOK
  <2>6. OnlyId(o) BY <2>3, <2>5 DEF OnlyId
  <2>7. OrdersSound' BY <2>3 DEF OrdersSound, Book
  <2>8. PositionBacked' BY <2>1, <2>2, <2>3, <2>5 DEF PositionBacked, Book, Open
  <2>9. ProtectionsOrdered' BY <2>4, <2>5 DEF ProtectionsOrdered, Book, Open
  <2>10. SweepSound' /\ sweep' \in SweepState BY <2>3, <2>6, VisitedSound
  <2>11. TypeOK' BY <2>2, <2>3, <2>10 DEF TypeOK, account
  <2>12. QED BY <2>7, <2>8, <2>9, <2>10, <2>11 DEF Book
<1>6. ASSUME NEW o \in OrderIds, SweepCloses(o) PROVE IInv'
  <2> DEFINE p == Trailed(positions[o])
             price == IF SlHit(p) THEN p.sl ELSE p.tp
  <2>1. Open(o) /\ positions[o] \in Position
    BY <1>6 DEF SweepCloses, SweepSound, Open, TypeOK
  <2>2. p \in Position BY <2>1, TrailedType
  <2>3. /\ Settle(o, price, p.volume) /\ (SlHit(p) \/ TpHit(p)) /\ Visited(o)
        /\ Report("position.closed", o, "closed")
        /\ UNCHANGED <<bid, now, paidIn>>
    BY <1>6 DEF SweepCloses
  <2>4. price \in Int
    <3>1. p.sl \in Int \cup {None} /\ p.tp \in Int \cup {None}
      BY <2>2 DEF Position, Maybe
    <3>2. CASE SlHit(p) BY <3>1, <3>2 DEF SlHit
    <3>3. CASE ~ SlHit(p) /\ TpHit(p) BY <3>1, <3>3 DEF TpHit
    <3>4. QED BY <2>3, <3>2, <3>3
  <2>5. BookTypes' /\ Book' /\ OnlyId(o) BY <2>1, <2>3, <2>4, SettleKeeps
  <2>6. SweepSound' /\ sweep' \in SweepState
    BY <1>6, <2>5, VisitedSound DEF SweepCloses
  <2>7. events' \in Seq(Event) BY <1>6, ReportType DEF SweepCloses
  <2>8. QED BY <1>6, <2>5, <2>6, <2>7 DEF SweepCloses, TypeOK, BookTypes
<1>7. ASSUME EndSweep PROVE IInv'
  <2>1. TypeOK' BY <1>7 DEF EndSweep, TypeOK, account, SweepState
  <2>2. Book' BY <1>7, BookUnchanged DEF EndSweep
  <2>3. SweepSound' BY <1>7 DEF EndSweep, SweepSound, TypeOK, SweepState
  <2>4. QED BY <2>1, <2>2, <2>3
<1>8. ASSUME Return PROVE IInv'
  <2>1. TypeOK'
    <3>1. sweep' \in SweepState BY <1>8 DEF Return, TypeOK, SweepState
    <3>2. events' \in Seq(Event) BY <1>8 DEF Return
    <3>3. QED BY <1>8, <3>1, <3>2 DEF Return, TypeOK, account
  <2>2. Book' BY <1>8, BookUnchanged DEF Return
  <2>3. SweepSound' BY <1>8 DEF Return, SweepSound, TypeOK, SweepState
  <2>4. QED BY <2>1, <2>2, <2>3
<1>9. QED BY <1>1, <1>2, <1>3, <1>4, <1>5, <1>6, <1>7, <1>8 DEF OnQuote

LEMMA NextIInv == IInv /\ [Next]_vars => IInv'
<1>1. ASSUME IInv, UNCHANGED vars PROVE IInv'
  BY <1>1 DEF vars, account, IInv, TypeOK, Book, OrdersSound, PositionBacked,
              ProtectionsOrdered, SweepSound, Open, Pending
<1>2. QED
  BY <1>1, RequestedKeeps, EnvironmentKeeps, OnQuoteKeeps DEF Next

LEMMA InvariantHolds == Spec => []IInv
BY InitIInv, NextIInv, PTL DEF Spec

-----------------------------------------------------------------------------
(* The theorems.                                                           *)

(* Every variable keeps its type: no order, position, trade or event of an *)
(* impossible shape arises in any sequence of calls and quotes; a position *)
(* with no lots, for one, does not stay in the book.                       *)
THEOREM TypeCorrect == Spec => []TypeOK
BY InvariantHolds, PTL DEF IInv

(* Every open position is the exposure of a filled order: same symbol,     *)
(* side and price, and no more lots than the order had.                    *)
THEOREM PositionsAreBacked == Spec => []PositionBacked
BY InvariantHolds, PTL DEF IInv, Book

(* The stop and the target of a position never cross, whatever mixture of  *)
(* order protections, modify_position and trailing set them.               *)
THEOREM ProtectionsStayOrdered == Spec => []ProtectionsOrdered
BY InvariantHolds, PTL DEF IInv, Book

(* on_quote never loosens or drops a stop: whatever the price does, only a *)
(* client's modify_position can give protection up.                        *)
THEOREM StopsOnlyTighten == Spec => StopNeverLoosened
<1>1. ASSUME IInv, [Next]_vars PROVE [TightenedOnly]_vars
  <2> SUFFICES ASSUME Next, NEW o \in OrderIds, ~ Idle, Open(o), Open(o)',
                      positions[o].sl # None
               PROVE  /\ positions'[o].sl # None
                      /\ IF positions[o].side = "buy"
                         THEN positions'[o].sl >= positions[o].sl
                         ELSE positions'[o].sl <= positions[o].sl
    BY <1>1 DEF TightenedOnly
  <2>1. positions[o] \in Position /\ positions[o].sl \in Int
    BY <1>1 DEF IInv, TypeOK, Open, Position, Maybe
  <2>2. CASE positions'[o] = positions[o] BY <2>1, <2>2
  <2>3. OnQuote
    BY DEF Next, Requested, Environment, PlaceMarket, PlaceResting, CancelOrder,
           ClosePosition, ModifyPosition, Deposit, Withdraw, MarketMoves, NewDay
  <2>4. ASSUME NEW q \in OrderIds, SweepKeeps(q), q = o
        PROVE  positions'[o] = Trailed(positions[o])
    BY <1>1, <2>4 DEF SweepKeeps, IInv, TypeOK
  <2>5. ASSUME NEW q \in OrderIds, SweepKeeps(q), q # o
        PROVE  positions'[o] = positions[o]
    BY <1>1, <2>5 DEF SweepKeeps, IInv, TypeOK
  <2>6. ASSUME NEW q \in OrderIds, SweepCloses(q)
        PROVE  positions'[o] = positions[o]
    <3> DEFINE p == Trailed(positions[q])
    <3>1. Open(q) /\ positions[q] \in Position
      BY <1>1, <2>6 DEF SweepCloses, IInv, SweepSound, Open, TypeOK
    <3>2. p.volume = positions[q].volume BY <1>1, <3>1, TrailedType DEF IInv
    <3>3. positions' = [positions EXCEPT ![q] = Remaining(positions[q], p.volume)]
      BY <2>6 DEF SweepCloses, Settle
    <3>4. positions[q].volume \in Int
      BY <3>1, MaxVolumeRange DEF Position
    <3>5. Remaining(positions[q], p.volume) = None
      BY <3>2, <3>4 DEF Remaining
    <3>6. QED BY <1>1, <3>3, <3>5 DEF IInv, TypeOK, Open
  <2>7. ASSUME NEW q \in OrderIds, SweepTries(q)
        PROVE  positions'[o] = positions[o]
    <3>1. Pending(q) BY <1>1, <2>7 DEF SweepTries, FirstTodo, IInv, SweepSound
    <3>2. q # o BY <1>1, <3>1 DEF IInv, Book, PositionBacked, Pending
    <3>3. QED BY <1>1, <2>7, <3>2 DEF SweepTries, MaybeFill, Fill, IInv, TypeOK
  <2>8. CASE \/ \E s \in Symbols : BeginSweep(s)
             \/ \E q \in OrderIds : SweepExpires(q)
             \/ TurnToPositions \/ EndSweep \/ Return
    BY <2>2, <2>8 DEF BeginSweep, SweepExpires, TurnToPositions, EndSweep, Return
  <2>9. QED
    BY <1>1, <2>1, <2>2, <2>3, <2>4, <2>5, <2>6, <2>7, <2>8, TrailedType
    DEF OnQuote, IInv
<1>2. QED BY <1>1, InvariantHolds, PTL DEF Spec, StopNeverLoosened

(* No resting order fills at a quote that comes after its expiry.          *)
THEOREM ExpiryIsRespected == Spec => NoFillAfterExpiry
<1>1. ASSUME IInv, [Next]_vars PROVE [FillsInTime]_vars
  <2> SUFFICES ASSUME Next, NEW o \in OrderIds, Pending(o),
                      orders'[o].state = "filled", PastExpiry(orders[o])
               PROVE  FALSE
    BY <1>1 DEF FillsInTime
  <2>1. orders'[o] # orders[o] BY DEF Pending
  <2>2. ASSUME NEW r \in Requests, PlaceMarket(r) PROVE FALSE
    BY <1>1, <2>1, <2>2 DEF PlaceMarket, NextId, Fill, Pending, IInv, TypeOK
  <2>3. ASSUME NEW r \in Requests, PlaceResting(r) PROVE FALSE
    BY <1>1, <2>1, <2>3
    DEF PlaceResting, NextId, MaybeFill, Fill, Pending, IInv, TypeOK
  <2>4. ASSUME NEW q \in OrderIds, CancelOrder(q) \/ SweepExpires(q)
        PROVE  FALSE
    <3>1. PICK state \in {"cancelled", "expired"} :
             orders' = [orders EXCEPT ![q] = [orders[q] EXCEPT !.state = state]]
      BY <2>4 DEF CancelOrder, SweepExpires
    <3>2. q = o BY <1>1, <2>1, <3>1 DEF IInv, TypeOK
    <3>3. orders[o] \in Order BY <1>1 DEF Pending, IInv, TypeOK
    <3>4. orders'[o].state = state BY <1>1, <3>1, <3>2, <3>3 DEF IInv, TypeOK, Order
    <3>5. QED BY <3>4
  <2>5. ASSUME NEW q \in OrderIds, SweepTries(q) PROVE FALSE
    <3>1. q = o
      BY <1>1, <2>1, <2>5 DEF SweepTries, MaybeFill, Fill, IInv, TypeOK
    <3>2. ~ Expired(orders[o]) BY <2>5, <3>1 DEF SweepTries
    <3>3. QED BY <3>2 DEF Expired, PastExpiry
  <2>6. CASE Environment
    BY <2>1, <2>6 DEF Environment, MarketMoves, NewDay
  <2>7. CASE Requested
    <3>1. ASSUME NEW q \in OrderIds, NEW volume, ClosePosition(q, volume)
          PROVE  FALSE
      BY <2>1, <3>1 DEF ClosePosition, Settle
    <3>2. ASSUME NEW q \in OrderIds, NEW c, ModifyPosition(q, c) PROVE FALSE
      BY <2>1, <3>2 DEF ModifyPosition
    <3>3. ASSUME NEW amount, Deposit(amount) \/ Withdraw(amount) PROVE FALSE
      BY <2>1, <3>3 DEF Deposit, Withdraw
    <3>4. QED BY <2>2, <2>3, <2>4, <2>7, <3>1, <3>2, <3>3 DEF Requested
  <2>8. CASE OnQuote
    <3>1. ASSUME NEW q \in OrderIds, SweepKeeps(q) \/ SweepCloses(q) PROVE FALSE
      BY <2>1, <3>1 DEF SweepKeeps, SweepCloses, Settle
    <3>2. CASE (\E s \in Symbols : BeginSweep(s)) \/ TurnToPositions
               \/ EndSweep \/ Return
      BY <2>1, <3>2 DEF BeginSweep, TurnToPositions, EndSweep, Return
    <3>3. QED BY <2>4, <2>5, <2>8, <3>1, <3>2 DEF OnQuote
  <2>9. QED BY <2>6, <2>7, <2>8 DEF Next
<1>2. QED BY <1>1, InvariantHolds, PTL DEF Spec, NoFillAfterExpiry

-----------------------------------------------------------------------------
(* PaperBroker implements OrderLifecycle.                                  *)

LEMMA OnlyIdMaps ==
    ASSUME NEW o \in OrderIds, OnlyId(o)
    PROVE  /\ OrderStatus' = [OrderStatus EXCEPT ![o] = OrderStatus'[o]]
           /\ OpenLots' = [OpenLots EXCEPT ![o] = OpenLots'[o]]
BY DEF OnlyId, OrderStatus, OpenLots, Open

LEMMA FillMaps ==
    ASSUME TypeOK, NEW o \in OrderIds, NEW order \in Order, NEW price \in Int,
           orders[o] = None \/ Pending(o), OnlyId(o), Fill(o, order, price)
    PROVE  Lifecycle!Fill(o)
<1> DEFINE filled == [order EXCEPT !.state = "filled", !.price = price,
                                   !.triggered = FALSE]
<1>0. /\ filled \in Order /\ filled.state = "filled"
      /\ orders'[o] = filled
  BY DEF Fill, TypeOK, Order, OrderStates
<1>1. /\ orders'[o] # None /\ orders'[o].state = "filled"
      /\ Open(o)' /\ positions'[o].volume = order.volume
  <2>1. positions'[o].volume = order.volume BY DEF Fill, TypeOK
  <2>2. positions'[o] \in Position
    BY CommissionInt DEF Fill, TypeOK, Order, Position, Maybe
  <2>3. QED BY <1>0, <2>1, <2>2, Constants DEF Open
<1>2. OrderStatus[o] \in {"unborn", "pending", "armed"}
  BY DEF OrderStatus, Pending
<1>3. OrderStatus'[o] = "filled" BY <1>1 DEF OrderStatus
<1>4. OpenLots'[o] = order.volume /\ order.volume \in 1..MaxVolume
  BY <1>1 DEF OpenLots, Open, Order
<1>5. QED
  BY <1>2, <1>3, <1>4, OnlyIdMaps DEF Lifecycle!Fill, Lifecycle!Working

(* A new resting order: placed, or filled at once. *)
LEMMA PlaceMaps ==
    ASSUME TypeOK, NEW o \in OrderIds, NEW order \in Order, orders[o] = None,
           ~ Open(o), OrderSound(order), order.state = "pending", OnlyId(o),
           MaybeFill(o, order)
    PROVE  Lifecycle!Place(o) \/ Lifecycle!Fill(o)
<1> DEFINE latched == Latched(order)
<1>1. latched \in Order /\ latched.state = "pending" /\ OrderSound(latched)
  BY LatchedType DEF OrderSound
<1>2. CASE Fill(o, latched, FillLevel(latched))
  BY <1>1, <1>2, FillLevelType, FillMaps DEF OrderSound
<1>3. CASE orders' = [orders EXCEPT ![o] = latched] /\ UNCHANGED positions
  <2>1. orders'[o] = latched BY <1>3 DEF TypeOK
  <2>2. OrderStatus[o] = "unborn" BY DEF OrderStatus
  <2>3. OrderStatus'[o] \in {"pending", "armed"}
    BY <1>1, <2>1, Constants DEF OrderStatus
  <2>4. OpenLots' = OpenLots BY <1>3 DEF OpenLots, Open
  <2>5. QED
    BY <2>2, <2>3, <2>4, OnlyIdMaps DEF Lifecycle!Place, Lifecycle!Working
<1>4. QED BY <1>2, <1>3 DEF MaybeFill

(* An order tried again: filled, armed, or left as it was. *)
LEMMA TryMaps ==
    ASSUME TypeOK, NEW o \in OrderIds, Pending(o), orders[o] \in Order,
           OrderSound(orders[o]), OnlyId(o), MaybeFill(o, orders[o])
    PROVE  \/ Lifecycle!Fill(o) \/ Lifecycle!Arm(o)
           \/ UNCHANGED <<OrderStatus, OpenLots>>
<1> DEFINE latched == Latched(orders[o])
<1>1. latched \in Order /\ latched.state = "pending" /\ OrderSound(latched)
  BY LatchedType DEF OrderSound, Pending
<1>2. CASE Fill(o, latched, FillLevel(latched))
  BY <1>1, <1>2, FillLevelType, FillMaps DEF OrderSound
<1>3. CASE orders' = [orders EXCEPT ![o] = latched] /\ UNCHANGED positions
  <2>1. orders'[o] = latched BY <1>3 DEF TypeOK
  <2>2. orders[o].triggered => latched.triggered BY DEF Latched, Order
  <2>3. OpenLots' = OpenLots BY <1>3 DEF OpenLots, Open
  <2>4. OrderStatus[o] = IF orders[o].triggered THEN "armed" ELSE "pending"
    BY DEF OrderStatus, Pending
  <2>5. OrderStatus'[o] = IF latched.triggered THEN "armed" ELSE "pending"
    BY <1>1, <2>1, Constants DEF OrderStatus
  <2>6. CASE latched.triggered /\ ~ orders[o].triggered
    BY <2>3, <2>4, <2>5, <2>6, OnlyIdMaps DEF Lifecycle!Arm
  <2>7. CASE ~ (latched.triggered /\ ~ orders[o].triggered)
    <3>1. OrderStatus'[o] = OrderStatus[o]
      BY <1>1, <2>2, <2>4, <2>5, <2>7 DEF Order
    <3>2. OrderStatus' = OrderStatus BY <3>1, OnlyIdMaps DEF OrderStatus
    <3>3. QED BY <2>3, <3>2
  <2>8. QED BY <2>6, <2>7
<1>4. QED BY <1>2, <1>3 DEF MaybeFill

(* A close takes lots away from a filled order. *)
LEMMA SettleMaps ==
    ASSUME TypeOK, Book, NEW o \in OrderIds, Open(o), NEW price, NEW volume,
           OnlyId(o), Settle(o, price, volume)
    PROVE  Lifecycle!Reduce(o)
<1> DEFINE p == positions[o]
<1>1. p \in Position /\ volume \in 1..p.volume BY DEF Open, TypeOK, Settle
<1>2. p.volume \in Int /\ volume \in Int /\ volume >= 1 /\ volume <= p.volume
  BY <1>1, MaxVolumeRange DEF Position
<1>3. OrderStatus[o] = "filled" /\ OpenLots[o] = p.volume
  BY DEF Book, PositionBacked, OrderStatus, OpenLots, Open
<1>4. OrderStatus' = OrderStatus BY DEF Settle, OrderStatus
<1>5. positions'[o] = Remaining(p, volume) BY DEF Settle, TypeOK
<1>6. OpenLots'[o] \in 0..(p.volume - 1)
  <2>1. CASE p.volume > volume
    <3>1. positions'[o] = [p EXCEPT !.volume = p.volume - volume]
      BY <1>5, <2>1 DEF Remaining
    <3>2. positions'[o] \in Position /\ positions'[o].volume = p.volume - volume
      BY <1>1, <1>2, <2>1, <3>1, Constants DEF Position
    <3>3. OpenLots'[o] = p.volume - volume BY <3>2, Constants DEF OpenLots, Open
    <3>4. QED BY <1>2, <2>1, <3>3
  <2>2. CASE ~ p.volume > volume
    BY <1>2, <1>5, <2>2 DEF Remaining, OpenLots, Open
  <2>3. QED BY <2>1, <2>2
<1>7. QED BY <1>3, <1>4, <1>6, OnlyIdMaps DEF Lifecycle!Reduce

LEMMA InitMaps == Init => Lifecycle!Init
BY DEF Init, Lifecycle!Init, OrderStatus, OpenLots, Open

(* A cancellation or an expiry ends a pending order and touches no lots. *)
LEMMA EndMaps ==
    ASSUME TypeOK, NEW o \in OrderIds, Pending(o), orders[o] \in Order,
           NEW state \in {"cancelled", "expired"},
           orders' = [orders EXCEPT ![o] = [orders[o] EXCEPT !.state = state]],
           UNCHANGED positions
    PROVE  Lifecycle!Withdraw(o)
<1> DEFINE gone == [orders[o] EXCEPT !.state = state]
<1>1. gone \in Order /\ gone.state = state BY DEF Order, OrderStates
<1>2. orders'[o] = gone /\ OnlyId(o) BY DEF TypeOK, OnlyId
<1>3. OrderStatus'[o] = state BY <1>1, <1>2, Constants DEF OrderStatus
<1>4. OrderStatus[o] \in {"pending", "armed"} BY DEF OrderStatus, Pending
<1>5. OpenLots' = OpenLots BY DEF OpenLots, Open
<1>6. QED
  BY <1>2, <1>3, <1>4, <1>5, OnlyIdMaps DEF Lifecycle!Withdraw, Lifecycle!Working

LEMMA NextMaps ==
    ASSUME IInv, [Next]_vars
    PROVE  [Lifecycle!Next]_(Lifecycle!vars)
<1> USE DEF IInv
<1>0. SUFFICES ASSUME ~ UNCHANGED <<OrderStatus, OpenLots>>
               PROVE  Lifecycle!Next
  BY DEF Lifecycle!vars
<1>1. ~ UNCHANGED <<orders, positions>>
  BY <1>0 DEF OrderStatus, OpenLots, Open
<1>2. ASSUME NEW r \in Requests, PlaceMarket(r) PROVE Lifecycle!Next
  <2> DEFINE price == EntryPrice(r.side, r.symbol)
  <2>1. price \in Int BY Constants, PricesInt DEF Request
  <2>2. OrderOf(r, price) \in Order BY <2>1, OrderOfType
  <2>3. PICK o \in OrderIds : NextId(o) /\ Fill(o, OrderOf(r, price), price)
    BY <1>2 DEF PlaceMarket
  <2>4. OnlyId(o) BY <2>3 DEF Fill, OnlyId, TypeOK
  <2>5. Lifecycle!Fill(o) BY <2>1, <2>2, <2>3, <2>4, FillMaps DEF NextId
  <2>6. QED BY <2>5 DEF Lifecycle!Next
<1>3. ASSUME NEW r \in Requests, PlaceResting(r) PROVE Lifecycle!Next
  <2>1. r \in Request BY Constants
  <2>2. r.price \in Int BY <1>3, <2>1 DEF Request, Maybe, PlaceResting
  <2>3. /\ OrderOf(r, r.price) \in Order
        /\ OrderOf(r, r.price).state = "pending" BY <2>2, OrderOfType
  <2>4. OrderSound(OrderOf(r, r.price))
    BY <1>3, <2>1, <2>2, SlTpValidOrdered
    DEF OrderSound, OrderOf, Request, Maybe, PlaceResting
  <2>5. PICK o \in OrderIds : NextId(o) /\ MaybeFill(o, OrderOf(r, r.price))
    BY <1>3 DEF PlaceResting
  <2>6. orders[o] = None /\ ~ Open(o)
    BY <2>5 DEF NextId, Book, PositionBacked
  <2>7. OnlyId(o) BY <2>3, <2>4, <2>5, <2>6, MaybeFillKeeps
  <2>8. Lifecycle!Place(o) \/ Lifecycle!Fill(o)
    BY <2>3, <2>4, <2>5, <2>6, <2>7, PlaceMaps
  <2>9. QED BY <2>8 DEF Lifecycle!Next
<1>4. ASSUME NEW o \in OrderIds, CancelOrder(o) \/ SweepExpires(o)
      PROVE  Lifecycle!Next
  <2>1. Pending(o) /\ orders[o] \in Order
    BY <1>4 DEF CancelOrder, SweepExpires, FirstTodo, SweepSound, Pending, TypeOK
  <2>2. PICK state \in {"cancelled", "expired"} :
           orders' = [orders EXCEPT ![o] = [orders[o] EXCEPT !.state = state]]
    BY <1>4 DEF CancelOrder, SweepExpires
  <2>3. UNCHANGED positions BY <1>4 DEF CancelOrder, SweepExpires
  <2>4. Lifecycle!Withdraw(o) BY <2>1, <2>2, <2>3, EndMaps
  <2>5. QED BY <2>4 DEF Lifecycle!Next
<1>5. ASSUME NEW o \in OrderIds, NEW volume, ClosePosition(o, volume)
      PROVE  Lifecycle!Next
  <2> DEFINE price == ExitPrice(positions[o].side, positions[o].symbol)
  <2>1. Open(o) /\ Settle(o, price, volume) BY <1>5 DEF ClosePosition
  <2>2. OnlyId(o) BY <2>1 DEF Settle, OnlyId, TypeOK
  <2>3. QED BY <2>1, <2>2, SettleMaps DEF Lifecycle!Next
<1>6. ASSUME NEW o \in OrderIds, SweepCloses(o) PROVE Lifecycle!Next
  <2> DEFINE p == Trailed(positions[o])
             price == IF SlHit(p) THEN p.sl ELSE p.tp
  <2>1. Open(o) /\ Settle(o, price, p.volume)
    BY <1>6 DEF SweepCloses, SweepSound
  <2>2. OnlyId(o) BY <2>1 DEF Settle, OnlyId, TypeOK
  <2>3. QED BY <2>1, <2>2, SettleMaps DEF Lifecycle!Next
<1>7. ASSUME NEW o \in OrderIds, SweepTries(o) PROVE Lifecycle!Next
  <2>1. /\ Pending(o) /\ ~ Open(o) /\ orders[o] \in Order
        /\ OrderSound(orders[o])
    BY <1>7, Constants DEF SweepTries, FirstTodo, SweepSound, Pending, Book,
                OrdersSound, PositionBacked, TypeOK
  <2>2. MaybeFill(o, orders[o]) BY <1>7 DEF SweepTries
  <2>3. OnlyId(o) BY <2>1, <2>2, MaybeFillKeeps DEF Pending
  <2>4. Lifecycle!Fill(o) \/ Lifecycle!Arm(o)
    BY <1>0, <2>1, <2>2, <2>3, TryMaps
  <2>5. QED BY <2>4 DEF Lifecycle!Next
<1>8. ASSUME NEW o \in OrderIds,
             SweepKeeps(o) \/ \E c \in Changes : ModifyPosition(o, c)
      PROVE  FALSE
  <2>1. UNCHANGED orders BY <1>8 DEF SweepKeeps, ModifyPosition
  <2>2. Open(o) /\ positions[o] \in Position
    BY <1>8 DEF SweepKeeps, SweepSound, ModifyPosition, Open, TypeOK
  <2>3. /\ positions'[o] \in Position
        /\ positions' = [positions EXCEPT ![o] = positions'[o]]
        /\ positions'[o].volume = positions[o].volume
    <3>1. CASE SweepKeeps(o)
      <4>1. positions'[o] = Trailed(positions[o])
        BY <3>1 DEF SweepKeeps, TypeOK
      <4>2. positions' = [positions EXCEPT ![o] = positions'[o]]
        BY <3>1, <4>1 DEF SweepKeeps
      <4>3. QED BY <2>2, <4>1, <4>2, TrailedType
    <3>2. ASSUME NEW c \in Changes, ModifyPosition(o, c)
          PROVE  /\ positions'[o] \in Position
                 /\ positions' = [positions EXCEPT ![o] = positions'[o]]
                 /\ positions'[o].volume = positions[o].volume
      BY <3>2, ModifyType
    <3>3. QED BY <1>8, <3>1, <3>2
  <2>4. OpenLots' = OpenLots
    <3>1. OpenLots'[o] = OpenLots[o]
      BY <2>2, <2>3, Constants DEF OpenLots, Open
    <3>2. OnlyId(o) BY <2>1, <2>3 DEF OnlyId, TypeOK
    <3>3. QED BY <3>1, <3>2, OnlyIdMaps DEF OpenLots
  <2>5. OrderStatus' = OrderStatus BY <2>1 DEF OrderStatus
  <2>6. QED BY <1>0, <2>4, <2>5
<1>9. \A amount \in Cash : ~ Deposit(amount) /\ ~ Withdraw(amount)
  BY <1>1 DEF Deposit, Withdraw
<1>10. \A s \in Symbols : ~ BeginSweep(s) BY <1>1 DEF BeginSweep
<1>11. ~ Environment /\ ~ TurnToPositions /\ ~ EndSweep /\ ~ Return
  BY <1>1 DEF Environment, MarketMoves, NewDay, TurnToPositions, EndSweep, Return
<1>12. ~ UNCHANGED vars BY <1>1 DEF vars
<1>13. QED
  BY <1>2, <1>3, <1>4, <1>5, <1>6, <1>7, <1>8, <1>9, <1>10, <1>11, <1>12
  DEF Next, Requested, OnQuote

(* The paper broker implements the abstract life of an order: each order   *)
(* leaves the book once, nothing reopens it, a stop-limit once armed stays *)
(* armed, and exposure comes only from fills and only shrinks afterwards.  *)
THEOREM ImplementsLifecycle == Spec => LifecycleSpec
BY InitMaps, NextMaps, InvariantHolds, PTL DEF Spec, LifecycleSpec, Lifecycle!Spec

(* So it keeps the promise that OrderLifecycle makes of calls, whatever    *)
(* steps a call is made of: the promise holds of one step, and what holds  *)
(* of two parts of a call holds of the whole.                              *)
Entries == [status : Lifecycle!Status, lots : 0..MaxVolume]

LEMMA CallsCompose ==
    ASSUME NEW a \in Entries, NEW b \in Entries, NEW c \in Entries,
           Lifecycle!Becomes(a, b), Lifecycle!Becomes(b, c)
    PROVE  Lifecycle!Becomes(a, c)
<1>1. /\ a.lots \in Int /\ b.lots \in Int /\ c.lots \in Int
      /\ a.status \in Lifecycle!Status /\ b.status \in Lifecycle!Status
  BY Constants DEF Entries
<1>2. c.status \in Lifecycle!Reachable[a.status]
  BY <1>1 DEF Entries, Lifecycle!Becomes, Lifecycle!Reachable, Lifecycle!Status,
              Lifecycle!Working
<1>3. /\ a.status = "filled" => b.status = "filled"
      /\ b.status = "filled" => c.status = "filled"
  BY DEF Lifecycle!Becomes, Lifecycle!Reachable
<1>4. ASSUME c.lots > a.lots PROVE a.status # "filled" /\ c.status = "filled"
  <2>1. b.lots > a.lots \/ c.lots > b.lots BY <1>1, <1>4
  <2>2. QED BY <1>3, <2>1 DEF Lifecycle!Becomes
<1>5. QED BY <1>2, <1>4 DEF Lifecycle!Becomes

LEMMA StepIsCall ==
    ASSUME Lifecycle!TypeOK, [Lifecycle!Next]_(Lifecycle!vars)
    PROVE  Lifecycle!TypeOK' /\ [Lifecycle!Call]_(Lifecycle!vars)
<1> USE DEF Lifecycle!Status, Lifecycle!Working
<1>1. CASE UNCHANGED Lifecycle!vars
  BY <1>1 DEF Lifecycle!vars, Lifecycle!TypeOK
<1>2. ASSUME NEW o \in OrderIds, NEW s \in Lifecycle!Status, NEW n \in 0..MaxVolume,
             OrderStatus' = [OrderStatus EXCEPT ![o] = s],
             OpenLots' = [OpenLots EXCEPT ![o] = n],
             s \in Lifecycle!Reachable[OrderStatus[o]],
             n > OpenLots[o] => OrderStatus[o] # "filled" /\ s = "filled"
      PROVE  Lifecycle!TypeOK' /\ Lifecycle!Call
  <2>1. Lifecycle!TypeOK' BY <1>2 DEF Lifecycle!TypeOK
  <2>2. /\ OrderStatus'[o] = s /\ OpenLots'[o] = n
        /\ \A q \in OrderIds : q # o =>
              OrderStatus'[q] = OrderStatus[q] /\ OpenLots'[q] = OpenLots[q]
    BY <1>2 DEF Lifecycle!TypeOK
  <2>3. ASSUME NEW q \in OrderIds
        PROVE  Lifecycle!Becomes(Lifecycle!Entry(q), Lifecycle!Entry(q)')
    <3>1. CASE q = o
      BY <1>2, <2>2, <3>1 DEF Lifecycle!Becomes, Lifecycle!Entry
    <3>2. CASE q # o
      <4>1. OrderStatus[q] \in Lifecycle!Status /\ OpenLots[q] \in Int
        BY Constants DEF Lifecycle!TypeOK
      <4>2. OrderStatus[q] \in Lifecycle!Reachable[OrderStatus[q]]
        BY <4>1 DEF Lifecycle!Reachable
      <4>3. ~ (OpenLots[q] > OpenLots[q]) BY <4>1
      <4>4. QED BY <2>2, <3>2, <4>2, <4>3 DEF Lifecycle!Becomes, Lifecycle!Entry
    <3>3. QED BY <3>1, <3>2
  <2>4. QED BY <2>1, <2>3 DEF Lifecycle!Call
<1>3. ASSUME NEW o \in OrderIds,
             \/ Lifecycle!Place(o) \/ Lifecycle!Arm(o) \/ Lifecycle!Fill(o)
             \/ Lifecycle!Withdraw(o) \/ Lifecycle!Reduce(o)
      PROVE  Lifecycle!TypeOK' /\ Lifecycle!Call
  <2>1. /\ OrderStatus \in [OrderIds -> Lifecycle!Status]
        /\ OpenLots \in [OrderIds -> 0..MaxVolume]
    BY DEF Lifecycle!TypeOK
  <2>2. /\ OrderStatus = [OrderStatus EXCEPT ![o] = OrderStatus[o]]
        /\ OpenLots = [OpenLots EXCEPT ![o] = OpenLots[o]]
        /\ OpenLots[o] \in 0..MaxVolume /\ OpenLots[o] \in Int
    BY <2>1, Constants
  <2>3. CASE Lifecycle!Place(o) \/ Lifecycle!Arm(o) \/ Lifecycle!Withdraw(o)
    <3>1. PICK s \in Lifecycle!Status :
             /\ OrderStatus' = [OrderStatus EXCEPT ![o] = s]
             /\ s \in Lifecycle!Reachable[OrderStatus[o]]
      BY <2>3 DEF Lifecycle!Place, Lifecycle!Arm, Lifecycle!Withdraw, Lifecycle!Reachable
    <3>2. OpenLots' = OpenLots
      BY <2>3 DEF Lifecycle!Place, Lifecycle!Arm, Lifecycle!Withdraw
    <3>3. ~ (OpenLots[o] > OpenLots[o]) BY <2>2
    <3>4. QED BY <1>2, <2>2, <3>1, <3>2, <3>3
  <2>4. CASE Lifecycle!Fill(o)
    <3>1. PICK n \in 1..MaxVolume : OpenLots' = [OpenLots EXCEPT ![o] = n]
      BY <2>4 DEF Lifecycle!Fill
    <3>2. /\ OrderStatus' = [OrderStatus EXCEPT ![o] = "filled"]
          /\ OrderStatus[o] # "filled"
          /\ "filled" \in Lifecycle!Reachable[OrderStatus[o]]
      BY <2>4 DEF Lifecycle!Fill, Lifecycle!Reachable
    <3>3. n \in 0..MaxVolume BY <3>1, Constants
    <3>4. QED BY <1>2, <3>1, <3>2, <3>3
  <2>5. CASE Lifecycle!Reduce(o)
    <3>1. PICK n \in 0..(OpenLots[o] - 1) : OpenLots' = [OpenLots EXCEPT ![o] = n]
      BY <2>5 DEF Lifecycle!Reduce
    <3>2. OrderStatus' = OrderStatus /\ OrderStatus[o] = "filled"
      BY <2>5 DEF Lifecycle!Reduce
    <3>3. n \in 0..MaxVolume /\ ~ (n > OpenLots[o]) BY <2>2, <3>1, Constants
    <3>4. OrderStatus[o] \in Lifecycle!Reachable[OrderStatus[o]]
      BY <3>2 DEF Lifecycle!Reachable
    <3>5. QED BY <1>2, <2>2, <3>1, <3>2, <3>3, <3>4
  <2>6. QED BY <1>3, <2>3, <2>4, <2>5
<1>4. QED BY <1>1, <1>3 DEF Lifecycle!Next

(* What any call of the broker does to an order, a whole on_quote          *)
(* included, is what TradingService proves of the brokers it stands for.   *)
THEOREM CallsKeepPromise == Spec => Lifecycle!CallSpec
<1>1. Lifecycle!Init => Lifecycle!TypeOK
  BY Constants DEF Lifecycle!Init, Lifecycle!TypeOK, Lifecycle!Status
<1>2. QED
  BY <1>1, StepIsCall, ImplementsLifecycle, PTL
     DEF LifecycleSpec, Lifecycle!Spec, Lifecycle!CallSpec

-----------------------------------------------------------------------------
(* A sweep settles the book.  SweepSettles speaks of the moment on_quote   *)
(* returns; the invariant says of every moment before what is settled by   *)
(* then: the orders the first loop has left behind, or need not visit, and *)
(* the positions the second loop has.                                      *)

Rejection(o) == [kind |-> "order.filled", id |-> o, state |-> "rejected"]

Reported(o) == \E i \in DOMAIN events : events[i] = Rejection(o)

OrderSettled(o) ==
    Pending(o) /\ orders[o].symbol = sweep.symbol =>
        /\ ~ PastExpiry(orders[o])
        /\ PriceReached(orders[o]) => Reported(o)

Unreached(p) ==
    LET exit == ExitPrice(p.side, p.symbol)
    IN  /\ p.sl # None => Beyond(p.side, exit, p.sl)
        /\ p.tp # None => Beyond(p.side, p.tp, exit)

PositionSettled(o) ==
    Open(o) /\ positions[o].symbol = sweep.symbol => Unreached(positions[o])

SettledSoFar ==
    /\ sweep.at # "idle" => \A o \in OrderIds :
          OrderSettled(o) \/ (sweep.at = "orders" /\ o \in sweep.todo)
    /\ sweep.at \in {"positions", "done"} => \A o \in OrderIds :
          PositionSettled(o) \/ (sweep.at = "positions" /\ o \in sweep.todo)

(* A market order is filled or refused at once. *)
OnlyRestingWait ==
    \A o \in OrderIds : Pending(o) => orders[o].type # "market"

SettleInv == OnlyRestingWait /\ SettledSoFar

(* What an iteration of either loop writes: the entries of one id, the     *)
(* program counter, and at most one more event.                            *)
Iteration(o) ==
    /\ OnlyId(o) /\ Visited(o) /\ bid' = bid /\ now' = now
    /\ events' = events \/ \E e \in Event : events' = Append(events, e)

LEMMA AppendKeeps ==
    ASSUME NEW S, NEW s \in Seq(S), NEW e \in S
    PROVE  /\ \A i \in DOMAIN s : i \in DOMAIN Append(s, e) /\ Append(s, e)[i] = s[i]
           /\ \E i \in DOMAIN Append(s, e) : Append(s, e)[i] = e
<1>1. PICK n \in Nat : n = Len(s) OBVIOUS
<1>2. /\ DOMAIN s = 1..n /\ DOMAIN Append(s, e) = 1..(n + 1)
      /\ Append(s, e)[n + 1] = e
      /\ \A i \in 1..n : Append(s, e)[i] = s[i]
  BY <1>1
<1>3. QED BY <1>1, <1>2

LEMMA ReportedStays ==
    ASSUME TypeOK, NEW o, Reported(o),
           events' = events \/ \E e \in Event : events' = Append(events, e)
    PROVE  Reported(o)'
<1>1. CASE events' = events BY <1>1 DEF Reported, Rejection
<1>2. ASSUME NEW e \in Event, events' = Append(events, e) PROVE Reported(o)'
  BY <1>2, AppendKeeps DEF Reported, Rejection, TypeOK
<1>3. QED BY <1>1, <1>2

(* The other ids stay as settled as they are. *)
LEMMA OthersStaySettled ==
    ASSUME TypeOK, NEW o \in OrderIds, Iteration(o), NEW q \in OrderIds, q # o
    PROVE  /\ OrderSettled(q) => OrderSettled(q)'
           /\ PositionSettled(q) => PositionSettled(q)'
<1>1. /\ orders'[q] = orders[q] /\ positions'[q] = positions[q]
      /\ sweep'.symbol = sweep.symbol /\ bid' = bid /\ now' = now
  BY DEF Iteration, OnlyId, Visited, TypeOK, SweepState
<1>2. Reported(q) => Reported(q)' BY ReportedStays DEF Iteration
<1>3. OrderSettled(q) => OrderSettled(q)'
  BY <1>1, <1>2 DEF OrderSettled, Pending, PastExpiry, PriceReached, EntryPrice, ask
<1>4. PositionSettled(q) => PositionSettled(q)'
  BY <1>1 DEF PositionSettled, Open, Unreached, ExitPrice, ask
<1>5. QED BY <1>3, <1>4

(* So an iteration has only its own id to settle.                          *)
LEMMA IterationSettles ==
    ASSUME TypeOK, SettledSoFar, NEW o \in OrderIds, Iteration(o),
           \/ sweep.at = "orders" /\ OrderSettled(o)'
           \/ /\ sweep.at = "positions" /\ PositionSettled(o)'
              /\ OrderSettled(o) => OrderSettled(o)'
    PROVE  SettledSoFar'
<1>1. sweep'.at = sweep.at /\ sweep'.todo = sweep.todo \ {o}
  BY DEF Iteration, Visited, TypeOK, SweepState
<1>2. ASSUME NEW q \in OrderIds, q # o
      PROVE  /\ OrderSettled(q) => OrderSettled(q)'
             /\ PositionSettled(q) => PositionSettled(q)'
  BY <1>2, OthersStaySettled
<1> HIDE DEF OrderSettled, PositionSettled
<1>3. CASE sweep.at = "orders"
  <2>1. OrderSettled(o)' BY <1>3
  <2>2. \A q \in OrderIds : OrderSettled(q) \/ q \in sweep.todo
    BY <1>3 DEF SettledSoFar
  <2>3. \A q \in OrderIds : OrderSettled(q)' \/ q \in sweep'.todo
    BY <1>1, <1>2, <2>1, <2>2
  <2>4. QED BY <1>1, <1>3, <2>3 DEF SettledSoFar
<1>4. CASE sweep.at = "positions"
  <2>1. PositionSettled(o)' /\ (OrderSettled(o) => OrderSettled(o)') BY <1>4
  <2>2. \A q \in OrderIds : /\ OrderSettled(q)
                            /\ PositionSettled(q) \/ q \in sweep.todo
    BY <1>4 DEF SettledSoFar
  <2>3. \A q \in OrderIds : OrderSettled(q)' BY <1>2, <2>1, <2>2
  <2>4. \A q \in OrderIds : PositionSettled(q)' \/ q \in sweep'.todo
    BY <1>1, <1>2, <2>1, <2>2
  <2>5. QED BY <1>1, <1>4, <2>3, <2>4 DEF SettledSoFar
<1>5. QED BY <1>3, <1>4

(* A resting order whose price is there is one _maybe_fill tries. *)
LEMMA ReachedIsCrossed ==
    ASSUME TypeOK, NEW order \in Order, OrderSound(order),
           order.type # "market", PriceReached(order)
    PROVE  Crossed(order)
<1>1. /\ order.symbol \in Symbols /\ order.price \in Int
      /\ order.type = "stop_limit" => order.limit \in Int
      /\ order.side \in Sides /\ order.type \in Types
  BY DEF Order, OrderSound, Maybe
<1>2. bid[order.symbol] \in Int /\ ask(order.symbol) \in Int BY <1>1, PricesInt
<1>3. CASE order.type = "limit"
  BY <1>1, <1>2, <1>3 DEF PriceReached, Crossed, EntryPrice, Beyond, LimitReached, Sides
<1>4. CASE order.type = "stop"
  BY <1>1, <1>2, <1>4 DEF PriceReached, Crossed, EntryPrice, Beyond, StopReached, Sides
<1>5. CASE order.type = "stop_limit"
  BY <1>1, <1>2, <1>5 DEF PriceReached, Crossed, EntryPrice, Beyond, LimitReached, Sides
<1>6. QED BY <1>1, <1>3, <1>4, <1>5 DEF Types

(* A fill leaves nothing pending. *)
LEMMA FilledNotPending ==
    ASSUME TypeOK, NEW o \in OrderIds, NEW order \in Order, NEW price,
           Fill(o, order, price)
    PROVE  ~ Pending(o)' /\ \A q \in OrderIds \ {o} : orders'[q] = orders[q]
BY DEF Fill, Pending, TypeOK, Order

LEMMA ExpiresSettles ==
    ASSUME IInv, SettledSoFar, NEW o \in OrderIds, SweepExpires(o)
    PROVE  SettledSoFar'
<1>1. orders[o] \in Order /\ TypeOK
  BY DEF SweepExpires, FirstTodo, SweepSound, Pending, IInv, TypeOK
<1>2. orders' = [orders EXCEPT ![o] = [orders[o] EXCEPT !.state = "expired"]]
  BY DEF SweepExpires
<1>3. orders'[o].state = "expired" BY <1>1, <1>2 DEF TypeOK, Order
<1>4. OnlyId(o) BY <1>1, <1>2 DEF OnlyId, TypeOK, SweepExpires
<1>5. Iteration(o)
  BY <1>4 DEF Iteration, SweepExpires, Report, Event, OrderStates
<1>6. OrderSettled(o)' BY <1>3 DEF OrderSettled, Pending
<1>7. QED BY <1>1, <1>5, <1>6, IterationSettles DEF SweepExpires

LEMMA TriesSettles ==
    ASSUME IInv, SettleInv, NEW o \in OrderIds, SweepTries(o)
    PROVE  SettledSoFar'
<1> DEFINE latched == Latched(orders[o])
<1>1. /\ orders[o] \in Order /\ orders[o].state = "pending" /\ ~ Open(o)
      /\ TypeOK /\ OrderSound(orders[o]) /\ orders[o].type # "market"
      /\ Book
  BY DEF SweepTries, FirstTodo, SweepSound, Pending, IInv, TypeOK, Book,
         OrdersSound, PositionBacked, SettleInv, OnlyRestingWait
<1>2. /\ latched \in Order
      /\ \A f \in {"symbol", "side", "type", "volume", "price", "limit", "sl",
                   "tp", "expiry", "state"} : latched[f] = orders[o][f]
  BY <1>1, LatchedType
<1>3. /\ MaybeFill(o, orders[o]) /\ Visited(o) /\ UNCHANGED <<bid, now, paidIn>>
      /\ ~ Expired(orders[o]) /\ sweep.at = "orders"
      /\ IF Crossed(latched)
         THEN Report("order.filled", o, IF Fillable(latched) THEN "filled" ELSE "rejected")
         ELSE UNCHANGED events
  BY DEF SweepTries
<1>4. BookTypes' /\ OnlyId(o) BY <1>1, <1>3, MaybeFillKeeps
<1>5. Iteration(o)
  BY <1>3, <1>4 DEF Iteration, Report, Event, OrderStates
<1> HIDE DEF latched
<1>6. OrderSettled(o)'
  <2>1. CASE Fillable(latched)
    <3>1. Fill(o, latched, FillLevel(latched))
      BY <1>3, <2>1 DEF latched, MaybeFill
    <3>2. QED BY <1>1, <1>2, <3>1, FilledNotPending DEF OrderSettled
  <2>2. CASE ~ Fillable(latched)
    <3>1. orders'[o] = latched
      BY <1>1, <1>3, <2>2 DEF latched, MaybeFill, TypeOK
    <3>2. ~ PastExpiry(latched)
      BY <1>2, <1>3 DEF PastExpiry, Expired
    <3>3. OrderSound(latched) BY <1>1, <1>2 DEF OrderSound
    <3>4. PriceReached(latched) => Crossed(latched)
      BY <1>1, <1>2, <3>3, ReachedIsCrossed
    <3>5. Crossed(latched) => Reported(o)'
      <4> SUFFICES ASSUME Crossed(latched) PROVE Reported(o)' OBVIOUS
      <4>1. events' = Append(events, Rejection(o))
        BY <1>3, <2>2 DEF Report, Rejection
      <4>2. Rejection(o) \in Event BY DEF Rejection, Event
      <4>3. QED BY <1>1, <4>1, <4>2, AppendKeeps DEF Reported, Rejection, TypeOK
    <3>6. bid' = bid /\ now' = now BY <1>3
    <3>7. PastExpiry(orders[o])' <=> PastExpiry(latched)
      BY <3>1, <3>6 DEF PastExpiry
    <3>8. PriceReached(orders[o])' <=> PriceReached(latched)
      BY <3>1, <3>6 DEF PriceReached, EntryPrice, ask
    <3>9. QED BY <3>2, <3>4, <3>5, <3>7, <3>8 DEF OrderSettled
  <2>3. QED BY <2>1, <2>2
<1>7. QED BY <1>1, <1>3, <1>5, <1>6, IterationSettles DEF SettleInv

LEMMA KeepsSettles ==
    ASSUME IInv, SettledSoFar, NEW o \in OrderIds, SweepKeeps(o)
    PROVE  SettledSoFar'
<1> DEFINE p == Trailed(positions[o])
<1>1. positions[o] \in Position /\ TypeOK
  BY DEF SweepKeeps, SweepSound, Open, IInv, TypeOK
<1>2. p \in Position BY <1>1, TrailedType
<1>3. /\ positions' = [positions EXCEPT ![o] = p] /\ Visited(o)
      /\ ~ SlHit(p) /\ ~ TpHit(p) /\ sweep.at = "positions"
      /\ UNCHANGED <<orders, account, bid, now, paidIn, events>>
  BY DEF SweepKeeps
<1> HIDE DEF p
<1>4. \A q \in OrderIds : positions'[q] = IF q = o THEN p ELSE positions[q]
  BY <1>1, <1>3 DEF TypeOK
<1>5. Iteration(o) BY <1>3, <1>4 DEF Iteration, OnlyId
<1>6. Unreached(p)
  <2>1. /\ p.symbol \in Symbols /\ p.side \in Sides
        /\ p.sl \in Int \cup {None} /\ p.tp \in Int \cup {None}
    BY <1>2 DEF Position, Maybe
  <2>2. bid[p.symbol] \in Int /\ ask(p.symbol) \in Int BY <1>1, <2>1, PricesInt
  <2>3. QED BY <1>3, <2>1, <2>2 DEF Unreached, SlHit, TpHit, Beyond, ExitPrice, Sides
<1>7. PositionSettled(o)'
  BY <1>3, <1>4, <1>6 DEF PositionSettled, Unreached, ExitPrice, ask
<1>8. OrderSettled(o) => OrderSettled(o)'
  <2>1. sweep'.symbol = sweep.symbol
    BY <1>1, <1>3 DEF Visited, TypeOK, SweepState
  <2>2. QED BY <1>3, <2>1 DEF OrderSettled, Pending, PastExpiry, PriceReached,
                             EntryPrice, ask, Reported, Rejection
<1>9. QED BY <1>1, <1>3, <1>5, <1>7, <1>8, IterationSettles

LEMMA ClosesSettles ==
    ASSUME IInv, SettledSoFar, NEW o \in OrderIds, SweepCloses(o)
    PROVE  SettledSoFar'
<1> DEFINE p     == Trailed(positions[o])
           price == IF SlHit(p) THEN p.sl ELSE p.tp
<1>1. /\ positions[o] \in Position /\ TypeOK /\ Book /\ Open(o)
      /\ orders[o] # None /\ orders[o].state = "filled"
  <2>1. Open(o) BY DEF SweepCloses, SweepSound, IInv
  <2>2. TypeOK /\ Book BY DEF IInv
  <2>3. orders[o] # None /\ orders[o].state = "filled"
    BY <2>1, <2>2 DEF Book, PositionBacked
  <2>4. QED BY <2>1, <2>2, <2>3 DEF Open, TypeOK
<1>2. /\ p \in Position /\ p.volume = positions[o].volume
  BY <1>1, TrailedType
<1>3. /\ Settle(o, price, p.volume) /\ (SlHit(p) \/ TpHit(p)) /\ Visited(o)
      /\ Report("position.closed", o, "closed") /\ sweep.at = "positions"
      /\ UNCHANGED <<bid, now, paidIn>>
  BY DEF SweepCloses
<1>4. price \in Int
  <2>1. p.sl \in Int \cup {None} /\ p.tp \in Int \cup {None}
    BY <1>2 DEF Position, Maybe
  <2>2. CASE SlHit(p) BY <2>1, <2>2 DEF SlHit
  <2>3. CASE ~ SlHit(p) /\ TpHit(p) BY <2>1, <2>3 DEF TpHit
  <2>4. QED BY <1>3, <2>2, <2>3
<1>5. OnlyId(o) BY <1>1, <1>3, <1>4, SettleKeeps
<1>6. Iteration(o) BY <1>3, <1>5 DEF Iteration, Report, Event
<1> HIDE DEF p, price
<1>7. PositionSettled(o)'
  <2>1. ~ (positions[o].volume > p.volume) BY <1>2, MaxVolumeRange DEF Position
  <2>2. positions' = [positions EXCEPT ![o] = None]
    BY <1>3, <2>1 DEF Settle, Remaining
  <2>3. QED BY <1>1, <2>2 DEF PositionSettled, Open, TypeOK
<1>8. OrderSettled(o)'
  BY <1>1, <1>3 DEF OrderSettled, Pending, Settle
<1>9. QED BY <1>1, <1>3, <1>6, <1>7, <1>8, IterationSettles

(* Between sweeps there is nothing to say, and the loops begin and end     *)
(* with what the other has settled.                                        *)
LEMMA OnQuoteSettles == ASSUME IInv, SettleInv, OnQuote PROVE SettledSoFar'
<1> USE DEF SettleInv
<1>1. ASSUME NEW s \in Symbols, BeginSweep(s) PROVE SettledSoFar'
  <2>1. \A o \in OrderIds : o \in sweep'.todo \/ OrderSettled(o)'
    BY <1>1 DEF BeginSweep, OrderSettled, Pending
  <2>2. sweep'.at = "orders" BY <1>1 DEF BeginSweep
  <2>3. QED BY <2>1, <2>2 DEF SettledSoFar
<1>2. ASSUME NEW o \in OrderIds, SweepExpires(o) PROVE SettledSoFar'
  BY <1>2, ExpiresSettles
<1>3. ASSUME NEW o \in OrderIds, SweepTries(o) PROVE SettledSoFar'
  BY <1>3, TriesSettles
<1>4. ASSUME NEW o \in OrderIds, SweepKeeps(o) PROVE SettledSoFar'
  BY <1>4, KeepsSettles
<1>5. ASSUME NEW o \in OrderIds, SweepCloses(o) PROVE SettledSoFar'
  BY <1>5, ClosesSettles
<1>6. ASSUME TurnToPositions PROVE SettledSoFar'
  <2>1. /\ UNCHANGED <<orders, positions, bid, now, events>>
        /\ sweep'.symbol = sweep.symbol /\ sweep'.at = "positions"
        /\ sweep'.todo = {o \in OrderIds :
                             Open(o) /\ positions[o].symbol = sweep.symbol}
    BY <1>6 DEF TurnToPositions, IInv, TypeOK, SweepState
  <2>2. \A o \in OrderIds : OrderSettled(o)
    BY <1>6 DEF TurnToPositions, SettledSoFar
  <2>3. \A o \in OrderIds : OrderSettled(o)'
    BY <2>1, <2>2 DEF OrderSettled, Pending, PastExpiry, PriceReached, EntryPrice,
                      ask, Reported, Rejection
  <2>4. \A o \in OrderIds : o \in sweep'.todo \/ PositionSettled(o)'
    BY <2>1 DEF PositionSettled, Open
  <2>5. QED BY <2>1, <2>3, <2>4 DEF SettledSoFar
<1>7. ASSUME EndSweep PROVE SettledSoFar'
  <2>1. /\ UNCHANGED <<orders, positions, bid, now, events>>
        /\ sweep'.symbol = sweep.symbol /\ sweep'.at = "done"
    BY <1>7 DEF EndSweep, IInv, TypeOK, SweepState
  <2>2. \A o \in OrderIds : OrderSettled(o) /\ PositionSettled(o)
    BY <1>7 DEF EndSweep, SettledSoFar
  <2>3. \A o \in OrderIds : OrderSettled(o)'
    BY <2>1, <2>2 DEF OrderSettled, Pending, PastExpiry, PriceReached, EntryPrice,
                      ask, Reported, Rejection
  <2>4. \A o \in OrderIds : PositionSettled(o)'
    BY <2>1, <2>2 DEF PositionSettled, Open, Unreached, ExitPrice, ask
  <2>5. QED BY <2>1, <2>3, <2>4 DEF SettledSoFar
<1>8. ASSUME Return PROVE SettledSoFar'
  <2>1. sweep'.at = "idle" BY <1>8 DEF Return, IInv, TypeOK, SweepState
  <2>2. QED BY <2>1 DEF SettledSoFar
<1>9. QED BY <1>1, <1>2, <1>3, <1>4, <1>5, <1>6, <1>7, <1>8 DEF OnQuote

(* Nobody leaves a market order pending: what an attempt that does not     *)
(* fill stores has the type it had.                                        *)
LEMMA TriedRests ==
    ASSUME TypeOK, OnlyRestingWait, NEW o \in OrderIds, NEW order \in Order,
           order.type # "market", MaybeFill(o, order)
    PROVE  OnlyRestingWait'
<1>1. Latched(order) \in Order /\ Latched(order).type = order.type BY LatchedType
<1>2. CASE Fill(o, Latched(order), FillLevel(Latched(order)))
  BY <1>1, <1>2, FilledNotPending DEF OnlyRestingWait, Pending
<1>3. CASE orders' = [orders EXCEPT ![o] = Latched(order)]
  BY <1>1, <1>3 DEF OnlyRestingWait, Pending, TypeOK
<1>4. QED BY <1>2, <1>3 DEF MaybeFill

LEMMA OnlyRestingStay == ASSUME IInv, OnlyRestingWait, Next PROVE OnlyRestingWait'
<1> TypeOK BY DEF IInv
<1>1. CASE UNCHANGED orders BY <1>1 DEF OnlyRestingWait, Pending
<1>2. ASSUME NEW o \in OrderIds, NEW state \in OrderStates \ {"pending"}, Pending(o),
             orders' = [orders EXCEPT ![o] = [orders[o] EXCEPT !.state = state]]
      PROVE  OnlyRestingWait'
  BY <1>2 DEF OnlyRestingWait, Pending, TypeOK, Order
<1>3. ASSUME NEW r \in Requests, PlaceMarket(r) PROVE OnlyRestingWait'
  <2>1. EntryPrice(r.side, r.symbol) \in Int
    BY PricesInt, Constants DEF Request
  <2>2. QED
    BY <1>3, <2>1, OrderOfType, FilledNotPending DEF PlaceMarket, OnlyRestingWait, Pending
<1>4. ASSUME NEW r \in Requests, PlaceResting(r) PROVE OnlyRestingWait'
  <2>1. r.type # "market" /\ r.price \in Int
    BY <1>4, Constants DEF PlaceResting, Request, Maybe
  <2>2. OrderOf(r, r.price) \in Order /\ OrderOf(r, r.price).type # "market"
    BY <2>1, OrderOfType DEF OrderOf
  <2>3. QED BY <1>4, <2>2, TriedRests DEF PlaceResting
<1>5. ASSUME NEW o \in OrderIds, CancelOrder(o) PROVE OnlyRestingWait'
  BY <1>2, <1>5 DEF CancelOrder, OrderStates
<1>6. ASSUME NEW o \in OrderIds, SweepExpires(o) PROVE OnlyRestingWait'
  <2>1. Pending(o) BY <1>6 DEF SweepExpires, FirstTodo, IInv, SweepSound
  <2>2. QED BY <1>2, <1>6, <2>1 DEF SweepExpires, OrderStates
<1>7. ASSUME NEW o \in OrderIds, SweepTries(o) PROVE OnlyRestingWait'
  <2>1. Pending(o) /\ orders[o] \in Order
    BY <1>7 DEF SweepTries, FirstTodo, IInv, SweepSound, TypeOK, Pending
  <2>2. QED BY <1>7, <2>1, TriedRests DEF SweepTries, OnlyRestingWait
<1>8. CASE Environment BY <1>1, <1>8 DEF Environment, MarketMoves, NewDay
<1>9. CASE Requested
  BY <1>1, <1>3, <1>4, <1>5, <1>9 DEF Requested, ClosePosition, Settle, ModifyPosition,
                                     Deposit, Withdraw
<1>10. CASE OnQuote
  BY <1>1, <1>6, <1>7, <1>10 DEF OnQuote, BeginSweep, SweepKeeps, SweepCloses, Settle,
                                TurnToPositions, EndSweep, Return
<1>11. QED BY <1>8, <1>9, <1>10 DEF Next

LEMMA SettleInvKept == IInv /\ SettleInv /\ [Next]_vars => SettleInv'
<1> SUFFICES ASSUME IInv, SettleInv, [Next]_vars PROVE SettleInv' OBVIOUS
<1>1. CASE UNCHANGED vars
  BY <1>1 DEF vars, SettleInv, OnlyRestingWait, Pending, SettledSoFar, OrderSettled,
              PositionSettled, PastExpiry, PriceReached, EntryPrice, ExitPrice, ask,
              Reported, Rejection, Unreached, Open
<1>2. CASE Next
  <2>1. OnlyRestingWait' BY <1>2, OnlyRestingStay DEF SettleInv
  <2>2. CASE Environment \/ Requested
    <3>1. sweep' = sweep /\ sweep.at = "idle"
      BY <2>2 DEF Environment, Requested, Idle, MarketMoves, NewDay, PlaceMarket,
                  PlaceResting, CancelOrder, ClosePosition, ModifyPosition, Deposit,
                  Withdraw
    <3>2. QED BY <2>1, <3>1 DEF SettleInv, SettledSoFar
  <2>3. CASE OnQuote BY <2>1, <2>3, OnQuoteSettles DEF SettleInv
  <2>4. QED BY <1>2, <2>2, <2>3 DEF Next
<1>3. QED BY <1>1, <1>2

(* When on_quote returns, no position of the symbol is past a protection,  *)
(* and every resting order that expired, or whose price was there, was     *)
(* dealt with or reported.                                                 *)
THEOREM SweepAlwaysSettles == Spec => []SweepSettles
<1>1. Init => SettleInv
  BY DEF Init, SettleInv, OnlyRestingWait, SettledSoFar, Pending
<1>2. SettleInv => SweepSettles
  BY DEF SettleInv, SettledSoFar, SweepSettles, OrderSettled, PositionSettled, Unreached,
         Reported, Rejection
<1>3. QED BY <1>1, <1>2, InvariantHolds, SettleInvKept, PTL DEF Spec

-----------------------------------------------------------------------------
(* The sums.  An action fills one order, or closes a part of one position  *)
(* and appends the trade, or leaves exposure and trades as they are.       *)

Bought(o) ==
    IF orders[o] # NoOrder /\ orders[o].state = "filled" THEN orders[o].volume ELSE 0

Held(o) == IF Open(o) THEN positions[o].volume ELSE 0

(* The volumes and the results of the closed trades are numbers. *)
LEMMA TradesType ==
    ASSUME TypeOK
    PROVE  /\ \A i \in DOMAIN closed : closed[i] \in Trade /\ closed[i].volume \in Int
                                       /\ closed[i].gross - closed[i].swap \in Int
           /\ \A o \in OrderIds : Held(o) \in Int /\ Bought(o) \in Int
<1>1. \A t \in Trade : t.volume \in Int /\ t.gross - t.swap \in Int
  BY MaxVolumeRange DEF Trade
<1>2. \A i \in DOMAIN closed : closed[i] \in Trade BY DEF TypeOK
<1>3. ASSUME NEW o \in OrderIds PROVE Held(o) \in Int /\ Bought(o) \in Int
  BY MaxVolumeRange DEF TypeOK, Held, Bought, Open, Position, Order
<1>4. QED BY <1>1, <1>2, <1>3

(* One more trade adds its volume to its own order and its result to the   *)
(* total.                                                                  *)
LEMMA TradeAdds ==
    ASSUME TypeOK, NEW t \in Trade, closed' = Append(closed, t)
    PROVE  /\ \A o \in OrderIds : /\ ClosedVolume(o) \in Int
                                  /\ ClosedVolume(o)' = ClosedVolume(o)
                                        + IF t.id = o THEN t.volume ELSE 0
           /\ SumFunction([i \in DOMAIN closed |-> closed[i].gross - closed[i].swap]) \in Int
           /\ SumFunction([i \in DOMAIN closed |-> closed[i].gross - closed[i].swap])'
              = SumFunction([i \in DOMAIN closed |-> closed[i].gross - closed[i].swap])
                + (t.gross - t.swap)
<1>1. PICK n \in Nat : n = Len(closed) BY DEF TypeOK
<1>2. /\ DOMAIN closed = 1..n /\ DOMAIN closed' = 1..(n + 1)
      /\ closed'[n + 1] = t /\ \A i \in 1..n : closed'[i] = closed[i]
  BY <1>1 DEF TypeOK
<1>3. /\ \A i \in 1..n : closed[i].volume \in Int
      /\ \A i \in 1..(n + 1) : /\ closed'[i].volume \in Int
                               /\ closed'[i].gross - closed'[i].swap \in Int
  <2>1. \A i \in 1..(n + 1) : closed'[i] \in Trade
    <3>1. \A i \in 1..n : closed[i] \in Trade BY <1>2, TradesType
    <3>2. QED BY <1>2, <3>1
  <2>2. \A u \in Trade : u.volume \in Int /\ u.gross - u.swap \in Int
    BY MaxVolumeRange DEF Trade
  <2>3. QED BY <1>2, <2>1, <2>2
<1>4. ASSUME NEW o \in OrderIds
      PROVE  /\ ClosedVolume(o) \in Int
             /\ ClosedVolume(o)' = ClosedVolume(o) + IF t.id = o THEN t.volume ELSE 0
  <2> DEFINE f == [i \in 1..n |-> closed[i].volume]
             d == [i \in 1..(n + 1) |-> closed'[i].volume]
             S == {i \in 1..n : closed[i].id = o}
             Q == {i \in 1..(n + 1) : closed'[i].id = o}
  <2>1. ClosedVolume(o) = SumFunctionOnSet(f, S) BY <1>2 DEF ClosedVolume
  <2>2. ClosedVolume(o)' = SumFunctionOnSet(d, Q) BY <1>2 DEF ClosedVolume
  <2>3. /\ SumFunctionOnSet(f, S) \in Int
        /\ SumFunctionOnSet(d, S) = SumFunctionOnSet(f, S)
        /\ SumFunctionOnSet(d, S \cup {n + 1}) = SumFunctionOnSet(f, S) + d[n + 1]
    <3>1. \A i \in 1..n : f[i] = d[i] BY <1>2
    <3>2. \A i \in 1..(n + 1) : d[i] \in Int BY <1>3
    <3>3. S \in SUBSET (1..n) OBVIOUS
    <3> HIDE DEF f, d, S
    <3>4. QED BY <1>1, <3>1, <3>2, <3>3, SumAppended
  <2>4. d[n + 1] = t.volume BY <1>2
  <2>5. Q = IF t.id = o THEN S \cup {n + 1} ELSE S BY <1>2
  <2> HIDE DEF f, d, S, Q
  <2>6. t.volume \in Int BY MaxVolumeRange DEF Trade
  <2>7. QED BY <2>1, <2>2, <2>3, <2>4, <2>5, <2>6
<1>5. /\ SumFunction([i \in DOMAIN closed |-> closed[i].gross - closed[i].swap]) \in Int
      /\ SumFunction([i \in DOMAIN closed |-> closed[i].gross - closed[i].swap])'
         = SumFunction([i \in DOMAIN closed |-> closed[i].gross - closed[i].swap])
           + (t.gross - t.swap)
  <2> DEFINE f == [i \in 1..n |-> closed[i].gross - closed[i].swap]
             d == [i \in 1..(n + 1) |-> closed'[i].gross - closed'[i].swap]
  <2>1. SumFunction([i \in DOMAIN closed |-> closed[i].gross - closed[i].swap])
        = SumFunctionOnSet(f, 1..n)
    BY <1>2 DEF SumFunction
  <2>2. SumFunction([i \in DOMAIN closed |-> closed[i].gross - closed[i].swap])'
        = SumFunctionOnSet(d, 1..(n + 1))
    BY <1>2 DEF SumFunction
  <2>3. (\A i \in 1..n : f[i] = d[i]) /\ \A i \in 1..(n + 1) : d[i] \in Int
    BY <1>2, <1>3
  <2>4. d[n + 1] = t.gross - t.swap BY <1>2
  <2> HIDE DEF f, d
  <2>5. /\ SumFunctionOnSet(f, 1..n) \in Int
        /\ SumFunctionOnSet(d, 1..(n + 1)) = SumFunctionOnSet(f, 1..n) + d[n + 1]
    BY <1>1, <2>3, SumOfAllAppended
  <2>6. QED BY <2>1, <2>2, <2>4, <2>5
<1>6. QED BY <1>4, <1>5

(* What an append puts last is an element. *)
LEMMA LastTrade ==
    ASSUME NEW t, closed \in Seq(Trade), Append(closed, t) \in Seq(Trade)
    PROVE  t \in Trade
<1>1. PICK n \in Nat : n = Len(closed) OBVIOUS
<1>2. n + 1 \in DOMAIN Append(closed, t) /\ Append(closed, t)[n + 1] = t BY <1>1
<1>3. QED BY <1>2

(* The sums are numbers. *)
LEMMA VolumesType ==
    ASSUME TypeOK, NEW o \in OrderIds
    PROVE  ClosedVolume(o) \in Int
<1> DEFINE f == [i \in DOMAIN closed |-> closed[i].volume]
           S == {i \in DOMAIN closed : closed[i].id = o}
<1>1. IsFiniteSet(S)
  <2>1. PICK n \in Nat : n = Len(closed) BY DEF TypeOK
  <2>2. IsFiniteSet(1..n) BY <2>1, FS_Interval
  <2>3. S \subseteq 1..n BY <2>1 DEF TypeOK
  <2>4. QED BY <2>2, <2>3, FS_Subset
<1>2. \A i \in S : f[i] \in Int BY TradesType
<1> HIDE DEF f, S
<1>3. SumFunctionOnSet(f, S) \in Int BY <1>1, <1>2, SumIsInt
<1>4. QED BY <1>3 DEF ClosedVolume, f, S

LEMMA TotalIsInt ==
    ASSUME TypeOK
    PROVE  SumFunction([i \in DOMAIN closed |-> closed[i].gross - closed[i].swap]) \in Int
<1> DEFINE f == [i \in DOMAIN closed |-> closed[i].gross - closed[i].swap]
           S == DOMAIN closed
<1>1. IsFiniteSet(S)
  <2>1. PICK n \in Nat : n = Len(closed) BY DEF TypeOK
  <2>2. IsFiniteSet(1..n) BY <2>1, FS_Interval
  <2>3. S = 1..n BY <2>1 DEF TypeOK
  <2>4. QED BY <2>2, <2>3
<1>2. \A i \in S : f[i] \in Int BY TradesType
<1>3. DOMAIN f = S OBVIOUS
<1> HIDE DEF f, S
<1>4. SumFunctionOnSet(f, S) \in Int BY <1>1, <1>2, SumIsInt
<1>5. QED BY <1>3, <1>4 DEF SumFunction, f

(* A fill opens a position and stores an order. *)
LEMMA FillOpens ==
    ASSUME TypeOK, NEW o \in OrderIds, NEW order \in Order, NEW price \in Int,
           Fill(o, order, price)
    PROVE  positions'[o] # None /\ orders'[o] # None
<1> DEFINE fee == Commission(price, order.volume)
           filled == [order EXCEPT !.state = "filled", !.price = price, !.triggered = FALSE]
           opened == [symbol |-> order.symbol, side |-> order.side,
                      volume |-> order.volume, open |-> price,
                      sl |-> order.sl, tp |-> order.tp, openedAt |-> now,
                      commission |-> fee, trail |-> None, extreme |-> None]
<1>1. fee \in Int BY CommissionInt, MaxVolumeRange DEF Order
<1>2. filled \in Order BY DEF Order, OrderStates
<1>3. opened \in Position BY <1>1 DEF Order, Position, TypeOK, Maybe
<1>4. orders'[o] = filled /\ positions'[o] = opened BY DEF Fill, TypeOK
<1> HIDE DEF filled, opened
<1>5. QED BY <1>2, <1>3, <1>4, Constants

(* Fills and closes keep both sums. *)
Sums == VolumeConserved /\ BookBalances

LEMMA StillAddsUp ==
    ASSUME TypeOK, Sums, UNCHANGED <<closed, commissionTotal>>,
           \A o \in OrderIds : Held(o)' = Held(o) /\ Bought(o)' = Bought(o),
           \E amount \in Int : balance' = balance + amount /\ paidIn' = paidIn + amount
    PROVE  Sums'
<1>1. \A o \in OrderIds : ClosedVolume(o)' = ClosedVolume(o) BY DEF ClosedVolume
<1>2. VolumeConserved' BY <1>1 DEF Sums, VolumeConserved, Held, Bought
<1>3. BookBalances'
  <2> DEFINE total == SumFunction([i \in DOMAIN closed |-> closed[i].gross - closed[i].swap])
  <2>1. total' = total OBVIOUS
  <2>2. balance = InitialBalance + paidIn - commissionTotal + total
    BY DEF Sums, BookBalances
  <2>3. total \in Int BY TradesType, TotalIsInt
  <2> HIDE DEF total
  <2>4. balance' = InitialBalance + paidIn' - commissionTotal' + total'
    BY <2>1, <2>2, <2>3, Constants DEF TypeOK
  <2>5. QED BY <2>4 DEF BookBalances, total
<1>4. QED BY <1>2, <1>3 DEF Sums

LEMMA FillAddsUp ==
    ASSUME TypeOK, Sums, NEW o \in OrderIds, NEW order \in Order, NEW price \in Int,
           Fill(o, order, price), Held(o) = 0, Bought(o) = 0, paidIn' = paidIn
    PROVE  Sums'
<1> DEFINE fee   == Commission(price, order.volume)
           total == SumFunction([i \in DOMAIN closed |-> closed[i].gross - closed[i].swap])
<1>1. fee \in Int BY CommissionInt, MaxVolumeRange DEF Order
<1>2. /\ balance' = balance - fee /\ commissionTotal' = commissionTotal + fee
      /\ closed' = closed
  BY DEF Fill
<1>3. Held(o)' = order.volume /\ Bought(o)' = order.volume
  <2>1. positions'[o].volume = order.volume /\ positions'[o].commission = fee
        /\ orders'[o].state = "filled" /\ orders'[o].volume = order.volume
    BY DEF Fill, TypeOK, Order
  <2>2. positions'[o] # None /\ orders'[o] # None
    BY FillOpens
  <2>3. QED BY <2>1, <2>2 DEF Held, Bought, Open
<1>4. ASSUME NEW q \in OrderIds, q # o PROVE Held(q)' = Held(q) /\ Bought(q)' = Bought(q)
  BY <1>4 DEF Held, Bought, Open, Fill, TypeOK
<1>5. \A q \in OrderIds : ClosedVolume(q)' = ClosedVolume(q) BY <1>2 DEF ClosedVolume
<1>6. \A q \in OrderIds : /\ Held(q) + ClosedVolume(q) = Bought(q)
                          /\ ClosedVolume(q) \in Int
  BY VolumesType DEF Sums, VolumeConserved, Held, Bought
<1>7. \A q \in OrderIds : Held(q)' + ClosedVolume(q)' = Bought(q)'
  <2>1. order.volume \in Int BY MaxVolumeRange DEF Order
  <2>2. QED BY <1>3, <1>4, <1>5, <1>6, <2>1
<1>8. VolumeConserved' BY <1>7 DEF VolumeConserved, Held, Bought
<1>9. total' = total /\ total \in Int BY <1>2, TotalIsInt
<1>10. balance = InitialBalance + paidIn - commissionTotal + total
  BY DEF Sums, BookBalances
<1> HIDE DEF fee, total
<1>11. balance' = InitialBalance + paidIn' - commissionTotal' + total'
  BY <1>1, <1>2, <1>9, <1>10, Constants DEF TypeOK
<1>12. QED BY <1>8, <1>11 DEF Sums, BookBalances, total

LEMMA SettleAddsUp ==
    ASSUME TypeOK, Book, Sums, NEW o \in OrderIds, Open(o), NEW price \in Int,
           NEW volume, Settle(o, price, volume), paidIn' = paidIn
    PROVE  Sums'
<1> DEFINE p        == positions[o]
           gross    == (price - p.open) * Direction(p.side) * volume
           closeFee == Commission(price, volume)
           openFee  == (p.commission * volume) \div p.volume
           swap     == Swap(p, volume)
           t == [id |-> o, volume |-> volume, gross |-> gross,
                 net |-> gross - closeFee - openFee - swap,
                 commission |-> closeFee, swap |-> swap]
           total == SumFunction([i \in DOMAIN closed |-> closed[i].gross - closed[i].swap])
<1>1. p \in Position /\ volume \in 1..p.volume /\ volume \in Int /\ volume > 0
  BY MaxVolumeRange DEF Settle, Open, TypeOK, Position
<1>2. closeFee \in Int BY <1>1, CommissionInt
<1>3. /\ closed' = Append(closed, t)
      /\ balance' = balance + (gross - closeFee - swap)
      /\ commissionTotal' = commissionTotal + closeFee
      /\ positions' = [positions EXCEPT ![o] = Remaining(p, volume)]
      /\ orders' = orders
  BY DEF Settle, Settlement
<1>4. t \in Trade
  <2>1. closed' \in Seq(Trade) BY SettleKeeps DEF BookTypes
  <2> HIDE DEF t
  <2>2. QED BY <1>3, <2>1, LastTrade
<1>5. t.id = o /\ t.volume = volume /\ t.gross = gross /\ t.swap = swap OBVIOUS
<1>6. gross \in Int /\ swap \in Int BY <1>4, <1>5 DEF Trade
<1> HIDE DEF t, gross, swap, closeFee, openFee
<1>7. /\ \A q \in OrderIds : /\ ClosedVolume(q) \in Int
                             /\ ClosedVolume(q)' = ClosedVolume(q)
                                   + IF q = o THEN volume ELSE 0
      /\ total \in Int /\ total' = total + (gross - swap)
  BY <1>3, <1>4, <1>5, TradeAdds
<1>8. Held(o)' = Held(o) - volume
  <2>1. positions'[o] = Remaining(p, volume) BY <1>3 DEF TypeOK
  <2>2. p.volume \in Int /\ Held(o) = p.volume
    BY <1>1, MaxVolumeRange DEF Held, Position
  <2>3. CASE p.volume > volume
    <3>1. Remaining(p, volume) = [p EXCEPT !.volume = p.volume - volume]
      BY <2>3 DEF Remaining
    <3>2. Remaining(p, volume) # None /\ Remaining(p, volume).volume = p.volume - volume
      <4>1. Remaining(p, volume) \in Position \cup {None}
        BY <1>1, RemainingType
      <4>2. Remaining(p, volume).volume = p.volume - volume
        BY <1>1, <3>1 DEF Position
      <4>3. [p EXCEPT !.volume = p.volume - volume] \in Position
        BY <1>1, <2>2, <2>3, MaxVolumeRange, Constants DEF Position
      <4>4. QED BY <3>1, <4>2, <4>3, Constants
    <3>3. QED BY <2>1, <2>2, <3>2 DEF Held, Open
  <2>4. CASE ~ (p.volume > volume)
    BY <1>1, <2>1, <2>2, <2>4 DEF Held, Open, Remaining
  <2>5. QED BY <2>3, <2>4
<1>9. \A q \in OrderIds : /\ q # o => Held(q)' = Held(q)
                          /\ Bought(q)' = Bought(q)
  BY <1>3 DEF Held, Bought, Open, TypeOK
<1> HIDE DEF p, total
<1>10. \A q \in OrderIds : /\ Held(q) + ClosedVolume(q) = Bought(q)
                           /\ Held(q) \in Int /\ Bought(q) \in Int
  BY TradesType DEF Sums, VolumeConserved, Held, Bought
<1>11. \A q \in OrderIds : Held(q)' + ClosedVolume(q)' = Bought(q)'
  BY <1>1, <1>7, <1>8, <1>9, <1>10
<1>12. VolumeConserved' BY <1>11 DEF VolumeConserved, Held, Bought
<1>13. balance = InitialBalance + paidIn - commissionTotal + total
  BY DEF Sums, BookBalances, total
<1>14. balance' = InitialBalance + paidIn' - commissionTotal' + total'
  BY <1>2, <1>3, <1>6, <1>7, <1>13, Constants DEF TypeOK
<1>15. QED BY <1>12, <1>14 DEF Sums, BookBalances, total

(* Nothing is held or bought under an id whose order did not fill. *)
LEMMA NothingBought ==
    ASSUME Book, NEW o \in OrderIds, orders[o] = None \/ Pending(o)
    PROVE  ~ Open(o) /\ Held(o) = 0 /\ Bought(o) = 0
BY DEF Book, PositionBacked, Pending, Held, Bought

LEMMA NoMoneyMoved ==
    ASSUME TypeOK, UNCHANGED <<balance, paidIn>>
    PROVE  \E amount \in Int : balance' = balance + amount /\ paidIn' = paidIn + amount
<1>1. 0 \in Int /\ balance' = balance + 0 /\ paidIn' = paidIn + 0 BY DEF TypeOK
<1>2. QED BY <1>1

(* An order that is not filled is stored, replaced or withdrawn. *)
LEMMA StoringAddsUp ==
    ASSUME IInv, Sums, NEW o \in OrderIds, NEW order \in Order, order.state # "filled",
           orders[o] = None \/ Pending(o), orders' = [orders EXCEPT ![o] = order],
           UNCHANGED <<positions, account, paidIn>>
    PROVE  Sums'
<1>1. TypeOK /\ Book BY DEF IInv
<1>2. Bought(o) = 0 /\ Bought(o)' = 0 BY <1>1, NothingBought DEF Bought, TypeOK
<1>3. \A q \in OrderIds : Held(q)' = Held(q) /\ Bought(q)' = Bought(q)
  BY <1>1, <1>2 DEF Held, Bought, Open, TypeOK
<1>4. QED BY <1>1, <1>3, NoMoneyMoved, StillAddsUp DEF account

(* An attempt to fill does or stores the order. *)
LEMMA TryAddsUp ==
    ASSUME IInv, Sums, NEW o \in OrderIds, NEW order \in Order,
           order.state = "pending", OrderSound(order),
           orders[o] = None \/ Pending(o), MaybeFill(o, order), paidIn' = paidIn
    PROVE  Sums'
<1> DEFINE latched == Latched(order)
<1>1. /\ latched \in Order
      /\ \A f \in {"state", "type", "limit"} : latched[f] = order[f]
  BY LatchedType
<1>2. TypeOK /\ Held(o) = 0 /\ Bought(o) = 0 BY NothingBought DEF IInv
<1>3. FillLevel(latched) \in Int BY <1>1, FillLevelType DEF OrderSound
<1>4. \/ Fill(o, latched, FillLevel(latched))
      \/ /\ orders' = [orders EXCEPT ![o] = latched]
         /\ UNCHANGED <<positions, account>>
  BY DEF MaybeFill
<1> HIDE DEF latched
<1>5. CASE Fill(o, latched, FillLevel(latched))
  BY <1>1, <1>2, <1>3, <1>5, FillAddsUp
<1>6. CASE orders' = [orders EXCEPT ![o] = latched] /\ UNCHANGED <<positions, account>>
  BY <1>1, <1>6, StoringAddsUp
<1>7. QED BY <1>4, <1>5, <1>6

(* A position is changed in anything but its volume. *)
LEMMA ChangingAddsUp ==
    ASSUME IInv, Sums, NEW o \in OrderIds, Open(o), NEW p \in Position,
           p.volume = positions[o].volume, positions' = [positions EXCEPT ![o] = p],
           UNCHANGED <<orders, account, paidIn>>
    PROVE  Sums'
<1>1. TypeOK BY DEF IInv
<1>2. Held(o)' = Held(o) BY <1>1, Constants DEF Held, Open, TypeOK
<1>3. \A q \in OrderIds : Held(q)' = Held(q) /\ Bought(q)' = Bought(q)
  BY <1>1, <1>2 DEF Held, Bought, Open, TypeOK
<1>4. QED BY <1>1, <1>3, NoMoneyMoved, StillAddsUp DEF account

(* The book stays, money may come or go. *)
LEMMA SameBookAddsUp ==
    ASSUME IInv, Sums, UNCHANGED <<orders, positions, commissionTotal, closed>>,
           \E amount \in Int : balance' = balance + amount /\ paidIn' = paidIn + amount
    PROVE  Sums'
<1>1. TypeOK BY DEF IInv
<1>2. \A q \in OrderIds : Held(q)' = Held(q) /\ Bought(q)' = Bought(q)
  BY DEF Held, Bought, Open
<1>3. QED BY <1>1, <1>2, StillAddsUp

LEMMA RequestedAddsUp == ASSUME IInv, Sums, Requested PROVE Sums'
<1> TypeOK /\ Book BY DEF IInv
<1>1. ASSUME NEW r \in Requests, PlaceMarket(r) PROVE Sums'
  <2> DEFINE price == EntryPrice(r.side, r.symbol)
  <2>1. price \in Int BY PricesInt, Constants DEF Request
  <2>2. OrderOf(r, price) \in Order BY <2>1, OrderOfType
  <2>3. PICK o \in OrderIds : NextId(o) /\ Fill(o, OrderOf(r, price), price)
    BY <1>1 DEF PlaceMarket
  <2>4. Held(o) = 0 /\ Bought(o) = 0 BY <2>3, NothingBought DEF NextId
  <2>5. paidIn' = paidIn BY <1>1 DEF PlaceMarket
  <2> HIDE DEF price
  <2>6. QED BY <2>1, <2>2, <2>3, <2>4, <2>5, FillAddsUp
<1>2. ASSUME NEW r \in Requests, PlaceResting(r) PROVE Sums'
  <2> DEFINE order == OrderOf(r, r.price)
  <2>1. r \in Request BY Constants
  <2>2. /\ r.price \in Int /\ r.sl \in Int \cup {None} /\ r.tp \in Int \cup {None}
        /\ r.side \in Sides
    BY <1>2, <2>1 DEF PlaceResting, Request, Maybe
  <2>3. order \in Order /\ order.state = "pending" BY <2>2, OrderOfType
  <2>4. OrderSound(order)
    <3>1. r.sl # None /\ r.tp # None =>
            IF r.side = "buy" THEN r.sl < r.tp ELSE r.sl > r.tp
      BY <1>2, <2>2, SlTpValidOrdered DEF PlaceResting
    <3>2. r.type = "stop_limit" => r.limit # None BY <1>2 DEF PlaceResting
    <3>3. QED BY <3>1, <3>2 DEF OrderSound, OrderOf
  <2>5. PICK o \in OrderIds : NextId(o) /\ MaybeFill(o, order)
    BY <1>2 DEF PlaceResting
  <2>6. paidIn' = paidIn /\ orders[o] = None BY <1>2, <2>5 DEF PlaceResting, NextId
  <2> HIDE DEF order
  <2>7. QED BY <2>3, <2>4, <2>5, <2>6, TryAddsUp
<1>3. ASSUME NEW o \in OrderIds, CancelOrder(o) PROVE Sums'
  <2> DEFINE gone == [orders[o] EXCEPT !.state = "cancelled"]
  <2>1. Pending(o) /\ orders[o] \in Order BY <1>3 DEF CancelOrder, Pending, TypeOK
  <2>2. gone \in Order /\ gone.state # "filled" BY <2>1 DEF Order, OrderStates
  <2>3. orders' = [orders EXCEPT ![o] = gone] /\ UNCHANGED <<positions, account, paidIn>>
    BY <1>3 DEF CancelOrder
  <2> HIDE DEF gone
  <2>4. QED BY <2>1, <2>2, <2>3, StoringAddsUp
<1>4. ASSUME NEW o \in OrderIds, NEW volume \in 1..MaxVolume, ClosePosition(o, volume)
      PROVE  Sums'
  <2> DEFINE price == ExitPrice(positions[o].side, positions[o].symbol)
  <2>1. Open(o) /\ Settle(o, price, volume) /\ paidIn' = paidIn
    BY <1>4 DEF ClosePosition
  <2>2. price \in Int
    <3>1. positions[o].symbol \in Symbols BY <2>1 DEF Open, TypeOK, Position
    <3>2. QED BY <3>1, PricesInt
  <2> HIDE DEF price
  <2>3. QED BY <2>1, <2>2, SettleAddsUp
<1>5. ASSUME NEW o \in OrderIds, NEW c \in Changes, ModifyPosition(o, c) PROVE Sums'
  <2>1. /\ positions'[o] \in Position /\ positions'[o].volume = positions[o].volume
        /\ positions' = [positions EXCEPT ![o] = positions'[o]]
    BY <1>5, ModifyType
  <2>2. Open(o) /\ UNCHANGED <<orders, account, paidIn>> BY <1>5 DEF ModifyPosition
  <2>3. QED BY <2>1, <2>2, ChangingAddsUp
<1>6. ASSUME NEW amount \in Cash, Deposit(amount) \/ Withdraw(amount) PROVE Sums'
  <2>1. amount \in Int /\ -amount \in Int BY Constants
  <2>2. CASE Deposit(amount) BY <2>1, <2>2, SameBookAddsUp DEF Deposit
  <2>3. CASE Withdraw(amount)
    <3>1. balance' = balance + (-amount) /\ paidIn' = paidIn + (-amount)
      BY <2>1, <2>3 DEF Withdraw, TypeOK
    <3>2. QED BY <2>1, <2>3, <3>1, SameBookAddsUp DEF Withdraw
  <2>4. QED BY <1>6, <2>2, <2>3
<1>7. QED BY <1>1, <1>2, <1>3, <1>4, <1>5, <1>6 DEF Requested

LEMMA OnQuoteAddsUp == ASSUME IInv, Sums, OnQuote PROVE Sums'
<1> TypeOK /\ Book /\ SweepSound BY DEF IInv
<1>1. ASSUME NEW o \in OrderIds, SweepExpires(o) PROVE Sums'
  <2> DEFINE gone == [orders[o] EXCEPT !.state = "expired"]
  <2>1. Pending(o) /\ orders[o] \in Order
    BY <1>1 DEF SweepExpires, FirstTodo, SweepSound, Pending, TypeOK
  <2>2. gone \in Order /\ gone.state # "filled" BY <2>1 DEF Order, OrderStates
  <2>3. orders' = [orders EXCEPT ![o] = gone] /\ UNCHANGED <<positions, account, paidIn>>
    BY <1>1 DEF SweepExpires
  <2> HIDE DEF gone
  <2>4. QED BY <2>1, <2>2, <2>3, StoringAddsUp
<1>2. ASSUME NEW o \in OrderIds, SweepTries(o) PROVE Sums'
  <2>1. Pending(o) /\ orders[o] \in Order
    BY <1>2 DEF SweepTries, FirstTodo, SweepSound, Pending, TypeOK
  <2>2. OrderSound(orders[o]) BY <2>1 DEF Pending, Book, OrdersSound
  <2>3. MaybeFill(o, orders[o]) /\ paidIn' = paidIn BY <1>2 DEF SweepTries
  <2>4. QED BY <2>1, <2>2, <2>3, TryAddsUp DEF Pending
<1>3. ASSUME NEW o \in OrderIds, SweepKeeps(o) PROVE Sums'
  <2> DEFINE p == Trailed(positions[o])
  <2>1. Open(o) /\ positions[o] \in Position
    BY <1>3 DEF SweepKeeps, SweepSound, Open, TypeOK
  <2>2. p \in Position /\ p.volume = positions[o].volume BY <2>1, TrailedType
  <2>3. /\ positions' = [positions EXCEPT ![o] = p]
        /\ UNCHANGED <<orders, account, paidIn>>
    BY <1>3 DEF SweepKeeps
  <2> HIDE DEF p
  <2>4. QED BY <2>1, <2>2, <2>3, ChangingAddsUp
<1>4. ASSUME NEW o \in OrderIds, SweepCloses(o) PROVE Sums'
  <2> DEFINE p == Trailed(positions[o])
             price == IF SlHit(p) THEN p.sl ELSE p.tp
  <2>1. Open(o) /\ positions[o] \in Position
    BY <1>4 DEF SweepCloses, SweepSound, Open, TypeOK
  <2>2. p \in Position BY <2>1, TrailedType
  <2>3. Settle(o, price, p.volume) /\ (SlHit(p) \/ TpHit(p)) /\ paidIn' = paidIn
    BY <1>4 DEF SweepCloses
  <2>4. price \in Int
    <3>1. p.sl \in Int \cup {None} /\ p.tp \in Int \cup {None}
      BY <2>2 DEF Position, Maybe
    <3>2. CASE SlHit(p) BY <3>1, <3>2 DEF SlHit
    <3>3. CASE ~ SlHit(p) /\ TpHit(p) BY <3>1, <3>3 DEF TpHit
    <3>4. QED BY <2>3, <3>2, <3>3
  <2> HIDE DEF p, price
  <2>5. QED BY <2>1, <2>3, <2>4, SettleAddsUp
<1>5. CASE \/ \E s \in Symbols : BeginSweep(s)
           \/ TurnToPositions \/ EndSweep \/ Return
  BY <1>5, NoMoneyMoved, SameBookAddsUp DEF BeginSweep, TurnToPositions, EndSweep,
                                            Return, account
<1>6. QED BY <1>1, <1>2, <1>3, <1>4, <1>5 DEF OnQuote

LEMMA SumsKept == IInv /\ Sums /\ [Next]_vars => Sums'
<1> SUFFICES ASSUME IInv, Sums, [Next]_vars PROVE Sums' OBVIOUS
<1> TypeOK BY DEF IInv
<1>1. CASE UNCHANGED vars \/ Environment
  BY <1>1, NoMoneyMoved, SameBookAddsUp DEF vars, account, Environment, MarketMoves, NewDay
<1>2. QED BY <1>1, RequestedAddsUp, OnQuoteAddsUp DEF Next

LEMMA SumsAtFirst == Init => Sums
<1> SUFFICES ASSUME Init PROVE Sums OBVIOUS
<1>1. closed = <<>> /\ DOMAIN closed = {} BY DEF Init
<1>2. \A o \in OrderIds : ClosedVolume(o) = 0
  <2> DEFINE f == [i \in DOMAIN closed |-> closed[i].volume]
  <2>1. \A o \in OrderIds : {i \in DOMAIN closed : closed[i].id = o} = {} BY <1>1
  <2>2. SumFunctionOnSet(f, {}) = 0 BY SumOfNone
  <2>3. QED BY <2>1, <2>2 DEF ClosedVolume
<1>3. VolumeConserved BY <1>2 DEF Init, VolumeConserved, Open
<1>4. BookBalances
  <2> DEFINE f == [i \in DOMAIN closed |-> closed[i].gross - closed[i].swap]
  <2>1. DOMAIN f = {} BY <1>1
  <2>2. SumFunctionOnSet(f, {}) = 0 BY SumOfNone
  <2>3. SumFunction(f) = 0 BY <2>1, <2>2 DEF SumFunction
  <2> HIDE DEF f
  <2>4. balance = InitialBalance + paidIn - commissionTotal + SumFunction(f)
    BY <2>3, Constants DEF Init
  <2>5. QED BY <2>4 DEF BookBalances, f
<1>5. QED BY <1>3, <1>4 DEF Sums

LEMMA AlwaysAddsUp == Spec => []Sums
BY InvariantHolds, SumsAtFirst, SumsKept, PTL DEF Spec

(* Exposure is neither lost nor invented, over any number of partial       *)
(* closes, by whomever.                                                    *)
THEOREM VolumeAlwaysConserved == Spec => []VolumeConserved
BY AlwaysAddsUp, PTL DEF Sums

(* The balance is explained to the last fee by what was paid in, the       *)
(* trades and the fees.                                                    *)
THEOREM BookAlwaysBalances == Spec => []BookBalances
BY AlwaysAddsUp, PTL DEF Sums
=============================================================================
