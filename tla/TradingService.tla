---------------------------- MODULE TradingService ----------------------------
(***************************************************************************)
(* Requests, the market tick loop and strategies over the users' brokers:  *)
(* services/trading_service.py and the tick loop of services/broadcaster.  *)
(*                                                                         *)
(* Requests and the loop are coroutines of one event loop: what one does   *)
(* between two awaits is a step.  The awaits are the broadcasts, and a     *)
(* broadcast takes its sequence number before it first waits, so "sent"    *)
(* below is in the order of the sequence numbers.  Strategies are started  *)
(* from a worker thread and call the broker at any time.                   *)
(*                                                                         *)
(* A broker is taken for what PaperBroker implements: OrderLifecycle, with *)
(* every outcome a price can bring about as a choice.                      *)
(***************************************************************************)
EXTENDS Integers, SequencesExt

CONSTANTS
    Users,           \* the user ids
    Clients,         \* those who send requests
    StrategyUsers,   \* those who run strategies
    Tasks,           \* bound: the requests that can be in progress at once
    NSymbols,        \* the instruments: 1..NSymbols, in the order of symbols()
    SymbolOf,        \* the instrument an order id is used for
    MaxOrders,       \* bound: the order ids of each user
    Quota,           \* bound: the orders a user gets in, at most MaxOrders
    MaxVolume        \* bound: the lots of the largest order

OrderIds == 1..MaxOrders
Symbols  == 1..NSymbols

ASSUME ServiceAssumption ==
    /\ Clients \subseteq Users /\ StrategyUsers \subseteq Users
    /\ Quota \in [Users -> 0..MaxOrders]
    /\ Users # {} /\ NSymbols \in Nat \ {0} /\ MaxOrders \in Nat
    /\ MaxVolume \in Nat \ {0}
    /\ SymbolOf \in [OrderIds -> Symbols]

VARIABLES
    accounts,        \* _brokers: the users that have a broker
    status,          \* status[u][o]: the order in u's broker
    lots,            \* lots[u][o]: the open volume of the order's position
    tasks,           \* tasks[t]: what request t has left to do
    loop,            \* the tick loop, see LoopPoints
    seenStatus,      \* the order, as the events sent tell it
    untold,          \* untold[u]: positions changed after the last event of one
    unsent           \* unsent[u]: the balance changed after account.updated

vars == <<accounts, status, lots, tasks, loop, seenStatus, untold, unsent>>
book == <<status, lots>>
seen == <<seenStatus, untold, unsent>>

Status == {"unborn", "pending", "filled", "cancelled", "expired"}

(* What is left of a request: the broadcast of position.opened,            *)
(* trade.closed or account.updated is next.                                *)
NoTask == [at |-> "idle"]

TaskState == {NoTask} \cup [at : {"opened", "history", "account"},
                            user : Users, id : OrderIds]

Event == [kind : {"order.filled", "order.expired", "position.closed"},
          id : OrderIds, state : Status \cup {"rejected"}]

(* loop.todo: the users process_market(loop.symbol) has still to visit;    *)
(* loop.events: what on_quote returned for loop.user and is still to be    *)
(* broadcast.  At "opened", "history" and "account" the head is broadcast  *)
(* in part, and the point names the event type that is next.               *)
LoopPoints == {"symbols", "users", "opened", "history", "account", "dead"}

LoopState == [at : LoopPoints, symbol : Symbols, todo : SUBSET Users,
              user : Users, events : Seq(Event)]

TypeOK ==
    /\ accounts \subseteq Users
    /\ status \in [Users -> [OrderIds -> Status]]
    /\ lots \in [Users -> [OrderIds -> 0..MaxVolume]]
    /\ tasks \in [Tasks -> TaskState]
    /\ loop \in LoopState /\ loop.todo \subseteq accounts
    /\ seenStatus \in [Users -> [OrderIds -> Status \cup {"rejected"}]]
    /\ untold \in [Users -> BOOLEAN]
    /\ unsent \in [Users -> BOOLEAN]

-----------------------------------------------------------------------------
(* The events, by what is known after them.  An order event carries the    *)
(* order.  position.closed carries the trade, under an id of its own, so   *)
(* the events of the positions do not add up for one who applies them; the *)
(* client takes any of them as the word to fetch everything again, and     *)
(* only whether one was sent after the change counts.                      *)

SendOrder(u, o, state) == seenStatus' = [seenStatus EXCEPT ![u][o] = state]

SendPosition(u) == untold' = [untold EXCEPT ![u] = FALSE]

SendAccount(u) == unsent' = [unsent EXCEPT ![u] = FALSE]

PositionsChange(u) == untold' = [untold EXCEPT ![u] = TRUE]

BalanceChanges(u) == unsent' = [unsent EXCEPT ![u] = TRUE]

-----------------------------------------------------------------------------
(* The requests.  Each begins with get_broker, one call of the broker and  *)
(* the first broadcast; task t goes on after that broadcast.               *)

Idle(t) == tasks[t] = NoTask

GoOn(t, at, u, o) == tasks' = [tasks EXCEPT ![t] = [at |-> at, user |-> u, id |-> o]]

Finish(t) == tasks' = [tasks EXCEPT ![t] = NoTask]

GetBroker(u) == accounts' = accounts \cup {u}

NextId(u, o) == /\ o <= Quota[u] /\ status[u][o] = "unborn"
                /\ \A q \in 1..(o - 1) : status[u][q] # "unborn"

(* place_order of an order that fills at once. *)
PlaceFills(t, u, o, n) ==
    /\ Idle(t) /\ NextId(u, o)
    /\ GetBroker(u)
    /\ status' = [status EXCEPT ![u][o] = "filled"]
    /\ lots' = [lots EXCEPT ![u][o] = n]
    /\ PositionsChange(u) /\ BalanceChanges(u)
    /\ SendOrder(u, o, "filled")
    /\ GoOn(t, "opened", u, o)
    /\ UNCHANGED loop

(* place_order of one that rests.  If its price is there and the margin is *)
(* not, the broker returns it as rejected and keeps it as pending.  (A     *)
(* market order that is rejected is not stored and leaves nothing.)        *)
PlaceRests(t, u, o) ==
    /\ Idle(t) /\ NextId(u, o)
    /\ GetBroker(u)
    /\ status' = [status EXCEPT ![u][o] = "pending"]
    /\ \E state \in {"pending", "rejected"} : SendOrder(u, o, state)
    /\ UNCHANGED <<lots, tasks, loop, untold, unsent>>

(* Faulty variant: an order is cancelled in whatever state it is. *)
CancelAny(t, u, o) ==
    /\ Idle(t) /\ status[u][o] # "unborn"
    /\ status' = [status EXCEPT ![u][o] = "cancelled"]
    /\ SendOrder(u, o, "cancelled")
    /\ UNCHANGED <<accounts, lots, tasks, loop, untold, unsent>>

CancelOrder(t, u, o) ==
    /\ Idle(t) /\ status[u][o] = "pending"
    /\ status' = [status EXCEPT ![u][o] = "cancelled"]
    /\ SendOrder(u, o, "cancelled")
    /\ UNCHANGED <<accounts, lots, tasks, loop, untold, unsent>>

(* Faulty variant: more can be closed than is open. *)
CloseTooMuch(t, u, o, n) ==
    /\ Idle(t) /\ lots[u][o] > 0
    /\ lots' = [lots EXCEPT ![u][o] = lots[u][o] - n]
    /\ BalanceChanges(u)
    /\ SendPosition(u)
    /\ GoOn(t, "history", u, o)
    /\ UNCHANGED <<accounts, status, loop, seenStatus>>

ClosePosition(t, u, o, n) ==
    /\ Idle(t) /\ n <= lots[u][o]
    /\ lots' = [lots EXCEPT ![u][o] = lots[u][o] - n]
    /\ BalanceChanges(u)
    /\ SendPosition(u)
    /\ GoOn(t, "history", u, o)
    /\ UNCHANGED <<accounts, status, loop, seenStatus>>

ModifyPosition(t, u, o) ==
    /\ Idle(t) /\ lots[u][o] > 0
    /\ SendPosition(u)
    /\ UNCHANGED <<accounts, book, tasks, loop, seenStatus, unsent>>

(* place_order after its first broadcast: the position is looked up now,   *)
(* and if it is gone the request fails although its order filled.          *)
RequestOpened(t) ==
    LET u == tasks[t].user
        o == tasks[t].id
    IN  /\ tasks[t].at = "opened"
        /\ \/ /\ lots[u][o] > 0
              /\ SendPosition(u)
              /\ GoOn(t, "account", u, o)
           \/ /\ lots[u][o] = 0
              /\ Finish(t)
              /\ UNCHANGED untold
        /\ UNCHANGED <<accounts, book, loop, seenStatus, unsent>>

(* close_position after its first broadcast: trade.closed. *)
RequestHistory(t) ==
    /\ tasks[t].at = "history"
    /\ GoOn(t, "account", tasks[t].user, tasks[t].id)
    /\ UNCHANGED <<accounts, book, loop, seen>>

RequestAccount(t) ==
    /\ tasks[t].at = "account"
    /\ SendAccount(tasks[t].user)
    /\ Finish(t)
    /\ UNCHANGED <<accounts, book, loop, seenStatus, untold>>

-----------------------------------------------------------------------------
(* Strategies: the broker is called directly, nothing is broadcast.        *)

StrategyFills(u, o, n) ==
    /\ u \in StrategyUsers /\ NextId(u, o)
    /\ GetBroker(u)
    /\ status' = [status EXCEPT ![u][o] = "filled"]
    /\ lots' = [lots EXCEPT ![u][o] = n]
    /\ PositionsChange(u) /\ BalanceChanges(u)
    /\ UNCHANGED <<tasks, loop, seenStatus>>

StrategyCloses(u, o) ==
    /\ u \in StrategyUsers /\ lots[u][o] > 0
    /\ lots' = [lots EXCEPT ![u][o] = 0]
    /\ PositionsChange(u) /\ BalanceChanges(u)
    /\ UNCHANGED <<accounts, status, tasks, loop, seenStatus>>

-----------------------------------------------------------------------------
(* The tick loop.                                                          *)

(* Faulty variant: only one account is visited. *)
OneAccount ==
    /\ loop.at = "symbols"
    /\ loop' = [loop EXCEPT !.at = "users",
                            !.todo = {u \in accounts : u = CHOOSE v \in accounts : TRUE}]
    /\ UNCHANGED <<accounts, book, tasks, seen>>

(* process_market of the next symbol takes the brokers there are now. *)
NextSymbol ==
    /\ loop.at = "symbols"
    /\ loop' = [loop EXCEPT !.at = "users", !.todo = accounts]
    /\ UNCHANGED <<accounts, book, tasks, seen>>

(* ... and after the last of them the loop turns to the following symbol,  *)
(* from the last one, after a sleep, to the first.                         *)
EndSymbol ==
    /\ loop.at = "users" /\ loop.todo = {} /\ loop.events = <<>>
    /\ loop' = [loop EXCEPT !.at = "symbols",
                            !.symbol = IF loop.symbol = NSymbols THEN 1
                                        ELSE loop.symbol + 1]
    /\ UNCHANGED <<accounts, book, tasks, seen>>

(* A dictionary yields its keys in the order in which they were put in.    *)
Ascending(S) == {order \in [1..Cardinality(S) -> S] :
                    \A m, n \in DOMAIN order : m < n => order[m] < order[n]}

(* Faulty variant: order.expired carries the order as it was before. *)
ExpiredAsItWas(outcome, ids) ==
    [i \in DOMAIN ids |->
        LET new == outcome[ids[i]]
        IN  IF new = "expired"
            THEN [kind |-> "order.expired", id |-> ids[i], state |-> "pending"]
            ELSE [kind |-> "order.filled", id |-> ids[i], state |-> new]]

(* The orders a quote does not leave as they were. *)
Touched(outcome) == {o \in DOMAIN outcome : outcome[o] # "pending"}

(* The events on_quote returns: the orders in the order of their ids, then *)
(* the positions.                                                          *)
OrderEvents(outcome, ids) ==
    [i \in DOMAIN ids |->
        [kind  |-> IF outcome[ids[i]] = "expired" THEN "order.expired"
                   ELSE "order.filled",
         id    |-> ids[i], state |-> outcome[ids[i]]]]

CloseEvents(ids) ==
    [i \in DOMAIN ids |->
        [kind |-> "position.closed", id |-> ids[i], state |-> "filled"]]

(* The open volumes once some of u's pending orders are filled. *)
Opened(u, volume) ==
    [o \in OrderIds |-> IF o \in DOMAIN volume THEN volume[o] ELSE lots[u][o]]

(* What a quote does to u's broker, and the events that tell of it. *)
Quoted(u, outcome, volume, closed, done, ended) ==
    /\ status' = [status EXCEPT ![u] =
          [o \in OrderIds |-> IF o \in DOMAIN outcome /\ outcome[o] # "rejected"
                              THEN outcome[o] ELSE status[u][o]]]
    /\ lots' = [lots EXCEPT ![u] =
          [o \in OrderIds |-> IF o \in closed THEN 0 ELSE Opened(u, volume)[o]]]
    /\ IF DOMAIN volume \cup closed = {} THEN UNCHANGED <<untold, unsent>>
       ELSE PositionsChange(u) /\ BalanceChanges(u)
    /\ loop' = [loop EXCEPT !.todo = loop.todo \ {u}, !.user = u,
          !.events = OrderEvents(outcome, done) \o CloseEvents(ended)]

(* on_quote for one user: any of the pending orders of the symbol expire,  *)
(* fill, or are reported as filled though there is no margin for them and  *)
(* they stay pending; then any of the positions of the symbol, those just  *)
(* opened included, reach a protection.                                    *)
OnQuote(u) ==
    LET mine    == {o \in OrderIds : SymbolOf[o] = loop.symbol}
        pending == {o \in mine : status[u][o] = "pending"}
    IN  /\ loop.at = "users" /\ loop.events = <<>> /\ u \in loop.todo
        /\ \E outcome \in [pending -> {"pending", "expired", "filled", "rejected"}] :
           \E volume \in [{o \in pending : outcome[o] = "filled"} -> 1..MaxVolume] :
           \E closed \in SUBSET {o \in mine : Opened(u, volume)[o] > 0} :
           \E done \in Ascending(Touched(outcome)),
              ended \in Ascending(closed) :
                Quoted(u, outcome, volume, closed, done, ended)
        /\ UNCHANGED <<accounts, tasks, seenStatus>>

LoopGoesOn(at) == loop' = [loop EXCEPT !.at = at]

(* Faulty variant: what follows the event is dropped. *)
RestDropped == loop' = [loop EXCEPT !.at = "users", !.events = <<>>]

EventDone == loop' = [loop EXCEPT !.at = "users", !.events = Tail(loop.events)]

(* The first broadcast of an event. *)
SendEvent ==
    LET u == loop.user
        e == Head(loop.events)
    IN  /\ loop.at = "users" /\ loop.events # <<>>
        /\ \/ /\ e.kind = "order.filled"
              /\ SendOrder(u, e.id, e.state)
              /\ LoopGoesOn("opened")
              /\ UNCHANGED untold
           \/ /\ e.kind = "order.expired"
              /\ SendOrder(u, e.id, e.state)
              /\ EventDone
              /\ UNCHANGED untold
           \/ /\ e.kind = "position.closed"
              /\ SendPosition(u)
              /\ LoopGoesOn("history")
              /\ UNCHANGED seenStatus
        /\ UNCHANGED <<accounts, book, tasks, unsent>>

(* After order.filled the position is looked up; nothing catches the       *)
(* exception of an unknown one, which ends the loop for every user.        *)
LoopOpened ==
    LET u == loop.user
        o == Head(loop.events).id
    IN  /\ loop.at = "opened"
        /\ \/ /\ lots[u][o] > 0
              /\ SendPosition(u)
              /\ LoopGoesOn("account")
           \/ /\ lots[u][o] = 0
              /\ LoopGoesOn("dead")
              /\ UNCHANGED untold
        /\ UNCHANGED <<accounts, book, tasks, seenStatus, unsent>>

(* Faulty variant: no account.updated after a protection closed a position. *)
AccountForgotten ==
    /\ loop.at = "history"
    /\ EventDone
    /\ UNCHANGED <<accounts, book, tasks, seen>>

LoopHistory ==
    /\ loop.at = "history"
    /\ LoopGoesOn("account")
    /\ UNCHANGED <<accounts, book, tasks, seen>>

LoopAccount ==
    /\ loop.at = "account"
    /\ SendAccount(loop.user)
    /\ EventDone
    /\ UNCHANGED <<accounts, book, tasks, seenStatus, untold>>

-----------------------------------------------------------------------------
Init ==
    /\ accounts = {}
    /\ status = [u \in Users |-> [o \in OrderIds |-> "unborn"]]
    /\ lots = [u \in Users |-> [o \in OrderIds |-> 0]]
    /\ tasks = [t \in Tasks |-> NoTask]
    /\ loop = [at |-> "symbols", symbol |-> 1, todo |-> {},
               user |-> CHOOSE u \in Users : TRUE, events |-> <<>>]
    /\ seenStatus = status
    /\ untold = [u \in Users |-> FALSE]
    /\ unsent = [u \in Users |-> FALSE]

Request ==
    \E t \in Tasks, u \in Clients, o \in OrderIds :
        \/ PlaceRests(t, u, o) \/ CancelOrder(t, u, o) \/ ModifyPosition(t, u, o)
        \/ \E n \in 1..MaxVolume : PlaceFills(t, u, o, n) \/ ClosePosition(t, u, o, n)

Resume(t) == RequestOpened(t) \/ RequestHistory(t) \/ RequestAccount(t)

Strategy ==
    \E u \in Users, o \in OrderIds :
        \/ \E n \in 1..MaxVolume : StrategyFills(u, o, n)
        \/ StrategyCloses(u, o)

Loop ==
    \/ NextSymbol \/ EndSymbol \/ SendEvent \/ LoopOpened \/ LoopHistory \/ LoopAccount
    \/ \E u \in Users : OnQuote(u)

Next == Request \/ (\E t \in Tasks : Resume(t)) \/ Strategy \/ Loop

(* The loop's broadcasts end: a send that fails is caught, one that hangs  *)
(* fails when the server's ping gives the client up.  The event loop then  *)
(* runs the coroutine.  Nothing is assumed of requests and strategies.     *)
Fairness == WF_vars(Loop)

Spec == Init /\ [][Next]_vars /\ Fairness

-----------------------------------------------------------------------------
(* What one who follows the events may rely on.                            *)

(* Nothing about user u is on its way.  After the loop died in the middle  *)
(* of u's events that is never so again.                                   *)
Quiet(u) ==
    /\ \A t \in Tasks : tasks[t] # NoTask => tasks[t].user # u
    /\ loop.events # <<>> => loop.user # u

Followed == Users \ StrategyUsers

(* No change of a position goes unannounced: once nothing is on its way,   *)
(* an event of a position was sent after the last change, so a client that *)
(* fetches the positions on each of them has them as they are, however     *)
(* openings, partial closes and protections interleaved at the awaits, and *)
(* also when the request whose order filled finds the position gone.       *)
PositionsAnnounced ==
    \A u \in Followed : Quiet(u) => ~ untold[u]

(* The orders channel tells the state of each order, but for an order that *)
(* was reported as rejected while the broker kept it.                      *)
OrdersMirrored ==
    \A u \in Followed, o \in OrderIds : Quiet(u) =>
        \/ seenStatus[u][o] = status[u][o]
        \/ seenStatus[u][o] = "rejected" /\ status[u][o] = "pending"

(* The last account.updated was taken after the last change of the         *)
(* balance, also when the request that made the change failed because      *)
(* another one had closed its position meanwhile.                          *)
AccountFresh ==
    \A u \in Followed : Quiet(u) => ~ unsent[u]

(* No event gives an order a second end: what was seen filled, cancelled   *)
(* or expired is not seen pending again or ended otherwise, although the   *)
(* loop sends what on_quote found only later, while requests go on.  (The  *)
(* exception is a rejected fill, sent after a request cancelled the order.)*)
EndsOnce ==
    \A u \in Users, o \in OrderIds :
        seenStatus[u][o] \in {"filled", "cancelled", "expired"} =>
            seenStatus'[u][o] \in {seenStatus[u][o], "rejected"}

EndIsSeenOnce == [][EndsOnce]_vars

(* Every account's orders and protections on every symbol are tried again  *)
(* and again, whatever the clients do, as long as the loop lives.          *)
Tried(u, s) ==
    loop.at = "users" /\ loop.symbol = s /\ loop.user = u /\ u \notin loop.todo

LoopServes ==
    \A u \in Users, s \in Symbols :
        u \in accounts ~> Tried(u, s) \/ loop.at = "dead"

(* What docs/EVENT_CONTRACTS.md says of order.filled: a position.opened    *)
(* follows.                                                                *)
Sending(point, u, o) ==
    /\ loop.at = point /\ loop.user = u
    /\ Head(loop.events).kind = "order.filled" /\ Head(loop.events).id = o

OpenedFollowsFilled ==
    \A u \in Users, o \in OrderIds :
        Sending("opened", u, o) ~> Sending("account", u, o)

(* The brokers stood for here keep OrderLifecycle's promise, seen from the *)
(* calls: one on_quote may fill an order and close its position again.     *)
Orders == Users \X OrderIds

Books == INSTANCE OrderLifecycle WITH
            OrderIds <- Orders,
            status   <- [p \in Orders |-> status[p[1]][p[2]]],
            lots     <- [p \in Orders |-> lots[p[1]][p[2]]]

BrokersKeepPromise == Books!CallSpec
=============================================================================
