------------------------ MODULE TradingServiceProofs ------------------------
(***************************************************************************)
(* What TLAPS proves of TradingService for any number of users, requests,  *)
(* orders, lots and symbols.                                               *)
(***************************************************************************)
EXTENDS TradingService, FiniteSetTheorems, SequenceTheorems, TLAPS

-----------------------------------------------------------------------------
(* The inductive invariant.  What was sent may differ from the book only   *)
(* where something that is still on its way will put it right.             *)

(* The events of the loop of which nothing was broadcast yet. *)
Left == {i \in DOMAIN loop.events : loop.at = "users" \/ i > 1}

(* The event that is broadcast in part is of the kind the point is for. *)
PointOK ==
    /\ loop.at = "symbols" => loop.events = <<>>
    /\ loop.at \in LoopPoints \ {"symbols", "users"} => loop.events # <<>>
    /\ loop.at \in {"opened", "dead"} => loop.events[1].kind = "order.filled"
    /\ loop.at = "history" => loop.events[1].kind = "position.closed"

(* An order that on_quote reported as ended has ended so; only one it      *)
(* reported as rejected can change before it is sent.                      *)
Reported(e, now) ==
    \/ e.kind = "position.closed" /\ now = "filled"
    \/ e.kind = "order.expired" /\ e.state = "expired" /\ now = "expired"
    \/ e.kind = "order.filled" /\ e.state = "filled" /\ now = "filled"
    \/ e.kind = "order.filled" /\ e.state = "rejected" /\ now \in {"pending", "cancelled"}

EventsTrue ==
    \A i \in DOMAIN loop.events :
        Reported(loop.events[i], status[loop.user][loop.events[i].id])

Telling(u, o, i) ==
    loop.user = u /\ loop.events[i].kind # "position.closed" /\ loop.events[i].id = o

Ends == {"filled", "cancelled", "expired"}

(* The loop has sent a rejected fill: it will not find the position, and   *)
(* ends.                                                                   *)
Stuck(u) ==
    /\ loop.user = u /\ loop.at \in {"opened", "dead"}
    /\ loop.events[1].state = "rejected"

OrderAgrees(u, o) ==
    \/ seenStatus[u][o] = status[u][o]
    \/ seenStatus[u][o] = "rejected" /\ status[u][o] = "pending"
    \/ \E i \in Left : Telling(u, o, i)
    \/ Stuck(u)

(* Only a filled order has a position, and what was seen to end has ended  *)
(* so.  The last is true where no strategy acts unseen.                    *)
Mirror(u, o) ==
    /\ status[u][o] # "filled" => lots[u][o] = 0
    /\ seenStatus[u][o] \in Ends => seenStatus[u][o] = status[u][o]
    /\ u \in Followed => OrderAgrees(u, o)

Mirrored == \A u \in Users, o \in OrderIds : Mirror(u, o)

(* A request or the loop is going to send an event of a position, or the   *)
(* loop died before it could.                                              *)
Opening(t, u) ==
    /\ tasks[t].at = "opened" /\ tasks[t].user = u
    /\ lots[u][tasks[t].id] > 0

LoopTelling(u, i) ==
    /\ loop.user = u
    /\ \/ /\ loop.events[i].kind = "order.filled"
          /\ loop.at \in {"users", "opened", "dead"} \/ i > 1
       \/ /\ loop.events[i].kind = "position.closed"
          /\ loop.at = "users" \/ i > 1

PositionComes(u) ==
    untold[u] => \/ \E t \in Tasks : Opening(t, u)
                 \/ \E i \in DOMAIN loop.events : LoopTelling(u, i)

PositionsCome == \A u \in Followed : PositionComes(u)

(* A request or the loop is going to send account.updated. *)
Accounting(t, u) ==
    /\ tasks[t] # NoTask /\ tasks[t].user = u
    /\ tasks[t].at = "opened" => lots[u][tasks[t].id] > 0

LoopAccounting(u, i) == loop.user = u /\ loop.events[i].kind # "order.expired"

AccountComes(u) ==
    unsent[u] => \/ \E t \in Tasks : Accounting(t, u)
                 \/ \E i \in DOMAIN loop.events : LoopAccounting(u, i)

AccountsCome == \A u \in Followed : AccountComes(u)

ServiceInv ==
    TypeOK /\ PointOK /\ EventsTrue /\ Mirrored /\ PositionsCome /\ AccountsCome

-----------------------------------------------------------------------------
(* Functions of users and order ids that change in one place. *)

LEMMA Put ==
    ASSUME NEW R, NEW f \in [Users -> [OrderIds -> R]],
           NEW u \in Users, NEW o \in OrderIds, NEW x \in R,
           NEW g, g = [f EXCEPT ![u][o] = x]
    PROVE  /\ g \in [Users -> [OrderIds -> R]]
           /\ \A v \in Users, p \in OrderIds :
                g[v][p] = IF v = u /\ p = o THEN x ELSE f[v][p]
OBVIOUS

LEMMA LoopIs ==
    ASSUME TypeOK
    PROVE  /\ loop.user \in Users /\ loop.symbol \in Symbols /\ loop.todo \subseteq accounts
           /\ loop.at \in LoopPoints /\ loop.events \in Seq(Event)
           /\ \A i \in DOMAIN loop.events :
                 /\ loop.events[i] \in Event /\ loop.events[i].id \in OrderIds
                 /\ loop.events[i].kind \in {"order.filled", "order.expired",
                                             "position.closed"}
<1>1. loop \in LoopState /\ loop.todo \subseteq accounts
  BY DEF TypeOK
<1>2. \A i \in DOMAIN loop.events : loop.events[i] \in Event
  BY <1>1 DEF LoopState
<1>3. \A e \in Event : /\ e.id \in OrderIds
                       /\ e.kind \in {"order.filled", "order.expired", "position.closed"}
  BY DEF Event
<1>4. QED
  BY <1>1, <1>2, <1>3 DEF LoopState

LEMMA TaskIs ==
    ASSUME TypeOK, NEW t \in Tasks, tasks[t] # NoTask
    PROVE  /\ tasks[t].at \in {"opened", "history", "account"}
           /\ tasks[t].user \in Users /\ tasks[t].id \in OrderIds
<1>1. tasks[t] \in [at : {"opened", "history", "account"}, user : Users, id : OrderIds]
  BY DEF TypeOK, TaskState
<1>2. QED
  BY <1>1

LEMMA IdleIs ==
    ASSUME NEW t, tasks[t] = NoTask
    PROVE  /\ tasks[t].at = "idle"
           /\ \A u : ~Opening(t, u) /\ ~Accounting(t, u)
BY DEF NoTask, Opening, Accounting

(* What a step that leaves the loop and its events alone has to show. *)
LEMMA LoopStands ==
    ASSUME ServiceInv, UNCHANGED loop,
           \A u \in Users, o \in OrderIds :
              /\ status[u][o] \in {"filled", "expired"} => status'[u][o] = status[u][o]
              /\ status[u][o] \in {"pending", "cancelled"}
                    => status'[u][o] \in {"pending", "cancelled"}
    PROVE  PointOK' /\ EventsTrue'
<1>1. PointOK'
  BY DEF ServiceInv, PointOK
<1>2. ASSUME NEW i \in DOMAIN loop.events
      PROVE  Reported(loop.events[i], status'[loop.user][loop.events[i].id])
  BY <1>2, LoopIs DEF ServiceInv, EventsTrue, Reported
<1>3. QED
  BY <1>1, <1>2 DEF EventsTrue

(* Where nothing changed the mirror still is. *)
LEMMA Untouched ==
    ASSUME ServiceInv, UNCHANGED loop, NEW v \in Users, NEW p \in OrderIds,
           status'[v][p] = status[v][p], lots'[v][p] = lots[v][p],
           seenStatus'[v][p] = seenStatus[v][p]
    PROVE  Mirror(v, p)'
<1>1. Mirror(v, p) /\ Left' = Left
  BY DEF ServiceInv, Mirrored, Left
<1>2. OrderAgrees(v, p) => OrderAgrees(v, p)'
  BY <1>1 DEF OrderAgrees, Telling, Stuck
<1>3. QED
  BY <1>1, <1>2 DEF Mirror, Followed

LEMMA PositionUntouched ==
    ASSUME ServiceInv, UNCHANGED loop, NEW v \in Followed, untold'[v] => untold[v],
           \A s \in Tasks : Opening(s, v) => Opening(s, v)'
    PROVE  PositionComes(v)'
BY DEF ServiceInv, PositionsCome, PositionComes, LoopTelling

LEMMA AccountUntouched ==
    ASSUME ServiceInv, UNCHANGED loop, NEW v \in Followed, unsent'[v] = unsent[v],
           \A s \in Tasks : Accounting(s, v) => Accounting(s, v)'
    PROVE  AccountComes(v)'
BY DEF ServiceInv, AccountsCome, AccountComes, LoopAccounting

(* A step at one order leaves the others alone. *)
LEMMA OneOrder ==
    ASSUME ServiceInv, UNCHANGED loop, NEW u \in Users, NEW o \in OrderIds,
           \A v \in Users, p \in OrderIds : ~(v = u /\ p = o) =>
              /\ status'[v][p] = status[v][p] /\ lots'[v][p] = lots[v][p]
              /\ seenStatus'[v][p] = seenStatus[v][p],
           Mirror(u, o)'
    PROVE  Mirrored'
<1>1. ASSUME NEW v \in Users, NEW p \in OrderIds, ~(v = u /\ p = o)
      PROVE  Mirror(v, p)'
  BY <1>1, Untouched
<1>2. QED
  BY <1>1 DEF Mirrored

(* Only a filled order has a position. *)
LEMMA NoPosition ==
    ASSUME ServiceInv, NEW u \in Users, NEW o \in OrderIds
    PROVE  /\ status[u][o] # "filled" => lots[u][o] = 0
           /\ lots[u][o] > 0 => status[u][o] = "filled"
<1>1. lots[u][o] \in Nat
  BY ServiceAssumption DEF ServiceInv, TypeOK
<1>2. QED
  BY <1>1 DEF ServiceInv, Mirrored, Mirror

LEMMA PlaceFillsKeeps ==
    ASSUME ServiceInv, NEW t \in Tasks, NEW u \in Clients, NEW o \in OrderIds,
           NEW n \in 1..MaxVolume, PlaceFills(t, u, o, n)
    PROVE  ServiceInv' /\ EndsOnce
<1>1. /\ u \in Users /\ n \in 0..MaxVolume /\ n > 0
      /\ tasks[t] = NoTask /\ status[u][o] = "unborn" /\ UNCHANGED loop
      /\ TypeOK
  BY ServiceAssumption DEF PlaceFills, Idle, NextId, ServiceInv
<1>2. /\ status' \in [Users -> [OrderIds -> Status]]
      /\ \A v \in Users, p \in OrderIds :
           status'[v][p] = IF v = u /\ p = o THEN "filled" ELSE status[v][p]
  BY <1>1, Put DEF PlaceFills, TypeOK, Status
<1>3. /\ lots' \in [Users -> [OrderIds -> 0..MaxVolume]]
      /\ \A v \in Users, p \in OrderIds :
           lots'[v][p] = IF v = u /\ p = o THEN n ELSE lots[v][p]
  BY <1>1, Put DEF PlaceFills, TypeOK
<1>4. /\ seenStatus' \in [Users -> [OrderIds -> Status \cup {"rejected"}]]
      /\ \A v \in Users, p \in OrderIds :
           seenStatus'[v][p] = IF v = u /\ p = o THEN "filled" ELSE seenStatus[v][p]
  BY <1>1, Put DEF PlaceFills, TypeOK, Status, SendOrder
<1>5. /\ tasks' \in [Tasks -> TaskState]
      /\ tasks'[t] = [at |-> "opened", user |-> u, id |-> o]
      /\ \A s \in Tasks \ {t} : tasks'[s] = tasks[s]
  BY <1>1 DEF PlaceFills, TypeOK, TaskState, GoOn
<1>6. TypeOK'
  BY <1>1, <1>2, <1>3, <1>4, <1>5
     DEF TypeOK, PlaceFills, GetBroker, PositionsChange, BalanceChanges
<1>7. PointOK' /\ EventsTrue'
  BY <1>1, <1>2, LoopStands DEF Status
<1>8. EndsOnce
  BY <1>1, <1>2, <1>4 DEF ServiceInv, Mirrored, Mirror, EndsOnce, Ends
<1>9. \A s \in Tasks, v \in Users : /\ Opening(s, v) => s # t
                                    /\ Accounting(s, v) => s # t
  BY <1>1, IdleIs
<1>10. Mirror(u, o)'
  <2>1. OrderAgrees(u, o)'
    BY <1>1, <1>2, <1>4 DEF OrderAgrees
  <2>2. QED
    BY <1>1, <1>2, <1>4, <2>1 DEF Mirror
<1>11. Mirrored'
  BY <1>1, <1>2, <1>3, <1>4, <1>10, OneOrder
<1>12. AccountsCome'
  <2>1. Accounting(t, u)'
    BY <1>1, <1>3, <1>5 DEF Accounting, NoTask
  <2>2. ASSUME NEW v \in Followed \ {u}
        PROVE  AccountComes(v)'
    <3>1. \A s \in Tasks : Accounting(s, v) => Accounting(s, v)'
      BY <1>1, <1>3, <1>5, <1>9, <2>2, TaskIs DEF Accounting, Followed
    <3>2. unsent'[v] = unsent[v]
      BY <1>1, <2>2 DEF PlaceFills, BalanceChanges, TypeOK, Followed
    <3>3. QED
      BY <1>1, <2>2, <3>1, <3>2, AccountUntouched
  <2>3. QED
    BY <2>1, <2>2 DEF AccountsCome, AccountComes, Followed
<1>13. PositionsCome'
  <2>1. Opening(t, u)'
    BY <1>1, <1>3, <1>5 DEF Opening
  <2>2. ASSUME NEW v \in Followed \ {u}
        PROVE  PositionComes(v)'
    <3>1. \A s \in Tasks : Opening(s, v) => Opening(s, v)'
      BY <1>1, <1>3, <1>5, <1>9, <2>2, TaskIs DEF Opening, Followed, NoTask
    <3>2. untold'[v] = untold[v]
      BY <1>1, <2>2 DEF PlaceFills, PositionsChange, TypeOK, Followed
    <3>3. QED
      BY <1>1, <2>2, <3>1, <3>2, PositionUntouched
  <2>3. QED
    BY <2>1, <2>2 DEF PositionsCome, PositionComes, Followed
<1>14. QED
  BY <1>6, <1>7, <1>8, <1>11, <1>12, <1>13 DEF ServiceInv

LEMMA PlaceRestsKeeps ==
    ASSUME ServiceInv, NEW t \in Tasks, NEW u \in Clients, NEW o \in OrderIds,
           PlaceRests(t, u, o)
    PROVE  ServiceInv' /\ EndsOnce
<1>1. /\ u \in Users /\ status[u][o] = "unborn" /\ TypeOK
      /\ UNCHANGED <<lots, tasks, loop, untold, unsent>>
  BY ServiceAssumption DEF PlaceRests, NextId, ServiceInv
<1>2. PICK state \in {"pending", "rejected"} : SendOrder(u, o, state)
  BY DEF PlaceRests
<1>3. /\ status' \in [Users -> [OrderIds -> Status]]
      /\ \A v \in Users, p \in OrderIds :
           status'[v][p] = IF v = u /\ p = o THEN "pending" ELSE status[v][p]
  BY <1>1, Put DEF PlaceRests, TypeOK, Status
<1>4. /\ seenStatus' \in [Users -> [OrderIds -> Status \cup {"rejected"}]]
      /\ \A v \in Users, p \in OrderIds :
           seenStatus'[v][p] = IF v = u /\ p = o THEN state ELSE seenStatus[v][p]
  BY <1>1, <1>2, Put DEF TypeOK, Status, SendOrder
<1>5. TypeOK'
  BY <1>1, <1>3, <1>4 DEF TypeOK, PlaceRests, GetBroker
<1>6. PointOK' /\ EventsTrue'
  BY <1>1, <1>3, LoopStands DEF Status
<1>7. EndsOnce
  BY <1>1, <1>3, <1>4 DEF ServiceInv, Mirrored, Mirror, EndsOnce, Ends
<1>8. Mirror(u, o)'
  BY <1>1, <1>3, <1>4, NoPosition DEF Mirror, OrderAgrees, Ends
<1>9. Mirrored'
  BY <1>1, <1>3, <1>4, <1>8, OneOrder
<1>10. AccountsCome'
  BY <1>1 DEF ServiceInv, AccountsCome, AccountComes, LoopAccounting, Accounting
<1>11. PositionsCome'
  BY <1>1 DEF ServiceInv, PositionsCome, PositionComes, LoopTelling, Opening
<1>12. QED
  BY <1>5, <1>6, <1>7, <1>9, <1>10, <1>11 DEF ServiceInv

LEMMA CancelOrderKeeps ==
    ASSUME ServiceInv, NEW t \in Tasks, NEW u \in Clients, NEW o \in OrderIds,
           CancelOrder(t, u, o)
    PROVE  ServiceInv' /\ EndsOnce
<1>1. /\ u \in Users /\ status[u][o] = "pending" /\ TypeOK
      /\ UNCHANGED <<accounts, lots, tasks, loop, untold, unsent>>
  BY ServiceAssumption DEF CancelOrder, ServiceInv
<1>2. /\ status' \in [Users -> [OrderIds -> Status]]
      /\ \A v \in Users, p \in OrderIds :
           status'[v][p] = IF v = u /\ p = o THEN "cancelled" ELSE status[v][p]
  BY <1>1, Put DEF CancelOrder, TypeOK, Status
<1>3. /\ seenStatus' \in [Users -> [OrderIds -> Status \cup {"rejected"}]]
      /\ \A v \in Users, p \in OrderIds :
           seenStatus'[v][p] = IF v = u /\ p = o THEN "cancelled" ELSE seenStatus[v][p]
  BY <1>1, Put DEF CancelOrder, TypeOK, Status, SendOrder
<1>4. TypeOK'
  BY <1>1, <1>2, <1>3 DEF TypeOK
<1>5. PointOK' /\ EventsTrue'
  BY <1>1, <1>2, LoopStands
<1>6. EndsOnce
  BY <1>1, <1>2, <1>3 DEF ServiceInv, Mirrored, Mirror, EndsOnce, Ends
<1>7. Mirror(u, o)'
  BY <1>1, <1>2, <1>3, NoPosition DEF Mirror, OrderAgrees, Ends
<1>8. Mirrored'
  BY <1>1, <1>2, <1>3, <1>7, OneOrder
<1>9. AccountsCome'
  BY <1>1 DEF ServiceInv, AccountsCome, AccountComes, LoopAccounting, Accounting
<1>10. PositionsCome'
  BY <1>1 DEF ServiceInv, PositionsCome, PositionComes, LoopTelling, Opening
<1>11. QED
  BY <1>4, <1>5, <1>6, <1>8, <1>9, <1>10 DEF ServiceInv

LEMMA ClosePositionKeeps ==
    ASSUME ServiceInv, NEW t \in Tasks, NEW u \in Clients, NEW o \in OrderIds,
           NEW n \in 1..MaxVolume, ClosePosition(t, u, o, n)
    PROVE  ServiceInv' /\ EndsOnce
<1>1. /\ u \in Users /\ n \in Nat /\ n > 0 /\ n <= lots[u][o] /\ tasks[t] = NoTask
      /\ lots[u][o] \in Nat /\ lots[u][o] \in 0..MaxVolume /\ TypeOK
      /\ UNCHANGED <<accounts, status, loop, seenStatus>>
  BY ServiceAssumption DEF ClosePosition, Idle, ServiceInv, TypeOK
<1>2. /\ lots' \in [Users -> [OrderIds -> 0..MaxVolume]]
      /\ \A v \in Users, p \in OrderIds :
           lots'[v][p] = IF v = u /\ p = o THEN lots[u][o] - n ELSE lots[v][p]
  <2>1. lots[u][o] - n \in 0..MaxVolume
    BY <1>1, ServiceAssumption
  <2>2. QED
    BY <1>1, <2>1, Put DEF ClosePosition, TypeOK
<1>3. untold' = [untold EXCEPT ![u] = FALSE]
  BY DEF ClosePosition, SendPosition
<1>4. /\ tasks' \in [Tasks -> TaskState]
      /\ tasks'[t] = [at |-> "history", user |-> u, id |-> o]
      /\ \A s \in Tasks \ {t} : tasks'[s] = tasks[s]
  BY <1>1 DEF ClosePosition, TypeOK, TaskState, GoOn
<1>5. TypeOK'
  BY <1>1, <1>2, <1>3, <1>4 DEF TypeOK, ClosePosition, BalanceChanges
<1>6. PointOK' /\ EventsTrue'
  BY <1>1, LoopStands
<1>7. EndsOnce
  BY <1>1 DEF EndsOnce
<1>8. \A s \in Tasks, v \in Users : /\ Opening(s, v) => s # t
                                    /\ Accounting(s, v) => s # t
  BY <1>1, IdleIs
<1>9. Mirror(u, o)'
  <2>1. Mirror(u, o) /\ status[u][o] = "filled"
    BY <1>1, NoPosition DEF ServiceInv, Mirrored
  <2>2. OrderAgrees(u, o) => OrderAgrees(u, o)'
    BY <1>1 DEF OrderAgrees, Left, Telling, Stuck
  <2>3. QED
    BY <1>1, <2>1, <2>2 DEF Mirror, Followed
<1>10. Mirrored'
  BY <1>1, <1>2, <1>9, OneOrder
<1>11. PositionsCome'
  <2>1. ASSUME NEW v \in Followed \ {u}
        PROVE  PositionComes(v)'
    <3>1. \A s \in Tasks : Opening(s, v) => Opening(s, v)'
      BY <1>1, <1>2, <1>4, <1>8, <2>1, TaskIs DEF Opening, Followed, NoTask
    <3>2. untold'[v] = untold[v]
      BY <1>1, <1>3, <2>1 DEF TypeOK, Followed
    <3>3. QED
      BY <1>1, <2>1, <3>1, <3>2, PositionUntouched
  <2>2. QED
    BY <1>1, <1>3, <2>1 DEF PositionsCome, PositionComes, Followed, TypeOK
<1>12. AccountsCome'
  <2>1. Accounting(t, u)'
    BY <1>1, <1>4 DEF Accounting, NoTask
  <2>2. ASSUME NEW v \in Followed \ {u}
        PROVE  AccountComes(v)'
    <3>1. \A s \in Tasks : Accounting(s, v) => Accounting(s, v)'
      BY <1>1, <1>2, <1>4, <1>8, <2>2, TaskIs DEF Accounting, Followed
    <3>2. unsent'[v] = unsent[v]
      BY <1>1, <2>2 DEF ClosePosition, BalanceChanges, TypeOK, Followed
    <3>3. QED
      BY <1>1, <2>2, <3>1, <3>2, AccountUntouched
  <2>3. QED
    BY <2>1, <2>2 DEF AccountsCome, AccountComes, Followed
<1>13. QED
  BY <1>5, <1>6, <1>7, <1>10, <1>11, <1>12 DEF ServiceInv

LEMMA ModifyPositionKeeps ==
    ASSUME ServiceInv, NEW t \in Tasks, NEW u \in Clients, NEW o \in OrderIds,
           ModifyPosition(t, u, o)
    PROVE  ServiceInv' /\ EndsOnce
<1>1. /\ u \in Users /\ lots[u][o] > 0 /\ TypeOK
      /\ UNCHANGED <<accounts, status, lots, tasks, loop, seenStatus, unsent>>
  BY ServiceAssumption DEF ModifyPosition, ServiceInv, book
<1>2. untold' = [untold EXCEPT ![u] = FALSE]
  BY DEF ModifyPosition, SendPosition
<1>3. TypeOK' /\ PointOK' /\ EventsTrue' /\ EndsOnce
  BY <1>1, <1>2, LoopStands DEF TypeOK, EndsOnce
<1>4. Mirrored'
  BY <1>1, Untouched DEF Mirrored
<1>5. PositionsCome'
  BY <1>1, <1>2, PositionUntouched DEF PositionsCome, Opening, TypeOK, Followed
<1>6. AccountsCome'
  BY <1>1 DEF ServiceInv, AccountsCome, AccountComes, LoopAccounting, Accounting
<1>7. QED
  BY <1>3, <1>4, <1>5, <1>6 DEF ServiceInv

-----------------------------------------------------------------------------
(* Requests that go on, and strategies. *)

LEMMA RequestOpenedKeeps ==
    ASSUME ServiceInv, NEW t \in Tasks, RequestOpened(t)
    PROVE  ServiceInv' /\ EndsOnce
<1>1. TypeOK /\ tasks[t].at = "opened" /\ tasks[t] # NoTask
  BY DEF ServiceInv, RequestOpened, NoTask
<1>2. PICK u \in Users, o \in OrderIds : u = tasks[t].user /\ o = tasks[t].id
  BY <1>1, TaskIs
<1>3. UNCHANGED <<accounts, status, lots, loop, seenStatus, unsent>>
  BY DEF RequestOpened, book
<1>4. lots[u][o] \in 0..MaxVolume /\ lots[u][o] \in Nat
  BY <1>1, ServiceAssumption DEF TypeOK
<1>5. /\ \A s \in Tasks \ {t} : tasks'[s] = tasks[s]
      /\ TypeOK'
      /\ \A v \in Followed : PositionComes(v)' /\ AccountComes(v)'
  <2>1. CASE lots[u][o] > 0
    <3>1. SendPosition(u) /\ GoOn(t, "account", u, o)
      BY <1>2, <2>1 DEF RequestOpened
    <3>2. /\ tasks' \in [Tasks -> TaskState]
          /\ tasks'[t] = [at |-> "account", user |-> u, id |-> o]
          /\ \A s \in Tasks \ {t} : tasks'[s] = tasks[s]
      BY <1>1, <1>2, <3>1 DEF TypeOK, TaskState, GoOn
    <3>3. untold' = [untold EXCEPT ![u] = FALSE]
      BY <3>1 DEF SendPosition
    <3>4. TypeOK'
      BY <1>1, <1>3, <3>2, <3>3 DEF TypeOK
    <3>5. ASSUME NEW v \in Followed
          PROVE  PositionComes(v)'
      <4>1. CASE v = u
        BY <1>1, <3>3, <4>1 DEF PositionComes, TypeOK
      <4>2. CASE v # u
        <5>1. \A s \in Tasks : Opening(s, v) => Opening(s, v)'
          BY <1>2, <1>3, <3>2, <4>2 DEF Opening
        <5>2. untold'[v] = untold[v]
          BY <1>1, <3>3, <4>2 DEF TypeOK, Followed
        <5>3. QED
          BY <1>3, <3>5, <5>1, <5>2, PositionUntouched
      <4>3. QED
        BY <4>1, <4>2
    <3>6. ASSUME NEW v \in Followed
          PROVE  AccountComes(v)'
      <4>1. Accounting(t, u)'
        BY <1>2, <3>2 DEF Accounting, NoTask
      <4>2. \A s \in Tasks : Accounting(s, v) => Accounting(s, v)'
        BY <1>2, <1>3, <3>2, <4>1 DEF Accounting
      <4>3. QED
        BY <1>3, <3>6, <4>2, AccountUntouched
    <3>7. QED
      BY <3>2, <3>4, <3>5, <3>6
  <2>2. CASE lots[u][o] = 0
    <3>1. Finish(t) /\ UNCHANGED untold
      BY <1>2, <2>2 DEF RequestOpened
    <3>2. /\ tasks' \in [Tasks -> TaskState] /\ tasks'[t] = NoTask
          /\ \A s \in Tasks \ {t} : tasks'[s] = tasks[s]
      BY <1>1, <3>1 DEF TypeOK, TaskState, Finish
    <3>3. TypeOK'
      BY <1>1, <1>3, <3>1, <3>2 DEF TypeOK
    <3>4. ASSUME NEW v \in Followed
          PROVE  PositionComes(v)' /\ AccountComes(v)'
      <4>1. \A s \in Tasks : Opening(s, v) \/ Accounting(s, v) => s # t
        BY <1>1, <1>2, <1>4, <2>2 DEF Opening, Accounting
      <4>2. \A s \in Tasks : /\ Opening(s, v) => Opening(s, v)'
                             /\ Accounting(s, v) => Accounting(s, v)'
        BY <1>3, <3>2, <4>1 DEF Opening, Accounting
      <4>3. QED
        BY <1>3, <3>1, <3>4, <4>2, PositionUntouched, AccountUntouched
    <3>5. QED
      BY <3>2, <3>3, <3>4
  <2>3. QED
    BY <1>4, <2>1, <2>2
<1>6. PointOK' /\ EventsTrue' /\ EndsOnce
  BY <1>1, <1>3, LoopStands DEF EndsOnce
<1>7. Mirrored'
  BY <1>3, Untouched DEF Mirrored
<1>8. QED
  BY <1>5, <1>6, <1>7 DEF ServiceInv, PositionsCome, AccountsCome, Followed

LEMMA RequestHistoryKeeps ==
    ASSUME ServiceInv, NEW t \in Tasks, RequestHistory(t)
    PROVE  ServiceInv' /\ EndsOnce
<1>1. /\ TypeOK /\ tasks[t].at = "history" /\ tasks[t] # NoTask
      /\ UNCHANGED <<accounts, status, lots, loop, seenStatus, untold, unsent>>
  BY DEF ServiceInv, RequestHistory, NoTask, book, seen
<1>2. /\ tasks' \in [Tasks -> TaskState]
      /\ tasks'[t].at = "account" /\ tasks'[t].user = tasks[t].user /\ tasks'[t] # NoTask
      /\ \A s \in Tasks \ {t} : tasks'[s] = tasks[s]
  BY <1>1, TaskIs DEF TypeOK, TaskState, GoOn, RequestHistory, NoTask
<1>3. TypeOK' /\ PointOK' /\ EventsTrue' /\ EndsOnce
  BY <1>1, <1>2, LoopStands DEF TypeOK, EndsOnce
<1>4. \A s \in Tasks, v \in Users : Opening(s, v) => Opening(s, v)'
  BY <1>1, <1>2 DEF Opening
<1>5. Mirrored' /\ PositionsCome'
  BY <1>1, <1>4, Untouched, PositionUntouched DEF Mirrored, PositionsCome, Followed
<1>6. \A s \in Tasks, v \in Users : Accounting(s, v) => Accounting(s, v)'
  BY <1>1, <1>2 DEF Accounting
<1>7. AccountsCome'
  BY <1>1, <1>6, AccountUntouched DEF AccountsCome, Followed
<1>8. QED
  BY <1>3, <1>5, <1>7 DEF ServiceInv

LEMMA RequestAccountKeeps ==
    ASSUME ServiceInv, NEW t \in Tasks, RequestAccount(t)
    PROVE  ServiceInv' /\ EndsOnce
<1>1. /\ TypeOK /\ tasks[t].at = "account" /\ tasks[t] # NoTask
      /\ UNCHANGED <<accounts, status, lots, loop, seenStatus, untold>>
  BY DEF ServiceInv, RequestAccount, NoTask, book
<1>2. PICK u \in Users : u = tasks[t].user
  BY <1>1, TaskIs
<1>3. /\ tasks' \in [Tasks -> TaskState]
      /\ \A s \in Tasks \ {t} : tasks'[s] = tasks[s]
  BY <1>1 DEF TypeOK, TaskState, Finish, RequestAccount
<1>4. unsent' = [unsent EXCEPT ![u] = FALSE]
  BY <1>2 DEF RequestAccount, SendAccount
<1>5. TypeOK' /\ PointOK' /\ EventsTrue' /\ EndsOnce
  BY <1>1, <1>3, <1>4, LoopStands DEF TypeOK, EndsOnce
<1>6. \A s \in Tasks, v \in Users : Opening(s, v) => Opening(s, v)'
  BY <1>1, <1>3 DEF Opening
<1>7. Mirrored' /\ PositionsCome'
  BY <1>1, <1>6, Untouched, PositionUntouched DEF Mirrored, PositionsCome, Followed
<1>8. ASSUME NEW v \in Followed
      PROVE  AccountComes(v)'
  <2>1. CASE v = u
    BY <1>1, <1>4, <2>1 DEF AccountComes, TypeOK
  <2>2. CASE v # u
    <3>1. \A s \in Tasks : Accounting(s, v) => Accounting(s, v)'
      BY <1>1, <1>2, <1>3, <2>2 DEF Accounting
    <3>2. unsent'[v] = unsent[v]
      BY <1>1, <1>4, <2>2 DEF TypeOK, Followed
    <3>3. QED
      BY <1>1, <1>8, <3>1, <3>2, AccountUntouched
  <2>3. QED
    BY <2>1, <2>2
<1>9. QED
  BY <1>5, <1>7, <1>8 DEF ServiceInv, AccountsCome, Followed

LEMMA StrategyFillsKeeps ==
    ASSUME ServiceInv, NEW u \in Users, NEW o \in OrderIds, NEW n \in 1..MaxVolume,
           StrategyFills(u, o, n)
    PROVE  ServiceInv' /\ EndsOnce
<1>1. /\ n \in 0..MaxVolume /\ u \notin Followed /\ status[u][o] = "unborn" /\ TypeOK
      /\ UNCHANGED <<tasks, loop, seenStatus>>
  BY ServiceAssumption DEF StrategyFills, NextId, ServiceInv, Followed
<1>2. /\ status' \in [Users -> [OrderIds -> Status]]
      /\ \A v \in Users, p \in OrderIds :
           status'[v][p] = IF v = u /\ p = o THEN "filled" ELSE status[v][p]
  BY <1>1, Put DEF StrategyFills, TypeOK, Status
<1>3. /\ lots' \in [Users -> [OrderIds -> 0..MaxVolume]]
      /\ \A v \in Users, p \in OrderIds :
           lots'[v][p] = IF v = u /\ p = o THEN n ELSE lots[v][p]
  BY <1>1, Put DEF StrategyFills, TypeOK
<1>4. TypeOK'
  BY <1>1, <1>2, <1>3
     DEF TypeOK, StrategyFills, GetBroker, PositionsChange, BalanceChanges
<1>5. PointOK' /\ EventsTrue' /\ EndsOnce
  BY <1>1, <1>2, LoopStands DEF Status, EndsOnce
<1>6. Mirror(u, o)'
  BY <1>1, <1>2 DEF ServiceInv, Mirrored, Mirror, Ends, Followed
<1>7. Mirrored'
  BY <1>1, <1>2, <1>3, <1>6, OneOrder
<1>8. ASSUME NEW v \in Followed
      PROVE  PositionComes(v)' /\ AccountComes(v)'
  <2>1. v # u /\ v \in Users
    BY <1>1 DEF Followed
  <2>2. \A s \in Tasks : /\ Opening(s, v) => Opening(s, v)'
                         /\ Accounting(s, v) => Accounting(s, v)'
    BY <1>1, <1>3, <2>1, TaskIs DEF Opening, Accounting, NoTask
  <2>3. untold'[v] = untold[v] /\ unsent'[v] = unsent[v]
    BY <1>1, <2>1 DEF StrategyFills, PositionsChange, BalanceChanges, TypeOK
  <2>4. QED
    BY <1>1, <1>8, <2>2, <2>3, PositionUntouched, AccountUntouched
<1>9. QED
  BY <1>4, <1>5, <1>7, <1>8 DEF ServiceInv, PositionsCome, AccountsCome, Followed

LEMMA StrategyClosesKeeps ==
    ASSUME ServiceInv, NEW u \in Users, NEW o \in OrderIds, StrategyCloses(u, o)
    PROVE  ServiceInv' /\ EndsOnce
<1>1. /\ u \notin Followed /\ lots[u][o] > 0 /\ TypeOK /\ 0 \in 0..MaxVolume
      /\ UNCHANGED <<accounts, status, tasks, loop, seenStatus>>
  BY ServiceAssumption DEF StrategyCloses, ServiceInv, Followed
<1>2. /\ lots' \in [Users -> [OrderIds -> 0..MaxVolume]]
      /\ \A v \in Users, p \in OrderIds :
           lots'[v][p] = IF v = u /\ p = o THEN 0 ELSE lots[v][p]
  BY <1>1, Put DEF StrategyCloses, TypeOK
<1>3. TypeOK'
  BY <1>1, <1>2 DEF TypeOK, StrategyCloses, PositionsChange, BalanceChanges
<1>4. PointOK' /\ EventsTrue' /\ EndsOnce
  BY <1>1, LoopStands DEF EndsOnce
<1>5. Mirror(u, o)'
  BY <1>1, <1>2 DEF ServiceInv, Mirrored, Mirror, Ends, Followed
<1>6. Mirrored'
  BY <1>1, <1>2, <1>5, OneOrder
<1>7. ASSUME NEW v \in Followed
      PROVE  PositionComes(v)' /\ AccountComes(v)'
  <2>1. v # u /\ v \in Users
    BY <1>1 DEF Followed
  <2>2. \A s \in Tasks : /\ Opening(s, v) => Opening(s, v)'
                         /\ Accounting(s, v) => Accounting(s, v)'
    BY <1>1, <1>2, <2>1, TaskIs DEF Opening, Accounting, NoTask
  <2>3. untold'[v] = untold[v] /\ unsent'[v] = unsent[v]
    BY <1>1, <2>1 DEF StrategyCloses, PositionsChange, BalanceChanges, TypeOK
  <2>4. QED
    BY <1>1, <1>7, <2>2, <2>3, PositionUntouched, AccountUntouched
<1>8. QED
  BY <1>3, <1>4, <1>6, <1>7 DEF ServiceInv, PositionsCome, AccountsCome, Followed

-----------------------------------------------------------------------------
(* The loop.  A broadcast takes the head off what is left; the rest stays. *)

Rest ==
    /\ loop' \in LoopState /\ loop'.todo \subseteq accounts /\ loop'.user = loop.user
    /\ \A i \in DOMAIN loop.events : i > 1 => \E j \in Left' : loop'.events[j] = loop.events[i]
    /\ \A j \in Left' : \E i \in DOMAIN loop.events : i > 1 /\ loop'.events[j] = loop.events[i]
    /\ \A j \in DOMAIN loop'.events : \E i \in DOMAIN loop.events :
            loop'.events[j] = loop.events[i]

LEMMA GoesOn ==
    ASSUME ServiceInv, NEW at \in LoopPoints \ {"users", "symbols"}, LoopGoesOn(at),
           UNCHANGED accounts
    PROVE  Rest /\ loop'.at = at /\ loop'.events = loop.events
<1>1. /\ loop' \in LoopState /\ loop'.at = at /\ loop'.events = loop.events
      /\ loop'.user = loop.user /\ loop'.todo = loop.todo
  BY DEF ServiceInv, TypeOK, LoopState, LoopGoesOn
<1>2. Left' = {i \in DOMAIN loop.events : i > 1}
  BY <1>1 DEF Left
<1>3. QED
  BY <1>1, <1>2 DEF Rest, ServiceInv, TypeOK

LEMMA DoneIs ==
    ASSUME ServiceInv, EventDone, UNCHANGED accounts, loop.events # <<>>
    PROVE  Rest /\ loop'.at = "users"
<1>1. loop.events \in Seq(Event) /\ loop \in LoopState
  BY LoopIs DEF ServiceInv, TypeOK
<1>2. /\ loop'.at = "users" /\ loop'.events = Tail(loop.events)
      /\ loop'.user = loop.user /\ loop'.todo = loop.todo /\ loop'.symbol = loop.symbol
  BY <1>1 DEF EventDone, LoopState
<1>3. PICK n \in Nat : n = Len(loop.events)
  BY <1>1
<1>4. n >= 1 /\ DOMAIN loop.events = 1..n
  BY <1>1, <1>3
<1>5. /\ Tail(loop.events) \in Seq(Event) /\ Len(Tail(loop.events)) = n - 1
      /\ DOMAIN Tail(loop.events) = 1..(n - 1)
      /\ \A j \in 1..(n - 1) : Tail(loop.events)[j] = loop.events[j + 1]
  BY <1>1, <1>3, <1>4
<1>6. loop' \in LoopState
  BY <1>1, <1>2, <1>5 DEF EventDone, LoopState, LoopPoints
<1>7. Left' = 1..(n - 1) /\ DOMAIN loop'.events = 1..(n - 1)
  BY <1>2, <1>5 DEF Left
<1>8. ASSUME NEW i \in 1..n, i > 1
      PROVE  \E j \in 1..(n - 1) : loop'.events[j] = loop.events[i]
  <2>1. i - 1 \in 1..(n - 1) /\ (i - 1) + 1 = i
    BY <1>8
  <2>2. QED
    BY <1>2, <1>5, <2>1
<1>9. ASSUME NEW j \in 1..(n - 1)
      PROVE  \E i \in 1..n : i > 1 /\ loop'.events[j] = loop.events[i]
  <2>1. j + 1 \in 1..n /\ j + 1 > 1
    BY <1>9
  <2>2. QED
    BY <1>2, <1>5, <1>9, <2>1
<1>10. \A i \in DOMAIN loop.events : i > 1 =>
            \E j \in Left' : loop'.events[j] = loop.events[i]
  BY <1>4, <1>7, <1>8
<1>11. \A j \in Left' : \E i \in DOMAIN loop.events : i > 1 /\ loop'.events[j] = loop.events[i]
  BY <1>4, <1>7, <1>9
<1>12. QED
  BY <1>2, <1>6, <1>7, <1>10, <1>11 DEF Rest, ServiceInv, TypeOK

LEMMA Later ==
    ASSUME TypeOK, NEW i \in DOMAIN loop.events, i # 1
    PROVE  i > 1
BY LoopIs

LEMMA OrdersOn ==
    ASSUME TypeOK, Rest, NEW v \in Users, NEW p \in OrderIds, OrderAgrees(v, p),
           status'[v][p] = status[v][p], seenStatus'[v][p] = seenStatus[v][p],
           1 \in Left => ~Telling(v, p, 1), Stuck(v) => Stuck(v)'
    PROVE  OrderAgrees(v, p)'
<1>1. ASSUME NEW i \in Left, Telling(v, p, i)
      PROVE  \E j \in Left' : Telling(v, p, j)'
  <2>1. i \in DOMAIN loop.events /\ i > 1
    BY <1>1, Later DEF Left
  <2>2. PICK j \in Left' : loop'.events[j] = loop.events[i]
    BY <2>1 DEF Rest
  <2>3. Telling(v, p, j)'
    BY <1>1, <2>2 DEF Rest, Telling
  <2>4. QED
    BY <2>3
<1>2. QED
  BY <1>1 DEF OrderAgrees

LEMMA PositionOn ==
    ASSUME TypeOK, Rest, NEW v \in Followed, PositionComes(v), UNCHANGED <<tasks, lots>>,
           untold'[v] => untold[v],
           untold'[v] /\ LoopTelling(v, 1) =>
              1 \in DOMAIN loop'.events /\ LoopTelling(v, 1)'
    PROVE  PositionComes(v)'
<1>1. ASSUME NEW i \in DOMAIN loop.events, LoopTelling(v, i), untold'[v]
      PROVE  \E j \in DOMAIN loop'.events : LoopTelling(v, j)'
  <2>1. CASE i = 1
    BY <1>1, <2>1
  <2>2. CASE i # 1
    <3>1. i > 1
      BY <2>2, Later
    <3>2. PICK j \in Left' : loop'.events[j] = loop.events[i]
      BY <3>1 DEF Rest
    <3>3. LoopTelling(v, j)' /\ j \in DOMAIN loop'.events
      BY <1>1, <3>2 DEF Rest, LoopTelling, Left
    <3>4. QED
      BY <3>3
  <2>3. QED
    BY <2>1, <2>2
<1>2. (\E t \in Tasks : Opening(t, v)) => \E t \in Tasks : Opening(t, v)'
  BY DEF Opening
<1>3. QED
  BY <1>1, <1>2 DEF PositionComes

LEMMA EventsOn ==
    ASSUME ServiceInv, Rest, UNCHANGED status
    PROVE  EventsTrue'
BY DEF ServiceInv, EventsTrue, Rest

LEMMA AccountOn ==
    ASSUME TypeOK, Rest, NEW v \in Followed, AccountComes(v), UNCHANGED <<tasks, lots>>,
           unsent'[v] => unsent[v],
           \/ loop.at = "users" /\ loop.events[1].kind = "order.expired"
           \/ loop'.events = loop.events
           \/ v # loop.user \/ ~unsent'[v]
    PROVE  AccountComes(v)'
<1>1. ASSUME NEW i \in DOMAIN loop.events, LoopAccounting(v, i), unsent'[v]
      PROVE  \E j \in DOMAIN loop'.events : LoopAccounting(v, j)'
  <2>1. CASE loop'.events = loop.events
    BY <1>1, <2>1 DEF LoopAccounting, Rest
  <2>2. CASE loop'.events # loop.events
    <3>1. i > 1
      BY <1>1, <2>2, Later DEF LoopAccounting
    <3>2. PICK j \in Left' : loop'.events[j] = loop.events[i]
      BY <3>1 DEF Rest
    <3>3. LoopAccounting(v, j)' /\ j \in DOMAIN loop'.events
      BY <1>1, <3>2 DEF Rest, LoopAccounting, Left
    <3>4. QED
      BY <3>3
  <2>3. QED
    BY <2>1, <2>2
<1>2. (\E t \in Tasks : Accounting(t, v)) => \E t \in Tasks : Accounting(t, v)'
  BY DEF Accounting
<1>3. QED
  BY <1>1, <1>2 DEF AccountComes

(* Between two markets nothing is on its way. *)
LEMMA NextSymbolKeeps ==
    ASSUME ServiceInv, NextSymbol \/ EndSymbol
    PROVE  ServiceInv' /\ EndsOnce
<1>1. /\ TypeOK /\ loop.events = <<>> /\ loop.at \in {"symbols", "users"}
      /\ UNCHANGED <<accounts, status, lots, tasks, seenStatus, untold, unsent>>
  BY DEF ServiceInv, PointOK, NextSymbol, EndSymbol, book, seen
<1>2. /\ loop' \in LoopState /\ loop'.todo \subseteq accounts
      /\ loop'.events = <<>> /\ loop'.at \in {"symbols", "users"}
  <2>1. loop \in LoopState /\ accounts \subseteq Users
    BY <1>1 DEF TypeOK
  <2>2. CASE NextSymbol
    BY <1>1, <2>1, <2>2 DEF NextSymbol, LoopState, LoopPoints
  <2>3. CASE EndSymbol
    <3>1. (IF loop.symbol = NSymbols THEN 1 ELSE loop.symbol + 1) \in Symbols
      BY <2>1, ServiceAssumption DEF LoopState, Symbols
    <3>2. QED
      BY <1>1, <2>1, <2>3, <3>1 DEF EndSymbol, LoopState, LoopPoints
  <2>4. QED
    BY <2>2, <2>3
<1>3. TypeOK' /\ PointOK' /\ EventsTrue' /\ EndsOnce
  BY <1>1, <1>2 DEF TypeOK, PointOK, EventsTrue, EndsOnce
<1>4. \A v \in Users, p \in OrderIds : Mirror(v, p) => Mirror(v, p)'
  BY <1>1, <1>2 DEF Mirror, OrderAgrees, Left, Stuck, Followed
<1>5. \A v \in Followed : /\ PositionComes(v) => PositionComes(v)'
                          /\ AccountComes(v) => AccountComes(v)'
  BY <1>1, <1>2 DEF PositionComes, Opening, AccountComes, Accounting
<1>6. QED
  BY <1>3, <1>4, <1>5 DEF ServiceInv, Mirrored, PositionsCome, AccountsCome, Followed

LEMMA SendEventKeeps ==
    ASSUME ServiceInv, SendEvent
    PROVE  ServiceInv' /\ EndsOnce
<1> DEFINE e == loop.events[1]
<1>1. /\ TypeOK /\ loop.at = "users" /\ loop.events # <<>> /\ Head(loop.events) = e
      /\ UNCHANGED <<accounts, status, lots, tasks, unsent>>
  BY LoopIs DEF ServiceInv, SendEvent, book
<1>2. 1 \in DOMAIN loop.events /\ 1 \in Left
  BY <1>1, LoopIs DEF Left
<1>3. PICK u \in Users, o \in OrderIds : u = loop.user /\ o = e.id
  BY <1>1, <1>2, LoopIs
<1>4. e \in Event /\ Reported(e, status[u][o])
  BY <1>1, <1>2, <1>3, LoopIs DEF ServiceInv, EventsTrue
<1>5. \A v, p : Telling(v, p, 1) => v = u /\ p = o
  BY <1>3 DEF Telling
<1>6. ASSUME NEW v \in Users, NEW p \in OrderIds
      PROVE  Mirror(v, p) /\ ~Stuck(v)
  BY <1>1 DEF ServiceInv, Mirrored, Stuck
<1>7. CASE e.kind # "position.closed"
  <2>1. SendOrder(u, o, e.state) /\ UNCHANGED untold
    BY <1>1, <1>3, <1>7 DEF SendEvent
  <2>2. /\ Rest
        /\ \/ e.kind = "order.filled" /\ loop'.at = "opened" /\ loop'.events = loop.events
           \/ e.kind = "order.expired" /\ loop'.at = "users"
    BY <1>1, <1>7, GoesOn, DoneIs DEF SendEvent, LoopPoints
  <2>3. /\ seenStatus' \in [Users -> [OrderIds -> Status \cup {"rejected"}]]
        /\ \A v \in Users, p \in OrderIds :
             seenStatus'[v][p] = IF v = u /\ p = o THEN e.state ELSE seenStatus[v][p]
    BY <1>1, <1>4, <2>1, Put DEF TypeOK, SendOrder, Event
  <2>4. /\ e.kind = "order.expired" => e.state = "expired" /\ status[u][o] = "expired"
        /\ e.kind = "order.filled" =>
             \/ e.state = "filled" /\ status[u][o] = "filled"
             \/ e.state = "rejected" /\ status[u][o] \in {"pending", "cancelled"}
    BY <1>4, <1>7 DEF Reported
  <2>5. ASSUME NEW v \in Users, NEW p \in OrderIds, v \in Followed
        PROVE  OrderAgrees(v, p)'
    <3>1. CASE v = u /\ p = o
      <4>1. CASE e.state = "rejected"
        <5>1. status'[u][o] = "cancelled" => Stuck(u)'
          BY <1>1, <1>3, <1>7, <2>2, <2>4, <4>1 DEF Stuck, Rest
        <5>2. QED
          BY <1>1, <1>7, <2>2, <2>3, <2>4, <3>1, <4>1, <5>1 DEF OrderAgrees
      <4>2. CASE e.state # "rejected"
        BY <1>1, <1>7, <2>2, <2>3, <2>4, <3>1, <4>2 DEF OrderAgrees
      <4>3. QED
        BY <4>1, <4>2
    <3>2. CASE ~(v = u /\ p = o)
      BY <1>1, <1>5, <1>6, <2>2, <2>3, <2>5, <3>2, OrdersOn DEF Mirror
    <3>3. QED
      BY <3>1, <3>2
  <2>6. ASSUME NEW v \in Followed
        PROVE  PositionComes(v)'
    <3>1. LoopTelling(v, 1) => 1 \in DOMAIN loop'.events /\ LoopTelling(v, 1)'
      BY <1>2, <1>7, <2>2 DEF LoopTelling, Rest
    <3>2. QED
      BY <1>1, <2>1, <2>2, <2>6, <3>1, PositionOn DEF ServiceInv, PositionsCome
  <2>7. Mirrored'
    <3>1. e.state \in Ends => e.state = status[u][o]
      BY <2>2, <2>4 DEF Ends
    <3>2. \A v \in Users, p \in OrderIds :
             seenStatus'[v][p] \in Ends => seenStatus'[v][p] = status[v][p]
      BY <1>6, <2>3, <3>1 DEF Mirror
    <3>3. QED
      BY <1>1, <1>6, <2>5, <3>2 DEF Mirrored, Mirror, Followed
  <2>8. PointOK'
    <3>1. loop'.at = "opened" \/ loop'.at = "users"
      BY <2>2
    <3>2. QED
      BY <1>1, <1>2, <2>2, <3>1 DEF PointOK
  <2>9. TypeOK' /\ EventsTrue'
    BY <1>1, <2>1, <2>2, <2>3, EventsOn DEF TypeOK, Rest
  <2>10. AccountsCome'
    BY <1>1, <2>2, AccountOn DEF ServiceInv, AccountsCome, Followed
  <2>11. EndsOnce
    <3>1. e.state = "rejected" \/ e.state = status[u][o]
      BY <2>2, <2>4
    <3>2. ASSUME NEW v \in Users, NEW p \in OrderIds, seenStatus[v][p] \in Ends
          PROVE  seenStatus'[v][p] \in {seenStatus[v][p], "rejected"}
      BY <1>6, <2>3, <3>1, <3>2 DEF Mirror
    <3>3. QED
      BY <3>2 DEF EndsOnce, Ends
  <2>12. QED
    BY <2>6, <2>7, <2>8, <2>9, <2>10, <2>11 DEF ServiceInv, PositionsCome, Followed
<1>8. CASE e.kind = "position.closed"
  <2>1. SendPosition(u) /\ LoopGoesOn("history") /\ UNCHANGED seenStatus
    BY <1>1, <1>3, <1>8 DEF SendEvent
  <2>2. Rest /\ loop'.at = "history" /\ loop'.events = loop.events
    BY <1>1, <2>1, GoesOn DEF LoopPoints
  <2>3. untold' = [untold EXCEPT ![u] = FALSE]
    BY <2>1 DEF SendPosition
  <2>4. ASSUME NEW v \in Users, NEW p \in OrderIds, v \in Followed
        PROVE  OrderAgrees(v, p)'
    <3>1. ~Telling(v, p, 1)
      BY <1>8 DEF Telling
    <3>2. QED
      BY <1>1, <1>6, <2>1, <2>2, <2>4, <3>1, OrdersOn DEF Mirror
  <2>5. Mirrored'
    BY <1>1, <1>6, <2>1, <2>4 DEF Mirrored, Mirror, Followed
  <2>6. ASSUME NEW v \in Followed
        PROVE  PositionComes(v)'
    <3>1. CASE v = u
      BY <1>1, <2>3, <3>1 DEF PositionComes, TypeOK
    <3>2. CASE v # u
      <4>1. untold'[v] = untold[v] /\ ~LoopTelling(v, 1)
        BY <1>1, <1>3, <2>3, <3>2 DEF TypeOK, Followed, LoopTelling
      <4>2. QED
        BY <1>1, <2>2, <2>6, <4>1, PositionOn DEF ServiceInv, PositionsCome
    <3>3. QED
      BY <3>1, <3>2
  <2>7. PointOK' /\ TypeOK' /\ EventsTrue' /\ EndsOnce
    BY <1>1, <1>8, <2>1, <2>2, <2>3, EventsOn DEF PointOK, TypeOK, Rest, EndsOnce
  <2>8. AccountsCome'
    BY <1>1, <2>2, AccountOn DEF ServiceInv, AccountsCome, Followed
  <2>9. QED
    BY <2>5, <2>6, <2>7, <2>8 DEF ServiceInv, PositionsCome, Followed
<1>9. QED
  BY <1>7, <1>8

LEMMA LoopOpenedKeeps ==
    ASSUME ServiceInv, LoopOpened
    PROVE  ServiceInv' /\ EndsOnce
<1> DEFINE e == loop.events[1]
<1>1. /\ TypeOK /\ loop.at = "opened" /\ loop.events # <<>> /\ Head(loop.events) = e
      /\ e.kind = "order.filled"
      /\ UNCHANGED <<accounts, status, lots, tasks, seenStatus, unsent>>
  BY LoopIs DEF ServiceInv, PointOK, LoopPoints, LoopOpened, book
<1>2. 1 \in DOMAIN loop.events /\ 1 \notin Left
  BY <1>1, LoopIs DEF Left
<1>3. PICK u \in Users, o \in OrderIds : u = loop.user /\ o = e.id
  BY <1>1, <1>2, LoopIs
<1>4. Reported(e, status[u][o])
  BY <1>1, <1>2, <1>3, LoopIs DEF ServiceInv, EventsTrue
<1>5. lots[u][o] \in 0..MaxVolume /\ lots[u][o] \in Nat
  BY <1>1, ServiceAssumption DEF TypeOK
<1>6. \A v \in Users, p \in OrderIds : Mirror(v, p)
  BY DEF ServiceInv, Mirrored
<1>7. CASE lots[u][o] > 0
  <2>1. SendPosition(u) /\ LoopGoesOn("account")
    BY <1>1, <1>3, <1>7 DEF LoopOpened
  <2>2. Rest /\ loop'.at = "account" /\ loop'.events = loop.events
    BY <1>1, <2>1, GoesOn DEF LoopPoints
  <2>3. untold' = [untold EXCEPT ![u] = FALSE]
    BY <2>1 DEF SendPosition
  <2>4. status[u][o] = "filled"
    BY <1>7, NoPosition
  <2>5. \A v : ~Stuck(v)
    BY <1>1, <1>4, <2>4 DEF Reported, Stuck
  <2>6. ASSUME NEW v \in Users, NEW p \in OrderIds, v \in Followed
        PROVE  OrderAgrees(v, p)'
    BY <1>1, <1>2, <1>6, <2>2, <2>5, <2>6, OrdersOn DEF Mirror
  <2>7. Mirrored'
    BY <1>1, <1>6, <2>6 DEF Mirrored, Mirror, Followed
  <2>8. ASSUME NEW v \in Followed
        PROVE  PositionComes(v)'
    <3>1. CASE v = u
      BY <1>1, <2>3, <3>1 DEF PositionComes, TypeOK
    <3>2. CASE v # u
      <4>1. untold'[v] = untold[v] /\ ~LoopTelling(v, 1)
        BY <1>1, <1>3, <2>3, <3>2 DEF TypeOK, Followed, LoopTelling
      <4>2. QED
        BY <1>1, <2>2, <2>8, <4>1, PositionOn DEF ServiceInv, PositionsCome
    <3>3. QED
      BY <3>1, <3>2
  <2>9. PointOK' /\ TypeOK' /\ EventsTrue' /\ EndsOnce
    BY <1>1, <2>2, <2>3, EventsOn DEF PointOK, TypeOK, Rest, EndsOnce
  <2>10. AccountsCome'
    BY <1>1, <2>2, AccountOn DEF ServiceInv, AccountsCome, Followed
  <2>11. QED
    BY <2>7, <2>8, <2>9, <2>10 DEF ServiceInv, PositionsCome, Followed
<1>8. CASE lots[u][o] = 0
  <2>1. LoopGoesOn("dead") /\ UNCHANGED untold
    BY <1>1, <1>3, <1>8 DEF LoopOpened
  <2>2. Rest /\ loop'.at = "dead" /\ loop'.events = loop.events
    BY <1>1, <2>1, GoesOn DEF LoopPoints
  <2>3. \A v : Stuck(v) => Stuck(v)'
    BY <1>1, <2>2 DEF Stuck, Rest
  <2>4. ASSUME NEW v \in Users, NEW p \in OrderIds, v \in Followed
        PROVE  OrderAgrees(v, p)'
    BY <1>1, <1>2, <1>6, <2>2, <2>3, <2>4, OrdersOn DEF Mirror
  <2>5. Mirrored'
    BY <1>1, <1>6, <2>4 DEF Mirrored, Mirror, Followed
  <2>6. ASSUME NEW v \in Followed
        PROVE  PositionComes(v)'
    <3>1. LoopTelling(v, 1) => 1 \in DOMAIN loop'.events /\ LoopTelling(v, 1)'
      BY <1>1, <1>2, <2>2 DEF LoopTelling, Rest
    <3>2. QED
      BY <1>1, <2>1, <2>2, <2>6, <3>1, PositionOn DEF ServiceInv, PositionsCome
  <2>7. PointOK' /\ TypeOK' /\ EventsTrue' /\ EndsOnce
    BY <1>1, <2>1, <2>2, EventsOn DEF PointOK, TypeOK, Rest, EndsOnce
  <2>8. AccountsCome'
    BY <1>1, <2>2, AccountOn DEF ServiceInv, AccountsCome, Followed
  <2>9. QED
    BY <2>5, <2>6, <2>7, <2>8 DEF ServiceInv, PositionsCome, Followed
<1>9. QED
  BY <1>5, <1>7, <1>8

LEMMA LoopHistoryKeeps ==
    ASSUME ServiceInv, LoopHistory
    PROVE  ServiceInv' /\ EndsOnce
<1>1. /\ TypeOK /\ loop.at = "history" /\ loop.events # <<>>
      /\ loop.events[1].kind = "position.closed"
      /\ UNCHANGED <<accounts, status, lots, tasks, seenStatus, untold, unsent>>
  BY DEF ServiceInv, PointOK, LoopPoints, LoopHistory, book, seen
<1>2. Rest /\ loop'.at = "account" /\ loop'.events = loop.events
  BY <1>1, GoesOn DEF LoopHistory, LoopPoints
<1>3. 1 \notin Left /\ (\A v : ~Stuck(v)) /\ \A v : ~LoopTelling(v, 1)
  BY <1>1 DEF Left, Stuck, LoopTelling
<1>4. \A v \in Users, p \in OrderIds : Mirror(v, p) => Mirror(v, p)'
  BY <1>1, <1>2, <1>3, OrdersOn DEF Mirror, Followed
<1>5. PointOK' /\ TypeOK' /\ EventsTrue' /\ EndsOnce
  BY <1>1, <1>2, EventsOn DEF PointOK, TypeOK, Rest, EndsOnce
<1>6. AccountsCome'
  BY <1>1, <1>2, AccountOn DEF ServiceInv, AccountsCome, Followed
<1>7. PositionsCome'
  BY <1>1, <1>2, <1>3, PositionOn DEF ServiceInv, PositionsCome, Followed
<1>8. QED
  BY <1>4, <1>5, <1>6, <1>7 DEF ServiceInv, Mirrored

LEMMA LoopAccountKeeps ==
    ASSUME ServiceInv, LoopAccount
    PROVE  ServiceInv' /\ EndsOnce
<1>1. /\ TypeOK /\ loop.at = "account" /\ loop.events # <<>>
      /\ UNCHANGED <<accounts, status, lots, tasks, seenStatus, untold>>
  BY DEF ServiceInv, PointOK, LoopPoints, LoopAccount, book
<1>2. Rest /\ loop'.at = "users"
  BY <1>1, DoneIs DEF LoopAccount
<1>3. 1 \notin Left /\ (\A v : ~Stuck(v)) /\ \A v : ~LoopTelling(v, 1)
  BY <1>1 DEF Left, Stuck, LoopTelling
<1>4. \A v \in Users, p \in OrderIds : Mirror(v, p) => Mirror(v, p)'
  BY <1>1, <1>2, <1>3, OrdersOn DEF Mirror, Followed
<1>5. loop.user \in Users /\ unsent' = [unsent EXCEPT ![loop.user] = FALSE]
  BY <1>1, LoopIs DEF LoopAccount, SendAccount
<1>6. PointOK' /\ TypeOK' /\ EventsTrue' /\ EndsOnce
  BY <1>1, <1>2, <1>5, EventsOn DEF PointOK, TypeOK, Rest, EndsOnce, LoopPoints
<1>7. ASSUME NEW v \in Followed
      PROVE  AccountComes(v)'
  <2>1. CASE v = loop.user
    BY <1>1, <1>5, <2>1 DEF AccountComes, TypeOK
  <2>2. CASE v # loop.user
    <3>1. unsent'[v] => unsent[v]
      BY <1>1, <1>5, <2>2 DEF TypeOK, Followed
    <3>2. AccountComes(v)
      BY <1>7 DEF ServiceInv, AccountsCome
    <3>3. QED
      BY <1>1, <1>2, <1>7, <2>2, <3>1, <3>2, AccountOn
  <2>3. QED
    BY <2>1, <2>2
<1>8. PositionsCome'
  BY <1>1, <1>2, <1>3, PositionOn DEF ServiceInv, PositionsCome, Followed
<1>9. QED
  BY <1>4, <1>6, <1>7, <1>8 DEF ServiceInv, Mirrored, AccountsCome, Followed

-----------------------------------------------------------------------------
(* What on_quote finds of one user.                                        *)

LEMMA AscendingIs ==
    ASSUME NEW S \in SUBSET OrderIds, NEW order \in Ascending(S)
    PROVE  /\ order \in Seq(S) /\ \A i \in DOMAIN order : order[i] \in S
           /\ \A s \in S : \E i \in DOMAIN order : order[i] = s
<1>1. IsFiniteSet(OrderIds)
  BY ServiceAssumption, FS_Interval DEF OrderIds
<1>2. IsFiniteSet(S) /\ Cardinality(S) \in Nat
  BY <1>1, FS_Subset, FS_CardinalityType
<1>3. PICK n \in Nat : n = Cardinality(S)
  BY <1>2
<1>4. /\ order \in [1..n -> S]
      /\ \A i, j \in 1..n : i < j => order[i] < order[j]
  BY <1>3 DEF Ascending
<1>5. S \subseteq Int
  BY ServiceAssumption DEF OrderIds
<1>6. \A i, j \in 1..n : order[i] = order[j] => i = j
  <2>1. SUFFICES ASSUME NEW i \in 1..n, NEW j \in 1..n, order[i] = order[j], i # j
                 PROVE  FALSE
    OBVIOUS
  <2>2. order[i] \in Int /\ order[j] \in Int
    BY <1>4, <1>5
  <2>3. i < j \/ j < i
    BY <2>1
  <2>4. QED
    BY <1>4, <2>1, <2>2, <2>3
<1>7. order \in Injection(1..n, S)
  BY <1>4, <1>6 DEF Injection, IsInjective
<1>8. IsFiniteSet(1..n) /\ Cardinality(1..n) = n
  BY FS_Interval
<1>9. order \in Surjection(1..n, S)
  BY <1>2, <1>3, <1>7, <1>8, FS_Injection
<1>10. QED
  BY <1>4, <1>9 DEF Surjection

(* What an event of an order, and one of a closed position, says. *)
OfOrder(e, P, outcome) ==
    /\ e.kind = IF outcome[e.id] = "expired" THEN "order.expired" ELSE "order.filled"
    /\ e.id \in P /\ outcome[e.id] # "pending" /\ e.state = outcome[e.id]

OfClose(e, closed) == e.kind = "position.closed" /\ e.id \in closed

LEMMA OrderEventsAre ==
    ASSUME NEW P \in SUBSET OrderIds,
           NEW outcome \in [P -> {"pending", "expired", "filled", "rejected"}],
           NEW done \in Ascending(Touched(outcome))
    PROVE  LET A == OrderEvents(outcome, done)
           IN  /\ A \in Seq(Event) /\ \A i \in DOMAIN A : OfOrder(A[i], P, outcome)
               /\ \A o \in P : outcome[o] # "pending" => \E i \in DOMAIN A : A[i].id = o
<1> DEFINE A == OrderEvents(outcome, done)
            S == Touched(outcome)
<1>1. /\ done \in Seq(OrderIds) /\ \A i \in DOMAIN done : done[i] \in S
      /\ \A s \in S : \E i \in DOMAIN done : done[i] = s
  <2>1. S \in SUBSET OrderIds /\ done \in Ascending(S)
    BY DEF Touched
  <2> HIDE DEF S
  <2>2. done \in Seq(S)
    BY <2>1, AscendingIs
  <2>3. done \in Seq(OrderIds)
    BY <2>1, <2>2
  <2>4. QED
    BY <2>1, <2>3, AscendingIs
<1>2. DOMAIN A = DOMAIN done /\ S = {o \in P : outcome[o] # "pending"}
  BY DEF OrderEvents, Touched
<1>3. \A i \in DOMAIN done :
        /\ A[i] \in Event /\ A[i].id = done[i] /\ A[i].state = outcome[done[i]]
        /\ A[i].kind = IF outcome[done[i]] = "expired" THEN "order.expired" ELSE "order.filled"
  <2>1. ASSUME NEW i \in DOMAIN done
        PROVE  /\ done[i] \in OrderIds
               /\ outcome[done[i]] \in Status \cup {"rejected"}
    BY <1>1, <1>2 DEF Status
  <2>2. QED
    BY <2>1 DEF OrderEvents, Event
<1>4. A \in Seq(Event)
  BY <1>1, <1>3 DEF OrderEvents
<1>5. QED
  BY <1>1, <1>2, <1>3, <1>4 DEF OfOrder

LEMMA CloseEventsAre ==
    ASSUME NEW closed \in SUBSET OrderIds, NEW ended \in Ascending(closed)
    PROVE  LET B == CloseEvents(ended)
           IN  /\ B \in Seq(Event) /\ \A i \in DOMAIN B : OfClose(B[i], closed)
               /\ \A o \in closed : \E i \in DOMAIN B : B[i].id = o
<1> DEFINE B == CloseEvents(ended)
<1>1. /\ ended \in Seq(OrderIds) /\ \A i \in DOMAIN ended : ended[i] \in closed
      /\ \A s \in closed : \E i \in DOMAIN ended : ended[i] = s
  <2>1. ended \in Seq(closed)
    BY AscendingIs
  <2>2. QED
    BY <2>1, AscendingIs
<1>2. DOMAIN B = DOMAIN ended
  BY DEF CloseEvents
<1>3. \A i \in DOMAIN ended :
        B[i] \in Event /\ B[i].id = ended[i] /\ B[i].kind = "position.closed"
  BY <1>1 DEF CloseEvents, Event, Status
<1>4. B \in Seq(Event)
  BY <1>1, <1>3 DEF CloseEvents
<1>5. QED
  BY <1>1, <1>2, <1>3, <1>4 DEF OfClose

(* C is A and B one after the other. *)
Joins(A, B, C) ==
    /\ \A i \in DOMAIN A : \E k \in DOMAIN C : C[k] = A[i]
    /\ \A i \in DOMAIN B : \E k \in DOMAIN C : C[k] = B[i]
    /\ \A k \in DOMAIN C : (\E i \in DOMAIN A : C[k] = A[i]) \/ \E i \in DOMAIN B : C[k] = B[i]

LEMMA JoinedIs ==
    ASSUME NEW E, NEW A \in Seq(E), NEW B \in Seq(E)
    PROVE  A \o B \in Seq(E) /\ Joins(A, B, A \o B)
<1> DEFINE C == A \o B
<1>1. PICK a \in Nat, b \in Nat : a = Len(A) /\ b = Len(B)
  OBVIOUS
<1>2. DOMAIN A = 1..a /\ DOMAIN B = 1..b /\ C \in Seq(E) /\ DOMAIN C = 1..(a + b)
  BY <1>1
<1>3. (\A i \in 1..a : C[i] = A[i]) /\ \A i \in 1..b : C[a + i] = B[i]
  BY <1>1, <1>2
<1> HIDE DEF C
<1>4. \A i \in 1..a : i \in 1..(a + b)
  OBVIOUS
<1>5. \A i \in 1..b : a + i \in 1..(a + b)
  OBVIOUS
<1>6. \A k \in 1..(a + b) : k \in 1..a \/ (k - a \in 1..b /\ a + (k - a) = k)
  OBVIOUS
<1>7. Joins(A, B, C)
  BY <1>2, <1>3, <1>4, <1>5, <1>6 DEF Joins
<1>8. QED
  BY <1>2, <1>7 DEF C

LEMMA OnQuoteKeeps ==
    ASSUME ServiceInv, NEW u \in Users, OnQuote(u)
    PROVE  ServiceInv' /\ EndsOnce
<1> DEFINE mine    == {o \in OrderIds : SymbolOf[o] = loop.symbol}
           pending == {o \in mine : status[u][o] = "pending"}
<1>1. /\ TypeOK /\ loop.at = "users" /\ loop.events = <<>> /\ u \in loop.todo
      /\ UNCHANGED <<accounts, tasks, seenStatus>>
  BY DEF ServiceInv, OnQuote
<1>2. PICK outcome \in [pending -> {"pending", "expired", "filled", "rejected"}] :
        \E volume \in [{o \in pending : outcome[o] = "filled"} -> 1..MaxVolume] :
        \E closed \in SUBSET {o \in mine : Opened(u, volume)[o] > 0} :
        \E done \in Ascending(Touched(outcome)),
           ended \in Ascending(closed) : Quoted(u, outcome, volume, closed, done, ended)
  BY DEF OnQuote
<1>3. PICK volume \in [{o \in pending : outcome[o] = "filled"} -> 1..MaxVolume] :
        \E closed \in SUBSET {o \in mine : Opened(u, volume)[o] > 0} :
        \E done \in Ascending(Touched(outcome)),
           ended \in Ascending(closed) : Quoted(u, outcome, volume, closed, done, ended)
  BY <1>2
<1> DEFINE opened == Opened(u, volume)
<1>4. PICK closed \in SUBSET {o \in mine : opened[o] > 0} :
        \E done \in Ascending(Touched(outcome)),
           ended \in Ascending(closed) : Quoted(u, outcome, volume, closed, done, ended)
  BY <1>3
<1>5. PICK done \in Ascending(Touched(outcome)),
           ended \in Ascending(closed) : Quoted(u, outcome, volume, closed, done, ended)
  BY <1>4
<1> DEFINE A == OrderEvents(outcome, done)
           B == CloseEvents(ended)
<1>6. /\ opened \in [OrderIds -> 0..MaxVolume] /\ pending \in SUBSET OrderIds
      /\ closed \in SUBSET OrderIds
      /\ \A o \in OrderIds : opened[o] =
            IF o \in pending /\ outcome[o] = "filled" THEN volume[o] ELSE lots[u][o]
      /\ \A o \in pending : status[u][o] = "pending"
      /\ \A o \in closed : opened[o] > 0
  <2>1. \A o \in DOMAIN volume : volume[o] \in 0..MaxVolume
    BY ServiceAssumption
  <2>2. lots[u] \in [OrderIds -> 0..MaxVolume]
    BY <1>1 DEF TypeOK
  <2>3. QED
    BY <2>1, <2>2 DEF Opened
<1> HIDE DEF opened, mine, pending
<1>7. /\ A \in Seq(Event) /\ \A i \in DOMAIN A : OfOrder(A[i], pending, outcome)
      /\ \A o \in pending : outcome[o] # "pending" => \E i \in DOMAIN A : A[i].id = o
  BY <1>6, OrderEventsAre
<1>8. /\ B \in Seq(Event) /\ \A i \in DOMAIN B : OfClose(B[i], closed)
      /\ \A o \in closed : \E i \in DOMAIN B : B[i].id = o
  BY <1>6, CloseEventsAre
<1>9. /\ loop'.events = A \o B /\ loop'.user = u /\ loop'.at = "users"
      /\ loop' \in LoopState /\ loop'.todo \subseteq accounts
  <2>1. loop \in LoopState /\ loop.todo \subseteq accounts
    BY <1>1 DEF TypeOK
  <2>2. A \o B \in Seq(Event)
    BY <1>7, <1>8
  <2>3. loop' = [loop EXCEPT !.todo = loop.todo \ {u}, !.user = u, !.events = A \o B]
    BY <1>5 DEF Quoted, opened
  <2> HIDE DEF A, B
  <2>4. QED
    BY <1>1, <2>1, <2>2, <2>3 DEF LoopState
<1>10. /\ \A v \in Users \ {u} : status'[v] = status[v] /\ lots'[v] = lots[v]
                                /\ untold'[v] = untold[v] /\ unsent'[v] = unsent[v]
       /\ \A o \in OrderIds : status'[u][o] =
            IF o \in pending /\ outcome[o] # "rejected" THEN outcome[o] ELSE status[u][o]
       /\ \A o \in OrderIds : lots'[u][o] = IF o \in closed THEN 0 ELSE opened[o]
  BY <1>1, <1>5 DEF Quoted, PositionsChange, BalanceChanges, TypeOK, opened
<1>11. DOMAIN loop'.events = Left'
  BY <1>9 DEF Left
<1> DEFINE evs == loop'.events
<1>12. /\ \A k \in Left' : OfOrder(evs[k], pending, outcome) \/ OfClose(evs[k], closed)
       /\ \A o \in pending : outcome[o] # "pending" =>
            \E k \in Left' : evs[k].id = o /\ OfOrder(evs[k], pending, outcome)
       /\ \A o \in closed :
            \E k \in Left' : evs[k].id = o /\ OfClose(evs[k], closed)
  <2>1. Joins(A, B, evs)
    BY <1>7, <1>8, <1>9, JoinedIs
  <2> HIDE DEF A, B, evs
  <2>2. DOMAIN evs = Left'
    BY <1>11 DEF evs
  <2>3. ASSUME NEW k \in Left'
        PROVE  OfOrder(evs[k], pending, outcome) \/ OfClose(evs[k], closed)
    BY <1>7, <1>8, <2>1, <2>2 DEF Joins
  <2>4. ASSUME NEW o \in pending, outcome[o] # "pending"
        PROVE  \E k \in Left' : evs[k].id = o /\ OfOrder(evs[k], pending, outcome)
    <3>1. PICK i \in DOMAIN A : A[i].id = o
      BY <1>7, <2>4
    <3>2. QED
      BY <1>7, <2>1, <2>2, <3>1 DEF Joins
  <2>5. ASSUME NEW o \in closed
        PROVE  \E k \in Left' : evs[k].id = o /\ OfClose(evs[k], closed)
    <3>1. PICK i \in DOMAIN B : B[i].id = o
      BY <1>8
    <3>2. QED
      BY <1>8, <2>1, <2>2, <3>1 DEF Joins
  <2>6. QED
    BY <2>3, <2>4, <2>5
<1> HIDE DEF A, B
<1>13. \A o \in pending : outcome[o] \in {"pending", "expired", "filled", "rejected"}
  OBVIOUS
<1>14. /\ \A o \in pending : lots[u][o] = 0
       /\ \A o \in OrderIds : lots[u][o] > 0 => status[u][o] = "filled"
  BY <1>6, NoPosition
<1>15. TypeOK'
  <2>1. ASSUME NEW o \in OrderIds
        PROVE  status'[u][o] \in Status /\ lots'[u][o] \in 0..MaxVolume
    <3>1. status[u][o] \in Status /\ opened[o] \in 0..MaxVolume /\ 0 \in 0..MaxVolume
      BY <1>1, <1>6, ServiceAssumption DEF TypeOK
    <3>2. lots'[u][o] = 0 \/ lots'[u][o] = opened[o]
      BY <1>10
    <3>3. \/ status'[u][o] = status[u][o]
          \/ status'[u][o] \in {"pending", "expired", "filled"}
      BY <1>10, <1>13
    <3>4. QED
      BY <3>1, <3>2, <3>3 DEF Status
  <2>2. status' \in [Users -> [OrderIds -> Status]]
    BY <1>1, <1>5, <2>1 DEF TypeOK, Quoted
  <2>3. lots' \in [Users -> [OrderIds -> 0..MaxVolume]]
    BY <1>1, <1>5, <2>1 DEF TypeOK, Quoted
  <2>4. untold' \in [Users -> BOOLEAN] /\ unsent' \in [Users -> BOOLEAN]
    BY <1>1, <1>5 DEF TypeOK, Quoted, PositionsChange, BalanceChanges
  <2>5. QED
    BY <1>1, <1>9, <2>2, <2>3, <2>4 DEF TypeOK
<1>16. PointOK'
  BY <1>9 DEF PointOK
<1>17. ASSUME NEW o \in closed
       PROVE  status'[u][o] = "filled" /\ lots'[u][o] = 0
  BY <1>6, <1>10, <1>14
<1>18. EventsTrue'
  <2>1. ASSUME NEW k \in Left'
        PROVE  Reported(evs[k], status'[u][evs[k].id])
    <3>1. CASE OfOrder(evs[k], pending, outcome)
      BY <1>6, <1>10, <1>13, <3>1 DEF OfOrder, Reported
    <3>2. CASE OfClose(evs[k], closed)
      BY <1>17, <3>2 DEF OfClose, Reported
    <3>3. QED
      BY <1>12, <3>1, <3>2
  <2>2. QED
    BY <1>9, <1>11, <2>1 DEF EventsTrue
<1>19. EndsOnce
  BY <1>1 DEF EndsOnce
<1>20. ASSUME NEW v \in Users, NEW p \in OrderIds
       PROVE  /\ status[v][p] # "filled" => lots[v][p] = 0
              /\ seenStatus[v][p] \in Ends => seenStatus[v][p] = status[v][p]
              /\ v \in Followed =>
                   \/ seenStatus[v][p] = status[v][p]
                   \/ seenStatus[v][p] = "rejected" /\ status[v][p] = "pending"
  <2>1. Mirror(v, p)
    BY DEF ServiceInv, Mirrored
  <2>2. DOMAIN loop.events = {} /\ Left = {} /\ ~Stuck(v)
    BY <1>1 DEF Left, Stuck
  <2>3. QED
    BY <2>1, <2>2 DEF Mirror, OrderAgrees
<1>21. ASSUME NEW v \in Users, NEW p \in OrderIds
       PROVE  Mirror(v, p)'
  <2>1. CASE v # u
    <3>1. status'[v][p] = status[v][p] /\ lots'[v][p] = lots[v][p]
      BY <1>10, <2>1
    <3>2. QED
      BY <1>1, <1>20, <3>1 DEF Mirror, OrderAgrees, Followed
  <2>2. CASE v = u
    <3>1. status'[u][p] # "filled" => lots'[u][p] = 0
      BY <1>1, <1>6, <1>10, <1>13, <1>17, <1>20
    <3>2. seenStatus'[u][p] \in Ends => seenStatus'[u][p] = status'[u][p]
      BY <1>1, <1>6, <1>10, <1>20 DEF Ends
    <3>3. ASSUME u \in Followed
          PROVE  OrderAgrees(u, p)'
      <4>1. CASE p \in pending /\ outcome[p] # "pending"
        <5>1. PICK k \in Left' : evs[k].id = p /\ OfOrder(evs[k], pending, outcome)
          BY <1>12, <4>1
        <5>2. Telling(u, p, k)'
          BY <1>9, <5>1 DEF Telling, OfOrder
        <5>3. QED
          BY <5>2 DEF OrderAgrees
      <4>2. CASE ~(p \in pending /\ outcome[p] # "pending")
        BY <1>1, <1>6, <1>10, <1>20, <3>3, <4>2 DEF OrderAgrees
      <4>3. QED
        BY <4>1, <4>2
    <3>4. QED
      BY <2>2, <3>1, <3>2, <3>3 DEF Mirror, Followed
  <2>3. QED
    BY <2>1, <2>2
<1>22. ASSUME NEW v \in Followed
       PROVE  PositionComes(v)' /\ AccountComes(v)'
  <2>1. /\ untold[v] => \E t \in Tasks : Opening(t, v)
        /\ unsent[v] => \E t \in Tasks : Accounting(t, v)
    <3>1. DOMAIN loop.events = {}
      BY <1>1
    <3>2. QED
      BY <1>22, <3>1
         DEF ServiceInv, PositionsCome, PositionComes, AccountsCome, AccountComes
  <2>2. CASE v # u
    <3>1. untold'[v] = untold[v] /\ unsent'[v] = unsent[v] /\ lots'[v] = lots[v]
      BY <1>10, <2>2 DEF Followed
    <3>2. \A t \in Tasks : /\ Opening(t, v) => Opening(t, v)'
                           /\ Accounting(t, v) => Accounting(t, v)'
      BY <1>1, <3>1 DEF Opening, Accounting
    <3>3. QED
      BY <2>1, <3>1, <3>2 DEF PositionComes, AccountComes
  <2>3. CASE v = u /\ DOMAIN volume \cup closed # {}
    <3>1. \A k \in Left' : evs[k].kind # "order.expired" => LoopAccounting(u, k)'
      BY <1>9 DEF LoopAccounting
    <3>2. \A k \in Left' : evs[k].kind # "order.expired" => LoopTelling(u, k)'
      BY <1>9, <1>12 DEF LoopTelling, OfOrder, OfClose
    <3>3. \E k \in Left' : evs[k].kind # "order.expired"
      <4>1. CASE closed # {}
        BY <1>12, <4>1 DEF OfClose
      <4>2. CASE DOMAIN volume # {}
        <5>1. PICK o \in pending : outcome[o] = "filled"
          BY <4>2
        <5>2. QED
          BY <1>12, <5>1 DEF OfOrder
      <4>3. QED
        BY <2>3, <4>1, <4>2
    <3>4. QED
      BY <1>11, <2>3, <3>1, <3>2, <3>3 DEF PositionComes, AccountComes
  <2>4. CASE v = u /\ DOMAIN volume \cup closed = {}
    <3>1. untold'[u] = untold[u] /\ unsent'[u] = unsent[u]
      BY <1>5, <2>4 DEF Quoted
    <3>2. \A o \in OrderIds : lots'[u][o] = lots[u][o]
      <4>1. \A o \in pending : outcome[o] # "filled"
        BY <2>4
      <4>2. QED
        BY <1>6, <1>10, <2>4, <4>1
    <3>3. \A t \in Tasks : /\ Opening(t, u) => Opening(t, u)'
                           /\ Accounting(t, u) => Accounting(t, u)'
      BY <1>1, <3>2, TaskIs DEF Opening, Accounting, NoTask
    <3>4. QED
      BY <2>1, <2>4, <3>1, <3>3 DEF PositionComes, AccountComes
  <2>5. QED
    BY <2>2, <2>3, <2>4
<1>23. QED
  BY <1>15, <1>16, <1>18, <1>19, <1>21, <1>22
     DEF ServiceInv, Mirrored, PositionsCome, AccountsCome, Followed

-----------------------------------------------------------------------------
(* Every step, and the theorems. *)

LEMMA NextKeeps ==
    ASSUME ServiceInv, [Next]_vars
    PROVE  ServiceInv' /\ EndsOnce
<1>1. CASE Request
  BY <1>1, PlaceFillsKeeps, PlaceRestsKeeps, CancelOrderKeeps, ClosePositionKeeps,
     ModifyPositionKeeps DEF Request
<1>2. CASE \E t \in Tasks : Resume(t)
  BY <1>2, RequestOpenedKeeps, RequestHistoryKeeps, RequestAccountKeeps DEF Resume
<1>3. CASE Strategy
  BY <1>3, StrategyFillsKeeps, StrategyClosesKeeps DEF Strategy
<1>4. CASE Loop
  BY <1>4, NextSymbolKeeps, SendEventKeeps, LoopOpenedKeeps, LoopHistoryKeeps,
     LoopAccountKeeps, OnQuoteKeeps DEF Loop
<1>5. CASE UNCHANGED vars
  <2>1. UNCHANGED <<accounts, status, lots, tasks, loop, seenStatus, untold, unsent>>
    BY <1>5 DEF vars
  <2>2. TypeOK' /\ PointOK' /\ EventsTrue' /\ EndsOnce
    BY <2>1, LoopStands DEF ServiceInv, TypeOK, EndsOnce
  <2>3. Mirrored'
    BY <2>1, Untouched DEF Mirrored
  <2>4. PositionsCome' /\ AccountsCome'
    BY <2>1, PositionUntouched, AccountUntouched
       DEF PositionsCome, Opening, AccountsCome, Accounting, Followed
  <2>5. QED
    BY <2>2, <2>3, <2>4 DEF ServiceInv
<1>6. QED
  BY <1>1, <1>2, <1>3, <1>4, <1>5 DEF Next

LEMMA ServiceInvAlways == Spec => []ServiceInv
<1>1. ASSUME Init PROVE ServiceInv
  <2>1. TypeOK
    <3>1. (CHOOSE u \in Users : TRUE) \in Users /\ 1 \in Symbols /\ 0 \in 0..MaxVolume
      BY ServiceAssumption DEF Symbols
    <3>2. <<>> \in Seq(Event)
      OBVIOUS
    <3>3. loop \in LoopState /\ loop.todo \subseteq accounts
      BY <1>1, <3>1, <3>2 DEF Init, LoopState, LoopPoints
    <3>4. QED
      BY <1>1, <3>1, <3>3 DEF Init, TypeOK, Status, TaskState
  <2>2. PointOK /\ EventsTrue
    BY <1>1 DEF Init, PointOK, EventsTrue, LoopPoints
  <2>3. Mirrored
    BY <1>1 DEF Init, Mirrored, Mirror, OrderAgrees, Left, Ends, Followed
  <2>4. PositionsCome /\ AccountsCome
    BY <1>1 DEF Init, PositionsCome, PositionComes, AccountsCome, AccountComes, Followed
  <2>5. QED
    BY <2>1, <2>2, <2>3, <2>4 DEF ServiceInv
<1>2. QED
  BY <1>1, NextKeeps, PTL DEF Spec

(* However requests, strategies and the tick loop interleave at their      *)
(* awaits, the service's state keeps its types and the loop visits only    *)
(* users who have a broker.                                                *)
THEOREM TypesKept == Spec => []TypeOK
<1>1. ServiceInv => TypeOK
  BY DEF ServiceInv
<1>2. QED
  BY <1>1, ServiceInvAlways, PTL

(* With nothing about a user on its way, an event of a position was sent   *)
(* after the last change of the user's positions.                          *)
THEOREM AlwaysPositionsAnnounced == Spec => []PositionsAnnounced
<1>1. ASSUME ServiceInv PROVE PositionsAnnounced
  <2>1. ASSUME NEW u \in Followed, Quiet(u)
        PROVE  ~untold[u]
    <3>1. PositionComes(u)
      BY <1>1 DEF ServiceInv, PositionsCome
    <3>2. loop.user # u \/ DOMAIN loop.events = {}
      BY <2>1 DEF Quiet
    <3>3. QED
      BY <2>1, <3>1, <3>2 DEF PositionComes, Opening, LoopTelling, Quiet, NoTask
  <2>2. QED
    BY <2>1 DEF PositionsAnnounced
<1>2. QED
  BY <1>1, ServiceInvAlways, PTL

(* With nothing about a user on its way, the order events sent so far tell *)
(* the state of each of the user's orders, but for a rejected fill.        *)
THEOREM AlwaysOrdersMirrored == Spec => []OrdersMirrored
<1>1. ASSUME ServiceInv PROVE OrdersMirrored
  <2>1. ASSUME NEW u \in Followed, NEW o \in OrderIds, Quiet(u)
        PROVE  \/ seenStatus[u][o] = status[u][o]
               \/ seenStatus[u][o] = "rejected" /\ status[u][o] = "pending"
    <3>1. OrderAgrees(u, o)
      BY <1>1 DEF ServiceInv, Mirrored, Mirror, Followed
    <3>2. loop.user # u \/ (loop.events = <<>> /\ DOMAIN loop.events = {})
      BY <2>1 DEF Quiet
    <3>3. ~Stuck(u)
      BY <1>1, <3>2 DEF ServiceInv, PointOK, Stuck, LoopPoints
    <3>4. QED
      BY <3>1, <3>2, <3>3 DEF OrderAgrees, Telling, Left
  <2>2. QED
    BY <2>1 DEF OrdersMirrored
<1>2. QED
  BY <1>1, ServiceInvAlways, PTL

(* With nothing about a user on its way, the last account.updated was      *)
(* taken after the last change of the user's balance.                      *)
THEOREM AlwaysAccountFresh == Spec => []AccountFresh
<1>1. ASSUME ServiceInv PROVE AccountFresh
  <2>1. ASSUME NEW u \in Followed, Quiet(u)
        PROVE  ~unsent[u]
    <3>1. AccountComes(u)
      BY <1>1 DEF ServiceInv, AccountsCome
    <3>2. loop.user # u \/ DOMAIN loop.events = {}
      BY <2>1 DEF Quiet
    <3>3. QED
      BY <2>1, <3>1, <3>2 DEF AccountComes, Accounting, LoopAccounting, Quiet
  <2>2. QED
    BY <2>1 DEF AccountFresh
<1>2. QED
  BY <1>1, ServiceInvAlways, PTL

(* No event gives an order a second end, however late the loop sends what  *)
(* on_quote found.                                                         *)
THEOREM AlwaysEndIsSeenOnce == Spec => EndIsSeenOnce
<1>1. ServiceInv /\ [Next]_vars => [EndsOnce]_vars
  BY NextKeeps
<1>2. QED
  BY <1>1, ServiceInvAlways, PTL DEF Spec, EndIsSeenOnce

-----------------------------------------------------------------------------
(* The brokers keep OrderLifecycle's promise. *)

(* What a step may do to one order of one user. *)
KeepsPromise(v, p) ==
    /\ status'[v][p] \in Books!Reachable[status[v][p]]
    /\ lots'[v][p] > lots[v][p] => status[v][p] # "filled" /\ status'[v][p] = "filled"

LEMMA StaysIsKept ==
    ASSUME TypeOK, NEW v \in Users, NEW p \in OrderIds,
           status'[v][p] = status[v][p], lots'[v][p] = lots[v][p]
    PROVE  KeepsPromise(v, p)
<1>1. status[v][p] \in Status /\ lots[v][p] \in 0..MaxVolume
  BY DEF TypeOK
<1>2. lots[v][p] \in Int /\ ~ (lots'[v][p] > lots[v][p])
  BY <1>1, ServiceAssumption
<1>3. QED
  BY <1>1, <1>2 DEF KeepsPromise, Status, Books!Reachable, Books!Status, Books!Working

(* A request or a strategy changes one order. *)
LEMMA OneKept ==
    ASSUME TypeOK, NEW u \in Users, NEW o \in OrderIds, KeepsPromise(u, o),
           \A v \in Users, p \in OrderIds : ~(v = u /\ p = o) =>
               status'[v][p] = status[v][p] /\ lots'[v][p] = lots[v][p]
    PROVE  \A v \in Users, p \in OrderIds : KeepsPromise(v, p)
<1>1. ASSUME NEW v \in Users, NEW p \in OrderIds PROVE KeepsPromise(v, p)
  <2>1. CASE v = u /\ p = o
    BY <2>1
  <2>2. CASE ~(v = u /\ p = o)
    BY <2>2, StaysIsKept
  <2>3. QED
    BY <2>1, <2>2
<1>2. QED
  BY <1>1

LEMMA FillsKept ==
    ASSUME TypeOK, NEW u \in Users, NEW o \in OrderIds, NEW n \in 1..MaxVolume,
           NextId(u, o), status' = [status EXCEPT ![u][o] = "filled"],
           lots' = [lots EXCEPT ![u][o] = n]
    PROVE  \A v \in Users, p \in OrderIds : KeepsPromise(v, p)
<1>1. KeepsPromise(u, o)
  BY DEF NextId, KeepsPromise, TypeOK, Books!Reachable, Books!Status
<1>2. \A v \in Users, p \in OrderIds : ~(v = u /\ p = o) =>
         status'[v][p] = status[v][p] /\ lots'[v][p] = lots[v][p]
  BY DEF TypeOK
<1>3. QED
  BY <1>1, <1>2, OneKept

LEMMA ClosesKept ==
    ASSUME TypeOK, NEW u \in Users, NEW o \in OrderIds, NEW n \in 0..MaxVolume,
           n <= lots[u][o], status' = status,
           lots' = [lots EXCEPT ![u][o] = n]
    PROVE  \A v \in Users, p \in OrderIds : KeepsPromise(v, p)
<1>1. status[u][o] \in Status /\ lots[u][o] \in Int /\ n \in Int
  BY ServiceAssumption DEF TypeOK
<1>2. status'[u][o] = status[u][o] /\ lots'[u][o] = n
  BY DEF TypeOK
<1>3. KeepsPromise(u, o)
  BY <1>1, <1>2 DEF KeepsPromise, Status, Books!Reachable, Books!Status, Books!Working
<1>4. \A v \in Users, p \in OrderIds : ~(v = u /\ p = o) =>
         status'[v][p] = status[v][p] /\ lots'[v][p] = lots[v][p]
  BY DEF TypeOK
<1>5. QED
  BY <1>3, <1>4, OneKept

LEMMA RequestsKept ==
    ASSUME TypeOK, Request
    PROVE  \A v \in Users, p \in OrderIds : KeepsPromise(v, p)
<1> PICK t \in Tasks, u \in Users, o \in OrderIds :
        \/ PlaceRests(t, u, o) \/ CancelOrder(t, u, o) \/ ModifyPosition(t, u, o)
        \/ \E n \in 1..MaxVolume : PlaceFills(t, u, o, n) \/ ClosePosition(t, u, o, n)
  BY ServiceAssumption DEF Request
<1>1. CASE PlaceRests(t, u, o)
  <2>1. KeepsPromise(u, o)
    BY <1>1, ServiceAssumption
       DEF PlaceRests, NextId, KeepsPromise, TypeOK, Books!Reachable, Books!Status,
           Books!Working
  <2>2. \A v \in Users, p \in OrderIds : ~(v = u /\ p = o) =>
           status'[v][p] = status[v][p] /\ lots'[v][p] = lots[v][p]
    BY <1>1 DEF PlaceRests, TypeOK
  <2>3. QED
    BY <2>1, <2>2, OneKept
<1>2. CASE CancelOrder(t, u, o)
  <2>1. KeepsPromise(u, o)
    BY <1>2, ServiceAssumption
       DEF CancelOrder, KeepsPromise, TypeOK, Books!Reachable, Books!Status, Books!Working
  <2>2. \A v \in Users, p \in OrderIds : ~(v = u /\ p = o) =>
           status'[v][p] = status[v][p] /\ lots'[v][p] = lots[v][p]
    BY <1>2 DEF CancelOrder, TypeOK
  <2>3. QED
    BY <2>1, <2>2, OneKept
<1>3. CASE ModifyPosition(t, u, o)
  BY <1>3, StaysIsKept DEF ModifyPosition, book
<1>4. ASSUME NEW n \in 1..MaxVolume, PlaceFills(t, u, o, n)
      PROVE  \A v \in Users, p \in OrderIds : KeepsPromise(v, p)
  BY <1>4, FillsKept DEF PlaceFills
<1>5. ASSUME NEW n \in 1..MaxVolume, ClosePosition(t, u, o, n)
      PROVE  \A v \in Users, p \in OrderIds : KeepsPromise(v, p)
  <2> DEFINE left == lots[u][o] - n
  <2>1. lots[u][o] \in 0..MaxVolume /\ n <= lots[u][o]
    BY <1>5 DEF ClosePosition, TypeOK
  <2>2. left \in 0..MaxVolume /\ left <= lots[u][o]
    BY <2>1, ServiceAssumption
  <2>3. status' = status /\ lots' = [lots EXCEPT ![u][o] = left]
    BY <1>5 DEF ClosePosition
  <2> HIDE DEF left
  <2>4. QED
    BY <2>2, <2>3, ClosesKept
<1>6. QED
  BY <1>1, <1>2, <1>3, <1>4, <1>5

LEMMA StrategiesKept ==
    ASSUME TypeOK, Strategy
    PROVE  \A v \in Users, p \in OrderIds : KeepsPromise(v, p)
<1>1. ASSUME NEW u \in Users, NEW o \in OrderIds, NEW n \in 1..MaxVolume,
             StrategyFills(u, o, n)
      PROVE  \A v \in Users, p \in OrderIds : KeepsPromise(v, p)
  BY <1>1, FillsKept DEF StrategyFills
<1>2. ASSUME NEW u \in Users, NEW o \in OrderIds, StrategyCloses(u, o)
      PROVE  \A v \in Users, p \in OrderIds : KeepsPromise(v, p)
  <2>1. 0 \in 0..MaxVolume /\ 0 <= lots[u][o]
    BY <1>2, ServiceAssumption DEF StrategyCloses, TypeOK
  <2>2. QED
    BY <1>2, <2>1, ClosesKept DEF StrategyCloses
<1>3. QED
  BY <1>1, <1>2 DEF Strategy

(* A quote may do both to an order at once, and to many orders. *)
LEMMA QuoteKept ==
    ASSUME TypeOK, NEW u \in Users, OnQuote(u)
    PROVE  \A v \in Users, p \in OrderIds : KeepsPromise(v, p)
<1> DEFINE mine    == {o \in OrderIds : SymbolOf[o] = loop.symbol}
           pending == {o \in mine : status[u][o] = "pending"}
<1>1. PICK outcome, volume, closed, done, ended :
        /\ outcome \in [pending -> {"pending", "expired", "filled", "rejected"}]
        /\ volume \in [{o \in pending : outcome[o] = "filled"} -> 1..MaxVolume]
        /\ Quoted(u, outcome, volume, closed, done, ended)
  BY DEF OnQuote
<1>2. \A v \in Users : v # u => status'[v] = status[v] /\ lots'[v] = lots[v]
  BY <1>1 DEF Quoted, TypeOK
<1>3. \A p \in OrderIds :
        /\ status'[u][p] = IF p \in DOMAIN outcome /\ outcome[p] # "rejected"
                           THEN outcome[p] ELSE status[u][p]
        /\ lots'[u][p] = IF p \in closed THEN 0 ELSE Opened(u, volume)[p]
  BY <1>1 DEF Quoted, TypeOK
<1>4. ASSUME NEW p \in OrderIds PROVE KeepsPromise(u, p)
  <2>1. status[u][p] \in Status /\ lots[u][p] \in 0..MaxVolume
    BY DEF TypeOK
  <2>2. Opened(u, volume)[p] = IF p \in DOMAIN volume THEN volume[p] ELSE lots[u][p]
    BY DEF Opened
  <2>3. CASE p \in pending /\ outcome[p] = "filled"
    <3>1. status[u][p] = "pending" /\ status'[u][p] = "filled"
      BY <1>1, <1>3, <2>3
    <3>2. QED
      BY <3>1 DEF KeepsPromise, Books!Reachable, Books!Status, Books!Working
  <2>4. CASE ~(p \in pending /\ outcome[p] = "filled")
    <3>1. p \notin DOMAIN volume
      BY <1>1, <2>4
    <3>2. lots'[u][p] = 0 \/ lots'[u][p] = lots[u][p]
      BY <1>3, <2>2, <3>1
    <3>3. ~(lots'[u][p] > lots[u][p])
      BY <2>1, <3>2, ServiceAssumption
    <3>4. \/ status'[u][p] = status[u][p]
          \/ status[u][p] = "pending" /\ status'[u][p] \in {"pending", "expired"}
      BY <1>1, <1>3, <2>4
    <3>5. QED
      BY <2>1, <3>3, <3>4
         DEF KeepsPromise, Status, Books!Reachable, Books!Status, Books!Working
  <2>5. QED
    BY <2>3, <2>4
<1> HIDE DEF mine, pending
<1>5. ASSUME NEW v \in Users, NEW p \in OrderIds, v # u PROVE KeepsPromise(v, p)
  BY <1>2, <1>5, StaysIsKept
<1>6. QED
  BY <1>4, <1>5

LEMMA StepKept ==
    ASSUME TypeOK, [Next]_vars
    PROVE  \A v \in Users, p \in OrderIds : KeepsPromise(v, p)
<1>1. CASE UNCHANGED book
  BY <1>1, StaysIsKept DEF book
<1>2. CASE \E t \in Tasks : Resume(t)
  BY <1>1, <1>2 DEF Resume, RequestOpened, RequestHistory, RequestAccount, book
<1>3. CASE Loop
  BY <1>1, <1>3, QuoteKept
     DEF Loop, NextSymbol, EndSymbol, SendEvent, LoopOpened, LoopHistory, LoopAccount
<1>4. CASE UNCHANGED vars
  BY <1>1, <1>4 DEF vars, book
<1>5. QED
  BY <1>2, <1>3, <1>4, RequestsKept, StrategiesKept DEF Next

(* Requests, strategies and quotes keep the promise of OrderLifecycle for  *)
(* every order of every user, looked at call by call: an order leaves the  *)
(* book once, nothing reopens it, and exposure comes only from fills and   *)
(* only shrinks afterwards.                                                *)
THEOREM BrokersAlwaysKeepPromise == Spec => BrokersKeepPromise
<1>1. ASSUME Init PROVE Books!Init
  BY <1>1 DEF Init, Books!Init, Orders
<1>2. ASSUME TypeOK, TypeOK', [Next]_vars PROVE [Books!Call]_(Books!vars)
  <2>1. Books!TypeOK'
    BY <1>2 DEF TypeOK, Status, Books!TypeOK, Books!Status, Books!Working, Orders
  <2>2. ASSUME NEW o \in Orders PROVE Books!Becomes(Books!Entry(o), Books!Entry(o)')
    <3>1. o[1] \in Users /\ o[2] \in OrderIds
      BY DEF Orders
    <3>2. KeepsPromise(o[1], o[2])
      BY <1>2, <3>1, StepKept
    <3>3. QED
      BY <3>1, <3>2 DEF KeepsPromise, Books!Becomes, Books!Entry, Orders
  <2>3. QED
    BY <2>1, <2>2 DEF Books!Call
<1>3. QED
  BY <1>1, <1>2, TypesKept, PTL DEF Spec, BrokersKeepPromise, Books!CallSpec
=============================================================================
