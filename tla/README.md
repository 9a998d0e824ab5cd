# EntryX: models, checks and proofs

EntryX is a trading terminal: a FastAPI backend (`src/backend`) with simulated
markets and an in-memory paper broker per user, and a Flutter client
(`src/frontend`) that talks to it over REST and one WebSocket. This directory
holds TLA+ models of the parts in which money, orders, sessions and events can go
wrong, the TLC runs over small instances of them, and TLAPS proofs, for instances
of every size, of every safety and action property those runs find to hold.

## 1. The system

| component | state | operations | talks to |
|---|---|---|---|
| Paper broker (`services/broker.py`) | orders, positions, balance, closed trades, fees | place, cancel, close (in part), modify, deposit, withdraw, `on_quote` | market data (reads quotes) |
| Trading service and tick loop (`services/trading_service.py`, `services/broadcaster.py`, `api/v1/trading.py`) | one broker per user; the loop's position in its list of events | the REST requests; once a second `process_market` per symbol | broker (calls), hub (broadcasts), strategy engine |
| WebSocket hub (`ws/manager.py`, `ws/endpoint.py`) | connections, subscriptions, a sequence number per channel | handshake, subscribe, unsubscribe, broadcast, disconnect | clients (sends that may block or fail) |
| Strategy engine (`services/strategy.py`, `api/v1/strategies.py`) | instances with status idle, running, stopped, error | start, stop, feed candles and quotes | broker (direct calls, from worker threads) |
| Backtest and optimisation (`services/backtest.py`, `optimization.py`, `metrics.py`, `api/v1/backtests.py`) | a broker of its own, a bar cursor, queued market orders; a grid and its results | one bar at a time: fills, protections, hooks; sweep, rank, walk forward | strategies |
| Sessions (`services/auth_service.py`, `core/security.py`, `api/deps.py`; client: `core/api_client.dart`, `token_store.dart`, `auth_store.dart`) | users, refresh tokens, request windows; the client's pair of tokens | register, login, refresh, logout, rate limits; a call with its automatic refresh | database |
| Safeguards and risk (`providers/broker/safeguards.py`, `services/risk_engine.py`, `api/v1/safeguards.py`) | settings, kill switch, the day's result | check an order, replace settings | a live broker (reads, orders) |
| Detectors (`services/market_structure.py`, `services/smc_objects.py`) | none | swings, breaks, gaps, blocks, pools of a bar sequence | market data |
| Client connection (`core/ws_client.dart`) | socket, subscriptions, back-off | connect, reconnect, resubscribe | hub |
| Client stores (`features/*/*_store.dart`) | what the panels show | refresh on events, user actions | client connection |

Indicators, the AI assistant, configuration, persistence, logging
and the widgets keep no protocol state of their own; `PROJECT.json` lists every
component with its status.

### What is hard, and what each part owes

*Paper broker.* A class without locks, entered from the event loop. The
difficulty is in sequences of calls: partial closes, fees charged at three
places, stops moved by trailing and by clients, stop-limit orders that remember
a crossing, orders that cannot be paid for, an `on_quote` that fills, closes and
expires in one call. It owes: lots and money are conserved, protections never
cross, `on_quote` never loosens a stop and leaves nothing undone, orders fill at
most once and never after expiry.

*Trading service and tick loop.* Coroutines of one event loop that interleave at
each broadcast. `on_quote` returns a list of events that is sent one await at a
time while requests go on changing the same book; after an await the position an
event is about is looked up again. It owes: no change of an order, a position or
the balance stays without its event, no order is seen to end twice, one account
does not keep the loop from the others.

*Hub.* Slow and vanishing clients. A broadcast waits at each subscriber in turn,
so broadcasts overlap; tables change between a check and its use. It owes: the
tables agree with the live handlers, an event reaches each subscriber who is
still there exactly once, in order, and a broadcast ends.

*Strategy engine.* Starts and stops run in worker threads, quotes are fed from
the event loop's thread, hooks call the broker and may raise; only the table of
instances has a lock. It owes: a stopped instance stays quiet, a running one can
be found, stopped and is fed whatever others do, and a strategy that means to
hold one position does not hold two.

*Backtest and optimisation.* The broker calls back into the strategy in the
middle of its loops over orders and positions. It owes: an order is not filled
on the bar it was placed on (it breaks this in one place, section 4), exits are at
prices the market traded, the books add up, and the label "low risk of
overfitting" means what it says, with failed combinations in the ranking.

*Sessions.* Two API calls renew the same one-time token; the server commits the
revocation and the replacement separately, may be killed between, and the answer
may be lost; what is under way when a session ends goes on into the next. It
owes: a token is spent before it is replaced, and the client is not left with a
token that the server has revoked.

*Safeguards.* The gate reads the settings, and the broker, one by one before it
acts. It owes: the limit of positions is roughly kept. The routes replace their
own copy of the settings by read-modify-write in threads.

*Detectors.* Pure functions of a series of bars that need later bars to be sure.
They owe stability to whoever replays a history: what they find in a series they
find in a longer one.

*Client stores* (not modelled): answers out of order leave a store stale.

## 2. Modules

| module | models | kind |
|---|---|---|
| `OrderLifecycle` | what a broker promises about one order and its exposure, step by step and call by call | abstract specification |
| `PaperBroker` | `services/broker.py`, every mutating operation | component; refines `OrderLifecycle` |
| `PaperBrokerProofs` | the theorems about `PaperBroker` | proofs |
| `TradingService` | `trading_service.py`, the tick loop, strategies as direct callers | composition over the users' brokers; keeps `OrderLifecycle` call by call |
| `TradingServiceProofs` | the theorems about `TradingService` | proofs |
| `WsHub` | `ws/manager.py`, `ws/endpoint.py` | component |
| `WsHubProofs` | the theorems about `WsHub` | proofs |
| `StrategyEngine` | `strategy.py`, `api/v1/strategies.py`: threads as stacks of calls | component |
| `StrategyEngineProofs` | the theorems about `StrategyEngine` | proofs |
| `Sessions` | `auth_service.py`, `security.py`, `deps.py`, `api_client.dart`, `token_store.dart`, `auth_store.dart` | server and client composed, with kills and lost answers |
| `SessionsProofs` | the theorems about `Sessions` | proofs |
| `Backtest` | `backtest.py`, `metrics.py`: one run with an arbitrary strategy | component |
| `Optimizer` | `optimization.py`: grid, ranking, walk-forward, overfitting score | component |
| `BacktestJobs` | `api/v1/backtests.py` | composition of the two |
| `MarketStructure`, `SmcObjects` | `market_structure.py`, `smc_objects.py` | operators over a sequence of bars |
| `Detectors` | a series with a fixed first bar, analysed after every bar | component over the operators |
| `HistoryProofs` | the theorems about what is computed from a history of bars: `BacktestJobs` and `Detectors` | proofs |
| `Safeguards` | `providers/broker/safeguards.py` | component |
| `SafeguardsProofs` | the theorems about `Safeguards` | proofs |
| `SumTheorems` | induction over finite sets; sums over functions and sequences | lemmas for the proofs |
| `MCPaperBroker`, `MCTradingService`, `MCWsHub`, `MCStrategyEngine`, `MCSessions`, `MCBacktest`, `MCDetectors`, `MCHistory` (the last two together), `MCSafeguards` | the instances that TLC checks | model checking |

### PaperBroker and the code

| module | code |
|---|---|
| `orders`, `positions`, `closed` | `_orders`, `_positions`, `_closed`; ids are numbers in the order they are handed out, a position carries the id of the order that opened it (`o-x` and `p-x`), a missing key is `None` |
| `balance`, `commissionTotal` | `_account.balance`, `_commission_total` |
| `PlaceMarket`, `PlaceResting` | `place_order`, with `_validate_sl_tp`, `_validate_stop_limit`, `_maybe_fill` and `_fill` |
| `CancelOrder`, `ClosePosition`, `ModifyPosition`, `Deposit`, `Withdraw` | the methods of those names |
| `BeginSweep` ... `Return` | one call of `on_quote`, split at its loop iterations |
| `MaybeFill`, `Fill`, `Settle`, `Trailed` | `_maybe_fill`, `_fill`, the body of `close_position`, `_apply_trailing` |
| `MarketMoves`, `NewDay` | the provider's quotes and the clock |
| `paidIn` | history variable: deposits less withdrawals |

A failed call (an exception before any assignment) is a disabled action: nothing
changes. A market order that is rejected leaves no trace in the broker and is
not a step either. Money, prices, lots and days are integers: a price is the
value of a lot and a fee is a multiple of the notional, so the code's `round`
has nothing to do. What the roundings add up to is therefore not covered. Swap
is charged per whole day; the code charges fractions of days.

`on_quote` is split so that each step concerns one order or position, which is
what makes the refinement of `OrderLifecycle` a statement about each of them.
Every other call requires `Idle`: in the code, too, nothing on the event loop
gets between two iterations. Worker threads could (see the hazards in
`PROJECT.json`); they are not modelled.

### TradingService and the code

The broker is represented by its life cycle: `status[u][o]` and `lots[u][o]`,
and everything prices can bring about is a choice. `OnQuote` computes the list
of events as `on_quote` does: orders in the order of their ids, then positions.
The code between two awaits is one action; a broadcast is an await. Since a
broadcast numbers its event before it waits, the events of a channel are
numbered in the order of the actions, and what they tell of each order is kept
in `seenStatus`. `untold` says that a position changed after the last
`position.*` event, `unsent` that the balance changed after the last
`account.updated`. That the hub may deliver in another order is the hub's
concern.

No property adds up the lots that the events of positions carry, because nobody
can: `position.opened` sends the position, `position.closed` sends the trade
(`to_trade_out`), with an id of its own and neither the position's nor the
user's. A subscriber who wants the positions has to fetch them, and the client
does so on every event (`trading_store.dart:32-34`); `PositionsAnnounced` is what
that needs.

`StrategyFills` and `StrategyCloses` are the calls of
`StrategyContext.place_order` and `close_position`, which do not go through the
trading service and announce nothing. They come from worker threads, so they
may happen between any two steps.

`loop.at = "dead"` is the loop after an exception: nothing between
`process_market` and `asyncio.gather` catches it, and nothing starts the
coroutine again.

### WsHub and the code

`handler[c]` is the program counter of `websocket_endpoint`; `connections`,
`userConnections`, `channels` and `seqs` are the manager's four dictionaries.
A Python set iterates in an order that an insertion may change and a removal
does not, so `channels[ch]` is a sequence and `Subscribe` picks any order.
`publisher[p]` is what is left of a `broadcast`, and `waiting[c]` the senders
that wait on one connection, served first come, first served, as the transport
does. Error replies, acknowledgements and message parsing are left out.
`heartbeat_all` has no caller in the repository. `close_all` runs in the
application's shutdown, which the server begins after it ended the handlers.

### StrategyEngine and the code

`calls[t]` is the stack of thread t: at the bottom the request or the feed, above
it the hooks it is in, each with the point it has reached. `table` is
`_instances`, `status[i]` a runner's status, `owners` and `open` the positions
the instances opened on their broker. A step is a test with the call it guards,
or the return from a hook. `Register`, `RunnerStart`, `FeedCandle`,
`StartFeedsQuote`, `StartEnds` are `start`; `StopTests`, `RunnerStop`,
`StopRemoves` are `stop`; `BeginFeed`, `FeedNext` are `feed_quote` over the copy
of the table it took. `HookRaises` is `_guard`'s except clause. The strategy is
`SmaCrossStrategy` with an arbitrary indicator; the broker's calls are atomic.

### Sessions and the code

`row[k]` is a row of `refresh_tokens`, `parent` a history variable, `store` the
client's `TokenStore`, `signedIn` the status of `AuthStore`, `call[c]` an API call
of the client from `_request` to its answer, on both sides of the wire:
`refused`, `renewed`, `granted`, `expired`, `leaving` are points of the client,
`sent`, `login`, `logout`, `reads`, `revokes`, `issues` of a worker thread.
`RefreshReads`, `RefreshRevokes`, `RefreshIssues` are the three database
operations of `refresh`. `Login`, `IssueTokens`, `StoreLogin` and the `Serve` that
follows are `AuthStore.login` with its request for the profile; like the code
it waits for nothing of the session before, so a renewal of that session may
store its token over the new one, or clear it. `Leave` is `logoutSilently`,
whose clearing comes last and is the only one that is modelled for it.

`Crash` ends every request on the server, `LoseAnswer` loses one answer. `cut`
is a history variable: the tokens that were revoked for a replacement that the
client never got, because of either. `StoredIsAlive` excepts these, and nothing
else: renewals that overlap each other, a logout or a new login are part of it.

A token stands for a refresh token and the access token issued with it. The
server keeps no access token, and whether one has expired when it is presented
is left open. Refresh tokens expire in the order they were issued, since all live
equally long. `restore()` and restarts of the client are not modelled.

### Backtest, Optimizer, BacktestJobs and the code

`at` and `bar` say where `run_backtest`'s loop stands, `hook` which hook of the
strategy is running (then the strategy may trade, return or raise), `queue` is
`_open_fill_ids`, `todo` what is left of a bar's loop over resting orders. Prices
and money are integers, one bar is one day. `Optimizer` runs a backtest for each
combination of the grid, which is any outcome of a set there; `BacktestJobs` is
the request that asks for one or the other, so that one run checks both.
`MaxDrawdown` is the code's single pass over the equity curve; `BooksBalance`
compares it with the largest fall between any two of its points.

### Detectors and the code

`Analyze` and `AnalyzeSmc` are the functions of those names, their detectors one
operator each. Swings and objects are records in sets where the code has lists
in the order of the bars; "the last swing before" is then the one with the
greatest bar. The pass over breakouts and their retests is a function on the
number of bars gone through (`pass`). Percentages and strengths are integers or
left out where nothing reads them. `StructureOr` is `structure or
classify_structure(candles)`: an empty structure counts as one that was not
passed. `Detectors` calls both after each new bar of a series that keeps its first
bar, and its properties compare one analysis with the next; `UsualRequest` are the requests that confirm swings by the
default number of bars to the right and look no further to the left.

What two answers of `GET /structure` or `GET /smc` have in common is not
modelled and not claimed. The routes analyse the last `limit` candles
(`structure.py:22,30`, `smc.py`), a window that loses its oldest bar when it gains
one, so objects leave with the bars they rest on, labels and regimes that look
back to them may change, and indices shift. The simulated provider makes the
same random walk anew for each request and puts later times under it
(`market_data.py:175-210`). The properties are stability of the pure functions
over the prefixes of one series, which is what a replay of history relies on.

### Safeguards and the code

`config`, `order`, `waiting`, `open` and `daily` are the gate's settings, the
orders on their way through it, the broker's book and the day's result. `Check`
is one test of `check_order`, which reads the settings of the moment; `CheckLoss`
and `Send` follow. The live broker is external, and `BrokerAdapter.place_order`
promises an order, not a fill: `Send` opens a position at once (`open.prompt`),
leaves an order that the broker fills later (`open.late`) or gives up, or is
refused, whatever the type of the order. `check_order` counts the positions
that are open, both kinds, and nobody counts orders that wait; so
`PositionsBounded` is about `open.prompt` only, and orders the broker fills late
exceed the limit by as many as were sent meanwhile.

## 3. Runs

| run | instance | distinct states | what it shows |
|---|---|---|---|
| `broker` | 1 symbol, bids 2..4, 2 orders out of 4 kinds of request, 3 days, cash 3 | 1.3 million | nine properties, see below |
| `trading` | a client with 2 orders and 2 concurrent requests, a robot with 1 order, 2 symbols, 2 lots | 0.2 million | no change goes without its event; the loop serves everyone until it dies |
| `hub` | 2 connections of a user who may have 1, 2 publishers, 3 events | 0.1 million | tables, exactly-once delivery, broadcasts end |
| `strategy` | 2 workers and the loop, 2 instances, 2 positions, replays of two and one candles | 0.5 million | stopped stays quiet, running can be found and is fed |
| `sessions` | 2 concurrent calls, 4 tokens | 0.6 million | one-time tokens, the stored one alive, calls end |
| `history` | 2 series of 2 and 3 gapping bars, 2 orders out of 5 kinds; grids of up to 4 combinations; every series of up to 7 bars of 5 moves per bar | 0.6 million | fills at the next open, exits at traded prices, books, earned label; no repainting, objects only age, retests are live |
| `safeguards` | 2 traders, 4 settings, 2 days, 1 order that waits | 0.3 million | positions bounded |
| `broker_net_pnl` | as `broker` | violation | net pnl counts the opening fee twice after a partial close |
| `broker_swap` | as `broker`, no commission | violation | negative swap points are credited |
| `trading_events` | as `trading` | violation | `order.filled` without `position.opened`; the loop dies |
| `backtest_next_open` | the backtests of `history` | violation | a market order filled at the open it was placed in |
| `hub_seq` | as `hub` | violation | sequence numbers arrive out of order |

Properties of `broker`: `VolumeConserved`, `BookBalances`, `ProtectionsOrdered`,
`PositionBacked`, `SweepSettles`, the action properties `StopNeverLoosened` and
`NoFillAfterExpiry`, and the refinement `LifecycleSpec`. Of `trading`:
`PositionsAnnounced`, `OrdersMirrored`, `AccountFresh`, `EndIsSeenOnce`,
`LoopServes`.
Of `hub`: `TablesAgree`, `DeliveredOnce`, `NoneMissed`, `BroadcastEnds`.

Of `strategy`: `OneOwnPosition`, `RunningIsListed`, `NoHookAfterStop`, `FedAgain`.
Of `sessions`: `SpentBeforeReplaced`, `SiblingsBounded`, `StoredIsAlive`,
`CallsEnd`. Of `history`: `NextOpenFills`, `ExitsTraded`, `BooksBalance`,
`LowIsEarned`, `RetestsAreLive`, `NoRepaint`, `ObjectsOnlyAge`. Of `safeguards`:
`PositionsBounded`. Each run but the last has one type invariant besides.

`history` takes two systems that share no state, what the backtest routes run
and what the detectors find, and lets one of them go on at a time: a state of
the run is a state of `BacktestJobs` or of `Detectors` beside an initial state of
the other.

Bounds. *Broker*: two orders let two fills compete for a balance that pays for
either but not always for both, let a sweep expire one order and fill the
other, and let ids be handed out while a position is open. The four requests
are one per path: a protected market order of two lots (partial closes), a limit
that expires, a stop, and a stop-limit whose limit the market can jump over.
Three bids with a spread of one are enough for a price below, at and above each
level. Three days reach the day before, of and after the expiry. *Trading*: two
requests are the fewest that can interleave with each other and the loop; two
orders on one symbol let one `on_quote` return several events; two lots let a
close be partial. *Hub*: two subscribers are the fewest whose order matters and
two publishers the fewest that can overlap; a third event shows what follows an
overtaking. `CHECK_DEADLOCK FALSE` where the bounds run out (all ids used, all
numbers taken), the run is over or the loop is dead; `broker` and `safeguards`
run with deadlock checking. *Strategy*: two workers overlap a start with a stop
or two stops; two instances let one disturb the other; two positions let one
instance buy twice. *Sessions*: four tokens are a login, two renewals of the
same token at once, and one more, or a login, a renewal under way and the next
login; a login starts only while there is room for what open calls may still be
issued. *History*: two orders let one be queued while the other's fill calls a
hook; the bars gap over levels and touch both protections of a position. Of the
detectors, seven bars are enough for every kind of
object to appear and to age; windows are cut to 1 to 3 bars so that they are
filled and left within the series. *Safeguards*: two orders at once; the limits
are 1 and 2 positions, so that both are exceeded.

Fairness. `TradingService` assumes that the loop's steps go on: a send that
fails is caught by `broadcast`, one that hangs fails when the server's ping
times out, and the event loop then resumes the coroutine. `WsHub` assumes the
same of each connection's sends. `StrategyEngine` assumes that the
loop's thread is scheduled and its hooks end, and nothing of the workers, for
whom it never waits; `Sessions` assumes that the server's threads and the client's
futures run once a call is made. Nothing is assumed of clients, requests,
strategies, prices or the clock; `PaperBroker` has no fairness and no liveness.

What the passing properties leave out is stated in them: `OrdersMirrored`
excepts orders reported as rejected that the broker keeps, `PositionsAnnounced` and
`AccountFresh` concern users without strategies, and a user whose events the
loop died over is never `Quiet` again.

Faulty variants. A definition whose comment begins "Faulty variant" is not part
of the model. It is the original with a mistake one could make in that code, and
shows that the property named with it in `PROJECT.json` notices.

## 4. Findings

1. **`net_pnl` after partial closes.** Closing one lot of two charges half of
   the opening commission to the trade; the position keeps the whole
   commission, so closing the other lot charges all of it. The balance is right
   (`BookBalances` holds), `net_pnl` and the account's `realized_pnl` are not.
2. **Sign of the swap.** The comment says negative points are a cost and
   `equity` adds the swap; `close_position` subtracts it.
3. **A rejected fill kills the tick loop.** `on_quote` reports `order.filled`
   whenever `_maybe_fill` returns an order, also a rejected one; `process_market`
   then looks up a position that does not exist. A protection in the same call
   and a close during the await have the same effect. After it no user's orders
   are tried again.
4. **`seq` is not monotonic for a receiver.** Two broadcasts of a channel can
   wait at different subscribers.
5. **A market order filled at the open it was placed in.** `on_bar` iterates over
   the live list of queued orders, so an order that a hook of the opening asks
   for is filled at the same bar's open, although `backtest.py:9-10` says the
   next. `NextOpenFills` says that no other hook's order is.

Seen while modelling, without a run: a resting order that is crossed at once
without margin is answered "rejected" and stays in the book; `place_order` fails
with an unknown position if it is closed while `order.created` is being sent;
a connection whose greeting fails is never removed from the table.
`docs/EVENT_CONTRACTS.md:49` gives a Position object as the payload of
`position.closed`; the code sends the closed trade, which names neither the
position nor the user.

*Strategies.* `shutdown`, documented "Called once" (`strategy.py:78`), runs twice
for two overlapping stops, and never for an instance that failed. A hook that
raises after a stop turns "stopped" into "error". A stop that comes before the
instance runs removes it from the table, and start then runs an instance that
nobody can stop (`early`). A start that fails half way leaves a registered,
running instance although the caller got an error. The loop may feed `on_tick`
before or during `initialize`. The replay of candles at a start places live
paper orders. `SmaCross` closes every position on its symbol, whoever opened it.

*Sessions.* Overlapping refreshes exchange one token twice, although
`auth_service.py:92` says one-time use (`SiblingsBounded` says how often). A
logout while a refresh is under way, or with an expired access token, leaves a
live session behind. A refresh that is refused, throttled or loses the race
clears the session another call has just stored. A kill or a lost answer between
revoking and storing ends the session. A renewal of the old session that ends
after a new login stores its token over the login's (`api_client.dart:73`): the
client is then signed in as the new user with the old session, whose token is
alive (`StoredIsAlive` says no more). `api_client.dart:2-4` says the request is
retried after a refresh; line 56 sends the same `http.Request` again, which the
first sending has finalized, and `package:http` throws, so the caller gets an
error although the session was renewed.

*Backtest.* Orders from `initialize` fill at the first bar's open; resting orders
that a hook of the opening places are matched with that bar, although
`backtest.py:10-11` says the bar after. A position
that a resting order opens within a bar is exited against the whole bar, its
open included. A resting order fills at its level even if the bar never traded
there (`backtest.py:77-78` claims gaps are handled). The opening loop iterates
the list it extends, so a strategy that answers each fill with a market order
never ends (the bound on orders hides this). `net_pnl` of a trade leaves out the
opening commission (`ProfitExplained`, a part of `BooksBalance`, accounts for
it).

*Optimisation.* For a metric where less is better, a combination that failed
ranks first, and the largest loss, being negative, ranks first as well. A
profit factor that is undefined for want of losses ranks last.

*Detectors.* A break may be found at an old bar that did not show it when it was
the last one, although `market_structure.py:211` says that no future bars leak
into a break. Where the structure of the requested `left` and `right` is empty,
`structure = structure or classify_structure(candles)` (`market_structure.py:214`,
also `:284`, `:371` and `:413`) takes the default structure, whose swings need
`SWING_RIGHT` bars, while the detectors go on waiting for the requested `right`,
which may be 0. With `Left` 7, `Right` 0 and the defaults at 1, nine bars of the
moves of `MCMoves` without the wide rise are enough for TLC to violate
`NoFutureInBreaks`. `BreaksSeeNoFuture` proves that it takes a `right` below the
default; this is why `NoRepaint` is stated of usual requests. Nor are strengths
final: `_swing_strength` always looks `SWING_RIGHT` bars ahead, so with a smaller
`right` the strength of a reported swing changes with later bars, although
`market_structure.py:43` calls it confirmed. A broken level may fire again after
the price fell back, although `market_structure.py:210-211` says at most once. Liquidity pools, sweeps and
premium or discount zones do change when a bar is added, and are not part of
`NoRepaint`. An order block can be born invalidated.

*Safeguards.* `require_confirmation`, on by default, rejects every order, since
nothing can confirm one. A day's gain counts against the limit like a loss.
Nothing is tested without equity. Orders count only when they are filled, so
those the broker fills late are not bounded. A PUT that overlaps the kill switch switches it off again;
settings are lost at a restart; the routes' settings never reach a gate, and
the application creates none.

## 5. Proofs

`PaperBrokerProofs` proves, for every value of the constants that satisfies
`BrokerAssumption`:

| theorem | says |
|---|---|
| `TypeCorrect` | `Spec => []TypeOK` |
| `PositionsAreBacked` | `Spec => []PositionBacked` |
| `ProtectionsStayOrdered` | `Spec => []ProtectionsOrdered` |
| `StopsOnlyTighten` | `Spec => StopNeverLoosened` |
| `ExpiryIsRespected` | `Spec => NoFillAfterExpiry` |
| `ImplementsLifecycle` | `Spec => LifecycleSpec` |
| `CallsKeepPromise` | `Spec => Lifecycle!CallSpec` |
| `SweepAlwaysSettles` | `Spec => []SweepSettles` |
| `VolumeAlwaysConserved` | `Spec => []VolumeConserved` |
| `BookAlwaysBalances` | `Spec => []BookBalances` |

The first seven rest on one inductive invariant, `IInv`. None of the properties is
inductive alone. That a position is backed survives a fill only if an order
that is not filled has no position; that a fill produces ordered protections
needs that of every pending order (checked by `place_order` against its own
price, not the fill's); that the sweep's step acts on something real needs that
whatever is in `sweep.todo` is pending, or open, and on the sweep's symbol.
`IInv` says these things together with `TypeOK`. Each action's proof of
preservation is a lemma (`FillKeeps`, `MaybeFillKeeps`, `SettleKeeps`, ...), so
that the theorem over `Next` has one step per action. The refinement is proved
action by action over the mapping `OrderStatus`, `OpenLots`: each action
changes the entries of one id (`OnlyId`) and is the abstract action of that id
or a stutter. `CallSpec` is the same promise for one who sees the book only
between calls: a step keeps it (`StepIsCall`), and two parts of a call that keep
it make a call that does (`CallsCompose`).

`SweepSettles` speaks of the end of `on_quote` only. `SettleInv` adds to it, for
every moment of the call, that an order or a position the sweep is not going to
look at any more is settled (`SettledSoFar`), which no later iteration undoes:
prices do not move during the call, and settling one id leaves the others alone.
An order that cannot be paid for stays pending although its price was reached;
it counts as settled because the rejection was reported (`Reported`).
`OnlyRestingWait` excludes market orders that wait.

`VolumeConserved` and `BookBalances` are sums over the sequence of closed trades
and over the ids. They are inductive together with `TypeOK` (`Sums`), given what
a step does to a sum: a fill changes the volume of one order and its position, a
close appends one trade and takes as much off one position, and everything else
leaves the summands alone (`TradeAdds`, `FillAddsUp`, `SettleAddsUp`,
`StillAddsUp`).

`SumTheorems` proves what such steps need. The community modules define a sum by
`CHOOSE`, as a function on the subsets of a set; that such a function exists and
that its value does not depend on the member taken first go by induction on the
cardinality. The library's induction theorems take an operator and cannot be
used, so `Induction` is stated of a set of naturals, from the well-foundedness of
the order: a set that lacks a number lacks a least one. From there: the sum
of a function changed in one place (`SumChanged`), of a sum of functions, of a
sequence with an element appended or removed, of a concatenation
(`SumConcatenated`), of the same summands in another order (`SumReordered`).

`TradingServiceProofs` proves, for every value of the constants that satisfies
`ServiceAssumption` (any users, requests, symbols and orders):

| theorem | says |
|---|---|
| `TypesKept` | `Spec => []TypeOK` |
| `AlwaysPositionsAnnounced` | `Spec => []PositionsAnnounced` |
| `AlwaysOrdersMirrored` | `Spec => []OrdersMirrored` |
| `AlwaysAccountFresh` | `Spec => []AccountFresh` |
| `AlwaysEndIsSeenOnce` | `Spec => EndIsSeenOnce` |
| `BrokersAlwaysKeepPromise` | `Spec => BrokersKeepPromise` |

The three invariants speak of a user about whom nothing is on its way; between
two awaits they are false. `ServiceInv` says what makes up the difference while
something is. A status a client has seen differs from the broker's only if an
event of the loop is still going to tell it (`OrderAgrees`); a position that
changed has a `position.opened` or `position.closed` to come, of a request or of
the loop (`PositionsCome`); a balance that changed has an `account.updated` to
come (`AccountsCome`). `EventsTrue` is what makes a late event harmless: an order
`on_quote` reported as filled or expired cannot change before it is told, while
one reported as rejected can still be cancelled. `EndIsSeenOnce` follows from it
and from the second conjunct of `Mirror`. The invariants are about the users no
strategy trades for (`Followed`), since a strategy's calls announce nothing;
`EndIsSeenOnce` is about everybody.

`TradingService` does not contain `PaperBroker`; it lets its brokers do whatever
prices could bring about. `BrokersKeepPromise` says that they never do more than
`OrderLifecycle` allows of calls, which `PaperBroker` keeps as well
(`CallsKeepPromise`): an `OnQuote` that fills one order, closes its position and
expires another is one step here and several there. It is proved and not part of
a run; it needs no invariant beyond the types.

`StrategyEngineProofs` proves, for every value of the constants that satisfies
`EngineAssumption` (any number of worker threads, instances, candles and
positions):

| theorem | says |
|---|---|
| `TypesKept` | `Spec => []TypeOK` |
| `AlwaysOneOwnPosition` | `Spec => []OneOwnPosition` |
| `RunningAlwaysListed` | `Spec => []RunningIsListed` |
| `NeverHookedAfterStop` | `Spec => NoHookAfterStop` |

`EngineInv` says which stacks of calls there are: at most a request and one hook
of the same instance above it, and what each point says about the instance's
status (`StackOK`). Candles reach an instance only through the one start that
registered it (`OneStarter`), so two threads are never in its `on_signal` at
once, and an `on_signal` that acts has seen each position of its own instance
(`SeenOwn`): without both, `OneOwnPosition` would not survive the step that opens
one. `Listed` is `RunningIsListed` for idle instances as well, which become
running later.

`SessionsProofs` proves, for every value of the constants that satisfies
`SessionsAssumption` (any finite set of calls, any number of tokens):

| theorem | says |
|---|---|
| `TypesKept` | `Spec => []TypeOK` |
| `AlwaysSpentFirst` | `Spec => []SpentBeforeReplaced` |
| `AlwaysSiblingsBounded` | `Spec => []SiblingsBounded` |
| `StoredAlwaysAlive` | `Spec => []StoredIsAlive` |

`ServerInv` is about the server alone: tokens are handed out in order, a call
presents only issued tokens, and a refresh that is about to insert has spent its
own. `SiblingsBounded` is not inductive: several refreshes may have read a token
live and not inserted yet. `SiblingRoom` counts them with the exchanges made:
together they are no more than the calls, since a call that has exchanged a
token can begin again only with one that is live, and that one is not live any
more. `StoredIsAlive` (as `Mended`) is not inductive either: it needs that a session on
its way to the client is one that nobody else has. `NewsAreNew` says so: the
token of an answer that the client has yet to store is live, is not the stored
one, and no other call presents it or asks to revoke it. Each step that revokes a
token is then by the call that mends it, or of a token that is not stored.

`HistoryProofs` proves, for every value of the constants that satisfies
`BacktestAssumption` and `OptimizerAssumption` (any series of bars whose low is
positive and bounds open and close with the high, any strategy, any grid; any
outcomes of which `Lowest` is below the values):

| theorem | says |
|---|---|
| `TypesKept` | `JobsSpec => []JobsTypeOK` |
| `AlwaysAtNextOpen` | `JobsSpec => []NextOpenFills` |
| `ExitsAlwaysTraded` | `JobsSpec => []ExitsTraded` |
| `BooksAlwaysBalance` | `JobsSpec => []BooksBalance` |
| `LowAlwaysEarned` | `JobsSpec => []LowIsEarned` |

`Waiting` strengthens `NextOpenFills` and says of the excepted orders, too, at
which open the code fills them (`Due`): until the opening of a bar is over, no
order is due after that bar; before the first one only `initialize` has placed
any; every pending market order is in the queue; the
loop over resting orders holds only such as were due at its bar. `Books` is
the account and the volumes with the sums over all ids, those not handed out
yet included, so that placing an order adds nothing; the report needs in addition
that a finished run holds no position (`NoneLeft`). The grouping of exits and
remaining positions within a bar, and the order in which both loops go through
them, are settled by `SumReordered` and `SumConcatenated`. That `MaxDrawdown` is
the largest fall is an induction along the curve: after each point the
pass knows the highest value so far and the largest fall down to it (`Seen`).
`LowIsEarned` needs that the ranking put the best combination first
(`BestFirst`), which holds of any order the sort may return.

It also proves, for every value of the constants that satisfies
`StructureAssumption`, `SmcAssumption` and `ChartAssumption` (any series of
bars, any default and requested swings, any windows and limits):

| theorem | says |
|---|---|
| `RetestsAlwaysLive` | `ChartSpec => []RetestsAreLive` |
| `ObjectsAlwaysAge` | `ChartSpec => ObjectsOnlyAge` |
| `NeverRepainted` | `ChartSpec => NoRepaint`, for a usual request |
| `BreaksSeeNoFuture` | `ChartSpec => NoFutureInBreaks`, for a request with `Right >= SWING_RIGHT` |

The invariant only says that the bars are well formed and that the answers are
those for the bars (`ChartInv`); the substance is what one more bar does to each
detector. `Grown` says that a series is another with one bar more,
`KnownGrows` that the swings known are the old ones and those that the new bar
confirms. From there, detector by detector: a label looks back only
(`ClassifyGrows`), the last swing a bar knows of is the same in both series
(`SameLastSwing`), and so are the breaks at an old bar and the regime there
(`SameBreaksAt`, `SameRegime`). The loop over breakouts and retests is a
recursive function, which exists by induction over the bars (`PassExists`); that
its state at an old bar is the same in the longer series (`PassGrows`) and that
the breakout it waits for has not failed yet (`LoopInv`, for `RetestsAreLive`) are
inductions of the same kind. Objects only age because the first of the bars that
end one is still the first when a later bar joins them (`FirstStays`), and a
block is no weaker because the strongest of more displacements is no weaker
(`StrongestIs`).
`LookedGrows` is the switch from the default structure to the requested one,
which happens when the first requested swing is confirmed.

`WsHubProofs` proves, for every value of the constants that satisfies
`HubAssumption` (any number of connections, channels and publishers, finite or
not):

| theorem | says |
|---|---|
| `TypeAlwaysOK` | `Spec => []TypeOK` |
| `TablesAlwaysAgree` | `Spec => []TablesAgree` |
| `AlwaysDeliveredOnce` | `Spec => []DeliveredOnce` |
| `AlwaysNoneMissed` | `Spec => []NoneMissed` |

The invariant has two halves. `Tables` is `TablesAgree` with the types of the
tables; it is inductive by itself, but for the lemmas about the order in which a
channel iterates (`OrdersList`, `DiscardRemoves`). `Sends` is about the
broadcasts: a publisher waits only in the send of the first of the connections
it has left, and once there (`WaitsInTurn`); whoever is left was meant and has
not had the event (`RestIsOwed`); no two broadcasts have the same number on a
channel (`OwnNumber`); no connection has a number that is not taken yet
(`NumbersTaken`); whoever was meant has had the event, is gone, or is still owed
it (`NoneLost`). Without `WaitsInTurn` the end of a send could be counted for
the wrong broadcast, without `OwnNumber` two broadcasts could deliver the same
number, and without `NoneLost` nothing connects the end of a broadcast with
what it promised at its beginning. `Publish` needs `Tables` as well: the list of
subscribers is the whole channel because everyone in it is connected
(`SubscribersListed`).

`SafeguardsProofs` proves, for every value of the constants that satisfies
`SafeguardAssumption`:

| theorem | says |
|---|---|
| `PositionsAlwaysBounded` | `Spec => []PositionsBounded` |

`PositionsBounded` is not inductive: an order may still be on its way. `RoomLeft`
counts the orders that have passed the test of the limit (`Through`) with
the positions that were filled at once. When an order passes, the positions alone are below the limit of
that moment and there are at most as many orders past the test as traders; every
other step moves an order into the positions or shrinks either.

Every invariant and every action property that a run finds to hold is stated by
a theorem. What is only model-checked is liveness (`LoopServes`,
`BroadcastEnds`, `FedAgain`, `CallsEnd`): fairness is `ENABLED`, which is out of
the prover's reach.

## 6. Plan

1. `ClientLink`: reconnection, resubscription and stores that refresh on events,
   composed with the hub's delivery (gaps, duplicates, reordering).
2. `BrokerThreads`: the broker's reads and writes under two threads.

## 7. Not modelled

The AI assistant and the strategy builder (prompts to an external model),
indicators and the risk engine (arithmetic without state), persistence,
configuration, logging and the user interface. Registration's race between the
test for an address and its insertion is settled by the table's constraint.
Workspaces and drawings are one statement per request. The candle loop of
`broadcaster.py` has no state but its own end, which the tick loop shares. The
settings of `api/v1/safeguards.py`, which two routes read, merge and assign
without a lock, never reach a gate; the race by which the kill switch is lost
needs no model to see, and no document promises that there is none.
