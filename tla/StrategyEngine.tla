--------------------------- MODULE StrategyEngine ---------------------------
(***************************************************************************)
(* The strategy engine and its runners: services/strategy.py.              *)
(*                                                                         *)
(* POST /strategies/{name}/start and .../stop are synchronous routes: each *)
(* runs in a worker thread, while the tick loop feeds quotes from the      *)
(* event loop's thread.  Only the instance table is under a lock.  A       *)
(* thread is a stack of calls: the request or feed at the bottom, above it *)
(* the hooks it is in.  A step is a test together with the call it guards, *)
(* or the return from a hook; between steps any other thread may run.      *)
(*                                                                         *)
(* Modelled are the instances that share a broker and a symbol, which      *)
(* nobody else trades on: they open and close each other's positions.  The *)
(* strategy is SmaCrossStrategy, whose hooks other than on_candle and      *)
(* on_signal are empty; as in any strategy, each hook may raise instead of *)
(* returning.  Signals and orders are not counted, only acted upon.        *)
(***************************************************************************)
EXTENDS Integers, Sequences, FiniteSetsExt, SequencesExt

CONSTANTS
    Workers,         \* worker threads that serve start and stop requests
    Loop,            \* the event loop's thread
    MaxInstances,    \* bound: the instances started
    MaxPositions,    \* bound: the positions opened
    Candles          \* Candles[i]: how many candles the start of i replays

ASSUME EngineAssumption ==
    /\ Loop \notin Workers
    /\ MaxInstances \in Nat /\ MaxPositions \in Nat
    /\ Candles \in [1..MaxInstances -> Nat]

Threads   == Workers \cup {Loop}
Instances == 1..MaxInstances
Hooks     == {"initialize", "on_tick", "on_candle", "on_signal", "on_order",
              "on_position", "shutdown"}
Sides     == {"none", "buy", "sell"}

(* Where a call stands: start after registering (n candles to go), stop    *)
(* before its test, before it stops and before it unregisters, or one of   *)
(* the hooks.  on_signal looks at the positions, acts, reports its order.  *)
Points == {"registered", "candles", "return",
           "stop", "stopping", "remove", "acting"} \cup Hooks

Call == [at : Points, inst : Instances, n : Nat, side : Sides,
         seen : SUBSET (1..MaxPositions)]

VARIABLES
    calls,           \* calls[t]: the stack of thread t, top last
    status,          \* status[i]: runner i's status, "unborn" before it exists
    table,           \* the keys of _instances
    todo,            \* the instances feed_quote has not visited, in order
    owners,          \* owners[p]: the instance whose order opened position p
    open,            \* the positions the broker holds
    early            \* history: the instances a stop found before they ran

vars == <<calls, status, table, todo, owners, open, early>>

TypeOK == /\ calls \in [Threads -> Seq(Call)]
          /\ status \in [Instances -> {"unborn", "idle", "running", "stopped", "error"}]
          /\ table \subseteq {i \in Instances : status[i] # "unborn"}
          /\ todo \in Seq(Instances)
          /\ owners \in Seq(Instances) /\ Len(owners) <= MaxPositions
          /\ open \subseteq DOMAIN owners
          /\ early \subseteq Instances

-----------------------------------------------------------------------------
NewCall(at, i)   == [at |-> at, inst |-> i, n |-> 0, side |-> "none", seen |-> {}]
Top(t)           == Last(calls[t])
InCall(t, at)    == calls[t] # <<>> /\ Top(t).at = at
Returned(t)      == calls' = [calls EXCEPT ![t] = Front(calls[t])]
MovedTo(t, call) == calls' = [calls EXCEPT ![t] = Append(Front(calls[t]), call)]
Keeps            == UNCHANGED <<table, todo, owners, open, early>>

(* The caller goes on at call, and enters the hook first if the runner is  *)
(* running: every feed_* and _handle_signal tests the status.              *)
Feed(t, call, hook) ==
    calls' = [calls EXCEPT ![t] =
        Append(Front(calls[t]), call) \o
        IF status[call.inst] = "running" THEN <<hook>> ELSE <<>>]

(* The call on top has nothing left to do but to feed hook. *)
Continue(t, hook) ==
    IF status[Top(t).inst] = "running"
    THEN MovedTo(t, NewCall(hook, Top(t).inst)) ELSE Returned(t)

Enter(t, call, hook) ==
    calls' = [calls EXCEPT ![t] = Front(calls[t]) \o <<call, hook>>]

-----------------------------------------------------------------------------
(* StrategyEngine.start: make a runner, register it, run it.               *)
Register(t) ==
    /\ calls[t] = <<>>
    /\ \E i \in Instances :
          /\ status[i] = "unborn" /\ \A j \in 1..(i - 1) : status[j] # "unborn"
          /\ status' = [status EXCEPT ![i] = "idle"]
          /\ table' = table \cup {i}
          /\ calls' = [calls EXCEPT ![t] = <<[NewCall("registered", i) EXCEPT !.n = Candles[i]]>>]
    /\ UNCHANGED <<todo, owners, open, early>>

(* StrategyRunner.start sets the status before it calls initialize. *)
RunnerStart(t) ==
    /\ InCall(t, "registered")
    /\ status' = [status EXCEPT ![Top(t).inst] = "running"]
    /\ Enter(t, [Top(t) EXCEPT !.at = "candles"], NewCall("initialize", Top(t).inst))
    /\ Keeps

(* Faulty variant: the count of candles is not tested.                     *)
OneTooMany(t) ==
    /\ InCall(t, "candles")
    /\ Feed(t, [Top(t) EXCEPT !.n = Top(t).n - 1], NewCall("on_candle", Top(t).inst))
    /\ Keeps /\ UNCHANGED status

FeedCandle(t) ==
    /\ InCall(t, "candles") /\ Top(t).n > 0
    /\ Feed(t, [Top(t) EXCEPT !.n = Top(t).n - 1], NewCall("on_candle", Top(t).inst))
    /\ Keeps /\ UNCHANGED status

StartFeedsQuote(t) ==
    /\ InCall(t, "candles") /\ Top(t).n = 0
    /\ Feed(t, [Top(t) EXCEPT !.at = "return"], NewCall("on_tick", Top(t).inst))
    /\ Keeps /\ UNCHANGED status

(* Faulty variant: a failed start takes its instance out of the table.     *)
FailureForgets(t) ==
    /\ InCall(t, "return") \/ (InCall(t, "candles") /\ Top(t).n = Candles[Top(t).inst])
    /\ Returned(t)
    /\ table' = IF InCall(t, "candles") THEN table \ {Top(t).inst} ELSE table
    /\ UNCHANGED <<status, todo, owners, open, early>>

(* The request is answered; or the provider raised, for a symbol or a      *)
(* timeframe it does not know, and the request fails where it stands.      *)
StartEnds(t) ==
    /\ InCall(t, "return") \/ (InCall(t, "candles") /\ Top(t).n = Candles[Top(t).inst])
    /\ Returned(t)
    /\ Keeps /\ UNCHANGED status

-----------------------------------------------------------------------------
(* StrategyEngine.stop: look the instance up, stop its runner, drop it.    *)
StopRequest(t) ==
    /\ calls[t] = <<>>
    /\ \E i \in table : calls' = [calls EXCEPT ![t] = <<NewCall("stop", i)>>]
    /\ Keeps /\ UNCHANGED status

StopTests(t) ==
    LET i == Top(t).inst IN
    /\ InCall(t, "stop")
    /\ MovedTo(t, [Top(t) EXCEPT !.at =
                   IF status[i] = "running" THEN "stopping" ELSE "remove"])
    /\ early' = IF status[i] = "idle" THEN early \cup {i} ELSE early
    /\ UNCHANGED <<status, table, todo, owners, open>>

RunnerStop(t) ==
    /\ InCall(t, "stopping")
    /\ status' = [status EXCEPT ![Top(t).inst] = "stopped"]
    /\ Enter(t, [Top(t) EXCEPT !.at = "remove"], NewCall("shutdown", Top(t).inst))
    /\ Keeps

StopRemoves(t) ==
    /\ InCall(t, "remove")
    /\ table' = table \ {Top(t).inst}
    /\ Returned(t)
    /\ UNCHANGED <<status, todo, owners, open, early>>

-----------------------------------------------------------------------------
(* A dictionary yields its keys in the order in which they were put in.    *)
Ascending(S) == {order \in SetToSeqs(S) :
                    \A m, n \in DOMAIN order : m < n => order[m] < order[n]}

(* StrategyEngine.feed_quote walks over a copy of the table. *)
BeginFeed ==
    /\ calls[Loop] = <<>> /\ todo = <<>> /\ table # {}
    /\ todo' \in Ascending(table)
    /\ UNCHANGED <<calls, status, table, owners, open, early>>

(* Faulty variant: an instance that does not run ends the feed.            *)
GivesUp ==
    /\ calls[Loop] = <<>> /\ todo # <<>>
    /\ LET i == Head(todo) IN
          IF status[i] = "running"
          THEN /\ calls' = [calls EXCEPT ![Loop] = <<NewCall("on_tick", i)>>]
               /\ todo' = Tail(todo)
          ELSE UNCHANGED calls /\ todo' = <<>>
    /\ UNCHANGED <<status, table, owners, open, early>>

FeedNext ==
    /\ calls[Loop] = <<>> /\ todo # <<>>
    /\ todo' = Tail(todo)
    /\ calls' = [calls EXCEPT ![Loop] =
          IF status[Head(todo)] = "running" THEN <<NewCall("on_tick", Head(todo))>> ELSE <<>>]
    /\ UNCHANGED <<status, table, owners, open, early>>

-----------------------------------------------------------------------------
(* A hook returns, or raises and _guard turns the runner to error,         *)
(* whatever its status has become.                                         *)
HookReturns(t) ==
    /\ calls[t] # <<>> /\ Top(t).at \in Hooks \ {"on_signal", "on_order"}
    /\ Returned(t)
    /\ Keeps /\ UNCHANGED status

HookRaises(t) ==
    /\ calls[t] # <<>> /\ Top(t).at \in Hooks \cup {"acting"}
    /\ status' = [status EXCEPT ![Top(t).inst] = "error"]
    /\ Returned(t)
    /\ Keeps

(* Faulty variant: the status is not tested.                               *)
SignalUnguarded(t, side) ==
    MovedTo(t, [NewCall("on_signal", Top(t).inst) EXCEPT !.side = side])

(* emit_signal hands the signal to on_signal if the runner is running. *)
EmitSignal(t, side) ==
    /\ status[Top(t).inst] = "running"
    /\ MovedTo(t, [NewCall("on_signal", Top(t).inst) EXCEPT !.side = side])

(* SmaCross.on_candle emits at most one signal and then returns, so its    *)
(* call may be replaced by on_signal's.                                    *)
CandleSignals(t, side) ==
    /\ InCall(t, "on_candle")
    /\ EmitSignal(t, side)
    /\ Keeps /\ UNCHANGED status

(* on_signal first lists the open positions, the ones of other instances   *)
(* and of the user included.                                               *)
SignalLooks(t) ==
    /\ InCall(t, "on_signal")
    /\ MovedTo(t, [Top(t) EXCEPT !.at = "acting", !.seen = open])
    /\ Keeps /\ UNCHANGED status

(* A market order fills at once; _note_order then feeds on_order, and the  *)
(* caller has nothing left to do after it.                                 *)
PlaceOrder(t) ==
    /\ Len(owners) < MaxPositions
    /\ owners' = Append(owners, Top(t).inst)
    /\ open' = open \cup {Len(owners) + 1}
    /\ Continue(t, "on_order")
    /\ UNCHANGED <<status, table, todo, early>>

(* Faulty variant: open positions are not looked at.                       *)
BuyAnyway(t) == InCall(t, "acting") /\ Top(t).side = "buy" /\ PlaceOrder(t)

Buy(t) ==
    /\ InCall(t, "acting") /\ Top(t).side = "buy" /\ Top(t).seen = {}
    /\ PlaceOrder(t)

(* _note_order goes on to on_position; a position that was closed in       *)
(* between is passed over.                                                 *)
NotePosition(t) ==
    /\ InCall(t, "on_order")
    /\ IF \E p \in open : owners[p] = Top(t).inst
       THEN Continue(t, "on_position") ELSE Returned(t)
    /\ Keeps /\ UNCHANGED status

SellAll(t) ==
    /\ InCall(t, "acting") /\ Top(t).side = "sell"
    /\ \E p \in Top(t).seen \cap open :
          /\ open' = open \ {p}
          /\ MovedTo(t, [Top(t) EXCEPT !.seen = Top(t).seen \ {p}])
    /\ UNCHANGED <<status, table, todo, owners, early>>

(* Nothing to buy or left to close. *)
SignalDone(t) ==
    /\ InCall(t, "acting")
    /\ IF Top(t).side = "buy" THEN Top(t).seen # {} ELSE Top(t).seen = {}
    /\ Returned(t)
    /\ Keeps /\ UNCHANGED status

-----------------------------------------------------------------------------
Init == /\ calls = [t \in Threads |-> <<>>]
        /\ status = [i \in Instances |-> "unborn"]
        /\ table = {} /\ todo = <<>> /\ owners = <<>> /\ open = {} /\ early = {}

Hook(t) == \/ HookReturns(t) \/ HookRaises(t) \/ SignalLooks(t) \/ Buy(t)
           \/ NotePosition(t) \/ SellAll(t) \/ SignalDone(t)
           \/ \E side \in {"buy", "sell"} : CandleSignals(t, side)

(* What moves a thread on once it is in a call. *)
Runs(t) == \/ RunnerStart(t) \/ FeedCandle(t) \/ StartFeedsQuote(t) \/ StartEnds(t)
           \/ StopTests(t) \/ RunnerStop(t) \/ StopRemoves(t)
           \/ Hook(t)

FeedLoop == BeginFeed \/ FeedNext \/ Hook(Loop)

Next == \/ \E w \in Workers : Register(w) \/ StopRequest(w) \/ Runs(w)
        \/ FeedLoop

(* The loop's thread is scheduled and its hooks end; nothing it does waits *)
(* for a worker, so nothing need be assumed of them.                       *)
Fairness == WF_vars(FeedLoop)

Spec == Init /\ [][Next]_vars /\ Fairness

-----------------------------------------------------------------------------
(* An SmaCross instance looks for open positions and then buys, without a  *)
(* lock; it never holds two of its own, because its signals come from one  *)
(* thread only (on_signal, strategy.py:338-354).                           *)
OneOwnPosition ==
    \A p, q \in open : owners[p] = owners[q] => p = q

(* A runner that runs is one its owner can find and stop, also after its   *)
(* start failed half way; the only others are those a stop reached before  *)
(* they were running (start, stop: strategy.py:424-447).                   *)
RunningIsListed ==
    \A i \in Instances : status[i] = "running" => i \in table \cup early

(* After a stop that found the runner running (or failed) has taken it out *)
(* of the table, no hook of it begins any more, in any thread, except the  *)
(* shutdown of a second stop that overlapped (strategy.py:216-243).        *)
NoHookAfterStop ==
    [][\A t \in Threads : \A i \in Instances \ (table \cup early) :
          (/\ status[i] # "unborn"
           /\ calls'[t] # <<>> /\ Last(calls'[t]).inst = i
           /\ Last(calls'[t]).at \in Hooks \ {"shutdown"})
          => \E k \in DOMAIN calls[t] : calls[t][k].at = Last(calls'[t]).at]_vars

(* However hooks of other instances raise, and whatever else is started    *)
(* and stopped, the loop keeps feeding an instance that stays running.     *)
FedAgain ==
    \A i \in Instances :
       <>[](i \in table /\ status[i] = "running")
       => []<>(\E k \in DOMAIN calls[Loop] : calls[Loop][k].inst = i)
=============================================================================
