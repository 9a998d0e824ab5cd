----------------------------- MODULE Safeguards -----------------------------
(***************************************************************************)
(* The safeguards of live trading: LiveSafeguards of                       *)
(* providers/broker/safeguards.py, the gate an order passes on its way to  *)
(* a live broker.  Nothing in it has a lock.  Every read of the settings   *)
(* and every call of the broker is a step, and two threads that place      *)
(* orders through one gate take theirs in any order.  The application      *)
(* makes no gate yet.                                                      *)
(*                                                                         *)
(* What BrokerAdapter.place_order promises is an order, no position: the   *)
(* broker may have filled it when it returns, or fill it later.            *)
(***************************************************************************)
EXTENDS Integers, FiniteSets

CONSTANTS
    Traders,         \* threads that place orders through the gate
    Configs,         \* the settings a gate may be given
    OrderSet,        \* the orders asked for: [symbol, volume]
    Amounts,         \* results of a trade that are recorded
    Equities,        \* what the broker may report as equity
    MaxWaiting,      \* bound: the orders the broker has yet to fill
    MaxDays,         \* bound: the days that pass
    MaxLoss          \* bound: the size of the day's result

ASSUME SafeguardAssumption ==
    /\ Traders # {} /\ IsFiniteSet(Traders)
    /\ {MaxWaiting, MaxDays, MaxLoss} \subseteq Nat
    /\ Configs # {}
    /\ \A c \in Configs : c.max_open_positions \in Nat

VARIABLES
    config,          \* _config
    order,           \* order[t]: the order of trader t and how far it got
    waiting,         \* how many orders the broker has yet to fill
    open,            \* its positions: [prompt, late], filled by place_order or after
    daily,           \* _daily_pnl and _daily_reset
    today            \* the date

vars == <<config, order, waiting, open, daily, today>>

Idle == [at |-> "idle"]

-----------------------------------------------------------------------------
(* The stages an order passes, in the order of check_order. *)
AfterStage == [kill_switch |-> "live_enabled", live_enabled |-> "require_confirmation",
               require_confirmation |-> "volume", volume |-> "blocked",
               blocked |-> "allowed", allowed |-> "positions", positions |-> "loss"]

(* The positions the limit is about: an order that waits is none yet. *)
Held == open.prompt + open.late

(* Faulty variant: the limit itself is let through.                        *)
PassesOneMore(stage, o) ==
    CASE stage = "kill_switch"          -> ~config.kill_switch
      [] stage = "live_enabled"         -> config.live_enabled
      [] stage = "require_confirmation" -> ~config.require_confirmation
      [] stage = "volume"               -> o.volume <= config.max_position_size
      [] stage = "blocked"              -> o.symbol \notin config.blocked_symbols
      [] stage = "allowed"              -> \/ config.allowed_symbols = {}
                                           \/ o.symbol \in config.allowed_symbols
      [] stage = "positions"            -> Held <= config.max_open_positions

(* What check_order tests; every stage reads the settings of the moment.   *)
(* require_confirmation lets nothing pass, there is no way to confirm.     *)
Passes(stage, o) ==
    CASE stage = "kill_switch"          -> ~config.kill_switch
      [] stage = "live_enabled"         -> config.live_enabled
      [] stage = "require_confirmation" -> ~config.require_confirmation
      [] stage = "volume"               -> o.volume <= config.max_position_size
      [] stage = "blocked"              -> o.symbol \notin config.blocked_symbols
      [] stage = "allowed"              -> \/ config.allowed_symbols = {}
                                           \/ o.symbol \in config.allowed_symbols
      [] stage = "positions"            -> Held < config.max_open_positions

(* _check_daily_loss starts a new day's result when the date has changed.  *)
Rolled == IF daily.day = today THEN daily ELSE [pnl |-> 0, day |-> today]

Ask(t) ==
    /\ order[t] = Idle
    /\ \E o \in OrderSet :
          order' = [order EXCEPT ![t] = [at |-> "kill_switch", o |-> o]]
    /\ UNCHANGED <<config, waiting, open, daily, today>>

Check(t) ==
    /\ order[t].at \in DOMAIN AfterStage
    /\ order' = [order EXCEPT ![t] =
                   IF Passes(order[t].at, order[t].o)
                   THEN [at |-> AfterStage[order[t].at], o |-> order[t].o] ELSE Idle]
    /\ UNCHANGED <<config, waiting, open, daily, today>>

(* The result of the day, a gain like a loss, against the equity; without  *)
(* equity nothing is tested.                                               *)
CheckLoss(t) ==
    /\ order[t].at = "loss"
    /\ daily' = Rolled
    /\ \E equity \in Equities :
          LET size == IF Rolled.pnl < 0 THEN -Rolled.pnl ELSE Rolled.pnl
              over == equity > 0 /\ 100 * size >= config.max_daily_loss_pct * equity
          IN  order' = [order EXCEPT ![t] = IF over THEN Idle ELSE [@ EXCEPT !.at = "send"]]
    /\ UNCHANGED <<config, waiting, open, today>>

(* The broker fills the order at once, takes it to fill it later, or       *)
(* raises, and the caller is told so.                                      *)
Send(t) ==
    /\ order[t].at = "send"
    /\ order' = [order EXCEPT ![t] = Idle]
    /\ \/ UNCHANGED <<waiting, open>>
       \/ open' = [open EXCEPT !.prompt = @ + 1] /\ UNCHANGED waiting
       \/ waiting < MaxWaiting /\ waiting' = waiting + 1 /\ UNCHANGED open
    /\ UNCHANGED <<config, daily, today>>

(* An order that waits is filled, or given up; the gate is not asked again.*)
Fill ==
    /\ waiting > 0 /\ waiting' = waiting - 1
    /\ open' = [open EXCEPT !.late = @ + 1] \/ UNCHANGED open
    /\ UNCHANGED <<config, order, daily, today>>

UpdateConfig ==
    /\ config' \in Configs \ {config}
    /\ UNCHANGED <<order, waiting, open, daily, today>>

RecordPnl ==
    /\ \E a \in Amounts :
          /\ Rolled.pnl + a \in -MaxLoss..MaxLoss
          /\ daily' = [Rolled EXCEPT !.pnl = @ + a]
    /\ UNCHANGED <<config, order, waiting, open, today>>

ClosePosition ==
    /\ \E k \in DOMAIN open : open[k] > 0 /\ open' = [open EXCEPT ![k] = @ - 1]
    /\ UNCHANGED <<config, order, waiting, daily, today>>

Midnight ==
    /\ today < MaxDays /\ today' = today + 1
    /\ UNCHANGED <<config, order, waiting, open, daily>>

-----------------------------------------------------------------------------
Init == /\ config \in Configs
        /\ order = [t \in Traders |-> Idle]
        /\ waiting = 0 /\ open = [prompt |-> 0, late |-> 0]
        /\ daily = [pnl |-> 0, day |-> 1] /\ today = 1

Next == \/ \E t \in Traders : Ask(t) \/ Check(t) \/ CheckLoss(t) \/ Send(t)
        \/ UpdateConfig \/ Fill \/ RecordPnl \/ ClosePosition \/ Midnight

Spec == Init /\ [][Next]_vars

-----------------------------------------------------------------------------
(* Orders tested at the same time may take the last place together, but    *)
(* each trader at most one: of the positions that were open when           *)
(* place_order returned there are fewer than the largest limit and the     *)
(* traders together, however settings change and positions close meanwhile *)
(* (check_order and place_order of LiveSafeguards).  Nothing is said of    *)
(* orders the broker fills later, at the market or at a level: check_order *)
(* counts open positions, so until then they count for nobody.             *)
PositionsBounded ==
    \E c \in Configs : open.prompt < c.max_open_positions + Cardinality(Traders)
=============================================================================
