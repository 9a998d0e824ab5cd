---------------------------- MODULE MCSafeguards ----------------------------
(***************************************************************************)
(* Small instance of Safeguards for TLC: two orders pass the gate at once, *)
(* and between the stages settings change and positions come and go.       *)
(***************************************************************************)
EXTENDS Safeguards, TLC

Set(kill, live, confirm, size, limit, allowed, blocked) ==
    [kill_switch |-> kill, live_enabled |-> live, require_confirmation |-> confirm,
     max_position_size |-> size, max_daily_loss_pct |-> 5, max_open_positions |-> limit,
     allowed_symbols |-> allowed, blocked_symbols |-> blocked]

MCConfigs == {Set(FALSE, FALSE, TRUE, 1, 1, {}, {}),
              Set(FALSE, TRUE, FALSE, 1, 2, {"EURUSD"}, {"XAUUSD"}),
              Set(FALSE, TRUE, FALSE, 2, 1, {}, {}), Set(TRUE, TRUE, FALSE, 2, 1, {}, {})}

MCOrderSet == {[symbol |-> "EURUSD", volume |-> 1], [symbol |-> "EURUSD", volume |-> 2],
               [symbol |-> "XAUUSD", volume |-> 2]}

MCAmounts == {-5, 5}

Symmetry == Permutations(Traders)
=============================================================================
