---------------------------- MODULE MCPaperBroker ----------------------------
(***************************************************************************)
(* Small instance of PaperBroker for TLC.  Two orders are enough for two   *)
(* fills to compete for the balance and for a sweep to expire one order    *)
(* while it fills the other.  The requests are one of each kind that takes *)
(* a path of its own: a protected market order of two lots (so that it can *)
(* be closed in parts), a limit that expires, a stop, and a stop-limit     *)
(* whose levels let the market jump over the limit.                        *)
(***************************************************************************)
EXTENDS PaperBroker

CONSTANT eur

MCSymbols == {eur}

Req(side, type, volume, price, limit, sl, tp, expiry) ==
    [symbol |-> eur, side |-> side, type |-> type, volume |-> volume,
     price |-> price, limit |-> limit, sl |-> sl, tp |-> tp, expiry |-> expiry]

MCRequests ==
    { Req("buy",  "market",     2, None, None, 2,    4,    None),
      Req("sell", "limit",      1, 3,    None, 5,    None, 1),
      Req("buy",  "stop",       1, 4,    None, None, None, None),
      Req("buy",  "stop_limit", 1, 4,    4,    None, None, None) }

Chg(sl, tp, trail) == [sl |-> sl, tp |-> tp, trail |-> trail]

MCChanges == { Chg(Unset, Unset, 1), Chg(Unset, 3, None) }

MCPrices == 2..4

MCCashRange == {-3, 0}

MCSwapPoints == [s \in MCSymbols |-> -1]
=============================================================================
