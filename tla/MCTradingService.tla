-------------------------- MODULE MCTradingService --------------------------
(***************************************************************************)
(* Small instance of TradingService for TLC: a client who sends two        *)
(* requests at a time, and a robot whose strategies trade behind the       *)
(* loop's back.  Two orders of the client let one on_quote report several  *)
(* events, two lots let a close be partial.                                *)
(***************************************************************************)
EXTENDS TradingService

CONSTANTS client, robot, t1, t2

MCUsers == {client, robot}

MCTasks == {t1, t2}

MCQuota == [u \in MCUsers |-> IF u = client THEN 2 ELSE 1]

MCSymbolOf == [o \in OrderIds |-> 1]
=============================================================================
