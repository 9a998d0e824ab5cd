-------------------------- MODULE SafeguardsProofs --------------------------
(***************************************************************************)
(* What TLAPS proves of Safeguards for any number of traders and any       *)
(* settings.                                                               *)
(***************************************************************************)
EXTENDS Safeguards, FiniteSetTheorems, TLAPS

USE SafeguardAssumption

-----------------------------------------------------------------------------
(* The orders that have passed the limit of positions and are not sent yet *)
(* count as if they were positions.                                        *)

Through == {t \in Traders : order[t].at \in {"loss", "send"}}

GateOK ==
    /\ config \in Configs
    /\ order = [t \in Traders |-> order[t]]
    /\ open \in [prompt : Nat, late : Nat]
    /\ waiting \in Nat

RoomLeft ==
    \E c \in Configs :
       open.prompt + Cardinality(Through) < c.max_open_positions + Cardinality(Traders)

IInv == GateOK /\ RoomLeft

LEMMA ThroughFinite ==
    /\ IsFiniteSet(Through) /\ Cardinality(Through) \in Nat
    /\ Cardinality(Through) <= Cardinality(Traders)
    /\ Cardinality(Traders) \in Nat
BY FS_Subset, FS_CardinalityType DEF Through

(* With no more positions and no more orders past the limit there is still *)
(* room.                                                                   *)
LEMMA RoomKept ==
    ASSUME IInv, GateOK', Through' \subseteq Through, open'.prompt <= open.prompt
    PROVE  RoomLeft'
<1>1. Cardinality(Through') <= Cardinality(Through) /\ Cardinality(Through') \in Nat
  BY ThroughFinite, FS_Subset, FS_CardinalityType
<1>2. PICK c \in Configs :
         open.prompt + Cardinality(Through) < c.max_open_positions + Cardinality(Traders)
  BY DEF IInv, RoomLeft
<1>3. open.prompt \in Nat /\ open'.prompt \in Nat
  BY DEF IInv, GateOK
<1>4. open'.prompt + Cardinality(Through') < c.max_open_positions + Cardinality(Traders)
  BY <1>1, <1>2, <1>3, ThroughFinite
<1>5. QED
  BY <1>4 DEF RoomLeft

LEMMA CheckKeeps ==
    ASSUME IInv, NEW t \in Traders, Check(t)
    PROVE  IInv'
<1>1. GateOK'
  BY DEF IInv, GateOK, Check
<1>2. \A u \in Traders \ {t} : order'[u] = order[u]
  BY DEF IInv, GateOK, Check
<1>3. CASE order[t].at = "positions" /\ Passes("positions", order[t].o)
  <2>1. open'.prompt < config.max_open_positions /\ open'.prompt \in Nat
    BY <1>3 DEF IInv, GateOK, Check, Passes, Held
  <2>2. Cardinality(Through') <= Cardinality(Traders) /\ Cardinality(Through') \in Nat
    BY FS_Subset, FS_CardinalityType DEF Through
  <2>3. config \in Configs /\ config.max_open_positions \in Nat
    BY DEF IInv, GateOK
  <2>4. open'.prompt + Cardinality(Through')
           < config.max_open_positions + Cardinality(Traders)
    BY <2>1, <2>2, <2>3, ThroughFinite
  <2>5. QED
    BY <1>1, <2>3, <2>4 DEF IInv, RoomLeft
<1>4. CASE ~(order[t].at = "positions" /\ Passes("positions", order[t].o))
  <2>1. order'[t].at \notin {"loss", "send"}
    BY <1>4 DEF IInv, GateOK, Check, AfterStage, Idle
  <2>2. Through' \subseteq Through
    BY <1>2, <2>1 DEF Through
  <2>3. open'.prompt <= open.prompt
    BY DEF IInv, GateOK, Check
  <2>4. QED
    BY <1>1, <2>2, <2>3, RoomKept DEF IInv
<1>5. QED
  BY <1>3, <1>4

LEMMA SendKeeps ==
    ASSUME IInv, NEW t \in Traders, Send(t)
    PROVE  IInv'
<1>1. GateOK'
  BY DEF IInv, GateOK, Send
<1>2. /\ \A u \in Traders \ {t} : order'[u] = order[u]
      /\ order'[t] = Idle
  BY DEF IInv, GateOK, Send
<1>3. Through' = Through \ {t}
  BY <1>2 DEF Through, Idle
<1>4. CASE open' = open
  BY <1>1, <1>3, <1>4, RoomKept DEF IInv, GateOK
<1>5. CASE open' = [open EXCEPT !.prompt = @ + 1]
  <2>1. t \in Through
    BY <1>5 DEF Send, Through
  <2>2. Cardinality(Through') = Cardinality(Through) - 1
    BY <1>3, <2>1, ThroughFinite, FS_RemoveElement
  <2>3. PICK c \in Configs :
           open.prompt + Cardinality(Through) < c.max_open_positions + Cardinality(Traders)
    BY DEF IInv, RoomLeft
  <2>4. open.prompt \in Nat /\ open'.prompt = open.prompt + 1
    BY <1>5 DEF IInv, GateOK
  <2>5. open'.prompt + Cardinality(Through') < c.max_open_positions + Cardinality(Traders)
    BY <2>2, <2>3, <2>4, ThroughFinite
  <2>6. QED
    BY <1>1, <2>5 DEF IInv, RoomLeft
<1>6. QED
  BY <1>4, <1>5 DEF Send

LEMMA StepKeeps ==
    ASSUME IInv, Next
    PROVE  IInv'
<1>1. ASSUME NEW t \in Traders, Ask(t)
      PROVE  IInv'
  <2>1. GateOK' /\ open' = open
    BY <1>1 DEF IInv, GateOK, Ask
  <2>2. Through' \subseteq Through
    BY <1>1 DEF IInv, GateOK, Ask, Through
  <2>3. QED
    BY <2>1, <2>2, RoomKept DEF IInv, GateOK
<1>2. ASSUME NEW t \in Traders, CheckLoss(t)
      PROVE  IInv'
  <2>1. GateOK' /\ open' = open
    BY <1>2 DEF IInv, GateOK, CheckLoss
  <2>2. Through' \subseteq Through
    BY <1>2 DEF IInv, GateOK, CheckLoss, Through, Idle
  <2>3. QED
    BY <2>1, <2>2, RoomKept DEF IInv, GateOK
<1>3. CASE UpdateConfig \/ Fill \/ RecordPnl \/ ClosePosition \/ Midnight
  <2>1. GateOK' /\ order' = order
    BY <1>3 DEF IInv, GateOK, UpdateConfig, Fill, RecordPnl, ClosePosition, Midnight
  <2>2. open'.prompt <= open.prompt
    BY <1>3 DEF IInv, GateOK, UpdateConfig, Fill, RecordPnl, ClosePosition, Midnight
  <2>3. Through' = Through
    BY <2>1 DEF Through
  <2>4. QED
    BY <2>1, <2>2, <2>3, RoomKept DEF IInv
<1>4. QED
  BY <1>1, <1>2, <1>3, CheckKeeps, SendKeeps DEF Next

(* However many orders are tested at once, those the broker has filled     *)
(* when place_order returns exceed the largest limit ever set by fewer     *)
(* positions than there are traders, whatever it fills later.              *)
THEOREM PositionsAlwaysBounded == Spec => []PositionsBounded
<1>1. Init => IInv
  <2>1. SUFFICES ASSUME Init PROVE IInv
    OBVIOUS
  <2>2. GateOK
    <3>1. order = [t \in Traders |-> Idle]
      BY <2>1 DEF Init
    <3>2. order = [t \in Traders |-> order[t]]
      BY <3>1
    <3>3. config \in Configs /\ open \in [prompt : Nat, late : Nat] /\ waiting \in Nat
      BY <2>1 DEF Init
    <3>4. QED
      BY <3>2, <3>3 DEF GateOK
  <2>3. Through = {}
    <3>1. \A t \in Traders : order[t].at = "idle"
      BY <2>1 DEF Init, Idle
    <3>2. QED
      BY <3>1 DEF Through
  <2>4. Cardinality(Through) = 0 /\ Cardinality(Traders) > 0
    BY <2>3, FS_EmptySet, ThroughFinite
  <2>5. open.prompt = 0 /\ config \in Configs
    BY <2>1 DEF Init
  <2>6. QED
    BY <2>2, <2>4, <2>5, ThroughFinite DEF IInv, RoomLeft
<1>2. IInv /\ [Next]_vars => IInv'
  <2>1. CASE UNCHANGED vars
    BY <2>1 DEF IInv, GateOK, RoomLeft, Through, vars
  <2>2. QED
    BY <2>1, StepKeeps
<1>3. IInv => PositionsBounded
  BY ThroughFinite DEF IInv, GateOK, RoomLeft, PositionsBounded
<1>4. QED
  BY <1>1, <1>2, <1>3, PTL DEF Spec
=============================================================================
