------------------------ MODULE StrategyEngineProofs ------------------------
(***************************************************************************)
(* What TLAPS proves of StrategyEngine for any number of worker threads,   *)
(* instances, candles and positions.                                       *)
(***************************************************************************)
EXTENDS StrategyEngine, FiniteSetTheorems, SequenceTheorems, TLAPS

-----------------------------------------------------------------------------
(* The inductive invariant.  A worker is in a request and in at most one   *)
(* hook of the same instance above it, the loop in at most one on_tick;    *)
(* what a request has come to says what the instance's status can be.      *)

Statuses == {"unborn", "idle", "running", "stopped", "error"}
Ended    == {"stopped", "error"}
Begun    == {"running"} \cup Ended

Requests == {"registered", "candles", "return", "stop", "stopping", "remove"}

(* The hooks a request may be in. *)
Above == ({"candles"} \X {"initialize", "on_candle", "on_signal", "acting",
                          "on_order", "on_position"})
         \cup {<<"return", "on_tick">>, <<"remove", "shutdown">>}

RequestOK(t, at, i) ==
    /\ at \in IF t = Loop THEN {"on_tick"} ELSE Requests
    /\ at = "registered" => status[i] = "idle"
    /\ at = "stop" => status[i] # "unborn"
    /\ at \in {"candles", "return", "stopping", "on_tick"} => status[i] \in Begun
    /\ at = "remove" => status[i] \in Ended \/ (i \in early /\ status[i] # "unborn")

StackOK(t) ==
    /\ Len(calls[t]) <= 2
    /\ Len(calls[t]) >= 1 => RequestOK(t, calls[t][1].at, calls[t][1].inst)
    /\ Len(calls[t]) = 2 => /\ <<calls[t][1].at, calls[t][2].at>> \in Above
                            /\ calls[t][2].inst = calls[t][1].inst
                            /\ status[calls[t][2].inst] \in Begun

(* An instance is started once, and its candles come from that start. *)
Starts(t, i) == /\ Len(calls[t]) >= 1 /\ calls[t][1].inst = i
                /\ calls[t][1].at \in {"registered", "candles"}

OneStarter == \A i \in Instances : \A t, d \in Threads :
                 Starts(t, i) /\ Starts(d, i) => t = d

(* What an instance could still run is listed. *)
Listed == \A i \in Instances : status[i] \in {"idle", "running"} => i \in table \cup early

(* on_signal has seen every position of its own instance. *)
SeenOwn(t) ==
    Len(calls[t]) = 2 /\ calls[t][2].at = "acting" =>
       \A p \in open : owners[p] = calls[t][2].inst => p \in calls[t][2].seen

EngineInv == /\ TypeOK
             /\ \A t \in Threads : StackOK(t)
             /\ OneStarter /\ Listed
             /\ \A t \in Threads : SeenOwn(t)
             /\ OneOwnPosition
-----------------------------------------------------------------------------
(* Stacks. *)

LEMMA OneOrTwo == /\ \A n \in Nat : n >= 1 /\ n <= 2 => n \in {1, 2}
                  /\ \A n : n = 1 \/ n = 2 => n <= 2 /\ n \in 1..n
OBVIOUS

LEMMA FrontIs ==
    ASSUME NEW s \in Seq(Call), s # <<>>
    PROVE  /\ Front(s) \in Seq(Call) /\ Len(Front(s)) = Len(s) - 1
           /\ Len(s) \in Nat /\ Len(s) >= 1 /\ Last(s) = s[Len(s)] /\ Last(s) \in Call
           /\ \A k \in 1..(Len(s) - 1) : Front(s)[k] = s[k]
<1>1. PICK n \in Nat : n = Len(s)
  OBVIOUS
<1>2. n >= 1
  BY <1>1, EmptySeq
<1>3. \A k \in 1..n : s[k] \in Call
  BY <1>1, ElementOfSeq
<1> DEFINE u == SubSeq(s, 1, n - 1)
<1>4. /\ u \in Seq(Call)
      /\ Len(u) = IF 1 <= n - 1 THEN n - 1 - 1 + 1 ELSE 0
      /\ \A k \in 1..(n - 1 - 1 + 1) : u[k] = s[1 + k - 1]
  BY <1>2, <1>3, SubSeqProperties
<1>5. Front(s) = u
  BY <1>1 DEF Front
<1> HIDE DEF u
<1>6. Len(u) = n - 1 /\ \A k \in 1..(n - 1) : u[k] = s[k]
  BY <1>2, <1>4
<1>7. QED
  BY <1>1, <1>2, <1>3, <1>4, <1>5, <1>6 DEF Last

LEMMA MovedIs ==
    ASSUME NEW s \in Seq(Call), s # <<>>, NEW x \in Call
    PROVE  /\ Append(Front(s), x) \in Seq(Call) /\ Len(Append(Front(s), x)) = Len(s)
           /\ Append(Front(s), x)[Len(s)] = x
           /\ \A k \in 1..(Len(s) - 1) : Append(Front(s), x)[k] = s[k]
BY FrontIs

LEMMA Pairs ==
    ASSUME NEW x \in Call, NEW y \in Call
    PROVE  /\ Append(<<>>, x) = <<x>> /\ <<x>> \o <<y>> = <<x, y>>
           /\ <<>> \o <<x, y>> = <<x, y>> /\ <<x>> \o <<>> = <<x>>
           /\ <<x>> \in Seq(Call) /\ <<x, y>> \in Seq(Call)
<1>1. /\ <<x>> \in Seq(Call) /\ Len(<<x>>) = 1 /\ <<x>>[1] = x
      /\ <<y>> \in Seq(Call) /\ Len(<<y>>) = 1 /\ <<y>>[1] = y
      /\ <<x, y>> \in Seq(Call) /\ Len(<<x, y>>) = 2
      /\ <<x, y>>[1] = x /\ <<x, y>>[2] = y
  OBVIOUS
<1>2. <<>> \o <<x, y>> = <<x, y>> /\ <<x>> \o <<>> = <<x>>
  BY <1>1, ConcatEmptySeq
<1>3. Append(<<>>, x) = <<x>>
  OBVIOUS
<1>4. <<x>> \o <<y>> = <<x, y>>
  <2> DEFINE p == <<x>>
             q == <<y>>
             both == <<x, y>>
             e == p \o q
  <2>1. /\ p \in Seq(Call) /\ Len(p) = 1 /\ p[1] = x
        /\ q \in Seq(Call) /\ Len(q) = 1 /\ q[1] = y
        /\ both \in Seq(Call) /\ Len(both) = 2 /\ both[1] = x /\ both[2] = y
    BY <1>1
  <2> HIDE DEF p, q, both
  <2>2. /\ e \in Seq(Call) /\ Len(e) = Len(p) + Len(q)
        /\ \A k \in 1..(Len(p) + Len(q)) :
              e[k] = IF k <= Len(p) THEN p[k] ELSE q[k - Len(p)]
    BY <2>1, ConcatProperties
  <2> HIDE DEF e
  <2>3. Len(e) = 2 /\ \A k \in 1..2 : e[k] = IF k <= 1 THEN p[k] ELSE q[k - 1]
    BY <2>1, <2>2
  <2>4. e[1] = x /\ e[2] = y
    BY <2>1, <2>3
  <2>5. \A k \in 1..Len(e) : e[k] = both[k]
    BY <2>1, <2>3, <2>4
  <2>6. e = both
    BY <2>1, <2>2, <2>3, <2>5, SeqEqual
  <2>7. QED
    BY <2>6 DEF e, p, q, both
<1>5. QED
  BY <1>1, <1>2, <1>3, <1>4

(* The same for stacks of one or two calls. *)
LEMMA FrontOf ==
    ASSUME NEW s \in Seq(Call), Len(s) \in {1, 2}
    PROVE  /\ Front(s) \in Seq(Call)
           /\ \/ Len(s) = 1 /\ Len(Front(s)) = 0
              \/ Len(s) = 2 /\ Len(Front(s)) = 1 /\ Front(s)[1] = s[1]
<1>1. s # <<>>
  OBVIOUS
<1>2. CASE Len(s) = 1
  BY <1>1, <1>2, FrontIs
<1>3. CASE Len(s) = 2
  <2>1. Len(s) - 1 = 1 /\ 1 \in 1..(Len(s) - 1)
    BY <1>3
  <2>2. QED
    BY <1>1, <1>3, <2>1, FrontIs
<1>4. QED
  BY <1>2, <1>3

LEMMA MovedOf ==
    ASSUME NEW s \in Seq(Call), Len(s) \in {1, 2}, NEW x \in Call
    PROVE  /\ Append(Front(s), x) \in Seq(Call) /\ Len(Append(Front(s), x)) = Len(s)
           /\ \/ Len(s) = 1 /\ Append(Front(s), x)[1] = x
              \/ /\ Len(s) = 2 /\ Append(Front(s), x)[1] = s[1]
                 /\ Append(Front(s), x)[2] = x
<1> DEFINE a == Append(Front(s), x)
<1>1. s # <<>>
  BY EmptySeq
<1>2. /\ a \in Seq(Call) /\ Len(a) = Len(s) /\ a[Len(s)] = x
      /\ \A k \in 1..(Len(s) - 1) : a[k] = s[k]
  BY <1>1, MovedIs
<1> HIDE DEF a
<1>3. CASE Len(s) = 1
  BY <1>2, <1>3 DEF a
<1>4. CASE Len(s) = 2
  <2>1. 1 \in 1..(Len(s) - 1)
    BY <1>4
  <2>2. a[1] = s[1] /\ a[2] = x
    BY <1>2, <1>4, <2>1
  <2>3. QED
    BY <1>2, <1>4, <2>2 DEF a
<1>5. QED
  BY <1>3, <1>4

(* Where a hook is on the stack, the request below it stays. *)
LEMMA HookOf ==
    ASSUME NEW s \in Seq(Call), Len(s) = 2, NEW x \in Call
    PROVE  /\ Append(Front(s), x) \in Seq(Call) /\ Len(Append(Front(s), x)) = 2
           /\ Append(Front(s), x)[1] = s[1] /\ Append(Front(s), x)[2] = x
           /\ Front(s) \in Seq(Call) /\ Len(Front(s)) = 1 /\ Front(s)[1] = s[1]
<1>1. Len(s) \in {1, 2} /\ Len(s) # 1
  OBVIOUS
<1> DEFINE a == Append(Front(s), x)
           f == Front(s)
<1>2. /\ a \in Seq(Call) /\ Len(a) = Len(s)
      /\ Len(s) = 1 \/ (a[1] = s[1] /\ a[2] = x)
  BY <1>1, MovedOf
<1>3. /\ f \in Seq(Call)
      /\ Len(s) = 1 \/ (Len(f) = 1 /\ f[1] = s[1])
  BY <1>1, FrontOf
<1> HIDE DEF a, f
<1>4. /\ a \in Seq(Call) /\ Len(a) = 2 /\ a[1] = s[1] /\ a[2] = x
      /\ f \in Seq(Call) /\ Len(f) = 1 /\ f[1] = s[1]
  BY <1>1, <1>2, <1>3
<1>5. QED
  BY <1>4 DEF a, f

(* Where only the request is on the stack, nothing is below it. *)
LEMMA EnteredOf ==
    ASSUME NEW s \in Seq(Call), Len(s) = 1, NEW x \in Call, NEW y \in Call
    PROVE  /\ Append(Front(s), x) \o <<y>> = <<x, y>> /\ Front(s) \o <<x, y>> = <<x, y>>
           /\ Append(Front(s), x) \o <<>> = <<x>> /\ Append(Front(s), x) = <<x>>
           /\ <<x>> \in Seq(Call) /\ <<x, y>> \in Seq(Call)
<1>1. Front(s) = <<>>
  BY SubSeqEmpty DEF Front
<1>2. QED
  BY <1>1, Pairs

LEMMA NewCallIs ==
    ASSUME NEW at \in Points, NEW i \in Instances
    PROVE  /\ NewCall(at, i) \in Call /\ NewCall(at, i).at = at /\ NewCall(at, i).inst = i
           /\ NewCall(at, i).seen = {}
BY DEF NewCall, Call, Sides

(* What the stack of a thread has on top. *)
LEMMA TopIs ==
    ASSUME EngineInv, NEW t \in Threads, calls[t] # <<>>
    PROVE  /\ calls \in [Threads -> Seq(Call)] /\ calls[t] \in Seq(Call)
           /\ Len(calls[t]) \in {1, 2} /\ Top(t) = calls[t][Len(calls[t])]
           /\ Top(t) \in Call /\ Top(t).at \in Points /\ Top(t).inst \in Instances
           /\ status[Top(t).inst] \in Statuses
<1>1. calls \in [Threads -> Seq(Call)] /\ calls[t] \in Seq(Call)
  BY DEF EngineInv, TypeOK
<1>2. Len(calls[t]) \in {1, 2}
  <2>1. Len(calls[t]) <= 2
    BY DEF EngineInv, StackOK
  <2>2. Len(calls[t]) \in Nat /\ Len(calls[t]) >= 1
    BY <1>1, FrontIs
  <2>3. QED
    BY <2>1, <2>2, OneOrTwo
<1>3. Top(t) = calls[t][Len(calls[t])] /\ Top(t) \in Call
  BY <1>1, FrontIs DEF Top
<1>4. QED
  BY <1>1, <1>2, <1>3 DEF Call, EngineInv, TypeOK, Statuses

-----------------------------------------------------------------------------
(* A step of one thread keeps the invariant, if it leaves a stack as it    *)
(* should be and nobody else's request is passed by.                       *)
LEMMA ThreadMoves ==
    ASSUME EngineInv, NEW t \in Threads, NEW stack \in Seq(Call),
           calls' = [calls EXCEPT ![t] = stack],
           status' \in [Instances -> Statuses],
           table' \subseteq {i \in Instances : status'[i] # "unborn"},
           todo' \in Seq(Instances), early \subseteq early', early' \subseteq Instances,
           owners' = owners, open' \subseteq open,
           \A i \in Instances : /\ status[i] # "unborn" => status'[i] # "unborn"
                                /\ status[i] \in Begun => status'[i] \in Begun
                                /\ status[i] \in Ended => status'[i] \in Ended
           ,
           \A d \in Threads \ {t} : Len(calls[d]) >= 1 /\ calls[d][1].at = "registered"
              => status'[calls[d][1].inst] = "idle",
           StackOK(t)', SeenOwn(t)', Listed',
           \A i \in Instances : Starts(t, i)' => Starts(t, i)
    PROVE  EngineInv'
<1>1. /\ calls' \in [Threads -> Seq(Call)] /\ calls'[t] = stack
      /\ \A d \in Threads \ {t} : calls'[d] = calls[d]
  BY DEF EngineInv, TypeOK
<1>2. TypeOK'
  BY <1>1 DEF EngineInv, TypeOK, Statuses
<1>3. ASSUME NEW d \in Threads \ {t}
      PROVE  StackOK(d)' /\ SeenOwn(d)'
  <2>1. /\ StackOK(d) /\ SeenOwn(d) /\ calls'[d] = calls[d] /\ calls[d] \in Seq(Call)
        /\ Len(calls[d]) \in Nat
    BY <1>1, <1>3 DEF EngineInv, TypeOK
  <2>2. \A k \in 1..Len(calls[d]) : calls[d][k].inst \in Instances
    <3>1. \A k \in 1..Len(calls[d]) : calls[d][k] \in Call
      BY <2>1, ElementOfSeq
    <3>2. QED
      BY <3>1 DEF Call
  <2>3. SeenOwn(d)'
    BY <2>1 DEF SeenOwn
  <2>4. Len(calls[d]) >= 1 => RequestOK(d, calls[d][1].at, calls[d][1].inst)'
    BY <1>3, <2>1, <2>2 DEF StackOK, RequestOK
  <2>5. Len(calls[d]) = 2 => status'[calls[d][2].inst] \in Begun
    BY <2>1, <2>2 DEF StackOK
  <2>6. QED
    BY <2>1, <2>3, <2>4, <2>5 DEF StackOK, RequestOK
<1>4. OneStarter'
  BY <1>1 DEF OneStarter, Starts, EngineInv
<1>5. OneOwnPosition'
  BY DEF EngineInv, OneOwnPosition
<1>6. QED
  BY <1>2, <1>3, <1>4, <1>5 DEF EngineInv

(* A step that leaves the statuses alone. *)
LEMMA StackMoves ==
    ASSUME EngineInv, NEW t \in Threads, NEW stack \in Seq(Call),
           calls' = [calls EXCEPT ![t] = stack], UNCHANGED <<status, table, owners, early>>,
           todo' \in Seq(Instances), open' \subseteq open,
           StackOK(t)', SeenOwn(t)',
           \A i \in Instances : Starts(t, i)' => Starts(t, i)
    PROVE  EngineInv'
<1>1. Listed'
  BY DEF EngineInv, Listed
<1>2. /\ status \in [Instances -> Statuses] /\ early \subseteq Instances
      /\ table \subseteq {i \in Instances : status[i] # "unborn"}
  BY DEF EngineInv, TypeOK, Statuses
<1>3. \A d \in Threads \ {t} : Len(calls[d]) >= 1 /\ calls[d][1].at = "registered"
              => status[calls[d][1].inst] = "idle"
  BY DEF EngineInv, StackOK, RequestOK
<1>4. QED
  BY <1>1, <1>2, <1>3, ThreadMoves
(* A request has no hook below it; on_candle and what follows from it has  *)
(* the start of its instance below it.                                     *)
LEMMA TopKinds ==
    ASSUME EngineInv, NEW t \in Threads, calls[t] # <<>>
    PROVE  /\ Top(t).at \in Requests =>
                 t # Loop /\ Len(calls[t]) = 1 /\ RequestOK(t, Top(t).at, Top(t).inst)
           /\ Top(t).at \in {"on_candle", "on_signal", "acting", "on_order"} =>
                 /\ Len(calls[t]) = 2 /\ calls[t][1].at = "candles"
                 /\ calls[t][1].inst = Top(t).inst
           /\ Top(t).at \in Hooks \cup {"acting"} => status[Top(t).inst] \in Begun
<1>1. StackOK(t) /\ Len(calls[t]) \in {1, 2} /\ Top(t) = calls[t][Len(calls[t])]
  BY TopIs DEF EngineInv
<1>2. CASE Len(calls[t]) = 1
  <2>1. Top(t) = calls[t][1]
    BY <1>1, <1>2
  <2>2. RequestOK(t, Top(t).at, Top(t).inst)
    BY <1>1, <1>2, <2>1 DEF StackOK
  <2>3. QED
    BY <1>2, <2>2 DEF RequestOK, Requests, Hooks
<1>3. CASE Len(calls[t]) = 2
  <2>1. Top(t) = calls[t][2]
    BY <1>1, <1>3
  <2>2. /\ <<calls[t][1].at, Top(t).at>> \in Above /\ Top(t).inst = calls[t][1].inst
        /\ status[Top(t).inst] \in Begun
    BY <1>1, <1>3, <2>1 DEF StackOK
  <2>3. QED
    BY <1>3, <2>2 DEF Above, Requests
<1>4. QED
  BY <1>1, <1>2, <1>3

-----------------------------------------------------------------------------
(* Returning from what is on top. *)
LEMMA ReturnKeeps ==
    ASSUME EngineInv, NEW t \in Threads, calls[t] # <<>>, Returned(t),
           UNCHANGED <<status, table, todo, owners, open, early>>
    PROVE  EngineInv'
<1> DEFINE stack == Front(calls[t])
<1>1. /\ stack \in Seq(Call)
      /\ \/ Len(calls[t]) = 1 /\ Len(stack) = 0
         \/ Len(calls[t]) = 2 /\ Len(stack) = 1 /\ stack[1] = calls[t][1]
  BY TopIs, FrontOf
<1>2. calls' = [calls EXCEPT ![t] = stack] /\ calls'[t] = stack
  BY TopIs DEF Returned
<1> HIDE DEF stack
<1>3. StackOK(t)
  BY DEF EngineInv
<1>4. StackOK(t)' /\ SeenOwn(t)'
  BY <1>1, <1>2, <1>3 DEF StackOK, RequestOK, SeenOwn
<1>5. \A i \in Instances : Starts(t, i)' => Starts(t, i)
  BY <1>1, <1>2 DEF Starts
<1>6. todo' \in Seq(Instances)
  BY DEF EngineInv, TypeOK
<1>7. QED
  BY <1>1, <1>2, <1>4, <1>5, <1>6, StackMoves

LEMMA RaiseKeeps ==
    ASSUME EngineInv, NEW t \in Threads, HookRaises(t)
    PROVE  EngineInv'
<1> DEFINE stack == Front(calls[t])
<1>1. /\ calls[t] # <<>> /\ Top(t).at \in Hooks \cup {"acting"}
      /\ status' = [status EXCEPT ![Top(t).inst] = "error"]
      /\ UNCHANGED <<table, todo, owners, open, early>>
  BY DEF HookRaises, Keeps
<1>2. PICK i \in Instances : i = Top(t).inst
  BY <1>1, TopIs
<1>3. status[i] \in Begun
  BY <1>1, <1>2, TopKinds
<1>4. /\ stack \in Seq(Call)
      /\ \/ Len(calls[t]) = 1 /\ Len(stack) = 0
         \/ /\ Len(calls[t]) = 2 /\ Len(stack) = 1 /\ stack[1] = calls[t][1]
            /\ Top(t) = calls[t][2]
  BY <1>1, TopIs, FrontOf
<1>5. calls' = [calls EXCEPT ![t] = stack] /\ calls'[t] = stack
  BY <1>1, TopIs DEF HookRaises, Returned
<1> HIDE DEF stack
<1>6. StackOK(t)
  BY DEF EngineInv
<1>7. /\ status' \in [Instances -> Statuses] /\ status'[i] = "error"
      /\ \A j \in Instances \ {i} : status'[j] = status[j]
  BY <1>1, <1>2 DEF EngineInv, TypeOK, Statuses
<1>8. StackOK(t)' /\ SeenOwn(t)'
  <2>1. Len(stack) = 1 => /\ stack[1].inst = i
                          /\ stack[1].at \in {"candles", "return", "remove"} /\ t # Loop
    BY <1>2, <1>4, <1>6 DEF StackOK, Above, RequestOK
  <2>2. QED
    BY <1>4, <1>5, <1>6, <1>7, <2>1 DEF StackOK, RequestOK, SeenOwn, Begun, Ended, Requests
<1>9. \A j \in Instances : Starts(t, j)' => Starts(t, j)
  BY <1>4, <1>5 DEF Starts
<1>10. /\ Listed' /\ table \subseteq {j \in Instances : status'[j] # "unborn"}
       /\ todo' \in Seq(Instances) /\ early \subseteq Instances
  BY <1>1, <1>7 DEF EngineInv, TypeOK, Listed
<1>11. \A j \in Instances : /\ status[j] # "unborn" => status'[j] # "unborn"
                            /\ status[j] \in Begun => status'[j] \in Begun
                            /\ status[j] \in Ended => status'[j] \in Ended
  BY <1>7 DEF Begun, Ended
<1>12. ASSUME NEW d \in Threads \ {t}, Len(calls[d]) >= 1, calls[d][1].at = "registered"
       PROVE  status'[calls[d][1].inst] = "idle"
  <2>1. status[calls[d][1].inst] = "idle"
    BY <1>12 DEF EngineInv, StackOK, RequestOK
  <2>2. calls[d][1] \in Call
    BY <1>12, ElementOfSeq DEF EngineInv, TypeOK
  <2>3. QED
    BY <1>3, <1>7, <2>1, <2>2 DEF Begun, Ended, Call
<1>13. QED
  BY <1>1, <1>4, <1>5, <1>7, <1>8, <1>9, <1>10, <1>11, <1>12, ThreadMoves
-----------------------------------------------------------------------------
(* Start. *)

LEMMA RegisterKeeps ==
    ASSUME EngineInv, NEW t \in Workers, Register(t)
    PROVE  EngineInv'
<1>1. PICK i \in Instances :
         /\ status[i] = "unborn"
         /\ status' = [status EXCEPT ![i] = "idle"]
         /\ table' = table \cup {i}
         /\ calls' = [calls EXCEPT ![t] = <<[NewCall("registered", i) EXCEPT !.n = Candles[i]]>>]
  BY DEF Register
<1>2. UNCHANGED <<todo, owners, open, early>> /\ calls[t] = <<>> /\ t \in Threads /\ t # Loop
  BY EngineAssumption DEF Register, Threads
<1> DEFINE x == [NewCall("registered", i) EXCEPT !.n = Candles[i]]
<1>3. x \in Call /\ x.at = "registered" /\ x.inst = i
  <2> DEFINE z == NewCall("registered", i)
  <2>1. z \in Call /\ z.at = "registered" /\ z.inst = i
    BY NewCallIs DEF Points
  <2>2. Candles[i] \in Nat
    BY EngineAssumption DEF Instances
  <2> HIDE DEF z
  <2>3. QED
    BY <2>1, <2>2 DEF Call, z
<1>4. calls' = [calls EXCEPT ![t] = <<x>>] /\ calls \in [Threads -> Seq(Call)]
  BY <1>1 DEF EngineInv, TypeOK
<1> HIDE DEF x
<1>5. <<x>> \in Seq(Call) /\ Len(<<x>>) = 1 /\ <<x>>[1] = x
  BY <1>3
<1>6. /\ calls'[t] = <<x>> /\ calls' \in [Threads -> Seq(Call)]
      /\ \A d \in Threads \ {t} : calls'[d] = calls[d]
  BY <1>2, <1>4, <1>5
<1>7. /\ status' \in [Instances -> Statuses] /\ status'[i] = "idle"
      /\ \A j \in Instances \ {i} : status'[j] = status[j]
  BY <1>1 DEF EngineInv, TypeOK, Statuses
<1>8. TypeOK'
  BY <1>1, <1>2, <1>6, <1>7 DEF EngineInv, TypeOK, Statuses
<1>9. StackOK(t)' /\ SeenOwn(t)'
  BY <1>2, <1>3, <1>5, <1>6, <1>7 DEF StackOK, RequestOK, SeenOwn, Requests
(* Nobody is in a call of an instance that did not exist. *)
<1>10. ASSUME NEW d \in Threads \ {t}
       PROVE  /\ StackOK(d)' /\ SeenOwn(d)'
              /\ Len(calls[d]) >= 1 => calls[d][1].inst # i
  <2>1. /\ StackOK(d) /\ SeenOwn(d) /\ calls'[d] = calls[d] /\ calls[d] \in Seq(Call)
        /\ Len(calls[d]) \in Nat
    BY <1>6 DEF EngineInv, TypeOK
  <2>2. \A k \in 1..Len(calls[d]) : calls[d][k].inst \in Instances
    <3>1. \A k \in 1..Len(calls[d]) : calls[d][k] \in Call
      BY <2>1, ElementOfSeq
    <3>2. QED
      BY <3>1 DEF Call
  <2>3. Len(calls[d]) >= 1 => calls[d][1].inst # i
    BY <1>1, <2>1 DEF StackOK, RequestOK, Begun, Ended, Requests
  <2>4. Len(calls[d]) >= 1 => status'[calls[d][1].inst] = status[calls[d][1].inst]
    BY <1>7, <2>1, <2>2, <2>3
  <2>5. Len(calls[d]) = 2 => calls[d][2].inst = calls[d][1].inst
    BY <2>1 DEF StackOK
  <2>6. StackOK(d)'
    BY <1>2, <2>1, <2>4, <2>5 DEF StackOK, RequestOK
  <2>7. SeenOwn(d)'
    BY <1>2, <2>1 DEF SeenOwn
  <2>8. QED
    BY <2>3, <2>6, <2>7
<1>11. OneStarter'
  BY <1>3, <1>5, <1>6, <1>10 DEF OneStarter, Starts, EngineInv
<1>12. Listed' /\ OneOwnPosition'
  BY <1>1, <1>2, <1>7 DEF Listed, OneOwnPosition, EngineInv
<1>13. QED
  BY <1>8, <1>9, <1>10, <1>11, <1>12 DEF EngineInv

LEMMA RunnerStartKeeps ==
    ASSUME EngineInv, NEW t \in Threads, RunnerStart(t)
    PROVE  EngineInv'
<1>1. /\ calls[t] # <<>> /\ Top(t).at = "registered"
      /\ UNCHANGED <<table, todo, owners, open, early>>
  BY DEF RunnerStart, InCall, Keeps
<1>2. PICK i \in Instances : i = Top(t).inst
  BY <1>1, TopIs
<1>3. t # Loop /\ Len(calls[t]) = 1 /\ status[i] = "idle" /\ Top(t) = calls[t][1]
  BY <1>1, <1>2, TopKinds, TopIs DEF Requests, RequestOK
<1> DEFINE x == [Top(t) EXCEPT !.at = "candles"]
           y == NewCall("initialize", i)
<1>4. x \in Call /\ x.at = "candles" /\ x.inst = i
  BY <1>1, <1>2, TopIs DEF Call, Points
<1>5. y \in Call /\ y.at = "initialize" /\ y.inst = i
  BY NewCallIs DEF Points, Hooks
<1>6. calls' = [calls EXCEPT ![t] = Front(calls[t]) \o <<x, y>>]
  BY <1>2 DEF RunnerStart, Enter
<1> HIDE DEF x, y
<1>7. calls' = [calls EXCEPT ![t] = <<x, y>>] /\ <<x, y>> \in Seq(Call)
  BY <1>1, <1>3, <1>4, <1>5, <1>6, EnteredOf, TopIs
<1>8. calls'[t] = <<x, y>> /\ Len(<<x, y>>) = 2 /\ <<x, y>>[1] = x /\ <<x, y>>[2] = y
  BY <1>1, <1>7, TopIs
<1>9. /\ status' \in [Instances -> Statuses] /\ status'[i] = "running"
      /\ \A j \in Instances \ {i} : status'[j] = status[j]
  BY <1>2 DEF RunnerStart, EngineInv, TypeOK, Statuses
<1>10. StackOK(t)' /\ SeenOwn(t)'
  BY <1>3, <1>4, <1>5, <1>8, <1>9
     DEF StackOK, RequestOK, SeenOwn, Above, Requests, Begun, Ended
<1>11. \A j \in Instances : Starts(t, j)' => Starts(t, j)
  BY <1>1, <1>2, <1>3, <1>4, <1>8 DEF Starts
<1>12. Listed'
  BY <1>1, <1>3, <1>9 DEF EngineInv, Listed
<1>13. /\ table \subseteq {j \in Instances : status'[j] # "unborn"}
       /\ todo' \in Seq(Instances) /\ early \subseteq Instances
       /\ \A j \in Instances : /\ status[j] # "unborn" => status'[j] # "unborn"
                               /\ status[j] \in Begun => status'[j] \in Begun
                               /\ status[j] \in Ended => status'[j] \in Ended
  BY <1>1, <1>3, <1>9 DEF EngineInv, TypeOK, Begun, Ended
<1>14. ASSUME NEW d \in Threads \ {t}, Len(calls[d]) >= 1, calls[d][1].at = "registered"
       PROVE  status'[calls[d][1].inst] = "idle"
  <2>1. status[calls[d][1].inst] = "idle"
    BY <1>14 DEF EngineInv, StackOK, RequestOK
  <2>2. calls[d][1].inst \in Instances
    <3>1. calls[d][1] \in Call
      BY <1>14, ElementOfSeq DEF EngineInv, TypeOK
    <3>2. QED
      BY <3>1 DEF Call
  <2>3. Starts(t, i)
    BY <1>1, <1>2, <1>3 DEF Starts
  <2>4. calls[d][1].inst # i
    BY <1>14, <2>3 DEF EngineInv, OneStarter, Starts
  <2>5. QED
    BY <1>9, <2>1, <2>2, <2>4
<1>15. QED
  BY <1>1, <1>7, <1>9, <1>10, <1>11, <1>12, <1>13, <1>14, ThreadMoves

(* A request that feeds a candle or a quote. *)
LEMMA FeedKeeps ==
    ASSUME EngineInv, NEW t \in Threads, NEW x \in Call, NEW y \in Call,
           calls[t] # <<>>, Top(t).at = "candles", x.inst = Top(t).inst, y.inst = Top(t).inst,
           x.at \in {"candles", "return"}, <<x.at, y.at>> \in Above, y.at # "acting",
           Feed(t, x, y), UNCHANGED <<status, table, todo, owners, open, early>>
    PROVE  EngineInv'
<1>1. /\ t # Loop /\ Len(calls[t]) = 1 /\ Top(t) = calls[t][1]
      /\ status[Top(t).inst] \in Begun
  BY TopKinds, TopIs DEF Requests, RequestOK
<1>2. todo' \in Seq(Instances)
  BY DEF EngineInv, TypeOK
<1>3. CASE status[x.inst] = "running"
  <2>1. calls' = [calls EXCEPT ![t] = <<x, y>>] /\ <<x, y>> \in Seq(Call)
    BY <1>1, <1>3, EnteredOf, TopIs DEF Feed
  <2>2. calls'[t] = <<x, y>> /\ Len(<<x, y>>) = 2 /\ <<x, y>>[1] = x /\ <<x, y>>[2] = y
    BY <2>1, TopIs
  <2>3. StackOK(t)' /\ SeenOwn(t)'
    BY <1>1, <2>2 DEF StackOK, RequestOK, SeenOwn, Requests
  <2>4. \A j \in Instances : Starts(t, j)' => Starts(t, j)
    BY <1>1, <2>2 DEF Starts
  <2>5. QED
    BY <1>2, <2>1, <2>3, <2>4, StackMoves
<1>4. CASE status[x.inst] # "running"
  <2>1. calls' = [calls EXCEPT ![t] = <<x>>] /\ <<x>> \in Seq(Call)
    BY <1>1, <1>4, EnteredOf, TopIs DEF Feed
  <2>2. calls'[t] = <<x>> /\ Len(<<x>>) = 1 /\ <<x>>[1] = x
    BY <2>1, TopIs
  <2>3. StackOK(t)' /\ SeenOwn(t)'
    BY <1>1, <2>2 DEF StackOK, RequestOK, SeenOwn, Requests
  <2>4. \A j \in Instances : Starts(t, j)' => Starts(t, j)
    BY <1>1, <2>2 DEF Starts
  <2>5. QED
    BY <1>2, <2>1, <2>3, <2>4, StackMoves
<1>5. QED
  BY <1>3, <1>4

(* What the two feeds of a start push. *)
Feeding(t, x, y) ==
    /\ calls[t] # <<>> /\ Top(t).at = "candles" /\ x.inst = Top(t).inst /\ y.inst = Top(t).inst
    /\ x.at \in {"candles", "return"} /\ <<x.at, y.at>> \in Above /\ y.at # "acting"
    /\ Feed(t, x, y) /\ UNCHANGED <<status, table, todo, owners, open, early>>

LEMMA FeedCandleIs ==
    ASSUME EngineInv, NEW t \in Threads, FeedCandle(t)
    PROVE  \E x, y \in Call : Feeding(t, x, y)
<1> DEFINE x == [Top(t) EXCEPT !.n = Top(t).n - 1]
           y == NewCall("on_candle", Top(t).inst)
<1>1. /\ calls[t] # <<>> /\ Top(t).at = "candles" /\ Top(t).n > 0
      /\ UNCHANGED <<status, table, todo, owners, open, early>> /\ Feed(t, x, y)
  BY DEF FeedCandle, InCall, Keeps
<1>2. Top(t) \in Call /\ Top(t).inst \in Instances
  BY <1>1, TopIs
<1>3. Top(t).n \in Nat
  BY <1>2 DEF Call
<1>4. Top(t).n - 1 \in Nat
  BY <1>1, <1>3
<1>5. x \in Call /\ x.at = "candles" /\ x.inst = Top(t).inst
  BY <1>1, <1>2, <1>4 DEF Call
<1>6. y \in Call /\ y.at = "on_candle" /\ y.inst = Top(t).inst
  BY <1>2, NewCallIs DEF Points, Hooks
<1> HIDE DEF x, y
<1>7. <<x.at, y.at>> \in Above
  BY <1>5, <1>6 DEF Above
<1>8. QED
  BY <1>1, <1>5, <1>6, <1>7 DEF Feeding

LEMMA StartFeedsQuoteIs ==
    ASSUME EngineInv, NEW t \in Threads, StartFeedsQuote(t)
    PROVE  \E x, y \in Call : Feeding(t, x, y)
<1> DEFINE x == [Top(t) EXCEPT !.at = "return"]
           y == NewCall("on_tick", Top(t).inst)
<1>1. /\ calls[t] # <<>> /\ Top(t).at = "candles"
      /\ UNCHANGED <<status, table, todo, owners, open, early>> /\ Feed(t, x, y)
  BY DEF StartFeedsQuote, InCall, Keeps
<1>2. Top(t) \in Call /\ Top(t).inst \in Instances
  BY <1>1, TopIs
<1>3. x \in Call /\ x.at = "return" /\ x.inst = Top(t).inst
  BY <1>2 DEF Call, Points
<1>4. y \in Call /\ y.at = "on_tick" /\ y.inst = Top(t).inst
  BY <1>2, NewCallIs DEF Points, Hooks
<1> HIDE DEF x, y
<1>5. <<x.at, y.at>> \in Above
  BY <1>3, <1>4 DEF Above
<1>6. QED
  BY <1>1, <1>3, <1>4, <1>5 DEF Feeding

LEMMA StartFeedsKeep ==
    ASSUME EngineInv, NEW t \in Threads, FeedCandle(t) \/ StartFeedsQuote(t)
    PROVE  EngineInv'
BY FeedCandleIs, StartFeedsQuoteIs, FeedKeeps DEF Feeding

-----------------------------------------------------------------------------
(* Stop. *)

LEMMA StopRequestKeeps ==
    ASSUME EngineInv, NEW t \in Workers, StopRequest(t)
    PROVE  EngineInv'
<1>1. PICK i \in table : calls' = [calls EXCEPT ![t] = <<NewCall("stop", i)>>]
  BY DEF StopRequest
<1>2. UNCHANGED <<status, table, todo, owners, open, early>> /\ t \in Threads /\ t # Loop
  BY EngineAssumption DEF StopRequest, Keeps, Threads
<1>3. i \in Instances /\ status[i] # "unborn" /\ calls \in [Threads -> Seq(Call)]
      /\ todo' \in Seq(Instances)
  BY <1>2 DEF EngineInv, TypeOK
<1> DEFINE x == NewCall("stop", i)
<1>4. x \in Call /\ x.at = "stop" /\ x.inst = i
  BY <1>3, NewCallIs DEF Points
<1>5. calls' = [calls EXCEPT ![t] = <<x>>]
  BY <1>1
<1> HIDE DEF x
<1>6. <<x>> \in Seq(Call) /\ Len(<<x>>) = 1 /\ <<x>>[1] = x /\ calls'[t] = <<x>>
  BY <1>2, <1>3, <1>4, <1>5
<1>7. StackOK(t)' /\ SeenOwn(t)'
  BY <1>2, <1>3, <1>4, <1>6 DEF StackOK, RequestOK, SeenOwn, Requests
<1>8. \A j \in Instances : Starts(t, j)' => Starts(t, j)
  BY <1>4, <1>6 DEF Starts
<1>9. QED
  BY <1>2, <1>3, <1>5, <1>6, <1>7, <1>8, StackMoves

LEMMA StopTestsKeeps ==
    ASSUME EngineInv, NEW t \in Threads, StopTests(t)
    PROVE  EngineInv'
<1>1. calls[t] # <<>> /\ Top(t).at = "stop" /\ UNCHANGED <<status, table, todo, owners, open>>
  BY DEF StopTests, InCall
<1>2. PICK i \in Instances : i = Top(t).inst
  BY <1>1, TopIs
<1>3. t # Loop /\ Len(calls[t]) = 1 /\ status[i] # "unborn" /\ Top(t) = calls[t][1]
  BY <1>1, <1>2, TopKinds, TopIs DEF Requests, RequestOK
<1>4. PICK at \in {"stopping", "remove"} :
         /\ MovedTo(t, [Top(t) EXCEPT !.at = at])
         /\ at = "stopping" <=> status[i] = "running"
  BY <1>2 DEF StopTests
<1>5. early' = IF status[i] = "idle" THEN early \cup {i} ELSE early
  BY <1>2 DEF StopTests
<1> DEFINE x == [Top(t) EXCEPT !.at = at]
<1>6. x \in Call /\ x.at = at /\ x.inst = i
  BY <1>1, <1>2, TopIs DEF Call, Points
<1>7. calls' = [calls EXCEPT ![t] = Append(Front(calls[t]), x)]
  BY <1>4 DEF MovedTo
<1> HIDE DEF x
<1>8. calls' = [calls EXCEPT ![t] = <<x>>] /\ <<x>> \in Seq(Call)
  BY <1>1, <1>3, <1>6, <1>7, EnteredOf, TopIs
<1>9. calls'[t] = <<x>> /\ Len(<<x>>) = 1 /\ <<x>>[1] = x
  BY <1>1, <1>8, TopIs
<1>10. /\ status \in [Instances -> Statuses] /\ early \subseteq early' /\ early' \subseteq Instances
       /\ table \subseteq {j \in Instances : status[j] # "unborn"} /\ todo' \in Seq(Instances)
       /\ Listed'
  BY <1>1, <1>5 DEF EngineInv, TypeOK, Statuses, Listed
<1>11. StackOK(t)' /\ SeenOwn(t)'
  BY <1>1, <1>3, <1>4, <1>5, <1>6, <1>9, <1>10
     DEF StackOK, RequestOK, SeenOwn, Requests, Begun, Ended, Statuses
<1>12. \A j \in Instances : Starts(t, j)' => Starts(t, j)
  BY <1>6, <1>9 DEF Starts
<1>13. \A d \in Threads \ {t} : Len(calls[d]) >= 1 /\ calls[d][1].at = "registered"
              => status[calls[d][1].inst] = "idle"
  BY DEF EngineInv, StackOK, RequestOK
<1>14. QED
  BY <1>1, <1>8, <1>10, <1>11, <1>12, <1>13, ThreadMoves

LEMMA RunnerStopKeeps ==
    ASSUME EngineInv, NEW t \in Threads, RunnerStop(t)
    PROVE  EngineInv'
<1>1. /\ calls[t] # <<>> /\ Top(t).at = "stopping"
      /\ UNCHANGED <<table, todo, owners, open, early>>
  BY DEF RunnerStop, InCall, Keeps
<1>2. PICK i \in Instances : i = Top(t).inst
  BY <1>1, TopIs
<1>3. t # Loop /\ Len(calls[t]) = 1 /\ status[i] \in Begun /\ Top(t) = calls[t][1]
  BY <1>1, <1>2, TopKinds, TopIs DEF Requests, RequestOK
<1> DEFINE x == [Top(t) EXCEPT !.at = "remove"]
           y == NewCall("shutdown", i)
<1>4. x \in Call /\ x.at = "remove" /\ x.inst = i
  BY <1>1, <1>2, TopIs DEF Call, Points
<1>5. y \in Call /\ y.at = "shutdown" /\ y.inst = i
  BY NewCallIs DEF Points, Hooks
<1>6. calls' = [calls EXCEPT ![t] = Front(calls[t]) \o <<x, y>>]
  BY <1>2 DEF RunnerStop, Enter
<1> HIDE DEF x, y
<1>7. calls' = [calls EXCEPT ![t] = <<x, y>>] /\ <<x, y>> \in Seq(Call)
  BY <1>1, <1>3, <1>4, <1>5, <1>6, EnteredOf, TopIs
<1>8. calls'[t] = <<x, y>> /\ Len(<<x, y>>) = 2 /\ <<x, y>>[1] = x /\ <<x, y>>[2] = y
  BY <1>1, <1>7, TopIs
<1>9. /\ status' \in [Instances -> Statuses] /\ status'[i] = "stopped"
      /\ \A j \in Instances \ {i} : status'[j] = status[j]
  BY <1>2 DEF RunnerStop, EngineInv, TypeOK, Statuses
<1>10. StackOK(t)' /\ SeenOwn(t)'
  BY <1>3, <1>4, <1>5, <1>8, <1>9
     DEF StackOK, RequestOK, SeenOwn, Above, Requests, Begun, Ended
<1>11. \A j \in Instances : Starts(t, j)' => Starts(t, j)
  BY <1>4, <1>8 DEF Starts
<1>12. Listed'
  BY <1>1, <1>9 DEF EngineInv, Listed
<1>13. /\ table \subseteq {j \in Instances : status'[j] # "unborn"}
       /\ todo' \in Seq(Instances) /\ early \subseteq Instances
       /\ \A j \in Instances : /\ status[j] # "unborn" => status'[j] # "unborn"
                               /\ status[j] \in Begun => status'[j] \in Begun
                               /\ status[j] \in Ended => status'[j] \in Ended
  BY <1>1, <1>3, <1>9 DEF EngineInv, TypeOK, Begun, Ended
<1>14. ASSUME NEW d \in Threads \ {t}, Len(calls[d]) >= 1, calls[d][1].at = "registered"
       PROVE  status'[calls[d][1].inst] = "idle"
  <2>1. status[calls[d][1].inst] = "idle"
    BY <1>14 DEF EngineInv, StackOK, RequestOK
  <2>2. calls[d][1].inst \in Instances
    <3>1. calls[d][1] \in Call
      BY <1>14, ElementOfSeq DEF EngineInv, TypeOK
    <3>2. QED
      BY <3>1 DEF Call
  <2>3. QED
    BY <1>3, <1>9, <2>1, <2>2 DEF Begun, Ended
<1>15. QED
  BY <1>1, <1>7, <1>9, <1>10, <1>11, <1>12, <1>13, <1>14, ThreadMoves

(* An instance that a stop takes out has ended, or was found before it ran. *)
LEMMA StopRemovesKeeps ==
    ASSUME EngineInv, NEW t \in Threads, StopRemoves(t)
    PROVE  EngineInv'
<1>1. /\ calls[t] # <<>> /\ Top(t).at = "remove" /\ table' = table \ {Top(t).inst}
      /\ UNCHANGED <<status, todo, owners, open, early>>
  BY DEF StopRemoves, InCall
<1>2. PICK i \in Instances : i = Top(t).inst
  BY <1>1, TopIs
<1>3. Len(calls[t]) = 1 /\ (status[i] \in Ended \/ i \in early)
  BY <1>1, <1>2, TopKinds DEF Requests, RequestOK
<1> DEFINE stack == Front(calls[t])
<1>4. stack \in Seq(Call) /\ Len(stack) = 0
  <2>1. stack = <<>>
    BY <1>3, SubSeqEmpty DEF Front
  <2>2. QED
    BY <2>1
<1>5. calls' = [calls EXCEPT ![t] = stack] /\ calls'[t] = stack
  BY <1>1, TopIs DEF StopRemoves, Returned
<1> HIDE DEF stack
<1>6. StackOK(t)' /\ SeenOwn(t)' /\ \A j \in Instances : Starts(t, j)' => Starts(t, j)
  BY <1>4, <1>5 DEF StackOK, SeenOwn, Starts
<1>7. Listed'
  BY <1>1, <1>2, <1>3 DEF EngineInv, Listed, Ended
<1>8. /\ status \in [Instances -> Statuses] /\ early \subseteq Instances
      /\ table' \subseteq {j \in Instances : status[j] # "unborn"} /\ todo' \in Seq(Instances)
  BY <1>1 DEF EngineInv, TypeOK, Statuses
<1>9. \A d \in Threads \ {t} : Len(calls[d]) >= 1 /\ calls[d][1].at = "registered"
              => status[calls[d][1].inst] = "idle"
  BY DEF EngineInv, StackOK, RequestOK
<1>10. QED
  BY <1>1, <1>4, <1>5, <1>6, <1>7, <1>8, <1>9, ThreadMoves

-----------------------------------------------------------------------------
(* The feed. *)

LEMMA TablesFinite ==
    ASSUME EngineInv
    PROVE  \A order \in Ascending(table) : order \in Seq(Instances)
<1>1. table \subseteq Instances
  BY DEF EngineInv, TypeOK
<1>2. IsFiniteSet(Instances)
  BY EngineAssumption, FS_Interval DEF Instances
<1>3. Cardinality(table) \in Nat
  BY <1>1, <1>2, FS_Subset, FS_CardinalityType
<1>4. ASSUME NEW order \in Ascending(table)
      PROVE  order \in Seq(Instances)
  <2>1. order \in [1..Cardinality(table) -> table]
    BY DEF Ascending, SetToSeqs
  <2>2. order \in [1..Cardinality(table) -> Instances]
    BY <1>1, <2>1
  <2>3. QED
    BY <1>3, <2>2, SeqDef
<1>5. QED
  BY <1>4

LEMMA QuietKeeps ==
    ASSUME EngineInv, UNCHANGED <<calls, status, table, owners, open, early>>,
           todo' \in Seq(Instances)
    PROVE  EngineInv'
<1>1. TypeOK' /\ OneStarter' /\ Listed' /\ OneOwnPosition'
  BY DEF EngineInv, TypeOK, OneStarter, Starts, Listed, OneOwnPosition
<1>2. \A t \in Threads : StackOK(t)' /\ SeenOwn(t)'
  BY DEF EngineInv, StackOK, RequestOK, SeenOwn
<1>3. QED
  BY <1>1, <1>2 DEF EngineInv

LEMMA FeedNextKeeps ==
    ASSUME EngineInv, FeedNext
    PROVE  EngineInv'
<1>1. /\ todo \in Seq(Instances) /\ todo # <<>> /\ todo' = Tail(todo)
      /\ UNCHANGED <<status, table, owners, open, early>>
      /\ calls \in [Threads -> Seq(Call)] /\ Loop \in Threads
  BY DEF FeedNext, EngineInv, TypeOK, Threads
<1>2. todo' \in Seq(Instances) /\ Head(todo) \in Instances
  BY <1>1, HeadTailProperties
<1>3. PICK i \in Instances : i = Head(todo)
  BY <1>2
<1> DEFINE x == NewCall("on_tick", i)
<1>4. x \in Call /\ x.at = "on_tick" /\ x.inst = i
  BY NewCallIs DEF Points, Hooks
<1>5. calls' = [calls EXCEPT ![Loop] = IF status[i] = "running" THEN <<x>> ELSE <<>>]
  BY <1>3 DEF FeedNext
<1> HIDE DEF x
<1>6. CASE status[i] = "running"
  <2>1. calls' = [calls EXCEPT ![Loop] = <<x>>]
    BY <1>5, <1>6
  <2>2. /\ <<x>> \in Seq(Call) /\ Len(<<x>>) = 1 /\ <<x>>[1] = x /\ calls'[Loop] = <<x>>
    BY <1>1, <1>4, <2>1
  <2>3. StackOK(Loop)' /\ SeenOwn(Loop)'
    BY <1>1, <1>4, <1>6, <2>2 DEF StackOK, RequestOK, SeenOwn, Begun
  <2>4. \A j \in Instances : Starts(Loop, j)' => Starts(Loop, j)
    BY <1>4, <2>2 DEF Starts
  <2>5. QED
    BY <1>1, <1>2, <2>1, <2>2, <2>3, <2>4, StackMoves
<1>7. CASE status[i] # "running"
  <2>1. calls' = [calls EXCEPT ![Loop] = <<>>]
    BY <1>5, <1>7
  <2>2. <<>> \in Seq(Call) /\ Len(<<>>) = 0 /\ calls'[Loop] = <<>>
    BY <1>1, <2>1
  <2>3. /\ StackOK(Loop)' /\ SeenOwn(Loop)'
        /\ \A j \in Instances : Starts(Loop, j)' => Starts(Loop, j)
    BY <2>2 DEF StackOK, SeenOwn, Starts
  <2>4. QED
    BY <1>1, <1>2, <2>1, <2>2, <2>3, StackMoves
<1>8. QED
  BY <1>6, <1>7
-----------------------------------------------------------------------------
(* The hooks. *)

(* A hook that goes on to another. *)
LEMMA HookMoves ==
    ASSUME EngineInv, NEW t \in Threads, NEW x \in Call, calls[t] # <<>>, MovedTo(t, x),
           Top(t).at \in {"on_candle", "on_signal", "acting", "on_order"},
           x.inst = Top(t).inst, x.at \in {"on_signal", "acting", "on_order", "on_position"},
           UNCHANGED <<status, table, owners, early, todo>>, open' \subseteq open,
           x.at = "acting" => \A p \in open' : owners[p] = x.inst => p \in x.seen
    PROVE  EngineInv'
<1> DEFINE stack == Append(Front(calls[t]), x)
<1>1. /\ Len(calls[t]) = 2 /\ calls[t][1].at = "candles" /\ calls[t][1].inst = x.inst
      /\ status[x.inst] \in Begun
  <2>1. Len(calls[t]) = 2 /\ calls[t][1].at = "candles" /\ calls[t][1].inst = x.inst
    BY TopKinds
  <2>2. status[Top(t).inst] \in Begun
    BY TopKinds DEF Hooks
  <2>3. QED
    BY <2>1, <2>2
<1>2. /\ stack \in Seq(Call) /\ Len(stack) = 2 /\ stack[1] = calls[t][1] /\ stack[2] = x
  <2>1. calls[t] \in Seq(Call)
    BY TopIs
  <2>2. QED
    BY <1>1, <2>1, HookOf
<1>3. calls' = [calls EXCEPT ![t] = stack] /\ calls'[t] = stack
  BY TopIs DEF MovedTo
<1> HIDE DEF stack
<1>4. StackOK(t)
  BY DEF EngineInv
<1>5. StackOK(t)'
  <2>1. <<"candles", x.at>> \in Above
    BY DEF Above
  <2>2. RequestOK(t, calls[t][1].at, calls[t][1].inst)'
    BY <1>1, <1>2, <1>3, <1>4 DEF StackOK, RequestOK
  <2>3. /\ Len(calls'[t]) = 2 /\ calls'[t][1].at = "candles" /\ calls'[t][2] = x
        /\ calls'[t][1].inst = x.inst
    BY <1>1, <1>2, <1>3
  <2>4. QED
    BY <1>1, <2>1, <2>2, <2>3 DEF StackOK
<1>6. SeenOwn(t)'
  BY <1>2, <1>3 DEF SeenOwn
<1>7. \A i \in Instances : Starts(t, i)' => Starts(t, i)
  BY <1>1, <1>2, <1>3 DEF Starts
<1>8. todo' \in Seq(Instances)
  BY DEF EngineInv, TypeOK
<1>9. QED
  BY <1>2, <1>3, <1>5, <1>6, <1>7, <1>8, StackMoves

LEMMA CandleSignalsKeeps ==
    ASSUME EngineInv, NEW t \in Threads, NEW side \in {"buy", "sell"}, CandleSignals(t, side)
    PROVE  EngineInv'
<1> DEFINE x == [NewCall("on_signal", Top(t).inst) EXCEPT !.side = side]
<1>1. /\ calls[t] # <<>> /\ Top(t).at = "on_candle" /\ MovedTo(t, x)
      /\ UNCHANGED <<status, table, todo, owners, open, early>>
  BY DEF CandleSignals, EmitSignal, InCall, Keeps
<1>2. x \in Call /\ x.at = "on_signal" /\ x.inst = Top(t).inst
  <2> DEFINE z == NewCall("on_signal", Top(t).inst)
  <2>1. z \in Call /\ z.at = "on_signal" /\ z.inst = Top(t).inst
    BY <1>1, TopIs, NewCallIs DEF Points, Hooks
  <2> HIDE DEF z
  <2>2. QED
    BY <2>1 DEF Call, Sides, z
<1> HIDE DEF x
<1>3. QED
  BY <1>1, <1>2, HookMoves

LEMMA OpenBounded ==
    ASSUME EngineInv
    PROVE  open \subseteq 1..MaxPositions
<1>1. /\ Len(owners) \in Nat /\ Len(owners) <= MaxPositions
      /\ open \subseteq 1..Len(owners)
  BY DEF EngineInv, TypeOK
<1>2. PICK n \in Nat : n = Len(owners)
  BY <1>1
<1>3. n <= MaxPositions /\ open \subseteq 1..n
  BY <1>1, <1>2
<1>4. QED
  BY EngineAssumption, <1>3

LEMMA SignalLooksKeeps ==
    ASSUME EngineInv, NEW t \in Threads, SignalLooks(t)
    PROVE  EngineInv'
<1> DEFINE x == [Top(t) EXCEPT !.at = "acting", !.seen = open]
<1>1. /\ calls[t] # <<>> /\ Top(t).at = "on_signal" /\ MovedTo(t, x)
      /\ UNCHANGED <<status, table, todo, owners, open, early>>
  BY DEF SignalLooks, InCall, Keeps
<1>2. open \subseteq 1..MaxPositions
  BY OpenBounded
<1>3. x \in Call /\ x.at = "acting" /\ x.inst = Top(t).inst /\ x.seen = open
  BY <1>1, <1>2, TopIs DEF Call, Points
<1> HIDE DEF x
<1>4. QED
  BY <1>1, <1>3, HookMoves

(* The order is reported to on_order, or the runner does not run any more. *)
LEMMA ContinueKeeps ==
    ASSUME EngineInv, NEW t \in Threads, calls[t] # <<>>,
           Top(t).at \in {"acting", "on_order"},
           NEW hook \in {"on_order", "on_position"}, Continue(t, hook),
           UNCHANGED <<status, table, todo, owners, open, early>>
    PROVE  EngineInv'
<1> DEFINE x == NewCall(hook, Top(t).inst)
<1>1. x \in Call /\ x.at = hook /\ x.inst = Top(t).inst
  BY TopIs, NewCallIs DEF Points, Hooks
<1>2. MovedTo(t, x) \/ Returned(t)
  BY DEF Continue
<1> HIDE DEF x
<1>3. QED
  BY <1>1, <1>2, HookMoves, ReturnKeeps

(* Who buys has seen all positions of its instance, and there is none.     *)
LEMMA BuyKeeps ==
    ASSUME EngineInv, NEW t \in Threads, Buy(t)
    PROVE  EngineInv'
<1>1. /\ calls[t] # <<>> /\ Top(t).at = "acting" /\ Top(t).seen = {}
      /\ Len(owners) < MaxPositions
      /\ owners' = Append(owners, Top(t).inst) /\ open' = open \cup {Len(owners) + 1}
      /\ Continue(t, "on_order")
      /\ UNCHANGED <<status, table, todo, early>>
  BY DEF Buy, PlaceOrder, InCall
<1>2. PICK i \in Instances : i = Top(t).inst
  BY <1>1, TopIs
<1>3. /\ Len(calls[t]) = 2 /\ calls[t][1].at = "candles" /\ calls[t][1].inst = i
      /\ Top(t) = calls[t][2] /\ status[i] \in Begun
  BY <1>1, <1>2, TopKinds, TopIs
<1>4. /\ owners \in Seq(Instances) /\ Len(owners) \in Nat /\ open \subseteq 1..Len(owners)
      /\ calls \in [Threads -> Seq(Call)] /\ calls[t] \in Seq(Call)
  BY DEF EngineInv, TypeOK
<1> DEFINE new == Len(owners) + 1
<1>5. /\ owners' \in Seq(Instances) /\ Len(owners') = new /\ owners'[new] = i
      /\ \A p \in 1..Len(owners) : owners'[p] = owners[p]
  BY <1>1, <1>2, <1>4
<1>6. \A p \in open : owners[p] # i
  BY <1>1, <1>2, <1>3 DEF EngineInv, SeenOwn
<1>7. OneOwnPosition'
  BY <1>1, <1>4, <1>5, <1>6 DEF EngineInv, OneOwnPosition
<1> DEFINE x == NewCall("on_order", i)
<1>8. x \in Call /\ x.at = "on_order" /\ x.inst = i
  BY NewCallIs DEF Points, Hooks
<1>9. calls' = [calls EXCEPT ![t] = Append(Front(calls[t]), x)]
      \/ calls' = [calls EXCEPT ![t] = Front(calls[t])]
  BY <1>1, <1>2 DEF Continue, MovedTo, Returned
<1> HIDE DEF x
<1>10. /\ Append(Front(calls[t]), x) \in Seq(Call) /\ Front(calls[t]) \in Seq(Call)
       /\ Len(Append(Front(calls[t]), x)) = 2 /\ Len(Front(calls[t])) = 1
       /\ Append(Front(calls[t]), x)[1] = calls[t][1] /\ Front(calls[t])[1] = calls[t][1]
       /\ Append(Front(calls[t]), x)[2] = x
  <2>1. /\ Append(Front(calls[t]), x) \in Seq(Call) /\ Len(Append(Front(calls[t]), x)) = 2
        /\ Append(Front(calls[t]), x)[1] = calls[t][1]
        /\ Append(Front(calls[t]), x)[2] = x
    BY <1>3, <1>4, <1>8, HookOf
  <2>2. /\ Front(calls[t]) \in Seq(Call) /\ Len(Front(calls[t])) = 1
        /\ Front(calls[t])[1] = calls[t][1]
    BY <1>3, <1>4, <1>8, HookOf
  <2>3. QED
    BY <2>1, <2>2
<1>11. /\ calls' \in [Threads -> Seq(Call)] /\ \A d \in Threads \ {t} : calls'[d] = calls[d]
       /\ calls'[t][1] = calls[t][1]
       /\ Len(calls'[t]) = 1 \/ (Len(calls'[t]) = 2 /\ calls'[t][2] = x)
  BY <1>4, <1>9, <1>10
<1>12. StackOK(t)' /\ SeenOwn(t)'
  <2>1. StackOK(t)
    BY DEF EngineInv
  <2>2. QED
    <3>1. RequestOK(t, calls[t][1].at, calls[t][1].inst)'
      BY <1>1, <1>3, <1>11, <2>1 DEF StackOK, RequestOK
    <3>2. <<"candles", "on_order">> \in Above
      BY DEF Above
    <3>3. QED
      <4>1. Len(calls'[t]) = 2 => /\ calls'[t][1].at = "candles" /\ calls'[t][2] = x
                                  /\ calls'[t][1].inst = i
        BY <1>3, <1>11
      <4>2. StackOK(t)'
        <5>1. Len(calls'[t]) <= 2 /\ status' = status
          BY <1>1, <1>11, OneOrTwo
        <5>2. Len(calls'[t]) = 2 => /\ <<calls'[t][1].at, calls'[t][2].at>> \in Above
                                    /\ calls'[t][2].inst = calls'[t][1].inst
                                    /\ status'[calls'[t][2].inst] \in Begun
          BY <1>3, <1>8, <3>2, <4>1, <5>1
        <5>3. QED
          BY <3>1, <5>1, <5>2 DEF StackOK
      <4>3. SeenOwn(t)'
        BY <1>8, <4>1 DEF SeenOwn
      <4>4. QED
        BY <4>2, <4>3
<1>13. ASSUME NEW d \in Threads \ {t}
       PROVE  StackOK(d)' /\ SeenOwn(d)'
  <2>1. StackOK(d) /\ SeenOwn(d) /\ calls'[d] = calls[d]
    BY <1>11 DEF EngineInv
  <2>2. Len(calls[d]) = 2 /\ calls[d][2].at = "acting" => calls[d][2].inst # i
    BY <1>3, <2>1 DEF EngineInv, OneStarter, Starts, StackOK, Above
  <2>3. SeenOwn(d)'
    BY <1>1, <1>4, <1>5, <2>1, <2>2 DEF SeenOwn
  <2>4. QED
    BY <1>1, <2>1, <2>3 DEF StackOK, RequestOK
<1>14. OneStarter'
  <2>1. \A d \in Threads, j \in Instances : Starts(d, j)' <=> Starts(d, j)
    BY <1>3, <1>11 DEF Starts
  <2>2. QED
    BY <2>1 DEF EngineInv, OneStarter
<1>15. TypeOK'
  <2>1. open' \subseteq DOMAIN owners' /\ Len(owners') <= MaxPositions
    <3>1. PICK n \in Nat : n = Len(owners)
      BY <1>4
    <3>2. /\ n < MaxPositions /\ open \subseteq 1..n /\ open' = open \cup {n + 1}
          /\ Len(owners') = n + 1 /\ DOMAIN owners' = 1..(n + 1)
      BY <1>1, <1>4, <1>5, <3>1
    <3>3. n + 1 <= MaxPositions /\ open' \subseteq 1..(n + 1)
      BY EngineAssumption, <3>2
    <3>4. QED
      BY <3>2, <3>3
  <2>2. QED
    BY <1>1, <1>5, <1>11, <2>1 DEF EngineInv, TypeOK
<1>16. Listed'
  BY <1>1 DEF EngineInv, Listed
<1>17. QED
  BY <1>7, <1>12, <1>13, <1>14, <1>15, <1>16 DEF EngineInv

LEMMA NotePositionKeeps ==
    ASSUME EngineInv, NEW t \in Threads, NotePosition(t)
    PROVE  EngineInv'
<1>1. /\ calls[t] # <<>> /\ Top(t).at = "on_order"
      /\ UNCHANGED <<status, table, todo, owners, open, early>>
      /\ Continue(t, "on_position") \/ Returned(t)
  BY DEF NotePosition, InCall, Keeps
<1>2. QED
  BY <1>1, ContinueKeeps, ReturnKeeps

LEMMA SellAllKeeps ==
    ASSUME EngineInv, NEW t \in Threads, SellAll(t)
    PROVE  EngineInv'
<1>1. PICK p \in Top(t).seen \cap open :
         /\ open' = open \ {p}
         /\ MovedTo(t, [Top(t) EXCEPT !.seen = Top(t).seen \ {p}])
  BY DEF SellAll
<1> DEFINE x == [Top(t) EXCEPT !.seen = Top(t).seen \ {p}]
<1>2. /\ calls[t] # <<>> /\ Top(t).at = "acting" /\ MovedTo(t, x)
      /\ UNCHANGED <<status, table, todo, owners, early>>
  BY <1>1 DEF SellAll, InCall
<1>3. /\ x \in Call /\ x.at = "acting" /\ x.inst = Top(t).inst
      /\ x.seen = Top(t).seen \ {p}
  BY <1>2, TopIs DEF Call
<1> HIDE DEF x
<1>4. Top(t) = calls[t][2] /\ Len(calls[t]) = 2
  BY <1>2, TopKinds, TopIs
<1>5. \A q \in open' : owners[q] = x.inst => q \in x.seen
  BY <1>1, <1>2, <1>3, <1>4 DEF EngineInv, SeenOwn
<1>6. QED
  BY <1>1, <1>2, <1>3, <1>5, HookMoves

LEMMA HookKeeps ==
    ASSUME EngineInv, NEW t \in Threads, Hook(t)
    PROVE  EngineInv'
<1>1. CASE HookReturns(t)
  BY <1>1, ReturnKeeps DEF HookReturns, Keeps
<1>2. CASE SignalDone(t)
  BY <1>2, ReturnKeeps DEF SignalDone, InCall, Keeps
<1>3. QED
  BY <1>1, <1>2, RaiseKeeps, SignalLooksKeeps, BuyKeeps, NotePositionKeeps, SellAllKeeps,
     CandleSignalsKeeps DEF Hook

-----------------------------------------------------------------------------
LEMMA NextKeeps ==
    ASSUME EngineInv, [Next]_vars
    PROVE  EngineInv'
<1>1. Loop \in Threads /\ Workers \subseteq Threads
  BY DEF Threads
<1>2. CASE FeedLoop
  <2>1. CASE BeginFeed
    BY <2>1, TablesFinite, QuietKeeps DEF BeginFeed
  <2>2. QED
    BY <1>1, <1>2, <2>1, FeedNextKeeps, HookKeeps DEF FeedLoop
<1>3. ASSUME NEW w \in Workers, Runs(w)
      PROVE  EngineInv'
  <2>1. CASE StartEnds(w)
    BY <1>1, <2>1, ReturnKeeps DEF StartEnds, InCall, Keeps
  <2>2. QED
    BY <1>1, <1>3, <2>1, RunnerStartKeeps, StartFeedsKeep,
       StopTestsKeeps, RunnerStopKeeps, StopRemovesKeeps, HookKeeps DEF Runs
<1>4. CASE UNCHANGED vars
  BY <1>4, QuietKeeps DEF vars, EngineInv, TypeOK
<1>5. QED
  BY <1>2, <1>3, <1>4, RegisterKeeps, StopRequestKeeps DEF Next

LEMMA EngineInvAlways == Spec => []EngineInv
<1>1. Init => EngineInv
  <2>1. SUFFICES ASSUME Init PROVE EngineInv
    OBVIOUS
  <2>2. \A t \in Threads : calls[t] = <<>> /\ Len(calls[t]) = 0
    BY <2>1 DEF Init
  <2>3. TypeOK
    BY EngineAssumption, <2>1 DEF Init, TypeOK
  <2>4. QED
    BY <2>1, <2>2, <2>3 DEF Init, EngineInv, StackOK, SeenOwn, OneStarter, Starts, Listed,
                            OneOwnPosition
<1>2. QED
  BY <1>1, NextKeeps, PTL DEF Spec

(* However starts, stops and the feed interleave and hooks raise, stacks,  *)
(* statuses, the table and the positions keep their types.                 *)
THEOREM TypesKept == Spec => []TypeOK
<1>1. EngineInv => TypeOK
  BY DEF EngineInv
<1>2. QED
  BY <1>1, EngineInvAlways, PTL

(* An SmaCross instance never holds two positions of its own.              *)
THEOREM AlwaysOneOwnPosition == Spec => []OneOwnPosition
<1>1. EngineInv => OneOwnPosition
  BY DEF EngineInv
<1>2. QED
  BY <1>1, EngineInvAlways, PTL

(* What runs can be found and stopped, or was found by a stop too early.   *)
THEOREM RunningAlwaysListed == Spec => []RunningIsListed
<1>1. EngineInv => RunningIsListed
  BY DEF EngineInv, Listed, RunningIsListed
<1>2. QED
  BY <1>1, EngineInvAlways, PTL
-----------------------------------------------------------------------------
(* No hook begins for an instance that has left the table after it ran.    *)

NewHook(t, i) ==
    /\ calls'[t] # <<>> /\ Last(calls'[t]).inst = i
    /\ Last(calls'[t]).at \in Hooks \ {"shutdown"}
    /\ \A k \in DOMAIN calls[t] : calls[t][k].at # Last(calls'[t]).at

(* What a thread does next begins no hook of i. *)
LEMMA SameStack ==
    ASSUME EngineInv, NEW t \in Threads, NEW i, calls'[t] = calls[t]
    PROVE  ~NewHook(t, i)
<1>1. CASE calls[t] # <<>>
  <2>1. /\ calls[t] \in Seq(Call) /\ Len(calls[t]) \in {1, 2}
        /\ Last(calls[t]) = calls[t][Len(calls[t])]
    BY <1>1, TopIs DEF Last
  <2>2. Len(calls[t]) \in DOMAIN calls[t]
    BY <2>1, OneOrTwo, LenProperties
  <2>3. QED
    BY <2>1, <2>2 DEF NewHook
<1>2. QED
  BY <1>1 DEF NewHook

LEMMA ReturnedStack ==
    ASSUME EngineInv, NEW t \in Threads, NEW i, calls[t] # <<>>, Returned(t)
    PROVE  ~NewHook(t, i)
<1> DEFINE f == Front(calls[t])
<1>1. calls[t] \in Seq(Call) /\ Len(calls[t]) \in {1, 2} /\ calls'[t] = f
  BY TopIs DEF Returned
<1>2. /\ f \in Seq(Call)
      /\ \/ Len(calls[t]) = 1 /\ Len(f) = 0
         \/ Len(calls[t]) = 2 /\ Len(f) = 1 /\ f[1] = calls[t][1]
  BY <1>1, FrontOf
<1> HIDE DEF f
<1>3. CASE Len(f) = 0
  <2>1. f = <<>>
    BY <1>2, <1>3, EmptySeq
  <2>2. QED
    BY <1>1, <2>1 DEF NewHook
<1>4. CASE Len(f) = 1
  <2>1. Last(calls'[t]) = calls[t][1] /\ 1 \in DOMAIN calls[t]
    BY <1>1, <1>2, <1>4 DEF Last
  <2>2. QED
    BY <2>1 DEF NewHook
<1>5. QED
  BY <1>2, <1>3, <1>4

LEMMA MovedStack ==
    ASSUME EngineInv, NEW t \in Threads, NEW i, NEW x \in Call, calls[t] # <<>>,
           MovedTo(t, x), x.at \notin Hooks \ {"shutdown"} \/ x.inst # i
    PROVE  ~NewHook(t, i)
<1> DEFINE s == Append(Front(calls[t]), x)
<1>1. calls[t] \in Seq(Call) /\ Len(calls[t]) \in {1, 2} /\ calls'[t] = s
  BY TopIs DEF MovedTo
<1>2. s \in Seq(Call) /\ s[Len(s)] = x
  BY <1>1, MovedOf
<1> HIDE DEF s
<1>3. Last(calls'[t]) = x
  BY <1>1, <1>2 DEF Last
<1>4. QED
  BY <1>3 DEF NewHook

LEMMA NewStack ==
    ASSUME NEW t, NEW i, NEW x \in Call, NEW y \in Call,
           \/ calls'[t] = <<x>> /\ (x.at \notin Hooks \ {"shutdown"} \/ x.inst # i)
           \/ calls'[t] = <<x, y>> /\ (y.at \notin Hooks \ {"shutdown"} \/ y.inst # i)
    PROVE  ~NewHook(t, i)
<1>1. CASE calls'[t] = <<x>> /\ (x.at \notin Hooks \ {"shutdown"} \/ x.inst # i)
  BY <1>1 DEF NewHook, Last
<1>2. CASE calls'[t] = <<x, y>> /\ (y.at \notin Hooks \ {"shutdown"} \/ y.inst # i)
  BY <1>2 DEF NewHook, Last
<1>3. QED
  BY <1>1, <1>2
LEMMA FeedingStack ==
    ASSUME EngineInv, NEW t \in Threads, NEW x \in Call, NEW y \in Call, Feeding(t, x, y),
           NEW i, status[i] # "running"
    PROVE  ~NewHook(t, i)
<1>1. /\ calls[t] # <<>> /\ Top(t).at = "candles" /\ x.at \in {"candles", "return"}
      /\ x.inst = Top(t).inst /\ y.inst = Top(t).inst /\ Feed(t, x, y)
  BY DEF Feeding
<1>2. Len(calls[t]) = 1 /\ calls[t] \in Seq(Call)
  BY <1>1, TopKinds, TopIs DEF Requests
<1>3. CASE status[x.inst] = "running"
  <2>1. calls'[t] = <<x, y>>
    BY <1>1, <1>2, <1>3, EnteredOf, TopIs DEF Feed
  <2>2. y.inst # i
    BY <1>1, <1>3
  <2>3. QED
    BY <2>1, <2>2, NewStack
<1>4. CASE status[x.inst] # "running"
  <2>1. calls'[t] = <<x>>
    BY <1>1, <1>2, <1>4, EnteredOf, TopIs DEF Feed
  <2>2. QED
    BY <1>1, <2>1, NewStack DEF Hooks
<1>5. QED
  BY <1>3, <1>4

(* The start and the stop of a runner enter initialize and shutdown. *)
LEMMA StartStack ==
    ASSUME EngineInv, NEW t \in Threads, RunnerStart(t),
           NEW i, status[i] \notin {"idle", "running"}
    PROVE  ~NewHook(t, i)
<1> DEFINE x == [Top(t) EXCEPT !.at = "candles"]
           y == NewCall("initialize", Top(t).inst)
<1>1. /\ calls[t] # <<>> /\ Top(t).at = "registered"
      /\ calls' = [calls EXCEPT ![t] = Front(calls[t]) \o <<x, y>>]
  BY DEF RunnerStart, InCall, Enter
<1>2. x \in Call /\ y \in Call /\ y.inst = Top(t).inst
  <2>1. x \in Call
    BY <1>1, TopIs DEF Call, Points
  <2>2. y \in Call /\ y.inst = Top(t).inst
    BY <1>1, TopIs, NewCallIs DEF Points, Hooks
  <2>3. QED
    BY <2>1, <2>2
<1>3. Len(calls[t]) = 1 /\ status[Top(t).inst] = "idle" /\ calls[t] \in Seq(Call)
  BY <1>1, TopKinds, TopIs DEF Requests, RequestOK
<1> HIDE DEF x, y
<1>4. calls'[t] = <<x, y>>
  BY <1>1, <1>2, <1>3, EnteredOf, TopIs
<1>5. QED
  BY <1>2, <1>3, <1>4, NewStack

LEMMA StopStack ==
    ASSUME EngineInv, NEW t \in Threads, RunnerStop(t), NEW i
    PROVE  ~NewHook(t, i)
<1> DEFINE x == [Top(t) EXCEPT !.at = "remove"]
           y == NewCall("shutdown", Top(t).inst)
<1>1. /\ calls[t] # <<>> /\ Top(t).at = "stopping"
      /\ calls' = [calls EXCEPT ![t] = Front(calls[t]) \o <<x, y>>]
  BY DEF RunnerStop, InCall, Enter
<1>2. x \in Call /\ y \in Call /\ y.at = "shutdown"
  <2>1. x \in Call
    BY <1>1, TopIs DEF Call, Points
  <2>2. y \in Call /\ y.at = "shutdown"
    BY <1>1, TopIs, NewCallIs DEF Points, Hooks
  <2>3. QED
    BY <2>1, <2>2
<1>3. Len(calls[t]) = 1 /\ calls[t] \in Seq(Call)
  BY <1>1, TopKinds, TopIs DEF Requests
<1> HIDE DEF x, y
<1>4. calls'[t] = <<x, y>>
  BY <1>1, <1>2, <1>3, EnteredOf, TopIs
<1>5. QED
  BY <1>2, <1>4, NewStack

LEMMA ContinueStack ==
    ASSUME EngineInv, NEW t \in Threads, calls[t] # <<>>,
           NEW hook \in {"on_order", "on_position"}, Continue(t, hook),
           NEW i, status[i] # "running"
    PROVE  ~NewHook(t, i)
<1> DEFINE x == NewCall(hook, Top(t).inst)
<1>1. x \in Call /\ x.inst = Top(t).inst
  BY TopIs, NewCallIs DEF Points, Hooks
<1>2. (status[Top(t).inst] = "running" /\ MovedTo(t, x)) \/ Returned(t)
  BY DEF Continue
<1> HIDE DEF x
<1>3. QED
  BY <1>1, <1>2, MovedStack, ReturnedStack

LEMMA HookStack ==
    ASSUME EngineInv, NEW t \in Threads, Hook(t), NEW i, status[i] # "running"
    PROVE  ~NewHook(t, i)
<1>1. CASE HookReturns(t) \/ HookRaises(t) \/ SignalDone(t)
  BY <1>1, ReturnedStack DEF HookReturns, HookRaises, SignalDone, InCall
<1>2. CASE SignalLooks(t)
  <2> DEFINE x == [Top(t) EXCEPT !.at = "acting", !.seen = open]
  <2>1. calls[t] # <<>> /\ MovedTo(t, x)
    BY <1>2 DEF SignalLooks, InCall
  <2>2. open \subseteq 1..MaxPositions
    BY OpenBounded
  <2>3. x \in Call /\ x.at = "acting"
    BY <2>1, <2>2, TopIs DEF Call, Points
  <2> HIDE DEF x
  <2>4. QED
    BY <2>1, <2>3, MovedStack DEF Hooks
<1>3. CASE Buy(t)
  BY <1>3, ContinueStack DEF Buy, PlaceOrder, InCall
<1>4. CASE NotePosition(t)
  BY <1>4, ContinueStack, ReturnedStack DEF NotePosition, InCall
<1>5. CASE SellAll(t)
  <2>1. PICK p \in Top(t).seen \cap open :
           MovedTo(t, [Top(t) EXCEPT !.seen = Top(t).seen \ {p}])
    BY <1>5 DEF SellAll
  <2> DEFINE x == [Top(t) EXCEPT !.seen = Top(t).seen \ {p}]
  <2>2. calls[t] # <<>> /\ Top(t).at = "acting" /\ MovedTo(t, x)
    BY <1>5, <2>1 DEF SellAll, InCall
  <2>3. x \in Call /\ x.at = "acting"
    BY <2>2, TopIs DEF Call
  <2> HIDE DEF x
  <2>4. QED
    BY <2>2, <2>3, MovedStack DEF Hooks
<1>6. ASSUME NEW side \in {"buy", "sell"}, CandleSignals(t, side)
      PROVE  ~NewHook(t, i)
  <2> DEFINE z == NewCall("on_signal", Top(t).inst)
             x == [z EXCEPT !.side = side]
  <2>1. calls[t] # <<>> /\ status[Top(t).inst] = "running" /\ MovedTo(t, x)
    BY <1>6 DEF CandleSignals, EmitSignal, InCall
  <2>2. z \in Call /\ z.inst = Top(t).inst
    BY <2>1, TopIs, NewCallIs DEF Points, Hooks
  <2> HIDE DEF z
  <2>3. x \in Call /\ x.inst = Top(t).inst
    BY <2>2 DEF Call, Sides
  <2> HIDE DEF x
  <2>4. QED
    BY <2>1, <2>3, MovedStack
<1>7. QED
  BY <1>1, <1>2, <1>3, <1>4, <1>5, <1>6 DEF Hook

LEMMA RunsStack ==
    ASSUME EngineInv, NEW t \in Threads, Runs(t), NEW i, status[i] \notin {"idle", "running"}
    PROVE  ~NewHook(t, i)
<1>1. CASE StartEnds(t) \/ StopRemoves(t)
  BY <1>1, ReturnedStack DEF StartEnds, StopRemoves, InCall
<1>2. CASE StopTests(t)
  <2>1. PICK at \in {"stopping", "remove"} : MovedTo(t, [Top(t) EXCEPT !.at = at])
    BY <1>2 DEF StopTests
  <2> DEFINE x == [Top(t) EXCEPT !.at = at]
  <2>2. calls[t] # <<>> /\ MovedTo(t, x)
    BY <1>2, <2>1 DEF StopTests, InCall
  <2>3. x \in Call /\ x.at = at
    BY <2>2, TopIs DEF Call, Points
  <2> HIDE DEF x
  <2>4. QED
    BY <2>2, <2>3, MovedStack DEF Hooks
<1>3. QED
  BY <1>1, <1>2, HookStack, StartStack, StopStack, FeedCandleIs, StartFeedsQuoteIs,
     FeedingStack DEF Runs

LEMMA RequestStack ==
    ASSUME EngineInv, NEW t \in Threads, Register(t) \/ StopRequest(t), NEW i
    PROVE  ~NewHook(t, i)
<1>1. PICK x : calls' = [calls EXCEPT ![t] = <<x>>] /\ x.at \in {"registered", "stop"}
  <2>1. CASE Register(t)
    <3>1. PICK j \in Instances :
             calls' = [calls EXCEPT ![t] = <<[NewCall("registered", j) EXCEPT !.n = Candles[j]]>>]
      BY <2>1 DEF Register
    <3>2. [NewCall("registered", j) EXCEPT !.n = Candles[j]].at = "registered"
      BY DEF NewCall
    <3>3. QED
      BY <3>1, <3>2
  <2>2. CASE StopRequest(t)
    <3>1. PICK j \in table : calls' = [calls EXCEPT ![t] = <<NewCall("stop", j)>>]
      BY <2>2 DEF StopRequest
    <3>2. NewCall("stop", j).at = "stop"
      BY DEF NewCall
    <3>3. QED
      BY <3>1, <3>2
  <2>3. QED
    BY <2>1, <2>2
<1>2. calls'[t] = <<x>>
  BY <1>1 DEF EngineInv, TypeOK
<1>3. QED
  BY <1>1, <1>2 DEF NewHook, Last, Hooks

LEMMA FeedStack ==
    ASSUME EngineInv, FeedNext, NEW i, status[i] # "running"
    PROVE  ~NewHook(Loop, i)
<1>1. calls'[Loop] = IF status[Head(todo)] = "running"
                     THEN <<NewCall("on_tick", Head(todo))>> ELSE <<>>
  BY DEF FeedNext, EngineInv, TypeOK, Threads
<1>2. NewCall("on_tick", Head(todo)).inst = Head(todo)
  BY DEF NewCall
<1>3. QED
  BY <1>1, <1>2 DEF NewHook, Last

(* Only the thread that takes a step has another stack after it. *)
LEMMA OneMoves ==
    ASSUME NEW t \in Threads, NEW d \in Threads \ {t}, calls \in [Threads -> Seq(Call)],
           Register(t) \/ StopRequest(t) \/ Runs(t) \/ Hook(t)
    PROVE  calls'[d] = calls[d]
<1>1. \E s : calls' = [calls EXCEPT ![t] = s]
  BY DEF Register, StopRequest, Runs, Hook, RunnerStart, FeedCandle, StartFeedsQuote,
         StartEnds, StopTests, RunnerStop, StopRemoves, HookReturns, HookRaises, SignalLooks,
         Buy, PlaceOrder, NotePosition, SellAll, SignalDone, CandleSignals, EmitSignal,
         Continue, Feed, Enter, MovedTo, Returned
<1>2. QED
  BY <1>1

LEMMA NoNewHook ==
    ASSUME EngineInv, [Next]_vars, NEW t \in Threads,
           NEW i \in Instances \ (table \cup early), status[i] # "unborn"
    PROVE  ~NewHook(t, i)
<1>1. status[i] \notin {"idle", "running"}
  BY DEF EngineInv, Listed
<1>2. calls \in [Threads -> Seq(Call)] /\ Loop \in Threads /\ Workers \subseteq Threads
  BY DEF EngineInv, TypeOK, Threads
<1>3. ASSUME NEW w \in Threads, Register(w) \/ StopRequest(w) \/ Runs(w) \/ Hook(w)
      PROVE  ~NewHook(t, i)
  <2>1. CASE t = w
    BY <1>1, <1>3, <2>1, RequestStack, RunsStack, HookStack
  <2>2. CASE t # w
    BY <1>2, <1>3, <2>2, OneMoves, SameStack
  <2>3. QED
    BY <2>1, <2>2
<1>4. CASE BeginFeed \/ UNCHANGED vars
  BY <1>4, SameStack DEF BeginFeed, vars
<1>5. CASE FeedNext
  <2>1. CASE t = Loop
    BY <1>1, <1>5, <2>1, FeedStack
  <2>2. CASE t # Loop
    BY <1>2, <1>5, <2>2, SameStack DEF FeedNext
  <2>3. QED
    BY <2>1, <2>2
<1>6. QED
  BY <1>2, <1>3, <1>4, <1>5 DEF Next, FeedLoop

(* Once an instance that ran has left the table, whoever still holds its   *)
(* runner begins no hook of it, whatever the threads were at.              *)
THEOREM NeverHookedAfterStop == Spec => NoHookAfterStop
<1>1. EngineInv /\ [Next]_vars =>
         [\A t \in Threads : \A i \in Instances \ (table \cup early) :
            (/\ status[i] # "unborn"
             /\ calls'[t] # <<>> /\ Last(calls'[t]).inst = i
             /\ Last(calls'[t]).at \in Hooks \ {"shutdown"})
            => \E k \in DOMAIN calls[t] : calls[t][k].at = Last(calls'[t]).at]_vars
  BY NoNewHook DEF NewHook
<1>2. QED
  BY <1>1, EngineInvAlways, PTL DEF Spec, NoHookAfterStop
=============================================================================
