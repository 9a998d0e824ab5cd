--------------------------- MODULE HistoryProofs ----------------------------
(***************************************************************************)
(* Theorems about what the program computes from a history of bars.        *)
(*                                                                         *)
(* First BacktestJobs, for every series, strategy, bound and grid; then    *)
(* Detectors, for every series and every setting.                          *)
(***************************************************************************)
EXTENDS BacktestJobs, Detectors, SumTheorems, SequenceTheorems

-----------------------------------------------------------------------------
(* Lemmas about the operators the actions are built from.                  *)

(* The assumptions on the constants, element by element. *)
LEMMA Constants ==
    /\ HalfSpread \in Nat /\ Slip \in Nat /\ CommissionRate \in Nat
    /\ InitialBalance \in Nat /\ MaxOrders \in Nat
    /\ SwapPoints \in Int /\ Leverage \in Nat
    /\ \A r \in Requests : r \in Request
    /\ \A c \in Changes : c \in Change
BY BacktestAssumption

LEMMA SeriesAre ==
    ASSUME NEW s \in SeriesSet
    PROVE  /\ s \in Seq(Bar) /\ Len(s) \in Nat /\ Len(s) >= 1
           /\ DOMAIN s = 1..Len(s) /\ 1 \in DOMAIN s
           /\ \A i \in DOMAIN s :
                 /\ s[i].o \in Int /\ s[i].h \in Int /\ s[i].l \in Int /\ s[i].c \in Int
                 /\ s[i].l > 0
                 /\ s[i].l <= s[i].o /\ s[i].o <= s[i].h
                 /\ s[i].l <= s[i].c /\ s[i].c <= s[i].h
<1>1. s \in Seq(Bar) /\ s # <<>> BY BacktestAssumption
<1>2. Len(s) \in Nat /\ DOMAIN s = 1..Len(s) /\ Len(s) >= 1 BY <1>1
<1>3. ASSUME NEW i \in DOMAIN s
      PROVE  /\ s[i].o \in Int /\ s[i].h \in Int /\ s[i].l \in Int /\ s[i].c \in Int
             /\ s[i].l > 0
             /\ s[i].l <= s[i].o /\ s[i].o <= s[i].h
             /\ s[i].l <= s[i].c /\ s[i].c <= s[i].h
  <2>1. s[i] \in Bar BY <1>1, <1>2, <1>3
  <2>2. s[i].l > 0 /\ {s[i].o, s[i].c} \subseteq s[i].l..s[i].h BY <1>3, BacktestAssumption
  <2>3. s[i].o \in s[i].l..s[i].h /\ s[i].c \in s[i].l..s[i].h BY <2>2
  <2>4. QED BY <2>1, <2>2, <2>3 DEF Bar
<1>4. QED BY <1>1, <1>2, <1>3

(* Worse and Better pick one of two prices, the smaller or the larger one. *)
LEMMA PicksOne ==
    ASSUME NEW side \in Sides, NEW a \in Int, NEW b \in Int
    PROVE  /\ Worse(side, a, b) \in {a, b} /\ Better(side, a, b) \in {a, b}
           /\ IF side = "buy"
              THEN /\ Worse(side, a, b) <= a /\ Worse(side, a, b) <= b
                   /\ Better(side, a, b) >= a /\ Better(side, a, b) >= b
              ELSE /\ Worse(side, a, b) >= a /\ Worse(side, a, b) >= b
                   /\ Better(side, a, b) <= a /\ Better(side, a, b) <= b
<1>1. \E x \in {a, b} : \A y \in {a, b} : x >= y
  <2>1. CASE a >= b BY <2>1
  <2>2. CASE b >= a BY <2>2
  <2>3. QED BY <2>1, <2>2
<1>2. \E x \in {a, b} : \A y \in {a, b} : x =< y
  <2>1. CASE a =< b BY <2>1
  <2>2. CASE b =< a BY <2>2
  <2>3. QED BY <2>1, <2>2
<1>3. Max({a, b}) \in {a, b} /\ \A y \in {a, b} : Max({a, b}) >= y BY <1>1 DEF Max
<1>4. Min({a, b}) \in {a, b} /\ \A y \in {a, b} : Min({a, b}) =< y BY <1>2 DEF Min
<1>5. QED BY <1>3, <1>4 DEF Worse, Better, Other, Sides

(* An order of the members of a finite set of indices has them all. *)
LEMMA AscendingIs ==
    ASSUME NEW n \in Nat, NEW S \in SUBSET (1..n), NEW order \in Ascending(S)
    PROVE  \E k \in Nat : order \in [1..k -> S]
<1>1. IsFiniteSet(S)
  <2>1. IsFiniteSet(1..n) BY FS_Interval
  <2>2. QED BY <2>1, FS_Subset
<1>2. Cardinality(S) \in Nat BY <1>1, FS_CardinalityType
<1>3. QED BY <1>2 DEF Ascending

LEMMA AscendingSeq ==
    ASSUME NEW n \in Nat, NEW S \in SUBSET (1..n), NEW order \in Ascending(S)
    PROVE  order \in Seq(S)
<1>1. PICK k \in Nat : order \in [1..k -> S] BY AscendingIs
<1>2. QED BY <1>1, SeqDef

LEMMA ChosenSeq ==
    ASSUME NEW T, NEW seq \in Seq(T), NEW S \in SUBSET DOMAIN seq,
           NEW order \in Ascending(S)
    PROVE  /\ Chosen(seq, order) \in Seq(T)
           /\ \A x \in ToSet(Chosen(seq, order)) : x \in ToSet(seq)
<1>1. PICK n \in Nat : n = Len(seq) OBVIOUS
<1>2. DOMAIN seq = 1..n BY <1>1
<1>3. PICK k \in Nat : order \in [1..k -> S] BY <1>2, AscendingIs
<1>4. \A j \in 1..k : order[j] \in DOMAIN seq BY <1>3
<1>5. Chosen(seq, order) = [j \in 1..k |-> seq[order[j]]] BY <1>3 DEF Chosen
<1>6. \A j \in 1..k : seq[order[j]] \in T BY <1>4
<1>7. QED BY <1>3, <1>4, <1>5, <1>6, SeqDef DEF ToSet

(* A sum over a sequence of integers is an integer. *)
LEMMA TotalIsInt ==
    ASSUME NEW n \in Nat, NEW f \in [1..n -> Int]
    PROVE  SumFunction(f) \in Int
<1>1. IsFiniteSet(1..n) BY FS_Interval
<1>2. SumFunction(f) = SumFunctionOnSet(f, 1..n)
  BY DEF SumFunction, SumFunctionOnSet, FoldFunction
<1>3. QED BY <1>1, <1>2, SumIsInt

(* What a fill, an exit and the trailing stop make are of the right type.  *)
LEMMA CandleIs ==
    ASSUME TypeOK
    PROVE  /\ Candle.o \in Int /\ Candle.h \in Int /\ Candle.l \in Int /\ Candle.c \in Int
           /\ Candle.l > 0
           /\ Candle.l <= Candle.o /\ Candle.o <= Candle.h
           /\ Candle.l <= Candle.c /\ Candle.c <= Candle.h
           /\ bar \in Nat /\ bar >= 1
BY SeriesAre DEF TypeOK, Candle

LEMMA TakenIsInt ==
    ASSUME NEW side \in Sides, NEW price \in Int
    PROVE  /\ Taken(side, price) \in Int /\ Slipped(side, price) \in Int
           /\ Other(side) \in Sides
BY Constants DEF Taken, Slipped, Other, Sides, Ask, Bid, Dir

LEMMA ProductIsInt == ASSUME NEW a \in Int, NEW b \in Int PROVE a * b \in Int
OBVIOUS

LEMMA CommissionIsInt ==
    ASSUME NEW price \in Int, NEW volume \in Int
    PROVE  Commission(price, volume) \in Int
<1>1. CommissionRate * price \in Int BY Constants, ProductIsInt
<1>2. QED BY <1>1, ProductIsInt DEF Commission

LEMMA TradeIs ==
    ASSUME TypeOK, NEW p \in PositionRecord, NEW volume \in Lots, NEW close \in Int,
           NEW why \in {"strategy", "protection", "end"}
    PROVE  /\ Trade(p, volume, close, why) \in TradeRecord
           /\ Trade(p, volume, close, why).at = bar
<1>1. p.open \in Int /\ p.side \in Sides /\ p.since \in Nat /\ p.id \in Lots
  BY DEF PositionRecord
<1>2. volume \in Int BY DEF Lots
<1>3. bar \in Nat BY CandleIs
<1>4. SwapFor(p, volume) \in Int
  <2>1. SwapPoints * volume \in Int BY <1>2, Constants, ProductIsInt
  <2>2. bar - p.since \in Int BY <1>1, <1>3
  <2>3. QED BY <2>1, <2>2, ProductIsInt DEF SwapFor
<1>5. Bought(p, close) \in Int BY <1>1 DEF Bought, Dir
<1>6. Bought(p, close) * volume \in Int BY <1>2, <1>5, ProductIsInt
<1>7. Commission(close, volume) \in Int BY <1>2, CommissionIsInt
<1>8. Bought(p, close) * volume - Commission(close, volume) - SwapFor(p, volume) \in Int
  BY <1>4, <1>6, <1>7
<1>9. QED BY <1>1, <1>3, <1>4, <1>8 DEF Trade, TradeRecord

LEMMA RestingPriceIs ==
    ASSUME TypeOK, NEW o \in OrderRecord
    PROVE  /\ RestingPrice(o) \in Int
           /\ RestingPrice(o) # None => o.type # "market"
<1>1. o.side \in Sides /\ o.price \in Int /\ o.limit \in Int BY DEF OrderRecord
<1>2. Slipped(o.side, Taken(o.side, o.price)) \in Int BY <1>1, TakenIsInt
<1>3. QED BY <1>1, <1>2 DEF RestingPrice, None

LEMMA TrailedIs ==
    ASSUME TypeOK, NEW p \in PositionRecord
    PROVE  /\ Trailed(p) \in PositionRecord
           /\ Trailed(p).id = p.id /\ Trailed(p).volume = p.volume
<1> DEFINE best == Better(p.side, IF p.extreme = None THEN p.open ELSE p.extreme,
                          IF p.side = "buy" THEN Candle.h ELSE Candle.l)
           stop == best - Dir(p.side) * p.trail
           sl   == IF p.sl = None THEN stop ELSE Better(p.side, p.sl, stop)
<1>1. /\ p.side \in Sides /\ p.open \in Int /\ p.extreme \in Int /\ p.sl \in Int
      /\ p.trail \in Int
  BY DEF PositionRecord
<1>2. CASE p.trail = None BY <1>2 DEF Trailed
<1>3. CASE p.trail # None
  <2>1. best \in Int BY <1>1, CandleIs, PicksOne
  <2>2. stop \in Int
    <3> HIDE DEF best
    <3>1. QED BY <1>1, <2>1 DEF Dir
  <2>3. sl \in Int
    <3> HIDE DEF stop
    <3>1. QED BY <1>1, <2>2, PicksOne
  <2>4. Trailed(p) = [p EXCEPT !.extreme = best, !.sl = sl] BY <1>3 DEF Trailed
  <2> HIDE DEF best, sl
  <2>5. QED BY <2>1, <2>3, <2>4 DEF PositionRecord
<1>4. QED BY <1>2, <1>3

(* An exit is at a price between the low and the high, or slipped from it. *)
LEMMA ExitPriceIs ==
    ASSUME TypeOK, NEW p \in PositionRecord, ExitPrice(p) # None
    PROVE  /\ ExitPrice(p) \in Int
           /\ ExitPrice(p) >= Candle.l - Slip /\ ExitPrice(p) <= Candle.h + Slip
<1> DEFINE worst  == Worse(p.side, Candle.l, Candle.h)
           best   == Better(p.side, Candle.l, Candle.h)
           stopped == p.sl # None /\ Dir(p.side) * (worst - p.sl) <= 0
           taken   == p.tp # None /\ Dir(p.side) * (best - p.tp) >= 0
           stop    == Worse(p.side, p.sl, Candle.o)
           target  == Better(p.side, p.tp, Candle.o)
           nearer  == Dir(p.side) * (Candle.o - p.sl) <= Dir(p.side) * (p.tp - Candle.o)
<1>1. p.side \in Sides /\ p.sl \in Int /\ p.tp \in Int BY DEF PositionRecord
<1>2. /\ worst = IF p.side = "buy" THEN Candle.l ELSE Candle.h
      /\ best = IF p.side = "buy" THEN Candle.h ELSE Candle.l
  <2>1. worst \in {Candle.l, Candle.h} /\ best \in {Candle.l, Candle.h}
    BY <1>1, CandleIs, PicksOne
  <2>2. IF p.side = "buy" THEN worst <= Candle.l /\ best >= Candle.h
                          ELSE worst >= Candle.h /\ best <= Candle.l
    BY <1>1, CandleIs, PicksOne
  <2>3. Candle.l <= Candle.h BY CandleIs
  <2> HIDE DEF worst, best
  <2>4. QED BY <2>1, <2>2, <2>3, CandleIs
<1>3. /\ stop \in {p.sl, Candle.o} /\ target \in {p.tp, Candle.o}
      /\ IF p.side = "buy" THEN stop <= Candle.o /\ target >= Candle.o
                           ELSE stop >= Candle.o /\ target <= Candle.o
  BY <1>1, CandleIs, PicksOne
<1>4. ExitPrice(p) = CASE stopped /\ taken  -> IF nearer THEN stop ELSE target
                       [] stopped /\ ~taken -> Slipped(Other(p.side), stop)
                       [] taken /\ ~stopped -> target
                       [] OTHER             -> None
  BY DEF ExitPrice
<1>5. stopped => stop \in Int /\ Candle.l <= stop /\ stop <= Candle.h
  <2> HIDE DEF worst, stop
  <2>1. QED BY <1>1, <1>2, <1>3, CandleIs DEF Dir, Sides
<1>6. taken => target \in Int /\ Candle.l <= target /\ target <= Candle.h
  <2> HIDE DEF best, target
  <2>1. QED BY <1>1, <1>2, <1>3, CandleIs DEF Dir, Sides
<1> HIDE DEF stopped, taken, stop, target, nearer
<1>7. CASE stopped /\ ~taken
  <2>1. ExitPrice(p) = Slipped(Other(p.side), stop) BY <1>4, <1>7
  <2>2. ExitPrice(p) \in {stop - Slip, stop + Slip}
    BY <1>1, <1>5, <1>7, <2>1, Constants DEF Slipped, Other, Dir, Sides
  <2>3. QED BY <1>5, <1>7, <2>2, CandleIs, Constants
<1>8. CASE taken
  <2>1. ExitPrice(p) = target \/ (stopped /\ ExitPrice(p) = stop) BY <1>4, <1>8
  <2>2. QED BY <1>5, <1>6, <1>8, <2>1, CandleIs, Constants
<1>9. CASE ~stopped /\ ~taken BY <1>4, <1>9
<1>10. QED BY <1>7, <1>8, <1>9

-----------------------------------------------------------------------------
(* Sequences that grow and shrink, and sums over them.                     *)

LEMMA AppendedIs ==
    ASSUME NEW T, NEW seq \in Seq(T), NEW e \in T
    PROVE  /\ Append(seq, e) \in Seq(T)
           /\ \A x \in ToSet(Append(seq, e)) : x = e \/ x \in ToSet(seq)
           /\ Len(Append(seq, e)) = Len(seq) + 1
           /\ DOMAIN Append(seq, e) = 1..(Len(seq) + 1) /\ DOMAIN seq = 1..Len(seq)
           /\ \A j \in DOMAIN seq : Append(seq, e)[j] = seq[j]
           /\ Append(seq, e)[Len(seq) + 1] = e
<1>1. PICK n \in Nat : n = Len(seq) OBVIOUS
<1>2. /\ Append(seq, e) \in Seq(T) /\ DOMAIN Append(seq, e) = 1..(n + 1)
      /\ Len(Append(seq, e)) = n + 1
      /\ DOMAIN seq = 1..n /\ \A j \in 1..n : Append(seq, e)[j] = seq[j]
      /\ Append(seq, e)[n + 1] = e
  BY <1>1
<1>3. ASSUME NEW j \in 1..(n + 1) PROVE j = n + 1 \/ j \in 1..n BY <1>1
<1>4. ASSUME NEW x \in ToSet(Append(seq, e)) PROVE x = e \/ x \in ToSet(seq)
  <2>1. PICK j \in 1..(n + 1) : x = Append(seq, e)[j] BY <1>2, <1>4 DEF ToSet
  <2>2. QED BY <1>2, <1>3, <2>1 DEF ToSet
<1>5. QED BY <1>1, <1>2, <1>4

LEMMA TailIs ==
    ASSUME NEW T, NEW seq \in Seq(T), seq # <<>>
    PROVE  /\ Head(seq) \in T /\ Tail(seq) \in Seq(T)
           /\ Head(seq) \in ToSet(seq)
           /\ \A x \in ToSet(Tail(seq)) : x \in ToSet(seq)
           /\ \A x \in ToSet(seq) : x = Head(seq) \/ x \in ToSet(Tail(seq))
<1>1. PICK n \in Nat : n = Len(seq) OBVIOUS
<1>2. /\ n >= 1 /\ Tail(seq) \in Seq(T) /\ DOMAIN seq = 1..n /\ Head(seq) = seq[1]
      /\ DOMAIN Tail(seq) = 1..(n - 1)
      /\ \A j \in 1..(n - 1) : Tail(seq)[j] = seq[j + 1]
  BY <1>1
<1>3. ASSUME NEW x \in ToSet(Tail(seq)) PROVE x \in ToSet(seq)
  <2>1. PICK j \in 1..(n - 1) : x = Tail(seq)[j] BY <1>2, <1>3 DEF ToSet
  <2>2. j + 1 \in 1..n /\ x = seq[j + 1] BY <1>1, <1>2, <2>1
  <2>3. QED BY <1>2, <2>2 DEF ToSet
<1>4. ASSUME NEW x \in ToSet(seq), x # Head(seq) PROVE x \in ToSet(Tail(seq))
  <2>1. PICK j \in 1..n : x = seq[j] BY <1>2, <1>4 DEF ToSet
  <2>2. j # 1 BY <1>2, <1>4, <2>1
  <2>3. j - 1 \in 1..(n - 1) /\ j - 1 + 1 = j BY <1>1, <2>1, <2>2
  <2>4. Tail(seq)[j - 1] = x BY <1>2, <2>1, <2>3
  <2>5. QED BY <1>2, <2>3, <2>4 DEF ToSet
<1>5. Head(seq) \in T /\ Head(seq) \in ToSet(seq) BY <1>1, <1>2 DEF ToSet
<1>6. QED BY <1>2, <1>3, <1>4, <1>5

(* One sequence after the other. *)
Joins(all, s, n, t, m) ==
    /\ n = Len(s) /\ DOMAIN s = 1..n /\ DOMAIN t = 1..m /\ DOMAIN all = 1..(n + m)
    /\ \A k \in 1..n : all[k] = s[k] /\ k \in 1..(n + m)
    /\ \A k \in 1..m : all[n + k] = t[k] /\ n + k \in 1..(n + m)

LEMMA ConcatenatedIs ==
    ASSUME NEW T, NEW s \in Seq(T), NEW t \in Seq(T)
    PROVE  s \o t \in Seq(T) /\ \E n, m \in Nat : Joins(s \o t, s, n, t, m)
<1>1. PICK n \in Nat : n = Len(s) /\ DOMAIN s = 1..n OBVIOUS
<1>2. PICK m \in Nat : m = Len(t) /\ DOMAIN t = 1..m OBVIOUS
<1>3. /\ s \o t \in Seq(T) /\ DOMAIN (s \o t) = 1..(n + m)
      /\ \A k \in 1..(n + m) : (s \o t)[k] = IF k <= n THEN s[k] ELSE t[k - n]
  BY <1>1, <1>2
<1>4. ASSUME NEW k \in 1..n PROVE (s \o t)[k] = s[k] /\ k \in 1..(n + m)
  <2>1. k \in 1..(n + m) /\ k <= n BY <1>1, <1>2
  <2>2. QED BY <1>3, <2>1
<1>5. ASSUME NEW k \in 1..m PROVE (s \o t)[n + k] = t[k] /\ n + k \in 1..(n + m)
  <2>1. n + k \in 1..(n + m) /\ ~ (n + k <= n) /\ n + k - n = k BY <1>1, <1>2
  <2>2. QED BY <1>3, <2>1
<1>6. Joins(s \o t, s, n, t, m) BY <1>1, <1>2, <1>3, <1>4, <1>5 DEF Joins
<1>7. QED BY <1>3, <1>6

(* An order of a finite set of indices has each of them once. *)
LEMMA AscendingEnumerates ==
    ASSUME NEW n \in Nat, NEW S \in SUBSET (1..n), NEW order \in Ascending(S)
    PROVE  \E m \in Nat : DOMAIN order = 1..m /\ Enumerates(order, m, S)
<1>1. IsFiniteSet(S) /\ Cardinality(S) \in Nat
  <2>1. IsFiniteSet(1..n) BY FS_Interval
  <2>2. QED BY <2>1, FS_Subset, FS_CardinalityType
<1>2. PICK m \in Nat : m = Cardinality(S) BY <1>1
<1>3. order \in [1..m -> S] /\ \A j, k \in 1..m : j < k => order[j] < order[k]
  BY <1>2 DEF Ascending
<1>4. ASSUME NEW j \in 1..m, NEW k \in 1..m, order[j] = order[k] PROVE j = k
  <2>1. order[j] \in 1..n /\ order[k] \in 1..n BY <1>3
  <2>2. ~ (j < k) /\ ~ (k < j) BY <1>3, <1>4, <2>1
  <2>3. QED BY <2>2
<1>5. order \in Injection(1..m, S) BY <1>3, <1>4 DEF Injection, IsInjective
<1>6. Cardinality(1..m) = m BY FS_Interval
<1>7. order \in Surjection(1..m, S) BY <1>1, <1>2, <1>5, <1>6, FS_Injection
<1>8. Enumerates(order, m, S) BY <1>3, <1>4, <1>7 DEF Enumerates, Surjection
<1>9. QED BY <1>3, <1>8

(* The sum over the chosen part of a sequence. *)
LEMMA SumChosen ==
    ASSUME NEW n \in Nat, NEW S \in SUBSET (1..n), NEW order \in Ascending(S),
           NEW f, NEW g, \A x \in S : f[x] \in Int,
           \A k \in DOMAIN order : g[k] = f[order[k]]
    PROVE  SumFunctionOnSet(g, DOMAIN order) = SumFunctionOnSet(f, S)
<1>1. PICK m \in Nat : DOMAIN order = 1..m /\ Enumerates(order, m, S)
  BY AscendingEnumerates
<1>2. \A k \in 1..m : g[k] = f[order[k]] BY <1>1
<1>3. Reorders(g, m, order, f, S) BY <1>1, <1>2 DEF Reorders
<1>4. SumFunctionOnSet(g, 1..m) = SumFunctionOnSet(f, S) BY <1>3, SumReordered
<1>5. QED BY <1>1, <1>4

LEMMA TotalIs ==
    ASSUME NEW f
    PROVE  SumFunction(f) = SumFunctionOnSet(f, DOMAIN f)
BY DEF SumFunction, SumFunctionOnSet, FoldFunction

(* What an order took when it was filled and what a trade made, summed     *)
(* over a sequence, and the lots of the order i in a sequence of trades or *)
(* positions.                                                              *)
Fee(o) == IF o.state = "filled" THEN Commission(o.filled, o.volume) ELSE 0
Part(x, i) == IF x.id = i THEN x.volume ELSE 0

Fees(seq)     == [k \in DOMAIN seq |-> Fee(seq[k])]
NetsOf(seq)   == [k \in DOMAIN seq |-> seq[k].net]
Parts(seq, i) == [k \in DOMAIN seq |-> Part(seq[k], i)]

FeesIn(seq)      == SumFunctionOnSet(Fees(seq), DOMAIN seq)
NetIn(seq)       == SumFunctionOnSet(NetsOf(seq), DOMAIN seq)
VolumeIn(seq, i) == SumFunctionOnSet(Parts(seq, i), DOMAIN seq)

Records == {TradeRecord, PositionRecord}

(* The sums are sums of integers over finite sets. *)
LEMMA PartsAre ==
    ASSUME NEW R \in Records, NEW seq \in Seq(R), NEW i \in Lots
    PROVE  /\ IsFiniteSet(DOMAIN seq)
           /\ \A k \in DOMAIN seq : Parts(seq, i)[k] \in Int
           /\ VolumeIn(seq, i) \in Int
<1>1. PICK n \in Nat : DOMAIN seq = 1..n OBVIOUS
<1>2. IsFiniteSet(DOMAIN seq) BY <1>1, FS_Interval
<1>3. ASSUME NEW k \in DOMAIN seq PROVE Parts(seq, i)[k] \in Int
  <2>1. seq[k] \in R OBVIOUS
  <2>2. seq[k].volume \in Int
    <3>1. CASE R = TradeRecord BY <2>1, <3>1 DEF TradeRecord, Lots
    <3>2. CASE R = PositionRecord BY <2>1, <3>2 DEF PositionRecord, Lots
    <3>3. QED BY <3>1, <3>2 DEF Records
  <2>3. QED BY <2>2 DEF Parts, Part
<1>4. VolumeIn(seq, i) \in Int BY <1>2, <1>3, SumIsInt DEF VolumeIn
<1>5. QED BY <1>2, <1>3, <1>4

LEMMA FeesAre ==
    ASSUME NEW seq \in Seq(OrderRecord)
    PROVE  /\ IsFiniteSet(DOMAIN seq) /\ FeesIn(seq) \in Int
           /\ \A k \in DOMAIN seq : Fees(seq)[k] \in Int
<1>1. PICK n \in Nat : DOMAIN seq = 1..n OBVIOUS
<1>2. IsFiniteSet(DOMAIN seq) BY <1>1, FS_Interval
<1>3. ASSUME NEW k \in DOMAIN seq PROVE Fees(seq)[k] \in Int
  <2>1. seq[k] \in OrderRecord OBVIOUS
  <2>2. seq[k].filled \in Int /\ seq[k].volume \in Int BY <2>1 DEF OrderRecord, Lots
  <2>3. Commission(seq[k].filled, seq[k].volume) \in Int BY <2>2, CommissionIsInt
  <2>4. QED BY <2>3 DEF Fees, Fee
<1>4. QED BY <1>2, <1>3, SumIsInt DEF FeesIn

LEMMA NetsAre ==
    ASSUME NEW seq \in Seq(TradeRecord)
    PROVE  /\ IsFiniteSet(DOMAIN seq) /\ NetIn(seq) \in Int
           /\ \A k \in DOMAIN seq : NetsOf(seq)[k] \in Int
<1>1. PICK n \in Nat : DOMAIN seq = 1..n OBVIOUS
<1>2. IsFiniteSet(DOMAIN seq) BY <1>1, FS_Interval
<1>3. ASSUME NEW k \in DOMAIN seq PROVE NetsOf(seq)[k] \in Int
  <2>1. seq[k] \in TradeRecord OBVIOUS
  <2>2. QED BY <2>1 DEF NetsOf, TradeRecord
<1>4. QED BY <1>2, <1>3, SumIsInt DEF NetIn

(* How the volume of an order in a sequence changes with the sequence.     *)
LEMMA VolumeAppended ==
    ASSUME NEW R \in Records, NEW seq \in Seq(R), NEW e \in R, NEW i \in Lots
    PROVE  VolumeIn(Append(seq, e), i) = VolumeIn(seq, i) + Part(e, i)
<1> DEFINE more == Append(seq, e)
<1>1. PICK n \in Nat : n = Len(seq) /\ DOMAIN seq = 1..n OBVIOUS
<1>2. /\ more \in Seq(R) /\ DOMAIN more = 1..(n + 1) /\ more[n + 1] = e
      /\ \A k \in 1..n : more[k] = seq[k]
  BY <1>1, AppendedIs
<1>3. \A k \in DOMAIN more : Parts(more, i)[k] \in Int BY <1>2, PartsAre
<1>4. /\ \A k \in 1..n : Parts(seq, i)[k] = Parts(more, i)[k]
      /\ Parts(more, i)[n + 1] = Part(e, i)
  BY <1>1, <1>2 DEF Parts
<1> HIDE DEF more
<1>5. SumFunctionOnSet(Parts(more, i), 1..(n + 1))
        = SumFunctionOnSet(Parts(seq, i), 1..n) + Parts(more, i)[n + 1]
  BY <1>2, <1>3, <1>4, SumOfAllAppended
<1>6. VolumeIn(more, i) = VolumeIn(seq, i) + Part(e, i)
  BY <1>1, <1>2, <1>4, <1>5 DEF VolumeIn
<1>7. QED BY <1>6 DEF more

LEMMA VolumeSame ==
    ASSUME NEW seq, NEW new, DOMAIN new = DOMAIN seq, NEW i,
           \A k \in DOMAIN seq : new[k].id = seq[k].id /\ new[k].volume = seq[k].volume
    PROVE  Parts(new, i) = Parts(seq, i) /\ VolumeIn(new, i) = VolumeIn(seq, i)
BY DEF VolumeIn, Parts, Part

LEMMA VolumeChanged ==
    ASSUME NEW R \in Records, NEW seq \in Seq(R), NEW k \in DOMAIN seq, NEW e \in R,
           NEW i \in Lots
    PROVE  VolumeIn([seq EXCEPT ![k] = e], i)
              = VolumeIn(seq, i) - Part(seq[k], i) + Part(e, i)
<1> DEFINE new == [seq EXCEPT ![k] = e]
<1>1. /\ new \in Seq(R) /\ DOMAIN new = DOMAIN seq /\ new[k] = e
      /\ \A j \in DOMAIN seq : j # k => new[j] = seq[j]
  OBVIOUS
<1> HIDE DEF new
<1>2. /\ IsFiniteSet(DOMAIN seq)
      /\ \A j \in DOMAIN seq : Parts(seq, i)[j] \in Int /\ Parts(new, i)[j] \in Int
  BY <1>1, PartsAre
<1>3. /\ \A j \in DOMAIN seq : j # k => Parts(new, i)[j] = Parts(seq, i)[j]
      /\ Parts(seq, i)[k] = Part(seq[k], i) /\ Parts(new, i)[k] = Part(e, i)
  BY <1>1 DEF Parts
<1>4. SumFunctionOnSet(Parts(new, i), DOMAIN seq)
        = SumFunctionOnSet(Parts(seq, i), DOMAIN seq)
             - Parts(seq, i)[k] + Parts(new, i)[k]
  BY <1>2, <1>3, SumChanged
<1>5. VolumeIn(new, i) = VolumeIn(seq, i) - Part(seq[k], i) + Part(e, i)
  BY <1>1, <1>3, <1>4 DEF VolumeIn
<1>6. QED BY <1>5 DEF new

(* What is chosen and what is left have the volume together. *)
LEMMA VolumeChosen ==
    ASSUME NEW R \in Records, NEW seq \in Seq(R), NEW S \in SUBSET DOMAIN seq,
           NEW order \in Ascending(S), NEW i \in Lots
    PROVE  VolumeIn(Chosen(seq, order), i) = SumFunctionOnSet(Parts(seq, i), S)
<1>1. PICK n \in Nat : DOMAIN seq = 1..n OBVIOUS
<1>2. S \in SUBSET (1..n) BY <1>1
<1>3. \A x \in S : Parts(seq, i)[x] \in Int BY PartsAre
<1>4. PICK m \in Nat : DOMAIN order = 1..m /\ Enumerates(order, m, S)
  BY <1>2, AscendingEnumerates
<1>5. /\ DOMAIN Chosen(seq, order) = DOMAIN order
      /\ \A k \in DOMAIN order : Parts(Chosen(seq, order), i)[k] = Parts(seq, i)[order[k]]
  <2>1. \A k \in DOMAIN order : order[k] \in DOMAIN seq BY <1>4 DEF Enumerates
  <2>2. QED BY <2>1 DEF Chosen, Parts
<1>6. SumFunctionOnSet(Parts(Chosen(seq, order), i), DOMAIN order)
        = SumFunctionOnSet(Parts(seq, i), S)
  BY <1>2, <1>3, <1>5, SumChosen
<1>7. QED BY <1>5, <1>6 DEF VolumeIn

LEMMA VolumeSplit ==
    ASSUME NEW R \in Records, NEW seq \in Seq(R), NEW S \in SUBSET DOMAIN seq, NEW i \in Lots
    PROVE  /\ VolumeIn(seq, i) = SumFunctionOnSet(Parts(seq, i), S)
                                   + SumFunctionOnSet(Parts(seq, i), DOMAIN seq \ S)
           /\ SumFunctionOnSet(Parts(seq, i), S) \in Int
           /\ SumFunctionOnSet(Parts(seq, i), DOMAIN seq \ S) \in Int
<1> DEFINE D == DOMAIN seq
           T == D \ S
<1>1. /\ IsFiniteSet(D) /\ \A k \in D : Parts(seq, i)[k] \in Int
  BY PartsAre
<1>2. /\ IsFiniteSet(S) /\ IsFiniteSet(T) BY <1>1, FS_Subset
<1>3. D = S \cup T /\ S \cap T = {} OBVIOUS
<1>4. \A k \in S \cup T : Parts(seq, i)[k] \in Int BY <1>1
<1> HIDE DEF D, T
<1>5. SumFunctionOnSet(Parts(seq, i), S \cup T)
        = SumFunctionOnSet(Parts(seq, i), S) + SumFunctionOnSet(Parts(seq, i), T)
  BY <1>2, <1>3, <1>4, SumSplit
<1>6. /\ SumFunctionOnSet(Parts(seq, i), S) \in Int
      /\ SumFunctionOnSet(Parts(seq, i), T) \in Int
  <2>1. \A k \in S : Parts(seq, i)[k] \in Int BY <1>4
  <2>2. \A k \in T : Parts(seq, i)[k] \in Int BY <1>4
  <2>3. QED BY <1>2, <2>1, <2>2, SumIsInt
<1>7. QED BY <1>3, <1>5, <1>6 DEF VolumeIn, D, T

LEMMA VolumeConcatenated ==
    ASSUME NEW R \in Records, NEW s \in Seq(R), NEW t \in Seq(R), NEW i \in Lots
    PROVE  VolumeIn(s \o t, i) = VolumeIn(s, i) + VolumeIn(t, i)
<1> DEFINE all == s \o t
<1>1. PICK n, m \in Nat : Joins(all, s, n, t, m) BY ConcatenatedIs
<1>2. all \in Seq(R) BY ConcatenatedIs
<1> HIDE DEF all
<1>3. Follows(Parts(all, i), n, Parts(s, i), m, Parts(t, i))
  <2>1. \A k \in 1..(n + m) : Parts(all, i)[k] \in Int
    BY <1>1, <1>2, PartsAre DEF Joins
  <2>2. QED BY <1>1, <2>1 DEF Parts, Joins, Follows
<1>4. SumFunctionOnSet(Parts(all, i), 1..(n + m))
        = SumFunctionOnSet(Parts(s, i), 1..n) + SumFunctionOnSet(Parts(t, i), 1..m)
  BY <1>3, SumConcatenated
<1>5. VolumeIn(all, i) = VolumeIn(s, i) + VolumeIn(t, i)
  BY <1>1, <1>4 DEF VolumeIn, Joins
<1>6. QED BY <1>5 DEF all

(* What the commissions and the results of the trades come to. *)
LEMMA FeesAppended ==
    ASSUME NEW seq \in Seq(OrderRecord), NEW e \in OrderRecord, e.state # "filled"
    PROVE  FeesIn(Append(seq, e)) = FeesIn(seq)
<1> DEFINE more == Append(seq, e)
<1>1. PICK n \in Nat : n = Len(seq) /\ DOMAIN seq = 1..n OBVIOUS
<1>2. /\ more \in Seq(OrderRecord) /\ DOMAIN more = 1..(n + 1) /\ more[n + 1] = e
      /\ \A k \in 1..n : more[k] = seq[k]
  BY <1>1, AppendedIs
<1> HIDE DEF more
<1>3. \A k \in 1..(n + 1) : Fees(more)[k] \in Int BY <1>2, FeesAre
<1>4. /\ \A k \in 1..n : Fees(seq)[k] = Fees(more)[k]
      /\ Fees(more)[n + 1] = 0
  BY <1>1, <1>2 DEF Fees, Fee
<1>5. SumFunctionOnSet(Fees(more), 1..(n + 1))
        = SumFunctionOnSet(Fees(seq), 1..n) + Fees(more)[n + 1]
  BY <1>3, <1>4, SumOfAllAppended
<1>6. FeesIn(more) = FeesIn(seq) BY <1>1, <1>2, <1>4, <1>5, FeesAre DEF FeesIn
<1>7. QED BY <1>6 DEF more

LEMMA FeesChanged ==
    ASSUME NEW seq \in Seq(OrderRecord), NEW new \in Seq(OrderRecord), NEW k \in DOMAIN seq,
           DOMAIN new = DOMAIN seq, \A j \in DOMAIN seq : j # k => new[j] = seq[j]
    PROVE  FeesIn(new) = FeesIn(seq) - Fee(seq[k]) + Fee(new[k])
<1>1. /\ IsFiniteSet(DOMAIN seq)
      /\ \A j \in DOMAIN seq : Fees(seq)[j] \in Int /\ Fees(new)[j] \in Int
  BY FeesAre
<1>2. /\ \A j \in DOMAIN seq : j # k => Fees(new)[j] = Fees(seq)[j]
      /\ Fees(seq)[k] = Fee(seq[k]) /\ Fees(new)[k] = Fee(new[k])
  BY DEF Fees
<1>3. SumFunctionOnSet(Fees(new), DOMAIN seq)
        = SumFunctionOnSet(Fees(seq), DOMAIN seq) - Fees(seq)[k] + Fees(new)[k]
  BY <1>1, <1>2, SumChanged
<1>4. QED BY <1>2, <1>3 DEF FeesIn

LEMMA NetsAppended ==
    ASSUME NEW seq \in Seq(TradeRecord), NEW t \in TradeRecord
    PROVE  NetIn(Append(seq, t)) = NetIn(seq) + t.net
<1> DEFINE more == Append(seq, t)
<1>1. PICK n \in Nat : n = Len(seq) /\ DOMAIN seq = 1..n OBVIOUS
<1>2. /\ more \in Seq(TradeRecord) /\ DOMAIN more = 1..(n + 1) /\ more[n + 1] = t
      /\ \A k \in 1..n : more[k] = seq[k]
  BY <1>1, AppendedIs
<1> HIDE DEF more
<1>3. \A k \in 1..(n + 1) : NetsOf(more)[k] \in Int BY <1>2, NetsAre
<1>4. /\ \A k \in 1..n : NetsOf(seq)[k] = NetsOf(more)[k]
      /\ NetsOf(more)[n + 1] = t.net
  BY <1>1, <1>2 DEF NetsOf
<1>5. SumFunctionOnSet(NetsOf(more), 1..(n + 1))
        = SumFunctionOnSet(NetsOf(seq), 1..n) + NetsOf(more)[n + 1]
  BY <1>3, <1>4, SumOfAllAppended
<1>6. NetIn(more) = NetIn(seq) + t.net BY <1>1, <1>2, <1>4, <1>5 DEF NetIn
<1>7. QED BY <1>6 DEF more

LEMMA NetsConcatenated ==
    ASSUME NEW s \in Seq(TradeRecord), NEW t \in Seq(TradeRecord)
    PROVE  NetIn(s \o t) = NetIn(s) + NetIn(t)
<1> DEFINE all == s \o t
<1>1. PICK n, m \in Nat : Joins(all, s, n, t, m) BY ConcatenatedIs
<1>2. all \in Seq(TradeRecord) BY ConcatenatedIs
<1> HIDE DEF all
<1>3. Follows(NetsOf(all), n, NetsOf(s), m, NetsOf(t))
  <2>1. \A k \in 1..(n + m) : NetsOf(all)[k] \in Int BY <1>1, <1>2, NetsAre DEF Joins
  <2>2. QED BY <1>1, <2>1 DEF NetsOf, Joins, Follows
<1>4. SumFunctionOnSet(NetsOf(all), 1..(n + m))
        = SumFunctionOnSet(NetsOf(s), 1..n) + SumFunctionOnSet(NetsOf(t), 1..m)
  BY <1>3, SumConcatenated
<1>5. NetIn(all) = NetIn(s) + NetIn(t) BY <1>1, <1>4 DEF NetIn, Joins
<1>6. QED BY <1>5 DEF all

-----------------------------------------------------------------------------
(* Every step of a replay keeps the types.                                 *)

(* What the fields of an order that never change are called together. *)
SameOrder(o, q) ==
    /\ q.type = o.type /\ q.side = o.side /\ q.volume = o.volume
    /\ q.created = o.created /\ q.by = o.by /\ q.during = o.during

(* A fill settles one order for good and leaves the others alone. *)
LEMMA FillIs ==
    ASSUME TypeOK, NEW i \in DOMAIN orders, NEW price \in Int, Fill(i, price)
    PROVE  /\ orders' \in Seq(OrderRecord) /\ DOMAIN orders' = DOMAIN orders
           /\ \A j \in DOMAIN orders : j # i => orders'[j] = orders[j]
           /\ SameOrder(orders[i], orders'[i])
           /\ \/ orders'[i].state = "filled" /\ orders'[i].done = bar
              \/ orders'[i].state = "rejected"
           /\ positions' \in Seq(PositionRecord)
           /\ \A p \in ToSet(positions') : p.id \in DOMAIN orders'
                                           /\ p.volume <= orders'[p.id].volume
           /\ balance' \in Int
<1> DEFINE o == orders[i]
           new == [id |-> i, side |-> o.side, volume |-> o.volume, open |-> price,
                   sl |-> o.sl, tp |-> o.tp, trail |-> None, extreme |-> None,
                   since |-> bar]
           filled == [o EXCEPT !.state = "filled", !.filled = price, !.done = bar]
           refused == [o EXCEPT !.state = "rejected"]
<1>1. /\ o \in OrderRecord /\ i \in Lots /\ bar \in Nat /\ balance \in Int
      /\ orders \in Seq(OrderRecord) /\ positions \in Seq(PositionRecord)
  BY CandleIs DEF TypeOK, Lots
<1>2. \A p \in ToSet(positions) : p.id \in DOMAIN orders
                                  /\ p.volume <= orders[p.id].volume
  BY DEF TypeOK
<1>3. new \in PositionRecord BY <1>1 DEF PositionRecord, OrderRecord, None
<1>4. filled \in OrderRecord /\ refused \in OrderRecord
  BY <1>1 DEF OrderRecord, States
<1>5. CASE /\ orders' = [orders EXCEPT ![i].state = "filled", ![i].filled = price,
                                        ![i].done = bar]
           /\ positions' = Append(positions, new)
           /\ balance' = balance - Commission(price, o.volume)
  <2>1. orders' = [orders EXCEPT ![i] = filled] BY <1>5
  <2>2. /\ orders' \in Seq(OrderRecord) /\ DOMAIN orders' = DOMAIN orders
        /\ orders'[i] = filled /\ \A j \in DOMAIN orders : j # i => orders'[j] = orders[j]
    <3> HIDE DEF filled
    <3>1. QED BY <1>1, <1>4, <2>1
  <2>3. filled.volume = o.volume /\ filled.state = "filled" /\ filled.done = bar
        /\ SameOrder(o, filled)
    BY <1>1 DEF OrderRecord, SameOrder
  <2>4. /\ positions' \in Seq(PositionRecord)
        /\ \A p \in ToSet(positions') : p = new \/ p \in ToSet(positions)
    <3> HIDE DEF new
    <3>1. positions' = Append(positions, new) BY <1>5
    <3>2. /\ Append(positions, new) \in Seq(PositionRecord)
          /\ \A p \in ToSet(Append(positions, new)) : p = new \/ p \in ToSet(positions)
      BY <1>1, <1>3, AppendedIs
    <3>3. QED BY <3>1, <3>2
  <2>5. ASSUME NEW p \in ToSet(positions')
        PROVE  p.id \in DOMAIN orders' /\ p.volume <= orders'[p.id].volume
    <3>1. CASE p = new
      <4>1. p.id = i /\ p.volume = o.volume BY <3>1
      <4>2. o.volume \in Int BY <1>1 DEF OrderRecord, Lots
      <4>3. orders'[p.id].volume = o.volume
        <5> HIDE DEF filled, o
        <5>1. QED BY <2>2, <2>3, <4>1
      <4>4. p.id \in DOMAIN orders' BY <2>2, <4>1
      <4> HIDE DEF o
      <4>5. QED BY <4>1, <4>2, <4>3, <4>4
    <3>2. CASE p \in ToSet(positions)
      <4>1. orders'[p.id].volume = orders[p.id].volume BY <1>2, <2>2, <2>3, <3>2
      <4>2. QED BY <1>2, <2>2, <3>2, <4>1
    <3>3. QED BY <2>4, <3>1, <3>2
  <2>6. balance' \in Int
    <3>1. o.volume \in Int BY <1>1 DEF OrderRecord, Lots
    <3>2. QED BY <1>1, <1>5, <3>1, CommissionIsInt
  <2> HIDE DEF filled
  <2>7. QED BY <2>2, <2>3, <2>4, <2>5, <2>6
<1>6. CASE /\ orders' = [orders EXCEPT ![i].state = "rejected"]
           /\ UNCHANGED <<positions, balance>>
  <2>1. orders' = [orders EXCEPT ![i] = refused] BY <1>6
  <2>2. /\ orders' \in Seq(OrderRecord) /\ DOMAIN orders' = DOMAIN orders
        /\ orders'[i] = refused /\ \A j \in DOMAIN orders : j # i => orders'[j] = orders[j]
    <3> HIDE DEF refused
    <3>1. QED BY <1>1, <1>4, <2>1
  <2>3. refused.volume = o.volume /\ refused.state = "rejected"
        /\ SameOrder(o, refused)
    BY <1>1 DEF OrderRecord, SameOrder
  <2> HIDE DEF refused
  <2>4. \A p \in ToSet(positions) : orders'[p.id].volume = orders[p.id].volume
    BY <1>2, <2>2, <2>3
  <2>5. QED BY <1>1, <1>2, <1>6, <2>2, <2>3, <2>4
<1>7. QED BY <1>5, <1>6 DEF Fill

(* Closing some lots leaves positions that were there, one perhaps smaller. *)
(* A position of which some lots, but not all, are closed. *)
LEMMA LessIs ==
    ASSUME TypeOK, NEW k \in DOMAIN positions, NEW v \in 1..positions[k].volume,
           v # positions[k].volume, NEW less,
           less = [positions[k] EXCEPT !.volume = positions[k].volume - v]
    PROVE  /\ positions[k] \in PositionRecord /\ less \in PositionRecord
           /\ less.id = positions[k].id /\ less.volume = positions[k].volume - v
           /\ positions[k].volume \in Nat /\ v \in Nat /\ v < positions[k].volume
<1> DEFINE p == positions[k]
<1>1. p \in PositionRecord BY DEF TypeOK
<1>2. p.volume \in Lots BY <1>1 DEF PositionRecord
<1>3. p.volume \in Nat /\ v \in 1..p.volume /\ v # p.volume BY <1>2 DEF Lots
<1>4. less = [p EXCEPT !.volume = p.volume - v] OBVIOUS
<1> HIDE DEF p
<1>5. v \in Nat /\ v < p.volume /\ p.volume - v \in Lots BY <1>3 DEF Lots
<1>6. less \in PositionRecord /\ less.id = p.id /\ less.volume = p.volume - v
  BY <1>1, <1>4, <1>5 DEF PositionRecord
<1>7. QED BY <1>1, <1>3, <1>5, <1>6 DEF p

LEMMA LeftIs ==
    ASSUME TypeOK, NEW k \in DOMAIN positions, NEW v \in 1..positions[k].volume,
           NEW left \in Reduced(k, v)
    PROVE  /\ left \in Seq(PositionRecord)
           /\ \A p \in ToSet(left) : p.id \in DOMAIN orders
                                     /\ p.volume <= orders[p.id].volume
<1>1. /\ positions \in Seq(PositionRecord) /\ positions[k] \in PositionRecord
      /\ \A p \in ToSet(positions) : p.id \in DOMAIN orders
                                     /\ p.volume <= orders[p.id].volume
      /\ orders \in Seq(OrderRecord)
  BY DEF TypeOK
<1>2. CASE v = positions[k].volume
  <2>1. PICK rest \in Ascending(DOMAIN positions \ {k}) : left = Chosen(positions, rest)
    BY <1>2 DEF Reduced
  <2>2. DOMAIN positions \ {k} \in SUBSET DOMAIN positions OBVIOUS
  <2>3. QED BY <1>1, <2>1, <2>2, ChosenSeq
<1>3. CASE v # positions[k].volume
  <2> DEFINE p == positions[k]
             less == [p EXCEPT !.volume = p.volume - v]
  <2>1. /\ less \in PositionRecord /\ less.id = p.id /\ less.volume = p.volume - v
        /\ p.volume \in Nat /\ v \in Nat /\ v < p.volume
    BY <1>3, LessIs
  <2>3. left = [positions EXCEPT ![k] = less] BY <1>3 DEF Reduced
  <2>4. /\ left \in Seq(PositionRecord) /\ DOMAIN left = DOMAIN positions
        /\ left[k] = less /\ \A j \in DOMAIN positions : j # k => left[j] = positions[j]
    <3> HIDE DEF less
    <3>1. QED BY <1>1, <2>1, <2>3
  <2>5. ASSUME NEW q \in ToSet(left)
        PROVE  q.id \in DOMAIN orders /\ q.volume <= orders[q.id].volume
    <3>1. PICK j \in DOMAIN positions : q = left[j] BY <2>4 DEF ToSet
    <3>2. positions[j] \in ToSet(positions) BY DEF ToSet
    <3>3. CASE j = k
      <4>1. p \in ToSet(positions) BY DEF ToSet
      <4>2. p.id \in DOMAIN orders /\ p.volume <= orders[p.id].volume BY <1>1, <4>1
      <4>3. orders[p.id].volume \in Int
        <5>1. orders[p.id] \in OrderRecord BY <1>1, <4>2
        <5>2. QED BY <5>1 DEF OrderRecord, Lots
      <4>4. q.id = p.id /\ q.volume = p.volume - v BY <2>1, <2>4, <3>1, <3>3
      <4> HIDE DEF p
      <4>5. QED BY <2>1, <4>2, <4>3, <4>4 DEF Lots
    <3>4. CASE j # k BY <1>1, <2>4, <3>1, <3>2, <3>4
    <3>5. QED BY <3>3, <3>4
  <2>6. QED BY <2>4, <2>5
<1>4. QED BY <1>2, <1>3

LEMMA NewOrderIs ==
    ASSUME TypeOK, NEW r \in Requests
    PROVE  NewOrder(r) \in OrderRecord /\ NewOrder(r).state = "pending"
<1>1. r \in Request /\ hook \in Hooks /\ at \in Places /\ bar \in Nat
  BY CandleIs, Constants DEF TypeOK
<1>2. QED BY <1>1 DEF NewOrder, OrderRecord, Request, States, None

LEMMA PlaceTypes ==
    ASSUME TypeOK, NEW r \in Requests, PlaceOrder(r)
    PROVE  TypeOK'
<1>1. /\ orders \in Seq(OrderRecord) /\ queue \in Seq(DOMAIN orders)
      /\ todo \in Seq(DOMAIN orders) /\ bar \in Nat
  BY CandleIs DEF TypeOK
<1>2. NewOrder(r) \in OrderRecord BY NewOrderIs
<1>3. orders' = Append(orders, NewOrder(r)) BY DEF PlaceOrder
<1>4. /\ orders' \in Seq(OrderRecord) /\ DOMAIN orders = 1..Len(orders)
      /\ DOMAIN orders' = 1..(Len(orders) + 1) /\ Len(orders) \in Nat
      /\ \A j \in DOMAIN orders : orders'[j] = orders[j]
  BY <1>1, <1>2, <1>3, AppendedIs
<1>5. DOMAIN orders \subseteq DOMAIN orders' /\ Len(orders) + 1 \in DOMAIN orders'
  BY <1>4
<1>6. queue \in Seq(DOMAIN orders') /\ todo \in Seq(DOMAIN orders')
  BY <1>1, <1>5, SeqMonotonic
<1>7. queue' \in Seq(DOMAIN orders')
  <2>1. queue' = queue \/ queue' = Append(queue, Len(orders) + 1) BY DEF PlaceOrder
  <2>2. Append(queue, Len(orders) + 1) \in Seq(DOMAIN orders') BY <1>5, <1>6, AppendedIs
  <2>3. QED BY <1>6, <2>1, <2>2
<1>8. status' \in {"running", "stopped", "error"} BY DEF PlaceOrder, Renotified, TypeOK
<1>9. \A p \in ToSet(positions) : p.id \in DOMAIN orders'
                                  /\ p.volume <= orders'[p.id].volume
  BY <1>4, <1>5 DEF TypeOK
<1>10. QED BY <1>4, <1>6, <1>7, <1>8, <1>9 DEF TypeOK, PlaceOrder

(* Withdrawing an order changes nothing but its state. *)
LEMMA CancelIs ==
    ASSUME TypeOK, NEW i \in DOMAIN orders, CancelOrder(i)
    PROVE  /\ orders' \in Seq(OrderRecord) /\ DOMAIN orders' = DOMAIN orders
           /\ \A j \in DOMAIN orders : j # i => orders'[j] = orders[j]
           /\ SameOrder(orders[i], orders'[i]) /\ orders'[i].state = "cancelled"
<1> DEFINE new == [orders[i] EXCEPT !.state = "cancelled"]
<1>1. orders \in Seq(OrderRecord) /\ orders[i] \in OrderRecord BY DEF TypeOK
<1>2. new \in OrderRecord /\ new.state = "cancelled" /\ SameOrder(orders[i], new)
  BY <1>1 DEF OrderRecord, States, SameOrder
<1>3. orders' = [orders EXCEPT ![i] = new] BY DEF CancelOrder
<1> HIDE DEF new
<1>4. QED BY <1>1, <1>2, <1>3

LEMMA CancelTypes ==
    ASSUME TypeOK, NEW i \in DOMAIN orders, CancelOrder(i)
    PROVE  TypeOK'
<1>1. /\ orders' \in Seq(OrderRecord) /\ DOMAIN orders' = DOMAIN orders
      /\ \A j \in DOMAIN orders : orders'[j].volume = orders[j].volume
  BY CancelIs DEF SameOrder
<1>2. status' \in {"running", "stopped", "error"} BY DEF CancelOrder, Renotified, TypeOK
<1>3. QED BY <1>1, <1>2 DEF TypeOK, CancelOrder

LEMMA CloseIs ==
    ASSUME TypeOK, NEW k \in DOMAIN positions, NEW v \in 1..positions[k].volume,
           NEW close \in Int, NEW why \in {"strategy", "end"}, Close(k, v, close, why)
    PROVE  /\ trades' \in Seq(TradeRecord) /\ balance' \in Int
           /\ \A t \in ToSet(trades') :
                 t \in ToSet(trades) \/ (t.at = bar /\ t.why # "protection")
           /\ positions' \in Seq(PositionRecord)
           /\ \A p \in ToSet(positions') : p.id \in DOMAIN orders
                                           /\ p.volume <= orders[p.id].volume
<1> DEFINE t == Trade(positions[k], v, close, why)
<1>1. positions[k] \in PositionRecord /\ v \in Lots
  <2>1. positions[k] \in PositionRecord BY DEF TypeOK
  <2>2. positions[k].volume \in Lots BY <2>1 DEF PositionRecord
  <2>3. QED BY <2>1, <2>2 DEF Lots
<1>2. t \in TradeRecord /\ t.at = bar BY <1>1, TradeIs
<1>3. t.why = why /\ t.net \in Int BY <1>2 DEF TradeRecord, Trade
<1> HIDE DEF t
<1>4. trades' = Append(trades, t) /\ balance' = balance + t.net BY DEF Close, t
<1>5. /\ Append(trades, t) \in Seq(TradeRecord)
      /\ \A x \in ToSet(Append(trades, t)) : x = t \/ x \in ToSet(trades)
  BY <1>2, AppendedIs DEF TypeOK
<1>6. balance' \in Int BY <1>3, <1>4 DEF TypeOK
<1>7. positions' \in Reduced(k, v) BY DEF Close
<1>8. QED BY <1>2, <1>3, <1>4, <1>5, <1>6, <1>7, LeftIs

LEMMA CloseTypes ==
    ASSUME TypeOK, NEW k \in DOMAIN positions, NEW v \in 1..positions[k].volume,
           NEW close \in Int, NEW why \in {"strategy", "end"}, Close(k, v, close, why),
           UNCHANGED <<series, bar, at, hook, status, orders, queue, todo, curve>>
    PROVE  TypeOK'
<1>1. \A t \in ToSet(trades') : t.at \in DOMAIN series BY CloseIs DEF TypeOK
<1>2. QED BY <1>1, CloseIs DEF TypeOK

(* The price a position can be closed at is a number. *)
LEMMA ClosingPrice ==
    ASSUME TypeOK, NEW k \in DOMAIN positions
    PROVE  /\ Taken(Other(positions[k].side), Candle.c) \in Int
           /\ positions[k].volume \in 1..positions[k].volume
<1>1. positions[k] \in PositionRecord BY DEF TypeOK
<1>2. positions[k].side \in Sides /\ positions[k].volume \in Lots
  BY <1>1 DEF PositionRecord
<1>3. Candle.c \in Int BY CandleIs
<1>4. Other(positions[k].side) \in Sides BY <1>2, <1>3, TakenIsInt
<1>5. Taken(Other(positions[k].side), Candle.c) \in Int BY <1>3, <1>4, TakenIsInt
<1>6. positions[k].volume \in 1..positions[k].volume BY <1>2 DEF Lots
<1>7. QED BY <1>5, <1>6

(* Changed protections leave the lots where they are. *)
LEMMA ModifyIs ==
    ASSUME TypeOK, NEW k \in DOMAIN positions, NEW c \in Changes, ModifyPosition(k, c)
    PROVE  /\ positions' \in Seq(PositionRecord) /\ DOMAIN positions' = DOMAIN positions
           /\ \A j \in DOMAIN positions : /\ positions'[j].id = positions[j].id
                                          /\ positions'[j].volume = positions[j].volume
<1> DEFINE p == positions[k]
           new(old, asked) == IF asked = Unset THEN old ELSE asked
           quote == Taken(Other(p.side), Candle.c)
           extreme == IF c.trail \in {Unset, None} THEN p.extreme ELSE quote
           changed == [p EXCEPT !.sl = new(p.sl, c.sl), !.tp = new(p.tp, c.tp),
                                !.trail = new(p.trail, c.trail), !.extreme = extreme]
<1>1. positions \in Seq(PositionRecord) /\ p \in PositionRecord BY DEF TypeOK
<1>2. c.sl \in Int /\ c.tp \in Int /\ c.trail \in Int BY Constants DEF Change
<1>3. extreme \in Int
  <2>1. quote \in Int BY ClosingPrice
  <2>2. p.extreme \in Int BY <1>1 DEF PositionRecord
  <2> HIDE DEF quote, p
  <2>3. QED BY <2>1, <2>2
<1>4. positions' = [positions EXCEPT ![k] = changed] BY DEF ModifyPosition
<1>5. changed \in PositionRecord /\ changed.id = p.id /\ changed.volume = p.volume
  <2> HIDE DEF extreme, p
  <2>1. QED BY <1>1, <1>2, <1>3 DEF PositionRecord
<1>6. /\ positions' \in Seq(PositionRecord) /\ DOMAIN positions' = DOMAIN positions
      /\ positions'[k] = changed
      /\ \A j \in DOMAIN positions : j # k => positions'[j] = positions[j]
  <2> HIDE DEF changed
  <2>1. QED BY <1>1, <1>4, <1>5
<1>7. \A j \in DOMAIN positions : /\ positions'[j].id = positions[j].id
                                  /\ positions'[j].volume = positions[j].volume
  <2> HIDE DEF changed
  <2>1. QED BY <1>5, <1>6
<1>8. QED BY <1>6, <1>7

LEMMA ModifyTypes ==
    ASSUME TypeOK, NEW k \in DOMAIN positions, NEW c \in Changes, ModifyPosition(k, c)
    PROVE  TypeOK'
<1>1. ASSUME NEW q \in ToSet(positions')
      PROVE  q.id \in DOMAIN orders /\ q.volume <= orders[q.id].volume
  <2>1. PICK j \in DOMAIN positions : q = positions'[j] BY <1>1, ModifyIs DEF ToSet
  <2>2. positions[j] \in ToSet(positions) BY DEF ToSet
  <2>3. q.id = positions[j].id /\ q.volume = positions[j].volume BY <2>1, ModifyIs
  <2>4. QED BY <2>2, <2>3 DEF TypeOK
<1>2. UNCHANGED <<series, bar, at, hook, status, orders, queue, todo, trades, balance,
                  curve>>
  BY DEF ModifyPosition
<1>3. QED BY <1>1, <1>2, ModifyIs DEF TypeOK

LEMMA HooksAre == ASSUME NEW name \in Hooks, hook \in Hooks PROVE Fed(name) \in Hooks
BY DEF Fed, Hooks

(* The price at which an order is filled at the open. *)
LEMMA OpeningPrice ==
    ASSUME TypeOK, NEW i \in DOMAIN orders
    PROVE  Slipped(orders[i].side, Taken(orders[i].side, Candle.o)) \in Int
<1>1. orders[i].side \in Sides
  <2>1. orders[i] \in OrderRecord BY DEF TypeOK
  <2>2. QED BY <2>1 DEF OrderRecord
<1>2. QED BY <1>1, CandleIs, TakenIsInt

(* One order of the queue, or of the resting ones, is settled or skipped.  *)
SettleOne(i, price) ==
    \/ orders[i].state = "pending" /\ Fill(i, price) /\ hook' = Fed("on_order")
    \/ UNCHANGED <<orders, positions, balance, hook>>

LEMMA SettleTypes ==
    ASSUME TypeOK, NEW i \in DOMAIN orders, NEW price \in Int, SettleOne(i, price),
           queue' \in Seq(DOMAIN orders), todo' \in Seq(DOMAIN orders),
           UNCHANGED <<series, bar, at, status, trades, curve>>
    PROVE  TypeOK'
<1>1. CASE Fill(i, price) /\ hook' = Fed("on_order")
  <2>1. /\ orders' \in Seq(OrderRecord) /\ DOMAIN orders' = DOMAIN orders
        /\ positions' \in Seq(PositionRecord)
        /\ \A p \in ToSet(positions') : p.id \in DOMAIN orders'
                                        /\ p.volume <= orders'[p.id].volume
        /\ balance' \in Int
    BY <1>1, FillIs
  <2>2. hook' \in Hooks BY <1>1 DEF Fed, Hooks
  <2>3. QED BY <2>1, <2>2 DEF TypeOK
<1>2. CASE UNCHANGED <<orders, positions, balance, hook>> BY <1>2 DEF TypeOK
<1>3. QED BY <1>1, <1>2 DEF SettleOne

LEMMA OpeningFillIs ==
    ASSUME TypeOK, OpeningFill
    PROVE  /\ Head(queue) \in DOMAIN orders /\ queue' \in Seq(DOMAIN orders)
           /\ Head(queue) \in ToSet(queue)
           /\ \A x \in ToSet(queue') : x \in ToSet(queue)
           /\ \A x \in ToSet(queue) : x = Head(queue) \/ x \in ToSet(queue')
           /\ orders[Head(queue)].state # "pending" => UNCHANGED orders
           /\ orders[Head(queue)].state = "pending" =>
                 \E price \in Int : Fill(Head(queue), price)
           /\ \E price \in Int : SettleOne(Head(queue), price)
<1>1. queue \in Seq(DOMAIN orders) /\ queue # <<>> /\ queue' = Tail(queue)
  BY DEF TypeOK, OpeningFill
<1>2. /\ Head(queue) \in DOMAIN orders /\ Tail(queue) \in Seq(DOMAIN orders)
      /\ Head(queue) \in ToSet(queue)
      /\ \A x \in ToSet(Tail(queue)) : x \in ToSet(queue)
      /\ \A x \in ToSet(queue) : x = Head(queue) \/ x \in ToSet(Tail(queue))
  BY <1>1, TailIs
<1> DEFINE price == Slipped(orders[Head(queue)].side,
                            Taken(orders[Head(queue)].side, Candle.o))
<1>3. price \in Int BY <1>2, OpeningPrice
<1>4. IF orders[Head(queue)].state = "pending"
      THEN Fill(Head(queue), price) /\ hook' = Fed("on_order")
      ELSE UNCHANGED <<orders, positions, balance, hook>>
  BY DEF OpeningFill
<1> HIDE DEF price
<1>5. QED BY <1>1, <1>2, <1>3, <1>4 DEF SettleOne

LEMMA OpeningTypes == ASSUME TypeOK, OpeningFill PROVE TypeOK'
<1>1. PICK price \in Int : SettleOne(Head(queue), price) BY OpeningFillIs
<1>2. Head(queue) \in DOMAIN orders /\ queue' \in Seq(DOMAIN orders) BY OpeningFillIs
<1>3. UNCHANGED <<series, bar, at, status, trades, curve>>
      /\ todo' \in Seq(DOMAIN orders)
  BY DEF OpeningFill, TypeOK
<1>4. QED BY <1>1, <1>2, <1>3, SettleTypes

LEMMA RestingFillIs ==
    ASSUME TypeOK, RestingFill
    PROVE  /\ Head(todo) \in DOMAIN orders /\ todo' \in Seq(DOMAIN orders)
           /\ Head(todo) \in ToSet(todo)
           /\ \A x \in ToSet(todo') : x \in ToSet(todo)
           /\ \/ /\ orders[Head(todo)].type # "market"
                 /\ orders[Head(todo)].state = "pending"
                 /\ \E price \in Int : Fill(Head(todo), price)
              \/ UNCHANGED orders
           /\ \E price \in Int : SettleOne(Head(todo), price)
<1>1. todo \in Seq(DOMAIN orders) /\ todo # <<>> /\ todo' = Tail(todo)
  BY DEF TypeOK, RestingFill
<1>2. /\ Head(todo) \in DOMAIN orders /\ Tail(todo) \in Seq(DOMAIN orders)
      /\ Head(todo) \in ToSet(todo)
      /\ \A x \in ToSet(Tail(todo)) : x \in ToSet(todo)
  BY <1>1, TailIs
<1> DEFINE o == orders[Head(todo)]
<1>3. RestingPrice(o) \in Int /\ (RestingPrice(o) # None => o.type # "market")
  <2>1. o \in OrderRecord BY <1>2 DEF TypeOK
  <2>2. QED BY <2>1, RestingPriceIs
<1>4. IF o.state = "pending" /\ RestingPrice(o) # None
      THEN Fill(Head(todo), RestingPrice(o)) /\ hook' = Fed("on_order")
      ELSE UNCHANGED <<orders, positions, balance, hook>>
  BY DEF RestingFill
<1>5. CASE o.state = "pending" /\ RestingPrice(o) # None
  BY <1>1, <1>2, <1>3, <1>4, <1>5 DEF SettleOne
<1>6. CASE ~(o.state = "pending" /\ RestingPrice(o) # None)
  BY <1>1, <1>2, <1>3, <1>4, <1>6 DEF SettleOne
<1>7. QED BY <1>5, <1>6

LEMMA RestingTypes == ASSUME TypeOK, RestingFill PROVE TypeOK'
<1>1. PICK price \in Int : SettleOne(Head(todo), price) BY RestingFillIs
<1>2. Head(todo) \in DOMAIN orders /\ todo' \in Seq(DOMAIN orders) BY RestingFillIs
<1>3. UNCHANGED <<series, bar, at, status, trades, curve>>
      /\ queue' \in Seq(DOMAIN orders)
  BY DEF RestingFill, TypeOK
<1>4. QED BY <1>1, <1>2, <1>3, SettleTypes

LEMMA OpeningDoneIs ==
    ASSUME TypeOK, OpeningDone
    PROVE  todo' \in Seq(DOMAIN orders)
<1> DEFINE S == {i \in DOMAIN orders : orders[i].state = "pending"}
<1>1. PICK n \in Nat : DOMAIN orders = 1..n BY DEF TypeOK
<1>2. S \in SUBSET (1..n) /\ S \subseteq DOMAIN orders BY <1>1
<1>3. todo' \in Ascending(S) BY DEF OpeningDone
<1> HIDE DEF S
<1>4. todo' \in Seq(S) BY <1>2, <1>3, AscendingSeq
<1>5. QED BY <1>2, <1>4, SeqMonotonic

(* The positions a bar closes and those it keeps are all there were, and   *)
(* the trades are those it closes.                                         *)
BarSplits(trailed, hit, out, kept, exits) ==
    /\ trailed \in Seq(PositionRecord) /\ DOMAIN trailed = DOMAIN positions
    /\ \A k \in DOMAIN positions : /\ trailed[k].id = positions[k].id
                                   /\ trailed[k].volume = positions[k].volume
    /\ hit \in SUBSET DOMAIN trailed
    /\ out \in Ascending(hit) /\ kept \in Ascending(DOMAIN trailed \ hit)
    /\ exits \in Seq(TradeRecord) /\ DOMAIN exits = DOMAIN Chosen(trailed, out)
    /\ \A n \in DOMAIN exits : /\ exits[n].id = Chosen(trailed, out)[n].id
                               /\ exits[n].volume = Chosen(trailed, out)[n].volume
                               /\ exits[n].at = bar
                               /\ exits[n].close >= Candle.l - Slip
                               /\ exits[n].close <= Candle.h + Slip
    /\ trades' = trades \o exits
    /\ balance' = balance + NetIn(exits)
    /\ positions' = Chosen(trailed, kept)

LEMMA BarSplit ==
    ASSUME TypeOK, BarCloses
    PROVE  \E trailed, hit, out, kept, exits : BarSplits(trailed, hit, out, kept, exits)
<1> DEFINE trailed == [k \in DOMAIN positions |-> Trailed(positions[k])]
           hit     == {k \in DOMAIN trailed : ExitPrice(trailed[k]) # None}
           exit(p) == Trade(p, p.volume, ExitPrice(p), "protection")
<1>1. PICK out \in Ascending(hit), kept \in Ascending(DOMAIN trailed \ hit) :
         /\ trades' = trades \o [n \in DOMAIN out |-> exit(trailed[out[n]])]
         /\ balance' = balance + Total([n \in DOMAIN out |-> exit(trailed[out[n]])],
                                       LAMBDA t : t.net)
         /\ positions' = Chosen(trailed, kept)
  BY DEF BarCloses
<1> DEFINE exits == [n \in DOMAIN out |-> exit(trailed[out[n]])]
<1>2. PICK n \in Nat : DOMAIN positions = 1..n BY DEF TypeOK
<1>3. ASSUME NEW k \in 1..n
      PROVE  /\ trailed[k] \in PositionRecord
             /\ trailed[k].id = positions[k].id
             /\ trailed[k].volume = positions[k].volume
  <2>1. positions[k] \in PositionRecord BY <1>2 DEF TypeOK
  <2>2. trailed[k] = Trailed(positions[k]) BY <1>2
  <2>3. /\ Trailed(positions[k]) \in PositionRecord
        /\ Trailed(positions[k]).id = positions[k].id
        /\ Trailed(positions[k]).volume = positions[k].volume
    BY <2>1, TrailedIs
  <2> HIDE DEF trailed
  <2>4. QED BY <2>2, <2>3
<1>4. DOMAIN trailed = 1..n BY <1>2
<1>5. trailed \in Seq(PositionRecord)
  <2> HIDE DEF exit, hit
  <2>1. trailed = [k \in 1..n |-> trailed[k]] BY <1>2
  <2> HIDE DEF trailed
  <2>2. trailed \in [1..n -> PositionRecord] BY <1>3, <2>1
  <2>3. QED BY <2>2, SeqDef
<1>6. hit \in SUBSET (1..n) /\ \A k \in hit : ExitPrice(trailed[k]) # None BY <1>4
<1> HIDE DEF trailed, hit
<1>7. PICK m \in Nat : out \in [1..m -> hit] BY <1>6, AscendingIs
<1>8. ASSUME NEW k \in hit
      PROVE  /\ exit(trailed[k]) \in TradeRecord
             /\ exit(trailed[k]).id = trailed[k].id
             /\ exit(trailed[k]).volume = trailed[k].volume
             /\ exit(trailed[k]).at = bar
             /\ exit(trailed[k]).close >= Candle.l - Slip
             /\ exit(trailed[k]).close <= Candle.h + Slip
  <2> DEFINE p == trailed[k]
  <2>1. p \in PositionRecord /\ ExitPrice(p) # None BY <1>3, <1>6
  <2>2. /\ ExitPrice(p) \in Int
        /\ ExitPrice(p) >= Candle.l - Slip /\ ExitPrice(p) <= Candle.h + Slip
    BY <2>1, ExitPriceIs
  <2>3. p.volume \in Lots BY <2>1 DEF PositionRecord
  <2>4. exit(p) \in TradeRecord /\ exit(p).at = bar BY <2>1, <2>2, <2>3, TradeIs
  <2>5. exit(p).id = p.id /\ exit(p).volume = p.volume /\ exit(p).close = ExitPrice(p)
    BY DEF Trade
  <2>6. QED BY <2>2, <2>4, <2>5
<1>9. exits = [j \in 1..m |-> exit(trailed[out[j]])] BY <1>7
<1> HIDE DEF exit
<1>10. exits \in [1..m -> TradeRecord] BY <1>7, <1>8, <1>9
<1>11. exits \in Seq(TradeRecord) BY <1>10, SeqDef
<1>12. Total(exits, LAMBDA t : t.net) = NetIn(exits) BY TotalIs DEF Total, NetIn, NetsOf
<1>13. /\ DOMAIN Chosen(trailed, out) = 1..m
       /\ \A j \in 1..m : Chosen(trailed, out)[j] = trailed[out[j]]
  BY <1>7 DEF Chosen
<1>14. /\ DOMAIN exits = 1..m
       /\ \A j \in 1..m : /\ exits[j].id = trailed[out[j]].id
                          /\ exits[j].volume = trailed[out[j]].volume
                          /\ exits[j].at = bar
                          /\ exits[j].close >= Candle.l - Slip
                          /\ exits[j].close <= Candle.h + Slip
  BY <1>7, <1>8, <1>9
<1>15. trades' = trades \o exits /\ balance' = balance + NetIn(exits)
  BY <1>1, <1>12
<1> HIDE DEF exits
<1>16. BarSplits(trailed, hit, out, kept, exits)
  BY <1>1, <1>2, <1>3, <1>4, <1>5, <1>6, <1>11, <1>13, <1>14, <1>15 DEF BarSplits
<1>17. QED BY <1>16

(* The trades that a bar makes of the positions it closes. *)
LEMMA BarClosesIs ==
    ASSUME TypeOK, BarCloses
    PROVE  /\ trades' \in Seq(TradeRecord) /\ balance' \in Int
           /\ \A t \in ToSet(trades') :
                 \/ t \in ToSet(trades)
                 \/ /\ t.at = bar
                    /\ t.close >= Candle.l - Slip /\ t.close <= Candle.h + Slip
           /\ positions' \in Seq(PositionRecord)
           /\ \A p \in ToSet(positions') : p.id \in DOMAIN orders
                                           /\ p.volume <= orders[p.id].volume
<1>1. PICK trailed, hit, out, kept, exits : BarSplits(trailed, hit, out, kept, exits)
  BY BarSplit
<1> USE DEF BarSplits
<1>2. trades \in Seq(TradeRecord) /\ exits \in Seq(TradeRecord) BY <1>1 DEF TypeOK
<1>3. PICK n, m \in Nat : Joins(trades', trades, n, exits, m)
  BY <1>1, <1>2, ConcatenatedIs
<1>4. trades' \in Seq(TradeRecord) BY <1>1, <1>2, ConcatenatedIs
<1>5. balance' \in Int
  <2>1. NetIn(exits) \in Int /\ balance \in Int BY <1>2, NetsAre DEF TypeOK
  <2>2. QED BY <1>1, <2>1
<1>6. ASSUME NEW t \in ToSet(trades')
      PROVE  \/ t \in ToSet(trades)
             \/ /\ t.at = bar
                /\ t.close >= Candle.l - Slip /\ t.close <= Candle.h + Slip
  <2>1. PICK j \in 1..(n + m) : t = trades'[j] BY <1>3, <1>6 DEF ToSet, Joins
  <2>2. CASE j \in 1..n BY <1>3, <2>1, <2>2 DEF ToSet, Joins
  <2>3. CASE j \notin 1..n
    <3>1. j - n \in 1..m /\ n + (j - n) = j BY <2>3
    <3>2. j - n \in DOMAIN exits /\ t = exits[j - n] BY <1>3, <2>1, <3>1 DEF Joins
    <3>3. QED BY <1>1, <3>2
  <2>4. QED BY <2>2, <2>3
<1>7. positions' \in Seq(PositionRecord) /\ \A p \in ToSet(positions') : p \in ToSet(trailed)
  <2>1. DOMAIN trailed \ hit \in SUBSET DOMAIN trailed OBVIOUS
  <2>2. QED BY <1>1, <2>1, ChosenSeq
<1>8. ASSUME NEW p \in ToSet(trailed)
      PROVE  p.id \in DOMAIN orders /\ p.volume <= orders[p.id].volume
  <2>1. PICK k \in DOMAIN positions : p = trailed[k] BY <1>1, <1>8 DEF ToSet
  <2>2. p.id = positions[k].id /\ p.volume = positions[k].volume BY <1>1, <2>1
  <2>3. positions[k] \in ToSet(positions) BY DEF ToSet
  <2>4. QED BY <2>2, <2>3 DEF TypeOK
<1>9. QED BY <1>4, <1>5, <1>6, <1>7, <1>8

LEMMA BarTypes == ASSUME TypeOK, BarCloses PROVE TypeOK'
<1>1. \A t \in ToSet(trades') : t.at \in DOMAIN series BY BarClosesIs DEF TypeOK
<1>2. hook' \in Hooks BY DEF BarCloses, Fed, Hooks
<1>3. /\ at' \in Places
      /\ UNCHANGED <<series, bar, status, orders, queue, todo, curve>>
  BY DEF BarCloses, Places
<1>4. QED BY <1>1, <1>2, <1>3, BarClosesIs DEF TypeOK

(* A sum over the positions or the trades. *)
LEMMA EquityIsInt == ASSUME TypeOK PROVE Equity(balance, positions, trades) \in Int
<1> DEFINE worth(p) == Bought(p, Taken(Other(p.side), Candle.c)) * p.volume
           due(p)   == SwapFor(p, p.volume)
<1>1. PICK n \in Nat : DOMAIN positions = 1..n BY DEF TypeOK
<1>2. PICK m \in Nat : DOMAIN trades = 1..m BY DEF TypeOK
<1>3. ASSUME NEW k \in 1..n
      PROVE  worth(positions[k]) \in Int /\ due(positions[k]) \in Int
  <2>1. k \in DOMAIN positions /\ positions[k] \in PositionRecord BY <1>1 DEF TypeOK
  <2>2. /\ positions[k].volume \in Int /\ positions[k].open \in Int
        /\ positions[k].side \in Sides /\ positions[k].since \in Int
    BY <2>1 DEF PositionRecord, Lots
  <2>3. Taken(Other(positions[k].side), Candle.c) \in Int BY <2>1, ClosingPrice
  <2>4. Bought(positions[k], Taken(Other(positions[k].side), Candle.c)) \in Int
    BY <2>2, <2>3 DEF Bought, Dir
  <2>5. SwapPoints * positions[k].volume \in Int BY <2>2, Constants, ProductIsInt
  <2>6. bar - positions[k].since \in Int BY <2>2, CandleIs
  <2>7. QED BY <2>2, <2>4, <2>5, <2>6, ProductIsInt DEF SwapFor
<1>4. ASSUME NEW k \in 1..m PROVE trades[k].swap \in Int
  <2>1. trades[k] \in TradeRecord BY <1>2 DEF TypeOK
  <2>2. QED BY <2>1 DEF TradeRecord
<1> DEFINE f == [k \in 1..n |-> worth(positions[k])]
           g == [k \in 1..m |-> trades[k].swap]
           h == [k \in 1..n |-> due(positions[k])]
<1>5. Equity(balance, positions, trades) =
         balance + SumFunction(f) + SumFunction(g) + SumFunction(h)
  BY <1>1, <1>2 DEF Equity, Total
<1> HIDE DEF worth, due
<1>6. f \in [1..n -> Int] /\ g \in [1..m -> Int] /\ h \in [1..n -> Int] BY <1>3, <1>4
<1> HIDE DEF f, g, h
<1>7. SumFunction(f) \in Int /\ SumFunction(g) \in Int /\ SumFunction(h) \in Int
  BY <1>6, TotalIsInt
<1>8. balance \in Int BY DEF TypeOK
<1>9. QED BY <1>5, <1>7, <1>8

LEMMA NextBarTypes == ASSUME TypeOK, NextBar PROVE TypeOK'
<1>1. CASE at = "start" BY <1>1 DEF NextBar, TypeOK, Places, book
<1>2. CASE at = "closing"
  <2>1. curve' \in Seq(Int)
    <3>1. curve' = Append(curve, Equity(balance, positions, trades))
      BY <1>2 DEF NextBar
    <3>2. curve \in Seq(Int) BY DEF TypeOK
    <3>3. QED BY <3>1, <3>2, EquityIsInt, AppendedIs
  <2>2. bar' \in DOMAIN series /\ at' \in Places
    <3>1. series \in SeriesSet /\ bar \in DOMAIN series BY DEF TypeOK
    <3>2. DOMAIN series = 1..Len(series) /\ Len(series) \in Nat BY <3>1, SeriesAre
    <3>3. bar' = bar \/ (bar < Len(series) /\ bar' = bar + 1) BY <1>2 DEF NextBar
    <3>4. at' \in Places BY <1>2 DEF NextBar, Places
    <3>5. QED BY <3>1, <3>2, <3>3, <3>4
  <2>3. UNCHANGED <<series, hook, status, todo, book>> BY <1>2 DEF NextBar
  <2>4. QED BY <2>1, <2>2, <2>3 DEF TypeOK, book
<1>3. QED BY <1>1, <1>2 DEF NextBar

LEMMA InitTypes == Init => TypeOK
<1> SUFFICES ASSUME Init PROVE TypeOK OBVIOUS
<1>1. series \in SeriesSet /\ bar \in DOMAIN series BY SeriesAre DEF Init
<1>2. balance \in Int BY Constants DEF Init
<1>3. /\ <<>> \in Seq(OrderRecord) /\ <<>> \in Seq(PositionRecord)
      /\ <<>> \in Seq(TradeRecord) /\ <<>> \in Seq(Int) /\ <<>> \in Seq(DOMAIN orders)
      /\ ToSet(<<>>) = {}
  BY DEF ToSet
<1>4. QED BY <1>1, <1>2, <1>3 DEF Init, TypeOK, Places, Hooks

LEMMA TypesStep == ASSUME TypeOK, [Next]_vars PROVE TypeOK'
<1>1. CASE UNCHANGED vars BY <1>1 DEF TypeOK, vars
<1>2. ASSUME NEW r \in Requests, PlaceOrder(r) PROVE TypeOK' BY <1>2, PlaceTypes
<1>3. ASSUME NEW i \in DOMAIN orders, CancelOrder(i) PROVE TypeOK' BY <1>3, CancelTypes
<1>4. ASSUME NEW k \in DOMAIN positions, NEW v \in 1..positions[k].volume,
             ClosePosition(k, v)
      PROVE  TypeOK'
  BY <1>4, ClosingPrice, CloseTypes DEF ClosePosition
<1>5. ASSUME NEW k \in DOMAIN positions, NEW c \in Changes, ModifyPosition(k, c)
      PROVE  TypeOK'
  BY <1>5, ModifyTypes
<1>6. CASE HookReturns BY <1>6 DEF HookReturns, TypeOK, Hooks, book
<1>7. CASE HookRaises BY <1>7 DEF HookRaises, TypeOK, Hooks, book
<1>8. CASE OpeningFill BY <1>8, OpeningTypes
<1>9. CASE OpeningDone
  <2>1. todo' \in Seq(DOMAIN orders) BY <1>9, OpeningDoneIs
  <2>2. at' \in Places /\ UNCHANGED <<series, bar, hook, status, curve, book>>
    BY <1>9 DEF OpeningDone, Places
  <2>3. QED BY <2>1, <2>2 DEF TypeOK, book
<1>10. CASE RestingFill BY <1>10, RestingTypes
<1>11. CASE BarCloses BY <1>11, BarTypes
<1>12. CASE NextBar BY <1>12, NextBarTypes
<1>13. CASE CloseLeft
  <2>1. 1 \in DOMAIN positions BY <1>13 DEF CloseLeft, TypeOK
  <2>2. QED BY <1>13, <2>1, ClosingPrice, CloseTypes DEF CloseLeft
<1>14. CASE RunnerStops
  <2>1. at' \in Places /\ hook' \in Hooks /\ status' \in {"running", "stopped", "error"}
    BY <1>14 DEF RunnerStops, TypeOK, Places, Hooks
  <2>2. UNCHANGED <<series, bar, todo, curve, book>> BY <1>14 DEF RunnerStops
  <2>3. QED BY <2>1, <2>2 DEF TypeOK, book
<1>15. QED
  BY <1>1, <1>2, <1>3, <1>4, <1>5, <1>6, <1>7, <1>8, <1>9, <1>10, <1>11, <1>12, <1>13,
     <1>14
  DEF Next, Strategy, Replay

-----------------------------------------------------------------------------
(* Market orders and the open they are due at.                             *)

(* The bar at whose open the code fills an order, at the earliest. *)
Due(o) == IF o.by = "initialize" \/ o.during = "opening" THEN o.created
          ELSE o.created + 1

InTime(o, now, place) ==
    /\ o.state = "filled" => /\ o.done >= Due(o)
                             /\ o.type = "market" => o.done = Due(o)
    /\ (o.type = "market" /\ o.state = "pending") =>
           now < Due(o) \/ (now = Due(o) /\ place \in {"start", "opening"})

(* Until the opening is over nothing has been asked for too late for it; a *)
(* market order that waits is in the queue; and what a bar's resting loop  *)
(* goes through was there at its open.                                     *)
Waiting ==
    /\ \A i \in DOMAIN orders : orders[i].created <= bar
    /\ hook = "initialize" => at = "start"
    /\ at = "start" => /\ hook \in {"initialize", "none"}
                       /\ \A i \in DOMAIN orders : orders[i].by = "initialize"
    /\ at \in {"start", "opening"} => \A i \in DOMAIN orders : Due(orders[i]) <= bar
    /\ \A i \in DOMAIN orders :
          (orders[i].type = "market" /\ orders[i].state = "pending") => i \in ToSet(queue)
    /\ \A i \in ToSet(queue) : orders[i].type = "market"
    /\ at = "resting" => \A i \in ToSet(todo) : Due(orders[i]) <= bar
    /\ \A i \in DOMAIN orders : InTime(orders[i], bar, at)


LEMMA DueIsNat ==
    ASSUME TypeOK, NEW i \in DOMAIN orders
    PROVE  /\ orders[i] \in OrderRecord
           /\ Due(orders[i]) \in Nat /\ orders[i].created \in Nat
           /\ Due(orders[i]) <= orders[i].created + 1
<1>1. orders[i] \in OrderRecord BY DEF TypeOK
<1>2. QED BY <1>1 DEF OrderRecord, Due

LEMMA QueueIs ==
    ASSUME TypeOK
    PROVE  /\ \A i \in ToSet(queue) : i \in DOMAIN orders
           /\ \A i \in ToSet(todo) : i \in DOMAIN orders
<1>1. queue \in Seq(DOMAIN orders) /\ todo \in Seq(DOMAIN orders) BY DEF TypeOK
<1>2. QED BY <1>1 DEF ToSet

(* An order that neither initialize nor a hook of the opening loop placed  *)
(* is due at the next bar.                                                 *)
LEMMA WaitingSays ==
    ASSUME TypeOK, Waiting
    PROVE  NextOpenFills
<1> SUFFICES ASSUME NEW i \in DOMAIN orders,
                    orders[i].by # "initialize", orders[i].during # "opening"
             PROVE  /\ orders[i].state = "filled" =>
                          /\ orders[i].done > orders[i].created
                          /\ orders[i].type = "market" =>
                                orders[i].done = orders[i].created + 1
                    /\ (orders[i].type = "market" /\ orders[i].state = "pending") =>
                          \/ bar = orders[i].created
                          \/ bar = orders[i].created + 1 /\ at = "opening"
  BY DEF NextOpenFills
<1>1. /\ orders[i].created \in Nat /\ orders[i].done \in Nat /\ bar \in Nat
  BY DueIsNat, CandleIs DEF OrderRecord
<1>2. Due(orders[i]) = orders[i].created + 1 BY DEF Due
<1>3. InTime(orders[i], bar, at) /\ orders[i].created <= bar /\ at # "start"
  BY DEF Waiting
<1>4. QED BY <1>1, <1>2, <1>3 DEF InTime

(* Nothing that is waited for changes. *)
LEMMA WaitingStill ==
    ASSUME Waiting, UNCHANGED <<bar, at, orders, queue, todo>>,
           hook' \in {hook, "none"}
    PROVE  Waiting'
BY DEF Waiting, InTime, Due

LEMMA PlaceWaits ==
    ASSUME TypeOK, Waiting, NEW r \in Requests, hook # "none", PlaceOrder(r)
    PROVE  Waiting'
<1> DEFINE new == NewOrder(r)
           last == Len(orders) + 1
<1>1. /\ orders \in Seq(OrderRecord) /\ queue \in Seq(DOMAIN orders) /\ bar \in Nat
      /\ UNCHANGED <<series, bar, at, hook, todo>>
  BY CandleIs DEF TypeOK, PlaceOrder
<1>2. /\ new.type = r.type /\ new.state = "pending" /\ new.created = bar
      /\ new.by = hook /\ new.during = at
  BY DEF NewOrder
<1>3. PICK n \in Nat : n = Len(orders) BY <1>1
<1> HIDE DEF new
<1>4. orders' = Append(orders, new) BY DEF PlaceOrder, new
<1>5. /\ DOMAIN orders = 1..n /\ DOMAIN orders' = 1..(n + 1)
      /\ \A j \in 1..n : orders'[j] = orders[j]
      /\ orders'[n + 1] = new
  BY <1>1, <1>3, <1>4
<1>6. \A j \in 1..(n + 1) : j = n + 1 \/ j \in 1..n OBVIOUS
<1>7. /\ at \in {"start", "opening"} => Due(new) = bar
      /\ at \notin {"start", "opening"} => Due(new) = bar + 1
  BY <1>2 DEF Due, Waiting
<1>8. queue' = IF r.type = "market" THEN Append(queue, n + 1) ELSE queue
  BY <1>3 DEF PlaceOrder
<1>9. /\ \A x \in ToSet(queue) : x \in ToSet(queue')
      /\ \A x \in ToSet(queue') : x \in ToSet(queue) \/ (x = n + 1 /\ r.type = "market")
      /\ r.type = "market" => n + 1 \in ToSet(queue')
  <2>1. CASE r.type # "market" BY <1>8, <2>1
  <2>2. CASE r.type = "market"
    <3>1. queue' = Append(queue, n + 1) BY <1>8, <2>2
    <3>2. queue \in Seq(Nat) /\ n + 1 \in Nat
      <4>1. DOMAIN orders \subseteq Nat BY <1>5
      <4>2. QED BY <1>1, <4>1, SeqMonotonic
    <3>3. PICK m \in Nat : m = Len(queue) BY <3>2
    <3>4. /\ DOMAIN queue = 1..m /\ DOMAIN queue' = 1..(m + 1)
          /\ \A j \in 1..m : queue'[j] = queue[j]
          /\ queue'[m + 1] = n + 1
      BY <3>1, <3>2, <3>3
    <3>5. \A j \in 1..m : j \in 1..(m + 1) OBVIOUS
    <3>6. \A j \in 1..(m + 1) : j = m + 1 \/ j \in 1..m OBVIOUS
    <3>7. QED BY <2>2, <3>4, <3>5, <3>6 DEF ToSet
  <2>3. QED BY <2>1, <2>2
<1>10. \A i \in ToSet(queue) : i \in 1..n BY <1>5, QueueIs
<1>11. \A i \in ToSet(todo) : i \in 1..n BY <1>5, QueueIs
<1>12. InTime(new, bar, at) BY <1>1, <1>2, <1>7 DEF InTime
<1>13. ASSUME NEW i \in 1..(n + 1)
       PROVE  /\ orders'[i].created <= bar /\ InTime(orders'[i], bar, at)
              /\ at = "start" => orders'[i].by = "initialize"
              /\ at \in {"start", "opening"} => Due(orders'[i]) <= bar
  <2>1. CASE i = n + 1
    <3>1. at = "start" => new.by = "initialize" BY <1>2 DEF Waiting
    <3>2. QED BY <1>1, <1>2, <1>5, <1>7, <1>12, <2>1, <3>1
  <2>2. CASE i \in 1..n
    <3>1. orders'[i] = orders[i] /\ i \in DOMAIN orders BY <1>5, <2>2
    <3>2. QED BY <3>1 DEF Waiting
  <2>3. QED BY <1>6, <2>1, <2>2
<1>14. \A i \in 1..(n + 1) :
          (orders'[i].type = "market" /\ orders'[i].state = "pending")
             => i \in ToSet(queue')
  BY <1>2, <1>5, <1>6, <1>9 DEF Waiting
<1>15. \A i \in ToSet(queue') : orders'[i].type = "market"
  BY <1>2, <1>5, <1>9, <1>10 DEF Waiting
<1>16. at = "resting" => \A i \in ToSet(todo) : Due(orders'[i]) <= bar
  BY <1>5, <1>11 DEF Waiting
<1>17. QED BY <1>1, <1>5, <1>13, <1>14, <1>15, <1>16 DEF Waiting

(* One order is settled, at its time, or withdrawn, and leaves the queue   *)
(* or not; the others keep waiting.                                        *)
LEMMA SettledWaits ==
    ASSUME TypeOK, Waiting, NEW i \in DOMAIN orders,
           DOMAIN orders' = DOMAIN orders,
           \A j \in DOMAIN orders : j # i => orders'[j] = orders[j],
           SameOrder(orders[i], orders'[i]), orders'[i].state # "pending",
           InTime(orders'[i], bar, at),
           \A x \in ToSet(queue') : x \in ToSet(queue),
           \A x \in ToSet(queue) : x = i \/ x \in ToSet(queue'),
           \A x \in ToSet(todo') : x \in ToSet(todo),
           UNCHANGED <<bar, at>>,
           hook' = hook \/ (at # "start" /\ hook' # "initialize")
    PROVE  Waiting'
<1>1. \A j \in DOMAIN orders :
         /\ SameOrder(orders[j], orders'[j]) /\ InTime(orders'[j], bar, at)
         /\ orders'[j].state = "pending" => j # i /\ orders[j].state = "pending"
  BY DEF SameOrder, Waiting
<1>2. \A j \in DOMAIN orders : Due(orders'[j]) = Due(orders[j])
                               /\ orders'[j].created = orders[j].created
                               /\ orders'[j].type = orders[j].type
  BY <1>1 DEF SameOrder, Due
<1>3. \A j \in DOMAIN orders :
         (orders'[j].type = "market" /\ orders'[j].state = "pending")
            => j \in ToSet(queue')
  BY <1>1, <1>2 DEF Waiting
<1>4. \A j \in ToSet(queue') : orders'[j].type = "market"
  BY <1>2, QueueIs DEF Waiting
<1>5. at = "resting" => \A j \in ToSet(todo') : Due(orders'[j]) <= bar
  BY <1>2, QueueIs DEF Waiting
<1>6. hook' = "initialize" => at = "start" BY DEF Waiting
<1>7. at = "start" => /\ hook' \in {"initialize", "none"}
                      /\ \A j \in DOMAIN orders : orders'[j].by = "initialize"
  BY <1>1 DEF Waiting, SameOrder
<1>8. /\ \A j \in DOMAIN orders : orders'[j].created <= bar
      /\ at \in {"start", "opening"} => \A j \in DOMAIN orders : Due(orders'[j]) <= bar
  BY <1>2 DEF Waiting
<1>9. QED BY <1>1, <1>3, <1>4, <1>5, <1>6, <1>7, <1>8 DEF Waiting

LEMMA CancelWaits ==
    ASSUME TypeOK, Waiting, NEW i \in DOMAIN orders, CancelOrder(i)
    PROVE  Waiting'
<1>1. InTime(orders'[i], bar, at) /\ orders'[i].state # "pending"
  BY CancelIs DEF InTime
<1>2. UNCHANGED <<queue, todo, bar, at, hook>> BY DEF CancelOrder
<1>3. QED BY <1>1, <1>2, CancelIs, SettledWaits

LEMMA OpeningWaits ==
    ASSUME TypeOK, Waiting, OpeningFill
    PROVE  Waiting'
<1> DEFINE i == Head(queue)
<1>1. /\ i \in DOMAIN orders /\ i \in ToSet(queue)
      /\ \A x \in ToSet(queue') : x \in ToSet(queue)
      /\ \A x \in ToSet(queue) : x = i \/ x \in ToSet(queue')
  BY OpeningFillIs
<1>2. UNCHANGED <<bar, at, todo>> /\ at = "opening" /\ hook' \in {hook, "on_order", "none"}
  BY DEF OpeningFill, Fed
<1>3. orders[i].type = "market" BY <1>1 DEF Waiting
<1>4. CASE orders[i].state = "pending"
  <2>1. PICK price \in Int : Fill(i, price) BY <1>4, OpeningFillIs
  <2> HIDE DEF i
  <2>2. /\ DOMAIN orders' = DOMAIN orders
        /\ \A j \in DOMAIN orders : j # i => orders'[j] = orders[j]
        /\ SameOrder(orders[i], orders'[i])
        /\ \/ orders'[i].state = "filled" /\ orders'[i].done = bar
           \/ orders'[i].state = "rejected"
    BY <1>1, <2>1, FillIs
  <2>3. Due(orders[i]) = bar
    <3>1. Due(orders[i]) <= bar BY <1>1, <1>2 DEF Waiting
    <3>2. bar < Due(orders[i]) \/ bar = Due(orders[i])
      BY <1>1, <1>3, <1>4 DEF Waiting, InTime
    <3>3. QED BY <1>1, <3>1, <3>2, DueIsNat, CandleIs
  <2>4. InTime(orders'[i], bar, at) /\ orders'[i].state # "pending"
    BY <2>2, <2>3, CandleIs DEF InTime, SameOrder, Due
  <2>5. hook' = hook \/ (at # "start" /\ hook' # "initialize") BY <1>2
  <2>6. QED BY <1>1, <1>2, <2>2, <2>4, <2>5, SettledWaits
<1>5. CASE orders[i].state # "pending"
  <2>1. UNCHANGED orders BY <1>5, OpeningFillIs
  <2>2. \A j \in DOMAIN orders :
          (orders[j].type = "market" /\ orders[j].state = "pending") => j \in ToSet(queue')
    BY <1>1, <1>5 DEF Waiting
  <2>3. \A j \in ToSet(queue') : orders[j].type = "market" BY <1>1 DEF Waiting
  <2>4. hook' # "initialize" BY <1>2 DEF Waiting
  <2>5. QED BY <1>2, <2>1, <2>2, <2>3, <2>4 DEF Waiting
<1>6. QED BY <1>4, <1>5

(* With the queue empty no market order waits any longer. *)
LEMMA OpeningDoneWaits ==
    ASSUME TypeOK, Waiting, OpeningDone
    PROVE  Waiting'
<1>1. /\ at = "opening" /\ at' = "resting" /\ queue = <<>>
      /\ UNCHANGED <<bar, hook, orders, queue>>
  BY DEF OpeningDone, book
<1>2. ToSet(queue) = {} BY <1>1 DEF ToSet
<1>3. \A i \in DOMAIN orders : ~(orders[i].type = "market" /\ orders[i].state = "pending")
  BY <1>2 DEF Waiting
<1>4. \A i \in ToSet(todo') : i \in DOMAIN orders
  <2>1. todo' \in Seq(DOMAIN orders) BY OpeningDoneIs
  <2>2. QED BY <2>1 DEF ToSet
<1>5. \A i \in DOMAIN orders : InTime(orders[i], bar, "resting")
  BY <1>3 DEF InTime, Waiting
<1>6. QED BY <1>1, <1>2, <1>3, <1>4, <1>5 DEF Waiting

LEMMA RestingWaits ==
    ASSUME TypeOK, Waiting, RestingFill
    PROVE  Waiting'
<1> DEFINE i == Head(todo)
<1>1. /\ i \in DOMAIN orders /\ i \in ToSet(todo)
      /\ \A x \in ToSet(todo') : x \in ToSet(todo)
  BY RestingFillIs
<1>2. /\ UNCHANGED <<bar, at, queue>> /\ at = "resting"
      /\ hook' \in {hook, "on_order", "none"}
  BY DEF RestingFill, Fed
<1>3. CASE orders[i].type # "market" /\ \E price \in Int : Fill(i, price)
  <2>1. PICK price \in Int : Fill(i, price) BY <1>3
  <2> HIDE DEF i
  <2>2. /\ DOMAIN orders' = DOMAIN orders
        /\ \A j \in DOMAIN orders : j # i => orders'[j] = orders[j]
        /\ SameOrder(orders[i], orders'[i])
        /\ \/ orders'[i].state = "filled" /\ orders'[i].done = bar
           \/ orders'[i].state = "rejected"
    BY <1>1, <2>1, FillIs
  <2>3. Due(orders[i]) <= bar BY <1>1, <1>2 DEF Waiting
  <2>4. InTime(orders'[i], bar, at) /\ orders'[i].state # "pending"
    BY <1>3, <2>2, <2>3, CandleIs DEF InTime, SameOrder, Due
  <2>5. hook' = hook \/ (at # "start" /\ hook' # "initialize") BY <1>2
  <2>6. QED BY <1>1, <1>2, <2>2, <2>4, <2>5, SettledWaits
<1>4. CASE UNCHANGED orders
  <2>1. hook' # "initialize" BY <1>2 DEF Waiting
  <2>2. \A j \in ToSet(todo') : Due(orders[j]) <= bar BY <1>1, <1>2 DEF Waiting
  <2>3. QED BY <1>2, <1>4, <2>1, <2>2 DEF Waiting
<1>5. QED BY <1>3, <1>4, RestingFillIs

(* What is placed after the opening is due at the next bar, not before. *)
LEMMA NextBarWaits ==
    ASSUME TypeOK, Waiting, hook = "none", NextBar
    PROVE  Waiting'
<1>1. UNCHANGED <<hook, orders, queue, todo>> BY DEF NextBar, book
<1>2. CASE at = "start"
  <2>1. at' = "opening" /\ bar' = bar BY <1>2 DEF NextBar
  <2>2. \A i \in DOMAIN orders : InTime(orders[i], bar, "opening")
    BY <1>2 DEF Waiting, InTime
  <2>3. QED BY <1>1, <1>2, <2>1, <2>2 DEF Waiting
<1>3. CASE at = "closing" /\ bar' = bar + 1
  <2>1. at' = "opening" BY <1>3, CandleIs DEF NextBar
  <2>2. ASSUME NEW i \in DOMAIN orders
        PROVE  /\ orders[i].created <= bar + 1 /\ Due(orders[i]) <= bar + 1
               /\ InTime(orders[i], bar + 1, "opening")
    <3>1. orders[i].created <= bar /\ InTime(orders[i], bar, "closing")
      BY <1>3 DEF Waiting
    <3>2. QED BY <3>1, DueIsNat, CandleIs DEF InTime
  <2>3. QED BY <1>1, <1>3, <2>1, <2>2 DEF Waiting
<1>4. CASE at = "closing" /\ bar' = bar
  <2>1. at' = "stopping" BY <1>4, CandleIs DEF NextBar
  <2>2. \A i \in DOMAIN orders : InTime(orders[i], bar, "stopping")
    BY <1>4 DEF Waiting, InTime
  <2>3. QED BY <1>1, <1>4, <2>1, <2>2 DEF Waiting
<1>5. QED BY <1>2, <1>3, <1>4 DEF NextBar

(* The bar closes, or the replay ends: only the place moves on. *)
LEMMA LaterWaits ==
    ASSUME Waiting, UNCHANGED <<bar, orders, queue, todo>>,
           at \in {"resting", "stopping"}, at' \in {"closing", "done"},
           hook' # "initialize"
    PROVE  Waiting'
<1>1. \A i \in DOMAIN orders : InTime(orders[i], bar, at')
  BY DEF Waiting, InTime
<1>2. QED BY <1>1 DEF Waiting

LEMMA WaitingStep == ASSUME TypeOK, Waiting, [Next]_vars PROVE Waiting'
<1>1. CASE UNCHANGED vars BY <1>1, WaitingStill DEF vars
<1>2. ASSUME hook # "none", NEW r \in Requests, PlaceOrder(r) PROVE Waiting'
  BY <1>2, PlaceWaits
<1>3. ASSUME NEW i \in DOMAIN orders, CancelOrder(i) PROVE Waiting' BY <1>3, CancelWaits
<1>4. ASSUME NEW k \in DOMAIN positions, NEW v \in 1..positions[k].volume,
             ClosePosition(k, v)
      PROVE  Waiting'
  BY <1>4, WaitingStill DEF ClosePosition
<1>5. ASSUME NEW k \in DOMAIN positions, NEW c \in Changes, ModifyPosition(k, c)
      PROVE  Waiting'
  <2>1. UNCHANGED <<bar, at, orders, queue, todo, hook>> BY <1>5 DEF ModifyPosition
  <2>2. QED BY <2>1, WaitingStill
<1>6. CASE HookReturns BY <1>6, WaitingStill DEF HookReturns, book
<1>7. CASE HookRaises BY <1>7, WaitingStill DEF HookRaises, book
<1>8. CASE OpeningFill BY <1>8, OpeningWaits
<1>9. CASE OpeningDone BY <1>9, OpeningDoneWaits
<1>10. CASE RestingFill BY <1>10, RestingWaits
<1>11. CASE BarCloses
  <2>1. /\ UNCHANGED <<bar, orders, queue, todo>> /\ at = "resting" /\ at' = "closing"
        /\ hook' # "initialize"
    BY <1>11 DEF BarCloses, Fed
  <2>2. QED BY <2>1, LaterWaits
<1>12. CASE hook = "none" /\ NextBar BY <1>12, NextBarWaits
<1>13. CASE CloseLeft BY <1>13, WaitingStill DEF CloseLeft
<1>14. CASE hook = "none" /\ RunnerStops
  <2>1. /\ UNCHANGED <<bar, orders, queue, todo>> /\ at = "stopping" /\ at' = "done"
        /\ hook' # "initialize"
    BY <1>14 DEF RunnerStops, book
  <2>2. QED BY <2>1, LaterWaits
<1>15. QED
  BY <1>1, <1>2, <1>3, <1>4, <1>5, <1>6, <1>7, <1>8, <1>9, <1>10, <1>11, <1>12, <1>13,
     <1>14
  DEF Next, Strategy, Replay

LEMMA InitWaits == Init => Waiting
<1> SUFFICES ASSUME Init PROVE Waiting OBVIOUS
<1>1. /\ orders = <<>> /\ queue = <<>> /\ todo = <<>> /\ at = "start"
      /\ hook = "initialize"
  BY DEF Init
<1>2. DOMAIN orders = {} /\ ToSet(queue) = {} /\ ToSet(todo) = {} BY <1>1 DEF ToSet
<1>3. QED BY <1>1, <1>2 DEF Waiting

-----------------------------------------------------------------------------
(* Exits at prices that were traded.                                       *)

LEMMA ExitsStep ==
    ASSUME TypeOK, ExitsTraded, [Next]_vars
    PROVE  ExitsTraded'
<1> DEFINE Sound(t) == t.why = "protection" => /\ t.close >= series[t.at].l - Slip
                                               /\ t.close <= series[t.at].h + Slip
<1>1. SUFFICES \A t \in ToSet(trades') : Sound(t) /\ series' = series
  BY DEF ExitsTraded
<1>2. series' = series
  BY DEF Next, Strategy, Replay, vars, PlaceOrder, CancelOrder, ClosePosition,
         ModifyPosition, HookReturns, HookRaises, OpeningFill, OpeningDone, RestingFill,
         BarCloses, NextBar, CloseLeft, RunnerStops
<1>3. \A t \in ToSet(trades) : Sound(t) BY DEF ExitsTraded
<1>4. CASE BarCloses
  <2>1. ASSUME NEW t \in ToSet(trades') PROVE Sound(t)
    <3>1. CASE t \in ToSet(trades) BY <1>3, <3>1
    <3>2. CASE /\ t.at = bar
               /\ t.close >= Candle.l - Slip /\ t.close <= Candle.h + Slip
      BY <3>2 DEF Candle
    <3>3. QED BY <1>4, <2>1, <3>1, <3>2, BarClosesIs
  <2>2. QED BY <1>2, <2>1
<1>5. ASSUME NEW k \in DOMAIN positions, NEW v \in 1..positions[k].volume,
             ClosePosition(k, v)
      PROVE  \A t \in ToSet(trades') : Sound(t)
  BY <1>3, <1>5, ClosingPrice, CloseIs DEF ClosePosition
<1>6. CASE CloseLeft
  <2>1. 1 \in DOMAIN positions BY <1>6 DEF CloseLeft, TypeOK
  <2>2. QED BY <1>2, <1>3, <1>6, <2>1, ClosingPrice, CloseIs DEF CloseLeft
<1>7. CASE UNCHANGED trades BY <1>2, <1>3, <1>7
<1>8. QED
  BY <1>2, <1>4, <1>5, <1>6, <1>7
  DEF Next, Strategy, Replay, vars, book, PlaceOrder, CancelOrder, ModifyPosition,
      HookReturns, HookRaises, OpeningFill, OpeningDone, RestingFill, NextBar, RunnerStops

-----------------------------------------------------------------------------
(* The books: what the balance and the lots are sums of.                   *)

FilledLots(i) == IF i \in DOMAIN orders /\ orders[i].state = "filled"
                 THEN orders[i].volume ELSE 0

(* An order that was not placed yet has no lots in any trade or position. *)
Books ==
    /\ balance = InitialBalance - FeesIn(orders) + NetIn(trades)
    /\ \A i \in Lots : VolumeIn(trades, i) + VolumeIn(positions, i) = FilledLots(i)

(* The invariant is what the property says, with the sums over sets, for   *)
(* the orders there are.                                                   *)
LEMMA BooksSay == ASSUME TypeOK, Books PROVE AccountBalances /\ VolumeBalances
<1>1. OpeningCommissions = FeesIn(orders)
  BY TotalIs DEF OpeningCommissions, Total, FeesIn, Fees, Fee
<1>2. Total(trades, LAMBDA t : t.net) = NetIn(trades)
  BY TotalIs DEF Total, NetIn, NetsOf
<1>3. ASSUME NEW i \in DOMAIN orders
      PROVE  /\ Total(trades, LAMBDA t : IF t.id = i THEN t.volume ELSE 0)
                   = VolumeIn(trades, i)
             /\ Total(positions, LAMBDA p : IF p.id = i THEN p.volume ELSE 0)
                   = VolumeIn(positions, i)
             /\ i \in Lots
  <2>1. i \in Lots BY DEF TypeOK, Lots
  <2>2. QED BY <2>1, TotalIs DEF Total, VolumeIn, Parts, Part
<1>4. AccountBalances BY <1>1, <1>2 DEF AccountBalances, Books
<1>5. VolumeBalances BY <1>3 DEF VolumeBalances, Books, FilledLots
<1>6. QED BY <1>4, <1>5

LEMMA PlaceBooks == ASSUME TypeOK, Books, NEW r \in Requests, PlaceOrder(r) PROVE Books'
<1>1. orders \in Seq(OrderRecord) BY DEF TypeOK
<1>2. NewOrder(r) \in OrderRecord /\ NewOrder(r).state = "pending" BY NewOrderIs
<1>3. orders' = Append(orders, NewOrder(r)) /\ UNCHANGED <<positions, trades, balance>>
  BY DEF PlaceOrder
<1>4. FeesIn(orders') = FeesIn(orders) BY <1>1, <1>2, <1>3, FeesAppended
<1>5. /\ DOMAIN orders = 1..Len(orders) /\ DOMAIN orders' = 1..(Len(orders) + 1)
      /\ \A j \in DOMAIN orders : orders'[j] = orders[j]
      /\ orders'[Len(orders) + 1] = NewOrder(r) /\ Len(orders) \in Nat
  BY <1>1, <1>2, <1>3, AppendedIs
<1>6. ASSUME NEW i \in Lots PROVE FilledLots(i)' = FilledLots(i)
  <2>1. CASE i \in DOMAIN orders BY <1>5, <2>1 DEF FilledLots
  <2>2. CASE i \notin DOMAIN orders
    <3>1. i \in DOMAIN orders' => i = Len(orders) + 1 BY <1>5, <2>2
    <3>2. QED BY <1>2, <1>5, <2>2, <3>1 DEF FilledLots
  <2>3. QED BY <2>1, <2>2
<1>7. QED BY <1>3, <1>4, <1>6 DEF Books

LEMMA CancelBooks ==
    ASSUME TypeOK, Books, NEW i \in DOMAIN orders, CancelOrder(i)
    PROVE  Books'
<1>1. /\ orders \in Seq(OrderRecord) /\ orders' \in Seq(OrderRecord)
      /\ DOMAIN orders' = DOMAIN orders
      /\ \A j \in DOMAIN orders : j # i => orders'[j] = orders[j]
      /\ orders'[i].state = "cancelled" /\ orders[i].state = "pending"
  BY CancelIs DEF TypeOK, CancelOrder
<1>2. Fee(orders[i]) = 0 /\ Fee(orders'[i]) = 0 BY <1>1 DEF Fee
<1>3. FeesIn(orders') = FeesIn(orders)
  <2>1. FeesIn(orders') = FeesIn(orders) - Fee(orders[i]) + Fee(orders'[i])
    BY <1>1, FeesChanged
  <2>2. QED BY <1>1, <1>2, <2>1, FeesAre
<1>4. \A j \in Lots : FilledLots(j)' = FilledLots(j) BY <1>1 DEF FilledLots
<1>5. UNCHANGED <<positions, trades, balance>> BY DEF CancelOrder
<1>6. QED BY <1>3, <1>4, <1>5 DEF Books

(* What is closed of a position leaves the positions. *)
LEMMA VolumeLeft ==
    ASSUME TypeOK, NEW k \in DOMAIN positions, NEW v \in 1..positions[k].volume,
           NEW left \in Reduced(k, v), NEW i \in Lots
    PROVE  VolumeIn(left, i) = VolumeIn(positions, i)
                                  - (IF positions[k].id = i THEN v ELSE 0)
<1>1. positions \in Seq(PositionRecord) /\ positions[k] \in PositionRecord BY DEF TypeOK
<1>2. CASE v = positions[k].volume
  <2> DEFINE S == {k}
             D == DOMAIN positions
  <2>1. PICK rest \in Ascending(D \ S) : left = Chosen(positions, rest)
    BY <1>2 DEF Reduced
  <2>2. S \in SUBSET D /\ D \ S \in SUBSET D OBVIOUS
  <2>3. VolumeIn(left, i) = SumFunctionOnSet(Parts(positions, i), D \ S)
    BY <1>1, <2>1, <2>2, VolumeChosen DEF Records
  <2>4. /\ VolumeIn(positions, i) = SumFunctionOnSet(Parts(positions, i), S)
                                     + SumFunctionOnSet(Parts(positions, i), D \ S)
        /\ SumFunctionOnSet(Parts(positions, i), D \ S) \in Int
        /\ SumFunctionOnSet(Parts(positions, i), S) \in Int
    BY <1>1, <2>2, VolumeSplit DEF Records
  <2>5. SumFunctionOnSet(Parts(positions, i), S) = IF positions[k].id = i THEN v ELSE 0
    <3>1. Parts(positions, i)[k] \in Int BY <1>1, PartsAre DEF Records
    <3>2. SumFunctionOnSet(Parts(positions, i), S) = Parts(positions, i)[k]
      BY <3>1, SumOfOne
    <3>3. QED BY <1>2, <3>2 DEF Parts, Part
  <2> HIDE DEF S, D
  <2>6. QED BY <2>3, <2>4, <2>5
<1>3. CASE v # positions[k].volume
  <2> DEFINE p == positions[k]
             less == [p EXCEPT !.volume = p.volume - v]
  <2>1. /\ less \in PositionRecord /\ less.id = p.id /\ less.volume = p.volume - v
        /\ p.volume \in Nat /\ v \in Nat /\ v < p.volume
    BY <1>3, LessIs
  <2>3. left = [positions EXCEPT ![k] = less] BY <1>3 DEF Reduced
  <2> HIDE DEF less
  <2>4. VolumeIn(left, i) = VolumeIn(positions, i) - Part(p, i) + Part(less, i)
    BY <1>1, <2>1, <2>3, VolumeChanged DEF Records
  <2>5. VolumeIn(positions, i) \in Int BY <1>1, PartsAre DEF Records
  <2>6. /\ Part(p, i) = IF p.id = i THEN p.volume ELSE 0
        /\ Part(less, i) = IF p.id = i THEN p.volume - v ELSE 0
    BY <2>1 DEF Part
  <2>7. VolumeIn(left, i) = VolumeIn(positions, i) - (IF p.id = i THEN v ELSE 0)
    <3> HIDE DEF p
    <3>1. CASE p.id = i BY <2>1, <2>4, <2>5, <2>6, <3>1 DEF Lots
    <3>2. CASE p.id # i BY <2>4, <2>5, <2>6, <3>2
    <3>3. QED BY <3>1, <3>2
  <2>8. QED BY <2>7
<1>4. QED BY <1>2, <1>3

LEMMA CloseBooks ==
    ASSUME TypeOK, Books, NEW k \in DOMAIN positions, NEW v \in 1..positions[k].volume,
           NEW close \in Int, NEW why \in {"strategy", "end"}, Close(k, v, close, why),
           UNCHANGED orders
    PROVE  Books'
<1> DEFINE t == Trade(positions[k], v, close, why)
<1>1. positions[k] \in PositionRecord /\ v \in Lots
  <2>1. positions[k] \in PositionRecord BY DEF TypeOK
  <2>2. positions[k].volume \in Lots BY <2>1 DEF PositionRecord
  <2>3. QED BY <2>1, <2>2 DEF Lots
<1>2. t \in TradeRecord BY <1>1, TradeIs
<1>3. t.id = positions[k].id /\ t.volume = v BY DEF Trade
<1>4. trades' = Append(trades, t) /\ balance' = balance + t.net /\ positions' \in Reduced(k, v)
  BY DEF Close
<1> HIDE DEF t
<1>5. trades \in Seq(TradeRecord) /\ orders \in Seq(OrderRecord)
      /\ positions \in Seq(PositionRecord) /\ balance \in Int /\ InitialBalance \in Int
  BY Constants DEF TypeOK
<1>6. NetIn(trades') = NetIn(trades) + t.net BY <1>2, <1>4, <1>5, NetsAppended
<1>7. balance' = InitialBalance - FeesIn(orders') + NetIn(trades')
  <2>1. t.net \in Int BY <1>2 DEF TradeRecord
  <2>2. FeesIn(orders) \in Int /\ NetIn(trades) \in Int BY <1>5, FeesAre, NetsAre
  <2>3. balance = InitialBalance - FeesIn(orders) + NetIn(trades) BY DEF Books
  <2>4. QED BY <1>4, <1>5, <1>6, <2>1, <2>2, <2>3
<1>8. ASSUME NEW i \in Lots
      PROVE  VolumeIn(trades', i) + VolumeIn(positions', i) = FilledLots(i)'
  <2> DEFINE gone == IF positions[k].id = i THEN v ELSE 0
  <2>1. VolumeIn(trades', i) = VolumeIn(trades, i) + gone
    BY <1>2, <1>3, <1>4, <1>5, VolumeAppended DEF Records, Part
  <2>2. VolumeIn(positions', i) = VolumeIn(positions, i) - gone BY <1>4, VolumeLeft
  <2>3. gone \in Int BY <1>1 DEF Lots
  <2>4. VolumeIn(trades, i) \in Int /\ VolumeIn(positions, i) \in Int
    BY <1>5, PartsAre DEF Records
  <2>5. FilledLots(i)' = FilledLots(i) BY DEF FilledLots
  <2> HIDE DEF gone
  <2>6. VolumeIn(trades, i) + VolumeIn(positions, i) = FilledLots(i) BY DEF Books
  <2>7. QED BY <2>1, <2>2, <2>3, <2>4, <2>5, <2>6
<1>9. QED BY <1>7, <1>8 DEF Books

LEMMA ModifyBooks ==
    ASSUME TypeOK, Books, NEW k \in DOMAIN positions, NEW c \in Changes, ModifyPosition(k, c)
    PROVE  Books'
<1>1. UNCHANGED <<orders, trades, balance>> BY DEF ModifyPosition
<1>2. \A i \in Lots : VolumeIn(positions', i) = VolumeIn(positions, i)
  BY ModifyIs, VolumeSame
<1>3. QED BY <1>1, <1>2 DEF Books, FilledLots

(* An order that is filled turns into a position of as many lots, and the  *)
(* commission is paid; one that is refused leaves the account alone.       *)
LEMMA FillBooks ==
    ASSUME TypeOK, Books, NEW i \in DOMAIN orders, NEW price \in Int, Fill(i, price),
           orders[i].state = "pending", UNCHANGED trades
    PROVE  Books'
<1> DEFINE o == orders[i]
           new == [id |-> i, side |-> o.side, volume |-> o.volume, open |-> price,
                   sl |-> o.sl, tp |-> o.tp, trail |-> None, extreme |-> None,
                   since |-> bar]
           filled == [o EXCEPT !.state = "filled", !.filled = price, !.done = bar]
           refused == [o EXCEPT !.state = "rejected"]
           fee == Commission(price, o.volume)
<1>1. /\ o \in OrderRecord /\ i \in Lots /\ bar \in Nat /\ balance \in Int
      /\ orders \in Seq(OrderRecord) /\ positions \in Seq(PositionRecord)
      /\ trades \in Seq(TradeRecord) /\ InitialBalance \in Int
  BY CandleIs, Constants DEF TypeOK, Lots
<1>2. o.volume \in Lots /\ o.state = "pending" BY <1>1 DEF OrderRecord
<1>3. FeesIn(orders) \in Int /\ NetIn(trades) \in Int BY <1>1, FeesAre, NetsAre
<1>4. /\ balance = InitialBalance - FeesIn(orders) + NetIn(trades)
      /\ \A j \in Lots : VolumeIn(trades, j) + VolumeIn(positions, j) = FilledLots(j)
  BY DEF Books
<1>5. /\ orders' \in Seq(OrderRecord) /\ DOMAIN orders' = DOMAIN orders
      /\ \A j \in DOMAIN orders : j # i => orders'[j] = orders[j]
  BY FillIs
<1>6. FeesIn(orders') = FeesIn(orders) + Fee(orders'[i])
  <2>1. FeesIn(orders') = FeesIn(orders) - Fee(orders[i]) + Fee(orders'[i])
    BY <1>1, <1>5, FeesChanged
  <2>2. Fee(orders[i]) = 0 BY <1>2 DEF Fee
  <2>3. Fee(orders'[i]) \in Int
    <3>1. Fees(orders')[i] \in Int BY <1>5, FeesAre
    <3>2. QED BY <1>5, <3>1 DEF Fees
  <2>4. QED BY <1>3, <2>1, <2>2, <2>3
<1>7. CASE /\ orders' = [orders EXCEPT ![i].state = "filled", ![i].filled = price,
                                        ![i].done = bar]
           /\ positions' = Append(positions, new)
           /\ balance' = balance - fee
  <2>1. orders' = [orders EXCEPT ![i] = filled] BY <1>7
  <2>2. filled.state = "filled" /\ filled.filled = price /\ filled.volume = o.volume
    <3> HIDE DEF o
    <3>1. QED BY <1>1 DEF OrderRecord
  <2>3. orders'[i] = filled
    <3> HIDE DEF filled
    <3>1. QED BY <1>1, <2>1
  <2>4. Fee(orders'[i]) = fee
    <3> HIDE DEF filled, o
    <3>1. QED BY <2>2, <2>3 DEF Fee
  <2>5. fee \in Int
    <3> HIDE DEF o
    <3>1. o.volume \in Int BY <1>2 DEF Lots
    <3>2. QED BY <3>1, CommissionIsInt
  <2>6. balance' = InitialBalance - FeesIn(orders') + NetIn(trades')
    <3> HIDE DEF fee
    <3>1. QED BY <1>1, <1>3, <1>4, <1>6, <1>7, <2>4, <2>5
  <2>7. new \in PositionRecord /\ new.id = i /\ new.volume = o.volume
    BY <1>1 DEF PositionRecord, OrderRecord, None
  <2>8. ASSUME NEW j \in Lots
        PROVE  VolumeIn(trades', j) + VolumeIn(positions', j) = FilledLots(j)'
    <3> DEFINE more == IF j = i THEN o.volume ELSE 0
    <3> HIDE DEF new, o, filled
    <3>1. Part(new, j) = more BY <2>7 DEF Part
    <3>2. VolumeIn(positions', j) = VolumeIn(positions, j) + more
      <4>1. VolumeIn(Append(positions, new), j) = VolumeIn(positions, j) + Part(new, j)
        BY <1>1, <2>7, VolumeAppended DEF Records
      <4>2. QED BY <1>7, <3>1, <4>1
    <3>3. FilledLots(j)' = FilledLots(j) + more
      <4>1. CASE j = i
        <5>1. FilledLots(j) = 0 BY <1>2, <4>1 DEF FilledLots, o
        <5>2. FilledLots(j)' = o.volume BY <1>5, <2>2, <2>3, <4>1 DEF FilledLots
        <5>3. QED BY <1>2, <4>1, <5>1, <5>2 DEF Lots
      <4>2. CASE j # i
        <5>1. FilledLots(j)' = FilledLots(j) BY <1>5, <4>2 DEF FilledLots
        <5>2. FilledLots(j) \in Int
          <6>1. j \in DOMAIN orders => orders[j] \in OrderRecord BY <1>1
          <6>2. QED BY <6>1 DEF FilledLots, OrderRecord, Lots
        <5>3. QED BY <4>2, <5>1, <5>2
      <4>3. QED BY <4>1, <4>2
    <3>4. VolumeIn(trades, j) \in Int /\ VolumeIn(positions, j) \in Int /\ more \in Int
      BY <1>1, <1>2, PartsAre DEF Records, Lots
    <3> HIDE DEF more
    <3>5. QED BY <1>4, <3>2, <3>3, <3>4
  <2>9. QED BY <2>6, <2>8 DEF Books
<1>8. CASE /\ orders' = [orders EXCEPT ![i].state = "rejected"]
           /\ UNCHANGED <<positions, balance>>
  <2>1. orders' = [orders EXCEPT ![i] = refused] BY <1>8
  <2>2. refused.state = "rejected"
    <3> HIDE DEF o
    <3>1. QED BY <1>1 DEF OrderRecord
  <2> HIDE DEF refused, o
  <2>3. orders'[i].state = "rejected" BY <1>1, <2>1, <2>2
  <2>4. Fee(orders'[i]) = 0 BY <2>3 DEF Fee
  <2>5. balance' = InitialBalance - FeesIn(orders') + NetIn(trades')
    BY <1>3, <1>4, <1>6, <1>8, <2>4
  <2>6. \A j \in Lots : FilledLots(j)' = FilledLots(j)
    BY <1>2, <1>5, <2>3 DEF FilledLots, o
  <2>7. QED BY <1>4, <1>8, <2>5, <2>6 DEF Books
<1>9. QED BY <1>7, <1>8 DEF Fill

LEMMA BarBooks == ASSUME TypeOK, Books, BarCloses PROVE Books'
<1>1. PICK trailed, hit, out, kept, exits : BarSplits(trailed, hit, out, kept, exits)
  BY BarSplit
<1> USE DEF BarSplits
<1>2. /\ trades \in Seq(TradeRecord) /\ positions \in Seq(PositionRecord)
      /\ orders \in Seq(OrderRecord) /\ InitialBalance \in Int
  BY Constants DEF TypeOK
<1>3. balance' = InitialBalance - FeesIn(orders') + NetIn(trades')
  <2>1. NetIn(trades') = NetIn(trades) + NetIn(exits) BY <1>1, <1>2, NetsConcatenated
  <2>2. balance' = balance + NetIn(exits) BY <1>1
  <2>3. NetIn(trades) \in Int /\ NetIn(exits) \in Int /\ FeesIn(orders) \in Int
    BY <1>1, <1>2, NetsAre, FeesAre
  <2>4. balance = InitialBalance - FeesIn(orders) + NetIn(trades) BY DEF Books
  <2>5. orders' = orders BY DEF BarCloses
  <2>6. QED BY <1>2, <2>1, <2>2, <2>3, <2>4, <2>5
<1>4. ASSUME NEW i \in Lots
      PROVE  VolumeIn(trades', i) + VolumeIn(positions', i) = FilledLots(i)'
  <2> DEFINE gone == SumFunctionOnSet(Parts(trailed, i), hit)
             held == SumFunctionOnSet(Parts(trailed, i), DOMAIN trailed \ hit)
  <2>1. VolumeIn(trailed, i) = VolumeIn(positions, i) BY <1>1, VolumeSame
  <2>2. VolumeIn(trailed, i) = gone + held /\ gone \in Int /\ held \in Int
    BY <1>1, VolumeSplit DEF Records
  <2>3. VolumeIn(exits, i) = gone
    <3>1. VolumeIn(exits, i) = VolumeIn(Chosen(trailed, out), i) BY <1>1, VolumeSame
    <3>2. VolumeIn(Chosen(trailed, out), i) = gone BY <1>1, VolumeChosen DEF Records
    <3>3. QED BY <3>1, <3>2
  <2>4. VolumeIn(positions', i) = held
    <3>1. DOMAIN trailed \ hit \in SUBSET DOMAIN trailed OBVIOUS
    <3>2. VolumeIn(Chosen(trailed, kept), i) = held BY <1>1, <3>1, VolumeChosen DEF Records
    <3>3. QED BY <1>1, <3>2
  <2>5. VolumeIn(trades', i) = VolumeIn(trades, i) + VolumeIn(exits, i)
    BY <1>1, <1>2, VolumeConcatenated DEF Records
  <2>6. VolumeIn(trades, i) + VolumeIn(positions, i) = FilledLots(i)
        /\ VolumeIn(trades, i) \in Int
    BY <1>2, PartsAre DEF Books, Records
  <2>7. FilledLots(i)' = FilledLots(i) BY DEF BarCloses, FilledLots
  <2> HIDE DEF gone, held
  <2>8. QED BY <2>1, <2>2, <2>3, <2>4, <2>5, <2>6, <2>7
<1>5. QED BY <1>3, <1>4 DEF Books

(* When the replay is over no position is left, and none can come.         *)
NoneLeft == at = "done" => positions = <<>>

LEMMA BooksStep ==
    ASSUME TypeOK, Books, [Next]_vars
    PROVE  Books'
<1>1. ASSUME NEW r \in Requests, PlaceOrder(r) PROVE Books' BY <1>1, PlaceBooks
<1>2. ASSUME NEW i \in DOMAIN orders, CancelOrder(i) PROVE Books' BY <1>2, CancelBooks
<1>3. ASSUME NEW k \in DOMAIN positions, NEW v \in 1..positions[k].volume,
             ClosePosition(k, v)
      PROVE  Books'
  BY <1>3, ClosingPrice, CloseBooks DEF ClosePosition
<1>4. ASSUME NEW k \in DOMAIN positions, NEW c \in Changes, ModifyPosition(k, c)
      PROVE  Books'
  BY <1>4, ModifyBooks
<1>5. CASE UNCHANGED <<orders, positions, trades, balance>>
  BY <1>5 DEF Books, FilledLots
<1>6. CASE OpeningFill
  <2>1. Head(queue) \in DOMAIN orders BY <1>6, OpeningFillIs
  <2>2. CASE orders[Head(queue)].state = "pending"
    <3>1. PICK price \in Int : Fill(Head(queue), price) BY <1>6, <2>2, OpeningFillIs
    <3>2. UNCHANGED trades BY <1>6 DEF OpeningFill
    <3>3. QED BY <2>1, <2>2, <3>1, <3>2, FillBooks
  <2>3. CASE orders[Head(queue)].state # "pending"
    BY <1>5, <1>6, <2>3 DEF OpeningFill
  <2>4. QED BY <2>2, <2>3
<1>7. CASE RestingFill
  <2>1. UNCHANGED trades BY <1>7 DEF RestingFill
  <2>2. PICK price \in Int : SettleOne(Head(todo), price) BY <1>7, RestingFillIs
  <2>3. Head(todo) \in DOMAIN orders BY <1>7, RestingFillIs
  <2>4. QED BY <1>5, <2>1, <2>2, <2>3, FillBooks DEF SettleOne
<1>8. CASE BarCloses BY <1>8, BarBooks
<1>9. CASE CloseLeft
  <2>1. 1 \in DOMAIN positions BY <1>9 DEF CloseLeft, TypeOK
  <2>2. QED BY <1>9, <2>1, ClosingPrice, CloseBooks DEF CloseLeft
<1>10. QED
  BY <1>1, <1>2, <1>3, <1>4, <1>5, <1>6, <1>7, <1>8, <1>9
  DEF Next, Strategy, Replay, vars, book, HookReturns, HookRaises, OpeningDone, NextBar,
      RunnerStops

LEMMA NoneLeftStep ==
    ASSUME TypeOK, NoneLeft, [Next]_vars
    PROVE  NoneLeft'
<1>1. SUFFICES ASSUME at' = "done" PROVE positions' = <<>> BY DEF NoneLeft
<1>2. CASE RunnerStops BY <1>2 DEF RunnerStops, book
<1>3. CASE at = "done" /\ ~ RunnerStops
  <2>1. positions = <<>> /\ DOMAIN positions = {} BY <1>3 DEF NoneLeft
  <2>2. CASE Strategy
    BY <2>1, <2>2 DEF Strategy, PlaceOrder, CancelOrder, HookReturns, HookRaises, book
  <2>3. CASE Replay
    BY <1>3, <2>3 DEF Replay, OpeningFill, OpeningDone, RestingFill, BarCloses, NextBar,
                      CloseLeft
  <2>4. CASE UNCHANGED vars BY <2>1, <2>4 DEF vars
  <2>5. QED BY <2>2, <2>3, <2>4 DEF Next
<1>4. CASE at # "done" /\ ~ RunnerStops
  BY <1>1, <1>4 DEF Next, Strategy, Replay, vars, PlaceOrder, CancelOrder, ClosePosition,
     ModifyPosition, HookReturns, HookRaises, OpeningFill, OpeningDone, RestingFill,
     BarCloses, NextBar, CloseLeft
<1>5. QED BY <1>2, <1>3, <1>4

LEMMA InitBooks == Init => Books /\ NoneLeft
<1> SUFFICES ASSUME Init PROVE Books /\ NoneLeft OBVIOUS
<1>1. /\ orders = <<>> /\ trades = <<>> /\ positions = <<>>
      /\ balance = InitialBalance /\ at = "start"
  BY DEF Init
<1> DEFINE empty == <<>>
<1>2. DOMAIN empty = {} OBVIOUS
<1> HIDE DEF empty
<1>3. FeesIn(empty) = 0 /\ NetIn(empty) = 0 /\ \A i \in Lots : VolumeIn(empty, i) = 0
  BY <1>2, SumOfNone DEF FeesIn, NetIn, VolumeIn
<1>4. orders = empty /\ trades = empty /\ positions = empty BY <1>1 DEF empty
<1>5. \A i \in Lots : FilledLots(i) = 0 BY <1>2, <1>4 DEF FilledLots
<1>6. balance = InitialBalance - FeesIn(orders) + NetIn(trades)
  BY <1>1, <1>3, <1>4, Constants
<1>7. \A i \in Lots : VolumeIn(trades, i) + VolumeIn(positions, i) = FilledLots(i)
  BY <1>3, <1>4, <1>5
<1>8. QED BY <1>1, <1>6, <1>7 DEF Books, NoneLeft

(* The trades that won, the trades that lost and the rest are all trades.  *)
LEMMA ProfitIs == ASSUME TypeOK, Books PROVE ProfitExplained
<1> DEFINE D    == DOMAIN trades
           won  == {k \in D : Nets[k] > 0}
           lost == {k \in D : Nets[k] < 0}
           even == {k \in D : Nets[k] = 0}
           some == won \cup lost
<1>1. trades \in Seq(TradeRecord) /\ orders \in Seq(OrderRecord) BY DEF TypeOK
<1>2. /\ IsFiniteSet(D) /\ NetIn(trades) = SumFunctionOnSet(Nets, D)
      /\ \A k \in D : Nets[k] \in Int
  BY <1>1, NetsAre DEF NetIn, NetsOf, Nets
<1>3. IsFiniteSet(won) /\ IsFiniteSet(lost) /\ IsFiniteSet(even)
  <2>1. won \subseteq D /\ lost \subseteq D /\ even \subseteq D OBVIOUS
  <2> HIDE DEF won, lost, even, D
  <2>2. QED BY <1>2, <2>1, FS_Subset
<1>4. won \cap lost = {} /\ some \cap even = {} /\ D = some \cup even BY <1>2
<1>5. \A k \in won \cup lost : Nets[k] \in Int BY <1>2
<1>6. \A k \in some \cup even : Nets[k] \in Int BY <1>2
<1>7. \A k \in even : Nets[k] = 0 OBVIOUS
<1>8. Metrics.gross_profit = SumFunctionOnSet(Nets, won)
      /\ Metrics.gross_loss = -SumFunctionOnSet(Nets, lost)
      /\ Metrics.net_profit = balance - InitialBalance
  BY DEF Metrics
<1>9. OpeningCommissions = FeesIn(orders)
  BY TotalIs DEF OpeningCommissions, Total, FeesIn, Fees, Fee
<1> HIDE DEF won, lost, even, D
<1>10. SumFunctionOnSet(Nets, some)
         = SumFunctionOnSet(Nets, won) + SumFunctionOnSet(Nets, lost)
  BY <1>3, <1>4, <1>5, SumSplit
<1>11. IsFiniteSet(some) BY <1>3, FS_Union
<1> HIDE DEF some
<1>12. SumFunctionOnSet(Nets, some \cup even)
         = SumFunctionOnSet(Nets, some) + SumFunctionOnSet(Nets, even)
  BY <1>3, <1>4, <1>6, <1>11, SumSplit
<1>13. SumFunctionOnSet(Nets, even) = 0 BY <1>3, <1>7, SumOfZeros
<1>14. SumFunctionOnSet(Nets, won) \in Int /\ SumFunctionOnSet(Nets, lost) \in Int
  BY <1>3, <1>5, SumIsInt
<1>15. NetIn(trades) = SumFunctionOnSet(Nets, won) + SumFunctionOnSet(Nets, lost)
  BY <1>2, <1>4, <1>10, <1>12, <1>13, <1>14
<1>16. balance = InitialBalance - FeesIn(orders) + NetIn(trades) BY DEF Books
<1>17. FeesIn(orders) \in Int /\ InitialBalance \in Int BY <1>1, FeesAre, Constants
<1>18. QED
  BY <1>8, <1>9, <1>14, <1>15, <1>16, <1>17 DEF ProfitExplained

-----------------------------------------------------------------------------
(* The drawdown.  The pass over the curve is a recursive function, which   *)
(* is there for every curve: by induction on the number of points up to    *)
(* which its equation holds.                                               *)

Walked(walk, c, k) ==
    LET peak == IF k = 1 THEN c[1] ELSE Max({walk[k - 1].peak, c[k]})
        dd   == IF k = 1 THEN 0 ELSE walk[k - 1].dd
    IN  [peak |-> peak, dd |-> IF peak > 0 THEN Max({dd, peak - c[k]}) ELSE dd]

Walks(walk, c) == walk = [k \in DOMAIN c |-> Walked(walk, c, k)]

LEMMA DrawdownIs ==
    MaxDrawdown = IF curve = <<>> THEN 0
                  ELSE (CHOOSE walk : Walks(walk, curve))[Len(curve)].dd
BY DEF MaxDrawdown, Walks, Walked

LEMMA WalkExists ==
    ASSUME NEW c, NEW n \in Nat, DOMAIN c = 1..n
    PROVE  \E walk : Walks(walk, c)
<1> DEFINE Upto(walk, m) == \A k \in 1..n : k <= m => walk[k] = Walked(walk, c, k)
           Good == {m \in Nat : \E walk : Upto(walk, m)}
<1>1. 0 \in Good OBVIOUS
<1>2. ASSUME NEW m \in Nat, m \in Good PROVE m + 1 \in Good
  <2>1. PICK walk : Upto(walk, m) BY <1>2
  <2> DEFINE next == [k \in 1..n |-> Walked(walk, c, k)]
  <2>2. \A k \in 1..n : k <= m => next[k] = walk[k] BY <2>1
  <2>3. ASSUME NEW k \in 1..n, k <= m + 1 PROVE next[k] = Walked(next, c, k)
    <3>1. next[k] = Walked(walk, c, k) OBVIOUS
    <3> HIDE DEF next
    <3>2. CASE k = 1 BY <3>1, <3>2 DEF Walked
    <3>3. CASE k # 1
      <4>1. k - 1 \in 1..n /\ k - 1 <= m BY <2>3, <3>3
      <4>2. next[k - 1] = walk[k - 1] BY <2>2, <4>1
      <4>3. QED BY <3>1, <4>2 DEF Walked
    <3>4. QED BY <3>2, <3>3
  <2> HIDE DEF next
  <2>4. Upto(next, m + 1) BY <2>3
  <2>5. QED BY <2>4
<1> HIDE DEF Good
<1>3. \A m \in Nat : m \in Good BY <1>1, <1>2, Induction
<1> USE DEF Good
<1>4. PICK walk : Upto(walk, n) BY <1>3
<1> DEFINE result == [k \in 1..n |-> walk[k]]
<1>5. ASSUME NEW k \in 1..n PROVE result[k] = Walked(result, c, k)
  <2>1. walk[k] = Walked(walk, c, k) BY <1>4
  <2>2. result[k] = walk[k] /\ (k # 1 => result[k - 1] = walk[k - 1]) OBVIOUS
  <2> HIDE DEF result
  <2>3. QED BY <2>1, <2>2 DEF Walked
<1>6. Walks(result, c)
  <2>1. DOMAIN result = 1..n /\ result = [k \in 1..n |-> result[k]] OBVIOUS
  <2> HIDE DEF result
  <2>2. QED BY <1>5, <2>1 DEF Walks
<1>7. QED BY <1>6

(* Max of a set that has a greatest member is that member. *)
LEMMA MaxIs ==
    ASSUME NEW S, S \subseteq Int, NEW m \in S, \A x \in S : m >= x
    PROVE  Max(S) = m
<1>1. Max(S) \in S /\ \A x \in S : Max(S) >= x BY DEF Max
<1>2. Max(S) >= m /\ m >= Max(S) BY <1>1
<1>3. Max(S) \in Int /\ m \in Int BY <1>1
<1>4. QED BY <1>2, <1>3

LEMMA MaxOfTwo ==
    ASSUME NEW a \in Int, NEW b \in Int
    PROVE  Max({a, b}) \in {a, b} /\ Max({a, b}) >= a /\ Max({a, b}) >= b
<1>1. CASE a >= b
  <2>1. Max({a, b}) = a BY <1>1, MaxIs
  <2>2. QED BY <1>1, <2>1
<1>2. CASE b >= a
  <2>1. Max({a, b}) = b BY <1>2, MaxIs
  <2>2. QED BY <1>2, <2>1
<1>3. QED BY <1>1, <1>2

(* Up to point k: the peak is the highest point and dd the largest decline *)
(* to it, from a point above zero.                                         *)
Seen(w, c, k) ==
    /\ w.peak \in Int /\ \A i \in 1..k : c[i] <= w.peak
    /\ \E i \in 1..k : w.peak = c[i]
    /\ w.dd \in Int /\ w.dd >= 0
    /\ \A j \in 1..k : \A i \in 1..j : c[i] > 0 => c[i] - c[j] <= w.dd
    /\ w.dd = 0 \/ \E j \in 1..k : \E i \in 1..j :
                       i < j /\ c[i] > 0 /\ w.dd = c[i] - c[j]

LEMMA SeenNext ==
    ASSUME NEW n \in Nat, NEW c \in [1..n -> Int], NEW walk, NEW k \in Nat, k >= 1,
           k + 1 <= n, Seen(walk[k], c, k), walk[k + 1] = Walked(walk, c, k + 1)
    PROVE  Seen(walk[k + 1], c, k + 1)
<1> DEFINE w == walk[k]
           new == walk[k + 1]
           x == c[k + 1]
           peak == Max({w.peak, x})
<1>1. /\ x \in Int /\ \A i \in 1..k : c[i] \in Int /\ i \in 1..(k + 1)
      /\ k + 1 # 1 /\ k + 1 - 1 = k
      /\ \A i \in 1..(k + 1) : i \in 1..k \/ i = k + 1
  OBVIOUS
<1>2. new = [peak |-> peak, dd |-> IF peak > 0 THEN Max({w.dd, peak - x}) ELSE w.dd]
  BY <1>1 DEF Walked
<1>3. new.peak = peak /\ new.dd = IF peak > 0 THEN Max({w.dd, peak - x}) ELSE w.dd
  <2> HIDE DEF peak, new
  <2>1. QED BY <1>2
<1>4. /\ w.peak \in Int /\ \A i \in 1..k : c[i] <= w.peak
      /\ \E i \in 1..k : w.peak = c[i]
      /\ w.dd \in Int /\ w.dd >= 0
      /\ \A j \in 1..k : \A i \in 1..j : c[i] > 0 => c[i] - c[j] <= w.dd
      /\ w.dd = 0 \/ \E j \in 1..k : \E i \in 1..j :
                         i < j /\ c[i] > 0 /\ w.dd = c[i] - c[j]
  BY DEF Seen
<1> HIDE DEF w, new
<1>5. peak \in {w.peak, x} /\ peak >= w.peak /\ peak >= x /\ peak \in Int
  BY <1>1, <1>4, MaxOfTwo
<1> HIDE DEF peak
<1>6. /\ new.dd \in Int /\ new.dd >= w.dd /\ (peak > 0 => new.dd >= peak - x)
      /\ new.dd = w.dd \/ (peak > 0 /\ new.dd = peak - x)
  <2>1. CASE peak > 0
    <3>1. new.dd = Max({w.dd, peak - x}) BY <1>3, <2>1
    <3>2. peak - x \in Int BY <1>1, <1>5
    <3>3. QED BY <1>4, <2>1, <3>1, <3>2, MaxOfTwo
  <2>2. CASE ~ (peak > 0) BY <1>3, <1>4, <2>2
  <2>3. QED BY <2>1, <2>2
<1>7. \A i \in 1..(k + 1) : c[i] <= peak BY <1>1, <1>4, <1>5
<1>8. \E i \in 1..(k + 1) : peak = c[i] BY <1>1, <1>4, <1>5
<1>9. ASSUME NEW j \in 1..(k + 1), NEW i \in 1..j, c[i] > 0
      PROVE  c[i] - c[j] <= new.dd
  <2>1. CASE j \in 1..k
    <3>1. c[i] - c[j] <= w.dd BY <1>4, <1>9, <2>1
    <3>2. c[i] \in Int /\ c[j] \in Int BY <1>1, <2>1
    <3>3. w.dd \in Int /\ new.dd \in Int /\ new.dd >= w.dd BY <1>4, <1>6
    <3>4. QED BY <3>1, <3>2, <3>3
  <2>2. CASE j = k + 1
    <3>1. i \in 1..(k + 1) /\ c[i] \in Int BY <1>1, <2>2
    <3>2. c[i] <= peak BY <1>7, <3>1
    <3>3. peak > 0 BY <1>5, <1>9, <3>1, <3>2
    <3>4. c[j] = x /\ x \in Int /\ new.dd >= peak - x /\ new.dd \in Int
      BY <1>1, <1>6, <2>2, <3>3
    <3>5. QED
      <4> HIDE DEF x
      <4>1. QED BY <1>5, <3>1, <3>2, <3>4
  <2>3. QED BY <1>1, <2>1, <2>2
<1>10. new.dd = 0 \/ \E j \in 1..(k + 1) : \E i \in 1..j :
                        i < j /\ c[i] > 0 /\ new.dd = c[i] - c[j]
  <2>1. CASE new.dd = w.dd BY <1>1, <1>4, <2>1
  <2>2. CASE peak > 0 /\ new.dd = peak - x
    <3>1. PICK i \in 1..(k + 1) : peak = c[i] BY <1>8
    <3>2. CASE i = k + 1 BY <1>1, <2>2, <3>1, <3>2
    <3>3. CASE i \in 1..k
      <4>1. i < k + 1 /\ k + 1 \in 1..(k + 1) /\ i \in 1..(k + 1) BY <3>3
      <4>2. QED BY <2>2, <3>1, <4>1
    <3>4. QED BY <1>1, <3>2, <3>3
  <2>3. QED BY <1>6, <2>1, <2>2
<1>11. /\ new.peak \in Int /\ \A i \in 1..(k + 1) : c[i] <= new.peak
       /\ \E i \in 1..(k + 1) : new.peak = c[i] /\ new.dd >= 0
  BY <1>3, <1>4, <1>5, <1>6, <1>7, <1>8
<1>12. Seen(new, c, k + 1) BY <1>6, <1>9, <1>10, <1>11 DEF Seen
<1>13. QED BY <1>12 DEF new

LEMMA WalkSeen ==
    ASSUME NEW n \in Nat, n >= 1, NEW c \in [1..n -> Int], NEW walk, Walks(walk, c)
    PROVE  Seen(walk[n], c, n)
<1>1. \A k \in 1..n : walk[k] = Walked(walk, c, k) BY DEF Walks
<1> DEFINE Good == {m \in Nat : m + 1 <= n => Seen(walk[m + 1], c, m + 1)}
<1>2. 0 \in Good
  <2>1. c[1] \in Int /\ walk[1] = Walked(walk, c, 1) BY <1>1
  <2>2. walk[1] = [peak |-> c[1],
                   dd |-> IF c[1] > 0 THEN Max({0, c[1] - c[1]}) ELSE 0]
    BY <2>1 DEF Walked
  <2>3. Max({0, c[1] - c[1]}) = 0
    <3>1. {0, c[1] - c[1]} = {0} BY <2>1
    <3>2. Max({0}) = 0 BY MaxIs
    <3>3. QED BY <3>1, <3>2
  <2>4. walk[1].peak = c[1] /\ walk[1].dd = 0 BY <2>2, <2>3
  <2>5. Seen(walk[1], c, 1) BY <2>1, <2>4 DEF Seen
  <2>6. 0 + 1 = 1 OBVIOUS
  <2>7. QED BY <2>5, <2>6
<1>3. ASSUME NEW m \in Nat, m \in Good PROVE m + 1 \in Good
  <2>1. SUFFICES ASSUME m + 1 + 1 <= n PROVE Seen(walk[m + 1 + 1], c, m + 1 + 1)
    OBVIOUS
  <2> DEFINE k == m + 1
  <2>2. k \in Nat /\ k >= 1 /\ k + 1 <= n /\ k + 1 \in 1..n BY <2>1
  <2>3. Seen(walk[k], c, k) BY <1>3, <2>1
  <2>4. walk[k + 1] = Walked(walk, c, k + 1) BY <1>1, <2>2
  <2> HIDE DEF k
  <2>5. Seen(walk[k + 1], c, k + 1) BY <2>2, <2>3, <2>4, SeenNext
  <2>6. QED BY <2>5 DEF k
<1> HIDE DEF Good
<1>4. \A m \in Nat : m \in Good BY <1>2, <1>3, Induction
<1>5. n - 1 \in Nat /\ n - 1 + 1 = n OBVIOUS
<1>6. n - 1 \in Good BY <1>4, <1>5
<1>7. Seen(walk[n - 1 + 1], c, n - 1 + 1) BY <1>5, <1>6 DEF Good
<1>8. QED BY <1>5, <1>7

LEMMA DrawdownSays == ASSUME TypeOK PROVE DrawdownIsLargest
<1> DEFINE fall(i, j) == IF i < j /\ curve[i] > 0 THEN curve[i] - curve[j] ELSE 0
           S == {0} \cup {fall(i, j) : i, j \in DOMAIN curve}
<1>1. curve \in Seq(Int) BY DEF TypeOK
<1>2. PICK n \in Nat : n = Len(curve) BY <1>1
<1>3. DOMAIN curve = 1..n /\ curve \in [1..n -> Int] BY <1>1, <1>2
<1>4. S \subseteq Int
  <2>1. \A i, j \in 1..n : fall(i, j) \in Int BY <1>3
  <2> HIDE DEF fall
  <2>2. QED BY <1>3, <2>1
<1>5. MaxDrawdown \in S /\ \A x \in S : MaxDrawdown >= x
  <2>1. CASE curve = <<>>
    <3>1. MaxDrawdown = 0 BY <2>1, DrawdownIs
    <3>2. DOMAIN curve = {} BY <2>1
    <3>3. \A x \in S : x = 0 BY <3>2
    <3>4. QED BY <3>1, <3>3
  <2>2. CASE curve # <<>>
    <3>1. n >= 1 BY <1>1, <1>2, <2>2
    <3> DEFINE walk == CHOOSE w : Walks(w, curve)
    <3>2. Walks(walk, curve)
      <4>1. \E w : Walks(w, curve) BY <1>3, WalkExists
      <4>2. QED BY <4>1
    <3>3. MaxDrawdown = walk[n].dd BY <1>2, <2>2, DrawdownIs
    <3> HIDE DEF walk
    <3>4. Seen(walk[n], curve, n) BY <1>3, <3>1, <3>2, WalkSeen
    <3> DEFINE dd == walk[n].dd
    <3>5. /\ dd \in Int /\ dd >= 0
          /\ \A j \in 1..n : \A i \in 1..j : curve[i] > 0 => curve[i] - curve[j] <= dd
          /\ dd = 0 \/ \E j \in 1..n : \E i \in 1..j :
                           i < j /\ curve[i] > 0 /\ dd = curve[i] - curve[j]
      BY <3>4 DEF Seen
    <3> HIDE DEF dd
    <3>6. dd \in S
      <4>1. CASE dd = 0 BY <4>1
      <4>2. ASSUME NEW j \in 1..n, NEW i \in 1..j,
                   i < j /\ curve[i] > 0 /\ dd = curve[i] - curve[j]
            PROVE  dd \in S
        <5>1. i \in DOMAIN curve /\ j \in DOMAIN curve BY <1>3
        <5>2. dd = fall(i, j) BY <4>2
        <5>3. QED BY <5>1, <5>2
      <4>3. QED BY <3>5, <4>1, <4>2
    <3>7. ASSUME NEW i \in 1..n, NEW j \in 1..n PROVE fall(i, j) <= dd
      <4>1. CASE i < j /\ curve[i] > 0
        <5>1. i \in 1..j BY <4>1
        <5>2. QED BY <3>5, <4>1, <5>1
      <4>2. CASE ~ (i < j /\ curve[i] > 0) BY <3>5, <4>2
      <4>3. QED BY <4>1, <4>2
    <3>8. \A i, j \in 1..n : fall(i, j) \in Int BY <1>3
    <3>9. ASSUME NEW x \in S PROVE dd >= x
      <4>1. x = 0 \/ \E i, j \in 1..n : x = fall(i, j) BY <1>3
      <4> HIDE DEF fall, S
      <4>2. QED BY <3>5, <3>7, <3>8, <4>1
    <3>10. MaxDrawdown = dd BY <3>3 DEF dd
    <3>11. QED BY <3>6, <3>9, <3>10
  <2>3. QED BY <2>1, <2>2
<1>6. Metrics.max_drawdown = MaxDrawdown BY DEF Metrics
<1>7. Max(S) = MaxDrawdown
  <2> HIDE DEF S
  <2>1. QED BY <1>4, <1>5, MaxIs
<1>8. QED BY <1>6, <1>7 DEF DrawdownIsLargest

-----------------------------------------------------------------------------
LEMMA BooksBalanceIs ==
    ASSUME TypeOK, Books, NoneLeft
    PROVE  BooksBalance
<1>1. AccountBalances /\ VolumeBalances BY BooksSay
<1>2. ProfitExplained BY ProfitIs
<1>3. DrawdownIsLargest BY DrawdownSays
<1>4. Finished => positions = <<>> BY DEF Finished, NoneLeft
<1>5. QED BY <1>1, <1>2, <1>3, <1>4 DEF BooksBalance

-----------------------------------------------------------------------------
(* The optimisation.                                                       *)

(* There are finitely many sequences of n members of a finite set. *)
LEMMA FinitelyMany ==
    ASSUME NEW V, IsFiniteSet(V), NEW n \in Nat
    PROVE  IsFiniteSet([1..n -> V])
<1> DEFINE Good == {k \in Nat : IsFiniteSet([1..k -> V])}
<1>1. 0 \in Good
  <2> DEFINE none == [i \in 1..0 |-> i]
  <2>1. 1..0 = {} OBVIOUS
  <2>2. none \in [1..0 -> V] BY <2>1
  <2>3. \A f \in [1..0 -> V] : f = none BY <2>1
  <2>4. [1..0 -> V] = {none} BY <2>2, <2>3
  <2>5. QED BY <2>4, FS_Singleton
<1>2. ASSUME NEW k \in Nat, k \in Good PROVE k + 1 \in Good
  <2> DEFINE S == [1..k -> V] \X V
             T == [1..(k + 1) -> V]
             longer(s) == [i \in 1..(k + 1) |-> IF i = k + 1 THEN s[2] ELSE s[1][i]]
             f == [s \in S |-> longer(s)]
  <2>1. IsFiniteSet(S) BY <1>2, FS_Product
  <2>2. ASSUME NEW s \in S PROVE longer(s) \in T
    <3>1. s[1] \in [1..k -> V] /\ s[2] \in V OBVIOUS
    <3>2. \A i \in 1..(k + 1) : i = k + 1 \/ i \in 1..k OBVIOUS
    <3>3. QED BY <3>1, <3>2
  <2>3. ASSUME NEW t \in T PROVE \E s \in S : longer(s) = t
    <3> DEFINE s == <<[i \in 1..k |-> t[i]], t[k + 1]>>
    <3>1. \A i \in 1..k : i \in 1..(k + 1) OBVIOUS
    <3>2. k + 1 \in 1..(k + 1) OBVIOUS
    <3>3. s \in S BY <3>1, <3>2
    <3>4. s[1] = [i \in 1..k |-> t[i]] /\ s[2] = t[k + 1] OBVIOUS
    <3>5. \A i \in 1..(k + 1) : i = k + 1 \/ i \in 1..k OBVIOUS
    <3> HIDE DEF s
    <3>6. \A i \in 1..(k + 1) : longer(s)[i] = t[i] BY <3>4, <3>5
    <3>7. longer(s) = t BY <3>6
    <3>8. QED BY <3>3, <3>7
  <2> HIDE DEF longer, S, T
  <2>4. f \in Surjection(S, T) BY <2>2, <2>3 DEF Surjection
  <2>5. IsFiniteSet(T) BY <2>1, <2>4, FS_Surjection
  <2>6. QED BY <2>5 DEF T
<1> HIDE DEF Good
<1>3. \A k \in Nat : k \in Good BY <1>1, <1>2, Induction
<1>4. QED BY <1>3 DEF Good

LEMMA ValuesAre ==
    ASSUME NEW range \in ParamRange
    PROVE  Values(range) \in Seq(Int)
<1>1. CASE range \in [kind : {"values"}, values : Seq(Int)] BY <1>1 DEF Values
<1>2. CASE range \in [kind : {"malformed"}] BY <1>2 DEF Values
<1>3. CASE range \in [kind : {"steps"}, start : Int, step : Int, stop : Int]
  <2>1. Values(range) = Arange(range.start, range.step, range.stop) BY <1>3 DEF Values
  <2>2. ASSUME NEW a \in Int, NEW b \in Int, NEW c \in Int PROVE Arange(a, b, c) \in Seq(Int)
    <3> DEFINE n == IF b > 0 THEN (c - a) \div b ELSE (a - c) \div (-b)
    <3>1. CASE b = 0 \/ (c - a) * b < 0 BY <3>1 DEF Arange
    <3>2. CASE ~(b = 0 \/ (c - a) * b < 0)
      <4>1. n \in Int
        <5>1. CASE b > 0
          <6>1. n = (c - a) \div b BY <5>1
          <6>2. c - a \in Int OBVIOUS
          <6>3. QED BY <5>1, <6>1, <6>2
        <5>2. CASE ~(b > 0)
          <6>1. n = (a - c) \div (-b) BY <5>2
          <6>2. a - c \in Int /\ -b \in Int /\ -b > 0 BY <3>2, <5>2
          <6>3. QED BY <6>1, <6>2
        <5>3. QED BY <5>1, <5>2
      <4>2. Arange(a, b, c) = [k \in 1..(n + 1) |-> a + (k - 1) * b] BY <3>2 DEF Arange
      <4> HIDE DEF n
      <4>3. ASSUME NEW k \in 1..(n + 1) PROVE a + (k - 1) * b \in Int
        <5>1. k - 1 \in Int BY <4>1
        <5>2. (k - 1) * b \in Int BY <5>1, ProductIsInt
        <5>3. QED BY <5>2
      <4>4. PICK m \in Nat : 1..(n + 1) = 1..m
        <5>1. CASE n + 1 >= 0 BY <4>1, <5>1
        <5>2. CASE n + 1 < 0
          <6>1. 1..(n + 1) = 1..0 BY <4>1, <5>2
          <6>2. QED BY <6>1
        <5>3. QED BY <4>1, <5>1, <5>2
      <4>5. Arange(a, b, c) \in [1..m -> Int] BY <4>2, <4>3, <4>4
      <4>6. QED BY <4>5, SeqDef
    <3>3. QED BY <3>1, <3>2
  <2>3. QED BY <1>3, <2>1, <2>2
<1>4. QED BY <1>1, <1>2, <1>3 DEF ParamRange

LEMMA PoolsAre == ASSUME OptTypeOK PROVE Pools \in Seq(Seq(Int))
<1>1. ranges \in Seq(ParamRange) BY OptimizerAssumption DEF OptTypeOK
<1>2. PICK n \in Nat : n = Len(ranges) /\ DOMAIN ranges = 1..n BY <1>1
<1>3. \A k \in 1..n : ranges[k] \in ParamRange BY <1>1, <1>2
<1>4. Pools \in [1..n -> Seq(Int)] BY <1>2, <1>3, ValuesAre DEF Pools
<1>5. QED BY <1>4, SeqDef

(* The grid is a sequence of as many combinations as there are choices. *)
LEMMA ProductsAre ==
    ASSUME NEW pools \in Seq(Seq(Int)), NEW grid \in Products(pools)
    PROVE  /\ grid \in Seq(Seq(Int)) /\ Len(grid) = Cardinality(Picks(pools))
           /\ Len(grid) \in Nat
<1> DEFINE S == Picks(pools)
           V == UNION {DOMAIN pools[k] : k \in DOMAIN pools}
<1>1. PICK n \in Nat : n = Len(pools) /\ DOMAIN pools = 1..n OBVIOUS
<1>2. \A k \in 1..n : pools[k] \in Seq(Int) BY <1>1
<1>3. IsFiniteSet(V)
  <2> DEFINE D == {DOMAIN pools[k] : k \in 1..n}
             f == [k \in 1..n |-> DOMAIN pools[k]]
  <2>1. f \in Surjection(1..n, D) BY DEF Surjection
  <2>2. IsFiniteSet(1..n) BY FS_Interval
  <2>3. IsFiniteSet(D) BY <2>1, <2>2, FS_Surjection
  <2>4. ASSUME NEW T \in D PROVE IsFiniteSet(T)
    <3>1. PICK k \in 1..n : T = DOMAIN pools[k] BY <2>4
    <3>2. Len(pools[k]) \in Nat /\ T = 1..Len(pools[k]) BY <1>2, <3>1
    <3>3. QED BY <3>2, FS_Interval
  <2>5. V = UNION D BY <1>1
  <2> HIDE DEF D
  <2>6. QED BY <2>3, <2>4, <2>5, FS_UNION
<1>4. S \subseteq [1..n -> V] BY <1>1 DEF Picks
<1>5. IsFiniteSet([1..n -> V]) BY <1>3, FinitelyMany
<1>6. IsFiniteSet(S) BY <1>4, <1>5, FS_Subset
<1>7. Cardinality(S) \in Nat BY <1>6, FS_CardinalityType
<1>8. PICK order \in Sorted(S, Faster) :
         grid = [g \in DOMAIN order |-> Row(pools, order[g])]
  BY DEF Products
<1>9. ASSUME NEW c \in S PROVE Row(pools, c) \in Seq(Int)
  <2>1. c \in [1..n -> V] /\ \A k \in DOMAIN c : c[k] \in DOMAIN pools[k]
    BY <1>1, <1>9 DEF Picks
  <2>2. DOMAIN c = 1..n BY <2>1
  <2>3. \A k \in 1..n : pools[k][c[k]] \in Int
    <3> HIDE DEF V, S
    <3>1. QED BY <1>2, <2>1, <2>2
  <2>4. Row(pools, c) = [k \in 1..n |-> pools[k][c[k]]] BY <2>2 DEF Row
  <2>5. Row(pools, c) \in [1..n -> Int] BY <2>3, <2>4
  <2>6. QED BY <2>5, SeqDef
<1> HIDE DEF S
<1>10. order \in [1..Cardinality(S) -> S] BY <1>8 DEF Sorted
<1> DEFINE m == Cardinality(S)
<1>11. m \in Nat /\ order \in [1..m -> S] BY <1>7, <1>10
<1> HIDE DEF m
<1>12. grid = [g \in 1..m |-> Row(pools, order[g])] BY <1>8, <1>11
<1>13. grid \in [1..m -> Seq(Int)] BY <1>9, <1>11, <1>12
<1>14. grid \in Seq(Seq(Int)) BY <1>11, <1>13, SeqDef
<1>15. Len(grid) = m BY <1>11, <1>13
<1>16. QED BY <1>11, <1>14, <1>15 DEF m, S

(* What the best result is is settled once the results are ranked: no      *)
(* other has a better value of a metric where higher is better.            *)
BestFirst ==
    HigherIsBetter => \A k \in DOMAIN results : SortKey(results[1]) >= SortKey(results[k])

Swept ==
    /\ stage = "grid" => results = <<>>
    /\ stage \in {"rank", "walk", "done"} => Len(results) >= 1
    /\ stage \in {"walk", "done"} => BestFirst

OptInv == OptTypeOK /\ Swept /\ LowIsEarned

LEMMA ResultIs ==
    ASSUME OptTypeOK, NEW k \in DOMAIN results
    PROVE  /\ results[k].metrics \in Outcomes \cup {Failed}
           /\ results[k].metrics \in Metric
           /\ Value(results[k]) \in Maybe /\ SortKey(results[k]) \in Int
           /\ Value(results[k]) # Undefined =>
                 /\ Value(results[k])[1] \in Int /\ Lowest < Value(results[k])[1]
                 /\ SortKey(results[k]) = Value(results[k])[1]
           /\ Value(results[k]) = Undefined => SortKey(results[k]) = Lowest
<1> DEFINE m == results[k].metrics
<1>1. m \in Outcomes \cup {Failed}
  <2> DEFINE R == [params : ToSet(combos), metrics : Outcomes \cup {Failed}]
  <2>1. results \in Seq(R) BY DEF OptTypeOK
  <2> HIDE DEF R
  <2>2. results[k] \in R BY <2>1
  <2>3. QED BY <2>2 DEF R
<1>2. Failed \in Metric
  <2>1. <<0>> \in One(Int) /\ <<0>> \in One(Nat) BY DEF One
  <2>2. QED BY <2>1 DEF Failed, Metric, Maybe
<1>3. m \in Metric BY <1>1, <1>2, OptimizerAssumption
<1>4. metric \in RankBy BY DEF OptTypeOK
<1>5. metric \in {"net_profit", "profit_factor", "max_drawdown_pct", "largest_loss",
                  "sharpe"}
  BY <1>4, OptimizerAssumption DEF Failed
<1>6. m[metric] \in Maybe
  <2> HIDE DEF m
  <2>1. /\ m.net_profit \in One(Int) /\ m.profit_factor \in Maybe
        /\ m.max_drawdown_pct \in One(Nat) /\ m.largest_loss \in Maybe
        /\ m.sharpe \in Maybe
    BY <1>3 DEF Metric
  <2>2. One(Int) \subseteq Maybe /\ One(Nat) \subseteq Maybe BY DEF One, Maybe
  <2>3. QED BY <1>5, <2>1, <2>2
<1>7. m[metric] # Undefined => m[metric][1] \in Int /\ Lowest < m[metric][1]
  <2>1. m[metric] # Undefined => Lowest < m[metric][1]
    BY <1>1, <1>4, OptimizerAssumption
  <2>2. m[metric] # Undefined => m[metric] \in One(Int) BY <1>6 DEF Maybe
  <2>3. \A x \in One(Int) : x[1] \in Int BY DEF One
  <2>4. QED BY <2>1, <2>2, <2>3
<1>8. Value(results[k]) = m[metric] BY DEF Value
<1>9. Lowest \in Int BY OptimizerAssumption
<1> HIDE DEF m
<1>10. QED BY <1>1, <1>3, <1>6, <1>7, <1>8, <1>9 DEF SortKey, m

LEMMA GridStep == ASSUME OptInv, ExpandGrid PROVE OptInv'
<1>1. /\ stage = "grid" /\ results = <<>> /\ results' = <<>>
      /\ UNCHANGED <<ranges, metric, halves, score>>
  BY DEF OptInv, Swept, ExpandGrid
<1>2. CASE stage' = "sweep" /\ combos' \in Products(Pools)
           /\ Cardinality(Picks(Pools)) <= MaxCombinations
  <2>1. Pools \in Seq(Seq(Int)) BY PoolsAre DEF OptInv
  <2>2. /\ combos' \in Seq(Seq(Int)) /\ Len(combos') = Cardinality(Picks(Pools))
        /\ Len(combos') \in Nat
    BY <1>2, <2>1, ProductsAre
  <2>3. /\ results' \in Seq([params : ToSet(combos'), metrics : Outcomes \cup {Failed}])
        /\ Len(results') = 0
    BY <1>1
  <2>4. OptTypeOK' BY <1>1, <1>2, <2>2, <2>3 DEF OptInv, OptTypeOK
  <2>5. QED BY <1>2, <2>4 DEF OptInv, Swept, LowIsEarned
<1>3. CASE stage' = "refused" /\ UNCHANGED combos
  <2>1. OptTypeOK' BY <1>1, <1>3 DEF OptInv, OptTypeOK
  <2>2. QED BY <1>3, <2>1 DEF OptInv, Swept, LowIsEarned
<1>4. QED BY <1>2, <1>3 DEF ExpandGrid

LEMMA ComboStep == ASSUME OptInv, RunCombo PROVE OptInv'
<1> DEFINE R == [params : ToSet(combos), metrics : Outcomes \cup {Failed}]
<1>1. /\ stage = "sweep" /\ Len(results) < Len(combos)
      /\ stage' = IF Len(results') = Len(combos) THEN "rank" ELSE stage
      /\ UNCHANGED <<ranges, metric, combos, halves, score>>
  BY DEF RunCombo
<1>2. PICK m \in Outcomes \cup {Failed} :
         results' = Append(results, [params |-> combos[Len(results) + 1], metrics |-> m])
  BY DEF RunCombo
<1>3. combos \in Seq(Seq(Int)) /\ results \in Seq(R) BY DEF OptInv, OptTypeOK
<1>4. PICK n \in Nat : n = Len(results) BY <1>3
<1>5. n + 1 \in DOMAIN combos BY <1>1, <1>3, <1>4
<1>6. combos[n + 1] \in ToSet(combos) BY <1>5 DEF ToSet
<1>7. [params |-> combos[n + 1], metrics |-> m] \in R BY <1>6
<1> HIDE DEF R
<1>8. results' \in Seq(R) /\ Len(results') = n + 1 BY <1>2, <1>3, <1>4, <1>7
<1>9. OptTypeOK' BY <1>1, <1>3, <1>4, <1>8 DEF OptInv, OptTypeOK, R
<1>10. stage' \in {"sweep", "rank"} /\ Len(results') >= 1 BY <1>1, <1>4, <1>8
<1>11. QED BY <1>9, <1>10 DEF OptInv, Swept, LowIsEarned

LEMMA RankStep == ASSUME OptInv, Rank PROVE OptInv'
<1> DEFINE R == [params : ToSet(combos), metrics : Outcomes \cup {Failed}]
<1>1. /\ stage = "rank" /\ stage' = "walk"
      /\ UNCHANGED <<ranges, metric, combos, halves, score>>
  BY DEF Rank
<1>2. PICK order \in Sorted(DOMAIN results, Before) :
         results' = [k \in DOMAIN order |-> results[order[k]]]
  BY DEF Rank
<1>3. results \in Seq(R) BY DEF OptInv, OptTypeOK
<1>4. PICK n \in Nat : n = Len(results) /\ DOMAIN results = 1..n BY <1>3
<1>5. n >= 1 BY <1>1, <1>4 DEF OptInv, Swept
<1>6. Cardinality(1..n) = n
  <2>1. Cardinality(1..n) = IF 1 > n THEN 0 ELSE n - 1 + 1 BY FS_Interval
  <2>2. QED BY <1>5, <2>1
<1>7. /\ order \in [1..n -> 1..n]
      /\ \A i, j \in 1..n : i < j => Before(order[i], order[j])
  BY <1>2, <1>4, <1>6 DEF Sorted
<1>8. /\ DOMAIN results' = 1..n /\ \A k \in 1..n : results'[k] = results[order[k]]
  BY <1>2, <1>7
<1> HIDE DEF R
<1>9. \A k \in 1..n : results[k] \in R BY <1>3, <1>4
<1>10. results' \in [1..n -> R] BY <1>2, <1>7, <1>9
<1>11. results' \in Seq(R) /\ Len(results') = n BY <1>10, SeqDef
<1>12. OptTypeOK' BY <1>1, <1>4, <1>11 DEF OptInv, OptTypeOK, R
<1>13. ASSUME HigherIsBetter, NEW k \in 1..n
       PROVE  SortKey(results'[1]) >= SortKey(results'[k])
  <2>1. 1 \in 1..n BY <1>5
  <2>2. SortKey(results[order[1]]) \in Int /\ SortKey(results[order[k]]) \in Int
    BY <1>4, <1>7, <2>1, ResultIs DEF OptInv
  <2>3. CASE k = 1 BY <1>8, <2>2, <2>3
  <2>4. CASE k # 1
    <3>1. Before(order[1], order[k]) BY <1>7, <2>1, <2>4
    <3>2. \/ -SortKey(results[order[1]]) < -SortKey(results[order[k]])
          \/ -SortKey(results[order[1]]) = -SortKey(results[order[k]])
      BY <1>13, <3>1 DEF Before
    <3>3. \A a, b \in Int : (-a < -b \/ -a = -b) => a >= b OBVIOUS
    <3>4. SortKey(results[order[1]]) >= SortKey(results[order[k]]) BY <2>2, <3>2, <3>3
    <3>5. QED BY <1>8, <2>1, <3>4
  <2>5. QED BY <2>3, <2>4
<1>14. BestFirst'
  <2>1. HigherIsBetter' <=> HigherIsBetter BY <1>1 DEF HigherIsBetter
  <2>2. \A r : SortKey(r)' = SortKey(r) BY <1>1 DEF SortKey, Value
  <2>3. QED BY <1>8, <1>13, <2>1, <2>2 DEF BestFirst
<1>15. QED BY <1>1, <1>5, <1>11, <1>12, <1>14 DEF OptInv, Swept, LowIsEarned

LEMMA Least ==
    ASSUME NEW a \in Nat, NEW b \in Nat
    PROVE  Min({a, b}) \in {a, b} /\ Min({a, b}) <= a /\ Min({a, b}) <= b
<1>1. \E x \in {a, b} : \A y \in {a, b} : x =< y
  <2>1. CASE a =< b BY <2>1
  <2>2. CASE b =< a BY <2>2
  <2>3. QED BY <2>1, <2>2
<1>2. QED BY <1>1 DEF Min

(* A low score says that there were enough trades and that the replay on   *)
(* the halves, if there was one, was consistent.                           *)
LEMMA ScoreSays ==
    ASSUME NEW walk
    PROVE  /\ OverfitScore(walk) \in 0..100
           /\ OverfitScore(walk) < 25 => /\ ~(Best.total_trades < MIN_TRADES_THRESHOLD)
                                         /\ walk # <<>> => Consistent(walk)
<1> DEFINE a == IF Best.total_trades < MIN_TRADES_THRESHOLD THEN 25 ELSE 0
           b == IF Best.profit_factor # Undefined
                   /\ Best.profit_factor[1] < PROFIT_FACTOR_THRESHOLD THEN 20 ELSE 0
           c == IF Best.max_drawdown_pct[1] > DRAWDOWN_THRESHOLD_PCT THEN 15 ELSE 0
           e == IF walk # <<>> /\ ~Consistent(walk) THEN 30 ELSE 0
           sum == a + b + c + SurfaceScore + e
<1>1. /\ a \in {0, 25} /\ (a = 0 => ~(Best.total_trades < MIN_TRADES_THRESHOLD))
      /\ b \in {0, 20} /\ c \in {0, 15}
      /\ e \in {0, 30} /\ (e = 0 => (walk # <<>> => Consistent(walk)))
  OBVIOUS
<1>2. SurfaceScore \in {0, 15, 25} BY DEF SurfaceScore
<1>3. OverfitScore(walk) = Min({100, sum}) BY DEF OverfitScore
<1> HIDE DEF a, b, c, e
<1>4. sum \in Nat /\ a <= sum /\ e <= sum BY <1>1, <1>2
<1> HIDE DEF sum
<1>5. OverfitScore(walk) \in {100, sum} /\ OverfitScore(walk) <= 100
  BY <1>3, <1>4, Least
<1>6. OverfitScore(walk) \in 0..100 BY <1>4, <1>5
<1>7. ASSUME OverfitScore(walk) < 25 PROVE a = 0 /\ e = 0
  <2>1. OverfitScore(walk) = sum BY <1>5, <1>7
  <2>2. QED BY <1>1, <1>4, <1>7, <2>1
<1>8. QED BY <1>1, <1>6, <1>7

LEMMA WalkStep ==
    ASSUME OptInv, NEW n \in SeriesLengths, WalkForward(n)
    PROVE  OptInv'
<1>1. stage = "walk" /\ UNCHANGED <<ranges, metric, combos, results>> BY DEF WalkForward
<1>2. BestFirst /\ Len(results) >= 1 BY <1>1 DEF OptInv, Swept
<1>3. 1 \in DOMAIN results
  <2> DEFINE R == [params : ToSet(combos), metrics : Outcomes \cup {Failed}]
  <2>1. results \in Seq(R) BY DEF OptInv, OptTypeOK
  <2> HIDE DEF R
  <2>2. QED BY <1>2, <2>1
<1>4. Best \in Outcomes \cup {Failed} /\ Best.total_trades \in Nat
  <2>1. Best \in Outcomes \cup {Failed} /\ Best \in Metric
    BY <1>3, ResultIs DEF OptInv, Best
  <2>2. QED BY <2>1 DEF Metric
<1>5. BestFirst'
  <2>1. HigherIsBetter' <=> HigherIsBetter BY <1>1 DEF HigherIsBetter
  <2>2. \A r : SortKey(r)' = SortKey(r) BY <1>1 DEF SortKey, Value
  <2>3. QED BY <1>1, <1>2, <2>1, <2>2 DEF BestFirst
<1>6. CASE stage' = "refused" /\ UNCHANGED <<halves, score>>
  <2>1. OptTypeOK' BY <1>1, <1>6 DEF OptInv, OptTypeOK
  <2>2. QED BY <1>6, <2>1 DEF OptInv, Swept, LowIsEarned
<1>7. CASE /\ stage' = "done" /\ halves' \in {<<>>} \cup (Outcomes \X Outcomes)
           /\ score' \in 0..100
           /\ score' < 25 => /\ Best.total_trades >= MIN_TRADES_THRESHOLD
                             /\ Consistent(halves')
  <2>1. OptTypeOK' BY <1>1, <1>7 DEF OptInv, OptTypeOK
  <2>2. ASSUME Label' = "low"
        PROVE  /\ Best # Failed /\ Best.total_trades >= MIN_TRADES_THRESHOLD
               /\ Consistent(halves')
    <3>1. score' < 25
      <4>1. Label' = IF score' < 25 THEN "low"
                     ELSE IF score' < 50 THEN "moderate" ELSE "high"
        BY DEF Label
      <4>2. QED BY <2>2, <4>1
    <3>2. Failed.total_trades = 0 BY DEF Failed
    <3>3. QED BY <1>7, <3>1, <3>2 DEF MIN_TRADES_THRESHOLD
  <2>3. ASSUME HigherIsBetter, NEW r \in ToSet(results), Value(r) # Undefined
        PROVE  Value(results[1]) # Undefined /\ Value(results[1])[1] >= Value(r)[1]
    <3>1. PICK k \in DOMAIN results : r = results[k] BY <2>3 DEF ToSet
    <3>2. SortKey(results[1]) >= SortKey(r) BY <1>2, <2>3, <3>1 DEF BestFirst
    <3>3. /\ SortKey(r) = Value(r)[1] /\ Lowest < Value(r)[1] /\ Value(r)[1] \in Int
      BY <2>3, <3>1, ResultIs DEF OptInv
    <3>4. Value(results[1]) # Undefined
      <4>1. Value(results[1]) = Undefined => SortKey(results[1]) = Lowest
        BY <1>3, ResultIs DEF OptInv
      <4>2. Lowest \in Int BY OptimizerAssumption
      <4>3. QED BY <3>2, <3>3, <4>1, <4>2
    <3>5. SortKey(results[1]) = Value(results[1])[1]
      BY <1>3, <3>4, ResultIs DEF OptInv
    <3>6. QED BY <3>2, <3>3, <3>4, <3>5
  <2>4. LowIsEarned'
    <3>1. /\ HigherIsBetter' <=> HigherIsBetter
          /\ Best' = Best /\ Consistent(halves)' = Consistent(halves')
          /\ results' = results /\ \A r : Value(r)' = Value(r)
      BY <1>1 DEF HigherIsBetter, Best, Consistent, Value
    <3>2. QED BY <2>2, <2>3, <3>1 DEF LowIsEarned
  <2>5. Swept' BY <1>1, <1>2, <1>5, <1>7 DEF Swept
  <2>6. QED BY <2>1, <2>4, <2>5 DEF OptInv
<1>8. CASE Best.total_trades = 0 /\ halves' = <<>> /\ score' = OverfitScore(<<>>)
           /\ stage' = "done"
  <2>1. score' \in 0..100 /\ ~(score' < 25)
    BY <1>4, <1>8, ScoreSays DEF MIN_TRADES_THRESHOLD
  <2>2. QED BY <1>7, <1>8, <2>1
<1>9. CASE /\ halves' = <<>> /\ stage' = "done"
           /\ score' = Min({100, OverfitScore(<<>>) + 30})
  <2>1. OverfitScore(<<>>) \in Nat
    <3>1. OverfitScore(<<>>) \in 0..100 BY ScoreSays
    <3>2. \A x \in 0..100 : x \in Nat OBVIOUS
    <3>3. QED BY <3>1, <3>2
  <2> DEFINE s == OverfitScore(<<>>) + 30
  <2>2. s \in Nat /\ s >= 30 BY <2>1
  <2> HIDE DEF s
  <2>3. Min({100, s}) \in {100, s} /\ Min({100, s}) <= 100 BY <2>2, Least
  <2>4. score' = Min({100, s}) BY <1>9 DEF s
  <2>5. score' \in 0..100 /\ ~(score' < 25) BY <2>2, <2>3, <2>4
  <2>6. QED BY <1>7, <1>9, <2>5
<1>10. CASE halves' \in Outcomes \X Outcomes /\ score' = OverfitScore(halves')
            /\ stage' = "done"
  <2>1. halves' # <<>> BY <1>10
  <2>2. /\ score' \in 0..100
        /\ score' < 25 => /\ ~(Best.total_trades < MIN_TRADES_THRESHOLD)
                          /\ Consistent(halves')
    BY <1>10, <2>1, ScoreSays
  <2>3. QED BY <1>4, <1>7, <1>10, <2>2 DEF MIN_TRADES_THRESHOLD
<1>11. QED BY <1>6, <1>8, <1>9, <1>10 DEF WalkForward

LEMMA OptStep == ASSUME OptInv, [OptNext]_optVars PROVE OptInv'
<1>1. CASE UNCHANGED optVars
  <2>1. UNCHANGED <<stage, ranges, metric, combos, results, halves, score>>
    BY <1>1 DEF optVars
  <2>2. OptTypeOK' BY <2>1 DEF OptInv, OptTypeOK
  <2>3. Swept' BY <2>1 DEF OptInv, Swept, BestFirst, HigherIsBetter, SortKey, Value
  <2>4. LowIsEarned'
    BY <2>1 DEF OptInv, LowIsEarned, Label, Best, Consistent, HigherIsBetter, Value
  <2>5. QED BY <2>2, <2>3, <2>4 DEF OptInv
<1>2. QED BY <1>1, GridStep, ComboStep, RankStep, WalkStep DEF OptNext

LEMMA InitOpt == OptInit => OptInv
<1> SUFFICES ASSUME OptInit PROVE OptInv OBVIOUS
<1>1. /\ stage = "grid" /\ ranges \in RangeSets /\ metric \in RankBy
      /\ combos = <<>> /\ results = <<>> /\ halves = <<>> /\ score = 0
  BY DEF OptInit
<1>2. MaxCombinations \in Nat BY OptimizerAssumption
<1>3. /\ <<>> \in Seq(Seq(Int)) /\ Len(<<>>) = 0
      /\ \A R : <<>> \in Seq(R)
  OBVIOUS
<1>4. OptTypeOK BY <1>1, <1>2, <1>3 DEF OptTypeOK
<1>5. QED BY <1>1, <1>4 DEF OptInv, Swept, LowIsEarned

-----------------------------------------------------------------------------
(* A request: a backtest or an optimisation, and its answer.               *)

JobInv ==
    /\ JobsTypeOK
    /\ Waiting /\ ExitsTraded
    /\ Books /\ NoneLeft
    /\ OptInv

LEMMA InitJob == JobsInit => JobInv
<1> SUFFICES ASSUME JobsInit PROVE JobInv OBVIOUS
<1>1. Init /\ OptInit BY DEF JobsInit
<1>2. TypeOK /\ Waiting /\ Books /\ NoneLeft /\ OptInv
  BY <1>1, InitTypes, InitWaits, InitBooks, InitOpt
<1>3. ExitsTraded BY <1>1 DEF Init, ExitsTraded, ToSet
<1>4. job \in {"backtest", "optimization"} /\ answer = 0 /\ stored = {} BY DEF JobsInit
<1>5. QED BY <1>2, <1>3, <1>4 DEF JobInv, JobsTypeOK, OptInv

LEMMA JobStep ==
    ASSUME JobInv, [JobsNext]_<<jobVars, vars, optVars>>
    PROVE  JobInv'
<1>1. /\ TypeOK /\ Waiting /\ ExitsTraded /\ Books /\ NoneLeft /\ OptInv
      /\ job \in {"backtest", "optimization"} /\ answer \in {0, 201, 400, 404}
      /\ stored = IF answer = 201 THEN {job} ELSE {}
  BY DEF JobInv, JobsTypeOK
<1>2. [Next]_vars /\ [OptNext]_optVars
  BY DEF JobsNext, Refuse, RunBacktest, RunOptimization, Answer
<1>3. TypeOK' /\ Waiting' /\ ExitsTraded' /\ Books' /\ NoneLeft' /\ OptInv'
  BY <1>1, <1>2, TypesStep, WaitingStep, ExitsStep, BooksStep, NoneLeftStep, OptStep
<1>4. /\ job' \in {"backtest", "optimization"} /\ answer' \in {0, 201, 400, 404}
      /\ stored' = IF answer' = 201 THEN {job'} ELSE {}
  <2>1. CASE Refuse BY <1>1, <2>1 DEF Refuse
  <2>2. CASE RunBacktest BY <1>1, <2>2 DEF RunBacktest, jobVars
  <2>3. CASE RunOptimization BY <1>1, <2>3 DEF RunOptimization, jobVars
  <2>4. CASE Answer BY <1>1, <2>4 DEF Answer
  <2>5. CASE UNCHANGED <<jobVars, vars, optVars>> BY <1>1, <2>5 DEF jobVars
  <2>6. QED BY <2>1, <2>2, <2>3, <2>4, <2>5 DEF JobsNext
<1>5. QED BY <1>3, <1>4 DEF JobInv, JobsTypeOK, OptInv

LEMMA AlwaysJobInv == JobsSpec => []JobInv
BY InitJob, JobStep, PTL DEF JobsSpec

(* What a backtest and an optimisation keep, and what a request stores,    *)
(* has its type.                                                           *)
THEOREM TypesKept == JobsSpec => []JobsTypeOK
<1>1. JobInv => JobsTypeOK BY DEF JobInv
<1>2. QED BY <1>1, AlwaysJobInv, PTL

(* What on_candle or the fill of a resting order asks for is not filled on *)
(* the same bar, and a market order of theirs is settled at the next open  *)
(* and no later, whatever the strategy trades or cancels meanwhile         *)
(* (on_bar's loops over _open_fill_ids and the resting orders).            *)
THEOREM AlwaysAtNextOpen == JobsSpec => []NextOpenFills
<1>1. JobInv => NextOpenFills BY WaitingSays DEF JobInv, JobsTypeOK
<1>2. QED BY <1>1, AlwaysJobInv, PTL

(* Every protective exit is at a price its bar traded, give or take the    *)
(* slippage (_intrabar_exit).                                              *)
THEOREM ExitsAlwaysTraded == JobsSpec => []ExitsTraded
<1>1. JobInv => ExitsTraded BY DEF JobInv
<1>2. QED BY <1>1, AlwaysJobInv, PTL

(* A combination that is called a low risk ran, traded enough and made     *)
(* money on both halves, and no combination did better by the metric       *)
(* (optimize_strategy, compute_overfit_assessment).                        *)
THEOREM LowAlwaysEarned == JobsSpec => []LowIsEarned
<1>1. JobInv => LowIsEarned BY DEF JobInv, OptInv
<1>2. QED BY <1>1, AlwaysJobInv, PTL

(* Every lot that was filled is in the trades and the positions, the       *)
(* balance is what the trades and the opening commissions make of the      *)
(* deposit, and the report of a finished run agrees with both and with the *)
(* equity curve (_fill, close_position, compute_metrics, max_drawdown).    *)
THEOREM BooksAlwaysBalance == JobsSpec => []BooksBalance
<1>1. JobInv => BooksBalance BY BooksBalanceIs DEF JobInv, JobsTypeOK
<1>2. QED BY <1>1, AlwaysJobInv, PTL

-----------------------------------------------------------------------------
(* The detectors: a series that is analysed again after every bar.         *)

(* What a bar is made of. *)
ChartBar == [o : Int, h : Int, l : Int, c : Int]

(* The constants, one by one. *)
LEMMA Parameters ==
    /\ SWING_LEFT \in Nat /\ SWING_LEFT >= 1 /\ Left \in Nat /\ Left >= 1
    /\ Window \in Nat /\ Window >= 1 /\ Lookback \in Nat /\ Lookback >= 1
    /\ SWING_RIGHT \in Nat /\ Right \in Nat /\ MinBars \in Nat
    /\ ATR_LOOKBACK \in Nat /\ ATR_LOOKBACK >= 1
    /\ DISPLACEMENT_MULT \in Nat /\ DISPLACEMENT_MULT >= 1
    /\ BlockLookback \in Nat
    /\ Start \in Int /\ MaxBars \in Nat
    /\ \A m \in Moves : m.by \in Int /\ m.up \in Int /\ m.down \in Int
<1>1. \A m \in Moves : m \in [by : Int, up : Nat, down : Nat] BY ChartAssumption
<1>2. \A m \in Moves : m.by \in Int /\ m.up \in Int /\ m.down \in Int BY <1>1
<1>3. QED BY <1>2, StructureAssumption, SmcAssumption, ChartAssumption

LEMMA BarAt ==
    ASSUME NEW b \in Seq(ChartBar), NEW i \in 1..Len(b)
    PROVE  b[i].o \in Int /\ b[i].h \in Int /\ b[i].l \in Int /\ b[i].c \in Int
<1>1. b[i] \in ChartBar OBVIOUS
<1>2. QED BY <1>1 DEF ChartBar

LEMMA ExtremesOfTwo ==
    ASSUME NEW x \in Int, NEW y \in Int
    PROVE  /\ Max({x, y}) = IF x >= y THEN x ELSE y
           /\ Min({x, y}) = IF x <= y THEN x ELSE y
BY DEF Max, Min

(* A strength is a share of a hundred. *)
LEMMA ShareIs ==
    ASSUME NEW part \in Int, NEW whole \in Int
    PROVE  Hundredths(part, whole) \in 0..100
<1>1. CASE whole <= 0 BY <1>1 DEF Hundredths
<1>2. CASE whole > 0
  <2> DEFINE share == (100 * part) \div whole
  <2>1. share \in Int BY <1>2
  <2> HIDE DEF share
  <2>2. Min({100, share}) = IF 100 <= share THEN 100 ELSE share BY <2>1, ExtremesOfTwo
  <2>3. Min({100, share}) \in Int /\ Min({100, share}) <= 100 BY <2>1, <2>2
  <2> DEFINE least == Min({100, share})
  <2>4. least \in Int /\ least <= 100 BY <2>3
  <2> HIDE DEF least
  <2>5. Max({0, least}) = IF 0 >= least THEN 0 ELSE least BY <2>4, ExtremesOfTwo
  <2>6. Max({0, least}) \in 0..100 BY <2>4, <2>5
  <2>7. QED BY <1>2, <2>6 DEF Hundredths, share, least
<1>3. QED BY <1>1, <1>2

LEMMA RangeSumIs ==
    ASSUME NEW b \in Seq(ChartBar), NEW from \in Int, NEW to \in Int, from >= 1, to <= Len(b)
    PROVE  RangeSum(b, from, to) \in Int
<1> DEFINE f == [j \in from..to |-> b[j].h - b[j].l]
<1>1. IsFiniteSet(from..to) BY FS_Interval
<1>2. \A j \in from..to : f[j] \in Int BY BarAt
<1> HIDE DEF f
<1>3. SumFunctionOnSet(f, from..to) \in Int BY <1>1, <1>2, SumIsInt
<1>4. QED BY <1>3 DEF RangeSum, f

-----------------------------------------------------------------------------
(* A new bar leaves the bars there were. *)

Grown(b, g, n) ==
    /\ n \in Nat /\ b \in Seq(ChartBar) /\ g \in Seq(ChartBar)
    /\ Len(b) = n /\ Len(g) = n + 1
    /\ \A i \in 1..n : g[i] = b[i]

LEMMA SameRangeSum ==
    ASSUME NEW b, NEW g, NEW n, Grown(b, g, n), NEW from \in Int, NEW to \in Int, from >= 1, to <= n
    PROVE  RangeSum(g, from, to) = RangeSum(b, from, to)
<1>1. \A j \in from..to : g[j] = b[j] BY DEF Grown
<1>2. [j \in from..to |-> g[j].h - g[j].l] = [j \in from..to |-> b[j].h - b[j].l] BY <1>1
<1>3. QED BY <1>2 DEF RangeSum

LEMMA SameExtremes ==
    ASSUME NEW b, NEW g, NEW n, Grown(b, g, n), NEW from \in Int, NEW to \in Int, from >= 1, to <= n
    PROVE  High(g, from, to) = High(b, from, to) /\ Low(g, from, to) = Low(b, from, to)
<1>1. \A j \in from..to : g[j] = b[j] BY DEF Grown
<1>2. {g[j].h : j \in from..to} = {b[j].h : j \in from..to} BY <1>1
<1>3. {g[j].l : j \in from..to} = {b[j].l : j \in from..to} BY <1>1
<1>4. QED BY <1>2, <1>3 DEF High, Low

(* A swing and its strength are settled once its bars of confirmation, and *)
(* those by default, are there. *)
LEMMA SameSwing ==
    ASSUME NEW b, NEW g, NEW n, Grown(b, g, n), NEW i \in 1..n, i + SWING_RIGHT <= n,
           NEW p \in Polarities
    PROVE  Swing(g, i, p) = Swing(b, i, p)
<1>1. g[i] = b[i] /\ Len(b) = n /\ Len(g) = n + 1 /\ n \in Nat BY DEF Grown
<1>2. Max({1, i - SWING_LEFT}) \in Int /\ Max({1, i - SWING_LEFT}) >= 1
  BY ExtremesOfTwo, Parameters
<1>3. Min({Len(b), i + SWING_RIGHT}) = i + SWING_RIGHT /\ Min({Len(g), i + SWING_RIGHT}) = i + SWING_RIGHT
  <2> DEFINE last == i + SWING_RIGHT
  <2>1. last \in Int /\ last <= n BY Parameters
  <2> HIDE DEF last
  <2> DEFINE next == n + 1
  <2>2. next \in Int /\ n \in Int /\ n <= next BY <1>1
  <2> HIDE DEF next
  <2>3. Min({n, last}) = last
    <3>1. Min({n, last}) = IF n <= last THEN n ELSE last BY <2>1, <2>2, ExtremesOfTwo
    <3>2. QED BY <3>1, <2>1, <2>2
  <2>4. Min({next, last}) = last
    <3>1. Min({next, last}) = IF next <= last THEN next ELSE last BY <2>1, <2>2, ExtremesOfTwo
    <3>2. QED BY <3>1, <2>1, <2>2
  <2>5. QED BY <1>1, <2>3, <2>4 DEF last, next
<1>4. i + SWING_RIGHT \in Int BY Parameters
<1>5. SwingStrength(g, i, p) = SwingStrength(b, i, p)
  BY <1>1, <1>2, <1>3, <1>4, SameExtremes DEF SwingStrength
<1>6. QED BY <1>1, <1>5 DEF Swing

LEMMA SameTest ==
    ASSUME NEW b, NEW g, NEW n, Grown(b, g, n), NEW left \in Nat, NEW right \in Nat,
           NEW i \in Int, i > left, i + right <= n, NEW p \in Polarities
    PROVE  IsSwing(g, i, p, left, right) <=> IsSwing(b, i, p, left, right)
<1>1. \A j \in (i - left)..(i + right) : j \in 1..n BY DEF Grown
<1>2. i \in 1..n BY DEF Grown
<1>3. \A j \in 1..n : g[j] = b[j] BY DEF Grown
<1>4. QED BY <1>1, <1>2, <1>3 DEF IsSwing

SwingType == [bar : Nat, polarity : Polarities, label : {"none", "higher", "lower"},
              price : Int, strength : 0..100]

(* The swings S of n bars, confirmed by right bars, and those T of one bar *)
(* more: the old ones, and what the new bar confirms.                      *)
KnownGrows(S, T, n, right) ==
    /\ n \in Nat /\ right \in Nat
    /\ T \subseteq SwingType
    /\ S \subseteq T
    /\ \A s \in S : s.bar + right <= n
    /\ \A s \in T \ S : s.bar + right = n + 1

LEMMA SameLastSwing ==
    ASSUME NEW S, NEW T, NEW n, NEW right, KnownGrows(S, T, n, right),
           NEW delay \in Nat, NEW i \in Int, i - delay <= n - right, NEW p
    PROVE  LastSwing(T, p, delay, i) = LastSwing(S, p, delay, i)
<1> DEFINE known(K) == {s \in K : s.polarity = p /\ s.bar + delay <= i}
<1>1. \A s \in T : s.bar \in Nat BY DEF KnownGrows, SwingType
<1>2. \A s \in T \ S : ~(s.bar + delay <= i) BY <1>1 DEF KnownGrows
<1>3. known(T) = known(S) BY <1>2 DEF KnownGrows
<1>4. QED BY <1>3 DEF LastSwing

(* What a swing is labelled. *)
LabelIn(swings, s) ==
    LET prev == LastSwing(swings, s.polarity, 1, s.bar)
    IN  IF \E p \in prev : s.price > p.price THEN "higher"
        ELSE IF \E p \in prev : s.price < p.price THEN "lower" ELSE "none"

Labelled(swings, s) == [s EXCEPT !.label = LabelIn(swings, s)]

LEMMA ClassifyIs ==
    ASSUME NEW swings
    PROVE  Classify(swings) = {Labelled(swings, s) : s \in swings}
BY DEF Classify, Labelled, LabelIn

LEMMA LabelledIs ==
    ASSUME NEW swings, NEW s \in SwingType
    PROVE  /\ Labelled(swings, s) \in SwingType
           /\ Labelled(swings, s).bar = s.bar /\ Labelled(swings, s).polarity = s.polarity
           /\ Labelled(swings, s).price = s.price
<1>1. LabelIn(swings, s) \in {"none", "higher", "lower"} BY DEF LabelIn
<1> DEFINE l == LabelIn(swings, s)
<1> HIDE DEF l
<1>2. [s EXCEPT !.label = l] \in SwingType /\ [s EXCEPT !.label = l].bar = s.bar
      /\ [s EXCEPT !.label = l].polarity = s.polarity /\ [s EXCEPT !.label = l].price = s.price
  BY <1>1 DEF SwingType, l
<1>3. QED BY <1>2 DEF Labelled, l

(* Labels look back only. *)
LEMMA ClassifyGrows ==
    ASSUME NEW S, NEW T, NEW n, NEW right, KnownGrows(S, T, n, right)
    PROVE  KnownGrows(Classify(S), Classify(T), n, right)
<1>1. \A s \in T : s \in SwingType /\ s.bar \in Nat BY DEF KnownGrows, SwingType
<1>2. ASSUME NEW s \in S PROVE Labelled(T, s) = Labelled(S, s)
  <2>1. s.bar \in Nat /\ s.bar + right <= n /\ right \in Nat /\ n \in Nat
    BY <1>1 DEF KnownGrows
  <2> DEFINE i == s.bar
             p == s.polarity
  <2>2. i \in Int /\ i - 1 <= n - right BY <2>1
  <2> HIDE DEF i, p
  <2>3. LastSwing(T, p, 1, i) = LastSwing(S, p, 1, i) BY <2>2, SameLastSwing
  <2>4. LabelIn(T, s) = LabelIn(S, s) BY <2>3 DEF LabelIn, i, p
  <2>5. QED BY <2>4 DEF Labelled
<1>3. Classify(T) \subseteq SwingType BY <1>1, LabelledIs, ClassifyIs
<1>4. Classify(S) \subseteq Classify(T) BY <1>2, ClassifyIs DEF KnownGrows
<1>5. \A x \in Classify(S) : x.bar + right <= n
  <2>1. \A s \in S : Labelled(S, s).bar = s.bar BY <1>1, LabelledIs DEF KnownGrows
  <2>2. QED BY <2>1, ClassifyIs DEF KnownGrows
<1>6. \A x \in Classify(T) \ Classify(S) : x.bar + right = n + 1
  <2>1. \A s \in T : Labelled(T, s).bar = s.bar BY <1>1, LabelledIs
  <2>2. ASSUME NEW x \in Classify(T) \ Classify(S) PROVE x.bar + right = n + 1
    <3>1. PICK s \in T : x = Labelled(T, s) BY ClassifyIs
    <3>2. s \notin S BY <3>1, <1>2, ClassifyIs
    <3>3. s.bar + right = n + 1 BY <3>1, <3>2 DEF KnownGrows
    <3>4. QED BY <3>1, <3>3, <2>1
  <2>3. QED BY <2>2
<1>7. QED BY <1>3, <1>4, <1>5, <1>6 DEF KnownGrows

(* A range of bars has a highest high and a lowest low. *)
LEMMA GreatestOfRange ==
    ASSUME NEW f, NEW from \in Int, NEW n \in Nat, \A j \in from..(from + n) : f[j] \in Int
    PROVE  \E m \in from..(from + n) : \A j \in from..(from + n) : f[m] >= f[j]
<1> DEFINE Good == {k \in Nat : k <= n => \E m \in from..(from + k) :
                                              \A j \in from..(from + k) : f[m] >= f[j]}
<1>1. 0 \in Good BY \A j \in from..(from + 0) : j = from
<1>2. ASSUME NEW k \in Nat, k \in Good PROVE k + 1 \in Good
  <2>1. CASE k + 1 <= n
    <3>1. PICK m \in from..(from + k) : \A j \in from..(from + k) : f[m] >= f[j]
      BY <1>2, <2>1
    <3> DEFINE l == from + k + 1
    <3>2. l \in from..(from + n) /\ m \in from..(from + n) BY <2>1
    <3>3. f[l] \in Int /\ f[m] \in Int BY <3>2
    <3>4. \A j \in from..(from + (k + 1)) : j \in from..(from + k) \/ j = l OBVIOUS
    <3>5. \A j \in from..(from + k) : f[j] \in Int BY <2>1
    <3>6. l \in from..(from + (k + 1)) /\ m \in from..(from + (k + 1)) OBVIOUS
    <3> HIDE DEF l
    <3>7. CASE f[m] >= f[l]
      <4>1. \A j \in from..(from + (k + 1)) : f[m] >= f[j] BY <3>1, <3>4, <3>7
      <4>2. QED BY <4>1, <3>6
    <3>8. CASE f[l] >= f[m]
      <4>1. \A j \in from..(from + (k + 1)) : f[l] >= f[j] BY <3>1, <3>3, <3>4, <3>5, <3>8
      <4>2. QED BY <4>1, <3>6
    <3>9. QED BY <3>3, <3>7, <3>8
  <2>2. QED BY <2>1
<1> HIDE DEF Good
<1>3. n \in Good BY <1>1, <1>2, Induction
<1>4. QED BY <1>3 DEF Good

LEMMA ExtremesAre ==
    ASSUME NEW b \in Seq(ChartBar), NEW from \in Int, NEW to \in Int,
           from >= 1, from <= to, to <= Len(b)
    PROVE  High(b, from, to) \in Int /\ Low(b, from, to) \in Int
<1> DEFINE n == to - from
           up == [j \in from..to |-> b[j].h]
           down == [j \in from..to |-> -b[j].l]
<1>1. n \in Nat /\ from + n = to OBVIOUS
<1>2. \A j \in from..to : up[j] \in Int /\ down[j] \in Int /\ b[j].h \in Int /\ b[j].l \in Int
  BY BarAt
<1>3. \A j \in from..to : up[j] = b[j].h /\ down[j] = -b[j].l OBVIOUS
<1> HIDE DEF n, up, down
<1>4. PICK m \in from..to : \A j \in from..to : up[m] >= up[j]
  BY <1>1, <1>2, GreatestOfRange
<1>5. PICK k \in from..to : \A j \in from..to : down[k] >= down[j]
  BY <1>1, <1>2, GreatestOfRange
<1>6. High(b, from, to) \in Int
  <2>1. \A j \in from..to : b[m].h >= b[j].h BY <1>3, <1>4
  <2>2. \E x \in {b[j].h : j \in from..to} : \A y \in {b[j].h : j \in from..to} : x >= y
    BY <2>1
  <2>3. High(b, from, to) \in {b[j].h : j \in from..to} BY <2>2 DEF High, Max
  <2>4. QED BY <2>3, <1>2
<1>7. Low(b, from, to) \in Int
  <2>1. \A j \in from..to : b[k].l =< b[j].l BY <1>2, <1>3, <1>5
  <2>2. \E x \in {b[j].l : j \in from..to} : \A y \in {b[j].l : j \in from..to} : x =< y
    BY <2>1
  <2>3. Low(b, from, to) \in {b[j].l : j \in from..to} BY <2>2 DEF Low, Min
  <2>4. QED BY <2>3, <1>2
<1>8. QED BY <1>6, <1>7

LEMMA SwingIs ==
    ASSUME NEW b \in Seq(ChartBar), NEW i \in 1..Len(b), NEW p \in Polarities
    PROVE  Swing(b, i, p) \in SwingType /\ Swing(b, i, p).bar = i
           /\ Swing(b, i, p).polarity = p
<1> DEFINE n == Len(b)
           first == i - SWING_LEFT
           last == i + SWING_RIGHT
           lo == Max({1, first})
           hi == Min({n, last})
<1>1. n \in Int /\ first \in Int /\ last \in Int /\ first <= i /\ last >= i /\ i \in 1..n
  BY Parameters
<1> HIDE DEF n, first, last
<1>2. lo = IF 1 >= first THEN 1 ELSE first BY <1>1, ExtremesOfTwo
<1>3. hi = IF n <= last THEN n ELSE last BY <1>1, ExtremesOfTwo
<1>4. lo \in Int /\ hi \in Int /\ 1 <= lo /\ lo <= hi /\ hi <= n BY <1>1, <1>2, <1>3
<1> HIDE DEF lo, hi
<1>5. High(b, lo, hi) \in Int /\ Low(b, lo, hi) \in Int BY <1>4, ExtremesAre DEF n
<1>6. b[i].h \in Int /\ b[i].l \in Int BY BarAt
<1> DEFINE span == High(b, lo, hi) - Low(b, lo, hi)
           part == IF p = "high" THEN b[i].h - Low(b, lo, hi) ELSE High(b, lo, hi) - b[i].l
<1>7. span \in Int /\ part \in Int BY <1>5, <1>6
<1>8. SwingStrength(b, i, p) = Hundredths(part, span)
  BY DEF SwingStrength, lo, hi, n, first, last
<1> HIDE DEF span, part
<1>9. SwingStrength(b, i, p) \in 0..100 BY <1>7, <1>8, ShareIs
<1>10. QED BY <1>1, <1>6, <1>9 DEF Swing, SwingType

(* What is among the swings. *)
LEMMA SwingsAre ==
    ASSUME NEW b, NEW left, NEW right
    PROVE  \A x : x \in DetectSwings(b, left, right)
              <=> \E i \in (left + 1)..(Len(b) - right), p \in Polarities :
                     IsSwing(b, i, p, left, right) /\ x = Swing(b, i, p)
<1> DEFINE Bars == (left + 1)..(Len(b) - right)
           found == {s \in Bars \X Polarities : IsSwing(b, s[1], s[2], left, right)}
<1>1. DetectSwings(b, left, right) = {Swing(b, s[1], s[2]) : s \in found} BY DEF DetectSwings
<1> HIDE DEF Bars
<1>2. \A i \in Bars, p \in Polarities :
         <<i, p>> \in Bars \X Polarities /\ <<i, p>>[1] = i /\ <<i, p>>[2] = p OBVIOUS
<1>3. \A s \in found : s[1] \in Bars /\ s[2] \in Polarities OBVIOUS
<1>4. ASSUME NEW i \in Bars, NEW p \in Polarities, IsSwing(b, i, p, left, right)
      PROVE  Swing(b, i, p) \in {Swing(b, s[1], s[2]) : s \in found}
  <2>1. <<i, p>> \in found BY <1>2, <1>4
  <2> HIDE DEF found
  <2>2. Swing(b, <<i, p>>[1], <<i, p>>[2]) \in {Swing(b, s[1], s[2]) : s \in found} BY <2>1
  <2>3. QED BY <2>2, <1>2
<1>5. \A s \in found : IsSwing(b, s[1], s[2], left, right) OBVIOUS
<1> HIDE DEF found
<1>6. QED BY <1>1, <1>3, <1>4, <1>5 DEF Bars

(* The swings that there are once a bar more has closed. *)
LEMMA SwingsGrow ==
    ASSUME NEW b, NEW g, NEW n, Grown(b, g, n), NEW left \in Nat, NEW right \in Nat,
           right >= SWING_RIGHT
    PROVE  KnownGrows(DetectSwings(b, left, right), DetectSwings(g, left, right), n, right)
<1>1. n \in Nat /\ Len(b) = n /\ Len(g) = n + 1 /\ b \in Seq(ChartBar) /\ g \in Seq(ChartBar)
  BY DEF Grown
<1> DEFINE S == DetectSwings(b, left, right)
           T == DetectSwings(g, left, right)
<1>2. \A x : x \in S <=> \E i \in (left + 1)..(n - right), p \in Polarities :
                            IsSwing(b, i, p, left, right) /\ x = Swing(b, i, p)
  BY <1>1, SwingsAre
<1>3. \A x : x \in T <=> \E i \in (left + 1)..(n + 1 - right), p \in Polarities :
                            IsSwing(g, i, p, left, right) /\ x = Swing(g, i, p)
  BY <1>1, SwingsAre
<1>4. ASSUME NEW i \in (left + 1)..(n - right), NEW p \in Polarities
      PROVE  /\ i \in 1..n
             /\ Swing(g, i, p) = Swing(b, i, p)
             /\ IsSwing(g, i, p, left, right) <=> IsSwing(b, i, p, left, right)
  <2>1. i \in Int /\ i > left /\ i + right <= n /\ i + SWING_RIGHT <= n /\ i \in 1..n
    BY <1>1, Parameters
  <2>2. Swing(g, i, p) = Swing(b, i, p) BY <2>1, SameSwing
  <2>3. IsSwing(g, i, p, left, right) <=> IsSwing(b, i, p, left, right) BY <2>1, SameTest
  <2>4. QED BY <2>1, <2>2, <2>3
<1> HIDE DEF S, T
<1>5. T \subseteq SwingType
  <2>1. \A i \in (left + 1)..(n + 1 - right) : i \in 1..Len(g) BY <1>1
  <2>2. QED BY <2>1, <1>1, <1>3, SwingIs
<1>6. S \subseteq T
  <2>1. \A i \in (left + 1)..(n - right) : i \in (left + 1)..(n + 1 - right) BY <1>1
  <2>2. QED BY <2>1, <1>2, <1>3, <1>4
<1>7. \A s \in S : s.bar + right <= n
  <2>1. \A i \in (left + 1)..(n - right), p \in Polarities : Swing(b, i, p).bar = i
    BY <1>1, <1>4, SwingIs
  <2>2. ASSUME NEW s \in S PROVE s.bar + right <= n
    <3>1. PICK i \in (left + 1)..(n - right), p \in Polarities : s = Swing(b, i, p) BY <1>2
    <3>2. s.bar = i BY <3>1, <2>1
    <3>3. QED BY <3>2, <1>1
  <2>3. QED BY <2>2
<1>8. \A s \in T \ S : s.bar + right = n + 1
  <2>1. ASSUME NEW s \in T, s \notin S PROVE s.bar + right = n + 1
    <3>1. PICK i \in (left + 1)..(n + 1 - right), p \in Polarities :
             IsSwing(g, i, p, left, right) /\ s = Swing(g, i, p) BY <2>1, <1>3
    <3>2. i \in 1..Len(g) BY <1>1
    <3>3. s.bar = i BY <3>1, <3>2, <1>1, SwingIs
    <3>4. CASE i \in (left + 1)..(n - right)
      <4>1. s = Swing(b, i, p) /\ IsSwing(b, i, p, left, right) BY <3>1, <3>4, <1>4
      <4>2. s \in S BY <4>1, <3>4, <1>2
      <4>3. QED BY <4>2, <2>1
    <3>5. CASE i = n + 1 - right BY <3>3, <3>5, <1>1
    <3>6. QED BY <3>4, <3>5, <1>1
  <2>2. QED BY <2>1
<1>9. QED BY <1>1, <1>5, <1>6, <1>7, <1>8 DEF KnownGrows, S, T

(* A break at an old bar is measured against old bars. *)
LEMMA SameBreak ==
    ASSUME NEW b, NEW g, NEW n, Grown(b, g, n), NEW i \in 2..n, NEW level, NEW dir
    PROVE  /\ BreakStrength(g, i, level) = BreakStrength(b, i, level)
           /\ Crosses(g, i, level, dir) <=> Crosses(b, i, level, dir)
<1>1. g[i] = b[i] /\ g[i - 1] = b[i - 1] BY DEF Grown
<1> DEFINE first == i - Lookback
           lo == Max({1, first})
           prev == i - 1
<1>2. first \in Int /\ prev \in Int /\ prev <= n BY Parameters DEF Grown
<1> HIDE DEF first
<1>3. lo \in Int /\ lo >= 1 BY <1>2, ExtremesOfTwo
<1> HIDE DEF lo, prev
<1>4. RangeSum(g, lo, prev) = RangeSum(b, lo, prev) BY <1>2, <1>3, SameRangeSum
<1>5. QED BY <1>1, <1>4 DEF BreakStrength, Crosses, lo, first, prev

LEMMA SameBreaksAt ==
    ASSUME NEW b, NEW g, NEW n, Grown(b, g, n),
           NEW S, NEW T, NEW right, KnownGrows(S, T, n, right), right <= Right,
           NEW up, NEW down, NEW i \in 2..n
    PROVE  BreaksAt(g, T, up, down, i) = BreaksAt(b, S, up, down, i)
<1>1. \A p : LastSwing(T, p, Right, i) = LastSwing(S, p, Right, i)
  <2>1. n \in Nat /\ i \in Int /\ i <= n BY DEF Grown
  <2>2. Right \in Nat /\ right \in Nat BY Parameters DEF KnownGrows
  <2>3. i - Right <= n - right BY <2>1, <2>2
  <2>4. QED BY <2>1, <2>2, <2>3, SameLastSwing
<1>2. \A level, dir : Crosses(g, i, level, dir) <=> Crosses(b, i, level, dir) BY SameBreak
<1>3. \A s, dir : Break(g, i, s, dir) = Break(b, i, s, dir)
  <2>1. g[i] = b[i] BY DEF Grown
  <2>2. \A level : BreakStrength(g, i, level) = BreakStrength(b, i, level) BY SameBreak
  <2>3. QED BY <2>1, <2>2 DEF Break
<1> DEFINE regime == RegimeFrom(LastSwing(S, "high", Right, i), LastSwing(S, "low", Right, i))
           watch == IF regime = "uptrend" THEN up ELSE down
           found(c) == {Break(c, i, s, watch.direction) :
                          s \in {s \in LastSwing(S, watch.polarity, Right, i) :
                                  Crosses(c, i, s.price, watch.direction)}}
<1>4. BreaksAt(b, S, up, down, i) = IF regime = "range" THEN {} ELSE found(b) BY DEF BreaksAt
<1>5. BreaksAt(g, T, up, down, i) = IF regime = "range" THEN {} ELSE found(g) BY <1>1 DEF BreaksAt
<1> HIDE DEF regime, watch
<1>6. found(g) = found(b) BY <1>2, <1>3
<1>7. QED BY <1>4, <1>5, <1>6

LEMMA BreaksAreThere ==
    ASSUME NEW b, NEW S, NEW up, NEW down, NEW i, NEW x \in BreaksAt(b, S, up, down, i)
    PROVE  x.bar = i
BY DEF BreaksAt, Break

LEMMA BreaksGrow ==
    ASSUME NEW b, NEW g, NEW n, Grown(b, g, n),
           NEW S, NEW T, NEW right, KnownGrows(S, T, n, right), right <= Right,
           NEW up, NEW down
    PROVE  /\ Breaks(b, S, up, down) \subseteq Breaks(g, T, up, down)
           /\ \A x \in Breaks(g, T, up, down) \ Breaks(b, S, up, down) : x.bar = n + 1
<1>1. n \in Nat /\ Len(b) = n /\ Len(g) = n + 1 BY DEF Grown
<1>2. \A x : x \in Breaks(b, S, up, down) <=> \E i \in 2..n : x \in BreaksAt(b, S, up, down, i)
  BY <1>1 DEF Breaks
<1>3. \A x : x \in Breaks(g, T, up, down) <=> \E i \in 2..(n + 1) : x \in BreaksAt(g, T, up, down, i)
  BY <1>1 DEF Breaks
<1>4. \A i \in 2..n : BreaksAt(g, T, up, down, i) = BreaksAt(b, S, up, down, i)
  BY SameBreaksAt
<1>5. \A i \in 2..n : i \in 2..(n + 1) BY <1>1
<1>6. \A i \in 2..(n + 1) : i \in 2..n \/ i = n + 1 BY <1>1
<1>7. QED BY <1>2, <1>3, <1>4, <1>5, <1>6, BreaksAreThere

(* The regime at an old bar rests on swings known by then. *)
LEMMA SameRegime ==
    ASSUME NEW S, NEW T, NEW n, KnownGrows(S, T, n, Right), NEW i \in Int, i <= n
    PROVE  RegimeAt(T, i) = RegimeAt(S, i)
<1> DEFINE known(K) == {s \in K : s.bar + Right <= i}
<1>1. \A s \in T \ S : ~(s.bar + Right <= i) BY DEF KnownGrows
<1>2. known(T) = known(S) BY <1>1 DEF KnownGrows
<1>3. QED BY <1>2 DEF RegimeAt

LEMMA RegimesGrow ==
    ASSUME NEW b, NEW g, NEW n, Grown(b, g, n), NEW S, NEW T, KnownGrows(S, T, n, Right),
           StructureOr(b, S) = S, StructureOr(g, T) = T
    PROVE  /\ DetectRegimeChanges(b, S) \subseteq DetectRegimeChanges(g, T)
           /\ \A x \in DetectRegimeChanges(g, T) \ DetectRegimeChanges(b, S) : x.bar = n + 1
<1> DEFINE before(K, i) == IF i = 1 THEN "range" ELSE RegimeAt(K, i - 1)
           change(c, K, i) == [bar |-> i, price |-> c[i].c, to |-> RegimeAt(K, i),
                               from |-> before(K, i)]
<1>1. n \in Nat /\ DOMAIN b = 1..n /\ DOMAIN g = 1..(n + 1) BY DEF Grown
<1>2. \A x : x \in DetectRegimeChanges(b, S)
         <=> \E i \in 1..n : RegimeAt(S, i) # before(S, i) /\ x = change(b, S, i)
  BY <1>1 DEF DetectRegimeChanges
<1>3. \A x : x \in DetectRegimeChanges(g, T)
         <=> \E i \in 1..(n + 1) : RegimeAt(T, i) # before(T, i) /\ x = change(g, T, i)
  BY <1>1 DEF DetectRegimeChanges
<1>4. ASSUME NEW i \in 1..n
      PROVE  /\ RegimeAt(T, i) = RegimeAt(S, i) /\ before(T, i) = before(S, i)
             /\ change(g, T, i) = change(b, S, i)
  <2>1. RegimeAt(T, i) = RegimeAt(S, i) BY <1>1, SameRegime
  <2> DEFINE j == i - 1
  <2>2. j \in Int /\ j <= n BY <1>1
  <2> HIDE DEF j
  <2>3. RegimeAt(T, j) = RegimeAt(S, j) BY <2>2, SameRegime
  <2>4. g[i] = b[i] BY DEF Grown
  <2>5. QED BY <2>1, <2>3, <2>4 DEF j
<1>5. \A K, c, i : change(c, K, i).bar = i OBVIOUS
<1> HIDE DEF change, before
<1>6. \A i \in 1..n : i \in 1..(n + 1) BY <1>1
<1>7. \A i \in 1..(n + 1) : i \in 1..n \/ i = n + 1 BY <1>1
<1>8. DetectRegimeChanges(b, S) \subseteq DetectRegimeChanges(g, T) BY <1>2, <1>3, <1>4, <1>6
<1>9. QED BY <1>2, <1>3, <1>4, <1>5, <1>7, <1>8

-----------------------------------------------------------------------------
(* What was asked for is what is looked at. *)

LEMMA UsualStructure ==
    ASSUME UsualRequest, NEW b
    PROVE  StructureOr(b, Classify(DetectSwings(b, Left, Right)))
              = Classify(DetectSwings(b, Left, Right))
<1> DEFINE asked == DetectSwings(b, Left, Right)
           usual == DetectSwings(b, SWING_LEFT, SWING_RIGHT)
<1>1. CASE Classify(asked) # {} BY <1>1 DEF StructureOr
<1>2. CASE Classify(asked) = {}
  <2>1. asked = {} BY <1>2, ClassifyIs
  <2>2. usual = {}
    <3>1. SUFFICES ASSUME NEW x \in usual PROVE FALSE OBVIOUS
    <3>2. PICK i \in (SWING_LEFT + 1)..(Len(b) - SWING_RIGHT), p \in Polarities :
             IsSwing(b, i, p, SWING_LEFT, SWING_RIGHT) /\ x = Swing(b, i, p)
      BY <3>1, SwingsAre
    <3>3. i \in (Left + 1)..(Len(b) - Right) BY Parameters DEF UsualRequest
    <3>4. \A j \in (i - Left)..(i + Right) : j \in (i - SWING_LEFT)..(i + SWING_RIGHT)
      BY Parameters DEF UsualRequest
    <3>5. IsSwing(b, i, p, Left, Right) BY <3>2, <3>4 DEF IsSwing
    <3>6. Swing(b, i, p) \in asked BY <3>3, <3>5, SwingsAre
    <3>7. QED BY <3>6, <2>1
  <2>3. Classify(usual) = {} BY <2>2, ClassifyIs
  <2>4. QED BY <1>2, <2>3 DEF StructureOr
<1>3. QED BY <1>1, <1>2

(* The loop over the bars, as a function of the bars it has passed. *)
NothingYet == [live |-> NoBreakout, breakouts |-> {}, retests |-> {}]

Passed(f, b, s, i) == IF i <= 1 THEN NothingYet ELSE PassBar(b, s, f[i - 1], i)

Passes(f, b, s) == f = [i \in 0..Len(b) |-> Passed(f, b, s, i)]

Loop(b, s) == (CHOOSE f : Passes(f, b, s))[Len(b)]

LEMMA PassIs ==
    ASSUME NEW b, NEW st
    PROVE  DetectBreakoutsAndRetests(b, st) = Loop(b, StructureOr(b, st))
BY DEF DetectBreakoutsAndRetests, Loop, Passes, Passed, NothingYet

LEMMA PassExists ==
    ASSUME NEW n \in Nat, NEW b, Len(b) = n, NEW s
    PROVE  \E f : Passes(f, b, s)
<1> DEFINE Upto(f, m) == \A k \in 0..n : k <= m => f[k] = Passed(f, b, s, k)
           Good == {m \in Nat : \E f : Upto(f, m)}
<1>1. 0 \in Good
  <2> DEFINE f == [k \in 0..n |-> NothingYet]
  <2>1. \A k \in 0..n : k <= 0 => f[k] = Passed(f, b, s, k) BY DEF Passed
  <2> HIDE DEF f
  <2>2. Upto(f, 0) BY <2>1
  <2>3. QED BY <2>2
<1>2. ASSUME NEW m \in Nat, m \in Good PROVE m + 1 \in Good
  <2>1. PICK f : Upto(f, m) BY <1>2
  <2> DEFINE h == [k \in 0..n |-> Passed(f, b, s, k)]
  <2>2. ASSUME NEW k \in 0..n, k <= m PROVE h[k] = f[k] BY <2>1, <2>2
  <2>3. ASSUME NEW k \in 0..n, k <= m + 1 PROVE h[k] = Passed(h, b, s, k)
    <3>1. h[k] = Passed(f, b, s, k) OBVIOUS
    <3>2. CASE k <= 1 BY <3>1, <3>2 DEF Passed
    <3>3. CASE k > 1
      <4>1. k - 1 \in 0..n /\ k - 1 <= m BY <2>3, <3>3
      <4>2. h[k - 1] = f[k - 1] BY <4>1, <2>2
      <4> HIDE DEF h
      <4>3. QED BY <3>1, <4>2 DEF Passed
    <3>4. QED BY <3>2, <3>3
  <2> HIDE DEF h
  <2>4. Upto(h, m + 1) BY <2>3
  <2>5. QED BY <2>4
<1> HIDE DEF Good
<1>3. n \in Good BY <1>1, <1>2, Induction
<1>4. PICK f : Upto(f, n) BY <1>3 DEF Good
<1> DEFINE result == [k \in 0..n |-> f[k]]
<1>5. ASSUME NEW k \in 0..n PROVE result[k] = Passed(result, b, s, k)
  <2>1. f[k] = Passed(f, b, s, k) BY <1>4
  <2>2. k > 1 => k - 1 \in 0..n OBVIOUS
  <2>3. k > 1 => result[k - 1] = f[k - 1] BY <2>2
  <2>4. result[k] = f[k] OBVIOUS
  <2> HIDE DEF result
  <2>5. QED BY <2>1, <2>3, <2>4 DEF Passed
<1>6. Passes(result, b, s)
  <2>1. result = [k \in 0..n |-> result[k]] OBVIOUS
  <2> HIDE DEF result
  <2>2. QED BY <1>5, <2>1 DEF Passes
<1>7. QED BY <1>6

LEMMA PassAt ==
    ASSUME NEW n \in Nat, NEW b, Len(b) = n, NEW s, NEW f, Passes(f, b, s)
    PROVE  /\ \A i \in 0..n : i <= 1 => f[i] = NothingYet
           /\ \A i \in 2..n : f[i] = PassBar(b, s, f[i - 1], i)
<1>1. \A i \in 0..n : f[i] = Passed(f, b, s, i) BY DEF Passes
<1>2. QED BY <1>1 DEF Passed

-----------------------------------------------------------------------------
(* What one bar of the loop does. *)

IsAcc(acc) == acc = [live |-> acc.live, breakouts |-> acc.breakouts, retests |-> acc.retests]

LEMMA FollowIs ==
    ASSUME NEW b, NEW i, NEW acc, IsAcc(acc)
    PROVE  /\ IsAcc(Follow(b, i, acc))
           /\ Follow(b, i, acc).breakouts = acc.breakouts
           /\ acc.live = NoBreakout => Follow(b, i, acc) = acc
           /\ acc.live # NoBreakout /\ Kills(b[i], acc.live) =>
                 /\ Follow(b, i, acc).live = NoBreakout
                 /\ Follow(b, i, acc).retests = acc.retests
           /\ acc.live # NoBreakout /\ ~Kills(b[i], acc.live) =>
                 /\ Follow(b, i, acc).live = acc.live
                 /\ \/ Follow(b, i, acc).retests = acc.retests
                    \/ Follow(b, i, acc).retests = acc.retests \cup {Retest(b, i, acc.live)}
<1> DEFINE more == acc.retests \cup {Retest(b, i, acc.live)}
           a1 == [acc EXCEPT !.live = NoBreakout]
           a2 == [acc EXCEPT !.retests = more]
<1>1. /\ a1 = [live |-> NoBreakout, breakouts |-> acc.breakouts, retests |-> acc.retests]
      /\ a2 = [live |-> acc.live, breakouts |-> acc.breakouts, retests |-> more]
  BY DEF IsAcc
<1>2. /\ IsAcc(a1) /\ a1.live = NoBreakout /\ a1.breakouts = acc.breakouts
      /\ a1.retests = acc.retests
      /\ IsAcc(a2) /\ a2.live = acc.live /\ a2.breakouts = acc.breakouts /\ a2.retests = more
  BY <1>1 DEF IsAcc
<1>3. Follow(b, i, acc) = IF acc.live = NoBreakout THEN acc
                          ELSE IF Kills(b[i], acc.live) THEN a1
                          ELSE IF Retests(b[i], acc.live) THEN a2 ELSE acc
  BY DEF Follow
<1> HIDE DEF a1, a2
<1>4. QED BY <1>2, <1>3

KindAt(b, s, i) == IF Broken(b, s, i, HighBreak) # {} THEN HighBreak ELSE LowBreak

NewAt(b, s, i) == {Break(b, i, w, KindAt(b, s, i).direction) : w \in Broken(b, s, i, KindAt(b, s, i))}

LiveFrom(b, s, i) == [bar |-> i, direction |-> KindAt(b, s, i).direction,
                      level |-> (CHOOSE x \in NewAt(b, s, i) : TRUE).level]

LEMMA AccExcept ==
    ASSUME NEW acc, IsAcc(acc), NEW more, NEW live
    PROVE  [acc EXCEPT !.breakouts = more, !.live = live]
              = [live |-> live, breakouts |-> more, retests |-> acc.retests]
<1>1. PICK l, k, r : acc = [live |-> l, breakouts |-> k, retests |-> r] BY DEF IsAcc
<1>2. acc.retests = r BY <1>1
<1> DEFINE a == [[live |-> l, breakouts |-> k, retests |-> r] EXCEPT !.breakouts = more,
                                                                     !.live = live]
<1>3. a.live = live /\ a.breakouts = more /\ a.retests = r OBVIOUS
<1>4. DOMAIN a = {"live", "breakouts", "retests"} /\ a = [x \in DOMAIN a |-> a[x]] OBVIOUS
<1> HIDE DEF a
<1>5. a = [live |-> live, breakouts |-> more, retests |-> r] BY <1>3, <1>4
<1>6. QED BY <1>1, <1>2, <1>5 DEF a

(* The bar as a step: what was live is followed, and what breaks out here  *)
(* is live from here.                                                      *)
LEMMA PassBarStep ==
    ASSUME NEW b, NEW s, NEW i, NEW acc
    PROVE  PassBar(b, s, acc, i) =
              IF NewAt(b, s, i) = {} THEN Follow(b, i, acc)
              ELSE [Follow(b, i, acc) EXCEPT !.breakouts = @ \cup NewAt(b, s, i),
                                             !.live = LiveFrom(b, s, i)]
BY DEF PassBar, NewAt, KindAt, LiveFrom

LEMMA PassBarIs ==
    ASSUME NEW b, NEW s, NEW i, NEW acc, IsAcc(acc)
    PROVE  /\ IsAcc(PassBar(b, s, acc, i))
           /\ PassBar(b, s, acc, i).breakouts = acc.breakouts \cup NewAt(b, s, i)
           /\ PassBar(b, s, acc, i).retests = Follow(b, i, acc).retests
           /\ PassBar(b, s, acc, i).live =
                 IF NewAt(b, s, i) = {} THEN Follow(b, i, acc).live ELSE LiveFrom(b, s, i)
<1> DEFINE next == Follow(b, i, acc)
           new == NewAt(b, s, i)
           live == LiveFrom(b, s, i)
           more == next.breakouts \cup new
           a1 == [next EXCEPT !.breakouts = more, !.live = live]
<1>1. IsAcc(next) /\ next.breakouts = acc.breakouts BY FollowIs
<1>2. PassBar(b, s, acc, i) = IF new = {} THEN next ELSE a1 BY PassBarStep
<1> HIDE DEF next, new, live, more
<1>3. a1 = [live |-> live, breakouts |-> more, retests |-> next.retests] BY <1>1, AccExcept
<1>4. IsAcc(a1) /\ a1.live = live /\ a1.breakouts = more /\ a1.retests = next.retests
  BY <1>3 DEF IsAcc
<1> HIDE DEF a1
<1>5. new = {} => more = next.breakouts BY DEF more
<1>6. QED BY <1>1, <1>2, <1>4, <1>5 DEF next, new, live, more

LEMMA SamePassBar ==
    ASSUME NEW b, NEW g, NEW n, Grown(b, g, n),
           NEW S, NEW T, NEW right, KnownGrows(S, T, n, right), right <= Right,
           NEW acc, NEW i \in 2..n
    PROVE  PassBar(g, T, acc, i) = PassBar(b, S, acc, i)
<1>1. g[i] = b[i] BY DEF Grown
<1>2. \A level : BreakStrength(g, i, level) = BreakStrength(b, i, level) BY SameBreak
<1>3. \A level, dir : Crosses(g, i, level, dir) <=> Crosses(b, i, level, dir) BY SameBreak
<1> DEFINE wait == Right + MinBars
<1>4. wait \in Nat /\ i \in Int /\ i - wait <= n - right
  BY Parameters DEF Grown, KnownGrows
<1> HIDE DEF wait
<1>5. \A p : LastSwing(T, p, wait, i) = LastSwing(S, p, wait, i) BY <1>4, SameLastSwing
<1>6. \A k : Broken(g, T, i, k) = Broken(b, S, i, k) BY <1>3, <1>5 DEF Broken, wait
<1>7. Follow(g, i, acc) = Follow(b, i, acc) BY <1>1, <1>2 DEF Follow, Retest
<1>8. \A w, d : Break(g, i, w, d) = Break(b, i, w, d) BY <1>1, <1>2 DEF Break
<1>9. KindAt(g, T, i) = KindAt(b, S, i) BY <1>6 DEF KindAt
<1>10. NewAt(g, T, i) = NewAt(b, S, i) BY <1>6, <1>8, <1>9 DEF NewAt
<1>11. LiveFrom(g, T, i) = LiveFrom(b, S, i) BY <1>9, <1>10 DEF LiveFrom
<1>12. QED BY <1>7, <1>10, <1>11, PassBarStep

LEMMA PassGrows ==
    ASSUME NEW b, NEW g, NEW n, Grown(b, g, n),
           NEW S, NEW T, NEW right, KnownGrows(S, T, n, right), right <= Right,
           NEW f \in {"breakouts", "retests"}
    PROVE  /\ Loop(b, S)[f] \subseteq Loop(g, T)[f]
           /\ \A x \in Loop(g, T)[f] \ Loop(b, S)[f] : x.bar = n + 1
<1>1. n \in Nat /\ Len(b) = n /\ Len(g) = n + 1 /\ n + 1 \in Nat BY DEF Grown
<1> DEFINE u == CHOOSE u : Passes(u, b, S)
           v == CHOOSE v : Passes(v, g, T)
           m == n + 1
<1>2. Passes(u, b, S) BY <1>1, PassExists
<1>3. Passes(v, g, T)
  <2>1. \E w : Passes(w, g, T) BY <1>1, PassExists
  <2>2. QED BY <2>1
<1>4. Loop(b, S) = u[n] /\ Loop(g, T) = v[n + 1] BY <1>1 DEF Loop
<1> HIDE DEF u, v
<1>5. /\ \A i \in 0..n : i <= 1 => u[i] = NothingYet
      /\ \A i \in 2..n : u[i] = PassBar(b, S, u[i - 1], i)
  BY <1>1, <1>2, PassAt
<1>6. /\ \A i \in 0..(n + 1) : i <= 1 => v[i] = NothingYet
      /\ \A i \in 2..(n + 1) : v[i] = PassBar(g, T, v[i - 1], i)
  <2>1. m \in Nat /\ Len(g) = m BY <1>1
  <2> HIDE DEF m
  <2>2. /\ \A i \in 0..m : i <= 1 => v[i] = NothingYet
        /\ \A i \in 2..m : v[i] = PassBar(g, T, v[i - 1], i)
    BY <2>1, <1>3, PassAt
  <2>3. QED BY <2>2 DEF m
<1> DEFINE Settled(k) == v[k] = u[k] /\ IsAcc(u[k])
           Good == {k \in Nat : k <= n => Settled(k)}
<1>7. 0 \in Good
  <2>1. u[0] = NothingYet /\ v[0] = NothingYet BY <1>1, <1>5, <1>6
  <2>2. Settled(0) BY <2>1 DEF NothingYet, IsAcc
  <2> HIDE DEF Settled
  <2>3. QED BY <2>2
<1>8. ASSUME NEW k \in Nat, k \in Good PROVE k + 1 \in Good
  <2> DEFINE i == k + 1
  <2>1. CASE i <= n /\ i <= 1
    <3>1. i \in 0..n /\ i \in 0..(n + 1) /\ i <= 1 BY <1>1, <2>1
    <3> HIDE DEF i
    <3>2. u[i] = NothingYet /\ v[i] = NothingYet BY <1>5, <1>6, <3>1
    <3>3. Settled(i) BY <3>2 DEF NothingYet, IsAcc
    <3> HIDE DEF Settled
    <3>4. QED BY <3>3 DEF i
  <2>2. CASE i <= n /\ i > 1
    <3> HIDE DEF Settled
    <3>0. i \in 2..n /\ i \in 2..(n + 1) /\ i - 1 = k /\ Settled(k) BY <1>1, <1>8, <2>2
    <3>1. v[k] = u[k] /\ IsAcc(u[k]) BY <3>0 DEF Settled
    <3> HIDE DEF i
    <3>2. u[i] = PassBar(b, S, u[k], i) /\ v[i] = PassBar(g, T, v[k], i)
      BY <3>0, <1>5, <1>6
    <3>3. PassBar(g, T, u[k], i) = PassBar(b, S, u[k], i) BY <3>0, SamePassBar
    <3>4. IsAcc(PassBar(b, S, u[k], i)) BY <3>1, PassBarIs
    <3>5. Settled(i) BY <3>1, <3>2, <3>3, <3>4 DEF Settled
    <3>6. QED BY <3>5 DEF i
  <2>3. QED BY <2>1, <2>2
<1> HIDE DEF Good
<1>9. n \in Good BY <1>1, <1>7, <1>8, Induction
<1>10. v[n] = u[n] /\ IsAcc(u[n]) BY <1>9 DEF Good
<1>11. CASE n = 0
  <2>1. v[n + 1] = u[n] BY <1>5, <1>6, <1>11
  <2>2. QED BY <2>1, <1>4
<1>12. CASE n >= 1
  <2>1. v[m] = PassBar(g, T, u[n], m) BY <1>1, <1>6, <1>10, <1>12
  <2> HIDE DEF m
  <2>2. /\ v[m].breakouts = u[n].breakouts \cup NewAt(g, T, m)
        /\ v[m].retests = Follow(g, m, u[n]).retests
    BY <2>1, <1>10, PassBarIs
  <2> DEFINE acc == u[n]
  <2>0. IsAcc(acc) BY <1>10
  <2> HIDE DEF acc
  <2>9. Follow(g, m, acc).retests = acc.retests
        \/ Follow(g, m, acc).retests = acc.retests \cup {Retest(g, m, acc.live)}
    BY <2>0, FollowIs
  <2>3. Follow(g, m, u[n]).retests = u[n].retests
        \/ Follow(g, m, u[n]).retests = u[n].retests \cup {Retest(g, m, u[n].live)}
    BY <2>9 DEF acc
  <2>4. Retest(g, m, u[n].live).bar = m BY DEF Retest
  <2>5. \A x \in NewAt(g, T, m) : x.bar = m BY DEF NewAt, Break
  <2>6. CASE f = "breakouts" BY <2>2, <2>5, <2>6, <1>4 DEF m
  <2>7. CASE f = "retests" BY <2>2, <2>3, <2>4, <2>7, <1>4 DEF m
  <2>8. QED BY <2>6, <2>7
<1>13. QED BY <1>1, <1>11, <1>12

(* A close on the side of the level where the breakout left it. *)
OnSide(candle, direction, level) ==
    IF direction = "bullish" THEN candle.c >= level ELSE candle.c <= level

LiveNow(live, B, b, k) ==
    /\ live.bar \in 1..k /\ live.level \in Int
    /\ \E x \in B : <<x.bar, x.direction, x.level>> = <<live.bar, live.direction, live.level>>
    /\ \A x \in B : x.bar <= live.bar
    /\ \A i \in live.bar..k : OnSide(b[i], live.direction, live.level)

RetestLive(r, B, b, k) ==
    /\ r.bar \in 1..k /\ r.breakout \in 1..k
    /\ \E x \in B : <<x.bar, x.direction, x.level>> = <<r.breakout, r.direction, r.level>>
    /\ \A x \in B : x.bar < r.bar => x.bar <= r.breakout
    /\ \A i \in r.breakout..r.bar : OnSide(b[i], r.direction, r.level)

(* What the loop knows after the first k bars. *)
LoopInv(acc, b, k) ==
    /\ IsAcc(acc)
    /\ \A x \in acc.breakouts : x.bar \in 1..k
    /\ acc.live = NoBreakout \/ LiveNow(acc.live, acc.breakouts, b, k)
    /\ \A r \in acc.retests : RetestLive(r, acc.breakouts, b, k)

LEMMA BrokenIs ==
    ASSUME NEW b, NEW s, s \subseteq SwingType, NEW i, NEW x \in NewAt(b, s, i)
    PROVE  /\ x.bar = i /\ x.level \in Int /\ x.direction = KindAt(b, s, i).direction
           /\ Crosses(b, i, x.level, KindAt(b, s, i).direction)
<1> DEFINE kind == KindAt(b, s, i)
<1>1. PICK w \in Broken(b, s, i, kind) : x = Break(b, i, w, kind.direction) BY DEF NewAt
<1>2. w \in s /\ Crosses(b, i, w.price, kind.direction) BY <1>1 DEF Broken, LastSwing
<1>3. w.price \in Int BY <1>2 DEF SwingType
<1>4. x.bar = i /\ x.level = w.price /\ x.direction = kind.direction BY <1>1 DEF Break
<1>5. QED BY <1>2, <1>3, <1>4

LEMMA LiveFollowed ==
    ASSUME NEW n \in Nat, NEW b \in Seq(ChartBar), Len(b) = n, NEW k \in Nat, k + 1 <= n,
           NEW acc, LoopInv(acc, b, k)
    PROVE  /\ \/ Follow(b, k + 1, acc).live = NoBreakout
              \/ LiveNow(Follow(b, k + 1, acc).live, acc.breakouts, b, k + 1)
           /\ \A r \in Follow(b, k + 1, acc).retests :
                 RetestLive(r, acc.breakouts, b, k + 1)
<1> DEFINE i == k + 1
           live == acc.live
           B == acc.breakouts
<1>1. i \in 1..Len(b) /\ b[i].c \in Int
  <2>1. i \in 1..Len(b) OBVIOUS
  <2> HIDE DEF i
  <2>2. QED BY <2>1, BarAt
<1>2. IsAcc(acc) BY DEF LoopInv
<1>3. /\ live = NoBreakout => Follow(b, i, acc) = acc
      /\ live # NoBreakout /\ Kills(b[i], live) =>
            Follow(b, i, acc).live = NoBreakout /\ Follow(b, i, acc).retests = acc.retests
      /\ live # NoBreakout /\ ~Kills(b[i], live) =>
            /\ Follow(b, i, acc).live = live
            /\ \/ Follow(b, i, acc).retests = acc.retests
               \/ Follow(b, i, acc).retests = acc.retests \cup {Retest(b, i, live)}
  <2> HIDE DEF i
  <2>1. QED BY <1>2, FollowIs
<1>4. ASSUME live # NoBreakout, ~Kills(b[i], live) PROVE LiveNow(live, B, b, i)
  <2>1. LiveNow(live, B, b, k) BY <1>4 DEF LoopInv
  <2>2. OnSide(b[i], live.direction, live.level)
    <3>1. live.level \in Int BY <2>1 DEF LiveNow
    <3>2. ~(IF live.direction = "bullish" THEN b[i].c < live.level ELSE b[i].c > live.level)
      BY <1>4 DEF Kills
    <3> HIDE DEF i, live
    <3>3. QED BY <3>1, <3>2, <1>1 DEF OnSide
  <2>3. live.bar \in 1..k BY <2>1 DEF LiveNow
  <2>4. \A j \in live.bar..i : j \in live.bar..k \/ j = i BY <2>3
  <2>5. live.bar \in 1..i BY <2>3
  <2> HIDE DEF i, live, B
  <2>6. QED BY <2>1, <2>2, <2>4, <2>5 DEF LiveNow
<1>5. ASSUME NEW r \in acc.retests PROVE RetestLive(r, B, b, i)
  <2>1. RetestLive(r, B, b, k) BY DEF LoopInv
  <2>2. r.bar \in 1..i /\ r.breakout \in 1..i BY <2>1 DEF RetestLive
  <2> HIDE DEF i, B
  <2>3. QED BY <2>1, <2>2 DEF RetestLive
<1>6. ASSUME live # NoBreakout, ~Kills(b[i], live) PROVE RetestLive(Retest(b, i, live), B, b, i)
  <2>1. LiveNow(live, B, b, i) BY <1>4, <1>6
  <2> DEFINE r == Retest(b, i, live)
  <2>2. r.bar = i /\ r.breakout = live.bar /\ r.direction = live.direction /\ r.level = live.level
    BY DEF Retest
  <2>3. i \in 1..i OBVIOUS
  <2> HIDE DEF i, live, B, r
  <2>4. QED BY <2>1, <2>2, <2>3 DEF LiveNow, RetestLive, r
<1> HIDE DEF i, live, B
<1>7. Follow(b, i, acc).live = NoBreakout \/ LiveNow(Follow(b, i, acc).live, B, b, i)
  <2>1. CASE live = NoBreakout BY <2>1, <1>3 DEF live
  <2>2. CASE live # NoBreakout /\ Kills(b[i], live) BY <2>2, <1>3
  <2>3. CASE live # NoBreakout /\ ~Kills(b[i], live)
    <3>1. LiveNow(live, B, b, i) BY <2>3, <1>4
    <3>2. Follow(b, i, acc).live = live BY <2>3, <1>3
    <3>3. QED BY <3>1, <3>2
  <2>4. QED BY <2>1, <2>2, <2>3
<1>8. \A r \in Follow(b, i, acc).retests : RetestLive(r, B, b, i)
  <2>1. CASE live # NoBreakout /\ ~Kills(b[i], live)
    <3>1. RetestLive(Retest(b, i, live), B, b, i) BY <2>1, <1>6
    <3>2. \A r \in Follow(b, i, acc).retests : r \in acc.retests \/ r = Retest(b, i, live)
      BY <2>1, <1>3
    <3>3. QED BY <3>1, <3>2, <1>5
  <2>2. CASE ~(live # NoBreakout /\ ~Kills(b[i], live))
    <3>1. Follow(b, i, acc).retests = acc.retests BY <2>2, <1>3 DEF live
    <3>2. QED BY <3>1, <1>5
  <2>3. QED BY <2>1, <2>2
<1>9. QED BY <1>7, <1>8 DEF i, B

LEMMA LiveKept ==
    ASSUME NEW n \in Nat, NEW b \in Seq(ChartBar), Len(b) = n, NEW s, s \subseteq SwingType,
           NEW k \in Nat, k >= 1, k + 1 <= n, NEW acc, LoopInv(acc, b, k)
    PROVE  LoopInv(PassBar(b, s, acc, k + 1), b, k + 1)
<1> DEFINE i == k + 1
           next == Follow(b, i, acc)
           new == NewAt(b, s, i)
           B == acc.breakouts
           all == B \cup new
           dir == KindAt(b, s, i).direction
           result == PassBar(b, s, acc, i)
<1>1. IsAcc(acc) BY DEF LoopInv
<1>2. /\ next.live = NoBreakout \/ LiveNow(next.live, B, b, i)
      /\ \A r \in next.retests : RetestLive(r, B, b, i)
  BY LiveFollowed
<1>3. \A x \in B : x.bar \in 1..k BY DEF LoopInv
<1>4. i \in Nat /\ i \in 1..Len(b) /\ i >= 2 /\ k < i OBVIOUS
<1>5. \A x \in B : x.bar \in 1..i /\ x.bar < i BY <1>3
<1> HIDE DEF i
<1>6. \A x \in new : x.bar = i /\ x.level \in Int /\ x.direction = dir /\ Crosses(b, i, x.level, dir)
  BY BrokenIs
<1>7. /\ IsAcc(result) /\ result.breakouts = all /\ result.retests = next.retests
      /\ result.live = IF new = {} THEN next.live ELSE LiveFrom(b, s, i)
  BY <1>1, PassBarIs
<1> HIDE DEF next, new, B, dir, result
<1>8. \A x \in all : x.bar \in 1..i
  BY <1>4, <1>5, <1>6
<1>9. ASSUME NEW r \in next.retests PROVE RetestLive(r, all, b, i)
  <2>1. RetestLive(r, B, b, i) BY <1>2
  <2>2. r.bar \in 1..i BY <2>1 DEF RetestLive
  <2>3. \A x \in new : ~(x.bar < r.bar) BY <2>2, <1>4, <1>6
  <2>4. QED BY <2>1, <2>3 DEF RetestLive
<1>10. result.live = NoBreakout \/ LiveNow(result.live, all, b, i)
  <2>1. CASE new = {}
    <3>1. all = B BY <2>1
    <3>2. QED BY <2>1, <3>1, <1>2, <1>7
  <2>2. CASE new # {}
    <3> DEFINE x == CHOOSE y \in new : TRUE
               live == LiveFrom(b, s, i)
    <3>1. x \in new BY <2>2
    <3>2. live.bar = i /\ live.direction = dir /\ live.level = x.level
      BY DEF LiveFrom, new, dir
    <3> HIDE DEF x, live
    <3>3. x.bar = i /\ x.level \in Int /\ x.direction = dir /\ Crosses(b, i, x.level, dir)
      BY <3>1, <1>6
    <3>4. OnSide(b[i], dir, x.level)
      <4>1. b[i].c \in Int BY <1>4, BarAt
      <4>2. QED BY <4>1, <3>3 DEF Crosses, OnSide
    <3>5. \A y \in all : y.bar <= i BY <1>8, <1>4
    <3>6. \A j \in i..i : j = i BY <1>4
    <3>7. x \in all BY <3>1
    <3>8. LiveNow(live, all, b, i)
      BY <1>4, <3>2, <3>3, <3>4, <3>5, <3>6, <3>7 DEF LiveNow
    <3>9. QED BY <2>2, <3>8, <1>7 DEF live
  <2>3. QED BY <2>1, <2>2
<1> HIDE DEF all
<1>11. LoopInv(result, b, i) BY <1>7, <1>8, <1>9, <1>10 DEF LoopInv
<1>12. QED BY <1>11 DEF result, i

LEMMA LoopKnows ==
    ASSUME NEW n \in Nat, NEW b \in Seq(ChartBar), Len(b) = n, NEW st,
           StructureOr(b, st) \subseteq SwingType
    PROVE  LoopInv(DetectBreakoutsAndRetests(b, st), b, n)
<1> DEFINE s == StructureOr(b, st)
           u == CHOOSE u : Passes(u, b, s)
<1>1. Passes(u, b, s)
  <2>1. \E f : Passes(f, b, s) BY PassExists
  <2>2. QED BY <2>1
<1>2. DetectBreakoutsAndRetests(b, st) = u[n] BY PassIs DEF Loop
<1>3. s \subseteq SwingType OBVIOUS
<1> HIDE DEF u, s
<1>4. /\ \A i \in 0..n : i <= 1 => u[i] = NothingYet
      /\ \A i \in 2..n : u[i] = PassBar(b, s, u[i - 1], i)
  BY <1>1, PassAt
<1>5. \A k : LoopInv(NothingYet, b, k) BY DEF NothingYet, LoopInv, IsAcc
<1> DEFINE Good == {k \in Nat : k <= n => LoopInv(u[k], b, k)}
<1>6. 0 \in Good BY <1>4, <1>5
<1>7. ASSUME NEW k \in Nat, k \in Good PROVE k + 1 \in Good
  <2> DEFINE i == k + 1
  <2>1. CASE i <= n /\ i <= 1
    <3>1. i \in 0..n /\ i <= 1 /\ i \in Nat BY <2>1
    <3> HIDE DEF i
    <3>2. u[i] = NothingYet BY <1>4, <3>1
    <3>3. QED BY <3>1, <3>2, <1>5 DEF i
  <2>2. CASE i <= n /\ i > 1
    <3>1. i \in 2..n /\ i - 1 = k /\ k <= n /\ k >= 1 /\ k + 1 <= n BY <2>2
    <3>2. LoopInv(u[k], b, k) BY <1>7, <3>1
    <3>3. u[i] = PassBar(b, s, u[k], i) BY <1>4, <3>1
    <3> DEFINE acc == u[k]
    <3> HIDE DEF acc
    <3>4. LoopInv(PassBar(b, s, acc, k + 1), b, k + 1)
      BY <3>1, <3>2, <1>3, LiveKept DEF acc
    <3>5. QED BY <3>3, <3>4 DEF acc
  <2>3. QED BY <2>1, <2>2
<1> HIDE DEF Good
<1>8. n \in Good BY <1>6, <1>7, Induction
<1>9. QED BY <1>8, <1>2 DEF Good

LEMMA SwingsTyped ==
    ASSUME NEW b \in Seq(ChartBar), NEW left \in Nat, NEW right \in Nat
    PROVE  Classify(DetectSwings(b, left, right)) \subseteq SwingType
<1>1. DetectSwings(b, left, right) \subseteq SwingType
  <2>1. PICK n \in Nat : Len(b) = n OBVIOUS
  <2>2. \A i \in (left + 1)..(n - right) : i \in 1..n BY <2>1
  <2>3. \A i \in 1..n, p \in Polarities : Swing(b, i, p) \in SwingType BY <2>1, SwingIs
  <2>4. QED BY <2>1, <2>2, <2>3, SwingsAre
<1>2. QED BY <1>1, LabelledIs, ClassifyIs

(* Whatever the request, the retests of an analysis are of live breakouts. *)
LEMMA AnalysisLive ==
    ASSUME NEW b \in Seq(ChartBar), NEW r \in Analyze(b).retests
    PROVE  RetestLive(r, Analyze(b).breakouts, b, Len(b))
<1> DEFINE st == Classify(DetectSwings(b, Left, Right))
           both == DetectBreakoutsAndRetests(b, st)
<1>1. PICK n \in Nat : Len(b) = n OBVIOUS
<1>2. Analyze(b).retests = both.retests /\ Analyze(b).breakouts = both.breakouts BY DEF Analyze
<1>3. StructureOr(b, st) \subseteq SwingType BY Parameters, SwingsTyped DEF StructureOr
<1> HIDE DEF st
<1>4. LoopInv(both, b, n) BY <1>1, <1>3, LoopKnows
<1>5. QED BY <1>1, <1>2, <1>4 DEF LoopInv

(* The least of a set of bars does not change when a later bar joins. *)
LEMMA FirstStays ==
    ASSUME NEW n \in Nat, NEW A, NEW B, A \subseteq 1..n, A # {}, A \subseteq B,
           \A x \in B \ A : x = n + 1
    PROVE  Min(B) = Min(A)
<1>0. A \subseteq Nat OBVIOUS
<1>1. PICK m \in A : \A x \in A : m <= x BY <1>0, LeastMember
<1>2. \A x \in A : x \in Int /\ x <= n OBVIOUS
<1>3. m \in B /\ \A x \in B : m <= x BY <1>1, <1>2
<1>4. \A S : (S \subseteq Int /\ m \in S /\ \A x \in S : m =< x) => Min(S) = m
  <2>1. SUFFICES ASSUME NEW S, S \subseteq Int, m \in S, \A x \in S : m =< x
                 PROVE  Min(S) = m
    OBVIOUS
  <2>2. Min(S) \in S /\ \A x \in S : Min(S) =< x BY <2>1 DEF Min
  <2>3. Min(S) =< m /\ m =< Min(S) /\ Min(S) \in Int /\ m \in Int BY <2>1, <2>2
  <2>4. QED BY <2>3
<1>5. A \subseteq Int /\ B \subseteq Int BY <1>2
<1>6. QED BY <1>1, <1>3, <1>4, <1>5

LEMMA SameStrength ==
    ASSUME NEW b, NEW g, NEW n, Grown(b, g, n), NEW i \in 2..n, NEW size
    PROVE  StrengthVsRange(g, i, size) = StrengthVsRange(b, i, size)
<1> DEFINE first == i - ATR_LOOKBACK
           lo == Max({1, first})
           prev == i - 1
<1>1. first \in Int /\ prev \in Int /\ prev <= n BY Parameters DEF Grown
<1> HIDE DEF first
<1>2. lo \in Int /\ lo >= 1 BY <1>1, ExtremesOfTwo
<1> HIDE DEF lo, prev
<1>3. RangeSum(g, lo, prev) = RangeSum(b, lo, prev) BY <1>1, <1>2, SameRangeSum
<1>4. QED BY <1>3 DEF StrengthVsRange, lo, first, prev

-----------------------------------------------------------------------------
(* Fair value gaps. *)
GapLow(b, i, d)  == IF d = "bullish" THEN b[i - 2].h ELSE b[i].h
GapHigh(b, i, d) == IF d = "bullish" THEN b[i].l ELSE b[i - 2].l

FvgAt(b, i, d) ==
    [bar |-> i, direction |-> d, low |-> GapLow(b, i, d), high |-> GapHigh(b, i, d),
     strength |-> StrengthVsRange(b, i, GapHigh(b, i, d) - GapLow(b, i, d)),
     status |-> IF FvgFilled(b, i, d, GapLow(b, i, d), GapHigh(b, i, d))
                THEN "filled" ELSE "active"]

LEMMA GapsAre ==
    ASSUME NEW b
    PROVE  \A x : x \in DetectFvg(b)
              <=> \E i \in 3..Len(b), d \in Directions :
                     x = FvgAt(b, i, d) /\ GapLow(b, i, d) < GapHigh(b, i, d)
<1> DEFINE gap(i, direction) ==
              IF direction = "bullish" THEN [low |-> b[i - 2].h, high |-> b[i].l]
                                       ELSE [low |-> b[i].h, high |-> b[i - 2].l]
           fvg(i, direction) ==
              [bar |-> i, direction |-> direction, low |-> gap(i, direction).low,
               high |-> gap(i, direction).high,
               strength |-> StrengthVsRange(b, i, gap(i, direction).high - gap(i, direction).low),
               status |-> IF FvgFilled(b, i, direction, gap(i, direction).low, gap(i, direction).high)
                          THEN "filled" ELSE "active"]
<1>1. DetectFvg(b) = {f \in {fvg(i, d) : i \in 3..Len(b), d \in Directions} : f.low < f.high}
  BY DEF DetectFvg
<1>2. \A i, d : gap(i, d).low = GapLow(b, i, d) /\ gap(i, d).high = GapHigh(b, i, d)
  BY DEF GapLow, GapHigh
<1> HIDE DEF gap
<1>3. \A i, d : fvg(i, d) = FvgAt(b, i, d) BY <1>2 DEF FvgAt
<1> HIDE DEF fvg
<1>4. \A i, d : FvgAt(b, i, d).low = GapLow(b, i, d) /\ FvgAt(b, i, d).high = GapHigh(b, i, d)
  BY DEF FvgAt
<1>5. QED BY <1>1, <1>3, <1>4

LEMMA GapsAge ==
    ASSUME NEW b, NEW g, NEW n, Grown(b, g, n), NEW x \in DetectFvg(b)
    PROVE  x \in DetectFvg(g)
           \/ (x.status = "active" /\ [x EXCEPT !.status = "filled"] \in DetectFvg(g))
<1>1. n \in Nat /\ Len(b) = n /\ Len(g) = n + 1 BY DEF Grown
<1>2. PICK i \in 3..n, d \in Directions : x = FvgAt(b, i, d) /\ GapLow(b, i, d) < GapHigh(b, i, d)
  BY <1>1, GapsAre
<1>3. g[i] = b[i] /\ g[i - 2] = b[i - 2] BY DEF Grown
<1>4. GapLow(g, i, d) = GapLow(b, i, d) /\ GapHigh(g, i, d) = GapHigh(b, i, d)
  BY <1>3 DEF GapLow, GapHigh
<1> DEFINE low == GapLow(b, i, d)
           high == GapHigh(b, i, d)
           size == high - low
           was == FvgFilled(b, i, d, low, high)
           is  == FvgFilled(g, i, d, low, high)
           strength == StrengthVsRange(b, i, size)
           gap(s) == [bar |-> i, direction |-> d, low |-> low, high |-> high,
                      strength |-> strength, status |-> s]
<1>5. i \in 2..n BY <1>1
<1> HIDE DEF low, high, size
<1>6. StrengthVsRange(g, i, size) = strength BY <1>5, SameStrength
<1>7. was => is
  <2>1. \A j \in (i + 1)..n : j \in (i + 1)..(n + 1) /\ g[j] = b[j] BY <1>1 DEF Grown
  <2>2. QED BY <2>1, <1>1 DEF FvgFilled
<1>8. FvgAt(b, i, d) = gap(IF was THEN "filled" ELSE "active") BY DEF FvgAt, low, high, size
<1>9. FvgAt(g, i, d) = gap(IF is THEN "filled" ELSE "active")
  BY <1>4, <1>6 DEF FvgAt, low, high, size
<1>10. FvgAt(g, i, d) \in DetectFvg(g)
  <2>1. i \in 3..Len(g) BY <1>1
  <2>2. QED BY <2>1, <1>2, <1>4, GapsAre
<1> HIDE DEF was, is, strength
<1>11. CASE was BY <1>2, <1>7, <1>8, <1>9, <1>10, <1>11
<1>12. CASE ~was /\ ~is BY <1>2, <1>8, <1>9, <1>10, <1>12
<1>13. CASE ~was /\ is
  <2>1. x = gap("active") BY <1>2, <1>8, <1>13
  <2>2. [x EXCEPT !.status = "filled"] = gap("filled") /\ x.status = "active" BY <2>1
  <2>3. QED BY <2>2, <1>9, <1>10, <1>13
<1>14. QED BY <1>11, <1>12, <1>13

-----------------------------------------------------------------------------
(* Displacements. *)
AverageSum(b, i) == RangeSum(b, i - ATR_LOOKBACK, i - 1)

Displaces(b, i) ==
    /\ AverageSum(b, i) > 0
    /\ (b[i].h - b[i].l) * ATR_LOOKBACK >= DISPLACEMENT_MULT * AverageSum(b, i)
    /\ 10 * Abs(b[i].c - b[i].o) >= 6 * (b[i].h - b[i].l)

DisplacementAt(b, i) ==
    [bar |-> i, direction |-> IF b[i].c > b[i].o THEN "bullish" ELSE "bearish",
     low |-> b[i].l, high |-> b[i].h,
     strength |-> Hundredths((b[i].h - b[i].l) * ATR_LOOKBACK, DISPLACEMENT_MULT * AverageSum(b, i))]

LEMMA DisplacementsAre ==
    ASSUME NEW b
    PROVE  DetectDisplacement(b)
              = {DisplacementAt(b, i) : i \in {i \in (ATR_LOOKBACK + 1)..Len(b) : Displaces(b, i)}}
BY DEF DetectDisplacement, DisplacementAt, Displaces, AverageSum

LEMMA DisplacementIs ==
    ASSUME NEW n \in Nat, NEW b \in Seq(ChartBar), Len(b) = n, NEW x \in DetectDisplacement(b)
    PROVE  x.bar \in 2..n /\ x.strength \in 0..100 /\ x.direction \in Directions
<1>1. PICK i \in (ATR_LOOKBACK + 1)..n : x = DisplacementAt(b, i) BY DisplacementsAre
<1>2. i \in 2..n /\ i \in 1..Len(b) BY Parameters
<1> DEFINE span == b[i].h - b[i].l
           sum == AverageSum(b, i)
           first == i - ATR_LOOKBACK
           prev == i - 1
           part == span * ATR_LOOKBACK
           whole == DISPLACEMENT_MULT * sum
<1>3. span \in Int BY <1>2, BarAt
<1>4. first \in Int /\ prev \in Int /\ first >= 1 /\ prev <= Len(b) BY <1>1, <1>2, Parameters
<1>5. sum \in Int
  <2> HIDE DEF first, prev
  <2>1. RangeSum(b, first, prev) \in Int BY <1>4, RangeSumIs
  <2>2. QED BY <2>1 DEF AverageSum, first, prev
<1> HIDE DEF span, sum
<1>6. part \in Int /\ whole \in Int BY <1>3, <1>5, Parameters
<1>7. x.bar = i /\ x.direction \in Directions /\ x.strength = Hundredths(part, whole)
  BY <1>1 DEF DisplacementAt, Directions, span, sum
<1> HIDE DEF part, whole
<1>8. x.strength \in 0..100 BY <1>6, <1>7, ShareIs
<1>9. QED BY <1>2, <1>7, <1>8

LEMMA DisplacementGrows ==
    ASSUME NEW b, NEW g, NEW n, Grown(b, g, n)
    PROVE  DetectDisplacement(b) \subseteq DetectDisplacement(g)
<1>1. n \in Nat /\ Len(b) = n /\ Len(g) = n + 1 BY DEF Grown
<1>2. SUFFICES ASSUME NEW i \in (ATR_LOOKBACK + 1)..n
               PROVE  /\ AverageSum(g, i) = AverageSum(b, i) /\ g[i] = b[i]
                      /\ i \in (ATR_LOOKBACK + 1)..(n + 1)
  <2>1. ASSUME NEW i \in (ATR_LOOKBACK + 1)..n
        PROVE  /\ i \in (ATR_LOOKBACK + 1)..(n + 1)
               /\ Displaces(g, i) <=> Displaces(b, i)
               /\ DisplacementAt(g, i) = DisplacementAt(b, i)
    BY <1>2 DEF Displaces, DisplacementAt
  <2>2. QED BY <2>1, <1>1, DisplacementsAre
<1> DEFINE first == i - ATR_LOOKBACK
           prev == i - 1
<1>3. first \in Int /\ prev \in Int /\ first >= 1 /\ prev <= n /\ i \in 1..n
  BY <1>1, Parameters
<1> HIDE DEF first, prev
<1>4. RangeSum(g, first, prev) = RangeSum(b, first, prev) BY <1>3, SameRangeSum
<1>5. g[i] = b[i] BY <1>3 DEF Grown
<1>6. i \in (ATR_LOOKBACK + 1)..(n + 1) BY <1>1, Parameters
<1>7. QED BY <1>4, <1>5, <1>6 DEF AverageSum, first, prev

(* Order blocks. *)
From(b, D, i, dir) == {d \in D : d.direction = dir /\ i \in LastOpposite(b, d)}

Strongest(ds) == CHOOSE d \in ds : \A e \in ds :
                    d.strength > e.strength \/ (d.strength = e.strength /\ d.bar <= e.bar)

BlockAt(b, D, i, dir) ==
    [bar |-> i, direction |-> dir, low |-> b[i].l, high |-> b[i].h,
     strength |-> Strongest(From(b, D, i, dir)).strength,
     displacement |-> Strongest(From(b, D, i, dir)).bar,
     since |-> Invalidated(b, i, dir),
     status |-> IF Invalidated(b, i, dir) = {} THEN "active" ELSE "invalidated"]

LEMMA BlocksAre ==
    ASSUME NEW b, NEW D
    PROVE  \A x : x \in DetectOrderBlocks(b, D)
              <=> \E i \in 1..Len(b), dir \in Directions :
                     From(b, D, i, dir) # {} /\ x = BlockAt(b, D, i, dir)
<1> DEFINE Bars == 1..Len(b)
           origins == {o \in Bars \X Directions : From(b, D, o[1], o[2]) # {}}
<1>1. DetectOrderBlocks(b, D) = {BlockAt(b, D, o[1], o[2]) : o \in origins}
  BY DEF DetectOrderBlocks, BlockAt, From, Strongest
<1> HIDE DEF Bars
<1>2. \A i \in Bars, d \in Directions :
         <<i, d>> \in Bars \X Directions /\ <<i, d>>[1] = i /\ <<i, d>>[2] = d OBVIOUS
<1>3. \A o \in origins : o[1] \in Bars /\ o[2] \in Directions OBVIOUS
<1>4. ASSUME NEW i \in Bars, NEW d \in Directions, From(b, D, i, d) # {}
      PROVE  BlockAt(b, D, i, d) \in {BlockAt(b, D, o[1], o[2]) : o \in origins}
  <2>1. <<i, d>> \in origins BY <1>2, <1>4
  <2> HIDE DEF origins
  <2>2. BlockAt(b, D, <<i, d>>[1], <<i, d>>[2]) \in {BlockAt(b, D, o[1], o[2]) : o \in origins}
    BY <2>1
  <2>3. QED BY <2>2, <1>2
<1>5. \A o \in origins : From(b, D, o[1], o[2]) # {} OBVIOUS
<1> HIDE DEF origins
<1>6. QED BY <1>1, <1>3, <1>4, <1>5 DEF Bars

(* Among displacements there is a strongest, the first among equals. *)
LEMMA StrongestIs ==
    ASSUME NEW ds, ds # {}, \A d \in ds : d.bar \in Nat /\ d.strength \in 0..100
    PROVE  /\ Strongest(ds) \in ds
           /\ \A e \in ds : Strongest(ds).strength >= e.strength
<1> DEFINE Weak == {100 - d.strength : d \in ds}
<1>1. Weak \subseteq Nat /\ Weak # {} OBVIOUS
<1> HIDE DEF Weak
<1>2. PICK w \in Weak : \A v \in Weak : w <= v BY <1>1, LeastMember
<1> DEFINE best == {d \in ds : 100 - d.strength = w}
           Bars == {d.bar : d \in best}
<1>3. Bars \subseteq Nat /\ Bars # {} BY <1>2 DEF Weak
<1> HIDE DEF Bars
<1>4. PICK i \in Bars : \A j \in Bars : i <= j BY <1>3, LeastMember
<1>5. PICK d \in best : d.bar = i BY <1>4 DEF Bars
<1>6. ASSUME NEW e \in ds
      PROVE  d.strength > e.strength \/ (d.strength = e.strength /\ d.bar <= e.bar)
  <2>1. 100 - e.strength \in Weak BY DEF Weak
  <2>2. 100 - d.strength <= 100 - e.strength BY <2>1, <1>2, <1>5
  <2>3. d.strength \in Int /\ e.strength \in Int BY <1>5
  <2>4. CASE d.strength > e.strength BY <2>4
  <2>5. CASE d.strength = e.strength
    <3>1. e \in best BY <2>5, <1>5
    <3>2. d.bar <= e.bar BY <3>1, <1>4, <1>5 DEF Bars
    <3>3. QED BY <2>5, <3>2
  <2>6. QED BY <2>2, <2>3, <2>4, <2>5
<1>7. Strongest(ds) \in ds /\ \A e \in ds :
         \/ Strongest(ds).strength > e.strength
         \/ Strongest(ds).strength = e.strength /\ Strongest(ds).bar <= e.bar
  <2>1. d \in ds BY <1>5
  <2>2. QED BY <2>1, <1>6 DEF Strongest
<1> DEFINE top == Strongest(ds)
<1>8. top.strength \in Int /\ \A e \in ds : e.strength \in Int BY <1>7
<1> HIDE DEF top
<1>9. \A e \in ds : top.strength >= e.strength BY <1>7, <1>8 DEF top
<1>10. QED BY <1>7, <1>9 DEF top

LEMMA SameOpposite ==
    ASSUME NEW b, NEW g, NEW n, Grown(b, g, n), NEW d, d.bar \in 2..n
    PROVE  LastOpposite(g, d) = LastOpposite(b, d)
<1> DEFINE first == d.bar - BlockLookback
           lo == Max({1, first})
<1>1. first \in Int BY Parameters DEF Grown
<1> HIDE DEF first
<1>2. lo \in Int /\ lo >= 1 BY <1>1, ExtremesOfTwo
<1> HIDE DEF lo
<1>3. \A i \in lo..(d.bar - 1) : g[i] = b[i] BY <1>2 DEF Grown
<1> DEFINE found(c) == {i \in lo..(d.bar - 1) : IF d.direction = "bullish" THEN c[i].c < c[i].o
                                                                         ELSE c[i].c > c[i].o}
<1>4. found(g) = found(b) BY <1>3
<1>5. /\ LastOpposite(b, d) = IF found(b) = {} THEN {} ELSE {Max(found(b))}
      /\ LastOpposite(g, d) = IF found(g) = {} THEN {} ELSE {Max(found(g))}
  BY DEF LastOpposite, lo, first
<1>6. QED BY <1>4, <1>5

(* An invalidated block stays so, from the same bar on. *)
LEMMA SinceStays ==
    ASSUME NEW b, NEW g, NEW n, Grown(b, g, n), NEW i \in 1..n, NEW dir,
           Invalidated(b, i, dir) # {}
    PROVE  Invalidated(g, i, dir) = Invalidated(b, i, dir)
<1> DEFINE beyond(c) == {j \in (i + 1)..Len(c) :
                            IF dir = "bullish" THEN c[j].c < c[i].l ELSE c[j].c > c[i].h}
<1>1. n \in Nat /\ Len(b) = n /\ Len(g) = n + 1 /\ \A j \in 1..n : g[j] = b[j] BY DEF Grown
<1>2. \A c : Invalidated(c, i, dir) = IF beyond(c) = {} THEN {} ELSE {Min(beyond(c))}
  BY DEF Invalidated
<1> DEFINE A == beyond(b)
           B == beyond(g)
<1>3. A \subseteq 1..n BY <1>1
<1>4. A # {} BY <1>2
<1>5. A \subseteq B /\ \A x \in B \ A : x = n + 1
  <2>1. \A j \in (i + 1)..n : j \in (i + 1)..(n + 1) /\ g[j] = b[j] BY <1>1
  <2>2. \A j \in (i + 1)..(n + 1) : j \in (i + 1)..n \/ j = n + 1 BY <1>1
  <2>3. g[i] = b[i] BY <1>1
  <2>4. QED BY <1>1, <2>1, <2>2, <2>3
<1> HIDE DEF beyond, A, B
<1>6. Min(B) = Min(A) BY <1>1, <1>3, <1>4, <1>5, FirstStays
<1>7. B # {} BY <1>4, <1>5
<1>8. QED BY <1>2, <1>4, <1>6, <1>7 DEF A, B

(* The block that stands a bar later for an order block. *)
Succeeds(m, x) ==
    /\ <<m.bar, m.direction, m.low, m.high>> = <<x.bar, x.direction, x.low, x.high>>
    /\ m.strength >= x.strength
    /\ x.since # {} => m.since = x.since

LEMMA BlocksAge ==
    ASSUME NEW b, NEW g, NEW n, Grown(b, g, n),
           NEW x \in DetectOrderBlocks(b, DetectDisplacement(b))
    PROVE  \E m \in DetectOrderBlocks(g, DetectDisplacement(g)) : Succeeds(m, x)
<1> DEFINE D == DetectDisplacement(b)
           E == DetectDisplacement(g)
<1>1. n \in Nat /\ Len(b) = n /\ Len(g) = n + 1 /\ b \in Seq(ChartBar) /\ g \in Seq(ChartBar)
  BY DEF Grown
<1>2. D \subseteq E BY DisplacementGrows
<1>3. /\ \A d \in D : d.bar \in 2..n /\ d.strength \in 0..100
      /\ \A d \in E : d.bar \in Nat /\ d.strength \in 0..100
  <2> DEFINE m == n + 1
  <2>1. m \in Nat /\ Len(g) = m BY <1>1
  <2> HIDE DEF m
  <2>2. \A d \in E : d.bar \in 2..m /\ d.strength \in 0..100 BY <1>1, <2>1, DisplacementIs
  <2>3. \A d \in D : d.bar \in 2..n /\ d.strength \in 0..100 BY <1>1, DisplacementIs
  <2>4. QED BY <2>2, <2>3
<1> HIDE DEF D, E
<1>4. PICK i \in 1..n, dir \in Directions : From(b, D, i, dir) # {} /\ x = BlockAt(b, D, i, dir)
  BY <1>1, BlocksAre DEF D
<1> DEFINE A == From(b, D, i, dir)
           B == From(g, E, i, dir)
           m == BlockAt(g, E, i, dir)
<1>5. A \subseteq B
  <2>1. \A d \in D : LastOpposite(g, d) = LastOpposite(b, d) BY <1>3, SameOpposite
  <2>2. QED BY <2>1, <1>2 DEF From
<1>6. A # {} /\ B # {} BY <1>4, <1>5
<1>7. /\ \A d \in A : d.bar \in Nat /\ d.strength \in 0..100
      /\ \A d \in B : d.bar \in Nat /\ d.strength \in 0..100
  BY <1>3 DEF From
<1>8. m \in DetectOrderBlocks(g, E)
  <2>1. i \in 1..Len(g) BY <1>1
  <2>2. QED BY <2>1, <1>6, BlocksAre
<1>9. g[i] = b[i] BY DEF Grown
<1>10. /\ x.bar = i /\ x.direction = dir /\ x.low = b[i].l /\ x.high = b[i].h
       /\ x.strength = Strongest(A).strength /\ x.since = Invalidated(b, i, dir)
  BY <1>4 DEF BlockAt
<1>11. /\ m.bar = i /\ m.direction = dir /\ m.low = g[i].l /\ m.high = g[i].h
       /\ m.strength = Strongest(B).strength /\ m.since = Invalidated(g, i, dir)
  BY DEF BlockAt
<1> HIDE DEF A, B, m
<1>12. Strongest(A) \in A BY <1>6, <1>7, StrongestIs
<1>13. \A e \in B : Strongest(B).strength >= e.strength BY <1>6, <1>7, StrongestIs
<1>14. m.strength >= x.strength BY <1>5, <1>10, <1>11, <1>12, <1>13
<1>15. x.since # {} => m.since = x.since BY <1>10, <1>11, SinceStays
<1>16. Succeeds(m, x) BY <1>9, <1>10, <1>11, <1>14, <1>15 DEF Succeeds
<1>17. QED BY <1>8, <1>16 DEF E

(* A breaker block stays: its bar is the first that reclaims the block. *)
Reclaimed(b, x) ==
    {i \in 1..Len(b) : /\ \E j \in x.since : i > j
                       /\ IF x.direction = "bullish" THEN b[i].c > x.high ELSE b[i].c < x.low}

Breaker(b, x) == [bar |-> Min(Reclaimed(b, x)), source |-> x.bar, direction |-> x.direction,
                  low |-> x.low, high |-> x.high]

LEMMA BreakersAre ==
    ASSUME NEW b, NEW blocks
    PROVE  DetectBreakerBlocks(b, blocks)
              = {Breaker(b, x) : x \in {x \in blocks : Reclaimed(b, x) # {}}}
BY DEF DetectBreakerBlocks, Breaker, Reclaimed

LEMMA BreakersStay ==
    ASSUME NEW b, NEW g, NEW n, Grown(b, g, n)
    PROVE  DetectBreakerBlocks(b, DetectOrderBlocks(b, DetectDisplacement(b)))
              \subseteq DetectBreakerBlocks(g, DetectOrderBlocks(g, DetectDisplacement(g)))
<1> DEFINE old == DetectOrderBlocks(b, DetectDisplacement(b))
           new == DetectOrderBlocks(g, DetectDisplacement(g))
<1>1. n \in Nat /\ Len(b) = n /\ Len(g) = n + 1 /\ \A j \in 1..n : g[j] = b[j] BY DEF Grown
<1>2. \A x \in old : \E m \in new : Succeeds(m, x) BY BlocksAge
<1> HIDE DEF old, new
<1>3. ASSUME NEW x \in old, Reclaimed(b, x) # {}
      PROVE  \E m \in new : Reclaimed(g, m) # {} /\ Breaker(g, m) = Breaker(b, x)
  <2>1. PICK m \in new : Succeeds(m, x) BY <1>2
  <2> DEFINE A == Reclaimed(b, x)
             B == Reclaimed(g, m)
  <2>2. x.since # {} BY <1>3 DEF Reclaimed
  <2>3. /\ m.bar = x.bar /\ m.direction = x.direction /\ m.low = x.low /\ m.high = x.high
        /\ m.since = x.since
    BY <2>1, <2>2 DEF Succeeds
  <2>4. A \subseteq 1..n BY <1>1 DEF Reclaimed
  <2>5. A \subseteq B /\ \A i \in B \ A : i = n + 1
    <3>1. \A j \in 1..n : j \in 1..(n + 1) /\ g[j] = b[j] BY <1>1
    <3>2. \A j \in 1..(n + 1) : j \in 1..n \/ j = n + 1 BY <1>1
    <3>3. QED BY <1>1, <2>3, <3>1, <3>2 DEF Reclaimed
  <2>6. A # {} BY <1>3
  <2> HIDE DEF A, B
  <2>7. Min(B) = Min(A) BY <1>1, <2>4, <2>5, <2>6, FirstStays
  <2>8. Breaker(g, m) = Breaker(b, x) BY <2>3, <2>7 DEF Breaker, A, B
  <2>9. B # {} BY <2>5, <2>6
  <2>10. QED BY <2>8, <2>9 DEF B
<1>4. QED BY <1>3, BreakersAre DEF old, new

-----------------------------------------------------------------------------
(* The chart. *)

ChartInv ==
    /\ bars \in Seq(ChartBar)
    /\ structure = Analyze(bars)
    /\ smc = AnalyzeSmc(bars)

LEMMA NewBarIs ==
    ASSUME bars \in Seq(ChartBar), NEW m \in Moves
    PROVE  NewBar(m) \in ChartBar
<1> DEFINE open == IF bars = <<>> THEN Start ELSE Last(bars).c
           close == open + m.by
<1>1. open \in Int
  <2>1. CASE bars = <<>> BY <2>1, Parameters
  <2>2. CASE bars # <<>>
    <3>1. PICK n \in Nat : Len(bars) = n OBVIOUS
    <3>2. n \in 1..Len(bars) BY <2>2, <3>1
    <3>3. bars[n].c \in Int BY <3>2, BarAt
    <3>4. QED BY <2>2, <3>1, <3>3 DEF Last
  <2>3. QED BY <2>1, <2>2
<1> HIDE DEF open
<1>2. close \in Int BY <1>1, Parameters
<1> HIDE DEF close
<1>3. Max({open, close}) \in Int /\ Min({open, close}) \in Int BY <1>1, <1>2, ExtremesOfTwo
<1>4. NewBar(m) = [o |-> open, c |-> close, h |-> Max({open, close}) + m.up,
                   l |-> Min({open, close}) - m.down]
  BY DEF NewBar, open, close
<1>5. QED BY <1>1, <1>2, <1>3, <1>4, Parameters DEF ChartBar

LEMMA ChartStarts == ChartInit => ChartInv
BY DEF ChartInit, ChartInv

LEMMA BarGrows ==
    ASSUME ChartInv, ChartGrows
    PROVE  ChartInv' /\ Grown(bars, bars', Len(bars))
<1>1. PICK m \in Moves : bars' = Append(bars, NewBar(m)) BY DEF ChartGrows
<1>2. bars \in Seq(ChartBar) BY DEF ChartInv
<1>3. NewBar(m) \in ChartBar BY <1>2, NewBarIs
<1> DEFINE x == NewBar(m)
<1> HIDE DEF x
<1>4. x \in ChartBar BY <1>3 DEF x
<1>5. /\ Append(bars, x) \in Seq(ChartBar) /\ Len(bars) \in Nat
      /\ Len(Append(bars, x)) = Len(bars) + 1
      /\ \A i \in 1..Len(bars) : Append(bars, x)[i] = bars[i]
  BY <1>2, <1>4
<1>6. Grown(bars, bars', Len(bars)) BY <1>1, <1>2, <1>5 DEF Grown, x
<1>7. bars' \in Seq(ChartBar) BY <1>1, <1>5 DEF x
<1>8. QED BY <1>6, <1>7 DEF ChartGrows, ChartInv

LEMMA ChartInvKept == ChartInv /\ [ChartNext]_detVars => ChartInv'
<1>1. SUFFICES ASSUME ChartInv, [ChartNext]_detVars PROVE ChartInv' OBVIOUS
<1>2. CASE ChartGrows BY <1>1, <1>2, BarGrows
<1>3. CASE UNCHANGED detVars BY <1>1, <1>3 DEF ChartInv, detVars
<1>4. QED BY <1>1, <1>2, <1>3 DEF ChartNext

(* The bars are well formed and both answers are those for the bars, which *)
(* is what the theorems about the series rest on (analyze, analyze_smc).   *)
THEOREM ChartIsAnalysed == ChartSpec => []ChartInv
<1>1. ChartInit => ChartInv BY ChartStarts
<1>2. ChartInv /\ [ChartNext]_detVars => ChartInv' BY ChartInvKept
<1>3. QED BY <1>1, <1>2, PTL DEF ChartSpec

(* RetestsAreLive: whatever is asked for, every retest reported is of the  *)
(* latest breakout, on a level that no close since has lost.               *)
THEOREM RetestsAlwaysLive == ChartSpec => []RetestsAreLive
<1>1. ChartInv => RetestsAreLive
  <2>1. SUFFICES ASSUME ChartInv, NEW r \in structure.retests
                 PROVE  RetestLive(r, structure.breakouts, bars, Len(bars))
    BY DEF RetestsAreLive, RetestLive, OnSide
  <2>2. bars \in Seq(ChartBar) /\ structure = Analyze(bars) BY <2>1 DEF ChartInv
  <2>3. QED BY <2>1, <2>2, AnalysisLive
<1>2. QED BY <1>1, ChartIsAnalysed, PTL

(* ObjectsOnlyAge: with every bar the gaps and order blocks there were are *)
(* still there, older or as they were (detect_fvg, detect_order_blocks).   *)
THEOREM ObjectsAlwaysAge == ChartSpec => ObjectsOnlyAge
<1> DEFINE Ages ==
       /\ \A g \in smc.fvg :
             g \in smc'.fvg \/ (g.status = "active" /\ [g EXCEPT !.status = "filled"] \in smc'.fvg)
       /\ \A b \in smc.blocks : \E n \in smc'.blocks :
             /\ <<n.bar, n.direction, n.low, n.high>> = <<b.bar, b.direction, b.low, b.high>>
             /\ n.strength >= b.strength
             /\ b.since # {} => n.since = b.since
<1>1. ChartInv /\ [ChartNext]_detVars => [Ages]_detVars
  <2>1. SUFFICES ASSUME ChartInv, ChartGrows PROVE Ages BY DEF ChartNext
  <2>2. Grown(bars, bars', Len(bars)) BY <2>1, BarGrows
  <2>3. smc = AnalyzeSmc(bars) /\ smc' = AnalyzeSmc(bars') BY <2>1 DEF ChartInv, ChartGrows
  <2>4. /\ smc.fvg = DetectFvg(bars) /\ smc'.fvg = DetectFvg(bars')
        /\ smc.blocks = DetectOrderBlocks(bars, DetectDisplacement(bars))
        /\ smc'.blocks = DetectOrderBlocks(bars', DetectDisplacement(bars'))
    BY <2>3 DEF AnalyzeSmc
  <2>5. \A g \in smc.fvg :
           g \in smc'.fvg \/ (g.status = "active" /\ [g EXCEPT !.status = "filled"] \in smc'.fvg)
    <3>1. ASSUME NEW g \in DetectFvg(bars)
          PROVE  \/ g \in DetectFvg(bars')
                 \/ /\ g.status = "active"
                    /\ [g EXCEPT !.status = "filled"] \in DetectFvg(bars')
      BY <2>2, GapsAge
    <3>2. QED BY <2>4, <3>1
  <2>6. \A b \in smc.blocks : \E n \in smc'.blocks : Succeeds(n, b) BY <2>2, <2>4, BlocksAge
  <2>7. QED BY <2>5, <2>6 DEF Succeeds
<1>2. QED BY <1>1, ChartIsAnalysed, PTL DEF ChartSpec, ObjectsOnlyAge

LEMMA AnalysisGrows ==
    ASSUME UsualRequest, NEW b, NEW g, NEW n, Grown(b, g, n)
    PROVE  /\ \A f \in DOMAIN Analyze(b) : Analyze(b)[f] \subseteq Analyze(g)[f]
           /\ \A f \in {"bos", "choch", "regimes", "breakouts", "retests"} :
                 \A x \in Analyze(g)[f] \ Analyze(b)[f] : x.bar = n + 1
<1> DEFINE S == Classify(DetectSwings(b, Left, Right))
           T == Classify(DetectSwings(g, Left, Right))
<1>0. Right <= Right BY Parameters
<1>1. KnownGrows(S, T, n, Right)
  <2>1. Left \in Nat /\ Right \in Nat /\ Right >= SWING_RIGHT BY Parameters DEF UsualRequest
  <2>2. KnownGrows(DetectSwings(b, Left, Right), DetectSwings(g, Left, Right), n, Right)
    BY <2>1, SwingsGrow
  <2>3. QED BY <2>2, ClassifyGrows
<1>2. StructureOr(b, S) = S /\ StructureOr(g, T) = T BY UsualStructure
<1>3. /\ Analyze(b).swings = S /\ Analyze(g).swings = T
      /\ Analyze(b).bos = Breaks(b, S, HighBreak, LowBreak)
      /\ Analyze(g).bos = Breaks(g, T, HighBreak, LowBreak)
      /\ Analyze(b).choch = Breaks(b, S, LowBreak, HighBreak)
      /\ Analyze(g).choch = Breaks(g, T, LowBreak, HighBreak)
      /\ Analyze(b).regimes = DetectRegimeChanges(b, S)
      /\ Analyze(g).regimes = DetectRegimeChanges(g, T)
      /\ Analyze(b).breakouts = Loop(b, S).breakouts
      /\ Analyze(g).breakouts = Loop(g, T).breakouts
      /\ Analyze(b).retests = Loop(b, S).retests
      /\ Analyze(g).retests = Loop(g, T).retests
  BY <1>2, PassIs DEF Analyze, DetectBos, DetectChoch
<1>4. DOMAIN Analyze(b) = {"swings", "bos", "choch", "regimes", "breakouts", "retests"}
  BY DEF Analyze
<1> HIDE DEF S, T
<1>5. S \subseteq T BY <1>1 DEF KnownGrows
<1>6. \A up, down : /\ Breaks(b, S, up, down) \subseteq Breaks(g, T, up, down)
                   /\ \A x \in Breaks(g, T, up, down) \ Breaks(b, S, up, down) : x.bar = n + 1
  BY <1>0, <1>1, BreaksGrow
<1>7. /\ DetectRegimeChanges(b, S) \subseteq DetectRegimeChanges(g, T)
      /\ \A x \in DetectRegimeChanges(g, T) \ DetectRegimeChanges(b, S) : x.bar = n + 1
  BY <1>1, <1>2, RegimesGrow
<1> DEFINE old == Loop(b, S)
           new == Loop(g, T)
<1>8. \A f \in {"breakouts", "retests"} :
         old[f] \subseteq new[f] /\ \A x \in new[f] \ old[f] : x.bar = n + 1
  BY <1>0, <1>1, PassGrows
<1> HIDE DEF old, new
<1>9. /\ old.breakouts \subseteq new.breakouts /\ old.retests \subseteq new.retests
      /\ \A x \in new.breakouts \ old.breakouts : x.bar = n + 1
      /\ \A x \in new.retests \ old.retests : x.bar = n + 1
  BY <1>8
<1>10. QED BY <1>3, <1>4, <1>5, <1>6, <1>7, <1>9 DEF old, new

(* NoRepaint: for a request that confirms swings as the code does by       *)
(* default, or with fewer bars to the left, analysing one bar more of the  *)
(* same series changes nothing of the structure found without it and adds  *)
(* breaks at the new bar only.                                             *)
THEOREM NeverRepainted ==
    ASSUME UsualRequest
    PROVE  ChartSpec => NoRepaint
<1> DEFINE Stays ==
       /\ \A f \in DOMAIN structure : structure[f] \subseteq structure'[f]
       /\ \A f \in {"bos", "choch", "regimes", "breakouts", "retests"} :
             \A x \in structure'[f] \ structure[f] : x.bar = Len(bars')
       /\ smc.displacement \subseteq smc'.displacement
       /\ smc.breakers \subseteq smc'.breakers
<1>1. ChartInv /\ [ChartNext]_detVars => [Stays]_detVars
  <2>1. SUFFICES ASSUME ChartInv, ChartGrows PROVE Stays BY DEF ChartNext
  <2>2. Grown(bars, bars', Len(bars)) BY <2>1, BarGrows
  <2>3. /\ structure = Analyze(bars) /\ structure' = Analyze(bars')
        /\ smc = AnalyzeSmc(bars) /\ smc' = AnalyzeSmc(bars')
    BY <2>1 DEF ChartInv, ChartGrows
  <2>4. /\ smc.displacement = DetectDisplacement(bars)
        /\ smc'.displacement = DetectDisplacement(bars')
        /\ smc.breakers = DetectBreakerBlocks(bars, DetectOrderBlocks(bars, DetectDisplacement(bars)))
        /\ smc'.breakers
              = DetectBreakerBlocks(bars', DetectOrderBlocks(bars', DetectDisplacement(bars')))
    BY <2>3 DEF AnalyzeSmc
  <2>5. smc.displacement \subseteq smc'.displacement BY <2>2, <2>4, DisplacementGrows
  <2>6. smc.breakers \subseteq smc'.breakers BY <2>2, <2>4, BreakersStay
  <2>7. /\ \A f \in DOMAIN Analyze(bars) : Analyze(bars)[f] \subseteq Analyze(bars')[f]
        /\ \A f \in {"bos", "choch", "regimes", "breakouts", "retests"} :
              \A x \in Analyze(bars')[f] \ Analyze(bars)[f] : x.bar = Len(bars) + 1
    BY <2>2, AnalysisGrows
  <2>8. Len(bars') = Len(bars) + 1 BY <2>2 DEF Grown
  <2>9. QED BY <2>3, <2>5, <2>6, <2>7, <2>8
<1>2. QED BY <1>1, ChartIsAnalysed, PTL DEF ChartSpec, NoRepaint

-----------------------------------------------------------------------------
(* Breaks, whatever structure they are looked for in. *)

LEMMA NoSwingsNoBreaks ==
    ASSUME NEW b, NEW up, NEW down
    PROVE  Breaks(b, {}, up, down) = {}
<1>1. \A p, delay, i : LastSwing({}, p, delay, i) = {} BY DEF LastSwing
<1>2. RegimeFrom({}, {}) = "range" BY DEF RegimeFrom
<1>3. \A i : BreaksAt(b, {}, up, down, i) = {} BY <1>1, <1>2 DEF BreaksAt
<1>4. QED BY <1>3 DEF Breaks

LEMMA NoSwingsNoBreakouts ==
    ASSUME NEW n \in Nat, NEW b, Len(b) = n
    PROVE  Loop(b, {}).breakouts = {}
<1> DEFINE u == CHOOSE u : Passes(u, b, {})
<1>1. Passes(u, b, {})
  <2>1. \E f : Passes(f, b, {}) BY PassExists
  <2>2. QED BY <2>1
<1>2. Loop(b, {}) = u[n] BY DEF Loop
<1> HIDE DEF u
<1>3. /\ \A i \in 0..n : i <= 1 => u[i] = NothingYet
      /\ \A i \in 2..n : u[i] = PassBar(b, {}, u[i - 1], i)
  BY <1>1, PassAt
<1> DEFINE Empty(acc) == IsAcc(acc) /\ acc.breakouts = {}
           Good == {k \in Nat : k <= n => Empty(u[k])}
<1>4. Empty(NothingYet) BY DEF NothingYet, IsAcc
<1>5. ASSUME NEW acc, Empty(acc), NEW i PROVE Empty(PassBar(b, {}, acc, i))
  <2>1. \A k : Broken(b, {}, i, k) = {} BY DEF Broken, LastSwing
  <2>2. NewAt(b, {}, i) = {} BY <2>1 DEF NewAt
  <2>3. QED BY <1>5, <2>2, PassBarIs
<1> HIDE DEF Empty
<1>6. 0 \in Good BY <1>3, <1>4
<1>7. ASSUME NEW k \in Nat, k \in Good PROVE k + 1 \in Good
  <2> DEFINE i == k + 1
  <2>1. CASE i <= n /\ i <= 1
    <3>1. i \in 0..n /\ i <= 1 /\ i \in Nat BY <2>1
    <3> HIDE DEF i
    <3>2. QED BY <1>3, <1>4, <3>1 DEF i
  <2>2. CASE i <= n /\ i > 1
    <3>1. i \in 2..n /\ i - 1 = k /\ Empty(u[k]) BY <1>7, <2>2
    <3>2. u[i] = PassBar(b, {}, u[k], i) BY <1>3, <3>1
    <3>3. Empty(u[i]) BY <1>5, <3>1, <3>2
    <3>4. QED BY <3>3
  <2>3. QED BY <2>1, <2>2
<1> HIDE DEF Good
<1>8. n \in Good BY <1>6, <1>7, Induction
<1>9. QED BY <1>2, <1>8 DEF Good, Empty

(* The structure that breaks are looked for in. *)
Looked(b) == StructureOr(b, Classify(DetectSwings(b, Left, Right)))

LEMMA BreaksOfAnalysis ==
    ASSUME NEW b
    PROVE  /\ Analyze(b).bos = Breaks(b, Looked(b), HighBreak, LowBreak)
           /\ Analyze(b).choch = Breaks(b, Looked(b), LowBreak, HighBreak)
           /\ Analyze(b).breakouts = Loop(b, Looked(b)).breakouts
BY PassIs DEF Analyze, DetectBos, DetectChoch, Looked

(* It is the requested one, once that has a swing, and the default one     *)
(* before: what it gains with a bar is confirmed by that bar, or else it   *)
(* was all confirmed by that bar.                                          *)
LEMMA LookedGrows ==
    ASSUME Right >= SWING_RIGHT, NEW b, NEW g, NEW n, Grown(b, g, n)
    PROVE  \E S \in {Looked(b), {}}, right \in Nat :
              right <= Right /\ KnownGrows(S, Looked(g), n, right)
<1> DEFINE asked(c) == Classify(DetectSwings(c, Left, Right))
           usual(c) == Classify(DetectSwings(c, SWING_LEFT, SWING_RIGHT))
<1>1. Left \in Nat /\ Right \in Nat /\ SWING_LEFT \in Nat /\ SWING_RIGHT \in Nat
      /\ Right >= SWING_RIGHT /\ Right <= Right /\ SWING_RIGHT >= SWING_RIGHT
  BY Parameters
<1>2. KnownGrows(asked(b), asked(g), n, Right) BY <1>1, SwingsGrow, ClassifyGrows
<1>3. KnownGrows(usual(b), usual(g), n, SWING_RIGHT) BY <1>1, SwingsGrow, ClassifyGrows
<1>4. \A c : Looked(c) = IF asked(c) # {} THEN asked(c) ELSE usual(c)
  BY DEF Looked, StructureOr
<1> HIDE DEF asked, usual
<1>5. CASE asked(b) # {}
  <2>1. asked(g) # {} BY <1>2, <1>5 DEF KnownGrows
  <2>2. Looked(b) = asked(b) /\ Looked(g) = asked(g) BY <1>4, <1>5, <2>1
  <2>3. QED BY <1>1, <1>2, <2>2
<1>6. CASE asked(b) = {} /\ asked(g) = {}
  <2>1. Looked(b) = usual(b) /\ Looked(g) = usual(g) BY <1>4, <1>6
  <2>2. QED BY <1>1, <1>3, <2>1
<1>7. CASE asked(b) = {} /\ asked(g) # {}
  <2>1. Looked(g) = asked(g) BY <1>4, <1>7
  <2>2. KnownGrows({}, Looked(g), n, Right) BY <1>2, <1>7, <2>1
  <2>3. QED BY <1>1, <2>2
<1>8. QED BY <1>5, <1>6, <1>7

(* NoFutureInBreaks, which detect_bos promises: it holds of every request  *)
(* that confirms a swing by at least as many bars as the default.          *)
THEOREM BreaksSeeNoFuture ==
    ASSUME Right >= SWING_RIGHT
    PROVE  ChartSpec => NoFutureInBreaks
<1> DEFINE NotLater == \A f \in {"bos", "choch", "breakouts"} :
                      \A x \in structure'[f] \ structure[f] : x.bar = Len(bars')
<1>1. ChartInv /\ [ChartNext]_detVars => [NotLater]_detVars
  <2>1. SUFFICES ASSUME ChartInv, ChartGrows PROVE NotLater BY DEF ChartNext
  <2> DEFINE b == bars
             g == bars'
             n == Len(bars)
  <2>2. Grown(b, g, n) BY <2>1, BarGrows
  <2>3. structure = Analyze(b) /\ structure' = Analyze(g) BY <2>1 DEF ChartInv, ChartGrows
  <2>4. n \in Nat /\ Len(b) = n /\ Len(g) = n + 1 BY <2>2 DEF Grown
  <2> HIDE DEF b, g, n
  <2>5. PICK S \in {Looked(b), {}}, right \in Nat :
           right <= Right /\ KnownGrows(S, Looked(g), n, right)
    BY <2>2, LookedGrows
  <2> DEFINE T == Looked(g)
  <2> HIDE DEF T
  <2>6. right <= Right /\ KnownGrows(S, T, n, right) BY <2>5 DEF T
  <2>7. \A up, down : \A x \in Breaks(g, T, up, down) \ Breaks(b, S, up, down) : x.bar = n + 1
    BY <2>2, <2>6, BreaksGrow
  <2>8. \A x \in Loop(g, T).breakouts \ Loop(b, S).breakouts : x.bar = n + 1
    <3> DEFINE f == "breakouts"
    <3>1. f \in {"breakouts", "retests"} OBVIOUS
    <3> HIDE DEF f
    <3>2. \A x \in Loop(g, T)[f] \ Loop(b, S)[f] : x.bar = n + 1
      BY <2>2, <2>6, <3>1, PassGrows
    <3>3. QED BY <3>2 DEF f
  <2>9. /\ \A up, down : Breaks(b, S, up, down) \subseteq Breaks(b, Looked(b), up, down)
        /\ Loop(b, S).breakouts \subseteq Loop(b, Looked(b)).breakouts
    <3>1. CASE S = {} BY <2>4, <3>1, NoSwingsNoBreaks, NoSwingsNoBreakouts
    <3>2. CASE S = Looked(b) BY <3>2
    <3>3. QED BY <2>5, <3>1, <3>2
  <2>10. \A x \in structure'.bos \ structure.bos : x.bar = n + 1
    BY <2>3, <2>7, <2>9, BreaksOfAnalysis DEF T
  <2>11. \A x \in structure'.choch \ structure.choch : x.bar = n + 1
    BY <2>3, <2>7, <2>9, BreaksOfAnalysis DEF T
  <2>12. \A x \in structure'.breakouts \ structure.breakouts : x.bar = n + 1
    BY <2>3, <2>8, <2>9, BreaksOfAnalysis DEF T
  <2>13. QED BY <2>4, <2>10, <2>11, <2>12 DEF g
<1>2. QED BY <1>1, ChartIsAnalysed, PTL DEF ChartSpec, NoFutureInBreaks
=============================================================================
