-------------------------- MODULE MarketStructure ---------------------------
(***************************************************************************)
(* The market-structure detectors: services/market_structure.py.           *)
(*                                                                         *)
(* Pure functions of a series of closed bars [o, h, l, c], indexed from 1. *)
(* A detected element keeps its bar, its level and what it rests on; the   *)
(* strengths, fractions in the code, are counted in hundredths.            *)
(***************************************************************************)
EXTENDS Integers, Sequences, FiniteSetsExt, SequencesExt

CONSTANTS
    SWING_LEFT, SWING_RIGHT,     \* bars that confirm a swing by default
    Left, Right,                 \* the ones the request asks for
    Window,                      \* labels that vote on the regime
    MinBars,                     \* bars a level stands before it can break out
    Lookback                     \* bars a break's strength is measured against

ASSUME StructureAssumption ==
    /\ {SWING_LEFT, Left, Window, Lookback} \subseteq Nat \ {0}
    /\ {SWING_RIGHT, Right, MinBars} \subseteq Nat

Hundredths(part, whole) == IF whole <= 0 THEN 100 ELSE Max({0, Min({100, (100 * part) \div whole})})

High(bars, from, to) == Max({bars[j].h : j \in from..to})
Low(bars, from, to)  == Min({bars[j].l : j \in from..to})
Abs(x)               == IF x < 0 THEN -x ELSE x

Polarities == {"high", "low"}

RangeSum(bars, from, to) ==
    SumFunctionOnSet([j \in from..to |-> bars[j].h - bars[j].l], from..to)

-----------------------------------------------------------------------------
(* _swing_strength looks at the default window whatever was asked for. *)
SwingStrength(bars, i, polarity) ==
    LET lo   == Max({1, i - SWING_LEFT})
        hi   == Min({Len(bars), i + SWING_RIGHT})
        span == High(bars, lo, hi) - Low(bars, lo, hi)
    IN  Hundredths(IF polarity = "high" THEN bars[i].h - Low(bars, lo, hi)
                   ELSE High(bars, lo, hi) - bars[i].l, span)

IsSwing(bars, i, polarity, left, right) ==
    \A j \in (i - left)..(i + right) \ {i} :
        IF polarity = "high" THEN bars[i].h > bars[j].h ELSE bars[i].l < bars[j].l

Swing(bars, i, polarity) ==
    [bar |-> i, polarity |-> polarity, label |-> "none",
     price |-> IF polarity = "high" THEN bars[i].h ELSE bars[i].l,
     strength |-> SwingStrength(bars, i, polarity)]

(* Faulty variant: bars that are not there yet do not speak against it.    *)
UnconfirmedSwings(bars, left, right) ==
    {Swing(bars, s[1], s[2]) : s \in
        {s \in ((left + 1)..Len(bars)) \X Polarities :
            IsSwing(bars, s[1], s[2], left, Min({right, Len(bars) - s[1]}))}}

(* Bars whose high, or low, is beyond that of every bar around them. *)
DetectSwings(bars, left, right) ==
    {Swing(bars, s[1], s[2]) : s \in
        {s \in ((left + 1)..(Len(bars) - right)) \X Polarities :
            IsSwing(bars, s[1], s[2], left, right)}}

(* The last of the swings of one polarity that were known delay bars       *)
(* before bar i; none is the empty set.                                    *)
LastSwing(structure, polarity, delay, i) ==
    LET known == {s \in structure : s.polarity = polarity /\ s.bar + delay <= i}
    IN  {s \in known : \A t \in known : t.bar <= s.bar}

(* A swing is higher or lower than the one of its polarity before it: hh,  *)
(* lh, hl and ll.                                                          *)
Classify(swings) ==
    LET label(s) ==
            LET prev == LastSwing(swings, s.polarity, 1, s.bar)
            IN  IF \E p \in prev : s.price > p.price THEN "higher"
                ELSE IF \E p \in prev : s.price < p.price THEN "lower" ELSE "none"
    IN  {[s EXCEPT !.label = label(s)] : s \in swings}

(* An empty structure is taken for one that was not passed, and made anew  *)
(* with the default bars of confirmation.                                  *)
StructureOr(bars, structure) ==
    IF structure # {} THEN structure
    ELSE Classify(DetectSwings(bars, SWING_LEFT, SWING_RIGHT))

-----------------------------------------------------------------------------
RegimeFrom(high, low) ==
    IF \E s \in high, t \in low : s.label = "higher" /\ t.label = "higher" THEN "uptrend"
    ELSE IF \E s \in high, t \in low : s.label = "lower" /\ t.label = "lower" THEN "downtrend"
    ELSE "range"

(* The close crosses the level at bar i: up (bullish) or down (bearish). *)
Crosses(bars, i, level, direction) ==
    IF direction = "bullish" THEN bars[i - 1].c <= level /\ level < bars[i].c
                             ELSE bars[i - 1].c >= level /\ level > bars[i].c

BreakStrength(bars, i, level) ==
    LET lo == Max({1, i - Lookback})
    IN  Hundredths(Abs(bars[i].c - level) * (i - lo), RangeSum(bars, lo, i - 1))

Break(bars, i, swing, direction) ==
    [bar |-> i, direction |-> direction, level |-> swing.price, broken |-> swing.bar,
     price |-> bars[i].c, strength |-> BreakStrength(bars, i, swing.price)]

(* The breaks of the level that the regime at each bar makes the one to    *)
(* watch: detect_bos and detect_choch differ in which that is.             *)
BreaksAt(bars, structure, up, down, i) ==
    LET known(p) == LastSwing(structure, p, Right, i)
        regime   == RegimeFrom(known("high"), known("low"))
        watch    == IF regime = "uptrend" THEN up ELSE down
    IN  IF regime = "range" THEN {}
        ELSE {Break(bars, i, s, watch.direction) :
                 s \in {s \in known(watch.polarity) : Crosses(bars, i, s.price, watch.direction)}}

Breaks(bars, structure, up, down) ==
    UNION {BreaksAt(bars, structure, up, down, i) : i \in 2..Len(bars)}

HighBreak == [polarity |-> "high", direction |-> "bullish"]
LowBreak  == [polarity |-> "low", direction |-> "bearish"]

DetectBos(bars, structure)   == Breaks(bars, StructureOr(bars, structure), HighBreak, LowBreak)
DetectChoch(bars, structure) == Breaks(bars, StructureOr(bars, structure), LowBreak, HighBreak)

-----------------------------------------------------------------------------
(* A majority of the last labels, of at least two.  The swings are listed  *)
(* by their bars, the high of a bar before its low.                        *)
After(s, t) == s.bar > t.bar \/ (s.bar = t.bar /\ s.polarity = "low" /\ t.polarity = "high")

RegimeAt(structure, i) ==
    LET known  == {s \in structure : s.bar + Right <= i}
        recent == {s \in known : Cardinality({t \in known : After(t, s)}) < Window}
        votes(label) == Cardinality({s \in recent : s.label = label})
    IN  IF votes("higher") >= 2 /\ votes("higher") > votes("lower") THEN "uptrend"
        ELSE IF votes("lower") >= 2 /\ votes("lower") > votes("higher") THEN "downtrend"
        ELSE "range"

DetectRegimeChanges(bars, structure) ==
    LET s == StructureOr(bars, structure)
        before(i) == IF i = 1 THEN "range" ELSE RegimeAt(s, i - 1)
    IN  {[bar |-> i, price |-> bars[i].c, to |-> RegimeAt(s, i), from |-> before(i)] :
            i \in {i \in DOMAIN bars : RegimeAt(s, i) # before(i)}}

-----------------------------------------------------------------------------
(* The breakout that is live is the latest; a close back through its level *)
(* ends it, a touch of the level from the right side is a retest.          *)
NoBreakout == [bar |-> 0, direction |-> "neutral", level |-> 0]

Kills(bar, live)  == IF live.direction = "bullish" THEN bar.c < live.level ELSE bar.c > live.level
Retests(bar, live) == IF live.direction = "bullish" THEN bar.l <= live.level /\ live.level < bar.c
                                                    ELSE bar.h >= live.level /\ live.level > bar.c

Retest(bars, i, live) ==
    [bar |-> i, direction |-> live.direction, level |-> live.level, breakout |-> live.bar,
     strength |-> BreakStrength(bars, i, live.level)]

(* Faulty variant: a close back through the level does not end it.         *)
NeverKilled(bars, i, acc) ==
    IF acc.live = NoBreakout THEN acc
    ELSE IF Retests(bars[i], acc.live)
    THEN [acc EXCEPT !.retests = @ \cup {Retest(bars, i, acc.live)}]
    ELSE acc

Follow(bars, i, acc) ==
    IF acc.live = NoBreakout THEN acc
    ELSE IF Kills(bars[i], acc.live) THEN [acc EXCEPT !.live = NoBreakout]
    ELSE IF Retests(bars[i], acc.live)
    THEN [acc EXCEPT !.retests = @ \cup {Retest(bars, i, acc.live)}]
    ELSE acc

(* The level of the last swing that stood long enough, if bar i breaks it. *)
Broken(bars, structure, i, break) ==
    {w \in LastSwing(structure, break.polarity, Right + MinBars, i) :
        Crosses(bars, i, w.price, break.direction)}

(* One bar of the loop: a breakout upwards is looked for first. *)
PassBar(bars, structure, acc, i) ==
    LET next == Follow(bars, i, acc)
        kind == IF Broken(bars, structure, i, HighBreak) # {} THEN HighBreak ELSE LowBreak
        new  == {Break(bars, i, w, kind.direction) : w \in Broken(bars, structure, i, kind)}
    IN  IF new = {} THEN next
        ELSE [next EXCEPT !.breakouts = @ \cup new,
                          !.live = [bar |-> i, direction |-> kind.direction,
                                    level |-> (CHOOSE b \in new : TRUE).level]]

DetectBreakoutsAndRetests(bars, structure) ==
    LET s == StructureOr(bars, structure)
        pass[i \in 0..Len(bars)] ==
            IF i <= 1 THEN [live |-> NoBreakout, breakouts |-> {}, retests |-> {}]
            ELSE PassBar(bars, s, pass[i - 1], i)
    IN  pass[Len(bars)]

(* What GET /market/structure answers for the bars. *)
Analyze(bars) ==
    LET structure == Classify(DetectSwings(bars, Left, Right))
        both      == DetectBreakoutsAndRetests(bars, structure)
    IN  [swings |-> structure,
         bos |-> DetectBos(bars, structure), choch |-> DetectChoch(bars, structure),
         regimes |-> DetectRegimeChanges(bars, structure),
         breakouts |-> both.breakouts, retests |-> both.retests]
=============================================================================
