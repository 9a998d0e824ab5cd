----------------------------- MODULE SmcObjects -----------------------------
(***************************************************************************)
(* The smart-money detectors: services/smc_objects.py.                     *)
(*                                                                         *)
(* They work on the default structure of the bars.  Objects that are known *)
(* by the bar they stem from keep that bar; a status may change as bars    *)
(* follow.  Strengths are hundredths, midpoints are doubled, a pool's      *)
(* tolerance is in thousandths.                                            *)
(***************************************************************************)
EXTENDS MarketStructure

CONSTANTS
    ATR_LOOKBACK,          \* bars the average range is taken over
    DISPLACEMENT_MULT,     \* how many average ranges make a displacement
    LIQUIDITY_TOLERANCE,   \* how near to each other the swings of a pool are
    LIQUIDITY_MIN_TOUCHES, \* swings that make a pool
    BlockLookback          \* bars before a displacement that may be its block

ASSUME SmcAssumption ==
    /\ {ATR_LOOKBACK, DISPLACEMENT_MULT} \subseteq Nat \ {0}
    /\ {LIQUIDITY_TOLERANCE, LIQUIDITY_MIN_TOUCHES, BlockLookback} \subseteq Nat

Directions == {"bullish", "bearish"}

-----------------------------------------------------------------------------
(* Size against the average range of the bars before bar i. *)
StrengthVsRange(bars, i, size) ==
    LET lo == Max({1, i - ATR_LOOKBACK})
    IN  Hundredths(size * (i - lo), RangeSum(bars, lo, i - 1))

(* Price traded through the whole gap on a later bar. *)
FvgFilled(bars, i, direction, low, high) ==
    \E j \in (i + 1)..Len(bars) :
        IF direction = "bullish" THEN bars[j].l <= low ELSE bars[j].h >= high

(* Three bars of which the outer two do not overlap. *)
DetectFvg(bars) ==
    LET gap(i, direction) ==
            IF direction = "bullish" THEN [low |-> bars[i - 2].h, high |-> bars[i].l]
                                     ELSE [low |-> bars[i].h, high |-> bars[i - 2].l]
        fvg(i, direction) ==
            LET g == gap(i, direction) IN
            [bar |-> i, direction |-> direction, low |-> g.low, high |-> g.high,
             strength |-> StrengthVsRange(bars, i, g.high - g.low),
             status |-> IF FvgFilled(bars, i, direction, g.low, g.high)
                        THEN "filled" ELSE "active"]
    IN  {f \in {fvg(i, d) : i \in 3..Len(bars), d \in Directions} : f.low < f.high}

(* Bars with an outsized range, most of it body. *)
DetectDisplacement(bars) ==
    LET sum(i)  == RangeSum(bars, i - ATR_LOOKBACK, i - 1)
        span(i) == bars[i].h - bars[i].l
        body(i) == Abs(bars[i].c - bars[i].o)
        found   == {i \in (ATR_LOOKBACK + 1)..Len(bars) :
                       /\ sum(i) > 0
                       /\ span(i) * ATR_LOOKBACK >= DISPLACEMENT_MULT * sum(i)
                       /\ 10 * body(i) >= 6 * span(i)}
    IN  {[bar |-> i, direction |-> IF bars[i].c > bars[i].o THEN "bullish" ELSE "bearish",
          low |-> bars[i].l, high |-> bars[i].h,
          strength |-> Hundredths(span(i) * ATR_LOOKBACK, DISPLACEMENT_MULT * sum(i))] :
            i \in found}

-----------------------------------------------------------------------------
(* _group_pools: runs of consecutive swings near the first of the run. *)
Groups(swings) ==
    LET near(s, group) == /\ group # <<>>
                          /\ 1000 * Abs(s.price - group[1].price)
                                <= LIQUIDITY_TOLERANCE * Abs(group[1].price)
        step(acc, s) == IF near(s, Last(acc)) THEN Front(acc) \o <<Append(Last(acc), s)>>
                                              ELSE Append(acc, <<s>>)
    IN  IF swings = <<>> THEN {}
        ELSE ToSet(FoldLeft(step, <<<<Head(swings)>>>>, Tail(swings)))

(* Equal highs and equal lows; a pool dates from its last touch. *)
DetectLiquidityPools(structure) ==
    LET swings(p) == SetToSortSeq({s \in structure : s.polarity = p},
                                  LAMBDA s, t : s.bar < t.bar)
        prices(g) == {s.price : s \in ToSet(g)}
        pool(g, p) == [bar |-> Last(g).bar, kind |-> IF p = "high" THEN "eqh" ELSE "eql",
                       low |-> Min(prices(g)), high |-> Max(prices(g)),
                       touches |-> {s.bar : s \in ToSet(g)},
                       strength |-> Hundredths(Len(g), 3)]
        big(p) == {g \in Groups(swings(p)) : Len(g) >= LIQUIDITY_MIN_TOUCHES}
    IN  UNION {{pool(g, p) : g \in big(p)} : p \in Polarities}

(* The first bar after a pool that pierces it is a sweep if it closes back *)
(* inside.                                                                 *)
DetectSweeps(bars, pools) ==
    LET edge(p)      == IF p.kind = "eqh" THEN p.high ELSE p.low
        pierced(p)   == {i \in (p.bar + 1)..Len(bars) :
                           IF p.kind = "eqh" THEN bars[i].h > p.high ELSE bars[i].l < p.low}
        inside(p, i) == IF p.kind = "eqh" THEN bars[i].c < p.high ELSE bars[i].c > p.low
        reach(p, i)  == IF p.kind = "eqh" THEN bars[i].h - p.high ELSE p.low - bars[i].l
    IN  {[bar |-> Min(pierced(p)), pool |-> p.bar, kind |-> p.kind, edge |-> edge(p),
          strength |-> StrengthVsRange(bars, Min(pierced(p)), reach(p, Min(pierced(p))))] :
            p \in {p \in pools : pierced(p) # {} /\ inside(p, Min(pierced(p)))}}

-----------------------------------------------------------------------------
(* The last bar of the opposite colour before a displacement; none is {}.  *)
LastOpposite(bars, d) ==
    LET found == {i \in Max({1, d.bar - BlockLookback})..(d.bar - 1) :
                     IF d.direction = "bullish" THEN bars[i].c < bars[i].o
                                                ELSE bars[i].c > bars[i].o}
    IN  IF found = {} THEN {} ELSE {Max(found)}

(* Faulty variant: only the last bar is looked at.                         *)
InvalidatedNow(bars, i, direction) ==
    IF IF direction = "bullish" THEN Last(bars).c < bars[i].l ELSE Last(bars).c > bars[i].h
    THEN {Len(bars)} ELSE {}

(* A close beyond the far boundary of the block, {} or the first such bar. *)
Invalidated(bars, i, direction) ==
    LET beyond == {j \in (i + 1)..Len(bars) :
                      IF direction = "bullish" THEN bars[j].c < bars[i].l
                                               ELSE bars[j].c > bars[i].h}
    IN  IF beyond = {} THEN {} ELSE {Min(beyond)}

(* The origins of displacements, the strongest displacement of an origin   *)
(* standing for all of them, the first among equals.                       *)
DetectOrderBlocks(bars, displacement) ==
    LET from(i, direction) == {d \in displacement : d.direction = direction
                                                     /\ i \in LastOpposite(bars, d)}
        strongest(ds) == CHOOSE d \in ds : \A e \in ds :
                            d.strength > e.strength \/ (d.strength = e.strength /\ d.bar <= e.bar)
        block(i, direction) ==
            [bar |-> i, direction |-> direction, low |-> bars[i].l, high |-> bars[i].h,
             strength |-> strongest(from(i, direction)).strength,
             displacement |-> strongest(from(i, direction)).bar,
             since |-> Invalidated(bars, i, direction),
             status |-> IF Invalidated(bars, i, direction) = {} THEN "active" ELSE "invalidated"]
        origins == {o \in (1..Len(bars)) \X Directions : from(o[1], o[2]) # {}}
    IN  {block(o[1], o[2]) : o \in origins}

(* An invalidated block that a later close reclaims. *)
DetectBreakerBlocks(bars, blocks) ==
    LET reclaimed(b) == {i \in 1..Len(bars) :
                            /\ \E j \in b.since : i > j
                            /\ IF b.direction = "bullish" THEN bars[i].c > b.high
                                                          ELSE bars[i].c < b.low}
    IN  {[bar |-> Min(reclaimed(b)), source |-> b.bar, direction |-> b.direction,
          low |-> b.low, high |-> b.high] : b \in {b \in blocks : reclaimed(b) # {}}}

(* The band between the last swing high and the last swing low, halved. *)
DetectPremiumDiscount(structure) ==
    LET anchor   == Max({s.bar : s \in structure})
        last(p)  == LastSwing(structure, p, 0, anchor)
        ends     == {s.price : s \in last("high") \cup last("low")}
        zone(kind, low, high) == [bar |-> anchor, kind |-> kind, low |-> low, high |-> high]
        twiceMid == Min(ends) + Max(ends)
    IN  IF structure = {} THEN {}
        ELSE IF last("high") = {} \/ last("low") = {} THEN {}
        ELSE {zone("discount", 2 * Min(ends), twiceMid), zone("premium", twiceMid, 2 * Max(ends))}

(* What GET /market/smc answers for the bars. *)
AnalyzeSmc(bars) ==
    LET structure    == Classify(DetectSwings(bars, SWING_LEFT, SWING_RIGHT))
        displacement == DetectDisplacement(bars)
        pools        == DetectLiquidityPools(structure)
        blocks       == DetectOrderBlocks(bars, displacement)
    IN  [fvg |-> DetectFvg(bars), displacement |-> displacement, pools |-> pools,
         sweeps |-> DetectSweeps(bars, pools), blocks |-> blocks,
         breakers |-> DetectBreakerBlocks(bars, blocks),
         zones |-> DetectPremiumDiscount(structure)]
=============================================================================
