------------------------------ MODULE TickMath ------------------------------
(***************************************************************************)
(* Ticks and their root prices (math/tick.rs) and tick ranges              *)
(* (math/range.rs). The root price of a tick is a product of one magic     *)
(* constant per set bit of its magnitude, inverted above zero and rounded  *)
(* up to the root's precision; the tick of a root is found by bisection    *)
(* over that function. Magic[k] is the ratio of 2^(k-1) ticks.             *)
(***************************************************************************)
EXTENDS Integers, FiniteSetsExt, SequencesExt

-----------------------------------------------------------------------------
(***************************************************************************)
(* The fixed-point primitives of units/fixed_point.rs, the 128-bit product *)
(* of math/tick.rs, the crossings of units/amount.rs and the shares of     *)
(* units/share.rs, at a small width. Q stands for 2^96: a price or a root  *)
(* is an integer count of 1/Q. Products are taken in full before the       *)
(* division, as the 512-bit products of the code are; an amount never      *)
(* reaches its width here, so the Overflow refusals are left out.          *)
(***************************************************************************)

CONSTANTS
    Q,           \* the fixed point one, 2^96 in the code
    One,         \* a whole ratio or share, 10^6 in the code
    HalfWidth    \* half the width of a tick ratio: 64 bits in the code

ASSUME FixedPointAssumption == {Q, One} \subseteq Nat \ {0} /\ HalfWidth \in Nat \ {0}

Magnitude(a) == IF a < 0 THEN -a ELSE a

\* a * b / d: truncated ("TowardZero") or rounded up when it is inexact ("Up").
MulDiv(a, b, d, rounding) ==
    IF rounding = "Up" THEN (a * b + d - 1) \div d ELSE (a * b) \div d

\* Signed: truncated toward zero, and only a non-negative result rounds up.
SFullMulDiv(a, b, d, rounding) ==
    IF (a < 0) # (b < 0) THEN -MulDiv(Magnitude(a), Magnitude(b), d, "TowardZero")
    ELSE MulDiv(Magnitude(a), Magnitude(b), d, rounding)

-----------------------------------------------------------------------------
(* The crossing between perp and USDC, its inverse and its price; signed    *)
(* amounts keep their sign. No price where one of the two is missing.       *)

ValueAt(perp, price) == SFullMulDiv(perp, price, Q, "TowardZero")
PerpAt(usd, price) == SFullMulDiv(usd, Q, price, "TowardZero")
PricePer(usd, perp) == MulDiv(Magnitude(usd), Q, Magnitude(perp), "TowardZero")

-----------------------------------------------------------------------------
Half == 2 ^ HalfWidth
Full == 2 ^ (2 * HalfWidth)

\* The high part of a product from its half-width products' sums, with the
\* carries of the middle ones.
WithCarries(high, cross, mid) ==
    high + (mid % Full) \div Half + (cross \div Full + mid \div Full) * Half

Carried(high, cross, low) == WithCarries(high, cross, (cross % Full) + low \div Half)

\* (a * b) >> width, from four half-width products added with their carries.
MulShift(a, b) ==
    LET ah == a \div Half    al == a % Half
        bh == b \div Half    bl == b % Half
    IN  Carried(ah * bh, al * bh + ah * bl, al * bl)

-----------------------------------------------------------------------------
(* Shares: parts of a whole, in 1/One.                                      *)

SumOf(weights) == MapThenSumSet(LAMBDA i : weights[i], DOMAIN weights)

\* x by weights of a total: each piece is floored, and what the flooring left
\* goes one each to the largest remainders, the first of equals first.
Apportion(x, weights, total) ==
    LET piece(i) == (x * weights[i]) \div total
        rest(i) == (x * weights[i]) % total
        before(i) == {j \in DOMAIN weights : rest(j) > rest(i) \/ (rest(j) = rest(i) /\ j < i)}
        left == x - MapThenSumSet(piece, DOMAIN weights)
    IN  [i \in DOMAIN weights |-> piece(i) + IF Cardinality(before(i)) < left THEN 1 ELSE 0]

Partition(weights) == Apportion(One, weights, SumOf(weights))

SplitWeighted(x, weights) == Apportion(x, weights, One)
Split(x, parts) == [i \in 1..parts |-> x \div parts + IF i <= x % parts THEN 1 ELSE 0]

\* A signed amount in pieces of its sign.
Sign(delta) == IF delta < 0 THEN -1 ELSE 1
Signed(sign, pieces) == [i \in DOMAIN pieces |-> sign * pieces[i]]
DeltaSplit(delta, parts) == Signed(Sign(delta), Split(Magnitude(delta), parts))
DeltaSplitWeighted(delta, weights) == Signed(Sign(delta), SplitWeighted(Magnitude(delta), weights))

\* To the nearest.
ShareOf(part, whole) == (part * One + whole \div 2) \div whole

-----------------------------------------------------------------------------

CONSTANTS
    Magic,              \* one ratio of width 2 * HalfWidth per bit of a tick
    UniswapMaxTick,     \* the pool's own tick bound
    MaxTick,            \* the protocol's tick bound
    TickSpacing

ASSUME TickAssumption ==
    /\ Magic \in Seq(1..(Full - 1))
    /\ UniswapMaxTick \in 1..(2 ^ Len(Magic) - 1)
    /\ MaxTick \in 1..UniswapMaxTick
    /\ TickSpacing \in 1..MaxTick

UniswapMinTick == -UniswapMaxTick

\* Full is the ratio of tick zero: the first set bit takes its place.
ApplyBit(k, absTick, ratio) ==
    IF (absTick \div 2 ^ (k - 1)) % 2 = 0 THEN ratio
    ELSE IF ratio = Full THEN Magic[k]
    ELSE MulShift(ratio, Magic[k])

RatioOf(absTick) == FoldLeftDomain(LAMBDA ratio, k : ApplyBit(k, absTick, ratio), Full, Magic)

InvertedAbove(tick, ratio) == IF tick > 0 THEN (Full * Full - 1) \div ratio ELSE ratio

TickRatio(tick) == InvertedAbove(tick, RatioOf(Magnitude(tick)))

\* The root price of each tick, its ratio rounded up to the precision of Q.
SqrtRatioAtTick ==
    [tick \in UniswapMinTick..UniswapMaxTick |->
        LET scale == Full \div Q IN (TickRatio(tick) + scale - 1) \div scale]

HasTick(sqrt) ==
    SqrtRatioAtTick[UniswapMinTick] <= sqrt /\ sqrt < SqrtRatioAtTick[UniswapMaxTick]

TickAtSqrtRatio(sqrt) ==
    LET Bisect[lo \in UniswapMinTick..UniswapMaxTick, hi \in UniswapMinTick..UniswapMaxTick] ==
            LET mid == lo + (hi - lo) \div 2
            IN  IF lo + 1 >= hi THEN lo
                ELSE IF SqrtRatioAtTick[mid] <= sqrt THEN Bisect[mid, hi] ELSE Bisect[lo, mid]
    IN  Bisect[UniswapMinTick, UniswapMaxTick]

-----------------------------------------------------------------------------
\* TLA+'s % is the euclidean remainder for a positive spacing.
AlignTickDown(tick, spacing) == tick - (tick % spacing)

AlignTickUp(tick, spacing) ==
    IF tick % spacing = 0 THEN tick ELSE tick + (spacing - (tick % spacing))

\* TickRange::new: a non-empty interval within the protocol's domain.
IsRange(range) == range.lower < range.upper /\ range.lower >= -MaxTick /\ range.upper <= MaxTick

\* TickRange::between: the narrowest range on the spacing that encloses both.
Between(lower, upper) ==
    [lower |-> AlignTickDown(lower, TickSpacing), upper |-> AlignTickUp(upper, TickSpacing)]

InRange(range, tick) == range.lower <= tick /\ tick < range.upper

SqrtBounds(range) ==
    [lower |-> SqrtRatioAtTick[range.lower], upper |-> SqrtRatioAtTick[range.upper]]
=============================================================================
