------------------------------ MODULE BandMath ------------------------------
(***************************************************************************)
(* What a maker's band holds, moves and backs: math/liquidity.rs and       *)
(* math/capacity.rs. Above the price a band is perp and backs longs; below *)
(* it is USDC, and the same span in perp backs shorts.                     *)
(***************************************************************************)
EXTENDS SwapMath

Sides == {"long", "short"}

\* Liquidity a USDC amount deploys over a range, and the margin liquidity needs.
EstimateLiquidity(range, usd) ==
    LET b == SqrtBounds(range) IN (usd * Q) \div (b.upper - b.lower)

MarginForLiquidity(range, liquidity) ==
    LET b == SqrtBounds(range) IN MulDiv(liquidity, b.upper - b.lower, Q, "Up")

\* The two legs liquidity holds at a price, each rounded down.
LegsAt(at, b, liquidity) ==
    [perp |-> Amount0Delta(at, b.upper, liquidity, "TowardZero"),
     usd |-> Amount1Delta(b.lower, at, liquidity, "TowardZero")]

LegsWithin(sqrt, b, liquidity) == LegsAt(Clamp(sqrt, b.lower, b.upper), b, liquidity)

AmountsForLiquidity(sqrt, range, liquidity) == LegsWithin(sqrt, SqrtBounds(range), liquidity)

\* What changing a range's liquidity moves, from the caller's side: an add
\* pays in rounded up (negative), a removal takes out rounded down. The
\* pool's tick, not its price, picks the legs.
ChangeWithin(sqrt, tick, range, b, delta) ==
    LET rounding == IF delta < 0 THEN "TowardZero" ELSE "Up"
        signed(amount) == IF delta < 0 THEN amount ELSE -amount
        perp(lo) == signed(Amount0Delta(lo, b.upper, Magnitude(delta), rounding))
        usd(hi) == signed(Amount1Delta(b.lower, hi, Magnitude(delta), rounding))
    IN  IF tick < range.lower THEN [perp |-> perp(b.lower), usd |-> 0]
        ELSE IF tick < range.upper THEN [perp |-> perp(sqrt), usd |-> usd(sqrt)]
        ELSE [perp |-> 0, usd |-> usd(b.upper)]

LiquidityChangeDelta(sqrt, tick, range, delta) ==
    ChangeWithin(sqrt, tick, range, SqrtBounds(range), delta)

-----------------------------------------------------------------------------
\* The span backing a side: a range's bounds with the price clamped between.
SpanFrom(at, b, side) ==
    IF side = "long" THEN [lo |-> at, hi |-> b.upper] ELSE [lo |-> b.lower, hi |-> at]

SpanWithin(sqrt, b, side) == SpanFrom(Clamp(sqrt, b.lower, b.upper), b, side)

Span(sqrt, range, side) == SpanWithin(sqrt, SqrtBounds(range), side)

CapacityOver(span, liquidity) == Amount0Delta(span.lo, span.hi, liquidity, "TowardZero")

BandCapacity(sqrt, range, liquidity) ==
    [side \in Sides |-> CapacityOver(Span(sqrt, range, side), liquidity)]

BacksSide(sqrt, range, side) ==
    LET span == Span(sqrt, range, side) IN span.lo # span.hi

\* The least liquidity whose capacity on a side reaches target: the two floors
\* of a capacity are one, so its inverse is one ceiling.
LiquidityOver(span, target) ==
    IF target = 0 THEN 0 ELSE MulDiv(target * span.hi, span.lo, Q * (span.hi - span.lo), "Up")

LiquidityForCapacity(sqrt, range, side, target) == LiquidityOver(Span(sqrt, range, side), target)

\* MarketCapacity: what a side can still add.
Headroom(capacity, openInterest, side) == Greater(capacity[side] - openInterest[side], 0)

\* What the fees module is passed; a side without capacity has none.
Utilization(capacity, openInterest, side) == MulDiv(openInterest[side], One, capacity[side], "TowardZero")
=============================================================================
