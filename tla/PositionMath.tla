---------------------------- MODULE PositionMath ----------------------------
(***************************************************************************)
(* The SDK's ports of the contract's accounting: prices and their EMAs     *)
(* (math/pricing.rs), accrual and maker equity (math/maker_equity.rs), the *)
(* full close (math/maker_equity/close.rs), taker health (math/taker.rs).  *)
(* Prices and cumulatives count 1/Q, ratios 1/One, fee growth 1/FeeOne and *)
(* modulo FeeModulus.                                                      *)
(***************************************************************************)
EXTENDS BandMath

CONSTANTS
    Decay,          \* Decay[dt]: what is left of an EMA after dt, in 1/One (expWad)
    FeeOne, FeeModulus,         \* 2^128 and 2^256 in the code
    SqrtMin, SqrtMax,           \* the protocol's root bounds
    MaxMark,        \* a mark past it values a position past what atoms hold
    Grain, Widths   \* a maker's bracket steps by (Grain + 2^k) / Grain, k in 0..Widths

ASSUME PositionAssumption ==
    /\ {FeeOne, FeeModulus, MaxMark, Grain} \subseteq Nat \ {0}
    /\ SqrtMin \in Nat \ {0} /\ SqrtMax \in Nat /\ Widths \in Nat
    /\ \A dt \in DOMAIN Decay : Decay[dt] \in 0..One

-----------------------------------------------------------------------------
PriceOf(sqrt) == (sqrt * sqrt) \div Q

\* SqrtPrice::try_from: the floored root of a price, when the protocol has it.
Root == [price \in 0..(((SqrtMax + 1) * (SqrtMax + 1) - 1) \div Q) |->
    CHOOSE r \in 0..SqrtMax : r * r <= price * Q /\ (r + 1) * (r + 1) > price * Q]
HasRoot(price) == price \in DOMAIN Root /\ SqrtMin <= Root[price]

\* calculate_emas: nothing moves unless time did.
CalculateEmas(stored, spot, dt) ==
    IF dt = 0 THEN stored
    ELSE [k \in {"amm", "index"} |->
            (stored[k] * Decay[dt] + spot[k] * (One - Decay[dt])) \div One]

\* Emas::advanced: the pair with its last touch; a time before it moves nothing.
Advanced(emas, spot, timestamp) ==
    [pair |-> CalculateEmas(emas.pair, spot, Greater(timestamp - emas.touched, 0)),
     touched |-> Greater(timestamp, emas.touched)]

\* The mark: the average of the pool price and the index corrected by the EMAs.
FairPrice(spot, pair) ==
    (spot.amm + Greater(spot.index + pair.amm - pair.index, 0)) \div 2

\* Emas::mark: what the contract would mark at on a touch then.
MarkAt(emas, spot, timestamp) == FairPrice(spot, Advanced(emas, spot, timestamp).pair)

\* isHealthy: equity over value plus one atom, floored, at least the ratio.
IsHealthy(equity, value, ratio) ==
    (IF equity <= 0 THEN 0 ELSE (equity * One) \div (value + 1)) >= ratio

-----------------------------------------------------------------------------
PerSqrtPrice(funding, sqrt) == SFullMulDiv(funding, Q, sqrt, "TowardZero")

\* MakerMarketSnapshot::accrued: the cumulatives replayed over dt days. rates
\* are the daily funding and utilization rates in 1/One.
Accrued(cumls, dt, rates, sqrt, mark, openInterest, capacity) ==
    LET days == dt * Q
        funding == SFullMulDiv(rates.funding, days, One, "TowardZero")
        fee(side) == MulDiv(rates.util[side], MulDiv(days, mark, Q, "TowardZero"), One, "TowardZero")
    IN  [cumls EXCEPT
            !.funding = @ + funding,
            !.div = @ + PerSqrtPrice(funding, sqrt),
            !.earnings = [side \in Sides |->
                IF capacity[side] = 0 THEN @[side]
                ELSE @[side] + MulDiv(fee(side), openInterest[side], capacity[side], "TowardZero")],
            !.payments = [side \in Sides |-> @[side] + fee(side)]]

\* Faulty: a price on a tick counts as below it.
Beneath_OnTheEdge(total, opposite, tick, edge) ==
    IF tick > edge THEN opposite ELSE total - opposite

\* An amount checkpointed on the far side of a tick, seen from a tick.
Beneath(total, opposite, tick, edge) == IF tick >= edge THEN opposite ELSE total - opposite

\* maker_cuml_funding: funding accrued below the band, and within it plain and
\* over the root price.
MakerCumlFunding(cumls, opposite, tick, range) ==
    LET below(field, edge) == Beneath(cumls[field], opposite[edge][field], tick, edge)
        within(field) == below(field, range.upper) - below(field, range.lower)
    IN  [below |-> below("funding", range.lower), within |-> within("funding"),
         div |-> within("div")]

\* fee_growth_inside1: modular throughout.
FeeSince(growth, checkpoint) == (growth - checkpoint) % FeeModulus

FeeGrowthInside(global, outside, tick, range) ==
    LET below == IF tick >= range.lower THEN outside[range.lower]
                 ELSE FeeSince(global, outside[range.lower])
        above == IF tick < range.upper THEN outside[range.upper]
                 ELSE FeeSince(global, outside[range.upper])
    IN  FeeSince(FeeSince(global, below), above)

-----------------------------------------------------------------------------
\* Exposure::valued: the band and the deposit residual at a price and a mark.
ValuedAs(maker, value, mark) ==
    [value |-> value,
     pnl |-> value + SFullMulDiv(maker.perp, mark, Q, "TowardZero") + maker.usd]

ValuedHolding(maker, held, mark) ==
    ValuedAs(maker, MulDiv(held.perp, mark, Q, "TowardZero") + held.usd, mark)

Valued(maker, sqrt, mark) ==
    ValuedHolding(maker, AmountsForLiquidity(sqrt, maker.range, maker.liquidity), mark)

\* Faulty: the band within is taken to end at its lower root.
MakerFunding_LowerRoot(maker, cumls, range) ==
    LET b == SqrtBounds(maker.range)
        since == maker.checkpoint
        whole == Amount0Delta(b.lower, b.upper, maker.liquidity, "TowardZero")
        withinDelta == PerSqrtPrice(range.within - since.within, b.lower)
    IN  SFullMulDiv(maker.perp, cumls.funding - since.funding, Q, "Up")
            + SFullMulDiv(whole, range.below - since.below, Q, "Up")
            + SFullMulDiv(maker.liquidity, (range.div - since.div) - withinDelta, Q, "Up")

\* makerFeesAccrued's funding leg: the residual, then the band while the price
\* was below it, then the band while the price was within it.
MakerFunding(maker, cumls, range) ==
    LET b == SqrtBounds(maker.range)
        since == maker.checkpoint
        whole == Amount0Delta(b.lower, b.upper, maker.liquidity, "TowardZero")
        withinDelta == PerSqrtPrice(range.within - since.within, b.upper)
    IN  SFullMulDiv(maker.perp, cumls.funding - since.funding, Q, "Up")
            + SFullMulDiv(whole, range.below - since.below, Q, "Up")
            + SFullMulDiv(maker.liquidity, (range.div - since.div) - withinDelta, Q, "Up")

\* AccruedMakerSnapshot::maker_equity: what a touch would settle now.
MakerEquity(maker, cumls, opposite, outside, fees, tick, sqrt, mark) ==
    LET since == maker.checkpoint
        inside == FeeGrowthInside(fees, outside, tick, maker.range)
        valued == Valued(maker, sqrt, mark)
    IN  [margin |-> maker.margin,
         funding |-> MakerFunding(maker, cumls,
                                  MakerCumlFunding(cumls, opposite, tick, maker.range)),
         util |-> [side \in Sides |->
            MulDiv(maker.capacity[side], cumls.earnings[side] - since.earnings[side], Q,
                   "TowardZero")],
         fees |-> (maker.liquidity * FeeSince(inside, since.fees)) \div FeeOne,
         value |-> valued.value, pnl |-> valued.pnl,
         ratio |-> maker.ratio, mark |-> mark, sqrt |-> sqrt]

SettledMargin(equity) ==
    equity.margin - equity.funding + equity.util["long"] + equity.util["short"] + equity.fees
Equity(equity) == SettledMargin(equity) + equity.pnl

\* A shocked mark moves the pool's root by the root of the same factor.
UnhealthyAs(equity, valued) == ~IsHealthy(SettledMargin(equity) + valued.pnl, valued.value, equity.ratio)

MakerLiquidatableAt(maker, equity, mark) ==
    UnhealthyAs(equity,
        Valued(maker, MulDiv(equity.sqrt, Root[mark], Root[equity.mark], "TowardZero"), mark))

Stepped(mark, k, up) ==
    IF up THEN MulDiv(mark, Grain + 2 ^ k, Grain, "TowardZero")
    ELSE MulDiv(mark, Grain, Grain + 2 ^ k, "TowardZero")

\* Halving between a price where fails is false and one where it is true.
BisectTurn(fails, healthy, failing) ==
    LET Between2[h \in Nat, f \in Nat] ==
            LET mid == Lesser(h, f) + Magnitude(h - f) \div 2
            IN  IF Magnitude(h - f) <= 1 THEN f
                ELSE IF fails[mid] THEN Between2[h, mid] ELSE Between2[mid, f]
    IN  Between2[healthy, failing]

\* first_turn: step outward until a step is liquidatable, then bisect from the
\* step before; a step without a root ends the search. {} is no turn.
TurnBetween(fails, nearer, farther) ==
    IF HasRoot(farther) THEN {BisectTurn(fails, nearer, farther)} ELSE {}

FirstTurnOf(fails, mark, up) ==
    LET step(k) == IF k < 0 THEN mark ELSE Stepped(mark, k, up)
        ends == {k \in 0..Widths : ~HasRoot(step(k)) \/ fails[step(k)]}
    IN  UNION {TurnBetween(fails, step(k - 1), step(k)) : k \in {e \in ends : \A f \in ends : e <= f}}

MakerFails(maker, equity) == [mark \in Nat |-> MakerLiquidatableAt(maker, equity, mark)]

FirstTurn(maker, equity, up) == FirstTurnOf(MakerFails(maker, equity), equity.mark, up)

-----------------------------------------------------------------------------
\* TakerMarketSnapshot::taker_health: every leg of the eligibility test.
TakerHealth(taker, cumls, mark) ==
    LET held == SFullMulDiv(taker.perp, mark, Q, "TowardZero")
        side == IF taker.perp > 0 THEN "long" ELSE "short"
    IN  [perp |-> taker.perp, usd |-> taker.usd, margin |-> taker.margin,
         funding |-> SFullMulDiv(taker.perp, cumls.funding - taker.checkpoint.funding, Q, "Up"),
         util |-> IF taker.perp = 0 THEN 0
                  ELSE MulDiv(Magnitude(taker.perp),
                              cumls.payments[side] - taker.checkpoint.payments[side], Q, "Up"),
         value |-> Magnitude(held), pnl |-> held + taker.usd, ratio |-> taker.ratio, mark |-> mark]

TakerSettled(health) == health.margin - health.funding - health.util
TakerEquity(health) == TakerSettled(health) + health.pnl
Liquidatable(health) == ~IsHealthy(TakerEquity(health), health.value, health.ratio)

\* is_liquidatable_at: the mark moved, the rest as it stands.
TakerLiquidatableAt(health, mark) ==
    LET held == SFullMulDiv(health.perp, mark, Q, "TowardZero")
    IN  ~IsHealthy(TakerSettled(health) + health.usd + held, Magnitude(held), health.ratio)

\* liquidation_mark: where the real-valued test turns, if it does.
LiquidationMark(health) ==
    LET fixed == TakerSettled(health) + health.usd
        size == Magnitude(health.perp)
        turn(scale) == (Magnitude(fixed) * One * Q) \div (size * scale)
    IN  IF health.perp = 0 THEN {}
        ELSE IF health.perp > 0
             THEN IF fixed >= 0 \/ health.ratio >= One THEN {} ELSE {turn(One - health.ratio)}
        ELSE IF fixed <= 0 THEN {0} ELSE {turn(One + health.ratio)}

\* Faulty: the closed form is the answer.
FirstFailing_ClosedForm(health, turn, up) == IF turn > MaxMark THEN {} ELSE {turn}

\* first_failing: gallop from the closed form to bracket the integer test's
\* turn, toward the mark when it fails there and away from it when it does
\* not, then bisect.
Galloped(fails, mark, start, up) ==
    LET toward(k) == IF k < 0 THEN start
                     ELSE IF up THEN Greater(start - 2 ^ k, mark) ELSE Lesser(start + 2 ^ k, mark)
        away(k) == IF k < 0 THEN start
                   ELSE IF up THEN start + 2 ^ k ELSE Greater(start - 2 ^ k, 0)
        Gallop == 0..(2 * HalfWidth + 4)
        Least(ks) == {k \in ks : \A j \in ks : k <= j}
        Stuck(k) == away(k) = away(k - 1) \/ away(k) > MaxMark
    IN  IF start > MaxMark THEN {}
        ELSE IF fails[start]
        THEN {BisectTurn(fails, toward(k), toward(k - 1)) : k \in Least({j \in Gallop : ~fails[toward(j)]})}
        ELSE {BisectTurn(fails, away(k - 1), away(k)) :
                k \in {j \in Least({i \in Gallop : Stuck(i) \/ fails[away(i)]}) : ~Stuck(j)}}

TakerFails(health) == [mark \in Nat |-> TakerLiquidatableAt(health, mark)]

FirstFailing(health, turn, up) ==
    Galloped(TakerFails(health), health.mark,
             IF up THEN Greater(turn, health.mark + 1) ELSE Lesser(turn, Greater(health.mark - 1, 0)), up)

\* liquidation_prices: the mark itself when it is liquidatable now, else the
\* turn below a long and above a short.
LiquidationPrices(health) ==
    LET up == health.perp < 0
        turns == UNION {FirstFailing(health, turn, up) : turn \in LiquidationMark(health)}
    IN  IF Liquidatable(health) THEN [below |-> {health.mark}, above |-> {health.mark}]
        ELSE [below |-> IF up THEN {} ELSE turns, above |-> IF up THEN turns ELSE {}]

-----------------------------------------------------------------------------
Exceeded(openInterest, capacity) == \E side \in Sides : openInterest[side] > capacity[side]

Checkpoint(cumls) == [funding |-> cumls.funding, payments |-> cumls.payments]

\* Faulty: a margin settled below zero is forgiven.
FullClose_Forgives(maker, equity, cumls, openInterest, capacity, takerRatio) ==
    LET left == [side \in Sides |-> capacity[side] - maker.capacity[side]]
        held == AmountsForLiquidity(equity.sqrt, maker.range, maker.liquidity)
        settled == SettledMargin(equity)
    IN  [taker |-> [perp |-> maker.perp + held.perp, usd |-> maker.usd + held.usd,
                    margin |-> Greater(settled, 0), ratio |-> takerRatio,
                    checkpoint |-> Checkpoint(cumls)],
         payout |-> settled + maker.usd + held.usd,
         refused |-> Exceeded(openInterest, left)]

\* full_close: the taker a removal of the whole band leaves (no exposure: it is
\* paid out) and whether the contract would take it.
TakerLeft(maker, held, settled, cumls, takerRatio) ==
    [perp |-> maker.perp + held.perp, usd |-> maker.usd + held.usd + Lesser(settled, 0),
     margin |-> Greater(settled, 0), ratio |-> takerRatio, checkpoint |-> Checkpoint(cumls)]

\* The market with the band's capacity gone and the taker in.
Leaving(taker, payout, left, openInterest, cumls, mark) ==
    LET open == [side \in Sides |->
            openInterest[side] + (IF (side = "long") = (taker.perp > 0) THEN Magnitude(taker.perp) ELSE 0)]
    IN  [taker |-> taker, capacity |-> left, openInterest |-> open, payout |-> payout,
         refused |-> \/ Exceeded(openInterest, left)
                     \/ taker.perp = 0 /\ payout < 0
                     \/ taker.perp # 0 /\ Liquidatable(TakerHealth(taker, cumls, mark))
                     \/ Exceeded(open, left)]

ClosedHolding(maker, held, settled, cumls, openInterest, left, takerRatio, mark) ==
    Leaving(TakerLeft(maker, held, settled, cumls, takerRatio), settled + maker.usd + held.usd,
            left, openInterest, cumls, mark)

FullClose(maker, equity, cumls, openInterest, capacity, takerRatio) ==
    ClosedHolding(maker, AmountsForLiquidity(equity.sqrt, maker.range, maker.liquidity),
                  SettledMargin(equity), cumls, openInterest,
                  [side \in Sides |-> capacity[side] - maker.capacity[side]], takerRatio, equity.mark)
=============================================================================
