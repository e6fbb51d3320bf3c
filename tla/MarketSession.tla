--------------------------- MODULE MarketSession ---------------------------
(***************************************************************************)
(* Positions in the pool of PoolSession: what the SDK's ports of the       *)
(* contract say each of them has earned and owes after a session of opens, *)
(* closes, trades, donations and accruals. Between its calls the contract  *)
(* keeps cumulatives for the market and, for each initialized tick, their  *)
(* part on the far side of it; the SDK reads both and attributes to a      *)
(* position what they gained while the price stood in and below its band.  *)
(* seen keeps that gain directly.                                          *)
(***************************************************************************)
EXTENDS PoolSession, PositionMath

CONSTANTS
    Takers,
    Margins,            \* what a position may be opened with
    MarginRatio,        \* its liquidation margin ratio, in 1/One
    RateSets,           \* daily rates a module may have set
    Index,              \* the beacon's index price
    Donation,           \* fees a swap leaves to the makers in range
    FundingDust,        \* rounding the funding of a session may leave
    SampleStep          \* marks a liquidation price is compared with

VARIABLES
    cumls,      \* the market's cumulatives
    fees,       \* global fee growth
    edges,      \* per initialized tick, its far side's part of each
    emas,       \* the stored pair and the day of its last touch
    makers,     \* what a maker's position holds besides its band, or None
    takers,     \* taker positions, or None
    settled,    \* funding settled by positions that closed
    seen        \* per open maker, what was gained below and within its band

vars == <<poolVars, cumls, fees, edges, emas, makers, takers, settled, seen>>

Trading == {t \in Takers : takers[t] # None}

NoCumls ==
    [funding |-> 0, div |-> 0, earnings |-> [s \in Sides |-> 0], payments |-> [s \in Sides |-> 0]]

NoGain == [below |-> 0, within |-> 0, div |-> 0, fees |-> 0]

Init ==
    /\ PoolInit
    /\ cumls = NoCumls /\ fees = 0 /\ edges = <<>>
    /\ emas = [pair |-> [amm |-> PriceOf(pool.sqrt), index |-> Index], touched |-> 0]
    /\ makers = [m \in Makers |-> None] /\ takers = [t \in Takers |-> None]
    /\ settled = 0
    /\ seen = [m \in Makers |-> NoGain]

Spot == [amm |-> PriceOf(pool.sqrt), index |-> Index]
Mark == MarkAt(emas, Spot, emas.touched)

SideOf(perp) == IF perp > 0 THEN "long" ELSE "short"

OpenInterest == [side \in Sides |->
    MapThenSumSet(LAMBDA t : Magnitude(takers[t].perp), {t \in Trading : SideOf(takers[t].perp) = side})]

Capacity == [side \in Sides |-> MapThenSumSet(LAMBDA m : makers[m].capacity[side], Open)]

Outside == [t \in DOMAIN edges |-> edges[t].fees]

\* A maker as the SDK loads it, and its equity now.
Maker(m) == makers[m] @@ bands[m]

EquityOf(m) == MakerEquity(Maker(m), cumls, edges, Outside, fees, pool.tick, pool.sqrt, Mark)

HealthOf(t) == TakerHealth(takers[t], cumls, Mark)

-----------------------------------------------------------------------------
\* The contract's side: a tick's far side starts as all there has been when it
\* is initialized at or below the pool's tick, and turns over when crossed.
Total == [funding |-> cumls.funding, div |-> cumls.div, fees |-> fees]
Nothing == [funding |-> 0, div |-> 0, fees |-> 0]

Reinitialized(ticks) == [t \in DOMAIN ticks |->
    IF t \in DOMAIN edges THEN edges[t] ELSE IF t <= pool.tick THEN Total ELSE Nothing]

TurnedOver(crossed) == [t \in DOMAIN edges |->
    IF t \in ToSet(crossed)
    THEN [funding |-> cumls.funding - edges[t].funding, div |-> cumls.div - edges[t].div,
          fees |-> FeeSince(fees, edges[t].fees)]
    ELSE edges[t]]

\* adjustMaker, opening: the legs paid in are the position's residual.
OpenMaker(m) ==
    /\ AddBand(m)
    /\ edges' = Reinitialized(pool'.ticks)
    /\ \E margin \in Margins :
        LET band == bands'[m]
            within == MakerCumlFunding(cumls, edges', pool.tick, band.range)
        IN  makers' = [makers EXCEPT ![m] =
                [perp |-> reserves.perp - reserves'.perp, usd |-> reserves.usd - reserves'.usd,
                 margin |-> margin, ratio |-> MarginRatio,
                 capacity |-> BandCapacity(pool.sqrt, band.range, band.liquidity),
                 checkpoint |-> within @@
                    [funding |-> cumls.funding, earnings |-> cumls.earnings,
                     fees |-> FeeGrowthInside(fees, [t \in DOMAIN edges' |-> edges'[t].fees],
                                              pool.tick, band.range)]]]
    /\ seen' = [seen EXCEPT ![m] = NoGain]
    /\ UNCHANGED <<cumls, fees, emas, takers, settled>>

\* adjustMaker, removing the whole band: what full_close says it leaves.
CloseOf(m) == FullClose(Maker(m), EquityOf(m), cumls, OpenInterest, Capacity, MarginRatio)

CloseMaker(m) ==
    /\ makers[m] # None /\ ~CloseOf(m).refused
    /\ RemoveBand(m)
    /\ makers' = [makers EXCEPT ![m] = None]
    /\ edges' = [t \in DOMAIN pool'.ticks |-> edges[t]]
    /\ settled' = settled + EquityOf(m).funding
    /\ LET taker == CloseOf(m).taker IN
        IF taker.perp = 0 THEN UNCHANGED takers
        ELSE \E t \in Takers \ Trading : takers' = [takers EXCEPT ![t] = taker]
    /\ UNCHANGED <<cumls, fees, emas, seen>>

\* adjustTaker: a swap of the whole position, open interest within capacity.
SwapTaker(quote) == Trade(quote) /\ edges' = TurnedOver(quote.sim.crossed)

OpenTaker(t) ==
    /\ takers[t] = None
    /\ \E delta \in Trades, margin \in Margins :
        /\ SwapTaker(QuotePerp(pool, delta))
        /\ takers' = [takers EXCEPT ![t] =
               [perp |-> delta, usd |-> reserves.usd - reserves'.usd, margin |-> margin,
                ratio |-> MarginRatio, checkpoint |-> Checkpoint(cumls)]]
    /\ ~Exceeded(OpenInterest', Capacity)
    /\ UNCHANGED <<cumls, fees, emas, makers, settled, seen>>

CloseTaker(t) ==
    /\ takers[t] # None
    /\ SwapTaker(QuotePerp(pool, -takers[t].perp))
    /\ takers' = [takers EXCEPT ![t] = None]
    /\ settled' = settled + HealthOf(t).funding
    /\ UNCHANGED <<cumls, fees, emas, makers, seen>>

\* A day passes and the market is touched.
Accrue ==
    /\ Count
    /\ emas' = Advanced(emas, Spot, emas.touched + 1)
    /\ \E rates \in RateSets :
        cumls' = Accrued(cumls, 1, rates, pool.sqrt, Mark, OpenInterest, Capacity)
    /\ seen' = [m \in Makers |->
        LET gain == cumls'.funding - cumls.funding IN
        IF m \notin Open THEN seen[m]
        ELSE IF pool.tick < bands[m].range.lower THEN [seen[m] EXCEPT !.below = @ + gain]
        ELSE IF InRange(bands[m].range, pool.tick)
        THEN [seen[m] EXCEPT !.within = @ + gain, !.div = @ + (cumls'.div - cumls.div)]
        ELSE seen[m]]
    /\ UNCHANGED <<pool, bands, reserves, fees, edges, makers, takers, settled>>

Donate ==
    /\ Count
    /\ pool.liquidity > 0
    /\ LET growth == (Donation * FeeOne) \div pool.liquidity IN
        /\ fees' = (fees + growth) % FeeModulus
        /\ seen' = [m \in Makers |->
            IF m \in Open /\ InRange(bands[m].range, pool.tick)
            THEN [seen[m] EXCEPT !.fees = (@ + growth) % FeeModulus] ELSE seen[m]]
    /\ UNCHANGED <<pool, bands, reserves, cumls, edges, emas, makers, takers, settled>>

Next ==
    \/ \E m \in Makers : OpenMaker(m) \/ CloseMaker(m)
    \/ \E t \in Takers : OpenTaker(t) \/ CloseTaker(t)
    \/ Accrue \/ Donate

Spec == Init /\ [][Next]_vars

-----------------------------------------------------------------------------
\* What maker_cuml_funding and fee_growth_inside1 attribute to a band since its
\* checkpoint, from the two edges' far sides, is what accrued while the price
\* stood there: in whatever order bands share ticks, prices cross them and
\* ticks are dropped and initialized again.
AccruedByPlace ==
    \A m \in Open :
        LET now == MakerCumlFunding(cumls, edges, pool.tick, bands[m].range)
            since == makers[m].checkpoint
            inside == FeeGrowthInside(fees, Outside, pool.tick, bands[m].range)
        IN  /\ now.below - since.below = seen[m].below
            /\ now.within - since.within = seen[m].within
            /\ now.div - since.div = seen[m].div
            /\ FeeSince(inside, since.fees) = seen[m].fees

\* Funding is a transfer: what takers owe, what makers owe for the exposure of
\* band and residual, and what was settled on the way out come to nothing but
\* rounding. maker_equity and taker_health are ported separately.
FundingBalances ==
    Magnitude(settled
        + MapThenSumSet(LAMBDA m : EquityOf(m).funding, Open)
        + MapThenSumSet(LAMBDA t : HealthOf(t).funding, Trading)) <= FundingDust

\* A close changes what form a maker's equity has and not how much it is: the
\* payout, or the taker's equity at the same mark, is the equity previewed.
CloseKeepsEquity ==
    \A m \in Open :
        LET close == CloseOf(m)
            equity == Equity(EquityOf(m))
        IN  IF close.taker.perp = 0 THEN close.payout = equity
            ELSE Magnitude(TakerEquity(TakerHealth(close.taker, cumls, Mark)) - equity) <= 1

\* Makers come and go and takers are left behind; what is open on a side is
\* backed by what makers there have left, whole at most and only when nothing
\* is left to add: full_close refuses every close that would not leave it so.
InterestIsBacked ==
    \A side \in Sides :
        LET used == Utilization(Capacity, OpenInterest, side)
        IN  IF Capacity[side] = 0 THEN OpenInterest[side] = 0
            ELSE /\ used <= One
                 /\ used = One <=> Headroom(Capacity, OpenInterest, side) = 0

\* A close previewed is a close that can be had: worth what the position was,
\* and leaving the market backed.
ClosesAreSound == CloseKeepsEquity /\ InterestIsBacked

\* liquidation_prices answers the mark, to the atom, that parts the healthy from
\* the liquidatable in the contract's integer test, and nothing where no mark of
\* the range does: the gallop always brackets it. A long whose margin covers its
\* USD leg exactly is left out: taker.rs says no fall liquidates it, and it fails
\* where its value is below one atom.
TakerTurnIsExact ==
    \A t \in Trading :
        LET health == HealthOf(t)
            prices == LiquidationPrices(health)
            long == health.perp > 0
            turns == IF long THEN prices.below ELSE prices.above
            fails(mark) == TakerLiquidatableAt(health, mark)
            Away(x) == IF long THEN x < health.mark ELSE x > health.mark
            Past(x, turn) == IF long THEN x <= turn ELSE x >= turn
            sampled == {k * SampleStep : k \in 0..(MaxMark \div (2 * SampleStep))}
        IN  ~Liquidatable(health) /\ TakerSettled(health) + health.usd # 0 =>
                /\ (IF long THEN prices.above ELSE prices.below) = {}
                /\ \A x \in sampled : Away(x) => (fails(x) <=> \E turn \in turns : Past(x, turn))
                /\ \A turn \in turns :
                        Away(turn) /\ fails(turn) /\ ~fails(IF long THEN turn + 1 ELSE turn - 1)

\* A maker's liquidation price on a side is where the test turns: it fails there
\* and not one atom nearer the mark; and no turn is answered only when no step
\* of the bracket, out to the range's edge, fails. (A pocket between two steps may
\* be passed over, as liquidation_prices says.)
MakerTurnIsATurn ==
    \A m \in Open, up \in BOOLEAN :
        LET equity == EquityOf(m)
            fails(mark) == MakerLiquidatableAt(Maker(m), equity, mark)
            turn == FirstTurn(Maker(m), equity, up)
            Nearer(x, y) == IF up THEN x < y ELSE x > y
            tried == {x \in {Stepped(equity.mark, k, up) : k \in 0..Widths} : HasRoot(x)}
        IN  HasRoot(equity.mark) /\ ~fails(equity.mark) =>
                /\ \A x \in turn : fails(x) /\ ~fails(IF up THEN x - 1 ELSE x + 1)
                /\ \A x \in tried : fails(x) => \E y \in turn : ~Nearer(x, y)

\* What liquidation_prices answers is where the contract's own test turns, on
\* either side of the mark and for makers and takers alike.
LiquidationPricesTurn == TakerTurnIsExact /\ MakerTurnIsATurn
=============================================================================
