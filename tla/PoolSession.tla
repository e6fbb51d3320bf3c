----------------------------- MODULE PoolSession -----------------------------
(***************************************************************************)
(* A pool over a session of makers and takers, moved by the amounts the    *)
(* SDK computes for each call. Adding and removing a band follow           *)
(* with_liquidity_delta and liquidity_change_delta; a trade is a quote     *)
(* applied when it fills whole, since the contract reverts one that does   *)
(* not, and when the price-impact module accepts it. reserves is what the  *)
(* pool holds of each token if every caller pays and takes exactly those   *)
(* amounts.                                                                *)
(***************************************************************************)
EXTENDS BandMath

CONSTANTS
    Makers,         \* one band each
    Depths,         \* liquidity a maker may add
    Edges,          \* ticks a maker draws a range between
    Trades,         \* perp deltas a taker may ask for
    Targets,        \* root prices a trade may be sized toward
    Caps,           \* caps on that size, as magnitudes
    Portions,       \* weights a band may be taken out by
    Probe,          \* more perp than the pool can hold: i128::MAX in the code
    MaxSteps        \* bounds the session

ASSUME SessionAssumption ==
    /\ Depths \subseteq Nat \ {0} /\ Edges \subseteq Int /\ Trades \subseteq Int \ {0}
    /\ Targets \subseteq Nat /\ Caps \subseteq 0..Probe /\ Portions \in Seq(Nat) /\ MaxSteps \in Nat

VARIABLES
    pool,       \* the PoolSnapshot: price, tick, active liquidity, tick map
    bands,      \* each maker's MakerBand, or None
    reserves,   \* perp and USDC held by the pool
    steps

poolVars == <<pool, bands, reserves, steps>>

None == [none |-> TRUE]
Open == {m \in Makers : bands[m] # None}

PoolInit ==
    /\ pool = [sqrt |-> SqrtRatioAtTick[0], tick |-> 0, liquidity |-> 0, ticks |-> <<>>]
    /\ bands = [m \in Makers |-> None]
    /\ reserves = [perp |-> 0, usd |-> 0]
    /\ steps = 0

Count == steps < MaxSteps /\ steps' = steps + 1

\* A delta from the caller's side moves the pool the other way.
Pay(delta) == reserves' = [perp |-> reserves.perp - delta.perp, usd |-> reserves.usd - delta.usd]

AddBand(m) ==
    /\ Count /\ bands[m] = None
    /\ \E a, b \in Edges, depth \in Depths :
        LET range == Between(a, b) IN
            /\ IsRange(range)
            /\ bands' = [bands EXCEPT ![m] = [range |-> range, liquidity |-> depth]]
            /\ pool' = WithLiquidityDelta(pool, range, depth)
            /\ Pay(LiquidityChangeDelta(pool.sqrt, pool.tick, range, depth))

RemoveBand(m) ==
    /\ Count /\ bands[m] # None
    /\ LET band == bands[m] IN
        /\ bands' = [bands EXCEPT ![m] = None]
        /\ pool' = WithLiquidityDelta(pool, band.range, -band.liquidity)
        /\ Pay(LiquidityChangeDelta(pool.sqrt, pool.tick, band.range, -band.liquidity))

Trade(quote) ==
    /\ Count
    /\ quote.sim.filled /\ quote.allowed
    /\ pool' = [pool EXCEPT !.sqrt = quote.sim.sqrt, !.tick = quote.sim.tick,
                            !.liquidity = quote.sim.liquidity]
    /\ Pay([perp |-> quote.sim.perp, usd |-> quote.sim.usd])
    /\ UNCHANGED bands

-----------------------------------------------------------------------------
\* The tick map always says what the pool says: the nets at or below the tick
\* are the active liquidity, which is that of the bands the tick is in, and
\* the tick is one the price stands in (a falling price that stops on an
\* initialized tick has left it).
MapReconciles ==
    /\ ActiveLiquidity(pool.ticks, pool.tick) = pool.liquidity
    /\ pool.liquidity = MapThenSumSet(LAMBDA m : bands[m].liquidity,
                                      {m \in Open : InRange(bands[m].range, pool.tick)})
    /\ LET at == TickAtSqrtRatio(pool.sqrt) IN
        \/ pool.tick = at
        \/ pool.tick = at - 1 /\ SqrtRatioAtTick[at] = pool.sqrt

\* Every rounding favours the pool: whatever order bands come, go and are
\* traded through in, it holds at least what they are all worth in each token.
PoolNeverShort ==
    LET held(leg) == MapThenSumSet(
            LAMBDA m : AmountsForLiquidity(pool.sqrt, bands[m].range, bands[m].liquidity)[leg], Open)
    IN  held("perp") <= reserves.perp /\ held("usd") <= reserves.usd

\* A sizing is exact to the atom: unless its cap cut it, one atom less does not
\* pass the bound the sizing stopped at and one atom more reaches it or does not
\* fill. (quote_to_price's comment says it never overshoots; the last atom may.)
ExactToTheAtom(quote, bound) ==
    LET at(delta) == Simulate(pool, delta, bound.protocol)
        Beyond(x, y) == IF bound.buy THEN x > y ELSE x < y
        Reaches(past) == ~past.filled \/ ~Beyond(bound.root, past.sqrt)
    IN  quote.limit # "MaxPerp" /\ quote.sim.perp # 0 =>
            /\ quote.sim.filled
            /\ ~Beyond(at(quote.sim.perp - ToBound(bound, 1)).sqrt, bound.root)
            /\ Reaches(at(quote.sim.perp + ToBound(bound, 1)))

SizedToTheAtom ==
    \A target \in Targets, cap \in Caps, enforce \in BOOLEAN :
        ExactToTheAtom(QuoteToPrice(pool, target, enforce, cap, Probe), QuoteBound(pool, target, enforce))

\* The liquidity for a capacity is the least that reaches it.
CapacityIsInverted ==
    \A m \in Open, side \in Sides :
        LET range == bands[m].range
            has(liquidity) == BandCapacity(pool.sqrt, range, liquidity)[side]
            need == LiquidityForCapacity(pool.sqrt, range, side, has(bands[m].liquidity))
        IN  BacksSide(pool.sqrt, range, side) =>
                /\ need <= bands[m].liquidity
                /\ has(need) = has(bands[m].liquidity)
                /\ need > 0 => has(need - 1) < has(need)

\* A band taken out in pieces comes out whole, paying what it would at once but
\* for what each removal rounds down; pieces are as unequal as their weights
\* make them, to one unit; and a part is the share it was taken for.
Weights == Partition(Portions)

KeepTheWhole(pieces, range, whole) ==
    LET paid(change) == LiquidityChangeDelta(pool.sqrt, pool.tick, range, change)
        LosesLess(atOnce, apart) == \A leg \in {"perp", "usd"} :
            apart[leg] <= atOnce[leg] /\ atOnce[leg] < apart[leg] + Len(pieces)
    IN  /\ SumOf(pieces) = -whole
        /\ \A i \in DOMAIN pieces : Magnitude(pieces[i] * One + whole * Weights[i]) < One
        /\ LosesLess(paid(-whole),
                     [leg \in {"perp", "usd"} |->
                        MapThenSumSet(LAMBDA i : paid(pieces[i])[leg], DOMAIN pieces)])

SplitsKeepTheWhole ==
    /\ SumOf(Weights) = One
    /\ \A m \in Open :
        LET whole == bands[m].liquidity
            share == ShareOf(whole, MapThenSumSet(LAMBDA n : bands[n].liquidity, Open))
        IN  /\ \A pieces \in {DeltaSplitWeighted(-whole, Weights)} : KeepTheWhole(pieces, bands[m].range, whole)
            /\ \A k \in DOMAIN Portions : SumOf(DeltaSplit(-whole, k)) = -whole
            /\ share \in 0..One /\ (share = One <=> Open = {m})

\* A fill's two legs say a price the pool stood at between the fill's start and
\* its end, but for an atom a step, at which the legs are worth each other; the
\* fill is within the limit its quote is sent with, by less than an atom where
\* there is no cushion; and one that ends on an initialized tick is told to.
Fair(delta, quote, paid) ==
    LET start == Lesser(pool.sqrt, quote.sim.sqrt)
        end == Greater(pool.sqrt, quote.sim.sqrt)
        atoms == 1 + Len(quote.sim.crossed)
        limit(cushion) == Amt1Limit(quote, cushion)
        Worth(price) ==
            /\ ValueAt(Magnitude(delta), price) \in (paid - 1 - Magnitude(delta) \div Q)..paid
            /\ price > 0 => Magnitude(PerpAt(ValueAt(delta, price), price)) <= Magnitude(delta)
    IN  /\ PricePer(Greater(paid - atoms, 0), delta) * Q <= end * end
        /\ (PricePer(paid + atoms, delta) + 1) * Q > start * start
        /\ Worth(PricePer(paid, delta))
        /\ limit(0) = paid
        /\ \A cushion \in {0, 1, One} : IF delta > 0 THEN paid <= limit(cushion) ELSE limit(cushion) <= paid
        /\ \A t \in DOMAIN pool.ticks : quote.sim.sqrt = SqrtRatioAtTick[t] => t \in EndsOnTick(pool, quote)

FairIfFilled(delta, quote) == quote.sim.filled => Fair(delta, quote, Magnitude(quote.sim.usd))

FillsAreFair == \A delta \in Trades : FairIfFilled(delta, QuotePerp(pool, delta))

\* What the SDK sizes, by price, by capacity or by weight, is exact to the atom,
\* and what it quotes is what the pool's prices say.
SizingsAreExact == SizedToTheAtom /\ CapacityIsInverted /\ SplitsKeepTheWhole /\ FillsAreFair
=============================================================================
