------------------------------ MODULE SwapMath ------------------------------
(***************************************************************************)
(* The taker swap simulator (math/swap.rs). A pool is its root price, its  *)
(* tick, its active liquidity and the gross and net liquidity of each      *)
(* initialized tick; a swap walks from one initialized tick to the next.   *)
(* Amounts of perp are token0 and are the specified side both ways: a      *)
(* positive delta buys, a negative one sells.                              *)
(***************************************************************************)
EXTENDS TickMath

CONSTANTS
    ProtocolSqrtMin, ProtocolSqrtMax,   \* what a swap can reach
    ImpactSqrtMin, ImpactSqrtMax,       \* what the price-impact module accepts
    OnTickShift                         \* 2^16 in the code: "on a tick" is within sqrt / OnTickShift

ASSUME SwapAssumption ==
    /\ {ProtocolSqrtMin, ProtocolSqrtMax, ImpactSqrtMin, ImpactSqrtMax, OnTickShift} \subseteq Nat
    /\ HasTick(ProtocolSqrtMin) /\ HasTick(ProtocolSqrtMax)

Lesser(a, b) == IF a <= b THEN a ELSE b
Greater(a, b) == IF a >= b THEN a ELSE b
Clamp(a, lo, hi) == Greater(lo, Lesser(a, hi))

\* Token0 owed between two roots, divided by one root and then by the other.
Amount0Delta(a, b, liquidity, rounding) ==
    LET lower == Lesser(a, b)    upper == Greater(a, b)
    IN  MulDiv(MulDiv(liquidity * Q, upper - lower, upper, rounding), 1, lower, rounding)

Amount1Delta(a, b, liquidity, rounding) ==
    MulDiv(liquidity, Greater(a, b) - Lesser(a, b), Q, rounding)

\* The root after taking (a buy) or adding (a sale) an amount of token0, rounded up.
NextSqrtFromAmount0(sqrt, liquidity, amount, add) ==
    IF amount = 0 THEN sqrt
    ELSE MulDiv(liquidity * Q, sqrt,
                liquidity * Q + (IF add THEN amount * sqrt ELSE -(amount * sqrt)), "Up")

-----------------------------------------------------------------------------
NextInitialized(ticks, tick, down) ==
    LET behind == {t \in DOMAIN ticks : t <= tick}
        ahead == {t \in DOMAIN ticks : t > tick}
    IN  IF down THEN (IF behind = {} THEN UniswapMinTick ELSE Max(behind))
                ELSE (IF ahead = {} THEN UniswapMaxTick ELSE Min(ahead))

\* Faulty: the calculated amount is rounded for the taker.
SwapStep_RoundsOut(sqrt, target, liquidity, remaining, down) ==
    LET Ended(after, used) ==
            [after |-> after, used |-> used,
             other |-> Amount1Delta(after, sqrt, liquidity, IF down THEN "Up" ELSE "TowardZero")]
        Toward(toTarget) ==
            IF remaining >= toTarget THEN Ended(target, toTarget)
            ELSE Ended(NextSqrtFromAmount0(sqrt, liquidity, remaining, down), remaining)
    IN  Toward(Amount0Delta(target, sqrt, liquidity, IF down THEN "Up" ELSE "TowardZero"))

\* One step toward target. Without liquidity every amount is zero and the
\* step reaches its target.
SwapStep(sqrt, target, liquidity, remaining, down) ==
    LET Ended(after, used) ==
            [after |-> after, used |-> used,
             other |-> Amount1Delta(after, sqrt, liquidity, IF down THEN "TowardZero" ELSE "Up")]
        Toward(toTarget) ==
            IF remaining >= toTarget THEN Ended(target, toTarget)
            ELSE Ended(NextSqrtFromAmount0(sqrt, liquidity, remaining, down), remaining)
    IN  Toward(Amount0Delta(target, sqrt, liquidity, IF down THEN "Up" ELSE "TowardZero"))

\* The walk once its step is taken: a root that stands on the next tick
\* crosses it. A step that moved nothing and crossed nothing ends the walk.
Landed(ticks, walk, next, sqrtNext, step, down) ==
    LET lands == step.after = sqrtNext
        crosses == lands /\ next \in DOMAIN ticks
    IN  [remaining |-> walk.remaining - step.used,
         calculated |-> walk.calculated + step.other,
         sqrt |-> step.after,
         tick |-> IF lands THEN (IF down THEN next - 1 ELSE next)
                  ELSE IF step.after # walk.sqrt THEN TickAtSqrtRatio(step.after)
                  ELSE walk.tick,
         liquidity |-> IF ~crosses THEN walk.liquidity
                       ELSE IF down THEN walk.liquidity - ticks[next].net
                       ELSE walk.liquidity + ticks[next].net,
         crossed |-> IF crosses THEN Append(walk.crossed, next) ELSE walk.crossed,
         exhausted |-> step.used = 0 /\ step.other = 0 /\ step.after = walk.sqrt /\ ~crosses]

StepToward(ticks, walk, next, sqrtNext, limit, down) ==
    Landed(ticks, walk, next, sqrtNext,
           SwapStep(walk.sqrt, IF down THEN Greater(sqrtNext, limit) ELSE Lesser(sqrtNext, limit),
                    walk.liquidity, walk.remaining, down),
           down)

AfterStep(ticks, walk, limit, down) ==
    LET next == NextInitialized(ticks, walk.tick, down)
    IN  StepToward(ticks, walk, next, SqrtRatioAtTick[next], limit, down)

RECURSIVE Walk(_, _, _, _)
Walk(ticks, walk, limit, down) ==
    IF walk.remaining = 0 \/ walk.sqrt = limit \/ walk.exhausted THEN walk
    ELSE Walk(ticks, AfterStep(ticks, walk, limit, down), limit, down)

WalkFrom(pool, amount) ==
    [remaining |-> amount, calculated |-> 0, sqrt |-> pool.sqrt, tick |-> pool.tick,
     liquidity |-> pool.liquidity, crossed |-> <<>>, exhausted |-> FALSE]

SimulationOf(end, requested, limit) ==
    LET filled == Magnitude(requested) - end.remaining
        down == requested < 0
    IN  [perp |-> IF down THEN -filled ELSE filled,
         usd |-> IF down THEN end.calculated ELSE -end.calculated,
         sqrt |-> end.sqrt, tick |-> end.tick, liquidity |-> end.liquidity,
         crossed |-> end.crossed, filled |-> end.remaining = 0, hitLimit |-> end.sqrt = limit]

Simulate(pool, requested, limit) ==
    SimulationOf(Walk(pool.ticks, WalkFrom(pool, Magnitude(requested)), limit, requested < 0),
                 requested, limit)

-----------------------------------------------------------------------------
FinishQuote(pool, requested, sim, reason) ==
    LET allowed == ImpactSqrtMin <= sim.sqrt /\ sim.sqrt <= ImpactSqrtMax
    IN  [requested |-> requested, sim |-> sim, allowed |-> allowed, start |-> pool.sqrt,
         limit |-> IF sim.filled /\ ~allowed THEN "PriceImpact" ELSE reason]

ProtocolLimit(down) == IF down THEN ProtocolSqrtMin ELSE ProtocolSqrtMax

QuotePerp(pool, delta) ==
    LET Ended(sim) == FinishQuote(pool, delta, sim,
                                  IF sim.filled THEN "Filled"
                                  ELSE IF sim.hitLimit THEN "TerminalPrice"
                                  ELSE "InsufficientLiquidity")
    IN  Ended(Simulate(pool, delta, ProtocolLimit(delta < 0)))

\* The limit a quote is sent with: the most a buy pays, the least a sale takes.
Amt1Limit(quote, cushion) ==
    LET amount == Magnitude(quote.sim.usd)
    IN  IF quote.sim.perp > 0 THEN MulDiv(amount, One + cushion, One, "Up")
        ELSE MulDiv(amount, One - cushion, One, "TowardZero")

\* ends_on_tick: the initialized tick a filled quote ends on, its end tick or
\* the one above.
EndsOnTick(pool, quote) ==
    LET near == {t \in DOMAIN pool.ticks \cap {quote.sim.tick, quote.sim.tick + 1} :
                    Magnitude(quote.sim.sqrt - SqrtRatioAtTick[t]) <= SqrtRatioAtTick[t] \div OnTickShift}
    IN  IF quote.requested = 0 \/ ~quote.sim.filled \/ near = {} THEN {} ELSE {Min(near)}

\* The root a target quote sizes up to, and what set it.
QuoteBound(pool, target, enforceImpact) ==
    LET buy == target > pool.sqrt
        protocol == ProtocolLimit(~buy)
        limit == IF buy THEN Lesser(target, protocol) ELSE Greater(target, protocol)
        bounded == IF ~enforceImpact THEN limit
                   ELSE IF buy THEN Lesser(limit, ImpactSqrtMax)
                   ELSE Greater(limit, ImpactSqrtMin)
    IN  [buy |-> buy, root |-> bounded, protocol |-> protocol,
         reason |-> IF bounded # limit THEN "PriceImpact"
                    ELSE IF limit = protocol /\ target # protocol THEN "TerminalPrice"
                    ELSE "TargetPrice"]

\* The pool stands at the bound or past it.
Behind(pool, bound) == IF bound.buy THEN bound.root <= pool.sqrt ELSE bound.root >= pool.sqrt

ToBound(bound, size) == IF bound.buy THEN size ELSE -size

\* Faulty: the probe that sizes the trade runs to the protocol's limit.
QuoteToPrice_UnboundedProbe(pool, target, enforceImpact, maxPerp, probe) ==
    LET bound == QuoteBound(pool, target, enforceImpact)
        Sized(delta) == FinishQuote(pool, delta, Simulate(pool, delta, bound.protocol), bound.reason)
        Capacity == Magnitude(Simulate(pool, ToBound(bound, probe), bound.protocol).perp)
    IN  IF target = pool.sqrt \/ Behind(pool, bound) THEN QuotePerp(pool, 0)
        ELSE Sized(ToBound(bound, Lesser(Capacity, maxPerp)))

\* The largest trade toward target: a probe of more than the pool holds sizes
\* it, the cap cuts it, and the quote runs it against the protocol's limit.
\* maxPerp and probe are magnitudes; a cap of probe is no cap.
QuoteToPrice(pool, target, enforceImpact, maxPerp, probe) ==
    LET bound == QuoteBound(pool, target, enforceImpact)
        Sized(capacity) ==
            LET delta == ToBound(bound, Lesser(capacity, maxPerp))
            IN  FinishQuote(pool, delta, Simulate(pool, delta, bound.protocol),
                            IF maxPerp < capacity THEN "MaxPerp" ELSE bound.reason)
    IN  IF target = pool.sqrt THEN QuotePerp(pool, 0)
        ELSE IF Behind(pool, bound) THEN [QuotePerp(pool, 0) EXCEPT !.limit = "PriceImpact"]
        ELSE Sized(Magnitude(Simulate(pool, ToBound(bound, probe), bound.root).perp))

-----------------------------------------------------------------------------
ActiveLiquidity(ticks, tick) ==
    MapThenSumSet(LAMBDA t : ticks[t].net, {t \in DOMAIN ticks : t <= tick})

\* One tick's change: the entry goes when nothing references the tick.
ApplyTickDelta(ticks, tick, net, gross) ==
    LET old == IF tick \in DOMAIN ticks THEN ticks[tick] ELSE [gross |-> 0, net |-> 0]
        entry == [gross |-> old.gross + gross, net |-> old.net + net]
    IN  IF entry.gross = 0 THEN [t \in DOMAIN ticks \ {tick} |-> ticks[t]]
        ELSE [t \in DOMAIN ticks \cup {tick} |-> IF t = tick THEN entry ELSE ticks[t]]

\* Faulty: a band is active at its upper tick.
WithLiquidityDelta_ClosedAbove(pool, range, delta) ==
    [pool EXCEPT
        !.ticks = ApplyTickDelta(ApplyTickDelta(@, range.lower, delta, delta),
                                 range.upper, -delta, delta),
        !.liquidity = IF range.lower <= pool.tick /\ pool.tick <= range.upper THEN @ + delta ELSE @]

WithLiquidityDelta(pool, range, delta) ==
    [pool EXCEPT
        !.ticks = ApplyTickDelta(ApplyTickDelta(@, range.lower, delta, delta),
                                 range.upper, -delta, delta),
        !.liquidity = IF InRange(range, pool.tick) THEN @ + delta ELSE @]
=============================================================================
