---------------------------- MODULE PositionFold ----------------------------
(***************************************************************************)
(* Positions and the pool's liquidity from the tape                        *)
(* (src/history/replay/positions.rs and pool.rs).  A taker's two legs are  *)
(* the sums of its swaps; a maker's band is the range its first liquidity  *)
(* change named and the sum of the changes since, and its legs the sums of *)
(* what each change moved at the pool's price then.  A segment that did    *)
(* not see an open knows what moved and not where the position stands.     *)
(***************************************************************************)
EXTENDS FoldShapes, Functions, FiniteSetsExt

-----------------------------------------------------------------------------
(***************************************************************************)
(* The solvency books from the tape (src/history/replay/solvency.rs): the  *)
(* margin total and the bad debt as the contract last stated them, and     *)
(* what moved each since with no event saying so.  A taker swap's          *)
(* protocol, creator and insurance fees leave the margin total silently,   *)
(* before or after the transaction's MarginTransferred as the path has it. *)
(***************************************************************************)

TakerKinds == {"TakerOpened", "TakerAdjusted", "TakerClosed"}

Nothing == [fees |-> 0, unemitted |-> 0]
AddSince(a, b) == [fees |-> a.fees + b.fees, unemitted |-> a.unemitted + b.unemitted]

NoSolvency ==
    [margin |-> Stated(None, Nothing), debt |-> Stated(None, 0),
     transfer |-> None,                            \* transfer_in_tx
     opening |-> [tx |-> None, provisional |-> 0],
     marginStated |-> NoSeries, debtStated |-> NoSeries, deposited |-> 0]

SolvencySeeded(at, read) ==
    [NoSolvency EXCEPT
        !.margin = Stated(read.margin, Nothing), !.debt = Stated(read.debt, 0),
        !.marginStated = SeriesStated(Sample(at.point, at.ts, read.margin)),
        !.debtStated = SeriesStated(Sample(at.point, at.ts, read.debt))]

SolvencyGenesis == SolvencySeeded([point |-> 0, ts |-> 0], [margin |-> 0, debt |-> 0])

\* A read stated over what the fold knew, as the contract's statements are.
SolvencyRead(s, at, read) ==
    [s EXCEPT !.margin = Stated(read.margin, Nothing),
              !.debt = Stated(read.debt, 0),
              !.opening = NoSolvency.opening,
              !.marginStated = SeriesPush(@, Sample(at.point, at.ts, read.margin)),
              !.debtStated = SeriesPush(@, Sample(at.point, at.ts, read.debt))]

SolvencyAdvance(s, at) ==
    [s EXCEPT !.marginStated = SeriesAdvance(@, at), !.debtStated = SeriesAdvance(@, at)]

SolvencyRetain(s, retention) ==
    [s EXCEPT !.marginStated = SeriesRetain(@, retention),
              !.debtStated = SeriesRetain(@, retention)]

-----------------------------------------------------------------------------
(* Apply.                                                                  *)

TransferSeen(s, e) == s.transfer # None /\ s.transfer.tx = e.tx

\* Faulty: the statement is taken to come before every swap's fees.
FeesRemovedAfterStatement_Always(s, e) == TRUE

\* Whether the swap's fees left after the transaction's statement, so that
\* the fold must remove them.
FeesRemovedAfterStatement(s, e) ==
    \/ e.kind = "TakerOpened"
    \/ ~(TransferSeen(s, e) /\ s.transfer.nonpositive)

SwapSolvency(s, e) ==
    LET removed == e.swap.fees + e.swap.insurance
        removes == removed # 0 /\ FeesRemovedAfterStatement(s, e)
        unseen  == s.opening.tx = e.tx /\ ~TransferSeen(s, e) /\ e.kind # "TakerOpened"
    IN  [s EXCEPT !.debt.since = @ + (IF e.swap.insurance # 0 THEN 1 ELSE 0),
                  !.margin.since.fees = @ + (IF removes THEN removed ELSE 0),
                  !.opening.provisional = @ + (IF removes /\ unseen THEN removed ELSE 0)]

MarginTransferred(s, e) ==
    [s EXCEPT !.margin = Stated(e.total, Nothing),
              !.opening.provisional = 0,
              !.marginStated = SeriesPush(@, Sample(e.point, e.ts, e.total)),
              !.deposited = @ + Saturating(e.delta),
              !.transfer = [tx |-> e.tx, nonpositive |-> e.delta <= 0]]

DebtRestated(s, e) ==
    [s EXCEPT !.debt = Stated(e.debt, 0),
              !.debtStated = SeriesPush(@, Sample(e.point, e.ts, e.debt))]

SolvencyApply(before, e) ==
    LET s == [before EXCEPT !.opening.tx = FirstOf(@, e.tx)]
        moved == CASE e.kind \in TakerKinds -> SwapSolvency(s, e)
                   [] e.kind = "MarginTransferred" -> MarginTransferred(s, e)
                   [] e.kind = "LossSocialized" -> DebtRestated(s, e)
                   [] e.kind \in {"BadDebtAccounted", "Donated"} ->
                        [DebtRestated(s, e) EXCEPT !.margin.since.unemitted = @ + 1]
                   [] OTHER -> s
    IN  SolvencyAdvance(moved, At(e))

-----------------------------------------------------------------------------
(* Combine.                                                                *)

\* Opening::combine.
OpeningCombine(mine, theirs, theirsStated, transferSeen) ==
    IF mine.tx = None THEN theirs
    ELSE IF theirsStated THEN [mine EXCEPT !.provisional = theirs.provisional]
    ELSE IF theirs.tx = mine.tx /\ ~transferSeen THEN [mine EXCEPT !.provisional = @ + theirs.provisional]
    ELSE mine

\* Faulty: a cut between a transfer and its swap is not repaired.
SolvencyCombine_NotRepaired(mine, theirs) ==
    LET sameTx == mine.transfer # None /\ mine.transfer.tx = theirs.opening.tx
    IN  [margin |-> StatedCombine(mine.margin, theirs.margin, AddSince(mine.margin.since, theirs.margin.since)),
         debt |-> StatedCombine(mine.debt, theirs.debt, mine.debt.since + theirs.debt.since),
         transfer |-> LatestOf(mine.transfer, theirs.transfer),
         opening |-> OpeningCombine(mine.opening, theirs.opening,
                                    theirs.margin.value # None, sameTx),
         marginStated |-> SeriesCombine(mine.marginStated, theirs.marginStated),
         debtStated |-> SeriesCombine(mine.debtStated, theirs.debtStated),
         deposited |-> mine.deposited + theirs.deposited]

\* A cut between a withdrawal's transfer and its swap leaves the fees the
\* statement already had out removed twice; they are taken back here.
SolvencyCombine(mine, theirs) ==
    LET sameTx == mine.transfer # None /\ mine.transfer.tx = theirs.opening.tx
        back   == IF sameTx /\ mine.transfer.nonpositive THEN theirs.opening.provisional ELSE 0
        repaired == [theirs.margin EXCEPT !.since.fees = Saturating(@ - back)]
    IN  [margin |-> StatedCombine(mine.margin, repaired, AddSince(mine.margin.since, repaired.since)),
         debt |-> StatedCombine(mine.debt, theirs.debt, mine.debt.since + theirs.debt.since),
         transfer |-> LatestOf(mine.transfer, theirs.transfer),
         opening |-> OpeningCombine(mine.opening, theirs.opening,
                                    theirs.margin.value # None, sameTx),
         marginStated |-> SeriesCombine(mine.marginStated, theirs.marginStated),
         debtStated |-> SeriesCombine(mine.debtStated, theirs.debtStated),
         deposited |-> mine.deposited + theirs.deposited]

-----------------------------------------------------------------------------
(* The answers.                                                            *)

\* Solvency::state.
Books(s) ==
    IF s.debt.value = None \/ s.margin.value = None THEN None
    ELSE [margin |-> Saturating(s.margin.value - s.margin.since.fees), debt |-> s.debt.value]

\* Swaps that may have repaid debt are silences only while debt stands.
Silences(s) ==
    LET swaps == IF s.debt.value # None /\ s.debt.value # 0 THEN s.debt.since ELSE 0
    IN  [margin |-> s.margin.since.unemitted + swaps, debt |-> swaps]

-----------------------------------------------------------------------------

CONSTANT Moved(_, _, _)   \* what a liquidity change moves: pool price, range, delta

Plus(a, b) == <<a[1] + b[1], a[2] + b[2]>>
Flat == <<0, 0>>

Entry(f, x, default) == IF x \in DOMAIN f THEN f[x] ELSE default
Put(f, x, v) == [y \in DOMAIN f \cup {x} |-> IF y = x THEN v ELSE f[y]]

-----------------------------------------------------------------------------
(* One position.                                                           *)

\* PositionKind; legs are the kind's moved and usd, and the fields a kind does
\* not have are None or zero in it.
UnknownKind ==
    [kind |-> "Unknown", legs |-> Flat, sized |-> FALSE, range |-> None, liquidity |-> 0,
     deposit |-> None]

\* PositionState of a position nothing was said of.
Unseen ==
    UnknownKind @@ [opened |-> None, last |-> None, closed |-> None, liquidations |-> 0,
                    margin |-> None, unpriced |-> 0]

\* A taker: the band's own fields go with the band.
AsTaker(p) == [p EXCEPT !.kind = "Taker", !.range = None, !.liquidity = 0, !.deposit = None]

\* Which kind a row is: of a band, of a size, or of neither.
SeedKind(row) ==
    IF row.range # None THEN "Maker" ELSE IF row.legs[1] # 0 THEN "Taker" ELSE "Unknown"

PositionSeeded(row) ==
    LET seeded == [Unseen EXCEPT !.margin = row.margin, !.legs = row.legs, !.sized = TRUE]
    IN  CASE SeedKind(row) = "Maker" -> [seeded EXCEPT !.kind = "Maker", !.range = row.range,
                                                       !.liquidity = row.liquidity]
          [] SeedKind(row) = "Taker" -> AsTaker(seeded)
          [] OTHER -> [Unseen EXCEPT !.margin = row.margin]

Swapped(p, swap, opens) ==
    [AsTaker(p) EXCEPT !.legs = Plus(@, <<swap.perp, swap.usd>>),
                       !.sized = @ \/ opens]

LiquidityChanged(p, range, delta, moves) ==
    LET standing ==
            CASE p.kind = "Maker" -> [p EXCEPT !.range = FirstOf(@, range), !.liquidity = @ + delta]
              [] p.kind = "Unknown" -> [p EXCEPT !.kind = "Maker", !.range = range,
                                                 !.liquidity = delta]
              [] OTHER -> p
    IN  IF moves = None THEN [standing EXCEPT !.unpriced = @ + 1]
        ELSE [standing EXCEPT !.legs = Plus(@, moves)]

MakerOpened(p, point, price) ==
    LET maker == IF p.kind = "Unknown" THEN [p EXCEPT !.kind = "Maker"] ELSE p
    IN  IF maker.opened # None THEN maker
        ELSE [maker EXCEPT !.opened = point, !.sized = TRUE,
                           !.deposit = IF maker.kind = "Maker" THEN price ELSE @]

\* Whatever was a maker is a taker holding what its changes moved.
Converted(p) == IF p.kind = "Taker" THEN p ELSE AsTaker(p)

\* A segment that saw the open before any swap of its own.
DepositPricedAt(p, price) ==
    IF p.opened # None /\ p.kind = "Maker" /\ p.deposit = None
    THEN [p EXCEPT !.deposit = price] ELSE p

\* PositionKind::combine, the fields that are the kind's.
KindCombine(mine, theirs) ==
    LET summed == [mine EXCEPT !.legs = Plus(@, theirs.legs), !.sized = @ \/ theirs.sized]
    IN  CASE theirs.kind = "Unknown" -> mine
          [] mine.kind = "Unknown" /\ theirs.kind # "Unknown" ->
                [mine EXCEPT !.kind = theirs.kind, !.legs = theirs.legs, !.sized = theirs.sized,
                             !.range = theirs.range, !.liquidity = theirs.liquidity,
                             !.deposit = theirs.deposit]
          [] mine.kind = "Maker" /\ theirs.kind = "Maker" ->
                [summed EXCEPT !.range = FirstOf(@, theirs.range),
                               !.liquidity = @ + theirs.liquidity,
                               !.deposit = IF mine.opened # None THEN @ ELSE theirs.deposit]
          [] OTHER -> AsTaker(summed)

PositionCombine(mine, theirs) ==
    [KindCombine(mine, theirs) EXCEPT
        !.opened = FirstOf(@, theirs.opened), !.closed = FirstOf(@, theirs.closed),
        !.last = LatestOf(@, theirs.last), !.liquidations = @ + theirs.liquidations,
        !.margin = theirs.margin, !.unpriced = @ + theirs.unpriced]

-----------------------------------------------------------------------------
(* Every position, by id.                                                  *)

NoPositions == [byId |-> <<>>, price |-> None, pool |-> None, waiting |-> <<>>]

PositionsSeeded(price, rows) ==
    [NoPositions EXCEPT !.byId = [id \in DOMAIN rows |-> PositionSeeded(rows[id])],
                        !.price = price, !.pool = price]

\* Any touch moves the margin, which no event carries.
Touched(ps, id, point) ==
    [Entry(ps.byId, id, Unseen) EXCEPT !.last = point, !.margin = None]

\* What the event says of the position it names, once touched.
PositionTold(ps, p, e) ==
    LET count == IF e.liquidation THEN 1 ELSE 0
    IN  CASE e.kind = "TakerOpened" ->
                [Swapped(p, e.swap, TRUE) EXCEPT !.opened = FirstOf(@, e.point)]
          [] e.kind = "TakerAdjusted" -> Swapped(p, e.swap, FALSE)
          [] e.kind = "TakerClosed" ->
                [Swapped(p, e.swap, FALSE) EXCEPT !.closed = FirstOf(@, e.point),
                                                  !.liquidations = @ + count]
          [] e.kind = "MakerOpened" -> MakerOpened(p, e.point, ps.price)
          [] e.kind = "MakerConverted" -> [Converted(p) EXCEPT !.liquidations = @ + count]
          [] e.kind = "MakerClosed" -> [p EXCEPT !.closed = FirstOf(@, e.point),
                                                 !.liquidations = @ + count]
          [] e.kind \in {"MakerLiquidated", "TakerLiquidated"} ->
                [p EXCEPT !.liquidations = @ + 1]
          [] OTHER -> p     \* MakerAdjusted, and the two backstops

PositionKinds == TakerKinds \cup
    {"MakerOpened", "MakerAdjusted", "MakerConverted", "MakerClosed",
     "MakerLiquidated", "TakerLiquidated", "MakerBackstopped", "TakerBackstopped"}

\* The change waits for the segment before when this one has no pool price.
PositionsModified(ps, e) ==
    LET moves == IF ps.pool = None THEN None ELSE Moved(ps.pool, e.range, e.delta)
        change == [range |-> e.range, delta |-> e.delta]
        waits == Put(ps.waiting, e.pos, Append(Entry(ps.waiting, e.pos, <<>>), change))
    IN  [ps EXCEPT !.byId = Put(@, e.pos, LiquidityChanged(Touched(ps, e.pos, e.point),
                                                           e.range, e.delta, moves)),
                   !.waiting = IF ps.pool = None THEN waits ELSE @]

PositionsApply(ps, e) ==
    CASE e.kind = "ModifyLiquidity" -> PositionsModified(ps, e)
      [] e.kind \in {"PoolInitialized", "PoolSwapped"} -> [ps EXCEPT !.pool = e.price]
      [] e.kind \in PositionKinds ->
            [ps EXCEPT !.byId = Put(@, e.pos, PositionTold(ps, Touched(ps, e.pos, e.point), e)),
                       !.price = IF e.kind \in TakerKinds THEN e.swap.price ELSE @]
      [] OTHER -> ps

\* The changes the later segment could not price, priced at this one's last.
Priced(p, pool, changes) ==
    FoldLeft(LAMBDA q, c : [q EXCEPT !.legs = Plus(@, Moved(pool, c.range, c.delta)),
                                     !.unpriced = @ - 1],
             p, changes)

PositionsCombine(mine, theirs) ==
    LET here == mine.pool # None
        told(id) ==
            LET p == theirs.byId[id]
                priced == IF here THEN Priced(p, mine.pool, Entry(theirs.waiting, id, <<>>)) ELSE p
            IN  DepositPricedAt(priced, mine.price)
    IN  [byId |-> [id \in DOMAIN mine.byId \cup DOMAIN theirs.byId |->
                      IF id \notin DOMAIN theirs.byId THEN mine.byId[id]
                      ELSE IF id \notin DOMAIN mine.byId THEN told(id)
                      ELSE PositionCombine(mine.byId[id], told(id))],
         price |-> LatestOf(mine.price, theirs.price),
         pool |-> LatestOf(mine.pool, theirs.pool),
         waiting |-> IF here THEN mine.waiting
                     ELSE [id \in DOMAIN mine.waiting \cup DOMAIN theirs.waiting |->
                              Entry(mine.waiting, id, <<>>) \o Entry(theirs.waiting, id, <<>>)]]

-----------------------------------------------------------------------------
(* The answers.                                                            *)

IsOpen(p) == p.closed = None
LevelKnown(p) == p.sized /\ (p.kind = "Taker" => p.unpriced = 0) /\ p.kind # "Unknown"

\* taker_size and taker_usd, which are known together.
TakerLegs(p) == IF p.kind = "Taker" /\ p.sized /\ p.unpriced = 0 THEN p.legs ELSE None

MakerBand(p) ==
    IF p.kind = "Maker" /\ p.sized /\ p.range # None /\ p.liquidity > 0
    THEN [range |-> p.range, liquidity |-> p.liquidity] ELSE None

-----------------------------------------------------------------------------
(* The pool: liquidity by tick as signed sums, and the tick.               *)

NoPool == [ticks |-> <<>>, tick |-> None, whole |-> FALSE]
PoolGenesis == [NoPool EXCEPT !.whole = TRUE]
PoolSeeded(ticks, tick) == [ticks |-> ticks, tick |-> tick, whole |-> TRUE]

\* Add to a tick's sums, dropping the tick when both return to zero.
TickChanged(ticks, tick, net, gross) ==
    LET sums == Plus(Entry(ticks, tick, Flat), <<net, gross>>)
    IN  IF sums = Flat THEN Restrict(ticks, DOMAIN ticks \ {tick}) ELSE Put(ticks, tick, sums)

BandChanged(ticks, range, delta) ==
    TickChanged(TickChanged(ticks, range[1], delta, delta), range[2], -delta, delta)

PoolApply(pool, e) ==
    CASE e.kind = "ModifyLiquidity" -> [pool EXCEPT !.ticks = BandChanged(@, e.range, e.delta)]
      [] e.kind = "TicksCrossed" -> [pool EXCEPT !.tick = e.ending]
      [] OTHER -> pool

PoolCombine(mine, theirs) ==
    LET sums == [tick \in DOMAIN mine.ticks \cup DOMAIN theirs.ticks |->
                    Plus(Entry(mine.ticks, tick, Flat), Entry(theirs.ticks, tick, Flat))]
    IN  [mine EXCEPT !.tick = LatestOf(@, theirs.tick),
                     !.ticks = RestrictValues(sums, LAMBDA s : s # Flat)]

\* Pool::ticks and Pool::liquidity; None off genesis, and until a tick is known.
PoolTicks(pool) == IF pool.whole THEN pool.ticks ELSE None
PoolLiquidity(pool) ==
    IF ~pool.whole \/ pool.tick = None THEN None
    ELSE MapThenSumSet(LAMBDA tick : pool.ticks[tick][1],
                       {tick \in DOMAIN pool.ticks : tick <= pool.tick})
=============================================================================
