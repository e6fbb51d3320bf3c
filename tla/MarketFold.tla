----------------------------- MODULE MarketFold -----------------------------
(***************************************************************************)
(* The nine folds a market is composed of (src/history/replay/mod.rs):     *)
(* beside the solvency books, the positions and the pool, the totals the   *)
(* market emits (market.rs), who held each position (tape/custody.rs), and *)
(* what arrived on it (activity.rs), where a liquidation that several      *)
(* events of one transaction say is recorded once.                         *)
(***************************************************************************)
EXTENDS PositionFold

-----------------------------------------------------------------------------
(* Prices, rates, utilization and modules.                                 *)

NoTotals ==
    [pool |-> NoSeries, index |-> NoSeries, emas |-> None,
     rates |-> None, cumulatives |-> None,
     capacity |-> NoSeries, interest |-> NoSeries, module |-> None]

TotalsSeeded(at, read) ==
    LET stated(value) == SeriesStated(Sample(at.point, at.ts, value))
    IN  [pool |-> stated(read.price), index |-> stated(read.index), emas |-> read.emas,
         rates |-> read.rates, cumulatives |-> read.cumulatives,
         capacity |-> stated(read.capacity), interest |-> stated(read.interest),
         module |-> read.module]

\* Utilization::genesis: nothing supplied, nothing drawn.
TotalsGenesis ==
    [NoTotals EXCEPT !.capacity = SeriesStated(Sample(0, 0, 0)),
                     !.interest = SeriesStated(Sample(0, 0, 0))]

TotalSeries == {"pool", "index", "capacity", "interest"}

TotalsAdvance(t, at) ==
    [field \in DOMAIN t |-> IF field \in TotalSeries THEN SeriesAdvance(t[field], at) ELSE t[field]]

TotalsRetain(t, retention) ==
    [field \in DOMAIN t |->
        IF field \in TotalSeries THEN SeriesRetain(t[field], retention) ELSE t[field]]

TotalsApply(t, e) ==
    LET sample(value) == Sample(e.point, e.ts, value)
        told == CASE e.kind \in TakerKinds ->
                        [t EXCEPT !.pool = SeriesPush(@, sample(e.swap.price))]
                  [] e.kind = "IndexUpdated" -> [t EXCEPT !.index = SeriesPush(@, sample(e.index))]
                  [] e.kind = "RatesAndEmasRefreshed" ->
                        [t EXCEPT !.emas = e.emas, !.rates = e.rates]
                  [] e.kind = "CumulativesAccrued" -> [t EXCEPT !.cumulatives = e.cumulatives]
                  [] e.kind = "CapacityUpdated" ->
                        [t EXCEPT !.capacity = SeriesPush(@, sample(e.capacity))]
                  [] e.kind = "OpenInterestUpdated" ->
                        [t EXCEPT !.interest = SeriesPush(@, sample(e.interest))]
                  [] e.kind = "ModuleSet" -> [t EXCEPT !.module = e.module]
                  [] OTHER -> t
    IN  TotalsAdvance(told, At(e))

TotalsCombine(mine, theirs) ==
    [field \in DOMAIN mine |->
        IF field \in TotalSeries THEN SeriesCombine(mine[field], theirs[field])
        ELSE LatestOf(mine[field], theirs[field])]

-----------------------------------------------------------------------------
(* Custody: by position, the (point, new holder) pairs in chain order.     *)

CONSTANT Zero   \* the zero address: the giver of a mint, the receiver of a burn

CustodyApply(spans, e) ==
    IF e.kind = "PositionTransferred"
    THEN Put(spans, e.pos, Append(Entry(spans, e.pos, <<>>), [point |-> e.point, to |-> e.to]))
    ELSE spans

CustodyCombine(mine, theirs) ==
    [pos \in DOMAIN mine \cup DOMAIN theirs |->
        Entry(mine, pos, <<>>) \o Entry(theirs, pos, <<>>)]

HolderIn(timeline) ==
    IF timeline = <<>> THEN None
    ELSE IF Last(timeline).to = Zero THEN None ELSE Last(timeline).to

\* OwnershipLog::owner_at and OwnershipLog::holder.
OwnerAt(spans, pos, point) ==
    HolderIn(SubSeq(Entry(spans, pos, <<>>), 1, CountThrough(Entry(spans, pos, <<>>), point)))
Holder(spans, pos) == HolderIn(Entry(spans, pos, <<>>))

\* Positions::held_by: the open positions one of the wallets holds now.
HeldBy(ps, wallets, spans) ==
    {pos \in DOMAIN ps.byId : IsOpen(ps.byId[pos]) /\ Holder(spans, pos) \in wallets}

\* latest_owner: the last wallet that held it, its burn ignored.
LatestOwner(spans, pos) ==
    LET wallets == SelectSeq(Entry(spans, pos, <<>>), LAMBDA h : h.to # Zero)
    IN  IF wallets = <<>> THEN None ELSE Last(wallets).to

\* Arrivals::by: those on positions one of the wallets held when they arrived.
By(a, wallets, spans) ==
    [a EXCEPT !.arrivals =
        SelectSeq(@, LAMBDA arrival : OwnerAt(spans, arrival.mark, arrival.point) \in wallets)]

-----------------------------------------------------------------------------
(* Activity.                                                               *)

\* One transaction's progress: the pool price when it began, the price after
\* each position's last swap in it, and who is already said liquidated.
NoTx == [tx |-> None, start |-> None, swaps |-> <<>>, liquidated |-> {}]

Enter(inTx, tx, price) ==
    IF inTx.tx = tx THEN inTx ELSE [NoTx EXCEPT !.tx = tx, !.start = price]

InTxCombine(mine, theirs, priceBefore) ==
    IF theirs.tx = None THEN mine
    ELSE IF mine.tx = theirs.tx
    THEN [mine EXCEPT !.swaps = [pos \in DOMAIN @ \cup DOMAIN theirs.swaps |->
                                    Entry(theirs.swaps, pos, Entry(mine.swaps, pos, None))],
                      !.liquidated = @ \cup theirs.liquidated]
    ELSE [theirs EXCEPT !.start = FirstOf(@, priceBefore)]

Processes == {"swaps", "liquidations", "settlements", "prints"}

ActivityFrom(process) ==
    [swaps |-> process, liquidations |-> process, settlements |-> process, prints |-> process,
     price |-> None, index |-> None, inTx |-> NoTx]
NoActivity == ActivityFrom(NoArrivals)
ActivityGenesis == ActivityFrom(ArrivalsFromGenesis)
ActivitySeeded(at, price, index) ==
    [ActivityFrom(ArrivalsAfter(at)) EXCEPT !.price = price, !.index = index]

ActivityAdvance(a, at) ==
    [field \in DOMAIN a |-> IF field \in Processes THEN ArrivalsAdvance(a[field], at) ELSE a[field]]
ActivityRetain(a, retention) ==
    [field \in DOMAIN a |->
        IF field \in Processes THEN ArrivalsRetain(a[field], retention) ELSE a[field]]

\* A liquidation with the prices standing around it.
Liquidation(pos, inTx, after, index) ==
    [pos |-> pos, before |-> inTx.start, after |-> FirstOf(after, Entry(inTx.swaps, pos, None)),
     index |-> index]

\* Activity::liquidated: once per transaction however many events say it.
LiquidationSaid(a, e, after) ==
    LET inTx == Enter(a.inTx, e.tx, a.price)
    IN  IF e.pos \in inTx.liquidated THEN [a EXCEPT !.inTx = inTx]
        ELSE [a EXCEPT !.inTx = [inTx EXCEPT !.liquidated = @ \cup {e.pos}],
                       !.liquidations = ArrivalsPush(@, Arrival(e, Liquidation(e.pos, inTx, after, a.index)))]

\* Activity::swapped.
SwapArrived(a, e) ==
    LET inTx == Enter(a.inTx, e.tx, a.price)
    IN  [a EXCEPT !.inTx = [inTx EXCEPT !.swaps = Put(@, e.pos, e.swap.price)],
                  !.swaps = ArrivalsPush(@, Arrival(e, e.pos)),
                  !.price = e.swap.price]

Settled(a, e) == [a EXCEPT !.settlements = ArrivalsPush(@, Arrival(e, e.pos))]

ActivityTold(a, e) ==
    CASE e.kind = "TakerOpened" -> SwapArrived(a, e)
      [] e.kind = "TakerAdjusted" -> Settled(SwapArrived(a, e), e)
      [] e.kind = "TakerClosed" ->
            LET said == IF e.liquidation THEN LiquidationSaid(a, e, e.swap.price) ELSE a
            IN  Settled(SwapArrived(said, e), e)
      [] e.kind \in {"MakerConverted", "MakerClosed"} ->
            Settled(IF e.liquidation THEN LiquidationSaid(a, e, None) ELSE a, e)
      [] e.kind \in {"TakerLiquidated", "MakerLiquidated"} -> LiquidationSaid(a, e, None)
      [] e.kind \in {"MakerAdjusted", "MakerBackstopped", "TakerBackstopped"} -> Settled(a, e)
      [] e.kind = "IndexUpdated" ->
            [a EXCEPT !.prints = ArrivalsPush(@, Arrival(e, e.index)), !.index = e.index]
      [] OTHER -> a

ActivityApply(a, e) == ActivityAdvance(ActivityTold(a, e), At(e))

\* What a cut inside a transaction, or before a price, would have known.
RecordRepaired(mine, arrival) ==
    LET sameTx == mine.inTx.tx = arrival.tx
    IN  [arrival EXCEPT
            !.mark.before = FirstOf(@, IF sameTx THEN mine.inTx.start ELSE mine.price),
            !.mark.after = IF sameTx THEN FirstOf(@, Entry(mine.inTx.swaps, arrival.mark.pos, None))
                           ELSE @,
            !.mark.index = FirstOf(@, mine.index)]

ActivityCombine(mine, theirs) ==
    LET unsaid(r) == ~(mine.inTx.tx = r.tx /\ r.mark.pos \in mine.inTx.liquidated)
        kept == SelectSeq(theirs.liquidations.arrivals, unsaid)
        repaired == [i \in DOMAIN kept |-> RecordRepaired(mine, kept[i])]
    IN  [swaps |-> ArrivalsCombine(mine.swaps, theirs.swaps),
         liquidations |-> ArrivalsCombine(mine.liquidations,
                              [theirs.liquidations EXCEPT !.arrivals = repaired]),
         settlements |-> ArrivalsCombine(mine.settlements, theirs.settlements),
         prints |-> ArrivalsCombine(mine.prints, theirs.prints),
         price |-> LatestOf(mine.price, theirs.price),
         index |-> LatestOf(mine.index, theirs.index),
         inTx |-> InTxCombine(mine.inTx, theirs.inTx, mine.price)]

-----------------------------------------------------------------------------
(* Market: each event to each fold, each fold combined with its twin.      *)

NoMarket ==
    [totals |-> NoTotals, solvency |-> NoSolvency, pool |-> NoPool,
     positions |-> NoPositions, custody |-> <<>>, activity |-> NoActivity]

MarketGenesis ==
    [NoMarket EXCEPT !.totals = TotalsGenesis, !.solvency = SolvencyGenesis,
                     !.pool = PoolGenesis, !.activity = ActivityGenesis]

MarketSeeded(at, read) ==
    [totals |-> TotalsSeeded(at, read), solvency |-> SolvencySeeded(at, read),
     pool |-> PoolSeeded(read.ticks, read.tick),
     positions |-> PositionsSeeded(read.price, read.positions), custody |-> <<>>,
     activity |-> ActivitySeeded(at, read.price, read.index)]

MarketApply(m, e) ==
    [totals |-> TotalsApply(m.totals, e), solvency |-> SolvencyApply(m.solvency, e),
     pool |-> PoolApply(m.pool, e), positions |-> PositionsApply(m.positions, e),
     custody |-> CustodyApply(m.custody, e), activity |-> ActivityApply(m.activity, e)]

MarketCombine(mine, theirs) ==
    [totals |-> TotalsCombine(mine.totals, theirs.totals),
     solvency |-> SolvencyCombine(mine.solvency, theirs.solvency),
     pool |-> PoolCombine(mine.pool, theirs.pool),
     positions |-> PositionsCombine(mine.positions, theirs.positions),
     custody |-> CustodyCombine(mine.custody, theirs.custody),
     activity |-> ActivityCombine(mine.activity, theirs.activity)]

MarketAdvance(m, at) ==
    [m EXCEPT !.totals = TotalsAdvance(@, at), !.solvency = SolvencyAdvance(@, at),
              !.activity = ActivityAdvance(@, at)]

MarketRetain(m, retention) ==
    [m EXCEPT !.totals = TotalsRetain(@, retention), !.solvency = SolvencyRetain(@, retention),
              !.activity = ActivityRetain(@, retention)]
=============================================================================
