---------------------------- MODULE MarketReplay ----------------------------
(***************************************************************************)
(* A market and its replay.  First the market runs and leaves its tape,    *)
(* and at the end of every block the reads the contract would answer; then *)
(* a driver folds that tape live, from genesis, from a seed or as a bare   *)
(* segment, while its feed drops and repeats events and it catches up and  *)
(* reads books where it may.  What is folded depends only on what was      *)
(* delivered, so the driver starts when the tape is complete.              *)
(***************************************************************************)
EXTENDS MarketChain, Tape

CONSTANTS Perp,           \* the market folded
          OpeningPrice,   \* the pool's first price
          MaxOps,         \* bound: operations after the two that open the market
          MaxDrivenOps,   \* bound: operations on a tape that is driven live
          MaxFaults,      \* bound: drops, repeats and reads of one drive
          Windows,        \* the windows asked of series and arrivals
          Retentions      \* the retentions a fold is held to, None or a window

VARIABLES tape,    \* the events, in chain order
          chain,   \* the contract
          reads,   \* by block, what the reads answer at its end
          clock,   \* where the chain stands: block, logs in it, transaction, operations,
           \* and the tape's length once the market was open
          live,    \* the fold a driver holds, None until it starts
          feed,    \* how many of the tape's events the feed went past
          seen,    \* which of them the fold owes nothing for
          books,   \* the point its books were last read at
          faults

vars == <<tape, chain, reads, clock, live, feed, seen, books, faults>>
driver == <<live, feed, seen, books, faults>>

Opening == 2   \* the operations that open the market

BlockAt(number) == [number |-> number, ts |-> (number + 1) \div 2]

\* The pinned reads at the end of a block.
ReadAt(c, number) ==
    [block |-> BlockAt(number), perp |-> Perp, price |-> c.price, index |-> c.index,
     emas |-> c.emas, rates |-> c.rates, cumulatives |-> c.cumulatives,
     capacity |-> c.capacity, interest |-> c.interest, module |-> c.module,
     margin |-> c.margin, debt |-> c.debt, ticks |-> c.ticks, tick |-> c.tick,
     positions |-> c.positions, owner |-> c.owner]

\* What the next transaction finds.
Before(tx) == [chain EXCEPT !.tx = tx, !.priceBefore = chain.price]

\* The chain point, the block and the transaction each event is logged with.
Logged(events, block, logs, tx) ==
    [i \in DOMAIN events |->
        events[i] @@ [point |-> Point(block, logs + i - 1), block |-> block,
                      ts |-> BlockAt(block).ts, tx |-> tx]]

Created ==
    [next |-> 1, tx |-> 1, price |-> OpeningPrice, priceBefore |-> OpeningPrice,
     tick |-> TickOf(OpeningPrice), ticks |-> <<>>, margin |-> 0, debt |-> 0,
     interest |-> 0, capacity |-> 0, index |-> 1, emas |-> 0, rates |-> 0,
     cumulatives |-> 0, module |-> 0, positions |-> <<>>, owner |-> <<>>, liquidated |-> {}]

Init ==
    /\ chain = Created
    /\ tape = Logged(<<[kind |-> "PoolInitialized", price |-> OpeningPrice]>>, 1, 0, 1)
    /\ reads = <<ReadAt(Created, 1)>>
    /\ clock = [block |-> 1, logs |-> 1, tx |-> 1, ops |-> 0, opened |-> 1]
    /\ live = None /\ feed = 0 /\ seen = {} /\ books = 0 /\ faults = 0

\* An operation carried out in the block and the transaction it is part of.
Carry(d, block, tx) ==
    LET logs == IF block = clock.block THEN clock.logs ELSE 0
    IN  /\ chain' = d.c
        /\ tape' = tape \o Logged(d.events, block, logs, tx)
        /\ reads' = [b \in 1..block |-> IF b = block THEN ReadAt(d.c, b) ELSE reads[b]]
        /\ clock' = [block |-> block, logs |-> logs + Len(d.events), tx |-> tx,
                     ops |-> clock.ops + 1,
                     opened |-> IF clock.ops < Opening THEN Len(tape') ELSE clock.opened]

\* The first maker, another wallet's first taker, and then anything.
Operations(c) ==
    CASE clock.ops = 0 -> MakerOps(c)
      [] clock.ops = 1 -> {OpenTaker(c, w, 2, Highest) : w \in Wallets \ {c.owner[1]}}
      [] OTHER -> TakerOps(c) \cup MakerOps(c) \cup HandOps(c) \cup DebtOps(c) \cup OtherOps(c)

MayGrow == live = None /\ clock.ops < Opening + MaxOps

NewTransaction ==
    /\ MayGrow
    /\ \E block \in {clock.block, clock.block + 1} :
       \E d \in Operations(Before(clock.tx + 1)) :
            /\ block = clock.block => clock.ops >= Opening
            /\ Carry(d, block, clock.tx + 1)
    /\ UNCHANGED driver

\* One transaction may do several things.
SameTransaction ==
    /\ MayGrow /\ clock.ops >= Opening
    /\ \E d \in TakerOps(chain) \cup MakerOps(chain) : Carry(d, clock.block, clock.tx)
    /\ UNCHANGED driver

-----------------------------------------------------------------------------
(* The driver.                                                             *)

Driving == live # None
Blocks == 1..clock.block
Earlier == 2..(clock.block - 1)
Through(block) == CountThrough(tape, EndOfBlock(block))
FromTo(first, last) ==
    SelectSeq(tape, LAMBDA e : first <= e.block /\ e.block <= last)

Start(r, upto) ==
    /\ ~Driving /\ clock.ops \in Opening..(Opening + MaxDrivenOps)
    /\ live' = r /\ seen' = 1..upto /\ books' = 0
    /\ feed' = 0 /\ faults' = 0
    /\ UNCHANGED <<tape, chain, reads, clock>>

StartFromGenesis == Start(FromGenesis(Perp), 0)
StartSeeded == \E b \in Earlier : Start(Seeded(Perp, reads[b]), Through(b))
StartSegment == \E b \in Earlier : Start(ApplyAll(Segment(Perp), FromTo(b, b)), Through(b))

Offer(i) ==
    /\ live' = Apply(live, tape[i])
    /\ seen' = IF live'.events > live.events THEN seen \cup {i} ELSE seen

Deliver ==
    /\ Driving /\ feed < Len(tape)
    /\ Offer(feed + 1) /\ feed' = feed + 1
    /\ UNCHANGED <<tape, chain, reads, clock, books, faults>>

Fault == Driving /\ faults < MaxFaults /\ faults' = faults + 1

DropNext ==
    /\ Fault /\ feed < Len(tape)
    /\ feed' = feed + 1
    /\ UNCHANGED <<tape, chain, reads, clock, live, seen, books>>

\* The last event arrives again, or a dropped one late.
Repeat ==
    /\ Fault /\ feed > 0
    /\ \E i \in {feed} \cup (1..feed \ seen) : Offer(i)
    /\ UNCHANGED <<tape, chain, reads, clock, feed, books>>

\* After it the fold owes nothing of the blocks after its own.
CatchUp ==
    /\ Fault /\ CanCatchUp(live)
    /\ \E to \in live.block.number..clock.block :
        /\ live' = CaughtUp(live, FromTo(CatchUpFrom(live), to), BlockAt(to))
        /\ seen' = seen \cup {i \in DOMAIN tape : live.block.number < tape[i].block /\ tape[i].block <= to}
    /\ UNCHANGED <<tape, chain, reads, clock, feed, books>>

\* The books alone are read: nothing else of the blocks it skips is.
ReadBooks ==
    /\ Fault
    /\ \E b \in Blocks :
        /\ CanReadBooks(live, reads[b])
        /\ live' = BooksRead(live, reads[b])
        /\ books' = EndOfBlock(b)
    /\ UNCHANGED <<tape, chain, reads, clock, feed, seen>>

Next ==
    \/ StartFromGenesis \/ StartSeeded \/ StartSegment
    \/ CatchUp \/ ReadBooks \/ Deliver \/ DropNext \/ Repeat
    \/ NewTransaction \/ SameTransaction

Spec == Init /\ [][Next]_vars

-----------------------------------------------------------------------------
(* What a fold may say.                                                    *)

Agrees(value, read) == value # None => value = read

BooksAgree(r, read) ==
    LET known == Books(r.market.solvency)
        silences == Silences(r.market.solvency)
    IN  known # None =>
            /\ silences.margin = 0 => known.margin = read.margin
            /\ silences.debt = 0 => known.debt = read.debt

TotalsAgree(t, read) ==
    /\ Agrees(SeriesValue(t.pool), read.price) /\ Agrees(SeriesValue(t.index), read.index)
    /\ Agrees(t.emas, read.emas) /\ Agrees(t.rates, read.rates)
    /\ Agrees(t.cumulatives, read.cumulatives) /\ Agrees(t.module, read.module)
    /\ Agrees(SeriesValue(t.capacity), read.capacity)
    /\ Agrees(SeriesValue(t.interest), read.interest)

\* The depth of the makers whose band the tick is in.
DepthIn(read) ==
    MapThenSumSet(LAMBDA id : read.positions[id].liquidity,
                  {id \in DOMAIN read.positions :
                      LET row == read.positions[id]
                      IN  row.range # None /\ row.range[1] <= read.tick /\ read.tick < row.range[2]})

PoolAgrees(pool, read) ==
    /\ Agrees(PoolTicks(pool), read.ticks) /\ Agrees(pool.tick, read.tick)
    /\ Agrees(PoolLiquidity(pool), DepthIn(read))

PositionAgrees(p, row) ==
    /\ Agrees(p.margin, row.margin)
    /\ LevelKnown(p) => p.kind = row.kind
    /\ Agrees(TakerLegs(p), row.legs)
    /\ MakerBand(p) # None =>
            /\ MakerBand(p) = [range |-> row.range, liquidity |-> row.liquidity]
            /\ p.unpriced = 0 => p.legs = row.legs

\* Whatever the fold says of the market is what the reads say at the block.
MarketAgrees(r, read) ==
    LET known == r.market.positions.byId
        custody == r.market.custody
    IN  /\ TotalsAgree(r.market.totals, read) /\ PoolAgrees(r.market.pool, read)
        /\ \A id \in OpenPositions(r) : id \in DOMAIN read.positions /\ PositionAgrees(known[id], read.positions[id])
        /\ \A id \in DOMAIN known \ OpenPositions(r) : id \notin DOMAIN read.positions
        /\ \A id \in DOMAIN custody : Holder(custody, id) = Entry(read.owner, id, None)

\* A fold that began at creation or on a read knows every position's level.
Complete(r, read) ==
    /\ OpenPositions(r) = DOMAIN read.positions
    /\ Gaps(r).partial = 0 /\ Gaps(r).sizeUnknown = 0

Rebuilt(r, read) == BooksAgree(r, read) /\ MarketAgrees(r, read) /\ Complete(r, read)

Growing == ~Driving
Now == reads[clock.block]
History == ApplyAll(FromGenesis(Perp), tape)

\* Every fold of the tape from its i-th event on, from r.
FoldsFrom(r, i) ==
    FoldLeft(LAMBDA folds, e : Append(folds, Apply(Last(folds), e)),
             <<r>>, SubSeq(tape, i, Len(tape)))

-----------------------------------------------------------------------------
\* Every swap is one wallet's, the one that held its position when it arrived.
Attributed(m) ==
    /\ \A id \in DOMAIN m.custody : Agrees(Holder(m.custody, id), LatestOwner(m.custody, id))
    /\ MapThenSumSet(LAMBDA w : Len(By(m.activity.swaps, {w}, m.custody).arrivals), Wallets)
            = Len(m.activity.swaps.arrivals)

\* A wallet's book is the open positions the chain says are its own.
BooksAreOwned(m, read) ==
    \A w \in Wallets :
        HeldBy(m.positions, {w}, m.custody) = {id \in DOMAIN read.positions : read.owner[id] = w}

\* The whole market from its tape: genesis and every event since give what
\* the reads give, and Holder the owner; the books where no silence stands.
GenesisMatchesReads ==
    Growing => /\ Rebuilt(History, Now)
               /\ Attributed(History.market) /\ BooksAreOwned(History.market, Now)

\* A seed is the fold's own past: the reads at any block and the events after
\* it give what the reads give later, and the events of its block and before
\* are refused one by one and change nothing.
SeedIsACheckpoint ==
    Growing => \A b \in Blocks :
        LET later == ApplyAll(Seeded(Perp, reads[b]), FromTo(b + 1, clock.block))
        IN  /\ Rebuilt(later, Now)
            /\ ApplyAll(Seeded(Perp, reads[b]), tape) = [later EXCEPT !.refused = Through(b)]

\* Wherever a replay starts, it comes to what the reads say.
ReplayMatchesReads == GenesisMatchesReads /\ SeedIsACheckpoint

\* The fold of two segments is the combination of their folds, wherever the
\* tape is cut and wherever the first begins, inside a transaction too; and
\* so the folds of the parts a tape is split into for several workers.
FoldLaw ==
    Growing =>
        LET n == Len(tape)
            suffix == FoldLeft(LAMBDA folds, i : <<Fold(SubSeq(tape, n - i + 1, n))>> \o folds,
                               <<NoReplay>>, [i \in 1..n |-> i])
            Splits(folds, i) ==   \* folds[k] is of the k - 1 events from the i-th
                \A k \in DOMAIN folds : Combine(folds[k], suffix[i + k - 1]) = Last(folds)
        IN  /\ Splits(FoldsFrom(FromGenesis(Perp), 1), 1)
            /\ \A i \in (IF clock.ops > Opening + 1 THEN clock.opened..n ELSE 1..n) :
                    Splits(FoldsFrom(NoReplay, i), i)
            /\ \A parts \in {2, 3} :
                    LET folds == [p \in DOMAIN Segments(tape, parts) |-> Fold(Segments(tape, parts)[p])]
                    IN  FoldLeft(Combine, NoReplay, folds) = suffix[1]

\* Each liquidation is one arrival with the prices that stood around it, on
\* either build: the close's own flag, or a dedicated event after it.
LiquidationsOnce ==
    Growing =>
        LET arrivals == ApplyAll(Seeded(Perp, reads[1]), tape).market.activity.liquidations.arrivals
            said == {[tx |-> a.tx, mark |-> a.mark] : a \in ToSet(arrivals)}
        IN  said = chain.liquidated /\ Len(arrivals) = Cardinality(said)

\* The events of the tape a process counts, and the values a series samples.
Counted == [prints |-> {"IndexUpdated"}, swaps |-> TakerKinds]
Sampled(field) ==
    SelectSeq(tape, LAMBDA e : e.kind = IF field = "index" THEN "IndexUpdated" ELSE "OpenInterestUpdated")
ValueOf(e) == IF e.kind = "IndexUpdated" THEN e.index ELSE e.interest
ValuesOf(events) == [i \in DOMAIN events |-> ValueOf(events[i])]

\* What a window ending at a block's last event, or where the fold stands,
\* holds: counted and sampled on the tape itself.
InWindow(e, end, w) == WindowStart(end, w) <= e.ts /\ e.point <= end.point

ArrivalsTrue(a, counted, end, w, answered) ==
    LET count == CountIn(a, end, w)
    IN  /\ Agrees(count, Cardinality({i \in DOMAIN tape :
                            tape[i].kind \in counted /\ InWindow(tape[i], end, w)}))
        /\ answered => count # None

\* The change across the window and, where all of it is kept, the most held in it.
SeriesTrue(s, field, end, w, answered, reaches) ==
    LET sampled == Sampled(field)
        told == SelectSeq(sampled, LAMBDA e : e.point <= end.point)
        before == SelectSeq(told, LAMBDA e : e.ts <= WindowStart(end, w))
        held == SelectSeq(told, LAMBDA e : InWindow(e, end, w))
        change == ChangeOver(s, end, w)
    IN  /\ change # None =>
            /\ change.to = Last(<<Created[field]>> \o ValuesOf(told))
            /\ before # <<>> => change.from = ValueOf(Last(before))
        /\ answered /\ before # <<>> =>
            /\ change # None
            /\ reaches => Peak(s, end, w) = Max(ToSet(ValuesOf(held)) \cup {ValueOf(Last(before))})

WindowTrue(r, retention, end, w) ==
    LET kept == retention = None \/ WindowStart(end, w) >= r.block.ts - retention
        answered == r.start = "Creation" /\ kept
    IN  /\ \A process \in DOMAIN Counted :
            ArrivalsTrue(r.market.activity[process], Counted[process], end, w, answered)
        /\ w > 0 => \A field \in {"index", "interest"} :
            SeriesTrue(r.market.totals[field], field, end, w, answered, kept)

\* A window over the past is answered from the whole of it or not at all; from
\* creation one the fold retains is always answered; and the busiest window
\* of a fold that kept everything is the busiest the tape has.
WindowsAnswerTruly ==
    Growing =>
        /\ \A retention \in Retentions :
            \A r0 \in {FromGenesis(Perp), Segment(Perp)} \cup {Seeded(Perp, reads[b]) : b \in Earlier} :
                LET r == ApplyAll(Retaining(r0, retention), tape)
                    quiet == ReadThrough(r, BlockAt(clock.block + 2))
                    ends == {At(Last(rows)) : rows \in ToSet(BlocksOf(tape))}
                IN  \A w \in Windows :
                        /\ \A end \in ends : WindowTrue(r, retention, end, w)
                        /\ WindowTrue(quiet, retention, AtEndOf(quiet.block), w)
        /\ \A w \in Windows :
            LET swaps == SelectSeq(tape, LAMBDA e : e.kind \in TakerKinds)
                within(t) == {i \in DOMAIN swaps : t - w <= swaps[i].ts /\ swaps[i].ts <= t}
            IN  Busiest(History.market.activity.swaps, w) =
                    Max({0} \cup {Cardinality(within(swaps[i].ts)) : i \in DOMAIN swaps})

\* What a market's activity reports of its past is what its tape holds: each
\* liquidation, and every window of arrivals and of values.
ActivityIsTrue == LiquidationsOnce /\ WindowsAnswerTruly

\* Live, however the feed repeats, and whenever the driver catches up or reads
\* the books: a fold that missed nothing up to where it stands is the market
\* there; and what it missed before it last read the books does not show in them.
Missing == {i \in DOMAIN tape : tape[i].point <= live.point} \ seen
StandsAtBlockEnd ==
    live.block # None /\ Through(live.block.number) = CountThrough(tape, live.point)

LiveMatchesUnlessMissed ==
    Driving /\ live.point # None /\ StandsAtBlockEnd =>
        LET read == reads[live.block.number]
        IN  /\ Missing = {} => MarketAgrees(live, read) /\ (live.start # "Segment" => Complete(live, read))
            /\ (\A i \in Missing : tape[i].point <= books) => BooksAgree(live, read)
=============================================================================
