------------------------------- MODULE Replay -------------------------------
(***************************************************************************)
(* A market rebuilt from its tape (src/history/replay/mod.rs): the market  *)
(* behind the chain-order guard (fold/mod.rs), its three starts, what its  *)
(* drivers do with it, and how the folds of two segments combine.          *)
(***************************************************************************)
EXTENDS MarketFold

\* Replay with its Sequenced guard: point and refused are the guard's.
NoReplay ==
    [perp |-> None, start |-> "Segment", events |-> 0, block |-> None,
     point |-> None, refused |-> 0, market |-> NoMarket]

FromGenesis(perp) ==
    [NoReplay EXCEPT !.perp = perp, !.start = "Creation", !.market = MarketGenesis]

Segment(perp) == [NoReplay EXCEPT !.perp = perp]

AtEndOf(block) == [point |-> EndOfBlock(block.number), ts |-> block.ts]

\* from_seed: the reads at the block, standing at its end.
Seeded(perp, read) ==
    [NoReplay EXCEPT !.perp = perp, !.start = "Seed", !.block = read.block,
                     !.point = EndOfBlock(read.block.number),
                     !.market = MarketSeeded(AtEndOf(read.block), read)]

Retaining(r, retention) == [r EXCEPT !.market = MarketRetain(@, retention)]

StandsPast(r, point) == r.point # None /\ point <= r.point

\* Apply through the guard: an event at or before the fold's point is
\* refused and counted, never applied.
Apply(r, e) ==
    IF StandsPast(r, e.point) THEN [r EXCEPT !.refused = @ + 1]
    ELSE [r EXCEPT !.point = e.point, !.events = @ + 1,
                   !.block = [number |-> e.block, ts |-> e.ts],
                   !.market = MarketApply(@, e)]

ApplyAll(r, events) == FoldLeft(Apply, r, events)
Fold(events) == ApplyAll(NoReplay, events)

\* Segments combine in order: the later one's point is past this one's.
Combine(mine, theirs) ==
    [perp |-> FirstOf(mine.perp, theirs.perp),
     start |-> IF mine = NoReplay THEN theirs.start ELSE mine.start,
     events |-> mine.events + theirs.events,
     block |-> LatestOf(mine.block, theirs.block),
     point |-> LatestOf(mine.point, theirs.point),
     refused |-> mine.refused + theirs.refused,
     market |-> MarketCombine(mine.market, theirs.market)]

-----------------------------------------------------------------------------
(* What drivers do with it.                                                *)

ReadThrough(r, block) ==
    IF StandsPast(r, EndOfBlock(block.number)) THEN r
    ELSE [r EXCEPT !.block = block, !.point = EndOfBlock(block.number),
                   !.market = MarketAdvance(@, AtEndOf(block))]

\* catch_up scans from the block after the fold's, to a block at or before
\* the lagged head; a fold with no block cannot.
CanCatchUp(r) == r.block # None
\* Faulty: one block is skipped.
CatchUpFrom_Skips(r) == r.block.number + 2

CatchUpFrom(r) == r.block.number + 1

\* The tape's rows from and to the two blocks, and the header of the last.
CaughtUp(r, rows, to) ==
    IF to.number < CatchUpFrom(r) THEN r ELSE ReadThrough(ApplyAll(r, rows), to)

\* read_books refuses another market's, and a read at or behind the fold.
CanReadBooks(r, books) ==
    books.perp = r.perp /\ ~StandsPast(r, EndOfBlock(books.block.number))

BooksRead(r, books) ==
    ReadThrough([r EXCEPT !.market.solvency = SolvencyRead(@, AtEndOf(books.block), books)],
                books.block)

-----------------------------------------------------------------------------
(* The answers.                                                            *)

Deposited(r) == IF r.start = "Creation" THEN r.market.solvency.deposited ELSE None

OpenPositions(r) ==
    {id \in DOMAIN r.market.positions.byId : IsOpen(r.market.positions.byId[id])}

\* gaps: what the fold does not know.
Gaps(r) ==
    LET known == r.market.positions.byId
    IN  [silences |-> Silences(r.market.solvency),
         marginUnknown |-> Cardinality({id \in OpenPositions(r) : known[id].margin = None}),
         partial |-> Cardinality({id \in OpenPositions(r) : ~LevelKnown(known[id])}),
         sizeUnknown |-> Cardinality({id \in OpenPositions(r) :
                                known[id].kind = "Taker" /\ TakerLegs(known[id]) = None}),
         refused |-> r.refused]
=============================================================================
