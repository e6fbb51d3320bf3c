------------------------------ MODULE HftTools ------------------------------
(***************************************************************************)
(* What src/hft keeps for a bot beside its sends: the position manager     *)
(* (hft/position_manager.rs) and the latency tracker (hft/latency.rs).     *)
(*                                                                         *)
(* A manager is a function from a position id alone to what is tracked     *)
(* under it: stop-loss, take-profit and trailing-stop triggers, evaluated  *)
(* against a price per market.  Prices are integers and a trailing stop is *)
(* in parts of PctScale; the trailing price is left unrounded by comparing *)
(* products.                                                               *)
(*                                                                         *)
(* A tracker is a ring of MaxSamples samples and the figures of its whole  *)
(* life.                                                                   *)
(***************************************************************************)
EXTENDS Integers, FiniteSetsExt, SequencesExt, Functions, TLC

CONSTANTS PctScale,  \* what a trailing stop of one is
          Off,       \* a trigger that is disabled
          MaxSamples \* MAX_SAMPLES
ASSUME ToolsAssumption == {PctScale, MaxSamples} \subseteq Nat \ {0}

StopLoss == "StopLoss"
TakeProfit == "TakeProfit"
TrailingStop == "TrailingStop"

Entered(f, key, value) == [k \in DOMAIN f \cup {key} |-> IF k = key THEN value ELSE f[k]]
Track(managed, pos) == Entered(managed, pos.id, pos)
Untrack(managed, id) == Restrict(managed, DOMAIN managed \ {id})

\* `a` is at least as good for the position as `b`.
NoWorse(pos, a, b) == IF pos.is_long THEN a >= b ELSE a <= b

\* Mutant: a short's mark rises, as a long's does.
UpdateAnchor_High(pos, price) ==
    IF pos.pct # Off /\ (pos.anchor = Off \/ price > pos.anchor)
    THEN [pos EXCEPT !.anchor = price] ELSE pos

UpdateAnchor(pos, price) ==
    IF pos.pct # Off /\ (pos.anchor = Off \/ ~NoWorse(pos, pos.anchor, price))
    THEN [pos EXCEPT !.anchor = price] ELSE pos

\* trailing_stop_price, in parts of PctScale.
TrailingStopPrice(pos) ==
    IF pos.pct = Off \/ pos.anchor = Off THEN Off
    ELSE IF pos.is_long THEN pos.anchor * (PctScale - pos.pct) ELSE pos.anchor * (PctScale + pos.pct)

Action(type, pos, price) == [type |-> type, id |-> pos.id, perp |-> pos.perp, price |-> price]

\* The one trigger that fires, the loss before the profit before the trail.
Check(pos, price) ==
    LET trail == TrailingStopPrice(pos) IN
    IF pos.stop_loss # Off /\ NoWorse(pos, pos.stop_loss, price)
    THEN {Action(StopLoss, pos, PctScale * pos.stop_loss)}
    ELSE IF pos.take_profit # Off /\ NoWorse(pos, price, pos.take_profit)
    THEN {Action(TakeProfit, pos, PctScale * pos.take_profit)}
    ELSE IF trail # Off /\ NoWorse(pos, trail, PctScale * price)
    THEN {Action(TrailingStop, pos, trail)}
    ELSE {}

\* check_triggers_into: every position whose market has a price.
Priced(managed, prices) == {id \in DOMAIN managed : managed[id].perp \in DOMAIN prices}
Updated(managed, prices) ==
    [id \in DOMAIN managed |-> IF id \in Priced(managed, prices)
                               THEN UpdateAnchor(managed[id], prices[managed[id].perp]) ELSE managed[id]]
CheckTriggers(managed, prices) ==
    UNION {Check(Updated(managed, prices)[id], prices[managed[id].perp]) : id \in Priced(managed, prices)}

-----------------------------------------------------------------------------
(* The latency tracker.                                                    *)

NewTracker == [samples |-> [i \in 0..(MaxSamples - 1) |-> 0], filled |-> 0, write |-> 0,
               total |-> 0, least |-> Off, most |-> 0]

Record(tracker, latency) ==
    LET at == tracker.write % MaxSamples IN
    [samples |-> [tracker.samples EXCEPT ![at] = latency],
     filled |-> IF tracker.filled < MaxSamples THEN tracker.filled + 1 ELSE tracker.filled,
     write |-> at + 1,
     total |-> tracker.total + 1,
     least |-> IF tracker.least = Off \/ latency < tracker.least THEN latency ELSE tracker.least,
     most |-> IF latency > tracker.most THEN latency ELSE tracker.most]

Elapsed(start, end) == IF end < start THEN 0 ELSE end - start

\* Nearest rank: sorted[ceil(n * p / 100) - 1], from the first.
Percentile(sorted, p) ==
    LET rank == (Len(sorted) * p + 99) \div 100 IN
    sorted[IF rank = 0 THEN 1 ELSE Min({rank, Len(sorted)})]

Ranks == {50, 95, 99}

Stats(tracker) ==
    LET window == [i \in 1..tracker.filled |-> tracker.samples[i - 1]]
        sorted == SortSeq(window, <)
    IN [count |-> tracker.total, least |-> tracker.least, most |-> tracker.most,
        average |-> FoldLeft(+, 0, window) \div tracker.filled,
        percentiles |-> [p \in Ranks |-> Percentile(sorted, p)]]

-----------------------------------------------------------------------------
CONSTANTS Tracked,    \* the positions a bot may track
          Prices,     \* the prices a market may be seen at
          Instants,   \* when a request may start and end
          MaxChecks,  \* bound: checks
          MaxRecords  \* bound: samples

\* A share is at most the whole, and the anchor is None initially.
TrackedAssumption ==
    /\ Off \notin Int /\ Prices \subseteq Int
    /\ \A pos \in Tracked :
        /\ DOMAIN pos = {"id", "perp", "is_long", "stop_loss", "take_profit", "pct", "anchor"}
        /\ pos.is_long \in BOOLEAN
        /\ {pos.stop_loss, pos.take_profit} \subseteq Int \cup {Off}
        /\ pos.pct \in (0..PctScale) \cup {Off}
        /\ pos.anchor = Off
ASSUME TrackedAssumption

VARIABLES managed,
          seen,       \* by position: the prices it was checked at while trailing
          fired,      \* the last check: its prices and actions
          checks,
          tracker,
          recorded    \* every sample since the tracker was reset, in order

managing == <<managed, seen, fired, checks>>
measuring == <<tracker, recorded>>

ManagerInit == managed = << >> /\ seen = << >> /\ checks = 0 /\ fired = [prices |-> << >>, actions |-> {}]
TrackerInit == tracker = NewTracker /\ recorded = <<>>

TrackerNext ==
    \/ /\ Len(recorded) < MaxRecords
       /\ \E start, end \in Instants :
            /\ tracker' = Record(tracker, Elapsed(start, end))
            /\ recorded' = Append(recorded, Elapsed(start, end))
    \/ recorded # <<>> /\ tracker' = NewTracker /\ recorded' = <<>>

ManagerNext ==
    \/ \E pos \in Tracked :
        /\ managed' = Track(managed, pos)
        /\ seen' = Entered(seen, pos.id, {})
        /\ UNCHANGED <<fired, checks>>
    \/ \E id \in DOMAIN managed :
        /\ managed' = Untrack(managed, id)
        /\ seen' = Restrict(seen, DOMAIN seen \ {id})
        /\ UNCHANGED <<fired, checks>>
    \* get_mut: a trigger is set or cleared, and the mark left as it was.
    \/ \E id \in DOMAIN managed : \E pos \in Tracked :
        /\ pos.id = id /\ managed[id].perp = pos.perp /\ managed[id].is_long = pos.is_long
        /\ managed' = [managed EXCEPT ![id] = [pos EXCEPT !.anchor = managed[id].anchor]]
        /\ UNCHANGED <<seen, fired, checks>>
    \/ \E perps \in SUBSET {pos.perp : pos \in Tracked} : \E prices \in [perps -> Prices] :
        /\ checks < MaxChecks
        /\ checks' = checks + 1
        /\ managed' = Updated(managed, prices)
        /\ fired' = [prices |-> prices, actions |-> CheckTriggers(managed, prices)]
        /\ seen' = [id \in DOMAIN seen |->
                        IF id \in Priced(managed, prices) /\ managed[id].pct # Off
                        THEN seen[id] \cup {prices[managed[id].perp]} ELSE seen[id]]

-----------------------------------------------------------------------------
Beyond(pos, price) ==
    \/ pos.stop_loss # Off /\ NoWorse(pos, pos.stop_loss, price)
    \/ pos.take_profit # Off /\ NoWorse(pos, price, pos.take_profit)

Trails(pos, price, history) ==
    pos.pct # Off /\ \E q \in history :
        IF pos.is_long THEN PctScale * price <= q * (PctScale - pos.pct)
        ELSE PctScale * price >= q * (PctScale + pos.pct)

FiresAsCalled ==
    \A id \in DOMAIN managed :
        LET pos == managed[id]
            prices == fired'.prices
            mine == {a \in fired'.actions : a.id = id}
        IN IF pos.perp \notin DOMAIN prices THEN mine = {}
           ELSE LET trails == Trails(pos, prices[pos.perp], seen'[id]) IN
               /\ Cardinality(mine) = IF Beyond(pos, prices[pos.perp]) \/ trails THEN 1 ELSE 0
               /\ \A a \in mine : a.perp = pos.perp
               /\ (\E a \in mine : a.type = TrailingStop) <=> trails /\ ~Beyond(pos, prices[pos.perp])

\* What a bot is told to close is what the prices call for.  A check fires for
\* exactly the tracked positions they call for, once each: a trail as soon as
\* the price is that share off any price the position was checked at while it
\* trailed, and never before a loss or a profit that fires too; and only at the
\* price of the position's own market (position_manager.rs check_triggers_into,
\* update_anchor, check).
TriggersFireAsCalled == [][checks' # checks => FiresAsCalled]_managing

\* The latency figures are those of the last MaxSamples samples, however often
\* the ring went round, and its count and extremes those of all since a reset; a
\* percentile is the least sample that so many do not pass (latency.rs record,
\* stats).
MeasuresTheLast ==
    LET n == Min({MaxSamples, Len(recorded)})
        last == [i \in 1..n |-> recorded[Len(recorded) - n + i]]
        within(v) == Cardinality({i \in DOMAIN last : last[i] <= v})
    IN recorded # <<>> =>
        LET stats == Stats(tracker) IN
        /\ stats.count = Len(recorded)
        /\ stats.least = Min(Range(recorded)) /\ stats.most = Max(Range(recorded))
        /\ stats.average = FoldLeft(+, 0, last) \div n
        /\ \A p \in Ranks :
            stats.percentiles[p] = Min({v \in Range(last) : 100 * within(v) >= p * n})

\* What a bot is told is what happened: its triggers, and its figures
\* (position_manager.rs, latency.rs).
ToolsMatchHistory == TriggersFireAsCalled /\ []MeasuresTheLast
=============================================================================
