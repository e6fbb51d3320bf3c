----------------------------- MODULE FoldShapes -----------------------------
(***************************************************************************)
(* The shapes a fold's state is made of (src/history/fold): a value that   *)
(* is restated whole, one fixed by its first occurrence, a stated total    *)
(* with what accrued since, a series of a value that holds between         *)
(* updates, and a point process of arrivals.  Each has the combination     *)
(* that makes the fold of two segments the combination of their folds.     *)
(*                                                                         *)
(* A chain point is one number, LogsPerBlock * block + log index, so that  *)
(* the chain's total order is the order of the numbers.                    *)
(***************************************************************************)
EXTENDS Integers, Sequences, SequencesExt

CONSTANTS None,          \* an absent value (Option::None)
          LogsPerBlock   \* more than the log indexes any block uses

Point(block, index) == LogsPerBlock * block + index
EndOfBlock(block) == Point(block, LogsPerBlock - 1)

Saturating(n) == IF n > 0 THEN n ELSE 0

-----------------------------------------------------------------------------
(* Latest, First and Stated.                                               *)

LatestOf(mine, theirs) == IF theirs = None THEN mine ELSE theirs
FirstOf(mine, theirs)  == IF mine = None THEN theirs ELSE mine

Stated(value, nothing) == [value |-> value, since |-> nothing]

\* A later statement replaces the total and what accrued; a segment without
\* one leaves both halves' accruals, since.
StatedCombine(mine, theirs, since) ==
    IF theirs.value # None THEN theirs ELSE [mine EXCEPT !.since = since]

-----------------------------------------------------------------------------
(* Series and arrivals: entries in chain order, each [point, ts, ...], and  *)
(* the point they are known through.                                       *)

Sample(point, ts, value) == [point |-> point, ts |-> ts, value |-> value]
At(entry) == [point |-> entry.point, ts |-> entry.ts]

Furthest(mine, theirs) ==
    IF mine = None \/ (theirs # None /\ theirs.point > mine.point) THEN theirs ELSE mine

\* How many entries, in chain order, come before the block time ts.
CountBefore(entries, ts) == Len(SelectSeq(entries, LAMBDA e : e.ts < ts))
CountThrough(entries, point) == Len(SelectSeq(entries, LAMBDA e : e.point <= point))

WindowStart(end, window) == Saturating(end.ts - window)

Refuses(entries, entry) == entries # <<>> /\ entry.point <= Last(entries).point

-----------------------------------------------------------------------------
(* Series.                                                                 *)

NoSeries == [samples |-> <<>>, retention |-> None, trimmed |-> FALSE, through |-> None]

SeriesStated(sample) ==
    [NoSeries EXCEPT !.samples = <<sample>>, !.through = At(sample)]

\* Keep the window ending where the series is known through, and the one
\* sample standing at its start.
SeriesTrim(s) ==
    LET kept == Saturating(CountBefore(s.samples, WindowStart(s.through, s.retention)) - 1)
    IN  IF s.retention = None \/ s.through = None THEN s
        ELSE IF kept = 0 THEN s
        ELSE [s EXCEPT !.samples = SubSeq(@, kept + 1, Len(@)), !.trimmed = TRUE]

SeriesRetain(s, retention) == SeriesTrim([s EXCEPT !.retention = retention])

SeriesAdvance(s, at) == SeriesTrim([s EXCEPT !.through = Furthest(@, at)])

SeriesPush(s, sample) ==
    IF Refuses(s.samples, sample) THEN s
    ELSE SeriesAdvance([s EXCEPT !.samples = Append(@, sample)], At(sample))

SeriesCombine(mine, theirs) ==
    LET joined == FoldLeft(SeriesPush, mine, theirs.samples)
    IN  SeriesAdvance([joined EXCEPT !.trimmed = @ \/ theirs.trimmed], theirs.through)

\* Series::value, at_time, since: the last sample, the last one at or before a
\* block time, and those from a block time on unless some were dropped.
SeriesValue(s) == IF s.samples = <<>> THEN None ELSE Last(s.samples).value

SeriesAtTime(s, ts) ==
    LET n == CountBefore(s.samples, ts + 1) IN IF n = 0 THEN None ELSE s.samples[n]

SeriesSince(s, ts) ==
    LET n == CountBefore(s.samples, ts)
    IN  IF n = 0 /\ s.trimmed THEN None ELSE SubSeq(s.samples, n + 1, Len(s.samples))

\* Until: asked as of an end, and nothing past the point known through.
Known(s, end) == s.through # None /\ end.point <= s.through.point
UpTo(s, end) == SubSeq(s.samples, 1, CountThrough(s.samples, end.point))

\* Until::change_over: the value at the window's start and at its end.
ChangeOver(s, end, window) ==
    LET start == SeriesAtTime(s, WindowStart(end, window))
    IN  IF ~Known(s, end) \/ start = None \/ UpTo(s, end) = <<>> THEN None
        ELSE [from |-> start.value, to |-> Last(UpTo(s, end)).value]

\* Until::peak: the largest value in the window, the one standing at its start
\* among them.
Peak(s, end, window) ==
    LET from == WindowStart(end, window)
        samples == UpTo(s, end)
        before == CountBefore(samples, from)
        standing == before > 0 /\ (before = Len(samples) \/ samples[before + 1].ts > from)
        held == SubSeq(samples, IF standing THEN before ELSE before + 1, Len(samples))
    IN  IF ~Known(s, end) THEN None
        ELSE IF held = <<>> THEN None
        ELSE Max({held[i].value : i \in DOMAIN held})

-----------------------------------------------------------------------------
(* Arrivals.                                                               *)

NoArrivals == [arrivals |-> <<>>, retention |-> None, from |-> None, through |-> None]
ArrivalsFromGenesis == [NoArrivals EXCEPT !.from = 0]
ArrivalsAfter(at) == [NoArrivals EXCEPT !.from = at.ts + 1, !.through = at]

Arrival(event, mark) ==
    [point |-> event.point, ts |-> event.ts, tx |-> event.tx, mark |-> mark]

\* Faulty: what was dropped is still answered for.
ArrivalsTrim_StillAnswering(a) ==
    LET start == WindowStart(a.through, a.retention)
    IN  IF a.retention = None \/ a.through = None THEN a
        ELSE [a EXCEPT !.arrivals = SubSeq(@, CountBefore(@, start) + 1, Len(@))]

\* Drop what is before the window, and stop answering for it.
ArrivalsTrim(a) ==
    LET start == WindowStart(a.through, a.retention)
    IN  IF a.retention = None \/ a.through = None THEN a
        ELSE [a EXCEPT !.arrivals = SubSeq(@, CountBefore(@, start) + 1, Len(@)),
                       !.from = IF @ # None /\ start > @ THEN start ELSE @]

ArrivalsRetain(a, retention) == ArrivalsTrim([a EXCEPT !.retention = retention])

ArrivalsAdvance(a, at) ==
    ArrivalsTrim([a EXCEPT !.from = IF @ = None THEN at.ts + 1 ELSE @,
                           !.through = Furthest(@, at)])

ArrivalsPush(a, arrival) ==
    IF Refuses(a.arrivals, arrival) THEN a
    ELSE ArrivalsAdvance([a EXCEPT !.arrivals = Append(@, arrival)], At(arrival))

ArrivalsCombine(mine, theirs) ==
    LET begun  == [mine EXCEPT !.from = FirstOf(@, theirs.from)]
        joined == FoldLeft(ArrivalsPush, begun, theirs.arrivals)
    IN  IF theirs.through = None THEN joined ELSE ArrivalsAdvance(joined, theirs.through)

\* Until::window and count_in: what arrived in the window, None for a window
\* the process is not complete over.
ArrivedIn(a, end, window) ==
    LET start == WindowStart(end, window)
    IN  IF ~Known(a, end) THEN None
        ELSE IF a.from = None \/ start < a.from THEN None
        ELSE SubSeq(a.arrivals, CountBefore(a.arrivals, start) + 1,
                    CountThrough(a.arrivals, end.point))
CountIn(a, end, window) ==
    LET arrived == ArrivedIn(a, end, window) IN IF arrived = None THEN None ELSE Len(arrived)

\* Arrivals::busiest: the start of the densest window moves up with its end.
Busiest(a, window) ==
    LET Slid(best, end) ==
            LET start == CHOOSE k \in best.start..end :
                            /\ a.arrivals[end].ts - a.arrivals[k].ts <= window
                            /\ \A j \in best.start..(k - 1) :
                                    a.arrivals[end].ts - a.arrivals[j].ts > window
                size == end + 1 - start
            IN  [start |-> start, most |-> IF size > best.most THEN size ELSE best.most]
    IN  FoldLeft(Slid, [start |-> 1, most |-> 0], [i \in DOMAIN a.arrivals |-> i]).most
=============================================================================
