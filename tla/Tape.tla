-------------------------------- MODULE Tape --------------------------------
(***************************************************************************)
(* A market's record and how it is read (src/history/tape): the rows of    *)
(* the market's logs from its three addresses in one chain order, what     *)
(* makes rows a tape, and the cuts and runs its folds are taken over.      *)
(***************************************************************************)
EXTENDS FoldShapes, FiniteSets

-----------------------------------------------------------------------------
(* Tape.                                                                   *)

\* follows: whether a row may come after another.
Follows(before, row) ==
    /\ before.point < row.point
    /\ before.block = row.block => before.hash = row.hash /\ before.ts = row.ts
    /\ before.ts <= row.ts

\* Tape::new: the rows, or None at the first that does not follow.
NewTape(rows) == IF \A i \in 1..(Len(rows) - 1) : Follows(rows[i], rows[i + 1]) THEN rows ELSE None

TapePush(tape, row) == IF tape = <<>> \/ Follows(Last(tape), row) THEN Append(tape, row) ELSE tape

TapeAppend(tape, later) ==
    IF tape # <<>> /\ later # <<>> /\ ~Follows(Last(tape), Head(later)) THEN None ELSE tape \o later

\* Rows in any order with repeats: sorted on their points, exact repeats
\* dropped, and then a tape or not.
Collected(rows) ==
    LET sorted == SortSeq(rows, LAMBDA a, b : a.point < b.point)
        first(i) == i = 1 \/ sorted[i] # sorted[i - 1]
        kept == SelectSeq([i \in DOMAIN sorted |-> i], first)
    IN  NewTape([i \in DOMAIN kept |-> sorted[kept[i]]])

-----------------------------------------------------------------------------
(* Runs of rows.                                                           *)

\* chunk_by: the runs whose neighbours agree on some fields.
Runs(rows, fields) ==
    FoldLeft(LAMBDA runs, row :
                IF runs # <<>> /\ \A f \in fields : Last(Last(runs))[f] = row[f]
                THEN [runs EXCEPT ![Len(runs)] = Append(@, row)] ELSE Append(runs, <<row>>),
             <<>>, rows)

BlocksOf(rows) == Runs(rows, {"block"})
TransactionsOf(rows) == Runs(rows, {"block", "tx"})

\* windows: each opens at its first row's timestamp and moves at least a row.
WindowsOf(rows, secs) ==
    LET In(run, row) == row.ts < Head(run).ts + secs
    IN  FoldLeft(LAMBDA runs, row :
                    IF runs # <<>> /\ In(Last(runs), row)
                    THEN [runs EXCEPT ![Len(runs)] = Append(@, row)] ELSE Append(runs, <<row>>),
                 <<>>, rows)

\* Mutant: cut at any row.
Segments_CutAnywhere(rows, parts) ==
    LET most == Max({1, (Len(rows) + Max({1, parts}) - 1) \div Max({1, parts})})
    IN  FoldLeft(LAMBDA runs, row :
                    IF runs # <<>> /\ Len(Last(runs)) < most
                    THEN [runs EXCEPT ![Len(runs)] = Append(@, row)] ELSE Append(runs, <<row>>),
                 <<>>, rows)

\* segments: up to so many runs of near-equal length, cut only between blocks.
Segments(rows, parts) ==
    LET most == Max({1, (Len(rows) + Max({1, parts}) - 1) \div Max({1, parts})})
        Full(run, row) == Len(run) >= most /\ row.block # Last(run).block
    IN  FoldLeft(LAMBDA runs, row :
                    IF runs # <<>> /\ ~Full(Last(runs), row)
                    THEN [runs EXCEPT ![Len(runs)] = Append(@, row)] ELSE Append(runs, <<row>>),
                 <<>>, rows)

\* within: the rows whose key is in a range, both ends binary searches.
InBlocks(rows, first, last) == SelectSeq(rows, LAMBDA r : first <= r.block /\ r.block <= last)
BetweenPoints(rows, first, last) == SelectSeq(rows, LAMBDA r : first <= r.point /\ r.point <= last)
=============================================================================
