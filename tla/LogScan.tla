------------------------------ MODULE LogScan ------------------------------
(***************************************************************************)
(* The scans of one History handle (history/scan.rs): each reads the logs  *)
(* of a block range in requests whose width the handle's scans learn       *)
(* together.                                                               *)
(*                                                                         *)
(* An oldest-first scan (scan_all) carves windows and keeps up to InFlight *)
(* of them; each window asks until it is read, and windows are delivered   *)
(* in range order.  A newest-first scan (scan_newest) is one request at a  *)
(* time from the unread top, and its caller may stop it.                   *)
(*                                                                         *)
(* What a request returns is the blocks it read, in chain order.  The node *)
(* is external: it refuses a range of more than cap.span blocks or with    *)
(* more than cap.results logs, and its caps may move.                      *)
(***************************************************************************)
EXTENDS WidthSearch, Sequences

CONSTANTS
    OldestFirst, NewestFirst,   \* the scans
    FromBlock, ToBlock,
    InFlight,
    Weight(_, _),   \* external: the logs of a block that a scan's filter matches
    Caps,           \* external: the limits the node may have
    MaxMoves,       \* how often they move
    Failures        \* may the node fail or refuse a request of any width?

Scans == OldestFirst \cup NewestFirst

Blocks == FromBlock..ToBlock

ASSUME ScanAssumption ==
    /\ FromBlock \in Nat /\ ToBlock \in Nat /\ FromBlock <= ToBlock
    /\ InFlight \in Nat \ {0}
    /\ Caps \subseteq [span : Nat \ {0}, results : Nat]
    /\ Failures \in BOOLEAN /\ MaxMoves \in Nat
    /\ OldestFirst \cap NewestFirst = {}
    /\ \A s \in Scans, b \in Blocks : Weight(s, b) \in Nat

VARIABLES
    search,     \* SharedWidths
    status,     \* per scan, as are the following
    cursor,     \* first block not carved; newest first: the unread top
    windows,    \* the windows in flight, oldest first
    logs,       \* what the caller has been given, in the order it was given
    cap, moves  \* external

vars == <<search, status, cursor, windows, logs, cap, moves>>

\* A window: the first unread block, the last block, the last block of the
\* outstanding request, and the logs read.
Window == [low : Nat, to : Nat, high : Nat, asked : BOOLEAN, read : Seq(Blocks)]

Run(low, high) == [i \in 1..(high - low + 1) |-> low + i - 1]

-----------------------------------------------------------------------------
(***************************************************************************)
(* The node.                                                               *)
(***************************************************************************)
\* The width of request i of scan s.
Width(s, i) == windows[s][i].high - windows[s][i].low + 1

LogsIn(s, low, high) ==
    LET sum[b \in low..(high + 1)] ==
            IF b > high THEN 0 ELSE Weight(s, b) + sum[b + 1]
    IN sum[low]

Fits(s, i) ==
    /\ Width(s, i) <= cap.span
    /\ LogsIn(s, windows[s][i].low, windows[s][i].high) <= cap.results

CapMoves ==
    /\ moves < MaxMoves
    /\ moves' = moves + 1
    /\ cap' \in Caps
    /\ UNCHANGED <<search, status, cursor, windows, logs>>

-----------------------------------------------------------------------------
(***************************************************************************)
(* attempt: one request and its answer.                                    *)
(***************************************************************************)
\* An error ends the scan: the windows in flight are dropped.
EndScan(s, outcome) ==
    /\ status' = [status EXCEPT ![s] = outcome]
    /\ windows' = [windows EXCEPT ![s] = <<>>]
    /\ UNCHANGED <<search, cursor, logs, cap, moves>>

Asked(s, i) ==
    /\ status[s] = "running"
    /\ i \in 1..Len(windows[s])
    /\ windows[s][i].asked

\* A range rejection.  The window narrows, the scan goes on.
Narrows(s, i) ==
    /\ Asked(s, i)
    /\ ~Fits(s, i)
    /\ Width(s, i) > 1
    /\ search' = Rejected(search, Width(s, i))
    /\ windows' = [windows EXCEPT ![s][i].asked = FALSE]
    /\ UNCHANGED <<status, cursor, logs, cap, moves>>

\* Faulty variant: a rejection is final at any width.
LogsRejected_AtAnyWidth(s, i) ==
    /\ Asked(s, i)
    /\ ~Fits(s, i)
    /\ EndScan(s, "rejected")

\* No narrower request is left.
LogsRejected(s, i) ==
    /\ Asked(s, i)
    /\ ~Fits(s, i)
    /\ Width(s, i) = 1
    /\ EndScan(s, "rejected")

\* A rate limit, an unavailable server, or a refusal that no range fixes.
Unanswered(s, i) ==
    /\ Failures
    /\ Asked(s, i)
    /\ EndScan(s, "failed")

-----------------------------------------------------------------------------
(***************************************************************************)
(* Oldest first.                                                           *)
(***************************************************************************)
\* windows_oldest_first, pulled when fewer than InFlight windows are held.
Carve(s) ==
    /\ s \in OldestFirst /\ status[s] = "running"
    /\ Len(windows[s]) < InFlight
    /\ cursor[s] <= ToBlock
    /\ LET to == Smaller(cursor[s] + search.next - 1, ToBlock)
       IN /\ windows' = [windows EXCEPT ![s] =
                Append(@, [low |-> cursor[s], to |-> to, high |-> cursor[s],
                           asked |-> FALSE, read |-> <<>>])]
          /\ cursor' = [cursor EXCEPT ![s] = to + 1]
    /\ UNCHANGED <<search, status, logs, cap, moves>>

\* read_window: the next request of window i.
Ask(s, i) ==
    /\ s \in OldestFirst /\ status[s] = "running"
    /\ i \in 1..Len(windows[s])
    /\ LET w == windows[s][i]
       IN /\ ~w.asked /\ w.low <= w.to
          /\ windows' = [windows EXCEPT
                ![s][i] = [w EXCEPT
                    !.high = w.low + Smaller(search.next - 1, w.to - w.low),
                    !.asked = TRUE]]
    /\ UNCHANGED <<search, status, cursor, logs, cap, moves>>

\* Faulty variant: the block at the end of a request is asked for again.
PastRead_Overlaps(w) == w.high

PastRead(w) == w.high + 1

Reads(s, i) ==
    /\ s \in OldestFirst /\ Asked(s, i)
    /\ Fits(s, i)
    /\ LET w == windows[s][i]
       IN windows' = [windows EXCEPT
                ![s][i] = [w EXCEPT !.asked = FALSE,
                                    !.read = @ \o Run(w.low, w.high),
                                    !.low = IF w.high = w.to THEN w.to + 1
                                            ELSE PastRead(w)]]
    /\ search' = Accepted(search, Width(s, i))
    /\ UNCHANGED <<status, cursor, logs, cap, moves>>

\* buffered: a finished window waits for the ones before it.
Deliver(s) ==
    /\ s \in OldestFirst /\ status[s] = "running"
    /\ windows[s] # <<>>
    /\ Head(windows[s]).low > Head(windows[s]).to
    /\ logs' = [logs EXCEPT ![s] = @ \o Head(windows[s]).read]
    /\ windows' = [windows EXCEPT ![s] = Tail(@)]
    /\ UNCHANGED <<search, status, cursor, cap, moves>>

Finish(s) ==
    /\ s \in OldestFirst /\ status[s] = "running"
    /\ cursor[s] > ToBlock /\ windows[s] = <<>>
    /\ EndScan(s, "done")

-----------------------------------------------------------------------------
(***************************************************************************)
(* Newest first: at most one window, which is one request.                 *)
(***************************************************************************)
LowestAsked(s) == Larger(cursor[s] - (search.next - 1), FromBlock)

AskTop(s) ==
    /\ s \in NewestFirst /\ status[s] = "running"
    /\ cursor[s] >= FromBlock
    /\ \A i \in 1..Len(windows[s]) : ~windows[s][i].asked
    /\ windows' = [windows EXCEPT ![s] =
            <<[low |-> LowestAsked(s),
               to |-> cursor[s], high |-> cursor[s], asked |-> TRUE, read |-> <<>>]>>]
    /\ UNCHANGED <<search, status, cursor, logs, cap, moves>>

\* The caller sees the chunk at once.
ReadsTop(s) ==
    /\ s \in NewestFirst /\ Asked(s, 1)
    /\ Fits(s, 1)
    /\ LET w == windows[s][1]
       IN /\ logs' = [logs EXCEPT ![s] = Run(w.low, w.high) \o @]
          /\ cursor' = [cursor EXCEPT ![s] = w.low - 1]
    /\ windows' = [windows EXCEPT ![s] = <<>>]
    /\ search' = Accepted(search, Width(s, 1))
    /\ UNCHANGED <<status, cap, moves>>

\* The range is read, or the caller holds enough.
Stop(s) ==
    /\ s \in NewestFirst /\ status[s] = "running"
    /\ windows[s] = <<>>
    /\ logs[s] # <<>>
    /\ EndScan(s, IF cursor[s] < FromBlock THEN "done" ELSE "stopped")

-----------------------------------------------------------------------------
Init ==
    /\ search = NewSearch
    /\ status = [s \in Scans |-> "running"]
    /\ cursor = [s \in Scans |-> IF s \in OldestFirst THEN FromBlock ELSE ToBlock]
    /\ windows = [s \in Scans |-> <<>>]
    /\ logs = [s \in Scans |-> <<>>]
    /\ cap \in Caps
    /\ moves = 0

\* What the node's answer to request i of scan s does.
Answer(s, i) ==
    \/ Reads(s, i) \/ (i = 1 /\ ReadsTop(s))
    \/ Narrows(s, i) \/ LogsRejected(s, i) \/ Unanswered(s, i)

\* What the scan does by itself.
Drive(s) == Carve(s) \/ Deliver(s) \/ Finish(s) \/ AskTop(s) \/ Stop(s)

Next ==
    \/ CapMoves
    \/ \E s \in Scans :
        \/ Drive(s)
        \/ \E i \in 1..InFlight : Ask(s, i) \/ Answer(s, i)

Spec == Init /\ [][Next]_vars

(***************************************************************************)
(* Scans are polled, and every request is answered or times out.           *)
(***************************************************************************)
FairSpec ==
    /\ Spec
    /\ \A s \in Scans :
        /\ WF_vars(Drive(s))
        /\ \A i \in 1..InFlight : WF_vars(Ask(s, i)) /\ WF_vars(Answer(s, i))

-----------------------------------------------------------------------------
(***************************************************************************)
(* Properties.                                                             *)
(***************************************************************************)

\* The search never asks for an empty range (its callers compute next - 1 in
\* unsigned arithmetic) nor for more than the maximum, and holds accepted
\* below rejected whenever both are known (WidthSearch, probe), whatever the
\* order in which the answers of concurrent requests arrive.
WidthsCoherent ==
    /\ search.next \in 1..MaxSpan
    /\ search.accepted # None /\ search.rejected # None =>
            search.accepted < search.rejected

\* The caller is given every block of the range once and in chain order, as
\* far as the scan has got; a scan that is done has got to the end.
ReadInChainOrder ==
    /\ \A s \in OldestFirst :
        /\ logs[s] = Run(FromBlock, FromBlock + Len(logs[s]) - 1)
        /\ status[s] = "done" => Len(logs[s]) = ToBlock - FromBlock + 1
    /\ \A s \in NewestFirst :
        /\ logs[s] = Run(cursor[s] + 1, ToBlock)
        /\ status[s] = "done" => Len(logs[s]) = ToBlock - FromBlock + 1

\* A scan gives up over a rejection only when the node would refuse a single
\* block of its range at that moment (get_logs_chunked: "a request the server
\* refuses at any width").
RejectedOnlyAtOneBlock ==
    [][\A s \in Scans :
            status'[s] = "rejected" /\ status[s] # "rejected" =>
                \E b \in Blocks : Weight(s, b) > cap.results]_vars

\* Scans that share a width, and disturb each other through it, all come to an
\* end.
ScansEnd == \A s \in Scans : <>(status[s] # "running")

=============================================================================
