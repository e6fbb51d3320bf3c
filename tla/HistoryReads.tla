---------------------------- MODULE HistoryReads ----------------------------
(***************************************************************************)
(* The history handle's readers (src/history/mod.rs, tape/read.rs,         *)
(* beacon.rs, transfers.rs) over a chain that grows and reorganizes behind *)
(* replicas that trail it.  A read is many requests, each answered by some *)
(* replica at its own time: the head, the logs of each block of each scan, *)
(* the headers of blocks whose logs came without a timestamp.  How a scan  *)
(* is cut into requests and paced is LogScan's; here every block may be    *)
(* its own request, in any order, as with enough of them in flight.        *)
(***************************************************************************)
EXTENDS Tape, FiniteSetsExt, TLC

CONSTANTS Contents,   \* what a block's logs may be, each a sequence of logs
          MaxHead,    \* bound: blocks
          MaxForks,   \* bound: reorganizations
          Depth,      \* blocks a reorganization replaces
          Behind,     \* blocks a replica may trail by
          Lag,        \* the handle's lag (SNAPSHOT_BLOCK_LAG)
          Limits      \* the limits the newest-first reads are asked for

VARIABLES chain,    \* the blocks, each [hash, logs]
          forks,
          stamps,   \* whether the node's logs carry their block's timestamp
          job,      \* the read in progress, or None
          answer    \* what the last read answered, or None

node == <<chain, forks, stamps>>

-----------------------------------------------------------------------------
(* The node.                                                               *)

Height == Len(chain)
Hash(number, fork) == <<number, fork>>
TimeOf(hash) == (MaxForks + 1) * hash[1] + hash[2]

MineBlock ==
    /\ answer = None /\ Height < MaxHead
    /\ \E logs \in Contents :
        chain' = Append(chain, [hash |-> Hash(Height + 1, forks), logs |-> logs])
    /\ UNCHANGED <<forks, stamps, job, answer>>

\* A longer fork wins: its blocks are new ones.
Reorganize ==
    /\ answer = None /\ forks < MaxForks /\ Height \in (Depth + 1)..(MaxHead - 1)
    /\ \E logs \in Contents :
        chain' = [n \in 1..(Height + 1) |->
                    IF n <= Height - Depth THEN chain[n]
                    ELSE [hash |-> Hash(n, forks + 1), logs |-> IF n = Height THEN logs ELSE <<>>]]
    /\ forks' = forks + 1
    /\ UNCHANGED <<stamps, job, answer>>

\* A block's logs with their mined position; a replica that has not seen the
\* block has no logs of it and no header.
LogsOf(number) ==
    [i \in DOMAIN chain[number].logs |->
        chain[number].logs[i] @@
            [point |-> Point(number, i), block |-> number, hash |-> chain[number].hash,
             ts |-> IF stamps THEN TimeOf(chain[number].hash) ELSE None]]
LogsAt(number, behind) == IF number > Height - behind THEN <<>> ELSE LogsOf(number)
HeaderAt(number, behind) == IF number > Height - behind THEN None ELSE chain[number].hash

-----------------------------------------------------------------------------
(* Filters and decoders.  A log is at an address, of a pool if the         *)
(* PoolManager's, to a wallet if a token's; what it says is an event of    *)
(* the vocabulary, one of another, or an event that will not decode.       *)

\* TapeAddresses of two markets that share a beacon.
Perp == "perp1"
Perps == {Perp, "perp2"}
PoolOf(perp) == IF perp = Perp THEN "pool1" ELSE "pool2"

PoolLog(log, pools) == log.at = "manager" /\ log.pool \in pools /\ log.says # "other"

Matches(scan, log) ==
    CASE scan = "perp"      -> log.at = Perp
      [] scan = "market"    -> log.at \in {Perp, "beacon"}
      [] scan = "pool"      -> PoolLog(log, {PoolOf(Perp)})
      [] scan = "markets"   -> log.at \in Perps \cup {"beacon"}
      [] scan = "pools"     -> PoolLog(log, {PoolOf(p) : p \in Perps})
      [] scan = "prints"    -> log.at = "beacon" /\ log.says # "other"
      [] scan = "transfers" -> log.at = "token" /\ log.says # "other" /\ log.to = "recipient"

MarketScans == {"market", "pool"}
PrintScans == {"prints"}
TransferScans == {"transfers"}

ScansOf(op) ==
    CASE op \in {"market_tape", "record", "check_tail"} -> MarketScans
      [] op \in {"market_events", "latest_market_events"} -> {"perp"}
      [] op = "markets_tape" -> {"markets", "pools"}
      [] op = "markets_tape_skip" -> {"markets"}
      [] op \in {"beacon_prints", "latest_beacon_prints"} -> PrintScans
      [] op = "token_transfers" -> TransferScans

TapeReads == {"market_tape", "market_events", "latest_market_events"}
MarketsReads == {"markets_tape", "markets_tape_skip"}
NewestReads == {"latest_market_events", "latest_beacon_prints"}
RangeReads == {"market_tape", "market_events", "beacon_prints", "token_transfers"} \cup MarketsReads

Garbled(log) == log.says = "garbled"
DecodeKnown(logs) == SelectSeq(logs, LAMBDA l : l.says = "event")
Undecodable(logs) == Len(SelectSeq(logs, Garbled))

\* Each perp's own logs, the shared beacon's, and its pool's.
OfMarket(rows, perp) ==
    SelectSeq(rows, LAMBDA l : l.at \in {perp, "beacon"} \/ PoolLog(l, {PoolOf(perp)}))

\* The rows only of the events kept, stamped by the reader.
Stamped(logs, owner, headers) ==
    [i \in DOMAIN logs |-> IF logs[i].ts # None THEN logs[i]
                           ELSE [logs[i] EXCEPT !.ts = headers[<<owner, logs[i].block>>]]]

NewestOf(logs, limit) == SubSeq(logs, Saturating(Len(logs) - limit) + 1, Len(logs))

-----------------------------------------------------------------------------
(* A read.                                                                 *)

\* Mutant: no lag.
Tip_AtTheHead(behind) == Height - behind

\* tip: the head some replica knows, less the lag.
Tip(behind) == Saturating(Height - behind - Lag)

\* No reorganization reaches it and every replica has it.
Settled(to) == to <= Height - Max({Depth, Behind})

Begin(op, from, to, lagged, limit) ==
    job' = [op |-> op, from |-> from, to |-> to, limit |-> limit,
            safe |-> lagged \/ Settled(to),
            todo |-> IF op \in NewestReads THEN {} ELSE ScansOf(op) \X (from..to),
            cursor |-> IF op \in NewestReads THEN to ELSE 0,
            logs |-> <<>>, headers |-> <<>>, tip |-> None]

\* The lagged head, or a block the caller names.
BeginRead(op) ==
  /\ job = None /\ answer = None /\ UNCHANGED <<node, answer>>
  /\ \E from \in 1..Height, limit \in (IF op \in NewestReads THEN Limits ELSE {0}) :
        \/ \E behind \in 0..Behind : from <= Tip(behind) /\ Begin(op, from, Tip(behind), TRUE, limit)
        \/ \E to \in from..Height : Begin(op, from, to, FALSE, limit)

\* Logs are kept in chain order: each scan is, and scans are merged on it.
Merged(logs, more) == SortSeq(logs \o more, LAMBDA a, b : a.point < b.point)

\* markets_tape runs its scans one after the other.
Waits(scan) == job.op = "markets_tape" /\ scan = "pools" /\ \E ask \in job.todo : ask[1] = "markets"

Answered(scan, number, behind) ==
    SelectSeq(LogsAt(number, behind), LAMBDA l : Matches(scan, l))

Ask ==
    /\ job # None
    /\ \E ask \in job.todo, behind \in 0..Behind :
        /\ ~Waits(ask[1])
        /\ job' = [job EXCEPT !.todo = @ \ {ask},
                              !.logs = Merged(@, Answered(ask[1], ask[2], behind))]
    /\ UNCHANGED <<node, answer>>

\* The newest-first reads count the events that decode, or the prints.
Counted == IF job.op = "latest_market_events" THEN Len(DecodeKnown(job.logs)) ELSE Len(job.logs)
WantsMore == job.cursor >= job.from /\ Counted < job.limit

AskNewest ==
    /\ job # None /\ WantsMore
    /\ \E low \in job.from..job.cursor, behind \in 0..Behind :
        LET scan == CHOOSE s \in ScansOf(job.op) : TRUE
            chunk == [i \in 1..(job.cursor - low + 1) |-> Answered(scan, low + i - 1, behind)]
        IN  job' = [job EXCEPT !.cursor = low - 1, !.logs = FlattenSeq(chunk) \o @]
    /\ UNCHANGED <<node, answer>>

AllRead == job # None /\ job.todo = {} /\ ~WantsMore

\* The logs the read keeps: a tape stamps the events it decoded.
Kept ==
    CASE job.op \in TapeReads \cup MarketsReads -> DecodeKnown(job.logs)
      [] job.op = "latest_beacon_prints" -> NewestOf(job.logs, job.limit)
      [] OTHER -> job.logs

\* block_timestamps: one header for each block whose logs came without one.
\* Each tape of several markets is stamped by headers of its own.
RowsFor(perp) == IF job.op \in MarketsReads THEN OfMarket(Kept, perp) ELSE Kept
Owners == IF job.op \in MarketsReads THEN Perps ELSE {Perp}
Unstamped ==
    IF job.op = "token_transfers" THEN {}
    ELSE UNION {{<<p, l.block>> : l \in {k \in ToSet(RowsFor(p)) : k.ts = None}} : p \in Owners}
         \ DOMAIN job.headers

Fail == job' = None /\ UNCHANGED answer

ReadHeader ==
    /\ AllRead
    /\ \E key \in Unstamped, behind \in 0..Behind :
        LET hash == HeaderAt(key[2], behind)
        IN  IF hash = None THEN Fail
            ELSE /\ job' = [job EXCEPT !.headers = (key :> TimeOf(hash)) @@ @]
                 /\ UNCHANGED answer
    /\ UNCHANGED node

Rows(perp) ==
    IF job.op = "token_transfers" THEN RowsFor(perp) ELSE Stamped(RowsFor(perp), perp, job.headers)

\* None where a log refuses the read.
TapeRead == NewTape(Rows(Perp))

NewestTape ==
    IF TapeRead = None THEN None ELSE NewTape(NewestOf(TapeRead, job.limit))

MarketTapes ==
    IF \E p \in Perps : NewTape(Rows(p)) = None THEN None ELSE [p \in Perps |-> NewTape(Rows(p))]

\* Prints, or transfers: one that will not decode refuses them all.
Strict(rows) == IF \E i \in DOMAIN rows : Garbled(rows[i]) THEN None ELSE rows

Returned ==
    CASE job.op = "latest_market_events" -> NewestTape
      [] job.op \in TapeReads -> TapeRead
      [] job.op \in MarketsReads -> MarketTapes
      [] OTHER -> Strict(Rows(Perp))

FinishRead ==
    /\ AllRead /\ Unstamped = {} /\ job.op \in RangeReads \cup NewestReads
    /\ answer' = [op |-> job.op, from |-> job.from, to |-> job.to, limit |-> job.limit,
                  safe |-> job.safe, returned |-> Returned, undecodable |-> Undecodable(job.logs)]
    /\ job' = None
    /\ UNCHANGED node

HistoryInit ==
    /\ chain = <<>> /\ forks = 0 /\ stamps \in BOOLEAN
    /\ job = None /\ answer = None

ChainNext == MineBlock \/ Reorganize
ReadNext ==
    \/ \E op \in RangeReads \cup NewestReads : BeginRead(op)
    \/ Ask
    \/ AskNewest
    \/ ReadHeader
    \/ FinishRead

-----------------------------------------------------------------------------
(* The chain's own record.  Which markets a log is said of is written on   *)
(* it, whatever a filter makes of it.                                      *)

Record(from, to) ==
    LET stampedOf(n) == [i \in DOMAIN LogsOf(n) |->
                            [LogsOf(n)[i] EXCEPT !.ts = TimeOf(chain[n].hash)]]
    IN  FlattenSeq([i \in 1..(to - from + 1) |-> stampedOf(from + i - 1)])

RecordOf(perp, from, to) == SelectSeq(Record(from, to), LAMBDA l : perp \in l.about)
TapeOf(perp, from, to) ==
    SelectSeq(RecordOf(perp, from, to), LAMBDA l : l.says = "event")
=============================================================================
