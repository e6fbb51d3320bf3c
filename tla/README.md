# A verification development for perpcity-rust-sdk

`perpcity-rust-sdk` is the Rust SDK of the PerpCity perpetual-futures exchange: it reads markets over JSON-RPC,
quotes and sends trades, streams events, and rebuilds a market's history offline. This directory models what it does
while other things happen, and the arithmetic it takes over from the contracts; checks both with TLC; and proves with
TLAPS the safety of the send path, the gas decisions, the routing, the history scan, the recordings, the client's reads,
trades, cache and feeds, and the bridge. Paths below are relative to the crate
(`src/` of the repository).

## 1. Inventory

| component | state it keeps | operations | what makes it hard |
|---|---|---|---|
| `hft/nonce.rs` nonce manager | an atomic counter, a pending map | acquire, track, confirm, release, resync | a rewind must never pass a nonce in use |
| `hft/pipeline.rs` transaction pipeline | in-flight map, `desynced`, `preparing`, the limit | prepare, record_submission, resolve, fail, abandon_prepared, mark_desynced(_prepared), can_resync, resync_nonce | every send uses it in stretches between awaits |
| `client/transactions.rs` send path | one future per send | gate, resync, simulate, prepare, sign, broadcast, receipt | concurrent callers, dropped futures, lost answers, timeouts |
| `hft/gas.rs` gas and fee caches | an estimate per selector with its time; the last base fee with its time | get, put, invalidate; update, fees_for | read before and written after awaits of different sends |
| `transport/health.rs` circuit breaker | state, failures, last failure time, probe slots | reserve, release_probe, record_answered, record_success, record_failure | one mutex per endpoint, outcomes in any order |
| `transport/provider.rs` pools and router | atomic mirrors of the breakers, permits | select, select_n, route_request, hedged_request | many requests, cancellation, retries |
| `hft/state_cache.rs`, `client/chain.rs` | two-layer TTL cache of balances, prices, rates, fees, bounds | get, put, invalidate_fast_layer, invalidate_all | filled across an await, invalidated by new blocks |
| `client/{market,queries,state,taker_health,maker_equity}.rs` reads | which endpoints lack `eth_getProof`; a market's immutables | current reads, reads pinned to a block, batches | replicas at different heads, reorganizations, one row of a batch failing |
| `client/trades.rs` trades | none | open, adjust, close, transfer, approve, liquidate | several steps over a chain others trade on; a receipt that says little |
| `transport/ws.rs`, `feeds/`, `events.rs` | one socket; queued logs; the published snapshot | subscribe, reconnect, next, next_stamped | sockets that die with logs queued, heads coming during a reload |
| `hft/position_manager.rs`, `hft/latency.rs` | tracked positions; a ring of samples | track, untrack, check_triggers; record, stats, reset | an extreme carried over a history of calls |
| `history/scan.rs` | the shared window-width search | probe, accepted, rejected, walk | concurrent walks share one search |
| `history/{mod,beacon,transfers}.rs`, `history/tape/` | none; an ownership log | reads to a lagged head; rows in chain order, split, filtered, rejoined | requests answered by several replicas, in any order |
| `history/recording.rs` | a log file and a manifest | record, load, check_tail | a crash between two writes, a read between them |
| `history/fold/` | accumulators, series with a retention, arrivals | apply, combine, advance, retain, windows | the combination must not depend on where a run is cut |
| `history/replay/` | the rebuilt market | from_genesis, from_seed, segment, apply, catch_up, read_books, combine | silent moves of the books, faults of the feed |
| `math/`, `units/` | none | swaps, ranges, liquidity, capacity, EMAs, accrual, equity, liquidation prices, closes | rounding, ticks crossed exactly, integer tests inverted |
| `contracts.rs`, `storage.rs`, `errors/`, `constants.rs`, `convert.rs` | none | decoding, layouts, taxonomy, text | data; the errors that tell a caller what to do decide control |
| `cctp.rs` bridge | none: it is on the chains | burn and receive calldata, attestations, nonce_used, burns_by | a caller that crashes must find its burns and count each once |
| `xtask/`, `examples/`, `benches/`, `tests/` | | tooling and callers | not the SDK's own logic |

How they interact. A trade (`client/trades.rs`) reads what it needs, builds calldata and calls `TxBuilder::send`. `send`
reads the gas and fee caches and the chain, takes the pipeline's mutex for each bookkeeping step, and never holds it
across an await. The pipeline calls the nonce manager only under that mutex. Reads go through `ChainReader`: current
ones through the state cache, pinned ones to one block's hash. Every JSON-RPC request goes through the router, which
asks an endpoint's breaker for leave and tells it the outcome. The bridge stands alone: its caller sends what it builds. What is read is turned into quotes, equities and
liquidation prices by `math/`. The history components scan logs over the same transport, order them into tapes, record
them, and fold them into a replay, which can begin on a pinned read.

## 2. Modules

| group | modules | models |
|---|---|---|
| Send | `NonceManager`, `TxPipeline`, `SendPath` | `hft/nonce.rs` under `hft/pipeline.rs` under `TxBuilder::send` by concurrent callers, with the account's mined count and mempool; one action per stretch of `send` between two awaits |
| | `NonceSequence` | abstract: what the pipeline promises - assign, retire, give back, reset while nobody owns, start again |
| Gas | `GasPath` | `hft/gas.rs` and its use in `simulate` and `send`; one action per lock of the estimate cache |
| Bridge | `CctpBridge` | `cctp.rs` between its caller and what is external to it: the chain that burns, Circle, the chains that mint, other relayers |
| Routing | `CircuitBreaker`, `EndpointRouting` | `transport/health.rs`; `transport/provider.rs` over it: a lock-free choice, then one endpoint locked at a time, outcomes and whose fault they are (`Fault`), cancellation, retries, time; what a configuration must have (`Builds`) |
| Scan | `WidthSearch`, `LogScan` | the width search of `history/scan.rs`; scans that share it: carve, ask, the node's answers, deliver, stop |
| Market | `TickMath`, `SwapMath`, `BandMath`, `PositionMath` | pure: roundings, ticks, crossings, shares and ranges; the swap walk, quotes and sizings; liquidity and capacity; EMAs, accrual, equity, liquidation prices, closes |
| | `PoolSession`, `MarketSession` | a pool moved by exactly what the SDK computes for each call; positions in it, with the contract's checkpoints |
| Replay | `FoldShapes`, `PositionFold`, `MarketFold`, `Replay` | `history/fold/`; the replay's components, each with its apply and combine; the replay behind its chain-order guard |
| | `MarketChain`, `MarketReplay` | external: the contract and the events it leaves; the tape it fills, the reads at each block, and a driver that folds the tape live |
| Tape | `Tape`, `HistoryReads`, `Recordings` | rows and cuts of tapes; reads to a lagged head over a chain that reorganizes; recordings written, torn, overwritten and read |
| Client | `ClientChain`, `TradeCalls` | external: the chain behind trailing replicas; what trades send, what the contracts do with it, what a receipt is read as |
| | `ClientReads`, `ClientTrades`, `LiveFeeds`, `HftTools`, `ClientSession` | the state cache, and reads as steps of requests answered one by one; trades and their receipts; the event vocabulary, sockets, feeds and the live taker market; the position manager and latency tracker; all of a client |

`MC*` modules give the constants of an instance; `*Proofs` modules, `Recordings`, `GasPath` and `CctpBridge` hold the
theorems. A definition whose name has an
underscore (`Accepted_KeepsRejected`) is a faulty variant of the definition before the underscore: it is used by nothing
and shows, put in its place, that a property notices the fault.

Data is abstracted to what control depends on. In the send modules a transaction is the send that made it. In `LogScan` a
log is its block, and blocks carry as many as a filter matches. In the client modules a figure is the version of the state
it was read from: two blocks of one version say the same, and values of two versions are never equal. In the replay
modules EMAs, rates and cumulatives are one value each. The market modules keep the arithmetic and shrink its
width: `Q` stands for 2^96, tick ratios and fee growth have a few bits, and a tick is a large step.

### Granularity

- *Send path.* The code holds the pipeline's mutex for each stretch of bookkeeping and never across an await, so a
  stretch is one step. What is read before an await and used after it is state of the send: `fetched` and `started`.
- *Gas path.* `put` and the `get` that follows are two locks, therefore two steps, although no await is between
  them: clients are shared between threads. A build that aborts on panic ends at the panic; one that unwinds poisons the
  mutex and `FindsPoison` is what every later lock does.
- *Routing.* `select` reads atomic mirrors without a lock and then locks endpoints one after another; the outcome of a
  request is recorded and its permit dropped without an await in between.
- *Scans.* A request takes the search's lock to ask for the width and again to report the answer. A report, the update
  of the search and that of the window are one step, since the window belongs to the scan alone.
- *Reads.* An operation is polled, asks a set of requests together, each of which some replica answers at its own time,
  and is polled again. The cache is touched only where an operation is polled. A trade's send is one step of its
  operation: `SendPath` and `GasPath` are what happens inside.
- *Replay.* An event is applied in one step; the market's transactions and the driver do not interleave, because what is
  folded depends on what was delivered and not on when, so the driver starts on a complete tape.
- *Bridge.* A read of Iris or of a chain and what the caller does with its answer are one step, a transaction is another,
  and the caller may crash between any two, or after a transaction with its receipt unread.
- *Recordings.* Each file is opened, written and torn in steps of its own, and read in steps of its own.

## 3. Runs

| run | question | instance |
|---|---|---|
| `send_path` | can a nonce be held twice, a holder be overlooked, the two maps part, or a hole go unflagged? is the pipeline what `NonceSequence` promises, and does a desync drain? | 3 sends, limit of 2 in flight, one restart, evictions, dropped futures, manual settlement |
| `gas_path` | can an estimate that is stale, too small or disproved keep a caller out for good? does every send that gets through carry a limit of its own and a cap for its price? | 3 callers of rising gas, limits pinned too low, one fault or pin, one expiry |
| `routing_safety` | can any order of outcomes and cancellations strand a probe slot, or leave a circuit closed past its threshold? | hedged, 2 readers and 1 writer, 2 endpoints, threshold 2 |
| `routing_live` | do requests end, do endpoints become callable again, do shared endpoints keep callers served? | round robin, read pool and shared fallback, a reader and a writer, one retry |
| `bridge` | does each burn arrive, once, where it was ordered and for what it was, whatever the caller forgets and whoever mints? | 2 burns of two depositors, in one transaction or two, at either finality; every class of answer |
| `log_scan` | do scans that disturb each other's width read every block once, in order, and end? | a windowed scan with two windows and a newest-first one, five blocks, one of them dense, the node's caps change once |
| `market` | does the SDK's arithmetic keep a pool solvent and its tick map true, attribute funding and fees to the bands the price stood in, and find the marks at which positions turn? | 2 makers and 2 takers, sessions of 6 calls, 3 ticks to draw bands between, a root price that doubles every four ticks |
| `replay` | does a market folded from its tape say what the reads say, cut anywhere and begun anywhere, live under repeats, late events and catch-ups? | 2 wallets, 2 operations after the 2 that open the market (1 where a driver folds live), 2 faults |
| `recordings` | do lagged reads answer what the chain says, do tapes rejoin, does a recording stay whole and its tail check true? | 3 blocks of up to 5 logs, one reorganization, 2 markets on one beacon, 2 recordings |
| `client` | are cached answers as fresh as their TTL, pinned reads and batches of one block, trades what they report, feeds without holes, a live snapshot kept up, triggers and figures those of the history? | the sessions below |

What the properties say:

- `SendsArePriced`: past its simulation a send has a limit, pinned, looked up or read back, and at every urgency its cap covers
  the base fee and the tip. `ArrivalsAreTrue`: a burn is minted at most once, as ordered,
  and what a caller counts as arrived is such a mint. `EveryBurnArrives`: each burn of the caller is counted at last, unless its
  transaction also emits a message shorter than a burn's, which makes the answer about all of them `Malformed`.
- `MapReconciles`: the nets at or below the tick are the active liquidity, after any adds, removals and crossings.
  `PoolNeverShort`: if everyone pays and takes exactly what the SDK says, the pool holds at least what all bands are worth.
  `SizingsAreExact`: a sizing by price, by capacity or by weight is right to the atom, and a fill's own price lies between
  the pool's before and after. `AccruedByPlace`: the funding and fees attributed to a band from its edges are those that
  accrued while the price stood there. `FundingBalances`: over makers, takers and the settled, funding sums to rounding;
  the two ports are separate code. `ClosesAreSound`: a previewed close is worth the equity previewed and leaves open interest
  backed: by the capacities that live bands have stored, and what a removal of part of a band leaves of the market's running
  total beside them (`math/capacity.rs:21`) is not modelled. `LiquidationPricesTurn`: the answered mark is where the contract's integer test turns.
- `ReplayMatchesReads`: genesis plus all events, or any seed plus the events after it, is the reads. `FoldLaw`: the fold of
  a tape is the combination of the folds of its parts, wherever cut. `ActivityIsTrue`: each liquidation once with the prices
  around it; every window's answer true or none. `LiveMatchesUnlessMissed`: a fold that missed nothing is the market.
- `LaggedReadsAreExact`, `TapesRejoin`, `RecordingReadsWhole`, `TailCheckIsTrue`: what the names say, against the chain.
- `CachedWithinTtl`: an answer is what the head said no earlier than its layer's TTL before the call. `PinnedReadsAgree`:
  all values of a pinned read are one block's. `BatchesAnswerEach`: one outcome an id, its own, failing only for a read it
  stands on. `TradesDoWhatTheyReport`: a trade that answers did what was asked in the transaction it names, and an error
  tells what is safe to do next. A liquidation takes the position whole where the contract settles it whole, and elsewhere
  exactly the size the client read: of a position that grew in between it leaves the rest (`client/trades.rs:696` says whole).
  The contract modelled logs every trade it settles, so a trade mined without its event (`client/trades.rs:372`) is no case. `FeedHasNoHoles`, `LiveMarketKeepsUp`: between a subscription and its end nothing is passed
  over, and the last head told is answered. `ToolsMatchHistory`: a trigger fires exactly when all prices seen call for
  it (`TriggersFireAsCalled`), and latency figures are those of the last samples (`MeasuresTheLast`).

**Bounds.** Two actors show every race between two; the send path has three because a stale resync needs one send
to read, another to finish and a third to collide. One restart, one change of the node's caps and one fault suffice
where each leads back to states without it, since nothing remembers them but the bound's own counter. Ages and
elapsed times are cut at the largest number a comparison tells apart. `LogScan`'s caps include one that no request with
the dense block fits, so a scan can meet a final rejection.

`market`: six calls let a band be opened, shared at an edge, traded through, left, dropped and set again. The widths
are chosen so that the roundings show: a pool's depth is 200, one atom of a trade moves its price, and a taker's value can
be below one atom. `FundingDust` (20) is the rounding up of a session's settlements; `SampleStep` (40) spaces the marks a
liquidation price is compared with, between which the neighbours of the answer itself are also compared. `Portions`
(3:1:3) does not divide a whole of 100 evenly. Two settings stand for a direction each: `RateSets` pays takers or makers.

`replay`: an operation is a transaction of several events, so two of them give tapes of ten to twenty events, cut between
any two. Prices stand below, in and above the one band. `Retentions` {none, 1} and `Windows` {0, 1, 2} give windows within,
at and past what is kept. A repeated event is the last one or one that was missed: any other is refused by the same
comparison. The wallets are symmetric.

`bridge`: two burns are what a range, a transaction and a list of messages need to be told apart from one; the statuses are a
lost request, an answer, 404, and errors that pass (429, 500) and that do not (400).

`recordings`: a snapshot lag of 1 against a reorganization of depth 1 and replicas 1 behind: the lag just covers them.

`client`: a session says which operations a client makes and how many overlap, and the union of the sessions is
checked. Cached reads: chains of 5 blocks, two at a time for one and one at a time for the others, a clock of 3 against
TTLs of 2 and 3, invalidations; pinned reads and batches: 4 blocks, one reorganization, one fault, three ids in chunks of
two, and the chain grows under a read only until its block is resolved, since a pinned answer depends on the hash alone;
trades: two of the same wallet at once, or one of any kind, with others' trades between; feeds: 3 logs and 2 lost sockets;
a live market over 6 blocks; tools: 3 checks over 4 prices, 6 samples over a ring of 4. `PctScale` 4 makes trailing
percentages exact quarters.

**Fairness.** Tasks that can run are polled, which the runtime guarantees; a request on the wire ends because it has a
timeout (alloy's, and the receipt deadline); base fees keep arriving in `GasPath`, because callers are told to refresh them
(`ChainReader::refresh_gas`). In
`CctpBridge` the source chain goes on, Circle signs what is final enough, and the caller keeps asking, as
the module's documentation tells it to. Nothing is assumed of when callers call, except in `BusySpec` (callers always come back)
and in `GasPath`, whose callers retry; nothing of when the node mines.

**Deadlock** is not checked: a finite number of sends, scans or calls ends, and the routers' callers may stop.

### Findings

Two runs show where the code and what is said of it part. Each is one counterexample of the length TLC prints.

| run | what happens |
|---|---|
| `send_stale` | a send fetches the count; another resyncs, sends, its broadcast is accepted and its answer lost, which raises the flag again; the first re-checks the flag and the holders, adopts the count of before, and signs a nonce that is in the mempool |
| `gas_panic` | an eviction by another send between `put` and `get` makes `simulate` unwrap a missing estimate with the cache locked |

Other places where the models do what the code does and a sentence says otherwise, or is silent, without a run:

- A send dropped at its broadcast has raised `preparing` and nothing lowers it: once desynced, the pipeline refuses every
  send, although `errors/transaction.rs:164` says the condition clears itself. `DesyncDrainsUnlessDropped` is its complement.
- With the hedged strategy a read pool whose circuits are all open is passed over when the pool is chosen
  (`transport/provider.rs:654`), so no request ever probes it (`transport/DESIGN.md:113`).
- A send prepares although the sequence has been flagged since it passed the gate (`hft/pipeline.rs:26` says sends
  wait); `NoSilentHole` and `NonceOwnership` hold all the same.
- The in-flight limit counts recorded submissions only (`hft/pipeline.rs:169`), so sends that are between
  prepare and submission exceed it together.
- A restarted client seeds the counter from the mined count (`client/mod.rs:260`), below transactions in the mempool.
  No property speaks of such a nonce: `StartAgain` of `NonceSequence` is free to start there, and a refused broadcast flags it.
- While a pool has a closed endpoint, only a hedged fan-out with room to spare probes the others (`transport/provider.rs:317`);
  `AlwaysCallableAgain` says that a circuit would let a request in, not that one is sent.
- A half-open circuit admits a second probe when the first has been answered and not judged (`transport/health.rs:174`),
  and a success that arrives late closes an open circuit that was never probed (`transport/health.rs:205`).
- A write that fails by its endpoint's fault may have landed and is sent again (`transport/provider.rs:716`).
- The estimate read back may be a cheaper call's, put in between (`client/transactions.rs:484`); only the receipt's eviction
  lets the retry through. The base fee is judged fresh when the send was called (`client/transactions.rs:82`), not when it
  goes out.
- `catch_up` begins after the fold's own block, so an event of that block that the feed dropped is never healed
  (`history/replay/mod.rs:351`, against `mod.rs:113`). Reads of the books skip what lies between in the same way.
- `Replay::combine` keeps an empty replay on the left as it is in one field: a segment's pool becomes whole only where it
  began at creation (`history/replay/pool.rs:163`).
- `Series::peak` over a window longer than the retention answers from what is kept (`history/fold/series.rs:352`).
- `index_then` (`history/replay/activity.rs:34`) is the print before the event, not before its transaction.
- `quote_to_price` may pass its target by the last atom (`math/swap.rs:251`); `LiquidationPrices` has no answer for a long whose
  margin covers its USD leg exactly (`math/taker.rs:267`); `liquidity_for_target_ratio` (`math/liquidity.rs:74`) describes
  the tokens of a band beyond the price the other way round from `amounts_for_liquidity` in the same file.
- A cached read that was asked before `invalidate_fast_cache` and answered after it puts its value back
  (`client/chain.rs:332`); the value still expires by when it was asked for.
- The fees and bounds of a snapshot, and the owners of `get_positions_by_owner`, are not of its block (`client/queries.rs`).
- A live taker market is told of no head between its first read and its subscription; a feed whose header read fails has
  taken the log and cannot give it again; the first wait of `reconnect` is not capped (`transport/ws.rs:193`).
- The position manager's key is the id alone, so the same id in two markets is one entry (`hft/position_manager.rs:214`).
- A timestamp read from a header after a reorganization may be another fork's (`history/scan.rs:51`); `check_tail` tells.

## 4. Proofs

TLC's instances are small; these theorems hold for every value of the constants that the `ASSUME`s allow (finite sets of
sends, non-empty ranges, positive widths: what the constructors and the types of the code guarantee).

`SendPathProofs` - `SendPathTypes`, `NoncesAreOwned`, `ResyncIsSafe`, `TrackingAgrees`, `HolesAreFlagged`,
`SendPathImplements`. The invariant is

    TypeOK /\ PreparingCounted /\ TrackedArePastSubmission /\ NonceOwnership /\ MapsAgree

Ownership alone is not inductive. That a resync finds no holder needs `PreparingCounted`: `preparing` is at least the number of
sends that hold a nonce outside the in-flight map (at least, since dropped sends leave it raised). That a
release rewinds only over its own nonce needs the counter to be past every held one. That settling removes the right
entry needs `MapsAgree` and that a tracked send is past its submission. `HolesAreFlagged` adds, to the invariant, that every
hole below the counter was left by a step that raises the flag or is one that nobody can tell the pipeline of: the node evicted
the transaction, or the future that had prepared it was dropped (`lost`, which the code does not keep). The refinement
takes the held nonces as owned and maps every action to one of `NonceSequence` or to a stutter.

`EndpointRoutingProofs` - `CircuitsAlwaysTrue`, `PermitsAlwaysForTargets`. That every probe slot in use is held is a
statement about cardinalities: the slots a half-open circuit counts never exceed the requests that hold a permit of it. It
is not inductive by itself: a request that is granted an endpoint must not hold one of its slots already, and one that
gives up an endpoint must not hold the slots of others. `PermitsAreForTargets` says both: permits are for targets, what is
asked next is no target yet, and only a hedged read has several. `RoutingAssumption` takes what a configuration must
have (`Builds`): an endpoint, one that takes writes, a fan-out of at least two where reads are hedged.

`LogScanProofs` - `WidthsStayCoherent`, `ScansReadInChainOrder`, `RejectionsAreFinalOnlyAtOneBlock`. The invariant adds to
the search's coherence that the windows in flight of an oldest-first scan *tile* the blocks between what is delivered and
what is not carved: each window has read the run from its start to just below `low`, and each starts where the last one
ends. Updating a window inside its blocks, appending one and delivering the first preserve the tiling (`UpdateTiles`,
`AppendTiles`, `DeliverTiles`), and what is delivered continues the run (`RunsConcatenate`). The widths of outstanding
requests are at most the maximum, which the search's coherence needs when their answers arrive after the search has moved
on. That a final rejection is one of a single block is an action property and follows from the same invariant.

`GasPath` - `SendsAlwaysPriced`. `TypeOK` is inductive and says that a send past its simulation has a limit; that its cap
covers base fee and tip, at every urgency and up to the largest integer of the width, holds since saturation keeps the order
of its operands (`CappedMonotone`, `CappedAddend`, `EveryUrgencyCovered`).

`CctpBridge` - `ArrivalsAreAlwaysTrue`. That a nonce read as used is the mint of *this* message is what makes counting after a
crash safe. It needs that each signed message is of one burn, with a fee Circle may execute, and one per nonce
(`SignedOnce`); that each mint is of a signed message (`MintedOnce`); and that what the caller holds is signed
(`CallerOK`, from `AnswersAreSigned`: whatever Iris answers). `ReadsAsLaid` says that the byte ranges `Attested` reads are
the fields Circle laid there. That a burn's destination is on the network of its source is taken from `Burns`: nothing in
`Burn` checks it.

`Recordings` - `RecordingsAlwaysReadWhole`. That a recording read back is one that was made says nothing of the
directory. What keeps it is the logs' hash: every manifest there is, on disk, in a reader's hands or in the recorder's, is
that of a recording made (`ManifestsAreOfRecordings`) and names its logs (`HashesNameLogs`). A hash is taken to
determine its logs, as `Recording::read` does.

`ClientSessionProofs` - `PinnedReadsAlwaysAgree`, `LiveMarketAlwaysKeepsUp`, `BatchesAlwaysAnswerEach`,
`FeedsHaveNoHoles`, `TriggersAlwaysFireAsCalled`. For the first two the
invariant `IInv` is

    NodeInv /\ session \in Sessions /\ JobsOK /\ LiveOK

`NodeInv`: hashes of different forks and heights differ, so no block is ever said twice, and what the node said of a block
stays said (`NodeKeeps`). `JobsOK`, of each operation: what it holds and what it has been answered is its own block's; a
request pinned to a block is only made once the block is held, and the block is not asked for again (`MayAsk`); nothing
an operation pins comes from the cache; one that has answered is due nothing. That requests obey `MayAsk` is a fact about the
steps themselves: the header is a step of its own, only the head and the immutables come before it (`StepsLed`), and what is due
is of the first step not held whole (`DueIs`, `DueMayBeAsked`), which needs that a set of naturals has a least element
(`LeastNatural`). A pool that answered holds its views, bitmaps and ticks, all of one block (`PoolIsWhole`). `LiveOK`
relates the live market to the node: the heads queued and told never pass the head, and a refresh must resolve a block
that covers what had been told when it was woken (`Floor`). `FeedInv` says of the feed that what was forwarded and is ours
waits in the channel or was given, in order (`NothingLost`, `QueueInOrder`), and that what was given is true. That rests on the
arms of the event tables: each decodes its topic into the event of that name (`ArmsAreTrue`) and takes a liquidation's tail
if its topic can have one (`TailsAreByTopic`), so a log of ours is never skipped and never misread (`DecodingIsTrue`). The
assumptions are that no session both trades and quotes, and that a log's fixed sides agree (a log has a liquidation tail only
if its build has one). `ManagedOK` says of the position manager that the anchor of a position is the best of all the prices it
was checked at while it trailed, none if there were none, whatever was set, cleared or tracked again since; the trail of the
best price is the first that a price passes (`TrailOfTheBest`), so the one anchor answers for the whole history.
`TrackedAssumption` takes a trailing share to be at most the whole, which nothing in `track` checks (with a larger one a
long's trail is negative and falls as the price rises), and a position to be tracked without an anchor, as its field says
(`hft/position_manager.rs:90`).

For the batches it is `IInv /\ BatchInv`. `BatchInv`: the latch on `eth_getProof` falls only by an answer that no endpoint
with the method gives, the blocks a session reads are of its worlds, and a batch is an operation its session was given.
`IInv` then says of a batch that answered that every chunk's reads are held (`BatchHolds`) and, where they did not fail,
are its block's (`AsSaid`: rows may fail one by one, and a proof may leave ticks out). What is left is arithmetic about places.
A place in a sorted set tells its member (`PlacesTell`), so every tick's and every maker's word is where the layout of the
storage read put it (`WordsByLayout`), however many makers share a tick; the chunks cover the ids one
after the other (`ChunksCover`, `EachHasItsChunk`); and the chunks' answers put together, which `FlattenSeq` does by a
recursive function, have at each place what its chunk says of it (`EachInItsPlace`). `BatchAssumption` is what it
takes for granted: a batch asks for something (of nothing, the code answers nothing and asks nothing), a chunk has room, and
the contract has a position, of finitely many ticks, for every id asked.

`ClientTradesProofs` - `TradesAlwaysDoWhatTheyReport`, `CachedAlwaysWithinTtl`. For the first the invariant is `IInv` with

    TradeInv == WorldsOK /\ JobsTrue /\ PoolOK

`WorldsOK`: every market the node has said anything of has positions of the right types, those that calls name opened, and
one build (`Era`); a transaction that does not revert leaves such a market (`ExecuteKeeps`). `JobsTrue`, of each operation
(`WorkOK`): a trade is waiting for exactly what is due, a send is due alone and last (`TradeDue`, `SendAlone`), nothing is
due once it is answered (`SentEnds`), the cache answers none of it but the build (`TradeHit`), and a read sends nothing
(`ReadsSendNothing`); and of its send (`SendsOK`): what it was answered is what became of its transaction (`AnswerOK`), and
what was submitted has a send that waits or was answered, so an operation without one has nothing on the chain. `PoolOK`:
what is in the wallet's pool, and what was mined, is each one call's own (`Fits`), one a call, and if it liquidates by amount
it names the size its call holds (`Sized`): the last step sends what was read before it (`SendIsSized`), and what a trade
holds stays as it was answered (`KeepsHeld`). The report then follows from
the contracts, operation by operation: what a transaction that fits its call logs and leaves at the market it met
(`OpenDoes`, `AdjustDoes`, `LiquidateDoes`, `TransferDoes`, `ApproveDoes`), and what each error can have come from
(`ErrorsTell`). `SessionAssumption` is what it takes for granted: the calls and others' transactions have the types of the
client's parameters and name positions that were opened, all markets of one trading session are of one build, and a replica
trails by fewer blocks than a chain starts with.

For the second it adds to `IInv` and `TradeInv`

    CacheInv == TimesOK /\ CacheOK /\ \A i \in DOMAIN jobs : FreshJob(jobs[i])

That answers are within their TTL is not inductive: an entry must have been asked for at a second its expiry is counted from,
and its value said by the chain no earlier (`CacheOK`, `EntryOK`); every answer waiting to be polled must be of the chain
since its step was begun (`AnswersFresh`); and since a schedule of fees is read in two calls and stored as one entry, its first
part must be as recent as its second when the second is stored beside it (`HalfFresh`). The last holds because nothing of the
fees is held before all that leads to it (`InTurn`), the second part is due alone and directly after the first (`FeesDue`),
and the clock of the step is not moved between them (`ResumeFresh`). A one-part schedule never enters the cache, so a hit is
never half of one (`HitIsTrue`). What was said stays recent as the chain grows, is replaced, and time passes: the blocks mined
before a second that has begun only ever become fewer (`TimesKeep`, `Aged`), and a replica's answer is of any second so far
(`ReplicaIsRecent`), since it trails by fewer blocks than a chain starts with.

The prover has no definition of TLC's `@@` and `:>`: `Over` and `Put` of `ClientChain` say the same.

**Only model-checked.** Liveness (`DesyncDrainsUnlessDropped`, `RequestsEnd`, `AlwaysCallableAgain`, `SharedKeepsServing`,
`ScansEnd`, `EveryCallGetsThrough`): the prover does not reason about fairness and ENABLED. What a recursive definition or a
fold computes for every input stays with TLC as well, since the library's induction theorems take an operator as a
parameter (a recursive function of one sequence can be had through the least place where it differs, as in `Flattened`; the
library's folds cannot): that covers the sums, walks and folds of the market and replay properties, the tapes of
`LaggedReadsAreExact`, `TapesRejoin` and `TailCheckIsTrue`, and the figures of `MeasuresTheLast`, which sorts its samples.

## 5. Plan

Done: everything in section 2. What is left, in order:

1. Proofs: the identity and associativity of `FoldShapes`' combinations,
   `MulDiv`'s rounding bounds.
2. `eth_getProof` and batch packets as kinds of their own inside `EndpointRouting`; `prepare_bump` and `stuck_txs` in `TxPipeline`.
3. EMAs, rates and cumulatives as numbers in the replay, by `PositionMath`, so that a replayed mark can be compared.

## 6. Not modelled

Text and layout (`contracts.rs`, `storage.rs`, most of `errors/`, `convert.rs`, `transport/redact.rs`, display and
floating-point views in `units/` and `math/position.rs`): they hold no state and decide no control. Overflow refusals of
256-bit arithmetic: the small widths do not reach them. Replicas answer late and behind, and never wrongly. Calldata without a selector never touches the estimate cache and is left out of `GasPath`.
Test support, `xtask/`, benches and examples are not the SDK.
