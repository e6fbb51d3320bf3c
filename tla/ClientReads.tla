---------------------------- MODULE ClientReads -----------------------------
(***************************************************************************)
(* The reads of a market client: client/queries.rs (current reads, served  *)
(* from the state cache or the head), client/state.rs (reads pinned to one *)
(* block's hash), client/chain.rs, client/maker_equity.rs and              *)
(* client/taker_health.rs.  An operation is a sequence of steps, each a    *)
(* set of requests made together; `held` is what has been answered, and    *)
(* what an operation asks next follows from what it holds.  A request is   *)
(* answered by some replica at its own time, and the operation goes on     *)
(* when it is polled.                                                      *)
(***************************************************************************)
EXTENDS TradeCalls, SequencesExt, FiniteSetsExt, Functions

CONSTANTS Sessions,     \* what a client does: [ops, calls, head, worlds,
                        \* overlap, invalidates, ticks, reorganizes, trades,
                        \* follows, quotes, manages, measures]
          Asked,        \* the position ids a batch is asked for, in order
          MaxRowBatch,  \* ids in one multicall (MAX_ROW_BATCH)
          SnapshotLag,  \* SNAPSHOT_BLOCK_LAG
          MaxFaults,    \* bound: requests that fail
          FastTtl, SlowTtl,   \* StateCacheConfig
          None          \* no value

\* Bound: no session both trades and quotes.
ASSUME ReadsAssumption == SnapshotLag \in Nat /\ \A s \in Sessions : ~(s.trades /\ s.quotes)

VARIABLES session,
          cache,        \* the reader's StateCache
          immutables,   \* whether the market's immutables are cached
          proofs,       \* the transport's latch: eth_getProof is supported
          proves,       \* whether the endpoint supports it
          faults,
          jobs          \* the operations begun, in order; `refused` names the
                        \* request an operation was ended by

client == <<session, cache, immutables, proofs, proves, faults, jobs>>

-----------------------------------------------------------------------------
(***************************************************************************)
(* The two-layer TTL cache of src/hft/state_cache.rs: fees and bounds in   *)
(* the slow layer, prices, funding rates and balances in the fast one.  A  *)
(* cache is a function from <<map, key>> to a value and when it expires;   *)
(* every method takes the caller's own clock.                              *)
(***************************************************************************)

ASSUME TtlAssumption == FastTtl \in Nat /\ SlowTtl \in Nat

SlowLayer == {"fees", "bounds"}
FastLayer == {"pool_price", "funding_rate", "balance"}
TtlOf(map) == IF map \in SlowLayer THEN SlowTtl ELSE FastTtl

EmptyCache == << >>

IsValid(entry, now) == now < entry.expires_at

CacheGet(entries, key, now) ==
    IF key \in DOMAIN entries /\ IsValid(entries[key], now) THEN entries[key].value ELSE None

CachePut(entries, key, value, now) ==
    Put(entries, key, [value |-> value, expires_at |-> now + TtlOf(key[1])])

InvalidateFastLayer(entries) == Restrict(entries, {k \in DOMAIN entries : k[1] \notin FastLayer})
InvalidateAll(entries) == InvalidateFastLayer(Restrict(entries, {k \in DOMAIN entries : k[1] \notin SlowLayer}))
-----------------------------------------------------------------------------
(* The reads.                                                              *)

BatchReads == {"positions", "owners", "maker_bands", "maker_equities", "taker_healths"}
OneCallReads == {"solvency", "books", "next_pos_id", "modules", "rates",
                 "cumulatives", "pool_tick", "collateral", "capacity"}
PositionReads == {"position", "maker_band"}
StateReads == OneCallReads \cup PositionReads \cup BatchReads \cup {"margin_ratios", "emas", "mark", "pool"}

\* What each read calls, once.
CallOf(op) ==
    CASE op \in {"solvency", "books"} -> "solvency"
      [] op = "pool_tick" -> "pool_state"
      [] op = "capacity" -> "capacity_views"
      [] OTHER -> op

-----------------------------------------------------------------------------
(* The steps operations share.                                             *)

\* state() and get_snapshot resolve the lagged head; state_at_head the head
\* itself; state_at the number it is given.
Handle(how) == IF how = "number" THEN <<{R("header")}>> ELSE <<{R("head")}, {R("header")}>>
Lagged(how) == IF how = "lagged" THEN SnapshotLag ELSE 0
Saturating(a, b) == IF b > a THEN 0 ELSE a - b
Lesser(a, b) == IF a < b THEN a ELSE b

Immutables == {R("pool_id"), R("pool_key")}

MarkFrom == <<{R("index"), R("emas")}>>

\* Fees and bounds are of the modules the market named; a schedule from the
\* cache is whole, one from the chain takes two calls.
FeeSteps(held, fees) ==
    <<{At("fees", fees)}>>
    \o (IF Holds(held, At("fees", fees)) /\ Len(Got(held, At("fees", fees))) = 1
        THEN <<{At("liq_fee", fees)}>> ELSE <<>>)
    \o <<{At("bounds", fees)}>>
FeesAfter(held, request) ==
    IF Holds(held, request) THEN FeeSteps(held, Got(held, request).fees) ELSE <<>>

\* A cached step: its cache key, and the value a hit stands for.
KeyOf(request) ==
    CASE request.call \in {"balance", "pool_price", "funding_rate"} -> <<request.call, 0>>
      [] request.call \in {"fees", "bounds"} -> <<request.call, request.part[1]>>
      [] OTHER -> None

\* What cannot go on: a module that is not registered, an index of zero.
Refuses(op, params, request, value) ==
    \/ /\ request.call \in {"modules", "snapshot_views", "perp_views", "maker_views", "taker_views"}
       /\ op \in {"tape_addresses", "get_snapshot", "emas", "mark", "pool", "maker_equities", "taker_healths"}
       /\ value.beacon = Unset
    \/ request.call = "index" /\ value = 0
    \/ op = "get_position" /\ request.call = "position" /\ ~Exists(value)
    \/ TurnsAway(op, request, value)
    \/ request.call = "send" /\ NotAsTold(op, params, value.logs)

-----------------------------------------------------------------------------
(* Batches: the ids in chunks, each chunk its own multicall.               *)

Chunks == (Len(Asked) + MaxRowBatch - 1) \div MaxRowBatch
ChunkIds(c) == SubSeq(Asked, (c - 1) * MaxRowBatch + 1, Lesser(c * MaxRowBatch, Len(Asked)))
RowsOf(c) == [call |-> "rows", part |-> <<c>>, ids |-> ChunkIds(c)]

IsMaker(row) == row.liquidity # 0
IsTaker(row) == ~IsMaker(row) /\ row.delta # 0

\* The makers of a chunk whose rows were read, by their places in it.
MakersAmong(rows) == {i \in DOMAIN rows : ~Failed(rows[i]) /\ IsMaker(rows[i].value)}

Pending(held, c) ==
    IF ~Holds(held, RowsOf(c)) \/ Failed(held[RowsOf(c)]) THEN {} ELSE MakersAmong(Got(held, RowsOf(c)))

RowAt(held, c, i) == Got(held, RowsOf(c))[i].value
BandTicks(held, c) == UNION {RowAt(held, c, i).ticks : i \in Pending(held, c)}

\* Places in a sorted set.
Before(S, x) == Cardinality({y \in S : y < x})
Nth(S, n) == CHOOSE x \in S : Before(S, x) = n - 1

\* FeeGrowthLayout: the global word, one per distinct tick, one per maker.
Slots(ids, ticks, makers) ==
    LET first == Cardinality(ticks) + 1 IN
    [w \in 1..(first + Cardinality(makers)) |->
        CASE w = 1 -> Global
          [] w \in 2..first -> TickSlot(Nth(ticks, w - 1))
          [] w > first -> InsideSlot(ids[Nth(makers, w - first)])]
TickWord(ticks, tick) == 2 + Before(ticks, tick)

\* Mutant: the makers' words taken from the end of the answer.
InsideWord_FromTheEnd(ticks, makers, i) ==
    1 + Cardinality(ticks) + Cardinality(makers) - Before(makers, i)

InsideWord(ticks, makers, i) == 2 + Cardinality(ticks) + Before(makers, i)

Growth(held, c) ==
    [call |-> "extsload", part |-> <<c>>, slots |-> Slots(ChunkIds(c), BandTicks(held, c), Pending(held, c))]
Proof(held, c) == [call |-> "get_proof", part |-> <<c>>, ticks |-> BandTicks(held, c)]
TickRead(c, tick) == [call |-> "storage_at", part |-> <<c, tick>>, ticks |-> {tick}]

TickReads(held, c) ==
    IF Holds(held, Proof(held, c)) /\ Failed(held[Proof(held, c)])
    THEN {TickRead(c, t) : t \in BandTicks(held, c)} ELSE {}

\* pending_equities: the growths in one read, the ticks' funding in another.
EquityReads(held, c) ==
    IF Pending(held, c) = {} THEN {} ELSE {Growth(held, c), Proof(held, c)} \cup TickReads(held, c)

ChunkReads(op, held, c) ==
    {RowsOf(c)} \cup (IF op = "maker_equities" THEN EquityReads(held, c) ELSE {})

Batch(op, held) == <<UNION {ChunkReads(op, held, c) : c \in 1..Chunks}>>
-----------------------------------------------------------------------------
(* The steps of each operation.                                            *)

\* What state.rs reads in more than one call.
MarginRatios == <<{R("modules")}, {R("maker_ratios"), R("taker_ratios")}>>
Emas == <<{R("rates"), R("emas")}>>
PerpViews == R("perp_views")
Mark == <<{PerpViews}>> \o MarkFrom
ImpactBounds == R("impact_bounds")
TickMap(held) ==
    <<{R("bitmaps")}>>
    \o (IF Holds(held, R("bitmaps")) /\ Got(held, R("bitmaps")) # {}
        THEN <<{[call |-> "ticks", part |-> <<>>, ticks |-> Got(held, R("bitmaps"))]}>> ELSE <<>>)
Pool(held) == Mark \o <<{ImpactBounds}>> \o TickMap(held)
MakerMarket == <<{R("maker_views")}>> \o MarkFrom
TakerMarket == <<{R("taker_views")}>> \o MarkFrom
MakerEquities(held) == MakerMarket \o Batch("maker_equities", held)
TakerHealths(held) == TakerMarket \o Batch("taker_healths", held)

ReadSteps(op, held) ==
    CASE op \in PositionReads -> <<{At(op, Asked[1])}>>
      [] op \in OneCallReads -> <<{R(CallOf(op))}>>
      [] op = "margin_ratios" -> MarginRatios
      [] op = "emas" -> Emas
      [] op = "mark" -> Mark
      [] op = "pool" -> Pool(held)
      [] op = "maker_equities" -> MakerEquities(held)
      [] op = "taker_healths" -> TakerHealths(held)
      [] OTHER -> Batch(op, held)

\* What queries.rs and chain.rs read at the head.
HeadReads == {"balance", "pool_price", "funding_rate", "balances", "open_interest", "index"}
TapeAddresses == <<{R("modules")} \cup Immutables>>
\* The configuration asks for the pool key itself, whatever is known of it.
Config(held) ==
    <<{R("modules")}, {R("key_again")}, {R("pool_state")}, {R("ema_window")}>> \o FeesAfter(held, R("modules"))
OwnersAfter(held) ==
    IF Holds(held, R("next_pos_id"))
    THEN [id \in 1..(Got(held, R("next_pos_id")) - 1) |-> {At("owner_of", id)}] ELSE <<>>
PositionsByOwner(held) == <<{R("next_pos_id")}>> \o OwnersAfter(held)
Snapshot(held) ==
    Handle("lagged") \o <<{R("snapshot_views")}>> \o MarkFrom \o FeesAfter(held, R("snapshot_views"))

\* The reads of a pool's storage need the immutables too: after the handle, or
\* before it where the pool's snapshot is to turn a market away first.
HandleFor(op, how) ==
    CASE op \notin {"pool", "maker_equities"} -> Handle(how)
      [] op = "pool" /\ how = "lagged" -> <<Immutables>> \o Handle(how)
      [] OTHER -> Handle(how) \o <<Immutables>>

Steps(op, how, held) ==
    CASE op \in HeadReads -> <<{R(op)}>>
      [] op = "tape_addresses" -> TapeAddresses
      [] op = "get_config" -> Config(held)
      [] op = "get_position" -> <<{At("position", Asked[1])}>>
      [] op = "get_positions_by_owner" -> PositionsByOwner(held)
      [] op = "get_snapshot" -> Snapshot(held)
      [] op \in StateReads -> HandleFor(op, how) \o ReadSteps(op, held)
      [] OTHER -> TradeSteps(op, how, held)

Unheld(step, held) == {r \in step : ~Holds(held, r)}

FirstUnheld(steps, held) ==
    LET open == {i \in DOMAIN steps : Unheld(steps[i], held) # {}}
    IN  IF open = {} THEN {} ELSE Unheld(steps[Min(open)], held)

\* What the operation waits for now: the first step it does not hold.
Due(job) == FirstUnheld(Steps(job.op, job.how, job.held), job.held)

\* A read whose failure is its own: a chunk's, a tick's, a skipped owner's.
Alone(request) == request.call \in {"rows", "extsload", "get_proof", "storage_at"}

\* The block a pinned read is pinned to: the header's.
Pinned(job, request) ==
    /\ job.op \in StateReads \cup {"get_snapshot"}
    /\ request.call \notin {"head", "header", "fees", "liq_fee", "bounds", "pool_id", "pool_key"}

BlockOf(job) == Got(job.held, R("header"))

-----------------------------------------------------------------------------
(* An operation begins, is answered, and goes on.                          *)

\* What needs no request: a hit in the state cache, an immutable already
\* read, a proof the endpoint is known not to serve.
FromCache(request, now) ==
    CASE KeyOf(request) # None /\ CacheGet(cache, KeyOf(request), now) # None ->
            Value(CacheGet(cache, KeyOf(request), now))
      [] request.call \in {"pool_id", "pool_key"} /\ immutables -> Value(HeadWorld.era)
      [] request.call = "get_proof" /\ ~proofs -> Failure("latched")
      [] OTHER -> None

Hits(requests, now) == [r \in {d \in requests : FromCache(d, now) # None} |-> FromCache(r, now)]

\* With what the step due now has in the cache.
Hit(job, now) == [job EXCEPT !.held = Over(Hits(Due(job) \ DOMAIN job.answers, now), @)]

\* The operation at its await.
Waiting(job, due, now) ==
    [job EXCEPT !.asked = due \ DOMAIN job.answers, !.done = due = {},
                !.since = IF \E r \in due : r.call = "liq_fee" THEN @ ELSE now]
AtAwait(job, now) == Waiting(job, Due(job), now)

\* To the operation's next await: a step's hits may make the next step due.
\* The fees and the bounds are the longest run of cached steps.
Resume(job, now) == AtAwait(Hit(Hit(job, now), now), now)

NewJob(op, how, number) ==
    [op |-> op, how |-> how, at |-> number, held |-> << >>, asked |-> {}, answers |-> << >>,
     begun |-> clock, since |-> clock, done |-> FALSE, refused |-> {}]

\* Bound: which calls overlap.
Begin(op, how, number) ==
    /\ Len(jobs) < session.calls
    /\ session.overlap \/ \A i \in DOMAIN jobs : jobs[i].done
    /\ jobs' = Append(jobs, Resume(NewJob(op, how, number), clock))
    /\ UNCHANGED <<node, session, cache, immutables, proofs, proves, faults>>

\* A replica that trails has not seen the block, one behind a reorganization
\* may still have it, and one may have pruned its state.
Seen(behind) == Height - behind
Missing == Failure("BlockUnavailable")

\* Mutant: pinned to the block's number.
PinnedAnswers_ByNumber(request, hash, behind) ==
    {IF hash[1] > Seen(behind) THEN Missing ELSE Value(Says(request, WorldAt(chain[hash[1]])))}

PinnedAnswers(request, hash, behind) ==
    (IF hash[1] > Seen(behind) THEN {} ELSE {Value(Says(request, WorldAt(hash)))})
    \cup (IF hash[1] > Seen(behind) \/ chain[hash[1]] # hash THEN {Missing} ELSE {})

\* The head, a block by number, what is pinned by hash, and what is asked of
\* the latest block.
Served(job, request, behind) ==
    LET latest == WorldAt(chain[Seen(behind)]) IN
    CASE request.call = "head" -> {Value(Saturating(Seen(behind), Lagged(job.how)))}
      [] request.call = "header" ->
            LET number == IF job.how = "number" THEN job.at ELSE Got(job.held, R("head")) IN
            {IF number \in 1..Seen(behind) THEN Value(chain[number]) ELSE Missing}
      [] Pinned(job, request) -> PinnedAnswers(request, BlockOf(job), behind)
      [] request.call = "preflight" ->
            {IF Reverts(request.tx, Holder, latest) THEN Failure("SimulationReverted") ELSE Value(0)}
      [] OTHER -> {Value(Says(request, latest))}

\* The ways a request fails that no chain explains.
Faults(job, request) ==
    {Failure("Rpc")}
    \cup (IF Pinned(job, request) THEN {Failure("StateUnavailable")} ELSE {})
    \cup (IF request.call = "rows"
          THEN {Value([Says(request, WorldAt(BlockOf(job))) EXCEPT ![1] = Failure("reverted")]), Failure("short")} ELSE {})
    \cup (IF request.call = "get_proof"
          THEN {Value([t \in request.ticks \ {Min(request.ticks)} |-> SlotWord(TickSlot(t), WorldAt(BlockOf(job)))])}
          ELSE {})

Unproved(request) == request.call = "get_proof" /\ ~proves

\* Bound: parts that stand alone are pinned and answered in one order, since
\* what each is answered does not depend on the others.
Servable(job) ==
    IF \A r \in job.asked : Alone(r)
    THEN IF job.answers # << >> \/ job.asked = {} THEN {} ELSE {CHOOSE r \in job.asked : TRUE}
    ELSE {r \in job.asked : r.call # "send"}

Take(i, request, answer) ==
    jobs' = [jobs EXCEPT ![i].asked = @ \ {request}, ![i].answers = Put(@, request, answer)]

Serve(i, request) ==
    /\ IF Unproved(request) THEN Take(i, request, Failure("unsupported"))
       ELSE \E behind \in 0..Behind : \E answer \in Served(jobs[i], request, behind) : Take(i, request, answer)
    /\ UNCHANGED <<node, session, cache, immutables, proofs, proves, faults>>

Fault(i, request) ==
    /\ faults < MaxFaults
    /\ faults' = faults + 1
    /\ \E answer \in Faults(jobs[i], request) : Take(i, request, answer)
    /\ UNCHANGED <<node, session, cache, immutables, proofs, proves>>

\* An owner that reverts is a token nobody holds, and is skipped.
Broken(job, request) ==
    LET answer == job.answers[request] IN
    \/ Failed(answer) /\ ~Alone(request)
    \/ ~Failed(answer) /\ Refuses(job.op, job.how, request, answer.value)

\* Mutant: from when its answer came.
Store_WhenAnswered(job, request) ==
    CASE request.call = "liq_fee" ->
            CachePut(cache, <<"fees", request.part[1]>>,
                     Append(Got(job.held, At("fees", request.part[1])), job.answers[request].value), clock)
      [] request.call # "fees" /\ KeyOf(request) # None ->
            CachePut(cache, KeyOf(request), job.answers[request].value, clock)
      [] OTHER -> cache

\* What a step leaves in the cache, from when it was begun.
Store(job, request) ==
    CASE request.call = "liq_fee" ->
            CachePut(cache, <<"fees", request.part[1]>>,
                     Append(Got(job.held, At("fees", request.part[1])), job.answers[request].value), job.since)
      [] request.call # "fees" /\ KeyOf(request) # None ->
            CachePut(cache, KeyOf(request), job.answers[request].value, job.since)
      [] OTHER -> cache

Unsupported(job) == \E r \in DOMAIN job.answers : job.answers[r] = Failure("unsupported")

\* The operation goes on once its step is answered, or a part that stands
\* alone is; the first failure that is not a part's own ends it.
Poll(i) ==
    LET job == jobs[i]
        broken == {r \in DOMAIN job.answers : Broken(job, r)}
        learnt == Immutables \subseteq DOMAIN job.answers
    IN
    /\ ~job.done /\ job.answers # << >>
    /\ \/ /\ broken # {}
          /\ \E r \in broken :
                jobs' = [jobs EXCEPT ![i] = [job EXCEPT !.done = TRUE, !.asked = {}, !.refused = {r}]]
          /\ immutables' \in {immutables, immutables \/ learnt}
          /\ UNCHANGED <<cache, proofs>>
       \/ /\ broken = {} /\ (job.asked = {} \/ \A r \in DOMAIN job.answers : Alone(r))
          /\ cache' = IF Cardinality(DOMAIN job.answers) # 1 THEN cache
                      ELSE Store(job, CHOOSE r \in DOMAIN job.answers : TRUE)
          /\ immutables' = (immutables \/ learnt)
          /\ proofs' = (proofs /\ ~Unsupported(job))
          /\ jobs' = [jobs EXCEPT ![i] =
                        Resume([job EXCEPT !.held = Over(job.answers, @), !.answers = << >>, !.asked = {}], clock)]
    /\ UNCHANGED <<node, session, proves, faults>>

\* invalidate_fast_cache, invalidate_all_cache.
Invalidate ==
    /\ session.invalidates /\ cache # EmptyCache
    /\ cache' \in {InvalidateFastLayer(cache), InvalidateAll(cache)}
    /\ UNCHANGED <<node, session, immutables, proofs, proves, faults, jobs>>
-----------------------------------------------------------------------------
(* What an operation answers, from what it holds.                          *)

RowOutcome(op, row) ==
    IF Failed(row) THEN row ELSE
    CASE op = "positions" -> Value(IF Exists(row.value) THEN row.value ELSE None)
      [] op = "owners" -> Value(IF row.value.owner = Nobody THEN None ELSE row.value.owner)
      [] op = "maker_bands" -> Value(IF IsMaker(row.value) THEN <<row.value.ticks, row.value.liquidity>> ELSE None)

TickFundingFor(held, c, tick) ==
    LET proof == held[Proof(held, c)] IN
    IF Failed(proof) THEN held[TickRead(c, tick)]
    ELSE IF tick \in DOMAIN proof.value THEN Value([t \in {tick} |-> proof.value[t]])
    ELSE Failure("Rpc")

\* The whole of what a maker's equity is computed from.
MakerState(position, market, global, outside, inside, funding) ==
    [position |-> position, market |-> market, global |-> global, outside |-> outside,
     inside |-> inside, funding |-> funding]

EquityOf(held, c, i) ==
    LET position == RowAt(held, c, i)
        ticks == BandTicks(held, c)
        growth == held[Growth(held, c)]
        word(w) == growth.value[w]
        funding == [t \in position.ticks |-> TickFundingFor(held, c, t)]
        unread == {t \in position.ticks : Failed(funding[t])}
    IN  IF Failed(growth) THEN growth
        ELSE IF unread # {} THEN funding[CHOOSE t \in unread : TRUE]
        ELSE Value(MakerState(position, Got(held, R("maker_views")).version, word(1),
                              [t \in position.ticks |-> word(TickWord(ticks, t))],
                              word(InsideWord(ticks, Pending(held, c), i)),
                              [t \in position.ticks |-> funding[t].value[t]]))

TakerHealth(held, row) ==
    Value(IF IsTaker(row) THEN <<row, Got(held, R("taker_views")).version>> ELSE None)

ChunkOutcomes(op, held, c) ==
    LET answer == held[RowsOf(c)] IN
    [i \in DOMAIN ChunkIds(c) |->
        IF Failed(answer) THEN answer ELSE IF Failed(answer.value[i]) THEN answer.value[i] ELSE
        CASE op = "maker_equities" -> IF i \in Pending(held, c) THEN EquityOf(held, c, i) ELSE Value(None)
          [] op = "taker_healths" -> TakerHealth(held, answer.value[i].value)
          [] OTHER -> RowOutcome(op, answer.value[i])]

Outcomes(job) == FlattenSeq([c \in 1..Chunks |-> ChunkOutcomes(job.op, job.held, c)])

\* The pool is refused unless the ticks give the liquidity the views hold.
Whole(job) ==
    LET ticks == Got(job.held, R("bitmaps")) IN
    \A t \in ticks : Got(job.held, [call |-> "ticks", part |-> <<>>, ticks |-> ticks])[t]
                        = <<TickSlot(t), Got(job.held, R("perp_views")).version>>

Answered(job) == job.done /\ job.refused = {}

-----------------------------------------------------------------------------
(* The system.                                                             *)

Busy == Len(jobs) < session.calls \/ \E i \in DOMAIN jobs : ~jobs[i].done

ReadsInit ==
    /\ session \in Sessions
    /\ chain = [n \in 1..3 |-> Hash(n, 0)]
    /\ \E first \in session.worlds : \E last \in (IF session.reorganizes THEN session.worlds ELSE {first}) :
        said = [h \in {Hash(n, 0) : n \in 1..3} |-> [world |-> IF h[1] = 3 THEN last ELSE first, mined |-> 0]]
    /\ forks = 0 /\ clock = 0
    /\ cache = EmptyCache /\ immutables = FALSE
    /\ proofs = TRUE /\ proves \in (IF "maker_equities" \in session.ops THEN BOOLEAN ELSE {TRUE})
    /\ faults = 0 /\ jobs = <<>>

BeginRead ==
    /\ ~session.trades /\ ~session.quotes
    /\ \E op \in session.ops :
        \/ op \notin StateReads /\ Begin(op, "lagged", 0)
        \/ op \in StateReads /\ \E how \in {"lagged", "head"} : Begin(op, how, 0)
        \/ op \in StateReads /\ \E number \in {Height, Height + 1} : Begin(op, "number", number)

\* Bound: a chain grows under a pinned read until its block is resolved.
Resolving == \A i \in DOMAIN jobs : ~(session.reorganizes /\ Holds(jobs[i].held, R("header")))

NodeNext ==
    /\ Busy /\ ~session.trades
    /\ \/ Resolving /\ \E w \in session.worlds : MineBlock(w)
       \/ session.reorganizes /\ \E w \in session.worlds : Reorganize(w)
       \/ session.ticks /\ Tick
    /\ Len(chain') <= session.head
    /\ UNCHANGED client

ReadsNext ==
    \/ BeginRead
    \/ \E i \in DOMAIN jobs : \E r \in Servable(jobs[i]) : Serve(i, r) \/ Fault(i, r)
    \/ \E i \in DOMAIN jobs : Poll(i)
    \/ Busy /\ Invalidate
=============================================================================
