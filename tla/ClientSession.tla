---------------------------- MODULE ClientSession ----------------------------
(***************************************************************************)
(* A market client at work: its reads, current and pinned, its trades, the *)
(* feeds it follows and the positions a bot manages beside it.             *)
(***************************************************************************)
EXTENDS LiveFeeds, HftTools

CONSTANTS Calls,   \* the trades a client may ask for: [op, params]
          Theirs,  \* what others send: [tx, from]
          Accounts \* who may hold a position

-----------------------------------------------------------------------------
(* What a session may be told to do, and the markets it finds.             *)

ReadOps == HeadReads \cup StateReads
    \cup {"tape_addresses", "get_config", "get_position", "get_positions_by_owner", "get_snapshot"}

Roles == {"maker", "taker"}

CallShapes ==
    [op : {"open_taker"}, params : [margin : Nat, delta : Int]]
    \cup [op : {"open_maker"}, params : [margin : Nat, lower : Int, upper : Int, liquidity : Nat]]
    \cup [op : {"adjust_taker"}, params : [id : Nat, delta : Int]]
    \cup [op : {"close_taker"}, params : [id : Nat]]
    \cup [op : {"adjust_maker", "close_maker"}, params : [id : Nat, liquidity : Int]]
    \cup [op : {"liquidate", "simulate_liquidation"}, params : [role : Roles, id : Nat, recipient : Accounts]]
    \cup [op : {"transfer_position"}, params : [id : Nat, to : Accounts]]
    \cup [op : {"transfer_usdc"}, params : {<< >>}]
    \cup [op : {"ensure_approval"}, params : [amount : 0..MaxApproval]]

TxShapes ==
    [kind : {"open_taker"}, margin : Nat, delta : Int]
    \cup [kind : {"open_maker"}, margin : Nat, ticks : SUBSET Int, liquidity : Nat]
    \cup [kind : {"adjust_taker"}, id : Nat, delta : Int]
    \cup [kind : {"adjust_maker"}, id : Nat, liquidity : Int]
    \cup [kind : {"liquidate"}, role : Roles, id : Nat, amount : Nat]
    \cup [kind : {"transfer"}, id : Nat, to : Accounts]
    \cup [kind : {"approve", "pay"}]

Positions == [delta : Int, margin : Nat, liquidity : Nat, ticks : SUBSET Int, owner : Accounts]

IsMarket(w) ==
    /\ {"positions", "allowance", "era"} \subseteq DOMAIN w
    /\ w.positions \in Seq(Positions) /\ w.allowance \in Nat

\* The positions that calls and others name.
Named == {call.params.id : call \in {c \in Calls : "id" \in DOMAIN c.params}}
             \cup {t.tx.id : t \in {u \in Theirs : "id" \in DOMAIN u.tx}}

\* A session that trades finds one market's states, of one build, in which
\* the positions named have been opened, whoever has them now; and a replica
\* has some of the chain's first blocks.
ASSUME SessionAssumption ==
    /\ TickSpacing \in Nat \ {0} /\ Behind < 3 /\ {Nobody, Zero, Holder} \subseteq Accounts
    /\ Calls \subseteq CallShapes
    /\ \A t \in Theirs : t.tx \in TxShapes /\ t.from \in Accounts
    /\ \A s \in Sessions :
        /\ s.trades \/ s.ops \subseteq ReadOps
        /\ \A w \in s.worlds : IsMarket(w)
        /\ s.trades => \A v, w \in s.worlds :
                /\ Named \subseteq DOMAIN w.positions
                /\ w.era \in {Legacy, Upgradeable} /\ v.era = w.era

\* A batch asks for something (of nothing, the code asks nothing), in chunks;
\* the contract has a word for every id, and a position finitely many ticks.
ASSUME BatchAssumption ==
    /\ Asked \in Seq(Nat) /\ Asked # <<>> /\ MaxRowBatch \in Nat \ {0}
    /\ \A s \in Sessions : s.trades \/ s.ops \cap BatchReads = {} \/
        \A w \in s.worlds : \A k \in DOMAIN Asked :
            Asked[k] \in DOMAIN w.positions /\ IsFiniteSet(w.positions[Asked[k]].ticks)

-----------------------------------------------------------------------------
vars == <<node, client, trading, feeding, managing, measuring>>

Init == ReadsInit /\ TradesInit /\ FeedsInit /\ ManagerInit /\ TrackerInit
Next ==
    \/ (NodeNext \/ ReadsNext) /\ UNCHANGED <<trading, feeding, managing, measuring>>
    \/ session.trades /\ TradesNext(Calls, Theirs) /\ UNCHANGED <<feeding, managing, measuring>>
    \/ FeedsNext /\ UNCHANGED <<trading, managing, measuring>>
    \/ session.manages /\ ManagerNext /\ UNCHANGED <<node, client, trading, feeding, measuring>>
    \/ session.measures /\ TrackerNext /\ UNCHANGED <<node, client, trading, feeding, managing>>
Spec == Init /\ [][Next]_vars

-----------------------------------------------------------------------------
\* The earliest second of which a call begun at `begun` may be answered through
\* a layer that keeps a value for `ttl`.
Earliest(begun, ttl) == Lesser(begun, Saturating(begun + 1, ttl))

\* The answer of a block no further behind the head, as it was when that second
\* began, than a replica is.
SaidSince(request, value, time) ==
    \E h \in DOMAIN said :
        /\ Says(request, WorldAt(h)) = value
        /\ h[1] + Behind >= HeightBefore(time)

\* A current read answers what the head said no earlier than its layer's TTL
\* before it was called (and a replica's distance before that): an answer put
\* in the cache expires by when it was asked for, not by when it came
\* (state_cache.rs CachedValue::is_valid, chain.rs balance_of, queries.rs
\* get_pool_price, get_funding_rate, get_or_fetch_fees, get_or_fetch_bounds).
CachedWithinTtl ==
    \A i \in DOMAIN jobs : Answered(jobs[i]) =>
        \A r \in {q \in DOMAIN jobs[i].held : KeyOf(q) # None} :
            LET value == Got(jobs[i].held, r)
                time == Earliest(jobs[i].begun, TtlOf(r.call))
            IN
            IF r.call # "fees" THEN SaidSince(r, value, time)
            ELSE \A k \in DOMAIN value : SaidSince(r, <<value[k]>>, time)

\* Every value of a read pinned to a block is that block's, however the chain
\* was replaced and whichever replica answered, and a pool read back from its
\* ticks reproduces the liquidity it was read beside: what fails, fails.
PinnedReadsAgree ==
    \A i \in DOMAIN jobs :
        LET job == jobs[i] IN
        Answered(job) /\ R("header") \in DOMAIN job.held =>
            /\ \A r \in DOMAIN job.held :
                Pinned(job, r) /\ ~Failed(job.held[r]) /\ r.call \notin {"rows", "get_proof"} =>
                    Got(job.held, r) = Says(r, WorldAt(BlockOf(job)))
            /\ job.op = "pool" => Whole(job)

\* What a block says of an id to each batch.
Truth(op, id, w) ==
    LET p == w.positions[id] IN
    CASE op = "positions" -> IF Exists(p) THEN p ELSE None
      [] op = "owners" -> IF p.owner = Nobody THEN None ELSE p.owner
      [] op = "maker_bands" -> IF p.liquidity # 0 THEN <<p.ticks, p.liquidity>> ELSE None
      [] op = "taker_healths" -> IF p.liquidity = 0 /\ p.delta # 0 THEN <<p, w.version>> ELSE None
      [] op = "maker_equities" ->
            IF p.liquidity = 0 THEN None
            ELSE MakerState(p, w.version, SlotWord(Global, w), [t \in p.ticks |-> SlotWord(TickSlot(t), w)],
                            SlotWord(InsideSlot(id), w), [t \in p.ticks |-> SlotWord(TickSlot(t), w)])

\* What an id's failure may be laid to: its chunk, its row, its maker's growth,
\* or the funding of a tick of its own.
Excused(job, k) ==
    LET c == ((k - 1) \div MaxRowBatch) + 1
        position == WorldAt(BlockOf(job)).positions[Asked[k]]
    IN \E r \in DOMAIN job.held :
        LET answer == job.held[r] IN
        /\ r.part # <<>> /\ r.part[1] = c
        /\ \/ r.call = "rows" /\ (Failed(answer) \/ Failed(answer.value[k - (c - 1) * MaxRowBatch]))
           \/ r.call = "extsload" /\ Failed(answer) /\ position.liquidity # 0
           \/ r.call = "storage_at" /\ Failed(answer) /\ r.ticks \subseteq position.ticks
           \/ r.call = "get_proof" /\ ~Failed(answer) /\ ~(position.ticks \subseteq DOMAIN answer.value)

\* A batch answers every id once, in the order asked: each outcome is what the
\* block said of that id, computed from that id's own words, and fails only
\* when a read it stands on failed; and eth_getProof is given up for good only
\* on an endpoint that has no such method.
BatchesAnswerEach ==
    /\ ~proofs => ~proves
    /\ \A i \in DOMAIN jobs :
        LET job == jobs[i] IN
        Answered(job) /\ job.op \in BatchReads =>
            /\ Len(Outcomes(job)) = Len(Asked)
            /\ \A k \in DOMAIN Asked :
                IF Failed(Outcomes(job)[k]) THEN Excused(job, k)
                ELSE Outcomes(job)[k].value = Truth(job.op, Asked[k], WorldAt(BlockOf(job)))

\* A trade that answers well did what it was asked, by its own transaction:
\* the position it names as opened is the one it minted, a band covers the
\* prices asked for, a fill is the position's own, a closed taker is gone to
\* the atom however it moved between the read and the block, a liquidation
\* takes the whole of the position, as it was read where the build takes an
\* amount, and an
\* error tells what to do next: without a hash nothing is or will be on the
\* chain, a hash that is not unconfirmed was mined, and a transient error that
\* is not unconfirmed can be retried, a close that mined leaving its position
\* open (errors/mod.rs is_transient, is_unconfirmed, tx_hash).
TradesDoWhatTheyReport ==
    \A i \in DOMAIN jobs :
        LET job == jobs[i]
            sent == {r \in DOMAIN job.held : r.call = "send"}
            logs == mined[i].logs
        IN
        /\ Answered(job) /\ sent # {} =>
            /\ i \in DOMAIN mined /\ ~mined[i].reverted
            /\ job.op \in Opens =>
                LET id == ParseMintedTokenId(logs).log.id IN
                /\ id \notin DOMAIN mined[i].before.positions
                /\ mined[i].after.positions[id].owner = Holder
            /\ job.op = "open_maker" =>
                \A t \in job.how.lower..job.how.upper :
                    \E low, high \in mined[i].after.positions[NextPosId(mined[i].before)].ticks : low <= t /\ t <= high
            /\ job.op \in {"adjust_taker", "close_taker"} =>
                LET id == job.how.id IN
                ParseTakerSwap(logs).log.delta
                    = mined[i].after.positions[id].delta - mined[i].before.positions[id].delta
            /\ job.op = "close_taker" => ~Exists(mined[i].after.positions[job.how.id])
            /\ job.op = "liquidate" =>
                LET role == job.how.role
                    size(w) == Size(role, w.positions[job.how.id])
                    read == SizeRead(role, job.how.id)
                IN  /\ size(mined[i].after) < size(mined[i].before)
                    /\ size(mined[i].after) = size(mined[i].before)
                            - (IF mined[i].before.era = Legacy THEN size(mined[i].before)
                               ELSE Size(role, Got(job.held, read)))
            /\ job.op = "transfer_position" => mined[i].after.positions[job.how.id].owner = job.how.to
            /\ job.op = "ensure_approval" => mined[i].after.allowance >= job.how.amount
        /\ job.done /\ sent = {} /\ job.refused = {} => ~Submitted(i)
        /\ job.done /\ job.refused # {} =>
            LET error == ErrorOf(job) IN
            /\ ~HasTxHash(error) => ~Submitted(i)
            /\ HasTxHash(error) /\ ~IsUnconfirmed(error) => i \in DOMAIN mined
            /\ IsTransient(error) /\ ~IsUnconfirmed(error) /\ Submitted(i) =>
                ~mined[i].reverted /\ Exists(mined[i].after.positions[job.how.id])
=============================================================================
