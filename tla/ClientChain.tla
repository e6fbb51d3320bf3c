----------------------------- MODULE ClientChain -----------------------------
(***************************************************************************)
(* The node behind a ChainReader (src/client/chain.rs): a chain that grows *)
(* and reorganizes behind replicas that trail it, and what it says of a    *)
(* market to each kind of request the client makes.  A request is for one  *)
(* thing (a call, and the part of a batch it is for) at the latest block,  *)
(* at a number, or pinned to a block's hash.  Of the market's figures only *)
(* the version of the state they are read from is kept: two blocks of one  *)
(* version say the same, and a figure of one version is no figure of       *)
(* another.                                                                *)
(***************************************************************************)
EXTENDS Naturals, Sequences, FiniteSets, TLC

CONSTANTS MaxHead,    \* bound: blocks
          MaxForks,   \* bound: reorganizations
          MaxClock,   \* bound: seconds
          Depth,      \* blocks a reorganization replaces
          Behind      \* blocks a replica may trail by

VARIABLES chain,   \* the blocks' hashes
          said,    \* by hash: the market state there, and when it was mined
          forks,
          clock    \* the client's clock, in seconds

ASSUME ChainAssumption == {MaxHead, MaxForks, MaxClock, Depth, Behind} \subseteq Nat

node == <<chain, said, forks, clock>>

\* Functions put together: what `new` says, and what only `old` does; and one
\* value put over `old`.
Over(new, old) == [x \in DOMAIN new \cup DOMAIN old |-> IF x \in DOMAIN new THEN new[x] ELSE old[x]]
Put(old, x, value) == [y \in DOMAIN old \cup {x} |-> IF y = x THEN value ELSE old[y]]

Height == Len(chain)
Hash(number, fork) == <<number, fork>>
WorldAt(hash) == said[hash].world
HeadWorld == WorldAt(chain[Height])

\* Blocks mined before the second `time` began.
HeightBefore(time) == Cardinality({n \in 1..Height : said[chain[n]].mined < time})

Extend(hashes, worlds) ==
    /\ chain' = SubSeq(chain, 1, hashes[1][1] - 1) \o hashes
    /\ said' = Over([h \in {hashes[i] : i \in DOMAIN hashes} |-> [world |-> worlds[h[1]], mined |-> clock]], said)
    /\ UNCHANGED clock

MineBlock(world) ==
    /\ Height < MaxHead
    /\ Extend(<<Hash(Height + 1, forks)>>, [n \in {Height + 1} |-> world])
    /\ UNCHANGED forks

\* A longer fork wins: its blocks are new ones.
Reorganize(world) ==
    /\ forks < MaxForks /\ Height \in (Depth + 1)..(MaxHead - 1)
    /\ LET new == (Height - Depth + 1)..(Height + 1) IN
        Extend([i \in 1..(Depth + 1) |-> Hash(Height - Depth + i, forks + 1)], [n \in new |-> world])
    /\ forks' = forks + 1

Tick ==
    /\ clock < MaxClock
    /\ clock' = clock + 1
    /\ UNCHANGED <<chain, said, forks>>

-----------------------------------------------------------------------------
(* Requests and answers.                                                   *)

R(call) == [call |-> call, part |-> <<>>]
At(call, key) == [call |-> call, part |-> <<key>>]

Value(v) == [value |-> v]
Failure(kind) == [failed |-> kind]
Failed(answer) == "failed" \in DOMAIN answer

Holds(held, request) == request \in DOMAIN held
Got(held, request) == held[request].value

Holder == "wallet"

-----------------------------------------------------------------------------
(* What a block says.  Positions are records [delta, margin, liquidity,    *)
(* ticks, owner]; one that is gone is all zero and owned by nobody.        *)

Nobody == "nobody"
Unset == 0

Exists(position) == position.margin # 0 \/ position.delta # 0

Gone == [delta |-> 0, margin |-> 0, liquidity |-> 0, ticks |-> {}, owner |-> Nobody]

NextPosId(w) == Cardinality(DOMAIN w.positions) + 1

\* A pool's storage: its global fee growth, a tick's growth outside, what a
\* position last saw inside.
Global == <<"global", 0>>
TickSlot(tick) == <<"tick", tick>>
InsideSlot(id) == <<"inside", id>>
SlotWord(slot, w) == <<slot, w.version>>

\* The distinct band edges of the makers: the ticks the bitmap shows.
Ticks(w) == UNION {w.positions[id].ticks : id \in {p \in DOMAIN w.positions : w.positions[p].liquidity # 0}}

\* What a module's own governance last set.
Governed(module, w) == <<module, w.governed>>

Modules(w) == [beacon |-> w.beacon, fees |-> w.fees, version |-> w.version]

\* The answer to a request: by what it calls.
Says(request, w) ==
    CASE request.call \in {"modules", "perp_views", "snapshot_views", "maker_views", "taker_views"} -> Modules(w)
      [] request.call = "index" -> IF w.index = 0 THEN 0 ELSE w.version
      [] request.call = "fees" -> <<Governed(request.part[1], w)>>
      [] request.call \in {"liq_fee", "bounds"} -> Governed(request.part[1], w)
      [] request.call = "next_pos_id" -> NextPosId(w)
      [] request.call = "owner_of" -> w.positions[request.part[1]].owner
      [] request.call = "position" -> w.positions[request.part[1]]
      [] request.call \in {"maker_band", "maker_details"} -> w.positions[request.part[1]]
      [] request.call = "allowance" -> w.allowance
      [] request.call \in {"pool_id", "pool_key", "key_again"} -> w.era
      [] request.call = "ema_window" -> 0
      [] request.call = "bitmaps" -> Ticks(w)
      [] request.call = "ticks" -> [t \in request.ticks |-> SlotWord(TickSlot(t), w)]
      [] request.call = "extsload" -> [i \in DOMAIN request.slots |-> SlotWord(request.slots[i], w)]
      [] request.call \in {"get_proof", "storage_at"} -> [t \in request.ticks |-> SlotWord(TickSlot(t), w)]
      [] request.call = "rows" -> [i \in DOMAIN request.ids |-> [value |-> w.positions[request.ids[i]]]]
      [] OTHER -> w.version
=============================================================================
