----------------------------- MODULE LiveFeeds ------------------------------
(***************************************************************************)
(* The WebSocket manager (transport/ws.rs) and what rides on it            *)
(* (feeds/market.rs, feeds/taker.rs, feeds/block.rs): a market's decoded   *)
(* logs, and a pool snapshot read again on every head.  A subscription     *)
(* starts some time after it is asked for, forwards what the socket says   *)
(* into a channel, and ends with the socket; the channel is read dry       *)
(* before its end is seen.  The consumer subscribes again.                 *)
(***************************************************************************)
EXTENDS ClientTrades

-----------------------------------------------------------------------------
(***************************************************************************)
(* The event vocabulary of src/events.rs: decode_log's arms, by the build  *)
(* of the contracts that emits the event.  A log is [topic, topics,        *)
(* shaped, wide, liquidation]: its topic0 as a <<build, event>> pair, how  *)
(* many topics it carries, whether its shape is that of the binding, which *)
(* of its words exceed the width that the SDK holds, and what a            *)
(* liquidation tail on it would say.  The words that fit are left out.     *)
(***************************************************************************)

ERC20_TRANSFER_TOPICS == 3

\* An arm: the topic it takes, the event it gives, the words that it narrows,
\* and whether the event says of itself that it is a liquidation.
Arm(build, name, narrows, tail) ==
    [topic |-> <<build, name>>, event |-> name, narrows |-> narrows, tail |-> tail]

\* maker_settle and swap_info narrow each of these words.
MakerSettle == {"funding", "long_util_fees", "short_util_fees", "lp_fees"}
SwapInfo == {"total_fee", "lp_fee", "protocol_fee", "creator_fee", "insurance_fee"}

\* An event whose shape changed between builds has an arm for each.
MakerArms ==
    {Arm("Perp", "MakerOpened", {}, FALSE),
     Arm("Perp", "MakerAdjusted", MakerSettle, FALSE),
     Arm("Perp", "MakerConverted", MakerSettle, FALSE),
     Arm("Perp", "MakerClosed", MakerSettle, FALSE),
     Arm("PerpDeployedEvents", "MakerConverted", MakerSettle \cup {"liq_fee"}, TRUE),
     Arm("PerpDeployedEvents", "MakerClosed", MakerSettle \cup {"liq_fee"}, TRUE),
     Arm("Perp", "MakerLiquidated", {"liq_fee"}, FALSE),
     Arm("Perp", "MakerBackstopped", MakerSettle, FALSE)}

TakerArms ==
    {Arm("Perp", "TakerOpened", SwapInfo, FALSE),
     Arm("Perp", "TakerAdjusted", SwapInfo \cup {"funding", "util_fees"}, FALSE),
     Arm("Perp", "TakerClosed", SwapInfo \cup {"funding", "util_fees", "liq_fee"}, TRUE),
     Arm("PerpV022", "TakerClosed", SwapInfo \cup {"funding", "util_fees"}, FALSE),
     Arm("Perp", "TakerLiquidated", {"liq_fee"}, FALSE),
     Arm("Perp", "TakerBackstopped", {"funding", "util_fees"}, FALSE)}

MarketArms ==
    {Arm("Perp", name, {}, FALSE) :
        name \in {"CapacityUpdated", "OpenInterestUpdated", "CumulativesAccrued",
                  "TicksCrossed", "TickInitialized", "TickDeleted"}}
    \cup {Arm("Perp", "RatesAndEmasRefreshed", {"funding_per_day"}, FALSE)}

SolvencyArms ==
    {Arm("Perp", "Donated", {}, FALSE),
     Arm("Perp", "BadDebtAccounted", {"bad_debt", "insurance_after"}, FALSE),
     Arm("Perp", "LossSocialized", {"original_amount", "fee_charged"}, FALSE),
     Arm("Perp", "MarginTransferred", {}, FALSE)}

PoolArms ==
    {Arm("IBeacon", "IndexUpdated", {}, FALSE),
     [Arm("IPoolManagerState", "Initialize", {}, FALSE) EXCEPT !.event = "PoolInitialized"],
     [Arm("IPoolManagerState", "Swap", {}, FALSE) EXCEPT !.event = "PoolSwapped"],
     Arm("IPoolManagerState", "ModifyLiquidity", {"liquidity_delta"}, FALSE)}

TransferTopic == <<"Perp", "Transfer">>
TransferArm == [Arm("Perp", "Transfer", {}, FALSE) EXCEPT !.event = "PositionTransferred"]

GovernanceArms ==
    {[Arm("Perp", set, {}, FALSE) EXCEPT !.event = "ModuleSet"] :
        set \in {"SetBeacon", "SetFeesModule", "SetFundingModule", "SetMarginRatiosModule",
                 "SetPriceImpactModule", "SetPricingModule"}}

Arms ==
    MakerArms \cup TakerArms \cup MarketArms \cup SolvencyArms \cup PoolArms
    \cup {TransferArm} \cup GovernanceArms
ArmOf(topic) == CHOOSE arm \in Arms : arm.topic = topic

\* The builds that say on the event itself that it was a liquidation.
Tailed == {arm.topic : arm \in {other \in Arms : other.tail}}

Skip == [skip |-> TRUE]
DecodeFailed == [error |-> "DecodeFailed"]
Event(name, liquidation) == [event |-> name, is_liquidation |-> liquidation]

\* An ERC20's Transfer has the position NFT's topic and its own arity.
NotOurs(log) ==
    \/ \A arm \in Arms : arm.topic # log.topic
    \/ log.topic = TransferTopic /\ log.topics = ERC20_TRANSFER_TOPICS

\* decode_raw fails on another shape, narrow_i128 and narrow_u128 on a word
\* that does not fit.
Fails(log) == ~log.shaped \/ log.wide \cap ArmOf(log.topic).narrows # {}

DecodeLog(log) ==
    IF NotOurs(log) THEN Skip
    ELSE IF Fails(log) THEN DecodeFailed
    ELSE LET arm == ArmOf(log.topic) IN Event(arm.event, arm.tail /\ log.liquidation)

-----------------------------------------------------------------------------

CONSTANTS Logs,            \* the logs the market's contracts may emit
          MaxLogs,         \* bound: logs emitted
          MaxDrops,        \* bound: sockets lost
          InitialBackoff, MaxBackoff, BackoffMultiplier, MaxAttempts  \* ReconnectConfig

VARIABLES socket,   \* [up, drops, attempts, delay, gave_up]
          emitted,  \* what the contracts emitted
          feed,     \* a MarketFeed: [state, from, at, queue, yields]; a log
                    \* is known by its place in `emitted`
          live      \* a LiveTakerMarket: [state, heads, since, told, ok, latest]

feeding == <<socket, emitted, feed, live>>

Connected == [up |-> TRUE, drops |-> 0, attempts |-> 0, delay |-> InitialBackoff, gave_up |-> FALSE]
NoFeed == [state |-> "none", from |-> 0, at |-> 0, queue |-> <<>>, yields |-> <<>>]
NoLive == [state |-> "none", heads |-> <<>>, since |-> 0, told |-> 0, ok |-> FALSE, latest |-> None]

FeedsInit == socket = Connected /\ emitted = <<>> /\ feed = NoFeed /\ live = NoLive

-----------------------------------------------------------------------------
(* WsManager.                                                              *)

Drop ==
    /\ socket.up /\ socket.drops < MaxDrops
    /\ socket' = [Connected EXCEPT !.up = FALSE, !.drops = socket.drops + 1]
    /\ UNCHANGED <<emitted, feed, live>>

\* reconnect: sleep, connect, and wait longer for the next attempt.
Reconnect ==
    /\ ~socket.up /\ ~socket.gave_up
    /\ IF MaxAttempts > 0 /\ socket.attempts + 1 > MaxAttempts
       THEN socket' = [socket EXCEPT !.gave_up = TRUE]
       ELSE \/ socket' = [Connected EXCEPT !.drops = socket.drops]
            \/ socket' = [socket EXCEPT !.attempts = @ + 1,
                                       !.delay = Lesser(@ * BackoffMultiplier, MaxBackoff)]
    /\ UNCHANGED <<emitted, feed, live>>

-----------------------------------------------------------------------------
(* MarketFeed.                                                             *)

Emit(log) ==
    /\ Len(emitted) < MaxLogs
    /\ emitted' = Append(emitted, log)
    /\ UNCHANGED <<socket, feed, live>>

\* A new manager's feed, or the first.
SubscribeFeed ==
    /\ socket.up /\ feed.state \in {"none", "lost"}
    /\ feed' = [NoFeed EXCEPT !.state = "asked"]
    /\ UNCHANGED <<socket, emitted, live>>

\* The task that subscribes: established from now on, or failed, which its
\* caller sees as an end.
Establish ==
    /\ feed.state = "asked"
    /\ \/ socket.up /\ feed' = [feed EXCEPT !.state = "open", !.from = Len(emitted), !.at = Len(emitted)]
       \/ feed' = [feed EXCEPT !.state = "ended"]
    /\ UNCHANGED <<socket, emitted, live>>

\* The next of the addresses' logs goes into the channel.
Forward ==
    /\ feed.state = "open" /\ socket.up /\ feed.at < Len(emitted)
    /\ feed' = [feed EXCEPT !.at = @ + 1,
                            !.queue = IF emitted[feed.at + 1].address = "pool_manager" THEN @
                                      ELSE Append(@, feed.at + 1)]
    /\ UNCHANGED <<socket, emitted, live>>

StreamEnds ==
    /\ feed.state = "open" /\ ~socket.up
    /\ feed' = [feed EXCEPT !.state = "ended"]
    /\ UNCHANGED <<socket, emitted, live>>

\* Mutant: a log that will not decode is passed over with the others.
Stops_Decoded(queue) == {k \in DOMAIN queue : DecodeLog(emitted[queue[k]]) \notin {Skip, DecodeFailed}}

\* Where next_decoded stops: at a log that is ours, or one that will not decode.
Stops(queue) == {k \in DOMAIN queue : DecodeLog(emitted[queue[k]]) # Skip}

\* next and next_stamped, whose header read may fail after the log is taken.
NextEvent ==
    /\ feed.state \in {"open", "ended"}
    /\ \/ \E k \in Stops(feed.queue) :
            /\ \A j \in 1..(k - 1) : j \notin Stops(feed.queue)
            /\ LET log == emitted[feed.queue[k]] IN
                \E failed \in {FALSE, faults < MaxFaults /\ ~log.timestamped /\ DecodeLog(log) # DecodeFailed} :
                    /\ feed' = [feed EXCEPT !.queue = SubSeq(@, k + 1, Len(@)),
                                            !.yields = Append(@, [log |-> feed.queue[k],
                                                                  gives |-> IF failed THEN Failure("header") ELSE DecodeLog(log)])]
                    /\ faults' = IF failed THEN faults + 1 ELSE faults
       \/ /\ Stops(feed.queue) = {}
          /\ feed.state = "ended" \/ feed.queue # <<>>
          /\ feed' = [feed EXCEPT !.queue = <<>>, !.state = IF @ = "ended" THEN "lost" ELSE @]
          /\ UNCHANGED faults
    /\ UNCHANGED <<socket, emitted, live>>

-----------------------------------------------------------------------------
(* LiveTakerMarket.                                                        *)

Refresh == Append(jobs, Resume(NewJob("pool", "lagged", 0), clock))

\* The snapshot that was read replaces the last; a read that failed leaves it.
Published ==
    LET job == Head(jobs) IN
    IF Answered(job) THEN [block |-> BlockOf(job), whole |-> Whole(job)] ELSE live.latest

Subscribe ==
    /\ live.state = "none"
    /\ jobs' = Refresh
    /\ live' = [live EXCEPT !.state = "starting"]

\* The first read must succeed; then the heads from here on, those mined
\* during it untold.
Started ==
    /\ live.state = "starting" /\ Head(jobs).done
    /\ live' = [live EXCEPT !.state = IF Answered(Head(jobs)) THEN "watching" ELSE "failed",
                            !.ok = TRUE, !.latest = Published,
                            !.since = Height, !.told = Height]
    /\ jobs' = <<>>

HeadArrives ==
    /\ live.state \in {"watching", "refreshing"} /\ socket.up /\ live.told < Height
    /\ live' = [live EXCEPT !.told = @ + 1, !.heads = Append(@, live.told + 1)]
    /\ UNCHANGED jobs

\* recv, and what else is queued with it.
Woken ==
    /\ live.state = "watching" /\ live.heads # <<>>
    /\ live' = [live EXCEPT !.state = "refreshing", !.heads = <<>>]
    /\ jobs' = Refresh

\* Mutant: the backlog is drained after the read instead.
Refreshed_Drains ==
    /\ live.state = "refreshing" /\ Head(jobs).done
    /\ live' = [live EXCEPT !.state = "watching", !.ok = Answered(Head(jobs)), !.latest = Published, !.heads = <<>>]
    /\ jobs' = <<>>

Refreshed ==
    /\ live.state = "refreshing" /\ Head(jobs).done
    /\ live' = [live EXCEPT !.state = "watching", !.ok = Answered(Head(jobs)), !.latest = Published]
    /\ jobs' = <<>>

\* The last consumer is gone, or the socket is and its heads are read.
LiveEnds ==
    /\ live.state = "watching"
    /\ live' = [live EXCEPT !.state = IF live.heads = <<>> /\ ~socket.up THEN "silent" ELSE "closed"]
    /\ UNCHANGED jobs

LiveNext ==
    /\ Subscribe \/ Started \/ HeadArrives \/ Woken \/ Refreshed \/ LiveEnds
    /\ UNCHANGED <<node, session, cache, immutables, proofs, proves, faults, socket, emitted, feed>>

FeedsNext ==
    \/ /\ session.follows
       /\ \/ /\ \E log \in Logs : Emit(log)
             /\ UNCHANGED faults
          \/ (Drop \/ Reconnect \/ SubscribeFeed \/ Establish \/ Forward \/ StreamEnds) /\ UNCHANGED faults
          \/ NextEvent
       /\ UNCHANGED <<node, session, cache, immutables, proofs, proves, jobs>>
    \/ session.quotes /\ LiveNext
    \/ session.quotes /\ Drop /\ UNCHANGED <<node, client>>

-----------------------------------------------------------------------------
Ours(log) == log.ours /\ log.address # "pool_manager"
Readable(log) == log.shaped /\ log.wide = {}

\* The variant of MarketEvent that a topic stands for.
NameOf(topic) ==
    CASE topic = TransferTopic -> "PositionTransferred"
      [] topic[2] = "Initialize" -> "PoolInitialized"
      [] topic[2] = "Swap" -> "PoolSwapped"
      [] topic[2] \in {"SetBeacon", "SetFeesModule", "SetFundingModule", "SetMarginRatiosModule",
                       "SetPriceImpactModule", "SetPricingModule"} -> "ModuleSet"
      [] OTHER -> topic[2]

\* A log's fixed sides agree: it is of the vocabulary or of another contract's,
\* and only the builds with a tail say of a log that it liquidates.
ASSUME LogAssumption ==
    \A log \in Logs :
        /\ log.ours = ~NotOurs(log)
        /\ log.liquidation \in BOOLEAN /\ (log.liquidation => log.topic \in Tailed)

\* Between its subscription and its end a feed has no hole: what a consumer
\* has been given is every log of the vocabulary its addresses emitted, in
\* order, one result each, and an error only for a log that cannot be read;
\* the end comes only after them all (feeds/market.rs next_decoded and
\* next_stamped, transport/ws.rs subscribe_logs).
FeedHasNoHoles ==
    LET due == {p \in (feed.from + 1)..feed.at : Ours(emitted[p])} IN
    /\ \A k \in DOMAIN feed.yields :
        LET log == emitted[feed.yields[k].log]
            gives == feed.yields[k].gives
        IN
        /\ feed.yields[k].log \in due
        /\ \A p \in due : p < feed.yields[k].log => \E j \in 1..(k - 1) : feed.yields[j].log = p
        /\ \A j \in 1..(k - 1) : feed.yields[j].log < feed.yields[k].log
        /\ IF "event" \in DOMAIN gives
           THEN gives = Event(NameOf(log.topic), log.liquidation)
           ELSE ~Readable(log) \/ (gives = Failure("header") /\ ~log.timestamped)
    /\ feed.state = "lost" => due \subseteq {feed.yields[k].log : k \in DOMAIN feed.yields}

\* A live market that waits with nothing queued, its last refresh good, holds
\* a whole snapshot that is no further behind the last head it was told of
\* than the snapshot lag and one replica: no head told during a refresh is
\* lost to the draining of the backlog (feeds/taker.rs subscribe).
LiveMarketKeepsUp ==
    live.state = "watching" /\ live.ok =>
        /\ live.latest.whole
        /\ live.heads = <<>> /\ live.told > live.since =>
                live.latest.block[1] + SnapshotLag + Behind >= live.told
=============================================================================
