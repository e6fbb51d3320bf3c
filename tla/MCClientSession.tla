--------------------------- MODULE MCClientSession ---------------------------
EXTENDS ClientSession

Taker(delta) == [delta |-> delta, margin |-> 1, liquidity |-> 0, ticks |-> {}, owner |-> Holder]
Maker(liquidity, ticks) == [delta |-> 0, margin |-> 1, liquidity |-> liquidity, ticks |-> ticks, owner |-> "other"]

World(version, governed, fees, beacon, index, positions) ==
    [version |-> version, governed |-> governed, fees |-> fees, beacon |-> beacon,
     index |-> index, positions |-> positions, allowance |-> 0, era |-> Upgradeable]

Quiet == <<Gone>>
Crowded == <<Taker(1), Maker(1, {1, 2}), Maker(2, {2, 3})>>
Turned == <<Gone, Maker(1, {1, 2}), Taker(1)>>

CachedWorlds == {World(v, 1, 1, 1, 1, Quiet) : v \in 1..2}
GovernedWorlds == {World(1, governed, 1, 1, 1, Quiet) : governed \in 1..2}
PinnedWorlds == {World(1, 1, 1, 1, 1, Crowded), World(2, 1, 1, 1, 1, Turned), World(3, 1, 1, 0, 0, Crowded)}

Session(ops, calls, overlap, worlds, ticks, reorganizes) ==
    [ops |-> ops, calls |-> calls, head |-> 4, overlap |-> overlap, worlds |-> worlds, invalidates |-> ticks,
     ticks |-> ticks, reorganizes |-> reorganizes,
     trades |-> FALSE, follows |-> FALSE, quotes |-> FALSE, manages |-> FALSE, measures |-> FALSE]

CachedSessions ==
    {[Session({op}, 2, op = "balance", CachedWorlds, TRUE, FALSE) EXCEPT !.head = 5] :
        op \in {"balance", "pool_price", "funding_rate"}}
    \cup {Session({"get_config"}, 2, FALSE, GovernedWorlds, TRUE, FALSE)}

PinnedSessions ==
    {Session({op}, 1, FALSE, PinnedWorlds, FALSE, TRUE) :
        op \in StateReads \cup {"get_snapshot", "tape_addresses", "get_position", "get_positions_by_owner"}}

\* A wallet's taker and maker, and a stranger's.
TradedWorld(era, allowance) ==
    [World(1, 1, 1, 1, 1, <<Taker(2), [Maker(1, {2, 4}) EXCEPT !.owner = Holder]>>)
        EXCEPT !.allowance = allowance, !.era = era]

MCCalls ==
    {[op |-> "open_taker", params |-> OpenTakerParams(m, 1)] : m \in {0, 1}}
    \cup {[op |-> "open_maker", params |-> OpenMakerParams(1, 3, u, 1)] : u \in {2, 5}}
    \cup {[op |-> "adjust_taker", params |-> AdjustTakerParams(1, delta)] : delta \in {-1, 0}}
    \cup {[op |-> "close_taker", params |-> [id |-> 1]]}
    \cup {[op |-> op, params |-> AdjustMakerParams(2, 1)] : op \in {"adjust_maker", "close_maker"}}
    \cup {[op |-> op, params |-> [role |-> role, id |-> IF role = "taker" THEN 1 ELSE 2, recipient |-> Holder]] :
            op \in {"liquidate", "simulate_liquidation"}, role \in {"taker", "maker"}}
    \cup {[op |-> "liquidate", params |-> [role |-> "taker", id |-> 1, recipient |-> Zero]]}
    \cup {[op |-> "transfer_position", params |-> [id |-> 1, to |-> to]] : to \in {"other", Holder}}
    \cup {[op |-> "transfer_usdc", params |-> << >>]}
    \cup {[op |-> "ensure_approval", params |-> [amount |-> 1]]}

\* The wallet from another process, and a liquidator.
MCTheirs ==
    {[tx |-> AdjustTaker(1, delta), from |-> Holder] : delta \in {-2, -1}}
    \cup {[tx |-> Liquidate("taker", 1, 1), from |-> "other"], [tx |-> Transfer(1, "other"), from |-> Holder]}

Trading(ops, calls, era, allowance, head) ==
    [Session(ops, calls, TRUE, {TradedWorld(era, allowance)}, FALSE, FALSE)
        EXCEPT !.trades = TRUE, !.head = head]

TradingSessions ==
    {Trading({"close_taker", "ensure_approval"}, 2, Upgradeable, 0, 6)}
    \cup {Trading({"open_taker", "ensure_approval"}, 2, Upgradeable, 0, 6)}
    \cup {Trading({call.op : call \in MCCalls}, 1, era, 2, 6) : era \in {Legacy, Upgradeable}}

Idle == Session({}, 0, FALSE, {World(1, 1, 1, 1, 1, Quiet)}, FALSE, FALSE)

FollowingSessions == {[Idle EXCEPT !.follows = TRUE]}
QuotingSessions == {[Session({}, 1, FALSE, {World(1, 1, 1, 1, 1, Crowded)}, FALSE, FALSE) EXCEPT !.quotes = TRUE, !.head = 6]}
ManagingSessions == {[Idle EXCEPT !.manages = TRUE], [Idle EXCEPT !.measures = TRUE]}

PerpLog(build, event) ==
    [topic |-> <<build, event>>, topics |-> 2, shaped |-> TRUE, wide |-> {}, liquidation |-> FALSE,
     timestamped |-> TRUE, address |-> "perp", ours |-> TRUE]

\* A liquidating close; a v0.2.2 close with no timestamp; a word too wide, on
\* an event that narrows it; an NFT transfer of the wrong shape; an ERC20
\* transfer; an event outside the vocabulary; the beacon's; the pool's.
MCLogs ==
    {[PerpLog("Perp", "TakerClosed") EXCEPT !.liquidation = TRUE],
     [PerpLog("PerpV022", "TakerClosed") EXCEPT !.timestamped = FALSE],
     [PerpLog("Perp", "MakerClosed") EXCEPT !.wide = {"long_util_fees"}],
     [PerpLog("Perp", "Transfer") EXCEPT !.topics = 4, !.shaped = FALSE],
     [PerpLog("Perp", "Transfer") EXCEPT !.topics = 3, !.shaped = FALSE, !.ours = FALSE],
     [PerpLog("Perp", "Approval") EXCEPT !.ours = FALSE],
     [PerpLog("IBeacon", "IndexUpdated") EXCEPT !.address = "beacon"],
     [PerpLog("IPoolManagerState", "Swap") EXCEPT !.address = "pool_manager"]}

Managed(id, perp, is_long, stop_loss, take_profit, pct) ==
    [id |-> id, perp |-> perp, is_long |-> is_long, stop_loss |-> stop_loss,
     take_profit |-> take_profit, pct |-> pct, anchor |-> Off]

\* One id in two markets, a long and a short, trailing or not.
MCTracked ==
    {Managed(1, "a", long, Off, Off, pct) : long \in BOOLEAN, pct \in {Off, 1, 2}}
    \cup {Managed(1, "b", FALSE, 3, 1, 1), Managed(2, "a", TRUE, 1, 4, 1)}
MCPrices == 1..4

MCSessions ==
    CachedSessions \cup PinnedSessions \cup TradingSessions
    \cup FollowingSessions \cup QuotingSessions \cup ManagingSessions

MCAsked == <<3, 2, 1>>
=============================================================================
