----------------------------- MODULE TradeCalls -----------------------------
(***************************************************************************)
(* What a PerpClient sends (client/trades.rs), the liquidations a reader   *)
(* builds (client/market.rs), what the contracts do with them (external),  *)
(* and what the client reads out of a receipt's logs.                      *)
(***************************************************************************)
EXTENDS ClientChain, Integers

CONSTANTS MinOpeningMargin,  \* MIN_OPENING_MARGIN
          TickSpacing        \* TICK_SPACING

Legacy == "legacy"
Upgradeable == "upgradeable"
Zero == "zero"          \* the zero address
MaxApproval == 2        \* any amount a trade can take

-----------------------------------------------------------------------------
(* What a caller gives, and the calldata it becomes.  Margins other than   *)
(* the opening one, and slippage limits, are left out.                     *)

OpenTakerParams(margin, delta) == [margin |-> margin, delta |-> delta]
OpenMakerParams(margin, lower, upper, liquidity) ==
    [margin |-> margin, lower |-> lower, upper |-> upper, liquidity |-> liquidity]
AdjustTakerParams(id, delta) == [id |-> id, delta |-> delta]
AdjustMakerParams(id, liquidity) == [id |-> id, liquidity |-> liquidity]

OpenTaker(margin, delta) == [kind |-> "open_taker", margin |-> margin, delta |-> delta]
OpenMaker(margin, ticks, liquidity) ==
    [kind |-> "open_maker", margin |-> margin, ticks |-> ticks, liquidity |-> liquidity]
AdjustTaker(id, delta) == [kind |-> "adjust_taker", id |-> id, delta |-> delta]
AdjustMaker(id, liquidity) == [kind |-> "adjust_maker", id |-> id, liquidity |-> liquidity]
Liquidate(role, id, amount) == [kind |-> "liquidate", role |-> role, id |-> id, amount |-> amount]
Transfer(id, to) == [kind |-> "transfer", id |-> id, to |-> to]
Approve == [kind |-> "approve"]
Pay == [kind |-> "pay"]

Send(tx) == [call |-> "send", part |-> <<>>, tx |-> tx]
Simulate(tx) == [call |-> "preflight", part |-> <<>>, tx |-> tx]

\* A band's edges go out to the grid: the lower down, the upper up.
AlignTickDown(tick) == (tick \div TickSpacing) * TickSpacing
AlignTickUp(tick) == AlignTickDown(tick + TickSpacing - 1)

ClosingPerpDelta(position) == -position.delta

Size(role, position) ==
    IF role = "maker" THEN position.liquidity
    ELSE IF position.delta < 0 THEN -position.delta ELSE position.delta

SizeRead(role, id) == IF role = "maker" THEN At("maker_details", id) ELSE At("position", id)

\* A call refused before anything is asked.
Invalid(op, params) ==
    \/ op \in {"open_taker", "open_maker"} /\ params.margin < MinOpeningMargin
    \/ op = "open_maker" /\ AlignTickDown(params.lower) >= AlignTickUp(params.upper)
    \/ op \in {"liquidate", "simulate_liquidation"} /\ params.recipient = Zero
    \/ op = "transfer_position" /\ params.to \in {Zero, Holder}

\* liquidation_calldata: the whole position, which the upgradeable era spells
\* out in an amount read at the head.
LiquidationSteps(params, held, sends) ==
    LET size == SizeRead(params.role, params.id)
        last(call) == IF sends THEN Send(call) ELSE Simulate(call)
    IN
    <<{R("pool_id"), R("pool_key")}>> \o
    (IF ~Holds(held, R("pool_key")) THEN <<>>
     ELSE IF Got(held, R("pool_key")) = Legacy THEN <<{last(Liquidate(params.role, params.id, "whole"))}>>
     ELSE IF ~Holds(held, size) THEN <<{size}>>
     ELSE <<{size}, {last(Liquidate(params.role, params.id, Size(params.role, Got(held, size))))}>>)

OpenTakerExact(params) == <<{Send(OpenTaker(params.margin, params.delta))}>>
OpenMakerExact(params) ==
    <<{Send(OpenMaker(params.margin, {AlignTickDown(params.lower), AlignTickUp(params.upper)}, params.liquidity))}>>
SendAdjustTaker(params) == <<{Send(AdjustTaker(params.id, params.delta))}>>
AdjustMakerExact(params) == <<{Send(AdjustMaker(params.id, params.liquidity))}>>

CloseTaker(params, held) ==
    LET read == At("position", params.id) IN
    <<{read}>> \o (IF Holds(held, read)
                   THEN <<{Send(AdjustTaker(params.id, ClosingPerpDelta(Got(held, read))))}>> ELSE <<>>)
CloseMaker(params) == <<{Send(AdjustMaker(params.id, -params.liquidity))}>>
SendLiquidation(params, held) == LiquidationSteps(params, held, TRUE)
SimulateLiquidation(params, held) == LiquidationSteps(params, held, FALSE)
EnsureApproval(params, held) ==
    <<{R("allowance")}>> \o (IF Holds(held, R("allowance")) /\ Got(held, R("allowance")) < params.amount
                            THEN <<{Send(Approve)}>> ELSE <<>>)
TransferPosition(params) == <<{At("owner_of", params.id)}, {Send(Transfer(params.id, params.to))}>>

TradeSteps(op, params, held) ==
    CASE op = "open_taker" -> OpenTakerExact(params)
      [] op = "open_maker" -> OpenMakerExact(params)
      [] op = "adjust_taker" -> SendAdjustTaker(params)
      [] op = "close_taker" -> CloseTaker(params, held)
      [] op = "adjust_maker" -> AdjustMakerExact(params)
      [] op = "close_maker" -> CloseMaker(params)
      [] op = "liquidate" -> SendLiquidation(params, held)
      [] op = "simulate_liquidation" -> SimulateLiquidation(params, held)
      [] op = "transfer_position" -> TransferPosition(params)
      [] op = "transfer_usdc" -> <<{Send(Pay)}>>
      [] op = "ensure_approval" -> EnsureApproval(params, held)

\* What a read turns the call away with.
TurnsAway(op, request, value) ==
    \/ op = "close_taker" /\ request.call = "position" /\ ~Exists(value)
    \/ op \in {"liquidate", "simulate_liquidation"} /\ request.call = "position" /\ Size("taker", value) = 0
    \/ op \in {"liquidate", "simulate_liquidation"} /\ request.call = "maker_details" /\ Size("maker", value) = 0
    \/ op = "transfer_position" /\ request.call = "owner_of" /\ value # Holder

-----------------------------------------------------------------------------
(* The contracts: a transaction by `from` at a market state either reverts *)
(* or leaves a state and logs.                                             *)

Log(name, topics, from, id, delta) ==
    [name |-> name, topics |-> topics, from |-> from, id |-> id, delta |-> delta]
PaidIn(from) == Log("Transfer", 3, from, 0, 0)
Minted(id) == Log("Transfer", 4, Zero, id, 0)

Reverts(tx, from, w) ==
    CASE tx.kind \in {"open_taker", "open_maker"} -> w.allowance < tx.margin
      [] tx.kind = "adjust_taker" ->
            LET p == w.positions[tx.id] IN p.owner # from \/ p.liquidity # 0 \/ p.delta = 0
      [] tx.kind = "adjust_maker" ->
            LET p == w.positions[tx.id] IN p.owner # from \/ p.liquidity = 0 \/ p.liquidity + tx.liquidity < 0
      [] tx.kind = "liquidate" ->
            LET size == Size(tx.role, w.positions[tx.id]) IN
            \/ size = 0
            \/ tx.role = "taker" /\ w.positions[tx.id].liquidity # 0
            \/ w.era = Upgradeable /\ tx.amount > size
      [] tx.kind = "transfer" -> w.positions[tx.id].owner # from
      [] OTHER -> FALSE

Moved(w, id, position) == [w EXCEPT !.positions[id] = position]

Minting(w, position, log, from) ==
    [world |-> [w EXCEPT !.positions = Append(@, position)],
     logs |-> <<PaidIn(from), Minted(NextPosId(w)), log>>]

Execute(tx, from, w) ==
    CASE tx.kind = "open_taker" ->
            Minting(w, [Gone EXCEPT !.delta = tx.delta, !.margin = tx.margin, !.owner = from],
                    Log("TakerOpened", 3, from, NextPosId(w), tx.delta), from)
      [] tx.kind = "open_maker" ->
            Minting(w, [Gone EXCEPT !.margin = tx.margin, !.liquidity = tx.liquidity, !.ticks = tx.ticks, !.owner = from],
                    Log("MakerOpened", 3, from, NextPosId(w), 0), from)
      [] tx.kind = "adjust_taker" ->
            LET p == w.positions[tx.id] IN
            IF p.delta + tx.delta = 0
            THEN [world |-> Moved(w, tx.id, Gone), logs |-> <<Log("TakerClosed", 3, from, tx.id, tx.delta)>>]
            ELSE [world |-> Moved(w, tx.id, [p EXCEPT !.delta = @ + tx.delta]),
                  logs |-> <<Log("TakerAdjusted", 3, from, tx.id, tx.delta)>>]
      [] tx.kind = "adjust_maker" ->
            LET p == w.positions[tx.id] IN
            [world |-> Moved(w, tx.id, IF p.liquidity + tx.liquidity = 0 THEN Gone
                                       ELSE [p EXCEPT !.liquidity = @ + tx.liquidity]),
             logs |-> <<Log("MakerAdjusted", 3, from, tx.id, 0)>>]
      [] tx.kind = "liquidate" ->
            LET p == w.positions[tx.id]
                taken == IF w.era = Legacy THEN Size(tx.role, p) ELSE tx.amount
                left == Size(tx.role, p) - taken
            IN [world |-> Moved(w, tx.id,
                    IF left = 0 THEN Gone
                    ELSE IF tx.role = "maker" THEN [p EXCEPT !.liquidity = left]
                    ELSE [p EXCEPT !.delta = IF @ < 0 THEN -left ELSE left]),
                logs |-> <<Log("Liquidated", 3, from, tx.id, 0)>>]
      [] tx.kind = "transfer" -> [world |-> Moved(w, tx.id, [w.positions[tx.id] EXCEPT !.owner = tx.to]),
                                  logs |-> <<Log("Transfer", 4, from, tx.id, 0)>>]
      [] tx.kind = "approve" -> [world |-> [w EXCEPT !.allowance = MaxApproval], logs |-> <<>>]
      [] tx.kind = "pay" -> [world |-> w, logs |-> <<PaidIn(from)>>]

-----------------------------------------------------------------------------
(* The receipt, read back.                                                 *)

\* The first of the logs at those places, if there is one.
FirstOf(logs, places) ==
    IF places = {} THEN [found |-> FALSE]
    ELSE [found |-> TRUE, log |-> logs[CHOOSE i \in places : \A j \in places : i <= j]]

ParseMintedTokenId(logs) ==
    FirstOf(logs, {i \in DOMAIN logs : /\ logs[i].topics >= 4
                                       /\ logs[i].name = "Transfer"
                                       /\ logs[i].from = Zero})
ParseTakerSwap(logs) ==
    FirstOf(logs, {i \in DOMAIN logs : logs[i].name \in {"TakerOpened", "TakerAdjusted", "TakerClosed"}})

\* Mutant: any taker event is taken for the close.
ClosesTaker_Any(logs, id) == ParseTakerSwap(logs).found

ClosesTaker(logs, id) == \E i \in DOMAIN logs : logs[i].name = "TakerClosed" /\ logs[i].id = id

Opens == {"open_taker", "open_maker"}

\* A mined trade that is refused for what its logs do not say.
NotAsTold(op, params, logs) ==
    CASE op = "open_taker" -> ~ParseMintedTokenId(logs).found \/ ~ParseTakerSwap(logs).found
      [] op = "open_maker" -> ~ParseMintedTokenId(logs).found
      [] op = "adjust_taker" -> ~ParseTakerSwap(logs).found
      [] op = "close_taker" -> ~ClosesTaker(logs, params.id) \/ ~ParseTakerSwap(logs).found
      [] OTHER -> FALSE

-----------------------------------------------------------------------------
(* The errors of a send, by variant, and what a caller asks of them.       *)

\* Before a node was given the transaction: "Rpc" is a resync's count.
UnsentErrors == {"Rpc", "NonceDesynced", "SimulationReverted", "SimulationFailed",
                 "GasUnavailable", "TooManyInFlight", "SigningFailed"}
UnconfirmedErrors == {"BroadcastFailed", "ReceiptTimeout"}
MinedErrors == {"Reverted", "OutOfGas", "TakerNotClosed"}
TransactionErrors == UnsentErrors \cup UnconfirmedErrors \cup MinedErrors

IsUnconfirmed(error) == error \in UnconfirmedErrors
HasTxHash(error) == error \in UnconfirmedErrors \cup MinedErrors

\* StorageReadFailed with a transport source is "Rpc" here.
IsTransient(error) ==
    \/ error \in {"Rpc", "BlockUnavailable", "GasUnavailable", "NonceDesynced", "TooManyInFlight", "TakerNotClosed"}
    \/ IsUnconfirmed(error)
=============================================================================
