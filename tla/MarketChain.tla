---------------------------- MODULE MarketChain -----------------------------
(***************************************************************************)
(* A market on the chain, external to the repository: the contract state   *)
(* the pinned reads answer from, and the events each transaction leaves on *)
(* the tape, in the order the folds and their tests expect of the live     *)
(* builds.  A deposit is transferred before a swap's fees leave, a         *)
(* withdrawal after them, a liquidation's fee after its close; fees leave  *)
(* the margin total silently and repay bad debt first; a donation and a    *)
(* bad-debt booking move the margin total silently.                        *)
(***************************************************************************)
EXTENDS Replay, TLC

CONSTANTS Wallets,      \* who can hold a position
          Highest,      \* the pool price a buy leaves
          Lowest,       \* and a sale
          TickOf(_),    \* the tick of a pool price
          Band          \* the range a band is opened in

OtherFees == 2   \* a swap's protocol and creator fees
Insurance == 1   \* and its insurance fee
Consumed  == 1   \* the insurance a bad-debt booking consumes
Deposit   == 20

\* An operation's effect: the contract after it, the events it emits.
Does(c, events) == [c |-> c, events |-> events]
Then(d, Op(_)) == LET next == Op(d.c) IN Does(next.c, d.events \o next.events)

\* MarginTransferred: the total moves and is stated.
Transfers(c, delta) ==
    Does([c EXCEPT !.margin = @ + delta],
         <<[kind |-> "MarginTransferred", delta |-> delta, total |-> c.margin + delta]>>)

\* A taker's swap: the price, the tick if it moved, the open interest, the
\* fees silently out of the margin total, and what insurance repaid.
Swaps(c, perp, price) ==
    LET repaid == IF c.debt > 0 THEN Insurance ELSE 0
        interest == c.interest + perp
        crossed == IF TickOf(price) = c.tick THEN <<>>
                   ELSE <<[kind |-> "TicksCrossed", ending |-> TickOf(price)]>>
    IN  Does([c EXCEPT !.price = price, !.tick = TickOf(price), !.interest = interest,
                       !.debt = @ - repaid, !.margin = @ - (OtherFees + Insurance - repaid)],
             <<[kind |-> "PoolSwapped", price |-> price]>> \o crossed
             \o <<[kind |-> "OpenInterestUpdated", interest |-> interest]>>)

SwapInfo(perp, price) ==
    [perp |-> perp, usd |-> -(perp * price), price |-> price,
     fees |-> OtherFees, insurance |-> Insurance]

\* The position named by an event, its row changed or gone.
Names(c, id, kind, row, swap, liquidation) ==
    Does([c EXCEPT !.positions = IF row = None THEN Restrict(@, DOMAIN @ \ {id})
                                 ELSE Put(@, id, [row EXCEPT !.margin = @ + 1])],
         <<[kind |-> kind, pos |-> id, swap |-> swap, liquidation |-> liquidation]>>)

Hands(c, id, to) ==
    Does([c EXCEPT !.owner = IF to = Zero THEN Restrict(@, DOMAIN @ \ {id}) ELSE Put(@, id, to)],
         <<[kind |-> "PositionTransferred", pos |-> id, to |-> to]>>)

\* What the chain holds of a liquidation: the record the tape should carry.
Liquidated(c, id, after) ==
    IF \E l \in c.liquidated : l.tx = c.tx /\ l.mark.pos = id THEN c
    ELSE [c EXCEPT !.liquidated = @ \cup
            {[tx |-> c.tx, mark |-> [pos |-> id, before |-> c.priceBefore, after |-> after,
                                     index |-> c.index]]}]

-----------------------------------------------------------------------------
(* Takers.                                                                 *)

Legs(c, id, perp, price) == Plus(c.positions[id].legs, <<perp, -(perp * price)>>)
Takers(c) == {id \in DOMAIN c.positions : c.positions[id].kind = "Taker"}

OpenTaker(c, wallet, perp, price) ==
    LET id == c.next
        row == [kind |-> "Taker", legs |-> <<perp, -(perp * price)>>, range |-> None,
                liquidity |-> 0, margin |-> 0]
        minted == Then(Hands([c EXCEPT !.next = @ + 1], id, wallet),
                       LAMBDA d : Transfers(d, Deposit))
        swapped == Then(minted, LAMBDA d : Swaps(d, perp, price))
    IN  Then(swapped, LAMBDA d : Names(d, id, "TakerOpened", row, SwapInfo(perp, price), FALSE))

\* A deposit is transferred before the swap's fees leave, anything else after.
AdjustTaker(c, id, perp, price, delta) ==
    LET row == [c.positions[id] EXCEPT !.legs = Legs(c, id, perp, price)]
        moved == IF delta > 0
                 THEN Then(Transfers(c, delta), LAMBDA d : Swaps(d, perp, price))
                 ELSE Then(Swaps(c, perp, price), LAMBDA d : Transfers(d, delta))
    IN  Then(moved, LAMBDA d : Names(d, id, "TakerAdjusted", row, SwapInfo(perp, price), FALSE))

CloseTaker(c, id, price) ==
    LET perp == -c.positions[id].legs[1]
        paid == Then(Swaps(c, perp, price), LAMBDA d : Transfers(d, -5))
        closed == Then(paid, LAMBDA d :
                        Names(d, id, "TakerClosed", None, SwapInfo(perp, price), FALSE))
    IN  Then(closed, LAMBDA d : Hands(d, id, Zero))

\* On one build the close says it is a liquidation; on the other a
\* dedicated event after the close, or after a partial close, does.
LiquidateTaker(c, id, perp, price, dedicated) ==
    LET whole == perp = -c.positions[id].legs[1]
        row == IF whole THEN None ELSE [c.positions[id] EXCEPT !.legs = Legs(c, id, perp, price)]
        kind == IF whole THEN "TakerClosed" ELSE "TakerAdjusted"
        swapped == Swaps(Liquidated(c, id, price), perp, price)
        closed == Then(swapped, LAMBDA d :
                        Names(d, id, kind, row, SwapInfo(perp, price), whole /\ ~dedicated))
        said == IF dedicated
                THEN Does(closed.c, Append(closed.events, [kind |-> "TakerLiquidated", pos |-> id,
                                                           liquidation |-> TRUE]))
                ELSE closed
        paid == Then(said, LAMBDA d : Transfers(d, -2))
    IN  IF whole THEN Then(paid, LAMBDA d : Hands(d, id, Zero)) ELSE paid

\* A liquidation whose margin does not cover its loss books bad debt.
BookBadDebt(c, id, price) ==
    LET perp == -c.positions[id].legs[1]
        closed == Then(Swaps(Liquidated(c, id, price), perp, price), LAMBDA d :
                        Names(d, id, "TakerClosed", None, SwapInfo(perp, price), TRUE))
        booked == Then(closed, LAMBDA d :
                    Does([d EXCEPT !.debt = @ + 3, !.margin = @ + Consumed],
                         <<[kind |-> "BadDebtAccounted", debt |-> d.debt + 3]>>))
    IN  Then(booked, LAMBDA d : Hands(d, id, Zero))

-----------------------------------------------------------------------------
(* Makers.                                                                 *)

Makers(c) == {id \in DOMAIN c.positions : c.positions[id].kind = "Maker"}

\* The PoolManager's change, and the capacity it leaves.
Modifies(c, id, delta) ==
    Does([c EXCEPT !.ticks = BandChanged(@, Band, delta), !.capacity = @ + delta],
         <<[kind |-> "ModifyLiquidity", pos |-> id, range |-> Band, delta |-> delta],
           [kind |-> "CapacityUpdated", capacity |-> c.capacity + delta]>>)

Banded(c, id, delta) ==
    [c.positions[id] EXCEPT !.liquidity = @ + delta,
                            !.legs = Plus(@, Moved(c.price, Band, delta))]

OpenMaker(c, wallet, delta) ==
    LET id == c.next
        row == [kind |-> "Maker", legs |-> Moved(c.price, Band, delta), range |-> Band,
                liquidity |-> delta, margin |-> 0]
        minted == Then(Hands([c EXCEPT !.next = @ + 1], id, wallet),
                       LAMBDA d : Transfers(d, Deposit))
        modified == Then(minted, LAMBDA d : Modifies(d, id, delta))
    IN  Then(modified, LAMBDA d : Names(d, id, "MakerOpened", row, None, FALSE))

AdjustMaker(c, id, delta) ==
    LET modified == Then(Modifies(c, id, delta), LAMBDA d : Transfers(d, delta))
    IN  Then(modified, LAMBDA d :
            Names(d, id, "MakerAdjusted", Banded(c, id, delta), None, FALSE))

\* The whole band pulled: what its changes moved is left as a taker, or
\* nothing is and the maker closes.
PullMaker(c, id, liquidation, dedicated) ==
    LET pulled == Banded(c, id, -c.positions[id].liquidity)
        left == IF pulled.legs[1] = 0 THEN None
                ELSE [pulled EXCEPT !.kind = "Taker", !.range = None]
        kind == IF left = None THEN "MakerClosed" ELSE "MakerConverted"
        marked == IF liquidation THEN Liquidated(c, id, None) ELSE c
        modified == Modifies(marked, id, -c.positions[id].liquidity)
        named == Then(modified, LAMBDA d :
                    Names(d, id, kind, left, None, liquidation /\ ~dedicated))
        said == IF liquidation /\ dedicated
                THEN Does(named.c, Append(named.events, [kind |-> "MakerLiquidated", pos |-> id,
                                                         liquidation |-> TRUE]))
                ELSE named
        paid == Then(said, LAMBDA d : Transfers(d, -2))
    IN  IF left = None THEN Then(paid, LAMBDA d : Hands(d, id, Zero)) ELSE paid

-----------------------------------------------------------------------------
(* The beacon, the touch, governance, the debt, and the NFT.               *)

Prints(c, index) ==
    Does([c EXCEPT !.index = index], <<[kind |-> "IndexUpdated", index |-> index]>>)

Touches(c) ==
    Does([c EXCEPT !.rates = @ + 1, !.emas = @ + 1, !.cumulatives = @ + 1],
         <<[kind |-> "CumulativesAccrued", cumulatives |-> c.cumulatives + 1],
           [kind |-> "RatesAndEmasRefreshed", rates |-> c.rates + 1, emas |-> c.emas + 1]>>)

SetsModule(c) ==
    Does([c EXCEPT !.module = @ + 1], <<[kind |-> "ModuleSet", module |-> c.module + 1]>>)

Donates(c) ==
    Does([c EXCEPT !.debt = @ - 1, !.margin = @ + 1], <<[kind |-> "Donated", debt |-> c.debt - 1]>>)

Socializes(c) ==
    Then(Does([c EXCEPT !.debt = @ - 1], <<[kind |-> "LossSocialized", debt |-> c.debt - 1]>>),
         LAMBDA d : Transfers(d, -1))

\* What a transaction can do from c. A buy leaves the pool at its higher
\* price and a sale at its lower one, whatever it was at.
PriceAfter(perp) == IF perp > 0 THEN Highest ELSE Lowest
Reduction(c, id) == IF c.positions[id].legs[1] > 0 THEN -1 ELSE 1
Whole(c, id) == -c.positions[id].legs[1]

TakerOps(c) ==
    {OpenTaker(c, w, perp, PriceAfter(perp)) : w \in Wallets, perp \in {2, -2}}
    \cup UNION {
        {AdjustTaker(c, id, perp, PriceAfter(perp), delta) : perp \in {1, -1} \ {Whole(c, id)}, delta \in {4, 0}}
        \cup {CloseTaker(c, id, PriceAfter(Whole(c, id))), BookBadDebt(c, id, PriceAfter(Whole(c, id)))}
        \cup {LiquidateTaker(c, id, Whole(c, id), PriceAfter(Whole(c, id)), dedicated) : dedicated \in BOOLEAN}
        \cup {LiquidateTaker(c, id, perp, PriceAfter(perp), TRUE) : perp \in {Reduction(c, id)} \ {Whole(c, id)}} :
        id \in Takers(c)}
MakerOps(c) ==
    {OpenMaker(c, w, 2) : w \in Wallets}
    \cup UNION {{AdjustMaker(c, id, delta) : delta \in {1, -1} \ {-c.positions[id].liquidity}}
                \cup {PullMaker(c, id, FALSE, FALSE)}
                \cup {PullMaker(c, id, TRUE, dedicated) : dedicated \in BOOLEAN} :
                id \in Makers(c)}
HandOps(c) ==
    UNION {{Hands(c, id, w) : w \in Wallets \ {c.owner[id]}} : id \in DOMAIN c.positions}
DebtOps(c) == IF c.debt > 0 THEN {Donates(c), Socializes(c)} ELSE {}
OtherOps(c) == {Prints(c, c.index + 1), Touches(c), SetsModule(c)}
=============================================================================
