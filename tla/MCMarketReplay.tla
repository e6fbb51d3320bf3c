--------------------------- MODULE MCMarketReplay ---------------------------
(***************************************************************************)
(* Two pool prices on either side of the opening one, each with its tick;  *)
(* a band around them; and a change of liquidity that moves one token for  *)
(* each tick between the price and either edge.                            *)
(***************************************************************************)
EXTENDS MarketReplay

Ticks(price) == 10 * price
OneBand == <<5, 25>>

TokensMoved(price, range, delta) ==
    LET clamp(t) == IF t < range[1] THEN range[1] ELSE IF t > range[2] THEN range[2] ELSE t
        tick == clamp(Ticks(price))
    IN  <<-delta * (range[2] - tick), -delta * (tick - range[1])>>

Symmetry == Permutations(Wallets)
=============================================================================
