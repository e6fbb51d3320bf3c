-------------------------- MODULE MCMarketSession --------------------------
(***************************************************************************)
(* A pool whose root price doubles every four ticks, at 256 units to one.   *)
(***************************************************************************)
EXTENDS MarketSession

Ratios == <<3444, 2896, 2048>>

BandEdges == {-4, 0, 3}

TradeSizes == {-35, 45}

OddPortions == <<3, 1, 3>>

EmaDecay == <<50>>

Rates == {[funding |-> f, util |-> [side \in Sides |-> 12]] : f \in {210, -170}}

Symmetry == Permutations(Makers)
=============================================================================
