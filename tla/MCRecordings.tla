---------------------------- MODULE MCRecordings ----------------------------
(***************************************************************************)
(* Blocks of up to three logs: of the first market's perp, its pool and    *)
(* its beacon, which the second market shares; of the second market and    *)
(* its pool; of another vocabulary; that will not decode; and transfers,   *)
(* to the recipients asked for and to others.                              *)
(***************************************************************************)
EXTENDS Recordings

LogAt(at, pool, says, to, about, tx) ==
    [at |-> at, pool |-> pool, says |-> says, to |-> to, about |-> about, tx |-> tx]

Event(perp, tx) == LogAt(perp, None, "event", None, {perp}, tx)
Other(perp, tx) == LogAt(perp, None, "other", None, {perp}, tx)
Bad(perp, tx) == LogAt(perp, None, "garbled", None, {perp}, tx)
PoolSwap(perp, tx) == LogAt("manager", PoolOf(perp), "event", None, {perp}, tx)
Donation(perp, tx) == LogAt("manager", PoolOf(perp), "other", None, {}, tx)
IndexPrint(tx) == LogAt("beacon", None, "event", None, Perps, tx)
BadPrint(tx) == LogAt("beacon", None, "garbled", None, Perps, tx)
Transfer(to, tx) == LogAt("token", None, "event", to, {to}, tx)

BlockContents ==
    { <<>>,
      <<Event("perp1", 1), PoolSwap("perp1", 1), Transfer("recipient", 2)>>,
      <<PoolSwap("perp2", 1), IndexPrint(2), Other("perp1", 3), Transfer("stranger", 3)>>,
      <<Bad("perp1", 1), Event("perp2", 1), Donation("perp1", 2), BadPrint(2), Event("perp1", 2)>> }
=============================================================================
