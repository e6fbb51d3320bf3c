------------------------- MODULE ClientTradesProofs -------------------------
(***************************************************************************)
(* What a trade reports is what the chain has of it, for every chain, every *)
(* set of calls and of others' transactions, and every bound.               *)
(*                                                                         *)
(* That trades do what they report is not inductive by itself: what a      *)
(* receipt says follows from what the transaction met, that from what was  *)
(* put in the wallet's pool, and that from what the call had read; and an  *)
(* error without a hash is believed only because what is submitted is      *)
(* submitted by the one send an operation is waiting for.                  *)
(***************************************************************************)
EXTENDS ClientSessionProofs

TradeOps == {"open_taker", "open_maker", "adjust_taker", "close_taker", "adjust_maker", "close_maker",
             "liquidate", "simulate_liquidation", "transfer_position", "transfer_usdc", "ensure_approval"}

-----------------------------------------------------------------------------
(* The markets of a session's chain.                                       *)

Era == (CHOOSE w \in session.worlds : TRUE).era

SoundWorld(w) ==
    /\ IsMarket(w)
    /\ session.trades => Named \subseteq DOMAIN w.positions /\ w.era = Era /\ Era \in {Legacy, Upgradeable}

WorldsOK ==
    /\ session \in Sessions
    /\ \A w \in session.worlds : SoundWorld(w)
    /\ \A h \in DOMAIN said : SoundWorld(said[h].world)
    /\ Height >= 3

LEMMA GoneIs ==
    /\ Gone \in Positions /\ ~Exists(Gone)
    /\ Gone.delta = 0 /\ Gone.liquidity = 0
<1>1. /\ DOMAIN Gone = {"delta", "margin", "liquidity", "ticks", "owner"}
      /\ Gone.delta = 0 /\ Gone.margin = 0 /\ Gone.liquidity = 0 /\ Gone.ticks = {} /\ Gone.owner = Nobody
  BY DEF Gone
<1>2. {} \in SUBSET Int /\ Nobody \in Accounts /\ 0 \in Int /\ 0 \in Nat
  BY SessionAssumption
<1>3. [delta |-> 0, margin |-> 0, liquidity |-> 0, ticks |-> {}, owner |-> Nobody] \in Positions
  BY <1>2 DEF Positions
<1> QED
  BY <1>1, <1>3 DEF Gone, Exists

LEMMA MovedIs ==
    ASSUME NEW w, IsMarket(w), NEW id \in DOMAIN w.positions, NEW position \in Positions
    PROVE  LET after == Moved(w, id, position) IN
           /\ IsMarket(after) /\ after.era = w.era
           /\ DOMAIN after.positions = DOMAIN w.positions
           /\ after.positions[id] = position
<1> DEFINE after == Moved(w, id, position)
<1>1. /\ "positions" \in DOMAIN w /\ "allowance" \in DOMAIN w /\ "era" \in DOMAIN w
      /\ w.positions \in Seq(Positions) /\ w.allowance \in Nat
  BY DEF IsMarket
<1>2. after = [w EXCEPT !.positions = [w.positions EXCEPT ![id] = position]]
  BY <1>1 DEF Moved
<1> DEFINE placed == [w.positions EXCEPT ![id] = position]
<1>3. placed \in Seq(Positions) /\ DOMAIN placed = DOMAIN w.positions /\ placed[id] = position
  BY <1>1
<1> HIDE DEF placed, after
<1>4. after = [w EXCEPT !.positions = placed]
  BY <1>2 DEF placed
<1>5. /\ DOMAIN after = DOMAIN w /\ after.positions = placed
      /\ after.allowance = w.allowance /\ after.era = w.era
  BY <1>1, <1>4
<1> QED
  BY <1>1, <1>3, <1>5 DEF IsMarket, after

LEMMA MintingIs ==
    ASSUME NEW w, IsMarket(w), NEW position \in Positions, NEW log, NEW from
    PROVE  LET after == Minting(w, position, log, from).world IN
           /\ IsMarket(after) /\ after.era = w.era
           /\ DOMAIN w.positions \subseteq DOMAIN after.positions
           /\ NextPosId(w) \in Nat \ {0} /\ NextPosId(w) \notin DOMAIN w.positions
           /\ after.positions[NextPosId(w)] = position
<1> DEFINE after == Minting(w, position, log, from).world
           added == Append(w.positions, position)
<1>1. /\ "positions" \in DOMAIN w /\ "allowance" \in DOMAIN w /\ "era" \in DOMAIN w
      /\ w.positions \in Seq(Positions) /\ w.allowance \in Nat
  BY DEF IsMarket
<1>2. after = [w EXCEPT !.positions = added]
  BY DEF Minting
<1>3. /\ added \in Seq(Positions) /\ Len(w.positions) \in Nat
      /\ DOMAIN w.positions = 1..Len(w.positions)
      /\ DOMAIN added = 1..(Len(w.positions) + 1)
      /\ added[Len(w.positions) + 1] = position
  BY <1>1, Appended
<1>4. NextPosId(w) = Len(w.positions) + 1
  <2> DEFINE n == Len(w.positions)
  <2> HIDE DEF n
  <2>1. n \in Nat /\ DOMAIN w.positions = 1..n
    BY <1>3 DEF n
  <2>2. 1 \in Int /\ n \in Int
    BY <2>1
  <2>3. Cardinality(1..n) = IF 1 > n THEN 0 ELSE n - 1 + 1
    BY <2>2, FS_Interval
  <2>4. Cardinality(1..n) = n
    BY <2>1, <2>3
  <2> QED
    BY <2>1, <2>4 DEF NextPosId, n
<1> HIDE DEF added, after
<1>5. /\ DOMAIN after = DOMAIN w /\ after.positions = added
      /\ after.allowance = w.allowance /\ after.era = w.era
  BY <1>1, <1>2
<1> QED
  BY <1>1, <1>3, <1>4, <1>5 DEF IsMarket, after

-----------------------------------------------------------------------------
(* A transaction, anybody's.                                               *)

TxOK(tx) ==
    \/ tx.kind = "open_taker" /\ tx.margin \in Nat /\ tx.delta \in Int
    \/ tx.kind = "open_maker" /\ tx.margin \in Nat /\ tx.liquidity \in Nat /\ tx.ticks \in SUBSET Int
    \/ tx.kind = "adjust_taker" /\ tx.id \in Named /\ tx.delta \in Int
    \/ tx.kind = "adjust_maker" /\ tx.id \in Named /\ tx.liquidity \in Int
    \/ /\ tx.kind = "liquidate" /\ tx.id \in Named /\ tx.role \in Roles
       /\ Era = Upgradeable => tx.amount \in Nat
    \/ tx.kind = "transfer" /\ tx.id \in Named /\ tx.to \in Accounts
    \/ tx.kind \in {"approve", "pay"}

\* The position a transaction names, in a market where it was opened.
LEMMA NamedIs ==
    ASSUME session.trades, NEW w, SoundWorld(w), NEW id \in Named
    PROVE  /\ id \in DOMAIN w.positions /\ w.positions[id] \in Positions
           /\ w.positions[id].delta \in Int /\ w.positions[id].liquidity \in Nat
<1>1. id \in DOMAIN w.positions /\ w.positions \in Seq(Positions)
  BY DEF SoundWorld, IsMarket
<1>2. w.positions[id] \in Positions
  BY <1>1
<1> QED
  BY <1>1, <1>2 DEF Positions

LEMMA MovedWorld ==
    ASSUME session.trades, NEW w, SoundWorld(w), NEW id \in Named, NEW position \in Positions
    PROVE  SoundWorld(Moved(w, id, position)) /\ Moved(w, id, position).positions[id] = position
<1>1. IsMarket(w) /\ id \in DOMAIN w.positions
  BY NamedIs DEF SoundWorld
<1> QED
  BY <1>1, MovedIs DEF SoundWorld

LEMMA MintedWorld ==
    ASSUME session.trades, NEW w, SoundWorld(w), NEW position \in Positions, NEW log, NEW from
    PROVE  SoundWorld(Minting(w, position, log, from).world)
<1>1. IsMarket(w)
  BY DEF SoundWorld
<1> QED
  BY <1>1, MintingIs DEF SoundWorld

\* What a liquidation leaves of a position.
LEMMA LiquidationLeaves ==
    ASSUME session.trades, NEW w, SoundWorld(w), NEW id \in Named, NEW role \in Roles, NEW amount,
           Era = Upgradeable => amount \in Nat,
           ~Reverts(Liquidate(role, id, amount), Holder, w)
    PROVE  LET p == w.positions[id]
               taken == IF w.era = Legacy THEN Size(role, p) ELSE amount
           IN  /\ Size(role, p) \in Nat \ {0} /\ taken \in Nat /\ taken <= Size(role, p)
               /\ role = "taker" => p.liquidity = 0
<1> DEFINE p == w.positions[id]
<1>1. p \in Positions /\ p.delta \in Int /\ p.liquidity \in Nat
  BY NamedIs
<1>2. Size(role, p) \in Nat
  BY <1>1 DEF Size, Roles
<1>3. w.era = Era /\ Era \in {Legacy, Upgradeable}
  BY DEF SoundWorld
<1>4. /\ Size(role, p) # 0
      /\ role = "taker" => p.liquidity = 0
      /\ w.era = Upgradeable => ~(amount > Size(role, p))
  BY DEF Reverts, Liquidate
<1> QED
  BY <1>1, <1>2, <1>3, <1>4

\* A transaction that does not revert leaves a sound market.
LEMMA ExecuteKeeps ==
    ASSUME session.trades, NEW tx, TxOK(tx), NEW from \in Accounts, NEW w, SoundWorld(w),
           ~Reverts(tx, from, w)
    PROVE  SoundWorld(Execute(tx, from, w).world)
<1>1. Gone \in Positions
  BY GoneIs
<1>2. Gone.delta = 0 /\ Gone.margin = 0 /\ Gone.liquidity = 0 /\ Gone.ticks = {}
  BY DEF Gone
<1>3. CASE tx.kind = "open_taker"
  <2> DEFINE position == [Gone EXCEPT !.delta = tx.delta, !.margin = tx.margin, !.owner = from]
             log == Log("TakerOpened", 3, from, NextPosId(w), tx.delta)
  <2>1. tx.margin \in Nat /\ tx.delta \in Int
    BY <1>3 DEF TxOK
  <2>2. position \in Positions
    BY <1>1, <2>1 DEF Positions
  <2>3. Execute(tx, from, w) = Minting(w, position, log, from)
    BY <1>3 DEF Execute
  <2> HIDE DEF position, log
  <2> QED
    BY <2>2, <2>3, MintedWorld
<1>4. CASE tx.kind = "open_maker"
  <2> DEFINE position == [Gone EXCEPT !.margin = tx.margin, !.liquidity = tx.liquidity, !.ticks = tx.ticks, !.owner = from]
             log == Log("MakerOpened", 3, from, NextPosId(w), 0)
  <2>1. tx.margin \in Nat /\ tx.liquidity \in Nat /\ tx.ticks \in SUBSET Int
    BY <1>4 DEF TxOK
  <2>2. position \in Positions
    BY <1>1, <2>1 DEF Positions
  <2>3. Execute(tx, from, w) = Minting(w, position, log, from)
    BY <1>4 DEF Execute
  <2> HIDE DEF position, log
  <2> QED
    BY <2>2, <2>3, MintedWorld
<1>5. CASE tx.kind = "adjust_taker"
  <2> DEFINE p == w.positions[tx.id]
             moved == [p EXCEPT !.delta = @ + tx.delta]
  <2>1. tx.id \in Named /\ tx.delta \in Int
    BY <1>5 DEF TxOK
  <2>2. p \in Positions /\ p.delta \in Int
    BY <2>1, NamedIs
  <2>3. moved \in Positions
    BY <2>1, <2>2 DEF Positions
  <2>4. Execute(tx, from, w).world \in {Moved(w, tx.id, Gone), Moved(w, tx.id, moved)}
    BY <1>5 DEF Execute
  <2> HIDE DEF p, moved
  <2> QED
    BY <1>1, <2>1, <2>3, <2>4, MovedWorld
<1>6. CASE tx.kind = "adjust_maker"
  <2> DEFINE p == w.positions[tx.id]
             moved == [p EXCEPT !.liquidity = @ + tx.liquidity]
  <2>1. tx.id \in Named /\ tx.liquidity \in Int
    BY <1>6 DEF TxOK
  <2>2. p \in Positions /\ p.liquidity \in Nat
    BY <2>1, NamedIs
  <2>3. ~(p.liquidity + tx.liquidity < 0)
    BY <1>6 DEF Reverts
  <2>4. moved \in Positions
    BY <2>1, <2>2, <2>3 DEF Positions
  <2>5. Execute(tx, from, w).world \in {Moved(w, tx.id, Gone), Moved(w, tx.id, moved)}
    BY <1>6 DEF Execute
  <2> HIDE DEF p, moved
  <2> QED
    BY <1>1, <2>1, <2>4, <2>5, MovedWorld
<1>7. CASE tx.kind = "liquidate"
  <2> DEFINE p == w.positions[tx.id]
             taken == IF w.era = Legacy THEN Size(tx.role, p) ELSE tx.amount
             left == Size(tx.role, p) - taken
             position == IF left = 0 THEN Gone
                         ELSE IF tx.role = "maker" THEN [p EXCEPT !.liquidity = left]
                         ELSE [p EXCEPT !.delta = IF @ < 0 THEN -left ELSE left]
  <2>1. tx.id \in Named /\ tx.role \in Roles /\ (Era = Upgradeable => tx.amount \in Nat)
    BY <1>7 DEF TxOK
  <2>2. p \in Positions /\ p.delta \in Int
    BY <2>1, NamedIs
  <2>3. ~Reverts(Liquidate(tx.role, tx.id, tx.amount), Holder, w)
    BY <1>7 DEF Reverts, Liquidate
  <2>4. Size(tx.role, p) \in Nat \ {0} /\ taken \in Nat /\ taken <= Size(tx.role, p)
    BY <2>1, <2>3, LiquidationLeaves
  <2>5. left \in Nat
    BY <2>4
  <2>6. Execute(tx, from, w).world = Moved(w, tx.id, position)
    BY <1>7 DEF Execute
  <2> HIDE DEF left, p
  <2>7. [p EXCEPT !.liquidity = left] \in Positions
    BY <2>2, <2>5 DEF Positions
  <2>8. [p EXCEPT !.delta = IF @ < 0 THEN -left ELSE left] \in Positions
    <3> DEFINE delta == IF p.delta < 0 THEN -left ELSE left
    <3>1. delta \in Int
      BY <2>5
    <3>2. [p EXCEPT !.delta = IF @ < 0 THEN -left ELSE left] = [p EXCEPT !.delta = delta]
      OBVIOUS
    <3> HIDE DEF delta
    <3> QED
      BY <2>2, <3>1, <3>2 DEF Positions
  <2>9. position \in Positions
    BY <1>1, <2>7, <2>8
  <2> HIDE DEF position
  <2> QED
    BY <2>1, <2>6, <2>9, MovedWorld
<1>8. CASE tx.kind = "transfer"
  <2> DEFINE p == w.positions[tx.id]
             moved == [p EXCEPT !.owner = tx.to]
  <2>1. tx.id \in Named /\ tx.to \in Accounts
    BY <1>8 DEF TxOK
  <2>2. p \in Positions
    BY <2>1, NamedIs
  <2>3. moved \in Positions
    BY <2>1, <2>2 DEF Positions
  <2>4. Execute(tx, from, w).world = Moved(w, tx.id, moved)
    BY <1>8 DEF Execute
  <2> HIDE DEF p, moved
  <2> QED
    BY <2>1, <2>3, <2>4, MovedWorld
<1>9. CASE tx.kind = "approve"
  <2>1. Execute(tx, from, w).world = [w EXCEPT !.allowance = MaxApproval]
    BY <1>9 DEF Execute
  <2>2. MaxApproval \in Nat
    BY DEF MaxApproval
  <2> QED
    BY <2>1, <2>2 DEF SoundWorld, IsMarket
<1>10. CASE tx.kind = "pay"
  <2>1. Execute(tx, from, w).world = w
    BY <1>10 DEF Execute
  <2> QED
    BY <2>1
<1> QED
  BY <1>3, <1>4, <1>5, <1>6, <1>7, <1>8, <1>9, <1>10 DEF TxOK

-----------------------------------------------------------------------------
(* A call and the transaction it sends.                                    *)

Calling(op, how) == \E call \in Calls : call.op = op /\ call.params = how

\* Whatever the call read, its transaction is one of these.
Fits(op, how, tx) ==
    CASE op = "open_taker" -> tx = OpenTaker(how.margin, how.delta)
      [] op = "open_maker" -> tx = OpenMaker(how.margin, {AlignTickDown(how.lower), AlignTickUp(how.upper)}, how.liquidity)
      [] op = "adjust_taker" -> tx = AdjustTaker(how.id, how.delta)
      [] op = "close_taker" -> tx.kind = "adjust_taker" /\ tx.id = how.id /\ tx.delta \in Int
      [] op = "adjust_maker" -> tx = AdjustMaker(how.id, how.liquidity)
      [] op = "close_maker" -> tx = AdjustMaker(how.id, -how.liquidity)
      [] op = "liquidate" -> /\ tx.kind = "liquidate" /\ tx.role = how.role /\ tx.id = how.id
                             /\ Era = Upgradeable => tx.amount \in Nat \ {0}
      [] op = "transfer_position" -> tx = Transfer(how.id, how.to)
      [] op = "transfer_usdc" -> tx = Pay
      [] op = "ensure_approval" -> tx = Approve
      [] OTHER -> FALSE

\* What a call may be given.
LEMMA CallIs ==
    ASSUME NEW op, NEW how, Calling(op, how)
    PROVE  /\ op \in TradeOps
           /\ op = "open_taker" => how.margin \in Nat /\ how.delta \in Int
           /\ op = "open_maker" => /\ how.margin \in Nat /\ how.liquidity \in Nat
                                   /\ how.lower \in Int /\ how.upper \in Int
           /\ op \in {"adjust_taker", "close_taker", "adjust_maker", "close_maker", "liquidate",
                      "simulate_liquidation", "transfer_position"} => how.id \in Named
           /\ op = "adjust_taker" => how.delta \in Int
           /\ op \in {"adjust_maker", "close_maker"} => how.liquidity \in Int
           /\ op \in {"liquidate", "simulate_liquidation"} => how.role \in Roles
           /\ op = "transfer_position" => how.to \in Accounts
           /\ op = "ensure_approval" => how.amount \in 0..MaxApproval
<1>1. PICK call \in Calls : call.op = op /\ call.params = how
  BY DEF Calling
<1>2. call \in CallShapes
  BY SessionAssumption
<1>3. "id" \in DOMAIN how => how.id \in Named
  BY <1>1 DEF Named
<1>4. CASE call \in [op : {"open_taker"}, params : [margin : Nat, delta : Int]]
  BY <1>1, <1>4 DEF TradeOps
<1>5. CASE call \in [op : {"open_maker"}, params : [margin : Nat, lower : Int, upper : Int, liquidity : Nat]]
  BY <1>1, <1>5 DEF TradeOps
<1>6. CASE call \in [op : {"adjust_taker"}, params : [id : Nat, delta : Int]]
  BY <1>1, <1>3, <1>6 DEF TradeOps
<1>7. CASE call \in [op : {"close_taker"}, params : [id : Nat]]
  BY <1>1, <1>3, <1>7 DEF TradeOps
<1>8. CASE call \in [op : {"adjust_maker", "close_maker"}, params : [id : Nat, liquidity : Int]]
  BY <1>1, <1>3, <1>8 DEF TradeOps
<1>9. CASE call \in [op : {"liquidate", "simulate_liquidation"}, params : [role : Roles, id : Nat, recipient : Accounts]]
  BY <1>1, <1>3, <1>9 DEF TradeOps
<1>10. CASE call \in [op : {"transfer_position"}, params : [id : Nat, to : Accounts]]
  BY <1>1, <1>3, <1>10 DEF TradeOps
<1>11. CASE call \in [op : {"transfer_usdc"}, params : {<< >>}]
  BY <1>1, <1>11 DEF TradeOps
<1>12. CASE call \in [op : {"ensure_approval"}, params : [amount : 0..MaxApproval]]
  BY <1>1, <1>12 DEF TradeOps
<1> QED
  BY <1>2, <1>4, <1>5, <1>6, <1>7, <1>8, <1>9, <1>10, <1>11, <1>12 DEF CallShapes

\* A band's edges are on the grid, around what was asked.
LEMMA AlignedIs ==
    ASSUME NEW tick \in Int
    PROVE  /\ AlignTickDown(tick) \in Int /\ AlignTickDown(tick) <= tick
           /\ AlignTickUp(tick) \in Int /\ tick <= AlignTickUp(tick)
<1>1. TickSpacing \in Nat \ {0}
  BY SessionAssumption
<1>2. ASSUME NEW t \in Int
      PROVE  (t \div TickSpacing) * TickSpacing \in Int /\ (t \div TickSpacing) * TickSpacing <= t
             /\ t < (t \div TickSpacing) * TickSpacing + TickSpacing
  BY <1>1
<1>3. tick + TickSpacing - 1 \in Int
  BY <1>1
<1>4. /\ AlignTickDown(tick) = (tick \div TickSpacing) * TickSpacing
      /\ AlignTickUp(tick) = ((tick + TickSpacing - 1) \div TickSpacing) * TickSpacing
  BY DEF AlignTickDown, AlignTickUp
<1> DEFINE up == ((tick + TickSpacing - 1) \div TickSpacing) * TickSpacing
<1>5. up \in Int /\ tick + TickSpacing - 1 < up + TickSpacing
  BY <1>2, <1>3
<1> HIDE DEF up
<1>6. tick <= up
  BY <1>1, <1>5
<1> QED
  BY <1>2, <1>4, <1>5, <1>6 DEF up

\* A call's transaction is well formed, and others' are.
LEMMA FitsIs ==
    ASSUME NEW op, NEW how, Calling(op, how), NEW tx, Fits(op, how, tx)
    PROVE  TxOK(tx)
<1>1. CASE op = "open_taker"
  BY <1>1, CallIs DEF Fits, OpenTaker, TxOK
<1>2. CASE op = "open_maker"
  <2>1. /\ tx.kind = "open_maker" /\ tx.margin = how.margin /\ tx.liquidity = how.liquidity
        /\ tx.ticks = {AlignTickDown(how.lower), AlignTickUp(how.upper)}
    BY <1>2 DEF Fits, OpenMaker
  <2>2. how.lower \in Int /\ how.upper \in Int /\ how.margin \in Nat /\ how.liquidity \in Nat
    BY <1>2, CallIs
  <2>3. AlignTickDown(how.lower) \in Int /\ AlignTickUp(how.upper) \in Int
    BY <2>2, AlignedIs
  <2> QED
    BY <2>1, <2>2, <2>3 DEF TxOK
<1>3. CASE op = "adjust_taker"
  BY <1>3, CallIs DEF Fits, AdjustTaker, TxOK
<1>4. CASE op = "close_taker"
  BY <1>4, CallIs DEF Fits, TxOK
<1>5. CASE op = "adjust_maker"
  BY <1>5, CallIs DEF Fits, AdjustMaker, TxOK
<1>6. CASE op = "close_maker"
  <2>1. tx.kind = "adjust_maker" /\ tx.id = how.id /\ tx.liquidity = -how.liquidity
    BY <1>6 DEF Fits, AdjustMaker
  <2>2. how.id \in Named /\ how.liquidity \in Int
    BY <1>6, CallIs
  <2> QED
    BY <2>1, <2>2 DEF TxOK
<1>7. CASE op = "liquidate"
  BY <1>7, CallIs DEF Fits, TxOK
<1>8. CASE op = "transfer_position"
  BY <1>8, CallIs DEF Fits, Transfer, TxOK
<1>9. CASE op = "transfer_usdc"
  BY <1>9 DEF Fits, Pay, TxOK
<1>10. CASE op = "ensure_approval"
  BY <1>10 DEF Fits, Approve, TxOK
<1> QED
  BY <1>1, <1>2, <1>3, <1>4, <1>5, <1>6, <1>7, <1>8, <1>9, <1>10 DEF Fits

LEMMA TheirsIs ==
    ASSUME NEW t \in Theirs
    PROVE  TxOK(t.tx) /\ t.from \in Accounts
<1>1. t.tx \in TxShapes /\ t.from \in Accounts
  BY SessionAssumption
<1>2. "id" \in DOMAIN t.tx => t.tx.id \in Named
  BY DEF Named
<1> QED
  BY <1>1, <1>2 DEF TxShapes, TxOK

\* What a transaction of the wallet's met and left.
MinedAs(tx, met) ==
    /\ SoundWorld(met.before) /\ met.reverted = Reverts(tx, Holder, met.before)
    /\ ~met.reverted => /\ met.after = Execute(tx, Holder, met.before).world
                        /\ met.logs = Execute(tx, Holder, met.before).logs

-----------------------------------------------------------------------------
(* What a trade that was mined, and did not revert, has done.              *)

LEMMA FirstOfIs ==
    ASSUME NEW logs, NEW i \in Int, NEW places, places = {i}
    PROVE  FirstOf(logs, places).found /\ FirstOf(logs, places).log = logs[i]
<1>1. (CHOOSE k \in places : \A j \in places : k <= j) = i
  OBVIOUS
<1> QED
  BY <1>1 DEF FirstOf

LEMMA OpenDoes ==
    ASSUME session.trades, NEW op \in Opens, NEW how, Calling(op, how), NEW tx, Fits(op, how, tx),
           NEW met, MinedAs(tx, met), ~met.reverted
    PROVE  LET id == ParseMintedTokenId(met.logs).log.id IN
           /\ ParseMintedTokenId(met.logs).found
           /\ op = "open_taker" => ParseTakerSwap(met.logs).found
           /\ id = NextPosId(met.before) /\ id \notin DOMAIN met.before.positions
           /\ met.after.positions[id].owner = Holder
           /\ op = "open_maker" => met.after.positions[id].ticks = {AlignTickDown(how.lower), AlignTickUp(how.upper)}
<1> DEFINE w == met.before
           id == NextPosId(w)
           taken == [Gone EXCEPT !.delta = tx.delta, !.margin = tx.margin, !.owner = Holder]
           made == [Gone EXCEPT !.margin = tx.margin, !.liquidity = tx.liquidity, !.ticks = tx.ticks, !.owner = Holder]
           position == IF op = "open_taker" THEN taken ELSE made
           log == IF op = "open_taker" THEN Log("TakerOpened", 3, Holder, id, tx.delta)
                  ELSE Log("MakerOpened", 3, Holder, id, 0)
<1>1. TxOK(tx) /\ SoundWorld(w) /\ IsMarket(w)
  BY FitsIs DEF MinedAs, SoundWorld
<1>2. op \in {"open_taker", "open_maker"} /\ tx.kind = op
  BY DEF Opens, Fits, OpenTaker, OpenMaker
<1>3. /\ DOMAIN Gone = {"delta", "margin", "liquidity", "ticks", "owner"} /\ Gone \in Positions
  BY GoneIs DEF Gone
<1>4. Holder \in Accounts
  BY SessionAssumption
<1>5. position \in Positions
  <2>1. CASE op = "open_taker"
    <3>1. tx.margin \in Nat /\ tx.delta \in Int
      BY <1>1, <1>2, <2>1 DEF TxOK
    <3> QED
      BY <1>3, <1>4, <2>1, <3>1 DEF Positions
  <2>2. CASE op = "open_maker"
    <3>1. tx.margin \in Nat /\ tx.liquidity \in Nat /\ tx.ticks \in SUBSET Int
      BY <1>1, <1>2, <2>2 DEF TxOK
    <3> QED
      BY <1>3, <1>4, <2>2, <3>1 DEF Positions
  <2> QED
    BY <1>2, <2>1, <2>2
<1>6. position.owner = Holder /\ (op = "open_maker" => position.ticks = tx.ticks)
  BY <1>2, <1>3
<1>7. Execute(tx, Holder, w) = Minting(w, position, log, Holder)
  <2>1. CASE op = "open_taker"
    BY <1>2, <2>1 DEF Execute
  <2>2. CASE op = "open_maker"
    BY <1>2, <2>2 DEF Execute
  <2> QED
    BY <1>2, <2>1, <2>2
<1>8. log.name \in {"TakerOpened", "MakerOpened"} /\ log.topics = 3 /\ (op = "open_taker" => log.name = "TakerOpened")
  BY DEF Log
<1> HIDE DEF position, log
<1>9. /\ met.after = Minting(w, position, log, Holder).world
      /\ met.logs = <<PaidIn(Holder), Minted(id), log>>
  BY <1>7 DEF MinedAs, Minting
<1>10. /\ id \in Nat \ {0} /\ id \notin DOMAIN w.positions
       /\ met.after.positions[id] = position
  BY <1>1, <1>5, <1>9, MintingIs
<1> HIDE DEF id
<1>11. /\ DOMAIN met.logs = 1..3
       /\ met.logs[1] = PaidIn(Holder) /\ met.logs[2] = Minted(id) /\ met.logs[3] = log
  BY <1>9
<1>12. /\ PaidIn(Holder).topics = 3 /\ PaidIn(Holder).name = "Transfer"
       /\ Minted(id).topics = 4 /\ Minted(id).name = "Transfer" /\ Minted(id).from = Zero /\ Minted(id).id = id
  BY DEF PaidIn, Minted, Log
<1>13. ParseMintedTokenId(met.logs).found /\ ParseMintedTokenId(met.logs).log = Minted(id)
  <2> DEFINE places == {i \in DOMAIN met.logs : /\ met.logs[i].topics >= 4
                                                /\ met.logs[i].name = "Transfer"
                                                /\ met.logs[i].from = Zero}
  <2>1. places = {2}
    BY <1>8, <1>11, <1>12
  <2>2. ParseMintedTokenId(met.logs) = FirstOf(met.logs, places)
    BY DEF ParseMintedTokenId
  <2> HIDE DEF places
  <2>3. FirstOf(met.logs, places).found /\ FirstOf(met.logs, places).log = met.logs[2]
    BY <2>1, FirstOfIs
  <2> QED
    BY <1>11, <2>2, <2>3
<1>14. op = "open_taker" => ParseTakerSwap(met.logs).found
  <2> SUFFICES ASSUME op = "open_taker" PROVE ParseTakerSwap(met.logs).found
    OBVIOUS
  <2> DEFINE places == {i \in DOMAIN met.logs : met.logs[i].name \in {"TakerOpened", "TakerAdjusted", "TakerClosed"}}
  <2>1. places = {3}
    BY <1>8, <1>11, <1>12
  <2>2. ParseTakerSwap(met.logs) = FirstOf(met.logs, places)
    BY DEF ParseTakerSwap
  <2> HIDE DEF places
  <2>3. 3 \in Int
    OBVIOUS
  <2>4. FirstOf(met.logs, places).found
    BY <2>1, <2>3, FirstOfIs
  <2> QED
    BY <2>2, <2>4
<1>15. op = "open_maker" => tx.ticks = {AlignTickDown(how.lower), AlignTickUp(how.upper)}
  BY DEF Fits, OpenMaker
<1> QED
  BY <1>6, <1>10, <1>12, <1>13, <1>14, <1>15 DEF id

LEMMA AdjustDoes ==
    ASSUME session.trades, NEW op \in {"adjust_taker", "close_taker"}, NEW how, Calling(op, how),
           NEW tx, Fits(op, how, tx), NEW met, MinedAs(tx, met), ~met.reverted
    PROVE  /\ ParseTakerSwap(met.logs).found
           /\ ParseTakerSwap(met.logs).log.delta
                = met.after.positions[how.id].delta - met.before.positions[how.id].delta
           /\ IF ClosesTaker(met.logs, how.id) THEN ~Exists(met.after.positions[how.id])
              ELSE Exists(met.after.positions[how.id])
<1> DEFINE w == met.before
           p == w.positions[how.id]
           closed == p.delta + tx.delta = 0
           left == IF closed THEN Gone ELSE [p EXCEPT !.delta = @ + tx.delta]
           log == Log(IF closed THEN "TakerClosed" ELSE "TakerAdjusted", 3, Holder, how.id, tx.delta)
<1>1. tx.kind = "adjust_taker" /\ tx.id = how.id /\ tx.delta \in Int /\ how.id \in Named
  <2>1. CASE op = "adjust_taker"
    BY <2>1, CallIs DEF Fits, AdjustTaker
  <2>2. CASE op = "close_taker"
    BY <2>2, CallIs DEF Fits
  <2> QED
    BY <2>1, <2>2
<1>2. SoundWorld(w)
  BY DEF MinedAs
<1>3. p \in Positions /\ p.delta \in Int
  BY <1>1, <1>2, NamedIs
<1>4. Execute(tx, Holder, w).world = Moved(w, how.id, left) /\ Execute(tx, Holder, w).logs = <<log>>
  BY <1>1 DEF Execute
<1>5. left \in Positions /\ left.delta = p.delta + tx.delta /\ (closed => ~Exists(left)) /\ (~closed => Exists(left))
  <2>1. CASE closed
    BY <1>1, <1>3, <2>1, GoneIs
  <2>2. CASE ~closed
    <3>1. left = [p EXCEPT !.delta = p.delta + tx.delta] /\ p.delta + tx.delta \in Int
      BY <1>1, <1>3, <2>2
    <3>2. left \in Positions /\ left.delta = p.delta + tx.delta
      BY <1>3, <3>1 DEF Positions
    <3> QED
      BY <2>2, <3>2 DEF Exists
  <2> QED
    BY <2>1, <2>2
<1>6. /\ log.name = IF closed THEN "TakerClosed" ELSE "TakerAdjusted"
      /\ log.id = how.id /\ log.delta = tx.delta
  BY DEF Log
<1> HIDE DEF left, log
<1>7. met.after.positions[how.id] = left
  <2>1. met.after = Moved(w, how.id, left)
    BY <1>4 DEF MinedAs
  <2> QED
    BY <1>1, <1>2, <1>5, <2>1, MovedWorld
<1>8. met.logs = <<log>> /\ DOMAIN met.logs = {1} /\ met.logs[1] = log
  BY <1>4 DEF MinedAs
<1>9. ParseTakerSwap(met.logs).found /\ ParseTakerSwap(met.logs).log = log
  <2> DEFINE places == {i \in DOMAIN met.logs : met.logs[i].name \in {"TakerOpened", "TakerAdjusted", "TakerClosed"}}
  <2>1. places = {1}
    BY <1>6, <1>8
  <2>2. ParseTakerSwap(met.logs) = FirstOf(met.logs, places)
    BY DEF ParseTakerSwap
  <2> HIDE DEF places
  <2> QED
    BY <1>8, <2>1, <2>2, FirstOfIs
<1>10. ClosesTaker(met.logs, how.id) <=> closed
  BY <1>6, <1>8 DEF ClosesTaker
<1>11. tx.delta = left.delta - p.delta
  BY <1>1, <1>3, <1>5
<1> HIDE DEF p
<1>12. ParseTakerSwap(met.logs).log.delta = met.after.positions[how.id].delta - p.delta
  BY <1>6, <1>7, <1>9, <1>11
<1> QED
  BY <1>5, <1>7, <1>9, <1>10, <1>12 DEF p

LEMMA LiquidateDoes ==
    ASSUME session.trades, NEW how, Calling("liquidate", how), NEW tx, Fits("liquidate", how, tx),
           NEW met, MinedAs(tx, met), ~met.reverted
    PROVE  LET before == Size(how.role, met.before.positions[how.id])
               after == Size(how.role, met.after.positions[how.id])
           IN  /\ after < before
               /\ after = before - (IF met.before.era = Legacy THEN before ELSE tx.amount)
<1> DEFINE w == met.before
           p == w.positions[how.id]
           size == Size(how.role, p)
           taken == IF w.era = Legacy THEN size ELSE tx.amount
           left == size - taken
           position == IF left = 0 THEN Gone
                       ELSE IF how.role = "maker" THEN [p EXCEPT !.liquidity = left]
                       ELSE [p EXCEPT !.delta = IF @ < 0 THEN -left ELSE left]
<1>1. /\ tx.kind = "liquidate" /\ tx.role = how.role /\ tx.id = how.id /\ how.id \in Named /\ how.role \in Roles
      /\ Era = Upgradeable => tx.amount \in Nat \ {0}
  BY CallIs DEF Fits
<1>2. SoundWorld(w) /\ w.era = Era /\ Era \in {Legacy, Upgradeable}
  BY DEF MinedAs, SoundWorld
<1>3. p \in Positions /\ p.delta \in Int /\ p.liquidity \in Nat
  BY <1>1, <1>2, NamedIs
<1>4. ~Reverts(Liquidate(how.role, how.id, tx.amount), Holder, w)
  BY <1>1 DEF MinedAs, Reverts, Liquidate
<1>5. size \in Nat \ {0} /\ taken \in Nat /\ taken <= size
  BY <1>1, <1>2, <1>4, LiquidationLeaves
<1>6. taken # 0
  BY <1>1, <1>2, <1>5
<1>7. left \in Nat /\ left < size
  BY <1>5, <1>6
<1>8. Execute(tx, Holder, w).world = Moved(w, how.id, position)
  BY <1>1 DEF Execute
<1> HIDE DEF left, size
<1>9. position \in Positions /\ Size(how.role, position) = left
  <2>1. CASE left = 0
    <3>1. position = Gone
      BY <2>1
    <3> HIDE DEF position
    <3>2. Size(how.role, Gone) = 0
      BY GoneIs DEF Size
    <3> QED
      BY <2>1, <3>1, <3>2, GoneIs
  <2>2. CASE left # 0 /\ how.role = "maker"
    <3>1. position = [p EXCEPT !.liquidity = left]
      BY <2>2
    <3> HIDE DEF position, p
    <3>2. position \in Positions /\ position.liquidity = left
      BY <1>3, <1>7, <3>1 DEF Positions
    <3> QED
      BY <1>7, <2>2, <3>2 DEF Size
  <2>3. CASE left # 0 /\ how.role # "maker"
    <3> DEFINE delta == IF p.delta < 0 THEN -left ELSE left
    <3>1. position = [p EXCEPT !.delta = delta]
      BY <2>3
    <3>2. delta \in Int /\ (delta = left \/ delta = -left)
      BY <1>7
    <3> HIDE DEF position, p, delta
    <3>3. position \in Positions /\ position.delta = delta
      BY <1>3, <3>1, <3>2 DEF Positions
    <3> QED
      BY <1>7, <2>3, <3>2, <3>3 DEF Size
  <2> QED
    BY <2>1, <2>2, <2>3
<1> HIDE DEF position
<1>10. met.after.positions[how.id] = position
  <2>1. met.after = Moved(w, how.id, position)
    BY <1>8 DEF MinedAs
  <2> QED
    BY <1>1, <1>2, <1>9, <2>1, MovedWorld
<1>11. Size(how.role, position) \in Int /\ size \in Int
  <2>1. position.delta \in Int /\ position.liquidity \in Int
    BY <1>9 DEF Positions
  <2> QED
    BY <1>5, <2>1 DEF Size
<1>12. left = size - (IF met.before.era = Legacy THEN size ELSE tx.amount)
  BY DEF left
<1> QED
  BY <1>7, <1>9, <1>10, <1>11, <1>12 DEF size

LEMMA TransferDoes ==
    ASSUME session.trades, NEW how, Calling("transfer_position", how), NEW tx, Fits("transfer_position", how, tx),
           NEW met, MinedAs(tx, met), ~met.reverted
    PROVE  met.after.positions[how.id].owner = how.to
<1> DEFINE w == met.before
           p == w.positions[how.id]
           moved == [p EXCEPT !.owner = how.to]
<1>1. tx.kind = "transfer" /\ tx.id = how.id /\ tx.to = how.to /\ how.id \in Named /\ how.to \in Accounts
  BY CallIs DEF Fits, Transfer
<1>2. SoundWorld(w)
  BY DEF MinedAs
<1>3. p \in Positions
  BY <1>1, <1>2, NamedIs
<1>4. moved \in Positions /\ moved.owner = how.to
  BY <1>1, <1>3 DEF Positions
<1>5. met.after = Moved(w, how.id, moved)
  BY <1>1 DEF MinedAs, Execute
<1> HIDE DEF moved
<1> QED
  BY <1>1, <1>2, <1>4, <1>5, MovedWorld

LEMMA ApproveDoes ==
    ASSUME session.trades, NEW how, Calling("ensure_approval", how), NEW tx, Fits("ensure_approval", how, tx),
           NEW met, MinedAs(tx, met), ~met.reverted
    PROVE  met.after.allowance >= how.amount
<1>1. tx.kind = "approve" /\ how.amount \in 0..MaxApproval /\ MaxApproval \in Nat
  BY CallIs DEF Fits, Approve, MaxApproval
<1>2. met.after = [met.before EXCEPT !.allowance = MaxApproval] /\ "allowance" \in DOMAIN met.before
  BY <1>1 DEF MinedAs, Execute, SoundWorld, IsMarket
<1> QED
  BY <1>1, <1>2

-----------------------------------------------------------------------------
(* An operation.                                                           *)

IsTrade(job) == job.op \in TradeOps
IsCall(job) == session.trades /\ IsTrade(job) /\ Calling(job.op, job.how)

Out(job) == job.asked \cup DOMAIN job.answers
Sends(job) == {r \in Out(job) \cup DOMAIN job.held : r.call = "send"}
Sent(held) == \E r \in DOMAIN held : r.call = "send"

\* What an operation is told that it computes with.
Tells(job, r, answer) ==
    ~Failed(answer) =>
        /\ r = R("next_pos_id") => answer.value \in Nat \ {0}
        /\ IsTrade(job) => /\ r.call \in {"position", "maker_details"} => answer.value \in Positions
                           /\ r = R("pool_key") => answer.value = Era

\* What is held was not a reason to stop.
HoldsOK(job) ==
    \A r \in DOMAIN job.held :
        /\ Tells(job, r, job.held[r])
        /\ IsTrade(job) => ~Failed(job.held[r]) /\ ~Refuses(job.op, job.how, r, job.held[r].value)

ReadErrors == {"Rpc", "StateUnavailable", "BlockUnavailable", "SimulationReverted",
               "reverted", "short", "unsupported", "latched"}

ToldOK(job) ==
    \A r \in DOMAIN job.answers :
        /\ Tells(job, r, job.answers[r])
        /\ r.call # "send" /\ Failed(job.answers[r]) => job.answers[r].failed \in ReadErrors

\* A trade waits for what is due, until it is refused, and for nothing once its
\* send is answered; a read sends nothing.
WaitsOK(job) ==
    /\ job.op \in ReadOps => Sends(job) = {}
    /\ IsTrade(job) => Out(job) \subseteq Due(job)
    /\ IsTrade(job) /\ job.refused = {} => Due(job) \subseteq Out(job)
    /\ IsTrade(job) /\ Sent(job.held) => Due(job) = {}

EndsOK(job) ==
    /\ job.done => job.asked = {}
    /\ job.done /\ job.refused = {} => job.answers = << >>
    /\ \/ job.refused = {}
       \/ /\ job.done
          /\ \/ \E r \in DOMAIN job.answers : job.refused = {r} /\ Broken(job, r)
             \/ job.refused = {R("invalid")} /\ job.answers = << >> /\ job.held = << >>

WorkOK(job) ==
    /\ IsJob(job)
    /\ job.op \in ReadOps \/ IsCall(job)
    /\ job.asked \cap DOMAIN job.answers = {} /\ (job.answers # << >> => DOMAIN job.answers # {})
    /\ HoldsOK(job) /\ ToldOK(job) /\ WaitsOK(job) /\ EndsOK(job)

\* What the send of the i-th operation was answered, by what became of it.
AnswerOK(i, answer) ==
    IF Failed(answer)
    THEN \/ answer.failed \in UnconfirmedErrors
         \/ answer.failed \in UnsentErrors /\ ~Submitted(i)
         \/ answer.failed \in {"Reverted", "OutOfGas"} /\ i \in DOMAIN mined /\ mined[i].reverted
    ELSE i \in DOMAIN mined /\ ~mined[i].reverted /\ answer = Value(mined[i])

SendsOK(i, job) ==
    /\ \A r \in DOMAIN job.answers : r.call = "send" => AnswerOK(i, job.answers[r])
    /\ \A r \in DOMAIN job.held : r.call = "send" => AnswerOK(i, job.held[r])
    /\ Submitted(i) => Sends(job) # {}

JobsTrue ==
    /\ \E S : jobs \in Seq(S)
    /\ \A i \in DOMAIN jobs : WorkOK(jobs[i]) /\ SendsOK(i, jobs[i])

\* A liquidation that names an amount names the size its call has read.
Sized(job, tx) ==
    job.op = "liquidate" /\ Era = Upgradeable =>
        LET size == SizeRead(job.how.role, job.how.id) IN
        size \in DOMAIN job.held /\ tx.amount = Size(job.how.role, Got(job.held, size))

\* What is held stays as it was answered.
KeepsHeld(job, after) ==
    \A r \in DOMAIN job.held : r \in DOMAIN after.held /\ after.held[r] = job.held[r]

LEMMA SizedStays ==
    ASSUME NEW job, NEW tx, Sized(job, tx), NEW after, after.op = job.op, after.how = job.how,
           IsTrade(job) => KeepsHeld(job, after)
    PROVE  Sized(after, tx)
BY DEF Sized, KeepsHeld, IsTrade, TradeOps, Got

\* The wallet's transactions are its calls', one each.
IsFor(i, tx) == i \in DOMAIN jobs /\ Fits(jobs[i].op, jobs[i].how, tx) /\ Sized(jobs[i], tx)

PoolOK ==
    /\ \E S : pool \in Seq(S)
    /\ \A k \in DOMAIN pool :
        /\ IsFor(pool[k].job, pool[k].tx)
        /\ pool[k].job \notin DOMAIN mined
        /\ \A l \in 1..(k - 1) : pool[l].job # pool[k].job
    /\ \A i \in DOMAIN mined : \E tx : IsFor(i, tx) /\ MinedAs(tx, mined[i])
    /\ ~session.trades => pool = <<>> /\ mined = << >>

TradeInv == WorldsOK /\ JobsTrue /\ PoolOK
-----------------------------------------------------------------------------
(* The steps of a trade: what it reads, and last of all its send.          *)

TradeAsks(op, how, r) ==
    IF r.call = "send" THEN Fits(op, how, r.tx)
    ELSE r \in {R("pool_id"), R("pool_key"), R("allowance")}
         \/ r.call = "preflight"
         \/ /\ op \in {"close_taker", "liquidate", "simulate_liquidation", "transfer_position"}
            /\ r \in {At("position", how.id), At("maker_details", how.id), At("owner_of", how.id)}

FitSteps(op, how, steps) ==
    /\ IsSeq(steps)
    /\ \A i \in DOMAIN steps : \A r \in steps[i] :
        /\ TradeAsks(op, how, r)
        /\ r.call = "send" => i = Len(steps) /\ steps[i] = {r}

LEMMA FitNone ==
    ASSUME NEW op, NEW how
    PROVE  FitSteps(op, how, <<>>)
<1>1. <<>> \in Seq({}) /\ DOMAIN <<>> = {}
  OBVIOUS
<1> QED
  BY <1>1 DEF FitSteps, IsSeq

LEMMA FitOne ==
    ASSUME NEW op, NEW how, NEW r, TradeAsks(op, how, r)
    PROVE  FitSteps(op, how, <<{r}>>)
<1> DEFINE step == {r}
<1>1. IsSeq(<<step>>) /\ Len(<<step>>) = 1 /\ DOMAIN <<step>> = {1} /\ <<step>>[1] = step
  BY OneStep
<1> QED
  BY <1>1 DEF FitSteps

LEMMA FitThen ==
    ASSUME NEW op, NEW how, NEW step, NEW t, FitSteps(op, how, t),
           \A r \in step : r.call # "send" /\ TradeAsks(op, how, r)
    PROVE  FitSteps(op, how, <<step>> \o t)
<1> DEFINE s == <<step>>
<1>1. IsSeq(s) /\ Len(s) = 1 /\ DOMAIN s = {1} /\ s[1] = step
  BY OneStep
<1> HIDE DEF s
<1>2. /\ IsSeq(s \o t) /\ Len(s \o t) = Len(s) + Len(t)
      /\ Len(s) \in Nat /\ Len(t) \in Nat /\ DOMAIN s = 1..Len(s) /\ DOMAIN t = 1..Len(t)
      /\ DOMAIN (s \o t) = 1..(Len(s) + Len(t))
      /\ \A i \in 1..Len(s) : (s \o t)[i] = s[i]
      /\ \A i \in (Len(s) + 1)..(Len(s) + Len(t)) : (s \o t)[i] = t[i - Len(s)]
  <2>1. IsSeq(t)
    BY DEF FitSteps
  <2> QED
    BY <1>1, <2>1, SequencesJoin
<1>3. ASSUME NEW i \in DOMAIN (s \o t), NEW r \in (s \o t)[i]
      PROVE  /\ TradeAsks(op, how, r)
             /\ r.call = "send" => i = Len(s \o t) /\ (s \o t)[i] = {r}
  <2>1. CASE i = 1
    BY <1>1, <1>2, <1>3, <2>1
  <2>2. CASE i # 1
    <3>1. i - 1 \in DOMAIN t /\ (s \o t)[i] = t[i - 1]
      BY <1>1, <1>2, <2>2
    <3>2. TradeAsks(op, how, r) /\ (r.call = "send" => i - 1 = Len(t) /\ t[i - 1] = {r})
      BY <1>3, <3>1 DEF FitSteps
    <3> QED
      BY <1>1, <1>2, <3>1, <3>2
  <2> QED
    BY <2>1, <2>2
<1> QED
  BY <1>2, <1>3 DEF FitSteps, s

LEMMA TwoSteps ==
    ASSUME NEW a, NEW b
    PROVE  <<a>> \o <<b>> = <<a, b>>
<1>1. <<a>> \in Seq({a, b}) /\ <<b>> \in Seq({a, b}) /\ <<a, b>> \in Seq({a, b})
  OBVIOUS
<1>2. Len(<<a>>) = 1 /\ Len(<<b>>) = 1 /\ Len(<<a, b>>) = 2
      /\ <<a>>[1] = a /\ <<b>>[1] = b /\ <<a, b>>[1] = a /\ <<a, b>>[2] = b
  OBVIOUS
<1> DEFINE s == <<a>>
           t == <<b>>
           u == <<a, b>>
<1> HIDE DEF s, t, u
<1>3. /\ s \o t \in Seq({a, b}) /\ Len(s \o t) = 2
      /\ (s \o t)[1] = s[1] /\ (s \o t)[2] = t[1]
  BY <1>1, <1>2 DEF s, t
<1>4. ASSUME NEW v \in Seq({a, b}), NEW w \in Seq({a, b}), Len(v) = 2, Len(w) = 2, v[1] = w[1], v[2] = w[2]
      PROVE  v = w
  BY <1>4
<1>5. u \in Seq({a, b}) /\ Len(u) = 2 /\ u[1] = s[1] /\ u[2] = t[1]
  BY <1>1, <1>2 DEF s, t, u
<1>6. s \o t = u
  BY <1>3, <1>4, <1>5
<1> QED
  BY <1>6 DEF s, t, u

\* What a liquidation reads is the size it takes.
LEMMA LiquidationFits ==
    ASSUME NEW op \in {"liquidate", "simulate_liquidation"}, NEW how, NEW held, how.role \in Roles,
           NEW sends, sends <=> op = "liquidate",
           Era \in {Legacy, Upgradeable},
           Holds(held, R("pool_key")) => Got(held, R("pool_key")) = Era,
           LET size == SizeRead(how.role, how.id) IN
           Holds(held, size) => Size(how.role, Got(held, size)) \in Nat \ {0}
    PROVE  FitSteps(op, how, LiquidationSteps(how, held, sends))
<1> DEFINE size == SizeRead(how.role, how.id)
           last(call) == IF sends THEN Send(call) ELSE Simulate(call)
           rest == IF ~Holds(held, R("pool_key")) THEN <<>>
                   ELSE IF Got(held, R("pool_key")) = Legacy THEN <<{last(Liquidate(how.role, how.id, "whole"))}>>
                   ELSE IF ~Holds(held, size) THEN <<{size}>>
                   ELSE <<{size}, {last(Liquidate(how.role, how.id, Size(how.role, Got(held, size))))}>>
           first == {R("pool_id"), R("pool_key")}
<1>1. size.call # "send" /\ TradeAsks(op, how, size)
  BY DEF SizeRead, At, TradeAsks, Roles
<1>2. ASSUME NEW amount, Era = Upgradeable => amount \in Nat \ {0}
      PROVE  TradeAsks(op, how, last(Liquidate(how.role, how.id, amount)))
  <2>1. CASE sends
    <3>1. last(Liquidate(how.role, how.id, amount)).call = "send"
      BY <2>1 DEF Send
    <3>2. last(Liquidate(how.role, how.id, amount)).tx = Liquidate(how.role, how.id, amount)
      BY <2>1 DEF Send
    <3> QED
      BY <1>2, <2>1, <3>1, <3>2 DEF TradeAsks, Fits, Liquidate
  <2>2. CASE ~sends
    <3>1. last(Liquidate(how.role, how.id, amount)).call = "preflight"
      BY <2>2 DEF Simulate
    <3> QED
      BY <3>1 DEF TradeAsks
  <2> QED
    BY <2>1, <2>2
<1>3. FitSteps(op, how, rest)
  <2>1. CASE ~Holds(held, R("pool_key"))
    BY <2>1, FitNone
  <2>2. CASE Holds(held, R("pool_key")) /\ Got(held, R("pool_key")) = Legacy
    <3>1. Era # Upgradeable
      BY <2>2 DEF Legacy, Upgradeable
    <3>2. TradeAsks(op, how, last(Liquidate(how.role, how.id, "whole")))
      BY <1>2, <3>1
    <3> QED
      BY <2>2, <3>2, FitOne
  <2>3. CASE Holds(held, R("pool_key")) /\ Got(held, R("pool_key")) # Legacy /\ ~Holds(held, size)
    BY <1>1, <2>3, FitOne
  <2>4. CASE Holds(held, R("pool_key")) /\ Got(held, R("pool_key")) # Legacy /\ Holds(held, size)
    <3> DEFINE end == last(Liquidate(how.role, how.id, Size(how.role, Got(held, size))))
    <3>1. TradeAsks(op, how, end)
      BY <1>2, <2>4
    <3>2. rest = <<{size}, {end}>>
      BY <2>4
    <3> HIDE DEF end, size, rest
    <3>3. FitSteps(op, how, <<{end}>>)
      BY <3>1, FitOne
    <3>4. FitSteps(op, how, <<{size}>> \o <<{end}>>)
      BY <1>1, <3>3, FitThen
    <3>5. <<{size}>> \o <<{end}>> = <<{size}, {end}>>
      BY TwoSteps
    <3> QED
      BY <3>2, <3>4, <3>5
  <2> HIDE DEF rest
  <2> QED
    BY <2>1, <2>2, <2>3, <2>4
<1>4. LiquidationSteps(how, held, sends) = <<first>> \o rest
  BY DEF LiquidationSteps
<1>5. \A r \in first : r.call # "send" /\ TradeAsks(op, how, r)
  BY DEF TradeAsks, R
<1> HIDE DEF rest, first
<1> QED
  BY <1>3, <1>4, <1>5, FitThen

\* A trade is no read.
LEMMA TradesAreNoReads ==
    ASSUME NEW op \in TradeOps
    PROVE  /\ op \notin ReadOps /\ op \notin PinnedOps
           /\ \A how, held : Steps(op, how, held) = TradeSteps(op, how, held)
<1>1. op \notin ReadOps
  BY DEF TradeOps, ReadOps, HeadReads, StateReads, OneCallReads, PositionReads, BatchReads
<1>2. op \notin HeadReads \cup {"tape_addresses", "get_config", "get_position", "get_positions_by_owner", "get_snapshot"} \cup StateReads
  BY <1>1 DEF ReadOps
<1> QED
  BY <1>1, <1>2 DEF Steps, PinnedOps

\* Its steps, by what it has read.
LEMMA TradeFits ==
    ASSUME session.trades, NEW job, IsTrade(job), Calling(job.op, job.how), HoldsOK(job),
           Era \in {Legacy, Upgradeable}
    PROVE  FitSteps(job.op, job.how, TradeSteps(job.op, job.how, job.held))
<1> DEFINE op == job.op
           how == job.how
           held == job.held
<1>1. PICK o, h, d : o = op /\ h = how /\ d = held
  OBVIOUS
<1> SUFFICES FitSteps(o, h, TradeSteps(o, h, d))
  BY <1>1
<1>2. Calling(o, h) /\ o \in TradeOps
  BY <1>1 DEF IsTrade
<1>3. \A r \in DOMAIN d :
        /\ r.call \in {"position", "maker_details"} => Got(d, r) \in Positions
        /\ r = R("pool_key") => Got(d, r) = Era
        /\ ~Refuses(o, h, r, Got(d, r))
  BY <1>1 DEF HoldsOK, Tells, Got
<1>4. \A id : At("position", id).call = "position" /\ At("maker_details", id).call = "maker_details"
              /\ At("owner_of", id).call = "owner_of"
  BY DEF At
<1>5. R("allowance").call = "allowance"
  BY DEF R
<1>6. \A tx : Send(tx).call = "send" /\ Send(tx).tx = tx
  BY DEF Send
<1>7. ASSUME NEW tx, Fits(o, h, tx) PROVE FitSteps(o, h, <<{Send(tx)}>>)
  <2>1. TradeAsks(o, h, Send(tx))
    BY <1>6, <1>7 DEF TradeAsks
  <2> QED
    BY <2>1, FitOne
<1>8. CASE o = "open_taker"
  BY <1>7, <1>8 DEF TradeSteps, OpenTakerExact, Fits
<1>9. CASE o = "open_maker"
  BY <1>7, <1>9 DEF TradeSteps, OpenMakerExact, Fits
<1>10. CASE o = "adjust_taker"
  BY <1>7, <1>10 DEF TradeSteps, SendAdjustTaker, Fits
<1>11. CASE o = "adjust_maker"
  BY <1>7, <1>11 DEF TradeSteps, AdjustMakerExact, Fits
<1>12. CASE o = "close_maker"
  BY <1>7, <1>12 DEF TradeSteps, CloseMaker, Fits
<1>13. CASE o = "transfer_usdc"
  BY <1>7, <1>13 DEF TradeSteps, Fits
<1>14. CASE o = "close_taker"
  <2> DEFINE read == At("position", h.id)
             rest == IF Holds(d, read)
                     THEN <<{Send(AdjustTaker(h.id, ClosingPerpDelta(Got(d, read))))}>> ELSE <<>>
  <2>1. read.call = "position" /\ TradeAsks(o, h, read)
    BY <1>4, <1>14 DEF TradeAsks
  <2>2. FitSteps(o, h, rest)
    <3>1. CASE Holds(d, read)
      <4> DEFINE tx == AdjustTaker(h.id, ClosingPerpDelta(Got(d, read)))
      <4>1. Got(d, read) \in Positions
        BY <1>3, <2>1, <3>1 DEF Holds
      <4>2. ClosingPerpDelta(Got(d, read)) \in Int
        BY <4>1 DEF ClosingPerpDelta, Positions
      <4>3. Fits(o, h, tx)
        BY <1>14, <4>2 DEF Fits, AdjustTaker
      <4> HIDE DEF tx
      <4> QED
        BY <1>7, <3>1, <4>3 DEF tx
    <3>2. CASE ~Holds(d, read)
      BY <3>2, FitNone
    <3> QED
      BY <3>1, <3>2
  <2>3. TradeSteps(o, h, d) = <<{read}>> \o rest
    BY <1>14 DEF TradeSteps, CloseTaker
  <2> HIDE DEF rest, read
  <2> QED
    BY <2>1, <2>2, <2>3, FitThen
<1>15. CASE o = "transfer_position"
  <2> DEFINE read == At("owner_of", h.id)
             tx == Transfer(h.id, h.to)
  <2>1. read.call = "owner_of" /\ TradeAsks(o, h, read)
    BY <1>4, <1>15 DEF TradeAsks
  <2>2. FitSteps(o, h, <<{Send(tx)}>>)
    BY <1>7, <1>15 DEF Fits
  <2>3. TradeSteps(o, h, d) = <<{read}, {Send(tx)}>>
    BY <1>15 DEF TradeSteps, TransferPosition
  <2> HIDE DEF read, tx
  <2>4. TradeSteps(o, h, d) = <<{read}>> \o <<{Send(tx)}>>
    BY <2>3, TwoSteps
  <2> QED
    BY <2>1, <2>2, <2>4, FitThen
<1>16. CASE o = "ensure_approval"
  <2> DEFINE read == R("allowance")
             rest == IF Holds(d, read) /\ Got(d, read) < h.amount THEN <<{Send(Approve)}>> ELSE <<>>
  <2>1. read.call # "send" /\ TradeAsks(o, h, read)
    BY <1>5 DEF TradeAsks
  <2>2. FitSteps(o, h, rest)
    BY <1>7, <1>16, FitNone DEF Fits
  <2>3. TradeSteps(o, h, d) = <<{read}>> \o rest
    BY <1>16 DEF TradeSteps, EnsureApproval
  <2> HIDE DEF rest, read
  <2> QED
    BY <2>1, <2>2, <2>3, FitThen
<1>17. CASE o \in {"liquidate", "simulate_liquidation"}
  <2> DEFINE size == SizeRead(h.role, h.id)
  <2>1. h.role \in Roles
    BY <1>2, <1>17, CallIs
  <2>2. Holds(d, R("pool_key")) => Got(d, R("pool_key")) = Era
    BY <1>3 DEF Holds
  <2>3. Holds(d, size) => Size(h.role, Got(d, size)) \in Nat \ {0}
    <3> SUFFICES ASSUME Holds(d, size) PROVE Size(h.role, Got(d, size)) \in Nat \ {0}
      OBVIOUS
    <3> DEFINE p == Got(d, size)
    <3>1. /\ h.role = "maker" => size.call = "maker_details"
          /\ h.role = "taker" => size.call = "position"
      BY <1>4, <2>1 DEF SizeRead, Roles
    <3>2. p \in Positions /\ ~Refuses(o, h, size, p)
      BY <1>3, <2>1, <3>1 DEF Holds, Roles
    <3> HIDE DEF p, size
    <3>3. Size(h.role, p) # 0
      BY <1>17, <2>1, <3>1, <3>2 DEF Refuses, TurnsAway, Roles
    <3>4. p.delta \in Int /\ p.liquidity \in Nat
      BY <3>2 DEF Positions
    <3>5. Size(h.role, p) \in Nat
      BY <3>4 DEF Size
    <3> QED
      BY <3>3, <3>5 DEF p
  <2> HIDE DEF size
  <2>4. CASE o = "liquidate"
    <3>1. FitSteps(o, h, LiquidationSteps(h, d, TRUE))
      BY <1>17, <2>1, <2>2, <2>3, <2>4, LiquidationFits DEF size
    <3> QED
      BY <2>4, <3>1 DEF TradeSteps, SendLiquidation
  <2>5. CASE o = "simulate_liquidation"
    <3>1. FitSteps(o, h, LiquidationSteps(h, d, FALSE))
      BY <1>17, <2>1, <2>2, <2>3, <2>5, LiquidationFits DEF size
    <3> QED
      BY <2>5, <3>1 DEF TradeSteps, SimulateLiquidation
  <2> QED
    BY <1>17, <2>4, <2>5
<1> QED
  BY <1>2, <1>8, <1>9, <1>10, <1>11, <1>12, <1>13, <1>14, <1>15, <1>16, <1>17 DEF TradeOps

\* What a send is answered changes none of the steps.
LEMMA StepsSame ==
    ASSUME NEW op \in TradeOps, NEW how, NEW held, NEW after,
           \A r : r.call # "send" => /\ Holds(held, r) <=> Holds(after, r)
                                     /\ Holds(held, r) => Got(after, r) = Got(held, r)
    PROVE  TradeSteps(op, how, after) = TradeSteps(op, how, held)
<1>1. \A call : call # "send" => R(call).call # "send"
  BY DEF R
<1>2. \A call, id : call # "send" => At(call, id).call # "send"
  BY DEF At
<1> DEFINE key == R("pool_key")
           size == SizeRead(how.role, how.id)
           read == At("position", how.id)
           allowance == R("allowance")
<1>3. key.call # "send" /\ size.call # "send" /\ read.call # "send" /\ allowance.call # "send"
  BY <1>1, <1>2 DEF SizeRead
<1>4. \A r \in {key, size, read, allowance} :
        /\ Holds(held, r) <=> Holds(after, r)
        /\ Holds(held, r) => Got(after, r) = Got(held, r)
  BY <1>3
<1>5. ASSUME NEW sends PROVE LiquidationSteps(how, after, sends) = LiquidationSteps(how, held, sends)
  <2> DEFINE last(call) == IF sends THEN Send(call) ELSE Simulate(call)
             rest(h) == IF ~Holds(h, key) THEN <<>>
                        ELSE IF Got(h, key) = Legacy THEN <<{last(Liquidate(how.role, how.id, "whole"))}>>
                        ELSE IF ~Holds(h, size) THEN <<{size}>>
                        ELSE <<{size}, {last(Liquidate(how.role, how.id, Size(how.role, Got(h, size))))}>>
  <2>1. \A h : LiquidationSteps(how, h, sends) = <<{R("pool_id"), R("pool_key")}>> \o rest(h)
    BY DEF LiquidationSteps
  <2> HIDE DEF last, key, size
  <2>2. rest(after) = rest(held)
    <3>1. CASE ~Holds(held, key)
      BY <1>4, <3>1
    <3>2. CASE Holds(held, key) /\ ~Holds(held, size)
      BY <1>4, <3>2
    <3>3. CASE Holds(held, key) /\ Holds(held, size)
      BY <1>4, <3>3
    <3> QED
      BY <3>1, <3>2, <3>3
  <2> HIDE DEF rest
  <2> QED
    BY <2>1, <2>2
<1>6. CloseTaker(how, after) = CloseTaker(how, held)
  BY <1>4 DEF CloseTaker
<1>7. EnsureApproval(how, after) = EnsureApproval(how, held)
  <2>1. Holds(after, allowance) /\ Got(after, allowance) < how.amount
            <=> Holds(held, allowance) /\ Got(held, allowance) < how.amount
    BY <1>4
  <2> QED
    BY <2>1 DEF EnsureApproval
<1> QED
  BY <1>5, <1>6, <1>7 DEF TradeSteps, SendLiquidation, SimulateLiquidation, TradeOps

-----------------------------------------------------------------------------
(* What a trade waits for.                                                 *)

LEMMA TradeDue ==
    ASSUME NEW job, IsCall(job), HoldsOK(job), Era \in {Legacy, Upgradeable}
    PROVE  \A r \in Due(job) :
            /\ r \notin DOMAIN job.held
            /\ TradeAsks(job.op, job.how, r)
            /\ r.call = "send" => Due(job) = {r}
<1> DEFINE steps == TradeSteps(job.op, job.how, job.held)
<1>1. FitSteps(job.op, job.how, steps)
  BY TradeFits DEF IsCall
<1>2. Due(job) = FirstUnheld(steps, job.held)
  BY TradesAreNoReads DEF IsCall, IsTrade, Due
<1> HIDE DEF steps
<1>3. \A q \in Due(job) :
        /\ q \notin DOMAIN job.held
        /\ \E i \in DOMAIN steps : q \in steps[i] /\ \A j \in 1..(i - 1) : steps[j] \subseteq DOMAIN job.held
  BY <1>1, <1>2, DueIs DEF FitSteps
<1>4. DOMAIN steps = 1..Len(steps) /\ Len(steps) \in Nat
  BY <1>1 DEF FitSteps, IsSeq
<1>5. ASSUME NEW r \in Due(job), r.call = "send", NEW q \in Due(job) PROVE q = r
  <2>1. PICK i \in DOMAIN steps : r \in steps[i]
    BY <1>3
  <2>2. i = Len(steps) /\ steps[i] = {r}
    BY <1>1, <1>5, <2>1 DEF FitSteps
  <2>3. PICK k \in DOMAIN steps : q \in steps[k] /\ \A j \in 1..(k - 1) : steps[j] \subseteq DOMAIN job.held
    BY <1>3
  <2>4. PICK l \in DOMAIN steps : r \in steps[l] /\ \A j \in 1..(l - 1) : steps[j] \subseteq DOMAIN job.held
    BY <1>3
  <2>5. l = Len(steps)
    BY <1>1, <1>5, <2>4 DEF FitSteps
  <2>6. ~(k \in 1..(l - 1))
    BY <1>3, <2>3, <2>4
  <2>7. k = i
    BY <1>4, <2>2, <2>3, <2>5, <2>6
  <2> QED
    BY <2>2, <2>3, <2>7
<1>6. \A r \in Due(job) : TradeAsks(job.op, job.how, r)
  BY <1>1, <1>3 DEF FitSteps
<1> QED
  BY <1>3, <1>5, <1>6

\* What a liquidation sends takes what it has read.
LEMMA SendIsSized ==
    ASSUME NEW job, IsCall(job), HoldsOK(job), Era \in {Legacy, Upgradeable}, NEW r \in Due(job), r.call = "send"
    PROVE  Sized(job, r.tx)
<1> SUFFICES ASSUME job.op = "liquidate", Era = Upgradeable PROVE Sized(job, r.tx)
  BY DEF Sized
<1>1. PICK how, held : how = job.how /\ held = job.held
  OBVIOUS
<1> DEFINE key == R("pool_key")
           size == SizeRead(how.role, how.id)
           end == Send(Liquidate(how.role, how.id, Size(how.role, Got(held, size))))
           rest == IF ~Holds(held, key) THEN <<>>
                   ELSE IF Got(held, key) = Legacy THEN <<{Send(Liquidate(how.role, how.id, "whole"))}>>
                   ELSE IF ~Holds(held, size) THEN <<{size}>>
                   ELSE <<{size}, {end}>>
           first == {R("pool_id"), R("pool_key")}
<1>2. TradeSteps("liquidate", how, held) = <<first>> \o rest
  BY DEF TradeSteps, SendLiquidation, LiquidationSteps
<1>3. Due(job) = FirstUnheld(<<first>> \o rest, held)
  <2>1. Steps(job.op, job.how, job.held) = TradeSteps(job.op, job.how, job.held)
    BY TradesAreNoReads DEF IsCall, IsTrade
  <2> HIDE DEF rest, first
  <2> QED
    BY <1>1, <1>2, <2>1 DEF Due
<1>4. Holds(held, key) => Got(held, key) # Legacy
  <2>1. Holds(held, key) => Got(held, key) = Era
    BY <1>1 DEF HoldsOK, Tells, IsCall, Holds, Got
  <2> QED
    BY <2>1 DEF Legacy, Upgradeable
<1>5. size.call # "send"
  BY DEF SizeRead, At
<1>6. end.tx = Liquidate(how.role, how.id, Size(how.role, Got(held, size)))
  BY DEF Send
<1>7. end.tx.amount = Size(how.role, Got(held, size))
  BY <1>6 DEF Liquidate
<1>8. IsSeq(rest) /\ \A i \in DOMAIN rest : \A q \in rest[i] : q.call = "send" => Holds(held, size) /\ q = end
  <2> HIDE DEF end, size
  <2>1. CASE ~Holds(held, key)
    <3>1. <<>> \in Seq({}) /\ DOMAIN <<>> = {} /\ rest = <<>>
      BY <2>1
    <3> HIDE DEF rest
    <3> QED
      BY <3>1 DEF IsSeq
  <2>2. CASE Holds(held, key) /\ ~Holds(held, size)
    <3>1. rest = <<{size}>>
      BY <1>4, <2>2
    <3> HIDE DEF rest
    <3>2. IsSeq(<<{size}>>) /\ DOMAIN <<{size}>> = {1} /\ <<{size}>>[1] = {size}
      BY OneStep
    <3> QED
      BY <1>5, <3>1, <3>2
  <2>3. CASE Holds(held, key) /\ Holds(held, size)
    <3> DEFINE a == {size}
               b == {end}
    <3>1. rest = <<a, b>>
      BY <1>4, <2>3
    <3>2. \A q \in a \cup b : q.call = "send" => q = end
      BY <1>5
    <3> HIDE DEF rest, a, b
    <3>3. <<a, b>> \in Seq({a, b}) /\ DOMAIN <<a, b>> = 1..2 /\ <<a, b>>[1] = a /\ <<a, b>>[2] = b
      OBVIOUS
    <3>4. IsSeq(rest)
      BY <3>1, <3>3 DEF IsSeq
    <3>5. \A i \in DOMAIN rest : rest[i] = a \/ rest[i] = b
      BY <3>1, <3>3
    <3> QED
      BY <2>3, <3>2, <3>4, <3>5
  <2> QED
    BY <2>1, <2>2, <2>3
<1>9. \A q \in first : q.call # "send"
  BY DEF R
<1> HIDE DEF rest, first, end, size, key
<1>10. Holds(held, size) /\ r = end
  <2>1. IsSeq(<<first>>) /\ Len(<<first>>) = 1 /\ DOMAIN <<first>> = {1} /\ <<first>>[1] = first
    BY OneStep
  <2> DEFINE s == <<first>>
  <2> HIDE DEF s
  <2>2. IsSeq(s) /\ Len(s) = 1 /\ s[1] = first
    BY <2>1 DEF s
  <2>3. /\ IsSeq(s \o rest) /\ Len(rest) \in Nat /\ DOMAIN rest = 1..Len(rest)
        /\ DOMAIN (s \o rest) = 1..(Len(s) + Len(rest))
        /\ \A i \in 1..Len(s) : (s \o rest)[i] = s[i]
        /\ \A i \in (Len(s) + 1)..(Len(s) + Len(rest)) : (s \o rest)[i] = rest[i - Len(s)]
    BY <1>8, <2>2, SequencesJoin
  <2>4. PICK i \in DOMAIN (s \o rest) : r \in (s \o rest)[i]
    <3>1. r \in FirstUnheld(s \o rest, held)
      BY <1>3 DEF s
    <3> QED
      BY <2>3, <3>1, DueIs
  <2>5. i # 1
    BY <1>9, <2>2, <2>3, <2>4
  <2>6. i - 1 \in DOMAIN rest /\ r \in rest[i - 1]
    <3>1. i \in 1..(1 + Len(rest)) /\ i \in (Len(s) + 1)..(Len(s) + Len(rest)) /\ i - Len(s) = i - 1
      BY <2>2, <2>3, <2>4, <2>5
    <3>2. (s \o rest)[i] = rest[i - 1]
      BY <2>3, <3>1
    <3>3. i - 1 \in DOMAIN rest
      BY <2>3, <3>1
    <3> QED
      BY <2>4, <3>2, <3>3
  <2> QED
    BY <1>8, <2>6
<1> QED
  BY <1>1, <1>7, <1>10 DEF Sized, Holds, size

\* Once its send is answered there is nothing more.
LEMMA SentEnds ==
    ASSUME NEW job, IsCall(job), HoldsOK(job), Era \in {Legacy, Upgradeable},
           NEW r \in Due(job), r.call = "send",
           NEW after, after.op = job.op, after.how = job.how,
           DOMAIN after.held = DOMAIN job.held \cup {r},
           \A q \in DOMAIN job.held : after.held[q] = job.held[q]
    PROVE  Due(after) = {}
<1> DEFINE steps == TradeSteps(job.op, job.how, job.held)
<1>1. FitSteps(job.op, job.how, steps)
  BY TradeFits DEF IsCall
<1>2. Due(job) = FirstUnheld(steps, job.held)
  BY TradesAreNoReads DEF IsCall, IsTrade, Due
<1>3. Due(after) = FirstUnheld(steps, after.held)
  <2>1. \A q : q.call # "send" => /\ Holds(job.held, q) <=> Holds(after.held, q)
                                  /\ Holds(job.held, q) => Got(after.held, q) = Got(job.held, q)
    BY DEF Holds, Got
  <2>2. PICK op, how, h, d : op = job.op /\ how = job.how /\ h = job.held /\ d = after.held
    OBVIOUS
  <2>3. TradeSteps(op, how, d) = TradeSteps(op, how, h)
    BY <2>1, <2>2, StepsSame DEF IsCall, IsTrade
  <2> QED
    BY <2>2, <2>3, TradesAreNoReads DEF IsCall, IsTrade, Due
<1> HIDE DEF steps
<1>4. PICK i \in DOMAIN steps : r \in steps[i] /\ \A j \in 1..(i - 1) : steps[j] \subseteq DOMAIN job.held
  BY <1>1, <1>2, DueIs DEF FitSteps
<1>5. DOMAIN steps = 1..Len(steps) /\ Len(steps) \in Nat
  BY <1>1 DEF FitSteps, IsSeq
<1>6. i = Len(steps) /\ steps[i] = {r}
  BY <1>1, <1>4 DEF FitSteps
<1>7. \A k \in DOMAIN steps : steps[k] \subseteq DOMAIN after.held
  <2>1. \A k \in DOMAIN steps : k = i \/ k \in 1..(i - 1)
    BY <1>5, <1>6
  <2> QED
    BY <1>4, <1>6, <2>1
<1>8. \A q \in FirstUnheld(steps, after.held) :
        /\ q \notin DOMAIN after.held
        /\ \E k \in DOMAIN steps : q \in steps[k]
  BY <1>1, DueIs DEF FitSteps
<1> QED
  BY <1>3, <1>7, <1>8

\* What holds the same waits for the same.
LEMMA DueSame ==
    ASSUME NEW job, IsTrade(job), NEW after, after.op = job.op, after.how = job.how,
           DOMAIN after.held = DOMAIN job.held,
           \A q \in DOMAIN job.held : after.held[q] = job.held[q]
    PROVE  Due(after) = Due(job)
<1>1. \A q : /\ Holds(job.held, q) <=> Holds(after.held, q)
             /\ Holds(job.held, q) => Got(after.held, q) = Got(job.held, q)
  BY DEF Holds, Got
<1>2. PICK op, how, h, d : op = job.op /\ how = job.how /\ h = job.held /\ d = after.held
  OBVIOUS
<1>3. TradeSteps(op, how, d) = TradeSteps(op, how, h)
  BY <1>1, <1>2, StepsSame DEF IsTrade
<1>4. \A step : Unheld(step, d) = Unheld(step, h)
  BY <1>1, <1>2 DEF Unheld
<1>5. \A steps : FirstUnheld(steps, d) = FirstUnheld(steps, h)
  BY <1>4 DEF FirstUnheld
<1> QED
  BY <1>2, <1>3, <1>5, TradesAreNoReads DEF IsTrade, Due

-----------------------------------------------------------------------------
(* A read sends nothing, and only two name a fee schedule's second part.   *)

LEMMA PinnableDue ==
    ASSUME NEW job, NEW steps, Pinnable(steps), Due(job) = FirstUnheld(steps, job.held), NEW r \in Due(job)
    PROVE  r.call # "send"
BY DueIs DEF Pinnable, Avoids, Unpinned

\* What names the fees module, and reads its schedule.
FeeOps == {"get_config", "get_snapshot"}

LEMMA ReadsSendNothing ==
    ASSUME NEW job, job.op \in ReadOps, HeldOK(job), HoldsOK(job), NEW r \in Due(job)
    PROVE  r.call # "send" /\ (job.op \notin FeeOps => r.call # "liq_fee")
<1>1. PICK op, held : op = job.op /\ held = job.held
  OBVIOUS
<1>2. r \in FirstUnheld(Steps(op, job.how, held), held)
  BY <1>1 DEF Due
<1>3. ASSUME NEW steps, Pinnable(steps), Steps(op, job.how, held) = steps PROVE r.call # "send"
  <2>1. Due(job) = FirstUnheld(steps, job.held)
    BY <1>1, <1>3 DEF Due
  <2> QED
    BY <1>3, <2>1, PinnableDue
<1>4. ASSUME NEW step, Steps(op, job.how, held) = <<step>> PROVE r \in step
  <2>1. IsSeq(<<step>>) /\ DOMAIN <<step>> = {1} /\ <<step>>[1] = step
    BY OneStep
  <2> QED
    BY <1>2, <1>4, <2>1, DueIs
<1>5. CASE op \in PinnedOps
  <2>1. r.call # "send"
    BY <1>1, <1>5, DueMayBeAsked DEF MayAsk, Unpinned
  <2>2. op \notin FeeOps => r.call # "liq_fee"
    <3> SUFFICES ASSUME op \notin FeeOps PROVE r.call # "liq_fee"
      OBVIOUS
    <3>1. op \in StateReads
      BY <1>5 DEF PinnedOps, FeeOps
    <3>2. PICK steps : steps = Steps(op, job.how, held)
      OBVIOUS
    <3>3. Plain(steps)
      BY <1>5, <3>1, <3>2, StepsLed
    <3> QED
      BY <1>2, <3>2, <3>3, DueIs DEF Plain, Avoids, Unread
  <2> QED
    BY <1>1, <2>1, <2>2
<1>6. CASE op \in HeadReads
  <2>1. Steps(op, job.how, held) = <<{R(op)}>>
    BY <1>6 DEF Steps, HeadReads, StateReads, OneCallReads, PositionReads, BatchReads
  <2>2. r = R(op)
    BY <1>4, <2>1
  <2> QED
    BY <1>1, <1>6, <2>2 DEF R, HeadReads
<1>7. CASE op = "tape_addresses"
  <2>1. op \notin HeadReads \cup StateReads
    BY <1>7 DEF HeadReads, StateReads, OneCallReads, PositionReads, BatchReads
  <2>2. Steps(op, job.how, held) = <<{R("modules")} \cup Immutables>>
    BY <1>7, <2>1 DEF Steps, TapeAddresses
  <2>3. r \in {R("modules")} \cup Immutables
    BY <1>4, <2>2
  <2> QED
    BY <1>1, <2>3 DEF R, Immutables
<1>8. CASE op = "get_position"
  <2>1. op \notin HeadReads \cup StateReads
    BY <1>8 DEF HeadReads, StateReads, OneCallReads, PositionReads, BatchReads
  <2>2. Steps(op, job.how, held) = <<{At("position", Asked[1])}>>
    BY <1>8, <2>1 DEF Steps
  <2>3. r = At("position", Asked[1])
    BY <1>4, <2>2
  <2> QED
    BY <1>1, <2>3 DEF At
<1>9. CASE op = "get_config"
  <2> DEFINE a == {R("modules")}
             b == {R("key_again")}
             c == {R("pool_state")}
             d == {R("ema_window")}
             fees == FeesAfter(held, R("modules"))
  <2>1. op \notin HeadReads \cup StateReads
    BY <1>9 DEF HeadReads, StateReads, OneCallReads, PositionReads, BatchReads
  <2>2. Steps(op, job.how, held) = <<a, b, c, d>> \o fees
    BY <1>9, <2>1 DEF Steps, Config
  <2>3. Pinnable(fees)
    BY FeesPinnable
  <2>4. \A q \in a \cup b \cup c \cup d : q.call \notin Unpinned
    BY DEF R, Unpinned
  <2> HIDE DEF a, b, c, d, fees
  <2>5. Pinnable(<<a, b, c, d>>)
    <3>1. <<a, b, c, d>> \in Seq({a, b, c, d}) /\ DOMAIN <<a, b, c, d>> = 1..4
      OBVIOUS
    <3>2. \A i \in 1..4 : <<a, b, c, d>>[i] \in {a, b, c, d}
      BY <3>1
    <3> QED
      BY <2>4, <3>1, <3>2 DEF Pinnable, Avoids, IsSeq
  <2>6. Pinnable(<<a, b, c, d>> \o fees)
    BY <2>3, <2>5, PinnableJoin
  <2> QED
    BY <1>1, <1>3, <1>9, <2>2, <2>6 DEF FeeOps
<1>10. CASE op = "get_positions_by_owner"
  <2> DEFINE ask == R("next_pos_id")
             owners == OwnersAfter(held)
  <2>1. op \notin HeadReads \cup StateReads
    BY <1>10 DEF HeadReads, StateReads, OneCallReads, PositionReads, BatchReads
  <2>2. Steps(op, job.how, held) = <<{ask}>> \o owners
    BY <1>10, <2>1 DEF Steps, PositionsByOwner
  <2>3. Plain(<<{ask}>>)
    <3>1. \A q \in {ask} : q.call \notin Unread
      BY DEF R, Unread, Unpinned
    <3> QED
      BY <3>1, PlainOne
  <2>4. Plain(owners)
    <3>1. CASE Holds(held, ask)
      <4> DEFINE n == Got(held, ask) - 1
                 asks == [id \in 1..n |-> {At("owner_of", id)}]
      <4>1. ~Alone(ask)
        BY DEF Alone, R
      <4>2. ~Failed(job.held[ask]) /\ Got(held, ask) \in Nat \ {0}
        BY <1>1, <3>1, <4>1 DEF HeldOK, HoldsOK, Tells, Holds, Got
      <4>3. n \in Nat
        BY <4>2
      <4>4. owners = asks
        BY <3>1 DEF OwnersAfter
      <4> HIDE DEF n
      <4>5. asks \in Seq({{At("owner_of", id)} : id \in 1..n}) /\ DOMAIN asks = 1..n
        BY <4>3
      <4>6. \A id : At("owner_of", id).call \notin Unread
        BY DEF At, Unread, Unpinned
      <4>7. \A i \in 1..n : \A q \in asks[i] : q.call \notin Unread
        BY <4>6
      <4> HIDE DEF asks
      <4> QED
        BY <4>4, <4>5, <4>7 DEF Plain, Avoids, IsSeq
    <3>2. CASE ~Holds(held, ask)
      BY <3>2, PlainNone DEF OwnersAfter
    <3> QED
      BY <3>1, <3>2
  <2> HIDE DEF owners, ask
  <2>5. Plain(<<{ask}>> \o owners)
    BY <2>3, <2>4, PlainJoin
  <2>6. Pinnable(<<{ask}>> \o owners)
    BY <2>5, PlainIsPinnable
  <2>7. r.call # "liq_fee"
    BY <1>2, <2>2, <2>5, DueIs DEF Plain, Avoids, Unread
  <2> QED
    BY <1>1, <1>3, <2>2, <2>6, <2>7
<1> QED
  BY <1>1, <1>5, <1>6, <1>7, <1>8, <1>9, <1>10 DEF ReadOps, PinnedOps

-----------------------------------------------------------------------------
(* An operation from await to await.                                       *)

LEMMA WorldIs ==
    ASSUME NodeInv, WorldsOK, NEW n \in 1..Height
    PROVE  SoundWorld(WorldAt(chain[n]))
BY DEF NodeInv, WorldsOK, WorldAt

LEMMA EraIs ==
    ASSUME NodeInv, WorldsOK
    PROVE  /\ Height \in Nat /\ Height >= 3
           /\ SoundWorld(HeadWorld)
           /\ session.trades => Era \in {Legacy, Upgradeable} /\ HeadWorld.era = Era
<1>1. Height \in Nat /\ Height >= 3
  BY DEF NodeInv, WorldsOK, Height
<1>2. SoundWorld(HeadWorld)
  BY <1>1, WorldIs DEF HeadWorld
<1> QED
  BY <1>1, <1>2 DEF SoundWorld

CoreOK(job) ==
    /\ IsJob(job) /\ HeldOK(job) /\ HoldsOK(job)
    /\ job.op \in ReadOps \/ IsCall(job)
    /\ job.op \in ReadOps => ~Sent(job.held)
    /\ IsTrade(job) /\ Sent(job.held) => Due(job) = {}

\* The cache answers no send, and of what trades ask the immutables only.
LEMMA CachedIs ==
    ASSUME NEW r, NEW now, FromCache(r, now) # None
    PROVE  \/ r.call \in {"balance", "pool_price", "funding_rate", "fees", "bounds", "get_proof"}
           \/ r.call \in {"pool_id", "pool_key"} /\ FromCache(r, now) = Value(HeadWorld.era)
<1>1. CASE KeyOf(r) # None
  BY <1>1 DEF KeyOf
<1>2. CASE KeyOf(r) = None /\ r.call \in {"pool_id", "pool_key"}
  BY <1>2 DEF FromCache
<1>3. CASE KeyOf(r) = None /\ r.call \notin {"pool_id", "pool_key"}
  BY <1>3 DEF FromCache
<1> QED
  BY <1>1, <1>2, <1>3

LEMMA TradeHit ==
    ASSUME NodeInv, WorldsOK, NEW job, IsCall(job), HoldsOK(job), NEW r \in Due(job), NEW now,
           FromCache(r, now) # None
    PROVE  /\ r.call \in {"pool_id", "pool_key"} /\ FromCache(r, now) = Value(Era)
           /\ ~Refuses(job.op, job.how, r, Era)
<1>1. Era \in {Legacy, Upgradeable} /\ HeadWorld.era = Era
  BY EraIs DEF IsCall
<1>2. TradeAsks(job.op, job.how, r)
  BY <1>1, TradeDue
<1>3. r.call \in {"send", "pool_id", "pool_key", "allowance", "preflight", "position", "maker_details", "owner_of"}
  BY <1>2 DEF TradeAsks, R, At
<1>4. r.call \in {"pool_id", "pool_key"} /\ FromCache(r, now) = Value(HeadWorld.era)
  BY <1>3, CachedIs
<1> QED
  BY <1>1, <1>4 DEF Refuses, TurnsAway

LEMMA HitCore ==
    ASSUME NodeInv, WorldsOK, NEW job, NEW now, CoreOK(job), job.answers = << >>
    PROVE  LET after == Hit(job, now) IN
           /\ CoreOK(after)
           /\ \A f \in DOMAIN job : f # "held" => after[f] = job[f]
           /\ \A r : r.call = "send" => /\ r \in DOMAIN after.held <=> r \in DOMAIN job.held
                                        /\ r \in DOMAIN job.held => after.held[r] = job.held[r]
           /\ KeepsHeld(job, after)
<1> DEFINE more == Hits(Due(job) \ DOMAIN job.answers, now)
           after == Hit(job, now)
<1>1. /\ IsJob(after) /\ HeldOK(after)
      /\ \A f \in DOMAIN job : f # "held" => after[f] = job[f]
  BY HitIs DEF CoreOK
<1>2. \A r \in DOMAIN more : r \in Due(job) /\ FromCache(r, now) # None /\ more[r] = FromCache(r, now)
  BY DEF Hits
<1>3. after.held = Over(more, job.held)
  BY DEF Hit, CoreOK, IsJob
<1>4. after.op = job.op /\ after.how = job.how
  BY <1>1 DEF CoreOK, IsJob
<1> HIDE DEF more, after
<1>5. /\ DOMAIN after.held = DOMAIN more \cup DOMAIN job.held
      /\ \A r \in DOMAIN more : after.held[r] = more[r]
      /\ \A r \in DOMAIN job.held : r \notin DOMAIN more => after.held[r] = job.held[r]
  BY <1>3 DEF Over
<1>6. \A r \in DOMAIN more : r \notin DOMAIN job.held
  BY <1>2, DueIsUnheld DEF Due
<1>7. \A r \in DOMAIN more : r.call # "send" /\ r.call # "next_pos_id"
  BY <1>2, CachedIs
<1>8. \A r : r.call = "send" => /\ r \in DOMAIN after.held <=> r \in DOMAIN job.held
                                /\ r \in DOMAIN job.held => after.held[r] = job.held[r]
  BY <1>5, <1>7
<1>9. job.op \in ReadOps \/ IsCall(job)
  BY DEF CoreOK
<1>10. IsCall(job) => IsCall(after)
  BY <1>4 DEF IsCall, IsTrade
<1>11. ASSUME NEW r \in DOMAIN after.held
       PROVE  /\ Tells(after, r, after.held[r])
              /\ IsTrade(after) => ~Failed(after.held[r]) /\ ~Refuses(after.op, after.how, r, after.held[r].value)
  <2>1. CASE r \in DOMAIN more
    <3>1. r # R("next_pos_id")
      BY <1>7, <2>1 DEF R
    <3>2. CASE job.op \in ReadOps
      <4>1. ~IsTrade(after)
        BY <1>4, <3>2, TradesAreNoReads DEF IsTrade
      <4> QED
        BY <3>1, <4>1 DEF Tells
    <3>3. CASE IsCall(job)
      <4>1. /\ r.call \in {"pool_id", "pool_key"} /\ more[r] = Value(Era)
            /\ ~Refuses(job.op, job.how, r, Era)
        BY <1>2, <2>1, <3>3, TradeHit DEF CoreOK
      <4>2. ~Failed(Value(Era)) /\ Value(Era).value = Era
        BY DEF Failed, Value
      <4> QED
        BY <1>4, <1>5, <2>1, <3>1, <4>1, <4>2 DEF Tells
    <3> QED
      BY <1>9, <3>2, <3>3
  <2>2. CASE r \notin DOMAIN more
    <3>1. r \in DOMAIN job.held /\ after.held[r] = job.held[r]
      BY <1>5, <1>11, <2>2
    <3> QED
      BY <1>4, <3>1 DEF CoreOK, HoldsOK, Tells, IsTrade
  <2> QED
    BY <2>1, <2>2
<1>12. HoldsOK(after)
  BY <1>11 DEF HoldsOK
<1>13. Sent(after.held) => Sent(job.held)
  BY <1>8 DEF Sent
<1>14. IsTrade(after) /\ Sent(after.held) => Due(after) = {}
  <2> SUFFICES ASSUME IsTrade(after), Sent(after.held) PROVE Due(after) = {}
    OBVIOUS
  <2>1. IsTrade(job) /\ Due(job) = {}
    BY <1>4, <1>13 DEF CoreOK, IsTrade
  <2>2. DOMAIN more = {}
    BY <1>2, <2>1
  <2>3. DOMAIN after.held = DOMAIN job.held /\ \A q \in DOMAIN job.held : after.held[q] = job.held[q]
    BY <1>5, <2>2
  <2> QED
    BY <1>4, <2>1, <2>3, DueSame
<1>15. KeepsHeld(job, after)
  BY <1>5, <1>6 DEF KeepsHeld
<1> QED
  BY <1>1, <1>4, <1>8, <1>9, <1>10, <1>12, <1>13, <1>14, <1>15 DEF CoreOK, after

\* What an operation's held sends are, after what changes none of them.
SendsHeld(job, after) ==
    \A r : r.call = "send" => /\ r \in DOMAIN after.held <=> r \in DOMAIN job.held
                              /\ r \in DOMAIN job.held => after.held[r] = job.held[r]

LEMMA ResumeWorks ==
    ASSUME NodeInv, WorldsOK, NEW job, NEW now, CoreOK(job), job.answers = << >>, job.refused = {}
    PROVE  LET after == Resume(job, now) IN
           /\ WorkOK(after) /\ after.op = job.op /\ after.how = job.how /\ after.answers = << >>
           /\ SendsHeld(job, after) /\ KeepsHeld(job, after)
<1> DEFINE once == Hit(job, now)
           twice == Hit(once, now)
           after == AtAwait(twice, now)
<1>1. CoreOK(once) /\ SendsHeld(job, once) /\ KeepsHeld(job, once) /\ (\A f \in DOMAIN job : f # "held" => once[f] = job[f])
  BY HitCore DEF SendsHeld
<1>2. once.answers = << >> /\ once.op = job.op /\ once.how = job.how /\ once.refused = {}
  BY <1>1 DEF CoreOK, IsJob
<1>3. CoreOK(twice) /\ SendsHeld(once, twice) /\ KeepsHeld(once, twice) /\ (\A f \in DOMAIN once : f # "held" => twice[f] = once[f])
  <2> HIDE DEF once
  <2> QED
    BY <1>1, <1>2, HitCore DEF SendsHeld
<1>4. twice.answers = << >> /\ twice.op = job.op /\ twice.how = job.how /\ twice.refused = {}
  BY <1>1, <1>2, <1>3 DEF CoreOK, IsJob
<1>5. Resume(job, now) = after
  BY DEF Resume
<1> HIDE DEF once, twice
<1>6. /\ DOMAIN after = DOMAIN twice /\ after.op = twice.op /\ after.how = twice.how /\ after.held = twice.held
      /\ after.answers = << >> /\ after.asked = Due(twice) \ DOMAIN twice.answers
      /\ after.done = (Due(twice) = {}) /\ after.refused = {}
  BY <1>3, <1>4 DEF AtAwait, Waiting, CoreOK, IsJob
<1> HIDE DEF after
<1>7. Due(after) = Due(twice) /\ after.asked = Due(after)
  BY <1>4, <1>6 DEF Due
<1>8. SendsHeld(job, after) /\ KeepsHeld(job, after)
  BY <1>1, <1>3, <1>6 DEF SendsHeld, KeepsHeld
<1>9. IsJob(after)
  BY <1>3, <1>6 DEF CoreOK, IsJob
<1>10. after.op \in ReadOps \/ IsCall(after)
  BY <1>3, <1>6 DEF CoreOK, IsCall, IsTrade
<1>11. HoldsOK(after)
  BY <1>3, <1>6 DEF CoreOK, HoldsOK, Tells, IsTrade
<1>12. DOMAIN after.answers = {}
  BY <1>6
<1>13. ToldOK(after)
  BY <1>12 DEF ToldOK
<1>14. EndsOK(after)
  BY <1>6, <1>7 DEF EndsOK
<1>15. WaitsOK(after)
  <2>1. Out(after) = Due(after)
    BY <1>7, <1>12 DEF Out
  <2>2. IsTrade(after) /\ Sent(after.held) => Due(after) = {}
    BY <1>3, <1>6, <1>7 DEF CoreOK, IsTrade
  <2>3. after.op \in ReadOps => Sends(after) = {}
    <3> SUFFICES ASSUME after.op \in ReadOps PROVE Sends(after) = {}
      OBVIOUS
    <3>1. ~Sent(after.held)
      BY <1>3, <1>6 DEF CoreOK
    <3>2. \A r \in Due(twice) : r.call # "send"
      BY <1>3, <1>6, ReadsSendNothing DEF CoreOK
    <3> QED
      BY <1>7, <2>1, <3>1, <3>2 DEF Sends, Sent
  <2> QED
    BY <2>1, <2>2, <2>3 DEF WaitsOK
<1> QED
  BY <1>4, <1>5, <1>6, <1>8, <1>9, <1>10, <1>11, <1>12, <1>13, <1>14, <1>15 DEF WorkOK

LEMMA NewWorks ==
    ASSUME NodeInv, WorldsOK, NEW op, NEW how, NEW number, NEW now,
           op \in ReadOps \/ (session.trades /\ op \in TradeOps /\ Calling(op, how))
    PROVE  LET job == Resume(NewJob(op, how, number), now) IN
           /\ WorkOK(job) /\ job.op = op /\ job.how = how
           /\ DOMAIN job.answers = {} /\ ~Sent(job.held)
<1> DEFINE new == NewJob(op, how, number)
           job == Resume(new, now)
<1>1. /\ IsJob(new) /\ new.op = op /\ new.how = how /\ new.answers = << >> /\ DOMAIN new.held = {} /\ new.refused = {}
  BY DEF NewJob, IsJob
<1> HIDE DEF new
<1>2. CoreOK(new)
  <2>1. ~Sent(new.held) /\ HeldOK(new) /\ HoldsOK(new)
    BY <1>1 DEF Sent, HeldOK, HoldsOK
  <2> QED
    BY <1>1, <2>1 DEF CoreOK, IsCall, IsTrade
<1>3. /\ WorkOK(job) /\ job.op = op /\ job.how = how /\ job.answers = << >>
      /\ SendsHeld(new, job)
  BY <1>1, <1>2, ResumeWorks
<1>4. ~Sent(job.held) /\ DOMAIN job.answers = {}
  BY <1>1, <1>3 DEF Sent, SendsHeld
<1> QED
  BY <1>3, <1>4 DEF new

\* An operation is answered.
LEMMA TookWorks ==
    ASSUME NEW job, WorkOK(job), NEW request \in job.asked, NEW answer, Tells(job, request, answer),
           request.call # "send" /\ Failed(answer) => answer.failed \in ReadErrors
    PROVE  LET after == Took(job, request, answer) IN
           /\ WorkOK(after) /\ after.op = job.op /\ after.how = job.how /\ after.held = job.held
           /\ Sends(after) = Sends(job)
           /\ DOMAIN after.answers = DOMAIN job.answers \cup {request} /\ after.answers[request] = answer
           /\ \A r \in DOMAIN job.answers : r # request => after.answers[r] = job.answers[r]
<1> DEFINE after == Took(job, request, answer)
<1>1. /\ DOMAIN after = DOMAIN job /\ after.asked = job.asked \ {request}
      /\ after.answers = Put(job.answers, request, answer)
      /\ \A f \in DOMAIN job : f \notin {"asked", "answers"} => after[f] = job[f]
  BY DEF Took, WorkOK, IsJob
<1> HIDE DEF after
<1>2. /\ after.op = job.op /\ after.how = job.how /\ after.held = job.held
      /\ after.done = job.done /\ after.refused = job.refused
  BY <1>1 DEF WorkOK, IsJob
<1>3. /\ DOMAIN after.answers = DOMAIN job.answers \cup {request} /\ after.answers[request] = answer
      /\ \A r \in DOMAIN job.answers : r # request => after.answers[r] = job.answers[r]
  BY <1>1 DEF Put
<1>4. ~job.done /\ job.refused = {}
  BY DEF WorkOK, EndsOK
<1>5. Out(after) = Out(job) /\ Due(after) = Due(job) /\ Sends(after) = Sends(job)
  BY <1>1, <1>2, <1>3 DEF Out, Due, Sends
<1>6. WaitsOK(after)
  BY <1>2, <1>5 DEF WorkOK, WaitsOK, IsTrade
<1>7. ToldOK(after)
  <2>1. \A r, a : Tells(job, r, a) => Tells(after, r, a)
    BY <1>2 DEF Tells, IsTrade
  <2>2. ASSUME NEW r \in DOMAIN after.answers
        PROVE  /\ Tells(job, r, after.answers[r])
               /\ r.call # "send" /\ Failed(after.answers[r]) => after.answers[r].failed \in ReadErrors
    <3>1. CASE r = request
      BY <1>3, <3>1
    <3>2. CASE r # request
      <4>1. r \in DOMAIN job.answers /\ after.answers[r] = job.answers[r]
        BY <1>3, <2>2, <3>2
      <4> QED
        BY <4>1 DEF WorkOK, ToldOK
    <3> QED
      BY <3>1, <3>2
  <2> QED
    BY <2>1, <2>2 DEF ToldOK
<1>8. HoldsOK(after)
  BY <1>2 DEF WorkOK, HoldsOK, Tells, IsTrade
<1>9. EndsOK(after)
  BY <1>2, <1>4 DEF EndsOK
<1>10. IsJob(after) /\ (after.op \in ReadOps \/ IsCall(after))
  BY <1>1, <1>2 DEF WorkOK, IsJob, IsCall, IsTrade
<1>11. after.asked \cap DOMAIN after.answers = {} /\ DOMAIN after.answers # {}
  BY <1>1, <1>3 DEF WorkOK
<1> QED
  BY <1>2, <1>3, <1>5, <1>6, <1>7, <1>8, <1>9, <1>10, <1>11 DEF WorkOK, after

\* Where a trade's send is asked for, nothing else is out.
LEMMA SendAlone ==
    ASSUME NodeInv, WorldsOK, NEW job, WorkOK(job), NEW r \in Out(job), r.call = "send"
    PROVE  /\ IsCall(job) /\ Out(job) = {r} /\ Due(job) = {r} /\ ~Sent(job.held)
           /\ Fits(job.op, job.how, r.tx) /\ Sized(job, r.tx)
<1>1. job.op \notin ReadOps
  BY DEF WorkOK, WaitsOK, Sends
<1>2. IsCall(job) /\ IsTrade(job)
  BY <1>1 DEF WorkOK, IsCall
<1>3. Era \in {Legacy, Upgradeable}
  BY <1>2, EraIs DEF IsCall
<1>4. r \in Due(job) /\ Out(job) \subseteq Due(job)
  BY <1>2 DEF WorkOK, WaitsOK
<1>5. TradeAsks(job.op, job.how, r) /\ Due(job) = {r}
  BY <1>2, <1>3, <1>4, TradeDue DEF WorkOK
<1>6. ~Sent(job.held)
  BY <1>2, <1>4 DEF WorkOK, WaitsOK
<1>7. Sized(job, r.tx)
  BY <1>2, <1>3, <1>4, SendIsSized DEF WorkOK
<1> QED
  BY <1>2, <1>4, <1>5, <1>6, <1>7 DEF TradeAsks

LEMMA RefusedWorks ==
    ASSUME NodeInv, WorldsOK, NEW job, WorkOK(job), NEW r \in DOMAIN job.answers, Broken(job, r)
    PROVE  LET after == [job EXCEPT !.done = TRUE, !.asked = {}, !.refused = {r}] IN
           /\ WorkOK(after) /\ after.op = job.op /\ after.how = job.how
           /\ after.held = job.held /\ after.answers = job.answers
           /\ Sends(job) # {} => Sends(after) # {}
<1> DEFINE after == [job EXCEPT !.done = TRUE, !.asked = {}, !.refused = {r}]
<1>1. /\ DOMAIN after = DOMAIN job /\ after.asked = {} /\ after.refused = {r} /\ after.done = TRUE
      /\ after.op = job.op /\ after.how = job.how /\ after.held = job.held /\ after.answers = job.answers
  BY DEF WorkOK, IsJob
<1> HIDE DEF after
<1>2. Out(after) = DOMAIN job.answers /\ Out(after) \subseteq Out(job) /\ Due(after) = Due(job)
  BY <1>1 DEF Out, Due
<1>3. Sends(after) \subseteq Sends(job)
  BY <1>1, <1>2 DEF Sends
<1>4. WaitsOK(after)
  BY <1>1, <1>2, <1>3 DEF WorkOK, WaitsOK, IsTrade
<1>5. ToldOK(after)
  BY <1>1 DEF WorkOK, ToldOK, Tells, IsTrade
<1>6. HoldsOK(after)
  BY <1>1 DEF WorkOK, HoldsOK, Tells, IsTrade
<1>7. EndsOK(after)
  <2>1. Broken(after, r)
    BY <1>1 DEF Broken
  <2> QED
    BY <1>1, <2>1 DEF EndsOK
<1>8. IsJob(after) /\ (after.op \in ReadOps \/ IsCall(after))
  BY <1>1 DEF WorkOK, IsJob, IsCall, IsTrade
<1>9. Sends(job) # {} => Sends(after) # {}
  <2> SUFFICES ASSUME NEW q \in Sends(job) PROVE Sends(after) # {}
    OBVIOUS
  <2>1. CASE q \in DOMAIN job.held
    BY <1>1, <2>1 DEF Sends
  <2>2. CASE q \in Out(job)
    <3>1. Out(job) = {q} /\ q.call = "send"
      BY <2>2, SendAlone DEF Sends
    <3>2. r = q
      BY <3>1 DEF Out
    <3> QED
      BY <1>2, <3>1, <3>2 DEF Sends
  <2> QED
    BY <2>1, <2>2 DEF Sends
<1> QED
  BY <1>1, <1>4, <1>5, <1>6, <1>7, <1>8, <1>9 DEF WorkOK, after

\* An operation goes on with what it was answered.
LEMMA AnsweredWorks ==
    ASSUME NodeInv, WorldsOK, NEW job, JobOK(job), WorkOK(job), NEW now,
           job.answers # << >>, ~job.done,
           \A r \in DOMAIN job.answers : ~Broken(job, r),
           job.asked = {} \/ \A r \in DOMAIN job.answers : Alone(r)
    PROVE  LET after == Resume([job EXCEPT !.held = Over(job.answers, @), !.answers = << >>, !.asked = {}], now) IN
           /\ WorkOK(after) /\ after.op = job.op /\ after.how = job.how /\ after.answers = << >>
           /\ \A r \in DOMAIN after.held : r.call = "send" =>
                \/ r \in DOMAIN job.answers /\ after.held[r] = job.answers[r]
                \/ r \in DOMAIN job.held /\ after.held[r] = job.held[r]
           /\ Sends(job) # {} => Sends(after) # {}
           /\ IsTrade(job) => KeepsHeld(job, after)
<1> DEFINE mid == [job EXCEPT !.held = Over(job.answers, @), !.answers = << >>, !.asked = {}]
           after == Resume(mid, now)
<1>1. /\ IsJob(mid) /\ HeldOK(mid) /\ mid.held = Over(job.answers, job.held) /\ mid.answers = << >>
      /\ mid.op = job.op /\ mid.how = job.how /\ mid.refused = {}
  <2>1. job.refused = {}
    BY DEF WorkOK, EndsOK
  <2> QED
    BY <2>1, AnsweredIsHeld
<1> HIDE DEF mid
<1>2. /\ DOMAIN mid.held = DOMAIN job.answers \cup DOMAIN job.held
      /\ \A r \in DOMAIN job.answers : mid.held[r] = job.answers[r]
      /\ \A r \in DOMAIN job.held : r \notin DOMAIN job.answers => mid.held[r] = job.held[r]
  BY <1>1 DEF Over
<1>3. DOMAIN job.answers # {} /\ (job.op \in ReadOps \/ IsCall(job))
  BY DEF WorkOK
<1>4. IsCall(job) => Era \in {Legacy, Upgradeable}
  BY EraIs DEF IsCall
<1>5. IsCall(job) => DOMAIN job.answers \subseteq Due(job) /\ job.asked \subseteq Due(job)
  BY DEF WorkOK, WaitsOK, Out, IsCall
<1>6. IsCall(job) => job.asked = {} /\ \A r \in DOMAIN job.answers : ~Alone(r)
  <2> SUFFICES ASSUME IsCall(job), NEW r \in DOMAIN job.answers PROVE ~Alone(r)
    BY <1>3
  <2>1. TradeAsks(job.op, job.how, r)
    BY <1>4, <1>5, TradeDue DEF WorkOK
  <2> QED
    BY <2>1 DEF TradeAsks, Alone, R, At
<1>7. CoreOK(mid)
  <2>1. ASSUME NEW r \in DOMAIN mid.held
        PROVE  /\ Tells(mid, r, mid.held[r])
               /\ IsTrade(mid) => ~Failed(mid.held[r]) /\ ~Refuses(mid.op, mid.how, r, mid.held[r].value)
    <3>1. CASE r \in DOMAIN job.answers
      <4>1. Tells(mid, r, mid.held[r])
        BY <1>1, <1>2, <3>1 DEF WorkOK, ToldOK, Tells, IsTrade
      <4>2. IsTrade(mid) => IsCall(job)
        BY <1>1, <1>3, TradesAreNoReads DEF IsTrade
      <4>3. IsTrade(mid) => ~Failed(mid.held[r]) /\ ~Refuses(mid.op, mid.how, r, mid.held[r].value)
        BY <1>1, <1>2, <1>6, <3>1, <4>2 DEF Broken
      <4> QED
        BY <4>1, <4>3
    <3>2. CASE r \notin DOMAIN job.answers
      <4>1. r \in DOMAIN job.held /\ mid.held[r] = job.held[r]
        BY <1>2, <2>1, <3>2
      <4> QED
        BY <1>1, <4>1 DEF WorkOK, HoldsOK, Tells, IsTrade
    <3> QED
      BY <3>1, <3>2
  <2>2. HoldsOK(mid)
    BY <2>1 DEF HoldsOK
  <2>3. mid.op \in ReadOps \/ IsCall(mid)
    BY <1>1, <1>3 DEF IsCall, IsTrade
  <2>4. mid.op \in ReadOps => ~Sent(mid.held)
    BY <1>1, <1>2 DEF WorkOK, WaitsOK, Sends, Out, Sent
  <2>5. IsTrade(mid) /\ Sent(mid.held) => Due(mid) = {}
    <3> SUFFICES ASSUME IsTrade(mid), Sent(mid.held) PROVE Due(mid) = {}
      OBVIOUS
    <3>1. IsCall(job) /\ IsTrade(job)
      BY <1>1, <1>3, TradesAreNoReads DEF IsTrade
    <3>2. Due(job) # {}
      BY <1>3, <1>5, <3>1
    <3>3. ~Sent(job.held)
      BY <3>1, <3>2 DEF WorkOK, WaitsOK
    <3>4. PICK r \in DOMAIN job.answers : r.call = "send"
      BY <1>2, <3>3 DEF Sent
    <3>5. Out(job) = {r} /\ Due(job) = {r}
      BY <3>4, SendAlone DEF Out
    <3>6. DOMAIN job.answers = {r} /\ r \notin DOMAIN job.held
      BY <3>4, <3>5, <3>3 DEF Out, Sent
    <3>7. DOMAIN mid.held = DOMAIN job.held \cup {r} /\ \A q \in DOMAIN job.held : mid.held[q] = job.held[q]
      BY <1>2, <3>6
    <3> QED
      BY <1>1, <1>4, <3>1, <3>4, <3>5, <3>7, SentEnds DEF WorkOK
  <2> QED
    BY <1>1, <2>2, <2>3, <2>4, <2>5 DEF CoreOK
<1>8. /\ WorkOK(after) /\ after.op = mid.op /\ after.how = mid.how /\ after.answers = << >>
      /\ SendsHeld(mid, after) /\ KeepsHeld(mid, after)
  BY <1>1, <1>7, ResumeWorks
<1> HIDE DEF after
<1>9. \A r \in DOMAIN after.held : r.call = "send" =>
        \/ r \in DOMAIN job.answers /\ after.held[r] = job.answers[r]
        \/ r \in DOMAIN job.held /\ after.held[r] = job.held[r]
  BY <1>2, <1>8 DEF SendsHeld
<1>10. Sends(job) # {} => Sends(after) # {}
  <2> SUFFICES ASSUME NEW q \in Sends(job) PROVE Sends(after) # {}
    OBVIOUS
  <2>1. q.call = "send" /\ q \in job.asked \cup DOMAIN mid.held
    BY <1>2 DEF Sends, Out
  <2>2. IsCall(job)
    BY <1>3 DEF WorkOK, WaitsOK
  <2>3. q \in DOMAIN after.held
    BY <1>6, <1>8, <2>1, <2>2 DEF SendsHeld
  <2> QED
    BY <2>1, <2>3 DEF Sends
<1>11. IsTrade(job) => KeepsHeld(job, after)
  <2> SUFFICES ASSUME IsTrade(job) PROVE KeepsHeld(job, after)
    OBVIOUS
  <2>1. IsCall(job)
    BY <1>3, TradesAreNoReads DEF IsTrade
  <2>2. \A r \in DOMAIN job.answers : r \notin DOMAIN job.held
    BY <1>4, <1>5, <2>1, TradeDue DEF WorkOK
  <2>3. \A r \in DOMAIN job.held : r \in DOMAIN mid.held /\ mid.held[r] = job.held[r]
    BY <1>2, <2>2
  <2> QED
    BY <1>8, <2>3 DEF KeepsHeld
<1> QED
  BY <1>1, <1>8, <1>9, <1>10, <1>11 DEF after, mid

-----------------------------------------------------------------------------
(* The operations together.                                                *)

LEMMA SoundStays ==
    ASSUME UNCHANGED session
    PROVE  Era' = Era /\ \A w : SoundWorld(w)' <=> SoundWorld(w)
BY DEF Era, SoundWorld

LEMMA WorkStays ==
    ASSUME UNCHANGED session, NEW job, WorkOK(job)
    PROVE  WorkOK(job)'
<1>1. Era' = Era
  BY SoundStays
<1>2. \A r, answer : Tells(job, r, answer)' <=> Tells(job, r, answer)
  BY <1>1 DEF Tells
<1> QED
  BY <1>2 DEF WorkOK, HoldsOK, ToldOK, IsCall

\* What became of the i-th operation's transaction.
FateStays(i) ==
    /\ Submitted(i)' <=> Submitted(i)
    /\ i \in DOMAIN mined => i \in DOMAIN mined' /\ mined'[i] = mined[i]

LEMMA SendsStay ==
    ASSUME NEW i, NEW job, SendsOK(i, job), FateStays(i)
    PROVE  SendsOK(i, job)'
<1>1. \A answer : AnswerOK(i, answer) => AnswerOK(i, answer)'
  BY DEF AnswerOK, FateStays
<1> QED
  BY <1>1 DEF SendsOK, FateStays

LEMMA EachWorks ==
    ASSUME UNCHANGED session, \E S : jobs' \in Seq(S),
           \A i \in DOMAIN jobs' : \A job : job = jobs'[i] => WorkOK(job) /\ SendsOK(i, job)'
    PROVE  JobsTrue'
<1>1. ASSUME NEW i \in DOMAIN jobs', NEW job, job = jobs'[i]
      PROVE  WorkOK(job)' /\ SendsOK(i, job)'
  BY <1>1, WorkStays
<1>2. \A i \in DOMAIN jobs' : WorkOK(jobs[i])' /\ SendsOK(i, jobs[i])'
  <2> SUFFICES ASSUME NEW i \in DOMAIN jobs' PROVE WorkOK(jobs[i])' /\ SendsOK(i, jobs[i])'
    OBVIOUS
  <2>1. PICK job : job = jobs'[i]
    OBVIOUS
  <2>2. WorkOK(job)' /\ SendsOK(i, job)'
    BY <1>1, <2>1
  <2>3. WorkOK(jobs[i])'
    BY <2>1, <2>2 DEF WorkOK, HoldsOK, ToldOK, IsCall, IsTrade, IsJob, Tells, WaitsOK, EndsOK, Sends, Out, Due, Broken
  <2>4. SendsOK(i, jobs[i])'
    BY <2>1, <2>2 DEF SendsOK, Sends, Out
  <2> QED
    BY <2>3, <2>4
<1> QED
  BY <1>2 DEF JobsTrue

LEMMA AllStay ==
    ASSUME JobsTrue, UNCHANGED <<session, jobs>>, \A i \in DOMAIN jobs : FateStays(i)
    PROVE  JobsTrue'
<1>1. ASSUME NEW i \in DOMAIN jobs', NEW job, job = jobs'[i] PROVE WorkOK(job) /\ SendsOK(i, job)'
  <2>1. WorkOK(job) /\ SendsOK(i, job)
    BY <1>1 DEF JobsTrue
  <2> QED
    BY <1>1, <2>1, SendsStay
<1> QED
  BY <1>1, EachWorks DEF JobsTrue

LEMMA OneWorks ==
    ASSUME JobsTrue, UNCHANGED session, NEW i \in DOMAIN jobs, NEW after, WorkOK(after), SendsOK(i, after)',
           jobs' = [jobs EXCEPT ![i] = after],
           \A j \in DOMAIN jobs : j # i => FateStays(j)
    PROVE  JobsTrue'
<1>1. PICK S : jobs \in Seq(S)
  BY DEF JobsTrue
<1>2. jobs' \in Seq(S \cup {after}) /\ DOMAIN jobs' = DOMAIN jobs
  BY <1>1
<1>3. ASSUME NEW j \in DOMAIN jobs', NEW job, job = jobs'[j] PROVE WorkOK(job) /\ SendsOK(j, job)'
  <2>1. CASE j = i
    <3>1. job = after
      BY <1>3, <2>1
    <3> QED
      BY <2>1, <3>1
  <2>2. CASE j # i
    <3>1. j \in DOMAIN jobs /\ job = jobs[j]
      BY <1>2, <1>3, <2>2
    <3>2. WorkOK(job) /\ SendsOK(j, job)
      BY <3>1 DEF JobsTrue
    <3> QED
      BY <2>2, <3>1, <3>2, SendsStay
  <2> QED
    BY <2>1, <2>2
<1> QED
  BY <1>2, <1>3, EachWorks

LEMMA OneBegins ==
    ASSUME JobsTrue, PoolOK, UNCHANGED <<session, trading>>, NEW new, WorkOK(new),
           DOMAIN new.answers = {}, ~Sent(new.held), jobs' = Append(jobs, new)
    PROVE  JobsTrue'
<1>1. PICK S : jobs \in Seq(S)
  BY DEF JobsTrue
<1>2. /\ jobs' \in Seq(S \cup {new}) /\ DOMAIN jobs' = 1..(Len(jobs) + 1) /\ DOMAIN jobs = 1..Len(jobs)
      /\ Len(jobs) \in Nat
      /\ \A j \in 1..Len(jobs) : jobs'[j] = jobs[j]
      /\ jobs'[Len(jobs) + 1] = new
  BY <1>1
<1>3. \A j : FateStays(j)
  BY DEF FateStays, Submitted, trading
<1>4. SendsOK(Len(jobs) + 1, new)
  <2>1. ~Submitted(Len(jobs) + 1)
    <3>1. Len(jobs) + 1 \notin DOMAIN jobs
      BY <1>2
    <3> QED
      BY <3>1 DEF Submitted, PoolOK, IsFor
  <2> QED
    BY <2>1 DEF SendsOK, Sent
<1>5. ASSUME NEW j \in DOMAIN jobs', NEW job, job = jobs'[j] PROVE WorkOK(job) /\ SendsOK(j, job)'
  <2>1. \/ j = Len(jobs) + 1 /\ job = new
        \/ j \in DOMAIN jobs /\ job = jobs[j]
    BY <1>2, <1>5
  <2>2. WorkOK(job) /\ SendsOK(j, job)
    BY <1>4, <2>1 DEF JobsTrue
  <2> QED
    BY <1>3, <2>2, SendsStay
<1> QED
  BY <1>2, <1>5, EachWorks

\* The wallet's transactions are their calls' still.
CallsStay ==
    \A i \in DOMAIN jobs :
        /\ i \in DOMAIN jobs' /\ jobs'[i].op = jobs[i].op /\ jobs'[i].how = jobs[i].how
        /\ IsTrade(jobs[i]) => KeepsHeld(jobs[i], jobs'[i])

LEMMA IsForStays ==
    ASSUME UNCHANGED session, CallsStay, NEW i, NEW tx, IsFor(i, tx)
    PROVE  IsFor(i, tx)'
<1>1. Era' = Era
  BY SoundStays
<1>2. \A o, h : Fits(o, h, tx)' <=> Fits(o, h, tx)
  BY <1>1 DEF Fits
<1>3. PICK op, how, job, after : op = jobs[i].op /\ how = jobs[i].how /\ job = jobs[i] /\ after = jobs'[i]
  OBVIOUS
<1>4. i \in DOMAIN jobs /\ Fits(op, how, tx) /\ Sized(job, tx)
  BY <1>3 DEF IsFor
<1>5. i \in DOMAIN jobs' /\ jobs'[i].op = op /\ jobs'[i].how = how
  BY <1>3, <1>4 DEF CallsStay
<1>6. Fits(op, how, tx)'
  BY <1>2, <1>4
<1>7. Fits(jobs[i].op, jobs[i].how, tx)'
  BY <1>5, <1>6 DEF Fits
<1>8. Sized(after, tx)
  <2>1. after.op = job.op /\ after.how = job.how /\ (IsTrade(job) => KeepsHeld(job, after))
    BY <1>3, <1>4 DEF CallsStay
  <2> QED
    BY <1>4, <2>1, SizedStays
<1>9. Sized(jobs[i], tx)'
  BY <1>1, <1>3, <1>8 DEF Sized
<1> QED
  BY <1>5, <1>7, <1>9 DEF IsFor

LEMMA PoolBecomes ==
    ASSUME UNCHANGED session, CallsStay, \E S : pool' \in Seq(S),
           \A k \in DOMAIN pool' : \A entry : entry = pool'[k] =>
                /\ IsFor(entry.job, entry.tx) /\ entry.job \notin DOMAIN mined'
                /\ \A l \in 1..(k - 1) : pool'[l].job # entry.job,
           \A i \in DOMAIN mined' : \A met : met = mined'[i] => \E tx : IsFor(i, tx) /\ MinedAs(tx, met),
           ~session.trades => pool' = <<>> /\ mined' = << >>
    PROVE  PoolOK'
<1>1. \A tx, met : MinedAs(tx, met)' <=> MinedAs(tx, met)
  BY SoundStays DEF MinedAs
<1>2. ASSUME NEW k \in DOMAIN pool'
      PROVE  /\ IsFor(pool[k].job, pool[k].tx)'
             /\ pool'[k].job \notin DOMAIN mined' /\ \A l \in 1..(k - 1) : pool'[l].job # pool'[k].job
  <2>1. PICK entry : entry = pool'[k]
    OBVIOUS
  <2>2. IsFor(entry.job, entry.tx)'
    BY <1>2, <2>1, IsForStays
  <2>3. IsFor(pool[k].job, pool[k].tx)'
    BY <2>1, <2>2 DEF IsFor, Fits, Sized
  <2> QED
    BY <1>2, <2>1, <2>3
<1>3. ASSUME NEW i \in DOMAIN mined'
      PROVE  (\E tx : IsFor(i, tx) /\ MinedAs(tx, mined[i]))'
  <2>1. PICK met : met = mined'[i]
    OBVIOUS
  <2>2. PICK tx : IsFor(i, tx) /\ MinedAs(tx, met)
    BY <1>3, <2>1
  <2>3. IsFor(i, tx)' /\ MinedAs(tx, met)'
    BY <1>1, <2>2, IsForStays
  <2>4. MinedAs(tx, mined[i])'
    BY <2>1, <2>3 DEF MinedAs
  <2> QED
    BY <2>3, <2>4
<1> QED
  BY <1>2, <1>3 DEF PoolOK

LEMMA PoolStays ==
    ASSUME PoolOK, UNCHANGED <<session, trading>>, CallsStay
    PROVE  PoolOK'
<1>1. pool' = pool /\ mined' = mined
  BY DEF trading
<1>2. ASSUME NEW k \in DOMAIN pool', NEW entry, entry = pool'[k]
      PROVE  /\ IsFor(entry.job, entry.tx) /\ entry.job \notin DOMAIN mined'
             /\ \A l \in 1..(k - 1) : pool'[l].job # entry.job
  BY <1>1, <1>2 DEF PoolOK
<1>3. ASSUME NEW i \in DOMAIN mined', NEW met, met = mined'[i]
      PROVE  \E tx : IsFor(i, tx) /\ MinedAs(tx, met)
  BY <1>1, <1>3 DEF PoolOK
<1>4. (\E S : pool' \in Seq(S)) /\ (~session.trades => pool' = <<>> /\ mined' = << >>)
  BY <1>1 DEF PoolOK
<1> QED
  BY <1>2, <1>3, <1>4, PoolBecomes

-----------------------------------------------------------------------------
(* The chain grows by sound markets.                                       *)

LEMMA WorldsGrow ==
    ASSUME NodeInv, NodeInv', ChainGrows, WorldsOK, UNCHANGED session,
           \A h \in DOMAIN said' : \A w : w = said'[h].world => h \in DOMAIN said \/ SoundWorld(w)
    PROVE  WorldsOK'
<1>1. \A w : SoundWorld(w)' <=> SoundWorld(w)
  BY SoundStays
<1>2. ASSUME NEW h \in DOMAIN said' PROVE SoundWorld(said[h].world)'
  <2>1. PICK w : w = said'[h].world
    OBVIOUS
  <2>2. SoundWorld(w)
    BY <1>2, <2>1 DEF WorldsOK, ChainGrows
  <2>3. SoundWorld(w)'
    BY <1>1, <2>2
  <2> QED
    BY <2>1, <2>3 DEF SoundWorld
<1>3. ASSUME NEW w \in session'.worlds PROVE SoundWorld(w)'
  BY <1>1, <1>3 DEF WorldsOK
<1>4. Height' >= 3
  BY DEF NodeInv, WorldsOK, ChainGrows, Height
<1> QED
  BY <1>2, <1>3, <1>4 DEF WorldsOK

LEMMA ExtendKeepsWorlds ==
    ASSUME NodeInv, NodeInv', ChainGrows, WorldsOK, UNCHANGED session, NEW world, SoundWorld(world),
           NEW hashes, NEW worlds, Extend(hashes, worlds),
           \A i \in DOMAIN hashes : worlds[hashes[i][1]] = world
    PROVE  WorldsOK'
<1> DEFINE new == [h \in {hashes[i] : i \in DOMAIN hashes} |-> [world |-> worlds[h[1]], mined |-> clock]]
<1>1. said' = Over(new, said)
  BY DEF Extend
<1>2. \A h \in DOMAIN new : new[h].world = world
  OBVIOUS
<1> HIDE DEF new
<1>3. \A h \in DOMAIN said' : h \in DOMAIN said \/ said'[h].world = world
  BY <1>1, <1>2 DEF Over
<1> QED
  BY <1>3, WorldsGrow

LEMMA MiningKeepsWorlds ==
    ASSUME NodeInv, WorldsOK, UNCHANGED session, NEW world, SoundWorld(world),
           MineBlock(world) \/ Reorganize(world)
    PROVE  WorldsOK'
<1>1. NodeInv' /\ ChainGrows
  BY MineBlockKeepsNode, ReorganizeKeepsNode
<1>2. Height \in Nat
  BY DEF NodeInv, Height
<1>3. CASE MineBlock(world)
  <2> DEFINE hashes == <<Hash(Height + 1, forks)>>
             worlds == [n \in {Height + 1} |-> world]
  <2>1. Extend(hashes, worlds)
    BY <1>3 DEF MineBlock
  <2>2. \A i \in DOMAIN hashes : worlds[hashes[i][1]] = world
    BY DEF Hash
  <2> HIDE DEF hashes, worlds
  <2> QED
    BY <1>1, <2>1, <2>2, ExtendKeepsWorlds
<1>4. CASE Reorganize(world)
  <2> DEFINE hashes == [i \in 1..(Depth + 1) |-> Hash(Height - Depth + i, forks + 1)]
             new == (Height - Depth + 1)..(Height + 1)
             worlds == [n \in new |-> world]
  <2>1. Depth \in Nat /\ Height >= Depth + 1
    BY <1>2, <1>4, ChainAssumption DEF Reorganize
  <2>2. Extend(hashes, worlds)
    BY <1>4 DEF Reorganize
  <2>3. \A i \in DOMAIN hashes : hashes[i][1] \in new
    BY <1>2, <2>1 DEF Hash
  <2>4. \A i \in DOMAIN hashes : worlds[hashes[i][1]] = world
    BY <2>3
  <2> HIDE DEF hashes, worlds
  <2> QED
    BY <1>1, <2>2, <2>4, ExtendKeepsWorlds
<1> QED
  BY <1>3, <1>4

-----------------------------------------------------------------------------
(* What an operation is answered, and what becomes of it.                  *)

\* What a replica says of a sound market is what an operation computes with.
LEMMA SaysTells ==
    ASSUME NEW job, WorkOK(job), NEW r \in job.asked, NEW w, SoundWorld(w), NodeInv, WorldsOK
    PROVE  Tells(job, r, Value(Says(r, w)))
<1>1. \A v : Value(v).value = v
  BY DEF Value
<1>2. IsMarket(w)
  BY DEF SoundWorld
<1>3. r = R("next_pos_id") => Says(r, w) \in Nat \ {0}
  <2>1. NextPosId(w) \in Nat \ {0}
    BY <1>2, GoneIs, MintingIs
  <2> QED
    BY <2>1 DEF Says, R
<1>4. IsTrade(job) => IsCall(job) /\ TradeAsks(job.op, job.how, r)
  <2> SUFFICES ASSUME IsTrade(job) PROVE IsCall(job) /\ TradeAsks(job.op, job.how, r)
    OBVIOUS
  <2>1. IsCall(job)
    BY TradesAreNoReads DEF WorkOK, IsTrade
  <2>2. Era \in {Legacy, Upgradeable} /\ r \in Due(job)
    BY <2>1, EraIs DEF IsCall, WorkOK, WaitsOK, Out
  <2> QED
    BY <2>1, <2>2, TradeDue DEF WorkOK
<1>5. IsTrade(job) /\ r.call \in {"position", "maker_details"} => Says(r, w) \in Positions
  <2> SUFFICES ASSUME IsTrade(job), r.call \in {"position", "maker_details"} PROVE Says(r, w) \in Positions
    OBVIOUS
  <2>1. /\ job.op \in {"close_taker", "liquidate", "simulate_liquidation", "transfer_position"}
        /\ r \in {At("position", job.how.id), At("maker_details", job.how.id), At("owner_of", job.how.id)}
    BY <1>4 DEF TradeAsks, R
  <2>2. r.part[1] = job.how.id
    BY <2>1 DEF At
  <2>3. job.how.id \in Named
    BY <1>4, <2>1, CallIs DEF IsCall
  <2>4. Says(r, w) = w.positions[job.how.id]
    BY <2>2 DEF Says
  <2> QED
    BY <1>4, <2>3, <2>4, NamedIs DEF IsCall
<1>6. IsTrade(job) /\ r = R("pool_key") => Says(r, w) = Era
  BY <1>4 DEF Says, R, SoundWorld, IsCall
<1> QED
  BY <1>1, <1>3, <1>5, <1>6 DEF Tells

LEMMA ServedTells ==
    ASSUME NodeInv, WorldsOK, NEW job, JobOK(job), WorkOK(job), NEW r \in job.asked, NEW behind \in 0..Behind,
           NEW answer \in Served(job, r, behind)
    PROVE  Tells(job, r, answer) /\ (Failed(answer) => answer.failed \in ReadErrors)
<1> DEFINE latest == WorldAt(chain[Seen(behind)])
<1>1. SoundWorld(latest)
  <2>1. Height \in Nat /\ Height >= 3
    BY EraIs
  <2>2. Behind \in Nat /\ Behind < 3
    BY ChainAssumption, SessionAssumption
  <2>3. Seen(behind) \in 1..Height
    BY <2>1, <2>2 DEF Seen
  <2> QED
    BY <2>3, WorldIs
<1>2. \A v : ~Failed(Value(v)) /\ Value(v).value = v
  BY DEF Failed, Value
<1>3. \A kind : Failed(Failure(kind)) /\ Failure(kind).failed = kind
  BY DEF Failed, Failure
<1>4. MayAsk(job, r)
  BY DEF JobOK, AskedOK
<1>5. Pinned(job, r) => r.call \notin {"head", "header", "preflight"} /\ Resolved(job)
  BY <1>4 DEF Pinned, MayAsk, PinnedOps, Unpinned
<1>6. ASSUME r.call \in {"head", "header", "preflight"}
      PROVE  Tells(job, r, answer)
  BY <1>6 DEF Tells, R
<1>7. CASE r.call = "head"
  <2>1. answer = Value(Saturating(Seen(behind), Lagged(job.how)))
    BY <1>5, <1>7 DEF Served
  <2> QED
    BY <1>2, <1>6, <1>7, <2>1
<1>8. CASE r.call = "header"
  <2> DEFINE number == IF job.how = "number" THEN job.at ELSE Got(job.held, R("head"))
  <2>1. answer \in {IF number \in 1..Seen(behind) THEN Value(chain[number]) ELSE Missing}
    BY <1>5, <1>8 DEF Served
  <2>2. answer = Value(chain[number]) \/ answer = Failure("BlockUnavailable")
    BY <2>1 DEF Missing
  <2> HIDE DEF number
  <2> QED
    BY <1>2, <1>3, <1>6, <1>8, <2>2 DEF ReadErrors
<1>9. CASE Pinned(job, r)
  <2>1. answer \in PinnedAnswers(r, BlockOf(job), behind)
    BY <1>5, <1>9 DEF Served
  <2>2. answer = Value(Says(r, WorldAt(BlockOf(job)))) \/ answer = Failure("BlockUnavailable")
    BY <2>1 DEF PinnedAnswers, Missing
  <2>3. BlockOf(job) \in DOMAIN said
    BY <1>5, <1>9, ResolvedIsKnown DEF JobOK
  <2>4. SoundWorld(WorldAt(BlockOf(job)))
    BY <2>3 DEF WorldsOK, WorldAt
  <2>5. Tells(job, r, Value(Says(r, WorldAt(BlockOf(job)))))
    BY <2>4, SaysTells
  <2>6. CASE answer = Value(Says(r, WorldAt(BlockOf(job))))
    BY <1>2, <2>5, <2>6
  <2>7. CASE answer = Failure("BlockUnavailable")
    BY <1>3, <2>7 DEF Tells, ReadErrors
  <2> QED
    BY <2>2, <2>6, <2>7
<1>10. CASE r.call = "preflight"
  <2>1. answer \in {IF Reverts(r.tx, Holder, latest) THEN Failure("SimulationReverted") ELSE Value(0)}
    BY <1>5, <1>10 DEF Served
  <2>2. answer = Failure("SimulationReverted") \/ answer = Value(0)
    BY <2>1
  <2> QED
    BY <1>2, <1>3, <1>6, <1>10, <2>2 DEF ReadErrors
<1>11. CASE r.call \notin {"head", "header", "preflight"} /\ ~Pinned(job, r)
  <2>1. answer = Value(Says(r, latest))
    BY <1>11 DEF Served
  <2>2. Tells(job, r, Value(Says(r, latest)))
    BY <1>1, SaysTells
  <2> HIDE DEF latest
  <2> QED
    BY <1>2, <2>1, <2>2
<1> QED
  BY <1>7, <1>8, <1>9, <1>10, <1>11

LEMMA FaultTells ==
    ASSUME NEW job, NEW r, NEW answer \in Faults(job, r)
    PROVE  Tells(job, r, answer) /\ (Failed(answer) => answer.failed \in ReadErrors)
<1>1. \A v : ~Failed(Value(v))
  BY DEF Failed, Value
<1>2. \A kind : Failed(Failure(kind)) /\ Failure(kind).failed = kind
  BY DEF Failed, Failure
<1>3. \/ \E kind \in {"Rpc", "StateUnavailable", "short"} : answer = Failure(kind)
      \/ r.call \in {"rows", "get_proof"} /\ \E v : answer = Value(v)
  BY DEF Faults
<1> QED
  BY <1>1, <1>2, <1>3 DEF Tells, ReadErrors, R

\* One operation is answered, and the others wait.
LEMMA TakeWorks ==
    ASSUME NodeInv, WorldsOK, JobsTrue, UNCHANGED session,
           NEW i \in DOMAIN jobs, NEW request \in jobs[i].asked, NEW answer, Tells(jobs[i], request, answer),
           IF request.call = "send" THEN AnswerOK(i, answer)'
           ELSE FateStays(i) /\ (Failed(answer) => answer.failed \in ReadErrors),
           \A j \in DOMAIN jobs : j # i => FateStays(j),
           Take(i, request, answer)
    PROVE  JobsTrue' /\ CallsStay
<1>1. PICK job : job = jobs[i]
  OBVIOUS
<1>2. WorkOK(job) /\ SendsOK(i, job) /\ request \in job.asked /\ Tells(job, request, answer)
  BY <1>1 DEF JobsTrue
<1> DEFINE after == Took(job, request, answer)
<1>3. /\ WorkOK(after) /\ after.op = job.op /\ after.how = job.how /\ after.held = job.held
      /\ Sends(after) = Sends(job)
      /\ DOMAIN after.answers = DOMAIN job.answers \cup {request} /\ after.answers[request] = answer
      /\ \A r \in DOMAIN job.answers : r # request => after.answers[r] = job.answers[r]
  BY <1>2, TookWorks
<1>4. jobs' = [jobs EXCEPT ![i] = after]
  BY <1>1 DEF Take, Took
<1> HIDE DEF after
<1>5. SendsOK(i, after)'
  <2>1. CASE request.call = "send"
    <3>1. Out(job) = {request} /\ ~Sent(job.held)
      BY <1>2, <2>1, SendAlone DEF Out
    <3>2. DOMAIN job.answers = {}
      BY <1>2, <3>1 DEF Out, WorkOK
    <3>3. DOMAIN after.answers = {request} /\ after.answers[request] = answer
      BY <1>3, <3>2
    <3>4. AnswerOK(i, answer)'
      BY <2>1
    <3>5. Sends(after) # {}
      BY <2>1, <3>3 DEF Sends, Out
    <3> QED
      BY <1>3, <3>1, <3>3, <3>4, <3>5 DEF SendsOK, Sent
  <2>2. CASE request.call # "send"
    <3>1. SendsOK(i, job)'
      BY <1>2, <2>2, SendsStay
    <3>2. \A r \in DOMAIN after.answers : r.call = "send" => r \in DOMAIN job.answers /\ after.answers[r] = job.answers[r]
      BY <1>3, <2>2
    <3> QED
      BY <1>3, <3>1, <3>2 DEF SendsOK
  <2> QED
    BY <2>1, <2>2
<1>6. JobsTrue'
  BY <1>3, <1>4, <1>5, OneWorks
<1>7. CallsStay
  BY <1>1, <1>3, <1>4 DEF CallsStay, KeepsHeld
<1> QED
  BY <1>6, <1>7

-----------------------------------------------------------------------------
(* The steps of a read.                                                    *)

LEMMA FatesStay ==
    ASSUME UNCHANGED trading
    PROVE  \A i : FateStays(i)
BY DEF trading, FateStays, Submitted

LEMMA MoreStay ==
    ASSUME NEW new, \E S : jobs \in Seq(S), jobs' = Append(jobs, new)
    PROVE  CallsStay
<1>1. PICK S : jobs \in Seq(S)
  OBVIOUS
<1>2. /\ DOMAIN jobs' = 1..(Len(jobs) + 1) /\ DOMAIN jobs = 1..Len(jobs) /\ Len(jobs) \in Nat
      /\ \A j \in 1..Len(jobs) : jobs'[j] = jobs[j]
  BY <1>1
<1> QED
  BY <1>2 DEF CallsStay, KeepsHeld

LEMMA ServableIsNoSend ==
    ASSUME NEW job, NEW r \in Servable(job)
    PROVE  r \in job.asked /\ r.call # "send"
<1>1. CASE \A q \in job.asked : Alone(q)
  <2>1. r \in job.asked
    BY ServableIsAsked
  <2>2. Alone(r)
    BY <1>1, <2>1
  <2> QED
    BY <2>1, <2>2 DEF Alone
<1>2. CASE ~(\A q \in job.asked : Alone(q))
  BY <1>2 DEF Servable
<1> QED
  BY <1>1, <1>2

LEMMA ServeWorks ==
    ASSUME NodeInv, WorldsOK, JobsOK, JobsTrue, UNCHANGED trading,
           NEW i \in DOMAIN jobs, NEW r \in Servable(jobs[i]), Serve(i, r) \/ Fault(i, r)
    PROVE  JobsTrue' /\ CallsStay
<1>1. r \in jobs[i].asked /\ r.call # "send"
  BY ServableIsNoSend
<1>2. UNCHANGED session /\ \A j : FateStays(j)
  BY FatesStay DEF Serve, Fault
<1>3. JobOK(jobs[i]) /\ WorkOK(jobs[i])
  BY DEF JobsOK, JobsTrue
<1>4. \A kind : Failed(Failure(kind)) /\ Failure(kind).failed = kind
  BY DEF Failed, Failure
<1>5. PICK answer : /\ Take(i, r, answer) /\ Tells(jobs[i], r, answer)
                    /\ Failed(answer) => answer.failed \in ReadErrors
  <2>1. CASE Fault(i, r)
    <3>1. PICK answer \in Faults(jobs[i], r) : Take(i, r, answer)
      BY <2>1 DEF Fault
    <3>2. Tells(jobs[i], r, answer) /\ (Failed(answer) => answer.failed \in ReadErrors)
      BY FaultTells
    <3> QED
      BY <3>1, <3>2
  <2>2. CASE Serve(i, r) /\ Unproved(r)
    <3> DEFINE answer == Failure("unsupported")
    <3>1. Take(i, r, answer)
      BY <2>2 DEF Serve
    <3>2. Failed(answer) /\ answer.failed \in ReadErrors
      BY <1>4 DEF ReadErrors
    <3> HIDE DEF answer
    <3>3. Tells(jobs[i], r, answer)
      BY <3>2 DEF Tells
    <3> QED
      BY <3>1, <3>2, <3>3
  <2>3. CASE Serve(i, r) /\ ~Unproved(r)
    <3>1. PICK behind \in 0..Behind : \E answer \in Served(jobs[i], r, behind) : Take(i, r, answer)
      BY <2>3 DEF Serve
    <3>2. PICK answer \in Served(jobs[i], r, behind) : Take(i, r, answer)
      BY <3>1
    <3>3. Tells(jobs[i], r, answer) /\ (Failed(answer) => answer.failed \in ReadErrors)
      BY <1>1, <1>3, ServedTells
    <3> QED
      BY <3>2, <3>3
  <2> QED
    BY <2>1, <2>2, <2>3
<1> QED
  BY <1>1, <1>2, <1>5, TakeWorks

LEMMA PollWorks ==
    ASSUME NodeInv, WorldsOK, JobsOK, JobsTrue, UNCHANGED trading, NEW i \in DOMAIN jobs, Poll(i)
    PROVE  JobsTrue' /\ CallsStay
<1>1. PICK job : job = jobs[i]
  OBVIOUS
<1>2. JobOK(job) /\ WorkOK(job) /\ SendsOK(i, job)
  BY <1>1 DEF JobsOK, JobsTrue
<1>3. UNCHANGED session /\ (\A j : FateStays(j)) /\ (\A answer : AnswerOK(i, answer)' <=> AnswerOK(i, answer))
      /\ (Submitted(i)' <=> Submitted(i))
  <2>1. UNCHANGED session
    BY DEF Poll
  <2>2. \A j : FateStays(j)
    BY FatesStay
  <2> QED
    BY <2>1, <2>2 DEF trading, AnswerOK, Submitted
<1>4. ASSUME NEW after, WorkOK(after), after.op = job.op, after.how = job.how, SendsOK(i, after),
             IsTrade(job) => KeepsHeld(job, after),
             jobs' = [jobs EXCEPT ![i] = after]
      PROVE  JobsTrue' /\ CallsStay
  <2>1. SendsOK(i, after)'
    BY <1>3, <1>4, SendsStay
  <2>2. JobsTrue'
    BY <1>3, <1>4, <2>1, OneWorks
  <2>3. CallsStay
    BY <1>1, <1>4 DEF CallsStay, KeepsHeld
  <2> QED
    BY <2>2, <2>3
<1>5. ASSUME NEW r \in DOMAIN job.answers, Broken(job, r),
             jobs' = [jobs EXCEPT ![i] = [job EXCEPT !.done = TRUE, !.asked = {}, !.refused = {r}]]
      PROVE  JobsTrue' /\ CallsStay
  <2> DEFINE after == [job EXCEPT !.done = TRUE, !.asked = {}, !.refused = {r}]
  <2>1. /\ WorkOK(after) /\ after.op = job.op /\ after.how = job.how
        /\ after.held = job.held /\ after.answers = job.answers
        /\ Sends(job) # {} => Sends(after) # {}
    BY <1>2, <1>5, RefusedWorks
  <2>2. jobs' = [jobs EXCEPT ![i] = after]
    BY <1>5
  <2> HIDE DEF after
  <2>3. SendsOK(i, after) /\ KeepsHeld(job, after)
    BY <1>2, <2>1 DEF SendsOK, KeepsHeld
  <2> QED
    BY <1>4, <2>1, <2>2, <2>3
<1>6. ASSUME job.answers # << >>, ~job.done, \A r \in DOMAIN job.answers : ~Broken(job, r),
             job.asked = {} \/ \A r \in DOMAIN job.answers : Alone(r),
             jobs' = [jobs EXCEPT ![i] =
                        Resume([job EXCEPT !.held = Over(job.answers, @), !.answers = << >>, !.asked = {}], clock)]
      PROVE  JobsTrue' /\ CallsStay
  <2> DEFINE after == Resume([job EXCEPT !.held = Over(job.answers, @), !.answers = << >>, !.asked = {}], clock)
  <2>1. /\ WorkOK(after) /\ after.op = job.op /\ after.how = job.how /\ after.answers = << >>
        /\ \A r \in DOMAIN after.held : r.call = "send" =>
             \/ r \in DOMAIN job.answers /\ after.held[r] = job.answers[r]
             \/ r \in DOMAIN job.held /\ after.held[r] = job.held[r]
        /\ Sends(job) # {} => Sends(after) # {}
        /\ IsTrade(job) => KeepsHeld(job, after)
    BY <1>2, <1>6, AnsweredWorks
  <2>2. jobs' = [jobs EXCEPT ![i] = after]
    BY <1>6
  <2> HIDE DEF after
  <2>3. DOMAIN after.answers = {}
    BY <2>1
  <2>4. SendsOK(i, after)
    BY <1>2, <2>1, <2>3 DEF SendsOK
  <2> QED
    BY <1>4, <2>1, <2>2, <2>4
<1> DEFINE broken == {r \in DOMAIN job.answers : Broken(job, r)}
<1>7. CASE broken # {} /\ \E r \in broken :
                jobs' = [jobs EXCEPT ![i] = [job EXCEPT !.done = TRUE, !.asked = {}, !.refused = {r}]]
  BY <1>5, <1>7
<1>8. CASE /\ job.answers # << >> /\ ~job.done
           /\ broken = {} /\ (job.asked = {} \/ \A r \in DOMAIN job.answers : Alone(r))
           /\ jobs' = [jobs EXCEPT ![i] =
                        Resume([job EXCEPT !.held = Over(job.answers, @), !.answers = << >>, !.asked = {}], clock)]
  BY <1>6, <1>8
<1> QED
  BY <1>1, <1>7, <1>8 DEF Poll

LEMMA BeginReadWorks ==
    ASSUME NodeInv, WorldsOK, JobsTrue, PoolOK, UNCHANGED trading, BeginRead
    PROVE  JobsTrue' /\ CallsStay
<1>1. session \in Sessions /\ ~session.trades /\ UNCHANGED session
  BY DEF WorldsOK, BeginRead, Begin
<1>2. PICK op, how, number : op \in session.ops /\ Begin(op, how, number)
  BY DEF BeginRead
<1> DEFINE new == Resume(NewJob(op, how, number), clock)
<1>3. op \in ReadOps
  BY <1>1, <1>2, SessionAssumption
<1>4. WorkOK(new) /\ DOMAIN new.answers = {} /\ ~Sent(new.held)
  BY <1>3, NewWorks
<1>5. jobs' = Append(jobs, new)
  BY <1>2 DEF Begin
<1> HIDE DEF new
<1>6. JobsTrue'
  BY <1>1, <1>4, <1>5, OneBegins
<1>7. CallsStay
  BY <1>5, MoreStay DEF JobsTrue
<1> QED
  BY <1>6, <1>7

LEMMA ReadsWork ==
    ASSUME NodeInv, JobsOK, TradeInv, ReadsNext, UNCHANGED trading
    PROVE  JobsTrue' /\ PoolOK'
<1>1. WorldsOK /\ JobsTrue /\ PoolOK
  BY DEF TradeInv
<1>2. UNCHANGED session
  BY DEF ReadsNext, BeginRead, Begin, Serve, Fault, Poll, Invalidate
<1>3. JobsTrue' /\ CallsStay
  <2>1. CASE BeginRead
    BY <1>1, <2>1, BeginReadWorks
  <2>2. CASE \E i \in DOMAIN jobs : \E r \in Servable(jobs[i]) : Serve(i, r) \/ Fault(i, r)
    BY <1>1, <2>2, ServeWorks
  <2>3. CASE \E i \in DOMAIN jobs : Poll(i)
    BY <1>1, <2>3, PollWorks
  <2>4. CASE Invalidate
    <3>1. UNCHANGED <<session, jobs>> /\ \A i : FateStays(i)
      BY <2>4, FatesStay DEF Invalidate
    <3> QED
      BY <1>1, <3>1, AllStay DEF CallsStay, KeepsHeld
  <2> QED
    BY <2>1, <2>2, <2>3, <2>4 DEF ReadsNext
<1> QED
  BY <1>1, <1>2, <1>3, PoolStays DEF trading

-----------------------------------------------------------------------------
(* The steps of a trade.                                                   *)

\* A call that is refused asks for nothing, ever.
LEMMA InvalidWorks ==
    ASSUME session.trades, NEW op, NEW how, Calling(op, how)
    PROVE  LET job == [NewJob(op, how, 0) EXCEPT !.done = TRUE, !.refused = {R("invalid")}] IN
           WorkOK(job) /\ DOMAIN job.answers = {} /\ ~Sent(job.held)
<1> DEFINE job == [NewJob(op, how, 0) EXCEPT !.done = TRUE, !.refused = {R("invalid")}]
<1>1. /\ IsJob(job) /\ job.op = op /\ job.how = how /\ job.held = << >> /\ DOMAIN job.held = {}
      /\ job.asked = {} /\ job.answers = << >> /\ DOMAIN job.answers = {}
      /\ job.done = TRUE /\ job.refused = {R("invalid")}
  BY DEF NewJob, IsJob
<1>2. op \in TradeOps
  BY CallIs
<1> HIDE DEF job
<1>3. IsCall(job) /\ job.op \notin ReadOps
  BY <1>1, <1>2, TradesAreNoReads DEF IsCall, IsTrade
<1>4. HoldsOK(job) /\ ToldOK(job) /\ ~Sent(job.held)
  BY <1>1 DEF HoldsOK, ToldOK, Sent
<1>5. WaitsOK(job)
  BY <1>1, <1>3, <1>4 DEF WaitsOK, Out
<1>6. EndsOK(job)
  BY <1>1 DEF EndsOK
<1>7. job.asked \cap DOMAIN job.answers = {} /\ ~(job.answers # << >>)
  BY <1>1
<1> QED
  BY <1>1, <1>3, <1>4, <1>5, <1>6, <1>7 DEF WorkOK, job

LEMMA BeginTradeWorks ==
    ASSUME NodeInv, WorldsOK, JobsTrue, PoolOK, session.trades,
           NEW call \in Calls, BeginTrade(call.op, call.params)
    PROVE  JobsTrue' /\ PoolOK'
<1>1. PICK op, how : op = call.op /\ how = call.params
  OBVIOUS
<1>2. Calling(op, how) /\ op \in TradeOps
  BY <1>1, CallIs DEF Calling
<1>3. PICK new : /\ WorkOK(new) /\ DOMAIN new.answers = {} /\ ~Sent(new.held)
                 /\ jobs' = Append(jobs, new)
  <2>1. CASE Invalid(op, how)
    <3> DEFINE new == [NewJob(op, how, 0) EXCEPT !.done = TRUE, !.refused = {R("invalid")}]
    <3>1. WorkOK(new) /\ DOMAIN new.answers = {} /\ ~Sent(new.held)
      BY <1>2, InvalidWorks
    <3>2. jobs' = Append(jobs, new)
      BY <1>1, <2>1 DEF BeginTrade
    <3> HIDE DEF new
    <3> QED
      BY <3>1, <3>2
  <2>2. CASE ~Invalid(op, how)
    <3> DEFINE new == Resume(NewJob(op, how, 0), clock)
    <3>1. WorkOK(new) /\ DOMAIN new.answers = {} /\ ~Sent(new.held)
      BY <1>2, NewWorks
    <3>2. jobs' = Append(jobs, new)
      BY <1>1, <2>2 DEF BeginTrade
    <3> HIDE DEF new
    <3> QED
      BY <3>1, <3>2
  <2> QED
    BY <2>1, <2>2
<1>4. UNCHANGED <<session, trading>>
  BY DEF BeginTrade
<1>5. JobsTrue'
  BY <1>3, <1>4, OneBegins
<1>6. CallsStay
  BY <1>3, MoreStay DEF JobsTrue
<1> QED
  BY <1>4, <1>5, <1>6, PoolStays

\* A transaction joins the wallet's, and no other operation's fate is another.
LEMMA JoinKeeps ==
    ASSUME PoolOK, session.trades, UNCHANGED <<session, mined>>, CallsStay,
           NEW i, NEW request, Join(i, request), ~Submitted(i), IsFor(i, request.tx)
    PROVE  PoolOK' /\ \A j : j # i => FateStays(j)
<1> DEFINE new == [job |-> i, tx |-> request.tx]
<1>1. PICK S : pool \in Seq(S)
  BY DEF PoolOK
<1>2. new.job = i /\ new.tx = request.tx
  OBVIOUS
<1>3. pool' = Append(pool, new)
  BY DEF Join
<1> HIDE DEF new
<1>4. /\ pool' \in Seq(S \cup {new}) /\ DOMAIN pool' = 1..(Len(pool) + 1) /\ DOMAIN pool = 1..Len(pool)
      /\ Len(pool) \in Nat
      /\ \A k \in 1..Len(pool) : pool'[k] = pool[k]
      /\ pool'[Len(pool) + 1] = new
  BY <1>1, <1>3, Appended
<1>5. ASSUME NEW k \in DOMAIN pool', NEW entry, entry = pool'[k]
      PROVE  /\ IsFor(entry.job, entry.tx) /\ entry.job \notin DOMAIN mined'
             /\ \A l \in 1..(k - 1) : pool'[l].job # entry.job
  <2>1. CASE k = Len(pool) + 1
    <3>1. entry = new
      BY <1>4, <1>5, <2>1
    <3>2. \A l \in 1..(k - 1) : l \in DOMAIN pool /\ pool'[l] = pool[l]
      BY <1>4, <2>1
    <3> QED
      BY <1>2, <3>1, <3>2 DEF Submitted
  <2>2. CASE k # Len(pool) + 1
    <3>1. k \in DOMAIN pool /\ entry = pool[k]
      BY <1>4, <1>5, <2>2
    <3>2. \A l \in 1..(k - 1) : pool'[l] = pool[l]
      BY <1>4, <3>1
    <3> QED
      BY <3>1, <3>2 DEF PoolOK
  <2> QED
    BY <2>1, <2>2
<1>6. ASSUME NEW j \in DOMAIN mined', NEW met, met = mined'[j]
      PROVE  \E tx : IsFor(j, tx) /\ MinedAs(tx, met)
  BY <1>6 DEF PoolOK
<1>7. PoolOK'
  BY <1>4, <1>5, <1>6, PoolBecomes
<1>8. ASSUME NEW j, j # i PROVE FateStays(j)
  <2>1. \A k \in DOMAIN pool : k \in DOMAIN pool' /\ pool'[k] = pool[k]
    BY <1>4
  <2>2. \A k \in DOMAIN pool' : k \in DOMAIN pool \/ pool'[k].job = i
    BY <1>2, <1>4
  <2>3. (\E k \in DOMAIN pool' : pool'[k].job = j) <=> (\E k \in DOMAIN pool : pool[k].job = j)
    BY <1>8, <2>1, <2>2
  <2> QED
    BY <2>3 DEF FateStays, Submitted
<1> QED
  BY <1>7, <1>8

\* A send is in the node's hands, answered or not.
LEMMA SendWorks ==
    ASSUME NodeInv, WorldsOK, JobsTrue, PoolOK, session.trades,
           NEW i \in DOMAIN jobs, NEW r \in jobs[i].asked, r.call = "send",
           Submit(i, r) \/ SendFails(i, r) \/ Receipt(i, r) \/ TimeOut(i, r)
    PROVE  JobsTrue' /\ PoolOK'
<1>1. PICK job : job = jobs[i]
  OBVIOUS
<1>2. WorkOK(job) /\ SendsOK(i, job) /\ r \in job.asked
  BY <1>1 DEF JobsTrue
<1>3. Out(job) = {r} /\ ~Sent(job.held) /\ Fits(job.op, job.how, r.tx) /\ Sized(job, r.tx)
  BY <1>2, SendAlone DEF Out
<1>4. IsFor(i, r.tx)
  BY <1>1, <1>3 DEF IsFor
<1>5. UNCHANGED session
  BY DEF Submit, SendFails, Receipt, TimeOut
<1>6. \A kind : Failed(Failure(kind)) /\ Failure(kind).failed = kind
  BY DEF Failed, Failure
<1>7. \A answer : Tells(jobs[i], r, answer)
  BY DEF Tells, R
<1>8. ASSUME NEW answer, Take(i, r, answer), AnswerOK(i, answer)', \A j : j # i => FateStays(j)
      PROVE  JobsTrue' /\ CallsStay
  BY <1>5, <1>7, <1>8, TakeWorks
<1>9. ASSUME NEW answer, Take(i, r, answer), AnswerOK(i, answer)', UNCHANGED trading
      PROVE  JobsTrue' /\ PoolOK'
  <2>1. \A j : FateStays(j)
    BY <1>9, FatesStay
  <2> QED
    BY <1>5, <1>8, <1>9, <2>1, PoolStays
<1>10. ASSUME NEW kind \in UnconfirmedErrors PROVE AnswerOK(i, Failure(kind))'
  <2>1. PICK answer : answer = Failure(kind)
    OBVIOUS
  <2>2. AnswerOK(i, answer)'
    BY <1>6, <2>1 DEF AnswerOK
  <2> QED
    BY <2>1, <2>2
<1>11. ASSUME NEW kind \in UnsentErrors, ~Submitted(i), UNCHANGED trading PROVE AnswerOK(i, Failure(kind))'
  <2>1. ~Submitted(i)'
    BY <1>11 DEF Submitted, trading
  <2>2. PICK answer : answer = Failure(kind)
    OBVIOUS
  <2>3. AnswerOK(i, answer)'
    BY <1>6, <1>11, <2>1, <2>2 DEF AnswerOK
  <2> QED
    BY <2>2, <2>3
<1>12. ASSUME UNCHANGED <<jobs, mined>>, Join(i, r), ~Submitted(i) PROVE JobsTrue' /\ PoolOK'
  <2>1. CallsStay
    BY <1>12 DEF CallsStay, KeepsHeld
  <2>2. PoolOK' /\ \A j : j # i => FateStays(j)
    BY <1>4, <1>5, <1>12, <2>1, JoinKeeps
  <2>3. DOMAIN job.answers = {} /\ r \in Sends(job)
    BY <1>2, <1>3 DEF WorkOK, Out, Sends
  <2>4. SendsOK(i, job)'
    BY <1>3, <2>3 DEF SendsOK, Sent
  <2>5. jobs' = [jobs EXCEPT ![i] = job]
    BY <1>1, <1>12 DEF JobsTrue
  <2> QED
    BY <1>2, <1>5, <2>2, <2>4, <2>5, OneWorks
<1>13. CASE Submit(i, r)
  <2>1. PICK behind \in 0..Behind :
            IF Reverts(r.tx, Holder, WorldAt(chain[Seen(behind)]))
            THEN Take(i, r, Failure("SimulationReverted")) /\ UNCHANGED pool
            ELSE Join(i, r) /\ UNCHANGED jobs
    BY <1>13 DEF Submit
  <2>2. ~Submitted(i) /\ UNCHANGED mined /\ "SimulationReverted" \in UnsentErrors
    BY <1>13 DEF Submit, UnsentErrors
  <2> QED
    BY <1>9, <1>11, <1>12, <2>1, <2>2 DEF trading
<1>14. CASE SendFails(i, r)
  <2>1. ~Submitted(i) /\ UNCHANGED mined
    BY <1>14 DEF SendFails
  <2>2. CASE \E error \in UnsentErrors \ {"SimulationReverted"} : Take(i, r, Failure(error)) /\ UNCHANGED pool
    BY <1>9, <1>11, <2>1, <2>2 DEF trading
  <2>3. CASE Take(i, r, Failure("BroadcastFailed")) /\ (UNCHANGED pool \/ Join(i, r))
    <3> DEFINE answer == Failure("BroadcastFailed")
    <3>1. AnswerOK(i, answer)'
      BY <1>10 DEF UnconfirmedErrors
    <3>2. CASE UNCHANGED pool
      BY <1>9, <2>1, <2>3, <3>1, <3>2 DEF trading
    <3>3. CASE Join(i, r)
      <4>1. CallsStay
        <5>1. jobs' = [jobs EXCEPT ![i] = Took(job, r, answer)]
          BY <1>1, <2>3 DEF Take, Took
        <5>2. /\ Took(job, r, answer).op = job.op /\ Took(job, r, answer).how = job.how
              /\ Took(job, r, answer).held = job.held
          BY <1>2 DEF Took, WorkOK, IsJob
        <5> QED
          BY <1>1, <5>1, <5>2 DEF CallsStay, KeepsHeld
      <4>2. PoolOK' /\ \A j : j # i => FateStays(j)
        BY <1>4, <1>5, <2>1, <3>3, <4>1, JoinKeeps
      <4> QED
        BY <1>8, <2>3, <3>1, <4>2
    <3> QED
      BY <2>3, <3>2, <3>3
  <2> QED
    BY <1>14, <2>2, <2>3 DEF SendFails
<1>15. CASE Receipt(i, r)
  <2>1. i \in DOMAIN mined /\ UNCHANGED trading
    BY <1>15 DEF Receipt
  <2>2. CASE mined[i].reverted
    <3>1. PICK error \in {"Reverted", "OutOfGas"} : Take(i, r, Failure(error))
      BY <1>15, <2>2 DEF Receipt
    <3>2. PICK answer : answer = Failure(error)
      OBVIOUS
    <3>3. AnswerOK(i, answer)'
      BY <1>6, <2>1, <2>2, <3>1, <3>2 DEF AnswerOK, trading
    <3> QED
      BY <1>9, <2>1, <3>1, <3>2, <3>3
  <2>3. CASE ~mined[i].reverted
    <3>1. PICK answer : answer = Value(mined[i])
      OBVIOUS
    <3>2. Take(i, r, answer)
      BY <1>15, <2>3, <3>1 DEF Receipt
    <3>3. AnswerOK(i, answer)'
      BY <2>1, <2>3, <3>1 DEF AnswerOK, trading, Value, Failed
    <3> QED
      BY <1>9, <2>1, <3>2, <3>3
  <2> QED
    BY <2>2, <2>3
<1>16. CASE TimeOut(i, r)
  <2>1. Take(i, r, Failure("ReceiptTimeout")) /\ UNCHANGED trading
    BY <1>16 DEF TimeOut
  <2>2. AnswerOK(i, Failure("ReceiptTimeout"))'
    BY <1>10 DEF UnconfirmedErrors
  <2> QED
    BY <1>9, <2>1, <2>2
<1> QED
  BY <1>13, <1>14, <1>15, <1>16

\* The oldest of the wallet's transactions, and the rest of them.
LEMMA OldestFirst ==
    ASSUME NEW S, NEW s \in Seq(S), s # <<>>
    PROVE  /\ Len(s) \in Nat /\ DOMAIN s = 1..Len(s) /\ 1 \in DOMAIN s /\ Head(s) = s[1]
           /\ Tail(s) \in Seq(S) /\ DOMAIN Tail(s) = 1..(Len(s) - 1)
           /\ \A k \in 1..(Len(s) - 1) : Tail(s)[k] = s[k + 1] /\ k + 1 \in DOMAIN s
OBVIOUS

\* Mining the oldest leaves the others where they were, and tells of none that
\* was mined before.
LEMMA MiningKeepsPool ==
    ASSUME PoolOK, session.trades, UNCHANGED <<session, jobs>>, pool # <<>>, pool' = Tail(pool),
           NEW met, mined' = Put(mined, Head(pool).job, met), MinedAs(Head(pool).tx, met)
    PROVE  PoolOK' /\ \A j : FateStays(j)
<1>1. PICK S : pool \in Seq(S)
  BY DEF PoolOK
<1>2. PICK first : first = Head(pool)
  OBVIOUS
<1>3. /\ Len(pool) \in Nat /\ DOMAIN pool = 1..Len(pool) /\ 1 \in DOMAIN pool /\ first = pool[1]
      /\ pool' \in Seq(S) /\ DOMAIN pool' = 1..(Len(pool) - 1)
      /\ \A k \in 1..(Len(pool) - 1) : pool'[k] = pool[k + 1] /\ k + 1 \in DOMAIN pool
  BY <1>1, <1>2, OldestFirst
<1>4. /\ DOMAIN mined' = DOMAIN mined \cup {first.job} /\ mined'[first.job] = met
      /\ \A y \in DOMAIN mined : y # first.job => mined'[y] = mined[y]
  <2>1. PICK key : key = first.job
    OBVIOUS
  <2>2. mined' = Put(mined, key, met)
    BY <1>2, <2>1
  <2> QED
    BY <2>1, <2>2 DEF Put
<1>5. first.job \notin DOMAIN mined /\ IsFor(first.job, first.tx) /\ MinedAs(first.tx, met)
  BY <1>2, <1>3 DEF PoolOK
<1>6. ASSUME NEW k \in DOMAIN pool', NEW entry, entry = pool'[k]
      PROVE  /\ IsFor(entry.job, entry.tx) /\ entry.job \notin DOMAIN mined'
             /\ \A l \in 1..(k - 1) : pool'[l].job # entry.job
  <2>1. k + 1 \in DOMAIN pool /\ entry = pool[k + 1] /\ k \in 1..(Len(pool) - 1)
    BY <1>3, <1>6
  <2>2. 1 \in 1..(k + 1 - 1)
    BY <1>3, <2>1
  <2>3. entry.job # first.job
    BY <1>3, <2>1, <2>2 DEF PoolOK
  <2>4. IsFor(entry.job, entry.tx) /\ entry.job \notin DOMAIN mined
    BY <2>1 DEF PoolOK
  <2>5. ASSUME NEW l \in 1..(k - 1) PROVE pool'[l].job # entry.job
    <3>1. l \in 1..(Len(pool) - 1) /\ l + 1 \in 1..(k + 1 - 1)
      BY <1>3, <2>1
    <3>2. pool'[l] = pool[l + 1]
      BY <1>3, <3>1
    <3> QED
      BY <2>1, <3>1, <3>2 DEF PoolOK
  <2> QED
    BY <1>4, <2>3, <2>4, <2>5
<1>7. ASSUME NEW j \in DOMAIN mined', NEW what, what = mined'[j]
      PROVE  \E tx : IsFor(j, tx) /\ MinedAs(tx, what)
  <2>1. CASE j = first.job
    BY <1>4, <1>5, <1>7, <2>1
  <2>2. CASE j # first.job
    BY <1>4, <1>7, <2>2 DEF PoolOK
  <2> QED
    BY <2>1, <2>2
<1>8. PoolOK'
  BY <1>3, <1>6, <1>7, PoolBecomes DEF CallsStay, KeepsHeld
<1>9. ASSUME NEW j PROVE FateStays(j)
  <2>1. (\E k \in DOMAIN pool : pool[k].job = j) <=> j = first.job \/ (\E k \in DOMAIN pool' : pool'[k].job = j)
    <3>1. ASSUME NEW k \in DOMAIN pool, k # 1 PROVE k - 1 \in DOMAIN pool' /\ pool'[k - 1] = pool[k]
      <4>1. k - 1 \in 1..(Len(pool) - 1) /\ k - 1 + 1 = k
        BY <1>3, <3>1
      <4> QED
        BY <1>3, <4>1
    <3>2. \A k \in DOMAIN pool' : k + 1 \in DOMAIN pool /\ pool'[k] = pool[k + 1]
      BY <1>3
    <3>3. ASSUME NEW k \in DOMAIN pool, pool[k].job = j, j # first.job PROVE \E l \in DOMAIN pool' : pool'[l].job = j
      <4>1. k # 1
        BY <1>3, <3>3
      <4> QED
        BY <3>1, <3>3, <4>1
    <3>4. ASSUME NEW k \in DOMAIN pool', pool'[k].job = j PROVE \E l \in DOMAIN pool : pool[l].job = j
      BY <3>2, <3>4
    <3>5. j = first.job => \E l \in DOMAIN pool : pool[l].job = j
      BY <1>3
    <3> QED
      BY <3>3, <3>4, <3>5
  <2> QED
    BY <1>4, <1>5, <2>1 DEF FateStays, Submitted
<1> QED
  BY <1>8, <1>9

LEMMA MineOursWorks ==
    ASSUME NodeInv, WorldsOK, JobsTrue, PoolOK, session.trades, MineOurs
    PROVE  WorldsOK' /\ JobsTrue' /\ PoolOK'
<1> DEFINE w == HeadWorld
           failed == Reverts(Head(pool).tx, Holder, w)
           result == IF failed THEN [world |-> w, logs |-> <<>>] ELSE Execute(Head(pool).tx, Holder, w)
           met == [before |-> w, after |-> result.world, logs |-> result.logs, reverted |-> failed]
<1>1. /\ pool # <<>> /\ pool' = Tail(pool) /\ UNCHANGED <<session, jobs>>
      /\ MineBlock(result.world) /\ mined' = Put(mined, Head(pool).job, met)
  BY DEF MineOurs, client
<1>2. PICK tx : tx = Head(pool).tx
  OBVIOUS
<1>3. TxOK(tx) /\ Holder \in Accounts
  <2>1. PICK S : pool \in Seq(S)
    BY DEF PoolOK
  <2>2. 1 \in DOMAIN pool /\ Head(pool) = pool[1]
    BY <1>1, <2>1, OldestFirst
  <2>3. IsFor(Head(pool).job, tx)
    BY <1>2, <2>2 DEF PoolOK
  <2>4. PICK i \in DOMAIN jobs : Fits(jobs[i].op, jobs[i].how, tx)
    BY <2>3 DEF IsFor
  <2>5. PICK job : job = jobs[i]
    OBVIOUS
  <2>6. WorkOK(job) /\ Fits(job.op, job.how, tx)
    BY <2>4, <2>5 DEF JobsTrue
  <2>7. job.op \in TradeOps
    BY <2>6 DEF Fits, TradeOps
  <2>8. Calling(job.op, job.how)
    BY <2>6, <2>7, TradesAreNoReads DEF WorkOK, IsCall
  <2> QED
    BY <2>6, <2>8, FitsIs, SessionAssumption
<1>4. SoundWorld(w)
  BY EraIs
<1>5. SoundWorld(result.world)
  BY <1>2, <1>3, <1>4, ExecuteKeeps
<1>6. MinedAs(Head(pool).tx, met)
  BY <1>4 DEF MinedAs
<1> HIDE DEF met, result
<1>7. WorldsOK'
  BY <1>1, <1>5, MiningKeepsWorlds
<1>8. PoolOK' /\ \A j : FateStays(j)
  BY <1>1, <1>6, MiningKeepsPool
<1>9. JobsTrue'
  BY <1>1, <1>8, AllStay
<1> QED
  BY <1>7, <1>8, <1>9

LEMMA MineTheirsWorks ==
    ASSUME NodeInv, WorldsOK, JobsTrue, PoolOK, session.trades, NEW t \in Theirs, MineTheirs(t.tx, t.from)
    PROVE  WorldsOK' /\ JobsTrue' /\ PoolOK'
<1>1. UNCHANGED <<session, jobs, trading>> /\ (\A j : FateStays(j)) /\ CallsStay
  <2>1. UNCHANGED <<session, jobs, trading>>
    BY DEF MineTheirs, client, trading
  <2> QED
    BY <2>1, FatesStay DEF CallsStay, KeepsHeld
<1>2. SoundWorld(Execute(t.tx, t.from, HeadWorld).world)
  BY EraIs, TheirsIs, ExecuteKeeps DEF MineTheirs
<1>3. WorldsOK'
  BY <1>1, <1>2, MiningKeepsWorlds DEF MineTheirs
<1>4. JobsTrue' /\ PoolOK'
  BY <1>1, AllStay, PoolStays
<1> QED
  BY <1>3, <1>4

LEMMA TradesWork ==
    ASSUME NodeInv, TradeInv, session.trades, TradesNext(Calls, Theirs)
    PROVE  JobsTrue' /\ PoolOK' /\ (WorldsOK' \/ UNCHANGED <<node, session>>)
<1>1. WorldsOK /\ JobsTrue /\ PoolOK
  BY DEF TradeInv
<1>2. CASE \E call \in Calls : call.op \in session.ops /\ BeginTrade(call.op, call.params)
  BY <1>1, <1>2, BeginTradeWorks DEF BeginTrade
<1>3. CASE \E i \in DOMAIN jobs : \E r \in {q \in jobs[i].asked : q.call = "send"} :
            Submit(i, r) \/ SendFails(i, r) \/ Receipt(i, r) \/ TimeOut(i, r)
  BY <1>1, <1>3, SendWorks DEF Submit, SendFails, Receipt, TimeOut
<1>4. CASE MineOurs
  BY <1>1, <1>4, MineOursWorks
<1>5. CASE \E t \in Theirs : MineTheirs(t.tx, t.from)
  BY <1>1, <1>5, MineTheirsWorks
<1> QED
  BY <1>2, <1>3, <1>4, <1>5 DEF TradesNext

-----------------------------------------------------------------------------
(* Every step.                                                             *)

LEMMA WorldsStay ==
    ASSUME WorldsOK, UNCHANGED <<chain, said, session>>
    PROVE  WorldsOK'
BY DEF WorldsOK, SoundWorld, Era, Height

LEMMA RestStays ==
    ASSUME JobsTrue, PoolOK, UNCHANGED <<session, jobs, trading>>
    PROVE  JobsTrue' /\ PoolOK'
<1>1. (\A i : FateStays(i)) /\ CallsStay
  BY FatesStay DEF CallsStay, KeepsHeld
<1> QED
  BY <1>1, AllStay, PoolStays

LEMMA NodeWorks ==
    ASSUME NodeInv, TradeInv, NodeNext, UNCHANGED trading
    PROVE  TradeInv'
<1>1. UNCHANGED <<session, jobs, trading>>
  BY DEF NodeNext, client
<1>2. WorldsOK'
  <2>1. CASE \E w \in session.worlds : MineBlock(w) \/ Reorganize(w)
    <3>1. PICK w \in session.worlds : MineBlock(w) \/ Reorganize(w)
      BY <2>1
    <3>2. SoundWorld(w)
      BY DEF TradeInv, WorldsOK
    <3> QED
      BY <1>1, <3>1, <3>2, MiningKeepsWorlds DEF TradeInv
  <2>2. CASE Tick
    BY <1>1, <2>2, WorldsStay DEF Tick, TradeInv
  <2> QED
    BY <2>1, <2>2 DEF NodeNext
<1> QED
  BY <1>1, <1>2, RestStays DEF TradeInv

LEMMA LiveWorks ==
    ASSUME NodeInv, TradeInv, session.quotes, LiveNext, UNCHANGED trading
    PROVE  TradeInv'
<1>1. session \in Sessions /\ ~session.trades /\ UNCHANGED session
  BY ReadsAssumption DEF TradeInv, WorldsOK, LiveNext
<1>2. WorldsOK'
  BY WorldsStay DEF LiveNext, node, TradeInv
<1>3. CASE UNCHANGED jobs
  BY <1>1, <1>2, <1>3, RestStays DEF TradeInv
<1>4. CASE jobs' = <<>>
  <2>1. jobs' \in Seq({}) /\ DOMAIN jobs' = {}
    BY <1>4
  <2>2. JobsTrue'
    BY <1>1, <2>1, EachWorks
  <2>3. pool' = <<>> /\ mined' = << >> /\ pool' \in Seq({}) /\ DOMAIN pool' = {} /\ DOMAIN mined' = {}
    BY <1>1 DEF TradeInv, PoolOK, trading
  <2>4. PoolOK'
    BY <2>3 DEF PoolOK
  <2> QED
    BY <1>2, <2>2, <2>4 DEF TradeInv
<1>5. CASE jobs' = Refresh
  <2> DEFINE new == Resume(NewJob("pool", "lagged", 0), clock)
  <2>1. "pool" \in ReadOps
    BY DEF ReadOps, StateReads
  <2>2. WorkOK(new) /\ DOMAIN new.answers = {} /\ ~Sent(new.held)
    BY <2>1, NewWorks DEF TradeInv
  <2>3. jobs' = Append(jobs, new)
    BY <1>5 DEF Refresh
  <2> HIDE DEF new
  <2>4. JobsTrue' /\ CallsStay
    BY <1>1, <2>2, <2>3, OneBegins, MoreStay DEF TradeInv, JobsTrue
  <2> QED
    BY <1>1, <1>2, <2>4, PoolStays DEF TradeInv
<1> QED
  BY <1>3, <1>4, <1>5 DEF LiveNext, Subscribe, Started, HeadArrives, Woken, Refreshed, LiveEnds

LEMMA TradeKeeps == IInv /\ TradeInv /\ [Next]_vars => TradeInv'
<1> SUFFICES ASSUME IInv, TradeInv, [Next]_vars PROVE TradeInv'
  OBVIOUS
<1>1. NodeInv /\ JobsOK /\ session \in Sessions
  BY DEF IInv
<1>2. ASSUME UNCHANGED <<chain, said, session, jobs, trading>> PROVE TradeInv'
  BY <1>2, WorldsStay, RestStays DEF TradeInv
<1>3. ASSUME NodeNext /\ UNCHANGED <<trading, feeding, managing, measuring>> PROVE TradeInv'
  BY <1>1, <1>3, NodeWorks
<1>4. ASSUME ReadsNext /\ UNCHANGED <<trading, feeding, managing, measuring>> PROVE TradeInv'
  <2>1. UNCHANGED <<chain, said, session>>
    BY <1>4 DEF ReadsNext, BeginRead, Begin, Serve, Fault, Poll, Invalidate, node
  <2> QED
    BY <1>1, <1>4, <2>1, ReadsWork, WorldsStay DEF TradeInv
<1>5. ASSUME session.trades /\ TradesNext(Calls, Theirs) PROVE TradeInv'
  BY <1>1, <1>5, TradesWork, WorldsStay DEF TradeInv, node
<1>6. ASSUME session.quotes /\ LiveNext /\ UNCHANGED trading PROVE TradeInv'
  BY <1>1, <1>6, LiveWorks
<1>7. ASSUME FeedsNext /\ ~(session.quotes /\ LiveNext) /\ UNCHANGED trading PROVE TradeInv'
  <2>1. UNCHANGED <<chain, said, session, jobs>>
    BY <1>7 DEF FeedsNext, Emit, Drop, Reconnect, SubscribeFeed, Establish, Forward, StreamEnds, NextEvent, client, node
  <2> QED
    BY <1>2, <1>7, <2>1
<1>8. ASSUME UNCHANGED <<node, client, trading>> PROVE TradeInv'
  BY <1>2, <1>8 DEF client, node
<1> QED
  BY <1>3, <1>4, <1>5, <1>6, <1>7, <1>8 DEF Next, vars

LEMMA TradesStart == Init => TradeInv
<1> SUFFICES ASSUME Init PROVE TradeInv
  OBVIOUS
<1>1. /\ session \in Sessions /\ jobs = <<>> /\ chain = [n \in 1..3 |-> Hash(n, 0)]
      /\ pool = <<>> /\ mined = << >>
  BY DEF Init, ReadsInit, TradesInit
<1>2. jobs \in Seq({}) /\ DOMAIN jobs = {} /\ pool \in Seq({}) /\ DOMAIN pool = {} /\ DOMAIN mined = {}
  BY <1>1
<1>3. \A w \in session.worlds : SoundWorld(w)
  <2>1. ASSUME NEW w \in session.worlds PROVE IsMarket(w)
    BY <1>1, SessionAssumption
  <2>2. ASSUME session.trades, NEW w \in session.worlds
        PROVE  Named \subseteq DOMAIN w.positions /\ w.era = Era /\ Era \in {Legacy, Upgradeable}
    <3>1. PICK v : v = CHOOSE u \in session.worlds : TRUE
      OBVIOUS
    <3>2. v \in session.worlds /\ Era = v.era
      BY <2>2, <3>1 DEF Era
    <3>3. Named \subseteq DOMAIN w.positions /\ w.era \in {Legacy, Upgradeable} /\ v.era = w.era
      BY <1>1, <2>2, <3>2, SessionAssumption
    <3> QED
      BY <3>2, <3>3
  <2> QED
    BY <2>1, <2>2 DEF SoundWorld
<1>4. \A h \in DOMAIN said : said[h].world \in session.worlds
  <2>1. PICK first \in session.worlds : \E last \in (IF session.reorganizes THEN session.worlds ELSE {first}) :
            said = [h \in {Hash(n, 0) : n \in 1..3} |-> [world |-> IF h[1] = 3 THEN last ELSE first, mined |-> 0]]
    BY DEF Init, ReadsInit
  <2>2. PICK last \in session.worlds :
            said = [h \in {Hash(n, 0) : n \in 1..3} |-> [world |-> IF h[1] = 3 THEN last ELSE first, mined |-> 0]]
    BY <2>1
  <2> QED
    BY <2>2
<1>5. Height >= 3
  BY <1>1 DEF Height
<1>6. WorldsOK
  BY <1>1, <1>3, <1>4, <1>5 DEF WorldsOK
<1>7. JobsTrue /\ PoolOK
  BY <1>1, <1>2 DEF JobsTrue, PoolOK
<1> QED
  BY <1>6, <1>7 DEF TradeInv

-----------------------------------------------------------------------------
(* What an operation reports.                                              *)

\* What is answered that is no send was asked where none is.
LEMMA NothingSent ==
    ASSUME NodeInv, WorldsOK, NEW job, WorkOK(job), NEW r \in DOMAIN job.answers, r.call # "send"
    PROVE  Sends(job) = {}
<1> SUFFICES ASSUME NEW q \in Sends(job) PROVE FALSE
  OBVIOUS
<1>1. q.call = "send" /\ (q \in Out(job) \/ q \in DOMAIN job.held)
  BY DEF Sends
<1>2. r \in Out(job)
  BY DEF Out
<1>3. job.op \notin ReadOps
  BY DEF WorkOK, WaitsOK
<1>4. IsTrade(job)
  BY <1>3 DEF WorkOK, IsCall
<1>5. CASE q \in Out(job)
  <2>1. Out(job) = {q}
    BY <1>1, <1>5, SendAlone
  <2> QED
    BY <1>1, <1>2, <2>1
<1>6. CASE q \in DOMAIN job.held
  <2>1. Due(job) = {}
    BY <1>1, <1>4, <1>6 DEF WorkOK, WaitsOK, Sent
  <2> QED
    BY <1>2, <1>4, <2>1 DEF WorkOK, WaitsOK
<1> QED
  BY <1>1, <1>5, <1>6

\* What a call's send was answered, its transaction met.
LEMMA MinedOne ==
    ASSUME PoolOK, NEW i \in DOMAIN mined, NEW job, job = jobs[i], NEW met, met = mined[i]
    PROVE  \E tx : Fits(job.op, job.how, tx) /\ Sized(job, tx) /\ MinedAs(tx, met)
<1>1. PICK tx : IsFor(i, tx) /\ MinedAs(tx, mined[i])
  BY DEF PoolOK
<1>2. Fits(job.op, job.how, tx) /\ Sized(job, tx)
  BY <1>1 DEF IsFor
<1> QED
  BY <1>1, <1>2

\* A receipt that is not what a call must find tells of a close that did not.
LEMMA ToldIs ==
    ASSUME session.trades, NEW op, NEW how, Calling(op, how), NEW tx, Fits(op, how, tx),
           NEW met, MinedAs(tx, met), ~met.reverted,
           NEW r, r.call = "send"
    PROVE  /\ Refuses(op, how, r, met) => op = "close_taker" /\ Exists(met.after.positions[how.id])
           /\ op = "close_taker" /\ ~Refuses(op, how, r, met) => ~Exists(met.after.positions[how.id])
<1>1. Refuses(op, how, r, met) <=> NotAsTold(op, how, met.logs)
  BY DEF Refuses, TurnsAway
<1>2. op \in TradeOps
  BY CallIs
<1>3. CASE op \in {"open_taker", "open_maker"}
  BY <1>1, <1>3, OpenDoes DEF Opens, NotAsTold
<1>4. CASE op = "adjust_taker"
  BY <1>1, <1>4, AdjustDoes DEF NotAsTold
<1>5. CASE op = "close_taker"
  <2>1. /\ ParseTakerSwap(met.logs).found
        /\ IF ClosesTaker(met.logs, how.id) THEN ~Exists(met.after.positions[how.id])
           ELSE Exists(met.after.positions[how.id])
    BY <1>5, AdjustDoes
  <2>2. NotAsTold(op, how, met.logs) <=> ~ClosesTaker(met.logs, how.id) \/ ~ParseTakerSwap(met.logs).found
    BY <1>5 DEF NotAsTold
  <2> QED
    BY <1>1, <1>5, <2>1, <2>2
<1>6. CASE op \notin {"open_taker", "open_maker", "adjust_taker", "close_taker"}
  BY <1>1, <1>6 DEF NotAsTold
<1> QED
  BY <1>3, <1>4, <1>5, <1>6

\* What a trade that answers well has done, by what its transaction met, and
\* the amount that transaction names if it liquidates.
Does(op, how, met, amount) ==
    /\ op \in Opens =>
        LET id == ParseMintedTokenId(met.logs).log.id IN
        id \notin DOMAIN met.before.positions /\ met.after.positions[id].owner = Holder
    /\ op = "open_maker" =>
        \A t \in how.lower..how.upper :
            \E low, high \in met.after.positions[NextPosId(met.before)].ticks : low <= t /\ t <= high
    /\ op \in {"adjust_taker", "close_taker"} =>
        ParseTakerSwap(met.logs).log.delta
            = met.after.positions[how.id].delta - met.before.positions[how.id].delta
    /\ op = "close_taker" => ~Exists(met.after.positions[how.id])
    /\ op = "liquidate" =>
        LET before == Size(how.role, met.before.positions[how.id])
            after == Size(how.role, met.after.positions[how.id])
        IN  after < before /\ after = before - (IF met.before.era = Legacy THEN before ELSE amount)
    /\ op = "transfer_position" => met.after.positions[how.id].owner = how.to
    /\ op = "ensure_approval" => met.after.allowance >= how.amount

LEMMA AnsweredDoes ==
    ASSUME session.trades, NEW op, NEW how, Calling(op, how), NEW tx, Fits(op, how, tx),
           NEW met, MinedAs(tx, met), ~met.reverted,
           NEW r, r.call = "send", ~Refuses(op, how, r, met)
    PROVE  Does(op, how, met, tx.amount)
<1>1. op \in Opens =>
        LET id == ParseMintedTokenId(met.logs).log.id IN
        id \notin DOMAIN met.before.positions /\ met.after.positions[id].owner = Holder
  BY OpenDoes
<1>2. ASSUME op = "open_maker", NEW t \in how.lower..how.upper
      PROVE  \E low, high \in met.after.positions[NextPosId(met.before)].ticks : low <= t /\ t <= high
  <2> DEFINE low == AlignTickDown(how.lower)
             high == AlignTickUp(how.upper)
  <2>1. met.after.positions[NextPosId(met.before)].ticks = {low, high}
    BY <1>2, OpenDoes DEF Opens
  <2>2. how.lower \in Int /\ how.upper \in Int
    BY <1>2, CallIs
  <2>3. low \in Int /\ low <= how.lower /\ high \in Int /\ how.upper <= high
    BY <2>2, AlignedIs
  <2> HIDE DEF low, high
  <2>4. low <= t /\ t <= high
    BY <1>2, <2>2, <2>3
  <2> QED
    BY <2>1, <2>4
<1>3. op \in {"adjust_taker", "close_taker"} =>
        ParseTakerSwap(met.logs).log.delta
            = met.after.positions[how.id].delta - met.before.positions[how.id].delta
  BY AdjustDoes
<1>4. op = "close_taker" => ~Exists(met.after.positions[how.id])
  BY ToldIs
<1>5. op = "liquidate" =>
        LET before == Size(how.role, met.before.positions[how.id])
            after == Size(how.role, met.after.positions[how.id])
        IN  after < before /\ after = before - (IF met.before.era = Legacy THEN before ELSE tx.amount)
  BY LiquidateDoes
<1>6. op = "transfer_position" => met.after.positions[how.id].owner = how.to
  BY TransferDoes
<1>7. op = "ensure_approval" => met.after.allowance >= how.amount
  BY ApproveDoes
<1> QED
  BY <1>1, <1>2, <1>3, <1>4, <1>5, <1>6, <1>7 DEF Does

\* What an error tells of the i-th operation's transaction.
IsToldBy(i, how, error) ==
    /\ ~HasTxHash(error) => ~Submitted(i)
    /\ HasTxHash(error) /\ ~IsUnconfirmed(error) => i \in DOMAIN mined
    /\ IsTransient(error) /\ ~IsUnconfirmed(error) /\ Submitted(i) =>
        ~mined[i].reverted /\ Exists(mined[i].after.positions[how.id])

\* What the errors tell, of each way a call is refused.
LEMMA ErrorsTell ==
    ASSUME NodeInv, WorldsOK, PoolOK, NEW i \in DOMAIN jobs, NEW job, job = jobs[i],
           WorkOK(job), SendsOK(i, job), job.done, job.refused # {}
    PROVE  IsToldBy(i, job.how, ErrorOf(job))
<1>1. PICK error : error = ErrorOf(job)
  OBVIOUS
<1> SUFFICES IsToldBy(i, job.how, error)
  BY <1>1
<1>2. ASSUME Sends(job) = {}, error \notin MinedErrors PROVE IsToldBy(i, job.how, error)
  BY <1>2 DEF SendsOK, IsToldBy, HasTxHash, IsUnconfirmed
<1>3. ASSUME job.refused = {R("invalid")}, job.answers = << >>, job.held = << >>
      PROVE  Sends(job) = {} /\ error \notin MinedErrors
  <2>1. DOMAIN job.answers = {} /\ DOMAIN job.held = {} /\ job.asked = {}
    BY <1>3 DEF WorkOK, EndsOK
  <2>2. error = "Validation"
    BY <1>1, <1>3, <2>1 DEF ErrorOf
  <2> QED
    BY <2>1, <2>2 DEF Sends, Out, MinedErrors
<1>4. ASSUME NEW r \in DOMAIN job.answers, job.refused = {r}, Broken(job, r)
      PROVE  error = IF Failed(job.answers[r]) THEN job.answers[r].failed
                     ELSE IF job.op = "close_taker" /\ r.call = "send" THEN "TakerNotClosed" ELSE "Contract"
  <2>1. (CHOOSE q \in job.refused : TRUE) = r
    BY <1>4
  <2> QED
    BY <1>1, <2>1 DEF ErrorOf
<1>5. ASSUME NEW r \in DOMAIN job.answers, job.refused = {r}, Broken(job, r), r.call # "send"
      PROVE  Sends(job) = {} /\ error \notin MinedErrors
  <2>1. Failed(job.answers[r]) => job.answers[r].failed \in ReadErrors
    BY <1>5 DEF WorkOK, ToldOK
  <2>2. error \in ReadErrors \cup {"Contract"}
    BY <1>4, <1>5, <2>1
  <2> QED
    BY <1>5, <2>2, NothingSent DEF ReadErrors, MinedErrors
<1>6. ASSUME NEW r \in DOMAIN job.answers, job.refused = {r}, Broken(job, r), r.call = "send", Failed(job.answers[r])
      PROVE  IsToldBy(i, job.how, error)
  <2>1. error = job.answers[r].failed
    BY <1>4, <1>6
  <2>2. \/ error \in UnconfirmedErrors
        \/ error \in UnsentErrors /\ ~Submitted(i)
        \/ error \in {"Reverted", "OutOfGas"} /\ i \in DOMAIN mined
    BY <1>6, <2>1 DEF SendsOK, AnswerOK
  <2>3. error \in UnsentErrors => error \notin MinedErrors
    BY DEF UnsentErrors, MinedErrors
  <2>4. error \in {"Reverted", "OutOfGas"} => error \in MinedErrors /\ ~IsTransient(error)
    BY DEF MinedErrors, IsTransient, IsUnconfirmed, UnconfirmedErrors
  <2> QED
    BY <2>2, <2>3, <2>4 DEF IsToldBy, HasTxHash, IsUnconfirmed
<1>7. ASSUME NEW r \in DOMAIN job.answers, job.refused = {r}, Broken(job, r), r.call = "send", ~Failed(job.answers[r])
      PROVE  IsToldBy(i, job.how, error)
  <2>1. i \in DOMAIN mined /\ ~mined[i].reverted /\ job.answers[r] = Value(mined[i])
    BY <1>7 DEF SendsOK, AnswerOK
  <2>2. PICK met : met = mined[i]
    OBVIOUS
  <2>3. PICK tx : Fits(job.op, job.how, tx) /\ MinedAs(tx, met)
    BY <2>1, <2>2, MinedOne
  <2>4. IsCall(job)
    BY <1>7, SendAlone DEF Out
  <2>5. Refuses(job.op, job.how, r, met)
    BY <1>7, <2>1, <2>2 DEF Broken, Value
  <2>6. job.op = "close_taker" /\ Exists(met.after.positions[job.how.id])
    BY <1>7, <2>1, <2>2, <2>3, <2>4, <2>5, ToldIs DEF IsCall
  <2>7. error = "TakerNotClosed"
    BY <1>4, <1>7, <2>6
  <2> QED
    BY <2>1, <2>2, <2>6, <2>7 DEF IsToldBy, HasTxHash, MinedErrors
<1> QED
  BY <1>2, <1>3, <1>5, <1>6, <1>7 DEF WorkOK, EndsOK

LEMMA TradesReport == IInv /\ TradeInv => TradesDoWhatTheyReport
<1> SUFFICES ASSUME IInv, TradeInv PROVE TradesDoWhatTheyReport
  OBVIOUS
<1>1. NodeInv /\ WorldsOK /\ JobsTrue /\ PoolOK
  BY DEF IInv, TradeInv
<1>2. ASSUME NEW i \in DOMAIN jobs, NEW job, job = jobs[i] PROVE WorkOK(job) /\ SendsOK(i, job)
  BY <1>1, <1>2 DEF JobsTrue
<1>3. ASSUME NEW i \in DOMAIN jobs, NEW job, job = jobs[i],
             Answered(job), NEW r \in DOMAIN job.held, r.call = "send"
      PROVE  /\ i \in DOMAIN mined /\ ~mined[i].reverted
             /\ Does(job.op, job.how, mined[i], Size(job.how.role, Got(job.held, SizeRead(job.how.role, job.how.id))))
  <2>1. IsCall(job)
    BY <1>2, <1>3 DEF WorkOK, WaitsOK, Sends
  <2>2. ~Failed(job.held[r]) /\ ~Refuses(job.op, job.how, r, job.held[r].value)
    BY <1>2, <1>3, <2>1 DEF WorkOK, HoldsOK, IsCall
  <2>3. PICK met : met = mined[i]
    OBVIOUS
  <2>4. i \in DOMAIN mined /\ ~met.reverted /\ job.held[r] = Value(met)
    BY <1>2, <1>3, <2>2, <2>3 DEF SendsOK, AnswerOK
  <2>5. PICK tx : Fits(job.op, job.how, tx) /\ Sized(job, tx) /\ MinedAs(tx, met)
    BY <1>1, <1>3, <2>3, <2>4, MinedOne
  <2>6. ~Refuses(job.op, job.how, r, met)
    BY <2>2, <2>4 DEF Value
  <2>7. Does(job.op, job.how, met, tx.amount)
    BY <1>3, <2>1, <2>4, <2>5, <2>6, AnsweredDoes DEF IsCall
  <2>8. met.before.era = Era /\ Era \in {Legacy, Upgradeable}
    BY <2>1, <2>5 DEF MinedAs, SoundWorld, IsCall
  <2>9. job.op = "liquidate" /\ met.before.era # Legacy =>
            tx.amount = Size(job.how.role, Got(job.held, SizeRead(job.how.role, job.how.id)))
    BY <2>5, <2>8 DEF Sized
  <2>10. Does(job.op, job.how, met, Size(job.how.role, Got(job.held, SizeRead(job.how.role, job.how.id))))
    BY <2>7, <2>9 DEF Does
  <2> QED
    BY <2>3, <2>4, <2>10
<1>4. ASSUME NEW i \in DOMAIN jobs, NEW job, job = jobs[i],
             job.done, job.refused = {}, \A r \in DOMAIN job.held : r.call # "send"
      PROVE  ~Submitted(i)
  <2>1. job.asked = {} /\ DOMAIN job.answers = {}
    BY <1>2, <1>4 DEF WorkOK, EndsOK
  <2>2. Sends(job) = {}
    BY <1>4, <2>1 DEF Sends, Out
  <2> QED
    BY <1>2, <1>4, <2>2 DEF SendsOK
<1>5. ASSUME NEW i \in DOMAIN jobs, NEW job, job = jobs[i], job.done, job.refused # {}
      PROVE  IsToldBy(i, job.how, ErrorOf(job))
  BY <1>1, <1>2, <1>5, ErrorsTell
<1> QED
  BY <1>3, <1>4, <1>5 DEF TradesDoWhatTheyReport, Does, IsToldBy

\* A trade that answers well did what it was asked by its own transaction, and
\* one that ends in an error is told by it what became of that transaction,
\* whatever the market, the calls, the trades of others, the replicas and the
\* order of the wallet's sends (client/trades.rs, client/transactions.rs,
\* errors/mod.rs is_transient, is_unconfirmed, tx_hash).
THEOREM TradesAlwaysDoWhatTheyReport == Spec => []TradesDoWhatTheyReport
<1>1. Init => IInv /\ TradeInv
  BY SessionStarts, TradesStart
<1>2. IInv /\ TradeInv /\ [Next]_vars => IInv' /\ TradeInv'
  BY SessionKeeps, TradeKeeps
<1>3. IInv /\ TradeInv => TradesDoWhatTheyReport
  BY TradesReport
<1> QED
  BY <1>1, <1>2, <1>3, PTL DEF Spec

-----------------------------------------------------------------------------
(***************************************************************************)
(* The state cache, for every chain, every TTL and every bound: an answer  *)
(* served from it is no older than its layer allows.                       *)
(***************************************************************************)

-----------------------------------------------------------------------------
(* The chain in time: what was mined before a second that has begun only   *)
(* ever shrinks, a reorganization replacing it by what is mined now.       *)

TimesOK == clock \in Nat /\ \A h \in DOMAIN said : said[h].mined \in Nat

Aged ==
    /\ ChainGrows /\ clock \in Nat /\ clock' \in Nat /\ clock' >= clock
    /\ \A t \in 0..clock : HeightBefore(t)' <= HeightBefore(t)

LEMMA CountedIs ==
    ASSUME NEW n \in Nat, NEW S \in SUBSET (1..n), NEW T \in SUBSET S
    PROVE  /\ Cardinality(S) \in Nat /\ Cardinality(T) \in Nat
           /\ Cardinality(S) <= n /\ Cardinality(T) <= Cardinality(S)
<1>1. IsFiniteSet(1..n) /\ Cardinality(1..n) = IF 1 > n THEN 0 ELSE n - 1 + 1
  BY FS_Interval
<1>2. IsFiniteSet(S) /\ Cardinality(S) <= Cardinality(1..n)
  BY <1>1, FS_Subset
<1>3. IsFiniteSet(T) /\ Cardinality(T) <= Cardinality(S)
  BY <1>2, FS_Subset
<1>4. Cardinality(S) \in Nat /\ Cardinality(T) \in Nat
  BY <1>2, <1>3, FS_CardinalityType
<1> QED
  BY <1>1, <1>2, <1>3, <1>4

LEMMA HeightBeforeIs ==
    ASSUME NodeInv, TimesOK, NEW t \in Nat, NEW u \in Nat, u <= t
    PROVE  /\ HeightBefore(t) \in Nat /\ HeightBefore(u) \in Nat
           /\ HeightBefore(t) <= Height /\ HeightBefore(u) <= HeightBefore(t)
<1> DEFINE S == {n \in 1..Height : said[chain[n]].mined < t}
           T == {n \in 1..Height : said[chain[n]].mined < u}
<1>1. Height \in Nat
  BY DEF NodeInv, Height
<1>2. \A n \in 1..Height : said[chain[n]].mined \in Nat
  BY DEF NodeInv, TimesOK
<1>3. S \in SUBSET (1..Height) /\ T \in SUBSET S
  BY <1>2
<1>4. HeightBefore(t) = Cardinality(S) /\ HeightBefore(u) = Cardinality(T)
  BY DEF HeightBefore
<1> HIDE DEF S, T
<1> QED
  BY <1>1, <1>3, <1>4, CountedIs

\* The chain is extended: what replaces its end is mined now.
LEMMA ExtendAges ==
    ASSUME NodeInv, NodeInv', ChainGrows, TimesOK, NEW first \in 1..(Height + 1), NEW fork,
           NEW hashes \in Seq(Nat \X Nat), NEW worlds, hashes # <<>>,
           \A i \in DOMAIN hashes : hashes[i] = <<first + i - 1, fork>>,
           Extend(hashes, worlds)
    PROVE  TimesOK' /\ Aged
<1>1. /\ Height \in Nat /\ Height' \in Nat /\ first \in Nat /\ 1 <= first /\ clock \in Nat /\ clock' = clock
      /\ Len(hashes) \in Nat /\ DOMAIN hashes = 1..Len(hashes) /\ 1 \in DOMAIN hashes
  <2>1. Len(hashes) \in Nat /\ DOMAIN hashes = 1..Len(hashes) /\ Len(hashes) # 0
    OBVIOUS
  <2>2. clock' = clock
    BY Zenon DEF Extend
  <2>3. Height \in Nat /\ Height' \in Nat /\ clock \in Nat
    BY DEF NodeInv, Height, TimesOK
  <2> QED
    BY <2>1, <2>2, <2>3
<1>2. hashes[1][1] = first
  <2>1. hashes[1] = <<first + 1 - 1, fork>>
    BY <1>1
  <2> QED
    BY <1>1, <2>1
<1> DEFINE base == SubSeq(chain, 1, first - 1)
           new == {hashes[i] : i \in DOMAIN hashes}
           fresh == [h \in new |-> [world |-> worlds[h[1]], mined |-> clock]]
<1>3. chain' = base \o hashes /\ said' = Over(fresh, said)
  BY <1>2, Zenon DEF Extend
<1>4. /\ base \in Seq(Nat \X Nat) /\ Len(base) = first - 1
      /\ \A n \in 1..(first - 1) : base[n] = chain[n]
  <2>1. first \in 1..(Len(chain) + 1) /\ chain \in Seq(Nat \X Nat)
    BY DEF Height, NodeInv
  <2> QED
    BY <2>1, Beginning
<1>5. DOMAIN fresh = new /\ \A h \in new : fresh[h].mined = clock
  OBVIOUS
<1> HIDE DEF base, fresh
<1>6. /\ Height' = first - 1 + Len(hashes)
      /\ \A n \in 1..(first - 1) : chain'[n] = chain[n]
      /\ \A n \in first..Height' : chain'[n] \in new
  <2>1. /\ Len(base \o hashes) = Len(base) + Len(hashes)
        /\ \A n \in 1..Len(base) : (base \o hashes)[n] = base[n]
        /\ \A n \in (Len(base) + 1)..(Len(base) + Len(hashes)) : (base \o hashes)[n] = hashes[n - Len(base)]
    BY <1>4, Concatenated
  <2>2. Height' = first - 1 + Len(hashes)
    BY <1>3, <1>4, <2>1 DEF Height
  <2>3. ASSUME NEW n \in first..Height' PROVE chain'[n] \in new
    <3>1. n \in (Len(base) + 1)..(Len(base) + Len(hashes)) /\ n - Len(base) \in DOMAIN hashes
      BY <1>1, <1>4, <2>2
    <3> QED
      BY <1>3, <2>1, <3>1
  <2> QED
    BY <1>1, <1>3, <1>4, <2>1, <2>2, <2>3
<1>7. /\ DOMAIN said' = new \cup DOMAIN said
      /\ \A h \in new : said'[h].mined = clock
      /\ \A h \in DOMAIN said : h \notin new => said'[h] = said[h]
  <2>1. /\ DOMAIN Over(fresh, said) = DOMAIN fresh \cup DOMAIN said
        /\ \A h \in DOMAIN fresh : Over(fresh, said)[h] = fresh[h]
        /\ \A h \in DOMAIN said : h \notin DOMAIN fresh => Over(fresh, said)[h] = said[h]
    BY OverIs
  <2> HIDE DEF new
  <2> QED
    BY <1>3, <1>5, <2>1
<1> HIDE DEF new
<1>8. TimesOK'
  BY <1>1, <1>7 DEF TimesOK
<1>9. ASSUME NEW t \in 0..clock PROVE HeightBefore(t)' <= HeightBefore(t)
  <2> DEFINE S == {n \in 1..Height : said[chain[n]].mined < t}
             T == {n \in 1..Height' : said'[chain'[n]].mined < t}
  <2>1. T \in SUBSET S
    <3> SUFFICES ASSUME NEW n \in 1..Height', said'[chain'[n]].mined < t PROVE n \in S
      OBVIOUS
    <3>1. n < first
      <4> SUFFICES ASSUME n >= first PROVE FALSE
        BY <1>1
      <4>1. chain'[n] \in new
        BY <1>1, <1>6
      <4>2. said'[chain'[n]].mined = clock
        BY <1>7, <4>1
      <4> QED
        BY <1>1, <4>2
    <3>2. n \in 1..(first - 1) /\ n \in 1..Height /\ chain'[n] = chain[n]
      BY <1>1, <1>6, <3>1
    <3>3. said'[chain[n]] = said[chain[n]]
      BY <3>2 DEF NodeInv, ChainGrows
    <3> QED
      BY <3>2, <3>3
  <2>2. S \in SUBSET (1..Height)
    OBVIOUS
  <2>3. HeightBefore(t) = Cardinality(S) /\ HeightBefore(t)' = Cardinality(T)
    BY DEF HeightBefore
  <2> HIDE DEF S, T
  <2> QED
    BY <1>1, <2>1, <2>2, <2>3, CountedIs
<1> QED
  BY <1>1, <1>8, <1>9 DEF Aged

LEMMA NodeUnmoved ==
    ASSUME NodeInv, TimesOK, UNCHANGED node
    PROVE  TimesOK' /\ Aged
<1>1. UNCHANGED <<chain, said, clock>>
  BY DEF node
<1>2. \A t : HeightBefore(t)' = HeightBefore(t)
  BY <1>1 DEF HeightBefore, Height
<1>3. \A t \in 0..clock : HeightBefore(t) \in Nat
  BY HeightBeforeIs DEF TimesOK
<1>4. Height \in Nat
  BY DEF NodeInv, Height
<1>5. ChainGrows /\ TimesOK'
  BY <1>1, <1>4 DEF ChainGrows, TimesOK, Height
<1> QED
  BY <1>1, <1>2, <1>3, <1>5 DEF TimesOK, Aged

LEMMA MineBlockAges ==
    ASSUME NodeInv, TimesOK, NEW world, MineBlock(world)
    PROVE  TimesOK' /\ Aged
<1> DEFINE hashes == <<Hash(Height + 1, forks)>>
<1>1. Height \in Nat /\ forks \in Nat
  BY DEF NodeInv, Height
<1>2. /\ hashes \in Seq(Nat \X Nat) /\ hashes # <<>>
      /\ \A i \in DOMAIN hashes : hashes[i] = <<Height + 1 + i - 1, forks>>
  BY <1>1 DEF Hash
<1>3. \E worlds : Extend(hashes, worlds)
  BY DEF MineBlock
<1>4. NodeInv' /\ ChainGrows
  BY MineBlockKeepsNode
<1> HIDE DEF hashes
<1>5. PICK first : first = Height + 1
  OBVIOUS
<1>6. first \in 1..(Height + 1) /\ \A i \in DOMAIN hashes : hashes[i] = <<first + i - 1, forks>>
  BY <1>1, <1>2, <1>5
<1> QED
  BY <1>2, <1>3, <1>4, <1>6, ExtendAges

LEMMA ReorganizeAges ==
    ASSUME NodeInv, TimesOK, NEW world, Reorganize(world)
    PROVE  TimesOK' /\ Aged
<1> DEFINE hashes == [i \in 1..(Depth + 1) |-> Hash(Height - Depth + i, forks + 1)]
           first == Height - Depth + 1
<1>1. Height \in Nat /\ forks \in Nat /\ Depth \in Nat /\ Height >= Depth + 1
  BY ChainAssumption DEF NodeInv, Height, Reorganize
<1>2. /\ hashes \in Seq(Nat \X Nat) /\ hashes # <<>>
      /\ \A i \in DOMAIN hashes : hashes[i] = <<first + i - 1, forks + 1>>
      /\ first \in 1..(Height + 1)
  BY <1>1 DEF Hash
<1>3. \E worlds : Extend(hashes, worlds)
  BY DEF Reorganize
<1>4. NodeInv' /\ ChainGrows
  BY ReorganizeKeepsNode
<1> HIDE DEF hashes, first
<1> QED
  BY <1>2, <1>3, <1>4, ExtendAges

LEMMA TickAges ==
    ASSUME NodeInv, TimesOK, Tick
    PROVE  TimesOK' /\ Aged
<1>1. UNCHANGED <<chain, said, forks>> /\ clock' = clock + 1
  BY DEF Tick
<1>2. \A t : HeightBefore(t)' = HeightBefore(t)
  BY <1>1 DEF HeightBefore, Height
<1>3. \A t \in 0..clock : HeightBefore(t) \in Nat
  BY HeightBeforeIs DEF TimesOK
<1>4. ChainGrows
  BY <1>1, NodeKept
<1> QED
  BY <1>1, <1>2, <1>3, <1>4 DEF TimesOK, Aged

\* Every step leaves what a second began with no larger.
LEMMA TimesKeep ==
    ASSUME NodeInv, TimesOK, [Next]_vars
    PROVE  TimesOK' /\ Aged
<1>1. CASE UNCHANGED node
  BY <1>1, NodeUnmoved
<1>2. CASE \E world : MineBlock(world)
  BY <1>2, MineBlockAges
<1>3. CASE \E world : Reorganize(world)
  BY <1>3, ReorganizeAges
<1>4. CASE Tick
  BY <1>4, TickAges
<1>5. NodeNext => (\E world : MineBlock(world)) \/ (\E world : Reorganize(world)) \/ Tick
  BY DEF NodeNext
<1>6. ReadsNext => UNCHANGED node
  BY DEF ReadsNext, BeginRead, Begin, Serve, Fault, Poll, Invalidate
<1>7. TradesNext(Calls, Theirs) => (\E world : MineBlock(world)) \/ UNCHANGED node
  BY DEF TradesNext, BeginTrade, Submit, SendFails, Receipt, TimeOut, MineOurs, MineTheirs
<1>8. FeedsNext => UNCHANGED node
  BY DEF FeedsNext, LiveNext
<1> QED
  BY <1>1, <1>2, <1>3, <1>4, <1>5, <1>6, <1>7, <1>8 DEF Next, vars

-----------------------------------------------------------------------------
(* What the chain said, and since when.                                    *)

Cached == {"balance", "pool_price", "funding_rate", "fees", "bounds"}

\* What the head said no earlier than `time`; of a schedule, each part of it.
TrueSince(r, value, time) ==
    IF r.call = "fees" THEN IsSeq(value) /\ \A k \in DOMAIN value : SaidSince(r, <<value[k]>>, time)
    ELSE SaidSince(r, value, time)

\* The request a key of the cache stands for.
KeyRequest(key) == At(key[1], key[2])

LEMMA KeyIs ==
    ASSUME NEW r
    PROVE  /\ KeyOf(r) # None => r.call \in Cached
           /\ r.call \in Cached =>
                /\ KeyOf(r) = <<r.call, IF r.call \in {"fees", "bounds"} THEN r.part[1] ELSE 0>>
                /\ KeyOf(r)[1] = r.call
BY DEF KeyOf, Cached

\* A request and its key's are told the same.
LEMMA KeySays ==
    ASSUME NEW r, r.call \in Cached, NEW w
    PROVE  KeyRequest(KeyOf(r)).call = r.call /\ Says(KeyRequest(KeyOf(r)), w) = Says(r, w)
<1>1. CASE r.call \in {"fees", "bounds"}
  <2>1. KeyOf(r) = <<r.call, r.part[1]>>
    BY <1>1, KeyIs
  <2>2. KeyRequest(KeyOf(r)).call = r.call /\ KeyRequest(KeyOf(r)).part[1] = r.part[1]
    BY <2>1 DEF KeyRequest, At
  <2> QED
    BY <1>1, <2>2 DEF Says
<1>2. CASE r.call \in {"balance", "pool_price", "funding_rate"}
  <2>1. KeyOf(r) = <<r.call, 0>>
    BY <1>2, KeyIs
  <2>2. KeyRequest(KeyOf(r)).call = r.call
    BY <2>1 DEF KeyRequest, At
  <2> QED
    BY <1>2, <2>2 DEF Says
<1> QED
  BY <1>1, <1>2 DEF Cached

LEMMA KeyTrue ==
    ASSUME NEW r, r.call \in Cached, NEW value, NEW time
    PROVE  TrueSince(KeyRequest(KeyOf(r)), value, time) <=> TrueSince(r, value, time)
<1>1. PICK q : q = KeyRequest(KeyOf(r))
  OBVIOUS
<1>2. q.call = r.call /\ \A h : Says(q, WorldAt(h)) = Says(r, WorldAt(h))
  BY <1>1, KeySays
<1>3. \A v : SaidSince(q, v, time) <=> SaidSince(r, v, time)
  BY <1>2 DEF SaidSince
<1> QED
  BY <1>1, <1>2, <1>3 DEF TrueSince

\* An answer true since a second is true since an earlier one.
LEMMA TrueEarlier ==
    ASSUME NodeInv, TimesOK, NEW r, NEW value, NEW t \in Nat, NEW u \in Nat, u <= t, TrueSince(r, value, t)
    PROVE  TrueSince(r, value, u)
<1>1. HeightBefore(t) \in Nat /\ HeightBefore(u) \in Nat /\ HeightBefore(u) <= HeightBefore(t)
  BY HeightBeforeIs
<1>2. \A h \in DOMAIN said : h[1] \in Nat
  BY DEF NodeInv
<1>3. Behind \in Nat
  BY ChainAssumption
<1>4. ASSUME NEW v, SaidSince(r, v, t) PROVE SaidSince(r, v, u)
  <2>1. PICK h \in DOMAIN said : Says(r, WorldAt(h)) = v /\ h[1] + Behind >= HeightBefore(t)
    BY <1>4 DEF SaidSince
  <2>2. h[1] + Behind >= HeightBefore(u)
    BY <1>1, <1>2, <1>3, <2>1
  <2> QED
    BY <2>1, <2>2 DEF SaidSince
<1> QED
  BY <1>4 DEF TrueSince

\* And stays so.
LEMMA SaidStays ==
    ASSUME NodeInv, NodeInv', TimesOK, Aged, NEW r, NEW value, NEW t \in 0..clock, SaidSince(r, value, t)
    PROVE  SaidSince(r, value, t)'
<1>1. clock \in Nat /\ clock' \in Nat /\ clock <= clock'
  BY DEF Aged
<1>2. HeightBefore(t) \in Nat /\ HeightBefore(t)' <= HeightBefore(t)
  BY HeightBeforeIs DEF Aged
<1>3. \A h \in DOMAIN said : h[1] \in Nat
  BY DEF NodeInv
<1>4. Behind \in Nat
  BY ChainAssumption
<1>5. HeightBefore(t)' \in Int
  <2> DEFINE T == {n \in 1..Height' : said'[chain'[n]].mined < t}
  <2>1. Height' \in Nat
    BY DEF NodeInv, Height
  <2>2. T \in SUBSET (1..Height') /\ HeightBefore(t)' = Cardinality(T)
    BY DEF HeightBefore
  <2> HIDE DEF T
  <2> QED
    BY <2>1, <2>2, CountedIs
<1>6. PICK h \in DOMAIN said : Says(r, WorldAt(h)) = value /\ h[1] + Behind >= HeightBefore(t)
  BY DEF SaidSince
<1>7. h[1] + Behind >= HeightBefore(t)'
  BY <1>2, <1>3, <1>4, <1>5, <1>6
<1>8. h \in DOMAIN said' /\ WorldAt(h)' = WorldAt(h)
  BY DEF Aged, ChainGrows, WorldAt
<1>9. Says(r, WorldAt(h)') = value
  BY <1>6, <1>8
<1> QED
  BY <1>7, <1>8, <1>9 DEF SaidSince

LEMMA TrueStays ==
    ASSUME NodeInv, NodeInv', TimesOK, Aged, NEW r, NEW value, NEW t \in 0..clock, TrueSince(r, value, t)
    PROVE  TrueSince(r, value, t)'
<1>1. \A v : SaidSince(r, v, t) => SaidSince(r, v, t)'
  BY SaidStays
<1> QED
  BY <1>1 DEF TrueSince

-----------------------------------------------------------------------------
(* Where fees and bounds are read: a call that names the market's modules  *)
(* first, then the schedule, its second part if the chain answered the     *)
(* first, and the bounds.                                                  *)

FeeCalls == {"fees", "liq_fee", "bounds"}

Leading(op) ==
    IF op = "get_config" THEN <<{R("modules")}, {R("key_again")}, {R("pool_state")}, {R("ema_window")}>>
    ELSE (Handle("lagged") \o <<{R("snapshot_views")}>>) \o MarkFrom
ModulesRead(op) == IF op = "get_config" THEN R("modules") ELSE R("snapshot_views")

LedBy(op, held) == \A i \in DOMAIN Leading(op) : Leading(op)[i] \subseteq DOMAIN held

FeesOf(op, held) == At("fees", Got(held, ModulesRead(op)).fees)
SecondOf(op, held) == At("liq_fee", Got(held, ModulesRead(op)).fees)
BoundsOf(op, held) == At("bounds", Got(held, ModulesRead(op)).fees)

\* The schedule is held as the chain's first call answers it.
HalfRead(op, held) == FeesOf(op, held) \in DOMAIN held /\ Len(Got(held, FeesOf(op, held))) = 1

LEMMA AvoidsOne ==
    ASSUME NEW calls, NEW step, \A r \in step : r.call \notin calls
    PROVE  Avoids(calls, <<step>>)
BY OneStep DEF Avoids

LEMMA FourSteps ==
    ASSUME NEW a, NEW b, NEW c, NEW d
    PROVE  /\ IsSeq(<<a, b, c, d>>) /\ DOMAIN <<a, b, c, d>> = 1..4
           /\ <<a, b, c, d>>[1] = a /\ <<a, b, c, d>>[2] = b /\ <<a, b, c, d>>[3] = c /\ <<a, b, c, d>>[4] = d
<1>1. <<a, b, c, d>> \in Seq({a, b, c, d}) /\ DOMAIN <<a, b, c, d>> = 1..4
  OBVIOUS
<1> QED
  BY <1>1 DEF IsSeq

LEMMA LeadingIs ==
    ASSUME NEW op \in FeeOps
    PROVE  /\ Avoids(FeeCalls, Leading(op)) /\ Has(Leading(op), {ModulesRead(op)})
           /\ \A how, held : Steps(op, how, held) = Leading(op) \o FeesAfter(held, ModulesRead(op))
<1>1. op \notin HeadReads \cup StateReads \cup {"tape_addresses", "get_position", "get_positions_by_owner"}
  BY DEF FeeOps, HeadReads, StateReads, OneCallReads, PositionReads, BatchReads
<1>2. CASE op = "get_config"
  <2> DEFINE a == {R("modules")}
             b == {R("key_again")}
             c == {R("pool_state")}
             d == {R("ema_window")}
  <2>1. \A held : Config(held) = <<a, b, c, d>> \o FeesAfter(held, R("modules"))
    BY DEF Config
  <2>2. \A how, held : Steps(op, how, held) = <<a, b, c, d>> \o FeesAfter(held, R("modules"))
    BY <1>1, <1>2, <2>1 DEF Steps
  <2>3. Leading(op) = <<a, b, c, d>> /\ ModulesRead(op) = R("modules")
    BY <1>2 DEF Leading, ModulesRead
  <2>4. \A r \in a \cup b \cup c \cup d : r.call \notin FeeCalls
    BY DEF R, FeeCalls
  <2>5. a = {ModulesRead(op)}
    BY <2>3
  <2> HIDE DEF a, b, c, d
  <2>6. /\ IsSeq(<<a, b, c, d>>) /\ DOMAIN <<a, b, c, d>> = 1..4
        /\ <<a, b, c, d>>[1] = a /\ <<a, b, c, d>>[2] = b /\ <<a, b, c, d>>[3] = c /\ <<a, b, c, d>>[4] = d
    BY FourSteps
  <2>7. \A i \in 1..4 : <<a, b, c, d>>[i] \in {a, b, c, d}
    BY <2>6
  <2>8. Avoids(FeeCalls, <<a, b, c, d>>)
    BY <2>4, <2>6, <2>7 DEF Avoids
  <2>9. Has(<<a, b, c, d>>, a)
    BY <2>6 DEF Has
  <2> QED
    BY <2>2, <2>3, <2>5, <2>8, <2>9
<1>3. CASE op = "get_snapshot"
  <2> DEFINE views == <<{R("snapshot_views")}>>
             from == MarkFrom
             h == Handle("lagged")
             head == <<{R("head")}>>
             header == <<{R("header")}>>
  <2>1. \A held : Snapshot(held) = ((h \o views) \o from) \o FeesAfter(held, R("snapshot_views"))
    BY DEF Snapshot
  <2>2. \A how, held : Steps(op, how, held) = ((h \o views) \o from) \o FeesAfter(held, R("snapshot_views"))
    BY <1>1, <1>3, <2>1 DEF Steps
  <2>3. Leading(op) = (h \o views) \o from /\ ModulesRead(op) = R("snapshot_views")
    BY <1>3 DEF Leading, ModulesRead
  <2>4. Avoids(FeeCalls, views) /\ Avoids(FeeCalls, from) /\ Avoids(FeeCalls, head) /\ Avoids(FeeCalls, header)
    BY AvoidsOne DEF MarkFrom, R, FeeCalls
  <2>5. h = head \o header
    <3>1. h = <<{R("head")}, {R("header")}>>
      BY DEF Handle
    <3> QED
      BY <3>1, TwoSteps
  <2>6. Has(views, {ModulesRead(op)})
    BY <2>3, OneHas
  <2> HIDE DEF views, from, head, header, h
  <2>7. Avoids(FeeCalls, h)
    BY <2>4, <2>5, AvoidsJoin
  <2>8. Avoids(FeeCalls, h \o views) /\ Avoids(FeeCalls, (h \o views) \o from)
    BY <2>4, <2>7, AvoidsJoin
  <2>9. Has((h \o views) \o from, {ModulesRead(op)})
    BY <2>4, <2>6, <2>7, <2>8, JoinHas DEF Avoids
  <2> QED
    BY <2>2, <2>3, <2>8, <2>9
<1> QED
  BY <1>2, <1>3 DEF FeeOps

LEMMA LedModules ==
    ASSUME NEW op \in FeeOps, NEW held, LedBy(op, held)
    PROVE  ModulesRead(op) \in DOMAIN held
BY LeadingIs DEF LedBy, Has

LEMMA ThreeSteps ==
    ASSUME NEW a, NEW b, NEW c
    PROVE  <<a, b>> \o <<c>> = <<a, b, c>>
<1>1. <<a, b>> \in Seq({a, b, c}) /\ <<c>> \in Seq({a, b, c}) /\ <<a, b, c>> \in Seq({a, b, c})
  OBVIOUS
<1>2. /\ Len(<<a, b>>) = 2 /\ Len(<<c>>) = 1 /\ Len(<<a, b, c>>) = 3
      /\ <<a, b>>[1] = a /\ <<a, b>>[2] = b /\ <<c>>[1] = c
      /\ <<a, b, c>>[1] = a /\ <<a, b, c>>[2] = b /\ <<a, b, c>>[3] = c
  OBVIOUS
<1> DEFINE s == <<a, b>>
           t == <<c>>
           u == <<a, b, c>>
<1> HIDE DEF s, t, u
<1>3. /\ s \o t \in Seq({a, b, c}) /\ Len(s \o t) = 3
      /\ (s \o t)[1] = s[1] /\ (s \o t)[2] = s[2] /\ (s \o t)[3] = t[1]
  BY <1>1, <1>2 DEF s, t
<1>4. ASSUME NEW v \in Seq({a, b, c}), NEW w \in Seq({a, b, c}), Len(v) = 3, Len(w) = 3,
             v[1] = w[1], v[2] = w[2], v[3] = w[3]
      PROVE  v = w
  BY <1>4
<1>5. u \in Seq({a, b, c}) /\ Len(u) = 3 /\ u[1] = s[1] /\ u[2] = s[2] /\ u[3] = t[1]
  BY <1>1, <1>2 DEF s, t, u
<1>6. s \o t = u
  BY <1>3, <1>4, <1>5
<1> QED
  BY <1>6 DEF s, t, u

\* The steps that read a schedule and the bounds.
LEMMA FeesAfterAre ==
    ASSUME NEW op, NEW held, ModulesRead(op) \in DOMAIN held
    PROVE  FeesAfter(held, ModulesRead(op)) =
              IF HalfRead(op, held) THEN <<{FeesOf(op, held)}, {SecondOf(op, held)}, {BoundsOf(op, held)}>>
              ELSE <<{FeesOf(op, held)}, {BoundsOf(op, held)}>>
<1> DEFINE a == {FeesOf(op, held)}
           b == {SecondOf(op, held)}
           c == {BoundsOf(op, held)}
<1>1. FeesAfter(held, ModulesRead(op)) = (<<a>> \o (IF HalfRead(op, held) THEN <<b>> ELSE <<>>)) \o <<c>>
  BY DEF FeesAfter, FeeSteps, Holds, HalfRead, FeesOf, SecondOf, BoundsOf
<1> HIDE DEF a, b, c
<1>2. (<<a>> \o <<b>>) \o <<c>> = <<a, b, c>>
  <2>1. <<a>> \o <<b>> = <<a, b>> /\ <<a, b>> \o <<c>> = <<a, b, c>>
    BY TwoSteps, ThreeSteps
  <2> QED
    BY <2>1
<1>3. (<<a>> \o <<>>) \o <<c>> = <<a, c>>
  <2>1. <<a>> \o <<>> = <<a>>
    OBVIOUS
  <2> QED
    BY <2>1, TwoSteps
<1> QED
  BY <1>1, <1>2, <1>3 DEF a, b, c

\* What is due among them: the schedule and the bounds once all before is held,
\* the second part once the first is, and nothing beside it.
LEMMA FeesDue ==
    ASSUME NEW job, job.op \in FeeOps
    PROVE  /\ \A r \in Due(job) : r.call \in FeeCalls => LedBy(job.op, job.held)
           /\ \A r \in Due(job) : r.call = "liq_fee" => r = SecondOf(job.op, job.held) /\ HalfRead(job.op, job.held)
           /\ LedBy(job.op, job.held) /\ HalfRead(job.op, job.held) /\ SecondOf(job.op, job.held) \notin DOMAIN job.held
                => Due(job) = {SecondOf(job.op, job.held)}
<1>1. PICK op, held : op = job.op /\ held = job.held
  OBVIOUS
<1> DEFINE s == Leading(op)
           t == FeesAfter(held, ModulesRead(op))
<1>2. Due(job) = FirstUnheld(s \o t, held)
  BY <1>1, LeadingIs DEF Due
<1>3. Avoids(FeeCalls, s)
  BY <1>1, LeadingIs
<1>4. \/ ModulesRead(op) \notin DOMAIN held /\ t = <<>>
      \/ /\ ModulesRead(op) \in DOMAIN held /\ HalfRead(op, held)
         /\ t = <<{FeesOf(op, held)}, {SecondOf(op, held)}, {BoundsOf(op, held)}>>
      \/ ModulesRead(op) \in DOMAIN held /\ ~HalfRead(op, held) /\ t = <<{FeesOf(op, held)}, {BoundsOf(op, held)}>>
  <2>1. CASE ModulesRead(op) \notin DOMAIN held
    BY <2>1 DEF FeesAfter, Holds
  <2>2. CASE ModulesRead(op) \in DOMAIN held
    BY <2>2, FeesAfterAre
  <2> QED
    BY <2>1, <2>2
<1> DEFINE a == {FeesOf(op, held)}
           b == {SecondOf(op, held)}
           c == {BoundsOf(op, held)}
<1>5. /\ IsSeq(t)
      /\ DOMAIN t \subseteq 1..3
      /\ \A k \in DOMAIN t : \A r \in t[k] : r.call = "liq_fee" => HalfRead(op, held) /\ r = SecondOf(op, held)
      /\ HalfRead(op, held) /\ ModulesRead(op) \in DOMAIN held => DOMAIN t = 1..3 /\ t[1] = a /\ t[2] = b /\ t[3] = c
  <2>1. FeesOf(op, held).call = "fees" /\ BoundsOf(op, held).call = "bounds"
    BY DEF FeesOf, BoundsOf, At
  <2>2. (\A r \in a : r.call # "liq_fee") /\ (\A r \in c : r.call # "liq_fee")
    BY <2>1
  <2>3. CASE t = <<>>
    <3>1. <<>> \in Seq({}) /\ DOMAIN <<>> = {}
      OBVIOUS
    <3> QED
      BY <2>3, <3>1, <1>4 DEF IsSeq
  <2> HIDE DEF a, c, t
  <2>4. ASSUME t = <<a, b, c>>, HalfRead(op, held)
        PROVE  /\ IsSeq(t) /\ DOMAIN t = 1..3 /\ t[1] = a /\ t[2] = b /\ t[3] = c
               /\ \A k \in DOMAIN t : \A r \in t[k] : r.call = "liq_fee" => HalfRead(op, held) /\ r = SecondOf(op, held)
    <3>1. <<a, b, c>> \in Seq({a, b, c}) /\ DOMAIN <<a, b, c>> = 1..3
      OBVIOUS
    <3>2. <<a, b, c>>[1] = a /\ <<a, b, c>>[2] = b /\ <<a, b, c>>[3] = c
      OBVIOUS
    <3>3. \A k \in 1..3 : <<a, b, c>>[k] \in {a, b, c}
      BY <3>1
    <3>4. IsSeq(t)
      BY <2>4, <3>1 DEF IsSeq
    <3> QED
      BY <2>2, <2>4, <3>1, <3>2, <3>3, <3>4
  <2>5. ASSUME t = <<a, c>>
        PROVE  /\ IsSeq(t) /\ DOMAIN t \subseteq 1..3
               /\ \A k \in DOMAIN t : \A r \in t[k] : r.call # "liq_fee"
    <3>1. <<a, c>> \in Seq({a, c}) /\ DOMAIN <<a, c>> = 1..2
      OBVIOUS
    <3>2. \A k \in 1..2 : <<a, c>>[k] \in {a, c}
      BY <3>1
    <3>3. IsSeq(t)
      BY <2>5, <3>1 DEF IsSeq
    <3> QED
      BY <2>2, <2>5, <3>1, <3>2, <3>3
  <2> QED
    BY <1>4, <2>3, <2>4, <2>5 DEF a, c
<1> HIDE DEF s, t
<1>6. /\ IsSeq(s) /\ IsSeq(s \o t) /\ Len(s) \in Nat /\ Len(t) \in Nat
      /\ DOMAIN s = 1..Len(s) /\ DOMAIN t = 1..Len(t) /\ DOMAIN (s \o t) = 1..(Len(s) + Len(t))
      /\ \A i \in 1..Len(s) : (s \o t)[i] = s[i]
      /\ \A i \in (Len(s) + 1)..(Len(s) + Len(t)) : (s \o t)[i] = t[i - Len(s)]
  BY <1>3, <1>5, SequencesJoin DEF Avoids
<1>7. \A r \in Due(job) :
        /\ r \notin DOMAIN held
        /\ \E i \in DOMAIN (s \o t) : r \in (s \o t)[i] /\ \A j \in 1..(i - 1) : (s \o t)[j] \subseteq DOMAIN held
  <2>1. PICK steps : steps = s \o t
    OBVIOUS
  <2>2. IsSeq(steps) /\ Due(job) = FirstUnheld(steps, held)
    BY <1>2, <1>6, <2>1
  <2>3. \A r \in FirstUnheld(steps, held) :
          /\ r \notin DOMAIN held
          /\ \E i \in DOMAIN steps : r \in steps[i] /\ \A j \in 1..(i - 1) : steps[j] \subseteq DOMAIN held
    BY <2>2, DueIs
  <2> QED
    BY <2>1, <2>2, <2>3
\* One that is of the fees, or comes when the rest is held.
<1>8. ASSUME NEW r \in Due(job), r.call \in FeeCalls \/ LedBy(op, held)
      PROVE  /\ LedBy(op, held)
             /\ \E k \in DOMAIN t : r \in t[k] /\ \A j \in 1..(k - 1) : t[j] \subseteq DOMAIN held
  <2>1. PICK i \in DOMAIN (s \o t) : r \in (s \o t)[i] /\ \A j \in 1..(i - 1) : (s \o t)[j] \subseteq DOMAIN held
    BY <1>7
  <2>2. ~(i \in 1..Len(s))
    <3> SUFFICES ASSUME i \in 1..Len(s) PROVE FALSE
      OBVIOUS
    <3>1. i \in DOMAIN s /\ r \in s[i]
      BY <1>6, <2>1
    <3>2. r.call \notin FeeCalls
      BY <1>3, <3>1 DEF Avoids
    <3>3. s[i] \subseteq DOMAIN held
      BY <1>8, <3>1, <3>2 DEF LedBy, s
    <3> QED
      BY <1>7, <3>1, <3>3
  <2>3. i \in (Len(s) + 1)..(Len(s) + Len(t)) /\ i - Len(s) \in DOMAIN t
    BY <1>6, <2>1, <2>2
  <2>4. \A j \in 1..Len(s) : s[j] \subseteq DOMAIN held
    BY <1>6, <2>1, <2>3
  <2>5. LedBy(op, held)
    BY <1>6, <2>4 DEF LedBy, s
  <2>6. r \in t[i - Len(s)]
    BY <1>6, <2>1, <2>3
  <2>7. ASSUME NEW j \in 1..(i - Len(s) - 1) PROVE t[j] \subseteq DOMAIN held
    <3> DEFINE n == j + Len(s)
    <3>1. n \in 1..(i - 1) /\ n \in (Len(s) + 1)..(Len(s) + Len(t)) /\ n - Len(s) = j
      BY <1>6, <2>3
    <3> HIDE DEF n
    <3> QED
      BY <1>6, <2>1, <3>1
  <2> QED
    BY <2>3, <2>5, <2>6, <2>7
<1>9. ASSUME NEW r \in Due(job), r.call = "liq_fee" PROVE r = SecondOf(op, held) /\ HalfRead(op, held)
  <2>1. r.call \in FeeCalls
    BY <1>9 DEF FeeCalls
  <2> QED
    BY <1>5, <1>8, <1>9, <2>1
<1>10. ASSUME LedBy(op, held), HalfRead(op, held), SecondOf(op, held) \notin DOMAIN held, NEW r \in Due(job)
       PROVE  r = SecondOf(op, held)
  <2>1. DOMAIN t = 1..3 /\ t[1] = a /\ t[2] = b /\ t[3] = c
    BY <1>1, <1>5, <1>10, LedModules
  <2>2. PICK k \in 1..3 : r \in t[k] /\ \A j \in 1..(k - 1) : t[j] \subseteq DOMAIN held
    BY <1>8, <1>10, <2>1
  <2>3. k # 1
    BY <1>7, <1>10, <2>1, <2>2 DEF HalfRead
  <2>4. k # 3
    BY <1>10, <2>1, <2>2
  <2>5. k = 2
    BY <2>3, <2>4
  <2> QED
    BY <2>1, <2>2, <2>5
<1>11. ASSUME LedBy(op, held), HalfRead(op, held), SecondOf(op, held) \notin DOMAIN held, Due(job) = {}
       PROVE  FALSE
  <2>1. DOMAIN t = 1..3 /\ t[2] = b
    BY <1>1, <1>5, <1>11, LedModules
  <2>2. PICK steps : steps = s \o t
    OBVIOUS
  <2>3. IsSeq(steps) /\ FirstUnheld(steps, held) = {}
    BY <1>2, <1>6, <1>11, <2>2
  <2>4. \A i \in DOMAIN steps : steps[i] \subseteq DOMAIN held
    BY <2>3, DueIs
  <2>5. Has(t, b)
    BY <2>1 DEF Has
  <2>6. Has(steps, b)
    BY <1>5, <1>6, <2>2, <2>5, JoinHas
  <2>7. b \subseteq DOMAIN held
    BY <2>4, <2>6 DEF Has
  <2> QED
    BY <1>11, <2>7
<1>12. LedBy(op, held) /\ HalfRead(op, held) /\ SecondOf(op, held) \notin DOMAIN held
         => Due(job) = {SecondOf(op, held)}
  BY <1>10, <1>11
<1> QED
  BY <1>1, <1>8, <1>9, <1>12

-----------------------------------------------------------------------------
(***************************************************************************)
(* The cache and what stands on it.  That answers are within their TTL is  *)
(* not inductive by itself: every entry must have been asked for at a      *)
(* second its expiry is counted from, every answer must be of the chain    *)
(* since its step was begun, and the first part of a schedule must be as   *)
(* recent when its second is stored beside it.                             *)
(***************************************************************************)

EntryOK(key, entry) ==
    /\ key[1] \in Cached
    /\ key[1] = "fees" => Len(entry.value) # 1
    /\ \E t \in 0..clock :
        entry.expires_at = t + TtlOf(key[1]) /\ TrueSince(KeyRequest(key), entry.value, t)

CacheOK == \A key \in DOMAIN cache : EntryOK(key, cache[key])

TimeOK(job) == job.begun \in Nat /\ job.since \in Nat /\ job.begun <= job.since /\ job.since <= clock

HeldFresh(job) ==
    \A r \in DOMAIN job.held : r.call \in Cached =>
        TrueSince(r, Got(job.held, r), Earliest(job.begun, TtlOf(r.call)))

\* No schedule is held before all that leads to it.
InTurn(job) == job.op \in FeeOps /\ (\E r \in DOMAIN job.held : r.call = "fees") => LedBy(job.op, job.held)

\* Until its second part is read, the first is of the step that is waited for.
HalfFresh(job) ==
    job.op \in FeeOps /\ HalfRead(job.op, job.held) /\ SecondOf(job.op, job.held) \notin DOMAIN job.held =>
        TrueSince(FeesOf(job.op, job.held), Got(job.held, FeesOf(job.op, job.held)), job.since)

HoldsFresh(job) == TimeOK(job) /\ HeldFresh(job) /\ InTurn(job) /\ HalfFresh(job)

AnswersFresh(job) ==
    \A r \in DOMAIN job.answers : r.call \in Cached \cup {"liq_fee"} /\ ~Failed(job.answers[r]) =>
        SaidSince(r, job.answers[r].value, job.since)

FreshJob(job) ==
    /\ HoldsFresh(job) /\ AnswersFresh(job)
    /\ ~job.done => Out(job) \subseteq Due(job)

CacheInv == TimesOK /\ CacheOK /\ \A i \in DOMAIN jobs : FreshJob(jobs[i])

LEMMA EarliestIs ==
    ASSUME NEW begun \in Nat, NEW ttl \in Nat
    PROVE  /\ Earliest(begun, ttl) \in Nat /\ Earliest(begun, ttl) <= begun
           /\ \A t \in Nat : begun < t + ttl => Earliest(begun, ttl) <= t
BY DEF Earliest, Lesser, Saturating

LEMMA TtlIs == \A call : TtlOf(call) \in Nat
BY TtlAssumption DEF TtlOf

\* A schedule the chain answers is of one part.
LEMMA SaidIsTrue ==
    ASSUME NEW r, NEW value, NEW t, SaidSince(r, value, t)
    PROVE  TrueSince(r, value, t)
<1>1. CASE r.call # "fees"
  BY <1>1 DEF TrueSince
<1>2. CASE r.call = "fees"
  <2>1. PICK h \in DOMAIN said : Says(r, WorldAt(h)) = value
    BY DEF SaidSince
  <2>2. PICK g : value = <<g>>
    BY <1>2, <2>1 DEF Says
  <2>3. IsSeq(<<g>>) /\ DOMAIN <<g>> = {1} /\ <<g>>[1] = g
    BY OneStep
  <2> QED
    BY <1>2, <2>2, <2>3 DEF TrueSince
<1> QED
  BY <1>1, <1>2

\* What the cache answers is within its TTL of now.
LEMMA HitIsTrue ==
    ASSUME NodeInv, TimesOK, CacheOK, NEW r, r.call \in Cached, FromCache(r, clock) # None,
           NEW begun \in Nat, begun <= clock
    PROVE  /\ TrueSince(r, FromCache(r, clock).value, Earliest(begun, TtlOf(r.call)))
           /\ r.call = "fees" => Len(FromCache(r, clock).value) # 1
<1>1. PICK key : key = KeyOf(r)
  OBVIOUS
<1>2. key # None /\ CacheGet(cache, key, clock) # None /\ FromCache(r, clock) = Value(CacheGet(cache, key, clock))
  BY <1>1 DEF FromCache, Cached
<1>3. key \in DOMAIN cache /\ clock < cache[key].expires_at /\ CacheGet(cache, key, clock) = cache[key].value
  BY <1>2 DEF CacheGet, IsValid
<1>4. PICK entry : entry = cache[key]
  OBVIOUS
<1>5. EntryOK(key, entry) /\ clock < entry.expires_at
  BY <1>3, <1>4 DEF CacheOK
<1>6. FromCache(r, clock).value = entry.value
  BY <1>2, <1>3, <1>4 DEF Value
<1>7. key[1] = r.call
  BY <1>1, KeyIs
<1>8. PICK t \in 0..clock : entry.expires_at = t + TtlOf(r.call) /\ TrueSince(KeyRequest(key), entry.value, t)
  BY <1>5, <1>7 DEF EntryOK
<1>9. PICK ttl \in Nat : ttl = TtlOf(r.call)
  BY TtlIs
<1>10. clock \in Nat /\ t \in Nat /\ begun < t + ttl
  BY <1>5, <1>8, <1>9 DEF TimesOK
<1>11. Earliest(begun, ttl) \in Nat /\ Earliest(begun, ttl) <= t
  BY <1>10, EarliestIs
<1>12. TrueSince(r, entry.value, t)
  BY <1>1, <1>8, KeyTrue
<1>13. TrueSince(r, entry.value, Earliest(begun, ttl))
  BY <1>10, <1>11, <1>12, TrueEarlier
<1> QED
  BY <1>5, <1>6, <1>7, <1>9, <1>13 DEF EntryOK

\* An operation that holds more of what was due is as fresh as it was.
LEMMA HoldsMore ==
    ASSUME NEW job, NEW after, NEW more, HoldsFresh(job),
           after.op = job.op, after.begun = job.begun, after.since = job.since,
           after.held = Over(more, job.held), DOMAIN more \subseteq Due(job),
           \A r \in DOMAIN more : r.call \in Cached =>
                /\ TrueSince(r, more[r].value, Earliest(job.begun, TtlOf(r.call)))
                /\ r.call = "fees" /\ Len(more[r].value) = 1 => TrueSince(r, more[r].value, job.since)
    PROVE  HoldsFresh(after)
<1>1. /\ DOMAIN after.held = DOMAIN more \cup DOMAIN job.held
      /\ \A r \in DOMAIN more : after.held[r] = more[r]
      /\ \A r \in DOMAIN job.held : r \notin DOMAIN more => after.held[r] = job.held[r]
  BY DEF Over
<1>2. \A r \in DOMAIN more : r \notin DOMAIN job.held
  BY DueIsUnheld DEF Due
<1>3. TimeOK(after)
  BY DEF HoldsFresh, TimeOK
<1>4. HeldFresh(after)
  BY <1>1 DEF HoldsFresh, HeldFresh, Got
<1>5. LedBy(job.op, job.held) => LedBy(after.op, after.held)
  BY <1>1 DEF LedBy
<1>6. ASSUME job.op \in FeeOps, NEW r \in DOMAIN after.held, r.call = "fees" PROVE LedBy(job.op, job.held)
  <2>1. CASE r \in DOMAIN job.held
    BY <1>6, <2>1 DEF HoldsFresh, InTurn
  <2>2. CASE r \in DOMAIN more
    <3>1. r \in Due(job) /\ r.call \in FeeCalls
      BY <1>6, <2>2 DEF FeeCalls
    <3> QED
      BY <1>6, <3>1, FeesDue
  <2> QED
    BY <1>1, <1>6, <2>1, <2>2
<1>7. InTurn(after)
  BY <1>5, <1>6 DEF InTurn
<1>8. HalfFresh(after)
  <2> SUFFICES ASSUME job.op \in FeeOps, HalfRead(job.op, after.held),
                      SecondOf(job.op, after.held) \notin DOMAIN after.held
               PROVE  TrueSince(FeesOf(job.op, after.held), Got(after.held, FeesOf(job.op, after.held)), job.since)
    BY DEF HalfFresh
  <2>1. PICK fees : fees = FeesOf(job.op, after.held)
    OBVIOUS
  <2>2. fees \in DOMAIN after.held /\ Len(Got(after.held, fees)) = 1 /\ fees.call = "fees"
    BY <2>1 DEF HalfRead, FeesOf, At
  <2>3. LedBy(job.op, job.held)
    BY <1>6, <2>2
  <2>4. CASE fees \in DOMAIN more
    <3>1. fees.call \in Cached /\ Got(after.held, fees) = more[fees].value
      BY <1>1, <2>2, <2>4 DEF Cached, Got
    <3> QED
      BY <2>1, <2>2, <2>4, <3>1
  <2>5. CASE fees \notin DOMAIN more
    <3>1. fees \in DOMAIN job.held /\ after.held[fees] = job.held[fees]
      BY <1>1, <2>2, <2>5
    <3>2. ModulesRead(job.op) \in DOMAIN job.held /\ after.held[ModulesRead(job.op)] = job.held[ModulesRead(job.op)]
      BY <1>1, <1>2, <2>3, LedModules
    <3>3. FeesOf(job.op, job.held) = fees /\ SecondOf(job.op, job.held) = SecondOf(job.op, after.held)
      BY <2>1, <3>2 DEF FeesOf, SecondOf, Got
    <3>4. HalfRead(job.op, job.held) /\ SecondOf(job.op, job.held) \notin DOMAIN job.held
      BY <1>1, <2>2, <3>1, <3>3 DEF HalfRead, Got
    <3>5. TrueSince(fees, Got(job.held, fees), job.since)
      BY <3>3, <3>4 DEF HoldsFresh, HalfFresh
    <3> QED
      BY <2>1, <3>1, <3>5 DEF Got
  <2> QED
    BY <2>4, <2>5
<1> QED
  BY <1>3, <1>4, <1>7, <1>8 DEF HoldsFresh

-----------------------------------------------------------------------------
(* An operation goes on.                                                   *)

LEMMA HitFresh ==
    ASSUME NodeInv, TimesOK, CacheOK, NEW job, IsJob(job), job.answers = << >>, HoldsFresh(job)
    PROVE  LET after == Hit(job, clock) IN
           /\ HoldsFresh(after) /\ IsJob(after)
           /\ \A f \in DOMAIN job : f # "held" => after[f] = job[f]
<1> DEFINE more == Hits(Due(job) \ DOMAIN job.answers, clock)
           after == Hit(job, clock)
<1>1. \A r \in DOMAIN more : r \in Due(job) /\ FromCache(r, clock) # None /\ more[r] = FromCache(r, clock)
  BY DEF Hits
<1>2. after = [job EXCEPT !.held = Over(more, @)]
  BY DEF Hit
<1> HIDE DEF more, after
<1>3. /\ DOMAIN after = DOMAIN job /\ after.held = Over(more, job.held)
      /\ \A f \in DOMAIN job : f # "held" => after[f] = job[f]
  BY <1>2 DEF IsJob
<1>4. after.op = job.op /\ after.begun = job.begun /\ after.since = job.since /\ IsJob(after)
  BY <1>3 DEF IsJob
<1>5. job.begun \in Nat /\ job.begun <= clock
  BY DEF HoldsFresh, TimeOK, TimesOK
<1>6. ASSUME NEW r \in DOMAIN more, r.call \in Cached
      PROVE  /\ TrueSince(r, more[r].value, Earliest(job.begun, TtlOf(r.call)))
             /\ r.call = "fees" => Len(more[r].value) # 1
  BY <1>1, <1>5, <1>6, HitIsTrue
<1>7. HoldsFresh(after)
  BY <1>1, <1>3, <1>4, <1>6, HoldsMore
<1> QED
  BY <1>3, <1>4, <1>7 DEF after

\* At its await an operation holds what it may, and waits for what is due: the
\* second part of a schedule from when its first was asked for.
LEMMA ResumeFresh ==
    ASSUME NodeInv, TimesOK, CacheOK, NEW job, IsJob(job), job.answers = << >>, HoldsFresh(job)
    PROVE  FreshJob(Resume(job, clock))
<1> DEFINE once == Hit(job, clock)
           twice == Hit(once, clock)
           after == AtAwait(twice, clock)
<1>1. HoldsFresh(once) /\ IsJob(once) /\ (\A f \in DOMAIN job : f # "held" => once[f] = job[f])
  BY HitFresh
<1>2. once.answers = << >>
  BY <1>1 DEF IsJob
<1>3. HoldsFresh(twice) /\ IsJob(twice) /\ (\A f \in DOMAIN once : f # "held" => twice[f] = once[f])
  <2> HIDE DEF once
  <2> QED
    BY <1>1, <1>2, HitFresh
<1>4. twice.answers = << >>
  BY <1>1, <1>2, <1>3 DEF IsJob
<1>5. Resume(job, clock) = after
  BY DEF Resume
<1> HIDE DEF once, twice
<1>6. /\ DOMAIN after = DOMAIN twice /\ after.op = twice.op /\ after.how = twice.how /\ after.held = twice.held
      /\ after.begun = twice.begun
      /\ after.answers = << >> /\ after.asked = Due(twice) \ DOMAIN twice.answers
      /\ after.since = IF \E r \in Due(twice) : r.call = "liq_fee" THEN twice.since ELSE clock
  BY <1>3, <1>4 DEF AtAwait, Waiting, IsJob
<1> HIDE DEF after
<1>7. DOMAIN after.answers = {} /\ after.asked = Due(after) /\ Due(after) = Due(twice)
  BY <1>4, <1>6 DEF Due
<1>8. Out(after) \subseteq Due(after) /\ AnswersFresh(after)
  BY <1>7 DEF Out, AnswersFresh
<1>9. TimeOK(after) /\ HeldFresh(after) /\ InTurn(after)
  BY <1>3, <1>6 DEF HoldsFresh, TimeOK, TimesOK, HeldFresh, InTurn
<1>10. HalfFresh(after)
  <2>1. CASE \E r \in Due(twice) : r.call = "liq_fee"
    BY <1>3, <1>6, <2>1 DEF HoldsFresh, HalfFresh
  <2>2. CASE ~ \E r \in Due(twice) : r.call = "liq_fee"
    <3>1. PICK op, held : op = twice.op /\ held = twice.held
      OBVIOUS
    <3> SUFFICES ASSUME op \in FeeOps, HalfRead(op, held), SecondOf(op, held) \notin DOMAIN held
                 PROVE  FALSE
      BY <1>6, <3>1 DEF HalfFresh
    <3>2. FeesOf(op, held) \in DOMAIN held /\ FeesOf(op, held).call = "fees"
      BY DEF HalfRead, FeesOf, At
    <3>3. LedBy(op, held)
      BY <1>3, <3>1, <3>2 DEF HoldsFresh, InTurn
    <3>4. Due(twice) = {SecondOf(op, held)}
      BY <3>1, <3>3, FeesDue
    <3>5. SecondOf(op, held).call = "liq_fee"
      BY DEF SecondOf, At
    <3> QED
      BY <2>2, <3>4, <3>5
  <2> QED
    BY <2>1, <2>2
<1> QED
  BY <1>5, <1>8, <1>9, <1>10 DEF FreshJob, HoldsFresh

LEMMA NewFresh ==
    ASSUME NodeInv, TimesOK, CacheOK, NEW op, NEW how, NEW number
    PROVE  /\ FreshJob(Resume(NewJob(op, how, number), clock))
           /\ FreshJob([NewJob(op, how, number) EXCEPT !.done = TRUE, !.refused = {R("invalid")}])
<1> DEFINE new == NewJob(op, how, number)
           refused == [new EXCEPT !.done = TRUE, !.refused = {R("invalid")}]
<1>1. /\ IsJob(new) /\ new.answers = << >> /\ DOMAIN new.held = {}
      /\ new.begun = clock /\ new.since = clock
      /\ refused.answers = << >> /\ DOMAIN refused.held = {} /\ refused.begun = clock /\ refused.since = clock
      /\ refused.done = TRUE
  BY DEF NewJob, IsJob
<1> HIDE DEF new, refused
<1>2. ASSUME NEW job, DOMAIN job.held = {}, job.begun = clock, job.since = clock
      PROVE  HoldsFresh(job)
  BY <1>2 DEF HoldsFresh, TimeOK, TimesOK, HeldFresh, InTurn, HalfFresh, HalfRead
<1>3. HoldsFresh(new) /\ HoldsFresh(refused)
  BY <1>1, <1>2
<1>4. FreshJob(Resume(new, clock))
  BY <1>1, <1>3, ResumeFresh
<1>5. FreshJob(refused)
  BY <1>1, <1>3 DEF FreshJob, AnswersFresh
<1> QED
  BY <1>4, <1>5 DEF new, refused

\* What stands is fresh still.
LEMMA JobStaysFresh ==
    ASSUME NodeInv, NodeInv', TimesOK, TimesOK', Aged, NEW job, FreshJob(job)
    PROVE  FreshJob(job)'
<1>1. clock \in Nat /\ clock' \in Nat /\ clock <= clock'
  BY DEF Aged
<1>2. TimeOK(job) /\ job.since \in 0..clock
  BY <1>1 DEF FreshJob, HoldsFresh, TimeOK
<1>3. TimeOK(job)'
  BY <1>1, <1>2 DEF TimeOK
<1>4. HeldFresh(job)'
  <2> SUFFICES ASSUME NEW r \in DOMAIN job.held, r.call \in Cached
               PROVE  TrueSince(r, Got(job.held, r), Earliest(job.begun, TtlOf(r.call)))'
    BY DEF HeldFresh
  <2>1. PICK t : t = Earliest(job.begun, TtlOf(r.call))
    OBVIOUS
  <2>2. PICK value : value = Got(job.held, r)
    OBVIOUS
  <2>3. t \in 0..clock
    <3>1. TtlOf(r.call) \in Nat /\ job.begun \in Nat
      BY <1>2, TtlIs DEF TimeOK
    <3>2. t \in Nat /\ t <= job.begun
      BY <2>1, <3>1, EarliestIs
    <3> QED
      BY <1>1, <1>2, <3>2 DEF TimeOK
  <2>4. TrueSince(r, value, t)
    BY <2>1, <2>2 DEF FreshJob, HoldsFresh, HeldFresh
  <2>5. TrueSince(r, value, t)'
    BY <2>3, <2>4, TrueStays
  <2> QED
    BY <2>1, <2>2, <2>5
<1>5. InTurn(job)'
  BY DEF FreshJob, HoldsFresh, InTurn
<1>6. ASSUME NEW r, NEW value, TrueSince(r, value, job.since)
      PROVE  TrueSince(r, value, job.since)'
  BY <1>2, <1>6, TrueStays
<1>7. HalfFresh(job)'
  <2>1. PICK fees, value : fees = FeesOf(job.op, job.held) /\ value = Got(job.held, fees)
    OBVIOUS
  <2>2. TrueSince(fees, value, job.since) => TrueSince(fees, value, job.since)'
    BY <1>6
  <2> QED
    BY <2>1, <2>2 DEF FreshJob, HoldsFresh, HalfFresh
<1>8. AnswersFresh(job)'
  <2> SUFFICES ASSUME NEW r \in DOMAIN job.answers, r.call \in Cached \cup {"liq_fee"}, ~Failed(job.answers[r])
               PROVE  SaidSince(r, job.answers[r].value, job.since)'
    BY DEF AnswersFresh
  <2>1. PICK value : value = job.answers[r].value
    OBVIOUS
  <2>2. SaidSince(r, value, job.since)
    BY <2>1 DEF FreshJob, AnswersFresh
  <2>3. PICK t \in 0..clock : t = job.since
    BY <1>2
  <2>4. SaidSince(r, value, t)'
    BY <2>2, <2>3, SaidStays
  <2> QED
    BY <2>1, <2>3, <2>4
<1> QED
  BY <1>3, <1>4, <1>5, <1>7, <1>8 DEF FreshJob, HoldsFresh

LEMMA CacheStays ==
    ASSUME NodeInv, NodeInv', TimesOK, TimesOK', Aged, NEW key, NEW entry, EntryOK(key, entry)
    PROVE  EntryOK(key, entry)'
<1>1. PICK t \in 0..clock : entry.expires_at = t + TtlOf(key[1]) /\ TrueSince(KeyRequest(key), entry.value, t)
  BY DEF EntryOK
<1>2. PICK r, value : r = KeyRequest(key) /\ value = entry.value
  OBVIOUS
<1>3. TrueSince(r, value, t)'
  BY <1>1, <1>2, TrueStays
<1>4. t \in 0..clock'
  BY DEF Aged
<1>5. \E u \in 0..clock' : entry.expires_at = u + TtlOf(key[1]) /\ TrueSince(r, value, u)'
  BY <1>1, <1>3, <1>4
<1> QED
  BY <1>2, <1>5 DEF EntryOK

-----------------------------------------------------------------------------
(* An operation is answered.                                               *)

\* What a replica answers now is of the chain at any second so far.
LEMMA ReplicaIsRecent ==
    ASSUME NodeInv, WorldsOK, TimesOK, NEW behind \in 0..Behind, NEW r, NEW t \in 0..clock
    PROVE  SaidSince(r, Says(r, WorldAt(chain[Seen(behind)])), t)
<1>1. Height \in Nat /\ Height >= 3 /\ Behind \in Nat /\ Behind < 3
  BY ChainAssumption, SessionAssumption DEF NodeInv, WorldsOK, Height
<1>2. PICK n : n = Seen(behind)
  OBVIOUS
<1>3. n \in 1..Height /\ n + Behind >= Height
  BY <1>1, <1>2 DEF Seen
<1>4. chain[n] \in DOMAIN said /\ chain[n][1] = n
  BY <1>3 DEF NodeInv
<1>5. HeightBefore(t) \in Nat /\ HeightBefore(t) <= Height
  BY HeightBeforeIs DEF TimesOK
<1>6. chain[n][1] + Behind >= HeightBefore(t)
  BY <1>1, <1>3, <1>4, <1>5
<1> QED
  BY <1>2, <1>4, <1>6 DEF SaidSince

Recent(job, request, answer) ==
    request.call \in Cached \cup {"liq_fee"} /\ ~Failed(answer) => SaidSince(request, answer.value, job.since)

LEMMA ServedIsRecent ==
    ASSUME NodeInv, WorldsOK, TimesOK, NEW job, FreshJob(job), NEW request, MayAsk(job, request),
           NEW behind \in 0..Behind, NEW answer \in Served(job, request, behind)
    PROVE  Recent(job, request, answer)
<1> SUFFICES ASSUME request.call \in Cached \cup {"liq_fee"} PROVE SaidSince(request, answer.value, job.since)
  BY DEF Recent
<1>1. ~Pinned(job, request)
  <2>1. CASE request.call \in {"fees", "liq_fee", "bounds"}
    BY <2>1 DEF Pinned
  <2>2. CASE request.call \in {"balance", "pool_price", "funding_rate"}
    BY <2>2 DEF Pinned, MayAsk, PinnedOps, Unpinned
  <2> QED
    BY <2>1, <2>2 DEF Cached
<1>2. request.call \notin {"head", "header", "preflight"}
  BY DEF Cached
<1>3. answer = Value(Says(request, WorldAt(chain[Seen(behind)])))
  BY <1>1, <1>2 DEF Served
<1>4. answer.value = Says(request, WorldAt(chain[Seen(behind)]))
  BY <1>3 DEF Value
<1>5. job.since \in 0..clock
  BY DEF FreshJob, HoldsFresh, TimeOK, TimesOK
<1> QED
  BY <1>4, <1>5, ReplicaIsRecent

LEMMA FaultIsRecent ==
    ASSUME NEW job, NEW request, NEW answer \in Faults(job, request)
    PROVE  Recent(job, request, answer)
<1>1. \A kind : Failed(Failure(kind))
  BY DEF Failed, Failure
<1>2. request.call \in Cached \cup {"liq_fee"} => Failed(answer)
  BY <1>1 DEF Faults, Cached
<1> QED
  BY <1>2 DEF Recent

LEMMA TookFresh ==
    ASSUME NEW job, IsJob(job), FreshJob(job), NEW request \in job.asked, NEW answer, Recent(job, request, answer)
    PROVE  FreshJob(Took(job, request, answer))
<1> DEFINE after == Took(job, request, answer)
<1>1. /\ DOMAIN after = DOMAIN job /\ after.asked = job.asked \ {request}
      /\ after.answers = Put(job.answers, request, answer)
      /\ \A f \in DOMAIN job : f \notin {"asked", "answers"} => after[f] = job[f]
  BY DEF Took, IsJob
<1> HIDE DEF after
<1>2. /\ after.op = job.op /\ after.how = job.how /\ after.held = job.held
      /\ after.begun = job.begun /\ after.since = job.since /\ after.done = job.done
  BY <1>1 DEF IsJob
<1>3. /\ DOMAIN after.answers = DOMAIN job.answers \cup {request} /\ after.answers[request] = answer
      /\ \A r \in DOMAIN job.answers : r # request => after.answers[r] = job.answers[r]
  BY <1>1 DEF Put
<1>4. HoldsFresh(after)
  BY <1>2 DEF FreshJob, HoldsFresh, TimeOK, HeldFresh, InTurn, HalfFresh
<1>5. AnswersFresh(after)
  <2> SUFFICES ASSUME NEW r \in DOMAIN after.answers PROVE Recent(job, r, after.answers[r])
    BY <1>2 DEF AnswersFresh, Recent
  <2>1. CASE r = request
    BY <1>3, <2>1
  <2>2. CASE r # request
    BY <1>3, <2>2 DEF FreshJob, AnswersFresh, Recent
  <2> QED
    BY <2>1, <2>2
<1>6. Out(after) = Out(job) /\ Due(after) = Due(job)
  BY <1>1, <1>2, <1>3 DEF Out, Due
<1> QED
  BY <1>2, <1>4, <1>5, <1>6 DEF FreshJob, after

\* Only what reads the modules asks for the second part of a schedule.
LEMMA SecondIsAskedInTurn ==
    ASSUME NodeInv, WorldsOK, NEW job, JobOK(job), WorkOK(job), NEW r \in Due(job), r.call = "liq_fee"
    PROVE  /\ job.op \in FeeOps /\ HalfRead(job.op, job.held) /\ r = SecondOf(job.op, job.held)
           /\ r \notin DOMAIN job.held
<1>1. r \notin DOMAIN job.held
  BY DueIsUnheld DEF Due
<1>2. job.op \in FeeOps
  <2>1. CASE job.op \in ReadOps
    BY <2>1, ReadsSendNothing DEF JobOK, WorkOK
  <2>2. CASE IsCall(job)
    <3>1. Era \in {Legacy, Upgradeable}
      BY <2>2, EraIs DEF IsCall
    <3>2. TradeAsks(job.op, job.how, r)
      BY <2>2, <3>1, TradeDue DEF WorkOK
    <3> QED
      BY <3>2 DEF TradeAsks, R, At
  <2> QED
    BY <2>1, <2>2 DEF WorkOK
<1> QED
  BY <1>1, <1>2, FeesDue

-----------------------------------------------------------------------------
(* A step's answers are put in the cache, and held.                        *)

StoresOK(entries) == \A key \in DOMAIN entries : EntryOK(key, entries[key])

LEMMA PutStores ==
    ASSUME CacheOK, TimesOK, NEW key, NEW value, NEW t \in 0..clock, key[1] \in Cached,
           key[1] = "fees" => Len(value) # 1, TrueSince(KeyRequest(key), value, t)
    PROVE  StoresOK(CachePut(cache, key, value, t))
<1> DEFINE new == [value |-> value, expires_at |-> t + TtlOf(key[1])]
           entries == CachePut(cache, key, value, t)
<1>1. new.value = value /\ new.expires_at = t + TtlOf(key[1])
  OBVIOUS
<1>2. entries = Put(cache, key, new)
  BY DEF CachePut
<1> HIDE DEF new, entries
<1>3. EntryOK(key, new)
  BY <1>1 DEF EntryOK
<1>4. /\ DOMAIN entries = DOMAIN cache \cup {key} /\ entries[key] = new
      /\ \A k \in DOMAIN cache : k # key => entries[k] = cache[k]
  BY <1>2 DEF Put
<1>5. \A k \in DOMAIN entries : EntryOK(k, entries[k])
  BY <1>3, <1>4 DEF CacheOK
<1> QED
  BY <1>5 DEF StoresOK, entries

LEMMA StoreIsOK ==
    ASSUME NodeInv, WorldsOK, CacheOK, TimesOK, NEW job, JobOK(job), WorkOK(job), FreshJob(job), ~job.done,
           NEW r \in DOMAIN job.answers, ~Failed(job.answers[r]) \/ Alone(r)
    PROVE  StoresOK(Store(job, r))
<1>1. PICK t \in 0..clock : t = job.since
  BY DEF FreshJob, HoldsFresh, TimeOK, TimesOK
<1>2. PICK answer : answer = job.answers[r]
  OBVIOUS
<1>3. StoresOK(cache)
  BY DEF StoresOK, CacheOK
<1>4. CASE r.call = "liq_fee"
  <2>1. ~Failed(answer)
    BY <1>2, <1>4 DEF Alone
  <2>2. SaidSince(r, answer.value, t)
    BY <1>1, <1>2, <1>4, <2>1 DEF FreshJob, AnswersFresh
  <2>3. r \in Due(job)
    BY DEF FreshJob, Out
  <2>4. /\ job.op \in FeeOps /\ HalfRead(job.op, job.held) /\ r = SecondOf(job.op, job.held)
        /\ r \notin DOMAIN job.held
    BY <1>4, <2>3, SecondIsAskedInTurn
  <2>5. PICK m : m = Got(job.held, ModulesRead(job.op)).fees
    OBVIOUS
  <2>6. r = At("liq_fee", m) /\ FeesOf(job.op, job.held) = At("fees", m) /\ r.part[1] = m
    BY <2>4, <2>5 DEF SecondOf, FeesOf, At
  <2>7. PICK half : half = Got(job.held, At("fees", m))
    OBVIOUS
  <2>8. TrueSince(At("fees", m), half, t) /\ Len(half) = 1
    BY <1>1, <2>4, <2>6, <2>7 DEF FreshJob, HoldsFresh, HalfFresh, HalfRead
  <2>9. At("fees", m).call = "fees" /\ At("fees", m).part[1] = m /\ r.part[1] = m
    BY <2>6 DEF At
  <2>10. IsSeq(half) /\ \A k \in DOMAIN half : SaidSince(At("fees", m), <<half[k]>>, t)
    BY <2>8, <2>9 DEF TrueSince
  <2>11. PICK v : v = answer.value
    OBVIOUS
  <2>12. SaidSince(At("fees", m), <<v>>, t)
    <3>1. PICK h \in DOMAIN said : Says(r, WorldAt(h)) = v /\ h[1] + Behind >= HeightBefore(t)
      BY <2>2, <2>11 DEF SaidSince
    <3>2. Says(r, WorldAt(h)) = Governed(m, WorldAt(h))
      BY <1>4, <2>9 DEF Says
    <3>3. Says(At("fees", m), WorldAt(h)) = <<Governed(m, WorldAt(h))>>
      BY <2>9 DEF Says
    <3> QED
      BY <3>1, <3>2, <3>3 DEF SaidSince
  <2>13. PICK whole : whole = Append(half, v)
    OBVIOUS
  <2>14. IsSeq(whole) /\ Len(whole) # 1 /\ \A k \in DOMAIN whole : whole[k] = v \/ (k \in DOMAIN half /\ whole[k] = half[k])
    <3>1. PICK S : half \in Seq(S)
      BY <2>10 DEF IsSeq
    <3>2. half \in Seq(S \cup {v}) /\ v \in S \cup {v}
      BY <3>1
    <3>3. /\ whole \in Seq(S \cup {v}) /\ Len(half) \in Nat /\ DOMAIN half = 1..Len(half)
          /\ DOMAIN whole = 1..(Len(half) + 1) /\ whole[Len(half) + 1] = v
          /\ \A k \in 1..Len(half) : whole[k] = half[k]
      BY <2>13, <3>2, Appended
    <3>4. Len(whole) = 2
      BY <2>8, <3>3
    <3> QED
      BY <3>3, <3>4 DEF IsSeq
  <2>15. TrueSince(At("fees", m), whole, t)
    BY <2>9, <2>10, <2>12, <2>14 DEF TrueSince
  <2>16. PICK key : key = <<"fees", m>>
    OBVIOUS
  <2>17. key[1] = "fees" /\ KeyRequest(key) = At("fees", m)
    BY <2>16 DEF KeyRequest
  <2>18. StoresOK(CachePut(cache, key, whole, t))
    BY <2>14, <2>15, <2>17, PutStores DEF Cached
  <2>19. Store(job, r) = CachePut(cache, key, whole, t)
    <3>1. KeyOf(r) = None
      BY <1>4 DEF KeyOf
    <3>2. Store(job, r) = CachePut(cache, <<"fees", r.part[1]>>,
                Append(Got(job.held, At("fees", r.part[1])), job.answers[r].value), job.since)
      BY <1>4, <3>1 DEF Store
    <3>3. <<"fees", r.part[1]>> = key
      BY <2>6, <2>16
    <3>4. Got(job.held, At("fees", r.part[1])) = half
      BY <2>6, <2>7
    <3>5. job.answers[r].value = v
      BY <1>2, <2>11
    <3> QED
      BY <1>1, <2>13, <3>2, <3>3, <3>4, <3>5
  <2> QED
    BY <2>18, <2>19
<1>5. CASE r.call # "liq_fee" /\ r.call # "fees" /\ KeyOf(r) # None
  <2>1. PICK key : key = KeyOf(r)
    OBVIOUS
  <2>2. r.call \in Cached /\ key[1] = r.call
    BY <1>5, <2>1, KeyIs
  <2>3. ~Failed(answer)
    BY <1>2, <2>2 DEF Alone, Cached
  <2>4. SaidSince(r, answer.value, t)
    BY <1>1, <1>2, <2>2, <2>3 DEF FreshJob, AnswersFresh
  <2>5. TrueSince(KeyRequest(key), answer.value, t)
    BY <2>1, <2>2, <2>4, SaidIsTrue, KeyTrue
  <2>6. StoresOK(CachePut(cache, key, answer.value, t))
    BY <1>5, <2>2, <2>5, PutStores
  <2>7. Store(job, r) = CachePut(cache, key, answer.value, t)
    BY <1>1, <1>2, <1>5, <2>1 DEF Store
  <2> QED
    BY <2>6, <2>7
<1>6. CASE r.call # "liq_fee" /\ ~(r.call # "fees" /\ KeyOf(r) # None)
  <2>1. Store(job, r) = cache
    BY <1>6 DEF Store
  <2> QED
    BY <1>3, <2>1
<1> QED
  BY <1>4, <1>5, <1>6

\* What was answered is held, each answer of its step's seconds.
LEMMA AnsweredIsFresh ==
    ASSUME NodeInv, TimesOK, NEW job, JobOK(job), FreshJob(job), ~job.done,
           \A r \in DOMAIN job.answers : ~Broken(job, r)
    PROVE  LET mid == [job EXCEPT !.held = Over(job.answers, @), !.answers = << >>, !.asked = {}] IN
           IsJob(mid) /\ mid.answers = << >> /\ HoldsFresh(mid)
<1> DEFINE mid == [job EXCEPT !.held = Over(job.answers, @), !.answers = << >>, !.asked = {}]
<1>1. /\ IsJob(mid) /\ mid.held = Over(job.answers, job.held) /\ mid.answers = << >>
      /\ mid.op = job.op /\ mid.begun = job.begun /\ mid.since = job.since
  BY DEF JobOK, IsJob
<1> HIDE DEF mid
<1>2. PICK more : more = job.answers
  OBVIOUS
<1>3. DOMAIN more \subseteq Due(job)
  BY <1>2 DEF FreshJob, Out
<1>4. HoldsFresh(job)
  BY DEF FreshJob
<1>5. ASSUME NEW r \in DOMAIN more, r.call \in Cached
      PROVE  TrueSince(r, more[r].value, job.since)
             /\ TrueSince(r, more[r].value, Earliest(job.begun, TtlOf(r.call)))
  <2>1. ~Failed(more[r])
    BY <1>2, <1>5 DEF Broken, Alone, Cached
  <2>2. SaidSince(r, more[r].value, job.since)
    BY <1>2, <1>5, <2>1 DEF FreshJob, AnswersFresh
  <2>3. TrueSince(r, more[r].value, job.since)
    BY <2>2, SaidIsTrue
  <2>4. job.since \in Nat /\ job.begun \in Nat /\ job.begun <= job.since /\ TtlOf(r.call) \in Nat
    BY <1>4, TtlIs DEF HoldsFresh, TimeOK
  <2>5. Earliest(job.begun, TtlOf(r.call)) \in Nat /\ Earliest(job.begun, TtlOf(r.call)) <= job.since
    <3>1. PICK begun \in Nat, ttl \in Nat : begun = job.begun /\ ttl = TtlOf(r.call)
      BY <2>4
    <3>2. Earliest(begun, ttl) \in Nat /\ Earliest(begun, ttl) <= begun
      BY EarliestIs
    <3> QED
      BY <2>4, <3>1, <3>2
  <2> QED
    BY <2>3, <2>4, <2>5, TrueEarlier
<1>6. HoldsFresh(mid)
  BY <1>1, <1>2, <1>3, <1>4, <1>5, HoldsMore
<1> QED
  BY <1>1, <1>6 DEF mid

-----------------------------------------------------------------------------
(* The operations and the cache together.                                  *)

FreshTo == \A i \in DOMAIN jobs' : \A job : job = jobs'[i] => FreshJob(job)
CacheTo == \A key \in DOMAIN cache' : \A entry : entry = cache'[key] => EntryOK(key, entry)

\* What is fresh as a step leaves it is fresh after it.
LEMMA EachFresh ==
    ASSUME NodeInv, NodeInv', TimesOK, TimesOK', Aged, FreshTo, CacheTo
    PROVE  CacheInv'
<1>1. ASSUME NEW i \in DOMAIN jobs', NEW job, job = jobs'[i] PROVE FreshJob(job)'
  BY <1>1, JobStaysFresh DEF FreshTo
<1>2. \A i \in DOMAIN jobs' : FreshJob(jobs[i])'
  BY <1>1 DEF FreshJob, HoldsFresh, TimeOK, HeldFresh, InTurn, HalfFresh, AnswersFresh, TrueSince, SaidSince,
              HeightBefore, Height, WorldAt
<1>3. ASSUME NEW key \in DOMAIN cache', NEW entry, entry = cache'[key] PROVE EntryOK(key, entry)'
  BY <1>3, CacheStays DEF CacheTo
<1>4. CacheOK'
  BY <1>3 DEF CacheOK, EntryOK, TrueSince, SaidSince, HeightBefore, Height, WorldAt
<1> QED
  BY <1>2, <1>4 DEF CacheInv

LEMMA SameFresh ==
    ASSUME CacheInv, UNCHANGED jobs
    PROVE  FreshTo
BY DEF CacheInv, FreshTo

LEMMA SameCache ==
    ASSUME CacheInv, UNCHANGED cache
    PROVE  CacheTo
BY DEF CacheInv, CacheOK, CacheTo

LEMMA StoredTo ==
    ASSUME StoresOK(cache')
    PROVE  CacheTo
BY DEF StoresOK, CacheTo

LEMMA OneIsFresh ==
    ASSUME CacheInv, JobsOK, NEW i \in DOMAIN jobs, NEW after, FreshJob(after), jobs' = [jobs EXCEPT ![i] = after]
    PROVE  FreshTo
<1>1. ASSUME NEW j \in DOMAIN jobs', NEW job, job = jobs'[j] PROVE FreshJob(job)
  <2>1. job = after \/ (j \in DOMAIN jobs /\ job = jobs[j])
    BY <1>1
  <2> QED
    BY <2>1 DEF CacheInv
<1> QED
  BY <1>1 DEF FreshTo

LEMMA MoreIsFresh ==
    ASSUME CacheInv, JobsOK, NEW new, FreshJob(new), jobs' = Append(jobs, new)
    PROVE  FreshTo
<1>1. PICK S : jobs \in Seq(S)
  BY DEF JobsOK
<1>2. /\ DOMAIN jobs' = 1..(Len(jobs) + 1) /\ DOMAIN jobs = 1..Len(jobs) /\ Len(jobs) \in Nat
      /\ \A j \in 1..Len(jobs) : jobs'[j] = jobs[j]
      /\ jobs'[Len(jobs) + 1] = new
  BY <1>1
<1>3. ASSUME NEW j \in DOMAIN jobs', NEW job, job = jobs'[j] PROVE FreshJob(job)
  <2>1. job = new \/ (j \in DOMAIN jobs /\ job = jobs[j])
    BY <1>2, <1>3
  <2> QED
    BY <2>1 DEF CacheInv
<1> QED
  BY <1>3 DEF FreshTo

LEMMA TakeFresh ==
    ASSUME CacheInv, JobsOK, NEW i \in DOMAIN jobs, NEW request \in jobs[i].asked, NEW answer,
           Recent(jobs[i], request, answer), Take(i, request, answer)
    PROVE  FreshTo
<1>1. PICK job : job = jobs[i]
  OBVIOUS
<1>2. IsJob(job) /\ FreshJob(job) /\ request \in job.asked /\ Recent(job, request, answer)
  BY <1>1 DEF JobsOK, JobOK, CacheInv
<1>3. FreshJob(Took(job, request, answer))
  BY <1>2, TookFresh
<1>4. jobs' = [jobs EXCEPT ![i] = Took(job, request, answer)]
  BY <1>1 DEF Take, Took
<1> QED
  BY <1>3, <1>4, OneIsFresh

-----------------------------------------------------------------------------
(* The steps.                                                              *)

LEMMA ServeFresh ==
    ASSUME NodeInv, WorldsOK, JobsOK, CacheInv,
           NEW i \in DOMAIN jobs, NEW request \in Servable(jobs[i]), Serve(i, request) \/ Fault(i, request)
    PROVE  FreshTo /\ CacheTo
<1>1. CacheTo
  BY SameCache DEF Serve, Fault
<1>2. request \in jobs[i].asked /\ JobOK(jobs[i]) /\ FreshJob(jobs[i]) /\ TimesOK
  BY ServableIsAsked DEF JobsOK, CacheInv
<1>3. MayAsk(jobs[i], request)
  BY <1>2 DEF JobOK, AskedOK
<1>4. CASE Fault(i, request)
  <2>1. PICK answer \in Faults(jobs[i], request) : Take(i, request, answer)
    BY <1>4 DEF Fault
  <2>2. Recent(jobs[i], request, answer)
    BY FaultIsRecent
  <2> QED
    BY <1>1, <1>2, <2>1, <2>2, TakeFresh
<1>5. CASE Serve(i, request) /\ Unproved(request)
  <2>1. Take(i, request, Failure("unsupported"))
    BY <1>5 DEF Serve
  <2>2. Recent(jobs[i], request, Failure("unsupported"))
    BY <1>5 DEF Recent, Unproved, Cached
  <2> QED
    BY <1>1, <1>2, <2>1, <2>2, TakeFresh
<1>6. CASE Serve(i, request) /\ ~Unproved(request)
  <2>1. PICK behind \in 0..Behind : \E answer \in Served(jobs[i], request, behind) : Take(i, request, answer)
    BY <1>6 DEF Serve
  <2>2. PICK answer \in Served(jobs[i], request, behind) : Take(i, request, answer)
    BY <2>1
  <2>3. Recent(jobs[i], request, answer)
    BY <1>2, <1>3, ServedIsRecent
  <2> QED
    BY <1>1, <1>2, <2>2, <2>3, TakeFresh
<1> QED
  BY <1>4, <1>5, <1>6

\* A poll stores the one answer a step was given, and goes on; or ends.
LEMMA PollFresh ==
    ASSUME NodeInv, WorldsOK, JobsOK, JobsTrue, CacheInv, NEW i \in DOMAIN jobs, Poll(i)
    PROVE  FreshTo /\ CacheTo
<1>1. PICK job : job = jobs[i]
  OBVIOUS
<1>2. JobOK(job) /\ IsJob(job) /\ WorkOK(job) /\ FreshJob(job) /\ TimesOK /\ CacheOK
  BY <1>1 DEF JobsOK, JobOK, JobsTrue, CacheInv
<1> DEFINE broken == {r \in DOMAIN job.answers : Broken(job, r)}
           ended(r) == [job EXCEPT !.done = TRUE, !.asked = {}, !.refused = {r}]
           mid == [job EXCEPT !.held = Over(job.answers, @), !.answers = << >>, !.asked = {}]
           one == CHOOSE r \in DOMAIN job.answers : TRUE
<1>3. CASE \E r \in broken : jobs' = [jobs EXCEPT ![i] = ended(r)] /\ UNCHANGED cache
  <2>1. PICK r \in broken : jobs' = [jobs EXCEPT ![i] = ended(r)] /\ UNCHANGED cache
    BY <1>3
  <2>2. PICK after : after = ended(r)
    OBVIOUS
  <2>3. /\ after.op = job.op /\ after.held = job.held /\ after.answers = job.answers
        /\ after.begun = job.begun /\ after.since = job.since /\ after.done = TRUE
    BY <1>2, <2>2 DEF IsJob
  <2>4. FreshJob(after)
    BY <1>2, <2>3 DEF FreshJob, HoldsFresh, TimeOK, HeldFresh, InTurn, HalfFresh, AnswersFresh
  <2> QED
    BY <2>1, <2>2, <2>4, OneIsFresh, SameCache
<1>4. CASE /\ ~job.done /\ job.answers # << >> /\ broken = {}
           /\ cache' = IF Cardinality(DOMAIN job.answers) # 1 THEN cache ELSE Store(job, one)
           /\ jobs' = [jobs EXCEPT ![i] = Resume(mid, clock)]
  <2>1. \A r \in DOMAIN job.answers : ~Broken(job, r)
    BY <1>4
  <2>2. IsJob(mid) /\ mid.answers = << >> /\ HoldsFresh(mid)
    BY <1>2, <1>4, <2>1, AnsweredIsFresh
  <2>3. FreshJob(Resume(mid, clock))
    <3> HIDE DEF mid
    <3> QED
      BY <1>2, <2>2, ResumeFresh
  <2>4. FreshTo
    BY <1>4, <2>3, OneIsFresh
  <2>5. DOMAIN job.answers # {}
    BY <1>2, <1>4 DEF WorkOK
  <2>6. one \in DOMAIN job.answers
    BY <2>5
  <2>7. ~Failed(job.answers[one]) \/ Alone(one)
    BY <2>1, <2>6 DEF Broken
  <2>8. StoresOK(Store(job, one))
    <3> HIDE DEF one
    <3> QED
      BY <1>2, <1>4, <2>6, <2>7, StoreIsOK
  <2>9. CASE cache' = cache
    BY <2>4, <2>9, SameCache
  <2>10. CASE cache' = Store(job, one)
    BY <2>4, <2>8, <2>10, StoredTo
  <2> QED
    BY <1>4, <2>9, <2>10
<1> QED
  BY <1>1, <1>3, <1>4 DEF Poll

\* What is left of a cache was in it.
LEMMA InvalidateFresh ==
    ASSUME CacheInv, Invalidate
    PROVE  FreshTo /\ CacheTo
<1>1. FreshTo
  BY SameFresh DEF Invalidate
<1>2. ASSUME NEW key \in DOMAIN cache' PROVE key \in DOMAIN cache /\ cache'[key] = cache[key]
  BY <1>2 DEF Invalidate, InvalidateFastLayer, InvalidateAll, Restrict
<1>3. CacheTo
  BY <1>2 DEF CacheTo, CacheInv, CacheOK
<1> QED
  BY <1>1, <1>3

LEMMA BeginFresh ==
    ASSUME NodeInv, JobsOK, CacheInv, NEW new, UNCHANGED cache, jobs' = Append(jobs, new),
           \E op, how, number :
              \/ new = Resume(NewJob(op, how, number), clock)
              \/ new = [NewJob(op, how, number) EXCEPT !.done = TRUE, !.refused = {R("invalid")}]
    PROVE  FreshTo /\ CacheTo
<1>1. TimesOK /\ CacheOK
  BY DEF CacheInv
<1>2. PICK op, how, number :
              \/ new = Resume(NewJob(op, how, number), clock)
              \/ new = [NewJob(op, how, number) EXCEPT !.done = TRUE, !.refused = {R("invalid")}]
  OBVIOUS
<1>3. FreshJob(Resume(NewJob(op, how, number), clock))
  BY <1>1, NewFresh
<1>4. FreshJob([NewJob(op, how, number) EXCEPT !.done = TRUE, !.refused = {R("invalid")}])
  BY <1>1, NewFresh
<1>5. FreshJob(new)
  BY <1>2, <1>3, <1>4
<1> QED
  BY <1>5, MoreIsFresh, SameCache

LEMMA ReadsFresh ==
    ASSUME NodeInv, WorldsOK, JobsOK, JobsTrue, CacheInv, ReadsNext
    PROVE  FreshTo /\ CacheTo
<1>1. CASE BeginRead
  <2>1. PICK op, how, number : Begin(op, how, number)
    BY <1>1 DEF BeginRead
  <2>2. PICK new : new = Resume(NewJob(op, how, number), clock)
    OBVIOUS
  <2>3. jobs' = Append(jobs, new) /\ UNCHANGED cache
    BY <2>1, <2>2 DEF Begin
  <2> QED
    BY <2>2, <2>3, BeginFresh
<1>2. CASE \E i \in DOMAIN jobs : \E r \in Servable(jobs[i]) : Serve(i, r) \/ Fault(i, r)
  BY <1>2, ServeFresh
<1>3. CASE \E i \in DOMAIN jobs : Poll(i)
  BY <1>3, PollFresh
<1>4. CASE Invalidate
  BY <1>4, InvalidateFresh
<1> QED
  BY <1>1, <1>2, <1>3, <1>4 DEF ReadsNext

LEMMA TradesFresh ==
    ASSUME NodeInv, JobsOK, CacheInv, TradesNext(Calls, Theirs)
    PROVE  FreshTo /\ CacheTo
<1>1. UNCHANGED cache
  BY DEF TradesNext, BeginTrade, Submit, SendFails, Receipt, TimeOut, MineOurs, MineTheirs, client
<1>2. CacheTo
  BY <1>1, SameCache
<1>3. ASSUME NEW call \in Calls, BeginTrade(call.op, call.params) PROVE FreshTo
  <2>1. PICK new : jobs' = Append(jobs, new) /\ \E op, how, number :
              \/ new = Resume(NewJob(op, how, number), clock)
              \/ new = [NewJob(op, how, number) EXCEPT !.done = TRUE, !.refused = {R("invalid")}]
    BY <1>3 DEF BeginTrade
  <2> QED
    BY <1>1, <2>1, BeginFresh
<1>4. ASSUME NEW i \in DOMAIN jobs, NEW r \in jobs[i].asked, r.call = "send",
             Submit(i, r) \/ SendFails(i, r) \/ Receipt(i, r) \/ TimeOut(i, r)
      PROVE  FreshTo
  <2>1. \A answer : Recent(jobs[i], r, answer)
    BY <1>4 DEF Recent, Cached
  <2>2. UNCHANGED jobs \/ \E answer : Take(i, r, answer)
    BY <1>4 DEF Submit, SendFails, Receipt, TimeOut
  <2> QED
    BY <1>4, <2>1, <2>2, SameFresh, TakeFresh
<1>5. CASE MineOurs \/ \E t \in Theirs : MineTheirs(t.tx, t.from)
  BY <1>2, <1>5, SameFresh DEF MineOurs, MineTheirs, client
<1> QED
  BY <1>2, <1>3, <1>4, <1>5 DEF TradesNext

\* A live market reads its pool again, or leaves the read it was told by.
LEMMA LiveFresh ==
    ASSUME NodeInv, JobsOK, CacheInv, LiveNext
    PROVE  FreshTo /\ CacheTo
<1>1. UNCHANGED cache
  BY DEF LiveNext
<1>2. CacheTo
  BY <1>1, SameCache
<1>3. CASE UNCHANGED jobs
  BY <1>2, <1>3, SameFresh
<1>4. CASE jobs' = <<>>
  <2>1. DOMAIN jobs' = {}
    BY <1>4
  <2> QED
    BY <1>2, <2>1 DEF FreshTo
<1>5. CASE jobs' = Refresh
  <2>1. PICK new : new = Resume(NewJob("pool", "lagged", 0), clock)
    OBVIOUS
  <2>2. jobs' = Append(jobs, new)
    BY <1>5, <2>1 DEF Refresh
  <2> QED
    BY <1>1, <2>1, <2>2, BeginFresh
<1> QED
  BY <1>3, <1>4, <1>5 DEF LiveNext, Subscribe, Started, HeadArrives, Woken, Refreshed, LiveEnds

-----------------------------------------------------------------------------
(* Every step.                                                             *)

LEMMA CacheKeeps == IInv /\ TradeInv /\ CacheInv /\ [Next]_vars => CacheInv'
<1> SUFFICES ASSUME IInv, TradeInv, CacheInv, [Next]_vars PROVE CacheInv'
  OBVIOUS
<1>1. NodeInv /\ JobsOK /\ WorldsOK /\ JobsTrue /\ TimesOK
  BY DEF IInv, TradeInv, CacheInv
<1>2. NodeInv' /\ TimesOK' /\ Aged
  BY <1>1, SessionKeeps, TimesKeep DEF IInv
<1>3. UNCHANGED <<cache, jobs>> => FreshTo /\ CacheTo
  BY SameFresh, SameCache
<1>4. ReadsNext => FreshTo /\ CacheTo
  BY <1>1, ReadsFresh
<1>5. TradesNext(Calls, Theirs) => FreshTo /\ CacheTo
  BY <1>1, TradesFresh
<1>6. LiveNext => FreshTo /\ CacheTo
  BY <1>1, LiveFresh
<1>7. NodeNext => UNCHANGED <<cache, jobs>>
  BY DEF NodeNext, client
<1>8. FeedsNext => LiveNext \/ UNCHANGED <<cache, jobs>>
  BY DEF FeedsNext, client
<1>9. UNCHANGED client => UNCHANGED <<cache, jobs>>
  BY DEF client
<1>10. FreshTo /\ CacheTo
  BY <1>3, <1>4, <1>5, <1>6, <1>7, <1>8, <1>9, SameFresh, SameCache DEF Next, vars
<1> QED
  BY <1>1, <1>2, <1>10, EachFresh

LEMMA CacheStarts == Init => CacheInv
<1> SUFFICES ASSUME Init PROVE CacheInv
  OBVIOUS
<1>1. clock = 0 /\ DOMAIN cache = {} /\ DOMAIN jobs = {}
  BY DEF Init, ReadsInit, EmptyCache
<1>2. \A h \in DOMAIN said : said[h].mined = 0
  BY DEF Init, ReadsInit
<1> QED
  BY <1>1, <1>2 DEF CacheInv, TimesOK, CacheOK

LEMMA AnswersAreWithinTtl == CacheInv => CachedWithinTtl
<1> SUFFICES ASSUME CacheInv, NEW i \in DOMAIN jobs, NEW r \in DOMAIN jobs[i].held, KeyOf(r) # None
             PROVE  TrueSince(r, Got(jobs[i].held, r), Earliest(jobs[i].begun, TtlOf(r.call)))
  BY DEF CachedWithinTtl, TrueSince
<1>1. r.call \in Cached
  BY KeyIs
<1> QED
  BY <1>1 DEF CacheInv, FreshJob, HoldsFresh, HeldFresh

\* A current read answers what the chain said no longer before it was called
\* than its layer's TTL, a replica's distance aside: whatever the TTLs, the
\* order of requests, answers and polls, the reads that overlap and share the
\* cache, the caches invalidated between, and however the chain is replaced
\* (hft/state_cache.rs CachedValue::is_valid and its put_ and get_ methods,
\* client/chain.rs balance_of, client/queries.rs get_pool_price,
\* get_funding_rate, get_or_fetch_fees, get_or_fetch_bounds).
THEOREM CachedAlwaysWithinTtl == Spec => []CachedWithinTtl
<1>1. Init => IInv /\ TradeInv /\ CacheInv
  BY SessionStarts, TradesStart, CacheStarts
<1>2. IInv /\ TradeInv /\ CacheInv /\ [Next]_vars => IInv' /\ TradeInv' /\ CacheInv'
  BY SessionKeeps, TradeKeeps, CacheKeeps
<1>3. CacheInv => CachedWithinTtl
  BY AnswersAreWithinTtl
<1> QED
  BY <1>1, <1>2, <1>3, PTL DEF Spec
=============================================================================
