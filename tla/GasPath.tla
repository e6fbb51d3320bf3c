------------------------------ MODULE GasPath ------------------------------
(***************************************************************************)
(* How a send gets its gas limit and its fees: TxBuilder::send and         *)
(* PerpClient::simulate (client/transactions.rs) over one client's         *)
(* GasLimitCache and its chain's FeeCache (hft/gas.rs).                    *)
(*                                                                         *)
(* Each element of Callers calls one selector's entrypoint until its call  *)
(* is confirmed, so a failed send goes back to idle.  Every lock().unwrap  *)
(* of the estimate cache is a step of its own: the clients' tasks run on   *)
(* several threads.  Nonces are SendPath's.                                *)
(*                                                                         *)
(*   idle -> called -> [preflight ->] [estimating -> estimated ->]         *)
(*        -> resolved -> waiting -> confirmed                              *)
(*                                                                         *)
(* The node is external: a caller's call takes Simulated gas in eth_call   *)
(* and eth_estimateGas, and Consumed gas once mined, which is what an      *)
(* Arbitrum block may charge beyond the simulation.                        *)
(***************************************************************************)
EXTENDS Integers, TLAPS

CONSTANTS
    Callers,
    Simulated(_), Consumed(_),  \* external: the gas of a caller's call
    Pins(_),            \* the limits a caller may pin, with_gas_limit
    Floor,              \* estimate_floor of the selector, 0 where it has none
    EstimateTtl, FeeTtl,
    Tip,                \* default_priority_fee
    BaseFees,           \* external: the base fees a header may carry
    MaxFee,             \* the largest u64
    MaxClock, MaxFaults \* bounds of the model: ticks, failures and pins

Nothing == 0

Urgencies == {"Low", "Normal", "High", "Critical"}

ASSUME GasAssumption ==
    /\ \A s \in Callers :
        Simulated(s) \in Nat /\ Consumed(s) \in Nat /\ Pins(s) \subseteq Nat \ {0}
    /\ Floor \in Nat /\ EstimateTtl \in Nat /\ FeeTtl \in Nat
    /\ MaxFee \in Nat /\ Tip \in 0..MaxFee /\ BaseFees \subseteq 0..MaxFee
    /\ MaxClock \in Nat /\ MaxFaults \in Nat

VARIABLES
    pc,         \* where each caller's send is
    started,    \* per send, as are the following: its now
    limit,      \* the gas limit it would go out with
    pinned,     \* the sends whose limit is pinned
    estimate,   \* the selector's CachedEstimate, limit Nothing when absent
    poisoned,   \* a thread panicked with the estimate cache's mutex held
    base,       \* FeeCache::current
    clock, faults

vars == <<pc, started, limit, pinned, estimate, poisoned, base, clock, faults>>
callVars == <<started, limit, pinned>>
worldVars == <<base, clock, faults>>

Stages == {"idle", "called", "preflight", "estimating", "estimated", "resolved",
           "waiting", "confirmed", "panicked"}

Higher(a, b) == IF a >= b THEN a ELSE b
Capped(n) == IF n <= MaxFee THEN n ELSE MaxFee

Goto(s, from, to) ==
    /\ pc[s] = from
    /\ pc' = [pc EXCEPT ![s] = to]

-----------------------------------------------------------------------------
(***************************************************************************)
(* GasLimitCache.                                                          *)
(***************************************************************************)
NoEstimate == [limit |-> Nothing, at |-> 0]

\* saturating_sub: an entry from after now is fresh.
Fresh(at, now, ttl) == Higher(now - at, 0) < ttl

\* get, with Nothing for None.
Get(now) ==
    IF estimate.limit # Nothing /\ Fresh(estimate.at, now, EstimateTtl)
    THEN estimate.limit ELSE Nothing

\* The buffer is a fifth; the floor bounds the result from below.
Buffered(raw) == Higher((raw * 6) \div 5, Floor)

NewBaseFee ==
    /\ \E f \in BaseFees : base' = [known |-> TRUE, fee |-> f, at |-> clock]
    /\ UNCHANGED <<pc, callVars, estimate, poisoned, clock, faults>>

\* Faulty variant: the tip is scaled and the cap is not.
FeesFor_SmallCap(urgency) ==
    CASE urgency = "Low"      -> [cap |-> Capped(base.fee + Tip), tip |-> Tip]
      [] urgency = "Normal"   -> [cap |-> Capped(2 * base.fee + Tip), tip |-> Tip]
      [] urgency = "High"     -> [cap |-> Capped(3 * base.fee + Tip),
                                  tip |-> Capped(2 * Tip)]
      [] urgency = "Critical" -> [cap |-> Capped(4 * base.fee + 5 * Tip),
                                  tip |-> Capped(5 * Tip)]

\* fees_for.  The operands are not negative, so saturating once at the end is
\* saturating at each step.
FeesFor(urgency) ==
    CASE urgency = "Low"      -> [cap |-> Capped(base.fee + Tip), tip |-> Tip]
      [] urgency = "Normal"   -> [cap |-> Capped(2 * base.fee + Tip), tip |-> Tip]
      [] urgency = "High"     -> [cap |-> Capped(3 * base.fee + 2 * Tip),
                                  tip |-> Capped(2 * Tip)]
      [] urgency = "Critical" -> [cap |-> Capped(4 * base.fee + 5 * Tip),
                                  tip |-> Capped(5 * Tip)]

\* is_out_of_gas
IsOutOfGas(used, bound) == bound > 0 /\ used * 100 >= bound * 95

-----------------------------------------------------------------------------
(***************************************************************************)
(* The steps of one send.                                                  *)
(***************************************************************************)
\* The send returns an error and its caller will call again.
Errs(s) ==
    /\ pc' = [pc EXCEPT ![s] = "idle"]
    /\ started' = [started EXCEPT ![s] = 0]
    /\ limit' = [limit EXCEPT ![s] = Nothing]
    /\ pinned' = pinned \ {s}

Fault ==
    /\ faults < MaxFaults
    /\ faults' = faults + 1
    /\ UNCHANGED <<base, clock>>

\* now is read once, here, for every cache the send will ask.
Call(s) ==
    /\ Goto(s, "idle", "called")
    /\ started' = [started EXCEPT ![s] = clock]
    /\ UNCHANGED <<limit, pinned, estimate, poisoned, worldVars>>

\* A pinned limit skips the cache and not the simulation.
UsePinned(s) ==
    /\ Goto(s, "called", "preflight")
    /\ \E pin \in Pins(s) : limit' = [limit EXCEPT ![s] = pin]
    /\ pinned' = pinned \cup {s}
    /\ Fault
    /\ UNCHANGED <<started, estimate, poisoned>>

Lookup(s) ==
    /\ ~poisoned
    /\ \/ Get(started[s]) # Nothing /\ Goto(s, "called", "preflight")
       \/ Get(started[s]) = Nothing /\ Goto(s, "called", "estimating")
    /\ limit' = [limit EXCEPT ![s] = Get(started[s])]
    /\ UNCHANGED <<started, pinned, estimate, poisoned, worldVars>>

PreflightOk(s) ==
    /\ Goto(s, "preflight", "resolved")
    /\ Simulated(s) <= limit[s]
    /\ UNCHANGED <<callVars, estimate, poisoned, worldVars>>

\* SimulationFailed: the call does not fit in the limit.
RunsOutInPreflight(s) == pc[s] = "preflight" /\ Simulated(s) > limit[s]

PinnedTooLow(s) ==
    /\ RunsOutInPreflight(s)
    /\ s \in pinned
    /\ Errs(s)
    /\ UNCHANGED <<estimate, poisoned, worldVars>>

\* Evict, and fall through to a fresh estimate.
CachedTooLow(s) ==
    /\ RunsOutInPreflight(s)
    /\ s \notin pinned
    /\ ~poisoned
    /\ Goto(s, "preflight", "estimating")
    /\ estimate' = NoEstimate
    /\ UNCHANGED <<callVars, poisoned, worldVars>>

\* SimulationReverted or GasUnavailable, of eth_call or eth_estimateGas: the
\* cached estimate stays.
SimulationErrs(s) ==
    /\ pc[s] \in {"preflight", "estimating"}
    /\ Fault
    /\ Errs(s)
    /\ UNCHANGED <<estimate, poisoned>>

\* eth_estimateGas answers, put.
Estimate(s) ==
    /\ ~poisoned
    /\ Goto(s, "estimating", "estimated")
    /\ estimate' = [limit |-> Buffered(Simulated(s)), at |-> started[s]]
    /\ UNCHANGED <<callVars, poisoned, worldVars>>

\* Faulty variant: a missing estimate reads as 0.
ReadBack_Defaults(s) ==
    /\ ~poisoned
    /\ Goto(s, "estimated", "resolved")
    /\ limit' = [limit EXCEPT ![s] = Get(started[s])]
    /\ UNCHANGED <<started, pinned, estimate, poisoned, worldVars>>

\* get, under a lock taken anew: whatever the cache holds by now.
ReadBack(s) ==
    /\ ~poisoned
    /\ Get(started[s]) # Nothing
    /\ Goto(s, "estimated", "resolved")
    /\ limit' = [limit EXCEPT ![s] = Get(started[s])]
    /\ UNCHANGED <<started, pinned, estimate, poisoned, worldVars>>

\* unwrap of None, with the guard held.
ReadBackPanics(s) ==
    /\ ~poisoned
    /\ Get(started[s]) = Nothing
    /\ Goto(s, "estimated", "panicked")
    /\ poisoned' = TRUE
    /\ UNCHANGED <<callVars, estimate, worldVars>>

\* TxPipeline::prepare, with the fees of FeesFor(its urgency), broadcast and
\* record.  Neither now nor where the limit is from is asked for again.
Prepare(s) ==
    /\ Goto(s, "resolved", "waiting")
    /\ base.known /\ Fresh(base.at, started[s], FeeTtl)
    /\ started' = [started EXCEPT ![s] = 0]
    /\ pinned' = pinned \ {s}
    /\ UNCHANGED <<limit, estimate, poisoned, worldVars>>

\* GasUnavailable.
FeeStale(s) ==
    /\ pc[s] = "resolved"
    /\ ~(base.known /\ Fresh(base.at, started[s], FeeTtl))
    /\ Errs(s)
    /\ UNCHANGED <<estimate, poisoned, worldVars>>

Confirmed(s) ==
    /\ Goto(s, "waiting", "confirmed")
    /\ Consumed(s) <= limit[s]
    /\ limit' = [limit EXCEPT ![s] = Nothing]
    /\ UNCHANGED <<started, pinned, estimate, poisoned, worldVars>>

\* A mined transaction that needs more than its limit uses all of it.
OutOfGas(s) ==
    /\ pc[s] = "waiting"
    /\ Consumed(s) > limit[s]
    /\ IsOutOfGas(limit[s], limit[s])

\* A revert that used nearly all of its limit is read as out of gas.
LooksOutOfGas(s) ==
    /\ pc[s] = "waiting"
    /\ Consumed(s) <= limit[s]
    /\ IsOutOfGas(Consumed(s), limit[s])

\* Faulty variant: the limit that only failed once mined stays cached.
EvictsDisproved_Keeps(s) == OutOfGas(s) /\ ~poisoned /\ Errs(s)
    /\ UNCHANGED <<estimate, poisoned, worldVars>>

\* The receipt disproves the limit.  The estimate goes, pinned or not.
EvictsDisproved(s) ==
    /\ ~poisoned
    /\ \/ OutOfGas(s) /\ UNCHANGED worldVars
       \/ LooksOutOfGas(s) /\ Fault
    /\ Errs(s)
    /\ estimate' = NoEstimate
    /\ UNCHANGED poisoned

\* A revert with gas to spare, or no receipt, or no broadcast.
SendErrs(s) ==
    /\ pc[s] = "waiting"
    /\ Fault
    /\ Errs(s)
    /\ UNCHANGED <<estimate, poisoned>>

\* Every lock of a poisoned mutex unwraps the poison.  (A build that aborts on
\* panic has ended by now.)
FindsPoison(s) ==
    /\ poisoned
    /\ \/ pc[s] = "called"
       \/ RunsOutInPreflight(s) /\ s \notin pinned
       \/ pc[s] \in {"estimating", "estimated"}
       \/ OutOfGas(s)
    /\ pc' = [pc EXCEPT ![s] = "panicked"]
    /\ UNCHANGED <<callVars, estimate, poisoned, worldVars>>

Tick ==
    /\ clock < MaxClock
    /\ clock' = clock + 1
    /\ UNCHANGED <<pc, callVars, estimate, poisoned, base, faults>>

-----------------------------------------------------------------------------
Init ==
    /\ pc = [s \in Callers |-> "idle"]
    /\ started = [s \in Callers |-> 0]
    /\ limit = [s \in Callers |-> Nothing]
    /\ pinned = {}
    /\ estimate = NoEstimate
    /\ poisoned = FALSE
    /\ base = [known |-> FALSE, fee |-> 0, at |-> 0]
    /\ clock = 0
    /\ faults = 0

Progress(s) ==
    \/ Call(s) \/ UsePinned(s) \/ Lookup(s)
    \/ PreflightOk(s) \/ PinnedTooLow(s) \/ CachedTooLow(s) \/ SimulationErrs(s)
    \/ Estimate(s) \/ ReadBack(s) \/ ReadBackPanics(s)
    \/ Prepare(s) \/ FeeStale(s)
    \/ Confirmed(s) \/ EvictsDisproved(s) \/ SendErrs(s)
    \/ FindsPoison(s)

Next == NewBaseFee \/ Tick \/ \E s \in Callers : Progress(s)

Spec == Init /\ [][Next]_vars

(***************************************************************************)
(* Callers retry, requests end, and headers keep arriving.                 *)
(***************************************************************************)
FairSpec == Spec /\ WF_vars(NewBaseFee) /\ \A s \in Callers : WF_vars(Progress(s))

-----------------------------------------------------------------------------
(***************************************************************************)
(* Properties.                                                             *)
(***************************************************************************)

\* The types of the caches and of the sends, and a limit wherever one is used
\* (send refuses one of 0).
TypeOK ==
    /\ pc \in [Callers -> Stages]
    /\ started \in [Callers -> 0..MaxClock]
    /\ limit \in [Callers -> Nat]
    /\ \A s \in Callers :
        pc[s] \in {"preflight", "resolved", "waiting"} => limit[s] # Nothing
    /\ pinned \subseteq Callers
    /\ estimate \in [limit : Nat, at : 0..MaxClock]
    /\ poisoned \in BOOLEAN
    /\ base \in [known : BOOLEAN, fee : 0..MaxFee, at : 0..MaxClock]
    /\ clock \in 0..MaxClock /\ faults \in 0..MaxFaults

\* At every urgency and up to the largest u64 the fee cap covers the base fee
\* and the tip, or is the largest fee there is (gas.rs, GasFees: "Always >=
\* base_fee + max_priority_fee_per_gas"), so the node never refuses the tip.
FeeCapCoversTip ==
    base.known =>
        \A u \in Urgencies : FeesFor(u).cap >= Capped(base.fee + FeesFor(u).tip)

\* What goes out to the node is priced: a send past its simulation has a limit
\* that it pinned, looked up or read back while other sends evict the estimate,
\* and its cap covers its tip (send, simulate, FeeCache::fees_for).
SendsArePriced ==
    /\ \A s \in Callers :
        pc[s] \in {"preflight", "resolved", "waiting"} => limit[s] # Nothing
    /\ FeeCapCoversTip

\* No estimate, of a cheaper call of the selector or of a simulation that an
\* Arbitrum block disproves, keeps a caller from getting through for good: it
\* is evicted where it is disproved (simulate, is_out_of_gas) - as long as no
\* thread panics.
EveryCallGetsThrough ==
    \A s \in Callers : <>(pc[s] = "confirmed" \/ poisoned)

\* The estimate that put has stored is there when get asks for it on the next
\* line (simulate, the unwrap).
StoredIsThere == ~poisoned

-----------------------------------------------------------------------------
(* Proofs: for every call, tip, base fee and width of the fees.              *)

\* Saturation keeps an order and a bound (u64::saturating_add and mul).
LEMMA CappedMonotone ==
    ASSUME NEW a \in Nat, NEW b \in Nat, a >= b
    PROVE  Capped(a) >= Capped(b) /\ Capped(a) \in 0..MaxFee
BY GasAssumption DEF Capped

\* Saturating the tip before it is added changes nothing.
LEMMA CappedAddend ==
    ASSUME NEW a \in Nat, NEW b \in Nat
    PROVE  Capped(a + Capped(b)) = Capped(a + b)
<1>1. MaxFee \in Nat
  BY GasAssumption
<1>2. CASE b <= MaxFee
  BY <1>2 DEF Capped
<1>3. CASE b > MaxFee
  <2>1. Capped(b) = MaxFee
    BY <1>1, <1>3 DEF Capped
  <2>2. Capped(a + MaxFee) = MaxFee /\ Capped(a + b) = MaxFee
    BY <1>1, <1>3 DEF Capped
  <2> QED BY <2>1, <2>2
<1> QED BY <1>1, <1>2, <1>3

\* fees_for gives a cap that covers its tip.
LEMMA EveryUrgencyCovered ==
    ASSUME base.fee \in Nat
    PROVE  FeeCapCoversTip
<1> DEFINE f == base.fee
<1>1. Tip \in Nat /\ f \in Nat /\ Tip <= MaxFee /\ MaxFee \in Nat
  BY GasAssumption
<1>2. Capped(Tip) = Tip
  BY <1>1 DEF Capped
<1> HIDE DEF f
<1>3. /\ Capped(f + Tip) >= Capped(f + Tip)
      /\ Capped(2 * f + Tip) >= Capped(f + Tip)
  <2>1. f + Tip \in Nat /\ 2 * f + Tip \in Nat /\ 2 * f + Tip >= f + Tip
    BY <1>1
  <2> QED BY <2>1, CappedMonotone
<1>4. Capped(3 * f + 2 * Tip) >= Capped(f + Capped(2 * Tip))
  <2>1. /\ 3 * f + 2 * Tip \in Nat /\ f + 2 * Tip \in Nat /\ 2 * Tip \in Nat
        /\ 3 * f + 2 * Tip >= f + 2 * Tip
    BY <1>1
  <2>2. Capped(f + Capped(2 * Tip)) = Capped(f + 2 * Tip)
    BY <1>1, <2>1, CappedAddend
  <2> QED BY <2>1, <2>2, CappedMonotone
<1>5. Capped(4 * f + 5 * Tip) >= Capped(f + Capped(5 * Tip))
  <2>1. /\ 4 * f + 5 * Tip \in Nat /\ f + 5 * Tip \in Nat /\ 5 * Tip \in Nat
        /\ 4 * f + 5 * Tip >= f + 5 * Tip
    BY <1>1
  <2>2. Capped(f + Capped(5 * Tip)) = Capped(f + 5 * Tip)
    BY <1>1, <2>1, CappedAddend
  <2> QED BY <2>1, <2>2, CappedMonotone
<1>6. /\ FeesFor("Low").cap >= Capped(base.fee + FeesFor("Low").tip)
      /\ FeesFor("Normal").cap >= Capped(base.fee + FeesFor("Normal").tip)
  BY <1>3 DEF FeesFor, f
<1>7. FeesFor("High").cap >= Capped(base.fee + FeesFor("High").tip)
  BY <1>4 DEF FeesFor, f
<1>8. FeesFor("Critical").cap >= Capped(base.fee + FeesFor("Critical").tip)
  BY <1>5 DEF FeesFor, f
<1> QED BY <1>6, <1>7, <1>8 DEF FeeCapCoversTip, Urgencies

-----------------------------------------------------------------------------
(***************************************************************************)
(* TypeOK is inductive: every limit that a send uses comes from a pin, a   *)
(* cache hit or an estimate read back, and none of them is Nothing.        *)
(***************************************************************************)
\* What get returns is a gas limit.
LEMMA GetType == ASSUME TypeOK, NEW now PROVE Get(now) \in Nat
BY DEF TypeOK, Get, Nothing

LEMMA InitType == Init => TypeOK
<1> SUFFICES ASSUME Init PROVE TypeOK
  OBVIOUS
<1>1. \A s \in Callers : pc[s] = "idle"
  BY DEF Init
<1>2. pc \in [Callers -> Stages] /\ limit \in [Callers -> Nat] /\ pinned \subseteq Callers
  BY DEF Init, Stages, Nothing
<1>3. /\ started \in [Callers -> 0..MaxClock] /\ clock \in 0..MaxClock
      /\ faults \in 0..MaxFaults
  BY GasAssumption DEF Init
<1>6. poisoned \in BOOLEAN
  BY DEF Init
<1>4. estimate \in [limit : Nat, at : 0..MaxClock]
  BY GasAssumption DEF Init, NoEstimate, Nothing
<1>5. base \in [known : BOOLEAN, fee : 0..MaxFee, at : 0..MaxClock]
  BY GasAssumption DEF Init
<1> QED BY <1>1, <1>2, <1>3, <1>4, <1>5, <1>6 DEF TypeOK

\* An error forgets the send.
LEMMA ErrsType ==
    ASSUME TypeOK, NEW s \in Callers, Errs(s)
    PROVE  /\ pc' \in [Callers -> Stages] /\ started' \in [Callers -> 0..MaxClock]
           /\ limit' \in [Callers -> Nat] /\ pinned' \subseteq Callers
           /\ \A t \in Callers :
                pc'[t] \in {"preflight", "resolved", "waiting"} => limit'[t] # Nothing
<1>1. "idle" \in Stages /\ 0 \in 0..MaxClock /\ Nothing \in Nat
  BY GasAssumption DEF Stages, Nothing
<1> QED BY <1>1 DEF TypeOK, Errs

\* A fault of the node is counted up to its bound.
LEMMA FaultType ==
    ASSUME TypeOK, Fault
    PROVE  faults' \in 0..MaxFaults /\ base' = base /\ clock' = clock
BY GasAssumption DEF TypeOK, Fault

\* Every step of a send keeps the types.
LEMMA ProgressType ==
    ASSUME TypeOK, NEW s \in Callers, Progress(s)
    PROVE  TypeOK'
<1> USE DEF TypeOK, Goto, callVars, worldVars
<1>1. CASE Call(s)
  BY <1>1 DEF Call, Stages
<1>2. CASE UsePinned(s)
  BY <1>2, FaultType, GasAssumption DEF UsePinned, Stages, Nothing
<1>3. CASE Lookup(s)
  <2>1. Get(started[s]) \in Nat
    BY GetType
  <2> QED BY <1>3, <2>1 DEF Lookup, Stages
<1>4. CASE PreflightOk(s)
  BY <1>4 DEF PreflightOk, Stages
<1>5. CASE PinnedTooLow(s)
  BY <1>5, ErrsType DEF PinnedTooLow
<1>6. CASE CachedTooLow(s)
  BY <1>6, GasAssumption DEF CachedTooLow, NoEstimate, Nothing, Stages
<1>7. CASE SimulationErrs(s)
  BY <1>7, ErrsType, FaultType DEF SimulationErrs
<1>8. CASE Estimate(s)
  <2>1. Buffered(Simulated(s)) \in Nat
    BY GasAssumption DEF Buffered, Higher
  <2> QED BY <1>8, <2>1 DEF Estimate, Stages
<1>9. CASE ReadBack(s)
  <2>1. Get(started[s]) \in Nat
    BY GetType
  <2> QED BY <1>9, <2>1 DEF ReadBack, Stages
<1>10. CASE ReadBackPanics(s)
  BY <1>10 DEF ReadBackPanics, Stages
<1>11. CASE Prepare(s)
  BY <1>11, GasAssumption DEF Prepare, Stages
<1>12. CASE FeeStale(s)
  BY <1>12, ErrsType DEF FeeStale
<1>13. CASE Confirmed(s)
  BY <1>13 DEF Confirmed, Stages, Nothing
<1>14. CASE EvictsDisproved(s)
  <2>1. NoEstimate \in [limit : Nat, at : 0..MaxClock]
    BY GasAssumption DEF NoEstimate, Nothing
  <2>2. faults' \in 0..MaxFaults /\ base' = base /\ clock' = clock
    BY <1>14, FaultType DEF EvictsDisproved
  <2> QED BY <1>14, <2>1, <2>2, ErrsType DEF EvictsDisproved
<1>15. CASE SendErrs(s)
  BY <1>15, ErrsType, FaultType DEF SendErrs
<1>16. CASE FindsPoison(s)
  BY <1>16 DEF FindsPoison, Stages
<1> QED BY <1>1, <1>2, <1>3, <1>4, <1>5, <1>6, <1>7, <1>8, <1>9, <1>10, <1>11,
           <1>12, <1>13, <1>14, <1>15, <1>16 DEF Progress

LEMMA NextType == TypeOK /\ [Next]_vars => TypeOK'
<1> SUFFICES ASSUME TypeOK, [Next]_vars PROVE TypeOK'
  OBVIOUS
<1>1. CASE UNCHANGED vars
  BY <1>1 DEF vars, TypeOK
<1>2. CASE NewBaseFee
  BY <1>2, GasAssumption DEF NewBaseFee, TypeOK, callVars
<1>3. CASE Tick
  BY <1>3, GasAssumption DEF Tick, TypeOK, callVars
<1>4. CASE \E s \in Callers : Progress(s)
  BY <1>4, ProgressType
<1> QED BY <1>1, <1>2, <1>3, <1>4 DEF Next

\* Whatever the caches hold and lose while a send runs, it has a gas limit past
\* its simulation, and at every urgency, base fee, tip and width its fee cap
\* covers the base fee and the tip (send, simulate, FeeCache::fees_for).
THEOREM SendsAlwaysPriced == Spec => []SendsArePriced
<1>1. TypeOK => SendsArePriced
  BY EveryUrgencyCovered, GasAssumption DEF TypeOK, SendsArePriced
<1> QED BY InitType, NextType, <1>1, PTL DEF Spec

=============================================================================
