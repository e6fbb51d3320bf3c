--------------------------- MODULE CircuitBreaker ---------------------------
(***************************************************************************)
(* One endpoint's circuit breaker (transport/health.rs), as operators from *)
(* a health record to a health record: each is one method of               *)
(* EndpointHealth, run with the endpoint's mutex held.                     *)
(*                                                                         *)
(* elapsed stands for now - since_ms of an open circuit.  The code only    *)
(* compares it with the recovery timeout, so it stops there.  In the same  *)
(* way failures stops at the threshold.  The latency average and the error *)
(* rate decide nothing here.                                               *)
(***************************************************************************)
EXTENDS Naturals

CONSTANTS
    FailureThreshold,     \* CircuitBreakerConfig::failure_threshold
    RecoveryTimeout,      \* recovery_timeout, in ticks
    HalfOpenMaxRequests   \* half_open_max_requests

ASSUME BreakerAssumption ==
    /\ FailureThreshold \in Nat
    /\ RecoveryTimeout \in Nat
    /\ HalfOpenMaxRequests \in Nat

Health == [state : {"closed", "open", "halfopen"},
           elapsed : 0..RecoveryTimeout,
           probes : Nat,
           failures : 0..FailureThreshold]

UpTo(limit, n) == IF n > limit THEN limit ELSE n

Healthy == [state |-> "closed", elapsed |-> 0, probes |-> 0, failures |-> 0]

\* reserve returns Some.
Grants(h) ==
    \/ h.state = "closed"
    \/ h.state = "open" /\ h.elapsed >= RecoveryTimeout
    \/ h.state = "halfopen" /\ h.probes < HalfOpenMaxRequests

\* reserve, when it grants: Freely on a closed circuit, else a Probe.
TakesSlot(h) == h.state # "closed"

\* The first probe of an open circuit, or one more of a half-open one.
Reserve(h) ==
    IF TakesSlot(h)
    THEN [h EXCEPT !.state = "halfopen", !.elapsed = 0,
                   !.probes = IF h.state = "open" THEN 1 ELSE @ + 1]
    ELSE h

\* Faulty variant: nothing gives the slot back.
ReleaseProbe_Lost(h) == h

ReleaseProbe(h) ==
    IF h.state = "halfopen" /\ h.probes > 0 THEN [h EXCEPT !.probes = @ - 1] ELSE h

\* Faulty variant: a declined probe keeps its slot.
RecordAnswered_KeepsSlot(h) == [h EXCEPT !.failures = 0]

RecordAnswered(h) == [ReleaseProbe(h) EXCEPT !.failures = 0]

\* From every state.
RecordSuccess(h) == Healthy

\* Faulty variant: a failed probe leaves the circuit half-open.
RecordFailure_StaysHalfOpen(h, age) ==
    LET streak == UpTo(FailureThreshold, h.failures + 1)
    IN IF h.state = "halfopen" \/ (h.state = "closed" /\ streak < FailureThreshold)
       THEN [h EXCEPT !.failures = streak]
       ELSE [state |-> "open", elapsed |-> age, probes |-> 0, failures |-> streak]

\* The circuit opens, or stays open, as of a moment age ticks ago: now_ms is
\* the caller's, read before it sent the request.
RecordFailure(h, age) ==
    LET streak == UpTo(FailureThreshold, h.failures + 1)
    IN IF h.state = "closed" /\ streak < FailureThreshold
       THEN [h EXCEPT !.failures = streak]
       ELSE [state |-> "open", elapsed |-> age, probes |-> 0, failures |-> streak]

\* A tick of the clock.
Later(h) ==
    IF h.state = "open" THEN [h EXCEPT !.elapsed = UpTo(RecoveryTimeout, @ + 1)] ELSE h

=============================================================================
