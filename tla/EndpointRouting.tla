-------------------------- MODULE EndpointRouting --------------------------
(***************************************************************************)
(* Router and EndpointPool (transport/provider.rs): concurrent requests    *)
(* over the endpoints of three pools, each endpoint behind its breaker.    *)
(*                                                                         *)
(*   idle -> choosing [-> reserving] -> sent [-> backoff -> choosing] -> idle *)
(*                                                                         *)
(* Choosing among closed endpoints reads their atomic mirrors and takes no *)
(* lock; reserving locks one endpoint at a time, so each is a step of its  *)
(* own and other requests run between them.  The outcome of a request is   *)
(* recorded, and its permit resolved, without an await in between.         *)
(*                                                                         *)
(* Latencies and the round-robin cursor only decide which of several       *)
(* candidates wins: that choice is left open.                              *)
(***************************************************************************)
EXTENDS CircuitBreaker, FiniteSets

CONSTANTS
    Requests,        \* the tasks that call the transport, one request at a time
    Writes,          \* those whose requests are writes
    SharedPool, ReadPool, WritePool,   \* endpoints
    Strategy,        \* "RoundRobin", "LatencyBased" or "Hedged"
    FanOut,          \* of the hedged strategy
    MaxReadRetries, MaxWriteRetries,
    RequestTimeout   \* in ticks

Endpoints == SharedPool \cup ReadPool \cup WritePool

Strategies == {"RoundRobin", "LatencyBased", "Hedged"}

\* What the builder of a configuration lets through.
Builds ==
    /\ Endpoints # {}
    /\ WritePool # {} \/ SharedPool # {}
    /\ Strategy = "Hedged" => FanOut >= 2

ASSUME RoutingAssumption ==
    /\ IsFiniteSet(Requests)
    /\ Writes \subseteq Requests
    /\ SharedPool \cap ReadPool = {}
    /\ SharedPool \cap WritePool = {}
    /\ ReadPool \cap WritePool = {}
    /\ Strategy \in Strategies
    /\ FanOut \in Nat
    /\ Builds
    /\ MaxReadRetries \in Nat /\ MaxWriteRetries \in Nat
    /\ RequestTimeout \in Nat \ {0}

VARIABLES
    health,    \* per endpoint
    stage,     \* per request, as are the following
    fallback,  \* is it choosing in the shared pool?
    untried,   \* reserving: the endpoints not asked yet
    targets,   \* the candidates, then the endpoints it was sent to
    held,      \* the targets whose ProbePermit holds a slot
    age,       \* ticks since its now_ms
    attempt,
    reply      \* what the caller was told: "unavailable" or "other"

vars == <<health, stage, fallback, untried, targets, held, age, attempt,
          reply>>

(***************************************************************************)
(* What a request can fail with, short of an answer, by the classes that   *)
(* are told apart (transport/fault.rs).  An error response has a code, and *)
(* a text that does or does not speak of a rate limit; -32005 is said both *)
(* of limits and of ranges too wide, so its text decides.                  *)
(***************************************************************************)
Errors ==
    [kind : {"timeout", "undelivered", "unparsable", "unserializable", "unsupported"}]
    \cup [kind : {"response"}, code : {"429", "-32000", "-32005"}, limit : BOOLEAN]
    \cup [kind : {"status"}, status : {400, 403, 408, 429, 500, 503}]

\* alloy's rule for payloads.
IsRetryErr(code, limit) == limit \/ code \in {"429", "-32005"}

IsRateLimit(error) ==
    IsRetryErr(IF error.code = "-32005" THEN "0" ELSE error.code, error.limit)

\* The endpoint failed, or it answered by declining.
Fault(error) ==
    IF \/ error.kind \in {"timeout", "undelivered", "unparsable"}
       \/ error.kind = "response" /\ IsRateLimit(error)
       \/ /\ error.kind = "status"
          /\ error.status \in {401, 403, 408, 429} \/ error.status \in 500..599
    THEN "endpoint" ELSE "request"

Hedges(r) == Strategy = "Hedged" /\ r \notin Writes

\* How many endpoints one request goes to.
Width(r) == IF Hedges(r) THEN FanOut ELSE 1

Dedicated(r) == IF r \in Writes THEN WritePool ELSE ReadPool

\* Faulty variant: the fallback is never taken.
Pool_DedicatedOnly(r) == Dedicated(r)

Pool(r) == IF fallback[r] THEN SharedPool ELSE Dedicated(r)

Closed(e) == health[e].state = "closed"

MaxAttempts(r) == 1 + (IF r \in Writes THEN MaxWriteRetries ELSE MaxReadRetries)

MaxAge == IF RequestTimeout > RecoveryTimeout THEN RequestTimeout ELSE RecoveryTimeout

\* The age of a request, as an open circuit's elapsed time.
Age(r) == UpTo(RecoveryTimeout, age[r])

\* Permits dropped unresolved.
Dropped(h, S) == [e \in Endpoints |-> IF e \in S THEN ReleaseProbe(h[e]) ELSE h[e]]

Done(r, next, outcome) ==
    /\ stage' = [stage EXCEPT ![r] = next]
    /\ targets' = [targets EXCEPT ![r] = {}]
    /\ held' = [held EXCEPT ![r] = {}]
    /\ age' = [age EXCEPT ![r] = 0]
    /\ attempt' = [attempt EXCEPT ![r] = IF next = "idle" THEN 0 ELSE @]
    /\ fallback' = [fallback EXCEPT ![r] = FALSE]
    /\ reply' = [reply EXCEPT ![r] = outcome]

Finish(r, outcome) == Done(r, "idle", outcome)

Retry(r) ==
    Done(r, IF attempt[r] < MaxAttempts(r) THEN "backoff" ELSE "idle", "other")

-----------------------------------------------------------------------------
(***************************************************************************)
(* Selection.                                                              *)
(***************************************************************************)

\* Router::read_pool.
ReadPoolUsable == \E e \in ReadPool : Closed(e)

\* Faulty variant: a retry starts the count again.
NextAttempt_Uncounted(r) == 1

NextAttempt(r) == IF stage[r] = "idle" THEN 1 ELSE attempt[r] + 1

\* A new request, or the next attempt of one.  now_ms is read here.
Begin(r) ==
    /\ stage[r] \in {"idle", "backoff"}
    /\ stage' = [stage EXCEPT ![r] = "choosing"]
    /\ attempt' = [attempt EXCEPT ![r] = NextAttempt(r)]
    /\ age' = [age EXCEPT ![r] = 0]
    /\ fallback' = [fallback EXCEPT ![r] =
                        IF Hedges(r) THEN ~ReadPoolUsable ELSE Dedicated(r) = {}]
    /\ reply' = [reply EXCEPT ![r] = "other"]
    /\ UNCHANGED <<health, untried, targets, held>>

SendTo(r, S) ==
    /\ stage' = [stage EXCEPT ![r] = "sent"]
    /\ targets' = [targets EXCEPT ![r] = S]

StartReserving(r, S) ==
    /\ stage' = [stage EXCEPT ![r] = "reserving"]
    /\ untried' = [untried EXCEPT ![r] = S]

\* The lock-free path of select: any closed endpoint, at no cost.
ChooseClosed(r) ==
    /\ stage[r] = "choosing" /\ ~Hedges(r)
    /\ \E e \in Pool(r) : Closed(e) /\ SendTo(r, {e})
    /\ UNCHANGED <<health, fallback, untried, held, age, attempt, reply>>

\* Its slow path.
ChooseNone(r) ==
    /\ stage[r] = "choosing" /\ ~Hedges(r)
    /\ \A e \in Pool(r) : ~Closed(e)
    /\ StartReserving(r, Pool(r))
    /\ UNCHANGED <<health, fallback, targets, held, age, attempt, reply>>

\* select_n: the closed endpoints are enough, or every other is asked too.
ChooseMany(r) ==
    /\ stage[r] = "choosing" /\ Hedges(r)
    /\ LET closed == {e \in Pool(r) : Closed(e)}
       IN \/ /\ Cardinality(closed) >= FanOut
             /\ \E S \in SUBSET closed : Cardinality(S) = FanOut /\ SendTo(r, S)
             /\ UNCHANGED untried
          \/ /\ Cardinality(closed) < FanOut
             /\ StartReserving(r, Pool(r) \ closed)
             /\ targets' = [targets EXCEPT ![r] = closed]
    /\ UNCHANGED <<health, fallback, held, age, attempt, reply>>

Tried(r, e) == untried' = [untried EXCEPT ![r] = @ \ {e}]

\* reserve returned None; or select_n skips an endpoint that has closed since.
Passed(r) ==
    /\ stage[r] = "reserving"
    /\ \E e \in untried[r] :
        /\ ~Grants(health[e]) \/ (Hedges(r) /\ Closed(e))
        /\ Tried(r, e)
    /\ UNCHANGED <<health, stage, fallback, targets, held, age, attempt, reply>>

\* Candidate e, granted, beside the ones in targets.  Round robin takes the
\* first.  Latency-based selection keeps one and drops the other's permit.
\* Hedging collects.
Granted(r) ==
    /\ stage[r] = "reserving"
    /\ \E e \in untried[r] :
        LET slot == IF TakesSlot(health[e]) THEN {e} ELSE {}
            reserved == [health EXCEPT ![e] = Reserve(@)]
        IN /\ Grants(health[e])
           /\ ~(Hedges(r) /\ Closed(e))
           /\ IF Strategy = "RoundRobin"
              THEN untried' = [untried EXCEPT ![r] = {}]
              ELSE Tried(r, e)
           /\ \/ /\ Hedges(r) \/ targets[r] = {}
                 /\ targets' = [targets EXCEPT ![r] = @ \cup {e}]
                 /\ held' = [held EXCEPT ![r] = @ \cup slot]
                 /\ health' = reserved
              \/ /\ ~Hedges(r) /\ targets[r] # {}
                 /\ targets' = [targets EXCEPT ![r] = {e}]
                 /\ held' = [held EXCEPT ![r] = slot]
                 /\ health' = Dropped(reserved, held[r])
              \/ /\ ~Hedges(r) /\ targets[r] # {}
                 /\ health' = Dropped(reserved, slot)
                 /\ UNCHANGED <<targets, held>>
    /\ UNCHANGED <<stage, fallback, age, attempt, reply>>

\* Every endpoint was asked; of more candidates than the request is for the
\* slowest go.
Selected(r) ==
    /\ stage[r] = "reserving" /\ untried[r] = {} /\ targets[r] # {}
    /\ \E S \in SUBSET targets[r] :
        /\ Cardinality(S) = UpTo(Width(r), Cardinality(targets[r]))
        /\ SendTo(r, S)
        /\ held' = [held EXCEPT ![r] = @ \cap S]
        /\ health' = Dropped(health, held[r] \ S)
    /\ UNCHANGED <<fallback, untried, age, attempt, reply>>

\* Nothing granted: the shared pool is next.  The hedged strategy made its
\* choice of pool before.
FallBack(r) ==
    /\ stage[r] = "reserving" /\ untried[r] = {} /\ targets[r] = {}
    /\ ~Hedges(r) /\ ~fallback[r]
    /\ stage' = [stage EXCEPT ![r] = "choosing"]
    /\ fallback' = [fallback EXCEPT ![r] = TRUE]
    /\ UNCHANGED <<health, untried, targets, held, age, attempt, reply>>

Unavailable(r) ==
    /\ stage[r] = "reserving" /\ untried[r] = {} /\ targets[r] = {}
    /\ Hedges(r) \/ fallback[r]
    /\ Finish(r, "unavailable")
    /\ UNCHANGED <<health, untried>>

-----------------------------------------------------------------------------
(***************************************************************************)
(* The request on the wire, and its outcomes.  A JSON-RPC error in answer  *)
(* to a read is an answer; in answer to a write it is a rejection.         *)
(***************************************************************************)
\* A hedged read waits for the others, and is over with the last of them.
OneLess(r, e) ==
    IF targets[r] = {e}
    THEN Finish(r, "other")
    ELSE /\ targets' = [targets EXCEPT ![r] = @ \ {e}]
         /\ held' = [held EXCEPT ![r] = @ \ {e}]
         /\ UNCHANGED <<stage, fallback, age, attempt, reply>>

\* The losers of a hedged read are cancelled, and their permits dropped.
Succeeds(r) ==
    /\ stage[r] = "sent"
    /\ \E e \in targets[r] :
        health' = Dropped([health EXCEPT ![e] = RecordSuccess(@)], held[r] \ {e})
    /\ Finish(r, "other")
    /\ UNCHANGED untried

\* What a failure says of the endpoint's health.
RecordError(h, elapsed, fault) ==
    IF fault = "endpoint" THEN RecordFailure(h, elapsed) ELSE RecordAnswered(h)

\* A write that failed may have got through all the same, and is sent again; a
\* read that was declined is answered.
Fails(r) ==
    /\ stage[r] = "sent"
    /\ \E e \in targets[r], fault \in {Fault(error) : error \in Errors} :
        /\ health' = [health EXCEPT ![e] = RecordError(@, Age(r), fault)]
        /\ IF Hedges(r) THEN OneLess(r, e)
           ELSE IF fault = "request" /\ r \notin Writes THEN Finish(r, "other") ELSE Retry(r)
    /\ UNCHANGED untried

\* No outcome is recorded: the permit is dropped.
Rejects(r) ==
    /\ stage[r] = "sent" /\ r \in Writes
    /\ health' = Dropped(health, held[r])
    /\ Retry(r)
    /\ UNCHANGED untried

\* The caller drops the future at an await.
Cancel(r) ==
    /\ stage[r] \in {"sent", "backoff"}
    /\ health' = Dropped(health, held[r])
    /\ Finish(r, "other")
    /\ UNCHANGED untried

\* A request on the wire is over when its timeout is.
Tick ==
    /\ \A r \in Requests : stage[r] = "sent" => age[r] < RequestTimeout
    /\ health' = [e \in Endpoints |-> Later(health[e])]
    /\ age' = [r \in Requests |-> IF stage[r] \in {"idle", "backoff"} THEN age[r]
                                  ELSE UpTo(MaxAge, age[r] + 1)]
    /\ UNCHANGED <<stage, fallback, untried, targets, held, attempt, reply>>

-----------------------------------------------------------------------------
Init ==
    /\ health = [e \in Endpoints |-> Healthy]
    /\ stage = [r \in Requests |-> "idle"]
    /\ fallback = [r \in Requests |-> FALSE]
    /\ untried = [r \in Requests |-> {}]
    /\ targets = [r \in Requests |-> {}]
    /\ held = [r \in Requests |-> {}]
    /\ age = [r \in Requests |-> 0]
    /\ attempt = [r \in Requests |-> 0]
    /\ reply = [r \in Requests |-> "other"]

\* What a request under way does without the caller.
Step(r) ==
    \/ stage[r] = "backoff" /\ Begin(r)
    \/ ChooseClosed(r) \/ ChooseNone(r) \/ ChooseMany(r)
    \/ Passed(r) \/ Granted(r) \/ Selected(r) \/ FallBack(r) \/ Unavailable(r)
    \/ Succeeds(r) \/ Fails(r) \/ Rejects(r)

Next ==
    \/ Tick
    \/ \E r \in Requests : Begin(r) \/ Step(r) \/ Cancel(r)

Spec == Init /\ [][Next]_vars

(***************************************************************************)
(* Time passes, tasks are polled, and every request on the wire ends by    *)
(* its timeout.  Busy callers, besides, always come back with a request.   *)
(***************************************************************************)
FairSpec == Spec /\ WF_vars(Tick) /\ \A r \in Requests : WF_vars(Step(r))

BusySpec == FairSpec /\ \A r \in Requests : WF_vars(Begin(r))

-----------------------------------------------------------------------------
(***************************************************************************)
(* Properties.                                                             *)
(***************************************************************************)

ProbeHolders(e) == {r \in Requests : e \in held[r]}

\* Every probe slot in use is held by the permit of a request under way: no
\* order of outcomes, cancellations and passed-over candidates strands one
\* (provider.rs, ProbePermit: "a slot that is never given back stops the
\* endpoint being probed again"); and a closed circuit is short of
\* the threshold: no mix of failures, declined requests and stale successes leaves
\* one closed that should be open (health.rs, record_failure and record_success).
CircuitsStayTrue ==
    \A e \in Endpoints :
        /\ health[e].state = "halfopen" => health[e].probes <= Cardinality(ProbeHolders(e))
        /\ FailureThreshold > 0 /\ Closed(e) => health[e].failures < FailureThreshold

\* Every request under way comes to an end, retries included.
RequestsEnd == \A r \in Requests : stage[r] = "choosing" ~> stage[r] = "idle"

\* No endpoint becomes uncallable for good: again and again it would grant a
\* request.
AlwaysCallableAgain == \A e \in Endpoints : []<>Grants(health[e])

\* Once an endpoint of the shared pool stays closed, callers no longer see
\* "all RPC endpoints unavailable", whatever the dedicated pools go through
\* (config.rs: reads and writes fall back to the shared endpoints).
SharedKeepsServing ==
    \A e \in SharedPool, r \in Requests :
        <>[]Closed(e) => <>[](reply[r] # "unavailable")

=============================================================================
