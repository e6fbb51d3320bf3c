----------------------- MODULE EndpointRoutingProofs -----------------------
(***************************************************************************)
(* Theorems about EndpointRouting, for every set of requests and pools,    *)
(* every strategy and every configuration of the breakers.                 *)
(*                                                                         *)
(* That the slots of a half-open circuit are held is not inductive by      *)
(* itself: a request that is granted an endpoint must not have held one of *)
(* its slots already (it does not ask again for what it has collected),    *)
(* and one that gives up one endpoint must not hold the slots of others    *)
(* (only hedging has several targets).                                     *)
(***************************************************************************)
EXTENDS EndpointRouting, FiniteSetTheorems, TLAPS

Stages == {"idle", "choosing", "reserving", "sent", "backoff"}

TypeOK ==
    /\ health \in [Endpoints -> Health]
    /\ stage \in [Requests -> Stages]
    /\ fallback \in [Requests -> BOOLEAN]
    /\ untried \in [Requests -> SUBSET Endpoints]
    /\ targets \in [Requests -> SUBSET Endpoints]
    /\ held \in [Requests -> SUBSET Endpoints]
    /\ age \in [Requests -> Nat]
    /\ attempt \in [Requests -> Nat]

\* A permit is for a target; what is asked next is no target yet; and only a
\* hedged read has more than one.
PermitsAreForTargets ==
    \A r \in Requests :
        /\ held[r] \subseteq targets[r]
        /\ stage[r] \in {"idle", "choosing", "backoff"} => targets[r] = {}
        /\ stage[r] = "reserving" => untried[r] \cap targets[r] = {}
        /\ ~Hedges(r) => \A e, f \in targets[r] : e = f

IInv == TypeOK /\ PermitsAreForTargets /\ CircuitsStayTrue

-----------------------------------------------------------------------------
(* The breaker's operators.                                                *)

LEMMA BreakerTypes ==
    ASSUME NEW h \in Health, NEW a \in Nat
    PROVE  /\ Healthy \in Health /\ Reserve(h) \in Health /\ ReleaseProbe(h) \in Health
           /\ RecordAnswered(h) \in Health /\ RecordSuccess(h) \in Health /\ Later(h) \in Health
           /\ RecordFailure(h, UpTo(RecoveryTimeout, a)) \in Health
<1> USE BreakerAssumption DEF Health, Healthy
<1>1. Healthy \in Health /\ RecordSuccess(h) \in Health
  BY DEF RecordSuccess
<1>2. Reserve(h) \in Health
  <2> DEFINE slots == IF h.state = "open" THEN 1 ELSE h.probes + 1
  <2>1. slots \in Nat /\ 0 \in 0..RecoveryTimeout
    OBVIOUS
  <2>2. Reserve(h) = IF TakesSlot(h) THEN [h EXCEPT !.state = "halfopen", !.elapsed = 0, !.probes = slots]
                     ELSE h
    BY DEF Reserve
  <2> HIDE DEF slots
  <2> QED
    BY <2>1, <2>2
<1>3. ReleaseProbe(h) \in Health /\ RecordAnswered(h) \in Health
  BY DEF ReleaseProbe, RecordAnswered
<1>4. Later(h) \in Health
  BY DEF Later, UpTo
<1>5. RecordFailure(h, UpTo(RecoveryTimeout, a)) \in Health
  BY DEF RecordFailure, UpTo
<1> QED
  BY <1>1, <1>2, <1>3, <1>4, <1>5

\* Giving a slot back frees one, if one was taken, and changes nothing else.
LEMMA ReleaseFreesOne ==
    ASSUME NEW h \in Health
    PROVE  /\ ReleaseProbe(h).state = h.state
           /\ ReleaseProbe(h).failures = h.failures
           /\ h.state = "halfopen" => ReleaseProbe(h).probes = IF h.probes > 0 THEN h.probes - 1 ELSE 0
           /\ RecordAnswered(h).state = h.state
           /\ RecordAnswered(h).failures = 0
           /\ h.state = "halfopen" => RecordAnswered(h).probes = IF h.probes > 0 THEN h.probes - 1 ELSE 0
BY DEF Health, ReleaseProbe, RecordAnswered

\* A circuit that stays closed over a failure is short of the threshold.
LEMMA FailureOpens ==
    ASSUME NEW h \in Health, NEW a \in Nat
    PROVE  /\ RecordFailure(h, a).state # "halfopen"
           /\ RecordFailure(h, a).state = "closed" => RecordFailure(h, a).failures < FailureThreshold
BY BreakerAssumption DEF Health, RecordFailure, UpTo

\* The first slot of an open circuit, one more of a half-open one.
LEMMA ReserveTakesOne ==
    ASSUME NEW h \in Health
    PROVE  /\ h.state = "closed" => Reserve(h) = h
           /\ h.state = "open" => Reserve(h).state = "halfopen" /\ Reserve(h).probes = 1
           /\ h.state = "halfopen" => Reserve(h).state = "halfopen" /\ Reserve(h).probes = h.probes + 1
BY DEF Health, Reserve, TakesSlot

-----------------------------------------------------------------------------
(* Requests and the permits they hold.                                     *)

\* What one request does leaves the others' choices and permits alone.
OnlyFor(r) ==
    \A q \in Requests \ {r} : /\ stage'[q] = stage[q] /\ untried'[q] = untried[q]
                             /\ targets'[q] = targets[q] /\ held'[q] = held[q]

PermitsOf(r) ==
    /\ held[r] \subseteq targets[r]
    /\ stage[r] \in {"idle", "choosing", "backoff"} => targets[r] = {}
    /\ stage[r] = "reserving" => untried[r] \cap targets[r] = {}
    /\ ~Hedges(r) => \A e, f \in targets[r] : e = f

\* What one step of r makes of endpoint e and of r's permit for it.
Settles(r, e) ==
    \/ health'[e].state # "halfopen"
    \/ health'[e].probes = 0
    \/ health'[e].probes = 1 /\ e \in held'[r]
    \/ /\ health[e].state = "halfopen"
       /\ \/ health'[e].probes = health[e].probes /\ (e \in held[r] => e \in held'[r])
          \/ health'[e].probes + 1 = health[e].probes
          \/ health'[e].probes = health[e].probes + 1 /\ e \in held'[r] \ held[r]

\* A slot is given back when its holder goes, and taken with a new holder.
LEMMA SlotsStayHeld ==
    ASSUME TypeOK, CircuitsStayTrue, NEW r \in Requests, NEW e \in Endpoints, health'[e] \in Health,
           \A q \in Requests \ {r} : held'[q] = held[q], Settles(r, e)
    PROVE  health'[e].state = "halfopen" => health'[e].probes <= Cardinality(ProbeHolders(e)')
<1> DEFINE before == ProbeHolders(e)
           after == ProbeHolders(e)'
<1>1. /\ IsFiniteSet(before) /\ IsFiniteSet(after)
      /\ Cardinality(before) \in Nat /\ Cardinality(after) \in Nat
  <2>1. before \subseteq Requests /\ after \subseteq Requests
    BY DEF ProbeHolders
  <2> QED
    BY <2>1, RoutingAssumption, FS_Subset, FS_CardinalityType
<1>2. Cardinality(before) <= Cardinality(after) + 1
  <2>1. before \subseteq after \cup {r}
    BY DEF ProbeHolders
  <2>2. IsFiniteSet(after \cup {r}) /\ Cardinality(after \cup {r}) <= Cardinality(after) + 1
    <3> HIDE DEF after
    <3>1. /\ IsFiniteSet(after \cup {r})
          /\ \/ Cardinality(after \cup {r}) = Cardinality(after)
             \/ Cardinality(after \cup {r}) = Cardinality(after) + 1
      BY <1>1, FS_AddElement
    <3> QED
      BY <1>1, <3>1
  <2>3. Cardinality(before) <= Cardinality(after \cup {r})
    BY <2>1, <2>2, FS_Subset
  <2> QED
    BY <1>1, <2>2, <2>3, FS_CardinalityType
<1>3. (e \in held[r] => e \in held'[r]) => Cardinality(before) <= Cardinality(after)
  <2>1. (e \in held[r] => e \in held'[r]) => before \subseteq after
    BY DEF ProbeHolders
  <2> QED
    BY <1>1, <2>1, FS_Subset
<1>4. e \in held'[r] => Cardinality(after) >= 1
  <2>1. e \in held'[r] => r \in after
    BY DEF ProbeHolders
  <2>2. after # {} => Cardinality(after) # 0
    BY <1>1, FS_EmptySet
  <2> QED
    BY <1>1, <2>1, <2>2
<1>5. e \in held'[r] \ held[r] => Cardinality(after) = Cardinality(before) + 1
  <2>1. e \in held'[r] \ held[r] => r \notin before /\ after = before \cup {r}
    BY DEF ProbeHolders
  <2> QED
    BY <1>1, <2>1, FS_AddElement
<1>6. /\ health[e] \in Health
      /\ health[e].state = "halfopen" => health[e].probes <= Cardinality(before)
  BY DEF TypeOK, CircuitsStayTrue
<1>7. health[e].probes \in Nat /\ health'[e].probes \in Nat
  BY <1>6 DEF Health
<1> HIDE DEF before, after
<1>8. health'[e].state = "halfopen" => health'[e].probes <= Cardinality(after)
  BY <1>1, <1>2, <1>3, <1>4, <1>5, <1>6, <1>7 DEF Settles
<1> QED
  BY <1>8 DEF after

\* So far as the other requests are left alone, one request's permits are all
\* there is to show.
LEMMA PermitsOfOne ==
    ASSUME PermitsAreForTargets, NEW r \in Requests, OnlyFor(r), PermitsOf(r)'
    PROVE  PermitsAreForTargets'
BY DEF PermitsAreForTargets, OnlyFor, PermitsOf, Hedges

\* Permits dropped: each slot is freed and nothing else changes.
LEMMA DroppedFrees ==
    ASSUME NEW h \in [Endpoints -> Health], NEW S
    PROVE  /\ Dropped(h, S) \in [Endpoints -> Health]
           /\ \A e \in Endpoints : Dropped(h, S)[e] = IF e \in S THEN ReleaseProbe(h[e]) ELSE h[e]
<1>1. \A e \in Endpoints : h[e] \in Health /\ ReleaseProbe(h[e]) \in Health
  BY BreakerTypes
<1> QED
  BY <1>1 DEF Dropped

-----------------------------------------------------------------------------
(* The steps.                                                              *)

LEMMA StepsOfARequest ==
    ASSUME NEW r \in Requests, Begin(r) \/ Step(r) \/ Cancel(r)
    PROVE  \/ Begin(r) \/ ChooseClosed(r) \/ ChooseNone(r) \/ ChooseMany(r) \/ Passed(r)
           \/ Granted(r) \/ Selected(r) \/ FallBack(r) \/ Unavailable(r)
           \/ Succeeds(r) \/ Fails(r) \/ Rejects(r) \/ Cancel(r)
BY DEF Step

\* What every end of an attempt leaves behind.
LEMMA DoneTypes ==
    ASSUME TypeOK, NEW r \in Requests, NEW outcome, NEW next \in {"idle", "backoff"}, Done(r, next, outcome)
    PROVE  /\ stage' \in [Requests -> Stages] /\ fallback' \in [Requests -> BOOLEAN]
           /\ targets' \in [Requests -> SUBSET Endpoints] /\ held' \in [Requests -> SUBSET Endpoints]
           /\ age' \in [Requests -> Nat] /\ attempt' \in [Requests -> Nat]
           /\ stage'[r] = next /\ targets'[r] = {} /\ held'[r] = {}
           /\ \A q \in Requests \ {r} : stage'[q] = stage[q] /\ targets'[q] = targets[q] /\ held'[q] = held[q]
<1> USE DEF TypeOK, Done, Stages
<1>1. stage' \in [Requests -> Stages] /\ stage'[r] = next
  OBVIOUS
<1>2. attempt' \in [Requests -> Nat]
  OBVIOUS
<1>3. fallback' \in [Requests -> BOOLEAN]
  OBVIOUS
<1>4. targets' \in [Requests -> SUBSET Endpoints] /\ held' \in [Requests -> SUBSET Endpoints]
  OBVIOUS
<1>5. age' \in [Requests -> Nat]
  OBVIOUS
<1> QED
  BY <1>1, <1>2, <1>3, <1>4, <1>5

\* Failures, declined and rejected requests end the attempt by one of these.
LEMMA EndsAreDone ==
    ASSUME NEW r \in Requests, NEW outcome
    PROVE  /\ Finish(r, outcome) => Done(r, "idle", outcome)
           /\ Retry(r) => Done(r, "idle", "other") \/ Done(r, "backoff", "other")
BY DEF Finish, Retry

\* A hedged read goes on with its other endpoints, or is over.
LEMMA OneLessKeeps ==
    ASSUME TypeOK, PermitsAreForTargets, NEW r \in Requests, stage[r] = "sent", NEW e \in targets[r],
           OneLess(r, e)
    PROVE  /\ stage' \in [Requests -> Stages] /\ fallback' \in [Requests -> BOOLEAN]
           /\ targets' \in [Requests -> SUBSET Endpoints] /\ held' \in [Requests -> SUBSET Endpoints]
           /\ age' \in [Requests -> Nat] /\ attempt' \in [Requests -> Nat]
           /\ held'[r] = held[r] \ {e} /\ targets'[r] = targets[r] \ {e}
           /\ stage'[r] = "sent" \/ (stage'[r] = "idle" /\ targets'[r] = {})
           /\ \A q \in Requests \ {r} : stage'[q] = stage[q] /\ targets'[q] = targets[q] /\ held'[q] = held[q]
<1>1. CASE targets[r] = {e}
  <2>1. Done(r, "idle", "other")
    BY <1>1, EndsAreDone DEF OneLess
  <2>2. held[r] \ {e} = {} /\ targets[r] \ {e} = {}
    BY <1>1 DEF PermitsAreForTargets
  <2> QED
    BY <2>1, <2>2, DoneTypes
<1>2. CASE targets[r] # {e}
  BY <1>2 DEF OneLess, TypeOK
<1> QED
  BY <1>1, <1>2

\* What a granted endpoint does to the candidates: it joins them, takes the
\* place of the one there is, or is given back.
GrantKeeps(r, e) ==
    LET slot == IF TakesSlot(health[e]) THEN {e} ELSE {}
    IN /\ e \in untried[r] /\ untried'[r] \subseteq untried[r] \ {e}
       /\ \/ /\ Hedges(r) \/ targets[r] = {}
             /\ targets'[r] = targets[r] \cup {e} /\ held'[r] = held[r] \cup slot
             /\ \A f \in Endpoints : health'[f] = IF f = e THEN Reserve(health[e]) ELSE health[f]
          \/ /\ ~Hedges(r) /\ targets'[r] = {e} /\ held'[r] = slot
             /\ \A f \in Endpoints :
                    health'[f] = IF f = e THEN Reserve(health[e])
                                 ELSE IF f \in held[r] THEN ReleaseProbe(health[f]) ELSE health[f]
          \/ /\ ~Hedges(r) /\ targets'[r] = targets[r] /\ held'[r] = held[r]
             /\ \A f \in Endpoints :
                    health'[f] = IF f = e
                                 THEN IF TakesSlot(health[e]) THEN ReleaseProbe(Reserve(health[e]))
                                      ELSE health[e]
                                 ELSE health[f]

LEMMA GrantedKeeps ==
    ASSUME TypeOK, PermitsAreForTargets, NEW r \in Requests, Granted(r)
    PROVE  /\ \E e \in untried[r] : GrantKeeps(r, e)
           /\ health' \in [Endpoints -> Health] /\ untried' \in [Requests -> SUBSET Endpoints]
           /\ targets' \in [Requests -> SUBSET Endpoints] /\ held' \in [Requests -> SUBSET Endpoints]
           /\ \A q \in Requests \ {r} : /\ untried'[q] = untried[q]
                                      /\ targets'[q] = targets[q] /\ held'[q] = held[q]
<1> DEFINE slot(e) == IF TakesSlot(health[e]) THEN {e} ELSE {}
           reserved(e) == [health EXCEPT ![e] = Reserve(@)]
<1>1. PICK e \in untried[r] :
        /\ IF Strategy = "RoundRobin" THEN untried' = [untried EXCEPT ![r] = {}] ELSE Tried(r, e)
        /\ \/ /\ Hedges(r) \/ targets[r] = {}
              /\ targets' = [targets EXCEPT ![r] = @ \cup {e}]
              /\ held' = [held EXCEPT ![r] = @ \cup slot(e)]
              /\ health' = reserved(e)
           \/ /\ ~Hedges(r) /\ targets[r] # {}
              /\ targets' = [targets EXCEPT ![r] = {e}]
              /\ held' = [held EXCEPT ![r] = slot(e)]
              /\ health' = Dropped(reserved(e), held[r])
           \/ /\ ~Hedges(r) /\ targets[r] # {}
              /\ health' = Dropped(reserved(e), slot(e))
              /\ UNCHANGED <<targets, held>>
  BY DEF Granted
<1>2. /\ e \in Endpoints /\ health \in [Endpoints -> Health] /\ untried \in [Requests -> SUBSET Endpoints]
      /\ targets \in [Requests -> SUBSET Endpoints] /\ held \in [Requests -> SUBSET Endpoints]
  BY DEF TypeOK
<1>3. /\ reserved(e) \in [Endpoints -> Health]
      /\ \A f \in Endpoints : reserved(e)[f] = IF f = e THEN Reserve(health[e]) ELSE health[f]
  BY <1>2, BreakerTypes
<1>4. slot(e) \subseteq {e} /\ (slot(e) = {e} <=> TakesSlot(health[e]))
  OBVIOUS
<1>5. e \notin held[r]
  <2>1. stage[r] = "reserving"
    BY DEF Granted
  <2> QED
    BY <2>1 DEF PermitsAreForTargets
<1>6. /\ untried' \in [Requests -> SUBSET Endpoints] /\ untried'[r] \subseteq untried[r] \ {e}
      /\ \A q \in Requests \ {r} : untried'[q] = untried[q]
  BY <1>1, <1>2 DEF Tried
<1>7. CASE /\ Hedges(r) \/ targets[r] = {}
           /\ targets' = [targets EXCEPT ![r] = @ \cup {e}]
           /\ held' = [held EXCEPT ![r] = @ \cup slot(e)]
           /\ health' = reserved(e)
  <2>1. GrantKeeps(r, e)
    BY <1>2, <1>3, <1>6, <1>7 DEF GrantKeeps
  <2> QED
    BY <1>2, <1>3, <1>4, <1>6, <1>7, <2>1
<1>8. CASE /\ ~Hedges(r) /\ targets[r] # {}
           /\ targets' = [targets EXCEPT ![r] = {e}]
           /\ held' = [held EXCEPT ![r] = slot(e)]
           /\ health' = Dropped(reserved(e), held[r])
  <2> HIDE DEF reserved, slot
  <2>1. /\ health' \in [Endpoints -> Health]
        /\ \A f \in Endpoints : health'[f] = IF f = e THEN Reserve(health[e])
                                 ELSE IF f \in held[r] THEN ReleaseProbe(health[f]) ELSE health[f]
    BY <1>3, <1>5, <1>8, DroppedFrees
  <2>2. targets'[r] = {e} /\ held'[r] = slot(e)
    BY <1>2, <1>8
  <2>3. GrantKeeps(r, e)
    BY <1>6, <1>8, <2>1, <2>2 DEF GrantKeeps, slot
  <2> QED
    BY <1>2, <1>4, <1>6, <1>8, <2>1, <2>3
<1>9. CASE /\ ~Hedges(r) /\ targets[r] # {}
           /\ health' = Dropped(reserved(e), slot(e))
           /\ UNCHANGED <<targets, held>>
  <2>1. TakesSlot(health[e]) \/ Reserve(health[e]) = health[e]
    BY DEF Reserve
  <2> HIDE DEF reserved, slot
  <2>2. /\ health' \in [Endpoints -> Health]
        /\ \A f \in Endpoints :
               health'[f] = IF f \in slot(e) THEN ReleaseProbe(reserved(e)[f]) ELSE reserved(e)[f]
    BY <1>3, <1>9, DroppedFrees
  <2>3. \A f \in Endpoints :
             health'[f] = IF f = e
                          THEN IF TakesSlot(health[e]) THEN ReleaseProbe(Reserve(health[e])) ELSE health[e]
                          ELSE health[f]
    BY <1>3, <1>4, <2>1, <2>2
  <2>4. GrantKeeps(r, e)
    BY <1>6, <1>9, <2>3 DEF GrantKeeps
  <2> QED
    BY <1>2, <1>6, <1>9, <2>2, <2>4
<1> QED
  BY <1>1, <1>7, <1>8, <1>9

\* An outcome is recorded of a target, which is done with.
LEMMA RecordedTypes ==
    ASSUME TypeOK, NEW r \in Requests, NEW e \in targets[r],
           \/ health' = [health EXCEPT ![e] = RecordFailure(@, Age(r))]
           \/ health' = [health EXCEPT ![e] = RecordAnswered(@)]
    PROVE  health' \in [Endpoints -> Health]
<1>1. e \in Endpoints /\ health \in [Endpoints -> Health] /\ age[r] \in Nat
  BY DEF TypeOK
<1>2. RecordFailure(health[e], Age(r)) \in Health /\ RecordAnswered(health[e]) \in Health
  BY <1>1, BreakerTypes DEF Age
<1> QED
  BY <1>1, <1>2

LEMMA TypesStay ==
    ASSUME TypeOK, PermitsAreForTargets, [Next]_vars
    PROVE  TypeOK'
<1>1. CASE UNCHANGED vars
  BY <1>1 DEF TypeOK, vars
<1>2. CASE Tick
  <2>1. \A e \in Endpoints : Later(health[e]) \in Health
    BY BreakerTypes DEF TypeOK
  <2>2. \A n \in Nat : UpTo(MaxAge, n + 1) \in Nat
    BY RoutingAssumption, BreakerAssumption DEF UpTo, MaxAge
  <2> QED
    BY <1>2, <2>1, <2>2 DEF TypeOK, Tick
<1>3. ASSUME NEW r \in Requests, Begin(r) \/ Step(r) \/ Cancel(r)
      PROVE  TypeOK'
  <2> USE DEF TypeOK
  <2>a. Pool(r) \subseteq Endpoints
    BY DEF Pool, Dedicated, Endpoints
  <2>t. targets[r] \subseteq Endpoints /\ held[r] \subseteq Endpoints /\ untried[r] \subseteq Endpoints
    OBVIOUS
  <2>h. \A e \in Endpoints : health[e] \in Health /\ Reserve(health[e]) \in Health
    BY BreakerTypes
  <2>1. CASE Begin(r)
    <3>1. NextAttempt(r) \in Nat
      BY DEF NextAttempt
    <3>2. Hedges(r) \in BOOLEAN /\ ReadPoolUsable \in BOOLEAN
      BY DEF Hedges, ReadPoolUsable
    <3> QED
      BY <2>1, <3>1, <3>2 DEF Begin, Stages
  <2>2. CASE ChooseClosed(r)
    BY <2>2, <2>a DEF ChooseClosed, SendTo, Stages
  <2>3. CASE ChooseNone(r)
    BY <2>3, <2>a DEF ChooseNone, StartReserving, Stages
  <2>4. CASE ChooseMany(r)
    BY <2>4, <2>a DEF ChooseMany, SendTo, StartReserving, Stages
  <2>5. CASE Passed(r)
    BY <2>5 DEF Passed, Tried
  <2>6. CASE Granted(r)
    BY <2>6, GrantedKeeps DEF Granted
  <2>7. CASE Selected(r)
    <3>1. PICK S \in SUBSET targets[r] : /\ SendTo(r, S)
                                         /\ held' = [held EXCEPT ![r] = @ \cap S]
                                         /\ health' = Dropped(health, held[r] \ S)
      BY <2>7 DEF Selected
    <3> QED
      BY <2>7, <2>t, <3>1, DroppedFrees DEF Selected, SendTo, Stages
  <2>8. CASE FallBack(r)
    BY <2>8 DEF FallBack, Stages
  <2>9. CASE Unavailable(r)
    BY <2>9, EndsAreDone, DoneTypes DEF Unavailable
  <2>10. CASE Succeeds(r)
    <3> DEFINE closed(e) == [health EXCEPT ![e] = RecordSuccess(@)]
    <3>1. PICK e \in targets[r] : health' = Dropped(closed(e), held[r] \ {e})
      BY <2>10 DEF Succeeds
    <3>2. closed(e) \in [Endpoints -> Health]
      <4>1. e \in Endpoints /\ RecordSuccess(health[e]) \in Health
        BY <2>t, BreakerTypes
      <4> QED
        BY <4>1
    <3> HIDE DEF closed
    <3>3. health' \in [Endpoints -> Health]
      BY <3>1, <3>2, DroppedFrees
    <3> QED
      BY <2>10, <3>3, EndsAreDone, DoneTypes DEF Succeeds
  <2>11. CASE Fails(r)
    <3>1. PICK e \in targets[r] : /\ \/ health' = [health EXCEPT ![e] = RecordFailure(@, Age(r))]
                                     \/ health' = [health EXCEPT ![e] = RecordAnswered(@)]
                                  /\ OneLess(r, e) \/ Retry(r) \/ Finish(r, "other")
      BY <2>11 DEF Fails, RecordError
    <3>2. health' \in [Endpoints -> Health]
      BY <3>1, RecordedTypes
    <3>3. CASE OneLess(r, e)
      BY <2>11, <3>2, <3>3, OneLessKeeps DEF Fails
    <3>4. CASE Retry(r) \/ Finish(r, "other")
      BY <2>11, <3>2, <3>4, EndsAreDone, DoneTypes DEF Fails
    <3> QED
      BY <3>1, <3>3, <3>4
  <2>13. CASE Rejects(r)
    <3>1. health' \in [Endpoints -> Health]
      BY <2>13, DroppedFrees DEF Rejects
    <3> QED
      BY <2>13, <3>1, EndsAreDone, DoneTypes DEF Rejects
  <2>14. CASE Cancel(r)
    <3>1. health' \in [Endpoints -> Health]
      BY <2>14, DroppedFrees DEF Cancel
    <3> QED
      BY <2>14, <3>1, EndsAreDone, DoneTypes DEF Cancel
  <2> HIDE DEF TypeOK
  <2> QED
    BY <1>3, <2>1, <2>2, <2>3, <2>4, <2>5, <2>6, <2>7, <2>8, <2>9, <2>10, <2>11, <2>13, <2>14,
       StepsOfARequest
<1> QED
  BY <1>1, <1>2, <1>3 DEF Next

LEMMA PermitsStay ==
    ASSUME TypeOK, PermitsAreForTargets, [Next]_vars
    PROVE  PermitsAreForTargets'
<1>1. CASE UNCHANGED vars
  BY <1>1 DEF PermitsAreForTargets, Hedges, vars
<1>2. CASE Tick
  BY <1>2 DEF PermitsAreForTargets, Hedges, Tick
<1>3. ASSUME NEW r \in Requests, Begin(r) \/ Step(r) \/ Cancel(r)
      PROVE  PermitsAreForTargets'
  <2> USE DEF Stages
  <2>a. PermitsOf(r)
    BY DEF PermitsAreForTargets, PermitsOf
  <2>b. stage \in [Requests -> Stages]
    BY DEF TypeOK
  <2>c. /\ untried \in [Requests -> SUBSET Endpoints] /\ targets \in [Requests -> SUBSET Endpoints]
        /\ held \in [Requests -> SUBSET Endpoints]
    BY DEF TypeOK
  <2>d. \A next \in {"idle", "backoff"}, outcome \in {"unavailable", "other"} :
            Done(r, next, outcome) /\ UNCHANGED untried => PermitsAreForTargets'
    <3> SUFFICES ASSUME NEW next \in {"idle", "backoff"}, NEW outcome \in {"unavailable", "other"},
                        Done(r, next, outcome), UNCHANGED untried
                 PROVE  PermitsAreForTargets'
      OBVIOUS
    <3>1. /\ targets'[r] = {} /\ held'[r] = {}
          /\ \A q \in Requests \ {r} : stage'[q] = stage[q] /\ targets'[q] = targets[q] /\ held'[q] = held[q]
      BY DoneTypes
    <3>2. PermitsOf(r)' /\ OnlyFor(r)
      BY <3>1 DEF PermitsOf, OnlyFor
    <3> QED
      BY <3>2, PermitsOfOne
  <2>e. ASSUME NEW e \in targets[r], OneLess(r, e), stage[r] = "sent", UNCHANGED untried
        PROVE  PermitsAreForTargets'
    <3>1. /\ held'[r] = held[r] \ {e} /\ targets'[r] = targets[r] \ {e}
          /\ stage'[r] = "sent" \/ (stage'[r] = "idle" /\ targets'[r] = {})
          /\ \A q \in Requests \ {r} : stage'[q] = stage[q] /\ targets'[q] = targets[q] /\ held'[q] = held[q]
      BY <2>e, OneLessKeeps
    <3>2. PermitsOf(r)' /\ OnlyFor(r)
      BY <2>a, <2>e, <3>1 DEF PermitsOf, OnlyFor, Hedges
    <3> QED
      BY <3>2, PermitsOfOne
  <2>1. CASE Begin(r)
    BY <2>1, <2>a, <2>b, PermitsOfOne DEF Begin, PermitsOf, OnlyFor, Hedges
  <2>2. CASE ChooseClosed(r)
    BY <2>2, <2>a, <2>b, <2>c, PermitsOfOne DEF ChooseClosed, SendTo, PermitsOf, OnlyFor, Hedges
  <2>3. CASE ChooseNone(r)
    BY <2>3, <2>a, <2>b, <2>c, PermitsOfOne DEF ChooseNone, StartReserving, PermitsOf, OnlyFor, Hedges
  <2>4. CASE ChooseMany(r)
    BY <2>4, <2>a, <2>b, <2>c, PermitsOfOne
    DEF ChooseMany, SendTo, StartReserving, PermitsOf, OnlyFor, Hedges
  <2>5. CASE Passed(r)
    BY <2>5, <2>a, <2>b, <2>c, PermitsOfOne DEF Passed, Tried, PermitsOf, OnlyFor, Hedges
  <2>6. CASE Granted(r)
    <3>1. stage[r] = "reserving" /\ UNCHANGED stage
      BY <2>6 DEF Granted
    <3>2. PICK e \in untried[r] : GrantKeeps(r, e)
      BY <2>6, GrantedKeeps
    <3>3. PermitsOf(r)'
      BY <2>a, <3>1, <3>2 DEF GrantKeeps, PermitsOf, Hedges
    <3>4. OnlyFor(r)
      BY <2>6, <3>1, GrantedKeeps DEF OnlyFor
    <3> QED
      BY <3>3, <3>4, PermitsOfOne
  <2>7. CASE Selected(r)
    BY <2>7, <2>a, <2>b, <2>c, PermitsOfOne DEF Selected, SendTo, PermitsOf, OnlyFor, Hedges
  <2>8. CASE FallBack(r)
    BY <2>8, <2>a, <2>b, <2>c, PermitsOfOne DEF FallBack, PermitsOf, OnlyFor, Hedges
  <2>9. CASE Unavailable(r)
    BY <2>9, <2>d, EndsAreDone DEF Unavailable
  <2>10. CASE Succeeds(r)
    BY <2>10, <2>d, EndsAreDone DEF Succeeds
  <2>11. CASE Fails(r)
    BY <2>11, <2>d, <2>e, EndsAreDone DEF Fails
  <2>13. CASE Rejects(r)
    BY <2>13, <2>d, EndsAreDone DEF Rejects
  <2>14. CASE Cancel(r)
    BY <2>14, <2>d, EndsAreDone DEF Cancel
  <2> QED
    BY <1>3, <2>1, <2>2, <2>3, <2>4, <2>5, <2>6, <2>7, <2>8, <2>9, <2>10, <2>11, <2>13, <2>14,
       StepsOfARequest
<1> QED
  BY <1>1, <1>2, <1>3 DEF Next

\* The other half of CircuitsStayTrue, of one endpoint after a step.
ShortOfThreshold(e) ==
    FailureThreshold > 0 /\ health'[e].state = "closed" => health'[e].failures < FailureThreshold

LEMMA CircuitsBySettling ==
    ASSUME TypeOK, CircuitsStayTrue, TypeOK', NEW r \in Requests,
           \A q \in Requests \ {r} : held'[q] = held[q],
           \A e \in Endpoints : Settles(r, e) /\ ShortOfThreshold(e)
    PROVE  CircuitsStayTrue'
<1> SUFFICES ASSUME NEW e \in Endpoints
             PROVE  /\ health'[e].state = "halfopen" => health'[e].probes <= Cardinality(ProbeHolders(e)')
                    /\ FailureThreshold > 0 /\ Closed(e)' => health'[e].failures < FailureThreshold
  BY DEF CircuitsStayTrue
<1>1. health'[e] \in Health
  BY DEF TypeOK
<1> QED
  BY <1>1, SlotsStayHeld DEF ShortOfThreshold, Closed

\* An endpoint nothing happens to, one that gives a slot back and one that a
\* request declines.
LEMMA SettlingCases ==
    ASSUME TypeOK, CircuitsStayTrue, NEW r \in Requests, NEW e \in Endpoints,
           \/ health'[e] = health[e] /\ (e \in held[r] => e \in held'[r])
           \/ health'[e] = ReleaseProbe(health[e])
           \/ health'[e] = RecordAnswered(health[e])
    PROVE  Settles(r, e) /\ ShortOfThreshold(e)
<1>1. health[e] \in Health
  BY DEF TypeOK
<1>2. health[e].probes \in Nat /\ (FailureThreshold > 0 /\ health[e].state = "closed" => health[e].failures < FailureThreshold)
  BY <1>1 DEF Health, CircuitsStayTrue, Closed
<1>3. CASE health'[e] = health[e] /\ (e \in held[r] => e \in held'[r])
  BY <1>2, <1>3 DEF Settles, ShortOfThreshold
<1>4. CASE health'[e] = ReleaseProbe(health[e])
  BY <1>1, <1>2, <1>4, ReleaseFreesOne DEF Settles, ShortOfThreshold
<1>5. CASE health'[e] = RecordAnswered(health[e])
  BY <1>1, <1>2, <1>5, ReleaseFreesOne DEF Settles, ShortOfThreshold
<1> QED
  BY <1>3, <1>4, <1>5

LEMMA CircuitsStay ==
    ASSUME TypeOK, PermitsAreForTargets, CircuitsStayTrue, TypeOK', [Next]_vars
    PROVE  CircuitsStayTrue'
<1>0. ASSUME UNCHANGED <<health, held>>
      PROVE  CircuitsStayTrue'
  BY <1>0 DEF CircuitsStayTrue, ProbeHolders, Closed
<1>1. CASE UNCHANGED vars
  BY <1>0, <1>1 DEF vars
<1>2. CASE Tick
  <2>1. \A e \in Endpoints : /\ health'[e].state = health[e].state
                             /\ health'[e].probes = health[e].probes
                             /\ health'[e].failures = health[e].failures
    <3>1. \A e \in Endpoints : health[e] \in Health /\ health'[e] = Later(health[e])
      BY <1>2 DEF TypeOK, Tick
    <3> QED
      BY <3>1 DEF Later, Health
  <2> QED
    BY <1>2, <2>1 DEF Tick, CircuitsStayTrue, ProbeHolders, Closed
<1>3. ASSUME NEW r \in Requests, Begin(r) \/ Step(r) \/ Cancel(r)
      PROVE  CircuitsStayTrue'
  <2>a. health \in [Endpoints -> Health] /\ targets[r] \subseteq Endpoints /\ held[r] \subseteq targets[r]
    BY DEF TypeOK, PermitsAreForTargets
  <2>b. held \in [Requests -> SUBSET Endpoints] /\ age[r] \in Nat
    BY DEF TypeOK
  <2>1. CASE Begin(r) \/ ChooseClosed(r) \/ ChooseNone(r) \/ ChooseMany(r) \/ Passed(r) \/ FallBack(r)
    BY <1>0, <2>1 DEF Begin, ChooseClosed, ChooseNone, ChooseMany, Passed, FallBack
  <2>2. CASE Granted(r)
    <3>1. PICK e \in untried[r] : GrantKeeps(r, e)
      BY <2>2, GrantedKeeps
    <3>2. e \in Endpoints /\ e \notin held[r]
      BY <2>2 DEF Granted, PermitsAreForTargets, TypeOK
    <3> SUFFICES ASSUME NEW f \in Endpoints
                 PROVE  Settles(r, f) /\ ShortOfThreshold(f)
      BY <2>2, GrantedKeeps, CircuitsBySettling
    <3>3. CASE f # e
      BY <3>1, <3>3, SettlingCases DEF GrantKeeps
    <3>4. CASE f = e /\ ~TakesSlot(health[e])
      <4>1. health'[e] = health[e]
        BY <3>1, <3>2, <3>4, <2>a DEF GrantKeeps, Reserve
      <4> QED
        BY <3>2, <3>4, <4>1, SettlingCases
    <3>5. CASE f = e /\ TakesSlot(health[e])
      <4>1. /\ health[e] \in Health /\ Reserve(health[e]) \in Health /\ health[e].probes \in Nat
            /\ health[e].state \in {"open", "halfopen"}
        BY <2>a, <3>2, <3>5, BreakerTypes DEF Health, TakesSlot
      <4>2. /\ Reserve(health[e]).state = "halfopen"
            /\ health[e].state = "open" => Reserve(health[e]).probes = 1
            /\ health[e].state = "halfopen" => Reserve(health[e]).probes = health[e].probes + 1
        BY <4>1, ReserveTakesOne
      <4>3. CASE health'[e] = Reserve(health[e]) /\ e \in held'[r]
        BY <3>2, <3>5, <4>1, <4>2, <4>3 DEF Settles, ShortOfThreshold
      <4>4. CASE health'[e] = ReleaseProbe(Reserve(health[e])) /\ held'[r] = held[r]
        <5>1. /\ health'[e].state = "halfopen"
              /\ health[e].state = "open" => health'[e].probes = 0
              /\ health[e].state = "halfopen" => health'[e].probes = health[e].probes
          BY <4>1, <4>2, <4>4, ReleaseFreesOne
        <5> QED
          BY <3>5, <4>1, <4>4, <5>1 DEF Settles, ShortOfThreshold
      <4> QED
        BY <3>1, <3>2, <3>5, <4>3, <4>4 DEF GrantKeeps
    <3> QED
      BY <3>3, <3>4, <3>5
  <2>3. CASE Selected(r)
    <3>1. PICK S \in SUBSET targets[r] : /\ held' = [held EXCEPT ![r] = @ \cap S]
                                        /\ health' = Dropped(health, held[r] \ S)
      BY <2>3 DEF Selected
    <3>2. \A e \in Endpoints : health'[e] = IF e \in held[r] \ S THEN ReleaseProbe(health[e]) ELSE health[e]
      BY <2>a, <3>1, DroppedFrees
    <3>3. \A e \in Endpoints : Settles(r, e) /\ ShortOfThreshold(e)
      BY <2>b, <3>1, <3>2, SettlingCases
    <3> QED
      BY <2>b, <3>1, <3>3, CircuitsBySettling
  <2>4. CASE Unavailable(r)
    <3>1. held'[r] = {} /\ held[r] = {} /\ UNCHANGED health
      BY <2>4, <2>a, EndsAreDone, DoneTypes DEF Unavailable
    <3>2. \A e \in Endpoints : Settles(r, e) /\ ShortOfThreshold(e)
      BY <3>1, SettlingCases
    <3> QED
      BY <2>4, <3>2, EndsAreDone, DoneTypes, CircuitsBySettling DEF Unavailable
  <2>5. CASE Succeeds(r)
    <3> DEFINE closed(e) == [health EXCEPT ![e] = RecordSuccess(@)]
    <3>1. PICK e \in targets[r] : health' = Dropped(closed(e), held[r] \ {e})
      BY <2>5 DEF Succeeds
    <3>2. /\ closed(e) \in [Endpoints -> Health]
          /\ \A f \in Endpoints : closed(e)[f] = IF f = e THEN Healthy ELSE health[f]
      <4>1. e \in Endpoints /\ RecordSuccess(health[e]) \in Health /\ RecordSuccess(health[e]) = Healthy
        BY <2>a, BreakerTypes DEF RecordSuccess
      <4> QED
        BY <2>a, <4>1
    <3> HIDE DEF closed
    <3>3. \A f \in Endpoints : health'[f] = IF f = e THEN Healthy
                                            ELSE IF f \in held[r] THEN ReleaseProbe(health[f]) ELSE health[f]
      BY <3>1, <3>2, DroppedFrees
    <3>4. \A f \in Endpoints : Settles(r, f) /\ ShortOfThreshold(f)
      <4> SUFFICES ASSUME NEW f \in Endpoints
                   PROVE  Settles(r, f) /\ ShortOfThreshold(f)
        OBVIOUS
      <4>1. CASE f = e
        BY <3>3, <4>1, BreakerAssumption DEF Settles, ShortOfThreshold, Healthy
      <4>2. CASE f # e
        BY <3>3, <4>2, SettlingCases
      <4> QED
        BY <4>1, <4>2
    <3> QED
      BY <2>5, <3>4, EndsAreDone, DoneTypes, CircuitsBySettling DEF Succeeds
  <2>6. CASE Rejects(r) \/ Cancel(r)
    <3>1. \A e \in Endpoints : health'[e] = IF e \in held[r] THEN ReleaseProbe(health[e]) ELSE health[e]
      BY <2>6, <2>a, DroppedFrees DEF Rejects, Cancel
    <3>2. \A e \in Endpoints : Settles(r, e) /\ ShortOfThreshold(e)
      BY <3>1, SettlingCases
    <3> QED
      BY <2>6, <3>2, EndsAreDone, DoneTypes, CircuitsBySettling DEF Rejects, Cancel
  <2>7. CASE Fails(r)
    <3>1. PICK e \in targets[r] :
            /\ \/ health' = [health EXCEPT ![e] = RecordFailure(@, Age(r))]
               \/ health' = [health EXCEPT ![e] = RecordAnswered(@)]
            /\ \/ OneLess(r, e)
               \/ ~Hedges(r) /\ (Retry(r) \/ Finish(r, "other"))
      BY <2>7 DEF Fails, RecordError
    <3>2. held'[r] = held[r] \ {e} /\ \A q \in Requests \ {r} : held'[q] = held[q]
      <4>1. CASE OneLess(r, e)
        BY <2>7, <4>1, OneLessKeeps DEF Fails
      <4>2. CASE ~Hedges(r) /\ (Retry(r) \/ Finish(r, "other"))
        <5>1. held[r] \ {e} = {}
          BY <2>a, <4>2 DEF PermitsAreForTargets
        <5> QED
          BY <4>2, <5>1, EndsAreDone, DoneTypes
      <4> QED
        BY <3>1, <4>1, <4>2
    <3>3. \A f \in Endpoints : Settles(r, f) /\ ShortOfThreshold(f)
      <4> SUFFICES ASSUME NEW f \in Endpoints
                   PROVE  Settles(r, f) /\ ShortOfThreshold(f)
        OBVIOUS
      <4>1. CASE f # e
        BY <2>a, <3>1, <3>2, <4>1, SettlingCases
      <4>2. CASE f = e /\ health' = [health EXCEPT ![e] = RecordAnswered(@)]
        BY <2>a, <4>2, SettlingCases
      <4>3. CASE f = e /\ health' = [health EXCEPT ![e] = RecordFailure(@, Age(r))]
        <5>1. Age(r) \in Nat /\ health[e] \in Health
          BY <2>a, <2>b, BreakerAssumption DEF Age, UpTo
        <5> QED
          BY <2>a, <4>3, <5>1, FailureOpens DEF Settles, ShortOfThreshold
      <4> QED
        BY <3>1, <4>1, <4>2, <4>3
    <3> QED
      BY <3>2, <3>3, CircuitsBySettling
  <2> QED
    BY <1>3, <2>1, <2>2, <2>3, <2>4, <2>5, <2>6, <2>7, StepsOfARequest
<1> QED
  BY <1>1, <1>2, <1>3 DEF Next

-----------------------------------------------------------------------------
LEMMA InitInv == Init => IInv
<1> SUFFICES ASSUME Init
             PROVE  IInv
  OBVIOUS
<1>1. TypeOK
  <2>1. Healthy \in Health
    BY BreakerAssumption DEF Healthy, Health
  <2> QED
    BY <2>1 DEF Init, TypeOK, Stages
<1>2. PermitsAreForTargets
  BY DEF Init, PermitsAreForTargets
<1>3. CircuitsStayTrue
  BY BreakerAssumption DEF Init, CircuitsStayTrue, Healthy, Closed
<1> QED
  BY <1>1, <1>2, <1>3 DEF IInv

LEMMA NextInv == IInv /\ [Next]_vars => IInv'
BY TypesStay, PermitsStay, CircuitsStay DEF IInv

\* Every half-open slot in use is held by a request's permit, and a closed
\* circuit is short of the threshold, whatever the requests and pools, the
\* strategy and the breakers' configuration (health.rs, record_failure and
\* release_probe; provider.rs, ProbePermit).
THEOREM CircuitsAlwaysTrue == Spec => []CircuitsStayTrue
<1>1. IInv => CircuitsStayTrue
  BY DEF IInv
<1> QED
  BY <1>1, InitInv, NextInv, PTL DEF Spec

\* Health records, choices and permits stay of their types, and a permit is
\* always for an endpoint that was chosen: none is dropped for another's.
THEOREM PermitsAlwaysForTargets == Spec => [](TypeOK /\ PermitsAreForTargets)
<1>1. IInv => TypeOK /\ PermitsAreForTargets
  BY DEF IInv
<1> QED
  BY <1>1, InitInv, NextInv, PTL DEF Spec

=============================================================================
