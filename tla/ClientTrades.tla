---------------------------- MODULE ClientTrades ----------------------------
(***************************************************************************)
(* The trades of client/trades.rs over a chain others trade on too.  The   *)
(* send path is one step here (SendPath and GasPath are its own modules):  *)
(* simulated at some replica, submitted, mined in the wallet's order, and  *)
(* its receipt delivered or waited for too long.                           *)
(***************************************************************************)
EXTENDS ClientReads

VARIABLES pool,   \* the wallet's transactions not mined, oldest first: [job, tx]
          mined   \* by job: what its transaction met and left

trading == <<pool, mined>>

Submitted(i) == i \in DOMAIN mined \/ \E k \in DOMAIN pool : pool[k].job = i

BeginTrade(op, params) ==
    /\ Len(jobs) < session.calls /\ (session.overlap \/ \A i \in DOMAIN jobs : jobs[i].done)
    /\ jobs' = Append(jobs, IF Invalid(op, params)
                            THEN [NewJob(op, params, 0) EXCEPT !.done = TRUE, !.refused = {R("invalid")}]
                            ELSE Resume(NewJob(op, params, 0), clock))
    /\ UNCHANGED <<node, session, cache, immutables, proofs, proves, faults, trading>>

Join(i, request) == pool' = Append(pool, [job |-> i, tx |-> request.tx])

\* Every send is simulated first, wherever the replica is.
Submit(i, request) ==
    /\ ~Submitted(i)
    /\ \E behind \in 0..Behind :
        IF Reverts(request.tx, Holder, WorldAt(chain[Seen(behind)]))
        THEN Take(i, request, Failure("SimulationReverted")) /\ UNCHANGED pool
        ELSE Join(i, request) /\ UNCHANGED jobs
    /\ UNCHANGED <<node, session, cache, immutables, proofs, proves, faults, mined>>

\* A send fails where no simulation reverts: before the broadcast, or at it,
\* when the node may have the transaction all the same.
SendFails(i, request) ==
    /\ ~Submitted(i) /\ faults < MaxFaults
    /\ faults' = faults + 1
    /\ \/ \E error \in UnsentErrors \ {"SimulationReverted"} : Take(i, request, Failure(error)) /\ UNCHANGED pool
       \/ Take(i, request, Failure("BroadcastFailed")) /\ (UNCHANGED pool \/ Join(i, request))
    /\ UNCHANGED <<node, session, cache, immutables, proofs, proves, mined>>

MineOurs ==
    /\ pool # <<>> /\ Height < session.head
    /\ LET tx == Head(pool).tx
           failed == Reverts(tx, Holder, HeadWorld)
           result == IF failed THEN [world |-> HeadWorld, logs |-> <<>>] ELSE Execute(tx, Holder, HeadWorld)
       IN /\ MineBlock(result.world)
          /\ mined' = Put(mined, Head(pool).job, [before |-> HeadWorld, after |-> result.world,
                                                  logs |-> result.logs, reverted |-> failed])
    /\ pool' = Tail(pool)
    /\ UNCHANGED client

\* Somebody else's block.
MineTheirs(tx, from) ==
    /\ ~Reverts(tx, from, HeadWorld)
    /\ MineBlock(Execute(tx, from, HeadWorld).world)
    /\ UNCHANGED <<client, trading>>

\* A revert that used nearly all of its gas is told as one that ran out of it.
Receipt(i, request) ==
    /\ i \in DOMAIN mined
    /\ IF mined[i].reverted THEN \E error \in {"Reverted", "OutOfGas"} : Take(i, request, Failure(error))
       ELSE Take(i, request, Value(mined[i]))
    /\ UNCHANGED <<node, session, cache, immutables, proofs, proves, faults, trading>>

\* The wait for a receipt ends; the transaction may still be mined.
TimeOut(i, request) ==
    /\ Submitted(i) /\ faults < MaxFaults
    /\ faults' = faults + 1
    /\ Take(i, request, Failure("ReceiptTimeout"))
    /\ UNCHANGED <<node, session, cache, immutables, proofs, proves, trading>>

\* What a call that was refused returns.
ErrorOf(job) ==
    LET request == CHOOSE r \in job.refused : TRUE
        answered == request \in DOMAIN job.answers
    IN
    CASE ~answered -> "Validation"
      [] answered /\ Failed(job.answers[request]) -> job.answers[request].failed
      [] OTHER -> IF job.op = "close_taker" /\ request.call = "send" THEN "TakerNotClosed" ELSE "Contract"

TradesInit == pool = <<>> /\ mined = << >>

TradesNext(calls, theirs) ==
    \/ \E call \in calls : call.op \in session.ops /\ BeginTrade(call.op, call.params)
    \/ \E i \in DOMAIN jobs : \E r \in {q \in jobs[i].asked : q.call = "send"} :
            Submit(i, r) \/ SendFails(i, r) \/ Receipt(i, r) \/ TimeOut(i, r)
    \/ MineOurs
    \/ Busy /\ \E t \in theirs : MineTheirs(t.tx, t.from)
=============================================================================
