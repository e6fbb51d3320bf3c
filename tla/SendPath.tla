------------------------------ MODULE SendPath ------------------------------
(***************************************************************************)
(* TxBuilder::send (client/transactions.rs) run by concurrent callers over *)
(* one client's pipeline, with the chain the transactions go to.           *)
(*                                                                         *)
(* Each element of Sends is one call of send and the hash of the           *)
(* transaction it would broadcast.  Between two awaits the code takes the  *)
(* pipeline's mutex once, so each such stretch is one action; at an await  *)
(* any other caller may run.                                               *)
(*                                                                         *)
(*   idle -> [fetching -> adopting ->] simulating -> signing               *)
(*        -> accepted -> waiting -> returned                               *)
(*        -> refused  -> returned                                          *)
(*                                                                         *)
(* The chain is external: it has mined every nonce below count, and it     *)
(* keeps the transactions it accepted and has not mined in mempool.        *)
(***************************************************************************)
EXTENDS TxPipeline

CONSTANTS
    Sends,          \* the calls of send
    MaxConcurrent,  \* how many of them the callers run at once
    MaxRestarts,    \* how often the process restarts
    Evictions,      \* may the node drop a transaction from its mempool?
    ManualSettles,  \* do callers use PerpClient::resolve_tx and fail_tx?
    Drops           \* may a caller drop the future of a send?

ASSUME EnvironmentAssumption ==
    /\ MaxConcurrent \in Nat /\ MaxRestarts \in Nat
    /\ Evictions \in BOOLEAN /\ ManualSettles \in BOOLEAN /\ Drops \in BOOLEAN

VARIABLES
    pc,        \* where each send is
    nonceOf,   \* PreparedTx::nonce, once a send has prepared
    fetched,   \* the count a resyncing send read from the node
    count,     \* external: the account's mined transaction count
    mempool,   \* external: accepted, not mined
    mined,     \* external
    lost,      \* ghost: those that the node evicted, or whose future was
               \* dropped with a nonce that nothing tracked
    restarts

sendVars == <<pc, nonceOf, fetched>>
chainVars == <<count, mempool, mined, lost>>
vars == <<next, pending, inFlight, desynced, preparing,
          pc, nonceOf, fetched, count, mempool, mined, lost, restarts>>

Stages == {"idle", "fetching", "adopting", "simulating", "signing",
           "accepted", "refused", "waiting", "returned", "dropped"}

\* Holding a nonce that inFlight does not show.
Preparing == {s \in Sends : pc[s] \in {"signing", "accepted", "refused"}}

\* Holding a nonce at all.
Holders == Preparing \cup inFlight

Running == {s \in Sends : pc[s] \notin {"idle", "returned", "dropped"}}

Goto(s, from, to) ==
    /\ pc[s] = from
    /\ pc' = [pc EXCEPT ![s] = to]

-----------------------------------------------------------------------------
(***************************************************************************)
(* The node.                                                               *)
(***************************************************************************)
Taken(n) == \E t \in mempool : nonceOf[t] = n

\* eth_getTransactionCount with the pending tag: the first nonce that neither
\* a mined transaction nor an unbroken run of the mempool has used.
IsPendingCount(c) ==
    /\ c >= count
    /\ \A n \in count..(c - 1) : Taken(n)
    /\ ~Taken(c)

\* A node refuses a consumed nonce, and one a pooled transaction holds.
Acceptable(s) == nonceOf[s] >= count /\ ~Taken(nonceOf[s])

Mine(s) ==
    /\ s \in mempool
    /\ nonceOf[s] = count
    /\ count' = count + 1
    /\ mempool' = mempool \ {s}
    /\ mined' = mined \cup {s}
    /\ UNCHANGED <<pipelineVars, sendVars, lost, restarts>>

Evict(s) ==
    /\ Evictions
    /\ s \in mempool
    /\ mempool' = mempool \ {s}
    /\ lost' = lost \cup {s}
    /\ UNCHANGED <<pipelineVars, sendVars, count, mined, restarts>>

-----------------------------------------------------------------------------
(***************************************************************************)
(* The steps of one send.                                                  *)
(***************************************************************************)

\* The gate: NonceDesynced while something holds a nonce, a resync when
\* nothing does, straight on when the sequence is not in doubt.
Enter(s) ==
    /\ Cardinality(Running) < MaxConcurrent
    /\ \/ ~desynced /\ Goto(s, "idle", "simulating")
       \/ desynced /\ CanResync /\ Goto(s, "idle", "fetching")
       \/ desynced /\ ~CanResync /\ Goto(s, "idle", "returned")
    /\ UNCHANGED <<pipelineVars, nonceOf, fetched, chainVars, restarts>>

ReadCount(s) ==
    /\ Goto(s, "fetching", "adopting")
    /\ \E c \in count..(count + Cardinality(mempool)) :
        /\ IsPendingCount(c)
        /\ fetched' = [fetched EXCEPT ![s] = c]
    /\ UNCHANGED <<pipelineVars, nonceOf, chainVars, restarts>>

ReadCountFails(s) ==
    /\ Goto(s, "fetching", "returned")
    /\ UNCHANGED <<pipelineVars, nonceOf, fetched, chainVars, restarts>>

\* The re-check under the lock.  When it fails the send goes on regardless.
Adopt(s) ==
    /\ Goto(s, "adopting", "simulating")
    /\ IF desynced /\ CanResync
       THEN ResyncNonce(fetched[s])
       ELSE UNCHANGED pipelineVars
    /\ UNCHANGED <<nonceOf, fetched, chainVars, restarts>>

\* An error before a nonce is taken: the simulation's, an explicit gas limit
\* of 0, or a base fee that is stale or was never set (GasPath models these).
Unprepared(s) ==
    /\ Goto(s, "simulating", "returned")
    /\ UNCHANGED <<pipelineVars, nonceOf, fetched, chainVars, restarts>>

TooManyInFlight(s) ==
    /\ AtInFlightLimit
    /\ Unprepared(s)

Prepare(s) ==
    /\ Goto(s, "simulating", "signing")
    /\ PrepareAcquires
    /\ nonceOf' = [nonceOf EXCEPT ![s] = next]
    /\ UNCHANGED <<fetched, chainVars, restarts>>

SigningFails(s) ==
    /\ Goto(s, "signing", "returned")
    /\ AbandonPrepared(nonceOf[s])
    /\ UNCHANGED <<nonceOf, fetched, chainVars, restarts>>

BroadcastAccepted(s) ==
    /\ Goto(s, "signing", "accepted")
    /\ Acceptable(s)
    /\ mempool' = mempool \cup {s}
    /\ UNCHANGED <<pipelineVars, nonceOf, fetched, count, mined, lost, restarts>>

\* An error reached the sender.  The transaction never left, was refused, or
\* was accepted and only the answer was lost.
BroadcastErrs(s) ==
    /\ Goto(s, "signing", "refused")
    /\ \/ UNCHANGED mempool
       \/ Acceptable(s) /\ mempool' = mempool \cup {s}
    /\ UNCHANGED <<pipelineVars, nonceOf, fetched, count, mined, lost, restarts>>

BroadcastFailed(s) ==
    /\ Goto(s, "refused", "returned")
    /\ MarkDesyncedPrepared
    /\ UNCHANGED <<nonceOf, fetched, chainVars, restarts>>

Submitted(s) ==
    /\ Goto(s, "accepted", "waiting")
    /\ RecordSubmission(s, nonceOf[s])
    /\ UNCHANGED <<nonceOf, fetched, chainVars, restarts>>

\* Succeeded, reverted and out of gas alike: the nonce is consumed.
Receipt(s) ==
    /\ Goto(s, "waiting", "returned")
    /\ s \in mined
    /\ Resolve(s, nonceOf[s])
    /\ UNCHANGED <<desynced, nonceOf, fetched, chainVars, restarts>>

\* The deadline passed, whether the node says "not yet" or fails to answer.
ReceiptTimeout(s) ==
    /\ Goto(s, "waiting", "returned")
    /\ Resolve(s, nonceOf[s])
    /\ desynced' = TRUE
    /\ UNCHANGED <<nonceOf, fetched, chainVars, restarts>>

-----------------------------------------------------------------------------
(***************************************************************************)
(* What the callers may do to a send that is running.                      *)
(***************************************************************************)
ResolveTx(s) ==
    /\ ManualSettles
    /\ s \in inFlight
    /\ Resolve(s, nonceOf[s])
    /\ UNCHANGED <<desynced, sendVars, chainVars, restarts>>

FailTx(s) ==
    /\ ManualSettles
    /\ s \in inFlight
    /\ Fail(s, nonceOf[s])
    /\ UNCHANGED <<sendVars, chainVars, restarts>>

\* A dropped future runs no code of the pipeline.
Drop(s) ==
    /\ Drops
    /\ s \in Running
    /\ pc' = [pc EXCEPT ![s] = "dropped"]
    /\ lost' = lost \cup ({s} \cap Preparing)
    /\ UNCHANGED <<pipelineVars, nonceOf, fetched, count, mempool, mined, restarts>>

\* The process ends and a new one calls sync_nonce before it sends: the count
\* there is the mined one, without the pending tag.
Restart ==
    /\ restarts < MaxRestarts
    /\ restarts' = restarts + 1
    /\ pc' = [s \in Sends |-> IF s \in Running THEN "returned" ELSE pc[s]]
    /\ ReplacePipeline(count)
    /\ UNCHANGED <<nonceOf, fetched, chainVars>>

-----------------------------------------------------------------------------
Init ==
    /\ PipelineInit(0)
    /\ pc = [s \in Sends |-> "idle"]
    /\ nonceOf = [s \in Sends |-> 0]
    /\ fetched = [s \in Sends |-> 0]
    /\ count = 0
    /\ mempool = {}
    /\ mined = {} /\ lost = {}
    /\ restarts = 0

\* A send under way always has one of these enabled.
Progress(s) ==
    \/ ReadCount(s) \/ ReadCountFails(s) \/ Adopt(s)
    \/ Unprepared(s) \/ TooManyInFlight(s) \/ Prepare(s)
    \/ SigningFails(s) \/ BroadcastAccepted(s) \/ BroadcastErrs(s)
    \/ BroadcastFailed(s) \/ Submitted(s)
    \/ Receipt(s) \/ ReceiptTimeout(s)

Next ==
    \/ Restart
    \/ \E s \in Sends :
        \/ Enter(s) \/ Progress(s)
        \/ ResolveTx(s) \/ FailTx(s) \/ Drop(s)
        \/ Mine(s) \/ Evict(s)

Spec == Init /\ [][Next]_vars

(***************************************************************************)
(* The runtime polls every task that can go on, and every request the code *)
(* awaits has a timeout, so a started send keeps moving.  Nothing is       *)
(* assumed of the node, or of callers that have not called send yet.       *)
(***************************************************************************)
FairSpec == Spec /\ \A s \in Sends : WF_vars(Progress(s))

-----------------------------------------------------------------------------
(***************************************************************************)
(* Properties.                                                             *)
(***************************************************************************)

\* The types of the pipeline's, the senders' and the chain's state.
TypeOK ==
    /\ next \in Nat
    /\ pending \subseteq [nonce : Nat, hash : Sends]
    /\ inFlight \subseteq Sends
    /\ desynced \in BOOLEAN
    /\ preparing \in Int
    /\ pc \in [Sends -> Stages]
    /\ nonceOf \in [Sends -> Nat]
    /\ fetched \in [Sends -> Nat]
    /\ count \in Nat
    /\ mempool \subseteq Sends
    /\ mined \subseteq Sends /\ lost \subseteq Sends
    /\ restarts \in Nat

\* Two sends that hold a nonce never hold the same one, and the counter is
\* past every held nonce: acquire cannot hand out a nonce still spoken for,
\* whatever releases and resyncs ran in between (nonce.rs release, pipeline.rs
\* can_resync).
NonceOwnership ==
    /\ \A s, t \in Holders : nonceOf[s] = nonceOf[t] => s = t
    /\ \A s \in Holders : nonceOf[s] < next

\* When can_resync says a resync is safe, no send holds a nonce: the count of
\* prepared transactions and the in-flight map miss nobody.
ResyncOnlyWhenUnheld == CanResync => Holders = {}

\* The manager's map by nonce and the pipeline's map by hash, kept by separate
\* calls, describe the same transactions.
MapsAgree == pending = {[nonce |-> nonceOf[s], hash |-> s] : s \in inFlight}

\* A nonce below the counter that no transaction will use parks every later
\* one; the pipeline may only have such a hole while it is flagged desynced
\* (pipeline.rs, "Desync and recovery"), unless nobody can tell it: the node
\* evicted the transaction, or the future that had prepared it was dropped.
NoSilentHole ==
    ~desynced =>
        \A n \in count..(next - 1) :
            \E s \in Holders \cup mempool \cup lost : nonceOf[s] = n

\* A send never signs a nonce that the chain has consumed or that another
\* transaction of the account has in the mempool (transactions.rs, the resync
\* "steps past it instead of colliding with it").
ConsumedNotRetried ==
    \A s \in Sends : pc[s] = "signing" =>
        /\ nonceOf[s] >= count
        /\ \A t \in mempool : nonceOf[t] # nonceOf[s]

\* A desynced pipeline does not stay blocked: it comes to where the next send
\* may resync, or has been resynced, unless a future was dropped with what it had
\* prepared or had in flight; whatever the node and the other callers do, sends that are polled to
\* their end let go of every nonce.
DesyncDrainsUnlessDropped ==
    desynced ~> (CanResync \/ ~desynced \/ \E s \in Sends : pc[s] = "dropped")

-----------------------------------------------------------------------------
(***************************************************************************)
(* The pipeline's counter, in-flight map and preparing count together      *)
(* implement the ownership of NonceSequence.                               *)
(***************************************************************************)
OwnedNonces == {<<s, nonceOf[s]>> : s \in Holders}

Sequence == INSTANCE NonceSequence
                WITH Owners <- Sends, counter <- next, owned <- OwnedNonces

\* Every step of every send, of the node and of the callers hands out, retires
\* or gives back a nonce as the abstract sequence allows, and the counter is
\* set from the chain only while nobody owns a nonce (hft/DESIGN.md, "The next
\* nonce is owned, not discovered").
ImplementsNonceSequence == Sequence!Spec

=============================================================================
