----------------------------- MODULE TxPipeline -----------------------------
(***************************************************************************)
(* The transaction pipeline of hft/pipeline.rs: the nonce manager, the map *)
(* of in-flight transactions by hash, the desync flag, and the count of    *)
(* transactions that hold a nonce but are not in the map yet.  Every       *)
(* operator is one method, and one step: the client calls them with the    *)
(* pipeline's mutex held.                                                  *)
(*                                                                         *)
(* A transaction is named by its hash, so inFlight is a set of hashes; the *)
(* nonce that the map keeps beside a hash is the caller's nonceOf.         *)
(***************************************************************************)
EXTENDS NonceManager, FiniteSets

CONSTANT MaxInFlight  \* PipelineConfig::max_in_flight

ASSUME MaxInFlightAssumption == MaxInFlight \in Nat

VARIABLES
    inFlight,   \* the hashes being tracked
    desynced,   \* a nonce's fate became unknowable
    preparing   \* how many hold a nonce without being in inFlight

(***************************************************************************)
(* preparing is a usize that wraps; the code only ever compares it with 0, *)
(* so an integer below 0 stands for a wrapped value.                       *)
(***************************************************************************)
pipelineVars == <<next, pending, inFlight, desynced, preparing>>

PipelineInit(startingNonce) ==
    /\ ManagerInit(startingNonce)
    /\ inFlight = {}
    /\ desynced = FALSE
    /\ preparing = 0

\* TxPipeline::new stored over the old pipeline (PerpClient::sync_nonce).
ReplacePipeline(startingNonce) ==
    /\ ResyncManager(startingNonce)
    /\ inFlight' = {}
    /\ desynced' = FALSE
    /\ preparing' = 0

AtInFlightLimit == Cardinality(inFlight) >= MaxInFlight

\* Faulty variant: the preparing count is left out.
PrepareAcquires_Uncounted ==
    /\ ~AtInFlightLimit
    /\ Acquire
    /\ UNCHANGED <<inFlight, desynced, preparing>>

\* prepare, past its two refusals: it reads neither desynced nor preparing.
PrepareAcquires ==
    /\ ~AtInFlightLimit
    /\ Acquire
    /\ preparing' = preparing + 1
    /\ UNCHANGED <<inFlight, desynced>>

RecordSubmission(hash, n) ==
    /\ preparing' = preparing - 1
    /\ Track(n, hash)
    /\ inFlight' = inFlight \cup {hash}
    /\ UNCHANGED desynced

\* Faulty variant: the manager is not told.
Resolve_Untold(hash, n) ==
    /\ inFlight' = inFlight \ {hash}
    /\ UNCHANGED <<managerVars, preparing>>

\* resolve and fail settle a tracked transaction once; for any other hash
\* they change nothing.
Resolve(hash, n) ==
    /\ inFlight' = inFlight \ {hash}
    /\ IF hash \in inFlight THEN Confirm(n) ELSE UNCHANGED managerVars
    /\ UNCHANGED preparing

Fail(hash, n) ==
    /\ inFlight' = inFlight \ {hash}
    /\ IF hash \in inFlight THEN Release(n) ELSE UNCHANGED managerVars
    /\ UNCHANGED <<desynced, preparing>>

\* Faulty variant: a blocked rewind raises no flag.
AbandonPrepared_Silent(n) ==
    /\ preparing' = preparing - 1
    /\ Release(n)
    /\ UNCHANGED <<inFlight, desynced>>

AbandonPrepared(n) ==
    /\ preparing' = preparing - 1
    /\ Release(n)
    /\ desynced' = (desynced \/ ~Rewinds(n))
    /\ UNCHANGED inFlight

\* Faulty variant: the failed transaction stays counted as preparing.
MarkDesyncedPrepared_StillPreparing ==
    /\ desynced' = TRUE
    /\ UNCHANGED <<next, pending, inFlight, preparing>>

MarkDesyncedPrepared ==
    /\ preparing' = preparing - 1
    /\ desynced' = TRUE
    /\ UNCHANGED <<next, pending, inFlight>>

\* Faulty variant: the window between prepare and submission is forgotten.
CanResync_IgnoresPreparing == inFlight = {}

CanResync == inFlight = {} /\ preparing = 0

ResyncNonce(onChainNonce) ==
    /\ ResyncManager(onChainNonce)
    /\ desynced' = FALSE
    /\ UNCHANGED <<inFlight, preparing>>

=============================================================================
