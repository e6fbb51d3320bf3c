---------------------------- MODULE NonceManager ----------------------------
(***************************************************************************)
(* The nonce manager of hft/nonce.rs: an atomic counter and a map from a   *)
(* nonce to the transaction submitted with it.  The operators below are    *)
(* its methods as single steps, which is how the pipeline sees them: every *)
(* caller in the crate holds the pipeline's mutex.                         *)
(***************************************************************************)
EXTENDS Integers

VARIABLES
    next,    \* the counter: the nonce the next acquire returns
    pending  \* the tracked transactions, as records [nonce, hash]

managerVars == <<next, pending>>

\* A map keyed by nonce: at most one entry for a nonce.
Untracked(n) == {p \in pending : p.nonce # n}

ManagerInit(onChainNonce) ==
    /\ next = onChainNonce
    /\ pending = {}

\* The caller receives the value of next in the state before the step.
Acquire ==
    /\ next' = next + 1
    /\ UNCHANGED pending

Track(n, hash) ==
    /\ pending' = Untracked(n) \cup {[nonce |-> n, hash |-> hash]}
    /\ UNCHANGED next

Confirm(n) ==
    /\ pending' = Untracked(n)
    /\ UNCHANGED next

\* Faulty variant: the rewind does not look whether n is the last nonce.
Rewinds_Always(n) == TRUE

\* compare_exchange(n + 1, n): the counter goes back only when n is still the
\* last nonce handed out.
Rewinds(n) == next = n + 1

Release(n) ==
    /\ pending' = Untracked(n)
    /\ next' = IF Rewinds(n) THEN n ELSE next

ResyncManager(onChainNonce) ==
    /\ next' = onChainNonce
    /\ pending' = {}

=============================================================================
