--------------------------- MODULE SendPathProofs ---------------------------
(***************************************************************************)
(* Theorems about SendPath, for every set of sends, every in-flight limit, *)
(* every number of concurrent calls and restarts, and every combination of *)
(* evictions, manual settlements and dropped futures.                      *)
(*                                                                         *)
(* NonceOwnership is not inductive by itself.  A resync may only run when  *)
(* nothing holds a nonce, which the code infers from preparing = 0; so the *)
(* invariant has to say that preparing is no less than the number of sends *)
(* that hold a nonce outside inFlight.  And a tracked send must be past    *)
(* its submission, or preparing again could take a second nonce for it.    *)
(***************************************************************************)
EXTENDS SendPath, FiniteSetTheorems, TLAPS

PreparingCounted ==
    /\ IsFiniteSet(Preparing)
    /\ Cardinality(Preparing) <= preparing

TrackedArePastSubmission == \A s \in inFlight : pc[s] \in {"waiting", "returned", "dropped"}

IInv ==
    /\ TypeOK
    /\ PreparingCounted
    /\ TrackedArePastSubmission
    /\ NonceOwnership
    /\ MapsAgree

-----------------------------------------------------------------------------
(* The state kept in each variable stays in its type.                      *)

LEMMA InitTypeOK == Init => TypeOK
<1> SUFFICES ASSUME Init PROVE TypeOK
  OBVIOUS
<1>1. pc \in [Sends -> Stages]
  BY DEF Init, Stages
<1>2. nonceOf \in [Sends -> Nat] /\ fetched \in [Sends -> Nat]
  BY DEF Init
<1>3. next \in Nat /\ preparing \in Int /\ count \in Nat /\ restarts \in Nat
  BY DEF Init, PipelineInit, ManagerInit
<1>4. pending \subseteq [nonce : Nat, hash : Sends]
  BY DEF Init, PipelineInit, ManagerInit
<1>5. inFlight \subseteq Sends /\ mempool \subseteq Sends /\ mined \subseteq Sends /\ lost \subseteq Sends
  BY DEF Init, PipelineInit
<1>6. desynced \in BOOLEAN
  BY DEF Init, PipelineInit
<1> QED
  BY <1>1, <1>2, <1>3, <1>4, <1>5, <1>6 DEF TypeOK

LEMMA NextTypeOK == TypeOK /\ [Next]_vars => TypeOK'
<1> SUFFICES ASSUME TypeOK, [Next]_vars PROVE TypeOK'
  OBVIOUS
<1> USE DEF TypeOK, Stages, pipelineVars, managerVars, sendVars, chainVars, Goto
<1>1. CASE UNCHANGED vars
  BY <1>1 DEF vars
<1>2. CASE Restart
  <2>1. pc' \in [Sends -> Stages]
    BY <1>2 DEF Restart
  <2>2. next' \in Nat /\ preparing' \in Int /\ restarts' \in Nat
    BY <1>2 DEF Restart, ReplacePipeline, ResyncManager
  <2>3. pending' = {} /\ inFlight' = {} /\ desynced' = FALSE
    BY <1>2 DEF Restart, ReplacePipeline, ResyncManager
  <2>4. UNCHANGED <<nonceOf, fetched, chainVars>>
    BY <1>2 DEF Restart
  <2> QED
    BY <2>1, <2>2, <2>3, <2>4
<1>3. ASSUME NEW s \in Sends,
             Enter(s) \/ ReadCountFails(s) \/ Unprepared(s)
                      \/ TooManyInFlight(s) \/ Drop(s)
      PROVE TypeOK'
  BY <1>3 DEF Enter, ReadCountFails, Unprepared, TooManyInFlight, Drop
<1>4. ASSUME NEW s \in Sends, ReadCount(s) PROVE TypeOK'
  <2>1. PICK c \in count..(count + Cardinality(mempool)) :
                fetched' = [fetched EXCEPT ![s] = c]
    BY <1>4 DEF ReadCount
  <2>2. c \in Nat
    BY <2>1
  <2> QED
    BY <1>4, <2>1, <2>2 DEF ReadCount
<1>5. ASSUME NEW s \in Sends, Adopt(s) PROVE TypeOK'
  BY <1>5 DEF Adopt, ResyncNonce, ResyncManager
<1>6. ASSUME NEW s \in Sends, Prepare(s) PROVE TypeOK'
  BY <1>6 DEF Prepare, PrepareAcquires, Acquire
<1>7. ASSUME NEW s \in Sends, SigningFails(s) PROVE TypeOK'
  BY <1>7 DEF SigningFails, AbandonPrepared, Release, Rewinds, Untracked
<1>8. ASSUME NEW s \in Sends, BroadcastAccepted(s) \/ BroadcastErrs(s)
      PROVE TypeOK'
  BY <1>8 DEF BroadcastAccepted, BroadcastErrs
<1>9. ASSUME NEW s \in Sends, BroadcastFailed(s) PROVE TypeOK'
  BY <1>9 DEF BroadcastFailed, MarkDesyncedPrepared
<1>10. ASSUME NEW s \in Sends, Submitted(s) PROVE TypeOK'
  BY <1>10 DEF Submitted, RecordSubmission, Track, Untracked
<1>11. ASSUME NEW s \in Sends, Receipt(s) \/ ReceiptTimeout(s) \/ ResolveTx(s)
       PROVE TypeOK'
  BY <1>11 DEF Receipt, ReceiptTimeout, ResolveTx, Resolve, Confirm, Untracked
<1>12. ASSUME NEW s \in Sends, FailTx(s) PROVE TypeOK'
  BY <1>12 DEF FailTx, Fail, Release, Rewinds, Untracked
<1>13. ASSUME NEW s \in Sends, Mine(s) \/ Evict(s) PROVE TypeOK'
  BY <1>13 DEF Mine, Evict
<1> QED
  BY <1>1, <1>2, <1>3, <1>4, <1>5, <1>6, <1>7, <1>8, <1>9, <1>10, <1>11,
     <1>12, <1>13 DEF Next, Progress

\* Every variable keeps its type in every reachable state.
THEOREM SendPathTypes == Spec => []TypeOK
  BY InitTypeOK, NextTypeOK, PTL DEF Spec

-----------------------------------------------------------------------------
(* How a step may change the set of sends that hold a nonce unrecorded.    *)

LEMMA GotoPreparing ==
  ASSUME TypeOK, NEW s \in Sends, NEW from, NEW to \in Stages, Goto(s, from, to)
  PROVE  Preparing' = IF to \in {"signing", "accepted", "refused"}
                      THEN Preparing \cup {s} ELSE Preparing \ {s}
  BY DEF TypeOK, Goto, Preparing

\* Entering the window between prepare and submission is counted.
LEMMA CountedWhenEntering ==
  ASSUME PreparingCounted, preparing \in Int, NEW s, s \notin Preparing,
         Preparing' = Preparing \cup {s}, preparing' = preparing + 1
  PROVE  PreparingCounted'
<1>1. IsFiniteSet(Preparing) /\ Cardinality(Preparing) \in Nat
  BY FS_CardinalityType DEF PreparingCounted
<1>2. /\ IsFiniteSet(Preparing \cup {s})
      /\ Cardinality(Preparing \cup {s}) = Cardinality(Preparing) + 1
  BY <1>1, FS_AddElement
<1>3. /\ IsFiniteSet(Preparing')
      /\ Cardinality(Preparing') = Cardinality(Preparing) + 1
  BY <1>2
<1> QED
  BY <1>1, <1>3 DEF PreparingCounted

\* Leaving it is counted too.
LEMMA CountedWhenLeaving ==
  ASSUME PreparingCounted, preparing \in Int, NEW s, s \in Preparing,
         Preparing' = Preparing \ {s}, preparing' = preparing - 1
  PROVE  PreparingCounted'
<1>1. IsFiniteSet(Preparing) /\ Cardinality(Preparing) \in Nat
  BY FS_CardinalityType DEF PreparingCounted
<1>2. /\ IsFiniteSet(Preparing \ {s})
      /\ Cardinality(Preparing \ {s}) = Cardinality(Preparing) - 1
  BY <1>1, FS_RemoveElement
<1>3. /\ IsFiniteSet(Preparing')
      /\ Cardinality(Preparing') = Cardinality(Preparing) - 1
  BY <1>2
<1> QED
  BY <1>1, <1>3 DEF PreparingCounted

\* A send that disappears without a word leaves the count too high, never too
\* low.
LEMMA CountedWhenForgotten ==
  ASSUME PreparingCounted, preparing \in Int,
         Preparing' \subseteq Preparing, preparing' = preparing
  PROVE  PreparingCounted'
<1>1. IsFiniteSet(Preparing) /\ Cardinality(Preparing) \in Nat
  BY FS_CardinalityType DEF PreparingCounted
<1>2. /\ IsFiniteSet(Preparing')
      /\ Cardinality(Preparing') <= Cardinality(Preparing)
  BY <1>1, FS_Subset
<1>3. Cardinality(Preparing') \in Nat
  BY <1>2, FS_CardinalityType
<1> QED
  BY <1>1, <1>2, <1>3 DEF PreparingCounted

\* The reason can_resync is enough: with the count at 0 nobody prepares.
LEMMA ResyncableIsUnheld ==
  ASSUME PreparingCounted, preparing \in Int, CanResync
  PROVE  Holders = {}
<1>1. IsFiniteSet(Preparing) /\ Cardinality(Preparing) \in Nat
  BY FS_CardinalityType DEF PreparingCounted
<1>2. Cardinality(Preparing) = 0
  BY <1>1 DEF PreparingCounted, CanResync
<1>3. Preparing = {}
  BY <1>1, <1>2, FS_EmptySet
<1> QED
  BY <1>3 DEF Holders, CanResync

-----------------------------------------------------------------------------
(* The inductive step, one conjunct at a time.                             *)

LEMMA NextPreparingCounted == IInv /\ [Next]_vars => PreparingCounted'
<1> SUFFICES ASSUME IInv, [Next]_vars PROVE PreparingCounted'
  OBVIOUS
<1> USE DEF IInv
<1>0. preparing \in Int
  BY DEF TypeOK
<1>1. CASE UNCHANGED vars
  <2>1. Preparing' \subseteq Preparing /\ preparing' = preparing
    BY <1>1 DEF vars, Preparing
  <2> QED
    BY <1>0, <2>1, CountedWhenForgotten
<1>2. CASE Restart
  <2>1. Preparing' = {} /\ preparing' = 0
    BY <1>2 DEF Restart, ReplacePipeline, Preparing, Running
  <2> QED
    BY <2>1, FS_EmptySet DEF PreparingCounted
<1>3. ASSUME NEW s \in Sends,
             \/ Enter(s) \/ ReadCount(s) \/ ReadCountFails(s) \/ Adopt(s)
             \/ Unprepared(s) \/ TooManyInFlight(s) \/ Receipt(s) \/ ReceiptTimeout(s)
      PROVE PreparingCounted'
  <2>1. /\ s \notin Preparing
        /\ \E to \in {"fetching", "adopting", "simulating", "returned"} :
              pc' = [pc EXCEPT ![s] = to]
    BY <1>3 DEF Enter, ReadCount, ReadCountFails, Adopt, Unprepared,
                TooManyInFlight, Receipt, ReceiptTimeout, Goto, Preparing
  <2>2. Preparing' \subseteq Preparing
    BY <2>1 DEF Preparing, TypeOK
  <2>3. preparing' = preparing
    BY <1>3 DEF Enter, ReadCount, ReadCountFails, Adopt, Unprepared,
                TooManyInFlight, Receipt, ReceiptTimeout, pipelineVars, Resolve,
                ResyncNonce
  <2> QED
    BY <1>0, <2>2, <2>3, CountedWhenForgotten
<1>4. ASSUME NEW s \in Sends, Prepare(s) PROVE PreparingCounted'
  <2>1. s \notin Preparing /\ Preparing' = Preparing \cup {s}
    BY <1>4, GotoPreparing DEF Prepare, Goto, Stages, Preparing
  <2>2. preparing' = preparing + 1
    BY <1>4 DEF Prepare, PrepareAcquires
  <2> QED
    BY <1>0, <2>1, <2>2, CountedWhenEntering
<1>5. ASSUME NEW s \in Sends, BroadcastAccepted(s) \/ BroadcastErrs(s)
      PROVE PreparingCounted'
  <2>1. Preparing' \subseteq Preparing
    BY <1>5 DEF BroadcastAccepted, BroadcastErrs, Goto, Preparing, TypeOK
  <2>2. preparing' = preparing
    BY <1>5 DEF BroadcastAccepted, BroadcastErrs, pipelineVars
  <2> QED
    BY <1>0, <2>1, <2>2, CountedWhenForgotten
<1>6. ASSUME NEW s \in Sends, SigningFails(s) \/ BroadcastFailed(s) \/ Submitted(s)
      PROVE PreparingCounted'
  <2>1. s \in Preparing /\ Preparing' = Preparing \ {s}
    BY <1>6 DEF SigningFails, BroadcastFailed, Submitted, Goto, Preparing, TypeOK
  <2>2. preparing' = preparing - 1
    BY <1>6 DEF SigningFails, BroadcastFailed, Submitted, AbandonPrepared,
                MarkDesyncedPrepared, RecordSubmission
  <2> QED
    BY <1>0, <2>1, <2>2, CountedWhenLeaving
<1>7. ASSUME NEW s \in Sends, Drop(s) PROVE PreparingCounted'
  <2>1. Preparing' \subseteq Preparing /\ preparing' = preparing
    BY <1>7 DEF Drop, Preparing, TypeOK, pipelineVars
  <2> QED
    BY <1>0, <2>1, CountedWhenForgotten
<1>8. ASSUME NEW s \in Sends, ResolveTx(s) \/ FailTx(s) \/ Mine(s) \/ Evict(s)
      PROVE PreparingCounted'
  <2>1. Preparing' \subseteq Preparing /\ preparing' = preparing
    BY <1>8 DEF ResolveTx, FailTx, Mine, Evict, Preparing, sendVars,
                pipelineVars, Resolve, Fail
  <2> QED
    BY <1>0, <2>1, CountedWhenForgotten
<1> QED
  BY <1>1, <1>2, <1>3, <1>4, <1>5, <1>6, <1>7, <1>8 DEF Next, Progress

LEMMA NextTrackedArePastSubmission ==
  IInv /\ [Next]_vars => TrackedArePastSubmission'
<1> SUFFICES ASSUME IInv, [Next]_vars PROVE TrackedArePastSubmission'
  OBVIOUS
<1> USE DEF IInv, TrackedArePastSubmission
<1>1. CASE UNCHANGED vars
  BY <1>1 DEF vars
<1>2. CASE Restart
  BY <1>2 DEF Restart, ReplacePipeline
<1>3. ASSUME NEW s \in Sends, Submitted(s) PROVE TrackedArePastSubmission'
  BY <1>3 DEF Submitted, RecordSubmission, Goto, TypeOK
<1>4. ASSUME NEW s \in Sends, Progress(s) \/ Enter(s) \/ Drop(s), ~Submitted(s)
      PROVE TrackedArePastSubmission'
  <2>1. /\ inFlight' \subseteq inFlight
        /\ \E to \in Stages : pc' = [pc EXCEPT ![s] = to]
        /\ s \in inFlight' => pc'[s] \in {"returned", "dropped"}
    BY <1>4 DEF Progress, Enter, Drop, ReadCount, ReadCountFails, Adopt,
         Unprepared, TooManyInFlight, Prepare, SigningFails, BroadcastAccepted,
         BroadcastErrs, BroadcastFailed, Receipt, ReceiptTimeout, Goto,
         pipelineVars, Resolve, ResyncNonce, PrepareAcquires, AbandonPrepared,
         MarkDesyncedPrepared, Stages, TypeOK
  <2> QED
    BY <2>1 DEF TypeOK
<1>5. ASSUME NEW s \in Sends, ResolveTx(s) \/ FailTx(s) \/ Mine(s) \/ Evict(s)
      PROVE TrackedArePastSubmission'
  BY <1>5 DEF ResolveTx, FailTx, Mine, Evict, sendVars, pipelineVars, Resolve, Fail
<1> QED
  BY <1>1, <1>2, <1>3, <1>4, <1>5 DEF Next

\* Most steps hand out no nonce, keep every nonce where it is and do not lower
\* the counter: whoever held a nonce before is the only one who can hold it.
LEMMA OwnershipShrinks ==
  ASSUME TypeOK, NonceOwnership, Holders' \subseteq Holders,
         nonceOf' = nonceOf, next' = next
  PROVE  NonceOwnership'
  BY DEF NonceOwnership

\* Giving a nonce back lowers the counter by one, and only below nonces that
\* somebody else does not hold.
LEMMA OwnershipReleased ==
  ASSUME TypeOK, NonceOwnership, NEW s \in Holders,
         Holders' \subseteq Holders \ {s}, nonceOf' = nonceOf,
         Release(nonceOf[s])
  PROVE  NonceOwnership'
<1>1. Holders \subseteq Sends
  BY DEF TypeOK, Holders, Preparing
<1>2. \A t \in Holders' : nonceOf[t] \in Nat /\ nonceOf[t] < next /\ nonceOf[t] # nonceOf[s]
  BY <1>1 DEF NonceOwnership, TypeOK
<1>3. nonceOf[s] \in Nat /\ next \in Nat
  BY <1>1 DEF TypeOK
<1>4. \A t \in Holders' : nonceOf[t] < next'
  BY <1>2, <1>3 DEF Release, Rewinds
<1> QED
  BY <1>4 DEF NonceOwnership

LEMMA NextNonceOwnership == IInv /\ [Next]_vars => NonceOwnership'
<1> SUFFICES ASSUME IInv, [Next]_vars PROVE NonceOwnership'
  OBVIOUS
<1> USE DEF IInv
<1>0. Holders \subseteq Sends
  BY DEF TypeOK, Holders, Preparing
<1>1. CASE UNCHANGED vars
  <2>1. Holders' \subseteq Holders /\ nonceOf' = nonceOf /\ next' = next
    BY <1>1 DEF vars, Holders, Preparing
  <2> QED
    BY <2>1, OwnershipShrinks
<1>2. CASE Restart
  <2>1. Holders' = {}
    BY <1>2 DEF Restart, ReplacePipeline, Holders, Preparing, Running
  <2> QED
    BY <2>1 DEF NonceOwnership
<1>3. ASSUME NEW s \in Sends,
             \/ Enter(s) \/ ReadCount(s) \/ ReadCountFails(s) \/ Unprepared(s)
             \/ TooManyInFlight(s) \/ Drop(s)
             \/ Mine(s) \/ Evict(s)
      PROVE NonceOwnership'
  <2>1. inFlight' = inFlight /\ nonceOf' = nonceOf /\ next' = next
    BY <1>3 DEF Enter, ReadCount, ReadCountFails, Unprepared, TooManyInFlight,
                Drop, Mine, Evict, pipelineVars, sendVars
  <2>2. Preparing' \subseteq Preparing
    BY <1>3 DEF Enter, ReadCount, ReadCountFails, Unprepared, TooManyInFlight,
                Drop, Mine, Evict, sendVars, Goto, Preparing, TypeOK
  <2> QED
    BY <2>1, <2>2, OwnershipShrinks DEF Holders
<1>4. ASSUME NEW s \in Sends, Adopt(s) PROVE NonceOwnership'
  <2>1. Preparing' \subseteq Preparing /\ inFlight' = inFlight /\ nonceOf' = nonceOf
    BY <1>4 DEF Adopt, Goto, Preparing, TypeOK, ResyncNonce, pipelineVars
  <2>2. CASE desynced /\ CanResync
    <3>1. Holders = {}
      BY <2>2, ResyncableIsUnheld DEF TypeOK
    <3>2. Holders' = {}
      BY <2>1, <3>1 DEF Holders
    <3> QED
      BY <3>2 DEF NonceOwnership
  <2>3. CASE ~(desynced /\ CanResync)
    <3>1. next' = next
      BY <1>4, <2>3 DEF Adopt, pipelineVars
    <3> QED
      BY <2>1, <3>1, OwnershipShrinks DEF Holders
  <2> QED
    BY <2>2, <2>3
<1>5. ASSUME NEW s \in Sends, Prepare(s) PROVE NonceOwnership'
  <2>1. s \notin Holders
    BY <1>5 DEF Prepare, Goto, Holders, Preparing, TrackedArePastSubmission
  <2>2. /\ next' = next + 1
        /\ nonceOf' = [nonceOf EXCEPT ![s] = next]
        /\ inFlight' = inFlight
    BY <1>5 DEF Prepare, PrepareAcquires, Acquire
  <2>3. Holders' = Holders \cup {s}
    BY <1>5, <2>2, GotoPreparing DEF Prepare, Stages, Holders
  <2>4. \A t \in Holders : nonceOf'[t] = nonceOf[t]
    BY <1>0, <2>1, <2>2 DEF TypeOK
  <2>5. nonceOf'[s] = next
    BY <2>2 DEF TypeOK
  <2>6. next \in Nat /\ \A t \in Holders : nonceOf[t] \in Nat
    BY <1>0 DEF TypeOK
  <2> QED
    BY <2>2, <2>3, <2>4, <2>5, <2>6 DEF NonceOwnership
<1>6. ASSUME NEW s \in Sends, SigningFails(s) PROVE NonceOwnership'
  <2>1. /\ s \in Holders /\ s \notin inFlight
        /\ inFlight' = inFlight /\ nonceOf' = nonceOf
    BY <1>6 DEF SigningFails, AbandonPrepared, Goto, Holders, Preparing,
                TrackedArePastSubmission
  <2>2. Preparing' = Preparing \ {s}
    BY <1>6, GotoPreparing DEF SigningFails, Stages
  <2>3. Release(nonceOf[s])
    BY <1>6 DEF SigningFails, AbandonPrepared
  <2>4. Holders' \subseteq Holders \ {s}
    BY <2>1, <2>2 DEF Holders
  <2> QED
    BY <2>1, <2>3, <2>4, OwnershipReleased
<1>7. ASSUME NEW s \in Sends, BroadcastAccepted(s) \/ BroadcastErrs(s)
                               \/ BroadcastFailed(s) \/ Submitted(s)
      PROVE NonceOwnership'
  <2>1. s \in Preparing
    BY <1>7 DEF BroadcastAccepted, BroadcastErrs, BroadcastFailed, Submitted,
                Goto, Preparing
  <2>2. Preparing' \subseteq Preparing
    BY <1>7 DEF BroadcastAccepted, BroadcastErrs, BroadcastFailed, Submitted,
                Goto, Preparing, TypeOK
  <2>3. inFlight' \subseteq inFlight \cup {s} /\ nonceOf' = nonceOf /\ next' = next
    BY <1>7 DEF BroadcastAccepted, BroadcastErrs, BroadcastFailed, Submitted,
                MarkDesyncedPrepared, RecordSubmission, Track, pipelineVars
  <2> QED
    BY <2>1, <2>2, <2>3, OwnershipShrinks DEF Holders
<1>8. ASSUME NEW s \in Sends, Receipt(s) \/ ReceiptTimeout(s) \/ ResolveTx(s)
      PROVE NonceOwnership'
  <2>1. Preparing' \subseteq Preparing
    BY <1>8 DEF Receipt, ReceiptTimeout, ResolveTx, Goto, Preparing, TypeOK, sendVars
  <2>2. inFlight' \subseteq inFlight /\ nonceOf' = nonceOf /\ next' = next
    BY <1>8 DEF Receipt, ReceiptTimeout, ResolveTx, Resolve, Confirm, managerVars,
                sendVars
  <2> QED
    BY <2>1, <2>2, OwnershipShrinks DEF Holders
<1>9. ASSUME NEW s \in Sends, FailTx(s) PROVE NonceOwnership'
  <2>1. /\ s \in Holders /\ inFlight' = inFlight \ {s}
        /\ Release(nonceOf[s]) /\ nonceOf' = nonceOf
    BY <1>9 DEF FailTx, Fail, Holders, sendVars
  <2>2. Preparing' = Preparing /\ s \notin Preparing
    BY <1>9 DEF FailTx, Preparing, TrackedArePastSubmission, sendVars
  <2>3. Holders' \subseteq Holders \ {s}
    BY <2>1, <2>2 DEF Holders
  <2> QED
    BY <2>1, <2>3, OwnershipReleased
<1> QED
  BY <1>1, <1>2, <1>3, <1>4, <1>5, <1>6, <1>7, <1>8, <1>9 DEF Next, Progress

\* The entry of one tracked send is the only one under its nonce.
LEMMA UntrackedRemovesOne ==
  ASSUME IInv, NEW s \in inFlight
  PROVE  Untracked(nonceOf[s]) =
            {[nonce |-> nonceOf[t], hash |-> t] : t \in inFlight \ {s}}
  BY DEF IInv, MapsAgree, NonceOwnership, Holders, Untracked

\* No tracked send is under the nonce of one that is still preparing.
LEMMA UntrackedRemovesNone ==
  ASSUME IInv, NEW s \in Preparing
  PROVE  Untracked(nonceOf[s]) = pending
<1>1. s \in Holders /\ s \notin inFlight
  BY DEF IInv, TrackedArePastSubmission, Holders, Preparing
<1>2. \A t \in inFlight : nonceOf[t] # nonceOf[s]
  BY <1>1 DEF IInv, NonceOwnership, Holders
<1> QED
  BY <1>2 DEF IInv, MapsAgree, Untracked

LEMMA NextMapsAgree == IInv /\ [Next]_vars => MapsAgree'
<1> SUFFICES ASSUME IInv, [Next]_vars PROVE MapsAgree'
  OBVIOUS
<1>0. TypeOK /\ TrackedArePastSubmission /\ MapsAgree
  BY DEF IInv
<1>1. ASSUME pending' = pending, inFlight' = inFlight,
             \A t \in inFlight : nonceOf'[t] = nonceOf[t]
      PROVE MapsAgree'
  BY <1>0, <1>1 DEF MapsAgree
<1>2. CASE UNCHANGED vars
  BY <1>1, <1>2 DEF vars
<1>3. CASE Restart
  BY <1>3 DEF Restart, ReplacePipeline, ResyncManager, MapsAgree
<1>4. ASSUME NEW s \in Sends,
             \/ Enter(s) \/ ReadCount(s) \/ ReadCountFails(s) \/ Unprepared(s)
             \/ TooManyInFlight(s) \/ BroadcastAccepted(s) \/ BroadcastErrs(s)
             \/ BroadcastFailed(s) \/ Drop(s) \/ Mine(s) \/ Evict(s)
      PROVE MapsAgree'
  <2>1. pending' = pending /\ inFlight' = inFlight /\ nonceOf' = nonceOf
    BY <1>4 DEF Enter, ReadCount, ReadCountFails, Unprepared, TooManyInFlight,
                BroadcastAccepted, BroadcastErrs, BroadcastFailed,
                MarkDesyncedPrepared, Drop, Mine, Evict, pipelineVars, sendVars
  <2> QED
    BY <1>1, <2>1
<1>5. ASSUME NEW s \in Sends, Adopt(s) PROVE MapsAgree'
  <2>1. CASE desynced /\ CanResync
    BY <1>5, <2>1 DEF Adopt, CanResync, ResyncNonce, ResyncManager, MapsAgree
  <2>2. CASE ~(desynced /\ CanResync)
    BY <1>1, <1>5, <2>2 DEF Adopt, pipelineVars
  <2> QED
    BY <2>1, <2>2
<1>6. ASSUME NEW s \in Sends, Prepare(s) PROVE MapsAgree'
  <2>1. s \notin inFlight
    BY <1>0, <1>6 DEF Prepare, Goto, TrackedArePastSubmission
  <2>2. /\ pending' = pending /\ inFlight' = inFlight
        /\ nonceOf' = [nonceOf EXCEPT ![s] = next]
    BY <1>6 DEF Prepare, PrepareAcquires, Acquire
  <2>3. \A t \in inFlight : nonceOf'[t] = nonceOf[t]
    BY <1>0, <2>1, <2>2 DEF TypeOK
  <2> QED
    BY <1>1, <2>2, <2>3
<1>7. ASSUME NEW s \in Sends, SigningFails(s) PROVE MapsAgree'
  <2>1. s \in Preparing
    BY <1>7 DEF SigningFails, Goto, Preparing
  <2>2. pending' = Untracked(nonceOf[s]) /\ inFlight' = inFlight /\ nonceOf' = nonceOf
    BY <1>7 DEF SigningFails, AbandonPrepared, Release
  <2> QED
    BY <1>1, <2>1, <2>2, UntrackedRemovesNone
<1>8. ASSUME NEW s \in Sends, Submitted(s) PROVE MapsAgree'
  <2>1. s \in Preparing
    BY <1>8 DEF Submitted, Goto, Preparing
  <2>2. /\ pending' = Untracked(nonceOf[s]) \cup {[nonce |-> nonceOf[s], hash |-> s]}
        /\ inFlight' = inFlight \cup {s}
        /\ nonceOf' = nonceOf
    BY <1>8 DEF Submitted, RecordSubmission, Track
  <2>3. pending' = pending \cup {[nonce |-> nonceOf[s], hash |-> s]}
    BY <2>1, <2>2, UntrackedRemovesNone
  <2> QED
    BY <1>0, <2>2, <2>3 DEF MapsAgree
<1>9. ASSUME NEW s \in Sends,
             Receipt(s) \/ ReceiptTimeout(s) \/ ResolveTx(s) \/ FailTx(s)
      PROVE MapsAgree'
  <2>1. nonceOf' = nonceOf /\ inFlight' = inFlight \ {s}
    BY <1>9 DEF Receipt, ReceiptTimeout, ResolveTx, FailTx, Resolve, Fail, sendVars
  <2>2. CASE s \in inFlight
    <3>1. pending' = Untracked(nonceOf[s])
      BY <1>9, <2>2 DEF Receipt, ReceiptTimeout, ResolveTx, FailTx, Resolve, Fail,
                        Confirm, Release
    <3> QED
      BY <2>1, <2>2, <3>1, UntrackedRemovesOne DEF MapsAgree
  <2>3. CASE s \notin inFlight
    <3>1. pending' = pending
      BY <1>9, <2>3 DEF Receipt, ReceiptTimeout, ResolveTx, FailTx, Resolve, Fail,
                        managerVars
    <3> QED
      BY <1>1, <2>1, <2>3, <3>1
  <2> QED
    BY <2>2, <2>3
<1> QED
  BY <1>2, <1>3, <1>4, <1>5, <1>6, <1>7, <1>8, <1>9 DEF Next, Progress

-----------------------------------------------------------------------------

LEMMA InitIInv == Init => IInv
<1> SUFFICES ASSUME Init PROVE IInv
  OBVIOUS
<1>1. Preparing = {} /\ inFlight = {} /\ pending = {} /\ preparing = 0
  BY DEF Init, Preparing, PipelineInit, ManagerInit
<1>2. PreparingCounted
  BY <1>1, FS_EmptySet DEF PreparingCounted
<1> QED
  BY <1>1, <1>2, InitTypeOK DEF IInv, TrackedArePastSubmission, NonceOwnership,
     Holders, MapsAgree

LEMMA NextIInv == IInv /\ [Next]_vars => IInv'
  BY NextTypeOK, NextPreparingCounted, NextTrackedArePastSubmission,
     NextNonceOwnership, NextMapsAgree DEF IInv

LEMMA SendPathInvariant == Spec => []IInv
  BY InitIInv, NextIInv, PTL DEF Spec

\* No two sends hold one nonce, and acquire cannot return a held one.
THEOREM NoncesAreOwned == Spec => []NonceOwnership
<1>1. IInv => NonceOwnership
  BY DEF IInv
<1> QED
  BY <1>1, SendPathInvariant, PTL

\* can_resync never overlooks a send that holds a nonce.
THEOREM ResyncIsSafe == Spec => []ResyncOnlyWhenUnheld
<1>1. IInv => ResyncOnlyWhenUnheld
  BY ResyncableIsUnheld DEF IInv, TypeOK, ResyncOnlyWhenUnheld
<1> QED
  BY <1>1, SendPathInvariant, PTL

\* The pending map of the manager and the in-flight map of the pipeline agree.
THEOREM TrackingAgrees == Spec => []MapsAgree
<1>1. IInv => MapsAgree
  BY DEF IInv
<1> QED
  BY <1>1, SendPathInvariant, PTL

-----------------------------------------------------------------------------
(***************************************************************************)
(* NoSilentHole.  It needs to know where a transaction can be found after  *)
(* its send stops holding the nonce: on the chain, unless the node evicted *)
(* it or its future was dropped.  And it needs the count a send carries    *)
(* from its read to its resync to be covered still when it is adopted,     *)
(* however late.                                                           *)
(***************************************************************************)
OnChain == mempool \cup mined \cup lost

Covered(n) == \E t \in mempool \cup lost : nonceOf[t] = n

SentStages == {"accepted", "refused", "waiting", "returned", "dropped"}

OnChainAreSent == \A s \in OnChain : pc[s] \in SentStages

MinedAreConsumed == \A s \in mined : nonceOf[s] < count

SubmittedAreOnChain ==
    \A s \in Sends : (pc[s] = "accepted" \/ s \in inFlight) => s \in OnChain

FetchedAreCovered ==
    \A s \in Sends : pc[s] = "adopting" =>
        \A n \in count..(fetched[s] - 1) : Covered(n)

HoleInv ==
    /\ IInv
    /\ OnChainAreSent
    /\ MinedAreConsumed
    /\ SubmittedAreOnChain
    /\ FetchedAreCovered
    /\ NoSilentHole

LEMMA InitHoleInv == Init => HoleInv
<1> SUFFICES ASSUME Init PROVE HoleInv
  OBVIOUS
<1>1. /\ mempool = {} /\ mined = {} /\ lost = {} /\ inFlight = {} /\ next = 0 /\ count = 0
      /\ \A s \in Sends : pc[s] = "idle"
  BY DEF Init, PipelineInit, ManagerInit
<1> QED
  BY <1>1, InitIInv DEF HoleInv, OnChain, OnChainAreSent, MinedAreConsumed,
     SubmittedAreOnChain, FetchedAreCovered, NoSilentHole

\* A step that leaves the chain alone, and every nonce but that of a send not
\* on it.
LEMMA ChainUntouched ==
  ASSUME HoleInv, NEW s \in Sends, NEW to \in Stages, pc' = [pc EXCEPT ![s] = to],
         UNCHANGED chainVars, s \in OnChain => to \in SentStages,
         to = "adopting" => \A n \in count..(fetched'[s] - 1) : Covered(n),
         \A t \in Sends \ {s} : nonceOf'[t] = nonceOf[t] /\ fetched'[t] = fetched[t],
         nonceOf' = nonceOf \/ s \notin OnChain
  PROVE  OnChainAreSent' /\ MinedAreConsumed' /\ FetchedAreCovered'
<1> USE DEF HoleInv, IInv, TypeOK
<1>1. \A t \in OnChain : nonceOf'[t] = nonceOf[t] /\ t \in Sends
  BY DEF OnChain
<1>2. /\ OnChain' = OnChain /\ mempool' = mempool /\ mined' = mined /\ lost' = lost
      /\ count' = count
  BY DEF OnChain, chainVars
<1>3. OnChainAreSent'
  BY <1>2 DEF OnChainAreSent, OnChain
<1>4. MinedAreConsumed'
  BY <1>1, <1>2 DEF MinedAreConsumed, OnChain
<1>5. \A n : Covered(n) => Covered(n)'
  BY <1>1, <1>2 DEF Covered, OnChain
<1>6. FetchedAreCovered'
  <2>1. ASSUME NEW t \in Sends, pc'[t] = "adopting"
        PROVE \A n \in count..(fetched'[t] - 1) : Covered(n)
    BY <2>1 DEF FetchedAreCovered
  <2> QED
    BY <2>1, <1>2, <1>5 DEF FetchedAreCovered
<1> QED
  BY <1>3, <1>4, <1>6

\* The sends' own steps.
LEMMA ProgressHoleInv ==
  ASSUME HoleInv, NEW s \in Sends, Progress(s) \/ Enter(s), IInv'
  PROVE  HoleInv'
<1> USE DEF HoleInv, IInv
<1>0. TypeOK /\ TypeOK'
  OBVIOUS
<1>1. ASSUME Enter(s) \/ ReadCountFails(s) \/ Unprepared(s) \/ TooManyInFlight(s)
      PROVE HoleInv'
  <2>1. /\ UNCHANGED <<pipelineVars, nonceOf, fetched, chainVars>>
        /\ s \notin OnChain /\ s \notin Preparing /\ s \notin inFlight
        /\ \E to \in {"fetching", "simulating", "returned"} :
              pc' = [pc EXCEPT ![s] = to]
    BY <1>1 DEF Enter, ReadCountFails, Unprepared, TooManyInFlight, Goto,
         OnChainAreSent, SentStages, Preparing, TrackedArePastSubmission
  <2>2. OnChainAreSent' /\ MinedAreConsumed' /\ FetchedAreCovered'
    BY <2>1, ChainUntouched DEF Stages
  <2>3. Preparing' = Preparing
    BY <1>0, <2>1 DEF Preparing, TypeOK
  <2>4. SubmittedAreOnChain'
    BY <1>0, <2>1 DEF SubmittedAreOnChain, OnChain, TypeOK, pipelineVars, chainVars
  <2>5. NoSilentHole'
    BY <2>1, <2>3 DEF NoSilentHole, Holders, pipelineVars, chainVars
  <2> QED
    BY <2>2, <2>4, <2>5
<1>2. ASSUME ReadCount(s) PROVE HoleInv'
  <2>1. PICK c \in count..(count + Cardinality(mempool)) :
          IsPendingCount(c) /\ fetched' = [fetched EXCEPT ![s] = c]
    BY <1>2 DEF ReadCount
  <2>2. /\ UNCHANGED <<pipelineVars, nonceOf, chainVars>>
        /\ s \notin OnChain /\ s \notin Preparing /\ s \notin inFlight
        /\ pc' = [pc EXCEPT ![s] = "adopting"]
    BY <1>2 DEF ReadCount, Goto, OnChainAreSent, SentStages, Preparing,
         TrackedArePastSubmission
  <2>3. \A n \in count..(fetched'[s] - 1) : Covered(n)
    BY <1>0, <2>1 DEF IsPendingCount, Taken, Covered, TypeOK
  <2>4. \A t \in Sends \ {s} : nonceOf'[t] = nonceOf[t] /\ fetched'[t] = fetched[t]
    BY <1>0, <2>1, <2>2 DEF TypeOK
  <2>5. OnChainAreSent' /\ MinedAreConsumed' /\ FetchedAreCovered'
    BY <2>2, <2>3, <2>4, ChainUntouched DEF Stages
  <2>6. Preparing' = Preparing
    BY <1>0, <2>2 DEF Preparing, TypeOK
  <2>7. SubmittedAreOnChain'
    BY <1>0, <2>2 DEF SubmittedAreOnChain, OnChain, TypeOK, pipelineVars, chainVars
  <2>8. NoSilentHole'
    BY <2>2, <2>6 DEF NoSilentHole, Holders, pipelineVars, chainVars
  <2> QED
    BY <2>5, <2>7, <2>8
<1>3. ASSUME Adopt(s) PROVE HoleInv'
  <2>1. /\ UNCHANGED <<nonceOf, fetched, chainVars>>
        /\ s \notin OnChain /\ s \notin Preparing /\ s \notin inFlight
        /\ pc[s] = "adopting" /\ pc' = [pc EXCEPT ![s] = "simulating"]
        /\ inFlight' = inFlight
    BY <1>3 DEF Adopt, Goto, OnChainAreSent, SentStages, Preparing,
         TrackedArePastSubmission, ResyncNonce, pipelineVars
  <2>2. OnChainAreSent' /\ MinedAreConsumed' /\ FetchedAreCovered'
    BY <2>1, ChainUntouched DEF Stages
  <2>3. Preparing' = Preparing
    BY <1>0, <2>1 DEF Preparing, TypeOK
  <2>4. SubmittedAreOnChain'
    BY <1>0, <2>1 DEF SubmittedAreOnChain, OnChain, TypeOK, chainVars
  <2>5. NoSilentHole'
    <3>1. CASE desynced /\ CanResync
      <4>1. next' = fetched[s]
        BY <1>3, <3>1 DEF Adopt, ResyncNonce, ResyncManager
      <4>2. \A n \in count..(next' - 1) : Covered(n)
        BY <2>1, <4>1 DEF FetchedAreCovered
      <4>3. UNCHANGED <<count, mempool, lost, nonceOf>>
        BY <2>1 DEF chainVars
      <4> QED
        BY <4>2, <4>3 DEF NoSilentHole, Covered
    <3>2. CASE ~(desynced /\ CanResync)
      <4>1. UNCHANGED pipelineVars
        BY <1>3, <3>2 DEF Adopt
      <4> QED
        BY <2>1, <2>3, <4>1 DEF NoSilentHole, Holders, pipelineVars, chainVars
    <3> QED
      BY <3>1, <3>2
  <2> QED
    BY <2>2, <2>4, <2>5
<1>4. ASSUME Prepare(s) PROVE HoleInv'
  <2>1. /\ UNCHANGED <<fetched, chainVars, inFlight, desynced>>
        /\ s \notin OnChain /\ s \notin Preparing /\ s \notin inFlight
        /\ pc' = [pc EXCEPT ![s] = "signing"]
        /\ nonceOf' = [nonceOf EXCEPT ![s] = next]
        /\ next' = next + 1
    BY <1>4 DEF Prepare, Goto, OnChainAreSent, SentStages, Preparing,
         TrackedArePastSubmission, PrepareAcquires, Acquire
  <2>2. \A t \in Sends \ {s} : nonceOf'[t] = nonceOf[t] /\ fetched'[t] = fetched[t]
    BY <1>0, <2>1 DEF TypeOK
  <2>3. OnChainAreSent' /\ MinedAreConsumed' /\ FetchedAreCovered'
    BY <2>1, <2>2, ChainUntouched DEF Stages
  <2>4. Preparing' = Preparing \cup {s} /\ nonceOf'[s] = next
    BY <1>0, <2>1 DEF Preparing, TypeOK
  <2>5. SubmittedAreOnChain'
    BY <1>0, <2>1 DEF SubmittedAreOnChain, OnChain, TypeOK, chainVars
  <2>6. NoSilentHole'
    <3>1. SUFFICES ASSUME ~desynced', NEW n \in count'..(next' - 1)
                   PROVE \E t \in (Holders \cup mempool \cup lost)' : nonceOf'[t] = n
      BY DEF NoSilentHole
    <3>2. CASE n = next
      BY <2>4, <3>2 DEF Holders
    <3>3. CASE n # next
      <4>1. n \in count..(next - 1)
        BY <1>0, <2>1, <3>3 DEF chainVars, TypeOK
      <4>2. PICK t \in Holders \cup mempool \cup lost : nonceOf[t] = n
        BY <2>1, <3>1, <4>1 DEF NoSilentHole
      <4>3. t \in Sends \ {s}
        BY <1>0, <2>1, <4>2 DEF Holders, Preparing, OnChain, TypeOK
      <4> QED
        BY <2>1, <2>2, <2>4, <4>2, <4>3 DEF Holders, chainVars
    <3> QED
      BY <3>2, <3>3
  <2> QED
    BY <2>3, <2>5, <2>6
<1>5. ASSUME SigningFails(s) PROVE HoleInv'
  <2>1. /\ UNCHANGED <<nonceOf, fetched, chainVars, inFlight>>
        /\ s \notin OnChain /\ s \in Preparing
        /\ pc' = [pc EXCEPT ![s] = "returned"]
        /\ next' = IF Rewinds(nonceOf[s]) THEN nonceOf[s] ELSE next
        /\ desynced' = (desynced \/ ~Rewinds(nonceOf[s]))
    BY <1>5 DEF SigningFails, Goto, OnChainAreSent, SentStages, Preparing,
         AbandonPrepared, Release
  <2>2. OnChainAreSent' /\ MinedAreConsumed' /\ FetchedAreCovered'
    BY <2>1, ChainUntouched DEF Stages
  <2>3. Preparing' = Preparing \ {s}
    BY <1>0, <2>1 DEF Preparing, TypeOK
  <2>4. SubmittedAreOnChain'
    BY <1>0, <2>1 DEF SubmittedAreOnChain, OnChain, TypeOK, chainVars
  <2>5. NoSilentHole'
    <3>1. SUFFICES ASSUME ~desynced', NEW n \in count'..(next' - 1)
                   PROVE \E t \in (Holders \cup mempool \cup lost)' : nonceOf'[t] = n
      BY DEF NoSilentHole
    <3>2. ~desynced /\ next = nonceOf[s] + 1 /\ next' = nonceOf[s] /\ count' = count
      BY <2>1, <3>1 DEF Rewinds, chainVars
    <3>3. n \in count..(next - 1) /\ n # nonceOf[s]
      BY <1>0, <3>2 DEF TypeOK
    <3>4. PICK t \in Holders \cup mempool \cup lost : nonceOf[t] = n
      BY <3>2, <3>3 DEF NoSilentHole
    <3>5. t # s
      BY <3>3, <3>4
    <3> QED
      BY <2>1, <2>3, <3>4, <3>5 DEF Holders, chainVars
  <2> QED
    BY <2>2, <2>4, <2>5
<1>6. ASSUME BroadcastAccepted(s) \/ BroadcastErrs(s) PROVE HoleInv'
  <2>1. /\ UNCHANGED <<pipelineVars, nonceOf, fetched, count, mined, lost>>
        /\ s \notin OnChain /\ s \in Preparing /\ s \notin inFlight
        /\ \E to \in {"accepted", "refused"} : pc' = [pc EXCEPT ![s] = to]
        /\ mempool' = mempool \/ mempool' = mempool \cup {s}
        /\ pc'[s] = "accepted" => mempool' = mempool \cup {s}
    BY <1>0, <1>6 DEF BroadcastAccepted, BroadcastErrs, Goto, OnChainAreSent,
         SentStages, Preparing, TrackedArePastSubmission, TypeOK
  <2>2. /\ OnChain' \subseteq OnChain \cup {s} /\ OnChain \subseteq OnChain'
        /\ mempool \subseteq mempool'
    BY <2>1 DEF OnChain
  <2>3. OnChainAreSent'
    BY <1>0, <2>1, <2>2 DEF OnChainAreSent, SentStages, TypeOK, OnChain
  <2>4. MinedAreConsumed'
    BY <2>1 DEF MinedAreConsumed
  <2>5. FetchedAreCovered'
    BY <1>0, <2>1, <2>2 DEF FetchedAreCovered, Covered, TypeOK
  <2>6. SubmittedAreOnChain'
    BY <1>0, <2>1, <2>2 DEF SubmittedAreOnChain, OnChain, TypeOK, pipelineVars
  <2>7. Preparing' = Preparing
    BY <1>0, <2>1 DEF Preparing, TypeOK
  <2>8. NoSilentHole'
    BY <2>1, <2>2, <2>7 DEF NoSilentHole, Holders, pipelineVars
  <2> QED
    BY <2>3, <2>4, <2>5, <2>6, <2>8
<1>7. ASSUME BroadcastFailed(s) PROVE HoleInv'
  <2>1. /\ UNCHANGED <<nonceOf, fetched, chainVars, inFlight>>
        /\ pc' = [pc EXCEPT ![s] = "returned"] /\ desynced' = TRUE
    BY <1>7 DEF BroadcastFailed, Goto, MarkDesyncedPrepared
  <2>2. OnChainAreSent' /\ MinedAreConsumed' /\ FetchedAreCovered'
    BY <2>1, ChainUntouched DEF Stages, SentStages
  <2>3. SubmittedAreOnChain'
    BY <1>0, <2>1 DEF SubmittedAreOnChain, OnChain, TypeOK, chainVars
  <2> QED
    BY <2>1, <2>2, <2>3 DEF NoSilentHole
<1>8. ASSUME Submitted(s) PROVE HoleInv'
  <2>1. /\ UNCHANGED <<nonceOf, fetched, chainVars, next, desynced>>
        /\ pc[s] = "accepted" /\ pc' = [pc EXCEPT ![s] = "waiting"]
        /\ inFlight' = inFlight \cup {s}
    BY <1>8 DEF Submitted, Goto, RecordSubmission, Track
  <2>2. OnChainAreSent' /\ MinedAreConsumed' /\ FetchedAreCovered'
    BY <2>1, ChainUntouched DEF Stages, SentStages
  <2>3. SubmittedAreOnChain'
    BY <1>0, <2>1 DEF SubmittedAreOnChain, OnChain, TypeOK, chainVars
  <2>4. Holders' = Holders
    BY <1>0, <2>1 DEF Holders, Preparing, TypeOK
  <2>5. NoSilentHole'
    BY <2>1, <2>4 DEF NoSilentHole, chainVars
  <2> QED
    BY <2>2, <2>3, <2>5
<1>9. ASSUME Receipt(s) \/ ReceiptTimeout(s) PROVE HoleInv'
  <2>1. /\ UNCHANGED <<nonceOf, fetched, chainVars, next>>
        /\ pc' = [pc EXCEPT ![s] = "returned"] /\ pc[s] = "waiting"
        /\ inFlight' = inFlight \ {s}
        /\ desynced' = TRUE \/ (desynced' = desynced /\ s \in mined)
    <3>1. CASE Receipt(s)
      BY <3>1 DEF Receipt, Goto, Resolve, Confirm, managerVars
    <3>2. CASE ReceiptTimeout(s)
      BY <3>2 DEF ReceiptTimeout, Goto, Resolve, Confirm, managerVars
    <3> QED
      BY <1>9, <3>1, <3>2
  <2>2. OnChainAreSent' /\ MinedAreConsumed' /\ FetchedAreCovered'
    BY <2>1, ChainUntouched DEF Stages, SentStages
  <2>3. SubmittedAreOnChain'
    BY <1>0, <2>1 DEF SubmittedAreOnChain, OnChain, TypeOK, chainVars
  <2>4. NoSilentHole'
    <3>1. SUFFICES ASSUME ~desynced', NEW n \in count'..(next' - 1)
                   PROVE \E t \in (Holders \cup mempool \cup lost)' : nonceOf'[t] = n
      BY DEF NoSilentHole
    <3>2. ~desynced /\ s \in mined /\ n \in count..(next - 1)
      BY <2>1, <3>1 DEF chainVars
    <3>3. PICK t \in Holders \cup mempool \cup lost : nonceOf[t] = n
      BY <3>2 DEF NoSilentHole
    <3>4. nonceOf[s] < count /\ nonceOf[s] \in Nat /\ count \in Nat
      BY <1>0, <3>2 DEF MinedAreConsumed, TypeOK
    <3>5. t # s
      BY <3>2, <3>3, <3>4
    <3>6. t \in (Holders \cup mempool \cup lost)'
      BY <1>0, <2>1, <3>3, <3>5 DEF Holders, Preparing, TypeOK, chainVars
    <3> QED
      BY <2>1, <3>3, <3>6
  <2> QED
    BY <2>2, <2>3, <2>4
<1> QED
  BY <1>1, <1>2, <1>3, <1>4, <1>5, <1>6, <1>7, <1>8, <1>9 DEF Progress

\* The steps of the callers, of the node, and of the process.
LEMMA NextHoleInv == HoleInv /\ [Next]_vars => HoleInv'
<1> SUFFICES ASSUME HoleInv, [Next]_vars PROVE HoleInv'
  OBVIOUS
<1>0. IInv' /\ TypeOK
  BY NextIInv DEF HoleInv, IInv
<1> USE DEF HoleInv
<1>1. CASE UNCHANGED vars
  BY <1>0, <1>1 DEF vars, OnChain, OnChainAreSent, MinedAreConsumed,
     SubmittedAreOnChain, FetchedAreCovered, Covered, NoSilentHole, Holders, Preparing
<1>2. CASE Restart
  <2>1. /\ UNCHANGED <<nonceOf, fetched, count, mempool, mined, lost>>
        /\ inFlight' = {} /\ next' = count
        /\ pc' = [t \in Sends |-> IF t \in Running THEN "returned" ELSE pc[t]]
    BY <1>2 DEF Restart, ReplacePipeline, ResyncManager, chainVars
  <2>2. OnChainAreSent'
    BY <1>0, <2>1 DEF OnChainAreSent, OnChain, SentStages, TypeOK
  <2>3. MinedAreConsumed'
    BY <2>1 DEF MinedAreConsumed
  <2>4. SubmittedAreOnChain' /\ FetchedAreCovered'
    <3>1. \A t \in Sends : pc'[t] \in {"idle", "returned", "dropped"}
      BY <1>0, <2>1 DEF Running, TypeOK
    <3> QED
      BY <2>1, <3>1 DEF SubmittedAreOnChain, FetchedAreCovered
  <2>5. NoSilentHole'
    BY <1>0, <2>1 DEF NoSilentHole, TypeOK
  <2> QED
    BY <1>0, <2>2, <2>3, <2>4, <2>5
<1>3. ASSUME NEW s \in Sends, ResolveTx(s) \/ FailTx(s) PROVE HoleInv'
  <2>1. /\ UNCHANGED <<sendVars, chainVars, desynced>>
        /\ s \in inFlight /\ inFlight' = inFlight \ {s}
    BY <1>3 DEF ResolveTx, FailTx, Resolve, Fail
  <2>2. next' = next \/ (next = nonceOf[s] + 1 /\ next' = nonceOf[s])
    BY <1>3, <2>1 DEF ResolveTx, FailTx, Resolve, Fail, Confirm, Release, Rewinds,
       managerVars
  <2>3. OnChainAreSent' /\ MinedAreConsumed' /\ FetchedAreCovered' /\ SubmittedAreOnChain'
    BY <2>1 DEF OnChainAreSent, MinedAreConsumed, FetchedAreCovered,
       SubmittedAreOnChain, OnChain, Covered, sendVars, chainVars
  <2>4. NoSilentHole'
    <3>1. SUFFICES ASSUME ~desynced', NEW n \in count'..(next' - 1)
                   PROVE \E t \in (Holders \cup mempool \cup lost)' : nonceOf'[t] = n
      BY DEF NoSilentHole
    <3>2. n \in count..(next - 1) /\ ~desynced
      BY <1>0, <2>1, <2>2, <3>1 DEF chainVars, TypeOK
    <3>3. PICK t \in Holders \cup mempool \cup lost : nonceOf[t] = n
      BY <3>2 DEF NoSilentHole
    <3>4. s \in mempool \cup lost \/ nonceOf[s] < count
      BY <1>0, <2>1 DEF SubmittedAreOnChain, MinedAreConsumed, OnChain, TypeOK
    <3>5. t # s \/ s \in mempool \cup lost
      BY <1>0, <3>2, <3>3, <3>4 DEF TypeOK
    <3>6. t \in (Holders \cup mempool \cup lost)'
      BY <2>1, <3>3, <3>5 DEF Holders, Preparing, sendVars, chainVars
    <3> QED
      BY <2>1, <3>3, <3>6 DEF sendVars
  <2> QED
    BY <1>0, <2>3, <2>4
<1>4. ASSUME NEW s \in Sends, Mine(s) PROVE HoleInv'
  <2>1. /\ UNCHANGED <<pipelineVars, sendVars, lost>>
        /\ s \in mempool /\ nonceOf[s] = count /\ count' = count + 1
        /\ mempool' = mempool \ {s} /\ mined' = mined \cup {s}
    BY <1>4 DEF Mine
  <2>2. OnChain' = OnChain /\ Holders' = Holders
    BY <2>1 DEF OnChain, Holders, Preparing, pipelineVars, sendVars
  <2>3. OnChainAreSent' /\ SubmittedAreOnChain'
    BY <2>1, <2>2 DEF OnChainAreSent, SubmittedAreOnChain, sendVars, pipelineVars
  <2>4. MinedAreConsumed'
    BY <1>0, <2>1 DEF MinedAreConsumed, sendVars, TypeOK
  <2>5. \A n \in Nat : n >= count + 1 /\ Covered(n) => Covered(n)'
    BY <1>0, <2>1 DEF Covered, sendVars, TypeOK
  <2>6. FetchedAreCovered'
    <3>1. SUFFICES ASSUME NEW t \in Sends, pc[t] = "adopting",
                          NEW n \in (count + 1)..(fetched[t] - 1)
                   PROVE Covered(n)'
      BY <2>1 DEF FetchedAreCovered, sendVars
    <3>2. n \in count..(fetched[t] - 1) /\ n \in Nat /\ n >= count + 1
      BY <1>0, <3>1 DEF TypeOK
    <3> QED
      BY <2>5, <3>1, <3>2 DEF FetchedAreCovered
  <2>7. NoSilentHole'
    <3>1. SUFFICES ASSUME ~desynced', NEW n \in count'..(next' - 1)
                   PROVE \E t \in (Holders \cup mempool \cup lost)' : nonceOf'[t] = n
      BY DEF NoSilentHole
    <3>2. n \in count..(next - 1) /\ ~desynced /\ n # count
      BY <1>0, <2>1, <3>1 DEF pipelineVars, TypeOK
    <3>3. PICK t \in Holders \cup mempool \cup lost : nonceOf[t] = n
      BY <3>2 DEF NoSilentHole
    <3> QED
      BY <2>1, <2>2, <3>2, <3>3 DEF sendVars
  <2> QED
    BY <1>0, <2>3, <2>4, <2>6, <2>7
<1>5. ASSUME NEW s \in Sends, Enter(s) \/ Progress(s) PROVE HoleInv'
  BY <1>0, <1>5, ProgressHoleInv
<1>6. ASSUME NEW s \in Sends, Evict(s) PROVE HoleInv'
  <2>1. /\ UNCHANGED <<pipelineVars, sendVars, count, mined>>
        /\ s \in mempool /\ mempool' = mempool \ {s} /\ lost' = lost \cup {s}
    BY <1>6 DEF Evict
  <2>2. /\ OnChain' = OnChain /\ Holders' = Holders
        /\ mempool' \cup lost' = mempool \cup lost
    BY <2>1 DEF OnChain, Holders, Preparing, pipelineVars, sendVars
  <2>3. OnChainAreSent' /\ SubmittedAreOnChain' /\ MinedAreConsumed'
    BY <2>1, <2>2 DEF OnChainAreSent, SubmittedAreOnChain, MinedAreConsumed, sendVars, pipelineVars
  <2>4. FetchedAreCovered'
    BY <2>1, <2>2 DEF FetchedAreCovered, Covered, sendVars
  <2>5. NoSilentHole'
    BY <2>1, <2>2 DEF NoSilentHole, sendVars, pipelineVars
  <2> QED
    BY <1>0, <2>3, <2>4, <2>5
<1>7. ASSUME NEW s \in Sends, Drop(s) PROVE HoleInv'
  <2>1. /\ UNCHANGED <<pipelineVars, nonceOf, fetched, count, mempool, mined>>
        /\ s \in Running /\ pc' = [pc EXCEPT ![s] = "dropped"]
        /\ lost' = lost \cup ({s} \cap Preparing)
    BY <1>7 DEF Drop
  <2>2. Preparing' = Preparing \ {s} /\ inFlight' = inFlight
    BY <1>0, <2>1 DEF Preparing, TypeOK, pipelineVars
  <2>3. OnChainAreSent'
    BY <1>0, <2>1 DEF OnChainAreSent, OnChain, SentStages, Preparing, TypeOK
  <2>4. SubmittedAreOnChain' /\ MinedAreConsumed'
    BY <1>0, <2>1 DEF SubmittedAreOnChain, MinedAreConsumed, OnChain, TypeOK, pipelineVars
  <2>5. FetchedAreCovered'
    BY <1>0, <2>1 DEF FetchedAreCovered, Covered, TypeOK
  <2>6. (Holders \cup mempool \cup lost) \subseteq (Holders \cup mempool \cup lost)'
    BY <2>1, <2>2 DEF Holders
  <2>7. NoSilentHole'
    BY <2>1, <2>6 DEF NoSilentHole, pipelineVars
  <2> QED
    BY <1>0, <2>3, <2>4, <2>5, <2>7
<1> QED
  BY <1>1, <1>2, <1>3, <1>4, <1>5, <1>6, <1>7 DEF Next

\* Whatever the node evicts, the callers drop and the process forgets, a nonce
\* that nothing will use and that no eviction or dropped future explains is
\* flagged (hft/pipeline.rs, "Desync and recovery").
THEOREM HolesAreFlagged == Spec => []NoSilentHole
<1>1. HoleInv => NoSilentHole
  BY DEF HoleInv
<1>2. HoleInv /\ [Next]_vars => HoleInv'
  BY NextHoleInv
<1> QED
  BY <1>1, <1>2, InitHoleInv, PTL DEF Spec

-----------------------------------------------------------------------------
(***************************************************************************)
(* The refinement of NonceSequence.  Whatever the step, the set of nonces  *)
(* held changes by one send at most, and a send holds one nonce.           *)
(***************************************************************************)

LEMMA OwnedUnchanged ==
  ASSUME Holders' = Holders, \A s \in Holders : nonceOf'[s] = nonceOf[s]
  PROVE  OwnedNonces' = OwnedNonces
  BY DEF OwnedNonces

LEMMA OwnedLosesOne ==
  ASSUME NEW s \in Holders, Holders' = Holders \ {s}, nonceOf' = nonceOf
  PROVE  /\ <<s, nonceOf[s]>> \in OwnedNonces
         /\ OwnedNonces' = OwnedNonces \ {<<s, nonceOf[s]>>}
  BY DEF OwnedNonces

\* A holder lets go of its nonce and the counter stays: the nonce is retired.
LEMMA RetireStep ==
  ASSUME NEW s \in Sends, Holders' = Holders \ {s}, nonceOf' = nonceOf, next' = next
  PROVE  [Sequence!Next]_<<next, OwnedNonces>>
<1>1. CASE s \in Holders
  BY <1>1, OwnedLosesOne DEF Sequence!Next, Sequence!Retire
<1>2. CASE s \notin Holders
  BY <1>2, OwnedUnchanged
<1> QED
  BY <1>1, <1>2

\* A holder releases its nonce: given back when it was the last one handed out.
LEMMA ReleaseStep ==
  ASSUME NEW s \in Sends, s \in Holders, Holders' = Holders \ {s}, nonceOf' = nonceOf,
         Release(nonceOf[s])
  PROVE  [Sequence!Next]_<<next, OwnedNonces>>
<1>1. CASE Rewinds(nonceOf[s])
  <2>1. next = nonceOf[s] + 1 /\ next' = nonceOf[s]
    BY <1>1 DEF Release, Rewinds
  <2>2. Sequence!GiveBack(s)
    BY <2>1, OwnedLosesOne DEF Sequence!GiveBack
  <2> QED
    BY <2>2 DEF Sequence!Next
<1>2. CASE ~Rewinds(nonceOf[s])
  BY <1>2, RetireStep DEF Release
<1> QED
  BY <1>1, <1>2

LEMMA NextImplements == IInv /\ [Next]_vars => [Sequence!Next]_<<next, OwnedNonces>>
<1> SUFFICES ASSUME IInv, [Next]_vars PROVE [Sequence!Next]_<<next, OwnedNonces>>
  OBVIOUS
<1>0. /\ TypeOK /\ TypeOK' /\ PreparingCounted /\ TrackedArePastSubmission
      /\ \A s \in inFlight : s \notin Preparing
  BY NextTypeOK DEF IInv, TrackedArePastSubmission, Preparing
<1>1. CASE UNCHANGED vars
  BY <1>1, OwnedUnchanged DEF vars, Holders, Preparing
<1>2. CASE Restart
  <2>1. Holders' = {}
    BY <1>0, <1>2 DEF Restart, ReplacePipeline, Holders, Preparing, Running, TypeOK
  <2>2. OwnedNonces' = {}
    BY <2>1 DEF OwnedNonces
  <2> QED
    BY <1>0, <2>2 DEF Sequence!Next, Sequence!StartAgain, TypeOK
<1>3. ASSUME NEW s \in Sends,
             \/ Enter(s) \/ ReadCount(s) \/ ReadCountFails(s) \/ Unprepared(s)
             \/ TooManyInFlight(s) \/ BroadcastAccepted(s) \/ BroadcastErrs(s)
             \/ Mine(s) \/ Evict(s)
      PROVE [Sequence!Next]_<<next, OwnedNonces>>
  <2>1. UNCHANGED <<next, inFlight, nonceOf>>
    BY <1>3 DEF Enter, ReadCount, ReadCountFails, Unprepared, TooManyInFlight,
       BroadcastAccepted, BroadcastErrs, Mine, Evict, pipelineVars, sendVars
  <2>2. Preparing' = Preparing
    <3>1. CASE Mine(s) \/ Evict(s)
      BY <3>1 DEF Mine, Evict, sendVars, Preparing
    <3>2. CASE ~(Mine(s) \/ Evict(s))
      BY <1>0, <1>3, <3>2 DEF Enter, ReadCount, ReadCountFails, Unprepared,
         TooManyInFlight, BroadcastAccepted, BroadcastErrs, Goto, Preparing, TypeOK
    <3> QED
      BY <3>1, <3>2
  <2> QED
    BY <2>1, <2>2, OwnedUnchanged DEF Holders
<1>4. ASSUME NEW s \in Sends, Adopt(s) PROVE [Sequence!Next]_<<next, OwnedNonces>>
  <2>1. Holders' = Holders /\ nonceOf' = nonceOf
    BY <1>0, <1>4 DEF Adopt, Goto, ResyncNonce, pipelineVars, Holders, Preparing, TypeOK
  <2>2. OwnedNonces' = OwnedNonces
    BY <2>1, OwnedUnchanged
  <2>3. CASE desynced /\ CanResync
    <3>1. Holders = {} /\ next' \in Nat
      BY <1>0, <2>3, ResyncableIsUnheld DEF TypeOK
    <3>2. Sequence!Reset
      BY <2>2, <3>1 DEF Sequence!Reset, OwnedNonces
    <3> QED
      BY <3>2 DEF Sequence!Next
  <2>4. CASE ~(desynced /\ CanResync)
    BY <1>4, <2>2, <2>4 DEF Adopt, pipelineVars
  <2> QED
    BY <2>3, <2>4
<1>5. ASSUME NEW s \in Sends, Prepare(s) PROVE [Sequence!Next]_<<next, OwnedNonces>>
  <2>1. /\ pc[s] = "simulating" /\ pc' = [pc EXCEPT ![s] = "signing"]
        /\ nonceOf' = [nonceOf EXCEPT ![s] = next]
        /\ next' = next + 1 /\ inFlight' = inFlight
    BY <1>5 DEF Prepare, Goto, PrepareAcquires, Acquire
  <2>2. s \notin Holders /\ Holders' = Holders \cup {s}
    BY <1>0, <2>1 DEF Holders, Preparing, TrackedArePastSubmission, TypeOK
  <2>3. \A t \in Holders : nonceOf'[t] = nonceOf[t]
    BY <1>0, <2>1, <2>2 DEF TypeOK
  <2>4. OwnedNonces' = OwnedNonces \cup {<<s, next>>}
    BY <1>0, <2>1, <2>2, <2>3 DEF OwnedNonces, TypeOK
  <2>5. s \notin Sequence!NonceOwners
    BY <2>2 DEF Sequence!NonceOwners, OwnedNonces
  <2> QED
    BY <2>1, <2>4, <2>5 DEF Sequence!Next, Sequence!Assign
<1>6. ASSUME NEW s \in Sends, SigningFails(s) PROVE [Sequence!Next]_<<next, OwnedNonces>>
  <2>1. Release(nonceOf[s]) /\ inFlight' = inFlight /\ nonceOf' = nonceOf
    BY <1>6 DEF SigningFails, AbandonPrepared
  <2>2. s \in Holders /\ Holders' = Holders \ {s}
    BY <1>0, <1>6, <2>1 DEF SigningFails, Goto, Holders, Preparing, TypeOK
  <2> QED
    BY <2>1, <2>2, ReleaseStep
<1>7. ASSUME NEW s \in Sends, BroadcastFailed(s) PROVE [Sequence!Next]_<<next, OwnedNonces>>
  <2>1. UNCHANGED <<next, inFlight, nonceOf>>
    BY <1>7 DEF BroadcastFailed, MarkDesyncedPrepared
  <2>2. Holders' = Holders \ {s}
    BY <1>0, <1>7, <2>1 DEF BroadcastFailed, Goto, Holders, Preparing, TypeOK
  <2> QED
    BY <2>1, <2>2, RetireStep
<1>8. ASSUME NEW s \in Sends, Submitted(s) PROVE [Sequence!Next]_<<next, OwnedNonces>>
  <2>1. next' = next /\ nonceOf' = nonceOf /\ inFlight' = inFlight \cup {s}
    BY <1>8 DEF Submitted, RecordSubmission, Track
  <2>2. Holders' = Holders
    BY <1>0, <1>8, <2>1 DEF Submitted, Goto, Holders, Preparing, TypeOK
  <2> QED
    BY <2>1, <2>2, OwnedUnchanged
<1>9. ASSUME NEW s \in Sends, Receipt(s) \/ ReceiptTimeout(s) \/ ResolveTx(s)
      PROVE [Sequence!Next]_<<next, OwnedNonces>>
  <2>1. Resolve(s, nonceOf[s]) /\ nonceOf' = nonceOf
    BY <1>9 DEF Receipt, ReceiptTimeout, ResolveTx, sendVars
  <2>2. next' = next /\ inFlight' = inFlight \ {s}
    BY <2>1 DEF Resolve, Confirm, managerVars
  <2>3. Preparing' = Preparing
    BY <1>0, <1>9 DEF Receipt, ReceiptTimeout, ResolveTx, Goto, Preparing, sendVars, TypeOK
  <2>4. s \notin Preparing
    BY <1>0, <1>9 DEF Receipt, ReceiptTimeout, ResolveTx, Goto, Preparing
  <2> QED
    BY <2>1, <2>2, <2>3, <2>4, RetireStep DEF Holders
<1>10. ASSUME NEW s \in Sends, FailTx(s) PROVE [Sequence!Next]_<<next, OwnedNonces>>
  <2>1. /\ Release(nonceOf[s]) /\ nonceOf' = nonceOf /\ s \in inFlight
        /\ inFlight' = inFlight \ {s} /\ Preparing' = Preparing
    BY <1>10 DEF FailTx, Fail, sendVars, Preparing
  <2> QED
    BY <1>0, <2>1, ReleaseStep DEF Holders
<1>11. ASSUME NEW s \in Sends, Drop(s) PROVE [Sequence!Next]_<<next, OwnedNonces>>
  <2>1. UNCHANGED <<next, inFlight, nonceOf>> /\ pc' = [pc EXCEPT ![s] = "dropped"]
    BY <1>11 DEF Drop, pipelineVars
  <2>2. CASE s \in inFlight
    <3>1. Preparing' = Preparing
      BY <1>0, <2>1, <2>2 DEF Preparing, TypeOK
    <3> QED
      BY <2>1, <3>1, OwnedUnchanged DEF Holders
  <2>3. CASE s \notin inFlight
    <3>1. Preparing' = Preparing \ {s}
      BY <1>0, <2>1 DEF Preparing, TypeOK
    <3> QED
      BY <2>1, <2>3, <3>1, RetireStep DEF Holders
  <2> QED
    BY <2>2, <2>3
<1> QED
  BY <1>1, <1>2, <1>3, <1>4, <1>5, <1>6, <1>7, <1>8, <1>9, <1>10, <1>11
     DEF Next, Progress

\* Whatever the callers, the node and the process do, the pipeline hands out
\* nonces as NonceSequence says.
THEOREM SendPathImplements == Spec => ImplementsNonceSequence
<1>1. Init => Sequence!Init
  BY DEF Init, PipelineInit, ManagerInit, Sequence!Init, OwnedNonces, Holders, Preparing
<1>2. IInv /\ [Next]_vars => [Sequence!Next]_<<next, OwnedNonces>>
  BY NextImplements
<1> QED
  BY <1>1, <1>2, SendPathInvariant, PTL DEF Spec, ImplementsNonceSequence, Sequence!Spec

=============================================================================
