---------------------------- MODULE NonceSequence ----------------------------
(***************************************************************************)
(* What the pipeline promises about an account's nonces, without its       *)
(* counters, maps and flags: nonces are handed out in order from a         *)
(* counter; the counter goes back by one when the owner of the last nonce  *)
(* returns it, and jumps to another value only when nobody owns a nonce or *)
(* when the process, and with it every owner, starts again.                *)
(***************************************************************************)
EXTENDS Naturals

CONSTANT Owners

VARIABLES
    counter,  \* the next nonce to hand out
    owned     \* pairs <<owner, nonce>>

NonceOwners == {o[1] : o \in owned}

Init ==
    /\ counter = 0
    /\ owned = {}

Assign(s) ==
    /\ s \notin NonceOwners
    /\ owned' = owned \cup {<<s, counter>>}
    /\ counter' = counter + 1

\* The nonce is used, or its fate is unknown: it is not handed out again.
Retire(s) ==
    /\ \E o \in owned : o[1] = s /\ owned' = owned \ {o}
    /\ UNCHANGED counter

GiveBack(s) ==
    \E o \in owned : /\ o[1] = s
                     /\ counter = o[2] + 1
                     /\ owned' = owned \ {o}
                     /\ counter' = o[2]

Reset ==
    /\ owned = {}
    /\ counter' \in Nat
    /\ UNCHANGED owned

StartAgain ==
    /\ owned' = {}
    /\ counter' \in Nat

Next ==
    \/ Reset
    \/ StartAgain
    \/ \E s \in Owners : Assign(s) \/ Retire(s) \/ GiveBack(s)

Spec == Init /\ [][Next]_<<counter, owned>>

=============================================================================
