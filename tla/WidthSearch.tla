---------------------------- MODULE WidthSearch ----------------------------
(***************************************************************************)
(* WidthSearch (history/scan.rs): the width of the next eth_getLogs        *)
(* request, learned from the node's answers.                               *)
(*                                                                         *)
(* A width is at least 1, so 0 stands for the code's None.                 *)
(***************************************************************************)
EXTENDS Integers

CONSTANTS
    InitialSpan,    \* LOG_SCAN_INITIAL_SPAN
    MaxSpan,        \* LOG_SCAN_MAX_SPAN
    RetestFirst,    \* RETEST_AFTER.0
    RetestCap       \* RETEST_AFTER.1

ASSUME WidthAssumption ==
    /\ InitialSpan \in Nat \ {0}
    /\ MaxSpan \in Nat \ {0}
    /\ InitialSpan <= MaxSpan
    /\ RetestFirst \in Nat \ {0}
    /\ RetestCap \in Nat \ {0}

None == 0

Larger(a, b) == IF a >= b THEN a ELSE b
Smaller(a, b) == IF a <= b THEN a ELSE b

Search == [next : Nat,          \* width of the next request
           accepted : Nat,      \* widest accepted since the last contradiction
           rejected : Nat,      \* narrowest rejected since the last retest
           run : Nat,           \* accepted since the last rejection
           retest : Nat]        \* the run that triggers a retest of rejected

NewSearch == [next |-> InitialSpan, accepted |-> None, rejected |-> None,
              run |-> 0, retest |-> RetestFirst]

\* The midpoint, or accepted once the gap is within an eighth of it.
Probe(accepted, rejected) ==
    LET gap == rejected - accepted
    IN IF gap <= Larger(accepted \div 8, 1) THEN accepted
       ELSE accepted + gap \div 2

\* Faulty variant: a width that contradicts the rejection does not drop it.
Accepted_KeepsRejected(w, width) ==
    LET accepted == Larger(w.accepted, width)
    IN [w EXCEPT !.accepted = accepted, !.run = @ + 1,
                 !.next = IF w.rejected = None
                          THEN Smaller(MaxSpan, 2 * Larger(@, width))
                          ELSE Probe(accepted, w.rejected)]

Accepted(w, width) ==
    LET accepted == Larger(w.accepted, width)
        sparser == w.rejected # None /\ accepted >= w.rejected
        retests == w.rejected # None /\ ~sparser /\ w.run + 1 >= w.retest
        rejected == IF sparser \/ retests THEN None ELSE w.rejected
    IN [next |-> IF rejected = None
                 THEN Smaller(MaxSpan, 2 * Larger(w.next, width))
                 ELSE Probe(accepted, rejected),
        accepted |-> accepted,
        rejected |-> rejected,
        run |-> IF retests THEN 0 ELSE w.run + 1,
        retest |-> IF sparser THEN RetestFirst
                   ELSE IF retests THEN Smaller(RetestCap, 2 * w.retest)
                   ELSE w.retest]

\* Faulty variant: the width accepted elsewhere is not forgotten.
Rejected_KeepsAccepted(w, width) ==
    LET rejected == IF w.rejected = None THEN width ELSE Smaller(w.rejected, width)
    IN [w EXCEPT !.run = 0, !.rejected = rejected,
                 !.next = IF w.accepted = None THEN width \div 2
                          ELSE Probe(w.accepted, rejected)]

Rejected(w, width) ==
    LET denser == width <= w.accepted
        accepted == IF denser THEN None ELSE w.accepted
        rejected == IF w.rejected = None THEN width ELSE Smaller(w.rejected, width)
    IN [next |-> IF accepted = None THEN width \div 2 ELSE Probe(accepted, rejected),
        accepted |-> accepted,
        rejected |-> rejected,
        run |-> 0,
        retest |-> IF denser THEN RetestFirst ELSE w.retest]

=============================================================================
