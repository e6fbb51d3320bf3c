----------------------------- MODULE MCLogScan -----------------------------
(***************************************************************************)
(* One block is dense: under the lower result cap it fits no request, and  *)
(* under the higher one no request that asks for two more.                 *)
(***************************************************************************)
EXTENDS LogScan

OneDense(s, b) == IF b = 2 THEN 3 ELSE 1

MovingCaps == {[span |-> 2, results |-> 4], [span |-> 4, results |-> 4],
               [span |-> 4, results |-> 2]}

=============================================================================
