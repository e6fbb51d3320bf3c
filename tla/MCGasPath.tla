----------------------------- MODULE MCGasPath -----------------------------
(***************************************************************************)
(* Callers of one selector: a cheap call whose buffered estimate (12)      *)
(* satisfies the simulation of the second (11) and not its execution (13), *)
(* and fails the simulation of the third (13), which may pin a limit too   *)
(* low for its simulation or for its execution (15).                       *)
(***************************************************************************)
EXTENDS GasPath

CONSTANTS cheap, short, dear

CallSimulated(s) == CASE s = cheap -> 10 [] s = short -> 11 [] s = dear -> 13

CallConsumed(s) == CASE s = cheap -> 10 [] s = short -> 13 [] s = dear -> 15

CallPins(s) == IF s = dear THEN {12, 14} ELSE {}

=============================================================================
