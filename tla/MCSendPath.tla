------------------------------ MODULE MCSendPath ------------------------------
(* SendPath on small sets of sends. *)
EXTENDS SendPath, TLC

\* Sends are interchangeable: no action or property names one.
Symmetry == Permutations(Sends)

=============================================================================
