------------------------- MODULE MCEndpointRouting -------------------------
(* EndpointRouting with the symmetries of its pools and of its readers.    *)
EXTENDS EndpointRouting, TLC

Symmetry ==
    Permutations(SharedPool) \cup Permutations(ReadPool)
        \cup Permutations(Requests \ Writes)
=============================================================================
