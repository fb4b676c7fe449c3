------------------------- MODULE MCLocalLlmRuntime -------------------------
(* Three threads and a server whose first manifest allows one request at a time *)
(* and whose second allows two.                                               *)
EXTENDS LocalLlmRuntime, TLC

CONSTANTS narrow, wide

ConcurrencyMC == (narrow :> 1) @@ (wide :> 2)

Symmetry == Permutations(Callers) \cup Permutations(RequestIds)
=============================================================================
