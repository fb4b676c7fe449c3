-------------------------- MODULE MCTavilyKeyPool --------------------------
(* Two processes share two keys; leases last one tick and requests may take  *)
(* longer; windows last two ticks; clock readings are at most one tick late. *)
EXTENDS TavilyKeyPool, TLC

CONSTANTS c1, c2

MCStartIndex == (c1 :> 0) @@ (c2 :> SlotCount - 1)
=============================================================================
