--------------------------- MODULE MCChainBackend ---------------------------
(* A chain of height two with one side block at height one.               *)
EXTENDS ChainBackend

CONSTANTS g, a1, a2, x1

MCBlocks == {g, a1, a2, x1}
MCNumber == [b \in MCBlocks |-> CASE b = g -> 0 [] b = x1 -> 1 [] b = a1 -> 1 [] b = a2 -> 2]

=============================================================================
