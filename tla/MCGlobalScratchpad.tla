------------------------- MODULE MCGlobalScratchpad -------------------------
(* GlobalScratchpad with interchangeable threads and primitives. *)
EXTENDS GlobalScratchpad, TLC

CONSTANTS t1, t2, p1, p2, p3, p4

MCThreads == {t1, t2}
MCPrims == {p1, p2, p3, p4}
MCSymmetry == Permutations(MCThreads) \cup Permutations(MCPrims)
=============================================================================
