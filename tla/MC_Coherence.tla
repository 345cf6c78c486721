----------------------------- MODULE MC_Coherence -----------------------------
(* Coherence on three caches and two blocks.                                   *)
EXTENDS Coherence

CONSTANTS p1, p2, p3, b1, b2

MC_Procs  == {p1, p2, p3}
MC_Blocks == {b1, b2}
===============================================================================
