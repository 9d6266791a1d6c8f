--------------------------- MODULE MCImplicitProducer ---------------------------
(***************************************************************************)
(* Instances of ImplicitProducer for TLC.  The consumers are alike, and so *)
(* are the blocks that come from the heap.                                 *)
(***************************************************************************)
EXTENDS ImplicitProducer, TLC

Symmetry == Permutations(Consumers) \cup Permutations(HeapBlocks)
================================================================================
