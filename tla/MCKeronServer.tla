----------------------------- MODULE MCKeronServer -----------------------------
(***************************************************************************)
(* Instances of KeronServer for TLC.  The workers are interchangeable, and *)
(* so are the slots: the safety runs use both symmetries.                  *)
(***************************************************************************)
EXTENDS KeronServer, TLC

Symmetry == Permutations(Workers) \cup Permutations(Slots)
================================================================================
