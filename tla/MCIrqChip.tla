------------------------------ MODULE MCIrqChip ------------------------------
(***************************************************************************)
(* Instances of IrqChip for TLC.                                           *)
(***************************************************************************)
EXTENDS IrqChip, TLC
Symmetry == Permutations(Remote) \cup Permutations(SgiId)
=============================================================================
