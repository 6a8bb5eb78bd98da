------------------------------- MODULE MCTdma -------------------------------
(***************************************************************************)
(* Instances of Tdma: one cell per slot.                                   *)
(***************************************************************************)
EXTENDS Tdma

ThreeCells == 1..3
IdsInOrder == [c \in ThreeCells |-> c]
=============================================================================
