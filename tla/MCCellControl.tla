---------------------------- MODULE MCCellControl ----------------------------
(* Instances of CellControl: cells of one CPU each, as in every Erika        *)
(* configuration.                                                            *)
EXTENDS CellControl

OneCpuEach == [x \in Cell |-> IF x = "a" THEN {1} ELSE {2}]

\* Cell a is loaded and started; cell b only comes and goes next to it.
Commands == [x \in Cell |-> IF x = "a" THEN {"load", "start", "destroy"} ELSE {"destroy"}]
=============================================================================
