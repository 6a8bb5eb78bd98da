--------------------------- MODULE MCFixedPriority ---------------------------
(***************************************************************************)
(* The fixed-priority arbitration on the CPUs of a small machine.          *)
(***************************************************************************)
EXTENDS FixedPriority

\* Up to four cells beside the root cell: two waiting requests below an
\* owner and one above it.
SmallMachine == 0..4

UInt16 == 2^16
=============================================================================
