-------------------------- MODULE MCMemoryCentric --------------------------
(* Instances of MemoryCentric: the smallest with contention, and one with  *)
(* cores above and below a core that both owns and waits.                  *)
EXTENDS MemoryCentric
TwoCores   == 1..2
FourCores  == 1..4
UInt16 == 2^16
=============================================================================
