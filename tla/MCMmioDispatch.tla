--------------------------- MODULE MCMmioDispatch ---------------------------
(* Four regions, two of them adjacent, and room for three. *)
EXTENDS MmioDispatch, TLC

Regions == 0 :> 2 @@ 2 :> 1 @@ 4 :> 2 @@ 6 :> 1

\* Whole and partial accesses, one across two regions, one past the end of a
\* region and one between regions.
Accesses == [address : {0, 4}, size : {1, 2}] \cup
            {[address |-> 1, size |-> 2], [address |-> 2, size |-> 1],
             [address |-> 3, size |-> 1], [address |-> 5, size |-> 2]}
=============================================================================
