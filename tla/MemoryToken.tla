----------------------------- MODULE MemoryToken -----------------------------
(***************************************************************************)
(* What the memory arbitration promises its clients: one token, held by    *)
(* the highest ranked of the clients that currently ask for memory, and by *)
(* nobody only while nobody asks.  A client's rank is fixed for as long as *)
(* it asks.                                                                *)
(***************************************************************************)
EXTENDS Integers

CONSTANTS Client, Nobody

VARIABLES
  rank,       \* rank[c] > 0: client c asks for memory with this rank
  holder      \* the client that may access memory, or Nobody

tokenVars == <<rank, holder>>

Asking(r) == {c \in Client : r[c] > 0}

IsHolder(h, r) ==
  IF Asking(r) = {} THEN h = Nobody
                    ELSE /\ h \in Asking(r)
                         /\ \A c \in Asking(r) : r[c] <= r[h]

TokenInit ==
  /\ rank = [c \in Client |-> 0]
  /\ holder = Nobody

Ask(c) ==
  /\ rank'[c] \in Nat \ {0}
  /\ rank[c] \in {0, rank'[c]}
  /\ rank' = [rank EXCEPT ![c] = rank'[c]]
  /\ IsHolder(holder', rank')

Withdraw(c) ==
  /\ rank' = [rank EXCEPT ![c] = 0]
  /\ IsHolder(holder', rank')

TokenNext == \E c \in Client : Ask(c) \/ Withdraw(c)

TokenSpec == TokenInit /\ [][TokenNext]_tokenVars
=============================================================================
