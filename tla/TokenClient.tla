---------------------------- MODULE TokenClient ----------------------------
(***************************************************************************)
(* What the guest of one core does with the memory token, seen from the    *)
(* hypervisor: the state the guest has on record (mem_arbit_status), the   *)
(* state the hypervisor has on record (hv), and the token interrupts       *)
(* between them.  ErikaCore implements this module for one core with all   *)
(* its tasks; MemoryCentric composes one such client per core with the     *)
(* arbitration.                                                            *)
(***************************************************************************)
VARIABLES mem_arbit_status, hv, irq, active

clientVars == <<mem_arbit_status, hv, irq, active>>

ClientInit ==
  /\ mem_arbit_status = "NONE" /\ hv = "none"
  /\ irq = {} /\ active = "none"

\* Hypercall BEGIN_MEM_PHASE, answered ACK or NACK.
Begin ==
  /\ mem_arbit_status = "NONE" /\ active = "none" /\ irq = {}
  /\ \/ mem_arbit_status' = "ACQUIRED" /\ hv' = "owner"
     \/ mem_arbit_status' = "REQUESTED" /\ hv' = "waiting"
  /\ UNCHANGED <<irq, active>>

\* Hypercall END_MEM_PHASE, from a memory phase; a token interrupt may have
\* come in after the guest has masked interrupts for the call.
End ==
  /\ mem_arbit_status = "ACQUIRED" /\ active = "none"
  /\ mem_arbit_status' = "NONE" /\ hv' = "none"
  /\ UNCHANGED <<irq, active>>

Acknowledge ==
  /\ active = "none"
  /\ \E i \in irq : active' = i /\ irq' = irq \ {i}
  /\ UNCHANGED <<mem_arbit_status, hv>>

\* The interrupt is ignored unless it is for the state the guest is in.
Serve ==
  /\ active # "none" /\ active' = "none"
  /\ mem_arbit_status' =
       IF active = "STARTED" /\ mem_arbit_status = "REQUESTED" THEN "ACQUIRED"
       ELSE IF active = "ENDED" /\ mem_arbit_status = "ACQUIRED" THEN "REQUESTED"
       ELSE mem_arbit_status
  /\ UNCHANGED <<hv, irq>>

\* The interrupt controller drops what is pending or active already.
Inject(i) == irq' = IF i = active THEN irq ELSE irq \cup {i}

Grant ==
  /\ hv = "waiting" /\ hv' = "owner" /\ Inject("STARTED")
  /\ UNCHANGED <<mem_arbit_status, active>>

Revoke ==
  /\ hv = "owner" /\ hv' = "waiting" /\ Inject("ENDED")
  /\ UNCHANGED <<mem_arbit_status, active>>

ClientNext == Begin \/ End \/ Acknowledge \/ Serve \/ Grant \/ Revoke

ClientSpec == ClientInit /\ [][ClientNext]_clientVars
=============================================================================
