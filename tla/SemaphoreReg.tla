----------------------------- MODULE SemaphoreReg -----------------------------
(****************************************************************************)
(* The hardware locks, verilog/rtl/pinmux/src/semaphore_reg.sv.  A read of  *)
(* a lock takes it and says whether it was free; a write of one releases    *)
(* it.  An access is two cycles: the select, in which the word that is read *)
(* is caught, and the acknowledge, in which the lock changes.               *)
(****************************************************************************)
EXTENDS Naturals

VARIABLES
  reg_0,     \* the locks that are taken
  reg_ack,
  reg_rdata  \* bit 0 of the word that was read

semaVars == <<reg_0, reg_ack, reg_rdata>>

Locks == 0..14

SemaInit == reg_0 = {} /\ reg_ack = FALSE /\ reg_rdata = FALSE

Toggled(lock) == IF lock \in reg_0 THEN reg_0 \ {lock} ELSE reg_0 \cup {lock}

(* A read that takes the lock only if a write comes with it.                *)
TakenNever(wr, lock) == IF wr THEN Toggled(lock) ELSE reg_0

(* A write of 1 that sets the bit.                                          *)
SetByWrite(wr, lock) == reg_0 \cup {lock}

(* A read takes the lock, a write of 1 toggles it.                          *)
Changed(wr, lock) == IF wr THEN Toggled(lock) ELSE reg_0 \cup {lock}

(* One clock edge with an access, of a write the word 1, on the block's bus.*)
SemaEdge(wr, lock) ==
  /\ reg_ack' = ~reg_ack
  /\ reg_rdata' = IF reg_ack THEN reg_rdata ELSE lock \notin reg_0
  /\ reg_0' = IF reg_ack THEN Changed(wr, lock) ELSE reg_0

==============================================================================
