------------------------------ MODULE SyncFifo2 ------------------------------
(****************************************************************************)
(* The one-clock FIFO of verilog/rtl/lib/sync_fifo2.sv with WR_FAST =       *)
(* RD_FAST = 1, as sync_wbb instantiates it.  Its users write only when it  *)
(* is not full and read only when it is not empty, which it asserts;        *)
(* NoOverflow of WbSlavePort shows that its user does.                      *)
(****************************************************************************)
EXTENDS FifoPtr, Sequences

VARIABLES wr_ptr, rd_ptr, mem

vars == <<wr_ptr, rd_ptr, mem>>

wr_cnt == GetCnt(wr_ptr, rd_ptr)

full  == wr_cnt = DP
empty == wr_cnt = 0

Init ==
  /\ wr_ptr = 0
  /\ rd_ptr = 0
  /\ mem \in [0..(DP - 1) -> Data]

Write(d) ==
  /\ ~full
  /\ wr_ptr' = Inc(wr_ptr)
  /\ mem' = [mem EXCEPT ![Slot(wr_ptr)] = d]

Read ==
  /\ ~empty
  /\ rd_ptr' = Inc(rd_ptr)

(* One clock edge: the two sides move on their own enables.                 *)
Next ==
  /\ UNCHANGED <<wr_ptr, mem>> \/ \E d \in Data : Write(d)
  /\ UNCHANGED rd_ptr \/ Read

Spec == Init /\ [][Next]_vars

contents == Between(wr_ptr, rd_ptr, mem)

Fifo == INSTANCE BoundedFifo WITH Depth <- DP, queue <- contents

(* The FIFO is a bounded queue of its whole depth, also when both sides     *)
(* move at once and when the pointers wrap.                                 *)
FifoSpec == Fifo!Spec

==============================================================================
