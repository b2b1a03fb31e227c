---------------------------- MODULE AsyncFifoGrey ----------------------------
(****************************************************************************)
(* The one fact about the Gray code that the FIFO rests on, stated over     *)
(* every depth the code allows (DP = 2 .. 256) and evaluated by TLC.        *)
(****************************************************************************)
EXTENDS AsyncFifo

(* What check_ptr_chg of async_fifo_th.sv asserts of a pointer: one bit of  *)
(* its code changes when it advances, the wrap at twice the depth included. *)
OneBitChanges(p, next) ==
  \E i \in Bits : \A j \in Bits \ {i} : bin2grey(p)[j] = bin2grey(next)[j]

ASSUME GreyAssumption ==
  /\ \A depth \in Depths : \A p \in 0..(2 * depth - 1) :
        OneBitChanges(p, IF p = 2 * depth - 1 THEN 0 ELSE p + 1)
  /\ \A p \in Words : grey2bin(bin2grey(p)) = p

==============================================================================
