------------------------------- MODULE FifoPtr -------------------------------
(****************************************************************************)
(* The pointer arithmetic of the FIFOs in verilog/rtl/lib (sync_fifo2.sv,   *)
(* async_fifo.sv, async_fifo_th.sv).  A pointer has one bit more than an    *)
(* address of the memory, so that it counts modulo twice the depth and      *)
(* tells a full FIFO from an empty one.                                     *)
(****************************************************************************)
EXTENDS Naturals

CONSTANTS
  DP,   \* the depth
  Data  \* the words

(* The depths for which the parameter AW is not 0.                          *)
Depths == {2, 4, 8, 16, 32, 64, 128, 256}

ASSUME DepthAssumption == DP \in Depths

Ptrs == 0..(2 * DP - 1)

(* An increment that is not cut to AW+1 bits.                               *)
IncUnwrapped(p) == p + 1

(* wr_ptr_inc, rd_ptr_inc: AW+1 bits wide, so that the last value wraps.    *)
Inc(p) == IF p = 2 * DP - 1 THEN 0 ELSE p + 1

(* get_cnt: how far the write pointer is ahead of the read pointer.         *)
GetCnt(w, r) == IF w >= r THEN w - r ELSE 2 * DP - (r - w)

(* ptr[AW-1:0], the location a pointer addresses.                           *)
Slot(p) == IF p >= DP THEN p - DP ELSE p

(* The pointer k places further on.                                         *)
Advance(p, k) == IF p + k >= 2 * DP THEN p + k - 2 * DP ELSE p + k

(* The words a memory holds from a read pointer to a write pointer, oldest  *)
(* first.                                                                   *)
Between(w, r, m) ==
  [i \in 1..GetCnt(w, r) |-> m[Slot(Advance(r, i - 1))]]

==============================================================================
