------------------------------ MODULE AsyncFifo ------------------------------
(****************************************************************************)
(* The dual-clock FIFO of verilog/rtl/lib/async_fifo.sv (the UART's         *)
(* async_fifo_th.sv is the same machine with two more outputs), with        *)
(* WR_FAST = RD_FAST = 1 as in all its instances.                           *)
(*                                                                          *)
(* Each side sees the other's pointer as a Gray code through two flops.     *)
(* The two clocks are unrelated: WrClock and RdClock are edges of one of    *)
(* them alone, BothClocks is an edge of both so close together that a       *)
(* sampling flop catches each bit of a moving pointer before or after its   *)
(* change.  The users of the FIFO write only when it is not full and read   *)
(* only when it is not empty, which the module asserts.                     *)
(****************************************************************************)
EXTENDS FifoPtr, Sequences

VARIABLES
  wr_ptr, grey_wr_ptr, mem,      \* write clock
  sync_rd_ptr_0, sync_rd_ptr_1,  \* write clock: the read pointer's flops
  rd_ptr, grey_rd_ptr,           \* read clock
  sync_wr_ptr_0, sync_wr_ptr_1   \* read clock: the write pointer's flops

wrPtrVars  == <<wr_ptr, grey_wr_ptr, mem>>
rdPtrVars  == <<rd_ptr, grey_rd_ptr>>
wrSyncVars == <<sync_rd_ptr_0, sync_rd_ptr_1>>
rdSyncVars == <<sync_wr_ptr_0, sync_wr_ptr_1>>
vars == <<wrPtrVars, wrSyncVars, rdPtrVars, rdSyncVars>>

------------------------------------------------------------------------------
(* Pointers are converted nine bits at a time, whatever the depth.          *)
Bits == 0..8
Words == 0..511

BitOf(p, i) == (p \div 2^i) % 2

(* bin2grey: a bit is flipped when the next higher one is set (do_grey).    *)
bin2grey(p) ==
  [i \in Bits |-> IF i = 8 THEN BitOf(p, 8)
                  ELSE (BitOf(p, i) + BitOf(p, i + 1)) % 2]

(* grey2bin: from the top bit down, the binary bit above decides (do_bin).  *)
grey2bin(g) ==
  LET bin[i \in Bits] == IF i = 8 THEN g[8] ELSE (bin[i + 1] + g[i]) % 2
  IN  bin[0] + 2 * bin[1] + 4 * bin[2] + 8 * bin[3] + 16 * bin[4]
        + 32 * bin[5] + 64 * bin[6] + 128 * bin[7] + 256 * bin[8]

(* What a flop can catch of a word that is changing: each bit by itself is  *)
(* the old or the new one.                                                  *)
Caught(old, new) ==
  {[i \in Bits |-> IF i \in late THEN old[i] ELSE new[i]] :
     late \in SUBSET {i \in Bits : old[i] # new[i]}}

------------------------------------------------------------------------------
wr_cnt == GetCnt(wr_ptr, grey2bin(sync_rd_ptr_1))
rd_cnt == GetCnt(grey2bin(sync_wr_ptr_1), rd_ptr)

(* The count of the other clock's side in the test.                         *)
fullFromReadSide == rd_cnt = DP

full  == wr_cnt = DP
empty == rd_cnt = 0

Init ==
  /\ wr_ptr = 0 /\ rd_ptr = 0
  /\ grey_wr_ptr = bin2grey(0) /\ grey_rd_ptr = bin2grey(0)
  /\ sync_rd_ptr_0 = bin2grey(0) /\ sync_rd_ptr_1 = bin2grey(0)
  /\ sync_wr_ptr_0 = bin2grey(0) /\ sync_wr_ptr_1 = bin2grey(0)
  /\ mem \in [0..(DP - 1) -> Data]

(* wr_en: the word is stored and both forms of the pointer advance.         *)
Write(d) ==
  /\ ~full
  /\ wr_ptr' = Inc(wr_ptr)
  /\ grey_wr_ptr' = bin2grey(Inc(wr_ptr))
  /\ mem' = [mem EXCEPT ![Slot(wr_ptr)] = d]

(* rd_en: the word at mem[Slot(rd_ptr)] has been taken.                     *)
Read ==
  /\ ~empty
  /\ rd_ptr' = Inc(rd_ptr)
  /\ grey_rd_ptr' = bin2grey(Inc(rd_ptr))

WrSide == UNCHANGED wrPtrVars \/ \E d \in Data : Write(d)
RdSide == UNCHANGED rdPtrVars \/ Read

(* The synchronizers: two flops of the clock they cross into.               *)
SyncRdPtrStuck(caught) ==
  sync_rd_ptr_0' = caught /\ sync_rd_ptr_1' = sync_rd_ptr_1

SyncRdPtrOneFlop(caught) == sync_rd_ptr_0' = caught /\ sync_rd_ptr_1' = caught

SyncRdPtr(caught) == sync_rd_ptr_0' = caught /\ sync_rd_ptr_1' = sync_rd_ptr_0
SyncWrPtr(caught) == sync_wr_ptr_0' = caught /\ sync_wr_ptr_1' = sync_wr_ptr_0

WrClock == WrSide /\ SyncRdPtr(grey_rd_ptr) /\ UNCHANGED <<rdPtrVars, rdSyncVars>>
RdClock == RdSide /\ SyncWrPtr(grey_wr_ptr) /\ UNCHANGED <<wrPtrVars, wrSyncVars>>

BothClocks ==
  /\ WrSide
  /\ RdSide
  /\ \E caught \in Caught(grey_rd_ptr, grey_rd_ptr') : SyncRdPtr(caught)
  /\ \E caught \in Caught(grey_wr_ptr, grey_wr_ptr') : SyncWrPtr(caught)

Next == WrClock \/ RdClock \/ BothClocks

Spec == Init /\ [][Next]_vars

(* Both clocks run.                                                         *)
FairSpec ==
  /\ Spec
  /\ WF_vars(WrClock \/ BothClocks)
  /\ WF_vars(RdClock \/ BothClocks)

------------------------------------------------------------------------------
(* The registers hold values of their widths.                               *)
TypeOK ==
  /\ wr_ptr \in Ptrs /\ rd_ptr \in Ptrs
  /\ grey_wr_ptr = bin2grey(wr_ptr) /\ grey_rd_ptr = bin2grey(rd_ptr)
  /\ \A flop \in {sync_rd_ptr_0, sync_rd_ptr_1, sync_wr_ptr_0, sync_wr_ptr_1} :
        \E p \in Ptrs : flop = bin2grey(p)
  /\ mem \in [0..(DP - 1) -> Data]

(* A pointer that is read stale only ever errs on the safe side: a FIFO     *)
(* that is really full says so to the writer and one that is really empty   *)
(* says so to the reader, whatever the synchronizers have caught.           *)
FlagsConservative ==
  /\ GetCnt(wr_ptr, rd_ptr) = DP => full
  /\ GetCnt(wr_ptr, rd_ptr) = 0 => empty

contents == Between(wr_ptr, rd_ptr, mem)

Fifo == INSTANCE BoundedFifo WITH Depth <- DP, queue <- contents

(* Whatever the two clocks do, the memory and the pointers are a bounded    *)
(* queue: no word is lost, overwritten, repeated or read too early.         *)
FifoSpec == Fifo!Spec

(* How far the pointer in q is ahead of the one in p.                       *)
Ahead(q, p) == GetCnt(grey2bin(q), grey2bin(p))

freed == <<Ahead(grey_rd_ptr, sync_rd_ptr_0), Ahead(sync_rd_ptr_0, sync_rd_ptr_1)>>
fresh == <<Ahead(grey_wr_ptr, sync_wr_ptr_0), Ahead(sync_wr_ptr_0, sync_wr_ptr_1)>>

Lagged == INSTANCE LaggedFifo WITH Depth <- DP, queue <- contents

(* What either side knows lags by two edges of its clock and by nothing     *)
(* else: this is what the bridges between the clocks are built on.          *)
LaggedSpec == Lagged!Spec

(* What was written is seen by the reader, and the space it leaves by the   *)
(* writer, in the end: the synchronizers lose no pointer for good.          *)
FlagsCatchUp ==
  /\ (GetCnt(wr_ptr, rd_ptr) # 0) ~> ~empty
  /\ (GetCnt(wr_ptr, rd_ptr) # DP) ~> ~full

==============================================================================
