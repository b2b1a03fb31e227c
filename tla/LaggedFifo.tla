------------------------------ MODULE LaggedFifo ------------------------------
(****************************************************************************)
(* What a dual-clock FIFO promises to the blocks that are built on it: a    *)
(* queue, and a fill count for each side that lags behind in the other      *)
(* side's doings.  A word that was read stays counted by the writer until   *)
(* the read has crossed two flops of its clock, a word that was written is  *)
(* counted by the reader when the write has.  AsyncFifo implements this     *)
(* specification.                                                           *)
(****************************************************************************)
EXTENDS Naturals, Sequences

CONSTANTS Data, Depth

VARIABLES
  queue,
  freed,  \* reads the writer does not know of: before the flops, between them
  fresh   \* writes the reader does not know of, likewise

vars == <<queue, freed, fresh>>

(* The fill counts as the two sides know them.                              *)
wr_cnt == Len(queue) + freed[1] + freed[2]
rd_cnt == Len(queue) - fresh[1] - fresh[2]

Init == queue = <<>> /\ freed = <<0, 0>> /\ fresh = <<0, 0>>

Bit(b) == IF b THEN 1 ELSE 0

MayWrite(wr_en) == wr_en => wr_cnt < Depth
MayRead(rd_en) == rd_en => rd_cnt > 0

(* An edge of the write clock, an edge of the read clock, and both at once, *)
(* when the flops may or may not catch what happens in this instant.        *)
WrEdge(wr_en, d) ==
  /\ MayWrite(wr_en)
  /\ queue' = IF wr_en THEN Append(queue, d) ELSE queue
  /\ fresh' = <<fresh[1] + Bit(wr_en), fresh[2]>>
  /\ freed' = <<0, freed[1]>>

RdEdge(rd_en) ==
  /\ MayRead(rd_en)
  /\ queue' = IF rd_en THEN Tail(queue) ELSE queue
  /\ freed' = <<freed[1] + Bit(rd_en), freed[2]>>
  /\ fresh' = <<0, fresh[1]>>

BothEdges(wr_en, d, rd_en) ==
  /\ MayWrite(wr_en) /\ MayRead(rd_en)
  /\ queue' = (IF rd_en THEN Tail(queue) ELSE queue)
                \o (IF wr_en THEN <<d>> ELSE <<>>)
  /\ \E late \in 0..Bit(wr_en) : fresh' = <<late, fresh[1] + Bit(wr_en) - late>>
  /\ \E late \in 0..Bit(rd_en) : freed' = <<late, freed[1] + Bit(rd_en) - late>>

Next ==
  \E wr_en, rd_en \in BOOLEAN, d \in Data :
    WrEdge(wr_en, d) \/ RdEdge(rd_en) \/ BothEdges(wr_en, d, rd_en)

Spec == Init /\ [][Next]_vars

==============================================================================
