------------------------------- MODULE AsyncWb -------------------------------
(****************************************************************************)
(* The Wishbone bridge between two clocks, verilog/rtl/lib/async_wb.sv.     *)
(* Writes are posted through a command FIFO; a read waits for its word in a *)
(* response FIFO.                                                           *)
(*                                                                          *)
(* The two FIFOs are LaggedFifo, which AsyncFifo implements; the two clocks *)
(* are unrelated.  The inputs of the two ports are parameters: a master     *)
(* port m = [stb, we, adr, dat] and a slave port s = [ack, dat].            *)
(* Byte enables and the error bit travel with the data and are left out.    *)
(****************************************************************************)
EXTENDS Naturals, Sequences

CONSTANTS
  Addrs, Words,
  CmdDepth  \* the depth of the command FIFO: 4 in the code

ASSUME AsyncWbAssumption == CmdDepth \in Nat \ {0, 1}

RespDepth == 2

VARIABLES
  PendingRd,                 \* a read waits for its response
  wbs_ack_f,                 \* the slave acknowledged in the last cycle
  cmd, cmdFreed, cmdFresh,   \* u_cmd_if
  resp, respFreed, respFresh \* u_resp_if

asyncWbVars ==
  <<PendingRd, wbs_ack_f, cmd, cmdFreed, cmdFresh, resp, respFreed, respFresh>>

Commands == [we : BOOLEAN, adr : Addrs, dat : Words]
Command(m) == [we |-> m.we, adr |-> m.adr, dat |-> m.dat]

CmdFifo == INSTANCE LaggedFifo WITH
  Data <- Commands, Depth <- CmdDepth,
  queue <- cmd, freed <- cmdFreed, fresh <- cmdFresh

RespFifo == INSTANCE LaggedFifo WITH
  Data <- Words, Depth <- RespDepth,
  queue <- resp, freed <- respFreed, fresh <- respFresh

AsyncWbInit ==
  /\ PendingRd = FALSE /\ wbs_ack_f = FALSE
  /\ CmdFifo!Init
  /\ RespFifo!Init

------------------------------------------------------------------------------
(* Storing a read again while the first one waits.                          *)
m_cmd_wr_enAgain(m) == m.stb /\ CmdFifo!wr_cnt < CmdDepth - 1

(* Neither full nor about to be: the last place is never used.              *)
m_cmd_wr_en(m) == ~PendingRd /\ m.stb /\ CmdFifo!wr_cnt < CmdDepth - 1

m_resp_rd_empty == RespFifo!rd_cnt = 0

(* A write is acknowledged with its command, a read with its response.      *)
wbm_ack_o(m) == m.stb /\ IF m.we THEN m_cmd_wr_en(m) ELSE ~m_resp_rd_empty
wbm_dat_o == Head(resp)

(* A wait that ends with any answer but never with the read's own.          *)
PendingReadForever(m) ==
  PendingRd' = (PendingRd \/ (m_cmd_wr_en(m) /\ ~m.we))

(* The read waits from its command to its answer.                           *)
PendingRead(m) ==
  PendingRd' = IF m_cmd_wr_en(m) /\ ~m.we THEN TRUE
               ELSE PendingRd /\ ~(m.stb /\ ~m.we /\ wbm_ack_o(m))

(* A response that is there is taken, wanted or not.                        *)
MasterEdge(m) ==
  /\ PendingRead(m)
  /\ CmdFifo!WrEdge(m_cmd_wr_en(m), Command(m))
  /\ RespFifo!RdEdge(~m_resp_rd_empty)
  /\ UNCHANGED wbs_ack_f

------------------------------------------------------------------------------
(* The strobe is down for the cycle after an acknowledge.                   *)
wbs_stb_o == ~wbs_ack_f /\ CmdFifo!rd_cnt > 0

s_resp_wr_en(s) ==
  wbs_stb_o /\ ~Head(cmd).we /\ s.ack /\ RespFifo!wr_cnt < RespDepth

SlaveEdge(s) ==
  /\ wbs_ack_f' = s.ack
  /\ CmdFifo!RdEdge(s.ack)
  /\ RespFifo!WrEdge(s_resp_wr_en(s), s.dat)
  /\ UNCHANGED PendingRd

(* Edges of both clocks in one instant.                                     *)
MasterSlaveEdge(m, s) ==
  /\ PendingRead(m)
  /\ wbs_ack_f' = s.ack
  /\ CmdFifo!BothEdges(m_cmd_wr_en(m), Command(m), s.ack)
  /\ RespFifo!BothEdges(s_resp_wr_en(s), s.dat, ~m_resp_rd_empty)

==============================================================================
