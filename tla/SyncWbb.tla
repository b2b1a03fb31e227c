------------------------------- MODULE SyncWbb -------------------------------
(****************************************************************************)
(* The synchronous Wishbone burst bridge, verilog/rtl/lib/sync_wbb.sv: it   *)
(* registers both directions of a bus between a master and a slave of the   *)
(* same clock.  Writes are posted through a command FIFO; a read sends one  *)
(* command and waits for its words in a response FIFO.                      *)
(*                                                                          *)
(* The two FIFOs (sync_fifo2) are sequences, which SyncFifo2 refines.  The  *)
(* inputs of the two ports are parameters: a master port m = [stb, we, bl,  *)
(* bry, dat] and a slave port s = [ack, lack, dat].  Address, byte enables  *)
(* and target id travel with the data and are left out.                     *)
(****************************************************************************)
EXTENDS Naturals, Sequences

CONSTANT Depth  \* the depth of the two FIFOs (4 in the code)

ASSUME BridgeDepthAssumption == Depth \in Nat \ {0, 1}

VARIABLES
  m_state,       \* "IDLE", "WRITE_DATA" or "READ_DATA"
  m_cmd_wr_en,   \* the command on the master port is stored in this cycle
  m_resp_rd_en,  \* the response at the head is taken in this cycle
  m_bl_cnt,      \* words of the transfer that are left
  wbm_ack_o, wbm_lack_o,
  cmd,           \* the command FIFO u_cmd_if
  resp,          \* the response FIFO u_resp_if
  s_cmd_rd_data_l, wbs_ack_f, wbs_stb_l, wbs_burst

masterVars == <<m_state, m_cmd_wr_en, m_resp_rd_en, m_bl_cnt, wbm_ack_o, wbm_lack_o>>
slaveVars  == <<s_cmd_rd_data_l, wbs_ack_f, wbs_stb_l, wbs_burst>>
bridgeVars == <<masterVars, slaveVars, cmd, resp>>

(* The command word; the reset value of the latched one is all zeros.       *)
Command(m) == [we |-> m.we, bl |-> m.bl, dat |-> m.dat]

BridgeInit(zero) ==
  /\ m_state = "IDLE"
  /\ m_cmd_wr_en = FALSE /\ m_resp_rd_en = FALSE
  /\ m_bl_cnt = 0
  /\ wbm_ack_o = FALSE /\ wbm_lack_o = FALSE
  /\ cmd = <<>> /\ resp = <<>>
  /\ s_cmd_rd_data_l = [we |-> FALSE, bl |-> 0, dat |-> zero]
  /\ wbs_ack_f = FALSE /\ wbs_stb_l = FALSE /\ wbs_burst = FALSE

------------------------------------------------------------------------------
(* The master side.                                                         *)

(* Forgetting the command that is being stored in this very cycle.          *)
RoomWithoutPending == Len(cmd) # Depth

(* Not full, and not filled up by the command stored in this very cycle.    *)
RoomForCommand ==
  /\ Len(cmd) # Depth
  /\ ~(Len(cmd) = Depth - 1 /\ m_cmd_wr_en)

MayStart(m) == m_state = "IDLE" /\ m.stb /\ m.bry /\ RoomForCommand /\ ~wbm_lack_o

StartRead(m) ==
  /\ MayStart(m) /\ ~m.we
  /\ m_bl_cnt' = m.bl
  /\ m_cmd_wr_en' = TRUE
  /\ m_state' = "READ_DATA"
  /\ UNCHANGED <<m_resp_rd_en, wbm_ack_o, wbm_lack_o>>

(* The first word of a write is acknowledged with the command.              *)
StartWrite(m) ==
  /\ MayStart(m) /\ m.we
  /\ wbm_ack_o' = TRUE
  /\ m_cmd_wr_en' = TRUE
  /\ m_bl_cnt' = m.bl - 1
  /\ wbm_lack_o' = (wbm_lack_o \/ m.bl = 1)
  /\ m_state' = IF m.bl = 1 THEN "IDLE" ELSE "WRITE_DATA"
  /\ UNCHANGED m_resp_rd_en

IdleWait(m) ==
  /\ m_state = "IDLE" /\ ~MayStart(m)
  /\ m_resp_rd_en' = FALSE /\ m_cmd_wr_en' = FALSE
  /\ wbm_ack_o' = FALSE /\ wbm_lack_o' = FALSE
  /\ UNCHANGED <<m_state, m_bl_cnt>>

(* The last acknowledge a word early, the transfer still going on.          *)
AckBeatEarly ==
  /\ wbm_ack_o' = TRUE
  /\ wbm_lack_o' = (wbm_lack_o \/ m_bl_cnt \in {1, 2})
  /\ IF m_bl_cnt = 1 THEN m_state' = "IDLE" /\ UNCHANGED m_bl_cnt
                     ELSE m_bl_cnt' = m_bl_cnt - 1 /\ UNCHANGED m_state

(* One word is acknowledged; with the last one the transfer is over.        *)
AckBeat ==
  /\ wbm_ack_o' = TRUE
  /\ IF m_bl_cnt = 1
       THEN wbm_lack_o' = TRUE /\ m_state' = "IDLE" /\ UNCHANGED m_bl_cnt
       ELSE m_bl_cnt' = m_bl_cnt - 1 /\ UNCHANGED <<wbm_lack_o, m_state>>

WriteData(m) ==
  /\ m_state = "WRITE_DATA"
  /\ IF RoomForCommand /\ m.bry
       THEN AckBeat /\ m_cmd_wr_en' = TRUE
       ELSE /\ m_cmd_wr_en' = FALSE /\ wbm_ack_o' = FALSE /\ wbm_lack_o' = FALSE
            /\ UNCHANGED <<m_state, m_bl_cnt>>
  /\ UNCHANGED m_resp_rd_en

(* Taking the head for there when the word before it is still being taken.  *)
ResponseThereHead == resp # <<>>

(* A word beyond the one that is being taken in this cycle.                 *)
ResponseThere == IF wbm_ack_o THEN Len(resp) # 1 ELSE resp # <<>>

ReadData(m) ==
  /\ m_state = "READ_DATA"
  /\ IF ResponseThere /\ m.bry
       THEN AckBeat /\ m_resp_rd_en' = TRUE /\ UNCHANGED m_cmd_wr_en
       ELSE /\ m_resp_rd_en' = FALSE /\ m_cmd_wr_en' = FALSE
            /\ wbm_ack_o' = FALSE /\ wbm_lack_o' = FALSE
            /\ UNCHANGED <<m_state, m_bl_cnt>>

MasterSide(m) ==
  StartRead(m) \/ StartWrite(m) \/ IdleWait(m) \/ WriteData(m) \/ ReadData(m)

------------------------------------------------------------------------------
(* The slave side.                                                          *)

wbs_cmd == IF cmd = <<>> THEN s_cmd_rd_data_l ELSE Head(cmd)

(* Held through a burst, otherwise up while there is a command, but down    *)
(* for the cycle after the last acknowledge.                                *)
wbs_stb_o == wbs_burst \/ (~wbs_ack_f /\ cmd # <<>>)

(* A write burst that keeps its command word until the last acknowledge.    *)
s_cmd_rd_enLast(s) == s.lack

(* A write takes a command word per acknowledge, a read keeps its command   *)
(* until the last one.                                                      *)
s_cmd_rd_en(s) == IF wbs_stb_o /\ wbs_cmd.we THEN s.ack ELSE s.lack

s_resp_wr_en(s) == wbs_stb_o /\ ~wbs_cmd.we /\ s.ack

(* Burst ready: a write has a word after the one leaving now, a read has    *)
(* room after the one arriving now.                                         *)
wbs_bry_oLate(s) ==
  IF wbs_cmd.we THEN cmd # <<>> ELSE Len(resp) # Depth

wbs_bry_o(s) ==
  IF wbs_cmd.we
    THEN ~(cmd = <<>> \/ (s_cmd_rd_en(s) /\ Len(cmd) = 1))
    ELSE ~(Len(resp) = Depth \/ (s_resp_wr_en(s) /\ Len(resp) = Depth - 1))

(* The pause after a last acknowledge never ended.                          *)
SlaveSidePaused(s) ==
  /\ wbs_ack_f' = (wbs_ack_f \/ s.lack)
  /\ wbs_stb_l' = wbs_stb_o
  /\ s_cmd_rd_data_l' = IF s_cmd_rd_en(s) THEN wbs_cmd ELSE s_cmd_rd_data_l
  /\ wbs_burst' = (wbs_burst /\ ~s.lack)

SlaveSide(s) ==
  /\ wbs_ack_f' = s.lack
  /\ wbs_stb_l' = wbs_stb_o
  /\ s_cmd_rd_data_l' = IF s_cmd_rd_en(s) THEN wbs_cmd ELSE s_cmd_rd_data_l
  /\ wbs_burst' = IF ~wbs_stb_l /\ wbs_stb_o /\ wbs_cmd.bl > 1 THEN TRUE
                  ELSE wbs_burst /\ ~s.lack

------------------------------------------------------------------------------
(* A FIFO that is popped and pushed in one cycle.                           *)
Shifted(q, pop, push, x) ==
  (IF pop /\ q # <<>> THEN Tail(q) ELSE q) \o (IF push THEN <<x>> ELSE <<>>)

Fifos(m, s) ==
  /\ cmd'  = Shifted(cmd, s_cmd_rd_en(s), m_cmd_wr_en, Command(m))
  /\ resp' = Shifted(resp, m_resp_rd_en, s_resp_wr_en(s), s.dat)

(* One clock edge.                                                          *)
BridgeEdge(m, s) == MasterSide(m) /\ SlaveSide(s) /\ Fifos(m, s)

==============================================================================
