---------------------------- MODULE UartMsgHandler ---------------------------
(****************************************************************************)
(* The command interpreter behind the UART master, verilog/rtl/uart2wb/src/ *)
(* uart_msg_handler.v: "wm", "rm" and "br" lines become accesses of a       *)
(* register bus, words that are read become messages.                       *)
(*                                                                          *)
(* The inputs of a clock edge are parameters: the received character or     *)
(* NoChar, and the ack and rdata of the bus.  A message is the word it      *)
(* shows, if any; that it has been sent, or the wait after power-on is      *)
(* over, is the choice `over'.  A word is its eight hex digits, the lowest  *)
(* first, an address a number; letters are capital.                         *)
(****************************************************************************)
EXTENDS Naturals, Sequences

CONSTANTS
  AddrSpace,  \* 2^32 in the code: addresses are taken modulo this bound
  InitCmd     \* cfg_uart_init_cmd: print the help text after power-on

ASSUME UartMsgAssumption ==
  AddrSpace \in Nat \ {0} /\ InitCmd \in BOOLEAN

VARIABLES
  State, NextState,
  cmd,                          \* the last two characters of the command
  RxMsgCnt,                     \* characters of the current field, five bits
  reg_addr, reg_wdata, reg_be, reg_wr, reg_req,
  burst_cnt,
  TxMsg                         \* the message in the buffer

handlerVars == <<State, NextState, cmd, RxMsgCnt, reg_addr, reg_wdata, reg_be,
                 reg_wr, reg_req, burst_cnt, TxMsg>>

NoChar == "none"
Space == "sp"
Break == "nl"

Lanes == 0..3
BurstSpace == 65536  \* burst_cnt has sixteen bits

(* Any character that is no digit counts as F.                              *)
Digits == <<"0", "1", "2", "3", "4", "5", "6", "7",
            "8", "9", "A", "B", "C", "D", "E", "F">>
char2hex(c) ==
  IF \E d \in 1..16 : Digits[d] = c THEN (CHOOSE d \in 1..16 : Digits[d] = c) - 1
                                    ELSE 15

Shifted(x, c, space) == (x * 16 + char2hex(c)) % space

Word == [0..7 -> 0..15]
ZeroWord == [i \in 0..7 |-> 0]
(* A register of one digit too many.                                        *)
ShiftedWordWide(w, c) == [i \in 0..8 |-> IF i = 0 THEN char2hex(c) ELSE w[i - 1]]

ShiftedWord(w, c) == [i \in 0..7 |-> IF i = 0 THEN char2hex(c) ELSE w[i - 1]]

Text == <<>>  \* a message without a word

HandlerInit ==
  /\ State = "POWERON_WAIT" /\ NextState = "POWERON_WAIT"
  /\ cmd = <<NoChar, NoChar>>
  /\ RxMsgCnt = 0
  /\ reg_addr = 0 /\ reg_wdata = ZeroWord /\ reg_be = {} /\ reg_wr = FALSE /\ reg_req = FALSE
  /\ burst_cnt = 0
  /\ TxMsg = Text

busVars == <<reg_addr, reg_wdata, reg_be, reg_wr, reg_req>>

------------------------------------------------------------------------------
(* Messages.                                                                *)

Send(message, next) == TxMsg' = message /\ NextState' = next /\ State' = "TX_MSG"

(* The wait is 256 clocks with the transmitter enabled.                     *)
PoweronWait(over) ==
  /\ State = "POWERON_WAIT"
  /\ State' = IF ~over THEN State ELSE IF InitCmd THEN "IDLE" ELSE "RX_CMD_PHASE"
  /\ UNCHANGED <<NextState, cmd, RxMsgCnt, busVars, burst_cnt, TxMsg>>

Idle ==
  /\ State = "IDLE"
  /\ Send(Text, "IDLE_TX_MSG1")
  /\ UNCHANGED <<cmd, RxMsgCnt, busVars, burst_cnt>>

IdleTxMsg1 ==
  /\ State = "IDLE_TX_MSG1"
  /\ Send(Text, "IDLE_TX_MSG2")
  /\ UNCHANGED <<cmd, RxMsgCnt, busVars, burst_cnt>>

IdleTxMsg2 ==
  /\ State = "IDLE_TX_MSG2"
  /\ Send(Text, "RX_CMD_PHASE")
  /\ RxMsgCnt' = 0
  /\ UNCHANGED <<cmd, busVars, burst_cnt>>

TxMessage(over) ==
  /\ State = "TX_MSG"
  /\ State' = IF over THEN NextState ELSE State
  /\ UNCHANGED <<NextState, cmd, RxMsgCnt, busVars, burst_cnt, TxMsg>>

------------------------------------------------------------------------------
(* The line that is typed.                                                  *)

Count == RxMsgCnt' = (RxMsgCnt + 1) % 32

Known == {<<"w", "m">>, <<"r", "m">>, <<"b", "r">>}

RxCmdPhase(c) ==
  /\ State = "RX_CMD_PHASE"
  /\ IF c = NoChar \/ (RxMsgCnt = 0 /\ c = Space)
       THEN UNCHANGED <<State, cmd, RxMsgCnt, reg_addr>>
     ELSE IF c = Space
       THEN /\ reg_addr' = 0 /\ RxMsgCnt' = 0
            /\ State' = IF cmd \in Known THEN "ADR_PHASE" ELSE "IDLE"
            /\ UNCHANGED cmd
     ELSE IF c = Break
       THEN State' = "IDLE" /\ UNCHANGED <<cmd, RxMsgCnt, reg_addr>>
       ELSE cmd' = <<cmd[2], c>> /\ Count /\ UNCHANGED <<State, reg_addr>>
  /\ UNCHANGED <<NextState, reg_wdata, reg_be, reg_wr, reg_req, burst_cnt, TxMsg>>

(* What ends the address decides with the command what comes next.          *)
AddressEnds(c) ==
  CASE cmd = <<"w", "m">> /\ c = Space ->
         /\ reg_wdata' = ZeroWord /\ reg_be' = {} /\ RxMsgCnt' = 0
         /\ State' = "WR_DATA_PHASE"
         /\ UNCHANGED <<reg_wr, reg_req, burst_cnt>>
    [] cmd = <<"r", "m">> /\ c = Break ->
         /\ reg_wr' = FALSE /\ reg_be' = Lanes /\ reg_req' = TRUE
         /\ burst_cnt' = 1
         /\ State' = "SEND_RD_REQ"
         /\ UNCHANGED <<reg_wdata, RxMsgCnt>>
    [] cmd = <<"b", "r">> /\ c = Space ->
         /\ reg_wr' = FALSE
         /\ burst_cnt' = 0
         /\ State' = "RXD_BRD_SIZE"
         /\ UNCHANGED <<reg_wdata, reg_be, reg_req, RxMsgCnt>>
    [] OTHER ->
         State' = "IDLE" /\ UNCHANGED <<reg_wdata, reg_be, reg_wr, reg_req, burst_cnt, RxMsgCnt>>

AdrPhase(c) ==
  /\ State = "ADR_PHASE"
  /\ IF c = NoChar \/ (RxMsgCnt = 0 /\ c = Space)
       THEN UNCHANGED <<State, RxMsgCnt, busVars, burst_cnt>>
     ELSE IF RxMsgCnt > 0 /\ c \in {Space, Break}
       THEN AddressEnds(c) /\ UNCHANGED reg_addr
     ELSE IF c = Break
       THEN State' = "IDLE" /\ UNCHANGED <<RxMsgCnt, busVars, burst_cnt>>
       ELSE /\ reg_addr' = Shifted(reg_addr, c, AddrSpace) /\ Count
            /\ UNCHANGED <<State, reg_wdata, reg_be, reg_wr, reg_req, burst_cnt>>
  /\ UNCHANGED <<NextState, cmd, TxMsg>>

(* Whole bytes are put where the address points to within the word; zero is *)
(* written where they do not fit.  Any other number of digits counts as a   *)
(* word, and so do eight: the case for them is never reached.               *)
WriteRequest ==
  LET digits == RxMsgCnt % 16
      low == reg_addr % 4
      bytes == digits \div 2
  IN  /\ reg_wr' = TRUE /\ reg_req' = TRUE
      /\ IF digits \in {2, 4, 6}
           THEN /\ reg_be' = {(low + i) % 4 : i \in 0..(bytes - 1)}
                /\ reg_wdata' = [i \in 0..7 |->
                     IF low + bytes <= 4 /\ i \in 2 * low..(2 * (low + bytes) - 1)
                       THEN reg_wdata[i - 2 * low] ELSE 0]
           ELSE reg_be' = Lanes /\ UNCHANGED reg_wdata

WrDataPhase(c) ==
  /\ State = "WR_DATA_PHASE"
  /\ IF c = NoChar \/ (RxMsgCnt = 0 /\ c = Space)
       THEN UNCHANGED <<State, RxMsgCnt, busVars>>
     ELSE IF c \in {Space, Break}
       THEN /\ WriteRequest
            /\ State' = IF c = Space THEN "SEND_BWR_REQ" ELSE "SEND_WR_REQ"
            /\ UNCHANGED <<RxMsgCnt, reg_addr>>
       ELSE /\ reg_wdata' = ShiftedWord(reg_wdata, c) /\ Count
            /\ UNCHANGED <<State, reg_addr, reg_be, reg_wr, reg_req>>
  /\ UNCHANGED <<NextState, cmd, burst_cnt, TxMsg>>

RxdBrdSize(c) ==
  /\ State = "RXD_BRD_SIZE"
  /\ IF c = NoChar \/ (RxMsgCnt = 0 /\ c = Space)
       THEN UNCHANGED <<State, RxMsgCnt, reg_wr, reg_req, burst_cnt>>
     ELSE IF c \in {Space, Break}
       THEN /\ State' = "SEND_RD_REQ" /\ reg_wr' = FALSE /\ reg_req' = TRUE
            /\ UNCHANGED <<RxMsgCnt, burst_cnt>>
       ELSE /\ burst_cnt' = Shifted(burst_cnt, c, BurstSpace) /\ Count
            /\ UNCHANGED <<State, reg_wr, reg_req>>
  /\ UNCHANGED <<NextState, cmd, reg_addr, reg_wdata, reg_be, TxMsg>>

------------------------------------------------------------------------------
(* Accesses.                                                                *)

NextWord(a) == (a + 4) % AddrSpace

SendBwrReq(ack) ==
  /\ State = "SEND_BWR_REQ"
  /\ IF ack
       THEN /\ reg_req' = FALSE /\ reg_addr' = NextWord(reg_addr)
            /\ reg_wdata' = ZeroWord /\ reg_be' = {} /\ RxMsgCnt' = 0
            /\ State' = "WR_DATA_PHASE"
       ELSE UNCHANGED <<State, RxMsgCnt, reg_req, reg_addr, reg_wdata, reg_be>>
  /\ UNCHANGED <<NextState, cmd, reg_wr, burst_cnt, TxMsg>>

SendWrReq(ack) ==
  /\ State = "SEND_WR_REQ"
  /\ IF ack THEN reg_req' = FALSE /\ Send(Text, "RX_CMD_PHASE")
            ELSE UNCHANGED <<State, NextState, reg_req, TxMsg>>
  /\ UNCHANGED <<cmd, RxMsgCnt, reg_addr, reg_wdata, reg_be, reg_wr, burst_cnt>>

(* A burst that stops one word late.                                        *)
SendRdReqOneMore(ack) ==
  /\ State = "SEND_RD_REQ"
  /\ IF ack
       THEN /\ reg_req' = FALSE
            /\ State' = "SEND_RD_DATA"
            /\ IF burst_cnt > 0
                 THEN reg_addr' = NextWord(reg_addr) /\ NextState' = "PEND_BRD_REQ"
                 ELSE NextState' = "RX_CMD_PHASE" /\ UNCHANGED reg_addr
       ELSE UNCHANGED <<State, NextState, reg_req, reg_addr>>
  /\ UNCHANGED <<cmd, RxMsgCnt, reg_wdata, reg_be, reg_wr, burst_cnt, TxMsg>>

SendRdReq(ack) ==
  /\ State = "SEND_RD_REQ"
  /\ IF ack
       THEN /\ reg_req' = FALSE
            /\ State' = "SEND_RD_DATA"
            /\ IF burst_cnt > 1
                 THEN reg_addr' = NextWord(reg_addr) /\ NextState' = "PEND_BRD_REQ"
                 ELSE NextState' = "RX_CMD_PHASE" /\ UNCHANGED reg_addr
       ELSE UNCHANGED <<State, NextState, reg_req, reg_addr>>
  /\ UNCHANGED <<cmd, RxMsgCnt, reg_wdata, reg_be, reg_wr, burst_cnt, TxMsg>>

PendBrdReq ==
  /\ State = "PEND_BRD_REQ"
  /\ burst_cnt' = (burst_cnt + BurstSpace - 1) % BurstSpace
  /\ reg_req' = TRUE /\ reg_wr' = FALSE
  /\ State' = "SEND_RD_REQ"
  /\ UNCHANGED <<NextState, cmd, RxMsgCnt, reg_addr, reg_wdata, reg_be, TxMsg>>

SendRdData(rdata) ==
  /\ State = "SEND_RD_DATA"
  /\ TxMsg' = <<rdata>>
  /\ State' = "TX_MSG"
  /\ UNCHANGED <<NextState, cmd, RxMsgCnt, busVars, burst_cnt>>

Accepts == State \in {"RX_CMD_PHASE", "ADR_PHASE", "WR_DATA_PHASE", "RXD_BRD_SIZE"}

(* One clock edge.                                                          *)
Handler(c, ack, rdata, over) ==
  \/ PoweronWait(over)
  \/ Idle \/ IdleTxMsg1 \/ IdleTxMsg2 \/ TxMessage(over)
  \/ RxCmdPhase(c) \/ AdrPhase(c) \/ WrDataPhase(c) \/ RxdBrdSize(c)
  \/ SendBwrReq(ack) \/ SendWrReq(ack) \/ SendRdReq(ack)
  \/ PendBrdReq \/ SendRdData(rdata)

==============================================================================
