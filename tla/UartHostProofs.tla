---------------------------- MODULE UartHostProofs ----------------------------
(****************************************************************************)
(* The crossing between the UART's clock and the chip's: an access is       *)
(* served and answered once, and nothing that crosses without a flop        *)
(* changes while it is looked at.  Then the lines: what each of its stages, *)
(* from the prompt back to the prompt, leaves in the interpreter and in the *)
(* memory, until the line has done and shown what it says.                  *)
(****************************************************************************)
EXTENDS UartHost, TLAPS, Integers

(* What each side may assume of the other's flag and of what it sees of it. *)
(* While an access is asked for both flags rise, while it is dismissed both *)
(* fall, and in between everything is down.                                 *)
States ==
  /\ in_state \in {"INI_IDLE", "INI_WAIT_ACK", "INI_WAIT_TAR_DONE"}
  /\ out_state \in {"TAR_IDLE", "TAR_WAIT_ACK", "TAR_WAIT_INI_DONE"}

Quiet ==
  in_state = "INI_IDLE" =>
    /\ ~in_flag /\ ~in_flag_s /\ ~in_flag_ss
    /\ ~out_flag /\ ~out_flag_s /\ ~out_flag_ss
    /\ out_state = "TAR_IDLE" /\ ~out_reg_cs

Rising ==
  in_state = "INI_WAIT_ACK" =>
    /\ in_flag /\ (in_flag_ss => in_flag_s)
    /\ (out_flag_ss => out_flag_s) /\ (out_flag_s => out_flag)
    /\ out_flag <=> out_state = "TAR_WAIT_INI_DONE"
    /\ out_reg_cs <=> out_state = "TAR_WAIT_ACK"
    /\ out_state # "TAR_IDLE" => in_flag_ss

Falling ==
  in_state = "INI_WAIT_TAR_DONE" =>
    /\ ~in_flag /\ (in_flag_s => in_flag_ss)
    /\ (out_flag => out_flag_s) /\ (out_flag_s => out_flag_ss)
    /\ out_flag <=> out_state = "TAR_WAIT_INI_DONE"
    /\ ~out_flag => out_state = "TAR_IDLE" /\ ~in_flag_ss
    /\ ~out_reg_cs

Handshake == States /\ Quiet /\ Rising /\ Falling

(* The interpreter waits wherever it has asked, and while the target is     *)
(* asked the answer is not there yet.                                       *)
Sends == {"SEND_BWR_REQ", "SEND_WR_REQ", "SEND_RD_REQ"}

Asking ==
  /\ reg_req => State \in Sends
  /\ in_state = "INI_WAIT_ACK" => State \in Sends
  /\ in_reg_ack => in_state = "INI_WAIT_TAR_DONE"

LEMMA HandshakeInit == Init => Handshake /\ Asking
BY DEF Init, RegBusInit, HandlerInit, Handshake, States, Quiet, Rising, Falling, Asking

(* The edges as the bus sees them, while the timer does not end.            *)
LineStep == InEdge(reg_req, wbm_uart_dat_o, ZeroWord, FALSE)
ChipStep == OutEdge(wbm_uart_ack_o)
BothStep == InOutEdge(reg_req, wbm_uart_dat_o, ZeroWord, FALSE, wbm_uart_ack_o)

BusStep == UNCHANGED regBusVars \/ LineStep \/ ChipStep \/ BothStep

LEMMA NextIsBusStep ==
  ASSUME ~Slow, [Next]_vars
  PROVE  BusStep
<1>1. Expirations = {FALSE}
  BY DEF Expirations
<1>. QED
  BY <1>1 DEF Next, vars, LineClock, BothClocks, ChipEdge, LineEdge, BothEdges, BusStep,
              LineStep, ChipStep, BothStep

LEMMA InEdgeKeepsHandshake ==
  ASSUME Handshake, LineStep
  PROVE  Handshake'
<1>. USE DEF Handshake, States, Quiet, Rising, Falling
<1>. USE DEF LineStep, InEdge, SyncOutFlag, tarVars
<1>1. CASE IniIdle(reg_req)
  BY <1>1 DEF IniIdle
<1>2. CASE IniDone(wbm_uart_dat_o)
  BY <1>2 DEF IniDone
<1>3. CASE IniWaits
  BY <1>3 DEF IniWaits
<1>4. CASE IniTarDone
  BY <1>4 DEF IniTarDone
<1>. QED  BY <1>1, <1>2, <1>3, <1>4 DEF Initiator

LEMMA OutEdgeKeepsHandshake ==
  ASSUME Handshake, ChipStep
  PROVE  Handshake'
<1>. USE DEF Handshake, States, Quiet, Rising, Falling
<1>. USE DEF ChipStep, OutEdge, SyncInFlag, iniVars
<1>1. CASE TarIdle
  BY <1>1 DEF TarIdle
<1>2. CASE TarWaitAck(wbm_uart_ack_o)
  BY <1>2 DEF TarWaitAck
<1>3. CASE TarWaitIniDone
  BY <1>3 DEF TarWaitIniDone
<1>. QED  BY <1>1, <1>2, <1>3 DEF Target

LEMMA InOutEdgeKeepsHandshake ==
  ASSUME Handshake, BothStep
  PROVE  Handshake'
<1>. USE DEF Handshake, States, Quiet, Rising, Falling
<1>. USE DEF SyncInFlag, SyncOutFlag
<1>. USE DEF IniIdle, IniDone, IniWaits, IniTarDone
<1>1. /\ (out_flag_s' <=> out_flag) \/ (out_flag_s' <=> out_flag')
      /\ out_flag_ss' <=> out_flag_s
      /\ (in_flag_s' <=> in_flag) \/ (in_flag_s' <=> in_flag')
      /\ in_flag_ss' <=> in_flag_s
  BY DEF BothStep, InOutEdge
<1>2. CASE TarIdle
  <2>1. CASE IniIdle(reg_req)
    BY <1>1, <1>2, <2>1 DEF TarIdle
  <2>2. CASE IniDone(wbm_uart_dat_o)
    BY <1>2, <2>2 DEF TarIdle
  <2>3. CASE IniWaits
    BY <1>1, <1>2, <2>3 DEF TarIdle
  <2>4. CASE IniTarDone
    BY <1>1, <1>2, <2>4 DEF TarIdle
  <2>. QED  BY <2>1, <2>2, <2>3, <2>4 DEF BothStep, InOutEdge, Initiator
<1>3. CASE TarWaitAck(wbm_uart_ack_o)
  <2>1. IniWaits
    BY <1>3 DEF TarWaitAck, BothStep, InOutEdge, Initiator
  <2>. QED  BY <1>1, <1>3, <2>1 DEF TarWaitAck
<1>4. CASE TarWaitIniDone
  <2>1. CASE IniDone(wbm_uart_dat_o)
    BY <1>1, <1>4, <2>1 DEF TarWaitIniDone
  <2>2. CASE IniWaits
    BY <1>1, <1>4, <2>2 DEF TarWaitIniDone
  <2>3. CASE IniTarDone
    BY <1>1, <1>4, <2>3 DEF TarWaitIniDone
  <2>. QED  BY <1>4, <2>1, <2>2, <2>3 DEF BothStep, InOutEdge, Initiator, TarWaitIniDone
<1>. QED  BY <1>2, <1>3, <1>4 DEF BothStep, InOutEdge, Target

LEMMA HandshakeStep ==
  ASSUME Handshake, BusStep
  PROVE  Handshake'
<1>1. CASE UNCHANGED regBusVars
  BY <1>1 DEF regBusVars, iniVars, tarVars, Handshake, States, Quiet, Rising, Falling
<1>. QED
  BY <1>1, InEdgeKeepsHandshake, OutEdgeKeepsHandshake, InOutEdgeKeepsHandshake DEF BusStep

LEMMA AccessStep ==
  ASSUME Handshake, BusStep
  PROVE  [Access!Next]_phase
<1>. USE DEF Handshake, States, Quiet, Rising, Falling, phase
<1>. USE DEF SyncInFlag, SyncOutFlag, regBusVars, iniVars, tarVars
<1>. USE DEF Access!Next, Access!Ask, Access!Serve, Access!Answer
<1>1. CASE UNCHANGED regBusVars
  BY <1>1
<1>2. CASE LineStep
  BY <1>2 DEF LineStep, InEdge, Initiator, IniIdle, IniDone, IniWaits, IniTarDone
<1>3. CASE ChipStep
  BY <1>3 DEF ChipStep, OutEdge, Target, TarIdle, TarWaitAck, TarWaitIniDone
<1>4. CASE BothStep
  BY <1>4 DEF BothStep, InOutEdge, Initiator, IniIdle, IniDone, IniWaits, IniTarDone,
              Target, TarIdle, TarWaitAck, TarWaitIniDone
<1>. QED  BY <1>1, <1>2, <1>3, <1>4 DEF BusStep

(* Every access of the UART is served once and answered once, for every     *)
(* address space, whatever is typed, however the two clocks interleave and  *)
(* however long the chip takes, as long as the timer does not end first.    *)
THEOREM AccessRefinement ==
  ASSUME ~Slow
  PROVE  Spec => RegAccessSpec
<1>1. Init => phase = "idle"
  BY DEF Init, RegBusInit, phase
<1>2. ASSUME Handshake, [Next]_vars
      PROVE  Handshake' /\ [Access!Next]_phase
  BY <1>2, NextIsBusStep, HandshakeStep, AccessStep
<1>. QED
  BY <1>1, <1>2, HandshakeInit, PTL DEF Spec, RegAccessSpec, Access!Spec, Access!Init

------------------------------------------------------------------------------
(* The interpreter holds still while it is not answered.                    *)
LEMMA AskingStep ==
  ASSUME ~Slow, Handshake, Asking, [Next]_vars
  PROVE  /\ Asking'
         /\ in_state = "INI_WAIT_ACK" => UNCHANGED <<reg_addr, reg_wdata, reg_be, reg_wr>>
<1>. DEFINE Held == UNCHANGED <<reg_addr, reg_wdata, reg_be, reg_wr>>
            Stays == State \in Sends => State' = State /\ reg_req' = reg_req /\ Held
            Turns == reg_req' => State' \in Sends
<1>1. CASE UNCHANGED vars
  BY <1>1 DEF vars, handlerVars, regBusVars, iniVars, tarVars, Asking
<1>2. CASE ChipEdge
  BY <1>2 DEF ChipEdge, handlerVars, OutEdge, iniVars, Asking
<1>3. ASSUME LineClock \/ BothClocks
      PROVE  /\ Initiator(reg_req, wbm_uart_dat_o, ZeroWord, FALSE)
             /\ \E c, over : Takes(c, over)
  BY <1>3, ~Slow DEF LineClock, BothClocks, Expirations, LineEdge, BothEdges, LineSide,
       Waits, TypesOn, BeginsLine, InEdge, InOutEdge
<1>4. ASSUME NEW c, NEW over, Takes(c, over), Asking
      PROVE  /\ ~in_reg_ack => Stays
             /\ Turns
  <2>. USE DEF Asking, Sends, busVars
  <2>1. CASE SendBwrReq(in_reg_ack) \/ SendWrReq(in_reg_ack) \/ SendRdReq(in_reg_ack)
    BY <1>4, <2>1 DEF SendBwrReq, SendWrReq, SendRdReq, Send
  <2>2. CASE RxCmdPhase(c) \/ AdrPhase(c)
    BY <1>4, <2>2 DEF RxCmdPhase, AdrPhase, AddressEnds
  <2>3. CASE WrDataPhase(c) \/ RxdBrdSize(c)
    BY <1>4, <2>3 DEF WrDataPhase, RxdBrdSize
  <2>4. CASE PoweronWait(over) \/ TxMessage(over) \/ PendBrdReq \/ SendRdData(in_reg_rdata)
    BY <1>4, <2>4 DEF PoweronWait, TxMessage, PendBrdReq, SendRdData
  <2>5. CASE Idle \/ IdleTxMsg1 \/ IdleTxMsg2
    BY <1>4, <2>5 DEF Idle, IdleTxMsg1, IdleTxMsg2, Send
  <2>. QED  BY <1>4, <2>1, <2>2, <2>3, <2>4, <2>5 DEF Takes, Handler
<1>5. ASSUME LineClock \/ BothClocks, in_state = "INI_WAIT_ACK"
      PROVE  Asking' /\ Held
  <2>1. ~in_reg_ack /\ State \in Sends
    BY <1>5 DEF Asking
  <2>2. Stays /\ Turns
    BY <1>3, <1>4, <1>5, <2>1
  <2>3. State' \in Sends /\ Held
    BY <2>1, <2>2
  <2>4. CASE IniDone(wbm_uart_dat_o)
    BY <2>2, <2>3, <2>4 DEF Asking, IniDone
  <2>5. CASE IniWaits
    BY <1>5, <2>1, <2>2, <2>3, <2>5 DEF Asking, IniWaits
  <2>. QED
    BY <1>3, <1>5, <2>4, <2>5 DEF Initiator, IniIdle, IniTarDone
<1>6. ASSUME LineClock \/ BothClocks, in_state # "INI_WAIT_ACK"
      PROVE  Asking'
  <2>1. (~in_reg_ack => Stays) /\ Turns
    BY <1>3, <1>4, <1>6
  <2>2. CASE IniIdle(reg_req)
    BY <1>6, <2>1, <2>2 DEF Asking, IniIdle
  <2>3. CASE IniTarDone
    BY <1>6, <2>1, <2>3 DEF Asking, IniTarDone
  <2>. QED
    BY <1>3, <1>6, <2>2, <2>3 DEF Initiator, IniDone, IniWaits
<1>. QED  BY <1>1, <1>2, <1>5, <1>6 DEF Next, vars, handlerVars

(* What crosses the clocks without a flop stays as it is while the target   *)
(* shows it to the bus, for every address space and whatever is typed.      *)
THEOREM AccessStableHolds ==
  ASSUME ~Slow
  PROVE  Spec => AccessStable
<1>1. ASSUME Handshake, Asking, [Next]_vars
      PROVE  /\ Handshake' /\ Asking'
             /\ [(out_reg_cs /\ out_reg_cs') => UNCHANGED <<reg_addr, reg_wdata, reg_be, reg_wr>>]_vars
  <2>1. Handshake' /\ Asking'
    BY <1>1, NextIsBusStep, HandshakeStep, AskingStep
  <2>2. out_reg_cs => in_state = "INI_WAIT_ACK"
    BY <1>1 DEF Handshake, States, Quiet, Falling
  <2>. QED  BY <1>1, <2>1, <2>2, AskingStep
<1>. QED  BY <1>1, HandshakeInit, PTL DEF Spec, AccessStable

------------------------------------------------------------------------------
(* The word on its way: from the memory's answer on it is on the UART's bus *)
(* until the initiator has caught it.                                       *)
OnBus == grnt = UART /\ (~reg_wr => wb_dat_o = memory[WordOf(reg_addr)])

WordHeld ==
  /\ ~spi_stb
  /\ wb_ack_o => out_reg_cs /\ OnBus
  /\ in_state = "INI_WAIT_ACK" /\ out_flag => OnBus

LEMMA WordHeldInit == Init => WordHeld
BY DEF Init, RegBusInit, WordHeld

LEMMA GrantParks ==
  ASSUME ~spi_stb, grnt = UART
  PROVE  Arb!NextGrant(grnt, Requests) = UART
BY DEF Requests, UART, SPI, Arb!NextGrant, Arb!SearchOrder

LEMMA ChipKeepsWord ==
  ASSUME ~SpiActive, Handshake, WordHeld, ChipSide, Target(wbm_uart_ack_o),
         in_state = "INI_WAIT_ACK" => UNCHANGED <<reg_addr, reg_wr>>,
         in_state' = "INI_WAIT_ACK" => in_state # "INI_WAIT_TAR_DONE"
  PROVE  WordHeld'
<1>. USE DEF Handshake, States, Quiet, Rising, Falling
<1>1. spi_stb' = FALSE
  BY DEF ChipSide
<1>2. OnBus => grnt' = UART
  BY GrantParks DEF OnBus, ChipSide, WordHeld
<1>3. out_reg_cs => in_state = "INI_WAIT_ACK" /\ ~out_flag /\ out_state = "TAR_WAIT_ACK"
  OBVIOUS
<1>4. CASE wb_ack_o
  <2>1. out_reg_cs /\ OnBus
    BY <1>4 DEF WordHeld
  <2>2. wb_ack_o' = FALSE /\ UNCHANGED <<wb_dat_o, memory>>
    BY <1>4 DEF ChipSide, Silent, Answers
  <2>. QED  BY <1>1, <1>2, <1>3, <2>1, <2>2 DEF WordHeld, OnBus
<1>5. CASE ~wb_ack_o /\ Silent
  <2>1. out_flag' => out_flag
    BY <1>5 DEF Target, TarIdle, TarWaitAck, TarWaitIniDone, wbm_uart_ack_o
  <2>2. in_state' = "INI_WAIT_ACK" /\ out_flag' => in_state = "INI_WAIT_ACK" /\ OnBus
    BY <2>1 DEF WordHeld
  <2>. QED  BY <1>1, <1>2, <1>5, <2>2 DEF WordHeld, OnBus, Silent
<1>6. ASSUME NEW w \in WordAddrs, Answers(w)
      PROVE  WordHeld'
  <2>1. ~wb_ack_o /\ grnt = UART /\ out_reg_cs /\ w = WordOf(reg_addr)
    BY <1>6 DEF Answers, Requests, WordHeld
  <2>2. wb_ack_o' = TRUE /\ (~reg_wr => wb_dat_o' = memory[w] /\ memory' = memory)
    BY <1>6, <2>1 DEF Answers
  <2>3. grnt' = UART
    BY <2>1, GrantParks DEF ChipSide, WordHeld
  <2>4. out_reg_cs' /\ ~out_flag'
    BY <1>3, <2>1 DEF Target, TarIdle, TarWaitAck, TarWaitIniDone, wbm_uart_ack_o
  <2>. QED  BY <1>1, <1>3, <2>1, <2>2, <2>3, <2>4 DEF WordHeld, OnBus, WordOf
<1>. QED  BY <1>4, <1>5, <1>6 DEF ChipSide, Answers

LEMMA WordHeldStep ==
  ASSUME ~Slow, ~SpiActive, Handshake, Asking, WordHeld, [Next]_vars
  PROVE  WordHeld'
<1>1. in_state = "INI_WAIT_ACK" => UNCHANGED <<reg_addr, reg_wr>>
  BY AskingStep
<1>2. CASE UNCHANGED vars
  BY <1>2 DEF vars, handlerVars, regBusVars, iniVars, tarVars, bridgeVars, WordHeld, OnBus
<1>3. ASSUME Initiator(reg_req, wbm_uart_dat_o, ZeroWord, FALSE)
      PROVE  in_state' = "INI_WAIT_ACK" => in_state # "INI_WAIT_TAR_DONE"
  BY <1>3 DEF Handshake, Falling, Initiator, IniIdle, IniDone, IniWaits, IniTarDone
<1>4. CASE LineClock
  <2>1. /\ Initiator(reg_req, wbm_uart_dat_o, ZeroWord, FALSE)
        /\ UNCHANGED bridgeVars /\ UNCHANGED tarVars
    BY <1>4 DEF LineClock, Expirations, LineEdge, InEdge
  <2>2. in_state' = "INI_WAIT_ACK" /\ out_flag => in_state = "INI_WAIT_ACK"
    BY <1>3, <2>1 DEF Handshake, States, Quiet
  <2>3. out_reg_cs => in_state = "INI_WAIT_ACK"
    BY DEF Handshake, States, Quiet, Falling
  <2>. QED
    BY <1>1, <2>1, <2>2, <2>3 DEF bridgeVars, tarVars, WordHeld, OnBus, WordOf
<1>5. CASE ChipEdge
  <2>1. ChipSide /\ Target(wbm_uart_ack_o) /\ in_state' = in_state
    BY <1>5 DEF ChipEdge, OutEdge, iniVars
  <2>. QED  BY <1>1, <2>1, ChipKeepsWord
<1>6. CASE BothClocks
  <2>1. /\ Initiator(reg_req, wbm_uart_dat_o, ZeroWord, FALSE)
        /\ ChipSide /\ Target(wbm_uart_ack_o)
    BY <1>6 DEF BothClocks, Expirations, BothEdges, InOutEdge
  <2>. QED  BY <1>1, <1>3, <2>1, ChipKeepsWord
<1>. QED  BY <1>2, <1>4, <1>5, <1>6 DEF Next

(* The initiator catches the word the memory answered with, as the bus      *)
(* assumes, whatever is typed and however the clocks interleave, as long as *)
(* the UART is the only host: with the SPI master it is not so.             *)
THEOREM ReadDataHeldHolds ==
  ASSUME ~Slow, ~SpiActive
  PROVE  Spec => []ReadDataHeld
<1>1. ASSUME Handshake, Asking, WordHeld, [Next]_vars
      PROVE  Handshake' /\ Asking' /\ WordHeld'
  BY <1>1, NextIsBusStep, HandshakeStep, AskingStep, WordHeldStep
<1>2. Handshake /\ WordHeld => ReadDataHeld
  BY DEF WordHeld, OnBus, ReadDataHeld, phase, wbm_uart_dat_o
<1>. QED  BY <1>1, <1>2, HandshakeInit, WordHeldInit, PTL DEF Spec

------------------------------------------------------------------------------
(* The registers stay within their widths, whatever the line and the bus    *)
(* bring.                                                                   *)
Typed == TypeOK /\ wb_dat_o \in Word

LEMMA HexDigit ==
  ASSUME NEW c
  PROVE  char2hex(c) \in 0..15
<1>1. CASE \E d \in 1..16 : Digits[d] = c
  <2>1. (CHOOSE d \in 1..16 : Digits[d] = c) \in 1..16
    BY <1>1, Zenon
  <2>2. char2hex(c) = (CHOOSE d \in 1..16 : Digits[d] = c) - 1
    BY <1>1 DEF char2hex
  <2>. QED  BY <2>1, <2>2
<1>. QED  BY <1>1 DEF char2hex

LEMMA ShiftedRange ==
  ASSUME NEW x \in Nat, NEW c, NEW space \in Nat \ {0}
  PROVE  Shifted(x, c, space) \in 0..(space - 1)
<1>1. \A y \in Nat : y % space \in 0..(space - 1)
  OBVIOUS
<1>2. x * 16 + char2hex(c) \in Nat
  BY HexDigit
<1>. QED  BY <1>1, <1>2 DEF Shifted

LEMMA ZeroIsWord == ZeroWord \in Word
BY DEF ZeroWord, Word

LEMMA NextWordRange ==
  ASSUME NEW a \in 0..(AddrSpace - 1)
  PROVE  NextWord(a) \in 0..(AddrSpace - 1)
<1>1. \A y \in Nat : y % AddrSpace \in 0..(AddrSpace - 1)
  BY UartMsgAssumption
<1>. QED  BY <1>1, UartMsgAssumption DEF NextWord

LEMMA BurstSpaceIsPositive == BurstSpace \in Nat /\ BurstSpace > 15
BY SMT DEF BurstSpace

Ranges ==
  /\ RxMsgCnt \in 0..31 /\ burst_cnt \in 0..(BurstSpace - 1)
  /\ reg_addr \in 0..(AddrSpace - 1) /\ reg_wdata \in Word /\ reg_be \subseteq Lanes
  /\ reg_wr \in BOOLEAN /\ reg_req \in BOOLEAN

LEMMA WriteRequestTyped ==
  ASSUME Ranges, WriteRequest
  PROVE  reg_wdata' \in Word /\ reg_be' \subseteq Lanes /\ reg_wr' \in BOOLEAN /\ reg_req' \in BOOLEAN
<1>. DEFINE digits == RxMsgCnt % 16
            low == reg_addr % 4
            bytes == digits \div 2
<1>1. low \in 0..3 /\ digits \in 0..15
  BY UartMsgAssumption DEF Ranges
<1>2. CASE digits \in {2, 4, 6}
  <2>1. reg_be' = {(low + i) % 4 : i \in 0..(bytes - 1)} /\ bytes \in 1..3
    BY <1>2 DEF WriteRequest
  <2>2. reg_wdata' = [i \in 0..7 |->
                     IF low + bytes <= 4 /\ i \in 2 * low..(2 * (low + bytes) - 1)
                       THEN reg_wdata[i - 2 * low] ELSE 0]
    BY <1>2 DEF WriteRequest
  <2>3. \A i \in 0..(bytes - 1) : (low + i) % 4 \in 0..3
    <3>1. \A x \in Nat : x % 4 \in 0..3
      OBVIOUS
    <3>. QED  BY <1>1, <2>1, <3>1
  <2>4. reg_be' \subseteq Lanes
    BY <2>1, <2>3 DEF Lanes
  <2>5. ASSUME NEW i \in 0..7, low + bytes <= 4, i \in 2 * low..(2 * (low + bytes) - 1)
        PROVE  reg_wdata[i - 2 * low] \in 0..15
    <3>1. i - 2 * low \in 0..7
      BY <1>1, <2>1, <2>5
    <3>. QED  BY <3>1 DEF Ranges, Word
  <2>6. reg_wdata' \in Word
    BY <2>2, <2>5 DEF Word
  <2>. QED  BY <2>4, <2>6 DEF WriteRequest
<1>3. CASE digits \notin {2, 4, 6}
  BY <1>3 DEF WriteRequest, Ranges
<1>. QED  BY <1>2, <1>3

LEMMA HandlerTyped ==
  ASSUME Ranges, NEW c, NEW ack, NEW rdata, NEW over, Handler(c, ack, rdata, over)
  PROVE  Ranges'
<1>. USE DEF Ranges, busVars
<1>a. {0, 1} \subseteq 0..(BurstSpace - 1)
  BY BurstSpaceIsPositive
<1>b. Count => RxMsgCnt' \in 0..31
  BY DEF Count
<1>1. CASE PoweronWait(over) \/ TxMessage(over) \/ SendRdData(rdata)
  BY <1>a, <1>1 DEF PoweronWait, TxMessage, SendRdData
<1>2. CASE Idle \/ IdleTxMsg1 \/ IdleTxMsg2
  BY <1>a, <1>2 DEF Idle, IdleTxMsg1, IdleTxMsg2, Send
<1>3. CASE RxCmdPhase(c)
  BY <1>a, <1>b, <1>3, UartMsgAssumption DEF RxCmdPhase
<1>4. CASE AdrPhase(c)
  <2>1. Shifted(reg_addr, c, AddrSpace) \in 0..(AddrSpace - 1)
    BY ShiftedRange, UartMsgAssumption
  <2>2. CASE AddressEnds(c) /\ UNCHANGED reg_addr
    <3>1. CASE cmd = <<"w", "m">> /\ c = Space
      BY <2>2, <3>1, ZeroIsWord DEF AddressEnds
    <3>2. CASE cmd = <<"r", "m">> /\ c = Break
      BY <1>a, <2>2, <3>2 DEF AddressEnds
    <3>3. CASE cmd = <<"b", "r">> /\ c = Space
      BY <1>a, <2>2, <3>3 DEF AddressEnds
    <3>. QED  BY <2>2, <3>1, <3>2, <3>3 DEF AddressEnds
  <2>. QED  BY <1>a, <1>b, <1>4, <2>1, <2>2 DEF AdrPhase
<1>5. CASE WrDataPhase(c)
  <2>1. ShiftedWord(reg_wdata, c) \in Word
    BY HexDigit DEF ShiftedWord, Word
  <2>2. CASE WriteRequest /\ UNCHANGED <<RxMsgCnt, reg_addr>>
    BY <1>a, <1>5, <2>2, WriteRequestTyped DEF WrDataPhase
  <2>. QED  BY <1>a, <1>b, <1>5, <2>1, <2>2 DEF WrDataPhase
<1>6. CASE RxdBrdSize(c)
  <2>1. Shifted(burst_cnt, c, BurstSpace) \in 0..(BurstSpace - 1)
    BY ShiftedRange, BurstSpaceIsPositive
  <2>. QED  BY <1>a, <1>b, <1>6, <2>1 DEF RxdBrdSize
<1>7. CASE SendBwrReq(ack) \/ SendWrReq(ack) \/ SendRdReq(ack)
  <2>1. CASE SendBwrReq(ack)
    <3>1. NextWord(reg_addr) \in 0..(AddrSpace - 1)
      BY NextWordRange
    <3>2. CASE ack
      <4>1. /\ reg_req' \in BOOLEAN /\ reg_addr' = NextWord(reg_addr) /\ reg_wdata' = ZeroWord
            /\ reg_be' \subseteq Lanes /\ RxMsgCnt' = 0 /\ UNCHANGED <<reg_wr, burst_cnt>>
        BY <2>1, <3>2 DEF SendBwrReq
      <4>. QED  BY <3>1, <4>1, ZeroIsWord
    <3>3. CASE ~ack
      BY <2>1, <3>3 DEF SendBwrReq
    <3>. QED  BY <3>2, <3>3
  <2>2. CASE SendWrReq(ack)
    BY <2>2 DEF SendWrReq, Send
  <2>3. CASE SendRdReq(ack)
    BY <2>3, NextWordRange DEF SendRdReq
  <2>. QED  BY <1>7, <2>1, <2>2, <2>3
<1>8. CASE PendBrdReq
  <2>1. (burst_cnt + BurstSpace - 1) % BurstSpace \in 0..(BurstSpace - 1)
    <3>1. \A x \in Nat : x % BurstSpace \in 0..(BurstSpace - 1)
      BY BurstSpaceIsPositive
    <3>. QED  BY <3>1, BurstSpaceIsPositive
  <2>. QED  BY <1>8, <2>1 DEF PendBrdReq
<1>. QED  BY <1>1, <1>2, <1>3, <1>4, <1>5, <1>6, <1>7, <1>8 DEF Handler

LEMMA TypedInit == Init => Typed
<1>1. 0 \in 0..(AddrSpace - 1) /\ 0 \in 0..(BurstSpace - 1) /\ {} \subseteq Lanes
  BY UartMsgAssumption, BurstSpaceIsPositive
<1>. SUFFICES ASSUME Init
              PROVE  Typed
  OBVIOUS
<1>2. memory \in [WordAddrs -> Word]
  BY ZeroIsWord DEF Init
<1>3. /\ RxMsgCnt = 0 /\ burst_cnt = 0 /\ reg_addr = 0 /\ reg_wdata = ZeroWord /\ reg_be \subseteq Lanes
      /\ reg_wr \in BOOLEAN /\ reg_req \in BOOLEAN /\ in_reg_rdata = ZeroWord /\ wb_dat_o = ZeroWord
  BY <1>1 DEF Init, HandlerInit, RegBusInit
<1>. QED  BY <1>1, <1>2, <1>3, ZeroIsWord DEF Typed, TypeOK

LEMMA ChipTyped ==
  ASSUME Typed, ChipSide
  PROVE  memory' \in [WordAddrs -> Word] /\ wb_dat_o' \in Word
<1>1. CASE Silent
  BY <1>1 DEF Silent, Typed, TypeOK
<1>2. ASSUME NEW w \in WordAddrs, Answers(w)
      PROVE  memory' \in [WordAddrs -> Word] /\ wb_dat_o' \in Word
  <2>1. [i \in 0..7 |-> IF i \div 2 \in reg_be THEN reg_wdata[i] ELSE memory[w][i]] \in Word
    BY DEF Typed, TypeOK, Word
  <2>. QED  BY <1>2, <2>1 DEF Answers, Typed, TypeOK
<1>. QED  BY <1>1, <1>2 DEF ChipSide

LEMMA TypedStep ==
  ASSUME Typed, [Next]_vars
  PROVE  Typed'
<1>1. Typed <=> /\ Ranges /\ in_reg_rdata \in Word
                /\ memory \in [WordAddrs -> Word] /\ wb_dat_o \in Word
  BY DEF Typed, TypeOK, Ranges
<1>2. Typed' <=> /\ Ranges' /\ in_reg_rdata' \in Word
                 /\ memory' \in [WordAddrs -> Word] /\ wb_dat_o' \in Word
  BY DEF Typed, TypeOK, Ranges
<1>3. CASE UNCHANGED vars
  BY <1>3 DEF vars, handlerVars, regBusVars, iniVars, bridgeVars, Typed, TypeOK
<1>4. ASSUME NEW over, LineSide(over)
      PROVE  Ranges'
  <2>1. PICK c : Takes(c, over)
    BY <1>4 DEF LineSide, Waits, TypesOn, BeginsLine
  <2>. QED  BY <1>1, <2>1, HandlerTyped DEF Takes
<1>5. ASSUME NEW expires, Initiator(reg_req, wbm_uart_dat_o, ZeroWord, expires)
      PROVE  in_reg_rdata' \in Word
  <2>1. wbm_uart_dat_o \in Word
    BY ZeroIsWord DEF wbm_uart_dat_o, Typed
  <2>. QED  BY <1>1, <1>5, <2>1, ZeroIsWord
            DEF Initiator, IniIdle, IniDone, IniTimesOut, IniWaits, IniTarDone
<1>6. CASE LineClock
  BY <1>1, <1>2, <1>4, <1>5, <1>6 DEF LineClock, LineEdge, InEdge, bridgeVars
<1>7. CASE ChipEdge
  BY <1>1, <1>2, <1>7, ChipTyped DEF ChipEdge, OutEdge, iniVars, handlerVars, Ranges
<1>8. CASE BothClocks
  BY <1>1, <1>2, <1>4, <1>5, <1>8, ChipTyped DEF BothClocks, BothEdges, InOutEdge
<1>. QED  BY <1>3, <1>6, <1>7, <1>8 DEF Next

(* The registers of the interpreter and of the bus hold values of their     *)
(* widths, for every address space, with the timer and with the other host, *)
(* whatever is typed.                                                       *)
THEOREM TypeCorrect == Spec => []TypeOK
<1>1. Typed => TypeOK
  BY DEF Typed
<1>. QED  BY <1>1, TypedInit, TypedStep, PTL DEF Spec

------------------------------------------------------------------------------
Size(command) == IF command.op = "rm" THEN 1 ELSE command.size

Shown(mem, command, n) == [k \in 1..n |-> mem[WordOf(command.adr) + k - 1]]

Stored(mem, command, n) ==
  [w \in WordAddrs |-> [i \in 0..7 |->
    LET d == w - WordOf(command.adr) + 1
        k == i - 2 * (command.adr % 4)
    IN  IF d \in 1..n /\ k \in 0..(Len(command.data[d]) - 1)
          THEN Nibble(command.data[d], k) ELSE mem[w][i]]]

------------------------------------------------------------------------------
LEMMA DigitsRead ==
  ASSUME NEW d \in 1..16
  PROVE  Digits[d] \notin {NoChar, Space, Break} /\ char2hex(Digits[d]) = d - 1
<1>1. \A e \in 1..16 : Digits[e] = Digits[d] => e = d
  BY DEF Digits
<1>2. (CHOOSE e \in 1..16 : Digits[e] = Digits[d]) = d
  BY <1>1
<1>. QED  BY <1>2 DEF char2hex, Digits, NoChar, Space, Break

LEMMA Forms ==
  ASSUME NEW command \in Commands
  PROVE  /\ command.op \in {"wm", "rm", "br"} /\ command.adr \in 0..15
         /\ command.op = "wm" =>
              /\ Len(command.data) \in Nat \ {0}
              /\ WordOf(command.adr) + Len(command.data) <= AddrSpace \div 4
         /\ command.op = "rm" => WordOf(command.adr) + 1 <= AddrSpace \div 4
         /\ command.op = "br" =>
              command.size \in 1..15 /\ WordOf(command.adr) + command.size <= AddrSpace \div 4
<1>. DEFINE words == CASE command.op = "wm" -> Len(command.data)
                       [] command.op = "rm" -> 1
                       [] command.op = "br" -> command.size
<1>1. /\ command.op \in {"wm", "rm", "br"} /\ command.adr \in 0..15
      /\ command.op = "wm" =>
           /\ command.data \in Seq(Seq({Digits[e] : e \in 1..16}))
           /\ \A e \in DOMAIN command.data : IsDatum(command, command.data[e])
      /\ command.op = "br" => command.size \in 0..15
      /\ words > 0 /\ WordOf(command.adr) + words <= AddrSpace \div 4
  BY CommandsAssumption DEF WellFormed
<1>2. /\ command.op = "wm" => words = Len(command.data)
      /\ command.op = "rm" => words = 1
      /\ command.op = "br" => words = command.size
  OBVIOUS
<1>. HIDE DEF words
<1>3. command.op = "wm" => Len(command.data) \in Nat
  BY <1>1
<1>. QED  BY <1>1, <1>2, <1>3

Plain(c) == c \notin {NoChar, Space, Break}

LEMMA Names ==
  ASSUME NEW command \in Commands
  PROVE  /\ command.op \in {"wm", "rm", "br"}
         /\ Name(command) \in Known
         /\ Name(command) = <<Name(command)[1], Name(command)[2]>>
         /\ Plain(Name(command)[1]) /\ Plain(Name(command)[2])
         /\ Char(command, 1, 1) = Name(command)[1] /\ Char(command, 1, 2) = Name(command)[2]
         /\ Char(command, 1, 3) = Space
         /\ Len(Field(command, 1)) = 2 /\ Fields(command) \in Nat /\ Fields(command) > 1
<1>1. command.op \in {"wm", "rm", "br"}
  BY CommandsAssumption DEF WellFormed
<1>2. /\ Len(Name(command)) = 2
      /\ Name(command) \in Known
      /\ Name(command) = <<Name(command)[1], Name(command)[2]>>
      /\ Plain(Name(command)[1]) /\ Plain(Name(command)[2])
  BY <1>1 DEF Name, Known, Plain, NoChar, Space, Break
<1>3. Field(command, 1) = Name(command)
  BY DEF Field
<1>4. Fields(command) \in Nat /\ Fields(command) > 1
  <2>1. CASE command.op = "wm"
    <3>1. Len(command.data) \in Nat \ {0}
      BY <2>1, Forms
    <3>. QED  BY <2>1, <3>1 DEF Fields
  <2>2. CASE command.op \in {"rm", "br"}
    BY <2>2 DEF Fields
  <2>. QED  BY <1>1, <2>1, <2>2
<1>5. Char(command, 1, 1) = Name(command)[1] /\ Char(command, 1, 2) = Name(command)[2]
  <2>1. Len(Field(command, 1)) = 2
    BY <1>2, <1>3
  <2>2. 1 <= Len(Field(command, 1)) /\ 2 <= Len(Field(command, 1))
    BY <2>1
  <2>. QED  BY <1>3, <2>2 DEF Char
<1>6. Char(command, 1, 3) = Space
  BY <1>2, <1>3, <1>4 DEF Char
<1>. QED  BY <1>1, <1>2, <1>3, <1>4, <1>5, <1>6

LEMMA Addresses ==
  ASSUME NEW command \in Commands
  PROVE  /\ command.adr \in 0..15
         /\ Plain(Char(command, 2, 1)) /\ char2hex(Char(command, 2, 1)) = command.adr
         /\ Char(command, 2, 2) = IF command.op = "rm" THEN Break ELSE Space
         /\ Len(Field(command, 2)) = 1
         /\ Fields(command) > 2 <=> command.op # "rm"
<1>1. command.op \in {"wm", "rm", "br"} /\ command.adr \in 0..15
  BY CommandsAssumption DEF WellFormed
<1>2. Field(command, 2) = <<Digits[command.adr + 1]>>
  BY DEF Field
<1>0. command.op = "wm" => Len(command.data) \in Nat /\ Len(command.data) > 0
  <2>1. command.op = "wm" => Len(command.data) \in Nat \ {0}
    BY Forms
  <2>. QED  BY <2>1
<1>3. Fields(command) > 2 <=> command.op # "rm"
  BY <1>0, <1>1 DEF Fields
<1>4. command.adr + 1 \in 1..16 /\ (command.adr + 1) - 1 = command.adr
  BY <1>1
<1>5. Len(Field(command, 2)) = 1 /\ Field(command, 2)[1] = Digits[command.adr + 1]
  BY <1>2
<1>6. Fields(command) \in Int
  <2>1. CASE command.op = "wm"
    BY <1>0, <2>1 DEF Fields
  <2>2. CASE command.op \in {"rm", "br"}
    BY <2>2 DEF Fields
  <2>. QED  BY <1>1, <2>1, <2>2
<1>7. Char(command, 2, 1) = Digits[command.adr + 1]
  BY <1>5 DEF Char
<1>8. Char(command, 2, 2) = IF command.op = "rm" THEN Break ELSE Space
  BY <1>3, <1>5, <1>6 DEF Char
<1>. QED  BY <1>1, <1>3, <1>4, <1>5, <1>7, <1>8, DigitsRead DEF Plain

LEMMA Sizes ==
  ASSUME NEW command \in Commands, command.op = "br"
  PROVE  /\ command.size \in 1..15
         /\ Plain(Char(command, 3, 1)) /\ char2hex(Char(command, 3, 1)) = command.size
         /\ Char(command, 3, 2) = Break
         /\ Len(Field(command, 3)) = 1 /\ Fields(command) = 3
<1>1. command.size \in 1..15
  BY Forms
<1>2. Field(command, 3) = <<Digits[command.size + 1]>>
  BY DEF Field
<1>3. command.size + 1 \in 1..16 /\ (command.size + 1) - 1 = command.size
  BY <1>1
<1>4. Fields(command) = 3
  BY DEF Fields
<1>5. Char(command, 3, 1) = Digits[command.size + 1] /\ Char(command, 3, 2) = Break
  BY <1>2, <1>4 DEF Char
<1>. QED  BY <1>1, <1>2, <1>3, <1>4, <1>5, DigitsRead DEF Plain

LEMMA Data ==
  ASSUME NEW command \in Commands, command.op = "wm", NEW d \in 1..Len(command.data)
  PROVE  LET datum == command.data[d] IN
         /\ Len(datum) \in {2, 4, 6, 8}
         /\ (command.adr % 4) + (Len(datum) \div 2) <= 4
         /\ Field(command, d + 2) = datum
         /\ \A i \in 1..Len(datum) : Char(command, d + 2, i) = datum[i] /\ Plain(datum[i])
         /\ Char(command, d + 2, Len(datum) + 1) = IF d < Len(command.data) THEN Space ELSE Break
         /\ Fields(command) = Len(command.data) + 2
<1>. DEFINE datum == command.data[d]
<1>1. /\ command.data \in Seq(Seq({Digits[e] : e \in 1..16}))
      /\ \A e \in DOMAIN command.data : IsDatum(command, command.data[e])
  BY CommandsAssumption DEF WellFormed
<1>2. datum \in Seq({Digits[e] : e \in 1..16}) /\ IsDatum(command, datum) /\ Len(command.data) \in Nat
  BY <1>1
<1>3. Field(command, d + 2) = datum
  BY <1>2 DEF Field
<1>4. Fields(command) = Len(command.data) + 2
  BY <1>2 DEF Fields
<1>5. \A i \in 1..Len(datum) : datum[i] \in {Digits[e] : e \in 1..16}
  BY <1>2
<1>6. \A i \in 1..Len(datum) : Plain(datum[i])
  BY <1>5, DigitsRead DEF Plain
<1>7. Len(datum) \in Nat
  BY <1>2
<1>8. \A i \in 1..Len(datum) : Char(command, d + 2, i) = datum[i]
  BY <1>3, <1>7 DEF Char
<1>9. Char(command, d + 2, Len(datum) + 1) = IF d < Len(command.data) THEN Space ELSE Break
  BY <1>2, <1>3, <1>4, <1>7 DEF Char
<1>. QED  BY <1>2, <1>3, <1>4, <1>6, <1>8, <1>9 DEF IsDatum

(* What a line reaches is in the memory, and no address wraps.              *)
LEMMA Reach ==
  ASSUME NEW command \in Commands,
         NEW n \in Nat, n < IF command.op = "wm" THEN Len(command.data) ELSE Size(command)
  PROVE  /\ WordOf(command.adr) \in Nat
         /\ command.adr + 4 * n \in 0..(AddrSpace - 1)
         /\ WordOf(command.adr + 4 * n) = WordOf(command.adr) + n
         /\ WordOf(command.adr) + n \in WordAddrs
         /\ (command.adr + 4 * n) % 4 = command.adr % 4
<1>. DEFINE words == IF command.op = "wm" THEN Len(command.data) ELSE Size(command)
            a == command.adr
<1>1. a \in Nat /\ words \in Nat /\ WordOf(a) + words <= AddrSpace \div 4
  <2>. USE Forms DEF Size
  <2>1. CASE command.op = "wm"
    BY <2>1
  <2>2. CASE command.op = "rm"
    BY <2>2
  <2>3. CASE command.op = "br"
    BY <2>3
  <2>. QED  BY <2>1, <2>2, <2>3
<1>2. \A x \in Nat : x = 4 * (x \div 4) + (x % 4) /\ x % 4 \in 0..3 /\ x \div 4 \in Nat
  OBVIOUS
<1>3. \A x, m \in Nat : (x + 4 * m) \div 4 = (x \div 4) + m /\ (x + 4 * m) % 4 = x % 4
  OBVIOUS
<1>4. AddrSpace \in Nat
  BY UartMsgAssumption
<1>5. WordOf(a) + n < AddrSpace \div 4
  BY <1>1, <1>2, <1>4 DEF WordOf
<1>6. a + 4 * n < AddrSpace
  BY <1>1, <1>2, <1>4, <1>5 DEF WordOf
<1>7. WordOf(a) \in Nat /\ WordOf(a + 4 * n) = WordOf(a) + n /\ (a + 4 * n) % 4 = a % 4
  BY <1>1, <1>2, <1>3 DEF WordOf
<1>8. WordOf(a) + n \in WordAddrs
  <2>1. AddrSpace \div 4 \in Nat
    BY <1>2, <1>4
  <2>. HIDE DEF a
  <2>. QED  BY <1>5, <1>7, <2>1 DEF WordAddrs
<1>. QED  BY <1>1, <1>4, <1>6, <1>7, <1>8

------------------------------------------------------------------------------
(* The memory while the data are stored one after the other.                *)
LEMMA NothingStored ==
  ASSUME NEW mem \in [WordAddrs -> Word], NEW command
  PROVE  Stored(mem, command, 0) = mem
<1>1. \A w \in WordAddrs : mem[w] = [i \in 0..7 |-> mem[w][i]]
  BY DEF Word
<1>2. Stored(mem, command, 0) = [w \in WordAddrs |-> [i \in 0..7 |-> mem[w][i]]]
  BY DEF Stored
<1>. QED  BY <1>1, <1>2

(* Which datum and which of its digits a digit of the memory gets.          *)
LEMMA Places ==
  ASSUME NEW a \in Nat, NEW w \in Nat, NEW i \in 0..7, NEW d \in Nat \ {0}, NEW n \in Nat,
         2 * (a % 4) + n <= 8
  PROVE  /\ 8 * w + i - 2 * (a + 4 * (d - 1)) = 8 * (w - (a \div 4 + d - 1)) + (i - 2 * (a % 4))
         /\ 8 * w + i \in 2 * (a + 4 * (d - 1))..(2 * (a + 4 * (d - 1)) + n - 1)
              <=> w = a \div 4 + d - 1 /\ i - 2 * (a % 4) \in 0..(n - 1)
<1>1. a = 4 * (a \div 4) + (a % 4) /\ a % 4 \in 0..3 /\ a \div 4 \in Nat
  OBVIOUS
<1>. QED  BY <1>1

LEMMA AllStored ==
  ASSUME NEW mem, NEW command \in Commands, command.op = "wm"
  PROVE  Stored(mem, command, Len(command.data)) = Written(mem, command)
<1>. DEFINE a == command.adr
            n == Len(command.data)
            digits(d) == Len(command.data[d])
<1>1. a \in Nat /\ n \in Nat
  BY Forms
<1>2. DOMAIN command.data = 1..n
  <2>1. command.data \in Seq(Seq({Digits[e] : e \in 1..16}))
    BY CommandsAssumption DEF WellFormed
  <2>. QED  BY <2>1
<1>3. \A d \in 1..n : digits(d) \in {2, 4, 6, 8} /\ (a % 4) + (digits(d) \div 2) <= 4
  BY Data
<1>4. \A d \in 1..n : digits(d) \in Nat /\ 2 * (a % 4) + digits(d) <= 8
  <2>1. a % 4 \in Nat
    BY <1>1
  <2>. HIDE DEF digits, n, a
  <2>. QED  BY <1>3, <2>1
<1>5. ASSUME NEW w \in WordAddrs, NEW i \in 0..7
      PROVE  Stored(mem, command, n)[w][i] = Written(mem, command)[w][i]
  <2>. DEFINE d == w - WordOf(a) + 1
              k == i - 2 * (a % 4)
              nibble == 8 * w + i
  <2>1. w \in Nat /\ WordOf(a) \in Nat /\ WordOf(a) = a \div 4
    BY <1>1, UartMsgAssumption DEF WordAddrs, WordOf
  <2>2. Stored(mem, command, n)[w][i] =
          IF d \in 1..n /\ k \in 0..(digits(d) - 1) THEN Nibble(command.data[d], k) ELSE mem[w][i]
    BY DEF Stored
  <2>3. Written(mem, command)[w][i] = NibbleAfter(mem[w][i], command, nibble)
    BY DEF Written
  <2>4. ASSUME NEW e \in 1..n
        PROVE  Reaches(command, e, nibble) <=> e = d /\ k \in 0..(digits(e) - 1)
    <3>. HIDE DEF digits, n, a
    <3>1. e \in Nat \ {0}
      BY <1>1
    <3>2. /\ nibble \in 2 * (a + 4 * (e - 1))..(2 * (a + 4 * (e - 1)) + digits(e) - 1)
               <=> w = a \div 4 + e - 1 /\ k \in 0..(digits(e) - 1)
      BY <1>1, <1>4, <2>1, <3>1, Places
    <3>3. w = a \div 4 + e - 1 <=> e = d
      BY <1>1, <2>1, <3>1
    <3>. QED  BY <3>2, <3>3 DEF Reaches, At, a, digits
  <2>5. CASE d \in 1..n /\ k \in 0..(digits(d) - 1)
    <3>. HIDE DEF d, k, n, digits, nibble
    <3>1. Reaches(command, d, nibble) /\ \A e \in 1..n : Reaches(command, e, nibble) => e = d
      BY <2>4, <2>5
    <3>2. (CHOOSE e \in 1..n : Reaches(command, e, nibble)) = d
      BY <2>5, <3>1
    <3>3. NibbleAfter(mem[w][i], command, nibble) = Nibble(command.data[d], nibble - At(command, d))
      BY <1>2, <2>5, <3>1, <3>2 DEF NibbleAfter
    <3>4. nibble - At(command, d) = k
      <4>. HIDE DEF a
      <4>1. At(command, d) = 2 * (a + 4 * (w - WordOf(a)))
        BY <1>1, <2>1 DEF At, d, a
      <4>2. a = 4 * WordOf(a) + (a % 4) /\ a % 4 \in Nat
        BY <1>1, <2>1
      <4>. QED  BY <1>1, <2>1, <4>1, <4>2 DEF k, nibble
    <3>. QED  BY <2>2, <2>3, <2>5, <3>3, <3>4
  <2>6. CASE ~(d \in 1..n /\ k \in 0..(digits(d) - 1))
    <3>. HIDE DEF d, k, n, digits, nibble
    <3>1. \A e \in 1..n : ~Reaches(command, e, nibble)
      BY <2>4, <2>6
    <3>. QED  BY <1>2, <2>2, <2>3, <2>6, <3>1 DEF NibbleAfter
  <2>. QED  BY <2>5, <2>6
<1>6. ASSUME NEW w \in WordAddrs
      PROVE  Stored(mem, command, n)[w] = Written(mem, command)[w]
  <2>1. /\ Stored(mem, command, n)[w] = [i \in 0..7 |-> Stored(mem, command, n)[w][i]]
        /\ Written(mem, command)[w] = [i \in 0..7 |-> Written(mem, command)[w][i]]
    BY DEF Stored, Written
  <2>. HIDE DEF n
  <2>. QED  BY <1>5, <2>1
<1>7. /\ Stored(mem, command, n) = [w \in WordAddrs |-> Stored(mem, command, n)[w]]
      /\ Written(mem, command) = [w \in WordAddrs |-> Written(mem, command)[w]]
  BY DEF Stored, Written
<1>. HIDE DEF n
<1>. QED  BY <1>6, <1>7 DEF n

(* What the interpreter asks for while it stores a datum: its bytes, in the *)
(* place its address gives them.                                            *)
AsksFor(be, wdata, command, d) ==
  \A i \in 0..7 :
    LET k == i - 2 * (command.adr % 4)
    IN  /\ i \div 2 \in be <=> k \in 0..(Len(command.data[d]) - 1)
        /\ i \div 2 \in be => wdata[i] = Nibble(command.data[d], k)

LEMMA OneMoreStored ==
  ASSUME NEW mem, NEW command \in Commands, command.op = "wm",
         NEW d \in 1..Len(command.data), AsksFor(reg_be, reg_wdata, command, d),
         NEW old, old = Stored(mem, command, d - 1),
         NEW new, NEW w \in WordAddrs, w = WordOf(command.adr) + (d - 1),
         new = [old EXCEPT ![w] =
                 [i \in 0..7 |-> IF i \div 2 \in reg_be THEN reg_wdata[i] ELSE @[i]]]
  PROVE  new = Stored(mem, command, d)
<1>. DEFINE a == WordOf(command.adr)
            low == 2 * (command.adr % 4)
            n == Len(command.data)
<1>0. w = a + (d - 1)
  OBVIOUS
<1>1. a \in Nat /\ d \in Nat \ {0} /\ \A v \in WordAddrs : v \in Nat
  <2>1. command.adr \in Nat /\ n \in Nat
    BY Forms
  <2>. QED  BY <2>1, UartMsgAssumption DEF WordOf, WordAddrs
<1>2. ASSUME NEW v \in WordAddrs, v # w
      PROVE  new[v] = Stored(mem, command, d)[v]
  <2>1. new[v] = old[v]
    BY <1>2 DEF Stored
  <2>2. v - a + 1 \in 1..d <=> v - a + 1 \in 1..(d - 1)
    <3>. HIDE DEF a
    <3>. QED  BY <1>0, <1>1, <1>2
  <2>. QED  BY <2>1, <2>2 DEF Stored
<1>3. new[w] = Stored(mem, command, d)[w]
  <2>1. new[w] = [i \in 0..7 |-> IF i \div 2 \in reg_be THEN reg_wdata[i] ELSE old[w][i]]
    BY DEF Stored
  <2>2. w - a + 1 = d /\ d \in 1..d /\ d \notin 1..(d - 1)
    <3>. HIDE DEF a
    <3>. QED  BY <1>0, <1>1
  <2>3. ASSUME NEW i \in 0..7
        PROVE  old[w][i] = mem[w][i]
    BY <2>2 DEF Stored
  <2>4. ASSUME NEW i \in 0..7
        PROVE  Stored(mem, command, d)[w][i] =
                 IF i - low \in 0..(Len(command.data[d]) - 1)
                   THEN Nibble(command.data[d], i - low) ELSE mem[w][i]
    BY <2>2 DEF Stored
  <2>5. ASSUME NEW i \in 0..7
        PROVE  new[w][i] = Stored(mem, command, d)[w][i]
    <3>1. i \div 2 \in reg_be <=> i - low \in 0..(Len(command.data[d]) - 1)
      BY DEF AsksFor
    <3>2. i \div 2 \in reg_be => reg_wdata[i] = Nibble(command.data[d], i - low)
      BY DEF AsksFor
    <3>3. new[w][i] = IF i \div 2 \in reg_be THEN reg_wdata[i] ELSE old[w][i]
      BY <2>1
    <3>. HIDE DEF low
    <3>. QED  BY <2>3, <2>4, <3>1, <3>2, <3>3
  <2>6. Stored(mem, command, d)[w] = [i \in 0..7 |-> Stored(mem, command, d)[w][i]]
    BY DEF Stored
  <2>7. new[w] = [i \in 0..7 |-> new[w][i]]
    BY <2>1
  <2>. QED  BY <2>5, <2>6, <2>7
<1>4. /\ new = [v \in WordAddrs |-> new[v]]
      /\ Stored(mem, command, d) = [v \in WordAddrs |-> Stored(mem, command, d)[v]]
  BY DEF Stored
<1>. QED  BY <1>2, <1>3, <1>4

------------------------------------------------------------------------------
(* The interpreter's words while a datum is typed: its digits so far.       *)
TypedSoFar(datum, n) == [k \in 0..7 |-> IF k < n THEN char2hex(datum[n - k]) ELSE 0]

LEMMA OneMoreTyped ==
  ASSUME NEW datum, NEW n \in 0..7
  PROVE  ShiftedWord(TypedSoFar(datum, n), datum[n + 1]) = TypedSoFar(datum, n + 1)
<1>1. ASSUME NEW k \in 0..7
      PROVE  ShiftedWord(TypedSoFar(datum, n), datum[n + 1])[k] = TypedSoFar(datum, n + 1)[k]
  <2>1. CASE k = 0
    BY <2>1 DEF ShiftedWord, TypedSoFar
  <2>2. CASE k > 0
    <3>1. k - 1 \in 0..7 /\ (k - 1 < n <=> k < n + 1) /\ n - (k - 1) = n + 1 - k
      BY <2>2
    <3>. QED  BY <2>2, <3>1 DEF ShiftedWord, TypedSoFar
  <2>. QED  BY <2>1, <2>2
<1>2. /\ TypedSoFar(datum, n + 1) = [k \in 0..7 |-> TypedSoFar(datum, n + 1)[k]]
      /\ ShiftedWord(TypedSoFar(datum, n), datum[n + 1])
           = [k \in 0..7 |-> ShiftedWord(TypedSoFar(datum, n), datum[n + 1])[k]]
  BY DEF TypedSoFar, ShiftedWord
<1>. QED  BY <1>1, <1>2

LEMMA Requested ==
  ASSUME NEW command \in Commands, command.op = "wm", NEW d \in 1..Len(command.data),
         WriteRequest, RxMsgCnt = Len(command.data[d]),
         reg_addr % 4 = command.adr % 4,
         reg_wdata = TypedSoFar(command.data[d], Len(command.data[d]))
  PROVE  AsksFor(reg_be', reg_wdata', command, d)
<1>. DEFINE n == Len(command.data[d])
            low == command.adr % 4
            datum == command.data[d]
<1>1. n \in {2, 4, 6, 8} /\ low + (n \div 2) <= 4 /\ low \in 0..3
  <2>1. low \in 0..3
    <3>1. command.adr \in 0..15
      BY Forms
    <3>2. \A x \in 0..15 : x % 4 \in 0..3
      OBVIOUS
    <3>. QED  BY <3>1, <3>2
  <2>2. n \in {2, 4, 6, 8} /\ low + (n \div 2) <= 4
    BY Data
  <2>. QED  BY <2>1, <2>2
<1>2. RxMsgCnt % 16 = n
  <2>1. RxMsgCnt = n
    OBVIOUS
  <2>. HIDE DEF n
  <2>. QED  BY <1>1, <2>1
<1>3. SUFFICES ASSUME NEW i \in 0..7
               PROVE  /\ i \div 2 \in reg_be' <=> i - 2 * low \in 0..(n - 1)
                      /\ i \div 2 \in reg_be' => reg_wdata'[i] = Nibble(datum, i - 2 * low)
  BY DEF AsksFor
<1>4. \A k \in 0..(n - 1) : reg_wdata[k] = Nibble(datum, k)
  <2>1. \A k \in 0..(n - 1) : k \in 0..7 /\ k < n
    <3>. HIDE DEF n
    <3>. QED  BY <1>1
  <2>. QED  BY <2>1 DEF TypedSoFar, Nibble
<1>5. CASE n \in {2, 4, 6}
  <2>1. /\ reg_be' = {(low + j) % 4 : j \in 0..((n \div 2) - 1)}
        /\ reg_wdata' = [j \in 0..7 |->
             IF low + (n \div 2) <= 4 /\ j \in 2 * low..(2 * (low + (n \div 2)) - 1)
               THEN reg_wdata[j - 2 * low] ELSE 0]
    <3>1. /\ reg_be' = {((reg_addr % 4) + j) % 4 : j \in 0..(((RxMsgCnt % 16) \div 2) - 1)}
          /\ reg_wdata' = [j \in 0..7 |->
               IF (reg_addr % 4) + ((RxMsgCnt % 16) \div 2) <= 4
                    /\ j \in 2 * (reg_addr % 4)..(2 * ((reg_addr % 4) + ((RxMsgCnt % 16) \div 2)) - 1)
                 THEN reg_wdata[j - 2 * (reg_addr % 4)] ELSE 0]
      BY <1>2, <1>5 DEF WriteRequest
    <3>2. reg_addr % 4 = low
      OBVIOUS
    <3>. HIDE DEF n, low
    <3>. QED  BY <1>2, <3>1, <3>2
  <2>2. i \div 2 \in reg_be' <=> i - 2 * low \in 0..(n - 1)
    <3>1. i \div 2 \in reg_be' <=> \E j \in 0..((n \div 2) - 1) : i \div 2 = (low + j) % 4
      BY <2>1
    <3>. HIDE DEF n, low
    <3>2. \A j \in 0..((n \div 2) - 1) : (low + j) % 4 = low + j
      BY <1>1, <1>5
    <3>3. i - 2 * low \in 0..(n - 1) <=> (i \div 2) - low \in 0..((n \div 2) - 1)
      BY <1>1, <1>5
    <3>4. (i \div 2) - low \in 0..((n \div 2) - 1)
            => \E j \in 0..((n \div 2) - 1) : i \div 2 = low + j
      <4>1. i \div 2 = low + ((i \div 2) - low)
        BY <1>1
      <4>. QED  BY <4>1
    <3>5. \A j \in 0..((n \div 2) - 1) :
            i \div 2 = low + j => (i \div 2) - low \in 0..((n \div 2) - 1)
      BY <1>1
    <3>. QED  BY <3>1, <3>2, <3>3, <3>4, <3>5
  <2>3. i - 2 * low \in 0..(n - 1) => reg_wdata'[i] = reg_wdata[i - 2 * low]
    <3>1. i - 2 * low \in 0..(n - 1) => i \in 2 * low..(2 * (low + (n \div 2)) - 1)
      <4>. HIDE DEF n, low
      <4>. QED  BY <1>1, <1>5
    <3>. QED  BY <1>1, <2>1, <3>1
  <2>. QED  BY <1>4, <2>2, <2>3
<1>6. CASE n = 8
  <2>1. low = 0
    <3>. HIDE DEF n, low
    <3>. QED  BY <1>1, <1>6
  <2>2. reg_be' = 0..3 /\ reg_wdata' = reg_wdata
    BY <1>2, <1>6 DEF WriteRequest, Lanes
  <2>3. i \div 2 \in 0..3 /\ i - 2 * low \in 0..(n - 1) /\ i - 2 * low = i
    <3>. HIDE DEF n, low
    <3>. QED  BY <1>6, <2>1
  <2>. QED  BY <1>4, <2>2, <2>3
<1>. QED  BY <1>1, <1>5, <1>6

------------------------------------------------------------------------------
(* The stages of a line, from the prompt back to the prompt.                *)
Untouched == memory = before /\ printed = Shown(before, line, 0)

Naming ==
  /\ State = "RX_CMD_PHASE" /\ field = 1
  /\ \/ char = 2 /\ cmd[2] = Name(line)[1] /\ RxMsgCnt \in 1..9
     \/ char = 3 /\ cmd = Name(line) /\ RxMsgCnt \in 2..10
  /\ Untouched

Addressing ==
  /\ State = "ADR_PHASE" /\ field = 2 /\ cmd = Name(line)
  /\ \/ char = 1 /\ reg_addr = 0 /\ RxMsgCnt = 0
     \/ char = 2 /\ reg_addr = line.adr /\ RxMsgCnt = 1
  /\ Untouched

Sizing ==
  /\ State = "RXD_BRD_SIZE" /\ field = 3 /\ line.op = "br"
  /\ \/ char = 1 /\ burst_cnt = 0 /\ RxMsgCnt = 1
     \/ char = 2 /\ burst_cnt = line.size /\ RxMsgCnt = 2
  /\ reg_addr = line.adr /\ ~reg_wr
  /\ Untouched

(* The d-th datum is typed, up to its n-th digit; the others are stored.    *)
WritingDatum(d, n) ==
  /\ field = d + 2 /\ char = n + 1 /\ n \in 0..Len(line.data[d]) /\ RxMsgCnt = n
  /\ reg_addr = line.adr + 4 * (d - 1)
  /\ reg_wdata = TypedSoFar(line.data[d], n)
  /\ memory = Stored(before, line, d - 1)

Writing ==
  /\ State = "WR_DATA_PHASE" /\ line.op = "wm" /\ printed = Shown(before, line, 0)
  /\ \E d \in 1..Len(line.data), n \in 0..8 : WritingDatum(d, n)

(* An access has been served, and is being answered.                        *)
Served == in_reg_ack \/ wb_ack_o \/ (in_state = "INI_WAIT_ACK" /\ out_flag)

StoringDatum(d) ==
  /\ IF d < Len(line.data) THEN State = "SEND_BWR_REQ" /\ field = d + 3 /\ char = 1
                           ELSE State = "SEND_WR_REQ" /\ field = 0
  /\ reg_addr = line.adr + 4 * (d - 1)
  /\ AsksFor(reg_be, reg_wdata, line, d)
  /\ memory = Stored(before, line, IF Served THEN d ELSE d - 1)

Storing ==
  /\ line.op = "wm" /\ reg_wr /\ RxMsgCnt \in 0..8 /\ printed = Shown(before, line, 0)
  /\ \E d \in 1..Len(line.data) : StoringDatum(d)

(* n words have been shown.                                                 *)
Fetching(n) ==
  /\ State = "SEND_RD_REQ" /\ printed = Shown(before, line, n)
  /\ burst_cnt = Size(line) - n /\ reg_addr = line.adr + 4 * n

Following(n) == burst_cnt = Size(line) - n /\ reg_addr = line.adr + 4 * (n + 1)

Fetched(n) ==
  /\ State = "SEND_RD_DATA" /\ printed = Shown(before, line, n)
  /\ in_reg_rdata = before[WordOf(line.adr) + n]
  /\ IF n + 1 < Size(line) THEN NextState = "PEND_BRD_REQ" /\ Following(n)
                           ELSE NextState = "RX_CMD_PHASE"

Showing(n) ==
  /\ State \in {"TX_MSG", "PEND_BRD_REQ"} /\ NextState = "PEND_BRD_REQ"
  /\ printed = Shown(before, line, n + 1) /\ n + 1 < Size(line) /\ Following(n)

Reading ==
  /\ line.op \in {"rm", "br"} /\ field = 0 /\ ~reg_wr /\ RxMsgCnt \in 0..8 /\ memory = before
  /\ \E n \in 0..(Size(line) - 1) : Fetching(n) \/ Fetched(n) \/ Showing(n)

Finished ==
  /\ State = "RX_CMD_PHASE" \/ (State = "TX_MSG" /\ NextState = "RX_CMD_PHASE")
  /\ field = 0 /\ RxMsgCnt \in 0..8
  /\ memory = MemoryAfter(before, line) /\ printed = WordsShown(before, line)

Stage == Naming \/ Addressing \/ Sizing \/ Writing \/ Storing \/ Reading \/ Finished

Starting ==
  /\ lines = 0 /\ field = 0 /\ RxMsgCnt = 0
  /\ State \in {"POWERON_WAIT", "IDLE", "IDLE_TX_MSG1", "IDLE_TX_MSG2", "TX_MSG", "RX_CMD_PHASE"}
  /\ State = "TX_MSG" => NextState \in {"IDLE_TX_MSG1", "IDLE_TX_MSG2", "RX_CMD_PHASE"}

Course ==
  /\ lines \in Nat /\ before \in [WordAddrs -> Word]
  /\ Starting \/ (lines > 0 /\ line \in Commands /\ Stage)

(* The word that is read arrives with the acknowledge.                      *)
Answered ==
  /\ in_reg_ack => State \in Sends
  /\ in_reg_ack /\ ~reg_wr => in_reg_rdata = memory[WordOf(reg_addr)]

------------------------------------------------------------------------------
(* An edge of the line's clock by the interpreter's state.                  *)
LEMMA ByState ==
  ASSUME NEW c, NEW over, Takes(c, over)
  PROVE  /\ State = "POWERON_WAIT" => PoweronWait(over)
         /\ State = "IDLE" => Idle
         /\ State = "IDLE_TX_MSG1" => IdleTxMsg1
         /\ State = "IDLE_TX_MSG2" => IdleTxMsg2
         /\ State = "TX_MSG" => TxMessage(over)
         /\ State = "RX_CMD_PHASE" => RxCmdPhase(c)
         /\ State = "ADR_PHASE" => AdrPhase(c)
         /\ State = "WR_DATA_PHASE" => WrDataPhase(c)
         /\ State = "RXD_BRD_SIZE" => RxdBrdSize(c)
         /\ State = "SEND_BWR_REQ" => SendBwrReq(in_reg_ack)
         /\ State = "SEND_WR_REQ" => SendWrReq(in_reg_ack)
         /\ State = "SEND_RD_REQ" => SendRdReq(in_reg_ack)
         /\ State = "PEND_BRD_REQ" => PendBrdReq
         /\ State = "SEND_RD_DATA" => SendRdData(in_reg_rdata)
<1>1. /\ PoweronWait(over) => State = "POWERON_WAIT"
      /\ Idle => State = "IDLE"
      /\ IdleTxMsg1 => State = "IDLE_TX_MSG1"
      /\ IdleTxMsg2 => State = "IDLE_TX_MSG2"
      /\ TxMessage(over) => State = "TX_MSG"
      /\ RxCmdPhase(c) => State = "RX_CMD_PHASE"
      /\ AdrPhase(c) => State = "ADR_PHASE"
  BY DEF PoweronWait, Idle, IdleTxMsg1, IdleTxMsg2, TxMessage, RxCmdPhase, AdrPhase
<1>2. /\ WrDataPhase(c) => State = "WR_DATA_PHASE"
      /\ RxdBrdSize(c) => State = "RXD_BRD_SIZE"
      /\ SendBwrReq(in_reg_ack) => State = "SEND_BWR_REQ"
      /\ SendWrReq(in_reg_ack) => State = "SEND_WR_REQ"
      /\ SendRdReq(in_reg_ack) => State = "SEND_RD_REQ"
      /\ PendBrdReq => State = "PEND_BRD_REQ"
      /\ SendRdData(in_reg_rdata) => State = "SEND_RD_DATA"
  BY DEF WrDataPhase, RxdBrdSize, SendBwrReq, SendWrReq, SendRdReq, PendBrdReq, SendRdData
<1>. QED  BY <1>1, <1>2 DEF Takes, Handler

(* A key of the line that is typed, or none.                                *)
Key(c, over) ==
  /\ Takes(c, over)
  /\ \/ c = NoChar /\ UNCHANGED <<field, char>>
     \/ /\ Accepts /\ field # 0 /\ c = Char(line, field, char)
        /\ char <= Len(Field(line, field)) => char' = char + 1 /\ field' = field
        /\ ~(char <= Len(Field(line, field))) =>
             char' = 1 /\ field' = IF field < Fields(line) THEN field + 1 ELSE 0

LEMMA KeyOfLine ==
  ASSUME NEW over, LineSide(over), ~AtPrompt
  PROVE  /\ UNCHANGED <<line, before, lines>> /\ \E c : Key(c, over)
         /\ printed' = IF State = "SEND_RD_DATA" THEN Append(printed, in_reg_rdata) ELSE printed
<1>1. CASE Waits(over)
  BY <1>1 DEF LineSide, Waits, Key, Shows
<1>2. CASE TypesOn(over)
  BY <1>2 DEF LineSide, TypesOn, Key, Shows
<1>3. ASSUME NEW command \in Commands, BeginsLine(command, over)
      PROVE  FALSE
  BY <1>3 DEF BeginsLine
<1>. QED  BY <1>1, <1>2, <1>3 DEF LineSide

LEMMA KeyWithin ==
  ASSUME NEW c, NEW over, Key(c, over), c # NoChar, char <= Len(Field(line, field))
  PROVE  c = Char(line, field, char) /\ char' = char + 1 /\ field' = field
BY DEF Key

LEMMA KeyBeyond ==
  ASSUME NEW c, NEW over, Key(c, over), c # NoChar, ~(char <= Len(Field(line, field)))
  PROVE  /\ c = Char(line, field, char) /\ char' = 1
         /\ field' = IF field < Fields(line) THEN field + 1 ELSE 0
BY DEF Key

LEMMA NamingStep ==
  ASSUME line \in Commands, Naming, NEW c, NEW over, Key(c, over),
         UNCHANGED <<line, before, printed, memory>>
  PROVE  Naming' \/ Addressing'
<1>1. RxCmdPhase(c) /\ Untouched'
  BY ByState DEF Key, Naming, Untouched
<1>0. Char(line, field, char) # NoChar
  BY Names DEF Naming, Plain, NoChar, Space
<1>2. CASE c = NoChar
  <2>0. UNCHANGED <<field, char>>
    BY <1>0, <1>2 DEF Key
  <2>1. UNCHANGED <<State, cmd, RxMsgCnt>>
    BY <1>1, <1>2 DEF RxCmdPhase
  <2>. QED  BY <1>1, <2>0, <2>1 DEF Naming
<1>3. CASE c # NoChar /\ char = 2
  <2>1. c = Name(line)[2] /\ Plain(c) /\ char' = 3 /\ field' = field
    BY <1>3, Names DEF Key, Naming
  <2>2. cmd' = <<cmd[2], c>> /\ Count /\ State' = State
    BY <1>1, <2>1 DEF RxCmdPhase, Plain
  <2>3. cmd' = Name(line)'
    BY <1>3, <2>1, <2>2, Names DEF Naming, Name
  <2>4. RxMsgCnt' \in 2..10
    BY <1>3, <2>2 DEF Naming, Count
  <2>. QED  BY <1>1, <2>1, <2>2, <2>3, <2>4 DEF Naming
<1>4. CASE c # NoChar /\ char = 3
  <2>0. /\ field = 1 /\ Char(line, 1, 3) = Space
        /\ Len(Field(line, 1)) = 2 /\ Fields(line) \in Nat /\ 1 < Fields(line)
    BY Names DEF Naming
  <2>a. c = Space
    BY <1>4, <2>0 DEF Key
  <2>b. char' = 1 /\ field' = IF field < Fields(line) THEN field + 1 ELSE 0
    <3>1. Len(Field(line, field)) = 2
      BY <2>0
    <3>2. ~(char <= Len(Field(line, field)))
      BY <1>4, <3>1
    <3>. QED  BY <1>4, <3>2, KeyBeyond
  <2>1. c = Space /\ char' = 1 /\ field' = 2
    BY <2>0, <2>a, <2>b
  <2>2. RxMsgCnt # 0
    BY <1>4 DEF Naming
  <2>3. reg_addr' = 0 /\ RxMsgCnt' = 0 /\ State' = "ADR_PHASE" /\ cmd' = cmd
    BY <1>1, <1>4, <2>1, <2>2, Names DEF RxCmdPhase, Naming, NoChar, Space
  <2>4. cmd' = Name(line)'
    BY <1>4, <2>3 DEF Naming
  <2>. QED  BY <1>1, <2>1, <2>3, <2>4 DEF Addressing
<1>. QED  BY <1>2, <1>3, <1>4 DEF Naming

LEMMA AddressingStep ==
  ASSUME line \in Commands, Addressing, NEW c, NEW over, Key(c, over),
         UNCHANGED <<line, before, printed, memory>>, before \in [WordAddrs -> Word],
         ~in_reg_ack, ~Served'
  PROVE  Addressing' \/ Sizing' \/ Writing' \/ Reading'
<1>. DEFINE digit == Char(line, 2, 1)  last == Char(line, 2, 2)
<1>1. AdrPhase(c) /\ Untouched'
  BY ByState DEF Key, Addressing, Untouched
<1>2. /\ field = 2 /\ Len(Field(line, 2)) = 1 /\ line.adr \in 0..15
      /\ Plain(digit) /\ char2hex(digit) = line.adr
      /\ last = IF line.op = "rm" THEN Break ELSE Space
  BY Addresses DEF Addressing
<1>3. Char(line, field, char) # NoChar
  BY <1>2 DEF Addressing, Plain, NoChar, Space, Break
<1>4. line.adr < AddrSpace
  <2>1. line.adr + 4 * 0 \in 0..(AddrSpace - 1)
    <3>1. 0 < IF line.op = "wm" THEN Len(line.data) ELSE Size(line)
      BY Forms DEF Size
    <3>. QED  BY <3>1, Reach
  <2>. QED  BY <1>2, <2>1, UartMsgAssumption
<1>5. CASE c = NoChar
  <2>0. UNCHANGED <<field, char>>
    BY <1>3, <1>5 DEF Key
  <2>1. UNCHANGED <<State, cmd, RxMsgCnt, reg_addr>>
    BY <1>1, <1>5 DEF AdrPhase, busVars
  <2>. QED  BY <1>1, <2>0, <2>1 DEF Addressing
<1>6. CASE c # NoChar /\ char = 1
  <2>1. c = digit /\ char' = 2 /\ field' = field
    <3>1. Len(Field(line, field)) = 1
      BY <1>2
    <3>2. char <= Len(Field(line, field))
      BY <1>6, <3>1
    <3>. QED  BY <1>2, <1>6, <3>2, KeyWithin
  <2>2. reg_addr' = Shifted(reg_addr, c, AddrSpace) /\ Count /\ UNCHANGED <<State, cmd>>
    BY <1>1, <1>2, <1>6, <2>1 DEF AdrPhase, Plain, Addressing
  <2>3. reg_addr' = line.adr /\ RxMsgCnt' = 1
    <3>1. \A x \in Nat : x < AddrSpace => x % AddrSpace = x
      BY UartMsgAssumption
    <3>2. 0 * 16 + line.adr = line.adr
      BY <1>2
    <3>3. reg_addr = 0 /\ RxMsgCnt = 0
      BY <1>6 DEF Addressing
    <3>. QED  BY <1>2, <1>4, <2>1, <2>2, <3>1, <3>2, <3>3 DEF Shifted, Count
  <2>4. cmd' = Name(line)'
    BY <2>2 DEF Addressing
  <2>. QED  BY <1>1, <1>2, <2>1, <2>2, <2>3, <2>4 DEF Addressing
<1>7. CASE c # NoChar /\ char = 2
  <2>1. c = last /\ char' = 1 /\ field' = IF field < Fields(line) THEN field + 1 ELSE 0
    <3>1. Len(Field(line, field)) = 1
      BY <1>2
    <3>2. ~(char <= Len(Field(line, field)))
      BY <1>7, <3>1
    <3>. QED  BY <1>2, <1>7, <3>2, KeyBeyond
  <2>2. RxMsgCnt = 1 /\ reg_addr = line.adr /\ cmd = Name(line)
    BY <1>7 DEF Addressing
  <2>3. c \in {Space, Break}
    BY <1>2, <2>1
  <2>4. AddressEnds(c) /\ reg_addr' = line.adr
    BY <1>1, <2>2, <2>3 DEF AdrPhase, NoChar, Space, Break
  <2>5. CASE line.op = "wm"
    <3>1. Len(line.data) \in Nat \ {0} /\ Fields(line) = Len(line.data) + 2
      BY <2>5, Forms DEF Fields
    <3>2. field' = 3
      BY <1>2, <2>1, <3>1
    <3>3. c = Space /\ cmd = <<"w", "m">>
      BY <1>2, <2>1, <2>2, <2>5 DEF Name
    <3>4. reg_wdata' = ZeroWord /\ RxMsgCnt' = 0 /\ State' = "WR_DATA_PHASE"
      BY <2>4, <3>3 DEF AddressEnds
    <3>5. ZeroWord = TypedSoFar(line.data[1], 0)
      BY DEF ZeroWord, TypedSoFar
    <3>6. memory' = Stored(before, line, 0)
      BY <1>1, NothingStored DEF Untouched
    <3>7. Len(line.data[1]) \in {2, 4, 6, 8}
      <4>1. 1 \in 1..Len(line.data)
        BY <3>1
      <4>. QED  BY <2>5, <4>1, Data
    <3>8. WritingDatum(1, 0)'
      BY <1>2, <2>1, <2>4, <3>2, <3>4, <3>5, <3>6, <3>7 DEF WritingDatum
    <3>. QED  BY <1>1, <2>5, <3>1, <3>4, <3>8 DEF Writing, Untouched
  <2>6. CASE line.op = "rm"
    <3>1. c = Break /\ cmd = <<"r", "m">> /\ Fields(line) = 2
      BY <1>2, <2>1, <2>2, <2>6 DEF Name, Fields
    <3>2. /\ reg_wr' = FALSE /\ burst_cnt' = 1 /\ State' = "SEND_RD_REQ" /\ RxMsgCnt' = RxMsgCnt
      BY <2>4, <3>1 DEF AddressEnds, Space, Break
    <3>3. field' = 0
      BY <1>2, <2>1, <3>1
    <3>4. Fetching(0)' /\ Size(line') = 1
      BY <1>1, <1>2, <2>4, <2>6, <3>2 DEF Fetching, Size, Untouched
    <3>. QED  BY <1>1, <2>2, <2>6, <3>2, <3>3, <3>4 DEF Reading, Untouched
  <2>7. CASE line.op = "br"
    <3>1. c = Space /\ cmd = <<"b", "r">> /\ Fields(line) = 3
      BY <1>2, <2>1, <2>2, <2>7 DEF Name, Fields
    <3>2. /\ reg_wr' = FALSE /\ burst_cnt' = 0 /\ State' = "RXD_BRD_SIZE" /\ RxMsgCnt' = RxMsgCnt
      BY <2>4, <3>1 DEF AddressEnds, Space, Break
    <3>3. field' = 3
      BY <1>2, <2>1, <3>1
    <3>. QED  BY <1>1, <2>1, <2>2, <2>4, <2>7, <3>2, <3>3 DEF Sizing
  <2>. QED  BY <2>5, <2>6, <2>7, Names
<1>. QED  BY <1>5, <1>6, <1>7 DEF Addressing

LEMMA SizingStep ==
  ASSUME line \in Commands, Sizing, NEW c, NEW over, Key(c, over),
         UNCHANGED <<line, before, printed, memory>>
  PROVE  Sizing' \/ Reading'
<1>. DEFINE digit == Char(line, 3, 1)  last == Char(line, 3, 2)
<1>1. RxdBrdSize(c) /\ Untouched'
  BY ByState DEF Key, Sizing, Untouched
<1>2. /\ field = 3 /\ Len(Field(line, 3)) = 1 /\ Fields(line) = 3 /\ line.size \in 1..15
      /\ Plain(digit) /\ char2hex(digit) = line.size /\ last = Break
  BY Sizes DEF Sizing
<1>3. Char(line, field, char) # NoChar
  BY <1>2 DEF Sizing, Plain, NoChar, Break
<1>5. CASE c = NoChar
  <2>0. UNCHANGED <<field, char>>
    BY <1>3, <1>5 DEF Key
  <2>1. UNCHANGED <<State, RxMsgCnt, reg_addr, reg_wr, burst_cnt>>
    BY <1>1, <1>5 DEF RxdBrdSize
  <2>. QED  BY <1>1, <2>0, <2>1 DEF Sizing
<1>6. CASE c # NoChar /\ char = 1
  <2>1. c = digit /\ char' = 2 /\ field' = field
    <3>1. Len(Field(line, field)) = 1
      BY <1>2
    <3>2. char <= Len(Field(line, field))
      BY <1>6, <3>1
    <3>. QED  BY <1>2, <1>6, <3>2, KeyWithin
  <2>2. /\ burst_cnt' = Shifted(burst_cnt, c, BurstSpace) /\ Count
        /\ UNCHANGED <<State, reg_wr, reg_addr>>
    BY <1>1, <1>2, <1>6, <2>1 DEF RxdBrdSize, Plain, Sizing
  <2>3. burst_cnt' = line.size /\ RxMsgCnt' = 2
    <3>1. \A x \in 0..15 : x % BurstSpace = x
      BY BurstSpaceIsPositive
    <3>2. 0 * 16 + line.size = line.size
      BY <1>2
    <3>3. burst_cnt = 0 /\ RxMsgCnt = 1
      BY <1>6 DEF Sizing
    <3>. QED  BY <1>2, <2>1, <2>2, <3>1, <3>2, <3>3 DEF Shifted, Count
  <2>. QED  BY <1>1, <1>2, <2>1, <2>2, <2>3 DEF Sizing
<1>7. CASE c # NoChar /\ char = 2
  <2>1. c = last /\ char' = 1 /\ field' = IF field < Fields(line) THEN field + 1 ELSE 0
    <3>1. Len(Field(line, field)) = 1
      BY <1>2
    <3>2. ~(char <= Len(Field(line, field)))
      BY <1>7, <3>1
    <3>. QED  BY <1>2, <1>7, <3>2, KeyBeyond
  <2>2. RxMsgCnt = 2 /\ burst_cnt = line.size
    BY <1>7 DEF Sizing
  <2>3. field' = 0
    BY <1>2, <2>1
  <2>4. /\ State' = "SEND_RD_REQ" /\ reg_wr' = FALSE /\ RxMsgCnt' = 2
        /\ burst_cnt' = line.size /\ reg_addr' = line.adr
    BY <1>1, <1>2, <2>1, <2>2 DEF RxdBrdSize, NoChar, Space, Break, Sizing
  <2>5. Fetching(0)' /\ Size(line') = line.size
    <3>1. line.adr \in Nat /\ line.op = "br"
      BY Forms DEF Sizing
    <3>. QED  BY <1>1, <1>2, <2>4, <3>1 DEF Fetching, Size, Untouched
  <2>. QED  BY <1>1, <1>2, <2>3, <2>4, <2>5 DEF Reading, Untouched, Sizing
<1>. QED  BY <1>5, <1>6, <1>7 DEF Sizing

LEMMA WritingStep ==
  ASSUME line \in Commands, Writing, NEW c, NEW over, Key(c, over),
         UNCHANGED <<line, before, printed, memory>>, ~Served'
  PROVE  Writing' \/ Storing'
<1>1. WrDataPhase(c) /\ line.op = "wm" /\ printed = Shown(before, line, 0)
  BY ByState DEF Key, Writing
<1>2. PICK d \in 1..Len(line.data), n \in 0..8 : WritingDatum(d, n)
  BY DEF Writing
<1>. DEFINE datum == line.data[d]
<1>3. /\ Len(datum) \in {2, 4, 6, 8} /\ Field(line, d + 2) = datum
      /\ \A i \in 1..Len(datum) : Char(line, d + 2, i) = datum[i] /\ Plain(datum[i])
      /\ Char(line, d + 2, Len(datum) + 1) = IF d < Len(line.data) THEN Space ELSE Break
      /\ Fields(line) = Len(line.data) + 2
  BY <1>1, Data
<1>4. field = d + 2 /\ char = n + 1 /\ RxMsgCnt = n /\ n <= Len(datum)
  <2>1. field = d + 2 /\ char = n + 1 /\ RxMsgCnt = n /\ n \in 0..Len(datum)
    BY <1>2 DEF WritingDatum
  <2>. QED  BY <1>3, <2>1
<1>5. Len(line.data) \in Nat \ {0} /\ line.adr \in 0..15
  BY <1>1, Forms
<1>6. CASE c = NoChar
  <2>1. Char(line, field, char) # NoChar
    <3>1. CASE n < Len(datum)
      <4>1. n + 1 \in 1..Len(datum)
        BY <1>3, <3>1
      <4>. QED  BY <1>3, <1>4, <4>1 DEF Plain
    <3>2. CASE n = Len(datum)
      BY <1>3, <1>4, <3>2 DEF NoChar, Space, Break
    <3>. QED  BY <1>3, <1>4, <3>1, <3>2
  <2>2. UNCHANGED <<field, char>>
    BY <1>6, <2>1 DEF Key
  <2>3. UNCHANGED <<State, RxMsgCnt, reg_addr, reg_wdata>>
    BY <1>1, <1>6 DEF WrDataPhase, busVars
  <2>4. WritingDatum(d, n)'
    BY <1>2, <2>2, <2>3 DEF WritingDatum
  <2>5. State' = "WR_DATA_PHASE"
    BY <2>3 DEF Writing
  <2>. QED  BY <1>1, <2>4, <2>5 DEF Writing
<1>7. CASE c # NoChar /\ n < Len(datum)
  <2>1. c = datum[n + 1] /\ Plain(c) /\ char' = n + 2 /\ field' = field
    <3>1. n + 1 \in 1..Len(datum) /\ Len(Field(line, field)) = Len(datum)
      BY <1>3, <1>4, <1>7
    <3>2. char <= Len(Field(line, field))
      BY <1>4, <3>1
    <3>. QED  BY <1>3, <1>4, <1>7, <3>1, <3>2, KeyWithin
  <2>2. reg_wdata' = ShiftedWord(reg_wdata, c) /\ Count /\ UNCHANGED <<State, reg_addr>>
    BY <1>1, <1>7, <2>1 DEF WrDataPhase, Plain
  <2>3. n \in 0..7 /\ n + 1 \in 0..8
    <3>. DEFINE m == Len(datum)
    <3>1. m \in {2, 4, 6, 8} /\ n < m
      BY <1>3, <1>7
    <3>. HIDE DEF m
    <3>. QED  BY <3>1
  <2>4. reg_wdata' = TypedSoFar(datum, n + 1)
    <3>1. reg_wdata = TypedSoFar(datum, n)
      BY <1>2 DEF WritingDatum
    <3>2. ShiftedWord(TypedSoFar(datum, n), datum[n + 1]) = TypedSoFar(datum, n + 1)
      BY <2>3, OneMoreTyped
    <3>. QED  BY <2>1, <2>2, <3>1, <3>2
  <2>5. RxMsgCnt' = n + 1
    BY <1>4, <2>2, <2>3 DEF Count
  <2>6. WritingDatum(d, n + 1)'
    BY <1>2, <1>3, <1>7, <2>1, <2>2, <2>3, <2>4, <2>5 DEF WritingDatum
  <2>7. State' = "WR_DATA_PHASE"
    BY <2>2 DEF Writing
  <2>. QED  BY <1>1, <2>3, <2>6, <2>7 DEF Writing
<1>8. CASE c # NoChar /\ n = Len(datum)
  <2>1. /\ c = IF d < Len(line.data) THEN Space ELSE Break
        /\ char' = 1 /\ field' = IF d < Len(line.data) THEN d + 3 ELSE 0
    <3>1. Len(Field(line, field)) = Len(datum)
      BY <1>3, <1>4
    <3>2. ~(char <= Len(Field(line, field)))
      BY <1>3, <1>4, <1>8, <3>1
    <3>3. /\ c = Char(line, field, char) /\ char' = 1
          /\ field' = IF field < Fields(line) THEN field + 1 ELSE 0
      BY <1>8, <3>2, KeyBeyond
    <3>. QED  BY <1>3, <1>4, <1>5, <1>8, <3>3
  <2>2. /\ WriteRequest /\ UNCHANGED <<RxMsgCnt, reg_addr>>
        /\ State' = IF c = Space THEN "SEND_BWR_REQ" ELSE "SEND_WR_REQ"
    <3>1. RxMsgCnt # 0 /\ c \in {Space, Break}
      <4>1. RxMsgCnt \in {2, 4, 6, 8}
        BY <1>3, <1>4, <1>8
      <4>. QED  BY <2>1, <4>1
    <3>. QED  BY <1>1, <1>8, <3>1 DEF WrDataPhase
  <2>3. reg_addr % 4 = line.adr % 4
    <3>1. d - 1 \in Nat /\ d - 1 < Len(line.data)
      BY <1>5
    <3>2. (line.adr + 4 * (d - 1)) % 4 = line.adr % 4
      BY <1>1, <3>1, Reach
    <3>. QED  BY <1>2, <3>2 DEF WritingDatum
  <2>4. AsksFor(reg_be', reg_wdata', line, d)
    <3>1. RxMsgCnt = Len(line.data[d]) /\ reg_wdata = TypedSoFar(line.data[d], Len(line.data[d]))
      BY <1>2, <1>8 DEF WritingDatum
    <3>. QED  BY <1>1, <2>2, <2>3, <3>1, Requested
  <2>5. reg_wr' /\ RxMsgCnt' \in 0..8
    BY <1>4, <2>2 DEF WriteRequest
  <2>6. StoringDatum(d)'
    <3>1. reg_addr' = line.adr + 4 * (d - 1) /\ memory' = Stored(before, line, d - 1)
      BY <1>2, <2>2 DEF WritingDatum
    <3>2. IF d < Len(line.data) THEN State' = "SEND_BWR_REQ" /\ field' = d + 3 /\ char' = 1
                               ELSE State' = "SEND_WR_REQ" /\ field' = 0
      BY <2>1, <2>2 DEF Space, Break
    <3>. QED  BY <2>4, <3>1, <3>2 DEF StoringDatum
  <2>. QED  BY <1>1, <2>5, <2>6 DEF Storing
<1>. QED  BY <1>3, <1>4, <1>6, <1>7, <1>8

(* Nothing is typed where the interpreter does not accept it.               *)
LEMMA NothingTyped ==
  ASSUME NEW c, NEW over, Key(c, over), ~Accepts
  PROVE  UNCHANGED <<field, char>>
BY DEF Key

LEMMA NextAddress ==
  ASSUME NEW command \in Commands, NEW n \in Nat,
         n + 1 < IF command.op = "wm" THEN Len(command.data) ELSE Size(command)
  PROVE  NextWord(command.adr + 4 * n) = command.adr + 4 * (n + 1)
<1>1. command.adr + 4 * (n + 1) \in 0..(AddrSpace - 1)
  <2>1. n + 1 \in Nat
    OBVIOUS
  <2>. QED  BY <2>1, Reach
<1>0. command.adr \in Nat
  BY Forms
<1>2. \A x \in Nat : x < AddrSpace => x % AddrSpace = x
  BY UartMsgAssumption
<1>3. command.adr + 4 * n + 4 = command.adr + 4 * (n + 1)
  BY <1>0
<1>4. (command.adr + 4 * (n + 1)) % AddrSpace = command.adr + 4 * (n + 1)
  BY <1>1, <1>2, UartMsgAssumption
<1>. QED  BY <1>3, <1>4 DEF NextWord

LEMMA StoringStep ==
  ASSUME line \in Commands, Storing, in_reg_ack, NEW c, NEW over, Key(c, over),
         UNCHANGED <<line, before, printed, memory>>
  PROVE  Writing' \/ Finished'
<1>1. PICK d \in 1..Len(line.data) : StoringDatum(d)
  BY DEF Storing
<1>2. /\ line.op = "wm" /\ printed = Shown(before, line, 0)
      /\ Len(line.data) \in Nat \ {0} /\ line.adr \in 0..15
  BY Forms DEF Storing
<1>3. reg_addr = line.adr + 4 * (d - 1) /\ memory = Stored(before, line, d)
  BY <1>1 DEF StoringDatum, Served
<1>4. UNCHANGED <<field, char>>
  BY <1>1, NothingTyped DEF StoringDatum, Accepts
<1>5. CASE d < Len(line.data)
  <2>1. SendBwrReq(in_reg_ack) /\ field = d + 3 /\ char = 1
    BY <1>1, <1>5, ByState DEF Key, StoringDatum
  <2>2. /\ reg_addr' = NextWord(reg_addr) /\ reg_wdata' = ZeroWord /\ RxMsgCnt' = 0
        /\ State' = "WR_DATA_PHASE"
    BY <2>1 DEF SendBwrReq
  <2>3. NextWord(reg_addr) = line.adr + 4 * d
    <3>1. d - 1 \in Nat /\ (d - 1) + 1 < Len(line.data) /\ (d - 1) + 1 = d
      BY <1>2, <1>5
    <3>. QED  BY <1>2, <1>3, <3>1, NextAddress
  <2>4. ZeroWord = TypedSoFar(line.data[d + 1], 0)
    BY DEF ZeroWord, TypedSoFar
  <2>5. d + 1 \in 1..Len(line.data) /\ (d + 1) - 1 = d /\ (d + 1) + 2 = d + 3
    BY <1>2, <1>5
  <2>6. 0 \in 0..Len(line.data[d + 1])
    <3>1. Len(line.data[d + 1]) \in {2, 4, 6, 8}
      BY <1>2, <2>5, Data
    <3>. QED  BY <3>1
  <2>7. WritingDatum(d + 1, 0)'
    BY <1>3, <1>4, <2>1, <2>2, <2>3, <2>4, <2>5, <2>6 DEF WritingDatum
  <2>. QED  BY <1>2, <2>2, <2>5, <2>7 DEF Writing
<1>6. CASE ~(d < Len(line.data))
  <2>1. SendWrReq(in_reg_ack) /\ field = 0
    BY <1>1, <1>6, ByState DEF Key, StoringDatum
  <2>2. State' = "TX_MSG" /\ NextState' = "RX_CMD_PHASE" /\ RxMsgCnt' \in 0..8
    BY <2>1 DEF SendWrReq, Send, Storing
  <2>3. memory = Stored(before, line, Len(line.data))
    <3>1. d = Len(line.data)
      BY <1>2, <1>6
    <3>. QED  BY <1>3, <3>1
  <2>4. memory = MemoryAfter(before, line)
    BY <1>2, <2>3, AllStored DEF MemoryAfter
  <2>5. printed = WordsShown(before, line)
    BY <1>2 DEF WordsShown, Shown
  <2>. QED  BY <1>4, <2>1, <2>2, <2>4, <2>5 DEF Finished
<1>. QED  BY <1>5, <1>6

LEMMA OneMoreShown ==
  ASSUME NEW mem, NEW command \in Commands, NEW n \in Nat
  PROVE  Append(Shown(mem, command, n), mem[WordOf(command.adr) + n]) = Shown(mem, command, n + 1)
<1>. DEFINE s == Shown(mem, command, n)  x == mem[WordOf(command.adr) + n]
<1>1. Len(s) = n
  BY DEF Shown
<1>2. Append(s, x) = [k \in 1..(n + 1) |-> IF k = n + 1 THEN x ELSE s[k]]
  BY <1>1 DEF Append
<1>3. command.adr \in Nat /\ WordOf(command.adr) \in Nat
  BY Forms DEF WordOf
<1>4. \A k \in 1..(n + 1) : (IF k = n + 1 THEN x ELSE s[k]) = mem[WordOf(command.adr) + k - 1]
  <2>. SUFFICES ASSUME NEW k \in 1..(n + 1)
                PROVE  (IF k = n + 1 THEN x ELSE s[k]) = mem[WordOf(command.adr) + k - 1]
    OBVIOUS
  <2>1. CASE k = n + 1
    <3>1. WordOf(command.adr) + k - 1 = WordOf(command.adr) + n
      BY <1>3, <2>1
    <3>. QED  BY <2>1, <3>1
  <2>2. CASE k # n + 1
    BY <2>2 DEF Shown
  <2>. QED  BY <2>1, <2>2
<1>. QED  BY <1>2, <1>4 DEF Shown

LEMMA ReadingStep ==
  ASSUME line \in Commands, Reading, Answered, State = "SEND_RD_REQ" => in_reg_ack,
         NEW c, NEW over, Key(c, over),
         UNCHANGED <<line, before, memory>>, in_reg_ack => in_reg_rdata' = in_reg_rdata,
         printed' = IF State = "SEND_RD_DATA" THEN Append(printed, in_reg_rdata) ELSE printed
  PROVE  Reading' \/ Finished'
<1>1. PICK n \in 0..(Size(line) - 1) : Fetching(n) \/ Fetched(n) \/ Showing(n)
  BY DEF Reading
<1>2. /\ line.op \in {"rm", "br"} /\ line.adr \in 0..15 /\ Size(line) \in 1..15
      /\ n \in Nat /\ n < Size(line)
  <2>1. Size(line) \in 1..15 /\ line.adr \in 0..15
    BY Forms DEF Size, Reading
  <2>. QED  BY <1>1, <2>1 DEF Reading
<1>3. UNCHANGED <<field, char>>
  BY <1>1, NothingTyped DEF Fetching, Fetched, Showing, Accepts
<1>4. CASE Fetching(n)
  <2>1. SendRdReq(in_reg_ack) /\ in_reg_ack /\ in_reg_rdata' = in_reg_rdata /\ printed' = printed
    BY <1>4, ByState DEF Key, Fetching
  <2>2. in_reg_rdata = before[WordOf(line.adr) + n]
    <3>1. WordOf(line.adr + 4 * n) = WordOf(line.adr) + n
      BY <1>2, Reach
    <3>. QED  BY <1>4, <2>1, <3>1 DEF Answered, Reading, Fetching
  <2>3. burst_cnt = Size(line) - n /\ reg_addr = line.adr + 4 * n
    BY <1>4 DEF Fetching
  <2>4. /\ State' = "SEND_RD_DATA" /\ UNCHANGED <<RxMsgCnt, reg_wr, burst_cnt>>
        /\ IF burst_cnt > 1
             THEN reg_addr' = NextWord(reg_addr) /\ NextState' = "PEND_BRD_REQ"
             ELSE NextState' = "RX_CMD_PHASE"
    BY <2>1 DEF SendRdReq
  <2>5. burst_cnt > 1 <=> n + 1 < Size(line)
    <3>1. \A s \in 1..15 : s - n > 1 <=> n + 1 < s
      BY <1>2
    <3>. QED  BY <1>2, <2>3, <3>1
  <2>6. n + 1 < Size(line) => NextWord(reg_addr) = line.adr + 4 * (n + 1)
    BY <1>2, <2>3, NextAddress
  <2>7. Fetched(n)'
    BY <1>4, <2>1, <2>2, <2>3, <2>4, <2>5, <2>6 DEF Fetched, Fetching, Following
  <2>. QED  BY <1>3, <2>4, <2>7 DEF Reading
<1>5. CASE Fetched(n)
  <2>1. SendRdData(in_reg_rdata) /\ printed' = Append(printed, in_reg_rdata)
    BY <1>5, ByState DEF Key, Fetched
  <2>2. State' = "TX_MSG" /\ UNCHANGED <<NextState, RxMsgCnt, reg_addr, reg_wr, burst_cnt>>
    BY <2>1 DEF SendRdData, busVars
  <2>3. printed' = Shown(before, line, n + 1)
    BY <1>2, <1>5, <2>1, OneMoreShown DEF Fetched
  <2>4. CASE n + 1 < Size(line)
    <3>1. Showing(n)'
      BY <1>5, <2>2, <2>3, <2>4 DEF Fetched, Showing, Following
    <3>. QED  BY <1>3, <2>2, <3>1 DEF Reading
  <2>5. CASE ~(n + 1 < Size(line))
    <3>1. n + 1 = Size(line)
      BY <1>2, <2>5
    <3>2. NextState' = "RX_CMD_PHASE"
      BY <1>5, <2>2, <2>5 DEF Fetched
    <3>3. memory = MemoryAfter(before, line)
      BY <1>2 DEF MemoryAfter, Reading
    <3>4. Shown(before, line, n + 1) = WordsShown(before, line)
      <4>1. CASE line.op = "rm"
        <5>1. n + 1 = 1 /\ WordOf(line.adr) \in Nat
          BY <1>2, <3>1, <4>1 DEF Size, WordOf
        <5>2. WordsShown(before, line) = <<before[WordOf(line.adr)]>>
          BY <4>1 DEF WordsShown
        <5>. QED  BY <5>1, <5>2 DEF Shown
      <4>2. CASE line.op = "br"
        BY <3>1, <4>2 DEF Size, WordsShown, Shown
      <4>. QED  BY <1>2, <4>1, <4>2
    <3>. QED  BY <1>3, <2>2, <2>3, <3>2, <3>3, <3>4 DEF Finished, Reading
  <2>. QED  BY <2>4, <2>5
<1>6. CASE Showing(n) /\ State = "TX_MSG"
  <2>1. TxMessage(over) /\ printed' = printed
    BY <1>6, ByState DEF Key
  <2>2. /\ State' \in {"TX_MSG", "PEND_BRD_REQ"}
        /\ UNCHANGED <<NextState, RxMsgCnt, reg_addr, reg_wr, burst_cnt>>
    BY <1>6, <2>1 DEF TxMessage, busVars, Showing
  <2>3. Showing(n)'
    BY <1>6, <2>1, <2>2 DEF Showing, Following
  <2>. QED  BY <1>3, <2>2, <2>3 DEF Reading
<1>7. CASE Showing(n) /\ State = "PEND_BRD_REQ"
  <2>1. PendBrdReq /\ printed' = printed
    BY <1>7, ByState DEF Key
  <2>2. burst_cnt = Size(line) - n /\ n + 1 < Size(line)
    BY <1>7 DEF Showing, Following
  <2>3. burst_cnt' = Size(line) - (n + 1)
    <3>1. burst_cnt \in 1..15
      <4>1. \A s \in 1..15 : n + 1 < s => s - n \in 1..15
        BY <1>2
      <4>. QED  BY <1>2, <2>2, <4>1
    <3>2. \A x \in 1..15 : (x + BurstSpace - 1) % BurstSpace = x - 1
      BY BurstSpaceIsPositive
    <3>. QED  BY <1>2, <2>1, <2>2, <3>1, <3>2 DEF PendBrdReq
  <2>4. State' = "SEND_RD_REQ" /\ reg_wr' = FALSE /\ UNCHANGED <<RxMsgCnt, reg_addr>>
    BY <2>1 DEF PendBrdReq
  <2>5. Fetching(n + 1)' /\ n + 1 \in 0..(Size(line') - 1)
    BY <1>2, <1>7, <2>1, <2>2, <2>3, <2>4 DEF Fetching, Showing, Following
  <2>. QED  BY <1>3, <2>4, <2>5 DEF Reading
<1>. QED  BY <1>1, <1>4, <1>5, <1>6, <1>7 DEF Showing

(* The next line is begun at the prompt, or none yet.                       *)
LEMMA PromptStep ==
  ASSUME AtPrompt, RxMsgCnt \in 0..8, lines \in Nat, memory \in [WordAddrs -> Word],
         NEW over, LineSide(over), memory' = memory
  PROVE  \/ /\ UNCHANGED <<field, line, before, lines, State, RxMsgCnt, printed>>
         \/ /\ lines' = lines + 1 /\ line' \in Commands /\ before' = memory /\ Naming'
<1>1. State = "RX_CMD_PHASE" /\ field = 0
  BY DEF AtPrompt
<1>2. CASE Waits(over)
  <2>1. RxCmdPhase(NoChar) /\ UNCHANGED <<field, line, before, lines>>
    BY <1>1, <1>2, ByState DEF Waits
  <2>2. printed' = printed
    BY <1>1, <2>1 DEF LineSide, Shows
  <2>. QED  BY <2>1, <2>2 DEF RxCmdPhase
<1>3. CASE TypesOn(over)
  BY <1>1, <1>3 DEF TypesOn
<1>4. ASSUME NEW command \in Commands, BeginsLine(command, over)
      PROVE  /\ lines' = lines + 1 /\ line' \in Commands /\ before' = memory /\ Naming'
  <2>. DEFINE c == Name(command)[1]
  <2>1. RxCmdPhase(c) /\ Plain(c)
    <3>1. Takes(Char(command, 1, 1), over)
      BY <1>4 DEF BeginsLine
    <3>. QED  BY <1>1, <3>1, ByState, Names
  <2>2. cmd' = <<cmd[2], c>> /\ Count /\ State' = State
    BY <2>1 DEF RxCmdPhase, Plain
  <2>3. RxMsgCnt' \in 1..9
    BY <2>2 DEF Count
  <2>4. field' = 1 /\ char' = 2 /\ line' = command /\ before' = memory /\ lines' = lines + 1
    BY <1>4 DEF BeginsLine
  <2>5. printed' = Shown(before', line', 0)
    <3>1. printed' = <<>>
      BY <1>1, <2>4 DEF LineSide, Shows
    <3>. QED  BY <3>1 DEF Shown
  <2>6. cmd'[2] = Name(line')[1]
    BY <2>2, <2>4
  <2>. QED  BY <1>1, <2>2, <2>3, <2>4, <2>5, <2>6 DEF Naming, Untouched
<1>. QED  BY <1>2, <1>3, <1>4 DEF LineSide

LEMMA FinishedStep ==
  ASSUME Finished, line \in Commands, lines > 0, lines \in Nat, TypeOK, before \in [WordAddrs -> Word],
         NEW over, LineSide(over), memory' = memory
  PROVE  /\ lines' \in Nat /\ lines' > 0 /\ line' \in Commands /\ before' \in [WordAddrs -> Word]
         /\ Finished' \/ Naming'
<1>1. CASE AtPrompt
  <2>1. memory \in [WordAddrs -> Word] /\ RxMsgCnt \in 0..8
    BY DEF TypeOK, Finished
  <2>2. CASE UNCHANGED <<field, line, before, lines, State, RxMsgCnt, printed>>
    BY <1>1, <2>2 DEF Finished, AtPrompt
  <2>. QED  BY <1>1, <2>1, <2>2, PromptStep
<1>2. CASE ~AtPrompt
  <2>1. State = "TX_MSG" /\ NextState = "RX_CMD_PHASE"
    BY <1>2 DEF Finished, AtPrompt
  <2>2. PICK c : Key(c, over)
    BY <1>2, KeyOfLine
  <2>3. /\ UNCHANGED <<line, before, lines, field, printed>>
    BY <1>2, <2>1, <2>2, KeyOfLine, NothingTyped DEF Accepts
  <2>4. State' \in {"TX_MSG", "RX_CMD_PHASE"} /\ UNCHANGED <<NextState, RxMsgCnt>>
    BY <2>1, <2>2, ByState DEF Key, TxMessage
  <2>. QED  BY <2>1, <2>3, <2>4 DEF Finished
<1>. QED  BY <1>1, <1>2

LEMMA StartingStep ==
  ASSUME Starting, lines \in Nat, TypeOK, before \in [WordAddrs -> Word],
         NEW over, LineSide(over), memory' = memory
  PROVE  /\ lines' \in Nat /\ before' \in [WordAddrs -> Word]
         /\ Starting' \/ (lines' > 0 /\ line' \in Commands /\ Naming')
<1>1. CASE AtPrompt
  <2>1. memory \in [WordAddrs -> Word] /\ RxMsgCnt \in 0..8
    BY DEF TypeOK, Starting
  <2>2. CASE UNCHANGED <<field, line, before, lines, State, RxMsgCnt, printed>>
    BY <1>1, <2>2 DEF Starting, AtPrompt
  <2>. QED  BY <1>1, <2>1, <2>2, PromptStep
<1>2. CASE ~AtPrompt
  <2>1. /\ State \in {"POWERON_WAIT", "IDLE", "IDLE_TX_MSG1", "IDLE_TX_MSG2", "TX_MSG"}
        /\ lines = 0 /\ field = 0 /\ RxMsgCnt = 0
        /\ State = "TX_MSG" => NextState \in {"IDLE_TX_MSG1", "IDLE_TX_MSG2", "RX_CMD_PHASE"}
    BY <1>2 DEF Starting, AtPrompt
  <2>2. PICK c : Key(c, over)
    BY <1>2, KeyOfLine
  <2>3. UNCHANGED <<line, before, lines, field>>
    BY <1>2, <2>1, <2>2, KeyOfLine, NothingTyped DEF Accepts
  <2>4. CASE State = "POWERON_WAIT"
    <3>1. State' \in {"POWERON_WAIT", "IDLE", "RX_CMD_PHASE"} /\ RxMsgCnt' = RxMsgCnt
      BY <2>2, <2>4, ByState DEF Key, PoweronWait
    <3>. QED  BY <2>1, <2>3, <3>1 DEF Starting
  <2>5. CASE State \in {"IDLE", "IDLE_TX_MSG1", "IDLE_TX_MSG2"}
    <3>1. Idle \/ IdleTxMsg1 \/ IdleTxMsg2
      BY <2>2, <2>5, ByState DEF Key
    <3>2. /\ State' = "TX_MSG" /\ RxMsgCnt' = 0
          /\ NextState' \in {"IDLE_TX_MSG1", "IDLE_TX_MSG2", "RX_CMD_PHASE"}
      BY <2>1, <3>1 DEF Idle, IdleTxMsg1, IdleTxMsg2, Send
    <3>. QED  BY <2>1, <2>3, <3>2 DEF Starting
  <2>6. CASE State = "TX_MSG"
    <3>1. State' \in {State, NextState} /\ UNCHANGED <<NextState, RxMsgCnt>>
      BY <2>2, <2>6, ByState DEF Key, TxMessage
    <3>. QED  BY <2>1, <2>3, <2>6, <3>1 DEF Starting
  <2>. QED  BY <2>1, <2>4, <2>5, <2>6
<1>. QED  BY <1>1, <1>2

------------------------------------------------------------------------------
(* Nothing is on the bus while no access is waited for, and the memory rests.*)
LEMMA BusIsDown ==
  ASSUME Handshake, WordHeld, in_state # "INI_WAIT_ACK"
  PROVE  ~out_reg_cs /\ ~wb_ack_o /\ Requests = {}
BY DEF Handshake, States, Quiet, Falling, WordHeld, Requests

LEMMA BusIdle ==
  ASSUME ~SpiActive, Handshake, WordHeld, ChipSide \/ UNCHANGED bridgeVars,
         in_state # "INI_WAIT_ACK"
  PROVE  memory' = memory /\ ~wb_ack_o'
<1>1. ~wb_ack_o /\ Requests = {}
  BY BusIsDown
<1>2. CASE UNCHANGED bridgeVars
  BY <1>1, <1>2 DEF bridgeVars
<1>3. CASE ChipSide
  <2>1. Silent
    BY <1>1, <1>3 DEF ChipSide, Answers
  <2>. QED  BY <1>1, <2>1 DEF Silent
<1>. QED  BY <1>2, <1>3

(* The memory answers.                                                      *)
Answering ==
  /\ State \in Sends /\ ~Served /\ Served'
  /\ memory' = IF reg_wr
       THEN [memory EXCEPT ![WordOf(reg_addr)] =
              [i \in 0..7 |-> IF i \div 2 \in reg_be THEN reg_wdata[i] ELSE @[i]]]
       ELSE memory

Resting == memory' = memory /\ (Served' <=> Served)

(* The edges while an access is waited for.                                 *)
LEMMA BusWaits ==
  ASSUME ~Slow, ~SpiActive, Handshake, Asking, WordHeld, [Next]_vars,
         in_state = "INI_WAIT_ACK"
  PROVE  Resting \/ Answering
<1>. USE DEF Handshake, States, Rising
<1>1. State \in Sends /\ ~in_reg_ack
  BY DEF Asking
<1>2. CASE UNCHANGED vars
  BY <1>2 DEF vars, bridgeVars, regBusVars, iniVars, tarVars, Served, Resting
<1>3. Served <=> wb_ack_o \/ out_flag
  BY <1>1 DEF Served
<1>4. ASSUME Initiator(reg_req, wbm_uart_dat_o, ZeroWord, FALSE)
      PROVE  \/ out_flag /\ in_reg_ack'
             \/ in_state' = in_state /\ ~in_reg_ack'
  BY <1>1, <1>4 DEF Initiator, IniIdle, IniDone, IniWaits, IniTarDone
<1>5. ASSUME out_flag, ChipSide, Target(wbm_uart_ack_o)
      PROVE  memory' = memory /\ out_flag'
  <2>1. ~out_reg_cs /\ out_state = "TAR_WAIT_INI_DONE" /\ in_flag_ss /\ Requests = {}
    BY <1>5 DEF Requests, WordHeld
  <2>2. Silent
    BY <1>5, <2>1 DEF ChipSide, Answers
  <2>. QED  BY <1>5, <2>1, <2>2 DEF Silent, Target, TarIdle, TarWaitAck, TarWaitIniDone
<1>6. ASSUME ~out_flag, ChipSide, Target(wbm_uart_ack_o)
      PROVE  \/ memory' = memory /\ (wb_ack_o' \/ out_flag' <=> wb_ack_o)
             \/ /\ ~wb_ack_o /\ wb_ack_o'
                /\ memory' = IF reg_wr
                     THEN [memory EXCEPT ![WordOf(reg_addr)] =
                            [i \in 0..7 |-> IF i \div 2 \in reg_be THEN reg_wdata[i] ELSE @[i]]]
                     ELSE memory
  <2>1. CASE wb_ack_o
    <3>1. out_reg_cs /\ out_state = "TAR_WAIT_ACK" /\ wbm_uart_ack_o
      BY <2>1 DEF WordHeld, OnBus, wbm_uart_ack_o
    <3>2. out_flag'
      BY <1>6, <3>1 DEF Target, TarIdle, TarWaitAck, TarWaitIniDone
    <3>3. memory' = memory
      BY <1>6, <2>1 DEF ChipSide, Silent, Answers
    <3>. QED  BY <2>1, <3>2, <3>3
  <2>2. CASE ~wb_ack_o /\ Silent
    <3>1. ~out_flag'
      BY <1>6, <2>2 DEF Target, TarIdle, TarWaitAck, TarWaitIniDone, wbm_uart_ack_o
    <3>. QED  BY <2>2, <3>1 DEF Silent
  <2>3. ASSUME NEW w \in WordAddrs, Answers(w), ~wb_ack_o
        PROVE  /\ ~wb_ack_o /\ wb_ack_o'
               /\ memory' = IF reg_wr
                    THEN [memory EXCEPT ![WordOf(reg_addr)] =
                           [i \in 0..7 |-> IF i \div 2 \in reg_be THEN reg_wdata[i] ELSE @[i]]]
                    ELSE memory
    <3>1. grnt = UART /\ w = WordOf(reg_addr)
      BY <2>3 DEF Answers, Requests, WordHeld
    <3>. QED  BY <2>3, <3>1 DEF Answers
  <2>. QED  BY <1>6, <2>1, <2>2, <2>3 DEF ChipSide
<1>7. CASE LineClock
  <2>1. Initiator(reg_req, wbm_uart_dat_o, ZeroWord, FALSE) /\ UNCHANGED bridgeVars /\ UNCHANGED tarVars
    BY <1>7 DEF LineClock, Expirations, LineEdge, InEdge
  <2>. QED  BY <1>1, <1>4, <2>1 DEF bridgeVars, tarVars, Resting, Served
<1>8. CASE ChipEdge
  <2>1. ChipSide /\ Target(wbm_uart_ack_o) /\ UNCHANGED iniVars
    BY <1>8 DEF ChipEdge, OutEdge
  <2>2. Served' <=> wb_ack_o' \/ out_flag'
    BY <1>1, <2>1 DEF iniVars, Served
  <2>3. CASE out_flag
    BY <1>3, <1>5, <2>1, <2>2, <2>3 DEF Resting
  <2>4. CASE ~out_flag
    BY <1>1, <1>3, <1>6, <2>1, <2>2, <2>4 DEF Resting, Answering
  <2>. QED  BY <2>3, <2>4
<1>9. CASE BothClocks
  <2>1. /\ Initiator(reg_req, wbm_uart_dat_o, ZeroWord, FALSE)
        /\ ChipSide /\ Target(wbm_uart_ack_o)
    BY <1>9 DEF BothClocks, Expirations, BothEdges, InOutEdge
  <2>2. CASE out_flag
    <3>1. Served'
      BY <1>4, <1>5, <2>1, <2>2 DEF Served
    <3>. QED  BY <1>3, <1>5, <2>1, <2>2, <3>1 DEF Resting
  <2>3. CASE ~out_flag
    <3>1. in_state' = in_state /\ ~in_reg_ack'
      BY <1>4, <2>1, <2>3
    <3>2. Served' <=> wb_ack_o' \/ out_flag'
      BY <3>1 DEF Served
    <3>. QED  BY <1>1, <1>3, <1>6, <2>1, <2>3, <3>2 DEF Resting, Answering
  <2>. QED  BY <2>2, <2>3
<1>. QED  BY <1>2, <1>7, <1>8, <1>9 DEF Next

(* The edges of the line's clock, while no access is waited for.            *)
LEMMA NothingServed ==
  ASSUME ~Slow, ~SpiActive, Handshake, Asking, WordHeld, LineClock \/ BothClocks,
         in_state # "INI_WAIT_ACK"
  PROVE  memory' = memory /\ ~Served' /\ ~in_reg_ack' /\ in_reg_rdata' = in_reg_rdata
<1>. USE DEF Handshake, States, Quiet, Falling
<1>1. /\ Initiator(reg_req, wbm_uart_dat_o, ZeroWord, FALSE)
      /\ ChipSide \/ UNCHANGED bridgeVars
      /\ Target(wbm_uart_ack_o) \/ UNCHANGED tarVars
  BY DEF LineClock, BothClocks, Expirations, LineEdge, BothEdges, InEdge, InOutEdge
<1>2. memory' = memory /\ ~wb_ack_o'
  BY <1>1, BusIdle
<1>3. ~in_reg_ack' /\ in_reg_rdata' = in_reg_rdata
  BY <1>1 DEF Initiator, IniIdle, IniDone, IniWaits, IniTarDone
<1>4. in_state' = "INI_WAIT_ACK" => ~out_flag'
  BY <1>1 DEF Initiator, IniIdle, IniDone, IniWaits, IniTarDone,
              Target, TarIdle, TarWaitAck, TarWaitIniDone, tarVars
<1>. QED  BY <1>2, <1>3, <1>4 DEF Served

(* The edges of the chip's clock, while no access is waited for.            *)
LEMMA ChipRests ==
  ASSUME ~SpiActive, Handshake, WordHeld, ChipEdge \/ UNCHANGED vars, in_state # "INI_WAIT_ACK"
  PROVE  Resting
<1>1. UNCHANGED iniVars /\ (ChipSide \/ UNCHANGED bridgeVars)
  BY DEF ChipEdge, OutEdge, vars, regBusVars
<1>2. memory' = memory /\ ~wb_ack_o /\ ~wb_ack_o'
  BY <1>1, BusIdle, BusIsDown
<1>. QED  BY <1>1, <1>2 DEF iniVars, Served, Resting

(* The interpreter and the terminal stay where they are.                    *)
Kept ==
  /\ UNCHANGED <<State, NextState, cmd, RxMsgCnt, reg_addr, reg_wdata, reg_be, reg_wr, burst_cnt>>
  /\ UNCHANGED <<field, char, line, before, printed, lines>>
  /\ State = "SEND_RD_DATA" => in_reg_rdata' = in_reg_rdata

LEMMA KeptStep ==
  ASSUME Course, Kept, Resting \/ Answering
  PROVE  Course'
<1>1. CASE Starting
  BY <1>1 DEF Course, Kept, Starting
<1>2. ASSUME lines > 0, line \in Commands, Stage
      PROVE  Stage'
  <2>1. ASSUME State \notin Sends
        PROVE  memory' = memory
    BY <2>1 DEF Resting, Answering
  <2>2. CASE Naming
    BY <2>1, <2>2 DEF Naming, Untouched, Kept, Stage, Sends
  <2>3. CASE Addressing
    BY <2>1, <2>3 DEF Addressing, Untouched, Kept, Stage, Sends
  <2>4. CASE Sizing
    BY <2>1, <2>4 DEF Sizing, Untouched, Kept, Stage, Sends
  <2>5. CASE Writing
    <3>1. memory' = memory
      BY <2>1, <2>5 DEF Writing, Sends
    <3>2. PICK d \in 1..Len(line.data), n \in 0..8 : WritingDatum(d, n)
      BY <2>5 DEF Writing
    <3>3. WritingDatum(d, n)'
      BY <3>1, <3>2 DEF WritingDatum, Kept
    <3>. QED  BY <2>5, <3>3 DEF Writing, Kept, Stage
  <2>6. CASE Storing
    <3>1. PICK d \in 1..Len(line.data) : StoringDatum(d)
      BY <2>6 DEF Storing
    <3>2. memory' = Stored(before, line, IF Served' THEN d ELSE d - 1)
      <4>1. CASE Resting
        BY <3>1, <4>1 DEF Resting, StoringDatum
      <4>2. CASE Answering
        <5>1. /\ line.op = "wm" /\ Len(line.data) \in Nat \ {0} /\ line.adr \in 0..15
              /\ reg_addr = line.adr + 4 * (d - 1) /\ AsksFor(reg_be, reg_wdata, line, d)
              /\ reg_wr
          BY <1>2, <2>6, <3>1, Forms DEF Storing, StoringDatum
        <5>2. memory = Stored(before, line, d - 1)
          BY <3>1, <4>2 DEF Answering, StoringDatum
        <5>3. d - 1 \in Nat /\ d - 1 < Len(line.data)
          BY <5>1
        <5>4. WordOf(reg_addr) \in WordAddrs /\ WordOf(reg_addr) = WordOf(line.adr) + (d - 1)
          BY <1>2, <5>1, <5>3, Reach
        <5>5. memory' = [memory EXCEPT ![WordOf(reg_addr)] =
                [i \in 0..7 |-> IF i \div 2 \in reg_be THEN reg_wdata[i] ELSE @[i]]]
          BY <4>2, <5>1 DEF Answering
        <5>6. memory' = Stored(before, line, d)
          BY <1>2, <5>1, <5>2, <5>4, <5>5, OneMoreStored, SMTT(30)
        <5>. QED  BY <4>2, <5>6 DEF Answering
      <4>. QED  BY <4>1, <4>2
    <3>3. StoringDatum(d)'
      BY <3>1, <3>2 DEF StoringDatum, Kept, AsksFor, Nibble
    <3>. QED  BY <2>6, <3>3 DEF Storing, Kept, Stage
  <2>7. CASE Reading
    <3>1. memory' = memory
      BY <2>7 DEF Reading, Resting, Answering
    <3>2. PICK n \in 0..(Size(line) - 1) : Fetching(n) \/ Fetched(n) \/ Showing(n)
      BY <2>7 DEF Reading
    <3>3. (Fetching(n) \/ Fetched(n) \/ Showing(n))'
      BY <3>2 DEF Fetching, Fetched, Showing, Following, Kept
    <3>. QED  BY <2>7, <3>1, <3>3 DEF Reading, Kept, Stage
  <2>8. CASE Finished
    BY <2>1, <2>8 DEF Finished, Kept, Stage, Sends
  <2>. QED  BY <1>2, <2>2, <2>3, <2>4, <2>5, <2>6, <2>7, <2>8 DEF Stage
<1>3. UNCHANGED <<line, before, lines>>
  BY DEF Kept
<1>. QED  BY <1>1, <1>2, <1>3 DEF Course, Kept, Starting

(* While it waits for its answer the interpreter is left alone.             *)
LEMMA WaitingIsKept ==
  ASSUME NEW over, LineSide(over), State \in Sends, ~in_reg_ack
  PROVE  Kept
<1>1. ~AtPrompt /\ ~Accepts /\ State # "SEND_RD_DATA"
  BY DEF AtPrompt, Accepts, Sends
<1>2. PICK c : Key(c, over)
  BY <1>1, KeyOfLine
<1>3. UNCHANGED <<field, char, line, before, printed, lines>>
  BY <1>1, <1>2, KeyOfLine, NothingTyped
<1>4. SendBwrReq(in_reg_ack) \/ SendWrReq(in_reg_ack) \/ SendRdReq(in_reg_ack)
  BY <1>2, ByState DEF Key, Sends
<1>5. UNCHANGED <<State, NextState, cmd, RxMsgCnt, reg_addr, reg_wdata, reg_be, reg_wr, burst_cnt>>
  BY <1>4 DEF SendBwrReq, SendWrReq, SendRdReq
<1>. QED  BY <1>1, <1>3, <1>5 DEF Kept

(* One stage of the line after another.                                     *)
LEMMA LineGoesOn ==
  ASSUME Course, Answered, TypeOK, NEW over, LineSide(over),
         ~(State \in Sends /\ ~in_reg_ack), in_reg_ack => State \in Sends,
         memory' = memory, ~Served', in_reg_rdata' = in_reg_rdata
  PROVE  Course'
<1>1. lines \in Nat /\ before \in [WordAddrs -> Word]
  BY DEF Course
<1>2. CASE Starting
  <2>1. /\ lines' \in Nat /\ before' \in [WordAddrs -> Word]
        /\ Starting' \/ (lines' > 0 /\ line' \in Commands /\ Naming')
    BY <1>1, <1>2, StartingStep
  <2>. QED  BY <2>1 DEF Course, Stage
<1>3. ASSUME lines > 0, line \in Commands, Stage
      PROVE  Course'
  <2>1. CASE Finished
    <3>1. /\ lines' \in Nat /\ lines' > 0 /\ line' \in Commands /\ before' \in [WordAddrs -> Word]
          /\ Finished' \/ Naming'
      BY <1>1, <1>3, <2>1, FinishedStep
    <3>. QED  BY <3>1 DEF Course, Stage
  <2>2. CASE ~Finished
    <3>1. ~AtPrompt
      BY <1>3, <2>2 DEF AtPrompt, Stage, Naming, Addressing, Sizing, Writing, Storing, StoringDatum,
              Reading, Fetching, Fetched, Showing
    <3>2. PICK c : Key(c, over)
      BY <3>1, KeyOfLine
    <3>3. /\ UNCHANGED <<line, before, lines>>
          /\ printed' = IF State = "SEND_RD_DATA" THEN Append(printed, in_reg_rdata) ELSE printed
      BY <3>1, KeyOfLine
    <3>4. State # "SEND_RD_DATA" => printed' = printed
      BY <3>3
    <3>5. ASSUME Naming
          PROVE  Naming' \/ Addressing'
      <4>1. State # "SEND_RD_DATA"
        BY <3>5 DEF Naming
      <4>. QED  BY <1>3, <3>2, <3>3, <3>4, <3>5, <4>1, NamingStep
    <3>6. ASSUME Addressing
          PROVE  Addressing' \/ Sizing' \/ Writing' \/ Reading'
      <4>1. ~in_reg_ack /\ State # "SEND_RD_DATA"
        BY <3>6 DEF Addressing, Sends
      <4>. QED  BY <1>1, <1>3, <3>2, <3>3, <3>4, <3>6, <4>1, AddressingStep
    <3>7. ASSUME Sizing
          PROVE  Sizing' \/ Reading'
      <4>1. State # "SEND_RD_DATA"
        BY <3>7 DEF Sizing
      <4>. QED  BY <1>3, <3>2, <3>3, <3>4, <3>7, <4>1, SizingStep
    <3>8. ASSUME Writing
          PROVE  Writing' \/ Storing'
      <4>1. State # "SEND_RD_DATA"
        BY <3>8 DEF Writing
      <4>. QED  BY <1>3, <3>2, <3>3, <3>4, <3>8, <4>1, WritingStep
    <3>9. ASSUME Storing
          PROVE  Writing' \/ Finished'
      <4>1. State \in {"SEND_BWR_REQ", "SEND_WR_REQ"}
        BY <3>9 DEF Storing, StoringDatum
      <4>2. in_reg_ack /\ State # "SEND_RD_DATA"
        BY <4>1 DEF Sends
      <4>. QED  BY <1>3, <3>2, <3>3, <3>4, <3>9, <4>2, StoringStep
    <3>10. ASSUME Reading
           PROVE  Reading' \/ Finished'
      <4>1. State = "SEND_RD_REQ" => in_reg_ack
        BY DEF Sends
      <4>. QED  BY <1>3, <3>2, <3>3, <3>10, <4>1, ReadingStep
    <3>11. Stage'
      <4>1. Naming \/ Addressing \/ Sizing \/ Writing \/ Storing \/ Reading
        BY <1>3, <2>2 DEF Stage
      <4>2. \/ Naming' \/ Addressing' \/ Sizing' \/ Writing'
            \/ Storing' \/ Reading' \/ Finished'
        BY <3>5, <3>6, <3>7, <3>8, <3>9, <3>10, <4>1
      <4>. QED  BY <4>2 DEF Stage
    <3>. QED  BY <1>1, <1>3, <3>3, <3>11 DEF Course
  <2>. QED  BY <2>1, <2>2
<1>. QED  BY <1>2, <1>3 DEF Course

(* The interpreter asks, the bus and the memory answer, the line goes on.   *)
LEMMA CourseStep ==
  ASSUME ~Slow, ~SpiActive, Handshake, Asking, WordHeld, TypeOK, Course, Answered, [Next]_vars
  PROVE  Course'
<1>1. in_reg_ack => in_state # "INI_WAIT_ACK"
  BY DEF Asking
<1>2. CASE ChipEdge \/ UNCHANGED vars
  <2>1. Kept
    BY <1>2 DEF ChipEdge, OutEdge, vars, handlerVars, terminalVars, regBusVars, iniVars, Kept
  <2>2. Resting \/ Answering
    BY <1>2, ChipRests, BusWaits
  <2>. QED  BY <2>1, <2>2, KeptStep
<1>3. CASE LineClock \/ BothClocks
  <2>1. PICK over \in BOOLEAN : LineSide(over)
    BY <1>3 DEF LineClock, BothClocks, LineEdge, BothEdges
  <2>2. CASE in_state = "INI_WAIT_ACK"
    <3>1. State \in Sends /\ ~in_reg_ack
      BY <1>1, <2>2 DEF Asking
    <3>. QED  BY <2>1, <2>2, <3>1, WaitingIsKept, BusWaits, KeptStep
  <2>3. CASE in_state # "INI_WAIT_ACK"
    <3>1. memory' = memory /\ ~Served' /\ in_reg_rdata' = in_reg_rdata
      BY <1>3, <2>3, NothingServed
    <3>2. CASE State \in Sends /\ ~in_reg_ack
      <4>1. ~Served
        BY <2>3, <3>2, BusIsDown DEF Served
      <4>2. Resting
        BY <3>1, <4>1 DEF Resting
      <4>. QED  BY <2>1, <3>2, <4>2, WaitingIsKept, KeptStep
    <3>3. CASE ~(State \in Sends /\ ~in_reg_ack)
      BY <2>1, <3>1, <3>3, LineGoesOn DEF Answered
    <3>. QED  BY <3>2, <3>3
  <2>. QED  BY <2>2, <2>3
<1>. QED  BY <1>2, <1>3 DEF Next

(* What the initiator catches is the word the memory answered with.         *)
LEMMA AnsweredStep ==
  ASSUME ~Slow, ~SpiActive, Handshake, Asking, WordHeld, Answered, [Next]_vars
  PROVE  Answered'
<1>1. CASE ChipEdge \/ UNCHANGED vars
  <2>1. UNCHANGED <<in_reg_ack, in_reg_rdata, State, reg_wr, reg_addr>>
    BY <1>1 DEF ChipEdge, OutEdge, vars, handlerVars, regBusVars, iniVars
  <2>2. in_reg_ack => in_state # "INI_WAIT_ACK"
    BY DEF Asking
  <2>3. in_reg_ack => memory' = memory
    BY <1>1, <2>2, ChipRests DEF Resting
  <2>. QED  BY <2>1, <2>3 DEF Answered, WordOf
<1>2. CASE LineClock \/ BothClocks
  <2>1. CASE in_state # "INI_WAIT_ACK"
    BY <1>2, <2>1, NothingServed DEF Answered
  <2>2. CASE in_state = "INI_WAIT_ACK"
    <3>1. PICK over \in BOOLEAN : LineSide(over)
      BY <1>2 DEF LineClock, BothClocks, LineEdge, BothEdges
    <3>2. State \in Sends /\ ~in_reg_ack
      BY <2>2 DEF Asking
    <3>3. UNCHANGED <<State, reg_wr, reg_addr>>
      BY <3>1, <3>2, WaitingIsKept DEF Kept
    <3>4. Initiator(reg_req, wbm_uart_dat_o, ZeroWord, FALSE)
      BY <1>2 DEF LineClock, BothClocks, Expirations, LineEdge, BothEdges, InEdge, InOutEdge
    <3>5. CASE IniWaits
      BY <3>2, <3>5 DEF IniWaits, Answered
    <3>6. CASE IniDone(wbm_uart_dat_o)
      <4>1. out_flag /\ in_reg_rdata' = wbm_uart_dat_o
        BY <2>2, <3>6 DEF IniDone, Handshake, Rising
      <4>2. ~reg_wr => in_reg_rdata' = memory[WordOf(reg_addr)]
        BY <2>2, <4>1 DEF WordHeld, OnBus, wbm_uart_dat_o
      <4>3. Served
        BY <2>2, <4>1 DEF Served
      <4>4. memory' = memory
        BY <2>2, <4>3, BusWaits DEF Resting, Answering
      <4>. QED  BY <3>2, <3>3, <4>2, <4>4 DEF Answered, WordOf
    <3>. QED  BY <2>2, <3>4, <3>5, <3>6 DEF Initiator, IniIdle, IniTarDone
  <2>. QED  BY <2>1, <2>2
<1>. QED  BY <1>1, <1>2 DEF Next

LEMMA CourseInit == Init => Course /\ Answered
<1>. SUFFICES ASSUME Init
              PROVE  Course /\ Answered
  OBVIOUS
<1>1. Typed
  BY TypedInit
<1>2. before \in [WordAddrs -> Word]
  BY <1>1 DEF Typed, TypeOK, Init
<1>3. Starting /\ lines \in Nat
  BY DEF Init, HandlerInit, Starting
<1>4. Answered
  BY DEF Init, RegBusInit, Answered
<1>. QED  BY <1>2, <1>3, <1>4 DEF Course

(* Every line has done and shown what it says when the prompt is back, for  *)
(* every memory, whatever well-formed lines are typed, however the clocks   *)
(* interleave and however long the memory takes, as long as the timer does  *)
(* not end first and the SPI master does not come in between.               *)
THEOREM LinesAreRight ==
  ASSUME ~Slow, ~SpiActive
  PROVE  Spec => []LinesRight
<1>1. ASSUME Handshake, Asking, WordHeld, Course, Answered, TypeOK, [Next]_vars
      PROVE  Handshake' /\ Asking' /\ WordHeld' /\ Course' /\ Answered'
  BY <1>1, NextIsBusStep, HandshakeStep, AskingStep, WordHeldStep, CourseStep, AnsweredStep
<1>2. ASSUME Course
      PROVE  LineDone
  <2>. SUFFICES ASSUME AtPrompt, lines > 0
                PROVE  Finished
    BY DEF LineDone, Finished
  <2>. QED
    BY <1>2 DEF Course, Starting, AtPrompt, Stage, Naming, Addressing, Sizing, Writing, Storing,
                StoringDatum, Reading, Fetching, Fetched, Showing
<1>3. ASSUME Course, TypeOK
      PROVE  LinesRight
  BY <1>2, <1>3 DEF LinesRight
<1>. QED
  BY <1>1, <1>3, HandshakeInit, WordHeldInit, CourseInit, TypeCorrect, PTL DEF Spec

==============================================================================
