------------------------------ MODULE UartHost ------------------------------
(****************************************************************************)
(* The UART host, verilog/rtl/uart2wb/src/uart2wb.sv: UartMsgHandler at the *)
(* line's clock and AsyncRegBus to the chip's, on the bus of the host       *)
(* bridge (wb_host.sv), where the SPI master may be the other user.         *)
(*                                                                          *)
(* Of the bridge there is the arbiter, the registered answer and the        *)
(* multiplexers; the rest is a memory that answers in some later cycle.     *)
(*                                                                          *)
(* Somebody at the terminal types well-formed command lines, and waits with *)
(* each character until the interpreter takes it: it drops what arrives     *)
(* during an access or a message.                                           *)
(****************************************************************************)
EXTENDS UartMsgHandler, AsyncRegBus

CONSTANTS
  Commands,   \* bound: [op, adr, data] the terminal types, see WellFormed
  MaxLines,   \* bound: how many it types
  SpiActive,  \* the SPI master reads as well
  Slow        \* an access may take the 512 clocks of the bus's timer

UART == 1
SPI == 2

ASSUME UartHostAssumption ==
  MaxLines \in Nat /\ SpiActive \in BOOLEAN /\ Slow \in BOOLEAN

VARIABLES
  grnt, spi_stb, wb_ack_o, wb_dat_o,  \* the host bridge
  memory,                             \* its words, by word address
  field, char,                        \* what the terminal types next of its line
  line,                               \* history: the command,
  before, printed,                    \*   the memory before it and the words shown
  lines                               \* bound: how many were typed

bridgeVars == <<grnt, spi_stb, wb_ack_o, wb_dat_o, memory>>
terminalVars == <<field, char, line, before, printed, lines>>
vars == <<handlerVars, regBusVars, bridgeVars, terminalVars>>

WordAddrs == 0..(AddrSpace \div 4 - 1)
WordOf(a) == a \div 4

------------------------------------------------------------------------------
(* Command lines.                                                           *)
NoLine == [op |-> "none", adr |-> 0, data |-> <<>>]

(* "wm <adr> <data> <data> ...", "rm <adr>" and "br <adr> <size>": fields   *)
(* that end with a space, the last one with a line break.  An address and a *)
(* size are one digit, data are digits, the highest first.                  *)
Fields(command) ==
  CASE command.op = "wm" -> 2 + Len(command.data)
    [] command.op = "rm" -> 2
    [] command.op = "br" -> 3

Name(command) ==
  CASE command.op = "wm" -> <<"w", "m">>
    [] command.op = "rm" -> <<"r", "m">>
    [] command.op = "br" -> <<"b", "r">>

Field(command, f) ==
  CASE f = 1 -> Name(command)
    [] f = 2 -> <<Digits[command.adr + 1]>>
    [] f > 2 -> IF command.op = "wm" THEN command.data[f - 2]
                                     ELSE <<Digits[command.size + 1]>>

Char(command, f, i) ==
  IF i <= Len(Field(command, f)) THEN Field(command, f)[i]
  ELSE IF f < Fields(command) THEN Space ELSE Break

(* Data are whole bytes, at most a word, that do not go beyond the word they*)
(* begin in; what a line reaches is in the memory.                          *)
IsDatum(command, datum) ==
  /\ Len(datum) \in {2, 4, 6, 8}
  /\ (command.adr % 4) + (Len(datum) \div 2) <= 4

WellFormed(command) ==
  LET words == CASE command.op = "wm" -> Len(command.data)
                 [] command.op = "rm" -> 1
                 [] command.op = "br" -> command.size
  IN  /\ command.op \in {"wm", "rm", "br"}
      /\ command.adr \in 0..15
      /\ command.op = "wm" =>
           /\ command.data \in Seq(Seq({Digits[d] : d \in 1..16}))
           /\ \A d \in DOMAIN command.data : IsDatum(command, command.data[d])
      /\ command.op = "br" => command.size \in 0..15
      /\ words > 0 /\ WordOf(command.adr) + words <= AddrSpace \div 4

ASSUME CommandsAssumption == \A command \in Commands : WellFormed(command)

(* What a command promises, byte by byte.  The bytes it names are written   *)
(* upwards from its address, eight digits a word.                           *)
Nibble(datum, i) == char2hex(datum[Len(datum) - i])

At(command, d) == 2 * (command.adr + 4 * (d - 1))  \* where a datum begins

Reaches(command, d, nibble) ==
  nibble \in At(command, d)..(At(command, d) + Len(command.data[d]) - 1)

NibbleAfter(old, command, nibble) ==
  IF \E d \in DOMAIN command.data : Reaches(command, d, nibble)
    THEN LET d == CHOOSE d \in DOMAIN command.data : Reaches(command, d, nibble)
         IN  Nibble(command.data[d], nibble - At(command, d))
    ELSE old

Written(mem, command) ==
  [w \in WordAddrs |-> [i \in 0..7 |-> NibbleAfter(mem[w][i], command, 8 * w + i)]]

MemoryAfter(mem, command) ==
  IF command.op = "wm" THEN Written(mem, command) ELSE mem

WordsShown(mem, command) ==
  CASE command.op = "rm" -> <<mem[WordOf(command.adr)]>>
    [] command.op = "br" -> [n \in 1..command.size |-> mem[WordOf(command.adr) + n - 1]]
    [] OTHER -> <<>>

------------------------------------------------------------------------------
Init ==
  /\ HandlerInit
  /\ RegBusInit(ZeroWord)
  /\ grnt = 0 /\ spi_stb = FALSE /\ wb_ack_o = FALSE /\ wb_dat_o = ZeroWord
  /\ memory = [w \in WordAddrs |-> ZeroWord]
  /\ field = 0 /\ char = 1 /\ line = NoLine
  /\ before = memory /\ printed = <<>>
  /\ lines = 0

AtPrompt == State = "RX_CMD_PHASE" /\ field = 0

(* The multiplexers of the host bridge.                                     *)
wbm_uart_ack_o == grnt = UART /\ wb_ack_o
wbm_uart_dat_o == IF grnt = UART THEN wb_dat_o ELSE ZeroWord

(* The line's clock: the terminal, the interpreter and the initiator.       *)
Takes(c, over) == Handler(c, in_reg_ack, in_reg_rdata, over)

Waits(over) == Takes(NoChar, over) /\ UNCHANGED <<field, char, line, before, lines>>

TypesOn(over) ==
  /\ Accepts /\ field # 0
  /\ Takes(Char(line, field, char), over)
  /\ IF char <= Len(Field(line, field)) THEN char' = char + 1 /\ UNCHANGED field
     ELSE char' = 1 /\ field' = IF field < Fields(line) THEN field + 1 ELSE 0
  /\ UNCHANGED <<line, before, lines>>

BeginsLine(command, over) ==
  /\ AtPrompt /\ lines < MaxLines
  /\ Takes(Char(command, 1, 1), over)
  /\ field' = 1 /\ char' = 2
  /\ line' = command /\ before' = memory /\ lines' = lines + 1

Shows ==
  printed' = IF State = "SEND_RD_DATA" THEN Append(printed, in_reg_rdata)
             ELSE IF lines' # lines THEN <<>>
             ELSE printed

LineSide(over) ==
  /\ Waits(over) \/ TypesOn(over) \/ \E command \in Commands : BeginsLine(command, over)
  /\ Shows

(* The chip's clock: the arbiter, the memory and the SPI master.            *)
Requests == (IF out_reg_cs THEN {UART} ELSE {}) \cup (IF spi_stb THEN {SPI} ELSE {})

Arb == INSTANCE WbArb WITH Active <- {UART, SPI}, Impatient <- {}, gnt <- grnt, req <- Requests

(* What a write leaves in the answer's word is looked at by nobody and left  *)
(* out.                                                                     *)
Answers(w) ==
  LET write == grnt = UART /\ reg_wr
  IN  /\ grnt \in Requests /\ ~wb_ack_o
      /\ grnt = UART => w = WordOf(reg_addr)
      /\ wb_ack_o' = TRUE
      /\ wb_dat_o' = IF write THEN wb_dat_o ELSE memory[w]
      /\ memory' = IF write
           THEN [memory EXCEPT ![w] =
                  [i \in 0..7 |-> IF i \div 2 \in reg_be THEN reg_wdata[i] ELSE @[i]]]
           ELSE memory

(* An answer that is on the bus for the acknowledge's cycle only.           *)
SilentClears ==
  wb_ack_o' = FALSE /\ wb_dat_o' = ZeroWord /\ UNCHANGED memory

Silent == wb_ack_o' = FALSE /\ UNCHANGED <<wb_dat_o, memory>>

ChipSide ==
  /\ grnt' = Arb!NextGrant(grnt, Requests)
  /\ Silent \/ \E w \in WordAddrs : Answers(w)
  /\ spi_stb' \in IF ~SpiActive THEN {FALSE}
                  ELSE IF spi_stb THEN {~(grnt = SPI /\ wb_ack_o)} ELSE BOOLEAN

LineEdge(over, expires) ==
  /\ LineSide(over)
  /\ InEdge(reg_req, wbm_uart_dat_o, ZeroWord, expires)
  /\ UNCHANGED bridgeVars

ChipEdge ==
  ChipSide /\ OutEdge(wbm_uart_ack_o) /\ UNCHANGED <<handlerVars, terminalVars>>

BothEdges(over, expires) ==
  /\ LineSide(over)
  /\ ChipSide
  /\ InOutEdge(reg_req, wbm_uart_dat_o, ZeroWord, expires, wbm_uart_ack_o)

Expirations == IF Slow THEN BOOLEAN ELSE {FALSE}

LineClock == \E over \in BOOLEAN, expires \in Expirations : LineEdge(over, expires)
BothClocks == \E over \in BOOLEAN, expires \in Expirations : BothEdges(over, expires)

Next == LineClock \/ ChipEdge \/ BothClocks

Spec == Init /\ [][Next]_vars

(* Both clocks run, the terminal types and messages are sent.  Either the   *)
(* timer comes to its end, or the memory does not withhold its answer for   *)
(* ever.                                                                    *)
Expiry == \E over \in BOOLEAN : LineEdge(over, TRUE) \/ BothEdges(over, TRUE)

Fairness ==
  /\ WF_vars(LineClock \/ BothClocks)
  /\ WF_vars(ChipEdge \/ BothClocks)
  /\ IF Slow THEN WF_vars(Expiry) ELSE []<>wbm_uart_ack_o \/ []<>~out_reg_cs

FairSpec == Spec /\ Fairness

------------------------------------------------------------------------------
(* The registers of the interpreter and of the bus hold values of their     *)
(* types; the memory holds words.                                           *)
TypeOK ==
  /\ RxMsgCnt \in 0..31 /\ burst_cnt \in 0..(BurstSpace - 1)
  /\ reg_addr \in 0..(AddrSpace - 1) /\ reg_wdata \in Word /\ reg_be \subseteq Lanes
  /\ reg_wr \in BOOLEAN /\ reg_req \in BOOLEAN
  /\ in_reg_rdata \in Word
  /\ memory \in [WordAddrs -> Word]

(* When the prompt is back, the memory is what the line asked for, byte by  *)
(* byte, and the words that were shown are those that it named              *)
(* (uart_msg_handler.v, lines 112-132), although every word went through    *)
(* two clock domains twice and into another's burst.                        *)
LineDone ==
  AtPrompt /\ lines > 0 =>
    memory = MemoryAfter(before, line) /\ printed = WordsShown(before, line)

(* The types, and that every line has done and shown what it says           *)
(* (uart_msg_handler.v, lines 112-132).                                     *)
LinesRight == TypeOK /\ LineDone

(* What crosses the clocks without a flop, the address, the data and the    *)
(* byte enables, does not change while the access is on the chip's bus      *)
(* (async_reg_bus.sv, line 25).                                             *)
AccessStable ==
  [][out_reg_cs /\ out_reg_cs' => UNCHANGED <<reg_addr, reg_wdata, reg_be, reg_wr>>]_vars

(* "Ever after out_reg_ack de-asserted reg_rdata holds the old data"        *)
(* (async_reg_bus.sv, line 26): the word stays on the bus from the          *)
(* acknowledge until the initiator catches it.                              *)
ReadDataHeld ==
  phase = "served" /\ ~reg_wr => wbm_uart_dat_o = memory[WordOf(reg_addr)]

(* "generate and terminate the transfer if 512 cycle transaction is not     *)
(* completed" (async_reg_bus.sv, line 22): the edge after an access was     *)
(* given up does not ask for it again.                                      *)
TimeoutTerminates == [][in_reg_timeout => ~in_flag']_vars

(* A line that was begun comes to its end, back at the prompt; with the     *)
(* timer even if nobody answers.                                            *)
LinesEnd == field # 0 ~> AtPrompt

==============================================================================
