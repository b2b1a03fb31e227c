-------------------------------- MODULE WbHost --------------------------------
(****************************************************************************)
(* The host bridge, verilog/rtl/wb_host/src/wb_host.sv: the UART and the    *)
(* SPI master share one bus (WbArb).  Its strobe and its answers are        *)
(* registered; an access goes to the bridge's own registers (wbh_reg.sv) or *)
(* through AsyncWb to the chip, at the address whose upper part is the bank *)
(* register.                                                                *)
(*                                                                          *)
(* The UART holds a request until it is acknowledged.  The SPI master takes *)
(* its request away when its chip select rises or its next frame begins.    *)
(* The chip is a memory of one word per bank.                               *)
(****************************************************************************)
EXTENDS AsyncWb

CONSTANTS
  ChipUsers,  \* bound: the hosts that access the chip
  BankUsers,  \* bound: the hosts that access the bank register
  Written,    \* bound: the words they write to the chip
  Impatient,  \* the hosts among them that may take a request away
  ResetBank,  \* the reset value of the bank register
  Zero        \* the word the memory holds at reset

UART == 1
SPI == 2
Hosts == {UART, SPI}

ASSUME WbHostAssumption ==
  /\ ChipUsers \subseteq Hosts /\ BankUsers \subseteq Hosts
  /\ Impatient \subseteq ChipUsers \cup BankUsers
  /\ Written \subseteq Words
  /\ ResetBank \in Addrs
  /\ Zero \in Words

VARIABLES
  grnt,
  bus,                         \* the access each host puts up
  wb_req, wb_ack_o, wb_dat_o,  \* the registered strobe and answer
  reg_ack, cfg_bank_sel,       \* the bridge's own registers
  slv, memory,                 \* the chip: its answer and its words
  seen, seenBank               \* history: what the hosts believe is there

hostVars == <<grnt, bus, wb_req, wb_ack_o, wb_dat_o, reg_ack, cfg_bank_sel>>
chipVars == <<slv, memory>>
vars == <<asyncWbVars, hostVars, chipVars, seen, seenBank>>

(* A dropped request leaves its address behind, but not its write line.     *)
Idle(to) == [stb |-> FALSE, to |-> to, we |-> FALSE, dat |-> Zero]
Reads(to) == [stb : {TRUE}, to : {to}, we : {FALSE}, dat : {Zero}]
Writes(to, words) == [stb : {TRUE}, to : {to}, we : {TRUE}, dat : words]

Accesses(h) ==
  (IF h \in ChipUsers THEN Reads("chip") \cup Writes("chip", Written) ELSE {})
    \cup (IF h \in BankUsers THEN Reads("bank") \cup Writes("bank", Addrs) ELSE {})

Requests == {h \in Hosts : bus[h].stb}

Arb == INSTANCE WbArb WITH
  Active <- Hosts, gnt <- grnt, req <- Requests

Init ==
  /\ AsyncWbInit
  /\ grnt = 0
  /\ bus = [h \in Hosts |-> Idle("chip")]
  /\ wb_req = FALSE /\ wb_ack_o = FALSE /\ wb_dat_o = Zero
  /\ reg_ack = FALSE
  /\ cfg_bank_sel = ResetBank
  /\ slv = [ack |-> FALSE, dat |-> Zero]
  /\ memory = [a \in Addrs |-> Zero]
  /\ seen = memory /\ seenBank = cfg_bank_sel

------------------------------------------------------------------------------
(* The access of the granted host; no host is wired to grant 0.             *)
wb == IF grnt \in Hosts THEN bus[grnt] ELSE Idle("chip")

(* The strobe is late by a cycle, the rest of the access is not.            *)
reg_sel == wb_req /\ wb.to = "bank"

AsyncPort ==
  [stb |-> wb_req /\ ~reg_sel,
   we  |-> wb.we,
   adr |-> cfg_bank_sel,
   dat |-> IF wb.to = "chip" THEN wb.dat ELSE Zero]

wb_ack_o1 == IF reg_sel THEN reg_ack ELSE wbm_ack_o(AsyncPort)

(* The strobe not masked by the answer that is on its way.                  *)
StrobeUnmasked == wb.stb /\ ~wb_ack_o

Strobe == wb.stb /\ ~wb_ack_o /\ ~wb_ack_o1

(* What a write leaves in the answer's word is looked at by nobody and left  *)
(* out.                                                                     *)
Answer ==
  /\ wb_ack_o' = wb_ack_o1
  /\ wb_dat_o' = IF wb_ack_o1 /\ ~wb.we
                   THEN IF reg_sel THEN cfg_bank_sel ELSE wbm_dat_o
                   ELSE wb_dat_o

(* A register that does not look at the write line.                         *)
BankRegisterAnyAccess ==
  /\ reg_ack' = (reg_sel /\ ~reg_ack)
  /\ cfg_bank_sel' = IF reg_sel THEN wb.dat ELSE cfg_bank_sel

BankRegister ==
  /\ reg_ack' = (reg_sel /\ ~reg_ack)
  /\ cfg_bank_sel' = IF reg_sel /\ wb.we THEN wb.dat ELSE cfg_bank_sel

Acked(h) == grnt = h /\ wb_ack_o

(* An acknowledged host drops its request; an impatient one may overlook    *)
(* the acknowledge, and may give up without one.                            *)
Moves(h) ==
  CASE ~bus[h].stb -> {bus[h]} \cup Accesses(h)
    [] Acked(h) /\ h \notin Impatient -> {Idle(bus[h].to)}
    [] h \in Impatient -> {bus[h], Idle(bus[h].to)}
    [] OTHER -> {bus[h]}

(* What the hosts know: the writes they were told of.                       *)
History ==
  LET written(to) == wb_ack_o /\ wb.we /\ wb.to = to
  IN  /\ seen' = IF written("chip") THEN [seen EXCEPT ![seenBank] = wb.dat] ELSE seen
      /\ seenBank' = IF written("bank") THEN wb.dat ELSE seenBank

HostSide ==
  /\ grnt' = Arb!NextGrant(grnt, Requests)
  /\ wb_req' = Strobe
  /\ Answer
  /\ BankRegister
  /\ \E u \in Moves(UART), s \in Moves(SPI) :
       bus' = [h \in Hosts |-> IF h = UART THEN u ELSE s]
  /\ History

ChipSide(answers) ==
  IF answers /\ wbs_stb_o /\ ~slv.ack
    THEN LET c == Head(cmd)
         IN  /\ memory' = IF c.we THEN [memory EXCEPT ![c.adr] = c.dat] ELSE memory
             /\ slv' = [ack |-> TRUE, dat |-> memory[c.adr]]
    ELSE slv' = [ack |-> FALSE, dat |-> Zero] /\ UNCHANGED memory

HostEdge == HostSide /\ MasterEdge(AsyncPort) /\ UNCHANGED chipVars
ChipEdge(answers) ==
  ChipSide(answers) /\ SlaveEdge(slv) /\ UNCHANGED <<hostVars, seen, seenBank>>
BothEdges(answers) ==
  HostSide /\ ChipSide(answers) /\ MasterSlaveEdge(AsyncPort, slv)

Next == HostEdge \/ \E answers \in BOOLEAN : ChipEdge(answers) \/ BothEdges(answers)

Spec == Init /\ [][Next]_vars

(* Both clocks run, and the chip does not withhold its answer for ever.     *)
ChipAsked == wbs_stb_o /\ ~slv.ack

Fairness ==
  /\ WF_vars(HostEdge \/ \E answers \in BOOLEAN : BothEdges(answers))
  /\ WF_vars(\E answers \in BOOLEAN : ChipEdge(answers) \/ BothEdges(answers))
  /\ []<>slv.ack \/ []<>~ChipAsked

FairSpec == Spec /\ Fairness

------------------------------------------------------------------------------
(* The registers hold values of their types and the FIFOs fit their depth.  *)
TypeOK ==
  /\ grnt \in {0} \cup Hosts
  /\ \A h \in Hosts : bus[h] \in Accesses(h) \cup {Idle("chip"), Idle("bank")}
  /\ cmd \in Seq(Commands) /\ CmdFifo!wr_cnt <= CmdDepth
  /\ resp \in Seq(Words) /\ RespFifo!wr_cnt <= RespDepth
  /\ cfg_bank_sel \in Addrs
  /\ memory \in [Addrs -> Words] /\ seen \in [Addrs -> Words]

(* A read of either host is answered with the word the acknowledged writes  *)
(* of both left in the bank it addressed, although writes are posted, two   *)
(* clocks apart from the memory, and the answer crosses back two flops      *)
(* late.                                                                    *)
AnswersRight ==
  wb_ack_o /\ wb.stb /\ ~wb.we =>
    wb_dat_o = IF wb.to = "bank" THEN seenBank ELSE seen[seenBank]

(* "read is blocking request and expect only one location will be used"     *)
(* (async_wb, lines 39-41): as the slave's clock counts them, there is      *)
(* never a second response, so that the full flag which would drop one      *)
(* never does.                                                              *)
OneResponse == RespFifo!wr_cnt + RespFifo!Bit(s_resp_wr_en(slv)) <= 1

(* "For Write is feed through, if there is space in fifo the ack"           *)
(* (async_wb, line 144): a write at the port is acknowledged at once unless *)
(* the command FIFO is full or about to be.                                 *)
WriteFeedsThrough ==
  AsyncPort.stb /\ AsyncPort.we /\ CmdFifo!wr_cnt < CmdDepth - 1
    => wbm_ack_o(AsyncPort)

(* A chip access that was acknowledged is over in the bridge as well: the   *)
(* registered strobe never starts it a second time.                         *)
AckedOnce == wb_ack_o => ~wb_req /\ ~wb_ack_o1

(* The types, and that an access which crosses the bridge is neither begun  *)
(* nor answered twice (wb_host.sv, line 420; async_wb.sv, line 190).        *)
HostInv == TypeOK /\ OneResponse /\ AckedOnce

(* Both hosts are always answered.                                          *)
HostsAnswered == \A h \in Hosts : bus[h].stb ~> Acked(h)

==============================================================================
