------------------------------- MODULE WbiPort -------------------------------
(****************************************************************************)
(* The interconnect's own registers: the fourth arbiter of                  *)
(* verilog/rtl/wb_interconnect/src/wb_interconnect.sv (WbArb, with the      *)
(* history of WbArbHistory), the multiplexers around it and the register    *)
(* block wbi_reg.sv.                                                        *)
(*                                                                          *)
(* Unlike a slave port there is no bridge: the register block acknowledges  *)
(* a cycle after its chip select, and its answer is wired to every master   *)
(* whose address decodes to the registers.  The writable registers reg_1 to *)
(* reg_7 are a function; the status register and byte enables are left out. *)
(****************************************************************************)
EXTENDS WbArbHistory

CONSTANTS
  Registers,  \* the writable registers
  Data,       \* the words
  Written,    \* those of them that the masters write
  Zero        \* the reset value

ASSUME WbiAssumption == Zero \in Data /\ Written \subseteq Data

VARIABLES
  bus,        \* the access each master asks for, or None
  reg_ack, reg_rdata,
  regs,       \* reg_1 to reg_7
  performed   \* history: the access the last chip select performed

portVars == <<vars, bus, reg_ack, reg_rdata, regs, performed>>

None == [op |-> "none"]
Accesses ==
  [op : {"read"}, reg : Registers]
    \cup [op : {"write"}, reg : Registers, dat : Written]

PortInit ==
  /\ HInit
  /\ bus = [m \in Masters |-> None]
  /\ reg_ack = FALSE
  /\ reg_rdata = Zero
  /\ regs = [r \in Registers |-> Zero]
  /\ performed = <<0, None>>

reg_wbi_cs == gnt \in req
access == bus[gnt]

(* A grant that leaves when the acknowledge comes, as in the slave ports.   *)
GrantLeaves ==
  LET r == req \ (IF reg_wbi_cs THEN {gnt} ELSE {})
  IN  gnt' = NextGrant(gnt, r) /\ overtaken' = Overtakes(gnt', req)

Grant == gnt' = NextGrant(gnt, req) /\ overtaken' = Overtakes(gnt', req)

(* An acknowledge that lasts as long as the chip select.                    *)
AnswersAgain == reg_wbi_cs

(* The acknowledge is for one cycle.                                        *)
Answers == reg_wbi_cs /\ ~reg_ack

(* The chip select stands for two cycles, and so does the write enable: a   *)
(* write is done twice, the second time in the cycle of the acknowledge.    *)
RegisterBlock ==
  /\ reg_ack' = Answers
  /\ reg_rdata' = IF Answers THEN regs[access.reg] ELSE reg_rdata
  /\ regs' = IF reg_wbi_cs /\ access.op = "write"
               THEN [regs EXCEPT ![access.reg] = access.dat] ELSE regs
  /\ performed' = IF reg_wbi_cs THEN <<gnt, access>> ELSE performed

(* The acknowledge is not qualified by the grant: every master that         *)
(* addresses the registers sees it.                                         *)
Acked(m) == bus[m] # None /\ reg_ack

MastersMove ==
  /\ \E next \in [{m \in Active : bus[m] = None \/ Acked(m)} -> {None} \cup Accesses] :
       bus' = [m \in Masters |-> IF m \in DOMAIN next THEN next[m] ELSE bus[m]]
  /\ req' = {m \in Active : bus'[m] # None}

PortEdge == Grant /\ RegisterBlock /\ MastersMove

PortSpec == PortInit /\ [][PortEdge]_portVars

(* The clock ticks.                                                         *)
FairPortSpec == PortSpec /\ WF_portVars(PortEdge)

------------------------------------------------------------------------------
(* The registers hold values of their types.                                *)
PortTypeOK ==
  /\ HTypeOK
  /\ bus \in [Masters -> {None} \cup Accesses]
  /\ reg_rdata \in Data
  /\ regs \in [Registers -> Data]

(* An acknowledge finds the grant where it was when the access was done,    *)
(* with the same access still up, and the word read or written still the    *)
(* one in the register: the two cycles of an access are one to the granted  *)
(* master.                                                                  *)
GrantedIsServed ==
  reg_ack =>
    /\ performed = <<gnt, access>>
    /\ regs[access.reg] = IF access.op = "read" THEN reg_rdata ELSE access.dat

(* The registers keep their types and what an acknowledge stands for was    *)
(* done, for the master that has the grant (wb_interconnect.sv, line 682).  *)
PortInv == PortTypeOK /\ GrantedIsServed

(* A register changes once for a write: in the first of the two cycles, and *)
(* the next one acknowledges this very write to its master, which still has *)
(* the grant.  The cycle of the acknowledge, in which the write enable      *)
(* stands again (wbi_reg.sv, lines 89-107), changes nothing, although the   *)
(* other masters move their requests and accesses meanwhile.                *)
ChangesAreAcked ==
  [][regs' # regs =>
       /\ ~reg_ack /\ reg_ack'
       /\ gnt' = gnt /\ access' = access
       /\ regs' = [regs EXCEPT ![access.reg] = access.dat]]_portVars

(* A request of master 0 or 1 is granted or dropped in the end, unless      *)
(* another master keeps its own up for ever: the grant parks as long as a   *)
(* request stays, however many accesses are made under it (wb_arb.sv, lines *)
(* 110-144).  Nothing else the masters do can keep 0 or 1 out; 2 and 3 have *)
(* no such promise.                                                         *)
Parked(k) == gnt = k /\ k \in req

LowMastersServed ==
  \A m \in {0, 1} :
    \/ m \in req ~> (gnt = m \/ m \notin req)
    \/ \E k \in Active \ {m} : <>[]Parked(k)

(* "3 masters and 3 slaves share bus Wishbone connection" (wb_interconnect, *)
(* line 27): a master that is acknowledged had its access done.             *)
AckedWasDone == \A m \in Active : Acked(m) => performed = <<m, bus[m]>>

==============================================================================
