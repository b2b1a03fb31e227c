----------------------------- MODULE WbSlavePort -----------------------------
(****************************************************************************)
(* A slave port of the interconnect, verilog/rtl/wb_interconnect/src/       *)
(* wb_slave_port.sv: the arbiter (WbArb) chooses one of the masters that    *)
(* address this slave, the burst bridge (SyncWbb) carries its transfer, and *)
(* the answer goes to the master that holds the grant.                      *)
(*                                                                          *)
(* The environment is the masters, each of which holds a request until its  *)
(* last acknowledge, and a slave with a memory of the longest burst's words *)
(* which acknowledges a cycle after it saw strobe and burst ready.          *)
(****************************************************************************)
EXTENDS SyncWbb

CONSTANTS
  Active,    \* the masters that use this slave
  MaxBurst,  \* bound: the longest burst
  Data,      \* the words
  Zero       \* the word 0, with which the memory is filled at reset

Masters == 0..3
Bursts == 1..MaxBurst

ASSUME SlavePortAssumption ==
  /\ Active \subseteq Masters
  /\ MaxBurst \in Nat \ {0}
  /\ Zero \in Data

VARIABLES
  gnt,     \* the arbiter's grant
  bus,     \* the transfer each master asks for, or None
  slv,     \* the slave's registered answer: ack, lack, dat
  beat,    \* the slave's word count within a burst
  memory,  \* the slave's words
  mbeat,   \* history: words of the granted transfer acknowledged so far
  seen     \* history: the memory as the writes acknowledged so far leave it

envVars == <<bus, slv, beat, memory, mbeat, seen>>
vars == <<bridgeVars, gnt, envVars>>

None == [we |-> FALSE, bl |-> 0]

(* The port ties off the burst length of master 0 (the host), and the data  *)
(* of master 3 (the instruction cache), though not its write enable.        *)
Transfers(m) == [we : BOOLEAN, bl : IF m = 0 THEN {1} ELSE Bursts]

DataOf(m) == IF m = 3 THEN {Zero} ELSE Data

AnyTransfer == UNION {Transfers(m) : m \in Active}

(* A request falls with the last acknowledge, so that the arbiter can move  *)
(* before the strobe falls.                                                 *)
Requests == {m \in Active : bus[m] # None /\ ~(m = gnt /\ wbm_lack_o)}

Arb == INSTANCE WbArb WITH Impatient <- {}, req <- Requests

(* The multiplexed master port.  Master 0's burst ready is tied high.       *)
MasterPort(ready, d) ==
  [stb |-> bus[gnt] # None,
   we  |-> bus[gnt].we,
   bl  |-> bus[gnt].bl,
   bry |-> ready \/ gnt = 0,
   dat |-> d]

Init ==
  /\ BridgeInit(Zero)
  /\ gnt = 0
  /\ bus = [m \in Masters |-> None]
  /\ slv = [ack |-> FALSE, lack |-> FALSE, dat |-> Zero]
  /\ beat = 0
  /\ memory = [i \in 1..MaxBurst |-> Zero]
  /\ mbeat = 0
  /\ seen = memory

------------------------------------------------------------------------------
(* The arbiter looking at the strobes alone.                                *)
GrantWithoutLast == gnt' = Arb!NextGrant(gnt, {m \in Active : bus[m] # None})

(* The arbiter, and a grant that any strobe can take away.                  *)
Grant == gnt' = Arb!NextGrant(gnt, Requests)

(* A master whose last acknowledge is there drops its request or puts up    *)
(* the next one at once; an idle one may start.                             *)
MastersMove ==
  \E next \in [Active \ Requests -> {None} \cup AnyTransfer] :
    /\ \A m \in DOMAIN next : next[m] \in {None} \cup Transfers(m)
    /\ bus' = [m \in Masters |-> IF m \in DOMAIN next THEN next[m] ELSE bus[m]]

(* The slave acknowledges one word a cycle after strobe and burst ready,    *)
(* never twice for the last word; it takes a written word in the cycle of   *)
(* its acknowledge and fetches a read one with it.                          *)
SlaveMayAck == wbs_stb_o /\ wbs_bry_o(slv) /\ ~slv.lack

SlaveMoves(answers) ==
  LET done == slv.ack
      next == IF slv.lack THEN 0 ELSE IF done THEN beat + 1 ELSE beat
  IN  /\ beat' = next
      /\ memory' = IF done /\ wbs_cmd.we
                     THEN [memory EXCEPT ![beat + 1] = wbs_cmd.dat]
                     ELSE memory
      /\ slv' = IF answers /\ SlaveMayAck
                  THEN [ack |-> TRUE,
                        lack |-> next + 1 = wbs_cmd.bl,
                        dat |-> IF wbs_cmd.we THEN Zero ELSE memory[next + 1]]
                  ELSE [ack |-> FALSE, lack |-> FALSE, dat |-> Zero]

(* What the masters know: the words they were told are written.             *)
History(d) ==
  /\ mbeat' = IF ~wbm_ack_o THEN mbeat ELSE IF wbm_lack_o THEN 0 ELSE mbeat + 1
  /\ seen' = IF wbm_ack_o /\ bus[gnt].we
               THEN [seen EXCEPT ![mbeat + 1] = d] ELSE seen

ClockEdge(ready, answers) ==
  \E d \in (IF m_cmd_wr_en /\ bus[gnt].we THEN DataOf(gnt) ELSE {Zero}) :
    /\ BridgeEdge(MasterPort(ready, d), slv)
    /\ Grant
    /\ MastersMove
    /\ SlaveMoves(answers)
    /\ History(d)

Next == \E ready, answers \in BOOLEAN : ClockEdge(ready, answers)

Spec == Init /\ [][Next]_vars

(* The granted master can have a word as soon as it is burst ready.         *)
MasterMayGo ==
  IF m_state = "READ_DATA" THEN ResponseThere
  ELSE bus[gnt] # None /\ RoomForCommand

(* The clock ticks, the slave does not withhold its answer for ever, and    *)
(* the granted master does not stay unready for ever.                       *)
Fairness ==
  /\ WF_vars(Next)
  /\ []<>slv.ack \/ []<>~SlaveMayAck
  /\ []<>wbm_ack_o \/ []<>~MasterMayGo

FairSpec == Spec /\ Fairness

------------------------------------------------------------------------------
(* The registers hold values of their types and the FIFOs fit their depth,  *)
(* one word more than is stored being on its way.                           *)
TypeOK ==
  /\ m_state \in {"IDLE", "WRITE_DATA", "READ_DATA"}
  /\ m_bl_cnt \in 0..MaxBurst
  /\ gnt \in Masters
  /\ bus \in [Masters -> {None} \cup [we : BOOLEAN, bl : Bursts]]
  /\ cmd \in Seq([we : BOOLEAN, bl : Bursts, dat : Data]) /\ Len(cmd) <= Depth
  /\ resp \in Seq(Data) /\ Len(resp) <= Depth
  /\ memory \in [1..MaxBurst -> Data] /\ seen \in [1..MaxBurst -> Data]
  /\ beat \in 0..MaxBurst /\ mbeat \in 0..MaxBurst

(* "afifo overflow!", "afifo underflow!": neither FIFO is written when full *)
(* or read when empty, although every enable is decided a cycle before it   *)
(* acts.                                                                    *)
NoOverflow ==
  /\ m_cmd_wr_en => Len(cmd) < Depth
  /\ s_cmd_rd_en(slv) => cmd # <<>>
  /\ s_resp_wr_en(slv) => Len(resp) < Depth
  /\ m_resp_rd_en => resp # <<>>

(* A word a master reads is the one the last acknowledged write left there, *)
(* whoever wrote it, though writes are acknowledged before they are done:   *)
(* posted writes, bursts and changes of the grant never reorder.            *)
ReadsSeeWrites ==
  wbm_ack_o /\ bus[gnt] # None /\ ~bus[gnt].we
    => resp # <<>> /\ Head(resp) = seen[mbeat + 1]

(* When nothing is on its way the memory is what the masters believe.       *)
PostedWritesLand ==
  cmd = <<>> /\ ~m_cmd_wr_en /\ m_state = "IDLE" => memory = seen

(* The types, and with them that a FIFO is neither written when full nor    *)
(* read when empty (sync_wbb.sv, lines 164-285).                            *)
SlavePortInv == TypeOK /\ NoOverflow

(* What is acknowledged is in the memory or on its way there in order: the  *)
(* reads see it, and it lands.                                              *)
MemoryCoherent == ReadsSeeWrites /\ PostedWritesLand

(* The grant never moves within a transfer: between its first cycle in the  *)
(* bridge and its last acknowledge the port's inputs and answers stay with  *)
(* one master.                                                              *)
TransferKeepsGrant ==
  [][(m_state # "IDLE" \/ (m_cmd_wr_en /\ ~wbm_lack_o)) => gnt' = gnt]_vars

(* The port drives its arbiter as WbArb assumes: a request that is not      *)
(* granted stays.                                                           *)
ArbiterUsed == Arb!Spec

(* A transfer of master 0 or 1 gets its last acknowledge in the end.        *)
TransfersEnd ==
  \A m \in {0, 1} \cap Active : (bus[m] # None) ~> (gnt = m /\ wbm_lack_o)

==============================================================================
