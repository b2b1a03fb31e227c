---------------------------- MODULE WbHostProofs ----------------------------
(****************************************************************************)
(* The host bridge, for every depth of its command FIFO, every set of       *)
(* banks and words and whichever hosts access what.  Whether or not the     *)
(* hosts are patient, no access is begun or answered twice and there is     *)
(* never a second response (BridgeInv).  When they are, their reads are     *)
(* right and their writes feed through (PatientInv).                        *)
(*                                                                          *)
(* The flags of the two FIFOs lag, so the proof keeps account of what has   *)
(* not crossed yet: the answer to the last read leaves the response FIFO    *)
(* before the next read is stored, and the chip's side sees the room it     *)
(* left no later than it sees that read.                                    *)
(****************************************************************************)
EXTENDS WbHost, TLAPS

(* The access at the granted host's lines, and what it may carry.           *)
Types ==
  /\ PendingRd \in BOOLEAN /\ wbs_ack_f \in BOOLEAN
  /\ wb_req \in BOOLEAN /\ wb_ack_o \in BOOLEAN /\ reg_ack \in BOOLEAN
  /\ grnt \in {0} \cup Hosts
  /\ \A h \in Hosts : bus[h] \in Accesses(h) \cup {Idle("chip"), Idle("bank")}
  /\ cmd \in Seq(Commands) /\ resp \in Seq(Words)
  /\ cfg_bank_sel \in Addrs /\ seenBank \in Addrs
  /\ slv \in [ack : BOOLEAN, dat : Words]
  /\ memory \in [Addrs -> Words] /\ seen \in [Addrs -> Words]

Counts ==
  /\ cmdFresh \in Nat \X Nat /\ cmdFreed \in Nat \X Nat
  /\ respFresh \in Nat \X Nat /\ respFreed \in Nat \X Nat
  /\ Len(cmd) + cmdFreed[1] + cmdFreed[2] <= CmdDepth
  /\ Len(resp) + respFreed[1] + respFreed[2] <= 1
  /\ respFresh[1] + respFresh[2] <= Len(resp)

(* A read is the last command there is, and waits; the room of the answer   *)
(* before it is known to the chip's side before the read is.                *)
ReadIsLast ==
  /\ \A i \in 1..Len(cmd) : ~cmd[i].we =>
       /\ i = Len(cmd) /\ PendingRd /\ resp = <<>>
       /\ respFreed[1] > 0 => cmdFresh[1] > 0
       /\ respFreed[2] > 0 => cmdFresh[1] + cmdFresh[2] > 0
  /\ resp # <<>> => PendingRd /\ cmd = <<>>

ChipHolds == slv.ack => wbs_stb_o

BridgeInv == Types /\ Counts /\ ReadIsLast /\ ChipHolds /\ AckedOnce

(* With patient hosts an access stands from its strobe to its answer.       *)
AccessStands ==
  /\ wb_req \/ wb_ack_o => wb.stb
  /\ reg_ack => reg_sel
  /\ PendingRd => wb_req /\ ~wb.we /\ wb.to = "chip"

BankKnown ==
  cfg_bank_sel = IF wb.to = "bank" /\ wb.we /\ (reg_ack \/ wb_ack_o) THEN wb.dat ELSE seenBank

(* What the hosts are about to believe: the write that is being answered.   *)
known == IF wb_ack_o /\ wb.we /\ wb.to = "chip" THEN [seen EXCEPT ![seenBank] = wb.dat] ELSE seen

(* Every word is the last write on its way to its bank, or in the memory.   *)
Placed(q, k, m) ==
  /\ \A i \in 1..Len(q) :
       q[i].we /\ (\A j \in (i + 1)..Len(q) : q[j].we => q[j].adr # q[i].adr)
         => k[q[i].adr] = q[i].dat
  /\ \A a \in Addrs : (\A j \in 1..Len(q) : q[j].we => q[j].adr # a) => k[a] = m[a]

Latest == Placed(cmd, known, memory)

ReadWords ==
  /\ \A i \in 1..Len(cmd) : ~cmd[i].we => cmd[i].adr = seenBank
  /\ slv.ack => IF cmd[1].we THEN memory[cmd[1].adr] = cmd[1].dat
                ELSE slv.dat = seen[seenBank]
  /\ \A i \in 1..Len(resp) : resp[i] = seen[seenBank]

PatientInv == AccessStands /\ BankKnown /\ Latest /\ ReadWords /\ AnswersRight

------------------------------------------------------------------------------
One(p) == IF p THEN 1 ELSE 0

(* How a queue moves: its head may leave it, a word may join it.            *)
Shift(q, pop, push, x) ==
  (IF pop THEN Tail(q) ELSE q) \o (IF push THEN <<x>> ELSE <<>>)

LEMMA ShiftFacts ==
  ASSUME NEW S, NEW q \in Seq(S), NEW x \in S, NEW pop \in BOOLEAN, NEW push \in BOOLEAN,
         pop => q # <<>>
  PROVE  /\ Shift(q, pop, push, x) \in Seq(S)
         /\ Len(Shift(q, pop, push, x)) = Len(q) - One(pop) + One(push)
         /\ \A i \in 1..(Len(q) - One(pop)) : Shift(q, pop, push, x)[i] = q[i + One(pop)]
<1>. DEFINE t == IF pop THEN Tail(q) ELSE q
            r == Shift(q, pop, push, x)
<1>1. /\ t \in Seq(S) /\ Len(t) = Len(q) - One(pop)
      /\ \A i \in 1..Len(t) : t[i] = q[i + One(pop)]
  BY DEF One
<1>2. r = t \o (IF push THEN <<x>> ELSE <<>>)
  BY DEF Shift
<1>. HIDE DEF t, r
<1>3. CASE push
  <2>1. r = Append(t, x)
    BY <1>1, <1>2, <1>3
  <2>. QED  BY <2>1, <1>1, <1>3 DEF One, r
<1>4. CASE ~push
  <2>1. r = t
    BY <1>1, <1>2, <1>4
  <2>. QED  BY <2>1, <1>1, <1>4 DEF One, r
<1>. QED  BY <1>3, <1>4

LEMMA ShiftEnd ==
  ASSUME NEW S, NEW q \in Seq(S), NEW x \in S, NEW pop \in BOOLEAN, pop => q # <<>>
  PROVE  Shift(q, pop, TRUE, x)[Len(q) - One(pop) + 1] = x
<1>. DEFINE t == IF pop THEN Tail(q) ELSE q
<1>1. t \in Seq(S) /\ Len(t) = Len(q) - One(pop)
  BY DEF One
<1>2. Shift(q, pop, TRUE, x) = t \o <<x>>
  BY DEF Shift
<1>. HIDE DEF t
<1>3. t \o <<x>> = Append(t, x)
  BY <1>1
<1>4. Append(t, x)[Len(t) + 1] = x
  BY <1>1
<1>. QED  BY <1>1, <1>2, <1>3, <1>4

(* The granted access.                                                      *)
LEMMA WbFacts ==
  ASSUME Types
  PROVE  /\ wb.stb \in BOOLEAN /\ wb.we \in BOOLEAN /\ wb.to \in {"chip", "bank"}
         /\ wb.we => wb.stb
         /\ wb.to = "chip" => wb.dat \in Words
         /\ wb.we /\ wb.to = "bank" => wb.dat \in Addrs
         /\ wb.stb => grnt \in Hosts /\ wb = bus[grnt] /\ grnt \in Requests
<1>1. ASSUME NEW h \in Hosts, NEW b \in Accesses(h) \cup {Idle("chip"), Idle("bank")}
      PROVE  /\ b.stb \in BOOLEAN /\ b.we \in BOOLEAN /\ b.to \in {"chip", "bank"}
             /\ b.we => b.stb
             /\ b.to = "chip" => b.dat \in Words
             /\ b.we /\ b.to = "bank" => b.dat \in Addrs
  <2>1. ASSUME NEW to \in {"chip", "bank"}, b = Idle(to)
        PROVE  b.stb = FALSE /\ b.we = FALSE /\ b.to = to /\ b.dat \in Words
    BY <2>1, WbHostAssumption DEF Idle
  <2>2. CASE b \in Reads("chip") \cup Writes("chip", Written)
    BY <2>2, WbHostAssumption DEF Reads, Writes
  <2>3. CASE b \in Reads("bank") \cup Writes("bank", Addrs)
    BY <2>3, WbHostAssumption DEF Reads, Writes
  <2>4. CASE b \in {Idle("chip"), Idle("bank")}
    BY <2>1, <2>4
  <2>. QED  BY <2>2, <2>3, <2>4 DEF Accesses
<1>2. CASE grnt \in Hosts
  <2>1. bus[grnt] \in Accesses(grnt) \cup {Idle("chip"), Idle("bank")} /\ wb = bus[grnt]
    BY <1>2 DEF Types, wb
  <2>. QED  BY <2>1, <1>1, <1>2 DEF Requests
<1>3. CASE grnt \notin Hosts
  <2>1. wb = Idle("chip")
    BY <1>3 DEF wb
  <2>. QED  BY <2>1, WbHostAssumption DEF Idle
<1>. QED  BY <1>2, <1>3

(* What the flags of the FIFOs mean in a reachable state.                   *)
LEMMA QueueFacts ==
  ASSUME BridgeInv
  PROVE  /\ Len(cmd) \in Nat /\ Len(resp) \in Nat
         /\ ~m_resp_rd_empty => resp # <<>> /\ Len(resp) = 1 /\ cmd = <<>> /\ PendingRd
         /\ slv.ack => wbs_stb_o /\ cmd # <<>> /\ Len(cmd) >= 1
         /\ wbs_stb_o => ~wbs_ack_f /\ Len(cmd) >= 1 /\ Head(cmd) = cmd[1]
                         /\ cmd[1] \in Commands
         /\ s_resp_wr_en(slv) <=> slv.ack /\ ~cmd[1].we
         /\ s_resp_wr_en(slv) => /\ Len(cmd) = 1 /\ PendingRd /\ resp = <<>>
                                 /\ respFreed[1] = 0 /\ respFreed[2] = 0
<1>1. /\ cmd \in Seq(Commands) /\ resp \in Seq(Words) /\ slv.ack \in BOOLEAN
      /\ Len(cmd) \in Nat /\ Len(resp) \in Nat
      /\ cmdFresh[1] \in Nat /\ cmdFresh[2] \in Nat
      /\ respFresh[1] \in Nat /\ respFresh[2] \in Nat
      /\ respFreed[1] \in Nat /\ respFreed[2] \in Nat
      /\ Len(resp) + respFreed[1] + respFreed[2] <= 1
      /\ respFresh[1] + respFresh[2] <= Len(resp)
  BY DEF BridgeInv, Types, Counts
<1>2. ~m_resp_rd_empty => resp # <<>> /\ Len(resp) = 1 /\ cmd = <<>> /\ PendingRd
  <2>. SUFFICES ASSUME ~m_resp_rd_empty PROVE resp # <<>> /\ Len(resp) = 1
    BY DEF BridgeInv, ReadIsLast
  <2>1. Len(resp) - respFresh[1] - respFresh[2] # 0
    BY DEF m_resp_rd_empty, RespFifo!rd_cnt
  <2>2. Len(resp) # 0
    BY <2>1, <1>1
  <2>3. Len(resp) <= 1
    BY <1>1
  <2>4. Len(resp) = 1
    <3>1. \A n \in Nat : n # 0 /\ n <= 1 => n = 1
      OBVIOUS
    <3>2. Len(resp) \in Nat
      BY <1>1
    <3>. QED  BY ONLY <2>2, <2>3, <3>1, <3>2, Zenon
  <2>5. resp # <<>>
    BY <2>2
  <2>. QED  BY <2>4, <2>5
<1>3. wbs_stb_o => /\ ~wbs_ack_f /\ Len(cmd) - cmdFresh[1] - cmdFresh[2] > 0
                   /\ Len(cmd) >= 1 /\ Head(cmd) = cmd[1] /\ cmd[1] \in Commands
  <2>. SUFFICES ASSUME wbs_stb_o
                PROVE  /\ ~wbs_ack_f /\ Len(cmd) - cmdFresh[1] - cmdFresh[2] > 0
                       /\ Len(cmd) >= 1 /\ Head(cmd) = cmd[1] /\ cmd[1] \in Commands
    OBVIOUS
  <2>1. ~wbs_ack_f /\ Len(cmd) - cmdFresh[1] - cmdFresh[2] > 0
    BY DEF wbs_stb_o, CmdFifo!rd_cnt
  <2>2. Len(cmd) >= 1
    BY <2>1, <1>1
  <2>. QED  BY <2>1, <2>2, <1>1
<1>4. slv.ack => wbs_stb_o
  BY DEF BridgeInv, ChipHolds
<1>5. wbs_stb_o /\ ~cmd[1].we =>
         /\ Len(cmd) = 1 /\ PendingRd /\ resp = <<>>
         /\ respFreed[1] = 0 /\ respFreed[2] = 0
  <2>. SUFFICES ASSUME wbs_stb_o, ~cmd[1].we
                PROVE  /\ Len(cmd) = 1 /\ PendingRd /\ resp = <<>>
                       /\ respFreed[1] = 0 /\ respFreed[2] = 0
    OBVIOUS
  <2>1. 1 \in 1..Len(cmd)
    BY <1>1, <1>3
  <2>2. /\ Len(cmd) = 1 /\ PendingRd /\ resp = <<>>
        /\ respFreed[1] > 0 => cmdFresh[1] > 0
        /\ respFreed[2] > 0 => cmdFresh[1] + cmdFresh[2] > 0
    BY <2>1 DEF BridgeInv, ReadIsLast
  <2>. QED  BY <2>2, <1>1, <1>3
<1>6. s_resp_wr_en(slv) <=> slv.ack /\ ~cmd[1].we
  <2>1. s_resp_wr_en(slv) => slv.ack /\ ~cmd[1].we
    BY <1>1, <1>3 DEF s_resp_wr_en
  <2>2. ASSUME slv.ack, ~cmd[1].we PROVE s_resp_wr_en(slv)
    <3>1. RespFifo!wr_cnt < RespDepth
      BY <2>2, <1>1, <1>4, <1>5 DEF RespFifo!wr_cnt, RespDepth
    <3>. QED  BY <2>2, <3>1, <1>3, <1>4 DEF s_resp_wr_en
  <2>. QED  BY <2>1, <2>2
<1>. QED  BY <1>1, <1>2, <1>3, <1>4, <1>5, <1>6

------------------------------------------------------------------------------
(* What crosses between the clocks: the near side counts n at its edge, the *)
(* far side's edge moves the two flops on.                                  *)
Crosses(near, far, n, old, new) ==
  /\ near /\ ~far => new = <<old[1] + n, old[2]>>
  /\ far /\ ~near => new = <<0, old[1]>>
  /\ near /\ far => \E late \in 0..n : new = <<late, old[1] + n - late>>

LEMMA CrossFacts ==
  ASSUME NEW near \in BOOLEAN, NEW far \in BOOLEAN, near \/ far,
         NEW n \in {0, 1}, n = 1 => near,
         NEW old \in Nat \X Nat, NEW new, Crosses(near, far, n, old, new)
  PROVE  /\ new \in Nat \X Nat
         /\ new[1] + new[2] <= old[1] + old[2] + n
         /\ far => new[1] + new[2] = old[1] + n
         /\ ~far => new[1] = old[1] + n /\ new[2] = old[2]
         /\ far /\ n = 0 => new[1] = 0 /\ new[2] = old[1]
<1>1. old[1] \in Nat /\ old[2] \in Nat
  OBVIOUS
<1>2. CASE near /\ far
  <2>1. PICK late \in 0..n : new = <<late, old[1] + n - late>>
    BY <1>2 DEF Crosses
  <2>2. late \in Nat /\ old[1] + n - late \in Nat
    BY <1>1
  <2>. QED  BY <1>1, <1>2, <2>1, <2>2
<1>3. CASE ~near
  BY <1>1, <1>3 DEF Crosses
<1>4. CASE ~far
  BY <1>1, <1>4 DEF Crosses
<1>. QED  BY <1>2, <1>3, <1>4

(* A step is an edge of the hosts' clock (h), of the chip's (c), or both.   *)
stores == m_cmd_wr_en(AsyncPort)
takes == ~m_resp_rd_empty
puts == s_resp_wr_en(slv)

Edge(h, c, answers) ==
  /\ IF h THEN HostSide /\ PendingRead(AsyncPort)
          ELSE UNCHANGED <<hostVars, seen, seenBank, PendingRd>>
  /\ IF c THEN ChipSide(answers) /\ wbs_ack_f' = slv.ack
          ELSE UNCHANGED <<chipVars, wbs_ack_f>>
  /\ cmd' = Shift(cmd, c /\ slv.ack, h /\ stores, Command(AsyncPort))
  /\ resp' = Shift(resp, h /\ takes, c /\ puts, slv.dat)
  /\ Crosses(h, c, One(h /\ stores), cmdFresh, cmdFresh')
  /\ Crosses(c, h, One(c /\ slv.ack), cmdFreed, cmdFreed')
  /\ Crosses(c, h, One(c /\ puts), respFresh, respFresh')
  /\ Crosses(h, c, One(h /\ takes), respFreed, respFreed')

LEMMA AppendIs ==
  \A S : \A q \in Seq(S), x \in S : Append(q, x) = q \o <<x>>
OBVIOUS

LEMMA EmptyIs ==
  \A S : \A q \in Seq(S) : q \o <<>> = q
OBVIOUS

LEMMA PortFacts ==
  ASSUME Types
  PROVE  /\ AsyncPort.stb \in BOOLEAN /\ AsyncPort.we \in BOOLEAN
         /\ AsyncPort.stb <=> wb_req /\ wb.to = "chip"
         /\ AsyncPort.we = wb.we /\ AsyncPort.adr = cfg_bank_sel
         /\ wb.to = "chip" => AsyncPort.dat = wb.dat
         /\ Command(AsyncPort) \in Commands
         /\ Command(AsyncPort).we = AsyncPort.we
         /\ Command(AsyncPort).adr = AsyncPort.adr
         /\ Command(AsyncPort).dat = AsyncPort.dat
         /\ reg_sel \in BOOLEAN /\ (reg_sel <=> wb_req /\ wb.to = "bank")
         /\ stores \in BOOLEAN /\ takes \in BOOLEAN
<1>1. wb.we \in BOOLEAN /\ wb.to \in {"chip", "bank"} /\ (wb.to = "chip" => wb.dat \in Words)
      /\ wb_req \in BOOLEAN /\ cfg_bank_sel \in Addrs /\ PendingRd \in BOOLEAN
  BY WbFacts DEF Types
<1>2. reg_sel \in BOOLEAN /\ (reg_sel <=> wb_req /\ wb.to = "bank")
  BY <1>1 DEF reg_sel
<1>3. /\ AsyncPort.stb \in BOOLEAN /\ AsyncPort.we \in BOOLEAN
      /\ AsyncPort.stb <=> wb_req /\ wb.to = "chip"
      /\ AsyncPort.we = wb.we /\ AsyncPort.adr = cfg_bank_sel
      /\ wb.to = "chip" => AsyncPort.dat = wb.dat
      /\ AsyncPort.dat \in Words
  BY <1>1, <1>2, WbHostAssumption DEF AsyncPort
<1>4. /\ Command(AsyncPort) \in Commands
      /\ Command(AsyncPort).we = AsyncPort.we
      /\ Command(AsyncPort).adr = AsyncPort.adr
      /\ Command(AsyncPort).dat = AsyncPort.dat
  BY <1>1, <1>3 DEF Command, Commands
<1>5. stores \in BOOLEAN /\ takes \in BOOLEAN
  BY <1>1, <1>3 DEF stores, takes, m_cmd_wr_en, m_resp_rd_empty
<1>. QED  BY <1>1, <1>2, <1>3, <1>4, <1>5

LEMMA ShiftIs ==
  ASSUME NEW S, NEW q \in Seq(S), NEW x \in S
  PROVE  /\ Shift(q, FALSE, TRUE, x) = Append(q, x)
         /\ Shift(q, FALSE, FALSE, x) = q
         /\ q # <<>> => Shift(q, TRUE, FALSE, x) = Tail(q)
<1>1. Shift(q, FALSE, TRUE, x) = q \o <<x>> /\ Shift(q, FALSE, FALSE, x) = q \o <<>>
      /\ Shift(q, TRUE, FALSE, x) = Tail(q) \o <<>>
  BY DEF Shift
<1>2. q # <<>> => Tail(q) \in Seq(S)
  OBVIOUS
<1>. QED  BY <1>1, <1>2, AppendIs, EmptyIs

LEMMA CmdEdges ==
  ASSUME cmd \in Seq(Commands), NEW x \in Commands,
         NEW wr \in BOOLEAN, NEW rd \in BOOLEAN, rd => cmd # <<>>
  PROVE  /\ CmdFifo!WrEdge(wr, x) =>
              /\ cmd' = Shift(cmd, FALSE, wr, x)
              /\ Crosses(TRUE, FALSE, One(wr), cmdFresh, cmdFresh')
              /\ Crosses(FALSE, TRUE, 0, cmdFreed, cmdFreed')
         /\ CmdFifo!RdEdge(rd) =>
              /\ cmd' = Shift(cmd, rd, FALSE, x)
              /\ Crosses(FALSE, TRUE, 0, cmdFresh, cmdFresh')
              /\ Crosses(TRUE, FALSE, One(rd), cmdFreed, cmdFreed')
         /\ CmdFifo!BothEdges(wr, x, rd) =>
              /\ cmd' = Shift(cmd, rd, wr, x)
              /\ Crosses(TRUE, TRUE, One(wr), cmdFresh, cmdFresh')
              /\ Crosses(TRUE, TRUE, One(rd), cmdFreed, cmdFreed')
<1>1. \A b \in BOOLEAN : CmdFifo!Bit(b) = One(b)
  BY DEF CmdFifo!Bit, One
<1>2. ASSUME CmdFifo!WrEdge(wr, x)
      PROVE  /\ cmd' = Shift(cmd, FALSE, wr, x)
             /\ Crosses(TRUE, FALSE, One(wr), cmdFresh, cmdFresh')
             /\ Crosses(FALSE, TRUE, 0, cmdFreed, cmdFreed')
  BY <1>1, <1>2, ShiftIs DEF CmdFifo!WrEdge, Crosses
<1>3. ASSUME CmdFifo!RdEdge(rd)
      PROVE  /\ cmd' = Shift(cmd, rd, FALSE, x)
             /\ Crosses(FALSE, TRUE, 0, cmdFresh, cmdFresh')
             /\ Crosses(TRUE, FALSE, One(rd), cmdFreed, cmdFreed')
  BY <1>1, <1>3, ShiftIs DEF CmdFifo!RdEdge, Crosses
<1>4. ASSUME CmdFifo!BothEdges(wr, x, rd)
      PROVE  /\ cmd' = Shift(cmd, rd, wr, x)
             /\ Crosses(TRUE, TRUE, One(wr), cmdFresh, cmdFresh')
             /\ Crosses(TRUE, TRUE, One(rd), cmdFreed, cmdFreed')
  BY <1>1, <1>4 DEF CmdFifo!BothEdges, Crosses, Shift
<1>. QED  BY <1>2, <1>3, <1>4

LEMMA RespEdges ==
  ASSUME resp \in Seq(Words), NEW x \in Words,
         NEW wr \in BOOLEAN, NEW rd \in BOOLEAN, rd => resp # <<>>
  PROVE  /\ RespFifo!WrEdge(wr, x) =>
              /\ resp' = Shift(resp, FALSE, wr, x)
              /\ Crosses(TRUE, FALSE, One(wr), respFresh, respFresh')
              /\ Crosses(FALSE, TRUE, 0, respFreed, respFreed')
         /\ RespFifo!RdEdge(rd) =>
              /\ resp' = Shift(resp, rd, FALSE, x)
              /\ Crosses(FALSE, TRUE, 0, respFresh, respFresh')
              /\ Crosses(TRUE, FALSE, One(rd), respFreed, respFreed')
         /\ RespFifo!BothEdges(wr, x, rd) =>
              /\ resp' = Shift(resp, rd, wr, x)
              /\ Crosses(TRUE, TRUE, One(wr), respFresh, respFresh')
              /\ Crosses(TRUE, TRUE, One(rd), respFreed, respFreed')
<1>1. \A b \in BOOLEAN : RespFifo!Bit(b) = One(b)
  BY DEF RespFifo!Bit, One
<1>2. ASSUME RespFifo!WrEdge(wr, x)
      PROVE  /\ resp' = Shift(resp, FALSE, wr, x)
             /\ Crosses(TRUE, FALSE, One(wr), respFresh, respFresh')
             /\ Crosses(FALSE, TRUE, 0, respFreed, respFreed')
  BY <1>1, <1>2, ShiftIs DEF RespFifo!WrEdge, Crosses
<1>3. ASSUME RespFifo!RdEdge(rd)
      PROVE  /\ resp' = Shift(resp, rd, FALSE, x)
             /\ Crosses(FALSE, TRUE, 0, respFresh, respFresh')
             /\ Crosses(TRUE, FALSE, One(rd), respFreed, respFreed')
  BY <1>1, <1>3, ShiftIs DEF RespFifo!RdEdge, Crosses
<1>4. ASSUME RespFifo!BothEdges(wr, x, rd)
      PROVE  /\ resp' = Shift(resp, rd, wr, x)
             /\ Crosses(TRUE, TRUE, One(wr), respFresh, respFresh')
             /\ Crosses(TRUE, TRUE, One(rd), respFreed, respFreed')
  BY <1>1, <1>4 DEF RespFifo!BothEdges, Crosses, Shift
<1>. QED  BY <1>2, <1>3, <1>4

LEMMA EdgeIs ==
  ASSUME BridgeInv, Next
  PROVE  \E h \in BOOLEAN, c \in BOOLEAN, answers \in BOOLEAN :
           (h \/ c) /\ Edge(h, c, answers)
<1>. DEFINE x == Command(AsyncPort)
<1>1. /\ cmd \in Seq(Commands) /\ x \in Commands /\ resp \in Seq(Words)
      /\ slv.ack \in BOOLEAN /\ slv.dat \in Words
      /\ stores \in BOOLEAN /\ takes \in BOOLEAN /\ puts \in BOOLEAN
      /\ takes => resp # <<>>
      /\ slv.ack => cmd # <<>>
  <2>1. puts \in BOOLEAN
    BY DEF puts, s_resp_wr_en
  <2>. QED  BY <2>1, PortFacts, QueueFacts DEF BridgeInv, Types, takes
<1>. HIDE DEF x
<1>2. One(FALSE) = 0
  BY DEF One
<1>3. CASE HostEdge
  <2>1. /\ HostSide /\ PendingRead(AsyncPort) /\ UNCHANGED <<chipVars, wbs_ack_f>>
        /\ CmdFifo!WrEdge(stores, x) /\ RespFifo!RdEdge(takes)
    BY <1>3 DEF HostEdge, MasterEdge, stores, takes, x
  <2>2. Edge(TRUE, FALSE, TRUE)
    BY <1>1, <1>2, <2>1, CmdEdges, RespEdges DEF Edge, x
  <2>. QED  BY <2>2
<1>4. ASSUME NEW answers \in BOOLEAN, ChipEdge(answers)
      PROVE  Edge(FALSE, TRUE, answers)
  <2>1. /\ UNCHANGED <<hostVars, seen, seenBank, PendingRd>>
        /\ ChipSide(answers) /\ wbs_ack_f' = slv.ack
        /\ CmdFifo!RdEdge(slv.ack) /\ RespFifo!WrEdge(puts, slv.dat)
    BY <1>4 DEF ChipEdge, SlaveEdge, puts
  <2>. QED  BY <1>1, <1>2, <2>1, CmdEdges, RespEdges DEF Edge, x
<1>5. ASSUME NEW answers \in BOOLEAN, BothEdges(answers)
      PROVE  Edge(TRUE, TRUE, answers)
  <2>1. /\ HostSide /\ PendingRead(AsyncPort)
        /\ ChipSide(answers) /\ wbs_ack_f' = slv.ack
        /\ CmdFifo!BothEdges(stores, x, slv.ack)
        /\ RespFifo!BothEdges(puts, slv.dat, takes)
    BY <1>5 DEF BothEdges, MasterSlaveEdge, puts, stores, takes, x
  <2>. QED  BY <1>1, <1>2, <2>1, CmdEdges, RespEdges DEF Edge, x
<1>. QED  BY <1>3, <1>4, <1>5 DEF Next

------------------------------------------------------------------------------
LEMMA CmdStep ==
  ASSUME cmd \in Seq(Commands), NEW x \in Commands,
         NEW pop \in BOOLEAN, NEW push \in BOOLEAN,
         pop => cmd # <<>>, cmd' = Shift(cmd, pop, push, x)
  PROVE  /\ cmd' \in Seq(Commands)
         /\ Len(cmd') = Len(cmd) - One(pop) + One(push)
         /\ \A i \in 1..(Len(cmd) - One(pop)) : cmd'[i] = cmd[i + One(pop)]
         /\ push => cmd'[Len(cmd')] = x
<1>1. ASSUME NEW i \in 1..(Len(cmd) - One(pop)) PROVE cmd'[i] = cmd[i + One(pop)]
  BY ShiftFacts
<1>2. cmd' \in Seq(Commands) /\ Len(cmd') = Len(cmd) - One(pop) + One(push)
  BY ShiftFacts
<1>3. push => Len(cmd') = Len(cmd) - One(pop) + 1
  BY <1>2 DEF One
<1>4. push => cmd'[Len(cmd')] = x
  <2>1. ASSUME push PROVE Shift(cmd, pop, push, x)[Len(cmd) - One(pop) + 1] = x
    <3>1. push = TRUE
      BY <2>1
    <3>. QED  BY <3>1, ShiftEnd
  <2>. QED  BY <1>3, <2>1
<1>. QED  BY <1>1, <1>2, <1>4

LEMMA RespStep ==
  ASSUME resp \in Seq(Words), NEW x \in Words,
         NEW pop \in BOOLEAN, NEW push \in BOOLEAN,
         pop => resp # <<>>, resp' = Shift(resp, pop, push, x)
  PROVE  /\ resp' \in Seq(Words)
         /\ Len(resp') = Len(resp) - One(pop) + One(push)
         /\ \A i \in 1..(Len(resp) - One(pop)) : resp'[i] = resp[i + One(pop)]
         /\ push => resp'[Len(resp')] = x
<1>1. ASSUME NEW i \in 1..(Len(resp) - One(pop)) PROVE resp'[i] = resp[i + One(pop)]
  BY ShiftFacts
<1>2. resp' \in Seq(Words) /\ Len(resp') = Len(resp) - One(pop) + One(push)
  BY ShiftFacts
<1>3. push => Len(resp') = Len(resp) - One(pop) + 1
  BY <1>2 DEF One
<1>4. push => resp'[Len(resp')] = x
  <2>1. ASSUME push PROVE Shift(resp, pop, push, x)[Len(resp) - One(pop) + 1] = x
    <3>1. push = TRUE
      BY <2>1
    <3>. QED  BY <3>1, ShiftEnd
  <2>. QED  BY <1>3, <2>1
<1>. QED  BY <1>1, <1>2, <1>4

LEMMA QueueStep ==
  ASSUME BridgeInv, NEW h \in BOOLEAN, NEW c \in BOOLEAN, NEW answers \in BOOLEAN,
         Edge(h, c, answers)
  PROVE  /\ cmd' \in Seq(Commands) /\ resp' \in Seq(Words)
         /\ Len(cmd') = Len(cmd) - One(c /\ slv.ack) + One(h /\ stores)
         /\ Len(resp') = Len(resp) - One(h /\ takes) + One(c /\ puts)
         /\ \A i \in 1..(Len(cmd) - One(c /\ slv.ack)) :
              cmd'[i] = cmd[i + One(c /\ slv.ack)]
         /\ h /\ stores => cmd'[Len(cmd')] = Command(AsyncPort)
         /\ \A i \in 1..(Len(resp) - One(h /\ takes)) : resp'[i] = resp[i + One(h /\ takes)]
         /\ c /\ puts => resp'[Len(resp')] = slv.dat
<1>1. /\ cmd \in Seq(Commands) /\ Command(AsyncPort) \in Commands /\ resp \in Seq(Words)
      /\ slv.ack \in BOOLEAN /\ slv.dat \in Words
      /\ stores \in BOOLEAN /\ takes \in BOOLEAN /\ puts \in BOOLEAN
      /\ takes => resp # <<>>
      /\ slv.ack => cmd # <<>>
  <2>1. puts \in BOOLEAN
    BY DEF puts, s_resp_wr_en
  <2>. QED  BY <2>1, PortFacts, QueueFacts DEF BridgeInv, Types, takes
<1>. DEFINE x == Command(AsyncPort)
            pop == c /\ slv.ack  push == h /\ stores
            tak == h /\ takes    put == c /\ puts
<1>2. /\ pop \in BOOLEAN /\ push \in BOOLEAN /\ tak \in BOOLEAN /\ put \in BOOLEAN
      /\ pop => cmd # <<>>
      /\ tak => resp # <<>>
      /\ x \in Commands
  BY <1>1
<1>3. /\ cmd' = Shift(cmd, pop, push, x)
      /\ resp' = Shift(resp, tak, put, slv.dat)
  BY DEF Edge
<1>4. cmd \in Seq(Commands) /\ resp \in Seq(Words) /\ slv.dat \in Words
  BY <1>1
<1>. HIDE DEF x, pop, push, tak, put
<1>5. /\ cmd' \in Seq(Commands)
      /\ Len(cmd') = Len(cmd) - One(pop) + One(push)
      /\ \A i \in 1..(Len(cmd) - One(pop)) : cmd'[i] = cmd[i + One(pop)]
      /\ push => cmd'[Len(cmd')] = x
  BY ONLY <1>2, <1>3, <1>4, CmdStep
<1>6. /\ resp' \in Seq(Words)
      /\ Len(resp') = Len(resp) - One(tak) + One(put)
      /\ \A i \in 1..(Len(resp) - One(tak)) : resp'[i] = resp[i + One(tak)]
      /\ put => resp'[Len(resp')] = slv.dat
  BY ONLY <1>2, <1>3, <1>4, RespStep
<1>. QED  BY <1>5, <1>6 DEF x, pop, push, tak, put

LEMMA GrantStep ==
  ASSUME NEW g \in {0} \cup Hosts, NEW r \in SUBSET Hosts
  PROVE  /\ Arb!NextGrant(g, r) \in {0} \cup Hosts
         /\ g \in r => Arb!NextGrant(g, r) = g
BY DEF Arb!NextGrant, Arb!SearchOrder, Hosts, UART, SPI

HostTypes ==
  /\ PendingRd \in BOOLEAN
  /\ wb_req \in BOOLEAN /\ wb_ack_o \in BOOLEAN /\ reg_ack \in BOOLEAN
  /\ grnt \in {0} \cup Hosts
  /\ cfg_bank_sel \in Addrs /\ seenBank \in Addrs
  /\ seen \in [Addrs -> Words]
  /\ \A h \in Hosts : bus[h] \in Accesses(h) \cup {Idle("chip"), Idle("bank")}

ChipTypes ==
  /\ wbs_ack_f \in BOOLEAN
  /\ slv \in [ack : BOOLEAN, dat : Words]
  /\ memory \in [Addrs -> Words]

LEMMA BusStep ==
  ASSUME Types, HostSide, NEW h \in Hosts
  PROVE  /\ bus'[h] \in Moves(h)
         /\ bus'[h] \in Accesses(h) \cup {Idle("chip"), Idle("bank")}
<1>1. bus'[h] \in Moves(h)
  BY DEF HostSide, Hosts, UART, SPI
<1>2. bus[h] \in Accesses(h) \cup {Idle("chip"), Idle("bank")}
  BY DEF Types
<1>3. \A b \in Accesses(h) : b.to \in {"chip", "bank"}
  BY DEF Accesses, Reads, Writes
<1>4. bus[h].to \in {"chip", "bank"}
  BY <1>2, <1>3 DEF Idle
<1>5. Idle(bus[h].to) \in {Idle("chip"), Idle("bank")}
  BY <1>4
<1>6. \A b \in Moves(h) : b \in {bus[h]} \cup Accesses(h) \cup {Idle(bus[h].to)}
  BY DEF Moves
<1>. QED  BY <1>1, <1>2, <1>5, <1>6

LEMMA HostTypesStep ==
  ASSUME BridgeInv, HostSide, PendingRead(AsyncPort)
  PROVE  HostTypes'
<1>. USE DEF BridgeInv
<1>1. /\ wb.stb \in BOOLEAN /\ wb.we \in BOOLEAN /\ wb.to \in {"chip", "bank"}
      /\ wb.to = "chip" => wb.dat \in Words
      /\ wb.we /\ wb.to = "bank" => wb.dat \in Addrs
      /\ reg_sel \in BOOLEAN /\ (reg_sel <=> wb_req /\ wb.to = "bank")
      /\ PendingRd \in BOOLEAN /\ reg_ack \in BOOLEAN
  <2>1. Types
    OBVIOUS
  <2>2. PendingRd \in BOOLEAN /\ reg_ack \in BOOLEAN
    BY <2>1 DEF Types
  <2>. QED  BY ONLY <2>1, <2>2, WbFacts, PortFacts
<1>2. wb_ack_o1 \in BOOLEAN
  <2>1. wbm_ack_o(AsyncPort) \in BOOLEAN
    BY DEF wbm_ack_o, m_cmd_wr_en, m_resp_rd_empty
  <2>. QED  BY <2>1, <1>1 DEF wb_ack_o1
<1>3. PendingRd' \in BOOLEAN
  <2>1. (PendingRd /\ ~(AsyncPort.stb /\ ~AsyncPort.we /\ wbm_ack_o(AsyncPort))) \in BOOLEAN
    OBVIOUS
  <2>. QED  BY <2>1 DEF PendingRead
<1>4. wb_req' \in BOOLEAN /\ wb_ack_o' \in BOOLEAN /\ reg_ack' \in BOOLEAN
  <2>1. Strobe \in BOOLEAN /\ (reg_sel /\ ~reg_ack) \in BOOLEAN
    BY DEF Strobe
  <2>. QED  BY <2>1, <1>2 DEF HostSide, Answer, BankRegister
<1>5. (grnt \in {0} \cup Hosts)'
  <2>1. Requests \in SUBSET Hosts /\ grnt \in {0} \cup Hosts
    BY DEF Requests, Types
  <2>. QED  BY <2>1, GrantStep DEF HostSide
<1>6. cfg_bank_sel' \in Addrs
  BY <1>1 DEF HostSide, BankRegister, Types
<1>7. seenBank' \in Addrs
  BY <1>1 DEF HostSide, History, Types
<1>8. seen' \in [Addrs -> Words]
  BY <1>1 DEF HostSide, History, Types
<1>9. (\A h \in Hosts : bus[h] \in Accesses(h) \cup {Idle("chip"), Idle("bank")})'
  <2>1. \A h \in Hosts : bus'[h] \in Accesses(h) \cup {Idle("chip"), Idle("bank")}
    BY BusStep
  <2>. QED  BY <2>1 DEF Accesses, Idle, Reads, Writes
<1>. QED  BY <1>3, <1>4, <1>5, <1>6, <1>7, <1>8, <1>9 DEF HostTypes

LEMMA ChipTypesStep ==
  ASSUME BridgeInv, NEW answers \in BOOLEAN, ChipSide(answers), wbs_ack_f' = slv.ack
  PROVE  ChipTypes'
<1>1. /\ slv \in [ack : BOOLEAN, dat : Words] /\ memory \in [Addrs -> Words]
      /\ wbs_stb_o => Head(cmd) \in Commands
      /\ Zero \in Words
  BY QueueFacts, WbHostAssumption DEF BridgeInv, Types
<1>2. wbs_ack_f' \in BOOLEAN
  BY <1>1
<1>3. CASE answers /\ wbs_stb_o /\ ~slv.ack
  <2>1. Head(cmd).adr \in Addrs /\ Head(cmd).dat \in Words
    BY <1>1, <1>3 DEF Commands
  <2>2. memory[Head(cmd).adr] \in Words
    BY <1>1, <2>1
  <2>3. slv' = [ack |-> TRUE, dat |-> memory[Head(cmd).adr]]
    BY <1>3 DEF ChipSide
  <2>4. \/ memory' = memory
        \/ memory' = [memory EXCEPT ![Head(cmd).adr] = Head(cmd).dat]
    BY <1>3 DEF ChipSide
  <2>5. memory' \in [Addrs -> Words]
    BY <1>1, <2>1, <2>4
  <2>6. slv' \in [ack : BOOLEAN, dat : Words]
    BY <2>2, <2>3
  <2>. QED  BY <1>2, <2>5, <2>6 DEF ChipTypes
<1>4. CASE ~(answers /\ wbs_stb_o /\ ~slv.ack)
  <2>1. slv' = [ack |-> FALSE, dat |-> Zero] /\ memory' = memory
    BY <1>4 DEF ChipSide
  <2>. QED  BY <1>1, <1>2, <2>1 DEF ChipTypes
<1>. QED  BY <1>3, <1>4

LEMMA TypesStep ==
  ASSUME BridgeInv, NEW h \in BOOLEAN, NEW c \in BOOLEAN, NEW answers \in BOOLEAN,
         Edge(h, c, answers)
  PROVE  Types'
<1>1. (cmd \in Seq(Commands) /\ resp \in Seq(Words))'
  BY QueueStep DEF Commands
<1>2. HostTypes'
  <2>1. CASE h
    BY <2>1, HostTypesStep DEF Edge
  <2>2. CASE ~h
    BY <2>2 DEF Edge, hostVars, BridgeInv, Types, HostTypes, Accesses, Idle, Reads, Writes
  <2>. QED  BY <2>1, <2>2
<1>3. ChipTypes'
  <2>1. CASE c
    BY <2>1, ChipTypesStep DEF Edge
  <2>2. CASE ~c
    BY <2>2 DEF Edge, chipVars, BridgeInv, Types, ChipTypes
  <2>. QED  BY <2>1, <2>2
<1>. QED  BY <1>1, <1>2, <1>3 DEF Types, HostTypes, ChipTypes

(* The fill counts after a step.                                            *)
LEMMA CountStep ==
  ASSUME BridgeInv, NEW h \in BOOLEAN, NEW c \in BOOLEAN, NEW answers \in BOOLEAN,
         h \/ c, Edge(h, c, answers)
  PROVE  Counts'
<1>. DEFINE w == One(h /\ stores)  p == One(c /\ slv.ack)
            t == One(h /\ takes)   u == One(c /\ puts)
            n == Len(cmd)  m == Len(resp)
            n2 == Len(cmd')  m2 == Len(resp')
<1>1. /\ w \in {0, 1} /\ p \in {0, 1} /\ t \in {0, 1} /\ u \in {0, 1}
      /\ w = 1 => h /\ stores
      /\ p = 1 => c /\ slv.ack
      /\ t = 1 => h /\ takes
      /\ u = 1 => c /\ puts
  BY DEF One
<1>2. /\ n \in Nat /\ m \in Nat
      /\ cmdFresh \in Nat \X Nat /\ cmdFreed \in Nat \X Nat
      /\ respFresh \in Nat \X Nat /\ respFreed \in Nat \X Nat
      /\ n + cmdFreed[1] + cmdFreed[2] <= CmdDepth
      /\ m + respFreed[1] + respFreed[2] <= 1
      /\ respFresh[1] + respFresh[2] <= m
  BY QueueFacts DEF BridgeInv, Counts
<1>3. stores => n + cmdFreed[1] + cmdFreed[2] < CmdDepth - 1
  BY DEF stores, m_cmd_wr_en, CmdFifo!wr_cnt
<1>4. takes => m - respFresh[1] - respFresh[2] > 0
  <2>1. takes => m - respFresh[1] - respFresh[2] # 0
    BY DEF takes, m_resp_rd_empty, RespFifo!rd_cnt
  <2>. QED  BY <1>2, <2>1
<1>5. puts => m = 0 /\ respFreed[1] = 0 /\ respFreed[2] = 0
  BY QueueFacts DEF puts
<1>6. n2 = n - p + w /\ m2 = m - t + u
  BY QueueStep
<1>7. /\ Crosses(h, c, w, cmdFresh, cmdFresh')
      /\ Crosses(c, h, p, cmdFreed, cmdFreed')
      /\ Crosses(c, h, u, respFresh, respFresh')
      /\ Crosses(h, c, t, respFreed, respFreed')
  BY DEF Edge
<1>. HIDE DEF w, p, t, u, n, m, n2, m2
<1>8. /\ cmdFresh' \in Nat \X Nat /\ cmdFreed' \in Nat \X Nat
      /\ respFresh' \in Nat \X Nat /\ respFreed' \in Nat \X Nat
  BY <1>1, <1>2, <1>7, CrossFacts
<1>9. n2 + cmdFreed'[1] + cmdFreed'[2] <= CmdDepth
  <2>1. cmdFreed'[1] + cmdFreed'[2] <= cmdFreed[1] + cmdFreed[2] + p
    BY <1>1, <1>2, <1>7, CrossFacts
  <2>. QED  BY <1>1, <1>2, <1>3, <1>6, <1>8, <2>1, AsyncWbAssumption
<1>10. m2 + respFreed'[1] + respFreed'[2] <= 1
  <2>1. respFreed'[1] + respFreed'[2] <= respFreed[1] + respFreed[2] + t
    BY <1>1, <1>2, <1>7, CrossFacts
  <2>. QED  BY <1>1, <1>2, <1>5, <1>6, <1>8, <2>1
<1>11. respFresh'[1] + respFresh'[2] <= m2
  <2>1. respFresh'[1] + respFresh'[2] <= respFresh[1] + respFresh[2] + u
    BY <1>1, <1>2, <1>7, CrossFacts
  <2>. QED  BY <1>1, <1>2, <1>4, <1>6, <1>8, <2>1
<1>. QED  BY <1>8, <1>9, <1>10, <1>11 DEF Counts, n2, m2

LEMMA ReadIsLastStep ==
  ASSUME BridgeInv, NEW h \in BOOLEAN, NEW c \in BOOLEAN, NEW answers \in BOOLEAN,
         h \/ c, Edge(h, c, answers)
  PROVE  ReadIsLast'
<1>. DEFINE w == One(h /\ stores)  p == One(c /\ slv.ack)
            t == One(h /\ takes)   u == One(c /\ puts)
            n == Len(cmd)  m == Len(resp)
            n2 == Len(cmd')  m2 == Len(resp')
<1>1. /\ w \in {0, 1} /\ p \in {0, 1} /\ t \in {0, 1} /\ u \in {0, 1}
      /\ w = 1 <=> h /\ stores
      /\ p = 1 <=> c /\ slv.ack
      /\ t = 1 <=> h /\ takes
      /\ u = 1 <=> c /\ puts
  BY DEF One
<1>2. /\ n \in Nat /\ m \in Nat
      /\ cmdFresh \in Nat \X Nat /\ respFreed \in Nat \X Nat
      /\ m + respFreed[1] + respFreed[2] <= 1
  BY QueueFacts DEF BridgeInv, Counts
<1>3. /\ n2 = n - p + w /\ m2 = m - t + u
      /\ cmd' \in Seq(Commands) /\ resp' \in Seq(Words)
      /\ \A i \in 1..(n - p) : cmd'[i] = cmd[i + p]
      /\ w = 1 => cmd'[n2] = Command(AsyncPort)
  BY <1>1, QueueStep
<1>4. /\ Crosses(h, c, w, cmdFresh, cmdFresh')
      /\ Crosses(h, c, t, respFreed, respFreed')
  BY DEF Edge
<1>5. /\ h => PendingRd' = IF stores /\ ~AsyncPort.we THEN TRUE
               ELSE PendingRd /\ ~(AsyncPort.stb /\ ~AsyncPort.we /\ wbm_ack_o(AsyncPort))
      /\ ~h => PendingRd' = PendingRd
  BY DEF Edge, PendingRead, stores
<1>6. /\ PendingRd \in BOOLEAN /\ PendingRd' \in BOOLEAN
      /\ AsyncPort.we \in BOOLEAN /\ stores \in BOOLEAN /\ takes \in BOOLEAN
      /\ ~AsyncPort.we /\ wbm_ack_o(AsyncPort) => takes
      /\ stores => ~PendingRd
      /\ takes => PendingRd /\ cmd = <<>> /\ m = 1
  BY TypesStep, PortFacts, QueueFacts DEF Types, BridgeInv, wbm_ack_o, takes, stores, m_cmd_wr_en
<1>. HIDE DEF w, p, t, u, n, m, n2, m2
(* The wait begins with the read and is over only when its answer leaves.   *)
<1>7. /\ w = 1 /\ ~AsyncPort.we => PendingRd'
      /\ PendingRd /\ t = 0 => PendingRd'
      /\ PendingRd => w = 0
      /\ t = 1 => PendingRd /\ cmd = <<>> /\ m = 1
  <2>1. w = 1 /\ ~AsyncPort.we => PendingRd'
    BY <1>1, <1>5, <1>6
  <2>2. PendingRd => w = 0
    BY <1>1, <1>6
  <2>3. t = 1 => PendingRd /\ cmd = <<>> /\ m = 1
    BY <1>1, <1>6
  <2>4. PendingRd /\ t = 0 => PendingRd'
    BY <1>1, <1>5, <1>6
  <2>. QED  BY <2>1, <2>2, <2>3, <2>4
<1>8. /\ resp = <<>> <=> m = 0
      /\ cmd = <<>> <=> n = 0
      /\ resp' = <<>> <=> m2 = 0
      /\ cmd' = <<>> <=> n2 = 0
  BY <1>3 DEF n, m, n2, m2, BridgeInv, Types
<1>9. /\ u = 1 => p = 1 /\ n = 1 /\ m = 0 /\ PendingRd
      /\ p = 1 => n > 0
      /\ m > 0 => n = 0 /\ PendingRd
  <2>1. puts => slv.ack /\ n = 1 /\ PendingRd /\ resp = <<>>
    BY QueueFacts DEF puts, n
  <2>2. slv.ack => cmd # <<>>
    BY QueueFacts
  <2>3. resp # <<>> => PendingRd /\ cmd = <<>>
    BY DEF BridgeInv, ReadIsLast
  <2>4. u = 1 => p = 1 /\ n = 1 /\ m = 0 /\ PendingRd
    BY <1>1, <1>8, <2>1
  <2>5. p = 1 => n > 0
    BY <1>1, <1>2, <1>8, <2>2
  <2>6. m > 0 => n = 0 /\ PendingRd
    BY <1>2, <1>8, <2>3
  <2>. QED  BY <2>4, <2>5, <2>6
<1>10. /\ cmdFresh'[1] \in Nat /\ cmdFresh'[2] \in Nat
       /\ c => cmdFresh'[1] + cmdFresh'[2] = cmdFresh[1] + w
       /\ ~c => cmdFresh'[1] = cmdFresh[1] + w /\ cmdFresh'[2] = cmdFresh[2]
       /\ t = 0 /\ c => respFreed'[1] = 0 /\ respFreed'[2] = respFreed[1]
       /\ t = 0 /\ ~c => respFreed'[1] = respFreed[1] /\ respFreed'[2] = respFreed[2]
  <2>1. /\ cmdFresh' \in Nat \X Nat
        /\ c => cmdFresh'[1] + cmdFresh'[2] = cmdFresh[1] + w
        /\ ~c => cmdFresh'[1] = cmdFresh[1] + w /\ cmdFresh'[2] = cmdFresh[2]
    BY <1>1, <1>2, <1>4, CrossFacts
  <2>2. /\ c /\ t = 0 => respFreed'[1] = 0 /\ respFreed'[2] = respFreed[1]
        /\ ~c => respFreed'[1] = respFreed[1] + t /\ respFreed'[2] = respFreed[2]
    BY <1>1, <1>2, <1>4, CrossFacts
  <2>. QED  BY <1>2, <2>1, <2>2
<1>11. /\ cmdFresh[1] \in Nat /\ cmdFresh[2] \in Nat
       /\ respFreed[1] \in Nat /\ respFreed[2] \in Nat
  BY <1>2
<1>12. ASSUME NEW i \in 1..n2, ~cmd'[i].we
       PROVE  /\ i = n2 /\ PendingRd' /\ resp' = <<>>
              /\ respFreed'[1] > 0 => cmdFresh'[1] > 0
              /\ respFreed'[2] > 0 => cmdFresh'[1] + cmdFresh'[2] > 0
  <2>1. CASE i <= n - p
    <3>1. i + p \in 1..n /\ ~cmd[i + p].we
      <4>1. i \in 1..(n - p) /\ i + p \in 1..n
        BY <1>1, <1>2, <2>1
      <4>2. cmd'[i] = cmd[i + p]
        BY <1>3, <4>1
      <4>. QED  BY <1>12, <4>1, <4>2
    <3>2. /\ i + p = n /\ PendingRd /\ resp = <<>>
          /\ respFreed[1] > 0 => cmdFresh[1] > 0
          /\ respFreed[2] > 0 => cmdFresh[1] + cmdFresh[2] > 0
      BY <3>1 DEF BridgeInv, ReadIsLast, n
    <3>3. w = 0 /\ t = 0 /\ u = 0
      BY <1>1, <1>2, <1>7, <1>8, <1>9, <2>1, <3>2
    <3>4. i = n2 /\ PendingRd' /\ resp' = <<>>
      BY <1>1, <1>2, <1>3, <1>7, <1>8, <3>2, <3>3
    <3>. QED  BY <1>10, <1>11, <3>2, <3>3, <3>4
  <2>2. CASE i = n2 /\ w = 1
    <3>1. ~AsyncPort.we /\ ~PendingRd
      BY <1>3, <1>7, <1>12, <2>2, PortFacts DEF BridgeInv
    <3>2. t = 0 /\ u = 0 /\ m = 0
      BY <1>1, <1>2, <1>7, <1>9, <3>1
    <3>3. i = n2 /\ PendingRd' /\ resp' = <<>>
      BY <1>3, <1>7, <1>8, <2>2, <3>1, <3>2
    <3>. QED  BY <1>10, <1>11, <2>2, <3>2, <3>3
  <2>. QED  BY <1>1, <1>2, <1>3, <2>1, <2>2
<1>13. ASSUME resp' # <<>>
       PROVE  PendingRd' /\ cmd' = <<>>
  <2>1. m2 # 0 /\ m2 = m - t + u
    BY <1>3, <1>8, <1>13
  <2>2. CASE u = 1
    <3>1. p = 1 /\ n = 1 /\ t = 0 /\ PendingRd /\ w = 0
      BY <1>1, <1>2, <1>7, <1>9, <2>2
    <3>. QED  BY <1>3, <1>7, <1>8, <3>1
  <2>3. CASE u = 0
    <3>1. m > 0
      BY <1>1, <1>2, <1>7, <2>1, <2>3
    <3>2. t = 0
      <4>1. m <= 1
        BY <1>2, <1>11
      <4>. QED  BY <1>1, <1>2, <1>7, <2>1, <2>3, <3>1, <4>1
    <3>3. p = 0 /\ w = 0 /\ n = 0 /\ PendingRd
      BY <1>1, <1>2, <1>7, <1>9, <3>1
    <3>. QED  BY <1>3, <1>7, <1>8, <3>2, <3>3
  <2>. QED  BY <1>1, <2>2, <2>3
<1>. QED  BY <1>12, <1>13 DEF ReadIsLast, n2

LEMMA ChipHoldsStep ==
  ASSUME BridgeInv, NEW h \in BOOLEAN, NEW c \in BOOLEAN, NEW answers \in BOOLEAN,
         h \/ c, Edge(h, c, answers)
  PROVE  ChipHolds'
<1>. SUFFICES ASSUME slv.ack' PROVE wbs_stb_o'
  BY DEF ChipHolds
<1>. DEFINE w == One(h /\ stores)  p == One(c /\ slv.ack)
            n == Len(cmd)  n2 == Len(cmd')
(* The answer was there and stays, or it is new and nothing left the queue. *)
<1>1. wbs_stb_o /\ (c => ~slv.ack) /\ wbs_ack_f' = FALSE
  <2>1. CASE c
    <3>1. ChipSide(answers) /\ wbs_ack_f' = slv.ack
      BY <2>1 DEF Edge
    <3>2. answers /\ wbs_stb_o /\ ~slv.ack
      BY <3>1 DEF ChipSide
    <3>3. slv.ack = FALSE
      BY <3>2 DEF BridgeInv, Types
    <3>. QED  BY <3>1, <3>2, <3>3
  <2>2. CASE ~c
    <3>1. slv.ack /\ wbs_ack_f' = wbs_ack_f
      BY <2>2 DEF Edge, chipVars
    <3>2. wbs_stb_o /\ ~wbs_ack_f
      BY <3>1, QueueFacts
    <3>. QED  BY <2>2, <3>1, <3>2 DEF BridgeInv, Types
  <2>. QED  BY <2>1, <2>2
<1>2. /\ n \in Nat /\ cmdFresh \in Nat \X Nat
      /\ n - cmdFresh[1] - cmdFresh[2] > 0
  BY <1>1, QueueFacts DEF BridgeInv, Counts, wbs_stb_o, CmdFifo!rd_cnt
<1>3. w \in {0, 1} /\ (w = 1 => h) /\ p = 0
  BY <1>1 DEF One
<1>4. n2 = n - p + w
  BY QueueStep
<1>5. Crosses(h, c, w, cmdFresh, cmdFresh')
  BY DEF Edge
<1>. HIDE DEF w, p, n, n2
<1>6. cmdFresh' \in Nat \X Nat /\ cmdFresh'[1] + cmdFresh'[2] <= cmdFresh[1] + cmdFresh[2] + w
  BY <1>2, <1>3, <1>5, CrossFacts
<1>7. n2 - cmdFresh'[1] - cmdFresh'[2] > 0
  BY <1>2, <1>3, <1>4, <1>6
<1>. QED  BY <1>1, <1>7 DEF wbs_stb_o, CmdFifo!rd_cnt, n2

(* The acknowledge takes the strobe down.                                   *)
LEMMA AckedOnceStep ==
  ASSUME BridgeInv, NEW h \in BOOLEAN, NEW c \in BOOLEAN, NEW answers \in BOOLEAN,
         Edge(h, c, answers)
  PROVE  AckedOnce'
<1>. SUFFICES ASSUME wb_ack_o' PROVE ~wb_req' /\ ~wb_ack_o1'
  BY DEF AckedOnce
<1>1. ~wb_req'
  <2>1. CASE h
    <3>1. wb_ack_o' = wb_ack_o1 /\ wb_req' = Strobe
      BY <2>1 DEF Edge, HostSide, Answer
    <3>. QED  BY <3>1 DEF Strobe
  <2>2. CASE ~h
    <3>1. wb_ack_o' = wb_ack_o /\ wb_req' = wb_req
      BY <2>2 DEF Edge, hostVars
    <3>. QED  BY <3>1 DEF BridgeInv, AckedOnce
  <2>. QED  BY <2>1, <2>2
<1>2. ~reg_sel' /\ ~AsyncPort.stb'
  BY <1>1 DEF reg_sel, AsyncPort
<1>3. ~wb_ack_o1'
  BY <1>2 DEF wb_ack_o1, wbm_ack_o
<1>. QED  BY <1>1, <1>3

LEMMA BridgeInit == Init => BridgeInv
<1>. SUFFICES ASSUME Init PROVE BridgeInv
  OBVIOUS
<1>. USE DEF Init, AsyncWbInit, CmdFifo!Init, RespFifo!Init
<1>1. Types
  <2>1. \A h \in Hosts : bus[h] \in Accesses(h) \cup {Idle("chip"), Idle("bank")}
    OBVIOUS
  <2>2. slv \in [ack : BOOLEAN, dat : Words]
    BY WbHostAssumption
  <2>3. memory \in [Addrs -> Words] /\ seen \in [Addrs -> Words]
    BY WbHostAssumption
  <2>4. cfg_bank_sel \in Addrs /\ seenBank \in Addrs
    BY WbHostAssumption
  <2>5. /\ PendingRd \in BOOLEAN /\ wbs_ack_f \in BOOLEAN
        /\ wb_req \in BOOLEAN /\ wb_ack_o \in BOOLEAN /\ reg_ack \in BOOLEAN
        /\ grnt \in {0} \cup Hosts
    OBVIOUS
  <2>6. cmd \in Seq(Commands) /\ resp \in Seq(Words)
    OBVIOUS
  <2>. QED  BY ONLY <2>1, <2>2, <2>3, <2>4, <2>5, <2>6 DEF Types
<1>2. Counts
  BY AsyncWbAssumption DEF Counts
<1>3. ReadIsLast /\ ChipHolds /\ AckedOnce
  BY DEF ReadIsLast, ChipHolds, AckedOnce
<1>. QED  BY <1>1, <1>2, <1>3 DEF BridgeInv

LEMMA BridgeStep == BridgeInv /\ [Next]_vars => BridgeInv'
<1>. SUFFICES ASSUME BridgeInv, [Next]_vars PROVE BridgeInv'
  OBVIOUS
<1>1. CASE Next
  <2>1. PICK h \in BOOLEAN, c \in BOOLEAN, answers \in BOOLEAN : (h \/ c) /\ Edge(h, c, answers)
    BY <1>1, EdgeIs
  <2>. QED  BY <2>1, TypesStep, CountStep, ReadIsLastStep, ChipHoldsStep, AckedOnceStep DEF BridgeInv
<1>2. CASE UNCHANGED vars
  <2>. USE <1>2 DEF vars, asyncWbVars, hostVars, chipVars, BridgeInv
  <2>1. Types'
    BY DEF Types, Accesses, Idle, Reads, Writes, Commands
  <2>2. Counts' /\ ReadIsLast'
    BY DEF Counts, ReadIsLast
  <2>3. ChipHolds'
    BY DEF ChipHolds, wbs_stb_o, CmdFifo!rd_cnt
  <2>4. AckedOnce'
    BY DEF AckedOnce, wb_ack_o1, reg_sel, wb, Idle, wbm_ack_o, AsyncPort, m_cmd_wr_en,
           CmdFifo!wr_cnt, m_resp_rd_empty, RespFifo!rd_cnt
  <2>. QED  BY <2>1, <2>2, <2>3, <2>4
<1>. QED  BY <1>1, <1>2

LEMMA BridgeInvariant == Spec => []BridgeInv
BY BridgeInit, BridgeStep, PTL DEF Spec

LEMMA HostInvFollows == BridgeInv => HostInv
<1>. SUFFICES ASSUME BridgeInv PROVE HostInv
  OBVIOUS
<1>1. TypeOK
  BY DEF BridgeInv, Types, Counts, TypeOK, CmdFifo!wr_cnt, RespFifo!wr_cnt, RespDepth
<1>2. OneResponse
  BY QueueFacts DEF BridgeInv, Counts, OneResponse, RespFifo!wr_cnt, RespFifo!Bit
<1>. QED  BY <1>1, <1>2 DEF BridgeInv, HostInv

(* Whatever the hosts do, an access is neither begun nor answered twice and *)
(* there is never a second response: the registered strobe of wb_host.sv,   *)
(* line 420, and the response FIFO of async_wb.sv, lines 39-41 and 190.     *)
THEOREM BridgeHolds == Spec => []HostInv
BY BridgeInvariant, HostInvFollows, PTL

------------------------------------------------------------------------------
LEMMA PushPlaced ==
  ASSUME NEW q \in Seq(Commands), NEW x \in Commands, NEW m \in [Addrs -> Words],
         NEW k \in [Addrs -> Words], Placed(q, k, m)
  PROVE  Placed(Append(q, x), IF x.we THEN [k EXCEPT ![x.adr] = x.dat] ELSE k, m)
<1>. DEFINE r == Append(q, x)  n == Len(q)
            k2 == IF x.we THEN [k EXCEPT ![x.adr] = x.dat] ELSE k
<1>1. /\ n \in Nat /\ Len(r) = n + 1 /\ r[n + 1] = x
      /\ \A i \in 1..n : r[i] = q[i] /\ q[i] \in Commands
  OBVIOUS
<1>2. /\ x.adr \in Addrs /\ x.we \in BOOLEAN
      /\ \A i \in 1..n : q[i].adr \in Addrs
  BY <1>1 DEF Commands
<1>3. /\ \A a \in Addrs : (x.we => x.adr # a) => k2[a] = k[a]
      /\ x.we => k2[x.adr] = x.dat
  BY <1>2
<1>. HIDE DEF r, n, k2
<1>4. /\ \A i \in 1..n : q[i].we /\ (\A j \in (i + 1)..n : q[j].we => q[j].adr # q[i].adr)
                           => k[q[i].adr] = q[i].dat
      /\ \A a \in Addrs : (\A j \in 1..n : q[j].we => q[j].adr # a) => k[a] = m[a]
  BY DEF Placed, n
<1>5. ASSUME NEW i \in 1..(n + 1), r[i].we,
             \A j \in (i + 1)..(n + 1) : r[j].we => r[j].adr # r[i].adr
      PROVE  k2[r[i].adr] = r[i].dat
  <2>1. CASE i = n + 1
    BY <1>1, <1>3, <1>5, <2>1
  <2>2. CASE i # n + 1
    <3>1. i \in 1..n /\ r[i] = q[i] /\ n + 1 \in (i + 1)..(n + 1)
      BY <1>1, <2>2
    <3>2. x.we => x.adr # q[i].adr
      BY <1>1, <1>5, <3>1
    <3>3. ASSUME NEW j \in (i + 1)..n PROVE q[j].we => q[j].adr # q[i].adr
      <4>1. j \in 1..n /\ j \in (i + 1)..(n + 1) /\ r[j] = q[j]
        BY <1>1, <3>1
      <4>. QED  BY <1>5, <3>1, <4>1
    <3>4. k[q[i].adr] = q[i].dat
      BY <1>4, <1>5, <3>1, <3>3
    <3>. QED  BY <1>2, <1>3, <3>1, <3>2, <3>4
  <2>. QED  BY <2>1, <2>2
<1>6. ASSUME NEW a \in Addrs, \A j \in 1..(n + 1) : r[j].we => r[j].adr # a
      PROVE  k2[a] = m[a]
  <2>1. x.we => x.adr # a
    BY <1>1, <1>6
  <2>2. ASSUME NEW j \in 1..n PROVE q[j].we => q[j].adr # a
    <3>1. j \in 1..(n + 1) /\ r[j] = q[j]
      BY <1>1
    <3>. QED  BY <1>6, <3>1
  <2>. QED  BY <1>3, <1>4, <2>1, <2>2
<1>7. Placed(r, k2, m)
  BY <1>1, <1>5, <1>6 DEF Placed
<1>. QED  BY <1>7 DEF r, k2

LEMMA PopPlaced ==
  ASSUME NEW q \in Seq(Commands), q # <<>>, NEW m, NEW k, Placed(q, k, m),
         q[1].we => m[q[1].adr] = q[1].dat
  PROVE  Placed(Tail(q), k, m)
<1>. DEFINE r == Tail(q)  n == Len(r)
<1>1. /\ n \in Nat /\ Len(q) = n + 1
      /\ \A i \in 1..n : r[i] = q[i + 1]
      /\ q[1] \in Commands
  OBVIOUS
<1>. HIDE DEF r, n
<1>2. /\ \A i \in 1..(n + 1) :
           q[i].we /\ (\A j \in (i + 1)..(n + 1) : q[j].we => q[j].adr # q[i].adr)
             => k[q[i].adr] = q[i].dat
      /\ \A a \in Addrs : (\A j \in 1..(n + 1) : q[j].we => q[j].adr # a) => k[a] = m[a]
  BY <1>1 DEF Placed
<1>3. ASSUME NEW i \in 1..n, r[i].we,
             \A j \in (i + 1)..n : r[j].we => r[j].adr # r[i].adr
      PROVE  k[r[i].adr] = r[i].dat
  <2>1. i + 1 \in 1..(n + 1) /\ r[i] = q[i + 1]
    BY <1>1
  <2>2. ASSUME NEW j \in (i + 2)..(n + 1) PROVE q[j].we => q[j].adr # q[i + 1].adr
    <3>1. j - 1 \in 1..n /\ j - 1 \in (i + 1)..n /\ (j - 1) + 1 = j
      BY <1>1
    <3>2. r[j - 1] = q[j]
      BY <1>1, <3>1
    <3>. QED  BY <1>3, <2>1, <3>1, <3>2
  <2>3. (i + 1) + 1 = i + 2
    OBVIOUS
  <2>. QED  BY <1>2, <1>3, <2>1, <2>2, <2>3
<1>4. ASSUME NEW a \in Addrs, \A j \in 1..n : r[j].we => r[j].adr # a
      PROVE  k[a] = m[a]
  <2>1. ASSUME NEW j \in 2..(n + 1) PROVE q[j].we => q[j].adr # a
    <3>1. j - 1 \in 1..n /\ (j - 1) + 1 = j
      BY <1>1
    <3>2. r[j - 1] = q[j]
      BY <1>1, <3>1
    <3>. QED  BY <1>4, <3>1, <3>2
  <2>2. CASE q[1].we /\ q[1].adr = a
    <3>1. 1 \in 1..(n + 1) /\ 1 + 1 = 2
      BY <1>1
    <3>2. k[q[1].adr] = q[1].dat
      BY <1>2, <2>1, <2>2, <3>1
    <3>. QED  BY <2>2, <3>2
  <2>3. CASE ~(q[1].we /\ q[1].adr = a)
    <3>1. ASSUME NEW j \in 1..(n + 1) PROVE q[j].we => q[j].adr # a
      <4>1. j = 1 \/ j \in 2..(n + 1)
        OBVIOUS
      <4>. QED  BY <2>1, <2>3, <4>1
    <3>. QED  BY <1>2, <3>1
  <2>. QED  BY <2>2, <2>3
<1>5. Placed(r, k, m)
  BY <1>3, <1>4 DEF Placed, n
<1>. QED  BY <1>5 DEF r

LEMMA WritePlaced ==
  ASSUME NEW q \in Seq(Commands), q # <<>>, NEW m \in [Addrs -> Words], NEW k,
         Placed(q, k, m)
  PROVE  Placed(q, k, IF q[1].we THEN [m EXCEPT ![q[1].adr] = q[1].dat] ELSE m)
<1>. DEFINE m2 == IF q[1].we THEN [m EXCEPT ![q[1].adr] = q[1].dat] ELSE m
<1>1. 1 \in 1..Len(q)
  OBVIOUS
<1>2. \A a \in Addrs : (q[1].we => q[1].adr # a) => m2[a] = m[a]
  OBVIOUS
<1>. HIDE DEF m2
<1>3. Placed(q, k, m2)
  BY <1>1, <1>2 DEF Placed
<1>. QED  BY <1>3 DEF m2

(* An edge of the hosts' clock while an access stands: it stays where it is *)
(* until it is answered, and what the hosts know stays too.                 *)
LEMMA AccessKept ==
  ASSUME Impatient = {}, BridgeInv, AccessStands, HostSide
  PROVE  /\ wb.stb /\ ~wb_ack_o => wb' = wb
         /\ wb_req => /\ wb' = wb /\ wb.stb /\ ~wb_ack_o
                      /\ (wb_req' <=> ~wb_ack_o1) /\ wb_ack_o' = wb_ack_o1
                      /\ seen' = seen /\ seenBank' = seenBank
         /\ wb_ack_o' => wb_req /\ wb_ack_o1
         /\ wb_req' => wb' = wb /\ wb.stb /\ ~wb_ack_o
<1>1. /\ wb_req \in BOOLEAN /\ wb_ack_o \in BOOLEAN /\ Types
      /\ wb_req \/ wb_ack_o => wb.stb
      /\ wb_ack_o => ~wb_req
  BY DEF BridgeInv, Types, AccessStands, AckedOnce
<1>2. /\ wb_ack_o' = wb_ack_o1 /\ (wb_req' <=> wb.stb /\ ~wb_ack_o /\ ~wb_ack_o1)
      /\ grnt' = Arb!NextGrant(grnt, Requests)
  BY DEF HostSide, Answer, Strobe
<1>3. wb_ack_o1 => wb_req
  BY <1>1, PortFacts DEF AccessStands, wb_ack_o1, wbm_ack_o
<1>4. ASSUME wb.stb, ~wb_ack_o PROVE wb' = wb
  <2>1. grnt \in Hosts /\ wb = bus[grnt] /\ grnt \in Requests /\ Requests \in SUBSET Hosts
    BY <1>1, <1>4, WbFacts DEF Requests
  <2>2. grnt' = grnt
    BY <1>2, <2>1, GrantStep
  <2>3. bus'[grnt] \in Moves(grnt)
    BY <1>1, <2>1, BusStep
  <2>4. bus[grnt].stb /\ ~Acked(grnt)
    BY <1>4, <2>1 DEF Acked
  <2>5. Moves(grnt) = {bus[grnt]}
    BY <2>4 DEF Moves
  <2>. QED  BY <2>1, <2>2, <2>3, <2>5 DEF wb
<1>5. ~wb_ack_o => seen' = seen /\ seenBank' = seenBank
  BY DEF HostSide, History
<1>. QED  BY <1>1, <1>2, <1>3, <1>4, <1>5

(* Nothing of the hosts moves at an edge of the chip's clock.               *)
LEMMA HostsStill ==
  ASSUME UNCHANGED <<hostVars, seen, seenBank, PendingRd>>
  PROVE  /\ wb' = wb /\ reg_sel' = reg_sel /\ known' = known
         /\ UNCHANGED <<wb_req, wb_ack_o, wb_dat_o, reg_ack, cfg_bank_sel, grnt, seen, seenBank,
                        PendingRd>>
<1>1. UNCHANGED <<wb_req, wb_ack_o, wb_dat_o, reg_ack, cfg_bank_sel, grnt, bus, seen, seenBank,
                        PendingRd>>
  BY DEF hostVars
<1>2. wb' = wb
  BY <1>1 DEF wb, Idle
<1>. QED  BY <1>1, <1>2 DEF reg_sel, known

LEMMA AccessStandsStep ==
  ASSUME Impatient = {}, BridgeInv, AccessStands,
         NEW h \in BOOLEAN, NEW c \in BOOLEAN, NEW answers \in BOOLEAN, Edge(h, c, answers)
  PROVE  AccessStands'
<1>1. CASE ~h
  BY <1>1, HostsStill DEF Edge, AccessStands
<1>2. CASE h
  <2>1. HostSide /\ PendingRead(AsyncPort)
    BY <1>2 DEF Edge
  <2>2. wb_req' \/ wb_ack_o' => wb.stb /\ wb' = wb
    BY <2>1, AccessKept
  <2>3. ASSUME reg_ack' PROVE reg_sel'
    <3>1. reg_sel /\ ~reg_ack
      BY <2>1, <2>3 DEF HostSide, BankRegister
    <3>2. wb_req /\ wb.to = "bank" /\ ~wb_ack_o1
      BY <3>1, PortFacts DEF BridgeInv, wb_ack_o1
    <3>3. wb_req' /\ wb' = wb
      BY <2>1, <3>2, AccessKept
    <3>. QED  BY <3>2, <3>3 DEF reg_sel
  <2>4. ASSUME PendingRd' PROVE wb_req' /\ ~wb.we /\ wb.to = "chip" /\ wb' = wb
    <3>1. /\ wb_req /\ ~wb.we /\ wb.to = "chip" /\ ~wbm_ack_o(AsyncPort)
      <4>1. CASE stores /\ ~AsyncPort.we
        <5>1. AsyncPort.stb /\ ~PendingRd
          BY <4>1 DEF stores, m_cmd_wr_en
        <5>2. ~takes
          BY <5>1, QueueFacts DEF takes
        <5>. QED  BY <4>1, <5>1, <5>2, PortFacts DEF BridgeInv, takes, wbm_ack_o
      <4>2. CASE ~(stores /\ ~AsyncPort.we)
        <5>1. PendingRd /\ ~(AsyncPort.stb /\ ~AsyncPort.we /\ wbm_ack_o(AsyncPort))
          BY <2>1, <2>4, <4>2 DEF PendingRead, stores
        <5>2. wb_req /\ ~wb.we /\ wb.to = "chip"
          BY <5>1 DEF AccessStands
        <5>. QED  BY <5>1, <5>2, PortFacts DEF BridgeInv
      <4>. QED  BY <4>1, <4>2
    <3>2. ~reg_sel
      BY <3>1, PortFacts DEF BridgeInv
    <3>3. ~wb_ack_o1
      BY <3>1, <3>2 DEF wb_ack_o1
    <3>. QED  BY <2>1, <3>1, <3>3, AccessKept
  <2>. QED  BY <2>2, <2>3, <2>4 DEF AccessStands
<1>. QED  BY <1>1, <1>2

LEMMA BankKnownStep ==
  ASSUME Impatient = {}, BridgeInv, AccessStands, BankKnown,
         NEW h \in BOOLEAN, NEW c \in BOOLEAN, NEW answers \in BOOLEAN, Edge(h, c, answers)
  PROVE  BankKnown'
<1>1. CASE ~h
  BY <1>1, HostsStill DEF Edge, BankKnown
<1>2. CASE h
  <2>1. HostSide
    BY <1>2 DEF Edge
  <2>2. /\ reg_ack' = (reg_sel /\ ~reg_ack)
        /\ cfg_bank_sel' = IF reg_sel /\ wb.we THEN wb.dat ELSE cfg_bank_sel
        /\ seenBank' = IF wb_ack_o /\ wb.we /\ wb.to = "bank" THEN wb.dat ELSE seenBank
    BY <2>1 DEF HostSide, BankRegister, History
  <2>3. /\ wb_req => wb' = wb /\ ~wb_ack_o /\ wb_ack_o' = wb_ack_o1
        /\ wb_ack_o' => wb_req /\ wb_ack_o1
    BY <2>1, AccessKept
  <2>4. CASE reg_sel
    <3>1. wb_req /\ wb.to = "bank" /\ wb_ack_o1 = reg_ack
      BY <2>4, PortFacts DEF BridgeInv, wb_ack_o1
    <3>2. reg_ack' \/ wb_ack_o'
      BY <2>2, <2>3, <2>4, <3>1
    <3>. QED  BY <2>2, <2>3, <2>4, <3>1, <3>2 DEF BankKnown
  <2>5. CASE ~reg_sel
    <3>1. ~reg_ack /\ ~reg_ack' /\ cfg_bank_sel' = cfg_bank_sel
      BY <2>2, <2>5 DEF AccessStands
    <3>2. seenBank' = cfg_bank_sel
      BY <2>2, <3>1 DEF BankKnown
    <3>3. wb_ack_o' => wb'.to = "chip"
      BY <2>3, <2>5, WbFacts, PortFacts DEF BridgeInv
    <3>. QED  BY <3>1, <3>2, <3>3 DEF BankKnown
  <2>. QED  BY <2>4, <2>5
<1>. QED  BY <1>1, <1>2

(* What the hosts know grows by the write that is stored.                   *)
LEMMA KnownStep ==
  ASSUME Impatient = {}, BridgeInv, AccessStands, BankKnown,
         NEW h \in BOOLEAN, NEW c \in BOOLEAN, NEW answers \in BOOLEAN, Edge(h, c, answers)
  PROVE  known' = IF h /\ stores /\ AsyncPort.we
                    THEN [known EXCEPT ![cfg_bank_sel] = AsyncPort.dat] ELSE known
<1>1. CASE ~h
  BY <1>1, HostsStill DEF Edge
<1>2. CASE h
  <2>1. HostSide
    BY <1>2 DEF Edge
  <2>2. seen' = known
    BY <2>1 DEF HostSide, History, known
  <2>3. /\ wb_req => /\ wb' = wb /\ ~wb_ack_o /\ wb_ack_o' = wb_ack_o1
                     /\ seenBank' = seenBank /\ seen' = seen
        /\ wb_ack_o' => wb_req /\ wb_ack_o1
    BY <2>1, AccessKept
  <2>4. CASE stores /\ AsyncPort.we
    <3>1. /\ wb_req /\ wb.to = "chip" /\ wb.we /\ AsyncPort.dat = wb.dat /\ ~reg_sel
          /\ wbm_ack_o(AsyncPort)
      BY <2>4, PortFacts DEF BridgeInv, stores, m_cmd_wr_en, wbm_ack_o
    <3>2. wb_ack_o1 /\ wb_ack_o' /\ wb' = wb
      BY <2>3, <3>1 DEF wb_ack_o1
    <3>3. seenBank' = cfg_bank_sel
      BY <2>3, <3>1 DEF BankKnown
    <3>. QED  BY <1>2, <2>2, <2>4, <3>1, <3>2, <3>3 DEF known
  <2>5. CASE ~(stores /\ AsyncPort.we)
    <3>1. ~(wb_ack_o' /\ wb'.we /\ wb'.to = "chip")
      <4>1. SUFFICES ASSUME wb_ack_o', wb.we, wb.to = "chip", wb_req, wb_ack_o1 PROVE FALSE
        BY <2>3
      <4>2. ~reg_sel /\ AsyncPort.we
        BY <4>1, PortFacts DEF BridgeInv
      <4>3. stores
        BY <4>1, <4>2 DEF wb_ack_o1, wbm_ack_o, stores
      <4>. QED  BY <2>5, <4>2, <4>3
    <3>. QED  BY <2>2, <2>5, <3>1 DEF known
  <2>. QED  BY <2>4, <2>5
<1>. QED  BY <1>1, <1>2

(* The chip's side of a step: it answers a command, or the memory stays.    *)
LEMMA ChipFacts ==
  ASSUME BridgeInv, NEW h \in BOOLEAN, NEW c \in BOOLEAN, NEW answers \in BOOLEAN,
         Edge(h, c, answers)
  PROVE  \/ /\ ~(c /\ slv.ack) /\ wbs_stb_o /\ c /\ slv'.ack
            /\ memory' = IF cmd[1].we THEN [memory EXCEPT ![cmd[1].adr] = cmd[1].dat] ELSE memory
            /\ slv'.dat = memory[cmd[1].adr]
         \/ c /\ ~slv'.ack /\ memory' = memory
         \/ ~c /\ slv' = slv /\ memory' = memory
<1>1. CASE ~c
  BY <1>1 DEF Edge, chipVars
<1>2. CASE c
  <2>1. ChipSide(answers)
    BY <1>2 DEF Edge
  <2>2. CASE answers /\ wbs_stb_o /\ ~slv.ack
    <3>1. Head(cmd) = cmd[1]
      BY <2>2, QueueFacts
    <3>2. /\ slv' = [ack |-> TRUE, dat |-> memory[cmd[1].adr]]
          /\ memory' = IF cmd[1].we THEN [memory EXCEPT ![cmd[1].adr] = cmd[1].dat] ELSE memory
      BY <2>1, <2>2, <3>1 DEF ChipSide
    <3>3. slv'.ack /\ slv'.dat = memory[cmd[1].adr]
      BY <3>2
    <3>. QED  BY <1>2, <2>2, <3>2, <3>3
  <2>3. CASE ~(answers /\ wbs_stb_o /\ ~slv.ack)
    BY <1>2, <2>1, <2>3 DEF ChipSide
  <2>. QED  BY <2>2, <2>3
<1>. QED  BY <1>1, <1>2

LEMMA LatestStep ==
  ASSUME Impatient = {}, BridgeInv, AccessStands, BankKnown, Latest, ReadWords,
         NEW h \in BOOLEAN, NEW c \in BOOLEAN, NEW answers \in BOOLEAN, Edge(h, c, answers)
  PROVE  Latest'
<1>. DEFINE x == Command(AsyncPort)
            mid == IF c /\ slv.ack THEN Tail(cmd) ELSE cmd
            k2 == IF x.we THEN [known EXCEPT ![x.adr] = x.dat] ELSE known
<1>1. /\ cmd \in Seq(Commands) /\ memory \in [Addrs -> Words] /\ x \in Commands
      /\ x.we = AsyncPort.we /\ x.adr = cfg_bank_sel /\ x.dat = AsyncPort.dat
      /\ slv.ack => cmd # <<>>
      /\ wbs_stb_o => cmd # <<>>
  BY PortFacts, QueueFacts DEF BridgeInv, Types
<1>2. known \in [Addrs -> Words]
  BY WbFacts DEF BridgeInv, Types, known
<1>3. mid \in Seq(Commands) /\ memory' \in [Addrs -> Words]
  BY <1>1, TypesStep DEF Types
<1>4. Placed(mid, known, memory')
  <2>1. CASE c /\ slv.ack
    <3>1. memory' = memory
      BY <2>1, ChipFacts
    <3>2. cmd[1].we => memory[cmd[1].adr] = cmd[1].dat
      BY <2>1 DEF ReadWords
    <3>3. Placed(Tail(cmd), known, memory)
      BY <1>1, <2>1, <3>2, PopPlaced DEF Latest
    <3>. QED  BY <2>1, <3>1, <3>3
  <2>2. CASE ~(c /\ slv.ack)
    <3>1. CASE memory' = memory
      BY <2>2, <3>1 DEF Latest
    <3>2. CASE /\ wbs_stb_o
               /\ memory' = IF cmd[1].we THEN [memory EXCEPT ![cmd[1].adr] = cmd[1].dat] ELSE memory
      <4>1. Placed(cmd, known, IF cmd[1].we THEN [memory EXCEPT ![cmd[1].adr] = cmd[1].dat]
                               ELSE memory)
        BY <1>1, <3>2, WritePlaced DEF Latest
      <4>. QED  BY <2>2, <3>2, <4>1
    <3>. QED  BY <3>1, <3>2, ChipFacts
  <2>. QED  BY <2>1, <2>2
<1>5. cmd' = mid \o (IF h /\ stores THEN <<x>> ELSE <<>>)
  BY DEF Edge, Shift
<1>6. known' = IF h /\ stores /\ x.we THEN [known EXCEPT ![x.adr] = x.dat] ELSE known
  BY <1>1, KnownStep
<1>. HIDE DEF x, mid
<1>7. CASE h /\ stores
  <2>1. cmd' = Append(mid, x)
    BY <1>1, <1>3, <1>5, <1>7, AppendIs
  <2>2. Placed(Append(mid, x), k2, memory')
    <3>. HIDE DEF k2
    <3>1. k2 = IF x.we THEN [known EXCEPT ![x.adr] = x.dat] ELSE known
      BY DEF k2
    <3>2. Placed(Append(mid, x), IF x.we THEN [known EXCEPT ![x.adr] = x.dat] ELSE known, memory')
      BY ONLY <1>1, <1>2, <1>3, <1>4, PushPlaced
    <3>. QED  BY <3>1, <3>2
  <2>3. known' = k2
    BY <1>6, <1>7
  <2>4. Placed(cmd', known', memory')
    BY <2>1, <2>2, <2>3
  <2>. QED  BY <2>4 DEF Latest, Placed
<1>8. CASE ~(h /\ stores)
  <2>1. cmd' = mid /\ known' = known
    BY <1>3, <1>5, <1>6, <1>8, EmptyIs
  <2>2. Placed(cmd', known', memory')
    BY <1>4, <2>1
  <2>. QED  BY <2>2 DEF Latest, Placed
<1>. QED  BY <1>7, <1>8

(* While a read waits, nobody learns of a write and the bank stays.         *)
LEMMA WaitKeeps ==
  ASSUME Impatient = {}, BridgeInv, AccessStands, BankKnown, PendingRd,
         NEW h \in BOOLEAN, NEW c \in BOOLEAN, NEW answers \in BOOLEAN, Edge(h, c, answers)
  PROVE  seen' = seen /\ seenBank' = seenBank /\ known = seen /\ ~stores
<1>1. wb_req /\ ~wb.we
  BY DEF AccessStands
<1>2. seen' = seen /\ seenBank' = seenBank
  <2>1. CASE h
    BY <1>1, <2>1, AccessKept DEF Edge
  <2>2. CASE ~h
    BY <2>2, HostsStill DEF Edge
  <2>. QED  BY <2>1, <2>2
<1>. QED  BY <1>1, <1>2 DEF known, stores, m_cmd_wr_en

LEMMA ReadAdrStep ==
  ASSUME Impatient = {}, BridgeInv, AccessStands, BankKnown, ReadWords,
         NEW h \in BOOLEAN, NEW c \in BOOLEAN, NEW answers \in BOOLEAN, Edge(h, c, answers),
         NEW i \in 1..Len(cmd'), ~cmd'[i].we
  PROVE  cmd'[i].adr = seenBank'
<1>. DEFINE w == One(h /\ stores)  p == One(c /\ slv.ack)  n == Len(cmd)  n2 == Len(cmd')
<1>1. /\ w \in {0, 1} /\ p \in {0, 1} /\ n \in Nat /\ n2 = n - p + w
      /\ w = 1 <=> h /\ stores
      /\ \A k \in 1..(n - p) : cmd'[k] = cmd[k + p]
      /\ w = 1 => cmd'[n2] = Command(AsyncPort)
  BY QueueStep, QueueFacts DEF One
<1>2. i \in 1..n2
  OBVIOUS
<1>. HIDE DEF w, p, n, n2
<1>3. CASE i <= n - p
  <2>1. i + p \in 1..n /\ cmd'[i] = cmd[i + p]
    BY <1>1, <1>2, <1>3
  <2>2. cmd[i + p].adr = seenBank
    BY <2>1 DEF ReadWords, n
  <2>3. PendingRd
    BY <2>1 DEF BridgeInv, ReadIsLast, n
  <2>. QED  BY <2>1, <2>2, <2>3, WaitKeeps
<1>4. CASE i = n2 /\ w = 1
  <2>1. cmd'[i] = Command(AsyncPort) /\ h /\ stores
    BY <1>1, <1>4
  <2>2. wb_req /\ wb.to = "chip" /\ cmd'[i].adr = cfg_bank_sel
    BY <2>1, PortFacts DEF BridgeInv, stores, m_cmd_wr_en
  <2>3. seenBank' = seenBank
    BY <2>1, <2>2, AccessKept DEF Edge
  <2>. QED  BY <2>2, <2>3 DEF BankKnown
<1>. QED  BY <1>1, <1>2, <1>3, <1>4

LEMMA AnswerStep ==
  ASSUME Impatient = {}, BridgeInv, AccessStands, BankKnown, Latest, ReadWords,
         NEW h \in BOOLEAN, NEW c \in BOOLEAN, NEW answers \in BOOLEAN, Edge(h, c, answers),
         slv'.ack
  PROVE  IF cmd'[1].we THEN memory'[cmd'[1].adr] = cmd'[1].dat
         ELSE slv'.dat = seen'[seenBank']
<1>1. /\ wbs_stb_o /\ ~(c /\ slv.ack)
      /\ \/ /\ memory' = IF cmd[1].we THEN [memory EXCEPT ![cmd[1].adr] = cmd[1].dat] ELSE memory
            /\ slv'.dat = memory[cmd[1].adr]
         \/ slv.ack /\ slv' = slv /\ memory' = memory
  <2>1. CASE ~c /\ slv' = slv /\ memory' = memory
    <3>1. slv.ack
      BY <2>1
    <3>. QED  BY <2>1, <3>1, QueueFacts
  <2>2. CASE /\ ~(c /\ slv.ack) /\ wbs_stb_o
             /\ memory' = IF cmd[1].we THEN [memory EXCEPT ![cmd[1].adr] = cmd[1].dat] ELSE memory
             /\ slv'.dat = memory[cmd[1].adr]
    BY <2>2
  <2>. QED  BY <2>1, <2>2, ChipFacts
<1>2. Len(cmd) >= 1 /\ cmd[1] \in Commands /\ cmd \in Seq(Commands) /\ memory \in [Addrs -> Words]
  BY <1>1, QueueFacts DEF BridgeInv, Types
<1>3. cmd'[1] = cmd[1]
  <2>1. One(c /\ slv.ack) = 0
    BY <1>1 DEF One
  <2>2. \A i \in 1..(Len(cmd) - 0) : cmd'[i] = cmd[i + 0]
    BY <2>1, QueueStep
  <2>3. 1 \in 1..(Len(cmd) - 0) /\ 1 + 0 = 1
    BY <1>2
  <2>. QED  BY <2>2, <2>3
<1>4. CASE cmd[1].we
  <2>1. cmd[1].adr \in Addrs
    BY <1>2 DEF Commands
  <2>2. memory'[cmd[1].adr] = cmd[1].dat
    <3>1. CASE slv.ack /\ memory' = memory
      BY <1>4, <3>1 DEF ReadWords
    <3>2. CASE memory' = IF cmd[1].we THEN [memory EXCEPT ![cmd[1].adr] = cmd[1].dat] ELSE memory
      BY <1>2, <1>4, <2>1, <3>2
    <3>. QED  BY <1>1, <3>1, <3>2
  <2>. QED  BY <1>3, <1>4, <2>2
<1>5. CASE ~cmd[1].we
  <2>1. 1 \in 1..Len(cmd)
    BY <1>2
  <2>2. Len(cmd) = 1 /\ PendingRd /\ cmd[1].adr = seenBank
    BY <1>5, <2>1 DEF BridgeInv, ReadIsLast, ReadWords
  <2>3. seen' = seen /\ seenBank' = seenBank /\ known = seen
    BY <2>2, WaitKeeps
  <2>4. seenBank \in Addrs
    BY DEF BridgeInv, Types
  <2>5. known[seenBank] = memory[seenBank]
    <3>1. \A j \in 1..Len(cmd) : cmd[j].we => cmd[j].adr # seenBank
      BY <1>5, <2>2
    <3>. QED  BY <2>4, <3>1 DEF Latest, Placed
  <2>6. slv'.dat = seen[seenBank]
    <3>1. CASE slv.ack /\ slv' = slv
      BY <1>5, <3>1 DEF ReadWords
    <3>2. CASE slv'.dat = memory[cmd[1].adr]
      BY <2>2, <2>3, <2>5, <3>2
    <3>. QED  BY <1>1, <3>1, <3>2
  <2>. QED  BY <1>3, <1>5, <2>3, <2>6
<1>. QED  BY <1>4, <1>5

LEMMA ResponseStep ==
  ASSUME Impatient = {}, BridgeInv, AccessStands, BankKnown, Latest, ReadWords,
         NEW h \in BOOLEAN, NEW c \in BOOLEAN, NEW answers \in BOOLEAN, Edge(h, c, answers),
         NEW i \in 1..Len(resp')
  PROVE  resp'[i] = seen'[seenBank']
<1>. DEFINE t == One(h /\ takes)  u == One(c /\ puts)  m == Len(resp)  m2 == Len(resp')
<1>1. /\ t \in {0, 1} /\ u \in {0, 1} /\ m \in Nat /\ m2 = m - t + u
      /\ u = 1 <=> c /\ puts
      /\ \A k \in 1..(m - t) : resp'[k] = resp[k + t]
      /\ c /\ puts => resp'[m2] = slv.dat
  BY QueueStep, QueueFacts DEF One
<1>2. i \in 1..m2
  OBVIOUS
<1>. HIDE DEF t, u, m, m2
<1>3. CASE i <= m - t
  <2>1. i + t \in 1..m /\ resp'[i] = resp[i + t]
    BY <1>1, <1>2, <1>3
  <2>2. resp[i + t] = seen[seenBank]
    BY <2>1 DEF ReadWords, m
  <2>3. PendingRd
    BY <2>1 DEF BridgeInv, ReadIsLast, m
  <2>. QED  BY <2>1, <2>2, <2>3, WaitKeeps
<1>4. CASE i = m2 /\ c /\ puts
  <2>1. resp'[i] = slv.dat /\ slv.ack /\ ~cmd[1].we /\ PendingRd
    BY <1>1, <1>4, QueueFacts DEF puts
  <2>2. slv.dat = seen[seenBank]
    BY <2>1 DEF ReadWords
  <2>. QED  BY <2>1, <2>2, WaitKeeps
<1>. QED  BY <1>1, <1>2, <1>3, <1>4

LEMMA AnswersRightStep ==
  ASSUME Impatient = {}, BridgeInv, AccessStands, BankKnown, ReadWords, AnswersRight,
         NEW h \in BOOLEAN, NEW c \in BOOLEAN, NEW answers \in BOOLEAN, Edge(h, c, answers)
  PROVE  AnswersRight'
<1>1. CASE ~h
  BY <1>1, HostsStill DEF Edge, AnswersRight
<1>2. CASE h
  <2>. SUFFICES ASSUME wb_ack_o', ~wb'.we
                PROVE  wb_dat_o' = IF wb'.to = "bank" THEN seenBank' ELSE seen'[seenBank']
    BY DEF AnswersRight
  <2>1. HostSide
    BY <1>2 DEF Edge
  <2>2. wb_req /\ wb_ack_o1 /\ wb' = wb /\ seen' = seen /\ seenBank' = seenBank
    BY <2>1, AccessKept
  <2>3. wb_dat_o' = IF reg_sel THEN cfg_bank_sel ELSE wbm_dat_o
    BY <2>1, <2>2 DEF HostSide, Answer
  <2>4. CASE reg_sel
    BY <2>2, <2>3, <2>4, PortFacts DEF BridgeInv, BankKnown
  <2>5. CASE ~reg_sel
    <3>1. takes /\ wb.to = "chip"
      BY <2>2, <2>5, PortFacts, WbFacts DEF BridgeInv, wb_ack_o1, wbm_ack_o, takes
    <3>2. Len(resp) = 1 /\ resp \in Seq(Words)
      BY <3>1, QueueFacts DEF BridgeInv, Types, takes
    <3>3. 1 \in 1..Len(resp) /\ wbm_dat_o = resp[1]
      BY <3>2 DEF wbm_dat_o
    <3>4. resp[1] = seen[seenBank]
      BY <3>3 DEF ReadWords
    <3>. QED  BY <2>2, <2>3, <2>5, <3>1, <3>3, <3>4
  <2>. QED  BY <2>4, <2>5
<1>. QED  BY <1>1, <1>2

LEMMA PatientInit == Init => PatientInv
<1>. SUFFICES ASSUME Init PROVE PatientInv
  OBVIOUS
<1>1. cmd = <<>> /\ resp = <<>> /\ PendingRd = FALSE
  BY DEF Init, AsyncWbInit, CmdFifo!Init, RespFifo!Init
<1>2. /\ ~wb_req /\ ~wb_ack_o /\ ~reg_ack /\ cfg_bank_sel = seenBank
      /\ ~slv.ack /\ seen = memory
  BY DEF Init
<1>3. known = memory
  BY <1>2 DEF known
<1>. QED  BY <1>1, <1>2, <1>3 DEF PatientInv, AccessStands, BankKnown, Latest, Placed, ReadWords,
                                  AnswersRight

LEMMA PatientStep == Impatient = {} /\ BridgeInv /\ PatientInv /\ [Next]_vars => PatientInv'
<1>. SUFFICES ASSUME Impatient = {}, BridgeInv, PatientInv, [Next]_vars PROVE PatientInv'
  OBVIOUS
<1>1. CASE Next
  <2>1. PICK h \in BOOLEAN, c \in BOOLEAN, answers \in BOOLEAN : (h \/ c) /\ Edge(h, c, answers)
    BY <1>1, EdgeIs
  <2>. USE DEF PatientInv
  <2>2. AccessStands' /\ BankKnown'
    BY <2>1, AccessStandsStep, BankKnownStep
  <2>3. Latest'
    BY <2>1, LatestStep
  <2>4. ReadWords'
    BY <2>1, ReadAdrStep, AnswerStep, ResponseStep DEF ReadWords
  <2>5. AnswersRight'
    BY <2>1, AnswersRightStep
  <2>. QED  BY <2>2, <2>3, <2>4, <2>5
<1>2. CASE UNCHANGED vars
  <2>1. UNCHANGED <<cmd, resp, PendingRd, slv, memory>>
        /\ UNCHANGED <<hostVars, seen, seenBank, PendingRd>>
    BY <1>2 DEF vars, asyncWbVars, chipVars
  <2>2. /\ wb' = wb /\ reg_sel' = reg_sel /\ known' = known
        /\ UNCHANGED <<wb_req, wb_ack_o, wb_dat_o, reg_ack, cfg_bank_sel, grnt, seen, seenBank,
                        PendingRd>>
    BY <2>1, HostsStill
  <2>. QED  BY <2>1, <2>2 DEF PatientInv, AccessStands, BankKnown, Latest, Placed, ReadWords,
                              AnswersRight
<1>. QED  BY <1>1, <1>2

LEMMA PatientInvariant == Impatient = {} /\ Spec => [](BridgeInv /\ PatientInv)
<1>. SUFFICES ASSUME Impatient = {} PROVE Spec => [](BridgeInv /\ PatientInv)
  OBVIOUS
<1>1. BridgeInv /\ PatientInv /\ [Next]_vars => (BridgeInv /\ PatientInv)'
  BY BridgeStep, PatientStep
<1>. QED  BY <1>1, BridgeInit, PatientInit, PTL DEF Spec

(* Hosts that wait for their answers read what was last written, by either  *)
(* of them, although writes are posted across the clocks (async_wb.sv, line *)
(* 144) and the bank register is written on the way (wb_host.sv, line 420). *)
THEOREM ReadsRight == Impatient = {} /\ Spec => []AnswersRight
<1>1. PatientInv => AnswersRight
  BY DEF PatientInv
<1>. QED  BY <1>1, PatientInvariant, PTL

(* Their writes are acknowledged at once while there is room (async_wb.sv,  *)
(* line 144): no read that nobody waits for stands in the way.              *)
THEOREM WritesFeedThrough == Impatient = {} /\ Spec => []WriteFeedsThrough
<1>1. BridgeInv /\ PatientInv => WriteFeedsThrough
  BY PortFacts DEF BridgeInv, PatientInv, AccessStands, WriteFeedsThrough, wbm_ack_o, m_cmd_wr_en
<1>. QED  BY <1>1, PatientInvariant, PTL

==============================================================================
