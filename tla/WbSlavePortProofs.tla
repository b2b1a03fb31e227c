--------------------------- MODULE WbSlavePortProofs --------------------------
(****************************************************************************)
(* A slave port neither overflows nor underflows its FIFOs, keeps the       *)
(* memory coherent with what the masters were told, and keeps the grant for *)
(* a transfer: for every set of masters, every depth of the FIFOs, every    *)
(* longest burst and all words.                                             *)
(*                                                                          *)
(* A posted write lives in three places: in the command being stored, in    *)
(* the FIFO, and at the slave.  The invariant gives every command its place *)
(* in memory, chains those places through the bursts from the slave's word  *)
(* count to the master's, and says which of them is the latest for a word.  *)
(****************************************************************************)
EXTENDS WbSlavePort, TLAPS

Words == [we : BOOLEAN, bl : Bursts, dat : Data]
here == bus[gnt]
last == Len(cmd)
One(p) == IF p THEN 1 ELSE 0
(* The slave has a transfer whose last word it has not acknowledged.        *)
InTransfer == wbs_stb_l /\ ~wbs_ack_f

MasterTypes ==
  /\ m_state \in {"IDLE", "WRITE_DATA", "READ_DATA"}
  /\ m_cmd_wr_en \in BOOLEAN /\ m_resp_rd_en \in BOOLEAN
  /\ wbm_ack_o \in BOOLEAN /\ wbm_lack_o \in BOOLEAN
  /\ m_bl_cnt \in 0..MaxBurst
  /\ gnt \in Masters /\ bus \in [Masters -> {None} \cup [we : BOOLEAN, bl : Bursts]]
  /\ mbeat \in 0..MaxBurst /\ seen \in [1..MaxBurst -> Data]

SlaveTypes ==
  /\ wbs_ack_f \in BOOLEAN /\ wbs_stb_l \in BOOLEAN /\ wbs_burst \in BOOLEAN
  /\ s_cmd_rd_data_l \in [we : BOOLEAN, bl : 0..MaxBurst, dat : Data]
  /\ slv \in [ack : BOOLEAN, lack : BOOLEAN, dat : Data]
  /\ beat \in 0..MaxBurst /\ memory \in [1..MaxBurst -> Data]

FifoTypes ==
  /\ cmd \in Seq(Words) /\ Len(cmd) <= Depth
  /\ resp \in Seq(Data) /\ Len(resp) <= Depth

(* The master side: what is left and what was acknowledged make the burst;  *)
(* a write is stored in the cycle of its acknowledge, a read before its     *)
(* first; and the cycle the enable is late is accounted for.                *)
MasterHolds ==
  /\ \A m \in Masters \ Active : bus[m] = None
  /\ m_state # "IDLE" \/ wbm_lack_o => here # None /\ mbeat < here.bl
  /\ wbm_lack_o => m_state = "IDLE" /\ wbm_ack_o /\ mbeat + 1 = here.bl
  /\ m_state = "IDLE" /\ ~wbm_lack_o =>
       ~m_cmd_wr_en /\ ~m_resp_rd_en /\ ~wbm_ack_o /\ mbeat = 0
  /\ m_state # "IDLE" => m_bl_cnt >= 1 /\ m_bl_cnt + mbeat + One(wbm_ack_o) = here.bl
  /\ m_state = "WRITE_DATA" => here.we
  /\ m_state = "READ_DATA" => ~here.we
  /\ m_resp_rd_en <=> wbm_ack_o /\ ~here.we
  /\ m_cmd_wr_en /\ here.we <=> wbm_ack_o /\ here.we
  /\ m_cmd_wr_en /\ ~here.we => m_state = "READ_DATA" /\ ~wbm_ack_o /\ mbeat = 0 /\ resp = <<>>
  /\ m_cmd_wr_en => Len(cmd) < Depth

(* The slave side: an acknowledge is for the command on the port, and the   *)
(* slave runs out of commands only within a burst of writes.                *)
SlaveHolds ==
  /\ slv.ack => InTransfer /\ cmd # <<>> /\ (wbs_cmd.we \/ Len(resp) < Depth)
  /\ slv.lack <=> slv.ack /\ beat + 1 = wbs_cmd.bl
  /\ InTransfer =>
       /\ wbs_burst <=> wbs_cmd.bl > 1
       /\ beat < wbs_cmd.bl
       /\ cmd = <<>> => wbs_cmd.we /\ beat > 0
  /\ ~InTransfer => beat = 0 /\ ~slv.ack /\ ~wbs_burst

(* The master is within a burst of writes.                                  *)
MidBurst == mbeat > 0 /\ here.we

(* pos[i] is the place in memory of the i-th command's word: the first is   *)
(* where the slave is, each next one goes on with the burst or begins one,  *)
(* and the last is where the master is.                                     *)
Chain(pos) ==
  /\ cmd # <<>> /\ cmd[1].we => pos[1] = beat + 1
  /\ \A i \in 1..last : cmd[i].we => pos[i] <= cmd[i].bl
  /\ \A i \in 1..(last - 1) :
       /\ cmd[i].we
       /\ IF pos[i] = cmd[i].bl THEN cmd[i + 1].we => pos[i + 1] = 1
          ELSE cmd[i + 1].we /\ cmd[i + 1].bl = cmd[i].bl /\ pos[i + 1] = pos[i] + 1
  /\ IF cmd = <<>>
       THEN IF MidBurst THEN InTransfer /\ beat = mbeat /\ wbs_cmd.bl = here.bl ELSE ~InTransfer
       ELSE IF MidBurst THEN cmd[last].we /\ cmd[last].bl = here.bl /\ pos[last] = mbeat
            ELSE cmd[last].we => pos[last] = cmd[last].bl

(* What the masters believe is the latest write on its way, or the memory.  *)
Latest(pos) ==
  /\ \A i \in 1..last :
       cmd[i].we /\ (\A j \in (i + 1)..last : cmd[j].we => pos[j] # pos[i])
         => seen[pos[i]] = cmd[i].dat
  /\ \A a \in 1..MaxBurst :
       (\A j \in 1..last : cmd[j].we => pos[j] # a) => seen[a] = memory[a]

PlacesHold == \E pos \in [1..last -> Bursts] : Chain(pos) /\ Latest(pos)

(* A read is alone behind the writes before it, and its words are taken, on *)
(* their way or still to be fetched.                                        *)
ReadHolds ==
  /\ \A i \in 1..last :
       ~cmd[i].we => i = last /\ m_state = "READ_DATA" /\ ~m_cmd_wr_en /\ cmd[i].bl = here.bl
  /\ m_state = "READ_DATA" /\ ~m_cmd_wr_en =>
       IF cmd = <<>> THEN mbeat + Len(resp) = here.bl
       ELSE /\ ~cmd[last].we
            /\ IF last = 1 THEN mbeat + Len(resp) = beat ELSE mbeat = 0 /\ resp = <<>>
  /\ wbm_lack_o /\ ~here.we => cmd = <<>> /\ Len(resp) = 1
  /\ wbm_ack_o /\ ~here.we => resp # <<>>
  /\ m_state = "WRITE_DATA" \/ (m_state = "IDLE" /\ (wbm_lack_o => here.we)) => resp = <<>>

(* The words read, on their way and at the slave, are the latest.           *)
WordsRight ==
  /\ \A i \in 1..Len(resp) : resp[i] = seen[mbeat + i]
  /\ slv.ack /\ ~wbs_cmd.we => slv.dat = seen[beat + 1]

Types == MasterTypes /\ SlaveTypes /\ FifoTypes
IInv == Types /\ MasterHolds /\ SlaveHolds /\ PlacesHold /\ ReadHolds /\ WordsRight

(* One clock edge with a given burst ready, answer and word.                *)
Step(ready, answers, d) ==
  /\ BridgeEdge(MasterPort(ready, d), slv)
  /\ Grant /\ MastersMove /\ SlaveMoves(answers) /\ History(d)

------------------------------------------------------------------------------
(* What the FIFOs' shift does in its four cases.                            *)
LEMMA ShiftedFacts ==
  ASSUME NEW S, NEW q \in Seq(S), NEW x, NEW pop \in BOOLEAN, NEW push \in BOOLEAN,
         pop => q # <<>>
  PROVE  /\ ~pop /\ ~push => Shifted(q, pop, push, x) = q
         /\ ~pop /\ push => Shifted(q, pop, push, x) = Append(q, x)
         /\ pop /\ ~push => Shifted(q, pop, push, x) = Tail(q)
         /\ pop /\ push => Shifted(q, pop, push, x) = Append(Tail(q), x)
<1>. DEFINE t == IF pop THEN Tail(q) ELSE q
<1>1. t \in Seq(S \cup {x})
  <2>1. t \in Seq(S)
    OBVIOUS
  <2>. HIDE DEF t
  <2>. QED  BY <2>1
<1>2. Shifted(q, pop, push, x) = t \o (IF push THEN <<x>> ELSE <<>>)
  BY DEF Shifted
<1>. HIDE DEF t
<1>3. CASE push
  <2>1. Shifted(q, pop, push, x) = Append(t, x)
    BY <1>1, <1>2, <1>3
  <2>. QED  BY <2>1, <1>3 DEF t
<1>4. CASE ~push
  <2>1. Shifted(q, pop, push, x) = t
    BY <1>1, <1>2, <1>4
  <2>. QED  BY <2>1, <1>4 DEF t
<1>. QED  BY <1>3, <1>4

(* What the enables of the slave side mean in a reachable state.            *)
LEMMA PopFacts ==
  ASSUME IInv
  PROVE  /\ s_cmd_rd_en(slv) <=> slv.ack /\ (wbs_cmd.we \/ slv.lack)
         /\ s_resp_wr_en(slv) <=> slv.ack /\ ~wbs_cmd.we
         /\ slv.ack => wbs_stb_o /\ InTransfer /\ cmd # <<>> /\ wbs_cmd = cmd[1]
         /\ slv.lack => slv.ack
         /\ wbs_cmd.we \in BOOLEAN /\ wbs_cmd.bl \in 0..MaxBurst /\ wbs_cmd.dat \in Data
         /\ cmd # <<>> => wbs_cmd = cmd[1] /\ wbs_cmd.bl \in Bursts /\ 1 \in 1..last
<1>1. cmd # <<>> => wbs_cmd = cmd[1] /\ cmd[1] \in Words /\ 1 \in 1..last
  BY DEF IInv, Types, FifoTypes, wbs_cmd, last
<1>2. cmd = <<>> => wbs_cmd = s_cmd_rd_data_l
  BY DEF wbs_cmd
<1>3. wbs_cmd.we \in BOOLEAN /\ wbs_cmd.bl \in 0..MaxBurst /\ wbs_cmd.dat \in Data
  BY <1>1, <1>2, SlavePortAssumption DEF IInv, Types, SlaveTypes, Words, Bursts
<1>4. slv.ack \in BOOLEAN /\ slv.lack \in BOOLEAN
  BY DEF IInv, Types, SlaveTypes
<1>5. slv.lack => slv.ack
  BY <1>4 DEF IInv, SlaveHolds
<1>6. slv.ack => wbs_stb_o /\ InTransfer /\ cmd # <<>>
  BY <1>4 DEF IInv, SlaveHolds, wbs_stb_o, InTransfer
<1>. QED  BY <1>1, <1>3, <1>4, <1>5, <1>6 DEF s_cmd_rd_en, s_resp_wr_en, Words

(* The granted master's transfer while the bridge has one.                  *)
LEMMA HereFacts ==
  ASSUME IInv
  PROVE  /\ here \in {None} \cup [we : BOOLEAN, bl : Bursts]
         /\ here.we \in BOOLEAN /\ here.bl \in 0..MaxBurst
         /\ m_cmd_wr_en \/ wbm_ack_o \/ wbm_lack_o \/ m_state # "IDLE" =>
              /\ here \in [we : BOOLEAN, bl : Bursts] /\ here # None
              /\ gnt \in Active /\ mbeat < here.bl
<1>1. here \in {None} \cup [we : BOOLEAN, bl : Bursts] /\ gnt \in Masters
  BY DEF IInv, Types, MasterTypes, here
<1>2. here.we \in BOOLEAN /\ here.bl \in 0..MaxBurst
  <2>1. CASE here = None
    BY <2>1, SlavePortAssumption DEF None
  <2>2. CASE here \in [we : BOOLEAN, bl : Bursts]
    BY <2>2, SlavePortAssumption DEF Bursts
  <2>. QED  BY <1>1, <2>1, <2>2
<1>3. ASSUME m_cmd_wr_en \/ wbm_ack_o \/ wbm_lack_o \/ m_state # "IDLE"
      PROVE  here # None /\ mbeat < here.bl
  BY <1>3 DEF IInv, MasterHolds
<1>4. gnt \notin Active => here = None
  BY <1>1 DEF IInv, MasterHolds, here
<1>. QED  BY <1>1, <1>2, <1>3, <1>4

(* The bridge works for a master that requests.                             *)
LEMMA RequestFacts ==
  ASSUME IInv
  PROVE  /\ m_state # "IDLE" => gnt \in Requests
         /\ \A ready, d : MayStart(MasterPort(ready, d)) => gnt \in Requests
         /\ Requests \subseteq Masters
<1>1. m_state # "IDLE" => here # None /\ gnt \in Active /\ ~wbm_lack_o
  BY HereFacts DEF IInv, MasterHolds
<1>2. ASSUME NEW ready, NEW d, MayStart(MasterPort(ready, d)) PROVE gnt \in Requests
  <2>1. here # None /\ ~wbm_lack_o
    BY <1>2 DEF MayStart, MasterPort, here
  <2>2. gnt \in Active
    BY <2>1 DEF IInv, Types, MasterTypes, MasterHolds, here
  <2>. QED  BY <2>1, <2>2 DEF Requests, here
<1>3. Requests \subseteq Masters
  BY SlavePortAssumption DEF Requests
<1>. QED  BY <1>1, <1>2, <1>3 DEF Requests, here

(* The arbiter grants one of its masters and keeps a grant that is used.    *)
LEMMA NextGrantFacts ==
  ASSUME NEW g \in Masters, NEW r \in SUBSET Masters
  PROVE  Arb!NextGrant(g, r) \in Masters /\ (g \in r => Arb!NextGrant(g, r) = g)
BY DEF Arb!NextGrant, Arb!SearchOrder, Masters

(* Requests stay what they are, and with them the grant.                    *)
LEMMA GrantStep ==
  ASSUME IInv, Grant, MastersMove
  PROVE  /\ gnt' \in Masters
         /\ bus' \in [Masters -> {None} \cup [we : BOOLEAN, bl : Bursts]]
         /\ \A m \in Masters \ Active : bus'[m] = None
         /\ \A m \in Requests : bus'[m] = bus[m]
         /\ gnt \in Requests => gnt' = gnt /\ here' = here
<1>1. gnt \in Masters /\ bus \in [Masters -> {None} \cup [we : BOOLEAN, bl : Bursts]]
  BY DEF IInv, Types, MasterTypes
<1>2. gnt' \in Masters /\ (gnt \in Requests => gnt' = gnt)
  BY <1>1, RequestFacts, NextGrantFacts DEF Grant
<1>3. PICK next \in [Active \ Requests -> {None} \cup AnyTransfer] :
        /\ \A m \in DOMAIN next : next[m] \in {None} \cup Transfers(m)
        /\ bus' = [m \in Masters |-> IF m \in DOMAIN next THEN next[m] ELSE bus[m]]
  BY DEF MastersMove
<1>4. bus' = [m \in Masters |-> IF m \in Active \ Requests THEN next[m] ELSE bus[m]]
  BY <1>3
<1>5. \A m \in Masters : Transfers(m) \subseteq [we : BOOLEAN, bl : Bursts]
  <2>. SUFFICES ASSUME NEW m \in Masters, NEW t \in Transfers(m)
                PROVE  t \in [we : BOOLEAN, bl : Bursts]
    OBVIOUS
  <2>1. (IF m = 0 THEN {1} ELSE Bursts) \subseteq Bursts
    BY SlavePortAssumption DEF Bursts
  <2>. QED  BY <2>1 DEF Transfers
<1>6. \A m \in Active \ Requests : next[m] \in {None} \cup [we : BOOLEAN, bl : Bursts]
  BY <1>3, <1>5, SlavePortAssumption
<1>7. bus' \in [Masters -> {None} \cup [we : BOOLEAN, bl : Bursts]]
  BY <1>1, <1>4, <1>6
<1>8. \A m \in Requests : bus'[m] = bus[m]
  BY <1>4, RequestFacts
<1>9. \A m \in Masters \ Active : bus'[m] = None
  BY <1>4 DEF IInv, MasterHolds
<1>. QED  BY <1>2, <1>7, <1>8, <1>9 DEF here

(* How the FIFOs shift in a clock edge.                                     *)
FifosMove(d) ==
  /\ cmd' \in Seq(Words)
  /\ Len(cmd') = Len(cmd) - One(s_cmd_rd_en(slv)) + One(m_cmd_wr_en)
  /\ \A i \in 1..(Len(cmd) - One(s_cmd_rd_en(slv))) :
       cmd'[i] = cmd[i + One(s_cmd_rd_en(slv))]
  /\ m_cmd_wr_en => cmd'[Len(cmd) - One(s_cmd_rd_en(slv)) + 1]
                      = [we |-> here.we, bl |-> here.bl, dat |-> d]
  /\ resp' \in Seq(Data)
  /\ Len(resp') = Len(resp) - One(m_resp_rd_en) + One(s_resp_wr_en(slv))
  /\ \A i \in 1..(Len(resp) - One(m_resp_rd_en)) :
       resp'[i] = resp[i + One(m_resp_rd_en)]
  /\ s_resp_wr_en(slv) => resp'[Len(resp) - One(m_resp_rd_en) + 1] = slv.dat

(* A clock edge shifts the FIFOs so.                                        *)
LEMMA FifoStep ==
  ASSUME IInv, NEW ready \in BOOLEAN, NEW answers \in BOOLEAN, NEW d \in Data,
         Step(ready, answers, d)
  PROVE  FifosMove(d)
<1>. DEFINE x == Command(MasterPort(ready, d))
            pop == s_cmd_rd_en(slv)
            push == s_resp_wr_en(slv)
<1>1. /\ cmd \in Seq(Words) /\ resp \in Seq(Data)
      /\ m_cmd_wr_en \in BOOLEAN /\ m_resp_rd_en \in BOOLEAN /\ slv.dat \in Data
  BY DEF IInv, Types, MasterTypes, SlaveTypes, FifoTypes
<1>2. /\ cmd' = Shifted(cmd, pop, m_cmd_wr_en, x)
      /\ resp' = Shifted(resp, m_resp_rd_en, push, slv.dat)
  BY DEF Step, BridgeEdge, Fifos
<1>3. x = [we |-> here.we, bl |-> here.bl, dat |-> d]
  BY DEF Command, MasterPort, here
<1>4. m_cmd_wr_en => x \in Words
  BY <1>3, HereFacts DEF Words
<1>5. /\ pop \in BOOLEAN /\ (pop => cmd # <<>>)
      /\ push \in BOOLEAN
  BY PopFacts DEF IInv, Types, SlaveTypes, s_cmd_rd_en, s_resp_wr_en, wbs_stb_o
<1>6. m_resp_rd_en => resp # <<>>
  BY DEF IInv, MasterHolds, ReadHolds
<1>. HIDE DEF x, pop, push
<1>7. /\ cmd' \in Seq(Words)
      /\ Len(cmd') = Len(cmd) - One(pop) + One(m_cmd_wr_en)
      /\ \A i \in 1..(Len(cmd) - One(pop)) : cmd'[i] = cmd[i + One(pop)]
      /\ m_cmd_wr_en => cmd'[Len(cmd) - One(pop) + 1] = x
  <2>1. /\ cmd \in Seq(Words) /\ pop \in BOOLEAN /\ m_cmd_wr_en \in BOOLEAN
        /\ pop => cmd # <<>>
    BY <1>1, <1>5
  <2>2. cmd' = IF pop THEN (IF m_cmd_wr_en THEN Append(Tail(cmd), x) ELSE Tail(cmd))
                      ELSE (IF m_cmd_wr_en THEN Append(cmd, x) ELSE cmd)
    BY ONLY <2>1, <1>2, ShiftedFacts
  <2>. QED  BY <2>2, <1>1, <1>4, <1>5 DEF One
<1>8. /\ resp' \in Seq(Data)
      /\ Len(resp') = Len(resp) - One(m_resp_rd_en) + One(push)
      /\ \A i \in 1..(Len(resp) - One(m_resp_rd_en)) : resp'[i] = resp[i + One(m_resp_rd_en)]
      /\ push => resp'[Len(resp) - One(m_resp_rd_en) + 1] = slv.dat
  <2>1. /\ resp \in Seq(Data) /\ m_resp_rd_en \in BOOLEAN /\ push \in BOOLEAN
        /\ m_resp_rd_en => resp # <<>>
    BY <1>1, <1>5, <1>6
  <2>2. resp' = IF m_resp_rd_en THEN (IF push THEN Append(Tail(resp), slv.dat) ELSE Tail(resp))
                                ELSE (IF push THEN Append(resp, slv.dat) ELSE resp)
    BY ONLY <2>1, <1>2, ShiftedFacts
  <2>. QED  BY <2>2, <1>1, <1>5, <1>6 DEF One
<1>. QED  BY <1>3, <1>7, <1>8 DEF pop, push, FifosMove

(* What the master side does, action by action: it idles, starts a read or  *)
(* a write, acknowledges a word, or waits within a transfer.                *)
Quiet == ~m_cmd_wr_en' /\ ~m_resp_rd_en' /\ ~wbm_ack_o' /\ ~wbm_lack_o'

MasterIdles ==
  /\ m_state = "IDLE" /\ m_state' = "IDLE" /\ Quiet
  /\ m_bl_cnt' = m_bl_cnt /\ mbeat' = 0

Starts ==
  /\ m_state = "IDLE" /\ ~wbm_lack_o /\ RoomForCommand /\ here # None /\ here' = here
  /\ m_cmd_wr_en' /\ ~m_resp_rd_en' /\ mbeat' = 0

ReadStarts ==
  /\ Starts /\ ~here.we
  /\ m_state' = "READ_DATA" /\ ~wbm_ack_o' /\ ~wbm_lack_o' /\ m_bl_cnt' = here.bl

WriteStarts ==
  /\ Starts /\ here.we
  /\ m_state' = IF here.bl = 1 THEN "IDLE" ELSE "WRITE_DATA"
  /\ wbm_ack_o' /\ (wbm_lack_o' <=> here.bl = 1) /\ m_bl_cnt' = here.bl - 1

Beats ==
  /\ m_state' = IF m_bl_cnt = 1 THEN "IDLE" ELSE m_state
  /\ wbm_ack_o' /\ (wbm_lack_o' <=> m_bl_cnt = 1)
  /\ m_bl_cnt' = IF m_bl_cnt = 1 THEN 1 ELSE m_bl_cnt - 1
  /\ here' = here /\ mbeat' = mbeat + One(wbm_ack_o)

WriteBeats ==
  m_state = "WRITE_DATA" /\ RoomForCommand /\ Beats /\ m_cmd_wr_en' /\ ~m_resp_rd_en'

ReadBeats ==
  /\ m_state = "READ_DATA" /\ Len(resp) > One(wbm_ack_o) /\ ~m_cmd_wr_en
  /\ Beats /\ ~m_cmd_wr_en' /\ m_resp_rd_en'

MasterWaits ==
  /\ m_state \in {"WRITE_DATA", "READ_DATA"} /\ m_state' = m_state /\ here' = here /\ Quiet
  /\ m_bl_cnt' = m_bl_cnt /\ mbeat' = mbeat + One(wbm_ack_o)

MasterMove ==
  /\ m_cmd_wr_en' \in BOOLEAN /\ m_resp_rd_en' \in BOOLEAN
  /\ wbm_ack_o' \in BOOLEAN /\ wbm_lack_o' \in BOOLEAN
  /\ MasterIdles \/ ReadStarts \/ WriteStarts \/ WriteBeats \/ ReadBeats \/ MasterWaits

(* A clock edge is one of these moves of the master side.                   *)
LEMMA MasterMoves ==
  ASSUME IInv, NEW ready \in BOOLEAN, NEW answers \in BOOLEAN, NEW d \in Data,
         Step(ready, answers, d)
  PROVE  MasterMove
<1>. DEFINE m == MasterPort(ready, d)
<1>1. /\ m_state \in {"IDLE", "WRITE_DATA", "READ_DATA"}
      /\ wbm_ack_o \in BOOLEAN /\ wbm_lack_o \in BOOLEAN
      /\ m_cmd_wr_en \in BOOLEAN /\ m_resp_rd_en \in BOOLEAN
      /\ resp \in Seq(Data) /\ mbeat \in Nat /\ m_bl_cnt \in Nat
  BY DEF IInv, Types, MasterTypes, FifoTypes
<1>2. mbeat' = IF ~wbm_ack_o THEN mbeat ELSE IF wbm_lack_o THEN 0 ELSE mbeat + 1
  BY DEF Step, History
<1>3. m.we = here.we /\ m.bl = here.bl /\ (m.stb => here # None) /\ here.we \in BOOLEAN
  BY HereFacts DEF MasterPort, here
<1>4. gnt \in Requests => here' = here
  BY GrantStep DEF Step
<1>5. MayStart(m) => here' = here /\ RoomForCommand /\ ~wbm_lack_o /\ here # None
                     /\ m_state = "IDLE"
  BY <1>3, <1>4, RequestFacts DEF MayStart
<1>6. m_state # "IDLE" => here' = here /\ ~wbm_lack_o
  BY <1>4, RequestFacts DEF IInv, MasterHolds
<1>7. m_state = "IDLE" /\ ~wbm_lack_o => ~m_cmd_wr_en /\ ~m_resp_rd_en /\ ~wbm_ack_o /\ mbeat = 0
  BY DEF IInv, MasterHolds
<1>8. m_state = "READ_DATA" /\ m_cmd_wr_en => ~wbm_ack_o /\ resp = <<>>
  BY DEF IInv, MasterHolds
<1>9. m_state = "WRITE_DATA" => ~m_resp_rd_en
  BY DEF IInv, MasterHolds
<1>10. wbm_lack_o => wbm_ack_o
  BY DEF IInv, MasterHolds
<1>. HIDE DEF m
<1>11. CASE StartRead(m)
  BY <1>1, <1>2, <1>3, <1>5, <1>7, <1>11 DEF StartRead, MasterMove, ReadStarts, Starts
<1>12. CASE StartWrite(m)
  BY <1>1, <1>2, <1>3, <1>5, <1>7, <1>12 DEF StartWrite, MasterMove, WriteStarts, Starts
<1>13. CASE IdleWait(m)
  BY <1>1, <1>2, <1>7, <1>10, <1>13 DEF IdleWait, MasterMove, MasterIdles, Quiet
<1>14. CASE WriteData(m)
  <2>1. mbeat' = mbeat + One(wbm_ack_o) /\ here' = here /\ m_state = "WRITE_DATA"
    BY <1>1, <1>2, <1>6, <1>14 DEF WriteData, One
  <2>. QED  BY <2>1, <1>1, <1>6, <1>9, <1>14
       DEF WriteData, AckBeat, MasterMove, WriteBeats, Beats, MasterWaits, Quiet
<1>15. CASE ReadData(m)
  <2>1. mbeat' = mbeat + One(wbm_ack_o) /\ here' = here /\ m_state = "READ_DATA"
    BY <1>1, <1>2, <1>6, <1>15 DEF ReadData, One
  <2>2. CASE ResponseThere /\ m.bry
    <3>1. Len(resp) > One(wbm_ack_o) /\ ~m_cmd_wr_en
      <4>1. wbm_ack_o => resp # <<>>
        BY <2>1 DEF IInv, MasterHolds, ReadHolds
      <4>2. ~m_cmd_wr_en
        BY <1>8, <2>1, <2>2 DEF ResponseThere
      <4>3. CASE wbm_ack_o
        BY SMTT(20), <4>1, <4>2, <4>3, <1>1, <2>2 DEF ResponseThere, One
      <4>4. CASE ~wbm_ack_o
        BY <4>2, <4>4, <1>1, <2>2 DEF ResponseThere, One
      <4>. QED  BY <4>3, <4>4
    <3>. QED  BY <3>1, <2>1, <2>2, <1>1, <1>6, <1>15
         DEF ReadData, AckBeat, MasterMove, ReadBeats, Beats
  <2>3. CASE ~(ResponseThere /\ m.bry)
    BY <2>1, <2>3, <1>1, <1>15 DEF ReadData, MasterMove, MasterWaits, Quiet
  <2>. QED  BY <2>2, <2>3
<1>16. MasterMove
  BY <1>11, <1>12, <1>13, <1>14, <1>15 DEF Step, BridgeEdge, MasterSide, m
<1>. QED  BY <1>16

(* The command at the slave stays of one transfer until its last            *)
(* acknowledge, also when the word on the port is the latched one.          *)
LEMMA CommandKept ==
  ASSUME IInv, NEW ready \in BOOLEAN, NEW answers \in BOOLEAN, NEW d \in Data,
         Step(ready, answers, d), wbs_stb_o, ~slv.lack
  PROVE  wbs_cmd'.we = wbs_cmd.we /\ wbs_cmd'.bl = wbs_cmd.bl
<1>. DEFINE pop == s_cmd_rd_en(slv)
<1>1. PICK pos \in [1..last -> Bursts] : Chain(pos)
  BY DEF IInv, PlacesHold
<1>0. FifosMove(d)
  BY FifoStep
<1>2. /\ last \in Nat /\ (cmd = <<>> <=> last = 0) /\ last' \in Nat
      /\ (cmd' = <<>> <=> last' = 0) /\ last' = last - One(pop) + One(m_cmd_wr_en)
  BY <1>0 DEF FifosMove, IInv, Types, FifoTypes, last
<1>3. /\ last > 0 => wbs_cmd = cmd[1]
      /\ last' > 0 => wbs_cmd' = cmd'[1]
  BY <1>2 DEF wbs_cmd
<1>4. last = 0 => InTransfer /\ wbs_cmd.we
  BY <1>2 DEF wbs_stb_o, IInv, SlaveHolds
<1>5. here.we \in BOOLEAN /\ wbs_cmd.we \in BOOLEAN
  BY HereFacts, PopFacts
<1>6. CASE pop
  <2>1. last > 0 /\ cmd[1].we /\ pos[1] = beat + 1 /\ beat + 1 # cmd[1].bl
    BY <1>1, <1>2, <1>3, <1>6, PopFacts DEF Chain, IInv, SlaveHolds
  <2>2. CASE last > 1
    <3>1. cmd'[1] = cmd[2] /\ last' > 0
      BY <1>2, <1>6, <2>2, <1>0 DEF FifosMove, One, last
    <3>2. cmd[2].we /\ cmd[2].bl = cmd[1].bl
      <4>1. 1 \in 1..(last - 1)
        BY <1>2, <2>2
      <4>. QED  BY <4>1, <2>1, <1>1 DEF Chain
    <3>3. cmd[2].we \in BOOLEAN
      <4>1. cmd[2] \in Words
        BY <1>2, <2>2 DEF IInv, Types, FifoTypes, last
      <4>. QED  BY <4>1 DEF Words
    <3>. QED  BY <3>1, <3>2, <3>3, <1>3, <2>1, <1>5
  <2>3. CASE last = 1 /\ m_cmd_wr_en
    <3>1. cmd'[1] = [we |-> here.we, bl |-> here.bl, dat |-> d] /\ last' > 0
      BY <1>2, <1>6, <2>3, <1>0 DEF FifosMove, One, last
    <3>2. MidBurst /\ cmd[1].bl = here.bl
      BY <1>1, <1>2, <2>1, <2>3 DEF Chain
    <3>3. wbs_cmd'.we = here.we /\ wbs_cmd'.bl = here.bl
      BY <3>1, <1>3
    <3>. QED  BY <3>2, <3>3, <1>2, <1>3, <1>5, <2>1, <2>3 DEF MidBurst
  <2>4. CASE last = 1 /\ ~m_cmd_wr_en
    <3>1. cmd' = <<>>
      BY <1>2, <1>6, <2>4 DEF One
    <3>2. s_cmd_rd_data_l' = wbs_cmd
      BY <1>6 DEF Step, BridgeEdge, SlaveSide
    <3>. QED  BY <3>1, <3>2 DEF wbs_cmd
  <2>. QED  BY <1>2, <2>1, <2>2, <2>3, <2>4
<1>7. CASE ~pop
  <2>1. CASE last > 0
    <3>1. cmd'[1] = cmd[1] /\ last' > 0
      BY <1>2, <1>7, <2>1, <1>0 DEF FifosMove, One, last, IInv, Types, MasterTypes
    <3>. QED  BY <3>1, <2>1, <1>3
  <2>2. CASE last = 0
    <3>1. MidBurst /\ wbs_cmd.bl = here.bl /\ wbs_cmd.we
      BY <1>1, <1>2, <1>4, <2>2 DEF Chain
    <3>2. CASE m_cmd_wr_en
      <4>1. cmd'[1] = [we |-> here.we, bl |-> here.bl, dat |-> d] /\ last' > 0
        BY <1>2, <1>7, <2>2, <3>2, <1>0 DEF FifosMove, One, last
      <4>2. wbs_cmd'.we = here.we /\ wbs_cmd'.bl = here.bl
        BY <4>1, <1>3
      <4>. QED  BY <3>1, <4>2, <1>5 DEF MidBurst
    <3>3. CASE ~m_cmd_wr_en
      <4>1. cmd' = <<>> /\ cmd = <<>>
        BY <1>2, <1>7, <2>2, <3>3 DEF One
      <4>2. s_cmd_rd_data_l' = s_cmd_rd_data_l
        BY <1>7 DEF Step, BridgeEdge, SlaveSide
      <4>. QED  BY <4>1, <4>2 DEF wbs_cmd
    <3>. QED  BY <3>2, <3>3
  <2>. QED  BY <1>2, <2>1, <2>2
<1>. QED  BY <1>6, <1>7

(* What the slave side and the slave do.                                    *)
SlaveMove ==
  /\ wbs_stb_o <=> InTransfer \/ (~wbs_ack_f /\ cmd # <<>>)
  /\ wbs_stb_o \in BOOLEAN /\ wbs_burst' \in BOOLEAN
  /\ wbs_stb_o => beat < wbs_cmd.bl /\ wbs_cmd.bl \in Bursts
  /\ wbs_ack_f' = slv.lack /\ wbs_stb_l' = wbs_stb_o
  /\ InTransfer' <=> wbs_stb_o /\ ~slv.lack
  /\ wbs_burst' <=> wbs_stb_o /\ ~slv.lack /\ wbs_cmd.bl > 1
  /\ beat' = IF slv.lack THEN 0 ELSE beat + One(slv.ack)
  /\ beat' \in 0..MaxBurst /\ (wbs_stb_o => beat' < wbs_cmd.bl)
  /\ ~wbs_stb_o => beat' = 0
  /\ slv' \in [ack : BOOLEAN, lack : BOOLEAN, dat : Data]
  /\ slv'.ack => wbs_stb_o /\ wbs_bry_o(slv) /\ ~slv.lack
  /\ slv'.lack <=> slv'.ack /\ beat' + 1 = wbs_cmd.bl
  /\ slv'.ack /\ ~wbs_cmd.we => slv'.dat = memory[beat' + 1]
  /\ memory' = IF slv.ack /\ wbs_cmd.we
                 THEN [memory EXCEPT ![beat + 1] = wbs_cmd.dat] ELSE memory
  /\ memory' \in [1..MaxBurst -> Data]

(* A clock edge moves the slave side so.                                    *)
LEMMA SlaveFacts ==
  ASSUME IInv, NEW ready \in BOOLEAN, NEW answers \in BOOLEAN, NEW d \in Data,
         Step(ready, answers, d)
  PROVE  SlaveMove
<1>1. /\ wbs_ack_f \in BOOLEAN /\ wbs_stb_l \in BOOLEAN /\ wbs_burst \in BOOLEAN
      /\ slv.ack \in BOOLEAN /\ slv.lack \in BOOLEAN /\ beat \in 0..MaxBurst
      /\ memory \in [1..MaxBurst -> Data] /\ MaxBurst \in Nat /\ Zero \in Data
  BY SlavePortAssumption DEF IInv, Types, SlaveTypes
<1>2. /\ slv.lack <=> slv.ack /\ beat + 1 = wbs_cmd.bl
      /\ slv.ack => InTransfer
      /\ InTransfer => (wbs_burst <=> wbs_cmd.bl > 1) /\ beat < wbs_cmd.bl
      /\ InTransfer /\ cmd = <<>> => wbs_cmd.we /\ beat > 0
      /\ ~InTransfer => beat = 0 /\ ~slv.ack /\ ~wbs_burst
  BY DEF IInv, SlaveHolds
<1>3. /\ wbs_cmd.we \in BOOLEAN /\ wbs_cmd.bl \in 0..MaxBurst /\ wbs_cmd.dat \in Data
      /\ cmd # <<>> => wbs_cmd.bl \in Bursts
  BY PopFacts
<1>4. (wbs_stb_o <=> InTransfer \/ (~wbs_ack_f /\ cmd # <<>>)) /\ wbs_stb_o \in BOOLEAN
  <2>1. InTransfer /\ cmd = <<>> => wbs_burst
    BY <1>1, <1>2, <1>3
  <2>. QED  BY <2>1, <1>1, <1>2 DEF wbs_stb_o, InTransfer
<1>5. wbs_stb_o => beat < wbs_cmd.bl /\ wbs_cmd.bl \in Bursts
  BY <1>1, <1>2, <1>3, <1>4 DEF Bursts
<1>6. /\ wbs_ack_f' = slv.lack /\ wbs_stb_l' = wbs_stb_o
      /\ wbs_burst' = IF ~wbs_stb_l /\ wbs_stb_o /\ wbs_cmd.bl > 1 THEN TRUE
                       ELSE wbs_burst /\ ~slv.lack
  BY DEF Step, BridgeEdge, SlaveSide
<1>7. (InTransfer' <=> wbs_stb_o /\ ~slv.lack) /\ wbs_burst' \in BOOLEAN
  BY <1>1, <1>4, <1>6 DEF InTransfer
<1>8. wbs_burst' <=> wbs_stb_o /\ ~slv.lack /\ wbs_cmd.bl > 1
  <2>1. InTransfer => wbs_stb_l
    BY DEF InTransfer
  <2>2. ~InTransfer /\ wbs_stb_o => ~wbs_stb_l
    BY <1>1, <1>4 DEF InTransfer
  <2>. QED  BY <2>1, <2>2, <1>1, <1>2, <1>4, <1>6
<1>. DEFINE next == IF slv.lack THEN 0 ELSE IF slv.ack THEN beat + 1 ELSE beat
<1>9. /\ beat' = next
      /\ memory' = IF slv.ack /\ wbs_cmd.we
                     THEN [memory EXCEPT ![beat + 1] = wbs_cmd.dat] ELSE memory
      /\ slv' = IF answers /\ SlaveMayAck
                  THEN [ack |-> TRUE, lack |-> next + 1 = wbs_cmd.bl,
                        dat |-> IF wbs_cmd.we THEN Zero ELSE memory[next + 1]]
                  ELSE [ack |-> FALSE, lack |-> FALSE, dat |-> Zero]
  BY DEF Step, SlaveMoves
<1>10. /\ next = IF slv.lack THEN 0 ELSE beat + One(slv.ack)
       /\ next \in 0..MaxBurst /\ (wbs_stb_o => next < wbs_cmd.bl) /\ (~wbs_stb_o => next = 0)
  BY <1>1, <1>2, <1>3, <1>4, <1>5 DEF One
<1>. HIDE DEF next
<1>11. memory' \in [1..MaxBurst -> Data]
  BY <1>1, <1>2, <1>3, <1>9
<1>12. /\ slv' \in [ack : BOOLEAN, lack : BOOLEAN, dat : Data]
       /\ slv'.ack => wbs_stb_o /\ wbs_bry_o(slv) /\ ~slv.lack
       /\ slv'.lack <=> slv'.ack /\ next + 1 = wbs_cmd.bl
       /\ slv'.ack /\ ~wbs_cmd.we => slv'.dat = memory[next + 1]
  <2>1. CASE answers /\ SlaveMayAck
    <3>1. wbs_stb_o /\ wbs_bry_o(slv) /\ ~slv.lack
      BY <2>1 DEF SlaveMayAck
    <3>2. memory[next + 1] \in Data
      BY <3>1, <1>1, <1>3, <1>10
    <3>. QED  BY <2>1, <3>1, <3>2, <1>1, <1>3, <1>9
  <2>2. CASE ~(answers /\ SlaveMayAck)
    BY <2>2, <1>1, <1>9
  <2>. QED  BY <2>1, <2>2
<1>. QED  BY <1>4, <1>5, <1>6, <1>7, <1>8, <1>9, <1>10, <1>11, <1>12 DEF SlaveMove

(* The master side's part of the invariant is kept.                         *)
LEMMA MasterStep ==
  ASSUME IInv, NEW ready \in BOOLEAN, NEW answers \in BOOLEAN, NEW d \in Data,
         Step(ready, answers, d)
  PROVE  MasterTypes' /\ MasterHolds'
<1>1. MasterMove /\ FifosMove(d)
  BY MasterMoves, FifoStep
<1>2. /\ m_state \in {"IDLE", "WRITE_DATA", "READ_DATA"}
      /\ m_cmd_wr_en \in BOOLEAN /\ wbm_ack_o \in BOOLEAN /\ wbm_lack_o \in BOOLEAN
      /\ m_bl_cnt \in 0..MaxBurst /\ mbeat \in 0..MaxBurst /\ seen \in [1..MaxBurst -> Data]
      /\ MaxBurst \in Nat /\ Depth \in Nat /\ Len(cmd) \in Nat /\ Len(cmd) <= Depth
  BY SlavePortAssumption, BridgeDepthAssumption DEF IInv, Types, MasterTypes, FifoTypes
<1>3. /\ here.we \in BOOLEAN /\ here.bl \in 0..MaxBurst
      /\ (here # None => here.bl \in Bursts)
      /\ m_cmd_wr_en \/ wbm_ack_o \/ wbm_lack_o \/ m_state # "IDLE" =>
           here # None /\ mbeat < here.bl
  BY HereFacts
<1>4. /\ gnt' \in Masters
      /\ bus' \in [Masters -> {None} \cup [we : BOOLEAN, bl : Bursts]]
      /\ \A m \in Masters \ Active : bus'[m] = None
  BY GrantStep DEF Step
<1>5. seen' \in [1..MaxBurst -> Data]
  BY <1>2 DEF Step, History
<1>6. RoomForCommand => Len(cmd') < Depth
  <2>1. Len(cmd') = Len(cmd) - One(s_cmd_rd_en(slv)) + One(m_cmd_wr_en)
    BY <1>1 DEF FifosMove
  <2>2. One(s_cmd_rd_en(slv)) \in {0, 1}
    BY DEF One
  <2>3. One(m_cmd_wr_en) = IF m_cmd_wr_en THEN 1 ELSE 0
    BY DEF One
  <2>. QED  BY <1>2, <2>1, <2>2, <2>3 DEF RoomForCommand
<1>7. /\ m_state # "IDLE" => m_bl_cnt >= 1 /\ m_bl_cnt + mbeat + One(wbm_ack_o) = here.bl
      /\ m_state = "WRITE_DATA" => here.we
      /\ m_state = "READ_DATA" => ~here.we
  BY DEF IInv, MasterHolds
<1>8. One(wbm_ack_o) \in {0, 1} /\ (wbm_ack_o' => One(wbm_ack_o)' = 1)
      /\ (~wbm_ack_o' => One(wbm_ack_o)' = 0)
  BY DEF One
<1>9. m_state = "IDLE" /\ ~wbm_lack_o => resp' = <<>>
  <2>1. ASSUME m_state = "IDLE", ~wbm_lack_o PROVE resp' = <<>>
    <3>1. resp = <<>> /\ ~m_resp_rd_en
      BY <2>1 DEF IInv, ReadHolds, MasterHolds
    <3>2. ~s_resp_wr_en(slv)
      <4>1. \A i \in 1..last : cmd[i].we
        BY <2>1 DEF IInv, ReadHolds
      <4>. QED  BY <4>1, PopFacts
    <3>. QED  BY <3>1, <3>2, <1>1 DEF FifosMove, One, IInv, Types, FifoTypes
  <2>. QED  BY <2>1
<1>. USE <1>2, <1>3, <1>4, <1>5, <1>6, <1>7, <1>8, <1>9 DEF MasterTypes, MasterHolds, Bursts
<1>10. /\ m_cmd_wr_en' \in BOOLEAN /\ m_resp_rd_en' \in BOOLEAN
       /\ wbm_ack_o' \in BOOLEAN /\ wbm_lack_o' \in BOOLEAN
  BY <1>1 DEF MasterMove
<1>17. ASSUME Beats, m_state # "IDLE"
       PROVE  /\ m_bl_cnt' \in 0..MaxBurst /\ mbeat' \in 0..MaxBurst /\ mbeat' < here.bl
              /\ (m_bl_cnt = 1 => mbeat' + 1 = here.bl)
              /\ (m_bl_cnt # 1 => m_bl_cnt' >= 1 /\ m_bl_cnt' + mbeat' + 1 = here.bl)
  <2>. DEFINE o == One(wbm_ack_o)
              b == here.bl
  <2>1. /\ m_bl_cnt >= 1 /\ m_bl_cnt + mbeat + o = b /\ o \in {0, 1} /\ b \in 0..MaxBurst
        /\ m_bl_cnt' = (IF m_bl_cnt = 1 THEN 1 ELSE m_bl_cnt - 1) /\ mbeat' = mbeat + o
    BY <1>17, <1>3, <1>7, <1>8 DEF Beats
  <2>. HIDE DEF o, b
  <2>2. /\ m_bl_cnt' \in 0..MaxBurst /\ mbeat' \in 0..MaxBurst /\ mbeat' < b
        /\ (m_bl_cnt = 1 => mbeat' + 1 = b)
        /\ (m_bl_cnt # 1 => m_bl_cnt' >= 1 /\ m_bl_cnt' + mbeat' + 1 = b)
    BY <2>1, <1>2
  <2>. QED  BY <2>2 DEF b
<1>. USE <1>2, <1>3, <1>4, <1>5, <1>6, <1>7, <1>8, <1>9, <1>10 DEF MasterTypes, MasterHolds, Bursts
<1>11. CASE MasterIdles
  BY <1>11 DEF MasterIdles, Quiet
<1>12. CASE ReadStarts
  BY <1>12 DEF ReadStarts, Starts
<1>13. CASE WriteStarts
  <2>1. MasterTypes'
    BY <1>13 DEF WriteStarts, Starts
  <2>2. CASE here.bl = 1
    BY <2>2, <1>13 DEF WriteStarts, Starts
  <2>3. CASE here.bl # 1
    <3>1. m_bl_cnt' >= 1 /\ m_bl_cnt' + mbeat' + 1 = here.bl
      BY <2>3, <1>13 DEF WriteStarts, Starts
    <3>2. /\ m_state' = "WRITE_DATA" /\ wbm_ack_o' /\ ~wbm_lack_o' /\ m_cmd_wr_en'
          /\ ~m_resp_rd_en' /\ mbeat' = 0 /\ here' = here /\ here.we /\ here # None
          /\ Len(cmd') < Depth /\ 0 < here.bl
      BY <2>3, <1>13 DEF WriteStarts, Starts
    <3>. QED  BY ONLY <2>1, <3>1, <3>2, <1>4, <1>8 DEF MasterHolds
  <2>. QED  BY <2>1, <2>2, <2>3
<1>14. CASE WriteBeats
  <2>1. m_bl_cnt' \in 0..MaxBurst /\ mbeat' \in 0..MaxBurst /\ mbeat' < here.bl
        /\ (m_bl_cnt = 1 => mbeat' + 1 = here.bl)
        /\ (m_bl_cnt # 1 => m_bl_cnt' >= 1 /\ m_bl_cnt' + mbeat' + 1 = here.bl)
    BY <1>14, <1>17 DEF WriteBeats
  <2>2. MasterTypes'
    BY <1>14, <2>1 DEF WriteBeats, Beats
  <2>3. MasterHolds'
    BY <1>14, <2>1 DEF WriteBeats, Beats
  <2>. QED  BY <2>2, <2>3
<1>15. CASE ReadBeats
  <2>1. m_bl_cnt' \in 0..MaxBurst /\ mbeat' \in 0..MaxBurst /\ mbeat' < here.bl
        /\ (m_bl_cnt = 1 => mbeat' + 1 = here.bl)
        /\ (m_bl_cnt # 1 => m_bl_cnt' >= 1 /\ m_bl_cnt' + mbeat' + 1 = here.bl)
    BY <1>15, <1>17 DEF ReadBeats
  <2>2. MasterTypes'
    BY <1>15, <2>1 DEF ReadBeats, Beats
  <2>3. MasterHolds'
    BY <1>15, <2>1 DEF ReadBeats, Beats
  <2>. QED  BY <2>2, <2>3
<1>16. CASE MasterWaits
  BY SMTT(20), <1>16 DEF MasterWaits, Quiet
<1>. QED  BY <1>1, <1>11, <1>12, <1>13, <1>14, <1>15, <1>16 DEF MasterMove

(* The slave side's part of the invariant is kept.                          *)
LEMMA SlaveStep ==
  ASSUME IInv, NEW ready \in BOOLEAN, NEW answers \in BOOLEAN, NEW d \in Data,
         Step(ready, answers, d)
  PROVE  SlaveTypes' /\ FifoTypes' /\ SlaveHolds'
<1>1. SlaveMove /\ FifosMove(d)
  BY SlaveFacts, FifoStep
<1>2. /\ cmd \in Seq(Words) /\ resp \in Seq(Data) /\ Len(cmd) \in Nat /\ Len(resp) \in Nat
      /\ Len(cmd) <= Depth /\ Len(resp) <= Depth /\ Depth \in Nat /\ beat \in 0..MaxBurst
      /\ MaxBurst \in Nat /\ slv.ack \in BOOLEAN /\ slv.lack \in BOOLEAN
  BY SlavePortAssumption, BridgeDepthAssumption DEF IInv, Types, FifoTypes, SlaveTypes
<1>3. /\ s_cmd_rd_en(slv) <=> slv.ack /\ (wbs_cmd.we \/ slv.lack)
      /\ s_resp_wr_en(slv) <=> slv.ack /\ ~wbs_cmd.we
      /\ wbs_cmd.we \in BOOLEAN /\ wbs_cmd.bl \in 0..MaxBurst /\ wbs_cmd.dat \in Data
  BY PopFacts
<1>4. /\ slv.ack => InTransfer /\ cmd # <<>> /\ (wbs_cmd.we \/ Len(resp) < Depth)
      /\ InTransfer => (cmd = <<>> => wbs_cmd.we /\ beat > 0)
      /\ m_cmd_wr_en => Len(cmd) < Depth
  BY DEF IInv, SlaveHolds, MasterHolds
<1>. DEFINE pop == One(s_cmd_rd_en(slv))
            push == One(m_cmd_wr_en)
            take == One(m_resp_rd_en)
            put == One(s_resp_wr_en(slv))
<1>5. /\ pop = IF s_cmd_rd_en(slv) THEN 1 ELSE 0
      /\ push \in {0, 1} /\ (push = 1 => Len(cmd) < Depth)
      /\ take \in {0, 1} /\ put = IF s_resp_wr_en(slv) THEN 1 ELSE 0
  BY <1>4 DEF One
<1>6. Len(cmd') = Len(cmd) - pop + push /\ Len(resp') = Len(resp) - take + put
      /\ cmd' \in Seq(Words) /\ resp' \in Seq(Data)
  BY <1>1 DEF FifosMove
<1>. HIDE DEF pop, push, take, put
<1>7. FifoTypes'
  <2>1. Len(cmd') <= Depth
    BY <1>2, <1>5, <1>6
  <2>2. put = 1 => Len(resp) < Depth
    BY <1>3, <1>4, <1>5
  <2>3. Len(resp') <= Depth
    BY <2>2, <1>2, <1>5, <1>6
  <2>. QED  BY <2>1, <2>3, <1>6 DEF FifoTypes
<1>8. s_cmd_rd_data_l' \in [we : BOOLEAN, bl : 0..MaxBurst, dat : Data]
  <2>1. s_cmd_rd_data_l' = IF s_cmd_rd_en(slv) THEN wbs_cmd ELSE s_cmd_rd_data_l
    BY DEF Step, BridgeEdge, SlaveSide
  <2>2. s_cmd_rd_data_l \in [we : BOOLEAN, bl : 0..MaxBurst, dat : Data]
    BY DEF IInv, Types, SlaveTypes
  <2>3. wbs_cmd \in [we : BOOLEAN, bl : 0..MaxBurst, dat : Data]
    <3>1. cmd # <<>> => wbs_cmd \in Words
      BY <1>2 DEF wbs_cmd
    <3>. QED  BY <3>1, <2>2, <1>2 DEF Words, Bursts, wbs_cmd
  <2>. QED  BY <2>1, <2>2, <2>3
<1>9. SlaveTypes'
  BY <1>1, <1>2, <1>8 DEF SlaveMove, SlaveTypes
<1>10. wbs_stb_o /\ ~slv.lack => wbs_cmd'.we = wbs_cmd.we /\ wbs_cmd'.bl = wbs_cmd.bl
  BY CommandKept
<1>11. slv'.ack => cmd' # <<>> /\ (wbs_cmd.we \/ Len(resp') < Depth)
  <2>. SUFFICES ASSUME slv'.ack PROVE cmd' # <<>> /\ (wbs_cmd.we \/ Len(resp') < Depth)
    OBVIOUS
  <2>1. wbs_stb_o /\ wbs_bry_o(slv) /\ ~slv.lack
    BY <1>1 DEF SlaveMove
  <2>2. CASE wbs_cmd.we
    <3>1. Len(cmd) > pop
      <4>1. cmd # <<>> /\ ~(s_cmd_rd_en(slv) /\ Len(cmd) = 1)
        BY <2>1, <2>2 DEF wbs_bry_o
      <4>2. Len(cmd) # 0
        BY <4>1, <1>2
      <4>3. pop = 0 \/ (pop = 1 /\ Len(cmd) # 1)
        BY <4>1, <1>5
      <4>4. \A n \in Nat : n # 0 /\ (pop = 0 \/ (pop = 1 /\ n # 1)) => n > pop
        OBVIOUS
      <4>. QED  BY <4>2, <4>3, <4>4, <1>2
    <3>2. Len(cmd') # 0
      BY <3>1, <1>2, <1>5, <1>6
    <3>. QED  BY <3>2, <2>2
  <2>3. CASE ~wbs_cmd.we
    <3>1. cmd # <<>> /\ pop = 0
      BY <2>1, <2>3, <1>1, <1>3, <1>4, <1>5 DEF SlaveMove
    <3>2. Len(cmd') # 0
      BY <3>1, <1>2, <1>5, <1>6
    <3>3. Len(resp) + put < Depth
      BY <2>1, <2>3, <1>2, <1>5 DEF wbs_bry_o
    <3>4. Len(resp') < Depth
      BY <3>3, <1>2, <1>5, <1>6
    <3>. QED  BY <3>2, <3>4
  <2>. QED  BY <2>2, <2>3, <1>3
<1>12. InTransfer' /\ cmd' = <<>> => wbs_cmd'.we /\ beat' > 0
  <2>. SUFFICES ASSUME InTransfer', cmd' = <<>> PROVE wbs_cmd'.we /\ beat' > 0
    OBVIOUS
  <2>1. wbs_stb_o /\ ~slv.lack /\ beat' = beat + One(slv.ack)
    BY <1>1 DEF SlaveMove
  <2>2. CASE cmd = <<>>
    <3>1. wbs_cmd.we /\ beat > 0
      BY <2>1, <2>2, <1>1, <1>4 DEF SlaveMove
    <3>2. beat' > 0
      BY <3>1, <2>1, <1>2 DEF One
    <3>. QED  BY <3>1, <3>2, <2>1, <1>10
  <2>3. CASE cmd # <<>>
    <3>1. Len(cmd) > 0 /\ Len(cmd') = 0
      BY <2>3, <1>2
    <3>2. pop = 1
      BY <3>1, <1>2, <1>5, <1>6
    <3>3. slv.ack /\ wbs_cmd.we
      BY <3>2, <2>1, <1>3, <1>5
    <3>4. beat' > 0
      BY <3>3, <2>1, <1>2 DEF One
    <3>. QED  BY <3>3, <3>4, <2>1, <1>10
  <2>. QED  BY <2>2, <2>3
<1>13. SlaveHolds'
  <2>1. CASE wbs_stb_o /\ ~slv.lack
    BY <2>1, <1>1, <1>3, <1>10, <1>11, <1>12 DEF SlaveMove, SlaveHolds
  <2>2. CASE ~(wbs_stb_o /\ ~slv.lack)
    <3>1. ~InTransfer' /\ ~slv'.ack /\ ~slv'.lack /\ ~wbs_burst' /\ beat' = 0
      BY <2>2, <1>1 DEF SlaveMove
    <3>. QED  BY <3>1, <1>9 DEF SlaveHolds, SlaveTypes
  <2>. QED  BY <2>1, <2>2
<1>. QED  BY <1>7, <1>9, <1>13

(* Reads: the command, the words on their way and those taken add up.       *)
LEMMA ReadStep ==
  ASSUME IInv, NEW ready \in BOOLEAN, NEW answers \in BOOLEAN, NEW d \in Data,
         Step(ready, answers, d)
  PROVE  ReadHolds'
<1>1. MasterMove /\ SlaveMove /\ FifosMove(d)
  BY MasterMoves, SlaveFacts, FifoStep
<1>2. /\ cmd \in Seq(Words) /\ resp \in Seq(Data) /\ last \in Nat /\ Len(resp) \in Nat
      /\ beat \in 0..MaxBurst /\ MaxBurst \in Nat /\ mbeat \in 0..MaxBurst
      /\ slv.ack \in BOOLEAN /\ slv.lack \in BOOLEAN
      /\ m_state \in {"IDLE", "WRITE_DATA", "READ_DATA"} /\ m_bl_cnt \in Nat
      /\ m_cmd_wr_en \in BOOLEAN /\ wbm_ack_o \in BOOLEAN /\ wbm_lack_o \in BOOLEAN
  BY SlavePortAssumption DEF IInv, Types, FifoTypes, SlaveTypes, MasterTypes, last
<1>3. /\ s_cmd_rd_en(slv) <=> slv.ack /\ (wbs_cmd.we \/ slv.lack)
      /\ s_resp_wr_en(slv) <=> slv.ack /\ ~wbs_cmd.we
      /\ slv.ack => cmd # <<>> /\ wbs_cmd = cmd[1]
      /\ slv.lack => slv.ack
      /\ wbs_cmd.we \in BOOLEAN
  BY PopFacts
<1>4. here.we \in BOOLEAN /\ here.bl \in Nat
  BY HereFacts, SlavePortAssumption
<1>5. /\ \A i \in 1..last : cmd[i].we \in BOOLEAN
      /\ \A i \in 1..last : ~cmd[i].we =>
           i = last /\ m_state = "READ_DATA" /\ ~m_cmd_wr_en /\ cmd[i].bl = here.bl
  <2>1. \A i \in 1..last : cmd[i] \in Words
    BY <1>2 DEF last
  <2>2. \A i \in 1..last : cmd[i].we \in BOOLEAN
    BY <2>1 DEF Words
  <2>. QED  BY <2>2 DEF IInv, ReadHolds
<1>. DEFINE pop == One(s_cmd_rd_en(slv))
            push == One(m_cmd_wr_en)
            take == One(m_resp_rd_en)
            put == One(s_resp_wr_en(slv))
            o == One(wbm_ack_o)
<1>6. /\ pop = IF s_cmd_rd_en(slv) THEN 1 ELSE 0
      /\ push = IF m_cmd_wr_en THEN 1 ELSE 0
      /\ take = IF wbm_ack_o /\ ~here.we THEN 1 ELSE 0
      /\ put = IF s_resp_wr_en(slv) THEN 1 ELSE 0
      /\ o = IF wbm_ack_o THEN 1 ELSE 0
  BY DEF One, IInv, MasterHolds
<1>7. /\ last' = last - pop + push /\ Len(resp') = Len(resp) - take + put
      /\ cmd' \in Seq(Words) /\ resp' \in Seq(Data) /\ last' \in Nat /\ Len(resp') \in Nat
      /\ \A i \in 1..(last - pop) : cmd'[i] = cmd[i + pop]
      /\ m_cmd_wr_en => cmd'[last - pop + 1] = [we |-> here.we, bl |-> here.bl, dat |-> d]
  BY <1>1 DEF FifosMove, last
<1>8. /\ m_state # "IDLE" => m_bl_cnt >= 1 /\ m_bl_cnt + mbeat + o = here.bl
      /\ m_state = "WRITE_DATA" => here.we
      /\ m_state = "READ_DATA" => ~here.we /\ ~wbm_lack_o
      /\ m_state = "READ_DATA" /\ m_cmd_wr_en => ~wbm_ack_o /\ mbeat = 0 /\ resp = <<>>
      /\ m_cmd_wr_en /\ ~here.we => m_state = "READ_DATA"
      /\ slv.lack <=> slv.ack /\ beat + 1 = wbs_cmd.bl
      /\ slv.ack => InTransfer /\ beat < wbs_cmd.bl
      /\ beat' = IF slv.lack THEN 0 ELSE beat + (IF slv.ack THEN 1 ELSE 0)
  BY <1>1 DEF IInv, MasterHolds, SlaveHolds, SlaveMove, One
<1>. HIDE DEF pop, push, take, put, o
(* The commands that are left: those of cmd, then the one being stored.     *)
<1>9. ASSUME NEW i \in 1..last', ~cmd'[i].we
      PROVE  /\ i = last' /\ m_state = "READ_DATA" /\ cmd'[i].bl = here.bl
             /\ m_cmd_wr_en \/ (i + pop = last /\ ~cmd[last].we)
  <2>1. CASE i \in 1..(last - pop)
    <3>1. ~cmd[i + pop].we /\ i + pop \in 1..last /\ cmd'[i].bl = cmd[i + pop].bl
      BY <2>1, <1>2, <1>6, <1>7, <1>9
    <3>2. i + pop = last /\ m_state = "READ_DATA" /\ ~m_cmd_wr_en /\ cmd[i + pop].bl = here.bl
      BY <3>1, <1>5
    <3>. QED  BY <3>1, <3>2, <1>2, <1>6, <1>7
  <2>2. CASE i \notin 1..(last - pop)
    <3>1. m_cmd_wr_en /\ i = last - pop + 1 /\ i = last'
      BY <2>2, <1>2, <1>6, <1>7
    <3>2. cmd'[i] = [we |-> here.we, bl |-> here.bl, dat |-> d]
      BY <3>1, <1>7
    <3>3. ~here.we /\ cmd'[i].bl = here.bl
      BY <3>2, <1>9
    <3>4. m_state = "READ_DATA"
      BY <3>1, <3>3, <1>8
    <3>. QED  BY <3>1, <3>3, <3>4
  <2>. QED  BY <2>1, <2>2
<1>10. PICK pos \in [1..last -> Bursts] : Chain(pos)
  BY DEF IInv, PlacesHold
<1>11. cmd # <<>> => /\ last >= 1 /\ 1 \in 1..last /\ last \in 1..last
                    /\ wbs_cmd = cmd[1] /\ beat < wbs_cmd.bl /\ wbs_cmd.bl \in Nat
  <2>. SUFFICES ASSUME cmd # <<>>
                PROVE  /\ last >= 1 /\ wbs_cmd = cmd[1] /\ beat < wbs_cmd.bl /\ wbs_cmd.bl \in Nat
    BY <1>2
  <2>1. last # 0
    BY <1>2 DEF last
  <2>2. wbs_cmd = cmd[1] /\ wbs_cmd.bl \in Bursts
    BY PopFacts
  <2>3. InTransfer => beat < wbs_cmd.bl
    BY DEF IInv, SlaveHolds
  <2>4. ~InTransfer => beat = 0
    BY DEF IInv, SlaveHolds
  <2>. QED  BY <2>1, <2>2, <2>3, <2>4, <1>2 DEF Bursts
<1>12. /\ m_state # "READ_DATA" \/ m_cmd_wr_en => put = 0
       /\ cmd = <<>> => last = 0 /\ pop = 0 /\ put = 0
  <2>1. slv.ack => 1 \in 1..last
    BY <1>3, <1>11
  <2>2. ASSUME m_state # "READ_DATA" \/ m_cmd_wr_en PROVE put = 0
    BY <2>1, <2>2, <1>3, <1>5, <1>6
  <2>. QED  BY <2>2, <1>2, <1>3, <1>6 DEF last
(* A last acknowledge of a read finds all its words there.                  *)
<1>13. ReadBeats /\ m_bl_cnt = 1 => cmd = <<>>
  <2>. SUFFICES ASSUME ReadBeats, m_bl_cnt = 1, cmd # <<>> PROVE FALSE
    OBVIOUS
  <2>1. m_state = "READ_DATA" /\ ~m_cmd_wr_en /\ Len(resp) > o /\ 1 + mbeat + o = here.bl
    BY <1>8 DEF ReadBeats, o
  <2>2. /\ ~cmd[last].we
        /\ IF last = 1 THEN mbeat + Len(resp) = beat ELSE mbeat = 0 /\ resp = <<>>
    BY <2>1 DEF IInv, ReadHolds
  <2>3. last = 1 /\ mbeat + Len(resp) = beat
    <3>1. resp # <<>>
      BY <2>1, <1>2, <1>6
    <3>. QED  BY <2>2, <3>1
  <2>4. beat < here.bl
    BY <2>2, <2>3, <1>5, <1>11
  <2>. QED  BY <2>1, <2>3, <2>4, <1>2, <1>4, <1>6
<1>14. \A i \in 1..last' :
         ~cmd'[i].we => i = last' /\ m_state' = "READ_DATA" /\ ~m_cmd_wr_en'
                        /\ cmd'[i].bl = here'.bl
  <2>. SUFFICES ASSUME NEW i \in 1..last', ~cmd'[i].we
                PROVE  m_state' = "READ_DATA" /\ ~m_cmd_wr_en' /\ here' = here
    BY <1>9
  <2>1. ReadBeats \/ MasterWaits
    BY <1>1, <1>9 DEF MasterMove, MasterIdles, ReadStarts, WriteStarts, Starts, WriteBeats
  <2>2. CASE MasterWaits
    BY <2>2, <1>9 DEF MasterWaits, Quiet
  <2>3. CASE ReadBeats
    <3>1. cmd # <<>>
      <4>1. i + pop = last
        BY <2>3, <1>9 DEF ReadBeats
      <4>. QED  BY <4>1, <1>2, <1>6, <1>12
    <3>. QED  BY <2>3, <3>1, <1>13 DEF ReadBeats, Beats
  <2>. QED  BY <2>1, <2>2, <2>3
<1>15. wbm_lack_o' /\ ~here'.we => cmd' = <<>> /\ Len(resp') = 1
  <2>. SUFFICES ASSUME wbm_lack_o', ~here'.we PROVE last' = 0 /\ Len(resp') = 1
    BY <1>7 DEF last
  <2>1. ReadBeats /\ m_bl_cnt = 1
    BY <1>1, <1>8 DEF MasterMove, MasterIdles, ReadStarts, WriteStarts, Starts, WriteBeats, Beats,
                      MasterWaits, Quiet, ReadBeats
  <2>2. m_state = "READ_DATA" /\ ~m_cmd_wr_en /\ ~here.we /\ cmd = <<>>
    BY <2>1, <1>8, <1>13 DEF ReadBeats
  <2>3. mbeat + Len(resp) = here.bl
    BY <2>2 DEF IInv, ReadHolds
  <2>4. 1 + mbeat + o = here.bl /\ take = o /\ o \in {0, 1} /\ push = 0
    BY <2>1, <2>2, <1>6, <1>8
  <2>. QED  BY <2>2, <2>3, <2>4, <1>2, <1>4, <1>7, <1>12
<1>16. wbm_ack_o' /\ ~here'.we => resp' # <<>>
  <2>. SUFFICES ASSUME wbm_ack_o', ~here'.we PROVE Len(resp') # 0
    BY <1>7
  <2>1. ReadBeats
    BY <1>1, <1>8 DEF MasterMove, MasterIdles, ReadStarts, WriteStarts, Starts, WriteBeats, Beats,
                      MasterWaits, Quiet
  <2>2. Len(resp) > o /\ take = o /\ o \in {0, 1} /\ put \in {0, 1}
    BY <2>1, <1>6, <1>8 DEF ReadBeats, o
  <2>. QED  BY <2>2, <1>2, <1>7
<1>17. m_state' = "WRITE_DATA" \/ (m_state' = "IDLE" /\ (wbm_lack_o' => here'.we)) => resp' = <<>>
  <2>. SUFFICES ASSUME m_state' = "WRITE_DATA" \/ (m_state' = "IDLE" /\ (wbm_lack_o' => here'.we))
                PROVE  Len(resp') = 0
    BY <1>7
  <2>1. m_state # "READ_DATA"
    BY <1>1, <1>8 DEF MasterMove, MasterIdles, ReadStarts, WriteStarts, Starts, WriteBeats, Beats,
                      MasterWaits, Quiet, ReadBeats
  <2>2. put = 0
    BY <2>1, <1>12
  <2>3. CASE m_state = "IDLE" /\ wbm_lack_o /\ ~here.we
    <3>1. Len(resp) = 1 /\ wbm_ack_o
      BY <2>3 DEF IInv, ReadHolds, MasterHolds
    <3>. QED  BY <2>2, <2>3, <3>1, <1>6, <1>7
  <2>4. CASE ~(m_state = "IDLE" /\ wbm_lack_o /\ ~here.we)
    <3>1. resp = <<>>
      BY <2>1, <2>4, <1>2 DEF IInv, ReadHolds
    <3>2. take = 0
      BY <3>1, <1>6 DEF IInv, ReadHolds
    <3>. QED  BY <2>2, <3>1, <3>2, <1>2, <1>7
  <2>. QED  BY <2>3, <2>4
(* A write that leaves the FIFO in front of a read is the last word of its  *)
(* transfer.                                                                *)
<1>18. ASSUME last = 0 \/ (pop = 1 /\ cmd[1].we /\ last = 1 /\ m_cmd_wr_en)
                       \/ (pop = 1 /\ cmd[1].we /\ last = 2 /\ ~cmd[2].we), ~here.we
       PROVE  beat' = 0
  <2>1. ~MidBurst
    BY <1>18 DEF MidBurst
  <2>2. CASE last = 0
    <3>1. ~InTransfer
      BY <2>1, <2>2, <1>2, <1>10 DEF Chain, last
    <3>. QED  BY <3>1, <1>8 DEF IInv, SlaveHolds
  <2>3. CASE last # 0
    <3>1. cmd # <<>> /\ pos[1] = beat + 1 /\ pos[1] = cmd[1].bl
      <4>1. cmd # <<>> /\ pos[1] = beat + 1
        BY <2>3, <1>10, <1>18 DEF Chain, last
      <4>2. CASE last = 1
        BY <2>1, <4>1, <4>2, <1>10, <1>18 DEF Chain
      <4>3. CASE last = 2
        <5>1. 1 \in 1..(last - 1)
          BY <4>3
        <5>. QED  BY <5>1, <4>1, <4>3, <1>10, <1>18 DEF Chain
      <4>. QED  BY <4>1, <4>2, <4>3, <2>3, <1>18
    <3>2. slv.lack
      BY <2>3, <3>1, <1>3, <1>6, <1>8, <1>18
    <3>. QED  BY <3>2, <1>8
  <2>. QED  BY <2>2, <2>3
<1>19. m_state' = "READ_DATA" /\ ~m_cmd_wr_en' =>
         IF cmd' = <<>> THEN mbeat' + Len(resp') = here'.bl
         ELSE /\ ~cmd'[last'].we
              /\ IF last' = 1 THEN mbeat' + Len(resp') = beat' ELSE mbeat' = 0 /\ resp' = <<>>
  <2>. SUFFICES ASSUME m_state' = "READ_DATA", ~m_cmd_wr_en'
                PROVE  IF last' = 0 THEN mbeat' + Len(resp') = here.bl
                       ELSE /\ ~cmd'[last'].we
                            /\ IF last' = 1 THEN mbeat' + Len(resp') = beat'
                               ELSE mbeat' = 0 /\ resp' = <<>>
    <3>1. ASSUME m_state' = "READ_DATA", ~m_cmd_wr_en' PROVE here' = here
      BY <1>1, <3>1 DEF MasterMove, MasterIdles, ReadStarts, WriteStarts, Starts, WriteBeats, Beats,
                        MasterWaits, ReadBeats
    <3>2. cmd' = <<>> <=> last' = 0
      BY <1>7 DEF last
    <3>3. m_state' = "READ_DATA" /\ ~m_cmd_wr_en' => here'.bl = here.bl
      BY <3>1
    <3>. QED  BY <3>2, <3>3
  <2>1. /\ m_state = "READ_DATA" /\ mbeat' = mbeat + o /\ (m_cmd_wr_en => MasterWaits)
        /\ ~here.we /\ take = o /\ o \in {0, 1}
    BY <1>1, <1>6, <1>8 DEF MasterMove, MasterIdles, ReadStarts, WriteStarts, Starts, WriteBeats,
                       Beats, MasterWaits, Quiet, ReadBeats, o
  <2>2. CASE m_cmd_wr_en
    <3>1. mbeat' = 0 /\ Len(resp') = 0 /\ last' = last - pop + 1 /\ pop \in {0, 1} /\ last' >= 1
      <4>1. o = 0 /\ mbeat = 0 /\ Len(resp) = 0 /\ put = 0 /\ push = 1
        BY <2>1, <2>2, <1>2, <1>6, <1>8, <1>12
      <4>2. mbeat' = mbeat + o /\ take = o /\ Len(resp') = Len(resp) - take + put
            /\ last' = last - pop + push
        BY <2>1, <1>7
      <4>3. pop \in {0, 1} /\ (last = 0 => pop = 0)
        BY <1>2, <1>6, <1>12 DEF last
      <4>4. mbeat' = 0 /\ Len(resp') = 0
        BY ONLY <4>1, <4>2
      <4>. QED  BY ONLY <4>1, <4>2, <4>3, <4>4, <1>2
    <3>2. ~cmd'[last'].we
      BY <2>1, <2>2, <3>1, <1>2, <1>7
    <3>3. last' = 1 => beat' = 0
      <4>1. last' = 1 => last = 0 \/ (pop = 1 /\ last = 1)
        BY <3>1, <1>2
      <4>2. last = 1 => cmd[1].we
        BY <2>2, <1>5
      <4>. QED  BY <4>1, <4>2, <2>1, <2>2, <1>18
    <3>. QED  BY <3>1, <3>2, <3>3, <1>7
  <2>3. CASE ~m_cmd_wr_en /\ cmd = <<>>
    <3>1. last' = 0 /\ put = 0
      BY <2>3, <1>6, <1>7, <1>12
    <3>2. mbeat + Len(resp) = here.bl
      BY <2>1, <2>3 DEF IInv, ReadHolds
    <3>. QED  BY <2>1, <3>1, <3>2, <1>2, <1>4, <1>7
  <2>4. CASE ~m_cmd_wr_en /\ cmd # <<>>
    <3>1. /\ ~cmd[last].we /\ push = 0
          /\ IF last = 1 THEN mbeat + Len(resp) = beat ELSE mbeat = 0 /\ resp = <<>>
      BY <2>1, <2>4, <1>6 DEF IInv, ReadHolds
    <3>2. CASE last = 1
      <4>1. ~wbs_cmd.we /\ wbs_cmd.bl = here.bl /\ put = (IF slv.ack THEN 1 ELSE 0)
            /\ pop = (IF slv.lack THEN 1 ELSE 0)
        BY <2>4, <3>1, <3>2, <1>3, <1>5, <1>6, <1>11
      <4>2. mbeat' + Len(resp') = beat + put
        <5>1. mbeat' = mbeat + o /\ take = o /\ Len(resp') = Len(resp) - take + put
              /\ mbeat + Len(resp) = beat /\ o \in {0, 1} /\ put \in {0, 1}
          BY <2>1, <3>1, <3>2, <1>6, <1>7
        <5>2. mbeat \in Nat /\ Len(resp) \in Nat /\ beat \in Nat
          BY <1>2
        <5>. QED  BY ONLY <5>1, <5>2
      <4>3. CASE slv.lack
        <5>1. last' = 0 /\ put = 1
          BY <3>1, <3>2, <4>1, <4>3, <1>3, <1>7
        <5>2. beat + 1 = here.bl
          BY <4>1, <4>3, <1>8
        <5>. QED  BY <4>2, <5>1, <5>2
      <4>4. CASE ~slv.lack
        <5>1. last' = 1 /\ cmd'[1] = cmd[1]
          BY <3>1, <3>2, <4>1, <4>4, <1>7
        <5>2. beat' = beat + put
          BY <4>1, <4>4, <1>8
        <5>. QED  BY <3>1, <3>2, <4>2, <5>1, <5>2
      <4>. QED  BY <4>3, <4>4
    <3>3. CASE last # 1
      <4>1. mbeat = 0 /\ Len(resp) = 0 /\ o = 0 /\ last >= 2 /\ pop \in {0, 1}
        <5>1. o = 0
          BY <2>1, <3>1, <3>3, <1>6 DEF IInv, ReadHolds
        <5>. QED  BY <5>1, <2>4, <3>1, <3>3, <1>2, <1>6, <1>11
      <4>2. cmd[1].we /\ put = 0
        BY <2>4, <3>3, <1>3, <1>5, <1>6, <1>11
      <4>3. mbeat' = 0 /\ Len(resp') = 0 /\ last' = last - pop /\ last' >= 1
        <5>1. mbeat' = mbeat + o /\ take = o /\ Len(resp') = Len(resp) - take + put
              /\ last' = last - pop + push /\ push = 0
          BY <2>1, <3>1, <1>7
        <5>. QED  BY ONLY <5>1, <4>1, <4>2, <1>2
      <4>4. cmd'[last'] = cmd[last]
        <5>1. last' \in 1..(last - pop) /\ last' + pop = last
          BY <4>1, <4>3, <1>2
        <5>. QED  BY <5>1, <1>7
      <4>5. last' = 1 => beat' = 0
        <5>1. last' = 1 => pop = 1 /\ last = 2
          BY <4>1, <4>3, <1>2
        <5>. QED  BY <5>1, <2>1, <3>1, <4>2, <1>18
      <4>. QED  BY <3>1, <4>3, <4>4, <4>5, <1>7
    <3>. QED  BY <3>2, <3>3
  <2>. QED  BY <2>2, <2>3, <2>4
<1>. QED  BY <1>14, <1>15, <1>16, <1>17, <1>19 DEF ReadHolds

(* The commands in a clock edge: the head may be read, one may be stored,   *)
(* and what the slave acknowledges is the head.                             *)
gone == One(s_cmd_rd_en(slv))

CommandsMove(d) ==
  /\ last \in Nat /\ last' \in Nat /\ gone \in {0, 1} /\ gone <= last
  /\ (cmd = <<>> <=> last = 0) /\ (cmd' = <<>> <=> last' = 0)
  /\ last' = IF m_cmd_wr_en THEN last - gone + 1 ELSE last - gone
  /\ \A i \in 1..(last - gone) : cmd'[i] = cmd[i + gone]
  /\ m_cmd_wr_en => cmd'[last'].we = here.we /\ cmd'[last'].bl = here.bl /\ cmd'[last'].dat = d
  /\ \A i \in 1..last : cmd[i].we \in BOOLEAN /\ cmd[i].bl \in Bursts
  /\ slv.ack => last > 0
  /\ gone = 1 <=> slv.ack /\ (cmd[1].we \/ slv.lack)
  /\ last > 0 => (slv.lack <=> slv.ack /\ beat + 1 = cmd[1].bl)
  /\ beat' = IF slv.lack THEN 0 ELSE IF slv.ack THEN beat + 1 ELSE beat
  /\ slv.ack \in BOOLEAN /\ slv.lack \in BOOLEAN /\ (slv.lack => slv.ack)

(* A clock edge moves the commands so.                                      *)
LEMMA CommandStep ==
  ASSUME IInv, NEW ready \in BOOLEAN, NEW answers \in BOOLEAN, NEW d \in Data,
         Step(ready, answers, d)
  PROVE  CommandsMove(d)
<1>1. FifosMove(d) /\ SlaveMove
  BY FifoStep, SlaveFacts
<1>2. cmd \in Seq(Words) /\ m_cmd_wr_en \in BOOLEAN /\ slv.ack \in BOOLEAN /\ slv.lack \in BOOLEAN
  BY DEF IInv, Types, FifoTypes, MasterTypes, SlaveTypes
<1>3. /\ s_cmd_rd_en(slv) <=> slv.ack /\ (wbs_cmd.we \/ slv.lack)
      /\ slv.ack => cmd # <<>>
      /\ slv.lack => slv.ack
      /\ cmd # <<>> => wbs_cmd = cmd[1]
  BY PopFacts
<1>4. last \in Nat /\ (cmd = <<>> <=> last = 0) /\ last' \in Nat /\ (cmd' = <<>> <=> last' = 0)
  BY <1>1, <1>2 DEF FifosMove, last
<1>5. gone \in {0, 1} /\ (gone = 1 <=> slv.ack /\ (cmd[1].we \/ slv.lack)) /\ gone <= last
  BY <1>3, <1>4 DEF gone, One
<1>6. \A i \in 1..last : cmd[i].we \in BOOLEAN /\ cmd[i].bl \in Bursts
  <2>1. \A i \in 1..last : cmd[i] \in Words
    BY <1>2 DEF last
  <2>. QED  BY <2>1 DEF Words
<1>7. /\ last' = IF m_cmd_wr_en THEN last - gone + 1 ELSE last - gone
      /\ \A i \in 1..(last - gone) : cmd'[i] = cmd[i + gone]
      /\ m_cmd_wr_en => cmd'[last'] = [we |-> here.we, bl |-> here.bl, dat |-> d]
  <2>1. /\ last' = last - gone + One(m_cmd_wr_en)
        /\ \A i \in 1..(last - gone) : cmd'[i] = cmd[i + gone]
        /\ m_cmd_wr_en => cmd'[last - gone + 1] = [we |-> here.we, bl |-> here.bl, dat |-> d]
    BY <1>1 DEF FifosMove, last, gone
  <2>. QED  BY <2>1, <1>4, <1>5 DEF One
<1>8. last > 0 => (slv.lack <=> slv.ack /\ beat + 1 = cmd[1].bl)
  BY <1>3, <1>4 DEF IInv, SlaveHolds
<1>9. beat' = IF slv.lack THEN 0 ELSE IF slv.ack THEN beat + 1 ELSE beat
  BY <1>1, SlavePortAssumption DEF SlaveMove, One, IInv, Types, SlaveTypes
<1>10. slv.ack => last > 0
  BY <1>3, <1>4
<1>11. m_cmd_wr_en => cmd'[last'].we = here.we /\ cmd'[last'].bl = here.bl /\ cmd'[last'].dat = d
  BY <1>7
<1>. QED
  BY <1>2, <1>3, <1>4, <1>5, <1>6, <1>7, <1>8, <1>9, <1>10, <1>11 DEF CommandsMove

(* Which word of a burst of writes the master is at, in a clock edge.       *)
BurstMoves(d) ==
  /\ mbeat \in Nat /\ mbeat' \in Nat
  /\ MidBurst => mbeat > 0 /\ here.we /\ mbeat < here.bl
  /\ m_cmd_wr_en => mbeat < here.bl /\ here.bl \in Bursts /\ (~MidBurst => mbeat = 0)
  /\ ~m_cmd_wr_en => (MidBurst' <=> MidBurst) /\ (MidBurst => mbeat' = mbeat /\ here' = here)
  /\ m_cmd_wr_en /\ here.we =>
       IF MidBurst' THEN mbeat' = mbeat + 1 /\ here' = here ELSE mbeat + 1 = here.bl
  /\ m_cmd_wr_en /\ ~here.we => ~MidBurst' /\ ~MidBurst
  /\ seen' = IF m_cmd_wr_en /\ here.we THEN [seen EXCEPT ![mbeat + 1] = d] ELSE seen

(* A clock edge moves the burst so.                                         *)
LEMMA BurstStep ==
  ASSUME IInv, NEW ready \in BOOLEAN, NEW answers \in BOOLEAN, NEW d \in Data,
         Step(ready, answers, d)
  PROVE  BurstMoves(d)
<1>1. MasterMove
  BY MasterMoves
<1>2. /\ m_state \in {"IDLE", "WRITE_DATA", "READ_DATA"} /\ mbeat \in Nat
      /\ m_cmd_wr_en \in BOOLEAN /\ wbm_ack_o \in BOOLEAN /\ wbm_lack_o \in BOOLEAN
      /\ here.we \in BOOLEAN /\ here.bl \in 0..MaxBurst /\ MaxBurst \in Nat
  BY HereFacts, SlavePortAssumption DEF IInv, Types, MasterTypes
<1>3. /\ m_state # "IDLE" \/ wbm_lack_o \/ m_cmd_wr_en => mbeat < here.bl
      /\ wbm_lack_o => m_state = "IDLE" /\ wbm_ack_o /\ mbeat + 1 = here.bl
      /\ m_state = "IDLE" /\ ~wbm_lack_o => ~m_cmd_wr_en /\ ~wbm_ack_o /\ mbeat = 0
      /\ m_cmd_wr_en /\ here.we <=> wbm_ack_o /\ here.we
      /\ m_cmd_wr_en /\ ~here.we => m_state = "READ_DATA" /\ ~wbm_ack_o /\ mbeat = 0
  BY DEF IInv, MasterHolds
<1>4. MidBurst <=> mbeat > 0 /\ here.we
  BY DEF MidBurst
<1>5. MidBurst' <=> mbeat' > 0 /\ here'.we
  BY DEF MidBurst
<1>6. /\ MidBurst => mbeat > 0 /\ here.we /\ mbeat < here.bl
      /\ m_cmd_wr_en => mbeat < here.bl /\ here.bl \in Bursts /\ (~MidBurst => mbeat = 0)
  BY <1>2, <1>3, <1>4 DEF Bursts
<1>7. /\ mbeat' \in Nat
      /\ ~m_cmd_wr_en => (MidBurst' <=> MidBurst) /\ (MidBurst => mbeat' = mbeat /\ here' = here)
      /\ m_cmd_wr_en /\ here.we =>
           IF MidBurst' THEN mbeat' = mbeat + 1 /\ here' = here ELSE mbeat + 1 = here.bl
      /\ m_cmd_wr_en /\ ~here.we => ~MidBurst' /\ ~MidBurst
  <2>1. \/ mbeat' = 0 /\ m_state = "IDLE"
        \/ here' = here /\ mbeat' = mbeat + One(wbm_ack_o)
    <3>1. MasterIdles \/ Starts => mbeat' = 0 /\ m_state = "IDLE"
      BY DEF MasterIdles, Starts
    <3>2. Beats \/ MasterWaits => here' = here /\ mbeat' = mbeat + One(wbm_ack_o)
      BY DEF Beats, MasterWaits
    <3>3. MasterIdles \/ Starts \/ Beats \/ MasterWaits
      BY <1>1 DEF MasterMove, ReadStarts, WriteStarts, WriteBeats, ReadBeats
    <3>. QED  BY <3>1, <3>2, <3>3
  <2>2. CASE mbeat' = 0 /\ m_state = "IDLE"
    BY <2>2, <1>2, <1>3, <1>4, <1>5
  <2>3. CASE here' = here /\ mbeat' = mbeat + 1 /\ wbm_ack_o
    BY <2>3, <1>2, <1>3, <1>4, <1>5
  <2>4. CASE here' = here /\ mbeat' = mbeat /\ ~wbm_ack_o
    BY <2>4, <1>2, <1>3, <1>4, <1>5
  <2>. QED  BY <2>1, <2>2, <2>3, <2>4, <1>2 DEF One
<1>8. seen' = IF m_cmd_wr_en /\ here.we THEN [seen EXCEPT ![mbeat + 1] = d] ELSE seen
  BY <1>3 DEF Step, History, here
<1>. QED  BY <1>2, <1>6, <1>7, <1>8 DEF BurstMoves

(* The place of each word after a clock edge: those left keep theirs, the   *)
(* one stored is the granted transfer's next.                               *)
Placed(pos, q) ==
  /\ q \in [1..last' -> Bursts]
  /\ \A i \in 1..(last - gone) : q[i] = pos[i + gone]
  /\ m_cmd_wr_en => q[last'] = mbeat + 1

(* The chain of places goes on, whichever of its ends moves.                *)
LEMMA ChainStep ==
  ASSUME IInv, NEW ready \in BOOLEAN, NEW answers \in BOOLEAN, NEW d \in Data,
         Step(ready, answers, d),
         NEW pos \in [1..last -> Bursts], Chain(pos), NEW q, Placed(pos, q)
  PROVE  Chain(q)'
<1>1. CommandsMove(d) /\ BurstMoves(d)
  BY CommandStep, BurstStep
<1>2. /\ last \in Nat /\ last' \in Nat /\ gone \in {0, 1} /\ gone <= last
      /\ (cmd = <<>> <=> last = 0) /\ (cmd' = <<>> <=> last' = 0)
      /\ beat \in Nat /\ mbeat \in Nat /\ m_cmd_wr_en \in BOOLEAN
      /\ here.we \in BOOLEAN /\ slv.ack \in BOOLEAN /\ slv.lack \in BOOLEAN
      /\ MidBurst \in BOOLEAN
  <2>1. /\ beat \in Nat /\ mbeat \in Nat /\ m_cmd_wr_en \in BOOLEAN
        /\ slv.ack \in BOOLEAN /\ slv.lack \in BOOLEAN
    BY SlavePortAssumption DEF IInv, Types, MasterTypes, SlaveTypes
  <2>. QED  BY <2>1, <1>1, HereFacts DEF CommandsMove, MidBurst
<1>3. /\ cmd # <<>> /\ cmd[1].we => pos[1] = beat + 1
      /\ \A i \in 1..last : cmd[i].we => pos[i] <= cmd[i].bl
      /\ \A i \in 1..(last - 1) :
           /\ cmd[i].we
           /\ IF pos[i] = cmd[i].bl THEN cmd[i + 1].we => pos[i + 1] = 1
              ELSE cmd[i + 1].we /\ cmd[i + 1].bl = cmd[i].bl /\ pos[i + 1] = pos[i] + 1
  BY DEF Chain
<1>4. IF cmd = <<>>
        THEN IF MidBurst THEN InTransfer /\ beat = mbeat /\ wbs_cmd.bl = here.bl ELSE ~InTransfer
        ELSE IF MidBurst THEN cmd[last].we /\ cmd[last].bl = here.bl /\ pos[last] = mbeat
             ELSE cmd[last].we => pos[last] = cmd[last].bl
  BY DEF Chain
<1>5. /\ \A i \in 1..(last - gone) : q[i] = pos[i + gone] /\ cmd'[i] = cmd[i + gone]
      /\ last' = IF m_cmd_wr_en THEN last - gone + 1 ELSE last - gone
      /\ m_cmd_wr_en => q[last'] = mbeat + 1 /\ cmd'[last'].we = here.we
                        /\ cmd'[last'].bl = here.bl
      /\ \A i \in 1..last : pos[i] \in Nat /\ cmd[i].we \in BOOLEAN /\ cmd[i].bl \in Nat
  BY <1>1, SlavePortAssumption DEF CommandsMove, Placed, Bursts
<1>6. /\ m_cmd_wr_en => \A i \in 1..last : cmd[i].we
      /\ MidBurst => mbeat > 0 /\ here.we /\ mbeat < here.bl
      /\ m_cmd_wr_en => mbeat < here.bl /\ (~MidBurst => mbeat = 0)
      /\ here.bl \in Nat
  BY <1>1, HereFacts, SlavePortAssumption DEF IInv, ReadHolds, BurstMoves
<1>7. /\ gone = 1 <=> slv.ack /\ (cmd[1].we \/ slv.lack)
      /\ last > 0 => (slv.lack <=> slv.ack /\ beat + 1 = cmd[1].bl)
      /\ beat' = IF slv.lack THEN 0 ELSE IF slv.ack THEN beat + 1 ELSE beat
      /\ slv.ack => last > 0
      /\ slv.lack => slv.ack
  BY <1>1 DEF CommandsMove
(* The first command left, or the one being stored, goes where the slave is. *)
<1>8. cmd' # <<>> /\ cmd'[1].we => q[1] = beat' + 1
  <2>. SUFFICES ASSUME last' > 0, cmd'[1].we PROVE q[1] = beat' + 1
    BY <1>2
  <2>1. CASE last - gone > 0 /\ gone = 0
    <3>1. 1 \in 1..(last - gone) /\ 1 \in 1..last /\ 1 + gone = 1
      BY <2>1, <1>2
    <3>2. q[1] = pos[1] /\ cmd'[1] = cmd[1]
      BY <3>1, <1>5
    <3>3. ~slv.ack /\ ~slv.lack
      BY <3>2, <2>1, <1>7
    <3>. QED  BY <3>2, <3>3, <2>1, <1>2, <1>3, <1>7
  <2>2. CASE last - gone > 0 /\ gone = 1
    <3>1. 1 \in 1..(last - gone) /\ 1 \in 1..(last - 1) /\ 1 \in 1..last /\ 1 + gone = 2
          /\ 2 \in 1..last
      BY <2>2, <1>2
    <3>2. q[1] = pos[2] /\ cmd'[1] = cmd[2] /\ pos[1] = beat + 1 /\ cmd[1].we
      BY <3>1, <1>2, <1>3, <1>5
    <3>3. CASE pos[1] = cmd[1].bl
      <4>1. slv.lack /\ pos[2] = 1
        BY <3>1, <3>2, <3>3, <2>2, <1>3, <1>7
      <4>. QED  BY <4>1, <3>2, <1>7
    <3>4. CASE pos[1] # cmd[1].bl
      <4>1. ~slv.lack /\ slv.ack /\ pos[2] = pos[1] + 1
        BY <3>1, <3>2, <3>4, <2>2, <1>3, <1>7
      <4>. QED  BY <4>1, <3>2, <1>7
    <3>. QED  BY <3>3, <3>4
  <2>3. CASE last - gone = 0
    <3>1. m_cmd_wr_en /\ last' = 1 /\ q[1] = mbeat + 1 /\ here.we
      BY <2>3, <1>5
    <3>2. CASE last = 0
      <4>1. ~slv.ack /\ ~slv.lack /\ beat' = beat
        BY <3>2, <1>7
      <4>2. beat = mbeat
        <5>1. CASE MidBurst
          BY <5>1, <3>2, <1>2, <1>4
        <5>2. CASE ~MidBurst
          <6>1. ~InTransfer /\ mbeat = 0
            BY <5>2, <3>1, <3>2, <1>2, <1>4, <1>6
          <6>. QED  BY <6>1 DEF IInv, SlaveHolds
        <5>. QED  BY <5>1, <5>2
      <4>. QED  BY <4>1, <4>2, <3>1
    <3>3. CASE last = 1
      <4>1. gone = 1 /\ 1 \in 1..last /\ cmd[1].we /\ pos[1] = beat + 1 /\ slv.ack
        BY <3>1, <3>3, <2>3, <1>2, <1>3, <1>6, <1>7
      <4>2. CASE MidBurst
        <5>1. cmd[1].bl = here.bl /\ pos[1] = mbeat
          BY <4>2, <3>3, <1>2, <1>4
        <5>2. ~slv.lack
          BY <5>1, <4>1, <4>2, <3>3, <1>6, <1>7
        <5>. QED  BY <5>1, <5>2, <4>1, <3>1, <1>7
      <4>3. CASE ~MidBurst
        <5>1. cmd[1].bl = pos[1] /\ mbeat = 0
          BY <4>1, <4>3, <3>1, <3>3, <1>2, <1>4, <1>6
        <5>2. slv.lack
          BY <5>1, <4>1, <3>3, <1>7
        <5>. QED  BY <5>1, <5>2, <3>1, <1>7
      <4>. QED  BY <4>2, <4>3
    <3>. QED  BY <3>2, <3>3, <2>3, <1>2
  <2>. QED  BY <2>1, <2>2, <2>3, <1>2
<1>9. \A i \in 1..last' : cmd'[i].we => q[i] <= cmd'[i].bl
  <2>. SUFFICES ASSUME NEW i \in 1..last', cmd'[i].we PROVE q[i] <= cmd'[i].bl
    OBVIOUS
  <2>1. CASE i \in 1..(last - gone)
    <3>1. q[i] = pos[i + gone] /\ cmd'[i] = cmd[i + gone] /\ i + gone \in 1..last
      BY <2>1, <1>2, <1>5
    <3>. QED  BY <3>1, <1>3
  <2>2. CASE i \notin 1..(last - gone)
    <3>1. m_cmd_wr_en /\ i = last'
      BY <2>2, <1>2, <1>5
    <3>. QED  BY <3>1, <1>2, <1>5, <1>6
  <2>. QED  BY <2>1, <2>2
<1>10. \A i \in 1..(last' - 1) :
         /\ cmd'[i].we
         /\ IF q[i] = cmd'[i].bl THEN cmd'[i + 1].we => q[i + 1] = 1
            ELSE cmd'[i + 1].we /\ cmd'[i + 1].bl = cmd'[i].bl /\ q[i + 1] = q[i] + 1
  <2>. SUFFICES ASSUME NEW i \in 1..(last' - 1)
                PROVE  /\ cmd'[i].we
                       /\ IF q[i] = cmd'[i].bl THEN cmd'[i + 1].we => q[i + 1] = 1
                          ELSE cmd'[i + 1].we /\ cmd'[i + 1].bl = cmd'[i].bl
                               /\ q[i + 1] = q[i] + 1
    OBVIOUS
  <2>1. i \in 1..(last - gone) /\ i + gone \in 1..last
    BY <1>2, <1>5
  <2>2. q[i] = pos[i + gone] /\ cmd'[i] = cmd[i + gone]
    BY <2>1, <1>5
  <2>3. CASE i + gone < last
    <3>1. i + gone \in 1..(last - 1) /\ i + 1 \in 1..(last - gone) /\ (i + 1) + gone = (i + gone) + 1
      BY <2>1, <2>3, <1>2
    <3>2. q[i + 1] = pos[(i + gone) + 1] /\ cmd'[i + 1] = cmd[(i + gone) + 1]
      BY <3>1, <1>5
    <3>. QED  BY <3>1, <3>2, <2>2, <1>3
  <2>4. CASE i + gone = last
    <3>1. m_cmd_wr_en /\ i + 1 = last'
      BY <2>4, <1>2, <1>5
    <3>2. q[i + 1] = mbeat + 1 /\ cmd'[i + 1].we = here.we /\ cmd'[i + 1].bl = here.bl
      BY <3>1, <1>5
    <3>3. cmd[last].we /\ cmd # <<>>
      BY <2>1, <2>4, <3>1, <1>2, <1>6
    <3>4. CASE MidBurst
      BY <3>2, <3>3, <3>4, <2>2, <2>4, <1>2, <1>4, <1>6
    <3>5. CASE ~MidBurst
      BY <3>1, <3>2, <3>3, <3>5, <2>2, <2>4, <1>2, <1>4, <1>6
    <3>. QED  BY <3>4, <3>5
  <2>. QED  BY <2>1, <2>3, <2>4, <1>2
<1>11. IF cmd' = <<>>
         THEN IF MidBurst' THEN InTransfer' /\ beat' = mbeat' /\ wbs_cmd'.bl = here'.bl
              ELSE ~InTransfer'
         ELSE IF MidBurst' THEN cmd'[last'].we /\ cmd'[last'].bl = here'.bl /\ q[last'] = mbeat'
              ELSE cmd'[last'].we => q[last'] = cmd'[last'].bl
  <2>1. CASE m_cmd_wr_en
    <3>1. last' > 0 /\ q[last'] = mbeat + 1 /\ cmd'[last'].we = here.we /\ cmd'[last'].bl = here.bl
      BY <2>1, <1>2, <1>5
    <3>2. /\ here.we => IF MidBurst' THEN mbeat' = mbeat + 1 /\ here' = here
                        ELSE mbeat + 1 = here.bl
          /\ ~here.we => ~MidBurst'
      BY <2>1, <1>1 DEF BurstMoves
    <3>. QED  BY <3>1, <3>2, <1>2
  <2>2. CASE ~m_cmd_wr_en
    <3>1. (MidBurst' <=> MidBurst) /\ (MidBurst => mbeat' = mbeat /\ here' = here)
      BY <2>2, <1>1 DEF BurstMoves
    <3>2. CASE last' > 0
      <4>1. last' \in 1..(last - gone) /\ last' + gone = last /\ cmd # <<>>
        BY <2>2, <3>2, <1>2, <1>5
      <4>2. q[last'] = pos[last] /\ cmd'[last'] = cmd[last]
        BY <4>1, <1>5
      <4>. QED  BY <4>1, <4>2, <3>1, <3>2, <1>2, <1>4
    <3>3. CASE last' = 0
      <4>1. last = gone
        BY <2>2, <3>3, <1>2, <1>5
      <4>2. SlaveMove
        BY SlaveFacts
      <4>3. (InTransfer' <=> wbs_stb_o /\ ~slv.lack)
            /\ (wbs_stb_o <=> InTransfer \/ (~wbs_ack_f /\ cmd # <<>>))
        BY <4>2 DEF SlaveMove
      <4>4. slv.ack => InTransfer
        BY DEF IInv, SlaveHolds
      <4>5. wbs_stb_o /\ ~slv.lack => wbs_cmd'.bl = wbs_cmd.bl
        BY CommandKept
      <4>6. CASE gone = 0
        <5>1. ~slv.ack /\ ~slv.lack /\ beat' = beat /\ cmd = <<>>
          BY <4>1, <4>6, <1>2, <1>7
        <5>. QED  BY <5>1, <4>3, <4>5, <3>1, <3>3, <1>2, <1>4
      <4>7. CASE gone = 1
        <5>1. slv.ack /\ last = 1 /\ cmd # <<>> /\ InTransfer /\ 1 \in 1..last
          BY <4>1, <4>4, <4>7, <1>2, <1>7
        <5>2. wbs_cmd = cmd[1]
          BY <5>1 DEF wbs_cmd
        <5>3. CASE MidBurst
          <6>1. cmd[1].we /\ cmd[1].bl = here.bl /\ pos[1] = mbeat /\ pos[1] = beat + 1
            BY <5>1, <5>3, <1>3, <1>4
          <6>2. ~slv.lack /\ beat' = beat + 1
            BY <6>1, <5>1, <5>3, <1>6, <1>7
          <6>. QED  BY <6>1, <6>2, <5>1, <5>2, <5>3, <4>3, <4>5, <3>1, <3>3, <1>2
        <5>4. CASE ~MidBurst
          <6>1. slv.lack
            BY <5>1, <5>4, <4>7, <1>3, <1>4, <1>7
          <6>. QED  BY <6>1, <5>4, <4>3, <3>1, <3>3, <1>2
        <5>. QED  BY <5>3, <5>4
      <4>. QED  BY <4>6, <4>7, <1>2
    <3>. QED  BY <3>2, <3>3, <1>2
  <2>. QED  BY <2>1, <2>2, <1>2
<1>. QED  BY <1>8, <1>9, <1>10, <1>11 DEF Chain

(* Storing, writing and dropping a command keep what is latest.             *)
LEMMA LatestStep ==
  ASSUME IInv, NEW ready \in BOOLEAN, NEW answers \in BOOLEAN, NEW d \in Data,
         Step(ready, answers, d),
         NEW pos \in [1..last -> Bursts], Chain(pos), Latest(pos), NEW q, Placed(pos, q)
  PROVE  Latest(q)'
<1>1. CommandsMove(d) /\ BurstMoves(d) /\ SlaveMove
  BY CommandStep, BurstStep, SlaveFacts
<1>2. /\ last \in Nat /\ last' \in Nat /\ gone \in {0, 1} /\ gone <= last
      /\ m_cmd_wr_en \in BOOLEAN /\ here.we \in BOOLEAN /\ slv.ack \in BOOLEAN
      /\ seen \in [1..MaxBurst -> Data] /\ memory \in [1..MaxBurst -> Data]
  <2>1. /\ m_cmd_wr_en \in BOOLEAN /\ slv.ack \in BOOLEAN
        /\ seen \in [1..MaxBurst -> Data] /\ memory \in [1..MaxBurst -> Data]
    BY DEF IInv, Types, MasterTypes, SlaveTypes
  <2>. QED  BY <2>1, <1>1, HereFacts DEF CommandsMove
<1>3. /\ \A i \in 1..(last - gone) : q[i] = pos[i + gone] /\ cmd'[i] = cmd[i + gone]
      /\ last' = IF m_cmd_wr_en THEN last - gone + 1 ELSE last - gone
      /\ m_cmd_wr_en => q[last'] = mbeat + 1 /\ cmd'[last'].we = here.we /\ cmd'[last'].dat = d
      /\ \A i \in 1..last : pos[i] \in 1..MaxBurst /\ cmd[i].we \in BOOLEAN
  BY <1>1 DEF CommandsMove, Placed, Bursts
<1>4. /\ seen' = IF m_cmd_wr_en /\ here.we THEN [seen EXCEPT ![mbeat + 1] = d] ELSE seen
      /\ m_cmd_wr_en => mbeat + 1 \in 1..MaxBurst
  <2>1. m_cmd_wr_en => mbeat < here.bl /\ here.bl \in Bursts /\ mbeat \in Nat
    BY <1>1 DEF BurstMoves
  <2>. QED  BY <2>1, <1>1, SlavePortAssumption DEF BurstMoves, Bursts
(* A command left, and what it leaves of the words: nothing stored later    *)
(* writes a place it is still the latest for.                               *)
<1>5. ASSUME NEW a \in 1..MaxBurst, NEW n \in 0..(last - gone),
             \A j \in (n + 1)..last' : cmd'[j].we => q[j] # a
      PROVE  /\ seen'[a] = seen[a]
             /\ \A j \in (n + gone + 1)..last : cmd[j].we => pos[j] # a
  <2>1. seen'[a] = seen[a]
    <3>1. CASE m_cmd_wr_en /\ here.we
      <4>1. last' \in (n + 1)..last'
        BY <3>1, <1>2, <1>3
      <4>2. q[last'] # a
        BY <4>1, <3>1, <1>3, <1>5
      <4>. QED  BY <4>2, <3>1, <1>2, <1>3, <1>4
    <3>2. CASE ~(m_cmd_wr_en /\ here.we)
      BY <3>2, <1>4
    <3>. QED  BY <3>1, <3>2
  <2>2. ASSUME NEW j \in (n + gone + 1)..last, cmd[j].we PROVE pos[j] # a
    <3>1. j - gone \in 1..(last - gone) /\ (j - gone) + gone = j /\ j - gone \in (n + 1)..last'
      BY <1>2, <1>3
    <3>2. cmd'[j - gone] = cmd[j] /\ q[j - gone] = pos[j]
      BY <3>1, <1>3
    <3>. QED  BY <3>1, <3>2, <2>2, <1>5
  <2>. QED  BY <2>1, <2>2
<1>6. \A i \in 1..last' :
        cmd'[i].we /\ (\A j \in (i + 1)..last' : cmd'[j].we => q[j] # q[i])
          => seen'[q[i]] = cmd'[i].dat
  <2>. SUFFICES ASSUME NEW i \in 1..last', cmd'[i].we,
                       \A j \in (i + 1)..last' : cmd'[j].we => q[j] # q[i]
                PROVE  seen'[q[i]] = cmd'[i].dat
    OBVIOUS
  <2>1. CASE i \in 1..(last - gone)
    <3>1. /\ q[i] = pos[i + gone] /\ cmd'[i] = cmd[i + gone] /\ i + gone \in 1..last
          /\ q[i] \in 1..MaxBurst /\ i \in 0..(last - gone)
      BY SMTT(20), <2>1, <1>2, <1>3
    <3>2. seen'[q[i]] = seen[q[i]]
      BY <3>1, <1>5
    <3>3. \A j \in (i + gone + 1)..last : cmd[j].we => pos[j] # q[i]
      BY <3>1, <1>5
    <3>4. seen[pos[i + gone]] = cmd[i + gone].dat
      BY <3>1, <3>3 DEF Latest
    <3>. QED  BY <3>1, <3>2, <3>4
  <2>2. CASE i \notin 1..(last - gone)
    <3>1. m_cmd_wr_en /\ i = last'
      BY <2>2, <1>2, <1>3
    <3>. QED  BY <3>1, <1>2, <1>3, <1>4
  <2>. QED  BY <2>1, <2>2
<1>7. \A a \in 1..MaxBurst :
        (\A j \in 1..last' : cmd'[j].we => q[j] # a) => seen'[a] = memory'[a]
  <2>. SUFFICES ASSUME NEW a \in 1..MaxBurst, \A j \in 1..last' : cmd'[j].we => q[j] # a
                PROVE  seen'[a] = memory'[a]
    OBVIOUS
  <2>1. 0 \in 0..(last - gone) /\ \A j \in (0 + 1)..last' : cmd'[j].we => q[j] # a
    BY <1>2
  <2>2. seen'[a] = seen[a] /\ \A j \in (0 + gone + 1)..last : cmd[j].we => pos[j] # a
    BY <2>1, <1>5
  <2>3. memory' = IF slv.ack /\ wbs_cmd.we
                    THEN [memory EXCEPT ![beat + 1] = wbs_cmd.dat] ELSE memory
    BY <1>1 DEF SlaveMove
  <2>4. slv.ack => last > 0 /\ cmd # <<>> /\ wbs_cmd = cmd[1] /\ 1 \in 1..last
    BY <1>1, <1>2 DEF CommandsMove, wbs_cmd
  <2>5. gone = 1 <=> slv.ack /\ (cmd[1].we \/ slv.lack)
    BY <1>1 DEF CommandsMove
  <2>6. CASE gone = 1 /\ cmd[1].we
    <3>1. pos[1] = beat + 1 /\ memory' = [memory EXCEPT ![pos[1]] = cmd[1].dat]
          /\ 1 \in 1..last /\ pos[1] \in 1..MaxBurst
      BY <2>3, <2>4, <2>5, <2>6, <1>3 DEF Chain
    <3>2. \A j \in (1 + 1)..last : cmd[j].we => pos[j] # a
      BY <2>2, <2>6
    <3>3. CASE a = pos[1]
      <4>1. seen[pos[1]] = cmd[1].dat
        BY <3>1, <3>2, <3>3, <2>6 DEF Latest
      <4>. QED  BY <4>1, <3>1, <3>3, <2>2, <1>2
    <3>4. CASE a # pos[1]
      <4>1. \A j \in 1..last : cmd[j].we => pos[j] # a
        BY <3>2, <3>4, <1>2
      <4>2. seen[a] = memory[a]
        BY <4>1 DEF Latest
      <4>. QED  BY <4>2, <3>1, <3>4, <2>2, <1>2
    <3>. QED  BY <3>3, <3>4
  <2>7. CASE ~(gone = 1 /\ cmd[1].we)
    <3>1. memory' = memory
      BY <2>3, <2>4, <2>5, <2>7
    <3>2. \A j \in 1..last : cmd[j].we => pos[j] # a
      BY <2>2, <2>7, <1>2, <1>3
    <3>3. seen[a] = memory[a]
      BY <3>2 DEF Latest
    <3>. QED  BY <3>1, <3>3, <2>2
  <2>. QED  BY <2>6, <2>7
<1>. QED  BY <1>6, <1>7 DEF Latest

(* So every command keeps a place.                                          *)
LEMMA PlacesStep ==
  ASSUME IInv, NEW ready \in BOOLEAN, NEW answers \in BOOLEAN, NEW d \in Data,
         Step(ready, answers, d)
  PROVE  PlacesHold'
<1>1. PICK pos \in [1..last -> Bursts] : Chain(pos) /\ Latest(pos)
  BY DEF IInv, PlacesHold
<1>2. CommandsMove(d) /\ BurstMoves(d)
  BY CommandStep, BurstStep
<1>3. \E q : Placed(pos, q)
  <2>. DEFINE f == [i \in 1..last' |-> IF i <= last - gone THEN pos[i + gone] ELSE mbeat + 1]
  <2>1. /\ last \in Nat /\ last' \in Nat /\ gone \in {0, 1} /\ gone <= last
        /\ last' = IF m_cmd_wr_en THEN last - gone + 1 ELSE last - gone
    BY <1>2 DEF CommandsMove
  <2>2. m_cmd_wr_en => mbeat + 1 \in Bursts
    BY <1>2, SlavePortAssumption DEF BurstMoves, Bursts
  <2>3. \A i \in 1..last' : f[i] \in Bursts
    <3>. SUFFICES ASSUME NEW i \in 1..last' PROVE f[i] \in Bursts
      OBVIOUS
    <3>1. CASE i <= last - gone
      <4>1. i + gone \in 1..last
        BY <3>1, <2>1
      <4>. QED  BY <4>1, <3>1
    <3>2. CASE ~(i <= last - gone)
      BY <3>2, <2>1, <2>2
    <3>. QED  BY <3>1, <3>2
  <2>4. f \in [1..last' -> Bursts]
    BY <2>3
  <2>5. \A i \in 1..(last - gone) : f[i] = pos[i + gone]
    BY <2>1
  <2>6. m_cmd_wr_en => f[last'] = mbeat + 1
    BY <2>1
  <2>. HIDE DEF f
  <2>. QED  BY <2>4, <2>5, <2>6 DEF Placed
<1>4. PICK q : Placed(pos, q)
  BY <1>3
<1>5. Chain(q)' /\ Latest(q)'
  BY <1>1, <1>4, ChainStep, LatestStep
<1>6. q \in [1..last' -> Bursts]
  BY <1>4 DEF Placed
<1>. QED  BY <1>5, <1>6 DEF PlacesHold

(* A word fetched is the latest, as no write is on its way then.            *)
LEMMA WordsStep ==
  ASSUME IInv, NEW ready \in BOOLEAN, NEW answers \in BOOLEAN, NEW d \in Data,
         Step(ready, answers, d)
  PROVE  WordsRight'
<1>1. CommandsMove(d) /\ BurstMoves(d) /\ SlaveMove /\ MasterMove /\ FifosMove(d)
  BY CommandStep, BurstStep, SlaveFacts, MasterMoves, FifoStep
<1>2. /\ resp \in Seq(Data) /\ Len(resp) \in Nat /\ last \in Nat /\ MaxBurst \in Nat
      /\ mbeat \in Nat /\ beat \in Nat /\ slv.ack \in BOOLEAN /\ wbm_ack_o \in BOOLEAN
      /\ wbm_lack_o \in BOOLEAN /\ m_resp_rd_en \in BOOLEAN /\ m_cmd_wr_en \in BOOLEAN
      /\ m_state \in {"IDLE", "WRITE_DATA", "READ_DATA"} /\ here.we \in BOOLEAN
  <2>. QED  BY HereFacts, SlavePortAssumption
            DEF IInv, Types, MasterTypes, SlaveTypes, FifoTypes, last
(* Only a read is answered with data, and it is alone in the command FIFO.  *)
<1>3. ASSUME cmd # <<>>, ~wbs_cmd.we
      PROVE  /\ last = 1 /\ wbs_cmd = cmd[1] /\ m_state = "READ_DATA" /\ ~m_cmd_wr_en
             /\ ~cmd[1].we
  <2>1. 1 \in 1..last /\ wbs_cmd = cmd[1]
    BY <1>3, <1>2 DEF wbs_cmd, last, IInv, Types, FifoTypes
  <2>. QED  BY <2>1, <1>3 DEF IInv, ReadHolds
<1>4. /\ m_state = "READ_DATA" => ~here.we /\ ~wbm_lack_o
      /\ wbm_lack_o => wbm_ack_o /\ m_state = "IDLE"
      /\ m_resp_rd_en <=> wbm_ack_o /\ ~here.we
      /\ m_state = "READ_DATA" => seen' = seen /\ mbeat' = mbeat + One(wbm_ack_o)
      /\ ~here.we => seen' = seen
  <2>1. m_state = "READ_DATA" => ReadBeats \/ MasterWaits
    BY <1>1 DEF MasterMove, MasterIdles, ReadStarts, WriteStarts, Starts, WriteBeats
  <2>2. ReadBeats \/ MasterWaits => mbeat' = mbeat + One(wbm_ack_o)
    BY DEF ReadBeats, Beats, MasterWaits
  <2>. QED  BY <2>1, <2>2, <1>1 DEF IInv, MasterHolds, BurstMoves
<1>5. /\ s_resp_wr_en(slv) <=> slv.ack /\ ~wbs_cmd.we
      /\ slv.ack => cmd # <<>>
  BY PopFacts
<1>6. \A i \in 1..Len(resp') : resp'[i] = seen'[mbeat' + i]
  <2>. DEFINE take == One(m_resp_rd_en)
              put == One(s_resp_wr_en(slv))
  <2>1. /\ Len(resp') = Len(resp) - take + put
        /\ \A i \in 1..(Len(resp) - take) : resp'[i] = resp[i + take]
        /\ s_resp_wr_en(slv) => resp'[Len(resp) - take + 1] = slv.dat
    BY <1>1 DEF FifosMove
  <2>2. take \in {0, 1} /\ (s_resp_wr_en(slv) => put = 1) /\ (~s_resp_wr_en(slv) => put = 0)
    BY <1>2 DEF One
  <2>3. CASE m_state = "READ_DATA"
    <3>1. take = One(wbm_ack_o) /\ mbeat' = mbeat + take /\ seen' = seen
      BY <2>3, <1>2, <1>4 DEF One
    <3>. HIDE DEF take, put
    <3>2. ASSUME NEW i \in 1..(Len(resp) - take) PROVE resp'[i] = seen'[mbeat' + i]
      <4>1. i + take \in 1..Len(resp) /\ mbeat + (i + take) = mbeat' + i
        BY <3>1, <2>2, <1>2
      <4>2. resp[i + take] = seen[mbeat + (i + take)]
        BY <4>1 DEF IInv, WordsRight
      <4>. QED  BY <4>1, <4>2, <3>1, <2>1
    <3>3. ASSUME s_resp_wr_en(slv) PROVE resp'[Len(resp) - take + 1] = seen'[mbeat' + (Len(resp) - take + 1)]
      <4>1. slv.ack /\ cmd # <<>> /\ ~wbs_cmd.we /\ last = 1 /\ ~m_cmd_wr_en
        BY <3>3, <1>3, <1>5
      <4>2. mbeat + Len(resp) = beat
        BY <4>1, <2>3 DEF IInv, ReadHolds
      <4>3. slv.dat = seen[beat + 1]
        BY <4>1 DEF IInv, WordsRight
      <4>4. mbeat' + (Len(resp) - take + 1) = beat + 1
        BY <4>2, <3>1, <2>2, <1>2
      <4>. QED  BY <4>3, <4>4, <3>1, <3>3, <2>1
    <3>. QED
      <4>. SUFFICES ASSUME NEW i \in 1..Len(resp') PROVE resp'[i] = seen'[mbeat' + i]
        OBVIOUS
      <4>1. \/ i \in 1..(Len(resp) - take)
            \/ s_resp_wr_en(slv) /\ i = Len(resp) - take + 1
        BY <2>1, <2>2, <1>2
      <4>. QED  BY <4>1, <3>2, <3>3
  <2>4. CASE m_state # "READ_DATA"
    <3>1. ~s_resp_wr_en(slv)
      BY <2>4, <1>3, <1>5
    <3>2. Len(resp') = 0
      <4>1. CASE wbm_lack_o /\ ~here.we
        <5>1. Len(resp) = 1 /\ m_resp_rd_en
          BY <4>1, <1>4 DEF IInv, ReadHolds
        <5>. QED  BY <5>1, <3>1, <2>1, <2>2 DEF One
      <4>2. CASE ~(wbm_lack_o /\ ~here.we)
        <5>1. resp = <<>>
          BY <4>2, <2>4, <1>2 DEF IInv, ReadHolds
        <5>2. ~m_resp_rd_en
          BY <5>1 DEF IInv, MasterHolds, ReadHolds
        <5>. QED  BY <5>1, <5>2, <3>1, <2>1, <2>2 DEF One
      <4>. QED  BY <4>1, <4>2
    <3>. QED  BY <3>2
  <2>. QED  BY <2>3, <2>4
<1>7. slv'.ack /\ ~wbs_cmd'.we => slv'.dat = seen'[beat' + 1]
  <2>. SUFFICES ASSUME slv'.ack, ~wbs_cmd'.we PROVE slv'.dat = seen'[beat' + 1]
    OBVIOUS
  <2>1. wbs_stb_o /\ ~slv.lack
    BY <1>1 DEF SlaveMove
  <2>2. wbs_cmd'.we = wbs_cmd.we
    BY <2>1, CommandKept
  <2>3. ~wbs_cmd.we /\ slv'.dat = memory[beat' + 1]
    BY <2>2, <1>1 DEF SlaveMove
  <2>4. cmd # <<>>
    BY <2>1, <2>3, <1>1 DEF SlaveMove, IInv, SlaveHolds
  <2>5. last = 1 /\ m_state = "READ_DATA" /\ ~cmd[1].we
    BY <2>3, <2>4, <1>3
  <2>6. beat' + 1 \in 1..MaxBurst
    BY <2>1, <1>1, <1>2 DEF SlaveMove, Bursts
  <2>7. PICK pos \in [1..last -> Bursts] : Latest(pos)
    BY DEF IInv, PlacesHold
  <2>8. seen[beat' + 1] = memory[beat' + 1]
    BY <2>5, <2>6, <2>7 DEF Latest
  <2>. QED  BY <2>3, <2>5, <2>8, <1>4
<1>. QED  BY <1>6, <1>7 DEF WordsRight

------------------------------------------------------------------------------
(* The reset state is within the invariant.                                 *)
LEMMA InitInv == Init => IInv
<1>. SUFFICES ASSUME Init PROVE IInv
  OBVIOUS
<1>. USE SlavePortAssumption DEF Init, BridgeInit
<1>1. bus = [m \in Masters |-> None] /\ gnt = 0 /\ 0 \in Masters /\ here = None
  BY DEF Masters, here
<1>2. MasterTypes
  BY <1>1 DEF MasterTypes
<1>3. SlaveTypes
  <2>1. s_cmd_rd_data_l \in [we : BOOLEAN, bl : 0..MaxBurst, dat : Data]
    OBVIOUS
  <2>2. slv \in [ack : BOOLEAN, lack : BOOLEAN, dat : Data]
    OBVIOUS
  <2>3. beat \in 0..MaxBurst /\ memory \in [1..MaxBurst -> Data]
    OBVIOUS
  <2>. QED  BY <2>1, <2>2, <2>3 DEF SlaveTypes
<1>4. FifoTypes
  BY BridgeDepthAssumption DEF FifoTypes
<1>5. MasterHolds
  BY <1>1 DEF MasterHolds
<1>6. SlaveHolds
  BY DEF SlaveHolds, InTransfer
<1>7. PlacesHold
  <2>1. last = 0 /\ ~MidBurst /\ ~InTransfer
    BY DEF last, MidBurst, InTransfer
  <2>2. PICK pos : pos \in [1..last -> Bursts]
    <3>1. [i \in 1..last |-> 1] \in [1..last -> Bursts]
      BY DEF Bursts
    <3>. QED  BY <3>1
  <2>3. Chain(pos)
    BY <2>1 DEF Chain
  <2>4. Latest(pos)
    BY <2>1 DEF Latest
  <2>. QED  BY <2>2, <2>3, <2>4 DEF PlacesHold
<1>8. ReadHolds
  BY DEF ReadHolds, last
<1>9. WordsRight
  BY DEF WordsRight
<1>. QED  BY <1>2, <1>3, <1>4, <1>5, <1>6, <1>7, <1>8, <1>9 DEF IInv, Types

(* Every step of the port is such a clock edge.                             *)
LEMMA EdgeIsStep ==
  ASSUME Next
  PROVE  \E ready, answers \in BOOLEAN, d \in Data : Step(ready, answers, d)
<1>1. PICK ready \in BOOLEAN, answers \in BOOLEAN : ClockEdge(ready, answers)
  BY DEF Next
<1>2. PICK d \in (IF m_cmd_wr_en /\ bus[gnt].we THEN DataOf(gnt) ELSE {Zero}) : Step(ready, answers, d)
  BY <1>1 DEF ClockEdge, Step
<1>3. d \in Data
  BY <1>2, SlavePortAssumption DEF DataOf
<1>. QED  BY <1>2, <1>3

(* And every step keeps it.                                                 *)
LEMMA NextInv == IInv /\ [Next]_vars => IInv'
<1>. SUFFICES ASSUME IInv, [Next]_vars PROVE IInv'
  OBVIOUS
<1>1. CASE Next
  <2>1. PICK ready \in BOOLEAN, answers \in BOOLEAN, d \in Data : Step(ready, answers, d)
    BY <1>1, EdgeIsStep
  <2>2. MasterTypes' /\ MasterHolds'
    BY <2>1, MasterStep
  <2>3. SlaveTypes' /\ FifoTypes' /\ SlaveHolds'
    BY <2>1, SlaveStep
  <2>4. PlacesHold'
    BY <2>1, PlacesStep
  <2>5. ReadHolds' /\ WordsRight'
    BY <2>1, ReadStep, WordsStep
  <2>. QED  BY <2>2, <2>3, <2>4, <2>5 DEF IInv, Types
<1>2. CASE UNCHANGED vars
  <2>1. UNCHANGED <<m_state, m_cmd_wr_en, m_resp_rd_en, m_bl_cnt, wbm_ack_o, wbm_lack_o>>
        /\ UNCHANGED <<cmd, resp, s_cmd_rd_data_l, wbs_ack_f, wbs_stb_l, wbs_burst>>
        /\ UNCHANGED <<gnt, bus, slv, beat, memory, mbeat, seen>>
    BY <1>2 DEF vars, bridgeVars, masterVars, slaveVars, envVars
  <2>2. (Types /\ MasterHolds)'
    BY <2>1 DEF IInv, Types, MasterTypes, SlaveTypes, FifoTypes, MasterHolds, here
  <2>3. UNCHANGED <<here, last, wbs_cmd, InTransfer, MidBurst>>
    BY <2>1 DEF here, last, wbs_cmd, InTransfer, MidBurst
  <2>4. (SlaveHolds /\ ReadHolds /\ WordsRight)'
    BY <2>1, <2>3 DEF IInv, SlaveHolds, ReadHolds, WordsRight
  <2>5. PlacesHold'
    <3>1. PICK pos \in [1..last -> Bursts] : Chain(pos) /\ Latest(pos)
      BY DEF IInv, PlacesHold
    <3>2. Chain(pos)'
      BY <2>1, <2>3, <3>1 DEF Chain
    <3>3. Latest(pos)'
      BY <2>1, <2>3, <3>1 DEF Latest
    <3>. QED  BY <2>3, <3>1, <3>2, <3>3 DEF PlacesHold
  <2>. QED  BY <2>2, <2>4, <2>5 DEF IInv
<1>. QED  BY <1>1, <1>2

(* The registers hold values of their types, and no FIFO of the bridge is   *)
(* ever written when full or read when empty (sync_wbb.sv, lines 164-285).  *)
THEOREM BridgeNeverOverflows == Spec => []SlavePortInv
<1>1. IInv => SlavePortInv
  <2>. SUFFICES ASSUME IInv PROVE SlavePortInv
    OBVIOUS
  <2>1. TypeOK
    BY SlavePortAssumption
       DEF IInv, Types, MasterTypes, SlaveTypes, FifoTypes, TypeOK, Words
  <2>2. NoOverflow
    BY PopFacts DEF IInv, MasterHolds, SlaveHolds, ReadHolds, NoOverflow
  <2>. QED  BY <2>1, <2>2 DEF SlavePortInv
<1>. QED  BY InitInv, NextInv, <1>1, PTL DEF Spec

(* What the masters were told is written is in the memory or on its way     *)
(* there in order: every word read back is the latest one, and when the     *)
(* bridge is empty the memory holds them all.                               *)
THEOREM PostedWritesCoherent == Spec => []MemoryCoherent
<1>1. IInv => MemoryCoherent
  <2>. SUFFICES ASSUME IInv PROVE MemoryCoherent
    OBVIOUS
  <2>1. ReadsSeeWrites
    <3>. SUFFICES ASSUME wbm_ack_o, ~here.we
                  PROVE  resp # <<>> /\ Head(resp) = seen[mbeat + 1]
      BY DEF ReadsSeeWrites, here
    <3>1. resp # <<>> /\ resp \in Seq(Data)
      BY DEF IInv, ReadHolds, Types, FifoTypes
    <3>2. 1 \in 1..Len(resp) /\ Head(resp) = resp[1]
      BY <3>1
    <3>. QED  BY <3>1, <3>2 DEF IInv, WordsRight
  <2>2. PostedWritesLand
    <3>. SUFFICES ASSUME cmd = <<>> PROVE memory = seen
      BY DEF PostedWritesLand
    <3>1. last = 0
      BY DEF last
    <3>2. \A a \in 1..MaxBurst : seen[a] = memory[a]
      BY <3>1 DEF IInv, PlacesHold, Latest
    <3>3. memory \in [1..MaxBurst -> Data] /\ seen \in [1..MaxBurst -> Data]
      BY DEF IInv, Types, MasterTypes, SlaveTypes
    <3>4. /\ memory = [a \in 1..MaxBurst |-> memory[a]]
          /\ seen = [a \in 1..MaxBurst |-> seen[a]]
      BY <3>3
    <3>5. [a \in 1..MaxBurst |-> memory[a]] = [a \in 1..MaxBurst |-> seen[a]]
      BY <3>2
    <3>. QED  BY <3>4, <3>5
  <2>. QED  BY <2>1, <2>2 DEF MemoryCoherent
<1>. QED  BY InitInv, NextInv, <1>1, PTL DEF Spec

(* The port's inputs and answers stay with one master from the first cycle  *)
(* of its transfer in the bridge to the last acknowledge.                   *)
THEOREM GrantKept == Spec => TransferKeepsGrant
<1>1. IInv /\ [Next]_vars
        => [(m_state # "IDLE" \/ (m_cmd_wr_en /\ ~wbm_lack_o)) => gnt' = gnt]_vars
  <2>. SUFFICES ASSUME IInv, Next, m_state # "IDLE" \/ (m_cmd_wr_en /\ ~wbm_lack_o)
                PROVE  gnt' = gnt
    OBVIOUS
  <2>1. m_state # "IDLE"
    BY DEF IInv, MasterHolds
  <2>2. Grant /\ MastersMove
    BY EdgeIsStep DEF Step
  <2>. QED  BY <2>1, <2>2, RequestFacts, GrantStep
<1>. QED  BY InitInv, NextInv, <1>1, PTL DEF Spec, TransferKeepsGrant

(* The port is a use of the arbiter: its grant moves as WbArb's does, and   *)
(* the requests it makes of them are requests WbArb accepts.                *)
THEOREM PortUsesArbiter == Spec => ArbiterUsed
<1>1. Init => Arb!Init
  BY SlavePortAssumption DEF Init, Arb!Init, Requests, None
<1>2. IInv /\ [Next]_vars => [Arb!ClockEdge]_<<gnt, Requests>>
  <2>. SUFFICES ASSUME IInv, [Next]_vars PROVE [Arb!ClockEdge]_<<gnt, Requests>>
    OBVIOUS
  <2>1. CASE UNCHANGED vars
    BY <2>1 DEF vars, bridgeVars, masterVars, slaveVars, envVars, Requests
  <2>2. CASE Next
    <3>1. PICK ready \in BOOLEAN, answers \in BOOLEAN, d \in Data : Step(ready, answers, d)
      BY <2>2, EdgeIsStep
    <3>2. Grant /\ MastersMove /\ MasterMove
      BY <3>1, MasterMoves DEF Step
    <3>3. wbm_lack_o' => gnt' = gnt
      <4>1. wbm_lack_o' => m_state # "IDLE" \/ Starts
        BY <3>2 DEF MasterMove, MasterIdles, ReadStarts, WriteStarts, WriteBeats, ReadBeats,
                    MasterWaits, Quiet
      <4>2. Starts => gnt \in Requests
        BY DEF Starts, Requests, here, IInv, MasterHolds, Types, MasterTypes
      <4>. QED  BY <4>1, <4>2, <3>2, RequestFacts, GrantStep
    <3>4. Requests' \in SUBSET Active
      BY SlavePortAssumption DEF Requests
    <3>5. ASSUME NEW m \in Requests, m # gnt PROVE m \in Requests'
      <4>1. bus'[m] = bus[m]
        BY <3>2, GrantStep
      <4>. QED  BY <4>1, <3>3, <3>5 DEF Requests
    <3>. QED  BY <3>2, <3>4, <3>5 DEF Arb!ClockEdge, Grant
  <2>. QED  BY <2>1, <2>2
<1>. QED  BY InitInv, NextInv, <1>1, <1>2, PTL DEF Spec, ArbiterUsed, Arb!Spec, Arb!arbVars

==============================================================================
