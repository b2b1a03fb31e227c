----------------------------- MODULE WbArbProofs -----------------------------
(****************************************************************************)
(* Type correctness of the arbiter and its bound on overtaking, for every   *)
(* set of wired and of impatient masters; and the registers' own port,      *)
(* which uses it.                                                           *)
(****************************************************************************)
EXTENDS WbiPort, TLAPS

(* The next state of the arbiter is one of its four grants.                 *)
LEMMA NextGrantType ==
  ASSUME NEW g \in Masters, NEW r \in SUBSET Masters
  PROVE  NextGrant(g, r) \in Masters
BY DEF NextGrant, SearchOrder, Masters

(* The only grants a waiting master 0 can lose a turn to are grant3, and    *)
(* those a waiting master 1 can are grant0.                                 *)
LEMMA WhoOvertakes ==
  ASSUME NEW g \in Masters, NEW r \in SUBSET Masters
  PROVE  /\ 0 \in r /\ g # 0 /\ NextGrant(g, r) \notin {0, g}
              => g = 1 /\ NextGrant(g, r) = 3
         /\ 1 \in r /\ g # 1 /\ NextGrant(g, r) \notin {1, g}
              => NextGrant(g, r) = 0
<1>. USE DEF NextGrant, SearchOrder, Masters
<1>1. CASE g = 0  BY <1>1
<1>2. CASE g = 1  BY <1>2
<1>3. CASE g = 2  BY <1>3
<1>4. CASE g = 3  BY <1>4
<1>. QED  BY <1>1, <1>2, <1>3, <1>4

------------------------------------------------------------------------------
(* The inductive invariant: a master that was overtaken was so once, and    *)
(* the one that holds the grant now has to yield to it.                     *)
OvertakenBy ==
  /\ overtaken[0] > 0 => overtaken[0] = 1 /\ gnt = 3
  /\ overtaken[1] > 0 => overtaken[1] = 1 /\ gnt = 0

IInv == HTypeOK /\ OvertakenBy

LEMMA InitInv == HInit => IInv
BY CountBoundAssumption
   DEF HInit, Init, IInv, HTypeOK, TypeOK, OvertakenBy, Masters

LEMMA TypeStep ==
  ASSUME HTypeOK, [HClockEdge]_vars
  PROVE  HTypeOK'
<1>1. CASE HClockEdge
  <2>1. req \in SUBSET Masters
    BY WbArbAssumption DEF HTypeOK, TypeOK
  <2>2. gnt' \in Masters
    BY <1>1, <2>1, NextGrantType DEF HClockEdge, ClockEdge, HTypeOK, TypeOK
  <2>3. req' \subseteq Active
    BY <1>1 DEF HClockEdge, ClockEdge
  <2>4. overtaken' \in [Masters -> 0..CountBound]
    BY <1>1, CountBoundAssumption
       DEF HClockEdge, Overtakes, HTypeOK, Masters
  <2>. QED  BY <2>2, <2>3, <2>4 DEF HTypeOK, TypeOK
<1>2. CASE UNCHANGED vars
  BY <1>2 DEF vars, HTypeOK, TypeOK
<1>. QED  BY <1>1, <1>2

LEMMA OvertakenStep ==
  ASSUME IInv, [HClockEdge]_vars
  PROVE  OvertakenBy'
<1>1. CASE HClockEdge
  <2>1. gnt \in Masters /\ req \in SUBSET Masters
        /\ overtaken \in [Masters -> 0..CountBound]
    BY WbArbAssumption DEF IInv, HTypeOK, TypeOK
  <2>2. gnt' = NextGrant(gnt, req)
    BY <1>1 DEF HClockEdge, ClockEdge
  <2>3. \A m \in {0, 1} :
           overtaken'[m] = IF m \notin req \/ m \in {gnt, gnt'} THEN 0
                           ELSE IF gnt' # gnt /\ overtaken[m] < CountBound
                                THEN overtaken[m] + 1
                                ELSE overtaken[m]
    BY <1>1 DEF HClockEdge, Overtakes, Masters
  <2>4. overtaken'[0] > 0 => overtaken'[0] = 1 /\ gnt' = 3
    <3>1. SUFFICES ASSUME 0 \in req, 0 \notin {gnt, gnt'}, overtaken'[0] > 0
                   PROVE  overtaken'[0] = 1 /\ gnt' = 3
      BY <2>3
    <3>2. CASE gnt' = gnt
      BY <2>1, <2>3, <3>1, <3>2 DEF IInv, OvertakenBy, Masters
    <3>3. CASE gnt' # gnt
      <4>1. gnt = 1 /\ gnt' = 3
        BY <2>1, <2>2, <3>1, <3>3, WhoOvertakes
      <4>2. overtaken[0] = 0
        BY <2>1, <4>1 DEF IInv, OvertakenBy, Masters
      <4>. QED  BY <2>3, <3>1, <3>3, <4>1, <4>2, CountBoundAssumption
    <3>. QED  BY <3>2, <3>3
  <2>5. overtaken'[1] > 0 => overtaken'[1] = 1 /\ gnt' = 0
    <3>1. SUFFICES ASSUME 1 \in req, 1 \notin {gnt, gnt'}, overtaken'[1] > 0
                   PROVE  overtaken'[1] = 1 /\ gnt' = 0
      BY <2>3
    <3>2. CASE gnt' = gnt
      BY <2>1, <2>3, <3>1, <3>2 DEF IInv, OvertakenBy, Masters
    <3>3. CASE gnt' # gnt
      <4>1. gnt' = 0 /\ gnt # 0
        BY <2>1, <2>2, <3>1, <3>3, WhoOvertakes
      <4>2. overtaken[1] = 0
        BY <2>1, <4>1 DEF IInv, OvertakenBy, Masters
      <4>. QED  BY <2>3, <3>1, <3>3, <4>1, <4>2, CountBoundAssumption
    <3>. QED  BY <3>2, <3>3
  <2>. QED  BY <2>4, <2>5 DEF OvertakenBy
<1>2. CASE UNCHANGED vars
  BY <1>2 DEF vars, IInv, OvertakenBy
<1>. QED  BY <1>1, <1>2

(* The arbiter's registers keep their types, whatever masters are wired.    *)
THEOREM HTypeCorrect == HSpec => []HTypeOK
<1>1. HInit => HTypeOK
  BY InitInv DEF IInv
<1>2. HTypeOK /\ [HClockEdge]_vars => HTypeOK'
  BY TypeStep
<1>. QED  BY <1>1, <1>2, PTL DEF HSpec

(* However the four request lines move, masters 0 and 1 are overtaken at    *)
(* most once while they wait.                                               *)
THEOREM BoundedOvertakingHolds == HSpec => []BoundedOvertaking
<1>1. HInit => IInv
  BY InitInv
<1>2. IInv /\ [HClockEdge]_vars => IInv'
  BY TypeStep, OvertakenStep DEF IInv
<1>3. IInv => BoundedOvertaking
  BY DEF IInv, HTypeOK, OvertakenBy, BoundedOvertaking, Masters
<1>. QED  BY <1>1, <1>2, <1>3, PTL DEF HSpec

------------------------------------------------------------------------------
(* The registers' port: the request lines are those of the accesses that    *)
(* are up, and what is acknowledged is what the granted master still asks.  *)
RequestsUp == req = {m \in Active : bus[m] # None}

PortIInv == PortTypeOK /\ RequestsUp /\ GrantedIsServed

(* While the granted master requests and is not acknowledged, neither the   *)
(* grant nor its access moves.                                              *)
LEMMA AccessKept ==
  ASSUME PortIInv, PortEdge, reg_wbi_cs, ~reg_ack
  PROVE  gnt' = gnt /\ access' = access
<1>1. gnt' = gnt
  BY DEF PortEdge, Grant, NextGrant, reg_wbi_cs
<1>2. gnt \in Masters /\ gnt \notin {m \in Active : bus[m] = None \/ Acked(m)}
  BY DEF PortIInv, PortTypeOK, HTypeOK, TypeOK, RequestsUp, reg_wbi_cs, Acked
<1>3. bus'[gnt] = bus[gnt]
  BY <1>2 DEF PortEdge, MastersMove
<1>. QED  BY <1>1, <1>3 DEF access

LEMMA PortTypeStep ==
  ASSUME PortIInv, PortEdge
  PROVE  PortTypeOK' /\ RequestsUp'
<1>1. /\ gnt \in Masters /\ req \in SUBSET Masters /\ req \subseteq Active
      /\ overtaken \in [Masters -> 0..CountBound]
      /\ bus \in [Masters -> {None} \cup Accesses]
      /\ reg_rdata \in Data /\ regs \in [Registers -> Data]
  BY WbArbAssumption DEF PortIInv, PortTypeOK, HTypeOK, TypeOK
<1>2. gnt' \in Masters
  BY <1>1, NextGrantType DEF PortEdge, Grant
<1>3. overtaken' \in [Masters -> 0..CountBound]
  BY <1>1, CountBoundAssumption DEF PortEdge, Grant, Overtakes
<1>4. bus' \in [Masters -> {None} \cup Accesses]
  BY <1>1 DEF PortEdge, MastersMove
<1>5. req' = {m \in Active : bus'[m] # None} /\ req' \subseteq Active
  BY DEF PortEdge, MastersMove
<1>6. reg_wbi_cs => access \in Accesses /\ access.reg \in Registers
  <2>. SUFFICES ASSUME reg_wbi_cs PROVE access \in Accesses /\ access.reg \in Registers
    OBVIOUS
  <2>1. access \in Accesses
    BY <1>1 DEF PortIInv, RequestsUp, reg_wbi_cs, access
  <2>. QED  BY <2>1 DEF Accesses
<1>7. reg_rdata' \in Data
  BY <1>1, <1>6 DEF PortEdge, RegisterBlock, Answers
<1>8. regs' \in [Registers -> Data]
  <2>1. reg_wbi_cs /\ access.op = "write" => access.dat \in Data
    BY <1>6, WbiAssumption DEF Accesses
  <2>. QED  BY <1>1, <2>1 DEF PortEdge, RegisterBlock
<1>. QED
  BY <1>2, <1>3, <1>4, <1>5, <1>7, <1>8 DEF PortTypeOK, HTypeOK, TypeOK, RequestsUp

LEMMA ServedStep ==
  ASSUME PortIInv, PortEdge
  PROVE  GrantedIsServed'
<1>. SUFFICES ASSUME reg_ack'
              PROVE  /\ performed' = <<gnt', access'>>
                     /\ regs'[access'.reg] = IF access'.op = "read" THEN reg_rdata'
                                              ELSE access'.dat
  BY DEF GrantedIsServed
<1>1. reg_wbi_cs /\ ~reg_ack
  BY DEF PortEdge, RegisterBlock, Answers
<1>2. gnt' = gnt /\ access' = access
  BY <1>1, AccessKept
<1>3. /\ regs \in [Registers -> Data] /\ access.reg \in Registers
      /\ access.op \in {"read", "write"}
  <2>1. regs \in [Registers -> Data] /\ access \in Accesses
    BY <1>1 DEF PortIInv, PortTypeOK, RequestsUp, reg_wbi_cs, access, HTypeOK, TypeOK
  <2>. QED  BY <2>1 DEF Accesses
<1>4. /\ performed' = <<gnt, access>> /\ reg_rdata' = regs[access.reg]
      /\ regs' = IF access.op = "write" THEN [regs EXCEPT ![access.reg] = access.dat] ELSE regs
  BY <1>1 DEF PortEdge, RegisterBlock, Answers
<1>. QED  BY <1>2, <1>3, <1>4

LEMMA PortInvariant == PortSpec => []PortIInv
<1>1. PortInit => PortIInv
  <2>. SUFFICES ASSUME PortInit PROVE PortIInv
    OBVIOUS
  <2>1. HTypeOK
    BY InitInv DEF PortInit, IInv
  <2>. QED  BY <2>1, WbiAssumption, WbArbAssumption
            DEF PortInit, HInit, Init, PortIInv, PortTypeOK, RequestsUp, GrantedIsServed
<1>2. PortIInv /\ [PortEdge]_portVars => PortIInv'
  <2>. SUFFICES ASSUME PortIInv, [PortEdge]_portVars PROVE PortIInv'
    OBVIOUS
  <2>1. CASE PortEdge
    BY <2>1, PortTypeStep, ServedStep DEF PortIInv
  <2>2. CASE UNCHANGED portVars
    BY <2>2 DEF portVars, vars, PortIInv, PortTypeOK, HTypeOK, TypeOK, RequestsUp,
                GrantedIsServed, access
  <2>. QED  BY <2>1, <2>2
<1>. QED  BY <1>1, <1>2, PTL DEF PortSpec

(* At every acknowledge of the register block the granted master's access   *)
(* was the one done, and a word read is still the register's, whatever the  *)
(* masters and registers are.                                               *)
THEOREM PortServesTheGranted == PortSpec => []PortInv
<1>1. PortIInv => PortInv
  BY DEF PortIInv, PortInv
<1>. QED  BY PortInvariant, <1>1, PTL

(* Each change of a register is a write of the granted master, and the next *)
(* edge acknowledges this write to it; in the cycle of an acknowledge no    *)
(* register changes, whatever the masters and the words are.                *)
THEOREM RegistersChangeOnce == PortSpec => ChangesAreAcked
<1>. DEFINE Acks == /\ ~reg_ack /\ reg_ack'
                    /\ gnt' = gnt /\ access' = access
                    /\ regs' = [regs EXCEPT ![access.reg] = access.dat]
<1>1. PortIInv /\ [PortEdge]_portVars => [regs' # regs => Acks]_portVars
  <2>. SUFFICES ASSUME PortIInv, PortEdge, regs' # regs PROVE Acks
    OBVIOUS
  <2>1. /\ reg_wbi_cs /\ access.op = "write"
        /\ regs' = [regs EXCEPT ![access.reg] = access.dat]
    BY DEF PortEdge, RegisterBlock
  <2>2. ~reg_ack
    <3>. SUFFICES ASSUME reg_ack PROVE FALSE
      OBVIOUS
    <3>1. regs[access.reg] = access.dat
      BY <2>1 DEF PortIInv, GrantedIsServed
    <3>2. regs \in [Registers -> Data]
      BY DEF PortIInv, PortTypeOK
    <3>. QED  BY <2>1, <3>1, <3>2
  <2>3. reg_ack'
    BY <2>1, <2>2 DEF PortEdge, RegisterBlock, Answers
  <2>. QED  BY <2>1, <2>2, <2>3, AccessKept
<1>. QED  BY PortInvariant, <1>1, PTL DEF PortSpec, ChangesAreAcked

==============================================================================
