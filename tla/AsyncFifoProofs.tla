--------------------------- MODULE AsyncFifoProofs ---------------------------
(****************************************************************************)
(* The dual-clock FIFO implements a bounded queue, for every depth and any  *)
(* relation of the two clocks.                                              *)
(****************************************************************************)
EXTENDS AsyncFifoGrey, FifoPtrProofs, TLAPS

------------------------------------------------------------------------------
(* The code of a pointer.                                                   *)

LEMMA CodeIsFunction ==
  ASSUME NEW p
  PROVE  bin2grey(p) = [i \in Bits |-> bin2grey(p)[i]]
BY Zenon DEF bin2grey

LEMMA CodeReadsBack ==
  ASSUME NEW p \in Ptrs
  PROVE  grey2bin(bin2grey(p)) = p
<1>1. p \in Words
  BY DepthAssumption DEF Ptrs, Words, Depths
<1>. QED  BY <1>1, GreyAssumption

(* Only one bit of the code moves with the pointer.                         *)
LEMMA CodeMovesOneBit ==
  ASSUME NEW p \in Ptrs
  PROVE  OneBitChanges(p, Inc(p))
<1>1. DP \in Depths
  BY DepthAssumption
<1>2. OneBitChanges(p, IF p = 2 * DP - 1 THEN 0 ELSE p + 1)
  BY <1>1, GreyAssumption DEF Ptrs
<1>. QED  BY <1>2 DEF Inc

(* A flop that samples an unchanging pointer catches it.                    *)
LEMMA CaughtAtRest ==
  ASSUME NEW p, NEW c \in Caught(bin2grey(p), bin2grey(p))
  PROVE  c = bin2grey(p)
<1>1. PICK late \in SUBSET {i \in Bits : bin2grey(p)[i] # bin2grey(p)[i]} :
         c = [i \in Bits |-> IF i \in late THEN bin2grey(p)[i] ELSE bin2grey(p)[i]]
  BY Zenon DEF Caught
<1>2. c = [i \in Bits |-> bin2grey(p)[i]]
  BY <1>1
<1>. QED  BY <1>2, CodeIsFunction, Zenon

(* A flop that samples a moving pointer catches the old or the new one:     *)
(* this is what the Gray code is for.                                       *)
LEMMA CaughtMoving ==
  ASSUME NEW p \in Ptrs, NEW c \in Caught(bin2grey(p), bin2grey(Inc(p)))
  PROVE  c = bin2grey(p) \/ c = bin2grey(Inc(p))
<1>. DEFINE old == bin2grey(p)
            new == bin2grey(Inc(p))
<1>1. /\ old = [i \in Bits |-> old[i]]
      /\ new = [i \in Bits |-> new[i]]
  BY CodeIsFunction
<1>2. PICK b \in Bits : \A j \in Bits \ {b} : old[j] = new[j]
  BY CodeMovesOneBit DEF OneBitChanges
<1>3. PICK late \in SUBSET {i \in Bits : old[i] # new[i]} :
         c = [i \in Bits |-> IF i \in late THEN old[i] ELSE new[i]]
  BY Zenon DEF Caught
<1>. HIDE DEF old, new
<1>4. CASE b \in late
  <2>1. \A i \in Bits : (IF i \in late THEN old[i] ELSE new[i]) = old[i]
    BY <1>2, <1>4
  <2>2. c = [i \in Bits |-> old[i]]
    BY <1>3, <2>1
  <2>. QED  BY <1>1, <2>2 DEF old
<1>5. CASE b \notin late
  <2>1. \A i \in Bits : (IF i \in late THEN old[i] ELSE new[i]) = new[i]
    BY <1>2, <1>5
  <2>2. c = [i \in Bits |-> new[i]]
    BY <1>3, <2>1
  <2>. QED  BY <1>1, <2>2 DEF new
<1>. QED  BY <1>4, <1>5

------------------------------------------------------------------------------
(* The inductive invariant.  Seen from the write pointer, the read pointer  *)
(* and the two ages of it that the synchronizer holds lie behind in order,  *)
(* none further than the depth; seen from the read pointer, the two ages of *)
(* the write pointer lie ahead in order, none past the pointer itself.      *)
(* Without the older ages the flags could not be shown to err on the safe   *)
(* side one clock later.                                                    *)
InOrder(wr, rd, seenRd, agedRd, seenWr, agedWr) ==
  /\ GetCnt(wr, rd) <= GetCnt(wr, seenRd)
  /\ GetCnt(wr, seenRd) <= GetCnt(wr, agedRd)
  /\ GetCnt(wr, agedRd) <= DP
  /\ GetCnt(agedWr, rd) <= GetCnt(seenWr, rd)
  /\ GetCnt(seenWr, rd) <= GetCnt(wr, rd)

PtrInv ==
  \E a0, a1, b0, b1 \in Ptrs :
    /\ sync_rd_ptr_0 = bin2grey(a0) /\ sync_rd_ptr_1 = bin2grey(a1)
    /\ sync_wr_ptr_0 = bin2grey(b0) /\ sync_wr_ptr_1 = bin2grey(b1)
    /\ InOrder(wr_ptr, rd_ptr, a0, a1, b0, b1)

IInv == TypeOK /\ PtrInv

(* A synchronizer's two flops hold what they held, or shift and take the    *)
(* pointer as it was before or after the edge.                              *)
LEMMA EdgeFacts ==
  ASSUME IInv, Next
  PROVE  /\ wr_ptr' = wr_ptr \/ (~full /\ wr_ptr' = Inc(wr_ptr))
         /\ rd_ptr' = rd_ptr \/ (~empty /\ rd_ptr' = Inc(rd_ptr))
         /\ wr_ptr' \in Ptrs /\ grey_wr_ptr' = bin2grey(wr_ptr')
         /\ rd_ptr' \in Ptrs /\ grey_rd_ptr' = bin2grey(rd_ptr')
         /\ mem' \in [0..(DP - 1) -> Data]
         /\ \/ sync_rd_ptr_0' = sync_rd_ptr_0 /\ sync_rd_ptr_1' = sync_rd_ptr_1
            \/ /\ sync_rd_ptr_0' \in {bin2grey(rd_ptr), bin2grey(rd_ptr')}
               /\ sync_rd_ptr_1' = sync_rd_ptr_0
         /\ \/ sync_wr_ptr_0' = sync_wr_ptr_0 /\ sync_wr_ptr_1' = sync_wr_ptr_1
            \/ /\ sync_wr_ptr_0' \in {bin2grey(wr_ptr), bin2grey(wr_ptr')}
               /\ sync_wr_ptr_1' = sync_wr_ptr_0
<1>. USE DEF IInv, TypeOK
<1>1. ASSUME WrSide
      PROVE  /\ wr_ptr' = wr_ptr \/ (~full /\ wr_ptr' = Inc(wr_ptr))
             /\ wr_ptr' \in Ptrs /\ grey_wr_ptr' = bin2grey(wr_ptr')
             /\ mem' \in [0..(DP - 1) -> Data]
  <2>1. CASE UNCHANGED wrPtrVars
    BY <2>1 DEF wrPtrVars
  <2>2. CASE \E d \in Data : Write(d)
    <3>1. PICK d \in Data : Write(d)
      BY <2>2
    <3>2. Inc(wr_ptr) \in Ptrs /\ Slot(wr_ptr) \in 0..(DP - 1)
      BY CountType
    <3>. QED  BY <3>1, <3>2 DEF Write
  <2>. QED  BY <1>1, <2>1, <2>2 DEF WrSide
<1>2. ASSUME RdSide
      PROVE  /\ rd_ptr' = rd_ptr \/ (~empty /\ rd_ptr' = Inc(rd_ptr))
             /\ rd_ptr' \in Ptrs /\ grey_rd_ptr' = bin2grey(rd_ptr')
  <2>1. CASE UNCHANGED rdPtrVars
    BY <2>1 DEF rdPtrVars
  <2>2. CASE Read
    BY <2>2, CountType DEF Read
  <2>. QED  BY <1>2, <2>1, <2>2 DEF RdSide
<1>3. CASE WrClock
  BY <1>1, <1>3 DEF WrClock, SyncRdPtr, rdPtrVars, rdSyncVars
<1>4. CASE RdClock
  BY <1>2, <1>4 DEF RdClock, SyncWrPtr, wrPtrVars, wrSyncVars
<1>5. CASE BothClocks
  <2>1. PICK c \in Caught(grey_rd_ptr, grey_rd_ptr') : SyncRdPtr(c)
    BY <1>5 DEF BothClocks
  <2>2. PICK e \in Caught(grey_wr_ptr, grey_wr_ptr') : SyncWrPtr(e)
    BY <1>5 DEF BothClocks
  <2>3. WrSide /\ RdSide
    BY <1>5 DEF BothClocks
  <2>4. c = bin2grey(rd_ptr) \/ c = bin2grey(rd_ptr')
    BY <1>2, <2>1, <2>3, CaughtAtRest, CaughtMoving
  <2>5. e = bin2grey(wr_ptr) \/ e = bin2grey(wr_ptr')
    BY <1>1, <2>2, <2>3, CaughtAtRest, CaughtMoving
  <2>. QED  BY <1>1, <1>2, <2>1, <2>2, <2>3, <2>4, <2>5 DEF SyncRdPtr, SyncWrPtr
<1>. QED  BY <1>3, <1>4, <1>5 DEF Next

LEMMA InvInit == Init => IInv
<1>. SUFFICES ASSUME Init PROVE IInv
  OBVIOUS
<1>1. 0 \in Ptrs
  BY DepthPositive DEF Ptrs
<1>2. TypeOK
  BY <1>1 DEF Init, TypeOK
<1>3. InOrder(0, 0, 0, 0, 0, 0)
  BY DepthPositive DEF InOrder, GetCnt
<1>4. PtrInv
  BY <1>1, <1>3 DEF Init, PtrInv
<1>. QED  BY <1>2, <1>4 DEF IInv

LEMMA InvStep ==
  ASSUME IInv, [Next]_vars
  PROVE  IInv'
<1>1. CASE Next
  <2>1. TypeOK'
    BY <1>1, EdgeFacts DEF IInv, TypeOK
  <2>2. /\ wr_ptr \in Ptrs /\ rd_ptr \in Ptrs /\ wr_ptr' \in Ptrs /\ rd_ptr' \in Ptrs
    BY <2>1 DEF IInv, TypeOK
  <2>3. PICK a0 \in Ptrs, a1 \in Ptrs, b0 \in Ptrs, b1 \in Ptrs :
          /\ sync_rd_ptr_0 = bin2grey(a0) /\ sync_rd_ptr_1 = bin2grey(a1)
          /\ sync_wr_ptr_0 = bin2grey(b0) /\ sync_wr_ptr_1 = bin2grey(b1)
          /\ InOrder(wr_ptr, rd_ptr, a0, a1, b0, b1)
    BY DEF IInv, PtrInv
  <2>4. PICK a0N \in Ptrs, a1N \in Ptrs :
          /\ sync_rd_ptr_0' = bin2grey(a0N) /\ sync_rd_ptr_1' = bin2grey(a1N)
          /\ (a0N = a0 /\ a1N = a1) \/ (a0N \in {rd_ptr, rd_ptr'} /\ a1N = a0)
    BY <1>1, <2>2, <2>3, EdgeFacts
  <2>5. PICK b0N \in Ptrs, b1N \in Ptrs :
          /\ sync_wr_ptr_0' = bin2grey(b0N) /\ sync_wr_ptr_1' = bin2grey(b1N)
          /\ (b0N = b0 /\ b1N = b1) \/ (b0N \in {wr_ptr, wr_ptr'} /\ b1N = b0)
    BY <1>1, <2>2, <2>3, EdgeFacts
  <2>6. /\ wr_ptr' = wr_ptr \/ (GetCnt(wr_ptr, a1) # DP /\ wr_ptr' = Inc(wr_ptr))
        /\ rd_ptr' = rd_ptr \/ (GetCnt(b1, rd_ptr) # 0 /\ rd_ptr' = Inc(rd_ptr))
    BY <1>1, <2>3, EdgeFacts, CodeReadsBack DEF full, empty, wr_cnt, rd_cnt
  <2>7. InOrder(wr_ptr', rd_ptr', a0N, a1N, b0N, b1N)
    <3>. DEFINE wr == wr_ptr
                rd == rd_ptr
                wrN == wr_ptr'
                rdN == rd_ptr'
    <3>1. /\ wr \in Ptrs /\ rd \in Ptrs /\ wrN \in Ptrs /\ rdN \in Ptrs
          /\ InOrder(wr, rd, a0, a1, b0, b1)
          /\ wrN = wr \/ (GetCnt(wr, a1) # DP /\ wrN = Inc(wr))
          /\ rdN = rd \/ (GetCnt(b1, rd) # 0 /\ rdN = Inc(rd))
          /\ (a0N = a0 /\ a1N = a1) \/ (a0N \in {rd, rdN} /\ a1N = a0)
          /\ (b0N = b0 /\ b1N = b1) \/ (b0N \in {wr, wrN} /\ b1N = b0)
      BY <2>2, <2>3, <2>4, <2>5, <2>6
    <3>. HIDE DEF wr, rd, wrN, rdN
    <3>2. InOrder(wrN, rd, a0, a1, b0, b1)
      BY <3>1, DepthPositive DEF Ptrs, GetCnt, Inc, InOrder
    <3>3. InOrder(wrN, rdN, a0, a1, b0, b1)
      BY <3>1, <3>2, DepthPositive DEF Ptrs, GetCnt, Inc, InOrder
    <3>4. /\ GetCnt(wrN, rdN) <= GetCnt(wrN, a0N)
          /\ GetCnt(wrN, a0N) <= GetCnt(wrN, a1N)
          /\ GetCnt(wrN, a1N) <= DP
      BY <3>1, <3>2, <3>3, DepthPositive DEF Ptrs, GetCnt, Inc, InOrder
    <3>5. /\ GetCnt(b1N, rdN) <= GetCnt(b0N, rdN)
          /\ GetCnt(b0N, rdN) <= GetCnt(wrN, rdN)
      BY <3>1, <3>3, DepthPositive DEF Ptrs, GetCnt, Inc, InOrder
    <3>. QED  BY <3>4, <3>5 DEF wrN, rdN, InOrder
  <2>8. PtrInv'
    BY <2>4, <2>5, <2>7 DEF PtrInv
  <2>. QED  BY <2>1, <2>8 DEF IInv
<1>2. CASE UNCHANGED vars
  BY <1>2 DEF vars, wrPtrVars, rdPtrVars, wrSyncVars, rdSyncVars, IInv, TypeOK,
              PtrInv, InOrder
<1>. QED  BY <1>1, <1>2

(* The inductive invariant holds of every reachable state.                  *)
THEOREM Invariance == Spec => []IInv
BY InvInit, InvStep, PTL DEF Spec

(* Every register of the FIFO stays in its range, and a synchronizer flop   *)
(* always holds the code of some pointer.                                   *)
THEOREM TypeCorrect == Spec => []TypeOK
<1>1. IInv => TypeOK
  BY DEF IInv
<1>. QED  BY <1>1, Invariance, PTL

(* full and empty err on the safe side only, at every depth.                *)
THEOREM FlagsConservativeHolds == Spec => []FlagsConservative
<1>1. IInv => FlagsConservative
  <2>. SUFFICES ASSUME IInv PROVE FlagsConservative
    OBVIOUS
  <2>1. wr_ptr \in Ptrs /\ rd_ptr \in Ptrs
    BY DEF IInv, TypeOK
  <2>2. PICK a0 \in Ptrs, a1 \in Ptrs, b0 \in Ptrs, b1 \in Ptrs :
          /\ sync_rd_ptr_1 = bin2grey(a1) /\ sync_wr_ptr_1 = bin2grey(b1)
          /\ InOrder(wr_ptr, rd_ptr, a0, a1, b0, b1)
    BY DEF IInv, PtrInv
  <2>3. /\ GetCnt(wr_ptr, rd_ptr) = DP => GetCnt(wr_ptr, a1) = DP
        /\ GetCnt(wr_ptr, rd_ptr) = 0 => GetCnt(b1, rd_ptr) = 0
    BY <2>1, <2>2, DepthPositive DEF InOrder, Ptrs, GetCnt
  <2>. QED  BY <2>2, <2>3, CodeReadsBack
            DEF FlagsConservative, full, empty, wr_cnt, rd_cnt
<1>. QED  BY <1>1, Invariance, PTL

------------------------------------------------------------------------------
(* Refinement.                                                              *)

(* The flags keep both ends honest: a write leaves room, a read has a word. *)
LEMMA FlagsHonest ==
  ASSUME IInv
  PROVE  /\ ~full => GetCnt(wr_ptr, rd_ptr) < DP
         /\ ~empty => GetCnt(wr_ptr, rd_ptr) # 0
<1>1. wr_ptr \in Ptrs /\ rd_ptr \in Ptrs
  BY DEF IInv, TypeOK
<1>2. PICK a0 \in Ptrs, a1 \in Ptrs, b0 \in Ptrs, b1 \in Ptrs :
        /\ sync_rd_ptr_1 = bin2grey(a1) /\ sync_wr_ptr_1 = bin2grey(b1)
        /\ InOrder(wr_ptr, rd_ptr, a0, a1, b0, b1)
  BY DEF IInv, PtrInv
<1>3. /\ GetCnt(wr_ptr, a1) # DP => GetCnt(wr_ptr, rd_ptr) < DP
      /\ GetCnt(b1, rd_ptr) # 0 => GetCnt(wr_ptr, rd_ptr) # 0
  BY <1>1, <1>2, DepthPositive DEF InOrder, Ptrs, GetCnt
<1>. QED  BY <1>2, <1>3, CodeReadsBack DEF full, empty, wr_cnt, rd_cnt

LEMMA RefinementInit == Init => Fifo!Init
<1>. SUFFICES ASSUME Init PROVE contents = <<>>
  BY DEF Fifo!Init
<1>1. GetCnt(wr_ptr, rd_ptr) = 0
  BY DEF Init, GetCnt
<1>. QED  BY <1>1 DEF contents, Between

LEMMA RefinementStep ==
  ASSUME IInv, [Next]_vars
  PROVE  [Fifo!Next]_contents
<1>. DEFINE w == wr_ptr
            r == rd_ptr
            m == mem
<1>1. w \in Ptrs /\ r \in Ptrs /\ m \in [0..(DP - 1) -> Data]
  BY DEF IInv, TypeOK
<1>2. contents = Between(w, r, m) /\ contents' = Between(w', r', m')
  BY DEF contents
<1>3. /\ contents \in Seq(Data) /\ Len(contents) = GetCnt(w, r)
  BY <1>1, <1>2, BetweenType
<1>4. ASSUME WrSide, RdSide
      PROVE  [Fifo!Next]_contents
  <2>1. CASE UNCHANGED wrPtrVars /\ UNCHANGED rdPtrVars
    BY <1>2, <2>1 DEF wrPtrVars, rdPtrVars
  <2>2. CASE UNCHANGED wrPtrVars /\ Read
    <3>1. GetCnt(w, r) # 0 /\ r' = Inc(r) /\ w' = w /\ m' = m
      BY <2>2, FlagsHonest DEF Read, wrPtrVars
    <3>2. contents' = Tail(contents)
      BY <1>1, <1>2, <3>1, BetweenGet
    <3>3. contents # <<>>
      BY <1>3, <3>1
    <3>. QED  BY <3>2, <3>3 DEF Fifo!Next, Fifo!Get
  <2>3. CASE UNCHANGED rdPtrVars /\ \E d \in Data : Write(d)
    <3>1. PICK d \in Data : Write(d)
      BY <2>3
    <3>2. GetCnt(w, r) < DP /\ w' = Inc(w) /\ r' = r /\ m' = [m EXCEPT ![Slot(w)] = d]
      BY <2>3, <3>1, FlagsHonest DEF Write, rdPtrVars
    <3>3. contents' = Append(contents, d)
      BY <1>1, <1>2, <3>2, BetweenPut
    <3>. QED  BY <1>3, <3>2, <3>3 DEF Fifo!Next, Fifo!Put
  <2>4. CASE Read /\ \E d \in Data : Write(d)
    <3>1. PICK d \in Data : Write(d)
      BY <2>4
    <3>2. /\ GetCnt(w, r) < DP /\ w' = Inc(w) /\ m' = [m EXCEPT ![Slot(w)] = d]
          /\ GetCnt(w, r) # 0 /\ r' = Inc(r)
      BY <2>4, <3>1, FlagsHonest DEF Write, Read
    <3>3. Inc(r) \in Ptrs /\ GetCnt(w, Inc(r)) < DP
      BY <1>1, <3>2, CountType, CountDown, DepthPositive
    <3>4. contents' = Append(Between(w, Inc(r), m), d)
      BY <1>1, <1>2, <3>2, <3>3, BetweenPut
    <3>5. Between(w, Inc(r), m) = Tail(contents)
      BY <1>1, <1>2, <3>2, BetweenGet
    <3>6. contents # <<>>
      BY <1>3, <3>2
    <3>. QED  BY <1>3, <3>2, <3>4, <3>5, <3>6 DEF Fifo!Next, Fifo!PutAndGet
  <2>. QED  BY <1>4, <2>1, <2>2, <2>3, <2>4 DEF WrSide, RdSide
<1>5. CASE WrClock
  BY <1>4, <1>5 DEF WrClock, RdSide, rdPtrVars
<1>6. CASE RdClock
  BY <1>4, <1>6 DEF RdClock, WrSide, wrPtrVars
<1>7. CASE BothClocks
  BY <1>4, <1>7 DEF BothClocks
<1>8. CASE UNCHANGED vars
  BY <1>2, <1>8 DEF vars, wrPtrVars, rdPtrVars
<1>. QED  BY <1>5, <1>6, <1>7, <1>8 DEF Next

(* The dual-clock FIFO is a bounded queue of its depth: no interleaving of  *)
(* the clocks, no coincidence of their edges and no stale pointer can lose, *)
(* overwrite or repeat a word.                                              *)
THEOREM FifoRefinement == Spec => FifoSpec
<1>1. Init => Fifo!Init
  BY RefinementInit
<1>2. IInv /\ [Next]_vars => [Fifo!Next]_contents
  BY RefinementStep
<1>. QED  BY <1>1, <1>2, Invariance, PTL DEF Spec, FifoSpec, Fifo!Spec

------------------------------------------------------------------------------
(* The lagging fill counts.                                                 *)

(* The words between the pointers after an edge on which one side, the      *)
(* other or both move.                                                      *)
LEMMA QueueMoves ==
  ASSUME IInv, Next
  PROVE  \E wr_en, rd_en \in BOOLEAN, d \in Data :
           /\ wr_ptr' = IF wr_en THEN Inc(wr_ptr) ELSE wr_ptr
           /\ rd_ptr' = IF rd_en THEN Inc(rd_ptr) ELSE rd_ptr
           /\ wr_en => ~full
           /\ rd_en => ~empty
           /\ WrClock => ~rd_en
           /\ RdClock => ~wr_en
           /\ contents' = (IF rd_en THEN Tail(contents) ELSE contents)
                            \o (IF wr_en THEN <<d>> ELSE <<>>)
<1>. DEFINE w == wr_ptr
            r == rd_ptr
            m == mem
            Moves(wr_en, rd_en, d) ==
              /\ w' = IF wr_en THEN Inc(w) ELSE w
              /\ r' = IF rd_en THEN Inc(r) ELSE r
              /\ wr_en => ~full /\ m' = [m EXCEPT ![Slot(w)] = d]
              /\ ~wr_en => m' = m
              /\ rd_en => ~empty
              /\ WrClock => ~rd_en
              /\ RdClock => ~wr_en
<1>1. w \in Ptrs /\ r \in Ptrs /\ m \in [0..(DP - 1) -> Data]
  BY DEF IInv, TypeOK
<1>2. PICK d0 : d0 \in Data
  BY <1>1, DepthPositive
<1>3. Inc(w) # w /\ Inc(r) # r
  BY <1>1, DepthPositive DEF Ptrs, Inc
<1>4. \E wr_en, rd_en \in BOOLEAN, d \in Data : Moves(wr_en, rd_en, d)
  <2>1. ASSUME WrSide
        PROVE  \/ w' = w /\ m' = m
               \/ \E d \in Data : ~full /\ w' = Inc(w) /\ m' = [m EXCEPT ![Slot(w)] = d]
    BY <2>1 DEF WrSide, Write, wrPtrVars
  <2>2. ASSUME RdSide
        PROVE  r' = r \/ (~empty /\ r' = Inc(r))
    BY <2>2 DEF RdSide, Read, rdPtrVars
  <2>3. CASE WrClock
    <3>1. WrSide /\ r' = r
      BY <2>3 DEF WrClock, rdPtrVars
    <3>2. RdClock => w' = w
      BY DEF RdClock, wrPtrVars
    <3>3. CASE w' = w /\ m' = m
      <4>1. Moves(FALSE, FALSE, d0)
        BY <3>1, <3>3
      <4>. QED  BY <4>1, <1>2
    <3>4. CASE ~(w' = w /\ m' = m)
      <4>1. PICK d \in Data : ~full /\ w' = Inc(w) /\ m' = [m EXCEPT ![Slot(w)] = d]
        BY <2>1, <3>1, <3>4
      <4>2. Moves(TRUE, FALSE, d)
        BY <1>3, <3>1, <3>2, <4>1
      <4>. QED  BY <4>2
    <3>. QED  BY <3>3, <3>4
  <2>4. CASE RdClock
    <3>1. RdSide /\ w' = w /\ m' = m
      BY <2>4 DEF RdClock, wrPtrVars
    <3>2. WrClock => r' = r
      BY DEF WrClock, rdPtrVars
    <3>3. CASE r' = r
      <4>1. Moves(FALSE, FALSE, d0)
        BY <3>1, <3>3
      <4>. QED  BY <4>1, <1>2
    <3>4. CASE r' # r
      <4>1. Moves(FALSE, TRUE, d0)
        BY <1>3, <2>2, <3>1, <3>2, <3>4
      <4>. QED  BY <4>1, <1>2
    <3>. QED  BY <3>3, <3>4
  <2>5. CASE BothClocks
    <3>1. WrSide /\ RdSide
      BY <2>5 DEF BothClocks
    <3>2. (WrClock => r' = r) /\ (RdClock => w' = w)
      BY DEF WrClock, rdPtrVars, RdClock, wrPtrVars
    <3>. DEFINE re == r' # r
    <3>3. CASE w' = w /\ m' = m
      <4>1. Moves(FALSE, re, d0)
        BY <1>3, <2>2, <3>1, <3>2, <3>3
      <4>. QED  BY <4>1, <1>2
    <3>4. CASE ~(w' = w /\ m' = m)
      <4>1. PICK d \in Data : ~full /\ w' = Inc(w) /\ m' = [m EXCEPT ![Slot(w)] = d]
        BY <2>1, <3>1, <3>4
      <4>2. Moves(TRUE, re, d)
        BY <1>3, <2>2, <3>1, <3>2, <4>1
      <4>. QED  BY <4>2
    <3>. QED  BY <3>3, <3>4
  <2>. QED  BY <2>3, <2>4, <2>5 DEF Next
<1>5. PICK wr_en \in BOOLEAN, rd_en \in BOOLEAN, d \in Data : Moves(wr_en, rd_en, d)
  BY <1>4
<1>. DEFINE rN == IF rd_en THEN Inc(r) ELSE r
            wN == IF wr_en THEN Inc(w) ELSE w
            mN == IF wr_en THEN [m EXCEPT ![Slot(w)] = d] ELSE m
            taken == Between(w, rN, m)
<1>6. contents' = Between(wN, rN, mN)
  BY <1>5 DEF contents
<1>7. (wr_en => GetCnt(w, r) < DP) /\ (rd_en => GetCnt(w, r) # 0)
  BY <1>5, FlagsHonest
<1>8. /\ taken = IF rd_en THEN Tail(contents) ELSE contents
      /\ rN \in Ptrs
      /\ wr_en => GetCnt(w, rN) < DP
  <2>1. CASE rd_en
    <3>1. taken = Tail(contents)
      BY <1>1, <1>7, <2>1, BetweenGet DEF contents
    <3>2. Inc(r) \in Ptrs /\ GetCnt(w, Inc(r)) = GetCnt(w, r) - 1 /\ GetCnt(w, r) \in Nat
      BY <1>1, <1>7, <2>1, CountType, CountDown
    <3>. HIDE DEF taken
    <3>. QED  BY <1>7, <2>1, <3>1, <3>2, DepthPositive
  <2>2. CASE ~rd_en
    BY <1>1, <1>7, <2>2 DEF contents
  <2>. QED  BY <2>1, <2>2
<1>9. taken \in Seq(Data)
  BY <1>1, <1>8, BetweenType
<1>10. CASE wr_en
  <2>1. contents' = Append(taken, d)
    BY <1>1, <1>6, <1>8, <1>10, BetweenPut
  <2>. HIDE DEF taken
  <2>2. Append(taken, d) = taken \o <<d>>
    BY <1>9
  <2>. QED  BY <1>5, <1>8, <1>10, <2>1, <2>2
<1>11. CASE ~wr_en
  <2>1. contents' = taken
    BY <1>6, <1>11
  <2>. HIDE DEF taken
  <2>2. taken = taken \o <<>>
    BY <1>9
  <2>. QED  BY <1>5, <1>8, <1>11, <2>1, <2>2
<1>. QED  BY <1>10, <1>11

LEMMA LaggedInit == Init => Lagged!Init
<1>. SUFFICES ASSUME Init PROVE Lagged!Init
  OBVIOUS
<1>1. contents = <<>>
  BY RefinementInit DEF Fifo!Init
<1>2. 0 \in Ptrs /\ GetCnt(0, 0) = 0
  BY DepthPositive DEF Ptrs, GetCnt
<1>3. Ahead(bin2grey(0), bin2grey(0)) = 0
  BY <1>2, CodeReadsBack DEF Ahead
<1>. QED  BY <1>1, <1>3 DEF Init, Lagged!Init, freed, fresh

LEMMA LaggedStep ==
  ASSUME IInv, [Next]_vars
  PROVE  [Lagged!Next]_(Lagged!vars)
<1>1. CASE Next
  <2>. DEFINE wr == wr_ptr
              rd == rd_ptr
  <2>1. wr \in Ptrs /\ rd \in Ptrs /\ wr' \in Ptrs /\ rd' \in Ptrs
    BY <1>1, EdgeFacts DEF IInv, TypeOK
  <2>2. PICK a0 \in Ptrs, a1 \in Ptrs, b0 \in Ptrs, b1 \in Ptrs :
          /\ sync_rd_ptr_0 = bin2grey(a0) /\ sync_rd_ptr_1 = bin2grey(a1)
          /\ sync_wr_ptr_0 = bin2grey(b0) /\ sync_wr_ptr_1 = bin2grey(b1)
          /\ InOrder(wr, rd, a0, a1, b0, b1)
    BY DEF IInv, PtrInv
  <2>3. PICK wr_en \in BOOLEAN, rd_en \in BOOLEAN, d \in Data :
          /\ wr' = IF wr_en THEN Inc(wr) ELSE wr
          /\ rd' = IF rd_en THEN Inc(rd) ELSE rd
          /\ wr_en => ~full
          /\ rd_en => ~empty
          /\ WrClock => ~rd_en
          /\ RdClock => ~wr_en
          /\ contents' = (IF rd_en THEN Tail(contents) ELSE contents)
                           \o (IF wr_en THEN <<d>> ELSE <<>>)
    BY <1>1, QueueMoves
  <2>4. /\ grey_wr_ptr = bin2grey(wr) /\ grey_wr_ptr' = bin2grey(wr')
        /\ grey_rd_ptr = bin2grey(rd) /\ grey_rd_ptr' = bin2grey(rd')
    BY <1>1, EdgeFacts DEF IInv, TypeOK
  <2>5. /\ freed = <<GetCnt(rd, a0), GetCnt(a0, a1)>>
        /\ fresh = <<GetCnt(wr, b0), GetCnt(b0, b1)>>
    BY <2>1, <2>2, <2>4, CodeReadsBack DEF freed, fresh, Ahead
  <2>6. contents \in Seq(Data) /\ Len(contents) = GetCnt(wr, rd)
    BY BetweenType DEF contents, IInv, TypeOK
  <2>7. Lagged!wr_cnt = GetCnt(wr, a1) /\ Lagged!rd_cnt = GetCnt(b1, rd)
    <3>1. /\ GetCnt(wr, rd) + GetCnt(rd, a0) + GetCnt(a0, a1) = GetCnt(wr, a1)
          /\ GetCnt(wr, rd) - GetCnt(wr, b0) - GetCnt(b0, b1) = GetCnt(b1, rd)
      BY <2>1, <2>2, DepthPositive DEF InOrder, Ptrs, GetCnt
    <3>. QED  BY <2>5, <2>6, <3>1 DEF Lagged!wr_cnt, Lagged!rd_cnt
  <2>8. /\ GetCnt(wr, a1) \in 0..DP
        /\ GetCnt(b1, rd) \in Nat
        /\ wr_en => GetCnt(wr, a1) # DP
        /\ rd_en => GetCnt(b1, rd) # 0
    <3>1. GetCnt(wr, a1) \in 0..DP /\ GetCnt(b1, rd) \in Nat
      BY <2>1, <2>2, DepthPositive DEF InOrder, Ptrs, GetCnt
    <3>. QED  BY <2>2, <2>3, <3>1, CodeReadsBack DEF full, empty, wr_cnt, rd_cnt
  <2>9. Lagged!MayWrite(wr_en) /\ Lagged!MayRead(rd_en)
    BY <2>7, <2>8, DepthPositive DEF Lagged!MayWrite, Lagged!MayRead
  \* The counts that a pointer's move adds to.
  <2>10. /\ GetCnt(wr', b0) = GetCnt(wr, b0) + Lagged!Bit(wr_en)
         /\ GetCnt(rd', a0) = GetCnt(rd, a0) + Lagged!Bit(rd_en)
         /\ GetCnt(wr', wr) = Lagged!Bit(wr_en) /\ GetCnt(rd', rd) = Lagged!Bit(rd_en)
         /\ GetCnt(wr', wr') = 0 /\ GetCnt(rd', rd') = 0
         /\ GetCnt(wr, wr) = 0 /\ GetCnt(rd, rd) = 0
         /\ GetCnt(wr, b0) \in Nat /\ GetCnt(rd, a0) \in Nat
    <3>1. GetCnt(wr, b0) <= DP /\ GetCnt(rd, a0) <= DP
      BY <2>1, <2>2, DepthPositive DEF InOrder, Ptrs, GetCnt
    <3>2. GetCnt(wr, wr) = 0 /\ GetCnt(rd, rd) = 0 /\ 0 <= DP
      BY <2>1, CountType, DepthPositive
    <3>3. /\ GetCnt(Inc(wr), b0) = GetCnt(wr, b0) + 1
          /\ GetCnt(Inc(rd), a0) = GetCnt(rd, a0) + 1
          /\ GetCnt(Inc(wr), wr) = 1 /\ GetCnt(Inc(rd), rd) = 1
      BY <2>1, <2>2, <3>1, <3>2, CountUp
    <3>4. GetCnt(wr, b0) \in Nat /\ GetCnt(rd, a0) \in Nat
      BY <2>1, <2>2, DepthPositive DEF Ptrs, GetCnt
    <3>5. GetCnt(wr', wr') = 0 /\ GetCnt(rd', rd') = 0
      BY <2>1, CountType
    <3>. QED  BY <2>3, <3>2, <3>3, <3>4, <3>5 DEF Lagged!Bit
  <2>11. ASSUME NEW a0N \in Ptrs, NEW a1N \in Ptrs,
                sync_rd_ptr_0' = bin2grey(a0N), sync_rd_ptr_1' = bin2grey(a1N)
         PROVE  freed' = <<GetCnt(rd', a0N), GetCnt(a0N, a1N)>>
    BY <2>1, <2>4, <2>11, CodeReadsBack DEF freed, Ahead
  <2>12. ASSUME NEW b0N \in Ptrs, NEW b1N \in Ptrs,
                sync_wr_ptr_0' = bin2grey(b0N), sync_wr_ptr_1' = bin2grey(b1N)
         PROVE  fresh' = <<GetCnt(wr', b0N), GetCnt(b0N, b1N)>>
    BY <2>1, <2>4, <2>12, CodeReadsBack DEF fresh, Ahead
  <2>13. CASE WrClock
    <3>1. ~rd_en /\ rd' = rd
      BY <2>3, <2>13
    <3>2. /\ sync_rd_ptr_0' = bin2grey(rd) /\ sync_rd_ptr_1' = bin2grey(a0)
          /\ sync_wr_ptr_0' = bin2grey(b0) /\ sync_wr_ptr_1' = bin2grey(b1)
      BY <2>2, <2>4, <2>13 DEF WrClock, SyncRdPtr, rdSyncVars
    <3>3. freed' = <<0, GetCnt(rd, a0)>>
      BY <2>1, <2>2, <2>10, <2>11, <3>1, <3>2
    <3>4. fresh' = <<GetCnt(wr, b0) + Lagged!Bit(wr_en), GetCnt(b0, b1)>>
      BY <2>1, <2>2, <2>10, <2>12, <3>2
    <3>5. contents' = IF wr_en THEN Append(contents, d) ELSE contents
      BY <2>3, <2>6, <3>1
    <3>6. Lagged!WrEdge(wr_en, d)
      BY <2>5, <2>9, <3>3, <3>4, <3>5 DEF Lagged!WrEdge
    <3>. QED  BY <3>6 DEF Lagged!Next
  <2>14. CASE RdClock
    <3>1. ~wr_en /\ wr' = wr
      BY <2>3, <2>14
    <3>2. /\ sync_wr_ptr_0' = bin2grey(wr) /\ sync_wr_ptr_1' = bin2grey(b0)
          /\ sync_rd_ptr_0' = bin2grey(a0) /\ sync_rd_ptr_1' = bin2grey(a1)
      BY <2>2, <2>4, <2>14 DEF RdClock, SyncWrPtr, wrSyncVars
    <3>3. freed' = <<GetCnt(rd, a0) + Lagged!Bit(rd_en), GetCnt(a0, a1)>>
      BY <2>1, <2>2, <2>10, <2>11, <3>2
    <3>4. fresh' = <<0, GetCnt(wr, b0)>>
      BY <2>1, <2>2, <2>10, <2>12, <3>1, <3>2
    <3>5. rd_en => contents # <<>>
      BY <2>6, FlagsHonest, <2>3
    <3>6. contents' = IF rd_en THEN Tail(contents) ELSE contents
      BY <2>3, <2>6, <3>1, <3>5
    <3>7. Lagged!RdEdge(rd_en)
      BY <2>5, <2>9, <3>3, <3>4, <3>6 DEF Lagged!RdEdge
    <3>. QED  BY <3>7 DEF Lagged!Next
  <2>15. CASE BothClocks
    <3>1. PICK c \in Caught(grey_rd_ptr, grey_rd_ptr') : SyncRdPtr(c)
      BY <2>15 DEF BothClocks
    <3>2. PICK e \in Caught(grey_wr_ptr, grey_wr_ptr') : SyncWrPtr(e)
      BY <2>15 DEF BothClocks
    <3>3. c = bin2grey(rd) \/ c = bin2grey(rd')
      BY <2>1, <2>3, <2>4, <3>1, CaughtAtRest, CaughtMoving
    <3>4. e = bin2grey(wr) \/ e = bin2grey(wr')
      BY <2>1, <2>3, <2>4, <3>2, CaughtAtRest, CaughtMoving
    <3>0. /\ Lagged!Bit(wr_en) \in 0..1 /\ Lagged!Bit(rd_en) \in 0..1
          /\ freed[1] \in Nat /\ fresh[1] \in Nat
          /\ freed[1] = GetCnt(rd, a0) /\ fresh[1] = GetCnt(wr, b0)
          /\ \A n \in Nat, b \in 0..1 : n + b - b = n /\ n + b - 0 = n + b
          /\ \A b \in 0..1 : b \in 0..b /\ 0 \in 0..b
      BY <2>5, <2>10 DEF Lagged!Bit
    <3>5. \E late \in 0..Lagged!Bit(rd_en) :
            freed' = <<late, freed[1] + Lagged!Bit(rd_en) - late>>
      <4>1. CASE c = bin2grey(rd)
        <5>1. freed' = <<Lagged!Bit(rd_en), GetCnt(rd, a0)>>
          BY <2>1, <2>2, <2>10, <2>11, <3>1, <4>1 DEF SyncRdPtr
        <5>. QED  BY <2>5, <3>0, <5>1
      <4>2. CASE c = bin2grey(rd')
        <5>1. freed' = <<0, GetCnt(rd, a0) + Lagged!Bit(rd_en)>>
          BY <2>1, <2>2, <2>10, <2>11, <3>1, <4>2 DEF SyncRdPtr
        <5>. QED  BY <2>5, <3>0, <5>1
      <4>. QED  BY <3>3, <4>1, <4>2
    <3>6. \E late \in 0..Lagged!Bit(wr_en) :
            fresh' = <<late, fresh[1] + Lagged!Bit(wr_en) - late>>
      <4>1. CASE e = bin2grey(wr)
        <5>1. fresh' = <<Lagged!Bit(wr_en), GetCnt(wr, b0)>>
          BY <2>1, <2>2, <2>10, <2>12, <3>2, <4>1 DEF SyncWrPtr
        <5>. QED  BY <2>5, <3>0, <5>1
      <4>2. CASE e = bin2grey(wr')
        <5>1. fresh' = <<0, GetCnt(wr, b0) + Lagged!Bit(wr_en)>>
          BY <2>1, <2>2, <2>10, <2>12, <3>2, <4>2 DEF SyncWrPtr
        <5>. QED  BY <2>5, <3>0, <5>1
      <4>. QED  BY <3>4, <4>1, <4>2
    <3>7. Lagged!BothEdges(wr_en, d, rd_en)
      BY <2>3, <2>9, <3>5, <3>6 DEF Lagged!BothEdges
    <3>. QED  BY <3>7 DEF Lagged!Next
  <2>. QED  BY <1>1, <2>13, <2>14, <2>15 DEF Next
<1>2. CASE UNCHANGED vars
  BY <1>2 DEF vars, wrPtrVars, rdPtrVars, wrSyncVars, rdSyncVars, Lagged!vars,
              contents, freed, fresh, Ahead
<1>. QED  BY <1>1, <1>2

(* What a side of the FIFO knows of the other lags by the two flops and by  *)
(* nothing else, at every depth: the bridges between the clocks may be      *)
(* checked with LaggedFifo in the FIFO's place.                             *)
THEOREM LaggedRefinement == Spec => LaggedSpec
<1>1. Init => Lagged!Init
  BY LaggedInit
<1>2. IInv /\ [Next]_vars => [Lagged!Next]_(Lagged!vars)
  BY LaggedStep
<1>. QED  BY <1>1, <1>2, Invariance, PTL DEF Spec, LaggedSpec, Lagged!Spec

==============================================================================
