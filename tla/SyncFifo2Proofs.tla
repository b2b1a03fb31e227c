--------------------------- MODULE SyncFifo2Proofs ---------------------------
(****************************************************************************)
(* The one-clock FIFO of sync_fifo2.sv is a bounded queue, for every depth. *)
(****************************************************************************)
EXTENDS SyncFifo2, FifoPtrProofs, TLAPS

(* The pointers are never further apart than the depth.  The type of the    *)
(* memory is part of it, for a word that is read must be one that was put.  *)
IInv ==
  /\ wr_ptr \in Ptrs /\ rd_ptr \in Ptrs
  /\ mem \in [0..(DP - 1) -> Data]
  /\ GetCnt(wr_ptr, rd_ptr) <= DP

LEMMA InvInit == Init => IInv
BY DepthPositive DEF Init, IInv, Ptrs, GetCnt

LEMMA InvStep ==
  ASSUME IInv, [Next]_vars
  PROVE  IInv'
<1>. DEFINE w == wr_ptr
            r == rd_ptr
            wN == wr_ptr'
            rN == rd_ptr'
<1>1. /\ w \in Ptrs /\ r \in Ptrs /\ GetCnt(w, r) <= DP
      /\ wN = w \/ (GetCnt(w, r) # DP /\ wN = Inc(w))
      /\ rN = r \/ (GetCnt(w, r) # 0 /\ rN = Inc(r))
  BY DEF IInv, Next, vars, Write, Read, full, empty, wr_cnt
<1>2. mem' \in [0..(DP - 1) -> Data]
  BY <1>1, CountType DEF IInv, Next, vars, Write
<1>. HIDE DEF w, r, wN, rN
<1>3. wN \in Ptrs /\ rN \in Ptrs /\ GetCnt(wN, rN) <= DP
  BY <1>1, DepthPositive DEF Ptrs, GetCnt, Inc
<1>. QED  BY <1>2, <1>3 DEF IInv, wN, rN

LEMMA RefinementStep ==
  ASSUME IInv, [Next]_vars
  PROVE  [Fifo!Next]_contents
<1>. DEFINE w == wr_ptr
            r == rd_ptr
            m == mem
<1>1. w \in Ptrs /\ r \in Ptrs /\ m \in [0..(DP - 1) -> Data]
  BY DEF IInv
<1>2. contents = Between(w, r, m) /\ contents' = Between(w', r', m')
  BY DEF contents
<1>3. contents \in Seq(Data) /\ Len(contents) = GetCnt(w, r)
  BY <1>1, <1>2, BetweenType
<1>4. GetCnt(w, r) \in Nat /\ GetCnt(w, r) <= DP
  <2>1. GetCnt(w, r) \in Nat
    BY <1>1, DepthPositive DEF Ptrs, GetCnt
  <2>. QED  BY <2>1 DEF IInv
<1>5. CASE w' = w /\ m' = m /\ r' = r
  BY <1>2, <1>5
<1>6. CASE w' = w /\ m' = m /\ Read
  <2>1. GetCnt(w, r) # 0 /\ r' = Inc(r)
    BY <1>6 DEF Read, empty, wr_cnt
  <2>2. contents' = Tail(contents)
    BY <1>1, <1>2, <1>6, <2>1, BetweenGet
  <2>3. contents # <<>>
    BY <1>3, <2>1
  <2>. QED  BY <2>2, <2>3 DEF Fifo!Next, Fifo!Get
<1>7. CASE r' = r /\ \E d \in Data : Write(d)
  <2>1. PICK d \in Data : Write(d)
    BY <1>7
  <2>2. GetCnt(w, r) < DP /\ w' = Inc(w) /\ m' = [m EXCEPT ![Slot(w)] = d]
    BY <1>4, <2>1, DepthPositive DEF Write, full, wr_cnt
  <2>3. contents' = Append(contents, d)
    BY <1>1, <1>2, <1>7, <2>2, BetweenPut
  <2>. QED  BY <1>3, <2>2, <2>3 DEF Fifo!Next, Fifo!Put
<1>8. CASE Read /\ \E d \in Data : Write(d)
  <2>1. PICK d \in Data : Write(d)
    BY <1>8
  <2>2. GetCnt(w, r) < DP /\ w' = Inc(w) /\ m' = [m EXCEPT ![Slot(w)] = d]
    BY <1>4, <2>1, DepthPositive DEF Write, full, wr_cnt
  <2>3. GetCnt(w, r) # 0 /\ r' = Inc(r)
    BY <1>8 DEF Read, empty, wr_cnt
  <2>4. Inc(r) \in Ptrs /\ GetCnt(w, Inc(r)) = GetCnt(w, r) - 1
    BY <1>1, <2>3, CountType, CountDown
  <2>5. GetCnt(w, Inc(r)) < DP
    BY <1>4, <2>2, <2>4, DepthPositive
  <2>6. contents' = Append(Between(w, Inc(r), m), d)
    BY <1>1, <1>2, <2>2, <2>3, <2>4, <2>5, BetweenPut
  <2>7. Between(w, Inc(r), m) = Tail(contents)
    BY <1>1, <1>2, <2>3, BetweenGet
  <2>8. contents # <<>>
    BY <1>3, <2>3
  <2>. QED  BY <1>3, <2>1, <2>2, <2>6, <2>7, <2>8 DEF Fifo!Next, Fifo!PutAndGet
<1>. QED  BY <1>5, <1>6, <1>7, <1>8 DEF Next, vars

(* The FIFO of the burst bridge is a bounded queue of its whole depth, also *)
(* when both sides move at once and when the pointers wrap, whatever the    *)
(* depth: SyncWbb may use a queue in its place.                             *)
THEOREM FifoRefinement == Spec => FifoSpec
<1>1. Init => Fifo!Init
  BY DEF Init, GetCnt, contents, Between, Fifo!Init
<1>2. IInv /\ [Next]_vars => [Fifo!Next]_contents
  BY RefinementStep
<1>3. Spec => []IInv
  BY InvInit, InvStep, PTL DEF Spec
<1>. QED  BY <1>1, <1>2, <1>3, PTL DEF Spec, FifoSpec, Fifo!Spec

==============================================================================
