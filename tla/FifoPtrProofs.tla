---------------------------- MODULE FifoPtrProofs ----------------------------
(****************************************************************************)
(* Facts about FIFO pointers and the words between two of them, for every   *)
(* depth.                                                                   *)
(****************************************************************************)
EXTENDS FifoPtr, Sequences, TLAPS

------------------------------------------------------------------------------
(* Pointer arithmetic.                                                      *)

LEMMA DepthPositive == DP \in Nat /\ DP >= 2
BY DepthAssumption DEF Depths

LEMMA CountType ==
  ASSUME NEW w \in Ptrs, NEW r \in Ptrs
  PROVE  /\ GetCnt(w, r) \in 0..(2 * DP - 1)
         /\ Inc(w) \in Ptrs
         /\ GetCnt(w, w) = 0
         /\ Slot(w) \in 0..(DP - 1)
BY DepthPositive DEF Ptrs, GetCnt, Inc, Slot

(* A write moves the write pointer one further away from any other.         *)
LEMMA CountUp ==
  ASSUME NEW w \in Ptrs, NEW r \in Ptrs, GetCnt(w, r) <= DP
  PROVE  GetCnt(Inc(w), r) = GetCnt(w, r) + 1
BY DepthPositive DEF Ptrs, GetCnt, Inc

(* A read moves the read pointer one closer to any write pointer it has not *)
(* reached.                                                                 *)
LEMMA CountDown ==
  ASSUME NEW w \in Ptrs, NEW r \in Ptrs, GetCnt(w, r) # 0
  PROVE  GetCnt(w, Inc(r)) = GetCnt(w, r) - 1
BY DepthPositive DEF Ptrs, GetCnt, Inc

------------------------------------------------------------------------------
(* The words between the pointers.                                          *)

LEMMA BetweenType ==
  ASSUME NEW w \in Ptrs, NEW r \in Ptrs, NEW m \in [0..(DP - 1) -> Data]
  PROVE  /\ Between(w, r, m) \in Seq(Data)
         /\ Len(Between(w, r, m)) = GetCnt(w, r)
<1>1. GetCnt(w, r) \in Nat
  BY CountType, DepthPositive
<1>2. ASSUME NEW i \in 1..GetCnt(w, r)
      PROVE  m[Slot(Advance(r, i - 1))] \in Data
  <2>1. Slot(Advance(r, i - 1)) \in 0..(DP - 1)
    BY DepthPositive DEF Ptrs, GetCnt, Slot, Advance
  <2>. QED  BY <2>1
<1>. QED  BY <1>1, <1>2 DEF Between

(* A word is stored past the ones in use, whatever part of the memory they  *)
(* wrap around.                                                             *)
LEMMA BetweenPut ==
  ASSUME NEW w \in Ptrs, NEW r \in Ptrs, NEW m \in [0..(DP - 1) -> Data],
         NEW d \in Data, GetCnt(w, r) < DP
  PROVE  Between(Inc(w), r, [m EXCEPT ![Slot(w)] = d]) = Append(Between(w, r, m), d)
<1>. DEFINE n == GetCnt(w, r)
            mN == [m EXCEPT ![Slot(w)] = d]
            old == Between(w, r, m)
            new == Between(Inc(w), r, mN)
<1>1. n \in Nat /\ Slot(w) \in 0..(DP - 1) /\ Inc(w) \in Ptrs
  BY CountType, DepthPositive
<1>2. GetCnt(Inc(w), r) = n + 1
  BY CountUp, DepthPositive, CountType
<1>3. \A i \in 1..n : /\ Slot(Advance(r, i - 1)) # Slot(w)
                      /\ Slot(Advance(r, i - 1)) \in 0..(DP - 1)
  BY DepthPositive DEF Ptrs, GetCnt, Slot, Advance
<1>4. Slot(Advance(r, n)) = Slot(w)
  BY DepthPositive DEF Ptrs, GetCnt, Slot, Advance
<1>5. old \in Seq(Data) /\ Len(old) = n
  BY BetweenType
<1>6. mN \in [0..(DP - 1) -> Data]
  BY <1>1
<1>7. new \in Seq(Data) /\ Len(new) = n + 1
  BY <1>1, <1>2, <1>6, BetweenType
<1>8. \A i \in 1..n : new[i] = old[i]
  BY <1>1, <1>2, <1>3 DEF Between
<1>9. new[n + 1] = d
  BY <1>1, <1>2, <1>4 DEF Between
<1>. HIDE DEF old, new, n
<1>10. new = Append(old, d)
  BY <1>1, <1>5, <1>7, <1>8, <1>9
<1>. QED  BY <1>10 DEF old, new

(* Reading drops the oldest word.                                           *)
LEMMA BetweenGet ==
  ASSUME NEW w \in Ptrs, NEW r \in Ptrs, NEW m \in [0..(DP - 1) -> Data],
         GetCnt(w, r) # 0
  PROVE  Between(w, Inc(r), m) = Tail(Between(w, r, m))
<1>. DEFINE n == GetCnt(w, r)
            old == Between(w, r, m)
            new == Between(w, Inc(r), m)
<1>1. n \in Nat /\ Inc(r) \in Ptrs /\ GetCnt(w, Inc(r)) = n - 1
  BY CountType, CountDown, DepthPositive
<1>2. \A i \in 1..(n - 1) : Advance(Inc(r), i - 1) = Advance(r, (i + 1) - 1)
  BY DepthPositive DEF Ptrs, GetCnt, Inc, Advance
<1>3. old \in Seq(Data) /\ Len(old) = n /\ new \in Seq(Data) /\ Len(new) = n - 1
  BY <1>1, BetweenType
<1>4. \A i \in 1..(n - 1) : new[i] = old[i + 1]
  BY <1>1, <1>2 DEF Between
<1>. HIDE DEF old, new, n
<1>5. new = Tail(old)
  BY <1>1, <1>3, <1>4
<1>. QED  BY <1>5 DEF old, new

==============================================================================
