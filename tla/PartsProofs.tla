----------------------------- MODULE PartsProofs ----------------------------
(***************************************************************************)
(* Proofs about the parts whose properties are safety only, each for every *)
(* value of its constants: the ring buffer (RingBuffer), the managed       *)
(* memory (ManagedMemory), the key matrix (KeyMatrix), the keyboard from   *)
(* the matrix to the dongle (Keyboard), the receiver in the vacuum cleaner *)
(* (VacuumReceiver) and the attribute server (BltAtt); and about all of    *)
(* them, with the pairing (DonglePairing), side by side (MCParts).         *)
(***************************************************************************)
EXTENDS MCParts, DonglePairingProofs, SequenceTheorems, FiniteSetTheorems, TLAPS

-----------------------------------------------------------------------------
(***************************************************************************)
(* The ring buffer of proj/common/ringbuffer.h, for every size and every   *)
(* order of the two threads' steps.  The invariant says what sount means   *)
(* while the two threads are under way: the pointers are ahead of it by    *)
(* what has been moved and not yet counted.  Neither thread gets more      *)
(* room, or more bytes, than it was promised when it looked.               *)
(***************************************************************************)

RbOne(b) == IF b THEN 1 ELSE 0

\* The bytes between the pointers, and the place of the k-th of them.
RbUsed == rb_put - rb_got
RbPlace(k) == IF rb_out + k - 1 < RbSize THEN rb_out + k - 1 ELSE rb_out + k - 1 - RbSize

RbCounted ==
  /\ RbUsed = rb_sount + RbOne(rb_inserting = "moved") - RbOne(rb_removing = "moved")
  /\ rb_inserting # "idle" => rb_sount < RbSize
  /\ rb_removing # "idle" => rb_sount > 0

RbFilled ==
  /\ rb_in = RbPlace(RbUsed + 1)
  /\ \A k \in 1..RbUsed : rb_data[RbPlace(k)] = rb_got + k

RbInv == RbTypeOK /\ RbCounted /\ RbFilled

-----------------------------------------------------------------------------
\* The bytes between the pointers fit, and a thread that has looked finds what it saw.
LEMMA RbUsedFits ==
  ASSUME RbTypeOK, RbCounted
  PROVE  /\ RbUsed \in 0..RbSize
         /\ rb_inserting = "checked" => RbUsed < RbSize
         /\ rb_removing = "checked" => RbUsed > 0
  BY RbAssumption DEF RbTypeOK, RbCounted, RbPlaces, RbPc, RbUsed, RbOne

\* RbPlacesFit are in the buffer, and two of a full ring are different.
LEMMA RbPlacesFit ==
  ASSUME RbTypeOK
  PROVE  /\ \A k \in 1..RbSize + 1 : RbPlace(k) \in RbPlaces
         /\ \A j, k \in 1..RbSize : RbPlace(j) = RbPlace(k) => j = k
  BY RbAssumption DEF RbTypeOK, RbPlaces, RbPlace

LEMMA RbInitInv == RbInit => RbInv
  BY RbAssumption DEF RbInit, RbInv, RbTypeOK, RbCounted, RbFilled, RbPlaces, RbPc, RbUsed, RbOne, RbPlace

\* What a step that moves neither pointer keeps.
LEMMA RbPointersKept ==
  ASSUME RbFilled, UNCHANGED <<rb_data, rb_in, rb_out, rb_put, rb_got>>
  PROVE  RbFilled'
  BY DEF RbFilled, RbUsed, RbPlace

LEMMA RbInsertInv == RbInv /\ RbInsert => RbInv'
<1> SUFFICES ASSUME RbInv, RbInsert PROVE RbInv'
  OBVIOUS
<1> USE RbAssumption
<1>1. RbUsed \in 0..RbSize /\ RbUsed < RbSize
  BY RbUsedFits DEF RbInv, RbInsert
<1>2. rb_in = RbPlace(RbUsed + 1) /\ rb_in \in RbPlaces
  BY DEF RbInv, RbFilled, RbTypeOK
<1>3. rb_put \in Nat /\ rb_got \in Nat /\ rb_put = rb_got + RbUsed
  BY DEF RbInv, RbTypeOK, RbUsed
<1>4. RbAdvance(rb_in) = RbPlace(RbUsed + 2) /\ RbAdvance(rb_in) \in RbPlaces
  BY <1>1, <1>2 DEF RbInv, RbTypeOK, RbPlaces, RbAdvance, RbPlace
<1>5. RbTypeOK'
  BY <1>3, <1>4 DEF RbInv, RbTypeOK, RbInsert, RbPc
<1>6. RbCounted'
  BY <1>3 DEF RbInv, RbTypeOK, RbCounted, RbInsert, RbUsed, RbOne
<1>7. /\ RbUsed' = RbUsed + 1
      /\ \A k : RbPlace(k)' = RbPlace(k)
      /\ rb_got' = rb_got
  BY <1>3 DEF RbInsert, RbUsed, RbPlace
<1>8. rb_in' = RbPlace(RbUsed + 1)'
  BY <1>1, <1>4, <1>7 DEF RbInsert
<1>9. ASSUME NEW k \in 1..RbUsed + 1 PROVE rb_data'[RbPlace(k)] = rb_got + k
  <2>1. rb_data' = [rb_data EXCEPT ![rb_in] = rb_put + 1]
    BY DEF RbInsert
  <2>2. k \in 1..RbSize /\ RbUsed + 1 \in 1..RbSize
    BY <1>1
  <2>3. RbPlace(k) \in RbPlaces /\ (RbPlace(k) = rb_in => k = RbUsed + 1)
    BY <1>2, <2>2, RbPlacesFit DEF RbInv
  <2>4. CASE k = RbUsed + 1
    <3>1. RbPlace(k) = rb_in
      BY <1>2, <2>4
    <3>2. rb_data'[rb_in] = rb_put + 1
      BY <1>2, <2>1 DEF RbInv, RbTypeOK
    <3>3. rb_put + 1 = rb_got + k
      BY <1>1, <1>3, <2>4
    <3> QED BY <3>1, <3>2, <3>3
  <2>5. CASE k # RbUsed + 1
    <3>1. k \in 1..RbUsed
      BY <1>1, <2>5
    <3> QED BY <2>1, <2>3, <2>5, <3>1 DEF RbInv, RbTypeOK, RbFilled
  <2> QED BY <2>4, <2>5
<1>10. RbFilled'
  BY <1>7, <1>8, <1>9 DEF RbFilled
<1> QED BY <1>5, <1>6, <1>10 DEF RbInv

LEMMA RbRemoveInv ==
  RbInv /\ RbRemove => RbInv' /\ rb_got < rb_put /\ rb_last' = rb_got + 1
<1> SUFFICES ASSUME RbInv, RbRemove
             PROVE  RbInv' /\ rb_got < rb_put /\ rb_last' = rb_got + 1
  OBVIOUS
<1> USE RbAssumption
<1>1. RbUsed \in 0..RbSize /\ RbUsed > 0
  BY RbUsedFits DEF RbInv, RbRemove
<1>2. rb_put \in Nat /\ rb_got \in Nat /\ rb_put = rb_got + RbUsed
  BY DEF RbInv, RbTypeOK, RbUsed
<1>3. rb_out = RbPlace(1) /\ rb_out \in RbPlaces /\ RbAdvance(rb_out) \in RbPlaces
  BY DEF RbInv, RbTypeOK, RbPlaces, RbAdvance, RbPlace
<1>4. rb_data[rb_out] = rb_got + 1
  BY <1>1, <1>3 DEF RbInv, RbFilled
<1>5. RbTypeOK'
  BY <1>2, <1>3, <1>4 DEF RbInv, RbTypeOK, RbRemove, RbPc
<1>6. RbCounted'
  BY <1>2 DEF RbInv, RbTypeOK, RbCounted, RbRemove, RbUsed, RbOne
<1>7. /\ RbUsed' = RbUsed - 1 /\ rb_got' = rb_got + 1 /\ rb_data' = rb_data
      /\ rb_in' = rb_in
  BY <1>2 DEF RbRemove, RbUsed
<1>8. \A k \in 1..RbSize : RbPlace(k)' = RbPlace(k + 1)
  BY <1>3 DEF RbRemove, RbPlaces, RbAdvance, RbPlace
<1>9. rb_in' = RbPlace(RbUsed + 1)'
  BY <1>1, <1>7, <1>8 DEF RbInv, RbFilled
<1>10. ASSUME NEW k \in 1..RbUsed - 1 PROVE rb_data[RbPlace(k + 1)] = rb_got + 1 + k
  <2>1. k + 1 \in 1..RbUsed
    BY <1>1
  <2> QED BY <1>1, <1>2, <2>1 DEF RbInv, RbFilled
<1>11. \A k \in (1..RbUsed)' : rb_data'[RbPlace(k)'] = rb_got' + k
  BY <1>1, <1>7, <1>8, <1>10
<1>12. RbFilled'
  BY <1>9, <1>11 DEF RbFilled
<1> QED BY <1>1, <1>2, <1>4, <1>5, <1>6, <1>12 DEF RbInv, RbRemove

LEMMA RbStepInv == RbInv /\ [RbNext]_rbVars => RbInv'
<1> SUFFICES ASSUME RbInv, [RbNext]_rbVars PROVE RbInv'
  OBVIOUS
<1> USE RbAssumption DEF RbInv
<1>1. CASE RbMayInsert
  <2>1. RbTypeOK' /\ RbCounted'
    BY <1>1 DEF RbMayInsert, RbRoom, RbTypeOK, RbCounted, RbPc, RbUsed, RbOne
  <2> QED BY <1>1, <2>1, RbPointersKept DEF RbMayInsert
<1>2. CASE RbInsert
  BY <1>2, RbInsertInv
<1>3. CASE RbCountUp
  <2>1. RbTypeOK' /\ RbCounted'
    BY <1>3 DEF RbCountUp, RbTypeOK, RbCounted, RbPc, RbUsed, RbOne
  <2> QED BY <1>3, <2>1, RbPointersKept DEF RbCountUp
<1>4. CASE RbMayRemove
  <2>1. RbTypeOK' /\ RbCounted'
    BY <1>4 DEF RbMayRemove, RbAny, RbTypeOK, RbCounted, RbPc, RbUsed, RbOne
  <2> QED BY <1>4, <2>1, RbPointersKept DEF RbMayRemove
<1>5. CASE RbRemove
  BY <1>5, RbRemoveInv
<1>6. CASE RbCountDown
  <2>1. RbTypeOK' /\ RbCounted'
    BY <1>6 DEF RbCountDown, RbTypeOK, RbCounted, RbPc, RbUsed, RbOne
  <2> QED BY <1>6, <2>1, RbPointersKept DEF RbCountDown
<1>7. CASE UNCHANGED rbVars
  <2>1. RbTypeOK' /\ RbCounted'
    BY <1>7 DEF rbVars, RbTypeOK, RbCounted, RbUsed
  <2> QED BY <1>7, <2>1, RbPointersKept DEF rbVars
<1> QED BY <1>1, <1>2, <1>3, <1>4, <1>5, <1>6, <1>7 DEF RbNext

\* The ring never holds more than it can, and its pointers stay in it, though each thread
\* changes the count after its pointer (ringbuffer_insert, ringbuffer_remove).
THEOREM RbTypeCorrect == RbSpec => []RbTypeOK
<1>1. RbInit => RbInv
  BY RbInitInv
<1>2. RbInv /\ [RbNext]_rbVars => RbInv'
  BY RbStepInv
<1>3. RbInv => RbTypeOK
  BY DEF RbInv
<1> QED BY <1>1, <1>2, <1>3, PTL DEF RbSpec

\* Whatever the order of the two threads' steps, and for every size of the buffer, the bytes
\* come out once, in order and unharmed.
THEOREM RbInOrderHolds == RbSpec => RbInOrder
<1>1. RbInit => RbInv /\ RbQueue!Init
  BY RbInitInv DEF RbInit, RbQueue!Init
<1>2. RbInv /\ [RbNext]_rbVars => RbInv'
  BY RbStepInv
<1>3. RbInv /\ [RbNext]_rbVars => [RbQueue!Next]_<<rb_put, rb_got, rb_last>>
  <2> SUFFICES ASSUME RbInv, [RbNext]_rbVars,
                      ~ UNCHANGED <<rb_put, rb_got, rb_last>>
               PROVE  RbQueue!Next
    OBVIOUS
  <2>1. CASE RbInsert
    BY <2>1 DEF RbInsert, RbQueue!Next, RbQueue!Put
  <2>2. CASE RbRemove
    BY <2>2, RbRemoveInv DEF RbRemove, RbQueue!Next, RbQueue!Take
  <2> QED BY <2>1, <2>2
       DEF RbNext, RbMayInsert, RbCountUp, RbMayRemove, RbCountDown, rbVars
<1> QED BY <1>1, <1>2, <1>3, PTL DEF RbSpec, RbInOrder, RbQueue!Spec

-----------------------------------------------------------------------------
(***************************************************************************)
(* The managed memory of proj/common/mmem.c.  The invariant: the blocks    *)
(* lie one behind the other, in the order of the list, up to the top.      *)
(***************************************************************************)

\* Where the block at place i of the list ends.
MmEnd(i) == mm_ptr[mmemlist[i]] + mm_size[mmemlist[i]]

\* The blocks lie in the order of the list, each right behind the one before, up to the top.
MmLaid ==
  /\ \A i \in DOMAIN mmemlist :
       MmEnd(i) = IF i = Len(mmemlist) THEN MmTop ELSE mm_ptr[mmemlist[i + 1]]
  /\ \A i, j \in DOMAIN mmemlist : i < j => MmEnd(i) <= mm_ptr[mmemlist[j]]

MmInv == MmTypeOK /\ MmLaid /\ MmKeeps

LEMMA MmFacts ==
  ASSUME MmTypeOK
  PROVE  /\ MMEM_SIZE \in Nat /\ MmTop \in 0..MMEM_SIZE
         /\ Len(mmemlist) \in Nat /\ DOMAIN mmemlist = 1..Len(mmemlist)
         /\ \A i \in DOMAIN mmemlist :
              /\ mmemlist[i] \in MmBlocks
              /\ mm_ptr[mmemlist[i]] \in 0..MMEM_SIZE /\ mm_size[mmemlist[i]] \in 0..MMEM_SIZE
<1>1. MMEM_SIZE \in Nat /\ avail_memory \in 0..MMEM_SIZE
  BY MmAssumption DEF MmTypeOK
<1>2. MmTop \in 0..MMEM_SIZE
  BY <1>1 DEF MmTop
<1>3. Len(mmemlist) \in Nat /\ DOMAIN mmemlist = 1..Len(mmemlist)
  BY DEF MmTypeOK
<1>4. \A i \in DOMAIN mmemlist : mmemlist[i] \in MmBlocks
  BY DEF MmTypeOK
<1> QED BY <1>1, <1>2, <1>3, <1>4 DEF MmTypeOK

\* No block ends above the top.
LEMMA MmBelowTop ==
  ASSUME MmTypeOK, MmLaid, NEW i \in DOMAIN mmemlist
  PROVE  MmEnd(i) <= MmTop
<1> DEFINE last == Len(mmemlist)
<1>1. i \in 1..last /\ last \in Nat /\ last \in DOMAIN mmemlist
  BY MmFacts
<1>2. MmEnd(last) = MmTop
  BY <1>1 DEF MmLaid
<1>3. CASE i = last
  BY <1>2, <1>3, MmFacts
<1>4. CASE i < last
  <2>1. MmEnd(i) <= mm_ptr[mmemlist[last]]
    BY <1>1, <1>4 DEF MmLaid
  <2>2. /\ mm_ptr[mmemlist[last]] \in Nat /\ mm_size[mmemlist[last]] \in Nat
        /\ mm_ptr[mmemlist[i]] \in Nat /\ mm_size[mmemlist[i]] \in Nat
    BY <1>1, MmFacts
  <2> QED BY <1>2, <2>1, <2>2 DEF MmEnd
<1> QED BY <1>1, <1>3, <1>4

LEMMA MmInitInv == MmInit => MmInv
<1> SUFFICES ASSUME MmInit PROVE MmInv
  OBVIOUS
<1>1. MMEM_SIZE \in Nat /\ 0 \in 0..MMEM_SIZE /\ MMEM_SIZE \in 0..MMEM_SIZE
  BY MmAssumption
<1>2. mmemlist = <<>> /\ mmemlist \in Seq(MmBlocks) /\ DOMAIN mmemlist = {}
  BY DEF MmInit
<1>3. MmTypeOK
  BY <1>1, <1>2 DEF MmInit, MmTypeOK
<1>4. MmLaid /\ MmKeeps
  BY <1>2 DEF MmLaid, MmKeeps, MmListed
<1> QED BY <1>3, <1>4 DEF MmInv

-----------------------------------------------------------------------------
LEMMA MmAllocInv ==
  ASSUME MmInv, NEW m \in MmBlocks, NEW size \in MmSizes, mmem_alloc(m, size)
  PROVE  MmInv'
<1>0. PICK last \in Nat : last = Len(mmemlist)
  BY MmFacts DEF MmInv
<1>1. /\ MMEM_SIZE \in Nat /\ MmTop \in 0..MMEM_SIZE /\ MmTop = MMEM_SIZE - avail_memory
      /\ size \in Nat /\ MmTop + size <= MMEM_SIZE /\ avail_memory \in 0..MMEM_SIZE
  BY MmFacts, MmAssumption DEF MmInv, MmTypeOK, MmTop, mmem_alloc, MmEnough
<1>2. /\ last \in Nat /\ last = Len(mmemlist) /\ DOMAIN mmemlist = 1..last
      /\ \A i \in 1..last : mmemlist[i] \in MmBlocks
  BY <1>0, MmFacts DEF MmInv
<1>3. /\ mmemlist' = Append(mmemlist, m) /\ mmemlist \in Seq(MmBlocks)
      /\ mm_ptr' = [mm_ptr EXCEPT ![m] = MmTop] /\ mm_size' = [mm_size EXCEPT ![m] = size]
      /\ avail_memory' = avail_memory - size
      /\ mm_memory' = [x \in MmBytes |-> IF x \in MmTop..MmTop + size - 1
                                     THEN <<m, x - MmTop>> ELSE mm_memory[x]]
  BY DEF mmem_alloc, ListAdd, MmInv, MmTypeOK
<1>4. /\ mmemlist' \in Seq(MmBlocks) /\ Len(mmemlist') = last + 1
      /\ DOMAIN mmemlist' = 1..last + 1
      /\ mmemlist'[last + 1] = m /\ \A i \in 1..last : mmemlist'[i] = mmemlist[i]
  BY <1>2, <1>3
<1>5. \A i \in 1..last : mmemlist[i] # m
  BY <1>2 DEF mmem_alloc, MmListed
<1>6. /\ mm_ptr'[m] = MmTop /\ mm_size'[m] = size
      /\ \A i \in 1..last : /\ mm_ptr'[mmemlist[i]] = mm_ptr[mmemlist[i]]
                            /\ mm_size'[mmemlist[i]] = mm_size[mmemlist[i]]
  BY <1>2, <1>3, <1>5 DEF MmInv, MmTypeOK
<1>7. MmTop' = MmTop + size
  BY <1>1, <1>3 DEF MmTop
<1>8. MmTypeOK'
  <2>1. ASSUME NEW i \in 1..last + 1, NEW j \in 1..last + 1, mmemlist'[i] = mmemlist'[j]
        PROVE  i = j
    <3>1. CASE i \in 1..last /\ j \in 1..last
      BY <1>2, <1>4, <2>1, <3>1 DEF MmInv, MmTypeOK
    <3>2. CASE i = last + 1 \/ j = last + 1
      BY <1>2, <1>4, <1>5, <2>1, <3>2
    <3> QED BY <1>2, <3>1, <3>2
  <2>2. mm_ptr' \in [MmBlocks -> 0..MMEM_SIZE] /\ mm_size' \in [MmBlocks -> 0..MMEM_SIZE]
    <3>1. size \in 0..MMEM_SIZE /\ MmTop \in 0..MMEM_SIZE
      BY <1>1
    <3> QED BY <1>3, <3>1 DEF MmInv, MmTypeOK
  <2>3. avail_memory' \in 0..MMEM_SIZE
    BY <1>1, <1>3
  <2>4. mm_memory' \in [MmBytes -> (MmBlocks \X MmBytes) \cup {<<>>}]
    <3>1. ASSUME NEW x \in MmBytes, x \in MmTop..MmTop + size - 1 PROVE x - MmTop \in MmBytes
      BY <1>1, <3>1 DEF MmBytes
    <3> QED BY <1>3, <3>1 DEF MmInv, MmTypeOK
  <2> QED BY <1>4, <2>1, <2>2, <2>3, <2>4 DEF MmTypeOK
<1>9. /\ MmEnd(last + 1)' = MmTop + size
      /\ \A i \in 1..last : MmEnd(i)' = MmEnd(i)
  BY <1>4, <1>6 DEF MmEnd
<1>10. ASSUME NEW i \in 1..last PROVE MmEnd(i) <= MmTop
  BY <1>2, MmBelowTop DEF MmInv
<1>11. MmLaid'
  <2>1. ASSUME NEW i \in 1..last + 1
        PROVE  MmEnd(i)' = IF i = last + 1 THEN MmTop + size ELSE mm_ptr'[mmemlist'[i + 1]]
    <3>1. CASE i = last + 1
      BY <1>9, <3>1
    <3>2. CASE i = last
      <4>1. MmEnd(last) = MmTop
        BY <1>2, <3>2 DEF MmInv, MmLaid
      <4> QED BY <1>2, <1>4, <1>6, <1>9, <3>2, <4>1
    <3>3. CASE i \in 1..last - 1
      <4>1. i \in 1..last /\ i + 1 \in 1..last /\ i # last + 1 /\ i # last
        BY <1>2, <3>3
      <4>2. MmEnd(i) = mm_ptr[mmemlist[i + 1]]
        BY <1>2, <4>1 DEF MmInv, MmLaid
      <4> QED BY <1>4, <1>6, <1>9, <4>1, <4>2
    <3> QED BY <1>2, <3>1, <3>2, <3>3
  <2>2. ASSUME NEW i \in 1..last + 1, NEW j \in 1..last + 1, i < j
        PROVE  MmEnd(i)' <= mm_ptr'[mmemlist'[j]]
    <3>1. i \in 1..last
      BY <1>2, <2>2
    <3>2. CASE j = last + 1
      BY <1>4, <1>6, <1>9, <1>10, <3>1, <3>2
    <3>3. CASE j \in 1..last
      <4>1. MmEnd(i) <= mm_ptr[mmemlist[j]]
        BY <1>2, <2>2, <3>1, <3>3 DEF MmInv, MmLaid
      <4> QED BY <1>4, <1>6, <1>9, <3>1, <3>3, <4>1
    <3> QED BY <1>2, <3>2, <3>3
  <2> QED BY <1>4, <1>7, <2>1, <2>2 DEF MmLaid
<1>12. MmKeeps'
  <2>1. ASSUME NEW i \in 1..last + 1, NEW k \in 0..mm_size'[mmemlist'[i]] - 1
        PROVE  /\ mm_ptr'[mmemlist'[i]] + k \in MmBytes
               /\ mm_memory'[mm_ptr'[mmemlist'[i]] + k] = <<mmemlist'[i], k>>
    <3>1. CASE i = last + 1
      <4>1. k \in 0..size - 1 /\ mmemlist'[i] = m /\ mm_ptr'[m] = MmTop
        BY <1>4, <1>6, <2>1, <3>1
      <4>2. MmTop + k \in MmBytes /\ MmTop + k \in MmTop..MmTop + size - 1 /\ MmTop + k - MmTop = k
        BY <1>1, <4>1 DEF MmBytes
      <4>3. \A x \in MmBytes : x \in MmTop..MmTop + size - 1 => mm_memory'[x] = <<m, x - MmTop>>
        BY <1>3
      <4>4. mm_memory'[MmTop + k] = <<m, k>>
        <5>1. PICK x \in MmBytes : x = MmTop + k
          BY <4>2
        <5>2. x \in MmTop..MmTop + size - 1 /\ x - MmTop = k
          BY <1>1, <4>2, <5>1
        <5>3. mm_memory'[x] = <<m, x - MmTop>>
          BY <4>3, <5>2
        <5> QED BY <5>1, <5>2, <5>3
      <4>5. mm_ptr'[mmemlist'[i]] = MmTop
        BY <4>1
      <4> QED BY <4>1, <4>2, <4>4, <4>5
    <3>2. CASE i \in 1..last
      <4> DEFINE b == mmemlist[i]
      <4>1. mmemlist'[i] = b /\ mm_ptr'[b] = mm_ptr[b] /\ mm_size'[b] = mm_size[b]
        BY <1>4, <1>6, <3>2
      <4>2. /\ mm_ptr[b] \in Nat /\ mm_size[b] \in Nat /\ k \in 0..mm_size[b] - 1
            /\ mm_ptr[b] + mm_size[b] <= MmTop
        BY <1>2, <1>10, <3>2, <4>1, <2>1, MmFacts DEF MmInv, MmEnd
      <4>3. mm_ptr[b] + k \in MmBytes /\ mm_memory[mm_ptr[b] + k] = <<b, k>>
        BY <1>2, <3>2, <4>2 DEF MmInv, MmKeeps, MmListed
      <4>4. mm_ptr[b] + k \notin MmTop..MmTop + size - 1
        BY <1>1, <4>2
      <4> QED BY <1>3, <4>1, <4>3, <4>4
    <3> QED BY <1>2, <3>1, <3>2
  <2> QED BY <1>4, <2>1 DEF MmKeeps, MmListed, MmBytes
<1> QED BY <1>8, <1>11, <1>12 DEF MmInv

\* The block m at place i is taken off the list, and those behind it are moved down.
MmFreed(m, i) ==
  /\ mmemlist[i] = m /\ mmemlist' = ListRemove(mmemlist, i) /\ UNCHANGED mm_size
  /\ IF i = Len(mmemlist) THEN UNCHANGED mm_ptr
     ELSE mm_ptr' = [b \in MmBlocks |-> IF b \in MmBehind(m)
                                        THEN mm_ptr[b] - mm_size[m] ELSE mm_ptr[b]]

\* What that leaves, place by place.
MmLeft(m, i, last) ==
  /\ mmemlist' \in Seq(MmBlocks) /\ Len(mmemlist') = last - 1
  /\ DOMAIN mmemlist' = 1..last - 1
  /\ \A k \in 1..last - 1 :
       /\ k < i => mmemlist'[k] = mmemlist[k] /\ mm_ptr'[mmemlist[k]] = mm_ptr[mmemlist[k]]
       /\ k >= i => /\ mmemlist'[k] = mmemlist[k + 1]
                    /\ mm_ptr'[mmemlist[k + 1]] = mm_ptr[mmemlist[k + 1]] - mm_size[m]
LEMMA MmFreeFacts ==
  ASSUME MmInv, NEW m \in MmBlocks, NEW last \in Nat, last = Len(mmemlist),
         NEW i \in 1..last, MmFreed(m, i)
  PROVE  MmLeft(m, i, last)
<1> USE DEF MmFreed
<1>1. /\ DOMAIN mmemlist = 1..last /\ \A k \in 1..last : mmemlist[k] \in MmBlocks
      /\ \A j, k \in 1..last : mmemlist[j] = mmemlist[k] => j = k
  BY MmFacts DEF MmInv, MmTypeOK
<1>2. /\ mmemlist' = [k \in 1..last - 1 |-> IF k < i THEN mmemlist[k] ELSE mmemlist[k + 1]]
      /\ last - 1 \in Nat
  BY DEF ListRemove
<1>3. \A k \in 1..last - 1 : k \in 1..last /\ k + 1 \in 1..last
  OBVIOUS
<1>4. mmemlist' \in Seq(MmBlocks) /\ Len(mmemlist') = last - 1 /\ DOMAIN mmemlist' = 1..last - 1
  BY <1>1, <1>2, <1>3
<1>5. ASSUME NEW k \in 1..last - 1, k < i
      PROVE  mmemlist'[k] = mmemlist[k] /\ mm_ptr'[mmemlist[k]] = mm_ptr[mmemlist[k]]
  <2>1. mmemlist[k] \notin MmBehind(m)
    BY <1>1, <1>3, <1>5 DEF MmBehind, MmPut
  <2> QED BY <1>1, <1>2, <1>3, <1>5, <2>1
<1>6. ASSUME NEW k \in 1..last - 1, k >= i
      PROVE  /\ mmemlist'[k] = mmemlist[k + 1]
             /\ mm_ptr'[mmemlist[k + 1]] = mm_ptr[mmemlist[k + 1]] - mm_size[m]
  <2>1. i < k + 1 /\ k + 1 \in 1..last /\ i # last
    BY <1>6
  <2>2. mmemlist[k + 1] \in MmBehind(m)
    BY <1>1, <2>1 DEF MmBehind, MmPut
  <2>3. mmemlist'[k] = mmemlist[k + 1]
    BY <1>2, <1>6
  <2> QED BY <1>1, <2>1, <2>2, <2>3
<1> QED BY <1>4, <1>5, <1>6 DEF MmLeft

LEMMA MmFreeInv ==
  ASSUME MmInv, NEW m \in MmBlocks, mmem_free(m)
  PROVE  MmInv'
<1>0. PICK last \in Nat : last = Len(mmemlist)
  BY MmFacts DEF MmInv
<1>1. PICK i \in 1..last :
        /\ mmemlist[i] = m
        /\ IF i = Len(mmemlist) THEN UNCHANGED <<mm_memory, mm_ptr>>
           ELSE LET n == mmemlist[i + 1]
                    up == mm_ptr[n] - mm_ptr[m]
                IN /\ mm_memory' = [x \in MmBytes |->
                                      IF x \in mm_ptr[m]..mm_ptr[m] + MmMoved(m, n) - 1
                                      THEN mm_memory[x + up] ELSE mm_memory[x]]
                   /\ mm_ptr' = [b \in MmBlocks |-> IF b \in MmBehind(m)
                                                   THEN mm_ptr[b] - mm_size[m] ELSE mm_ptr[b]]
        /\ avail_memory' = avail_memory + mm_size[m]
        /\ mmemlist' = ListRemove(mmemlist, i)
        /\ UNCHANGED mm_size
  BY <1>0, MmFacts DEF mmem_free, MmPut, MmInv
<1>2. PICK p \in Nat, z \in Nat, top \in 0..MMEM_SIZE :
        p = mm_ptr[m] /\ z = mm_size[m] /\ top = MmTop
  BY <1>0, <1>1, MmFacts DEF MmInv
<1>3. /\ MMEM_SIZE \in Nat /\ DOMAIN mmemlist = 1..last
      /\ \A k \in 1..last : /\ mmemlist[k] \in MmBlocks
                            /\ mm_ptr[mmemlist[k]] \in Nat /\ mm_size[mmemlist[k]] \in Nat
                            /\ MmEnd(k) = mm_ptr[mmemlist[k]] + mm_size[mmemlist[k]]
                            /\ MmEnd(k) <= top
  BY <1>0, <1>2, MmFacts, MmBelowTop DEF MmInv, MmEnd
<1>4. MmEnd(i) = p + z /\ p + z <= top
  BY <1>1, <1>2, <1>3
<1>5. /\ mmemlist' \in Seq(MmBlocks) /\ Len(mmemlist') = last - 1
      /\ DOMAIN mmemlist' = 1..last - 1
      /\ \A k \in 1..last - 1 :
           /\ k < i => mmemlist'[k] = mmemlist[k] /\ mm_ptr'[mmemlist[k]] = mm_ptr[mmemlist[k]]
           /\ k >= i => /\ mmemlist'[k] = mmemlist[k + 1]
                        /\ mm_ptr'[mmemlist[k + 1]] = mm_ptr[mmemlist[k + 1]] - z
  <2>1. MmFreed(m, i)
    BY <1>1 DEF MmFreed
  <2>2. MmLeft(m, i, last)
    BY <1>0, <2>1, MmFreeFacts
  <2> QED BY <1>2, <2>2 DEF MmLeft
<1>6. MmTop' = top - z /\ avail_memory' = avail_memory + z /\ avail_memory' \in 0..MMEM_SIZE
  <2>1. avail_memory \in 0..MMEM_SIZE /\ top = MMEM_SIZE - avail_memory
    BY <1>2 DEF MmInv, MmTypeOK, MmTop
  <2>2. avail_memory' = avail_memory + z
    BY <1>1, <1>2
  <2>3. avail_memory' \in 0..MMEM_SIZE
    BY <1>3, <1>4, <2>1, <2>2
  <2> QED BY <1>3, <2>1, <2>2, <2>3 DEF MmTop
\* Where a block of the new list ends.
<1>7. \A k \in 1..last - 1 : /\ k < i => MmEnd(k)' = MmEnd(k)
                             /\ k >= i => MmEnd(k)' = MmEnd(k + 1) - z
  <2> SUFFICES ASSUME NEW k \in 1..last - 1
               PROVE  /\ k < i => MmEnd(k)' = MmEnd(k)
                      /\ k >= i => MmEnd(k)' = MmEnd(k + 1) - z
    OBVIOUS
  <2>1. mm_size' = mm_size /\ k \in 1..last /\ k + 1 \in 1..last
    BY <1>1
  <2>2. CASE k < i
    BY <1>3, <1>5, <2>1, <2>2 DEF MmEnd
  <2>3. CASE k >= i
    <3>1. MmEnd(k)' = mm_ptr[mmemlist[k + 1]] - z + mm_size[mmemlist[k + 1]]
      BY <1>5, <2>1, <2>3 DEF MmEnd
    <3> QED BY <1>3, <2>1, <2>3, <3>1
  <2> QED BY <2>2, <2>3
\* The blocks behind the freed one were behind it by more than its size.
<1>8. \A k \in 1..last : k > i => p + z <= mm_ptr[mmemlist[k]]
  BY <1>3, <1>4 DEF MmInv, MmLaid
<1>9. i < last => mm_ptr[mmemlist[i + 1]] = p + z
  <2> SUFFICES ASSUME i < last PROVE mm_ptr[mmemlist[i + 1]] = p + z
    OBVIOUS
  <2>1. i \in DOMAIN mmemlist /\ last = Len(mmemlist) /\ i # last
    BY <1>0, <1>1, <1>3
  <2>2. \A k \in DOMAIN mmemlist : k # Len(mmemlist) => MmEnd(k) = mm_ptr[mmemlist[k + 1]]
    BY <1>0 DEF MmInv, MmLaid
  <2>3. MmEnd(i) = mm_ptr[mmemlist[i + 1]]
    BY <2>1, <2>2
  <2> QED BY <1>4, <2>3
<1>10. i = last => p + z = top
  BY <1>0, <1>2, <1>3, <1>4 DEF MmInv, MmLaid
<1>11. i < last => mm_memory' = [x \in MmBytes |-> IF x \in p..top - z - 1
                                                THEN mm_memory[x + z] ELSE mm_memory[x]]
  <2> SUFFICES ASSUME i < last
               PROVE  mm_memory' = [x \in MmBytes |-> IF x \in p..top - z - 1
                                                THEN mm_memory[x + z] ELSE mm_memory[x]]
    OBVIOUS
  <2> DEFINE n == mmemlist[i + 1]
  <2>1. mm_ptr[n] - mm_ptr[m] = z /\ mm_ptr[m] + MmMoved(m, n) - 1 = top - z - 1 /\ mm_ptr[m] = p
    BY <1>2, <1>9 DEF MmMoved
  <2>2. mm_memory' = [x \in MmBytes |->
                        IF x \in mm_ptr[m]..mm_ptr[m] + MmMoved(m, n) - 1
                        THEN mm_memory[x + (mm_ptr[n] - mm_ptr[m])] ELSE mm_memory[x]]
    BY <1>0, <1>1
  <2> QED BY <2>1, <2>2
<1>12. MmTypeOK'
  <2>1. ASSUME NEW j \in 1..last - 1, NEW k \in 1..last - 1, mmemlist'[j] = mmemlist'[k]
        PROVE  j = k
    <3>1. \A a, b \in 1..last : mmemlist[a] = mmemlist[b] => a = b
      BY <1>3 DEF MmInv, MmTypeOK
    <3>2. j \in 1..last /\ k \in 1..last /\ j + 1 \in 1..last /\ k + 1 \in 1..last
      OBVIOUS
    <3>3. mmemlist[IF j < i THEN j ELSE j + 1] = mmemlist[IF k < i THEN k ELSE k + 1]
      BY <1>5, <2>1
    <3> QED BY <3>1, <3>2, <3>3
  <2>2. mm_ptr' \in [MmBlocks -> 0..MMEM_SIZE]
    <3>1. mm_ptr \in [MmBlocks -> 0..MMEM_SIZE]
      BY DEF MmInv, MmTypeOK
    <3>2. CASE i = last
      BY <1>0, <1>1, <3>1, <3>2
    <3>3. CASE i < last
      <4>1. mm_ptr' = [b \in MmBlocks |-> IF b \in MmBehind(m) THEN mm_ptr[b] - z ELSE mm_ptr[b]]
        BY <1>0, <1>1, <1>2, <3>3
      <4>2. ASSUME NEW b \in MmBehind(m) PROVE p + z <= mm_ptr[b] /\ b \in MmBlocks
        <5>1. PICK k \in 1..last : b = mmemlist[k] /\ \E j \in 1..last : mmemlist[j] = m /\ j < k
          BY <1>3 DEF MmBehind, MmPut
        <5>2. k > i
          BY <1>1, <1>3, <5>1 DEF MmInv, MmTypeOK
        <5> QED BY <1>3, <1>8, <5>1, <5>2
      <4>3. ASSUME NEW b \in MmBehind(m) PROVE mm_ptr[b] - z \in 0..MMEM_SIZE
        BY <1>3, <3>1, <4>2
      <4> QED BY <3>1, <4>1, <4>3
    <3> QED BY <3>2, <3>3
  <2>3. mm_memory' \in [MmBytes -> (MmBlocks \X MmBytes) \cup {<<>>}]
    <3>1. CASE i = last
      BY <1>0, <1>1, <3>1 DEF MmInv, MmTypeOK
    <3>2. CASE i < last
      <4>1. ASSUME NEW x \in MmBytes, x \in p..top - z - 1 PROVE x + z \in MmBytes
        BY <1>2, <1>3, <4>1 DEF MmBytes
      <4> QED BY <1>11, <3>2, <4>1 DEF MmInv, MmTypeOK
    <3> QED BY <3>1, <3>2
  <2> QED BY <1>1, <1>5, <1>6, <2>1, <2>2, <2>3 DEF MmInv, MmTypeOK
<1>13. MmLaid'
  <2>1. ASSUME NEW k \in 1..last - 1
        PROVE  MmEnd(k)' = IF k = last - 1 THEN top - z ELSE mm_ptr'[mmemlist'[k + 1]]
    <3>1. k \in 1..last /\ k + 1 \in 1..last /\ k # last
      OBVIOUS
    <3>2. MmEnd(k) = mm_ptr[mmemlist[k + 1]]
      BY <1>0, <1>3, <3>1 DEF MmInv, MmLaid
    <3>3. k + 1 = last => MmEnd(k + 1) = top
      BY <1>0, <1>2, <1>3, <3>1 DEF MmInv, MmLaid
    <3>4. k + 1 # last => MmEnd(k + 1) = mm_ptr[mmemlist[k + 2]] /\ k + 1 \in 1..last - 1
      <4> SUFFICES ASSUME k + 1 # last
                   PROVE  MmEnd(k + 1) = mm_ptr[mmemlist[k + 2]] /\ k + 1 \in 1..last - 1
        OBVIOUS
      <4>1. MmEnd(k + 1) = mm_ptr[mmemlist[k + 1 + 1]]
        BY <1>0, <1>3, <3>1 DEF MmInv, MmLaid
      <4>2. k + 1 + 1 = k + 2 /\ k + 1 \in 1..last - 1
        OBVIOUS
      <4> QED BY <4>1, <4>2
    <3>5. CASE k >= i
      <4>1. MmEnd(k)' = MmEnd(k + 1) - z
        BY <1>7, <3>5
      <4>2. CASE k = last - 1
        BY <3>3, <4>1, <4>2
      <4>3. CASE k # last - 1
        <5>1. k + 1 \in 1..last - 1 /\ k + 1 >= i /\ k + 1 + 1 = k + 2
          BY <3>5, <4>3
        <5>2. mmemlist'[k + 1] = mmemlist[k + 1 + 1]
              /\ mm_ptr'[mmemlist[k + 1 + 1]] = mm_ptr[mmemlist[k + 1 + 1]] - z
          BY <1>5, <5>1
        <5> QED BY <3>4, <4>1, <4>3, <5>1, <5>2
      <4> QED BY <4>2, <4>3
    <3>6. CASE k < i
      <4>1. MmEnd(k)' = MmEnd(k)
        BY <1>7, <3>6
      <4>2. CASE k + 1 < i
        <5>1. k + 1 \in 1..last - 1 /\ k # last - 1
          BY <4>2
        <5>2. mmemlist'[k + 1] = mmemlist[k + 1] /\ mm_ptr'[mmemlist[k + 1]] = mm_ptr[mmemlist[k + 1]]
          BY <1>5, <4>2, <5>1
        <5> QED BY <3>2, <4>1, <5>1, <5>2
      <4>3. CASE k + 1 = i
        <5>1. MmEnd(k)' = p
          BY <1>1, <1>2, <3>2, <4>1, <4>3
        <5>2. CASE i = last
          BY <1>10, <1>2, <4>3, <5>1, <5>2
        <5>3. CASE i < last
          <6>1. i \in 1..last - 1 /\ i >= i /\ k # last - 1
            BY <4>3, <5>3
          <6>2. mmemlist'[i] = mmemlist[i + 1]
                /\ mm_ptr'[mmemlist[i + 1]] = mm_ptr[mmemlist[i + 1]] - z
            BY <1>5, <6>1
          <6>3. mm_ptr'[mmemlist'[i]] = p
            BY <1>2, <1>9, <5>3, <6>2
          <6> QED BY <4>3, <5>1, <6>1, <6>3
        <5> QED BY <5>2, <5>3
      <4> QED BY <3>6, <4>2, <4>3
    <3> QED BY <3>5, <3>6
  <2>2. ASSUME NEW j \in 1..last - 1, NEW k \in 1..last - 1, j < k
        PROVE  MmEnd(j)' <= mm_ptr'[mmemlist'[k]]
    <3>1. j \in 1..last /\ k \in 1..last /\ j + 1 \in 1..last /\ k + 1 \in 1..last
      OBVIOUS
    <3>2. \A a, b \in 1..last : a < b => MmEnd(a) <= mm_ptr[mmemlist[b]]
      BY <1>3 DEF MmInv, MmLaid
    <3>3. CASE k < i
      <4>1. MmEnd(j)' = MmEnd(j) /\ mm_ptr'[mmemlist'[k]] = mm_ptr[mmemlist[k]]
        BY <1>5, <1>7, <2>2, <3>3
      <4> QED BY <2>2, <3>1, <3>2, <4>1
    <3>4. CASE j < i /\ i <= k
      <4>1. MmEnd(j)' = MmEnd(j) /\ mm_ptr'[mmemlist'[k]] = mm_ptr[mmemlist[k + 1]] - z
        BY <1>5, <1>7, <3>4
      <4>2. MmEnd(j) <= p
        BY <1>1, <1>2, <3>1, <3>2, <3>4
      <4>3. p + z <= mm_ptr[mmemlist[k + 1]]
        BY <1>8, <3>1, <3>4
      <4>4. MmEnd(j) \in Nat /\ mm_ptr[mmemlist[k + 1]] \in Nat
        BY <1>3, <3>1
      <4>5. MmEnd(j) <= mm_ptr[mmemlist[k + 1]] - z
        BY <4>2, <4>3, <4>4
      <4> QED BY <4>1, <4>5
    <3>5. CASE i <= j
      <4>1. MmEnd(j)' = MmEnd(j + 1) - z /\ mm_ptr'[mmemlist'[k]] = mm_ptr[mmemlist[k + 1]] - z
        BY <1>5, <1>7, <2>2, <3>5
      <4>2. j + 1 < k + 1
        BY <2>2
      <4>3. MmEnd(j + 1) <= mm_ptr[mmemlist[k + 1]]
        BY <3>1, <3>2, <4>2
      <4>4. MmEnd(j + 1) \in Nat /\ mm_ptr[mmemlist[k + 1]] \in Nat
        BY <1>3, <3>1
      <4>5. MmEnd(j + 1) - z <= mm_ptr[mmemlist[k + 1]] - z
        BY <4>3, <4>4
      <4> QED BY <4>1, <4>5
    <3> QED BY <2>2, <3>3, <3>4, <3>5
  <2> QED BY <1>5, <1>6, <2>1, <2>2 DEF MmLaid
<1>14. MmKeeps'
  <2>1. ASSUME NEW j \in 1..last - 1, NEW k \in 0..mm_size[mmemlist'[j]] - 1
        PROVE  /\ mm_ptr'[mmemlist'[j]] + k \in MmBytes
               /\ mm_memory'[mm_ptr'[mmemlist'[j]] + k] = <<mmemlist'[j], k>>
    <3>1. j \in 1..last /\ j + 1 \in 1..last
      OBVIOUS
    <3>2. CASE j < i
      <4> DEFINE b == mmemlist[j]
      <4>1. mmemlist'[j] = b /\ mm_ptr'[b] = mm_ptr[b] /\ k \in 0..mm_size[b] - 1
        BY <1>5, <2>1, <3>2
      <4>2. mm_ptr[b] + k \in MmBytes /\ mm_memory[mm_ptr[b] + k] = <<b, k>>
        BY <1>3, <3>1, <4>1 DEF MmInv, MmKeeps, MmListed
      <4>3. MmEnd(j) <= p /\ mm_ptr[b] \in Nat /\ mm_size[b] \in Nat
        BY <1>1, <1>2, <1>3, <3>1, <3>2 DEF MmInv, MmLaid
      <4>4. mm_ptr[b] + k < p
        BY <1>3, <3>1, <4>1, <4>3
      <4>5. mm_ptr[b] + k \notin p..top - z - 1
        BY <1>2, <4>3, <4>4, <4>1
      <4>6. mm_memory'[mm_ptr[b] + k] = mm_memory[mm_ptr[b] + k]
        BY <1>0, <1>1, <1>11, <4>2, <4>5
      <4> QED BY <4>1, <4>2, <4>6
    <3>3. CASE j >= i
      <4> DEFINE b == mmemlist[j + 1]
      <4>1. mmemlist'[j] = b /\ mm_ptr'[b] = mm_ptr[b] - z /\ k \in 0..mm_size[b] - 1
        BY <1>5, <2>1, <3>3
      <4>2. mm_ptr[b] + k \in MmBytes /\ mm_memory[mm_ptr[b] + k] = <<b, k>>
        BY <1>3, <3>1, <4>1 DEF MmInv, MmKeeps, MmListed
      <4>3. mm_ptr[b] \in Nat /\ mm_size[b] \in Nat /\ mm_ptr[b] + mm_size[b] <= top
        BY <1>3, <3>1
      <4>4. p + z <= mm_ptr[b]
        BY <1>8, <3>1, <3>3
      <4>5. mm_ptr[b] - z + k \in p..top - z - 1 /\ mm_ptr[b] - z + k + z = mm_ptr[b] + k
        BY <1>2, <4>1, <4>3, <4>4
      <4>6. mm_ptr[b] - z + k \in MmBytes
        <5>1. p..top - z - 1 \subseteq MmBytes
          BY <1>2, MmAssumption DEF MmBytes
        <5> QED BY <4>5, <5>1
      <4>7. mm_memory'[mm_ptr[b] - z + k] = mm_memory[mm_ptr[b] - z + k + z]
        BY <1>11, <3>3, <4>5, <4>6
      <4> QED BY <4>1, <4>2, <4>5, <4>6, <4>7
    <3> QED BY <3>2, <3>3
  <2>2. mm_size' = mm_size
    BY <1>1
  <2> SUFFICES ASSUME NEW b \in MmListed', NEW k \in 0..mm_size'[b] - 1
               PROVE  mm_ptr'[b] + k \in MmBytes /\ mm_memory'[mm_ptr'[b] + k] = <<b, k>>
    BY DEF MmKeeps
  <2>3. PICK j \in 1..last - 1 : b = mmemlist'[j]
    BY <1>5 DEF MmListed
  <2> QED BY <2>1, <2>2, <2>3
<1> QED BY <1>12, <1>13, <1>14 DEF MmInv

LEMMA MmStepInv == MmInv /\ [MmNext]_mmVars => MmInv'
<1> SUFFICES ASSUME MmInv, [MmNext]_mmVars PROVE MmInv'
  OBVIOUS
<1>1. CASE MmNext
  BY <1>1, MmAllocInv, MmFreeInv DEF MmNext
<1>2. CASE UNCHANGED mmVars
  <2>1. MmTypeOK'
    BY <1>2 DEF MmInv, MmTypeOK, mmVars
  <2>2. MmLaid'
    BY <1>2 DEF MmInv, MmLaid, MmEnd, MmTop, mmVars
  <2>3. MmKeeps'
    BY <1>2 DEF MmInv, MmKeeps, MmListed, mmVars
  <2> QED BY <2>1, <2>2, <2>3 DEF MmInv
<1> QED BY <1>1, <1>2

\* However blocks are allocated and freed, and for every size of the memory and of the blocks,
\* a block keeps its bytes when the ones before it are freed (mmem_alloc, mmem_free).
THEOREM MmKeepsHolds == MmSpec => []MmKeeps
<1>1. MmInv => MmKeeps
  BY DEF MmInv
<1> QED BY <1>1, MmInitInv, MmStepInv, PTL DEF MmSpec

-----------------------------------------------------------------------------
\* Where the first block begins; with no block there is nothing below the top.
MmFromStart == IF mmemlist = <<>> THEN MmTop = 0 ELSE mm_ptr[mmemlist[1]] = 0

\* The blocks on the list fill the memory up to the top, each from where the one before ends.
MmPacked ==
  /\ MmFromStart
  /\ \A i \in DOMAIN mmemlist :
       MmEnd(i) = IF i = Len(mmemlist) THEN MmTop ELSE mm_ptr[mmemlist[i + 1]]

LEMMA MmFromStartAlloc ==
  ASSUME MmInv, MmFromStart, NEW m \in MmBlocks, NEW size \in MmSizes, mmem_alloc(m, size)
  PROVE  MmFromStart'
<1>1. /\ mmemlist' = Append(mmemlist, m) /\ m \notin MmListed
      /\ mm_ptr' = [mm_ptr EXCEPT ![m] = MmTop]
  BY DEF mmem_alloc, ListAdd
<1>2. mmemlist \in Seq(MmBlocks) /\ mm_ptr \in [MmBlocks -> 0..MMEM_SIZE]
  BY DEF MmInv, MmTypeOK
<1>3. mmemlist' # <<>>
  BY <1>1, <1>2
<1>4. CASE mmemlist = <<>>
  <2>1. mmemlist'[1] = m /\ MmTop = 0
    BY <1>1, <1>4 DEF MmFromStart
  <2> QED BY <1>1, <1>2, <1>3, <2>1 DEF MmFromStart
<1>5. CASE mmemlist # <<>>
  <2>1. 1 \in DOMAIN mmemlist /\ mmemlist'[1] = mmemlist[1] /\ mmemlist[1] \in MmBlocks
    BY <1>1, <1>2, <1>5
  <2>2. mmemlist[1] # m
    BY <1>1, <2>1 DEF MmListed
  <2>3. mm_ptr'[mmemlist[1]] = mm_ptr[mmemlist[1]]
    BY <1>1, <1>2, <2>1, <2>2
  <2> QED BY <1>3, <1>5, <2>1, <2>3 DEF MmFromStart
<1> QED BY <1>4, <1>5

LEMMA MmFromStartFree ==
  ASSUME MmInv, MmFromStart, NEW m \in MmBlocks, mmem_free(m)
  PROVE  MmFromStart'
<1>0. PICK last \in Nat : last = Len(mmemlist)
  BY MmFacts DEF MmInv
<1>1. PICK i \in 1..last :
        /\ mmemlist[i] = m /\ avail_memory' = avail_memory + mm_size[m]
        /\ MmFreed(m, i)
  BY <1>0, MmFacts DEF mmem_free, MmPut, MmInv, MmFreed
<1>2. /\ mmemlist' \in Seq(MmBlocks) /\ Len(mmemlist') = last - 1
      /\ \A k \in 1..last - 1 :
           /\ k < i => mmemlist'[k] = mmemlist[k] /\ mm_ptr'[mmemlist[k]] = mm_ptr[mmemlist[k]]
           /\ k >= i => /\ mmemlist'[k] = mmemlist[k + 1]
                        /\ mm_ptr'[mmemlist[k + 1]] = mm_ptr[mmemlist[k + 1]] - mm_size[m]
  BY <1>0, <1>1, MmFreeFacts DEF MmLeft
<1>3. /\ DOMAIN mmemlist = 1..last /\ MMEM_SIZE \in Nat /\ avail_memory \in Nat
      /\ \A k \in 1..last : mm_ptr[mmemlist[k]] \in Nat /\ mm_size[mmemlist[k]] \in Nat
  BY <1>0, MmFacts DEF MmInv, MmTypeOK
<1>4. mmemlist # <<>> /\ 1 \in 1..last /\ mm_ptr[mmemlist[1]] = 0
  BY <1>0, <1>1, <1>3 DEF MmFromStart
<1>5. \A k \in 1..last : mm_ptr[mmemlist[k]] + mm_size[mmemlist[k]] =
                           IF k = last THEN MmTop ELSE mm_ptr[mmemlist[k + 1]]
  BY <1>0, <1>3 DEF MmInv, MmLaid, MmEnd
<1>6. CASE last = 1
  <2>1. mm_size[m] = MmTop
    BY <1>1, <1>3, <1>4, <1>5, <1>6
  <2>2. MmTop' = 0
    BY <1>1, <1>3, <2>1 DEF MmTop
  <2>3. mmemlist' = <<>>
    BY <1>2, <1>6, EmptySeq
  <2> QED BY <2>2, <2>3 DEF MmFromStart
<1>7. CASE last > 1
  <2>1. 1 \in 1..last - 1 /\ mmemlist' # <<>>
    BY <1>2, <1>7
  <2>2. CASE i = 1
    <3>1. mm_ptr[mmemlist[2]] = mm_size[m]
      BY <1>1, <1>3, <1>4, <1>5, <1>7, <2>2
    <3>2. mmemlist'[1] = mmemlist[2] /\ mm_ptr'[mmemlist[2]] = mm_ptr[mmemlist[2]] - mm_size[m]
      BY <1>2, <2>1, <2>2
    <3>3. mm_ptr'[mmemlist'[1]] = 0
      BY <1>1, <1>3, <3>1, <3>2
    <3> QED BY <2>1, <3>3 DEF MmFromStart
  <2>3. CASE i > 1
    <3>1. mm_ptr'[mmemlist'[1]] = 0
      BY <1>2, <1>4, <2>1, <2>3
    <3> QED BY <2>1, <3>1 DEF MmFromStart
  <2> QED BY <2>2, <2>3
<1> QED BY <1>6, <1>7

\* No byte is lost however blocks are allocated and freed: there is no gap between two blocks,
\* none before the first, and when the last block is freed all memory is available again
\* (mmem_alloc, mmem_free).
THEOREM MmPackedHolds == MmSpec => [](MmPacked /\ (mmemlist = <<>> => avail_memory = MMEM_SIZE))
<1>1. MmInit => MmFromStart
  BY MmAssumption DEF MmInit, MmFromStart, MmTop
<1>2. MmInv /\ MmFromStart /\ [MmNext]_mmVars => MmFromStart'
  <2> SUFFICES ASSUME MmInv, MmFromStart, [MmNext]_mmVars PROVE MmFromStart'
    OBVIOUS
  <2>1. CASE MmNext
    BY <2>1, MmFromStartAlloc, MmFromStartFree DEF MmNext
  <2>2. CASE UNCHANGED mmVars
    BY <2>2 DEF MmFromStart, MmTop, mmVars
  <2> QED BY <2>1, <2>2
<1>3. MmInv /\ MmFromStart => MmPacked /\ (mmemlist = <<>> => avail_memory = MMEM_SIZE)
  <2> SUFFICES ASSUME MmInv, MmFromStart
               PROVE  MmPacked /\ (mmemlist = <<>> => avail_memory = MMEM_SIZE)
    OBVIOUS
  <2>1. MMEM_SIZE \in Nat /\ avail_memory \in 0..MMEM_SIZE
    BY MmAssumption DEF MmInv, MmTypeOK
  <2>2. mmemlist = <<>> => avail_memory = MMEM_SIZE
    BY <2>1 DEF MmFromStart, MmTop
  <2> QED BY <2>2 DEF MmInv, MmLaid, MmPacked
<1> QED BY <1>1, <1>2, <1>3, MmInitInv, MmStepInv, PTL DEF MmSpec

-----------------------------------------------------------------------------
(***************************************************************************)
(* The key matrix (proj/drivers/keyboard.c), for any number of rows and    *)
(* columns.  The invariant says of the last scan whether it saw keys       *)
(* change, and of a window that is not over what it has yet to read.       *)
(***************************************************************************)

\* What is read while the switches in closed stay as they are, and what of it is certain.
KmShown(closed) == UNION {{r} \X ReadRow(closed, r) : r \in KmRow}
KmCertain(closed) == {k \in closed : ~Ambiguous(closed, k)}

\* What a scan reads when the keys change to closed behind row n.
KmRaw(n, closed) ==
  UNION {{r} \X (ColsLooked \cap ReadRow(IF r <= n THEN km_closed ELSE closed, r)) : r \in KmRow}

\* What the last scan read was seen, but for one scan in which keys changed; and the window is
\* not over before what it read was nothing.
KmReads ==
  /\ ~km_split \/ km_release = 0 => km_pre \subseteq km_seen
  /\ km_release > 0 => ret_last # {}
  /\ ~km_short /\ km_release + 2 <= KM_WINDOW => km_pre = {}
  /\ ~km_short /\ km_release + 3 <= KM_WINDOW => km_last = {}
KmStays ==
  /\ km_short /\ km_still >= 1 => km_closed = {}
  /\ ~km_short /\ km_still >= 1 => km_pre = KmCertain(km_closed)
  /\ ~km_short /\ km_still = 2 => km_last = KmCertain(km_closed)

KmInv == KmTypeOK /\ KmReads /\ KmStays
-----------------------------------------------------------------------------
LEMMA MoreThanOne ==
  ASSUME NEW S, IsFiniteSet(S)
  PROVE  Cardinality(S) > 1 <=> \E c, d \in S : c # d
<1>1. Cardinality(S) \in Nat
  BY FS_CardinalityType
<1>2. ASSUME NEW c \in S, NEW d \in S, c # d
      PROVE  Cardinality(S) > 1
  <2>1. IsFiniteSet({c}) /\ Cardinality({c}) = 1
    BY FS_Singleton
  <2>2. IsFiniteSet({c} \cup {d}) /\ Cardinality({c} \cup {d}) = 2
    <3>1. d \notin {c}
      BY <1>2
    <3>2. Cardinality({c} \cup {d}) = Cardinality({c}) + 1 /\ IsFiniteSet({c} \cup {d})
      BY <2>1, <3>1, FS_AddElement
    <3> QED BY <2>1, <3>2
  <2>3. {c} \cup {d} \subseteq S
    OBVIOUS
  <2>4. Cardinality({c} \cup {d}) <= Cardinality(S)
    BY <2>3, FS_Subset
  <2> QED BY <1>1, <2>2, <2>4
<1>3. ASSUME ~\E c, d \in S : c # d
      PROVE  ~(Cardinality(S) > 1)
  <2>1. CASE S = {}
    BY <2>1, FS_EmptySet
  <2>2. CASE S # {}
    <3>1. PICK c \in S : TRUE
      BY <2>2
    <3>2. S = {c}
      BY <1>3, <3>1
    <3> QED BY <3>2, FS_Singleton
  <2> QED BY <2>1, <2>2
<1> QED BY <1>2, <1>3

\* Rows that closed switches connect show the same.
LEMMA WiredFacts ==
  ASSUME NEW C \in SUBSET KmKeys, NEW r \in KmRow
  PROVE  /\ r \in Wired(C, r) /\ Wired(C, r) \subseteq KmRow
         /\ \A a \in Wired(C, r), b \in KmRow :
              ColsOf(C, a) \cap ColsOf(C, b) # {} => b \in Wired(C, r)
         /\ \A a \in Wired(C, r) : Wired(C, a) = Wired(C, r)
         /\ \A a \in Wired(C, r) : a # r => ColsOf(C, r) # {}
<1>1. \A s \in KmRow : s \in Wired(C, s) /\ Wired(C, s) \subseteq KmRow
  BY DEF Wired
<1>2. ASSUME NEW s \in KmRow, NEW a \in Wired(C, s), NEW b \in KmRow,
             ColsOf(C, a) \cap ColsOf(C, b) # {}
      PROVE  b \in Wired(C, s)
  <2> SUFFICES ASSUME NEW rows \in SUBSET KmRow, s \in rows, Linked(C, rows)
               PROVE  b \in rows
    BY DEF Wired
  <2>1. a \in rows
    BY DEF Wired
  <2> QED BY <1>2, <2>1 DEF Linked
<1>3. ASSUME NEW s \in KmRow, NEW a \in Wired(C, s)
      PROVE  Wired(C, s) \subseteq Wired(C, a)
  <2>1. s \in Wired(C, a)
    <3> SUFFICES ASSUME NEW rows \in SUBSET KmRow, a \in rows, Linked(C, rows), s \notin rows
                 PROVE  FALSE
      BY DEF Wired
    <3>1. Linked(C, KmRow \ rows)
      BY DEF Linked
    <3>2. a \in KmRow \ rows
      BY <3>1 DEF Wired
    <3> QED BY <3>2
  <2>2. ASSUME NEW b \in Wired(C, s), NEW rows \in SUBSET KmRow, a \in rows, Linked(C, rows)
        PROVE  b \in rows
    <3>1. s \in rows
      BY <2>1, <2>2 DEF Wired
    <3> QED BY <2>2, <3>1 DEF Wired
  <2> QED BY <2>2 DEF Wired
<1>4. ASSUME NEW a \in Wired(C, r)
      PROVE  Wired(C, a) = Wired(C, r)
  <2>1. a \in KmRow /\ r \in Wired(C, a)
    BY <1>1, <1>3
  <2> QED BY <1>3, <2>1
<1>5. ASSUME NEW a \in Wired(C, r), a # r
      PROVE  ColsOf(C, r) # {}
  <2>1. SUFFICES ASSUME ColsOf(C, r) = {} PROVE FALSE
    OBVIOUS
  <2>2. Linked(C, {r})
    BY <2>1 DEF Linked
  <2> QED BY <1>5, <2>2 DEF Wired
<1> QED BY <1>1, <1>2, <1>4, <1>5

LEMMA ReadRowFacts ==
  ASSUME NEW C \in SUBSET KmKeys, NEW r \in KmRow
  PROVE  /\ ReadRow(C, r) \subseteq {k[2] : k \in C} /\ ReadRow(C, r) \subseteq KmCols
         /\ ColsOf(C, r) \subseteq ReadRow(C, r)
         /\ \A a \in Wired(C, r) : ReadRow(C, a) = ReadRow(C, r)
         /\ \A a \in KmRow : ReadRow(C, a) \cap ReadRow(C, r) # {} => a \in Wired(C, r)
<1>1. /\ r \in Wired(C, r)
      /\ \A a \in Wired(C, r) : Wired(C, a) = Wired(C, r)
  BY WiredFacts
<1>2. ReadRow(C, r) \subseteq {k[2] : k \in C} /\ ReadRow(C, r) \subseteq KmCols
  <2>1. ASSUME NEW c \in ReadRow(C, r)
        PROVE  c \in {k[2] : k \in C} /\ c \in KmCols
    <3>1. PICK a \in Wired(C, r) : c \in ColsOf(C, a)
      BY DEF ReadRow
    <3>2. <<a, c>> \in C /\ c \in KmCols /\ <<a, c>>[2] = c
      BY <3>1 DEF ColsOf
    <3> QED BY <3>2
  <2> QED BY <2>1
<1>3. ColsOf(C, r) \subseteq ReadRow(C, r)
  BY <1>1 DEF ReadRow
<1>4. \A a \in Wired(C, r) : ReadRow(C, a) = ReadRow(C, r)
  BY <1>1 DEF ReadRow
<1>5. ASSUME NEW a \in KmRow, NEW c \in ReadRow(C, a), c \in ReadRow(C, r)
      PROVE  a \in Wired(C, r)
  <2>1. PICK s \in Wired(C, a) : c \in ColsOf(C, s)
    BY DEF ReadRow
  <2>2. PICK t \in Wired(C, r) : c \in ColsOf(C, t)
    BY <1>5 DEF ReadRow
  <2>3. s \in KmRow /\ t \in KmRow
    BY WiredFacts
  <2>4. s \in Wired(C, r)
    BY <2>1, <2>2, <2>3, WiredFacts
  <2>5. Wired(C, s) = Wired(C, r) /\ Wired(C, s) = Wired(C, a)
    BY <2>4, WiredFacts
  <2> QED BY <2>5, WiredFacts
<1> QED BY <1>2, <1>3, <1>4, <1>5

LEMMA ShownCols ==
  ASSUME NEW C \in SUBSET KmKeys, NEW r \in KmRow
  PROVE  ColsOf(KmShown(C), r) = ReadRow(C, r)
<1>1. ReadRow(C, r) \subseteq KmCols
  BY ReadRowFacts
<1>2. ASSUME NEW c \in KmCols
      PROVE  <<r, c>> \in KmShown(C) <=> c \in ReadRow(C, r)
  BY DEF KmShown
<1> QED BY <1>1, <1>2 DEF ColsOf

\* What the ghost removal leaves of what is read in a scan without a change: the keys that are
\* down and can be told from others (kb_rmv_ghost_key).
LEMMA GhostsRemoved ==
  ASSUME NEW C \in SUBSET KmKeys
  PROVE  kb_rmv_ghost_key(KmShown(C)) = KmCertain(C)
<1>1. /\ IsFiniteSet(KmRow) /\ IsFiniteSet(KmCols) /\ KmRow \subseteq Nat
  BY KmAssumption, FS_Interval DEF KmRow
<1>2. ASSUME NEW r \in KmRow
      PROVE  /\ IsFiniteSet(Wired(C, r)) /\ IsFiniteSet(ReadRow(C, r))
             /\ Cardinality(Wired(C, r)) > 1 <=> \E a \in Wired(C, r) : a # r
             /\ Cardinality(ReadRow(C, r)) > 1 <=> \E c, d \in ReadRow(C, r) : c # d
  <2>1. r \in Wired(C, r) /\ Wired(C, r) \subseteq KmRow /\ ReadRow(C, r) \subseteq KmCols
    BY WiredFacts, ReadRowFacts
  <2>2. IsFiniteSet(Wired(C, r)) /\ IsFiniteSet(ReadRow(C, r))
    BY <1>1, <2>1, FS_Subset
  <2>3. Cardinality(Wired(C, r)) > 1 <=> \E a, b \in Wired(C, r) : a # b
    BY <2>2, MoreThanOne
  <2>4. Cardinality(ReadRow(C, r)) > 1 <=> \E c, d \in ReadRow(C, r) : c # d
    BY <2>2, MoreThanOne
  <2> QED BY <2>1, <2>2, <2>3, <2>4
<1>3. ASSUME NEW r \in KmRow, NEW c \in KmCols
      PROVE  <<r, c>> \in KmCertain(C) <=>
               <<r, c>> \in C /\ ~(/\ \E a \in Wired(C, r) : a # r
                                   /\ \E d, e \in ReadRow(C, r) : d # e)
  <2>1. <<r, c>>[1] = r
    OBVIOUS
  <2> QED BY <1>2, <2>1 DEF KmCertain, Ambiguous
<1>4. ASSUME NEW r \in KmRow, NEW c \in KmCols
      PROVE  <<r, c>> \in kb_rmv_ghost_key(KmShown(C)) <=>
               /\ c \in ReadRow(C, r)
               /\ \A a, b \in KmRow : a <= r /\ a < b => c \notin Suspect(KmShown(C), a, b)
  <2>1. <<r, c>> \in KmShown(C) <=> c \in ReadRow(C, r)
    BY DEF KmShown
  <2>2. <<r, c>>[1] = r /\ <<r, c>>[2] = c
    OBVIOUS
  <2> QED BY <2>1, <2>2 DEF kb_rmv_ghost_key
<1>5. ASSUME NEW a \in KmRow, NEW b \in KmRow, NEW c \in KmCols
      PROVE  c \in Suspect(KmShown(C), a, b) <=>
               /\ c \in ReadRow(C, a) \cap ReadRow(C, b)
               /\ \/ Cardinality(ReadRow(C, a) \cap ReadRow(C, b)) > 1
                  \/ ReadRow(C, a) # ReadRow(C, b)
  BY ShownCols DEF Suspect
<1>6. ASSUME NEW r \in KmRow, NEW c \in KmCols, <<r, c>> \in kb_rmv_ghost_key(KmShown(C))
      PROVE  <<r, c>> \in KmCertain(C)
  <2>1. c \in ReadRow(C, r)
    BY <1>4, <1>6
  <2>2. ASSUME NEW a \in Wired(C, r), a # r, NEW d \in ReadRow(C, r), NEW e \in ReadRow(C, r),
               d # e
        PROVE  FALSE
    <3>1. a \in KmRow /\ ReadRow(C, a) = ReadRow(C, r)
      BY ReadRowFacts, WiredFacts
    <3>2. Cardinality(ReadRow(C, r)) > 1
      BY <1>2, <2>2
    <3>3. c \in Suspect(KmShown(C), a, r) /\ c \in Suspect(KmShown(C), r, a)
      BY <1>5, <2>1, <3>1, <3>2
    <3>4. a < r \/ r < a
      BY <1>1, <2>2, <3>1
    <3>5. r <= r /\ (a < r => a <= r)
      BY <1>1, <3>1
    <3> QED BY <1>4, <1>6, <3>1, <3>3, <3>4, <3>5
  <2>3. ASSUME <<r, c>> \notin C
        PROVE  FALSE
    <3>1. PICK a \in Wired(C, r) : c \in ColsOf(C, a)
      BY <2>1 DEF ReadRow
    <3>2. a # r
      BY <2>3, <3>1 DEF ColsOf
    <3>3. PICK d \in ColsOf(C, r) : TRUE
      BY <3>2, WiredFacts
    <3>4. d # c /\ d \in ReadRow(C, r)
      BY <2>3, <3>3, ReadRowFacts DEF ColsOf
    <3> QED BY <2>1, <2>2, <3>2, <3>4
  <2> QED BY <1>3, <2>2, <2>3
<1>7. ASSUME NEW r \in KmRow, NEW c \in KmCols, <<r, c>> \in KmCertain(C)
      PROVE  <<r, c>> \in kb_rmv_ghost_key(KmShown(C))
  <2>1. <<r, c>> \in C /\ c \in ReadRow(C, r)
    BY <1>3, <1>7, ReadRowFacts DEF ColsOf
  <2>2. ASSUME NEW a \in KmRow, NEW b \in KmRow, a < b, c \in Suspect(KmShown(C), a, b)
        PROVE  FALSE
    <3>1. c \in ReadRow(C, a) /\ c \in ReadRow(C, b)
      BY <1>5, <2>2
    <3>2. a \in Wired(C, r) /\ b \in Wired(C, r)
      BY <2>1, <3>1, ReadRowFacts
    <3>3. ReadRow(C, a) = ReadRow(C, r) /\ ReadRow(C, b) = ReadRow(C, r)
      BY <3>2, ReadRowFacts
    <3>4. Cardinality(ReadRow(C, r)) > 1
      BY <1>5, <2>2, <3>3
    <3>5. a # b
      BY <1>1, <2>2
    <3> QED BY <1>2, <1>3, <1>7, <3>2, <3>4, <3>5
  <2> QED BY <1>4, <2>1, <2>2
<1>8. \A k \in KmKeys : k[1] \in KmRow /\ k[2] \in KmCols /\ k = <<k[1], k[2]>>
  BY DEF KmKeys
<1>9. kb_rmv_ghost_key(KmShown(C)) \subseteq KmKeys
  <2>1. ASSUME NEW r \in KmRow PROVE {r} \X ReadRow(C, r) \subseteq KmKeys
    BY ReadRowFacts DEF KmKeys
  <2>2. KmShown(C) \subseteq KmKeys
    BY <2>1 DEF KmShown
  <2> QED BY <2>2 DEF kb_rmv_ghost_key
<1>10. KmCertain(C) \subseteq KmKeys
  BY DEF KmCertain
<1>11. ASSUME NEW k \in KmKeys
       PROVE  k \in kb_rmv_ghost_key(KmShown(C)) <=> k \in KmCertain(C)
  <2>1. PICK r \in KmRow, c \in KmCols : k = <<r, c>>
    BY <1>8
  <2> QED BY <1>6, <1>7, <2>1
<1> QED BY <1>9, <1>10, <1>11

\* A key that is alone shows nothing else.
LEMMA AloneShown ==
  ASSUME NEW C \in SUBSET KmKeys, \A k, l \in C : k = l, NEW r \in KmRow
  PROVE  ReadRow(C, r) = ColsOf(C, r)
<1>1. Linked(C, {r})
  <2>1. ASSUME NEW b \in KmRow, NEW c \in ColsOf(C, r), c \in ColsOf(C, b)
        PROVE  b = r
    <3>1. <<r, c>> \in C /\ <<b, c>> \in C
      BY <2>1 DEF ColsOf
    <3>2. <<r, c>> = <<b, c>>
      BY <3>1
    <3> QED BY <3>2
  <2> QED BY <2>1 DEF Linked
<1>2. \A a \in Wired(C, r) : a = r
  BY <1>1 DEF Wired
<1>3. r \in Wired(C, r)
  BY WiredFacts
<1> QED BY <1>2, <1>3 DEF ReadRow

LEMMA NothingShown ==
  ASSUME NEW r \in KmRow
  PROVE  ReadRow({}, r) = {}
<1>1. {} \in SUBSET KmKeys /\ \A k, l \in {} : k = l
  OBVIOUS
<1>2. ReadRow({}, r) = ColsOf({}, r)
  BY <1>1, AloneShown
<1> QED BY <1>2 DEF ColsOf

\* A scan in which no key changes.
LEMMA StaticScan ==
  ASSUME KmTypeOK, NEW n \in KmRow
  PROVE  KmRaw(n, km_closed) = KmShown(km_closed)
<1>1. km_closed \in SUBSET KmKeys
  BY DEF KmTypeOK, KmChords
<1>2. ASSUME NEW r \in KmRow
      PROVE  ColsLooked \cap ReadRow(km_closed, r) = ReadRow(km_closed, r)
  <2>1. CASE km_closed = {}
    BY <2>1, NothingShown
  <2>2. CASE km_closed # {}
    <3>1. ColsLooked = {k[2] : k \in km_closed}
      BY <2>2 DEF ColsLooked
    <3> QED BY <1>1, <3>1, ReadRowFacts
  <2> QED BY <2>1, <2>2
<1>3. KmRaw(n, km_closed) =
        UNION {{r} \X (ColsLooked \cap ReadRow(km_closed, r)) : r \in KmRow}
  BY DEF KmRaw
<1> QED BY <1>2, <1>3 DEF KmShown

\* A scan in which the first key goes down, or a key goes down and up, shows nothing else.
LEMMA FirstKeyScan ==
  ASSUME KmTypeOK, km_closed = {}, NEW n \in KmRow, NEW closed \in KmChange(km_closed)
  PROVE  kb_rmv_ghost_key(KmRaw(n, closed)) \subseteq closed
<1>1. closed \in SUBSET KmKeys /\ \A k, l \in closed : k = l
  BY DEF KmChange, KmChords
<1>2. ASSUME NEW r \in KmRow, NEW c \in ReadRow(IF r <= n THEN km_closed ELSE closed, r)
      PROVE  <<r, c>> \in closed
  <2>1. c \in ReadRow(closed, r)
    BY <1>2, NothingShown
  <2>2. c \in ColsOf(closed, r)
    BY <1>1, <2>1, AloneShown
  <2> QED BY <2>2 DEF ColsOf
<1>3. ASSUME NEW r \in KmRow
      PROVE  {r} \X (ColsLooked \cap ReadRow(IF r <= n THEN km_closed ELSE closed, r))
               \subseteq closed
  BY <1>2
<1>4. KmRaw(n, closed) \subseteq closed
  BY <1>3 DEF KmRaw
<1> QED BY <1>4 DEF kb_rmv_ghost_key

\* kb_scan_key, with what it reads by name.
KmScan(n, closed, cur) ==
  LET split == n < KmRows /\ closed # km_closed
      scanned == ColsLooked # {}
  IN  /\ n < KmRows \/ closed = km_closed
      /\ split => ~km_split
      /\ km_closed' = closed
      /\ km_split' = split
      /\ km_seen' = IF scanned THEN km_closed \cup closed ELSE km_seen
      /\ km_still' = IF split THEN 0 ELSE IF km_still = 2 THEN 2 ELSE km_still + 1
      /\ km_short' = (km_closed = {} /\ (km_short \/ closed # {}))
      /\ ret_last' = ColsLooked
      /\ km_release' = KmWindow
      /\ km_pre' = IF scanned THEN cur ELSE km_pre
      /\ km_last' = IF scanned THEN key_debounce_filter(cur) ELSE km_last

LEMMA ScanNamed ==
  km_scan_key => \E n \in KmRow, closed \in KmChange(km_closed) :
                   KmScan(n, closed, kb_rmv_ghost_key(KmRaw(n, closed)))
  BY DEF km_scan_key, KmScan, KmRaw

\* What a scan reads was down at some time in it, unless keys changed in it; and they can have
\* changed only if some key was down before, or nothing but this key is read.
LEMMA ScanSees ==
  ASSUME KmTypeOK, NEW n \in KmRow, NEW closed \in KmChange(km_closed),
         n < KmRows \/ closed = km_closed
  PROVE  LET cur == kb_rmv_ghost_key(KmRaw(n, closed))
         IN  /\ closed = km_closed => cur = KmCertain(km_closed)
             /\ closed = km_closed \/ km_closed = {} => cur \subseteq km_closed \cup closed
             /\ cur \subseteq KmKeys
<1> DEFINE cur == kb_rmv_ghost_key(KmRaw(n, closed))
<1>1. km_closed \in SUBSET KmKeys /\ closed \in SUBSET KmKeys
  BY DEF KmTypeOK, KmChange, KmChords
<1>2. closed = km_closed => cur = KmCertain(km_closed)
  BY <1>1, StaticScan, GhostsRemoved
<1>3. KmCertain(km_closed) \subseteq km_closed
  BY DEF KmCertain
<1>4. km_closed = {} => cur \subseteq closed
  BY FirstKeyScan
<1>5. cur \subseteq KmKeys
  <2>1. ASSUME NEW r \in KmRow
        PROVE  ReadRow(IF r <= n THEN km_closed ELSE closed, r) \subseteq KmCols
    BY <1>1, ReadRowFacts
  <2>2. KmRaw(n, closed) \subseteq KmKeys
    BY <2>1 DEF KmRaw, KmKeys
  <2> QED BY <2>2 DEF kb_rmv_ghost_key
<1> QED BY <1>2, <1>3, <1>4, <1>5

LEMMA KmInitInv == KmInit => KmInv
<1> SUFFICES ASSUME KmInit PROVE KmInv
  OBVIOUS
<1>1. {} \in KmChords
  BY KmAssumption, FS_EmptySet DEF KmChords
<1>2. KmTypeOK
  <2>1. 0 \in 0..KM_WINDOW - 1 /\ 0 \in 0..2
    BY KmAssumption
  <2> QED BY <1>1, <2>1 DEF KmInit, KmTypeOK
<1>3. KmReads /\ KmStays
  BY KmAssumption DEF KmInit, KmReads, KmStays
<1> QED BY <1>2, <1>3 DEF KmInv

LEMMA KmTypeStep ==
  ASSUME KmTypeOK, [KmNext]_kmVars
  PROVE  KmTypeOK'
<1>1. /\ km_closed \in KmChords
      /\ km_pre \subseteq KmKeys /\ km_last \subseteq KmKeys /\ km_seen \in SUBSET KmKeys
      /\ ret_last \subseteq KmCols
      /\ km_release \in Nat /\ km_release <= KM_WINDOW - 1
      /\ km_split \in BOOLEAN /\ km_short \in BOOLEAN /\ km_still \in 0..2
      /\ KM_WINDOW \in Nat /\ KM_WINDOW >= 3
  BY KmAssumption DEF KmTypeOK
<1>2. ASSUME NEW n \in KmRow, NEW closed \in KmChange(km_closed), NEW cur,
             KmScan(n, closed, cur), cur = kb_rmv_ghost_key(KmRaw(n, closed))
      PROVE  KmTypeOK'
  <2>1. closed \in KmChords /\ KmChords \subseteq SUBSET KmKeys
    BY DEF KmChange, KmChords
  <2>2. cur \subseteq KmKeys
    BY <1>2, ScanSees DEF KmScan
  <2>3. km_pre' \subseteq KmKeys /\ km_last' \subseteq KmKeys
    BY <1>1, <1>2, <2>2 DEF KmScan, key_debounce_filter
  <2>4. km_seen' \in SUBSET KmKeys
    BY <1>1, <1>2, <2>1 DEF KmScan
  <2>5. ColsLooked \subseteq KmCols
    BY <1>1, <2>1 DEF ColsLooked, KmKeys
  <2>6. KmWindow \in 0..KM_WINDOW - 1
    BY <1>1 DEF KmWindow
  <2>7. km_split' \in BOOLEAN /\ km_short' \in BOOLEAN /\ km_still' \in 0..2
    BY <1>1, <1>2 DEF KmScan
  <2> QED BY <1>2, <2>1, <2>3, <2>4, <2>5, <2>6, <2>7 DEF KmScan, KmTypeOK
<1>3. CASE km_scan_key
  BY <1>2, <1>3, ScanNamed
<1>4. CASE KmKeysChange
  <2>1. km_closed' \in KmChords /\ km_still' = 0
    BY <1>4 DEF KmKeysChange, KmChange
  <2> QED BY <1>1, <1>4, <2>1 DEF KmKeysChange, KmTypeOK
<1>5. CASE UNCHANGED kmVars
  BY <1>1, <1>5 DEF kmVars, KmTypeOK
<1> QED BY <1>3, <1>4, <1>5 DEF KmNext

LEMMA KmReadsStep ==
  ASSUME KmTypeOK, KmReads, [KmNext]_kmVars
  PROVE  KmReads'
<1>1. /\ km_release \in Nat /\ km_release <= KM_WINDOW - 1
      /\ km_split \in BOOLEAN /\ km_short \in BOOLEAN
      /\ KM_WINDOW \in Nat /\ KM_WINDOW >= 3
  BY KmAssumption DEF KmTypeOK
<1>2. /\ ~km_split \/ km_release = 0 => km_pre \subseteq km_seen
      /\ km_release > 0 => ret_last # {}
      /\ ~km_short /\ km_release + 2 <= KM_WINDOW => km_pre = {}
      /\ ~km_short /\ km_release + 3 <= KM_WINDOW => km_last = {}
  BY DEF KmReads
<1>3. ASSUME NEW n \in KmRow, NEW closed \in KmChange(km_closed), NEW cur,
             KmScan(n, closed, cur), cur = kb_rmv_ghost_key(KmRaw(n, closed))
      PROVE  KmReads'
  <2>1. /\ n < KmRows \/ closed = km_closed
        /\ km_split' = (n < KmRows /\ closed # km_closed)
        /\ km_short' = (km_closed = {} /\ (km_short \/ closed # {}))
        /\ ret_last' = ColsLooked /\ km_release' = KmWindow
        /\ km_seen' = IF ColsLooked # {} THEN km_closed \cup closed ELSE km_seen
        /\ km_pre' = IF ColsLooked # {} THEN cur ELSE km_pre
        /\ km_last' = IF ColsLooked # {} THEN key_debounce_filter(cur) ELSE km_last
    BY <1>3 DEF KmScan
  <2>2. ~km_split' => closed = km_closed
    BY <2>1
  <2>3. /\ closed = km_closed => cur = KmCertain(km_closed)
        /\ closed = km_closed \/ km_closed = {} => cur \subseteq km_closed \cup closed
    BY <1>3, <2>1, ScanSees
  <2>4. KmCertain({}) = {}
    BY DEF KmCertain
  <2>5. CASE km_closed # {}
    <3>1. ColsLooked # {} /\ km_release' = KM_WINDOW - 1 /\ ret_last' # {}
      BY <2>1, <2>5 DEF ColsLooked, KmWindow
    <3>2. km_release' # 0 /\ ~(km_release' + 2 <= KM_WINDOW) /\ ~(km_release' + 3 <= KM_WINDOW)
      BY <1>1, <3>1
    <3>3. ~km_split' => km_pre' \subseteq km_seen'
      BY <2>1, <2>2, <2>3, <3>1
    <3> QED BY <3>1, <3>2, <3>3 DEF KmReads
  <2>6. CASE km_closed = {} /\ km_release > 0
    <3>1. ColsLooked # {} /\ km_release' = km_release - 1 /\ ret_last' # {}
      BY <1>2, <2>1, <2>6 DEF ColsLooked, KmWindow
    <3>2. km_pre' \subseteq km_seen'
      BY <2>1, <2>3, <2>6, <3>1
    <3>3. ~km_short' => ~km_short /\ closed = km_closed
      BY <2>1, <2>6
    <3>4. ~km_short' => km_pre' = {} /\ km_last' = km_last \cap km_pre
      BY <2>1, <2>3, <2>4, <2>6, <3>1, <3>3 DEF key_debounce_filter
    <3>5. km_release' + 3 <= KM_WINDOW => km_release + 2 <= KM_WINDOW
      BY <1>1, <3>1
    <3>6. ~km_short' /\ km_release' + 3 <= KM_WINDOW => km_last' = {}
      BY <1>2, <3>3, <3>4, <3>5
    <3> QED BY <3>1, <3>2, <3>4, <3>6 DEF KmReads
  <2>7. CASE km_closed = {} /\ ~(km_release > 0)
    <3>1. ColsLooked = {} /\ km_release' = 0 /\ km_release = 0
      BY <1>1, <2>1, <2>7 DEF ColsLooked, KmWindow
    <3>2. km_pre' = km_pre /\ km_last' = km_last /\ km_seen' = km_seen
      BY <2>1, <3>1
    <3>3. ~km_short' => ~km_short
      BY <2>1, <2>7
    <3> QED BY <1>1, <1>2, <3>1, <3>2, <3>3 DEF KmReads
  <2> QED BY <2>5, <2>6, <2>7
<1>4. CASE km_scan_key
  BY <1>3, <1>4, ScanNamed
<1>5. CASE KmKeysChange \/ UNCHANGED kmVars
  BY <1>2, <1>5 DEF KmKeysChange, kmVars, KmReads
<1> QED BY <1>4, <1>5 DEF KmNext

LEMMA KmStaysStep ==
  ASSUME KmTypeOK, KmReads, KmStays, [KmNext]_kmVars
  PROVE  KmStays'
<1>1. /\ km_release \in Nat /\ km_still \in 0..2 /\ km_short \in BOOLEAN
      /\ KM_WINDOW \in Nat /\ KM_WINDOW >= 3
  BY KmAssumption DEF KmTypeOK
<1>2. /\ km_short /\ km_still >= 1 => km_closed = {}
      /\ ~km_short /\ km_still >= 1 => km_pre = KmCertain(km_closed)
      /\ ~km_short /\ km_still = 2 => km_last = KmCertain(km_closed)
  BY DEF KmStays
<1>3. ASSUME NEW n \in KmRow, NEW closed \in KmChange(km_closed), NEW cur,
             KmScan(n, closed, cur), cur = kb_rmv_ghost_key(KmRaw(n, closed))
      PROVE  KmStays'
  <2> DEFINE split == n < KmRows /\ closed # km_closed
  <2>1. /\ n < KmRows \/ closed = km_closed
        /\ km_closed' = closed
        /\ km_short' = (km_closed = {} /\ (km_short \/ closed # {}))
        /\ km_still' = IF split THEN 0 ELSE IF km_still = 2 THEN 2 ELSE km_still + 1
        /\ km_pre' = IF ColsLooked # {} THEN cur ELSE km_pre
        /\ km_last' = IF ColsLooked # {} THEN key_debounce_filter(cur) ELSE km_last
    BY <1>3 DEF KmScan
  <2>2. closed = km_closed => cur = KmCertain(km_closed)
    BY <1>3, <2>1, ScanSees
  <2>3. CASE split
    BY <2>1, <2>3 DEF KmStays
  <2>4. CASE ~split
    <3>1. closed = km_closed /\ cur = KmCertain(km_closed) /\ km_closed' = km_closed
      BY <2>1, <2>2, <2>4
    <3>2. km_short' => km_closed' = {}
      BY <2>1, <3>1
    <3>6. KmCertain(km_closed)' = KmCertain(km_closed)
      BY <3>1 DEF KmCertain, Ambiguous, Wired, ReadRow, Linked, ColsOf
    <3>3. SUFFICES ASSUME ~km_short'
                   PROVE  /\ km_pre' = KmCertain(km_closed)
                          /\ km_still' = 2 => km_last' = KmCertain(km_closed)
      BY <3>2, <3>6 DEF KmStays
    <3>4. CASE ColsLooked # {}
      <4>1. km_pre' = KmCertain(km_closed) /\ km_last' = key_debounce_filter(cur)
        BY <2>1, <3>1, <3>4
      <4>2. km_still' = 2 => km_still >= 1
        BY <1>1, <2>1
      <4>3. km_still >= 1 => ~km_short
        BY <1>2, <2>1, <3>1, <3>3
      <4>4. km_still' = 2 => km_pre = cur
        BY <1>2, <3>1, <4>2, <4>3
      <4>5. km_pre = cur => key_debounce_filter(cur) = cur
        BY DEF key_debounce_filter
      <4> QED BY <3>1, <4>1, <4>4, <4>5
    <3>5. CASE ColsLooked = {}
      <4>1. km_closed = {}
        BY <3>5 DEF ColsLooked
      <4>2. ~km_short /\ ~(km_release > 0)
        BY <2>1, <3>1, <3>3, <3>5, <4>1 DEF ColsLooked, KmReads
      <4>3. km_pre = {} /\ km_last = {}
        BY <1>1, <4>2 DEF KmReads
      <4>4. KmCertain(km_closed) = {}
        BY <4>1 DEF KmCertain
      <4> QED BY <2>1, <3>5, <4>3, <4>4
    <3> QED BY <3>4, <3>5
  <2> QED BY <2>3, <2>4
<1>4. CASE km_scan_key
  BY <1>3, <1>4, ScanNamed
<1>5. CASE KmKeysChange
  BY <1>5 DEF KmKeysChange, KmStays
<1>6. CASE UNCHANGED kmVars
  <2>1. KmCertain(km_closed)' = KmCertain(km_closed)
    BY <1>6 DEF kmVars, KmCertain, Ambiguous, Wired, ReadRow, Linked, ColsOf
  <2> QED BY <1>2, <1>6, <2>1 DEF kmVars, KmStays
<1> QED BY <1>4, <1>5, <1>6 DEF KmNext

LEMMA KmInvStep == KmInv /\ [KmNext]_kmVars => KmInv'
BY KmTypeStep, KmReadsStep, KmStaysStep DEF KmInv

LEMMA KmInvHolds == KmSpec => []KmInv
BY KmInvStep, KmInitInv, PTL DEF KmSpec

\* The matrix scanner's state has its type (kb_scan_key).
THEOREM KmTypeCorrect == KmSpec => []KmTypeOK
<1>1. KmInv => KmTypeOK
  BY DEF KmInv
<1> QED BY <1>1, KmInvHolds, PTL

\* For any number of rows and columns and any keys held: after two scans without a change the
\* scanner reports the keys that are down and can be told from others, and no other
\* (kb_rmv_ghost_key, key_debounce_filter, kb_key_pressed).
THEOREM KmSettledHolds == KmSpec => []KmSettled
<1>1. KmInv => KmSettled
  <2> SUFFICES ASSUME KmInv, km_still = 2, ~km_short
               PROVE  km_last = {k \in km_closed : ~Ambiguous(km_closed, k)}
    BY DEF KmSettled
  <2> QED BY DEF KmInv, KmStays, KmCertain
<1> QED BY <1>1, KmInvHolds, PTL

\* No scan makes the scanner report a key that the last two scans did not see pressed
\* (key_debounce_filter).
THEOREM KmNoPhantomHolds == KmSpec => KmNoPhantom
<1>1. KmInv /\ [KmNext]_kmVars => [km_last' \ km_last \subseteq km_seen \cup km_seen']_kmVars
  <2> SUFFICES ASSUME KmInv, KmNext
               PROVE  km_last' \ km_last \subseteq km_seen \cup km_seen'
    OBVIOUS
  <2>1. KmTypeOK /\ KmReads
    BY DEF KmInv
  <2>2. ASSUME NEW n \in KmRow, NEW closed \in KmChange(km_closed), NEW cur,
               KmScan(n, closed, cur), cur = kb_rmv_ghost_key(KmRaw(n, closed))
        PROVE  km_last' \ km_last \subseteq km_seen \cup km_seen'
    <3>1. /\ n < KmRows \/ closed = km_closed
          /\ n < KmRows /\ closed # km_closed => ~km_split
          /\ km_seen' = IF ColsLooked # {} THEN km_closed \cup closed ELSE km_seen
          /\ km_last' = IF ColsLooked # {} THEN key_debounce_filter(cur) ELSE km_last
      BY <2>2 DEF KmScan
    <3>2. CASE ColsLooked = {}
      BY <3>1, <3>2
    <3>3. CASE ColsLooked # {} /\ closed = km_closed
      <4>1. cur \subseteq km_seen'
        BY <2>1, <2>2, <3>1, <3>3, ScanSees
      <4> QED BY <3>1, <3>3, <4>1 DEF key_debounce_filter
    <3>4. CASE ColsLooked # {} /\ closed # km_closed
      <4>1. km_pre \subseteq km_seen
        BY <2>1, <3>1, <3>4 DEF KmReads
      <4> QED BY <3>1, <3>4, <4>1 DEF key_debounce_filter
    <3> QED BY <3>2, <3>3, <3>4
  <2>3. CASE km_scan_key
    BY <2>2, <2>3, ScanNamed
  <2>4. CASE KmKeysChange
    BY <2>4 DEF KmKeysChange
  <2> QED BY <2>3, <2>4 DEF KmNext
<1> QED BY <1>1, KmInvHolds, PTL DEF KmSpec, KmNoPhantom

-----------------------------------------------------------------------------
(***************************************************************************)
(* The lock of the keyboard (kb_lock_func of                               *)
(* vendor/keyboard_remington/kb.c).  The invariant ties what the dongle    *)
(* was told to the report in the frame, and that report to the state of    *)
(* the lock.                                                               *)
(***************************************************************************)

\* What is known of the last report: with the keyboard open it is the one in the frame, and it
\* locks the keyboard only when the one before was empty.
KbLast ==
  /\ last_kb_cnt \in {0, 1} /\ kb_toggles \in 0..2
  /\ {kb_locked, kb_valid, kb_blind, kb_taken, km_dat_sending, kb_dropped} \subseteq BOOLEAN
  /\ kb_locked \/ last_kb_cnt = 0 => pkt_km = <<>>

\* What the dongle was told: the frame, if it has taken it; it has, or will, or it was given up.
KbTold ==
  /\ kb_taken => kb_host = Range(pkt_km)
  /\ kb_taken \/ km_dat_sending \/ kb_dropped
  /\ kb_locked => kb_host = {} \/ kb_dropped

\* A toggle stays in the count until all keys are up, and until then no other follows.
KbToggled == kb_toggles = 0 \/ kb_blind \/ (kb_toggles = 1 /\ last_kb_cnt = 1)

KbLockInv == KbLast /\ KbTold /\ KbToggled
-----------------------------------------------------------------------------
LEMMA KbInitLocks == KbInit => KbLockInv
<1>1. Range(<<>>) = {}
  BY DEF Range
<1>2. ASSUME KbInit PROVE KbLast
  <2>1. last_kb_cnt = 0 /\ kb_toggles = 0 /\ pkt_km = <<>>
    BY <1>2 DEF KbInit
  <2>2. {kb_locked, kb_valid, kb_blind, kb_taken, km_dat_sending, kb_dropped} \subseteq BOOLEAN
    BY <1>2 DEF KbInit
  <2>3. 0 \in 0..2
    OBVIOUS
  <2> QED BY <2>1, <2>2, <2>3 DEF KbLast
<1>3. ASSUME KbInit PROVE KbTold /\ KbToggled
  BY <1>1, <1>3 DEF KbInit, KbTold, KbToggled
<1> QED BY <1>2, <1>3 DEF KbLockInv

\* The key that locks comes out of the buffer, so no frame is under way then.
LEMMA KbLockKeyTaken ==
  ASSUME KeyScaned, LockKey(KbEvent)
  PROVE  ~km_dat_sending
<1>1. KbEvent # <<>>
  BY DEF LockKey
<1> QED BY <1>1 DEF KbEvent, KeyScaned, Takes, MayRead

\* The lock and the report before it.
LEMMA KbLockStep ==
  ASSUME KbLast, NEW scaned \in BOOLEAN, NEW r, kb_lock_func(scaned, r)
  PROVE  /\ last_kb_cnt' \in {0, 1} /\ kb_toggles' \in 0..2 /\ kb_locked' \in BOOLEAN
         /\ kb_blind' \in BOOLEAN
         /\ kb_locked' = IF scaned /\ LockKey(r) THEN ~kb_locked ELSE kb_locked
         /\ scaned => (last_kb_cnt' = 0 <=> Emptied(r) = <<>>)
         /\ ~scaned => last_kb_cnt' = last_kb_cnt
<1>1. kb_toggles \in 0..2 /\ kb_locked \in BOOLEAN /\ last_kb_cnt \in {0, 1} /\ kb_blind \in BOOLEAN
      /\ kb_valid \in BOOLEAN
  BY DEF KbLast
<1>2. LockKey(r) \in BOOLEAN
  BY DEF LockKey
<1>3. kb_locked' = (kb_locked # (scaned /\ LockKey(r)))
  BY DEF kb_lock_func
<1>4. kb_toggles' \in 0..2
  BY <1>1, <1>2 DEF kb_lock_func, Capped
<1>5. kb_blind' \in BOOLEAN
  BY <1>1 DEF kb_lock_func
<1>6. last_kb_cnt' = IF ~scaned THEN last_kb_cnt ELSE IF Emptied(r) = <<>> THEN 0 ELSE 1
  BY DEF kb_lock_func
<1> QED BY <1>1, <1>2, <1>3, <1>4, <1>5, <1>6

LEMMA KbToggledStep ==
  ASSUME KbLast, KbToggled, NEW scaned \in BOOLEAN, NEW r, kb_lock_func(scaned, r)
  PROVE  KbToggled'
<1>1. /\ kb_toggles \in 0..2 /\ {kb_locked, kb_blind, kb_valid} \subseteq BOOLEAN
      /\ last_kb_cnt \in {0, 1}
  BY DEF KbLast
<1>2. /\ kb_toggles' = (IF scaned /\ r = <<>> /\ (kb_valid \/ kb_locked) THEN 0
                        ELSE Capped(kb_toggles + IF scaned /\ LockKey(r) THEN 1 ELSE 0))
      /\ kb_blind' = (kb_toggles' > 0 /\ (kb_blind \/ ~kb_valid))
      /\ last_kb_cnt' = IF ~scaned THEN last_kb_cnt ELSE IF Emptied(r) = <<>> THEN 0 ELSE 1
  BY DEF kb_lock_func
<1>3. SUFFICES ASSUME kb_toggles' # 0, ~kb_blind'
               PROVE  kb_toggles' = 1 /\ last_kb_cnt' = 1
  BY DEF KbToggled
<1>4. kb_toggles' \in 0..2
  BY <1>1, <1>2 DEF Capped
<1>5. ~kb_blind /\ kb_valid
  <2>1. kb_toggles' > 0
    BY <1>3, <1>4
  <2>2. (kb_blind \/ ~kb_valid) \in BOOLEAN
    OBVIOUS
  <2>3. ~(kb_blind \/ ~kb_valid)
    BY <1>2, <1>3, <2>1, <2>2
  <2> QED BY <2>3
<1>6. kb_toggles = 0 \/ (kb_toggles = 1 /\ last_kb_cnt = 1)
  BY <1>5 DEF KbToggled
<1>7. CASE scaned /\ LockKey(r)
  <2>1. last_kb_cnt = 0 /\ r # <<>>
    BY <1>7 DEF LockKey
  <2>2. kb_toggles' = 1
    BY <1>2, <1>6, <1>7, <2>1 DEF Capped
  <2>3. Emptied(r) = r
    BY <1>5 DEF Emptied
  <2> QED BY <1>2, <1>7, <2>1, <2>2, <2>3
<1>8. CASE ~(scaned /\ LockKey(r))
  <2>1. ~(scaned /\ r = <<>>) /\ kb_toggles' = Capped(kb_toggles)
    BY <1>1, <1>2, <1>3, <1>5, <1>8
  <2>2. kb_toggles = 1 /\ last_kb_cnt = 1 /\ kb_toggles' = 1
    BY <1>3, <1>6, <2>1 DEF Capped
  <2>3. scaned => Emptied(r) = r
    BY <1>5 DEF Emptied
  <2> QED BY <1>2, <2>1, <2>2, <2>3
<1> QED BY <1>7, <1>8

\* What the frame says and what the dongle was told, after a pass.
LEMMA KbTellStep ==
  ASSUME KbLast, KbTold, NEW scaned \in BOOLEAN, NEW r, kb_rf_proc(scaned, r),
         kb_dropped' = (kb_dropped \/ (km_dat_sending /\ ~km_dat_sending' /\ ~kb_taken'))
  PROVE  /\ {kb_taken', km_dat_sending', kb_valid', kb_dropped'} \subseteq BOOLEAN
         /\ pkt_km' = IF scaned THEN r ELSE pkt_km
         /\ kb_taken' => kb_host' = Range(pkt_km')
         /\ kb_taken' \/ km_dat_sending' \/ kb_dropped'
         /\ kb_taken' \/ kb_host' = kb_host
<1> DEFINE id == pipe1_send_id_flg /\ (scaned => Len(r) <= KB_ID_KEYS)
           left == IF scaned \/ id THEN KB_RETRY ELSE kb_retry
           sending == scaned \/ id \/ km_dat_sending
           taken == kb_taken /\ ~scaned
<1>1. {kb_taken, km_dat_sending, kb_valid, kb_dropped} \subseteq BOOLEAN
  BY DEF KbLast
<1>2. pkt_km' = IF scaned THEN r ELSE pkt_km
  BY DEF kb_rf_proc
<1>3. IF sending /\ left > 0 THEN Sent(pkt_km', taken, id) ELSE NotSent
  BY DEF kb_rf_proc
<1>4. scaned => sending /\ left > 0
  BY KbAssumption
<1>5. Forgotten \in BOOLEAN
  BY <1>1 DEF Forgotten, Second
<1>6. taken => kb_host = Range(pkt_km')
  BY <1>1, <1>2 DEF KbTold
<1> HIDE DEF id, left, sending, taken
<1>7. CASE Heard(pkt_km', taken, id)
  <2>1. kb_taken' = TRUE /\ kb_host' = Range(pkt_km')
    BY <1>6, <1>7 DEF Heard
  <2>2. km_dat_sending' \in BOOLEAN /\ kb_valid' \in BOOLEAN
    BY <1>3, <1>5 DEF Sent, NotSent, KbAnswered, Told, Untold
  <2> QED BY <1>1, <1>2, <2>1, <2>2
<1>8. CASE sending /\ left > 0 /\ ~Heard(pkt_km', taken, id)
  <2>1. /\ kb_taken' = taken /\ kb_host' = kb_host
        /\ km_dat_sending' = TRUE /\ kb_valid' = Forgotten
    BY <1>3, <1>8 DEF Sent, Unheard, Untold, kbDongleVars
  <2>2. taken \in BOOLEAN
    BY <1>1 DEF taken
  <2> QED BY <1>1, <1>2, <1>5, <1>6, <2>1, <2>2
<1>9. CASE ~(sending /\ left > 0)
  <2>1. /\ km_dat_sending' = FALSE /\ kb_valid' = Forgotten
        /\ kb_taken' = kb_taken /\ kb_host' = kb_host
    BY <1>3, <1>9 DEF NotSent, kbDongleVars
  <2>2. ~scaned /\ pkt_km' = pkt_km
    BY <1>2, <1>4, <1>9
  <2> QED BY <1>1, <1>2, <1>5, <2>1, <2>2 DEF KbTold
<1> QED BY <1>7, <1>8, <1>9

LEMMA KbLocksStep == KbLockInv /\ [KbNext]_kbVars => KbLockInv'
<1> SUFFICES ASSUME KbLockInv, [KbNext]_kbVars PROVE KbLockInv'
  OBVIOUS
<1>1. CASE kb_main_loop
  <2> DEFINE sent == KeyScaned /\ ~kb_locked'
  <2>1. /\ kb_lock_func(KeyScaned, KbEvent) /\ kb_rf_proc(sent, Emptied(KbEvent))
        /\ kb_dropped' = (kb_dropped \/ (km_dat_sending /\ ~km_dat_sending' /\ ~kb_taken'))
    BY <1>1 DEF kb_main_loop
  <2>2. KeyScaned \in BOOLEAN /\ KbLast /\ KbTold /\ KbToggled
    BY DEF KeyScaned, KbLockInv
  <2>3. /\ last_kb_cnt' \in {0, 1} /\ kb_toggles' \in 0..2 /\ kb_locked' \in BOOLEAN
        /\ kb_blind' \in BOOLEAN
        /\ kb_locked' = IF KeyScaned /\ LockKey(KbEvent) THEN ~kb_locked ELSE kb_locked
        /\ KeyScaned => (last_kb_cnt' = 0 <=> Emptied(KbEvent) = <<>>)
        /\ ~KeyScaned => last_kb_cnt' = last_kb_cnt
    BY <2>1, <2>2, KbLockStep
  <2>4. sent \in BOOLEAN
    BY <2>2, <2>3
  <2> HIDE DEF sent
  <2>5. /\ {kb_taken', km_dat_sending', kb_valid', kb_dropped'} \subseteq BOOLEAN
        /\ pkt_km' = (IF sent THEN Emptied(KbEvent) ELSE pkt_km)
        /\ kb_taken' => kb_host' = Range(pkt_km')
        /\ kb_taken' \/ km_dat_sending' \/ kb_dropped'
        /\ kb_taken' \/ kb_host' = kb_host
    BY <2>1, <2>2, <2>4, KbTellStep
  <2>6. kb_locked' \/ last_kb_cnt' = 0 => pkt_km' = <<>>
    <3>1. CASE sent
      BY <2>3, <2>5, <3>1 DEF sent
    <3>2. CASE ~sent /\ KeyScaned
      <4>1. kb_locked' /\ pkt_km' = pkt_km
        BY <2>5, <3>2 DEF sent
      <4>2. kb_locked \/ last_kb_cnt = 0
        BY <2>3, <4>1 DEF LockKey
      <4> QED BY <2>2, <4>1, <4>2 DEF KbLast
    <3>3. CASE ~KeyScaned
      <4>1. kb_locked' = kb_locked /\ pkt_km' = pkt_km /\ last_kb_cnt' = last_kb_cnt
        BY <2>3, <2>5, <3>3 DEF sent
      <4> QED BY <2>2, <4>1 DEF KbLast
    <3> QED BY <3>1, <3>2, <3>3
  <2>7. kb_locked' => kb_host' = {} \/ kb_dropped'
    <3> SUFFICES ASSUME kb_locked', ~kb_dropped' PROVE kb_host' = {}
      OBVIOUS
    <3>1. pkt_km' = <<>> /\ Range(<<>>) = {}
      BY <2>6 DEF Range
    <3>2. CASE kb_taken'
      BY <2>5, <3>1, <3>2
    <3>3. CASE ~kb_taken'
      <4>1. kb_host' = kb_host /\ ~kb_dropped
        BY <2>1, <2>2, <2>5, <3>3 DEF KbLast
      <4>2. CASE kb_locked
        BY <2>2, <4>1, <4>2 DEF KbTold
      <4>3. CASE ~kb_locked
        <5>1. KeyScaned /\ LockKey(KbEvent)
          BY <2>3, <4>3
        <5>2. ~km_dat_sending /\ last_kb_cnt = 0
          BY <5>1, KbLockKeyTaken DEF LockKey
        <5>3. kb_taken /\ pkt_km = <<>>
          BY <2>2, <4>1, <5>2 DEF KbTold, KbLast
        <5> QED BY <2>2, <3>1, <4>1, <5>3 DEF KbTold
      <4> QED BY <4>2, <4>3
    <3> QED BY <3>2, <3>3
  <2>8. KbToggled'
    BY <2>1, <2>2, KbToggledStep
  <2>9. KbLast'
    BY <2>3, <2>5, <2>6 DEF KbLast
  <2>10. KbTold'
    BY <2>5, <2>7 DEF KbTold
  <2> QED BY <2>8, <2>9, <2>10 DEF KbLockInv
<1>2. CASE KbKeysChange \/ UNCHANGED kbVars
  <2>1. /\ UNCHANGED <<kb_locked, last_kb_cnt, kb_toggles, kb_blind>>
        /\ UNCHANGED <<pkt_km, km_dat_sending, kb_valid, kb_taken, kb_host, kb_dropped>>
    BY <1>2 DEF KbKeysChange, kbVars, lockVars, radioVars, kbDongleVars
  <2> QED BY <2>1 DEF KbLockInv, KbLast, KbTold, KbToggled
<1> QED BY <1>1, <1>2 DEF KbNext

\* However the keys come: the lock key that is held turns the keyboard once (kb_lock_func), and
\* locked it leaves no key down at the computer, but for a release that was given up.
THEOREM KbLocksHolds == KbSpec => []KbLocks
<1>1. KbLockInv => KbLocks
  BY DEF KbLockInv, KbLast, KbTold, KbToggled, KbLocks
<1> QED BY <1>1, KbInitLocks, KbLocksStep, PTL DEF KbSpec

-----------------------------------------------------------------------------
(***************************************************************************)
(* Loops, for every number of turns.                                       *)
(***************************************************************************)

\* A set that has 0, and with a number the next one up to N, has all of them.  The induction
\* theorems of the library have an operator in its place, for which no prover finds a value.
LEMMA UpTo ==
  ASSUME NEW N \in Nat, NEW T, 0 \in T, \A n \in 0..N : n \in T /\ n < N => n + 1 \in T
  PROVE  0..N \subseteq T
<1> SUFFICES ASSUME ~ (0..N \subseteq T) PROVE FALSE
  OBVIOUS
<1> DEFINE B == {n \in 0..N : n \notin T}
<1>1. B \subseteq Nat /\ B # {}
  OBVIOUS
<1>2. PICK x \in B : \A y \in B : x <= y
  BY <1>1, LeastExists
<1>3. x \in 1..N
  BY <1>2
<1>4. x - 1 \in 0..N /\ x - 1 < N /\ x - 1 + 1 = x /\ ~ (x <= x - 1)
  BY <1>3
<1>5. x - 1 \in T
  BY <1>2, <1>4
<1>6. x - 1 + 1 \in T
  BY <1>4, <1>5
<1> QED BY <1>2, <1>4, <1>6

\* What a loop of N turns leaves after each turn: such values exist.
Turns(N, S) == [0..N -> [S -> S]]
Runs(N, S, base, step) ==
  {f \in [0..N -> S] : f[0] = base /\ \A n \in 1..N : f[n] = step[n][f[n - 1]]}
LEMMA LoopExists ==
  ASSUME NEW N \in Nat, NEW S, NEW base \in S, NEW step \in Turns(N, S)
  PROVE  \E f : f \in Runs(N, S, base, step)
<1> USE DEF Turns
<1> DEFINE Is(m, f) == /\ f \in [0..m -> S] /\ f[0] = base
                       /\ \A n \in 1..m : f[n] = step[n][f[n - 1]]
           T == {m \in 0..N : \E f : Is(m, f)}
<1>1. 0 \in T
  <2>1. Is(0, [n \in 0..0 |-> base])
    OBVIOUS
  <2>2. \E f : Is(0, f)
    BY <2>1
  <2> QED BY <2>2
<1>2. ASSUME NEW m \in 0..N, m \in T, m < N
      PROVE  m + 1 \in T
  <2>1. PICK f : Is(m, f)
    BY <1>2
  <2>2. m + 1 \in 0..N /\ f[m] \in S
    BY <2>1, <1>2
  <2>3. step[m + 1][f[m]] \in S
    BY <2>2
  <2> DEFINE g == [n \in 0..m + 1 |-> IF n = m + 1 THEN step[m + 1][f[m]] ELSE f[n]]
  <2>4. g \in [0..m + 1 -> S] /\ g[0] = base
    BY <2>1, <2>3
  <2>5. ASSUME NEW n \in 1..m + 1 PROVE g[n] = step[n][g[n - 1]]
    <3>1. CASE n = m + 1
      <4>1. n - 1 = m /\ g[m] = f[m] /\ g[n] = step[m + 1][f[m]]
        BY <3>1, <1>2
      <4> QED BY <3>1, <4>1
    <3>2. CASE n \in 1..m
      <4>1. n - 1 \in 0..m + 1 /\ n - 1 # m + 1 /\ n # m + 1
        BY <3>2
      <4>2. g[n] = f[n] /\ g[n - 1] = f[n - 1]
        BY <4>1
      <4> QED BY <2>1, <3>2, <4>2
    <3> QED BY <3>1, <3>2
  <2>6. Is(m + 1, g)
    BY <2>4, <2>5
  <2> HIDE DEF g
  <2> QED BY <2>2, <2>6
<1>3. 0..N \subseteq T
  BY <1>1, <1>2, UpTo
<1>4. PICK f : Is(N, f)
  BY <1>3
<1> QED BY <1>4 DEF Runs

-----------------------------------------------------------------------------
(***************************************************************************)
(* The ranges of the keyboard (kb_scan_key, key_buf_merge, kb_rf_proc),    *)
(* for any keys and sizes of its buffers.                                  *)
(***************************************************************************)

\* The buffers as sequences of what they hold; a repeated report resets its counter.
KbTypeInv ==
  /\ KbTypeOK
  /\ matrix_buff \in Seq(SUBSET KbKeys) /\ keyEvt_buf \in Seq(KbReports)
  /\ data_same_cnt < KB_REPEAT /\ release_cnt < KB_WINDOW
-----------------------------------------------------------------------------
LEMMA KbReportsAre ==
  /\ \A s \in KbReports : s \in Seq(KbKeys) /\ Len(s) \in 0..KB_RETURN_KEY_MAX
  /\ \A s \in Seq(KbKeys) : Len(s) <= KB_RETURN_KEY_MAX => s \in KbReports
  /\ <<>> \in KbReports
<1>1. ASSUME NEW s \in KbReports PROVE s \in Seq(KbKeys) /\ Len(s) \in 0..KB_RETURN_KEY_MAX
  <2>1. PICK n \in 0..KB_RETURN_KEY_MAX : s \in [1..n -> KbKeys]
    BY DEF KbReports
  <2>2. n \in Nat
    BY <2>1
  <2> QED BY <2>1, <2>2
<1>2. ASSUME NEW s \in Seq(KbKeys), Len(s) <= KB_RETURN_KEY_MAX PROVE s \in KbReports
  <2>1. Len(s) \in 0..KB_RETURN_KEY_MAX /\ s \in [1..Len(s) -> KbKeys]
    BY <1>2, KbAssumption
  <2>2. \A n \in 0..KB_RETURN_KEY_MAX : [1..n -> KbKeys] \subseteq KbReports
    BY DEF KbReports
  <2> QED BY <2>1, <2>2
<1>3. <<>> \in Seq(KbKeys) /\ Len(<<>>) <= KB_RETURN_KEY_MAX
  BY KbAssumption
<1> QED BY <1>1, <1>2, <1>3

\* A finite set has its elements in some order.
LEMMA SetToSeqIs ==
  ASSUME NEW S, IsFiniteSet(S)
  PROVE  SetToSeq(S) \in Seq(S) /\ (S = {} => SetToSeq(S) = <<>>)
<1> DEFINE n == Cardinality(S)
<1>1. n \in Nat /\ ExistsBijection(1..n, S)
  BY FS_CardinalityType
<1>2. \E f \in [1..n -> S] : IsInjective(f)
  BY <1>1 DEF ExistsBijection, Bijection, Injection
<1>3. SetToSeq(S) \in [1..n -> S]
  BY <1>2 DEF SetToSeq
<1>4. S = {} => n = 0
  BY FS_EmptySet
<1>5. SetToSeq(S) \in Seq(S) /\ Len(SetToSeq(S)) = n
  BY <1>1, <1>3
<1> QED BY <1>4, <1>5

LEMMA ReportIs ==
  ASSUME NEW keys \in SUBSET KbKeys
  PROVE  /\ Report(keys) \in KbReports /\ Range(Report(keys)) \subseteq keys
         /\ keys = {} => Report(keys) = <<>>
<1> DEFINE s == SetToSeq(keys)
           r == IF Len(s) > KB_RETURN_KEY_MAX THEN SubSeq(s, 1, KB_RETURN_KEY_MAX) ELSE s
<1>1. IsFiniteSet(keys)
  BY KbAssumption, FS_Subset
<1>2. s \in Seq(keys) /\ (keys = {} => s = <<>>)
  BY <1>1, SetToSeqIs
<1>3. Report(keys) = r
  BY DEF Report
<1>4. KB_RETURN_KEY_MAX \in Nat \ {0}
  BY KbAssumption
<1> HIDE DEF s
<1>5. r \in Seq(keys) /\ Len(r) <= KB_RETURN_KEY_MAX /\ (keys = {} => r = <<>>)
  <2>1. CASE Len(s) > KB_RETURN_KEY_MAX
    <3>1. /\ SubSeq(s, 1, KB_RETURN_KEY_MAX) \in Seq(keys)
          /\ Len(SubSeq(s, 1, KB_RETURN_KEY_MAX)) = KB_RETURN_KEY_MAX
      BY <1>2, <1>4, <2>1
    <3>2. s # <<>>
      BY <1>4, <2>1
    <3> QED BY <1>2, <1>4, <2>1, <3>1, <3>2
  <2>2. CASE ~(Len(s) > KB_RETURN_KEY_MAX)
    <3>1. Len(s) \in Nat /\ r = s
      BY <1>2, <2>2
    <3> HIDE DEF r
    <3> QED BY <1>2, <1>4, <2>2, <3>1
  <2> QED BY <2>1, <2>2
<1> HIDE DEF r
<1>6. r \in Seq(KbKeys)
  BY <1>5, SeqMonotonic
<1>7. Range(r) \subseteq keys
  BY <1>5 DEF Range
<1> QED BY <1>3, <1>5, <1>6, <1>7, KbReportsAre

\* Reports that are joined are no more than before, and each as long as one may be.
LEMMA JoinedIs ==
  ASSUME NEW s \in Seq(KbReports), NEW r \in KbReports
  PROVE  Joined(s, r) \in Seq(KbReports)
<1>1. CASE s # <<>> /\ Mergable(Last(s), r)
  <2>1. Len(s) \in Nat \ {0} /\ Last(s) = s[Len(s)]
    BY <1>1 DEF Last
  <2>2. Last(s) \in KbReports
    <3>1. Len(s) \in 1..Len(s)
      BY <2>1
    <3> QED BY <2>1, <3>1, ElementOfSeq
  <2>3. Front(s) \in Seq(KbReports)
    <3>1. \A i \in 1..Len(s) - 1 : s[i] \in KbReports
      BY <2>1, ElementOfSeq
    <3> QED BY <2>1, <3>1 DEF Front
  <2>4. Last(s) \in Seq(KbKeys) /\ r \in Seq(KbKeys)
    BY <2>2, KbReportsAre
  <2>5. Last(s) \o r \in Seq(KbKeys) /\ Len(Last(s) \o r) = Len(Last(s)) + Len(r)
    BY <2>4
  <2>6. Last(s) \o r \in KbReports
    BY <1>1, <2>5, KbReportsAre DEF Mergable
  <2>7. Append(Front(s), Last(s) \o r) \in Seq(KbReports)
    BY <2>3, <2>6
  <2> QED BY <1>1, <2>7 DEF Joined
<1>2. CASE ~(s # <<>> /\ Mergable(Last(s), r))
  BY <1>2 DEF Joined
<1> QED BY <1>1, <1>2

\* What is merged after each of the reports.
MergeSteps(f) ==
  /\ f[0] = <<>> /\ f[Len(keyEvt_buf)] = Merged
  /\ \A n \in 0..Len(keyEvt_buf) : f[n] \in Seq(KbReports)
  /\ \A n \in 1..Len(keyEvt_buf) : f[n] = Joined(f[n - 1], keyEvt_buf[n])
LEMMA MergedSteps ==
  ASSUME keyEvt_buf \in Seq(KbReports)
  PROVE  \E f : MergeSteps(f)
<1> DEFINE S == Seq(KbReports)
           N == Len(keyEvt_buf)
           step == [n \in 0..N |-> [s \in S |-> IF n = 0 THEN <<>> ELSE Joined(s, keyEvt_buf[n])]]
           Loop(f) == f = [n \in 0..Len(keyEvt_buf) |-> IF n = 0 THEN <<>>
                                                        ELSE Joined(f[n - 1], keyEvt_buf[n])]
<1>1. N \in Nat /\ \A n \in 1..N : keyEvt_buf[n] \in KbReports
  BY ElementOfSeq
<1>2. <<>> \in S
  OBVIOUS
<1>3. step \in Turns(N, S)
  <2>1. \A n \in 0..N : \A s \in S : (IF n = 0 THEN <<>> ELSE Joined(s, keyEvt_buf[n])) \in S
    <3> SUFFICES ASSUME NEW n \in 0..N, NEW s \in S
                 PROVE  (IF n = 0 THEN <<>> ELSE Joined(s, keyEvt_buf[n])) \in S
      OBVIOUS
    <3>1. CASE n # 0
      <4>1. n \in 1..N
        BY <1>1, <3>1
      <4> QED BY <1>1, <3>1, <4>1, JoinedIs
    <3> QED BY <1>2, <3>1
  <2> HIDE DEF S, N
  <2> QED BY <2>1 DEF Turns
<1>4. PICK g \in [0..N -> S] : g[0] = <<>> /\ \A n \in 1..N : g[n] = step[n][g[n - 1]]
  <2> HIDE DEF step, S, N
  <2>1. PICK g : g \in Runs(N, S, <<>>, step)
    BY <1>1, <1>2, <1>3, LoopExists
  <2> QED BY <2>1 DEF Runs
<1>5. \E f : Loop(f)
  <2>1. ASSUME NEW n \in 0..N
        PROVE  g[n] = IF n = 0 THEN <<>> ELSE Joined(g[n - 1], keyEvt_buf[n])
    <3>1. CASE n # 0
      <4>1. n - 1 \in 0..N /\ n \in 1..N
        BY <1>1, <3>1
      <4>2. g[n - 1] \in S /\ g[n] = step[n][g[n - 1]]
        BY <1>4, <4>1
      <4> HIDE DEF S
      <4> QED BY <3>1, <4>2
    <3> QED BY <1>4, <3>1
  <2> HIDE DEF S
  <2>2. g = [n \in 0..N |-> IF n = 0 THEN <<>> ELSE Joined(g[n - 1], keyEvt_buf[n])]
    BY <1>4, <2>1
  <2> QED BY <2>2
<1> DEFINE f == CHOOSE f : Loop(f)
<1>6. Loop(f)
  BY <1>5
<1>7. Merged = f[Len(keyEvt_buf)]
  BY DEF Merged
<1> HIDE DEF f
<1>8. f[0] = <<>> /\ \A n \in 1..N : f[n] = Joined(f[n - 1], keyEvt_buf[n])
  BY <1>1, <1>6
<1> DEFINE T == {n \in 0..N : f[n] \in S}
<1>9. 0..N \subseteq T
  <2>1. 0 \in T
    <3>1. 0 \in 0..N /\ f[0] = <<>>
      BY <1>1, <1>8
    <3> HIDE DEF S, N
    <3> QED BY <1>2, <3>1
  <2>2. ASSUME NEW n \in 0..N, n \in T, n < N
        PROVE  n + 1 \in T
    <3>1. n + 1 \in 1..N /\ n + 1 - 1 = n /\ f[n] \in S
      BY <1>1, <2>2
    <3>2. f[n + 1] = Joined(f[n], keyEvt_buf[n + 1]) /\ keyEvt_buf[n + 1] \in KbReports
      BY <1>1, <1>8, <3>1
    <3>3. f[n + 1] \in S
      BY <3>1, <3>2, JoinedIs
    <3> QED BY <3>1, <3>3
  <2> HIDE DEF T
  <2> QED BY <1>1, <2>1, <2>2, UpTo
<1>10. \A n \in 0..N : f[n] \in S
  BY <1>9
<1>11. MergeSteps(f)
  <2> HIDE DEF S
  <2> QED BY <1>7, <1>8, <1>10 DEF MergeSteps, S
<1> QED BY <1>11

LEMMA MergedIs ==
  ASSUME keyEvt_buf \in Seq(KbReports)
  PROVE  Merged \in Seq(KbReports)
<1>1. PICK f : MergeSteps(f)
  BY MergedSteps
<1>2. Len(keyEvt_buf) \in 0..Len(keyEvt_buf)
  OBVIOUS
<1> QED BY <1>1, <1>2 DEF MergeSteps

LEMMA RoomMadeIs ==
  ASSUME keyEvt_buf \in Seq(KbReports), Len(keyEvt_buf) = KEY_BUF_SIZE
  PROVE  RoomMade \in Seq(KbReports) /\ Len(RoomMade) < KEY_BUF_SIZE
<1>1. Merged \in Seq(KbReports)
  BY MergedIs
<1>2. KEY_BUF_SIZE \in Nat \ {0}
  BY KbAssumption
<1>3. keyEvt_buf # <<>>
  BY <1>2
<1>4. Tail(keyEvt_buf) \in Seq(KbReports) /\ Len(Tail(keyEvt_buf)) = KEY_BUF_SIZE - 1
  BY <1>3, HeadTailProperties
<1> QED BY <1>1, <1>2, <1>4 DEF RoomMade
-----------------------------------------------------------------------------
\* What the scan reads, and the buffers after it.
LEMMA RingIs ==
  ASSUME KbTypeInv
  PROVE  /\ Debounced \subseteq KbKeys
         /\ Ring \in Seq(SUBSET KbKeys) /\ Len(Ring) <= KB_RING
         /\ IF Reported THEN Len(Ring) \in {Len(matrix_buff), Len(matrix_buff) + 1} /\ Ring # <<>>
                             /\ Ring[Len(Ring)] = Debounced
            ELSE Ring = matrix_buff
         /\ Reported => \/ Ring = Append(matrix_buff, Debounced)
                        \/ Ring = Tail(Append(matrix_buff, Debounced))
<1>1. Debounced \subseteq KbKeys
  BY DEF Debounced
<1>2. /\ matrix_buff \in Seq(SUBSET KbKeys) /\ Len(matrix_buff) <= KB_RING
      /\ KB_RING \in Nat \ {0} /\ Len(matrix_buff) \in Nat
  BY KbAssumption DEF KbTypeInv, KbTypeOK
<1>3. CASE Reported
  <2> DEFINE s == Append(matrix_buff, Debounced)
  <2>1. s \in Seq(SUBSET KbKeys) /\ Len(s) = Len(matrix_buff) + 1 /\ s[Len(s)] = Debounced /\ s # <<>>
    BY <1>1, <1>2
  <2>2. Ring = IF Len(s) > KB_RING THEN Tail(s) ELSE s
    BY <1>3 DEF Ring, Newest
  <2>3. CASE Len(s) > KB_RING
    <3>1. /\ Tail(s) \in Seq(SUBSET KbKeys) /\ Len(Tail(s)) = Len(matrix_buff)
          /\ \A i \in 1..Len(Tail(s)) : Tail(s)[i] = s[i + 1]
      BY <2>1, HeadTailProperties
    <3>2. Len(matrix_buff) = KB_RING
      BY <1>2, <2>1, <2>3
    <3>3. Tail(s)[Len(matrix_buff)] = Debounced
      BY <1>2, <2>1, <3>1, <3>2
    <3> HIDE DEF s
    <3> QED BY <1>1, <1>2, <1>3, <2>1, <2>2, <2>3, <3>1, <3>2, <3>3 DEF s
  <2>4. CASE ~(Len(s) > KB_RING)
    <3>1. Ring = s
      BY <2>2, <2>4
    <3>2. Len(s) <= KB_RING
      BY <1>2, <2>1, <2>4
    <3> QED BY <1>1, <1>3, <2>1, <3>1, <3>2
  <2> QED BY <2>3, <2>4
<1>4. CASE ~Reported
  BY <1>1, <1>2, <1>4 DEF Ring, Newest
<1> QED BY <1>3, <1>4

LEMMA EventsIs ==
  ASSUME KbTypeInv
  PROVE  /\ Events \in Seq(KbReports) /\ Len(Events) <= KEY_BUF_SIZE
         /\ IF Ring = <<>> THEN Events = keyEvt_buf
            ELSE /\ Events # <<>> /\ Len(Events) <= Len(keyEvt_buf) + 1
                 /\ Events[Len(Events)] = Report(Head(Ring))
                 /\ Len(keyEvt_buf) < KEY_BUF_SIZE => Events = Append(keyEvt_buf, Report(Head(Ring)))
<1>1. /\ keyEvt_buf \in Seq(KbReports) /\ Len(keyEvt_buf) <= KEY_BUF_SIZE
      /\ KEY_BUF_SIZE \in Nat \ {0} /\ Len(keyEvt_buf) \in Nat
  BY KbAssumption DEF KbTypeInv, KbTypeOK
<1>2. CASE Ring = <<>>
  BY <1>1, <1>2 DEF Events, Remapped
<1>3. CASE Ring # <<>>
  <2> DEFINE r == Report(Head(Ring))
             s == IF Len(keyEvt_buf) = KEY_BUF_SIZE THEN RoomMade ELSE keyEvt_buf
  <2>1. Head(Ring) \in SUBSET KbKeys
    BY <1>3, RingIs, HeadTailProperties
  <2>2. r \in KbReports
    BY <2>1, ReportIs
  <2>3. Events = Append(s, r)
    BY <1>3 DEF Events, Remapped
  <2>4. s \in Seq(KbReports) /\ Len(s) < KEY_BUF_SIZE /\ Len(s) <= Len(keyEvt_buf)
    BY <1>1, RoomMadeIs
  <2>5. Len(keyEvt_buf) < KEY_BUF_SIZE => s = keyEvt_buf
    BY <1>1
  <2> HIDE DEF s, r
  <2>6. Len(s) \in Nat /\ Append(s, r) \in Seq(KbReports) /\ Len(Append(s, r)) = Len(s) + 1
        /\ Append(s, r)[Len(s) + 1] = r /\ Append(s, r) # <<>>
    BY <2>2, <2>4
  <2> QED BY <1>1, <1>3, <2>3, <2>4, <2>5, <2>6 DEF r
<1> QED BY <1>2, <1>3
-----------------------------------------------------------------------------
LEMMA KbScanTypes ==
  ASSUME KbTypeInv, KbLockInv, kb_scan_key
  PROVE  /\ mtrx_pre' \subseteq KbKeys /\ mtrx_last' \subseteq KbKeys
         /\ release_cnt' \in 0..KB_WINDOW - 1 /\ data_same_cnt' \in 0..KB_REPEAT - 1
         /\ matrix_buff' \in Seq(SUBSET KbKeys) /\ Len(matrix_buff') <= KB_RING
         /\ keyEvt_buf' \in Seq(KbReports) /\ Len(keyEvt_buf') <= KEY_BUF_SIZE
         /\ KeyScaned => KbEvent \in KbReports
<1>1. /\ kb_down \in KbChords /\ mtrx_pre \subseteq KbKeys /\ mtrx_last \subseteq KbKeys
      /\ release_cnt \in 0..KB_WINDOW /\ release_cnt < KB_WINDOW
      /\ data_same_cnt \in 0..KB_REPEAT /\ data_same_cnt < KB_REPEAT
      /\ matrix_buff \in Seq(SUBSET KbKeys) /\ Len(matrix_buff) <= KB_RING
      /\ keyEvt_buf \in Seq(KbReports) /\ Len(keyEvt_buf) <= KEY_BUF_SIZE
  BY DEF KbTypeInv, KbTypeOK
<1>2. /\ KB_WINDOW \in Nat \ {0} /\ KB_REPEAT \in Nat \ {0} /\ KB_RING \in Nat /\ KEY_BUF_SIZE \in Nat
  BY KbAssumption
<1>3. release_cnt' \in 0..KB_WINDOW - 1
  BY <1>1, <1>2 DEF kb_scan_key, Window
<1>4. kb_down \subseteq KbKeys
  BY <1>1 DEF KbKeys
<1>5. /\ Debounced \subseteq KbKeys /\ Ring \in Seq(SUBSET KbKeys) /\ Len(Ring) <= KB_RING
      /\ Events \in Seq(KbReports) /\ Len(Events) <= KEY_BUF_SIZE
  BY RingIs, EventsIs
<1>6. KeyScaned => KbEvent \in KbReports
  <2>1. CASE Asks
    BY <2>1, KbReportsAre DEF KbEvent
  <2>2. CASE ~Asks
    <3>1. KeyScaned => Events # <<>>
      BY <2>2 DEF KeyScaned, Takes
    <3> QED BY <1>5, <2>2, <3>1, HeadTailProperties DEF KbEvent
  <2> QED BY <2>1, <2>2
<1>7. CASE ~Scanned
  BY <1>1, <1>2, <1>3, <1>6, <1>7 DEF kb_scan_key, bufVars
<1>8. CASE Scanned
  <2>1. /\ mtrx_pre' = kb_down /\ mtrx_last' = Debounced
        /\ data_same_cnt' = (IF Debounced # mtrx_last \/ Repeats THEN 0 ELSE data_same_cnt + 1)
        /\ matrix_buff' \in {Ring, Tail(Ring)} /\ (matrix_buff' # Ring => Ring # <<>>)
        /\ keyEvt_buf' \in {keyEvt_buf, Events, Tail(Events)}
        /\ keyEvt_buf' = Tail(Events) => Events # <<>> \/ keyEvt_buf' \in {keyEvt_buf, Events}
    BY <1>8 DEF kb_scan_key, Takes
  <2>2. data_same_cnt' \in 0..KB_REPEAT - 1
    BY <1>1, <1>2, <2>1 DEF Repeats
  <2>3. matrix_buff' \in Seq(SUBSET KbKeys) /\ Len(matrix_buff') <= KB_RING
    <3>1. Ring # <<>> => Tail(Ring) \in Seq(SUBSET KbKeys) /\ Len(Tail(Ring)) = Len(Ring) - 1
      BY <1>5, HeadTailProperties
    <3>2. Len(Ring) \in Nat
      BY <1>5
    <3>3. CASE matrix_buff' = Ring
      BY <1>5, <3>3
    <3>4. CASE matrix_buff' # Ring
      <4>1. matrix_buff' = Tail(Ring) /\ Ring # <<>>
        BY <2>1, <3>4
      <4> QED BY <1>2, <1>5, <3>1, <3>2, <4>1
    <3> QED BY <3>3, <3>4
  <2>4. keyEvt_buf' \in Seq(KbReports) /\ Len(keyEvt_buf') <= KEY_BUF_SIZE
    <3>1. Events # <<>> => Tail(Events) \in Seq(KbReports) /\ Len(Tail(Events)) = Len(Events) - 1
      BY <1>5, HeadTailProperties
    <3>2. Len(Events) \in Nat
      BY <1>5
    <3>3. CASE keyEvt_buf' \in {keyEvt_buf, Events}
      BY <1>1, <1>5, <3>3
    <3>4. CASE keyEvt_buf' \notin {keyEvt_buf, Events}
      <4>1. keyEvt_buf' = Tail(Events) /\ Events # <<>>
        BY <2>1, <3>4
      <4> QED BY <1>2, <1>5, <3>1, <3>2, <4>1
    <3> QED BY <3>3, <3>4
  <2> QED BY <1>3, <1>4, <1>5, <1>6, <2>1, <2>2, <2>3, <2>4
<1> QED BY <1>7, <1>8

LEMMA KbRadioTypes ==
  ASSUME KbTypeInv, KbLast, NEW scaned \in BOOLEAN, NEW r, scaned => r \in KbReports,
         kb_rf_proc(scaned, r)
  PROVE  /\ pkt_km' \in KbReports /\ km_dat_sending' \in BOOLEAN /\ kb_retry' \in 0..KB_RETRY
         /\ kb_silence' \in 0..KB_IDLE /\ kb_valid' \in BOOLEAN
         /\ {pipe1_send_id_flg', pkt_id', kb_taken', kb_garbled'} \subseteq BOOLEAN
         /\ kb_dongle' \in {"fresh", "asks", "knows"} /\ kb_host' \subseteq KbKeys
         /\ kb_stalls' \in 0..KbMaxStalls
<1> DEFINE id == pipe1_send_id_flg /\ (scaned => Len(r) <= KB_ID_KEYS)
           left == IF scaned \/ id THEN KB_RETRY ELSE kb_retry
           sending == scaned \/ id \/ km_dat_sending
           taken == kb_taken /\ ~scaned
<1>1. /\ kb_valid \in BOOLEAN /\ kb_silence \in 0..KB_IDLE
      /\ pkt_km \in KbReports /\ km_dat_sending \in BOOLEAN /\ kb_retry \in 0..KB_RETRY
      /\ pipe1_send_id_flg \in BOOLEAN /\ pkt_id \in BOOLEAN /\ kb_taken \in BOOLEAN
      /\ kb_dongle \in {"fresh", "asks", "knows"}
      /\ kb_host \subseteq KbKeys /\ kb_garbled \in BOOLEAN /\ kb_stalls \in 0..KbMaxStalls
  BY DEF KbTypeInv, KbTypeOK
<1>2. KB_RETRY \in Nat /\ KB_IDLE \in Nat /\ KbMaxStalls \in Nat
  BY KbAssumption
<1>3. /\ pkt_km' = IF scaned THEN r ELSE pkt_km
      /\ pkt_id' = (id \/ (pkt_id /\ ~scaned))
      /\ kb_retry' = IF sending /\ left > 0 THEN left - 1 ELSE left
      /\ IF sending /\ left > 0 THEN Sent(pkt_km', taken, id) ELSE NotSent
  BY DEF kb_rf_proc
<1>4. pkt_km' \in KbReports /\ pkt_id' \in BOOLEAN /\ kb_retry' \in 0..KB_RETRY
  <2>1. left \in 0..KB_RETRY
    BY <1>1, <1>2
  <2>2. id \in BOOLEAN
    BY <1>1
  <2> HIDE DEF left, id, sending
  <2> QED BY <1>1, <1>2, <1>3, <2>1, <2>2
<1>5. Range(pkt_km') \subseteq KbKeys
  <2>1. pkt_km' \in Seq(KbKeys)
    BY <1>4, KbReportsAre
  <2> QED BY <2>1, ElementOfSeq DEF Range
<1>6. taken \in BOOLEAN /\ id \in BOOLEAN /\ Forgotten \in BOOLEAN
  BY <1>1 DEF Forgotten, Second
<1> HIDE DEF id, left, sending, taken
<1>7. Silent => kb_silence' \in 0..KB_IDLE
  BY <1>1, <1>2 DEF Silent, Second
<1>8. ASSUME Heard(pkt_km', taken, id) \/ Unheard(taken)
      PROVE  /\ kb_taken' \in BOOLEAN /\ kb_garbled' \in BOOLEAN /\ kb_host' \subseteq KbKeys
             /\ kb_dongle' \in {"fresh", "asks", "knows"}
  <2>1. CASE Heard(pkt_km', taken, id)
    BY <1>1, <1>5, <2>1 DEF Heard
  <2>2. CASE Unheard(taken)
    BY <1>1, <1>6, <2>2 DEF Unheard, kbDongleVars
  <2> QED BY <1>8, <2>1, <2>2
<1>9. CASE sending /\ left > 0
  <2>1. CASE KbAnswered /\ Heard(pkt_km', taken, id)
    <3>1. kb_silence' \in 0..KB_IDLE /\ kb_valid' \in BOOLEAN /\ pipe1_send_id_flg' \in BOOLEAN
          /\ km_dat_sending' \in BOOLEAN
      <4>1. kb_silence' = 0 /\ 0 \in 0..KB_IDLE /\ km_dat_sending' = FALSE
        BY <1>2, <2>1 DEF KbAnswered
      <4>2. /\ pipe1_send_id_flg' = (kb_dongle = "asks")
            /\ kb_valid' = (kb_dongle # "asks" \/ Forgotten)
        BY <2>1 DEF KbAnswered, Told
      <4> QED BY <1>6, <4>1, <4>2
    <3>2. kb_stalls' \in 0..KbMaxStalls
      BY <1>1, <1>2, <2>1 DEF KbAnswered
    <3> QED BY <1>4, <1>8, <2>1, <3>1, <3>2
  <2>2. CASE ~(KbAnswered /\ Heard(pkt_km', taken, id))
    <3>1. /\ kb_stalls < KbMaxStalls /\ kb_stalls' = kb_stalls + 1
          /\ Heard(pkt_km', taken, id) \/ Unheard(taken)
          /\ km_dat_sending' = TRUE /\ Silent /\ (Told \/ Untold)
      BY <1>3, <1>9, <2>2 DEF Sent
    <3>2. kb_stalls' \in 0..KbMaxStalls
      BY <1>1, <1>2, <3>1
    <3>3. kb_valid' \in BOOLEAN /\ pipe1_send_id_flg' \in BOOLEAN
      BY <1>1, <1>6, <3>1 DEF Told, Untold
    <3> QED BY <1>1, <1>4, <1>6, <1>7, <1>8, <3>1, <3>2, <3>3
  <2> QED BY <2>1, <2>2
<1>10. CASE ~(sending /\ left > 0)
  <2>1. NotSent
    BY <1>3, <1>10
  <2> QED BY <1>1, <1>4, <1>6, <1>7, <2>1 DEF NotSent, kbDongleVars
<1> QED BY <1>9, <1>10

LEMMA KbInitTypes == KbInit => KbTypeInv
<1> SUFFICES ASSUME KbInit PROVE KbTypeInv
  OBVIOUS
<1>1. /\ KB_WINDOW \in Nat \ {0} /\ KB_REPEAT \in Nat \ {0} /\ KB_RING \in Nat /\ KEY_BUF_SIZE \in Nat
      /\ KB_RETRY \in Nat /\ KB_IDLE \in Nat /\ KbMaxStalls \in Nat /\ {} \in KbChords
  BY KbAssumption
<1>2. matrix_buff = <<>> /\ keyEvt_buf = <<>> /\ pkt_km = <<>>
  BY DEF KbInit
<1>3. matrix_buff \in Seq(SUBSET KbKeys) /\ keyEvt_buf \in Seq(KbReports) /\ pkt_km \in KbReports
      /\ Len(matrix_buff) <= KB_RING /\ Len(keyEvt_buf) <= KEY_BUF_SIZE
  BY <1>1, <1>2, KbReportsAre
<1>4. release_cnt \in 0..KB_WINDOW /\ release_cnt < KB_WINDOW
      /\ data_same_cnt \in 0..KB_REPEAT /\ data_same_cnt < KB_REPEAT
      /\ kb_silence \in 0..KB_IDLE /\ kb_retry \in 0..KB_RETRY /\ kb_stalls \in 0..KbMaxStalls
      /\ kb_toggles \in 0..2 /\ last_kb_cnt \in {0, 1}
  BY <1>1 DEF KbInit
<1>5. KbTypeOK
  <2>1. /\ kb_down \in KbChords /\ mtrx_pre \subseteq KbKeys /\ mtrx_last \subseteq KbKeys
        /\ \A i \in DOMAIN matrix_buff : matrix_buff[i] \subseteq KbKeys
        /\ \A i \in DOMAIN keyEvt_buf : keyEvt_buf[i] \in KbReports
        /\ kb_host \subseteq KbKeys /\ kb_dongle \in {"fresh", "asks", "knows"}
    BY <1>1, <1>2 DEF KbInit
  <2>2. /\ kb_locked \in BOOLEAN /\ kb_valid \in BOOLEAN /\ km_dat_sending \in BOOLEAN
        /\ pipe1_send_id_flg \in BOOLEAN /\ pkt_id \in BOOLEAN /\ kb_taken \in BOOLEAN
        /\ kb_garbled \in BOOLEAN /\ kb_dropped \in BOOLEAN /\ kb_blind \in BOOLEAN
    BY DEF KbInit
  <2> QED BY <1>3, <1>4, <2>1, <2>2 DEF KbTypeOK
<1> QED BY <1>3, <1>4, <1>5 DEF KbTypeInv

LEMMA KbTypesStep == KbTypeInv /\ KbLockInv /\ [KbNext]_kbVars => KbTypeInv'
<1> SUFFICES ASSUME KbTypeInv, KbLockInv, [KbNext]_kbVars PROVE KbTypeInv'
  OBVIOUS
<1>1. KbLockInv'
  BY KbLocksStep
<1>2. CASE kb_main_loop
  <2> DEFINE sent == KeyScaned /\ ~kb_locked'
             r == Emptied(KbEvent)
  <2>1. /\ kb_scan_key /\ kb_lock_func(KeyScaned, KbEvent) /\ kb_rf_proc(sent, r)
        /\ kb_dropped' = (kb_dropped \/ (km_dat_sending /\ ~km_dat_sending' /\ ~kb_taken'))
        /\ kb_down' = kb_down
    BY <1>2 DEF kb_main_loop
  <2>2. /\ mtrx_pre' \subseteq KbKeys /\ mtrx_last' \subseteq KbKeys
        /\ release_cnt' \in 0..KB_WINDOW - 1 /\ data_same_cnt' \in 0..KB_REPEAT - 1
        /\ matrix_buff' \in Seq(SUBSET KbKeys) /\ Len(matrix_buff') <= KB_RING
        /\ keyEvt_buf' \in Seq(KbReports) /\ Len(keyEvt_buf') <= KEY_BUF_SIZE
        /\ KeyScaned => KbEvent \in KbReports
    BY <2>1, KbScanTypes
  <2>3. sent \in BOOLEAN /\ (sent => r \in KbReports)
    BY <2>2, KbReportsAre DEF Emptied, KeyScaned
  <2>4. KbLast /\ KbLast'
    BY <1>1 DEF KbLockInv
  <2> HIDE DEF sent, r
  <2>5. /\ pkt_km' \in KbReports /\ km_dat_sending' \in BOOLEAN /\ kb_retry' \in 0..KB_RETRY
        /\ kb_silence' \in 0..KB_IDLE /\ kb_valid' \in BOOLEAN
        /\ {pipe1_send_id_flg', pkt_id', kb_taken', kb_garbled'} \subseteq BOOLEAN
        /\ kb_dongle' \in {"fresh", "asks", "knows"} /\ kb_host' \subseteq KbKeys
        /\ kb_stalls' \in 0..KbMaxStalls
    BY <2>1, <2>3, <2>4, KbRadioTypes
  <2>6. KB_WINDOW \in Nat /\ KB_REPEAT \in Nat
    BY KbAssumption
  <2>7. /\ release_cnt' \in 0..KB_WINDOW /\ release_cnt' < KB_WINDOW
        /\ data_same_cnt' \in 0..KB_REPEAT /\ data_same_cnt' < KB_REPEAT
    BY <2>2, <2>6
  <2>8. /\ \A i \in DOMAIN matrix_buff' : matrix_buff'[i] \subseteq KbKeys
        /\ \A i \in DOMAIN keyEvt_buf' : keyEvt_buf'[i] \in KbReports
    BY <2>2, ElementOfSeq
  <2>9. kb_down' \in KbChords
    BY <2>1 DEF KbTypeInv, KbTypeOK
  <2>10. KbTypeOK'
    BY <2>2, <2>4, <2>5, <2>7, <2>8, <2>9 DEF KbTypeOK, KbLast
  <2> QED BY <2>2, <2>7, <2>10 DEF KbTypeInv
<1>3. CASE KbKeysChange
  <2>1. kb_down' \in KbChords
    BY <1>3 DEF KbKeysChange
  <2> QED BY <1>3, <2>1 DEF KbKeysChange, KbTypeInv, KbTypeOK, scanVars, bufVars, lockVars,
                            radioVars, kbDongleVars
<1>4. CASE UNCHANGED kbVars
  BY <1>4 DEF KbTypeInv, KbTypeOK, kbVars, scanVars, bufVars, lockVars, radioVars, kbDongleVars
<1> QED BY <1>2, <1>3, <1>4 DEF KbNext

\* The keyboard's counters stay in their ranges, no buffer overflows, and no report has more
\* keys than fit (kb_scan_key, key_buf_merge, kb_rf_proc).
THEOREM KbTypeCorrect == KbSpec => []KbTypeOK
<1>1. KbInit => KbTypeInv /\ KbLockInv
  BY KbInitTypes, KbInitLocks
<1>2. KbTypeInv /\ KbLockInv /\ [KbNext]_kbVars => (KbTypeInv /\ KbLockInv)'
  BY KbTypesStep, KbLocksStep
<1>3. KbTypeInv => KbTypeOK
  BY DEF KbTypeInv
<1> QED BY <1>1, <1>2, <1>3, PTL DEF KbSpec

-----------------------------------------------------------------------------
\* Report i is in report a of s, whole and from place o + 1 on; an empty one stays empty.
KbIn(s, i, a, o) ==
  /\ a \in 1..Len(s) /\ o \in Nat /\ o + Len(keyEvt_buf[i]) <= Len(s[a])
  /\ \A x \in 1..Len(keyEvt_buf[i]) : s[a][o + x] = keyEvt_buf[i][x]
  /\ keyEvt_buf[i] = <<>> => s[a] = <<>>

\* Report i is in front of j, in another report if one of them is empty.
KbBefore(i, j, at, off) ==
  \/ at[i] < at[j]
  \/ /\ at[i] = at[j] /\ keyEvt_buf[i] # <<>> /\ keyEvt_buf[j] # <<>>
     /\ off[i] + Len(keyEvt_buf[i]) <= off[j]

\* The first n reports are in s, in their order, and nothing else is.
KbCarries(s, n, at, off) ==
  /\ \A i \in 1..n : KbIn(s, i, at[i], off[i])
  /\ \A i, j \in 1..n : i < j => KbBefore(i, j, at, off)
  /\ \A a \in 1..Len(s) : \E i \in 1..n : at[i] = a
  /\ \A a \in 1..Len(s) : \A x \in 1..Len(s[a]) :
       \E i \in 1..n : at[i] = a /\ off[i] < x /\ x <= off[i] + Len(keyEvt_buf[i])

\* One more report, appended or joined to the last one.
LEMMA KbCarriesMore ==
  ASSUME keyEvt_buf \in Seq(KbReports), NEW n \in Nat, n + 1 <= Len(keyEvt_buf),
         NEW s \in Seq(KbReports), NEW at, NEW off, KbCarries(s, n, at, off)
  PROVE  \E at1, off1 : KbCarries(Joined(s, keyEvt_buf[n + 1]), n + 1, at1, off1)
<1> DEFINE r == keyEvt_buf[n + 1]
           last == Len(s)
           s1 == Joined(s, r)
<1>1. /\ r \in Seq(KbKeys) /\ Len(r) \in Nat /\ last \in Nat
      /\ \A a \in 1..last : s[a] \in Seq(KbKeys) /\ Len(s[a]) \in Nat
      /\ \A i \in 1..n + 1 : keyEvt_buf[i] \in Seq(KbKeys) /\ Len(keyEvt_buf[i]) \in Nat
  <2>1. \A i \in 1..n + 1 : keyEvt_buf[i] \in KbReports
    BY ElementOfSeq
  <2>2. \A a \in 1..last : s[a] \in KbReports
    BY ElementOfSeq
  <2>3. n + 1 \in 1..n + 1
    OBVIOUS
  <2> QED BY <2>1, <2>2, <2>3, KbReportsAre
<1>2. \A i \in 1..n + 1 : i \in 1..n \/ i = n + 1
  OBVIOUS
<1>3. \A i \in 1..n : /\ at[i] \in 1..last /\ off[i] \in Nat
                      /\ off[i] + Len(keyEvt_buf[i]) <= Len(s[at[i]])
                      /\ \A x \in 1..Len(keyEvt_buf[i]) : s[at[i]][off[i] + x] = keyEvt_buf[i][x]
                      /\ keyEvt_buf[i] = <<>> => s[at[i]] = <<>>
  BY DEF KbCarries, KbIn
<1>4. CASE s # <<>> /\ Mergable(Last(s), r)
  <2>0. r = keyEvt_buf[n + 1]
    OBVIOUS
  <2>1. last \in 1..last /\ Last(s) = s[last] /\ s[last] # <<>> /\ r # <<>>
    BY <1>1, <1>4 DEF Last, Mergable, Special
  <2>2. PICK z \in Nat : z = Len(s[last])
    BY <1>1, <2>1
  <2>3. /\ Len(s1) = last
        /\ \A a \in 1..last : a # last => s1[a] = s[a]
        /\ s1[last] = s[last] \o r
    <3> DEFINE fr == Front(s)
               w == s[last] \o r
    <3>1. s1 = Append(fr, w)
      BY <1>4, <2>1 DEF Joined
    <3>2. fr = [i \in 1..last - 1 |-> s[i]]
      BY <2>1 DEF Front
    <3>3. w \in Seq(KbKeys)
      BY <1>1, <2>1
    <3> HIDE DEF s1, fr, w
    <3>4. fr \in Seq(Seq(KbKeys)) /\ Len(fr) = last - 1
      BY <1>1, <2>1, <3>2
    <3>5. /\ Len(s1) = Len(fr) + 1 /\ s1[Len(fr) + 1] = w
          /\ \A a \in 1..Len(fr) : s1[a] = fr[a]
      BY <3>1, <3>3, <3>4, AppendProperties
    <3>6. \A a \in 1..last : a # last => a \in 1..last - 1 /\ fr[a] = s[a]
      BY <1>1, <3>2
    <3>7. Len(s1) = last /\ s1[last] = w
      BY <1>1, <2>1, <3>4, <3>5
    <3>8. \A a \in 1..last : a # last => s1[a] = s[a]
      BY <3>4, <3>5, <3>6
    <3> QED BY <3>7, <3>8 DEF w
  <2>4. /\ Len(s1[last]) = z + Len(r)
        /\ \A x \in 1..z : s1[last][x] = s[last][x]
        /\ \A x \in 1..Len(r) : s1[last][z + x] = r[x]
    <3> DEFINE u == s[last]
    <3>1. u \in Seq(KbKeys) /\ r \in Seq(KbKeys) /\ z = Len(u)
      BY <1>1, <2>1, <2>2
    <3>2. s1[last] = u \o r
      BY <2>3
    <3> HIDE DEF s1, r, u
    <3>3. /\ Len(u \o r) = z + Len(r)
          /\ \A x \in 1..z : (u \o r)[x] = u[x]
          /\ \A x \in 1..Len(r) : (u \o r)[z + x] = r[x]
      BY <3>1
    <3> QED BY <3>2, <3>3 DEF u
  <2> HIDE DEF s1, r
  <2> DEFINE at1 == [i \in 1..n + 1 |-> IF i = n + 1 THEN last ELSE at[i]]
             off1 == [i \in 1..n + 1 |-> IF i = n + 1 THEN z ELSE off[i]]
  <2>5. /\ at1[n + 1] = last /\ off1[n + 1] = z
        /\ \A i \in 1..n : at1[i] = at[i] /\ off1[i] = off[i]
    OBVIOUS
  <2> HIDE DEF at1, off1
  <2>6. \A i \in 1..n + 1 : KbIn(s1, i, at1[i], off1[i])
    <3>1. KbIn(s1, n + 1, at1[n + 1], off1[n + 1])
      <4>1. KbIn(s1, n + 1, last, z)
        <5>1. last \in 1..Len(s1) /\ z + Len(r) <= Len(s1[last])
          BY <1>1, <2>1, <2>3, <2>4
        <5>2. \A x \in 1..Len(keyEvt_buf[n + 1]) : s1[last][z + x] = keyEvt_buf[n + 1][x]
          BY <2>4, <2>0
        <5> QED BY <2>1, <2>0, <5>1, <5>2 DEF KbIn
      <4> QED BY <2>5, <4>1
    <3>2. ASSUME NEW i \in 1..n PROVE KbIn(s1, i, at1[i], off1[i])
      <4>0. at[i] \in 1..last /\ off[i] \in Nat /\ i \in 1..n + 1 /\ Len(keyEvt_buf[i]) \in Nat
        BY <1>1, <1>3
      <4>1. PICK a \in 1..last, o \in Nat, m \in Nat :
              a = at[i] /\ o = off[i] /\ m = Len(keyEvt_buf[i])
        BY <4>0
      <4>2. CASE a # last
        <5>1. KbIn(s, i, a, o)
          BY <4>1 DEF KbCarries
        <5>2. s1[a] = s[a] /\ a \in 1..Len(s1)
          BY <2>3, <4>2
        <5>3. KbIn(s1, i, a, o)
          BY <5>1, <5>2 DEF KbIn
        <5> QED BY <2>5, <4>1, <5>3
      <4>3. CASE a = last
        <5>1. o + m <= z /\ keyEvt_buf[i] # <<>>
          BY <1>3, <2>1, <2>2, <4>1, <4>3
        <5>2. \A x \in 1..m : s1[last][o + x] = keyEvt_buf[i][x]
          <6> TAKE x \in 1..m
          <6>1. o + x \in 1..z
            BY <5>1
          <6>2. s[last][o + x] = keyEvt_buf[i][x]
            BY <1>3, <4>1, <4>3
          <6> QED BY <2>4, <6>1, <6>2
        <5>3. last \in 1..Len(s1) /\ o + m <= Len(s1[last])
          BY <1>1, <2>1, <2>3, <2>4, <2>0, <5>1
        <5>4. KbIn(s1, i, last, o)
          BY <4>1, <5>1, <5>2, <5>3 DEF KbIn
        <5> QED BY <2>5, <4>1, <4>3, <5>4
      <4> QED BY <4>2, <4>3
    <3> QED BY <1>2, <3>1, <3>2
  <2>7. \A i, j \in 1..n + 1 : i < j => KbBefore(i, j, at1, off1)
    <3> SUFFICES ASSUME NEW i \in 1..n + 1, NEW j \in 1..n + 1, i < j
                 PROVE  KbBefore(i, j, at1, off1)
      OBVIOUS
    <3>1. i \in 1..n
      OBVIOUS
    <3>2. CASE j \in 1..n
      BY <2>5, <3>1, <3>2 DEF KbCarries, KbBefore
    <3>3. CASE j = n + 1
      <4>1. CASE at[i] = last
        <5>1. off[i] + Len(keyEvt_buf[i]) <= z /\ keyEvt_buf[i] # <<>>
          BY <1>3, <2>1, <2>2, <3>1, <4>1
        <5> QED BY <2>1, <2>5, <3>1, <3>3, <4>1, <5>1 DEF KbBefore, r
      <4>2. CASE at[i] # last
        <5>1. at[i] < last
          BY <1>1, <1>3, <3>1, <4>2
        <5> QED BY <2>5, <3>1, <3>3, <5>1 DEF KbBefore
      <4> QED BY <4>1, <4>2
    <3> QED BY <1>2, <3>2, <3>3
  <2>8. \A a \in 1..Len(s1) : \E i \in 1..n + 1 : at1[i] = a
    <3> SUFFICES ASSUME NEW a \in 1..last PROVE \E i \in 1..n + 1 : at1[i] = a
      BY <2>3
    <3>1. PICK i \in 1..n : at[i] = a
      BY DEF KbCarries
    <3> QED BY <2>5, <3>1
  <2>9. ASSUME NEW a \in 1..Len(s1), NEW x \in 1..Len(s1[a])
        PROVE  \E i \in 1..n + 1 : at1[i] = a /\ off1[i] < x /\ x <= off1[i] + Len(keyEvt_buf[i])
    <3>1. a \in 1..last
      BY <2>3
    <3>2. CASE x \in 1..Len(s[a])
      <4>1. PICK i \in 1..n : at[i] = a /\ off[i] < x /\ x <= off[i] + Len(keyEvt_buf[i])
        BY <3>1, <3>2 DEF KbCarries
      <4>2. i \in 1..n + 1 /\ at1[i] = a /\ off1[i] = off[i]
        BY <2>5, <4>1
      <4> QED BY <4>1, <4>2
    <3>3. CASE x \notin 1..Len(s[a])
      <4>1. a = last
        BY <2>3, <3>1, <3>3
      <4>2. z < x /\ x <= z + Len(r)
        BY <1>1, <2>2, <2>4, <3>3, <4>1
      <4>3. n + 1 \in 1..n + 1
        OBVIOUS
      <4> QED BY <2>5, <4>1, <4>2, <4>3 DEF r
    <3> QED BY <3>2, <3>3
  <2>10. KbCarries(s1, n + 1, at1, off1)
    BY <2>6, <2>7, <2>8, <2>9 DEF KbCarries
  <2> QED BY <2>10 DEF s1, r
<1>5. CASE ~(s # <<>> /\ Mergable(Last(s), r))
  <2>1. s1 = Append(s, r)
    BY <1>5 DEF Joined
  <2>2. /\ Len(s1) = last + 1 /\ s1[last + 1] = r
        /\ \A a \in 1..last : s1[a] = s[a]
    BY <1>1, <2>1
  <2> HIDE DEF s1, r
  <2> DEFINE at1 == [i \in 1..n + 1 |-> IF i = n + 1 THEN last + 1 ELSE at[i]]
             off1 == [i \in 1..n + 1 |-> IF i = n + 1 THEN 0 ELSE off[i]]
  <2>3. /\ at1[n + 1] = last + 1 /\ off1[n + 1] = 0
        /\ \A i \in 1..n : at1[i] = at[i] /\ off1[i] = off[i]
    OBVIOUS
  <2> HIDE DEF at1, off1
  <2>4. \A i \in 1..n + 1 : KbIn(s1, i, at1[i], off1[i])
    <3>1. KbIn(s1, n + 1, at1[n + 1], off1[n + 1])
      BY <1>1, <2>2, <2>3 DEF KbIn, r
    <3>2. ASSUME NEW i \in 1..n PROVE KbIn(s1, i, at1[i], off1[i])
      <4>1. at[i] \in 1..last /\ at[i] \in 1..Len(s1) /\ s1[at[i]] = s[at[i]]
        <5>1. at[i] \in 1..last
          BY <1>3
        <5> QED BY <1>1, <2>2, <5>1
      <4>2. KbIn(s, i, at[i], off[i])
        BY DEF KbCarries
      <4>3. KbIn(s1, i, at[i], off[i])
        BY <4>1, <4>2 DEF KbIn
      <4> QED BY <2>3, <4>3
    <3> QED BY <1>2, <3>1, <3>2
  <2>5. \A i, j \in 1..n + 1 : i < j => KbBefore(i, j, at1, off1)
    <3> SUFFICES ASSUME NEW i \in 1..n + 1, NEW j \in 1..n + 1, i < j
                 PROVE  KbBefore(i, j, at1, off1)
      OBVIOUS
    <3>1. i \in 1..n
      OBVIOUS
    <3>2. CASE j \in 1..n
      <4>1. KbBefore(i, j, at, off)
        BY <3>1, <3>2 DEF KbCarries
      <4>2. at1[i] = at[i] /\ off1[i] = off[i] /\ at1[j] = at[j] /\ off1[j] = off[j]
        BY <2>3, <3>1, <3>2
      <4> QED BY <4>1, <4>2 DEF KbBefore
    <3>3. CASE j = n + 1
      <4>1. at[i] \in 1..last
        BY <1>3, <3>1
      <4>2. at1[i] < at1[j]
        BY <1>1, <2>3, <3>1, <3>3, <4>1
      <4> QED BY <4>2 DEF KbBefore
    <3> QED BY <1>2, <3>2, <3>3
  <2>6. \A a \in 1..Len(s1) : \E i \in 1..n + 1 : at1[i] = a
    <3> SUFFICES ASSUME NEW a \in 1..last + 1 PROVE \E i \in 1..n + 1 : at1[i] = a
      BY <2>2
    <3>1. CASE a = last + 1
      BY <2>3, <3>1
    <3>2. CASE a \in 1..last
      <4>1. PICK i \in 1..n : at[i] = a
        BY <3>2 DEF KbCarries
      <4> QED BY <2>3, <4>1
    <3> QED BY <1>1, <3>1, <3>2
  <2>7. ASSUME NEW a \in 1..Len(s1), NEW x \in 1..Len(s1[a])
        PROVE  \E i \in 1..n + 1 : at1[i] = a /\ off1[i] < x /\ x <= off1[i] + Len(keyEvt_buf[i])
    <3>1. CASE a = last + 1
      <4>1. 0 < x /\ x <= 0 + Len(r) /\ n + 1 \in 1..n + 1
        BY <1>1, <2>2, <3>1
      <4> QED BY <2>3, <3>1, <4>1 DEF r
    <3>2. CASE a \in 1..last
      <4>1. PICK i \in 1..n : at[i] = a /\ off[i] < x /\ x <= off[i] + Len(keyEvt_buf[i])
        BY <2>2, <3>2 DEF KbCarries
      <4>2. i \in 1..n + 1 /\ at1[i] = a /\ off1[i] = off[i]
        BY <2>3, <4>1
      <4> QED BY <4>1, <4>2
    <3> QED BY <1>1, <2>2, <3>1, <3>2
  <2>8. KbCarries(s1, n + 1, at1, off1)
    BY <2>4, <2>5, <2>6, <2>7 DEF KbCarries
  <2> QED BY <2>8 DEF s1, r
<1> QED BY <1>4, <1>5

LEMMA MergedCarries ==
  ASSUME keyEvt_buf \in Seq(KbReports)
  PROVE  \E at, off : KbCarries(Merged, Len(keyEvt_buf), at, off)
<1> DEFINE N == Len(keyEvt_buf)
<1>1. PICK f : MergeSteps(f)
  BY MergedSteps
<1>2. N \in Nat /\ f[0] = <<>> /\ f[N] = Merged
  BY <1>1 DEF MergeSteps
<1> DEFINE T == {n \in 0..N : \E at, off : KbCarries(f[n], n, at, off)}
<1>3. 0 \in T
  <2>1. KbCarries(<<>>, 0, <<>>, <<>>)
    BY DEF KbCarries
  <2>2. \E at, off : KbCarries(f[0], 0, at, off)
    BY <1>2, <2>1
  <2> QED BY <1>2, <2>2
<1>4. ASSUME NEW n \in 0..N, n \in T, n < N
      PROVE  n + 1 \in T
  <2>1. PICK at, off : KbCarries(f[n], n, at, off)
    BY <1>4
  <2>2. n + 1 \in 1..N /\ n + 1 - 1 = n /\ n \in Nat /\ n + 1 <= Len(keyEvt_buf)
    BY <1>2, <1>4
  <2>3. f[n] \in Seq(KbReports) /\ f[n + 1] = Joined(f[n], keyEvt_buf[n + 1])
    BY <1>1, <2>2 DEF MergeSteps
  <2>4. \E at1, off1 : KbCarries(f[n + 1], n + 1, at1, off1)
    BY <2>1, <2>2, <2>3, KbCarriesMore
  <2> QED BY <1>2, <2>2, <2>4
<1> HIDE DEF T
<1>5. 0..N \subseteq T
  BY <1>2, <1>3, <1>4, UpTo
<1>6. N \in T
  BY <1>2, <1>5
<1> QED BY <1>2, <1>6 DEF T

\* Merging makes room without loss: what is merged has every report of the buffer whole, in the
\* order they were queued and nothing besides, and the release of all keys stays a report of its
\* own, so that no press is joined to one behind a release (key_buf_merge).
THEOREM KbMergeKeeps ==
  KbSpec => [](\E at, off : KbCarries(Merged, Len(keyEvt_buf), at, off))
<1>1. KbTypeInv => \E at, off : KbCarries(Merged, Len(keyEvt_buf), at, off)
  BY MergedCarries DEF KbTypeInv
<1>2. KbInit => KbTypeInv /\ KbLockInv
  BY KbInitTypes, KbInitLocks
<1>3. KbTypeInv /\ KbLockInv /\ [KbNext]_kbVars => (KbTypeInv /\ KbLockInv)'
  BY KbTypesStep, KbLocksStep
<1> QED BY <1>1, <1>2, <1>3, PTL DEF KbSpec

-----------------------------------------------------------------------------
(***************************************************************************)
(* What the keyboard leaves unsent.  The scan goes on KB_WINDOW passes     *)
(* after the last key is up; the invariant counts what is queued against   *)
(* the passes that are left, and the frames that went unanswered.          *)
(***************************************************************************)

\* What the scan still holds of the matrix, once the last key is up.
KbCleared ==
  /\ release_cnt <= KB_WINDOW - 2 => mtrx_pre = {}
  /\ release_cnt <= KB_WINDOW - 3 => mtrx_last = {}

\* The last thing that was queued, or else the frame, has no key that is not down any more.
KbRecent ==
  IF matrix_buff # <<>> THEN matrix_buff[Len(matrix_buff)] = mtrx_last
  ELSE IF keyEvt_buf # <<>> THEN Range(keyEvt_buf[Len(keyEvt_buf)]) \subseteq mtrx_last
  ELSE Range(pkt_km) \subseteq mtrx_last

\* Every try of a frame but the first is a stall; and until there were many no frame is given up.
KbFew == kb_stalls <= KB_WINDOW - 4
KbTried ==
  /\ km_dat_sending => kb_retry + kb_stalls >= KB_RETRY
  /\ KbFew => kb_taken \/ km_dat_sending

\* What is queued, whether the next pass reads nothing of it, the passes since the matrix was
\* found empty, and whether what comes in them has come.
KbDepth == Len(matrix_buff) + Len(keyEvt_buf)
KbBusy == IF km_dat_sending \/ Asks THEN 1 ELSE 0
KbEnds == IF release_cnt < KB_WINDOW - 3 THEN KB_WINDOW - 3 - release_cnt ELSE 0
KbSpare == IF data_same_cnt < KbEnds THEN 1 ELSE 0

\* A pass queues no more than it reads, but for the stalls; when the matrix is empty it reads.
KbShallow == KbFew => KbDepth <= KbSpare \/ KbDepth + KbBusy <= kb_stalls + 1 - KbEnds + KbSpare

\* Reports k before matrices r: from the m-th on all are empty; with 0, the frame is too.
KbEmpty(k, r, m) ==
  /\ \A i \in 1..Len(k) : i >= m => k[i] = <<>>
  /\ \A i \in 1..Len(r) : Len(k) + i >= m => r[i] = {}
KbEmptyFrom(m) == KbEmpty(keyEvt_buf, matrix_buff, m) /\ (m = 0 => pkt_km = <<>>)

\* What is not empty will be read before the scan stops.
KbDrained ==
  KbFew /\ release_cnt <= KB_WINDOW - 3 =>
    \E m \in 0..KbDepth : KbEmptyFrom(m) /\ (m = 0 \/ m + KbBusy <= kb_stalls + 1 - KbEnds)

KbFlushInv == KbCleared /\ KbRecent /\ KbTried /\ KbShallow /\ KbDrained
-----------------------------------------------------------------------------
KbRanges ==
  /\ release_cnt \in 0..KB_WINDOW - 1 /\ data_same_cnt \in 0..KB_REPEAT - 1
  /\ kb_stalls \in 0..KbMaxStalls /\ kb_retry \in 0..KB_RETRY
  /\ matrix_buff \in Seq(SUBSET KbKeys) /\ keyEvt_buf \in Seq(KbReports)
  /\ Len(matrix_buff) \in Nat /\ Len(keyEvt_buf) \in Nat
  /\ KbDepth \in Nat /\ KbBusy \in {0, 1} /\ KbEnds \in Nat /\ KbSpare \in {0, 1}
  /\ KbSpare <= KbEnds /\ KbEnds <= KB_WINDOW - 3
  /\ {km_dat_sending, kb_valid, kb_locked, kb_taken, pipe1_send_id_flg} \subseteq BOOLEAN

LEMMA KbConstants ==
  /\ KB_WINDOW \in Nat /\ KB_WINDOW >= 4 /\ KB_REPEAT \in Nat /\ KB_REPEAT >= KB_WINDOW - 2
  /\ KB_RETRY \in Nat /\ KB_RETRY > KB_WINDOW - 4
  /\ KbMaxStalls \in Nat /\ KbMaxStalls > KB_WINDOW - 4
  /\ KEY_BUF_SIZE \in Nat /\ KEY_BUF_SIZE >= KB_WINDOW - 2
BY KbAssumption

LEMMA KbNumbers == KbTypeInv => KbRanges
<1> SUFFICES ASSUME KbTypeInv PROVE KbRanges
  OBVIOUS
<1>1. KB_WINDOW \in Nat /\ KB_WINDOW >= 4 /\ KB_REPEAT \in Nat
  BY KbConstants
<1>2. /\ release_cnt \in 0..KB_WINDOW /\ release_cnt < KB_WINDOW
      /\ data_same_cnt \in 0..KB_REPEAT /\ data_same_cnt < KB_REPEAT
      /\ kb_stalls \in 0..KbMaxStalls /\ kb_retry \in 0..KB_RETRY
      /\ matrix_buff \in Seq(SUBSET KbKeys) /\ keyEvt_buf \in Seq(KbReports)
      /\ {km_dat_sending, kb_valid, kb_locked, kb_taken, pipe1_send_id_flg} \subseteq BOOLEAN
  BY DEF KbTypeInv, KbTypeOK
<1>3. Len(matrix_buff) \in Nat /\ Len(keyEvt_buf) \in Nat
  BY <1>2
<1>4. /\ release_cnt \in 0..KB_WINDOW - 1 /\ data_same_cnt \in 0..KB_REPEAT - 1
  BY <1>1, <1>2
<1>5. KbEnds \in Nat /\ KbEnds <= KB_WINDOW - 3
  BY <1>1, <1>4 DEF KbEnds
<1>6. KbSpare \in {0, 1} /\ KbSpare <= KbEnds
  BY <1>4, <1>5 DEF KbSpare
<1>7. KbDepth \in Nat /\ KbBusy \in {0, 1}
  BY <1>3 DEF KbDepth, KbBusy
<1> QED BY <1>2, <1>3, <1>4, <1>5, <1>6, <1>7 DEF KbRanges

\* A pass of kb_rf_proc: a frame that is not answered, or with a question, is a stall, and a
\* frame is given up only after many.
LEMMA KbStallStep ==
  ASSUME KbTypeInv, KbTypeInv', KbTried, NEW scaned \in BOOLEAN, NEW r, kb_rf_proc(scaned, r)
  PROVE  /\ KbTried'
         /\ kb_stalls' >= kb_stalls \/ (kb_stalls' = 0 /\ KbDepth' = 0)
         /\ KbFew' /\ KbDepth' # 0 /\ (scaned \/ km_dat_sending \/ kb_locked') =>
              KbBusy' <= kb_stalls' - kb_stalls
<1> DEFINE id == pipe1_send_id_flg /\ (scaned => Len(r) <= KB_ID_KEYS)
           left == IF scaned \/ id THEN KB_RETRY ELSE kb_retry
           sending == scaned \/ id \/ km_dat_sending
           taken == kb_taken /\ ~scaned
<1>1. /\ KB_WINDOW \in Nat /\ KB_WINDOW >= 4 /\ KB_RETRY \in Nat /\ KB_RETRY > KB_WINDOW - 4
      /\ KbMaxStalls \in Nat /\ KbMaxStalls > KB_WINDOW - 4
      /\ kb_stalls \in 0..KbMaxStalls /\ kb_retry \in 0..KB_RETRY
      /\ km_dat_sending \in BOOLEAN /\ kb_taken \in BOOLEAN
  BY KbConstants, KbNumbers DEF KbRanges
<1>2. KbRanges'
  BY KbNumbers, PTL
<1>3. /\ kb_stalls' \in Nat /\ kb_retry' \in Nat /\ KbBusy' \in {0, 1} /\ KbDepth' \in Nat
      /\ matrix_buff' \in Seq(SUBSET KbKeys) /\ keyEvt_buf' \in Seq(KbReports)
  BY <1>1, <1>2 DEF KbRanges
<1>4. matrix_buff' = <<>> /\ keyEvt_buf' = <<>> <=> KbDepth' = 0
  <2>1. /\ Len(matrix_buff') \in Nat /\ (Len(matrix_buff') = 0 <=> matrix_buff' = <<>>)
        /\ Len(keyEvt_buf') \in Nat /\ (Len(keyEvt_buf') = 0 <=> keyEvt_buf' = <<>>)
    BY <1>3
  <2> QED BY <2>1 DEF KbDepth
<1>5. /\ kb_retry' = IF sending /\ left > 0 THEN left - 1 ELSE left
      /\ IF sending /\ left > 0 THEN Sent(pkt_km', taken, id) ELSE NotSent
  BY DEF kb_rf_proc
<1>6. /\ left \in Nat /\ (left = KB_RETRY \/ (~scaned /\ left = kb_retry))
      /\ scaned => sending /\ left = KB_RETRY
      /\ ~scaned /\ km_dat_sending => sending /\ left \in {KB_RETRY, kb_retry}
      /\ ~scaned => taken = kb_taken
      /\ sending /\ ~km_dat_sending => left = KB_RETRY
  BY <1>1
<1> HIDE DEF id, left, sending, taken
<1>7. CASE sending /\ left > 0 /\ KbAnswered /\ Heard(pkt_km', taken, id)
  <2>1. /\ kb_taken' = TRUE /\ km_dat_sending' = FALSE
        /\ kb_valid' = (kb_dongle # "asks" \/ Forgotten)
        /\ kb_stalls' = IF matrix_buff' = <<>> /\ keyEvt_buf' = <<>> THEN 0
                        ELSE IF kb_dongle = "asks" /\ kb_stalls < KbMaxStalls THEN kb_stalls + 1
                        ELSE kb_stalls
    BY <1>7 DEF KbAnswered, Heard, Told
  <2>2. KbTried'
    BY <2>1 DEF KbTried
  <2>3. kb_stalls' >= kb_stalls \/ (kb_stalls' = 0 /\ KbDepth' = 0)
    BY <1>1, <1>4, <2>1
  <2>4. ASSUME KbFew', KbDepth' # 0
        PROVE  KbBusy' <= kb_stalls' - kb_stalls
    <3>1. kb_stalls' = IF kb_dongle = "asks" /\ kb_stalls < KbMaxStalls THEN kb_stalls + 1
                       ELSE kb_stalls
      BY <1>4, <2>1, <2>4
    <3>2. kb_stalls < KbMaxStalls
      BY <1>1, <2>4, <3>1 DEF KbFew
    <3>3. KbBusy' = 1 => kb_dongle = "asks"
      <4>1. kb_dongle # "asks" => kb_valid'
        BY <2>1
      <4>2. kb_valid' => KbBusy' = 0
        BY <2>1 DEF KbBusy, Asks
      <4> QED BY <4>1, <4>2
    <3> QED BY <1>1, <1>3, <3>1, <3>2, <3>3
  <2> QED BY <2>2, <2>3, <2>4
<1>8. CASE sending /\ left > 0 /\ ~(KbAnswered /\ Heard(pkt_km', taken, id))
  <2>1. kb_stalls' = kb_stalls + 1 /\ km_dat_sending' = TRUE /\ kb_retry' = left - 1
    BY <1>5, <1>8 DEF Sent
  <2>2. kb_retry' + kb_stalls' >= KB_RETRY
    <3>1. CASE left = KB_RETRY
      BY <1>1, <2>1, <3>1
    <3>2. CASE left # KB_RETRY
      <4>1. km_dat_sending /\ left = kb_retry
        BY <1>6, <1>8, <3>2
      <4>2. kb_retry + kb_stalls >= KB_RETRY
        BY <4>1 DEF KbTried
      <4> QED BY <1>1, <2>1, <4>1, <4>2
    <3> QED BY <3>1, <3>2
  <2>3. KbTried'
    BY <2>1, <2>2 DEF KbTried
  <2> QED BY <1>1, <1>3, <2>1, <2>3
<1>9. CASE ~(sending /\ left > 0)
  <2>1. kb_stalls' = kb_stalls /\ km_dat_sending' = FALSE /\ kb_taken' = kb_taken
    BY <1>5, <1>9 DEF NotSent
  <2>2. ~scaned
    BY <1>1, <1>6, <1>9
  <2>3. KbFew' => ~km_dat_sending
    <3> SUFFICES ASSUME KbFew', km_dat_sending PROVE FALSE
      OBVIOUS
    <3>1. left = kb_retry /\ ~(kb_retry > 0)
      BY <1>1, <1>6, <1>9, <2>2
    <3>2. kb_retry + kb_stalls >= KB_RETRY /\ kb_stalls <= KB_WINDOW - 4
      BY <2>1 DEF KbTried, KbFew
    <3> QED BY <1>1, <3>1, <3>2
  <2>4. KbTried'
    <3>1. KbFew' => KbFew
      BY <2>1 DEF KbFew
    <3> QED BY <2>1, <2>3, <3>1 DEF KbTried
  <2>5. kb_locked' => KbBusy' = 0
    BY <2>1 DEF KbBusy, Asks
  <2> QED BY <1>1, <2>1, <2>2, <2>3, <2>4, <2>5
<1> QED BY <1>5, <1>7, <1>8, <1>9

\* A scan queues one thing at most, and reads one if it may.
LEMMA KbDepthStep ==
  ASSUME KbTypeInv, KbTypeInv', kb_scan_key, Scanned
  PROVE  LET rep == IF Reported THEN 1 ELSE 0
         IN  /\ KbDepth' <= KbDepth + rep
             /\ KbBusy = 0 => KbDepth' <= KbDepth + rep - 1 \/ KbDepth' = 0
             /\ KbBusy = 0 /\ KbDepth' # 0 => KeyScaned
<1> DEFINE rep == IF Reported THEN 1 ELSE 0
<1>1. /\ Len(matrix_buff) \in Nat /\ Len(keyEvt_buf) \in Nat /\ KbRanges /\ KbRanges'
      /\ Len(matrix_buff)' \in Nat /\ Len(keyEvt_buf)' \in Nat
  <2>1. KbRanges /\ KbRanges'
    BY KbNumbers, PTL
  <2> QED BY <2>1 DEF KbRanges
<1>2. Ring \in Seq(SUBSET KbKeys) /\ Len(Ring) \in Nat /\ Len(Ring) <= Len(matrix_buff) + rep
  <2>1. Ring \in Seq(SUBSET KbKeys)
    BY RingIs
  <2>2. Len(Ring) \in Nat
    BY <2>1
  <2>3. CASE Reported
    BY <1>1, <2>3, RingIs
  <2>4. CASE ~Reported
    BY <1>1, <2>4, RingIs
  <2> QED BY <2>1, <2>2, <2>3, <2>4
<1>3. /\ Events \in Seq(KbReports) /\ Len(Events) \in Nat
      /\ IF Ring = <<>> THEN Events = keyEvt_buf
         ELSE Events # <<>> /\ Len(Events) <= Len(keyEvt_buf) + 1
  BY EventsIs
<1> HIDE DEF rep
<1>4. CASE Asks
  <2>1. matrix_buff' = Ring /\ keyEvt_buf' = keyEvt_buf
    BY <1>4 DEF kb_scan_key
  <2>2. KbDepth' <= KbDepth + rep /\ KbBusy = 1
    BY <1>1, <1>2, <1>4, <2>1 DEF KbDepth, KbBusy, rep
  <2> QED BY <2>2 DEF rep
<1>5. CASE ~Asks
  <2>1. /\ matrix_buff' = IF Ring = <<>> THEN Ring ELSE Tail(Ring)
        /\ keyEvt_buf' = IF Takes THEN Tail(Events) ELSE Events
    BY <1>5 DEF kb_scan_key
  <2>2. /\ Ring # <<>> => Len(Tail(Ring)) = Len(Ring) - 1
        /\ Events # <<>> => Len(Tail(Events)) = Len(Events) - 1
    BY <1>2, <1>3, HeadTailProperties
  <2>3. Len(matrix_buff') + Len(Events) <= Len(matrix_buff) + Len(keyEvt_buf) + rep
    <3>1. CASE Ring = <<>>
      <4>1. Len(matrix_buff') = 0 /\ Len(Events) = Len(keyEvt_buf)
        BY <1>3, <2>1, <3>1
      <4> QED BY <1>1, <4>1 DEF rep
    <3>2. CASE Ring # <<>>
      BY <1>1, <1>2, <1>3, <2>1, <2>2, <3>2 DEF rep
    <3> QED BY <3>1, <3>2
  <2>4. KbBusy = 0 <=> ~km_dat_sending
    BY <1>5 DEF KbBusy
  <2>5. rep \in {0, 1}
    BY DEF rep
  <2>6. CASE Takes
    <3>1. Events # <<>> /\ KeyScaned
      BY <2>6 DEF Takes, KeyScaned
    <3>2. Len(keyEvt_buf') = Len(Events) - 1
      BY <2>1, <2>2, <2>6, <3>1
    <3>3. KbDepth' <= KbDepth + rep - 1
      BY <1>1, <1>3, <2>3, <2>5, <3>2 DEF KbDepth
    <3> QED BY <1>1, <2>5, <3>1, <3>3 DEF rep, KbDepth
  <2>7. CASE ~Takes
    <3>1. keyEvt_buf' = Events
      BY <2>1, <2>7
    <3>2. KbDepth' <= KbDepth + rep
      BY <2>3, <3>1 DEF KbDepth
    <3>3. ASSUME KbBusy = 0 PROVE KbDepth' = 0
      <4>1. Events = <<>>
        BY <2>4, <2>7, <3>3 DEF Takes, MayRead
      <4>2. Ring = <<>>
        BY <1>3, <4>1
      <4>3. matrix_buff' = <<>> /\ keyEvt_buf' = <<>>
        BY <2>1, <3>1, <4>1, <4>2
      <4> QED BY <4>3 DEF KbDepth
    <3> QED BY <3>2, <3>3 DEF rep
  <2> QED BY <2>6, <2>7
<1> QED BY <1>4, <1>5

\* The report before the next in the frame, or the next.
KbFrame == /\ pkt_km' = IF KeyScaned /\ ~kb_locked' THEN Emptied(KbEvent) ELSE pkt_km
           /\ kb_locked' => pkt_km' = <<>>
           /\ Asks => ~kb_locked'

LEMMA KbFrameStep ==
  ASSUME KbLockInv, KbLockInv', kb_main_loop
  PROVE  KbFrame
<1>1. /\ kb_lock_func(KeyScaned, KbEvent)
      /\ kb_rf_proc(KeyScaned /\ ~kb_locked', Emptied(KbEvent))
  BY DEF kb_main_loop
<1>2. pkt_km' = IF KeyScaned /\ ~kb_locked' THEN Emptied(KbEvent) ELSE pkt_km
  BY <1>1 DEF kb_rf_proc
<1>3. KbLast /\ KeyScaned \in BOOLEAN
  BY DEF KbLockInv, KeyScaned
<1>4. kb_locked' = IF KeyScaned /\ LockKey(KbEvent) THEN ~kb_locked ELSE kb_locked
  BY <1>1, <1>3, KbLockStep
<1>5. Asks => ~kb_locked'
  <2>1. Asks => KbEvent = <<>> /\ ~kb_locked
    BY DEF KbEvent, Asks
  <2> QED BY <1>4, <2>1 DEF LockKey
<1>6. kb_locked' => pkt_km' = <<>>
  BY DEF KbLockInv, KbLast
<1> QED BY <1>2, <1>5, <1>6 DEF KbFrame

LEMMA KbRecentStep ==
  ASSUME KbTypeInv, KbTypeInv', KbRecent, KbFrame, kb_scan_key
  PROVE  KbRecent'
<1>1. /\ matrix_buff \in Seq(SUBSET KbKeys) /\ keyEvt_buf \in Seq(KbReports)
      /\ pkt_km \in KbReports
  BY DEF KbTypeInv, KbTypeOK
<1>2. Range(<<>>) = {}
  BY DEF Range
<1>3. CASE ~Scanned
  <2>1. UNCHANGED <<mtrx_last, matrix_buff, keyEvt_buf>>
    BY <1>3 DEF kb_scan_key, bufVars
  <2>2. pkt_km' = pkt_km
    BY <1>3 DEF KbFrame, KeyScaned
  <2> QED BY <2>1, <2>2 DEF KbRecent
<1>4. CASE Scanned
  <2>1. mtrx_last' = Debounced /\ (~Reported => Debounced = mtrx_last)
    BY <1>4 DEF kb_scan_key, Reported
  <2>2. Ring \in Seq(SUBSET KbKeys) /\ (Ring # <<>> => Ring[Len(Ring)] = Debounced)
    <3>1. CASE Reported
      BY <3>1, RingIs
    <3>2. CASE ~Reported
      BY <2>1, <3>2, RingIs DEF KbRecent
    <3> QED BY <3>1, <3>2
  <2>3. Ring = <<>> => /\ ~Reported /\ matrix_buff = <<>>
    BY RingIs
  <2>4. /\ Events \in Seq(KbReports) /\ (Ring = <<>> => Events = keyEvt_buf)
        /\ Ring # <<>> => Events # <<>> /\ Events[Len(Events)] = Report(Head(Ring))
    BY EventsIs
  <2>5. ASSUME KeyScaned => Range(KbEvent) \subseteq Debounced \/ pkt_km' = <<>>,
               ~KeyScaned => Range(pkt_km) \subseteq Debounced
        PROVE  Range(pkt_km') \subseteq Debounced
    BY <1>2, <2>5 DEF KbFrame, Emptied
  <2>6. CASE Asks
    <3>1. matrix_buff' = Ring /\ keyEvt_buf' = keyEvt_buf /\ KeyScaned /\ KbEvent = <<>>
      BY <1>4, <2>6 DEF kb_scan_key, KeyScaned, KbEvent
    <3>2. Range(pkt_km') \subseteq Debounced
      BY <1>2, <2>5, <3>1
    <3> QED BY <2>1, <2>2, <2>3, <3>1, <3>2 DEF KbRecent
  <2>7. CASE ~Asks
    <3>1. /\ matrix_buff' = IF Ring = <<>> THEN Ring ELSE Tail(Ring)
          /\ keyEvt_buf' = IF Takes THEN Tail(Events) ELSE Events
          /\ KeyScaned <=> Takes
          /\ KbEvent = Head(Events)
      BY <1>4, <2>7 DEF kb_scan_key, KeyScaned, KbEvent
    <3>2. CASE matrix_buff' # <<>>
      <4>1. Ring # <<>> /\ matrix_buff' = Tail(Ring)
        BY <3>1, <3>2
      <4>2. /\ matrix_buff' \in Seq(SUBSET KbKeys) /\ Len(matrix_buff') = Len(Ring) - 1
            /\ \A i \in 1..Len(matrix_buff') : matrix_buff'[i] = Ring[i + 1]
        BY <2>2, <4>1, HeadTailProperties
      <4>3. Len(matrix_buff') \in 1..Len(matrix_buff') /\ Len(matrix_buff') + 1 = Len(Ring)
        BY <2>2, <3>2, <4>2
      <4>4. matrix_buff'[Len(matrix_buff')] = Debounced
        BY <2>2, <4>1, <4>2, <4>3
      <4> QED BY <2>1, <3>2, <4>4 DEF KbRecent
    <3>3. CASE matrix_buff' = <<>>
      <4>1. Events # <<>> => Range(Events[Len(Events)]) \subseteq Debounced
        <5>1. CASE Ring = <<>>
          BY <2>1, <2>3, <2>4, <5>1 DEF KbRecent
        <5>2. CASE Ring # <<>>
          <6>1. Tail(Ring) = <<>> /\ Len(Tail(Ring)) = Len(Ring) - 1 /\ Len(Ring) \in Nat
            BY <2>2, <3>1, <3>3, <5>2, HeadTailProperties
          <6>2. Len(Ring) = 1
            <7> DEFINE t == Tail(Ring)
            <7>1. t = <<>> /\ Len(t) = Len(Ring) - 1
              BY <6>1
            <7> HIDE DEF t
            <7>2. Len(t) = 0
              BY <7>1
            <7> QED BY <6>1, <7>1, <7>2
          <6>3. Head(Ring) = Debounced /\ Debounced \in SUBSET KbKeys
            BY <2>2, <5>2, <6>2, RingIs
          <6> QED BY <2>4, <5>2, <6>3, ReportIs
        <5> QED BY <5>1, <5>2
      <4>2. CASE keyEvt_buf' # <<>>
        <5>1. CASE Takes
          <6>1. Events # <<>> /\ keyEvt_buf' = Tail(Events)
            BY <3>1, <5>1 DEF Takes
          <6>2. /\ keyEvt_buf' \in Seq(KbReports) /\ Len(keyEvt_buf') = Len(Events) - 1
                /\ \A i \in 1..Len(keyEvt_buf') : keyEvt_buf'[i] = Events[i + 1]
            BY <2>4, <6>1, HeadTailProperties
          <6>3. Len(keyEvt_buf') \in 1..Len(keyEvt_buf') /\ Len(keyEvt_buf') + 1 = Len(Events)
            BY <2>4, <4>2, <6>2
          <6>4. keyEvt_buf'[Len(keyEvt_buf')] = Events[Len(Events)]
            BY <6>2, <6>3
          <6> QED BY <2>1, <3>3, <4>1, <4>2, <6>1, <6>4 DEF KbRecent
        <5>2. CASE ~Takes
          BY <2>1, <3>1, <3>3, <4>1, <4>2, <5>2 DEF KbRecent
        <5> QED BY <5>1, <5>2
      <4>3. CASE keyEvt_buf' = <<>>
        <5>1. CASE Takes
          <6>1. Events # <<>> /\ Tail(Events) = <<>> /\ Len(Tail(Events)) = Len(Events) - 1
                /\ Len(Events) \in Nat
            BY <2>4, <3>1, <4>3, <5>1, HeadTailProperties DEF Takes
          <6>2. Len(Events) = 1
            BY <6>1
          <6>3. Head(Events) = Events[Len(Events)]
            BY <2>4, <6>1, <6>2
          <6>4. Range(pkt_km') \subseteq Debounced
            BY <2>5, <3>1, <4>1, <5>1, <6>1, <6>3
          <6> QED BY <2>1, <3>3, <4>3, <6>4 DEF KbRecent
        <5>2. CASE ~Takes
          <6>1. Events = <<>> /\ ~KeyScaned
            BY <3>1, <4>3, <5>2
          <6>2. Ring = <<>> /\ keyEvt_buf = <<>> /\ matrix_buff = <<>> /\ Debounced = mtrx_last
            BY <2>1, <2>3, <2>4, <6>1
          <6>3. Range(pkt_km) \subseteq Debounced
            BY <6>2 DEF KbRecent
          <6>4. Range(pkt_km') \subseteq Debounced
            BY <2>5, <6>1, <6>3
          <6> QED BY <2>1, <3>3, <4>3, <6>4 DEF KbRecent
        <5> QED BY <5>1, <5>2
      <4> QED BY <4>2, <4>3
    <3> QED BY <3>2, <3>3
  <2> QED BY <2>6, <2>7
<1> QED BY <1>3, <1>4

LEMMA KbClearedStep ==
  ASSUME KbTypeInv, KbCleared, kb_scan_key
  PROVE  KbCleared'
<1>1. KbRanges /\ KB_WINDOW \in Nat /\ KB_WINDOW >= 4
  BY KbNumbers, KbConstants
<1>2. release_cnt \in 0..KB_WINDOW - 1
  BY <1>1 DEF KbRanges
<1>3. CASE ~Scanned
  <2>1. release_cnt' = release_cnt /\ mtrx_pre' = mtrx_pre /\ mtrx_last' = mtrx_last
    BY <1>2, <1>3 DEF kb_scan_key, Scanned, Window
  <2> QED BY <2>1 DEF KbCleared
<1>4. CASE Scanned /\ kb_down # {}
  <2>1. release_cnt' = KB_WINDOW - 1
    BY <1>4 DEF kb_scan_key, Window
  <2> QED BY <1>1, <2>1 DEF KbCleared
<1>5. CASE Scanned /\ kb_down = {}
  <2>1. /\ release_cnt' = release_cnt - 1 /\ mtrx_pre' = {} /\ mtrx_last' = Debounced
        /\ release_cnt > 0
    BY <1>2, <1>5 DEF kb_scan_key, Window, Scanned
  <2>2. mtrx_pre = {} => Debounced = {}
    BY <1>5 DEF Debounced
  <2>3. release_cnt' <= KB_WINDOW - 3 => release_cnt <= KB_WINDOW - 2
    BY <1>1, <1>2, <2>1
  <2> QED BY <2>1, <2>2, <2>3 DEF KbCleared
<1> QED BY <1>3, <1>4, <1>5

\* While the last key comes up the scan queues nothing new, but what is reported again.
LEMMA KbQuiet ==
  ASSUME KbTypeInv, KbCleared, release_cnt <= KB_WINDOW - 3
  PROVE  /\ Debounced = {} /\ mtrx_last = {}
         /\ Reported => data_same_cnt + 1 >= KB_REPEAT
<1>1. release_cnt <= KB_WINDOW - 2 /\ release_cnt \in Int /\ KB_WINDOW \in Nat
  BY KbNumbers, KbConstants DEF KbRanges
<1>2. mtrx_pre = {} /\ mtrx_last = {}
  BY <1>1 DEF KbCleared
<1>3. Debounced = {}
  BY <1>2 DEF Debounced
<1> QED BY <1>2, <1>3 DEF Reported, Repeats

\* The counters of a scan.
LEMMA KbCounters ==
  ASSUME KbTypeInv, kb_scan_key, Scanned
  PROVE  \/ KbEnds' = 0 /\ KbSpare' = 0 /\ (release_cnt' > KB_WINDOW - 3 \/ release_cnt = KB_WINDOW - 2)
            /\ (release_cnt > KB_WINDOW - 3 => KbEnds = 0 /\ KbSpare = 0)
         \/ /\ release_cnt <= KB_WINDOW - 3 /\ release_cnt > 0 /\ kb_down = {}
            /\ release_cnt' = release_cnt - 1
            /\ KbEnds' = KbEnds + 1
            /\ data_same_cnt' = IF Debounced # mtrx_last \/ Repeats THEN 0 ELSE data_same_cnt + 1
            /\ KbSpare' = IF data_same_cnt' < KbEnds + 1 THEN 1 ELSE 0
<1>1. /\ KB_WINDOW \in Nat /\ KB_WINDOW >= 4 /\ KB_REPEAT \in Nat
      /\ release_cnt \in 0..KB_WINDOW - 1 /\ data_same_cnt \in 0..KB_REPEAT - 1
  BY KbNumbers, KbConstants DEF KbRanges
<1>2. /\ release_cnt' = Window(release_cnt)
      /\ data_same_cnt' = IF Debounced # mtrx_last \/ Repeats THEN 0 ELSE data_same_cnt + 1
  BY DEF kb_scan_key
<1>3. data_same_cnt' \in Nat
  BY <1>1, <1>2
<1>4. release_cnt > KB_WINDOW - 3 => KbEnds = 0 /\ KbSpare = 0
  BY <1>1 DEF KbEnds, KbSpare
<1>5. CASE kb_down # {}
  <2>1. release_cnt' = KB_WINDOW - 1
    BY <1>2, <1>5 DEF Window
  <2>2. KbEnds' = 0
    BY <1>1, <2>1 DEF KbEnds
  <2>3. KbSpare' = 0
    BY <1>3, <2>2 DEF KbSpare
  <2> QED BY <1>1, <1>4, <2>1, <2>2, <2>3
<1>6. CASE kb_down = {}
  <2>1. release_cnt > 0 /\ release_cnt' = release_cnt - 1
    BY <1>1, <1>2, <1>6 DEF Window, Scanned
  <2>2. CASE release_cnt <= KB_WINDOW - 3
    <3>1. KbEnds' = KbEnds + 1
      BY <1>1, <2>1, <2>2 DEF KbEnds
    <3>2. KbSpare' = IF data_same_cnt' < KbEnds + 1 THEN 1 ELSE 0
      BY <3>1 DEF KbSpare
    <3> QED BY <1>2, <1>6, <2>1, <2>2, <3>1, <3>2
  <2>3. CASE ~(release_cnt <= KB_WINDOW - 3)
    <3>1. KbEnds' = 0
      BY <1>1, <2>1, <2>3 DEF KbEnds
    <3>2. KbSpare' = 0
      BY <1>3, <3>1 DEF KbSpare
    <3>3. release_cnt' > KB_WINDOW - 3 \/ release_cnt = KB_WINDOW - 2
      BY <1>1, <2>1, <2>3
    <3> QED BY <1>1, <1>4, <2>3, <3>1, <3>2, <3>3
  <2> QED BY <2>2, <2>3
<1> QED BY <1>5, <1>6

\* The pass is one of the two that a stall, or a report that is read, pays for.
KbPaid == KbFew' /\ KbDepth' # 0 =>
            /\ KbFew /\ kb_stalls' >= kb_stalls
            /\ KbDepth' <= KbDepth + IF Reported THEN 1 ELSE 0
            /\ KbBusy = 0 => KbDepth' <= KbDepth + (IF Reported THEN 1 ELSE 0) - 1
            /\ KbBusy' <= kb_stalls' - kb_stalls

LEMMA KbPaidStep ==
  ASSUME KbTypeInv, KbTypeInv', KbTried, KbFrame, kb_main_loop, Scanned
  PROVE  KbPaid /\ KbTried'
<1>1. kb_scan_key /\ kb_rf_proc(KeyScaned /\ ~kb_locked', Emptied(KbEvent))
  BY DEF kb_main_loop
<1> DEFINE sent == KeyScaned /\ ~kb_locked'
           r == Emptied(KbEvent)
<1>2. KbRanges /\ KbRanges'
  BY KbNumbers, PTL
<1>3. sent \in BOOLEAN
  BY <1>2 DEF KeyScaned, KbRanges
<1>4. kb_rf_proc(sent, r)
  BY <1>1
<1> HIDE DEF sent, r
<1>5. /\ KbTried'
      /\ kb_stalls' >= kb_stalls \/ (kb_stalls' = 0 /\ KbDepth' = 0)
      /\ KbFew' /\ KbDepth' # 0 /\ (sent \/ km_dat_sending \/ kb_locked') =>
           KbBusy' <= kb_stalls' - kb_stalls
  BY <1>3, <1>4, KbStallStep
<1>6. LET rep == IF Reported THEN 1 ELSE 0
      IN  /\ KbDepth' <= KbDepth + rep
          /\ KbBusy = 0 => KbDepth' <= KbDepth + rep - 1 \/ KbDepth' = 0
          /\ KbBusy = 0 /\ KbDepth' # 0 => KeyScaned
  BY <1>1, KbDepthStep
<1>7. kb_stalls \in Nat /\ kb_stalls' \in Nat /\ KB_WINDOW \in Nat /\ KbMaxStalls \in Nat
  BY <1>2, KbConstants DEF KbRanges
<1>8. ASSUME KbDepth' # 0 PROVE sent \/ km_dat_sending \/ kb_locked'
  <2>1. CASE KbBusy = 0
    BY <1>6, <1>8, <2>1 DEF sent
  <2>2. CASE KbBusy # 0
    BY <2>2 DEF KbBusy, sent, KeyScaned
  <2> QED BY <2>1, <2>2
<1>9. KbFew' /\ KbDepth' # 0 => KbFew
  BY <1>5, <1>7 DEF KbFew
<1> QED BY <1>5, <1>6, <1>8, <1>9 DEF KbPaid

\* The arithmetic of a pass: depth, busy, stalls, passes since the end, and the spare pass.
KbSums(d, d1, b, b1, s, s1, e, x, x1, q) ==
  /\ {d, d1, s, s1, e} \subseteq Nat /\ {b, b1, x, x1, q} \subseteq {0, 1}
  /\ d1 <= d + q /\ (b = 0 => d1 <= d + q - 1) /\ b1 <= s1 - s /\ x <= e
  =>
    /\ d + b <= s + 1 - e + x => d1 + b1 <= s1 + 1
    /\ d + q <= 1 /\ d1 # 0 => d1 + b1 <= s1 + 1
    /\ d + b <= s + 1 - e + x /\ q + x <= x1 => d1 + b1 <= s1 + 1 - (e + 1) + x1
    /\ d <= x /\ q + x <= x1 => d1 <= x1

LEMMA KbPassSum == \A d, d1, b, b1, s, s1, e, x, x1, q : KbSums(d, d1, b, b1, s, s1, e, x, x1, q)
BY DEF KbSums

LEMMA KbShallowStep ==
  ASSUME KbTypeInv, KbTypeInv', KbCleared, KbTried, KbShallow, KbFrame, kb_main_loop
  PROVE  KbShallow'
<1>1. /\ KB_WINDOW \in Nat /\ KB_WINDOW >= 4 /\ KB_REPEAT \in Nat /\ KB_REPEAT >= KB_WINDOW - 2
      /\ KbMaxStalls \in Nat
  BY KbConstants
<1>2. KbRanges /\ KbRanges'
  BY KbNumbers, PTL
<1>3. /\ KbDepth \in Nat /\ KbBusy \in {0, 1} /\ KbEnds \in Nat /\ KbSpare \in {0, 1}
      /\ KbSpare <= KbEnds /\ KbEnds <= KB_WINDOW - 3 /\ kb_stalls \in Nat
      /\ data_same_cnt \in 0..KB_REPEAT - 1 /\ release_cnt \in 0..KB_WINDOW - 1
  BY <1>1, <1>2 DEF KbRanges
<1>4. /\ KbDepth' \in Nat /\ KbBusy' \in {0, 1} /\ KbEnds' \in Nat /\ KbSpare' \in {0, 1}
      /\ kb_stalls' \in Nat
  BY <1>1, <1>2 DEF KbRanges
<1>5. SUFFICES ASSUME KbFew', KbDepth' # 0
               PROVE  \/ KbDepth' <= KbSpare'
                      \/ KbDepth' + KbBusy' <= kb_stalls' + 1 - KbEnds' + KbSpare'
  <2>1. KbDepth' = 0 => KbDepth' <= KbSpare'
    BY <1>4
  <2> QED BY <2>1 DEF KbShallow
<1>6. CASE ~Scanned
  <2>1. /\ kb_down = {} /\ release_cnt = 0 /\ release_cnt' = release_cnt
        /\ UNCHANGED <<data_same_cnt, matrix_buff, keyEvt_buf>>
    BY <1>3, <1>6 DEF kb_main_loop, kb_scan_key, Scanned, Window, bufVars
  <2>2. KbDepth' = KbDepth /\ KbEnds' = KbEnds /\ KbSpare' = KbSpare
    BY <2>1 DEF KbDepth, KbEnds, KbSpare
  <2>3. KbEnds = KB_WINDOW - 3
    BY <1>1, <2>1 DEF KbEnds
  <2>4. KbFew
    <3> DEFINE sent == KeyScaned /\ ~kb_locked'
               r == Emptied(KbEvent)
    <3>1. sent \in BOOLEAN /\ kb_rf_proc(sent, r)
      BY <1>6 DEF kb_main_loop, KeyScaned
    <3> HIDE DEF sent, r
    <3>2. kb_stalls' >= kb_stalls
      BY <1>5, <3>1, KbStallStep
    <3> QED BY <1>1, <1>3, <1>4, <1>5, <3>2 DEF KbFew
  <2>5. KbDepth <= KbSpare \/ KbDepth + KbBusy <= kb_stalls + 1 - KbEnds + KbSpare
    BY <2>4 DEF KbShallow
  <2>6. kb_stalls <= KB_WINDOW - 4
    BY <2>4 DEF KbFew
  <2> QED BY <1>1, <1>3, <2>2, <2>3, <2>5, <2>6
<1>7. CASE Scanned
  <2> DEFINE rep == IF Reported THEN 1 ELSE 0
  <2>1. kb_scan_key /\ rep \in {0, 1}
    BY DEF kb_main_loop
  <2>2. /\ KbFew /\ kb_stalls' >= kb_stalls
        /\ KbDepth' <= KbDepth + rep
        /\ KbBusy = 0 => KbDepth' <= KbDepth + rep - 1
        /\ KbBusy' <= kb_stalls' - kb_stalls
    BY <1>5, <1>7, KbPaidStep DEF KbPaid
  <2>3. KbDepth <= KbSpare \/ KbDepth + KbBusy <= kb_stalls + 1 - KbEnds + KbSpare
    BY <2>2 DEF KbShallow
  <2>4. release_cnt <= KB_WINDOW - 3 /\ rep = 1 => data_same_cnt + 1 >= KB_REPEAT
    BY KbQuiet
  <2>5. data_same_cnt + 1 >= KB_REPEAT => KbSpare = 0
    <3>1. data_same_cnt + 1 >= KB_REPEAT => data_same_cnt >= KbEnds
      BY <1>1, <1>3
    <3> QED BY <1>3, <3>1 DEF KbSpare
  <2>6. KbSpare = 0 \/ KbEnds >= 1
    BY <1>3
  <2>9. /\ KbDepth + KbBusy <= kb_stalls + 1 - KbEnds + KbSpare =>
             KbDepth' + KbBusy' <= kb_stalls' + 1
        /\ KbDepth + rep <= 1 /\ KbDepth' # 0 => KbDepth' + KbBusy' <= kb_stalls' + 1
        /\ KbDepth + KbBusy <= kb_stalls + 1 - KbEnds + KbSpare /\ rep + KbSpare <= KbSpare' =>
             KbDepth' + KbBusy' <= kb_stalls' + 1 - (KbEnds + 1) + KbSpare'
        /\ KbDepth <= KbSpare /\ rep + KbSpare <= KbSpare' => KbDepth' <= KbSpare'
    <3> HIDE DEF rep
    <3>1. KbSums(KbDepth, KbDepth', KbBusy, KbBusy', kb_stalls, kb_stalls', KbEnds, KbSpare,
                 KbSpare', rep)
      BY KbPassSum
    <3> QED BY <1>3, <1>4, <2>1, <2>2, <3>1 DEF KbSums
  <2>7. CASE KbEnds' = 0 /\ KbSpare' = 0 /\ (release_cnt > KB_WINDOW - 3 => KbEnds = 0 /\ KbSpare = 0)
    <3> HIDE DEF rep
    <3>3. KbDepth' + KbBusy' <= kb_stalls' + 1 =>
            KbDepth' + KbBusy' <= kb_stalls' + 1 - KbEnds' + KbSpare'
      <4>1. kb_stalls' + 1 - KbEnds' + KbSpare' = kb_stalls' + 1
        BY <1>4, <2>7
      <4> QED BY <4>1
    <3>1. CASE KbDepth + KbBusy <= kb_stalls + 1 - KbEnds + KbSpare
      <4>1. KbDepth' + KbBusy' <= kb_stalls' + 1
        BY <2>9, <3>1
      <4> QED BY <3>3, <4>1
    <3>2. CASE KbDepth <= KbSpare
      <4>1. KbDepth + rep <= 1
        <5>1. CASE release_cnt > KB_WINDOW - 3
          BY <1>3, <2>1, <2>7, <3>2, <5>1
        <5>2. CASE release_cnt <= KB_WINDOW - 3
          BY <1>3, <2>1, <2>4, <2>5, <3>2, <5>2
        <5> QED BY <1>1, <1>3, <5>1, <5>2
      <4>2. KbDepth' + KbBusy' <= kb_stalls' + 1
        BY <1>5, <2>9, <4>1
      <4> QED BY <3>3, <4>2
    <3> QED BY <2>3, <3>1, <3>2
  <2>8. CASE /\ release_cnt <= KB_WINDOW - 3 /\ KbEnds' = KbEnds + 1
             /\ data_same_cnt' = IF Debounced # mtrx_last \/ Repeats THEN 0 ELSE data_same_cnt + 1
             /\ KbSpare' = IF data_same_cnt' < KbEnds + 1 THEN 1 ELSE 0
    <3>1. rep = 1 => KbSpare = 0 /\ KbSpare' = 1
      <4>1. rep = 1 => data_same_cnt' = 0
        BY <2>8, KbQuiet DEF Reported
      <4>2. rep = 1 => KbSpare = 0
        BY <2>4, <2>5, <2>8
      <4> HIDE DEF rep
      <4> QED BY <1>3, <2>8, <4>1, <4>2
    <3>2. KbSpare <= KbSpare'
      BY <1>3, <2>8 DEF KbSpare
    <3> HIDE DEF rep
    <3>3. rep + KbSpare <= KbSpare'
      BY <1>3, <1>4, <2>1, <3>1, <3>2
    <3> QED BY <2>3, <2>8, <2>9, <3>3
  <2> QED BY <1>7, <2>1, <2>7, <2>8, KbCounters
<1> QED BY <1>6, <1>7

\* While the last key comes up the scan puts nothing but an empty matrix behind the others.
LEMMA KbScanEmpty ==
  ASSUME KbTypeInv, Debounced = {}, NEW m \in Nat, KbEmpty(keyEvt_buf, matrix_buff, m)
  PROVE  KbEmpty(keyEvt_buf, Ring, m) /\ Len(Ring) >= Len(matrix_buff)
<1>1. /\ matrix_buff \in Seq(SUBSET KbKeys) /\ Len(matrix_buff) \in Nat
      /\ keyEvt_buf \in Seq(KbReports) /\ Len(keyEvt_buf) \in Nat
      /\ Ring \in Seq(SUBSET KbKeys) /\ Len(Ring) \in Nat
  BY KbNumbers, RingIs DEF KbRanges
<1>2. CASE ~Reported
  BY <1>1, <1>2, RingIs
<1>3. CASE Reported
  <2> DEFINE s == Append(matrix_buff, {})
  <2>1. Len(Ring) >= Len(matrix_buff) /\ (Ring = s \/ Ring = Tail(s))
    BY <1>1, <1>3, RingIs
  <2>2. /\ s \in Seq(SUBSET KbKeys) /\ Len(s) = Len(matrix_buff) + 1 /\ s # <<>>
        /\ \A i \in 1..Len(s) : s[i] = IF i <= Len(matrix_buff) THEN matrix_buff[i] ELSE {}
    BY <1>1
  <2>3. /\ Len(Tail(s)) = Len(matrix_buff)
        /\ \A i \in 1..Len(Tail(s)) : Tail(s)[i] = s[i + 1]
    <3> HIDE DEF s
    <3> QED BY <1>1, <2>2, HeadTailProperties
  <2> HIDE DEF s
  <2>4. \A i \in 1..Len(matrix_buff) : Len(keyEvt_buf) + i >= m => matrix_buff[i] = {}
    BY DEF KbEmpty
  <2>5. ASSUME NEW i \in 1..Len(s), Len(keyEvt_buf) + i >= m
        PROVE  s[i] = {}
    <3>1. s[i] = IF i <= Len(matrix_buff) THEN matrix_buff[i] ELSE {}
      BY <2>2
    <3>2. i <= Len(matrix_buff) => i \in 1..Len(matrix_buff)
      BY <1>1
    <3> QED BY <2>4, <2>5, <3>1, <3>2
  <2>6. \A i \in 1..Len(Ring) : Len(keyEvt_buf) + i >= m => Ring[i] = {}
    <3>1. CASE Ring = s
      BY <2>5, <3>1
    <3>2. CASE Ring = Tail(s)
      <4> SUFFICES ASSUME NEW i \in 1..Len(Ring), Len(keyEvt_buf) + i >= m PROVE Ring[i] = {}
        OBVIOUS
      <4>1. i + 1 \in 1..Len(s) /\ Ring[i] = s[i + 1] /\ Len(keyEvt_buf) + (i + 1) >= m
        BY <1>1, <2>2, <2>3, <3>2
      <4> QED BY <2>5, <4>1
    <3> QED BY <2>1, <3>1, <3>2
  <2> QED BY <2>1, <2>6 DEF KbEmpty
<1> QED BY <1>2, <1>3

\* The oldest matrix becomes the newest report, ...
LEMMA KbMovedEmpty ==
  ASSUME KbTypeInv, Len(keyEvt_buf) < KEY_BUF_SIZE, NEW m \in Nat, KbEmpty(keyEvt_buf, Ring, m)
  PROVE  LET rest == IF Ring = <<>> THEN Ring ELSE Tail(Ring)
         IN  KbEmpty(Events, rest, m) /\ Len(Events) + Len(rest) = Len(keyEvt_buf) + Len(Ring)
<1>1. /\ keyEvt_buf \in Seq(KbReports) /\ Len(keyEvt_buf) \in Nat
      /\ Ring \in Seq(SUBSET KbKeys) /\ Len(Ring) \in Nat
  BY KbNumbers, RingIs DEF KbRanges
<1>2. CASE Ring = <<>>
  BY <1>1, <1>2, EventsIs
<1>3. CASE Ring # <<>>
  <2> DEFINE r == Report(Head(Ring))
  <2>1. Events = Append(keyEvt_buf, r)
    BY <1>3, EventsIs
  <2>2. Len(Ring) > 0 /\ Head(Ring) = Ring[1] /\ Head(Ring) \in SUBSET KbKeys
    BY <1>1, <1>3, HeadTailProperties
  <2>3. /\ Len(Tail(Ring)) = Len(Ring) - 1
        /\ \A i \in 1..Len(Tail(Ring)) : Tail(Ring)[i] = Ring[i + 1]
    BY <1>1, <1>3, HeadTailProperties
  <2>4. r \in KbReports /\ (Ring[1] = {} => r = <<>>)
    BY <2>2, ReportIs
  <2> HIDE DEF r
  <2>5. /\ Len(Events) = Len(keyEvt_buf) + 1
        /\ \A i \in 1..Len(Events) : Events[i] = IF i <= Len(keyEvt_buf) THEN keyEvt_buf[i] ELSE r
    BY <1>1, <2>1, <2>4
  <2>6. /\ \A i \in 1..Len(keyEvt_buf) : i >= m => keyEvt_buf[i] = <<>>
        /\ \A i \in 1..Len(Ring) : Len(keyEvt_buf) + i >= m => Ring[i] = {}
    BY DEF KbEmpty
  <2>7. Len(keyEvt_buf) + 1 >= m => r = <<>>
    BY <1>1, <2>2, <2>4, <2>6
  <2>8. \A i \in 1..Len(Events) : i >= m => Events[i] = <<>>
    <3> SUFFICES ASSUME NEW i \in 1..Len(Events), i >= m PROVE Events[i] = <<>>
      OBVIOUS
    <3>1. CASE i <= Len(keyEvt_buf)
      BY <1>1, <2>5, <2>6, <3>1
    <3>2. CASE ~(i <= Len(keyEvt_buf))
      <4>1. i = Len(keyEvt_buf) + 1
        BY <1>1, <2>5, <3>2
      <4> QED BY <2>5, <2>7, <3>2, <4>1
    <3> QED BY <3>1, <3>2
  <2>9. \A i \in 1..Len(Tail(Ring)) : Len(Events) + i >= m => Tail(Ring)[i] = {}
    <3> SUFFICES ASSUME NEW i \in 1..Len(Tail(Ring)), Len(Events) + i >= m PROVE Tail(Ring)[i] = {}
      OBVIOUS
    <3>1. i + 1 \in 1..Len(Ring) /\ Len(keyEvt_buf) + (i + 1) >= m /\ Tail(Ring)[i] = Ring[i + 1]
      BY <1>1, <2>2, <2>3, <2>5
    <3> QED BY <2>6, <3>1
  <2>10. Len(Events) + Len(Tail(Ring)) = Len(keyEvt_buf) + Len(Ring)
    <3>1. Len(Events) = Len(keyEvt_buf) + 1 /\ Len(Tail(Ring)) = Len(Ring) - 1
      BY <2>3, <2>5
    <3>2. Len(Events) + Len(Tail(Ring)) = (Len(keyEvt_buf) + 1) + (Len(Ring) - 1)
      BY <3>1, Zenon
    <3>3. \A a, b \in Nat : (a + 1) + (b - 1) = a + b
      OBVIOUS
    <3> QED BY <1>1, <3>2, <3>3
  <2> QED BY <1>3, <2>8, <2>9, <2>10 DEF KbEmpty
<1> QED BY <1>2, <1>3

\* ... and the oldest report the frame.
LEMMA KbTakenEmpty ==
  ASSUME NEW S, NEW k \in Seq(S), NEW T, NEW r \in Seq(T), k # <<>>, NEW m \in Nat, KbEmpty(k, r, m)
  PROVE  /\ KbEmpty(Tail(k), r, IF m = 0 THEN 0 ELSE m - 1)
         /\ m <= 1 => Head(k) = <<>>
<1> DEFINE n == IF m = 0 THEN 0 ELSE m - 1
<1>1. /\ Len(k) \in Nat /\ Len(r) \in Nat /\ Len(k) > 0 /\ Head(k) = k[1]
      /\ Len(Tail(k)) = Len(k) - 1 /\ \A i \in 1..Len(Tail(k)) : Tail(k)[i] = k[i + 1]
  BY HeadTailProperties
<1>2. /\ \A i \in 1..Len(k) : i >= m => k[i] = <<>>
      /\ \A i \in 1..Len(r) : Len(k) + i >= m => r[i] = {}
  BY DEF KbEmpty
<1>3. \A i \in Nat : i >= n => i + 1 >= m
  OBVIOUS
<1> HIDE DEF n
<1>4. \A i \in 1..Len(Tail(k)) : i >= n => Tail(k)[i] = <<>>
  <2> SUFFICES ASSUME NEW i \in 1..Len(Tail(k)), i >= n PROVE Tail(k)[i] = <<>>
    OBVIOUS
  <2>1. i + 1 \in 1..Len(k) /\ i + 1 >= m /\ Tail(k)[i] = k[i + 1]
    BY <1>1, <1>3
  <2> QED BY <1>2, <2>1
<1>5. \A i \in 1..Len(r) : Len(Tail(k)) + i >= n => r[i] = {}
  <2> SUFFICES ASSUME NEW i \in 1..Len(r), Len(Tail(k)) + i >= n PROVE r[i] = {}
    OBVIOUS
  <2>1. Len(Tail(k)) + i \in Nat /\ (Len(Tail(k)) + i) + 1 = Len(k) + i
    BY <1>1
  <2>2. Len(k) + i >= m
    BY <1>3, <2>1
  <2> QED BY <1>2, <2>2
<1>6. m <= 1 => Head(k) = <<>>
  BY <1>1, <1>2
<1> QED BY <1>4, <1>5, <1>6 DEF KbEmpty, n

\* What keeps KbTried, and that few stalls stay few only from few.
LEMMA KbTriedStep ==
  ASSUME KbTypeInv, KbTypeInv', KbTried, kb_main_loop
  PROVE  KbTried' /\ (KbFew' /\ KbDepth' # 0 => KbFew)
<1> DEFINE sent == KeyScaned /\ ~kb_locked'
           r == Emptied(KbEvent)
<1>1. sent \in BOOLEAN /\ kb_rf_proc(sent, r)
  BY DEF kb_main_loop, KeyScaned
<1> HIDE DEF sent, r
<1>2. KbTried' /\ (kb_stalls' >= kb_stalls \/ (kb_stalls' = 0 /\ KbDepth' = 0))
  BY <1>1, KbStallStep
<1>3. KbRanges /\ KbRanges'
  BY KbNumbers, PTL
<1>4. kb_stalls \in Nat /\ kb_stalls' \in Nat /\ KB_WINDOW \in Nat
  BY <1>3, KbConstants DEF KbRanges
<1> QED BY <1>2, <1>4 DEF KbFew

\* Few things are queued while the last key comes up: there is room for one more report.
LEMMA KbRoom ==
  ASSUME KbTypeInv, KbFew, KbShallow
  PROVE  Len(keyEvt_buf) < KEY_BUF_SIZE
<1>1. KbDepth <= KbSpare \/ KbDepth + KbBusy <= kb_stalls + 1 - KbEnds + KbSpare
  BY DEF KbShallow
<1>2. /\ KbDepth \in Nat /\ KbBusy \in {0, 1} /\ KbEnds \in Nat /\ KbSpare \in {0, 1}
      /\ KbSpare <= KbEnds /\ kb_stalls \in Nat
      /\ Len(matrix_buff) \in Nat /\ Len(keyEvt_buf) \in Nat
  BY KbNumbers, KbConstants DEF KbRanges
<1>3. kb_stalls <= KB_WINDOW - 4 /\ KB_WINDOW \in Nat /\ KB_WINDOW >= 4
  BY KbConstants DEF KbFew
<1>4. KbDepth <= KB_WINDOW - 3
  BY <1>1, <1>2, <1>3
<1>5. KEY_BUF_SIZE \in Nat /\ KEY_BUF_SIZE >= KB_WINDOW - 2
  BY KbConstants
<1> QED BY <1>2, <1>3, <1>4, <1>5 DEF KbDepth

\* One pass of those in which the last key comes up, for what is queued and the frame.
LEMMA KbEmptyStep ==
  ASSUME KbTypeInv, KbTypeInv', Debounced = {}, Len(keyEvt_buf) < KEY_BUF_SIZE, Scanned,
         KbFrame, kb_scan_key, KbDepth' # 0, NEW m \in 0..KbDepth, KbEmptyFrom(m)
  PROVE  \E n \in 0..KbDepth' : KbEmptyFrom(n)' /\ (n = 0 \/ n = m + KbBusy - 1)
<1>1. /\ Len(matrix_buff) \in Nat /\ Len(keyEvt_buf) \in Nat /\ KbDepth \in Nat
      /\ Ring \in Seq(SUBSET KbKeys) /\ Len(Ring) \in Nat
      /\ Events \in Seq(KbReports) /\ Len(Events) \in Nat /\ m \in Nat
  BY KbNumbers, RingIs, EventsIs DEF KbRanges
<1>2. KbEmpty(keyEvt_buf, matrix_buff, m) /\ (m = 0 => pkt_km = <<>>)
  BY DEF KbEmptyFrom
<1>3. KbEmpty(keyEvt_buf, Ring, m) /\ Len(Ring) >= Len(matrix_buff)
  BY <1>1, <1>2, KbScanEmpty
<1> DEFINE rest == IF Ring = <<>> THEN Ring ELSE Tail(Ring)
<1>4. /\ rest \in Seq(SUBSET KbKeys) /\ Len(rest) \in Nat
      /\ KbEmpty(Events, rest, m) /\ Len(Events) + Len(rest) = Len(keyEvt_buf) + Len(Ring)
  <2>1. Ring # <<>> => Tail(Ring) \in Seq(SUBSET KbKeys)
    BY <1>1, HeadTailProperties
  <2>2. rest \in Seq(SUBSET KbKeys)
    BY <1>1, <2>1
  <2> QED BY <1>1, <1>3, <2>2, KbMovedEmpty
<1> HIDE DEF rest
<1>5. m <= Len(keyEvt_buf) + Len(Ring)
  BY <1>1, <1>3 DEF KbDepth
<1>6. CASE Asks
  <2>1. /\ matrix_buff' = Ring /\ keyEvt_buf' = keyEvt_buf /\ KbBusy = 1
        /\ KeyScaned /\ KbEvent = <<>>
    BY <1>6 DEF kb_scan_key, KbBusy, KeyScaned, KbEvent
  <2>2. pkt_km' = <<>>
    BY <2>1 DEF KbFrame, Emptied
  <2>3. m \in 0..KbDepth'
    BY <1>1, <1>5, <2>1 DEF KbDepth
  <2>4. KbEmptyFrom(m)'
    BY <1>3, <2>1, <2>2 DEF KbEmptyFrom
  <2>5. m = m + KbBusy - 1
    BY <1>1, <2>1
  <2> QED BY <2>3, <2>4, <2>5
<1>7. CASE ~Asks
  <2>1. /\ matrix_buff' = rest /\ keyEvt_buf' = IF Takes THEN Tail(Events) ELSE Events
        /\ KeyScaned <=> Takes
        /\ KbEvent = Head(Events)
        /\ Takes <=> Events # <<>> /\ KbBusy # 1
    BY <1>7 DEF kb_scan_key, KeyScaned, KbEvent, KbBusy, Takes, MayRead, rest
  <2>2. CASE KbBusy = 1
    <3>1. keyEvt_buf' = Events /\ pkt_km' = pkt_km
      BY <2>1, <2>2 DEF KbFrame
    <3>2. m \in 0..KbDepth'
      BY <1>1, <1>4, <1>5, <2>1, <3>1 DEF KbDepth
    <3>3. KbEmptyFrom(m)'
      BY <1>2, <1>4, <2>1, <3>1 DEF KbEmptyFrom
    <3>4. m = m + KbBusy - 1
      BY <1>1, <2>2
    <3> QED BY <3>2, <3>3, <3>4
  <2>3. CASE KbBusy # 1
    <3> DEFINE n == IF m = 0 THEN 0 ELSE m - 1
    <3>1. Events # <<>>
      <4> SUFFICES ASSUME Events = <<>> PROVE FALSE
        OBVIOUS
      <4>1. Ring = <<>>
        BY EventsIs
      <4>2. matrix_buff' = <<>> /\ keyEvt_buf' = <<>>
        BY <2>1, <4>1 DEF rest
      <4> QED BY <4>2 DEF KbDepth
    <3>2. KeyScaned /\ keyEvt_buf' = Tail(Events) /\ Len(Tail(Events)) = Len(Events) - 1
      BY <1>1, <2>1, <2>3, <3>1, HeadTailProperties
    <3>3. KbEmpty(Tail(Events), rest, n) /\ (m <= 1 => Head(Events) = <<>>)
      BY <1>1, <1>4, <3>1, KbTakenEmpty
    <3>4. m <= 1 => pkt_km' = <<>>
      BY <2>1, <3>2, <3>3 DEF KbFrame, Emptied
    <3>5. KbDepth' = Len(Events) + Len(rest) - 1 /\ Len(Events) > 0
      BY <1>1, <1>4, <2>1, <3>1, <3>2 DEF KbDepth
    <3>6. n \in 0..KbDepth' /\ (n = 0 => m <= 1)
      <4>1. m <= Len(Events) + Len(rest) /\ Len(Events) + Len(rest) \in Nat
        BY <1>1, <1>4, <1>5
      <4> QED BY <1>1, <1>4, <3>5, <4>1
    <3> HIDE DEF n
    <3>7. KbEmptyFrom(n)'
      BY <2>1, <3>2, <3>3, <3>4, <3>6 DEF KbEmptyFrom
    <3>8. n = 0 \/ n = m + KbBusy - 1
      <4>1. KbBusy = 0
        BY <2>3 DEF KbBusy
      <4> QED BY <1>1, <4>1 DEF n
    <3> QED BY <3>6, <3>7, <3>8
  <2> QED BY <2>2, <2>3
<1> QED BY <1>6, <1>7

LEMMA EmptyRange ==
  ASSUME NEW S, NEW s \in Seq(S), Range(s) = {}
  PROVE  s = <<>>
<1>1. Len(s) \in Nat /\ DOMAIN s = 1..Len(s)
  OBVIOUS
<1>2. \A i \in 1..Len(s) : s[i] \in Range(s)
  BY <1>1 DEF Range
<1>3. Len(s) = 0
  BY <1>1, <1>2
<1> QED BY <1>3

LEMMA KbDrainedStep ==
  ASSUME KbTypeInv, KbTypeInv', KbCleared, KbCleared', KbRecent', KbTried, KbShallow, KbShallow',
         KbDrained, KbFrame, kb_main_loop
  PROVE  KbDrained'
<1>1. KB_WINDOW \in Nat /\ KB_WINDOW >= 4
  BY KbConstants
<1>2. KbRanges /\ KbRanges' /\ kb_scan_key
  BY KbNumbers, PTL DEF kb_main_loop
<1>3. /\ KbDepth \in Nat /\ KbBusy \in {0, 1} /\ KbEnds \in Nat /\ kb_stalls \in Nat
      /\ release_cnt \in 0..KB_WINDOW - 1
  BY <1>1, <1>2, KbConstants DEF KbRanges
<1>4. /\ KbDepth' \in Nat /\ KbBusy' \in {0, 1} /\ KbEnds' \in Nat /\ KbSpare' \in {0, 1}
      /\ KbSpare' <= KbEnds' /\ kb_stalls' \in Nat /\ release_cnt' \in 0..KB_WINDOW - 1
      /\ matrix_buff' \in Seq(SUBSET KbKeys) /\ keyEvt_buf' \in Seq(KbReports)
      /\ Len(matrix_buff') \in Nat /\ Len(keyEvt_buf') \in Nat
  BY <1>1, <1>2, KbConstants DEF KbRanges
<1>5. SUFFICES ASSUME KbFew', release_cnt' <= KB_WINDOW - 3
               PROVE  \E n \in 0..KbDepth' : /\ KbEmptyFrom(n)'
                                             /\ n = 0 \/ n + KbBusy' <= kb_stalls' + 1 - KbEnds'
  BY DEF KbDrained
<1>6. mtrx_last' = {}
  BY <1>5 DEF KbCleared
<1>7. CASE KbDepth' = 0
  <2>1. matrix_buff' = <<>> /\ keyEvt_buf' = <<>>
    <3>1. Len(matrix_buff') = 0 /\ Len(keyEvt_buf') = 0
      BY <1>4, <1>7 DEF KbDepth
    <3> QED BY <1>4, <3>1
  <2>2. Range(pkt_km') = {}
    BY <1>6, <2>1 DEF KbRecent
  <2>3. pkt_km' = <<>>
    <3>1. pkt_km' \in Seq(KbKeys)
      BY KbReportsAre DEF KbTypeInv, KbTypeOK
    <3>2. \A i \in 1..Len(pkt_km') : pkt_km'[i] \in Range(pkt_km')
      BY <3>1 DEF Range
    <3>3. 1 \notin 1..Len(pkt_km')
      BY <2>2, <3>2
    <3> QED BY <3>1, <3>3
  <2>4. KbEmptyFrom(0)' /\ 0 \in 0..KbDepth'
    BY <1>4, <2>1, <2>3 DEF KbEmptyFrom, KbEmpty
  <2> QED BY <2>4
<1>8. CASE KbDepth' # 0 /\ KbEnds' = 0
  <2>1. KbEmpty(keyEvt_buf', matrix_buff', KbDepth')
    <3>1. CASE matrix_buff' # <<>>
      <4>1. matrix_buff'[Len(matrix_buff')] = {} /\ Len(matrix_buff') > 0
        BY <1>4, <1>6, <3>1 DEF KbRecent
      <4>2. \A i \in 1..Len(keyEvt_buf') : ~(i >= KbDepth')
        BY <1>4, <4>1 DEF KbDepth
      <4>3. \A i \in 1..Len(matrix_buff') :
              Len(keyEvt_buf') + i >= KbDepth' => i = Len(matrix_buff')
        BY <1>4 DEF KbDepth
      <4> QED BY <4>1, <4>2, <4>3 DEF KbEmpty
    <3>2. CASE matrix_buff' = <<>>
      <4>1. Len(matrix_buff') = 0 /\ KbDepth' = Len(keyEvt_buf')
        BY <1>4, <3>2 DEF KbDepth
      <4>2. keyEvt_buf' # <<>>
        BY <1>8, <3>2 DEF KbDepth
      <4>3. Range(keyEvt_buf'[Len(keyEvt_buf')]) = {}
        BY <1>6, <3>2, <4>2 DEF KbRecent
      <4>4. keyEvt_buf'[Len(keyEvt_buf')] \in Seq(KbKeys)
        BY <1>4, <4>2, KbReportsAre
      <4>5. keyEvt_buf'[Len(keyEvt_buf')] = <<>>
        BY <4>3, <4>4, EmptyRange
      <4> QED BY <1>4, <4>1, <4>5 DEF KbEmpty
    <3> QED BY <3>1, <3>2
  <2>2. KbDepth' + KbBusy' <= kb_stalls' + 1 - KbEnds'
    <3>1. KbSpare' = 0
      BY <1>4, <1>8
    <3>2. \/ KbDepth' <= KbSpare'
          \/ KbDepth' + KbBusy' <= kb_stalls' + 1 - KbEnds' + KbSpare'
      BY <1>5 DEF KbShallow
    <3>3. ~(KbDepth' <= KbSpare')
      BY <1>4, <1>8, <3>1
    <3>4. kb_stalls' + 1 - KbEnds' + KbSpare' = kb_stalls' + 1 - KbEnds'
      BY <1>4, <3>1
    <3> QED BY <3>2, <3>3, <3>4
  <2>3. \E n \in 0..KbDepth' : n = KbDepth' /\ n # 0
    BY <1>4, <1>8
  <2>4. PICK n \in 0..KbDepth' : n = KbDepth' /\ n # 0
    BY <2>3
  <2>5. KbEmptyFrom(n)'
    BY <2>1, <2>4 DEF KbEmptyFrom
  <2> QED BY <2>2, <2>4, <2>5
<1>9. CASE KbDepth' # 0 /\ KbEnds' # 0
  <2>1. KbFew
    BY <1>5, <1>9, KbTriedStep
  <2>2. kb_stalls <= KB_WINDOW - 4
    BY <2>1 DEF KbFew
  <2>3. CASE ~Scanned
    <3>1. /\ release_cnt = 0 /\ UNCHANGED <<matrix_buff, keyEvt_buf>>
      BY <1>2, <1>3, <2>3 DEF kb_scan_key, Scanned, bufVars
    <3>2. pkt_km' = pkt_km
      BY <2>3 DEF KbFrame, KeyScaned
    <3>3. KbEnds = KB_WINDOW - 3
      BY <1>1, <3>1 DEF KbEnds
    <3>4. PICK m \in 0..KbDepth : KbEmptyFrom(m) /\ (m = 0 \/ m + KbBusy <= kb_stalls + 1 - KbEnds)
      BY <1>1, <2>1, <3>1 DEF KbDrained
    <3>5. m = 0
      BY <1>1, <1>3, <2>2, <3>3, <3>4
    <3>6. KbEmptyFrom(0)'
      BY <3>1, <3>2, <3>4, <3>5 DEF KbEmptyFrom
    <3>7. 0 \in 0..KbDepth'
      BY <1>4
    <3> QED BY <3>6, <3>7
  <2>4. CASE Scanned
    <3>1. release_cnt <= KB_WINDOW - 3 /\ KbEnds' = KbEnds + 1
      BY <1>2, <1>9, <2>4, KbCounters
    <3>2. PICK m \in 0..KbDepth : KbEmptyFrom(m) /\ (m = 0 \/ m + KbBusy <= kb_stalls + 1 - KbEnds)
      BY <2>1, <3>1 DEF KbDrained
    <3>3. Debounced = {} /\ Len(keyEvt_buf) < KEY_BUF_SIZE
      BY <2>1, <3>1, KbQuiet, KbRoom
    <3>4. PICK n \in 0..KbDepth' : KbEmptyFrom(n)' /\ (n = 0 \/ n = m + KbBusy - 1)
      BY <1>2, <1>9, <2>4, <3>2, <3>3, KbEmptyStep
    <3>5. KbBusy' <= kb_stalls' - kb_stalls
      BY <1>5, <1>9, <2>4, KbPaidStep DEF KbPaid
    <3>6. n = 0 \/ n + KbBusy' <= kb_stalls' + 1 - KbEnds'
      <4> SUFFICES ASSUME n # 0 PROVE n + KbBusy' <= kb_stalls' + 1 - KbEnds'
        OBVIOUS
      <4>1. n = m + KbBusy - 1 /\ n \in Nat /\ m \in Nat
        BY <1>3, <1>4, <3>4
      <4>2. m # 0
        BY <1>3, <4>1
      <4>3. m + KbBusy <= kb_stalls + 1 - KbEnds
        BY <3>2, <4>2
      <4>4. n <= kb_stalls - KbEnds
        BY <1>3, <4>1, <4>3
      <4>5. n + KbBusy' <= (kb_stalls - KbEnds) + (kb_stalls' - kb_stalls)
        <5>1. \A a, b, c, d \in Int : a <= c /\ b <= d => a + b <= c + d
          OBVIOUS
        <5>2. n \in Int /\ KbBusy' \in Int /\ kb_stalls - KbEnds \in Int
              /\ kb_stalls' - kb_stalls \in Int
          BY <1>3, <1>4, <4>1
        <5> QED BY <3>5, <4>4, <5>1, <5>2
      <4>6. (kb_stalls - KbEnds) + (kb_stalls' - kb_stalls) = kb_stalls' + 1 - KbEnds'
        BY <1>3, <1>4, <3>1
      <4> QED BY <4>5, <4>6
    <3> QED BY <3>4, <3>6
  <2> QED BY <2>3, <2>4
<1> QED BY <1>7, <1>8, <1>9

LEMMA KbFlushInit == KbInit => KbFlushInv
<1> SUFFICES ASSUME KbInit PROVE KbFlushInv
  OBVIOUS
<1>1. /\ mtrx_pre = {} /\ mtrx_last = {} /\ release_cnt = 0 /\ data_same_cnt = 0
      /\ matrix_buff = <<>> /\ keyEvt_buf = <<>> /\ pkt_km = <<>>
      /\ km_dat_sending = FALSE /\ kb_taken = TRUE /\ kb_stalls = 0
  BY DEF KbInit
<1>2. KbCleared /\ KbTried
  BY <1>1 DEF KbCleared, KbTried
<1>3. KbRecent
  BY <1>1 DEF KbRecent, Range
<1>4. KbDepth = 0
  BY <1>1 DEF KbDepth
<1>5. KbShallow
  BY <1>4 DEF KbShallow, KbSpare
<1>6. KbDrained
  <2>1. KbEmptyFrom(0) /\ 0 \in 0..KbDepth
    BY <1>1, <1>4 DEF KbEmptyFrom, KbEmpty
  <2> QED BY <2>1 DEF KbDrained
<1> QED BY <1>2, <1>3, <1>5, <1>6 DEF KbFlushInv

LEMMA KbFlushStep ==
  KbTypeInv /\ KbTypeInv' /\ KbLockInv /\ KbLockInv' /\ KbFlushInv /\ [KbNext]_kbVars => KbFlushInv'
<1> SUFFICES ASSUME KbTypeInv, KbTypeInv', KbLockInv, KbLockInv', KbFlushInv, [KbNext]_kbVars
             PROVE  KbFlushInv'
  OBVIOUS
<1>1. CASE kb_main_loop
  <2>1. KbFrame /\ kb_scan_key
    BY <1>1, KbFrameStep DEF kb_main_loop
  <2>2. KbCleared /\ KbRecent /\ KbTried /\ KbShallow /\ KbDrained
    BY DEF KbFlushInv
  <2>3. KbCleared'
    BY <2>1, <2>2, KbClearedStep
  <2>4. KbRecent'
    BY <2>1, <2>2, KbRecentStep
  <2>5. KbTried'
    BY <1>1, <2>2, KbTriedStep
  <2>6. KbShallow'
    BY <1>1, <2>1, <2>2, KbShallowStep
  <2>7. KbDrained'
    BY <1>1, <2>1, <2>2, <2>3, <2>4, <2>6, KbDrainedStep
  <2> QED BY <2>3, <2>4, <2>5, <2>6, <2>7 DEF KbFlushInv
<1>2. CASE UNCHANGED <<scanVars, bufVars, lockVars, radioVars, kbDongleVars, kb_stalls, kb_dropped>>
  <2>1. UNCHANGED <<mtrx_pre, mtrx_last, release_cnt, data_same_cnt, matrix_buff, keyEvt_buf,
                    pkt_km, km_dat_sending, kb_retry, kb_valid, kb_locked, kb_taken, kb_stalls>>
    BY <1>2 DEF scanVars, bufVars, lockVars, radioVars
  <2>2. /\ KbDepth' = KbDepth /\ KbBusy' = KbBusy /\ KbEnds' = KbEnds /\ KbSpare' = KbSpare
        /\ KbFew' = KbFew
    BY <2>1 DEF KbDepth, KbBusy, KbEnds, KbSpare, Asks, KbFew
  <2>3. \A m : KbEmptyFrom(m)' <=> KbEmptyFrom(m)
    BY <2>1 DEF KbEmptyFrom
  <2>4. KbCleared' /\ KbRecent' /\ KbTried'
    BY <2>1, <2>2 DEF KbFlushInv, KbCleared, KbRecent, KbTried
  <2>5. KbShallow'
    BY <2>1, <2>2 DEF KbFlushInv, KbShallow
  <2>6. KbDrained'
    BY <2>1, <2>2, <2>3 DEF KbFlushInv, KbDrained
  <2> QED BY <2>4, <2>5, <2>6 DEF KbFlushInv
<1> QED BY <1>1, <1>2 DEF KbNext, KbKeysChange, kbVars

LEMMA KbFlushInvFlushed == KbTypeInv /\ KbLockInv /\ KbFlushInv => KbFlushed
<1> SUFFICES ASSUME KbTypeInv, KbLockInv, KbFlushInv, KbIdle, kb_stalls <= KB_WINDOW - 4
             PROVE  /\ kb_host = {}
                    /\ Range(matrix_buff) \subseteq {{}} /\ Range(keyEvt_buf) \subseteq {<<>>}
  BY DEF KbFlushed
<1>1. /\ KB_WINDOW \in Nat /\ KB_WINDOW >= 4 /\ release_cnt = 0 /\ ~km_dat_sending /\ KbFew
  <2>1. release_cnt \in 0..KB_WINDOW - 1
    BY KbNumbers DEF KbRanges
  <2> QED BY <2>1, KbConstants DEF KbIdle, Scanned, KbFew
<1>2. /\ KbDepth \in Nat /\ KbBusy \in {0, 1} /\ KbEnds = KB_WINDOW - 3 /\ kb_stalls \in Nat
      /\ matrix_buff \in Seq(SUBSET KbKeys) /\ keyEvt_buf \in Seq(KbReports)
      /\ Len(matrix_buff) \in Nat /\ Len(keyEvt_buf) \in Nat
  BY <1>1, KbNumbers, KbConstants DEF KbRanges, KbEnds
<1>3. PICK m \in 0..KbDepth : KbEmptyFrom(m) /\ (m = 0 \/ m + KbBusy <= kb_stalls + 1 - KbEnds)
  BY <1>1 DEF KbFlushInv, KbDrained
<1>4. m = 0
  BY <1>1, <1>2, <1>3
<1>5. /\ \A i \in 1..Len(keyEvt_buf) : keyEvt_buf[i] = <<>>
      /\ \A i \in 1..Len(matrix_buff) : matrix_buff[i] = {}
      /\ pkt_km = <<>>
  BY <1>2, <1>3, <1>4 DEF KbEmptyFrom, KbEmpty
<1>6. Range(keyEvt_buf) \subseteq {<<>>} /\ Range(matrix_buff) \subseteq {{}}
  BY <1>2, <1>5 DEF Range
<1>7. kb_taken
  BY <1>1 DEF KbFlushInv, KbTried
<1>8. kb_host = Range(pkt_km)
  BY <1>7 DEF KbLockInv, KbTold
<1> QED BY <1>5, <1>6, <1>8 DEF Range

\* When the scan has stopped and few frames went unanswered, nothing but empty reports is left in
\* the buffers and the host knows that all keys are up (kb_key_pressed, kb_scan_key, kb_rf_proc).
THEOREM KbFlushedHolds == KbSpec => []KbFlushed
<1> DEFINE Inv == KbTypeInv /\ KbLockInv /\ KbFlushInv
<1>1. KbInit => Inv
  BY KbInitTypes, KbInitLocks, KbFlushInit
<1>2. Inv /\ [KbNext]_kbVars => Inv'
  BY KbTypesStep, KbLocksStep, KbFlushStep
<1>3. Inv => KbFlushed
  BY KbFlushInvFlushed
<1> QED BY <1>1, <1>2, <1>3, PTL DEF KbSpec

-----------------------------------------------------------------------------
(***************************************************************************)
(* The receiver in the vacuum cleaner                                      *)
(* (vendor/vacuum_receiver/vacuum_receiver.c).  The invariant says where   *)
(* each waiting event is in the ring; how soon the ring is empty, in       *)
(* passes of the main loop; and what the cleaner will have been told when  *)
(* it is.                                                                  *)
(***************************************************************************)

VrSome == VrEvents \cup {NoVrEvent}
VrBuffers == [data : [VrSlots -> VrSome], wptr : VrSlots, rptr : VrSlots]

\* Where the i-th event that waits is, and how many do.
VrPlace(b, i) == (b.rptr + i - 1) % VrRing
VrWaits(b) == (b.wptr - b.rptr) % VrRing

VrRingInv ==
  /\ data_buff \in VrBuffers /\ vr_queue \in Seq(VrSome)
  /\ Len(vr_queue) = VrWaits(data_buff)
  /\ \A i \in 1..Len(vr_queue) : vr_queue[i] = data_buff.data[VrPlace(data_buff, i)]

\* What an event makes of the cleaner's key, and what it will be when all is sent.
VrAfter(e) == IF e.kind = "pressed" THEN e.key ELSE NoVrKey
VrFinal == IF vr_queue # <<>> THEN VrAfter(vr_queue[Len(vr_queue)])
           ELSE IF vr_pc = "transmit" THEN VrAfter(vr_pkt) ELSE vr_held

VrTimes ==
  /\ vr_release \in 0..VR_RELEASE + 2 /\ suspend_cnt \in 0..VR_SUSPEND + 1
  /\ not_release_flg /\ vr_pc # "release" => vr_release <= VR_RELEASE + 1
  /\ suspended => vr_pc = "top"
  /\ ~suspended /\ vr_pc # "sleep" => suspend_cnt <= VR_SUSPEND
  /\ vr_load \in 0..VR_SUSPEND /\ (vr_pc = "tick" => vr_load <= VR_RELEASE + 1)

VrDrains ==
  vr_queue # <<>> =>
    /\ not_release_flg =>
         Len(vr_queue) + vr_release <= IF vr_pc = "send" THEN VrRing ELSE VrRing - 1
    /\ Len(vr_queue) + suspend_cnt <=
         IF vr_pc \in {"transmit", "count", "counted"} THEN VrRing - 1 ELSE VrRing
VrPassed ==
  not_release_flg =>
    suspend_cnt <= IF vr_pc \in {"top", "tick"} THEN vr_release + 1 ELSE vr_release
\* No frame came since the counter was read.
VrLoaded ==
  /\ vr_pc = "tick" => vr_load = vr_release /\ not_release_flg
  /\ vr_pc = "counted" => vr_load = suspend_cnt
VrReleases ==
  /\ vr_pc = "release" => vr_queue = <<>> /\ not_release_flg
  /\ send_p_flg => vr_pc = "send" /\ vr_queue = <<>> /\ ~not_release_flg
  /\ VrFinal \in {NoVrKey, KeySave}
  /\ ~not_release_flg /\ ~send_p_flg => VrFinal = NoVrKey
  /\ vr_pc = "sleep" \/ suspended => vr_queue = <<>> /\ ~not_release_flg

VrOrderly == ~vr_spoilt => VrDrains /\ VrPassed /\ VrLoaded /\ VrReleases

VrInv == VrTypeOK /\ VrRingInv /\ VrTimes /\ VrOrderly
-----------------------------------------------------------------------------
LEMMA VrConstants ==
  /\ VrRing \in Nat \ {0} /\ VrRing >= 3
  /\ VR_RELEASE \in Nat /\ VR_RELEASE >= VrRing - 2
  /\ VR_SUSPEND \in Nat /\ VR_SUSPEND >= VR_RELEASE + 2
  BY VrAssumption

\* The places in a ring.
LEMMA VrMod ==
  /\ \A x \in Nat : x < VrRing => x % VrRing = x
  /\ \A x \in Nat : x >= VrRing /\ x < 2 * VrRing => x % VrRing = x - VrRing
  /\ \A x \in Int : x < 0 /\ x >= -VrRing => x % VrRing = x + VrRing
<1>1. VrRing \in Nat \ {0}
  BY VrConstants
<1>2. ASSUME NEW x \in Nat, x < VrRing PROVE x % VrRing = x
  BY <1>1, <1>2
<1>3. ASSUME NEW x \in Nat, x >= VrRing, x < 2 * VrRing PROVE x % VrRing = x - VrRing
  BY <1>1, <1>3
<1>4. ASSUME NEW x \in Int, x < 0, x >= -VrRing PROVE x % VrRing = x + VrRing
  BY <1>1, <1>4
<1> QED BY <1>2, <1>3, <1>4

LEMMA VrPlaces ==
  ASSUME NEW b \in VrBuffers
  PROVE  /\ b.wptr \in Nat /\ b.rptr \in Nat /\ b.wptr < VrRing /\ b.rptr < VrRing
         /\ VrWaits(b) = IF b.wptr >= b.rptr THEN b.wptr - b.rptr ELSE b.wptr - b.rptr + VrRing
         /\ VrWaits(b) \in Nat /\ VrWaits(b) <= VrRing - 1
         /\ \A i \in 1..VrRing : VrPlace(b, i) = IF b.rptr + i - 1 < VrRing THEN b.rptr + i - 1
                                                ELSE b.rptr + i - 1 - VrRing
<1>1. b.wptr \in Nat /\ b.rptr \in Nat /\ b.wptr < VrRing /\ b.rptr < VrRing /\ VrRing \in Nat
  BY VrConstants DEF VrBuffers, VrSlots
<1>2. VrWaits(b) = IF b.wptr >= b.rptr THEN b.wptr - b.rptr ELSE b.wptr - b.rptr + VrRing
  <2>1. CASE b.wptr >= b.rptr
    <3>1. b.wptr - b.rptr \in Nat /\ b.wptr - b.rptr < VrRing
      BY <1>1, <2>1
    <3> QED BY <2>1, <3>1, VrMod DEF VrWaits
  <2>2. CASE ~(b.wptr >= b.rptr)
    <3>1. b.wptr - b.rptr \in Int /\ b.wptr - b.rptr < 0 /\ b.wptr - b.rptr >= -VrRing
      BY <1>1, <2>2
    <3> QED BY <2>2, <3>1, VrMod DEF VrWaits
  <2> QED BY <2>1, <2>2
<1>3. ASSUME NEW i \in 1..VrRing
      PROVE  VrPlace(b, i) = IF b.rptr + i - 1 < VrRing THEN b.rptr + i - 1
                             ELSE b.rptr + i - 1 - VrRing
  <2>1. b.rptr + i - 1 \in Nat /\ b.rptr + i - 1 < 2 * VrRing
    BY <1>1
  <2>2. CASE b.rptr + i - 1 < VrRing
    BY <2>1, <2>2, VrMod DEF VrPlace
  <2>3. CASE ~(b.rptr + i - 1 < VrRing)
    BY <1>1, <2>1, <2>3, VrMod DEF VrPlace
  <2> QED BY <2>2, <2>3
<1> QED BY <1>1, <1>2, <1>3

\* An event is put behind those that wait, and takes none away as long as they are few.
LEMMA VrPut ==
  ASSUME NEW b \in VrBuffers, NEW e \in VrSome
  PROVE  /\ rsv_save_buff(b, e) \in VrBuffers
         /\ VrWaits(b) + 1 <= VrRing - 2 =>
              /\ VrWaits(rsv_save_buff(b, e)) = VrWaits(b) + 1
              /\ \A i \in 1..VrWaits(b) + 1 :
                   rsv_save_buff(b, e).data[VrPlace(rsv_save_buff(b, e), i)] =
                     IF i = VrWaits(b) + 1 THEN e ELSE b.data[VrPlace(b, i)]
<1> DEFINE c == rsv_save_buff(b, e)
           w == (b.wptr + 1) % VrRing
<1>1. /\ b.wptr \in Nat /\ b.rptr \in Nat /\ b.wptr < VrRing /\ b.rptr < VrRing
      /\ VrWaits(b) = IF b.wptr >= b.rptr THEN b.wptr - b.rptr ELSE b.wptr - b.rptr + VrRing
      /\ VrWaits(b) \in Nat /\ VrWaits(b) <= VrRing - 1
      /\ VrRing \in Nat /\ VrRing >= 3
  BY VrPlaces, VrConstants
<1>2. w = IF b.wptr + 1 < VrRing THEN b.wptr + 1 ELSE 0
  <2>1. b.wptr + 1 \in Nat /\ b.wptr + 1 < 2 * VrRing
    BY <1>1
  <2>2. CASE b.wptr + 1 < VrRing
    BY <2>1, <2>2, VrMod
  <2>3. CASE ~(b.wptr + 1 < VrRing)
    BY <1>1, <2>1, <2>3, VrMod
  <2> QED BY <2>2, <2>3
<1>3. c = [data |-> [b.data EXCEPT ![b.wptr] = e], wptr |-> w,
           rptr |-> IF w - b.rptr >= VrRing - 1 THEN b.rptr + 1 ELSE b.rptr]
  BY DEF rsv_save_buff
<1> HIDE DEF c, w
<1>4. b.data \in [VrSlots -> VrSome] /\ b.wptr \in VrSlots /\ w \in VrSlots
  BY <1>1, <1>2 DEF VrBuffers, VrSlots
<1>5. c \in VrBuffers
  <2>1. c.rptr \in VrSlots
    BY <1>1, <1>2, <1>3 DEF VrSlots
  <2>2. [b.data EXCEPT ![b.wptr] = e] \in [VrSlots -> VrSome]
    BY <1>4
  <2> QED BY <1>3, <1>4, <2>1, <2>2 DEF VrBuffers
<1>6. ASSUME VrWaits(b) + 1 <= VrRing - 2
      PROVE  /\ VrWaits(c) = VrWaits(b) + 1
             /\ \A i \in 1..VrWaits(b) + 1 :
                  c.data[VrPlace(c, i)] = IF i = VrWaits(b) + 1 THEN e ELSE b.data[VrPlace(b, i)]
  <2>1. c.rptr = b.rptr /\ c.wptr = w
    BY <1>1, <1>2, <1>3, <1>6
  <2>2. VrWaits(c) = IF c.wptr >= c.rptr THEN c.wptr - c.rptr ELSE c.wptr - c.rptr + VrRing
    BY <1>5, VrPlaces
  <2>3. VrWaits(c) = VrWaits(b) + 1
    BY <1>1, <1>2, <1>6, <2>1, <2>2
  <2>4. ASSUME NEW i \in 1..VrWaits(b) + 1
        PROVE  c.data[VrPlace(c, i)] = IF i = VrWaits(b) + 1 THEN e ELSE b.data[VrPlace(b, i)]
    <3>1. i \in 1..VrRing
      BY <1>1, <1>6
    <3>2. VrPlace(c, i) = VrPlace(b, i)
      BY <2>1 DEF VrPlace
    <3>3. VrPlace(b, i) = IF b.rptr + i - 1 < VrRing THEN b.rptr + i - 1
                          ELSE b.rptr + i - 1 - VrRing
      BY <3>1, VrPlaces
    <3>4. VrPlace(b, i) \in VrSlots
      BY <1>1, <3>1, <3>3 DEF VrSlots
    <3>5. VrPlace(b, i) = b.wptr <=> i = VrWaits(b) + 1
      BY <1>1, <1>6, <3>1, <3>3
    <3>6. c.data = [b.data EXCEPT ![b.wptr] = e]
      BY <1>3
    <3> QED BY <1>4, <3>2, <3>4, <3>5, <3>6
  <2> QED BY <2>3, <2>4
<1> QED BY <1>5, <1>6 DEF c

\* The events of a frame.
LEMMA VrFrameKinds ==
  ASSUME NEW evs \in VrFrames
  PROVE  \/ evs = <<>>
         \/ \E e \in VrEvents : evs = <<e>>
         \/ \E k \in VrKeys : evs = <<VrEvent("repeat", k)>>
         \/ \E k, l \in VrKeys : evs = <<VrEvent("released", k), VrEvent("pressed", l)>>
  BY DEF VrFrames

LEMMA VrSavedRing ==
  ASSUME VrRingInv, NEW evs \in VrFrames
  PROVE  /\ VrSaved(data_buff, evs) \in VrBuffers
         /\ Stored(evs) \in Seq(VrSome)
         /\ Len(vr_queue \o Stored(evs)) <= VrRing - 2 =>
              /\ Len(vr_queue \o Stored(evs)) = VrWaits(VrSaved(data_buff, evs))
              /\ \A i \in 1..Len(vr_queue \o Stored(evs)) :
                   (vr_queue \o Stored(evs))[i] =
                     VrSaved(data_buff, evs).data[VrPlace(VrSaved(data_buff, evs), i)]
<1>1. /\ data_buff \in VrBuffers /\ vr_queue \in Seq(VrSome)
      /\ Len(vr_queue) = VrWaits(data_buff)
      /\ \A i \in 1..Len(vr_queue) : vr_queue[i] = data_buff.data[VrPlace(data_buff, i)]
  BY DEF VrRingInv
<1>2. CASE Stored(evs) = <<>>
  <2>1. VrSaved(data_buff, evs) = data_buff
    BY <1>2 DEF VrSaved
  <2>2. vr_queue \o Stored(evs) = vr_queue /\ Stored(evs) \in Seq(VrSome)
    BY <1>1, <1>2
  <2> QED BY <1>1, <2>1, <2>2
<1>3. ASSUME NEW e \in VrSome, Stored(evs) = <<e>>, evs = <<e>>
      PROVE  /\ VrSaved(data_buff, evs) \in VrBuffers
             /\ Stored(evs) \in Seq(VrSome)
             /\ Len(vr_queue \o Stored(evs)) <= VrRing - 2 =>
                  /\ Len(vr_queue \o Stored(evs)) = VrWaits(VrSaved(data_buff, evs))
                  /\ \A i \in 1..Len(vr_queue \o Stored(evs)) :
                       (vr_queue \o Stored(evs))[i] =
                         VrSaved(data_buff, evs).data[VrPlace(VrSaved(data_buff, evs), i)]
  <2> DEFINE c == rsv_save_buff(data_buff, e)
             q == vr_queue \o <<e>>
  <2>1. <<e>> # <<>> /\ Len(<<e>>) = 1 /\ <<e>>[1] = e /\ <<e>> \in Seq(VrSome)
    OBVIOUS
  <2>2. VrSaved(data_buff, evs) = c
    BY <1>3, <2>1 DEF VrSaved
  <2>3. /\ c \in VrBuffers
        /\ VrWaits(data_buff) + 1 <= VrRing - 2 =>
             /\ VrWaits(c) = VrWaits(data_buff) + 1
             /\ \A i \in 1..VrWaits(data_buff) + 1 :
                  c.data[VrPlace(c, i)] =
                    IF i = VrWaits(data_buff) + 1 THEN e ELSE data_buff.data[VrPlace(data_buff, i)]
    BY <1>1, VrPut
  <2>4. /\ Len(q) = Len(vr_queue) + 1
        /\ \A i \in 1..Len(q) : q[i] = IF i = Len(vr_queue) + 1 THEN e ELSE vr_queue[i]
    BY <1>1
  <2>5. Len(vr_queue) \in Nat
    BY <1>1
  <2> HIDE DEF c, q
  <2>6. ASSUME Len(q) <= VrRing - 2
        PROVE  Len(q) = VrWaits(c) /\ \A i \in 1..Len(q) : q[i] = c.data[VrPlace(c, i)]
    <3>1. ASSUME NEW i \in 1..Len(q)
          PROVE  q[i] = c.data[VrPlace(c, i)]
      <4>1. CASE i = Len(vr_queue) + 1
        BY <1>1, <2>3, <2>4, <2>6, <4>1
      <4>2. CASE i # Len(vr_queue) + 1
        <5>1. i \in 1..Len(vr_queue)
          BY <2>4, <2>5, <4>2
        <5> QED BY <1>1, <2>3, <2>4, <2>6, <4>2, <5>1
      <4> QED BY <4>1, <4>2
    <3> QED BY <1>1, <2>3, <2>4, <2>6, <3>1
  <2>7. vr_queue \o Stored(evs) = q
    BY <1>3 DEF q
  <2> QED BY <1>3, <2>1, <2>2, <2>3, <2>6, <2>7
<1>4. ASSUME NEW e \in VrSome, NEW f \in VrSome, Stored(evs) = <<e, f>>, evs = <<e, f>>
      PROVE  /\ VrSaved(data_buff, evs) \in VrBuffers
             /\ Stored(evs) \in Seq(VrSome)
             /\ Len(vr_queue \o Stored(evs)) <= VrRing - 2 =>
                  /\ Len(vr_queue \o Stored(evs)) = VrWaits(VrSaved(data_buff, evs))
                  /\ \A i \in 1..Len(vr_queue \o Stored(evs)) :
                       (vr_queue \o Stored(evs))[i] =
                         VrSaved(data_buff, evs).data[VrPlace(VrSaved(data_buff, evs), i)]
  <2> DEFINE b == rsv_save_buff(data_buff, e)
             c == rsv_save_buff(b, f)
             q == vr_queue \o <<e, f>>
  <2>1. <<e, f>> # <<>> /\ Len(<<e, f>>) = 2 /\ <<e, f>>[1] = e /\ <<e, f>>[2] = f
        /\ <<e, f>> \in Seq(VrSome)
    OBVIOUS
  <2>2. VrSaved(data_buff, evs) = c
    BY <1>4, <2>1 DEF VrSaved
  <2>3. /\ b \in VrBuffers
        /\ VrWaits(data_buff) + 1 <= VrRing - 2 =>
             /\ VrWaits(b) = VrWaits(data_buff) + 1
             /\ \A i \in 1..VrWaits(data_buff) + 1 :
                  b.data[VrPlace(b, i)] =
                    IF i = VrWaits(data_buff) + 1 THEN e ELSE data_buff.data[VrPlace(data_buff, i)]
    BY <1>1, VrPut
  <2>4. /\ Len(q) = Len(vr_queue) + 2
        /\ \A i \in 1..Len(q) : q[i] = IF i = Len(vr_queue) + 2 THEN f
                                     ELSE IF i = Len(vr_queue) + 1 THEN e ELSE vr_queue[i]
    BY <1>1
  <2>5. Len(vr_queue) \in Nat /\ VrRing \in Nat
    BY <1>1, VrConstants
  <2> HIDE DEF b, q
  <2>6. /\ c \in VrBuffers
        /\ VrWaits(b) + 1 <= VrRing - 2 =>
             /\ VrWaits(c) = VrWaits(b) + 1
             /\ \A i \in 1..VrWaits(b) + 1 :
                  c.data[VrPlace(c, i)] =
                    IF i = VrWaits(b) + 1 THEN f ELSE b.data[VrPlace(b, i)]
    BY <2>3, VrPut
  <2> HIDE DEF c
  <2>7. ASSUME Len(q) <= VrRing - 2
        PROVE  Len(q) = VrWaits(c) /\ \A i \in 1..Len(q) : q[i] = c.data[VrPlace(c, i)]
    <3>1. /\ VrWaits(data_buff) + 1 <= VrRing - 2 /\ VrWaits(b) = Len(vr_queue) + 1
          /\ VrWaits(b) + 1 <= VrRing - 2 /\ VrWaits(c) = Len(q)
      BY <1>1, <2>3, <2>4, <2>5, <2>6, <2>7
    <3>2. ASSUME NEW i \in 1..Len(q)
          PROVE  q[i] = c.data[VrPlace(c, i)]
      <4>1. CASE i = Len(vr_queue) + 2
        BY <2>4, <2>5, <2>6, <3>1, <4>1
      <4>2. CASE i = Len(vr_queue) + 1
        BY <1>1, <2>3, <2>4, <2>5, <2>6, <3>1, <4>2
      <4>3. CASE i # Len(vr_queue) + 1 /\ i # Len(vr_queue) + 2
        <5>1. i \in 1..Len(vr_queue)
          BY <2>4, <2>5, <4>3
        <5>2. q[i] = vr_queue[i] /\ vr_queue[i] = data_buff.data[VrPlace(data_buff, i)]
          BY <1>1, <2>4, <4>3, <5>1
        <5>3. i \in 1..VrWaits(data_buff) + 1 /\ i # VrWaits(data_buff) + 1
              /\ i \in 1..VrWaits(b) + 1 /\ i # VrWaits(b) + 1
          BY <1>1, <2>5, <3>1, <4>3, <5>1
        <5> QED BY <2>3, <2>6, <3>1, <5>2, <5>3
      <4> QED BY <4>1, <4>2, <4>3
    <3> QED BY <3>1, <3>2
  <2>8. vr_queue \o Stored(evs) = q
    BY <1>4 DEF q
  <2> QED BY <1>4, <2>1, <2>2, <2>6, <2>7, <2>8
<1>5. \/ Stored(evs) = <<>>
      \/ \E e \in VrSome : Stored(evs) = <<e>> /\ evs = <<e>>
      \/ \E e, f \in VrSome : Stored(evs) = <<e, f>> /\ evs = <<e, f>>
  <2>1. CASE evs = <<>>
    BY <2>1 DEF Stored
  <2>2. CASE \E e \in VrEvents : evs = <<e>>
    <3>1. PICK e \in VrEvents : evs = <<e>>
      BY <2>2
    <3>2. Last(evs) = e /\ e.kind # "repeat"
      BY <3>1 DEF Last, VrEvents
    <3> QED BY <3>1, <3>2 DEF Stored, VrSome
  <2>3. CASE \E k \in VrKeys : evs = <<VrEvent("repeat", k)>>
    <3>1. PICK k \in VrKeys : evs = <<VrEvent("repeat", k)>>
      BY <2>3
    <3>2. Last(evs).kind = "repeat" /\ evs # <<>>
      BY <3>1 DEF Last, VrEvent
    <3> QED BY <3>2 DEF Stored
  <2>4. CASE \E k, l \in VrKeys : evs = <<VrEvent("released", k), VrEvent("pressed", l)>>
    <3>1. PICK k \in VrKeys, l \in VrKeys :
            evs = <<VrEvent("released", k), VrEvent("pressed", l)>>
      BY <2>4
    <3>2. Last(evs).kind = "pressed"
      BY <3>1 DEF Last, VrEvent
    <3>3. VrEvent("released", k) \in VrSome /\ VrEvent("pressed", l) \in VrSome
      BY DEF VrEvent, VrEvents, VrSome
    <3> QED BY <3>1, <3>2, <3>3 DEF Stored
  <2> QED BY <2>1, <2>2, <2>3, <2>4, VrFrameKinds
<1> QED BY <1>2, <1>3, <1>4, <1>5
\* What waits is a queue of at most VrRing - 1 events.
LEMMA VrQueueFacts ==
  ASSUME NEW b \in VrBuffers, NEW q \in Seq(VrSome), Len(q) = VrWaits(b)
  PROVE  /\ Len(q) \in Nat /\ Len(q) <= VrRing - 1
         /\ q # <<>> <=> Len(q) > 0
         /\ q = <<>> <=> b.wptr = b.rptr
<1>1. /\ b.wptr \in Nat /\ b.rptr \in Nat /\ b.wptr < VrRing /\ b.rptr < VrRing
      /\ VrWaits(b) = IF b.wptr >= b.rptr THEN b.wptr - b.rptr ELSE b.wptr - b.rptr + VrRing
      /\ VrWaits(b) \in Nat /\ VrWaits(b) <= VrRing - 1
  BY VrPlaces
<1>2. q # <<>> <=> Len(q) > 0
  OBVIOUS
<1>3. VrWaits(b) > 0 <=> b.wptr # b.rptr
  BY <1>1, VrConstants
<1> QED BY <1>1, <1>2, <1>3

LEMMA VrWaitingFacts ==
  ASSUME NEW b \in VrBuffers
  PROVE  /\ VrWaiting(b) \in Seq(VrSome) /\ Len(VrWaiting(b)) = VrWaits(b)
         /\ \A i \in 1..VrWaits(b) : VrWaiting(b)[i] = b.data[VrPlace(b, i)]
<1>1. VrWaits(b) \in Nat /\ VrWaits(b) <= VrRing - 1 /\ VrRing \in Nat
  BY VrPlaces, VrConstants
<1>2. VrWaiting(b) = [i \in 1..VrWaits(b) |-> b.data[VrPlace(b, i)]]
  BY DEF VrWaiting, VrWaits, VrPlace
<1>3. ASSUME NEW i \in 1..VrWaits(b)
      PROVE  b.data[VrPlace(b, i)] \in VrSome
  <2>1. i \in 1..VrRing
    BY <1>1
  <2>2. VrPlace(b, i) \in VrSlots
    BY <2>1, VrPlaces, VrConstants DEF VrSlots
  <2> QED BY <2>2 DEF VrBuffers
<1>4. VrWaiting(b) \in [1..VrWaits(b) -> VrSome]
  BY <1>2, <1>3
<1> QED BY <1>1, <1>2, <1>4

LEMMA VrRingStep == VrRingInv /\ [VrNext]_vrVars => VrRingInv'
<1> SUFFICES ASSUME VrRingInv, [VrNext]_vrVars PROVE VrRingInv'
  OBVIOUS
<1>1. /\ data_buff \in VrBuffers /\ vr_queue \in Seq(VrSome)
      /\ Len(vr_queue) = VrWaits(data_buff)
      /\ \A i \in 1..Len(vr_queue) : vr_queue[i] = data_buff.data[VrPlace(data_buff, i)]
  BY DEF VrRingInv
<1>2. ASSUME NEW evs \in VrFrames, VrFrame(evs)
      PROVE  VrRingInv'
  <2> DEFINE b == VrSaved(data_buff, evs)
             q == vr_queue \o Stored(evs)
  <2>1. data_buff' = b /\ vr_queue' = IF Len(q) <= VrRing - 2 THEN q ELSE VrWaiting(b)
    BY <1>2 DEF VrFrame
  <2>2. /\ b \in VrBuffers /\ Stored(evs) \in Seq(VrSome)
        /\ Len(q) <= VrRing - 2 =>
             /\ Len(q) = VrWaits(b)
             /\ \A i \in 1..Len(q) : q[i] = b.data[VrPlace(b, i)]
    BY VrSavedRing
  <2>3. q \in Seq(VrSome)
    BY <1>1, <2>2
  <2>4. /\ VrWaiting(b) \in Seq(VrSome) /\ Len(VrWaiting(b)) = VrWaits(b)
        /\ \A i \in 1..VrWaits(b) : VrWaiting(b)[i] = b.data[VrPlace(b, i)]
    BY <2>2, VrWaitingFacts
  <2> HIDE DEF b, q
  <2>5. VrWaits(data_buff') = VrWaits(b) /\ \A i : VrPlace(data_buff', i) = VrPlace(b, i)
    BY <2>1
  <2> QED BY <2>1, <2>2, <2>3, <2>4, <2>5 DEF VrRingInv
<1>3. CASE VrPick
  <2>1. CASE UNCHANGED <<data_buff, vr_queue>>
    BY <2>1 DEF VrRingInv
  <2>2. CASE /\ data_buff.wptr # data_buff.rptr /\ vr_queue' = Tail(vr_queue)
             /\ data_buff' = [data_buff EXCEPT !.rptr = (data_buff.rptr + 1) % VrRing]
    <3> DEFINE c == [data_buff EXCEPT !.rptr = (data_buff.rptr + 1) % VrRing]
    <3>1. /\ data_buff.wptr \in Nat /\ data_buff.rptr \in Nat
          /\ data_buff.wptr < VrRing /\ data_buff.rptr < VrRing
          /\ VrWaits(data_buff) = IF data_buff.wptr >= data_buff.rptr
                                 THEN data_buff.wptr - data_buff.rptr
                                 ELSE data_buff.wptr - data_buff.rptr + VrRing
          /\ VrRing \in Nat /\ VrRing >= 3
      BY <1>1, VrPlaces, VrConstants
    <3>2. (data_buff.rptr + 1) % VrRing =
            IF data_buff.rptr + 1 < VrRing THEN data_buff.rptr + 1 ELSE 0
      <4>1. data_buff.rptr + 1 \in Nat /\ data_buff.rptr + 1 < 2 * VrRing
        BY <3>1
      <4>2. CASE data_buff.rptr + 1 < VrRing
        BY <4>1, <4>2, VrMod
      <4>3. CASE ~(data_buff.rptr + 1 < VrRing)
        BY <3>1, <4>1, <4>3, VrMod
      <4> QED BY <4>2, <4>3
    <3>3. /\ c.rptr = (IF data_buff.rptr + 1 < VrRing THEN data_buff.rptr + 1 ELSE 0)
          /\ c.wptr = data_buff.wptr /\ c.data = data_buff.data /\ c \in VrBuffers
      <4>1. (data_buff.rptr + 1) % VrRing \in VrSlots
        BY <3>1, <3>2 DEF VrSlots
      <4>2. c \in VrBuffers
        BY <1>1, <4>1 DEF VrBuffers
      <4>3. c.rptr = (data_buff.rptr + 1) % VrRing /\ c.wptr = data_buff.wptr
        BY <1>1 DEF VrBuffers
      <4>4. c.data = data_buff.data
        BY <1>1 DEF VrBuffers
      <4> QED BY <3>2, <4>2, <4>3, <4>4
    <3> HIDE DEF c
    <3>4. VrWaits(c) = IF c.wptr >= c.rptr THEN c.wptr - c.rptr ELSE c.wptr - c.rptr + VrRing
      BY <3>3, VrPlaces
    <3>5. VrWaits(c) = VrWaits(data_buff) - 1 /\ VrWaits(data_buff) \in Nat
          /\ VrWaits(data_buff) >= 1 /\ VrWaits(data_buff) <= VrRing - 1
      <4>1. VrWaits(data_buff) \in Nat /\ VrWaits(data_buff) >= 1
            /\ VrWaits(data_buff) <= VrRing - 1
        BY <2>2, <3>1
      <4>2. CASE data_buff.rptr + 1 < VrRing
        <5>1. c.rptr = data_buff.rptr + 1 /\ c.wptr = data_buff.wptr
          BY <3>3, <4>2
        <5>2. CASE data_buff.wptr >= data_buff.rptr
          <6>1. VrWaits(data_buff) = data_buff.wptr - data_buff.rptr
            BY <3>1, <5>2
          <6>2. c.wptr >= c.rptr
            BY <3>1, <4>1, <5>1, <6>1
          <6>3. VrWaits(c) = c.wptr - c.rptr
            BY <3>4, <6>2
          <6> QED BY <3>1, <4>1, <5>1, <6>1, <6>3
        <5>3. CASE ~(data_buff.wptr >= data_buff.rptr)
          <6>1. ~(c.wptr >= c.rptr)
            BY <3>1, <5>1, <5>3
          <6>2. VrWaits(c) = c.wptr - c.rptr + VrRing
            BY <3>4, <6>1
          <6>3. VrWaits(data_buff) = data_buff.wptr - data_buff.rptr + VrRing
            BY <3>1, <5>3
          <6> QED BY <3>1, <4>1, <5>1, <6>2, <6>3
        <5> QED BY <5>2, <5>3
      <4>3. CASE ~(data_buff.rptr + 1 < VrRing)
        <5>1. c.rptr = 0 /\ c.wptr = data_buff.wptr /\ data_buff.rptr = VrRing - 1
          BY <3>1, <3>3, <4>3
        <5>2. ~(data_buff.wptr >= data_buff.rptr) /\ c.wptr >= c.rptr
          BY <2>2, <3>1, <5>1
        <5> QED BY <3>1, <3>4, <4>1, <5>1, <5>2
      <4> QED BY <4>1, <4>2, <4>3
    <3>6. /\ Tail(vr_queue) \in Seq(VrSome) /\ Len(Tail(vr_queue)) = Len(vr_queue) - 1
          /\ \A i \in 1..Len(vr_queue) - 1 : Tail(vr_queue)[i] = vr_queue[i + 1]
      <4>1. vr_queue # <<>>
        BY <1>1, <3>5
      <4> QED BY <1>1, <4>1
    <3>7. ASSUME NEW i \in 1..VrWaits(data_buff) - 1
          PROVE  Tail(vr_queue)[i] = c.data[VrPlace(c, i)]
      <4>1. i + 1 \in 1..VrWaits(data_buff) /\ i \in 1..VrRing /\ i + 1 \in 1..VrRing
        BY <3>1, <3>5
      <4>2. VrPlace(c, i) = IF c.rptr + i - 1 < VrRing THEN c.rptr + i - 1
                            ELSE c.rptr + i - 1 - VrRing
        BY <3>3, <4>1, VrPlaces
      <4>3. VrPlace(data_buff, i + 1) =
              IF data_buff.rptr + (i + 1) - 1 < VrRing THEN data_buff.rptr + (i + 1) - 1
              ELSE data_buff.rptr + (i + 1) - 1 - VrRing
        BY <1>1, <4>1, VrPlaces
      <4>4. VrPlace(c, i) = VrPlace(data_buff, i + 1)
        BY <3>1, <3>3, <4>1, <4>2, <4>3
      <4> QED BY <1>1, <3>3, <3>6, <4>1, <4>4
    <3>8. data_buff' = c
      BY <2>2 DEF c
    <3>9. VrWaits(data_buff') = VrWaits(c) /\ \A i : VrPlace(data_buff', i) = VrPlace(c, i)
      BY <3>8
    <3> QED BY <1>1, <2>2, <3>3, <3>5, <3>6, <3>7, <3>8, <3>9 DEF VrRingInv
  <2> QED BY <1>3, <2>1, <2>2 DEF VrPick
<1>4. CASE \/ VrTop \/ VrTick \/ VrRelease \/ VrTransmit \/ VrCount \/ VrCounted \/ VrSleep
           \/ UNCHANGED vrVars
  <2>1. UNCHANGED <<data_buff, vr_queue>>
    BY <1>4 DEF VrTop, VrTick, VrRelease, VrTransmit, VrCount, VrCounted, VrSleep, vrVars
  <2> QED BY <2>1 DEF VrRingInv
<1> QED BY <1>2, <1>3, <1>4 DEF VrNext

\* The counters: a key is released once it has been held long enough, and nothing is counted in
\* suspend.
LEMMA VrTimesStep ==
  ASSUME VrTypeOK, VrTimes, [VrNext]_vrVars
  PROVE  VrTimes'
<1>1. /\ VR_RELEASE \in Nat /\ VR_SUSPEND \in Nat /\ VR_SUSPEND >= VR_RELEASE + 2
      /\ vr_load \in Nat /\ vr_load <= VR_SUSPEND
      /\ vr_pc = "tick" => vr_load <= VR_RELEASE + 1
      /\ vr_release \in Nat /\ vr_release <= VR_RELEASE + 2
      /\ suspend_cnt \in Nat /\ suspend_cnt <= VR_SUSPEND + 1
      /\ not_release_flg \in BOOLEAN /\ suspended \in BOOLEAN
      /\ vr_pc \in {"top", "tick", "release", "send", "transmit", "count", "counted", "sleep"}
      /\ not_release_flg /\ vr_pc # "release" => vr_release <= VR_RELEASE + 1
      /\ suspended => vr_pc = "top"
      /\ ~suspended /\ vr_pc # "sleep" => suspend_cnt <= VR_SUSPEND
  BY VrConstants DEF VrTypeOK, VrTimes
<1>2. SUFFICES /\ vr_release' \in Nat /\ vr_release' <= VR_RELEASE + 2
               /\ suspend_cnt' \in Nat /\ suspend_cnt' <= VR_SUSPEND + 1
               /\ not_release_flg' /\ vr_pc' # "release" => vr_release' <= VR_RELEASE + 1
               /\ suspended' => vr_pc' = "top"
               /\ ~suspended' /\ vr_pc' # "sleep" => suspend_cnt' <= VR_SUSPEND
               /\ vr_load' \in Nat /\ vr_load' <= VR_SUSPEND
               /\ vr_pc' = "tick" => vr_load' <= VR_RELEASE + 1
  BY <1>1 DEF VrTimes
<1>3. CASE \E evs \in VrFrames : VrFrame(evs)
  <2>1. /\ suspend_cnt' = 0 /\ suspended' = FALSE /\ vr_release' = 0
        /\ vr_pc' = vr_pc /\ vr_load' = vr_load
    BY <1>3 DEF VrFrame
  <2> QED BY <1>1, <2>1
<1>4. CASE VrTop
  BY <1>1, <1>4 DEF VrTop, vrReleaseVars
<1>11. CASE VrTick
  BY <1>1, <1>11 DEF VrTick
<1>12. CASE VrCounted
  BY <1>1, <1>12 DEF VrCounted, vrReleaseVars
<1>5. CASE VrRelease
  BY <1>1, <1>5 DEF VrRelease
<1>6. CASE VrPick
  BY <1>1, <1>6 DEF VrPick
<1>7. CASE VrTransmit
  BY <1>1, <1>7 DEF VrTransmit, vrReleaseVars
<1>8. CASE VrCount
  BY <1>1, <1>8 DEF VrCount, vrReleaseVars
<1>9. CASE VrSleep
  BY <1>1, <1>9 DEF VrSleep, vrReleaseVars
<1>10. CASE UNCHANGED vrVars
  BY <1>1, <1>10 DEF vrVars, vrReleaseVars
<1> QED BY <1>3, <1>4, <1>5, <1>6, <1>7, <1>8, <1>9, <1>10, <1>11, <1>12 DEF VrNext

LEMMA VrTypeStep ==
  ASSUME VrTypeOK, VrRingInv, VrRingInv', VrTimes', [VrNext]_vrVars
  PROVE  VrTypeOK'
<1>1. /\ KeySave \in VrKeys \cup {NoVrKey} /\ vr_held \in VrKeys \cup {NoVrKey}
      /\ vr_pkt \in [kind : {"none", "pressed", "released"}, key : VrKeys \cup {NoVrKey}]
      /\ vr_pc \in {"top", "tick", "release", "send", "transmit", "count", "counted", "sleep"}
      /\ {not_release_flg, send_p_flg, suspended, vr_spoilt} \subseteq BOOLEAN
  BY DEF VrTypeOK
<1>2. /\ data_buff' \in [data : [VrSlots -> VrEvents \cup {NoVrEvent}], wptr : VrSlots,
                         rptr : VrSlots]
      /\ Len(vr_queue') \in VrSlots
      /\ vr_release' \in 0..VR_RELEASE + 2 /\ suspend_cnt' \in 0..VR_SUSPEND + 1
      /\ vr_load' \in 0..VR_SUSPEND
  <2>1. Len(vr_queue') = VrWaits(data_buff') /\ data_buff' \in VrBuffers
    BY DEF VrRingInv
  <2>2. VrWaits(data_buff') \in Nat /\ VrWaits(data_buff') <= VrRing - 1
    BY <2>1, VrPlaces
  <2> QED BY <2>1, <2>2, VrConstants DEF VrTimes, VrSlots, VrBuffers, VrSome
<1>3. SUFFICES
      /\ KeySave' \in VrKeys \cup {NoVrKey} /\ vr_held' \in VrKeys \cup {NoVrKey}
      /\ vr_pkt' \in [kind : {"none", "pressed", "released"}, key : VrKeys \cup {NoVrKey}]
      /\ vr_pc' \in {"top", "tick", "release", "send", "transmit", "count", "counted", "sleep"}
      /\ {not_release_flg', send_p_flg', suspended', vr_spoilt'} \subseteq BOOLEAN
  BY <1>2 DEF VrTypeOK
<1>4. VrSome \subseteq [kind : {"none", "pressed", "released"}, key : VrKeys \cup {NoVrKey}]
  BY DEF VrSome, VrEvents, NoVrEvent, VrEvent
<1>5. ASSUME NEW evs \in VrFrames, VrFrame(evs)
      PROVE  /\ KeySave' \in VrKeys \cup {NoVrKey} /\ not_release_flg' \in BOOLEAN
             /\ UNCHANGED <<send_p_flg, vr_pc, vr_pkt, vr_held>> /\ suspended' = FALSE
             /\ vr_spoilt' \in BOOLEAN
  <2>1. /\ KeySave' = (IF evs # <<>> /\ Last(evs).kind = "pressed" THEN Last(evs).key ELSE KeySave)
        /\ not_release_flg' = (IF evs = <<>> THEN not_release_flg ELSE Last(evs).kind # "released")
    BY <1>5 DEF VrFrame, callback_vacuum
  <2>2. evs # <<>> => Last(evs).key \in VrKeys
    <3>1. CASE evs = <<>>
      BY <3>1
    <3>2. CASE \E e \in VrEvents : evs = <<e>>
      BY <3>2 DEF Last, VrEvents
    <3>3. CASE \E k \in VrKeys : evs = <<VrEvent("repeat", k)>>
      BY <3>3 DEF Last, VrEvent
    <3>4. CASE \E k, l \in VrKeys : evs = <<VrEvent("released", k), VrEvent("pressed", l)>>
      BY <3>4 DEF Last, VrEvent
    <3> QED BY <3>1, <3>2, <3>3, <3>4, VrFrameKinds
  <2>3. KeySave' \in VrKeys \cup {NoVrKey} /\ not_release_flg' \in BOOLEAN
    BY <1>1, <2>1, <2>2
  <2>4. /\ UNCHANGED <<send_p_flg, vr_pc, vr_pkt, vr_held>> /\ suspended' = FALSE
        /\ vr_spoilt' \in BOOLEAN
    BY <1>5 DEF VrFrame
  <2> QED BY <2>3, <2>4
<1>6. CASE \E evs \in VrFrames : VrFrame(evs)
  BY <1>1, <1>5, <1>6
<1>7. CASE VrTop \/ VrTick \/ VrRelease \/ VrCount \/ VrCounted \/ VrSleep \/ UNCHANGED vrVars
  BY <1>1, <1>7
     DEF VrTop, VrTick, VrRelease, VrCount, VrCounted, VrSleep, vrVars, vrReleaseVars
<1>8. CASE VrPick
  <2>1. data_buff.data[data_buff.rptr] \in VrSome
    BY DEF VrRingInv, VrBuffers
  <2>2. VrEvent("released", KeySave) \in
          [kind : {"none", "pressed", "released"}, key : VrKeys \cup {NoVrKey}]
    BY <1>1 DEF VrEvent
  <2> QED BY <1>1, <1>4, <1>8, <2>1, <2>2 DEF VrPick
<1>9. CASE VrTransmit
  BY <1>1, <1>4, <1>9 DEF VrTransmit, vrReleaseVars, VrSome
<1> QED BY <1>6, <1>7, <1>8, <1>9 DEF VrNext

-----------------------------------------------------------------------------
\* A frame that spoils nothing stands behind all that waits; what the cleaner will know when all
\* is sent is what the frame says.
LEMMA VrOrderlyFrame ==
  ASSUME VrTypeOK, VrRingInv, VrRingInv', VrOrderly, NEW evs \in VrFrames, VrFrame(evs),
         ~vr_spoilt'
  PROVE  VrDrains' /\ VrPassed' /\ VrLoaded' /\ VrReleases'
<1>1. /\ vr_spoilt \in BOOLEAN /\ send_p_flg \in BOOLEAN /\ not_release_flg \in BOOLEAN
      /\ suspend_cnt' = 0 /\ suspended' = FALSE /\ vr_release' = 0
      /\ send_p_flg' = send_p_flg /\ vr_pc' = vr_pc /\ vr_pkt' = vr_pkt /\ vr_held' = vr_held
  BY DEF VrTypeOK, VrFrame
<1>2. ~vr_spoilt /\ vr_pc \notin {"tick", "release", "counted", "sleep"} /\ ~send_p_flg
      /\ vr_queue' = vr_queue \o Stored(evs)
  BY DEF VrFrame
<1>3. VrReleases
  BY <1>2 DEF VrOrderly
<1>4. /\ vr_queue \in Seq(VrSome) /\ vr_queue' \in Seq(VrSome)
      /\ Len(vr_queue') \in Nat /\ Len(vr_queue') <= VrRing - 1
  BY VrQueueFacts DEF VrRingInv
<1>5. VrDrains' /\ VrPassed' /\ VrLoaded'
  BY <1>1, <1>2, <1>4, VrConstants DEF VrDrains, VrPassed, VrLoaded
<1>6. /\ KeySave' = (IF evs # <<>> /\ Last(evs).kind = "pressed" THEN Last(evs).key ELSE KeySave)
      /\ not_release_flg' = (IF evs = <<>> THEN not_release_flg ELSE Last(evs).kind # "released")
  BY DEF VrFrame, callback_vacuum
<1>7. VrFinal \in {NoVrKey, KeySave} /\ (~not_release_flg => VrFinal = NoVrKey)
  BY <1>2, <1>3 DEF VrReleases
<1>8. VrFinal' \in {NoVrKey, KeySave'} /\ (~not_release_flg' => VrFinal' = NoVrKey)
  <2>1. CASE evs = <<>>
    <3>1. KeySave' = KeySave /\ not_release_flg' = not_release_flg /\ Stored(evs) = <<>>
      BY <1>6, <2>1 DEF Stored
    <3>2. VrFinal' = VrFinal
      BY <1>1, <1>2, <1>4, <3>1 DEF VrFinal
    <3> QED BY <1>7, <3>1, <3>2
  <2>2. CASE \E k \in VrKeys : evs = <<VrEvent("repeat", k)>>
    <3>1. Last(evs).kind = "repeat" /\ evs # <<>>
      BY <2>2 DEF Last, VrEvent
    <3>2. KeySave' = KeySave /\ not_release_flg' = TRUE /\ Stored(evs) = <<>>
      BY <1>6, <3>1 DEF Stored
    <3>3. VrFinal' = VrFinal
      BY <1>1, <1>2, <1>4, <3>2 DEF VrFinal
    <3> QED BY <1>7, <3>2, <3>3
  <2>3. ASSUME NEW e \in VrEvents, Last(evs) = e, evs # <<>>,
               \/ evs = <<e>>
               \/ \E k \in VrKeys : evs = <<VrEvent("released", k), e>>
        PROVE  VrFinal' \in {NoVrKey, KeySave'} /\ (~not_release_flg' => VrFinal' = NoVrKey)
    <3>1. e.kind \in {"pressed", "released"}
      BY DEF VrEvents
    <3>2. Stored(evs) = evs
      BY <2>3, <3>1 DEF Stored
    <3>3. vr_queue' # <<>> /\ vr_queue'[Len(vr_queue')] = e
      <4>1. CASE evs = <<e>>
        BY <1>2, <1>4, <3>2, <4>1
      <4>2. CASE \E k \in VrKeys : evs = <<VrEvent("released", k), e>>
        BY <1>2, <1>4, <3>2, <4>2
      <4> QED BY <2>3, <4>1, <4>2
    <3>4. VrFinal' = VrAfter(e)
      BY <3>3 DEF VrFinal
    <3> QED BY <1>6, <2>3, <3>1, <3>4 DEF VrAfter
  <2>4. CASE \E e \in VrEvents : evs = <<e>>
    <3>1. PICK e \in VrEvents : evs = <<e>>
      BY <2>4
    <3>2. Last(evs) = e /\ evs # <<>>
      BY <3>1 DEF Last
    <3> QED BY <2>3, <3>1, <3>2
  <2>5. CASE \E k, l \in VrKeys : evs = <<VrEvent("released", k), VrEvent("pressed", l)>>
    <3>1. PICK k \in VrKeys, l \in VrKeys :
            evs = <<VrEvent("released", k), VrEvent("pressed", l)>>
      BY <2>5
    <3>2. Last(evs) = VrEvent("pressed", l) /\ evs # <<>>
      BY <3>1 DEF Last
    <3>3. VrEvent("pressed", l) \in VrEvents
      BY DEF VrEvent, VrEvents
    <3> QED BY <2>3, <3>1, <3>2, <3>3
  <2> QED BY <2>1, <2>2, <2>4, <2>5, VrFrameKinds
<1> QED BY <1>1, <1>2, <1>5, <1>8 DEF VrReleases

LEMMA VrOrderlyStep ==
  ASSUME VrTypeOK, VrRingInv, VrRingInv', VrTimes, VrTimes', VrOrderly, [VrNext]_vrVars
  PROVE  VrOrderly'
<1> SUFFICES ASSUME ~vr_spoilt' PROVE VrDrains' /\ VrPassed' /\ VrLoaded' /\ VrReleases'
  BY DEF VrOrderly
<1>1. CASE \E evs \in VrFrames : VrFrame(evs)
  BY <1>1, VrOrderlyFrame
<1>0. vr_spoilt \in BOOLEAN
  BY DEF VrTypeOK
<1> DEFINE Passes == \/ VrTop \/ VrTick \/ VrRelease \/ VrPick \/ VrTransmit \/ VrCount
                     \/ VrCounted \/ VrSleep \/ UNCHANGED vrVars
<1>13. Passes => vr_spoilt' = vr_spoilt
  BY DEF VrTop, VrTick, VrRelease, VrPick, VrTransmit, VrCount, VrCounted, VrSleep, vrVars
<1>2. SUFFICES ASSUME ~vr_spoilt, Passes
               PROVE  VrDrains' /\ VrPassed' /\ VrLoaded' /\ VrReleases'
  BY <1>0, <1>1, <1>13 DEF VrNext
<1>3. VrDrains /\ VrPassed /\ VrLoaded /\ VrReleases
  BY <1>2 DEF VrOrderly
<1>4. /\ VR_RELEASE \in Nat /\ VR_SUSPEND \in Nat /\ VrRing \in Nat
      /\ VR_RELEASE >= VrRing - 2 /\ VR_SUSPEND >= VR_RELEASE + 2
      /\ vr_release \in Nat /\ suspend_cnt \in Nat
      /\ not_release_flg \in BOOLEAN /\ send_p_flg \in BOOLEAN /\ suspended \in BOOLEAN
      /\ suspended => vr_pc = "top"
      /\ not_release_flg /\ vr_pc # "release" => vr_release <= VR_RELEASE + 1
  BY VrConstants DEF VrTypeOK, VrTimes
<1>5. /\ vr_queue \in Seq(VrSome)
      /\ Len(vr_queue) \in Nat /\ (vr_queue # <<>> <=> Len(vr_queue) > 0)
      /\ vr_queue = <<>> <=> data_buff.wptr = data_buff.rptr
  BY VrQueueFacts DEF VrRingInv
<1>6. CASE VrTop
  <2>1. /\ vr_queue' = vr_queue /\ suspend_cnt' = suspend_cnt /\ suspended' = FALSE
        /\ send_p_flg' = send_p_flg /\ not_release_flg' = not_release_flg /\ KeySave' = KeySave
        /\ vr_pc = "top" /\ vr_pkt' = vr_pkt /\ vr_held' = vr_held /\ vr_release' = vr_release
        /\ vr_load' = (IF not_release_flg THEN vr_release ELSE vr_load)
        /\ vr_pc' = (IF not_release_flg THEN "tick" ELSE "send")
    BY <1>6 DEF VrTop, vrReleaseVars
  <2>2. VrFinal' = VrFinal
    BY <2>1 DEF VrFinal
  <2>3. VrDrains' /\ VrPassed' /\ VrLoaded'
    BY <1>3, <2>1 DEF VrDrains, VrPassed, VrLoaded
  <2> QED BY <1>3, <2>1, <2>2, <2>3 DEF VrReleases
<1>14. CASE VrTick
  <2>1. /\ vr_queue' = vr_queue /\ suspend_cnt' = suspend_cnt /\ suspended' = suspended
        /\ send_p_flg' = send_p_flg /\ not_release_flg' = not_release_flg /\ KeySave' = KeySave
        /\ vr_pc = "tick" /\ vr_pkt' = vr_pkt /\ vr_held' = vr_held
        /\ vr_release' = vr_load + 1
        /\ vr_pc' = (IF vr_load > VR_RELEASE THEN "release" ELSE "send")
    BY <1>14 DEF VrTick
  <2>7. vr_load = vr_release /\ not_release_flg /\ suspended = FALSE
    BY <1>3, <1>4, <2>1 DEF VrLoaded
  <2>2. VrFinal' = VrFinal
    BY <2>1 DEF VrFinal
  <2>3. vr_pc' = "release" => vr_queue = <<>> /\ not_release_flg
    BY <1>3, <1>4, <1>5, <2>1, <2>7 DEF VrDrains
  <2>4. VrDrains'
    BY <1>3, <1>4, <1>5, <2>1, <2>3, <2>7 DEF VrDrains
  <2>5. VrPassed' /\ VrLoaded'
    BY <1>3, <1>4, <2>1, <2>7 DEF VrPassed, VrLoaded
  <2>6. VrReleases'
    BY <1>3, <2>1, <2>2, <2>3, <2>7 DEF VrReleases
  <2> QED BY <2>4, <2>5, <2>6
<1>7. CASE VrRelease
  <2>1. /\ vr_queue' = vr_queue /\ suspended' = suspended
        /\ send_p_flg' = TRUE /\ not_release_flg' = FALSE /\ KeySave' = KeySave
        /\ vr_pc = "release" /\ vr_pkt' = vr_pkt /\ vr_held' = vr_held /\ vr_pc' = "send"
    BY <1>7 DEF VrRelease
  <2>2. VrFinal' = VrFinal
    BY <2>1 DEF VrFinal
  <2>3. vr_queue = <<>> /\ suspended = FALSE
    BY <1>3, <1>4, <2>1 DEF VrReleases
  <2> QED BY <1>3, <2>1, <2>2, <2>3 DEF VrDrains, VrPassed, VrLoaded, VrReleases
<1>8. CASE VrPick
  <2>1. /\ vr_pc = "send" /\ KeySave' = KeySave /\ not_release_flg' = not_release_flg
        /\ vr_release' = vr_release /\ suspend_cnt' = suspend_cnt /\ suspended' = suspended
        /\ vr_held' = vr_held
    BY <1>8 DEF VrPick
  <2>2. suspended = FALSE
    BY <1>4, <2>1
  <2>3. CASE send_p_flg
    <3>1. /\ vr_pkt' = VrEvent("released", KeySave) /\ send_p_flg' = FALSE
          /\ vr_pc' = "transmit" /\ vr_queue' = vr_queue
      BY <1>8, <2>3 DEF VrPick
    <3>2. vr_queue = <<>> /\ ~not_release_flg
      BY <1>3, <2>3 DEF VrReleases
    <3>3. VrFinal' = NoVrKey
      BY <3>1, <3>2 DEF VrFinal, VrAfter, VrEvent
    <3> QED BY <2>1, <2>2, <3>1, <3>2, <3>3 DEF VrDrains, VrPassed, VrLoaded, VrReleases
  <2>4. CASE ~send_p_flg /\ data_buff.wptr # data_buff.rptr
    <3>1. /\ vr_pkt' = data_buff.data[data_buff.rptr] /\ send_p_flg' = send_p_flg
          /\ vr_pc' = "transmit" /\ vr_queue' = Tail(vr_queue)
      BY <1>8, <2>4 DEF VrPick
    <3>2. vr_queue # <<>> /\ Len(vr_queue) >= 1
      BY <1>5, <2>4
    <3>3. vr_pkt' = vr_queue[1]
      <4>1. data_buff \in VrBuffers /\ vr_queue[1] = data_buff.data[VrPlace(data_buff, 1)]
        BY <1>5, <3>2 DEF VrRingInv
      <4>2. VrPlace(data_buff, 1) = data_buff.rptr
        BY <1>4, <4>1, VrPlaces, VrConstants
      <4> QED BY <3>1, <4>1, <4>2
    <3>4. /\ Len(Tail(vr_queue)) = Len(vr_queue) - 1
          /\ Tail(vr_queue) = <<>> <=> Len(vr_queue) = 1
          /\ \A i \in 1..Len(vr_queue) - 1 : Tail(vr_queue)[i] = vr_queue[i + 1]
      <4>1. Tail(vr_queue) \in Seq(VrSome) /\ Len(Tail(vr_queue)) = Len(vr_queue) - 1
        BY <1>5, <3>2
      <4>2. ASSUME NEW i \in 1..Len(vr_queue) - 1
            PROVE  Tail(vr_queue)[i] = vr_queue[i + 1]
        BY <1>5, <3>2, <4>2
      <4>3. Tail(vr_queue) = <<>> <=> Len(Tail(vr_queue)) = 0
        <5>1. \A t \in Seq(VrSome) : t = <<>> <=> Len(t) = 0
          OBVIOUS
        <5> QED BY <4>1, <5>1
      <4>4. Len(vr_queue) - 1 = 0 <=> Len(vr_queue) = 1
        BY <1>5
      <4> QED BY <4>1, <4>2, <4>3, <4>4
    <3>5. VrFinal' = VrFinal
      <4>1. VrFinal = VrAfter(vr_queue[Len(vr_queue)])
        BY <3>2 DEF VrFinal
      <4>2. CASE Len(vr_queue) = 1
        BY <3>1, <3>3, <3>4, <4>1, <4>2 DEF VrFinal
      <4>3. CASE Len(vr_queue) # 1
        <5>1. Len(vr_queue) - 1 \in 1..Len(vr_queue) - 1
          <6> DEFINE n == Len(vr_queue)
          <6>1. n \in Nat /\ n >= 1 /\ n # 1
            BY <1>5, <3>2, <4>3
          <6> HIDE DEF n
          <6>2. n - 1 \in 1..n - 1
            BY <6>1
          <6> QED BY <6>2 DEF n
        <5>2. Tail(vr_queue)[Len(vr_queue) - 1] = vr_queue[Len(vr_queue)]
          BY <1>5, <3>4, <5>1
        <5>3. VrFinal' = VrAfter(Tail(vr_queue)[Len(Tail(vr_queue))])
          BY <3>1, <3>4, <4>3 DEF VrFinal
        <5> QED BY <3>4, <4>1, <5>2, <5>3
      <4> QED BY <4>2, <4>3
    <3>6. VrDrains'
      <4>1. /\ not_release_flg => Len(vr_queue) + vr_release <= VrRing
            /\ Len(vr_queue) + suspend_cnt <= VrRing
        BY <1>3, <2>1, <3>2 DEF VrDrains
      <4>2. Len(vr_queue') = Len(vr_queue) - 1
        BY <3>1, <3>4
      <4>3. SUFFICES /\ not_release_flg => Len(vr_queue) - 1 + vr_release <= VrRing - 1
                     /\ Len(vr_queue) - 1 + suspend_cnt <= VrRing - 1
        BY <2>1, <3>1, <4>2 DEF VrDrains
      <4> QED BY <1>4, <1>5, <4>1
    <3>7. VrPassed'
      BY <1>3, <2>1, <3>1 DEF VrPassed
    <3> QED BY <1>3, <2>1, <2>2, <2>4, <3>1, <3>5, <3>6, <3>7 DEF VrReleases, VrLoaded
  <2>5. CASE ~send_p_flg /\ data_buff.wptr = data_buff.rptr
    <3>1. send_p_flg' = send_p_flg /\ vr_pc' = "count" /\ vr_queue' = vr_queue
      BY <1>8, <2>5 DEF VrPick
    <3>2. vr_queue = <<>>
      BY <1>5, <2>5
    <3>3. VrFinal' = VrFinal
      BY <2>1, <3>1, <3>2 DEF VrFinal
    <3> QED BY <1>3, <2>1, <2>2, <2>5, <3>1, <3>2, <3>3 DEF VrDrains, VrPassed, VrLoaded, VrReleases
  <2> QED BY <1>4, <2>3, <2>4, <2>5
<1>9. CASE VrTransmit
  <2>1. /\ vr_queue' = vr_queue /\ suspended' = suspended /\ suspend_cnt' = suspend_cnt
        /\ send_p_flg' = send_p_flg /\ not_release_flg' = not_release_flg /\ KeySave' = KeySave
        /\ vr_release' = vr_release /\ vr_pc = "transmit" /\ vr_pc' = "count"
        /\ vr_held' = VrAfter(vr_pkt)
    BY <1>9 DEF VrTransmit, vrReleaseVars, VrAfter
  <2>2. VrFinal' = VrFinal
    BY <2>1 DEF VrFinal
  <2>3. VrDrains' /\ VrPassed'
    BY <1>3, <2>1 DEF VrDrains, VrPassed
  <2> QED BY <1>3, <1>4, <2>1, <2>2, <2>3 DEF VrReleases, VrLoaded
<1>10. CASE VrCount
  <2>1. /\ vr_queue' = vr_queue /\ suspended' = suspended /\ suspend_cnt' = suspend_cnt
        /\ send_p_flg' = send_p_flg /\ not_release_flg' = not_release_flg /\ KeySave' = KeySave
        /\ vr_release' = vr_release /\ vr_pc = "count" /\ vr_held' = vr_held
        /\ vr_pc' = "counted" /\ vr_load' = suspend_cnt
    BY <1>10 DEF VrCount, vrReleaseVars
  <2>2. VrFinal' = VrFinal
    BY <2>1 DEF VrFinal
  <2> QED BY <1>3, <1>4, <2>1, <2>2 DEF VrDrains, VrPassed, VrLoaded, VrReleases
<1>15. CASE VrCounted
  <2>1. /\ vr_queue' = vr_queue /\ suspended' = suspended /\ suspend_cnt' = vr_load + 1
        /\ send_p_flg' = send_p_flg /\ not_release_flg' = not_release_flg /\ KeySave' = KeySave
        /\ vr_release' = vr_release /\ vr_pc = "counted" /\ vr_held' = vr_held
        /\ vr_pc' = (IF vr_load + 1 > VR_SUSPEND THEN "sleep" ELSE "top")
    BY <1>15 DEF VrCounted, vrReleaseVars
  <2>7. vr_load = suspend_cnt
    BY <1>3, <2>1 DEF VrLoaded
  <2>2. VrFinal' = VrFinal
    BY <2>1 DEF VrFinal
  <2>3. /\ not_release_flg => suspend_cnt <= vr_release /\ vr_release <= VR_RELEASE + 1
        /\ vr_queue # <<>> => Len(vr_queue) + suspend_cnt <= VrRing - 1
    BY <1>3, <1>4, <2>1 DEF VrDrains, VrPassed
  <2>4. vr_pc' = "sleep" => vr_queue = <<>> /\ ~not_release_flg
    BY <1>4, <1>5, <2>1, <2>3, <2>7
  <2>5. VrDrains'
    <3>1. vr_queue # <<>> => Len(vr_queue) + (suspend_cnt + 1) <= VrRing
      BY <1>4, <1>5, <2>3
    <3>2. vr_queue # <<>> /\ not_release_flg => Len(vr_queue) + vr_release <= VrRing - 1
      BY <1>3, <2>1 DEF VrDrains
    <3> QED BY <2>1, <2>7, <3>1, <3>2 DEF VrDrains
  <2>6. VrPassed' /\ VrLoaded'
    BY <1>4, <2>1, <2>3, <2>4, <2>7 DEF VrPassed, VrLoaded
  <2> QED BY <1>3, <1>4, <2>1, <2>2, <2>4, <2>5, <2>6 DEF VrReleases
<1>11. CASE VrSleep
  <2>1. /\ vr_queue' = vr_queue /\ suspended' = TRUE
        /\ send_p_flg' = send_p_flg /\ not_release_flg' = not_release_flg /\ KeySave' = KeySave
        /\ vr_pc = "sleep" /\ vr_pc' = "top" /\ vr_held' = vr_held /\ vr_pkt' = vr_pkt
    BY <1>11 DEF VrSleep, vrReleaseVars
  <2>2. VrFinal' = VrFinal
    BY <2>1 DEF VrFinal
  <2>3. vr_queue = <<>> /\ ~not_release_flg /\ ~send_p_flg
    BY <1>3, <2>1 DEF VrReleases
  <2> QED BY <1>3, <2>1, <2>2, <2>3 DEF VrDrains, VrPassed, VrLoaded, VrReleases
<1>12. CASE UNCHANGED vrVars
  BY <1>3, <1>12 DEF vrVars, vrReleaseVars, VrDrains, VrPassed, VrLoaded, VrReleases, VrFinal
<1> QED BY <1>2, <1>6, <1>7, <1>8, <1>9, <1>10, <1>11, <1>12, <1>14, <1>15

-----------------------------------------------------------------------------
LEMMA VrInitInv == VrInit => VrInv
<1> SUFFICES ASSUME VrInit PROVE VrInv
  OBVIOUS
<1>1. /\ data_buff.wptr = 0 /\ data_buff.rptr = 0 /\ data_buff \in VrBuffers
      /\ vr_queue = <<>> /\ 0 \in VrSlots
  BY VrConstants DEF VrInit, VrBuffers, VrSlots, VrSome
<1>2. VrWaits(data_buff) = 0
  BY <1>1, VrPlaces
<1>3. VrRingInv
  BY <1>1, <1>2 DEF VrRingInv
<1>4. VrTypeOK
  <2>1. 0 \in 0..VR_RELEASE + 2 /\ 0 \in 0..VR_SUSPEND + 1 /\ 0 \in 0..VR_SUSPEND
        /\ Len(vr_queue) = 0
    BY <1>1, VrConstants
  <2>2. vr_pkt \in [kind : {"none", "pressed", "released"}, key : VrKeys \cup {NoVrKey}]
    BY DEF VrInit, NoVrEvent, VrEvent
  <2> QED BY <1>1, <2>1, <2>2 DEF VrInit, VrTypeOK, VrBuffers, VrSome
<1>5. VrTimes
  BY VrConstants DEF VrInit, VrTimes
<1>6. VrOrderly
  BY DEF VrInit, VrOrderly, VrDrains, VrPassed, VrLoaded, VrReleases, VrFinal
<1> QED BY <1>3, <1>4, <1>5, <1>6 DEF VrInv

LEMMA VrInvStep == VrInv /\ [VrNext]_vrVars => VrInv'
<1> SUFFICES ASSUME VrInv, [VrNext]_vrVars PROVE VrInv'
  OBVIOUS
<1>1. VrTypeOK /\ VrRingInv /\ VrTimes /\ VrOrderly
  BY DEF VrInv
<1>2. VrRingInv'
  BY <1>1, VrRingStep
<1>3. VrTimes'
  BY <1>1, VrTimesStep
<1>4. VrTypeOK'
  BY <1>1, <1>2, <1>3, VrTypeStep
<1>5. VrOrderly'
  BY <1>1, <1>2, <1>3, VrOrderlyStep
<1> QED BY <1>2, <1>3, <1>4, <1>5 DEF VrInv

LEMMA VrInvHolds == VrSpec => []VrInv
  BY VrInitInv, VrInvStep, PTL DEF VrSpec

\* The receiver's state has its type, every counter its range (main_loop of vacuum_receiver.c).
THEOREM VrTypeCorrect == VrSpec => []VrTypeOK
<1>1. VrInv => VrTypeOK
  BY DEF VrInv
<1> QED BY <1>1, VrInvHolds, PTL

\* Whatever the frames, and however the main loop falls behind: what the ring shows is what was
\* put in, in that order, as long as at most VrRing - 2 events wait (rsv_save_buff,
\* uart_tx_proc).
THEOREM VrRingIsQueueHolds == VrSpec => []VrRingIsQueue
<1>1. VrInv => VrRingIsQueue
  <2> SUFFICES ASSUME VrRingInv PROVE VrRingIsQueue
    BY DEF VrInv
  <2>1. /\ data_buff \in VrBuffers /\ vr_queue \in Seq(VrSome)
        /\ Len(vr_queue) = VrWaits(data_buff)
        /\ \A i \in 1..Len(vr_queue) : vr_queue[i] = data_buff.data[VrPlace(data_buff, i)]
    BY DEF VrRingInv
  <2>2. /\ VrWaiting(data_buff) \in Seq(VrSome)
        /\ Len(VrWaiting(data_buff)) = VrWaits(data_buff)
        /\ \A i \in 1..VrWaits(data_buff) :
             VrWaiting(data_buff)[i] = data_buff.data[VrPlace(data_buff, i)]
    BY <2>1, VrWaitingFacts
  <2>3. Len(vr_queue) \in Nat /\ DOMAIN vr_queue = 1..Len(vr_queue)
        /\ DOMAIN VrWaiting(data_buff) = 1..Len(VrWaiting(data_buff))
    BY <2>1, <2>2
  <2>4. VrWaiting(data_buff) = [i \in 1..Len(vr_queue) |-> vr_queue[i]]
    BY <2>1, <2>2, <2>3
  <2>5. vr_queue = [i \in 1..Len(vr_queue) |-> vr_queue[i]]
    BY <2>1
  <2> QED BY <2>4, <2>5 DEF VrRingIsQueue
<1> QED BY <1>1, VrInvHolds, PTL

\* A release the receiver makes up is the last thing it says, and of the key that is down; and
\* it does not suspend over an event or a key (main_loop).
THEOREM VrReleaseLastHolds == VrSpec => []VrReleaseLast
<1>1. VrInv => VrReleaseLast
  <2> SUFFICES ASSUME VrInv, ~vr_spoilt
               PROVE  /\ send_p_flg => vr_queue = <<>> /\ vr_held \in {NoVrKey, KeySave}
                      /\ suspended => vr_queue = <<>> /\ ~send_p_flg /\ ~not_release_flg
                                       /\ vr_held = NoVrKey
    BY DEF VrReleaseLast
  <2>1. VrReleases /\ VrTimes
    BY DEF VrInv, VrOrderly
  <2>2. ASSUME send_p_flg PROVE vr_queue = <<>> /\ vr_held \in {NoVrKey, KeySave}
    BY <2>1, <2>2 DEF VrReleases, VrFinal
  <2>3. ASSUME suspended
        PROVE  vr_queue = <<>> /\ ~send_p_flg /\ ~not_release_flg /\ vr_held = NoVrKey
    <3>1. vr_pc = "top" /\ vr_queue = <<>> /\ ~not_release_flg
      BY <2>1, <2>3 DEF VrReleases, VrTimes
    <3>2. ~send_p_flg
      BY <2>1, <3>1 DEF VrReleases
    <3> QED BY <2>1, <3>1, <3>2 DEF VrReleases, VrFinal
  <2> QED BY <2>2, <2>3
<1> QED BY <1>1, VrInvHolds, PTL

-----------------------------------------------------------------------------
(***************************************************************************)
(* The discovery of the attribute server (l2cap_att_handler of             *)
(* proj_lib/blt_ll/blt_att.c), for every table built of services and       *)
(* characteristics, and every ATT_MTU_SIZE.  What the client was told so   *)
(* far is, in order, all there is before the handle it goes on from.       *)
(***************************************************************************)

\* What the server tells: all there is, but for the service at the last handle of the table.
AttSeen ==
  {h \in at_from..at_end : /\ at_job # "info" => AttUuid(h) = at_job
                           /\ ~(at_job = "service" /\ h = AttNum)}

\* Where the client can be: at the beginning of a service, if it looks for them; and what was
\* told, in order, is what there is from one place to another.
AttAt(sh) ==
  /\ sh \in at_from..at_end + 1
  /\ at_job = "service" /\ sh <= AttNum => AttUuid(sh) = "service"
AttTold(from, to, told) ==
  /\ told \in Seq(AttSeen)
  /\ \A i, j \in 1..Len(told) : i < j => told[i] < told[j]
  /\ \A i \in 1..Len(told) : from <= told[i] /\ told[i] < to
  /\ \A h \in AttSeen : from <= h /\ h < to => \E i \in 1..Len(told) : told[i] = h

\* The client asks about the whole table, or about a service.
AttRange ==
  IF at_job = "char" THEN at_from \in AttHandles /\ AttUuid(at_from) = "service" /\ at_end = AttEnd(at_from)
  ELSE at_from = 1 /\ at_end = AttNum

AttInv ==
  /\ gAttributes \in AttTables /\ at_job \in {"service", "char", "info"} /\ at_done \in BOOLEAN
  /\ AttRange /\ AttAt(at_start) /\ AttTold(at_from, at_start, at_found) /\ AttReads(at_found)
  /\ at_done => \/ AttTold(at_from, at_end + 1, at_found)
                \/ \E h \in AttLong : at_start <= h
-----------------------------------------------------------------------------
\* The table: what the assumption says of its handles.
LEMMA AttTable ==
  ASSUME gAttributes \in AttTables
  PROVE  /\ AttNum \in Nat \ {0} /\ DOMAIN gAttributes = AttHandles
         /\ AttUuid(1) = "service"
         /\ \A h \in AttHandles :
              /\ AttUuid(h) \in {"service", "char", "value"} /\ gAttributes[h].attrLen \in Nat
              /\ gAttributes[h].uuidLen \in Nat /\ gAttributes[h].attNum \in Nat
              /\ AttUuid(h) = "service" =>
                   /\ h <= AttEnd(h) /\ AttEnd(h) <= AttNum /\ gAttributes[h].attrLen + 4 <= AttMtu
                   /\ AttEnd(h) < AttNum => AttUuid(AttEnd(h) + 1) = "service"
                   /\ AttUuid(AttEnd(h)) # "char"
                   /\ \A g \in h + 1..AttEnd(h) : AttUuid(g) # "service"
              /\ AttUuid(h) = "char" => h + 1 \in AttHandles /\ AttUuid(h + 1) = "value"
<1> DEFINE t == gAttributes
<1>1. IsAttTable(t)
  BY AttAssumption
<1>2. /\ t \in Seq([uuid : {"service", "char", "value"}, uuidLen : Nat, attrLen : Nat,
                    attNum : Nat])
      /\ t # <<>> /\ t[1].uuid = "service"
  BY <1>1 DEF IsAttTable
<1>3. AttNum \in Nat \ {0} /\ DOMAIN t = AttHandles
  BY <1>2 DEF AttNum, AttHandles
<1>4. AttUuid(1) = "service"
  BY <1>2 DEF AttUuid
<1>5. ASSUME NEW h \in AttHandles
      PROVE  /\ AttUuid(h) \in {"service", "char", "value"} /\ t[h].attrLen \in Nat
             /\ t[h].uuidLen \in Nat /\ t[h].attNum \in Nat
  <2>1. t[h] \in [uuid : {"service", "char", "value"}, uuidLen : Nat, attrLen : Nat, attNum : Nat]
    <3>1. h \in 1..Len(t)
      BY DEF AttHandles, AttNum
    <3> HIDE DEF t
    <3> QED BY <1>2, <3>1, ElementOfSeq
  <2> QED BY <2>1 DEF AttUuid
<1>6. ASSUME NEW h \in AttHandles, AttUuid(h) = "service"
      PROVE  /\ h <= AttEnd(h) /\ AttEnd(h) <= AttNum /\ t[h].attrLen + 4 <= AttMtu
             /\ AttEnd(h) < AttNum => AttUuid(AttEnd(h) + 1) = "service"
             /\ AttUuid(AttEnd(h)) # "char"
             /\ \A g \in h + 1..AttEnd(h) : AttUuid(g) # "service"
  <2> DEFINE past == h + t[h].attNum
  <2>1. /\ past \in h + 1..AttNum + 1 /\ t[h].attrLen \in {2, 16}
        /\ past \in AttHandles => t[past].uuid = "service"
        /\ t[past - 1].uuid # "char"
        /\ \A g \in h + 1..past - 1 : t[g].uuid # "service"
    BY <1>1, <1>3, <1>6 DEF IsAttTable, AttUuid, AttNum
  <2>2. h \in Nat /\ past \in Nat /\ AttEnd(h) = past - 1 /\ AttEnd(h) + 1 = past
    BY <1>3, <1>5, <2>1 DEF AttEnd, AttHandles
  <2>3. AttEnd(h) < AttNum => past \in AttHandles
    BY <1>3, <2>1, <2>2 DEF AttHandles
  <2> HIDE DEF past
  <2> QED BY AttAssumption, <1>3, <2>1, <2>2, <2>3 DEF AttUuid
<1>7. ASSUME NEW h \in AttHandles, AttUuid(h) = "char"
      PROVE  h + 1 \in AttHandles /\ AttUuid(h + 1) = "value"
  BY <1>1, <1>3, <1>7 DEF IsAttTable, AttUuid
<1> QED BY <1>3, <1>4, <1>5, <1>6, <1>7

\* The handles asked about are in the table, and a value follows its characteristic there.
LEMMA AttRanges ==
  ASSUME gAttributes \in AttTables, at_job \in {"service", "char", "info"}, AttRange
  PROVE  /\ at_from \in AttHandles /\ at_end \in AttHandles /\ at_from <= at_end
         /\ AttHandles \subseteq Nat \ {0}
         /\ AttSeen \subseteq at_from..at_end
         /\ \A h \in AttSeen : h \in AttHandles
         /\ at_job = "char" => AttUuid(at_end) # "char"
         /\ at_job = "service" => at_from = 1 /\ at_end = AttNum
<1>1. AttHandles \subseteq Nat \ {0} /\ AttSeen \subseteq at_from..at_end
  BY DEF AttHandles, AttSeen
<1>2. CASE at_job = "char"
  <2>1. at_from \in AttHandles /\ AttUuid(at_from) = "service" /\ at_end = AttEnd(at_from)
    BY <1>2 DEF AttRange
  <2>2. at_from <= at_end /\ at_end <= AttNum /\ AttUuid(at_end) # "char"
    BY <2>1, AttTable
  <2>3. at_from \in Nat /\ gAttributes[at_from].attNum \in Nat
    BY <2>1, <1>1, AttTable
  <2>4. at_end \in AttHandles
    BY <2>1, <2>2, <2>3, AttTable DEF AttHandles, AttEnd
  <2> QED BY <1>1, <1>2, <2>1, <2>2, <2>4, AttTable DEF AttHandles
<1>3. CASE at_job # "char"
  BY <1>1, <1>3, AttTable DEF AttRange, AttHandles
<1> QED BY <1>2, <1>3

\* From where the client can be, the next handle there is, is found, or there is none.
LEMMA AttSeekFinds ==
  ASSUME gAttributes \in AttTables, at_job \in {"service", "char", "info"}, AttRange,
         NEW sh, AttAt(sh)
  PROVE  IF AttSeek(sh) = 0 THEN \A h \in AttSeen : h < sh
         ELSE /\ AttSeek(sh) \in AttSeen /\ sh <= AttSeek(sh)
              /\ \A h \in AttSeen : sh <= h => AttSeek(sh) <= h
<1>1. /\ at_from \in AttHandles /\ at_end \in AttHandles /\ at_from <= at_end
      /\ AttHandles \subseteq Nat \ {0} /\ AttNum \in Nat \ {0}
      /\ at_job = "char" => AttUuid(at_end) # "char"
      /\ at_job = "service" => at_from = 1 /\ at_end = AttNum
  BY AttRanges, AttTable
<1>2. sh \in Nat /\ at_from <= sh /\ sh <= at_end + 1 /\ sh # 0 /\ at_from \in Nat /\ at_end \in Nat
  BY <1>1 DEF AttAt
<1>3. CASE at_job = "info"
  <2>1. AttSeen = at_from..at_end
    BY <1>3 DEF AttSeen
  <2>2. AttSeek(sh) = IF sh <= at_end THEN sh ELSE 0
    BY <1>3 DEF AttSeek
  <2> QED BY <1>2, <2>1, <2>2
<1>4. CASE at_job # "info"
  <2> DEFINE match == {h \in sh..at_end : AttUuid(h) = at_job}
  <2>1. AttSeek(sh) = IF sh = AttNum \/ match = {} THEN 0
                      ELSE CHOOSE h \in match : \A g \in match : h <= g
    BY <1>4 DEF AttSeek, AttSearch
  <2>2. \A h \in AttSeen : sh <= h => h \in match
    BY <1>2, <1>4 DEF AttSeen
  <2>3. match \subseteq Nat /\ \A h \in match : sh <= h /\ h # 0 /\ h \in at_from..at_end
    BY <1>2
  <2>4. CASE sh = AttNum
    <3>1. \A h \in match : h = AttNum
      BY <1>1, <1>2, <2>4 DEF AttHandles
    <3>2. \A h \in AttSeen : h # AttNum
      <4>1. CASE at_job = "service"
        BY <4>1 DEF AttSeen
      <4>2. CASE at_job = "char"
        <5>1. AttSeen \subseteq at_from..at_end /\ at_end <= AttNum
          BY <1>1 DEF AttSeen, AttHandles
        <5>2. \A h \in AttSeen : AttUuid(h) = "char"
          BY <4>2 DEF AttSeen
        <5> QED BY <1>1, <1>2, <4>2, <5>1, <5>2
      <4> QED BY <1>4, <4>1, <4>2
    <3>3. \A h \in AttSeen : h \in Nat
      BY <1>2 DEF AttSeen
    <3> QED BY <1>2, <2>1, <2>2, <2>4, <3>1, <3>2, <3>3
  <2>5. CASE match = {}
    <3>3. \A h \in AttSeen : h \in Nat
      BY <1>2 DEF AttSeen
    <3> QED BY <1>2, <2>1, <2>2, <2>5, <3>3
  <2>6. CASE sh # AttNum /\ match # {}
    <3> DEFINE m == CHOOSE h \in match : \A g \in match : h <= g
    <3>1. m \in match /\ \A g \in match : m <= g
      <4>1. \E h \in match : \A g \in match : h <= g
        BY <2>3, <2>6, LeastExists
      <4> HIDE DEF match
      <4> QED BY <4>1
    <3>2. AttSeek(sh) = m
      BY <2>1, <2>6
    <3>3. m \in AttSeen
      <4>1. m \in at_from..at_end /\ AttUuid(m) = at_job
        BY <2>3, <3>1
      <4>2. CASE at_job = "service" /\ m = AttNum
        <5>1. sh <= AttNum
          BY <1>1, <1>2, <2>3, <3>1, <4>2
        <5>2. AttUuid(sh) = "service" /\ sh \in sh..at_end
          BY <1>1, <1>2, <4>2, <5>1 DEF AttAt
        <5>3. sh \in match
          BY <4>2, <5>2
        <5>4. m <= sh /\ sh <= m
          BY <2>3, <3>1, <5>3
        <5> QED BY <1>2, <2>3, <2>6, <3>1, <4>2, <5>4
      <4> QED BY <4>1, <4>2 DEF AttSeen
    <3>4. sh <= m /\ m # 0
      BY <2>3, <3>1
    <3> HIDE DEF m, match
    <3> QED BY <2>2, <3>1, <3>2, <3>3, <3>4
  <2> QED BY <2>4, <2>5, <2>6
<1> QED BY <1>3, <1>4

\* After a handle the search goes on at a place where it can be, and leaves none out.
LEMMA AttPastNext ==
  ASSUME gAttributes \in AttTables, at_job \in {"service", "char", "info"}, AttRange,
         NEW h \in AttSeen
  PROVE  AttAt(AttPast(h)) /\ h < AttPast(h) /\ \A g \in AttSeen : g < AttPast(h) <=> g <= h
<1>1. /\ at_from \in Nat /\ at_end \in Nat /\ h \in at_from..at_end /\ h \in AttHandles
      /\ AttSeen \subseteq at_from..at_end /\ at_end <= AttNum /\ AttNum \in Nat
      /\ at_job = "char" => AttUuid(at_end) # "char"
      /\ at_job = "service" => at_from = 1 /\ at_end = AttNum
  BY AttRanges, AttTable DEF AttHandles
<1>2. at_job # "info" => AttUuid(h) = at_job
  BY DEF AttSeen
<1>3. CASE at_job = "service"
  <2>1. AttUuid(h) = "service" /\ AttPast(h) = AttEnd(h) + 1
    BY <1>2, <1>3 DEF AttPast
  <2>2. /\ h <= AttEnd(h) /\ AttEnd(h) <= AttNum
        /\ AttEnd(h) < AttNum => AttUuid(AttEnd(h) + 1) = "service"
        /\ \A g \in h + 1..AttEnd(h) : AttUuid(g) # "service"
        /\ gAttributes[h].attNum \in Nat
    BY <1>1, <2>1, AttTable
  <2>3. AttEnd(h) \in Int /\ h \in Nat
    BY <1>1, <2>2 DEF AttEnd
  <2>4. AttAt(AttPast(h)) /\ h < AttPast(h)
    BY <1>1, <1>3, <2>1, <2>2, <2>3 DEF AttAt
  <2>5. ASSUME NEW g \in AttSeen PROVE g < AttPast(h) <=> g <= h
    <3>1. g \in Nat /\ AttUuid(g) = "service"
      BY <1>1, <1>3 DEF AttSeen
    <3>2. g \notin h + 1..AttEnd(h)
      BY <2>2, <3>1
    <3> QED BY <2>1, <2>2, <2>3, <3>1, <3>2
  <2> QED BY <2>4, <2>5
<1>4. CASE at_job = "char"
  <2>1. AttUuid(h) = "char" /\ AttPast(h) = h + 2
    BY <1>2, <1>4 DEF AttPast
  <2>2. AttUuid(h + 1) = "value" /\ h # at_end
    BY <1>1, <1>4, <2>1, AttTable
  <2>3. AttAt(AttPast(h)) /\ h < AttPast(h)
    BY <1>1, <1>4, <2>1, <2>2 DEF AttAt
  <2>4. ASSUME NEW g \in AttSeen PROVE g < AttPast(h) <=> g <= h
    <3>1. g \in Nat /\ AttUuid(g) = "char"
      BY <1>1, <1>4 DEF AttSeen
    <3> QED BY <1>1, <2>1, <2>2, <3>1
  <2> QED BY <2>3, <2>4
<1>5. CASE at_job = "info"
  <2>1. AttPast(h) = h + 1
    BY <1>5 DEF AttPast
  <2>2. AttAt(AttPast(h)) /\ h < AttPast(h)
    BY <1>1, <1>5, <2>1 DEF AttAt
  <2>3. \A g \in AttSeen : g \in Nat
    BY <1>1
  <2> QED BY <1>1, <2>1, <2>2, <2>3
<1> QED BY <1>3, <1>4, <1>5

\* The answers that can be on their way to a request from sh on.
AttRsps(sh) == {r \in [told : Seq(AttSeen), i : Nat] :
                  AttAt(AttNext(sh, r.told)) /\ AttTold(sh, AttNext(sh, r.told), r.told)}

\* A turn of the loop adds the next handle there is, or nothing.
LEMMA AttMoreTold ==
  ASSUME gAttributes \in AttTables, at_job \in {"service", "char", "info"}, AttRange,
         NEW sh, AttAt(sh), NEW r \in AttRsps(sh)
  PROVE  /\ AttMore(r, sh) \in AttRsps(sh)
         /\ r.told # <<>> => AttMore(r, sh).told # <<>>
         /\ r.told = <<>> /\ r.i = 0 /\ AttSeek(sh) # 0 => AttMore(r, sh).told # <<>>
<1> DEFINE next == AttNext(sh, r.told)
           h == AttSeek(next)
<1>1. /\ r \in [told : Seq(AttSeen), i : Nat] /\ r.told \in Seq(AttSeen) /\ r.i \in Nat
      /\ AttAt(next) /\ AttTold(sh, next, r.told)
  BY DEF AttRsps
<1>2. /\ IF h = 0 THEN TRUE
         ELSE h \in AttSeen /\ next <= h /\ \A g \in AttSeen : next <= g => h <= g
  BY <1>1, AttSeekFinds
<1>3. /\ at_from \in Nat /\ at_end \in Nat /\ AttSeen \subseteq Nat \ {0} /\ sh \in Nat /\ next \in Nat
      /\ \A g \in AttSeen : g \in AttHandles
  BY <1>1, AttRanges DEF AttAt
<1>10. \A i \in 1..Len(r.told) : r.told[i] \in Nat /\ sh <= r.told[i] /\ r.told[i] < next
  <2> SUFFICES ASSUME NEW i \in 1..Len(r.told)
               PROVE  r.told[i] \in Nat /\ sh <= r.told[i] /\ r.told[i] < next
    OBVIOUS
  <2>1. r.told[i] \in AttSeen
    BY <1>1, ElementOfSeq
  <2> HIDE DEF next
  <2> QED BY <1>1, <1>3, <2>1 DEF AttTold
<1> DEFINE told == Append(r.told, h)
           bytes == r.i + AttTaken(h)
<1>4. ASSUME h # 0
      PROVE  [told |-> told, i |-> bytes] \in AttRsps(sh) /\ told # <<>>
  <2>1. h \in AttSeen /\ next <= h /\ h \in Nat /\ \A g \in AttSeen : next <= g => h <= g
    BY <1>2, <1>3, <1>4
  <2>2. told \in Seq(AttSeen) /\ told # <<>> /\ Len(told) = Len(r.told) + 1 /\ Len(r.told) \in Nat
        /\ told[Len(told)] = h /\ \A i \in 1..Len(r.told) : told[i] = r.told[i]
    BY <1>1, <2>1
  <2>3. bytes \in Nat
    <3>1. h \in AttHandles /\ (at_job = "char" => AttUuid(h) = "char")
      BY <1>3, <2>1 DEF AttSeen
    <3> HIDE DEF h
    <3>2. AttBytes(h) \in Nat
      BY <3>1, AttTable DEF AttBytes
    <3>3. at_job = "char" => 5 + gAttributes[h + 1].uuidLen \in Nat
      BY <3>1, AttTable
    <3> QED BY <1>1, <3>2, <3>3 DEF AttTaken
  <2>4. AttNext(sh, told) = AttPast(h)
    BY <2>2 DEF AttNext
  <2>5. AttAt(AttPast(h)) /\ h < AttPast(h) /\ \A g \in AttSeen : g < AttPast(h) <=> g <= h
    BY <2>1, AttPastNext
  <2>6. AttPast(h) \in Nat
    BY <1>3, <2>5 DEF AttAt
  <2>7. sh <= next
    <3>1. CASE r.told = <<>>
      BY <1>3, <3>1 DEF AttNext
    <3>2. CASE r.told # <<>>
      <4>1. Len(r.told) \in 1..Len(r.told)
        BY <1>1, <3>2
      <4>2. sh <= r.told[Len(r.told)] /\ r.told[Len(r.told)] < next /\ r.told[Len(r.told)] \in Nat
        BY <1>10, <4>1
      <4> QED BY <1>3, <4>2
    <3> QED BY <3>1, <3>2
  <2>8. \A i \in 1..Len(r.told) : r.told[i] \in Nat /\ sh <= r.told[i] /\ r.told[i] < next
    BY <1>10
  <2> HIDE DEF next, h, told
  <2>9. \A i \in 1..Len(told) : sh <= told[i] /\ told[i] < AttPast(h)
    <3> SUFFICES ASSUME NEW i \in 1..Len(told) PROVE sh <= told[i] /\ told[i] < AttPast(h)
      OBVIOUS
    <3>1. CASE i = Len(told)
      BY <1>3, <2>1, <2>2, <2>5, <2>6, <2>7, <3>1
    <3>2. CASE i \in 1..Len(r.told)
      <4>1. told[i] = r.told[i]
        BY <2>2, <3>2
      <4> QED BY <1>3, <2>1, <2>5, <2>6, <2>8, <3>2, <4>1
    <3> QED BY <2>2, <3>1, <3>2
  <2>10. \A i, j \in 1..Len(told) : i < j => told[i] < told[j]
    <3> SUFFICES ASSUME NEW i \in 1..Len(told), NEW j \in 1..Len(told), i < j
                 PROVE  told[i] < told[j]
      OBVIOUS
    <3>1. i \in 1..Len(r.told)
      BY <2>2
    <3>2. CASE j = Len(told)
      BY <1>3, <2>1, <2>2, <2>8, <3>1, <3>2
    <3>3. CASE j # Len(told)
      <4>1. j \in 1..Len(r.told)
        BY <2>2, <3>3
      <4> QED BY <1>1, <2>2, <3>1, <4>1 DEF AttTold
    <3> QED BY <3>2, <3>3
  <2>11. \A g \in AttSeen : sh <= g /\ g < AttPast(h) => \E i \in 1..Len(told) : told[i] = g
    <3> SUFFICES ASSUME NEW g \in AttSeen, sh <= g, g < AttPast(h)
                 PROVE  \E i \in 1..Len(told) : told[i] = g
      OBVIOUS
    <3>1. g <= h /\ g \in Nat
      BY <1>3, <2>5
    <3>2. CASE g < next
      <4>1. PICK i \in 1..Len(r.told) : r.told[i] = g
        BY <1>1, <3>2 DEF AttTold
      <4> QED BY <2>2, <4>1
    <3>3. CASE next <= g
      <4>1. g = h
        BY <1>3, <2>1, <3>1, <3>3
      <4>2. Len(told) \in 1..Len(told)
        BY <2>2
      <4> QED BY <2>2, <4>1, <4>2
    <3> QED BY <1>3, <3>1, <3>2, <3>3
  <2>12. AttTold(sh, AttPast(h), told)
    BY <2>2, <2>9, <2>10, <2>11 DEF AttTold
  <2> QED BY <2>2, <2>3, <2>4, <2>5, <2>12 DEF AttRsps
<1> DEFINE fits == /\ h # 0 /\ r.i + AttBytes(h) <= AttMtu
                   /\ at_job = "service" /\ r.told # <<>> =>
                        gAttributes[h].attrLen = gAttributes[r.told[1]].attrLen
<1>5. AttMore(r, sh) = IF fits THEN [told |-> told, i |-> bytes] ELSE r
  BY DEF AttMore
<1>6. r.told = <<>> /\ r.i = 0 /\ AttSeek(sh) # 0 => fits
  <2> SUFFICES ASSUME r.told = <<>>, r.i = 0, AttSeek(sh) # 0 PROVE fits
    OBVIOUS
  <2>1. h = AttSeek(sh)
    BY DEF AttNext
  <2>2. h \in AttSeen /\ h \in AttHandles
    BY <1>2, <1>3, <2>1
  <2>3. AttBytes(h) \in Nat /\ AttBytes(h) <= AttMtu
    BY <2>2, AttTable, AttAssumption DEF AttBytes, AttSeen
  <2> QED BY <2>1, <2>3
<1> HIDE DEF h, next, told, bytes, fits
<1>7. ASSUME fits PROVE h # 0
  BY <1>7 DEF fits
<1>8. CASE fits
  BY <1>4, <1>5, <1>7, <1>8
<1>9. CASE ~fits
  BY <1>5, <1>6, <1>9
<1> QED BY <1>8, <1>9

\* An answer is what there is from the place asked about to the place the client goes on at;
\* it is empty if there is nothing.
LEMMA AttAnswerTold ==
  ASSUME gAttributes \in AttTables, at_job \in {"service", "char", "info"}, AttRange,
         NEW sh, AttAt(sh)
  PROVE  LET told == AttAnswer(sh)
         IN  /\ AttAt(AttNext(sh, told)) /\ AttTold(sh, AttNext(sh, told), told)
             /\ told = <<>> => AttSeek(sh) = 0
<1> DEFINE S == AttRsps(sh)
           N == AttNum
           base == [told |-> <<>>, i |-> 0]
           step == [n \in 0..N |-> [r \in S |-> AttMore(r, sh)]]
           Loop(f) == f = [n \in 0..AttNum |-> IF n = 0 THEN [told |-> <<>>, i |-> 0]
                                               ELSE AttMore(f[n - 1], sh)]
<1>1. N \in Nat \ {0}
  BY AttTable
<1>2. base \in S
  <2>1. AttNext(sh, <<>>) = sh
    BY DEF AttNext
  <2>2. AttTold(sh, sh, <<>>)
    <3>1. sh \in Nat /\ \A h \in AttSeen : h \in Nat
      BY AttRanges DEF AttAt
    <3> QED BY <3>1 DEF AttTold
  <2> QED BY <2>1, <2>2 DEF AttRsps
<1>3. \A r \in S : /\ AttMore(r, sh) \in S
                   /\ r.told # <<>> => AttMore(r, sh).told # <<>>
                   /\ r.told = <<>> /\ r.i = 0 /\ AttSeek(sh) # 0 => AttMore(r, sh).told # <<>>
  BY AttMoreTold
<1>4. step \in Turns(N, S)
  <2> HIDE DEF S
  <2> QED BY <1>3 DEF Turns
<1>5. PICK g \in [0..N -> S] : g[0] = base /\ \A n \in 1..N : g[n] = step[n][g[n - 1]]
  <2> HIDE DEF step, base, S, N
  <2>1. N \in Nat
    BY <1>1
  <2>2. PICK g : g \in Runs(N, S, base, step)
    BY <1>2, <1>4, <2>1, LoopExists
  <2> QED BY <2>2 DEF Runs
<1>6. \E f : Loop(f)
  <2>1. ASSUME NEW n \in 0..N
        PROVE  g[n] = IF n = 0 THEN base ELSE AttMore(g[n - 1], sh)
    <3>1. CASE n # 0
      <4>1. n - 1 \in 0..N /\ n \in 1..N
        BY <1>1, <3>1
      <4>2. g[n - 1] \in S /\ g[n] = step[n][g[n - 1]]
        BY <1>5, <4>1
      <4> HIDE DEF S
      <4> QED BY <3>1, <4>2
    <3> QED BY <1>5, <3>1
  <2> HIDE DEF S
  <2>2. g = [n \in 0..N |-> IF n = 0 THEN base ELSE AttMore(g[n - 1], sh)]
    BY <1>5, <2>1
  <2> QED BY <2>2
<1> DEFINE f == CHOOSE f : Loop(f)
<1>7. Loop(f)
  BY <1>6
<1>8. AttAnswer(sh) = f[AttNum].told
  BY DEF AttAnswer
<1> HIDE DEF f
<1>9. f[0] = base /\ \A n \in 1..N : f[n] = AttMore(f[n - 1], sh)
  BY <1>1, <1>7
<1> DEFINE T == {n \in 0..N : f[n] \in S /\ (n > 0 /\ AttSeek(sh) # 0 => f[n].told # <<>>)}
<1>10. 0..N \subseteq T
  <2>1. 0 \in T
    BY <1>1, <1>2, <1>9
  <2>2. ASSUME NEW n \in 0..N, n \in T, n < N
        PROVE  n + 1 \in T
    <3>1. n + 1 \in 1..N /\ n + 1 - 1 = n /\ f[n] \in S
      BY <1>1, <2>2
    <3>2. f[n + 1] = AttMore(f[n], sh)
      BY <1>9, <3>1
    <3>3. f[n + 1] \in S
      BY <1>3, <3>1, <3>2
    <3>4. AttSeek(sh) # 0 => f[n + 1].told # <<>>
      <4>1. CASE n = 0
        <5>1. f[n] = base /\ f[n].told = <<>> /\ f[n].i = 0
          BY <1>9, <4>1
        <5> QED BY <1>3, <3>1, <3>2, <5>1
      <4>2. CASE n > 0
        BY <1>3, <2>2, <3>1, <3>2, <4>2
      <4> QED BY <4>1, <4>2
    <3> HIDE DEF S
    <3> QED BY <3>1, <3>3, <3>4
  <2> HIDE DEF T
  <2> QED BY <1>1, <2>1, <2>2, UpTo
<1>11. N \in 0..N /\ N > 0
  BY <1>1
<1>12. f[N] \in S /\ (AttSeek(sh) # 0 => f[N].told # <<>>)
  BY <1>10, <1>11
<1> QED BY <1>8, <1>12 DEF AttRsps

-----------------------------------------------------------------------------
\* What was told up to a place, and then from there to the next, is what there is up to that.
LEMMA AttToldMore ==
  ASSUME AttSeen \subseteq Nat, NEW from \in Nat, NEW mid \in Nat, NEW to \in Nat,
         NEW s, AttTold(from, mid, s), NEW t, AttTold(mid, to, t), from <= mid, mid <= to
  PROVE  AttTold(from, to, s \o t)
<1>1. s \in Seq(AttSeen) /\ t \in Seq(AttSeen)
  BY DEF AttTold
<1>2. /\ s \o t \in Seq(AttSeen) /\ Len(s) \in Nat /\ Len(t) \in Nat
      /\ Len(s \o t) = Len(s) + Len(t)
      /\ \A i \in 1..Len(s) + Len(t) : (s \o t)[i] = IF i <= Len(s) THEN s[i] ELSE t[i - Len(s)]
  BY <1>1
<1>3. \A i \in 1..Len(s) : s[i] \in Nat /\ from <= s[i] /\ s[i] < mid
  <2> SUFFICES ASSUME NEW i \in 1..Len(s) PROVE s[i] \in Nat /\ from <= s[i] /\ s[i] < mid
    OBVIOUS
  <2>1. s[i] \in AttSeen
    BY <1>1, ElementOfSeq
  <2> QED BY <2>1 DEF AttTold
<1>4. \A i \in 1..Len(t) : t[i] \in Nat /\ mid <= t[i] /\ t[i] < to
  <2> SUFFICES ASSUME NEW i \in 1..Len(t) PROVE t[i] \in Nat /\ mid <= t[i] /\ t[i] < to
    OBVIOUS
  <2>1. t[i] \in AttSeen
    BY <1>1, ElementOfSeq
  <2> QED BY <2>1 DEF AttTold
<1> DEFINE u == s \o t
<1>5. \A i \in 1..Len(u) : \/ i \in 1..Len(s) /\ u[i] = s[i]
                           \/ i > Len(s) /\ i - Len(s) \in 1..Len(t) /\ u[i] = t[i - Len(s)]
  BY <1>2
<1> HIDE DEF u
<1>6. \A i \in 1..Len(u) : from <= u[i] /\ u[i] < to
  <2> SUFFICES ASSUME NEW i \in 1..Len(u) PROVE from <= u[i] /\ u[i] < to
    OBVIOUS
  <2>1. CASE i \in 1..Len(s) /\ u[i] = s[i]
    BY <1>3, <2>1
  <2>2. CASE i > Len(s) /\ i - Len(s) \in 1..Len(t) /\ u[i] = t[i - Len(s)]
    BY <1>4, <2>2
  <2> QED BY <1>5, <2>1, <2>2
<1>7. ASSUME NEW i \in 1..Len(u), NEW j \in 1..Len(u), i < j
      PROVE  u[i] < u[j]
  <2>1. CASE j \in 1..Len(s) /\ u[j] = s[j]
    <3>1. i \in 1..Len(s) /\ u[i] = s[i]
      BY <1>2, <1>5, <1>7, <2>1
    <3> QED BY <1>7, <2>1, <3>1 DEF AttTold
  <2>2. CASE j > Len(s) /\ j - Len(s) \in 1..Len(t) /\ u[j] = t[j - Len(s)]
    <3>1. CASE i \in 1..Len(s) /\ u[i] = s[i]
      <4>1. u[i] \in Nat /\ u[i] < mid
        BY <1>3, <3>1
      <4>2. u[j] \in Nat /\ mid <= u[j]
        BY <1>4, <2>2
      <4> QED BY <4>1, <4>2
    <3>2. CASE i > Len(s) /\ i - Len(s) \in 1..Len(t) /\ u[i] = t[i - Len(s)]
      <4>1. i - Len(s) < j - Len(s)
        BY <1>2, <1>7, <3>2
      <4> QED BY <2>2, <3>2, <4>1 DEF AttTold
    <3> QED BY <1>5, <3>1, <3>2
  <2> QED BY <1>5, <2>1, <2>2
<1>8. ASSUME NEW h \in AttSeen, from <= h, h < to
      PROVE  \E i \in 1..Len(u) : u[i] = h
  <2>1. CASE h < mid
    <3>1. PICK i \in 1..Len(s) : s[i] = h
      BY <1>8, <2>1 DEF AttTold
    <3>2. i \in 1..Len(u) /\ u[i] = h
      BY <1>2, <3>1 DEF u
    <3> QED BY <3>2
  <2>2. CASE mid <= h
    <3>1. PICK i \in 1..Len(t) : t[i] = h
      BY <1>8, <2>2 DEF AttTold
    <3>2. Len(s) + i \in 1..Len(u) /\ u[Len(s) + i] = h
      BY <1>2, <3>1 DEF u
    <3> QED BY <3>2
  <2>3. h \in Nat
    OBVIOUS
  <2> QED BY <2>1, <2>2, <2>3
<1>9. u \in Seq(AttSeen)
  BY <1>2 DEF u
<1>10. AttTold(from, to, u)
  BY <1>6, <1>7, <1>8, <1>9 DEF AttTold
<1> QED BY <1>10 DEF u

LEMMA AttInitInv == AttInit => AttInv
<1> SUFFICES ASSUME AttInit PROVE AttInv
  OBVIOUS
<1>1. gAttributes \in AttTables /\ at_job \in {"service", "char", "info"} /\ at_done \in BOOLEAN
      /\ at_start = at_from /\ at_found = <<>> /\ ~at_done
  BY DEF AttInit
<1>2. AttRange
  BY DEF AttInit, AttRange
<1>3. /\ at_from \in Nat /\ at_end \in Nat /\ at_from <= at_end /\ at_from \in AttHandles
      /\ AttSeen \subseteq Nat
      /\ at_job = "service" => at_from = 1
  BY <1>1, <1>2, AttRanges
<1>4. AttAt(at_start)
  BY <1>1, <1>3, AttTable DEF AttAt
<1>5. AttTold(at_from, at_start, at_found)
  BY <1>1, <1>3 DEF AttTold
<1>6. AttReads(at_found)
  BY <1>1 DEF AttReads
<1> QED BY <1>1, <1>2, <1>4, <1>5, <1>6 DEF AttInv

\* A handle that takes other than its bytes in an answer that was told so far, or in the next.
LEMMA AttLongTold ==
  ASSUME AttSeen \subseteq AttThere, NEW from \in Nat, NEW to, NEW told, AttTold(from, to, told),
         ~AttReads(told)
  PROVE  \E h \in AttLong : from <= h
<1>1. told \in Seq(AttSeen) /\ DOMAIN told = 1..Len(told)
  BY DEF AttTold
<1>2. PICK i \in 1..Len(told) : AttTaken(told[i]) # AttBytes(told[i])
  BY <1>1 DEF AttReads
<1>3. told[i] \in AttSeen
  BY <1>1, ElementOfSeq
<1> QED BY <1>2, <1>3 DEF AttTold, AttLong

LEMMA AttReadsMore ==
  ASSUME NEW S, NEW s \in Seq(S), NEW t \in Seq(S), AttReads(s), AttReads(t)
  PROVE  AttReads(s \o t)
<1>1. /\ Len(s) \in Nat /\ Len(t) \in Nat /\ DOMAIN s = 1..Len(s) /\ DOMAIN t = 1..Len(t)
      /\ DOMAIN (s \o t) = 1..Len(s) + Len(t)
      /\ \A i \in 1..Len(s) + Len(t) : (s \o t)[i] = IF i <= Len(s) THEN s[i] ELSE t[i - Len(s)]
  OBVIOUS
<1>2. ASSUME NEW i \in DOMAIN (s \o t)
      PROVE  AttTaken((s \o t)[i]) = AttBytes((s \o t)[i])
  <2>1. CASE i <= Len(s)
    <3>1. i \in DOMAIN s /\ (s \o t)[i] = s[i]
      BY <1>1, <2>1
    <3> QED BY <3>1 DEF AttReads
  <2>2. CASE ~(i <= Len(s))
    <3>1. i - Len(s) \in DOMAIN t /\ (s \o t)[i] = t[i - Len(s)]
      BY <1>1, <2>2
    <3> QED BY <3>1 DEF AttReads
  <2> QED BY <2>1, <2>2
<1> QED BY <1>2 DEF AttReads

LEMMA AttSeenThere ==
  /\ AttSeen = AttThere \ AttUnseen
  /\ AttLong # {} => at_job = "char" /\ AttSeen = AttThere
<1>1. AttSeen = AttThere \ AttUnseen
  BY DEF AttSeen, AttThere, AttUnseen
<1>2. AttLong # {} => at_job = "char"
  BY DEF AttLong, AttTaken
<1>3. at_job = "char" => AttUnseen = {}
  BY DEF AttUnseen
<1> QED BY <1>1, <1>2, <1>3

LEMMA AttStepInv == AttInv /\ [AttAsk]_atVars => AttInv'
<1> SUFFICES ASSUME AttInv, [AttAsk]_atVars PROVE AttInv'
  OBVIOUS
<1>1. CASE AttAsk
  <2> DEFINE told == AttAnswer(at_start)
             next == AttNext(at_start, told)
  <2>1. /\ gAttributes \in AttTables /\ at_job \in {"service", "char", "info"}
        /\ AttRange /\ AttAt(at_start) /\ AttTold(at_from, at_start, at_found)
        /\ AttReads(at_found) /\ ~at_done
    BY <1>1 DEF AttInv, AttAsk
  <2>2. AttAt(next) /\ AttTold(at_start, next, told) /\ (told = <<>> => AttSeek(at_start) = 0)
    BY <2>1, AttAnswerTold
  <2>3. UNCHANGED <<gAttributes, at_job, at_from, at_end>>
    BY <1>1 DEF AttAsk
  <2>4. /\ at_from \in Nat /\ at_end \in Nat /\ AttSeen \subseteq at_from..at_end
        /\ AttSeen \subseteq Nat
    BY <2>1, AttRanges
  <2>5. at_start \in Nat /\ next \in Nat /\ at_from <= at_start /\ next <= at_end + 1
        /\ at_start <= at_end + 1
    BY <2>1, <2>2, <2>4 DEF AttAt
  <2>6. told = <<>> => next = at_start
    BY DEF AttNext
  <2> HIDE DEF next, told
  <2>7. at_start <= next
    <3>1. CASE told # <<>>
      <4>1. 1 \in 1..Len(told) /\ told[1] \in AttSeen
        BY <2>2, <3>1, ElementOfSeq DEF AttTold
      <4>2. at_start <= told[1] /\ told[1] < next /\ told[1] \in Nat
        BY <2>2, <2>4, <4>1 DEF AttTold
      <4> QED BY <2>5, <4>2
    <3> QED BY <2>5, <2>6, <3>1
  <2>8. AttTold(at_from, next, at_found \o told)
    BY <2>1, <2>2, <2>4, <2>5, <2>7, AttToldMore
  <2>9. ASSUME told = <<>> \/ next > at_end
        PROVE  AttTold(at_from, at_end + 1, at_found \o told)
    <3>1. CASE next > at_end
      <4>1. next = at_end + 1
        BY <2>4, <2>5, <3>1
      <4> QED BY <2>8, <4>1
    <3>2. CASE told = <<>>
      <4>1. next = at_start /\ AttSeek(at_start) = 0
        BY <2>2, <2>6, <3>2
      <4>2. \A h \in AttSeen : h < at_start
        BY <2>1, <4>1, AttSeekFinds
      <4> DEFINE u == at_found \o told
      <4>3. AttTold(at_from, at_start, u)
        BY <2>8, <4>1
      <4> HIDE DEF u
      <4>4. u \in Seq(AttSeen)
        BY <4>3 DEF AttTold
      <4>5. \A i \in 1..Len(u) : u[i] \in AttSeen
        BY <4>4, ElementOfSeq
      <4>6. AttTold(at_from, at_end + 1, u)
        <5>1. \A i \in 1..Len(u) : at_from <= u[i] /\ u[i] < at_end + 1
          <6> SUFFICES ASSUME NEW i \in 1..Len(u) PROVE at_from <= u[i] /\ u[i] < at_end + 1
            OBVIOUS
          <6>1. u[i] \in Nat /\ u[i] < at_start /\ at_from <= u[i]
            BY <2>4, <4>3, <4>5 DEF AttTold
          <6> QED BY <2>4, <2>5, <6>1
        <5>2. \A h \in AttSeen : at_from <= h => \E i \in 1..Len(u) : u[i] = h
          BY <4>2, <4>3 DEF AttTold
        <5> QED BY <4>3, <4>4, <5>1, <5>2 DEF AttTold
      <4> QED BY <4>6 DEF u
    <3> QED BY <2>9, <3>1, <3>2
  <2>10. /\ AttSeen' = AttSeen /\ AttNum' = AttNum /\ \A h : AttUuid(h)' = AttUuid(h)
         /\ AttLong' = AttLong
         /\ \A s : AttReads(s) => AttReads(s)'
    BY <2>3 DEF AttSeen, AttUuid, AttNum, AttLong, AttThere, AttTaken, AttBytes, AttReads
  <2>11. AttRange'
    BY <2>1, <2>3, <2>10 DEF AttRange, AttHandles, AttNum, AttUuid, AttEnd
  <2>12. CASE AttReads(told)
    <3>1. /\ at_found' = at_found \o told /\ at_start' = next
          /\ at_done' = (told = <<>> \/ next > at_end)
      BY <1>1, <2>12 DEF AttAsk, told, next
    <3>2. AttAt(at_start)'
      BY <2>2, <2>3, <2>10, <3>1 DEF AttAt, AttUuid
    <3>3. AttTold(at_from, at_start, at_found)'
      BY <2>3, <2>8, <2>10, <3>1 DEF AttTold
    <3>4. at_done' => AttTold(at_from, at_end + 1, at_found)'
      BY <2>3, <2>9, <2>10, <3>1 DEF AttTold
    <3>5. AttReads(at_found \o told)
      BY <2>1, <2>2, <2>12, AttReadsMore DEF AttTold
    <3>6. AttReads(at_found)'
      BY <2>3, <3>1, <3>5 DEF AttReads, AttTaken, AttBytes
    <3> QED BY <2>1, <2>3, <2>11, <3>1, <3>2, <3>3, <3>4, <3>6 DEF AttInv
  <2>13. CASE ~AttReads(told)
    <3>1. at_found' = at_found /\ at_start' = at_start /\ at_done' = TRUE
      BY <1>1, <2>13 DEF AttAsk, told
    <3>2. AttAt(at_start)'
      BY <2>1, <2>3, <2>10, <3>1 DEF AttAt, AttUuid
    <3>3. AttTold(at_from, at_start, at_found)'
      BY <2>1, <2>3, <2>10, <3>1 DEF AttTold
    <3>4. AttReads(at_found)'
      BY <2>1, <2>3, <3>1 DEF AttReads, AttTaken, AttBytes
    <3>5. \E h \in AttLong : at_start <= h
      BY <2>2, <2>5, <2>13, AttLongTold, AttSeenThere
    <3>6. (\E h \in AttLong : at_start <= h)'
      BY <2>10, <3>1, <3>5
    <3> QED BY <2>1, <2>3, <2>11, <3>1, <3>2, <3>3, <3>4, <3>6 DEF AttInv
  <2> QED BY <2>12, <2>13
<1>2. CASE UNCHANGED atVars
  BY <1>2 DEF AttInv, atVars, AttRange, AttAt, AttTold, AttSeen, AttReads, AttLong, AttTaken, AttBytes,
              AttThere, AttHandles, AttNum, AttUuid,
              AttEnd
<1> QED BY <1>1, <1>2

\* The type invariant, and what the client was told when it ends.
LEMMA AttInvTypeOK == AttInv => AttTypeOK
<1> SUFFICES ASSUME AttInv PROVE AttTypeOK
  OBVIOUS
<1>1. /\ gAttributes \in AttTables /\ at_job \in {"service", "char", "info"} /\ at_done \in BOOLEAN
      /\ AttRange /\ AttAt(at_start) /\ AttTold(at_from, at_start, at_found)
  BY DEF AttInv
<1>2. {at_from, at_end} \subseteq AttHandles /\ AttSeen \subseteq at_from..at_end
  BY <1>1, AttRanges
<1>3. at_start \in at_from..at_end + 1
  BY <1>1 DEF AttAt
<1>4. at_found \in Seq(at_from..at_end)
  <2>1. at_found \in Seq(AttSeen)
    BY <1>1 DEF AttTold
  <2> QED BY <1>2, <2>1, SeqMonotonic
<1>5. DOMAIN at_found = 1..Len(at_found)
  BY <1>4
<1> QED BY <1>1, <1>2, <1>3, <1>4, <1>5 DEF AttTypeOK, AttTold

LEMMA AttInvDiscovered == AttInv => AttDiscovered
<1> DEFINE found == {at_found[i] : i \in DOMAIN at_found}
<1> SUFFICES ASSUME AttInv, at_done
             PROVE  IF AttLong = {} THEN found = AttThere \ AttUnseen
                    ELSE /\ found = {h \in AttThere : h < at_start}
                         /\ \E h \in AttLong : at_start <= h
  BY DEF AttDiscovered
<1>1. /\ gAttributes \in AttTables /\ at_job \in {"service", "char", "info"}
      /\ AttRange /\ AttTold(at_from, at_start, at_found) /\ AttReads(at_found)
      /\ AttTold(at_from, at_end + 1, at_found) \/ \E h \in AttLong : at_start <= h
  BY DEF AttInv
<1>2. at_from \in Nat /\ at_end \in Nat /\ AttSeen \subseteq at_from..at_end
  BY <1>1, AttRanges
<1>3. at_found \in Seq(AttSeen) /\ DOMAIN at_found = 1..Len(at_found)
  BY <1>1 DEF AttTold
<1>4. \A i \in 1..Len(at_found) : at_found[i] \in AttSeen
  BY <1>3, ElementOfSeq
<1>5. \A h \in AttSeen : at_from <= h /\ h < at_end + 1
  BY <1>2
<1>6. AttTold(at_from, at_end + 1, at_found) => found = AttSeen
  BY <1>3, <1>4, <1>5 DEF AttTold
<1>7. CASE AttLong = {}
  BY <1>1, <1>6, <1>7, AttSeenThere
<1>8. CASE AttLong # {}
  <2>1. AttSeen = AttThere
    BY <1>8, AttSeenThere
  <2>2. AttLong \subseteq AttSeen /\ \A h \in AttLong : h \notin found
    BY <1>1, <2>1 DEF AttLong, AttReads
  <2>3. \E h \in AttLong : at_start <= h
    BY <1>1, <1>6, <1>8, <2>2
  <2>4. found = {h \in AttSeen : h < at_start}
    BY <1>1, <1>3, <1>4, <1>5 DEF AttTold
  <2> QED BY <1>8, <2>1, <2>3, <2>4
<1> QED BY <1>7, <1>8

\* Whatever the table and the size of an answer, the client is told all there is but for a service
\* at the last handle, and no request goes on past anything it was not told (l2cap_att_handler,
\* l2cap_att_search).  If a characteristic has a value with a type of another length than its
\* own, it cannot make out the answer with that one: it was then told all before that answer.
THEOREM AttDiscoveredHolds == AttSpec => []AttDiscovered
BY AttInitInv, AttStepInv, AttInvDiscovered, PTL DEF AttSpec

\* The discovery comes to its end: every request begins behind the one before, because something
\* was told that the client could make out, or it is the last; and then there is nothing more
\* for the server to find, or a characteristic with a long type, behind where it began
\* (l2cap_att_handler answers with an error when it has nothing to tell).
THEOREM AttAdvances ==
  AttSpec => [][\/ at_start' > at_start
                \/ at_done' /\ (AttSeek(at_start) = 0 \/ \E h \in AttLong : at_start <= h)]_atVars
<1> DEFINE Ends == at_done' /\ (AttSeek(at_start) = 0 \/ \E h \in AttLong : at_start <= h)
<1>1. ASSUME AttInv, AttAsk
      PROVE  at_start' > at_start \/ Ends
  <2> DEFINE told == AttAnswer(at_start)
             next == AttNext(at_start, told)
  <2>1. /\ gAttributes \in AttTables /\ at_job \in {"service", "char", "info"}
        /\ AttRange /\ AttAt(at_start)
    BY <1>1 DEF AttInv
  <2>2. AttAt(next) /\ AttTold(at_start, next, told) /\ (told = <<>> => AttSeek(at_start) = 0)
    BY <2>1, AttAnswerTold
  <2>3. \/ AttReads(told) /\ at_start' = next /\ at_done' = (told = <<>> \/ at_start' > at_end)
        \/ ~AttReads(told) /\ at_done'
    BY <1>1 DEF AttAsk
  <2>4. at_from \in Nat /\ at_end \in Nat /\ AttSeen \subseteq at_from..at_end
        /\ AttSeen \subseteq Nat
    BY <2>1, AttRanges
  <2>5. at_start \in Nat /\ next \in Nat
    BY <2>1, <2>2, <2>4 DEF AttAt
  <2> HIDE DEF told, next
  <2>6. CASE AttReads(told) /\ told # <<>>
    <3>1. 1 \in 1..Len(told) /\ told[1] \in AttSeen
      BY <2>2, <2>6, ElementOfSeq DEF AttTold
    <3>2. at_start <= told[1] /\ told[1] < next /\ told[1] \in Nat
      BY <2>2, <2>4, <3>1 DEF AttTold
    <3> QED BY <2>3, <2>5, <2>6, <3>2
  <2>7. CASE AttReads(told) /\ told = <<>>
    BY <2>2, <2>3, <2>7
  <2>8. CASE ~AttReads(told)
    <3>1. \E h \in AttLong : at_start <= h
      BY <2>2, <2>5, <2>8, AttLongTold, AttSeenThere
    <3> QED BY <2>3, <2>8, <3>1
  <2> QED BY <2>6, <2>7, <2>8
<1>2. AttInv /\ [AttAsk]_atVars =>
        [\/ at_start' > at_start
         \/ at_done' /\ (AttSeek(at_start) = 0 \/ \E h \in AttLong : at_start <= h)]_atVars
  BY <1>1
<1> QED BY <1>2, AttInitInv, AttStepInv, PTL DEF AttSpec

-----------------------------------------------------------------------------
(***************************************************************************)
(* The parts side by side (MCParts).  The step of each keeps its invariant *)
(* whatever the others are in, for every value of all their constants.     *)
(***************************************************************************)

PartsInv ==
  TypeOK /\ KbTypeInv /\ KbLockInv /\ KmInv /\ VrInv /\ MmInv /\ RbInv /\ AttInv

LEMMA PartsStep ==
  PartsInv /\ [MCNext]_<<part, vars, kbVars, kmVars, vrVars, mmVars, rbVars, atVars>> => PartsInv'
<1> SUFFICES ASSUME PartsInv,
                    [MCNext]_<<part, vars, kbVars, kmVars, vrVars, mmVars, rbVars, atVars>>
             PROVE  PartsInv'
  OBVIOUS
<1>1. /\ [Next]_vars /\ [KbNext]_kbVars /\ [KmNext]_kmVars /\ [VrNext]_vrVars /\ [MmNext]_mmVars
      /\ [RbNext]_rbVars /\ [AttAsk]_atVars
  BY DEF MCNext
<1>2. TypeOK /\ KbTypeInv /\ KbLockInv /\ KmInv /\ VrInv /\ MmInv /\ RbInv /\ AttInv
  BY DEF PartsInv
<1>3. TypeOK'
  BY <1>1, <1>2, StepType
<1>4. KbTypeInv' /\ KbLockInv'
  BY <1>1, <1>2, KbTypesStep, KbLocksStep
<1>5. KmInv' /\ VrInv'
  BY <1>1, <1>2, KmInvStep, VrInvStep
<1>6. MmInv' /\ RbInv' /\ AttInv'
  BY <1>1, <1>2, MmStepInv, RbStepInv, AttStepInv
<1> QED BY <1>3, <1>4, <1>5, <1>6 DEF PartsInv

\* Every counter, index and pointer of the parts stays in its range (custom_binding_idx,
\* release_cnt, wptr, avail_memory, sount and the handles of the attribute server among them).
THEOREM PartsTypeCorrect == MCSpec => []PartsTypeOK
<1>1. MCInit => PartsInv
  BY InitType, KbInitTypes, KbInitLocks, KmInitInv, VrInitInv, MmInitInv, RbInitInv, AttInitInv
     DEF MCInit, PartsInv
<1>2. PartsInv => PartsTypeOK
  BY AttInvTypeOK DEF PartsInv, PartsTypeOK, KbTypeInv, KmInv, VrInv, MmInv, RbInv
<1> QED BY <1>1, <1>2, PartsStep, PTL DEF MCSpec
=============================================================================
