----------------------------- MODULE MouseProofs ----------------------------
(***************************************************************************)
(* Proofs about both ends of a button: the keys the pen makes of presses   *)
(* (mouse_button.c), for every threshold, and the ring of mouse frames the *)
(* dongle's interrupt and main loop share without a lock (usbmouse.c), for *)
(* every size.                                                             *)
(*                                                                         *)
(* Buttons.  The strengthening says what the counters of the code have to  *)
(* do with the time a button was down: as long as nobody slid from b to    *)
(* another button, btn_cnt[b] follows held; once b gave a long press its   *)
(* counter is at the threshold or beyond, so it cannot come to it again.   *)
(*                                                                         *)
(* Ring.  The strengthening says where the frame is that the main loop is  *)
(* at: the oldest in the ring or, once the interrupt has overflowed the    *)
(* ring in this pass, the one before.  The ring is full then, so that the  *)
(* store of the read pointer, which skips a frame in the second case,      *)
(* never empties it.                                                       *)
(***************************************************************************)
EXTENDS MCMouse, Integers, TLAPS

-----------------------------------------------------------------------------
\* The buttons.
T == RC_BUTTON_OVER_THRESH

\* btn_cnt[b] is what held says, for the button that is down, ...
CntFollowsHeld ==
  \A b \in {Left, Right} :
    b \notin slid /\ button_pre = b =>
      \/ held > 0 /\ btn_cnt[b] = held - 1
      \/ held = T + 1 /\ btn_cnt[b] = T + 1
\* ... and zero for another.
CntAtRest ==
  \A b \in {Left, Right} : b \notin slid /\ button_pre # b => btn_cnt[b] = 0
LongsAreOver == \A b \in longs : btn_cnt[b] >= T

IInv == PbTypeOK /\ (pb_spoiled \/ (CntFollowsHeld /\ CntAtRest /\ LongsAreOver))

LEMMA InitIInv == PbInit => IInv
<1> SUFFICES ASSUME PbInit PROVE IInv
  OBVIOUS
<1>1. 0 \in PbCount
  BY ThreshAssumption DEF PbCount
<1>2. PbTypeOK
  <2>1. button_pre \in PbValue /\ btn_cnt \in [1..3 -> PbCount] /\ long_left_cnt \in 0..1
    BY <1>1 DEF PbInit, PbValue
  <2> QED
    BY <1>1, <2>1 DEF PbInit, PbTypeOK, PbKey
<1>3. CntFollowsHeld /\ CntAtRest /\ LongsAreOver
  BY DEF PbInit, CntFollowsHeld, CntAtRest, LongsAreOver, Left, Right
<1> QED
  BY <1>2, <1>3 DEF IInv

\* The counter stays in its range, and does not fall.
LEMMA CountedFacts ==
  ASSUME NEW n \in PbCount
  PROVE  /\ PbCounted(n) \in PbCount
         /\ PbCounted(n) >= n
         /\ PbCounted(n) > 0
         /\ n < T + 1 => PbCounted(n) = n + 1
         /\ n = T + 1 => PbCounted(n) = T + 1
  BY ThreshAssumption DEF PbCounted, PbCount, T

LEMMA LongKeyType ==
  ASSUME NEW b \in {Left, Right}
  PROVE  LongKey(b) \in PbKey /\ LongKey(b) # NoKey /\ Short[b] \in PbKey
  BY DEF LongKey, PbKey, NoKey, Short, Left, Right

LEMMA SeenType ==
  ASSUME PbTypeOK, NEW button \in PbValue, PbSeen(button)
  PROVE  /\ button_pre' \in PbValue /\ held' \in PbCount /\ down' \in PbCount
         /\ slid' \subseteq PbValue \ {0} /\ longs' \subseteq {Left, Right}
<1>1. held' \in PbCount /\ down' \in PbCount
  BY CountedFacts, ThreshAssumption DEF PbSeen, PbTypeOK, PbCount
<1>2. slid' \subseteq PbValue \ {0}
  BY DEF PbSeen, PbTypeOK
<1> QED
  BY <1>1, <1>2 DEF PbSeen, PbTypeOK

LEMMA StepType ==
  ASSUME PbTypeOK, NEW button \in PbValue, PbSeen(button), ~pb_spoiled,
         AfterMid(button) \/ PbStillDown(button) \/ PbReleased(button) \/ PbOther(button)
  PROVE  PbTypeOK'
<1> SUFFICES /\ btn_cnt' \in [1..3 -> PbCount] /\ long_left_cnt' \in 0..1
             /\ map_value' \in PbKey /\ pb_spoiled' \in BOOLEAN
  BY SeenType DEF PbTypeOK
<1>1. CASE AfterMid(button) \/ PbOther(button)
  BY <1>1 DEF AfterMid, PbOther, PbTypeOK, PbKey, NoKey
<1>2. CASE PbStillDown(button) /\ button \notin 1..3
  BY <1>2 DEF PbStillDown, OutOfBounds, PbTypeOK, PbKey, NoKey
<1>3. CASE PbStillDown(button) /\ button \in 1..3
  <2>1. btn_cnt' \in [1..3 -> PbCount]
    BY <1>3, CountedFacts DEF PbStillDown, PbTypeOK
  <2>2. long_left_cnt' \in 0..1
    BY <1>3 DEF PbStillDown, PbTypeOK, Toggled
  <2>3. map_value' \in PbKey
    BY <1>3, LongKeyType DEF PbStillDown, PbKey, NoKey
  <2> QED
    BY <1>3, <2>1, <2>2, <2>3 DEF PbStillDown, PbTypeOK
<1>4. CASE PbReleased(button) /\ button_pre \notin 1..3
  BY <1>4 DEF PbReleased, OutOfBounds, PbTypeOK, PbKey, NoKey
<1>5. CASE PbReleased(button) /\ button_pre \in 1..3
  <2>1. btn_cnt' \in [1..3 -> PbCount]
    BY <1>5, ThreshAssumption DEF PbReleased, PbTypeOK, AfterRelease, PbCount
  <2>2. map_value' \in PbKey
    BY <1>5, LongKeyType DEF PbReleased, PbKey, NoKey
  <2> QED
    BY <1>5, <2>1, <2>2 DEF PbReleased, PbTypeOK
<1> QED
  BY <1>1, <1>2, <1>3, <1>4, <1>5

\* The three parts, one action at a time.
LEMMA StepCounts ==
  ASSUME IInv, NEW button \in PbValue, PbSeen(button), ~pb_spoiled, ~pb_spoiled',
         AfterMid(button) \/ PbStillDown(button) \/ PbReleased(button) \/ PbOther(button)
  PROVE  CntFollowsHeld' /\ CntAtRest' /\ LongsAreOver'
<1> USE DEF Left, Right, Mid
<1>1. CASE AfterMid(button)
  <2>1. btn_cnt' = btn_cnt /\ button_pre' = button /\ slid \subseteq slid' \cup {Mid}
    BY <1>1 DEF AfterMid, PbSeen
  <2>2. longs' \subseteq longs
    BY <1>1, LongKeyType DEF AfterMid, PbSeen
  <2>3. held' = IF button = Mid THEN PbCounted(held) ELSE 1
    BY <1>1 DEF AfterMid, PbSeen
  <2> QED
    BY <1>1, <2>1, <2>2, <2>3
       DEF AfterMid, IInv, CntFollowsHeld, CntAtRest, LongsAreOver
<1>2. CASE PbOther(button)
  <2>1. btn_cnt' = btn_cnt /\ button_pre' = button
    BY <1>2 DEF PbOther, PbSeen
  <2>2. longs' \subseteq longs
    BY <1>2, LongKeyType DEF PbOther, PbSeen
  <2>3. button # 0 => held' = IF button = button_pre THEN PbCounted(held) ELSE 1
    BY <1>2 DEF PbOther, PbSeen
  <2>4. slid' = IF button_pre = 0 THEN slid ELSE slid \cup {button_pre}
    BY <1>2 DEF PbOther, PbSeen
  <2>5. button # 0 => button # button_pre
    BY <1>2 DEF PbOther
  <2> QED
    BY <1>2, <2>1, <2>2, <2>3, <2>4, <2>5
       DEF PbOther, IInv, CntFollowsHeld, CntAtRest, LongsAreOver
<1>3. CASE PbStillDown(button)
  <2>1. button \in 1..3 /\ button = button_pre /\ slid' = slid /\ button_pre' = button
    BY <1>3 DEF PbStillDown, OutOfBounds, PbSeen
  <2>2. /\ btn_cnt \in [1..3 -> PbCount] /\ held \in PbCount
        /\ btn_cnt' = [btn_cnt EXCEPT ![button] = PbCounted(btn_cnt[button])]
        /\ held' = PbCounted(held)
    BY <1>3, <2>1 DEF PbStillDown, PbSeen, IInv, PbTypeOK
  <2>3. CntAtRest'
    BY <2>1, <2>2 DEF IInv, CntAtRest
  <2>4. CntFollowsHeld'
    <3> SUFFICES ASSUME button \in {1, 2}, button \notin slid
                 PROVE  \/ held' > 0 /\ btn_cnt'[button] = held' - 1
                        \/ held' = T + 1 /\ btn_cnt'[button] = T + 1
      BY <2>1 DEF CntFollowsHeld
    <3>1. \/ held > 0 /\ btn_cnt[button] = held - 1
          \/ held = T + 1 /\ btn_cnt[button] = T + 1
      BY <2>1 DEF IInv, CntFollowsHeld
    <3>2. btn_cnt'[button] = PbCounted(btn_cnt[button]) /\ btn_cnt[button] \in PbCount
      BY <2>1, <2>2
    <3> QED
      BY <3>1, <3>2, <2>2, CountedFacts, ThreshAssumption DEF PbCount, T
  <2>5. LongsAreOver'
    <3> SUFFICES ASSUME NEW b \in longs' PROVE btn_cnt'[b] >= T
      BY DEF LongsAreOver
    <3>1. b \in longs \/ (b = button /\ map_value' = LongKey(b) /\ b \in {1, 2})
      BY <2>1, <1>3 DEF PbSeen, PbStillDown
    <3>2. CASE b \in longs
      <4>1. b \in {1, 2} /\ btn_cnt[b] >= T
        BY <3>2 DEF IInv, LongsAreOver, PbTypeOK
      <4> QED
        BY <4>1, <2>1, <2>2, CountedFacts, ThreshAssumption DEF PbCount, T
    <3>3. CASE b = button /\ map_value' = LongKey(b) /\ b \in {1, 2}
      <4>1. map_value' # NoKey
        BY <3>3, LongKeyType
      <4>2. IsLong(PbCounted(btn_cnt[button]))
        BY <1>3, <2>1, <4>1 DEF PbStillDown
      <4> QED
        BY <3>3, <4>2, <2>2, ThreshAssumption DEF IsLong, T
    <3> QED
      BY <3>1, <3>2, <3>3
  <2> QED
    BY <2>3, <2>4, <2>5
<1>4. CASE PbReleased(button)
  <2>1. button_pre \in 1..3 /\ slid' = slid \ {button_pre} /\ button_pre' = 0
        /\ longs' = {}
    BY <1>4 DEF PbReleased, OutOfBounds, PbSeen
  <2>2. btn_cnt \in [1..3 -> PbCount] /\ btn_cnt' = [btn_cnt EXCEPT ![button_pre] = 0]
    BY <1>4, <2>1 DEF PbReleased, AfterRelease, IInv, PbTypeOK
  <2> QED
    BY <2>1, <2>2 DEF IInv, CntFollowsHeld, CntAtRest, LongsAreOver
<1> QED
  BY <1>1, <1>2, <1>3, <1>4

\* Every step of the pen keeps the strengthening.
LEMMA NextIInv == IInv /\ [PbNext]_pbVars => IInv'
<1> SUFFICES ASSUME IInv, [PbNext]_pbVars PROVE IInv'
  OBVIOUS
<1>1. CASE rc_button_process_and_mapping
  <2>1. PICK button \in PbValue :
          /\ AfterMid(button) \/ PbStillDown(button) \/ PbReleased(button) \/ PbOther(button)
          /\ PbSeen(button)
    BY <1>1 DEF rc_button_process_and_mapping
  <2>2. ~pb_spoiled
    BY <1>1 DEF rc_button_process_and_mapping
  <2> QED
    BY <2>1, <2>2, StepType, StepCounts DEF IInv
<1>2. CASE PbRestart
  <2>1. PbInit'
    BY <1>2 DEF PbRestart, PbInit
  <2> QED
    BY <2>1, InitIInv, PTL
<1>3. CASE UNCHANGED pbVars
  BY <1>3 DEF pbVars, IInv, PbTypeOK, CntFollowsHeld, CntAtRest, LongsAreOver
<1> QED
  BY <1>1, <1>2, <1>3 DEF PbNext

\* The strengthening is an invariant.
THEOREM Invariance == PbSpec => []IInv
BY InitIInv, NextIInv, PTL DEF PbSpec

\* The variables of mouse_button.c keep their types.
THEOREM TypeCorrect == PbSpec => []PbTypeOK
<1>1. IInv => PbTypeOK
  BY DEF IInv
<1> QED
  BY <1>1, Invariance, PTL

\* Slide as they may, the fingers get no second long press from a button before all
\* were up.
THEOREM OneLongPressHolds == PbSpec => OneLongPress
<1>1. ASSUME IInv, [PbNext]_pbVars
      PROVE  [map_value' \in {"LONG_LEFT", "LONG_LEFT_OVER", "LONG_RIGHT"}
                => button_pre' \notin longs]_pbVars
  <2> SUFFICES ASSUME rc_button_process_and_mapping \/ PbRestart,
                      map_value' \in {"LONG_LEFT", "LONG_LEFT_OVER", "LONG_RIGHT"}
               PROVE  button_pre' \notin longs
    BY <1>1 DEF PbNext
  <2>1. rc_button_process_and_mapping
    BY DEF PbRestart, NoKey
  <2>2. PICK button \in PbValue :
          /\ AfterMid(button) \/ PbStillDown(button) \/ PbReleased(button) \/ PbOther(button)
          /\ PbSeen(button)
    BY <2>1 DEF rc_button_process_and_mapping
  <2>3. PbStillDown(button)
    <3>1. ~AfterMid(button) /\ ~PbOther(button)
      BY DEF AfterMid, PbOther, NoKey
    <3>2. ~PbReleased(button)
      BY DEF PbReleased, OutOfBounds, NoKey, Short
    <3> QED
      BY <2>2, <3>1, <3>2
  <2>4. button \in {Left, Right} /\ IsLong(PbCounted(btn_cnt[button])) /\ button \in 1..3
    BY <2>3 DEF PbStillDown, OutOfBounds, NoKey
  <2>5. btn_cnt[button] \in PbCount /\ button_pre' = button
    BY <2>2, <2>4, <1>1 DEF PbSeen, IInv, PbTypeOK
  <2>6. ~(btn_cnt[button] >= T)
    BY <2>4, <2>5, ThreshAssumption DEF IsLong, PbCounted, PbCount, T
  <2>7. ~pb_spoiled
    BY <2>1 DEF rc_button_process_and_mapping
  <2> QED
    BY <1>1, <2>5, <2>6, <2>7 DEF IInv, LongsAreOver
<1> QED
  BY <1>1, Invariance, PTL DEF PbSpec, OneLongPress

\* A press of the left or right button, from which nobody slid, gives one key, and
\* which one depends on how long it took.
THEOREM OneKeyPerPressHolds == PbSpec => OneKeyPerPress
<1> USE DEF Left, Right, Mid
<1>1. ASSUME IInv, [PbNext]_pbVars
      PROVE  [\A b \in {Left, Right} :
                button_pre = b /\ b \notin slid \cup slid' /\ held' > 0 /\ ~pb_spoiled'
                  => map_value' = PbExpected(b, button_pre')]_pbVars
  <2> SUFFICES ASSUME rc_button_process_and_mapping \/ PbRestart,
                      NEW b \in {Left, Right}, button_pre = b,
                      b \notin slid, b \notin slid', held' > 0, ~pb_spoiled'
               PROVE  map_value' = PbExpected(b, button_pre')
    BY <1>1 DEF PbNext
  <2>1. rc_button_process_and_mapping
    BY DEF PbRestart
  <2>2. PICK button \in PbValue :
          /\ AfterMid(button) \/ PbStillDown(button) \/ PbReleased(button) \/ PbOther(button)
          /\ PbSeen(button)
    BY <2>1 DEF rc_button_process_and_mapping
  <2>3. ~pb_spoiled
    BY <2>1 DEF rc_button_process_and_mapping
  <2>4. /\ held \in PbCount /\ btn_cnt[b] \in PbCount
        /\ \/ held > 0 /\ btn_cnt[b] = held - 1
           \/ held = T + 1 /\ btn_cnt[b] = T + 1
    BY <1>1, <2>3 DEF IInv, PbTypeOK, CntFollowsHeld
  <2>5. button_pre' = button /\ button \in {0, b}
    BY <2>2 DEF PbSeen
  <2>6. CASE button = 0
    <3>1. map_value' = IF btn_cnt[b] > 0 /\ btn_cnt[b] < RC_BUTTON_OVER_THRESH
                       THEN Short[b] ELSE NoKey
      BY <2>2, <2>6 DEF AfterMid, PbStillDown, PbReleased, PbOther
    <3>2. held \in 2..T <=> btn_cnt[b] > 0 /\ btn_cnt[b] < T
      BY <2>4, ThreshAssumption DEF PbCount, T
    <3> QED
      BY <2>5, <2>6, <3>1, <3>2 DEF PbExpected, T
  <2>7. CASE button = b
    <3>1. map_value' = IF IsLong(PbCounted(btn_cnt[b])) THEN LongKey(b) ELSE NoKey
      BY <2>2, <2>7 DEF AfterMid, PbStillDown, PbReleased, PbOther
    <3>2. held = T <=> IsLong(PbCounted(btn_cnt[b]))
      BY <2>4, ThreshAssumption DEF PbCount, PbCounted, IsLong, T
    <3> QED
      BY <2>5, <2>7, <3>1, <3>2 DEF PbExpected, T
  <2> QED
    BY <2>5, <2>6, <2>7
<1> QED
  BY <1>1, Invariance, PTL DEF PbSpec, OneKeyPerPress

-----------------------------------------------------------------------------
\* The ring.

\* How many frames wait, and the place of the k-th position of the ring, both without %.
Count(w, r) == IF r <= w THEN w - r ELSE w - r + N
Place(k) == IF k < N THEN k ELSE k - N
Waiting == Count(usbmouse_wptr, usbmouse_rptr)

\* The newest frame that is no longer in the ring.
Gone == put - Waiting

Held ==
  \A i \in 1..Waiting : mouse_dat_buff[Place(usbmouse_rptr + i - 1)].id = Gone + i

\* The interrupt may have overflowed the ring in this pass: the frame the main loop is at is then
\* gone, and the ring full.
Overrun == visited /\ irq_left = 0 /\ Waiting = N - 1
AtHead == data.id = Gone + 1 \/ (Overrun /\ data.id = Gone)

Order ==
  /\ main # "loop" /\ irq_left > 0 => visited
  /\ main \in {"loop", "release", "clear"} => got <= Gone /\ (Waiting = 0 => got = put)
  /\ main = "read" =>
       /\ Waiting > 0
       /\ \/ reg = usbmouse_rptr /\ got <= Gone
          \/ /\ Overrun /\ usbmouse_rptr = Place(reg + 1)
             /\ got < Gone /\ mouse_dat_buff[reg].id = Gone
  /\ main = "report" => Waiting > 0 /\ got < data.id /\ AtHead
  /\ main \in {"advance", "store"} => Waiting > 0 /\ got = data.id /\ AtHead
  /\ main = "store" =>
       \/ reg = usbmouse_rptr
       \/ Overrun /\ usbmouse_rptr = Place(reg + 1) /\ data.id = Gone

-----------------------------------------------------------------------------
LEMMA RingConstants ==
  /\ N \in Nat /\ N > 2
  /\ 0 \in 0..N-1 /\ 0 \in 0..MaxPno
  /\ MaxPno \in Nat \ {0} /\ MaxEvents \in Nat
  BY RingAssumption

\* The pointers of the code wrap.
LEMMA ModPlace ==
  ASSUME NEW k \in 0..2*N-1
  PROVE  k % N = Place(k)
<1>1. N \in Nat \ {0}
  BY RingConstants
<1> QED BY <1>1 DEF Place

LEMMA BoundedPlace ==
  ASSUME NEW i \in 0..N-1
  PROVE  Bounded(i) = Place(i + 1) /\ Bounded(i) \in 0..N-1
<1>1. i + 1 \in 0..2*N-1
  BY RingConstants
<1>2. Bounded(i) = Place(i + 1)
  BY <1>1, ModPlace DEF Bounded
<1> QED BY <1>1, <1>2, RingConstants DEF Place

LEMMA PlaceInRing ==
  \A k \in 0..2*N-1 : Place(k) \in 0..N-1
  BY RingConstants DEF Place

LEMMA WaitingRange ==
  ASSUME NEW w \in 0..N-1, NEW r \in 0..N-1
  PROVE  /\ Count(w, r) \in 0..N-1
         /\ w = Place(r + Count(w, r))
         /\ Count(w, r) = 0 <=> w = r
         /\ (w + N - r) % N = Count(w, r)
<1>1. w + N - r \in 0..2*N-1
  BY RingConstants
<1>2. (w + N - r) % N = Place(w + N - r)
  BY <1>1, ModPlace
<1>3. Place(w + N - r) = Count(w, r)
  BY RingConstants DEF Count, Place
<1> QED BY <1>2, <1>3, RingConstants DEF Count, Place

\* A frame more, with and without room for it.
LEMMA CountAdd ==
  ASSUME NEW w \in 0..N-1, NEW r \in 0..N-1
  PROVE  /\ Place(w + 1) = r <=> Count(w, r) = N - 1
         /\ Place(w + 1) # r => Count(Place(w + 1), r) = Count(w, r) + 1
         /\ Place(w + 1) = r => Count(Place(w + 1), Place(r + 1)) = N - 1
  BY RingConstants DEF Count, Place

\* A frame less.
LEMMA CountRemove ==
  ASSUME NEW w \in 0..N-1, NEW r \in 0..N-1, Count(w, r) > 0
  PROVE  Count(w, Place(r + 1)) = Count(w, r) - 1
  BY RingConstants DEF Count, Place

-----------------------------------------------------------------------------
LEMMA RingInitType == Init => TypeOK
<1>1. Blank \in Frame
  BY DEF Blank, Frame, What
<1>2. [i \in 0..N-1 |-> Blank] \in [0..N-1 -> Frame]
  BY <1>1
<1>3. 0 \in 0..MaxEvents /\ 0 \in 0..MaxPno /\ 0 \in 0..N-1 /\ 0 \in Nat
  BY RingConstants
<1> QED BY <1>1, <1>2, <1>3 DEF Init, TypeOK

LEMMA AddType == TypeOK /\ usbmouse_add_frame => TypeOK'
<1> SUFFICES ASSUME TypeOK, usbmouse_add_frame PROVE TypeOK'
  OBVIOUS
<1>1. PICK what \in What :
        mouse_dat_buff' =
          [mouse_dat_buff EXCEPT ![usbmouse_wptr] = [id |-> put + 1, what |-> what]]
  BY DEF usbmouse_add_frame
<1>2. [id |-> put + 1, what |-> what] \in Frame
  BY DEF Frame, TypeOK
<1>3. mouse_dat_buff' \in [0..N-1 -> Frame]
  BY <1>1, <1>2 DEF TypeOK
<1>4. Bounded(usbmouse_wptr) \in 0..N-1 /\ Bounded(usbmouse_rptr) \in 0..N-1
  BY BoundedPlace DEF TypeOK
<1>5. irq_left' \in 0..MaxPno
  BY RingConstants DEF usbmouse_add_frame, AfterOverflow, TypeOK
<1> QED BY <1>3, <1>4, <1>5 DEF usbmouse_add_frame, hostVars, historyVars, TypeOK

LEMMA RingStepType == TypeOK /\ [Next]_vars => TypeOK'
<1> SUFFICES ASSUME TypeOK, [Next]_vars PROVE TypeOK'
  OBVIOUS
<1>1. CASE usbmouse_add_frame
  BY <1>1, AddType
<1>2. CASE callback_mouse
  <2>1. irq_left' \in 0..MaxPno
    BY <1>2, RingConstants DEF callback_mouse
  <2> QED BY <1>2, <2>1 DEF callback_mouse, Interrupted, ringVars, hostVars, historyVars, TypeOK
<1>3. CASE ForeignReport
  BY <1>3, RingConstants
     DEF ForeignReport, Event, Interrupted, ringVars, hostVars, historyVars, TypeOK
<1>4. CASE ReportTest
  BY <1>4 DEF ReportTest, ringVars, hostVars, historyVars, TypeOK
<1>5. CASE ReportRead
  <2>1. data' \in Frame
    BY <1>5 DEF ReportRead, TypeOK
  <2> QED BY <1>5, <2>1 DEF ReportRead, ringVars, hostVars, historyVars, TypeOK
<1>6. CASE ReportWrite
  BY <1>6 DEF ReportWrite, Written, Frame, ringVars, hostVars, historyVars, TypeOK
<1>7. CASE ReportAdvance
  BY <1>7 DEF ReportAdvance, ringVars, hostVars, historyVars, TypeOK
<1>8. CASE ReportStore
  <2>1. usbmouse_rptr' \in 0..N-1
    BY <1>8, BoundedPlace DEF ReportStore, TypeOK
  <2> QED BY <1>8, <2>1 DEF ReportStore, Outstanding, ringVars, hostVars, historyVars, TypeOK
<1>9. CASE ReleaseTest
  BY <1>9 DEF ReleaseTest, ringVars, hostVars, historyVars, TypeOK
<1>10. CASE Release
  BY <1>10 DEF Release, ReleaseWrite, ReleaseClear, Written, What, ringVars, hostVars,
               historyVars, TypeOK
<1>11. CASE HostCollects \/ TimePasses \/ HostConnects
  BY <1>11 DEF HostCollects, TimePasses, HostConnects, ringVars, hostVars, historyVars, TypeOK
<1>12. CASE HostDisconnects
  <2>1. events' \in 0..MaxEvents
    BY <1>12, RingConstants DEF HostDisconnects, Event, TypeOK
  <2> QED BY <1>12, <2>1 DEF HostDisconnects, ringVars, historyVars, TypeOK
<1>13. CASE UNCHANGED vars
  BY <1>13 DEF vars, ringVars, hostVars, historyVars, TypeOK
<1> QED BY <1>1, <1>2, <1>3, <1>4, <1>5, <1>6, <1>7, <1>8, <1>9, <1>10, <1>11, <1>12, <1>13
        DEF Next, Report

\* For every size of the ring pointers, registers and endpoint keep their types.
THEOREM RingTypeCorrect == Spec => []TypeOK
BY RingInitType, RingStepType, PTL DEF Spec

-----------------------------------------------------------------------------
RingInv == TypeOK /\ Held /\ Order

LEMMA RingInitInv == Init => RingInv
<1>1. Init => Waiting = 0
  BY RingConstants DEF Init, Waiting, Count
<1> QED BY <1>1, RingInitType, RingConstants DEF RingInv, Init, Held, Order, Gone

LEMMA WaitingFacts ==
  ASSUME TypeOK
  PROVE  /\ Waiting \in 0..N-1
         /\ usbmouse_wptr = Place(usbmouse_rptr + Waiting)
         /\ Waiting = 0 <=> usbmouse_wptr = usbmouse_rptr
         /\ Gone \in Int /\ put \in Nat /\ got \in Nat
<1>1. usbmouse_wptr \in 0..N-1 /\ usbmouse_rptr \in 0..N-1 /\ put \in Nat /\ got \in Nat
  BY DEF TypeOK
<1>2. /\ Waiting \in 0..N-1
      /\ usbmouse_wptr = Place(usbmouse_rptr + Waiting)
      /\ Waiting = 0 <=> usbmouse_wptr = usbmouse_rptr
  BY <1>1, WaitingRange DEF Waiting
<1> QED BY <1>1, <1>2 DEF Gone

\* Steps that leave the ring alone.
LEMMA HeldKept ==
  ASSUME Held, UNCHANGED <<mouse_dat_buff, usbmouse_wptr, usbmouse_rptr, put>>
  PROVE  Held' /\ Waiting' = Waiting /\ Gone' = Gone
  BY DEF Held, Waiting, Gone

LEMMA AddHeld ==
  ASSUME TypeOK, Held, usbmouse_add_frame
  PROVE  /\ Held'
         /\ \/ /\ usbmouse_rptr' = usbmouse_rptr
               /\ Waiting' = Waiting + 1 /\ Gone' = Gone
            \/ /\ usbmouse_rptr' = Place(usbmouse_rptr + 1) /\ irq_left' = 0
               /\ Waiting = N - 1 /\ Waiting' = N - 1 /\ Gone' = Gone + 1
         /\ \A k \in 0..N-1 : k # usbmouse_wptr => mouse_dat_buff'[k] = mouse_dat_buff[k]
<1> USE RingConstants
<1>1. PICK what \in What :
        mouse_dat_buff' =
          [mouse_dat_buff EXCEPT ![usbmouse_wptr] = [id |-> put + 1, what |-> what]]
  BY DEF usbmouse_add_frame
<1>2. /\ usbmouse_wptr \in 0..N-1 /\ usbmouse_rptr \in 0..N-1
      /\ mouse_dat_buff \in [0..N-1 -> Frame]
      /\ Waiting \in 0..N-1 /\ usbmouse_wptr = Place(usbmouse_rptr + Waiting)
      /\ put \in Nat /\ Gone \in Int /\ Gone = put - Waiting
  BY WaitingFacts DEF TypeOK, Gone
<1>3. /\ mouse_dat_buff'[usbmouse_wptr].id = put + 1
      /\ \A k \in 0..N-1 : k # usbmouse_wptr => mouse_dat_buff'[k] = mouse_dat_buff[k]
  BY <1>1, <1>2
<1>4. /\ usbmouse_wptr' = Place(usbmouse_wptr + 1)
      /\ Bounded(usbmouse_rptr) = Place(usbmouse_rptr + 1)
      /\ put' = put + 1
  BY <1>2, BoundedPlace DEF usbmouse_add_frame
<1>5. ASSUME NEW i \in 1..N-1, i <= Waiting
      PROVE  mouse_dat_buff'[Place(usbmouse_rptr + i - 1)].id = Gone + i
  <2>1. Place(usbmouse_rptr + i - 1) # usbmouse_wptr
    BY <1>2, <1>5 DEF Place
  <2>2. Place(usbmouse_rptr + i - 1) \in 0..N-1
    BY <1>2, PlaceInRing
  <2>3. mouse_dat_buff[Place(usbmouse_rptr + i - 1)].id = Gone + i
    BY <1>2, <1>5 DEF Held
  <2> QED BY <2>1, <2>2, <2>3, <1>3
<1>6. CASE Place(usbmouse_wptr + 1) # usbmouse_rptr
  <2>1. usbmouse_rptr' = usbmouse_rptr /\ Waiting' = Waiting + 1
    BY <1>2, <1>4, <1>6, CountAdd DEF usbmouse_add_frame, Waiting
  <2>2. Gone' = Gone
    BY <2>1, <1>2, <1>4 DEF Gone
  <2>3. Waiting + 1 <= N - 1
    BY <1>6, <1>2, CountAdd DEF Waiting
  <2>4. mouse_dat_buff'[Place(usbmouse_rptr + (Waiting + 1) - 1)].id = Gone + (Waiting + 1)
    BY <1>2, <1>3
  <2>5. ASSUME NEW i \in 1..Waiting + 1
        PROVE  mouse_dat_buff'[Place(usbmouse_rptr + i - 1)].id = Gone + i
    <3>1. CASE i <= Waiting
      <4>1. i \in 1..N-1
        BY <3>1, <1>2
      <4> QED BY <4>1, <3>1, <1>5
    <3>2. CASE i = Waiting + 1
      BY <3>2, <2>4
    <3> QED BY <3>1, <3>2, <1>2
  <2>6. Held'
    BY <2>1, <2>2, <2>5 DEF Held
  <2> QED BY <2>1, <2>2, <2>6, <1>3
<1>7. CASE Place(usbmouse_wptr + 1) = usbmouse_rptr
  <2>1. /\ usbmouse_rptr' = Place(usbmouse_rptr + 1) /\ irq_left' = 0
        /\ Waiting = N - 1 /\ Waiting' = N - 1
    BY <1>2, <1>4, <1>7, CountAdd DEF usbmouse_add_frame, AfterOverflow, Waiting
  <2>2. Gone' = Gone + 1
    BY <2>1, <1>2, <1>4 DEF Gone
  <2>3. ASSUME NEW i \in 1..N - 1
        PROVE  mouse_dat_buff'[Place(Place(usbmouse_rptr + 1) + i - 1)].id = Gone + 1 + i
    <3>1. Place(Place(usbmouse_rptr + 1) + i - 1) = Place(usbmouse_rptr + (i + 1) - 1)
      BY <1>2 DEF Place
    <3>2. CASE i < N - 1
      <4>1. i + 1 \in 1..N-1 /\ i + 1 <= Waiting
        BY <3>2, <2>1
      <4>2. mouse_dat_buff'[Place(usbmouse_rptr + (i + 1) - 1)].id = Gone + (i + 1)
        BY <4>1, <1>5
      <4> QED BY <3>1, <4>2, <1>2
    <3>3. CASE i = N - 1
      BY <3>1, <3>3, <2>1, <1>2, <1>3
    <3> QED BY <3>2, <3>3
  <2>4. Held'
    BY <2>1, <2>2, <2>3 DEF Held
  <2> QED BY <2>1, <2>2, <2>4, <1>3
<1> QED BY <1>6, <1>7

LEMMA AddOrder ==
  ASSUME RingInv, usbmouse_add_frame
  PROVE  Order'
<1> USE RingConstants
<1>1. /\ TypeOK /\ Held /\ Order /\ irq_left > 0 /\ irq_left \in Nat /\ irq_left' \in Nat
      /\ UNCHANGED <<main, reg, data, visited, got>>
      /\ data.id \in Nat /\ put' = put + 1 /\ ~Overrun
      /\ usbmouse_rptr \in 0..N-1 /\ reg \in 0..N-1
  BY DEF RingInv, usbmouse_add_frame, historyVars, TypeOK, Frame, Overrun, AfterOverflow
<1>2. Waiting \in 0..N-1 /\ Gone \in Int /\ got \in Nat /\ put \in Nat /\ Gone = put - Waiting
  BY <1>1, WaitingFacts DEF Gone
<1>3. CASE /\ usbmouse_rptr' = usbmouse_rptr
           /\ Waiting' = Waiting + 1 /\ Gone' = Gone
  BY <1>1, <1>2, <1>3 DEF Order, AtHead
<1>4. CASE /\ usbmouse_rptr' = Place(usbmouse_rptr + 1) /\ irq_left' = 0
           /\ Waiting = N - 1 /\ Waiting' = N - 1 /\ Gone' = Gone + 1
  <2>1. main # "loop" => visited /\ Overrun'
    BY <1>1, <1>4 DEF Order, Overrun
  <2>2. CASE main = "read"
    <3>1. reg = usbmouse_rptr /\ got <= Gone
      BY <1>1, <2>2 DEF Order
    <3>2. usbmouse_rptr # usbmouse_wptr /\ usbmouse_rptr = Place(usbmouse_rptr + 1 - 1)
      BY <1>1, <1>4, WaitingFacts DEF Place
    <3>3. mouse_dat_buff[usbmouse_rptr].id = Gone + 1
      <4>1. mouse_dat_buff[Place(usbmouse_rptr + 1 - 1)].id = Gone + 1
        BY <1>1, <1>4 DEF Held
      <4> QED BY <4>1, <3>2
    <3>4. mouse_dat_buff'[usbmouse_rptr] = mouse_dat_buff[usbmouse_rptr]
      BY <3>2, <1>1, AddHeld
    <3> QED BY <3>1, <3>3, <3>4, <2>1, <2>2, <1>1, <1>2, <1>4 DEF Order
  <2>3. CASE main = "report" \/ main = "advance"
    BY <2>1, <2>3, <1>1, <1>2, <1>4 DEF Order, AtHead
  <2>4. CASE main = "store"
    <3>1. reg = usbmouse_rptr /\ data.id = Gone + 1 /\ got = data.id
      BY <1>1, <2>4 DEF Order, AtHead
    <3> QED BY <3>1, <2>1, <2>4, <1>1, <1>2, <1>4 DEF Order, AtHead
  <2>5. CASE main \in {"loop", "release", "clear"}
    BY <2>1, <2>5, <1>1, <1>2, <1>4 DEF Order
  <2>6. main \in {"loop", "read", "report", "advance", "store", "release", "clear"}
    BY <1>1 DEF TypeOK
  <2> QED BY <2>2, <2>3, <2>4, <2>5, <2>6
<1> QED BY <1>1, <1>3, <1>4, AddHeld

\* The steps that are neither the interrupt's nor move the read pointer.
LEMMA MainOrder ==
  ASSUME RingInv, ReportTest \/ ReportRead \/ ReportWrite \/ ReportAdvance
  PROVE  Held' /\ Order'
<1> USE RingConstants
<1>1. /\ TypeOK /\ Held /\ Order /\ irq_left = 0
      /\ UNCHANGED <<mouse_dat_buff, usbmouse_wptr, usbmouse_rptr, put, irq_left>>
  BY DEF RingInv, ReportTest, ReportRead, ReportWrite, ReportAdvance, ringVars
<1>2. Held' /\ Waiting' = Waiting /\ Gone' = Gone
  BY <1>1, HeldKept
<1>3. /\ Waiting \in 0..N-1 /\ Gone \in Int /\ got \in Nat /\ put \in Nat
      /\ Waiting = 0 <=> usbmouse_wptr = usbmouse_rptr
  BY <1>1, WaitingFacts
<1>4. CASE ReportTest
  BY <1>1, <1>2, <1>3, <1>4 DEF ReportTest, Order, historyVars
<1>5. CASE ReportRead
  <2>1. usbmouse_rptr = Place(usbmouse_rptr + 1 - 1)
    BY <1>1 DEF Place, TypeOK
  <2>2. Waiting > 0 /\ mouse_dat_buff[usbmouse_rptr].id = Gone + 1
    BY <2>1, <1>1, <1>3, <1>5 DEF ReportRead, Order, Held
  <2>3. got <= Gone
    BY <1>1, <1>3, <1>5 DEF ReportRead, Order
  <2>4. got < data'.id /\ (data'.id = Gone + 1 \/ (Overrun /\ data'.id = Gone))
    BY <2>2, <2>3, <1>1, <1>3, <1>5 DEF ReportRead, Order
  <2>5. Overrun' = Overrun
    BY <1>1, <1>2, <1>5 DEF ReportRead, Overrun
  <2>6. main' \in {"report", "loop"} /\ got' = got
    BY <1>5 DEF ReportRead, historyVars
  <2> QED BY <2>2, <2>3, <2>4, <2>5, <2>6, <1>1, <1>2, <1>3 DEF Order, AtHead
<1>6. CASE ReportWrite
  <2>1. Overrun' = Overrun
    BY <1>1, <1>2, <1>6 DEF ReportWrite, Overrun
  <2> QED BY <2>1, <1>1, <1>2, <1>3, <1>6 DEF ReportWrite, Order, AtHead
<1>7. CASE ReportAdvance
  <2>1. Overrun' = Overrun
    BY <1>1, <1>2, <1>7 DEF ReportAdvance, Overrun
  <2> QED BY <2>1, <1>1, <1>2, <1>3, <1>7 DEF ReportAdvance, Order, AtHead, historyVars
<1> QED BY <1>2, <1>4, <1>5, <1>6, <1>7

\* The store of the read pointer takes one frame out, or none when the interrupt was first.
LEMMA StoreOrder ==
  ASSUME RingInv, ReportStore
  PROVE  Held' /\ Order'
<1> USE RingConstants
<1>1. /\ TypeOK /\ Held /\ Order /\ irq_left = 0 /\ main = "store" /\ main' = "loop"
      /\ UNCHANGED <<mouse_dat_buff, usbmouse_wptr, put, irq_left, got>>
      /\ reg \in 0..N-1 /\ usbmouse_rptr' = Place(reg + 1)
  BY BoundedPlace DEF RingInv, ReportStore, ringVars, historyVars, TypeOK
<1>2. /\ Waiting \in 0..N-1 /\ Gone \in Int /\ got \in Nat /\ put \in Nat /\ Gone = put - Waiting
      /\ usbmouse_wptr \in 0..N-1 /\ usbmouse_rptr \in 0..N-1
  BY <1>1, WaitingFacts DEF Gone, TypeOK
<1>3. Waiting > 0 /\ got = data.id /\ AtHead
  BY <1>1 DEF Order
<1>4. CASE reg = usbmouse_rptr
  <2>1. Waiting' = Waiting - 1
    BY <1>1, <1>2, <1>3, <1>4, CountRemove DEF Waiting
  <2>2. Gone' = Gone + 1
    BY <2>1, <1>1, <1>2 DEF Gone
  <2>3. ASSUME NEW i \in 1..Waiting - 1
        PROVE  mouse_dat_buff[Place(Place(usbmouse_rptr + 1) + i - 1)].id = Gone + 1 + i
    <3>1. Place(Place(usbmouse_rptr + 1) + i - 1) = Place(usbmouse_rptr + (i + 1) - 1)
      BY <1>2 DEF Place
    <3>2. i + 1 \in 1..Waiting
      BY <1>2
    <3>3. mouse_dat_buff[Place(usbmouse_rptr + (i + 1) - 1)].id = Gone + (i + 1)
      BY <3>2, <1>1 DEF Held
    <3> QED BY <3>1, <3>3, <1>2
  <2>4. Held'
    BY <2>1, <2>2, <2>3, <1>1, <1>4 DEF Held
  <2>5. got <= Gone + 1 /\ (Waiting = 1 => got = put)
    BY <1>2, <1>3 DEF AtHead, Overrun
  <2> QED BY <2>1, <2>2, <2>4, <2>5, <1>1, <1>2 DEF Order
<1>5. CASE Overrun /\ usbmouse_rptr = Place(reg + 1) /\ data.id = Gone
  <2>1. usbmouse_rptr' = usbmouse_rptr
    BY <1>1, <1>5
  <2>2. Held' /\ Waiting' = Waiting /\ Gone' = Gone
    BY <2>1, <1>1, HeldKept
  <2> QED BY <2>2, <1>1, <1>2, <1>3, <1>5 DEF Order
<1> QED BY <1>1, <1>4, <1>5 DEF Order

LEMMA RingStepInv == RingInv /\ [Next]_vars => RingInv'
<1> SUFFICES ASSUME RingInv, [Next]_vars PROVE RingInv'
  OBVIOUS
<1>1. TypeOK'
  BY RingStepType DEF RingInv
<1>2. CASE usbmouse_add_frame
  BY <1>1, <1>2, AddHeld, AddOrder DEF RingInv
<1>3. CASE ReportTest \/ Report
  BY <1>1, <1>3, MainOrder, StoreOrder DEF RingInv, Report
<1>4. CASE callback_mouse \/ ForeignReport
  <2>1. /\ UNCHANGED <<mouse_dat_buff, usbmouse_wptr, usbmouse_rptr, put, main, reg, data, got>>
        /\ irq_left = 0 /\ (main = "loop" \/ ~visited) /\ visited' = (main # "loop")
    BY <1>4 DEF callback_mouse, ForeignReport, MayInterrupt, Interrupted, ringVars, historyVars
  <2>2. Held' /\ Waiting' = Waiting /\ Gone' = Gone
    BY <2>1, HeldKept DEF RingInv
  <2>3. main # "loop" => ~Overrun
    BY <2>1 DEF Overrun
  <2> QED BY <1>1, <2>1, <2>2, <2>3 DEF RingInv, Order, AtHead
<1>5. CASE ReleaseTest \/ Release
  <2>1. /\ UNCHANGED <<mouse_dat_buff, usbmouse_wptr, usbmouse_rptr, put, irq_left, got>>
        /\ irq_left = 0 /\ main \in {"loop", "release", "clear"}
        /\ main' \in {"loop", "release", "clear"}
    BY <1>5 DEF ReleaseTest, Release, ReleaseWrite, ReleaseClear, ringVars, historyVars
  <2>2. Held' /\ Waiting' = Waiting /\ Gone' = Gone
    BY <2>1, HeldKept DEF RingInv
  <2> QED BY <1>1, <2>1, <2>2 DEF RingInv, Order
<1>6. CASE HostCollects \/ TimePasses \/ HostConnects \/ HostDisconnects \/ UNCHANGED vars
  <2>1. UNCHANGED <<mouse_dat_buff, usbmouse_wptr, usbmouse_rptr, put, irq_left, got, main, reg,
                    data, visited>>
    BY <1>6 DEF HostCollects, TimePasses, HostConnects, HostDisconnects, vars, ringVars, historyVars
  <2>2. Held' /\ Waiting' = Waiting /\ Gone' = Gone
    BY <2>1, HeldKept DEF RingInv
  <2> QED BY <1>1, <2>1, <2>2 DEF RingInv, Order, AtHead, Overrun
<1> QED BY <1>2, <1>3, <1>4, <1>5, <1>6 DEF Next

-----------------------------------------------------------------------------
LEMMA InvNewest == RingInv => NewestSurvives
<1> SUFFICES ASSUME RingInv PROVE NewestSurvives
  OBVIOUS
<1> DEFINE n == (usbmouse_wptr + N - usbmouse_rptr) % N
<1>1. n = Waiting /\ Waiting \in 0..N-1 /\ put \in Nat /\ usbmouse_rptr \in 0..N-1
  BY WaitingRange, WaitingFacts DEF Waiting, RingInv, TypeOK
<1>2. ASSUME NEW i \in 1..n
      PROVE  mouse_dat_buff[(usbmouse_rptr + i - 1) % N].id = put - n + i
  <2>1. usbmouse_rptr + i - 1 \in 0..2*N-1
    BY <1>1, RingConstants
  <2>2. (usbmouse_rptr + i - 1) % N = Place(usbmouse_rptr + i - 1)
    BY <2>1, ModPlace
  <2> QED BY <2>2, <1>1 DEF RingInv, Held, Gone
<1>3. n = 0 => got = put
  <2>1. main \in {"loop", "read", "report", "advance", "store", "release", "clear"}
    BY DEF RingInv, TypeOK
  <2> QED BY <2>1, <1>1 DEF RingInv, Order
<1> QED BY <1>2, <1>3 DEF NewestSurvives

\* For every size of the ring and of the packets, wherever the interrupt comes between the main
\* loop's two accesses to the read pointer: what is in the ring is an unbroken run of frames up to
\* the newest, which is there until the main loop has reported it (usbmouse.c).
THEOREM NewestSurvivesHolds == Spec => []NewestSurvives
BY RingInitInv, RingStepInv, InvNewest, PTL DEF Spec

\* A frame reported is newer than the one before, and was queued.
LEMMA RingStepStream ==
  RingInv /\ [Next]_vars => [Stream!Next]_<<put, got, FALSE, turn>>
<1> SUFFICES ASSUME RingInv, [Next]_vars
             PROVE  Stream!Next \/ UNCHANGED <<put, got, turn>>
  BY DEF Stream!Next
<1>1. CASE usbmouse_add_frame
  BY <1>1 DEF usbmouse_add_frame, historyVars, Stream!Next, Stream!Put
<1>2. CASE ReportWrite
  <2>1. got < data.id /\ data.id <= put /\ got \in Nat /\ data.id \in Nat /\ put \in Nat
    <3>1. TypeOK /\ Order /\ main = "report" /\ Waiting \in 0..N-1 /\ put \in Nat
      BY <1>2, WaitingFacts DEF ReportWrite, RingInv
    <3>2. data.id <= put
      BY <3>1, RingConstants DEF Order, AtHead, Gone
    <3> QED BY <3>1, <3>2 DEF Order, TypeOK, Frame
  <2>2. got' = data.id /\ turn' = ~turn /\ put' = put
    BY <1>2 DEF ReportWrite, ringVars
  <2> QED BY <2>1, <2>2 DEF Stream!Next, Stream!Deliver
<1>3. CASE Next /\ ~usbmouse_add_frame /\ ~ReportWrite
  BY <1>3 DEF Next, callback_mouse, ForeignReport, ReportTest, Report, ReportRead, ReportAdvance,
              ReportStore, ReleaseTest, Release, ReleaseWrite, ReleaseClear, HostCollects, TimePasses,
              HostConnects, HostDisconnects, ringVars, historyVars
<1>4. CASE UNCHANGED vars
  BY <1>4 DEF vars, ringVars, historyVars
<1> QED BY <1>1, <1>2, <1>3, <1>4

\* Though interrupt and main loop both write the read pointer, the ring of usbmouse.c implements
\* OrderedStream for every size: frames reach the endpoint in order, each at most once.
THEOREM RingInOrderOnceHolds == Spec => InOrderOnce
<1>1. Init => Stream!Init
  BY DEF Init, Stream!Init
<1> QED BY <1>1, RingInitInv, RingStepInv, RingStepStream, PTL DEF Spec, InOrderOnce, Stream!Spec

-----------------------------------------------------------------------------
\* Buttons and ring side by side keep the types of both (mouse_button.c, usbmouse.c).
THEOREM MouseTypeCorrect == MCFair => []MouseTypeOK
<1> DEFINE Inv == TypeOK /\ IInv
<1>1. MCInit => Inv
  BY RingInitType, InitIInv DEF MCInit
<1>2. Inv /\ [MCNext]_<<part, vars, pbVars>> => Inv'
  <2>1. TypeOK /\ [MCNext]_<<part, vars, pbVars>> => TypeOK'
    BY RingStepType DEF MCNext
  <2>2. IInv /\ [MCNext]_<<part, vars, pbVars>> => IInv'
    BY NextIInv DEF MCNext
  <2> QED BY <2>1, <2>2
<1>3. Inv => MouseTypeOK
  BY DEF MouseTypeOK, IInv
<1> QED BY <1>1, <1>2, <1>3, PTL DEF MCFair
=============================================================================
