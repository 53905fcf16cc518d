-------------------------- MODULE PenDeliveryProofs -------------------------
(***************************************************************************)
(* Proofs about the frames of the pen (vendor/mouse/mouse_rf.c) and the    *)
(* duplicate check of the dongle (callback_keyboard), for every size of    *)
(* the queue, of the sequence numbers and of the limits, any number of     *)
(* frames, and any loss and restart.                                       *)
(*                                                                         *)
(* Three parts strengthen the type invariant: how far km_wptr is ahead of  *)
(* km_rptr and what lies between them; that the budget of a frame exceeds  *)
(* what no_ack leaves of the limit on misses; and that the two sequence    *)
(* numbers are as far apart as frames were lost.                           *)
(***************************************************************************)
EXTENDS PenDelivery, Integers, TLAPS

\* One more place in the queue, and k more, without %.
Wrapped(k, m) == IF k < m THEN k ELSE k - m

-----------------------------------------------------------------------------
LEMMA ModSmall ==
  ASSUME NEW m \in Nat \ {0}, NEW k \in 0..2*m-1
  PROVE  k % m = Wrapped(k, m) /\ k % m \in 0..m-1
  BY DEF Wrapped

LEMMA ModThird ==
  ASSUME NEW m \in Nat \ {0}, NEW k \in 2*m..3*m-1
  PROVE  k % m = k - 2*m
  OBVIOUS

LEMMA Constants ==
  /\ N \in Nat /\ N > 0 /\ SeqMod \in Nat /\ SeqMod > 1
  /\ NoAckMax \in Nat /\ NoAckMax > 0 /\ Debounce \in Nat /\ Debounce > 0
  /\ RF_SYNC_PKT_TX_NUM = 3 * NoAckMax
  BY DeliveryAssumption DEF RF_SYNC_PKT_TX_NUM

\* What user_init sets is in range.
LEMMA Zeroes ==
  /\ Blank \in Frame
  /\ [i \in 0..N-1 |-> Blank] \in [0..N-1 -> Frame]
  /\ 0 \in 0..2*N-1 /\ 0 \in 0..SeqMod-1 /\ 0 \in 0..SeqMod
  /\ 0 \in 0..RF_SYNC_PKT_TX_NUM /\ 1 \in 0..Debounce /\ 1 \in 0..NoAckMax
<1>1. Blank \in Frame
  BY DEF Blank, Frame
<1> QED BY <1>1, Constants

LEMMA InitType ==
  ASSUME Init
  PROVE  TypeOK
  BY Zeroes DEF Init, TypeOK

LEMMA BootType ==
  ASSUME TypeOK, NEW mode \in {"poweron", "normal"}, NEW code \in BOOLEAN,
         Boot(mode, code), saved_linked' \in BOOLEAN
  PROVE  TypeOK'
  BY Zeroes DEF Boot, TypeOK

\* The queue with a frame added, and its pointers.
LEMMA QueuedType ==
  ASSUME TypeOK
  PROVE  /\ Queued \in [0..N-1 -> Frame]
         /\ QueuedPtrs.w \in 0..2*N-1 /\ QueuedPtrs.r \in 0..2*N-1
<1>1. km_wptr % N \in 0..N-1 /\ put + 1 \in Nat
  BY Constants DEF TypeOK
<1>2. [id |-> put + 1, key |-> rc_data] \in Frame
  BY <1>1 DEF TypeOK, Frame
<1>3. Queued \in [0..N-1 -> Frame]
  BY <1>1, <1>2 DEF TypeOK, Queued
<1>4. \A k \in Int : k % (2 * N) \in 0..2*N-1
  BY Constants
<1>5. (km_wptr + 1) % (2 * N) \in 0..2*N-1
  <2>1. km_wptr + 1 \in Int
    BY Constants DEF TypeOK
  <2> QED BY <1>4, <2>1
<1>6. (((km_wptr + 1) % (2 * N)) - N + 2 * N) % (2 * N) \in 0..2*N-1
  BY <1>4, <1>5, Constants
<1> QED BY <1>3, <1>5, <1>6 DEF QueuedPtrs, TypeOK

LEMMA GetType ==
  ASSUME TypeOK, NEW data \in [0..N-1 -> Frame], NEW w \in 0..2*N-1, NEW r \in 0..2*N-1,
         Get(data, w, r)
  PROVE  /\ km_rptr' \in 0..2*N-1 /\ km_dat_sending' \in BOOLEAN
         /\ km_dat_tx_cnt' \in 0..RF_SYNC_PKT_TX_NUM
         /\ pkt_seq' \in 0..SeqMod-1 /\ pkt_frame' \in Frame
         /\ on_air' \in {"none", "km"} /\ lost' \in 0..SeqMod
<1>1. r % N \in 0..N-1 /\ (r + 1) % (2 * N) \in 0..2*N-1
  BY Constants
<1>2. NextSeq \in 0..SeqMod-1
  BY Constants DEF NextSeq, TypeOK
<1>3. CASE km_dat_sending /\ km_dat_tx_cnt > 0
  BY <1>3, Constants DEF Get, TypeOK
<1>4. CASE ~(km_dat_sending /\ km_dat_tx_cnt > 0) /\ r # w
  <2>1. lost' \in 0..SeqMod /\ RF_SYNC_PKT_TX_NUM \in 0..RF_SYNC_PKT_TX_NUM
    BY <1>4, Constants DEF Get, TypeOK
  <2>2. data[r % N] \in Frame
    BY <1>1
  <2> QED BY <1>1, <1>2, <1>4, <2>1, <2>2 DEF Get
<1>5. CASE ~(km_dat_sending /\ km_dat_tx_cnt > 0) /\ r = w
  BY <1>5 DEF Get, TypeOK
<1> QED BY <1>3, <1>4, <1>5

\* What mouse_rf_prepare does, in the words of the lemmas.
Ptrs == IF Adds THEN QueuedPtrs ELSE [w |-> km_wptr, r |-> km_rptr]
Data == IF Adds THEN Queued ELSE km_data

LEMMA PreparedType ==
  ASSUME TypeOK
  PROVE  Data \in [0..N-1 -> Frame] /\ Ptrs.w \in 0..2*N-1 /\ Ptrs.r \in 0..2*N-1
  BY QueuedType DEF Data, Ptrs, TypeOK

LEMMA PrepareFacts ==
  ASSUME mouse_rf_prepare
  PROVE  /\ pc = "prepare" /\ pc' = "task"
         /\ put' = IF Adds THEN put + 1 ELSE put
         /\ km_data' = Data /\ km_wptr' = Ptrs.w
         /\ acked' = FALSE
         /\ UNCHANGED <<modeVars, dongleVars, no_ack, linked>>
         /\ mouse_rf_pkt = "km" => Get(Data, Ptrs.w, Ptrs.r)
         /\ mouse_rf_pkt # "km" =>
              /\ km_rptr' = Ptrs.r
              /\ on_air' \in {"none", "pairing"}
              /\ UNCHANGED <<km_dat_sending, km_dat_tx_cnt, pkt_seq, pkt_frame, lost>>
  BY DEF mouse_rf_prepare, Ptrs, Data

LEMMA PrepareType == TypeOK /\ mouse_rf_prepare => TypeOK'
<1> SUFFICES ASSUME TypeOK, mouse_rf_prepare PROVE TypeOK'
  OBVIOUS
<1>1. /\ km_rptr' \in 0..2*N-1 /\ km_dat_sending' \in BOOLEAN
      /\ km_dat_tx_cnt' \in 0..RF_SYNC_PKT_TX_NUM
      /\ pkt_seq' \in 0..SeqMod-1 /\ pkt_frame' \in Frame
      /\ on_air' \in {"none", "pairing", "km"} /\ lost' \in 0..SeqMod
  <2>1. CASE mouse_rf_pkt = "km"
    BY <2>1, PrepareFacts, PreparedType, GetType
  <2>2. CASE mouse_rf_pkt # "km"
    BY <2>2, PrepareFacts, PreparedType DEF TypeOK
  <2> QED BY <2>1, <2>2
<1>2. put' \in Nat /\ ms_dat_release' \in 0..Debounce
  BY PrepareFacts, Constants DEF mouse_rf_prepare, TypeOK
<1>3. km_data' \in [0..N-1 -> Frame] /\ km_wptr' \in 0..2*N-1 /\ pc' = "task" /\ acked' = FALSE
  BY PrepareFacts, PreparedType
<1>4. UNCHANGED <<modeVars, dongleVars, no_ack, linked>>
  BY PrepareFacts
<1> QED BY <1>1, <1>2, <1>3, <1>4 DEF TypeOK, modeVars, dongleVars

LEMMA HostHearsType == TypeOK /\ HostHears => TypeOK'
<1> SUFFICES ASSUME TypeOK, HostHears PROVE TypeOK'
  OBVIOUS
<1>1. acked' \in BOOLEAN /\ linked' \in BOOLEAN
  BY DEF HostHears
<1>2. CASE on_air = "km" /\ Fresh
  <2>1. turn' \in BOOLEAN /\ lost' \in 0..SeqMod
    BY <1>2, Constants DEF HostHears
  <2> QED BY <1>1, <1>2, <2>1 DEF HostHears, TypeOK, queueVars, modeVars
<1>3. CASE ~(on_air = "km" /\ Fresh)
  BY <1>1, <1>3 DEF HostHears, TypeOK, queueVars, modeVars, dongleVars
<1> QED BY <1>2, <1>3

LEMMA StepType == TypeOK /\ [Next]_vars => TypeOK'
<1> SUFFICES ASSUME TypeOK, [Next]_vars PROVE TypeOK'
  OBVIOUS
<1>1. CASE mouse_task_when_rf
  <2>1. linked' \in BOOLEAN /\ going_deep' \in BOOLEAN /\ rc_data' \in BOOLEAN
        /\ saved_linked' \in BOOLEAN
    BY <1>1 DEF mouse_task_when_rf, TypeOK
  <2> QED BY <1>1, <2>1 DEF mouse_task_when_rf, TypeOK, queueVars, dongleVars
<1>2. CASE SendDone
  <2>1. no_ack' \in 0..NoAckMax
    BY <1>2, Constants DEF SendDone, TypeOK
  <2>2. km_dat_sending' \in BOOLEAN
    BY <1>2, Zenon DEF SendDone, TypeOK
  <2> QED BY <1>2, <2>1, <2>2 DEF SendDone, TypeOK, modeVars, dongleVars
<1>3. CASE NextPass
  BY <1>3 DEF NextPass, TypeOK, queueVars, modeVars, dongleVars
<1>4. CASE DeepSleep
  BY <1>4, BootType DEF DeepSleep, TypeOK
<1>5. CASE PowerLoss
  BY <1>5, BootType DEF PowerLoss
<1>6. CASE DongleRestart
  BY <1>6, Constants DEF DongleRestart, TypeOK, queueVars, modeVars
<1>7. CASE UNCHANGED vars
  BY <1>7 DEF vars, TypeOK, queueVars, modeVars, dongleVars
<1> QED BY <1>1, <1>2, <1>3, <1>4, <1>5, <1>6, <1>7, PrepareType, HostHearsType DEF Next

\* The variables keep their types, whatever is lost and whoever restarts.
THEOREM TypeCorrect == Spec => []TypeOK
  BY InitType, StepType, PTL DEF Spec

-----------------------------------------------------------------------------
\* The budget.  Each pass that sends takes one off km_dat_tx_cnt and, unless it is answered,
\* adds one to no_ack; in between the two counters are out of step by one.
OnAirNow == pc \in {"task", "wait"} /\ on_air # "none"
Budget ==
  km_dat_sending =>
    km_dat_tx_cnt + no_ack >= 3 * NoAckMax + (IF OnAirNow THEN 0 ELSE 1)

LEMMA BudgetSuffices == TypeOK /\ Budget => BudgetLasts
  BY Constants DEF TypeOK, Budget, BudgetLasts, OnAirNow

LEMMA PrepareBudget ==
  ASSUME TypeOK, Budget, mouse_rf_prepare
  PROVE  Budget'
<1>1. pc = "prepare" /\ pc' = "task" /\ no_ack' = no_ack
  BY PrepareFacts
<1>2. CASE mouse_rf_pkt = "km"
  <2>1. Get(Data, Ptrs.w, Ptrs.r)
    BY <1>2, PrepareFacts
  <2>2. CASE km_dat_sending
    <3>1. km_dat_tx_cnt > 0
      BY <2>2, BudgetSuffices DEF BudgetLasts
    <3>2. km_dat_tx_cnt' = km_dat_tx_cnt - 1 /\ on_air' = "km"
      BY <2>1, <2>2, <3>1 DEF Get
    <3>3. km_dat_tx_cnt + no_ack >= 3 * NoAckMax + 1
      BY <1>1, <2>2 DEF Budget, OnAirNow
    <3>4. /\ km_dat_tx_cnt \in Nat /\ no_ack \in Nat
          /\ km_dat_tx_cnt' + no_ack' >= 3 * NoAckMax
      BY <1>1, <3>1, <3>2, <3>3, Constants DEF TypeOK
    <3>5. OnAirNow'
      BY <1>1, <3>2 DEF OnAirNow
    <3>6. km_dat_tx_cnt' + no_ack' >= 3 * NoAckMax + (IF OnAirNow' THEN 0 ELSE 1)
      BY <3>4, <3>5, Constants
    <3> QED BY <3>6 DEF Budget
  <2>3. CASE ~km_dat_sending /\ Ptrs.r # Ptrs.w
    <3>1. km_dat_tx_cnt' = 3 * NoAckMax /\ on_air' = "km"
      BY <2>1, <2>3, Constants DEF Get
    <3> QED BY <1>1, <3>1, Constants DEF Budget, OnAirNow, TypeOK
  <2>4. CASE ~km_dat_sending /\ Ptrs.r = Ptrs.w
    <3>1. km_dat_sending' = km_dat_sending
      BY <2>1, <2>4 DEF Get
    <3> QED BY <2>4, <3>1 DEF Budget
  <2> QED BY <2>2, <2>3, <2>4
<1>3. CASE mouse_rf_pkt # "km"
  <2>1. UNCHANGED <<km_dat_sending, km_dat_tx_cnt>>
    BY <1>3, PrepareFacts
  <2>2. ASSUME km_dat_sending
        PROVE  km_dat_tx_cnt' + no_ack' >= 3 * NoAckMax + (IF OnAirNow' THEN 0 ELSE 1)
    <3>1. km_dat_tx_cnt + no_ack >= 3 * NoAckMax + 1
      BY <1>1, <2>2 DEF Budget, OnAirNow
    <3>2. km_dat_tx_cnt \in Nat /\ no_ack \in Nat
      BY Constants DEF TypeOK
    <3> QED BY <1>1, <2>1, <3>1, <3>2, Constants
  <2> QED BY <2>1, <2>2 DEF Budget
<1> QED BY <1>2, <1>3

LEMMA SendDoneBudget ==
  ASSUME TypeOK, Budget, SendDone
  PROVE  Budget'
<1>1. CASE acked \/ no_ack >= NoAckMax
  <2>1. km_dat_sending' = FALSE
    BY <1>1, Constants DEF SendDone, TypeOK
  <2> QED BY <2>1 DEF Budget
<1>2. CASE ~acked /\ no_ack < NoAckMax
  <2>1. /\ no_ack' = no_ack + 1 /\ pc' = "end"
        /\ UNCHANGED <<km_dat_sending, km_dat_tx_cnt>>
    BY <1>2 DEF SendDone
  <2> QED BY <2>1, Constants DEF Budget, OnAirNow, TypeOK
<1> QED BY <1>1, <1>2, Constants DEF TypeOK

LEMMA StepBudget == TypeOK /\ Budget /\ [Next]_vars => Budget'
<1> SUFFICES ASSUME TypeOK, Budget, [Next]_vars PROVE Budget'
  OBVIOUS
<1>1. CASE HostHears
  BY <1>1 DEF HostHears, queueVars, Budget, OnAirNow
<1>2. CASE mouse_task_when_rf
  BY <1>2 DEF mouse_task_when_rf, queueVars, Budget, OnAirNow, TypeOK
<1>3. CASE NextPass
  BY <1>3 DEF NextPass, queueVars, Budget, OnAirNow, TypeOK
<1>4. CASE DeepSleep \/ PowerLoss
  BY <1>4 DEF DeepSleep, PowerLoss, Boot, Budget
<1>5. CASE DongleRestart \/ UNCHANGED vars
  BY <1>5 DEF DongleRestart, vars, queueVars, Budget, OnAirNow
<1> QED BY <1>1, <1>2, <1>3, <1>4, <1>5, PrepareBudget, SendDoneBudget DEF Next

\* The retransmission budget of a frame is never what makes km_data_get give it up, for every
\* limit on misses: RF_SYNC_PKT_TX_NUM is three times as large.
THEOREM BudgetLastsHolds == Spec => []BudgetLasts
<1>1. Init => Budget
  BY DEF Init, Budget
<1> QED BY <1>1, InitType, StepType, StepBudget, BudgetSuffices, PTL DEF Spec

-----------------------------------------------------------------------------
\* The sequence numbers, as long as nothing restarted.
InStep ==
  ~strange /\ lost < SeqMod =>
    /\ pkt_seq = Wrapped(seq_no_keyboard + lost, SeqMod)
    /\ lost = 0 => got = pkt_frame
    /\ acked /\ on_air = "km" => lost = 0

LEMMA PrepareInStep ==
  ASSUME TypeOK, InStep, mouse_rf_prepare
  PROVE  InStep'
<1>1. acked' = FALSE /\ UNCHANGED <<seq_no_keyboard, got, strange>>
  BY PrepareFacts DEF dongleVars
<1>2. CASE UNCHANGED <<pkt_seq, pkt_frame, lost>>
  BY <1>1, <1>2 DEF InStep, Wrapped
<1>3. CASE pkt_seq' = NextSeq /\ lost' = IF lost < SeqMod THEN lost + 1 ELSE SeqMod
  <2> SUFFICES ASSUME ~strange, lost' < SeqMod
               PROVE  pkt_seq' = Wrapped(seq_no_keyboard + lost', SeqMod) /\ lost' # 0
    BY <1>1 DEF InStep, Wrapped
  <2>1. lost \in Nat /\ lost < SeqMod /\ lost' = lost + 1 /\ lost' # 0
    BY <1>3, Constants DEF TypeOK
  <2>2. pkt_seq = Wrapped(seq_no_keyboard + lost, SeqMod)
    BY <1>1, <2>1 DEF InStep
  <2>3. pkt_seq \in 0..SeqMod-1 /\ pkt_seq + 1 \in 0..2*SeqMod-1
        /\ seq_no_keyboard \in 0..SeqMod-1
    BY Constants DEF TypeOK
  <2>4. pkt_seq' = Wrapped(pkt_seq + 1, SeqMod)
    BY <1>3, <2>3, ModSmall, Constants DEF NextSeq
  <2> QED BY <2>1, <2>2, <2>3, <2>4, Constants DEF Wrapped
<1>4. UNCHANGED <<pkt_seq, pkt_frame, lost>>
      \/ (pkt_seq' = NextSeq /\ lost' = IF lost < SeqMod THEN lost + 1 ELSE SeqMod)
  <2>1. CASE mouse_rf_pkt = "km"
    BY <2>1, PrepareFacts DEF Get
  <2>2. CASE mouse_rf_pkt # "km"
    BY <2>2, PrepareFacts
  <2> QED BY <2>1, <2>2
<1> QED BY <1>2, <1>3, <1>4

LEMMA HostHearsInStep ==
  ASSUME TypeOK, InStep, HostHears
  PROVE  InStep'
<1>1. CASE on_air = "km" /\ Fresh
  <2>1. /\ seq_no_keyboard' = pkt_seq /\ pkt_seq' = pkt_seq /\ lost' = 0
        /\ got' = pkt_frame /\ pkt_frame' = pkt_frame
    BY <1>1 DEF HostHears, queueVars
  <2>2. pkt_seq \in 0..SeqMod-1
    BY DEF TypeOK
  <2> QED BY <2>1, <2>2, Constants DEF InStep, Wrapped
<1>2. CASE ~(on_air = "km" /\ Fresh)
  <2>1. UNCHANGED <<pkt_seq, pkt_frame, lost, seq_no_keyboard, got, strange, on_air>>
    BY <1>2 DEF HostHears, queueVars, dongleVars
  <2>2. ASSUME ~strange, lost < SeqMod, on_air = "km" PROVE lost = 0
    <3>1. pkt_seq = seq_no_keyboard
      BY <1>2, <2>2 DEF Fresh
    <3>2. pkt_seq = Wrapped(seq_no_keyboard + lost, SeqMod)
      BY <2>2 DEF InStep
    <3> QED BY <2>2, <3>1, <3>2, Constants DEF TypeOK, Wrapped
  <2> QED BY <2>1, <2>2 DEF InStep, Wrapped
<1> QED BY <1>1, <1>2

LEMMA StepInStep == TypeOK /\ InStep /\ [Next]_vars => InStep'
<1> SUFFICES ASSUME TypeOK, InStep, [Next]_vars PROVE InStep'
  OBVIOUS
<1> USE DEF InStep, Wrapped
<1>1. CASE mouse_task_when_rf
  BY <1>1 DEF mouse_task_when_rf, queueVars, dongleVars
<1>2. CASE SendDone
  BY <1>2 DEF SendDone, dongleVars
<1>3. CASE NextPass
  BY <1>3 DEF NextPass, queueVars, dongleVars
<1>4. CASE DeepSleep \/ PowerLoss
  BY <1>4 DEF DeepSleep, PowerLoss, Boot
<1>5. CASE DongleRestart
  BY <1>5 DEF DongleRestart
<1>6. CASE UNCHANGED vars
  BY <1>6 DEF vars, queueVars, dongleVars
<1> QED BY <1>1, <1>2, <1>3, <1>4, <1>5, <1>6, PrepareInStep, HostHearsInStep DEF Next

\* A frame the dongle acknowledged was passed on to the computer, unless a restart or a full
\* turn of lost sequence numbers made the numbers meet by chance.
THEOREM AckedWasPassedOnHolds == Spec => []AckedWasPassedOn
<1>1. Init => InStep
  BY Constants DEF Init, InStep, Wrapped, Blank
<1>2. InStep => AckedWasPassedOn
  BY DEF InStep, AckedWasPassedOn
<1> QED BY <1>1, <1>2, InitType, StepType, StepInStep, PTL DEF Spec

-----------------------------------------------------------------------------
\* The queue.  Without %: how many frames lie between the pointers, and the place of the
\* k-th position of the ring, for the positions a run of N frames reaches.
Count(w, r) == IF r <= w THEN w - r ELSE w - r + 2 * N
Place(k) == IF k < N THEN k ELSE IF k < 2 * N THEN k - N ELSE k - 2 * N

\* The frames queued are the last ones of those numbered up to p.
Held(data, w, r, p) ==
  /\ Count(w, r) <= N
  /\ \A i \in 1..Count(w, r) : data[Place(r + i - 1)].id = p - Count(w, r) + i

LEMMA FramesCount ==
  ASSUME NEW w \in 0..2*N-1, NEW r \in 0..2*N-1
  PROVE  Frames(w, r) = Count(w, r) /\ Count(w, r) \in 0..2*N-1
<1>1. 2 * N \in Nat \ {0} /\ w - r + 2 * N \in 0..2*(2*N)-1
  BY Constants
<1>2. (w - r + 2 * N) % (2 * N) = Wrapped(w - r + 2 * N, 2 * N)
  BY <1>1, ModSmall
<1> QED BY <1>2, Constants DEF Frames, Count, Wrapped

LEMMA PlaceMod ==
  ASSUME NEW k \in 0..3*N-1
  PROVE  k % N = Place(k) /\ Place(k) \in 0..N-1
<1>1. CASE k < 2 * N
  BY <1>1, ModSmall, Constants DEF Place, Wrapped
<1>2. CASE k >= 2 * N
  BY <1>2, ModThird, Constants DEF Place
<1> QED BY <1>1, <1>2, Constants

LEMMA HeldSuffices ==
  ASSUME TypeOK, Held(km_data, km_wptr, km_rptr, put)
  PROVE  QueueHoldsLatest
<1>1. Frames(km_wptr, km_rptr) = Count(km_wptr, km_rptr)
      /\ Count(km_wptr, km_rptr) \in 0..N
  BY FramesCount DEF TypeOK, Held
<1>2. ASSUME NEW i \in 1..Count(km_wptr, km_rptr)
      PROVE  (km_rptr + i - 1) % N = Place(km_rptr + i - 1)
  <2>1. km_rptr + i - 1 \in 0..3*N-1
    BY <1>1, Constants DEF TypeOK
  <2> QED BY <2>1, PlaceMod
<1> QED BY <1>1, <1>2 DEF Held, QueueHoldsLatest

\* km_data_add.
LEMMA QueuedHeld ==
  ASSUME TypeOK, Held(km_data, km_wptr, km_rptr, put)
  PROVE  Held(Queued, QueuedPtrs.w, QueuedPtrs.r, put + 1)
<1> DEFINE n == Count(km_wptr, km_rptr)
<1>1. /\ km_wptr \in 0..2*N-1 /\ km_rptr \in 0..2*N-1 /\ n \in 0..N /\ put \in Nat
      /\ N \in Nat /\ N > 0
  BY FramesCount, Constants DEF TypeOK, Held
<1>2. QueuedPtrs.w = Wrapped(km_wptr + 1, 2 * N) /\ QueuedPtrs.w \in 0..2*N-1
  <2>1. 2 * N \in Nat \ {0} /\ km_wptr + 1 \in 0..2*(2*N)-1
    BY <1>1
  <2> QED BY <2>1, ModSmall DEF QueuedPtrs
<1>3. km_wptr % N = Place(km_wptr) /\ Place(km_wptr) \in 0..N-1
  BY <1>1, PlaceMod
<1>4. /\ \A k \in 0..N-1 : k # Place(km_wptr) => Queued[k] = km_data[k]
      /\ Queued[Place(km_wptr)].id = put + 1
  BY <1>3 DEF Queued, TypeOK
<1>5. CASE Frames(QueuedPtrs.w, km_rptr) <= N
  <2>1. QueuedPtrs.r = km_rptr
    BY <1>1, <1>2, <1>5, FramesCount DEF QueuedPtrs
  <2>2. Count(QueuedPtrs.w, km_rptr) = n + 1 \/ Count(QueuedPtrs.w, km_rptr) = 0
    BY <1>1, <1>2 DEF Wrapped, Count
  <2>3. CASE Count(QueuedPtrs.w, km_rptr) = 0
    BY <2>1, <2>3, <1>1 DEF Held
  <2>4. CASE Count(QueuedPtrs.w, km_rptr) = n + 1
    <3>1. n + 1 <= N
      BY <2>4, <1>2, <1>1, <1>5, FramesCount
    <3>2. ASSUME NEW i \in 1..n+1
          PROVE  Queued[Place(km_rptr + i - 1)].id = (put + 1) - (n + 1) + i
      <4>1. CASE i = n + 1
        <5>1. Place(km_rptr + i - 1) = Place(km_wptr)
          BY <1>1, <4>1, <3>1 DEF Place, Count
        <5> QED BY <1>1, <1>4, <4>1, <5>1
      <4>2. CASE i \in 1..n
        <5>1. /\ Place(km_rptr + i - 1) # Place(km_wptr)
              /\ Place(km_rptr + i - 1) \in 0..N-1
          BY <1>1, <4>2, <3>1 DEF Place, Count
        <5>2. km_data[Place(km_rptr + i - 1)].id = put - n + i
          BY <4>2 DEF Held
        <5> QED BY <1>1, <1>4, <5>1, <5>2
      <4> QED BY <4>1, <4>2, <1>1
    <3> QED BY <2>1, <2>4, <3>1, <3>2 DEF Held
  <2> QED BY <2>2, <2>3, <2>4
<1>6. CASE Frames(QueuedPtrs.w, km_rptr) > N
  <2>1. n = N
    BY <1>1, <1>2, <1>6, FramesCount DEF Wrapped, Count
  <2>2. QueuedPtrs.r = (QueuedPtrs.w - N + 2 * N) % (2 * N)
    BY <1>6 DEF QueuedPtrs
  <2>3. QueuedPtrs.r = Wrapped(km_rptr + 1, 2 * N)
    <3>1. 2 * N \in Nat \ {0} /\ QueuedPtrs.w - N + 2 * N \in 0..2*(2*N)-1
      BY <1>1, <1>2
    <3>2. QueuedPtrs.r = Wrapped(QueuedPtrs.w - N + 2 * N, 2 * N)
      BY <2>2, <3>1, ModSmall
    <3> QED BY <1>1, <1>2, <2>1, <3>2 DEF Wrapped, Count
  <2>4. Count(QueuedPtrs.w, QueuedPtrs.r) = N
    BY <1>1, <1>2, <2>1, <2>3 DEF Wrapped, Count
  <2>5. ASSUME NEW i \in 1..N
        PROVE  Queued[Place(QueuedPtrs.r + i - 1)].id = (put + 1) - N + i
    <3>1. CASE i = N
      <4>1. Place(QueuedPtrs.r + i - 1) = Place(km_wptr)
        BY <1>1, <2>1, <2>3, <3>1 DEF Place, Wrapped, Count
      <4> QED BY <1>1, <1>4, <3>1, <4>1
    <3>2. CASE i \in 1..N-1
      <4>1. /\ Place(QueuedPtrs.r + i - 1) = Place(km_rptr + (i + 1) - 1)
            /\ Place(QueuedPtrs.r + i - 1) # Place(km_wptr)
            /\ Place(QueuedPtrs.r + i - 1) \in 0..N-1
        BY <1>1, <2>1, <2>3, <3>2 DEF Place, Wrapped, Count
      <4>2. i + 1 \in 1..n
        BY <1>1, <2>1, <3>2
      <4>3. km_data[Place(km_rptr + (i + 1) - 1)].id = put - n + (i + 1)
        BY <4>2 DEF Held
      <4> QED BY <1>1, <1>4, <2>1, <4>1, <4>3
    <3> QED BY <3>1, <3>2, <1>1
  <2> QED BY <1>1, <2>4, <2>5 DEF Held
<1>7. Frames(QueuedPtrs.w, km_rptr) \in Nat
  BY <1>1, <1>2, FramesCount
<1> QED BY <1>1, <1>5, <1>6, <1>7

\* km_data_get takes the oldest frame, or none.
LEMMA GetHeld ==
  ASSUME N \in Nat, N > 0, NEW data, NEW w \in 0..2*N-1, NEW r \in 0..2*N-1, NEW p \in Nat,
         Held(data, w, r, p), Get(data, w, r)
  PROVE  Held(data, w, km_rptr', p)
<1>1. CASE km_rptr' = r
  BY <1>1
<1>2. CASE r # w /\ km_rptr' = (r + 1) % (2 * N)
  <2> DEFINE n == Count(w, r)
  <2>1. n \in 1..N
    BY <1>2, FramesCount DEF Held, Count
  <2>2. km_rptr' = Wrapped(r + 1, 2 * N)
    <3>1. 2 * N \in Nat \ {0} /\ r + 1 \in 0..2*(2*N)-1
      OBVIOUS
    <3> QED BY <1>2, <3>1, ModSmall
  <2>3. Count(w, km_rptr') = n - 1
    BY <1>2, <2>2 DEF Wrapped, Count
  <2>4. ASSUME NEW i \in 1..n-1
        PROVE  data[Place(km_rptr' + i - 1)].id = p - (n - 1) + i
    <3>1. Place(km_rptr' + i - 1) = Place(r + (i + 1) - 1)
      BY <2>1, <2>2, <2>4 DEF Place, Wrapped
    <3>2. i + 1 \in 1..n
      BY <2>1, <2>4
    <3>3. data[Place(r + (i + 1) - 1)].id = p - n + (i + 1)
      BY <3>2 DEF Held
    <3> QED BY <2>1, <3>1, <3>3
  <2> QED BY <2>1, <2>3, <2>4 DEF Held
<1>3. km_rptr' = r \/ (r # w /\ km_rptr' = (r + 1) % (2 * N))
  BY DEF Get
<1> QED BY <1>1, <1>2, <1>3

HeldNow == Held(km_data, km_wptr, km_rptr, put)

LEMMA PrepareHeld ==
  ASSUME TypeOK, HeldNow, mouse_rf_prepare
  PROVE  HeldNow'
<1>1. put' \in Nat /\ Held(Data, Ptrs.w, Ptrs.r, put')
  <2>1. CASE Adds
    BY <2>1, QueuedHeld, PrepareFacts DEF HeldNow, Data, Ptrs, TypeOK
  <2>2. CASE ~Adds
    BY <2>2, PrepareFacts DEF HeldNow, Data, Ptrs, TypeOK
  <2> QED BY <2>1, <2>2
<1>2. Held(Data, Ptrs.w, km_rptr', put')
  <2>1. CASE mouse_rf_pkt = "km"
    BY <1>1, <2>1, PrepareFacts, PreparedType, GetHeld, Constants
  <2>2. CASE mouse_rf_pkt # "km"
    BY <1>1, <2>2, PrepareFacts
  <2> QED BY <2>1, <2>2
<1> QED BY <1>2, PrepareFacts DEF HeldNow, Held, Count, Place

LEMMA EmptyHeld ==
  ASSUME NEW data, NEW p
  PROVE  Held(data, 0, 0, p)
  BY Constants DEF Held, Count

LEMMA StepHeld == TypeOK /\ HeldNow /\ [Next]_vars => HeldNow'
<1> SUFFICES ASSUME TypeOK, HeldNow, [Next]_vars PROVE HeldNow'
  OBVIOUS
<1>1. CASE UNCHANGED <<km_data, km_wptr, km_rptr, put>>
  BY <1>1 DEF HeldNow, Held, Count, Place
<1>2. CASE \E mode \in {"poweron", "normal"}, code \in BOOLEAN : Boot(mode, code)
  BY <1>2, EmptyHeld DEF Boot, HeldNow
<1>3. DeepSleep \/ PowerLoss => \E mode \in {"poweron", "normal"}, code \in BOOLEAN : Boot(mode, code)
  BY DEF DeepSleep, PowerLoss, TypeOK
<1>4. HostHears \/ mouse_task_when_rf \/ SendDone \/ NextPass \/ DongleRestart \/ UNCHANGED vars
        => UNCHANGED <<km_data, km_wptr, km_rptr, put>>
  BY DEF HostHears, mouse_task_when_rf, SendDone, NextPass, DongleRestart, vars, queueVars
<1> QED BY <1>1, <1>2, <1>3, <1>4, PrepareHeld DEF Next

\* The queue holds an unbroken run of frames up to the newest, for every size and however often
\* the pointers of km_data_add and km_data_get wrapped.
THEOREM QueueHoldsLatestHolds == Spec => []QueueHoldsLatest
<1>1. Init => HeldNow
  BY EmptyHeld DEF Init, HeldNow
<1>2. TypeOK /\ HeldNow => QueueHoldsLatest
  BY HeldSuffices DEF HeldNow
<1> QED BY <1>1, <1>2, InitType, StepType, StepHeld, PTL DEF Spec

-----------------------------------------------------------------------------
\* Order.  What waits in the queue is newer than what was passed on, and so is the frame being
\* sent when the dongle would take it; a replugged dongle may take the last one again.
Active == on_air = "km" \/ km_dat_sending
Order ==
  /\ got.id <= put - Count(km_wptr, km_rptr)
  /\ Active => got.id <= pkt_frame.id /\ pkt_frame.id <= put - Count(km_wptr, km_rptr)
  /\ Active /\ Fresh /\ ~replugged => got.id < pkt_frame.id

LEMMA Ids ==
  ASSUME TypeOK
  PROVE  /\ got.id \in Nat /\ pkt_frame.id \in Nat /\ put \in Nat
         /\ Count(km_wptr, km_rptr) \in 0..2*N-1
  BY FramesCount DEF TypeOK, Frame

\* km_data_add leaves no frame newer than those it counts.
LEMMA QueuedCount ==
  ASSUME TypeOK, HeldNow
  PROVE  /\ Count(Ptrs.w, Ptrs.r) \in 0..N
         /\ put - Count(km_wptr, km_rptr)
              <= (IF Adds THEN put + 1 ELSE put) - Count(Ptrs.w, Ptrs.r)
<1> DEFINE n == Count(km_wptr, km_rptr)
           m == Count(QueuedPtrs.w, QueuedPtrs.r)
<1>1. n \in 0..N /\ put \in Nat /\ N \in Nat /\ N > 0
  BY Ids, Constants DEF HeldNow, Held
<1>2. CASE ~Adds
  BY <1>1, <1>2 DEF Ptrs
<1>3. CASE Adds
  <2>1. /\ QueuedPtrs.w \in 0..2*N-1 /\ QueuedPtrs.r \in 0..2*N-1
        /\ km_wptr \in 0..2*N-1 /\ km_rptr \in 0..2*N-1
    BY QueuedType DEF TypeOK
  <2>2. QueuedPtrs.w = Wrapped(km_wptr + 1, 2 * N)
    <3>1. 2 * N \in Nat \ {0} /\ km_wptr + 1 \in 0..2*(2*N)-1
      BY <1>1, <2>1
    <3> QED BY <3>1, ModSmall DEF QueuedPtrs
  <2>3. m \in Nat
    BY <1>1, <2>1 DEF Count
  <2>4. m <= N
    BY QueuedHeld DEF HeldNow, Held
  <2>5. CASE QueuedPtrs.r = km_rptr
    <3>1. m <= n + 1
      BY <1>1, <2>1, <2>2, <2>5 DEF Count, Wrapped
    <3> HIDE DEF n, m
    <3>2. put - n <= put + 1 - m
      BY <1>1, <2>3, <3>1
    <3> QED BY <1>1, <1>3, <2>3, <2>4, <3>2 DEF Ptrs, n, m
  <2>6. CASE QueuedPtrs.r # km_rptr
    <3>1. Frames(QueuedPtrs.w, km_rptr) > N
      BY <2>6 DEF QueuedPtrs
    <3>2. n = N
      BY <1>1, <2>1, <2>2, <3>1, FramesCount DEF Count, Wrapped
    <3> HIDE DEF n, m
    <3>3. put - n <= put + 1 - m
      BY <1>1, <2>3, <2>4, <3>2
    <3> QED BY <1>1, <1>3, <2>3, <2>4, <3>3 DEF Ptrs, n, m
  <2> QED BY <2>5, <2>6
<1> QED BY <1>2, <1>3

LEMMA PrepareOrder ==
  ASSUME TypeOK, HeldNow, Order, mouse_rf_prepare
  PROVE  Order'
<1> DEFINE n == Count(km_wptr, km_rptr)
           m == Count(Ptrs.w, Ptrs.r)
<1>1. UNCHANGED <<got, seq_no_keyboard, replugged>>
  BY PrepareFacts DEF dongleVars
<1>2. m \in 0..N /\ n \in Nat /\ put' \in Nat /\ put - n <= put' - m
  BY QueuedCount, Ids, PrepareFacts
<1>3. Ptrs.w \in 0..2*N-1 /\ Ptrs.r \in 0..2*N-1 /\ km_wptr' = Ptrs.w
  BY PreparedType, PrepareFacts
<1>4. CASE /\ km_rptr' = Ptrs.r /\ UNCHANGED <<km_dat_sending, pkt_seq, pkt_frame>>
           /\ Active' => Active
  <2>1. Count(km_wptr', km_rptr') = m
    BY <1>3, <1>4
  <2>2. got.id <= put' - m
    BY <1>2, Ids DEF Order
  <2>3. Active' => got.id <= pkt_frame.id /\ pkt_frame.id <= put' - m
    BY <1>2, <1>4, Ids DEF Order
  <2>4. Active' /\ Fresh' /\ ~replugged' => got.id < pkt_frame.id
    BY <1>1, <1>4 DEF Order, Fresh
  <2>5. Count(km_wptr, km_rptr)' = m
    BY <2>1 DEF Count
  <2> QED BY <1>1, <1>4, <2>2, <2>3, <2>4, <2>5 DEF Order
<1>5. CASE /\ Ptrs.r # Ptrs.w /\ km_rptr' = (Ptrs.r + 1) % (2 * N)
           /\ pkt_frame' = Data[Ptrs.r % N]
  <2>1. m \in 1..N
    BY <1>2, <1>3, <1>5, Constants DEF Count
  <2>2. pkt_frame'.id = put' - m + 1
    <3>1. Held(Data, Ptrs.w, Ptrs.r, put')
      <4>1. CASE Adds
        BY <4>1, QueuedHeld, PrepareFacts DEF HeldNow, Data, Ptrs
      <4>2. CASE ~Adds
        BY <4>2, PrepareFacts DEF HeldNow, Data, Ptrs
      <4> QED BY <4>1, <4>2
    <3>2. 1 \in 1..m
      BY <2>1
    <3>3. Data[Place(Ptrs.r + 1 - 1)].id = put' - m + 1
      BY <3>1, <3>2 DEF Held
    <3>4. Ptrs.r + 1 - 1 = Ptrs.r /\ Ptrs.r \in 0..3*N-1
      BY <1>3, Constants
    <3> QED BY <1>5, <3>3, <3>4, PlaceMod
  <2>3. km_rptr' = Wrapped(Ptrs.r + 1, 2 * N)
    <3>1. 2 * N \in Nat \ {0} /\ Ptrs.r + 1 \in 0..2*(2*N)-1
      BY <1>3, Constants
    <3> QED BY <1>5, <3>1, ModSmall
  <2>4. Count(km_wptr, km_rptr)' = m - 1
    BY <1>3, <1>5, <2>3, Constants DEF Count, Wrapped
  <2>5. got.id <= put' - m
    BY <1>2, Ids DEF Order
  <2>6. got.id < pkt_frame'.id /\ pkt_frame'.id <= put' - (m - 1) /\ got.id <= put' - (m - 1)
    BY <1>2, <2>1, <2>2, <2>5, Ids
  <2>7. got.id <= pkt_frame'.id
    BY <1>2, <2>1, <2>2, <2>6, Ids
  <2> QED BY <1>1, <2>4, <2>6, <2>7 DEF Order
<1>6. \/ /\ km_rptr' = Ptrs.r /\ UNCHANGED <<km_dat_sending, pkt_seq, pkt_frame>>
         /\ Active' => Active
      \/ /\ Ptrs.r # Ptrs.w /\ km_rptr' = (Ptrs.r + 1) % (2 * N)
         /\ pkt_frame' = Data[Ptrs.r % N]
  <2>1. CASE mouse_rf_pkt = "km"
    BY <2>1, PrepareFacts DEF Get, Active
  <2>2. CASE mouse_rf_pkt # "km"
    BY <2>2, PrepareFacts DEF Active
  <2> QED BY <2>1, <2>2
<1> QED BY <1>4, <1>5, <1>6

LEMMA StepOrder == TypeOK /\ HeldNow /\ Order /\ [Next]_vars => Order'
<1> SUFFICES ASSUME TypeOK, HeldNow, Order, [Next]_vars PROVE Order'
  OBVIOUS
<1>1. CASE HostHears
  <2>1. CASE Fresh /\ on_air = "km"
    <3>1. /\ got' = pkt_frame /\ seq_no_keyboard' = pkt_seq
          /\ UNCHANGED <<pkt_seq, pkt_frame, km_wptr, km_rptr, put>>
      BY <1>1, <2>1 DEF HostHears, queueVars
    <3>2. Active
      BY <2>1 DEF Active
    <3> QED BY <3>1, <3>2, Ids DEF Order, Fresh, Count
  <2>2. CASE ~(Fresh /\ on_air = "km")
    BY <1>1, <2>2 DEF HostHears, queueVars, dongleVars, Order, Fresh, Count, Active
  <2> QED BY <2>1, <2>2
<1>2. CASE mouse_task_when_rf
  BY <1>2 DEF mouse_task_when_rf, queueVars, dongleVars, Order, Fresh, Count, Active
<1>3. CASE SendDone
  <2>1. /\ UNCHANGED <<got, put, km_wptr, km_rptr, pkt_seq, pkt_frame, on_air,
                       seq_no_keyboard, replugged>>
        /\ km_dat_sending' => km_dat_sending
    BY <1>3 DEF SendDone, dongleVars
  <2> QED BY <2>1 DEF Order, Fresh, Count, Active
<1>4. CASE NextPass
  BY <1>4 DEF NextPass, queueVars, dongleVars, Order, Fresh, Count, Active
<1>5. CASE DeepSleep \/ PowerLoss
  <2>1. /\ km_wptr' = 0 /\ km_rptr' = 0 /\ ~Active' /\ UNCHANGED <<got, put>>
    BY <1>5 DEF DeepSleep, PowerLoss, Boot, Active
  <2>2. got.id <= put - 0
    BY Ids DEF Order
  <2> QED BY <2>1, <2>2, Constants DEF Order, Count
<1>6. CASE DongleRestart
  BY <1>6 DEF DongleRestart, queueVars, Order, Fresh, Count, Active
<1>7. CASE UNCHANGED vars
  BY <1>7 DEF vars, queueVars, dongleVars, Order, Fresh, Count, Active
<1> QED BY <1>1, <1>2, <1>3, <1>4, <1>5, <1>6, <1>7, PrepareOrder DEF Next

\* Every step of pen and dongle is a step of OrderedStream, or changes nothing of it.
LEMMA StepStream ==
  TypeOK /\ Order /\ [Next]_vars => [Stream!Next]_<<put, got.id, replugged, turn>>
<1> SUFFICES ASSUME TypeOK, Order, [Next]_vars
             PROVE  Stream!Next \/ UNCHANGED <<put, got, replugged, turn>>
  OBVIOUS
<1>1. CASE mouse_rf_prepare
  BY <1>1, PrepareFacts DEF dongleVars, Stream!Next, Stream!Put
<1>2. CASE HostHears
  <2>1. CASE on_air = "km" /\ Fresh
    <3>1. got' = pkt_frame /\ replugged' = FALSE /\ turn' = ~turn /\ put' = put
      BY <1>2, <2>1 DEF HostHears, queueVars
    <3>2. pkt_frame.id \in (IF replugged THEN got.id ELSE got.id + 1)..put
      BY <2>1, Ids DEF Order, Active
    <3> QED BY <3>1, <3>2 DEF Stream!Next, Stream!Deliver
  <2>2. CASE ~(on_air = "km" /\ Fresh)
    BY <1>2, <2>2 DEF HostHears, queueVars, dongleVars
  <2> QED BY <2>1, <2>2
<1>3. CASE DongleRestart
  BY <1>3 DEF DongleRestart, queueVars, Stream!Next, Stream!Replug
<1>4. mouse_task_when_rf \/ SendDone \/ NextPass \/ DeepSleep \/ PowerLoss \/ UNCHANGED vars
        => UNCHANGED <<put, got, replugged, turn>>
  BY DEF mouse_task_when_rf, SendDone, NextPass, DeepSleep, PowerLoss, Boot, vars, queueVars,
         dongleVars
<1> QED BY <1>1, <1>2, <1>3, <1>4 DEF Next

\* The queue, the retransmissions and the duplicate check of callback_keyboard implement
\* OrderedStream: for every size and limit the frames come out in order and once, but for the
\* last one after the dongle was unplugged.
THEOREM InOrderOnceHolds == Spec => InOrderOnce
<1>1. Init => Order /\ HeldNow /\ TypeOK /\ Stream!Init
  <2>1. Init => HeldNow
    BY EmptyHeld DEF Init, HeldNow
  <2>2. Init => Order
    BY Constants DEF Init, Order, Count, Active, Blank
  <2>3. Init => Stream!Init
    BY DEF Init, Stream!Init, Blank
  <2> QED BY <2>1, <2>2, <2>3, InitType
<1> QED BY <1>1, StepType, StepHeld, StepOrder, StepStream, PTL
        DEF Spec, InOrderOnce, Stream!Spec
=============================================================================
