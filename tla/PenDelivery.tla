----------------------------- MODULE PenDelivery ----------------------------
(***************************************************************************)
(* The delivery of key frames from the pen to the dongle's USB side: the   *)
(* main loop of the pen (vendor/mouse/mouse.c, mouse_rf.c, mouse_rf.h,     *)
(* device_info.c) with its frame queue, and callback_keyboard of           *)
(* vendor/dongle/dongle.c, over a radio that loses packets and answers.    *)
(*                                                                         *)
(* A frame is its number in the order of queueing and whether it carries a *)
(* key.  The hopping of the link layer is RadioLink's matter: here one     *)
(* device_send_packet call is heard any number of times.  While the packet *)
(* is on the air the pen runs mouse_task_when_rf (DO_TASK_WHEN_RF_EN), so  *)
(* the task may run before or after the answer comes in.                   *)
(***************************************************************************)
EXTENDS Naturals

CONSTANTS
  N,          \* KM_DATA_NUM
  SeqMod,     \* values of the one-byte seq_no
  NoAckMax,   \* RF_SYNC_PKT_TH_NUM
  Debounce,   \* MOUSE_BUTTON_DEBOUNCE
  MaxPut      \* bound: no event and no restart after this many frames

ASSUME DeliveryAssumption ==
  /\ N \in Nat \ {0}
  /\ SeqMod \in Nat \ {0, 1}
  /\ NoAckMax \in Nat \ {0}
  /\ Debounce \in Nat \ {0}
  /\ MaxPut \in Nat

\* Mutant of the next definition: a budget as small as the limit on misses.
TxNumTooSmall == NoAckMax

RF_SYNC_PKT_TX_NUM == 3 * NoAckMax

Frame == [id : Nat, key : BOOLEAN]
Blank == [id |-> 0, key |-> FALSE]

VARIABLES
  km_data, km_wptr, km_rptr,      \* the queue, its pointers modulo 2N
  km_dat_sending, km_dat_tx_cnt,
  pkt_seq, pkt_frame,             \* seq_no and data of pkt_km
  ms_dat_release,
  no_ack,                         \* failed sends in a row
  mouse_mode,                     \* "poweron", "syncing" or "normal"
  mouse_rf_pkt,                   \* the packet to send: "pairing" or "km"
  linked,                         \* access code 1 is known
  saved_linked,                   \* ... in the analog registers that survive sleep
  rc_data,                        \* the button event of this pass is a key
  on_air,                         \* the packet being sent: "none", "pairing" or "km"
  acked,                          \* device_ack_received
  going_deep,                     \* device_sleep.mode is M_SUSPEND_DEEP_SLP
  pc,                             \* where the main loop is
  seq_no_keyboard,                \* the dongle's
  got,                            \* the frame passed to usbkb_hid_report last
  put, replugged, turn,           \* history variables: see OrderedStream,
  strange,                        \* a restart since the dongle last took a frame,
  lost                            \* frames begun since then, up to SeqMod

queueVars == <<km_data, km_wptr, km_rptr, km_dat_sending, km_dat_tx_cnt, pkt_seq,
               pkt_frame, ms_dat_release, put>>
modeVars == <<mouse_mode, mouse_rf_pkt, saved_linked, rc_data, going_deep>>
dongleVars == <<seq_no_keyboard, got, replugged, turn, strange>>
vars == <<queueVars, modeVars, dongleVars, no_ack, linked, on_air, acked, pc, lost>>

TypeOK ==
  /\ km_data \in [0..N-1 -> Frame]
  /\ km_wptr \in 0..2*N-1 /\ km_rptr \in 0..2*N-1
  /\ km_dat_sending \in BOOLEAN
  /\ km_dat_tx_cnt \in 0..RF_SYNC_PKT_TX_NUM
  /\ pkt_seq \in 0..SeqMod-1
  /\ pkt_frame \in Frame
  /\ ms_dat_release \in 0..Debounce
  /\ no_ack \in 0..NoAckMax
  /\ mouse_mode \in {"poweron", "syncing", "normal"}
  /\ mouse_rf_pkt \in {"pairing", "km"}
  /\ linked \in BOOLEAN /\ saved_linked \in BOOLEAN /\ rc_data \in BOOLEAN
  /\ on_air \in {"none", "pairing", "km"}
  /\ acked \in BOOLEAN /\ going_deep \in BOOLEAN
  /\ pc \in {"prepare", "task", "wait", "end"}
  /\ seq_no_keyboard \in 0..SeqMod-1
  /\ got \in Frame
  /\ put \in Nat
  /\ replugged \in BOOLEAN /\ turn \in BOOLEAN /\ strange \in BOOLEAN
  /\ lost \in 0..SeqMod

\* RAM as user_init leaves it: device_info_load knows from the analog registers
\* whether the pen slept or lost power.
Boot(mode, code) ==
  /\ km_data' = [i \in 0..N-1 |-> Blank]
  /\ km_wptr' = 0 /\ km_rptr' = 0
  /\ km_dat_sending' = FALSE /\ km_dat_tx_cnt' = 0
  /\ pkt_seq' = 0 /\ pkt_frame' = Blank
  /\ ms_dat_release' = 1
  /\ no_ack' = 1
  /\ mouse_mode' = mode
  /\ mouse_rf_pkt' = "pairing"
  /\ linked' = code
  /\ rc_data' = FALSE
  /\ on_air' = "none" /\ acked' = FALSE /\ going_deep' = FALSE
  /\ pc' = "prepare"
  /\ strange' = TRUE
  /\ UNCHANGED <<seq_no_keyboard, got, put, replugged, turn, lost>>

Init ==
  /\ km_data = [i \in 0..N-1 |-> Blank]
  /\ km_wptr = 0 /\ km_rptr = 0
  /\ km_dat_sending = FALSE /\ km_dat_tx_cnt = 0
  /\ pkt_seq = 0 /\ pkt_frame = Blank
  /\ ms_dat_release = 1
  /\ no_ack = 1
  /\ mouse_mode = "poweron"
  /\ mouse_rf_pkt = "pairing"
  /\ linked = FALSE /\ saved_linked = FALSE
  /\ rc_data = FALSE
  /\ on_air = "none" /\ acked = FALSE /\ going_deep = FALSE
  /\ pc = "prepare"
  /\ seq_no_keyboard = 0
  /\ got = Blank
  /\ put = 0 /\ replugged = FALSE /\ turn = FALSE /\ strange = FALSE /\ lost = 0
-----------------------------------------------------------------------------
Frames(w, r) == (w - r + 2 * N) % (2 * N)

\* Mutants of the definitions below, in their order: only a key is queued; a write
\* pointer that never wraps; a full queue that keeps its oldest frame; a sequence
\* number that stays; no duplicate check.
AddsKeysOnly == rc_data
QueuedPtrsNoWrap ==
  [w |-> km_wptr + 1, r |-> km_rptr]
QueuedPtrsNoDrop == [w |-> (km_wptr + 1) % (2 * N), r |-> km_rptr]
NextSeqSame == pkt_seq
FreshAlways == TRUE

\* mouse_rf_prepare queues a frame for a key, and for the passes after it without
\* one as often as the dongle's debouncing needs (once at power-on).
Adds == rc_data \/ ms_dat_release > 0

\* km_data_add: a full queue loses its oldest frame.
Queued == [km_data EXCEPT ![km_wptr % N] = [id |-> put + 1, key |-> rc_data]]
QueuedPtrs ==
  LET w == (km_wptr + 1) % (2 * N)
  IN  [w |-> w,
       r |-> IF Frames(w, km_rptr) > N THEN (w - N + 2 * N) % (2 * N) ELSE km_rptr]

\* The sequence number of the next frame.
NextSeq == (pkt_seq + 1) % SeqMod

\* km_data_get after the queueing: the frame being sent is sent again, else the
\* oldest of the queue goes into pkt_km under the next sequence number.
Get(data, w, r) ==
  IF km_dat_sending /\ km_dat_tx_cnt > 0
  THEN /\ km_dat_tx_cnt' = km_dat_tx_cnt - 1
       /\ on_air' = "km"
       /\ km_rptr' = r
       /\ UNCHANGED <<km_dat_sending, pkt_seq, pkt_frame, lost>>
  ELSE IF r # w
  THEN /\ pkt_frame' = data[r % N]
       /\ km_rptr' = (r + 1) % (2 * N)
       /\ pkt_seq' = NextSeq
       /\ km_dat_sending' = TRUE
       /\ km_dat_tx_cnt' = RF_SYNC_PKT_TX_NUM
       /\ on_air' = "km"
       /\ lost' = IF lost < SeqMod THEN lost + 1 ELSE SeqMod
  ELSE /\ on_air' = "none"
       /\ km_rptr' = r
       /\ UNCHANGED <<km_dat_sending, km_dat_tx_cnt, pkt_seq, pkt_frame, lost>>

\* mouse_rf_prepare, and the decision of mouse_rf_process whether to send: before
\* it is linked the pen sends pairing packets in every pass.
mouse_rf_prepare ==
  LET ptrs == IF Adds THEN QueuedPtrs ELSE [w |-> km_wptr, r |-> km_rptr]
      data == IF Adds THEN Queued ELSE km_data
  IN  /\ pc = "prepare"
      /\ put' = IF Adds THEN put + 1 ELSE put
      /\ km_data' = data
      /\ km_wptr' = ptrs.w
      /\ ms_dat_release' = IF rc_data THEN Debounce
                           ELSE IF ms_dat_release > 0 THEN ms_dat_release - 1 ELSE 0
      /\ IF mouse_rf_pkt = "km"
         THEN Get(data, ptrs.w, ptrs.r)
         ELSE /\ km_rptr' = ptrs.r
              /\ on_air' = IF mouse_mode = "normal" THEN "none" ELSE "pairing"
              /\ UNCHANGED <<km_dat_sending, km_dat_tx_cnt, pkt_seq, pkt_frame, lost>>
      /\ acked' = FALSE
      /\ pc' = "task"
      /\ UNCHANGED <<modeVars, dongleVars, no_ack, linked>>

\* callback_keyboard skips the sequence number it had last.
Fresh == pkt_seq # seq_no_keyboard

\* The dongle hears the packet, once or again by a retransmission, and answers; the
\* answer may be lost, or come too late for mouse_rf_process.  The answer to a
\* pairing packet carries the access code.
HostHears ==
  /\ pc # "prepare"
  /\ on_air # "none"
  /\ ~acked
  /\ acked' \in BOOLEAN
  /\ linked' = (linked \/ (acked' /\ on_air = "pairing"))
  /\ IF on_air = "km" /\ Fresh
     THEN /\ seq_no_keyboard' = pkt_seq
          /\ got' = pkt_frame
          /\ turn' = ~turn
          /\ replugged' = FALSE /\ strange' = FALSE
          /\ lost' = 0
     ELSE UNCHANGED <<dongleVars, lost>>
  /\ UNCHANGED <<queueVars, modeVars, no_ack, on_air, pc>>

\* mouse_task_when_rf, in the middle of device_send_packet or after a pass that
\* sends nothing: mouse_rf_post_proc, mouse_sync_process,
\* mouse_power_saving_process, and the buttons.
mouse_task_when_rf ==
  LET known == linked /\ mouse_mode # "poweron"    \* a power-on clears the code
  IN  /\ pc = "task"
      /\ linked' = known
      /\ mouse_mode' = IF known THEN "normal" ELSE "syncing"
      /\ mouse_rf_pkt' = IF known THEN "km" ELSE "pairing"
      /\ going_deep' \in
           IF (on_air = "none" /\ mouse_mode = "normal") \/ no_ack = NoAckMax
           THEN BOOLEAN ELSE {FALSE}
      /\ going_deep' => put < MaxPut
      /\ saved_linked' = IF going_deep' \/ (known /\ mouse_rf_pkt # "km")
                         THEN known ELSE saved_linked
      /\ rc_data' \in IF put < MaxPut THEN BOOLEAN ELSE {FALSE}
      /\ pc' = IF on_air = "none" THEN "end" ELSE "wait"
      /\ UNCHANGED <<queueVars, dongleVars, no_ack, on_air, acked, lost>>

\* mouse_rf_process after device_send_packet.
SendDone ==
  /\ pc = "wait"
  /\ IF acked
     THEN km_dat_sending' = FALSE /\ no_ack' = 0
     ELSE IF no_ack < NoAckMax
     THEN no_ack' = no_ack + 1 /\ UNCHANGED km_dat_sending
     ELSE km_dat_sending' = FALSE /\ UNCHANGED no_ack
  /\ pc' = "end"
  /\ UNCHANGED <<km_data, km_wptr, km_rptr, km_dat_tx_cnt, pkt_seq, pkt_frame,
                 ms_dat_release, put, modeVars, dongleVars, linked, on_air, acked, lost>>

\* device_sleep_wakeup: up to 100 ms of sleep keep the RAM ...
NextPass ==
  /\ pc = "end" /\ ~going_deep
  /\ pc' = "prepare"
  /\ on_air' = "none"
  /\ acked' = FALSE
  /\ UNCHANGED <<queueVars, modeVars, dongleVars, no_ack, linked, lost>>

\* ... deep sleep ends in user_init, in normal mode.
DeepSleep ==
  /\ pc = "end" /\ going_deep
  /\ Boot("normal", saved_linked)
  /\ UNCHANGED saved_linked

\* The pen loses power; it may do so at any point.
PowerLoss ==
  /\ put < MaxPut
  /\ Boot("poweron", FALSE)
  /\ saved_linked' = FALSE

\* The dongle is unplugged and plugged in again.
DongleRestart ==
  /\ put < MaxPut
  /\ seq_no_keyboard' = 0
  /\ replugged' = TRUE /\ strange' = TRUE
  /\ UNCHANGED <<queueVars, modeVars, got, turn, no_ack, linked, on_air, acked, pc, lost>>

Next ==
  \/ mouse_rf_prepare \/ HostHears \/ mouse_task_when_rf \/ SendDone \/ NextPass
  \/ DeepSleep \/ PowerLoss \/ DongleRestart

Spec == Init /\ [][Next]_vars

\* The pen's loop runs; a link in use is heard and answered now and then.
Hears == HostHears /\ acked'
FairSpec ==
  /\ Spec
  /\ WF_vars(mouse_rf_prepare) /\ WF_vars(mouse_task_when_rf)
  /\ WF_vars(SendDone) /\ WF_vars(NextPass) /\ WF_vars(DeepSleep)
  /\ SF_vars(Hears)

-----------------------------------------------------------------------------
\* The queue, the retransmissions of the pen and the duplicate check of the dongle
\* deliver the frames in order and at most once, but for the last one after the
\* dongle was unplugged.
Stream == INSTANCE OrderedStream WITH got <- got.id
InOrderOnce == Stream!Spec

\* km_data_add keeps the newest frames: what is queued is an unbroken run of them,
\* up to the last one, however often the pointers wrapped.
QueueHoldsLatest ==
  LET n == Frames(km_wptr, km_rptr)
  IN  /\ n <= N
      /\ \A i \in 1..n : km_data[(km_rptr + i - 1) % N].id = put - n + i

\* A frame the dongle acknowledged was passed on, unless a restart on either side
\* or a full turn of lost sequence numbers made the numbers meet by chance.
AckedWasPassedOn ==
  acked /\ on_air = "km" /\ ~strange /\ lost < SeqMod => got = pkt_frame

\* The retransmission budget of a frame (RF_SYNC_PKT_TX_NUM) is never what makes
\* km_data_get give up a frame: the limit on misses always acts first.
BudgetLasts == km_dat_sending => km_dat_tx_cnt > 0

\* The pen gave up a frame the dongle never had (the limit on misses was reached).
GaveUp == lost > 1 \/ (lost = 1 /\ ~km_dat_sending)

\* After a key the pen sends a frame without one, and keeps on until the dongle has
\* it, unless it loses the link and gives frames up, or something restarts.
KeyIsReleased == got.key ~> (~got.key \/ GaveUp \/ strange)

\* What the comment at the duplicate check of callback_keyboard says: what it skips,
\* though acknowledged, is a packet it had.
SkipsOnlySamePacket ==
  acked /\ on_air = "km" /\ pkt_frame.key => got = pkt_frame
=============================================================================
