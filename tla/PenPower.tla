------------------------------ MODULE PenPower ------------------------------
(***************************************************************************)
(* When the pen sleeps: mouse_sync_process and mouse_power_saving_process  *)
(* (vendor/mouse/mouse.c), mouse_rf_post_proc (mouse_rf.h) and the sleep   *)
(* machine they drive (vendor/common/device_power.c).                      *)
(*                                                                         *)
(* One step is one pass of the main loop.  The task runs while the packet  *)
(* is on the air, so it decides by the misses and the button of the pass   *)
(* before, and the answer may come in before it or after it.  PenDelivery  *)
(* has the frames themselves; here they are counted.                       *)
(***************************************************************************)
EXTENDS Naturals

CONSTANTS
  PpQueue,        \* KM_DATA_NUM
  PpNoAck,        \* RF_SYNC_PKT_TH_NUM (255)
  PpDebounce,     \* MOUSE_BUTTON_DEBOUNCE
  PpSyncLoops,    \* passes without quick sleep while not linked (4096)
  PP_8MS,         \* thresh_8ms (176)
  PP_100MS,       \* thresh_100ms (5)
  PpLed,          \* passes the power-on pattern takes
  PpSleepEn,      \* mcu_sleep_en
  PpQuickEn       \* QUICK_SLEEP_EN

ASSUME PpAssumption ==
  /\ {PpQueue, PpNoAck, PpDebounce, PpSyncLoops, PP_8MS, PP_100MS} \subseteq Nat \ {0}
  /\ PpLed \in Nat
  /\ {PpSleepEn, PpQuickEn} \subseteq BOOLEAN

VARIABLES
  pp_sleep,       \* device_sleep.mode: "8ms", "100ms", "deep"
  pp_cnt_8ms, pp_cnt_100ms,
  pp_mode,        \* rc_status.mouse_mode: "poweron", "syncing", "normal"
  pp_linked,      \* access code 1 is known
  pp_pkt,         \* mouse_rf_pkt: "pairing" or "km"
  pp_no_ack,
  pp_loop_cnt,    \* up to PpSyncLoops
  pp_frames,      \* frames that wait or are being sent
  pp_release,     \* ms_dat_release
  pp_event,       \* rc_data is a key
  pp_button,      \* button_last
  pp_led,         \* passes until the LED has finished
  pp_asked,       \* history: pairing packets sent since the pen woke, up to PpSyncLoops
  pp_turn         \* flips with every pass, so that one that changes nothing else is a step

ppVars == <<pp_sleep, pp_cnt_8ms, pp_cnt_100ms, pp_mode, pp_linked, pp_pkt, pp_no_ack,
            pp_loop_cnt, pp_frames, pp_release, pp_event, pp_button, pp_led, pp_asked, pp_turn>>

(* Type invariant, with the range of every counter. *)
PpTypeOK ==
  /\ pp_sleep \in {"8ms", "100ms", "deep"}
  /\ pp_cnt_8ms \in 0..PP_8MS /\ pp_cnt_100ms \in 0..PP_100MS
  /\ pp_mode \in {"poweron", "syncing", "normal"} /\ pp_pkt \in {"pairing", "km"}
  /\ pp_no_ack \in 0..PpNoAck
  /\ pp_loop_cnt \in 0..PpSyncLoops /\ pp_asked \in 0..PpSyncLoops
  /\ pp_frames \in 0..PpQueue + 1 /\ pp_release \in 0..PpDebounce /\ pp_led \in 0..PpLed
  /\ {pp_linked, pp_event, pp_button, pp_turn} \subseteq BOOLEAN

PpInit ==
  /\ pp_sleep = "8ms" /\ pp_cnt_8ms = 0 /\ pp_cnt_100ms = 0
  /\ pp_mode = "poweron" /\ pp_linked = FALSE /\ pp_pkt = "pairing"
  /\ pp_no_ack = 1 /\ pp_loop_cnt = 0
  /\ pp_frames = 0 /\ pp_release = 1 /\ pp_event = FALSE /\ pp_button \in BOOLEAN
  /\ pp_led = PpLed /\ pp_asked = 0 /\ pp_turn = FALSE

-----------------------------------------------------------------------------
PpMin(a, b) == IF a < b THEN a ELSE b

\* mouse_rf_prepare: the frames of this pass; is there one to send?
PpAdds == pp_event \/ pp_release > 0
PpQueued == IF PpAdds THEN PpMin(pp_frames + 1, PpQueue + 1) ELSE pp_frames
PpData == pp_pkt = "km" /\ PpQueued > 0

\* mouse_mode <= STATE_PAIRING: mouse_rf_process sends pairing packets, and
\* mouse_rf_post_proc counts them as work to do (RF_MODE_SYNC).
Searching == pp_mode # "normal"

\* mouse_power_saving_process: quick_sleep, after the new mode is known.
PpQuick(mode) ==
  /\ PpQuickEn /\ pp_no_ack = PpNoAck
  /\ mode = "normal" \/ pp_loop_cnt = PpSyncLoops

\* device_busy
PpBusy(led) == PpData \/ Searching \/ led > 0 \/ pp_button

\* device_sleep_mode_machine
device_sleep_mode_machine(busy, quick) ==
  LET c8   == IF busy THEN 0 ELSE IF pp_sleep = "8ms" THEN pp_cnt_8ms + 1 ELSE pp_cnt_8ms
      long == ~busy /\ (pp_sleep = "100ms" \/ c8 >= PP_8MS)
      c100 == IF pp_sleep = "100ms" THEN pp_cnt_100ms + 1 ELSE 1
      over == long /\ c100 > PP_100MS
  IN  /\ pp_cnt_8ms' = c8
      /\ pp_cnt_100ms' = IF over \/ (quick /\ ~PpSleepEn) THEN 0
                         ELSE IF long THEN c100 ELSE pp_cnt_100ms
      /\ pp_sleep' = IF over \/ quick THEN IF PpSleepEn THEN "deep" ELSE "100ms"
                     ELSE IF long THEN "100ms" ELSE "8ms"

\* mouse_rf_process after device_send_packet: answered; missed; or missed too often, when the
\* frame is given up.
PpSendDone(sent, heard) ==
  /\ pp_no_ack' = IF ~sent THEN pp_no_ack ELSE IF heard THEN 0 ELSE PpMin(pp_no_ack + 1, PpNoAck)
  /\ pp_frames' = IF PpData /\ (heard \/ pp_no_ack = PpNoAck) THEN PpQueued - 1 ELSE PpQueued

\* mouse_task_in_ram: one pass.  An answer to a pairing packet brings the access code, and
\* the first pass after power-on forgets one that is there.
mouse_task_in_ram ==
  LET sent == PpData \/ Searching
      led  == IF pp_led > 0 THEN pp_led - 1 ELSE 0
  IN  \E heard \in (IF sent THEN BOOLEAN ELSE {FALSE}), early \in BOOLEAN :
        LET code  == heard /\ pp_pkt = "pairing"
            known == pp_mode # "poweron" /\ (pp_linked \/ (code /\ early))
            mode  == IF known THEN "normal" ELSE "syncing"
        IN  /\ pp_sleep # "deep"
            /\ pp_mode' = mode
            /\ pp_pkt' = IF known THEN "km" ELSE IF Searching THEN "pairing" ELSE pp_pkt
            /\ pp_linked' = (known \/ (code /\ ~early))
            /\ device_sleep_mode_machine(PpBusy(led), PpQuick(mode))
            /\ pp_led' = led
            /\ PpSendDone(sent, heard)
            /\ pp_release' = IF pp_event THEN PpDebounce
                             ELSE IF pp_release > 0 THEN pp_release - 1 ELSE 0
            /\ pp_loop_cnt' = PpMin(pp_loop_cnt + 1, PpSyncLoops)
            /\ pp_asked' = IF sent /\ pp_pkt = "pairing" THEN PpMin(pp_asked + 1, PpSyncLoops)
                           ELSE pp_asked
            /\ pp_event' \in (IF pp_button THEN BOOLEAN ELSE {FALSE})
            /\ pp_turn' = ~pp_turn
            /\ UNCHANGED pp_button

\* A finger comes or goes.
PpFinger == /\ pp_button' = ~pp_button
            /\ UNCHANGED <<pp_sleep, pp_cnt_8ms, pp_cnt_100ms, pp_mode, pp_linked, pp_pkt,
                           pp_no_ack, pp_loop_cnt, pp_frames, pp_release, pp_event, pp_led,
                           pp_asked, pp_turn>>

\* Deep sleep ends by a button, in user_init; the access code was saved (device_info_save).
PpWake ==
  /\ pp_sleep = "deep" /\ pp_button
  /\ pp_sleep' = "8ms" /\ pp_cnt_8ms' = 0 /\ pp_cnt_100ms' = 0
  /\ pp_mode' = "normal" /\ pp_pkt' = "pairing"
  /\ pp_no_ack' = 1 /\ pp_loop_cnt' = 0
  /\ pp_frames' = 0 /\ pp_release' = 1 /\ pp_event' = FALSE
  /\ pp_led' = 0 /\ pp_asked' = 0
  /\ UNCHANGED <<pp_linked, pp_button, pp_turn>>

PpNext == mouse_task_in_ram \/ PpFinger \/ PpWake

PpSpec == PpInit /\ [][PpNext]_ppVars
\* The main loop runs.
PpFair == PpSpec /\ WF_ppVars(mouse_task_in_ram)

-----------------------------------------------------------------------------
(* The pen does not sleep deep over a frame that waits or a button that is *)
(* down, unless the dongle is gone (mouse_power_saving_process; this is    *)
(* what PenDelivery assumes of going_deep).                                *)
PpNothingLost ==
  [][pp_sleep' = "deep" /\ pp_sleep # "deep" =>
       \/ pp_no_ack = PpNoAck
       \/ pp_mode = "normal" /\ ~PpData /\ ~pp_button]_ppVars

(* A pen that does not know its dongle asks for it as long as the comment  *)
(* at loop_cnt says, each time it wakes.                                   *)
PpAsksLong == pp_sleep = "deep" /\ ~pp_linked => pp_asked + 1 >= PpSyncLoops

(* Left alone, the pen comes to rest, linked or not: with deep sleep and   *)
(* quick sleep switched on.                                                *)
PpRests == PpSleepEn /\ PpQuickEn => (<>[]~pp_button => <>[](pp_sleep = "deep"))
=============================================================================
