-------------------------- MODULE VacuumController --------------------------
(***************************************************************************)
(* The remote control of the vacuum cleaner (vendor/vacuum_controller), in *)
(* its default configuration: three buttons, frames of one or two events   *)
(* (WITH_SPELL_PACKET_EN), key repeat and double keys.  A pass of          *)
(* main_loop debounces the buttons and compares how many are down with how *)
(* many were (button_detect_proc), follows the pairing, sends (vc_rf_proc) *)
(* and decides about sleep (vc_pm_proc).  The receiver acknowledges every  *)
(* frame and takes those with another number than the last one.  It        *)
(* releases a key by itself when it has heard nothing for half a second    *)
(* (vendor/vacuum_receiver, main_loop): the repetitions of a key that is   *)
(* held are there to prevent it.                                           *)
(*                                                                         *)
(* vcEvt_buf is left out: a value is put there and taken out again by the  *)
(* same call.  So are the EMI mode, manual pairing and the factory reset   *)
(* (POWER held as the batteries are put in, which does not repeat).        *)
(***************************************************************************)
EXTENDS Naturals, FiniteSets, Sequences

CONSTANTS
  VC_DEBOUNCE,  \* samples that have to agree (4)
  VC_REPEAT,    \* REPEAT_TIME_THRESH (25)
  VC_RETRY,     \* passes a frame is sent (0x400)
  VC_BASIC,     \* thresh_basic_suspend
  VC_NO_LINK,   \* HOST_NO_LINK: passes without an answer (200)
  VC_NO_QUICK,  \* KB_NO_QUICK_SLEEP_CNT
  VcSeqs,       \* bound of the sequence numbers (256)
  VC_SEQ_SAVED, \* what deep sleep leaves of them (16)
  VR_TIMEOUT,   \* RCV_RELEASE_THRESH (50): the receiver's patience, in passes of the controller
  VcChords,     \* what the user holds down, one or the other at a time
  VcStill       \* bound of the history of passes without a change: time for the debouncing
                \* and for one repetition

ASSUME VcAssumption ==
  /\ {VC_DEBOUNCE, VC_REPEAT, VC_RETRY, VC_BASIC, VC_NO_LINK, VC_NO_QUICK, VcStill}
       \subseteq Nat \ {0}
  /\ VR_TIMEOUT \in Nat /\ VR_TIMEOUT > VC_REPEAT + 2
  /\ VcStill >= VC_DEBOUNCE + VC_REPEAT + 2
  /\ VcSeqs \in Nat \ {0, 1} /\ VC_SEQ_SAVED \in 1..VcSeqs
  /\ {} \in VcChords /\ VcChords \subseteq SUBSET {"up", "power", "down"}

VcButtons == {"up", "power", "down"}
NoVcKey == "none"

\* vc_double_key_proc: what two buttons mean, NoVcKey for power and down.
DoubleKey(b) == CASE b = {"up", "down"} -> "combine1"
                  [] b = {"up", "power"} -> "combine2"
                  [] OTHER -> NoVcKey
VcKeys == VcButtons \cup {"combine1", "combine2", NoVcKey}

VARIABLES
  vc_down,     \* the buttons that are down
  vc_sample, vc_run,        \* btn_history: the last sample and how often it came, running
  btn_filter_last,
  key_change_flg, key_repeat_cnt,
  last_btn_cnt,
  DoubleKeySendFlag,
  one_key_press_save, double_key_press_save,
  vc_pkt,      \* the events of pkt_km: <<>>, one or two
  vc_seq,      \* pkt_km.seq_no
  vc_sending,  \* 0: not km_dat_sending; otherwise kb_tx_retry_thresh + 1
  vc_link,     \* mode_link
  vc_rf_km,    \* kb_rf_pkt is pkt_km
  vc_no_ack, vc_cnt_basic, vc_loop_cnt,
  vc_asleep,   \* deep sleep
  vc_first,    \* PM_REG_END is 1: no deep sleep since the batteries were put in
  vc_saved,    \* mode_link in the analog registers
  vr_seq,      \* the receiver's seq_no_keyboard
  vr_knows,    \* the receiver has the device id
  vr_not_release,  \* rcv_release.not_release_flg
  vr_release_cnt,  \* release_cnt, in passes of the controller; 0 unless the flag is set
  vr_key,      \* history: the key pressed last and not released, as the receiver sees it
  vc_mute,     \* history: power and down, which do not repeat, were down since it last heard
               \* (followed until vc_spoilt is set)
  vc_spoilt,   \* history: the receiver may be wrong about the buttons, see Spoils
  vc_still     \* history: passes since a button moved, a report was sent or the receiver could
               \* not be trusted, up to VcStill

vcButtonVars == <<vc_sample, vc_run, btn_filter_last, key_change_flg, key_repeat_cnt>>
vcKeyVars == <<last_btn_cnt, DoubleKeySendFlag, one_key_press_save, double_key_press_save>>
vcRfVars == <<vc_pkt, vc_seq, vc_sending, vc_link, vc_rf_km, vc_no_ack>>
vcSleepVars == <<vc_cnt_basic, vc_loop_cnt, vc_asleep, vc_first, vc_saved>>
vrKeyVars == <<vr_not_release, vr_release_cnt, vr_key, vc_mute>>
vcReceiverVars == <<vr_seq, vr_knows, vrKeyVars>>
vcVars == <<vc_down, vcButtonVars, vcKeyVars, vcRfVars, vcSleepVars, vcReceiverVars, vc_spoilt,
            vc_still>>

VcEvents == [ctrl : {"repeat", "pressed", "released"}, key : VcKeys]
Ev(c, k) == [ctrl |-> c, key |-> k]

VcTypeOK ==
  /\ {vc_down, vc_sample, btn_filter_last} \subseteq VcChords
  /\ vc_run \in 1..VC_DEBOUNCE
  /\ key_change_flg \in {"none", "change", "same"} /\ key_repeat_cnt \in 0..VC_REPEAT
  /\ last_btn_cnt \in 0..3 /\ {one_key_press_save, double_key_press_save} \subseteq VcKeys
  /\ vc_pkt \in Seq(VcEvents) /\ Len(vc_pkt) <= 2
  /\ {vc_seq, vr_seq} \subseteq 0..VcSeqs - 1
  /\ vc_sending \in 0..VC_RETRY + 1 /\ vc_no_ack \in 0..VC_NO_LINK
  /\ vc_cnt_basic \in 0..VC_BASIC /\ vc_loop_cnt \in 0..VC_NO_QUICK
  /\ vc_still \in 0..VcStill /\ vr_key \in VcKeys /\ vr_release_cnt \in 0..VR_TIMEOUT
  /\ {DoubleKeySendFlag, vc_link, vc_rf_km, vc_asleep, vc_first, vc_saved, vr_knows,
      vr_not_release, vc_mute, vc_spoilt} \subseteq BOOLEAN

VcInit ==
  /\ vc_down = {} /\ vc_sample = {} /\ vc_run = VC_DEBOUNCE /\ btn_filter_last = {}
  /\ key_change_flg = "none" /\ key_repeat_cnt = 0
  /\ last_btn_cnt = 0 /\ DoubleKeySendFlag = FALSE
  /\ one_key_press_save = NoVcKey /\ double_key_press_save = NoVcKey
  /\ vc_pkt = <<>> /\ vc_seq = 0 /\ vc_sending = 0
  /\ vc_link \in BOOLEAN /\ vc_rf_km = vc_link /\ vc_saved = vc_link /\ vr_knows = vc_link
  /\ vc_no_ack = 0 /\ vc_cnt_basic = 0 /\ vc_loop_cnt = 0
  /\ vc_asleep = FALSE /\ vc_first = TRUE
  /\ vr_seq = 0 /\ vr_key = NoVcKey /\ vr_not_release = FALSE /\ vr_release_cnt = 0
  /\ vc_mute = FALSE /\ vc_spoilt = FALSE /\ vc_still = 0

-----------------------------------------------------------------------------
\* btn_debounce_filter
Run == IF vc_down = vc_sample THEN IF vc_run < VC_DEBOUNCE THEN vc_run + 1 ELSE vc_run ELSE 1
Changed == Run >= VC_DEBOUNCE /\ vc_down # btn_filter_last

\* vc_detect_button: key repeat.  The two buttons of manual pairing do not repeat.
Repeats == ~Changed /\ key_change_flg = "same" /\ vc_down # {"power", "down"}
RepeatDue == Repeats /\ key_repeat_cnt = VC_REPEAT

vc_detect_button ==
  /\ vc_sample' = vc_down /\ vc_run' = Run
  /\ btn_filter_last' = IF Changed THEN vc_down ELSE btn_filter_last
  /\ key_change_flg' = IF Changed THEN "change"
                       ELSE IF key_change_flg = "change" THEN "same" ELSE key_change_flg
  /\ key_repeat_cnt' = IF Changed \/ RepeatDue THEN 0
                       ELSE IF Repeats THEN key_repeat_cnt + 1 ELSE key_repeat_cnt

\* Mutant of ReadKey: the buttons are read while a frame is sent.
ReadKeyAlways == Changed \/ RepeatDue
ReadKey == (Changed \/ RepeatDue) /\ vc_sending = 0

\* The button of one that is down.
TheKey == CHOOSE k \in VcButtons : k \in vc_down
Count == Cardinality(vc_down)

\* Mutant of KeyEvents: a double key is not released before the key that is left is pressed.
KeyEventsNoRelease ==
  CASE Count = 0 /\ last_btn_cnt = 1 -> <<Ev("released", one_key_press_save)>>
    [] Count = 0 /\ last_btn_cnt = 2 /\ DoubleKeySendFlag ->
         <<Ev("released", double_key_press_save)>>
    [] Count = 1 /\ last_btn_cnt \in {0, 2} -> <<Ev("pressed", TheKey)>>
    [] Count = 2 /\ last_btn_cnt = 1 -> <<Ev("released", one_key_press_save)>>
    [] OTHER -> <<>>

\* button_detect_proc: the table of its comment.
KeyEvents ==
  CASE Count = 0 /\ last_btn_cnt = 1 -> <<Ev("released", one_key_press_save)>>
    [] Count = 0 /\ last_btn_cnt = 2 /\ DoubleKeySendFlag ->
         <<Ev("released", double_key_press_save)>>
    [] Count = 1 /\ last_btn_cnt = 0 -> <<Ev("pressed", TheKey)>>
    [] Count = 1 /\ last_btn_cnt = 1 -> <<Ev("repeat", TheKey)>>
    [] Count = 1 /\ last_btn_cnt = 2 ->
         IF DoubleKeySendFlag
         THEN <<Ev("released", double_key_press_save), Ev("pressed", TheKey)>>
         ELSE <<Ev("pressed", TheKey)>>
    [] Count = 2 /\ last_btn_cnt = 0 /\ DoubleKey(vc_down) # NoVcKey ->
         <<Ev("pressed", DoubleKey(vc_down))>>
    [] Count = 2 /\ last_btn_cnt = 1 ->
         IF DoubleKey(vc_down) # NoVcKey
         THEN <<Ev("released", one_key_press_save), Ev("pressed", DoubleKey(vc_down))>>
         ELSE <<Ev("released", one_key_press_save)>>
    [] Count = 2 /\ last_btn_cnt = 2 /\ DoubleKeySendFlag -> <<Ev("repeat", DoubleKey(vc_down))>>
    [] OTHER -> <<>>

SendsDouble == Count = 2 /\ last_btn_cnt \in {0, 1} /\ DoubleKey(vc_down) # NoVcKey

button_detect_proc ==
  /\ vc_detect_button
  /\ IF ReadKey
     THEN /\ last_btn_cnt' = Count
          /\ DoubleKeySendFlag' = (SendsDouble \/
               (DoubleKeySendFlag /\ ~(last_btn_cnt = 2 /\ Count \in {0, 1})))
          /\ one_key_press_save' = IF Count = 1 /\ last_btn_cnt \in {0, 2} THEN TheKey
                                   ELSE one_key_press_save
          /\ double_key_press_save' = IF SendsDouble THEN DoubleKey(vc_down)
                                      ELSE double_key_press_save
     ELSE UNCHANGED vcKeyVars

-----------------------------------------------------------------------------
\* vc_paring_and_syncing_proc: once linked, data frames are sent.
Km == vc_rf_km \/ vc_link

\* callback_vacuum of the receiver, as far as the key it sees pressed.
Shown(key, e) == CASE e.ctrl = "pressed" -> e.key
                   [] e.ctrl = "released" -> NoVcKey
                   [] OTHER -> key

\* It looks at the two events of a frame one after the other.
FrameShown(key, pkt) == CASE Len(pkt) = 0 -> key
                          [] Len(pkt) = 1 -> Shown(key, pkt[1])
                          [] OTHER -> Shown(Shown(key, pkt[1]), pkt[2])

\* The flag that makes the receiver wait for the release: a repetition sets it too, though it
\* presses no key.
KeptDown(pkt) == pkt # <<>> /\ pkt[Len(pkt)].ctrl # "released"

\* A pass goes by for the receiver, in which it has heard the controller or not.
VrPass(heard) ==
  /\ vr_release_cnt' = IF heard \/ ~vr_not_release' THEN 0
                       ELSE IF vr_release_cnt < VR_TIMEOUT THEN vr_release_cnt + 1
                       ELSE vr_release_cnt
  /\ vc_mute' = /\ ~heard /\ vr_not_release' /\ ~vc_spoilt
                /\ vc_mute \/ vc_down = {"power", "down"}

\* In the first run the number is taken from the clock.
NextSeq == IF vc_first THEN 0..VcSeqs - 1 ELSE {(vc_seq + 1) % VcSeqs}

\* device_send_packet: the frame is lost, or taken and the answer lost, or answered.
SendReport(pkt, seq, left) ==
  \E outcome \in {"lost", "taken", "acked"} :
    /\ vc_sending' = IF outcome = "acked" THEN 0 ELSE left - 1
    /\ vc_no_ack' = IF outcome = "acked" THEN 0
                    ELSE IF vc_no_ack < VC_NO_LINK THEN vc_no_ack + 1 ELSE vc_no_ack
    /\ IF outcome # "lost" /\ seq # vr_seq
       THEN /\ vr_seq' = seq
            /\ vr_key' = FrameShown(vr_key, pkt) /\ vr_not_release' = KeptDown(pkt)
       ELSE UNCHANGED <<vr_seq, vr_key, vr_not_release>>
    /\ VrPass(outcome # "lost")
    /\ UNCHANGED <<vc_link, vr_knows>>

\* vc_rf_proc with a report: a new one, or the one that is under way.
ReportRf ==
  LET new == ReadKey /\ KeyEvents # <<>>
      pkt == IF new THEN KeyEvents ELSE IF vc_sending > 0 THEN vc_pkt ELSE <<>>
      left == IF new THEN VC_RETRY + 1 ELSE vc_sending
  IN  \E seq \in IF new THEN NextSeq ELSE {vc_seq} :
        /\ vc_pkt' = pkt /\ vc_seq' = seq
        /\ IF left > 1 THEN SendReport(pkt, seq, left)
           ELSE /\ vc_sending' = 0
                /\ UNCHANGED <<vc_no_ack, vc_link, vr_seq, vr_knows, vr_key, vr_not_release>>
                /\ VrPass(FALSE)

\* vc_rf_proc before that: the receiver stores the id, and answers the next request.
PairingRf ==
  /\ UNCHANGED <<vc_pkt, vc_seq, vc_sending, vr_seq, vr_key, vr_not_release>>
  /\ \E heard, counted \in BOOLEAN :
       /\ counted => heard /\ vr_knows
       /\ vr_knows' = (vr_knows \/ heard)
       /\ vc_link' = (heard /\ vr_knows)
       /\ vc_no_ack' = IF counted THEN 0
                       ELSE IF vc_no_ack < VC_NO_LINK THEN vc_no_ack + 1 ELSE vc_no_ack
       /\ VrPass(heard)

rf_sending == ~vc_link \/ vc_sending > 1 \/ (ReadKey /\ KeyEvents # <<>>)

VcBusy == rf_sending \/ btn_filter_last' # {}
QuickSleepVc == vc_no_ack' = VC_NO_LINK /\ (Km \/ vc_loop_cnt = VC_NO_QUICK)

\* vc_pm_proc.  loop_cnt is not followed once it does not matter any more.
vc_pm_proc ==
  /\ vc_cnt_basic' = IF VcBusy THEN 0 ELSE vc_cnt_basic + 1
  /\ vc_asleep' = (vc_cnt_basic' >= VC_BASIC \/ QuickSleepVc)
  /\ vc_saved' = IF vc_asleep' THEN vc_link' ELSE vc_saved
  /\ vc_loop_cnt' = IF Km \/ vc_loop_cnt = VC_NO_QUICK THEN vc_loop_cnt ELSE vc_loop_cnt + 1
  /\ UNCHANGED vc_first

\* What may leave the receiver with a wrong idea: three buttons at once, a double key right
\* after two buttons that are none, a report that is given up or not sent for want of a link, one
\* that happens to have the number of the last one taken, deep sleep with a button down; and, with
\* a key held, half a second in which every frame was lost, or power and down kept the
\* controller from repeating it.
Spoils ==
  \/ Count = 3
  \/ Count = 2 /\ last_btn_cnt = 2 /\ ~DoubleKeySendFlag /\ DoubleKey(vc_down) # NoVcKey
  \/ vc_sending = 1
  \/ ReadKey /\ KeyEvents # <<>> /\ (~vc_link \/ vc_seq' = vr_seq)
  \/ vc_asleep' /\ (vc_down # {} \/ vr_not_release')
  \/ vr_release_cnt' = VR_TIMEOUT /\ (vc_sending' > 0 \/ vc_mute')
AllUp == /\ vc_down = {} /\ last_btn_cnt' = 0 /\ ~DoubleKeySendFlag'
         /\ vc_sending' = 0 /\ vr_key' = NoVcKey /\ ~vr_not_release'

vc_main_loop ==
  /\ ~vc_asleep
  /\ button_detect_proc
  /\ vc_rf_km' = Km
  /\ IF vc_link THEN ReportRf ELSE PairingRf
  /\ vc_pm_proc
  /\ vc_spoilt' = (Spoils \/ (vc_spoilt /\ ~AllUp))
  /\ vc_still' = IF vc_sending > 0 \/ vc_sending' > 0 \/ vc_spoilt' THEN 0
                 ELSE IF vc_still < VcStill THEN vc_still + 1 ELSE vc_still
  /\ UNCHANGED vc_down

VcButtonsMove ==
  /\ vc_down' \in VcChords \ {vc_down}
  /\ vc_still' = 0
  /\ UNCHANGED <<vcButtonVars, vcKeyVars, vcRfVars, vcSleepVars, vcReceiverVars, vc_spoilt>>

\* user_init: the RAM is as at power on.
VcBoot(link, seq, first) ==
  /\ vc_sample' = {} /\ vc_run' = VC_DEBOUNCE /\ btn_filter_last' = {}
  /\ key_change_flg' = "none" /\ key_repeat_cnt' = 0
  /\ last_btn_cnt' = 0 /\ DoubleKeySendFlag' = FALSE
  /\ one_key_press_save' = NoVcKey /\ double_key_press_save' = NoVcKey
  /\ vc_pkt' = <<>> /\ vc_seq' = seq /\ vc_sending' = 0
  /\ vc_link' = link /\ vc_rf_km' = link /\ vc_saved' = link
  /\ vc_no_ack' = 0 /\ vc_cnt_basic' = 0 /\ vc_loop_cnt' = 0
  /\ vc_asleep' = FALSE /\ vc_first' = first
  /\ vc_still' = 0

\* A button wakes the controller.
VcWakes ==
  /\ vc_asleep /\ vc_down # {}
  /\ VcBoot(vc_saved, vc_seq % VC_SEQ_SAVED, FALSE)
  /\ vr_release_cnt' \in IF vr_not_release THEN vr_release_cnt..VR_TIMEOUT ELSE {0}
  /\ vc_mute' = FALSE
  /\ UNCHANGED <<vc_down, vr_seq, vr_knows, vr_key, vr_not_release, vc_spoilt>>

\* main_loop of the receiver: half a second without a frame, and it releases the key by itself,
\* whatever the controller does.
VrTimeout ==
  /\ vr_not_release /\ (vr_release_cnt = VR_TIMEOUT \/ vc_asleep)
  /\ vr_not_release' = FALSE /\ vr_key' = NoVcKey /\ vr_release_cnt' = 0 /\ vc_mute' = FALSE
  /\ UNCHANGED <<vc_down, vcButtonVars, vcKeyVars, vcRfVars, vcSleepVars, vr_seq, vr_knows,
                 vc_spoilt, vc_still>>

VcNext == vc_main_loop \/ VcButtonsMove \/ VcWakes \/ VrTimeout
VcSpec == VcInit /\ [][VcNext]_vcVars
VcFair == VcSpec /\ WF_vcVars(vc_main_loop)

-----------------------------------------------------------------------------
\* The receiver is never left behind: with the buttons at rest and nothing to send, it sees a
\* key pressed just if one button or a double key is down, though changes during a report are
\* dropped, a frame may be taken twice or its answer be lost, and the receiver releases by itself
\* a key it hears nothing of.  Not so after what Spoils lists, an outage of half a second with a
\* key held among it: a repetition does not press the key again.  (Power and down together mean
\* nothing, and do not repeat: a change to them that is dropped is never made good.)
VcSettled ==
  vc_still = VcStill /\ vc_link /\ ~vc_asleep /\ ~vc_spoilt /\ vc_down # {"power", "down"} =>
    (vr_key = NoVcKey <=> vc_down = {})

\* An event that makes sense to a receiver that sees this key pressed, and such a frame.
Fits(key, e) == CASE e.ctrl = "pressed" -> key = NoVcKey
                  [] e.ctrl = "released" -> key = e.key
                  [] OTHER -> key # NoVcKey
InTurn(key, pkt) ==
  \A i \in DOMAIN pkt : Fits(IF i = 1 THEN key ELSE Shown(key, pkt[1]), pkt[i])

\* What the receiver passes on to the cleaner are presses and releases in turn: no key is
\* pressed while another is, a release names the key that was pressed, and the receiver makes up
\* none: the repetitions keep it from releasing a key that is held.  But for what Spoils lists.
VcBalanced ==
  [][~vc_spoilt /\ ~vc_spoilt' =>
       /\ vr_seq' # vr_seq => InTurn(vr_key, vc_pkt')
       /\ vr_seq' = vr_seq => vr_not_release' = vr_not_release]_vcVars

\* The battery lasts: without a button held for ever the controller goes to deep sleep, linked or
\* not, answered or not.
VcRests == <>[](vc_down = {}) => []<>vc_asleep
=============================================================================
