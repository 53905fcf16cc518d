--------------------------- MODULE KeyboardPower ----------------------------
(***************************************************************************)
(* Pairing, link state and sleep of the keyboard product                   *)
(* (vendor/keyboard_remington): kb_paring_and_syncing_proc and kb_rf_proc, *)
(* kb_device_led_process, kb_batt_det_process and kb_pm_proc of one pass   *)
(* of main_loop, with what deep sleep leaves in the analog registers       *)
(* (kb_info_save, kb_info_load).                                           *)
(*                                                                         *)
(* What the keys are is left to Keyboard: here a pass may or may not have  *)
(* a new report whenever the matrix is scanned, but has one if the host's  *)
(* status is unknown.  The frames that carry the id, a few passes only, are *)
(* in Keyboard too.  A pass takes 12 ms, in long suspend 100; the times  *)
(* that count in long suspend are over before it begins.                   *)
(***************************************************************************)
EXTENDS Naturals

CONSTANTS
  KP_POWER_ON,  \* passes a keyboard asks for pairing after power on (44)
  KP_PAIRING,   \* KB_MANUAL_PARING_MOST (833)
  KP_NO_QUICK,  \* KB_NO_QUICK_SLEEP_CNT (1666)
  KP_NO_LINK,   \* HOST_NO_LINK: frames lost (400)
  KP_BASIC,     \* thresh_basic_suspend (166)
  KP_LONG,      \* thresh_long_suspend (19)
  KP_IDLE,      \* passes in a second (83)
  KP_WINDOW,    \* release_cnt (6)
  KP_BATT,      \* passes between two looks at the battery (400)
  KP_LED        \* passes of a blinking pattern

ASSUME KpAssumption ==
  /\ {KP_POWER_ON, KP_PAIRING, KP_NO_QUICK, KP_NO_LINK, KP_BASIC, KP_LONG, KP_IDLE,
      KP_WINDOW, KP_BATT, KP_LED} \subseteq Nat \ {0}
  /\ KP_POWER_ON < KP_PAIRING /\ KP_PAIRING < KP_NO_QUICK
  /\ KP_IDLE < KP_BASIC

VARIABLES
  kp_down,      \* the user holds a key
  kp_release,   \* release_cnt of the scan
  kb_mode,      \* "syncing", "pairing", "normal", "emi", "wait"
  mode_link,    \* a dongle has answered
  kp_flow,      \* pkt_pairing.flow has PKT_FLOW_PARING
  kp_km,        \* kb_rf_pkt is the report, not the pairing request
  kp_sending,   \* km_dat_sending
  no_ack, loop_cnt,
  kp_valid, kp_silence,   \* as kb_valid and kb_silence of Keyboard
  kp_locked,    \* kb_is_lock_pressed
  kp_led,       \* passes the LED will still blink
  batt_det_count,
  sleep_mode,   \* "basic", "long", "wait", "deep"
  cnt_basic, cnt_long,
  kp_saved,     \* the analog registers: link and lock
  kp_pass       \* history: flips with every pass, so that none is a stuttering step

kpKeyVars == <<kp_down, kp_release>>
kpLinkVars == <<kb_mode, mode_link, kp_flow, kp_km, kp_sending, no_ack, kp_valid, kp_silence>>
kpSleepVars == <<sleep_mode, cnt_basic, cnt_long>>
kpVars == <<kpKeyVars, kpLinkVars, kpSleepVars, loop_cnt, kp_locked, kp_led, batt_det_count,
            kp_saved, kp_pass>>

KpTypeOK ==
  /\ kp_down \in BOOLEAN /\ kp_release \in 0..KP_WINDOW
  /\ kb_mode \in {"syncing", "pairing", "normal", "emi", "wait"}
  /\ mode_link \in BOOLEAN /\ kp_flow \in BOOLEAN /\ kp_km \in BOOLEAN
  /\ kp_sending \in BOOLEAN /\ kp_valid \in BOOLEAN /\ kp_silence \in 0..KP_IDLE
  /\ no_ack \in 0..KP_NO_LINK /\ loop_cnt \in 0..KP_NO_QUICK
  /\ kp_locked \in BOOLEAN /\ kp_led \in 0..KP_LED /\ batt_det_count \in 0..KP_BATT
  /\ sleep_mode \in {"basic", "long", "wait", "deep"}
  /\ cnt_basic \in 0..KP_BASIC /\ cnt_long \in 0..KP_LONG + 1
  /\ kp_saved \in [link : BOOLEAN, lock : BOOLEAN] /\ kp_pass \in BOOLEAN

\* user_init and kb_platform_init, with a key down or not.  Power on with nothing but
\* ESC down starts the test mode.
KpBoot(saved, down) ==
  /\ kp_down' = down
  /\ kp_release' = IF down THEN KP_WINDOW - 1 ELSE 0
  /\ kb_mode' \in IF saved.link THEN {"normal"}
                  ELSE {"syncing"} \cup {m \in {"emi"} : down}
  /\ mode_link' = saved.link /\ kp_km' = saved.link
  /\ kp_flow' = FALSE /\ kp_sending' = FALSE
  /\ no_ack' = 1 /\ loop_cnt' = 0
  /\ kp_valid' = FALSE /\ kp_silence' = KP_IDLE
  /\ kp_locked' = saved.lock
  /\ kp_led' = IF kb_mode' = "syncing" THEN KP_LED ELSE 0
  /\ batt_det_count' = 0
  /\ sleep_mode' = "basic" /\ cnt_basic' = 0 /\ cnt_long' = 0
  /\ kp_saved' = saved /\ kp_pass' = FALSE

NothingSaved == [link |-> FALSE, lock |-> FALSE]

KpInit ==
  /\ kp_down = FALSE /\ kp_release = 0
  /\ kb_mode = "syncing" /\ mode_link = FALSE /\ kp_km = FALSE
  /\ kp_flow = FALSE /\ kp_sending = FALSE
  /\ no_ack = 1 /\ loop_cnt = 0
  /\ kp_valid = FALSE /\ kp_silence = KP_IDLE
  /\ kp_locked = FALSE /\ kp_led = KP_LED /\ batt_det_count = 0
  /\ sleep_mode = "basic" /\ cnt_basic = 0 /\ cnt_long = 0
  /\ kp_saved = NothingSaved /\ kp_pass = FALSE

UpTo(n, max) == IF n + 1 > max THEN max ELSE n + 1

-----------------------------------------------------------------------------
\* scan_pin_need
Pressed == kp_down \/ kp_release > 0

\* A normal keyboard that does not know the host's status asks with every scan.
MustReport == Pressed /\ kb_mode = "normal" /\ ~kp_valid /\ ~kp_locked
MayReport == Pressed /\ (MustReport \/ ~kp_sending)

\* kb_scan_key and kb_lock_func: whether there is a report, whether it is of the lock key.
ScanAndLock(report, lock) ==
  /\ MustReport => report
  /\ report => MayReport
  /\ lock => report
  /\ kp_release' = IF kp_down THEN KP_WINDOW - 1 ELSE IF Pressed THEN kp_release - 1 ELSE 0
  /\ kp_locked' = (kp_locked # lock)

\* A pattern that is asked for replaces the one that is shown if it has priority.
LedAsked(asked, n) == IF ~asked THEN {n} ELSE IF n = 0 THEN {KP_LED} ELSE {n, KP_LED}

FlowAt(loop) == IF loop <= KP_POWER_ON THEN loop < KP_POWER_ON ELSE kp_flow

NewlyLinked == kb_mode \in {"syncing", "pairing"} /\ mode_link /\ ~kp_km
TimedOut == kb_mode = "pairing" /\ ~NewlyLinked /\ loop_cnt >= KP_PAIRING
LoopCnt(keys) == IF keys THEN KP_POWER_ON ELSE loop_cnt
Mode(keys) ==
  IF NewlyLinked THEN "normal" ELSE IF keys THEN "pairing"
  ELSE IF TimedOut THEN "syncing" ELSE kb_mode

\* kb_paring_and_syncing_proc.  keys: ESC and Q are down.
kb_paring_and_syncing_proc(keys) ==
  /\ keys => kb_mode = "syncing" /\ ~NewlyLinked
  /\ kp_km' = (kp_km \/ NewlyLinked)
  /\ kp_flow' = IF kb_mode = "syncing" /\ ~NewlyLinked THEN keys \/ FlowAt(loop_cnt)
                ELSE kp_flow /\ ~TimedOut
  /\ loop_cnt' = UpTo(LoopCnt(keys), KP_NO_QUICK)

\* A frame is acknowledged; or its answer only repeats the time of the one before, which
\* links the keyboard but does not count; or there is none.
kp_rf_proc(sends, new) ==
  LET second == kp_silence = KP_IDLE
  IN \/ /\ sends
        /\ no_ack' = 0 /\ kp_silence' = 0
        /\ kp_sending' = FALSE
        /\ mode_link' = TRUE
        /\ kp_valid' = ((kp_valid /\ ~second) \/ kp_km')
     \/ /\ no_ack' = IF sends THEN UpTo(no_ack, KP_NO_LINK) ELSE no_ack
        /\ kp_silence' = UpTo(kp_silence, KP_IDLE)
        /\ kp_sending' = new
        /\ \E seen \in BOOLEAN :
             /\ seen => sends
             /\ mode_link' = (mode_link \/ seen)
             /\ kp_valid' = ((kp_valid /\ ~(second /\ mode_link)) \/ (seen /\ kp_km'))

\* kb_device_led_process and kb_batt_det_process, after what pairing asked the LED for.
\* The battery is measured when nothing else is done, and now and then while a key is down.
LedAndBattery(asked, sends) ==
  \E led \in LedAsked(asked, kp_led) :
    LET left == IF led > 0 THEN led - 1 ELSE 0
    IN \E measures, low \in BOOLEAN :
         /\ ~sends /\ ~Pressed => measures
         /\ measures => ~sends
         /\ LET looks == /\ measures /\ sleep_mode = "basic"
                         /\ UpTo(batt_det_count, KP_BATT) = KP_BATT
            IN  /\ low => looks
                /\ batt_det_count' = IF looks THEN 0 ELSE UpTo(batt_det_count, KP_BATT)
                /\ kp_led' \in LedAsked(low, left)

\* Mutant of Busy: a report that waits for its answer does not count.
BusyNotSending(sends) == kp_led' > 0 \/ (kp_locked' /\ Pressed)
Busy(sends) == sends \/ kp_led' > 0 \/ (kp_locked' /\ Pressed)

\* Mutant of QuickSleep: never while a keyboard is still looking for its dongle.
QuickSleepLinked(mode, loop) == no_ack' >= KP_NO_LINK /\ mode \notin {"syncing", "pairing"}
QuickSleep(mode, loop) ==
  /\ no_ack' >= KP_NO_LINK
  /\ mode \in {"syncing", "pairing"} => loop >= KP_NO_QUICK

\* kb_slp_mode_machine and kb_pm_proc: with a key down the keyboard waits for its release
\* before it goes into deep sleep.
kb_pm_proc(mode, loop, sends) ==
  LET full == sleep_mode = "basic" /\ cnt_basic + 1 >= KP_BASIC
      first == IF Busy(sends) THEN "basic" ELSE IF full THEN "long" ELSE sleep_mode
      deep == \/ first = "long" /\ cnt_long' > KP_LONG
              \/ QuickSleep(mode, loop)
  IN  /\ cnt_basic' = IF Busy(sends) THEN 0
                      ELSE IF sleep_mode = "basic" THEN cnt_basic + 1 ELSE cnt_basic
      /\ cnt_long' = (IF Busy(sends) \/ full THEN 0 ELSE cnt_long)
                     + (IF first = "long" THEN 1 ELSE 0)
      /\ sleep_mode' = IF ~deep THEN first ELSE IF Pressed THEN "wait" ELSE "deep"
      /\ kb_mode' = IF sleep_mode' = "wait" /\ deep THEN "wait" ELSE mode
      /\ kp_saved' = IF sleep_mode' = "deep" THEN [link |-> mode_link', lock |-> kp_locked']
                     ELSE kp_saved

kp_main_loop ==
  /\ kb_mode # "emi" /\ sleep_mode # "deep"
  /\ \E report, lock, keys \in BOOLEAN :
       LET mode == Mode(keys)
           new == kp_sending \/ (mode_link /\ ((report /\ ~kp_locked') \/ NewlyLinked))
           sends == (new \/ ~mode_link) /\ mode # "wait"
       IN  /\ keys => report /\ ~lock
           /\ ScanAndLock(report, lock)
           /\ kb_paring_and_syncing_proc(keys)
           /\ kp_rf_proc(sends, new)
           /\ LedAndBattery(keys \/ TimedOut \/ (NewlyLinked /\ kb_mode = "pairing"), sends)
           /\ kb_pm_proc(mode, LoopCnt(keys), sends)
  /\ kp_pass' = ~kp_pass
  /\ UNCHANGED kp_down

KpKeysChange ==
  /\ sleep_mode # "deep"
  /\ kp_down' = ~kp_down
  /\ UNCHANGED <<kp_release, kpLinkVars, kpSleepVars, loop_cnt, kp_locked, kp_led,
                 batt_det_count, kp_saved, kp_pass>>

\* A key wakes the keyboard from deep sleep: it starts anew, but for the registers.
KeyWakes == sleep_mode = "deep" /\ KpBoot(kp_saved, TRUE)

\* The battery is changed.
PowerLoss == \E down \in BOOLEAN : KpBoot(NothingSaved, down)

KpNext == kp_main_loop \/ KpKeysChange \/ KeyWakes \/ PowerLoss
KpSpec == KpInit /\ [][KpNext]_kpVars

-----------------------------------------------------------------------------
\* A keyboard that waits for the release of the keys to go into deep sleep goes there in
\* the first pass without one (kb_pm.c, comment of line 102); nothing brings it back.
KpWaitDeepEnds ==
  [][kb_mode = "wait" /\ ~Pressed /\ ~kp_down'
     => sleep_mode' = "deep" \/ kb_mode' # "wait"]_kpVars

\* No report is lost in deep sleep as long as the dongle answers: one that waits for its
\* answer keeps the keyboard awake.
KpNothingLost == sleep_mode = "deep" /\ kp_sending => no_ack >= KP_NO_LINK

\* A keyboard without a link asks to be paired in its first passes or on request only,
\* and for a limited time.
KpPairingWindow ==
  kp_flow /\ ~kp_km /\ kb_mode # "wait" =>
    \/ kb_mode = "syncing" /\ loop_cnt <= KP_POWER_ON
    \/ kb_mode = "pairing" /\ loop_cnt \in KP_POWER_ON..KP_PAIRING

\* A keyboard that is left alone goes into deep sleep, whether its dongle is there or not and
\* although a low battery makes the LED blink again and again (unless it is taken out all
\* the time).
KpRests ==
  \/ []<><<PowerLoss>>_kpVars
  \/ []<>(kp_down \/ sleep_mode = "deep" \/ kb_mode = "emi")
=============================================================================
