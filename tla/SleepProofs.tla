----------------------------- MODULE SleepProofs -----------------------------
(***************************************************************************)
(* Proofs about when keyboard and pen sleep (KeyboardPower, PenPower) and  *)
(* about the LED that keeps them awake (DeviceLed), for every value of     *)
(* their times.                                                            *)
(***************************************************************************)
EXTENDS KeyboardPower, PenPower, DeviceLed, TLAPS

\* The keyboard: what its mode says of its link.
KpLinked ==
  /\ kb_mode \in {"syncing", "pairing", "emi"} => ~kp_km
  /\ kb_mode = "normal" => kp_km
  /\ kp_km => mode_link

\* It waits for the release of its keys only when its dongle is gone.
KpWaits ==
  /\ kb_mode = "wait" => no_ack = KP_NO_LINK
  /\ sleep_mode = "wait" => kb_mode = "wait"

\* As long as it waited, so long it has heard nothing, and then it has forgotten the status of
\* its host, for which a pass with a key down would ask.
KpQuiet ==
  /\ kb_mode # "wait" => /\ kp_silence < KP_IDLE => cnt_basic <= kp_silence
                         /\ kp_valid => cnt_basic <= KP_IDLE
  /\ sleep_mode = "basic" => cnt_basic < KP_BASIC
  /\ sleep_mode = "long" => cnt_basic = KP_BASIC /\ cnt_long <= KP_LONG

\* The pen: before its first pass it knows no dongle; once it does it sends frames, and does so
\* for good.
PpKnows ==
  /\ pp_mode = "poweron" => ~pp_linked
  /\ ~pp_linked => pp_pkt = "pairing" /\ pp_loop_cnt <= pp_asked + 1
  \* Only just awake it takes itself for linked: one pass that sends nothing.
  /\ pp_mode = "normal" /\ ~pp_linked => pp_loop_cnt = 0 /\ pp_sleep = "8ms"

\* How far either count of passes has come.
PpCounts ==
  /\ pp_sleep = "8ms" => pp_cnt_8ms < PP_8MS

PpInv == PpTypeOK /\ PpKnows /\ PpCounts /\ PpAsksLong

KpInv == KpTypeOK /\ KpLinked /\ KpWaits /\ KpQuiet /\ KpNothingLost /\ KpPairingWindow

-----------------------------------------------------------------------------
LEMMA KpConstants ==
  /\ KP_POWER_ON \in Nat /\ KP_PAIRING \in Nat /\ KP_NO_QUICK \in Nat /\ KP_NO_LINK \in Nat
  /\ KP_BASIC \in Nat /\ KP_LONG \in Nat /\ KP_IDLE \in Nat /\ KP_WINDOW \in Nat
  /\ KP_BATT \in Nat /\ KP_LED \in Nat
  /\ KP_NO_LINK > 0 /\ KP_LONG > 0 /\ KP_WINDOW > 0 /\ KP_BATT > 0 /\ KP_LED > 0
  /\ KP_POWER_ON > 0 /\ KP_IDLE > 0
  /\ KP_POWER_ON < KP_PAIRING /\ KP_PAIRING < KP_NO_QUICK
  /\ KP_IDLE < KP_BASIC
  BY KpAssumption

\* Where the counters start is in their ranges.
LEMMA KpRanges ==
  /\ 1 \in 0..KP_NO_LINK /\ 0 \in 0..KP_NO_QUICK /\ KP_IDLE \in 0..KP_IDLE
  /\ 0 \in 0..KP_WINDOW /\ KP_WINDOW - 1 \in 0..KP_WINDOW
  /\ 0 \in 0..KP_LED /\ KP_LED \in 0..KP_LED /\ 0 \in 0..KP_BATT
  /\ 0 \in 0..KP_BASIC /\ 0 \in 0..KP_LONG + 1
  BY KpConstants

LEMMA KpInitInv == KpInit => KpInv
<1> SUFFICES ASSUME KpInit PROVE KpInv
  OBVIOUS
<1>1. KpTypeOK
  <2>1. NothingSaved \in [link : BOOLEAN, lock : BOOLEAN]
    BY DEF NothingSaved
  <2> QED BY <2>1, KpRanges DEF KpInit, KpTypeOK
<1> QED BY <1>1, KpConstants
        DEF KpInit, KpInv, KpLinked, KpWaits, KpQuiet, KpNothingLost, KpPairingWindow

\* A keyboard that starts anew.
LEMMA KpBootInv ==
  ASSUME NEW saved \in [link : BOOLEAN, lock : BOOLEAN], NEW down \in BOOLEAN,
         KpBoot(saved, down)
  PROVE  KpInv'
<1>1. KpTypeOK'
  <2>1. /\ kb_mode' \in {"normal", "syncing", "emi"}
        /\ mode_link' \in BOOLEAN /\ kp_km' \in BOOLEAN /\ kp_locked' \in BOOLEAN
        /\ kp_flow' = FALSE /\ kp_sending' = FALSE /\ kp_valid' = FALSE /\ kp_pass' = FALSE
        /\ kp_saved' \in [link : BOOLEAN, lock : BOOLEAN] /\ kp_down' \in BOOLEAN
        /\ sleep_mode' = "basic"
    BY DEF KpBoot
  <2>2. /\ no_ack' \in 0..KP_NO_LINK /\ kp_silence' \in 0..KP_IDLE /\ loop_cnt' \in 0..KP_NO_QUICK
        /\ kp_release' \in 0..KP_WINDOW /\ kp_led' \in 0..KP_LED /\ batt_det_count' \in 0..KP_BATT
        /\ cnt_basic' \in 0..KP_BASIC /\ cnt_long' \in 0..KP_LONG + 1
    BY KpRanges DEF KpBoot
  <2> QED BY <2>1, <2>2 DEF KpTypeOK
<1>2. KpLinked' /\ KpWaits' /\ KpQuiet' /\ KpNothingLost' /\ KpPairingWindow'
  BY KpConstants DEF KpBoot, KpLinked, KpWaits, KpQuiet, KpNothingLost, KpPairingWindow
<1> QED BY <1>1, <1>2 DEF KpInv

LEMMA KpUpTo ==
  ASSUME NEW n \in Nat, NEW max \in Nat, n <= max
  PROVE  /\ UpTo(n, max) \in 0..max
         /\ n < max => UpTo(n, max) = n + 1
         /\ n = max => UpTo(n, max) = max
  BY DEF UpTo

\* The parts of a pass.
KpPass(report, lock, keys, new, sends) ==
  /\ keys => report /\ ~lock
  /\ new = (kp_sending \/ (mode_link /\ ((report /\ ~kp_locked') \/ NewlyLinked)))
  /\ sends = ((new \/ ~mode_link) /\ Mode(keys) # "wait")
  /\ ScanAndLock(report, lock)
  /\ kb_paring_and_syncing_proc(keys)
  /\ kp_rf_proc(sends, new)
  /\ LedAndBattery(keys \/ TimedOut \/ (NewlyLinked /\ kb_mode = "pairing"), sends)
  /\ kb_pm_proc(Mode(keys), LoopCnt(keys), sends)

\* What pairing and the radio leave.
LEMMA KpPassLink ==
  ASSUME KpInv, kb_mode # "emi",
         NEW report \in BOOLEAN, NEW lock \in BOOLEAN, NEW keys \in BOOLEAN,
         NEW new \in BOOLEAN, NEW sends \in BOOLEAN,
         KpPass(report, lock, keys, new, sends)
  PROVE  /\ kp_flow' \in BOOLEAN /\ kp_km' \in BOOLEAN /\ mode_link' \in BOOLEAN
         /\ kp_sending' \in BOOLEAN /\ kp_valid' \in BOOLEAN
         /\ no_ack' \in 0..KP_NO_LINK /\ kp_silence' \in 0..KP_IDLE
         /\ loop_cnt' \in 0..KP_NO_QUICK
         /\ Mode(keys) \in {"syncing", "pairing", "normal", "wait"}
         /\ Mode(keys) \in {"syncing", "pairing"} => ~kp_km'
         /\ Mode(keys) = "normal" => kp_km'
         /\ kp_km' => mode_link'
         /\ Mode(keys) = "wait" <=> kb_mode = "wait"
<1>1. /\ kb_mode \in {"syncing", "pairing", "normal", "wait"} /\ no_ack \in 0..KP_NO_LINK
      /\ kp_flow \in BOOLEAN /\ kp_km \in BOOLEAN /\ mode_link \in BOOLEAN
      /\ kp_valid \in BOOLEAN /\ kp_silence \in 0..KP_IDLE /\ loop_cnt \in 0..KP_NO_QUICK
  BY DEF KpInv, KpTypeOK
<1>2. kp_km' \in BOOLEAN /\ kp_flow' \in BOOLEAN
  BY <1>1 DEF KpPass, kb_paring_and_syncing_proc, FlowAt
<1>3. loop_cnt' \in 0..KP_NO_QUICK
  <2>1. LoopCnt(keys) \in 0..KP_NO_QUICK
    BY <1>1, KpConstants DEF LoopCnt
  <2> QED BY <2>1, KpConstants DEF KpPass, kb_paring_and_syncing_proc, UpTo
<1>4. /\ mode_link' \in BOOLEAN /\ kp_sending' \in BOOLEAN /\ kp_valid' \in BOOLEAN
      /\ mode_link => mode_link'
  BY <1>1, <1>2 DEF KpPass, kp_rf_proc
<1>5. no_ack' \in 0..KP_NO_LINK /\ kp_silence' \in 0..KP_IDLE
  BY <1>1, KpConstants DEF KpPass, kp_rf_proc, UpTo
<1>6. /\ kp_km' = (kp_km \/ NewlyLinked)
      /\ keys => kb_mode = "syncing" /\ ~NewlyLinked
      /\ NewlyLinked => kb_mode \in {"syncing", "pairing"} /\ mode_link
  BY DEF KpPass, kb_paring_and_syncing_proc, NewlyLinked
<1>7. /\ Mode(keys) \in {"syncing", "pairing", "normal", "wait"}
      /\ Mode(keys) = "wait" <=> kb_mode = "wait"
  BY <1>1, <1>6 DEF Mode, TimedOut
<1>8. /\ Mode(keys) \in {"syncing", "pairing"} => ~kp_km'
      /\ Mode(keys) = "normal" => kp_km'
      /\ kp_km' => mode_link'
  BY <1>1, <1>4, <1>6 DEF Mode, TimedOut, KpInv, KpLinked
<1> QED BY <1>2, <1>3, <1>4, <1>5, <1>7, <1>8

\* A pass that is not busy sends nothing, and with a key down the host's status is known.
LEMMA KpNotBusy ==
  ASSUME KpInv, kb_mode # "emi", kb_mode # "wait",
         NEW report \in BOOLEAN, NEW lock \in BOOLEAN, NEW keys \in BOOLEAN,
         NEW new \in BOOLEAN, NEW sends \in BOOLEAN,
         KpPass(report, lock, keys, new, sends), ~Busy(sends)
  PROVE  /\ ~sends /\ ~new /\ mode_link
         /\ Pressed => kp_valid
         /\ kp_silence' = UpTo(kp_silence, KP_IDLE)
         /\ kp_valid' => kp_valid /\ kp_silence # KP_IDLE
         /\ kp_sending' = FALSE
<1>1. Mode(keys) # "wait"
  BY KpPassLink
<1>2. ~sends /\ ~new /\ mode_link /\ ~NewlyLinked /\ ~(report /\ ~kp_locked') /\ ~kp_sending
  BY <1>1 DEF KpPass, Busy, KpInv, KpTypeOK
<1>3. kb_mode = "normal"
  BY <1>2 DEF NewlyLinked, KpInv, KpTypeOK, KpLinked
<1>4. Pressed => kp_valid
  <2> SUFFICES ASSUME Pressed, ~kp_valid PROVE FALSE
    BY DEF KpInv, KpTypeOK
  <2>1. ~kp_locked'
    BY DEF Busy
  <2>2. MustReport => report
    BY DEF KpPass, ScanAndLock
  <2>3. kp_locked' = (kp_locked # lock) /\ (lock => report)
    BY DEF KpPass, ScanAndLock
  <2> QED BY <1>2, <1>3, <2>1, <2>2, <2>3 DEF MustReport, KpInv, KpTypeOK
<1>5. /\ kp_silence' = UpTo(kp_silence, KP_IDLE)
      /\ kp_valid' => kp_valid /\ kp_silence # KP_IDLE
      /\ kp_sending' = FALSE
  BY <1>2 DEF KpPass, kp_rf_proc, KpInv, KpTypeOK
<1> QED BY <1>2, <1>4, <1>5

\* What the LED and the battery leave.
LEMMA KpPassLed ==
  ASSUME KpTypeOK, NEW asked \in BOOLEAN, NEW sends \in BOOLEAN, LedAndBattery(asked, sends)
  PROVE  kp_led' \in 0..KP_LED /\ batt_det_count' \in 0..KP_BATT
<1>1. PICK blink \in LedAsked(asked, kp_led), measures \in BOOLEAN, low \in BOOLEAN :
        /\ \E looks \in BOOLEAN : batt_det_count' = IF looks THEN 0 ELSE UpTo(batt_det_count, KP_BATT)
        /\ kp_led' \in LedAsked(low, IF blink > 0 THEN blink - 1 ELSE 0)
  <2>1. PICK blink \in LedAsked(asked, kp_led), measures \in BOOLEAN, low \in BOOLEAN :
          LET looks == /\ measures /\ sleep_mode = "basic"
                       /\ UpTo(batt_det_count, KP_BATT) = KP_BATT
          IN  /\ batt_det_count' = IF looks THEN 0 ELSE UpTo(batt_det_count, KP_BATT)
              /\ kp_led' \in LedAsked(low, IF blink > 0 THEN blink - 1 ELSE 0)
    BY DEF LedAndBattery
  <2> QED BY <2>1
<1>2. blink \in 0..KP_LED
  BY KpRanges DEF KpTypeOK, LedAsked
<1>3. (IF blink > 0 THEN blink - 1 ELSE 0) \in 0..KP_LED
  BY <1>2, KpConstants
<1>4. kp_led' \in 0..KP_LED
  BY <1>1, <1>3, KpRanges DEF LedAsked
<1>5. batt_det_count' \in 0..KP_BATT
  BY <1>1, KpConstants DEF KpTypeOK, UpTo
<1> QED BY <1>4, <1>5

\* What the sleep machine leaves.
LEMMA KpPassSleep ==
  ASSUME KpInv, kb_mode # "emi", sleep_mode # "deep",
         NEW report \in BOOLEAN, NEW lock \in BOOLEAN, NEW keys \in BOOLEAN,
         NEW new \in BOOLEAN, NEW sends \in BOOLEAN,
         KpPass(report, lock, keys, new, sends)
  PROVE  /\ sleep_mode' \in {"basic", "long", "wait", "deep"}
         /\ cnt_basic' \in 0..KP_BASIC /\ cnt_long' \in 0..KP_LONG + 1
         /\ kb_mode' \in {Mode(keys), "wait"}
         /\ KpWaits' /\ KpQuiet' /\ KpNothingLost'
<1> DEFINE busy == Busy(sends)
           full == sleep_mode = "basic" /\ cnt_basic + 1 >= KP_BASIC
           first == IF busy THEN "basic" ELSE IF full THEN "long" ELSE sleep_mode
           deep == \/ first = "long" /\ cnt_long' > KP_LONG
                   \/ QuickSleep(Mode(keys), LoopCnt(keys))
<1>1. /\ cnt_basic' = IF busy THEN 0 ELSE IF sleep_mode = "basic" THEN cnt_basic + 1 ELSE cnt_basic
      /\ cnt_long' = (IF busy \/ full THEN 0 ELSE cnt_long) + (IF first = "long" THEN 1 ELSE 0)
      /\ sleep_mode' = IF ~deep THEN first ELSE IF Pressed THEN "wait" ELSE "deep"
      /\ kb_mode' = IF sleep_mode' = "wait" /\ deep THEN "wait" ELSE Mode(keys)
  BY DEF KpPass, kb_pm_proc
<1>2. /\ sleep_mode \in {"basic", "long", "wait"}
      /\ cnt_basic \in 0..KP_BASIC /\ cnt_long \in 0..KP_LONG + 1
      /\ sleep_mode = "basic" => cnt_basic < KP_BASIC
      /\ sleep_mode = "long" => cnt_basic = KP_BASIC /\ cnt_long <= KP_LONG
      /\ sleep_mode = "wait" => kb_mode = "wait"
      /\ KP_BASIC \in Nat /\ KP_LONG \in Nat /\ KP_IDLE \in Nat
      /\ KP_LONG > 0 /\ KP_IDLE < KP_BASIC /\ KP_NO_LINK \in Nat
  BY KpConstants DEF KpInv, KpTypeOK, KpQuiet, KpWaits
<1>3. /\ Mode(keys) = "wait" <=> kb_mode = "wait"
      /\ no_ack' \in 0..KP_NO_LINK /\ kp_silence' \in 0..KP_IDLE
  BY KpPassLink
<1>4. kb_mode = "wait" => no_ack' = KP_NO_LINK /\ deep
  <2> SUFFICES ASSUME kb_mode = "wait" PROVE no_ack' = KP_NO_LINK /\ deep
    OBVIOUS
  <2>1. ~sends /\ no_ack = KP_NO_LINK
    BY <1>3 DEF KpPass, KpInv, KpWaits
  <2>2. no_ack' = KP_NO_LINK
    BY <2>1 DEF KpPass, kp_rf_proc
  <2> QED BY <1>2, <1>3, <2>2 DEF QuickSleep
<1>5. QuickSleep(Mode(keys), LoopCnt(keys)) => no_ack' = KP_NO_LINK
  BY <1>2, <1>3 DEF QuickSleep
\* The keyboard is not about to sleep for its idleness when a key is down.
<1>6. ASSUME ~busy, kb_mode # "wait", first = "long", cnt_long' > KP_LONG
      PROVE  ~Pressed
  <2>1. ~full
    BY <1>1, <1>2, <1>6
  <2>2. sleep_mode = "long"
    BY <1>6, <2>1
  <2>3. ~kp_valid
    BY <1>2, <1>6, <2>2 DEF KpInv, KpQuiet
  <2> QED BY <1>6, <2>3, KpNotBusy
<1>7. first = "long" => ~busy
  OBVIOUS
<1>8. /\ sleep_mode' \in {"basic", "long", "wait", "deep"} /\ cnt_basic' \in 0..KP_BASIC
      /\ kb_mode' \in {Mode(keys), "wait"}
  BY <1>1, <1>2
<1>9. cnt_long' \in 0..KP_LONG + 1
  BY <1>1, <1>2
<1>10. KpWaits'
  <2>1. kb_mode' = "wait" => kb_mode = "wait" \/ (deep /\ Pressed)
    BY <1>1, <1>3
  <2>2. deep /\ Pressed => no_ack' = KP_NO_LINK
    BY <1>4, <1>5, <1>6, <1>7
  <2>3. sleep_mode' = "wait" => kb_mode' = "wait"
    BY <1>1, <1>2, <1>3, <1>4
  <2> QED BY <1>4, <2>1, <2>2, <2>3 DEF KpWaits
<1>11. KpQuiet'
  <2>1. sleep_mode' = "basic" => cnt_basic' < KP_BASIC
    BY <1>1, <1>2
  <2>2. sleep_mode' = "long" => cnt_basic' = KP_BASIC /\ cnt_long' <= KP_LONG
    BY <1>1, <1>2, <1>9
  <2>3. ASSUME kb_mode' # "wait"
        PROVE  /\ kp_silence' < KP_IDLE => cnt_basic' <= kp_silence'
               /\ kp_valid' => cnt_basic' <= KP_IDLE
    <3>1. CASE busy
      BY <1>1, <1>2, <1>3, <3>1
    <3>2. CASE ~busy
      <4>1. kb_mode # "wait"
        BY <1>1, <1>3, <2>3
      <4>2. /\ kp_silence' = UpTo(kp_silence, KP_IDLE)
            /\ kp_valid' => kp_valid /\ kp_silence # KP_IDLE
        BY <3>2, <4>1, KpNotBusy
      <4>3. /\ kp_silence \in 0..KP_IDLE
            /\ kp_silence < KP_IDLE => cnt_basic <= kp_silence
            /\ cnt_basic' \in {cnt_basic, cnt_basic + 1}
        BY <1>1, <3>2, <4>1 DEF KpInv, KpTypeOK, KpQuiet
      <4>4. CASE kp_silence < KP_IDLE
        BY <1>2, <4>2, <4>3, <4>4 DEF UpTo
      <4>5. CASE kp_silence = KP_IDLE
        BY <1>2, <4>2, <4>3, <4>5 DEF UpTo
      <4> QED BY <1>2, <4>3, <4>4, <4>5
    <3> QED BY <3>1, <3>2
  <2> QED BY <2>1, <2>2, <2>3 DEF KpQuiet
<1>12. KpNothingLost'
  <2> SUFFICES ASSUME sleep_mode' = "deep", kp_sending' PROVE no_ack' >= KP_NO_LINK
    BY DEF KpNothingLost
  <2>1. deep
    BY <1>1, <1>2
  <2>2. CASE kb_mode = "wait"
    BY <1>2, <1>4, <2>2
  <2>3. CASE kb_mode # "wait"
    <3>1. ~(first = "long")
      BY <1>7, <2>3, KpNotBusy
    <3> QED BY <1>2, <1>5, <2>1, <3>1
  <2> QED BY <2>2, <2>3
<1> QED BY <1>8, <1>9, <1>10, <1>11, <1>12

\* The keyboard asks for pairing no longer than it may.
LEMMA KpPassAsks ==
  ASSUME KpInv, kb_mode # "emi", sleep_mode # "deep",
         NEW report \in BOOLEAN, NEW lock \in BOOLEAN, NEW keys \in BOOLEAN,
         NEW new \in BOOLEAN, NEW sends \in BOOLEAN,
         KpPass(report, lock, keys, new, sends)
  PROVE  KpPairingWindow'
<1> SUFFICES ASSUME kp_flow', ~kp_km', kb_mode' # "wait"
             PROVE  \/ kb_mode' = "syncing" /\ loop_cnt' <= KP_POWER_ON
                    \/ kb_mode' = "pairing" /\ loop_cnt' \in KP_POWER_ON..KP_PAIRING
  BY DEF KpPairingWindow
<1>1. kb_mode' = Mode(keys) /\ kb_mode # "wait" /\ kb_mode \in {"syncing", "pairing", "normal"}
  <2>1. kb_mode' \in {Mode(keys), "wait"}
    BY KpPassSleep
  <2>2. /\ Mode(keys) \in {"syncing", "pairing", "normal", "wait"}
        /\ Mode(keys) = "wait" <=> kb_mode = "wait"
    BY KpPassLink
  <2> QED BY <2>1, <2>2 DEF KpInv, KpTypeOK
<1>2. ~NewlyLinked /\ ~kp_km /\ kb_mode \in {"syncing", "pairing"}
  BY <1>1 DEF KpPass, kb_paring_and_syncing_proc, KpInv, KpLinked
<1>3. /\ loop_cnt \in 0..KP_NO_QUICK /\ loop_cnt' = UpTo(LoopCnt(keys), KP_NO_QUICK)
      /\ kp_flow' = IF kb_mode = "syncing" THEN keys \/ FlowAt(loop_cnt) ELSE kp_flow /\ ~TimedOut
      /\ keys => kb_mode = "syncing"
  BY <1>2 DEF KpInv, KpTypeOK, KpPass, kb_paring_and_syncing_proc
<1>4. kp_flow => \/ kb_mode = "syncing" /\ loop_cnt <= KP_POWER_ON
                 \/ kb_mode = "pairing" /\ loop_cnt \in KP_POWER_ON..KP_PAIRING
  BY <1>1, <1>2 DEF KpInv, KpPairingWindow
<1>5. CASE keys
  BY <1>1, <1>2, <1>3, <1>5, KpConstants DEF Mode, LoopCnt, UpTo
<1>6. CASE ~keys /\ kb_mode = "syncing"
  <2>1. loop_cnt < KP_POWER_ON
    BY <1>3, <1>4, <1>6, KpConstants DEF FlowAt
  <2>2. kb_mode' = "syncing"
    BY <1>1, <1>2, <1>6 DEF Mode, TimedOut
  <2> QED BY <1>3, <1>6, <2>1, <2>2, KpConstants DEF LoopCnt, UpTo
<1>7. CASE ~keys /\ kb_mode = "pairing"
  <2>1. ~TimedOut /\ kp_flow
    BY <1>3, <1>7
  <2>2. kb_mode' = "pairing" /\ loop_cnt < KP_PAIRING /\ loop_cnt >= KP_POWER_ON
    BY <1>1, <1>2, <1>3, <1>4, <1>7, <2>1, KpConstants DEF Mode, TimedOut
  <2> QED BY <1>3, <1>7, <2>2, KpConstants DEF LoopCnt, UpTo
<1> QED BY <1>2, <1>5, <1>6, <1>7

LEMMA KpPassInv ==
  ASSUME KpInv, kp_main_loop
  PROVE  KpInv'
<1>1. PICK report \in BOOLEAN, lock \in BOOLEAN, keys \in BOOLEAN, new \in BOOLEAN, sends \in BOOLEAN :
        KpPass(report, lock, keys, new, sends)
  <2>1. PICK report \in BOOLEAN, lock \in BOOLEAN, keys \in BOOLEAN :
          LET mode == Mode(keys)
              new == kp_sending \/ (mode_link /\ ((report /\ ~kp_locked') \/ NewlyLinked))
              sends == (new \/ ~mode_link) /\ mode # "wait"
          IN  /\ keys => report /\ ~lock
              /\ ScanAndLock(report, lock)
              /\ kb_paring_and_syncing_proc(keys)
              /\ kp_rf_proc(sends, new)
              /\ LedAndBattery(keys \/ TimedOut \/ (NewlyLinked /\ kb_mode = "pairing"), sends)
              /\ kb_pm_proc(mode, LoopCnt(keys), sends)
    BY DEF kp_main_loop
  <2> DEFINE new == kp_sending \/ (mode_link /\ ((report /\ ~kp_locked') \/ NewlyLinked))
             sends == (new \/ ~mode_link) /\ Mode(keys) # "wait"
  <2>2. new \in BOOLEAN /\ sends \in BOOLEAN
    BY DEF KpInv, KpTypeOK
  <2>3. KpPass(report, lock, keys, new, sends)
    BY <2>1 DEF KpPass
  <2> QED BY <2>2, <2>3
<1>2. /\ kb_mode # "emi" /\ sleep_mode # "deep" /\ kp_down' = kp_down /\ kp_pass' = ~kp_pass
  BY DEF kp_main_loop
<1>3. /\ kp_flow' \in BOOLEAN /\ kp_km' \in BOOLEAN /\ mode_link' \in BOOLEAN
      /\ kp_sending' \in BOOLEAN /\ kp_valid' \in BOOLEAN
      /\ no_ack' \in 0..KP_NO_LINK /\ kp_silence' \in 0..KP_IDLE
      /\ loop_cnt' \in 0..KP_NO_QUICK
      /\ Mode(keys) \in {"syncing", "pairing", "normal", "wait"}
      /\ Mode(keys) \in {"syncing", "pairing"} => ~kp_km'
      /\ Mode(keys) = "normal" => kp_km'
      /\ kp_km' => mode_link'
  BY <1>1, <1>2, KpPassLink
<1>4. /\ sleep_mode' \in {"basic", "long", "wait", "deep"}
      /\ cnt_basic' \in 0..KP_BASIC /\ cnt_long' \in 0..KP_LONG + 1
      /\ kb_mode' \in {Mode(keys), "wait"}
      /\ KpWaits' /\ KpQuiet' /\ KpNothingLost'
  BY <1>1, <1>2, KpPassSleep
<1>5. kp_led' \in 0..KP_LED /\ batt_det_count' \in 0..KP_BATT
  <2>1. (keys \/ TimedOut \/ (NewlyLinked /\ kb_mode = "pairing")) \in BOOLEAN
    BY DEF TimedOut, NewlyLinked
  <2> QED BY <1>1, <2>1, KpPassLed DEF KpPass, KpInv
<1>6. kp_release' \in 0..KP_WINDOW /\ kp_locked' \in BOOLEAN
  <2>1. kp_locked' \in BOOLEAN
    BY <1>1 DEF KpPass, ScanAndLock
  <2>2. kp_release' = IF kp_down THEN KP_WINDOW - 1 ELSE IF Pressed THEN kp_release - 1 ELSE 0
    BY <1>1 DEF KpPass, ScanAndLock
  <2> QED BY <2>1, <2>2, KpConstants DEF KpInv, KpTypeOK, Pressed
<1>7. kp_saved' \in [link : BOOLEAN, lock : BOOLEAN]
  <2>1. kp_saved' \in {kp_saved, [link |-> mode_link', lock |-> kp_locked']}
    BY <1>1 DEF KpPass, kb_pm_proc
  <2> QED BY <1>3, <1>6, <2>1 DEF KpInv, KpTypeOK
<1>8. KpTypeOK'
  BY <1>2, <1>3, <1>4, <1>5, <1>6, <1>7 DEF KpInv, KpTypeOK
<1>9. KpLinked'
  BY <1>3, <1>4 DEF KpLinked
<1>10. KpPairingWindow'
  BY <1>1, <1>2, KpPassAsks
<1> QED BY <1>4, <1>8, <1>9, <1>10 DEF KpInv

LEMMA KpStepInv == KpInv /\ [KpNext]_kpVars => KpInv'
<1> SUFFICES ASSUME KpInv, [KpNext]_kpVars PROVE KpInv'
  OBVIOUS
<1>1. CASE kp_main_loop
  BY <1>1, KpPassInv
<1>2. CASE KpKeysChange \/ UNCHANGED kpVars
  <2>1. /\ kp_down' \in BOOLEAN
        /\ UNCHANGED <<kp_release, kpLinkVars, kpSleepVars, loop_cnt, kp_locked, kp_led,
                       batt_det_count, kp_saved, kp_pass>>
    BY <1>2 DEF KpKeysChange, kpVars, kpKeyVars, KpInv, KpTypeOK
  <2>2. KpTypeOK'
    BY <2>1 DEF KpInv, KpTypeOK, kpLinkVars, kpSleepVars
  <2>3. KpLinked' /\ KpWaits' /\ KpQuiet' /\ KpNothingLost' /\ KpPairingWindow'
    BY <2>1 DEF KpInv, KpLinked, KpWaits, KpQuiet, KpNothingLost, KpPairingWindow,
                kpLinkVars, kpSleepVars
  <2> QED BY <2>2, <2>3 DEF KpInv
<1>3. CASE KeyWakes
  BY <1>3, KpBootInv DEF KeyWakes, KpInv, KpTypeOK
<1>4. CASE PowerLoss
  <2>1. NothingSaved \in [link : BOOLEAN, lock : BOOLEAN]
    BY DEF NothingSaved
  <2> QED BY <1>4, <2>1, KpBootInv DEF PowerLoss
<1> QED BY <1>1, <1>2, <1>3, <1>4 DEF KpNext

-----------------------------------------------------------------------------
\* The pen.
LEMMA PpConstants ==
  /\ PpQueue \in Nat /\ PpNoAck \in Nat /\ PpDebounce \in Nat /\ PpSyncLoops \in Nat
  /\ PP_8MS \in Nat /\ PP_100MS \in Nat /\ PpLed \in Nat
  /\ PpQueue > 0 /\ PpNoAck > 0 /\ PpDebounce > 0 /\ PpSyncLoops > 0
  /\ PP_8MS > 0 /\ PP_100MS > 0
  /\ PpSleepEn \in BOOLEAN
  BY PpAssumption

\* Where the counters start is in their ranges.
LEMMA PpRanges ==
  /\ 0 \in 0..PP_8MS /\ 0 \in 0..PP_100MS /\ 1 \in 0..PpNoAck /\ 0 \in 0..PpSyncLoops
  /\ 0 \in 0..PpQueue + 1 /\ 1 \in 0..PpDebounce /\ PpDebounce \in 0..PpDebounce
  /\ PpLed \in 0..PpLed /\ 0 \in 0..PpLed /\ 0 \in 0..PpNoAck
  BY PpConstants

LEMMA PpInitInv == PpInit => PpInv
<1> SUFFICES ASSUME PpInit PROVE PpInv
  OBVIOUS
<1>1. PpTypeOK
  BY PpRanges DEF PpInit, PpTypeOK
<1> QED BY <1>1, PpConstants DEF PpInit, PpInv, PpKnows, PpCounts, PpAsksLong

\* The parts of a pass.
PpPass(heard, early, code, known, sent, blink) ==
  /\ heard => sent
  /\ sent = (PpData \/ Searching)
  /\ blink = IF pp_led > 0 THEN pp_led - 1 ELSE 0
  /\ code = (heard /\ pp_pkt = "pairing")
  /\ known = (pp_mode # "poweron" /\ (pp_linked \/ (code /\ early)))
  /\ pp_sleep # "deep"
  /\ pp_mode' = IF known THEN "normal" ELSE "syncing"
  /\ pp_pkt' = IF known THEN "km" ELSE IF Searching THEN "pairing" ELSE pp_pkt
  /\ pp_linked' = (known \/ (code /\ ~early))
  /\ device_sleep_mode_machine(PpBusy(blink), PpQuick(IF known THEN "normal" ELSE "syncing"))
  /\ pp_led' = blink
  /\ PpSendDone(sent, heard)
  /\ pp_release' = IF pp_event THEN PpDebounce ELSE IF pp_release > 0 THEN pp_release - 1 ELSE 0
  /\ pp_loop_cnt' = PpMin(pp_loop_cnt + 1, PpSyncLoops)
  /\ pp_asked' = IF sent /\ pp_pkt = "pairing" THEN PpMin(pp_asked + 1, PpSyncLoops) ELSE pp_asked
  /\ pp_event' \in BOOLEAN /\ pp_turn' = ~pp_turn
  /\ UNCHANGED pp_button

\* What the sleep machine leaves.
LEMMA PpMachine ==
  ASSUME PpInv, pp_sleep # "deep", NEW busy \in BOOLEAN, NEW quick \in BOOLEAN,
         device_sleep_mode_machine(busy, quick)
  PROVE  /\ pp_sleep' \in {"8ms", "100ms", "deep"}
         /\ pp_cnt_8ms' \in 0..PP_8MS /\ pp_cnt_100ms' \in 0..PP_100MS
         /\ PpCounts'
         /\ busy /\ ~quick => pp_sleep' = "8ms"
         /\ pp_sleep' = "deep" => quick \/ (~busy /\ pp_sleep = "100ms")
<1> DEFINE c8 == IF busy THEN 0 ELSE IF pp_sleep = "8ms" THEN pp_cnt_8ms + 1 ELSE pp_cnt_8ms
           long == ~busy /\ (pp_sleep = "100ms" \/ c8 >= PP_8MS)
           c100 == IF pp_sleep = "100ms" THEN pp_cnt_100ms + 1 ELSE 1
           over == long /\ c100 > PP_100MS
<1>1. /\ pp_cnt_8ms' = c8
      /\ pp_cnt_100ms' = IF over \/ (quick /\ ~PpSleepEn) THEN 0
                         ELSE IF long THEN c100 ELSE pp_cnt_100ms
      /\ pp_sleep' = IF over \/ quick THEN IF PpSleepEn THEN "deep" ELSE "100ms"
                     ELSE IF long THEN "100ms" ELSE "8ms"
  BY DEF device_sleep_mode_machine
<1>2. /\ pp_sleep \in {"8ms", "100ms"} /\ pp_cnt_8ms \in 0..PP_8MS /\ pp_cnt_100ms \in 0..PP_100MS
      /\ pp_sleep = "8ms" => pp_cnt_8ms < PP_8MS
      /\ PP_8MS \in Nat /\ PP_100MS \in Nat /\ PP_8MS > 0 /\ PP_100MS > 0 /\ PpSleepEn \in BOOLEAN
  BY PpConstants DEF PpInv, PpTypeOK, PpCounts
<1>3. c8 \in 0..PP_8MS /\ c100 \in Nat /\ (c100 > 1 => pp_sleep = "100ms")
  BY <1>2
<1>4. pp_cnt_100ms' \in 0..PP_100MS
  BY <1>1, <1>2, <1>3
<1>5. PpCounts'
  BY <1>1, <1>2 DEF PpCounts
<1>6. pp_sleep' = "deep" => quick \/ (~busy /\ pp_sleep = "100ms")
  BY <1>1, <1>2, <1>3
<1> QED BY <1>1, <1>2, <1>3, <1>4, <1>5, <1>6

LEMMA Ahead ==
  ASSUME NEW a \in Nat, NEW b \in Nat, NEW n \in Nat, n <= a + 1, b >= a
  PROVE  b + 1 >= n
<1>1. a + 1 <= b + 1
  OBVIOUS
<1> QED BY <1>1

LEMMA PpPassInv ==
  ASSUME PpInv, mouse_task_in_ram
  PROVE  PpInv'
<1>1. PICK heard \in BOOLEAN, early \in BOOLEAN, code \in BOOLEAN, known \in BOOLEAN,
           sent \in BOOLEAN, blink \in 0..PpLed :
        PpPass(heard, early, code, known, sent, blink)
  <2> DEFINE sent == PpData \/ Searching
             blink == IF pp_led > 0 THEN pp_led - 1 ELSE 0
  <2>1. PICK heard \in (IF sent THEN BOOLEAN ELSE {FALSE}), early \in BOOLEAN :
          LET code  == heard /\ pp_pkt = "pairing"
              known == pp_mode # "poweron" /\ (pp_linked \/ (code /\ early))
              mode  == IF known THEN "normal" ELSE "syncing"
          IN  /\ pp_sleep # "deep"
              /\ pp_mode' = mode
              /\ pp_pkt' = IF known THEN "km" ELSE IF Searching THEN "pairing" ELSE pp_pkt
              /\ pp_linked' = (known \/ (code /\ ~early))
              /\ device_sleep_mode_machine(PpBusy(blink), PpQuick(mode))
              /\ pp_led' = blink
              /\ PpSendDone(sent, heard)
              /\ pp_release' = IF pp_event THEN PpDebounce
                               ELSE IF pp_release > 0 THEN pp_release - 1 ELSE 0
              /\ pp_loop_cnt' = PpMin(pp_loop_cnt + 1, PpSyncLoops)
              /\ pp_asked' = IF sent /\ pp_pkt = "pairing" THEN PpMin(pp_asked + 1, PpSyncLoops)
                             ELSE pp_asked
              /\ pp_event' \in (IF pp_button THEN BOOLEAN ELSE {FALSE})
              /\ pp_turn' = ~pp_turn
              /\ UNCHANGED pp_button
    BY DEF mouse_task_in_ram
  <2> DEFINE code  == heard /\ pp_pkt = "pairing"
             known == pp_mode # "poweron" /\ (pp_linked \/ (code /\ early))
  <2>2. /\ heard \in BOOLEAN /\ (heard => sent) /\ sent \in BOOLEAN /\ code \in BOOLEAN
        /\ known \in BOOLEAN /\ pp_event' \in BOOLEAN
    BY <2>1 DEF PpData, Searching, PpInv, PpTypeOK
  <2>3. blink \in 0..PpLed
    BY PpConstants DEF PpInv, PpTypeOK
  <2>4. PpPass(heard, early, code, known, sent, blink)
    BY <2>1, <2>2 DEF PpPass
  <2> QED BY <2>2, <2>3, <2>4
<1> DEFINE busy == PpBusy(blink)
           quick == PpQuick(IF known THEN "normal" ELSE "syncing")
<1>2. busy \in BOOLEAN /\ quick \in BOOLEAN /\ pp_sleep # "deep" /\ device_sleep_mode_machine(busy, quick)
  BY <1>1, PpAssumption DEF PpPass, PpBusy, PpQuick, PpData, Searching, PpInv, PpTypeOK
<1>3. /\ pp_sleep' \in {"8ms", "100ms", "deep"}
      /\ pp_cnt_8ms' \in 0..PP_8MS /\ pp_cnt_100ms' \in 0..PP_100MS
      /\ PpCounts'
      /\ pp_sleep' = "deep" => quick \/ (~busy /\ pp_sleep = "100ms")
  BY <1>2, PpMachine
<1>4. pp_loop_cnt' \in 0..PpSyncLoops /\ pp_asked' \in 0..PpSyncLoops
  BY <1>1, PpConstants DEF PpPass, PpMin, PpInv, PpTypeOK
<1>5. pp_no_ack' \in 0..PpNoAck
  BY <1>1, PpConstants DEF PpPass, PpSendDone, PpMin, PpInv, PpTypeOK
<1>6. pp_frames' \in 0..PpQueue + 1
  <2>1. PpQueued \in 0..PpQueue + 1 /\ (PpData => PpQueued > 0)
    BY PpConstants DEF PpQueued, PpData, PpMin, PpInv, PpTypeOK
  <2>2. pp_frames' \in {PpQueued, PpQueued - 1} /\ (pp_frames' # PpQueued => PpData)
    BY <1>1 DEF PpPass, PpSendDone
  <2> QED BY <2>1, <2>2, PpConstants
<1>7. pp_release' \in 0..PpDebounce
  BY <1>1, PpConstants DEF PpPass, PpInv, PpTypeOK
<1>8. PpTypeOK'
  BY <1>1, <1>3, <1>4, <1>5, <1>6, <1>7 DEF PpPass, PpInv, PpTypeOK
\* Without a dongle it has asked once more, but for the first pass.
<1>9. ~pp_linked' => /\ pp_mode' = "syncing" /\ ~pp_linked /\ pp_pkt = "pairing" /\ pp_pkt' = "pairing"
                     /\ pp_loop_cnt <= pp_asked + 1 /\ pp_loop_cnt' <= pp_asked' + 1
                     /\ pp_asked' >= pp_asked
  <2> SUFFICES ASSUME ~pp_linked'
               PROVE  /\ pp_mode' = "syncing" /\ ~pp_linked /\ pp_pkt = "pairing" /\ pp_pkt' = "pairing"
                      /\ pp_loop_cnt <= pp_asked + 1 /\ pp_loop_cnt' <= pp_asked' + 1
                      /\ pp_asked' >= pp_asked
    OBVIOUS
  <2>1. ~known /\ ~pp_linked /\ pp_mode' = "syncing"
    BY <1>1 DEF PpPass, PpInv, PpTypeOK, PpKnows
  <2>2. pp_pkt = "pairing" /\ pp_pkt' = "pairing" /\ pp_loop_cnt <= pp_asked + 1
    BY <1>1, <2>1 DEF PpPass, PpInv, PpKnows
  <2>3. CASE pp_mode = "normal"
    <3>1. pp_loop_cnt = 0 /\ pp_loop_cnt' = PpMin(1, PpSyncLoops)
      BY <1>1, <2>1, <2>3 DEF PpPass, PpInv, PpKnows
    <3>2. pp_asked' \in Nat /\ pp_asked' >= pp_asked
      BY <1>1, <1>4, PpConstants DEF PpPass, PpMin, PpInv, PpTypeOK
    <3>3. PpMin(1, PpSyncLoops) <= 1
      BY PpConstants DEF PpMin
    <3>4. pp_loop_cnt' <= pp_asked' + 1
      BY <1>4, <3>1, <3>2, <3>3, PpConstants
    <3> QED BY <2>1, <2>2, <3>2, <3>4
  <2>4. CASE pp_mode # "normal"
    <3>1. pp_asked' = PpMin(pp_asked + 1, PpSyncLoops) /\ pp_loop_cnt' = PpMin(pp_loop_cnt + 1, PpSyncLoops)
      BY <1>1, <2>2, <2>4 DEF PpPass, Searching
    <3> QED BY <2>1, <2>2, <3>1, PpConstants DEF PpMin, PpInv, PpTypeOK
  <2> QED BY <2>3, <2>4
<1>10. PpKnows'
  BY <1>1, <1>9 DEF PpKnows, PpPass
<1>11. PpAsksLong'
  <2> SUFFICES ASSUME pp_sleep' = "deep", ~pp_linked' PROVE pp_asked' + 1 >= PpSyncLoops
    BY DEF PpAsksLong
  <2>1. ~known /\ pp_mode' = "syncing"
    BY <1>1, <1>9 DEF PpPass
  <2>2. CASE quick
    <3>1. pp_loop_cnt = PpSyncLoops
      BY <2>1, <2>2 DEF PpQuick
    <3>2. PpSyncLoops <= pp_asked + 1 /\ pp_asked' >= pp_asked
      BY <1>9, <3>1
    <3>3. /\ pp_asked \in Nat /\ pp_asked' \in Nat
          /\ PpSyncLoops \in Nat /\ PpSyncLoops > 0
      BY <1>4, PpConstants DEF PpInv, PpTypeOK
    <3> QED BY <3>2, <3>3, Ahead
  <2>3. CASE ~busy /\ pp_sleep = "100ms"
    <3>1. pp_mode = "normal"
      BY <2>3 DEF PpBusy, Searching
    <3> QED BY <1>9, <2>3, <3>1 DEF PpInv, PpKnows
  <2> QED BY <1>3, <2>2, <2>3
<1> QED BY <1>3, <1>8, <1>10, <1>11 DEF PpInv

LEMMA PpStepInv == PpInv /\ [PpNext]_ppVars => PpInv'
<1> SUFFICES ASSUME PpInv, [PpNext]_ppVars PROVE PpInv'
  OBVIOUS
<1>1. CASE mouse_task_in_ram
  BY <1>1, PpPassInv
<1>2. CASE PpFinger \/ UNCHANGED ppVars
  <2>1. /\ pp_button' \in BOOLEAN
        /\ UNCHANGED <<pp_sleep, pp_cnt_8ms, pp_cnt_100ms, pp_mode, pp_linked, pp_pkt,
                       pp_no_ack, pp_loop_cnt, pp_frames, pp_release, pp_event, pp_led,
                       pp_asked, pp_turn>>
    BY <1>2 DEF PpFinger, ppVars, PpInv, PpTypeOK
  <2>2. PpTypeOK'
    BY <2>1 DEF PpInv, PpTypeOK
  <2> QED BY <2>1, <2>2 DEF PpInv, PpKnows, PpCounts, PpAsksLong
<1>3. CASE PpWake
  <2>1. PpTypeOK'
    BY <1>3, PpRanges DEF PpWake, PpInv, PpTypeOK
  <2>2. PpKnows' /\ PpCounts' /\ PpAsksLong'
    <3>1. ~pp_linked => pp_pkt = "pairing"
      BY DEF PpInv, PpKnows
    <3> QED BY <1>3, <3>1, PpConstants DEF PpWake, PpKnows, PpCounts, PpAsksLong
  <2> QED BY <2>1, <2>2 DEF PpInv
<1> QED BY <1>1, <1>2, <1>3 DEF PpNext

-----------------------------------------------------------------------------
\* The LED.
LEMMA LedCfg ==
  ASSUME NEW c \in LedCfgs \cup {NoCfg}
  PROVE  /\ c \in [on_time : Nat, off_time : Nat, repeat_count : Nat, over_wrt : 0..3]
         /\ c \in LedCfgs => c.off_time > 0 /\ c.repeat_count > 0
  BY LedAssumption DEF NoCfg

\* The pattern under way is the one asked for, but for the flashes that are over; the passes of
\* its on phases are those of them, and of the one it is in.
LedCounts ==
  /\ led_asked \in LedCfgs \cup {NoCfg}
  /\ led.repeat_count \in Nat /\ led_lit \in Nat /\ led_clock \in Nat /\ led_passes \in Nat
  /\ led_is_on \in BOOLEAN
  /\ led = [led_asked EXCEPT !.repeat_count = led.repeat_count]
  /\ led_lit + led.repeat_count = led_asked.repeat_count
  /\ led_asked.on_time > 0 =>
       led_passes = led_asked.on_time * led_lit + (IF led_is_on THEN led_clock ELSE 0)

LedPhases ==
  /\ led.repeat_count = 0 => ~led_is_on
  /\ IF led_asked.on_time = 0 THEN led_clock = 0
     ELSE led_clock <= IF led_is_on THEN led_asked.on_time - 1 ELSE led_asked.off_time

LedInv == LedCounts /\ LedPhases

LEMMA LedFields ==
  ASSUME LedInv
  PROVE  /\ led_asked.on_time \in Nat /\ led_asked.off_time \in Nat
         /\ led_asked.repeat_count \in Nat
         /\ led.on_time = led_asked.on_time /\ led.off_time = led_asked.off_time
         /\ led.over_wrt = led_asked.over_wrt
         /\ led \in [on_time : Nat, off_time : Nat, repeat_count : Nat, over_wrt : 0..3]
<1>1. led_asked \in [on_time : Nat, off_time : Nat, repeat_count : Nat, over_wrt : 0..3]
  BY LedCfg DEF LedInv, LedCounts
<1>2. /\ led = [led_asked EXCEPT !.repeat_count = led.repeat_count] /\ led.repeat_count \in Nat
  BY DEF LedInv, LedCounts
<1> QED BY <1>1, <1>2

LEMMA LedInitInv == LedInit => LedInv
<1> SUFFICES ASSUME LedInit PROVE LedInv
  OBVIOUS
<1>1. NoCfg.on_time = 0 /\ NoCfg.repeat_count = 0 /\ NoCfg = [NoCfg EXCEPT !.repeat_count = 0]
  BY DEF NoCfg
<1>2. LedCounts
  <2>1. led_asked = NoCfg /\ led = NoCfg /\ led_lit = 0 /\ led_clock = 0 /\ led_passes = 0
    BY DEF LedInit
  <2>2. led_asked \in LedCfgs \cup {NoCfg} /\ led_is_on \in BOOLEAN
    BY <2>1 DEF LedInit
  <2> QED BY <1>1, <2>1, <2>2 DEF LedCounts
<1>3. LedPhases
  BY <1>1 DEF LedInit, LedPhases
<1> QED BY <1>2, <1>3 DEF LedInv

LEMMA LedProduct ==
  ASSUME LedInv
  PROVE  led_asked.on_time * led_lit \in Nat
<1>1. led_asked.on_time \in Nat /\ led_lit \in Nat
  BY LedFields DEF LedInv, LedCounts
<1> QED BY <1>1

LEMMA LedStepInv == LedInv /\ [LedNext]_ledVars => LedInv'
<1> SUFFICES ASSUME LedInv, [LedNext]_ledVars PROVE LedInv'
  OBVIOUS
<1>1. CASE device_led_setup
  <2>1. PICK c \in LedCfgs :
          /\ led' = c /\ led_asked' = c /\ led_clock' = 0 /\ led_lit' = 0 /\ led_passes' = 0
          /\ led_is_on' = (led_is_on \/ c.on_time > 0)
    BY <1>1 DEF device_led_setup
  <2>2. /\ c \in [on_time : Nat, off_time : Nat, repeat_count : Nat, over_wrt : 0..3]
        /\ c.off_time > 0 /\ c.repeat_count > 0
    BY LedCfg
  <2>3. c = [c EXCEPT !.repeat_count = c.repeat_count] /\ c.on_time * 0 = 0
    BY <2>2
  <2>4. LedCounts'
    BY <2>1, <2>2, <2>3 DEF LedCounts, LedInv
  <2>5. LedPhases'
    BY <2>1, <2>2 DEF LedPhases
  <2> QED BY <2>4, <2>5 DEF LedInv
<1>2. CASE device_led_process /\ OnPhase
  <2>1. /\ led.repeat_count > 0 /\ led_asked' = led_asked /\ led_passes' = led_passes + 1
        /\ led_is_on \/ led_asked.on_time = 0
    BY <1>2, LedFields DEF device_led_process, OnPhase
  <2>2. CASE PhaseOver(led.on_time)
    <3>1. /\ led' = [led EXCEPT !.repeat_count = led.repeat_count - 1]
          /\ led_is_on' = FALSE /\ led_clock' = 0 /\ led_lit' = led_lit + 1
      BY <1>2, <2>2 DEF OnPhase
    <3>2. led'.repeat_count = led.repeat_count - 1 /\ led.repeat_count - 1 \in Nat
      BY <2>1, <3>1, LedFields
    <3>3. led' = [led_asked' EXCEPT !.repeat_count = led'.repeat_count]
      BY <2>1, <3>1, <3>2, LedFields, LedCfg DEF LedInv, LedCounts
    <3>4. led_asked.on_time > 0 => led_passes' = led_asked.on_time * (led_lit + 1)
      <4> SUFFICES ASSUME led_asked.on_time > 0
                   PROVE  led_passes' = led_asked.on_time * (led_lit + 1)
        OBVIOUS
      <4>1. led_is_on /\ led_passes = led_asked.on_time * led_lit + led_clock
        BY <2>1 DEF LedInv, LedCounts
      <4>2. led_clock + 1 = led_asked.on_time
        BY <2>2, <4>1, LedFields DEF PhaseOver, LedInv, LedPhases, LedCounts
      <4>3. led_asked.on_time * (led_lit + 1) = led_asked.on_time * led_lit + led_asked.on_time
        <5>1. led_asked.on_time \in Nat /\ led_lit \in Nat
          BY LedFields DEF LedInv, LedCounts
        <5> QED BY <5>1
      <4>4. led_asked.on_time * led_lit \in Nat
        BY LedProduct
      <4> QED BY <2>1, <4>1, <4>2, <4>3, <4>4 DEF LedInv, LedCounts
    <3>5. LedCounts'
      <4>1. /\ led_asked' \in LedCfgs \cup {NoCfg} /\ led_is_on' = FALSE
            /\ led'.repeat_count \in Nat /\ led_lit' \in Nat /\ led_clock' = 0
            /\ led_passes' \in Nat
        BY <2>1, <3>1, <3>2 DEF LedInv, LedCounts
      <4>2. led_lit' + led'.repeat_count = led_asked'.repeat_count
        BY <2>1, <3>1, <3>2, LedFields DEF LedInv, LedCounts
      <4>3. led_asked'.on_time > 0 => led_passes' = led_asked'.on_time * led_lit' + 0
        <5>1. (led_asked.on_time * (led_lit + 1)) \in Nat
          <6>1. led_lit + 1 \in Nat /\ led_asked.on_time \in Nat
            BY LedFields DEF LedInv, LedCounts
          <6> QED BY <6>1
        <5>2. led_asked.on_time * (led_lit + 1) + 0 = led_asked.on_time * (led_lit + 1)
          BY <5>1
        <5> QED BY <2>1, <3>1, <3>4, <5>2
      <4> QED BY <3>3, <4>1, <4>2, <4>3 DEF LedCounts
    <3>6. LedPhases'
      BY <2>1, <3>1, LedFields DEF LedPhases
    <3> QED BY <3>5, <3>6 DEF LedInv
  <2>3. CASE ~PhaseOver(led.on_time)
    <3>1. led_clock' = led_clock + 1 /\ UNCHANGED <<led, led_is_on, led_lit>>
      BY <1>2, <2>3 DEF OnPhase
    <3>2. led_is_on /\ led_asked.on_time > 0 /\ led_clock + 1 < led_asked.on_time
      BY <2>1, <2>3, LedFields DEF PhaseOver, LedInv, LedCounts
    <3>3. led_asked.on_time * led_lit \in Nat
      BY LedFields DEF LedInv, LedCounts
    <3>4. LedCounts'
      BY <2>1, <3>1, <3>2, <3>3 DEF LedInv, LedCounts
    <3>5. LedPhases'
      BY <2>1, <3>1, <3>2, LedFields DEF LedInv, LedPhases, LedCounts
    <3> QED BY <3>4, <3>5 DEF LedInv
  <2> QED BY <2>2, <2>3
<1>3. CASE device_led_process /\ OffPhase
  <2>1. /\ led.repeat_count > 0 /\ ~led_is_on /\ led_asked.on_time > 0
        /\ UNCHANGED <<led, led_asked, led_lit, led_passes>>
    BY <1>3, LedFields DEF device_led_process, OffPhase
  <2>2. CASE PhaseOver(led.off_time)
    <3>1. led_is_on' = TRUE /\ led_clock' = 0
      BY <1>3, <2>2 DEF OffPhase
    <3>2. LedCounts'
      BY <2>1, <3>1 DEF LedInv, LedCounts
    <3> QED BY <2>1, <3>1, <3>2, LedFields DEF LedInv, LedPhases
  <2>3. CASE ~PhaseOver(led.off_time)
    <3>1. led_is_on' = led_is_on /\ led_clock' = led_clock + 1
      BY <1>3, <2>3 DEF OffPhase
    <3>2. led_clock + 1 < led_asked.off_time
      BY <2>3, LedFields DEF PhaseOver, LedInv, LedCounts
    <3>3. LedCounts'
      BY <2>1, <3>1 DEF LedInv, LedCounts
    <3> QED BY <2>1, <3>1, <3>2, <3>3, LedFields DEF LedInv, LedPhases
  <2> QED BY <2>2, <2>3
<1>4. CASE UNCHANGED ledVars
  BY <1>4 DEF ledVars, LedInv, LedCounts, LedPhases
<1> QED BY <1>1, <1>2, <1>3, <1>4 DEF LedNext, device_led_process

LEMMA LedInvShown == LedInv => LedShown /\ LedTypeOK
<1> SUFFICES ASSUME LedInv PROVE LedShown /\ LedTypeOK
  OBVIOUS
<1>1. LedShown
  BY LedFields DEF LedInv, LedCounts, LedPhases, LedShown
<1>2. led_clock <= led_asked.on_time + led_asked.off_time
  BY LedFields DEF LedInv, LedCounts, LedPhases
<1>3. led.repeat_count \in 0..led_asked.repeat_count
  BY LedFields DEF LedInv, LedCounts
<1> QED BY <1>1, <1>2, <1>3 DEF LedInv, LedCounts, LedTypeOK

-----------------------------------------------------------------------------
\* What a blinking pattern shows, whatever was under way when it was asked for: as many
\* flashes, each as long as asked, and then the LED is off (device_led_process).
THEOREM LedShownHolds == LedSpec => []LedShown
<1>1. LedInv => LedShown
  BY LedInvShown
<1> QED BY <1>1, LedInitInv, LedStepInv, PTL DEF LedSpec

\* The keyboard does not go to deep sleep over a report that waits for a dongle that answers
\* (kb_pm_proc), whatever its times are.
THEOREM KpNothingLostHolds == KpSpec => []KpNothingLost
<1>1. KpInv => KpNothingLost
  BY DEF KpInv
<1> QED BY <1>1, KpInitInv, KpStepInv, PTL DEF KpSpec

\* A keyboard that waits for the release of its keys to go into deep sleep goes there in the
\* first pass without one, whatever brought it to wait (kb_slp_mode_machine).
THEOREM KpWaitDeepEndsHolds == KpSpec => KpWaitDeepEnds
<1>1. KpInv /\ [KpNext]_kpVars =>
        [kb_mode = "wait" /\ ~Pressed /\ ~kp_down'
           => sleep_mode' = "deep" \/ kb_mode' # "wait"]_kpVars
  <2> SUFFICES ASSUME KpInv, KpNext, kb_mode = "wait", ~Pressed, ~kp_down'
               PROVE  sleep_mode' = "deep" \/ kb_mode' # "wait"
    OBVIOUS
  <2>1. CASE kp_main_loop
    <3>1. /\ no_ack = KP_NO_LINK
          /\ no_ack' = no_ack /\ \E keys \in BOOLEAN, sends \in BOOLEAN : kb_pm_proc("wait", LoopCnt(keys), sends)
      BY <2>1 DEF kp_main_loop, Mode, NewlyLinked, TimedOut, kb_paring_and_syncing_proc, kp_rf_proc, KpInv, KpWaits
    <3>2. QuickSleep("wait", LoopCnt(TRUE)) /\ QuickSleep("wait", LoopCnt(FALSE))
      BY <3>1, KpConstants DEF QuickSleep
    <3> QED BY <3>1, <3>2 DEF kb_pm_proc
  <2>2. CASE KpKeysChange
    BY <2>2 DEF KpKeysChange, Pressed
  <2>3. CASE KeyWakes \/ PowerLoss
    BY <2>3 DEF KeyWakes, PowerLoss, KpBoot
  <2> QED BY <2>1, <2>2, <2>3 DEF KpNext
<1> QED BY <1>1, KpInitInv, KpStepInv, PTL DEF KpSpec, KpWaitDeepEnds

\* The pen does not sleep deep over a frame that waits or a button that is down, unless its
\* dongle is gone (mouse_power_saving_process).
THEOREM PpNothingLostHolds == PpSpec => PpNothingLost
<1>1. PpInv /\ [PpNext]_ppVars =>
        [pp_sleep' = "deep" /\ pp_sleep # "deep" =>
           \/ pp_no_ack = PpNoAck
           \/ pp_mode = "normal" /\ ~PpData /\ ~pp_button]_ppVars
  <2> SUFFICES ASSUME PpInv, PpNext, pp_sleep' = "deep", pp_sleep # "deep", pp_no_ack # PpNoAck
               PROVE  pp_mode = "normal" /\ ~PpData /\ ~pp_button
    OBVIOUS
  <2>1. mouse_task_in_ram
    BY DEF PpNext, PpFinger, PpWake
  <2>2. PICK blink, mode : device_sleep_mode_machine(PpBusy(blink), PpQuick(mode))
    BY <2>1 DEF mouse_task_in_ram
  <2>3. ~PpQuick(mode)
    BY DEF PpQuick
  <2>4. ~PpBusy(blink)
    BY <2>2, <2>3 DEF device_sleep_mode_machine
  <2> QED BY <2>4 DEF PpBusy, Searching
<1> QED BY <1>1, PpInitInv, PpStepInv, PTL DEF PpSpec, PpNothingLost
=============================================================================
