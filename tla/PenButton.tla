------------------------------ MODULE PenButton -----------------------------
(***************************************************************************)
(* The buttons of the pen (vendor/mouse/mouse_button.c).  In every pass of *)
(* its main loop the pen reads them (rc_button_detect) and turns what it   *)
(* reads into a key, or none (rc_button_process_and_mapping): a short      *)
(* press on its release, a long one while the button is down.              *)
(*                                                                         *)
(* A value is a set of buttons as three bits; left, right and middle are   *)
(* 1, 2 and 4.  The LEDs are left out.                                     *)
(***************************************************************************)
EXTENDS Naturals

CONSTANT RC_BUTTON_OVER_THRESH
ASSUME ThreshAssumption == RC_BUTTON_OVER_THRESH \in Nat \ {0}

Left == 1
Right == 2
Mid == 4
PbValue == 0..7
PbCount == 0..RC_BUTTON_OVER_THRESH + 1

Short == [b \in {Left, Right} |-> IF b = Left THEN "SHORT_LEFT" ELSE "SHORT_RIGHT"]
NoKey == "none"
PbKey == {"SHORT_LEFT", "LONG_LEFT", "LONG_LEFT_OVER", "SHORT_RIGHT", "LONG_RIGHT", NoKey}

VARIABLES
  button_pre,
  btn_cnt,        \* RC_MAX_BUTTON_VALUE entries
  long_left_cnt,
  map_value,      \* the key of this pass
  pb_spoiled,        \* history: btn_cnt was used with an index outside it
  held,           \* history: passes that read button_pre, one after the other
  down,           \* history: passes since all buttons were up
  slid,           \* history: values left for another button, not released since
  longs           \* history: buttons with a long press since all were up

pbVars == <<button_pre, btn_cnt, long_left_cnt, map_value, pb_spoiled, held, down, slid, longs>>

PbTypeOK ==
  /\ button_pre \in PbValue
  /\ btn_cnt \in [1..3 -> PbCount]
  /\ long_left_cnt \in 0..1
  /\ map_value \in PbKey
  /\ pb_spoiled \in BOOLEAN
  /\ held \in PbCount /\ down \in PbCount
  /\ slid \subseteq PbValue \ {0} /\ longs \subseteq {Left, Right}

PbInit ==
  /\ button_pre = 0
  /\ btn_cnt = [i \in 1..3 |-> 0]
  /\ long_left_cnt = 0
  /\ map_value = NoKey
  /\ pb_spoiled = FALSE
  /\ held = 0 /\ down = 0
  /\ slid = {} /\ longs = {}

\* The counter never gets back to its threshold but by a reset: all values above are
\* one (32 bits last for more than a year).
PbCounted(n) == IF n \in PbCount \ {RC_BUTTON_OVER_THRESH + 1} THEN n + 1 ELSE n

\* Mutant of IsLong: from the threshold on.
IsLongOn(n) == n >= RC_BUTTON_OVER_THRESH
IsLong(n) == n = RC_BUTTON_OVER_THRESH

Toggled(n) == (n + 1) % 2

LongKey(b) ==
  IF b = Right THEN "LONG_RIGHT"
  ELSE IF long_left_cnt = 1 THEN "LONG_LEFT_OVER" ELSE "LONG_LEFT"

\* Mutant of AfterRelease: the counter is kept.
AfterReleaseKept(n) == n
AfterRelease(n) == 0

PbSeen(button) ==
  /\ button_pre' = button
  /\ held' = IF button = button_pre THEN PbCounted(held) ELSE 1
  /\ down' = IF button = 0 THEN 0 ELSE PbCounted(down)
  /\ slid' = IF button = button_pre \/ button_pre = 0 THEN slid
             ELSE IF button = 0 THEN slid \ {button_pre}
             ELSE slid \cup {button_pre}
  /\ longs' = IF button = 0 THEN {}
              ELSE longs \cup {b \in {Left, Right} : b = button /\ map_value' = LongKey(b)}

\* btn_cnt has no entry for the value: some other variable of the pen is read and
\* written.  What the pen does from here to its next start is not followed.
OutOfBounds ==
  /\ pb_spoiled' = TRUE
  /\ map_value' = NoKey
  /\ UNCHANGED <<btn_cnt, long_left_cnt>>

\* After the middle button nothing is looked at.
AfterMid(button) ==
  /\ button_pre = Mid
  /\ map_value' = NoKey
  /\ UNCHANGED <<btn_cnt, long_left_cnt, pb_spoiled>>

\* The same buttons are down.
PbStillDown(button) ==
  /\ button_pre \notin {0, Mid} /\ button = button_pre
  /\ IF button \notin 1..3 THEN OutOfBounds
     ELSE LET n == PbCounted(btn_cnt[button])
              long == button \in {Left, Right} /\ IsLong(n)
          IN  /\ btn_cnt' = [btn_cnt EXCEPT ![button] = n]
              /\ map_value' = IF long THEN LongKey(button) ELSE NoKey
              /\ long_left_cnt' = IF long /\ button = Left THEN Toggled(long_left_cnt)
                                  ELSE long_left_cnt
              /\ UNCHANGED pb_spoiled

\* All are up now.
PbReleased(button) ==
  /\ button_pre \notin {0, Mid} /\ button = 0
  /\ IF button_pre \notin 1..3 THEN OutOfBounds
     ELSE LET n == btn_cnt[button_pre]
          IN  /\ map_value' = IF /\ n > 0 /\ n < RC_BUTTON_OVER_THRESH
                                 /\ button_pre \in {Left, Right}
                              THEN Short[button_pre] ELSE NoKey
              /\ btn_cnt' = [btn_cnt EXCEPT ![button_pre] = AfterRelease(n)]
              /\ UNCHANGED <<long_left_cnt, pb_spoiled>>

\* Nothing was down, or others are down now.
PbOther(button) ==
  /\ button_pre # Mid
  /\ button_pre = 0 \/ button \notin {0, button_pre}
  /\ map_value' = NoKey
  /\ UNCHANGED <<btn_cnt, long_left_cnt, pb_spoiled>>

rc_button_process_and_mapping ==
  ~pb_spoiled /\ \E button \in PbValue :
    /\ AfterMid(button) \/ PbStillDown(button) \/ PbReleased(button) \/ PbOther(button)
    /\ PbSeen(button)

\* Power loss, deep sleep or the watchdog.
PbRestart ==
  /\ button_pre' = 0 /\ btn_cnt' = [i \in 1..3 |-> 0] /\ long_left_cnt' = 0
  /\ map_value' = NoKey
  /\ pb_spoiled' = FALSE /\ held' = 0 /\ down' = 0 /\ slid' = {} /\ longs' = {}

PbNext == rc_button_process_and_mapping \/ PbRestart

PbSpec == PbInit /\ [][PbNext]_pbVars

-----------------------------------------------------------------------------
\* The key a press of button b should give in the pass that reads button.
PbExpected(b, button) ==
  IF button = 0 /\ held \in 2..RC_BUTTON_OVER_THRESH THEN Short[b]
  ELSE IF button = b /\ held = RC_BUTTON_OVER_THRESH THEN LongKey(b)
  ELSE NoKey

\* A press of the left or right button gives one key: its short one on release, or its
\* long one once it was down long enough (held' = 0 is a restart).  Only a press after the
\* finger slid from that button to another may differ, until the button is released by itself.
OneKeyPerPress ==
  [][\A b \in {Left, Right} :
       button_pre = b /\ b \notin slid \cup slid' /\ held' > 0 /\ ~pb_spoiled'
         => map_value' = PbExpected(b, button_pre')]_pbVars

\* However the fingers slide, no button gives a second long press before all were up.
OneLongPress ==
  [][map_value' \in {"LONG_LEFT", "LONG_LEFT_OVER", "LONG_RIGHT"}
       => button_pre' \notin longs]_pbVars

\* "120 * 12ms = 1440ms": a long press is that long, at least some button is.
LongIsLong ==
  [][map_value' \in {"LONG_LEFT", "LONG_LEFT_OVER", "LONG_RIGHT"}
       => down' >= RC_BUTTON_OVER_THRESH]_pbVars
=============================================================================
