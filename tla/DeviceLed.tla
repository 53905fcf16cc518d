------------------------------ MODULE DeviceLed -----------------------------
(***************************************************************************)
(* The indicator LED of pen and keyboard (vendor/common/device_led.c, and  *)
(* kb_led.c, which repeats it).  Every pass of the main loop calls         *)
(* device_led_process; anybody may ask for a blinking pattern in between   *)
(* (device_led_setup), which is refused while another of the same or of a  *)
(* higher priority is under way.  A device does not go to sleep before the *)
(* LED has finished (LED_EVENT_BUSY).                                      *)
(*                                                                         *)
(* Times are in passes.  The patterns of the products all have on and off  *)
(* phases, but the one that only switches the LED off.                     *)
(***************************************************************************)
EXTENDS Naturals

CONSTANT LedCfgs  \* the patterns: rc_led_cfg, kb_led_cfg, in passes

ASSUME LedAssumption ==
  LedCfgs \subseteq [on_time : Nat, off_time : Nat \ {0}, repeat_count : Nat \ {0}, over_wrt : 0..3]

NoCfg == [on_time |-> 0, off_time |-> 0, repeat_count |-> 0, over_wrt |-> 0]

VARIABLES
  led,        \* the pattern being shown; its repeat_count is what is left
  led_is_on,
  led_clock,
  led_asked,  \* history: the pattern as it was asked for
  led_lit,    \* history: its on phases that are over
  led_passes  \* history: passes of its on phase so far

ledVars == <<led, led_is_on, led_clock, led_asked, led_lit, led_passes>>

LedTypeOK ==
  /\ led_asked \in LedCfgs \cup {NoCfg}
  /\ led.repeat_count \in 0..led_asked.repeat_count
  /\ led = [led_asked EXCEPT !.repeat_count = led.repeat_count]
  /\ led_is_on \in BOOLEAN
  /\ led_clock \in Nat /\ led_lit \in Nat /\ led_passes \in Nat
  /\ led_clock <= led_asked.on_time + led_asked.off_time

LedInit ==
  /\ led = NoCfg /\ led_asked = NoCfg
  /\ led_is_on = FALSE
  /\ led_clock = 0 /\ led_lit = 0 /\ led_passes = 0

Overwrites(c) == c.over_wrt > led.over_wrt

device_led_setup ==
  \E c \in LedCfgs :
    /\ led.repeat_count = 0 \/ Overwrites(c)
    /\ led' = c /\ led_asked' = c
    /\ led_is_on' = (led_is_on \/ c.on_time > 0)
    /\ led_clock' = 0
    /\ led_lit' = 0 /\ led_passes' = 0

\* Mutant of PhaseOver: one pass late.
PhaseOverLate(t) == led_clock + 1 > t
PhaseOver(t) == led_clock + 1 >= t

\* The on phase, or a pattern without one.
OnPhase ==
  /\ led_is_on \/ led.on_time = 0
  /\ led_passes' = led_passes + 1
  /\ IF PhaseOver(led.on_time)
     THEN /\ led' = [led EXCEPT !.repeat_count = @ - 1]
          /\ led_is_on' = FALSE
          /\ led_clock' = 0
          /\ led_lit' = led_lit + 1
     ELSE led_clock' = led_clock + 1 /\ UNCHANGED <<led, led_is_on, led_lit>>

OffPhase ==
  /\ ~led_is_on /\ led.on_time > 0
  /\ IF PhaseOver(led.off_time)
     THEN led_is_on' = TRUE /\ led_clock' = 0
     ELSE led_clock' = led_clock + 1 /\ UNCHANGED led_is_on
  /\ UNCHANGED <<led, led_lit, led_passes>>

device_led_process ==
  /\ led.repeat_count > 0
  /\ OnPhase \/ OffPhase
  /\ UNCHANGED led_asked

LedNext == device_led_setup \/ device_led_process
LedSpec == LedInit /\ [][LedNext]_ledVars

\* The main loop calls device_led_process in every pass; nobody has to ask for a pattern.
LedFairness == WF_ledVars(device_led_process)
LedFairSpec == LedSpec /\ LedFairness

-----------------------------------------------------------------------------
\* A pattern that ends has shown what was asked for: as many flashes, each as long as
\* asked, whatever was under way when it was set up, and the LED is off.
LedShown ==
  led.repeat_count = 0 =>
    /\ ~led_is_on
    /\ led_lit = led_asked.repeat_count
    /\ led_asked.on_time > 0 => led_passes = led_asked.on_time * led_asked.repeat_count

\* The LED does not keep the device awake for ever, however often patterns are asked for.
LedRests == []<>(led.repeat_count = 0)
=============================================================================
