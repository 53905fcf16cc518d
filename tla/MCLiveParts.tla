----------------------------- MODULE MCLiveParts ----------------------------
(***************************************************************************)
(* The parts with liveness properties, side by side: a behaviour is one of *)
(* one of them, and the others stay in their initial states.               *)
(***************************************************************************)
EXTENDS DeviceLed, KeyboardPower, VacuumController, PenPower, RemoteWakeup, UsbControl, BltLink

VARIABLE part

MCLedCfgs == {[on_time |-> 2, off_time |-> 1, repeat_count |-> 1, over_wrt |-> 0],
              [on_time |-> 1, off_time |-> 2, repeat_count |-> 3, over_wrt |-> 1],
              [on_time |-> 3, off_time |-> 1, repeat_count |-> 2, over_wrt |-> 2],
              [on_time |-> 0, off_time |-> 2, repeat_count |-> 1, over_wrt |-> 3]}
MCVcChords == {{}, {"up"}, {"up", "down"}, {"power", "down"}}
MCDescLen == [d |-> 1, e |-> 4, f |-> 5]

MCParts == {"led", "keyboard_power", "vacuum", "pen_power", "wakeup", "usb", "blt"}

MCInit ==
  /\ part \in MCParts
  /\ LedInit /\ KpInit /\ VcInit /\ PpInit /\ RwInit /\ UcInit /\ BltInit
  /\ part # "vacuum" => ~vc_link
  /\ part # "pen_power" => ~pp_button
  /\ part # "wakeup" => rw_remote
  /\ part # "usb" => control_request = CHOOSE r \in UcRequests : TRUE

MCNext ==
  /\ UNCHANGED part
  /\ IF part = "led" THEN LedNext ELSE UNCHANGED ledVars
  /\ IF part = "keyboard_power" THEN KpNext ELSE UNCHANGED kpVars
  /\ IF part = "vacuum" THEN VcNext ELSE UNCHANGED vcVars
  /\ IF part = "pen_power" THEN PpNext ELSE UNCHANGED ppVars
  /\ IF part = "wakeup" THEN RwNext ELSE UNCHANGED rwVars
  /\ IF part = "usb" THEN UcNext ELSE UNCHANGED ucVars
  /\ IF part = "blt" THEN BltNext ELSE UNCHANGED bltVars

MCVars == <<part, ledVars, kpVars, vcVars, ppVars, rwVars, ucVars, bltVars>>

\* The fairness of each module's own specification, asked only of the part that runs.
MCFair ==
  /\ MCInit /\ [][MCNext]_MCVars
  /\ WF_ledVars(part = "led" /\ device_led_process)
  /\ WF_kpVars(part = "keyboard_power" /\ kp_main_loop)
  /\ WF_vcVars(part = "vacuum" /\ vc_main_loop)
  /\ WF_ppVars(part = "pen_power" /\ mouse_task_in_ram)
  /\ WF_rwVars(part = "wakeup" /\ RwLoop) /\ WF_rwVars(part = "wakeup" /\ RwHostResumes)
  /\ WF_ucVars(part = "usb" /\ UcDongle) /\ WF_ucVars(part = "usb" /\ UcHost)
  /\ WF_bltVars(part = "blt" /\ BltConnect) /\ WF_bltVars(part = "blt" /\ BltBrx)
  /\ SF_bltVars(part = "blt" /\ BltHeard(TRUE))

-----------------------------------------------------------------------------
(* The type invariants of all parts.                                       *)
LiveTypeOK ==
  /\ LedTypeOK /\ KpTypeOK /\ VcTypeOK /\ PpTypeOK /\ RwTypeOK /\ UcTypeOK /\ BltTypeOK

(* Sleep takes nothing away (kb_pm.c, device_power.c): the keyboard does   *)
(* not go to deep sleep over a report that waits for a dongle that         *)
(* answers, and keyboard and pen ask for their dongle as long as they have *)
(* to before they do, and the keyboard no longer than it may.              *)
SleepTakesNothing == KpNothingLost /\ KpPairingWindow /\ PpAsksLong

(* Left alone, each device comes to rest, when it is the one that runs:    *)
(* keyboard, vacuum controller and pen go to sleep (kb_pm.c,               *)
(* vacuum_controller.c, device_power.c), the pen not over a frame that     *)
(* waits, and the LED, which would keep them awake, ends its pattern       *)
(* (device_led.c).                                                         *)
DevicesRest ==
  /\ LedRests
  /\ part = "keyboard_power" => KpRests
  /\ KpWaitDeepEnds
  /\ part = "vacuum" => VcRests
  /\ part = "pen_power" => PpRests
  /\ PpNothingLost

(* The dongle serves its computer: a control request is answered           *)
(* (proj/drivers/usb.c), and a key wakes a computer that wants to be woken *)
(* (dongle_suspend.c).                                                     *)
HostServed == (part = "usb" => UcAnswered) /\ RwKeyWakes
=============================================================================
