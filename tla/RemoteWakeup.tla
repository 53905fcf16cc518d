---------------------------- MODULE RemoteWakeup ----------------------------
(***************************************************************************)
(* The dongle while the computer sleeps (vendor/dongle/dongle_suspend.c,   *)
(* usb_handle_irq of proj/drivers/usb.c, and the callbacks of dongle.c):   *)
(* it sleeps 200 ms at a time and listens for 15 ms in between; a key or a *)
(* movement wakes the computer.  A movement does so in the interrupt, a    *)
(* key by a flag the main loop looks at.                                   *)
(*                                                                         *)
(* The interrupt and the host come between any two steps of the main loop; *)
(* the interrupt is off while the chip sleeps.                             *)
(***************************************************************************)
EXTENDS Naturals

VARIABLES
  rw_host,          \* the computer: "awake", "asleep", or "waking" once it is resumed
  rw_remote,        \* it has switched on remote wake-up (reg_usb_mdev, bit 2)
  usb_has_suspend_irq,
  resume_host_flg,
  rw_pc,            \* the next step of the main loop
  rw_asked,         \* history: a key or movement since the computer went to sleep
  rw_stale          \* history: resume_host_flg was set when the computer last woke, by itself or
                    \* resumed, and the main loop has not cleared it since

rwVars == <<rw_host, rw_remote, usb_has_suspend_irq, resume_host_flg, rw_pc, rw_asked, rw_stale>>

(* Type invariant; the chip never sleeps over a computer it is to wake but *)
(* with the timer on.                                                      *)
RwTypeOK ==
  /\ rw_host \in {"awake", "asleep", "waking"}
  /\ {rw_remote, usb_has_suspend_irq, resume_host_flg, rw_asked, rw_stale} \subseteq BOOLEAN
  /\ rw_pc \in {"irq", "work", "resume", "clear", "check", "sleep", "timer", "core"}
  /\ rw_pc = "core" => ~rw_remote

RwInit ==
  /\ rw_host = "awake" /\ rw_remote \in BOOLEAN
  /\ usb_has_suspend_irq = FALSE /\ resume_host_flg = FALSE
  /\ rw_pc = "irq" /\ rw_asked = FALSE /\ rw_stale = FALSE

\* FLD_IRQ_USB_PWDN_EN
RwPwdn == rw_host # "awake"
\* usb_resume_host
RwResumed == IF rw_host = "asleep" /\ rw_remote THEN "waking" ELSE rw_host

-----------------------------------------------------------------------------
\* usb_handle_irq
RwHandleIrq ==
  /\ rw_pc = "irq"
  /\ usb_has_suspend_irq' = RwPwdn
  /\ rw_pc' = "work"
  /\ UNCHANGED <<rw_host, rw_remote, resume_host_flg, rw_asked, rw_stale>>

\* The reports to USB, then proc_suspend.
RwWork ==
  /\ rw_pc = "work"
  /\ rw_pc' = IF usb_has_suspend_irq THEN "resume" ELSE "irq"
  /\ UNCHANGED <<rw_host, rw_remote, usb_has_suspend_irq, resume_host_flg, rw_asked, rw_stale>>

\* Mutant of ResumeFlag: a key asks for ever.
ResumeFlagStays == resume_host_flg
ResumeFlag == FALSE

\* suspend_and_wakeup: has a key asked?
RwResume ==
  /\ rw_pc = "resume"
  /\ rw_host' = IF resume_host_flg THEN RwResumed ELSE rw_host
  /\ rw_pc' = IF resume_host_flg THEN "clear" ELSE "check"
  /\ UNCHANGED <<rw_remote, usb_has_suspend_irq, resume_host_flg, rw_asked, rw_stale>>

\* The flag is cleared, though a key may have set it again since the test.
RwClear ==
  /\ rw_pc = "clear"
  /\ resume_host_flg' = ResumeFlag
  /\ rw_stale' = FALSE
  /\ rw_pc' = "check"
  /\ UNCHANGED <<rw_host, rw_remote, usb_has_suspend_irq, rw_asked>>

\* suspend_and_wakeup: it sleeps but in the first two seconds of every turn of the clock, and
\* for 15 ms after it has slept.
RwCheck ==
  /\ rw_pc = "check"
  /\ usb_has_suspend_irq' = (usb_has_suspend_irq /\ RwPwdn)
  /\ rw_pc' \in {"irq"} \cup {p \in {"sleep"} : usb_has_suspend_irq'}
  /\ UNCHANGED <<rw_host, rw_remote, resume_host_flg, rw_asked, rw_stale>>

SleepsUntil == IF rw_remote THEN "timer" ELSE "core"

\* suspend_and_wakeup: with remote wake-up the timer ends the sleep as well.
RwSleep ==
  /\ rw_pc = "sleep"
  /\ rw_pc' = SleepsUntil
  /\ UNCHANGED <<rw_host, rw_remote, usb_has_suspend_irq, resume_host_flg, rw_asked, rw_stale>>

\* cpu_sleep_wakeup_rc returns after 200 ms, or when the bus is active.
RwWakes ==
  /\ rw_pc = "timer" \/ (rw_pc = "core" /\ ~RwPwdn)
  /\ rw_pc' = "irq"
  /\ UNCHANGED <<rw_host, rw_remote, usb_has_suspend_irq, resume_host_flg, rw_asked, rw_stale>>

\* callback_keyboard: a new key.
RwKey ==
  /\ rw_pc \notin {"timer", "core"}
  /\ resume_host_flg' = (resume_host_flg \/ RwPwdn)
  /\ rw_asked' = (rw_asked \/ RwPwdn)
  /\ UNCHANGED <<rw_host, rw_remote, usb_has_suspend_irq, rw_pc, rw_stale>>

\* callback_mouse: a movement.
RwMouse ==
  /\ rw_pc \notin {"timer", "core"} /\ RwPwdn
  /\ rw_host' = RwResumed
  /\ rw_asked' = TRUE
  /\ UNCHANGED <<rw_remote, usb_has_suspend_irq, resume_host_flg, rw_pc, rw_stale>>

\* The computer goes to sleep, and says before whether it wants to be woken.  Not between the
\* test and the clearing of the flag: awake there, it woke in this very pass of the main loop
\* (RwHandleIrq saw it asleep), and only 3 ms of an idle bus are a suspend.
RwHostSleeps ==
  /\ rw_host = "awake" /\ rw_pc \notin {"clear", "timer", "core"}
  /\ rw_host' = "asleep" /\ rw_remote' \in BOOLEAN
  /\ rw_asked' = FALSE
  /\ UNCHANGED <<usb_has_suspend_irq, resume_host_flg, rw_pc, rw_stale>>

\* The computer wakes by itself ...
RwHostWakes ==
  /\ rw_host = "asleep"
  /\ rw_host' = "awake"
  /\ rw_stale' = resume_host_flg
  /\ UNCHANGED <<rw_remote, usb_has_suspend_irq, resume_host_flg, rw_pc, rw_asked>>

\* ... or because it was resumed.
RwHostResumes ==
  /\ rw_host = "waking"
  /\ rw_host' = "awake"
  /\ rw_stale' = resume_host_flg
  /\ UNCHANGED <<rw_remote, usb_has_suspend_irq, resume_host_flg, rw_pc, rw_asked>>

RwLoop == RwHandleIrq \/ RwWork \/ RwResume \/ RwClear \/ RwCheck \/ RwSleep \/ RwWakes
RwNext == RwLoop \/ RwKey \/ RwMouse \/ RwHostSleeps \/ RwHostWakes \/ RwHostResumes

RwSpec == RwInit /\ [][RwNext]_rwVars
\* The main loop runs, the timer ends the sleep, and a computer that is resumed wakes.
RwFairness == WF_rwVars(RwLoop) /\ WF_rwVars(RwHostResumes)
RwFair == RwSpec /\ RwFairness

-----------------------------------------------------------------------------
(* A key pressed while the computer sleeps wakes it if it wants to be      *)
(* woken: the flag survives until the main loop comes to look at it.       *)
RwKeyWakes == resume_host_flg /\ rw_host = "asleep" /\ rw_remote ~> rw_host = "awake"

(* The dongle wakes the computer only for a key or a movement since it     *)
(* went to sleep.  Not so for a flag left over: a key asked, but something *)
(* else had woken the computer before suspend_and_wakeup looked at the     *)
(* flag (by itself, or resumed for another key or movement).  It looks in  *)
(* a suspend only, so the flag may last until the next one, and wakes the  *)
(* computer from that; once, for then it is cleared.                       *)
RwNoSpuriousWake == [][rw_host' = "waking" /\ rw_host # "waking" => rw_asked' \/ rw_stale]_rwVars
=============================================================================
