-------------------------------- MODULE UsbKb -------------------------------
(***************************************************************************)
(* The keyboard reports of the dongle (proj/app/usbkb.c), and the endpoint *)
(* they share with the mouse reports (proj/app/usbmouse.c).                *)
(*                                                                         *)
(* usbkb_hid_report runs in the radio interrupt for every new key frame.   *)
(* The main loop sends releases for keys that heard nothing for 450 ms and *)
(* sends mouse reports; the interrupt may preempt it at any point.  The    *)
(* host collects reports from the endpoints, also while the interrupt      *)
(* runs.  usbkb_not_released is changed with BM_SET and BM_CLR, a load and *)
(* a store each, in the main loop two steps.                               *)
(*                                                                         *)
(* A report names the class of key it is about and the key, or None for a  *)
(* release; modifiers are part of the normal key.                          *)
(***************************************************************************)
EXTENDS Naturals, FiniteSets

CONSTANTS
  Keys,       \* keys of every class
  None,       \* no key
  Free,       \* an endpoint the host has emptied
  MaxEvents   \* bound on the frames and the events of the host

Class == {"normal", "sys", "media"}
Frame == {f \in [Class -> Keys \cup {None}] : None \in {f["sys"], f["media"]}}
Released == [c \in Class |-> None]

ASSUME KeysAssumption ==
  /\ IsFiniteSet(Keys) /\ Keys # {}
  /\ None \notin Keys
  /\ MaxEvents \in Nat

\* USB_EDP_KEYBOARD_IN carries the normal keys, USB_EDP_MOUSE all else.
Endpoint(c) == IF c = "normal" THEN "kb" ELSE "mouse"
Report == [class : Class \cup {"mouse"}, key : Keys \cup {None}]
MouseReport == [class |-> "mouse", key |-> None]
ASSUME FreeAssumption == Free \notin Report

VARIABLES
  ep,                  \* report in each endpoint, or Free
  host,                \* the key of each class the host believes is down
  conn,                \* reg_usb_host_conn
  suspended,           \* FLD_IRQ_USB_PWDN_EN
  usbkb_not_released,  \* classes
  last_data,           \* of usbkb_check_repeat_and_save
  expired,             \* 450 ms since usbkb_data_report_time
  irq, irq_frame,      \* the class the interrupt reports next, and its frame
  main, main_step,     \* the class the main loop releases, "mouse" or "loop"
  main_reg,            \* the copy of usbkb_not_released in a register
  preempted,           \* history: an interrupt came while the main loop was
                       \* between its test of the endpoint and its last store
  events

irqVars == <<irq, irq_frame>>
mainVars == <<main, main_step, main_reg>>
vars == <<ep, host, conn, suspended, usbkb_not_released, last_data, expired,
          irqVars, mainVars, preempted, events>>

TypeOK ==
  /\ ep \in [{"kb", "mouse"} -> Report \cup {Free}]
  /\ ep["kb"] # Free => ep["kb"].class = "normal"
  /\ ep["mouse"] # Free => ep["mouse"].class # "normal"
  /\ host \in [Class -> Keys \cup {None}]
  /\ conn \in BOOLEAN /\ suspended \in BOOLEAN
  /\ usbkb_not_released \in SUBSET Class
  /\ last_data \in Frame
  /\ expired \in BOOLEAN
  /\ irq \in Class \cup {"idle"} /\ irq_frame \in Frame
  /\ main \in Class \cup {"mouse", "loop"}
  /\ main_step \in {"test", "write", "load", "store"}
  /\ main_reg \in SUBSET Class
  /\ preempted \in BOOLEAN
  /\ events \in 0..MaxEvents

Init ==
  /\ ep = [e \in {"kb", "mouse"} |-> Free]
  /\ host = Released
  /\ conn = FALSE /\ suspended = FALSE
  /\ usbkb_not_released = {}
  /\ last_data = Released
  /\ expired = TRUE
  /\ irq = "idle" /\ irq_frame = Released
  /\ main = "loop" /\ main_step = "test" /\ main_reg = {}
  /\ preempted = FALSE
  /\ events = 0

Event == events < MaxEvents /\ events' = events + 1
-----------------------------------------------------------------------------
\* Mutants of CanReport and AfterClass: no busy test; media keys left out.
CanReportBusy(c) == conn
AfterClassNoMedia(c) == IF c = "sys" THEN "normal" ELSE "loop"

\* usbkb_hid_report_normal and usbmouse_hid_report refuse a report while the host
\* is away, and then empty the endpoint, or while the endpoint is busy.
CanReport(c) == conn /\ ep[Endpoint(c)] = Free
AfterRefusal(c) == IF conn THEN ep ELSE [ep EXCEPT ![Endpoint(c)] = Free]
Filled(c, k) == [ep EXCEPT ![Endpoint(c)] = [class |-> c, key |-> k]]

\* usbkb_hid_report is entered: a frame like the last one, while a key waits for its
\* release, only restarts the timer.  The key a release follows is not forgotten:
\* an empty frame is not saved.
Repeats(f) == f # Released /\ f = last_data /\ usbkb_not_released # {}

usbkb_hid_report(f) ==
  /\ irq = "idle"
  /\ Event
  /\ last_data' = IF f # Released THEN f ELSE last_data
  /\ IF Repeats(f)
     THEN expired' = FALSE /\ UNCHANGED <<irqVars, preempted>>
     ELSE /\ irq' = "normal"
          /\ irq_frame' = f
          /\ preempted' = (preempted \/ main_step # "test")
          /\ UNCHANGED expired
  /\ UNCHANGED <<ep, host, conn, suspended, usbkb_not_released, mainVars>>

\* usbkb_report_normal_key, usbkb_report_sys_key and usbkb_report_media_key, in
\* this order: the key of the frame, or the release of a key still down.
Wanted(c) == irq_frame[c] # None \/ c \in usbkb_not_released
AfterReport(c) ==
  IF irq_frame[c] # None THEN usbkb_not_released \cup {c}
  ELSE usbkb_not_released \ {c}

usbkb_report_key(c) ==
  /\ irq = c
  /\ IF Wanted(c)
     THEN IF CanReport(c)
          THEN /\ ep' = Filled(c, irq_frame[c])
               /\ usbkb_not_released' = AfterReport(c)
          ELSE ep' = AfterRefusal(c) /\ UNCHANGED usbkb_not_released
     ELSE UNCHANGED <<ep, usbkb_not_released>>
  /\ irq' = CASE c = "normal" -> "sys" [] c = "sys" -> "media" [] c = "media" -> "idle"
  /\ expired' = IF c = "media" THEN FALSE ELSE expired
  /\ UNCHANGED <<host, conn, suspended, last_data, irq_frame, mainVars, preempted,
                 events>>

-----------------------------------------------------------------------------
\* The main loop runs while no interrupt does.

\* usbkb_release_check, reached while the host does not sleep.
usbkb_release_check ==
  /\ irq = "idle"
  /\ main = "loop"
  /\ ~suspended /\ usbkb_not_released # {} /\ expired
  /\ main' = "sys"
  /\ UNCHANGED <<ep, host, conn, suspended, usbkb_not_released, last_data, expired,
                 irqVars, main_step, main_reg, preempted, events>>

AfterClass(c) ==
  CASE c = "sys" -> "normal" [] c = "normal" -> "media" [] c = "media" -> "loop"

\* usbkb_release_sys_key, _normal_key and _media_key up to the busy test of the
\* endpoint ...
ReleaseTest(c) ==
  /\ irq = "idle"
  /\ main = c /\ main_step = "test"
  /\ IF c \in usbkb_not_released /\ CanReport(c)
     THEN main_step' = "write" /\ UNCHANGED <<ep, main>>
     ELSE /\ ep' = IF c \in usbkb_not_released THEN AfterRefusal(c) ELSE ep
          /\ main' = AfterClass(c)
          /\ UNCHANGED main_step
  /\ UNCHANGED <<host, conn, suspended, usbkb_not_released, last_data, expired,
                 irqVars, main_reg, preempted, events>>

\* ... the write, which an interrupt may have got ahead of: the endpoint keeps one
\* report or the other ...
Written(c) ==
  {Filled(c, None)} \cup (IF ep[Endpoint(c)] = Free THEN {} ELSE {ep})

ReleaseWrite(c) ==
  /\ irq = "idle"
  /\ main = c /\ main_step = "write"
  /\ ep' \in Written(c)
  /\ main_step' = "load"
  /\ UNCHANGED <<host, conn, suspended, usbkb_not_released, last_data, expired,
                 irqVars, main, main_reg, preempted, events>>

\* ... and BM_CLR.
ReleaseLoad(c) ==
  /\ irq = "idle"
  /\ main = c /\ main_step = "load"
  /\ main_reg' = usbkb_not_released
  /\ main_step' = "store"
  /\ UNCHANGED <<ep, host, conn, suspended, usbkb_not_released, last_data, expired,
                 irqVars, main, preempted, events>>

ReleaseStore(c) ==
  /\ irq = "idle"
  /\ main = c /\ main_step = "store"
  /\ usbkb_not_released' = main_reg \ {c}
  /\ main_reg' = {}
  /\ main' = AfterClass(c)
  /\ main_step' = "test"
  /\ UNCHANGED <<ep, host, conn, suspended, last_data, expired, irqVars, preempted,
                 events>>

\* usbmouse_report_frame and usbmouse_release_check, when they report.
MouseTest ==
  /\ irq = "idle"
  /\ main = "loop"
  /\ ~suspended /\ CanReport("mouse")
  /\ main' = "mouse"
  /\ main_step' = "write"
  /\ UNCHANGED <<ep, host, conn, suspended, usbkb_not_released, last_data, expired,
                 irqVars, main_reg, preempted, events>>

MouseWrite ==
  /\ irq = "idle"
  /\ main = "mouse"
  /\ ep' \in Written("mouse")
  /\ main' = "loop"
  /\ main_step' = "test"
  /\ UNCHANGED <<host, conn, suspended, usbkb_not_released, last_data, expired,
                 irqVars, main_reg, preempted, events>>

-----------------------------------------------------------------------------
\* The host, and time.
HostCollects(e) ==
  /\ conn /\ ~suspended
  /\ ep[e] # Free
  /\ host' = IF ep[e].class \in Class
             THEN [host EXCEPT ![ep[e].class] = ep[e].key] ELSE host
  /\ ep' = [ep EXCEPT ![e] = Free]
  /\ UNCHANGED <<conn, suspended, usbkb_not_released, last_data, expired, irqVars,
                 mainVars, preempted, events>>

TimePasses ==
  /\ irq = "idle"
  /\ ~expired
  /\ expired' = TRUE
  /\ UNCHANGED <<ep, host, conn, suspended, usbkb_not_released, last_data, irqVars,
                 mainVars, preempted, events>>

HostConnects ==
  /\ ~conn
  /\ conn' = TRUE
  /\ UNCHANGED <<ep, host, suspended, usbkb_not_released, last_data, expired, irqVars,
                 mainVars, preempted, events>>

\* A host that goes away, or resets the bus, forgets every key.
HostDisconnects ==
  /\ conn
  /\ Event
  /\ conn' = FALSE
  /\ host' = Released
  /\ UNCHANGED <<ep, suspended, usbkb_not_released, last_data, expired, irqVars,
                 mainVars, preempted>>

\* usb_handle_irq sees a bus reset and clears the endpoints.
UsbReset ==
  /\ irq = "idle" /\ main = "loop"
  /\ Event
  /\ host' = Released
  /\ ep' = [e \in {"kb", "mouse"} |-> Free]
  /\ UNCHANGED <<conn, suspended, usbkb_not_released, last_data, expired, irqVars,
                 mainVars, preempted>>

HostSuspends ==
  /\ conn /\ ~suspended
  /\ Event
  /\ suspended' = TRUE
  /\ UNCHANGED <<ep, host, conn, usbkb_not_released, last_data, expired, irqVars,
                 mainVars, preempted>>

HostResumes ==
  /\ suspended
  /\ suspended' = FALSE
  /\ UNCHANGED <<ep, host, conn, usbkb_not_released, last_data, expired, irqVars,
                 mainVars, preempted, events>>

Irq ==
  \/ \E f \in Frame : usbkb_hid_report(f)
  \/ \E c \in Class : usbkb_report_key(c)
ReleaseSteps(c) ==
  ReleaseTest(c) \/ ReleaseWrite(c) \/ ReleaseLoad(c) \/ ReleaseStore(c)
MainLoop ==
  \/ usbkb_release_check
  \/ \E c \in Class : ReleaseSteps(c)
  \/ MouseTest \/ MouseWrite
Host ==
  \/ \E e \in {"kb", "mouse"} : HostCollects(e)
  \/ HostConnects \/ HostDisconnects \/ UsbReset \/ HostSuspends \/ HostResumes

Next == Irq \/ MainLoop \/ Host \/ TimePasses

Spec == Init /\ [][Next]_vars

\* The interrupt ends, the main loop runs, the host polls, and neither sleeps nor
\* stays away for ever.
FairSpec ==
  /\ Spec
  /\ \A c \in Class : WF_vars(usbkb_report_key(c)) /\ WF_vars(ReleaseSteps(c))
  /\ WF_vars(usbkb_release_check) /\ WF_vars(MouseWrite)
  /\ \A e \in {"kb", "mouse"} : WF_vars(HostCollects(e))
  /\ WF_vars(HostConnects) /\ WF_vars(HostResumes) /\ WF_vars(TimePasses)

-----------------------------------------------------------------------------
\* The key of class c the host will believe in once it has emptied the endpoints.
Seen(c) ==
  LET r == ep[Endpoint(c)]
  IN  IF r # Free /\ r.class = c THEN r.key ELSE host[c]

\* A key that is down for the host, or about to be, is remembered as such, through
\* busy endpoints, releases that are refused, resets and suspended hosts, unless an
\* interrupt preempted the main loop in the middle of a release or a mouse report.
Remembered ==
  ~preempted => \A c \in Class : Seen(c) # None => c \in usbkb_not_released

\* A pause in the mouse reports, which come first in the main loop and can keep the
\* shared endpoint busy.
MousePauses == <>[](main # "mouse")

\* A key the host believes is down is released in the end, if no such preemption
\* happened and the mouse does not move for ever.
KeysReleased ==
  MousePauses => \A c \in Class : host[c] # None ~> (host[c] = None \/ preempted)

\* What usbkb_release_check says: after the timeout it will "release keys".  Here no
\* mouse report is sent at all.
TimeoutReleases ==
  [](main # "mouse") => \A c \in Class : host[c] # None ~> host[c] = None
=============================================================================
