------------------------------ MODULE MouseRing -----------------------------
(***************************************************************************)
(* The mouse reports of the dongle (proj/app/usbmouse.c): the radio        *)
(* interrupt puts the frames of a packet into a ring (usbmouse_add_frame), *)
(* the main loop takes them out (usbmouse_report_frame) and sends a        *)
(* release when the mouse has been silent for 200 ms                       *)
(* (usbmouse_release_check).  There is no lock: both sides write the read  *)
(* pointer.                                                                *)
(*                                                                         *)
(* A frame is its number in the order of queueing and what the host makes  *)
(* of it, after smoothing and debouncing: a button is down, there is only  *)
(* motion, or nothing ("zero", the report of a release).  System and media *)
(* keys use the same endpoint (ForeignReport; see UsbKb).                  *)
(*                                                                         *)
(* Packets are at least 1 ms apart, a pass of the main loop over this code *)
(* takes some 10 us: at most one interrupt comes while it is under way.    *)
(***************************************************************************)
EXTENDS Naturals

CONSTANTS
  N,         \* USBMOUSE_BUFF_DATA_NUM
  MaxPno,    \* frames of a packet (MOUSE_FRAME_DATA_NUM)
  MaxPut,    \* bound on the frames queued
  MaxEvents, \* bound on the other events from outside
  Free       \* the endpoint is empty

ASSUME RingAssumption ==
  /\ N \in Nat /\ N > 2
  /\ MaxPno \in Nat \ {0}
  /\ MaxPut \in Nat /\ MaxEvents \in Nat

What == {"press", "motion", "zero"}
Frame == [id : Nat, what : What]
Blank == [id |-> 0, what |-> "zero"]
ASSUME RingFreeAssumption == Free \notin What \cup {"key"}

VARIABLES
  mouse_dat_buff, usbmouse_wptr, usbmouse_rptr,
  irq_left,              \* frames of its packet the interrupt still has to add
  main,                  \* where the main loop is
  reg,                   \* usbmouse_rptr in a register of the main loop
  data,                  \* the frame usbmouse_report_frame has read
  usbmouse_not_released,
  expired,               \* 200 ms since usbmouse_data_report_time
  conn,                  \* reg_usb_host_conn
  ep,                    \* what the report in the endpoint is about, or Free
  pressed,               \* the host believes a button is down
  visited,               \* an interrupt came while the main loop was busy here
  put, got, turn,        \* history: see OrderedStream
  overtaken,             \* history: a key's report met one of the main loop's
  events

ringVars == <<mouse_dat_buff, usbmouse_wptr, put>>
hostVars == <<conn, pressed>>
historyVars == <<got, turn>>
vars == <<ringVars, usbmouse_rptr, irq_left, main, reg, data, usbmouse_not_released,
          expired, hostVars, ep, visited, historyVars, overtaken, events>>

TypeOK ==
  /\ mouse_dat_buff \in [0..N-1 -> Frame]
  /\ usbmouse_wptr \in 0..N-1 /\ usbmouse_rptr \in 0..N-1 /\ reg \in 0..N-1
  /\ irq_left \in 0..MaxPno
  /\ main \in {"loop", "read", "report", "advance", "store", "release", "clear"}
  /\ data \in Frame
  /\ usbmouse_not_released \in BOOLEAN /\ expired \in BOOLEAN
  /\ conn \in BOOLEAN /\ pressed \in BOOLEAN
  /\ ep \in What \cup {"key", Free}
  /\ visited \in BOOLEAN /\ turn \in BOOLEAN /\ overtaken \in BOOLEAN
  /\ put \in Nat /\ got \in Nat
  /\ events \in 0..MaxEvents

Init ==
  /\ mouse_dat_buff = [i \in 0..N-1 |-> Blank]
  /\ usbmouse_wptr = 0 /\ usbmouse_rptr = 0 /\ reg = 0
  /\ irq_left = 0
  /\ main = "loop"
  /\ data = Blank
  /\ usbmouse_not_released = FALSE /\ expired = TRUE
  /\ conn = FALSE /\ pressed = FALSE
  /\ ep = Free
  /\ visited = FALSE /\ turn = FALSE /\ overtaken = FALSE
  /\ put = 0 /\ got = 0
  /\ events = 0

Event == events < MaxEvents /\ events' = events + 1
-----------------------------------------------------------------------------
\* The interrupt.

\* Mutant of Bounded: no wrap-around.
BoundedNever(i) == i + 1
\* BOUND_INC_POW2 with USBMOUSE_BUFF_DATA_NUM.
Bounded(i) == (i + 1) % N

\* After an overflow the loop of usbmouse_add_frame ends, or, as a mutant, goes on.
GoesOn == irq_left - 1
AfterOverflow == 0

\* Between two steps of the main loop, and once per pass.
MayInterrupt == irq_left = 0 /\ (main = "loop" \/ ~visited)
Interrupted == visited' = (main # "loop")

\* callback_mouse has a new packet; it is dropped while the host is away.
callback_mouse ==
  /\ MayInterrupt /\ Interrupted
  /\ conn /\ put < MaxPut
  /\ \E pno \in 1..MaxPno : irq_left' = pno
  /\ UNCHANGED <<ringVars, usbmouse_rptr, main, reg, data, usbmouse_not_released,
                 expired, hostVars, ep, historyVars, overtaken, events>>

\* One round of the loop of usbmouse_add_frame: a full ring loses its oldest frame,
\* and the rest of the packet.
usbmouse_add_frame ==
  LET w == Bounded(usbmouse_wptr)
      full == w = usbmouse_rptr
  IN  /\ irq_left > 0
      /\ \E what \in What :
           mouse_dat_buff' =
             [mouse_dat_buff EXCEPT ![usbmouse_wptr] = [id |-> put + 1, what |-> what]]
      /\ put' = put + 1
      /\ usbmouse_wptr' = w
      /\ usbmouse_rptr' = IF full THEN Bounded(usbmouse_rptr) ELSE usbmouse_rptr
      /\ irq_left' = IF full THEN AfterOverflow ELSE irq_left - 1
      /\ UNCHANGED <<main, reg, data, usbmouse_not_released, expired, hostVars, ep,
                     visited, historyVars, overtaken, events>>

\* usbmouse_hid_report with another report id, for a system or media key.
ForeignReport ==
  /\ MayInterrupt /\ Interrupted
  /\ Event
  /\ conn /\ ep = Free
  /\ ep' = "key"
  /\ overtaken' = (overtaken \/ main \in {"report", "release"})
  /\ UNCHANGED <<ringVars, usbmouse_rptr, irq_left, main, reg, data,
                 usbmouse_not_released, expired, hostVars, historyVars>>

-----------------------------------------------------------------------------
\* The main loop, usb_data_report_proc.  It runs while no interrupt does.

EndpointFree == conn /\ ep = Free

\* usbmouse_report_frame finds a frame.  It may wait for more (up to 5 ms after the
\* endpoint was busy), which is no step.
ReportTest ==
  /\ irq_left = 0
  /\ main = "loop"
  /\ usbmouse_wptr # usbmouse_rptr
  /\ reg' = usbmouse_rptr
  /\ main' = "read"
  /\ visited' = FALSE
  /\ UNCHANGED <<ringVars, usbmouse_rptr, irq_left, data, usbmouse_not_released,
                 expired, hostVars, ep, historyVars, overtaken, events>>

\* It reads the frame, by the pointer it has or by one read anew, and
\* usbmouse_hid_report tests the endpoint.  A refused frame stays in the ring.
ReportRead ==
  /\ irq_left = 0
  /\ main = "read"
  /\ \E i \in {reg, usbmouse_rptr} : data' = mouse_dat_buff[i]
  /\ IF EndpointFree
     THEN main' = "report" /\ UNCHANGED <<ep, usbmouse_not_released, expired>>
     ELSE /\ ep' = IF conn THEN ep ELSE Free
          /\ usbmouse_not_released' = TRUE
          /\ expired' = FALSE
          /\ main' = "loop"
  /\ UNCHANGED <<ringVars, usbmouse_rptr, irq_left, reg, hostVars, visited,
                 historyVars, overtaken, events>>

\* A report written over one of the interrupt's: the endpoint keeps one of them.
Written(what) == {what} \cup ({ep} \ {Free})

ReportWrite ==
  /\ irq_left = 0
  /\ main = "report"
  /\ ep' \in Written(data.what)
  /\ got' = data.id
  /\ turn' = ~turn
  /\ main' = "advance"
  /\ UNCHANGED <<ringVars, usbmouse_rptr, irq_left, reg, data, usbmouse_not_released,
                 expired, hostVars, visited, overtaken, events>>

\* It moves the read pointer, a load and a store ...
ReportAdvance ==
  /\ irq_left = 0
  /\ main = "advance"
  /\ reg' = usbmouse_rptr
  /\ main' = "store"
  /\ UNCHANGED <<ringVars, usbmouse_rptr, irq_left, data, usbmouse_not_released,
                 expired, hostVars, ep, visited, historyVars, overtaken, events>>

\* Mutant of Outstanding: the test of the code inverted.
OutstandingInverted == data.what = "zero"
\* ... and knows that something is to be released, unless it was a release.
Outstanding == data.what # "zero"

ReportStore ==
  /\ irq_left = 0
  /\ main = "store"
  /\ usbmouse_rptr' = Bounded(reg)
  /\ usbmouse_not_released' = Outstanding
  /\ expired' = IF Outstanding THEN FALSE ELSE expired
  /\ main' = "loop"
  /\ UNCHANGED <<ringVars, irq_left, reg, data, hostVars, ep, visited, historyVars,
                 overtaken, events>>

\* usbmouse_release_check, up to the test of the endpoint, ...
ReleaseTest ==
  /\ irq_left = 0
  /\ main = "loop"
  /\ usbmouse_not_released /\ expired
  /\ visited' = FALSE
  /\ IF EndpointFree
     THEN main' = "release" /\ UNCHANGED ep
     ELSE main' = "loop" /\ ep' = IF conn THEN ep ELSE Free
  /\ UNCHANGED <<ringVars, usbmouse_rptr, irq_left, reg, data, usbmouse_not_released,
                 expired, hostVars, historyVars, overtaken, events>>

\* ... the write, and the flag.
ReleaseWrite ==
  /\ irq_left = 0
  /\ main = "release"
  /\ ep' \in Written("zero")
  /\ main' = "clear"
  /\ UNCHANGED <<ringVars, usbmouse_rptr, irq_left, reg, data, usbmouse_not_released,
                 expired, hostVars, visited, historyVars, overtaken, events>>

ReleaseClear ==
  /\ irq_left = 0
  /\ main = "clear"
  /\ usbmouse_not_released' = FALSE
  /\ main' = "loop"
  /\ UNCHANGED <<ringVars, usbmouse_rptr, irq_left, reg, data, expired, hostVars, ep,
                 visited, historyVars, overtaken, events>>

-----------------------------------------------------------------------------
\* The host, and time.
HostCollects ==
  /\ conn /\ ep # Free
  /\ pressed' = IF ep = "key" THEN pressed ELSE ep = "press"
  /\ ep' = Free
  /\ UNCHANGED <<ringVars, usbmouse_rptr, irq_left, main, reg, data,
                 usbmouse_not_released, expired, conn, visited, historyVars, overtaken,
                 events>>

TimePasses ==
  /\ irq_left = 0 /\ main = "loop"
  /\ expired' = TRUE
  /\ UNCHANGED <<ringVars, usbmouse_rptr, irq_left, main, reg, data,
                 usbmouse_not_released, hostVars, ep, visited, historyVars, overtaken,
                 events>>

HostConnects ==
  /\ ~conn
  /\ conn' = TRUE
  /\ UNCHANGED <<ringVars, usbmouse_rptr, irq_left, main, reg, data, pressed,
                 usbmouse_not_released, expired, ep, visited, historyVars, overtaken,
                 events>>

\* A host that goes away forgets the button.
HostDisconnects ==
  /\ conn
  /\ Event
  /\ conn' = FALSE
  /\ pressed' = FALSE
  /\ UNCHANGED <<ringVars, usbmouse_rptr, irq_left, main, reg, data,
                 usbmouse_not_released, expired, ep, visited, historyVars, overtaken>>

Report == ReportRead \/ ReportWrite \/ ReportAdvance \/ ReportStore
Release == ReleaseWrite \/ ReleaseClear

Next ==
  \/ callback_mouse \/ usbmouse_add_frame \/ ForeignReport
  \/ ReportTest \/ Report \/ ReleaseTest \/ Release
  \/ HostCollects \/ TimePasses \/ HostConnects \/ HostDisconnects

Spec == Init /\ [][Next]_vars

\* The interrupt ends; the main loop calls both functions in every pass; the host
\* polls and does not stay away for ever.
FairSpec ==
  /\ Spec
  /\ WF_vars(usbmouse_add_frame)
  /\ WF_vars(Report) /\ WF_vars(Release)
  /\ WF_vars(ReportTest) /\ WF_vars(ReleaseTest)
  /\ WF_vars(HostCollects) /\ WF_vars(HostConnects) /\ WF_vars(TimePasses)

-----------------------------------------------------------------------------
\* Though the interrupt moves the read pointer under the main loop's feet, frames
\* reach the endpoint in the order they came, each at most once.
Stream == INSTANCE OrderedStream WITH replugged <- FALSE
InOrderOnce == Stream!Spec

\* What is in the ring is an unbroken run of frames up to the newest: no pointer
\* update of either side skips a frame, brings one back, or empties the ring.
\* The newest frame is among them until the main loop has reported it: no race on the
\* pointers makes it vanish.
NewestSurvives ==
  LET n == (usbmouse_wptr + N - usbmouse_rptr) % N
  IN  /\ \A i \in 1..n : mouse_dat_buff[(usbmouse_rptr + i - 1) % N].id = put - n + i
      /\ n = 0 => got = put

\* A mouse that falls silent with a button down does not leave it down.
ButtonReleased == pressed ~> (~pressed \/ overtaken)
=============================================================================
