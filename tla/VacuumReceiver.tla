--------------------------- MODULE VacuumReceiver ---------------------------
(***************************************************************************)
(* The receiver in the vacuum cleaner                                      *)
(* (vendor/vacuum_receiver/vacuum_receiver.c).  The radio interrupt puts   *)
(* the key events of a frame into a ring (rf_rx_response, callback_vacuum, *)
(* rsv_save_buff); the main loop takes them out and sends them over a wire *)
(* (uart_tx_proc), releases a key by itself when nothing more is heard of  *)
(* it, and suspends when nothing is heard at all.                          *)
(*                                                                         *)
(* The interrupt comes between any two steps of the main loop, never while *)
(* it transmits.  A frame is taken from any controller; which one          *)
(* callback_pairing has stored decides only how pairing is answered, so a  *)
(* pairing frame is here one that brings no event.                         *)
(***************************************************************************)
EXTENDS Integers, SequencesExt

CONSTANTS
  VrKeys,
  VrRing,       \* MAX_BUFF_SIZE (16)
  VR_RELEASE,   \* RCV_RELEASE_THRESH (50)
  VR_SUSPEND    \* thresh_suspend (1000)

NoVrKey == "no key"

\* The ring is empty before a key is released, and a key released before the receiver suspends.
ASSUME VrAssumption ==
  /\ VrRing \in Nat /\ VrRing >= 3
  /\ VR_RELEASE \in Nat /\ VR_RELEASE >= VrRing - 2
  /\ VR_SUSPEND \in Nat /\ VR_SUSPEND >= VR_RELEASE + 2

VrSlots == 0..VrRing - 1
VrEvent(kind, k) == [kind |-> kind, key |-> k]
VrEvents == [kind : {"pressed", "released"}, key : VrKeys]

\* The events of a frame: none, when its sequence number is old or it only pairs; one; or two.
VrFrames ==
  {<<>>} \cup {<<e>> : e \in VrEvents \cup {VrEvent("repeat", k) : k \in VrKeys}}
         \cup {<<VrEvent("released", k), VrEvent("pressed", l)>> : k, l \in VrKeys}

VARIABLES
  data_buff,     \* [data, wptr, rptr]
  KeySave,       \* the last key pressed
  not_release_flg, vr_release, send_p_flg,
  suspend_cnt,
  suspended,     \* rcv_sleep.mode
  vr_pc,         \* the next step of the main loop
  vr_load,       \* the counter it is counting up, as it has read it
  vr_pkt,        \* uart_pkt_data
  vr_queue,      \* history: the events that wait for the wire, in their order
  vr_held,       \* history: the key that is down by what went over the wire
  vr_spoilt      \* history: the ring has lost events, or a frame came between a test and what
                 \* it leads to, or between the reading of a counter and its writing

vrReleaseVars == <<KeySave, not_release_flg, vr_release, send_p_flg>>
vrVars == <<data_buff, vrReleaseVars, suspend_cnt, suspended, vr_pc, vr_load, vr_pkt, vr_queue,
            vr_held, vr_spoilt>>

NoVrEvent == VrEvent("none", NoVrKey)

(* Type invariant, with the range of every counter. *)
VrTypeOK ==
  /\ data_buff \in [data : [VrSlots -> VrEvents \cup {NoVrEvent}], wptr : VrSlots, rptr : VrSlots]
  /\ KeySave \in VrKeys \cup {NoVrKey} /\ vr_held \in VrKeys \cup {NoVrKey}
  /\ vr_release \in 0..VR_RELEASE + 2 /\ suspend_cnt \in 0..VR_SUSPEND + 1
  /\ vr_pc \in {"top", "tick", "release", "send", "transmit", "count", "counted", "sleep"}
  /\ vr_load \in 0..VR_SUSPEND
  /\ vr_pkt \in [kind : {"none", "pressed", "released"}, key : VrKeys \cup {NoVrKey}]
  /\ {not_release_flg, send_p_flg, suspended, vr_spoilt} \subseteq BOOLEAN
  /\ Len(vr_queue) \in VrSlots

VrInit ==
  /\ data_buff = [data |-> [s \in VrSlots |-> NoVrEvent], wptr |-> 0, rptr |-> 0]
  /\ KeySave = NoVrKey /\ not_release_flg = FALSE /\ vr_release = 0 /\ send_p_flg = FALSE
  /\ suspend_cnt = 0 /\ suspended = FALSE
  /\ vr_pc = "top" /\ vr_load = 0 /\ vr_pkt = NoVrEvent
  /\ vr_queue = <<>> /\ vr_held = NoVrKey /\ vr_spoilt = FALSE

-----------------------------------------------------------------------------
\* Mutant of rsv_save_buff: the slot is written after the pointer has moved.
SaveAfter(b, e) ==
  LET w == (b.wptr + 1) % VrRing
  IN  [data |-> [b.data EXCEPT ![w] = e], wptr |-> w,
       rptr |-> IF w - b.rptr >= VrRing - 1 THEN b.rptr + 1 ELSE b.rptr]

\* rsv_save_buff.  A repeat is not stored.  The difference of the pointers is the number of
\* events that wait only while the write pointer has not wrapped.
rsv_save_buff(b, e) ==
  LET w == (b.wptr + 1) % VrRing
  IN  [data |-> [b.data EXCEPT ![b.wptr] = e], wptr |-> w,
       rptr |-> IF w - b.rptr >= VrRing - 1 THEN b.rptr + 1 ELSE b.rptr]

VrWaiting(b) ==
  [i \in 1..(b.wptr - b.rptr) % VrRing |-> b.data[(b.rptr + i - 1) % VrRing]]

\* What callback_vacuum keeps of the two slots of a frame: a repeat comes alone.
Stored(evs) == IF evs # <<>> /\ Last(evs).kind = "repeat" THEN <<>> ELSE evs
VrSaved(b, evs) ==
  CASE Stored(evs) = <<>> -> b
    [] Len(Stored(evs)) = 1 -> rsv_save_buff(b, evs[1])
    [] OTHER -> rsv_save_buff(rsv_save_buff(b, evs[1]), evs[2])

\* callback_vacuum, the part that watches for the release: a press is the last of its frame.
callback_vacuum(evs) ==
  /\ KeySave' = IF evs # <<>> /\ Last(evs).kind = "pressed" THEN Last(evs).key ELSE KeySave
  /\ not_release_flg' = IF evs = <<>> THEN not_release_flg ELSE Last(evs).kind # "released"

\* rf_rx_response and the callback: a frame of a controller.  When more than VrRing - 2 events
\* wait, the ring may lose the first one, or all: what waits is then what it still shows.
VrFrame(evs) ==
  LET b == VrSaved(data_buff, evs)
      q == vr_queue \o Stored(evs)
  IN  /\ suspend_cnt' = 0 /\ suspended' = FALSE /\ vr_release' = 0
      /\ data_buff' = b
      /\ callback_vacuum(evs)
      /\ vr_queue' = IF Len(q) <= VrRing - 2 THEN q ELSE VrWaiting(b)
      /\ vr_spoilt' = (vr_spoilt \/ vr_pc \in {"tick", "release", "counted", "sleep"}
                       \/ send_p_flg \/ VrWaiting(b) # q)
      /\ UNCHANGED <<send_p_flg, vr_pc, vr_load, vr_pkt, vr_held>>

-----------------------------------------------------------------------------
\* main_loop: how long is the key down?
VrTop ==
  /\ vr_pc = "top" /\ ~suspended
  /\ vr_load' = IF not_release_flg THEN vr_release ELSE vr_load
  /\ vr_pc' = IF not_release_flg THEN "tick" ELSE "send"
  /\ UNCHANGED <<data_buff, vrReleaseVars, suspend_cnt, suspended, vr_pkt, vr_queue, vr_held,
                 vr_spoilt>>

\* Mutant of VrTick: the first pass releases.
TickReleases ==
  /\ vr_pc = "tick"
  /\ vr_release' = vr_load + 1 /\ vr_load' = 0
  /\ vr_pc' = "release"
  /\ UNCHANGED <<data_buff, KeySave, not_release_flg, send_p_flg, suspend_cnt, suspended, vr_pkt,
                 vr_queue, vr_held, vr_spoilt>>

\* main_loop: release_cnt++, compared with what it was.
VrTick ==
  /\ vr_pc = "tick"
  /\ vr_release' = vr_load + 1 /\ vr_load' = 0
  /\ vr_pc' = IF vr_load > VR_RELEASE THEN "release" ELSE "send"
  /\ UNCHANGED <<data_buff, KeySave, not_release_flg, send_p_flg, suspend_cnt, suspended, vr_pkt,
                 vr_queue, vr_held, vr_spoilt>>

\* main_loop: its release was lost.
VrRelease ==
  /\ vr_pc = "release"
  /\ send_p_flg' = TRUE /\ not_release_flg' = FALSE
  /\ vr_pc' = "send"
  /\ UNCHANGED <<data_buff, KeySave, vr_release, suspend_cnt, suspended, vr_load, vr_pkt,
                 vr_queue, vr_held, vr_spoilt>>

\* uart_tx_proc: what is sent.
VrPick ==
  /\ vr_pc = "send"
  /\ \/ /\ send_p_flg
        /\ vr_pkt' = VrEvent("released", KeySave)
        /\ send_p_flg' = FALSE /\ vr_pc' = "transmit"
        /\ UNCHANGED <<data_buff, vr_queue>>
     \/ /\ ~send_p_flg /\ data_buff.wptr # data_buff.rptr
        /\ vr_pkt' = data_buff.data[data_buff.rptr]
        /\ data_buff' = [data_buff EXCEPT !.rptr = (data_buff.rptr + 1) % VrRing]
        /\ vr_queue' = Tail(vr_queue)
        /\ vr_pc' = "transmit"
        /\ UNCHANGED send_p_flg
     \/ /\ ~send_p_flg /\ data_buff.wptr = data_buff.rptr
        /\ vr_pc' = "count"
        /\ UNCHANGED <<data_buff, send_p_flg, vr_pkt, vr_queue>>
  /\ UNCHANGED <<KeySave, not_release_flg, vr_release, suspend_cnt, suspended, vr_load, vr_held,
                 vr_spoilt>>

\* uart_tx_proc: 100 ms later it is sent, up to five times, with the interrupt off.  An event
\* the cleaner has not answered by then is given up.
VrTransmit ==
  /\ vr_pc = "transmit"
  /\ vr_held' = IF vr_pkt.kind = "pressed" THEN vr_pkt.key ELSE NoVrKey
  /\ vr_pkt' = NoVrEvent
  /\ vr_pc' = "count"
  /\ UNCHANGED <<data_buff, vrReleaseVars, suspend_cnt, suspended, vr_load, vr_queue, vr_spoilt>>

\* main_loop: how long was nothing heard?
VrCount ==
  /\ vr_pc = "count"
  /\ vr_load' = suspend_cnt
  /\ vr_pc' = "counted"
  /\ UNCHANGED <<data_buff, vrReleaseVars, suspend_cnt, suspended, vr_pkt, vr_queue, vr_held,
                 vr_spoilt>>

\* main_loop: suspend_cnt++, and the test of it.
VrCounted ==
  /\ vr_pc = "counted"
  /\ suspend_cnt' = vr_load + 1 /\ vr_load' = 0
  /\ vr_pc' = IF vr_load + 1 > VR_SUSPEND THEN "sleep" ELSE "top"
  /\ UNCHANGED <<data_buff, vrReleaseVars, suspended, vr_pkt, vr_queue, vr_held, vr_spoilt>>

\* main_loop: suspend, until a frame is heard.
VrSleep ==
  /\ vr_pc = "sleep"
  /\ suspended' = TRUE /\ vr_pc' = "top"
  /\ UNCHANGED <<data_buff, vrReleaseVars, suspend_cnt, vr_load, vr_pkt, vr_queue, vr_held,
                 vr_spoilt>>

VrNext ==
  \/ \E evs \in VrFrames : VrFrame(evs)
  \/ VrTop \/ VrTick \/ VrRelease \/ VrPick \/ VrTransmit \/ VrCount \/ VrCounted \/ VrSleep

VrSpec == VrInit /\ [][VrNext]_vrVars

-----------------------------------------------------------------------------
(* Nothing is lost or reordered in the ring as long as at most VrRing - 2  *)
(* events wait: what the main loop will take out (uart_tx_proc) is what    *)
(* the interrupt has put in (rsv_save_buff), in that order.                *)
VrRingIsQueue == VrWaiting(data_buff) = vr_queue

(* A release the receiver makes up comes after everything that was heard   *)
(* before, and is the release of the key the cleaner holds down: 50 passes *)
(* empty the ring of 16 first.  And the receiver does not suspend over an  *)
(* event that still waits or a key that is still down: both have their     *)
(* time before thresh_suspend.  Not so when the ring has lost events, or a *)
(* frame comes while the main loop is about to release or to suspend, or   *)
(* in the middle of release_cnt++ or suspend_cnt++, which then undoes what *)
(* the frame did to the counter.                                           *)
VrReleaseLast ==
  ~vr_spoilt =>
    /\ send_p_flg => vr_queue = <<>> /\ vr_held \in {NoVrKey, KeySave}
    /\ suspended => vr_queue = <<>> /\ ~send_p_flg /\ ~not_release_flg /\ vr_held = NoVrKey
=============================================================================
