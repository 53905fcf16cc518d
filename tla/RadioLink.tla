------------------------------ MODULE RadioLink -----------------------------
(***************************************************************************)
(* One pen (or mouse) and its dongle over a lossy radio.  The device half  *)
(* is irq_device_rx, device_send_packet and ll_add_clock_time of           *)
(* vendor/link_layer/rf_ll.c, in the build where an acknowledgement sets   *)
(* device_sync; the host half is HostLink.                                 *)
(*                                                                         *)
(* The two clocks are not synchronised: the dongle's slot timer may fire   *)
(* between any two steps of the device.  A packet, and the answer to it,   *)
(* may each be lost.  Answers are modelled in flight, so that the dongle   *)
(* can change its channels between sending one and the device's receiving  *)
(* it; a call of device_send_packet (5 ms at most) sees at most one 8 ms   *)
(* slot boundary after its packet was heard.                               *)
(***************************************************************************)
EXTENDS HostLink

CONSTANTS
  Retry,      \* the retry argument of device_send_packet
  SyncTh,     \* LL_CHANNEL_SYNC_TH
  SearchTh,   \* LL_CHANNEL_SEARCH_TH
  Kinds,      \* the kinds of packet the device sends
  Search,     \* LL_CHANNEL_SEARCH_FLAG: the device knows no channel mask
  NoAck       \* no answer is in flight

ASSUME DeviceAssumption ==
  /\ Retry \in Nat
  /\ SyncTh \in Nat \ {0} /\ SearchTh \in Nat /\ SyncTh < SearchTh
  /\ Kinds \in SUBSET PktKinds /\ Kinds # {}
  /\ Search \notin Masks
  /\ NoAck \notin Masks

VARIABLES
  device_channel,
  device_sync,          \* BOOLEAN
  device_ack_received,  \* BOOLEAN
  ll_chn_mask,          \* the mask of the last acknowledgement, or Search
  ack_miss_no,          \* misses in a row, counted up to SearchTh
  attempt,              \* i of the loop of device_send_packet
  step,                 \* its increment
  pc,                   \* where the device's main loop is
  ack_on_air,           \* mask carried by the answer in flight, or NoAck
  slot_passed,          \* the dongle's timer fired since that answer was sent
  host_restarted        \* the dongle restarted since the device last synced

deviceVars == <<device_channel, device_sync, device_ack_received, ll_chn_mask,
                ack_miss_no, attempt, step, pc>>
airVars == <<ack_on_air, slot_passed>>
vars == <<hostVars, deviceVars, airVars, host_restarted>>

TypeOK ==
  /\ HostTypeOK
  /\ device_channel \in Channels
  /\ device_sync \in BOOLEAN
  /\ device_ack_received \in BOOLEAN
  /\ ll_chn_mask \in Masks \cup {Search}
  /\ ack_miss_no \in 0..SearchTh
  /\ attempt \in Nat
  /\ step \in Nat
  /\ pc \in {"idle", "send", "wait", "missed", "slot_end"}
  /\ ack_on_air \in Masks \cup {NoAck}
  /\ slot_passed \in BOOLEAN
  /\ host_restarted \in BOOLEAN

Init ==
  /\ HostInit
  /\ device_channel = 0
  /\ device_sync = FALSE
  /\ device_ack_received = FALSE
  /\ ll_chn_mask = Search
  /\ ack_miss_no = 0
  /\ attempt = 0
  /\ step = 1
  /\ pc = "idle"
  /\ ack_on_air = NoAck
  /\ slot_passed = FALSE
  /\ host_restarted = FALSE

-----------------------------------------------------------------------------
\* get_next_channel_with_mask on the device, whose mask may carry the search flag.
NextChannel(mask, chn) ==
  IF mask = Search THEN LL_NEXT_CHANNEL(chn) ELSE mask[NextSel(mask, chn)]

\* Mutant of MissCount: a count that never passes the sync limit.
MissCapLow == IF ack_miss_no < SyncTh THEN ack_miss_no + 1 ELSE SyncTh

\* ack_miss_no saturates at LL_CHANNEL_SEARCH_TH.
MissCount == IF ack_miss_no < SearchTh THEN ack_miss_no + 1 ELSE SearchTh

\* device_send_packet is entered: in sync the radio retries by itself on one
\* channel (one pass of the loop), else every pass is one transmission.
BeginSend ==
  /\ pc = "idle"
  /\ device_ack_received' = FALSE
  /\ attempt' = 0
  /\ step' = IF device_sync THEN Retry + 1 ELSE 1
  /\ pc' = "send"
  /\ UNCHANGED <<hostVars, device_channel, device_sync, ll_chn_mask, ack_miss_no,
                 airVars, host_restarted>>

\* A main-loop pass that has nothing to send.
SkipSend ==
  /\ pc = "idle"
  /\ pc' = "slot_end"
  /\ UNCHANGED <<hostVars, device_channel, device_sync, device_ack_received,
                 ll_chn_mask, ack_miss_no, attempt, step, airVars, host_restarted>>

\* A transmission the dongle does not hear.
TransmitUnheard ==
  /\ pc = "send"
  /\ pc' = "wait"
  /\ UNCHANGED <<hostVars, device_channel, device_sync, device_ack_received,
                 ll_chn_mask, ack_miss_no, attempt, step, airVars, host_restarted>>

\* A transmission, or one of the radio's own retransmissions, the dongle hears
\* and answers; the answer carries the mask of that moment.
TransmitHeard ==
  /\ \/ pc = "send"
     \/ pc = "wait" /\ step > 1 /\ ~device_ack_received
  /\ ack_on_air = NoAck
  /\ \E kind \in Kinds : irq_host_rx(device_channel, kind)
  /\ ack_on_air' = chn_mask
  /\ slot_passed' = FALSE
  /\ pc' = "wait"
  /\ UNCHANGED <<device_channel, device_sync, device_ack_received, ll_chn_mask,
                 ack_miss_no, attempt, step, host_restarted>>

LoseAck ==
  /\ ack_on_air # NoAck
  /\ ack_on_air' = NoAck
  /\ slot_passed' = FALSE
  /\ UNCHANGED <<hostVars, deviceVars, host_restarted>>

\* irq_device_rx, for an answer rf_rx_process accepts, at any moment until the pen
\* sleeps.  One with the tick of the previous answer is ignored, which is the same
\* as losing it.
irq_device_rx ==
  /\ ack_on_air # NoAck
  /\ device_sync' = TRUE
  /\ device_ack_received' = TRUE
  /\ ll_chn_mask' = ack_on_air
  /\ ack_on_air' = NoAck
  /\ slot_passed' = FALSE
  /\ host_restarted' = FALSE
  /\ UNCHANGED <<hostVars, device_channel, ack_miss_no, attempt, step, pc>>

\* The loop of device_send_packet leaves its wait with the acknowledgement ...
SendAcked ==
  /\ pc = "wait"
  /\ device_ack_received
  /\ ack_miss_no' = 0
  /\ pc' = "slot_end"
  /\ UNCHANGED <<hostVars, device_channel, device_sync, device_ack_received,
                 ll_chn_mask, attempt, step, airVars, host_restarted>>

\* ... or, on a timeout, without it.  An answer may still come in.
SendTimeout ==
  /\ pc = "wait"
  /\ ~device_ack_received
  /\ pc' = "missed"
  /\ UNCHANGED <<hostVars, device_channel, device_sync, device_ack_received,
                 ll_chn_mask, ack_miss_no, attempt, step, airVars, host_restarted>>

\* After a timeout it counts the miss, gives up the sync or the mask, moves to
\* the next channel when not in sync, and tries again while i <= retry.
SendMissed ==
  /\ pc = "missed"
  /\ LET miss == MissCount
         sync == device_sync /\ miss < SyncTh
         mask == IF miss >= SearchTh THEN Search ELSE ll_chn_mask
     IN  /\ ack_miss_no' = miss
         /\ device_sync' = sync
         /\ ll_chn_mask' = mask
         /\ device_channel' = IF sync THEN device_channel
                              ELSE NextChannel(mask, device_channel)
  /\ attempt' = attempt + step
  /\ pc' = IF attempt + step <= Retry THEN "send" ELSE "slot_end"
  /\ UNCHANGED <<hostVars, device_ack_received, step, airVars, host_restarted>>

\* The end of a main-loop pass: ll_add_clock_time(8000) advances one slot, then
\* the pen sleeps with its radio off.
ll_add_clock_time ==
  /\ pc = "slot_end"
  /\ device_channel' = NextChannel(ll_chn_mask, device_channel)
  /\ pc' = "idle"
  /\ ack_on_air' = NoAck
  /\ slot_passed' = FALSE
  /\ UNCHANGED <<hostVars, device_sync, device_ack_received, ll_chn_mask,
                 ack_miss_no, attempt, step, host_restarted>>

\* mouse_power_saving_process and device_sleep_wakeup clear device_sync when the
\* pen sleeps for longer than a slot or is woken early.
SleepLosesSync ==
  /\ pc = "idle"
  /\ device_sync
  /\ device_sync' = FALSE
  /\ UNCHANGED <<hostVars, device_channel, device_ack_received, ll_chn_mask,
                 ack_miss_no, attempt, step, pc, airVars, host_restarted>>

\* The dongle's slot timer.
HostTimer ==
  /\ ack_on_air # NoAck => ~slot_passed
  /\ slot_passed' = (ack_on_air # NoAck)
  /\ irq_host_timer1
  /\ UNCHANGED <<deviceVars, ack_on_air, host_restarted>>

HostTx ==
  /\ irq_host_tx
  /\ UNCHANGED <<deviceVars, airVars, host_restarted>>

\* The dongle is unplugged and plugged in again.
HostRestart ==
  /\ chn_mask' \in {m \in Masks : m[0] # m[1]}
  /\ host_channel' = 0
  /\ ll_chn_sel' = 0
  /\ ll_chn_sel_chg' = 0
  /\ ll_chn_hold' = 0
  /\ ll_chn_pkt' = Zero
  /\ device_packet_received' = 0
  /\ slots_fh' = 0
  /\ frq_hp_mode' = "normal"
  /\ pktRcv_flg' = {}
  /\ tuned' = Untuned
  /\ ack_on_air' = NoAck
  /\ slot_passed' = FALSE
  /\ host_restarted' = TRUE
  /\ UNCHANGED deviceVars

DeviceStep ==
  \/ BeginSend \/ SkipSend \/ TransmitUnheard \/ TransmitHeard \/ irq_device_rx
  \/ SendAcked \/ SendTimeout \/ SendMissed \/ ll_add_clock_time
  \/ SleepLosesSync

Next == DeviceStep \/ LoseAck \/ HostTimer \/ HostTx \/ HostRestart

Spec == Init /\ [][Next]_vars

-----------------------------------------------------------------------------
On(c, mask) == c = mask[0] \/ c = mask[1]

\* However many acknowledgements are lost and however often the dongle hops
\* meanwhile, a pen that still trusts a channel mask has a channel in common with
\* the dongle, so it can be heard again without searching: in a silence
\* update_channel_mask replaces the same entry over and over.
SharedChannel ==
  ll_chn_mask # Search /\ ~host_restarted =>
    \E s \in {0, 1} : On(chn_mask[s], ll_chn_mask)

\* A change of the mask spares the channel the dongle goes to in that same step,
\* brings in a channel the mask did not have, and never comes while the hold that
\* follows the last change is running.
HopDiscipline ==
  [][chn_mask' # chn_mask /\ tuned' # Untuned =>
       /\ ll_chn_hold = 0
       /\ chn_mask'[ll_chn_sel'] = chn_mask[ll_chn_sel']
       /\ ~On(chn_mask'[1 - ll_chn_sel'], chn_mask)]_vars

\* From the first slot on, every slot is on the other channel than the slot
\* before, whatever hops happen: the dongle is never stuck on one channel.
Alternates ==
  [][irq_host_timer1 /\ tuned # Untuned =>
       /\ ll_chn_sel' = 1 - ll_chn_sel
       /\ host_channel' # host_channel]_vars

\* The main loop of the pen keeps running, and has something to send again and
\* again; its waits end.
FairSpec ==
  /\ Spec
  /\ SF_vars(BeginSend)
  /\ WF_vars(TransmitUnheard \/ TransmitHeard)
  /\ WF_vars(irq_device_rx \/ LoseAck)
  /\ WF_vars(SendAcked \/ SendTimeout)
  /\ WF_vars(SendMissed)
  /\ WF_vars(ll_add_clock_time)

\* A pen whose packets are no longer answered ends up searching every channel,
\* even if it keeps losing and restoring its sync on the way.
SearchesWhenDeaf ==
  []<>(device_ack_received) \/ <>[](ll_chn_mask = Search)
=============================================================================
