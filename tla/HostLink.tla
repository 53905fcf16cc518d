------------------------------ MODULE HostLink ------------------------------
(***************************************************************************)
(* The dongle's half of the radio link layer (vendor/link_layer/rf_ll.c):  *)
(* the dual-channel hopping plan and the three interrupt handlers.         *)
(*                                                                         *)
(* The one-byte channel mask is modelled as a function on {0, 1}: entry 0  *)
(* is its low nibble, entry 1 its high nibble.  The clock is counted in    *)
(* timer-1 slots.                                                          *)
(***************************************************************************)
EXTENDS Naturals, Integers

CONSTANTS
  HopStep,      \* 6 in the standard build, 4 in the MJ build
  PktMax,       \* frq_hp_chn_pkt_rcvd_max of each hopping mode
  HitDiff,      \* frq_hp_hit_diff_num of each hopping mode
  AlwaysSlots,  \* fre_hp_always_time_us of each mode, in timer-1 slots
  HoldSlots,    \* slots without a hop after a hop (4 in the code)
  KeyboardSupport  \* dongle_support_keyboard_enable

Mode == {"normal", "slow"}

ASSUME LinkAssumption ==
  /\ HopStep \in {4, 6}
  /\ PktMax \in [Mode -> Nat \ {0}]
  /\ HitDiff \in [Mode -> Nat \ {0}]
  /\ \A m \in Mode : HitDiff[m] < PktMax[m]
  /\ AlwaysSlots \in [Mode -> Nat]
  /\ HoldSlots \in Nat
  /\ KeyboardSupport \in BOOLEAN

\* The channels the hop step visits from channel 0.
Channels == IF HopStep = 6 THEN {0, 2, 4, 6, 8, 10, 12, 14} ELSE {0, 4, 8, 12}
Masks == [{0, 1} -> Channels]

LL_NEXT_CHANNEL(c) == (c + HopStep) % 16
Other(s) == 1 - s

\* get_next_channel_with_mask, without the search flag: the entry selected.
NextSel(mask, chn) == IF mask[1] # chn THEN 1 ELSE 0

\* The loop of update_channel_mask: the first channel after `old` that is not
\* the one the mask keeps.
Replacement(old, keep) ==
  LET c == LL_NEXT_CHANNEL(old)
  IN  IF c # keep THEN c ELSE LL_NEXT_CHANNEL(c)

VARIABLES
  chn_mask,                \* the two channels the host alternates between
  host_channel,            \* the channel of the current slot
  ll_chn_sel,              \* which entry of the mask host_channel is
  ll_chn_sel_chg,          \* the entry the last hop replaced
  ll_chn_hold,             \* slots left before the next hop is allowed
  ll_chn_pkt,              \* packets counted on each entry
  device_packet_received,  \* packets of this slot: 0, 1 or 2 (two or more)
  slots_fh,                \* slots since tick_fh was last set
  frq_hp_mode,             \* normal or slow hopping
  pktRcv_flg,              \* device_pktRcv_flg
  tuned                    \* the channel the radio is set to

hostVars == <<chn_mask, host_channel, ll_chn_sel, ll_chn_sel_chg, ll_chn_hold,
              ll_chn_pkt, device_packet_received, slots_fh, frq_hp_mode,
              pktRcv_flg, tuned>>

DebugChannel == 15   \* carries only debug packets: no device listens or sends there
Untuned == 16        \* before the first slot the radio is not in receive mode
Flags == {"MOUSE_LOCAL", "MOUSE_GLOBAL", "KB_LOCAL"}
\* What the flow, pipe and type of a packet make of it: mouse data, keyboard
\* data, or a pairing/link request.
PktKinds == {"mouse", "kb", "pair"}

HostTypeOK ==
  /\ chn_mask \in Masks
  /\ host_channel \in Channels
  /\ ll_chn_sel \in {0, 1}
  /\ ll_chn_sel_chg \in {0, 1}
  /\ ll_chn_hold \in 0..HoldSlots
  /\ ll_chn_pkt \in [{0, 1} -> Nat]
  /\ device_packet_received \in 0..2
  /\ slots_fh \in Nat
  /\ frq_hp_mode \in Mode
  /\ pktRcv_flg \in SUBSET Flags
  /\ tuned \in Channels \cup {DebugChannel, Untuned}

Zero == [s \in {0, 1} |-> 0]

\* Power-on: RAM initialisers, ll_host_init and the optional channel mask of the
\* customer's configuration record.
HostInit ==
  /\ chn_mask \in {m \in Masks : m[0] # m[1]}
  /\ host_channel = 0
  /\ ll_chn_sel = 0
  /\ ll_chn_sel_chg = 0
  /\ ll_chn_hold = 0
  /\ ll_chn_pkt = Zero
  /\ device_packet_received = 0
  /\ slots_fh = 0
  /\ frq_hp_mode = "normal"
  /\ pktRcv_flg = {}
  /\ tuned = Untuned
-----------------------------------------------------------------------------
\* frq_hopping_mode_switch.  `mouse_gone` is MOUSE_PKT_5S_NO_COME.
SwitchedMode(mouse_gone) ==
  IF ~KeyboardSupport THEN frq_hp_mode
  ELSE IF frq_hp_mode = "normal"
       THEN IF "KB_LOCAL" \in pktRcv_flg
               /\ ("MOUSE_GLOBAL" \notin pktRcv_flg \/ mouse_gone)
            THEN "slow" ELSE "normal"
       ELSE IF "MOUSE_LOCAL" \in pktRcv_flg THEN "normal" ELSE "slow"

\* irq_host_timer1 counts a slot in which exactly one packet arrived.
Counted ==
  IF device_packet_received = 1
  THEN [ll_chn_pkt EXCEPT ![ll_chn_sel] = @ + 1] ELSE ll_chn_pkt

\* CHANNEL_HOPPING_ALWAYS: no packet for longer than the mode allows.
Silent(mode) ==
  device_packet_received # 1 /\ slots_fh + 1 > AlwaysSlots[mode]

\* Mutant of SilentVotes: the silence favours the entry hopped last.
SilentVotesSwapped(mode) ==
  [s \in {0, 1} |-> IF s = ll_chn_sel_chg THEN PktMax[mode] ELSE 0]

\* The counts set after a long silence: the entry hopped last loses again.
SilentVotes(mode) ==
  [s \in {0, 1} |-> IF s = ll_chn_sel_chg THEN 0 ELSE PktMax[mode]]

\* The counts update_channel_mask compares: cleared during the hold, set after a
\* long silence.
Votes(mode) ==
  IF ll_chn_hold > 0 THEN Zero
  ELSE IF Silent(mode) THEN SilentVotes(mode) ELSE Counted

\* `hit_th`: the entry of this slot beats the other one, which is replaced.
Hit(votes, sel, mode) == votes[sel] - votes[Other(sel)] > HitDiff[mode]

\* update_channel_mask, for the slot of entry sel.
UpdateChannelMask(sel, mode) ==
  LET votes == Votes(mode)
      hit == Hit(votes, sel, mode)
      bad == Other(sel)
  IN  /\ chn_mask' =
           IF hit THEN [chn_mask EXCEPT
                          ![bad] = Replacement(chn_mask[bad], chn_mask[sel])]
           ELSE chn_mask
      /\ ll_chn_sel_chg' = IF hit THEN bad ELSE ll_chn_sel_chg
      /\ ll_chn_hold' = IF hit THEN HoldSlots
                        ELSE IF ll_chn_hold > 0 THEN ll_chn_hold - 1 ELSE 0
      /\ ll_chn_pkt' = IF hit \/ votes[sel] >= PktMax[mode] THEN Zero ELSE votes
      /\ slots_fh' = IF hit \/ device_packet_received = 1 THEN 0 ELSE slots_fh + 1

\* The slot timer.  Half a second after the last transmission it sends a debug
\* packet on a channel of its own instead of listening.
irq_host_timer1 ==
  LET sel == NextSel(chn_mask, host_channel)
  IN  \E mouse_gone \in IF "MOUSE_LOCAL" \in pktRcv_flg THEN {FALSE} ELSE BOOLEAN :
        LET mode == SwitchedMode(mouse_gone)
        IN  /\ frq_hp_mode' = mode
            /\ pktRcv_flg' = IF KeyboardSupport
                             THEN pktRcv_flg \ {"MOUSE_LOCAL", "KB_LOCAL"}
                             ELSE pktRcv_flg
            /\ ll_chn_sel' = sel
            /\ host_channel' = chn_mask[sel]
            /\ UpdateChannelMask(sel, mode)
            /\ device_packet_received' = 0
            /\ tuned' \in {chn_mask[sel], DebugChannel}

\* A valid packet on the channel the radio listens to: rf_rx_response marks its
\* kind, the acknowledgement carries chn_mask, the packet is counted.
irq_host_rx(chn, kind) ==
  /\ tuned = chn
  /\ device_packet_received' =
       IF device_packet_received = 2 THEN 2 ELSE device_packet_received + 1
  /\ pktRcv_flg' = pktRcv_flg \cup
       (CASE kind = "mouse" -> {"MOUSE_LOCAL", "MOUSE_GLOBAL"}
          [] kind = "kb" -> {"KB_LOCAL"}
          [] OTHER -> {})
  /\ UNCHANGED <<chn_mask, host_channel, ll_chn_sel, ll_chn_sel_chg, ll_chn_hold,
                 ll_chn_pkt, slots_fh, frq_hp_mode, tuned>>

\* End of a transmission: back to listening.  (After an acknowledgement the radio
\* is on host_channel already and nothing changes.)
irq_host_tx ==
  /\ tuned = DebugChannel
  /\ tuned' = host_channel
  /\ UNCHANGED <<chn_mask, host_channel, ll_chn_sel, ll_chn_sel_chg, ll_chn_hold,
                 ll_chn_pkt, device_packet_received, slots_fh, frq_hp_mode,
                 pktRcv_flg>>
=============================================================================
