--------------------------- MODULE RadioLinkProofs --------------------------
(***************************************************************************)
(* Proofs about RadioLink, for every hop step, threshold, hold time, retry *)
(* limit and miss limit the assumptions of HostLink and RadioLink allow.   *)
(***************************************************************************)
EXTENDS RadioLink, TLAPS

\* The entry that the next hop spares unless the other one gets packets.
Kept == 1 - ll_chn_sel_chg

\* Packets on the entry hopped last, those of the current slot included (several
\* packets of one slot count once at most).
Strays == ll_chn_pkt[ll_chn_sel_chg]
          + (IF ll_chn_sel = ll_chn_sel_chg /\ device_packet_received > 0 THEN 1 ELSE 0)

\* The two entries differ, and the radio is on the one selected.
TunedInv ==
  /\ chn_mask[0] # chn_mask[1]
  /\ tuned # Untuned => host_channel = chn_mask[ll_chn_sel]
  /\ tuned \in Channels => tuned = host_channel

\* An answer in flight carries the mask, or the mask of one slot ago.
AckInv ==
  ack_on_air # NoAck =>
    /\ pc # "idle"
    /\ ~slot_passed => chn_mask = ack_on_air
    /\ slot_passed =>
         /\ On(chn_mask[Kept], ack_on_air)
         /\ ~On(chn_mask[ll_chn_sel_chg], ack_on_air) =>
              ll_chn_pkt[ll_chn_sel_chg] = 0 /\ device_packet_received = 0

\* A device with a mask sends on one of its channels, but for the rest of the
\* call of device_send_packet in which a late acknowledgement gave it the mask.
DevInv ==
  ll_chn_mask # Search =>
    \/ On(device_channel, ll_chn_mask)
    \/ device_ack_received /\ pc \in {"send", "wait", "missed"}
    \/ pc = "slot_end"

\* The entry a hop spares is one of the device's; the other one is too, or has
\* fewer packets than a hop in its favour takes.
NearInv ==
  ~host_restarted /\ ll_chn_mask # Search =>
    /\ On(chn_mask[Kept], ll_chn_mask)
    /\ ~On(chn_mask[ll_chn_sel_chg], ll_chn_mask) =>
         /\ Strays <= 1
         /\ pc \in {"send", "missed"} /\ ~On(device_channel, ll_chn_mask) => Strays = 0

IInv == TypeOK /\ TunedInv /\ AckInv /\ DevInv /\ NearInv

-----------------------------------------------------------------------------
\* The two entries of a mask.
LEMMA OtherEntry ==
  ASSUME NEW s \in {0, 1}
  PROVE  1 - s \in {0, 1} /\ 1 - (1 - s) = s
<1>1. CASE s = 0
  BY <1>1
<1>2. CASE s = 1
  BY <1>2
<1>3. QED
  BY <1>1, <1>2

\* A hop stays on the channels of the hop step and leaves the channel it is on.
LEMMA NextChannelFacts ==
  ASSUME NEW c \in Channels
  PROVE  /\ LL_NEXT_CHANNEL(c) \in Channels /\ LL_NEXT_CHANNEL(c) # c
         /\ LL_NEXT_CHANNEL(LL_NEXT_CHANNEL(c)) # c
<1>1. CASE HopStep = 6
  BY <1>1 DEF Channels, LL_NEXT_CHANNEL
<1>2. CASE HopStep = 4
  BY <1>2 DEF Channels, LL_NEXT_CHANNEL
<1>3. QED
  BY <1>1, <1>2, LinkAssumption DEF LinkAssumption

\* update_channel_mask never makes the two entries equal, and always changes one.
LEMMA ReplacementFacts ==
  ASSUME NEW old \in Channels, NEW keep \in Channels
  PROVE  Replacement(old, keep) \in Channels \ {old, keep}
<1>1. LL_NEXT_CHANNEL(old) \in Channels \ {old}
      /\ LL_NEXT_CHANNEL(LL_NEXT_CHANNEL(old)) # old
  BY NextChannelFacts
<1>2. LL_NEXT_CHANNEL(LL_NEXT_CHANNEL(old)) \in Channels
      /\ LL_NEXT_CHANNEL(LL_NEXT_CHANNEL(old)) # LL_NEXT_CHANNEL(old)
  BY <1>1, NextChannelFacts
<1>3. QED
  BY <1>1, <1>2 DEF Replacement

\* The counts update_channel_mask compares are counts of packets.
LEMMA VotesType ==
  ASSUME HostTypeOK, NEW m \in Mode
  PROVE  Votes(m) \in [{0, 1} -> Nat]
<1>1. Zero \in [{0, 1} -> Nat]
  BY DEF Zero
<1>2. Counted \in [{0, 1} -> Nat]
  BY DEF HostTypeOK, Counted
<1>3. [s \in {0, 1} |-> IF s = ll_chn_sel_chg THEN 0 ELSE PktMax[m]] \in [{0, 1} -> Nat]
  BY LinkAssumption DEF LinkAssumption
<1>4. QED
  BY <1>1, <1>2, <1>3 DEF Votes, SilentVotes

\* Only strays can make the entry hopped last win.
LEMMA StraysBound ==
  ASSUME HostTypeOK, NEW m \in Mode
  PROVE  Votes(m)[ll_chn_sel_chg] <= Strays /\ Strays \in Nat
<1>1. Counted[ll_chn_sel_chg] <= Strays /\ Strays \in Nat
  BY DEF HostTypeOK, Counted, Strays
<1>2. Zero[ll_chn_sel_chg] = 0
  BY DEF HostTypeOK, Zero
<1>3. [s \in {0, 1} |-> IF s = ll_chn_sel_chg THEN 0 ELSE PktMax[m]][ll_chn_sel_chg] = 0
  BY DEF HostTypeOK
<1>4. QED
  BY <1>1, <1>2, <1>3 DEF Votes, SilentVotes

\* What one call of update_channel_mask does: nothing to the mask, or one entry is
\* replaced, the other is the one of the slot, and the counts restart.
LEMMA UpdateFacts ==
  ASSUME HostTypeOK, NEW m \in Mode, NEW sel \in {0, 1},
         chn_mask[0] # chn_mask[1], UpdateChannelMask(sel, m)
  PROVE  /\ chn_mask' \in Masks
         /\ chn_mask'[0] # chn_mask'[1]
         /\ chn_mask'[sel] = chn_mask[sel]
         /\ ll_chn_sel_chg' \in {0, 1}
         /\ ll_chn_hold' \in 0..HoldSlots
         /\ ll_chn_pkt' \in [{0, 1} -> Nat]
         /\ slots_fh' \in Nat
         /\ \/ /\ chn_mask' = chn_mask
               /\ ll_chn_sel_chg' = ll_chn_sel_chg
               /\ ll_chn_pkt'[ll_chn_sel_chg] <= Strays
            \/ /\ ll_chn_sel_chg' = 1 - sel
               /\ ll_chn_pkt' = Zero
               /\ ll_chn_hold = 0
               /\ ~On(chn_mask'[1 - sel], chn_mask)
               /\ ll_chn_sel_chg' # ll_chn_sel_chg => Strays >= 2
<1> DEFINE votes == Votes(m)
           hit == Hit(votes, sel, m)
<1>1. votes \in [{0, 1} -> Nat]
  BY VotesType
<1>2. votes[ll_chn_sel_chg] <= Strays /\ Strays \in Nat
  BY StraysBound
<1>3. Zero \in [{0, 1} -> Nat] /\ Zero[0] = 0 /\ Zero[1] = 0
  BY DEF Zero
<1>4. /\ ll_chn_hold' \in 0..HoldSlots
      /\ slots_fh' \in Nat
  BY LinkAssumption DEF UpdateChannelMask, HostTypeOK, LinkAssumption
<1>5. CASE hit
  <2>1. /\ chn_mask' = [chn_mask EXCEPT ![1 - sel] = Replacement(chn_mask[1 - sel], chn_mask[sel])]
        /\ ll_chn_sel_chg' = 1 - sel
        /\ ll_chn_pkt' = Zero
    BY <1>5 DEF UpdateChannelMask, Other
  <2>2. Replacement(chn_mask[1 - sel], chn_mask[sel])
          \in Channels \ {chn_mask[sel], chn_mask[1 - sel]}
    BY ReplacementFacts DEF HostTypeOK, Masks
  <2>3. /\ chn_mask' \in Masks
        /\ chn_mask'[0] # chn_mask'[1]
        /\ chn_mask'[sel] = chn_mask[sel]
        /\ ~On(chn_mask'[1 - sel], chn_mask)
    BY <2>1, <2>2 DEF HostTypeOK, Masks, On
  <2>4. HitDiff[m] \in Nat \ {0}
    BY LinkAssumption DEF LinkAssumption
  <2>5. votes[sel] >= votes[1 - sel] + 2 /\ votes[sel] >= 2
    BY <1>1, <1>5, <2>4 DEF Hit, Other
  <2>6. ll_chn_hold = 0
    <3>1. votes # Zero
      BY <1>3, <2>5
    <3>2. QED
      BY <3>1 DEF Votes, SilentVotes, HostTypeOK
  <2>7. 1 - sel # ll_chn_sel_chg => Strays >= 2
    BY <1>1, <1>2, <2>5 DEF HostTypeOK
  <2>8. QED
    BY <1>3, <1>4, <2>1, <2>3, <2>6, <2>7
<1>6. CASE ~hit
  <2>1. chn_mask' = chn_mask /\ ll_chn_sel_chg' = ll_chn_sel_chg
    BY <1>6 DEF UpdateChannelMask
  <2>2. ll_chn_pkt' = Zero \/ ll_chn_pkt' = votes
    BY <1>6 DEF UpdateChannelMask
  <2>3. QED
    BY <1>1, <1>2, <1>3, <1>4, <2>1, <2>2 DEF HostTypeOK
<1>7. QED
  BY <1>5, <1>6

-----------------------------------------------------------------------------
\* One slot timer interrupt, in a state where TypeOK and TunedInv hold: the slot
\* goes to the other entry, and the mask changes as UpdateFacts says.
LEMMA TimerFacts ==
  ASSUME HostTypeOK, TunedInv, irq_host_timer1
  PROVE  /\ HostTypeOK'
         /\ TunedInv'
         /\ device_packet_received' = 0
         /\ tuned' # Untuned
         /\ tuned # Untuned => ll_chn_sel' = 1 - ll_chn_sel
                               /\ host_channel' # host_channel
         /\ \/ /\ chn_mask' = chn_mask
               /\ ll_chn_sel_chg' = ll_chn_sel_chg
               /\ ll_chn_pkt'[ll_chn_sel_chg] <= Strays
            \/ /\ ll_chn_sel_chg' = 1 - ll_chn_sel'
               /\ chn_mask'[ll_chn_sel'] = chn_mask[ll_chn_sel']
               /\ ~On(chn_mask'[1 - ll_chn_sel'], chn_mask)
               /\ ll_chn_pkt' = Zero
               /\ ll_chn_hold = 0
               /\ ll_chn_sel_chg' # ll_chn_sel_chg => Strays >= 2
<1> DEFINE sel == NextSel(chn_mask, host_channel)
<1>1. PICK gone \in BOOLEAN :
        /\ frq_hp_mode' = SwitchedMode(gone)
        /\ UpdateChannelMask(sel, SwitchedMode(gone))
  BY DEF irq_host_timer1
<1>2. /\ ll_chn_sel' = sel
      /\ host_channel' = chn_mask[sel]
      /\ device_packet_received' = 0
      /\ tuned' \in {chn_mask[sel], DebugChannel}
      /\ pktRcv_flg' \in SUBSET pktRcv_flg
  BY DEF irq_host_timer1
<1>3. sel \in {0, 1}
  BY DEF NextSel
<1>4. SwitchedMode(gone) \in Mode
  BY DEF SwitchedMode, HostTypeOK, Mode
<1>5. chn_mask[0] # chn_mask[1]
  BY DEF TunedInv
<1> HIDE DEF sel
<1>6. /\ chn_mask' \in Masks
      /\ chn_mask'[0] # chn_mask'[1]
      /\ chn_mask'[sel] = chn_mask[sel]
      /\ ll_chn_sel_chg' \in {0, 1}
      /\ ll_chn_hold' \in 0..HoldSlots
      /\ ll_chn_pkt' \in [{0, 1} -> Nat]
      /\ slots_fh' \in Nat
      /\ \/ /\ chn_mask' = chn_mask
            /\ ll_chn_sel_chg' = ll_chn_sel_chg
            /\ ll_chn_pkt'[ll_chn_sel_chg] <= Strays
         \/ /\ ll_chn_sel_chg' = 1 - sel
            /\ ll_chn_pkt' = Zero
            /\ ll_chn_hold = 0
            /\ ~On(chn_mask'[1 - sel], chn_mask)
            /\ ll_chn_sel_chg' # ll_chn_sel_chg => Strays >= 2
  BY <1>1, <1>3, <1>4, <1>5, UpdateFacts
<1>7. chn_mask[sel] \in Channels
  BY <1>3 DEF HostTypeOK, Masks
<1>8. HostTypeOK'
  BY <1>1, <1>2, <1>3, <1>4, <1>6, <1>7 DEF HostTypeOK
<1>9. DebugChannel # Untuned /\ DebugChannel \notin Channels /\ Untuned \notin Channels
  BY DEF DebugChannel, Untuned, Channels
<1>10. TunedInv'
  BY <1>2, <1>6, <1>9 DEF TunedInv
<1>11. tuned' # Untuned
  BY <1>2, <1>7, <1>9
<1>12. tuned # Untuned => sel = 1 - ll_chn_sel
  BY <1>3, <1>5 DEF sel, NextSel, TunedInv, HostTypeOK
<1>13. tuned # Untuned => host_channel' # host_channel
  BY <1>2, <1>5, <1>12 DEF TunedInv, HostTypeOK
<1>14. QED
  BY <1>2, <1>6, <1>8, <1>10, <1>11, <1>12, <1>13

\* The next channel of a device that has a mask is one of the mask's.
LEMMA NextChannelOn ==
  ASSUME NEW mask \in Masks \cup {Search}, NEW chn \in Channels
  PROVE  /\ NextChannel(mask, chn) \in Channels
         /\ mask # Search => On(NextChannel(mask, chn), mask)
<1>1. CASE mask = Search
  BY <1>1, NextChannelFacts DEF NextChannel
<1>2. CASE mask # Search
  <2>1. mask \in Masks /\ NextSel(mask, chn) \in {0, 1}
    BY <1>2 DEF NextSel
  <2>2. QED
    BY <1>2, <2>1 DEF NextChannel, On, Masks
<1>3. QED
  BY <1>1, <1>2

-----------------------------------------------------------------------------
\* At power-on the device searches and nothing is in flight.
LEMMA InitIInv == Init => IInv
<1> SUFFICES ASSUME Init PROVE IInv
  OBVIOUS
<1>1. 0 \in Channels /\ Untuned \notin Channels
  BY DEF Channels, Untuned
<1>2. HostTypeOK
  BY <1>1, LinkAssumption
     DEF Init, HostInit, HostTypeOK, LinkAssumption, Zero, Mode, Flags
<1>3. TypeOK
  <2>1. ack_miss_no \in 0..SearchTh /\ attempt \in Nat /\ step \in Nat
    BY DeviceAssumption DEF Init, DeviceAssumption
  <2>2. /\ device_sync \in BOOLEAN /\ device_ack_received \in BOOLEAN
        /\ slot_passed \in BOOLEAN /\ host_restarted \in BOOLEAN
    BY DEF Init
  <2>3. QED
    BY <1>1, <1>2, <2>1, <2>2 DEF Init, TypeOK
<1>4. TunedInv /\ AckInv /\ DevInv /\ NearInv
  BY <1>1 DEF Init, HostInit, TunedInv, AckInv, DevInv, NearInv
<1>5. QED
  BY <1>3, <1>4 DEF IInv

\* The dongle's slot timer preserves the invariant: only two packets on the entry
\* hopped last could make the next hop replace the other entry.
LEMMA HostTimerIInv == IInv /\ HostTimer => IInv'
<1> SUFFICES ASSUME IInv, HostTimer PROVE IInv'
  OBVIOUS
<1>1. /\ TypeOK /\ HostTypeOK /\ TunedInv /\ AckInv /\ DevInv /\ NearInv
      /\ irq_host_timer1
      /\ UNCHANGED <<deviceVars, ack_on_air, host_restarted>>
      /\ slot_passed' = (ack_on_air # NoAck)
      /\ ack_on_air # NoAck => ~slot_passed
  BY DEF IInv, TypeOK, HostTimer
<1>2. /\ HostTypeOK'
      /\ TunedInv'
      /\ device_packet_received' = 0
      /\ \/ /\ chn_mask' = chn_mask
            /\ ll_chn_sel_chg' = ll_chn_sel_chg
            /\ ll_chn_pkt'[ll_chn_sel_chg] <= Strays
         \/ /\ ll_chn_sel_chg' = 1 - ll_chn_sel'
            /\ chn_mask'[ll_chn_sel'] = chn_mask[ll_chn_sel']
            /\ ll_chn_pkt' = Zero
            /\ ll_chn_sel_chg' # ll_chn_sel_chg => Strays >= 2
  BY <1>1, TimerFacts
<1>3. /\ ll_chn_sel' \in {0, 1} /\ ll_chn_sel_chg \in {0, 1} /\ ll_chn_sel_chg' \in {0, 1}
      /\ ll_chn_pkt' \in [{0, 1} -> Nat]
      /\ Strays \in Nat
      /\ Zero[0] = 0 /\ Zero[1] = 0
      /\ Strays' = ll_chn_pkt'[ll_chn_sel_chg']
  BY <1>1, <1>2 DEF HostTypeOK, Strays, Zero
<1>4. TypeOK'
  BY <1>1, <1>2 DEF TypeOK, deviceVars
<1>5. AckInv'
  <2>1. CASE chn_mask' = chn_mask /\ ll_chn_sel_chg' = ll_chn_sel_chg
    BY <1>1, <1>3, <2>1 DEF AckInv, On, Kept, deviceVars
  <2>2. CASE /\ ll_chn_sel_chg' = 1 - ll_chn_sel'
             /\ chn_mask'[ll_chn_sel'] = chn_mask[ll_chn_sel']
             /\ ll_chn_pkt' = Zero
    <3> SUFFICES ASSUME ack_on_air # NoAck
                 PROVE  /\ pc # "idle"
                        /\ On(chn_mask'[1 - ll_chn_sel_chg'], ack_on_air)
                        /\ ll_chn_pkt'[ll_chn_sel_chg'] = 0
      BY <1>1, <1>2 DEF AckInv, Kept, On, deviceVars
    <3>1. pc # "idle" /\ chn_mask = ack_on_air
      BY <1>1 DEF AckInv
    <3>2. 1 - ll_chn_sel_chg' = ll_chn_sel'
      BY <1>3, <2>2, OtherEntry
    <3>3. QED
      BY <1>3, <2>2, <3>1, <3>2 DEF On
  <2>3. QED
    BY <1>2, <2>1, <2>2
<1>6. DevInv'
  BY <1>1 DEF DevInv, deviceVars, On
<1>7. NearInv'
  <2> SUFFICES ASSUME ~host_restarted, ll_chn_mask # Search PROVE NearInv'
    BY <1>1 DEF NearInv, deviceVars
  <2>1. /\ On(chn_mask[Kept], ll_chn_mask)
        /\ ~On(chn_mask[ll_chn_sel_chg], ll_chn_mask) =>
             /\ Strays <= 1
             /\ pc \in {"send", "missed"} /\ ~On(device_channel, ll_chn_mask) => Strays = 0
    BY <1>1 DEF NearInv
  <2>2. CASE /\ chn_mask' = chn_mask
             /\ ll_chn_sel_chg' = ll_chn_sel_chg
             /\ ll_chn_pkt'[ll_chn_sel_chg] <= Strays
    <3>1. Strays' <= Strays /\ Strays' \in Nat
      BY <1>3, <2>2
    <3>2. QED
      BY <1>1, <1>3, <2>1, <2>2, <3>1 DEF NearInv, Kept, On, deviceVars
  <2>3. CASE /\ ll_chn_sel_chg' = 1 - ll_chn_sel'
             /\ chn_mask'[ll_chn_sel'] = chn_mask[ll_chn_sel']
             /\ ll_chn_pkt' = Zero
             /\ ll_chn_sel_chg' # ll_chn_sel_chg => Strays >= 2
    <3>1. Strays' = 0
      BY <1>3, <2>3
    <3>2. On(chn_mask'[1 - ll_chn_sel_chg'], ll_chn_mask)
      BY <1>3, <2>1, <2>3 DEF Kept
    <3>3. QED
      BY <1>1, <3>1, <3>2 DEF NearInv, Kept, On, deviceVars
  <2>4. QED
    BY <1>2, <2>2, <2>3
<1>8. QED
  BY <1>2, <1>4, <1>5, <1>6, <1>7 DEF IInv

\* A packet the dongle hears cannot be the second stray: a device with a mask
\* sends on its channels, but for a call that ends with its next transmission.
LEMMA TransmitHeardIInv == IInv /\ TransmitHeard => IInv'
<1> SUFFICES ASSUME IInv, TransmitHeard PROVE IInv'
  OBVIOUS
<1>1. /\ TypeOK /\ HostTypeOK /\ TunedInv /\ AckInv /\ DevInv /\ NearInv
      /\ pc = "send" \/ (pc = "wait" /\ ~device_ack_received)
      /\ ack_on_air = NoAck
      /\ ack_on_air' = chn_mask
      /\ slot_passed' = FALSE
      /\ pc' = "wait"
      /\ UNCHANGED <<device_channel, device_sync, device_ack_received, ll_chn_mask,
                     ack_miss_no, attempt, step, host_restarted>>
  BY DEF IInv, TypeOK, TransmitHeard
<1>2. PICK kind \in Kinds : irq_host_rx(device_channel, kind)
  BY DEF TransmitHeard
<1>3. /\ tuned = device_channel
      /\ device_packet_received' \in {1, 2}
      /\ UNCHANGED <<chn_mask, host_channel, ll_chn_sel, ll_chn_sel_chg, ll_chn_hold,
                     ll_chn_pkt, slots_fh, frq_hp_mode, tuned>>
  BY <1>1, <1>2 DEF irq_host_rx, HostTypeOK
<1>4. pktRcv_flg' \in SUBSET Flags
  BY <1>1, <1>2 DEF irq_host_rx, HostTypeOK, Flags
<1>5. TypeOK'
  <2>1. HostTypeOK'
    BY <1>1, <1>3, <1>4 DEF HostTypeOK
  <2>2. ack_on_air' \in Masks /\ slot_passed' \in BOOLEAN
    BY <1>1 DEF HostTypeOK
  <2>3. QED
    BY <1>1, <2>1, <2>2 DEF TypeOK
<1>6. TunedInv'
  BY <1>1, <1>3 DEF TunedInv
<1>7. AckInv'
  BY <1>1, <1>3 DEF AckInv
<1>8. DevInv'
  BY <1>1 DEF DevInv, On
<1>9. device_channel = chn_mask[ll_chn_sel]
  BY <1>1, <1>3 DEF TunedInv, TypeOK, Untuned, Channels
<1>10. NearInv'
  <2> SUFFICES ASSUME ~host_restarted, ll_chn_mask # Search,
                      ~On(chn_mask[ll_chn_sel_chg], ll_chn_mask)
               PROVE  Strays' <= 1
    BY <1>1, <1>3 DEF NearInv, Kept, On
  <2>1. Strays <= 1 /\ (pc = "send" /\ ~On(device_channel, ll_chn_mask) => Strays = 0)
    BY <1>1 DEF NearInv
  <2>2. CASE ll_chn_sel = ll_chn_sel_chg
    <3>1. pc = "send" /\ Strays = 0
      BY <1>1, <1>9, <2>1, <2>2 DEF DevInv
    <3>2. QED
      BY <1>1, <1>3, <2>2, <3>1 DEF Strays, HostTypeOK
  <2>3. CASE ll_chn_sel # ll_chn_sel_chg
    BY <1>3, <2>1, <2>3 DEF Strays
  <2>4. QED
    BY <2>2, <2>3
<1>11. QED
  BY <1>5, <1>6, <1>7, <1>8, <1>10 DEF IInv

\* The device accepts the answer in flight, at most one slot old.
LEMMA DeviceRxIInv == IInv /\ irq_device_rx => IInv'
<1> SUFFICES ASSUME IInv, irq_device_rx PROVE IInv'
  OBVIOUS
<1>1. /\ TypeOK /\ TunedInv /\ AckInv
      /\ ack_on_air # NoAck
      /\ device_sync' = TRUE /\ device_ack_received' = TRUE
      /\ ll_chn_mask' = ack_on_air
      /\ ack_on_air' = NoAck
      /\ slot_passed' = FALSE
      /\ host_restarted' = FALSE
      /\ UNCHANGED <<hostVars, device_channel, ack_miss_no, attempt, step, pc>>
  BY DEF IInv, irq_device_rx
<1>2. HostTypeOK' /\ TunedInv'
  BY <1>1 DEF TypeOK, HostTypeOK, TunedInv, hostVars
<1>3. ll_chn_mask' \in Masks
  BY <1>1 DEF TypeOK
<1>4. TypeOK'
  <2>1. /\ device_sync' \in BOOLEAN /\ device_ack_received' \in BOOLEAN
        /\ slot_passed' \in BOOLEAN /\ host_restarted' \in BOOLEAN
    BY <1>1
  <2>2. QED
    BY <1>1, <1>2, <1>3, <2>1 DEF TypeOK
<1>5. AckInv'
  BY <1>1 DEF AckInv
<1>6. DevInv'
  BY <1>1 DEF DevInv, AckInv, TypeOK
<1>7. NearInv'
  <2>1. CASE ~slot_passed
    <3>1. ll_chn_mask' = chn_mask
      BY <1>1, <2>1 DEF AckInv
    <3>2. \A s \in {0, 1} : On(chn_mask'[s], ll_chn_mask')
      BY <1>1, <3>1 DEF hostVars, On
    <3>3. ll_chn_sel_chg' \in {0, 1} /\ 1 - ll_chn_sel_chg' \in {0, 1}
      BY <1>2, OtherEntry DEF HostTypeOK
    <3>4. QED
      BY <3>2, <3>3 DEF NearInv, Kept
  <2>2. CASE slot_passed
    <3>1. /\ On(chn_mask[Kept], ack_on_air)
          /\ ~On(chn_mask[ll_chn_sel_chg], ack_on_air) =>
               ll_chn_pkt[ll_chn_sel_chg] = 0 /\ device_packet_received = 0
      BY <1>1, <2>2 DEF AckInv
    <3>2. ~On(chn_mask[ll_chn_sel_chg], ack_on_air) => Strays' = 0
      BY <1>1, <3>1 DEF Strays, hostVars
    <3>3. QED
      BY <1>1, <3>1, <3>2 DEF NearInv, Kept, On, hostVars
  <2>3. QED
    BY <2>1, <2>2
<1>8. QED
  BY <1>2, <1>4, <1>5, <1>6, <1>7 DEF IInv

\* After a timeout the device stays on its channel only when it is in sync.
LEMMA SendMissedIInv == IInv /\ SendMissed => IInv'
<1> SUFFICES ASSUME IInv, SendMissed PROVE IInv'
  OBVIOUS
<1>1. PICK miss, sync, mask :
        /\ miss = IF ack_miss_no < SearchTh THEN ack_miss_no + 1 ELSE SearchTh
        /\ sync = (device_sync /\ miss < SyncTh)
        /\ mask = IF miss >= SearchTh THEN Search ELSE ll_chn_mask
        /\ ack_miss_no' = miss
        /\ device_sync' = sync
        /\ ll_chn_mask' = mask
        /\ device_channel' = IF sync THEN device_channel ELSE NextChannel(mask, device_channel)
  BY DEF SendMissed, MissCount
<1>2. /\ TypeOK /\ TunedInv /\ AckInv /\ DevInv /\ NearInv
      /\ pc = "missed"
      /\ pc' \in {"send", "slot_end"}
      /\ attempt' = attempt + step
      /\ UNCHANGED <<hostVars, device_ack_received, step, airVars, host_restarted>>
  BY DEF IInv, SendMissed
<1>3. mask \in Masks \cup {Search} /\ (mask = Search \/ mask = ll_chn_mask)
  BY <1>1, <1>2 DEF TypeOK
<1>4. /\ NextChannel(mask, device_channel) \in Channels
      /\ mask # Search => On(NextChannel(mask, device_channel), mask)
  BY <1>2, <1>3, NextChannelOn DEF TypeOK
<1>5. device_channel' = device_channel \/ (ll_chn_mask' # Search => On(device_channel', ll_chn_mask'))
  BY <1>1, <1>4
<1>6. HostTypeOK' /\ TunedInv'
  BY <1>2 DEF TypeOK, HostTypeOK, TunedInv, hostVars
<1>7. TypeOK'
  <2>1. ack_miss_no' \in 0..SearchTh
    BY <1>1, <1>2, DeviceAssumption DEF TypeOK, DeviceAssumption
  <2>2. device_channel' \in Channels
    BY <1>1, <1>2, <1>4 DEF TypeOK
  <2>3. attempt' \in Nat
    BY <1>2 DEF TypeOK
  <2>4. device_sync' \in BOOLEAN
    BY <1>1
  <2>5. pc' \in {"idle", "send", "wait", "missed", "slot_end"}
    BY <1>2
  <2>6. QED
    BY <1>1, <1>2, <1>3, <1>6, <2>1, <2>2, <2>3, <2>4, <2>5 DEF TypeOK, airVars
<1>8. AckInv'
  BY <1>2 DEF AckInv, Kept, On, hostVars, airVars
<1>9. DevInv'
  BY <1>1, <1>2, <1>3, <1>5 DEF DevInv, On
<1>10. Strays' = Strays
  BY <1>2 DEF Strays, hostVars
<1>11. NearInv'
  BY <1>1, <1>2, <1>3, <1>5, <1>10 DEF NearInv, Kept, On, hostVars
<1>12. QED
  BY <1>6, <1>7, <1>8, <1>9, <1>11 DEF IInv

\* At the end of a pass the device goes to a channel of its mask.
LEMMA AddClockTimeIInv == IInv /\ ll_add_clock_time => IInv'
<1> SUFFICES ASSUME IInv, ll_add_clock_time PROVE IInv'
  OBVIOUS
<1>1. /\ TypeOK /\ TunedInv /\ NearInv
      /\ device_channel' = NextChannel(ll_chn_mask, device_channel)
      /\ pc' = "idle"
      /\ ack_on_air' = NoAck
      /\ slot_passed' = FALSE
      /\ UNCHANGED <<hostVars, device_sync, device_ack_received, ll_chn_mask,
                     ack_miss_no, attempt, step, host_restarted>>
  BY DEF IInv, ll_add_clock_time
<1>2. /\ device_channel' \in Channels
      /\ ll_chn_mask # Search => On(device_channel', ll_chn_mask)
  BY <1>1, NextChannelOn DEF TypeOK
<1>3. HostTypeOK' /\ TunedInv'
  BY <1>1 DEF TypeOK, HostTypeOK, TunedInv, hostVars
<1>4. TypeOK'
  <2>1. slot_passed' \in BOOLEAN
    BY <1>1
  <2>2. QED
    BY <1>1, <1>2, <1>3, <2>1 DEF TypeOK
<1>5. AckInv' /\ DevInv'
  BY <1>1, <1>2 DEF AckInv, DevInv, On
<1>6. Strays' = Strays
  BY <1>1 DEF Strays, hostVars
<1>7. NearInv'
  BY <1>1, <1>6 DEF NearInv, Kept, On, hostVars
<1>8. QED
  BY <1>3, <1>4, <1>5, <1>7 DEF IInv

\* A dongle plugged in again owes the device nothing until they next sync.
LEMMA HostRestartIInv == IInv /\ HostRestart => IInv'
<1> SUFFICES ASSUME IInv, HostRestart PROVE IInv'
  OBVIOUS
<1>1. TypeOK /\ DevInv
  BY DEF IInv
<1>2. Untuned \notin Channels
  BY DEF Untuned, Channels
<1>3. HostTypeOK'
  <2>1. host_channel' \in Channels /\ ll_chn_hold' \in 0..HoldSlots
    BY LinkAssumption DEF HostRestart, Channels, LinkAssumption
  <2>2. /\ ll_chn_pkt' \in [{0, 1} -> Nat]
        /\ slots_fh' \in Nat
        /\ frq_hp_mode' \in Mode
        /\ pktRcv_flg' \in SUBSET Flags
    BY DEF HostRestart, Zero, Mode
  <2>3. QED
    BY <2>1, <2>2 DEF HostRestart, HostTypeOK
<1>4. TypeOK'
  <2>1. slot_passed' \in BOOLEAN /\ host_restarted' \in BOOLEAN
    BY DEF HostRestart
  <2>2. QED
    BY <1>1, <1>3, <2>1 DEF HostRestart, TypeOK, deviceVars
<1>5. TunedInv' /\ AckInv' /\ NearInv'
  BY <1>2 DEF HostRestart, TunedInv, AckInv, NearInv
<1>6. DevInv'
  BY <1>1 DEF HostRestart, DevInv, On, deviceVars
<1>7. QED
  BY <1>4, <1>5, <1>6 DEF IInv

\* The actions that change neither the mask of a side, nor the channel of the
\* device, nor the counts.
LEMMA QuietIInv ==
  ASSUME IInv,
         BeginSend \/ SkipSend \/ TransmitUnheard \/ SendAcked \/ SendTimeout
           \/ SleepLosesSync \/ LoseAck \/ HostTx \/ UNCHANGED vars
  PROVE  IInv'
<1>1. /\ TypeOK /\ HostTypeOK /\ TunedInv /\ AckInv /\ DevInv /\ NearInv
  BY DEF IInv, TypeOK
<1>2. /\ UNCHANGED <<chn_mask, host_channel, ll_chn_sel, ll_chn_sel_chg, ll_chn_hold,
                     ll_chn_pkt, device_packet_received, slots_fh, frq_hp_mode,
                     pktRcv_flg, device_channel, ll_chn_mask, host_restarted>>
      /\ tuned' = tuned \/ (tuned = DebugChannel /\ tuned' = host_channel)
  BY DEF BeginSend, SkipSend, TransmitUnheard, SendAcked, SendTimeout, SleepLosesSync,
         LoseAck, HostTx, irq_host_tx, vars, hostVars, deviceVars, airVars
<1>3. HostTypeOK'
  BY <1>1, <1>2 DEF HostTypeOK
<1>4. TunedInv'
  BY <1>1, <1>2 DEF TunedInv, DebugChannel, Untuned
<1>5. TypeOK'
  <2>1. step' \in Nat
    BY <1>1, DeviceAssumption
       DEF TypeOK, DeviceAssumption, BeginSend, SkipSend, TransmitUnheard, SendAcked,
           SendTimeout, SleepLosesSync, LoseAck, HostTx, vars, deviceVars
  <2>2. ack_miss_no' \in 0..SearchTh /\ attempt' \in Nat
    BY <1>1, DeviceAssumption
       DEF TypeOK, DeviceAssumption, BeginSend, SkipSend, TransmitUnheard, SendAcked,
           SendTimeout, SleepLosesSync, LoseAck, HostTx, vars, deviceVars
  <2>3. /\ device_sync' \in BOOLEAN /\ device_ack_received' \in BOOLEAN
        /\ slot_passed' \in BOOLEAN
    BY <1>1
       DEF TypeOK, BeginSend, SkipSend, TransmitUnheard, SendAcked, SendTimeout,
           SleepLosesSync, LoseAck, HostTx, vars, deviceVars, airVars
  <2>4. /\ pc' \in {"idle", "send", "wait", "missed", "slot_end"}
        /\ ack_on_air' \in Masks \cup {NoAck}
    BY <1>1
       DEF TypeOK, BeginSend, SkipSend, TransmitUnheard, SendAcked, SendTimeout,
           SleepLosesSync, LoseAck, HostTx, vars, deviceVars, airVars
  <2>5. QED
    BY <1>1, <1>2, <1>3, <2>1, <2>2, <2>3, <2>4 DEF TypeOK
<1>6. /\ ack_on_air' = NoAck \/ (ack_on_air' = ack_on_air /\ slot_passed' = slot_passed)
      /\ pc' # "idle" \/ pc' = pc
  BY DEF BeginSend, SkipSend, TransmitUnheard, SendAcked, SendTimeout,
         SleepLosesSync, LoseAck, HostTx, vars, deviceVars, airVars
<1>7. AckInv'
  BY <1>1, <1>2, <1>6 DEF AckInv, Kept, On
<1>8. DevInv'
  BY <1>1, <1>2
     DEF DevInv, On, BeginSend, SkipSend, TransmitUnheard, SendAcked, SendTimeout,
         SleepLosesSync, LoseAck, HostTx, vars, deviceVars
<1>9. Strays' = Strays
  BY <1>2 DEF Strays
<1>10. NearInv'
  <2>1. \/ pc' \in {"send", "missed"} =>
             pc \in {"send", "missed"}
        \/ ll_chn_mask # Search => On(device_channel, ll_chn_mask)
    BY <1>1
       DEF DevInv, BeginSend, SkipSend, TransmitUnheard, SendAcked, SendTimeout,
           SleepLosesSync, LoseAck, HostTx, vars, deviceVars
  <2>2. QED
    BY <1>1, <1>2, <1>9, <2>1 DEF NearInv, Kept, On
<1>11. QED
  BY <1>4, <1>5, <1>7, <1>8, <1>10 DEF IInv

-----------------------------------------------------------------------------
\* IInv is an inductive invariant.
THEOREM Invariance == Spec => []IInv
<1>1. IInv /\ [Next]_vars => IInv'
  BY QuietIInv, HostTimerIInv, TransmitHeardIInv, DeviceRxIInv, SendMissedIInv,
     AddClockTimeIInv, HostRestartIInv DEF Next, DeviceStep
<1>2. QED
  BY InitIInv, <1>1, PTL DEF Spec

\* Every variable keeps its type: the mask entries are channels of the hop step,
\* and the counters of hops, holds and misses stay in their ranges.
THEOREM TypeCorrect == Spec => []TypeOK
<1>1. IInv => TypeOK
  BY DEF IInv
<1>2. QED
  BY Invariance, <1>1, PTL

\* A pen with a channel mask always has a channel in common with a dongle that has
\* not restarted since: update_channel_mask and device_send_packet cannot drift
\* apart, whatever is lost and whenever the slot timer fires.
THEOREM SharedChannelHolds == Spec => []SharedChannel
<1>1. IInv => SharedChannel
  <2> SUFFICES ASSUME IInv, ll_chn_mask # Search, ~host_restarted
               PROVE  \E s \in {0, 1} : On(chn_mask[s], ll_chn_mask)
    BY DEF SharedChannel
  <2>1. ll_chn_sel_chg \in {0, 1} /\ On(chn_mask[1 - ll_chn_sel_chg], ll_chn_mask)
    BY DEF IInv, TypeOK, HostTypeOK, NearInv, Kept
  <2>2. QED
    BY <2>1, OtherEntry
<1>2. QED
  BY Invariance, <1>1, PTL

\* A hop spares the channel the dongle goes to, brings in a new channel, and waits
\* for the hold of update_channel_mask.
THEOREM HopDisciplineHolds == Spec => HopDiscipline
<1> DEFINE Hop == chn_mask' # chn_mask /\ tuned' # Untuned =>
                    /\ ll_chn_hold = 0
                    /\ chn_mask'[ll_chn_sel'] = chn_mask[ll_chn_sel']
                    /\ ~On(chn_mask'[1 - ll_chn_sel'], chn_mask)
<1>1. IInv /\ [Next]_vars => [Hop]_vars
  <2> SUFFICES ASSUME IInv, Next, chn_mask' # chn_mask, tuned' # Untuned
               PROVE  Hop
    OBVIOUS
  <2>1. HostTimer
    BY DEF Next, DeviceStep, BeginSend, SkipSend, TransmitUnheard, TransmitHeard,
           irq_host_rx, irq_device_rx, SendAcked, SendTimeout, SendMissed, MissCount,
           ll_add_clock_time, SleepLosesSync, LoseAck, HostTx, irq_host_tx,
           HostRestart, hostVars
  <2>2. irq_host_timer1 /\ HostTypeOK /\ TunedInv
    BY <2>1 DEF HostTimer, IInv, TypeOK
  <2>3. QED
    BY <2>2, TimerFacts
<1>2. QED
  BY Invariance, <1>1, PTL DEF Spec, HopDiscipline

\* From the first slot on, irq_host_timer1 goes to the other entry, on another
\* channel, in every slot.
THEOREM AlternatesHolds == Spec => Alternates
<1> DEFINE Alt == irq_host_timer1 /\ tuned # Untuned =>
                    /\ ll_chn_sel' = 1 - ll_chn_sel
                    /\ host_channel' # host_channel
<1>1. IInv => Alt
  BY TimerFacts DEF IInv, TypeOK
<1>2. QED
  BY Invariance, <1>1, PTL DEF Alternates
=============================================================================
