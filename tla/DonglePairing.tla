---------------------------- MODULE DonglePairing ---------------------------
(***************************************************************************)
(* Which devices a dongle gives its access code to: rf_rx_response and the *)
(* callbacks of vendor/dongle/dongle.c, the pairing records of             *)
(* vendor/dongle/dongle_custom.c, and the pairing side of the devices      *)
(* (vendor/mouse: mouse_rf.c, mouse_rf.h, mouse.c, device_info.c).         *)
(*                                                                         *)
(* Devices that are no pens are other products, modelled by the packets    *)
(* the dongle handles.  Signal strength is nondeterministic; so is         *)
(* cavy_rssi_pair, which callback_pairing reads uninitialised when         *)
(* work_with_cavy_mouse is 0.  The records are write-once bytes: a record  *)
(* that went wrong can at best be completed by the same write again.       *)
(***************************************************************************)
EXTENDS Naturals, FiniteSets, FiniteSetsExt

CONSTANTS
  Devices, Pens,
  DevType,      \* FRAME_TYPE_MOUSE or FRAME_TYPE_KEYBOARD of each device
  NoDid,        \* 0xffffffff
  ZeroDid,      \* 0
  BadDid,       \* what a record that went wrong reads as
  Slots,        \* DID_PARING_MAX
  MaxResets     \* bound on restarts, of devices and of the dongle

Type == {"mouse", "keyboard"}
Mode == {"auto", "auto_m2", "soft", "manual", "golden"}
Did == Devices \cup {NoDid, ZeroDid, BadDid}

ASSUME PairingAssumption ==
  /\ Pens \subseteq Devices
  /\ DevType \in [Devices -> Type]
  /\ \A d \in Pens : DevType[d] = "keyboard"
  /\ Cardinality({NoDid, ZeroDid, BadDid}) = 3
  /\ Devices \cap {NoDid, ZeroDid, BadDid} = {}
  /\ Slots \in Nat \ {0}
  /\ MaxResets \in Nat

Record == [type : Type, id : Did]
Blank == [type |-> "none"]

VARIABLES
  mode, id_check_flg,   \* customer's configuration: paring_type, id_check
  custom_binding,       \* device id of each type, in RAM
  slots,                \* the pairing records
  custom_binding_idx,
  binding_device,       \* types that have sent data
  rf_paring_enable,
  paring_enable,        \* types with mouse_/keyboard_paring_enable set
  ok_for,               \* the device host_cmd_paring_ok is about; NoDid when it is 0
  asking,               \* types whose data is answered with FRAME_AUTO_ACK_*_ASK_ID
  auto_getid,           \* types with [kb_]auto_getid_flg set
  code,                 \* devices that have access code 1
  flow,                 \* pairing flags of each device: PARING, TOKEN
  send_id,              \* devices with pipe1_send_id_flg set
  spoiled,              \* history: a record went wrong: "no", "write" or "power"
  resets

configVars == <<mode, id_check_flg>>
dongleVars == <<custom_binding, slots, custom_binding_idx, binding_device,
                rf_paring_enable, paring_enable, ok_for, asking, auto_getid, spoiled>>
deviceVars == <<code, flow, send_id>>
vars == <<configVars, dongleVars, deviceVars, resets>>

TypeOK ==
  /\ mode \in Mode /\ id_check_flg \in BOOLEAN
  /\ custom_binding \in [Type -> Did]
  /\ slots \in [0..Slots-1 -> Record \cup {Blank}]
  /\ custom_binding_idx \in 0..Slots
  /\ binding_device \in SUBSET Type
  /\ rf_paring_enable \in BOOLEAN
  /\ paring_enable \in SUBSET Type
  /\ ok_for \in Devices \cup {NoDid}
  /\ asking \in SUBSET Type /\ auto_getid \in SUBSET Type
  /\ code \in SUBSET Devices
  /\ flow \in [Devices -> SUBSET {"PARING", "TOKEN"}]
  /\ send_id \in SUBSET Devices
  /\ spoiled \in {"no", "write", "power"}
  /\ resets \in 0..MaxResets

Init ==
  /\ mode \in Mode /\ id_check_flg \in BOOLEAN
  /\ custom_binding = [t \in Type |-> NoDid]
  /\ slots = [i \in 0..Slots-1 |-> Blank]
  /\ custom_binding_idx = 0
  /\ binding_device = {}
  /\ rf_paring_enable = (mode \in {"manual", "auto_m2"})
  /\ paring_enable = {}
  /\ ok_for = NoDid
  /\ asking = {} /\ auto_getid = {}
  /\ code = {}
  /\ flow = [d \in Devices |-> {}]
  /\ send_id = {}
  /\ spoiled = "no"
  /\ resets = 0

Reset == resets < MaxResets /\ resets' = resets + 1
AutoMode == mode \in {"auto", "auto_m2"}
-----------------------------------------------------------------------------
\* custom_init reads the records up to the first blank one; the last one of a type
\* counts.
Used(s) == Min({i \in 0..Slots-1 : s[i] = Blank} \cup {Slots})
Loaded(s) ==
  [t \in Type |->
     LET own == {i \in 0..Used(s)-1 : s[i].type = t}
     IN  IF own = {} THEN NoDid ELSE s[Max(own)].id]

\* The dongle starts on these records.
Started(s) ==
  /\ slots' = s
  /\ custom_binding' = Loaded(s)
  /\ custom_binding_idx' = Used(s)
  /\ binding_device' = {}
  /\ rf_paring_enable' = (mode \in {"manual", "auto_m2"})
  /\ paring_enable' = {}
  /\ ok_for' = NoDid
  /\ asking' = {} /\ auto_getid' = {}

DongleRestart ==
  /\ Reset
  /\ Started(slots)
  /\ UNCHANGED <<configVars, deviceVars, spoiled>>

\* device_program of a type over what the record holds: bytes are write-once, and
\* type 0 (mouse) has no bit left that 1 (keyboard) could set.
TypeOver(t) ==
  LET old == slots[custom_binding_idx]
  IN  IF old # Blank /\ old.type = "mouse" THEN "mouse" ELSE t
Programmed(t, id) ==
  [slots EXCEPT ![custom_binding_idx] = [type |-> TypeOver(t), id |-> id]]

\* set_device_id_in_firmware: with a record left, it is written and, with id_check,
\* read back.  Both callers ignore its result.
Writable == custom_binding_idx < Slots
\* Mutant of NextIdx: it is not counted.
NextIdxStuck == custom_binding_idx
NextIdx == custom_binding_idx + 1
Verified(t, s, id) == id_check_flg => s[custom_binding_idx] = [type |-> t, id |-> id]
set_device_id_in_firmware(d) ==
  LET t == DevType[d]
  IN  IF ~Writable
      THEN UNCHANGED <<slots, custom_binding, custom_binding_idx, spoiled>>
      ELSE \E id \in {d, BadDid} :
             /\ slots' = Programmed(t, id)
             /\ spoiled' = IF slots'[custom_binding_idx] = [type |-> t, id |-> d]
                           THEN spoiled ELSE "write"
             /\ IF Verified(t, slots', d)
                THEN /\ custom_binding' = [custom_binding EXCEPT ![t] = d]
                     /\ custom_binding_idx' = NextIdx
                ELSE UNCHANGED <<custom_binding, custom_binding_idx>>

-----------------------------------------------------------------------------
\* What callback_pairing requires in each mode.
AutoPairs(d) ==
  /\ AutoMode
  /\ custom_binding[DevType[d]] = NoDid
  /\ mode = "auto_m2" => rf_paring_enable
ManualPairs(d) ==
  /\ mode = "manual" /\ rf_paring_enable
  /\ "PARING" \in flow[d]
  /\ ~(custom_binding[DevType[d]] # NoDid /\ "TOKEN" \in flow[d])
SoftPairs(d) ==
  /\ mode = "soft"
  /\ "PARING" \in flow[d]
  /\ DevType[d] \in paring_enable

\* Mutant of Considered: a dongle at work, too.
ConsideredAtWork(d) == d \notin code /\ custom_binding[DevType[d]] # d

\* rf_rx_response on a pairing packet: the bound device gets the access code, if the
\* answer reaches it; others go to callback_pairing unless the dongle is at work.
Answered(d) == custom_binding[DevType[d]] = d \/ mode = "golden"
Considered(d) == d \notin code /\ ~Answered(d) /\ DevType[d] \notin binding_device

LinkAnswered(d) ==
  /\ d \notin code
  /\ Answered(d)
  /\ code' = code \cup {d}
  /\ UNCHANGED <<configVars, dongleVars, flow, send_id, resets>>

PairInRam(d) ==
  /\ Considered(d) /\ AutoPairs(d)
  /\ custom_binding' = [custom_binding EXCEPT ![DevType[d]] = d]
  /\ UNCHANGED <<configVars, slots, custom_binding_idx, binding_device,
                 rf_paring_enable, paring_enable, ok_for, asking, auto_getid, spoiled,
                 deviceVars, resets>>

PairManually(d) ==
  /\ Considered(d) /\ ManualPairs(d)
  /\ set_device_id_in_firmware(d)
  /\ rf_paring_enable' = FALSE
  /\ UNCHANGED <<configVars, binding_device, paring_enable, ok_for, asking, auto_getid,
                 deviceVars, resets>>

PairBySoftware(d) ==
  /\ Considered(d) /\ SoftPairs(d)
  /\ set_device_id_in_firmware(d)
  /\ paring_enable' = paring_enable \ {DevType[d]}
  /\ ok_for' = d
  /\ UNCHANGED <<configVars, binding_device, rf_paring_enable, asking, auto_getid,
                 deviceVars, resets>>

\* The dongle is pulled out while it programs: the record has its type, and no or
\* only some bytes of the id.
PowerLossWhileProgramming(d) ==
  /\ Considered(d) /\ (ManualPairs(d) \/ SoftPairs(d))
  /\ Writable
  /\ Reset
  /\ \E id \in {NoDid, BadDid} : Started(Programmed(DevType[d], id))
  /\ spoiled' = "power"
  /\ UNCHANGED <<configVars, deviceVars>>

\* The id that arrives when the dongle has asked for it.  A pen writes its id behind
\* the end of pkt_km (sizeof(kb_data_t) * 3), and the dongle reads bytes 4 to 7 of
\* the data, which the pen never sets.
SentId(d) == IF d \in Pens THEN ZeroDid ELSE d

\* rf_rx_response and callback_mouse or callback_keyboard, for a data packet: the
\* acknowledgement, which may be lost, still has the type of before.
AcceptsId(d) == DevType[d] \in asking /\ d \in send_id

DataReceived(d) ==
  LET t == DevType[d]
      id == IF AcceptsId(d) THEN SentId(d) ELSE custom_binding[t]
  IN  /\ d \in code
      /\ binding_device' = binding_device \cup {t}
      /\ IF AutoMode /\ t \notin auto_getid
         THEN /\ custom_binding' = [custom_binding EXCEPT ![t] = id]
              /\ asking' = IF id = NoDid THEN asking \cup {t} ELSE asking \ {t}
              /\ auto_getid' = IF id = NoDid THEN auto_getid ELSE auto_getid \cup {t}
         ELSE UNCHANGED <<custom_binding, asking, auto_getid>>
      /\ send_id' \in {send_id, IF t \in asking THEN send_id \cup {d} ELSE send_id \ {d}}
      /\ UNCHANGED <<configVars, slots, custom_binding_idx, rf_paring_enable,
                     paring_enable, ok_for, spoiled, code, flow, resets>>

\* paring_time_check.
PairingTimeOver ==
  \/ /\ mode = "soft" /\ paring_enable # {}
     /\ paring_enable' = {}
     /\ UNCHANGED rf_paring_enable
  \/ /\ mode \in {"manual", "auto_m2"} /\ rf_paring_enable
     /\ rf_paring_enable' = FALSE
     /\ UNCHANGED paring_enable
PairingTimeCheck ==
  /\ PairingTimeOver
  /\ UNCHANGED <<configVars, custom_binding, slots, custom_binding_idx, binding_device,
                 ok_for, asking, auto_getid, spoiled, deviceVars, resets>>

\* usb_host_cmd_proc, commands 13 to 15: both types, the mouse, the keyboard.
HostAllowsPairing ==
  /\ \E ts \in SUBSET Type \ {{}} : paring_enable' = paring_enable \cup ts
  /\ ok_for' = NoDid
  /\ UNCHANGED <<configVars, custom_binding, slots, custom_binding_idx, binding_device,
                 rf_paring_enable, asking, auto_getid, spoiled, deviceVars, resets>>

-----------------------------------------------------------------------------
\* mouse_rf_post_proc: the flags of the pairing packets of a device without a code
\* change after its first pass, and after 64; other products pair on demand too.
FlowChanges(d) ==
  /\ d \notin code
  /\ \/ flow[d] = {} /\ flow' = [flow EXCEPT ![d] = {"PARING", "TOKEN"}]
     \/ flow[d] = {"PARING", "TOKEN"} /\ flow' = [flow EXCEPT ![d] = {"TOKEN"}]
     \/ d \notin Pens /\ flow[d] # {"PARING"} /\ flow' = [flow EXCEPT ![d] = {"PARING"}]
  /\ UNCHANGED <<configVars, dongleVars, code, send_id, resets>>

\* A device restarts; it keeps the code unless it lost power.
DeviceRestart(d) ==
  /\ Reset
  /\ code' \in {code, code \ {d}}
  /\ flow' = [flow EXCEPT ![d] = {}]
  /\ send_id' = send_id \ {d}
  /\ UNCHANGED <<configVars, dongleVars>>

DeviceStep(d) ==
  \/ LinkAnswered(d) \/ PairInRam(d) \/ PairManually(d) \/ PairBySoftware(d)
  \/ PowerLossWhileProgramming(d) \/ DataReceived(d) \/ FlowChanges(d)
  \/ DeviceRestart(d)

Next ==
  \/ DongleRestart \/ PairingTimeCheck \/ HostAllowsPairing
  \/ \E d \in Devices : DeviceStep(d)

Spec == Init /\ [][Next]_vars

-----------------------------------------------------------------------------
\* "working dongle cannot be re-paired": once a device of a type has sent data, the
\* id the dongle is bound to stays, whoever pairs, links, or answers a request for
\* its id, until the dongle restarts.
WorkingStays ==
  [][\A t \in Type :
       t \in binding_device /\ t \in binding_device' /\ custom_binding[t] # NoDid =>
         custom_binding'[t] = custom_binding[t]]_vars

\* As long as no record went wrong, a dongle that stores its pairings would find
\* after a power loss at any moment exactly the ids it is working with.
Durable ==
  spoiled = "no" /\ ~AutoMode =>
    Loaded(slots) = custom_binding /\ Used(slots) = custom_binding_idx

\* What the comment at "For binding OK" says the host reads: the device was bound.
OkIsBound == ok_for # NoDid => custom_binding[DevType[ok_for]] = ok_for

\* What the comment at the request for an id says: "did in last 4 byte", so the
\* dongle binds to the device that answered.
AskedIsBound == \A t \in Type : custom_binding[t] # ZeroDid
=============================================================================
