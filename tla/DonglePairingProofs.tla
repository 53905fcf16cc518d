------------------------- MODULE DonglePairingProofs ------------------------
(***************************************************************************)
(* Proofs about pairing (vendor/dongle/dongle.c, dongle_custom.c), for     *)
(* every set of devices, every number of records and of restarts.          *)
(*                                                                         *)
(* Two parts strengthen the type invariant: an id is asked for only while  *)
(* the type has none, which keeps callback_mouse and callback_keyboard     *)
(* from re-binding a dongle at work; and the records, as long as none went *)
(* wrong, are written in order and the last one of each type is the        *)
(* device in RAM, which is what custom_init looks for.                     *)
(***************************************************************************)
EXTENDS DonglePairing, WellFoundedInduction, TLAPS

-----------------------------------------------------------------------------
\* The smallest and the largest number of a set.
LEMMA LeastExists ==
  ASSUME NEW S, S \subseteq Nat, S # {}
  PROVE  \E x \in S : \A y \in S : x <= y
<1> DEFINE L == OpToRel(<, Nat)
<1>1. IsWellFoundedOn(L, Nat)
  BY NatLessThanWellFounded
<1>2. \A x, y \in Nat : <<y, x>> \in L <=> y < x
  BY DEF OpToRel
<1> HIDE DEF L
<1>3. PICK x \in S : \A y \in S : ~ (<<y, x>> \in L)
  BY <1>1, WFMin
<1>4. ASSUME NEW y \in S PROVE x <= y
  <2>1. ~ (y < x)
    BY <1>2, <1>3
  <2> QED BY <2>1
<1> QED BY <1>4

LEMMA MinType ==
  ASSUME NEW S, S \subseteq Nat, S # {}
  PROVE  Min(S) \in S /\ \A y \in S : Min(S) <= y
  BY LeastExists DEF Min

LEMMA MaxType ==
  ASSUME NEW n \in Nat, NEW S, S \subseteq 0..n, S # {}
  PROVE  Max(S) \in S /\ \A y \in S : y <= Max(S)
<1> DEFINE T == {n - x : x \in S}
<1>1. T \subseteq Nat /\ T # {}
  <2>1. \A x \in S : n - x \in Nat
    OBVIOUS
  <2> QED BY <2>1
<1>2. PICK t \in T : \A u \in T : t <= u
  BY <1>1, LeastExists
<1>3. PICK x \in S : t = n - x
  BY <1>2
<1>4. \A y \in S : y <= x
  <2> TAKE y \in S
  <2>1. n - y \in T /\ x \in Nat /\ y \in Nat
    OBVIOUS
  <2>2. n - x <= n - y
    BY <1>2, <1>3, <2>1
  <2> QED BY <2>1, <2>2
<1> QED BY <1>4 DEF Max

-----------------------------------------------------------------------------
LEMMA Constants ==
  /\ Slots \in Nat /\ Slots > 0 /\ MaxResets \in Nat
  /\ NoDid \in Did /\ ZeroDid \in Did /\ BadDid \in Did /\ Devices \subseteq Did
  /\ \A d \in Devices : DevType[d] \in Type
  /\ Blank \notin Record
  BY PairingAssumption DEF Did, Blank, Record, Type

Slotted == [0..Slots-1 -> Record \cup {Blank}]

LEMMA UsedType ==
  ASSUME NEW s \in Slotted
  PROVE  /\ Used(s) \in 0..Slots
         /\ \A i \in 0..Used(s)-1 : s[i] \in Record
<1> DEFINE S == {i \in 0..Slots-1 : s[i] = Blank} \cup {Slots}
<1>1. S \subseteq Nat /\ S # {} /\ Used(s) = Min(S)
  BY Constants DEF Used
<1>2. Min(S) \in S /\ \A y \in S : Min(S) <= y
  BY <1>1, MinType
<1>3. Min(S) \in 0..Slots
  BY <1>2, Constants
<1>4. ASSUME NEW i \in 0..Min(S)-1 PROVE s[i] \in Record
  <2>1. i \in 0..Slots-1 /\ i \notin S
    BY <1>2, <1>3, Constants
  <2> QED BY <2>1 DEF Slotted
<1> QED BY <1>1, <1>3, <1>4

LEMMA LoadedType ==
  ASSUME NEW s \in Slotted
  PROVE  Loaded(s) \in [Type -> Did]
<1>1. ASSUME NEW t \in Type
      PROVE  LET own == {i \in 0..Used(s)-1 : s[i].type = t}
             IN  (IF own = {} THEN NoDid ELSE s[Max(own)].id) \in Did
  <2> DEFINE own == {i \in 0..Used(s)-1 : s[i].type = t}
  <2>1. CASE own = {}
    BY <2>1, Constants
  <2>2. CASE own # {}
    <3>1. own \subseteq 0..Slots /\ Slots \in Nat
      BY UsedType, Constants
    <3>2. Max(own) \in own
      BY <2>2, <3>1, MaxType
    <3>3. s[Max(own)] \in Record
      BY <3>2, UsedType
    <3> QED BY <2>2, <3>3 DEF Record
  <2> QED BY <2>1, <2>2
<1> QED BY <1>1 DEF Loaded

LEMMA StartedType ==
  ASSUME TypeOK, NEW s \in Slotted, Started(s), UNCHANGED <<configVars>>,
         spoiled' \in {"no", "write", "power"}, resets' \in 0..MaxResets,
         code' \in SUBSET Devices, flow' = flow, send_id' = send_id
  PROVE  TypeOK'
<1>1. Used(s) \in 0..Slots /\ Loaded(s) \in [Type -> Did]
  BY UsedType, LoadedType
<1> QED BY <1>1, Constants DEF TypeOK, Started, configVars, Slotted

LEMMA ProgrammedType ==
  ASSUME TypeOK, Writable, NEW t \in Type, NEW id \in Did
  PROVE  Programmed(t, id) \in Slotted
<1>1. [type |-> TypeOver(t), id |-> id] \in Record
  BY DEF TypeOver, Record, Type
<1> QED BY <1>1 DEF Programmed, TypeOK, Slotted

LEMMA WrittenType ==
  ASSUME TypeOK, NEW d \in Devices, set_device_id_in_firmware(d)
  PROVE  /\ slots' \in Slotted /\ custom_binding' \in [Type -> Did]
         /\ custom_binding_idx' \in 0..Slots
         /\ spoiled' \in {"no", "write", "power"}
<1>1. CASE ~Writable
  BY <1>1 DEF set_device_id_in_firmware, TypeOK, Slotted
<1>2. CASE Writable
  <2> DEFINE t == DevType[d]
  <2>1. t \in Type /\ d \in Did /\ BadDid \in Did
    BY Constants
  <2>2. PICK id \in {d, BadDid} :
          /\ slots' = Programmed(t, id)
          /\ spoiled' = IF slots'[custom_binding_idx] = [type |-> t, id |-> d]
                        THEN spoiled ELSE "write"
          /\ IF Verified(t, slots', d)
             THEN /\ custom_binding' = [custom_binding EXCEPT ![t] = d]
                  /\ custom_binding_idx' = NextIdx
             ELSE UNCHANGED <<custom_binding, custom_binding_idx>>
    BY <1>2 DEF set_device_id_in_firmware
  <2>3. slots' \in Slotted
    BY <1>2, <2>1, <2>2, ProgrammedType
  <2>4. custom_binding' \in [Type -> Did] /\ custom_binding_idx' \in 0..Slots
    BY <1>2, <2>1, <2>2, Constants DEF TypeOK, Writable, NextIdx
  <2> QED BY <2>2, <2>3, <2>4 DEF TypeOK
<1> QED BY <1>1, <1>2

LEMMA DataReceivedType ==
  ASSUME TypeOK, NEW d \in Devices, DataReceived(d)
  PROVE  TypeOK'
<1> DEFINE t == DevType[d]
           id == IF AcceptsId(d) THEN SentId(d) ELSE custom_binding[t]
<1>1. t \in Type /\ id \in Did
  BY Constants DEF TypeOK, SentId
<1>2. custom_binding' \in [Type -> Did]
  BY <1>1 DEF DataReceived, TypeOK
<1>3. asking' \in SUBSET Type /\ auto_getid' \in SUBSET Type /\ binding_device' \in SUBSET Type
  BY <1>1 DEF DataReceived, TypeOK
<1>4. send_id' \in SUBSET Devices
  BY DEF DataReceived, TypeOK
<1> QED BY <1>2, <1>3, <1>4 DEF DataReceived, TypeOK, configVars

LEMMA DeviceStepType ==
  ASSUME TypeOK, NEW d \in Devices, DeviceStep(d)
  PROVE  TypeOK'
<1>1. DevType[d] \in Type /\ d \in Did
  BY Constants
<1>2. CASE LinkAnswered(d)
  BY <1>2 DEF LinkAnswered, TypeOK, configVars, dongleVars
<1>3. CASE PairInRam(d)
  BY <1>1, <1>3 DEF PairInRam, TypeOK, configVars, deviceVars
<1>4. CASE PairManually(d)
  BY <1>4, WrittenType DEF PairManually, TypeOK, configVars, deviceVars, Slotted
<1>5. CASE PairBySoftware(d)
  BY <1>5, WrittenType DEF PairBySoftware, TypeOK, configVars, deviceVars, Slotted
<1>6. CASE PowerLossWhileProgramming(d)
  <2>1. PICK id \in {NoDid, BadDid} : Started(Programmed(DevType[d], id))
    BY <1>6 DEF PowerLossWhileProgramming
  <2>2. Programmed(DevType[d], id) \in Slotted
    BY <1>1, <1>6, Constants, ProgrammedType DEF PowerLossWhileProgramming
  <2>3. resets' \in 0..MaxResets
    BY <1>6, Constants DEF PowerLossWhileProgramming, Reset, TypeOK
  <2> QED BY <1>6, <2>1, <2>2, <2>3, StartedType
          DEF PowerLossWhileProgramming, TypeOK, deviceVars
<1>7. CASE DataReceived(d)
  BY <1>7, DataReceivedType
<1>8. CASE FlowChanges(d)
  BY <1>8 DEF FlowChanges, TypeOK, configVars, dongleVars
<1>9. CASE DeviceRestart(d)
  <2>1. resets' \in 0..MaxResets
    BY <1>9, Constants DEF DeviceRestart, Reset, TypeOK
  <2> QED BY <1>9, <2>1 DEF DeviceRestart, TypeOK, configVars, dongleVars
<1> QED BY <1>2, <1>3, <1>4, <1>5, <1>6, <1>7, <1>8, <1>9 DEF DeviceStep

LEMMA InitType == Init => TypeOK
  BY Constants DEF Init, TypeOK, Type

LEMMA StepType == TypeOK /\ [Next]_vars => TypeOK'
<1> SUFFICES ASSUME TypeOK, [Next]_vars PROVE TypeOK'
  OBVIOUS
<1>1. CASE DongleRestart
  <2>1. resets' \in 0..MaxResets
    BY <1>1, Constants DEF DongleRestart, Reset, TypeOK
  <2> QED BY <1>1, <2>1, StartedType DEF DongleRestart, TypeOK, deviceVars, Slotted
<1>2. CASE PairingTimeCheck
  BY <1>2 DEF PairingTimeCheck, PairingTimeOver, TypeOK, configVars, deviceVars
<1>3. CASE HostAllowsPairing
  BY <1>3, Constants DEF HostAllowsPairing, TypeOK, configVars, deviceVars
<1>4. CASE UNCHANGED vars
  BY <1>4 DEF vars, TypeOK, configVars, dongleVars, deviceVars
<1> QED BY <1>1, <1>2, <1>3, <1>4, DeviceStepType DEF Next

\* The variables keep their types: custom_binding_idx stays within the records, and what
\* custom_init loads from them, whatever went wrong, are ids.
THEOREM PairingTypeCorrect == Spec => []TypeOK
  BY InitType, StepType, PTL DEF Spec

-----------------------------------------------------------------------------
\* Re-binding.  callback_mouse and callback_keyboard ask for the id of a type at work that is
\* bound to none, and stop asking when they have one; nothing else binds a type at work.
Asking == \A t \in asking : t \in binding_device /\ custom_binding[t] = NoDid

\* What a step leaves alone, or how it may bind.
Stays ==
  \A t \in Type :
    t \in binding_device /\ t \in binding_device' /\ custom_binding[t] # NoDid =>
      custom_binding'[t] = custom_binding[t]

LEMMA BindsOnlyIdle ==
  ASSUME TypeOK, Asking, NEW d \in Devices, Considered(d),
         custom_binding' \in {custom_binding, [custom_binding EXCEPT ![DevType[d]] = d]},
         UNCHANGED <<asking, binding_device>>
  PROVE  Asking' /\ Stays
<1>1. DevType[d] \notin binding_device
  BY DEF Considered
<1>2. \A t \in Type : t # DevType[d] => custom_binding'[t] = custom_binding[t]
  BY DEF TypeOK
<1> QED BY <1>1, <1>2 DEF Asking, Stays, TypeOK

LEMMA WrittenBinds ==
  ASSUME NEW d \in Devices, set_device_id_in_firmware(d)
  PROVE  custom_binding' \in {custom_binding, [custom_binding EXCEPT ![DevType[d]] = d]}
  BY DEF set_device_id_in_firmware

LEMMA StartedAsking ==
  ASSUME NEW s, Started(s)
  PROVE  Asking' /\ Stays
  BY DEF Started, Asking, Stays

LEMMA DataAsking ==
  ASSUME TypeOK, Asking, NEW d \in Devices, DataReceived(d)
  PROVE  Asking' /\ Stays
<1> DEFINE t == DevType[d]
           id == IF AcceptsId(d) THEN SentId(d) ELSE custom_binding[t]
<1>1. t \in Type /\ binding_device' = binding_device \cup {t}
  BY Constants DEF DataReceived
<1>2. CASE ~(AutoMode /\ t \notin auto_getid)
  BY <1>1, <1>2 DEF DataReceived, Asking, Stays
<1>3. CASE AutoMode /\ t \notin auto_getid
  <2>1. /\ custom_binding' = [custom_binding EXCEPT ![t] = id]
        /\ asking' = IF id = NoDid THEN asking \cup {t} ELSE asking \ {t}
    BY <1>3 DEF DataReceived
  <2>2. custom_binding'[t] = id
        /\ \A u \in Type \ {t} : custom_binding'[u] = custom_binding[u]
    BY <1>1, <2>1 DEF TypeOK
  <2>3. custom_binding[t] # NoDid => id = custom_binding[t]
    BY DEF AcceptsId, Asking
  <2>4. Stays
    BY <2>2, <2>3 DEF Stays
  <2>5. ASSUME NEW u \in asking' PROVE u \in binding_device' /\ custom_binding'[u] = NoDid
    <3>1. CASE u = t
      BY <1>1, <2>1, <2>2, <2>5, <3>1
    <3>2. CASE u # t
      <4>1. u \in asking /\ u \in Type
        BY <2>1, <2>5, <3>2 DEF TypeOK
      <4> QED BY <1>1, <2>2, <3>2, <4>1 DEF Asking
    <3> QED BY <3>1, <3>2
  <2> QED BY <2>4, <2>5 DEF Asking
<1> QED BY <1>2, <1>3

LEMMA StepAsking == TypeOK /\ Asking /\ [Next]_vars => Asking' /\ Stays
<1> SUFFICES ASSUME TypeOK, Asking, [Next]_vars PROVE Asking' /\ Stays
  OBVIOUS
<1>1. CASE UNCHANGED <<custom_binding, asking, binding_device>>
  BY <1>1 DEF Asking, Stays
<1>2. CASE DongleRestart
  BY <1>2, StartedAsking DEF DongleRestart
<1>3. CASE PairingTimeCheck \/ HostAllowsPairing \/ UNCHANGED vars
  BY <1>1, <1>3 DEF PairingTimeCheck, HostAllowsPairing, vars, dongleVars
<1>4. ASSUME NEW d \in Devices, DeviceStep(d) PROVE Asking' /\ Stays
  <2>1. CASE LinkAnswered(d) \/ FlowChanges(d) \/ DeviceRestart(d)
    BY <1>1, <2>1 DEF LinkAnswered, FlowChanges, DeviceRestart, dongleVars
  <2>2. CASE PairInRam(d)
    BY <2>2, BindsOnlyIdle DEF PairInRam
  <2>3. CASE PairManually(d)
    BY <2>3, BindsOnlyIdle, WrittenBinds DEF PairManually
  <2>4. CASE PairBySoftware(d)
    BY <2>4, BindsOnlyIdle, WrittenBinds DEF PairBySoftware
  <2>5. CASE PowerLossWhileProgramming(d)
    BY <2>5, StartedAsking DEF PowerLossWhileProgramming
  <2>6. CASE DataReceived(d)
    BY <2>6, DataAsking
  <2> QED BY <1>4, <2>1, <2>2, <2>3, <2>4, <2>5, <2>6 DEF DeviceStep
<1> QED BY <1>2, <1>3, <1>4 DEF Next

\* "working dongle cannot be re-paired": whatever the other devices send, and however many
\* there are, the id of a type at work stays.
THEOREM WorkingStaysHolds == Spec => WorkingStays
<1>1. Init => Asking
  BY DEF Init, Asking
<1>2. TypeOK /\ Asking /\ [Next]_vars =>
        [\A t \in Type :
           t \in binding_device /\ t \in binding_device' /\ custom_binding[t] # NoDid =>
             custom_binding'[t] = custom_binding[t]]_vars
  BY StepAsking DEF Stays
<1> QED BY <1>1, <1>2, InitType, StepType, StepAsking, PTL DEF Spec, WorkingStays

-----------------------------------------------------------------------------
\* The records.  Of each type the last of the first n records is the device bound, or there is
\* none; the records after them are blank.
LastIs(s, n, t, id) ==
  \/ \E j \in 0..n-1 : /\ s[j].type = t /\ s[j].id = id
                       /\ \A k \in j+1..n-1 : s[k].type # t
  \/ id = NoDid /\ \A j \in 0..n-1 : s[j].type # t
Reads(s, b, n) ==
  /\ \A i \in 0..Slots-1 : s[i] = Blank <=> i >= n
  /\ \A t \in Type : LastIs(s, n, t, b[t])
Recorded ==
  spoiled = "no" /\ ~AutoMode => Reads(slots, custom_binding, custom_binding_idx)

\* custom_init finds them.
LEMMA ReadsLoaded ==
  ASSUME NEW s \in Slotted, NEW b \in [Type -> Did], NEW n \in 0..Slots, Reads(s, b, n)
  PROVE  Used(s) = n /\ Loaded(s) = b
<1>1. Used(s) = n
  <2> DEFINE S == {i \in 0..Slots-1 : s[i] = Blank} \cup {Slots}
  <2>1. n \in S /\ \A y \in S : n <= y
    BY Constants DEF Reads
  <2>2. S \subseteq Nat /\ S # {}
    BY Constants
  <2>3. Min(S) \in S /\ \A y \in S : Min(S) <= y
    BY <2>2, MinType
  <2>4. Min(S) = n
    <3> HIDE DEF S
    <3>1. Min(S) <= n /\ n <= Min(S) /\ Min(S) \in Nat /\ n \in Nat
      BY <2>1, <2>2, <2>3
    <3> QED BY <3>1
  <2> QED BY <2>4 DEF Used
<1>2. ASSUME NEW t \in Type PROVE Loaded(s)[t] = b[t]
  <2> DEFINE own == {i \in 0..n-1 : s[i].type = t}
  <2>1. Loaded(s)[t] = IF own = {} THEN NoDid ELSE s[Max(own)].id
    BY <1>1 DEF Loaded
  <2>2. LastIs(s, n, t, b[t])
    BY DEF Reads
  <2>3. CASE own = {}
    BY <2>1, <2>2, <2>3 DEF LastIs
  <2>4. CASE own # {}
    <3>1. PICK j \in 0..n-1 : /\ s[j].type = t /\ s[j].id = b[t]
                              /\ \A k \in j+1..n-1 : s[k].type # t
      BY <2>2, <2>4 DEF LastIs
    <3>2. Max(own) = j
      <4>1. j \in own /\ \A y \in own : y <= j
        BY <3>1
      <4>2. own \subseteq 0..Slots /\ Slots \in Nat /\ own \subseteq Nat
        BY Constants
      <4>3. Max(own) \in own /\ \A y \in own : y <= Max(own)
        BY <2>4, <4>2, MaxType
      <4> HIDE DEF own
      <4>4. Max(own) <= j /\ j <= Max(own)
        BY <4>1, <4>3
      <4>5. Max(own) \in Nat /\ j \in Nat
        BY <4>1, <4>2, <4>3
      <4> QED BY <4>4, <4>5
    <3> QED BY <2>1, <2>4, <3>1, <3>2
  <2> QED BY <2>3, <2>4
<1>3. Loaded(s) \in [Type -> Did]
  BY LoadedType
<1> QED BY <1>1, <1>2, <1>3

\* One more record.
LEMMA ReadsAdd ==
  ASSUME NEW s \in Slotted, NEW b \in [Type -> Did], NEW n \in 0..Slots-1, Reads(s, b, n),
         NEW t \in Type, NEW id \in Did
  PROVE  Reads([s EXCEPT ![n] = [type |-> t, id |-> id]], [b EXCEPT ![t] = id], n + 1)
<1> DEFINE s2 == [s EXCEPT ![n] = [type |-> t, id |-> id]]
           b2 == [b EXCEPT ![t] = id]
<1>1. /\ s2[n] = [type |-> t, id |-> id]
      /\ \A i \in 0..Slots-1 : i # n => s2[i] = s[i]
      /\ b2[t] = id /\ \A u \in Type : u # t => b2[u] = b[u]
  BY DEF Slotted
<1>2. s2[n].type = t /\ s2[n].id = id /\ s2[n] # Blank
  BY <1>1, Constants DEF Blank, Type
<1>3. n \in Nat /\ n < Slots /\ Slots \in Nat
  BY Constants
<1> HIDE DEF s2, b2
<1>4. ASSUME NEW i \in 0..Slots-1 PROVE s2[i] = Blank <=> i >= n + 1
  <2>1. s[i] = Blank <=> i >= n
    BY DEF Reads
  <2>2. CASE i = n
    BY <1>2, <1>3, <2>2
  <2>3. CASE i # n
    BY <1>1, <1>3, <2>1, <2>3
  <2> QED BY <2>2, <2>3
<1>5. LastIs(s2, n + 1, t, b2[t])
  BY <1>1, <1>2, <1>3 DEF LastIs
<1>6. ASSUME NEW u \in Type, u # t PROVE LastIs(s2, n + 1, u, b2[u])
  <2>1. LastIs(s, n, u, b[u])
    BY DEF Reads
  <2>2. CASE \E j \in 0..n-1 : /\ s[j].type = u /\ s[j].id = b[u]
                               /\ \A k \in j+1..n-1 : s[k].type # u
    <3>1. PICK j \in 0..n-1 : /\ s[j].type = u /\ s[j].id = b[u]
                              /\ \A k \in j+1..n-1 : s[k].type # u
      BY <2>2
    <3>2. j \in 0..(n+1)-1 /\ s2[j].type = u /\ s2[j].id = b2[u]
      BY <1>1, <1>3, <1>6, <3>1
    <3>3. ASSUME NEW k \in j+1..(n+1)-1 PROVE s2[k].type # u
      BY <1>1, <1>2, <1>3, <1>6, <3>1
    <3> QED BY <3>2, <3>3 DEF LastIs
  <2>3. CASE b[u] = NoDid /\ \A j \in 0..n-1 : s[j].type # u
    <3>1. ASSUME NEW j \in 0..(n+1)-1 PROVE s2[j].type # u
      BY <1>1, <1>2, <1>3, <1>6, <2>3
    <3> QED BY <1>1, <1>6, <2>3, <3>1 DEF LastIs
  <2> QED BY <2>1, <2>2, <2>3 DEF LastIs
<1> QED BY <1>4, <1>5, <1>6 DEF Reads, s2, b2

\* set_device_id_in_firmware, when no record went wrong.
LEMMA WrittenStored ==
  ASSUME TypeOK, Recorded, NEW d \in Devices, set_device_id_in_firmware(d), mode' = mode
  PROVE  Recorded'
<1> SUFFICES ASSUME spoiled' = "no", ~AutoMode
             PROVE  Reads(slots', custom_binding', custom_binding_idx')
  BY DEF Recorded, AutoMode, Reads, LastIs
<1>1. CASE ~Writable
  BY <1>1 DEF set_device_id_in_firmware, Recorded
<1>2. CASE Writable
  <2> DEFINE t == DevType[d]
             n == custom_binding_idx
  <2>1. t \in Type /\ d \in Did
    BY Constants
  <2>2. PICK id \in {d, BadDid} :
          /\ slots' = Programmed(t, id)
          /\ spoiled' = IF slots'[n] = [type |-> t, id |-> d] THEN spoiled ELSE "write"
          /\ IF Verified(t, slots', d)
             THEN /\ custom_binding' = [custom_binding EXCEPT ![t] = d]
                  /\ custom_binding_idx' = NextIdx
             ELSE UNCHANGED <<custom_binding, custom_binding_idx>>
    BY <1>2 DEF set_device_id_in_firmware
  <2>3. spoiled = "no" /\ slots'[n] = [type |-> t, id |-> d]
    BY <2>2
  <2>4. n \in 0..Slots-1 /\ slots \in Slotted /\ custom_binding \in [Type -> Did]
    BY <1>2, Constants DEF Writable, TypeOK, Slotted
  <2>5. slots' = [slots EXCEPT ![n] = [type |-> t, id |-> d]]
    BY <2>2, <2>3, <2>4 DEF Programmed, Slotted
  <2>6. Verified(t, slots', d)
    BY <2>3 DEF Verified
  <2>7. custom_binding' = [custom_binding EXCEPT ![t] = d] /\ custom_binding_idx' = n + 1
    BY <2>2, <2>6 DEF NextIdx
  <2>8. Reads(slots, custom_binding, n)
    BY <2>3 DEF Recorded
  <2> QED BY <2>1, <2>4, <2>5, <2>7, <2>8, ReadsAdd
<1> QED BY <1>1, <1>2

LEMMA StepStored == TypeOK /\ Recorded /\ [Next]_vars => Recorded'
<1> SUFFICES ASSUME TypeOK, Recorded, [Next]_vars PROVE Recorded'
  OBVIOUS
<1>1. CASE UNCHANGED <<custom_binding, slots, custom_binding_idx, spoiled, mode>>
  BY <1>1 DEF Recorded, AutoMode, Reads, LastIs
<1>2. CASE DongleRestart
  <2>1. slots \in Slotted /\ custom_binding \in [Type -> Did] /\ custom_binding_idx \in 0..Slots
    BY DEF TypeOK, Slotted
  <2>2. spoiled = "no" /\ ~AutoMode =>
          Used(slots) = custom_binding_idx /\ Loaded(slots) = custom_binding
    BY <2>1, ReadsLoaded DEF Recorded
  <2>3. /\ slots' = slots /\ custom_binding' = Loaded(slots)
        /\ custom_binding_idx' = Used(slots) /\ UNCHANGED <<mode, spoiled>>
    BY <1>2 DEF DongleRestart, Started, configVars
  <2> QED BY <2>2, <2>3 DEF Recorded, AutoMode, Reads, LastIs
<1>3. CASE PairingTimeCheck \/ HostAllowsPairing \/ UNCHANGED vars
  BY <1>1, <1>3 DEF PairingTimeCheck, HostAllowsPairing, vars, configVars, dongleVars
<1>4. ASSUME NEW d \in Devices, DeviceStep(d) PROVE Recorded'
  <2>1. CASE LinkAnswered(d) \/ FlowChanges(d) \/ DeviceRestart(d)
    BY <1>1, <2>1 DEF LinkAnswered, FlowChanges, DeviceRestart, dongleVars, configVars
  <2>2. CASE PairInRam(d)
    BY <2>2 DEF PairInRam, AutoPairs, AutoMode, Recorded, configVars
  <2>3. CASE PairManually(d)
    BY <2>3, WrittenStored DEF PairManually, configVars
  <2>4. CASE PairBySoftware(d)
    BY <2>4, WrittenStored DEF PairBySoftware, configVars
  <2>5. CASE PowerLossWhileProgramming(d)
    BY <2>5 DEF PowerLossWhileProgramming, Recorded
  <2>6. CASE DataReceived(d)
    <3>1. CASE AutoMode
      BY <2>6, <3>1 DEF DataReceived, Recorded, AutoMode, configVars
    <3>2. CASE ~AutoMode
      BY <1>1, <2>6, <3>2 DEF DataReceived, configVars
    <3> QED BY <3>1, <3>2
  <2> QED BY <1>4, <2>1, <2>2, <2>3, <2>4, <2>5, <2>6 DEF DeviceStep
<1> QED BY <1>2, <1>3, <1>4 DEF Next

\* As long as no record went wrong, a dongle that stores its pairings finds after a power loss
\* exactly the ids it works with, for every number of records and order of pairings.
THEOREM DurableHolds == Spec => []Durable
<1>1. Init => Recorded
  BY Constants DEF Init, Recorded, Reads, LastIs
<1>2. TypeOK /\ Recorded => Durable
  BY ReadsLoaded DEF TypeOK, Slotted, Recorded, Durable
<1> QED BY <1>1, <1>2, InitType, StepType, StepStored, PTL DEF Spec
=============================================================================
