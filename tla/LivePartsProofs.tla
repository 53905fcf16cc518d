--------------------------- MODULE LivePartsProofs --------------------------
(***************************************************************************)
(* Proofs about the parts with liveness properties, each for every value   *)
(* of its constants: the control transfers of the dongle's USB device      *)
(* (UsbControl), the vacuum controller (VacuumController), a connection of *)
(* the Bluetooth library (BltLink) and the wake-up of the computer         *)
(* (RemoteWakeup).  At the end, with SleepProofs, what is checked of all   *)
(* of them at once (MCLiveParts).                                          *)
(***************************************************************************)
EXTENDS MCLiveParts, SleepProofs, FiniteSetTheorems

-----------------------------------------------------------------------------
(***************************************************************************)
(* Control transfers (proj/drivers/usb.c): the invariant says, for each    *)
(* turn of the host and the dongle, how much of the descriptor is where.   *)
(***************************************************************************)

UcBytesOf(d, n) == [i \in 1..n |-> [desc |-> d, byte |-> i]]

\* How many bytes the host is to get.
UcDue(req) == UcMin(UcDescLen[req.desc], req.wLength)

\* The request waits to be read, ...
UcUnread ==
  /\ uc_stage = "data" /\ uc_got = <<>> /\ uc_data = "nak"
  /\ uc_flags = {"setup"} /\ uc_irq \subseteq {"setup"}
\* ... a packet waits for the host, which follows what it has, ...
UcOffered ==
  /\ uc_stage = "data" /\ uc_data = "ack" /\ uc_flags = {} /\ uc_irq = {}
  /\ uc_got \o uc_fifo = UcBytesOf(uc_asked.desc, g_response.sent)
  /\ Len(uc_fifo) < UcChunk => g_response_len = 0
\* ... the host has what was sent and waits for the rest, ...
UcWanted ==
  /\ uc_stage = "data" /\ uc_data = "nak"
  /\ uc_flags = {"data"} /\ uc_irq \subseteq {"data"}
  /\ uc_got = UcBytesOf(uc_asked.desc, g_response.sent)
\* ... or it has everything.
UcServed ==
  /\ uc_stage \in {"status", "done", "stalled"}
  /\ uc_flags \subseteq {"status"} /\ uc_irq \subseteq uc_flags
  /\ uc_got = UcBytesOf(uc_asked.desc, UcDue(uc_asked))

\* What is sent is the descriptor the host asks for, and the rest of it is still to come.
UcFollows ==
  /\ g_response.desc = uc_asked.desc
  /\ g_response.sent + g_response_len = UcDue(uc_asked)

UcPhases ==
  ~uc_mixed /\ uc_asked.desc \in UcDescs =>
    UcUnread \/ ((UcOffered \/ UcWanted) /\ UcFollows) \/ UcServed

UcWaits == uc_stage = "data" => Len(uc_got) < uc_asked.wLength

UcInv == UcTypeOK /\ UcWaits /\ UcPhases

LEMMA UcConstants ==
  /\ UcChunk \in Nat /\ UcChunk > 0
  /\ \A d \in UcDescs : UcDescLen[d] \in Nat /\ UcDescLen[d] > 0 /\ d \notin UcUnknown \cup {"none"}
  /\ \A n \in UcLengths : n \in Nat /\ n > 0
  BY UcAssumption DEF UcDescs, UcUnknown

LEMMA UcMinFacts ==
  ASSUME NEW a \in Nat, NEW b \in Nat
  PROVE  UcMin(a, b) \in Nat /\ UcMin(a, b) <= a /\ UcMin(a, b) <= b
  BY DEF UcMin

\* A packet of n bytes.
LEMMA UcPacket ==
  ASSUME NEW d \in UcDescs, NEW m \in Nat, NEW n \in Nat
  PROVE  LET p == [i \in 1..n |-> [desc |-> d, byte |-> m + i]]
         IN p \in Seq(UcBytes) /\ Len(p) = n
<1> DEFINE p == [i \in 1..n |-> [desc |-> d, byte |-> m + i]]
<1>1. p \in [1..n -> UcBytes]
  <2>1. \A i \in 1..n : m + i \in Nat \ {0}
    OBVIOUS
  <2> QED BY <2>1 DEF UcBytes
<1> QED BY <1>1

\* The packet that follows m bytes carries on where they end.
LEMMA UcJoin ==
  ASSUME NEW d \in UcDescs, NEW m \in Nat, NEW n \in Nat
  PROVE  UcBytesOf(d, m) \o [i \in 1..n |-> [desc |-> d, byte |-> m + i]] = UcBytesOf(d, m + n)
<1> DEFINE p == [i \in 1..n |-> [desc |-> d, byte |-> m + i]]
           q == UcBytesOf(d, m)
<1>1. p \in Seq(UcBytes) /\ Len(p) = n
  BY UcPacket
<1>2. q \in Seq(UcBytes) /\ Len(q) = m
  <2>1. q \in [1..m -> UcBytes]
    BY DEF UcBytesOf, UcBytes
  <2> QED BY <2>1
<1>3. q \o p \in Seq(UcBytes) /\ Len(q \o p) = m + n
  BY <1>1, <1>2
<1>4. ASSUME NEW i \in 1..m + n
      PROVE  (q \o p)[i] = [desc |-> d, byte |-> i]
  <2>1. CASE i <= m
    BY <2>1, <1>1, <1>2 DEF UcBytesOf
  <2>2. CASE i > m
    <3>1. (q \o p)[i] = p[i - m] /\ i - m \in 1..n
      BY <2>2, <1>1, <1>2
    <3>2. m + (i - m) = i
      OBVIOUS
    <3> QED BY <3>1, <3>2
  <2>3. i <= m \/ i > m
    OBVIOUS
  <2> QED BY <2>1, <2>2, <2>3
<1>5. q \o p = [i \in 1..m + n |-> (q \o p)[i]]
  BY <1>3
<1> QED BY <1>4, <1>5 DEF UcBytesOf

\* What usb_send_response leaves.
LEMMA UcSends ==
  ASSUME NEW resp \in [desc : UcDescs, sent : Nat], NEW len \in Nat,
         usb_send_response(resp, len)
  PROVE  /\ g_response' \in [desc : UcDescs, sent : Nat] /\ g_response'.desc = resp.desc
         /\ g_response_len' \in Nat
         /\ g_response'.sent + g_response_len' = resp.sent + len
         /\ uc_fifo' \in Seq(UcBytes) /\ Len(uc_fifo') <= UcChunk
         /\ Len(uc_fifo') < UcChunk => g_response_len' = 0
         /\ UcBytesOf(resp.desc, resp.sent) \o uc_fifo' = UcBytesOf(resp.desc, g_response'.sent)
<1> DEFINE n == UcMin(len, UcChunk)
<1>1. n \in Nat /\ n <= len /\ n <= UcChunk
  BY UcMinFacts, UcConstants
<1>2. uc_fifo' = [i \in 1..n |-> [desc |-> resp.desc, byte |-> resp.sent + i]]
  BY DEF usb_send_response
<1>3. g_response' = [resp EXCEPT !.sent = resp.sent + n] /\ g_response_len' = len - n
  BY DEF usb_send_response
<1>4. uc_fifo' \in Seq(UcBytes) /\ Len(uc_fifo') = n
  BY <1>1, <1>2, UcPacket
<1>5. n < UcChunk => n = len
  BY UcConstants DEF UcMin
<1>6. UcBytesOf(resp.desc, resp.sent) \o uc_fifo' = UcBytesOf(resp.desc, resp.sent + n)
  BY <1>1, <1>2, UcJoin
<1>7. /\ g_response' \in [desc : UcDescs, sent : Nat] /\ g_response'.desc = resp.desc
      /\ g_response'.sent = resp.sent + n
  BY <1>1, <1>3
<1>8. g_response_len' \in Nat /\ g_response'.sent + g_response_len' = resp.sent + len
  BY <1>1, <1>3, <1>7
<1>9. Len(uc_fifo') < UcChunk => g_response_len' = 0
  BY <1>1, <1>3, <1>4, <1>5
<1> QED BY <1>1, <1>4, <1>6, <1>7, <1>8, <1>9

\* And with nothing to send.
LEMMA UcSendsNone ==
  ASSUME NEW resp, resp = UcNoResponse, usb_send_response(resp, 0)
  PROVE  /\ g_response' = UcNoResponse /\ g_response_len' = 0
         /\ uc_fifo' \in Seq(UcBytes) /\ Len(uc_fifo') = 0
<1>1. UcMin(0, UcChunk) = 0
  BY UcConstants DEF UcMin
<1>2. uc_fifo' = [i \in 1..0 |-> [desc |-> resp.desc, byte |-> resp.sent + i]]
  BY <1>1 DEF usb_send_response
<1>3. uc_fifo' = <<>>
  BY <1>2
<1> QED BY <1>1, <1>3 DEF usb_send_response, UcNoResponse

LEMMA UcInitInv == UcInit => UcInv
<1> SUFFICES ASSUME UcInit PROVE UcInv
  OBVIOUS
<1>1. uc_asked.wLength \in Nat /\ uc_asked.wLength > 0
  BY UcConstants DEF UcInit, UcRequests
<1>2. <<>> \in Seq(UcBytes) /\ Len(<<>>) = 0
  OBVIOUS
<1>3. UcTypeOK
  <2>1. 0 < uc_asked.wLength + UcChunk /\ 0 <= UcChunk
    BY <1>1, UcConstants
  <2>2. UcNoResponse \in [desc : UcDescs \cup {"none"}, sent : Nat]
    BY DEF UcNoResponse
  <2> QED BY <1>2, <2>1, <2>2 DEF UcInit, UcTypeOK, UcNoResponse, UcFlags, UcAnswers
<1>4. UcWaits
  BY <1>1, <1>2 DEF UcInit, UcWaits
<1>5. UcPhases
  BY DEF UcInit, UcPhases, UcUnread
<1> QED BY <1>3, <1>4, <1>5 DEF UcInv

\* What of the type invariant the handlers that send can disturb.
UcSendType ==
  /\ g_response \in [desc : UcDescs \cup {"none"}, sent : Nat]
  /\ g_response_len \in Nat
  /\ g_response.desc = "none" => g_response_len = 0 /\ g_response.sent = 0
  /\ g_response.desc # "none" => g_response.sent + g_response_len <= UcDescLen[g_response.desc]
  /\ uc_fifo \in Seq(UcBytes) /\ Len(uc_fifo) <= UcChunk

\* The rest of a response, or less of it.
LEMMA UcSendsRest ==
  ASSUME UcTypeOK, NEW len \in Nat, len <= g_response_len, usb_send_response(g_response, len)
  PROVE  UcSendType'
<1>1. CASE g_response.desc = "none"
  <2>1. g_response = UcNoResponse /\ len = 0
    BY <1>1 DEF UcTypeOK, UcNoResponse
  <2>2. /\ g_response' = UcNoResponse /\ g_response_len' = 0
        /\ uc_fifo' \in Seq(UcBytes) /\ Len(uc_fifo') = 0
    BY <2>1, UcSendsNone
  <2> QED BY <2>2, UcConstants DEF UcSendType, UcNoResponse
<1>2. CASE g_response.desc # "none"
  <2>1. g_response \in [desc : UcDescs, sent : Nat]
    BY <1>2 DEF UcTypeOK
  <2>2. /\ g_response' \in [desc : UcDescs, sent : Nat] /\ g_response'.desc = g_response.desc
        /\ g_response_len' \in Nat
        /\ g_response'.sent + g_response_len' = g_response.sent + len
        /\ uc_fifo' \in Seq(UcBytes) /\ Len(uc_fifo') <= UcChunk
    BY <2>1, UcSends
  <2>3. UcDescLen[g_response.desc] \in Nat /\ g_response.sent + g_response_len <= UcDescLen[g_response.desc]
    BY <1>2, <2>1, UcConstants DEF UcTypeOK
  <2>4. g_response.sent + len <= UcDescLen[g_response.desc]
    BY <2>1, <2>3 DEF UcTypeOK
  <2> QED BY <1>2, <2>2, <2>4 DEF UcSendType
<1> QED BY <1>1, <1>2

\* A response from its beginning.
LEMMA UcSendsFirst ==
  ASSUME UcTypeOK, NEW req \in UcRequests, req.desc \in UcDescs,
         usb_send_response(ResponseOf(req), ResponseLen(UcDescLen[req.desc], req.wLength))
  PROVE  /\ UcSendType' /\ g_response'.desc = req.desc
         /\ g_response'.sent + g_response_len' = UcDue(req)
         /\ Len(uc_fifo') < UcChunk => g_response_len' = 0
         /\ uc_fifo' = UcBytesOf(req.desc, g_response'.sent)
<1>1. ResponseOf(req) \in [desc : UcDescs, sent : Nat]
  BY DEF ResponseOf
<1>2. req.wLength \in Nat /\ UcDescLen[req.desc] \in Nat /\ req.desc # "none"
  BY UcConstants DEF UcRequests
<1>3. /\ UcDue(req) \in Nat /\ UcDue(req) <= UcDescLen[req.desc]
      /\ UcDue(req) = ResponseLen(UcDescLen[req.desc], req.wLength)
  BY <1>2, UcMinFacts DEF UcDue, ResponseLen
<1>4. ResponseOf(req).desc = req.desc /\ ResponseOf(req).sent = 0
  BY DEF ResponseOf
<1>5. /\ g_response' \in [desc : UcDescs, sent : Nat] /\ g_response'.desc = req.desc
      /\ g_response_len' \in Nat
      /\ g_response'.sent + g_response_len' = 0 + UcDue(req)
      /\ uc_fifo' \in Seq(UcBytes) /\ Len(uc_fifo') <= UcChunk
      /\ Len(uc_fifo') < UcChunk => g_response_len' = 0
      /\ UcBytesOf(req.desc, 0) \o uc_fifo' = UcBytesOf(req.desc, g_response'.sent)
  BY <1>1, <1>3, <1>4, UcSends
<1>6. UcBytesOf(req.desc, 0) = <<>>
  BY DEF UcBytesOf
<1>7. uc_fifo' = UcBytesOf(req.desc, g_response'.sent)
  BY <1>5, <1>6
<1>8. g_response'.sent + g_response_len' = UcDue(req)
  BY <1>3, <1>5
<1>9. UcSendType'
  BY <1>2, <1>3, <1>5, <1>8 DEF UcSendType
<1> QED BY <1>5, <1>7, <1>8, <1>9

LEMMA UcHandlersType ==
  ASSUME UcTypeOK, UcWaits, UcDongle
  PROVE  UcTypeOK' /\ UcWaits'
<1>1. UNCHANGED ucHostVars /\ uc_irq' \subseteq UcFlags /\ uc_flags' \subseteq UcFlags
  BY DEF UcDongle, usb_handle_irq, usb_handle_ctl_ep_setup, usb_handle_ctl_ep_data,
         usb_handle_ctl_ep_status, UcTypeOK
<1>2. UcWaits'
  BY <1>1 DEF UcWaits, ucHostVars
<1>3. /\ UcSendType' /\ control_request' \in UcRequests /\ g_stall' \in BOOLEAN
      /\ uc_data' \in UcAnswers /\ uc_status' \in UcAnswers
  <2>1. CASE usb_handle_irq
    BY <2>1 DEF usb_handle_irq, ucHandlerVars, UcTypeOK, UcSendType
  <2>2. CASE usb_handle_ctl_ep_setup
    <3>1. /\ control_request' \in UcRequests /\ uc_status' \in UcAnswers
          /\ uc_data' \in UcAnswers
      BY <2>2 DEF usb_handle_ctl_ep_setup, UcTypeOK, UcAnswers
    <3>2. CASE /\ uc_asked.desc \in UcDescs /\ g_stall' = FALSE
               /\ usb_send_response(ResponseOf(uc_asked),
                     ResponseLen(UcDescLen[uc_asked.desc], uc_asked.wLength))
      <4>1. UcSendType'
        BY <3>2, UcSendsFirst DEF UcTypeOK
      <4> QED BY <3>1, <3>2, <4>1
    <3>3. CASE usb_send_response(UcNoResponse, 0) /\ g_stall' = TRUE
      <4>1. /\ g_response' = UcNoResponse /\ g_response_len' = 0
            /\ uc_fifo' \in Seq(UcBytes) /\ Len(uc_fifo') = 0
        BY <3>3, UcSendsNone
      <4>2. UcSendType'
        BY <4>1, UcConstants DEF UcSendType, UcNoResponse
      <4> QED BY <3>1, <3>3, <4>2
    <3>4. CASE /\ usb_send_response(g_response, UcMin(g_response_len, uc_asked.wLength))
               /\ g_stall' = (uc_asked.desc = "refused")
      <4>1. uc_asked.wLength \in Nat /\ g_response_len \in Nat
        BY UcConstants DEF UcTypeOK, UcRequests
      <4>2. /\ UcMin(g_response_len, uc_asked.wLength) \in Nat
            /\ UcMin(g_response_len, uc_asked.wLength) <= g_response_len
        BY <4>1, UcMinFacts
      <4>3. UcSendType'
        BY <3>4, <4>2, UcSendsRest
      <4> QED BY <3>1, <3>4, <4>3
    <3> QED BY <2>2, <3>2, <3>3, <3>4 DEF usb_handle_ctl_ep_setup
  <2>3. CASE usb_handle_ctl_ep_data
    <3>1. /\ usb_send_response(g_response, g_response_len) /\ g_stall' = FALSE
          /\ uc_data' \in UcAnswers
          /\ UNCHANGED <<control_request, uc_status>>
      BY <2>3 DEF usb_handle_ctl_ep_data, DataAnswer, UcAnswers
    <3>2. g_response_len \in Nat /\ g_response_len <= g_response_len
      BY DEF UcTypeOK
    <3>3. UcSendType'
      BY <3>1, <3>2, UcSendsRest
    <3> QED BY <3>1, <3>3 DEF UcTypeOK
  <2>4. CASE usb_handle_ctl_ep_status
    BY <2>4 DEF usb_handle_ctl_ep_status, ucHandlerVars, UcTypeOK, UcSendType, UcAnswers
  <2> QED BY <2>1, <2>2, <2>3, <2>4 DEF UcDongle
<1> QED BY <1>1, <1>2, <1>3 DEF UcTypeOK, UcSendType, ucHostVars

LEMMA UcHostType ==
  ASSUME UcTypeOK, UcWaits, UcHost \/ (\E req \in UcRequests : UcSetup(req)) \/ UNCHANGED ucVars
  PROVE  UcTypeOK' /\ UcWaits'
<1>1. CASE UcTake
  <2> DEFINE got == uc_got \o uc_fifo
             over == Len(uc_fifo) < UcChunk \/ Len(got) >= uc_asked.wLength
  <2>1. /\ uc_stage = "data" /\ uc_got' = got /\ uc_stage' = IF over THEN "status" ELSE "data"
        /\ uc_flags' = uc_flags \cup {IF over THEN "status" ELSE "data"}
        /\ uc_data' = "nak"
        /\ UNCHANGED <<ucHandlerVars, uc_irq, uc_fifo, uc_status, uc_asked, uc_mixed>>
    BY <1>1 DEF UcTake
  <2>2. got \in Seq(UcBytes) /\ Len(got) = Len(uc_got) + Len(uc_fifo)
    BY DEF UcTypeOK
  <2>3. uc_asked.wLength \in Nat /\ Len(uc_got) < uc_asked.wLength
    BY <2>1, UcConstants DEF UcTypeOK, UcRequests, UcWaits
  <2>4. Len(uc_got) \in Nat /\ Len(uc_fifo) \in Nat /\ Len(uc_fifo) <= UcChunk
    BY DEF UcTypeOK
  <2>5. Len(got) < uc_asked.wLength + UcChunk
    BY <2>2, <2>3, <2>4, UcConstants
  <2>6. UcTypeOK'
    BY <2>1, <2>2, <2>5 DEF UcTypeOK, ucHandlerVars, UcFlags, UcAnswers
  <2>7. UcWaits'
    <3>1. ~over => Len(got) < uc_asked.wLength
      BY <2>2, <2>3, <2>4
    <3> QED BY <2>1, <3>1 DEF UcWaits
  <2> QED BY <2>6, <2>7
<1>2. CASE UcStalled \/ UcDone
  BY <1>2 DEF UcStalled, UcDone, UcTypeOK, UcWaits, ucHandlerVars
<1>3. ASSUME NEW req \in UcRequests, UcSetup(req)
      PROVE  UcTypeOK' /\ UcWaits'
  <2>1. req.wLength \in Nat /\ req.wLength > 0
    BY UcConstants DEF UcRequests
  <2>2. /\ uc_asked' = req /\ uc_stage' = "data" /\ uc_got' = <<>> /\ uc_mixed' \in BOOLEAN
        /\ uc_flags' = uc_flags \cup {"setup"} /\ uc_data' = "nak" /\ uc_status' = "nak"
        /\ UNCHANGED <<ucHandlerVars, uc_irq, uc_fifo>>
    BY <1>3 DEF UcSetup
  <2>3. <<>> \in Seq(UcBytes) /\ Len(<<>>) = 0
    OBVIOUS
  <2> QED BY <2>1, <2>2, <2>3, UcConstants
          DEF UcTypeOK, UcWaits, ucHandlerVars, UcFlags, UcAnswers
<1>4. CASE UNCHANGED ucVars
  BY <1>4 DEF ucVars, ucHandlerVars, ucHostVars, UcTypeOK, UcWaits
<1> QED BY <1>1, <1>2, <1>3, <1>4 DEF UcHost

LEMMA UcHandlersPhase ==
  ASSUME UcInv, UcDongle
  PROVE  UcPhases'
<1> SUFFICES ASSUME ~uc_mixed, uc_asked.desc \in UcDescs
             PROVE  UcUnread' \/ ((UcOffered \/ UcWanted) /\ UcFollows)' \/ UcServed'
  <2>1. uc_mixed' = uc_mixed /\ uc_asked' = uc_asked
    BY DEF UcDongle, usb_handle_irq, usb_handle_ctl_ep_setup, usb_handle_ctl_ep_data,
           usb_handle_ctl_ep_status, ucHostVars
  <2> QED BY <2>1 DEF UcPhases
<1>1. UcUnread \/ ((UcOffered \/ UcWanted) /\ UcFollows) \/ UcServed
  BY DEF UcInv, UcPhases
<1>2. CASE usb_handle_irq
  <2>1. /\ uc_flags # {} /\ uc_irq' = uc_flags
        /\ UNCHANGED <<g_response, g_response_len, uc_flags, uc_fifo, uc_data, uc_asked,
                       uc_stage, uc_got>>
    BY <1>2 DEF usb_handle_irq, ucHandlerVars, ucHostVars
  <2> QED BY <1>1, <2>1 DEF UcUnread, UcOffered, UcWanted, UcServed, UcFollows, UcDue
<1>3. CASE usb_handle_ctl_ep_setup
  <2>1. UcUnread /\ uc_irq' = {} /\ uc_flags' = {}
    BY <1>1, <1>3
       DEF usb_handle_ctl_ep_setup, UcUnread, UcOffered, UcWanted, UcServed
  <2>2. uc_asked.desc \notin UcUnknown /\ uc_asked \in UcRequests
    BY UcConstants DEF UcInv, UcTypeOK
  <2>3. /\ usb_send_response(ResponseOf(uc_asked),
              ResponseLen(UcDescLen[uc_asked.desc], uc_asked.wLength))
        /\ g_stall' = FALSE /\ uc_data' = IF g_stall' THEN "stall" ELSE "ack"
        /\ uc_asked' = uc_asked /\ uc_stage' = uc_stage /\ uc_got' = uc_got
    BY <1>3, <2>2 DEF usb_handle_ctl_ep_setup, ucHostVars
  <2>4. /\ g_response'.desc = uc_asked.desc
        /\ g_response'.sent + g_response_len' = UcDue(uc_asked)
        /\ Len(uc_fifo') < UcChunk => g_response_len' = 0
        /\ uc_fifo' = UcBytesOf(uc_asked.desc, g_response'.sent)
        /\ UcSendType'
    BY <2>2, <2>3, UcSendsFirst DEF UcInv
  <2>5. uc_got' \o uc_fifo' = UcBytesOf(uc_asked.desc, g_response'.sent)
    <3>1. uc_got' = <<>> /\ uc_fifo' \in Seq(UcBytes)
      BY <2>1, <2>3, <2>4 DEF UcUnread, UcSendType
    <3>2. <<>> \o uc_fifo' = uc_fifo'
      BY <3>1
    <3> QED BY <3>1, <3>2, <2>4
  <2>6. UcOffered'
    BY <2>1, <2>3, <2>4, <2>5 DEF UcOffered, UcUnread
  <2>7. UcFollows'
    BY <2>3, <2>4 DEF UcFollows, UcDue
  <2> QED BY <2>6, <2>7
<1>4. CASE usb_handle_ctl_ep_data
  <2>1. UcWanted /\ UcFollows /\ uc_irq' = {} /\ uc_flags' = {}
    BY <1>1, <1>4
       DEF usb_handle_ctl_ep_data, UcUnread, UcOffered, UcWanted, UcServed
  <2>2. /\ usb_send_response(g_response, g_response_len) /\ uc_data' = "ack"
        /\ uc_asked' = uc_asked /\ uc_stage' = uc_stage /\ uc_got' = uc_got
    BY <1>4 DEF usb_handle_ctl_ep_data, DataAnswer, ucHostVars
  <2>3. g_response \in [desc : UcDescs, sent : Nat] /\ g_response_len \in Nat
    BY <2>1 DEF UcInv, UcTypeOK, UcFollows
  <2>4. /\ g_response'.desc = g_response.desc
        /\ g_response'.sent + g_response_len' = g_response.sent + g_response_len
        /\ Len(uc_fifo') < UcChunk => g_response_len' = 0
        /\ UcBytesOf(g_response.desc, g_response.sent) \o uc_fifo'
             = UcBytesOf(g_response.desc, g_response'.sent)
    BY <2>2, <2>3, UcSends
  <2>5. uc_got' \o uc_fifo' = UcBytesOf(uc_asked.desc, g_response'.sent)
    BY <2>1, <2>2, <2>4 DEF UcWanted, UcFollows
  <2>6. UcOffered'
    BY <2>1, <2>2, <2>4, <2>5 DEF UcOffered, UcWanted
  <2>7. UcFollows'
    BY <2>1, <2>2, <2>4 DEF UcFollows, UcDue
  <2> QED BY <2>6, <2>7
<1>5. CASE usb_handle_ctl_ep_status
  <2>1. /\ uc_irq' = {} /\ uc_flags' = uc_flags \ {"status"} /\ uc_irq = {"status"}
        /\ uc_asked' = uc_asked /\ uc_stage' = uc_stage /\ uc_got' = uc_got
    BY <1>5 DEF usb_handle_ctl_ep_status, ucHostVars
  <2>2. UcServed
    BY <1>1, <2>1 DEF UcUnread, UcOffered, UcWanted
  <2>3. uc_flags' \subseteq {"status"} /\ uc_irq' \subseteq uc_flags'
    BY <2>1, <2>2 DEF UcServed
  <2>4. UcDue(uc_asked)' = UcDue(uc_asked)
    BY <2>1 DEF UcDue
  <2> QED BY <2>1, <2>2, <2>3, <2>4 DEF UcServed
<1> QED BY <1>2, <1>3, <1>4, <1>5 DEF UcDongle

LEMMA UcHostPhase ==
  ASSUME UcInv, UcHost \/ (\E req \in UcRequests : UcSetup(req)) \/ UNCHANGED ucVars
  PROVE  UcPhases'
<1> SUFFICES ASSUME ~uc_mixed', uc_asked'.desc \in UcDescs
             PROVE  UcUnread' \/ ((UcOffered \/ UcWanted) /\ UcFollows)' \/ UcServed'
  BY DEF UcPhases
<1>1. CASE \E req \in UcRequests : UcSetup(req)
  <2>1. uc_irq = {} /\ uc_flags = {}
    BY <1>1 DEF UcSetup
  <2>2. UcUnread'
    BY <1>1, <2>1 DEF UcSetup, UcUnread
  <2> QED BY <2>2
<1>2. CASE UcHost \/ UNCHANGED ucVars
  <2>1. UNCHANGED <<g_response, g_response_len, uc_irq, uc_fifo, uc_asked, uc_mixed>>
    BY <1>2 DEF UcHost, UcTake, UcStalled, UcDone, ucVars, ucHandlerVars, ucHostVars
  <2>2. UcUnread \/ ((UcOffered \/ UcWanted) /\ UcFollows) \/ UcServed
    BY <2>1 DEF UcInv, UcPhases
  <2>3. UcFollows => UcFollows'
    BY <2>1 DEF UcFollows, UcDue
  <2>4. CASE UcTake
    <3> DEFINE over == Len(uc_fifo) < UcChunk \/ Len(uc_got \o uc_fifo) >= uc_asked.wLength
    <3>1. UcOffered /\ UcFollows
      BY <2>2, <2>4 DEF UcTake, UcUnread, UcWanted, UcServed
    <3>2. /\ uc_got' = UcBytesOf(uc_asked.desc, g_response.sent)
          /\ uc_stage' = IF over THEN "status" ELSE "data"
          /\ uc_flags' = {IF over THEN "status" ELSE "data"}
          /\ uc_data' = "nak" /\ uc_irq' = {}
      BY <2>1, <2>4, <3>1 DEF UcTake, UcOffered
    <3>3. CASE over
      <4>1. /\ g_response.sent \in Nat /\ g_response_len \in Nat
            /\ uc_asked.wLength \in Nat /\ UcDescLen[uc_asked.desc] \in Nat
        BY <2>1, UcConstants DEF UcInv, UcTypeOK, UcRequests
      <4>2. UcDue(uc_asked) <= uc_asked.wLength
        BY <4>1, UcMinFacts DEF UcDue
      <4>3. Len(UcBytesOf(uc_asked.desc, g_response.sent)) = g_response.sent
        BY <4>1 DEF UcBytesOf
      <4>4. g_response_len = 0 \/ g_response.sent >= uc_asked.wLength
        BY <3>1, <3>3, <4>3 DEF UcOffered
      <4>5. g_response.sent = UcDue(uc_asked)
        BY <3>1, <4>1, <4>2, <4>4 DEF UcFollows
      <4>6. UcDue(uc_asked)' = UcDue(uc_asked)
        BY <2>1 DEF UcDue
      <4> QED BY <2>1, <3>2, <3>3, <4>5, <4>6 DEF UcServed
    <3>4. CASE ~over
      <4>1. UcWanted'
        BY <2>1, <3>2, <3>4 DEF UcWanted
      <4> QED BY <2>3, <3>1, <4>1
    <3> QED BY <3>3, <3>4
  <2>5. CASE UcStalled \/ UcDone
    <3>1. UcServed
      BY <2>2, <2>5 DEF UcStalled, UcDone, UcUnread, UcOffered, UcWanted
    <3>2. UcDue(uc_asked)' = UcDue(uc_asked)
      BY <2>1 DEF UcDue
    <3> QED BY <2>1, <2>5, <3>1, <3>2 DEF UcStalled, UcDone, UcServed
  <2>6. CASE UNCHANGED ucVars
    BY <2>1, <2>2, <2>3, <2>6
       DEF ucVars, ucHostVars, UcUnread, UcOffered, UcWanted, UcServed, UcDue
  <2> QED BY <1>2, <2>4, <2>5, <2>6 DEF UcHost
<1> QED BY <1>1, <1>2

LEMMA UcStepInv == UcInv /\ [UcNext]_ucVars => UcInv'
<1> SUFFICES ASSUME UcInv, [UcNext]_ucVars PROVE UcInv'
  OBVIOUS
<1>1. CASE UcDongle
  BY <1>1, UcHandlersType, UcHandlersPhase DEF UcInv
<1>2. CASE UcHost \/ (\E req \in UcRequests : UcSetup(req)) \/ UNCHANGED ucVars
  BY <1>2, UcHostType, UcHostPhase DEF UcInv
<1> QED BY <1>1, <1>2 DEF UcNext

\* A request that was answered to the end, whatever the host gave up before it, has brought the
\* bytes of its descriptor from the first on, as many as it asked for or as there are
\* (usb_prepare_desc_data, usb_send_response).
THEOREM UcExactHolds == UcSpec => []UcExact
<1>1. UcInv => UcExact
  BY DEF UcInv, UcPhases, UcUnread, UcOffered, UcWanted, UcServed, UcExact, UcBytesOf, UcDue
<1> QED BY <1>1, UcInitInv, UcStepInv, PTL DEF UcSpec

-----------------------------------------------------------------------------
(***************************************************************************)
(* The vacuum controller (vendor/vacuum_controller): what its receiver     *)
(* sees is what it was told, but for the frame under way; and what was not *)
(* read while a frame was sent is told by a repetition later.              *)
(***************************************************************************)

\* The key the controller has told it is down.
VcTold == CASE last_btn_cnt = 1 -> one_key_press_save
            [] last_btn_cnt = 2 /\ DoubleKeySendFlag -> double_key_press_save
            [] OTHER -> NoVcKey

\* What was told fits the number of buttons it was told for.
VcKeysAgree ==
  /\ last_btn_cnt # 3 /\ (DoubleKeySendFlag => last_btn_cnt = 2)
  /\ last_btn_cnt = 1 \/ DoubleKeySendFlag => VcTold # NoVcKey

\* The frame that is sent still waits to be taken.
VcUntaken == vc_sending > 0 /\ vc_seq # vr_seq

VcRanges ==
  /\ ~vc_asleep => vc_cnt_basic < VC_BASIC
  /\ ~vc_link => vc_sending = 0

\* The receiver sees what the controller has told, but for the frame that is sent, whose events
\* fit what it sees; and nothing in deep sleep.  It waits for a release while it sees a key.
VcAgrees ==
  ~vc_spoilt =>
    /\ VcKeysAgree /\ (vr_not_release <=> vr_key # NoVcKey)
    /\ IF vc_asleep THEN vr_key = NoVcKey
       ELSE IF VcUntaken
            THEN /\ InTurn(vr_key, vc_pkt) /\ FrameShown(vr_key, vc_pkt) = VcTold
                 /\ KeptDown(vc_pkt) <=> VcTold # NoVcKey
            ELSE vr_key = VcTold

\* The receiver's patience lasts: it has counted no more passes than the controller has since it
\* sent a frame, but for those that were lost and for power and down.
VcCounted == IF key_change_flg = "change" THEN key_repeat_cnt ELSE key_repeat_cnt + 1
VcPatient ==
  /\ key_change_flg = "none" => vc_sending = 0 /\ (~vc_spoilt => ~vr_not_release)
  /\ ~vc_spoilt /\ vr_not_release =>
       /\ vr_release_cnt < VR_TIMEOUT
       /\ vc_sending = 0 /\ ~vc_mute => vr_release_cnt <= VcCounted

\* How far the buttons are, in passes without a change or a frame: the samples agree, ...
VcSampled ==
  vc_still > 0 => /\ vc_sending = 0 /\ vc_sample = vc_down
                  /\ vc_run >= VC_DEBOUNCE \/ vc_run >= vc_still
\* ... the filter has them, ...
VcFiltered ==
  /\ vc_still >= VC_DEBOUNCE => btn_filter_last = vc_down
  /\ key_change_flg = "none" => btn_filter_last = {} /\ last_btn_cnt = 0
\* ... and what was dropped while a frame was sent was made good by a repetition.
VcRepeated ==
  vc_still > VC_DEBOUNCE /\ vc_down # {"power", "down"} =>
    \/ last_btn_cnt = Count
    \/ key_change_flg = "same" /\ key_repeat_cnt + VC_DEBOUNCE + 1 >= vc_still
\* Two buttons that mean something were told.
VcMeans ==
  vc_still > 0 /\ ~vc_spoilt /\ ~DoubleKeySendFlag /\ last_btn_cnt = 2 /\ Count = 2 =>
    DoubleKey(vc_down) = NoVcKey

VcStillInv == VcSampled /\ VcFiltered /\ VcRepeated /\ VcMeans

VcInv == VcTypeOK /\ VcRanges /\ VcAgrees /\ VcPatient /\ VcStillInv

-----------------------------------------------------------------------------
LEMMA VcConstants ==
  /\ VC_DEBOUNCE \in Nat /\ VC_DEBOUNCE > 0 /\ VC_REPEAT \in Nat /\ VC_REPEAT > 0
  /\ VC_RETRY \in Nat /\ VC_RETRY > 0 /\ VC_BASIC \in Nat /\ VC_BASIC > 0
  /\ VC_NO_LINK \in Nat /\ VC_NO_LINK > 0 /\ VC_NO_QUICK \in Nat /\ VC_NO_QUICK > 0
  /\ VR_TIMEOUT \in Nat /\ VR_TIMEOUT > VC_REPEAT + 2
  /\ VcStill \in Nat /\ VcStill > 0 /\ VcStill >= VC_DEBOUNCE + VC_REPEAT + 2
  /\ VcSeqs \in Nat /\ VcSeqs > 1
  /\ VC_SEQ_SAVED \in Nat /\ VC_SEQ_SAVED > 0 /\ VC_SEQ_SAVED <= VcSeqs
  BY VcAssumption

LEMMA VcChord == {} \in VcChords /\ \A c \in VcChords : c \subseteq VcButtons
  BY VcAssumption DEF VcButtons

\* How many buttons a chord has.
LEMMA VcCounts ==
  ASSUME NEW c, c \subseteq VcButtons
  PROVE  /\ Cardinality(c) \in 0..3
         /\ Cardinality(c) = 0 <=> c = {}
         /\ Cardinality(c) = 2 =>
              c \in {{"up", "power"}, {"up", "down"}, {"power", "down"}}
<1>1. c \in {{}, {"up"}, {"power"}, {"down"}, {"up", "power"}, {"up", "down"}, {"power", "down"},
             {"up", "power", "down"}}
  BY DEF VcButtons
<1>2. Cardinality({}) = 0
  BY FS_EmptySet
<1>3. ASSUME NEW a
      PROVE  IsFiniteSet({a}) /\ Cardinality({a}) = 1
  BY FS_Singleton
<1>4. ASSUME NEW a, NEW b, a # b
      PROVE  IsFiniteSet({a, b}) /\ Cardinality({a, b}) = 2
  <2>1. {a, b} = {a} \cup {b} /\ b \notin {a}
    BY <1>4
  <2>2. IsFiniteSet({a}) /\ Cardinality({a}) = 1
    BY <1>3
  <2>3. /\ IsFiniteSet({a} \cup {b})
        /\ Cardinality({a} \cup {b}) = IF b \in {a} THEN Cardinality({a}) ELSE Cardinality({a}) + 1
    BY <2>2, FS_AddElement
  <2> QED BY <2>1, <2>2, <2>3
<1>5. Cardinality({"up", "power", "down"}) = 3
  <2>1. {"up", "power", "down"} = {"up", "power"} \cup {"down"} /\ "down" \notin {"up", "power"}
    OBVIOUS
  <2>2. IsFiniteSet({"up", "power"}) /\ Cardinality({"up", "power"}) = 2
    BY <1>4
  <2> QED BY <2>1, <2>2, FS_AddElement
<1>6. /\ Cardinality({"up"}) = 1 /\ Cardinality({"power"}) = 1 /\ Cardinality({"down"}) = 1
  BY <1>3
<1>7. /\ Cardinality({"up", "power"}) = 2 /\ Cardinality({"up", "down"}) = 2
      /\ Cardinality({"power", "down"}) = 2
  BY <1>4
<1> QED BY <1>1, <1>2, <1>5, <1>6, <1>7

\* What is down, as button_detect_proc sees it.
LEMMA VcDown ==
  ASSUME vc_down \in VcChords
  PROVE  /\ Count \in 0..3 /\ (Count = 0 <=> vc_down = {})
         /\ Count = 1 => TheKey \in VcButtons
         /\ DoubleKey(vc_down) \in VcKeys
         /\ Count = 2 /\ DoubleKey(vc_down) = NoVcKey => vc_down = {"power", "down"}
<1>1. vc_down \subseteq VcButtons
  BY VcChord
<1>2. /\ Count \in 0..3 /\ (Count = 0 <=> vc_down = {})
      /\ Count = 2 => vc_down \in {{"up", "power"}, {"up", "down"}, {"power", "down"}}
  BY <1>1, VcCounts DEF Count
<1>3. Count = 1 => TheKey \in VcButtons
  <2> SUFFICES ASSUME Count = 1 PROVE TheKey \in VcButtons
    OBVIOUS
  <2>1. \E k \in VcButtons : k \in vc_down
    BY <1>1, <1>2
  <2> QED BY <2>1 DEF TheKey
<1>4. DoubleKey(vc_down) \in VcKeys
  BY DEF DoubleKey, VcKeys, NoVcKey, VcButtons
<1>5. DoubleKey(vc_down) = NoVcKey => vc_down # {"up", "power"} /\ vc_down # {"up", "down"}
  BY DEF DoubleKey, NoVcKey
<1> QED BY <1>2, <1>3, <1>4, <1>5

LEMMA VcNames == "none" \notin VcButtons /\ NoVcKey = "none" /\ VcButtons \subseteq VcKeys
                 /\ NoVcKey \in VcKeys
  BY DEF VcButtons, NoVcKey, VcKeys

LEMMA VcEvType ==
  ASSUME NEW k \in VcKeys
  PROVE  Ev("repeat", k) \in VcEvents /\ Ev("pressed", k) \in VcEvents
         /\ Ev("released", k) \in VcEvents
  BY DEF Ev, VcEvents

LEMMA VcFrames ==
  ASSUME NEW a \in VcEvents, NEW b \in VcEvents
  PROVE  /\ <<>> \in Seq(VcEvents) /\ Len(<<>>) = 0
         /\ <<a>> \in Seq(VcEvents) /\ Len(<<a>>) = 1
         /\ <<a, b>> \in Seq(VcEvents) /\ Len(<<a, b>>) = 2
  OBVIOUS

LEMMA VcKeyEventsType ==
  ASSUME VcTypeOK
  PROVE  KeyEvents \in Seq(VcEvents) /\ Len(KeyEvents) <= 2
<1>1. /\ one_key_press_save \in VcKeys /\ double_key_press_save \in VcKeys
      /\ DoubleKey(vc_down) \in VcKeys /\ (Count = 1 => TheKey \in VcKeys)
  BY VcDown, VcNames DEF VcTypeOK
<1>2. \A k \in VcKeys : Ev("repeat", k) \in VcEvents /\ Ev("pressed", k) \in VcEvents
                        /\ Ev("released", k) \in VcEvents
  BY VcEvType
<1>3. \/ KeyEvents = <<>>
      \/ \E a \in VcEvents : KeyEvents = <<a>>
      \/ \E a, b \in VcEvents : KeyEvents = <<a, b>>
  BY <1>1, <1>2 DEF KeyEvents
<1>4. Ev("pressed", NoVcKey) \in VcEvents
  BY VcNames, <1>2
<1>5. CASE KeyEvents = <<>>
  BY <1>4, <1>5, VcFrames
<1>6. CASE \E a \in VcEvents : KeyEvents = <<a>>
  BY <1>6, VcFrames
<1>7. CASE \E a, b \in VcEvents : KeyEvents = <<a, b>>
  BY <1>7, VcFrames
<1> QED BY <1>3, <1>5, <1>6, <1>7

\* Frames of one event, and of two.
LEMMA VcOne ==
  ASSUME NEW key, NEW e
  PROVE  /\ InTurn(key, <<e>>) <=> Fits(key, e)
         /\ FrameShown(key, <<e>>) = Shown(key, e)
         /\ KeptDown(<<e>>) <=> e.ctrl # "released"
<1>1. DOMAIN <<e>> = {1} /\ <<e>>[1] = e /\ Len(<<e>>) = 1
  OBVIOUS
<1>2. <<e>> # <<>>
  OBVIOUS
<1> QED BY <1>1, <1>2 DEF InTurn, FrameShown, KeptDown

LEMMA VcTwo ==
  ASSUME NEW key, NEW e, NEW f
  PROVE  /\ InTurn(key, <<e, f>>) <=> Fits(key, e) /\ Fits(Shown(key, e), f)
         /\ FrameShown(key, <<e, f>>) = Shown(Shown(key, e), f)
         /\ KeptDown(<<e, f>>) <=> f.ctrl # "released"
<1>1. DOMAIN <<e, f>> = {1, 2} /\ <<e, f>>[1] = e /\ <<e, f>>[2] = f /\ Len(<<e, f>>) = 2
  OBVIOUS
<1>2. <<e, f>> # <<>>
  OBVIOUS
<1> QED BY <1>1, <1>2 DEF InTurn, FrameShown, KeptDown

\* The table of button_detect_proc: the events of a change fit what was told before, and
\* tell what is down then.
LEMMA VcTable ==
  ASSUME VcTypeOK, VcKeysAgree, button_detect_proc, ReadKey, Count # 3,
         ~(Count = 2 /\ last_btn_cnt = 2 /\ ~DoubleKeySendFlag /\ DoubleKey(vc_down) # NoVcKey)
  PROVE  /\ VcKeysAgree'
         /\ KeyEvents = <<>> => VcTold' = VcTold
         /\ KeyEvents # <<>> => /\ InTurn(VcTold, KeyEvents)
                                /\ FrameShown(VcTold, KeyEvents) = VcTold'
                                /\ KeptDown(KeyEvents) <=> VcTold' # NoVcKey
         /\ VcTold # NoVcKey => KeyEvents # <<>>
<1>1. /\ Count \in 0..2 /\ last_btn_cnt \in 0..2
      /\ Count = 1 => TheKey # NoVcKey
  BY VcDown, VcNames DEF VcTypeOK, VcKeysAgree
<1>2. /\ last_btn_cnt' = Count
      /\ DoubleKeySendFlag' = (SendsDouble \/
               (DoubleKeySendFlag /\ ~(last_btn_cnt = 2 /\ Count \in {0, 1})))
      /\ one_key_press_save' = IF Count = 1 /\ last_btn_cnt \in {0, 2} THEN TheKey
                               ELSE one_key_press_save
      /\ double_key_press_save' = IF SendsDouble THEN DoubleKey(vc_down)
                                  ELSE double_key_press_save
  BY DEF button_detect_proc
<1>3. ASSUME NEW k, NEW e
      PROVE  <<e>> # <<>>
  OBVIOUS
<1>4. ASSUME NEW e, NEW f
      PROVE  <<e, f>> # <<>>
  OBVIOUS
<1>5. ASSUME NEW k, NEW l
      PROVE  /\ Shown(k, Ev("pressed", l)) = l /\ Shown(k, Ev("released", l)) = NoVcKey
             /\ Shown(k, Ev("repeat", l)) = k
             /\ Fits(k, Ev("pressed", l)) <=> k = NoVcKey
             /\ Fits(k, Ev("released", l)) <=> k = l
             /\ Fits(k, Ev("repeat", l)) <=> k # NoVcKey
             /\ Ev("pressed", l).ctrl # "released" /\ Ev("repeat", l).ctrl # "released"
             /\ Ev("released", l).ctrl = "released"
  BY DEF Shown, Fits, Ev
<1>6. CASE Count = 0
  <2>1. ~SendsDouble /\ ~DoubleKeySendFlag' /\ last_btn_cnt' = 0 /\ VcTold' = NoVcKey
    <3>1. ~SendsDouble
      BY <1>6 DEF SendsDouble
    <3>2. ~DoubleKeySendFlag' /\ last_btn_cnt' = 0
      BY <1>2, <1>6, <3>1 DEF VcKeysAgree
    <3> QED BY <3>1, <3>2 DEF VcTold
  <2>2. VcKeysAgree'
    BY <2>1 DEF VcKeysAgree
  <2>3. CASE last_btn_cnt = 1
    <3>1. KeyEvents = <<Ev("released", VcTold)>>
      BY <1>6, <2>3 DEF KeyEvents, VcTold
    <3> QED BY <2>1, <2>2, <3>1, <1>3, <1>5, VcOne
  <2>4. CASE last_btn_cnt = 2 /\ DoubleKeySendFlag
    <3>1. KeyEvents = <<Ev("released", VcTold)>>
      BY <1>6, <2>4 DEF KeyEvents, VcTold
    <3> QED BY <2>1, <2>2, <3>1, <1>3, <1>5, VcOne
  <2>5. CASE last_btn_cnt # 1 /\ ~(last_btn_cnt = 2 /\ DoubleKeySendFlag)
    <3>1. KeyEvents = <<>> /\ VcTold = NoVcKey
      BY <1>6, <2>5 DEF KeyEvents, VcTold
    <3> QED BY <2>1, <2>2, <3>1
  <2> QED BY <2>3, <2>4, <2>5
<1>7. CASE Count = 1
  <2>1. ~SendsDouble /\ ~DoubleKeySendFlag' /\ last_btn_cnt' = 1 /\ VcTold' = one_key_press_save'
    BY <1>1, <1>2, <1>7 DEF SendsDouble, VcKeysAgree, VcTold
  <2>2. CASE last_btn_cnt = 0
    <3>1. KeyEvents = <<Ev("pressed", TheKey)>> /\ VcTold = NoVcKey /\ VcTold' = TheKey
      BY <1>2, <1>7, <2>1, <2>2 DEF KeyEvents, VcTold
    <3>2. VcKeysAgree'
      BY <1>1, <1>7, <2>1, <3>1 DEF VcKeysAgree
    <3> QED BY <1>1, <1>7, <3>1, <3>2, <1>3, <1>5, VcOne
  <2>3. CASE last_btn_cnt = 1
    <3>1. KeyEvents = <<Ev("repeat", TheKey)>> /\ VcTold' = VcTold /\ VcTold # NoVcKey
      BY <1>2, <1>7, <2>1, <2>3 DEF KeyEvents, VcTold, VcKeysAgree
    <3>2. VcKeysAgree'
      BY <2>1, <3>1 DEF VcKeysAgree
    <3> QED BY <3>1, <3>2, <1>3, <1>5, VcOne
  <2>4. CASE last_btn_cnt = 2 /\ DoubleKeySendFlag
    <3>1. /\ KeyEvents = <<Ev("released", VcTold), Ev("pressed", TheKey)>>
          /\ VcTold' = TheKey
      BY <1>2, <1>7, <2>1, <2>4 DEF KeyEvents, VcTold
    <3>2. VcKeysAgree'
      BY <1>1, <1>7, <2>1, <3>1 DEF VcKeysAgree
    <3> QED BY <1>1, <1>7, <3>1, <3>2, <1>4, <1>5, VcTwo
  <2>5. CASE last_btn_cnt = 2 /\ ~DoubleKeySendFlag
    <3>1. KeyEvents = <<Ev("pressed", TheKey)>> /\ VcTold = NoVcKey /\ VcTold' = TheKey
      BY <1>2, <1>7, <2>1, <2>5 DEF KeyEvents, VcTold
    <3>2. VcKeysAgree'
      BY <1>1, <1>7, <2>1, <3>1 DEF VcKeysAgree
    <3> QED BY <1>1, <1>7, <3>1, <3>2, <1>3, <1>5, VcOne
  <2> QED BY <1>1, <2>2, <2>3, <2>4, <2>5
<1>8. CASE Count = 2 /\ last_btn_cnt \in {0, 1} /\ DoubleKey(vc_down) # NoVcKey
  <2>1. /\ DoubleKeySendFlag' /\ last_btn_cnt' = 2 /\ VcTold' = DoubleKey(vc_down)
    BY <1>2, <1>8 DEF SendsDouble, VcTold
  <2>2. VcKeysAgree'
    BY <1>8, <2>1 DEF VcKeysAgree
  <2>3. CASE last_btn_cnt = 0
    <3>1. KeyEvents = <<Ev("pressed", DoubleKey(vc_down))>> /\ VcTold = NoVcKey
      BY <1>8, <2>3 DEF KeyEvents, VcTold
    <3> QED BY <1>8, <2>1, <2>2, <3>1, <1>3, <1>5, VcOne
  <2>4. CASE last_btn_cnt = 1
    <3>1. KeyEvents = <<Ev("released", VcTold), Ev("pressed", DoubleKey(vc_down))>>
      BY <1>8, <2>4 DEF KeyEvents, VcTold
    <3> QED BY <1>8, <2>1, <2>2, <3>1, <1>4, <1>5, VcTwo
  <2> QED BY <1>8, <2>3, <2>4
<1>9. CASE Count = 2 /\ last_btn_cnt \in {0, 1} /\ DoubleKey(vc_down) = NoVcKey
  <2>1. ~DoubleKeySendFlag' /\ last_btn_cnt' = 2 /\ VcTold' = NoVcKey
    BY <1>2, <1>9 DEF SendsDouble, VcTold, VcKeysAgree
  <2>2. VcKeysAgree'
    BY <2>1 DEF VcKeysAgree
  <2>3. CASE last_btn_cnt = 0
    <3>1. KeyEvents = <<>> /\ VcTold = NoVcKey
      BY <1>9, <2>3 DEF KeyEvents, VcTold
    <3> QED BY <2>1, <2>2, <3>1
  <2>4. CASE last_btn_cnt = 1
    <3>1. KeyEvents = <<Ev("released", VcTold)>>
      BY <1>9, <2>4 DEF KeyEvents, VcTold
    <3> QED BY <2>1, <2>2, <3>1, <1>3, <1>5, VcOne
  <2> QED BY <1>9, <2>3, <2>4
<1>10. CASE Count = 2 /\ last_btn_cnt = 2
  <2>1. /\ DoubleKeySendFlag' = DoubleKeySendFlag /\ last_btn_cnt' = 2
        /\ double_key_press_save' = double_key_press_save /\ VcTold' = VcTold
    BY <1>2, <1>10 DEF SendsDouble, VcTold, VcTypeOK
  <2>2. VcKeysAgree'
    BY <2>1 DEF VcKeysAgree
  <2>3. CASE DoubleKeySendFlag
    <3>1. KeyEvents = <<Ev("repeat", DoubleKey(vc_down))>> /\ VcTold # NoVcKey
      BY <1>10, <2>3 DEF KeyEvents, VcKeysAgree
    <3> QED BY <2>1, <2>2, <3>1, <1>3, <1>5, VcOne
  <2>4. CASE ~DoubleKeySendFlag
    <3>1. KeyEvents = <<>> /\ VcTold = NoVcKey
      BY <1>10, <2>4 DEF KeyEvents, VcTold
    <3> QED BY <2>1, <2>2, <3>1
  <2> QED BY <2>3, <2>4
<1> QED BY <1>1, <1>6, <1>7, <1>8, <1>9, <1>10

-----------------------------------------------------------------------------
VcButtonType ==
  /\ {vc_sample, btn_filter_last} \subseteq VcChords
  /\ vc_run \in 1..VC_DEBOUNCE
  /\ key_change_flg \in {"none", "change", "same"} /\ key_repeat_cnt \in 0..VC_REPEAT
  /\ last_btn_cnt \in 0..3 /\ {one_key_press_save, double_key_press_save} \subseteq VcKeys
  /\ DoubleKeySendFlag \in BOOLEAN

VcRfType ==
  /\ vc_pkt \in Seq(VcEvents) /\ Len(vc_pkt) <= 2
  /\ {vc_seq, vr_seq} \subseteq 0..VcSeqs - 1
  /\ vc_sending \in 0..VC_RETRY + 1 /\ vc_no_ack \in 0..VC_NO_LINK
  /\ vr_key \in VcKeys /\ vr_release_cnt \in 0..VR_TIMEOUT
  /\ {vc_link, vr_knows, vr_not_release, vc_mute} \subseteq BOOLEAN
  /\ ~vc_link => vc_sending = 0

VcSleepType ==
  /\ vc_cnt_basic \in 0..VC_BASIC /\ vc_loop_cnt \in 0..VC_NO_QUICK
  /\ {vc_asleep, vc_first, vc_saved} \subseteq BOOLEAN
  /\ ~vc_asleep => vc_cnt_basic < VC_BASIC

LEMMA VcButtonStep ==
  ASSUME VcTypeOK, button_detect_proc
  PROVE  VcButtonType'
<1>1. vc_detect_button
  BY DEF button_detect_proc
<1>2. {vc_sample', btn_filter_last'} \subseteq VcChords
  BY <1>1 DEF vc_detect_button, VcTypeOK
<1>3. vc_run' \in 1..VC_DEBOUNCE
  <2>1. vc_run \in 1..VC_DEBOUNCE /\ vc_run' = Run
    BY <1>1 DEF vc_detect_button, VcTypeOK
  <2> QED BY <2>1, VcConstants DEF Run
<1>4. key_change_flg' \in {"none", "change", "same"}
  BY <1>1 DEF vc_detect_button, VcTypeOK
<1>5. key_repeat_cnt' \in 0..VC_REPEAT
  <2>1. key_repeat_cnt \in 0..VC_REPEAT
    BY DEF VcTypeOK
  <2>2. key_repeat_cnt' = IF Changed \/ RepeatDue THEN 0
                          ELSE IF Repeats THEN key_repeat_cnt + 1 ELSE key_repeat_cnt
    BY <1>1 DEF vc_detect_button
  <2>3. Repeats /\ ~RepeatDue => key_repeat_cnt # VC_REPEAT
    BY DEF RepeatDue
  <2> QED BY <2>1, <2>2, <2>3, VcConstants
<1>6. /\ last_btn_cnt' \in 0..3 /\ DoubleKeySendFlag' \in BOOLEAN
      /\ {one_key_press_save', double_key_press_save'} \subseteq VcKeys
  <2>1. /\ Count \in 0..3 /\ (Count = 1 => TheKey \in VcKeys)
        /\ DoubleKey(vc_down) \in VcKeys
    BY VcDown, VcNames DEF VcTypeOK
  <2>2. CASE ReadKey
    <3>1. SendsDouble \in BOOLEAN /\ DoubleKeySendFlag \in BOOLEAN
      BY DEF SendsDouble, VcTypeOK
    <3> QED BY <2>1, <2>2, <3>1 DEF button_detect_proc, VcTypeOK
  <2>3. CASE ~ReadKey
    BY <2>3 DEF button_detect_proc, vcKeyVars, VcTypeOK
  <2> QED BY <2>2, <2>3
<1> QED BY <1>2, <1>3, <1>4, <1>5, <1>6 DEF VcButtonType

LEMMA VcSeqNext ==
  ASSUME VcTypeOK
  PROVE  NextSeq \subseteq 0..VcSeqs - 1 /\ vc_seq % VC_SEQ_SAVED \in 0..VcSeqs - 1
<1>1. vc_seq \in Nat /\ VcSeqs \in Nat \ {0} /\ VC_SEQ_SAVED \in Nat \ {0} /\ VC_SEQ_SAVED <= VcSeqs
  BY VcConstants DEF VcTypeOK
<1>2. (vc_seq + 1) % VcSeqs \in 0..VcSeqs - 1
  BY <1>1
<1>3. vc_seq % VC_SEQ_SAVED \in 0..VC_SEQ_SAVED - 1
  BY <1>1
<1> QED BY <1>1, <1>2, <1>3 DEF NextSeq

LEMMA VcShownType ==
  ASSUME NEW key \in VcKeys, NEW pkt \in Seq(VcEvents)
  PROVE  FrameShown(key, pkt) \in VcKeys
<1>1. ASSUME NEW k \in VcKeys, NEW e \in VcEvents
      PROVE  Shown(k, e) \in VcKeys
  BY VcNames DEF Shown, VcEvents
<1>2. /\ Len(pkt) \in Nat
      /\ Len(pkt) = 1 => pkt[1] \in VcEvents
      /\ Len(pkt) # 0 /\ Len(pkt) # 1 => pkt[1] \in VcEvents /\ pkt[2] \in VcEvents
  <2>1. Len(pkt) \in Nat /\ \A i \in 1..Len(pkt) : pkt[i] \in VcEvents
    OBVIOUS
  <2>2. /\ Len(pkt) = 1 => 1 \in 1..Len(pkt)
        /\ Len(pkt) # 0 /\ Len(pkt) # 1 => 1 \in 1..Len(pkt) /\ 2 \in 1..Len(pkt)
    <3>1. 1 \in 1..1
      OBVIOUS
    <3>2. Len(pkt) # 0 /\ Len(pkt) # 1 => Len(pkt) >= 2
      <4>1. \A n \in Nat : n # 0 /\ n # 1 => n >= 2
        OBVIOUS
      <4>2. Len(pkt) \in Nat
        BY <2>1
      <4> QED BY <4>1, <4>2
    <3>3. Len(pkt) >= 2 => 1 \in 1..Len(pkt) /\ 2 \in 1..Len(pkt)
      BY <2>1
    <3> QED BY <3>1, <3>2, <3>3
  <2> QED BY <2>1, <2>2
<1> QED BY <1>1, <1>2 DEF FrameShown

\* The receiver's counter of passes keeps its range.
LEMMA VrPassType ==
  ASSUME VcTypeOK, NEW heard \in BOOLEAN, VrPass(heard)
  PROVE  vr_release_cnt' \in 0..VR_TIMEOUT /\ vc_mute' \in BOOLEAN
<1>1. vr_release_cnt \in 0..VR_TIMEOUT
  BY DEF VcTypeOK
<1>2. vr_release_cnt' \in 0..VR_TIMEOUT
  BY <1>1, VcConstants DEF VrPass
<1>3. vc_mute' \in BOOLEAN
  BY DEF VrPass
<1> QED BY <1>2, <1>3

\* A frame on the air: what becomes of it, and of what the receiver sees.
LEMMA VcSendStep ==
  ASSUME VcTypeOK, NEW pkt \in Seq(VcEvents), NEW seq \in 0..VcSeqs - 1,
         NEW left \in 2..VC_RETRY + 1, SendReport(pkt, seq, left)
  PROVE  /\ vc_sending' \in 0..VC_RETRY + 1 /\ vc_no_ack' \in 0..VC_NO_LINK
         /\ vr_seq' \in 0..VcSeqs - 1 /\ vr_key' \in VcKeys
         /\ vr_not_release' \in BOOLEAN /\ vr_release_cnt' \in 0..VR_TIMEOUT
         /\ vc_mute' \in BOOLEAN
         /\ vc_link' = vc_link /\ vr_knows' = vr_knows
         /\ \/ /\ vr_seq' = seq /\ seq # vr_seq
               /\ vr_key' = FrameShown(vr_key, pkt) /\ vr_not_release' = KeptDown(pkt)
            \/ /\ vr_seq' = vr_seq /\ (seq = vr_seq \/ vc_sending' > 0)
               /\ vr_key' = vr_key /\ vr_not_release' = vr_not_release
         /\ vc_sending' > 0 \/ VrPass(TRUE)
<1>1. PICK outcome \in {"lost", "taken", "acked"} :
        /\ vc_sending' = IF outcome = "acked" THEN 0 ELSE left - 1
        /\ vc_no_ack' = IF outcome = "acked" THEN 0
                        ELSE IF vc_no_ack < VC_NO_LINK THEN vc_no_ack + 1 ELSE vc_no_ack
        /\ IF outcome # "lost" /\ seq # vr_seq
           THEN /\ vr_seq' = seq
                /\ vr_key' = FrameShown(vr_key, pkt) /\ vr_not_release' = KeptDown(pkt)
           ELSE UNCHANGED <<vr_seq, vr_key, vr_not_release>>
        /\ VrPass(outcome # "lost")
        /\ UNCHANGED <<vc_link, vr_knows>>
  BY DEF SendReport
<1>2. vr_key \in VcKeys /\ FrameShown(vr_key, pkt) \in VcKeys /\ vr_seq \in 0..VcSeqs - 1
  BY VcShownType DEF VcTypeOK
<1>3. vc_sending' \in 0..VC_RETRY + 1 /\ vc_no_ack' \in 0..VC_NO_LINK
  BY <1>1, VcConstants DEF VcTypeOK
<1>4. outcome # "acked" => vc_sending' > 0
  BY <1>1, VcConstants
<1>5. vr_release_cnt' \in 0..VR_TIMEOUT /\ vc_mute' \in BOOLEAN
  <2>1. (outcome # "lost") \in BOOLEAN
    OBVIOUS
  <2> QED BY <1>1, <2>1, VrPassType
<1>6. vr_not_release' \in BOOLEAN
  <2>1. vr_not_release \in BOOLEAN /\ KeptDown(pkt) \in BOOLEAN
    BY DEF VcTypeOK, KeptDown
  <2> QED BY <1>1, <2>1
<1>7. outcome = "acked" => VrPass(TRUE)
  <2> SUFFICES ASSUME outcome = "acked" PROVE VrPass(TRUE)
    OBVIOUS
  <2>1. VrPass(outcome # "lost")
    BY <1>1
  <2>2. (outcome # "lost") = TRUE
    OBVIOUS
  <2> QED BY <2>1, <2>2
<1>8. \/ /\ vr_seq' = seq /\ seq # vr_seq
         /\ vr_key' = FrameShown(vr_key, pkt) /\ vr_not_release' = KeptDown(pkt)
      \/ /\ vr_seq' = vr_seq /\ (seq = vr_seq \/ vc_sending' > 0)
         /\ vr_key' = vr_key /\ vr_not_release' = vr_not_release
  BY <1>1, <1>4
<1>9. vr_seq' \in 0..VcSeqs - 1 /\ vr_key' \in VcKeys /\ vc_link' = vc_link /\ vr_knows' = vr_knows
  BY <1>1, <1>2
<1> QED BY <1>3, <1>4, <1>5, <1>6, <1>7, <1>8, <1>9

LEMMA VcRfStep ==
  ASSUME VcTypeOK, VcRanges, IF vc_link THEN ReportRf ELSE PairingRf
  PROVE  VcRfType'
<1>1. CASE vc_link
  <2> DEFINE new == ReadKey /\ KeyEvents # <<>>
             pkt == IF new THEN KeyEvents ELSE IF vc_sending > 0 THEN vc_pkt ELSE <<>>
             left == IF new THEN VC_RETRY + 1 ELSE vc_sending
  <2>1. PICK seq \in IF new THEN NextSeq ELSE {vc_seq} :
          /\ vc_pkt' = pkt /\ vc_seq' = seq
          /\ IF left > 1 THEN SendReport(pkt, seq, left)
             ELSE /\ vc_sending' = 0
                  /\ UNCHANGED <<vc_no_ack, vc_link, vr_seq, vr_knows, vr_key, vr_not_release>>
                  /\ VrPass(FALSE)
    BY <1>1 DEF ReportRf
  <2>2. seq \in 0..VcSeqs - 1
    BY <2>1, VcSeqNext DEF VcTypeOK
  <2>3. pkt \in Seq(VcEvents) /\ Len(pkt) <= 2
    <3>1. KeyEvents \in Seq(VcEvents) /\ Len(KeyEvents) <= 2
      BY VcKeyEventsType
    <3>2. <<>> \in Seq(VcEvents) /\ Len(<<>>) <= 2
      OBVIOUS
    <3> QED BY <3>1, <3>2 DEF VcTypeOK
  <2>4. left \in 0..VC_RETRY + 1
    <3>1. vc_sending \in 0..VC_RETRY + 1
      BY DEF VcTypeOK
    <3>2. VC_RETRY + 1 \in 0..VC_RETRY + 1
      BY VcConstants
    <3> QED BY <3>1, <3>2
  <2> HIDE DEF pkt, left
  <2>5. CASE left > 1
    <3>1. left \in 2..VC_RETRY + 1
      BY <2>4, <2>5, VcConstants
    <3>2. SendReport(pkt, seq, left)
      BY <2>1, <2>5
    <3>3. /\ vc_sending' \in 0..VC_RETRY + 1 /\ vc_no_ack' \in 0..VC_NO_LINK
          /\ vr_seq' \in 0..VcSeqs - 1 /\ vr_key' \in VcKeys
          /\ vr_not_release' \in BOOLEAN /\ vr_release_cnt' \in 0..VR_TIMEOUT
          /\ vc_mute' \in BOOLEAN
          /\ vc_link' = vc_link /\ vr_knows' = vr_knows
      BY <2>2, <2>3, <3>1, <3>2, VcSendStep
    <3> QED BY <1>1, <2>1, <2>2, <2>3, <3>3 DEF VcRfType, VcTypeOK
  <2>6. CASE ~(left > 1)
    <3>1. /\ vc_sending' = 0 /\ VrPass(FALSE)
          /\ UNCHANGED <<vc_no_ack, vc_link, vr_seq, vr_knows, vr_key, vr_not_release>>
      BY <2>1, <2>6
    <3>2. 0 \in 0..VC_RETRY + 1
      BY VcConstants
    <3>3. vr_release_cnt' \in 0..VR_TIMEOUT /\ vc_mute' \in BOOLEAN
      <4>1. FALSE \in BOOLEAN
        OBVIOUS
      <4> QED BY <3>1, <4>1, VrPassType
    <3> QED BY <2>1, <2>2, <2>3, <3>1, <3>2, <3>3 DEF VcRfType, VcTypeOK
  <2> QED BY <2>5, <2>6
<1>2. CASE ~vc_link
  <2>1. /\ vc_link' \in BOOLEAN /\ vr_knows' \in BOOLEAN
        /\ vc_no_ack' \in {0, vc_no_ack + 1, vc_no_ack}
        /\ vc_no_ack' = vc_no_ack + 1 => vc_no_ack < VC_NO_LINK
        /\ UNCHANGED <<vc_pkt, vc_seq, vc_sending, vr_seq, vr_key, vr_not_release>>
        /\ \E heard \in BOOLEAN : VrPass(heard)
    <3>1. PICK heard, counted \in BOOLEAN :
            /\ vr_knows' = (vr_knows \/ heard) /\ vc_link' = (heard /\ vr_knows)
            /\ vc_no_ack' = IF counted THEN 0
                            ELSE IF vc_no_ack < VC_NO_LINK THEN vc_no_ack + 1 ELSE vc_no_ack
            /\ VrPass(heard)
      BY <1>2 DEF PairingRf
    <3>2. UNCHANGED <<vc_pkt, vc_seq, vc_sending, vr_seq, vr_key, vr_not_release>>
      BY <1>2 DEF PairingRf
    <3>3. vr_knows \in BOOLEAN
      BY DEF VcTypeOK
    <3>4. vc_link' \in BOOLEAN /\ vr_knows' \in BOOLEAN
      BY <3>1, <3>3, Zenon
    <3>5. vc_no_ack' = 0 \/ vc_no_ack' = vc_no_ack \/ (vc_no_ack' = vc_no_ack + 1 /\ vc_no_ack < VC_NO_LINK)
      BY <3>1, Zenon
    <3>6. \E h \in BOOLEAN : VrPass(h)
      BY <3>1, Zenon
    <3>7. vc_no_ack \in Nat
      BY VcConstants DEF VcTypeOK
    <3> QED BY <3>2, <3>4, <3>5, <3>6, <3>7
  <2>2. vc_no_ack' \in 0..VC_NO_LINK
    BY <2>1, VcConstants DEF VcTypeOK
  <2>3. vr_release_cnt' \in 0..VR_TIMEOUT /\ vc_mute' \in BOOLEAN
    BY <2>1, VrPassType
  <2> QED BY <1>2, <2>1, <2>2, <2>3 DEF VcRfType, VcTypeOK, VcRanges
<1> QED BY <1>1, <1>2

LEMMA VcSleepStep ==
  ASSUME VcTypeOK, VcRanges, ~vc_asleep, vc_pm_proc, vc_link' \in BOOLEAN
  PROVE  VcSleepType'
<1>1. vc_cnt_basic' \in 0..VC_BASIC
  BY VcConstants DEF vc_pm_proc, VcTypeOK, VcRanges
<1>2. vc_loop_cnt' \in 0..VC_NO_QUICK
  BY VcConstants DEF vc_pm_proc, VcTypeOK
<1>3. /\ vc_asleep' = (vc_cnt_basic' >= VC_BASIC \/ QuickSleepVc)
      /\ vc_saved' = (IF vc_asleep' THEN vc_link' ELSE vc_saved) /\ vc_first' = vc_first
  BY DEF vc_pm_proc
<1>4. vc_asleep' \in BOOLEAN /\ (~vc_asleep' => vc_cnt_basic' < VC_BASIC)
  <2>1. QuickSleepVc \in BOOLEAN
    BY DEF QuickSleepVc
  <2>2. vc_cnt_basic' >= VC_BASIC \/ vc_cnt_basic' < VC_BASIC
    BY <1>1, VcConstants
  <2> QED BY <1>3, <2>1, <2>2
<1> QED BY <1>1, <1>2, <1>3, <1>4 DEF VcSleepType, VcTypeOK

LEMMA VcBootType ==
  ASSUME VcTypeOK, NEW link \in BOOLEAN, NEW seq \in 0..VcSeqs - 1, NEW first \in BOOLEAN,
         VcBoot(link, seq, first), vr_release_cnt' \in 0..VR_TIMEOUT, vc_mute' = FALSE,
         UNCHANGED <<vc_down, vr_seq, vr_knows, vr_key, vr_not_release, vc_spoilt>>
  PROVE  VcTypeOK' /\ VcRanges'
<1>1. <<>> \in Seq(VcEvents) /\ Len(<<>>) = 0
  OBVIOUS
<1>2. VcTypeOK'
  <2>1. VcButtonType'
    <3>1. VC_DEBOUNCE \in 1..VC_DEBOUNCE /\ 0 \in 0..VC_REPEAT /\ 0 \in 0..3
      BY VcConstants
    <3> QED BY <3>1, VcChord, VcNames DEF VcBoot, VcButtonType
  <2>2. VcRfType'
    <3>1. 0 \in 0..VC_RETRY + 1 /\ 0 \in 0..VC_NO_LINK
      BY VcConstants
    <3>2. /\ vr_seq' \in 0..VcSeqs - 1 /\ vr_key' \in VcKeys
          /\ vr_knows' \in BOOLEAN /\ vr_not_release' \in BOOLEAN
      BY DEF VcTypeOK
    <3>3. vc_pkt' = <<>> /\ vc_seq' = seq /\ vc_sending' = 0 /\ vc_link' = link /\ vc_no_ack' = 0
      BY DEF VcBoot
    <3>4. vc_pkt' \in Seq(VcEvents) /\ Len(vc_pkt') <= 2
      BY <1>1, <3>3
    <3>5. vc_seq' \in 0..VcSeqs - 1 /\ vc_sending' \in 0..VC_RETRY + 1 /\ vc_no_ack' \in 0..VC_NO_LINK
      BY <3>1, <3>3
    <3> QED BY <3>2, <3>3, <3>4, <3>5 DEF VcRfType
  <2>3. VcSleepType'
    <3>1. 0 \in 0..VC_BASIC /\ 0 \in 0..VC_NO_QUICK /\ 0 < VC_BASIC
      BY VcConstants
    <3> QED BY <3>1 DEF VcBoot, VcSleepType
  <2>4. vc_down' \in VcChords /\ vc_rf_km' \in BOOLEAN /\ vc_spoilt' \in BOOLEAN /\ vc_still' \in 0..VcStill
    BY VcConstants DEF VcBoot, VcTypeOK
  <2> QED BY <2>1, <2>2, <2>3, <2>4 DEF VcTypeOK, VcButtonType, VcRfType, VcSleepType
<1>3. VcRanges'
  BY VcConstants DEF VcBoot, VcRanges
<1> QED BY <1>2, <1>3

LEMMA VcStepType == VcTypeOK /\ VcRanges /\ [VcNext]_vcVars => VcTypeOK' /\ VcRanges'
<1> SUFFICES ASSUME VcTypeOK, VcRanges, [VcNext]_vcVars PROVE VcTypeOK' /\ VcRanges'
  OBVIOUS
<1>1. CASE vc_main_loop
  <2>1. VcButtonType'
    BY <1>1, VcButtonStep DEF vc_main_loop
  <2>2. VcRfType'
    BY <1>1, VcRfStep DEF vc_main_loop
  <2>3. VcSleepType'
    BY <1>1, <2>2, VcSleepStep DEF vc_main_loop, VcRfType
  <2>4. /\ vc_down' = vc_down /\ vc_rf_km' \in BOOLEAN /\ vc_spoilt' \in BOOLEAN
    BY <1>1 DEF vc_main_loop, Km, VcTypeOK
  <2>5. vc_still' \in 0..VcStill
    BY <1>1, VcConstants DEF vc_main_loop, VcTypeOK
  <2>6. VcTypeOK'
    BY <2>1, <2>2, <2>3, <2>4, <2>5 DEF VcTypeOK, VcButtonType, VcRfType, VcSleepType
  <2>7. VcRanges'
    BY <2>2, <2>3 DEF VcRanges, VcRfType, VcSleepType
  <2> QED BY <2>6, <2>7
<1>2. CASE VcButtonsMove
  BY <1>2, VcConstants DEF VcButtonsMove, VcTypeOK, VcRanges, vcButtonVars, vcKeyVars, vcRfVars,
                           vcSleepVars, vcReceiverVars, vrKeyVars
<1>3. CASE VcWakes
  <2>1. vc_seq % VC_SEQ_SAVED \in 0..VcSeqs - 1 /\ vc_saved \in BOOLEAN /\ FALSE \in BOOLEAN
    BY VcSeqNext DEF VcTypeOK
  <2>2. /\ VcBoot(vc_saved, vc_seq % VC_SEQ_SAVED, FALSE)
        /\ UNCHANGED <<vc_down, vr_seq, vr_knows, vr_key, vr_not_release, vc_spoilt>>
        /\ vc_mute' = FALSE
    BY <1>3 DEF VcWakes
  <2>3. vr_release_cnt' \in 0..VR_TIMEOUT
    <3>1. vr_release_cnt \in 0..VR_TIMEOUT
      BY DEF VcTypeOK
    <3>2. vr_release_cnt' \in IF vr_not_release THEN vr_release_cnt..VR_TIMEOUT ELSE {0}
      BY <1>3 DEF VcWakes
    <3> QED BY <3>1, <3>2, VcConstants
  <2> QED BY <2>1, <2>2, <2>3, VcBootType
<1>4. CASE VrTimeout
  <2>1. /\ vr_not_release' = FALSE /\ vr_key' = NoVcKey /\ vr_release_cnt' = 0 /\ vc_mute' = FALSE
        /\ UNCHANGED <<vc_down, vcButtonVars, vcKeyVars, vcRfVars, vcSleepVars>>
        /\ UNCHANGED <<vr_seq, vr_knows, vc_spoilt, vc_still>>
    BY <1>4 DEF VrTimeout
  <2>2. NoVcKey \in VcKeys /\ 0 \in 0..VR_TIMEOUT
    BY VcNames, VcConstants
  <2> QED BY <2>1, <2>2 DEF VcTypeOK, VcRanges, vcButtonVars, vcKeyVars, vcRfVars, vcSleepVars
<1>5. CASE UNCHANGED vcVars
  BY <1>5 DEF vcVars, VcTypeOK, VcRanges, vcButtonVars, vcKeyVars, vcRfVars, vcSleepVars,
              vcReceiverVars, vrKeyVars
<1> QED BY <1>1, <1>2, <1>3, <1>4, <1>5 DEF VcNext
-----------------------------------------------------------------------------
\* What vc_rf_proc does with a report: sends a new one, sends the one under way, gives it up, or
\* has none.
LEMMA VcReports ==
  ASSUME VcTypeOK, VcRanges, IF vc_link THEN ReportRf ELSE PairingRf
  PROVE  \/ /\ vc_link /\ ReadKey /\ KeyEvents # <<>> /\ vc_pkt' = KeyEvents
            /\ vc_seq' \in 0..VcSeqs - 1 /\ SendReport(KeyEvents, vc_seq', VC_RETRY + 1)
         \/ /\ vc_sending > 1 /\ ~ReadKey /\ vc_pkt' = vc_pkt /\ vc_seq' = vc_seq
            /\ SendReport(vc_pkt, vc_seq, vc_sending)
         \/ vc_sending = 1
         \/ /\ ~vc_link \/ ~ReadKey \/ KeyEvents = <<>>
            /\ vc_sending = 0 /\ vc_sending' = 0 /\ UNCHANGED <<vr_seq, vr_key, vr_not_release>>
            /\ \E heard \in BOOLEAN : VrPass(heard)
<1>1. CASE vc_link
  <2> DEFINE new == ReadKey /\ KeyEvents # <<>>
             pkt == IF new THEN KeyEvents ELSE IF vc_sending > 0 THEN vc_pkt ELSE <<>>
             left == IF new THEN VC_RETRY + 1 ELSE vc_sending
  <2>1. PICK seq \in IF new THEN NextSeq ELSE {vc_seq} :
          /\ vc_pkt' = pkt /\ vc_seq' = seq
          /\ IF left > 1 THEN SendReport(pkt, seq, left)
             ELSE /\ vc_sending' = 0
                  /\ UNCHANGED <<vc_no_ack, vc_link, vr_seq, vr_knows, vr_key, vr_not_release>>
                  /\ VrPass(FALSE)
    BY <1>1 DEF ReportRf
  <2>2. CASE new
    <3>1. left = VC_RETRY + 1 /\ left > 1 /\ pkt = KeyEvents
      BY <2>2, VcConstants
    <3>2. SendReport(pkt, seq, left) /\ vc_pkt' = pkt /\ vc_seq' = seq
      BY <2>1, <3>1
    <3>3. SendReport(KeyEvents, vc_seq', VC_RETRY + 1) /\ vc_pkt' = KeyEvents
      BY <3>1, <3>2
    <3>4. vc_seq' \in 0..VcSeqs - 1
      BY <2>1, <2>2, VcSeqNext
    <3> QED BY <1>1, <2>2, <3>3, <3>4
  <2>3. CASE ~new
    <3>1. left = vc_sending /\ vc_seq' = vc_seq /\ vc_seq = seq
      BY <2>1, <2>3
    <3>2. CASE vc_sending > 1
      <4>1. pkt = vc_pkt /\ left > 1
        BY <2>3, <3>1, <3>2, VcConstants DEF VcTypeOK
      <4>2. SendReport(pkt, seq, left) /\ vc_pkt' = pkt
        BY <2>1, <4>1
      <4>3. SendReport(vc_pkt, vc_seq, vc_sending) /\ vc_pkt' = vc_pkt
        BY <3>1, <4>1, <4>2
      <4>4. ~ReadKey
        BY <3>2 DEF ReadKey
      <4> QED BY <3>1, <3>2, <4>3, <4>4
    <3>3. CASE vc_sending = 0
      <4>1. ~(left > 1)
        BY <3>1, <3>3
      <4>2. vc_sending' = 0 /\ UNCHANGED <<vr_seq, vr_key, vr_not_release>> /\ VrPass(FALSE)
        BY <2>1, <4>1
      <4>3. \E heard \in BOOLEAN : VrPass(heard)
        BY <4>2
      <4> QED BY <2>3, <3>3, <4>2, <4>3
    <3>4. vc_sending > 1 \/ vc_sending = 1 \/ vc_sending = 0
      BY VcConstants DEF VcTypeOK
    <3> QED BY <3>2, <3>3, <3>4
  <2> QED BY <2>2, <2>3
<1>2. CASE ~vc_link
  <2>1. /\ UNCHANGED <<vc_sending, vr_seq, vr_key, vr_not_release>>
        /\ \E heard \in BOOLEAN : VrPass(heard)
    BY <1>2 DEF PairingRf
  <2> QED BY <1>2, <2>1 DEF VcRanges
<1> QED BY <1>1, <1>2

\* A pass after which the receiver may be trusted leaves it in agreement, and what it took fits.
LEMMA VcAgreesInLoop ==
  ASSUME VcTypeOK, VcRanges, VcAgrees, vc_main_loop
  PROVE  /\ VcAgrees'
         /\ ~vc_spoilt /\ ~vc_spoilt' =>
              /\ vr_seq' # vr_seq => InTurn(vr_key, vc_pkt')
              /\ vr_seq' = vr_seq => vr_not_release' = vr_not_release
<1> SUFFICES ASSUME ~vc_spoilt'
             PROVE  /\ VcKeysAgree' /\ (vr_not_release' <=> vr_key' # NoVcKey)
                    /\ IF vc_asleep' THEN vr_key' = NoVcKey
                       ELSE IF VcUntaken'
                            THEN /\ InTurn(vr_key', vc_pkt') /\ FrameShown(vr_key', vc_pkt') = VcTold'
                                 /\ KeptDown(vc_pkt') <=> VcTold' # NoVcKey
                            ELSE vr_key' = VcTold'
                    /\ ~vc_spoilt /\ vr_seq' # vr_seq => InTurn(vr_key, vc_pkt')
                    /\ ~vc_spoilt /\ vr_seq' = vr_seq => vr_not_release' = vr_not_release
  BY DEF VcAgrees
<1>1. ~Spoils /\ (vc_spoilt => AllUp)
  BY DEF vc_main_loop, VcTypeOK
<1>2. ~vc_asleep /\ button_detect_proc /\ (IF vc_link THEN ReportRf ELSE PairingRf)
  BY DEF vc_main_loop
<1>3. /\ Count # 3 /\ vc_sending # 1
      /\ ~(Count = 2 /\ last_btn_cnt = 2 /\ ~DoubleKeySendFlag /\ DoubleKey(vc_down) # NoVcKey)
      /\ ReadKey /\ KeyEvents # <<>> => vc_link /\ vc_seq' # vr_seq
      /\ vc_asleep' => ~vr_not_release'
  BY <1>1 DEF Spoils
<1>4. CASE vc_spoilt
  <2>1. /\ last_btn_cnt' = 0 /\ ~DoubleKeySendFlag' /\ vc_sending' = 0
        /\ vr_key' = NoVcKey /\ ~vr_not_release'
    BY <1>1, <1>4 DEF AllUp
  <2> QED BY <1>4, <2>1 DEF VcKeysAgree, VcTold, VcUntaken
<1>5. CASE ~vc_spoilt
  <2>1. /\ VcKeysAgree /\ (vr_not_release <=> vr_key # NoVcKey)
        /\ VcUntaken => /\ InTurn(vr_key, vc_pkt) /\ FrameShown(vr_key, vc_pkt) = VcTold
                        /\ KeptDown(vc_pkt) <=> VcTold # NoVcKey
        /\ ~VcUntaken => vr_key = VcTold
    BY <1>2, <1>5 DEF VcAgrees
  <2>2. /\ vc_pkt \in Seq(VcEvents) /\ KeyEvents \in Seq(VcEvents)
        /\ vc_seq \in 0..VcSeqs - 1 /\ vc_sending \in 0..VC_RETRY + 1
    BY VcKeyEventsType DEF VcTypeOK
  <2>3. CASE vc_link /\ ReadKey /\ KeyEvents # <<>>
    <3>1. /\ vc_pkt' = KeyEvents /\ vc_seq' \in 0..VcSeqs - 1
          /\ SendReport(KeyEvents, vc_seq', VC_RETRY + 1)
      BY <1>2, <1>3, <2>3, VcReports DEF ReadKey
    <3>2. VC_RETRY + 1 \in 2..VC_RETRY + 1
      BY VcConstants
    <3>3. \/ /\ vr_seq' = vc_seq' /\ vr_key' = FrameShown(vr_key, KeyEvents)
             /\ vr_not_release' = KeptDown(KeyEvents)
          \/ /\ vr_seq' = vr_seq /\ vr_key' = vr_key /\ (vc_seq' = vr_seq \/ vc_sending' > 0)
             /\ vr_not_release' = vr_not_release
      BY <2>2, <3>1, <3>2, VcSendStep
    <3>4. /\ VcKeysAgree' /\ InTurn(VcTold, KeyEvents)
          /\ FrameShown(VcTold, KeyEvents) = VcTold'
          /\ KeptDown(KeyEvents) <=> VcTold' # NoVcKey
      <4>1. VcKeysAgree /\ button_detect_proc /\ ReadKey /\ Count # 3 /\ KeyEvents # <<>>
        BY <1>2, <1>3, <2>1, <2>3
      <4>2. ~(Count = 2 /\ last_btn_cnt = 2 /\ ~DoubleKeySendFlag /\ DoubleKey(vc_down) # NoVcKey)
        BY <1>3
      <4>3. /\ VcKeysAgree'
            /\ KeyEvents # <<>> => /\ InTurn(VcTold, KeyEvents)
                                   /\ FrameShown(VcTold, KeyEvents) = VcTold'
                                   /\ KeptDown(KeyEvents) <=> VcTold' # NoVcKey
        BY <4>1, <4>2, VcTable
      <4> QED BY <4>1, <4>3
    <3>5. vr_key = VcTold /\ vc_seq' # vr_seq
      BY <1>3, <2>1, <2>3 DEF VcUntaken, ReadKey
    <3>6. CASE /\ vr_seq' = vc_seq' /\ vr_key' = FrameShown(vr_key, KeyEvents)
               /\ vr_not_release' = KeptDown(KeyEvents)
      BY <1>3, <3>1, <3>4, <3>5, <3>6 DEF VcUntaken
    <3>7. CASE /\ vr_seq' = vr_seq /\ vr_key' = vr_key /\ vc_sending' > 0
               /\ vr_not_release' = vr_not_release
      BY <1>3, <2>1, <3>1, <3>4, <3>5, <3>7 DEF VcUntaken
    <3> QED BY <3>3, <3>5, <3>6, <3>7
  <2>4. CASE vc_sending > 1 /\ ~ReadKey
    <3>1. /\ vc_pkt' = vc_pkt /\ vc_seq' = vc_seq /\ SendReport(vc_pkt, vc_seq, vc_sending)
      BY <1>2, <2>4, VcReports
    <3>2. vc_sending \in 2..VC_RETRY + 1
      BY <2>2, <2>4, VcConstants
    <3>3. \/ /\ vr_seq' = vc_seq /\ vc_seq # vr_seq /\ vr_key' = FrameShown(vr_key, vc_pkt)
             /\ vr_not_release' = KeptDown(vc_pkt)
          \/ /\ vr_seq' = vr_seq /\ vr_key' = vr_key /\ (vc_seq = vr_seq \/ vc_sending' > 0)
             /\ vr_not_release' = vr_not_release
      BY <2>2, <3>1, <3>2, VcSendStep
    <3>4. VcKeysAgree' /\ VcTold' = VcTold
      BY <1>2, <2>1, <2>4 DEF button_detect_proc, vcKeyVars, VcKeysAgree, VcTold
    <3>5. CASE /\ vr_seq' = vc_seq /\ vc_seq # vr_seq /\ vr_key' = FrameShown(vr_key, vc_pkt)
               /\ vr_not_release' = KeptDown(vc_pkt)
      <4>1. VcUntaken /\ ~VcUntaken'
        BY <2>4, <3>1, <3>2, <3>5 DEF VcUntaken
      <4> QED BY <1>3, <2>1, <3>1, <3>4, <3>5, <4>1
    <3>6. CASE /\ vr_seq' = vr_seq /\ vr_key' = vr_key /\ vc_seq = vr_seq
               /\ vr_not_release' = vr_not_release
      <4>1. ~VcUntaken /\ ~VcUntaken'
        BY <3>1, <3>6 DEF VcUntaken
      <4> QED BY <1>3, <2>1, <3>4, <3>6, <4>1
    <3>7. CASE /\ vr_seq' = vr_seq /\ vr_key' = vr_key /\ vc_seq # vr_seq /\ vc_sending' > 0
               /\ vr_not_release' = vr_not_release
      <4>1. VcUntaken /\ VcUntaken'
        BY <2>4, <3>1, <3>2, <3>7 DEF VcUntaken
      <4> QED BY <1>3, <2>1, <3>1, <3>4, <3>7, <4>1
    <3> QED BY <3>3, <3>5, <3>6, <3>7
  <2>5. CASE vc_sending = 0 /\ (~vc_link \/ ~ReadKey \/ KeyEvents = <<>>)
    <3>1. /\ vc_sending' = 0 /\ vr_seq' = vr_seq /\ vr_key' = vr_key
          /\ vr_not_release' = vr_not_release
      BY <1>2, <2>5, VcReports
    <3>2. vr_key = VcTold
      BY <2>1, <2>5 DEF VcUntaken
    <3>3. VcKeysAgree' /\ VcTold' = VcTold
      <4>1. CASE ReadKey
        <5>1. KeyEvents = <<>>
          BY <1>3, <2>5, <4>1
        <5> QED BY <1>2, <1>3, <2>1, <4>1, <5>1, VcTable
      <4>2. CASE ~ReadKey
        BY <1>2, <2>1, <4>2 DEF button_detect_proc, vcKeyVars, VcKeysAgree, VcTold
      <4> QED BY <4>1, <4>2
    <3>4. ~VcUntaken'
      BY <3>1 DEF VcUntaken
    <3> QED BY <1>3, <2>1, <3>1, <3>2, <3>3, <3>4
  <2>6. vc_sending = 0 \/ vc_sending > 1
    BY <1>3, <2>2, VcConstants
  <2> QED BY <2>3, <2>4, <2>5, <2>6 DEF ReadKey
<1> QED BY <1>4, <1>5

LEMMA VcAgreesStep ==
  ASSUME VcTypeOK, VcRanges, VcAgrees, VcPatient, [VcNext]_vcVars
  PROVE  /\ VcAgrees'
         /\ ~vc_spoilt /\ ~vc_spoilt' =>
              /\ vr_seq' # vr_seq => InTurn(vr_key, vc_pkt')
              /\ vr_seq' = vr_seq => vr_not_release' = vr_not_release
<1>1. CASE vc_main_loop
  BY <1>1, VcAgreesInLoop
<1>2. CASE VcButtonsMove \/ UNCHANGED vcVars
  <2>1. /\ UNCHANGED <<vc_pkt, vc_seq, vc_sending, vr_seq, vr_key, vc_spoilt, vc_asleep>>
        /\ UNCHANGED <<last_btn_cnt, DoubleKeySendFlag, one_key_press_save, double_key_press_save>>
        /\ vr_not_release' = vr_not_release
    BY <1>2 DEF VcButtonsMove, vcVars, vcKeyVars, vcRfVars, vcSleepVars, vcReceiverVars, vrKeyVars
  <2>2. VcTold' = VcTold /\ (VcUntaken' <=> VcUntaken) /\ (VcKeysAgree' <=> VcKeysAgree)
    BY <2>1 DEF VcTold, VcUntaken, VcKeysAgree
  <2> QED BY <2>1, <2>2 DEF VcAgrees
<1>3. CASE VcWakes
  <2>1. /\ vc_asleep /\ ~vc_asleep' /\ vc_sending' = 0 /\ last_btn_cnt' = 0 /\ ~DoubleKeySendFlag'
        /\ UNCHANGED <<vr_seq, vr_key, vr_not_release, vc_spoilt>>
    BY <1>3 DEF VcWakes, VcBoot
  <2> QED BY <2>1 DEF VcAgrees, VcTold, VcUntaken, VcKeysAgree
<1>4. CASE VrTimeout
  <2>1. vr_not_release /\ (vr_release_cnt = VR_TIMEOUT \/ vc_asleep) /\ vc_spoilt' = vc_spoilt
    BY <1>4 DEF VrTimeout
  <2>2. vc_spoilt
    <3>1. vr_release_cnt = VR_TIMEOUT => vc_spoilt
      BY <2>1, VcConstants DEF VcPatient
    <3>2. vc_asleep => vc_spoilt
      BY <2>1 DEF VcAgrees
    <3> QED BY <2>1, <3>1, <3>2
  <2> QED BY <2>1, <2>2 DEF VcAgrees
<1> QED BY <1>1, <1>2, <1>3, <1>4 DEF VcNext
-----------------------------------------------------------------------------
\* A pass in which the receiver hears nothing of the key it waits for is one nearer to the
\* repetition.
LEMMA VcPatientInLoop ==
  ASSUME VcTypeOK, VcRanges, VcAgrees, VcPatient, vc_main_loop
  PROVE  VcPatient'
<1>1. /\ key_change_flg' = (IF Changed THEN "change"
                            ELSE IF key_change_flg = "change" THEN "same" ELSE key_change_flg)
      /\ key_repeat_cnt' = (IF Changed \/ RepeatDue THEN 0
                            ELSE IF Repeats THEN key_repeat_cnt + 1 ELSE key_repeat_cnt)
  BY DEF vc_main_loop, button_detect_proc, vc_detect_button
<1>2. /\ ~vc_asleep /\ button_detect_proc /\ (IF vc_link THEN ReportRf ELSE PairingRf)
      /\ (~vc_spoilt' => ~Spoils /\ (vc_spoilt => AllUp))
  BY DEF vc_main_loop, VcTypeOK
<1>3. /\ vr_release_cnt' \in 0..VR_TIMEOUT /\ vc_sending' \in 0..VC_RETRY + 1
      /\ key_repeat_cnt' \in 0..VC_REPEAT /\ key_repeat_cnt \in 0..VC_REPEAT
      /\ vr_release_cnt \in 0..VR_TIMEOUT /\ vc_mute' \in BOOLEAN
  BY <1>2, VcRfStep, VcButtonStep DEF VcTypeOK, VcRfType, VcButtonType
<1>4. ASSUME key_change_flg' = "none"
      PROVE  vc_sending' = 0 /\ (~vc_spoilt' => ~vr_not_release')
  <2>1. ~Changed /\ key_change_flg = "none"
    BY <1>1, <1>4
  <2>2. ~ReadKey /\ vc_sending = 0
    BY <2>1 DEF ReadKey, RepeatDue, Repeats, VcPatient
  <2>3. vc_sending' = 0 /\ vr_not_release' = vr_not_release
    BY <1>2, <2>2, VcReports
  <2>4. ~vc_spoilt' => ~vr_not_release'
    BY <1>2, <2>1, <2>3 DEF VcPatient, AllUp
  <2> QED BY <2>3, <2>4
<1>5. ASSUME ~vc_spoilt', vr_not_release'
      PROVE  /\ vr_release_cnt' < VR_TIMEOUT
             /\ vc_sending' = 0 /\ ~vc_mute' => vr_release_cnt' <= VcCounted'
  <2>1. ~vc_spoilt /\ ~Spoils
    BY <1>2, <1>5 DEF AllUp
  <2>2. CASE vc_sending' # 0 \/ vc_mute'
    <3>1. vr_release_cnt' # VR_TIMEOUT
      <4>1. vc_sending' > 0 \/ vc_mute'
        BY <1>3, <2>2, VcConstants
      <4> QED BY <2>1, <4>1 DEF Spoils
    <3> QED BY <1>3, <2>2, <3>1, VcConstants
  <2>3. CASE vc_sending' = 0 /\ ~vc_mute' /\ VrPass(TRUE)
    <3>1. vr_release_cnt' = 0
      BY <2>3 DEF VrPass
    <3>2. VcCounted' \in Nat
      <4>1. key_repeat_cnt' \in Nat
        BY <1>3, VcConstants
      <4>2. \A n \in Nat : n + 1 \in Nat
        OBVIOUS
      <4>3. VcCounted' = key_repeat_cnt' \/ VcCounted' = key_repeat_cnt' + 1
        BY DEF VcCounted
      <4> QED BY <4>1, <4>2, <4>3
    <3> QED BY <3>1, <3>2, VcConstants
  <2>4. CASE vc_sending' = 0 /\ ~vc_mute' /\ ~VrPass(TRUE)
    <3>1. /\ vc_pkt \in Seq(VcEvents) /\ KeyEvents \in Seq(VcEvents)
          /\ vc_seq \in 0..VcSeqs - 1 /\ vc_sending \in 0..VC_RETRY + 1
      BY VcKeyEventsType DEF VcTypeOK
    <3>2. /\ VC_RETRY + 1 \in 2..VC_RETRY + 1
          /\ vc_sending > 1 => vc_sending \in 2..VC_RETRY + 1
      BY <3>1, VcConstants
    <3>3. vc_sending # 1
      BY <2>1 DEF Spoils
    <3>4. /\ ~vc_link \/ ~ReadKey \/ KeyEvents = <<>>
          /\ vc_sending = 0 /\ vr_not_release' = vr_not_release
          /\ \E heard \in BOOLEAN : VrPass(heard)
      <4>1. ASSUME vc_seq' \in 0..VcSeqs - 1, SendReport(KeyEvents, vc_seq', VC_RETRY + 1)
            PROVE  vc_sending' > 0 \/ VrPass(TRUE)
        BY <3>1, <3>2, <4>1, VcSendStep
      <4>2. ASSUME vc_sending > 1, SendReport(vc_pkt, vc_seq, vc_sending)
            PROVE  vc_sending' > 0 \/ VrPass(TRUE)
        BY <3>1, <3>2, <4>2, VcSendStep
      <4>3. ~(vc_sending' > 0)
        BY <2>4
      <4> QED BY <1>2, <2>4, <3>3, <4>1, <4>2, <4>3, VcReports
    <3>5. VrPass(FALSE)
      BY <2>4, <3>4
    <3>6. /\ vr_not_release /\ ~vc_mute /\ vc_down # {"power", "down"}
          /\ vr_release_cnt' \in {vr_release_cnt, vr_release_cnt + 1}
      BY <1>5, <2>1, <2>4, <3>4, <3>5 DEF VrPass, VcTypeOK
    <3>7. vr_release_cnt <= VcCounted /\ key_change_flg # "none"
      BY <2>1, <3>4, <3>6 DEF VcPatient
    <3>8. ~ReadKey
      <4> SUFFICES ASSUME ReadKey PROVE FALSE
        OBVIOUS
      <4>1. vr_key = VcTold /\ vr_key # NoVcKey /\ VcKeysAgree
        BY <1>2, <2>1, <3>4, <3>6 DEF VcAgrees, VcUntaken
      <4>2. /\ Count # 3
            /\ ~(Count = 2 /\ last_btn_cnt = 2 /\ ~DoubleKeySendFlag /\ DoubleKey(vc_down) # NoVcKey)
        BY <2>1 DEF Spoils
      <4>3. KeyEvents # <<>>
        BY <1>2, <4>1, <4>2, VcTable
      <4>4. vc_link
        BY <2>1, <4>3 DEF Spoils
      <4> QED BY <3>4, <4>3, <4>4
    <3>9. ~Changed /\ ~RepeatDue
      BY <3>4, <3>8 DEF ReadKey
    <3>10. CASE key_change_flg = "change"
      <4>1. key_change_flg' = "same" /\ key_repeat_cnt' = key_repeat_cnt
        BY <1>1, <3>9, <3>10 DEF Repeats
      <4> QED BY <1>3, <3>6, <3>7, <3>10, <4>1, VcConstants DEF VcCounted
    <3>11. CASE key_change_flg = "same"
      <4>1. Repeats
        BY <3>6, <3>9, <3>11 DEF Repeats
      <4>2. key_change_flg' = "same" /\ key_repeat_cnt' = key_repeat_cnt + 1
        BY <1>1, <3>9, <3>11, <4>1
      <4> QED BY <1>3, <3>6, <3>7, <3>11, <4>2, VcConstants DEF VcCounted
    <3> QED BY <3>7, <3>10, <3>11 DEF VcTypeOK
  <2> QED BY <2>2, <2>3, <2>4
<1> QED BY <1>4, <1>5 DEF VcPatient

LEMMA VcPatientStep ==
  ASSUME VcTypeOK, VcRanges, VcAgrees, VcPatient, [VcNext]_vcVars
  PROVE  VcPatient'
<1>1. CASE vc_main_loop
  BY <1>1, VcPatientInLoop
<1>2. CASE VcButtonsMove \/ UNCHANGED vcVars
  <2>1. /\ UNCHANGED <<key_change_flg, key_repeat_cnt, vc_sending, vc_spoilt, vc_mute>>
        /\ UNCHANGED <<vr_not_release, vr_release_cnt>>
    BY <1>2 DEF VcButtonsMove, vcVars, vcButtonVars, vcRfVars, vcReceiverVars, vrKeyVars
  <2> QED BY <2>1 DEF VcPatient, VcCounted
<1>3. CASE VcWakes
  <2>1. /\ vc_asleep /\ vc_sending' = 0
        /\ UNCHANGED <<vr_not_release, vc_spoilt>>
    BY <1>3 DEF VcWakes, VcBoot
  <2> QED BY <2>1 DEF VcAgrees, VcPatient
<1>4. CASE VrTimeout
  <2>1. ~vr_not_release' /\ UNCHANGED <<key_change_flg, vc_sending>>
    BY <1>4 DEF VrTimeout, vcButtonVars, vcRfVars
  <2> QED BY <2>1 DEF VcPatient
<1> QED BY <1>1, <1>2, <1>3, <1>4 DEF VcNext

-----------------------------------------------------------------------------
\* A pass without a report lets the samples agree, ...
LEMMA VcStillStep ==
  ASSUME VcTypeOK, VcRanges, VcAgrees, VcStillInv, vc_main_loop
  PROVE  VcStillInv'
<1>1. /\ vc_down' = vc_down /\ Count' = Count /\ vc_still \in Nat /\ vc_still <= VcStill
      /\ vc_sending \in Nat /\ vc_sending' \in Nat
  <2>1. vc_sending' \in Nat
    BY VcRfStep, VcConstants DEF vc_main_loop, VcRfType
  <2>2. vc_down' = vc_down
    BY DEF vc_main_loop
  <2> QED BY <2>1, <2>2, VcConstants DEF VcTypeOK, Count
<1>2. \/ vc_still' = 0
      \/ /\ vc_sending = 0 /\ vc_sending' = 0 /\ vc_still' > 0
         /\ vc_still' \in Nat /\ vc_still' <= vc_still + 1
  BY <1>1, VcConstants DEF vc_main_loop
<1>3. /\ vc_sample' = vc_down /\ vc_run' = Run
      /\ btn_filter_last' = (IF Changed THEN vc_down ELSE btn_filter_last)
      /\ key_change_flg' = (IF Changed THEN "change"
                            ELSE IF key_change_flg = "change" THEN "same" ELSE key_change_flg)
      /\ key_repeat_cnt' = (IF Changed \/ RepeatDue THEN 0
                            ELSE IF Repeats THEN key_repeat_cnt + 1 ELSE key_repeat_cnt)
  BY DEF vc_main_loop, button_detect_proc, vc_detect_button
<1>4. IF ReadKey THEN last_btn_cnt' = Count ELSE UNCHANGED <<last_btn_cnt, DoubleKeySendFlag>>
  BY DEF vc_main_loop, button_detect_proc, vcKeyVars
<1>5. vc_still' > 0 => Run >= VC_DEBOUNCE \/ Run >= vc_still'
  <2>1. vc_run \in Nat /\ vc_run >= 1 /\ vc_run <= VC_DEBOUNCE
    BY VcConstants DEF VcTypeOK
  <2>2. CASE vc_still = 0
    <3>1. Run \in Nat /\ Run >= 1
      BY <2>1 DEF Run
    <3>2. vc_still' <= 1
      BY <1>2, <2>2
    <3> QED BY <1>2, <3>1, <3>2
  <2>3. CASE vc_still > 0
    <3>1. vc_sample = vc_down /\ (vc_run >= VC_DEBOUNCE \/ vc_run >= vc_still)
      BY <2>3 DEF VcStillInv, VcSampled
    <3>2. Run = IF vc_run < VC_DEBOUNCE THEN vc_run + 1 ELSE vc_run
      BY <3>1 DEF Run
    <3>3. vc_still' <= vc_still + 1 \/ vc_still' = 0
      BY <1>2
    <3> QED BY <1>1, <1>2, <2>1, <3>1, <3>2, <3>3, VcConstants
  <2> QED BY <1>1, <2>2, <2>3
<1>6. VcSampled'
  BY <1>1, <1>2, <1>3, <1>5 DEF VcSampled
<1>7. VcFiltered'
  <2>1. ASSUME vc_still' >= VC_DEBOUNCE
        PROVE  btn_filter_last' = vc_down'
    <3>1. vc_still' > 0 /\ vc_still' \in Nat
      BY <1>2, <2>1, VcConstants
    <3>2. Run \in Nat
      BY VcConstants DEF Run, VcTypeOK
    <3>3. Run >= VC_DEBOUNCE
      BY <1>5, <2>1, <3>1, <3>2, VcConstants
    <3> QED BY <1>1, <1>3, <3>3 DEF Changed
  <2>2. ASSUME key_change_flg' = "none"
        PROVE  btn_filter_last' = {} /\ last_btn_cnt' = 0
    <3>1. ~Changed /\ key_change_flg = "none"
      BY <1>3, <2>2
    <3>2. ~ReadKey
      BY <3>1 DEF ReadKey, RepeatDue, Repeats
    <3> QED BY <1>3, <1>4, <3>1, <3>2 DEF VcStillInv, VcFiltered
  <2> QED BY <2>1, <2>2 DEF VcFiltered
<1>8. VcRepeated'
  <2> SUFFICES ASSUME vc_still' > VC_DEBOUNCE, vc_down # {"power", "down"}, last_btn_cnt' # Count
               PROVE  key_change_flg' = "same" /\ key_repeat_cnt' + VC_DEBOUNCE + 1 >= vc_still'
    BY <1>1 DEF VcRepeated
  <2>1. /\ vc_still >= VC_DEBOUNCE /\ vc_still' <= vc_still + 1 /\ vc_still' \in Nat
        /\ vc_sending = 0
    BY <1>1, <1>2, VcConstants
  <2>2. ~Changed
    BY <2>1 DEF Changed, VcStillInv, VcFiltered
  <2>3. ~RepeatDue /\ last_btn_cnt' = last_btn_cnt
    BY <1>4, <2>1 DEF ReadKey
  <2>4. key_repeat_cnt \in Nat
    BY VcConstants DEF VcTypeOK
  <2>5. CASE key_change_flg = "none"
    <3>1. Count = 0 /\ last_btn_cnt = 0
      BY <2>1, <2>5, VcDown DEF VcStillInv, VcFiltered, VcTypeOK
    <3> QED BY <2>3, <3>1
  <2>6. CASE key_change_flg = "change"
    <3>1. ~(vc_still > VC_DEBOUNCE)
      BY <2>3, <2>6 DEF VcStillInv, VcRepeated
    <3>2. vc_still' = VC_DEBOUNCE + 1
      BY <1>1, <2>1, <3>1, VcConstants
    <3>3. key_change_flg' = "same" /\ key_repeat_cnt' = key_repeat_cnt
      BY <1>3, <2>2, <2>3, <2>6 DEF Repeats
    <3> QED BY <2>4, <3>2, <3>3, VcConstants
  <2>7. CASE key_change_flg = "same"
    <3>1. Repeats
      BY <2>2, <2>7 DEF Repeats
    <3>2. key_change_flg' = "same" /\ key_repeat_cnt' = key_repeat_cnt + 1
      BY <1>3, <2>2, <2>3, <2>7, <3>1
    <3>3. CASE vc_still > VC_DEBOUNCE
      <4>1. key_repeat_cnt + VC_DEBOUNCE + 1 >= vc_still
        BY <2>3, <3>3 DEF VcStillInv, VcRepeated
      <4> QED BY <1>1, <2>1, <2>4, <3>2, <4>1, VcConstants
    <3>4. CASE vc_still = VC_DEBOUNCE
      BY <1>1, <2>1, <2>4, <3>2, <3>4, VcConstants
    <3> QED BY <1>1, <2>1, <3>3, <3>4, VcConstants
  <2> QED BY <2>5, <2>6, <2>7 DEF VcTypeOK
<1>9. VcMeans'
  <2> SUFFICES ASSUME ~vc_spoilt', ~DoubleKeySendFlag', last_btn_cnt' = 2, Count = 2,
                      DoubleKey(vc_down) # NoVcKey
               PROVE  FALSE
    BY <1>1 DEF VcMeans, DoubleKey
  <2>1. ~Spoils /\ (vc_spoilt => AllUp)
    BY DEF vc_main_loop, VcTypeOK
  <2>2. ~vc_spoilt /\ last_btn_cnt # 3
    <3>1. ~AllUp
      BY DEF AllUp
    <3> QED BY <2>1, <3>1 DEF VcAgrees, VcKeysAgree
  <2>3. ~(last_btn_cnt = 2 /\ ~DoubleKeySendFlag)
    BY <2>1 DEF Spoils
  <2>4. CASE ReadKey
    <3>1. DoubleKeySendFlag' = (SendsDouble \/
            (DoubleKeySendFlag /\ ~(last_btn_cnt = 2 /\ Count \in {0, 1})))
      BY <2>4 DEF vc_main_loop, button_detect_proc
    <3>2. ~SendsDouble /\ ~DoubleKeySendFlag
      <4>1. DoubleKeySendFlag \in BOOLEAN /\ SendsDouble \in BOOLEAN
        BY DEF VcTypeOK, SendsDouble
      <4>2. Count \notin {0, 1}
        OBVIOUS
      <4> QED BY <3>1, <4>1, <4>2
    <3>3. last_btn_cnt \notin {0, 1}
      BY <3>2 DEF SendsDouble
    <3> QED BY <2>2, <2>3, <3>2, <3>3 DEF VcTypeOK
  <2>5. CASE ~ReadKey
    BY <1>4, <2>3, <2>5
  <2> QED BY <2>4, <2>5
<1> QED BY <1>6, <1>7, <1>8, <1>9 DEF VcStillInv

\* ... and anything else leaves them as they are, or starts anew.
LEMMA VcInvStep == VcInv /\ [VcNext]_vcVars => VcInv'
<1> SUFFICES ASSUME VcInv, [VcNext]_vcVars PROVE VcInv'
  OBVIOUS
<1>1. VcTypeOK /\ VcRanges /\ VcAgrees /\ VcPatient /\ VcStillInv
  BY DEF VcInv
<1>2. VcTypeOK' /\ VcRanges' /\ VcAgrees' /\ VcPatient'
  BY <1>1, VcStepType, VcAgreesStep, VcPatientStep
<1>3. VcStillInv'
  <2>1. CASE vc_main_loop
    BY <1>1, <2>1, VcStillStep
  <2>2. CASE VcButtonsMove
    <3>1. /\ vc_still' = 0 /\ btn_filter_last' = btn_filter_last
          /\ last_btn_cnt' = last_btn_cnt /\ key_change_flg' = key_change_flg
      BY <2>2 DEF VcButtonsMove, vcButtonVars, vcKeyVars
    <3> QED BY <1>1, <3>1, VcConstants DEF VcStillInv, VcSampled, VcFiltered, VcRepeated, VcMeans
  <2>3. CASE VcWakes
    <3>1. vc_still' = 0 /\ btn_filter_last' = {} /\ last_btn_cnt' = 0
      BY <2>3 DEF VcWakes, VcBoot
    <3> QED BY <3>1, VcConstants DEF VcStillInv, VcSampled, VcFiltered, VcRepeated, VcMeans
  <2>4. CASE VrTimeout \/ UNCHANGED vcVars
    <3>1. /\ UNCHANGED <<vc_still, vc_down, vc_sample, vc_run, btn_filter_last, key_change_flg>>
          /\ UNCHANGED <<key_repeat_cnt, last_btn_cnt, DoubleKeySendFlag, vc_sending, vc_spoilt>>
      BY <2>4 DEF VrTimeout, vcVars, vcButtonVars, vcKeyVars, vcRfVars
    <3>2. Count' = Count
      <4>1. vc_down' = vc_down
        BY <3>1
      <4> QED BY <4>1, Zenon DEF Count
    <3>3. VcSampled' /\ VcFiltered' /\ VcRepeated'
      BY <1>1, <3>1, <3>2 DEF VcStillInv, VcSampled, VcFiltered, VcRepeated
    <3>4. VcMeans'
      BY <1>1, <3>1, <3>2 DEF VcStillInv, VcMeans
    <3> QED BY <3>3, <3>4 DEF VcStillInv
  <2> QED BY <2>1, <2>2, <2>3, <2>4 DEF VcNext
<1> QED BY <1>2, <1>3 DEF VcInv

LEMMA VcInitInv == VcInit => VcInv
<1> SUFFICES ASSUME VcInit PROVE VcInv
  OBVIOUS
<1>1. <<>> \in Seq(VcEvents) /\ Len(<<>>) = 0
  OBVIOUS
<1>2. /\ VC_DEBOUNCE \in 1..VC_DEBOUNCE /\ 0 \in 0..VC_REPEAT /\ 0 \in 0..3
      /\ 0 \in 0..VcSeqs - 1 /\ 0 \in 0..VC_RETRY + 1 /\ 0 \in 0..VC_NO_LINK
      /\ 0 \in 0..VC_BASIC /\ 0 \in 0..VC_NO_QUICK /\ 0 \in 0..VcStill /\ 0 < VC_BASIC
  BY VcConstants
<1>3. VcTypeOK
  <2>1. /\ {vc_down, vc_sample, btn_filter_last} \subseteq VcChords
        /\ vc_run \in 1..VC_DEBOUNCE
        /\ key_change_flg \in {"none", "change", "same"} /\ key_repeat_cnt \in 0..VC_REPEAT
        /\ last_btn_cnt \in 0..3 /\ {one_key_press_save, double_key_press_save} \subseteq VcKeys
    BY <1>2, VcChord, VcNames DEF VcInit
  <2>2. /\ vc_pkt \in Seq(VcEvents) /\ Len(vc_pkt) <= 2
    BY <1>1 DEF VcInit
  <2>3. /\ {vc_seq, vr_seq} \subseteq 0..VcSeqs - 1
        /\ vc_sending \in 0..VC_RETRY + 1 /\ vc_no_ack \in 0..VC_NO_LINK
        /\ vc_cnt_basic \in 0..VC_BASIC /\ vc_loop_cnt \in 0..VC_NO_QUICK
        /\ vc_still \in 0..VcStill /\ vr_key \in VcKeys /\ vr_release_cnt \in 0..VR_TIMEOUT
    BY <1>2, VcNames, VcConstants DEF VcInit
  <2>4. {DoubleKeySendFlag, vc_link, vc_rf_km, vc_asleep, vc_first, vc_saved, vr_knows,
         vr_not_release, vc_mute, vc_spoilt} \subseteq BOOLEAN
    BY DEF VcInit
  <2> QED BY <2>1, <2>2, <2>3, <2>4 DEF VcTypeOK
<1>4. VcRanges /\ VcStillInv
  BY <1>2, VcConstants DEF VcInit, VcRanges, VcStillInv, VcSampled, VcFiltered, VcRepeated, VcMeans
<1>5. VcAgrees
  BY DEF VcInit, VcAgrees, VcKeysAgree, VcTold, VcUntaken
<1>6. VcPatient
  BY DEF VcInit, VcPatient
<1> QED BY <1>3, <1>4, <1>5, <1>6 DEF VcInv

\* At rest the invariant says the property: a report that was dropped would have been made good.
LEMMA VcInvSettled == VcInv => VcSettled
<1> SUFFICES ASSUME VcInv, vc_still = VcStill, vc_link, ~vc_asleep, ~vc_spoilt,
                    vc_down # {"power", "down"}
             PROVE  vr_key = NoVcKey <=> vc_down = {}
  BY DEF VcSettled
<1>1. vc_still > VC_DEBOUNCE /\ vc_still > 0
  BY VcConstants
<1>2. last_btn_cnt = Count
  <2> SUFFICES ASSUME last_btn_cnt # Count PROVE FALSE
    OBVIOUS
  <2>1. key_repeat_cnt + VC_DEBOUNCE + 1 >= VcStill
    BY <1>1 DEF VcInv, VcStillInv, VcRepeated
  <2>2. key_repeat_cnt \in 0..VC_REPEAT
    BY DEF VcInv, VcTypeOK
  <2> QED BY <2>1, <2>2, VcConstants
<1>3. vc_sending = 0 /\ VcKeysAgree /\ vr_key = VcTold
  <2>1. vc_sending = 0 /\ VcKeysAgree
    BY <1>1 DEF VcInv, VcStillInv, VcSampled, VcAgrees
  <2>2. ~VcUntaken
    BY <2>1 DEF VcUntaken
  <2> QED BY <2>1, <2>2 DEF VcInv, VcAgrees
<1>4. /\ Count \in 0..3 /\ (Count = 0 <=> vc_down = {})
      /\ ~(Count = 2 /\ DoubleKey(vc_down) = NoVcKey)
  BY VcDown DEF VcInv, VcTypeOK
<1>5. Count = 2 => DoubleKeySendFlag
  BY <1>1, <1>2, <1>4 DEF VcInv, VcStillInv, VcMeans
<1>6. Count = 0 => VcTold = NoVcKey
  BY <1>2, <1>3 DEF VcTold, VcKeysAgree
<1> QED BY <1>2, <1>3, <1>4, <1>5, <1>6 DEF VcKeysAgree

\* For any buttons and thresholds: at rest the receiver shows a key exactly while buttons are
\* held, though frames and answers were lost, changes were dropped and it releases by itself a key
\* it hears nothing of - but for what Spoils lists, an outage as long as the receiver's patience
\* among it (button_detect_proc, vc_rf_proc; main_loop of the receiver).
THEOREM VcSettledHolds == VcSpec => []VcSettled
<1>1. VcInit => VcInv
  BY VcInitInv
<1>2. VcInv /\ [VcNext]_vcVars => VcInv'
  BY VcInvStep
<1>3. VcInv => VcSettled
  BY VcInvSettled
<1> QED BY <1>1, <1>2, <1>3, PTL DEF VcSpec

\* Though frames are lost and repeated, what the receiver passes on are presses and releases in
\* turn, each release of the key that was pressed (callback_vacuum), and it makes up no release
\* (main_loop) - but for what Spoils lists.
THEOREM VcBalancedHolds == VcSpec => VcBalanced
<1>1. VcInit => VcInv
  BY VcInitInv
<1>2. VcInv /\ [VcNext]_vcVars => VcInv'
  BY VcInvStep
<1>3. VcInv /\ [VcNext]_vcVars =>
        [~vc_spoilt /\ ~vc_spoilt' =>
           /\ vr_seq' # vr_seq => InTurn(vr_key, vc_pkt')
           /\ vr_seq' = vr_seq => vr_not_release' = vr_not_release]_vcVars
  BY VcAgreesStep DEF VcInv
<1> QED BY <1>1, <1>2, <1>3, PTL DEF VcSpec, VcBalanced

-----------------------------------------------------------------------------
(***************************************************************************)
(* A connection of the Bluetooth library (blt_brx and blt_brx_sn_nesn of   *)
(* proj_lib/blt_ll/blt_ll.c), for every size of the fifo, any number of    *)
(* packets and commands, and any loss.  The invariant reads the two bits:  *)
(* the master's nesn differs from the one the device heard last exactly    *)
(* when it has taken the last answer, and its sn differs exactly when its  *)
(* packet is new to the device.                                            *)
(***************************************************************************)

\* What the invariant needs of the types.
BltTypes ==
  /\ blt_conn_sn_slave \in {0, 1, 16} /\ blt_conn_sn_master \in {0, 1, 16}
  /\ bm_sn \in {0, 1} /\ bm_nesn \in {0, 1}
  /\ blt_tx_rptr \in Nat /\ blt_tx_wptr \in Nat
  /\ {bm_put, bm_got, blt_got} \subseteq Nat

\* The fifo holds no more than its entries, ...
BltFifoOK == blt_tx_rptr <= blt_tx_wptr /\ blt_tx_wptr <= blt_tx_rptr + BltFifo

\* ... what the master has of it, ...
BltAnswerTaken == blt_tx_sending /\ bm_nesn # blt_conn_sn_slave
BltUpInv ==
  /\ blt_tx_sending => blt_tx_rptr < blt_tx_wptr
  /\ bm_got = IF BltAnswerTaken THEN blt_tx_rptr + 1 ELSE blt_tx_rptr

\* ... and what the device has of the master's commands.
BltDownInv == bm_put = IF BltNew /\ bm_pkt # "empty" THEN blt_got + 1 ELSE blt_got

BltInv == BltTypes /\ BltFifoOK /\ BltUpInv /\ BltDownInv

\* The master's command is still to come to the device.
BltToCome == BltNew /\ bm_pkt \in {"map", "param"}

\* A command that is to come is the master's procedure, and nothing waits for its event then; one
\* that came waits just if it changes the map, for the event and with the map of the master.
BltMapWaits ==
  IF BltToCome
  THEN bm_next.kind = bm_pkt /\ blt_conn_update = 0
  ELSE IF bm_next.kind = "map"
       THEN /\ blt_conn_update = 1
            /\ blt_conn_inst_next = bm_next.inst /\ blt_chn_map_next = bm_next.map
       ELSE blt_conn_update = 0

\* In the event of the instant the master has the new map; in all others both have the same.
BltMapsMeet ==
  IF bm_next.kind = "map" /\ blt_conn_inst = bm_next.inst
  THEN bm_map = bm_next.map
  ELSE blt_chn_map = bm_map

BltMapInv ==
  /\ bm_next = BltNone \/ bm_next.kind \in {"map", "param"}
  /\ blt_conn_inst \in 0..BltInstTop - 1
  /\ blt_conn_update \in {0, 1} /\ blt_last = blt_got
  /\ blt_state = "conn" /\ ~blt_apart => BltMapWaits /\ BltMapsMeet

\* The head of the fifo after the master's acknowledgement was looked at (blt_brx).
BltHead == IF BltSkip THEN blt_tx_rptr + 1 ELSE blt_tx_rptr

-----------------------------------------------------------------------------
LEMMA BltInitInv == BltInit => BltInv
  BY BltAssumption DEF BltInit, BltInv, BltTypes, BltFifoOK, BltUpInv, BltDownInv, BltAnswerTaken,
                       BltNew

\* The head is what the master wants next.
LEMMA BltHeadIsNext ==
  ASSUME BltInv
  PROVE  BltHead = bm_got /\ BltHead \in Nat /\ BltHead <= blt_tx_wptr /\ blt_tx_rptr <= BltHead
  BY DEF BltInv, BltTypes, BltFifoOK, BltUpInv, BltAnswerTaken, BltSkip, BltHead

\* What happens when a packet of the master comes.
LEMMA BltHeardFacts ==
  ASSUME BltInv, NEW answered \in BOOLEAN, BltHeard(answered)
  PROVE  /\ BltBits(BltHead) /\ BltCommand(BltHead)
         /\ answered => BmTake(IF BltHead # blt_tx_wptr THEN BltHead + 1 ELSE 0)
         /\ ~answered => BmKeep
  BY DEF BltHeard, BltHead

LEMMA BltCommandFacts ==
  ASSUME BltInv, BltCommand(BltHead)
  PROVE  /\ blt_tx_wptr' \in {blt_tx_wptr, blt_tx_wptr + 1}
         /\ blt_tx_wptr' = blt_tx_wptr + 1 => blt_tx_wptr - BltHead < BltFifo
         /\ BltNew /\ bm_pkt # "empty" =>
              blt_got < bm_put /\ blt_got' = blt_got + 1 /\ blt_last' = blt_got + 1
         /\ ~(BltNew /\ bm_pkt # "empty") => blt_got' = blt_got /\ blt_last' = blt_last
         /\ blt_got' = bm_put
<1>1. /\ blt_tx_wptr' \in {blt_tx_wptr, blt_tx_wptr + 1}
      /\ blt_tx_wptr' = blt_tx_wptr + 1 => blt_tx_wptr - BltHead < BltFifo
  BY DEF BltInv, BltTypes, BltCommand, BltRoom
<1>2. CASE BltNew /\ bm_pkt # "empty"
  BY <1>1, <1>2 DEF BltInv, BltTypes, BltDownInv, BltCommand
<1>3. CASE ~(BltNew /\ bm_pkt # "empty")
  BY <1>1, <1>3 DEF BltInv, BltTypes, BltDownInv, BltCommand
<1> QED BY <1>2, <1>3

LEMMA BltHeardInv ==
  ASSUME BltInv, NEW answered \in BOOLEAN, BltHeard(answered)
  PROVE  BltInv'
<1>1. /\ BltBits(BltHead) /\ BltCommand(BltHead)
      /\ answered => BmTake(IF BltHead # blt_tx_wptr THEN BltHead + 1 ELSE 0)
      /\ ~answered => BmKeep
  BY BltHeardFacts
<1>2. /\ BltHead = bm_got /\ BltHead \in Nat /\ BltHead <= blt_tx_wptr /\ blt_tx_rptr <= BltHead
      /\ blt_tx_wptr \in Nat /\ bm_put \in Nat /\ blt_got \in Nat
      /\ bm_sn \in {0, 1} /\ bm_nesn \in {0, 1}
  BY BltHeadIsNext DEF BltInv, BltTypes
<1>3. /\ blt_tx_wptr' \in {blt_tx_wptr, blt_tx_wptr + 1}
      /\ blt_tx_wptr' = blt_tx_wptr + 1 => blt_tx_wptr - BltHead < BltFifo
      /\ blt_got' = bm_put
  BY <1>1, BltCommandFacts
<1>4. /\ blt_conn_sn_slave' = bm_nesn /\ blt_conn_sn_master' = bm_sn
      /\ blt_tx_rptr' = BltHead
      /\ BltHead # blt_tx_wptr => blt_tx_sending' = TRUE
      /\ BltHead = blt_tx_wptr => blt_tx_sending' = FALSE
  BY <1>1 DEF BltBits
<1>5. BltFifoOK'
  <2>1. blt_tx_rptr \in Nat /\ blt_tx_wptr <= blt_tx_rptr + BltFifo /\ BltFifo \in Nat
    BY BltAssumption DEF BltInv, BltTypes, BltFifoOK
  <2>2. blt_tx_wptr' <= BltHead + BltFifo
    BY <1>2, <1>3, <2>1
  <2> QED BY <1>2, <1>3, <1>4, <2>1, <2>2 DEF BltFifoOK
<1>6. CASE answered
  <2>1. /\ bm_sn' = 1 - bm_sn /\ bm_nesn' = 1 - bm_nesn
        /\ bm_got' = IF BltHead # blt_tx_wptr THEN bm_got + 1 ELSE bm_got
        /\ bm_put' = IF bm_pkt' = "empty" THEN bm_put ELSE bm_put + 1
    BY <1>1, <1>2, <1>6 DEF BmTake, BltCmds
  <2>2. BltTypes'
    BY <1>2, <1>3, <1>4, <2>1 DEF BltTypes
  <2>3. BltUpInv'
    <3>1. CASE BltHead # blt_tx_wptr
      BY <1>2, <1>3, <1>4, <2>1, <3>1 DEF BltUpInv, BltAnswerTaken
    <3>2. CASE BltHead = blt_tx_wptr
      BY <1>2, <1>3, <1>4, <2>1, <3>2 DEF BltUpInv, BltAnswerTaken
    <3> QED BY <3>1, <3>2
  <2>4. BltDownInv'
    BY <1>2, <1>3, <1>4, <2>1 DEF BltDownInv, BltNew
  <2> QED BY <1>5, <2>2, <2>3, <2>4 DEF BltInv
<1>7. CASE ~answered
  <2>1. UNCHANGED <<bm_sn, bm_nesn, bm_pkt, bm_put, bm_got>>
    BY <1>1, <1>7 DEF BmKeep
  <2>2. BltTypes'
    BY <1>2, <1>3, <1>4, <2>1 DEF BltTypes
  <2>3. BltUpInv'
    <3>1. CASE BltHead # blt_tx_wptr
      BY <1>2, <1>3, <1>4, <2>1, <3>1 DEF BltUpInv, BltAnswerTaken
    <3>2. CASE BltHead = blt_tx_wptr
      BY <1>2, <1>3, <1>4, <2>1, <3>2 DEF BltUpInv, BltAnswerTaken
    <3> QED BY <3>1, <3>2
  <2>4. BltDownInv'
    BY <1>2, <1>3, <1>4, <2>1 DEF BltDownInv, BltNew
  <2> QED BY <1>5, <2>2, <2>3, <2>4 DEF BltInv
<1> QED BY <1>6, <1>7

\* What a step keeps that leaves bits, pointers and counters alone.
LEMMA BltInvKept ==
  ASSUME BltInv, UNCHANGED <<bltBits, blt_tx_rptr, blt_tx_wptr, bm_pkt, bm_put, bm_got, blt_got>>
  PROVE  BltInv'
  BY DEF BltInv, BltTypes, BltFifoOK, BltUpInv, BltDownInv, BltAnswerTaken, BltNew, bltBits

LEMMA BltStepInv == BltInv /\ [BltNext]_bltVars => BltInv'
<1> SUFFICES ASSUME BltInv, [BltNext]_bltVars PROVE BltInv'
  OBVIOUS
<1>1. CASE BltConnect
  BY <1>1, BltAssumption DEF BltConnect, BltInv, BltTypes, BltFifoOK, BltUpInv, BltDownInv,
                             BltAnswerTaken, BltNew
<1>2. CASE BltPush
  BY <1>2, BltAssumption DEF BltPush, BltRoom, BltInv, BltTypes, BltFifoOK, BltUpInv, BltDownInv,
                             BltAnswerTaken, BltNew, bltBits
<1>3. CASE \E answered \in BOOLEAN : BltHeard(answered)
  BY <1>3, BltHeardInv
<1>4. CASE BltMissed
  BY <1>4, BltInvKept DEF BltMissed, BmKeep, bltBits
<1>5. CASE BltDrop
  BY <1>5, BltInvKept DEF BltDrop, bltQueue
<1>6. CASE UNCHANGED bltVars
  BY <1>6, BltInvKept DEF bltVars, bltQueue
<1> QED BY <1>1, <1>2, <1>3, <1>4, <1>5, <1>6 DEF BltNext, BltBrx

-----------------------------------------------------------------------------
\* A packet that comes takes each direction one step on, or leaves it alone.
LEMMA BltHeardUp ==
  ASSUME BltInv, NEW answered \in BOOLEAN, BltHeard(answered)
  PROVE  [BltUp!Next]_<<blt_tx_wptr, bm_got, bm_last>>
<1>1. /\ BltCommand(BltHead)
      /\ answered => BmTake(IF BltHead # blt_tx_wptr THEN BltHead + 1 ELSE 0)
      /\ ~answered => BmKeep
  BY BltHeardFacts
<1>2. /\ BltHead = bm_got /\ BltHead \in Nat /\ BltHead <= blt_tx_wptr /\ blt_tx_wptr \in Nat
      /\ blt_tx_wptr' \in {blt_tx_wptr, blt_tx_wptr + 1}
  BY <1>1, BltHeadIsNext, BltCommandFacts DEF BltInv, BltTypes
<1>3. CASE answered /\ BltHead # blt_tx_wptr
  <2>1. bm_got' = bm_got + 1 /\ bm_last' = bm_got + 1 /\ bm_got < blt_tx_wptr
    BY <1>1, <1>2, <1>3 DEF BmTake
  <2> QED BY <1>2, <2>1 DEF BltUp!Next, BltUp!Take
<1>4. CASE ~answered \/ BltHead = blt_tx_wptr
  <2>1. UNCHANGED <<bm_got, bm_last>>
    BY <1>1, <1>4 DEF BmTake, BmKeep
  <2> QED BY <1>2, <2>1 DEF BltUp!Next, BltUp!Put
<1> QED BY <1>3, <1>4

LEMMA BltHeardDown ==
  ASSUME BltInv, NEW answered \in BOOLEAN, BltHeard(answered)
  PROVE  [BltDown!Next]_<<bm_put, blt_got, blt_last>>
<1>1. /\ BltCommand(BltHead)
      /\ answered => BmTake(IF BltHead # blt_tx_wptr THEN BltHead + 1 ELSE 0)
      /\ ~answered => BmKeep
  BY BltHeardFacts
<1>2. bm_put' \in {bm_put, bm_put + 1}
  BY <1>1 DEF BmTake, BmKeep
<1>3. CASE BltNew /\ bm_pkt # "empty"
  <2>1. blt_got < bm_put /\ blt_got' = blt_got + 1 /\ blt_last' = blt_got + 1
    BY <1>1, <1>3, BltCommandFacts
  <2> QED BY <1>2, <2>1 DEF BltDown!Next, BltDown!Take
<1>4. CASE ~(BltNew /\ bm_pkt # "empty")
  <2>1. UNCHANGED <<blt_got, blt_last>>
    BY <1>1, <1>4, BltCommandFacts
  <2> QED BY <1>2, <2>1 DEF BltDown!Next, BltDown!Put
<1> QED BY <1>3, <1>4

LEMMA BltStepsOn ==
  ASSUME BltInv, [BltNext]_bltVars
  PROVE  /\ [BltUp!Next]_<<blt_tx_wptr, bm_got, bm_last>>
         /\ [BltDown!Next]_<<bm_put, blt_got, blt_last>>
<1>1. CASE BltConnect
  BY <1>1 DEF BltConnect, BltUp!Next, BltUp!Reset, BltDown!Next, BltDown!Reset
<1>2. CASE BltPush
  BY <1>2 DEF BltPush, BltUp!Next, BltUp!Put
<1>3. CASE \E answered \in BOOLEAN : BltHeard(answered)
  BY <1>3, BltHeardUp, BltHeardDown
<1>4. CASE BltMissed \/ BltDrop \/ UNCHANGED bltVars
  BY <1>4 DEF BltMissed, BmKeep, BltDrop, bltVars, bltQueue
<1> QED BY <1>1, <1>2, <1>3, <1>4 DEF BltNext, BltBrx

\* The fifo never holds more than its entries, though an acknowledgement and a request's
\* answer meet in one packet (blt_push_fifo, blt_brx_sn_nesn).
THEOREM BltFifoHolds == BltSpec => []BltFifoOK
<1>1. BltInv => BltFifoOK
  BY DEF BltInv
<1> QED BY <1>1, BltInitInv, BltStepInv, PTL DEF BltSpec

\* Whatever is lost, packets of the device and commands of the master arrive once and in
\* order, in every connection and for every size of the fifo.
THEOREM BltInOrderHolds == BltSpec => BltInOrder
<1>1. BltInit => BltUp!Init /\ BltDown!Init
  BY DEF BltInit, BltUp!Init, BltDown!Init
<1>2. BltInv /\ [BltNext]_bltVars =>
        /\ [BltUp!Next]_<<blt_tx_wptr, bm_got, bm_last>>
        /\ [BltDown!Next]_<<bm_put, blt_got, blt_last>>
  BY BltStepsOn
<1> QED BY <1>1, <1>2, BltInitInv, BltStepInv, PTL
        DEF BltSpec, BltInOrder, BltUp!Spec, BltDown!Spec

\* The next event is not the instant of a command that is sent now.
LEMMA BltInstantLater ==
  ASSUME NEW i \in 0..BltInstTop - 1, NEW a \in BltAhead
  PROVE  (i + 1) % BltInstTop # (i + a) % BltInstTop
<1>1. BltInstTop \in Nat \ {0} /\ a \in 2..BltInstTop - 1
  BY BltAssumption
<1>2. (i + 1) % BltInstTop = IF i + 1 < BltInstTop THEN i + 1 ELSE i + 1 - BltInstTop
  BY <1>1
<1>3. (i + a) % BltInstTop = IF i + a < BltInstTop THEN i + a ELSE i + a - BltInstTop
  BY <1>1
<1> QED BY <1>1, <1>2, <1>3

LEMMA BltInstNext ==
  ASSUME NEW i \in 0..BltInstTop - 1
  PROVE  (i + 1) % BltInstTop \in 0..BltInstTop - 1
<1>1. BltInstTop \in Nat \ {0}
  BY BltAssumption
<1> QED BY <1>1

LEMMA BltNoneKind == BltNone.kind = "none"
  BY DEF BltNone

\* What one event does to the maps, if the device knows of the master's procedure, or has
\* just missed it.
BltKnown(pending) ==
  /\ pending <=> bm_next.kind = "map"
  /\ pending => blt_conn_inst_next' = bm_next.inst /\ blt_chn_map_next' = bm_next.map
BltMissing(pending) == ~pending /\ bm_pkt = bm_next.kind /\ bm_next # BltNone /\ blt_last' # bm_put

\* The master begins a procedure.
BltBegins == bm_pkt' \in {"map", "param"} /\ bm_put' # bm_put

\* The kinds and the counters, whatever the device knows.
LEMMA BltHopTypes ==
  ASSUME BltMapInv, NEW pending \in BOOLEAN, BltHop(pending)
  PROVE  /\ bm_next' = BltNone \/ bm_next'.kind \in {"map", "param"}
         /\ blt_conn_inst' \in 0..BltInstTop - 1 /\ blt_conn_update' \in {0, 1}
         /\ BltBegins => bm_next'.kind = bm_pkt' /\ bm_next'.inst # blt_conn_inst'
<1>1. blt_conn_inst \in 0..BltInstTop - 1 /\ blt_conn_inst' = (blt_conn_inst + 1) % BltInstTop
  BY DEF BltHop, BltMapInv
<1>2. blt_conn_inst' \in 0..BltInstTop - 1 /\ blt_conn_update' \in {0, 1}
  BY <1>1, BltInstNext DEF BltHop
<1>3. CASE BltBegins
  <2>1. PICK a \in BltAhead, m \in BltMaps :
          bm_next' = [kind |-> bm_pkt', inst |-> (blt_conn_inst + a) % BltInstTop, map |-> m]
    BY <1>3 DEF BltHop, BltBegins
  <2>2. (blt_conn_inst + 1) % BltInstTop # (blt_conn_inst + a) % BltInstTop
    BY <1>1, BltInstantLater
  <2> QED BY <1>1, <1>2, <1>3, <2>1, <2>2 DEF BltBegins
<1>4. CASE ~BltBegins
  <2>1. bm_next' \in {BltNone, bm_next}
    BY <1>4 DEF BltHop, BltBegins
  <2> QED BY <1>2, <1>4, <2>1 DEF BltMapInv
<1> QED BY <1>3, <1>4

LEMMA BltHopMap ==
  ASSUME BltMapInv, BltMapsMeet, NEW pending \in BOOLEAN, BltHop(pending),
         BltBegins => bm_next = BltNone,
         BltKnown(pending) \/ BltMissing(pending)
  PROVE  /\ bm_next' = BltNone \/ bm_next'.kind \in {"map", "param"}
         /\ blt_conn_inst' \in 0..BltInstTop - 1 /\ blt_conn_update' \in {0, 1}
         /\ BltBegins => bm_next'.kind = bm_pkt'
         /\ ~blt_apart' =>
              /\ BltMapsMeet'
              /\ BltBegins \/ BltMissing(pending) => blt_conn_update' = 0
              /\ BltMissing(pending) => bm_next' = bm_next
              /\ ~BltBegins /\ BltKnown(pending) =>
                   IF bm_next'.kind = "map"
                   THEN /\ blt_conn_update' = 1
                        /\ blt_conn_inst_next' = bm_next'.inst /\ blt_chn_map_next' = bm_next'.map
                   ELSE blt_conn_update' = 0
<1> DEFINE over == bm_next # BltNone /\ blt_conn_inst = bm_next.inst
<1>1. /\ blt_conn_inst' = (blt_conn_inst + 1) % BltInstTop
      /\ pending /\ blt_conn_inst # blt_conn_inst_next' =>
           blt_conn_update' = 1 /\ blt_chn_map' = blt_chn_map
      /\ pending /\ blt_conn_inst = blt_conn_inst_next' =>
           blt_conn_update' = 0 /\ blt_chn_map' = blt_chn_map_next'
      /\ ~pending => blt_conn_update' = 0 /\ blt_chn_map' = blt_chn_map
      /\ bm_next.kind = "map" /\ blt_conn_inst' = bm_next.inst => bm_map' = bm_next.map
      /\ ~(bm_next.kind = "map" /\ blt_conn_inst' = bm_next.inst) => bm_map' = bm_map
  BY DEF BltHop, BltDue
<1>2. ~blt_apart' /\ over => bm_next.kind # "param" /\ (bm_pkt = bm_next.kind => blt_last' = bm_put)
  BY DEF BltHop
<1>3. ~BltBegins => bm_next' = IF over THEN BltNone ELSE bm_next
  BY DEF BltHop, BltBegins
<1>4. /\ blt_conn_inst' \in 0..BltInstTop - 1 /\ blt_conn_update' \in {0, 1}
      /\ BltBegins => bm_next'.kind = bm_pkt' /\ bm_next'.inst # blt_conn_inst'
  BY BltHopTypes
<1>5. bm_next' = BltNone \/ bm_next'.kind \in {"map", "param"}
  BY BltHopTypes
<1>6. CASE BltBegins
  <2>1. ~pending /\ bm_next.kind = "none" /\ ~BltMissing(pending) /\ blt_chn_map = bm_map
    BY <1>6, BltNoneKind DEF BltKnown, BltMissing, BltMapsMeet
  <2> QED BY <2>1, <1>1, <1>4, <1>5, <1>6 DEF BltMapsMeet
<1>7. CASE ~BltBegins /\ bm_next = BltNone
  <2>1. ~pending /\ bm_next.kind = "none" /\ ~BltMissing(pending) /\ blt_chn_map = bm_map
    BY <1>7, BltNoneKind DEF BltKnown, BltMissing, BltMapsMeet
  <2> QED BY <2>1, <1>1, <1>3, <1>4, <1>5, <1>7 DEF BltMapsMeet
<1>8. CASE ~BltBegins /\ bm_next.kind \in {"map", "param"} /\ ~over
  <2>1. bm_next' = bm_next /\ blt_chn_map = bm_map
    BY <1>3, <1>8, BltNoneKind DEF BltMapsMeet
  <2>2. blt_chn_map' = blt_chn_map
    BY <1>1, <1>8, BltNoneKind DEF BltKnown, BltMissing
  <2>3. BltMapsMeet'
    BY <1>1, <2>1, <2>2 DEF BltMapsMeet
  <2>4. pending => blt_conn_update' = 1
    BY <1>1, <1>8, BltNoneKind DEF BltKnown, BltMissing
  <2> QED BY <2>1, <2>3, <2>4, <1>1, <1>4, <1>5, <1>8 DEF BltKnown, BltMissing
<1>9. CASE ~BltBegins /\ bm_next.kind \in {"map", "param"} /\ over
  <2>1. bm_next' = BltNone
    BY <1>3, <1>9
  <2>2. ASSUME ~blt_apart'
        PROVE  BltMapsMeet' /\ blt_conn_update' = 0 /\ ~BltMissing(pending)
    <3>1. bm_next.kind = "map" /\ ~BltMissing(pending)
      BY <2>2, <1>2, <1>9 DEF BltMissing
    <3>2. bm_map = bm_next.map /\ bm_map' = bm_next.map
      BY <3>1, <1>1, <1>9 DEF BltMapsMeet
    <3>3. blt_conn_update' = 0 /\ blt_chn_map' = bm_next.map
      BY <3>1, <1>1, <1>9 DEF BltKnown
    <3> QED BY <3>1, <3>2, <3>3, <2>1, BltNoneKind DEF BltMapsMeet
  <2> QED BY <2>1, <2>2, <1>4, <1>5, <1>9, BltNoneKind
<1> QED BY <1>6, <1>7, <1>8, <1>9 DEF BltMapInv

LEMMA BltHeardMap ==
  ASSUME BltInv, BltMapInv, NEW answered \in BOOLEAN, BltHeard(answered)
  PROVE  BltMapInv'
<1> DEFINE pending == blt_conn_update = 1 \/ (BltNew /\ bm_pkt = "map")
<1>1. /\ blt_state = "conn" /\ blt_state' = "conn"
      /\ BltBits(BltHead) /\ BltCommand(BltHead)
      /\ answered => BmTake(IF BltHead # blt_tx_wptr THEN BltHead + 1 ELSE 0)
      /\ ~answered => BmKeep
      /\ BltHop(pending)
  BY BltHeardFacts DEF BltHeard
<1>2. blt_last' = blt_got' /\ blt_got' = bm_put
  BY <1>1, BltCommandFacts DEF BltCommand, BltMapInv
<1>3. CASE blt_apart'
  <2>1. /\ blt_conn_inst' \in 0..BltInstTop - 1 /\ blt_conn_update' \in {0, 1}
        /\ bm_next' = BltNone \/ bm_next'.kind \in {"map", "param"}
    BY <1>1, BltHopTypes
  <2> QED BY <2>1, <1>2, <1>3 DEF BltMapInv
<1>4. CASE ~blt_apart'
  <2>1. ~blt_apart /\ BltMapWaits /\ BltMapsMeet
    BY <1>1, <1>4 DEF BltHop, BltMapInv
  <2>2. BltBegins => bm_next = BltNone /\ answered
    BY <1>1 DEF BltBegins, BmTake, BmKeep
  <2>3. BltKnown(pending)
    <3>1. CASE BltToCome
      BY <3>1, <2>1, <1>1 DEF BltToCome, BltMapWaits, BltCommand, BltKnown
    <3>2. CASE ~BltToCome
      BY <3>2, <2>1, <1>1 DEF BltToCome, BltMapWaits, BltCommand, BltKnown
    <3> QED BY <3>1, <3>2
  <2>4. /\ bm_next' = BltNone \/ bm_next'.kind \in {"map", "param"}
        /\ blt_conn_inst' \in 0..BltInstTop - 1 /\ blt_conn_update' \in {0, 1}
        /\ BltBegins => bm_next'.kind = bm_pkt' /\ blt_conn_update' = 0
        /\ BltMapsMeet'
        /\ ~BltBegins =>
             IF bm_next'.kind = "map"
             THEN /\ blt_conn_update' = 1
                  /\ blt_conn_inst_next' = bm_next'.inst /\ blt_chn_map_next' = bm_next'.map
             ELSE blt_conn_update' = 0
    BY <2>1, <2>2, <2>3, <1>1, <1>4, BltHopMap
  <2>5. BltToCome' <=> BltBegins
    <3>1. blt_conn_sn_master' = bm_sn /\ bm_sn \in {0, 1} /\ bm_put \in Nat
      BY <1>1 DEF BltBits, BltInv, BltTypes
    <3>2. CASE answered
      BY <3>1, <3>2, <1>1 DEF BmTake, BltToCome, BltNew, BltBegins
    <3>3. CASE ~answered
      BY <3>1, <3>3, <1>1 DEF BmKeep, BltToCome, BltNew, BltBegins
    <3> QED BY <3>2, <3>3
  <2>6. BltMapWaits'
    BY <2>4, <2>5 DEF BltMapWaits
  <2> QED BY <2>4, <2>6, <1>2 DEF BltMapInv
<1> QED BY <1>3, <1>4

LEMMA BltMissedMap ==
  ASSUME BltInv, BltMapInv, BltMissed
  PROVE  BltMapInv'
<1> DEFINE pending == blt_conn_update = 1
<1>1. /\ blt_state = "conn" /\ blt_state' = "conn" /\ BltHop(pending)
      /\ UNCHANGED <<bm_sn, bm_pkt, bm_put, blt_conn_sn_master, blt_got, blt_last,
                     blt_conn_inst_next, blt_chn_map_next>>
      /\ ~BltBegins
  BY DEF BltMissed, BmKeep, BltBegins
<1>2. blt_last' = blt_got'
  BY <1>1 DEF BltMapInv
<1>3. CASE blt_apart'
  <2>1. /\ blt_conn_inst' \in 0..BltInstTop - 1 /\ blt_conn_update' \in {0, 1}
        /\ bm_next' = BltNone \/ bm_next'.kind \in {"map", "param"}
    BY <1>1, BltHopTypes
  <2> QED BY <2>1, <1>2, <1>3 DEF BltMapInv
<1>4. CASE ~blt_apart'
  <2>1. ~blt_apart /\ BltMapWaits /\ BltMapsMeet
    BY <1>1, <1>4 DEF BltHop, BltMapInv
  <2>2. BltToCome' <=> BltToCome
    BY <1>1 DEF BltToCome, BltNew
  <2>3. CASE BltToCome
    <3>1. blt_last # bm_put
      BY <2>3 DEF BltInv, BltTypes, BltDownInv, BltToCome, BltMapInv
    <3>2. BltMissing(pending)
      BY <3>1, <2>1, <2>3, <1>1, BltNoneKind DEF BltMissing, BltMapWaits, BltToCome
    <3>3. /\ bm_next' = bm_next /\ blt_conn_update' = 0 /\ BltMapsMeet'
          /\ blt_conn_inst' \in 0..BltInstTop - 1
      BY <3>2, <2>1, <1>1, <1>4, BltHopMap
    <3>4. BltMapWaits'
      BY <3>3, <2>1, <2>2, <2>3, <1>1 DEF BltMapWaits
    <3> QED BY <3>3, <3>4, <1>2 DEF BltMapInv
  <2>4. CASE ~BltToCome
    <3>1. BltKnown(pending)
      BY <2>1, <2>4, <1>1 DEF BltKnown, BltMapWaits
    <3>2. /\ bm_next' = BltNone \/ bm_next'.kind \in {"map", "param"}
          /\ blt_conn_inst' \in 0..BltInstTop - 1 /\ blt_conn_update' \in {0, 1}
          /\ BltMapsMeet'
          /\ IF bm_next'.kind = "map"
             THEN /\ blt_conn_update' = 1
                  /\ blt_conn_inst_next' = bm_next'.inst /\ blt_chn_map_next' = bm_next'.map
             ELSE blt_conn_update' = 0
      BY <3>1, <2>1, <1>1, <1>4, BltHopMap
    <3>3. BltMapWaits'
      BY <3>2, <2>2, <2>4 DEF BltMapWaits
    <3> QED BY <3>2, <3>3, <1>2 DEF BltMapInv
  <2> QED BY <2>3, <2>4
<1> QED BY <1>3, <1>4

LEMMA BltMapKept ==
  ASSUME BltMapInv, BltDrop \/ BltPush \/ UNCHANGED bltVars
  PROVE  BltMapInv'
<1>1. /\ UNCHANGED <<bltBits, bltHop, bm_map, bm_next, bm_pkt, blt_got, blt_last, blt_apart>>
      /\ blt_state' \in {blt_state, "adv"}
  BY DEF BltDrop, BltPush, bltVars, bltQueue
<1> QED BY <1>1
        DEF BltMapInv, BltMapWaits, BltMapsMeet, BltToCome, BltNew, bltBits, bltHop

LEMMA BltMapStep == BltInv /\ BltMapInv /\ [BltNext]_bltVars => BltMapInv'
<1> SUFFICES ASSUME BltInv, BltMapInv, [BltNext]_bltVars PROVE BltMapInv'
  OBVIOUS
<1>1. CASE BltConnect
  <2>1. /\ bm_next' = BltNone /\ blt_last' = blt_got' /\ blt_conn_inst' = 0
        /\ bm_pkt' = "empty" /\ blt_chn_map' = bm_map'
        /\ ~blt_apart' => blt_conn_update' = 0
        /\ blt_conn_update' \in {0, 1}
    BY <1>1 DEF BltConnect, BltMapInv
  <2>2. 0 \in 0..BltInstTop - 1
    BY BltAssumption
  <2> QED BY <2>1, <2>2, BltNoneKind DEF BltMapInv, BltMapWaits, BltMapsMeet, BltToCome
<1>2. CASE BltPush \/ BltDrop \/ UNCHANGED bltVars
  BY <1>2, BltMapKept
<1>3. CASE \E answered \in BOOLEAN : BltHeard(answered)
  BY <1>3, BltHeardMap
<1>4. CASE BltMissed
  BY <1>4, BltMissedMap
<1> QED BY <1>1, <1>2, <1>3, <1>4 DEF BltNext, BltBrx

\* Whatever is lost, and wherever the event counter wraps: device and master change the channel
\* map in the same event, or the history says why the device could not (the update at the end of
\* blt_brx).
THEOREM BltMapFollowsHolds == BltSpec => []BltMapFollows
<1>1. BltInit => BltMapInv
  BY BltAssumption DEF BltInit, BltMapInv
<1>2. BltMapInv => BltMapFollows
  BY DEF BltMapInv, BltMapsMeet, BltMapFollows
<1> QED BY <1>1, <1>2, BltInitInv, BltStepInv, BltMapStep, PTL DEF BltSpec

-----------------------------------------------------------------------------
LEMMA BltNoneType == BltNone \in [kind : {"none"}, inst : {0}, map : BltMaps]
  BY BltAssumption DEF BltNone

LEMMA BltInitType == BltInit => BltTypeOK
<1> SUFFICES ASSUME BltInit PROVE BltTypeOK
  OBVIOUS
<1>1. /\ 0 \in 0..BltInstTop - 1 /\ 0 \in 0..BltSuper /\ 0 \in 0..0 + BltFifo
      /\ BltNone.map \in BltMaps
  BY BltNoneType, BltAssumption
<1>2. /\ blt_tx_rptr \in Nat /\ blt_tx_wptr \in blt_tx_rptr..blt_tx_rptr + BltFifo
      /\ {bm_put, bm_got, bm_last, blt_got, blt_last} \subseteq Nat
  BY <1>1 DEF BltInit
<1>3. bm_next \in BltProcs \cup {BltNone}
  BY DEF BltInit
<1> QED BY <1>1, <1>2, <1>3 DEF BltInit, BltTypeOK

LEMMA BltNextTypes ==
  ASSUME BltTypeOK
  PROVE  bm_next.inst \in 0..BltInstTop - 1 /\ bm_next.map \in BltMaps
  BY BltNoneType, BltAssumption DEF BltTypeOK, BltProcs

\* At an anchor both ends keep their types.
LEMMA BltHopType ==
  ASSUME BltTypeOK, NEW pending, BltHop(pending), blt_chn_map_next' \in BltMaps,
         bm_pkt' \in BltCmds \cup {"empty"}
  PROVE  /\ blt_conn_inst' \in 0..BltInstTop - 1 /\ blt_conn_update' \in {0, 1}
         /\ blt_chn_map' \in BltMaps /\ bm_map' \in BltMaps
         /\ bm_next' \in BltProcs \cup {BltNone} /\ blt_apart' \in BOOLEAN
<1>1. ASSUME NEW n \in Nat
      PROVE  n % BltInstTop \in 0..BltInstTop - 1
  BY BltAssumption
<1>2. blt_conn_inst \in Nat /\ \A a \in BltAhead : blt_conn_inst + a \in Nat
  BY BltAssumption DEF BltTypeOK
<1>3. blt_conn_inst' \in 0..BltInstTop - 1 /\ blt_conn_update' \in {0, 1}
  BY <1>1, <1>2 DEF BltHop
<1>4. blt_chn_map' \in BltMaps /\ bm_map' \in BltMaps
  BY BltNextTypes DEF BltHop, BltTypeOK
<1>5. bm_next' \in BltProcs \cup {BltNone}
  <2>1. CASE bm_pkt' \in {"map", "param"} /\ bm_put' # bm_put
    <3>1. PICK a \in BltAhead, m \in BltMaps :
            bm_next' = [kind |-> bm_pkt', inst |-> (blt_conn_inst + a) % BltInstTop, map |-> m]
      BY <2>1 DEF BltHop
    <3>2. (blt_conn_inst + a) % BltInstTop \in 0..BltInstTop - 1
      BY <1>1, <1>2
    <3> QED BY <2>1, <3>1, <3>2 DEF BltProcs
  <2>2. CASE ~(bm_pkt' \in {"map", "param"} /\ bm_put' # bm_put)
    BY <2>2 DEF BltHop, BltTypeOK
  <2> QED BY <2>1, <2>2
<1>6. blt_apart' \in BOOLEAN
  BY DEF BltHop, BltTypeOK
<1> QED BY <1>3, <1>4, <1>5, <1>6

LEMMA BltStepType == BltInv /\ BltTypeOK /\ [BltNext]_bltVars => BltTypeOK'
<1> SUFFICES ASSUME BltInv, BltTypeOK, [BltNext]_bltVars PROVE BltTypeOK'
  OBVIOUS
<1>1. BltInv'
  BY BltStepInv
<1>2. blt_tx_rptr' \in Nat /\ blt_tx_wptr' \in blt_tx_rptr'..blt_tx_rptr' + BltFifo
  <2>1. blt_tx_rptr' \in Nat /\ blt_tx_wptr' \in Nat
    BY <1>1 DEF BltInv, BltTypes
  <2>2. blt_tx_rptr' <= blt_tx_wptr' /\ blt_tx_wptr' <= blt_tx_rptr' + BltFifo
    BY <1>1 DEF BltInv, BltFifoOK
  <2>3. \A r, w, f \in Nat : r <= w /\ w <= r + f => w \in r..r + f
    OBVIOUS
  <2>4. BltFifo \in Nat
    BY BltAssumption
  <2> QED BY <2>1, <2>2, <2>3, <2>4
<1>3. CASE BltConnect
  <2>1. 0 \in 0..BltInstTop - 1 /\ 0 \in 0..BltSuper
    BY BltAssumption
  <2> QED BY <1>2, <1>3, <2>1 DEF BltConnect, BltTypeOK
<1>4. CASE BltPush
  BY <1>2, <1>4 DEF BltPush, BltTypeOK, bltBits, bltHop
<1>5. CASE BltDrop \/ UNCHANGED bltVars
  BY <1>2, <1>5 DEF BltDrop, BltTypeOK, bltVars, bltBits, bltHop, bltQueue
<1>6. ASSUME NEW answered \in BOOLEAN, BltHeard(answered)
      PROVE  BltTypeOK'
  <2>1. /\ BltBits(BltHead) /\ BltCommand(BltHead)
        /\ answered => BmTake(IF BltHead # blt_tx_wptr THEN BltHead + 1 ELSE 0)
        /\ ~answered => BmKeep
        /\ BltHead \in Nat
    BY <1>6, BltHeardFacts, BltHeadIsNext
  <2>2. /\ blt_conn_sn_slave' \in {0, 1, 16} /\ blt_conn_sn_master' \in {0, 1, 16}
        /\ blt_tx_sending' \in BOOLEAN
    BY <2>1 DEF BltBits, BltTypeOK
  <2>3. {bm_put', bm_got'} \subseteq Nat /\ bm_sn' \in {0, 1} /\ bm_nesn' \in {0, 1}
    BY <1>1 DEF BltInv, BltTypes
  <2>4. bm_last' \in Nat /\ bm_pkt' \in BltCmds \cup {"empty"}
    <3>1. CASE answered
      BY <2>1, <3>1 DEF BmTake, BltTypeOK, BltCmds
    <3>2. CASE ~answered
      BY <2>1, <3>2 DEF BmKeep, BltTypeOK
    <3> QED BY <3>1, <3>2
  <2>5. /\ blt_got' \in Nat /\ blt_last' \in Nat /\ blt_conn_inst_next' \in 0..BltInstTop - 1
        /\ blt_chn_map_next' \in BltMaps
    BY <2>1, BltNextTypes DEF BltCommand, BltTypeOK
  <2>6. PICK pending \in BOOLEAN : BltHop(pending)
    BY <1>6 DEF BltHeard
  <2>7. /\ blt_conn_inst' \in 0..BltInstTop - 1 /\ blt_conn_update' \in {0, 1}
        /\ blt_chn_map' \in BltMaps /\ bm_map' \in BltMaps
        /\ bm_next' \in BltProcs \cup {BltNone} /\ blt_apart' \in BOOLEAN
    BY <2>4, <2>5, <2>6, BltHopType
  <2>8. blt_silent' \in 0..BltSuper /\ blt_state' \in {"adv", "conn"}
    BY <1>6, BltAssumption DEF BltHeard, BltTypeOK
  <2> QED BY <1>2, <2>2, <2>3, <2>4, <2>5, <2>7, <2>8 DEF BltTypeOK
<1>7. CASE BltMissed
  <2>1. /\ UNCHANGED <<blt_tx_sending, blt_conn_sn_slave, blt_conn_sn_master, blt_got, blt_last>>
        /\ UNCHANGED <<blt_conn_inst_next, blt_chn_map_next, blt_state>>
        /\ UNCHANGED <<bm_sn, bm_nesn, bm_pkt, bm_put, bm_got, bm_last>>
    BY <1>7 DEF BltMissed, BmKeep
  <2>2. PICK pending \in BOOLEAN : BltHop(pending)
    BY <1>7 DEF BltMissed
  <2>3. /\ blt_conn_inst' \in 0..BltInstTop - 1 /\ blt_conn_update' \in {0, 1}
        /\ blt_chn_map' \in BltMaps /\ bm_map' \in BltMaps
        /\ bm_next' \in BltProcs \cup {BltNone} /\ blt_apart' \in BOOLEAN
    BY <2>1, <2>2, BltHopType DEF BltTypeOK
  <2>4. blt_silent' \in 0..BltSuper
    BY <1>7, BltAssumption DEF BltMissed, BltTypeOK
  <2> QED BY <1>2, <2>1, <2>3, <2>4 DEF BltTypeOK
<1> QED BY <1>3, <1>4, <1>5, <1>6, <1>7 DEF BltNext, BltBrx

-----------------------------------------------------------------------------
(***************************************************************************)
(* The wake-up of the computer (vendor/dongle/dongle_suspend.c), whatever  *)
(* the order in which radio interrupt, main loop and computer take their   *)
(* steps.  The invariant says where a flag that is set comes from: from a  *)
(* key in the sleep that is under way, or from an earlier one, after which *)
(* the computer woke before the main loop looked at the flag.              *)
(***************************************************************************)

RwFlagExplained ==
  /\ rw_host = "awake" /\ resume_host_flg => rw_stale
  /\ rw_host = "asleep" /\ resume_host_flg => rw_asked \/ rw_stale

RwInv == RwTypeOK /\ RwFlagExplained

LEMMA RwInitInv == RwInit => RwInv
  BY DEF RwInit, RwInv, RwTypeOK, RwFlagExplained

LEMMA RwStepType == RwTypeOK /\ [RwNext]_rwVars => RwTypeOK'
<1> SUFFICES ASSUME RwTypeOK, [RwNext]_rwVars PROVE RwTypeOK'
  OBVIOUS
<1> USE DEF RwTypeOK
<1>1. CASE RwHandleIrq
  BY <1>1 DEF RwHandleIrq, RwPwdn
<1>2. CASE RwWork
  BY <1>2 DEF RwWork
<1>3. CASE RwResume
  BY <1>3 DEF RwResume, RwResumed
<1>12. CASE RwClear
  BY <1>12 DEF RwClear, ResumeFlag
<1>4. CASE RwCheck
  BY <1>4 DEF RwCheck, RwPwdn
<1>5. CASE RwSleep
  BY <1>5 DEF RwSleep, SleepsUntil
<1>6. CASE RwWakes
  BY <1>6 DEF RwWakes
<1>7. CASE RwKey
  BY <1>7 DEF RwKey, RwPwdn
<1>8. CASE RwMouse
  BY <1>8 DEF RwMouse, RwPwdn, RwResumed
<1>9. CASE RwHostSleeps
  BY <1>9 DEF RwHostSleeps
<1>10. CASE RwHostWakes \/ RwHostResumes
  BY <1>10 DEF RwHostWakes, RwHostResumes
<1>11. CASE UNCHANGED rwVars
  BY <1>11 DEF rwVars
<1> QED BY <1>1, <1>2, <1>3, <1>4, <1>5, <1>6, <1>7, <1>8, <1>9, <1>10, <1>11, <1>12
  DEF RwNext, RwLoop

LEMMA RwStepExplained == RwInv /\ [RwNext]_rwVars => RwFlagExplained'
<1> SUFFICES ASSUME RwInv, [RwNext]_rwVars PROVE RwFlagExplained'
  OBVIOUS
<1> USE DEF RwInv, RwTypeOK, RwFlagExplained
<1>1. CASE RwResume
  BY <1>1 DEF RwResume, RwResumed
<1>8. CASE RwClear
  BY <1>8 DEF RwClear, ResumeFlag
<1>2. CASE RwHandleIrq \/ RwWork \/ RwCheck \/ RwSleep \/ RwWakes
  BY <1>2 DEF RwHandleIrq, RwWork, RwCheck, RwSleep, RwWakes
<1>3. CASE RwKey
  BY <1>3 DEF RwKey, RwPwdn
<1>4. CASE RwMouse
  BY <1>4 DEF RwMouse, RwPwdn, RwResumed
<1>5. CASE RwHostSleeps
  BY <1>5 DEF RwHostSleeps
<1>6. CASE RwHostWakes \/ RwHostResumes
  BY <1>6 DEF RwHostWakes, RwHostResumes
<1>7. CASE UNCHANGED rwVars
  BY <1>7 DEF rwVars
<1> QED BY <1>1, <1>2, <1>3, <1>4, <1>5, <1>6, <1>7, <1>8 DEF RwNext, RwLoop

LEMMA RwStepInv == RwInv /\ [RwNext]_rwVars => RwInv'
  BY RwStepType, RwStepExplained DEF RwInv

\* A step that wakes the computer is a movement, or follows a key.
LEMMA RwWakesForAReason ==
  ASSUME RwInv, RwNext, rw_host' = "waking", rw_host # "waking"
  PROVE  rw_asked' \/ rw_stale
<1> USE DEF RwInv, RwTypeOK, RwFlagExplained
<1>1. CASE RwResume
  BY <1>1 DEF RwResume, RwResumed
<1>2. CASE RwMouse
  BY <1>2 DEF RwMouse
<1>3. CASE RwHandleIrq \/ RwWork \/ RwClear \/ RwCheck \/ RwSleep \/ RwWakes \/ RwKey
  BY <1>3 DEF RwHandleIrq, RwWork, RwClear, RwCheck, RwSleep, RwWakes, RwKey
<1>4. CASE RwHostSleeps \/ RwHostWakes \/ RwHostResumes
  BY <1>4 DEF RwHostSleeps, RwHostWakes, RwHostResumes
<1> QED BY <1>1, <1>2, <1>3, <1>4 DEF RwNext, RwLoop

\* The state of the suspend code keeps its types, and the chip never sleeps without the timer
\* over a computer it may have to wake (cpu_sleep_wakeup_rc).
THEOREM RwTypeCorrect == RwSpec => []RwTypeOK
<1>1. RwInit => RwTypeOK
  BY RwInitInv DEF RwInv
<1> QED BY <1>1, RwStepType, PTL DEF RwSpec

\* The dongle wakes the computer only for a key or a movement since it went to sleep, or for a
\* flag left over: rw_stale says that it was set when the computer last woke, by itself or
\* resumed (suspend_and_wakeup had not come to look at it), and not cleared since.
THEOREM RwNoSpuriousWakeHolds == RwSpec => RwNoSpuriousWake
<1>1. RwInv /\ [RwNext]_rwVars =>
        [rw_host' = "waking" /\ rw_host # "waking" => rw_asked' \/ rw_stale]_rwVars
  BY RwWakesForAReason
<1> QED BY <1>1, RwInitInv, RwStepInv, PTL DEF RwSpec, RwNoSpuriousWake

-----------------------------------------------------------------------------
(***************************************************************************)
(* All parts side by side (MCLiveParts).  In every behaviour each part     *)
(* follows its own next-state relation, or stutters.                       *)
(***************************************************************************)
LEMMA LiveInit ==
  MCInit => LedInit /\ KpInit /\ VcInit /\ PpInit /\ RwInit /\ UcInit /\ BltInit
  BY DEF MCInit

LEMMA LiveStep ==
  [MCNext]_MCVars => /\ [LedNext]_ledVars /\ [KpNext]_kpVars /\ [VcNext]_vcVars
                     /\ [PpNext]_ppVars /\ [RwNext]_rwVars /\ [UcNext]_ucVars
                     /\ [BltNext]_bltVars
<1>1. CASE MCNext
  BY <1>1 DEF MCNext
<1>2. CASE UNCHANGED MCVars
  BY <1>2 DEF MCVars
<1> QED BY <1>1, <1>2

\* What each part keeps, together.
LiveInv == LedInv /\ KpInv /\ VcInv /\ PpInv /\ RwInv /\ UcInv /\ BltInv /\ BltTypeOK

LEMMA LiveInitInv == MCInit => LiveInv
  BY LiveInit, LedInitInv, KpInitInv, VcInitInv, PpInitInv, RwInitInv, UcInitInv, BltInitInv,
     BltInitType DEF LiveInv

LEMMA LiveStepInv == LiveInv /\ [MCNext]_MCVars => LiveInv'
  BY LiveStep, LedStepInv, KpStepInv, VcInvStep, PpStepInv, RwStepInv, UcStepInv, BltStepInv,
     BltStepType DEF LiveInv

\* The state of every part keeps its types and bounds, whatever their values.
THEOREM LiveTypeCorrect == MCFair => []LiveTypeOK
<1>1. LiveInv => LiveTypeOK
  BY LedInvShown DEF LiveInv, LiveTypeOK, KpInv, VcInv, PpInv, RwInv, UcInv
<1> QED BY <1>1, LiveInitInv, LiveStepInv, PTL DEF MCFair

\* Sleep takes nothing away (kb_pm.c, device_power.c): no report that waits for a dongle that
\* answers, and keyboard and pen ask for theirs as long as they have to.
THEOREM SleepTakesNothingHolds == MCFair => []SleepTakesNothing
<1>1. LiveInv => SleepTakesNothing
  BY DEF LiveInv, SleepTakesNothing, KpInv, PpInv
<1> QED BY <1>1, LiveInitInv, LiveStepInv, PTL DEF MCFair
=============================================================================
