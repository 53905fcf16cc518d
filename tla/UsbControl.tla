----------------------------- MODULE UsbControl -----------------------------
(***************************************************************************)
(* Control transfers of the dongle (proj/drivers/usb.c): the host asks for *)
(* a descriptor, the main loop answers it in chunks of eight bytes, one    *)
(* for every interrupt flag it finds set (usb_handle_irq).                 *)
(*                                                                         *)
(* The host may give a request up and begin the next at any time, also     *)
(* between two handlers of one call of usb_handle_irq.  The endpoint       *)
(* itself (its buffer, the flags, when it answers) is hardware, modelled   *)
(* from how the handlers use it.                                           *)
(***************************************************************************)
EXTENDS Integers, SequencesExt

CONSTANTS
  UcChunk,      \* bytes of one packet (8)
  UcDescLen,    \* the descriptors and their lengths
  UcLengths     \* values of wLength

ASSUME UcAssumption ==
  /\ UcChunk \in Nat \ {0}
  /\ DOMAIN UcDescLen # {} /\ DOMAIN UcDescLen \cap {"none", "unknown", "refused"} = {}
  /\ \A d \in DOMAIN UcDescLen : UcDescLen[d] \in Nat \ {0}
  /\ UcLengths \subseteq Nat \ {0}

UcDescs == DOMAIN UcDescLen

\* A request asks the device or an interface for a descriptor.  One it does not have, an
\* interface refuses only if it is a report descriptor ("refused"), or else ignores.
UcUnknown == {"unknown", "refused"}
UcRequests == [to : {"device", "interface"}, desc : UcDescs \cup UcUnknown, wLength : UcLengths]

VARIABLES
  control_request,
  g_response,     \* the descriptor that is sent and the bytes of it already sent
  g_response_len, g_stall,
  uc_irq,         \* the handlers this call of usb_handle_irq still has to run
  uc_flags,       \* hardware: the interrupt flags
  uc_fifo, uc_data, uc_status,     \* hardware: the buffer; the answer to the next token
  uc_asked, uc_stage, uc_got,      \* the host: its request, how far it is, what it got
  uc_mixed        \* history: the host gave the request before up while its answer was due

ucHandlerVars == <<control_request, g_response, g_response_len, g_stall>>
ucHostVars == <<uc_asked, uc_stage, uc_got, uc_mixed>>
ucVars == <<ucHandlerVars, uc_irq, uc_flags, uc_fifo, uc_data, uc_status, ucHostVars>>

UcFlags == {"setup", "data", "status"}
UcBytes == [desc : UcDescs, byte : Nat \ {0}]
UcAnswers == {"nak", "ack", "stall"}

(* Type invariant: what is left to send ends with the descriptor, and the  *)
(* host gets less than a packet more than it asked for.                    *)
UcTypeOK ==
  /\ control_request \in UcRequests /\ uc_asked \in UcRequests
  /\ g_response \in [desc : UcDescs \cup {"none"}, sent : Nat]
  /\ g_response_len \in Nat
  /\ g_response.desc = "none" => g_response_len = 0 /\ g_response.sent = 0
  /\ g_response.desc # "none" => g_response.sent + g_response_len <= UcDescLen[g_response.desc]
  /\ uc_irq \subseteq UcFlags /\ uc_flags \subseteq UcFlags
  /\ uc_fifo \in Seq(UcBytes) /\ Len(uc_fifo) <= UcChunk
  /\ uc_data \in UcAnswers /\ uc_status \in UcAnswers
  /\ uc_stage \in {"data", "status", "done", "stalled"}
  /\ uc_got \in Seq(UcBytes) /\ Len(uc_got) < uc_asked.wLength + UcChunk
  /\ g_stall \in BOOLEAN /\ uc_mixed \in BOOLEAN

UcNoResponse == [desc |-> "none", sent |-> 0]

UcInit ==
  /\ control_request \in UcRequests /\ uc_asked = control_request
  /\ g_response = UcNoResponse /\ g_response_len = 0 /\ g_stall = FALSE
  /\ uc_irq = {} /\ uc_flags = {"setup"}
  /\ uc_fifo = <<>> /\ uc_data = "nak" /\ uc_status = "nak"
  /\ uc_stage = "data" /\ uc_got = <<>> /\ uc_mixed = FALSE

UcMin(a, b) == IF a < b THEN a ELSE b

-----------------------------------------------------------------------------
\* usb_handle_irq reads the flags once and clears each before its handler.
usb_handle_irq ==
  /\ uc_irq = {} /\ uc_flags # {}
  /\ uc_irq' = uc_flags
  /\ UNCHANGED <<ucHandlerVars, uc_flags, uc_fifo, uc_data, uc_status, ucHostVars>>

\* Mutant of ResponseOf: the pointer goes on where the transfer before was given up.
ResponseGoesOn(req) ==
  IF g_response.desc = req.desc THEN g_response ELSE [desc |-> req.desc, sent |-> 0]
\* usb_prepare_desc_data and usb_handle_std_intf_req: what is to be sent.
ResponseOf(req) == [desc |-> req.desc, sent |-> 0]

ResponseLen(len, wLength) == UcMin(len, wLength)

\* usb_send_response: the next chunk, which may be empty.
usb_send_response(resp, len) ==
  LET n == UcMin(len, UcChunk)
  IN  /\ uc_fifo' = [i \in 1..n |-> [desc |-> resp.desc, byte |-> resp.sent + i]]
      /\ g_response' = [resp EXCEPT !.sent = @ + n]
      /\ g_response_len' = len - n

\* usb_handle_ctl_ep_setup.  A request an interface does not know leaves the rest of the
\* transfer before as its answer, and one for a report descriptor is refused as well.
usb_handle_ctl_ep_setup ==
  /\ "setup" \in uc_irq
  /\ uc_irq' = uc_irq \ {"setup"} /\ uc_flags' = uc_flags \ {"setup"}
  /\ control_request' = uc_asked
  /\ LET req == uc_asked
     IN \/ /\ req.desc \in UcDescs
           /\ usb_send_response(ResponseOf(req), ResponseLen(UcDescLen[req.desc], req.wLength))
           /\ g_stall' = FALSE
        \/ /\ req.desc \in UcUnknown /\ req.to = "device"
           /\ usb_send_response(UcNoResponse, 0)
           /\ g_stall' = TRUE
        \/ /\ req.desc \in UcUnknown /\ req.to = "interface"
           /\ usb_send_response(g_response, UcMin(g_response_len, req.wLength))
           /\ g_stall' = (req.desc = "refused")
  /\ uc_data' = IF g_stall' THEN "stall" ELSE "ack"
  /\ UNCHANGED <<uc_status, ucHostVars>>

\* Mutant of DataAnswer: nothing is sent after the last byte, also when that filled a packet.
DataAnswerNone == IF g_response_len = 0 THEN "nak" ELSE "ack"
DataAnswer == "ack"

\* usb_handle_ctl_ep_data, after the setup handler.
usb_handle_ctl_ep_data ==
  /\ "data" \in uc_irq /\ "setup" \notin uc_irq
  /\ uc_irq' = uc_irq \ {"data"} /\ uc_flags' = uc_flags \ {"data"}
  /\ usb_send_response(g_response, g_response_len)
  /\ g_stall' = FALSE
  /\ uc_data' = DataAnswer
  /\ UNCHANGED <<control_request, uc_status, ucHostVars>>

\* usb_handle_ctl_ep_status, after both.
usb_handle_ctl_ep_status ==
  /\ uc_irq = {"status"}
  /\ uc_irq' = {} /\ uc_flags' = uc_flags \ {"status"}
  /\ uc_status' = IF g_stall THEN "stall" ELSE "ack"
  /\ UNCHANGED <<ucHandlerVars, uc_fifo, uc_data, ucHostVars>>

-----------------------------------------------------------------------------
\* The host asks, whether it has its last answer or not: the endpoint answers nothing more
\* until it is told to.
UcSetup(req) ==
  /\ uc_asked' = req /\ uc_stage' = "data" /\ uc_got' = <<>>
  /\ uc_mixed' = (uc_irq # {} \/ uc_flags # {})
  /\ uc_flags' = uc_flags \cup {"setup"}
  /\ uc_data' = "nak" /\ uc_status' = "nak"
  /\ UNCHANGED <<ucHandlerVars, uc_irq, uc_fifo>>

\* The host takes a packet.  A short one, or the last byte it asked for, is the last one.
UcTake ==
  /\ uc_stage = "data" /\ uc_data = "ack"
  /\ LET got == uc_got \o uc_fifo
         over == Len(uc_fifo) < UcChunk \/ Len(got) >= uc_asked.wLength
     IN  /\ uc_got' = got
         /\ uc_stage' = IF over THEN "status" ELSE "data"
         /\ uc_flags' = uc_flags \cup {IF over THEN "status" ELSE "data"}
  /\ uc_data' = "nak"
  /\ UNCHANGED <<ucHandlerVars, uc_irq, uc_fifo, uc_status, uc_asked, uc_mixed>>

UcStalled ==
  /\ \/ uc_stage = "data" /\ uc_data = "stall"
     \/ uc_stage = "status" /\ uc_status = "stall"
  /\ uc_stage' = "stalled"
  /\ UNCHANGED <<ucHandlerVars, uc_irq, uc_flags, uc_fifo, uc_data, uc_status, uc_asked, uc_got,
                 uc_mixed>>

UcDone ==
  /\ uc_stage = "status" /\ uc_status = "ack"
  /\ uc_stage' = "done"
  /\ UNCHANGED <<ucHandlerVars, uc_irq, uc_flags, uc_fifo, uc_data, uc_status, uc_asked, uc_got,
                 uc_mixed>>

UcDongle == \/ usb_handle_irq \/ usb_handle_ctl_ep_setup \/ usb_handle_ctl_ep_data
            \/ usb_handle_ctl_ep_status
UcHost == UcTake \/ UcStalled \/ UcDone

UcNext == UcDongle \/ UcHost \/ \E req \in UcRequests : UcSetup(req)
UcSpec == UcInit /\ [][UcNext]_ucVars
\* The main loop runs, and the host takes what it is given.
UcFairness == WF_ucVars(UcDongle) /\ WF_ucVars(UcHost)
UcFair == UcSpec /\ UcFairness

-----------------------------------------------------------------------------
(* A request for a descriptor is answered with its bytes from the first,   *)
(* as many as there are or as the host asked for, also if the request      *)
(* before was given up.  Not so when that one's answer was just due: then  *)
(* the handlers of both run, and the host gets the second chunk first.     *)
UcExact ==
  uc_stage = "done" /\ ~uc_mixed /\ uc_asked.desc \in UcDescs =>
    uc_got = [i \in 1..UcMin(UcDescLen[uc_asked.desc], uc_asked.wLength) |->
                [desc |-> uc_asked.desc, byte |-> i]]

(* Whatever the host gave up before, it gets an answer or a refusal, unless *)
(* it gives up again and again: no request hangs.                          *)
UcAnswered ==
  \/ []<><<\E req \in UcRequests : UcSetup(req)>>_ucVars
  \/ []<>(uc_stage \in {"done", "stalled"})
=============================================================================
