------------------------------- MODULE BltAtt -------------------------------
(***************************************************************************)
(* The attribute server of the Bluetooth library (proj_lib/blt_ll/         *)
(* blt_att.c) as a client discovers it: request after request, each from   *)
(* the handle after the last one it was told, until an error answers.      *)
(*                                                                         *)
(* The client is no code of this repository.  The table is any that is     *)
(* built like gAttributes_def: services of characteristics, each a         *)
(* declaration and its value.  Of types and values only the lengths are    *)
(* kept.                                                                   *)
(***************************************************************************)
EXTENDS Naturals, Sequences

CONSTANTS
  AttTables,  \* sequences of attributes: [uuid, uuidLen, attrLen, attNum]
  AttMtu      \* ATT_MTU_SIZE

\* Services one behind the other, each with its number of attributes; and in them
\* characteristics, each before its value.  A service's value is a UUID of 2 or 16 bytes.
IsAttTable(t) ==
  /\ t \in Seq([uuid : {"service", "char", "value"}, uuidLen : Nat, attrLen : Nat,
            attNum : Nat])
  /\ t # <<>> /\ t[1].uuid = "service"
  /\ \A h \in DOMAIN t : t[h].uuid = "service" =>
       LET past == h + t[h].attNum
       IN  /\ past \in h + 1..Len(t) + 1 /\ t[h].attrLen \in {2, 16}
           /\ past \in DOMAIN t => t[past].uuid = "service"
           /\ t[past - 1].uuid # "char"
           /\ \A g \in h + 1..past - 1 : t[g].uuid # "service"
  /\ \A h \in DOMAIN t : t[h].uuid = "char" => h + 1 \in DOMAIN t /\ t[h + 1].uuid = "value"

ASSUME AttAssumption ==
  /\ AttMtu \in Nat /\ AttMtu >= 20
  /\ \A t \in AttTables : IsAttTable(t)

VARIABLES
  gAttributes,  \* handle 0, which holds their number, is left out
  at_job,       \* the request: ATT_OP_READ_BY_GROUP_TYPE_REQ is "service",
                \* ATT_OP_READ_BY_TYPE_REQ "char", ATT_OP_FIND_INFO_REQ "info"
  at_from, at_start, at_end, \* the handles it is about, and where the client is
  at_found,     \* the handles it was told, in that order
  at_done       \* it was told that there are no more, or cannot make out an answer

atVars == <<gAttributes, at_job, at_from, at_start, at_end, at_found, at_done>>

AttNum == Len(gAttributes)
AttHandles == 1..AttNum
AttUuid(h) == gAttributes[h].uuid
AttEnd(h) == h + gAttributes[h].attNum - 1

(* Type invariant; no handle is told twice, and none out of order.  (No    *)
(* action changes gAttributes.)                                            *)
AttTypeOK ==
  /\ at_job \in {"service", "char", "info"} /\ at_done \in BOOLEAN
  /\ {at_from, at_end} \subseteq AttHandles /\ at_start \in at_from..at_end + 1
  /\ at_found \in Seq(at_from..at_end)
  /\ \A i, j \in DOMAIN at_found : i < j => at_found[i] < at_found[j]

\* The client asks about the whole table, or for the characteristics of a service.
AttInit ==
  /\ gAttributes \in AttTables
  /\ \/ at_job \in {"service", "info"} /\ at_from = 1 /\ at_end = AttNum
     \/ at_job = "char" /\ \E h \in AttHandles :
          AttUuid(h) = "service" /\ at_from = h /\ at_end = AttEnd(h)
  /\ at_start = at_from /\ at_found = <<>> /\ at_done = FALSE

-----------------------------------------------------------------------------
\* l2cap_att_search: the first handle from sh on with this type, 0 if there is none.  From the
\* last handle of the table it does not search.
AttSearch(sh, uuid) ==
  LET match == {h \in sh..at_end : AttUuid(h) = uuid}
  IN IF sh = AttNum \/ match = {} THEN 0 ELSE CHOOSE h \in match : \A g \in match : h <= g

\* The handle an answer goes on with, 0 for none.
AttSeek(sh) == IF at_job # "info" THEN AttSearch(sh, at_job)
               ELSE IF sh <= at_end THEN sh ELSE 0

\* Mutant of AttPast: a service's end is the handle that follows.
AttPastGroup(h) == IF at_job = "service" THEN AttEnd(h) + 2 ELSE h + 1
\* Where it goes on after h: after the service, after the value, or with the next handle.
AttPast(h) == CASE at_job = "service" -> AttEnd(h) + 1
                [] at_job = "char" -> h + 2
                [] OTHER -> h + 1

\* Where it goes on after all of told.
AttNext(sh, told) == IF told = <<>> THEN sh ELSE AttPast(told[Len(told)])

\* The bytes that have to be free in the answer for h, which are those its length field speaks
\* of; and the bytes that h takes.  A characteristic brings the type of its value, but the
\* length of its own type is the one that counts.
AttBytes(h) == CASE at_job = "service" -> gAttributes[h].attrLen + 4
                 [] at_job = "char" -> 7
                 [] OTHER -> 4
AttTaken(h) == IF at_job = "char" THEN 5 + gAttributes[h + 1].uuidLen ELSE AttBytes(h)

\* One turn of l2cap_att_handler's loop: services of one length only, and what fits.  rsp has
\* the handles that were told and the bytes they take, which the code counts in i.
AttMore(rsp, sh) ==
  LET h == AttSeek(AttNext(sh, rsp.told))
  IN IF /\ h # 0 /\ rsp.i + AttBytes(h) <= AttMtu
        /\ at_job = "service" /\ rsp.told # <<>> =>
             gAttributes[h].attrLen = gAttributes[rsp.told[1]].attrLen
     THEN [told |-> Append(rsp.told, h), i |-> rsp.i + AttTaken(h)] ELSE rsp

\* The handles in the answer to a request from sh on.  An empty one is the error response.
AttAnswer(sh) ==
  LET rsp[n \in 0..AttNum] == IF n = 0 THEN [told |-> <<>>, i |-> 0] ELSE AttMore(rsp[n - 1], sh)
  IN rsp[AttNum].told

\* The client takes an answer apart by its length field.  It cannot if a handle takes other than
\* AttBytes: the rest is shifted, and may be more than ATT_MTU_SIZE.
AttReads(told) == \A i \in DOMAIN told : AttTaken(told[i]) = AttBytes(told[i])

\* A request and its answer, which names the end of every service and the handle of every value.
AttAsk ==
  LET told == AttAnswer(at_start)
  IN /\ ~at_done
     /\ \/ /\ AttReads(told)
           /\ at_found' = at_found \o told
           /\ at_start' = AttNext(at_start, told)
           /\ at_done' = (told = <<>> \/ at_start' > at_end)
        \/ /\ ~AttReads(told)
           /\ at_done' = TRUE
           /\ UNCHANGED <<at_found, at_start>>
     /\ UNCHANGED <<gAttributes, at_job, at_from, at_end>>

AttSpec == AttInit /\ [][AttAsk]_atVars

-----------------------------------------------------------------------------
\* What there is to find ...
AttThere == {h \in at_from..at_end : at_job # "info" => AttUuid(h) = at_job}
\* ... the service without characteristics at the end of the table, which l2cap_att_search does
\* not see ...
AttUnseen == {h \in AttThere : at_job = "service" /\ h = AttNum}
\* ... and the characteristics whose values have a type of 16 bytes, while their own have 2.
AttLong == {h \in AttThere : AttTaken(h) # AttBytes(h)}

(* When the discovery ends it has found all there is, but for AttUnseen:   *)
(* no request skips anything after a full answer, or one that stops at a   *)
(* service of another length (l2cap_att_handler).  A characteristic with a *)
(* long type ends it before: the client has then found what the answers    *)
(* before that one had, without a gap.                                     *)
AttDiscovered ==
  at_done =>
    LET found == {at_found[i] : i \in DOMAIN at_found}
    IN  IF AttLong = {} THEN found = AttThere \ AttUnseen
        ELSE /\ found = {h \in AttThere : h < at_start}
             /\ \E h \in AttLong : at_start <= h
=============================================================================
