------------------------------- MODULE MCMouse ------------------------------
(***************************************************************************)
(* The buttons of the pen and the dongle's ring of mouse reports, side by  *)
(* side: a behaviour is one of one of them, and the other stays in its     *)
(* initial state.                                                          *)
(***************************************************************************)
EXTENDS MouseRing, PenButton

VARIABLE part

MCInit == part \in {"ring", "button"} /\ Init /\ PbInit

MCNext ==
  /\ UNCHANGED part
  /\ \/ part = "ring" /\ Next /\ UNCHANGED pbVars
     \/ part = "button" /\ PbNext /\ UNCHANGED vars

\* The fairness of MouseRing, asked only when the ring runs.
MCFair ==
  /\ MCInit /\ [][MCNext]_<<part, vars, pbVars>>
  /\ WF_vars(part = "ring" /\ usbmouse_add_frame)
  /\ WF_vars(part = "ring" /\ Report) /\ WF_vars(part = "ring" /\ Release)
  /\ WF_vars(part = "ring" /\ ReportTest) /\ WF_vars(part = "ring" /\ ReleaseTest)
  /\ WF_vars(part = "ring" /\ HostCollects) /\ WF_vars(part = "ring" /\ HostConnects)
  /\ WF_vars(part = "ring" /\ TimePasses)

-----------------------------------------------------------------------------
(* The type invariants of both: the ring of usbmouse.c and the counters of *)
(* mouse_button.c stay in their ranges.                                    *)
MouseTypeOK == TypeOK /\ PbTypeOK
=============================================================================
