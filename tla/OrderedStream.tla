---------------------------- MODULE OrderedStream ---------------------------
(***************************************************************************)
(* What the radio link promises about the pen's frames: the dongle passes  *)
(* them to USB in the order the pen queued them, each at most once.  It    *)
(* may skip some (the queue of the pen overwrites old ones, and a dead     *)
(* link drops them).  Only a dongle that was unplugged, and has forgotten  *)
(* the last frame, may pass that one on a second time.                     *)
(***************************************************************************)
EXTENDS Naturals

VARIABLES
  put,       \* frames queued so far; the last one has this number
  got,       \* number of the frame passed on last
  replugged, \* the dongle restarted since
  turn       \* flips with every frame passed on, so that a second pass shows

Init == put = 0 /\ got = 0 /\ replugged = FALSE /\ turn = FALSE

Put ==
  /\ put' = put + 1
  /\ UNCHANGED <<got, replugged, turn>>

Deliver ==
  /\ \E n \in (IF replugged THEN got ELSE got + 1)..put : got' = n
  /\ replugged' = FALSE
  /\ turn' = ~turn
  /\ UNCHANGED put

Replug ==
  /\ replugged' = TRUE
  /\ UNCHANGED <<put, got, turn>>

Next == Put \/ Deliver \/ Replug

Spec == Init /\ [][Next]_<<put, got, replugged, turn>>
=============================================================================
