---------------------------- MODULE ReliableQueue ---------------------------
(***************************************************************************)
(* What a connection of the Bluetooth library promises in each direction:  *)
(* what one end puts in comes out at the other once and in order, nothing  *)
(* left out; a new connection starts afresh.                               *)
(***************************************************************************)
EXTENDS Naturals

VARIABLES
  put,  \* packets put in so far; the last one has this number
  got,  \* packets taken out so far
  last  \* number of the packet taken out last

Init == put = 0 /\ got = 0 /\ last = 0

\* One end may put a packet in while the other takes one.
Take == got < put /\ got' = got + 1 /\ last' = got + 1 /\ put' \in {put, put + 1}
Put == put' = put + 1 /\ UNCHANGED <<got, last>>
Reset == put' = 0 /\ got' = 0 /\ last' = 0
Next == Put \/ Take \/ Reset

Spec == Init /\ [][Next]_<<put, got, last>>
=============================================================================
