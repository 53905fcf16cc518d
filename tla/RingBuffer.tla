----------------------------- MODULE RingBuffer -----------------------------
(***************************************************************************)
(* The ring buffer of proj/common/ringbuffer.h: one thread inserts, one    *)
(* removes, and an interrupt may be one of them; both look at the count    *)
(* before they do, and each changes its own pointer and then, with the     *)
(* interrupts off, the count.  A byte is the number of its insertion.      *)
(***************************************************************************)
EXTENDS Naturals

CONSTANTS
  RbSize,  \* bytes of the buffer
  RbMax    \* bound: insertions
ASSUME RbAssumption == RbSize \in Nat \ {0} /\ RbMax \in Nat

VARIABLES
  rb_data, rb_in, rb_out,
  rb_sount,      \* the field sount: bytes in the buffer
  rb_inserting, rb_removing, \* how far either thread is: "idle", "checked", "moved"
  rb_put,        \* history: insertions
  rb_got,        \* history: removals
  rb_last        \* history: the byte removed last

rbVars == <<rb_data, rb_in, rb_out, rb_sount, rb_inserting, rb_removing, rb_put, rb_got, rb_last>>

RbPlaces == 0..RbSize - 1
RbPc == {"idle", "checked", "moved"}

(* Type invariant; the count stays within the buffer.                      *)
RbTypeOK ==
  /\ rb_data \in [RbPlaces -> Nat]
  /\ rb_in \in RbPlaces /\ rb_out \in RbPlaces
  /\ rb_sount \in 0..RbSize
  /\ rb_inserting \in RbPc /\ rb_removing \in RbPc
  /\ rb_put \in Nat /\ rb_got \in Nat /\ rb_last \in Nat

\* ringbuffer_init
RbInit ==
  /\ rb_data = [i \in RbPlaces |-> 0]
  /\ rb_in = 0 /\ rb_out = 0 /\ rb_sount = 0
  /\ rb_inserting = "idle" /\ rb_removing = "idle"
  /\ rb_put = 0 /\ rb_got = 0 /\ rb_last = 0

\* ++buffer->in, ++buffer->out
RbAdvance(i) == IF i + 1 = RbSize THEN 0 ELSE i + 1

-----------------------------------------------------------------------------
\* Mutant of RbRoom: it is full when it has more bytes than it holds.
RbRoomOver == rb_sount <= RbSize
\* ringbuffer_is_full, ringbuffer_get_count
RbRoom == rb_sount # RbSize

RbMayInsert ==
  /\ rb_inserting = "idle" /\ rb_put < RbMax /\ RbRoom
  /\ rb_inserting' = "checked"
  /\ UNCHANGED <<rb_data, rb_in, rb_out, rb_sount, rb_removing, rb_put, rb_got, rb_last>>

\* ringbuffer_insert: the byte and the pointer.
RbInsert ==
  /\ rb_inserting = "checked"
  /\ rb_inserting' = "moved"
  /\ rb_data' = [rb_data EXCEPT ![rb_in] = rb_put + 1]
  /\ rb_in' = RbAdvance(rb_in)
  /\ rb_put' = rb_put + 1
  /\ UNCHANGED <<rb_out, rb_sount, rb_removing, rb_got, rb_last>>

\* ringbuffer_insert: the count.
RbCountUp ==
  /\ rb_inserting = "moved"
  /\ rb_inserting' = "idle"
  /\ rb_sount' = rb_sount + 1
  /\ UNCHANGED <<rb_data, rb_in, rb_out, rb_removing, rb_put, rb_got, rb_last>>

\* Mutant of RbAny: the pointers are compared, not the count.
RbAnyPointers == rb_in # rb_out \/ rb_sount = 0
\* ringbuffer_is_empty
RbAny == rb_sount # 0

RbMayRemove ==
  /\ rb_removing = "idle" /\ RbAny
  /\ rb_removing' = "checked"
  /\ UNCHANGED <<rb_data, rb_in, rb_out, rb_sount, rb_inserting, rb_put, rb_got, rb_last>>

\* ringbuffer_remove: the byte and the pointer.
RbRemove ==
  /\ rb_removing = "checked"
  /\ rb_removing' = "moved"
  /\ rb_last' = rb_data[rb_out]
  /\ rb_out' = RbAdvance(rb_out)
  /\ rb_got' = rb_got + 1
  /\ UNCHANGED <<rb_data, rb_in, rb_sount, rb_inserting, rb_put>>

\* ringbuffer_remove: the count.
RbCountDown ==
  /\ rb_removing = "moved"
  /\ rb_removing' = "idle"
  /\ rb_sount' = rb_sount - 1
  /\ UNCHANGED <<rb_data, rb_in, rb_out, rb_inserting, rb_put, rb_got, rb_last>>

RbNext == RbMayInsert \/ RbInsert \/ RbCountUp \/ RbMayRemove \/ RbRemove \/ RbCountDown

RbSpec == RbInit /\ [][RbNext]_rbVars

-----------------------------------------------------------------------------
(* Whatever the order of the two threads' steps, the bytes come out once,  *)
(* in order and unharmed (ringbuffer_insert, ringbuffer_remove).           *)
RbQueue == INSTANCE ReliableQueue WITH put <- rb_put, got <- rb_got, last <- rb_last
RbInOrder == RbQueue!Spec
=============================================================================
