------------------------------- MODULE BltLink ------------------------------
(***************************************************************************)
(* A connection of the Bluetooth library (proj_lib/blt_ll/blt_ll.c): in    *)
(* every connection event the device listens for one packet of the master  *)
(* (blt_brx), answers it with the head of its fifo or an empty packet,     *)
(* acknowledges by one bit each way (blt_brx_sn_nesn), and hops on over    *)
(* the channels of a map the master changes at an agreed event.            *)
(*                                                                         *)
(* The master is no code of this repository: it follows the two bits the   *)
(* way blt_brx_sn_nesn expects it to, runs one control procedure at a time *)
(* and counts the events the device counts.  Packets are numbers.          *)
(***************************************************************************)
EXTENDS Naturals

CONSTANTS
  BltFifo,     \* entries of blt_tx_fifo
  BltSuper,    \* events without a packet in blt_conn_timeout
  BltInstTop,  \* values of the 16-bit event counter
  BltAhead,    \* events from the choice of an instant to it: at least the command's own between
  BltMaps,     \* channel maps
  BltPutMax,   \* bound: packets the application sends in a connection
  BltCmdMax    \* bound: commands of the master in a connection

ASSUME BltAssumption ==
  /\ BltFifo \in Nat \ {0} /\ BltSuper \in Nat /\ BltInstTop \in Nat \ {0}
  /\ BltAhead \subseteq 2..BltInstTop - 1
  /\ BltMaps # {} /\ BltPutMax \in Nat /\ BltCmdMax \in Nat

BltCmds == {"request", "map", "param"}

VARIABLES
  blt_state,           \* "adv" or "conn"
  blt_conn_sn_slave,   \* 16 until the first packet of a connection
  blt_conn_sn_master,
  blt_tx_rptr, blt_tx_wptr, blt_tx_sending,
  blt_conn_update, blt_conn_inst, blt_conn_inst_next,
  blt_chn_map, blt_chn_map_next,
  blt_silent,          \* events since blt_conn_tick
  bm_sn, bm_nesn,      \* the master's two bits
  bm_pkt,              \* its packet: a command, or "empty"
  bm_put,              \* commands it has sent, the one of bm_pkt included
  bm_got, bm_last,     \* packets it took, and the number of the last one
  bm_map,
  bm_next,             \* its control procedure: kind, instant and map
  blt_got, blt_last,   \* commands the device took, and the number of the last one
  blt_apart            \* history: the device could not, or did not, follow the master

bltBits == <<blt_conn_sn_slave, blt_conn_sn_master, blt_tx_sending, bm_sn, bm_nesn>>
bltHop == <<blt_conn_update, blt_conn_inst, blt_conn_inst_next, blt_chn_map, blt_chn_map_next>>
bltQueue == <<blt_tx_rptr, blt_tx_wptr, bm_pkt, bm_put, bm_got, bm_last, blt_got, blt_last>>
bltVars == <<blt_state, blt_silent, bltBits, bltHop, bltQueue, bm_map, bm_next, blt_apart>>

BltNone == [kind |-> "none", inst |-> 0, map |-> CHOOSE m \in BltMaps : TRUE]
BltProcs == [kind : {"map", "param"}, inst : 0..BltInstTop - 1, map : BltMaps]

(* Type invariant; the fifo holds at most its entries.                     *)
BltTypeOK ==
  /\ blt_state \in {"adv", "conn"}
  /\ blt_conn_sn_slave \in {0, 1, 16} /\ blt_conn_sn_master \in {0, 1, 16}
  /\ blt_tx_rptr \in Nat /\ blt_tx_wptr \in blt_tx_rptr..blt_tx_rptr + BltFifo
  /\ blt_tx_sending \in BOOLEAN
  /\ blt_conn_update \in {0, 1} /\ blt_silent \in 0..BltSuper
  /\ {blt_conn_inst, blt_conn_inst_next} \subseteq 0..BltInstTop - 1
  /\ {blt_chn_map, blt_chn_map_next, bm_map} \subseteq BltMaps
  /\ bm_sn \in {0, 1} /\ bm_nesn \in {0, 1}
  /\ bm_pkt \in BltCmds \cup {"empty"}
  /\ {bm_put, bm_got, bm_last, blt_got, blt_last} \subseteq Nat
  /\ bm_next \in BltProcs \cup {BltNone}
  /\ blt_apart \in BOOLEAN

\* blt_init, and the variables of a connection as they start.
BltInit ==
  /\ blt_state = "adv"
  /\ blt_conn_sn_slave = 16 /\ blt_conn_sn_master = 16
  /\ blt_tx_rptr = 0 /\ blt_tx_wptr = 0 /\ blt_tx_sending = FALSE
  /\ blt_conn_update = 0 /\ blt_conn_inst = 0 /\ blt_conn_inst_next = 0
  /\ blt_chn_map = BltNone.map /\ blt_chn_map_next = BltNone.map
  /\ blt_silent = 0
  /\ bm_sn = 0 /\ bm_nesn = 0 /\ bm_pkt = "empty"
  /\ bm_put = 0 /\ bm_got = 0 /\ bm_last = 0 /\ bm_map = BltNone.map /\ bm_next = BltNone
  /\ blt_got = 0 /\ blt_last = 0 /\ blt_apart = FALSE

-----------------------------------------------------------------------------
\* blt_send_adv and blt_connect: what a new connection starts with.  A map that waits for its
\* event in the old one goes on waiting.
BltConnect ==
  /\ blt_state = "adv"
  /\ blt_state' = "conn"
  /\ blt_conn_sn_slave' = 16 /\ blt_conn_sn_master' = 16
  /\ blt_tx_rptr' = 0 /\ blt_tx_wptr' = 0 /\ blt_tx_sending' = FALSE
  /\ blt_conn_inst' = 0 /\ blt_silent' = 0
  /\ blt_chn_map' \in BltMaps /\ bm_map' = blt_chn_map'
  /\ bm_sn' = 0 /\ bm_nesn' = 0 /\ bm_pkt' = "empty"
  /\ bm_put' = 0 /\ bm_got' = 0 /\ bm_last' = 0 /\ blt_got' = 0 /\ blt_last' = 0
  /\ bm_next' = BltNone
  /\ blt_apart' = (blt_conn_update = 1)
  /\ UNCHANGED <<blt_conn_update, blt_conn_inst_next, blt_chn_map_next>>

\* Mutant of BltRoom: one entry too many.
BltRoomOver(r, w) == w - r <= BltFifo
BltRoom(r, w) == w - r < BltFifo

\* blt_push_fifo, called by the application between two events.
BltPush ==
  /\ blt_tx_wptr < BltPutMax
  /\ BltRoom(blt_tx_rptr, blt_tx_wptr)
  /\ blt_tx_wptr' = blt_tx_wptr + 1
  /\ UNCHANGED <<blt_state, blt_silent, bltBits, bltHop, blt_tx_rptr, bm_pkt, bm_put, bm_got,
                 bm_last, blt_got, blt_last, bm_map, bm_next, blt_apart>>

-----------------------------------------------------------------------------
\* Mutants of BltSkip: any acknowledgement counts for the head of the fifo; none does twice.
BltSkipAny == bm_nesn # blt_conn_sn_slave /\ blt_tx_rptr # blt_tx_wptr
BltSkipSame == blt_tx_sending /\ blt_tx_rptr # blt_tx_wptr
\* blt_brx_sn_nesn: the master has the head of the fifo.
BltSkip == /\ bm_nesn # blt_conn_sn_slave
           /\ blt_tx_sending /\ blt_tx_rptr # blt_tx_wptr

BltNew == bm_sn # blt_conn_sn_master

\* The master after an answer with packet n, 0 for an empty one: it takes it, and sends
\* another packet, perhaps a command.
BmTake(n) ==
  /\ bm_sn' = 1 - bm_sn
  /\ bm_nesn' = 1 - bm_nesn
  /\ IF n = 0 THEN UNCHANGED <<bm_got, bm_last>> ELSE bm_got' = bm_got + 1 /\ bm_last' = n
  /\ \/ bm_pkt' = "empty" /\ UNCHANGED bm_put
     \/ /\ bm_put < BltCmdMax /\ bm_put' = bm_put + 1
        /\ bm_pkt' \in IF bm_next = BltNone THEN BltCmds ELSE {"request"}

\* The master keeps its packet: the answer did not come.
BmKeep == UNCHANGED <<bm_sn, bm_nesn, bm_pkt, bm_put, bm_got, bm_last>>

\* What the device does with a new packet: a control command's instant and map are kept for
\* later, a request is answered (l2cap_att_handler), if there is room.
BltCommand(r) ==
  IF BltNew /\ bm_pkt # "empty"
  THEN /\ blt_got' = blt_got + 1 /\ blt_last' = bm_put
       /\ blt_conn_inst_next' = IF bm_pkt = "request" THEN blt_conn_inst_next ELSE bm_next.inst
       /\ blt_chn_map_next' = IF bm_pkt = "map" THEN bm_next.map ELSE blt_chn_map_next
       /\ blt_tx_wptr' = IF bm_pkt = "request" /\ BltRoom(r, blt_tx_wptr)
                         THEN blt_tx_wptr + 1 ELSE blt_tx_wptr
  ELSE UNCHANGED <<blt_got, blt_last, blt_conn_inst_next, blt_chn_map_next, blt_tx_wptr>>

\* blt_brx_sn_nesn: the bits, and the answer.
BltBits(r) ==
  /\ blt_conn_sn_slave' = bm_nesn
  /\ blt_conn_sn_master' = bm_sn
  /\ blt_tx_rptr' = r
  /\ blt_tx_sending' = (r # blt_tx_wptr)

\* Mutant of BltDue: the map is changed one event early.
BltDueEarly == blt_conn_inst + 1 = blt_conn_inst_next'
BltDue == blt_conn_inst = blt_conn_inst_next'

\* The next anchor, for both ends.  The master uses the new map in the event of the instant,
\* the device changes its own at the end of that event; a change of the interval is kept by
\* the device but never made.
BltHop(pending) ==
  LET inst == (blt_conn_inst + 1) % BltInstTop
      over == bm_next # BltNone /\ blt_conn_inst = bm_next.inst
  IN /\ blt_conn_inst' = inst
     /\ blt_conn_update' = IF pending /\ ~BltDue THEN 1 ELSE 0
     /\ blt_chn_map' = IF pending /\ BltDue THEN blt_chn_map_next' ELSE blt_chn_map
     /\ bm_map' = IF bm_next.kind = "map" /\ inst = bm_next.inst THEN bm_next.map ELSE bm_map
     /\ blt_apart' = (blt_apart \/ (over /\ (bm_next.kind = "param" \/
                                             (bm_pkt = bm_next.kind /\ blt_last' # bm_put))))
     /\ IF bm_pkt' \in {"map", "param"} /\ bm_put' # bm_put
        THEN \E a \in BltAhead, m \in BltMaps :
               bm_next' = [kind |-> bm_pkt', inst |-> (blt_conn_inst + a) % BltInstTop,
                           map |-> m]
        ELSE bm_next' = IF over THEN BltNone ELSE bm_next

\* blt_brx: the packet came, and the answer did, or not.
BltHeard(answered) ==
  /\ blt_state = "conn"
  /\ LET r == IF BltSkip THEN blt_tx_rptr + 1 ELSE blt_tx_rptr
     IN /\ BltBits(r)
        /\ BltCommand(r)
        /\ IF answered THEN BmTake(IF r # blt_tx_wptr THEN r + 1 ELSE 0) ELSE BmKeep
  /\ BltHop(blt_conn_update = 1 \/ (BltNew /\ bm_pkt = "map"))
  /\ blt_silent' = 0
  /\ UNCHANGED blt_state

\* blt_brx: nothing came, or not intact.
BltMissed ==
  /\ blt_state = "conn" /\ blt_silent < BltSuper
  /\ blt_silent' = blt_silent + 1
  /\ BmKeep /\ UNCHANGED <<blt_tx_rptr, blt_tx_wptr, blt_tx_sending, blt_conn_sn_slave,
       blt_conn_sn_master, blt_got, blt_last, blt_conn_inst_next, blt_chn_map_next, blt_state>>
  /\ BltHop(blt_conn_update = 1)

\* blt_brx: it has been too long.
BltDrop ==
  /\ blt_state = "conn" /\ blt_silent = BltSuper
  /\ blt_state' = "adv"
  /\ UNCHANGED <<blt_silent, bltBits, bltHop, bltQueue, bm_map, bm_next, blt_apart>>

BltBrx == (\E answered \in BOOLEAN : BltHeard(answered)) \/ BltMissed \/ BltDrop

BltNext == BltConnect \/ BltPush \/ BltBrx

BltSpec == BltInit /\ [][BltNext]_bltVars

\* The main loop goes on listening, and advertising, and the radio lets a packet and its answer
\* through now and then.
BltFairness ==
  /\ WF_bltVars(BltConnect) /\ WF_bltVars(BltBrx)
  /\ SF_bltVars(BltHeard(TRUE))

BltFair == BltSpec /\ BltFairness

-----------------------------------------------------------------------------
(* Each direction keeps its promise, whatever is lost: packets of the      *)
(* device, and commands of the master, arrive once and in order (the two   *)
(* bits of blt_brx_sn_nesn and the pointers of the fifo).                  *)
BltDown == INSTANCE ReliableQueue WITH put <- bm_put, got <- blt_got, last <- blt_last
BltUp == INSTANCE ReliableQueue WITH put <- blt_tx_wptr, got <- bm_got, last <- bm_last
BltInOrder == BltUp!Spec /\ BltDown!Spec

(* What the application sends and what the master commands arrives in the  *)
(* end, unless the connection is lost.                                     *)
BltArrives == []<>(blt_state = "adv" \/ (bm_got = blt_tx_wptr /\ blt_got = bm_put))

(* Both ends use the same channel map in every event but the one of the    *)
(* instant, in which the device still uses the old one (the update at the  *)
(* end of blt_brx): unless the command came after its instant, the master  *)
(* changed the interval, which the device never does, or a map was still   *)
(* waiting when the connection before was lost (blt_connect).              *)
BltMapFollows ==
  blt_state = "conn" /\ ~blt_apart /\ blt_chn_map # bm_map
    => bm_next.kind = "map" /\ blt_conn_inst = bm_next.inst
=============================================================================
