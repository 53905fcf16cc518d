------------------------------- MODULE MCParts ------------------------------
(***************************************************************************)
(* The parts whose properties are safety only, side by side: a behaviour   *)
(* is one of one of them, and the others stay in their initial states.     *)
(***************************************************************************)
EXTENDS DonglePairing, Keyboard, KeyMatrix, VacuumReceiver, ManagedMemory, RingBuffer,
        BltAtt

CONSTANTS pen, kb, mouse

VARIABLE part

\* A pen and a keyboard that compete for the dongle, and a mouse beside them.
MCDevType == [d \in Devices |-> IF d = mouse THEN "mouse" ELSE "keyboard"]
MCKbChords == {{}, {"a"}, {"lock"}}

\* A service with a UUID of len bytes, and characteristics whose values have types of these.
MCAttService(len, values) ==
  <<[uuid |-> "service", uuidLen |-> 2, attrLen |-> len, attNum |-> 1 + 2 * Len(values)]>>
  \o [i \in 1..2 * Len(values) |->
       [uuid |-> IF i % 2 = 1 THEN "char" ELSE "value", attNum |-> 0,
        uuidLen |-> IF i % 2 = 1 THEN 2 ELSE values[i \div 2],
        attrLen |-> IF i % 2 = 1 THEN 5 ELSE 1]]
MCAttServices ==
  {MCAttService(len, values) : len \in {2, 16}, values \in {<<>>, <<2>>, <<2, 2, 2, 2>>}}
  \cup {MCAttService(2, values) : values \in {<<16>>, <<2, 2, 2, 16>>}}
MCAttTables == {s \o t \o u : s, t \in MCAttServices, u \in MCAttServices \cup {<<>>}}

MCInit ==
  /\ part \in {"pairing", "keyboard", "matrix", "receiver", "memory", "ring", "att"}
  /\ Init /\ KbInit /\ KmInit /\ VrInit /\ MmInit /\ RbInit /\ AttInit
  /\ part # "pairing" => mode = "auto" /\ ~id_check_flg
  /\ part # "keyboard" => kb_dongle = "fresh"
  /\ part # "att" => /\ gAttributes = MCAttService(2, <<2>>) \o MCAttService(2, <<2>>)
                     /\ at_job = "info"

MCNext ==
  /\ UNCHANGED part
  /\ IF part = "pairing" THEN Next ELSE UNCHANGED vars
  /\ IF part = "keyboard" THEN KbNext ELSE UNCHANGED kbVars
  /\ IF part = "matrix" THEN KmNext ELSE UNCHANGED kmVars
  /\ IF part = "receiver" THEN VrNext ELSE UNCHANGED vrVars
  /\ IF part = "memory" THEN MmNext ELSE UNCHANGED mmVars
  /\ IF part = "ring" THEN RbNext ELSE UNCHANGED rbVars
  /\ IF part = "att" THEN AttAsk ELSE UNCHANGED atVars

MCSpec == MCInit /\ [][MCNext]_<<part, vars, kbVars, kmVars, vrVars, mmVars, rbVars, atVars>>

-----------------------------------------------------------------------------
(* The type invariants of all parts: their counters, indices and pointers  *)
(* (custom_binding_idx, release_cnt, wptr, avail_memory, rb_sount, ...)    *)
(* stay in their ranges.                                                   *)
PartsTypeOK == TypeOK /\ KbTypeOK /\ KmTypeOK /\ VrTypeOK /\ MmTypeOK /\ RbTypeOK /\ AttTypeOK
=============================================================================
