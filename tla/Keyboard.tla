------------------------------ MODULE Keyboard ------------------------------
(***************************************************************************)
(* The keys of the keyboard product, from the matrix to the dongle: one    *)
(* pass of main_loop (vendor/keyboard_remington/kb.c) scans and debounces  *)
(* (kb_scan_key of proj/drivers/keyboard.c), takes a report out of two     *)
(* buffers in a row, locks or unlocks the keyboard (kb_lock_func), and     *)
(* sends a frame until it is acknowledged (kb_rf_proc).  The scan stops    *)
(* KB_WINDOW passes after the last key is up, whatever is left in the      *)
(* buffers.                                                                *)
(*                                                                         *)
(* A report is the sequence of its keys.  What is down is taken after the  *)
(* removal of ghost keys (KeyMatrix).  The keyboard is linked              *)
(* (STATE_NORMAL); its sleep is in KeyboardPower.                          *)
(*                                                                         *)
(* A dongle that pairs automatically and has not learned the keyboard's id *)
(* asks for it in its answers.  The keyboard then puts the id into the last*)
(* four bytes of its frames, where the third and later keys of a report    *)
(* are, and goes on sending until the dongle answers without asking.       *)
(***************************************************************************)
EXTENDS Naturals, Sequences, FiniteSets, SequencesExt

CONSTANTS
  KbChords,   \* the sets of keys a user holds down
  VK_LOCK,    \* the key that locks the keyboard
  KB_WINDOW,  \* passes the scan goes on after the last key is up (6)
  KB_REPEAT,  \* passes without a change before a held key is reported again (16)
  KB_IDLE,    \* passes without an answer before the host's status is forgotten (83)
  KB_RETRY,   \* passes a frame is tried in (0x400)
  KB_RING,    \* matrix_buff (4)
  KEY_BUF_SIZE,        \* (8)
  KB_RETURN_KEY_MAX,   \* keys of a report (6)
  KB_ID_KEYS, \* keys that leave room for the id (2)
  KbMaxStalls          \* bound of the history variable kb_stalls

KbKeys == UNION KbChords
KbReports == UNION {[1..n -> KbKeys] : n \in 0..KB_RETURN_KEY_MAX}

ASSUME KbAssumption ==
  /\ {} \in KbChords /\ IsFiniteSet(KbKeys)
  /\ KB_WINDOW \in Nat /\ KB_WINDOW >= 4
  /\ KB_REPEAT \in Nat /\ KB_REPEAT >= KB_WINDOW - 2
  /\ KB_RETRY \in Nat /\ KB_RETRY > KB_WINDOW - 4
  /\ KbMaxStalls \in Nat /\ KbMaxStalls > KB_WINDOW - 4
  /\ KEY_BUF_SIZE \in Nat /\ KEY_BUF_SIZE >= KB_WINDOW - 2
  /\ KB_IDLE \in Nat /\ KB_ID_KEYS \in Nat /\ KB_RING \in Nat \ {0}
  /\ KB_RETURN_KEY_MAX \in Nat \ {0}

VARIABLES
  kb_down,           \* what the user holds down
  mtrx_pre, mtrx_last,
  release_cnt,
  data_same_cnt,
  matrix_buff,       \* from its read pointer on
  keyEvt_buf,
  kb_locked,         \* kb_is_lock_pressed
  last_kb_cnt,       \* of kb_lock_status: 0, or 1 for any key
  kb_valid,          \* host_keyboard_status is not KB_NUMLOCK_STATUS_INVALID
  kb_silence,        \* passes since tick_last_tx
  pkt_km,            \* the report of the frame
  km_dat_sending,
  kb_retry,          \* kb_tx_retry_thresh
  pipe1_send_id_flg,
  pkt_id,            \* the id was written into the frame
  kb_taken,          \* the dongle has taken a frame with this sequence number
  kb_dongle,         \* what it knows of the id: "fresh", "asks" or "knows"
  kb_host,           \* the keys the dongle was told last
  kb_garbled,        \* history: it took bytes of the id for keys
  kb_stalls,         \* history: frames unanswered, ignored answers among them, or answered
                     \* by a question, since the buffers were empty
  kb_dropped,        \* history: a frame was given up
  kb_toggles,        \* history: changes of kb_locked since an empty report of the scan
  kb_blind           \* history: kb_valid was FALSE at one of them, or after it

scanVars == <<mtrx_pre, mtrx_last, release_cnt, data_same_cnt>>
bufVars == <<matrix_buff, keyEvt_buf>>
lockVars == <<kb_locked, last_kb_cnt, kb_toggles, kb_blind>>
radioVars == <<pkt_km, km_dat_sending, kb_retry, kb_silence, kb_valid, pipe1_send_id_flg,
               pkt_id, kb_taken>>
kbDongleVars == <<kb_dongle, kb_host, kb_garbled>>
kbVars == <<kb_down, scanVars, bufVars, lockVars, radioVars, kbDongleVars, kb_stalls, kb_dropped>>

KbTypeOK ==
  /\ kb_down \in KbChords
  /\ mtrx_pre \subseteq KbKeys /\ mtrx_last \subseteq KbKeys
  /\ release_cnt \in 0..KB_WINDOW /\ data_same_cnt \in 0..KB_REPEAT
  /\ Len(matrix_buff) <= KB_RING /\ Len(keyEvt_buf) <= KEY_BUF_SIZE
  /\ \A i \in DOMAIN matrix_buff : matrix_buff[i] \subseteq KbKeys
  /\ \A i \in DOMAIN keyEvt_buf : keyEvt_buf[i] \in KbReports
  /\ kb_locked \in BOOLEAN /\ last_kb_cnt \in {0, 1}
  /\ kb_valid \in BOOLEAN /\ kb_silence \in 0..KB_IDLE
  /\ pkt_km \in KbReports /\ km_dat_sending \in BOOLEAN /\ kb_retry \in 0..KB_RETRY
  /\ pipe1_send_id_flg \in BOOLEAN /\ pkt_id \in BOOLEAN /\ kb_taken \in BOOLEAN
  /\ kb_dongle \in {"fresh", "asks", "knows"}
  /\ kb_host \subseteq KbKeys /\ kb_garbled \in BOOLEAN
  /\ kb_stalls \in 0..KbMaxStalls /\ kb_dropped \in BOOLEAN
  /\ kb_toggles \in 0..2 /\ kb_blind \in BOOLEAN

KbInit ==
  /\ kb_down = {} /\ mtrx_pre = {} /\ mtrx_last = {}
  /\ release_cnt = 0 /\ data_same_cnt = 0
  /\ matrix_buff = <<>> /\ keyEvt_buf = <<>>
  /\ kb_locked = FALSE /\ last_kb_cnt = 0
  /\ kb_valid = FALSE /\ kb_silence = KB_IDLE
  /\ pkt_km = <<>> /\ km_dat_sending = FALSE /\ kb_retry = 0
  /\ pipe1_send_id_flg = FALSE /\ pkt_id = FALSE /\ kb_taken = TRUE
  /\ kb_dongle \in {"fresh", "knows"}
  /\ kb_host = {} /\ kb_garbled = FALSE
  /\ kb_stalls = 0 /\ kb_dropped = FALSE
  /\ kb_toggles = 0 /\ kb_blind = FALSE

-----------------------------------------------------------------------------
\* The scan.

\* Mutant of Window: as long as a key is down only.
WindowNone(n) == 0
\* kb_key_pressed: what release_cnt becomes, and whether the rest is scanned at all.
Window(n) == IF kb_down # {} THEN KB_WINDOW - 1 ELSE IF n > 0 THEN n - 1 ELSE 0
Scanned == kb_down # {} \/ release_cnt > 0

\* key_debounce_filter: two readings that agree change a key.
Debounced ==
  {k \in KbKeys : IF k \in mtrx_last THEN k \in mtrx_pre \cup kb_down
                  ELSE k \in mtrx_pre \cap kb_down}

Repeats == Debounced = mtrx_last /\ data_same_cnt + 1 >= KB_REPEAT
\* What was held is reported on a change, and again from time to time unless locked.
Reported == Debounced # mtrx_last \/ (Repeats /\ ~kb_locked)

Newest(s, n) == IF Len(s) > n THEN Tail(s) ELSE s

\* KEY_SPECIAL, KEY_MERGABLE
Special(r) == r = <<>>
Mergable(r, s) == ~Special(r) /\ ~Special(s) /\ Len(r) + Len(s) <= KB_RETURN_KEY_MAX

\* key_buf_merge, one report after the other: those that can be merged are, ...
Joined(s, r) == IF s # <<>> /\ Mergable(Last(s), r) THEN Append(Front(s), Last(s) \o r)
                ELSE Append(s, r)
Merged ==
  LET s[n \in 0..Len(keyEvt_buf)] == IF n = 0 THEN <<>> ELSE Joined(s[n - 1], keyEvt_buf[n])
  IN s[Len(keyEvt_buf)]
\* ... and if none can the oldest goes.
RoomMade == IF Len(Merged) < KEY_BUF_SIZE THEN Merged ELSE Tail(keyEvt_buf)

\* kb_remap_key_code: the keys of a matrix, as many as a report holds.
Report(keys) == LET s == SetToSeq(keys)
                IN IF Len(s) > KB_RETURN_KEY_MAX THEN SubSeq(s, 1, KB_RETURN_KEY_MAX) ELSE s

\* A full keyEvt_buf makes room, and takes the oldest of the matrix buffer.
Remapped(ring) ==
  IF ring = <<>> THEN keyEvt_buf
  ELSE Append(IF Len(keyEvt_buf) = KEY_BUF_SIZE THEN RoomMade ELSE keyEvt_buf,
              Report(Head(ring)))

MayRead == ~km_dat_sending

\* Both buffers after the scan, before a report is taken.
Ring == Newest(IF Reported THEN Append(matrix_buff, Debounced) ELSE matrix_buff, KB_RING)
Events == Remapped(Ring)

\* Nothing is read before the dongle has told what NumLock is: an empty report asks.
Asks == ~kb_valid /\ ~kb_locked
Takes == Events # <<>> /\ MayRead

\* What kb_scan_key returns, and the report it leaves in kb_event.
KeyScaned == Scanned /\ (Asks \/ Takes)
KbEvent == IF Asks THEN <<>> ELSE Head(Events)

kb_scan_key ==
  /\ release_cnt' = Window(release_cnt)
  /\ IF ~Scanned THEN UNCHANGED <<mtrx_pre, mtrx_last, data_same_cnt, bufVars>>
     ELSE /\ mtrx_pre' = kb_down
          /\ mtrx_last' = Debounced
          /\ data_same_cnt' = IF Debounced # mtrx_last \/ Repeats THEN 0
                              ELSE data_same_cnt + 1
          /\ IF Asks THEN matrix_buff' = Ring /\ UNCHANGED keyEvt_buf
             ELSE /\ matrix_buff' = IF Ring = <<>> THEN Ring ELSE Tail(Ring)
                  /\ keyEvt_buf' = IF Takes THEN Tail(Events) ELSE Events

-----------------------------------------------------------------------------
\* kb_lock_func.

\* Mutant of LockKey: it does not matter what was down before.
LockKeyAny(r) == r = <<VK_LOCK>>
LockKey(r) == r = <<VK_LOCK>> /\ last_kb_cnt = 0

\* Unlocking while the status is unknown asks for it first: the report is emptied.
Unlocks(r) == LockKey(r) /\ kb_locked
Emptied(r) == IF Unlocks(r) /\ ~kb_valid THEN <<>> ELSE r

Capped(n) == IF n > 2 THEN 2 ELSE n

kb_lock_func(scaned, r) ==
  LET turned == scaned /\ LockKey(r)
          up == scaned /\ r = <<>> /\ (kb_valid \/ kb_locked)
  IN  /\ kb_locked' = (kb_locked # turned)
      /\ last_kb_cnt' = IF ~scaned THEN last_kb_cnt ELSE IF Emptied(r) = <<>> THEN 0 ELSE 1
      /\ kb_toggles' = IF up THEN 0 ELSE Capped(kb_toggles + IF turned THEN 1 ELSE 0)
      /\ kb_blind' = (kb_toggles' > 0 /\ (kb_blind \/ ~kb_valid))

-----------------------------------------------------------------------------
\* kb_rf_proc: a new report starts a frame, a question for the id continues it.  The
\* host's status is forgotten after a second without an answer.
Second == kb_silence = KB_IDLE
Forgotten == kb_valid /\ ~Second
Silent == kb_silence' = IF Second THEN KB_IDLE ELSE kb_silence + 1

\* callback_keyboard of the dongle takes one frame of each sequence number.  Its next
\* answer asks for the id if it does not know it.
Heard(frame, taken, id) ==
  /\ kb_taken' = TRUE
  /\ kb_host' = IF taken THEN kb_host ELSE Range(frame)
  /\ kb_garbled' = (kb_garbled \/ (~taken /\ pkt_id' /\ Len(frame) > KB_ID_KEYS))
  /\ kb_dongle' = IF kb_dongle = "fresh" THEN "asks" ELSE IF id THEN "knows" ELSE kb_dongle

Unheard(taken) == kb_taken' = taken /\ UNCHANGED kbDongleVars

\* rf_rx_process: an answer tells the host's status, or asks for the id.
Told ==
  /\ pipe1_send_id_flg' = (kb_dongle = "asks")
  /\ kb_valid' = (kb_dongle # "asks" \/ Forgotten)
Untold == kb_valid' = Forgotten /\ UNCHANGED pipe1_send_id_flg

KbAnswered ==
  /\ Told
  /\ km_dat_sending' = FALSE
  /\ kb_silence' = 0
  /\ kb_stalls' = IF matrix_buff' = <<>> /\ keyEvt_buf' = <<>> THEN 0
                  ELSE IF kb_dongle = "asks" /\ kb_stalls < KbMaxStalls THEN kb_stalls + 1
                  ELSE kb_stalls

\* The radio: a frame is answered; or it is lost, or its answer is, or the answer has the
\* tick of the one before (irq_device_rx), and the frame is sent again.
Sent(frame, taken, id) ==
  \/ Heard(frame, taken, id) /\ KbAnswered
  \/ /\ kb_stalls < KbMaxStalls
     /\ kb_stalls' = kb_stalls + 1
     /\ \/ Unheard(taken) /\ Untold
        \/ Heard(frame, taken, id) /\ (Told \/ Untold)
     /\ km_dat_sending' = TRUE
     /\ Silent

NotSent ==
  /\ km_dat_sending' = FALSE
  /\ Silent /\ kb_valid' = Forgotten
  /\ UNCHANGED <<pipe1_send_id_flg, kb_taken, kbDongleVars, kb_stalls>>

kb_rf_proc(scaned, r) ==
  LET id == pipe1_send_id_flg /\ (scaned => Len(r) <= KB_ID_KEYS)
      left == IF scaned \/ id THEN KB_RETRY ELSE kb_retry
      sending == scaned \/ id \/ km_dat_sending
  IN  /\ pkt_km' = IF scaned THEN r ELSE pkt_km
      /\ pkt_id' = (id \/ (pkt_id /\ ~scaned))
      /\ kb_retry' = IF sending /\ left > 0 THEN left - 1 ELSE left
      /\ IF sending /\ left > 0 THEN Sent(pkt_km', kb_taken /\ ~scaned, id) ELSE NotSent

kb_main_loop ==
  /\ kb_scan_key
  /\ kb_lock_func(KeyScaned, KbEvent)
  /\ kb_rf_proc(KeyScaned /\ ~kb_locked', Emptied(KbEvent))
  /\ kb_dropped' = (kb_dropped \/ (km_dat_sending /\ ~km_dat_sending' /\ ~kb_taken'))
  /\ UNCHANGED kb_down

\* The user presses or releases keys between two scans.
KbKeysChange ==
  /\ \E c \in KbChords : c # kb_down /\ kb_down' = c
  /\ UNCHANGED <<scanVars, bufVars, lockVars, radioVars, kbDongleVars, kb_stalls, kb_dropped>>

KbNext == kb_main_loop \/ KbKeysChange
KbSpec == KbInit /\ [][KbNext]_kbVars

-----------------------------------------------------------------------------
KbIdle == ~Scanned /\ ~km_dat_sending

\* The scan stops a few passes after the last key is up, with reports still in the
\* buffers: they would come out with the next key.  As long as no more than
\* KB_WINDOW - 4 frames go unanswered in between nothing is left there but empty reports,
\* and the host knows that all keys are up.
KbFlushed ==
  KbIdle /\ kb_stalls <= KB_WINDOW - 4 =>
    kb_host = {} /\ Range(matrix_buff) \subseteq {{}} /\ Range(keyEvt_buf) \subseteq {<<>>}

\* However long the lock key is held, and reported again, it locks or unlocks once, as long
\* as the host's status is known; and no key is down at the host while the keyboard is
\* locked, unless its release was given up.
KbLocks ==
  /\ ~kb_blind => kb_toggles <= 1
  /\ kb_locked => kb_host = {} \/ kb_dropped

\* The dongle takes no byte of an id for a key.
KbNoGarbage == ~kb_garbled
=============================================================================
