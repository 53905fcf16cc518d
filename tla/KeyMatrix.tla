----------------------------- MODULE KeyMatrix ------------------------------
(***************************************************************************)
(* The key matrix (proj/drivers/keyboard.c).  A scan drives one row after  *)
(* the other and reads the columns, kb_rmv_ghost_key takes away what may   *)
(* be the shadow of other keys, and key_debounce_filter lets a key change  *)
(* only after two scans that agree.                                        *)
(*                                                                         *)
(* There are no diodes: a column is read as pressed if closed switches     *)
(* lead to it from the row in any way.  Keys may go up or down while the   *)
(* rows are read.                                                          *)
(***************************************************************************)
EXTENDS Naturals, FiniteSets

CONSTANTS
  KmRows,      \* drive_pins, from 1 on
  KmCols,      \* scan_pins
  KmFingers,   \* bound of the keys held at the same time
  KM_WINDOW    \* release_cnt (6)

\* A key that went up is scanned for twice more before the window ends.
ASSUME KmAssumption ==
  /\ KmRows \in Nat \ {0} /\ IsFiniteSet(KmCols)
  /\ KmFingers \in Nat /\ KM_WINDOW \in Nat /\ KM_WINDOW >= 3

KmRow == 1..KmRows
KmKeys == KmRow \X KmCols
KmChords == {s \in SUBSET KmKeys : Cardinality(s) <= KmFingers}

\* One key at a time goes up or down, so fast after another as one likes.
KmChange(closed) ==
  {s \in KmChords : \E k \in KmKeys : s = closed \ {k} \/ s = closed \cup {k}}

VARIABLES
  km_closed,   \* the switches that are closed
  km_pre, km_last,  \* mtrx_pre and mtrx_last
  ret_last,    \* the columns with a key
  km_release,  \* release_cnt
  km_split,    \* history: keys changed while the last scan read the rows
  km_seen,     \* history: the keys that were closed at some time in the last scan that
               \* read the rows
  km_still,    \* history: scans since a key changed, up to 2
  km_short     \* history: a key went down while the rows were read that no scan found
               \* down at its start

kmVars == <<km_closed, km_pre, km_last, ret_last, km_release, km_split, km_seen, km_still,
            km_short>>

KmTypeOK ==
  /\ km_closed \in KmChords
  /\ km_pre \subseteq KmKeys /\ km_last \subseteq KmKeys /\ km_seen \in SUBSET KmKeys
  /\ ret_last \subseteq KmCols
  /\ km_release \in 0..KM_WINDOW - 1
  /\ km_split \in BOOLEAN /\ km_short \in BOOLEAN /\ km_still \in 0..2

KmInit ==
  /\ km_closed = {} /\ km_pre = {} /\ km_last = {}
  /\ ret_last = {} /\ km_release = 0
  /\ km_split = FALSE /\ km_seen = {} /\ km_still = 0 /\ km_short = FALSE

ColsOf(keys, r) == {c \in KmCols : <<r, c>> \in keys}

\* The rows that closed switches connect with row r, and what is read there.
Linked(closed, rows) ==
  \A a \in rows, b \in KmRow : ColsOf(closed, a) \cap ColsOf(closed, b) # {} => b \in rows
Wired(closed, r) ==
  {a \in KmRow : \A rows \in SUBSET KmRow : r \in rows /\ Linked(closed, rows) => a \in rows}
ReadRow(closed, r) == UNION {ColsOf(closed, a) : a \in Wired(closed, r)}

\* kb_rmv_ghost_key: what two rows have in common is taken away if it is more than a
\* column or if the rows differ otherwise, from these rows and from those behind them.
\* Mutant: what rows that read the same have in common is kept.
SuspectDiffer(raw, a, b) ==
  LET mix == ColsOf(raw, a) \cap ColsOf(raw, b)
  IN IF ColsOf(raw, a) # ColsOf(raw, b) THEN mix ELSE {}
Suspect(raw, a, b) ==
  LET mix == ColsOf(raw, a) \cap ColsOf(raw, b)
  IN IF Cardinality(mix) > 1 \/ ColsOf(raw, a) # ColsOf(raw, b) THEN mix ELSE {}

kb_rmv_ghost_key(raw) ==
  {k \in raw : \A a, b \in KmRow : a <= k[1] /\ a < b => k[2] \notin Suspect(raw, a, b)}

key_debounce_filter(cur) == (km_pre \cap cur) \cup (km_last \cap (km_pre \cup cur))

\* Mutant of ColsLooked: the columns are not kept for the scans that follow a release.
ColsLookedNow == {k[2] : k \in km_closed}
\* kb_key_pressed: the columns that are looked at, at first and for some scans more.
ColsLooked == IF km_closed # {} THEN {k[2] : k \in km_closed}
              ELSE IF km_release > 0 THEN ret_last ELSE {}

\* kb_key_pressed: the scans that follow a release.
KmWindow == IF km_closed # {} THEN KM_WINDOW - 1 ELSE IF km_release > 0 THEN km_release - 1 ELSE 0

\* kb_scan_key: rows up to n are read before the keys change, the rows behind after it.
km_scan_key ==
  \E n \in KmRow, closed \in KmChange(km_closed) :
    LET split == n < KmRows /\ closed # km_closed
        raw == UNION {{r} \X (ColsLooked \cap ReadRow(IF r <= n THEN km_closed ELSE closed, r))
                        : r \in KmRow}
        scanned == ColsLooked # {}
        cur == kb_rmv_ghost_key(raw)
    IN  /\ n < KmRows \/ closed = km_closed
        /\ split => ~km_split
        /\ km_closed' = closed
        /\ km_split' = split
        /\ km_seen' = IF scanned THEN km_closed \cup closed ELSE km_seen
        /\ km_still' = IF split THEN 0 ELSE IF km_still = 2 THEN 2 ELSE km_still + 1
        /\ km_short' = (km_closed = {} /\ (km_short \/ closed # {}))
        /\ ret_last' = ColsLooked
        /\ km_release' = KmWindow
        /\ km_pre' = IF scanned THEN cur ELSE km_pre
        /\ km_last' = IF scanned THEN key_debounce_filter(cur) ELSE km_last

\* Keys change between two scans.
KmKeysChange ==
  /\ \E closed \in KmChange(km_closed) \ {km_closed} : km_closed' = closed
  /\ km_still' = 0
  /\ UNCHANGED <<km_pre, km_last, ret_last, km_release, km_split, km_seen, km_short>>

KmNext == km_scan_key \/ KmKeysChange
KmSpec == KmInit /\ [][KmNext]_kmVars

-----------------------------------------------------------------------------
\* No key is reported that was not pressed in the last two scans that read the rows, whatever
\* other keys are down, as long as the keys do not change in the middle of two scans running.
\* (One such scan can show a phantom that the ghost removal lets pass; the debouncing then
\* does not.)
KmNoPhantom == [][km_last' \ km_last \subseteq km_seen \cup km_seen']_kmVars

\* A key that closed switches could show although it is open.
Ambiguous(closed, k) ==
  Cardinality(Wired(closed, k[1])) > 1 /\ Cardinality(ReadRow(closed, k[1])) > 1

\* After two scans without a change exactly the keys that are down are reported, but for
\* those that cannot be told from others: no key stays behind after its release and none is
\* missed.  The case taken out is real: a switch that bounces as the rows of every other
\* scan are read, to the end of the window, is reported as held from then on, for nothing
\* is scanned any more.
KmSettled ==
  km_still = 2 /\ ~km_short => km_last = {k \in km_closed : ~Ambiguous(km_closed, k)}
=============================================================================
