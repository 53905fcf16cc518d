---------------------------- MODULE MCRadioLink -----------------------------
EXTENDS RadioLink

\* The thresholds of the code (8 and 10 packets, a difference of 2 or 8, 15 and 375
\* slots), scaled down with the order of the slots kept.
MCPktMax == [m \in Mode |-> 2]
MCHitDiff == [m \in Mode |-> 1]
MCAlwaysSlots == [m \in Mode |-> IF m = "normal" THEN 0 ELSE 1]
=============================================================================
