--------------------------- MODULE MCDonglePairing --------------------------
EXTENDS DonglePairing

CONSTANTS pen, kb, mouse

\* A pen and a keyboard that compete for the dongle, and a mouse beside them.
MCDevType == [d \in Devices |-> IF d = mouse THEN "mouse" ELSE "keyboard"]
=============================================================================
