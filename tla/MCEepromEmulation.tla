------------------------- MODULE MCEepromEmulation -------------------------
(* A checksum and a default image for TLC.                                 *)
EXTENDS EepromEmulation

MCCrc == [v \in Vals |-> 1 - v]
MCDefault == [w \in Words |-> IF w = CrcWord THEN 1 ELSE 0]

=============================================================================
