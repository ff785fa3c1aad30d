--------------------------- MODULE MCCallManager ---------------------------
(* Small instances of CallManager.                                         *)
EXTENDS CallManager

CONSTANTS c1, c2, l1, l2

MCCalls == {c1, c2}
MCLines == {l1, l2}
=============================================================================
