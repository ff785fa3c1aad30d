------------------------------ MODULE MCSipfax ------------------------------
(* Small instances of the whole service.                                   *)
EXTENDS Sipfax

CONSTANTS c1, c2, l1, l2, p1, p2

MCCalls  == {c1, c2}
MCLines  == {l1, l2}
MCProcs  == {p1, p2}
=============================================================================
