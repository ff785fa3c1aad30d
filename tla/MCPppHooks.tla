----------------------------- MODULE MCPppHooks -----------------------------
(* Small instances of PppHooks: one Call-ID that is used again and again,  *)
(* so that hooks of an earlier pppd meet a later one.                      *)
EXTENDS PppHooks

CONSTANTS c1, c2, p1, p2, p3

MCCalls == {c1, c2}
OneCall == {c1}
MCProcs == {p1, p2, p3}
TwoProcs == {p1, p2}
=============================================================================
