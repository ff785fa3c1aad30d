--------------------------- MODULE MCPppSessions ---------------------------
(* Small instances of PppSessions.                                         *)
EXTENDS PppSessions, TLC

CONSTANTS c1, c2, p1, p2, p3

MCCalls == {c1, c2}
MCProcs == {p1, p2, p3}

(* Calls and processes are interchangeable: no definition orders them.     *)
Symmetry == Permutations(MCCalls) \cup Permutations(MCProcs)
=============================================================================
