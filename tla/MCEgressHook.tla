---------------------------- MODULE MCEgressHook ----------------------------
(* Small instances of EgressHook: two links of one Call-ID, one of another, *)
(* with different outbound interfaces.                                     *)
EXTENDS EgressHook

CONSTANTS c1, c2, k1, k2, k3, eth0, eth1

MCCalls  == {c1, c2}
MCLinks  == {k1, k2, k3}
MCCallOf == [l \in MCLinks |-> IF l = k3 THEN c2 ELSE c1]
MCIfs    == {eth0, eth1}
MCOutIf  == [c \in MCCalls |-> IF c = c1 THEN eth0 ELSE eth1]

(* One failing command per hook, or two and hooks that are killed.         *)
MCFaults    == {[failures |-> 1, die |-> FALSE], [failures |-> 2, die |-> TRUE]}
TwoFailures == {[failures |-> 2, die |-> FALSE]}
=============================================================================
