--------------------------- MODULE ExclusivePool ---------------------------
(***************************************************************************)
(* What both pools of the service promise.  An item (a client address of   *)
(* AddressPool, a UDP port of RtpPortPool) belongs to at most one client   *)
(* at a time, is used only by the client it was given to, and goes back to *)
(* the pool only when nothing uses it any more.                            *)
(***************************************************************************)
CONSTANTS
    Clients,    \* who may hold an item
    Items,      \* what the pool hands out
    None        \* "no item"

VARIABLES
    held,       \* held[c]: the item given to c, or None
    inUse       \* the clients that may still touch their item

poolVars == <<held, inUse>>

PoolTypeOK ==
    /\ held \in [Clients -> Items \cup {None}]
    /\ inUse \subseteq Clients

Init ==
    /\ held = [c \in Clients |-> None]
    /\ inUse = {}

(* An item nobody holds is given to c, which may start using it at once.   *)
Acquire(c, i) ==
    /\ held[c] = None
    /\ \A d \in Clients : held[d] # i
    /\ held' = [held EXCEPT ![c] = i]
    /\ inUse' \in {inUse, inUse \cup {c}}

Use(c) ==
    /\ held[c] # None
    /\ inUse' = inUse \cup {c}
    /\ UNCHANGED held

(* The last use ends; the item may go back in the same step.               *)
Finish(c) ==
    /\ c \in inUse
    /\ inUse' = inUse \ {c}
    /\ held' \in {held, [held EXCEPT ![c] = None]}

Release(c) ==
    /\ c \notin inUse
    /\ held[c] # None
    /\ held' = [held EXCEPT ![c] = None]
    /\ UNCHANGED inUse

Next ==
    \E c \in Clients :
        \/ \E i \in Items : Acquire(c, i)
        \/ Use(c)
        \/ Finish(c)
        \/ Release(c)

Spec == Init /\ [][Next]_poolVars
----------------------------------------------------------------------------
(* Two clients never hold the same item.                                   *)
Exclusive ==
    \A c, d \in Clients : c # d /\ held[c] # None => held[c] # held[d]

(* Nothing is used by a client that does not hold it.                      *)
UsedIsHeld == \A c \in inUse : held[c] # None
=============================================================================
