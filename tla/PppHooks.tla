------------------------------ MODULE PppHooks ------------------------------
(***************************************************************************)
(* PppSessions together with the ip-up and ip-down hooks pppd runs         *)
(* (src/deploy/ppp/ip-up, ip-down, src/bin/sipfax-egress-apply), as far as *)
(* they report to the supervisor: which lease file they read when, and     *)
(* which of their events the supervisor takes.                             *)
(***************************************************************************)
EXTENDS PppSessions

VARIABLES
    hook,       \* hook[p]: progress of p's ip-up and ip-down hooks
    hookToken   \* hookToken[p]: whose token p's running hook has read

hooks == <<hook, hookToken>>
allVars == <<vars, hooks>>

HookStates == {"none", "up-wait", "up-run", "installed",
               "down-wait", "down-run", "gone"}

HooksTypeOK ==
    /\ TypeOK
    /\ hook \in [Procs -> HookStates]
    /\ hookToken \in [Procs -> Procs \cup {None}]

HooksInit ==
    /\ Init
    /\ hook = [p \in Procs |-> "none"]
    /\ hookToken = [p \in Procs |-> None]
----------------------------------------------------------------------------
(* pppd starts ip-up when IPCP opens and ip-down when it closes, one after *)
(* the other.  The hooks of all calls run one at a time under one lock.    *)
LinkUp(p) ==
    /\ Live(p)
    /\ hook[p] = "none"
    /\ hook' = [hook EXCEPT ![p] = "up-wait"]
    /\ UNCHANGED <<vars, hookToken>>

LinkDown(p) ==
    /\ Live(p)
    /\ hook[p] = "installed"
    /\ hook' = [hook EXCEPT ![p] = "down-wait"]
    /\ UNCHANGED <<vars, hookToken>>

LockFree == \A q \in Procs : hook[q] \notin {"up-run", "down-run"}

(* The active-lease marker of the Call-ID belongs to another process.      *)
OtherActive(p) ==
    \E q \in Procs \ {p} : /\ procCall[q] = procCall[p]
                           /\ hook[q] \in {"installed", "down-wait"}

(* The hook takes the lock and reads the lease file of its Call-ID; ip-up  *)
(* gives up for good when another lease of the Call-ID is active.          *)
HookReads(p) ==
    /\ LockFree
    /\ \/ /\ hook[p] = "up-wait"
          /\ hook' = [hook EXCEPT ![p] = IF OtherActive(p) THEN "gone" ELSE "up-run"]
       \/ /\ hook[p] = "down-wait"
          /\ hook' = [hook EXCEPT ![p] = "down-run"]
    /\ hookToken' = [hookToken EXCEPT ![p] =
                        IF hook'[p] = "gone" THEN None ELSE descriptor[procCall[p]]]
    /\ UNCHANGED vars

(* postOperatorEvent: the event reaches the supervisor, which may refuse   *)
(* it, or it is lost; the hook ends either way.                            *)
HookPosts(p, delivered) ==
    /\ hook[p] \in {"up-run", "down-run"}
    /\ IF delivered /\ TokenAccepted(p, hookToken[p])
       THEN HookEvent(p, hookToken[p],
                      IF hook[p] = "up-run" THEN "ipcp-open" ELSE "ipcp-closed")
       ELSE UNCHANGED vars
    /\ hook' = [hook EXCEPT ![p] = IF hook[p] = "up-run" THEN "installed" ELSE "gone"]
    /\ hookToken' = [hookToken EXCEPT ![p] = None]

HooksNext ==
    \/ Core /\ UNCHANGED hooks
    \/ \E p \in Procs :
          \/ LinkUp(p)
          \/ LinkDown(p)
          \/ HookReads(p)
          \/ \E delivered \in BOOLEAN : HookPosts(p, delivered)

HooksSpec == HooksInit /\ [][HooksNext]_allVars

(* As in PppSessions: a process that was sent SIGTERM exits.               *)
HooksFairSpec ==
    /\ HooksSpec
    /\ \A p \in Procs : WF_allVars(proc[p] = "term" /\ PppdExits(p) /\ UNCHANGED hooks)
----------------------------------------------------------------------------
(* A hook that read its own process's token before that process was        *)
(* replaced, stopped or hung up changes no state any more: the token of a  *)
(* new pppd is new (acceptHookEvent), and no process that once lost its    *)
(* place is ever the current one again.                                    *)
RetiredTokenPowerless ==
    [][/\ \A p \in Procs, delivered \in BOOLEAN :
             HookPosts(p, delivered) /\ hookToken[p] = p /\ ~IsCurrent(p)
                 => UNCHANGED <<sess, supState>>
       /\ \A p \in Procs :
             proc[p] # "unborn" /\ ~IsCurrent(p) => ~IsCurrent(p)']_allVars

(* A hook event changes the state of a call only if the pppd that ran the  *)
(* hook is the call's current one.                                         *)
HookUpdatesOwnPppd ==
    [][\A p \in Procs, delivered \in BOOLEAN :
          HookPosts(p, delivered) /\ ~IsCurrent(p)
              => UNCHANGED <<sess, supState>>]_allVars
=============================================================================
