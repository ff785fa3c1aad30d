------------------------------- MODULE Sipfax -------------------------------
(***************************************************************************)
(* The service as src/src/index.js wires it: CallManager and PppSessions   *)
(* with the calls that join them.  MultiSessionManager calls               *)
(* PppSessionController from within its own handlers, so a joint action is *)
(* the conjunction of one action of each; pppd and the socket move alone.  *)
(***************************************************************************)
EXTENDS Naturals, FiniteSets

CONSTANTS
    Calls, Lines, Procs,
    Ports,      \* number of RTP ports
    Addresses,  \* number of client addresses
    MaxLimit,   \* bound on the cap the administrator sets
    ReopenPty,  \* TRUE: a modem may report pty-opened again in one call
    None

ASSUME PoolsAssumption ==
    Ports \in Nat \ {0} /\ Addresses \in Nat \ {0} /\ MaxLimit \in Nat \ {0}
ASSUME ReopenAssumption == ReopenPty \in BOOLEAN
ASSUME NoneAssumption ==
    None \notin Calls \cup Lines \cup Procs \cup 1 .. Ports \cup 1 .. Addresses

VARIABLES
    maxSessions, entry, used, call, port, state, socket, modem,
    waiting, replies, accepted

callVars == <<maxSessions, entry, used, call, port, state, socket, modem,
              waiting, replies, accepted>>

VARIABLES
    sess, lease, exited, terminating, closures, leases,
    current, supState, descriptor, proc, procCall, procAddr

pppVars == <<sess, lease, exited, terminating, closures, leases,
             current, supState, descriptor, proc, procCall, procAddr>>

vars == <<callVars, pppVars>>

CM  == INSTANCE CallManager WITH PoolSize <- Ports
PPP == INSTANCE PppSessions WITH PoolSize <- Addresses

TypeOK == CM!TypeOK /\ PPP!TypeOK

Init == CM!Init /\ PPP!Init
----------------------------------------------------------------------------
(* acknowledge: begin, then established.  When begin throws because an     *)
(* earlier pppd of the Call-ID still runs, the call stays ringing.         *)
Ack(c) == CM!Ack(c) /\ PPP!Begin(c)

(* The PPP half of MultiSessionManager.terminate.                          *)
EndPppIfPppdRuns(c) == IF current[c] = None THEN UNCHANGED pppVars ELSE PPP!Terminate(c)
EndPppNever(c) == UNCHANGED pppVars

EndPpp(c) == IF sess[c] = "none" THEN UNCHANGED pppVars ELSE PPP!Terminate(c)

Bye(c) == CM!Bye(c) /\ EndPpp(c)

ModemExitsAlone(l) == CM!ModemExits(l) /\ UNCHANGED pppVars

ModemExits(l) ==
    /\ CM!ModemExits(l)
    /\ IF CM!Owns(l) THEN EndPpp(call[l]) ELSE UNCHANGED pppVars

BindFails(l) == CM!BindFails(l) /\ EndPpp(call[l])

(* Control events of the modem of a current Line: openPty and closePty.    *)
Heard(l) == modem[l] = "running" /\ CM!Owns(l)

PtyOpened(l) ==
    /\ Heard(l)
    /\ \/ \E p \in Procs, spawned \in BOOLEAN : PPP!StartPppd(call[l], p, spawned)
       \/ \E wrote \in BOOLEAN : PPP!StartPppdThrows(call[l], wrote)
    /\ UNCHANGED callVars

PtyClosed(l) ==
    /\ Heard(l)
    /\ PPP!StopPppd(call[l])
    /\ UNCHANGED callVars

Authenticate(c) ==
    /\ entry[c] # None
    /\ \E valid \in BOOLEAN : PPP!Authenticate(c, valid)
    /\ UNCHANGED callVars
----------------------------------------------------------------------------
(* Steps of one side only.                                                 *)
CallSide ==
    /\ \/ \E c \in Calls :
             \/ \E l \in Lines, spawned \in BOOLEAN : CM!Invite(c, l, spawned)
             \/ CM!BuildFails(c)
             \/ CM!InviteAgain(c)
       \/ \E l \in Lines : CM!Listening(l) \/ CM!SocketClosed(l) \/ CM!CloseFails(l)
       \/ \E n \in 1 .. MaxLimit : CM!SetMaxSessions(n)
    /\ UNCHANGED pppVars

PppdSide ==
    /\ \E p \in Procs :
          \/ PPP!ProcNext(p)
          \/ \E t \in Procs, s \in PPP!LinkStates : PPP!HookEvent(p, t, s)
    /\ UNCHANGED callVars

Next ==
    \/ \E c \in Calls : Ack(c) \/ Bye(c) \/ Authenticate(c)
    \/ \E l \in Lines : ModemExits(l) \/ BindFails(l) \/ PtyOpened(l) \/ PtyClosed(l)
    \/ CallSide
    \/ PppdSide

Spec == Init /\ [][Next]_vars

PppdExits(p) == PPP!PppdExits(p) /\ UNCHANGED callVars

(* A pppd that got SIGTERM exits.                                          *)
FairSpec == Spec /\ \A p \in Procs : WF_vars(proc[p] = "term" /\ PppdExits(p))
----------------------------------------------------------------------------
(* A PPP session exists exactly for the established calls: begin never     *)
(* meets an old session, and no call outlives or loses its session.        *)
SessionsMatch ==
    \A c \in Calls :
        sess[c] # "none" <=> entry[c] # None /\ state[entry[c]] = "established"

(* A pppd that was not told to stop belongs to an active call whose modem  *)
(* runs: hang-up, modem exit, failed bind and PTY closure leave none.      *)
AlivePppdHasCall ==
    \A p \in Procs : proc[p] = "alive" =>
        /\ entry[procCall[p]] # None
        /\ modem[entry[procCall[p]]] = "running"

(* An address is leased only to an active call, or to one whose pppd has   *)
(* not exited.                                                             *)
LeaseHasReason ==
    \A c \in Calls : leases[c] # None => entry[c] # None \/ c \in terminating

(* With modems that open one PTY per call, the address of a pppd stays     *)
(* leased to its call until it exits, whatever ended the call.             *)
AddressHeldUntilExit == PPP!AddressHeldUntilExit

(* Then two pppds of different calls never have the same address.          *)
UniqueLiveAddress == PPP!UniqueLiveAddress

(* The two sides agree on which calls have a session, a pppd and an        *)
(* address, and nothing of a call outlives it; all variables have their    *)
(* types.                                                                  *)
SidesAgree == TypeOK /\ SessionsMatch /\ AlivePppdHasCall /\ LeaseHasReason

(* The address of a living pppd is its own.                                *)
AddressesAreOwn == AddressHeldUntilExit /\ UniqueLiveAddress

(* The address of a call that ended is free again, or the Call-ID is in    *)
(* use again, sooner or later.                                             *)
HangupFreesAddress ==
    \A c \in Calls : entry[c] = None /\ leases[c] # None ~> leases[c] = None
=============================================================================
