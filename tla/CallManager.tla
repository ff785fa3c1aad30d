---------------------------- MODULE CallManager ----------------------------
(***************************************************************************)
(* The telephone side of a call: SipFaxServer (src/src/server.js),         *)
(* MultiSessionManager (src/src/session.js), Line (src/src/line.js), and   *)
(* the RtpPortPool, RTP socket and modem process of each Line              *)
(* (src/src/media.js).  PPP is in PppSessions; Sipfax puts both together.  *)
(*                                                                         *)
(* A handler and the promise reactions it makes ready are one action.      *)
(* Every Line is one member of Lines, used once.                           *)
(***************************************************************************)
EXTENDS Naturals, FiniteSets

CONSTANTS
    Calls,      \* Call-IDs
    Lines,      \* Line objects, each constructed at most once
    PoolSize,   \* even UDP ports of RtpPortPool, numbered 1 .. PoolSize
    MaxLimit,   \* bound on the cap the administrator sets
    None

Port == 1 .. PoolSize

ASSUME PoolAssumption == PoolSize \in Nat \ {0}
ASSUME LimitAssumption == MaxLimit \in Nat \ {0}
ASSUME NoneAssumption == None \notin Calls \cup Lines \cup Port

VARIABLES
    maxSessions, \* the cap on concurrent calls
    entry,       \* entry[c]: the Line of sessions.get(c)
    used,        \* RtpPortPool.used
    call,        \* call[l]: the Call-ID Line l was made for
    port,        \* port[l]: its rtpPort
    state,       \* state[l]: CallSession.state of its call
    socket,      \* socket[l]: its UDP socket
    modem,       \* modem[l]: its modem process
    waiting,     \* waiting[l]: INVITE handlers that await its readiness
    replies,     \* <<l, code>>: final responses sent for it
    accepted     \* metrics.invitesAccepted

calls == <<maxSessions, entry, used>>
lines == <<call, port, state, socket, modem>>
sip   == <<waiting, replies, accepted>>
vars  == <<calls, lines, sip>>

States       == {"none", "ringing", "established", "terminated"}
SocketStates == {"none", "binding", "bound", "closing", "closed", "stuck"}
ModemStates  == {"none", "running", "broken", "stopped", "exited"}
Handlers     == {"first", "again"}

TypeOK ==
    /\ maxSessions \in 1 .. MaxLimit
    /\ entry \in [Calls -> Lines \cup {None}]
    /\ used \subseteq Port
    /\ call \in [Lines -> Calls \cup {None}]
    /\ port \in [Lines -> Port \cup {None}]
    /\ state \in [Lines -> States]
    /\ socket \in [Lines -> SocketStates]
    /\ modem \in [Lines -> ModemStates]
    /\ waiting \in [Lines -> SUBSET Handlers]
    /\ replies \subseteq Lines \X {200, 503}
    /\ accepted \in Nat

Init ==
    /\ maxSessions \in 1 .. MaxLimit
    /\ entry = [c \in Calls |-> None]
    /\ used = {}
    /\ call = [l \in Lines |-> None]
    /\ port = [l \in Lines |-> None]
    /\ state = [l \in Lines |-> "none"]
    /\ socket = [l \in Lines |-> "none"]
    /\ modem = [l \in Lines |-> "none"]
    /\ waiting = [l \in Lines |-> {}]
    /\ replies = {}
    /\ accepted = 0

Active == {c \in Calls : entry[c] # None}

(* ownsCall: l is the Line of the call it was made for.                    *)
Owns(l) == call[l] # None /\ entry[call[l]] = l
----------------------------------------------------------------------------
(* RtpPortPool.allocate: the lowest even port not in use, if there is one. *)
FreePortsBelow == (0 .. PoolSize) \ used
FreePortsOfCalls == Port \ {port[entry[c]] : c \in Active}

FreePorts == Port \ used

Offered == {n \in FreePorts : \A m \in FreePorts : n <= m}

(* A new call is admitted below the cap; without a port to give it, or     *)
(* with no codec in common, it is refused (486, 488) and nothing changes.  *)
AdmitsAtCap(c) ==
    /\ entry[c] = None
    /\ Cardinality(Active) <= maxSessions

Admits(c) ==
    /\ entry[c] = None
    /\ Cardinality(Active) < maxSessions

(* startFromInvite and handleInvite up to the await: the Line is built,    *)
(* its modem spawned (or not: that is only an error event) and its socket  *)
(* starts to bind.                                                         *)
Invite(c, l, spawned) ==
    /\ Admits(c)
    /\ socket[l] = "none"
    /\ \E n \in Offered :
          /\ used' = used \cup {n}
          /\ port' = [port EXCEPT ![l] = n]
    /\ call' = [call EXCEPT ![l] = c]
    /\ entry' = [entry EXCEPT ![c] = l]
    /\ state' = [state EXCEPT ![l] = "ringing"]
    /\ socket' = [socket EXCEPT ![l] = "binding"]
    /\ modem' = [modem EXCEPT ![l] = IF spawned THEN "running" ELSE "broken"]
    /\ waiting' = [waiting EXCEPT ![l] = {"first"}]
    /\ UNCHANGED <<maxSessions, replies, accepted>>

(* The modem factory or the Line constructor throws: the port goes back,   *)
(* 500 is sent.                                                            *)
UsedForever(n) == used \cup {n}

UsedAfterFailure(n) == (used \cup {n}) \ {n}

BuildFails(c) ==
    /\ Admits(c)
    /\ \E n \in Offered : used' = UsedAfterFailure(n)
    /\ UNCHANGED <<maxSessions, entry, lines, sip>>

(* A repeated INVITE of an active call awaits the same readiness: it is    *)
(* answered 200 at once when the socket is bound.                          *)
ReadyAtOnce(l) == TRUE
ReadyNever(l) == FALSE

ReadyNow(l) == socket[l] = "bound"

InviteAgain(c) ==
    /\ entry[c] # None
    /\ LET l == entry[c]
       IN  \/ /\ ReadyNow(l)
              /\ replies' = replies \cup {<<l, 200>>}
              /\ UNCHANGED waiting
           \/ /\ ~ReadyNow(l)
              /\ waiting' = [waiting EXCEPT ![l] = @ \cup {"again"}]
              /\ UNCHANGED replies
    /\ UNCHANGED <<calls, lines, accepted>>

(* acknowledge, when ppp.begin does not throw; an ACK may come before the  *)
(* socket is bound.                                                        *)
Ack(c) ==
    /\ entry[c] # None
    /\ state[entry[c]] = "ringing"
    /\ state' = [state EXCEPT ![entry[c]] = "established"]
    /\ UNCHANGED <<calls, call, port, socket, modem, sip>>

SetMaxSessions(n) ==
    /\ maxSessions' = n
    /\ UNCHANGED <<entry, used, lines, sip>>
----------------------------------------------------------------------------
(* terminate: the Line's modem is stopped and its socket closed, the call  *)
(* forgotten; the port stays in use until the socket is closed.            *)
ModemLeftRunning(l) == modem[l]

StoppedModem(l) == IF modem[l] = "running" THEN "stopped" ELSE modem[l]

HangupKeepsSocket(l) ==
    /\ entry' = [entry EXCEPT ![call[l]] = None]
    /\ state' = [state EXCEPT ![l] = "terminated"]
    /\ UNCHANGED <<maxSessions, used, call, port, socket>>

Hangup(l) ==
    /\ entry' = [entry EXCEPT ![call[l]] = None]
    /\ state' = [state EXCEPT ![l] = "terminated"]
    /\ socket' = [socket EXCEPT ![l] = "closing"]
    /\ UNCHANGED <<maxSessions, used, call, port>>

(* A socket closed while it binds reports neither success nor failure:     *)
(* the handlers that await it never answer.                                *)
Bye(c) ==
    /\ entry[c] # None
    /\ Hangup(entry[c])
    /\ modem' = [modem EXCEPT ![entry[c]] = StoppedModem(entry[c])]
    /\ UNCHANGED sip

(* 'exit' of a modem process that the backend has not been told to stop.   *)
ModemExits(l) ==
    /\ modem[l] = "running"
    /\ modem' = [modem EXCEPT ![l] = "exited"]
    /\ IF Owns(l) THEN Hangup(l)
       ELSE UNCHANGED <<calls, call, port, state, socket>>
    /\ UNCHANGED sip

(* Readiness of l is settled: the first INVITE counts, every waiting       *)
(* handler answers.                                                        *)
SettleAccepted(l, code) ==
    /\ waiting' = [waiting EXCEPT ![l] = {}]
    /\ replies' = replies \cup {<<l, 200>>}
    /\ accepted' = IF "first" \in waiting[l] THEN accepted + 1 ELSE accepted

Settle(l, code) ==
    /\ waiting' = [waiting EXCEPT ![l] = {}]
    /\ replies' = replies \cup {<<l, code>>}
    /\ accepted' = IF code = 200 /\ "first" \in waiting[l]
                   THEN accepted + 1 ELSE accepted

Listening(l) ==
    /\ socket[l] = "binding"
    /\ socket' = [socket EXCEPT ![l] = "bound"]
    /\ Settle(l, 200)
    /\ UNCHANGED <<calls, call, port, state, modem>>

(* The port is taken by another program, or the host does not resolve.     *)
BindFails(l) ==
    /\ socket[l] = "binding"
    /\ Hangup(l)
    /\ modem' = [modem EXCEPT ![l] = StoppedModem(l)]
    /\ Settle(l, 503)

(* The closure of terminate: the port returns once the socket is closed,   *)
(* and never if closing fails.                                             *)
SocketClosed(l) ==
    /\ socket[l] = "closing"
    /\ socket' = [socket EXCEPT ![l] = "closed"]
    /\ used' = used \ {port[l]}
    /\ UNCHANGED <<maxSessions, entry, call, port, state, modem, sip>>

CloseFails(l) ==
    /\ socket[l] = "closing"
    /\ socket' = [socket EXCEPT ![l] = "stuck"]
    /\ UNCHANGED <<calls, call, port, state, modem, sip>>
----------------------------------------------------------------------------
CallNext(c) ==
    \/ \E l \in Lines, spawned \in BOOLEAN : Invite(c, l, spawned)
    \/ BuildFails(c)
    \/ InviteAgain(c)
    \/ Ack(c)
    \/ Bye(c)

LineNext(l) ==
    \/ ModemExits(l)
    \/ Listening(l)
    \/ BindFails(l)
    \/ SocketClosed(l)
    \/ CloseFails(l)

Next ==
    \/ \E c \in Calls : CallNext(c)
    \/ \E l \in Lines : LineNext(l)
    \/ \E n \in 1 .. MaxLimit : SetMaxSessions(n)

Spec == Init /\ [][Next]_vars

(* The operating system finishes what it was asked: a bind and a close.    *)
Fairness ==
    \A l \in Lines : /\ WF_vars(Listening(l) \/ BindFails(l))
                     /\ WF_vars(SocketClosed(l) \/ CloseFails(l))

FairSpec == Spec /\ Fairness
----------------------------------------------------------------------------
(* A socket that may still own its port.                                   *)
Open(l) == socket[l] \in {"binding", "bound", "closing", "stuck"}

(* The pool's books are right: the ports in use are those of the sockets   *)
(* not yet closed, through failed constructions, failed binds, hang-ups    *)
(* and failed closures.                                                    *)
PortsAccounted == used = {port[l] : l \in {k \in Lines : Open(k)}}

(* No two Lines whose sockets may be open have the same port, so a call is *)
(* never refused because of a port of another call.                        *)
OpenPortsDisjoint ==
    \A k, l \in Lines : k # l /\ Open(k) /\ Open(l) => port[k] # port[l]

(* The pool is right: its books are, and no port is given out twice.       *)
PortsAreRight == PortsAccounted /\ OpenPortsDisjoint

(* The Lines of the table are exactly those not terminated, each under its *)
(* own Call-ID, and they alone have a binding or bound socket or a running *)
(* modem: nothing of a call outlives it unnoticed.                         *)
NoOrphanLine ==
    \A l \in Lines :
        /\ Owns(l) <=> state[l] \in {"ringing", "established"}
        /\ Owns(l) <=> socket[l] \in {"binding", "bound"}
        /\ modem[l] = "running" => Owns(l)

(* All INVITEs of a call get the same final answer, and the call is        *)
(* counted as accepted once, when it is accepted (server.js:90-95).        *)
AnswersAgree ==
    /\ \A l \in Lines : ~ {<<l, 200>>, <<l, 503>>} \subseteq replies
    /\ accepted = Cardinality({l \in Lines : <<l, 200>> \in replies})

(* 200 OK is sent only for the current Line of an active call, with its    *)
(* socket bound: the caller may send RTP at once.                          *)
AcceptedWhenReady ==
    [][\A l \in Lines : <<l, 200>> \in replies' \ replies =>
          Owns(l) /\ socket'[l] = "bound"]_vars

(* An INVITE that created a call is answered, unless its call ended while  *)
(* the socket was binding.                                                 *)
AnsweredUnlessEnded ==
    \A l \in Lines : waiting[l] # {} ~> waiting[l] = {} \/ state[l] = "terminated"

(* After the end of its call a Line's port returns to the pool, unless     *)
(* closing the socket failed.                                              *)
PortReturns ==
    \A l \in Lines : state[l] = "terminated" ~> socket[l] \in {"closed", "stuck"}

(* The pool of ports, used by the Lines whose sockets may be open, behaves *)
(* as an ExclusivePool.                                                    *)
Pool == INSTANCE ExclusivePool WITH
            Clients <- Lines, Items <- Port,
            held <- [l \in Lines |-> IF Open(l) THEN port[l] ELSE None],
            inUse <- {l \in Lines : Open(l)}

PoolSpec == Pool!Spec
=============================================================================
