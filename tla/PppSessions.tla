---------------------------- MODULE PppSessions ----------------------------
(***************************************************************************)
(* The PPP side of a call: PppSessionController and AddressPool            *)
(* (src/src/ppp.js), PppdSupervisor (src/src/pppd-supervisor.js) and the   *)
(* pppd processes they start.  PppHooks adds the ip-up and ip-down hooks.  *)
(*                                                                         *)
(* Node.js runs every event handler to completion together with the        *)
(* promise reactions it makes ready, so each handler is one action.        *)
(* Processes are used once each: a process of Procs is one spawn.          *)
(***************************************************************************)
EXTENDS Naturals

CONSTANTS
    Calls,      \* Call-IDs
    Procs,      \* pppd processes, each spawned at most once
    PoolSize,   \* client addresses of AddressPool
    ReopenPty,  \* TRUE: a modem may report pty-opened again in one call
    None

Addr == 1 .. PoolSize

ASSUME PoolAssumption == PoolSize \in Nat \ {0}
ASSUME ReopenAssumption == ReopenPty \in BOOLEAN
ASSUME NoneAssumption == None \notin Procs /\ None \notin Addr

VARIABLES
    \* PppSessionController
    sess,        \* sess[c]: state of sessions.get(c), "none" if absent
    lease,       \* lease[c]: session.lease
    exited,      \* exited[c]: the process whose exit session.exited awaits
    terminating, \* the Set of Call-IDs whose pppd has not exited yet
    closures,    \* <<c, p>>: terminate(c) releases c's lease when p exits
    \* AddressPool
    leases,      \* leases[c]: clientAddress leased to c
    \* PppdSupervisor
    current,     \* current[c]: the process of sessions.get(c)
    supState,    \* supState[c]: its state, "none" if there is no entry
    descriptor,  \* descriptor[c]: whose notifyToken the lease file holds
    \* operating system
    proc,        \* proc[p]: life of process p
    procCall,    \* procCall[p]: the Call-ID it was started for
    procAddr     \* procAddr[p]: the client address it was started with

ctl  == <<sess, lease, exited, terminating, closures>>
sup  == <<current, supState, descriptor>>
os   == <<proc, procCall, procAddr>>
vars == <<ctl, leases, sup, os>>

LinkStates == {"ipcp-open", "ipcp-closed"}
SupStates  == {"none", "starting", "failed"} \cup LinkStates
SessStates == {"none", "awaiting-auth", "auth-rejected", "authenticated",
               "pppd-starting", "starting", "failed", "closed"} \cup LinkStates
ProcStates == {"unborn", "alive", "term", "exited", "failed"}

TypeOK ==
    /\ sess \in [Calls -> SessStates]
    /\ lease \in [Calls -> Addr \cup {None}]
    /\ exited \in [Calls -> Procs \cup {None}]
    /\ terminating \subseteq Calls
    /\ closures \subseteq Calls \X Procs
    /\ leases \in [Calls -> Addr \cup {None}]
    /\ current \in [Calls -> Procs \cup {None}]
    /\ supState \in [Calls -> SupStates]
    /\ descriptor \in [Calls -> Procs \cup {None}]
    /\ proc \in [Procs -> ProcStates]
    /\ procCall \in [Procs -> Calls \cup {None}]
    /\ procAddr \in [Procs -> Addr \cup {None}]

Init ==
    /\ sess = [c \in Calls |-> "none"]
    /\ lease = [c \in Calls |-> None]
    /\ exited = [c \in Calls |-> None]
    /\ terminating = {}
    /\ closures = {}
    /\ leases = [c \in Calls |-> None]
    /\ current = [c \in Calls |-> None]
    /\ supState = [c \in Calls |-> "none"]
    /\ descriptor = [c \in Calls |-> None]
    /\ proc = [p \in Procs |-> "unborn"]
    /\ procCall = [p \in Procs |-> None]
    /\ procAddr = [p \in Procs |-> None]

Live(p) == proc[p] \in {"alive", "term"}
----------------------------------------------------------------------------
(* AddressPool.lease: the lease c already has, else the lowest free        *)
(* address.  An empty set is the exception of an exhausted pool.           *)
FreeWithServer == {a \in 0 .. PoolSize : \A d \in Calls : leases[d] # a}
FreeOfSessions == {a \in Addr : \A d \in Calls : sess[d] # "none" => leases[d] # a}

Free == {a \in Addr : \A d \in Calls : leases[d] # a}

Lowest(S) == {a \in S : \A b \in S : a <= b}

LeaseAnew(c) == Lowest(Free)

LeaseFor(c) == IF leases[c] # None THEN {leases[c]} ELSE Lowest(Free)

(* The promise session.exited is resolved: the process exited, or it never *)
(* existed because the spawn failed.                                       *)
ResolvedBySignal(p) == proc[p] # "alive"

Resolved(p) == proc[p] \in {"exited", "failed"}

(* PppdSupervisor.stop: SIGTERM to the process of the entry, if it lives.  *)
Unsignalled(c) == proc

Signalled(c) ==
    [p \in Procs |-> IF p = current[c] /\ proc[p] = "alive" THEN "term" ELSE proc[p]]

(* The identity test every handler of a child makes before acting on it.   *)
IsCurrent(p) == current[procCall[p]] = p
----------------------------------------------------------------------------
(* begin: refuses a Call-ID whose pppd has not exited.  Its caller, the    *)
(* first ACK of a call, never finds a session.                             *)
RefusedNever(c) == FALSE

Refused(c) == c \in terminating

Begin(c) ==
    /\ sess[c] = "none"
    /\ ~Refused(c)
    /\ sess' = [sess EXCEPT ![c] = "awaiting-auth"]
    /\ lease' = [lease EXCEPT ![c] = None]
    /\ exited' = [exited EXCEPT ![c] = None]
    /\ UNCHANGED <<terminating, closures, leases, sup, os>>

(* authenticate: a rejected login only marks the session; an accepted one  *)
(* marks it and leases an address, if the pool has one to give.            *)
Authenticate(c, valid) ==
    /\ sess[c] # "none"
    /\ sess' = [sess EXCEPT ![c] = IF valid THEN "authenticated" ELSE "auth-rejected"]
    /\ \/ /\ valid
          /\ \E a \in LeaseFor(c) :
                /\ leases' = [leases EXCEPT ![c] = a]
                /\ lease' = [lease EXCEPT ![c] = a]
       \/ /\ valid => LeaseFor(c) = {}
          /\ UNCHANGED <<leases, lease>>
    /\ UNCHANGED <<exited, terminating, closures, sup, os>>

(* A PTY event of the modem starts pppd: any time in a call, or only once  *)
(* per call for the modem programs the repository ships.                   *)
PtyMayOpen(c) == sess[c] # "none" /\ (ReopenPty \/ exited[c] = None)

(* The address of the new process: the session's, else one of the pool's.  *)
AddressFor(c) == IF lease[c] # None THEN {lease[c]} ELSE LeaseFor(c)

KeepLease(c, a) ==
    /\ lease' = [lease EXCEPT ![c] = a]
    /\ leases' = IF lease[c] # None THEN leases ELSE [leases EXCEPT ![c] = a]

(* startPppd and PppdSupervisor.start, up to the spawn: the old process is *)
(* signalled, the lease file gets a new token, and session.exited becomes  *)
(* the new process's.  spawned = FALSE is a spawn that fails: 'error'      *)
(* resolves exited and the entry stays, in state failed.                   *)
StartPppd(c, p, spawned) ==
    /\ PtyMayOpen(c)
    /\ proc[p] = "unborn"
    /\ \E a \in AddressFor(c) :
          /\ KeepLease(c, a)
          /\ procAddr' = [procAddr EXCEPT ![p] = a]
    /\ proc' = [Signalled(c) EXCEPT ![p] = IF spawned THEN "alive" ELSE "failed"]
    /\ procCall' = [procCall EXCEPT ![p] = c]
    /\ current' = [current EXCEPT ![c] = p]
    /\ supState' = [supState EXCEPT ![c] = IF spawned THEN "starting" ELSE "failed"]
    /\ sess' = [sess EXCEPT ![c] = IF spawned THEN "starting" ELSE "failed"]
    /\ descriptor' = [descriptor EXCEPT ![c] = p]
    /\ exited' = [exited EXCEPT ![c] = p]
    /\ UNCHANGED <<terminating, closures>>

(* start throws after its stop (mkdtemp, the lease file, chap-secrets or   *)
(* spawn itself): no entry is made, session.exited keeps the old promise,  *)
(* and the lease file may already hold a token no process will match.      *)
StartPppdThrows(c, wroteDescriptor) ==
    /\ PtyMayOpen(c)
    /\ \E a \in AddressFor(c) : KeepLease(c, a)
    /\ sess' = [sess EXCEPT ![c] = "pppd-starting"]
    /\ proc' = Signalled(c)
    /\ current' = [current EXCEPT ![c] = None]
    /\ supState' = [supState EXCEPT ![c] = "none"]
    /\ descriptor' = IF wroteDescriptor THEN [descriptor EXCEPT ![c] = None]
                     ELSE descriptor
    /\ UNCHANGED <<exited, terminating, closures, procCall, procAddr>>

(* stopPppd, on pty-closed: the entry goes, the session stays as it was.   *)
StopPppd(c) ==
    /\ current[c] # None
    /\ proc' = Signalled(c)
    /\ current' = [current EXCEPT ![c] = None]
    /\ supState' = [supState EXCEPT ![c] = "none"]
    /\ UNCHANGED <<ctl, leases, descriptor, procCall, procAddr>>

(* terminate: the process whose exit the release waits for, or None when   *)
(* there is nothing to wait for and the address is free at once.           *)
AwaitsSupervised(c) == current[c]

Awaits(c) == IF exited[c] # None /\ ~Resolved(exited[c]) THEN exited[c] ELSE None

Terminate(c) ==
    /\ sess[c] # "none"
    /\ proc' = Signalled(c)
    /\ current' = [current EXCEPT ![c] = None]
    /\ supState' = [supState EXCEPT ![c] = "none"]
    /\ IF Awaits(c) # None
       THEN /\ closures' = closures \cup {<<c, Awaits(c)>>}
            /\ terminating' = terminating \cup {c}
            /\ UNCHANGED leases
       ELSE /\ leases' = [leases EXCEPT ![c] = None]
            /\ UNCHANGED <<closures, terminating>>
    /\ sess' = [sess EXCEPT ![c] = "none"]
    /\ lease' = [lease EXCEPT ![c] = None]
    /\ exited' = [exited EXCEPT ![c] = None]
    /\ UNCHANGED <<descriptor, procCall, procAddr>>
----------------------------------------------------------------------------
(* acceptEvent and acceptPppdEvent: both states of the call follow.        *)
AcceptEvent(c, state) ==
    /\ supState' = [supState EXCEPT ![c] = state]
    /\ sess' = [sess EXCEPT ![c] = state]

(* A JSON notification on the stdout of a process; an outdated process is  *)
(* not listened to.                                                        *)
PppdNotifies(p, state) ==
    /\ Live(p)
    /\ IsCurrent(p)
    /\ AcceptEvent(procCall[p], state)
    /\ UNCHANGED <<lease, exited, terminating, closures, leases, current,
                   descriptor, os>>

(* The 'exit' handler: the promise resolves, so every terminate waiting    *)
(* for p releases its address; the entry goes if it is still p's.          *)
ReleasedByCallId(p) == {procCall[p]}
ReleasedByAnyExit(p) == {c \in Calls : \E q \in Procs : <<c, q>> \in closures}

ReleasedBy(p) == {c \in Calls : <<c, p>> \in closures}

PppdExits(p) ==
    /\ Live(p)
    /\ proc' = [proc EXCEPT ![p] = "exited"]
    /\ leases' = [c \in Calls |-> IF c \in ReleasedBy(p) THEN None ELSE leases[c]]
    /\ terminating' = terminating \ ReleasedBy(p)
    /\ closures' = {t \in closures : t[2] # p}
    /\ IF IsCurrent(p)
       THEN /\ current' = [current EXCEPT ![procCall[p]] = None]
            /\ supState' = [supState EXCEPT ![procCall[p]] = "none"]
            /\ sess' = [sess EXCEPT ![procCall[p]] = "closed"]
       ELSE UNCHANGED <<current, supState, sess>>
    /\ UNCHANGED <<lease, exited, descriptor, procCall, procAddr>>

(* acceptHookEvent: an ip-up or ip-down hook of p reports with the token   *)
(* that was written for process t.  The token must be the current entry's  *)
(* and the addresses those of its lease.                                   *)
AddressAccepted(p, t) ==
    LET c == procCall[p]
    IN  current[c] # None /\ procAddr[p] = procAddr[current[c]]

TokenAccepted(p, t) ==
    LET c == procCall[p]
    IN  /\ current[c] # None
        /\ current[c] = t
        /\ procAddr[p] = procAddr[current[c]]

HookEvent(p, t, state) ==
    /\ proc[p] \notin {"unborn", "failed"}
    /\ TokenAccepted(p, t)
    /\ AcceptEvent(procCall[p], state)
    /\ UNCHANGED <<lease, exited, terminating, closures, leases, current,
                   descriptor, os>>
----------------------------------------------------------------------------
CallNext(c) ==
    \/ Begin(c)
    \/ \E valid \in BOOLEAN : Authenticate(c, valid)
    \/ \E p \in Procs, spawned \in BOOLEAN : StartPppd(c, p, spawned)
    \/ \E wrote \in BOOLEAN : StartPppdThrows(c, wrote)
    \/ StopPppd(c)
    \/ Terminate(c)

ProcNext(p) ==
    \/ \E state \in LinkStates : PppdNotifies(p, state)
    \/ PppdExits(p)

Core ==
    \/ \E c \in Calls : CallNext(c)
    \/ \E p \in Procs : ProcNext(p)

Next ==
    \/ Core
    \/ \E p, t \in Procs, state \in LinkStates : HookEvent(p, t, state)

Spec == Init /\ [][Next]_vars

(* pppd obeys SIGTERM: a signalled process exits sooner or later.          *)
Fairness == \A p \in Procs : WF_vars(proc[p] = "term" /\ PppdExits(p))

FairSpec == Spec /\ Fairness
----------------------------------------------------------------------------
(* The controller still knows of p: session.exited or a terminate waits    *)
(* for it.  A process whose promise was overwritten (ppp.js:409) is not.   *)
Accountable(p) ==
    \/ exited[procCall[p]] = p
    \/ <<procCall[p], p>> \in closures

(* Two calls are never leased the same client address, whatever exits,     *)
(* failed starts and hang-ups happened before (AddressPool.lease).         *)
LeaseExclusive ==
    \A c, d \in Calls : c # d /\ leases[c] # None => leases[c] # leases[d]

(* terminating and the pending releases agree: a Call-ID is refused exactly *)
(* while one release is scheduled for it, that release is for a process     *)
(* that still lives, the call has no session, and its address is still out. *)
ReleaseScheduled ==
    /\ \A t \in closures :
          /\ t[1] \in terminating
          /\ Live(t[2])
          /\ procCall[t[2]] = t[1]
    /\ \A c \in terminating :
          /\ sess[c] = "none"
          /\ leases[c] # None
          /\ \E p \in Procs : closures \cap ({c} \X Procs) = {<<c, p>>}

(* The address of every pppd the controller still knows of stays leased to *)
(* its call until that pppd has exited (terminate, ppp.js:367-386).        *)
AccountableKeepsAddress ==
    \A p \in Procs : Live(p) /\ Accountable(p) => leases[procCall[p]] = procAddr[p]

(* A pppd the supervisor no longer lists has been sent SIGTERM: replacing, *)
(* stopping and failing to start never leave one running unsupervised.     *)
UnsupervisedIsSignalled ==
    \A p \in Procs : proc[p] = "alive" => IsCurrent(p)

(* Leases are kept as long as the controller has a use for them: no two    *)
(* calls have the same address, and the pppds it knows of keep theirs.     *)
LeasesAreKept == LeaseExclusive /\ AccountableKeepsAddress

(* What has to end is on its way: refused Call-IDs have one release ahead, *)
(* and processes without a supervisor have been sent SIGTERM.              *)
EndsAreScheduled == ReleaseScheduled /\ UnsupervisedIsSignalled

(* While a pppd lives its client address is leased to its call, so SIGTERM *)
(* alone frees nothing.  Holds when a modem opens one PTY per call; see    *)
(* the violation run for a modem that opens another.                       *)
AddressHeldUntilExit ==
    \A p \in Procs : Live(p) => leases[procCall[p]] = procAddr[p]

(* Two live pppds of different calls never have the same client address.   *)
UniqueLiveAddress ==
    \A p, q \in Procs :
        Live(p) /\ Live(q) /\ procCall[p] # procCall[q] => procAddr[p] # procAddr[q]

(* An exit frees an address only for the call the process was started for, *)
(* and only after that call ended: never the lease of a later call that    *)
(* reuses the Call-ID.                                                     *)
ExitReleasesOnlyEndedCall ==
    [][\A p \in Procs : PppdExits(p) =>
          \A c \in Calls : leases'[c] # leases[c] =>
              procCall[p] = c /\ procAddr[p] = leases[c] /\ sess[c] = "none"]_vars

(* The address of a call that hung up is free again sooner or later, and   *)
(* the Call-ID usable.                                                     *)
HungUpIsReleased ==
    \A c \in Calls : c \in terminating ~> c \notin terminating

(* The pool of addresses, used by the live pppds the controller knows of,  *)
(* behaves as an ExclusivePool.                                            *)
PppdUsers == {c \in Calls : \E p \in Procs : Live(p) /\ procCall[p] = c /\ Accountable(p)}

Pool == INSTANCE ExclusivePool WITH
            Clients <- Calls, Items <- Addr, held <- leases, inUse <- PppdUsers

PoolSpec == Pool!Spec
=============================================================================
