---------------------------- MODULE SipfaxProofs ----------------------------
(***************************************************************************)
(* Proofs about Sipfax, for any number of calls, Lines, ports, processes   *)
(* and addresses: the composed service implements both of its halves, so   *)
(* that what CallManagerProofs and PppSessionsProofs show holds in it, and *)
(* the halves agree on which calls have a PPP session.                     *)
(***************************************************************************)
EXTENDS Sipfax, TLAPS

(* The proofs of the halves, about the service's variables.  The service   *)
(* is composed without the ip-up and ip-down hooks: none ever runs.        *)
X == INSTANCE CallManagerProofs WITH PoolSize <- Ports
Y == INSTANCE PppSessionsProofs WITH
        PoolSize <- Addresses,
        hook <- [p \in Procs |-> "none"], hookToken <- [p \in Procs |-> None]

(* The constants of both sides are as they assume.                         *)
LEMMA CallAssumptions == X!PoolAssumption /\ X!LimitAssumption /\ X!NoneAssumption
BY PoolsAssumption, NoneAssumption
   DEF X!PoolAssumption, X!LimitAssumption, X!NoneAssumption, X!Port

(* The same for the PPP side.                                              *)
LEMMA PppAssumptions == Y!PoolAssumption /\ Y!ReopenAssumption /\ Y!NoneAssumption
BY PoolsAssumption, ReopenAssumption, NoneAssumption
   DEF Y!PoolAssumption, Y!ReopenAssumption, Y!NoneAssumption, Y!Addr
----------------------------------------------------------------------------
(* Every step of the service is one of the call manager or leaves it alone. *)
LEMMA CallSteps == [Next]_vars => [CM!Next]_(CM!vars)
<1> SUFFICES ASSUME [Next]_vars PROVE [CM!Next]_(CM!vars)
  OBVIOUS
<1>1. ASSUME UNCHANGED callVars PROVE UNCHANGED CM!vars
  BY <1>1 DEF callVars, CM!vars, CM!calls, CM!lines, CM!sip
<1>2. ASSUME NEW c \in Calls, CM!CallNext(c) PROVE CM!Next
  BY <1>2 DEF CM!Next
<1>3. ASSUME NEW l \in Lines, CM!LineNext(l) PROVE CM!Next
  BY <1>3 DEF CM!Next
<1>4. ASSUME NEW c \in Calls, Ack(c) \/ Bye(c) \/ Authenticate(c) PROVE [CM!Next]_(CM!vars)
  BY <1>1, <1>2, <1>4 DEF Ack, Bye, Authenticate, CM!CallNext
<1>5. ASSUME NEW l \in Lines, ModemExits(l) \/ BindFails(l) \/ PtyOpened(l) \/ PtyClosed(l)
      PROVE  [CM!Next]_(CM!vars)
  BY <1>1, <1>3, <1>5 DEF ModemExits, BindFails, PtyOpened, PtyClosed, CM!LineNext
<1>6. CASE CallSide
  <2>1. ASSUME NEW c \in Calls, NEW l \in Lines, NEW spawned \in BOOLEAN,
               CM!Invite(c, l, spawned)
        PROVE  CM!Next
    BY <1>2, <2>1 DEF CM!CallNext
  <2>2. ASSUME NEW c \in Calls, CM!BuildFails(c) \/ CM!InviteAgain(c)
        PROVE  CM!Next
    BY <1>2, <2>2 DEF CM!CallNext
  <2>3. ASSUME NEW l \in Lines, CM!Listening(l) \/ CM!SocketClosed(l) \/ CM!CloseFails(l)
        PROVE  CM!Next
    BY <1>3, <2>3 DEF CM!LineNext
  <2>4. ASSUME NEW n \in 1 .. MaxLimit, CM!SetMaxSessions(n) PROVE CM!Next
    BY <2>4 DEF CM!Next
  <2>5. QED
    BY <1>6, <2>1, <2>2, <2>3, <2>4 DEF CallSide
<1>7. CASE PppdSide
  BY <1>1, <1>7 DEF PppdSide
<1>8. CASE UNCHANGED vars
  BY <1>1, <1>8 DEF vars
<1>9. QED
  BY <1>4, <1>5, <1>6, <1>7, <1>8 DEF Next

(* One side's definitions, seen from its proofs, are the same.             *)
LEMMA SameCallSteps == [CM!Next]_(CM!vars) => [X!Next]_(X!vars)
<1>1. \A l : /\ CM!Owns(l) <=> X!Owns(l)
             /\ CM!StoppedModem(l) = X!StoppedModem(l)
             /\ CM!ReadyNow(l) <=> X!ReadyNow(l)
             /\ CM!Hangup(l) <=> X!Hangup(l)
  BY DEF CM!Owns, X!Owns, CM!StoppedModem, X!StoppedModem, CM!ReadyNow, X!ReadyNow, CM!Hangup,
         X!Hangup
<1>2. /\ CM!calls = X!calls /\ CM!lines = X!lines /\ CM!sip = X!sip
      /\ CM!Port = X!Port /\ CM!Active = X!Active
  BY DEF CM!calls, X!calls, CM!lines, X!lines, CM!sip, X!sip, CM!Port, X!Port, CM!Active,
         X!Active
<1>3. CM!Offered = X!Offered /\ \A c : CM!Admits(c) <=> X!Admits(c)
  <2>1. CM!FreePorts = X!FreePorts
    BY DEF CM!FreePorts, X!FreePorts, CM!Port, X!Port
  <2>2. CM!Offered = X!Offered
    BY <2>1 DEF CM!Offered, X!Offered
  <2>3. \A c : CM!Admits(c) <=> X!Admits(c)
    BY <1>2 DEF CM!Admits, X!Admits, CM!Cardinality, X!Cardinality
  <2>4. QED
    BY <2>2, <2>3
<1>4. \A l, code : CM!Settle(l, code) <=> X!Settle(l, code)
  BY DEF CM!Settle, X!Settle
<1>5. \A n : CM!UsedAfterFailure(n) = X!UsedAfterFailure(n)
  BY DEF CM!UsedAfterFailure, X!UsedAfterFailure
<1>6. \A c \in Calls : CM!CallNext(c) => X!CallNext(c)
  <2> TAKE c \in Calls
  <2>1. \A l \in Lines, spawned \in BOOLEAN :
           CM!Invite(c, l, spawned) => X!Invite(c, l, spawned)
    BY <1>3 DEF CM!Invite, X!Invite, CM!calls, X!calls, CM!lines, X!lines, CM!sip, X!sip
  <2>2. CM!BuildFails(c) => X!BuildFails(c)
    BY <1>2, <1>3, <1>5
       DEF CM!BuildFails, X!BuildFails, CM!calls, X!calls, CM!lines, X!lines, CM!sip, X!sip
  <2>3. CM!InviteAgain(c) => X!InviteAgain(c)
    BY <1>1, <1>2
       DEF CM!InviteAgain, X!InviteAgain, CM!calls, X!calls, CM!lines, X!lines, CM!sip, X!sip
  <2>4. CM!Ack(c) => X!Ack(c)
    BY <1>2 DEF CM!Ack, X!Ack, CM!calls, X!calls, CM!lines, X!lines, CM!sip, X!sip
  <2>5. CM!Bye(c) => X!Bye(c)
    BY <1>1, <1>2 DEF CM!Bye, X!Bye, CM!calls, X!calls, CM!lines, X!lines, CM!sip, X!sip
  <2>6. QED
    BY <2>1, <2>2, <2>3, <2>4, <2>5 DEF CM!CallNext, X!CallNext
<1>7. \A l \in Lines : CM!LineNext(l) => X!LineNext(l)
  <2> TAKE l \in Lines
  <2>1. CM!ModemExits(l) => X!ModemExits(l)
    BY <1>1, <1>2
       DEF CM!ModemExits, X!ModemExits, CM!calls, X!calls, CM!lines, X!lines, CM!sip, X!sip
  <2>2. CM!Listening(l) => X!Listening(l)
    BY <1>2, <1>4
       DEF CM!Listening, X!Listening, CM!calls, X!calls, CM!lines, X!lines, CM!sip, X!sip
  <2>3. CM!BindFails(l) => X!BindFails(l)
    BY <1>1, <1>4
       DEF CM!BindFails, X!BindFails, CM!calls, X!calls, CM!lines, X!lines, CM!sip, X!sip
  <2>4. CM!SocketClosed(l) => X!SocketClosed(l)
    BY <1>2
       DEF CM!SocketClosed, X!SocketClosed, CM!calls, X!calls, CM!lines, X!lines, CM!sip, X!sip
  <2>5. CM!CloseFails(l) => X!CloseFails(l)
    BY <1>2
       DEF CM!CloseFails, X!CloseFails, CM!calls, X!calls, CM!lines, X!lines, CM!sip, X!sip
  <2>6. QED
    BY <2>1, <2>2, <2>3, <2>4, <2>5 DEF CM!LineNext, X!LineNext
<1>8. \A n \in 1 .. MaxLimit : CM!SetMaxSessions(n) => X!SetMaxSessions(n)
  BY <1>2
     DEF CM!SetMaxSessions, X!SetMaxSessions, CM!calls, X!calls, CM!lines, X!lines, CM!sip,
         X!sip
<1>9. CM!vars = X!vars
  BY <1>2 DEF CM!vars, X!vars, CM!calls, X!calls, CM!lines, X!lines, CM!sip, X!sip
<1>10. QED
  BY <1>6, <1>7, <1>8, <1>9
     DEF CM!Next, X!Next, CM!vars, X!vars, CM!calls, X!calls, CM!lines, X!lines, CM!sip, X!sip

(* So is the specification of the call manager.                            *)
LEMMA SameCalls == CM!Spec => X!Spec
<1>1. CM!Init => X!Init
  BY DEF CM!Init, X!Init
<1>2. QED
  BY <1>1, SameCallSteps, PTL DEF CM!Spec, X!Spec

(* The service does with calls, Lines and ports what CallManager allows.   *)
THEOREM ImplementsCallManager == Spec => CM!Spec
<1>1. Init => CM!Init
  BY DEF Init
<1>2. QED
  BY <1>1, CallSteps, PTL DEF Spec, CM!Spec

(* What CallManagerProofs shows of calls holds in the service.             *)
LEMMA CallsHold == Spec => []X!Inv
<1>1. X!Spec => []X!Inv
  BY CallAssumptions, X!InvHolds
<1>2. QED
  BY <1>1, ImplementsCallManager, SameCalls, PTL

(* Every step of the service is one of the PPP side or leaves it alone.    *)
LEMMA PppSteps == X!Inv /\ [Next]_vars => [PPP!Next]_(PPP!vars)
<1> SUFFICES ASSUME X!Inv, [Next]_vars PROVE [PPP!Next]_(PPP!vars)
  OBVIOUS
<1>1. ASSUME UNCHANGED pppVars PROVE UNCHANGED PPP!vars
  BY <1>1 DEF pppVars, PPP!vars, PPP!ctl, PPP!sup, PPP!os
<1>2. ASSUME NEW c \in Calls, PPP!CallNext(c) PROVE PPP!Next
  BY <1>2 DEF PPP!Next, PPP!Core
<1>3. ASSUME NEW c \in Calls, EndPpp(c) PROVE [PPP!Next]_(PPP!vars)
  BY <1>1, <1>2, <1>3 DEF EndPpp, PPP!CallNext
<1>4. ASSUME NEW l \in Lines, CM!Owns(l) PROVE call[l] \in Calls
  BY <1>4 DEF CM!Owns, X!Inv, X!TypeOK
<1>5. ASSUME NEW c \in Calls, Ack(c) \/ Bye(c) \/ Authenticate(c) PROVE [PPP!Next]_(PPP!vars)
  BY <1>2, <1>3, <1>5 DEF Ack, Bye, Authenticate, PPP!CallNext
<1>6. ASSUME NEW l \in Lines, ModemExits(l) PROVE [PPP!Next]_(PPP!vars)
  BY <1>1, <1>3, <1>4, <1>6 DEF ModemExits
<1>7. ASSUME NEW l \in Lines, BindFails(l) PROVE [PPP!Next]_(PPP!vars)
  <2>1. CM!Owns(l)
    BY <1>7 DEF BindFails, CM!BindFails, CM!Owns, X!Inv, X!NoOrphanLine, X!Owns
  <2>2. QED
    BY <1>3, <1>4, <1>7, <2>1 DEF BindFails
<1>8. ASSUME NEW l \in Lines, PtyOpened(l) \/ PtyClosed(l) PROVE PPP!Next
  <2>1. call[l] \in Calls
    BY <1>4, <1>8 DEF PtyOpened, PtyClosed, Heard
  <2>2. PPP!CallNext(call[l])
    BY <1>8 DEF PtyOpened, PtyClosed, PPP!CallNext
  <2>3. QED
    BY <1>2, <2>1, <2>2
<1>9. CASE CallSide
  BY <1>1, <1>9 DEF CallSide
<1>10. CASE PppdSide
  BY <1>10 DEF PppdSide, PPP!Next, PPP!Core
<1>11. CASE UNCHANGED vars
  BY <1>1, <1>11 DEF vars
<1>12. QED
  BY <1>5, <1>6, <1>7, <1>8, <1>9, <1>10, <1>11 DEF Next

(* The service does with sessions, leases and pppds what PppSessions       *)
(* allows.                                                                 *)
THEOREM ImplementsPppSessions == Spec => PPP!Spec
<1>1. Init => PPP!Init
  BY DEF Init
<1>2. QED
  BY <1>1, CallsHold, PppSteps, PTL DEF Spec, PPP!Spec

(* The definitions of the PPP side, too, are the same in its proofs.       *)
LEMMA SamePppSteps == [PPP!Next]_(PPP!vars) => [Y!Next]_(Y!vars)
<1>1. \A c : /\ PPP!Signalled(c) = Y!Signalled(c)
             /\ PPP!PtyMayOpen(c) <=> Y!PtyMayOpen(c)
             /\ PPP!Awaits(c) = Y!Awaits(c)
  BY DEF PPP!Signalled, Y!Signalled, PPP!PtyMayOpen, Y!PtyMayOpen, PPP!Awaits, Y!Awaits,
         PPP!Resolved, Y!Resolved
<1>2. \A c : PPP!LeaseFor(c) = Y!LeaseFor(c)
  BY DEF PPP!LeaseFor, Y!LeaseFor, PPP!Lowest, Y!Lowest, PPP!Free, Y!Free, PPP!Addr, Y!Addr
<1>3. \A c : PPP!AddressFor(c) = Y!AddressFor(c)
  BY <1>2 DEF PPP!AddressFor, Y!AddressFor
<1>4. /\ \A c, a : PPP!KeepLease(c, a) <=> Y!KeepLease(c, a)
      /\ \A c, s : PPP!AcceptEvent(c, s) <=> Y!AcceptEvent(c, s)
  BY DEF PPP!KeepLease, Y!KeepLease, PPP!AcceptEvent, Y!AcceptEvent
<1>5. /\ \A p : PPP!Live(p) <=> Y!Live(p)
      /\ \A p : PPP!IsCurrent(p) <=> Y!IsCurrent(p)
      /\ \A p, t : PPP!TokenAccepted(p, t) <=> Y!TokenAccepted(p, t)
      /\ \A p : PPP!ReleasedBy(p) = Y!ReleasedBy(p)
  BY DEF PPP!Live, Y!Live, PPP!IsCurrent, Y!IsCurrent, PPP!TokenAccepted, Y!TokenAccepted,
         PPP!ReleasedBy, Y!ReleasedBy
<1>6. \A c \in Calls : PPP!CallNext(c) => Y!CallNext(c)
  <2> TAKE c \in Calls
  <2>1. PPP!Begin(c) => Y!Begin(c)
    BY DEF PPP!Begin, Y!Begin, PPP!Refused, Y!Refused, PPP!ctl, Y!ctl, PPP!sup, Y!sup, PPP!os,
           Y!os
  <2>2. \A valid \in BOOLEAN : PPP!Authenticate(c, valid) => Y!Authenticate(c, valid)
    BY <1>2 DEF PPP!Authenticate, Y!Authenticate, PPP!ctl, Y!ctl, PPP!sup, Y!sup, PPP!os, Y!os
  <2>3. \A p \in Procs, spawned \in BOOLEAN :
           PPP!StartPppd(c, p, spawned) => Y!StartPppd(c, p, spawned)
    BY <1>1, <1>3, <1>4 DEF PPP!StartPppd, Y!StartPppd
  <2>4. \A wrote \in BOOLEAN : PPP!StartPppdThrows(c, wrote) => Y!StartPppdThrows(c, wrote)
    BY <1>1, <1>3, <1>4 DEF PPP!StartPppdThrows, Y!StartPppdThrows
  <2>5. PPP!StopPppd(c) => Y!StopPppd(c)
    BY <1>1 DEF PPP!StopPppd, Y!StopPppd, PPP!ctl, Y!ctl, PPP!sup, Y!sup, PPP!os, Y!os
  <2>6. PPP!Terminate(c) => Y!Terminate(c)
    BY <1>1 DEF PPP!Terminate, Y!Terminate
  <2>7. QED
    BY <2>1, <2>2, <2>3, <2>4, <2>5, <2>6 DEF PPP!CallNext, Y!CallNext
<1>7. \A p \in Procs : PPP!ProcNext(p) => Y!ProcNext(p)
  <2> TAKE p \in Procs
  <2>1. \A s : PPP!PppdNotifies(p, s) => Y!PppdNotifies(p, s)
    BY <1>4, <1>5
       DEF PPP!PppdNotifies, Y!PppdNotifies, PPP!ctl, Y!ctl, PPP!sup, Y!sup, PPP!os, Y!os
  <2>2. PPP!PppdExits(p) => Y!PppdExits(p)
    BY <1>5 DEF PPP!PppdExits, Y!PppdExits
  <2>3. QED
    BY <2>1, <2>2 DEF PPP!ProcNext, Y!ProcNext, PPP!LinkStates, Y!LinkStates
<1>8. \A p, t, s : PPP!HookEvent(p, t, s) => Y!HookEvent(p, t, s)
  BY <1>4, <1>5 DEF PPP!HookEvent, Y!HookEvent, PPP!ctl, Y!ctl, PPP!sup, Y!sup, PPP!os, Y!os
<1>9. QED
  BY <1>6, <1>7, <1>8
     DEF PPP!Next, Y!Next, PPP!Core, Y!Core, PPP!LinkStates, Y!LinkStates, PPP!vars, Y!vars,
         PPP!ctl, Y!ctl, PPP!sup, Y!sup, PPP!os, Y!os

(* So is the specification of the PPP side.                                *)
LEMMA SamePpp == PPP!Spec => Y!Spec
<1>1. PPP!Init => Y!Init
  BY DEF PPP!Init, Y!Init
<1>2. QED
  BY <1>1, SamePppSteps, PTL DEF PPP!Spec, Y!Spec

(* What PppSessionsProofs shows of sessions holds in the service.          *)
LEMMA PppHolds == Spec => []Y!Inv
<1>1. Y!Spec => []Y!Inv
  BY PppAssumptions, Y!InvHolds
<1>2. QED
  BY <1>1, ImplementsPppSessions, SamePpp, PTL

(* With modems that open one PTY per call, the address of a living pppd is *)
(* its own: it stays leased to its call until the pppd exits, whatever     *)
(* ended the call, and no pppd of another call has it.                     *)
THEOREM AddressesStayOwn ==
    ASSUME ReopenPty = FALSE
    PROVE  Spec => []AddressesAreOwn
<1>1. Y!Spec => []Y!AddressHeldUntilExit
  BY PppAssumptions, Y!AddressesHeldUntilExit
<1>2. Y!Spec => []Y!UniqueLiveAddress
  BY PppAssumptions, Y!LiveAddressesAreUnique
<1>3. Y!AddressHeldUntilExit /\ Y!UniqueLiveAddress => AddressesAreOwn
  BY DEF AddressesAreOwn, AddressHeldUntilExit, UniqueLiveAddress, Y!Live, PPP!Live,
     Y!AddressHeldUntilExit, Y!UniqueLiveAddress, PPP!AddressHeldUntilExit,
     PPP!UniqueLiveAddress
<1>4. QED
  BY <1>1, <1>2, <1>3, ImplementsPppSessions, SamePpp, PTL
----------------------------------------------------------------------------
(* An address is leased to a call with a session, or with a pppd that has  *)
(* not exited.                                                             *)
LeaseHasSession ==
    \A c \in Calls : leases[c] # None => sess[c] # "none" \/ c \in terminating

(* What joins the two sides.                                               *)
Joined == SessionsMatch /\ AlivePppdHasCall /\ LeaseHasSession

(* What is known of calls and Lines from CallManager alone.                *)
LEMMA CallFacts ==
    ASSUME X!Inv
    PROVE  /\ entry \in [Calls -> Lines \cup {None}]
           /\ call \in [Lines -> Calls \cup {None}]
           /\ state \in [Lines -> X!States] /\ modem \in [Lines -> X!ModemStates]
           /\ \A c \in Calls : entry[c] # None => entry[c] \in Lines /\ call[entry[c]] = c
           /\ \A l \in Lines : socket[l] = "none" => call[l] = None
           /\ \A l \in Lines :
                 socket[l] = "binding" \/ modem[l] = "running" =>
                     call[l] \in Calls /\ entry[call[l]] = l
BY CallAssumptions
   DEF X!Inv, X!TypeOK, X!EntryIsOwn, X!LineBorn, X!NoOrphanLine, X!Owns

(* What is known of sessions and pppds from PppSessions alone.             *)
LEMMA PppFacts ==
    ASSUME Y!Inv
    PROVE  /\ sess \in [Calls -> Y!SessStates]
           /\ leases \in [Calls -> 1 .. Addresses \cup {None}]
           /\ current \in [Calls -> Procs \cup {None}]
           /\ proc \in [Procs -> Y!ProcStates] /\ procCall \in [Procs -> Calls \cup {None}]
           /\ terminating \subseteq Calls
           /\ \A c \in Calls : current[c] # None => sess[c] # "none"
           /\ \A p \in Procs :
                 proc[p] = "alive" => procCall[p] \in Calls /\ current[procCall[p]] = p
BY PppAssumptions
   DEF Y!Inv, Y!TypeOK, Y!Addr, Y!NoSession, Y!UnsupervisedIsSignalled, Y!IsCurrent,
       Y!LiveIsStarted, Y!Live

(* The end of a session tells its pppd to stop and gives the address back, *)
(* or leaves that to the exit of the pppd.                                 *)
LEMMA EndPppEnds ==
    ASSUME Y!Inv, LeaseHasSession, NEW c \in Calls, EndPpp(c)
    PROVE  /\ sess' = [sess EXCEPT ![c] = "none"]
           /\ \A p \in Procs : proc'[p] = "alive" =>
                 proc[p] = "alive" /\ procCall[p] # c /\ procCall'[p] = procCall[p]
           /\ LeaseHasSession'
<1> USE PppFacts
<1>1. \A p \in Procs : p # None
  BY NoneAssumption
<1>2. CASE sess[c] = "none"
  <2>1. UNCHANGED pppVars
    BY <1>2 DEF EndPpp
  <2>2. \A p \in Procs : proc[p] = "alive" => procCall[p] # c
    BY <1>1, <1>2
  <2>3. QED
    BY <1>2, <2>1, <2>2 DEF pppVars, LeaseHasSession
<1>3. CASE PPP!Terminate(c)
  <2>1. \A p \in Procs : proc'[p] = "alive" => proc[p] = "alive" /\ p # current[c]
    BY <1>3 DEF PPP!Terminate, PPP!Signalled
  <2>2. sess' = [sess EXCEPT ![c] = "none"] /\ procCall' = procCall
    BY <1>3 DEF PPP!Terminate
  <2>3. LeaseHasSession'
    BY <1>3 DEF PPP!Terminate, LeaseHasSession
  <2>4. QED
    BY <2>1, <2>2, <2>3
<1>4. QED
  BY <1>2, <1>3 DEF EndPpp

(* The end of a call and of its session together keep both sides in step.  *)
LEMMA EndKeepsJoined ==
    ASSUME X!Inv, Y!Inv, Joined, NEW c \in Calls, entry[c] # None, EndPpp(c),
           entry' = [entry EXCEPT ![c] = None],
           state' = [state EXCEPT ![entry[c]] = "terminated"],
           \A l \in Lines : l # entry[c] => modem'[l] = modem[l]
    PROVE  Joined'
<1>1. \A d \in Calls : d # c /\ entry[d] # None =>
          entry[d] \in Lines /\ entry[d] # entry[c] /\ entry'[d] = entry[d]
  BY CallFacts
<1>2. entry'[c] = None
  BY CallFacts
<1>3. SessionsMatch'
  <2> SUFFICES ASSUME NEW d \in Calls
               PROVE  sess'[d] # "none" <=>
                         entry'[d] # None /\ state'[entry'[d]] = "established"
    BY DEF SessionsMatch
  <2>1. CASE d = c
    BY <1>2, <2>1, PppFacts, EndPppEnds DEF Joined
  <2>2. CASE d # c
    <3>1. sess'[d] = sess[d]
      BY <2>2, PppFacts, EndPppEnds DEF Joined
    <3>2. entry'[d] = entry[d] /\ (entry[d] # None => state'[entry[d]] = state[entry[d]])
      BY <1>1, <2>2, CallFacts
    <3>3. QED
      BY <3>1, <3>2 DEF Joined, SessionsMatch
  <2>3. QED
    BY <2>1, <2>2
<1>4. AlivePppdHasCall'
  <2> SUFFICES ASSUME NEW p \in Procs, proc'[p] = "alive"
               PROVE  entry'[procCall'[p]] # None /\ modem'[entry'[procCall'[p]]] = "running"
    BY DEF AlivePppdHasCall
  <2>1. proc[p] = "alive" /\ procCall[p] # c /\ procCall'[p] = procCall[p]
    BY EndPppEnds DEF Joined
  <2>2. procCall[p] \in Calls
    BY <2>1, PppFacts
  <2>3. QED
    BY <1>1, <2>1, <2>2 DEF Joined, AlivePppdHasCall
<1>5. QED
  BY <1>3, <1>4, EndPppEnds DEF Joined

(* Steps of the call manager alone neither establish nor end a call, and   *)
(* stop no modem of a call.                                                *)
LEMMA CallSideKeepsJoined ==
    ASSUME X!Inv, Y!Inv, Joined, UNCHANGED pppVars,
           \A c \in Calls : entry[c] # None =>
               /\ entry'[c] = entry[c] /\ modem'[entry[c]] = modem[entry[c]]
               /\ state'[entry[c]] = state[entry[c]],
           \A c \in Calls : entry[c] = None /\ entry'[c] # None =>
               state'[entry'[c]] = "ringing"
    PROVE  Joined'
<1>1. SessionsMatch'
  BY DEF Joined, SessionsMatch, pppVars
<1>2. AlivePppdHasCall'
  BY PppFacts DEF Joined, AlivePppdHasCall, pppVars
<1>3. LeaseHasSession'
  BY DEF Joined, LeaseHasSession, pppVars
<1>4. QED
  BY <1>1, <1>2, <1>3 DEF Joined

(* Steps of the PPP side alone neither begin nor end a session, and start  *)
(* no pppd but for a call whose modem runs.                                *)
LEMMA PppSideKeepsJoined ==
    ASSUME Y!Inv, Joined, UNCHANGED <<entry, state, modem>>,
           \A c \in Calls : sess'[c] # "none" <=> sess[c] # "none",
           \A p \in Procs : proc'[p] = "alive" =>
               \/ proc[p] = "alive" /\ procCall'[p] = procCall[p]
               \/ entry[procCall'[p]] # None /\ modem[entry[procCall'[p]]] = "running",
           \A c \in Calls : leases'[c] # None =>
               \/ sess[c] # "none"
               \/ leases[c] # None /\ (c \in terminating => c \in terminating')
    PROVE  Joined'
<1>1. SessionsMatch'
  BY DEF Joined, SessionsMatch
<1>2. AlivePppdHasCall'
  BY DEF Joined, AlivePppdHasCall
<1>3. LeaseHasSession'
  BY DEF Joined, LeaseHasSession
<1>4. QED
  BY <1>1, <1>2, <1>3 DEF Joined

(* The first ACK establishes a call and begins its session.                *)
LEMMA AckKeepsJoined ==
    ASSUME X!Inv, Y!Inv, Joined, NEW c \in Calls, Ack(c)
    PROVE  Joined'
<1>1. /\ entry[c] # None /\ entry' = entry /\ modem' = modem
      /\ state' = [state EXCEPT ![entry[c]] = "established"]
  BY DEF Ack, CM!Ack, CM!calls
<1>2. /\ sess' = [sess EXCEPT ![c] = "awaiting-auth"]
      /\ UNCHANGED <<terminating, leases, proc, procCall>>
  BY DEF Ack, PPP!Begin, PPP!os
<1>3. \A d \in Calls : d # c /\ entry[d] # None => entry[d] \in Lines /\ entry[d] # entry[c]
  BY CallFacts
<1>4. SessionsMatch'
  <2> SUFFICES ASSUME NEW d \in Calls
               PROVE  sess'[d] # "none" <=> entry[d] # None /\ state'[entry[d]] = "established"
    BY <1>1 DEF SessionsMatch
  <2>1. CASE d = c
    BY <1>1, <1>2, <2>1, CallFacts, PppFacts
  <2>2. CASE d # c
    <3>1. sess'[d] = sess[d]
      BY <1>2, <2>2, PppFacts
    <3>2. entry[d] # None => state'[entry[d]] = state[entry[d]]
      BY <1>1, <1>3, <2>2, CallFacts
    <3>3. QED
      BY <3>1, <3>2 DEF Joined, SessionsMatch
  <2>3. QED
    BY <2>1, <2>2
<1>5. AlivePppdHasCall' /\ LeaseHasSession'
  BY <1>1, <1>2, PppFacts DEF Joined, AlivePppdHasCall, LeaseHasSession
<1>6. QED
  BY <1>4, <1>5 DEF Joined

(* pty-opened starts a pppd for the call of a running modem.               *)
LEMMA PtyOpenedKeepsJoined ==
    ASSUME X!Inv, Y!Inv, Joined, NEW l \in Lines, PtyOpened(l)
    PROVE  Joined'
<1> DEFINE c == call[l]
<1>1. /\ c \in Calls /\ entry[c] = l /\ entry[c] # None /\ modem[l] = "running"
      /\ UNCHANGED <<entry, state, modem>>
  BY CallFacts, NoneAssumption DEF PtyOpened, Heard, callVars
<1>2. sess[c] # "none"
  BY DEF PtyOpened, PPP!StartPppd, PPP!StartPppdThrows, PPP!PtyMayOpen
<1>3. \A a : PPP!KeepLease(c, a) => \A d \in Calls : d # c => leases'[d] = leases[d]
  BY <1>1, PppFacts DEF PPP!KeepLease
<1>4. ASSUME NEW p \in Procs, NEW spawned \in BOOLEAN, PPP!StartPppd(c, p, spawned)
      PROVE  Joined'
  <2>1. \A q \in Procs : proc'[q] = "alive" =>
           \/ proc[q] = "alive" /\ procCall'[q] = procCall[q]
           \/ procCall'[q] = c
    BY <1>4, PppFacts DEF PPP!StartPppd, PPP!Signalled
  <2>2. \A d \in Calls : sess'[d] # "none" <=> sess[d] # "none"
    BY <1>2, <1>4, PppFacts DEF PPP!StartPppd
  <2>3. \A d \in Calls : d # c => leases'[d] = leases[d]
    BY <1>3, <1>4 DEF PPP!StartPppd
  <2>4. terminating' = terminating
    BY <1>4 DEF PPP!StartPppd
  <2>5. QED
    BY <1>1, <1>2, <2>1, <2>2, <2>3, <2>4, PppSideKeepsJoined
<1>5. ASSUME NEW wrote \in BOOLEAN, PPP!StartPppdThrows(c, wrote) PROVE Joined'
  <2>1. \A q \in Procs : proc'[q] = "alive" => proc[q] = "alive" /\ procCall'[q] = procCall[q]
    BY <1>5, PppFacts DEF PPP!StartPppdThrows, PPP!Signalled
  <2>2. \A d \in Calls : sess'[d] # "none" <=> sess[d] # "none"
    BY <1>2, <1>5, PppFacts DEF PPP!StartPppdThrows
  <2>3. \A d \in Calls : d # c => leases'[d] = leases[d]
    BY <1>3, <1>5 DEF PPP!StartPppdThrows
  <2>4. terminating' = terminating
    BY <1>5 DEF PPP!StartPppdThrows
  <2>5. QED
    BY <1>1, <1>2, <2>1, <2>2, <2>3, <2>4, PppSideKeepsJoined
<1>6. QED
  BY <1>4, <1>5 DEF PtyOpened

(* pty-closed stops a pppd and leaves the session.                         *)
LEMMA PtyClosedKeepsJoined ==
    ASSUME X!Inv, Y!Inv, Joined, NEW l \in Lines, PtyClosed(l)
    PROVE  Joined'
<1>1. /\ UNCHANGED <<entry, state, modem, sess, leases, terminating, procCall>>
      /\ proc' = PPP!Signalled(call[l])
  BY DEF PtyClosed, PPP!StopPppd, PPP!ctl, callVars
<1>2. \A q \in Procs : proc'[q] = "alive" => proc[q] = "alive"
  BY <1>1 DEF PPP!Signalled
<1>3. QED
  BY <1>1, <1>2, PppSideKeepsJoined DEF Joined, LeaseHasSession

(* A login marks a session and may lease an address for it.                *)
LEMMA AuthenticateKeepsJoined ==
    ASSUME Y!Inv, Joined, NEW c \in Calls, Authenticate(c)
    PROVE  Joined'
<1>1. PICK valid \in BOOLEAN : PPP!Authenticate(c, valid) /\ UNCHANGED callVars
  BY DEF Authenticate
<1>2. /\ UNCHANGED <<entry, state, modem, terminating, proc, procCall>> /\ sess[c] # "none"
      /\ \A d \in Calls : sess'[d] # "none" <=> sess[d] # "none"
  BY <1>1, PppFacts DEF PPP!Authenticate, PPP!os, callVars
<1>3. \A d \in Calls : d # c => leases'[d] = leases[d]
  BY <1>1, PppFacts DEF PPP!Authenticate
<1>4. QED
  BY <1>2, <1>3, PppSideKeepsJoined

(* What pppd reports never begins or ends a session; its exit gives the    *)
(* address back that an ended session left to it.                          *)
LEMMA PppdSideKeepsJoined ==
    ASSUME Y!Inv, Joined, PppdSide
    PROVE  Joined'
<1> USE PppFacts
<1>1. UNCHANGED <<entry, state, modem>>
  BY DEF PppdSide, callVars
<1>2. ASSUME NEW c, NEW s \in PPP!LinkStates, PPP!AcceptEvent(c, s), current[c] # None,
             UNCHANGED <<leases, terminating, proc, procCall>>
      PROVE  Joined'
  <2>1. \A d \in Calls : sess'[d] # "none" <=> sess[d] # "none"
    BY <1>2 DEF PPP!AcceptEvent, PPP!LinkStates
  <2>2. QED
    BY <1>1, <1>2, <2>1, PppSideKeepsJoined
<1>3. ASSUME NEW p \in Procs, NEW s \in PPP!LinkStates, PPP!PppdNotifies(p, s) PROVE Joined'
  <2>1. current[procCall[p]] # None
    BY <1>3, NoneAssumption DEF PPP!PppdNotifies, PPP!IsCurrent
  <2>2. QED
    BY <1>2, <1>3, <2>1 DEF PPP!PppdNotifies, PPP!os
<1>4. ASSUME NEW p \in Procs, NEW t \in Procs, NEW s \in PPP!LinkStates, PPP!HookEvent(p, t, s)
      PROVE  Joined'
  BY <1>2, <1>4 DEF PPP!HookEvent, PPP!TokenAccepted, PPP!os
<1>5. ASSUME NEW p \in Procs, PPP!PppdExits(p) PROVE Joined'
  <2>1. \A q \in Procs : proc'[q] = "alive" => proc[q] = "alive" /\ procCall'[q] = procCall[q]
    BY <1>5 DEF PPP!PppdExits
  <2>2. \A d \in Calls : sess'[d] # "none" <=> sess[d] # "none"
    BY <1>5, NoneAssumption DEF PPP!PppdExits, PPP!IsCurrent
  <2>3. \A d \in Calls : leases'[d] # None =>
            leases[d] # None /\ (d \in terminating => d \in terminating')
    BY <1>5 DEF PPP!PppdExits
  <2>4. QED
    BY <1>1, <2>1, <2>2, <2>3, PppSideKeepsJoined
<1>6. QED
  BY <1>3, <1>4, <1>5 DEF PppdSide, PPP!ProcNext

(* Every step of the service keeps both sides in step.                     *)
LEMMA NextKeepsJoined == X!Inv /\ Y!Inv /\ Joined /\ [Next]_vars => Joined'
<1> SUFFICES ASSUME X!Inv, Y!Inv, Joined, [Next]_vars PROVE Joined'
  OBVIOUS
<1> USE CallFacts
<1>1. ASSUME NEW c \in Calls, Bye(c) PROVE Joined'
  <2>1. entry[c] # None /\ call[entry[c]] = c /\ EndPpp(c)
    BY <1>1 DEF Bye, CM!Bye
  <2>2. /\ entry' = [entry EXCEPT ![c] = None]
        /\ state' = [state EXCEPT ![entry[c]] = "terminated"]
        /\ \A l \in Lines : l # entry[c] => modem'[l] = modem[l]
    BY <1>1, <2>1 DEF Bye, CM!Bye, CM!Hangup
  <2>3. QED
    BY <2>1, <2>2, EndKeepsJoined
<1>2. ASSUME NEW l \in Lines, ModemExits(l) \/ BindFails(l) PROVE Joined'
  <2>1. call[l] \in Calls /\ entry[call[l]] = l /\ l # None
    BY <1>2, NoneAssumption DEF ModemExits, BindFails, CM!ModemExits, CM!BindFails
  <2>2. EndPpp(call[l]) /\ CM!Hangup(l) /\ \A k \in Lines : k # l => modem'[k] = modem[k]
    BY <1>2, <2>1, NoneAssumption
       DEF ModemExits, BindFails, CM!ModemExits, CM!BindFails, CM!Owns
  <2>3. QED
    BY <2>1, <2>2, EndKeepsJoined DEF CM!Hangup
<1>3. CASE CallSide
  <2>1. UNCHANGED pppVars
    BY <1>3 DEF CallSide
  <2>2. ASSUME NEW c \in Calls, NEW l \in Lines, NEW spawned \in BOOLEAN,
               CM!Invite(c, l, spawned)
        PROVE  Joined'
    <3>1. \A d \in Calls : entry[d] # None => entry[d] # l /\ entry[d] \in Lines /\ d # c
      BY <2>2, NoneAssumption DEF CM!Invite, CM!Admits
    <3>2. /\ entry' = [entry EXCEPT ![c] = l]
          /\ state' = [state EXCEPT ![l] = "ringing"]
          /\ \A k \in Lines : k # l => modem'[k] = modem[k]
      BY <2>2 DEF CM!Invite
    <3>3. QED
      BY <2>1, <3>1, <3>2, CallSideKeepsJoined
  <2>3. CASE UNCHANGED <<entry, state, modem>>
    BY <2>1, <2>3, CallSideKeepsJoined
  <2>4. QED
    BY <1>3, <2>2, <2>3 DEF CallSide, CM!BuildFails, CM!InviteAgain, CM!Listening,
       CM!SocketClosed, CM!CloseFails, CM!SetMaxSessions, CM!calls, CM!lines
<1>4. CASE UNCHANGED vars
  <2>1. UNCHANGED pppVars /\ UNCHANGED <<entry, state, modem>>
    BY <1>4 DEF vars, callVars
  <2>2. QED
    BY <2>1, CallSideKeepsJoined
<1>5. QED
  BY <1>1, <1>2, <1>3, <1>4, AckKeepsJoined, AuthenticateKeepsJoined, PtyOpenedKeepsJoined,
     PtyClosedKeepsJoined, PppdSideKeepsJoined DEF Next

(* Nothing is there at first.                                              *)
LEMMA InitJoined == Init => Joined
BY DEF Init, CM!Init, PPP!Init, Joined, SessionsMatch, AlivePppdHasCall, LeaseHasSession

(* The two sides agree, whatever they do in whatever order: sessions are   *)
(* those of the established calls, a pppd that was not told to stop        *)
(* belongs to an active call with a running modem, and an address to an    *)
(* active call or to one whose pppd has not exited.                        *)
THEOREM SidesStayAgreed == Spec => []SidesAgree
<1>1. X!Inv /\ Y!Inv /\ Joined => SidesAgree
  <2> SUFFICES ASSUME X!Inv, Y!Inv, Joined PROVE SidesAgree
    OBVIOUS
  <2>1. CM!TypeOK
    BY DEF X!Inv, X!TypeOK, CM!TypeOK, X!Port, CM!Port, X!States, CM!States, X!SocketStates,
       CM!SocketStates, X!ModemStates, CM!ModemStates, X!Handlers, CM!Handlers
  <2>2. PPP!TypeOK
    BY DEF Y!Inv, Y!TypeOK, PPP!TypeOK, Y!Addr, PPP!Addr, Y!SupStates, PPP!SupStates,
       Y!SessStates, PPP!SessStates, Y!LinkStates, PPP!LinkStates, Y!ProcStates, PPP!ProcStates
  <2>3. LeaseHasReason
    BY DEF Joined, LeaseHasSession, SessionsMatch, LeaseHasReason
  <2>4. QED
    BY <2>1, <2>2, <2>3 DEF SidesAgree, TypeOK, Joined
<1>2. QED
  BY <1>1, InitJoined, NextKeepsJoined, CallsHold, PppHolds, PTL DEF Spec
=============================================================================
