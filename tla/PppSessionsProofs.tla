------------------------- MODULE PppSessionsProofs -------------------------
(***************************************************************************)
(* Proofs about PppSessions for every number of calls, processes and       *)
(* addresses: the inductive invariant Inv and one lemma per action, the    *)
(* safety properties that follow from it, what one PTY per call adds, the  *)
(* refinement of ExclusivePool, and, at the end, about PppHooks.           *)
(***************************************************************************)
EXTENDS PppHooks, TLAPS

(* What a call without a session keeps: nothing but its pending release.   *)
NoSession ==
    \A c \in Calls : sess[c] = "none" =>
        lease[c] = None /\ exited[c] = None /\ current[c] = None

(* A session's lease is the pool's.                                        *)
LeaseInPool == \A c \in Calls : lease[c] # None => leases[c] = lease[c]

(* The process a session awaits was started for it with its lease.         *)
AwaitedIsOwn ==
    \A c \in Calls : exited[c] # None =>
        /\ proc[exited[c]] # "unborn"
        /\ procCall[exited[c]] = c
        /\ lease[c] # None
        /\ procAddr[exited[c]] = lease[c]

(* The supervisor's process is the one the session awaits, not yet told to *)
(* stop and not yet gone.                                                  *)
CurrentIsAwaited ==
    \A c \in Calls : current[c] # None =>
        /\ exited[c] = current[c]
        /\ proc[current[c]] \in {"alive", "failed"}

(* A pending release is for a process that uses the pending address.       *)
PendingAddress == \A t \in closures : procAddr[t[2]] = leases[t[1]]

LiveIsStarted ==
    \A p \in Procs : Live(p) => procCall[p] \in Calls /\ procAddr[p] \in Addr

(* The inductive invariant.                                                *)
Inv ==
    /\ TypeOK
    /\ LeaseExclusive
    /\ ReleaseScheduled
    /\ UnsupervisedIsSignalled
    /\ NoSession
    /\ LeaseInPool
    /\ AwaitedIsOwn
    /\ CurrentIsAwaited
    /\ PendingAddress
    /\ LiveIsStarted

(* With one PTY per call no live process is ever forgotten.                *)
NoneForgotten == \A p \in Procs : Live(p) => Accountable(p)
----------------------------------------------------------------------------
(* The service starts with no session, lease or process: Inv holds.        *)
LEMMA InitInv == Init => Inv
<1> SUFFICES ASSUME Init PROVE Inv
  OBVIOUS
<1> USE NoneAssumption DEF Init
<1>1. TypeOK
  BY DEF TypeOK, SessStates, SupStates, ProcStates, LinkStates
<1>2. LeaseExclusive
  BY DEF LeaseExclusive
<1>3. ReleaseScheduled
  BY DEF ReleaseScheduled
<1>4. UnsupervisedIsSignalled
  BY DEF UnsupervisedIsSignalled
<1>5. NoSession
  BY DEF NoSession
<1>6. LeaseInPool
  BY DEF LeaseInPool
<1>7. AwaitedIsOwn
  BY DEF AwaitedIsOwn
<1>8. CurrentIsAwaited
  BY DEF CurrentIsAwaited
<1>9. PendingAddress
  BY DEF PendingAddress
<1>10. LiveIsStarted
  BY DEF LiveIsStarted, Live
<1>11. QED
  BY <1>1, <1>2, <1>3, <1>4, <1>5, <1>6, <1>7, <1>8, <1>9, <1>10 DEF Inv

(* begin makes an empty session for a Call-ID that none awaits.            *)
LEMMA BeginKeepsInv ==
    ASSUME Inv, NEW c \in Calls, Begin(c)
    PROVE  Inv'
<1> USE NoneAssumption DEF Inv, Begin, sup, os
<1>1. TypeOK'
  BY DEF TypeOK, SessStates, SupStates, ProcStates, LinkStates
<1>2. LeaseExclusive'
  BY DEF TypeOK, LeaseExclusive
<1>3. ReleaseScheduled'
  BY DEF TypeOK, ReleaseScheduled, Live, Refused
<1>4. UnsupervisedIsSignalled'
  BY DEF TypeOK, UnsupervisedIsSignalled, IsCurrent
<1>5. NoSession'
  BY DEF TypeOK, NoSession
<1>6. LeaseInPool'
  BY DEF TypeOK, LeaseInPool
<1>7. AwaitedIsOwn'
  BY DEF TypeOK, AwaitedIsOwn
<1>8. CurrentIsAwaited'
  BY DEF TypeOK, CurrentIsAwaited, NoSession, AwaitedIsOwn
<1>9. PendingAddress'
  BY DEF TypeOK, ReleaseScheduled, PendingAddress
<1>10. LiveIsStarted'
  BY DEF TypeOK, LiveIsStarted, Live
<1>11. QED
  BY <1>1, <1>2, <1>3, <1>4, <1>5, <1>6, <1>7, <1>8, <1>9, <1>10 DEF Inv

(* authenticate leases an address nobody has, or none.                     *)
LEMMA AuthenticateKeepsInv ==
    ASSUME Inv, NEW c \in Calls, NEW valid \in BOOLEAN, Authenticate(c, valid)
    PROVE  Inv'
<1> USE NoneAssumption DEF Inv, Authenticate, LeaseFor, Free, Lowest, sup,
       os
<1>1. TypeOK'
  BY DEF TypeOK, SessStates, SupStates, ProcStates, LinkStates
<1>2. LeaseExclusive'
  BY DEF TypeOK, LeaseExclusive
<1>3. ReleaseScheduled'
  BY DEF TypeOK, ReleaseScheduled, Live
<1>4. UnsupervisedIsSignalled'
  BY DEF TypeOK, UnsupervisedIsSignalled, IsCurrent
<1>5. NoSession'
  BY DEF TypeOK, NoSession
<1>6. LeaseInPool'
  BY DEF TypeOK, LeaseInPool
<1>7. AwaitedIsOwn'
  BY DEF TypeOK, AwaitedIsOwn, LeaseInPool
<1>8. CurrentIsAwaited'
  BY DEF TypeOK, CurrentIsAwaited, NoSession, AwaitedIsOwn
<1>9. PendingAddress'
  BY DEF TypeOK, ReleaseScheduled, PendingAddress
<1>10. LiveIsStarted'
  BY DEF TypeOK, LiveIsStarted, Live
<1>11. QED
  BY <1>1, <1>2, <1>3, <1>4, <1>5, <1>6, <1>7, <1>8, <1>9, <1>10 DEF Inv

(* startPppd: the replaced process is signalled, the new one leased to.    *)
LEMMA StartPppdKeepsInv ==
    ASSUME Inv, NEW c \in Calls, NEW p \in Procs, NEW spawned \in BOOLEAN,
           StartPppd(c, p, spawned)
    PROVE  Inv'
<1> USE NoneAssumption DEF Inv, StartPppd, PtyMayOpen, AddressFor,
       KeepLease, Signalled, LeaseFor, Free, Lowest
<1>1. TypeOK'
  BY DEF TypeOK, SessStates, SupStates, ProcStates, LinkStates
<1>2. LeaseExclusive'
  BY DEF TypeOK, LeaseExclusive
<1>3. ReleaseScheduled'
  BY DEF TypeOK, ReleaseScheduled, Live
<1>4. UnsupervisedIsSignalled'
  BY DEF TypeOK, UnsupervisedIsSignalled, IsCurrent
<1>5. NoSession'
  BY DEF TypeOK, NoSession
<1>6. LeaseInPool'
  BY DEF TypeOK, LeaseInPool
<1>7. AwaitedIsOwn'
  BY DEF TypeOK, AwaitedIsOwn
<1>8. CurrentIsAwaited'
  BY DEF TypeOK, CurrentIsAwaited, NoSession, AwaitedIsOwn
<1>9. PendingAddress'
  BY DEF TypeOK, ReleaseScheduled, PendingAddress, Live
<1>10. LiveIsStarted'
  BY DEF TypeOK, LiveIsStarted, Live
<1>11. QED
  BY <1>1, <1>2, <1>3, <1>4, <1>5, <1>6, <1>7, <1>8, <1>9, <1>10 DEF Inv

(* A start that throws has signalled the old process and lost its entry.   *)
LEMMA StartPppdThrowsKeepsInv ==
    ASSUME Inv, NEW c \in Calls, NEW wrote \in BOOLEAN, StartPppdThrows(c, wrote)
    PROVE  Inv'
<1> USE NoneAssumption DEF Inv, StartPppdThrows, PtyMayOpen, AddressFor,
       KeepLease, Signalled, LeaseFor, Free, Lowest
<1>1. TypeOK'
  BY DEF TypeOK, SessStates, SupStates, ProcStates, LinkStates
<1>2. LeaseExclusive'
  BY DEF TypeOK, LeaseExclusive
<1>3. ReleaseScheduled'
  BY DEF TypeOK, ReleaseScheduled, Live
<1>4. UnsupervisedIsSignalled'
  BY DEF TypeOK, UnsupervisedIsSignalled, IsCurrent
<1>5. NoSession'
  BY DEF TypeOK, NoSession
<1>6. LeaseInPool'
  BY DEF TypeOK, LeaseInPool
<1>7. AwaitedIsOwn'
  BY DEF TypeOK, AwaitedIsOwn
<1>8. CurrentIsAwaited'
  BY DEF TypeOK, CurrentIsAwaited, NoSession, AwaitedIsOwn
<1>9. PendingAddress'
  BY DEF TypeOK, ReleaseScheduled, PendingAddress
<1>10. LiveIsStarted'
  BY DEF TypeOK, LiveIsStarted, Live
<1>11. QED
  BY <1>1, <1>2, <1>3, <1>4, <1>5, <1>6, <1>7, <1>8, <1>9, <1>10 DEF Inv

(* stopPppd signals the process whose entry it removes.                    *)
LEMMA StopPppdKeepsInv ==
    ASSUME Inv, NEW c \in Calls, StopPppd(c)
    PROVE  Inv'
<1> USE NoneAssumption DEF Inv, StopPppd, Signalled, ctl
<1>1. TypeOK'
  BY DEF TypeOK, SessStates, SupStates, ProcStates, LinkStates
<1>2. LeaseExclusive'
  BY DEF TypeOK, LeaseExclusive
<1>3. ReleaseScheduled'
  BY DEF TypeOK, ReleaseScheduled, Live
<1>4. UnsupervisedIsSignalled'
  BY DEF TypeOK, UnsupervisedIsSignalled, IsCurrent
<1>5. NoSession'
  BY DEF TypeOK, NoSession
<1>6. LeaseInPool'
  BY DEF TypeOK, LeaseInPool
<1>7. AwaitedIsOwn'
  BY DEF TypeOK, AwaitedIsOwn
<1>8. CurrentIsAwaited'
  BY DEF TypeOK, CurrentIsAwaited, NoSession, AwaitedIsOwn
<1>9. PendingAddress'
  BY DEF TypeOK, ReleaseScheduled, PendingAddress
<1>10. LiveIsStarted'
  BY DEF TypeOK, LiveIsStarted, Live
<1>11. QED
  BY <1>1, <1>2, <1>3, <1>4, <1>5, <1>6, <1>7, <1>8, <1>9, <1>10 DEF Inv

(* terminate schedules one release, or frees what nothing uses.            *)
LEMMA TerminateKeepsInv ==
    ASSUME Inv, NEW c \in Calls, Terminate(c)
    PROVE  Inv'
<1> USE NoneAssumption DEF Inv, Terminate, Awaits, Resolved, Signalled
<1>1. TypeOK'
  BY DEF TypeOK, SessStates, SupStates, ProcStates, LinkStates
<1>2. LeaseExclusive'
  BY DEF TypeOK, LeaseExclusive
<1>3. ReleaseScheduled'
  <2>1. \A t \in closures' :
            t[1] \in terminating' /\ Live(t[2])' /\ procCall'[t[2]] = t[1]
    BY DEF TypeOK, ProcStates, ReleaseScheduled, Live, AwaitedIsOwn
  <2>2. \A d \in terminating' : sess'[d] = "none" /\ leases'[d] # None
    BY DEF TypeOK, ReleaseScheduled, AwaitedIsOwn, LeaseInPool
  <2>3. ASSUME NEW d \in terminating'
        PROVE  \E p \in Procs : closures' \cap ({d} \X Procs) = {<<d, p>>}
    <3>1. CASE d = c
      <4>1. c \notin terminating
        BY DEF ReleaseScheduled
      <4>2. closures' = closures \cup {<<c, exited[c]>>} /\ exited[c] \in Procs
        BY <3>1, <4>1 DEF TypeOK
      <4>3. closures \cap ({c} \X Procs) = {}
        BY <4>1 DEF ReleaseScheduled
      <4>4. closures' \cap ({c} \X Procs) = {<<c, exited[c]>>}
        BY <4>2, <4>3
      <4>5. QED
        BY <3>1, <4>2, <4>4
    <3>2. CASE d # c
      <4>1. d \in terminating
        BY <3>2
      <4>2. closures' \cap ({d} \X Procs) = closures \cap ({d} \X Procs)
        BY <3>2
      <4>3. QED
        BY <4>1, <4>2 DEF ReleaseScheduled
    <3>3. QED
      BY <3>1, <3>2
  <2>4. QED
    BY <2>1, <2>2, <2>3 DEF ReleaseScheduled
<1>4. UnsupervisedIsSignalled'
  BY DEF TypeOK, UnsupervisedIsSignalled, IsCurrent
<1>5. NoSession'
  BY DEF TypeOK, NoSession
<1>6. LeaseInPool'
  BY DEF TypeOK, LeaseInPool
<1>7. AwaitedIsOwn'
  BY DEF TypeOK, AwaitedIsOwn
<1>8. CurrentIsAwaited'
  BY DEF TypeOK, CurrentIsAwaited, NoSession, AwaitedIsOwn
<1>9. PendingAddress'
  BY DEF TypeOK, ReleaseScheduled, PendingAddress, AwaitedIsOwn,
         LeaseInPool, Live
<1>10. LiveIsStarted'
  BY DEF TypeOK, LiveIsStarted, Live
<1>11. QED
  BY <1>1, <1>2, <1>3, <1>4, <1>5, <1>6, <1>7, <1>8, <1>9, <1>10 DEF Inv

(* A notification changes the two states of its call only.                 *)
LEMMA PppdNotifiesKeepsInv ==
    ASSUME Inv, NEW p \in Procs, NEW s \in LinkStates, PppdNotifies(p, s)
    PROVE  Inv'
<1> USE NoneAssumption DEF Inv, PppdNotifies, AcceptEvent, os
<1>1. TypeOK'
  BY DEF TypeOK, SessStates, SupStates, ProcStates, LinkStates
<1>2. LeaseExclusive'
  BY DEF TypeOK, LeaseExclusive
<1>3. ReleaseScheduled'
  BY DEF TypeOK, ReleaseScheduled, Live, NoSession, IsCurrent,
         LiveIsStarted
<1>4. UnsupervisedIsSignalled'
  BY DEF TypeOK, UnsupervisedIsSignalled, IsCurrent
<1>5. NoSession'
  BY DEF TypeOK, NoSession, LinkStates
<1>6. LeaseInPool'
  BY DEF TypeOK, LeaseInPool
<1>7. AwaitedIsOwn'
  BY DEF TypeOK, AwaitedIsOwn
<1>8. CurrentIsAwaited'
  BY DEF TypeOK, CurrentIsAwaited, NoSession, AwaitedIsOwn
<1>9. PendingAddress'
  BY DEF TypeOK, ReleaseScheduled, PendingAddress
<1>10. LiveIsStarted'
  BY DEF TypeOK, LiveIsStarted, Live
<1>11. QED
  BY <1>1, <1>2, <1>3, <1>4, <1>5, <1>6, <1>7, <1>8, <1>9, <1>10 DEF Inv

(* An exit carries out the release scheduled for it and no other.          *)
LEMMA PppdExitsKeepsInv ==
    ASSUME Inv, NEW p \in Procs, PppdExits(p)
    PROVE  Inv'
<1> USE NoneAssumption DEF Inv, PppdExits, ReleasedBy
<1>1. TypeOK'
  BY DEF TypeOK, SessStates, SupStates, ProcStates, LinkStates
<1>2. LeaseExclusive'
  BY DEF TypeOK, LeaseExclusive
<1>3. ReleaseScheduled'
  BY DEF TypeOK, ReleaseScheduled, Live, NoSession, IsCurrent,
         LiveIsStarted
<1>4. UnsupervisedIsSignalled'
  BY DEF TypeOK, UnsupervisedIsSignalled, IsCurrent, LiveIsStarted, Live
<1>5. NoSession'
  BY DEF TypeOK, NoSession
<1>6. LeaseInPool'
  BY DEF TypeOK, LeaseInPool, ReleaseScheduled, NoSession, LiveIsStarted,
         Live
<1>7. AwaitedIsOwn'
  BY DEF TypeOK, AwaitedIsOwn
<1>8. CurrentIsAwaited'
  BY DEF TypeOK, CurrentIsAwaited, NoSession, AwaitedIsOwn, IsCurrent,
         LiveIsStarted, Live
<1>9. PendingAddress'
  BY DEF TypeOK, ReleaseScheduled, PendingAddress
<1>10. LiveIsStarted'
  BY DEF TypeOK, LiveIsStarted, Live
<1>11. QED
  BY <1>1, <1>2, <1>3, <1>4, <1>5, <1>6, <1>7, <1>8, <1>9, <1>10 DEF Inv

(* A hook event changes the two states of its call only.                   *)
LEMMA HookEventKeepsInv ==
    ASSUME Inv, NEW p \in Procs, NEW t \in Procs, NEW s \in LinkStates, HookEvent(p, t, s)
    PROVE  Inv'
<1> USE NoneAssumption DEF Inv, HookEvent, TokenAccepted, AcceptEvent, os
<1>1. TypeOK'
  BY DEF TypeOK, SessStates, SupStates, ProcStates, LinkStates
<1>2. LeaseExclusive'
  BY DEF TypeOK, LeaseExclusive
<1>3. ReleaseScheduled'
  BY DEF TypeOK, ReleaseScheduled, Live, NoSession
<1>4. UnsupervisedIsSignalled'
  BY DEF TypeOK, UnsupervisedIsSignalled, IsCurrent
<1>5. NoSession'
  BY DEF TypeOK, NoSession, LinkStates
<1>6. LeaseInPool'
  BY DEF TypeOK, LeaseInPool
<1>7. AwaitedIsOwn'
  BY DEF TypeOK, AwaitedIsOwn
<1>8. CurrentIsAwaited'
  BY DEF TypeOK, CurrentIsAwaited, NoSession, AwaitedIsOwn
<1>9. PendingAddress'
  BY DEF TypeOK, ReleaseScheduled, PendingAddress
<1>10. LiveIsStarted'
  BY DEF TypeOK, LiveIsStarted, Live
<1>11. QED
  BY <1>1, <1>2, <1>3, <1>4, <1>5, <1>6, <1>7, <1>8, <1>9, <1>10 DEF Inv

(* Every step of the specification, or none, keeps the inductive invariant. *)
LEMMA NextKeepsInv == Inv /\ [Next]_vars => Inv'
<1> SUFFICES ASSUME Inv, [Next]_vars PROVE Inv'
  OBVIOUS
<1>1. CASE \E c \in Calls : CallNext(c)
  <2> PICK c \in Calls : CallNext(c)
    BY <1>1
  <2>1. CASE Begin(c)
    BY <2>1, BeginKeepsInv
  <2>2. CASE \E valid \in BOOLEAN : Authenticate(c, valid)
    BY <2>2, AuthenticateKeepsInv
  <2>3. CASE \E p \in Procs, spawned \in BOOLEAN : StartPppd(c, p, spawned)
    BY <2>3, StartPppdKeepsInv
  <2>4. CASE \E wrote \in BOOLEAN : StartPppdThrows(c, wrote)
    BY <2>4, StartPppdThrowsKeepsInv
  <2>5. CASE StopPppd(c)
    BY <2>5, StopPppdKeepsInv
  <2>6. CASE Terminate(c)
    BY <2>6, TerminateKeepsInv
  <2>7. QED
    BY <2>1, <2>2, <2>3, <2>4, <2>5, <2>6 DEF CallNext
<1>2. CASE \E p \in Procs : ProcNext(p)
  BY <1>2, PppdNotifiesKeepsInv, PppdExitsKeepsInv DEF ProcNext
<1>3. CASE \E p, t \in Procs, state \in LinkStates : HookEvent(p, t, state)
  BY <1>3, HookEventKeepsInv
<1>4. CASE UNCHANGED vars
  BY <1>4
     DEF vars, ctl, sup, os, Inv, TypeOK, LeaseExclusive, ReleaseScheduled,
         UnsupervisedIsSignalled, NoSession, LeaseInPool, AwaitedIsOwn,
         CurrentIsAwaited, PendingAddress, LiveIsStarted, Live, IsCurrent
<1>5. QED
  BY <1>1, <1>2, <1>3, <1>4 DEF Next, Core

(* The inductive invariant holds in every reachable state.                 *)
LEMMA InvHolds == Spec => []Inv
BY InitInv, NextKeepsInv, PTL DEF Spec
----------------------------------------------------------------------------
(* The variables of controller, pool, supervisor and processes keep their  *)
(* types: no lease is outside the pool's range, no state is unknown.       *)
THEOREM TypeCorrect == Spec => []TypeOK
<1>1. Inv => TypeOK
  BY DEF Inv
<1>2. QED
  BY <1>1, InvHolds, PTL

(* AddressPool never leases one address to two calls, whatever was hung    *)
(* up, replaced or failed before.                                          *)
THEOREM LeasesAreExclusive == Spec => []LeaseExclusive
<1>1. Inv => LeaseExclusive
  BY DEF Inv
<1>2. QED
  BY <1>1, InvHolds, PTL

(* The Call-IDs begin refuses are exactly those with one release pending,  *)
(* for a pppd that still lives.                                            *)
THEOREM ReleasesAreScheduled == Spec => []ReleaseScheduled
<1>1. Inv => ReleaseScheduled
  BY DEF Inv
<1>2. QED
  BY <1>1, InvHolds, PTL

(* Replacing, stopping, hanging up and failing to start leave no pppd      *)
(* running that was not sent SIGTERM.                                      *)
THEOREM UnsupervisedAreSignalled == Spec => []UnsupervisedIsSignalled
<1>1. Inv => UnsupervisedIsSignalled
  BY DEF Inv
<1>2. QED
  BY <1>1, InvHolds, PTL

(* As long as session.exited or a pending terminate refers to a living     *)
(* pppd, the address that pppd was started with stays leased to its call.  *)
THEOREM AccountableKeepsItsAddress == Spec => []AccountableKeepsAddress
<1>1. Inv => AccountableKeepsAddress
  <2> SUFFICES ASSUME Inv, NEW p \in Procs, Live(p), Accountable(p)
               PROVE  leases[procCall[p]] = procAddr[p]
    BY DEF AccountableKeepsAddress
  <2>1. procCall[p] \in Calls
    BY DEF Inv, LiveIsStarted
  <2>2. CASE exited[procCall[p]] = p
    BY <2>1, <2>2, NoneAssumption DEF Inv, AwaitedIsOwn, LeaseInPool
  <2>3. CASE <<procCall[p], p>> \in closures
    BY <2>3 DEF Inv, PendingAddress
  <2>4. QED
    BY <2>2, <2>3 DEF Accountable
<1>2. QED
  BY <1>1, InvHolds, PTL

(* So the leases are kept as long as the controller has a use for them ... *)
THEOREM LeasesStayKept == Spec => []LeasesAreKept
<1>1. LeaseExclusive /\ AccountableKeepsAddress => LeasesAreKept
  BY DEF LeasesAreKept
<1>2. QED
  BY <1>1, LeasesAreExclusive, AccountableKeepsItsAddress, PTL

(* ... and what has to end is on its way.                                  *)
THEOREM EndsStayScheduled == Spec => []EndsAreScheduled
<1>1. ReleaseScheduled /\ UnsupervisedIsSignalled => EndsAreScheduled
  BY DEF EndsAreScheduled
<1>2. QED
  BY <1>1, ReleasesAreScheduled, UnsupervisedAreSignalled, PTL

(* The exit of a pppd frees the address of its own call only, and only     *)
(* when that call has ended: the later use of a Call-ID keeps its lease.   *)
THEOREM ExitsReleaseOnlyEndedCalls == Spec => ExitReleasesOnlyEndedCall
<1> DEFINE A == \A p \in Procs : PppdExits(p) =>
                    \A c \in Calls : leases'[c] # leases[c] =>
                        procCall[p] = c /\ procAddr[p] = leases[c] /\ sess[c] = "none"
<1>1. Inv => A
  <2> SUFFICES ASSUME Inv, NEW p \in Procs, PppdExits(p),
                      NEW c \in Calls, leases'[c] # leases[c]
               PROVE  procCall[p] = c /\ procAddr[p] = leases[c] /\ sess[c] = "none"
    OBVIOUS
  <2>1. <<c, p>> \in closures
    BY DEF PppdExits, ReleasedBy
  <2>2. procCall[p] = c /\ c \in terminating /\ procAddr[p] = leases[c]
    BY <2>1 DEF Inv, ReleaseScheduled, PendingAddress
  <2>3. QED
    BY <2>2 DEF Inv, ReleaseScheduled
<1>2. QED
  BY <1>1, InvHolds, PTL DEF ExitReleasesOnlyEndedCall
----------------------------------------------------------------------------
(* One PTY per call: a start never overwrites a promise that is not yet    *)
(* resolved, so no living pppd is forgotten.                               *)
LEMMA StartForgetsNone ==
    ASSUME ReopenPty = FALSE, Inv, NoneForgotten,
           NEW c \in Calls, NEW p \in Procs, NEW spawned \in BOOLEAN,
           StartPppd(c, p, spawned)
    PROVE  NoneForgotten'
<1> SUFFICES ASSUME NEW q \in Procs, Live(q)'
             PROVE  Accountable(q)'
  BY DEF NoneForgotten
<1> USE DEF Inv, StartPppd
<1>1. CASE q = p
  BY <1>1 DEF TypeOK, Accountable
<1>2. CASE q # p
  <2>1. Live(q)
    BY <1>2 DEF TypeOK, Live, Signalled
  <2>2. Accountable(q)
    BY <2>1 DEF NoneForgotten
  <2>3. procCall'[q] = procCall[q] /\ closures' = closures
    BY <1>2 DEF TypeOK
  <2>4. exited[procCall[q]] = q => procCall[q] # c
    BY NoneAssumption DEF PtyMayOpen
  <2>5. exited[procCall[q]] = q => exited'[procCall[q]] = q
    BY <2>1, <2>4 DEF TypeOK, LiveIsStarted
  <2>6. QED
    BY <2>2, <2>3, <2>5 DEF Accountable
<1>3. QED
  BY <1>1, <1>2

(* What a step may change without forgetting a living process.             *)
LEMMA OthersForgetNone ==
    ASSUME NoneForgotten,
           \A q \in Procs : Live(q)' => Live(q),
           procCall' = procCall,
           \A q \in Procs : Live(q)' /\ Accountable(q) => Accountable(q)'
    PROVE  NoneForgotten'
BY DEF NoneForgotten

(* terminate keeps accounting for the process of the session it removes.   *)
LEMMA TerminateForgetsNone ==
    ASSUME Inv, NoneForgotten, NEW c \in Calls, Terminate(c)
    PROVE  NoneForgotten'
<1> USE DEF Inv, Terminate
<1>1. \A q \in Procs : Live(q)' => Live(q)
  BY DEF TypeOK, Live, Signalled
<1>2. ASSUME NEW q \in Procs, Live(q)', Accountable(q)
      PROVE  Accountable(q)'
  <2>1. Live(q)
    BY <1>1, <1>2
  <2>2. CASE <<procCall[q], q>> \in closures
    BY <2>2 DEF Accountable
  <2>3. CASE exited[procCall[q]] = q /\ procCall[q] # c
    BY <2>3 DEF Accountable, TypeOK
  <2>4. CASE exited[procCall[q]] = q /\ procCall[q] = c
    <3>1. Awaits(c) = q /\ q # None
      BY <2>1, <2>4, NoneAssumption DEF Awaits, Live, Resolved
    <3>2. QED
      BY <2>4, <3>1 DEF Accountable
  <2>5. QED
    BY <1>2, <2>2, <2>3, <2>4 DEF Accountable
<1>3. QED
  BY <1>1, <1>2, OthersForgetNone

(* The exit of one process leaves the others accounted for.                *)
LEMMA ExitForgetsNone ==
    ASSUME Inv, NoneForgotten, NEW p \in Procs, PppdExits(p)
    PROVE  NoneForgotten'
<1> USE DEF Inv, PppdExits
<1>1. \A q \in Procs : Live(q)' => Live(q) /\ q # p
  BY DEF TypeOK, Live
<1>2. \A q \in Procs : Live(q)' /\ Accountable(q) => Accountable(q)'
  BY <1>1 DEF Accountable
<1>3. QED
  BY <1>1, <1>2, OthersForgetNone

(* begin makes a session where there was none, so it overwrites nothing.   *)
LEMMA BeginForgetsNone ==
    ASSUME Inv, NoneForgotten, NEW c \in Calls, Begin(c)
    PROVE  NoneForgotten'
<1>1. exited' = exited
  BY DEF Inv, TypeOK, NoSession, Begin
<1>2. QED
  BY <1>1 DEF NoneForgotten, Begin, Live, Accountable, os

(* The steps that touch neither promises nor processes' calls.             *)
LEMMA QuietForgetsNone ==
    ASSUME Inv, NoneForgotten,
           proc' = proc \/ (\E c \in Calls : proc' = Signalled(c)),
           UNCHANGED <<exited, closures, procCall>>
    PROVE  NoneForgotten'
<1>1. \A q \in Procs : Live(q)' => Live(q)
  BY DEF Inv, TypeOK, Live, Signalled
<1>2. \A q \in Procs : Accountable(q) => Accountable(q)'
  BY DEF Accountable
<1>3. QED
  BY <1>1, <1>2, OthersForgetNone

(* With one PTY per call, every living pppd stays accounted for.           *)
LEMMA NextForgetsNone ==
    ASSUME ReopenPty = FALSE
    PROVE  Inv /\ NoneForgotten /\ [Next]_vars => NoneForgotten'
<1> SUFFICES ASSUME Inv, NoneForgotten, [Next]_vars PROVE NoneForgotten'
  OBVIOUS
<1>1. CASE \E c \in Calls : CallNext(c)
  <2> PICK c \in Calls : CallNext(c)
    BY <1>1
  <2>1. CASE Begin(c)
    BY <2>1, BeginForgetsNone
  <2>2. CASE \E valid \in BOOLEAN : Authenticate(c, valid)
    BY <2>2, QuietForgetsNone DEF Authenticate, os
  <2>3. CASE \E p \in Procs, spawned \in BOOLEAN : StartPppd(c, p, spawned)
    BY <2>3, StartForgetsNone
  <2>4. CASE \E wrote \in BOOLEAN : StartPppdThrows(c, wrote)
    BY <2>4, QuietForgetsNone DEF StartPppdThrows
  <2>5. CASE StopPppd(c)
    BY <2>5, QuietForgetsNone DEF StopPppd, ctl
  <2>6. CASE Terminate(c)
    BY <2>6, TerminateForgetsNone
  <2>7. QED
    BY <2>1, <2>2, <2>3, <2>4, <2>5, <2>6 DEF CallNext
<1>2. CASE \E p \in Procs : ProcNext(p)
  <2> PICK p \in Procs : ProcNext(p)
    BY <1>2
  <2>1. CASE \E state \in LinkStates : PppdNotifies(p, state)
    BY <2>1, QuietForgetsNone DEF PppdNotifies, os
  <2>2. CASE PppdExits(p)
    BY <2>2, ExitForgetsNone
  <2>3. QED
    BY <2>1, <2>2 DEF ProcNext
<1>3. CASE \E p, t \in Procs, state \in LinkStates : HookEvent(p, t, state)
  BY <1>3, QuietForgetsNone DEF HookEvent, os
<1>4. CASE UNCHANGED vars
  BY <1>4, QuietForgetsNone DEF vars, ctl, os
<1>5. QED
  BY <1>1, <1>2, <1>3, <1>4 DEF Next, Core

(* Nothing lives at the start.                                             *)
LEMMA InitForgetsNone == Init => NoneForgotten
BY DEF Init, NoneForgotten, Live

(* When modems open one PTY per call, a client address stays leased to its *)
(* call until the pppd that uses it has exited, so SIGTERM frees nothing.  *)
THEOREM AddressesHeldUntilExit ==
    ASSUME ReopenPty = FALSE
    PROVE  Spec => []AddressHeldUntilExit
<1>1. Inv /\ NoneForgotten /\ [Next]_vars => NoneForgotten'
  BY NextForgetsNone
<1>2. Inv /\ NoneForgotten => AddressHeldUntilExit
  BY NoneAssumption
     DEF NoneForgotten, AddressHeldUntilExit, Accountable, Inv, LiveIsStarted,
         AwaitedIsOwn, LeaseInPool, PendingAddress
<1>3. QED
  BY <1>1, <1>2, InitForgetsNone, InvHolds, PTL DEF Spec

(* And no two live pppds of different calls have the same client address.  *)
THEOREM LiveAddressesAreUnique ==
    ASSUME ReopenPty = FALSE
    PROVE  Spec => []UniqueLiveAddress
<1>1. Inv /\ AddressHeldUntilExit => UniqueLiveAddress
  BY NoneAssumption
     DEF Inv, AddressHeldUntilExit, UniqueLiveAddress, LeaseExclusive,
         LiveIsStarted, Addr
<1>2. QED
  BY <1>1, AddressesHeldUntilExit, InvHolds, PTL
----------------------------------------------------------------------------
(* A call has at most one living pppd the controller knows of.             *)
LEMMA OneAccountable ==
    ASSUME Inv, NEW p \in Procs, NEW q \in Procs,
           Live(p), Live(q), Accountable(p), Accountable(q),
           procCall[p] = procCall[q]
    PROVE  p = q
<1> DEFINE c == procCall[p]
<1>1. c \in Calls
  BY DEF Inv, LiveIsStarted
<1>2. CASE exited[c] = p \/ exited[c] = q
  <2>1. sess[c] # "none"
    BY <1>1, <1>2, NoneAssumption DEF Inv, NoSession
  <2>2. <<c, p>> \notin closures /\ <<c, q>> \notin closures
    BY <2>1 DEF Inv, ReleaseScheduled
  <2>3. QED
    BY <2>2 DEF Accountable
<1>3. CASE exited[c] # p /\ exited[c] # q
  <2>1. <<c, p>> \in closures /\ <<c, q>> \in closures
    BY <1>3 DEF Accountable
  <2>2. PICK r \in Procs : closures \cap ({c} \X Procs) = {<<c, r>>}
    BY <2>1 DEF Inv, ReleaseScheduled
  <2>3. <<c, p>> = <<c, r>> /\ <<c, q>> = <<c, r>>
    BY <2>1, <2>2
  <2>4. QED
    BY <2>3
<1>4. QED
  BY <1>2, <1>3

(* Who uses the pool is unchanged by a step that leaves promises, pending  *)
(* releases and the set of living processes alone.                         *)
LEMMA SameUsers ==
    ASSUME \A p \in Procs : Live(p)' <=> Live(p),
           UNCHANGED <<exited, closures, procCall>>
    PROVE  PppdUsers' = PppdUsers
BY DEF PppdUsers, Accountable

(* A signalled process lives on.                                           *)
LEMMA SignalledLives ==
    ASSUME Inv, NEW c \in Calls, proc' = Signalled(c)
    PROVE  \A p \in Procs : Live(p)' <=> Live(p)
BY DEF Inv, TypeOK, Live, Signalled

(* A new lease of an unheld address is the pool's Acquire, another stutters. *)
LEMMA LeaseRefines ==
    ASSUME Inv, NEW c \in Calls, NEW a \in LeaseFor(c),
           leases' = [leases EXCEPT ![c] = a],
           PppdUsers' \in {PppdUsers, PppdUsers \cup {c}}
    PROVE  [Pool!Next]_(Pool!poolVars)
<1> USE DEF Inv, TypeOK
<1>1. CASE leases[c] # None
  <2>1. leases' = leases
    BY <1>1 DEF LeaseFor
  <2>2. CASE PppdUsers' = PppdUsers
    BY <2>1, <2>2 DEF Pool!poolVars
  <2>3. CASE PppdUsers' = PppdUsers \cup {c}
    <3>1. Pool!Use(c)
      BY <1>1, <2>1, <2>3 DEF Pool!Use
    <3>2. QED
      BY <3>1 DEF Pool!Next
  <2>4. QED
    BY <2>2, <2>3
<1>2. CASE leases[c] = None
  <2>1. a \in Free
    BY <1>2 DEF LeaseFor, Lowest
  <2>2. Pool!Acquire(c, a) /\ a \in Addr
    BY <1>2, <2>1 DEF Pool!Acquire, Free
  <2>3. QED
    BY <2>2 DEF Pool!Next
<1>3. QED
  BY <1>1, <1>2

(* The pool's part of a start: the session's lease, or a new one.          *)
LEMMA KeepLeaseRefines ==
    ASSUME Inv, NEW c \in Calls, NEW a \in AddressFor(c), KeepLease(c, a),
           PppdUsers' \in {PppdUsers, PppdUsers \cup {c}}
    PROVE  [Pool!Next]_(Pool!poolVars)
<1>1. CASE lease[c] # None
  <2>1. leases[c] # None /\ a \in LeaseFor(c) /\ leases' = [leases EXCEPT ![c] = a]
    BY <1>1 DEF AddressFor, KeepLease, Inv, TypeOK, LeaseInPool, LeaseFor
  <2>2. QED
    BY <2>1, LeaseRefines
<1>2. CASE lease[c] = None
  <2>1. a \in LeaseFor(c) /\ leases' = [leases EXCEPT ![c] = a]
    BY <1>2 DEF AddressFor, KeepLease
  <2>2. QED
    BY <2>1, LeaseRefines
<1>3. QED
  BY <1>1, <1>2

(* startPppd is the pool's Acquire or Use by the call, or, when the spawn  *)
(* fails after an earlier pppd of the call was forgotten, its Finish.      *)
LEMMA StartRefines ==
    ASSUME Inv, NEW c \in Calls, NEW p \in Procs, NEW spawned \in BOOLEAN,
           StartPppd(c, p, spawned)
    PROVE  [Pool!Next]_(Pool!poolVars)
<1> USE DEF Inv, TypeOK
<1>1. PICK a \in AddressFor(c) : KeepLease(c, a)
  BY DEF StartPppd
<1>2. \A q \in Procs : q # p => (Live(q)' <=> Live(q)) /\ procCall'[q] = procCall[q]
  BY DEF StartPppd, Live, Signalled
<1>3. ~Live(p) /\ (Live(p)' <=> spawned) /\ procCall'[p] = c
  BY DEF StartPppd, Live, Signalled
<1>4. \A t \in closures : t[1] # c /\ t[2] # p
  BY <1>3 DEF StartPppd, PtyMayOpen, ReleaseScheduled
<1>5. \A d \in Calls \ {c} : d \in PppdUsers' <=> d \in PppdUsers
  <2> TAKE d \in Calls \ {c}
  <2>1. exited'[d] = exited[d] /\ closures' = closures
    BY DEF StartPppd
  <2>2. ASSUME NEW q \in Procs
        PROVE  Live(q)' /\ procCall'[q] = d /\ Accountable(q)'
                 <=> Live(q) /\ procCall[q] = d /\ Accountable(q)
    <3>1. CASE q = p
      BY <1>3, <3>1
    <3>2. CASE q # p
      BY <1>2, <2>1, <3>2 DEF Accountable
    <3>3. QED
      BY <3>1, <3>2
  <2>3. QED
    BY <2>2 DEF PppdUsers
<1>6. CASE spawned
  <2>1. Accountable(p)'
    BY <1>3 DEF Accountable, StartPppd
  <2>2. c \in PppdUsers'
    BY <1>3, <1>6, <2>1 DEF PppdUsers
  <2>3. PppdUsers' = PppdUsers \cup {c}
    BY <1>5, <2>2 DEF PppdUsers
  <2>4. QED
    BY <1>1, <2>3, KeepLeaseRefines
<1>7. CASE ~spawned
  <2>1. c \notin PppdUsers'
    <3> SUFFICES ASSUME NEW q \in Procs, Live(q)', procCall'[q] = c, Accountable(q)'
                 PROVE  FALSE
      BY DEF PppdUsers
    <3>1. q # p
      BY <1>3, <1>7
    <3>2. exited'[c] = p /\ closures' = closures
      BY DEF StartPppd
    <3>3. <<c, q>> \in closures
      BY <3>1, <3>2 DEF Accountable
    <3>4. QED
      BY <1>4, <3>3
  <2>2. PppdUsers' = PppdUsers \ {c}
    BY <1>5, <2>1 DEF PppdUsers
  <2>3. CASE c \notin PppdUsers
    BY <1>1, <2>2, <2>3, KeepLeaseRefines
  <2>4. CASE c \in PppdUsers
    <3>1. PICK q \in Procs : Live(q) /\ procCall[q] = c /\ Accountable(q)
      BY <2>4 DEF PppdUsers
    <3>2. exited[c] = q
      BY <1>4, <3>1 DEF Accountable
    <3>3. lease[c] # None
      BY <3>2, NoneAssumption DEF AwaitedIsOwn
    <3>4. leases' = leases
      BY <1>1, <3>3 DEF KeepLease
    <3>5. Pool!Finish(c)
      BY <2>2, <2>4, <3>4 DEF Pool!Finish
    <3>6. QED
      BY <3>5 DEF Pool!Next
  <2>5. QED
    BY <2>3, <2>4
<1>8. QED
  BY <1>6, <1>7

(* terminate releases the address at once only when no living pppd that    *)
(* the controller knows of uses it.                                        *)
LEMMA TerminateRefines ==
    ASSUME Inv, NEW c \in Calls, Terminate(c)
    PROVE  [Pool!Next]_(Pool!poolVars)
<1> USE DEF Inv, TypeOK
<1>1. \A q \in Procs : Live(q)' <=> Live(q)
  BY SignalledLives DEF Terminate
<1>2. \A t \in closures : t[1] # c
  BY DEF Terminate, ReleaseScheduled
<1>3. procCall' = procCall /\ exited' = [exited EXCEPT ![c] = None]
  BY DEF Terminate
<1>4. CASE Awaits(c) # None
  <2>1. leases' = leases /\ closures' = closures \cup {<<c, exited[c]>>}
    BY <1>4 DEF Terminate, Awaits
  <2>2. \A q \in Procs : Accountable(q)' <=> Accountable(q)
    <3> SUFFICES ASSUME NEW q \in Procs PROVE Accountable(q)' <=> Accountable(q)
      OBVIOUS
    <3>1. exited[c] \in Procs /\ procCall[exited[c]] = c
      BY <1>4, NoneAssumption DEF Awaits, AwaitedIsOwn
    <3>2. <<procCall[q], q>> \in closures' <=>
             <<procCall[q], q>> \in closures \/ q = exited[c]
      BY <2>1, <3>1
    <3>3. q # None
      BY NoneAssumption
    <3>4. CASE procCall[q] = c
      BY <1>2, <1>3, <3>2, <3>3, <3>4 DEF Accountable
    <3>5. CASE procCall[q] # c
      BY <1>3, <3>1, <3>2, <3>5 DEF Accountable
    <3>6. QED
      BY <3>4, <3>5
  <2>3. PppdUsers' = PppdUsers
    BY <1>1, <1>3, <2>2 DEF PppdUsers
  <2>4. QED
    BY <2>1, <2>3 DEF Pool!poolVars
<1>5. CASE Awaits(c) = None
  <2>1. leases' = [leases EXCEPT ![c] = None] /\ closures' = closures
    BY <1>5 DEF Terminate
  <2>2. c \notin PppdUsers
    <3> SUFFICES ASSUME NEW q \in Procs, Live(q), procCall[q] = c, Accountable(q)
                 PROVE  FALSE
      BY DEF PppdUsers
    <3>1. exited[c] = q
      BY <1>2 DEF Accountable
    <3>2. QED
      BY <1>5, <3>1, NoneAssumption DEF Awaits, Resolved, Live
  <2>3. PppdUsers' = PppdUsers
    <3>1. ASSUME NEW q \in Procs, procCall[q] # c
          PROVE  Accountable(q)' <=> Accountable(q)
      BY <1>3, <2>1, <3>1 DEF Accountable
    <3>2. ASSUME NEW q \in Procs, procCall[q] = c
          PROVE  ~Accountable(q)'
      BY <1>2, <1>3, <2>1, <3>2, NoneAssumption DEF Accountable
    <3>3. QED
      BY <1>1, <1>3, <2>2, <3>1, <3>2 DEF PppdUsers
  <2>4. CASE leases[c] = None
    BY <2>1, <2>3, <2>4 DEF Pool!poolVars
  <2>5. CASE leases[c] # None
    <3>1. Pool!Release(c)
      BY <2>1, <2>2, <2>3, <2>5 DEF Pool!Release
    <3>2. QED
      BY <3>1 DEF Pool!Next
  <2>6. QED
    BY <2>4, <2>5
<1>6. QED
  BY <1>4, <1>5

(* The exit of a pppd the controller knows of ends its call's use of the   *)
(* address; the exit of another changes nothing in the pool.               *)
LEMMA ExitRefines ==
    ASSUME Inv, NEW p \in Procs, PppdExits(p)
    PROVE  [Pool!Next]_(Pool!poolVars)
<1> USE DEF Inv, TypeOK
<1> DEFINE c == procCall[p]
<1>1. Live(p) /\ c \in Calls
  BY DEF PppdExits, LiveIsStarted
<1>2. \A q \in Procs : Live(q)' <=> Live(q) /\ q # p
  BY DEF PppdExits, Live
<1>3. procCall' = procCall /\ exited' = exited
  BY DEF PppdExits
<1>4. \A q \in Procs : q # p => (Accountable(q)' <=> Accountable(q))
  BY <1>3 DEF Accountable, PppdExits
<1>5. CASE Accountable(p)
  <2>1. PppdUsers' = PppdUsers \ {c}
    <3>1. c \notin PppdUsers'
      <4> SUFFICES ASSUME NEW q \in Procs, Live(q)', procCall'[q] = c, Accountable(q)'
                   PROVE  FALSE
        BY DEF PppdUsers
      <4>1. q # p /\ Live(q) /\ Accountable(q) /\ procCall[q] = c
        BY <1>2, <1>3, <1>4
      <4>2. QED
        BY <1>1, <1>5, <4>1, OneAccountable
    <3>2. \A d \in Calls : d # c => (d \in PppdUsers' <=> d \in PppdUsers)
      BY <1>2, <1>3, <1>4 DEF PppdUsers
    <3>3. QED
      BY <3>1, <3>2 DEF PppdUsers
  <2>2. c \in PppdUsers
    BY <1>1, <1>5 DEF PppdUsers
  <2>3. \A d \in Calls : <<d, p>> \in closures => d = c
    BY DEF ReleaseScheduled
  <2>4. leases' \in {leases, [leases EXCEPT ![c] = None]}
    BY <1>1, <2>3 DEF PppdExits, ReleasedBy
  <2>5. Pool!Finish(c)
    BY <2>1, <2>2, <2>4 DEF Pool!Finish
  <2>6. QED
    BY <1>1, <2>5 DEF Pool!Next
<1>6. CASE ~Accountable(p)
  <2>1. PppdUsers' = PppdUsers
    BY <1>2, <1>3, <1>4, <1>6 DEF PppdUsers
  <2>2. ReleasedBy(p) = {}
    BY <1>6 DEF Accountable, ReleasedBy, ReleaseScheduled
  <2>3. leases' = leases
    BY <2>2 DEF PppdExits
  <2>4. QED
    BY <2>1, <2>3 DEF Pool!poolVars
<1>7. QED
  BY <1>5, <1>6

(* Steps that neither lease, release, start nor end anything stutter.      *)
LEMMA QuietRefines ==
    ASSUME Inv, proc' = proc \/ (\E c \in Calls : proc' = Signalled(c)),
           UNCHANGED <<leases, exited, closures, procCall>>
    PROVE  [Pool!Next]_(Pool!poolVars)
<1>1. \A p \in Procs : Live(p)' <=> Live(p)
  BY SignalledLives DEF Live
<1>2. PppdUsers' = PppdUsers
  BY <1>1, SameUsers
<1>3. QED
  BY <1>2 DEF Pool!poolVars

(* Every step of the PPP side is a step of ExclusivePool or a stutter.     *)
LEMMA NextRefines == Inv /\ [Next]_vars => [Pool!Next]_(Pool!poolVars)
<1> SUFFICES ASSUME Inv, [Next]_vars PROVE [Pool!Next]_(Pool!poolVars)
  OBVIOUS
<1>1. CASE \E c \in Calls : CallNext(c)
  <2> PICK c \in Calls : CallNext(c)
    BY <1>1
  <2>1. CASE Begin(c)
    <3>1. exited' = exited
      BY <2>1 DEF Inv, TypeOK, NoSession, Begin
    <3>2. QED
      BY <2>1, <3>1, QuietRefines DEF Begin, os
  <2>2. CASE \E valid \in BOOLEAN : Authenticate(c, valid)
    <3> PICK valid \in BOOLEAN : Authenticate(c, valid)
      BY <2>2
    <3>1. CASE leases' = leases
      BY <3>1, QuietRefines DEF Authenticate, os
    <3>2. CASE \E a \in LeaseFor(c) : leases' = [leases EXCEPT ![c] = a]
      <4>1. PppdUsers' = PppdUsers
        BY SameUsers DEF Authenticate, os, Live
      <4>2. QED
        BY <3>2, <4>1, LeaseRefines
    <3>3. QED
      BY <3>1, <3>2 DEF Authenticate
  <2>3. CASE \E p \in Procs, spawned \in BOOLEAN : StartPppd(c, p, spawned)
    BY <2>3, StartRefines
  <2>4. CASE \E wrote \in BOOLEAN : StartPppdThrows(c, wrote)
    <3>1. \A p \in Procs : Live(p)' <=> Live(p)
      BY <2>4, SignalledLives DEF StartPppdThrows
    <3>2. PppdUsers' = PppdUsers
      BY <2>4, <3>1, SameUsers DEF StartPppdThrows
    <3>3. QED
      BY <2>4, <3>2, KeepLeaseRefines DEF StartPppdThrows
  <2>5. CASE StopPppd(c)
    BY <2>5, QuietRefines DEF StopPppd, ctl
  <2>6. CASE Terminate(c)
    BY <2>6, TerminateRefines
  <2>7. QED
    BY <2>1, <2>2, <2>3, <2>4, <2>5, <2>6 DEF CallNext
<1>2. CASE \E p \in Procs : ProcNext(p)
  <2> PICK p \in Procs : ProcNext(p)
    BY <1>2
  <2>1. CASE \E state \in LinkStates : PppdNotifies(p, state)
    BY <2>1, QuietRefines DEF PppdNotifies, os
  <2>2. CASE PppdExits(p)
    BY <2>2, ExitRefines
  <2>3. QED
    BY <2>1, <2>2 DEF ProcNext
<1>3. CASE \E p, t \in Procs, state \in LinkStates : HookEvent(p, t, state)
  BY <1>3, QuietRefines DEF HookEvent, os
<1>4. CASE UNCHANGED vars
  BY <1>4, QuietRefines DEF vars, ctl, os
<1>5. QED
  BY <1>1, <1>2, <1>3, <1>4 DEF Next, Core

(* AddressPool, used by the living pppds the controller knows of, keeps    *)
(* the promise of ExclusivePool: an address has one holder, and goes back  *)
(* only when that call's pppd has exited.                                  *)
THEOREM RefinesExclusivePool == Spec => PoolSpec
<1>1. Init => Pool!Init
  BY DEF Init, Pool!Init, PppdUsers, Live
<1>2. Inv /\ [Next]_vars => [Pool!Next]_(Pool!poolVars)
  BY NextRefines
<1>3. QED
  BY <1>1, <1>2, InvHolds, PTL DEF Spec, PoolSpec, Pool!Spec
----------------------------------------------------------------------------
(* What the pool is worth, whatever its clients do with it.                *)
PoolInv == Pool!PoolTypeOK /\ Pool!Exclusive /\ Pool!UsedIsHeld

(* Nobody holds or uses anything at first.                                 *)
LEMMA InitPoolInv == Pool!Init => PoolInv
BY DEF Pool!Init, PoolInv, Pool!PoolTypeOK, Pool!Exclusive, Pool!UsedIsHeld

(* An item is given only when nobody holds it, and taken back only when    *)
(* its holder does not use it.                                             *)
LEMMA NextPoolInv == PoolInv /\ [Pool!Next]_(Pool!poolVars) => PoolInv'
<1> SUFFICES ASSUME PoolInv, [Pool!Next]_(Pool!poolVars) PROVE PoolInv'
  OBVIOUS
<1> USE DEF PoolInv, Pool!PoolTypeOK, Pool!Exclusive, Pool!UsedIsHeld
<1>1. CASE Pool!Next
  <2> PICK c \in Calls : \/ \E i \in Addr : Pool!Acquire(c, i)
                         \/ Pool!Use(c)
                         \/ Pool!Finish(c)
                         \/ Pool!Release(c)
    BY <1>1 DEF Pool!Next
  <2>1. CASE \E i \in Addr : Pool!Acquire(c, i)
    BY <2>1, NoneAssumption DEF Pool!Acquire
  <2>2. CASE Pool!Use(c)
    BY <2>2 DEF Pool!Use
  <2>3. CASE Pool!Finish(c)
    BY <2>3 DEF Pool!Finish
  <2>4. CASE Pool!Release(c)
    BY <2>4 DEF Pool!Release
  <2>5. QED
    BY <2>1, <2>2, <2>3, <2>4
<1>2. CASE UNCHANGED Pool!poolVars
  BY <1>2 DEF Pool!poolVars
<1>3. QED
  BY <1>1, <1>2

(* So no call's pppd that the controller knows of uses an address that is  *)
(* not leased to the call, or that another call has.                       *)
THEOREM UsersHaveTheirAddress == Spec => [](Pool!Exclusive /\ Pool!UsedIsHeld)
<1>1. PoolInv => Pool!Exclusive /\ Pool!UsedIsHeld
  BY DEF PoolInv
<1>2. PoolSpec => [](Pool!Exclusive /\ Pool!UsedIsHeld)
  BY <1>1, InitPoolInv, NextPoolInv, PTL DEF PoolSpec, Pool!Spec
<1>3. QED
  BY <1>2, RefinesExclusivePool, PTL
----------------------------------------------------------------------------
(* Hooks run one at a time, and the processes of a Call-ID whose links are *)
(* up take turns: a second ip-up gives up until the first link's ip-down.  *)
Running == {"up-run", "down-run"}
Holding == Running \cup {"installed", "down-wait"}

HooksTakeTurns ==
    \A p, q \in Procs : p # q =>
        /\ hook[p] \in Running => hook[q] \notin Running
        /\ hook[p] \in Holding /\ procCall[q] = procCall[p] => hook[q] \notin Holding

(* Processes were started for a call, and hooks are those of processes     *)
(* that were started.                                                      *)
HooksOfPppds ==
    \A p \in Procs : /\ hook[p] # "none" => proc[p] # "unborn"
                     /\ proc[p] # "unborn" => procCall[p] \in Calls

(* The token in a lease file is of a process of the file's Call-ID, and so *)
(* is the one a hook has read; only a running hook has one.                *)
TokensOfCall ==
    /\ \A c \in Calls : descriptor[c] # None =>
          procCall[descriptor[c]] = c /\ proc[descriptor[c]] # "unborn"
    /\ \A p \in Procs : hookToken[p] # None =>
          /\ hook[p] \in Running
          /\ procCall[hookToken[p]] = procCall[p] /\ proc[hookToken[p]] # "unborn"

HooksInv == Inv /\ HooksTypeOK /\ HooksTakeTurns /\ HooksOfPppds /\ TokensOfCall
----------------------------------------------------------------------------
(* What a step with an ip-up or ip-down hook does to controller, pool,     *)
(* supervisor and processes is a step of PppSessions or none.              *)
LEMMA HooksStepIsStep ==
    Inv /\ HooksTypeOK /\ HooksOfPppds /\ [HooksNext]_allVars => [Next]_vars
<1> SUFFICES ASSUME Inv, HooksTypeOK, HooksOfPppds, [HooksNext]_allVars PROVE [Next]_vars
  OBVIOUS
<1>1. CASE Core /\ UNCHANGED hooks
  BY <1>1 DEF Next
<1>2. ASSUME NEW p \in Procs, LinkUp(p) \/ LinkDown(p) \/ HookReads(p) PROVE [Next]_vars
  BY <1>2 DEF LinkUp, LinkDown, HookReads
<1>3. ASSUME NEW p \in Procs, NEW delivered \in BOOLEAN, HookPosts(p, delivered)
      PROVE  [Next]_vars
  <2>1. CASE delivered /\ TokenAccepted(p, hookToken[p])
    <3> DEFINE state == IF hook[p] = "up-run" THEN "ipcp-open" ELSE "ipcp-closed"
    <3>1. hookToken[p] \in Procs
      <4>1. procCall[p] \in Calls
        BY <1>3 DEF HooksOfPppds, HookPosts
      <4>2. current[procCall[p]] \in Procs \cup {None}
        BY <4>1 DEF Inv, TypeOK
      <4> QED BY <2>1, <4>2 DEF TokenAccepted
    <3>2. state \in LinkStates
      BY DEF LinkStates
    <3>3. HookEvent(p, hookToken[p], state)
      BY <1>3, <2>1 DEF HookPosts
    <3> HIDE DEF state
    <3> QED BY <3>1, <3>2, <3>3 DEF Next
  <2>2. CASE ~(delivered /\ TokenAccepted(p, hookToken[p]))
    BY <1>3, <2>2 DEF HookPosts
  <2> QED BY <2>1, <2>2
<1>4. CASE UNCHANGED allVars
  BY <1>4 DEF allVars
<1> QED BY <1>1, <1>2, <1>3, <1>4 DEF HooksNext

(* A step of the sessions starts a process at most: what is known of       *)
(* earlier ones stays so, none of them becomes a current one, and a lease  *)
(* file has no token but of its Call-ID's processes.                       *)
StartsAreNew ==
    /\ \A p \in Procs : proc[p] # "unborn" => proc'[p] # "unborn" /\ procCall'[p] = procCall[p]
    /\ \A p \in Procs : proc'[p] # "unborn" => procCall'[p] \in Calls
    /\ \A c \in Calls : current'[c] \notin {current[c], None} => proc[current'[c]] = "unborn"
    /\ \A c \in Calls : descriptor'[c] # None =>
          procCall'[descriptor'[c]] = c /\ proc'[descriptor'[c]] # "unborn"

(* A step that starts none.                                                *)
LEMMA NoStartIsNew ==
    ASSUME HooksInv, UNCHANGED <<descriptor, procCall>>,
           \A p \in Procs : proc'[p] # "unborn" <=> proc[p] # "unborn",
           \A c \in Calls : current'[c] \in {current[c], None}
    PROVE  StartsAreNew
<1>1. \A c \in Calls : descriptor[c] \in Procs \cup {None}
  BY DEF HooksInv, Inv, TypeOK
<1> QED BY <1>1 DEF HooksInv, HooksOfPppds, TokensOfCall, StartsAreNew

(* Each kind of step.                                                      *)
LEMMA StartsStayNew == ASSUME HooksInv, [Next]_vars PROVE StartsAreNew
<1> USE DEF HooksInv, Inv, TypeOK, ctl, sup, os
<1>1. ASSUME NEW c \in Calls, Begin(c) \/ \E valid \in BOOLEAN : Authenticate(c, valid)
      PROVE  UNCHANGED <<descriptor, procCall, proc, current>>
  BY <1>1 DEF Begin, Authenticate
<1>2. ASSUME NEW c \in Calls, StopPppd(c) \/ Terminate(c) PROVE StartsAreNew
  <2>1. /\ UNCHANGED <<descriptor, procCall>> /\ proc' = Signalled(c)
        /\ current' = [current EXCEPT ![c] = None]
    BY <1>2 DEF StopPppd, Terminate
  <2>2. \A p \in Procs : proc'[p] # "unborn" <=> proc[p] # "unborn"
    BY <2>1 DEF Signalled
  <2> QED BY <2>1, <2>2, NoStartIsNew
<1>3. ASSUME NEW p \in Procs, ProcNext(p) PROVE StartsAreNew
  <2>1. /\ UNCHANGED <<descriptor, procCall>>
        /\ \A q \in Procs : proc'[q] # "unborn" <=> proc[q] # "unborn"
        /\ \A c \in Calls : current'[c] \in {current[c], None}
    BY <1>3 DEF ProcNext, PppdNotifies, PppdExits, Live
  <2> QED BY <2>1, NoStartIsNew
<1>4. ASSUME NEW c \in Calls, NEW p \in Procs, NEW spawned \in BOOLEAN,
             StartPppd(c, p, spawned)
      PROVE  StartsAreNew
  <2>1. /\ proc[p] = "unborn" /\ procCall' = [procCall EXCEPT ![p] = c]
        /\ descriptor' = [descriptor EXCEPT ![c] = p] /\ current' = [current EXCEPT ![c] = p]
        /\ proc' = [Signalled(c) EXCEPT ![p] = IF spawned THEN "alive" ELSE "failed"]
    BY <1>4 DEF StartPppd
  <2>2. /\ proc'[p] # "unborn"
        /\ \A q \in Procs \ {p} : proc'[q] # "unborn" <=> proc[q] # "unborn"
    BY <2>1 DEF Signalled
  <2>3. \A q \in Procs \ {p} : procCall'[q] = procCall[q]
    BY <2>1
  <2>4. \A q \in Procs :
           proc[q] # "unborn" => proc'[q] # "unborn" /\ procCall'[q] = procCall[q]
    BY <2>1, <2>2, <2>3
  <2>5. \A q \in Procs : proc'[q] # "unborn" => procCall'[q] \in Calls
    BY <2>1, <2>2, <2>3 DEF HooksOfPppds
  <2>6. \A d \in Calls : current'[d] \notin {current[d], None} => proc[current'[d]] = "unborn"
    BY <2>1
  <2>7. \A d \in Calls : descriptor'[d] # None =>
           procCall'[descriptor'[d]] = d /\ proc'[descriptor'[d]] # "unborn"
    BY <2>1, <2>4, <2>2 DEF TokensOfCall
  <2> QED BY <2>4, <2>5, <2>6, <2>7 DEF StartsAreNew
<1>5. ASSUME NEW c \in Calls, NEW wrote \in BOOLEAN, StartPppdThrows(c, wrote)
      PROVE  StartsAreNew
  <2>1. /\ UNCHANGED procCall /\ proc' = Signalled(c)
        /\ current' = [current EXCEPT ![c] = None]
        /\ descriptor' = IF wrote THEN [descriptor EXCEPT ![c] = None] ELSE descriptor
    BY <1>5 DEF StartPppdThrows
  <2>2. \A q \in Procs : proc'[q] # "unborn" <=> proc[q] # "unborn"
    BY <2>1 DEF Signalled
  <2> QED BY <2>1, <2>2 DEF HooksOfPppds, TokensOfCall, StartsAreNew
<1>6. ASSUME NEW p \in Procs, NEW t \in Procs, NEW state \in LinkStates, HookEvent(p, t, state)
      PROVE  UNCHANGED <<descriptor, procCall, proc, current>>
  BY <1>6 DEF HookEvent
<1>7. ASSUME UNCHANGED vars PROVE UNCHANGED <<descriptor, procCall, proc, current>>
  BY <1>7 DEF vars
<1>8. ASSUME UNCHANGED <<descriptor, procCall, proc, current>> PROVE StartsAreNew
  BY <1>8, NoStartIsNew
<1>9. ASSUME NEW c \in Calls, CallNext(c) PROVE StartsAreNew
  BY <1>1, <1>2, <1>4, <1>5, <1>8, <1>9 DEF CallNext
<1> QED BY <1>3, <1>6, <1>7, <1>8, <1>9 DEF Next, Core

(* No hook has run at first.                                               *)
LEMMA HooksInitInv == HooksInit => HooksInv
<1> SUFFICES ASSUME HooksInit PROVE HooksInv
  OBVIOUS
<1>1. Inv
  BY InitInv DEF HooksInit
<1>2. HooksTypeOK /\ HooksTakeTurns /\ HooksOfPppds /\ TokensOfCall
  BY <1>1 DEF HooksInit, Init, Inv, HooksTypeOK, HookStates, HooksTakeTurns, HooksOfPppds,
              TokensOfCall, Running, Holding
<1> QED BY <1>1, <1>2 DEF HooksInv

(* No step of a hook or of the sessions breaks this.                       *)
LEMMA HooksNextInv == HooksInv /\ [HooksNext]_allVars => HooksInv'
<1> SUFFICES ASSUME HooksInv, [HooksNext]_allVars PROVE HooksInv'
  OBVIOUS
<1> USE DEF HooksInv
<1>1. Inv' /\ TypeOK'
  <2>1. Inv'
    BY HooksStepIsStep, NextKeepsInv
  <2> QED BY <2>1 DEF Inv
<1>2. CASE Core /\ UNCHANGED hooks
  <2>1. hook' = hook /\ hookToken' = hookToken
    BY <1>2 DEF hooks
  <2>2. StartsAreNew
    BY <1>2, StartsStayNew DEF Next
  <2>3. \A p \in Procs :
           proc[p] # "unborn" => proc'[p] # "unborn" /\ procCall'[p] = procCall[p]
    BY <2>2 DEF StartsAreNew
  <2>4. HooksTypeOK'
    BY <1>1, <2>1 DEF HooksTypeOK
  <2>5. HooksOfPppds'
    BY <2>1, <2>2 DEF HooksOfPppds, StartsAreNew
  <2>6. HooksTakeTurns'
    <3> SUFFICES ASSUME NEW p \in Procs, NEW q \in Procs, p # q
                 PROVE  /\ hook[p] \in Running => hook[q] \notin Running
                        /\ hook[p] \in Holding /\ procCall'[q] = procCall'[p]
                              => hook[q] \notin Holding
      BY <2>1 DEF HooksTakeTurns
    <3>1. hook[p] \in Holding /\ hook[q] \in Holding =>
             procCall'[q] = procCall[q] /\ procCall'[p] = procCall[p]
      BY <2>3 DEF HooksOfPppds, Holding, Running
    <3> QED BY <3>1 DEF HooksTakeTurns
  <2>7. TokensOfCall'
    <3> SUFFICES ASSUME NEW p \in Procs, hookToken[p] # None
                 PROVE  /\ hook[p] \in Running
                        /\ procCall'[hookToken[p]] = procCall'[p]
                        /\ proc'[hookToken[p]] # "unborn"
      BY <2>1, <2>2 DEF TokensOfCall, StartsAreNew
    <3>1. hookToken[p] \in Procs
      BY DEF HooksTypeOK
    <3>2. proc[p] # "unborn"
      BY DEF TokensOfCall, HooksOfPppds, Running
    <3> QED BY <2>3, <3>1, <3>2 DEF TokensOfCall
  <2> QED BY <1>1, <2>4, <2>5, <2>6, <2>7
<1>3. ASSUME NEW p \in Procs, LinkUp(p) \/ LinkDown(p)
      PROVE  HooksInv'
  <2>1. PICK s \in {"up-wait", "down-wait"} :
          /\ hook' = [hook EXCEPT ![p] = s]
          /\ (hook[p] = "none" /\ s = "up-wait") \/ (hook[p] = "installed" /\ s = "down-wait")
    BY <1>3 DEF LinkUp, LinkDown
  <2>2. UNCHANGED vars /\ hookToken' = hookToken /\ Live(p)
    BY <1>3 DEF LinkUp, LinkDown
  <2>3. procCall' = procCall /\ proc' = proc /\ descriptor' = descriptor
    BY <2>2 DEF vars, sup, os
  <2>4. HooksTypeOK'
    BY <1>1, <2>1, <2>2 DEF HooksTypeOK, HookStates
  <2>5. HooksOfPppds'
    BY <2>1, <2>2, <2>3 DEF HooksOfPppds, HooksTypeOK, Live, Inv, LiveIsStarted
  <2>6. (hook[p] = "none" /\ s = "up-wait") \/ (hook[p] = "installed" /\ s = "down-wait")
    BY <2>1
  <2>7. HooksTakeTurns'
    BY <2>1, <2>3, <2>6 DEF HooksTakeTurns, HooksTypeOK, Running, Holding
  <2>8. TokensOfCall'
    BY <2>1, <2>2, <2>3, <2>6 DEF TokensOfCall, HooksTypeOK, Running
  <2> QED BY <1>1, <2>4, <2>5, <2>7, <2>8
<1>4. ASSUME NEW p \in Procs, HookReads(p) PROVE HooksInv'
  <2>1. PICK s \in {"gone", "up-run", "down-run"} :
          /\ hook' = [hook EXCEPT ![p] = s]
          /\ hookToken' = [hookToken EXCEPT ![p] =
                 IF s = "gone" THEN None ELSE descriptor[procCall[p]]]
          /\ \/ hook[p] = "up-wait" /\ s = "gone"
             \/ hook[p] = "up-wait" /\ s = "up-run" /\ ~OtherActive(p)
             \/ hook[p] = "down-wait" /\ s = "down-run"
    <3>1. hook \in [Procs -> HookStates]
      BY DEF HooksTypeOK
    <3>2. CASE hook[p] = "up-wait" /\ OtherActive(p)
      <4>1. hook' = [hook EXCEPT ![p] = "gone"] /\ hookToken' = [hookToken EXCEPT ![p] = None]
        BY <1>4, <3>1, <3>2 DEF HookReads
      <4> QED BY <3>2, <4>1
    <3>3. CASE hook[p] = "up-wait" /\ ~OtherActive(p)
      <4>1. /\ hook' = [hook EXCEPT ![p] = "up-run"]
            /\ hookToken' = [hookToken EXCEPT ![p] = descriptor[procCall[p]]]
        BY <1>4, <3>1, <3>3 DEF HookReads
      <4> QED BY <3>3, <4>1
    <3>4. CASE hook[p] = "down-wait"
      <4>1. /\ hook' = [hook EXCEPT ![p] = "down-run"]
            /\ hookToken' = [hookToken EXCEPT ![p] = descriptor[procCall[p]]]
        BY <1>4, <3>1, <3>4 DEF HookReads
      <4> QED BY <3>4, <4>1
    <3> QED BY <1>4, <3>2, <3>3, <3>4 DEF HookReads
  <2>2. procCall' = procCall /\ proc' = proc /\ descriptor' = descriptor /\ LockFree
    BY <1>4 DEF HookReads, vars, sup, os
  <2>3. proc[p] # "unborn" /\ procCall[p] \in Calls
    BY <2>1 DEF HooksOfPppds
  <2>4. HooksTypeOK'
    BY <1>1, <2>1, <2>3 DEF HooksTypeOK, HookStates, Inv, TypeOK
  <2>5. HooksOfPppds'
    BY <2>1, <2>2, <2>3 DEF HooksOfPppds, HooksTypeOK
  <2>6. HooksTakeTurns'
    BY <2>1, <2>2 DEF HooksTakeTurns, HooksTypeOK, Running, Holding, LockFree, OtherActive
  <2>7. TokensOfCall'
    BY <2>1, <2>2, <2>3 DEF TokensOfCall, HooksTypeOK, Running
  <2> QED BY <1>1, <2>4, <2>5, <2>6, <2>7
<1>5. ASSUME NEW p \in Procs, NEW delivered \in BOOLEAN, HookPosts(p, delivered)
      PROVE  HooksInv'
  <2>1. PICK s \in {"gone", "installed"} :
          /\ hook' = [hook EXCEPT ![p] = s]
          /\ hookToken' = [hookToken EXCEPT ![p] = None]
          /\ (hook[p] = "up-run" /\ s = "installed") \/ (hook[p] = "down-run" /\ s = "gone")
    BY <1>5 DEF HookPosts
  <2>2. procCall' = procCall /\ proc' = proc /\ descriptor' = descriptor
    BY <1>5 DEF HookPosts, HookEvent, vars, sup, os
  <2>3. HooksTypeOK'
    BY <1>1, <2>1 DEF HooksTypeOK, HookStates
  <2>4. HooksOfPppds'
    BY <2>1, <2>2 DEF HooksOfPppds, HooksTypeOK
  <2>5. HooksTakeTurns'
    BY <2>1, <2>2 DEF HooksTakeTurns, HooksTypeOK, Running, Holding
  <2>6. TokensOfCall'
    BY <2>1, <2>2 DEF TokensOfCall, HooksTypeOK, Running
  <2> QED BY <1>1, <2>3, <2>4, <2>5, <2>6
<1>6. CASE UNCHANGED allVars
  <2>1. /\ hook' = hook /\ hookToken' = hookToken
        /\ procCall' = procCall /\ proc' = proc /\ descriptor' = descriptor
    BY <1>6 DEF allVars, vars, hooks, sup, os
  <2> QED
    BY <1>1, <2>1 DEF HooksTypeOK, HooksTakeTurns, HooksOfPppds, TokensOfCall
<1> QED BY <1>2, <1>3, <1>4, <1>5, <1>6 DEF HooksNext

(* The invariant of sessions and hooks together.                           *)
LEMMA HooksInvHolds == HooksSpec => []HooksInv
BY HooksInitInv, HooksNextInv, PTL DEF HooksSpec

(* Whatever ip-up and ip-down hooks report, and whenever: the sessions     *)
(* behave as PppSessions says, so that all that is proved of them holds.   *)
THEOREM HooksImplementSessions == HooksSpec => Spec
<1>1. HooksInit => Init
  BY DEF HooksInit
<1>2. HooksInv /\ [HooksNext]_allVars => [Next]_vars
  BY HooksStepIsStep DEF HooksInv
<1> QED BY <1>1, <1>2, HooksInvHolds, PTL DEF HooksSpec, Spec

(* With hooks, too, leases are kept, and what must end is on its way.      *)
THEOREM HooksKeepLeases == HooksSpec => [](LeasesAreKept /\ EndsAreScheduled) /\ PoolSpec
BY HooksImplementSessions, LeasesStayKept, EndsStayScheduled, RefinesExclusivePool, PTL

(* The hooks of all calls run under one lock, and the leases of a Call-ID  *)
(* that are active at a time are one: a link's rules stay until its own    *)
(* ip-down, whatever other link of the same Call-ID comes up.              *)
THEOREM TurnsAreTaken == HooksSpec => []HooksTakeTurns
<1>1. HooksInv => HooksTakeTurns
  BY DEF HooksInv
<1> QED BY <1>1, HooksInvHolds, PTL

(* A hook that has read its own process's token while that was the current *)
(* one reports in vain once it is not, and that it is not stays so.        *)
THEOREM RetiredTokensArePowerless == HooksSpec => RetiredTokenPowerless
<1>1. ASSUME HooksInv, [HooksNext]_allVars, NEW p \in Procs, proc[p] # "unborn", ~IsCurrent(p)
      PROVE  ~IsCurrent(p)'
  <2>1. StartsAreNew
    BY <1>1, HooksStepIsStep, StartsStayNew DEF HooksInv
  <2>2. procCall[p] \in Calls /\ procCall'[p] = procCall[p]
    BY <1>1, <2>1 DEF HooksInv, HooksOfPppds, StartsAreNew
  <2>3. current'[procCall[p]] # p
    BY <1>1, <2>1, <2>2, NoneAssumption DEF StartsAreNew, IsCurrent
  <2> QED BY <2>2, <2>3 DEF IsCurrent
<1>2. ASSUME NEW p \in Procs, NEW delivered \in BOOLEAN,
             HookPosts(p, delivered), hookToken[p] = p, ~IsCurrent(p)
      PROVE  UNCHANGED <<sess, supState>>
  BY <1>2 DEF HookPosts, TokenAccepted, IsCurrent, vars, ctl, sup
<1> DEFINE A == /\ \A p \in Procs, delivered \in BOOLEAN :
                      HookPosts(p, delivered) /\ hookToken[p] = p /\ ~IsCurrent(p)
                          => UNCHANGED <<sess, supState>>
                /\ \A p \in Procs :
                      proc[p] # "unborn" /\ ~IsCurrent(p) => ~IsCurrent(p)'
<1>3. HooksInv /\ [HooksNext]_allVars => A
  BY <1>1, <1>2
<1>4. [][A]_allVars => RetiredTokenPowerless
  BY DEF RetiredTokenPowerless
<1>5. HooksSpec => [][A]_allVars
  <2> HIDE DEF A
  <2> QED BY <1>3, HooksInvHolds, PTL DEF HooksSpec
<1> QED BY <1>4, <1>5
=============================================================================
