---------------------------- MODULE RedCallProofs ----------------------------
(***************************************************************************)
(* Proofs about RedCall, for any number of calls and of runs of            *)
(* sipfax_red.py, any profile and any number of restarts of the ATA.       *)
(***************************************************************************)
EXTENDS RedCall, SequenceTheorems, TLAPS

USE DEF Bridge!processes

(* The bridge: a process that runs holds the lock, and what it has come to *)
(* says what there is of rule, socket and queue.                           *)
Locked(p) == at[p] \notin {"off", "gone"} => flock = p

InPlace(p) ==
    /\ at[p] \in {"unlink", "queue", "control", "insert", "stopClose", "stopUnlink",
                  "abortClose", "done"} => rules = 0 \/ overlooked
    /\ at[p] = "serving" => rules >= 1 /\ (rules = 1 \/ overlooked)
    /\ at[p] \in {"queue", "control", "done"} => socketOf = None
    /\ at[p] \in {"insert", "serving"} => socketOf = p
    /\ at[p] \in {"control", "insert", "serving"} => nfq = p

BridgeInv ==
    /\ at \in [Procs -> Bridge!Steps]
    /\ rules \in Nat
    /\ \A p \in Procs : Locked(p) /\ InPlace(p)

(* The route: who prepares the ATA holds prepare.lock, who got as far as   *)
(* "preparing" the call lock; a helper that is ready left the ATA as it    *)
(* should be, and nobody is at the ATA then but strays.                    *)
AtAta == Ata!Running \ {"lock"}

Prepares(c) ==
    /\ step[c] \in AtAta => prepareLock = c
    /\ step[c] # "off" => want[c] \in Profiles
    /\ step[c] = "readback" /\ ~rebooted[c] => active = pending \/ pending = Factory

Holds(c) ==
    /\ chan[c] \in Holding => callLock = c
    /\ chan[c] \in Past => step[c] = "ready"
    /\ chan[c] \in Past \cup {"preparing"} /\ step[c] = "ready" =>
          /\ active = want[c] \/ rebooted[c] \/ \E h \in strays : step[h] \in Activated
          /\ \A h \in Calls : step[h] \in AtAta => h \in strays

RouteInv ==
    /\ chan \in [Calls -> Holding \cup {"new", "busy", "ended"}]
    /\ step \in [Calls -> Ata!Running \cup {"off", "ready", "failed"}]
    /\ want \in [Calls -> Profiles \cup {None}]
    /\ rebooted \in [Calls -> BOOLEAN]
    /\ reboots \in Nat
    /\ strays \subseteq Calls
    /\ \A c \in Calls : Prepares(c) /\ Holds(c)

Inv == BridgeInv /\ RouteInv

core == <<at, flock, rules, overlooked, socketOf, nfq>>
----------------------------------------------------------------------------
(* Nothing runs and no call is on at first.                                *)
LEMMA InitHolds == ASSUME Init PROVE Inv
<1> USE CallAssumption
<1>1. BridgeInv
  BY DEF Init, BridgeInv, Bridge!BridgeInit, Bridge!Steps, Locked, InPlace
<1>2. RouteInv
  BY DEF Init, RouteInv, Ata!AtaInit, Ata!Running, Holding, SettingUp, AtAta, Prepares,
     Holds, Past
<1> QED BY <1>1, <1>2 DEF Inv

(* A process takes a step: the others have none of what it changes.        *)
LEMMA ProcessKeeps ==
    ASSUME BridgeInv, NEW p \in Procs,
           (\E cleans \in BOOLEAN : Bridge!Start(p, cleans)) \/ Bridge!ProcessNext(p)
    PROVE  BridgeInv'
<1> USE CallAssumption DEF Ata!AtaAssumption, Bridge!BridgeAssumption
<1> DEFINE own == /\ at' = [at EXCEPT ![p] = at'[p]] /\ at'[p] \in Bridge!Steps
                  /\ rules' \in Nat /\ Locked(p)' /\ InPlace(p)'
<1>1. ASSUME own, at[p] \notin {"off", "gone"} PROVE BridgeInv'
  <2>1. flock = p
    BY <1>1 DEF BridgeInv, Locked
  <2>2. ASSUME NEW q \in Procs, q # p PROVE Locked(q)' /\ InPlace(q)'
    <3>1. at[q] \in {"off", "gone"} /\ at'[q] = at[q]
      BY <1>1, <2>1, <2>2 DEF BridgeInv, Locked
    <3> QED BY <3>1 DEF Locked, InPlace
  <2> QED BY <1>1, <2>2 DEF BridgeInv
<1>2. at \in [Procs -> Bridge!Steps] /\ rules \in Nat /\ Locked(p) /\ InPlace(p)
  BY DEF BridgeInv
<1>3. ASSUME NEW cleans \in BOOLEAN, Bridge!Start(p, cleans) PROVE BridgeInv'
  <2>1. ASSUME NEW q \in Procs PROVE Locked(q)' /\ InPlace(q)'
    BY <1>3, <2>1
       DEF BridgeInv, Locked, InPlace, Bridge!Start, Bridge!NeedsLock, Bridge!Goes,
           Bridge!Steps
  <2>2. at' \in [Procs -> Bridge!Steps] /\ rules' \in Nat
    BY <1>2, <1>3 DEF Bridge!Start, Bridge!NeedsLock, Bridge!Goes, Bridge!Steps
  <2> QED BY <2>1, <2>2 DEF BridgeInv
<1> USE <1>2 DEF Locked, InPlace, Bridge!Goes, Bridge!Steps, Bridge!Exit
<1>4. CASE Bridge!RemoveRule(p)
  <2>1. at[p] \in {"purge", "bindPurge", "stopPurge", "abortPurge"} /\ flock = p
    BY <1>4 DEF Bridge!RemoveRule
  <2>2. CASE /\ rules > 0 /\ rules' = rules - 1
             /\ UNCHANGED <<at, flock, overlooked, socketOf, nfq>>
    <3>1. rules' \in Nat /\ at' = [at EXCEPT ![p] = at'[p]] /\ at'[p] = at[p]
      BY <2>2
    <3>2. own
      BY <2>1, <2>2, <3>1
    <3> QED BY <1>1, <2>1, <3>2
  <2>3. CASE /\ at' = [at EXCEPT ![p] = Bridge!AfterPurge(at[p])]
             /\ overlooked' = (rules > 0) /\ UNCHANGED <<flock, rules, socketOf, nfq>>
    <3>1. Bridge!AfterPurge(at[p]) \in {"unlink", "stopClose", "abortClose"}
      BY <2>1 DEF Bridge!AfterPurge
    <3>2. at' = [at EXCEPT ![p] = at'[p]] /\ at'[p] \in {"unlink", "stopClose", "abortClose"}
      BY <2>3, <3>1
    <3>3. rules' = 0 \/ overlooked'
      <4>1. CASE rules = 0
        BY <2>3, <4>1
      <4>2. CASE rules > 0
        <5>1. (rules > 0) = TRUE
          BY <4>2
        <5> QED BY <2>3, <5>1
      <4> QED BY <1>2, <4>1, <4>2
    <3>4. own
      BY <2>1, <2>3, <3>2, <3>3
    <3> QED BY <1>1, <2>1, <3>4
  <2>4. CASE Bridge!Exit(p) /\ UNCHANGED <<rules, socketOf>>
    BY <1>1, <2>1, <2>4
  <2> QED BY <1>4, <2>2, <2>3, <2>4 DEF Bridge!RemoveRule
<1>5. CASE Bridge!Unlink(p)
  <2>1. own /\ at[p] \notin {"off", "gone"}
    BY <1>5 DEF Bridge!Unlink
  <2> QED BY <1>1, <2>1
<1>6. CASE Bridge!BindQueue(p)
  <2>1. own /\ at[p] \notin {"off", "gone"}
    BY <1>6 DEF Bridge!BindQueue
  <2> QED BY <1>1, <2>1
<1>7. CASE Bridge!BindControl(p)
  <2>1. own /\ at[p] \notin {"off", "gone"}
    BY <1>7 DEF Bridge!BindControl
  <2> QED BY <1>1, <2>1
<1>8. CASE Bridge!InsertRule(p)
  <2>1. own /\ at[p] \notin {"off", "gone"}
    BY <1>8 DEF Bridge!InsertRule
  <2> QED BY <1>1, <2>1
<1>9. CASE Bridge!Stop(p)
  <2>1. own /\ at[p] \notin {"off", "gone"}
    BY <1>9 DEF Bridge!Stop
  <2> QED BY <1>1, <2>1
<1>10. CASE Bridge!Close(p)
  <2>1. own /\ at[p] \notin {"off", "gone"}
    BY <1>10 DEF Bridge!Close
  <2> QED BY <1>1, <2>1
<1>11. CASE Bridge!Abort(p)
  <2>1. own /\ at[p] \notin {"off", "gone"}
    BY <1>11 DEF Bridge!Abort
  <2> QED BY <1>1, <2>1
<1>12. CASE Bridge!Ends(p)
  <2>1. own /\ at[p] \notin {"off", "gone"}
    BY <1>12 DEF Bridge!Ends
  <2> QED BY <1>1, <2>1
<1> QED BY <1>3, <1>4, <1>5, <1>6, <1>7, <1>8, <1>9, <1>10, <1>11, <1>12 DEF Bridge!ProcessNext

(* What does not touch the processes keeps what is said of them.           *)
LEMMA CoreKeeps == ASSUME BridgeInv, UNCHANGED core PROVE BridgeInv'
BY DEF BridgeInv, Locked, InPlace, core

(* Every step keeps what is said of the processes.                         *)
LEMMA BridgeKeeps == ASSUME BridgeInv, [Next]_vars PROVE BridgeInv'
<1>1. CASE \E c \in Calls : PlanNext(c)
  BY <1>1, CoreKeeps DEF PlanNext, TryLock, BusyEnds, Check, Prepared, Register, Sync, Synced,
     HangsUp, HandlerStarts, Delete, Clear, Cleared, Bridge!Connect, Bridge!Seen, bridgeVars, core
<1>2. CASE AtaNext
  BY <1>2, CoreKeeps DEF AtaNext, bridgeVars, core
<1>3. CASE BridgeNext
  BY <1>3, CoreKeeps, ProcessKeeps DEF BridgeNext, Bridge!GivesUp, core
<1>4. CASE \E p \in Procs : Control(p)
  BY <1>4, CoreKeeps DEF Control, Reply, Bridge!Accept, Bridge!Query, Bridge!Assign,
     Bridge!QueryFails, Bridge!Reply, core
<1>5. CASE UNCHANGED vars
  BY <1>5, CoreKeeps DEF vars, bridgeVars, core
<1> QED BY <1>1, <1>2, <1>3, <1>4, <1>5 DEF Next
----------------------------------------------------------------------------
(* The dialplan, where it does not touch the ATA.                          *)
Types ==
    /\ chan \in [Calls -> Holding \cup {"new", "busy", "ended"}]
    /\ step \in [Calls -> Ata!Running \cup {"off", "ready", "failed"}]
    /\ want \in [Calls -> Profiles \cup {None}]
    /\ rebooted \in [Calls -> BOOLEAN]
    /\ reboots \in Nat
    /\ strays \subseteq Calls

(* A step of the dialplan keeps the route.                                 *)
LEMMA PlanKeeps == ASSUME RouteInv, NEW c \in Calls, PlanNext(c) PROVE RouteInv'
<1> USE CallAssumption DEF Ata!AtaAssumption
<1>1. Types /\ \A d \in Calls : Prepares(d) /\ Holds(d)
  BY DEF RouteInv, Types
<1>2. SUFFICES Types' /\ \A d \in Calls : Prepares(d)' /\ Holds(d)'
  BY DEF RouteInv, Types
<1> USE DEF Types, Holding, SettingUp, Past, Goes, ataVars
<1>3. CASE TryLock(c)
  BY <1>1, <1>3 DEF TryLock, Prepares, Holds
<1>4. CASE BusyEnds(c)
  BY <1>1, <1>4 DEF BusyEnds, Prepares, Holds
<1>5. CASE Check(c)
  <2>1. chan[c] = "check" /\ callLock = c /\ UNCHANGED callLock
    BY <1>1, <1>5 DEF Check, Holds
  <2>2. CASE Goes(c, "hangup") /\ UNCHANGED ataVars
    BY <1>1, <2>1, <2>2 DEF Prepares, Holds
  <2>3. ASSUME NEW profile \in Profiles, Goes(c, "preparing"), Ata!StartHelper(c, profile),
               UNCHANGED strays
        PROVE  Types' /\ \A d \in Calls : Prepares(d)' /\ Holds(d)'
    <3>1. Types'
      BY <1>1, <2>3 DEF Ata!StartHelper, Ata!Running
    <3>2. ASSUME NEW d \in Calls PROVE Prepares(d)' /\ Holds(d)'
      <4>1. /\ step' = [step EXCEPT ![c] = "lock"] /\ want' = [want EXCEPT ![c] = profile]
            /\ UNCHANGED <<prepareLock, rebooted, pending, active, strays, callLock>>
        BY <2>1, <2>3 DEF Ata!StartHelper
      <4>2. Prepares(d)'
        BY <1>1, <2>3, <3>2, <4>1 DEF AtAta, Ata!Running, Prepares
      <4>3. chan[d] \notin Past \cup {"preparing"}
        BY <1>1, <2>1, <3>2 DEF Holds
      <4>4. step'[d] # "ready" \/ chan'[d] \notin Past \cup {"preparing"}
        BY <1>1, <2>3, <3>2, <4>1, <4>3
      <4>5. chan'[d] \in Holding => callLock = d
        BY <1>1, <2>1, <2>3, <3>2 DEF Holds
      <4>6. chan'[d] \notin Past
        BY <1>1, <2>3, <3>2, <4>3
      <4> QED BY <4>1, <4>2, <4>4, <4>5, <4>6 DEF Holds
    <3> QED BY <3>1, <3>2
  <2> QED BY <1>5, <2>2, <2>3 DEF Check
<1>6. CASE Prepared(c)
  <2>0. /\ chan[c] = "preparing"
        /\ UNCHANGED callLock
        /\ UNCHANGED <<step, want, prepareLock, rebooted, pending, active, reboots, strays>>
        /\ \/ step[c] = "ready" /\ Goes(c, "progress")
           \/ Goes(c, "hangup")
    <3>1. chan[c] = "preparing" /\ callLock' = callLock /\ ataVars' = ataVars
      BY <1>6 DEF Prepared
    <3>2. \/ step[c] = "ready" /\ Goes(c, "progress")
          \/ Goes(c, "hangup")
      BY <1>6 DEF Prepared
    <3> QED BY <3>1, <3>2
  <2>1. Types'
    BY <1>1, <2>0
  <2>2. ASSUME NEW d \in Calls PROVE Prepares(d)' /\ Holds(d)'
    <3>1. Prepares(d)'
      BY <1>1, <2>0, <2>2 DEF Prepares
    <3>2. Holds(d)'
      BY <1>1, <2>0, <2>2 DEF Holds
    <3> QED BY <3>1, <3>2
  <2> QED BY <2>1, <2>2
<1>7. CASE Register(c)
  BY <1>1, <1>7 DEF Register, Prepares, Holds
<1>8. CASE Sync(c)
  BY <1>1, <1>8 DEF Sync, planVars, Prepares, Holds
<1>9. CASE Synced(c)
  BY <1>1, <1>9 DEF Synced, Prepares, Holds
<1>10. CASE HangsUp(c)
  BY <1>1, <1>10 DEF HangsUp, Prepares, Holds
<1>11. CASE HandlerStarts(c)
  BY <1>1, <1>11 DEF HandlerStarts, LockInHandler, Prepares, Holds
<1>12. CASE Delete(c)
  BY <1>1, <1>12 DEF Delete, Prepares, Holds
<1>13. CASE Clear(c)
  BY <1>1, <1>13 DEF Clear, Prepares, Holds
<1>14. CASE Cleared(c)
  BY <1>1, <1>14 DEF Cleared, Prepares, Holds
<1> QED BY <1>3, <1>4, <1>5, <1>6, <1>7, <1>8, <1>9, <1>10, <1>11, <1>12, <1>13, <1>14
        DEF PlanNext

(* A helper that takes a step with prepare.lock held is the only one.      *)
LEMMA HelperKeeps ==
    ASSUME RouteInv, NEW h \in Calls, HelperSteps(h), UNCHANGED planVars
    PROVE  RouteInv'
<1> USE CallAssumption DEF Ata!AtaAssumption
<1>1. Types /\ \A d \in Calls : Prepares(d) /\ Holds(d)
  BY DEF RouteInv, Types
<1>2. SUFFICES Types' /\ \A d \in Calls : Prepares(d)' /\ Holds(d)'
  BY DEF RouteInv, Types
<1>3. Ata!HelperNext(h) /\ strays' = StraysAfter(h) /\ strays' \subseteq Calls
  BY <1>1 DEF HelperSteps, StraysAfter, Types
<1>4. UNCHANGED <<chan, callLock>>
  BY DEF planVars
<1> USE DEF Types, Past, AtAta, Activated, Ata!Running
<1>5. CASE Ata!Lock(h)
  <2>1. \A d \in Calls : step[d] \notin AtAta
    BY <1>1, <1>5 DEF Ata!Lock, Ata!LockFree, Prepares
  <2>2. /\ step[h] = "lock" /\ step' = [step EXCEPT ![h] = "connect"] /\ prepareLock' = h
        /\ UNCHANGED <<want, rebooted, pending, active, reboots>>
    BY <1>5 DEF Ata!Lock
  <2>3. Types'
    BY <1>1, <1>3, <1>4, <2>2
  <2>4. ASSUME NEW d \in Calls PROVE Prepares(d)'
    BY <1>1, <2>1, <2>2, <2>4 DEF Prepares
  <2>5. ASSUME NEW d \in Calls, chan[d] \in Past \cup {"preparing"}, step'[d] = "ready"
        PROVE  /\ strays' = strays \cup {h} /\ step[d] = "ready"
               /\ active = want[d] \/ rebooted[d] \/ \E g \in strays : step[g] \in Activated
    <3>1. d # h /\ step[d] = "ready"
      BY <1>1, <2>2, <2>5
    <3>2. chan[h] # "preparing"
      BY <1>1, <2>5, <3>1 DEF Holds, Holding, SettingUp
    <3> QED BY <1>1, <1>3, <2>2, <2>5, <3>1, <3>2 DEF StraysAfter, Holds
  <2>6. ASSUME NEW d \in Calls PROVE Holds(d)'
    <3>1. chan[d] \in Holding => callLock = d
      BY <1>1 DEF Holds
    <3>2. chan[d] \in Past => step'[d] = "ready"
      BY <1>1, <2>2 DEF Holds
    <3>3. ASSUME chan[d] \in Past \cup {"preparing"}, step'[d] = "ready"
          PROVE  /\ active = want[d] \/ rebooted[d] \/ \E g \in strays' : step'[g] \in Activated
                 /\ \A g \in Calls : step'[g] \in AtAta => g \in strays'
      <4>1. CASE active = want[d] \/ rebooted[d]
        BY <1>1, <2>1, <2>2, <2>5, <3>3, <4>1
      <4>2. ASSUME NEW g \in strays, step[g] \in Activated
            PROVE  g \in strays' /\ step'[g] \in Activated
        BY <1>1, <2>2, <2>5, <3>3, <4>2
      <4> QED BY <1>1, <2>1, <2>2, <2>5, <3>3, <4>1, <4>2
    <3> QED BY <1>4, <2>2, <3>1, <3>2, <3>3 DEF Holds
  <2> QED BY <2>3, <2>4, <2>6
<1> USE DEF Ata!Commands, Ata!Goes
(* Any other step leaves the strays; those that have activated stay so.    *)
<1>6. CASE ~Ata!Lock(h)
  <2>1. /\ step' = [step EXCEPT ![h] = step'[h]]
        /\ step'[h] \in Ata!Running \cup {"ready", "failed"}
        /\ UNCHANGED <<want, reboots>> /\ rebooted' = [rebooted EXCEPT ![h] = rebooted'[h]]
        /\ rebooted'[h] \in BOOLEAN
        /\ step[h] \in Ata!Running
        /\ step[h] = "lock" => step'[h] = "failed" /\ UNCHANGED active
        /\ step[h] \in Activated => step'[h] \in Activated
        /\ active' # active => step[h] \in AtAta /\ step'[h] \in Activated
        /\ step[h] \in AtAta /\ step'[h] \in AtAta => UNCHANGED prepareLock
        /\ prepareLock # h => UNCHANGED prepareLock
        /\ step'[h] = "ready" => step[h] = "readback" /\ ~rebooted[h] /\ pending = want[h]
                                 /\ UNCHANGED <<active, rebooted>>
    <3>1. CASE Ata!Connect(h)
      BY <1>1, <3>1 DEF Ata!Connect
    <3>2. CASE Ata!Show(h)
      BY <1>1, <3>2 DEF Ata!Show, Ata!AfterShow
    <3>3. CASE Ata!Set(h)
      BY <1>1, <3>3 DEF Ata!Set
    <3>4. CASE Ata!Activate(h)
      BY <1>1, <3>4 DEF Ata!Activate
    <3>5. CASE Ata!Readback(h)
      BY <1>1, <3>5 DEF Ata!Readback, Ata!Freed
    <3>6. CASE Ata!HelperFails(h)
      BY <1>1, <3>6 DEF Ata!HelperFails, Ata!Freed
    <3> QED BY <1>3, <1>6, <3>1, <3>2, <3>3, <3>4, <3>5, <3>6 DEF Ata!HelperNext
  <2>2. strays' = strays
    BY <1>3, <2>1 DEF StraysAfter
  <2>3. Types'
    BY <1>1, <1>3, <1>4, <2>1
  <2>4. step[h] \in AtAta => \A d \in Calls \ {h} : step[d] \notin AtAta
    BY <1>1 DEF Prepares
  <2>5. /\ step'[h] = "readback" /\ ~rebooted'[h] => active' = pending' \/ pending' = Factory
        /\ step[h] = "lock" => UNCHANGED pending
    BY <1>1, <1>3, <1>6
       DEF Ata!HelperNext, Ata!Connect, Ata!Show, Ata!AfterShow, Ata!Set, Ata!Activate,
           Ata!Readback, Ata!HelperFails
  <2>6. ASSUME NEW d \in Calls PROVE Prepares(d)'
    <3>1. CASE d = h
      BY <1>1, <2>1, <2>5, <3>1 DEF Prepares
    <3>2. CASE d # h
      <4>1. step'[d] = step[d] /\ want'[d] = want[d] /\ rebooted'[d] = rebooted[d]
        BY <1>1, <2>1, <2>6, <3>2
      <4>2. step[d] \in AtAta => prepareLock' = d /\ UNCHANGED <<pending, active>>
        BY <1>1, <2>1, <2>4, <2>5, <2>6, <3>2 DEF Prepares
      <4> QED BY <1>1, <4>1, <4>2 DEF Prepares
    <3> QED BY <3>1, <3>2
  <2>7. ASSUME NEW d \in Calls, chan[d] \in Past \cup {"preparing"}, step'[d] = "ready"
        PROVE  /\ active' = want'[d] \/ rebooted'[d] \/ \E g \in strays' : step'[g] \in Activated
               /\ \A g \in Calls : step'[g] \in AtAta => g \in strays'
    <3>1. CASE d = h
      <4>1. active' = want'[h]
        BY <1>1, <2>1, <2>7, <3>1 DEF Prepares
      <4>2. \A g \in Calls : step'[g] \notin AtAta
        BY <1>1, <2>1, <2>4, <2>7, <3>1
      <4> QED BY <3>1, <4>1, <4>2
    <3>2. CASE d # h
      <4>1. step[d] = "ready" /\ want'[d] = want[d] /\ rebooted'[d] = rebooted[d]
        BY <1>1, <2>1, <2>7, <3>2
      <4>2. /\ active = want[d] \/ rebooted[d] \/ \E g \in strays : step[g] \in Activated
            /\ \A g \in Calls : step[g] \in AtAta => g \in strays
        BY <1>1, <2>7, <4>1 DEF Holds
      <4>3. \A g \in strays : step[g] \in Activated => step'[g] \in Activated
        BY <1>1, <2>1
      <4>4. active' # active => h \in strays /\ step'[h] \in Activated
        BY <2>1, <4>2
      <4>5. \A g \in Calls : step'[g] \in AtAta => g \in strays
        <5>1. step'[h] \in AtAta => step[h] \in AtAta
          BY <2>1
        <5> QED BY <1>1, <2>1, <4>2, <5>1
      <4> QED BY <2>2, <4>1, <4>2, <4>3, <4>4, <4>5
    <3> QED BY <3>1, <3>2
  <2>8. ASSUME NEW d \in Calls PROVE Holds(d)'
    <3>1. chan[d] \in Past => step'[d] = "ready"
      BY <1>1, <2>1, <2>8 DEF Holds
    <3> QED BY <1>1, <1>4, <2>7, <3>1 DEF Holds
  <2> QED BY <2>3, <2>6, <2>8
<1> QED BY <1>5, <1>6

(* So does a step of a helper or of the ATA.                               *)
LEMMA AtaKeeps == ASSUME RouteInv, AtaNext PROVE RouteInv'
<1> USE CallAssumption DEF Ata!AtaAssumption
<1>1. CASE \E h \in Calls : HelperSteps(h)
  BY <1>1, HelperKeeps DEF AtaNext
<1>2. CASE Ata!DeviceForgets /\ UNCHANGED strays
  BY <1>2 DEF AtaNext, RouteInv, Ata!DeviceForgets, planVars, Prepares, Holds
<1>3. CASE Ata!Reboot /\ UNCHANGED strays
  BY <1>3 DEF AtaNext, RouteInv, Ata!Reboot, planVars, Prepares, Holds
<1> QED BY <1>1, <1>2, <1>3 DEF AtaNext

(* Every step keeps the route.                                             *)
LEMMA RouteKeeps == ASSUME RouteInv, [Next]_vars PROVE RouteInv'
<1>1. ASSUME UNCHANGED <<chan, callLock, ataVars>> PROVE RouteInv'
  BY <1>1 DEF RouteInv, Prepares, Holds, ataVars
<1>2. CASE BridgeNext
  BY <1>1, <1>2 DEF BridgeNext, planVars
<1>3. CASE \E p \in Procs : Control(p)
  BY <1>1, <1>3 DEF Control, Reply, planVars
<1>4. CASE UNCHANGED vars
  BY <1>1, <1>4 DEF vars, planVars
<1> QED BY <1>2, <1>3, <1>4, PlanKeeps, AtaKeeps DEF Next
----------------------------------------------------------------------------
(* Locks, bridge and ATA stay in step.                                     *)
THEOREM RedCallInvariant == Spec => []Inv
<1>1. Init => Inv
  BY InitHolds
<1>2. Inv /\ [Next]_vars => Inv'
  BY BridgeKeeps, RouteKeeps DEF Inv
<1> QED BY <1>1, <1>2, PTL DEF Spec

(* A bridge that serves has its rule, once, its queue and its socket,      *)
(* however many are started, stopped, killed or run to clean up.           *)
THEOREM ServingStaysIntact == Spec => []ServingIsIntact
<1>1. Inv => ServingIsIntact
  BY DEF Inv, BridgeInv, Locked, InPlace, ServingIsIntact, Bridge!ServingIsIntact
<1> QED BY <1>1, RedCallInvariant, PTL

(* One that comes to its end leaves neither rule nor socket.               *)
THEOREM EndsAreClean == Spec => []CleanEnd
<1>1. Inv => CleanEnd
  BY DEF Inv, BridgeInv, InPlace, CleanEnd, Bridge!CleanEnd
<1> QED BY <1>1, RedCallInvariant, PTL

(* So rule, socket and queue are those of the bridge that serves.          *)
THEOREM BridgeStaysIntact == Spec => []BridgeIsIntact
<1>1. ServingIsIntact /\ CleanEnd => BridgeIsIntact
  BY DEF BridgeIsIntact
<1> QED BY <1>1, ServingStaysIntact, EndsAreClean, PTL

(* Only the holder of prepare.lock talks to the ATA.                       *)
THEOREM HelpersTakeTurns == Spec => []Ata!OneHelperAtATime
<1>1. Inv => Ata!OneHelperAtATime
  BY DEF Inv, RouteInv, AtAta, Prepares, Ata!OneHelperAtATime
<1> QED BY <1>1, RedCallInvariant, PTL

(* A call that goes on has the profile it asked for until the ATA restarts *)
(* or a stray has activated one.                                           *)
THEOREM CallsKeepTheirProfile == Spec => []CallKeepsProfile
<1>1. Inv => CallKeepsProfile
  BY DEF Inv, RouteInv, Holds, Past, CallKeepsProfile
<1> QED BY <1>1, RedCallInvariant, PTL

(* Nobody activates a profile in a call, the same one or another, but a    *)
(* stray, and only that or a restart changes the active one.               *)
THEOREM NobodyActivatesInCall == Spec => NoActivationInCall
<1> DEFINE A == \A c \in Calls : chan[c] \in Past =>
                   /\ \A h \in Calls : Activates(h) => h \in strays
                   /\ active' # active =>
                         reboots' > reboots \/ \E h \in strays : Activates(h)
<1>1. Inv /\ [Next]_vars => A
  <2> SUFFICES ASSUME Inv, [Next]_vars, NEW c \in Calls, chan[c] \in Past
               PROVE  /\ \A h \in Calls : Activates(h) => h \in strays
                      /\ active' # active =>
                            reboots' > reboots \/ \E h \in strays : Activates(h)
    OBVIOUS
  <2>1. /\ \A h \in Calls : step[h] \in AtAta => h \in strays
        /\ step \in [Calls -> Ata!Running \cup {"off", "ready", "failed"}]
        /\ reboots \in Nat
    BY DEF Inv, RouteInv, Holds
  <2>2. \A h \in Calls : Activates(h) => h \in strays
    BY <2>1 DEF Activates, AtAta, Ata!Running
  <2>3. ASSUME active' # active PROVE reboots' > reboots \/ \E h \in Calls : Activates(h)
    <3>1. AtaNext
      BY <2>3 DEF Next, PlanNext, TryLock, BusyEnds, Check, Prepared, Register, Sync, Synced,
         HangsUp, HandlerStarts, Delete, Clear, Cleared, BridgeNext, Control, Reply, vars,
         ataVars, Ata!StartHelper
    <3>2. CASE Ata!Reboot
      BY <2>1, <3>2 DEF Ata!Reboot
    <3>3. ASSUME NEW h \in Calls, Ata!HelperNext(h) PROVE Activates(h)
      BY <2>1, <2>3, <3>3
         DEF Ata!HelperNext, Ata!Lock, Ata!Connect, Ata!Show, Ata!Set, Ata!Activate,
             Ata!Readback, Ata!HelperFails, Ata!Commands, Ata!Goes, Activates, Activated
    <3> QED BY <2>3, <3>1, <3>2, <3>3 DEF AtaNext, HelperSteps, Ata!DeviceForgets
  <2> QED BY <2>2, <2>3
<1> QED BY <1>1, RedCallInvariant, PTL DEF Spec, NoActivationInCall
----------------------------------------------------------------------------
(* The requests to the bridges: <<c, "set">> and <<c, "clear">> are made   *)
(* once each, and where the dialplan is says how far they are.             *)
Requests == [stage : {"none", "query", "assign", "reply"}, client : Clients \cup {None},
             value : Calls \cup {None}]
Answers  == {"ACTIVE", "IDLE", "failed"}

(* A bridge that has served, and may still answer.                         *)
Answering == {"serving", "stopPurge", "stopClose", "stopUnlink", "done"}

(* What the control threads and the dialplan share has its types.          *)
ControlTypes ==
    /\ db \in Calls \cup {None}
    /\ ackedBy \in [Calls -> Procs \cup {None}]
    /\ backlog \in [Procs -> Seq(Clients)]
    /\ handling \in [Procs -> Requests]
    /\ registration \in [Procs -> Calls \cup {None}]
    /\ client \in [Clients -> Answers \cup {"idle", "waiting", "gone"}]

(* The dialplan and its clients.                                           *)
Before == {"new", "busy", "check", "preparing", "progress"}

(* The calls that may be in the database.                                  *)
Registered == {"syncing", "dialled", "hangup", "delete"}

Dialplan ==
    /\ db # None => chan[db] \in Registered
    /\ \A c \in Calls :
          /\ chan[c] \in {"syncing", "dialled"} => db = c
          /\ chan[c] \in Before => client[<<c, "set">>] = "idle"
          /\ chan[c] \notin Before \cup {"syncing"} =>
                client[<<c, "set">>] \in {"idle", "gone"}
          /\ chan[c] \notin {"clearing", "ended"} => client[<<c, "clear">>] = "idle"
          /\ client[<<c, "set">>] = "ACTIVE" \/ chan[c] = "dialled" => ackedBy[c] \in Procs

(* Who is with the control thread of p: each client once, and nobody who   *)
(* has yet to connect.                                                     *)
Queue(p) ==
    /\ \A i \in DOMAIN backlog[p] :
          /\ client[backlog[p][i]] # "idle"
          /\ handling[p].client # backlog[p][i]
          /\ \A j \in DOMAIN backlog[p] : backlog[p][i] = backlog[p][j] => i = j
    /\ handling[p].client # None => client[handling[p].client] # "idle"

(* What the control thread of p is doing.                                  *)
Request(p) ==
    /\ handling[p].stage = "none" => handling[p].client = None
    /\ handling[p].stage # "none" => handling[p].client # None
    /\ handling[p].stage \in {"none", "query"} => handling[p].value = None
    /\ handling[p].stage = "reply" => registration[p] = handling[p].value
    /\ handling[p].stage # "none" \/ registration[p] # None => at[p] \in Answering

(* The call that p registers or has registered.                            *)
Serves(p, c) == registration[p] = c \/ handling[p].value = c

(* The request of a call that holds the lock is the last.                  *)
LastIsOwn(p, c) ==
    chan[c] = "syncing" =>
        /\ \A i \in DOMAIN backlog[p] : backlog[p][i] = <<c, "set">> => i = Len(backlog[p])
        /\ handling[p].client = <<c, "set">> =>
              /\ backlog[p] = <<>>
              /\ handling[p].stage \in {"assign", "reply"} => handling[p].value = c

(* Nothing comes after it until the call ends.                             *)
KeptFor(p, c) ==
    /\ ackedBy[c] = p => at[p] \in Answering \cup {"gone"}
    /\ (chan[c] = "syncing" /\ client[<<c, "set">>] = "ACTIVE") \/ chan[c] = "dialled" =>
          (ackedBy[c] = p /\ at[p] = "serving" =>
              registration[p] = c /\ backlog[p] = <<>> /\ handling[p] = Bridge!NoRequest)

(* Only a call that got so far is registered, and after its last request   *)
(* has been dealt with it never is again.                                  *)
EndsWith(p, c) ==
    /\ Serves(p, c) => chan[c] \notin Before /\ client[<<c, "clear">>] # "IDLE"
    /\ handling[p].client = <<c, "clear">> => handling[p].value # c
    /\ chan[c] \in {"clearing", "ended"} /\ at[p] = "serving" /\ Serves(p, c) =>
          \/ handling[p].client = <<c, "clear">>
          \/ \E i \in DOMAIN backlog[p] : backlog[p][i] = <<c, "clear">>

ControlInv ==
    /\ ControlTypes
    /\ Dialplan
    /\ \A p \in Procs : Queue(p) /\ Request(p)
    /\ \A p \in Procs, c \in Calls : LastIsOwn(p, c) /\ KeptFor(p, c) /\ EndsWith(p, c)
----------------------------------------------------------------------------
(* The clients of a call are two, and different calls have different ones. *)
LEMMA ClientFacts ==
    /\ \A c \in Calls : <<c, "set">> \in Clients /\ <<c, "clear">> \in Clients
    /\ \A k \in Clients : \E c \in Calls : k = <<c, "set">> \/ k = <<c, "clear">>
    /\ \A c, d \in Calls : /\ <<c, "set">> # <<d, "clear">>
                           /\ <<c, "set">> = <<d, "set">> => c = d
                           /\ <<c, "clear">> = <<d, "clear">> => c = d
    /\ None \notin Clients /\ None \notin Procs /\ None \notin Calls
BY CallAssumption DEF Clients, Ata!AtaAssumption, Bridge!BridgeAssumption

(* A backlog grows at its end.                                             *)
LEMMA AppendFacts ==
    ASSUME NEW s \in Seq(Clients), NEW k \in Clients
    PROVE  /\ Append(s, k) \in Seq(Clients)
           /\ DOMAIN s = 1 .. Len(s) /\ Len(s) \in Nat
           /\ DOMAIN Append(s, k) = 1 .. Len(s) + 1
           /\ Len(Append(s, k)) = Len(s) + 1
           /\ \A i \in 1 .. Len(s) : Append(s, k)[i] = s[i]
           /\ Append(s, k)[Len(s) + 1] = k
OBVIOUS

(* Its first client is accepted, and the others keep their order.          *)
LEMMA WithoutFacts ==
    ASSUME NEW s \in Seq(Clients), s # <<>>
    PROVE  /\ Bridge!Without(s, 1) \in Seq(Clients)
           /\ DOMAIN s = 1 .. Len(s) /\ Len(s) \in Nat \ {0}
           /\ DOMAIN Bridge!Without(s, 1) = 1 .. Len(s) - 1
           /\ Len(Bridge!Without(s, 1)) = Len(s) - 1
           /\ \A i \in 1 .. Len(s) - 1 : Bridge!Without(s, 1)[i] = s[i + 1]
<1> DEFINE a == SubSeq(s, 1, 0)
           b == SubSeq(s, 2, Len(s))
<1>1. Len(s) \in Nat \ {0} /\ DOMAIN s = 1 .. Len(s) /\ \A i \in 1 .. Len(s) : s[i] \in Clients
  BY EmptySeq, LenProperties, ElementOfSeq
<1>2. a = <<>>
  BY SubSeqEmpty
<1>3. /\ b \in Seq(Clients) /\ Len(b) = Len(s) - 1
      /\ \A i \in 1 .. Len(s) - 1 : b[i] = s[i + 1]
  <2>1. \A i \in 2 .. Len(s) : s[i] \in Clients
    BY <1>1
  <2>2. /\ b \in Seq(Clients) /\ Len(b) = IF 2 <= Len(s) THEN Len(s) - 2 + 1 ELSE 0
        /\ \A i \in 1 .. Len(s) - 2 + 1 : b[i] = s[2 + i - 1]
    BY <1>1, <2>1, SubSeqProperties
  <2>3. QED
    BY <1>1, <2>2
<1>4. a \o b = b
  BY <1>2, <1>3, ConcatEmptySeq
<1>5. Bridge!Without(s, 1) = b
  BY <1>4 DEF Bridge!Without
<1>6. DOMAIN b = 1 .. Len(b)
  BY <1>3, LenProperties
<1>7. QED
  BY <1>1, <1>3, <1>5, <1>6
----------------------------------------------------------------------------
(* A call that is past the lock has it.                                    *)
LockKept == \A c \in Calls : chan[c] \in Holding => callLock = c

ChanTypes == chan \in [Calls -> Holding \cup {"new", "busy", "ended"}] /\ LockKept

(* Nothing that the control threads depend on changes.                     *)
LEMMA ControlFrame ==
    ASSUME ControlInv, UNCHANGED <<planVars, at, backlog, handling, registration, client>>
    PROVE  ControlInv'
<1> USE DEF planVars
<1>1. ControlTypes' /\ Dialplan'
  BY DEF ControlInv, ControlTypes, Dialplan
<1>2. \A p \in Procs : Queue(p)' /\ Request(p)'
  BY DEF ControlInv, Queue, Request
<1>3. ASSUME NEW p \in Procs, NEW c \in Calls
      PROVE  LastIsOwn(p, c)' /\ KeptFor(p, c)' /\ EndsWith(p, c)'
  <2>1. LastIsOwn(p, c) /\ KeptFor(p, c) /\ EndsWith(p, c)
    BY DEF ControlInv
  <2>2. QED
    BY <2>1 DEF LastIsOwn, KeptFor, EndsWith, Serves
<1>4. QED
  BY <1>1, <1>2, <1>3 DEF ControlInv

(* The dialplan goes on without the bridge, up to the call's end.          *)
LEMMA PlanGoesOn ==
    ASSUME ControlInv, ChanTypes, NEW c \in Calls, NEW to, Goes(c, to),
           UNCHANGED <<ackedBy, bridgeVars>>, db' \in Calls \cup {None}, Dialplan',
           chan[c] \notin Before => to \notin Before,
           to = "syncing" => chan[c] = "progress",
           to = "ended" => chan[c] \in {"busy", "clearing"},
           to \notin {"dialled", "clearing"}
    PROVE  ControlInv'
<1> USE DEF bridgeVars, Goes, ChanTypes
<1>1. ControlTypes'
  BY DEF ControlInv, ControlTypes
<1>2. \A p \in Procs : Queue(p)' /\ Request(p)'
  BY DEF ControlInv, Queue, Request
<1>3. ASSUME NEW p \in Procs, NEW d \in Calls
      PROVE  LastIsOwn(p, d)' /\ KeptFor(p, d)' /\ EndsWith(p, d)'
  <2>1. LastIsOwn(p, d) /\ KeptFor(p, d) /\ EndsWith(p, d) /\ Queue(p) /\ Dialplan
    BY DEF ControlInv
  <2>2. CASE d # c
    BY <2>1, <2>2 DEF LastIsOwn, KeptFor, EndsWith, Serves
  <2>3. CASE d = c
    <3>1. chan'[c] = to
      OBVIOUS
    <3>2. to = "syncing" => client[<<c, "set">>] = "idle"
      BY <2>1 DEF Dialplan, Before
    <3>3. LastIsOwn(p, d)'
      BY <2>1, <2>3, <3>1, <3>2, ClientFacts DEF LastIsOwn, Queue
    <3>4. KeptFor(p, d)'
      BY <2>1, <2>3, <3>1, <3>2 DEF KeptFor
    <3>5. EndsWith(p, d)'
      BY <2>1, <2>3, <3>1 DEF EndsWith, Serves, Before
    <3>6. QED
      BY <3>3, <3>4, <3>5
  <2>4. QED
    BY <2>2, <2>3
<1>4. QED
  BY <1>1, <1>2, <1>3 DEF ControlInv

(* It has registered the call before it asks for the bridge, and deletes   *)
(* it before it asks again.                                                *)
LEMMA PlanAlone ==
    ASSUME ControlInv, RouteInv, NEW c \in Calls,
           TryLock(c) \/ BusyEnds(c) \/ Check(c) \/ Prepared(c) \/ Register(c)
              \/ HangsUp(c) \/ HandlerStarts(c) \/ Delete(c) \/ Cleared(c)
    PROVE  ControlInv'
<1>1. ChanTypes /\ ControlTypes /\ Dialplan
  BY DEF RouteInv, Holds, ChanTypes, LockKept, ControlInv
<1>2. ASSUME NEW to, Goes(c, to), UNCHANGED client, UNCHANGED ackedBy,
             to \in Holding \cup {"new", "busy", "ended"},
             to \in {"syncing", "dialled"} => db' = c,
             \/ UNCHANGED db /\ (db = c => to \in Registered)
             \/ chan[c] \in Holding /\ to \in Registered /\ db' = c
             \/ chan[c] \in Holding /\ to \notin {"syncing", "dialled"} /\ db' = None,
             to \in Before => client[<<c, "set">>] = "idle",
             to \notin Before \cup {"syncing"} => client[<<c, "set">>] \in {"idle", "gone"},
             to \notin {"clearing", "ended"} => client[<<c, "clear">>] = "idle",
             to = "dialled" => ackedBy[c] \in Procs
      PROVE  Dialplan'
  <2>1. chan' \in [Calls -> Holding \cup {"new", "busy", "ended"}]
    BY <1>1, <1>2 DEF ChanTypes, Goes
  <2>2. \A d \in Calls : chan'[d] = IF d = c THEN to ELSE chan[d]
    BY <1>1, <1>2 DEF ChanTypes, Goes
  <2>3. db' # None => chan'[db'] \in Registered
    BY <1>1, <1>2, <2>2, ClientFacts DEF ControlTypes, Dialplan
  <2>4. ASSUME NEW d \in Calls PROVE chan'[d] \in {"syncing", "dialled"} => db' = d
    BY <1>1, <1>2, <2>2 DEF Dialplan, ChanTypes, LockKept, Holding, SettingUp
  <2>5. QED
    BY <1>1, <1>2, <2>2, <2>3, <2>4 DEF Dialplan
<1> USE <1>1, ClientFacts
        DEF Registered, Before, Holding, SettingUp, bridgeVars, Dialplan
<1>3. CASE TryLock(c)
  <2>1. Goes(c, "check") \/ Goes(c, "busy")
    BY <1>3 DEF TryLock
  <2>2. chan[c] = "new" /\ UNCHANGED <<db, ackedBy, bridgeVars>>
    BY <1>3 DEF TryLock
  <2>3. Dialplan'
    BY <1>2, <2>1, <2>2
  <2>4. QED
    BY <2>1, <2>2, <2>3, PlanGoesOn DEF ControlTypes
<1>4. CASE BusyEnds(c)
  <2>1. Goes(c, "ended") /\ chan[c] = "busy" /\ UNCHANGED <<db, ackedBy, bridgeVars>>
    BY <1>4 DEF BusyEnds
  <2>2. Dialplan'
    BY <1>2, <2>1
  <2>3. QED
    BY <2>1, <2>2, PlanGoesOn DEF ControlTypes
<1>5. CASE Check(c)
  <2>1. Goes(c, "preparing") \/ Goes(c, "hangup")
    BY <1>5 DEF Check
  <2>2. chan[c] = "check" /\ UNCHANGED <<db, ackedBy, bridgeVars>>
    BY <1>5 DEF Check
  <2>3. Dialplan'
    BY <1>2, <2>1, <2>2
  <2>4. QED
    BY <2>1, <2>2, <2>3, PlanGoesOn DEF ControlTypes
<1>6. CASE Prepared(c)
  <2>1. Goes(c, "progress") \/ Goes(c, "hangup")
    BY <1>6 DEF Prepared
  <2>2. chan[c] = "preparing" /\ UNCHANGED <<db, ackedBy, bridgeVars>>
    BY <1>6 DEF Prepared
  <2>3. Dialplan'
    BY <1>2, <2>1, <2>2
  <2>4. QED
    BY <2>1, <2>2, <2>3, PlanGoesOn DEF ControlTypes
<1>7. CASE Register(c)
  <2>1. /\ Goes(c, "syncing") /\ chan[c] = "progress" /\ db' = c
        /\ UNCHANGED <<ackedBy, bridgeVars>>
    BY <1>7 DEF Register
  <2>2. Dialplan'
    BY <1>2, <2>1
  <2>3. QED
    BY <2>1, <2>2, PlanGoesOn
<1>8. CASE HangsUp(c)
  <2>1. /\ Goes(c, "hangup") /\ chan[c] \in {"check", "progress", "dialled"}
        /\ UNCHANGED <<db, ackedBy, bridgeVars>>
    BY <1>8 DEF HangsUp
  <2>2. Dialplan'
    BY <1>2, <2>1
  <2>3. QED
    BY <2>1, <2>2, PlanGoesOn DEF ControlTypes
<1>9. CASE HandlerStarts(c)
  <2>1. /\ Goes(c, "delete") /\ chan[c] = "hangup" /\ UNCHANGED <<db, ackedBy, bridgeVars>>
    BY <1>9 DEF HandlerStarts
  <2>2. Dialplan'
    BY <1>2, <2>1
  <2>3. QED
    BY <2>1, <2>2, PlanGoesOn DEF ControlTypes
<1>10. CASE Delete(c)
  <2>1. /\ Goes(c, "clear") /\ chan[c] = "delete" /\ db' = None
        /\ UNCHANGED <<ackedBy, bridgeVars>>
    BY <1>10 DEF Delete, AfterDelete
  <2>2. Dialplan'
    BY <1>2, <2>1
  <2>3. QED
    BY <2>1, <2>2, PlanGoesOn
<1>11. CASE Cleared(c)
  <2>1. Goes(c, "ended") /\ chan[c] = "clearing" /\ UNCHANGED <<db, ackedBy, bridgeVars>>
    BY <1>11 DEF Cleared
  <2>2. Dialplan'
    BY <1>2, <2>1
  <2>3. QED
    BY <2>1, <2>2, PlanGoesOn DEF ControlTypes
<1>12. QED
  BY <1>3, <1>4, <1>5, <1>6, <1>7, <1>8, <1>9, <1>10, <1>11
----------------------------------------------------------------------------
(* What a control thread has to do.                                        *)
LEMMA Elements ==
    ASSUME ControlInv, NEW p \in Procs
    PROVE  /\ backlog[p] \in Seq(Clients) /\ Len(backlog[p]) \in Nat
           /\ DOMAIN backlog[p] = 1 .. Len(backlog[p])
           /\ \A i \in DOMAIN backlog[p] : backlog[p][i] \in Clients
           /\ backlog[p] = <<>> <=> Len(backlog[p]) = 0
           /\ handling[p] \in Requests
<1>1. backlog[p] \in Seq(Clients) /\ handling[p] \in Requests
  BY DEF ControlInv, ControlTypes
<1>2. QED
  BY <1>1, LenProperties, ElementOfSeq, EmptySeq

(* A client joins the queue of p, or p is not the one it finds.            *)
Joins(p, k) ==
    /\ handling[p].client # k
    /\ \A i \in DOMAIN backlog[p] :
          i \in DOMAIN backlog'[p] /\ backlog'[p][i] = backlog[p][i] /\ backlog[p][i] # k
    /\ \A i \in DOMAIN backlog'[p] :
          \/ backlog'[p] = backlog[p]
          \/ i \in DOMAIN backlog[p]
          \/ i = Len(backlog'[p]) /\ backlog'[p][i] = k
    /\ socketOf = p /\ Bridge!Listening(p) =>
          \E i \in DOMAIN backlog'[p] : backlog'[p][i] = k

(* What a client finds that connects.                                      *)
LEMMA ConnectFacts ==
    ASSUME ControlInv, socketOf \in Procs \cup {None}, NEW k \in Clients, Bridge!Connect(k)
    PROVE  /\ client[k] = "idle" /\ UNCHANGED <<at, handling, registration>>
           /\ \E w \in {"waiting", "failed"} : client' = [client EXCEPT ![k] = w]
           /\ backlog' \in [Procs -> Seq(Clients)]
           /\ \A p \in Procs : Queue(p)' /\ Joins(p, k)
<1>1. ControlTypes /\ \A p \in Procs : Queue(p)
  BY DEF ControlInv
<1>2. /\ client[k] = "idle" /\ UNCHANGED <<at, handling, registration>>
      /\ \E w \in {"waiting", "failed"} : client' = [client EXCEPT ![k] = w]
  BY DEF Bridge!Connect
<1>3. \A l \in Clients : client'[l] = "idle" => client[l] = "idle" /\ l # k
  BY <1>1, <1>2 DEF ControlTypes
<1> USE Elements
<1>4. \A p \in Procs : /\ handling[p].client # k
                       /\ \A i \in DOMAIN backlog[p] : backlog[p][i] # k
  BY <1>1, <1>2, ClientFacts DEF Queue
<1>5. CASE socketOf # None /\ Bridge!Listening(socketOf)
  <2>1. /\ socketOf \in Procs
        /\ backlog' = [backlog EXCEPT ![socketOf] = Append(backlog[socketOf], k)]
    BY <1>5 DEF Bridge!Connect
  <2>2. backlog' \in [Procs -> Seq(Clients)]
    BY <1>1, <2>1, AppendFacts DEF ControlTypes
  <2>3. ASSUME NEW p \in Procs, p # socketOf
        PROVE  Queue(p)' /\ backlog'[p] = backlog[p]
    BY <1>1, <1>2, <1>3, <2>1, <2>3 DEF Queue, ControlTypes, Requests
  <2>4. ASSUME NEW p \in Procs, p = socketOf
        PROVE  /\ Queue(p)'
               /\ backlog'[p] = Append(backlog[p], k)
    <3>1. backlog'[p] = Append(backlog[p], k) /\ backlog[p] \in Seq(Clients)
      BY <1>1, <2>1, <2>4 DEF ControlTypes
    <3>2. /\ DOMAIN backlog[p] = 1 .. Len(backlog[p]) /\ Len(backlog[p]) \in Nat
          /\ DOMAIN backlog'[p] = 1 .. Len(backlog[p]) + 1
          /\ \A i \in 1 .. Len(backlog[p]) : backlog'[p][i] = backlog[p][i]
          /\ backlog'[p][Len(backlog[p]) + 1] = k
      BY <3>1, AppendFacts
    <3>3. \A i \in DOMAIN backlog[p] : backlog[p][i] \in Clients
      BY <3>1, <3>2, ElementOfSeq
    <3>4. ASSUME NEW i \in DOMAIN backlog'[p]
          PROVE  /\ client'[backlog'[p][i]] # "idle" /\ handling'[p].client # backlog'[p][i]
                 /\ \A j \in DOMAIN backlog'[p] : backlog'[p][i] = backlog'[p][j] => i = j
      <4>1. CASE i \in DOMAIN backlog[p]
        <5>1. /\ backlog'[p][i] = backlog[p][i]
              /\ backlog[p][i] # k /\ backlog[p][i] \in Clients
              /\ handling'[p].client = handling[p].client
          BY <1>2, <1>4, <3>2, <3>3, <4>1
        <5>2. client[backlog[p][i]] # "idle" /\ handling[p].client # backlog[p][i]
          BY <1>1, <4>1 DEF Queue
        <5>3. ASSUME NEW j \in DOMAIN backlog'[p], backlog'[p][i] = backlog'[p][j] PROVE i = j
          <6>1. j \in DOMAIN backlog[p]
            BY <3>2, <5>1, <5>3
          <6>2. QED
            BY <1>1, <3>2, <4>1, <5>1, <5>3, <6>1 DEF Queue
        <5>4. QED
          BY <1>3, <5>1, <5>2, <5>3
      <4>2. CASE i = Len(backlog[p]) + 1
        <5>1. client'[k] # "idle"
          BY <1>3
        <5>2. QED
          BY <1>2, <1>4, <3>2, <4>2, <5>1
      <4>3. QED
        BY <3>2, <4>1, <4>2
    <3>5. handling'[p].client # None => client'[handling'[p].client] # "idle"
      BY <1>1, <1>2, <1>3 DEF Queue, ControlTypes, Requests
    <3>6. QED
      BY <3>1, <3>4, <3>5 DEF Queue
  <2>5. ASSUME NEW p \in Procs, p = socketOf
        PROVE  /\ \A i \in DOMAIN backlog[p] :
                     i \in DOMAIN backlog'[p] /\ backlog'[p][i] = backlog[p][i]
               /\ \A i \in DOMAIN backlog'[p] :
                     i \in DOMAIN backlog[p] \/ (i = Len(backlog'[p]) /\ backlog'[p][i] = k)
               /\ \E i \in DOMAIN backlog'[p] : backlog'[p][i] = k
    <3>1. backlog[p] \in Seq(Clients) /\ backlog'[p] = Append(backlog[p], k)
      BY <1>1, <2>4, <2>5 DEF ControlTypes
    <3>2. QED
      BY <3>1, AppendFacts
  <2>6. ASSUME NEW p \in Procs PROVE Joins(p, k)
    <3>1. CASE p = socketOf
      BY <1>4, <2>5, <3>1 DEF Joins
    <3>2. CASE p # socketOf
      BY <1>4, <2>3, <3>2 DEF Joins
    <3>3. QED
      BY <3>1, <3>2
  <2>7. QED
    BY <1>2, <2>2, <2>3, <2>4, <2>6
<1>6. CASE socketOf = None \/ ~Bridge!Listening(socketOf)
  <2>1. UNCHANGED backlog
    BY <1>6 DEF Bridge!Connect
  <2>2. \A p \in Procs : Queue(p)'
    BY <1>1, <1>2, <1>3, <2>1 DEF Queue, ControlTypes, Requests
  <2>3. \A p \in Procs : ~(socketOf = p /\ Bridge!Listening(p))
    BY <1>6, ClientFacts
  <2>4. \A p \in Procs : Joins(p, k)
    BY <1>4, <2>1, <2>3 DEF Joins
  <2>5. QED
    BY <1>1, <1>2, <2>1, <2>2, <2>4 DEF ControlTypes
<1>7. QED
  BY <1>5, <1>6

(* The call's request is the last, since no other call holds the lock.     *)
LEMMA SyncKeeps ==
    ASSUME ControlInv, ChanTypes, socketOf \in Procs \cup {None}, NEW c \in Calls, Sync(c)
    PROVE  ControlInv'
<1> DEFINE k == <<c, "set">>
<1>1. /\ Bridge!Connect(k) /\ chan[c] = "syncing" /\ UNCHANGED planVars /\ k \in Clients
      /\ \A d \in Calls : chan[d] \in {"syncing", "dialled"} => d = c
  BY ClientFacts DEF Sync, ChanTypes, LockKept, Holding, SettingUp
<1>2. PICK w \in {"waiting", "failed"} : client' = [client EXCEPT ![k] = w]
  BY <1>1, ConnectFacts
<1>3. UNCHANGED <<at, handling, registration>> /\ backlog' \in [Procs -> Seq(Clients)]
  BY <1>1, ConnectFacts
<1>4. ControlTypes /\ Dialplan
  BY DEF ControlInv
<1>5. ControlTypes'
  BY <1>1, <1>2, <1>3, <1>4 DEF ControlTypes, planVars, Answers
<1>6. Dialplan'
  BY <1>1, <1>2, <1>4, ClientFacts DEF Dialplan, ControlTypes, planVars, Before
<1>7. ASSUME NEW p \in Procs PROVE Queue(p)' /\ Request(p)'
  BY <1>1, <1>3, ConnectFacts DEF ControlInv, Request
<1>8. ASSUME NEW p \in Procs, NEW d \in Calls
      PROVE  LastIsOwn(p, d)' /\ KeptFor(p, d)' /\ EndsWith(p, d)'
  <2>1. LastIsOwn(p, d) /\ KeptFor(p, d) /\ EndsWith(p, d)
    BY DEF ControlInv
  <2>2. Joins(p, k)
    BY <1>1, ConnectFacts
  <2>3. LastIsOwn(p, d)'
    <3>1. \A i \in DOMAIN backlog'[p] : backlog'[p][i] = k => i = Len(backlog'[p])
      BY <2>2 DEF Joins
    <3>2. QED
      BY <1>1, <1>3, <2>2, <3>1 DEF LastIsOwn, planVars, Joins
  <2>4. KeptFor(p, d)'
    BY <1>1, <1>2, <1>3, <1>4, <2>1 DEF KeptFor, planVars, ControlTypes
  <2>5. EndsWith(p, d)'
    <3>1. client'[<<d, "clear">>] = client[<<d, "clear">>]
      BY <1>2, <1>4, ClientFacts DEF ControlTypes
    <3>2. QED
      BY <1>1, <1>3, <2>1, <2>2, <3>1 DEF EndsWith, Serves, planVars, Joins
  <2>6. QED
    BY <2>3, <2>4, <2>5
<1>9. QED
  BY <1>5, <1>6, <1>7, <1>8 DEF ControlInv

(* A bridge that serves now hears that the call has ended.                 *)
LEMMA ClearKeeps ==
    ASSUME ControlInv, ChanTypes, BridgeInv, socketOf \in Procs \cup {None},
           NEW c \in Calls, Clear(c)
    PROVE  ControlInv'
<1> DEFINE k == <<c, "clear">>
<1>1. /\ Bridge!Connect(k) /\ chan[c] = "clear" /\ UNCHANGED <<db, ackedBy>> /\ k \in Clients
      /\ chan' = [chan EXCEPT ![c] = "clearing"]
      /\ \A d \in Calls : chan[d] \notin {"syncing", "dialled"}
  BY ClientFacts DEF Clear, Goes, ChanTypes, LockKept, Holding, SettingUp
<1>2. PICK w \in {"waiting", "failed"} : client' = [client EXCEPT ![k] = w]
  BY <1>1, ConnectFacts
<1>3. UNCHANGED <<at, handling, registration>> /\ backlog' \in [Procs -> Seq(Clients)]
  BY <1>1, ConnectFacts
<1>4. ControlTypes /\ Dialplan
  BY DEF ControlInv
<1>5. ControlTypes'
  BY <1>1, <1>2, <1>3, <1>4 DEF ControlTypes, Answers
<1>6. \A d \in Calls : chan'[d] = IF d = c THEN "clearing" ELSE chan[d]
  BY <1>1 DEF ChanTypes
<1>7. Dialplan'
  <2>1. db' # None => chan'[db'] \in Registered
    BY <1>1, <1>4, <1>6 DEF Dialplan, ControlTypes, Registered
  <2>2. ASSUME NEW d \in Calls
        PROVE  /\ client'[<<d, "set">>] = client[<<d, "set">>]
               /\ d # c => client'[<<d, "clear">>] = client[<<d, "clear">>]
    BY <1>2, <1>4, ClientFacts DEF ControlTypes
  <2>3. QED
    BY <1>1, <1>4, <1>6, <2>1, <2>2 DEF Dialplan, Before
<1>8. ASSUME NEW p \in Procs PROVE Queue(p)' /\ Request(p)'
  BY <1>1, <1>3, ConnectFacts DEF ControlInv, Request
<1>9. ASSUME NEW p \in Procs, NEW d \in Calls
      PROVE  LastIsOwn(p, d)' /\ KeptFor(p, d)' /\ EndsWith(p, d)'
  <2>1. LastIsOwn(p, d) /\ KeptFor(p, d) /\ EndsWith(p, d)
    BY DEF ControlInv
  <2>2. /\ \A i \in DOMAIN backlog[p] :
              i \in DOMAIN backlog'[p] /\ backlog'[p][i] = backlog[p][i]
        /\ socketOf = p /\ Bridge!Listening(p) =>
              \E i \in DOMAIN backlog'[p] : backlog'[p][i] = k
    <3>1. Joins(p, k)
      BY <1>1, ConnectFacts
    <3>2. QED
      BY <3>1 DEF Joins
  <2>3. LastIsOwn(p, d)' /\ KeptFor(p, d)'
    BY <1>1, <1>3, <1>6, <2>1 DEF LastIsOwn, KeptFor
  <2>4. CASE d # c
    <3>1. client'[<<d, "clear">>] = client[<<d, "clear">>]
      BY <1>2, <1>4, <2>4, ClientFacts DEF ControlTypes
    <3>2. EndsWith(p, d)'
      BY <1>3, <1>6, <2>1, <2>2, <2>4, <3>1 DEF EndsWith, Serves
    <3>3. QED
      BY <2>3, <3>2
  <2>5. CASE d = c
    <3>1. client'[k] # "IDLE"
      BY <1>2, <1>4, ClientFacts DEF ControlTypes
    <3>2. at[p] = "serving" => socketOf = p /\ Bridge!Listening(p)
      BY DEF BridgeInv, InPlace, Bridge!Listening
    <3>3. EndsWith(p, d)'
      BY <1>3, <1>6, <2>1, <2>2, <2>5, <3>1, <3>2 DEF EndsWith, Serves, Before
    <3>4. QED
      BY <2>3, <3>3
  <2>6. QED
    BY <2>4, <2>5
<1>10. QED
  BY <1>5, <1>7, <1>8, <1>9 DEF ControlInv

(* Only an answer of ACTIVE makes the dialplan dial.                       *)
LEMMA SyncedKeeps ==
    ASSUME ControlInv, ChanTypes, NEW c \in Calls, Synced(c)
    PROVE  ControlInv'
<1> DEFINE k == <<c, "set">>
           to == IF client[k] = "ACTIVE" THEN "dialled" ELSE "hangup"
<1>1. /\ chan[c] = "syncing" /\ chan' = [chan EXCEPT ![c] = to] /\ k \in Clients
      /\ client[k] \in Answers /\ client' = [client EXCEPT ![k] = "gone"]
      /\ UNCHANGED <<db, ackedBy, at, backlog, handling, registration>>
  BY ClientFacts DEF Synced, Goes, Bridge!Seen, Answers
<1>2. ControlTypes /\ Dialplan
  BY DEF ControlInv
<1>3. ControlTypes'
  BY <1>1, <1>2 DEF ControlTypes, Answers
<1>4. /\ \A d \in Calls : chan'[d] = IF d = c THEN to ELSE chan[d]
      /\ \A l \in Clients : client'[l] = IF l = k THEN "gone" ELSE client[l]
  BY <1>1, <1>2 DEF ChanTypes, ControlTypes
<1>5. Dialplan'
  <2>1. db' # None => chan'[db'] \in Registered
    BY <1>1, <1>2, <1>4 DEF Dialplan, ControlTypes, Registered
  <2>2. ASSUME NEW d \in Calls
        PROVE  /\ client'[<<d, "set">>] = IF d = c THEN "gone" ELSE client[<<d, "set">>]
               /\ client'[<<d, "clear">>] = client[<<d, "clear">>]
    BY <1>4, ClientFacts
  <2>3. QED
    BY <1>1, <1>2, <1>4, <2>1, <2>2 DEF Dialplan, Before
<1>6. ASSUME NEW p \in Procs PROVE Queue(p)' /\ Request(p)'
  <2>1. Queue(p) /\ Request(p)
    BY DEF ControlInv
  <2>2. QED
    BY <1>1, <1>4, <2>1, Elements DEF Queue, Request, Requests
<1>7. ASSUME NEW p \in Procs, NEW d \in Calls
      PROVE  LastIsOwn(p, d)' /\ KeptFor(p, d)' /\ EndsWith(p, d)'
  <2>1. LastIsOwn(p, d) /\ KeptFor(p, d) /\ EndsWith(p, d)
    BY DEF ControlInv
  <2>2. /\ client'[<<d, "set">>] = IF d = c THEN "gone" ELSE client[<<d, "set">>]
        /\ client'[<<d, "clear">>] = client[<<d, "clear">>]
    BY <1>4, ClientFacts
  <2>3. LastIsOwn(p, d)'
    BY <1>1, <1>4, <2>1 DEF LastIsOwn
  <2>4. KeptFor(p, d)'
    BY <1>1, <1>4, <2>1, <2>2 DEF KeptFor
  <2>5. EndsWith(p, d)'
    BY <1>1, <1>4, <2>1, <2>2 DEF EndsWith, Serves, Before
  <2>6. QED
    BY <2>3, <2>4, <2>5
<1>8. QED
  BY <1>3, <1>5, <1>6, <1>7 DEF ControlInv
----------------------------------------------------------------------------
(* A bridge goes on, and its control thread with it.                       *)
LEMMA BridgeGoesOn ==
    ASSUME ControlInv, NEW p \in Procs, NEW to, at' = [at EXCEPT ![p] = to],
           at \in [Procs -> Bridge!Steps], at[p] # "gone",
           at[p] \in Answering => to \in Answering,
           to = "serving" => at[p] = "insert",
           UNCHANGED <<planVars, backlog, handling, client, registration>>
    PROVE  ControlInv'
<1> USE DEF planVars
<1>1. ControlTypes' /\ Dialplan'
  BY DEF ControlInv, ControlTypes, Dialplan
<1>2. ASSUME NEW q \in Procs PROVE Queue(q)' /\ Request(q)'
  BY DEF ControlInv, Queue, Request
<1>3. ASSUME NEW q \in Procs, NEW c \in Calls
      PROVE  LastIsOwn(q, c)' /\ KeptFor(q, c)' /\ EndsWith(q, c)'
  <2>1. LastIsOwn(q, c) /\ KeptFor(q, c) /\ EndsWith(q, c) /\ Request(q)
    BY DEF ControlInv
  <2>2. LastIsOwn(q, c)'
    BY <2>1 DEF LastIsOwn
  <2>3. at'[q] = IF q = p THEN to ELSE at[q]
    OBVIOUS
  <2>4. KeptFor(q, c)'
    BY <2>1, <2>3 DEF KeptFor, Answering
  <2>5. Serves(q, c) => at[q] \in Answering
    BY <2>1, Elements, ClientFacts DEF Serves, Request, Requests
  <2>6. EndsWith(q, c)'
    BY <2>1, <2>3, <2>5 DEF EndsWith, Serves, Answering
  <2>7. QED
    BY <2>2, <2>4, <2>6
<1>4. QED
  BY <1>1, <1>2, <1>3 DEF ControlInv

(* Some clients see that they will get no answer.                          *)
ClientsFail ==
    /\ client' \in [Clients -> Answers \cup {"idle", "waiting", "gone"}]
    /\ \A k \in Clients :
          client'[k] = client[k] \/ (client[k] = "waiting" /\ client'[k] = "failed")

(* A client that fails was waiting, so the dialplan has not moved on.      *)
LEMMA DialplanSeesFailure ==
    ASSUME ControlInv, ClientsFail, UNCHANGED planVars
    PROVE  Dialplan'
<1>1. ASSUME NEW c \in Calls, NEW w \in {"set", "clear"}
      PROVE  /\ client[<<c, w>>] \in {"idle", "gone"} => client'[<<c, w>>] = client[<<c, w>>]
             /\ client'[<<c, w>>] = "ACTIVE" => client[<<c, w>>] = "ACTIVE"
  BY ClientFacts DEF ClientsFail
<1>2. QED
  BY <1>1 DEF ControlInv, Dialplan, planVars

(* A client gives up; its connection stays in the queue.                   *)
LEMMA ClientsFailing ==
    ASSUME ControlInv, ClientsFail, UNCHANGED <<planVars, at, backlog, handling, registration>>
    PROVE  ControlInv'
<1>1. ControlTypes'
  BY DEF ControlInv, ControlTypes, ClientsFail, planVars
<1>2. ASSUME NEW p \in Procs PROVE Queue(p)' /\ Request(p)'
  BY Elements DEF ControlInv, Queue, Request, Requests, ClientsFail
<1>3. ASSUME NEW p \in Procs, NEW c \in Calls
      PROVE  LastIsOwn(p, c)' /\ KeptFor(p, c)' /\ EndsWith(p, c)'
  <2>1. LastIsOwn(p, c) /\ KeptFor(p, c) /\ EndsWith(p, c)
    BY DEF ControlInv
  <2>2. /\ client'[<<c, "set">>] = "ACTIVE" => client[<<c, "set">>] = "ACTIVE"
        /\ client'[<<c, "clear">>] = "IDLE" => client[<<c, "clear">>] = "IDLE"
    BY ClientFacts DEF ClientsFail
  <2>3. LastIsOwn(p, c)'
    BY <2>1 DEF LastIsOwn, planVars
  <2>4. KeptFor(p, c)'
    BY <2>1, <2>2 DEF KeptFor, planVars
  <2>5. EndsWith(p, c)'
    BY <2>1, <2>2 DEF EndsWith, Serves, planVars
  <2>6. QED
    BY <2>3, <2>4, <2>5
<1>4. QED
  BY <1>1, <1>2, <1>3, DialplanSeesFailure DEF ControlInv

(* A bridge that stops lets the clients down that wait for it.             *)
LEMMA BridgeEnds ==
    ASSUME ControlInv, ClientsFail, UNCHANGED planVars, NEW p \in Procs, NEW to,
           at \in [Procs -> Bridge!Steps], at' = [at EXCEPT ![p] = to],
           backlog' = [backlog EXCEPT ![p] = <<>>],
           \/ /\ to = "gone"
              /\ handling' = [handling EXCEPT ![p] = Bridge!NoRequest]
              /\ registration' = [registration EXCEPT ![p] = None]
           \/ to = "stopUnlink" /\ at[p] = "stopClose" /\ UNCHANGED <<handling, registration>>
    PROVE  ControlInv'
<1>1. ControlTypes
  BY DEF ControlInv
<1>2. Bridge!NoRequest \in Requests /\ <<>> \in Seq(Clients)
  BY EmptySeq DEF Bridge!NoRequest, Requests
<1>3. ControlTypes'
  BY <1>1, <1>2 DEF ControlTypes, ClientsFail, planVars
<1>4. /\ at'[p] = to /\ backlog'[p] = <<>> /\ DOMAIN backlog'[p] = {}
      /\ \/ to = "gone" /\ handling'[p] = Bridge!NoRequest /\ registration'[p] = None
         \/ /\ to = "stopUnlink" /\ at[p] = "stopClose"
            /\ handling'[p] = handling[p] /\ registration'[p] = registration[p]
  BY <1>1 DEF ControlTypes
<1>5. \A q \in Procs \ {p} : /\ at'[q] = at[q] /\ backlog'[q] = backlog[q]
                             /\ handling'[q] = handling[q]
                             /\ registration'[q] = registration[q]
  BY <1>1 DEF ControlTypes
<1>6. ASSUME NEW q \in Procs PROVE Queue(q)' /\ Request(q)'
  <2>1. Queue(q) /\ Request(q)
    BY DEF ControlInv
  <2>2. CASE q = p
    <3>1. handling'[p].client # None => handling'[p] = handling[p]
      BY <1>4 DEF Bridge!NoRequest
    <3>2. Queue(q)'
      BY <1>4, <2>1, <2>2, <3>1, Elements DEF Queue, Requests, ClientsFail
    <3>3. Request(q)'
      BY <1>4, <2>1, <2>2 DEF Request, Bridge!NoRequest, Answering
    <3>4. QED
      BY <3>2, <3>3
  <2>3. CASE q # p
    <3>1. /\ at'[q] = at[q] /\ backlog'[q] = backlog[q] /\ handling'[q] = handling[q]
          /\ registration'[q] = registration[q]
      BY <1>5, <2>3
    <3>2. \A k \in Clients : client[k] # "idle" => client'[k] # "idle"
      BY DEF ClientsFail
    <3>3. Queue(q)'
      BY <2>1, <3>1, <3>2, Elements DEF Queue, Requests
    <3>4. Request(q)'
      BY <2>1, <3>1 DEF Request
    <3>5. QED
      BY <3>3, <3>4
  <2>4. QED
    BY <2>2, <2>3
<1>7. ASSUME NEW q \in Procs, NEW c \in Calls
      PROVE  LastIsOwn(q, c)' /\ KeptFor(q, c)' /\ EndsWith(q, c)'
  <2>1. LastIsOwn(q, c) /\ KeptFor(q, c) /\ EndsWith(q, c)
    BY DEF ControlInv
  <2>2. /\ client'[<<c, "set">>] = "ACTIVE" => client[<<c, "set">>] = "ACTIVE"
        /\ client'[<<c, "clear">>] = "IDLE" => client[<<c, "clear">>] = "IDLE"
    BY ClientFacts DEF ClientsFail
  <2>3. CASE q = p
    <3>1. handling'[p] = Bridge!NoRequest =>
             handling'[p].client = None /\ handling'[p].value = None
      BY DEF Bridge!NoRequest
    <3>2. LastIsOwn(q, c)'
      BY <1>4, <2>1, <2>3, <3>1, ClientFacts DEF LastIsOwn, planVars
    <3>3. KeptFor(q, c)'
      BY <1>4, <2>1, <2>2, <2>3 DEF KeptFor, planVars, Answering
    <3>4. EndsWith(q, c)'
      BY <1>4, <2>1, <2>2, <2>3, <3>1, ClientFacts DEF EndsWith, Serves, planVars
    <3>5. QED
      BY <3>2, <3>3, <3>4
  <2>4. CASE q # p
    <3>1. /\ at'[q] = at[q] /\ backlog'[q] = backlog[q] /\ handling'[q] = handling[q]
          /\ registration'[q] = registration[q]
      BY <1>5, <2>4
    <3>2. LastIsOwn(q, c)'
      BY <2>1, <3>1 DEF LastIsOwn, planVars
    <3>3. KeptFor(q, c)'
      BY <2>1, <2>2, <3>1 DEF KeptFor, planVars
    <3>4. EndsWith(q, c)'
      BY <2>1, <2>2, <3>1 DEF EndsWith, Serves, planVars
    <3>5. QED
      BY <3>2, <3>3, <3>4
  <2>5. QED
    BY <2>3, <2>4
<1>8. QED
  BY <1>3, <1>6, <1>7, DialplanSeesFailure DEF ControlInv

(* A process of the bridge starts, goes on, stops or dies.                 *)
LEMMA ProcessesKeep ==
    ASSUME ControlInv, BridgeInv, UNCHANGED planVars, NEW p \in Procs,
           (\E cleans \in BOOLEAN : Bridge!Start(p, cleans)) \/ Bridge!ProcessNext(p)
    PROVE  ControlInv'
<1>1. ControlTypes /\ at \in [Procs -> Bridge!Steps] /\ Request(p)
  BY DEF ControlInv, BridgeInv
<1>2. ASSUME NEW ks, Bridge!LetDown(ks) PROVE ClientsFail
  BY <1>1, <1>2 DEF Bridge!LetDown, ClientsFail, ControlTypes, Answers
<1>3. ASSUME Bridge!Exit(p) PROVE ControlInv'
  <2>1. ClientsFail
    BY <1>2, <1>3 DEF Bridge!Exit
  <2>2. /\ at' = [at EXCEPT ![p] = "gone"] /\ backlog' = [backlog EXCEPT ![p] = <<>>]
        /\ handling' = [handling EXCEPT ![p] = Bridge!NoRequest]
        /\ registration' = [registration EXCEPT ![p] = None]
    BY <1>3 DEF Bridge!Exit, Bridge!Goes
  <2>3. QED
    BY <1>1, <2>1, <2>2, BridgeEnds
<1>4. ASSUME NEW to, at' = [at EXCEPT ![p] = to], at[p] # "gone",
             at[p] \in Answering => to \in Answering, to = "serving" => at[p] = "insert",
             UNCHANGED <<backlog, handling, client, registration>>
      PROVE  ControlInv'
  BY <1>1, <1>4, BridgeGoesOn
<1>5. ASSUME NEW cleans \in BOOLEAN, Bridge!Start(p, cleans) PROVE ControlInv'
  <2>1. PICK to \in {"purge", "gone"} : at' = [at EXCEPT ![p] = to]
    BY <1>5 DEF Bridge!Start, Bridge!NeedsLock, Bridge!Goes
  <2>2. at[p] = "off" /\ UNCHANGED <<backlog, handling, client, registration>>
    BY <1>5 DEF Bridge!Start, Bridge!control
  <2>3. QED
    BY <1>4, <2>1, <2>2 DEF Answering
<1> USE DEF Bridge!control, Bridge!Goes, Answering
<1>6. CASE Bridge!RemoveRule(p)
  <2>1. CASE UNCHANGED at /\ UNCHANGED Bridge!control
    BY <2>1, ControlFrame
  <2>2. CASE Bridge!Goes(p, Bridge!AfterPurge(at[p])) /\ UNCHANGED Bridge!control
    BY <1>4, <1>6, <2>2 DEF Bridge!RemoveRule, Bridge!AfterPurge
  <2>3. QED
    BY <1>3, <1>6, <2>1, <2>2 DEF Bridge!RemoveRule
<1>7. CASE Bridge!Unlink(p)
  BY <1>4, <1>7 DEF Bridge!Unlink
<1>8. CASE Bridge!BindQueue(p)
  BY <1>4, <1>8 DEF Bridge!BindQueue
<1>9. CASE Bridge!BindControl(p)
  <2>1. registration[p] = None
    BY <1>1, <1>9 DEF Request, Bridge!BindControl
  <2>2. UNCHANGED registration
    BY <1>1, <1>9, <2>1 DEF ControlTypes, Bridge!BindControl
  <2>3. QED
    BY <1>4, <1>9, <2>2 DEF Bridge!BindControl
<1>10. CASE Bridge!InsertRule(p)
  BY <1>4, <1>10 DEF Bridge!InsertRule
<1>11. CASE Bridge!Stop(p)
  BY <1>4, <1>11 DEF Bridge!Stop
<1>12. CASE Bridge!Close(p)
  <2>1. ClientsFail
    BY <1>2, <1>12 DEF Bridge!Close
  <2>2. /\ at' = [at EXCEPT ![p] = "stopUnlink"] /\ backlog' = [backlog EXCEPT ![p] = <<>>]
        /\ at[p] = "stopClose" /\ UNCHANGED <<handling, registration>>
    BY <1>12 DEF Bridge!Close
  <2>3. QED
    BY <1>1, <2>1, <2>2, BridgeEnds
<1>13. CASE Bridge!Abort(p) \/ Bridge!Ends(p)
  BY <1>3, <1>13 DEF Bridge!Abort, Bridge!Ends
<1>14. QED
  BY <1>5, <1>6, <1>7, <1>8, <1>9, <1>10, <1>11, <1>12, <1>13 DEF Bridge!ProcessNext
----------------------------------------------------------------------------
(* A step of one control thread: what it says of the others stays.         *)
Own(p) ==
    /\ Queue(p)' /\ Request(p)'
    /\ \A c \in Calls : LastIsOwn(p, c)' /\ KeptFor(p, c)' /\ EndsWith(p, c)'

(* It is enough that its own part holds again.                             *)
LEMMA ThreadFrame ==
    ASSUME ControlInv, NEW p \in Procs, ControlTypes', Dialplan', Own(p),
           UNCHANGED <<chan, db, at>>,
           \A q \in Procs \ {p} :
              /\ backlog'[q] = backlog[q] /\ handling'[q] = handling[q]
              /\ registration'[q] = registration[q]
              /\ \A c \in Calls : Serves(q, c) => client'[<<c, "clear">>] # "IDLE",
           \A k \in Clients : /\ client'[k] = "idle" => client[k] = "idle"
                              /\ client[k] = "idle" => client'[k] = "idle",
           \A c \in Calls :
              \/ ackedBy'[c] = p
              \/ /\ ackedBy'[c] = ackedBy[c]
                 /\ client'[<<c, "set">>] = "ACTIVE" => client[<<c, "set">>] = "ACTIVE"
    PROVE  ControlInv'
<1>1. ASSUME NEW q \in Procs, q # p
      PROVE  Queue(q)' /\ Request(q)'
  <2>1. Queue(q) /\ Request(q) /\ backlog'[q] = backlog[q] /\ handling'[q] = handling[q]
        /\ registration'[q] = registration[q]
    BY <1>1 DEF ControlInv
  <2>2. Queue(q)'
    BY <2>1, Elements DEF Queue, Requests
  <2>3. Request(q)'
    BY <2>1 DEF Request
  <2>4. QED
    BY <2>2, <2>3
<1>2. ASSUME NEW q \in Procs, NEW c \in Calls, q # p
      PROVE  LastIsOwn(q, c)' /\ KeptFor(q, c)' /\ EndsWith(q, c)'
  <2>1. LastIsOwn(q, c) /\ KeptFor(q, c) /\ EndsWith(q, c)
    BY DEF ControlInv
  <2>2. /\ backlog'[q] = backlog[q] /\ handling'[q] = handling[q]
        /\ registration'[q] = registration[q]
        /\ Serves(q, c) => client'[<<c, "clear">>] # "IDLE"
    BY <1>2
  <2>3. LastIsOwn(q, c)'
    BY <2>1, <2>2 DEF LastIsOwn
  <2>4. KeptFor(q, c)'
    BY <1>2, <2>1, <2>2 DEF KeptFor
  <2>5. EndsWith(q, c)'
    BY <2>1, <2>2 DEF EndsWith, Serves
  <2>6. QED
    BY <2>3, <2>4, <2>5
<1>3. QED
  BY <1>1, <1>2 DEF ControlInv, Own

(* Only the process with the lock has something to register.               *)
LEMMA OneAnswers ==
    ASSUME ControlInv, BridgeInv, NEW p \in Procs, handling[p].stage # "none",
           NEW q \in Procs, q # p, NEW c \in Calls
    PROVE  ~Serves(q, c)
<1>1. /\ Request(p) /\ Request(q) /\ handling[q] \in Requests
      /\ Locked(p) /\ Locked(q)
  BY Elements DEF ControlInv, BridgeInv
<1>2. at[p] \in Answering
  BY <1>1 DEF Request
<1>3. at[q] \notin Answering
  BY <1>1, <1>2 DEF Locked, Answering
<1>4. QED
  BY <1>1, <1>3, ClientFacts DEF Request, Requests, Serves

(* The oldest request is taken from the queue.                             *)
LEMMA AcceptKeeps ==
    ASSUME ControlInv, UNCHANGED planVars, NEW p \in Procs, Bridge!Accept(p)
    PROVE  ControlInv'
<1> DEFINE k == backlog[p][1]
<1>1. /\ at[p] \in {"serving", "stopPurge"} /\ handling[p] = Bridge!NoRequest
      /\ backlog[p] # <<>> /\ k \in Clients
      /\ handling' = [handling EXCEPT ![p] =
                           [stage |-> "query", client |-> k, value |-> None]]
      /\ backlog' = [backlog EXCEPT ![p] = Bridge!Without(backlog[p], 1)]
      /\ UNCHANGED <<at, registration, client>>
  <2>1. 1 \in DOMAIN backlog[p]
    BY DEF Bridge!Accept, Bridge!NextOfBacklog
  <2>2. /\ at[p] \in {"serving", "stopPurge"} /\ handling[p] = Bridge!NoRequest
        /\ handling' = [handling EXCEPT ![p] =
                           [stage |-> "query", client |-> k, value |-> None]]
        /\ backlog' = [backlog EXCEPT ![p] = Bridge!Without(backlog[p], 1)]
        /\ UNCHANGED <<at, registration, client>>
    BY <2>1 DEF Bridge!Accept, Bridge!NextOfBacklog
  <2>3. backlog[p] # <<>> /\ k \in Clients
    BY <2>1, Elements
  <2>4. QED
    BY <2>2, <2>3
<1>2. ControlTypes /\ Queue(p) /\ Request(p)
  BY DEF ControlInv
<1>3. /\ backlog[p] \in Seq(Clients) /\ Len(backlog[p]) \in Nat \ {0}
      /\ DOMAIN backlog[p] = 1 .. Len(backlog[p])
      /\ backlog'[p] \in Seq(Clients)
      /\ Len(backlog'[p]) = Len(backlog[p]) - 1
      /\ DOMAIN backlog'[p] = 1 .. Len(backlog[p]) - 1
      /\ \A i \in DOMAIN backlog'[p] :
            i + 1 \in DOMAIN backlog[p] /\ backlog'[p][i] = backlog[p][i + 1]
  <2>1. backlog[p] \in Seq(Clients) /\ backlog'[p] = Bridge!Without(backlog[p], 1)
    BY <1>1, <1>2 DEF ControlTypes
  <2>2. QED
    BY <1>1, <2>1, WithoutFacts
<1>4. /\ handling'[p].stage = "query" /\ handling'[p].client = k /\ handling'[p].value = None
      /\ handling[p].stage = "none" /\ handling[p].client = None /\ handling[p].value = None
  BY <1>1, <1>2 DEF ControlTypes, Bridge!NoRequest
<1>5. ControlTypes'
  <2>1. [stage |-> "query", client |-> k, value |-> None] \in Requests
    BY <1>1 DEF Requests
  <2>2. handling' \in [Procs -> Requests]
    BY <1>1, <1>2, <2>1 DEF ControlTypes
  <2>3. Bridge!Without(backlog[p], 1) \in Seq(Clients)
    BY <1>1, <1>3, WithoutFacts
  <2>4. backlog' \in [Procs -> Seq(Clients)]
    BY <1>1, <1>2, <2>3 DEF ControlTypes
  <2>5. QED
    BY <1>1, <1>2, <2>2, <2>4 DEF ControlTypes, planVars
<1>6. Dialplan'
  BY <1>1 DEF ControlInv, Dialplan, planVars
<1>7. Queue(p)'
  <2>1. ASSUME NEW i \in DOMAIN backlog'[p]
        PROVE  client'[backlog'[p][i]] # "idle" /\ handling'[p].client # backlog'[p][i]
               /\ \A j \in DOMAIN backlog'[p] : backlog'[p][i] = backlog'[p][j] => i = j
    <3>1. i + 1 \in DOMAIN backlog[p] /\ backlog'[p][i] = backlog[p][i + 1] /\ i \in Nat \ {0}
      BY <1>3, <2>1
    <3>2. 1 \in DOMAIN backlog[p] /\ k # backlog[p][i + 1]
      BY <1>2, <1>3, <3>1 DEF Queue
    <3>3. ASSUME NEW j \in DOMAIN backlog'[p], backlog'[p][i] = backlog'[p][j] PROVE i = j
      <4>1. /\ j + 1 \in DOMAIN backlog[p] /\ backlog'[p][j] = backlog[p][j + 1]
            /\ j \in Nat \ {0}
        BY <1>3
      <4>2. i + 1 = j + 1
        BY <1>2, <3>1, <3>3, <4>1 DEF Queue
      <4>3. QED
        BY <3>1, <4>1, <4>2
    <3>4. QED
      BY <1>1, <1>2, <1>4, <3>1, <3>2, <3>3 DEF Queue
  <2>2. client'[k] # "idle"
    BY <1>1, <1>2, <1>3 DEF Queue
  <2>3. QED
    BY <1>4, <2>1, <2>2 DEF Queue
<1>8. Request(p)'
  BY <1>1, <1>2, <1>4, ClientFacts DEF Request, Answering
<1>9. ASSUME NEW c \in Calls PROVE LastIsOwn(p, c)' /\ KeptFor(p, c)' /\ EndsWith(p, c)'
  <2>1. LastIsOwn(p, c) /\ KeptFor(p, c) /\ EndsWith(p, c)
    BY DEF ControlInv
  <2>2. LastIsOwn(p, c)'
    <3>1. SUFFICES ASSUME chan[c] = "syncing"
          PROVE  /\ \A i \in DOMAIN backlog'[p] :
                       backlog'[p][i] = <<c, "set">> => i = Len(backlog'[p])
                 /\ k = <<c, "set">> => backlog'[p] = <<>>
      BY <1>1, <1>4 DEF LastIsOwn, planVars
    <3>2. \A i \in DOMAIN backlog[p] : backlog[p][i] = <<c, "set">> => i = Len(backlog[p])
      BY <2>1, <3>1 DEF LastIsOwn
    <3>3. ASSUME NEW i \in DOMAIN backlog'[p], backlog'[p][i] = <<c, "set">>
          PROVE  i = Len(backlog'[p])
      <4>1. i + 1 \in DOMAIN backlog[p] /\ backlog[p][i + 1] = <<c, "set">> /\ i \in Nat \ {0}
        BY <1>3, <3>3
      <4>2. i + 1 = Len(backlog[p])
        BY <3>2, <4>1
      <4>3. QED
        BY <1>3, <4>1, <4>2
    <3>4. ASSUME k = <<c, "set">> PROVE backlog'[p] = <<>>
      <4>1. 1 \in DOMAIN backlog[p]
        BY <1>3
      <4>2. 1 = Len(backlog[p])
        BY <3>2, <3>4, <4>1
      <4>3. Len(backlog'[p]) = 0
        BY <1>3, <4>2
      <4>4. QED
        BY <1>3, <4>3, EmptySeq
    <3>5. QED
      BY <3>3, <3>4
  <2>3. KeptFor(p, c)'
    BY <1>1, <2>1 DEF KeptFor, planVars
  <2>4. EndsWith(p, c)'
    <3>1. c # None
      BY ClientFacts
    <3>2. Serves(p, c)' <=> Serves(p, c)
      BY <1>1, <1>4 DEF Serves
    <3>3. ASSUME NEW i \in DOMAIN backlog[p], backlog[p][i] = <<c, "clear">>
          PROVE  \/ k = <<c, "clear">>
                 \/ \E j \in DOMAIN backlog'[p] : backlog'[p][j] = <<c, "clear">>
      <4>1. CASE i = 1
        BY <3>3, <4>1
      <4>2. CASE i # 1
        <5>1. i - 1 \in DOMAIN backlog'[p] /\ (i - 1) + 1 = i
          BY <1>3, <4>2
        <5>2. backlog'[p][i - 1] = backlog[p][i]
          BY <1>3, <5>1
        <5>3. QED
          BY <3>3, <5>1, <5>2
      <4>3. QED
        BY <4>1, <4>2
    <3>4. QED
      BY <1>1, <1>4, <2>1, <3>1, <3>2, <3>3, ClientFacts DEF EndsWith, planVars
  <2>5. QED
    BY <2>2, <2>3, <2>4
<1>10. \A q \in Procs \ {p} :
          /\ backlog'[q] = backlog[q] /\ handling'[q] = handling[q]
          /\ registration'[q] = registration[q]
          /\ \A c \in Calls : Serves(q, c) => client'[<<c, "clear">>] # "IDLE"
  BY <1>1, <1>2 DEF ControlTypes, ControlInv, EndsWith
<1>11. QED
  BY <1>1, <1>5, <1>6, <1>7, <1>8, <1>9, <1>10, ThreadFrame DEF Own, planVars

(* The database says which call is set up now.                             *)
LEMMA QueryKeeps ==
    ASSUME ControlInv, UNCHANGED planVars, NEW p \in Procs, Bridge!Query(p, db)
    PROVE  ControlInv'
<1>1. /\ handling[p].stage = "query"
      /\ handling' = [handling EXCEPT ![p].stage = "assign", ![p].value = db]
      /\ UNCHANGED <<at, backlog, registration, client>>
  BY DEF Bridge!Query
<1>2. ControlTypes /\ Dialplan /\ Queue(p) /\ Request(p)
  BY DEF ControlInv
<1>3. /\ handling'[p].stage = "assign" /\ handling'[p].client = handling[p].client
      /\ handling'[p].value = db /\ handling[p].client \in Clients
      /\ handling' \in [Procs -> Requests]
      /\ \A q \in Procs \ {p} : handling'[q] = handling[q]
  BY <1>1, <1>2, Elements DEF ControlTypes, Request, Requests
<1>4. ControlTypes' /\ Dialplan'
  BY <1>1, <1>2, <1>3 DEF ControlTypes, Dialplan, planVars
<1>5. Queue(p)' /\ Request(p)'
  BY <1>1, <1>2, <1>3, ClientFacts DEF Queue, Request
<1>6. ASSUME NEW c \in Calls PROVE LastIsOwn(p, c)' /\ KeptFor(p, c)' /\ EndsWith(p, c)'
  <2>1. LastIsOwn(p, c) /\ KeptFor(p, c) /\ EndsWith(p, c)
    BY DEF ControlInv
  <2>2. LastIsOwn(p, c)'
    BY <1>1, <1>2, <1>3, <2>1 DEF LastIsOwn, Dialplan, planVars
  <2>3. KeptFor(p, c)'
    BY <1>1, <2>1 DEF KeptFor, planVars, Bridge!NoRequest
  <2>4. EndsWith(p, c)'
    <3>1. db = c => chan[c] \in Registered /\ client[<<c, "clear">>] = "idle"
      BY <1>2, ClientFacts DEF Dialplan, Registered
    <3>2. Serves(p, c)' => Serves(p, c) \/ db = c
      BY <1>1, <1>3 DEF Serves
    <3>3. handling[p].client = <<c, "clear">> => db # c
      BY <1>2, <1>3, <3>1, ClientFacts DEF Queue
    <3>4. QED
      BY <1>1, <1>3, <2>1, <3>1, <3>2, <3>3 DEF EndsWith, planVars, Registered, Before
  <2>5. QED
    BY <2>2, <2>3, <2>4
<1>7. \A q \in Procs \ {p} :
         /\ backlog'[q] = backlog[q] /\ handling'[q] = handling[q]
         /\ registration'[q] = registration[q]
         /\ \A c \in Calls : Serves(q, c) => client'[<<c, "clear">>] # "IDLE"
  BY <1>1, <1>3 DEF ControlInv, EndsWith
<1>8. QED
  BY <1>1, <1>4, <1>5, <1>6, <1>7, ThreadFrame DEF Own, planVars

(* The call that was current when the database was read is registered.     *)
LEMMA AssignKeeps ==
    ASSUME ControlInv, UNCHANGED planVars, NEW p \in Procs, Bridge!Assign(p)
    PROVE  ControlInv'
<1>1. /\ handling[p].stage = "assign"
      /\ handling' = [handling EXCEPT ![p].stage = "reply"]
      /\ registration' = [registration EXCEPT ![p] = handling[p].value]
      /\ UNCHANGED <<at, backlog, client>>
  BY DEF Bridge!Assign, Bridge!Assigned
<1>2. ControlTypes /\ Queue(p) /\ Request(p)
  BY DEF ControlInv
<1>3. /\ handling'[p].stage = "reply" /\ handling'[p].client = handling[p].client
      /\ handling'[p].value = handling[p].value /\ registration'[p] = handling[p].value
      /\ handling' \in [Procs -> Requests] /\ registration' \in [Procs -> Calls \cup {None}]
      /\ \A q \in Procs \ {p} :
            handling'[q] = handling[q] /\ registration'[q] = registration[q]
  BY <1>1, <1>2, Elements DEF ControlTypes, Requests
<1>4. ControlTypes' /\ Dialplan'
  BY <1>1, <1>2, <1>3 DEF ControlTypes, ControlInv, Dialplan, planVars
<1>5. Queue(p)' /\ Request(p)'
  BY <1>1, <1>2, <1>3, ClientFacts DEF Queue, Request
<1>6. ASSUME NEW c \in Calls PROVE LastIsOwn(p, c)' /\ KeptFor(p, c)' /\ EndsWith(p, c)'
  <2>1. LastIsOwn(p, c) /\ KeptFor(p, c) /\ EndsWith(p, c)
    BY DEF ControlInv
  <2>2. LastIsOwn(p, c)'
    BY <1>1, <1>3, <2>1 DEF LastIsOwn, planVars
  <2>3. KeptFor(p, c)'
    BY <1>1, <2>1 DEF KeptFor, planVars, Bridge!NoRequest
  <2>4. EndsWith(p, c)'
    BY <1>1, <1>3, <2>1 DEF EndsWith, Serves, planVars
  <2>5. QED
    BY <2>2, <2>3, <2>4
<1>7. \A q \in Procs \ {p} :
         /\ backlog'[q] = backlog[q] /\ handling'[q] = handling[q]
         /\ registration'[q] = registration[q]
         /\ \A c \in Calls : Serves(q, c) => client'[<<c, "clear">>] # "IDLE"
  BY <1>1, <1>3 DEF ControlInv, EndsWith
<1>8. QED
  BY <1>1, <1>4, <1>5, <1>6, <1>7, ThreadFrame DEF Own, planVars
(* A request that gets no answer ends the registration.                    *)
LEMMA RequestFails ==
    ASSUME ControlInv, UNCHANGED planVars, ClientsFail, NEW p \in Procs,
           handling[p].stage # "none",
           handling' = [handling EXCEPT ![p] = Bridge!NoRequest],
           registration' = [registration EXCEPT ![p] = None],
           UNCHANGED <<at, backlog>>
    PROVE  ControlInv'
<1>1. ControlTypes /\ Queue(p)
  BY DEF ControlInv
<1>2. /\ handling'[p] = Bridge!NoRequest /\ registration'[p] = None
      /\ handling'[p].stage = "none" /\ handling'[p].client = None /\ handling'[p].value = None
      /\ handling' \in [Procs -> Requests] /\ registration' \in [Procs -> Calls \cup {None}]
      /\ \A q \in Procs \ {p} :
            handling'[q] = handling[q] /\ registration'[q] = registration[q]
  BY <1>1 DEF ControlTypes, Bridge!NoRequest, Requests
<1>3. ControlTypes' /\ Dialplan'
  BY <1>1, <1>2, DialplanSeesFailure DEF ControlTypes, ClientsFail, planVars
<1>4. \A k \in Clients : client'[k] = "idle" <=> client[k] = "idle"
  BY DEF ClientsFail
<1>5. Queue(p)' /\ Request(p)'
  BY <1>1, <1>2, <1>4, ClientFacts, Elements DEF Queue, Request
<1>6. ASSUME NEW c \in Calls
      PROVE  /\ client'[<<c, "set">>] = "ACTIVE" => client[<<c, "set">>] = "ACTIVE"
             /\ client'[<<c, "clear">>] = "IDLE" => client[<<c, "clear">>] = "IDLE"
  BY ClientFacts DEF ClientsFail
<1>7. ASSUME NEW c \in Calls PROVE LastIsOwn(p, c)' /\ KeptFor(p, c)' /\ EndsWith(p, c)'
  <2>1. LastIsOwn(p, c) /\ KeptFor(p, c) /\ EndsWith(p, c)
    BY DEF ControlInv
  <2>2. LastIsOwn(p, c)'
    <3>1. backlog' = backlog /\ chan' = chan
      BY DEF planVars
    <3>2. handling'[p].client # <<c, "set">>
      <4>1. <<c, "set">> \in Clients /\ None \notin Clients
        BY ClientFacts
      <4>2. handling'[p].client = None
        BY <1>2
      <4>3. QED
        BY <4>1, <4>2
    <3>3. QED
      BY <2>1, <3>1, <3>2 DEF LastIsOwn
  <2>3. KeptFor(p, c)'
    <3>1. handling[p] # Bridge!NoRequest
      BY DEF Bridge!NoRequest
    <3>2. UNCHANGED <<chan, ackedBy, at, backlog>>
      BY DEF planVars
    <3>3. QED
      BY <1>6, <2>1, <3>1, <3>2 DEF KeptFor
  <2>4. EndsWith(p, c)'
    BY <1>2, ClientFacts DEF EndsWith, Serves
  <2>5. QED
    BY <2>2, <2>3, <2>4
<1>8. \A q \in Procs \ {p} :
         /\ backlog'[q] = backlog[q] /\ handling'[q] = handling[q]
         /\ registration'[q] = registration[q]
         /\ \A c \in Calls : Serves(q, c) => client'[<<c, "clear">>] # "IDLE"
  BY <1>2, <1>6 DEF ControlInv, EndsWith
<1>9. QED
  BY <1>3, <1>4, <1>5, <1>6, <1>7, <1>8, ThreadFrame DEF Own, planVars

(* A client that still waits is told what was registered.                  *)
LEMMA AnswerKeeps ==
    ASSUME ControlInv, BridgeInv, NEW p \in Procs, Reply(p),
           client[handling[p].client] = "waiting"
    PROVE  ControlInv'
<1> DEFINE k == handling[p].client
           answer == IF handling[p].value = None THEN "IDLE" ELSE "ACTIVE"
<1>1. /\ handling[p].stage = "reply" /\ client' = [client EXCEPT ![k] = answer]
      /\ handling' = [handling EXCEPT ![p] = Bridge!NoRequest]
      /\ UNCHANGED <<chan, callLock, db, at, backlog, registration>>
      /\ ackedBy' = [c \in Calls |->
                        IF client'[<<c, "set">>] = "ACTIVE" /\ client[<<c, "set">>] = "waiting"
                        THEN p ELSE ackedBy[c]]
  BY DEF Reply, Bridge!Reply
<1>2. ControlTypes /\ Dialplan /\ Queue(p) /\ Request(p)
  BY DEF ControlInv
<1>3. /\ k \in Clients /\ registration[p] = handling[p].value /\ at[p] \in Answering
      /\ handling[p].value \in Calls \cup {None}
  BY <1>1, <1>2, Elements DEF Request, Requests
<1>4. /\ handling'[p] = Bridge!NoRequest
      /\ handling'[p].stage = "none" /\ handling'[p].client = None /\ handling'[p].value = None
      /\ handling' \in [Procs -> Requests]
      /\ \A q \in Procs \ {p} : handling'[q] = handling[q]
  BY <1>1, <1>2 DEF ControlTypes, Bridge!NoRequest, Requests
<1>5. \A l \in Clients : client'[l] = IF l = k THEN answer ELSE client[l]
  BY <1>1, <1>2 DEF ControlTypes
<1>6. ControlTypes'
  <2>1. client' \in [Clients -> Answers \cup {"idle", "waiting", "gone"}]
    BY <1>1, <1>2 DEF ControlTypes, Answers
  <2>2. ackedBy' \in [Calls -> Procs \cup {None}]
    BY <1>1, <1>2 DEF ControlTypes
  <2>3. QED
    BY <1>1, <1>2, <1>4, <2>1, <2>2 DEF ControlTypes
(* A call that is told ACTIVE is the one that is set up.                   *)
<1>7. ASSUME NEW c \in Calls
      PROVE  \/ /\ k = <<c, "set">> /\ chan[c] = "syncing" /\ client'[<<c, "set">>] = answer
                /\ handling[p].value = c /\ backlog[p] = <<>>
                /\ answer = "ACTIVE" /\ ackedBy'[c] = p
             \/ /\ k # <<c, "set">> /\ client'[<<c, "set">>] = client[<<c, "set">>]
                /\ ackedBy'[c] = ackedBy[c]
  <2>1. CASE k = <<c, "set">>
    <3>1. chan[c] = "syncing"
      BY <1>2, <1>3, <2>1 DEF Dialplan, Before
    <3>2. handling[p].value = c /\ backlog[p] = <<>>
      BY <1>1, <2>1, <3>1 DEF ControlInv, LastIsOwn
    <3>3. QED
      BY <1>1, <1>3, <1>5, <2>1, <3>1, <3>2, ClientFacts
  <2>2. CASE k # <<c, "set">>
    <3>1. client'[<<c, "set">>] = client[<<c, "set">>]
      BY <1>5, <2>2, ClientFacts
    <3>2. QED
      BY <1>1, <2>2, <3>1
  <2>3. QED
    BY <2>1, <2>2
<1>8. ASSUME NEW c \in Calls
      PROVE  /\ client[<<c, "clear">>] = "idle" => client'[<<c, "clear">>] = "idle"
             /\ client'[<<c, "clear">>] = "IDLE" =>
                   \/ client[<<c, "clear">>] = "IDLE"
                   \/ k = <<c, "clear">> /\ handling[p].value = None
  BY <1>5, ClientFacts
<1>9. Dialplan'
  BY <1>1, <1>2, <1>3, <1>7, <1>8 DEF Dialplan, Before
<1>10. \A l \in Clients : client'[l] = "idle" <=> client[l] = "idle"
  BY <1>3, <1>5
<1>11. Queue(p)' /\ Request(p)'
  <2>1. Queue(p)'
    BY <1>1, <1>2, <1>4, <1>10, ClientFacts, Elements DEF Queue
  <2>2. Request(p)'
    BY <1>1, <1>3, <1>4 DEF Request
  <2>3. QED
    BY <2>1, <2>2
<1>12. ASSUME NEW c \in Calls PROVE LastIsOwn(p, c)' /\ KeptFor(p, c)' /\ EndsWith(p, c)'
  <2>1. LastIsOwn(p, c) /\ KeptFor(p, c) /\ EndsWith(p, c)
    BY DEF ControlInv
  <2>2. LastIsOwn(p, c)'
    <3>1. handling'[p].client # <<c, "set">>
      BY <1>4, ClientFacts
    <3>2. chan'[c] = chan[c] /\ backlog'[p] = backlog[p]
      BY <1>1
    <3>3. QED
      BY <2>1, <3>1, <3>2 DEF LastIsOwn
  <2>3. KeptFor(p, c)'
    <3>1. CASE k = <<c, "set">>
      BY <1>1, <1>3, <1>4, <1>7, <3>1 DEF KeptFor
    <3>2. CASE k # <<c, "set">>
      BY <1>1, <1>4, <1>7, <2>1, <3>2 DEF KeptFor, Bridge!NoRequest
    <3>3. QED
      BY <3>1, <3>2
  <2>4. EndsWith(p, c)'
    <3>1. Serves(p, c)' => Serves(p, c) /\ handling[p].value = c
      BY <1>1, <1>3, <1>4, ClientFacts DEF Serves
    <3>2. Serves(p, c)' => client'[<<c, "clear">>] # "IDLE"
      BY <1>8, <2>1, <3>1, ClientFacts DEF EndsWith
    <3>3. QED
      BY <1>1, <1>4, <2>1, <3>1, <3>2, ClientFacts DEF EndsWith
  <2>5. QED
    BY <2>2, <2>3, <2>4
<1>13. \A q \in Procs \ {p} :
          /\ backlog'[q] = backlog[q] /\ handling'[q] = handling[q]
          /\ registration'[q] = registration[q]
          /\ \A c \in Calls : Serves(q, c) => client'[<<c, "clear">>] # "IDLE"
  BY <1>1, <1>4, OneAnswers
<1>14. \A c \in Calls :
          \/ ackedBy'[c] = p
          \/ /\ ackedBy'[c] = ackedBy[c]
             /\ client'[<<c, "set">>] = "ACTIVE" => client[<<c, "set">>] = "ACTIVE"
  BY <1>7
<1>15. QED
  BY <1>1, <1>6, <1>9, <1>10, <1>11, <1>12, <1>13, <1>14, ThreadFrame DEF Own

(* Every step of a control thread keeps all of this.                       *)
LEMMA ControlKeeps ==
    ASSUME ControlInv, BridgeInv, NEW p \in Procs, Control(p)
    PROVE  ControlInv'
<1>1. ControlTypes /\ Request(p)
  BY DEF ControlInv
<1>2. CASE Bridge!Accept(p) /\ UNCHANGED planVars
  BY <1>2, AcceptKeeps
<1>3. CASE Bridge!Query(p, db) /\ UNCHANGED planVars
  BY <1>3, QueryKeeps
<1>4. CASE Bridge!Assign(p) /\ UNCHANGED planVars
  BY <1>4, AssignKeeps
<1>5. CASE Bridge!QueryFails(p) /\ UNCHANGED planVars
  <2>1. /\ handling[p].stage = "query"
        /\ client' = [client EXCEPT ![handling[p].client] =
                         IF @ = "waiting" THEN "failed" ELSE @]
        /\ registration' = [registration EXCEPT ![p] = None]
        /\ handling' = [handling EXCEPT ![p] = Bridge!NoRequest]
        /\ UNCHANGED <<at, backlog, planVars>>
    BY <1>5 DEF Bridge!QueryFails
  <2>2. ClientsFail
    BY <1>1, <2>1 DEF ClientsFail, ControlTypes, Answers
  <2>3. QED
    BY <2>1, <2>2, RequestFails
<1>6. CASE Reply(p)
  <2>1. CASE client[handling[p].client] = "waiting"
    BY <1>6, <2>1, AnswerKeeps
  <2>2. CASE client[handling[p].client] # "waiting"
    <3>1. /\ handling[p].stage = "reply" /\ UNCHANGED client
          /\ registration' = [registration EXCEPT ![p] = None]
          /\ handling' = [handling EXCEPT ![p] = Bridge!NoRequest]
          /\ UNCHANGED <<at, backlog, chan, callLock, db>>
      BY <1>6, <2>2 DEF Reply, Bridge!Reply
    <3>2. \A c \in Calls :
             ~(client'[<<c, "set">>] = "ACTIVE" /\ client[<<c, "set">>] = "waiting")
      BY <3>1
    <3>3. ackedBy' = ackedBy
      BY <1>1, <1>6, <3>2 DEF Reply, ControlTypes
    <3>4. ClientsFail
      BY <1>1, <3>1 DEF ClientsFail, ControlTypes
    <3>5. QED
      BY <3>1, <3>3, <3>4, RequestFails DEF planVars
  <2>3. QED
    BY <2>1, <2>2
<1>7. QED
  BY <1>2, <1>3, <1>4, <1>5, <1>6 DEF Control
----------------------------------------------------------------------------
(* The remaining types.                                                    *)
MoreTypes ==
    /\ Ata!AtaTypeOK
    /\ cleanup \in [Procs -> BOOLEAN]
    /\ flock \in Procs \cup {None}
    /\ socketOf \in Procs \cup {None}
    /\ nfq \in Procs \cup {None}
    /\ callLock \in Calls \cup {None}
    /\ overlooked \in BOOLEAN

(* Bridge, route, types and control threads together.                      *)
RedInv == Inv /\ MoreTypes /\ ControlInv

(* It holds before the first call.                                         *)
LEMMA InitRedInv == ASSUME Init PROVE RedInv
<1> USE CallAssumption, ClientFacts
<1>1. Inv
  BY InitHolds
<1>2. MoreTypes
  <2>1. 1 \in 1 .. Len(Settings) /\ MaxReboots \in Nat /\ DOMAIN Factory = Ata!SettingNames
    BY DEF Ata!AtaAssumption
  <2>2. Ata!AtaTypeOK
    BY <2>1 DEF Init, Ata!AtaInit, Ata!AtaTypeOK, Ata!Running
  <2>3. QED
    BY <2>2 DEF Init, Bridge!BridgeInit, MoreTypes
<1>3. ControlInv
  <2>1. Bridge!NoRequest \in Requests /\ <<>> \in Seq(Clients)
    BY EmptySeq DEF Bridge!NoRequest, Requests
  <2>2. ControlTypes
    BY <2>1 DEF Init, Bridge!BridgeInit, ControlTypes
  <2>3. Dialplan
    BY DEF Init, Bridge!BridgeInit, Dialplan, Before
  <2>4. ASSUME NEW p \in Procs
        PROVE  /\ backlog[p] = <<>> /\ DOMAIN backlog[p] = {} /\ registration[p] = None
               /\ handling[p].stage = "none" /\ handling[p].client = None
               /\ handling[p].value = None
               /\ \A c \in Calls : ackedBy[c] = None /\ chan[c] = "new"
               /\ \A k \in Clients : client[k] = "idle"
    BY DEF Init, Bridge!BridgeInit, Bridge!NoRequest
  <2>5. \A p \in Procs : Queue(p) /\ Request(p)
    BY <2>4 DEF Queue, Request
  <2>6. ASSUME NEW p \in Procs, NEW c \in Calls
        PROVE  LastIsOwn(p, c) /\ KeptFor(p, c) /\ EndsWith(p, c)
    BY <2>4 DEF LastIsOwn, KeptFor, EndsWith, Serves
  <2>7. QED
    BY <2>2, <2>3, <2>5, <2>6 DEF ControlInv
<1>4. QED
  BY <1>1, <1>2, <1>3 DEF RedInv

(* The ATA's helpers keep the types of theirs.                             *)
LEMMA AtaTypesKeep ==
    ASSUME Ata!AtaTypeOK, NEW h \in Calls,
           Ata!HelperNext(h) \/ Ata!DeviceForgets \/ Ata!Reboot
              \/ (\E profile \in Profiles : Ata!StartHelper(h, profile))
    PROVE  Ata!AtaTypeOK'
<1> USE CallAssumption DEF Ata!AtaAssumption, Ata!AtaTypeOK, Ata!Running
<1>1. CASE \E profile \in Profiles : Ata!StartHelper(h, profile)
  BY <1>1 DEF Ata!StartHelper
<1>2. CASE Ata!Lock(h)
  BY <1>2 DEF Ata!Lock
<1>3. CASE Ata!Connect(h)
  BY <1>3 DEF Ata!Connect
<1>4. CASE Ata!Show(h)
  BY <1>4 DEF Ata!Show, Ata!AfterShow, Ata!Goes
<1>5. CASE Ata!Set(h)
  <2>1. DOMAIN pending' = DOMAIN pending
    BY <1>5 DEF Ata!Set, Ata!Assigned
  <2>2. CASE position[h] = Len(Settings)
    BY <1>5, <2>1, <2>2 DEF Ata!Set, Ata!Goes
  <2>3. CASE position[h] # Len(Settings)
    <3>1. position[h] + 1 \in 1 .. Len(Settings)
      <4>1. position[h] \in 1 .. Len(Settings) /\ Len(Settings) \in Nat
        OBVIOUS
      <4>2. QED
        BY <2>3, <4>1
    <3>2. position' = [position EXCEPT ![h] = position[h] + 1]
      BY <1>5, <2>3 DEF Ata!Set
    <3>3. position' \in [Calls -> 1 .. Len(Settings)]
      BY <3>1, <3>2
    <3>4. QED
      BY <1>5, <2>1, <2>3, <3>3 DEF Ata!Set, Ata!Goes
  <2>4. QED
    BY <2>2, <2>3
<1>6. CASE Ata!Activate(h)
  BY <1>6 DEF Ata!Activate, Ata!Goes
<1>7. CASE Ata!Readback(h)
  BY <1>7 DEF Ata!Readback, Ata!Freed
<1>8. CASE Ata!HelperFails(h)
  <2>1. DOMAIN pending' = Ata!SettingNames /\ DOMAIN active' = Ata!SettingNames
    BY <1>8 DEF Ata!HelperFails, Ata!Assigned
  <2>2. QED
    BY <1>8, <2>1 DEF Ata!HelperFails, Ata!Freed
<1>9. CASE Ata!DeviceForgets
  BY <1>9 DEF Ata!DeviceForgets
<1>10. CASE Ata!Reboot
  BY <1>10 DEF Ata!Reboot
<1>11. QED
  BY <1>1, <1>2, <1>3, <1>4, <1>5, <1>6, <1>7, <1>8, <1>9, <1>10 DEF Ata!HelperNext

(* No step leaves the types.                                               *)
LEMMA MoreTypesKeep == ASSUME MoreTypes, [Next]_vars PROVE MoreTypes'
<1>1. ASSUME UNCHANGED <<ataVars, cleanup, flock, overlooked, socketOf, nfq, callLock>>
      PROVE  MoreTypes'
  BY <1>1 DEF MoreTypes, Ata!AtaTypeOK, ataVars
<1>2. CASE \E c \in Calls : PlanNext(c)
  <2>1. PICK c \in Calls : PlanNext(c)
    BY <1>2
  <2>2. UNCHANGED <<cleanup, flock, overlooked, socketOf, nfq>> /\ callLock' \in Calls \cup {None}
    BY <2>1 DEF PlanNext, TryLock, BusyEnds, Check, Prepared, Register, Sync, Synced, HangsUp,
       HandlerStarts, LockInHandler, Delete, Clear, Cleared, Bridge!Connect, Bridge!Seen,
       bridgeVars, planVars, MoreTypes
  <2>3. UNCHANGED ataVars \/ \E profile \in Profiles : Ata!StartHelper(c, profile)
    BY <2>1 DEF PlanNext, TryLock, BusyEnds, Check, Prepared, Register, Sync, Synced, HangsUp,
       HandlerStarts, Delete, Clear, Cleared
  <2>4. Ata!AtaTypeOK'
    BY <2>3, AtaTypesKeep DEF MoreTypes, Ata!AtaTypeOK, ataVars
  <2>5. QED
    BY <2>2, <2>4 DEF MoreTypes
<1>3. CASE AtaNext
  <2>1. UNCHANGED <<cleanup, flock, overlooked, socketOf, nfq, callLock>>
    BY <1>3 DEF AtaNext, bridgeVars, planVars
  <2>2. Ata!AtaTypeOK'
    <3>1. CASE \E h \in Calls : HelperSteps(h)
      <4>1. PICK h \in Calls : Ata!HelperNext(h)
        BY <3>1 DEF HelperSteps
      <4>2. QED
        BY <4>1, AtaTypesKeep DEF MoreTypes
    <3>2. CASE Ata!DeviceForgets
      BY <3>2, CallAssumption
         DEF MoreTypes, Ata!AtaTypeOK, Ata!DeviceForgets, Ata!AtaAssumption
    <3>3. CASE Ata!Reboot
      BY <3>3, CallAssumption
         DEF MoreTypes, Ata!AtaTypeOK, Ata!Reboot, Ata!AtaAssumption
    <3>4. QED
      BY <1>3, <3>1, <3>2, <3>3 DEF AtaNext
  <2>3. QED
    BY <2>1, <2>2 DEF MoreTypes
<1>4. CASE BridgeNext
  <2>1. Ata!AtaTypeOK' /\ UNCHANGED callLock
    BY <1>4 DEF BridgeNext, MoreTypes, Ata!AtaTypeOK, ataVars, planVars
  <2>2. ASSUME NEW p \in Procs,
               (\E cleans \in BOOLEAN : Bridge!Start(p, cleans)) \/ Bridge!ProcessNext(p)
        PROVE  /\ cleanup' \in [Procs -> BOOLEAN] /\ flock' \in Procs \cup {None}
               /\ socketOf' \in Procs \cup {None} /\ nfq' \in Procs \cup {None}
               /\ overlooked' \in BOOLEAN
    <3>1. overlooked' = overlooked \/ overlooked' = (rules > 0)
      BY <2>2
         DEF Bridge!Start, Bridge!ProcessNext, Bridge!RemoveRule, Bridge!Unlink,
         Bridge!BindQueue, Bridge!BindControl, Bridge!InsertRule, Bridge!Stop,
         Bridge!Close, Bridge!Abort, Bridge!Ends
    <3>2. overlooked' \in BOOLEAN
      <4>1. CASE rules > 0
        <5>1. (rules > 0) = TRUE
          BY <4>1
        <5> QED BY <3>1, <5>1 DEF MoreTypes
      <4>2. CASE ~(rules > 0)
        <5>1. (rules > 0) = FALSE
          BY <4>2
        <5> QED BY <3>1, <5>1 DEF MoreTypes
      <4> QED BY <4>1, <4>2
    <3> QED BY <2>2, <3>2
       DEF MoreTypes, Bridge!Start, Bridge!NeedsLock, Bridge!ProcessNext, Bridge!RemoveRule,
       Bridge!Unlink, Bridge!BindQueue, Bridge!BindControl, Bridge!InsertRule, Bridge!Stop,
       Bridge!Close, Bridge!Abort, Bridge!Ends, Bridge!Exit
  <2>3. ASSUME NEW k \in Clients, Bridge!GivesUp(k)
        PROVE  UNCHANGED <<cleanup, flock, overlooked, socketOf, nfq>>
    BY <2>3 DEF Bridge!GivesUp
  <2>4. QED
    BY <1>4, <2>1, <2>2, <2>3 DEF BridgeNext, MoreTypes
<1>5. CASE \E p \in Procs : Control(p)
  BY <1>1, <1>5 DEF Control, Reply, Bridge!Accept, Bridge!Query, Bridge!Assign,
     Bridge!QueryFails, Bridge!Reply, planVars
<1>6. CASE UNCHANGED vars
  BY <1>1, <1>6 DEF vars, planVars, bridgeVars
<1>7. QED
  BY <1>2, <1>3, <1>4, <1>5, <1>6 DEF Next

(* No step breaks it.                                                      *)
LEMMA NextRedInv == ASSUME RedInv, [Next]_vars PROVE RedInv'
<1>1. Inv' /\ MoreTypes'
  BY BridgeKeeps, RouteKeeps, MoreTypesKeep DEF RedInv, Inv
<1>2. ControlInv /\ RouteInv /\ BridgeInv /\ ChanTypes /\ socketOf \in Procs \cup {None}
  BY DEF RedInv, Inv, MoreTypes, RouteInv, Holds, ChanTypes, LockKept
<1>3. ControlInv'
  <2>1. ASSUME NEW c \in Calls, PlanNext(c) PROVE ControlInv'
    BY <1>2, <2>1, PlanAlone, SyncKeeps, SyncedKeeps, ClearKeeps DEF PlanNext
  <2>2. CASE AtaNext
    BY <1>2, <2>2, ControlFrame DEF AtaNext, bridgeVars
  <2>3. CASE BridgeNext
    <3>1. UNCHANGED planVars
      BY <2>3 DEF BridgeNext
    <3>2. ASSUME NEW k \in Clients, Bridge!GivesUp(k) PROVE ControlInv'
      <4>1. ClientsFail /\ UNCHANGED <<at, backlog, handling, registration>>
        BY <1>2, <3>2 DEF Bridge!GivesUp, ClientsFail, ControlInv, ControlTypes, Answers
      <4>2. QED
        BY <1>2, <3>1, <4>1, ClientsFailing
    <3>3. QED
      BY <1>2, <2>3, <3>1, <3>2, ProcessesKeep DEF BridgeNext
  <2>4. CASE \E p \in Procs : Control(p)
    BY <1>2, <2>4, ControlKeeps
  <2>5. CASE UNCHANGED vars
    BY <1>2, <2>5, ControlFrame DEF vars, bridgeVars
  <2>6. QED
    BY <2>1, <2>2, <2>3, <2>4, <2>5 DEF Next
<1>4. QED
  BY <1>1, <1>3 DEF RedInv

(* Dialplan, clients and control threads stay in step.                     *)
THEOREM ControlInvariant == Spec => []RedInv
<1>1. RedInv /\ [Next]_vars => RedInv'
  BY NextRedInv
<1>2. QED
  BY <1>1, InitRedInv, PTL DEF Spec

(* What the invariant says of types.                                       *)
LEMMA TypesHold == ASSUME RedInv PROVE TypeOK
<1>1. BridgeInv /\ RouteInv /\ MoreTypes /\ ControlInv /\ ControlTypes
  BY DEF RedInv, Inv, ControlInv
<1>2. Bridge!BridgeTypeOK
  <2>1. \A p \in Procs : /\ handling[p].stage \in {"none", "query", "assign", "reply"}
                         /\ \A i \in DOMAIN backlog[p] : handling[p].client # backlog[p][i]
    BY <1>1, Elements DEF ControlInv, Queue, Requests
  <2>2. QED
    BY <1>1, <2>1 DEF Bridge!BridgeTypeOK, BridgeInv, MoreTypes, ControlTypes, Answers
<1>3. QED
  BY <1>1, <1>2 DEF TypeOK, RouteInv, Holds, MoreTypes, ControlTypes

(* The registration is that of the dialled call, for as long as the bridge *)
(* that confirmed it serves; what was confirmed ended does not come back;  *)
(* and what has ended unconfirmed is about to end.                         *)
THEOREM RegistrationsFollowCalls == Spec => []RegistrationFollowsCall
<1>1. RedInv => RegistrationFollowsCall
  <2> SUFFICES ASSUME RedInv PROVE RegistrationFollowsCall
    OBVIOUS
  <2>1. ControlInv
    BY DEF RedInv
  <2>2. RegistrationKept
    BY <2>1 DEF RegistrationKept, ControlInv, KeptFor, Dialplan
  <2>3. ClearedStaysCleared
    BY <2>1 DEF ClearedStaysCleared, ControlInv, EndsWith, Serves
  <2>4. ASSUME NEW c \in Calls, NEW p \in Procs, chan[c] = "ended", at[p] = "serving",
               registration[p] = c, handling[p].client = None, backlog[p] = <<>>
        PROVE  FALSE
    <3>1. EndsWith(p, c) /\ Serves(p, c)
      BY <2>1, <2>4 DEF ControlInv, Serves
    <3>2. DOMAIN backlog[p] = {}
      BY <2>4
    <3>3. QED
      BY <2>4, <3>1, <3>2, ClientFacts DEF EndsWith
  <2>5. QED
    BY <2>2, <2>3, <2>4, TypesHold DEF RegistrationFollowsCall, EndedIsBeingCleared
<1>2. QED
  BY <1>1, ControlInvariant, PTL
=============================================================================
