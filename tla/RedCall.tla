------------------------------ MODULE RedCall ------------------------------
(***************************************************************************)
(* Calls of the ATA through deploy/ata187-freepbx-red-route.conf.example:  *)
(* the dialplan takes the call lock, has the ATA prepared (AtaPrepare),    *)
(* registers the call with the redundancy bridge (RedBridge) and dials;    *)
(* its hangup handler ends the registration.  Asterisk runs the dialplan:  *)
(* its channels, locks and database are external.                          *)
(***************************************************************************)
EXTENDS Naturals, Sequences, FiniteSets

CONSTANTS
    MaxCalls, MaxProcs,  \* bounds on the calls and on the runs of sipfax_red.py
    Settings, Profiles, Factory, MaxReboots, None

(* Numbered in the order in which they begin.                              *)
Calls == 1 .. MaxCalls
Procs == 1 .. MaxProcs

VARIABLES
    chan,      \* where the dialplan is with each call
    callLock,  \* holder of the lock sipfax-ata187
    db,        \* SIPFAXRED/current
    ackedBy,   \* the bridge that answered ACTIVE to a call
    strays,    \* known to nobody: helpers that took prepare.lock when no
               \* dialplan waited for them any more, since one did
    step, want, position, prepareLock, rebooted, pending, active, reboots,
    at, cleanup, flock, rules, overlooked, socketOf, nfq,
    backlog, handling, registration, client

(* Each call syncs twice: to set up and, in its hangup handler, to clean up. *)
Clients == {<<c, what>> : c \in Calls, what \in {"set", "clear"}}

Ata    == INSTANCE AtaPrepare WITH Helpers <- Calls
Bridge == INSTANCE RedBridge

ASSUME CallAssumption ==
    /\ MaxCalls \in Nat /\ MaxProcs \in Nat
    /\ Ata!AtaAssumption /\ Bridge!BridgeAssumption

ataVars    == <<step, want, position, prepareLock, rebooted, pending, active, reboots, strays>>
bridgeVars == <<at, cleanup, flock, rules, overlooked, socketOf, nfq,
                backlog, handling, registration, client>>
planVars   == <<chan, callLock, db, ackedBy>>
vars       == <<planVars, ataVars, bridgeVars>>

(* Setting up goes on with the hangup handler pushed and the call lock     *)
(* held, until the call is dialled; what matters here is not whether it is *)
(* answered then.                                                          *)
SettingUp == {"check", "preparing", "progress", "syncing"}
Holding   == SettingUp \cup {"dialled", "hangup", "delete", "clear", "clearing"}

TypeOK ==
    /\ Ata!AtaTypeOK
    /\ Bridge!BridgeTypeOK
    /\ chan \in [Calls -> Holding \cup {"new", "busy", "ended"}]
    /\ callLock \in Calls \cup {None}
    /\ db \in Calls \cup {None}
    /\ strays \subseteq Calls
    /\ \A c \in Calls : chan[c] \in Holding => callLock = c
    /\ \A p \in Procs : registration[p] \in Calls \cup {None}

Init ==
    /\ Ata!AtaInit
    /\ Bridge!BridgeInit
    /\ chan = [c \in Calls |-> "new"]
    /\ callLock = None
    /\ db = None
    /\ ackedBy = [c \in Calls |-> None]
    /\ strays = {}
----------------------------------------------------------------------------
Goes(c, to) == chan' = [chan EXCEPT ![c] = to]

TryLock(c) ==
    /\ chan[c] = "new" /\ \A d \in 1 .. c - 1 : chan[d] # "new"
    /\ IF callLock = None
       THEN Goes(c, "check") /\ callLock' = c
       ELSE Goes(c, "busy") /\ UNCHANGED callLock
    /\ UNCHANGED <<db, ackedBy, ataVars, bridgeVars>>

BusyEnds(c) ==
    /\ chan[c] = "busy"
    /\ Goes(c, "ended")
    /\ UNCHANGED <<callLock, db, ackedBy, ataVars, bridgeVars>>

(* ata187-prepare-freepbx.sh refuses when another ATA channel exists or    *)
(* one is up, and otherwise runs the helper over ssh.                      *)
OtherChannels(c) == {d \in Calls \ {c} : chan[d] \notin {"new", "ended"}}

Check(c) ==
    /\ chan[c] = "check"
    /\ \/ /\ OtherChannels(c) = {}
          /\ Goes(c, "preparing")
          /\ \E profile \in Profiles : Ata!StartHelper(c, profile)
          /\ UNCHANGED strays
       \/ Goes(c, "hangup") /\ UNCHANGED ataVars
    /\ UNCHANGED <<callLock, db, ackedBy, bridgeVars>>

(* TrySystem ends with the helper, or before it when ssh fails or its 22   *)
(* seconds are over: the helper, wherever it is, is left behind.           *)
Prepared(c) ==
    /\ chan[c] = "preparing"
    /\ \/ step[c] = "ready" /\ Goes(c, "progress")
       \/ Goes(c, "hangup")
    /\ UNCHANGED <<callLock, db, ackedBy, ataVars, bridgeVars>>

Register(c) ==
    /\ chan[c] = "progress"
    /\ db' = c
    /\ Goes(c, "syncing")
    /\ UNCHANGED <<callLock, ackedBy, ataVars, bridgeVars>>

Sync(c) ==
    /\ chan[c] = "syncing" /\ client[<<c, "set">>] = "idle"
    /\ Bridge!Connect(<<c, "set">>)
    /\ UNCHANGED <<planVars, ataVars>>

Synced(c) ==
    /\ chan[c] = "syncing"
    /\ Bridge!Seen(<<c, "set">>)
    /\ Goes(c, IF client[<<c, "set">>] = "ACTIVE" THEN "dialled" ELSE "hangup")
    /\ UNCHANGED <<callLock, db, ackedBy, ataVars>>

(* A caller who hangs up is noticed between two applications of the        *)
(* dialplan: not while TrySystem waits.                                    *)
HangsUp(c) ==
    /\ chan[c] \in {"check", "progress", "dialled"}
    /\ Goes(c, "hangup")
    /\ UNCHANGED <<callLock, db, ackedBy, ataVars, bridgeVars>>

(* The handler runs before the channel, and with it the lock, goes.        *)
LockFreedFirst(c) == None
LockInHandler(c) == callLock

HandlerStarts(c) ==
    /\ chan[c] = "hangup"
    /\ Goes(c, "delete")
    /\ callLock' = LockInHandler(c)
    /\ UNCHANGED <<db, ackedBy, ataVars, bridgeVars>>

SyncWithoutDelete == db
AfterDelete == None

Delete(c) ==
    /\ chan[c] = "delete"
    /\ db' = AfterDelete
    /\ Goes(c, "clear")
    /\ UNCHANGED <<callLock, ackedBy, ataVars, bridgeVars>>

Clear(c) ==
    /\ chan[c] = "clear"
    /\ Bridge!Connect(<<c, "clear">>)
    /\ Goes(c, "clearing")
    /\ UNCHANGED <<callLock, db, ackedBy, ataVars>>

Cleared(c) ==
    /\ chan[c] = "clearing" /\ client[<<c, "clear">>] # "waiting"
    /\ Goes(c, "ended")
    /\ callLock' = IF callLock = c THEN None ELSE callLock
    /\ UNCHANGED <<db, ackedBy, ataVars, bridgeVars>>

PlanNext(c) ==
    \/ TryLock(c) \/ BusyEnds(c) \/ Check(c) \/ Prepared(c) \/ Register(c)
    \/ Sync(c) \/ Synced(c) \/ HangsUp(c)
    \/ HandlerStarts(c) \/ Delete(c) \/ Clear(c) \/ Cleared(c)
----------------------------------------------------------------------------
StraysAfter(h) ==
    IF step[h] = "lock" /\ step'[h] = "connect"
    THEN IF chan[h] = "preparing" THEN {} ELSE strays \cup {h}
    ELSE strays

HelperSteps(h) == Ata!HelperNext(h) /\ strays' = StraysAfter(h)

AtaNext ==
    /\ \/ \E h \in Calls : HelperSteps(h)
       \/ /\ \A c \in Calls : chan[c] # "dialled"
          /\ Ata!DeviceForgets /\ UNCHANGED strays
       \/ Ata!Reboot /\ UNCHANGED strays
    /\ UNCHANGED <<planVars, bridgeVars>>

Reply(p) ==
    /\ Bridge!Reply(p)
    /\ ackedBy' = [c \in Calls |->
                      IF client'[<<c, "set">>] = "ACTIVE" /\ client[<<c, "set">>] = "waiting"
                      THEN p ELSE ackedBy[c]]
    /\ UNCHANGED <<chan, callLock, db, ataVars>>

Control(p) ==
    \/ /\ \/ Bridge!Accept(p) \/ Bridge!Query(p, db)
          \/ Bridge!Assign(p) \/ Bridge!QueryFails(p)
       /\ UNCHANGED <<planVars, ataVars>>
    \/ Reply(p)

BridgeNext ==
    /\ \/ \E p \in Procs, cleans \in BOOLEAN :
             (\A q \in 1 .. p - 1 : at[q] # "off") /\ Bridge!Start(p, cleans)
       \/ \E p \in Procs : Bridge!ProcessNext(p)
       \/ \E k \in Clients : Bridge!GivesUp(k)
    /\ UNCHANGED <<planVars, ataVars>>

Next ==
    \/ \E c \in Calls : PlanNext(c)
    \/ AtaNext
    \/ BridgeNext
    \/ \E p \in Procs : Control(p)

Spec == Init /\ [][Next]_vars
----------------------------------------------------------------------------
ServingIsIntact == Bridge!ServingIsIntact
CleanEnd == Bridge!CleanEnd

(* Socket and queue are those of the bridge that serves, with the rule in  *)
(* place, and nothing of it is left when it ends as it should; only a      *)
(* search that iptables misled leaves a copy of the rule (RedBridge).      *)
BridgeIsIntact == ServingIsIntact /\ CleanEnd

(* The documentation has it that no copy is left (cisco-ata187.md:184),    *)
(* which is more than BridgeIsIntact says, and not so.                     *)
StoppingRemovesRule == \A p \in Procs : at[p] = "done" => rules = 0 /\ nfq # p

(* A call that has been prepared, until it hangs up.                       *)
Past == {"progress", "syncing", "dialled"}

(* The helper has activated a profile, or may have.                        *)
Activated == {"readback", "ready", "failed"}

Activates(h) == step[h] = "activate" /\ step'[h] \in Activated

(* A call keeps the coding profile it asked for until the ATA restarts,    *)
(* whatever helpers of failed calls do to the ATA; but for the one that    *)
(* comes so late that the call's own helper has given back prepare.lock.   *)
CallKeepsProfile ==
    \A c \in Calls : chan[c] \in Past =>
        active = want[c] \/ rebooted[c] \/ \E h \in strays : step[h] \in Activated

(* Activation rebuilds both ports of the ATA, even if the profile is the   *)
(* same: once a call is prepared, nobody activates one any more but such a *)
(* late helper.                                                            *)
NoActivationInCall ==
    [][\A c \in Calls : chan[c] \in Past =>
         /\ \A h \in Calls : Activates(h) => h \in strays
         /\ active' # active => reboots' > reboots \/ \E h \in strays : Activates(h)]_vars

(* The documentation forbids the late helper too (cisco-ata187.md:75): the *)
(* code does not.                                                          *)
NeverActivatedInCall ==
    [][\A c, h \in Calls : ~(chan[c] = "dialled" /\ Activates(h))]_vars

(* A dialled call stays the registered one, as long as the bridge that     *)
(* registered it serves, whatever requests earlier calls left behind.      *)
RegistrationKept ==
    \A c \in Calls : chan[c] = "dialled" /\ at[ackedBy[c]] = "serving" =>
        registration[ackedBy[c]] = c

(* Once the bridge has confirmed the end of a registration, no audio is    *)
(* wrapped for that call any more.                                         *)
ClearedStaysCleared ==
    \A c \in Calls : client[<<c, "clear">>] = "IDLE" =>
        \A p \in Procs : registration[p] # c

(* Even if nothing was confirmed, the registration of a call that has      *)
(* ended is about to end: the control thread of the bridge that holds it   *)
(* has a request to deal with that was made after the call's last.         *)
EndedIsBeingCleared ==
    \A c \in Calls, p \in Procs :
        chan[c] = "ended" /\ at[p] = "serving" /\ registration[p] = c =>
            handling[p].client # None \/ backlog[p] # <<>>

(* The registration is that of the dialled call and ends with it (and all  *)
(* variables have their types, the call lock among them).                  *)
RegistrationFollowsCall ==
    TypeOK /\ RegistrationKept /\ ClearedStaysCleared /\ EndedIsBeingCleared
=============================================================================
