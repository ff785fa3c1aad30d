----------------------------- MODULE AtaPrepare -----------------------------
(***************************************************************************)
(* The call-setup helper src/deploy/ata187-prepare.py: one process for     *)
(* each invocation, all of them sharing prepare.lock and one ATA, whose    *)
(* pending coding profile becomes the active one only by "activate".       *)
(* The ATA and its console are external; they are what the helper and      *)
(* src/deploy/cisco-ata187.md say they are.                                *)
(***************************************************************************)
EXTENDS Naturals, Sequences, FiniteSets

CONSTANTS
    Helpers,     \* invocations
    Settings,    \* the settings of the profile, in the order they are set
    Profiles,    \* what a configuration may ask for: [setting -> value]
    Factory,     \* the profile of an ATA that has restarted
    MaxReboots,  \* bound on the restarts of the ATA
    None

SettingNames == {Settings[i] : i \in DOMAIN Settings}

AtaAssumption ==
    /\ MaxReboots \in Nat
    /\ Len(Settings) \in Nat \ {0}
    /\ DOMAIN Factory = SettingNames
    /\ Factory \notin Profiles
    /\ None \notin Helpers

VARIABLES
    step,         \* where each helper is
    want,         \* the profile its configuration asks for
    position,     \* the setting it sets next
    prepareLock,  \* holder of prepare.lock
    rebooted,     \* the ATA restarted after the helper connected
    pending, active,  \* the profiles of the ATA
    reboots

ata == <<step, want, position, prepareLock, rebooted, pending, active, reboots>>

Running == {"lock", "connect", "retry", "show", "set", "activate", "readback"}

AtaTypeOK ==
    /\ step \in [Helpers -> Running \cup {"off", "ready", "failed"}]
    /\ want \in [Helpers -> Profiles \cup {None}]
    /\ position \in [Helpers -> 1 .. Len(Settings)]
    /\ prepareLock \in Helpers \cup {None}
    /\ rebooted \in [Helpers -> BOOLEAN]
    /\ DOMAIN pending = SettingNames /\ DOMAIN active = SettingNames
    /\ reboots \in 0 .. MaxReboots

AtaInit ==
    /\ step = [h \in Helpers |-> "off"]
    /\ want = [h \in Helpers |-> None]
    /\ position = [h \in Helpers |-> 1]
    /\ prepareLock = None
    /\ rebooted = [h \in Helpers |-> FALSE]
    /\ pending = Factory
    /\ active = Factory
    /\ reboots = 0
----------------------------------------------------------------------------
(* A helper takes the lock without waiting for it, or fails; the lock goes *)
(* when the process ends.                                                  *)
LockIgnored(h) == TRUE
LockFree(h) == prepareLock = None

Freed(h) == IF prepareLock = h THEN None ELSE prepareLock

StartHelper(h, profile) ==
    /\ step[h] = "off"
    /\ step' = [step EXCEPT ![h] = "lock"]
    /\ want' = [want EXCEPT ![h] = profile]
    /\ UNCHANGED <<position, prepareLock, rebooted, pending, active, reboots>>

Lock(h) ==
    /\ step[h] = "lock"
    /\ LockFree(h)
    /\ prepareLock' = h
    /\ step' = [step EXCEPT ![h] = "connect"]
    /\ UNCHANGED <<want, position, rebooted, pending, active, reboots>>

(* The second refused connection is the last.                              *)
Connect(h) ==
    /\ step[h] \in {"connect", "retry"}
    /\ \/ step' = [step EXCEPT ![h] = "show"] /\ rebooted' = [rebooted EXCEPT ![h] = FALSE]
       \/ step[h] = "connect" /\ step' = [step EXCEPT ![h] = "retry"] /\ UNCHANGED rebooted
    /\ UNCHANGED <<want, position, prepareLock, pending, active, reboots>>

(* A console command, answered by an ATA that has not restarted.           *)
Commands(h, at) == step[h] = at /\ ~rebooted[h]

Goes(h, to) ==
    /\ step' = [step EXCEPT ![h] = to]
    /\ UNCHANGED <<want, prepareLock, rebooted, reboots>>

(* "activate" is sent even when nothing had to be set.                     *)
ActivateIfChanged(h) == IF pending = want[h] THEN "readback" ELSE "set"
AfterShow(h) == IF pending = want[h] THEN "activate" ELSE "set"

Show(h) ==
    /\ Commands(h, "show")
    /\ Goes(h, AfterShow(h))
    /\ UNCHANGED <<position, pending, active>>

Assigned(h) == [pending EXCEPT ![Settings[position[h]]] = want[h][Settings[position[h]]]]

Set(h) ==
    /\ Commands(h, "set")
    /\ pending' = Assigned(h)
    /\ IF position[h] = Len(Settings)
       THEN Goes(h, "activate") /\ position' = [position EXCEPT ![h] = 1]
       ELSE Goes(h, "set") /\ position' = [position EXCEPT ![h] = @ + 1]
    /\ UNCHANGED active

Activate(h) ==
    /\ Commands(h, "activate")
    /\ active' = pending
    /\ Goes(h, "readback")
    /\ UNCHANGED <<position, pending>>

Readback(h) ==
    /\ Commands(h, "readback")
    /\ step' = [step EXCEPT ![h] = IF pending = want[h] THEN "ready" ELSE "failed"]
    /\ prepareLock' = Freed(h)
    /\ UNCHANGED <<want, position, rebooted, pending, active, reboots>>

(* The lock is taken, the connection refused twice, the configuration      *)
(* invalid, a setting rejected, an answer missing, or the 18 seconds are   *)
(* over; the command that got no answer may have been executed.            *)
HelperFails(h) ==
    /\ step[h] \in Running
    /\ \/ UNCHANGED <<pending, active>>
       \/ Commands(h, "set") /\ pending' = Assigned(h) /\ UNCHANGED active
       \/ Commands(h, "activate") /\ active' = pending /\ UNCHANGED pending
    /\ step' = [step EXCEPT ![h] = "failed"]
    /\ prepareLock' = Freed(h)
    /\ position' = [position EXCEPT ![h] = 1]
    /\ UNCHANGED <<want, rebooted, reboots>>

HelperNext(h) ==
    \/ Lock(h) \/ Connect(h) \/ Show(h) \/ Set(h)
    \/ Activate(h) \/ Readback(h) \/ HelperFails(h)
----------------------------------------------------------------------------
(* The ATA discards the pending profile between calls.                     *)
DeviceForgets ==
    /\ pending # Factory
    /\ pending' = Factory
    /\ UNCHANGED <<step, want, position, prepareLock, rebooted, active, reboots>>

Reboot ==
    /\ reboots < MaxReboots
    /\ reboots' = reboots + 1
    /\ pending' = Factory
    /\ active' = Factory
    /\ rebooted' = [h \in Helpers |-> TRUE]
    /\ UNCHANGED <<step, want, position, prepareLock>>
----------------------------------------------------------------------------
(* Only the holder of prepare.lock talks to the ATA.                       *)
OneHelperAtATime ==
    \A h \in Helpers : step[h] \in Running \ {"lock"} => prepareLock = h
=============================================================================
