----------------------------- MODULE EgressHook -----------------------------
(***************************************************************************)
(* src/bin/sipfax-egress-apply, the program behind pppd's ip-up and        *)
(* ip-down hooks: per-call firewall rules, the active-lease markers, and   *)
(* the kernel's forwarding switches with their retained original values.   *)
(*                                                                         *)
(* The hooks run one at a time under a file lock.  A step is one command   *)
(* or one file replaced; between two steps a hook may be killed.  Hooks    *)
(* may be invoked in any order and any number of times.                    *)
(***************************************************************************)
EXTENDS Naturals

CONSTANTS
    Calls,       \* Call-IDs, each with a lease file
    Links,       \* PPP interfaces with their addresses
    CallOf,      \* CallOf[l]: the Call-ID pppd was given for link l
    Ifs,         \* network interfaces with a forwarding switch
    OutIf,       \* OutIf[c]: the lease file's outboundInterface
    Global,      \* net.ipv4.ip_forward
    Rules,       \* iptables rules of a lease
    Faults,      \* fault models: failing commands per invocation, and kills
    MaxCopies,   \* bound on the copies of a rule left by killed hooks
    None

Keys == Ifs \cup {Global}

ASSUME LinksAssumption == CallOf \in [Links -> Calls] /\ OutIf \in [Calls -> Ifs]
ASSUME RulesAssumption == Rules \in Nat \ {0} /\ MaxCopies \in Nat \ {0}
ASSUME FaultsAssumption == Faults \subseteq [failures : Nat, die : BOOLEAN]
ASSUME GlobalAssumption == Global \notin Ifs

VARIABLES
    faults,   \* the faults of this system: failures is how many commands may
              \* fail in one invocation, die whether hooks may be killed
    nft,      \* nft is installed, else iptables is used
    base,     \* the switches before the first call
    sys,      \* sys[k]: the kernel's forwarding switch k
    rules,    \* rules[c][n]: copies of rule n of c in the kernel
    marker,   \* marker[c]: the active-lease file of c, or None
    snapshot, \* the .forwarding-state file, or None
    hook,     \* the hook that has the lock, or None
    fails     \* commands that failed in this invocation

files == <<marker, snapshot>>
rigid == <<faults, nft, base>>
vars  == <<rigid, sys, rules, files, hook, fails>>

(* nft loads or deletes the whole ruleset of a call in one transaction.    *)
Operations == IF nft THEN 1 ELSE Rules

Markers == [link : Links, teardown : BOOLEAN, removed : 0 .. Rules,
            rulesRemoved : BOOLEAN]

PCs == {"install", "undo", "retain", "restore-old", "forward",
        "unforward", "mark", "clean", "restore-up",
        "teardown", "remove", "record", "removed", "restore-down", "unmark"}

(* A hook that runs: its next step, the interface it was called for, how   *)
(* far it is in a loop, and the switches it found.                         *)
Hooks == [pc : PCs, link : Links, i : 0 .. Rules, prev : [Keys -> BOOLEAN]]

ASSUME NoneAssumption == None \notin [Keys -> BOOLEAN] \cup Markers \cup Hooks

TypeOK ==
    /\ faults \in Faults
    /\ nft \in BOOLEAN
    /\ base \in [Keys -> BOOLEAN]
    /\ sys \in [Keys -> BOOLEAN]
    /\ rules \in [Calls -> [1 .. Rules -> Nat]]
    /\ marker \in [Calls -> Markers \cup {None}]
    /\ snapshot \in [Keys -> BOOLEAN] \cup {None}
    /\ hook \in Hooks \cup {None}
    /\ fails \in 0 .. faults.failures

Init ==
    /\ faults \in Faults
    /\ nft \in BOOLEAN
    /\ base \in [Keys -> BOOLEAN]
    /\ sys = base
    /\ rules = [c \in Calls |-> [n \in 1 .. Rules |-> 0]]
    /\ marker = [c \in Calls |-> None]
    /\ snapshot = None
    /\ hook = None
    /\ fails = 0
----------------------------------------------------------------------------
Call == CallOf[hook.link]

Idle == hook = None
At(pc) == hook # None /\ hook.pc = pc

(* The hook goes on at pc, having done i operations there, or it ends.     *)
To(pc, i) ==
    hook' = IF pc = "end" THEN None ELSE [hook EXCEPT !.pc = pc, !.i = i]

Step(pc, i) == To(pc, i) /\ UNCHANGED fails
Goto(pc) == Step(pc, 0)

(* A command exits with an error; the hook goes on at pc.                  *)
Fails(pc, i) ==
    /\ fails < faults.failures
    /\ fails' = fails + 1
    /\ To(pc, i)
    /\ UNCHANGED <<sys, rules, files>>

(* hasActiveLeases, leaving out call c.                                    *)
ActiveExceptNever(c) == FALSE
ActiveExcept(c) == \E d \in Calls \ {c} : marker[d] # None

HasActive == \E d \in Calls : marker[d] # None

(* sysctl -w: the global switch takes every interface with it.             *)
Written(k, value) ==
    IF k = Global THEN [j \in Keys |-> value] ELSE [sys EXCEPT ![k] = value]

(* iptables -A appends another copy; a table of nft is there or is not.    *)
Added(c, n) == [rules EXCEPT ![c][n] = IF nft THEN 1 ELSE @ + 1]
Deleted(c, n) == [rules EXCEPT ![c][n] = @ - 1]
----------------------------------------------------------------------------
Begin(pc, l) ==
    /\ hook' = IF pc = "end" THEN None
               ELSE [pc |-> pc, link |-> l, i |-> 0, prev |-> sys]
    /\ fails' = 0

(* ip-up, when the Call-ID has no active lease; with one it does nothing.  *)
StartUp(l) ==
    /\ Idle
    /\ marker[CallOf[l]] = None
    /\ \A n \in 1 .. Rules : rules[CallOf[l]][n] < MaxCopies
    /\ Begin("install", l)
    /\ UNCHANGED <<sys, rules, files>>

LastButOne == hook.i + 2 >= Operations
LastOperation == hook.i + 1 = Operations

(* applyRules up; a failing command undoes those that succeeded.           *)
Install ==
    /\ At("install")
    /\ \/ /\ rules' = Added(Call, hook.i + 1)
          /\ IF LastOperation THEN Goto("retain")
             ELSE Step("install", hook.i + 1)
          /\ UNCHANGED <<sys, files>>
       \/ Fails("undo", hook.i)

Undo ==
    /\ At("undo")
    /\ \/ /\ hook.i = 0
          /\ Goto("end")
          /\ UNCHANGED <<sys, rules, files>>
       \/ /\ hook.i > 0
          /\ \/ /\ rules' = Deleted(Call, hook.i)
                /\ Step("undo", hook.i - 1)
                /\ UNCHANGED <<sys, files>>
             \/ Fails("undo", hook.i - 1)

(* retainForwarding: a snapshot left without active leases is restored     *)
(* first; then the current values are saved, unless there is a snapshot.   *)
RetainedAfresh == sys
Retained == IF snapshot = None THEN sys ELSE snapshot

Retain ==
    /\ At("retain")
    /\ \/ /\ ~HasActive /\ snapshot # None
          /\ Goto("restore-old")
          /\ UNCHANGED <<sys, rules, files>>
       \/ /\ HasActive \/ snapshot = None
          /\ snapshot' = Retained
          /\ hook' = [hook EXCEPT !.pc = "forward", !.i = 0, !.prev = sys]
          /\ UNCHANGED <<sys, rules, marker, fails>>
       \/ Fails("clean", 0)

(* setForwarding: the global switch, then that of the outbound interface,  *)
(* each only when it was off; a failure puts both back as they were.       *)
Switch(i) == IF i = 0 THEN Global ELSE OutIf[Call]

Forward ==
    /\ At("forward")
    /\ LET k == Switch(hook.i)
       IN  \/ /\ sys' = IF hook.prev[k] THEN sys ELSE Written(k, TRUE)
              /\ IF hook.i = 0 THEN Step("forward", 1) ELSE Goto("mark")
              /\ UNCHANGED <<rules, files>>
           \/ hook.i = 0 /\ Fails("clean", 0)
           \/ ~hook.prev[k] /\ Fails("unforward", 0)

Unforward ==
    /\ At("unforward")
    /\ LET k == Switch(hook.i)
           next == IF hook.i = 0 THEN "unforward" ELSE "clean"
       IN  \/ /\ sys' = IF sys[k] = hook.prev[k] THEN sys ELSE Written(k, hook.prev[k])
              /\ Step(next, 1 - hook.i)
              /\ UNCHANGED <<rules, files>>
           \/ Fails(next, 1 - hook.i)

(* The marker makes the lease active.                                      *)
Mark ==
    /\ At("mark")
    /\ marker' = [marker EXCEPT ![Call] =
                     [link |-> hook.link, teardown |-> FALSE,
                      removed |-> 0, rulesRemoved |-> FALSE]]
    /\ Goto("end")
    /\ UNCHANGED <<sys, rules, snapshot>>

(* Forwarding failed: the rules go, and the first caller's snapshot is     *)
(* restored.  A failure here ends the hook.                                *)
CleanWithoutRestore == "end"
AfterClean == IF HasActive \/ snapshot = None THEN "end" ELSE "restore-up"

Clean ==
    /\ At("clean")
    /\ \/ /\ rules' = Deleted(Call, hook.i + 1)
          /\ IF LastOperation THEN Goto(AfterClean)
             ELSE Step("clean", hook.i + 1)
          /\ UNCHANGED <<sys, files>>
       \/ Fails("end", 0)
----------------------------------------------------------------------------
(* restoreRetainedForwarding: the global switch first, then the others     *)
(* that differ; the snapshot is removed when all are as they were.         *)
GlobalFirst(S) == IF Global \in S THEN {Global} ELSE S

Restore(here, next, failed) ==
    /\ At(here)
    /\ LET wrong == {k \in Keys : sys[k] # snapshot[k]}
       IN  \/ /\ wrong = {}
              /\ snapshot' = None
              /\ Goto(next)
              /\ UNCHANGED <<sys, rules, marker>>
           \/ \E k \in GlobalFirst(wrong) :
                 /\ sys' = Written(k, snapshot[k])
                 /\ UNCHANGED <<rules, files, hook, fails>>
           \/ Fails(failed, 0)

RestoreOld  == Restore("restore-old", "retain", "clean")
RestoreUp   == Restore("restore-up", "end", "end")
RestoreDown == Restore("restore-down", "unmark", "end")

(* What ip-down does when the rules are gone; without a snapshot it fails. *)
AfterRules(c) ==
    IF ActiveExcept(c) THEN "unmark"
    ELSE IF snapshot = None THEN "end" ELSE "restore-down"

(* ip-down of the link that is active; another does nothing (Ignored).      *)
StartDown(l) ==
    /\ Idle
    /\ LET m == marker[CallOf[l]]
       IN  /\ m # None
           /\ m.link = l
           /\ Begin(IF m.rulesRemoved THEN AfterRules(CallOf[l]) ELSE "teardown", l)
    /\ UNCHANGED <<sys, rules, files>>

(* ip-down of a link that is not active, such as the old one after a       *)
(* reconnect or one already torn down.                                     *)
Ignored(l) ==
    /\ Idle
    /\ marker[CallOf[l]] # None => marker[CallOf[l]].link # l
    /\ UNCHANGED <<sys, rules, files, hook, fails>>

Teardown ==
    /\ At("teardown")
    /\ marker' = [marker EXCEPT ![Call].teardown = TRUE]
    /\ Step("remove", marker[Call].removed)
    /\ UNCHANGED <<sys, rules, snapshot>>

(* applyRules down, from the saved progress on; a rule that is gone is an  *)
(* error.                                                                  *)
Remove ==
    /\ At("remove")
    /\ \/ /\ hook.i = Operations
          /\ Goto("removed")
          /\ UNCHANGED <<sys, rules, files>>
       \/ /\ hook.i < Operations
          /\ \/ /\ rules[Call][hook.i + 1] > 0
                /\ rules' = Deleted(Call, hook.i + 1)
                /\ Step("record", hook.i + 1)
                /\ UNCHANGED <<sys, files>>
             \/ /\ rules[Call][hook.i + 1] = 0
                /\ Goto("end")
                /\ UNCHANGED <<sys, rules, files>>
             \/ Fails("end", 0)

(* recordRemoval, which only iptables uses.                                *)
NothingRecorded == marker
RecordedAhead ==
    IF nft THEN marker ELSE [marker EXCEPT ![Call].removed = hook.i + 1]

Recorded ==
    IF nft THEN marker ELSE [marker EXCEPT ![Call].removed = hook.i]

Record ==
    /\ At("record")
    /\ marker' = Recorded
    /\ Step("remove", hook.i)
    /\ UNCHANGED <<sys, rules, snapshot>>

RulesRemoved ==
    /\ At("removed")
    /\ marker' = [marker EXCEPT ![Call].rulesRemoved = TRUE]
    /\ Goto(AfterRules(Call))
    /\ UNCHANGED <<sys, rules, snapshot>>

Unmark ==
    /\ At("unmark")
    /\ marker' = [marker EXCEPT ![Call] = None]
    /\ Goto("end")
    /\ UNCHANGED <<sys, rules, snapshot>>

(* The hook is killed or cannot write a file; the lock is free again.      *)
Dies ==
    /\ faults.die
    /\ ~Idle
    /\ Goto("end")
    /\ UNCHANGED <<sys, rules, files>>
----------------------------------------------------------------------------
Run ==
    \/ Install \/ Undo \/ Retain \/ Forward \/ Unforward \/ Mark \/ Clean
    \/ RestoreOld \/ RestoreUp \/ RestoreDown
    \/ Teardown \/ Remove \/ Record \/ RulesRemoved \/ Unmark

Next ==
    /\ \/ Run
       \/ Dies
       \/ \E l \in Links : StartUp(l) \/ StartDown(l) \/ Ignored(l)
    /\ UNCHANGED rigid

Spec == Init /\ [][Next]_vars

(* A running hook goes on, and ip-down is repeated while its marker is     *)
(* there.                                                                  *)
Fairness ==
    /\ WF_vars(Run /\ UNCHANGED rigid)
    /\ \A l \in Links : SF_vars(StartDown(l) /\ UNCHANGED rigid)

FairSpec == Spec /\ Fairness
----------------------------------------------------------------------------
Active(c) == marker[c] # None /\ ~marker[c].teardown

Complete(c) == \A n \in 1 .. Operations : rules[c][n] > 0

(* Whatever fails and whenever hooks die, the original switches are never  *)
(* forgotten: a snapshot holds them, and there is one while any differs    *)
(* (retainForwarding never records another baseline over that evidence).   *)
BaselineKept ==
    /\ snapshot # None => snapshot = base
    /\ sys # base => snapshot # None

(* Every active lease has all its rules, and no teardown or failed         *)
(* activation of another call takes them or its forwarding away.           *)
ActiveIsServed ==
    \A c \in Calls : Active(c) => /\ Complete(c)
                                  /\ sys[Global]
                                  /\ sys[OutIf[c]]

(* Forwarding is switched on by ip-up only behind the lease's own complete *)
(* policy, or when restoring it.                                           *)
FilteredBeforeForwarding ==
    [][sys'[Global] /\ ~sys[Global] => base[Global] \/ Complete(Call)]_vars

(* The saved progress of a teardown is exact when hooks do not die: retries *)
(* find every rule they will delete and leave none.                        *)
ProgressExact ==
    ~faults.die /\ Idle =>
        \A c \in Calls : marker[c] # None =>
            \A n \in 1 .. Operations :
                rules[c][n] = IF marker[c].rulesRemoved \/ n <= marker[c].removed
                              THEN 0 ELSE 1

(* ... and all variables have their types.                                 *)
ProgressKept == TypeOK /\ ProgressExact

(* Without active or unfinished leases nothing is left: no rule, no        *)
(* snapshot, the switches as they were (deploy/README.md:387-388).  An     *)
(* ip-down that finds no marker does nothing, so what is left stays.       *)
CleanAtRest ==
    ~faults.die /\ Idle /\ ~HasActive =>
        /\ sys = base
        /\ snapshot = None
        /\ \A c \in Calls, n \in 1 .. Rules : rules[c][n] = 0

(* A teardown that was started is completed by repeating ip-down, once     *)
(* commands no longer fail (deploy/README.md:400-402).                     *)
TeardownCompletes ==
    ~faults.die /\ <>[](fails = 0) =>
        \A c \in Calls : marker[c] # None /\ marker[c].teardown ~> marker[c] = None
=============================================================================
