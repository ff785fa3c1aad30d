-------------------------- MODULE EgressHookProofs --------------------------
(***************************************************************************)
(* Proofs about EgressHook, for any number of calls, links, interfaces and *)
(* rules, any number of failing commands and hooks that are killed at any  *)
(* step; and, for hooks that are not killed and in which at most one       *)
(* command fails, that nothing is left behind.                             *)
(***************************************************************************)
EXTENDS EgressHook, TLAPS

Up == {"install", "undo", "retain", "restore-old", "forward", "unforward",
       "mark", "clean", "restore-up"}
Down == {"teardown", "remove", "record", "removed", "restore-down", "unmark"}

(* All rules of the lease are in the kernel while ip-up is there.          *)
Installed == {"retain", "restore-old", "forward", "unforward", "mark"}

(* What a marker says of the progress of a teardown.                       *)
MarkersAgree ==
    \A c \in Calls : marker[c] # None =>
        /\ marker[c].rulesRemoved => marker[c].teardown
        /\ marker[c].removed <= Operations
        /\ nft => marker[c].removed = 0

(* How far a hook is.                                                      *)
CountInRange ==
    hook # None =>
        /\ hook.pc \in {"install", "undo", "clean"} => hook.i < Operations
        /\ hook.pc \in {"forward", "unforward"} => hook.i <= 1
        /\ hook.pc \in {"remove", "record"} => hook.i <= Operations
        /\ hook.pc = "record" => 0 < hook.i

(* ip-up works for a Call-ID without a marker, ip-down for one with; who   *)
(* takes rules away has said so in the marker before.                      *)
MarkerOfHook ==
    hook # None =>
        /\ hook.pc \in Up => marker[Call] = None
        /\ hook.pc \in Down => marker[Call] # None
        /\ hook.pc \in Down \ {"teardown"} => marker[Call].teardown
        /\ hook.pc \in {"teardown", "remove", "record", "removed"} =>
              ~marker[Call].rulesRemoved
        /\ hook.pc \in {"restore-down", "unmark"} => marker[Call].rulesRemoved

(* The rules ip-up may count on, whatever earlier hooks left.              *)
RulesOfHook ==
    hook # None =>
        /\ hook.pc \in {"install", "undo"} => \A n \in 1 .. hook.i : rules[Call][n] > 0
        /\ hook.pc \in Installed => Complete(Call)
        /\ hook.pc = "clean" => \A n \in hook.i + 1 .. Operations : rules[Call][n] > 0

(* Switches are changed only while a snapshot holds the original values,   *)
(* and are restored only when no other lease is active.                    *)
SnapshotOfHook ==
    hook # None =>
        /\ hook.pc \in {"forward", "unforward", "mark",
                        "restore-old", "restore-up", "restore-down"} => snapshot # None
        /\ hook.pc \in {"restore-old", "restore-up"} => ~HasActive
        /\ hook.pc = "restore-down" => ~ActiveExcept(Call)

(* What setForwarding read is what active leases need, and it only adds to *)
(* that.                                                                   *)
SwitchesOfHook ==
    hook # None =>
        /\ hook.pc = "forward" =>
              /\ \A k \in Keys : hook.prev[k] => sys[k]
              /\ hook.i = 1 => sys[Global]
        /\ hook.pc \in {"forward", "unforward"} =>
              \A d \in Calls : Active(d) => hook.prev[Global] /\ hook.prev[OutIf[d]]
        /\ hook.pc = "mark" => sys[Global] /\ sys[OutIf[Call]]

(* The inductive invariant.                                                *)
IInv ==
    /\ TypeOK
    /\ MarkersAgree
    /\ CountInRange
    /\ MarkerOfHook
    /\ RulesOfHook
    /\ BaselineKept
    /\ SnapshotOfHook
    /\ ActiveIsServed
    /\ SwitchesOfHook

(* The copies of rule n of c that its marker speaks of.                    *)
Owed(c, n) ==
    IF marker[c] = None \/ marker[c].rulesRemoved \/ n <= marker[c].removed THEN 0 ELSE 1

(* And those a hook that is at work has left of its own call.              *)
OwedByHook(n) ==
    IF \/ hook.pc \in {"install", "undo"} /\ n <= hook.i
       \/ hook.pc \in Installed
       \/ hook.pc \in {"clean", "remove", "record"} /\ n > hook.i
       \/ hook.pc = "teardown" /\ n > marker[Call].removed
    THEN 1 ELSE 0

(* If no hook is killed and at most one command of each fails, all rules   *)
(* in the kernel are accounted for, by the markers and the hook at work ... *)
RulesExact ==
    \A c \in Calls, n \in 1 .. Rules :
        rules[c][n] = IF n > Operations THEN 0
                      ELSE IF hook # None /\ c = Call THEN OwedByHook(n) ELSE Owed(c, n)

(* ... who cleans up has seen the one failure already ...                  *)
FailedOnce ==
    hook # None =>
        /\ hook.pc \in {"undo", "unforward", "clean", "restore-up"} => fails > 0
        /\ hook.pc = "remove" => nft \/ marker[Call].removed = hook.i

(* ... and a snapshot is there only for a lease or for the hook.           *)
SnapshotExact ==
    /\ hook = None \/ hook.pc \in {"install", "undo", "retain"} =>
          HasActive \/ snapshot = None
    /\ hook # None =>
          /\ hook.pc # "restore-old"
          /\ hook.pc = "unmark" => ActiveExcept(Call) \/ snapshot = None

OneFailure == ~faults.die /\ faults.failures <= 1

Exact == RulesExact /\ FailedOnce /\ SnapshotExact
----------------------------------------------------------------------------
(* What is said of the hook at work.                                       *)
HookInv ==
    CountInRange /\ MarkerOfHook /\ RulesOfHook /\ SnapshotOfHook /\ SwitchesOfHook

(* Where a hook is, whose it is and how much it has to do.                 *)
Working(pc) ==
    /\ hook # None /\ hook \in Hooks /\ hook.pc = pc /\ hook.i \in 0 .. Rules
    /\ Call \in Calls
    /\ Operations \in 1 .. Rules /\ Rules \in Nat

(* A hook at a place is one that runs, for a link and a call there is.     *)
LEMMA AtWorks ==
    ASSUME TypeOK, NEW pc, At(pc)
    PROVE  Working(pc)
BY LinksAssumption, RulesAssumption DEF At, TypeOK, Hooks, Call, Operations, Working

(* A hook that goes on is the same hook at another place.                  *)
LEMMA HookGoesOn ==
    ASSUME TypeOK, hook # None, NEW pc \in PCs, NEW i \in 0 .. Rules, To(pc, i)
    PROVE  /\ hook' \in Hooks /\ hook' # None
           /\ hook'.pc = pc /\ hook'.i = i
           /\ hook'.link = hook.link /\ hook'.prev = hook.prev
           /\ Call' = Call
<1>1. hook \in Hooks
  BY DEF TypeOK
<1>2. hook' = [hook EXCEPT !.pc = pc, !.i = i]
  BY DEF To, PCs
<1>3. /\ hook' \in Hooks /\ hook'.pc = pc /\ hook'.i = i
      /\ hook'.link = hook.link /\ hook'.prev = hook.prev
  BY <1>1, <1>2 DEF Hooks
<1>4. QED
  BY <1>3, NoneAssumption DEF Call

(* A step that changes nothing but the hook keeps what does not depend on  *)
(* it.                                                                     *)
LEMMA QuietKeeps ==
    ASSUME IInv, UNCHANGED <<rigid, sys, rules, files>>,
           hook' \in Hooks \cup {None}, fails' \in 0 .. faults.failures, HookInv'
    PROVE  IInv'
BY DEF IInv, HookInv, TypeOK, rigid, files, MarkersAgree, Operations, BaselineKept,
       ActiveIsServed, Active, Complete

(* A hook that ends, wherever it is and however it ends, keeps all.        *)
LEMMA EndKeeps ==
    ASSUME IInv, UNCHANGED <<rigid, sys, rules, files>>, hook' = None,
           fails' \in 0 .. faults.failures
    PROVE  IInv'
<1>1. HookInv'
  BY DEF HookInv, CountInRange, MarkerOfHook, RulesOfHook, SnapshotOfHook, SwitchesOfHook
<1>2. QED
  BY <1>1, QuietKeeps

(* A failing command changes nothing but the place of the hook.            *)
LEMMA FailCounts ==
    ASSUME TypeOK, NEW pc, NEW i, Fails(pc, i)
    PROVE  /\ UNCHANGED <<sys, rules, files>> /\ To(pc, i)
           /\ fails' \in 0 .. faults.failures
BY FaultsAssumption DEF TypeOK, Fails

(* Rules of a call that is not active are nobody else's concern.           *)
LEMMA OwnRulesChange ==
    ASSUME IInv, UNCHANGED <<rigid, sys, files>>, hook # None, ~Active(Call),
           \A d \in Calls \ {Call} : rules'[d] = rules[d]
    PROVE  MarkersAgree' /\ BaselineKept' /\ ActiveIsServed'
BY DEF IInv, MarkersAgree, BaselineKept, ActiveIsServed, Active, Complete, Operations,
       rigid, files

(* A deleted rule is one less of its kind, of its call only.               *)
LEMMA DeleteOne ==
    ASSUME TypeOK, NEW c \in Calls, NEW n \in 1 .. Rules, rules[c][n] > 0,
           rules' = Deleted(c, n)
    PROVE  /\ rules' \in [Calls -> [1 .. Rules -> Nat]]
           /\ \A d \in Calls \ {c} : rules'[d] = rules[d]
           /\ \A m \in 1 .. Rules \ {n} : rules'[c][m] = rules[c][m]
           /\ rules'[c][n] = rules[c][n] - 1
<1>1. rules[c] \in [1 .. Rules -> Nat] /\ rules[c][n] \in Nat
  BY DEF TypeOK
<1>2. rules' = [rules EXCEPT ![c] = [rules[c] EXCEPT ![n] = rules[c][n] - 1]]
  BY DEF Deleted
<1>3. [rules[c] EXCEPT ![n] = rules[c][n] - 1] \in [1 .. Rules -> Nat]
  BY <1>1
<1>4. QED
  BY <1>1, <1>2, <1>3 DEF TypeOK

(* Writing the global switch sets all of them, another only itself.        *)
LEMMA WriteOne ==
    ASSUME TypeOK, NEW k \in Keys, NEW value \in BOOLEAN, sys' = Written(k, value)
    PROVE  /\ sys' \in [Keys -> BOOLEAN]
           /\ k = Global => \A j \in Keys : sys'[j] = value
           /\ k # Global => sys'[k] = value /\ \A j \in Keys \ {k} : sys'[j] = sys[j]
BY DEF TypeOK, Written
----------------------------------------------------------------------------
(* applyRules up adds to the rules of a call that is not active.           *)
LEMMA InstallKeeps ==
    ASSUME IInv, Install, UNCHANGED rigid
    PROVE  IInv'
<1> USE DEF IInv
<1>1. Working("install")
  BY AtWorks DEF Install
<1>2. /\ hook.i < Operations /\ marker[Call] = None
      /\ \A n \in 1 .. hook.i : rules[Call][n] > 0
  BY <1>1 DEF Working, CountInRange, MarkerOfHook, Up, RulesOfHook
<1>3. CASE rules' = Added(Call, hook.i + 1) /\ UNCHANGED <<sys, files>>
           /\ IF LastOperation THEN Goto("retain") ELSE Step("install", hook.i + 1)
  <2>1. /\ hook' \in Hooks /\ hook' # None
        /\ hook'.pc \in {"install", "retain"}
        /\ hook'.pc = "install" => hook'.i = hook.i + 1 /\ hook'.i < Operations
        /\ hook'.pc = "retain" => hook.i + 1 = Operations
        /\ Call' = Call /\ Operations' = Operations
    BY <1>1, <1>2, <1>3, HookGoesOn
       DEF Working, LastOperation, Goto, Step, PCs, Operations, rigid
  <2>2. rules' \in [Calls -> [1 .. Rules -> Nat]]
    BY <1>1, <1>2, <1>3 DEF Working, Added, TypeOK
  <2>3. TypeOK'
    BY <1>3, <2>1, <2>2 DEF TypeOK, Goto, Step, rigid, files
  <2>4. /\ \A d \in Calls \ {Call} : rules'[d] = rules[d]
        /\ \A n \in 1 .. hook.i + 1 : rules'[Call][n] > 0
    BY <1>1, <1>2, <1>3 DEF Working, Added, TypeOK
  <2>5. MarkersAgree' /\ BaselineKept' /\ ActiveIsServed'
    BY <1>1, <1>2, <1>3, <2>4, OwnRulesChange DEF Working, Active
  <2>6. RulesOfHook'
    BY <1>1, <2>1, <2>4 DEF Working, RulesOfHook, Installed, Complete
  <2>7. CountInRange' /\ MarkerOfHook'
    BY <1>2, <1>3, <2>1 DEF CountInRange, MarkerOfHook, Up, Down, files
  <2>8. SnapshotOfHook' /\ SwitchesOfHook'
    BY <2>1 DEF SnapshotOfHook, SwitchesOfHook
  <2>9. QED
    BY <2>3, <2>5, <2>6, <2>7, <2>8
<1>4. CASE Fails("undo", hook.i)
  <2>1. /\ hook' \in Hooks /\ hook' # None
        /\ hook'.pc = "undo" /\ hook'.i = hook.i /\ Call' = Call
    BY <1>1, <1>4, HookGoesOn, FailCounts DEF Working, PCs
  <2>2. HookInv'
    BY <1>1, <1>2, <1>4, <2>1, FailCounts
       DEF Working, HookInv, CountInRange, MarkerOfHook, Up, Down, RulesOfHook, Installed,
           SnapshotOfHook, SwitchesOfHook, files, rigid, Operations
  <2>3. QED
    BY <1>4, <2>1, <2>2, FailCounts, QuietKeeps
<1>5. QED
  BY <1>3, <1>4 DEF Install

(* The undoing of a failed installation deletes only what it has installed. *)
LEMMA UndoKeeps ==
    ASSUME IInv, Undo, UNCHANGED rigid
    PROVE  IInv'
<1> USE DEF IInv
<1>1. Working("undo")
  BY AtWorks DEF Undo
<1>2. /\ hook.i < Operations /\ marker[Call] = None
      /\ \A n \in 1 .. hook.i : rules[Call][n] > 0
  BY <1>1 DEF Working, CountInRange, MarkerOfHook, Up, RulesOfHook
<1>3. CASE hook.i = 0
  BY <1>3, EndKeeps DEF Undo, Goto, Step, To, TypeOK
<1>4. CASE hook.i > 0 /\ rules' = Deleted(Call, hook.i)
           /\ Step("undo", hook.i - 1) /\ UNCHANGED <<sys, files>>
  <2>1. /\ hook' \in Hooks /\ hook' # None
        /\ hook'.pc = "undo" /\ hook'.i = hook.i - 1
        /\ Call' = Call /\ Operations' = Operations
    BY <1>1, <1>2, <1>4, HookGoesOn DEF Working, Step, PCs, Operations, rigid
  <2>2. /\ rules' \in [Calls -> [1 .. Rules -> Nat]]
        /\ \A d \in Calls \ {Call} : rules'[d] = rules[d]
        /\ \A n \in 1 .. hook.i - 1 : rules'[Call][n] > 0
    <3>1. hook.i \in 1 .. Rules /\ rules[Call][hook.i] > 0
      BY <1>1, <1>2, <1>4 DEF Working
    <3>2. \A n \in 1 .. hook.i - 1 : n \in 1 .. Rules \ {hook.i} /\ rules[Call][n] > 0
      BY <1>1, <1>2 DEF Working
    <3>3. QED
      BY <1>1, <1>4, <3>1, <3>2, DeleteOne DEF Working
  <2>3. TypeOK'
    BY <1>4, <2>1, <2>2 DEF TypeOK, Step, rigid, files
  <2>4. MarkersAgree' /\ BaselineKept' /\ ActiveIsServed'
    BY <1>1, <1>2, <1>4, <2>2, OwnRulesChange DEF Working, Active
  <2>5. HookInv'
    BY <1>1, <1>2, <1>4, <2>1, <2>2
       DEF Working, HookInv, CountInRange, MarkerOfHook, Up, Down, RulesOfHook, Installed,
           SnapshotOfHook, SwitchesOfHook, files
  <2>6. QED
    BY <2>3, <2>4, <2>5 DEF HookInv
<1>5. CASE hook.i > 0 /\ Fails("undo", hook.i - 1)
  <2>1. /\ hook' \in Hooks /\ hook' # None
        /\ hook'.pc = "undo" /\ hook'.i = hook.i - 1 /\ Call' = Call
    BY <1>1, <1>5, HookGoesOn, FailCounts DEF Working, PCs
  <2>2. HookInv'
    BY <1>1, <1>2, <1>5, <2>1, FailCounts
       DEF Working, HookInv, CountInRange, MarkerOfHook, Up, Down, RulesOfHook, Installed,
           SnapshotOfHook, SwitchesOfHook, files, rigid, Operations
  <2>3. QED
    BY <1>5, <2>1, <2>2, FailCounts, QuietKeeps
<1>6. QED
  BY <1>3, <1>4, <1>5 DEF Undo

(* A snapshot is taken of the original values only, and of what every      *)
(* active lease needs.                                                     *)
LEMMA RetainKeeps ==
    ASSUME IInv, Retain, UNCHANGED rigid
    PROVE  IInv'
<1> USE DEF IInv
<1>1. Working("retain")
  BY AtWorks DEF Retain
<1>2. marker[Call] = None /\ Complete(Call)
  BY <1>1 DEF Working, MarkerOfHook, Up, RulesOfHook, Installed
<1>3. CASE ~HasActive /\ snapshot # None /\ Goto("restore-old")
           /\ UNCHANGED <<sys, rules, files>>
  <2>1. /\ hook' \in Hooks /\ hook' # None /\ hook'.pc = "restore-old" /\ Call' = Call
    BY <1>1, <1>3, HookGoesOn DEF Working, Goto, Step, PCs
  <2>2. HookInv'
    BY <1>2, <1>3, <2>1
       DEF HookInv, CountInRange, MarkerOfHook, Up, Down, RulesOfHook, Installed, Complete,
           Operations, SnapshotOfHook, HasActive, SwitchesOfHook, files, rigid
  <2>3. QED
    BY <1>3, <2>1, <2>2, QuietKeeps DEF Goto, Step, TypeOK
<1>4. CASE /\ snapshot' = Retained
           /\ hook' = [hook EXCEPT !.pc = "forward", !.i = 0, !.prev = sys]
           /\ UNCHANGED <<sys, rules, marker, fails>>
  <2>1. /\ hook' \in Hooks /\ hook' # None
        /\ hook'.pc = "forward" /\ hook'.i = 0 /\ hook'.prev = sys
        /\ Call' = Call /\ Operations' = Operations
    <3>1. /\ hook' \in Hooks /\ hook'.pc = "forward" /\ hook'.i = 0 /\ hook'.prev = sys
          /\ hook'.link = hook.link
      <4>1. sys \in [Keys -> BOOLEAN] /\ hook \in Hooks /\ "forward" \in PCs /\ 0 \in 0 .. Rules
        BY <1>1 DEF Working, PCs, TypeOK
      <4>2. QED
        BY <1>4, <4>1 DEF Hooks
    <3>2. hook' # None
      BY <3>1, NoneAssumption
    <3>3. Operations' = Operations
      BY DEF Operations, rigid
    <3>4. QED
      BY <3>1, <3>2, <3>3 DEF Call
  <2>2. snapshot' = base /\ snapshot' # None
    BY <1>4, NoneAssumption DEF Retained, BaselineKept, TypeOK
  <2>3. TypeOK'
    BY <1>4, <2>1, <2>2 DEF TypeOK, rigid
  <2>4. MarkersAgree' /\ BaselineKept' /\ ActiveIsServed'
    BY <1>4, <2>1, <2>2
       DEF MarkersAgree, BaselineKept, ActiveIsServed, Active, Complete, rigid
  <2>5. CountInRange' /\ MarkerOfHook' /\ RulesOfHook' /\ SnapshotOfHook'
    BY <1>2, <1>4, <2>1, <2>2
       DEF CountInRange, MarkerOfHook, Up, Down, RulesOfHook, Complete, SnapshotOfHook
  <2>6. SwitchesOfHook'
    BY <1>4, <2>1 DEF SwitchesOfHook, ActiveIsServed, Active
  <2>7. QED
    BY <2>3, <2>4, <2>5, <2>6
<1>5. CASE Fails("clean", 0)
  <2>1. /\ hook' \in Hooks /\ hook' # None
        /\ hook'.pc = "clean" /\ hook'.i = 0 /\ Call' = Call
    BY <1>1, <1>5, HookGoesOn, FailCounts DEF Working, PCs
  <2>2. HookInv'
    BY <1>1, <1>2, <1>5, <2>1, FailCounts
       DEF Working, HookInv, CountInRange, MarkerOfHook, Up, Down, RulesOfHook, Installed,
           Complete, SnapshotOfHook, SwitchesOfHook, files, rigid, Operations
  <2>3. QED
    BY <1>5, <2>1, <2>2, FailCounts, QuietKeeps
<1>6. QED
  BY <1>3, <1>4, <1>5 DEF Retain

(* The switches of the outbound interface and of the kernel.               *)
LEMMA SwitchIsKey ==
    ASSUME TypeOK, hook # None, NEW i \in 0 .. 1
    PROVE  Switch(i) \in Keys /\ (i = 0 => Switch(i) = Global) /\ (i = 1 => Switch(i) = OutIf[Call])
           /\ OutIf[Call] \in Ifs /\ Global # OutIf[Call]
BY LinksAssumption, GlobalAssumption DEF TypeOK, Hooks, Call, Switch, Keys

(* setForwarding only adds to what is forwarded, with a snapshot behind it *)
(* and all rules of the lease in the kernel.                               *)
LEMMA ForwardKeeps ==
    ASSUME IInv, Forward, UNCHANGED rigid
    PROVE  IInv'
<1> USE DEF IInv
<1> DEFINE k == Switch(hook.i)
<1>1. Working("forward")
  BY AtWorks DEF Forward
<1>2. /\ hook.i \in 0 .. 1 /\ marker[Call] = None /\ Complete(Call) /\ snapshot # None
      /\ \A j \in Keys : hook.prev[j] => sys[j]
      /\ hook.i = 1 => sys[Global]
      /\ \A d \in Calls : Active(d) => hook.prev[Global] /\ hook.prev[OutIf[d]]
  BY <1>1 DEF Working, CountInRange, MarkerOfHook, Up, RulesOfHook, Installed,
     SnapshotOfHook, SwitchesOfHook
<1>3. /\ k \in Keys /\ (hook.i = 0 => k = Global) /\ (hook.i = 1 => k = OutIf[Call])
      /\ OutIf[Call] \in Ifs /\ Global # OutIf[Call]
  BY <1>1, <1>2, SwitchIsKey DEF Working
<1>4. CASE /\ sys' = IF hook.prev[k] THEN sys ELSE Written(k, TRUE)
           /\ IF hook.i = 0 THEN Step("forward", 1) ELSE Goto("mark")
           /\ UNCHANGED <<rules, files>>
  <2>1. /\ hook' \in Hooks /\ hook' # None /\ fails' = fails
        /\ hook.i = 0 => hook'.pc = "forward" /\ hook'.i = 1
        /\ hook.i = 1 => hook'.pc = "mark"
        /\ Call' = Call /\ hook'.prev = hook.prev /\ Operations' = Operations
    BY <1>1, <1>2, <1>4, HookGoesOn DEF Working, Goto, Step, PCs, Operations, rigid
  <2>2. /\ sys' \in [Keys -> BOOLEAN] /\ sys'[k]
        /\ \A j \in Keys : sys[j] => sys'[j]
    BY <1>2, <1>3, <1>4, WriteOne DEF TypeOK
  <2>3. TypeOK'
    BY <1>4, <2>1, <2>2 DEF TypeOK, rigid, files
  <2>4. MarkersAgree' /\ BaselineKept'
    BY <1>2, <1>4 DEF MarkersAgree, BaselineKept, rigid, files, Operations
  <2>5. ActiveIsServed'
    BY <1>4, <2>1, <2>2, LinksAssumption
       DEF ActiveIsServed, Active, Complete, rigid, files, Keys
  <2>6. CountInRange' /\ MarkerOfHook' /\ RulesOfHook' /\ SnapshotOfHook'
    BY <1>2, <1>4, <2>1
       DEF CountInRange, MarkerOfHook, Up, Down, RulesOfHook, Complete, SnapshotOfHook, files
  <2>7. SwitchesOfHook'
    <3>1. CASE hook.i = 0
      BY <1>2, <1>3, <1>4, <2>1, <2>2, <3>1 DEF SwitchesOfHook, Active, files
    <3>2. CASE hook.i = 1
      BY <1>2, <1>3, <1>4, <2>1, <2>2, <3>2 DEF SwitchesOfHook, Keys
    <3>3. QED
      BY <1>2, <3>1, <3>2
  <2>8. QED
    BY <2>3, <2>4, <2>5, <2>6, <2>7
<1>5. ASSUME NEW pc \in {"clean", "unforward"}, Fails(pc, 0) PROVE IInv'
  <2>1. /\ hook' \in Hooks /\ hook' # None
        /\ hook'.pc = pc /\ hook'.i = 0 /\ Call' = Call /\ hook'.prev = hook.prev
    BY <1>1, <1>5, HookGoesOn, FailCounts DEF Working, PCs
  <2>2. HookInv'
    BY <1>1, <1>2, <1>5, <2>1, FailCounts
       DEF Working, HookInv, CountInRange, MarkerOfHook, Up, Down, RulesOfHook, Installed,
           Complete, SnapshotOfHook, SwitchesOfHook, Active, files, rigid, Operations
  <2>3. QED
    BY <1>5, <2>1, <2>2, FailCounts, QuietKeeps
<1>6. QED
  BY <1>4, <1>5 DEF Forward

(* A failed setForwarding puts back only what no active lease needs.       *)
LEMMA UnforwardKeeps ==
    ASSUME IInv, Unforward, UNCHANGED rigid
    PROVE  IInv'
<1> USE DEF IInv
<1> DEFINE k == Switch(hook.i)
           next == IF hook.i = 0 THEN "unforward" ELSE "clean"
<1>1. Working("unforward")
  BY AtWorks DEF Unforward
<1>2. /\ hook.i \in 0 .. 1 /\ marker[Call] = None /\ Complete(Call) /\ snapshot # None
      /\ \A d \in Calls : Active(d) => hook.prev[Global] /\ hook.prev[OutIf[d]]
  BY <1>1 DEF Working, CountInRange, MarkerOfHook, Up, RulesOfHook, Installed,
     SnapshotOfHook, SwitchesOfHook
<1>3. /\ k \in Keys /\ (hook.i = 0 => k = Global) /\ (hook.i = 1 => k = OutIf[Call])
      /\ OutIf[Call] \in Ifs /\ Global # OutIf[Call]
  BY <1>1, <1>2, SwitchIsKey DEF Working
<1>4. ASSUME To(next, 1 - hook.i), UNCHANGED <<rules, files>>
      PROVE  /\ hook' \in Hooks /\ hook' # None /\ HookInv'
  <2>1. /\ hook' \in Hooks /\ hook' # None /\ Call' = Call /\ hook'.prev = hook.prev
        /\ hook.i = 0 => hook'.pc = "unforward" /\ hook'.i = 1
        /\ hook.i = 1 => hook'.pc = "clean" /\ hook'.i = 0
    <3>1. next \in PCs /\ 1 - hook.i \in 0 .. Rules /\ hook # None
      BY <1>1, <1>2, RulesAssumption DEF Working, PCs
    <3>2. QED
      BY <1>2, <1>4, <3>1, HookGoesOn
  <2>2. HookInv'
    BY <1>1, <1>2, <1>4, <2>1
       DEF Working, HookInv, CountInRange, MarkerOfHook, Up, Down, RulesOfHook, Installed,
           Complete, SnapshotOfHook, SwitchesOfHook, Active, files, rigid, Operations
  <2>3. QED
    BY <2>1, <2>2
<1>5. CASE /\ sys' = IF sys[k] = hook.prev[k] THEN sys ELSE Written(k, hook.prev[k])
           /\ Step(next, 1 - hook.i)
           /\ UNCHANGED <<rules, files>>
  <2>1. HookInv' /\ hook' \in Hooks /\ fails' = fails
    BY <1>4, <1>5 DEF Step
  <2>2. hook.prev \in [Keys -> BOOLEAN] /\ hook.prev[k] \in BOOLEAN
    BY <1>1, <1>3 DEF Working, Hooks
  <2>3. sys' \in [Keys -> BOOLEAN]
    BY <1>3, <1>5, <2>2, WriteOne DEF TypeOK
  <2>4. TypeOK'
    BY <1>5, <2>1, <2>3 DEF TypeOK, rigid, files
  <2>5. MarkersAgree' /\ BaselineKept'
    BY <1>2, <1>5 DEF MarkersAgree, BaselineKept, rigid, files, Operations
  <2>6. ASSUME NEW d \in Calls, Active(d) PROVE sys'[Global] /\ sys'[OutIf[d]]
    <3>1. /\ hook.prev[Global] /\ hook.prev[OutIf[d]] /\ sys[Global] /\ sys[OutIf[d]]
          /\ OutIf[d] \in Keys /\ Global \in Keys
      BY <1>2, <2>6, LinksAssumption DEF ActiveIsServed, Keys
    <3>2. CASE k = Global
      BY <1>5, <3>1, <3>2
    <3>3. CASE k # Global
      BY <1>3, <1>5, <2>2, <3>1, <3>3, WriteOne
    <3>4. QED
      BY <3>2, <3>3
  <2>7. ActiveIsServed'
    BY <1>5, <2>6 DEF ActiveIsServed, Active, Complete, rigid, files, Operations
  <2>8. QED
    BY <2>1, <2>4, <2>5, <2>7 DEF HookInv
<1>6. CASE Fails(next, 1 - hook.i)
  <2>1. HookInv' /\ hook' \in Hooks
    BY <1>4, <1>6, FailCounts
  <2>2. QED
    BY <1>6, <2>1, FailCounts, QuietKeeps
<1>7. QED
  BY <1>5, <1>6 DEF Unforward

(* The marker makes active what has its rules and is forwarded.            *)
LEMMA MarkKeeps ==
    ASSUME IInv, Mark, UNCHANGED rigid
    PROVE  IInv'
<1> USE DEF IInv
<1> DEFINE m == [link |-> hook.link, teardown |-> FALSE, removed |-> 0, rulesRemoved |-> FALSE]
<1>1. Working("mark")
  BY AtWorks DEF Mark
<1>2. Complete(Call) /\ sys[Global] /\ sys[OutIf[Call]] /\ snapshot # None
  BY <1>1 DEF Working, RulesOfHook, Installed, SwitchesOfHook, SnapshotOfHook
<1>3. /\ marker' = [marker EXCEPT ![Call] = m] /\ hook' = None /\ fails' = fails
      /\ UNCHANGED <<sys, rules, snapshot>>
  BY DEF Mark, Goto, Step, To
<1>4. m \in Markers
  BY <1>1 DEF Working, Markers, Hooks
<1>5. TypeOK'
  BY <1>1, <1>3, <1>4 DEF TypeOK, Working, rigid
<1>6. \A d \in Calls : marker'[d] = IF d = Call THEN m ELSE marker[d]
  BY <1>1, <1>3 DEF TypeOK, Working
<1>7. MarkersAgree'
  BY <1>1, <1>6 DEF Working, MarkersAgree, Operations, rigid
<1>8. ActiveIsServed'
  BY <1>2, <1>3, <1>6 DEF ActiveIsServed, Active, Complete, Operations, rigid
<1>9. BaselineKept' /\ HookInv'
  BY <1>3 DEF BaselineKept, rigid, HookInv, CountInRange, MarkerOfHook, RulesOfHook,
     SnapshotOfHook, SwitchesOfHook
<1>10. QED
  BY <1>5, <1>7, <1>8, <1>9 DEF HookInv

(* A failed activation deletes the rules it has just installed.            *)
LEMMA CleanKeeps ==
    ASSUME IInv, Clean, UNCHANGED rigid
    PROVE  IInv'
<1> USE DEF IInv
<1>1. Working("clean")
  BY AtWorks DEF Clean
<1>2. /\ hook.i < Operations /\ marker[Call] = None
      /\ \A n \in hook.i + 1 .. Operations : rules[Call][n] > 0
  BY <1>1 DEF Working, CountInRange, MarkerOfHook, Up, RulesOfHook
<1>3. CASE /\ rules' = Deleted(Call, hook.i + 1)
           /\ IF LastOperation THEN Goto(AfterClean) ELSE Step("clean", hook.i + 1)
           /\ UNCHANGED <<sys, files>>
  <2>1. /\ rules' \in [Calls -> [1 .. Rules -> Nat]]
        /\ \A d \in Calls \ {Call} : rules'[d] = rules[d]
        /\ \A n \in hook.i + 2 .. Operations : rules'[Call][n] > 0
    <3>1. hook.i + 1 \in 1 .. Rules /\ rules[Call][hook.i + 1] > 0
      BY <1>1, <1>2 DEF Working
    <3>2. \A n \in hook.i + 2 .. Operations :
              n \in 1 .. Rules \ {hook.i + 1} /\ rules[Call][n] > 0
      BY <1>1, <1>2 DEF Working
    <3>3. QED
      BY <1>1, <1>3, <3>1, <3>2, DeleteOne DEF Working
  <2>2. MarkersAgree' /\ BaselineKept' /\ ActiveIsServed'
    BY <1>1, <1>2, <1>3, <2>1, OwnRulesChange DEF Working, Active
  <2>3. fails' = fails /\ (hook' \in Hooks \/ hook' = None) /\ HookInv'
    <3>1. CASE ~LastOperation
      <4>1. /\ hook' \in Hooks /\ hook' # None /\ Call' = Call /\ fails' = fails
            /\ hook'.pc = "clean" /\ hook'.i = hook.i + 1 /\ hook'.i < Operations
        BY <1>1, <1>2, <1>3, <3>1, HookGoesOn DEF Working, Step, PCs, LastOperation
      <4>2. QED
        BY <1>1, <1>2, <1>3, <2>1, <4>1
           DEF Working, HookInv, CountInRange, MarkerOfHook, Up, Down, RulesOfHook,
               Installed, SnapshotOfHook, SwitchesOfHook, files, rigid, Operations
    <3>2. CASE LastOperation /\ AfterClean = "end"
      BY <1>3, <3>2 DEF Goto, Step, To, HookInv, CountInRange, MarkerOfHook, RulesOfHook,
         SnapshotOfHook, SwitchesOfHook
    <3>3. CASE LastOperation /\ AfterClean = "restore-up" /\ ~HasActive /\ snapshot # None
      <4>1. /\ hook' \in Hooks /\ hook' # None /\ Call' = Call /\ fails' = fails
            /\ hook'.pc = "restore-up"
        BY <1>1, <1>3, <3>3, HookGoesOn DEF Working, Goto, Step, PCs
      <4>2. QED
        BY <1>2, <1>3, <3>3, <4>1
           DEF HookInv, CountInRange, MarkerOfHook, Up, Down, RulesOfHook,
               Installed, SnapshotOfHook, HasActive, SwitchesOfHook, files
    <3>4. QED
      BY <3>1, <3>2, <3>3 DEF AfterClean
  <2>4. TypeOK'
    BY <1>3, <2>1, <2>3 DEF TypeOK, rigid, files
  <2>5. QED
    BY <2>2, <2>3, <2>4 DEF HookInv
<1>4. CASE Fails("end", 0)
  BY <1>4, FailCounts, EndKeeps DEF To
<1>5. QED
  BY <1>3, <1>4 DEF Clean
----------------------------------------------------------------------------
(* restoreRetainedForwarding writes original values, and only while no     *)
(* lease is active that may need others.                                   *)
LEMMA RestoreKeeps ==
    ASSUME IInv, UNCHANGED rigid,
           NEW here \in {"restore-old", "restore-up", "restore-down"},
           NEW next \in {"retain", "end", "unmark"}, NEW failed \in {"clean", "end"},
           here = "restore-old" <=> next = "retain",
           here = "restore-old" <=> failed = "clean",
           here = "restore-down" <=> next = "unmark",
           Restore(here, next, failed)
    PROVE  IInv'
<1> USE DEF IInv
<1>1. Working(here)
  BY AtWorks DEF Restore
<1>2. /\ snapshot = base /\ snapshot # None
      /\ here # "restore-down" => marker[Call] = None /\ ~HasActive
      /\ here = "restore-old" => Complete(Call)
      /\ here = "restore-down" => marker[Call] # None /\ marker[Call].teardown
            /\ marker[Call].rulesRemoved /\ ~ActiveExcept(Call)
  BY <1>1
     DEF Working, BaselineKept, SnapshotOfHook, MarkerOfHook, Up, Down, RulesOfHook, Installed
<1>3. ASSUME NEW pc \in {"retain", "end", "unmark", "clean"}, To(pc, 0), UNCHANGED <<sys, rules, marker>>,
             pc = "retain" => here = "restore-old",
             pc = "unmark" => here = "restore-down",
             pc = "clean" => here = "restore-old"
      PROVE  hook' \in Hooks \cup {None} /\ HookInv'
  <2>1. CASE pc = "end"
    BY <1>3, <2>1 DEF To, HookInv, CountInRange, MarkerOfHook, RulesOfHook, SnapshotOfHook,
       SwitchesOfHook
  <2>2. CASE pc # "end"
    <3>1. hook' \in Hooks /\ hook' # None /\ Call' = Call /\ hook'.pc = pc /\ hook'.i = 0
      BY <1>1, <1>3, <2>2, HookGoesOn DEF Working, PCs
    <3>2. QED
      BY <1>1, <1>2, <1>3, <2>2, <3>1
         DEF Working, HookInv, CountInRange, MarkerOfHook, Up, Down, RulesOfHook, Installed,
             Complete, Operations, rigid, SnapshotOfHook, SwitchesOfHook
  <2>3. QED
    BY <2>1, <2>2
<1>4. CASE /\ {k \in Keys : sys[k] # snapshot[k]} = {}
           /\ snapshot' = None /\ Goto(next) /\ UNCHANGED <<sys, rules, marker>>
  <2>1. sys = base
    BY <1>2, <1>4 DEF TypeOK
  <2>2. hook' \in Hooks \cup {None} /\ HookInv' /\ fails' = fails
    BY <1>3, <1>4 DEF Goto, Step
  <2>3. TypeOK' /\ MarkersAgree' /\ BaselineKept' /\ ActiveIsServed'
    BY <1>4, <2>1, <2>2
       DEF TypeOK, MarkersAgree, BaselineKept, ActiveIsServed, Active, Complete, Operations,
           rigid
  <2>4. QED
    BY <2>2, <2>3 DEF HookInv
<1>5. CASE \E k \in GlobalFirst({k \in Keys : sys[k] # snapshot[k]}) :
              /\ sys' = Written(k, snapshot[k])
              /\ UNCHANGED <<rules, files, hook, fails>>
  <2>1. PICK k \in Keys : sys' = Written(k, snapshot[k]) /\ UNCHANGED <<rules, files, hook, fails>>
    BY <1>5 DEF GlobalFirst
  <2>2. sys' \in [Keys -> BOOLEAN]
    BY <1>2, <2>1, WriteOne DEF TypeOK
  <2>3. TypeOK' /\ MarkersAgree' /\ BaselineKept'
    BY <1>2, <2>1, <2>2
       DEF TypeOK, MarkersAgree, BaselineKept, Operations, rigid, files
  <2>4. \A c \in Calls : ~Active(c)
    BY <1>2 DEF Active, HasActive, ActiveExcept
  <2>5. ActiveIsServed'
    BY <2>1, <2>4 DEF ActiveIsServed, Active, files
  <2>6. HookInv'
    BY <1>1, <2>1
       DEF Working, HookInv, CountInRange, MarkerOfHook, RulesOfHook, Installed, Complete,
           Operations, rigid, files,
           SnapshotOfHook, HasActive, ActiveExcept, SwitchesOfHook, Call
  <2>7. QED
    BY <2>3, <2>5, <2>6 DEF HookInv
<1>6. CASE Fails(failed, 0)
  <2>1. hook' \in Hooks \cup {None} /\ HookInv'
    BY <1>3, <1>6, FailCounts DEF files
  <2>2. QED
    BY <1>6, <2>1, FailCounts, QuietKeeps
<1>7. QED
  BY <1>4, <1>5, <1>6 DEF Restore

(* A hook starts; ip-down goes on where an earlier one has stopped.        *)
LEMMA StartKeeps ==
    ASSUME IInv, UNCHANGED rigid, NEW l \in Links, StartUp(l) \/ StartDown(l)
    PROVE  IInv'
<1> USE DEF IInv
<1> DEFINE c == CallOf[l]
           from(pc) == [pc |-> pc, link |-> l, i |-> 0, prev |-> sys]
<1>1. hook = None /\ c \in Calls /\ Rules \in Nat \ {0} /\ Operations \in Nat \ {0}
      /\ UNCHANGED <<sys, rules, files>> /\ Operations' = Operations
  BY LinksAssumption, RulesAssumption DEF StartUp, StartDown, Idle, Operations, rigid, TypeOK
<1>2. fails' = 0 /\ 0 \in 0 .. faults.failures
  <2>1. faults.failures \in Nat
    BY FaultsAssumption DEF TypeOK
  <2>2. fails' = 0
    BY DEF StartUp, StartDown, Begin
  <2>3. QED
    BY <2>1, <2>2
<1>3. \A pc \in PCs : from(pc) \in Hooks /\ from(pc) # None
  BY <1>1, NoneAssumption DEF Hooks, TypeOK
<1>4. CASE StartUp(l)
  <2>1. hook' = from("install") /\ marker[c] = None
    BY <1>4 DEF StartUp, Begin
  <2>2. hook' \in Hooks /\ hook' # None /\ Call' = c /\ hook'.pc = "install" /\ hook'.i = 0
    BY <1>3, <2>1 DEF PCs, Call
  <2>3. HookInv'
    BY <1>1, <2>1, <2>2
       DEF HookInv, CountInRange, MarkerOfHook, Up, Down, RulesOfHook, Installed,
           SnapshotOfHook, SwitchesOfHook, files
  <2>4. QED
    BY <1>1, <1>2, <2>2, <2>3, QuietKeeps
<1>5. CASE StartDown(l)
  <2>1. PICK pc : /\ pc = IF marker[c].rulesRemoved THEN AfterRules(c) ELSE "teardown"
                  /\ marker[c] # None /\ Begin(pc, l)
    BY <1>5 DEF StartDown
  <2>2. marker[c] \in Markers /\ (marker[c].rulesRemoved => marker[c].teardown)
    BY <1>1, <2>1 DEF TypeOK, MarkersAgree
  <2>3. CASE pc = "end"
    BY <1>1, <1>2, <2>1, <2>3, EndKeeps DEF Begin
  <2>4. CASE pc # "end"
    <3>1. pc \in {"teardown", "unmark", "restore-down"} /\ hook' = from(pc)
      BY <2>1, <2>4 DEF AfterRules, Begin
    <3>2. hook' \in Hooks /\ hook' # None /\ Call' = c /\ hook'.pc = pc /\ hook'.i = 0
      BY <1>3, <3>1 DEF PCs, Call
    <3>3. pc # "teardown" => marker[c].rulesRemoved
      BY <2>1
    <3>4. pc = "teardown" => ~marker[c].rulesRemoved
      BY <2>1 DEF AfterRules
    <3>5. pc = "restore-down" => ~ActiveExcept(c) /\ snapshot # None
      BY <2>1 DEF AfterRules
    <3>6. HookInv'
      BY <1>1, <2>1, <2>2, <3>1, <3>2, <3>3, <3>4, <3>5
         DEF HookInv, CountInRange, MarkerOfHook, Up, Down, RulesOfHook, Installed,
             SnapshotOfHook, ActiveExcept, SwitchesOfHook, files
    <3>7. QED
      BY <1>1, <1>2, <3>2, <3>6, QuietKeeps
  <2>5. QED
    BY <2>3, <2>4
<1>6. QED
  BY <1>4, <1>5

(* A marker of a call that is not active may change without harm to any    *)
(* active lease.                                                           *)
LEMMA OwnMarkerChange ==
    ASSUME IInv, UNCHANGED rigid, UNCHANGED <<sys, rules, snapshot>>,
           Call \in Calls, NEW m, \A d \in Calls : marker'[d] = IF d = Call THEN m ELSE marker[d],
           m # None => /\ m.teardown /\ m.removed <= Operations
                       /\ nft => m.removed = 0
    PROVE  MarkersAgree' /\ BaselineKept' /\ ActiveIsServed'
<1>1. Operations' = Operations
  BY DEF Operations, rigid
<1>2. MarkersAgree' /\ BaselineKept'
  BY <1>1 DEF IInv, MarkersAgree, BaselineKept, rigid
<1>3. ActiveIsServed'
  BY <1>1 DEF IInv, ActiveIsServed, Active, Complete
<1>4. QED
  BY <1>2, <1>3

(* ip-down says in the marker what it is about to do.                      *)
LEMMA TeardownKeeps ==
    ASSUME IInv, Teardown, UNCHANGED rigid
    PROVE  IInv'
<1> USE DEF IInv
<1> DEFINE m == [marker[Call] EXCEPT !.teardown = TRUE]
<1>1. Working("teardown")
  BY AtWorks DEF Teardown
<1>2. /\ marker[Call] \in Markers /\ ~marker[Call].rulesRemoved
      /\ marker[Call].removed \in 0 .. Rules /\ marker[Call].removed <= Operations
  <2>1. marker[Call] \in Markers \cup {None} /\ marker[Call] # None /\ ~marker[Call].rulesRemoved
    BY <1>1 DEF Working, MarkerOfHook, Down, TypeOK
  <2>2. QED
    BY <1>1, <2>1 DEF Working, MarkersAgree, Markers
<1>3. /\ m \in Markers /\ m # None /\ m.teardown /\ m.removed = marker[Call].removed
      /\ m.rulesRemoved = marker[Call].rulesRemoved
  BY <1>2, NoneAssumption DEF Markers
<1>4. /\ marker' = [marker EXCEPT ![Call] = m] /\ fails' = fails
      /\ UNCHANGED <<sys, rules, snapshot>> /\ Operations' = Operations
  BY DEF Teardown, Step, Operations, rigid
<1>5. \A d \in Calls : marker'[d] = IF d = Call THEN m ELSE marker[d]
  BY <1>1, <1>4 DEF TypeOK, Working
<1>6. /\ hook' \in Hooks /\ hook' # None /\ Call' = Call
      /\ hook'.pc = "remove" /\ hook'.i = marker[Call].removed
  BY <1>1, <1>2, HookGoesOn DEF Working, Teardown, Step, PCs
<1>7. TypeOK'
  BY <1>1, <1>3, <1>4, <1>6 DEF TypeOK, Working, rigid
<1>8. nft => marker[Call].removed = 0
  BY <1>1, <1>2, NoneAssumption DEF Working, MarkersAgree
<1>9. MarkersAgree' /\ BaselineKept' /\ ActiveIsServed'
  BY <1>1, <1>2, <1>3, <1>4, <1>5, <1>8, OwnMarkerChange DEF Working
<1>10. HookInv'
  BY <1>1, <1>2, <1>3, <1>4, <1>5, <1>6
     DEF Working, HookInv, CountInRange, MarkerOfHook, Up, Down, RulesOfHook, Installed,
         SnapshotOfHook, SwitchesOfHook
<1>11. QED
  BY <1>7, <1>9, <1>10 DEF HookInv

(* The rules ip-down deletes are those of a call that is not active.       *)
LEMMA RemoveKeeps ==
    ASSUME IInv, Remove, UNCHANGED rigid
    PROVE  IInv'
<1> USE DEF IInv
<1>1. Working("remove")
  BY AtWorks DEF Remove
<1>2. /\ hook.i <= Operations /\ marker[Call] # None /\ marker[Call].teardown
      /\ ~marker[Call].rulesRemoved
  BY <1>1 DEF Working, CountInRange, MarkerOfHook, Down
<1>3. ASSUME NEW pc \in {"removed", "record"}, NEW i \in 0 .. Operations, To(pc, i),
             pc = "record" => 0 < i, UNCHANGED <<sys, files>>
      PROVE  hook' \in Hooks /\ hook' # None /\ HookInv'
  <2>1. /\ hook' \in Hooks /\ hook' # None /\ Call' = Call
        /\ hook'.pc = pc /\ hook'.i = i /\ Operations' = Operations
    BY <1>1, <1>3, HookGoesOn DEF Working, PCs, Operations, rigid
  <2>2. QED
    BY <1>2, <1>3, <2>1
       DEF HookInv, CountInRange, MarkerOfHook, Up, Down, RulesOfHook, Installed,
           SnapshotOfHook, SwitchesOfHook, files
<1>4. CASE hook.i = Operations /\ Goto("removed") /\ UNCHANGED <<sys, rules, files>>
  <2>1. hook' \in Hooks /\ HookInv' /\ fails' = fails
    BY <1>1, <1>3, <1>4 DEF Goto, Step, Working
  <2>2. QED
    BY <1>4, <2>1, QuietKeeps DEF TypeOK
<1>5. CASE /\ hook.i < Operations /\ rules[Call][hook.i + 1] > 0
           /\ rules' = Deleted(Call, hook.i + 1)
           /\ Step("record", hook.i + 1) /\ UNCHANGED <<sys, files>>
  <2>1. hook.i + 1 \in 1 .. Rules /\ hook.i + 1 \in 0 .. Operations /\ 0 < hook.i + 1
    BY <1>1, <1>5 DEF Working
  <2>2. hook' \in Hooks /\ HookInv' /\ fails' = fails
    BY <1>3, <1>5, <2>1 DEF Step
  <2>3. /\ rules' \in [Calls -> [1 .. Rules -> Nat]]
        /\ \A d \in Calls \ {Call} : rules'[d] = rules[d]
    BY <1>1, <1>5, <2>1, DeleteOne DEF Working
  <2>4. MarkersAgree' /\ BaselineKept' /\ ActiveIsServed'
    BY <1>1, <1>2, <1>5, <2>3, OwnRulesChange DEF Working, Active
  <2>5. TypeOK'
    BY <1>5, <2>2, <2>3 DEF TypeOK, rigid, files
  <2>6. QED
    BY <2>2, <2>4, <2>5 DEF HookInv
<1>6. CASE Goto("end") /\ UNCHANGED <<sys, rules, files>>
  BY <1>6, EndKeeps DEF Goto, Step, To, TypeOK
<1>7. CASE Fails("end", 0)
  BY <1>7, FailCounts, EndKeeps DEF To
<1>8. QED
  BY <1>4, <1>5, <1>6, <1>7 DEF Remove

(* recordRemoval writes the progress of the teardown.                      *)
LEMMA RecordKeeps ==
    ASSUME IInv, Record, UNCHANGED rigid
    PROVE  IInv'
<1> USE DEF IInv
<1> DEFINE m == IF nft THEN marker[Call] ELSE [marker[Call] EXCEPT !.removed = hook.i]
<1>1. Working("record")
  BY AtWorks DEF Record
<1>2. /\ marker[Call] \in Markers /\ marker[Call] # None /\ ~marker[Call].rulesRemoved
      /\ marker[Call].teardown
      /\ marker[Call].removed <= Operations /\ (nft => marker[Call].removed = 0)
      /\ hook.i <= Operations /\ 0 < hook.i
  <2>1. marker[Call] \in Markers \cup {None} /\ marker[Call] # None
        /\ ~marker[Call].rulesRemoved /\ marker[Call].teardown
    BY <1>1 DEF Working, MarkerOfHook, Down, TypeOK
  <2>2. QED
    BY <1>1, <2>1 DEF Working, MarkersAgree, CountInRange
<1>3. /\ m \in Markers /\ m.teardown /\ ~m.rulesRemoved
      /\ m.removed <= Operations /\ (nft => m.removed = 0)
  <2>1. CASE nft
    BY <1>2, <2>1
  <2>2. CASE ~nft
    BY <1>1, <1>2, <2>2 DEF Markers, Working
  <2>3. QED
    BY <2>1, <2>2
<1>4. /\ marker' = [marker EXCEPT ![Call] = m] /\ fails' = fails
      /\ UNCHANGED <<sys, rules, snapshot>>
  BY <1>1 DEF Record, Recorded, Step, TypeOK, Working
<1>5. \A d \in Calls : marker'[d] = IF d = Call THEN m ELSE marker[d]
  BY <1>1, <1>4 DEF TypeOK, Working
<1>6. /\ hook' \in Hooks /\ hook' # None /\ Call' = Call
      /\ hook'.pc = "remove" /\ hook'.i = hook.i /\ Operations' = Operations
  BY <1>1, HookGoesOn DEF Working, Record, Step, PCs, Operations, rigid
<1>7. m # None
  BY <1>3, NoneAssumption
<1>8. TypeOK'
  BY <1>1, <1>3, <1>4, <1>6 DEF TypeOK, Working, rigid
<1>9. MarkersAgree' /\ BaselineKept' /\ ActiveIsServed'
  BY <1>1, <1>3, <1>4, <1>5, OwnMarkerChange DEF Working
<1>10. HookInv'
  BY <1>1, <1>2, <1>3, <1>4, <1>5, <1>6, <1>7
     DEF Working, HookInv, CountInRange, MarkerOfHook, Up, Down, RulesOfHook, Installed,
         SnapshotOfHook, SwitchesOfHook
<1>11. QED
  BY <1>8, <1>9, <1>10 DEF HookInv

(* The marker says that the rules are gone; the switches follow if no      *)
(* other lease is active.                                                  *)
LEMMA RulesRemovedKeeps ==
    ASSUME IInv, RulesRemoved, UNCHANGED rigid
    PROVE  IInv'
<1> USE DEF IInv
<1> DEFINE m == [marker[Call] EXCEPT !.rulesRemoved = TRUE]
<1>1. Working("removed")
  BY AtWorks DEF RulesRemoved
<1>2. /\ marker[Call] \in Markers /\ marker[Call].teardown
      /\ marker[Call].removed <= Operations /\ (nft => marker[Call].removed = 0)
  <2>1. marker[Call] \in Markers \cup {None} /\ marker[Call] # None /\ marker[Call].teardown
    BY <1>1 DEF Working, MarkerOfHook, Down, TypeOK
  <2>2. QED
    BY <1>1, <2>1 DEF Working, MarkersAgree
<1>3. /\ m \in Markers /\ m # None /\ m.teardown /\ m.rulesRemoved
      /\ m.removed = marker[Call].removed
  BY <1>2, NoneAssumption DEF Markers
<1>4. /\ marker' = [marker EXCEPT ![Call] = m] /\ fails' = fails
      /\ UNCHANGED <<sys, rules, snapshot>> /\ To(AfterRules(Call), 0)
  BY DEF RulesRemoved, Goto, Step
<1>5. \A d \in Calls : marker'[d] = IF d = Call THEN m ELSE marker[d]
  BY <1>1, <1>4 DEF TypeOK, Working
<1>6. hook' \in Hooks \cup {None} /\ HookInv'
  <2>1. CASE AfterRules(Call) = "end"
    BY <1>4, <2>1 DEF To, HookInv, CountInRange, MarkerOfHook, RulesOfHook, SnapshotOfHook,
       SwitchesOfHook
  <2>2. CASE AfterRules(Call) # "end"
    <3>1. AfterRules(Call) \in {"unmark", "restore-down"}
      BY <2>2 DEF AfterRules
    <3>2. /\ hook' \in Hooks /\ hook' # None /\ Call' = Call /\ hook'.pc = AfterRules(Call)
      BY <1>1, <1>4, <3>1, HookGoesOn DEF Working, PCs
    <3>3. hook'.pc = "restore-down" => ~ActiveExcept(Call)' /\ snapshot # None
      BY <1>5, <3>2 DEF AfterRules, ActiveExcept
    <3>4. QED
      BY <1>1, <1>3, <1>4, <1>5, <3>1, <3>2, <3>3
         DEF Working, HookInv, CountInRange, MarkerOfHook, Up, Down, RulesOfHook, Installed,
             SnapshotOfHook, SwitchesOfHook
  <2>3. QED
    BY <2>1, <2>2
<1>7. TypeOK'
  BY <1>1, <1>3, <1>4, <1>6 DEF TypeOK, Working, rigid
<1>8. MarkersAgree' /\ BaselineKept' /\ ActiveIsServed'
  BY <1>1, <1>2, <1>3, <1>4, <1>5, OwnMarkerChange DEF Working
<1>9. QED
  BY <1>6, <1>7, <1>8 DEF HookInv

(* The marker goes.                                                        *)
LEMMA UnmarkKeeps ==
    ASSUME IInv, Unmark, UNCHANGED rigid
    PROVE  IInv'
<1> USE DEF IInv
<1>1. Working("unmark")
  BY AtWorks DEF Unmark
<1>2. /\ marker' = [marker EXCEPT ![Call] = None] /\ fails' = fails /\ hook' = None
      /\ UNCHANGED <<sys, rules, snapshot>>
  BY DEF Unmark, Goto, Step, To
<1>3. \A d \in Calls : marker'[d] = IF d = Call THEN None ELSE marker[d]
  BY <1>1, <1>2 DEF TypeOK, Working
<1>4. TypeOK'
  BY <1>1, <1>2 DEF TypeOK, Working, rigid
<1>5. MarkersAgree' /\ BaselineKept' /\ ActiveIsServed'
  BY <1>1, <1>2, <1>3, OwnMarkerChange DEF Working
<1>6. HookInv'
  BY <1>2 DEF HookInv, CountInRange, MarkerOfHook, RulesOfHook, SnapshotOfHook, SwitchesOfHook
<1>7. QED
  BY <1>4, <1>5, <1>6 DEF HookInv

(* No hook is at work at first, and nothing has been touched.              *)
LEMMA InitIInv == Init => IInv
<1> SUFFICES ASSUME Init PROVE IInv
  OBVIOUS
<1>1. TypeOK
  <2>1. faults.failures \in Nat
    BY FaultsAssumption DEF Init
  <2>2. QED
    BY <2>1 DEF Init, TypeOK
<1>2. MarkersAgree /\ BaselineKept /\ ActiveIsServed
  BY DEF Init, MarkersAgree, BaselineKept, ActiveIsServed, Active
<1>3. CountInRange /\ MarkerOfHook /\ RulesOfHook /\ SnapshotOfHook /\ SwitchesOfHook
  BY DEF Init, CountInRange, MarkerOfHook, RulesOfHook, SnapshotOfHook, SwitchesOfHook
<1>4. QED
  BY <1>1, <1>2, <1>3 DEF IInv

(* Every step of every hook keeps the invariant.                           *)
LEMMA NextIInv == IInv /\ [Next]_vars => IInv'
<1> SUFFICES ASSUME IInv, [Next]_vars PROVE IInv'
  OBVIOUS
<1>1. ASSUME UNCHANGED vars PROVE IInv'
  <2>1. UNCHANGED <<rigid, sys, rules, files>> /\ hook' = hook /\ fails' = fails
    BY <1>1 DEF vars
  <2>2. HookInv'
    BY <2>1 DEF IInv, HookInv, CountInRange, MarkerOfHook, RulesOfHook, SnapshotOfHook,
       HasActive, ActiveExcept, SwitchesOfHook, Active, Complete, Call, Operations, rigid, files
  <2>3. QED
    BY <2>1, <2>2, QuietKeeps DEF IInv, TypeOK
<1>2. ASSUME Run, UNCHANGED rigid PROVE IInv'
  <2>1. CASE Install
    BY <1>2, <2>1, InstallKeeps
  <2>2. CASE Undo
    BY <1>2, <2>2, UndoKeeps
  <2>3. CASE Retain
    BY <1>2, <2>3, RetainKeeps
  <2>4. CASE Forward
    BY <1>2, <2>4, ForwardKeeps
  <2>5. CASE Unforward
    BY <1>2, <2>5, UnforwardKeeps
  <2>6. CASE Mark
    BY <1>2, <2>6, MarkKeeps
  <2>7. CASE Clean
    BY <1>2, <2>7, CleanKeeps
  <2>8. CASE RestoreOld
    BY <1>2, <2>8, RestoreKeeps DEF RestoreOld
  <2>9. CASE RestoreUp
    BY <1>2, <2>9, RestoreKeeps DEF RestoreUp
  <2>10. CASE RestoreDown
    BY <1>2, <2>10, RestoreKeeps DEF RestoreDown
  <2>11. CASE Teardown
    BY <1>2, <2>11, TeardownKeeps
  <2>12. CASE Remove
    BY <1>2, <2>12, RemoveKeeps
  <2>13. CASE Record
    BY <1>2, <2>13, RecordKeeps
  <2>14. CASE RulesRemoved
    BY <1>2, <2>14, RulesRemovedKeeps
  <2>15. CASE Unmark
    BY <1>2, <2>15, UnmarkKeeps
  <2>16. QED
    BY <1>2, <2>1, <2>2, <2>3, <2>4, <2>5, <2>6, <2>7, <2>8, <2>9, <2>10, <2>11, <2>12,
       <2>13, <2>14, <2>15 DEF Run
<1>3. ASSUME Dies, UNCHANGED rigid PROVE IInv'
  BY <1>3, EndKeeps DEF Dies, Goto, Step, To, IInv, TypeOK
<1>4. ASSUME NEW l \in Links, Ignored(l), UNCHANGED rigid PROVE IInv'
  BY <1>1, <1>4 DEF Ignored, vars
<1>5. ASSUME NEW l \in Links, StartUp(l) \/ StartDown(l), UNCHANGED rigid PROVE IInv'
  BY <1>5, StartKeeps
<1>6. QED
  BY <1>1, <1>2, <1>3, <1>4, <1>5 DEF Next

(* The invariant holds whatever fails and whenever hooks are killed.       *)
THEOREM Invariance == Spec => []IInv
BY InitIInv, NextIInv, PTL DEF Spec

(* All variables have their types.                                         *)
THEOREM TypeCorrect == Spec => []TypeOK
BY Invariance, PTL DEF IInv

(* Whatever commands fail and whenever hooks are killed, a snapshot holds  *)
(* the original switches, and there is one while any differs: the hooks    *)
(* never record a baseline over that evidence.                             *)
THEOREM BaselineIsKept == Spec => []BaselineKept
BY Invariance, PTL DEF IInv

(* Every active lease has all its rules and is forwarded; no teardown or   *)
(* failed activation of another call takes that away.                      *)
THEOREM ActiveAreServed == Spec => []ActiveIsServed
BY Invariance, PTL DEF IInv

(* A hook switches forwarding on only behind the complete rules of its     *)
(* call, or to what it was before the first call.                          *)
LEMMA StepFilters ==
    ASSUME IInv, [Next]_vars, sys'[Global], ~sys[Global]
    PROVE  base[Global] \/ Complete(Call)
<1> USE DEF IInv
<1>1. sys' # sys
  OBVIOUS
<1>2. CASE Forward
  BY <1>2, AtWorks DEF Forward, Working, RulesOfHook, Installed
<1>3. CASE Unforward
  BY <1>3, AtWorks DEF Unforward, Working, RulesOfHook, Installed
<1>4. ASSUME NEW here \in {"restore-old", "restore-up", "restore-down"}, NEW next, NEW failed,
             Restore(here, next, failed)
      PROVE  base[Global]
  <2>1. snapshot = base
    BY <1>4, AtWorks DEF Restore, Working, SnapshotOfHook, BaselineKept
  <2>2. PICK k \in Keys : sys' = Written(k, base[k])
    BY <1>1, <1>4, <2>1 DEF Restore, Fails, GlobalFirst
  <2>3. base[k] \in BOOLEAN /\ Global \in Keys
    BY DEF TypeOK, Keys
  <2>4. CASE k = Global
    BY <2>2, <2>3, <2>4, WriteOne
  <2>5. CASE k # Global
    BY <2>2, <2>3, <2>5, WriteOne
  <2>6. QED
    BY <2>4, <2>5
<1>5. Forward \/ Unforward \/ RestoreOld \/ RestoreUp \/ RestoreDown
  BY <1>1 DEF Next, vars, Run, Dies, StartUp, StartDown, Ignored, Install, Undo, Retain, Mark,
     Clean, Teardown, Remove, Record, RulesRemoved, Unmark, Fails
<1>6. QED
  BY <1>2, <1>3, <1>4, <1>5 DEF RestoreOld, RestoreUp, RestoreDown

(* Forwarding is switched on by ip-up only behind the lease's own complete *)
(* policy, or when restoring it, also when commands fail or hooks are      *)
(* killed.                                                                 *)
THEOREM ForwardsOnlyFiltered == Spec => FilteredBeforeForwarding
<1>1. IInv /\ [Next]_vars =>
         [sys'[Global] /\ ~sys[Global] => base[Global] \/ Complete(Call)]_vars
  BY StepFilters
<1>2. QED
  BY <1>1, Invariance, PTL DEF Spec, FilteredBeforeForwarding
----------------------------------------------------------------------------
(* A command fails at most once.                                           *)
LEMMA FailsFirst ==
    ASSUME TypeOK, OneFailure, NEW pc, NEW i, Fails(pc, i)
    PROVE  fails = 0 /\ fails' = 1
BY FaultsAssumption DEF TypeOK, OneFailure, Fails

(* A hook answers for the rules of its own call only.                      *)
LEMMA HookAccounts ==
    ASSUME RulesExact, hook # None, NEW c \in Calls, c = Call, Operations' = Operations,
           hook' # None => Call' = c,
           \A d \in Calls \ {c} : rules'[d] = rules[d] /\ marker'[d] = marker[d],
           \A n \in 1 .. Rules :
               rules'[c][n] = IF n > Operations THEN 0
                              ELSE IF hook' # None THEN OwedByHook(n)' ELSE Owed(c, n)'
    PROVE  RulesExact'
<1>1. ASSUME NEW d \in Calls \ {c}, NEW n \in 1 .. Rules
      PROVE  rules'[d][n] = IF n > Operations THEN 0 ELSE Owed(d, n)'
  BY DEF RulesExact, Owed
<1>2. QED
  BY <1>1 DEF RulesExact

(* What the hook has left, as RulesExact says it.                          *)
LEMMA OwnRules ==
    ASSUME RulesExact, hook # None, Call \in Calls
    PROVE  \A n \in 1 .. Rules :
               rules[Call][n] = IF n > Operations THEN 0 ELSE OwedByHook(n)
BY DEF RulesExact

(* An iptables -A that fails leaves nothing but the hook on its way back.  *)
LEMMA InstallExact ==
    ASSUME IInv, OneFailure, Exact, Install, UNCHANGED rigid
    PROVE  Exact'
<1> USE DEF IInv
<1>1. Working("install")
  BY AtWorks DEF Install
<1>2. /\ hook.i < Operations /\ marker[Call] = None
      /\ \A n \in 1 .. Rules : rules[Call][n] = IF n <= hook.i THEN 1 ELSE 0
  BY <1>1, OwnRules DEF Working, CountInRange, MarkerOfHook, Up, Exact, OwedByHook, Installed
<1>3. Operations' = Operations /\ UNCHANGED files /\ (HasActive \/ snapshot = None)
  BY <1>1 DEF Install, Fails, Operations, rigid, files, Exact, SnapshotExact, Working
<1>4. CASE rules' = Added(Call, hook.i + 1)
           /\ IF LastOperation THEN Goto("retain") ELSE Step("install", hook.i + 1)
  <2>1. /\ hook' # None /\ hook'.pc \in {"install", "retain"} /\ Call' = Call
        /\ hook'.pc = "install" => hook'.i = hook.i + 1
        /\ hook'.pc = "retain" => hook.i + 1 = Operations
    BY <1>1, <1>2, <1>4, HookGoesOn DEF Working, LastOperation, Goto, Step, PCs
  <2>2. /\ \A d \in Calls \ {Call} : rules'[d] = rules[d]
        /\ \A n \in 1 .. Rules : rules'[Call][n] = IF n <= hook.i + 1 THEN 1 ELSE 0
    BY <1>1, <1>2, <1>4 DEF Working, Added, TypeOK
  <2>3. RulesExact'
    BY <1>1, <1>2, <1>3, <2>1, <2>2, HookAccounts
       DEF Working, OwedByHook, Installed, Exact, files
  <2>4. FailedOnce' /\ SnapshotExact'
    BY <1>3, <2>1 DEF FailedOnce, SnapshotExact, HasActive, files
  <2>5. QED
    BY <2>3, <2>4 DEF Exact
<1>5. CASE Fails("undo", hook.i)
  <2>1. /\ hook' # None /\ hook'.pc = "undo" /\ hook'.i = hook.i /\ Call' = Call
        /\ UNCHANGED <<rules, files>> /\ fails' = 1
    BY <1>1, <1>5, HookGoesOn, FailCounts, FailsFirst DEF Working, PCs
  <2>2. RulesExact'
    BY <1>1, <1>2, <1>3, <2>1, HookAccounts DEF Working, OwedByHook, Installed, Exact, files
  <2>3. FailedOnce' /\ SnapshotExact'
    BY <1>3, <2>1 DEF FailedOnce, SnapshotExact, HasActive, files
  <2>4. QED
    BY <2>2, <2>3 DEF Exact
<1>6. QED
  BY <1>4, <1>5 DEF Install

(* Undoing takes the rules away that were installed, in reverse order.     *)
LEMMA UndoExact ==
    ASSUME IInv, OneFailure, Exact, Undo, UNCHANGED rigid
    PROVE  Exact'
<1> USE DEF IInv
<1>1. Working("undo")
  BY AtWorks DEF Undo
<1>2. /\ hook.i < Operations /\ marker[Call] = None /\ fails > 0
      /\ \A n \in 1 .. Rules : rules[Call][n] = IF n <= hook.i THEN 1 ELSE 0
  BY <1>1, OwnRules
     DEF Working, CountInRange, MarkerOfHook, Up, Exact, OwedByHook, Installed, FailedOnce
<1>3. Operations' = Operations /\ UNCHANGED files /\ (HasActive \/ snapshot = None)
  BY <1>1 DEF Undo, Fails, Operations, rigid, files, Exact, SnapshotExact, Working
<1>4. CASE hook.i = 0 /\ Goto("end") /\ UNCHANGED rules
  <2>1. hook' = None
    BY <1>4 DEF Goto, Step, To
  <2>2. RulesExact'
    BY <1>1, <1>2, <1>3, <1>4, <2>1, HookAccounts DEF Working, Owed, Exact, files
  <2>3. QED
    BY <1>3, <2>1, <2>2 DEF Exact, FailedOnce, SnapshotExact, HasActive, files
<1>5. CASE hook.i > 0 /\ rules' = Deleted(Call, hook.i) /\ Step("undo", hook.i - 1)
  <2>1. /\ hook' # None /\ hook'.pc = "undo" /\ hook'.i = hook.i - 1
        /\ Call' = Call /\ fails' = fails
    BY <1>1, <1>2, <1>5, HookGoesOn DEF Working, Step, PCs
  <2>2. /\ \A d \in Calls \ {Call} : rules'[d] = rules[d]
        /\ \A n \in 1 .. Rules : rules'[Call][n] = IF n <= hook.i - 1 THEN 1 ELSE 0
    <3>1. hook.i \in 1 .. Rules /\ rules[Call][hook.i] = 1
      BY <1>1, <1>2, <1>5 DEF Working
    <3>2. /\ \A d \in Calls \ {Call} : rules'[d] = rules[d]
          /\ \A m \in 1 .. Rules \ {hook.i} : rules'[Call][m] = rules[Call][m]
          /\ rules'[Call][hook.i] = 0
      BY <1>1, <1>5, <3>1, DeleteOne DEF Working
    <3>3. QED
      BY <1>1, <1>2, <3>1, <3>2 DEF Working
  <2>3. RulesExact'
    BY <1>1, <1>2, <1>3, <2>1, <2>2, HookAccounts
       DEF Working, OwedByHook, Installed, Exact, files
  <2>4. FailedOnce' /\ SnapshotExact'
    BY <1>2, <1>3, <2>1 DEF FailedOnce, SnapshotExact, HasActive, files
  <2>5. QED
    BY <2>3, <2>4 DEF Exact
<1>6. ~Fails("undo", hook.i - 1)
  BY <1>2, FailsFirst
<1>7. QED
  BY <1>4, <1>5, <1>6 DEF Undo

(* A hook that goes on with the rules as they are.                         *)
LEMMA QuietExact ==
    ASSUME IInv, Exact, hook # None, Call \in Calls, UNCHANGED <<rules, marker, rigid>>,
           hook' # None, Call' = Call, \A n \in 1 .. Operations : OwedByHook(n)' = OwedByHook(n)
    PROVE  RulesExact'
<1>1. Operations' = Operations
  BY DEF Operations, rigid
<1>2. Operations \in Nat
  BY RulesAssumption DEF Operations
<1>3. \A n \in 1 .. Rules : rules[Call][n] = IF n > Operations THEN 0 ELSE OwedByHook(n)
  BY OwnRules DEF Exact
<1>4. QED
  BY <1>1, <1>2, <1>3, HookAccounts DEF Exact

(* A hook that ends leaves what the marker says.                           *)
LEMMA EndExact ==
    ASSUME IInv, Exact, hook # None, NEW c \in Calls, c = Call, UNCHANGED <<rules, rigid>>,
           hook' = None, \A n \in 1 .. Operations : Owed(c, n)' = OwedByHook(n),
           \A d \in Calls \ {c} : marker'[d] = marker[d],
           HasActive' \/ snapshot' = None
    PROVE  Exact'
<1>1. Operations' = Operations
  BY DEF Operations, rigid
<1>2. Operations \in Nat
  BY RulesAssumption DEF Operations
<1>3. \A n \in 1 .. Rules : rules[c][n] = IF n > Operations THEN 0 ELSE OwedByHook(n)
  BY OwnRules DEF Exact
<1>4. RulesExact'
  BY <1>1, <1>2, <1>3, HookAccounts DEF Exact
<1>5. QED
  BY <1>4 DEF Exact, FailedOnce, SnapshotExact

(* The snapshot is taken with the rules in place.                          *)
LEMMA RetainExact ==
    ASSUME IInv, OneFailure, Exact, Retain, UNCHANGED rigid
    PROVE  Exact'
<1> USE DEF IInv
<1>1. Working("retain")
  BY AtWorks DEF Retain
<1>2. HasActive \/ snapshot = None
  BY <1>1 DEF Working, Exact, SnapshotExact
<1>3. CASE /\ hook' = [hook EXCEPT !.pc = "forward", !.i = 0, !.prev = sys]
           /\ UNCHANGED <<rules, marker>>
  <2>1. /\ hook' # None /\ hook'.pc = "forward" /\ Call' = Call
    <3>1. hook' \in Hooks /\ hook'.pc = "forward" /\ hook'.link = hook.link
      <4>1. sys \in [Keys -> BOOLEAN] /\ hook \in Hooks /\ "forward" \in PCs /\ 0 \in 0 .. Rules
        BY <1>1 DEF Working, PCs, TypeOK
      <4>2. QED
        BY <1>3, <4>1 DEF Hooks
    <3>2. QED
      BY <3>1, NoneAssumption DEF Call
  <2>2. RulesExact'
    BY <1>1, <1>3, <2>1, QuietExact DEF Working, OwedByHook, Installed
  <2>3. QED
    BY <2>1, <2>2 DEF Exact, FailedOnce, SnapshotExact
<1>4. CASE Fails("clean", 0)
  <2>1. /\ hook' # None /\ hook'.pc = "clean" /\ hook'.i = 0 /\ Call' = Call
        /\ UNCHANGED <<rules, files>> /\ fails' = 1
    BY <1>1, <1>4, HookGoesOn, FailCounts, FailsFirst DEF Working, PCs
  <2>2. RulesExact'
    BY <1>1, <2>1, QuietExact DEF Working, OwedByHook, Installed, files
  <2>3. QED
    BY <2>1, <2>2 DEF Exact, FailedOnce, SnapshotExact
<1>5. QED
  BY <1>2, <1>3, <1>4 DEF Retain

(* Forwarding is switched on with rules and snapshot in place.             *)
LEMMA ForwardExact ==
    ASSUME IInv, OneFailure, Exact, Forward, UNCHANGED rigid
    PROVE  Exact'
<1> USE DEF IInv
<1>1. Working("forward")
  BY AtWorks DEF Forward
<1>2. hook.i \in 0 .. 1
  BY <1>1 DEF Working, CountInRange
<1>3. CASE /\ IF hook.i = 0 THEN Step("forward", 1) ELSE Goto("mark")
           /\ UNCHANGED <<rules, files>>
  <2>1. /\ hook' # None /\ hook'.pc \in {"forward", "mark"} /\ Call' = Call
    BY <1>1, <1>2, <1>3, HookGoesOn DEF Working, Goto, Step, PCs
  <2>2. RulesExact'
    BY <1>1, <1>3, <2>1, QuietExact DEF Working, OwedByHook, Installed, files
  <2>3. QED
    BY <2>1, <2>2 DEF Exact, FailedOnce, SnapshotExact
<1>4. ASSUME NEW pc \in {"clean", "unforward"}, Fails(pc, 0) PROVE Exact'
  <2>1. /\ hook' # None /\ hook'.pc = pc /\ hook'.i = 0 /\ Call' = Call
        /\ UNCHANGED <<rules, files>> /\ fails' = 1
    BY <1>1, <1>4, HookGoesOn, FailCounts, FailsFirst DEF Working, PCs
  <2>2. RulesExact'
    BY <1>1, <2>1, QuietExact DEF Working, OwedByHook, Installed, files
  <2>3. QED
    BY <2>1, <2>2 DEF Exact, FailedOnce, SnapshotExact
<1>5. QED
  BY <1>3, <1>4 DEF Forward

(* A failed activation puts back the switches it had set.                  *)
LEMMA UnforwardExact ==
    ASSUME IInv, OneFailure, Exact, Unforward, UNCHANGED rigid
    PROVE  Exact'
<1> USE DEF IInv
<1> DEFINE next == IF hook.i = 0 THEN "unforward" ELSE "clean"
<1>1. Working("unforward")
  BY AtWorks DEF Unforward
<1>2. hook.i \in 0 .. 1 /\ fails > 0
  BY <1>1 DEF Working, CountInRange, Exact, FailedOnce
<1>3. \A pc, i : ~Fails(pc, i)
  BY <1>2, FailsFirst
<1>4. /\ Step(next, 1 - hook.i)
      /\ UNCHANGED <<rules, files>>
  BY <1>3 DEF Unforward
<1>5. /\ hook' # None /\ Call' = Call /\ fails' = fails
      /\ hook'.pc \in {"unforward", "clean"}
      /\ hook'.pc = "clean" => hook'.i = 0
  <2>1. 1 - hook.i \in 0 .. Rules
    BY <1>2, RulesAssumption
  <2>2. next \in PCs /\ hook # None /\ To(next, 1 - hook.i) /\ fails' = fails
    BY <1>1, <1>4 DEF Working, Step, PCs
  <2>3. /\ hook' # None /\ Call' = Call /\ hook'.pc = next /\ hook'.i = 1 - hook.i
    BY <2>1, <2>2, HookGoesOn
  <2>4. QED
    BY <1>2, <2>2, <2>3
<1>6. RulesExact'
  BY <1>1, <1>4, <1>5, QuietExact DEF Working, OwedByHook, Installed, files
<1>7. QED
  BY <1>2, <1>5, <1>6 DEF Exact, FailedOnce, SnapshotExact

(* The marker takes over what the hook answered for.                       *)
LEMMA MarkExact ==
    ASSUME IInv, OneFailure, Exact, Mark, UNCHANGED rigid
    PROVE  Exact'
<1> USE DEF IInv
<1> DEFINE m == [link |-> hook.link, teardown |-> FALSE, removed |-> 0, rulesRemoved |-> FALSE]
<1>1. Working("mark")
  BY AtWorks DEF Mark
<1>2. /\ marker' = [marker EXCEPT ![Call] = m] /\ hook' = None /\ UNCHANGED rules
  BY DEF Mark, Goto, Step, To
<1>3. m \in Markers /\ m # None
  <2>1. m \in Markers
    BY <1>1 DEF Working, Markers, Hooks
  <2>2. QED
    BY <2>1, NoneAssumption
<1>4. PICK c \in Calls : c = Call
  BY <1>1 DEF Working
<1>5. \A d \in Calls : marker'[d] = IF d = c THEN m ELSE marker[d]
  BY <1>2, <1>4 DEF TypeOK
<1>6. \A n \in 1 .. Operations : Owed(c, n)' = OwedByHook(n)
  BY <1>1, <1>3, <1>5 DEF Working, Owed, OwedByHook, Installed
<1>7. HasActive'
  BY <1>3, <1>5 DEF HasActive
<1>8. QED
  BY <1>1, <1>2, <1>4, <1>5, <1>6, <1>7, EndExact DEF Working

(* Taking the rules away again leaves none, as nothing fails any more.     *)
LEMMA CleanExact ==
    ASSUME IInv, OneFailure, Exact, Clean, UNCHANGED rigid
    PROVE  Exact'
<1> USE DEF IInv
<1>1. Working("clean")
  BY AtWorks DEF Clean
<1>2. /\ hook.i < Operations /\ marker[Call] = None /\ fails > 0
      /\ \A n \in 1 .. Rules :
            rules[Call][n] = IF hook.i < n /\ n <= Operations THEN 1 ELSE 0
  BY <1>1, OwnRules
     DEF Working, CountInRange, MarkerOfHook, Up, Exact, OwedByHook, Installed, FailedOnce
<1>3. ~Fails("end", 0)
  BY <1>2, FailsFirst
<1>4. /\ rules' = Deleted(Call, hook.i + 1)
      /\ IF LastOperation THEN Goto(AfterClean) ELSE Step("clean", hook.i + 1)
      /\ UNCHANGED files /\ Operations' = Operations /\ fails' = fails
  BY <1>3 DEF Clean, Goto, Step, Operations, rigid
<1>5. /\ \A d \in Calls \ {Call} : rules'[d] = rules[d]
      /\ \A n \in 1 .. Rules :
            rules'[Call][n] = IF hook.i + 1 < n /\ n <= Operations THEN 1 ELSE 0
  <2>1. hook.i + 1 \in 1 .. Rules /\ rules[Call][hook.i + 1] = 1
    BY <1>1, <1>2 DEF Working
  <2>2. /\ \A d \in Calls \ {Call} : rules'[d] = rules[d]
        /\ \A m \in 1 .. Rules \ {hook.i + 1} : rules'[Call][m] = rules[Call][m]
        /\ rules'[Call][hook.i + 1] = 0
    BY <1>1, <1>4, <2>1, DeleteOne DEF Working
  <2>3. QED
    BY <1>1, <1>2, <2>1, <2>2 DEF Working
<1>6. CASE ~LastOperation
  <2>1. /\ hook' # None /\ Call' = Call /\ hook'.pc = "clean" /\ hook'.i = hook.i + 1
    BY <1>1, <1>2, <1>4, <1>6, HookGoesOn DEF Working, Step, PCs
  <2>2. RulesExact'
    BY <1>1, <1>2, <1>4, <1>5, <2>1, HookAccounts
       DEF Working, OwedByHook, Installed, Exact, files
  <2>3. QED
    BY <1>2, <1>4, <2>1, <2>2 DEF Exact, FailedOnce, SnapshotExact
<1>7. CASE LastOperation /\ AfterClean = "end"
  <2>1. hook' = None
    BY <1>4, <1>7 DEF Goto, Step, To
  <2>2. RulesExact'
    BY <1>1, <1>2, <1>4, <1>5, <1>7, <2>1, HookAccounts
       DEF Working, Owed, LastOperation, Exact, files
  <2>3. HasActive \/ snapshot = None
    BY <1>7 DEF AfterClean
  <2>4. QED
    BY <1>4, <2>1, <2>2, <2>3 DEF Exact, FailedOnce, SnapshotExact, HasActive, files
<1>8. CASE LastOperation /\ AfterClean = "restore-up"
  <2>1. /\ hook' # None /\ Call' = Call /\ hook'.pc = "restore-up"
    BY <1>1, <1>4, <1>8, HookGoesOn DEF Working, Goto, Step, PCs
  <2>2. RulesExact'
    BY <1>1, <1>2, <1>4, <1>5, <1>8, <2>1, HookAccounts
       DEF Working, OwedByHook, Installed, LastOperation, Exact, files
  <2>3. QED
    BY <1>2, <1>4, <2>1, <2>2 DEF Exact, FailedOnce, SnapshotExact
<1>9. QED
  BY <1>6, <1>7, <1>8 DEF AfterClean

(* The last to go restores the switches and drops the snapshot.            *)
LEMMA RestoreExact ==
    ASSUME IInv, OneFailure, Exact, UNCHANGED rigid,
           NEW here \in {"restore-old", "restore-up", "restore-down"},
           NEW next \in {"retain", "end", "unmark"}, NEW failed \in {"clean", "end"},
           here = "restore-up" => next = "end",
           here = "restore-down" => next = "unmark" /\ failed = "end",
           Restore(here, next, failed)
    PROVE  Exact'
<1> USE DEF IInv
<1>1. Working(here)
  BY AtWorks DEF Restore
<1>2. here # "restore-old"
  BY <1>1 DEF Working, Exact, SnapshotExact
<1>3. /\ here = "restore-up" => marker[Call] = None /\ fails > 0
      /\ here = "restore-down" => marker[Call] # None /\ marker[Call].rulesRemoved
  BY <1>1 DEF Working, MarkerOfHook, Up, Down, Exact, FailedOnce
<1>4. PICK c \in Calls : c = Call
  BY <1>1 DEF Working
<1>5. \A n \in 1 .. Operations : Owed(c, n) = 0 /\ OwedByHook(n) = 0
  BY <1>1, <1>2, <1>3, <1>4 DEF Working, Owed, OwedByHook, Installed
<1>6. CASE snapshot' = None /\ Goto(next) /\ UNCHANGED <<sys, rules, marker>>
  <2>1. CASE here = "restore-up"
    <3>1. hook' = None
      BY <1>6, <2>1 DEF Goto, Step, To
    <3>2. \A n \in 1 .. Operations : Owed(c, n)' = 0
      BY <1>5, <1>6 DEF Owed
    <3>3. QED
      BY <1>1, <1>4, <1>5, <1>6, <3>1, <3>2, EndExact DEF Working
  <2>2. CASE here = "restore-down"
    <3>1. hook' # None /\ Call' = Call /\ hook'.pc = "unmark"
      BY <1>1, <1>6, <2>2, HookGoesOn DEF Working, Goto, Step, PCs
    <3>2. RulesExact'
      BY <1>1, <1>5, <1>6, <3>1, QuietExact DEF Working, OwedByHook, Installed
    <3>3. QED
      BY <1>6, <3>1, <3>2 DEF Exact, FailedOnce, SnapshotExact
  <2>3. QED
    BY <1>2, <2>1, <2>2
<1>7. CASE UNCHANGED <<rules, files, hook, fails>>
  <2>1. RulesExact'
    BY <1>1, <1>7, QuietExact DEF Working, OwedByHook, files, Call
  <2>2. QED
    BY <1>1, <1>2, <1>7, <2>1
       DEF Working, Exact, FailedOnce, SnapshotExact, files
<1>8. CASE Fails(failed, 0)
  <2>1. here = "restore-down"
    BY <1>2, <1>3, <1>8, FailsFirst
  <2>2. hook' = None /\ UNCHANGED <<rules, files>>
    BY <1>8, <2>1, FailCounts DEF To
  <2>3. HasActive'
    BY <1>3, <1>4, <2>1, <2>2 DEF HasActive, files
  <2>4. \A n \in 1 .. Operations : Owed(c, n)' = 0
    BY <1>5, <2>2 DEF Owed, files
  <2>5. QED
    BY <1>1, <1>4, <1>5, <2>2, <2>3, <2>4, EndExact DEF Working, files
<1>9. QED
  BY <1>6, <1>7, <1>8 DEF Restore

(* A hook begins with what the markers say.                                *)
LEMMA StartExact ==
    ASSUME IInv, OneFailure, Exact, UNCHANGED rigid, NEW l \in Links,
           StartUp(l) \/ StartDown(l)
    PROVE  Exact'
<1> USE DEF IInv
<1>1. /\ hook = None /\ CallOf[l] \in Calls /\ Rules \in Nat \ {0}
      /\ Operations \in Nat /\ Operations' = Operations
      /\ UNCHANGED <<sys, rules, files>> /\ HasActive' = HasActive
  BY LinksAssumption, RulesAssumption
     DEF StartUp, StartDown, Idle, Operations, HasActive, rigid, files
<1>2. HasActive \/ snapshot = None
  BY <1>1 DEF Exact, SnapshotExact
<1>3. ASSUME hook' # None, Call' = CallOf[l],
             \A n \in 1 .. Operations : OwedByHook(n)' = Owed(CallOf[l], n)
      PROVE  RulesExact'
  BY <1>1, <1>3 DEF Exact, RulesExact, Owed, files
<1>4. CASE hook' = None
  BY <1>1, <1>2, <1>4 DEF Exact, RulesExact, Owed, FailedOnce, SnapshotExact, files
<1>5. ASSUME NEW pc \in PCs, hook' = [pc |-> pc, link |-> l, i |-> 0, prev |-> sys]
      PROVE  hook' # None /\ hook'.pc = pc /\ hook'.i = 0 /\ Call' = CallOf[l]
  <2>1. hook' \in Hooks /\ hook'.pc = pc /\ hook'.i = 0 /\ Call' = CallOf[l]
    BY <1>1, <1>5 DEF Hooks, TypeOK, Call
  <2>2. QED
    BY <2>1, NoneAssumption
<1>6. CASE StartUp(l)
  <2>1. hook' # None /\ hook'.pc = "install" /\ hook'.i = 0 /\ Call' = CallOf[l]
    BY <1>5, <1>6 DEF StartUp, Begin, PCs
  <2>2. \A n \in 1 .. Operations : OwedByHook(n)' = Owed(CallOf[l], n)
    BY <1>6, <2>1 DEF StartUp, OwedByHook, Owed, Installed
  <2>3. QED
    BY <1>1, <1>2, <1>3, <2>1, <2>2 DEF Exact, FailedOnce, SnapshotExact, files
<1>7. CASE StartDown(l) /\ hook' # None
  <2>1. PICK pc : /\ pc = IF marker[CallOf[l]].rulesRemoved THEN AfterRules(CallOf[l]) ELSE "teardown"
                  /\ marker[CallOf[l]] # None /\ pc # "end" /\ Begin(pc, l)
    BY <1>7 DEF StartDown, Begin
  <2>2. pc \in {"teardown", "unmark", "restore-down"} /\ pc \in PCs
    BY <2>1 DEF AfterRules, PCs
  <2>3. hook' # None /\ hook'.pc = pc /\ hook'.i = 0 /\ Call' = CallOf[l]
    BY <1>5, <2>1, <2>2 DEF Begin
  <2>4. \A n \in 1 .. Operations : OwedByHook(n)' = Owed(CallOf[l], n)
    <3>1. CASE marker[CallOf[l]].rulesRemoved
      <4>1. pc # "teardown"
        BY <2>1, <3>1 DEF AfterRules
      <4>2. QED
        BY <2>2, <2>3, <3>1, <4>1 DEF OwedByHook, Owed, Installed
    <3>2. CASE ~marker[CallOf[l]].rulesRemoved
      <4>1. marker[CallOf[l]] \in Markers \cup {None} /\ marker[CallOf[l]].removed \in Nat
        BY <1>1, <2>1 DEF TypeOK, Markers
      <4>2. QED
        BY <1>1, <2>1, <2>3, <3>2, <4>1 DEF OwedByHook, Owed, Installed, files
    <3>3. QED
      BY <3>1, <3>2
  <2>5. pc = "unmark" => ActiveExcept(CallOf[l])
    BY <2>1 DEF AfterRules
  <2>6. pc = "unmark" => ActiveExcept(Call)'
    BY <1>1, <2>3, <2>5 DEF ActiveExcept, files
  <2>7. QED
    BY <1>3, <2>2, <2>3, <2>4, <2>6 DEF Exact, FailedOnce, SnapshotExact
<1>8. QED
  BY <1>4, <1>6, <1>7

(* The intent to tear down is recorded before any rule goes.               *)
LEMMA TeardownExact ==
    ASSUME IInv, OneFailure, Exact, Teardown, UNCHANGED rigid
    PROVE  Exact'
<1> USE DEF IInv
<1> DEFINE m == [marker[Call] EXCEPT !.teardown = TRUE]
<1>1. Working("teardown")
  BY AtWorks DEF Teardown
<1>2. marker[Call] \in Markers /\ marker[Call].removed \in 0 .. Rules
  <2>1. marker[Call] \in Markers \cup {None} /\ marker[Call] # None
    BY <1>1 DEF Working, MarkerOfHook, Down, TypeOK
  <2>2. QED
    BY <2>1 DEF Markers
<1>3. m.removed = marker[Call].removed
  BY <1>2 DEF Markers
<1>4. marker' = [marker EXCEPT ![Call] = m] /\ rules' = rules /\ Operations' = Operations
  BY DEF Teardown, Operations, rigid
<1>5. \A d \in Calls : marker'[d] = IF d = Call THEN m ELSE marker[d]
  BY <1>1, <1>4 DEF TypeOK, Working
<1>6. /\ hook' # None /\ Call' = Call
      /\ hook'.pc = "remove" /\ hook'.i = marker[Call].removed
  BY <1>1, <1>2, HookGoesOn DEF Working, Teardown, Step, PCs
<1>7. \A n \in 1 .. Rules : rules[Call][n] =
          IF n <= Operations /\ n > marker[Call].removed THEN 1 ELSE 0
  BY <1>1, OwnRules DEF Working, Exact, OwedByHook, Installed
<1>8. RulesExact'
  BY <1>1, <1>2, <1>4, <1>5, <1>6, <1>7, HookAccounts
     DEF Working, Exact, OwedByHook, Installed
<1>9. QED
  BY <1>1, <1>3, <1>5, <1>6, <1>8 DEF Working, Exact, FailedOnce, SnapshotExact

(* A rule goes, and the hook answers for the difference to the marker.     *)
LEMMA RemoveExact ==
    ASSUME IInv, OneFailure, Exact, Remove, UNCHANGED rigid
    PROVE  Exact'
<1> USE DEF IInv
<1>1. Working("remove")
  BY AtWorks DEF Remove
<1>2. /\ hook.i <= Operations /\ marker[Call] # None /\ ~marker[Call].rulesRemoved
      /\ nft \/ marker[Call].removed = hook.i
      /\ nft => marker[Call].removed = 0
  BY <1>1 DEF Working, CountInRange, MarkerOfHook, Down, Exact, FailedOnce, MarkersAgree
<1>3. \A n \in 1 .. Rules : rules[Call][n] = IF n <= Operations /\ n > hook.i THEN 1 ELSE 0
  BY <1>1, OwnRules DEF Working, Exact, OwedByHook, Installed
<1>4. PICK c \in Calls : c = Call
  BY <1>1 DEF Working
<1>5. CASE hook.i = Operations /\ Goto("removed") /\ UNCHANGED <<sys, rules, files>>
  <2>1. hook' # None /\ Call' = Call /\ hook'.pc = "removed"
    BY <1>1, <1>5, HookGoesOn DEF Working, Goto, Step, PCs
  <2>2. RulesExact'
    BY <1>1, <1>5, <2>1, QuietExact DEF Working, OwedByHook, Installed, files
  <2>3. QED
    BY <2>1, <2>2 DEF Exact, FailedOnce, SnapshotExact
<1>6. CASE /\ hook.i < Operations /\ rules' = Deleted(Call, hook.i + 1)
           /\ Step("record", hook.i + 1) /\ UNCHANGED files
  <2>1. hook.i + 1 \in 1 .. Rules /\ rules[Call][hook.i + 1] = 1
    BY <1>1, <1>3, <1>6 DEF Working
  <2>2. hook' # None /\ Call' = Call /\ hook'.pc = "record" /\ hook'.i = hook.i + 1
    BY <1>1, <1>6, <2>1, HookGoesOn DEF Working, Step, PCs
  <2>3. /\ \A d \in Calls \ {Call} : rules'[d] = rules[d]
        /\ \A k \in 1 .. Rules \ {hook.i + 1} : rules'[Call][k] = rules[Call][k]
        /\ rules'[Call][hook.i + 1] = 0
    <3>1. PICK n \in 1 .. Rules : n = hook.i + 1
      BY <2>1
    <3>2. TypeOK /\ rules[c][n] > 0 /\ rules' = Deleted(c, n)
      BY <1>4, <1>6, <2>1, <3>1
    <3>3. /\ \A d \in Calls \ {c} : rules'[d] = rules[d]
          /\ \A k \in 1 .. Rules \ {n} : rules'[c][k] = rules[c][k]
          /\ rules'[c][n] = rules[c][n] - 1
      BY <3>2, DeleteOne
    <3>4. QED
      BY <1>4, <2>1, <3>1, <3>3
  <2>4. \A n \in 1 .. Rules :
           rules'[Call][n] = IF n <= Operations /\ n > hook.i + 1 THEN 1 ELSE 0
    BY <1>1, <1>3, <2>1, <2>3 DEF Working
  <2>5. Operations' = Operations
    BY DEF Operations, rigid
  <2>6. RulesExact'
    BY <1>1, <1>6, <2>2, <2>3, <2>4, <2>5, HookAccounts
       DEF Working, Exact, OwedByHook, Installed, files
  <2>7. QED
    BY <2>2, <2>6 DEF Exact, FailedOnce, SnapshotExact
<1>7. ~(hook.i < Operations /\ rules[Call][hook.i + 1] = 0)
  BY <1>1, <1>3 DEF Working
<1>8. CASE hook.i < Operations /\ Fails("end", 0)
  <2>1. hook' = None /\ UNCHANGED <<rules, files>>
    BY <1>8, FailCounts DEF To
  <2>2. \A n \in 1 .. Operations : Owed(c, n) = OwedByHook(n)
    <3>1. hook.i = marker[Call].removed
      BY <1>1, <1>2, <1>8 DEF Working, Operations
    <3>2. QED
      BY <1>1, <1>2, <1>4, <3>1 DEF Working, Owed, OwedByHook, Installed
  <2>3. \A n \in 1 .. Operations : Owed(c, n)' = Owed(c, n)
    BY <2>1 DEF Owed, files
  <2>4. HasActive'
    BY <1>2, <1>4, <2>1 DEF HasActive, files
  <2>5. \A n \in 1 .. Operations : Owed(c, n)' = OwedByHook(n)
    BY <2>2, <2>3
  <2>6. QED
    BY <1>1, <1>4, <2>1, <2>4, <2>5, EndExact DEF Working, files
<1>9. QED
  BY <1>5, <1>6, <1>7, <1>8 DEF Remove

(* The marker says again how many rules are gone.                          *)
LEMMA RecordExact ==
    ASSUME IInv, OneFailure, Exact, Record, UNCHANGED rigid
    PROVE  Exact'
<1> USE DEF IInv
<1>1. Working("record")
  BY AtWorks DEF Record
<1>2. marker[Call] \in Markers
  BY <1>1 DEF Working, MarkerOfHook, Down, TypeOK
<1>3. /\ \A d \in Calls \ {Call} : marker'[d] = marker[d]
      /\ nft \/ marker'[Call].removed = hook.i
      /\ rules' = rules /\ Operations' = Operations /\ nft' = nft
  BY <1>1, <1>2 DEF Working, Record, Recorded, TypeOK, Markers, Operations, rigid
<1>4. /\ hook' # None /\ Call' = Call /\ hook'.pc = "remove" /\ hook'.i = hook.i
  BY <1>1, HookGoesOn DEF Working, Record, Step, PCs
<1>5. \A n \in 1 .. Rules : rules[Call][n] = IF n <= Operations /\ n > hook.i THEN 1 ELSE 0
  BY <1>1, OwnRules DEF Working, Exact, OwedByHook, Installed
<1>6. RulesExact'
  BY <1>1, <1>3, <1>4, <1>5, HookAccounts DEF Working, Exact, OwedByHook, Installed
<1>7. QED
  BY <1>3, <1>4, <1>6 DEF Exact, FailedOnce, SnapshotExact

(* The marker says that none is left.                                      *)
LEMMA RulesRemovedExact ==
    ASSUME IInv, OneFailure, Exact, RulesRemoved, UNCHANGED rigid
    PROVE  Exact'
<1> USE DEF IInv
<1> DEFINE m == [marker[Call] EXCEPT !.rulesRemoved = TRUE]
<1>1. Working("removed")
  BY AtWorks DEF RulesRemoved
<1>2. marker[Call] \in Markers
  BY <1>1 DEF Working, MarkerOfHook, Down, TypeOK
<1>3. m.rulesRemoved /\ m # None
  <2>1. m \in Markers /\ m.rulesRemoved
    BY <1>2 DEF Markers
  <2>2. QED
    BY <2>1, NoneAssumption
<1>4. /\ marker' = [marker EXCEPT ![Call] = m] /\ rules' = rules
      /\ To(AfterRules(Call), 0) /\ Operations' = Operations
  BY DEF RulesRemoved, Goto, Step, Operations, rigid
<1>5. PICK c \in Calls : c = Call
  BY <1>1 DEF Working
<1>6. \A d \in Calls : marker'[d] = IF d = c THEN m ELSE marker[d]
  BY <1>4, <1>5 DEF TypeOK
<1>7. \A n \in 1 .. Operations : Owed(c, n)' = 0 /\ OwedByHook(n) = 0
  BY <1>1, <1>3, <1>6 DEF Working, Owed, OwedByHook, Installed
<1>8. CASE AfterRules(Call) = "end"
  <2>1. hook' = None
    BY <1>4, <1>8 DEF To
  <2>2. HasActive'
    BY <1>3, <1>6 DEF HasActive
  <2>3. QED
    BY <1>1, <1>4, <1>5, <1>6, <1>7, <2>1, <2>2, EndExact DEF Working
<1>9. CASE AfterRules(Call) # "end"
  <2>1. AfterRules(Call) \in {"unmark", "restore-down"}
    BY <1>9 DEF AfterRules
  <2>2. hook' # None /\ Call' = Call /\ hook'.pc = AfterRules(Call)
    BY <1>1, <1>4, <2>1, HookGoesOn DEF Working, PCs
  <2>3. \A n \in 1 .. Rules : rules[Call][n] = 0
    BY <1>1, <1>7, OwnRules DEF Working, Exact
  <2>4. \A n \in 1 .. Operations : OwedByHook(n)' = 0
    BY <2>1, <2>2 DEF OwedByHook, Installed
  <2>5. RulesExact'
    BY <1>1, <1>4, <1>5, <1>6, <2>2, <2>3, <2>4, HookAccounts DEF Working, Exact
  <2>6. hook'.pc = "unmark" => ActiveExcept(Call)'
    BY <1>5, <1>6, <2>2 DEF AfterRules, ActiveExcept
  <2>7. QED
    BY <2>1, <2>2, <2>5, <2>6 DEF Exact, FailedOnce, SnapshotExact
<1>10. QED
  BY <1>8, <1>9

(* The marker goes when nothing of the call is left.                       *)
LEMMA UnmarkExact ==
    ASSUME IInv, OneFailure, Exact, Unmark, UNCHANGED rigid
    PROVE  Exact'
<1> USE DEF IInv
<1>1. Working("unmark")
  BY AtWorks DEF Unmark
<1>2. PICK c \in Calls : c = Call
  BY <1>1 DEF Working
<1>3. /\ marker' = [marker EXCEPT ![Call] = None] /\ hook' = None
      /\ UNCHANGED <<rules, snapshot>>
  BY DEF Unmark, Goto, Step, To
<1>4. \A d \in Calls : marker'[d] = IF d = c THEN None ELSE marker[d]
  BY <1>2, <1>3 DEF TypeOK
<1>5. \A n \in 1 .. Operations : Owed(c, n)' = OwedByHook(n)
  BY <1>1, <1>4 DEF Working, Owed, OwedByHook, Installed
<1>6. HasActive' \/ snapshot' = None
  BY <1>1, <1>2, <1>3, <1>4
     DEF Working, Exact, SnapshotExact, ActiveExcept, HasActive
<1>7. QED
  BY <1>1, <1>2, <1>3, <1>4, <1>5, <1>6, EndExact DEF Working

(* Nothing is left unaccounted for by any step, if no hook is killed and   *)
(* at most one command of each fails.                                      *)
LEMMA NextExact ==
    ASSUME IInv, OneFailure, Exact, [Next]_vars
    PROVE  Exact'
<1>1. ASSUME UNCHANGED vars PROVE Exact'
  BY <1>1
     DEF vars, rigid, files, Exact, RulesExact, FailedOnce, SnapshotExact, Owed, OwedByHook,
         Operations, Call, HasActive, ActiveExcept
<1>2. ASSUME Run, UNCHANGED rigid PROVE Exact'
  <2>1. CASE Install
    BY <1>2, <2>1, InstallExact
  <2>2. CASE Undo
    BY <1>2, <2>2, UndoExact
  <2>3. CASE Retain
    BY <1>2, <2>3, RetainExact
  <2>4. CASE Forward
    BY <1>2, <2>4, ForwardExact
  <2>5. CASE Unforward
    BY <1>2, <2>5, UnforwardExact
  <2>6. CASE Mark
    BY <1>2, <2>6, MarkExact
  <2>7. CASE Clean
    BY <1>2, <2>7, CleanExact
  <2>8. CASE RestoreOld
    BY <1>2, <2>8, RestoreExact DEF RestoreOld
  <2>9. CASE RestoreUp
    BY <1>2, <2>9, RestoreExact DEF RestoreUp
  <2>10. CASE RestoreDown
    BY <1>2, <2>10, RestoreExact DEF RestoreDown
  <2>11. CASE Teardown
    BY <1>2, <2>11, TeardownExact
  <2>12. CASE Remove
    BY <1>2, <2>12, RemoveExact
  <2>13. CASE Record
    BY <1>2, <2>13, RecordExact
  <2>14. CASE RulesRemoved
    BY <1>2, <2>14, RulesRemovedExact
  <2>15. CASE Unmark
    BY <1>2, <2>15, UnmarkExact
  <2>16. QED
    BY <1>2, <2>1, <2>2, <2>3, <2>4, <2>5, <2>6, <2>7, <2>8, <2>9, <2>10, <2>11, <2>12,
       <2>13, <2>14, <2>15 DEF Run
<1>3. ~Dies
  BY DEF OneFailure, Dies
<1>4. ASSUME NEW l \in Links, Ignored(l), UNCHANGED rigid PROVE Exact'
  BY <1>1, <1>4 DEF Ignored, vars
<1>5. ASSUME NEW l \in Links, StartUp(l) \/ StartDown(l), UNCHANGED rigid PROVE Exact'
  BY <1>5, StartExact
<1>6. QED
  BY <1>1, <1>2, <1>3, <1>4, <1>5 DEF Next

(* The rules in the kernel are exactly those the markers and the hook at   *)
(* work account for, if no hook is killed and at most one command of each  *)
(* fails.                                                                  *)
THEOREM AllAccountedFor == Spec => [](OneFailure => Exact)
<1>1. Init => Exact
  BY DEF Init, Exact, RulesExact, Owed, FailedOnce, SnapshotExact, HasActive
<1>2. IInv /\ (OneFailure => Exact) /\ [Next]_vars => (OneFailure => Exact)'
  <2> SUFFICES ASSUME IInv, OneFailure => Exact, [Next]_vars, OneFailure' PROVE Exact'
    OBVIOUS
  <2>1. OneFailure
    BY DEF Next, vars, rigid, OneFailure
  <2>2. QED
    BY <2>1, NextExact
<1>3. QED
  BY <1>1, <1>2, Invariance, PTL DEF Spec

(* The saved progress of a teardown is exact, so that a retry finds every  *)
(* rule it deletes and leaves none, if no hook is killed and at most one   *)
(* command of each fails.                                                  *)
THEOREM ProgressIsKept == Spec => [](faults.failures <= 1 => ProgressKept)
<1>1. IInv /\ (OneFailure => Exact) => (faults.failures <= 1 => ProgressKept)
  <2> SUFFICES ASSUME IInv, faults.failures <= 1, OneFailure => Exact, ~faults.die, Idle,
                      NEW c \in Calls, marker[c] # None, NEW n \in 1 .. Operations
               PROVE  rules[c][n] = IF marker[c].rulesRemoved \/ n <= marker[c].removed
                                    THEN 0 ELSE 1
    BY DEF IInv, ProgressKept, ProgressExact
  <2>1. n \in 1 .. Rules /\ ~(n > Operations)
    BY RulesAssumption DEF Operations
  <2>2. rules[c][n] = Owed(c, n)
    BY <2>1 DEF OneFailure, Exact, RulesExact, Idle
  <2>3. QED
    BY <2>2 DEF Owed
<1>2. QED
  BY <1>1, Invariance, AllAccountedFor, PTL

(* Without active or unfinished leases there is no rule and no snapshot    *)
(* left, and the switches are as they were, if no hook is killed and at    *)
(* most one command of each fails (egress_twice shows it of two).          *)
THEOREM RestsClean == Spec => [](faults.failures <= 1 => CleanAtRest)
<1>1. IInv /\ (OneFailure => Exact) => (faults.failures <= 1 => CleanAtRest)
  <2> SUFFICES ASSUME IInv, faults.failures <= 1, OneFailure => Exact, ~faults.die, Idle,
                      ~HasActive
               PROVE  /\ sys = base /\ snapshot = None
                      /\ \A c \in Calls, n \in 1 .. Rules : rules[c][n] = 0
    BY DEF CleanAtRest
  <2>1. snapshot = None
    BY DEF OneFailure, Exact, SnapshotExact, Idle
  <2>2. sys = base
    BY <2>1 DEF IInv, BaselineKept
  <2>3. \A c \in Calls, n \in 1 .. Rules : rules[c][n] = 0
    BY DEF OneFailure, Exact, RulesExact, Owed, HasActive, Idle
  <2>4. QED
    BY <2>1, <2>2, <2>3
<1>2. QED
  BY <1>1, Invariance, AllAccountedFor, PTL
=============================================================================
