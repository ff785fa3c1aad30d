----------------------------- MODULE Credentials -----------------------------
(***************************************************************************)
(* The users who may open a PPP session, in all the places that hold them: *)
(* the configuration file and its copy in memory (src/src/config.js), the  *)
(* credential store of the PPP controller (src/src/index.js,               *)
(* src/src/ppp.js) and the secrets file that pppd reads                    *)
(* (renderChapSecrets of src/src/pppd-supervisor.js), together with the    *)
(* script that moves that file out of /etc/ppp                             *)
(* (src/deploy/prepare-ppp-secrets.py), through refused and failed         *)
(* changes, crashes and restarts of the service and of the script.         *)
(*                                                                         *)
(* A set of users is a function from names to passwords, None for a name   *)
(* that is no user's; a user the file knows by a hash has HashOnly.  The   *)
(* script treats two secrets files in the same way, one after the other:   *)
(* here there is one.                                                      *)
(***************************************************************************)
EXTENDS Naturals, Sequences, FiniteSets

CONSTANTS
    Names, Passwords, HashOnly,
    Seed,        \* the configuration the environment gives: [users, cap, sip]
    MaxCap,      \* bound on the number of sessions asked for
    MaxChanges,  \* bound on the changes asked for
    None, Link, Foreign, Torn

Users == [Names -> Passwords \cup {None, HashOnly}]

Content == [Names -> Passwords \cup {None}]

Configs == [users : Users, cap : 1 .. MaxCap, sip : {0, 1}]

(* The marks are no contents, no configurations, and tell themselves apart. *)
ASSUME CredentialsAssumption ==
    /\ MaxCap \in Nat /\ MaxChanges \in Nat /\ Seed \in Configs
    /\ HashOnly \notin Passwords \cup {None}
    /\ None # Link /\ None # Foreign /\ None # Torn /\ Link # Foreign
    /\ \A mark \in {None, Link, Foreign, Torn} : mark \notin Content /\ mark \notin Configs

VARIABLES
    disk,      \* the configuration file, or None
    memory,    \* SipfaxConfig.data
    store,     \* the users of PppSessionController.credentials
    running,   \* whether the service is
    launched,  \* whether it has launched a pppd since it started
    changes,   \* changes asked for so far
    acked,     \* what the operator was last told of each setting
    dirty      \* settings with a change after that of which he was told nothing
               \* or that it failed

VARIABLES
    source,    \* /etc/ppp/chap-secrets: None, content, Link or Foreign
    target,    \* the managed file it leads to: None or content
    backup,    \* the rollback copy: None, Torn or content
    migration, \* the script's run: its next step and the content it read, or None
    result,    \* how its last run ended
    lastWritten, \* what pppd was last given to read
    original,  \* what was to be preserved by the first rollback copy
    rewritten  \* whether the service has written in /etc/ppp beside the managed file

configVars  == <<disk, memory, store, running, launched, changes, acked, dirty>>
secretsVars == <<source, target, backup, migration, result, lastWritten, original, rewritten>>
vars        == <<configVars, secretsVars>>

Fields == {"users", "cap", "sip"}

NoUsers == [name \in Names |-> None]

ConfigTypeOK ==
    /\ disk \in Configs \cup {None, Torn} /\ memory \in Configs /\ store \in Users
    /\ running \in BOOLEAN /\ launched \in BOOLEAN
    /\ changes \in 0 .. MaxChanges /\ dirty \subseteq Fields

SecretsTypeOK ==
    /\ source \in Content \cup {None, Link, Foreign}
    /\ target \in Content \cup {None}
    /\ backup \in Content \cup {None, Torn}
    /\ migration \in [step : {"backup", "fill", "target", "link", "end"}, data : Content]
                    \cup {None}
    /\ rewritten \in BOOLEAN

TypeOK == ConfigTypeOK /\ SecretsTypeOK

Init ==
    /\ disk \in {None, Seed} /\ memory = Seed /\ store = NoUsers
    /\ running = FALSE /\ launched = FALSE /\ changes = 0
    /\ acked = Seed /\ dirty = {}
    /\ source \in {None, Foreign} \cup [Names -> Passwords]
    /\ target = None /\ backup = None /\ migration = None /\ result = "none"
    /\ lastWritten = IF source \in Content THEN source ELSE NoUsers
    /\ original = None /\ rewritten = FALSE
----------------------------------------------------------------------------
(* The configuration.  An absent file is written from the environment,     *)
(* unless that fails.                                                      *)
Stored == IF disk = None THEN Seed ELSE disk

Start ==
    /\ ~running /\ migration = None /\ disk # Torn
    /\ running' = TRUE /\ launched' = FALSE
    /\ memory' = Stored /\ store' = Stored.users
    /\ disk' \in {disk, Stored}
    /\ UNCHANGED <<changes, acked, dirty, secretsVars>>

Crash ==
    /\ running /\ running' = FALSE
    /\ UNCHANGED <<disk, memory, store, launched, changes, acked, dirty, secretsVars>>

(* save writes a file of its own, then puts it in the place of the other.  *)
HalfInPlace(old) == Torn
HalfAside(old) == old

StoreKept(users) == store
Applied(users) == users

(* #commit, once data has been changed in memory: it is saved and applied, *)
(* or cannot be saved and the operator gets an error, or the service dies  *)
(* before or after the file is in place.                                   *)
Commit(field, data) ==
    /\ memory' = data
    /\ \/ /\ disk' = data
          /\ acked' = [acked EXCEPT ![field] = data[field]] /\ dirty' = dirty \ {field}
          /\ store' = IF field = "users" THEN Applied(data.users) ELSE store
          /\ UNCHANGED running
       \/ /\ dirty' = dirty \cup {field}
          /\ UNCHANGED <<disk, store, running, acked>>
       \/ /\ disk' \in {HalfAside(disk), data}
          /\ dirty' = dirty \cup {field} /\ running' = FALSE
          /\ UNCHANGED <<store, acked>>

Change ==
    /\ running /\ changes < MaxChanges /\ changes' = changes + 1
    /\ UNCHANGED <<launched, secretsVars>>

AddUser(name, password) ==
    /\ Change
    /\ Commit("users", [memory EXCEPT !.users[name] = password])

RemoveUser(name) ==
    /\ Change
    /\ memory.users[name] # None
    /\ Commit("users", [memory EXCEPT !.users[name] = None])

AnyCap(n) == TRUE
ValidCap(n) == n >= 1

SetMaxSessions(n) ==
    /\ Change
    /\ ValidCap(n)
    /\ Commit("cap", [memory EXCEPT !.cap = n])

SetSip(value) ==
    /\ Change
    /\ Commit("sip", [memory EXCEPT !.sip = value])

(* An unknown setting behind a known one: the known one is changed in      *)
(* memory, then the request fails.                                         *)
SetSipPartly(value) ==
    /\ Change
    /\ memory' = [memory EXCEPT !.sip = value]
    /\ dirty' = dirty \cup {"sip"}
    /\ UNCHANGED <<disk, store, running, acked>>

Renderable == \A name \in Names : store[name] # HashOnly

Reads == IF source = Link THEN target ELSE IF source = None THEN NoUsers ELSE source

(* renderChapSecrets before a launch: pppd is launched behind a complete   *)
(* file.  Without the link the file is written in /etc/ppp, if the service *)
(* may; with a link of the operator's it is written elsewhere.             *)
Render ==
    /\ lastWritten' = store
    /\ IF source = Link THEN target' = store /\ UNCHANGED <<source, rewritten>>
       ELSE IF source = Foreign THEN UNCHANGED <<source, target, rewritten>>
       ELSE source' = store /\ rewritten' = (target # None) /\ UNCHANGED target
    /\ UNCHANGED <<backup, migration, result, original>>

Launch ==
    /\ running /\ Renderable
    /\ Render
    /\ launched' = TRUE
    /\ UNCHANGED <<disk, memory, store, running, changes, acked, dirty>>

DieWhileRendering ==
    /\ running /\ Renderable /\ running' = FALSE
    /\ Render \/ UNCHANGED secretsVars
    /\ UNCHANGED <<disk, memory, store, launched, changes, acked, dirty>>
----------------------------------------------------------------------------
(* prepare, while the service is stopped.                                  *)
LinkFirst == <<"backup", "link", "target">>
Steps == <<"backup", "target", "link">>

NextOf(step) == IF step = Steps[1] THEN Steps[2] ELSE IF step = Steps[2] THEN Steps[3] ELSE "end"

ConflictsIfThere(data) == target # None
Conflicts(data) == target # None /\ target # data

End(how) == migration' = None /\ result' = how

Check ==
    /\ ~running /\ migration = None
    /\ LET data == IF source = None THEN NoUsers ELSE source
       IN  IF source \in {Link, Foreign}
           THEN End(IF source = Link /\ target # None THEN "done" ELSE "unexpected link")
           ELSE IF Conflicts(data) THEN End("conflict")
           ELSE migration' = [step |-> Steps[1], data |-> data] /\ result' = "begun"
    /\ UNCHANGED <<configVars, source, target, backup, lastWritten, original, rewritten>>

Proceed == migration' = [migration EXCEPT !.step = NextOf(@)]

At(step) == migration # None /\ migration.step = step

CopyAgain == source # None
NeedsCopy == source # None /\ backup = None

(* The copy is opened, which leaves it empty, and then filled.             *)
SkipCopy ==
    /\ At("backup") /\ ~NeedsCopy
    /\ Proceed
    /\ UNCHANGED <<configVars, source, target, backup, result, lastWritten, original, rewritten>>

OpenCopy ==
    /\ At("backup") /\ NeedsCopy
    /\ backup' = Torn
    /\ original' = IF original = None THEN migration.data ELSE original
    /\ migration' = [migration EXCEPT !.step = "fill"]
    /\ UNCHANGED <<configVars, source, target, result, lastWritten, rewritten>>

FillCopy ==
    /\ At("fill")
    /\ backup' = migration.data
    /\ migration' = [migration EXCEPT !.step = Steps[2]]
    /\ UNCHANGED <<configVars, source, target, result, lastWritten, original, rewritten>>

ReplaceTarget ==
    /\ At("target")
    /\ target' = migration.data
    /\ Proceed
    /\ UNCHANGED <<configVars, source, backup, result, lastWritten, original, rewritten>>

ReplaceLink ==
    /\ At("link")
    /\ source' = Link
    /\ Proceed
    /\ UNCHANGED <<configVars, target, backup, result, lastWritten, original, rewritten>>

Finish ==
    /\ At("end") /\ End("done")
    /\ UNCHANGED <<configVars, source, target, backup, lastWritten, original, rewritten>>

ScriptDies ==
    /\ migration # None /\ End("died")
    /\ UNCHANGED <<configVars, source, target, backup, lastWritten, original, rewritten>>

Migrate ==
    \/ Check \/ SkipCopy \/ OpenCopy \/ FillCopy \/ ReplaceTarget \/ ReplaceLink
    \/ Finish \/ ScriptDies

Next ==
    \/ Start \/ Crash
    \/ \E name \in Names : RemoveUser(name) \/ \E password \in Passwords : AddUser(name, password)
    \/ \E n \in 0 .. MaxCap : SetMaxSessions(n)
    \/ \E value \in {0, 1} : SetSip(value) \/ SetSipPartly(value)
    \/ Launch \/ DieWhileRendering
    \/ Migrate

Spec == Init /\ [][Next]_vars
----------------------------------------------------------------------------
(* What the operator was told is done is on disk, after any sequence of    *)
(* failed saves and crashes, until he is told otherwise or not at all.     *)
AckedChangesSurvive ==
    /\ disk # Torn
    /\ \A field \in Fields \ dirty : Stored[field] = acked[field]

(* ... and a change of the users is in force at once and after a restart:  *)
(* the controller admits those he was told of.                             *)
AckedIsApplied == running /\ "users" \notin dirty => store = acked.users

(* What the operator was told is done holds, now and after a restart.      *)
AckedHolds == AckedChangesSurvive /\ AckedIsApplied

(* pppd reads the whole of what was last written for it, at every step of  *)
(* the migration and wherever it or the service dies.                      *)
NeverLost == source # Foreign => Reads = lastWritten

(* The rollback copy is what was in /etc/ppp before the first migration,   *)
(* whatever later runs do, unless that run died while it made the copy.    *)
RollbackKept == backup \in {None, Torn, original}

(* A run that died is completed by running the script again: it refuses    *)
(* only a link of the operator's and secrets that were written since.      *)
RerunCompletes ==
    /\ result = "conflict" => rewritten
    /\ result = "unexpected link" => source = Foreign

(* The migration loses no secrets, keeps the way back, and can be repeated. *)
SecretsAreKept == NeverLost /\ RollbackKept /\ RerunCompletes

(* src/src/pppd-supervisor.js, removeSessionFiles: the secrets file is     *)
(* rendered again on each launch and when the user list changes.           *)
SecretsFollowUsers == running /\ launched /\ source # Foreign => Reads = store
=============================================================================
