-------------------------- MODULE CredentialsProofs --------------------------
(***************************************************************************)
(* Proofs about Credentials, for any names, passwords and numbers of       *)
(* changes, crashes and runs of the script.                                *)
(***************************************************************************)
EXTENDS Credentials, TLAPS

(* What is on disk and in memory, setting by setting.                      *)
Settled(field) ==
    /\ Stored[field] = acked[field]
    /\ running => memory[field] = acked[field]

(* The configuration: only whole files; every setting that is not dirty is *)
(* the same everywhere.                                                    *)
ConfigInv ==
    /\ disk # Torn
    /\ acked \in Configs
    /\ \A field \in Fields \ dirty : Settled(field)
    /\ AckedIsApplied

Plain == source \notin {Link, Foreign}

(* The secrets: who reads the link or the file reads what was last         *)
(* written; the script, which runs alone, has read just that.              *)
SecretsInv ==
    /\ lastWritten \in Content
    /\ source # Foreign => Reads = lastWritten
    /\ migration # None =>
          /\ ~running
          /\ migration.step \in {"backup", "fill", "target", "link"} =>
                Plain /\ migration.data = lastWritten
          /\ migration.step = "fill" => original = migration.data
          /\ migration.step = "link" => target = migration.data

(* The rollback copy is made once.                                         *)
BackupInv ==
    /\ backup = None => original = None
    /\ RollbackKept

(* A plain file beside the managed one is its copy, unless it was written. *)
ResultInv ==
    /\ target # None /\ Plain /\ ~rewritten => target = Reads
    /\ result = "conflict" => rewritten /\ target # None
    /\ result = "unexpected link" => source = Foreign

IInv == TypeOK /\ ConfigInv /\ SecretsInv /\ BackupInv /\ ResultInv
----------------------------------------------------------------------------
(* A change, however it ends, disturbs the setting it is about and no      *)
(* other: field by field, the configuration stays settled.                 *)
LEMMA CommitSettles ==
    ASSUME ConfigTypeOK, ConfigInv, Change,
           NEW field \in Fields, NEW data \in Configs, Commit(field, data),
           \A other \in Fields \ {field} : data[other] = memory[other]
    PROVE  ConfigTypeOK' /\ ConfigInv'
<1> USE DEF ConfigTypeOK, ConfigInv
<1>0. /\ data \notin {None, Torn} /\ data.users \in Users
      /\ running /\ launched' \in BOOLEAN /\ changes' \in 0 .. MaxChanges
  BY CredentialsAssumption DEF Configs, Change
<1>1. CASE /\ disk' = data
           /\ acked' = [acked EXCEPT ![field] = data[field]] /\ dirty' = dirty \ {field}
           /\ store' = IF field = "users" THEN Applied(data.users) ELSE store
           /\ UNCHANGED running
  <2>1. memory' = data
    BY DEF Commit
  <2>2. acked' \in Configs
    BY <1>1 DEF Fields, Configs
  <2>3. ASSUME NEW other \in Fields \ dirty' PROVE Settled(other)'
    <3>1. CASE other = field
      BY <3>1, <1>0, <1>1, <2>1 DEF Settled, Stored, Configs, Fields
    <3>2. CASE other # field
      <4>1. other \notin dirty
        BY <3>2, <1>1
      <4>2. Settled(other) /\ acked'[other] = acked[other] /\ data[other] = memory[other]
        BY <3>2, <4>1, <1>1 DEF Configs, Fields
      <4>. QED
        BY <4>2, <1>0, <1>1, <2>1 DEF Settled, Stored
    <3>. QED
      BY <3>1, <3>2
  <2>4. AckedIsApplied'
    <3>1. CASE field = "users"
      BY <3>1, <1>1 DEF AckedIsApplied, Applied, Configs
    <3>2. CASE field # "users"
      BY <3>2, <1>1 DEF AckedIsApplied, Configs
    <3>. QED
      BY <3>1, <3>2
  <2>. QED
    BY <1>0, <1>1, <2>1, <2>2, <2>3, <2>4 DEF Applied
<1>2. CASE /\ dirty' = dirty \cup {field}
           /\ UNCHANGED <<disk, store, running, acked>>
  <2>1. memory' = data
    BY DEF Commit
  <2>2. ASSUME NEW other \in Fields \ dirty' PROVE Settled(other)'
    <3>1. other \in Fields \ dirty /\ other # field
      BY <1>2
    <3>2. Settled(other) /\ data[other] = memory[other]
      BY <3>1
    <3>. QED
      BY <1>0, <1>2, <2>1, <3>2 DEF Settled, Stored
  <2>3. AckedIsApplied'
    BY <1>2 DEF AckedIsApplied
  <2>. QED
    BY <1>0, <1>2, <2>1, <2>2, <2>3
<1>3. CASE /\ disk' \in {HalfAside(disk), data}
           /\ dirty' = dirty \cup {field} /\ running' = FALSE
           /\ UNCHANGED <<store, acked>>
  <2>1. memory' = data /\ disk' \in {disk, data}
    BY <1>3 DEF Commit, HalfAside
  <2>2. ASSUME NEW other \in Fields \ dirty' PROVE Settled(other)'
    <3>1. other \in Fields \ dirty /\ other # field
      BY <1>3
    <3>2. Settled(other) /\ data[other] = memory[other]
      BY <3>1
    <3>. QED
      BY <1>0, <1>3, <2>1, <3>2 DEF Settled, Stored
  <2>3. AckedIsApplied'
    BY <1>3 DEF AckedIsApplied
  <2>. QED
    BY <1>0, <1>3, <2>1, <2>2, <2>3
<1>. QED
  BY <1>1, <1>2, <1>3 DEF Commit

(* Every change asked for is a Commit of one setting.                      *)
LEMMA ChangeSettles ==
    ASSUME ConfigTypeOK, ConfigInv,
           \/ \E name \in Names : RemoveUser(name) \/ \E password \in Passwords : AddUser(name, password)
           \/ \E n \in 0 .. MaxCap : SetMaxSessions(n)
           \/ \E value \in {0, 1} : SetSip(value)
    PROVE  ConfigTypeOK' /\ ConfigInv' /\ running /\ UNCHANGED secretsVars
<1> USE DEF Fields, Configs, Users
<1>1. ASSUME NEW name \in Names, RemoveUser(name) PROVE ConfigTypeOK' /\ ConfigInv' /\ running /\ UNCHANGED secretsVars
  <2>1. [memory EXCEPT !.users[name] = None] \in Configs
    BY DEF ConfigTypeOK
  <2>. QED
    BY <1>1, <2>1, CommitSettles DEF RemoveUser, Change, ConfigTypeOK
<1>2. ASSUME NEW name \in Names, NEW password \in Passwords, AddUser(name, password)
      PROVE  ConfigTypeOK' /\ ConfigInv' /\ running /\ UNCHANGED secretsVars
  <2>1. [memory EXCEPT !.users[name] = password] \in Configs
    BY DEF ConfigTypeOK
  <2>. QED
    BY <1>2, <2>1, CommitSettles DEF AddUser, Change, ConfigTypeOK
<1>3. ASSUME NEW n \in 0 .. MaxCap, SetMaxSessions(n)
      PROVE  ConfigTypeOK' /\ ConfigInv' /\ running /\ UNCHANGED secretsVars
  <2>1. [memory EXCEPT !.cap = n] \in Configs
    BY <1>3, CredentialsAssumption DEF ConfigTypeOK, SetMaxSessions, ValidCap
  <2>. QED
    BY <1>3, <2>1, CommitSettles DEF SetMaxSessions, Change, ConfigTypeOK
<1>4. ASSUME NEW value \in {0, 1}, SetSip(value)
      PROVE  ConfigTypeOK' /\ ConfigInv' /\ running /\ UNCHANGED secretsVars
  <2>1. [memory EXCEPT !.sip = value] \in Configs
    BY DEF ConfigTypeOK
  <2>. QED
    BY <1>4, <2>1, CommitSettles DEF SetSip, Change, ConfigTypeOK
<1>. QED
  BY <1>1, <1>2, <1>3, <1>4

(* Start, failures and launches keep the configuration settled too.        *)
LEMMA ServiceSettles ==
    ASSUME ConfigTypeOK, ConfigInv,
           \/ Start \/ Crash \/ Launch \/ DieWhileRendering
           \/ \E value \in {0, 1} : SetSipPartly(value)
    PROVE  ConfigTypeOK' /\ ConfigInv'
<1> USE DEF ConfigTypeOK, ConfigInv
<1>1. CASE Start
  <2>1. Stored \in Configs /\ Stored' = Stored /\ disk' # Torn
    BY <1>1, CredentialsAssumption DEF Start, Stored
  <2>2. Stored.users \in Users /\ disk' \in Configs \cup {None, Torn}
    BY <1>1, <2>1 DEF Configs, Start
  <2>3. ASSUME NEW field \in Fields \ dirty' PROVE Settled(field)'
    BY <1>1, <2>1 DEF Start, Settled
  <2>4. AckedIsApplied'
    BY <1>1 DEF Start, AckedIsApplied, Settled, Fields
  <2>. QED
    BY <1>1, <2>1, <2>2, <2>3, <2>4 DEF Start
<1>2. CASE Crash
  BY <1>2 DEF Crash, Settled, Stored, AckedIsApplied
<1>3. CASE Launch
  BY <1>3 DEF Launch, Settled, Stored, AckedIsApplied
<1>4. CASE DieWhileRendering
  BY <1>4 DEF DieWhileRendering, Settled, Stored, AckedIsApplied
<1>5. ASSUME NEW value \in {0, 1}, SetSipPartly(value) PROVE ConfigTypeOK' /\ ConfigInv'
  <2>1. memory' \in Configs /\ \A field \in {"users", "cap"} : memory'[field] = memory[field]
    BY <1>5 DEF SetSipPartly, Configs
  <2>2. ASSUME NEW field \in Fields \ dirty' PROVE Settled(field)'
    <3>1. field \in {"users", "cap"} \ dirty /\ field \in Fields
      BY <1>5 DEF SetSipPartly, Fields
    <3>2. Settled(field) /\ memory'[field] = memory[field]
      BY <2>1, <3>1
    <3>. QED
      BY <1>5, <3>2 DEF SetSipPartly, Settled, Stored, Change
  <2>3. AckedIsApplied'
    BY <1>5 DEF SetSipPartly, AckedIsApplied, Change
  <2>. QED
    BY <1>5, <2>1, <2>2, <2>3, CredentialsAssumption DEF SetSipPartly, Change, Fields
<1>. QED
  BY <1>1, <1>2, <1>3, <1>4, <1>5

(* ... and all but the launches leave the secrets alone.                   *)
LEMMA ServiceWrites ==
    ASSUME SecretsInv,
           \/ Start \/ Crash \/ Launch \/ DieWhileRendering
           \/ \E value \in {0, 1} : SetSipPartly(value)
    PROVE  \/ UNCHANGED secretsVars /\ (running' => migration = None)
           \/ running /\ Renderable /\ Render
BY DEF Start, Crash, Launch, DieWhileRendering, SetSipPartly, Change, SecretsInv
----------------------------------------------------------------------------
SecretsIInv == SecretsTypeOK /\ SecretsInv /\ BackupInv /\ ResultInv

(* A launch gives pppd the store to read, in the one place it reads.       *)
LEMMA RenderKeeps ==
    ASSUME SecretsIInv, Render, running, Renderable, store \in Users
    PROVE  SecretsIInv'
<1> USE DEF SecretsIInv, SecretsTypeOK
<1>1. store \in Content
  BY DEF Renderable, Users, Content
<1>2. migration = None /\ UNCHANGED <<backup, migration, result, original>>
  BY DEF SecretsInv, Render
<1>3. SecretsTypeOK'
  BY <1>1, <1>2 DEF Render
<1>4. SecretsInv'
  BY <1>1, <1>2, CredentialsAssumption DEF SecretsInv, Render, Reads
<1>5. BackupInv'
  BY <1>2 DEF BackupInv, RollbackKept
<1>6. ResultInv'
  BY <1>1, <1>2, CredentialsAssumption DEF ResultInv, SecretsInv, Plain, Render, Reads
<1>. QED
  BY <1>3, <1>4, <1>5, <1>6

(* Wherever the script is, and wherever it dies.                           *)
LEMMA MigrateKeeps ==
    ASSUME SecretsIInv, Migrate
    PROVE  SecretsIInv' /\ UNCHANGED configVars
<1> USE CredentialsAssumption DEF configVars, SecretsIInv, SecretsTypeOK, Steps, NextOf, Proceed, At, End
<1>1. CASE Check
  <2> DEFINE data == IF source = None THEN NoUsers ELSE source
  <2>1. NoUsers \in Content
    BY DEF NoUsers, Content
  <2>2. Plain => data \in Content /\ data = Reads
    BY <2>1 DEF Plain, Reads
  <2>3. source = Link => target # None
    BY DEF SecretsInv, Reads
  <2>4. /\ ~running /\ migration = None
        /\ UNCHANGED <<configVars, source, target, backup, lastWritten, original, rewritten>>
    BY <1>1 DEF Check
  <2>5. CASE source \in {Link, Foreign} /\ migration' = None
             /\ result' = IF source = Link /\ target # None THEN "done" ELSE "unexpected link"
    BY <2>3, <2>4, <2>5 DEF SecretsInv, BackupInv, RollbackKept, ResultInv, Plain, Reads
  <2>6. CASE Plain /\ Conflicts(data) /\ migration' = None /\ result' = "conflict"
    BY <2>2, <2>4, <2>6 DEF SecretsInv, BackupInv, RollbackKept, ResultInv, Plain, Reads, Conflicts
  <2>7. CASE Plain /\ migration' = [step |-> "backup", data |-> data] /\ result' = "begun"
    <3>1. SecretsTypeOK' /\ SecretsInv'
      BY <2>2, <2>4, <2>7 DEF SecretsInv, Plain, Reads
    <3>2. BackupInv'
      BY <2>4 DEF BackupInv, RollbackKept
    <3>3. result' # "conflict" /\ result' # "unexpected link"
      BY <2>7
    <3>. QED
      BY <2>4, <3>1, <3>2, <3>3 DEF ResultInv, Plain, Reads
  <2>. QED
    BY <1>1, <2>4, <2>5, <2>6, <2>7 DEF Check, Plain
<1>2. CASE SkipCopy
  BY <1>2 DEF SkipCopy, SecretsInv, BackupInv, RollbackKept, ResultInv, Plain, Reads
<1>3. CASE OpenCopy
  BY <1>3 DEF OpenCopy, NeedsCopy, SecretsInv, BackupInv, RollbackKept, ResultInv, Plain, Reads
<1>4. CASE FillCopy
  BY <1>4 DEF FillCopy, SecretsInv, BackupInv, RollbackKept, ResultInv, Plain, Reads
<1>5. CASE ReplaceTarget
  BY <1>5 DEF ReplaceTarget, SecretsInv, BackupInv, RollbackKept, ResultInv, Plain, Reads
<1>6. CASE ReplaceLink
  BY <1>6 DEF ReplaceLink, SecretsInv, BackupInv, RollbackKept, ResultInv, Plain, Reads
<1>7. CASE Finish
  BY <1>7 DEF Finish, SecretsInv, BackupInv, RollbackKept, ResultInv, Plain, Reads
<1>8. CASE ScriptDies
  BY <1>8 DEF ScriptDies, SecretsInv, BackupInv, RollbackKept, ResultInv, Plain, Reads
<1>. QED
  BY <1>1, <1>2, <1>3, <1>4, <1>5, <1>6, <1>7, <1>8 DEF Migrate
----------------------------------------------------------------------------
LEMMA CredentialsStart == Init => IInv
<1> SUFFICES ASSUME Init PROVE IInv
  OBVIOUS
<1> USE CredentialsAssumption DEF Init
<1>1. NoUsers \in Content /\ NoUsers \in Users /\ [Names -> Passwords] \subseteq Content
  BY DEF NoUsers, Content, Users
<1>2. ConfigTypeOK /\ ConfigInv
  <2>1. Stored = Seed /\ disk # Torn
    BY DEF Stored, Configs
  <2>2. \A field \in Fields : Settled(field)
    BY <2>1 DEF Settled
  <2>3. ConfigTypeOK
    <3>1. disk \in Configs \cup {None, Torn} /\ memory \in Configs
      OBVIOUS
    <3>2. store \in Users /\ dirty \subseteq Fields
      BY <1>1
    <3>3. running \in BOOLEAN /\ launched \in BOOLEAN
      OBVIOUS
    <3>4. changes \in 0 .. MaxChanges
      OBVIOUS
    <3>. QED
      BY <3>1, <3>2, <3>3, <3>4 DEF ConfigTypeOK
  <2>4. ConfigInv
    BY <2>1, <2>2 DEF ConfigInv, AckedIsApplied
  <2>. QED
    BY <2>3, <2>4
<1>3. SecretsTypeOK /\ SecretsInv
  BY <1>1 DEF SecretsTypeOK, SecretsInv, Reads
<1>4. BackupInv /\ ResultInv
  BY DEF BackupInv, RollbackKept, ResultInv
<1>. QED
  BY <1>2, <1>3, <1>4 DEF IInv, TypeOK

LEMMA CredentialsStep == IInv /\ [Next]_vars => IInv'
<1> SUFFICES ASSUME IInv, [Next]_vars PROVE IInv'
  OBVIOUS
<1>1. ConfigTypeOK /\ ConfigInv /\ SecretsIInv
  BY DEF IInv, TypeOK, SecretsIInv
<1>2. ASSUME UNCHANGED secretsVars, running' => migration = None PROVE SecretsIInv'
  BY <1>1, <1>2 DEF secretsVars, SecretsIInv, SecretsTypeOK, SecretsInv, BackupInv, RollbackKept,
                    ResultInv, Plain, Reads
<1>3. ASSUME UNCHANGED configVars PROVE ConfigTypeOK' /\ ConfigInv'
  <2>1. ASSUME NEW field PROVE Settled(field) => Settled(field)'
    BY <1>3 DEF configVars, Settled, Stored
  <2>. QED
    BY <1>1, <1>3, <2>1 DEF configVars, ConfigTypeOK, ConfigInv, AckedIsApplied
<1>4. ConfigTypeOK' /\ ConfigInv' /\ SecretsIInv'
  <2>1. CASE \/ \E name \in Names : RemoveUser(name) \/ \E password \in Passwords : AddUser(name, password)
             \/ \E n \in 0 .. MaxCap : SetMaxSessions(n)
             \/ \E value \in {0, 1} : SetSip(value)
    <3>1. ConfigTypeOK' /\ ConfigInv' /\ running /\ UNCHANGED secretsVars
      BY <1>1, <2>1, ChangeSettles
    <3>. QED
      BY <1>1, <1>2, <3>1 DEF SecretsIInv, SecretsInv
  <2>2. CASE \/ Start \/ Crash \/ Launch \/ DieWhileRendering
             \/ \E value \in {0, 1} : SetSipPartly(value)
    <3>1. ConfigTypeOK' /\ ConfigInv'
      BY <1>1, <2>2, ServiceSettles
    <3>2. \/ UNCHANGED secretsVars /\ (running' => migration = None)
          \/ running /\ Renderable /\ Render
      BY <1>1, <2>2, ServiceWrites DEF SecretsIInv
    <3>3. ASSUME running, Renderable, Render PROVE SecretsIInv'
      BY <1>1, <3>3, RenderKeeps DEF ConfigTypeOK
    <3>. QED
      BY <1>2, <3>1, <3>2, <3>3
  <2>3. CASE Migrate
    BY <1>1, <1>3, <2>3, MigrateKeeps
  <2>4. CASE UNCHANGED vars
    BY <1>1, <1>2, <1>3, <2>4 DEF vars, configVars, SecretsIInv, SecretsInv
  <2>. QED
    BY <2>1, <2>2, <2>3, <2>4 DEF Next
<1>. QED
  BY <1>4 DEF IInv, TypeOK, SecretsIInv

THEOREM CredentialsInvariant == Spec => []IInv
  BY CredentialsStart, CredentialsStep, PTL DEF Spec

(* Configuration, secrets and migration keep their types.                  *)
THEOREM CredentialsTypes == Spec => []TypeOK
<1>1. IInv => TypeOK
  BY DEF IInv
<1>. QED
  BY <1>1, CredentialsInvariant, PTL

(* What the operator was told of a setting is what is on disk, however     *)
(* many saves failed and wherever the service died, and the users he was   *)
(* told of are those the controller admits.                                *)
THEOREM ConfigurationSurvives == Spec => []AckedHolds
<1>1. IInv => AckedHolds
  BY DEF IInv, ConfigInv, Settled, AckedChangesSurvive, AckedHolds
<1>. QED
  BY <1>1, CredentialsInvariant, PTL

(* pppd reads what was last written for it, at every step of the migration *)
(* and wherever it or the service dies; the rollback copy stays what the   *)
(* first migration saved, and the script can be run again unless the       *)
(* operator or the service came in between.                                *)
THEOREM SecretsStayKept == Spec => []SecretsAreKept
<1>1. IInv => SecretsAreKept
  <2>1. IInv => NeverLost
    BY DEF IInv, SecretsInv, NeverLost
  <2>2. IInv => RollbackKept /\ RerunCompletes
    BY DEF IInv, BackupInv, ResultInv, RerunCompletes
  <2>. QED
    BY <2>1, <2>2 DEF SecretsAreKept
<1>. QED
  BY <1>1, CredentialsInvariant, PTL
=============================================================================
