----------------------------- MODULE RedBridge -----------------------------
(***************************************************************************)
(* The processes of src/deploy/sipfax_red.py: the service and its          *)
(* --cleanup runs, which share a lock file, one iptables rule, one packet  *)
(* queue and one control socket; the control thread that answers the       *)
(* --sync clients; and processes that die at any moment.                   *)
(***************************************************************************)
EXTENDS Naturals, Sequences

CONSTANTS Procs, Clients, None

BridgeAssumption == None \notin Procs /\ None \notin Clients

VARIABLES
    at,            \* where each process is
    cleanup,       \* it was started with --cleanup
    flock,         \* holder of the lock file's lock
    rules,         \* copies of the rule in the OUTPUT chain
    overlooked,    \* known to nobody: the last search for it missed one
    socketOf,      \* the process that bound the control socket's path
    nfq,           \* the process bound to packet queue 105
    backlog,       \* clients connected but not yet accepted
    handling,      \* the request the control thread is busy with
    registration,  \* control.registration
    client         \* state of each --sync client

Steps == {"off", "purge", "unlink", "queue", "control", "insert", "serving",
          "bindPurge", "stopPurge", "stopClose", "stopUnlink", "abortPurge", "abortClose",
          "done", "gone"}

(* The socket that BindControl made stays open until Close.                *)
Listening(p) == at[p] \in {"insert", "serving", "stopPurge", "abortPurge", "abortClose"}

BridgeTypeOK ==
    /\ at \in [Procs -> Steps]
    /\ cleanup \in [Procs -> BOOLEAN]
    /\ flock \in Procs \cup {None}
    /\ rules \in Nat /\ overlooked \in BOOLEAN
    /\ socketOf \in Procs \cup {None}
    /\ nfq \in Procs \cup {None}
    /\ backlog \in [Procs -> Seq(Clients)]
    /\ \A p \in Procs :
          /\ handling[p].stage \in {"none", "query", "assign", "reply"}
          /\ \A i \in DOMAIN backlog[p] : handling[p].client # backlog[p][i]
    /\ client \in [Clients -> {"idle", "waiting", "ACTIVE", "IDLE", "failed", "gone"}]

NoRequest == [stage |-> "none", client |-> None, value |-> None]

BridgeInit ==
    /\ at = [p \in Procs |-> "off"]
    /\ cleanup = [p \in Procs |-> FALSE]
    /\ flock = None
    /\ rules = 0 /\ overlooked = FALSE
    /\ socketOf = None
    /\ nfq = None
    /\ backlog = [p \in Procs |-> <<>>]
    /\ handling = [p \in Procs |-> NoRequest]
    /\ registration = [p \in Procs |-> None]
    /\ client = [k \in Clients |-> "idle"]
----------------------------------------------------------------------------
processes == <<at, cleanup, flock, rules, overlooked, socketOf, nfq>>
control   == <<backlog, handling, registration, client>>

Goes(p, to) == at' = [at EXCEPT ![p] = to]

(* serve: the lock is taken at once or the process ends.                   *)
NeedsLockToServe(cleans) == ~cleans
NeedsLock(cleans) == TRUE

Start(p, cleans) ==
    /\ at[p] = "off"
    /\ cleanup' = [cleanup EXCEPT ![p] = cleans]
    /\ IF NeedsLock(cleans)
       THEN IF flock = None
            THEN Goes(p, "purge") /\ flock' = p
            ELSE Goes(p, "gone") /\ UNCHANGED flock
       ELSE Goes(p, "purge") /\ UNCHANGED flock
    /\ UNCHANGED <<rules, overlooked, socketOf, nfq, control>>

(* The process ends, and the kernel closes what it had open; clients that  *)
(* wait for it see their connection closed.                                *)
Waits(p) == {backlog[p][i] : i \in DOMAIN backlog[p]} \cup {handling[p].client}

LetDown(ks) ==
    client' = [k \in Clients |->
                  IF k \in ks /\ client[k] = "waiting" THEN "failed" ELSE client[k]]

Exit(p) ==
    /\ Goes(p, "gone")
    /\ flock' = IF flock = p THEN None ELSE flock
    /\ nfq' = IF nfq = p THEN None ELSE nfq
    /\ LetDown(Waits(p))
    /\ backlog' = [backlog EXCEPT ![p] = <<>>]
    /\ handling' = [handling EXCEPT ![p] = NoRequest]
    /\ registration' = [registration EXCEPT ![p] = None]
    /\ cleanup' = [cleanup EXCEPT ![p] = FALSE]

(* remove_rule: iptables -C finds a copy and -D deletes it, again and      *)
(* again.  -C that fails for whatever reason ends the search as if nothing *)
(* were left; -D that fails ends the process at the start, and the rest of *)
(* its finally block at the end.                                           *)
AfterPurge(step) ==
    CASE step = "purge"                    -> "unlink"
      [] step \in {"bindPurge", "stopPurge"} -> "stopClose"
      [] step = "abortPurge"               -> "abortClose"

RemoveRule(p) ==
    /\ at[p] \in {"purge", "bindPurge", "stopPurge", "abortPurge"}
    /\ \/ /\ rules > 0
          /\ rules' = rules - 1
          /\ UNCHANGED <<at, cleanup, flock, overlooked, socketOf, nfq, control>>
       \/ /\ Goes(p, AfterPurge(at[p]))
          /\ overlooked' = (rules > 0)
          /\ UNCHANGED <<cleanup, flock, rules, socketOf, nfq, control>>
       \/ /\ rules > 0
          /\ Exit(p)
          /\ UNCHANGED <<rules, overlooked, socketOf>>

Unlink(p) ==
    /\ at[p] \in {"unlink", "stopUnlink"}
    /\ socketOf' = None
    /\ Goes(p, IF at[p] = "unlink" /\ ~cleanup[p] THEN "queue" ELSE "done")
    /\ UNCHANGED <<cleanup, flock, rules, overlooked, nfq, control>>

(* Queue, Control and the insertion of the rule; what fails is undone.     *)
BindQueue(p) ==
    /\ at[p] = "queue"
    /\ IF nfq = None
       THEN \/ Goes(p, "control") /\ nfq' = p
            \/ Goes(p, "stopPurge") /\ UNCHANGED nfq
       ELSE Goes(p, "stopPurge") /\ UNCHANGED nfq
    /\ UNCHANGED <<cleanup, flock, rules, overlooked, socketOf, control>>

(* The path is bound before its owner and its mode are set, which may fail. *)
BindControl(p) ==
    /\ at[p] = "control"
    /\ IF socketOf = None
       THEN /\ socketOf' = p
            /\ registration' = [registration EXCEPT ![p] = None]
            /\ Goes(p, "insert") \/ Goes(p, "bindPurge")
       ELSE Goes(p, "stopPurge") /\ UNCHANGED <<socketOf, registration>>
    /\ UNCHANGED <<cleanup, flock, rules, overlooked, nfq, backlog, handling, client>>

InsertRule(p) ==
    /\ at[p] = "insert"
    /\ \/ Goes(p, "serving") /\ rules' = rules + 1
       \/ Goes(p, "abortPurge") /\ UNCHANGED rules
    /\ UNCHANGED <<cleanup, flock, overlooked, socketOf, nfq, control>>

(* SIGTERM, or an error in the packet loop.                                *)
Stop(p) ==
    /\ at[p] = "serving"
    /\ Goes(p, "stopPurge")
    /\ UNCHANGED <<cleanup, flock, rules, overlooked, socketOf, nfq, control>>

(* What waits in the backlog is let down; join gives the request in        *)
(* progress its time, but raises when the thread was never started, and    *)
(* then the socket's path stays behind.                                    *)
Close(p) ==
    /\ at[p] = "stopClose"
    /\ Goes(p, "stopUnlink")
    /\ nfq' = IF nfq = p THEN None ELSE nfq
    /\ LetDown({backlog[p][i] : i \in DOMAIN backlog[p]})
    /\ backlog' = [backlog EXCEPT ![p] = <<>>]
    /\ UNCHANGED <<cleanup, flock, rules, overlooked, socketOf, handling, registration>>

Abort(p) ==
    /\ at[p] = "abortClose"
    /\ Exit(p)
    /\ UNCHANGED <<rules, overlooked, socketOf>>

(* A process that is done exits; any other may die.                        *)
Ends(p) ==
    /\ at[p] \notin {"off", "gone"}
    /\ Exit(p)
    /\ UNCHANGED <<rules, overlooked, socketOf>>
----------------------------------------------------------------------------
(* sync: a client connects to the path and waits for three seconds.        *)
Connect(k) ==
    /\ client[k] = "idle"
    /\ IF socketOf # None /\ Listening(socketOf)
       THEN /\ client' = [client EXCEPT ![k] = "waiting"]
            /\ backlog' = [backlog EXCEPT ![socketOf] = Append(@, k)]
       ELSE client' = [client EXCEPT ![k] = "failed"] /\ UNCHANGED backlog
    /\ UNCHANGED <<processes, handling, registration>>

GivesUp(k) ==
    /\ client[k] = "waiting"
    /\ client' = [client EXCEPT ![k] = "failed"]
    /\ UNCHANGED <<processes, backlog, handling, registration>>

(* Whoever ran the client has seen how it ended.                           *)
Seen(k) ==
    /\ client[k] \in {"ACTIVE", "IDLE", "failed"}
    /\ client' = [client EXCEPT ![k] = "gone"]
    /\ UNCHANGED <<processes, backlog, handling, registration>>

(* Control.run: the oldest connection, whose client may be gone, is        *)
(* accepted; the database is read for whatever call is current then.       *)
AnyOfBacklog(p) == DOMAIN backlog[p]
NextOfBacklog(p) == {1} \cap DOMAIN backlog[p]

Without(s, i) == SubSeq(s, 1, i - 1) \o SubSeq(s, i + 1, Len(s))

Accept(p) ==
    /\ at[p] \in {"serving", "stopPurge"} /\ handling[p] = NoRequest
    /\ \E i \in NextOfBacklog(p) :
          /\ handling' = [handling EXCEPT ![p] = [stage |-> "query", client |-> backlog[p][i],
                                                  value |-> None]]
          /\ backlog' = [backlog EXCEPT ![p] = Without(@, i)]
    /\ UNCHANGED <<processes, registration, client>>

Query(p, value) ==
    /\ handling[p].stage = "query"
    /\ handling' = [handling EXCEPT ![p].stage = "assign", ![p].value = value]
    /\ UNCHANGED <<processes, backlog, registration, client>>

AssignedIfActive(p) == IF handling[p].value = None THEN registration[p] ELSE handling[p].value
Assigned(p) == handling[p].value

Assign(p) ==
    /\ handling[p].stage = "assign"
    /\ registration' = [registration EXCEPT ![p] = Assigned(p)]
    /\ handling' = [handling EXCEPT ![p].stage = "reply"]
    /\ UNCHANGED <<processes, backlog, client>>

(* A client that is gone makes sendall fail, which ends the registration.  *)
Reply(p) ==
    /\ handling[p].stage = "reply"
    /\ LET k == handling[p].client
       IN  IF client[k] = "waiting"
           THEN /\ client' = [client EXCEPT ![k] =
                                 IF handling[p].value = None THEN "IDLE" ELSE "ACTIVE"]
                /\ UNCHANGED registration
           ELSE registration' = [registration EXCEPT ![p] = None] /\ UNCHANGED client
    /\ handling' = [handling EXCEPT ![p] = NoRequest]
    /\ UNCHANGED <<processes, backlog>>

(* The database command fails or takes longer than a second.               *)
QueryFails(p) ==
    /\ handling[p].stage = "query"
    /\ client' = [client EXCEPT ![handling[p].client] = IF @ = "waiting" THEN "failed" ELSE @]
    /\ registration' = [registration EXCEPT ![p] = None]
    /\ handling' = [handling EXCEPT ![p] = NoRequest]
    /\ UNCHANGED <<processes, backlog>>

ControlNext(p) == Accept(p) \/ Assign(p) \/ Reply(p) \/ QueryFails(p)

ProcessNext(p) ==
    \/ RemoveRule(p) \/ Unlink(p) \/ BindQueue(p) \/ BindControl(p)
    \/ InsertRule(p) \/ Stop(p) \/ Close(p) \/ Abort(p) \/ Ends(p)
----------------------------------------------------------------------------
(* While a bridge serves, socket and queue are its own and the rule is     *)
(* there, whoever starts or cleans up besides it; and it is there once,    *)
(* unless iptables hid an old copy from the search at the start.           *)
ServingIsIntact ==
    \A p \in Procs :
        at[p] = "serving" =>
            /\ socketOf = p /\ nfq = p /\ flock = p
            /\ rules >= 1
            /\ rules = 1 \/ overlooked

(* A process that comes to its end, as the service or to clean up, leaves  *)
(* neither a rule nor a socket behind, its own or those of one that died   *)
(* before, unless iptables hid a rule from its last search.                *)
CleanEnd ==
    \A p \in Procs : at[p] = "done" => socketOf = None /\ (rules = 0 \/ overlooked)
=============================================================================
