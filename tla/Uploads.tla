------------------------------- MODULE Uploads -------------------------------
(***************************************************************************)
(* Bulk uploads through a PPP call: the receiving server                   *)
(* (src/tools/ppp-upload-fixture.py), a thread for each request, and the   *)
(* audit that compares its records with what the client noted              *)
(* (src/tools/audit-ppp-upload.py).  The client is not part of this        *)
(* repository; it notes how an upload went for it, and may try again under *)
(* the same attempt.  A payload is told by how many of its pieces arrived, *)
(* and whether all of them as they should be.                              *)
(***************************************************************************)
EXTENDS Naturals, Sequences, FiniteSets, SequencesExt

CONSTANTS
    Requests,   \* uploads; each is used once
    Attempts,   \* names the client gives them
    MaxUpload,  \* pieces of the largest upload the server accepts
    MaxErrors,  \* bound on errors of the modem link
    Missing     \* what an upload does not have, or not yet

VARIABLES
    request,  \* [attempt, size, received, intact, at, record] of each, or Missing
    records,  \* the server's records, oldest first
    probe,    \* what the client noted of each upload, or Missing
    errors    \* errors the client's modem has counted

uploadVars == <<request, records, probe, errors>>

Statuses == {200, 400, 422}
Records  ==
    [attempt : Attempts, status : Statuses, received : Nat \cup {Missing}, of : Requests]
Posted   == [attempt : Attempts, size : Nat, received : Nat, intact : BOOLEAN,
             at : {"reading", "record", "reply", "done"}, record : Records \cup {Missing}]
Notes    == [attempt : Attempts, size : Nat, complete : BOOLEAN,
             status : Statuses \cup {Missing}, errors : Nat]

ASSUME UploadsAssumption ==
    /\ MaxUpload \in Nat /\ MaxErrors \in Nat
    /\ Missing \notin Posted /\ Missing \notin Notes

UploadsTypeOK ==
    /\ request \in [Requests -> Posted \cup {Missing}]
    /\ records \in Seq(Records)
    /\ probe \in [Requests -> Notes \cup {Missing}]
    /\ errors \in 0 .. MaxErrors

UploadsInit ==
    /\ request = [r \in Requests |-> Missing] /\ probe = [r \in Requests |-> Missing]
    /\ records = <<>> /\ errors = 0

Post(r, attempt, size) ==
    /\ request[r] = Missing
    /\ request' = [request EXCEPT ![r] =
          [attempt |-> attempt, size |-> size, received |-> 0, intact |-> TRUE,
           at |-> "reading", record |-> Missing]]
    /\ UNCHANGED <<records, probe, errors>>

(* A damaged PPP frame is lost and sent again: the modem counts it.        *)
LinkError ==
    errors < MaxErrors /\ errors' = errors + 1 /\ UNCHANGED <<request, records, probe>>

At(r, where) == request[r] # Missing /\ request[r].at = where

Acceptable(size) == size \in 1 .. MaxUpload

(* receive_body: pieces are read until the length is reached.              *)
ReadPiece(r, asItShould) ==
    /\ At(r, "reading") /\ Acceptable(request[r].size) /\ request[r].received < request[r].size
    /\ request' = [request EXCEPT ![r].received = @ + 1, ![r].intact = @ /\ asItShould]
    /\ UNCHANGED <<records, probe, errors>>

Refused(r) == [attempt |-> request[r].attempt, status |-> 400, received |-> Missing, of |-> r]

Accepted(r) ==
    [attempt |-> request[r].attempt, status |-> IF request[r].intact THEN 200 ELSE 422,
     received |-> request[r].received, of |-> r]

(* do_POST: the record is on disk, written under a lock, before the reply  *)
(* goes out.                                                               *)
ReplyFirst == <<"reply", "record">>
Steps == <<"record", "reply">>
After(step) == IF step = Steps[1] THEN Steps[2] ELSE "done"

Judge(r, record) ==
    /\ request' = [request EXCEPT ![r].at = Steps[1], ![r].record = record]
    /\ UNCHANGED <<records, errors>>

BodyRead(r) ==
    /\ At(r, "reading") /\ Acceptable(request[r].size) /\ request[r].received = request[r].size
    /\ Judge(r, Accepted(r)) /\ UNCHANGED probe

LengthRefused(r) ==
    /\ At(r, "reading") /\ ~Acceptable(request[r].size)
    /\ Judge(r, Refused(r)) /\ UNCHANGED probe

(* The connection ends or times out in the middle of the body; the client *)
(* notes that the upload was not completed.                                *)
Noted(r, complete, status) ==
    [probe EXCEPT ![r] = [attempt |-> request[r].attempt, size |-> request[r].size,
                          complete |-> complete, status |-> status, errors |-> errors]]

BodyEnds(r) ==
    /\ At(r, "reading")
    /\ Judge(r, Refused(r)) /\ probe' = Noted(r, FALSE, Missing)

WriteRecord(r) ==
    /\ At(r, "record")
    /\ records' = Append(records, request[r].record)
    /\ request' = [request EXCEPT ![r].at = After(@)]
    /\ UNCHANGED <<probe, errors>>

(* The reply reaches the client, or the connection is gone by then and the *)
(* client notes what it has.                                               *)
Reply(r, arrives) ==
    /\ At(r, "reply")
    /\ request' = [request EXCEPT ![r].at = After(@)]
    /\ probe' = IF probe[r] # Missing THEN probe
                ELSE Noted(r, arrives, IF arrives THEN request[r].record.status ELSE Missing)
    /\ UNCHANGED <<records, errors>>

UploadsNext ==
    \/ \E r \in Requests :
          \/ \E attempt \in Attempts, size \in 0 .. MaxUpload + 1 : Post(r, attempt, size)
          \/ \E asItShould \in BOOLEAN : ReadPiece(r, asItShould)
          \/ BodyRead(r) \/ LengthRefused(r) \/ BodyEnds(r)
          \/ WriteRecord(r)
          \/ \E arrives \in BOOLEAN : Reply(r, arrives)
    \/ LinkError

UploadsSpec == UploadsInit /\ [][UploadsNext]_uploadVars
----------------------------------------------------------------------------
(* audit: the client's note of upload r, against the records so far.       *)
Matching(attempt) == {n \in DOMAIN records : records[n].attempt = attempt}

SomeMatch(matching) == matching # {}
OneMatches(matching) == Cardinality(matching) = 1

PayloadVerified(r) ==
    /\ probe[r] # Missing
    /\ probe[r].complete /\ probe[r].status = 200 /\ probe[r].errors = 0
    /\ OneMatches(Matching(probe[r].attempt))
    /\ \A n \in Matching(probe[r].attempt) :
          records[n].status = 200 /\ records[n].received = probe[r].size

(* What the audit verifies is this very upload, and it came through whole: *)
(* all of its pieces reached the server as they should be, and the client  *)
(* was told so, over a link without an error until then.                   *)
VerifiedIsTrue ==
    \A r \in Requests : PayloadVerified(r) =>
        /\ request[r].received = request[r].size /\ request[r].intact
        /\ \A n \in Matching(probe[r].attempt) : records[n].of = r

(* An upload that came through whole is verified, from the moment its      *)
(* client knows, as long as its attempt is used for no other and the link  *)
(* had no error before.                                                    *)
HonestVerifies ==
    \A r \in Requests :
        /\ probe[r] # Missing /\ probe[r].complete /\ probe[r].status = 200
        /\ probe[r].errors = 0
        /\ \A other \in Requests \ {r} :
              request[other] = Missing \/ request[other].attempt # request[r].attempt
        => PayloadVerified(r)

(* The audit verifies what came through whole, and nothing else.           *)
VerifiesExactly == VerifiedIsTrue /\ HonestVerifies
=============================================================================
