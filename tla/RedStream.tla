----------------------------- MODULE RedStream -----------------------------
(***************************************************************************)
(* The RTP loop of src/deploy/sipfax_red.py: the packet queue of the       *)
(* kernel, RedEncoder and the packets that leave the PBX, and red_primary  *)
(* of src/research/v90/audit_rtp.py, which reads them.  How a registration *)
(* comes about is the subject of RedBridge; here it changes at any moment. *)
(***************************************************************************)
EXTENDS Naturals, Sequences, SequencesExt

CONSTANTS
    SeqRange, StampRange, Samples,
    Registrations,  \* values of control.registration: a call and a port
    QueueMax,       \* packets the kernel keeps for the bridge
    None

RedAssumption ==
    /\ SeqRange \in Nat \ {0} /\ StampRange \in Nat \ {0} /\ Samples \in Nat \ {0}
    /\ QueueMax \in Nat
    /\ None \notin Registrations

VARIABLES
    registration,  \* control.registration
    queue,         \* packets that await the bridge's verdict
    registered,    \* encoder.registration
    history,       \* encoder.previous: the packet, and the call it was wrapped for
    wire           \* the packet that left last, or None: its blocks, the call it
                   \* was wrapped for and that of its redundant block

red == <<registration, queue, registered, history, wire>>

(* A packet is [n, seq, stamp, ssrc, port]; its payload is told by n.      *)
Payload(n) == [i \in 1 .. Samples |-> n]

RedTypeOK ==
    /\ registration \in Registrations \cup {None}
    /\ Len(queue) <= QueueMax
    /\ registered \in Registrations \cup {None}
    /\ history # None => registered # None
    /\ wire # None => wire.under \in Registrations \cup {None}

RedInit ==
    /\ registration = None
    /\ queue = <<>>
    /\ registered = None
    /\ history = None
    /\ wire = None
----------------------------------------------------------------------------
Unchanged(p) ==
    [packet |-> p, lengths |-> <<>>, data |-> Payload(p.n), under |-> None, before |-> None]

(* A packet for the ATA meets the iptables rule: it is queued, or passes   *)
(* when the queue is full (fail-open).                                     *)
Forward(p) ==
    /\ \/ /\ Len(queue) < QueueMax
          /\ queue' = Append(queue, p)
          /\ UNCHANGED wire
       \/ /\ Len(queue) = QueueMax
          /\ wire' = Unchanged(p)
          /\ UNCHANGED queue
    /\ UNCHANGED <<registration, registered, history>>

Register(value) ==
    /\ registration' = value
    /\ UNCHANGED <<queue, registered, history, wire>>

(* RedEncoder.register, before each packet.                                *)
HistoryKept == history
HistoryNow == IF registration # registered THEN None ELSE history

(* RedEncoder.packet.                                                      *)
IsWrapped(p) == registration # None /\ p.port = registration.port

FollowsBySequence(p) ==
    /\ HistoryNow # None
    /\ HistoryNow.packet.port = p.port /\ HistoryNow.packet.ssrc = p.ssrc
    /\ (p.seq - HistoryNow.packet.seq) % SeqRange = 1

Follows(p) ==
    /\ HistoryNow # None
    /\ HistoryNow.packet.port = p.port /\ HistoryNow.packet.ssrc = p.ssrc
    /\ (p.seq - HistoryNow.packet.seq) % SeqRange = 1
    /\ (p.stamp - HistoryNow.packet.stamp) % StampRange = Samples

(* The block lengths announced, and the redundant block before the primary. *)
BlocksSwapped(p) ==
    IF Follows(p)
    THEN [lengths |-> <<Samples>>, data |-> Payload(p.n) \o Payload(HistoryNow.packet.n)]
    ELSE [lengths |-> <<>>, data |-> Payload(p.n)]

Blocks(p) ==
    IF Follows(p)
    THEN [lengths |-> <<Samples>>, data |-> Payload(HistoryNow.packet.n) \o Payload(p.n)]
    ELSE [lengths |-> <<>>, data |-> Payload(p.n)]

(* The bridge takes the next packet and gives its verdict.                 *)
Encode ==
    /\ queue # <<>>
    /\ LET p == Head(queue)
       IN  IF IsWrapped(p)
           THEN /\ wire' = [packet |-> p,
                            lengths |-> Blocks(p).lengths, data |-> Blocks(p).data,
                            under |-> registration,
                            before |-> IF Follows(p) THEN HistoryNow.under ELSE None]
                /\ history' = [packet |-> p, under |-> registration]
           ELSE wire' = Unchanged(p) /\ history' = HistoryNow
    /\ queue' = Tail(queue)
    /\ registered' = registration
    /\ UNCHANGED registration

(* The bridge dies, and what it had not judged is lost, or it was stopped  *)
(* and started again: it knows of no call.                                 *)
Restart ==
    /\ registration' = None
    /\ queue' = <<>>
    /\ registered' = None
    /\ history' = None
    /\ UNCHANGED wire

RedNext ==
    \/ \E value \in Registrations \cup {None} : Register(value)
    \/ Encode
    \/ Restart
----------------------------------------------------------------------------
(* red_primary: the samples after those the headers announce as redundant. *)
Announced(lengths) == FoldLeft(LAMBDA total, length : total + length, 0, lengths)

RedPrimary(lengths, data) ==
    IF Announced(lengths) < Len(data)
    THEN SubSeq(data, Announced(lengths) + 1, Len(data))
    ELSE None

(* What the capture tool takes for the primary block is the audio of the   *)
(* packet, whether it was wrapped, passed on as it was, or let through.    *)
PrimaryPreserved ==
    wire # None => RedPrimary(wire.lengths, wire.data) = Payload(wire.packet.n)
=============================================================================
