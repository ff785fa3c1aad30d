----------------------------- MODULE RtpCapture -----------------------------
(***************************************************************************)
(* One RTP stream through a network that loses, repeats and reorders       *)
(* packets, and what the capture tools report about it: update_stats and   *)
(* stats_to_json of src/artifacts/lkma-193a/pcap_to_wav.py, and report of  *)
(* src/research/v90/audit_rtp.py.                                          *)
(*                                                                         *)
(* A packet is the index n under which it was sent; its sequence number,   *)
(* its timestamp and its SSRC follow from n and the history of the sender. *)
(***************************************************************************)
EXTENDS Naturals, Sequences, FiniteSets, SequencesExt

CONSTANTS
    SeqRange,    \* sequence numbers, 2^16
    StampRange,  \* timestamps, 2^32
    Samples,   \* samples of a packet, 160
    First,     \* sequence number of packet 0
    Late,      \* a packet is overtaken by fewer than this many
    Burst,     \* at most this many minus one are missing before a packet
    MaxSent,   \* bound on the packets sent
    MaxSeen    \* bound on the packets captured

ASSUME ModuliAssumption ==
    /\ SeqRange \in Nat /\ SeqRange > 1
    /\ StampRange \in Nat
    /\ Samples \in Nat /\ 0 < Samples /\ 2 * Samples < StampRange
    /\ First \in 0 .. SeqRange - 1

(* Sequence numbers tell late packets from early ones only if neither      *)
(* delays nor losses reach half their range.                               *)
ASSUME WindowAssumption ==
    /\ Late \in Nat /\ Burst \in Nat
    /\ 2 * (Burst + Late) <= SeqRange
    /\ 2 * (Late + 1) <= SeqRange

VARIABLES
    sent,             \* sent[n]: timestamp and SSRC of packet n
    seen,             \* the captured packets, in order of arrival
    packetCount, expectedPackets, outOfOrder,  \* StreamStats
    gaps,             \* StreamStats.gaps: packets missing at each gap
    lastSequence      \* StreamStats.last_sequence

stats == <<packetCount, expectedPackets, outOfOrder, gaps, lastSequence>>
vars  == <<sent, seen, stats>>

Packets == DOMAIN sent
Heard   == Range(seen)

TypeOK ==
    /\ sent \in Seq([stamp : 0 .. StampRange - 1, ssrc : {0, 1}])
    /\ seen \in Seq(Packets)
    /\ packetCount \in Nat
    /\ expectedPackets \in Nat
    /\ outOfOrder \in Nat
    /\ gaps \in Seq(Nat)
    /\ lastSequence \in 0 .. SeqRange - 1

SeqNo(n) == (First + n) % SeqRange

Init ==
    /\ sent = <<>>
    /\ seen = <<>>
    /\ packetCount = 0
    /\ expectedPackets = 0
    /\ outOfOrder = 0
    /\ gaps = <<>>
    /\ lastSequence = 0
----------------------------------------------------------------------------
(* The sender goes on with its clock, after silence it did not send, or    *)
(* hands the stream over: the clock starts again, the SSRC may change, the *)
(* sequence numbers go on.  It sends all its packets before the first      *)
(* arrives: what is sent later changes nothing that is captured before.    *)
SendPacket(stamp, ssrc) ==
    /\ Len(sent) < MaxSent /\ seen = <<>>
    /\ sent' = Append(sent, [stamp |-> stamp % StampRange, ssrc |-> ssrc])
    /\ UNCHANGED <<seen, stats>>

Send(silent) ==
    IF sent = <<>> THEN SendPacket(0, 0)
    ELSE SendPacket(Last(sent).stamp + (1 + silent) * Samples, Last(sent).ssrc)

HandOver(ssrc) == sent # <<>> /\ ssrc >= Last(sent).ssrc /\ SendPacket(0, ssrc)
----------------------------------------------------------------------------
Newest == Max(Heard)

(* What the network may deliver next: a packet that is not too late and    *)
(* not too far ahead, or a second copy of one.                             *)
Arrives(n) ==
    /\ n \in Packets
    /\ Len(seen) < MaxSeen
    /\ seen # <<>> => Newest - Late <= n /\ n <= Newest + Burst
    /\ Cardinality({i \in DOMAIN seen : seen[i] = n}) < 2

(* update_stats: by how much the sequence number exceeds the expected one, *)
(* modulo 2^16; the upper half of the range means late or repeated.        *)
DistanceOfLast(n) == (SeqNo(n) - lastSequence) % SeqRange

Distance(n) == (SeqNo(n) - (lastSequence + 1)) % SeqRange

Behind(n) == 2 * Distance(n) >= SeqRange

(* A packet that is late or a copy is expected once more: if it had been   *)
(* counted as lost, that stays, and the next one counts it again.          *)
LateNotExpected == expectedPackets
LateExpected == expectedPackets + 1

UpdateStats(n) ==
    /\ packetCount' = packetCount + 1
    /\ lastSequence' = SeqNo(n)
    /\ IF packetCount = 0
       THEN expectedPackets' = 1 /\ UNCHANGED <<gaps, outOfOrder>>
       ELSE \/ /\ Behind(n)
               /\ outOfOrder' = outOfOrder + 1
               /\ expectedPackets' = LateExpected
               /\ UNCHANGED gaps
            \/ /\ ~Behind(n)
               /\ gaps' = IF Distance(n) > 0 THEN Append(gaps, Distance(n)) ELSE gaps
               /\ expectedPackets' = expectedPackets + Distance(n) + 1
               /\ UNCHANGED outOfOrder

Capture(n) ==
    /\ Arrives(n)
    /\ seen' = Append(seen, n)
    /\ UpdateStats(n)
    /\ UNCHANGED sent

Next ==
    \/ \E silent \in {0, 1} : Send(silent)
    \/ \E ssrc \in {0, 1} : HandOver(ssrc)
    \/ \E n \in Packets : Capture(n)

Spec == Init /\ [][Next]_vars
----------------------------------------------------------------------------
(* stats_to_json.                                                          *)
LostPackets ==
    IF expectedPackets > packetCount THEN expectedPackets - packetCount ELSE 0

(* report of audit_rtp: a flow is what has one SSRC, told by the positions *)
(* of its packets; each is compared with the one captured before it.       *)
Flow(ssrc) == {i \in DOMAIN seen : sent[seen[i]].ssrc = ssrc}

Hops(flow) ==
    {h \in flow \X flow : h[1] < h[2] /\ \A i \in flow : i <= h[1] \/ h[2] <= i}

StepOf(h) == (SeqNo(seen[h[2]]) - SeqNo(seen[h[1]])) % SeqRange

StepsBack(flow) == {h \in Hops(flow) : 2 * StepOf(h) >= SeqRange}

SequenceAnomalies(flow) == {h \in Hops(flow) : StepOf(h) # 1}

SequenceWraps(flow) ==
    {h \in Hops(flow) : StepOf(h) = 1 /\ SeqNo(seen[h[2]]) < SeqNo(seen[h[1]])}

TimestampAnomalies(flow) ==
    {h \in Hops(flow) :
        (sent[seen[h[2]]].stamp - sent[seen[h[1]]].stamp) % StampRange # Samples}
----------------------------------------------------------------------------
(* The packets that never arrived between the first captured one and the   *)
(* newest.                                                                 *)
TrulyMissing == {n \in seen[1] .. Newest : n \notin Heard}

(* However packets are lost, repeated and reordered, across wrap-around,   *)
(* the loss pcap_to_wav reports is never below the true one.               *)
LossNeverUnderreported ==
    seen # <<>> => LostPackets >= Cardinality(TrulyMissing)

(* When it reports no packet out of order, the loss is the true one.       *)
LossExact ==
    seen # <<>> /\ outOfOrder = 0 => LostPackets = Cardinality(TrulyMissing)

(* What pcap_to_wav reports as lost is not too little, and exact if it     *)
(* reports that nothing came out of order.                                 *)
LossIsReported == LossNeverUnderreported /\ LossExact

(* A flow in which audit_rtp finds no anomaly lost, repeated and reordered *)
(* nothing, had one clock throughout, and wrapped as often as it says.     *)
CleanAuditIsTrue ==
    \A ssrc \in {0, 1} :
        LET flow == Flow(ssrc)
        IN  SequenceAnomalies(flow) = {} /\ TimestampAnomalies(flow) = {} =>
                /\ \A h \in Hops(flow) : seen[h[2]] = seen[h[1]] + 1
                /\ \A i, j \in flow : (\A k \in flow : i <= k /\ k <= j) =>
                      LET first == seen[i]
                          last  == seen[j]
                      IN  /\ last = first + Cardinality(flow) - 1
                          /\ sent[last].stamp =
                                 (sent[first].stamp + (last - first) * Samples) % StampRange
                          /\ Cardinality(SequenceWraps(flow)) =
                                 (First + last) \div SeqRange - (First + first) \div SeqRange
=============================================================================
