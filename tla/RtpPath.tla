------------------------------ MODULE RtpPath ------------------------------
(***************************************************************************)
(* The RTP stream of RtpCapture on its way: what the network delivers is   *)
(* captured, goes through the continuity filter of the receiving Line      *)
(* (RtpContinuity), and, on the other leg, is forwarded by the PBX to the  *)
(* ATA through the redundancy bridge (RedStream).  Asterisk, which this    *)
(* repository does not contain, forwards each packet as it came, for the   *)
(* ATA's port of the moment.                                               *)
(***************************************************************************)
EXTENDS RtpCapture

CONSTANTS MaxErasure, Registrations, QueueMax, Ports, None

VARIABLES
    previous, restarts, base, handed,                 \* RtpContinuity
    registration, queue, registered, history, wire,   \* RedStream
    delivered  \* packets handed to the modem since the source last changed

Line == INSTANCE RtpContinuity
Red  == INSTANCE RedStream

ASSUME PathAssumption == Line!ContinuityAssumption /\ Red!RedAssumption

lineVars == <<previous, restarts, base, handed, delivered>>
redVars  == <<registration, queue, registered, history, wire>>
pathVars == <<vars, lineVars, redVars>>

PathInit == Init /\ Line!ContinuityInit /\ Red!RedInit /\ delivered = <<>>

Forwarded(n, port) ==
    [n |-> n, seq |-> SeqNo(n), stamp |-> sent[n].stamp, ssrc |-> sent[n].ssrc, port |-> port]

(* The modem gets a packet unless the filter drops it.                     *)
Deliver(n) ==
    delivered' =
        IF Line!LateOrDuplicate(SeqNo(n), sent[n].ssrc) THEN delivered
        ELSE IF Line!SameSource(sent[n].ssrc) THEN Append(delivered, n)
        ELSE <<n>>

Arrive(n, port) ==
    /\ Capture(n)
    /\ Line!Accept(SeqNo(n), sent[n].stamp, sent[n].ssrc)
    /\ Deliver(n)
    /\ Red!Forward(Forwarded(n, port))

SendNext ==
    /\ \/ \E silent \in {0, 1} : Send(silent)
       \/ \E ssrc \in {0, 1} : HandOver(ssrc)
    /\ UNCHANGED <<lineVars, redVars>>

BridgeNext == Red!RedNext /\ UNCHANGED <<vars, lineVars>>

PathNext ==
    \/ SendNext
    \/ \E n \in Packets, port \in Ports : Arrive(n, port)
    \/ BridgeNext

PathSpec == PathInit /\ [][PathNext]_pathVars
----------------------------------------------------------------------------
PathTypeOK == TypeOK /\ Line!ContinuityTypeOK /\ Red!RedTypeOK

(* As long as the source stays the same, the modem of a Line gets each     *)
(* packet at most once and in the order sent, whatever the network does    *)
(* and wherever the sequence numbers wrap around.                          *)
InOrderOnce == \A i \in 1 .. Len(delivered) - 1 : delivered[i] < delivered[i + 1]

(* The modem's clock is the sender's: TimelineKept of RtpContinuity.       *)
TimelineKept == Line!TimelineKept

(* What the modem hears is the stream as it was sent: in order, without    *)
(* repetition, and on the clock of the sender.                             *)
ModemHearsTheStream == InOrderOnce /\ TimelineKept

(* A redundant block is the audio of the packet sent directly before, by   *)
(* the same source and one packet's time earlier, wrapped for the same     *)
(* call: an ATA that plays it for a lost packet plays what was lost.       *)
RedundancyIsPredecessor ==
    wire # None /\ wire.lengths # <<>> =>
        LET n == wire.packet.n
        IN  /\ SubSeq(wire.data, 1, Samples) = Red!Payload(n - 1)
            /\ sent[n - 1].ssrc = sent[n].ssrc
            /\ sent[n].stamp = (sent[n - 1].stamp + Samples) % StampRange
            /\ wire.before = wire.under

(* The audio itself survives the bridge: PrimaryPreserved of RedStream.    *)
PrimaryPreserved == Red!PrimaryPreserved

(* What leaves the bridge is the packet, and the one before it.            *)
RedundancyIsTrue == RedundancyIsPredecessor /\ PrimaryPreserved
=============================================================================
