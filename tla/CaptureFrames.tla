---------------------------- MODULE CaptureFrames ----------------------------
(***************************************************************************)
(* Where readers find the audio in a captured frame: pcap_to_wav           *)
(* (src/artifacts/lkma-193a/pcap_to_wav.py), audit_rtp                     *)
(* (src/research/v90/audit_rtp.py), pcap_util                              *)
(* (src/research/v34-rx/pcap_util.py) and the service itself               *)
(* (parseRtpPacket of src/src/media.js), which gets the datagram from the  *)
(* kernel; where audit_rtcp looks for receiver reports; and how much of a  *)
(* capture file the tools read while it is being copied.                   *)
(*                                                                         *)
(* A frame is told by what its header fields say; a reader looks for each  *)
(* where the fields before it lead.  Places are counted in bytes from the  *)
(* start of the frame; a range is <<first, end>>, the end not included.    *)
(***************************************************************************)
EXTENDS Integers, Sequences, FiniteSets, SequencesExt

CONSTANTS
    Wellformed,  \* the frames that are sent
    Damage,      \* [field -> values] that bytes of a frame may take
    MaxDamage,   \* fields of one frame that are not as they should be
    RecordSizes, \* bytes captured of each frame in the file
    Nothing

(* What the fields of a frame may say, damaged or not.                     *)
FieldValues ==
    [link |-> {1, 113, 276}, vlan |-> BOOLEAN, ipv4 |-> BOOLEAN, version |-> Nat, ihl |-> Nat,
     protocol |-> Nat, fragment |-> BOOLEAN, total |-> Nat, udpLength |-> Nat,
     rtpVersion |-> Nat, type |-> Nat, sources |-> Nat, extension |-> BOOLEAN,
     extensionWords |-> Nat, padding |-> BOOLEAN, padLength |-> Nat, captured |-> Nat]

IsFrame(f) ==
    DOMAIN f = DOMAIN FieldValues /\ \A field \in DOMAIN f : f[field] \in FieldValues[field]

FrameConstants ==
    /\ \A f \in Wellformed : IsFrame(f)
    /\ \A field \in DOMAIN Damage :
          field \in DOMAIN FieldValues /\ Damage[field] \subseteq FieldValues[field]
    /\ RecordSizes \in Seq(Nat)
    /\ Nothing \notin Nat /\ Nothing \notin Nat \X Nat

VARIABLES
    frame,    \* the frame, or Nothing when it is about the file
    damaged,  \* its fields that are not as they were sent
    copied    \* bytes of the capture file that have been copied

FramesTypeOK ==
    /\ damaged \subseteq DOMAIN Damage
    /\ copied \in Nat

FramesInit == frame \in Wellformed \cup {Nothing} /\ damaged = {} /\ copied = 0

DamageField(field) ==
    /\ Cardinality(damaged) < MaxDamage /\ field \notin damaged
    /\ \E value \in Damage[field] \ {frame[field]} :
          frame' = [frame EXCEPT ![field] = value]
    /\ damaged' = damaged \cup {field}
    /\ UNCHANGED copied
----------------------------------------------------------------------------
(* pcap_to_wav: ipv4_offset, parse_udp_ipv4, parse_rtp.                    *)
Ihl(f) == 4 * f.ihl

EthernetOffset(f) == IF f.vlan THEN 18 ELSE 14

Ipv4Offset(f) ==
    CASE f.link = 1   -> EthernetOffset(f)
      [] f.link = 113 -> 16
      [] OTHER        -> Nothing

(* A tag is looked behind only in a frame long enough to have something    *)
(* there.                                                                  *)
HasIpv4(f) == f.ipv4 /\ Ipv4Offset(f) # Nothing /\ f.captured >= Ipv4Offset(f)

Lesser(a, b) == IF a < b THEN a ELSE b

EndOfFrame(f) == f.captured
EndOfIp(f) == IF f.total = 0 THEN f.captured ELSE Lesser(Ipv4Offset(f) + f.total, f.captured)

ParseUdp(f) ==
    LET ip  == Ipv4Offset(f)
        udp == ip + Ihl(f)
    IN  IF /\ HasIpv4(f) /\ f.captured >= ip + 20
           /\ f.version = 4 /\ f.ihl >= 5 /\ f.captured >= udp + 8
           /\ f.protocol = 17
        THEN <<udp + 8, Lesser(udp + f.udpLength, EndOfIp(f))>>
        ELSE Nothing

(* What the RTP header announces: sources, then an extension.              *)
ExtensionAt(f, range) == range[1] + 12 + 4 * f.sources

HeaderEnd(f, range) ==
    ExtensionAt(f, range) + IF f.extension THEN 4 + 4 * f.extensionWords ELSE 0

HasHeader(f, range) ==
    /\ range[1] + 12 <= range[2]
    /\ f.rtpVersion = 2
    /\ f.extension => ExtensionAt(f, range) + 4 <= range[2]
    /\ HeaderEnd(f, range) <= range[2]

WithoutPadding(f, range) ==
    IF ~f.padding THEN range
    ELSE IF f.padLength \in 1 .. range[2] - range[1]
         THEN <<range[1], range[2] - f.padLength>>
         ELSE Nothing

ParseRtp(f, range) ==
    IF HasHeader(f, range) /\ f.type \in {0, 8}
    THEN LET audio == WithoutPadding(f, <<HeaderEnd(f, range), range[2]>>)
         IN  IF audio # Nothing /\ audio[1] < audio[2] THEN audio ELSE Nothing
    ELSE Nothing

PcapToWav(f) == IF ParseUdp(f) = Nothing THEN Nothing ELSE ParseRtp(f, ParseUdp(f))
----------------------------------------------------------------------------
(* audit_rtp: read_flows, for one frame.                                   *)
AuditOffset(f) == CASE f.link = 1 -> 14 [] f.link = 113 -> 16 [] OTHER -> 20

AuditDatagram(f) ==
    LET ip  == AuditOffset(f)
        udp == ip + Ihl(f)
        end == Lesser(ip + f.total, f.captured)
    IN  IF /\ f.captured >= ip + 20 /\ f.ipv4 /\ (f.link = 1 => ~f.vlan)
           /\ f.version = 4 /\ f.ihl >= 5 /\ f.protocol = 17 /\ ~f.fragment
           /\ end >= udp + 20
        THEN <<udp + 8, Lesser(udp + f.udpLength, end)>>
        ELSE Nothing

Length(range) == range[2] - range[1]
AfterSources(f) == 12 + 4 * f.sources

PaddingMayBeNothing(f, audio) == f.padLength <= audio
PaddingFits(f, audio) == f.padLength # 0 /\ f.padLength <= audio

AuditRtp(f, range) ==
    LET start == AfterSources(f) + IF f.extension THEN 4 + 4 * f.extensionWords ELSE 0
        end   == Length(range) - IF f.padding THEN f.padLength ELSE 0
    IN  IF /\ Length(range) >= 12 /\ f.rtpVersion = 2 /\ f.type \in {0, 8}
           /\ f.extension => Length(range) >= AfterSources(f) + 4
           /\ f.padding => PaddingFits(f, Length(range) - start)
           /\ start <= end
        THEN <<range[1] + start, range[1] + end>>
        ELSE Nothing

AuditFlows(f) == IF AuditDatagram(f) = Nothing THEN Nothing ELSE AuditRtp(f, AuditDatagram(f))

(* pcap_util: flows takes everything behind a header of the least size.    *)
Flows(f) ==
    LET ip  == AuditOffset(f)
        udp == ip + Ihl(f)
    IN  IF /\ f.captured >= ip + 20 /\ f.ipv4 /\ (f.link = 1 => ~f.vlan) /\ f.protocol = 17
           /\ f.captured >= udp + 20
        THEN <<udp + 20, f.captured>>
        ELSE Nothing

(* audit_rtcp: read_reports takes whole datagrams in Ethernet frames.      *)
CutOffTaken(f) == TRUE
IsAllThere(f) == f.total <= f.captured - 14

ReportDatagram(f) ==
    IF /\ f.captured >= 34 /\ f.link = 1 /\ f.ipv4 /\ ~f.vlan
       /\ f.version = 4 /\ f.ihl >= 5 /\ IsAllThere(f) /\ f.total >= Ihl(f) + 8
       /\ f.protocol = 17 /\ ~f.fragment
       /\ f.udpLength \in 8 .. f.total - Ihl(f)
    THEN <<14 + Ihl(f) + 8, 14 + Ihl(f) + f.udpLength>>
    ELSE Nothing

(* parseRtpPacket, for a datagram the kernel has checked; what the header  *)
(* says about padding is not looked at.                                    *)
ExtensionHeaderless(f) == 4 * f.extensionWords
ExtensionSize(f) == 4 + 4 * f.extensionWords

ParseRtpPacket(f, range) ==
    LET header == AfterSources(f) + IF f.extension THEN ExtensionSize(f) ELSE 0
    IN  IF /\ Length(range) >= 12 /\ f.rtpVersion = 2
           /\ Length(range) >= header /\ Length(range) >= AfterSources(f)
           /\ f.extension => Length(range) >= AfterSources(f) + 4
        THEN <<range[1] + header, range[2]>>
        ELSE Nothing
----------------------------------------------------------------------------
(* The file: a header of 24 bytes, then the frames, each after a header of *)
(* its own.  read_pcap reads all of them or fails; read_flows and          *)
(* read_reports leave out a last one that is not all there; pcap_util      *)
(* takes what there is of it.                                              *)
GlobalHeader == 24

RecordEnds ==
    FoldLeft(LAMBDA ends, size : Append(ends, Last(ends) + 16 + size), <<GlobalHeader>>, RecordSizes)

CopyOn == frame = Nothing /\ copied < Last(RecordEnds) /\ copied' = copied + 1
          /\ UNCHANGED <<frame, damaged>>

RecordsBegun(bytes) == Cardinality({n \in DOMAIN RecordSizes : RecordEnds[n] + 16 <= bytes})
RecordsWhole(bytes) == Cardinality({n \in DOMAIN RecordSizes : RecordEnds[n + 1] <= bytes})

ReadFlows(bytes) == IF bytes < GlobalHeader THEN Nothing ELSE RecordsWhole(bytes)

ReadPcap(bytes) ==
    IF bytes \in ToSet(RecordEnds) THEN SelectInSeq(RecordEnds, LAMBDA end : end = bytes) - 1
    ELSE Nothing

FramesNext ==
    \/ \E field \in DOMAIN Damage : frame # Nothing /\ DamageField(field)
    \/ CopyOn
----------------------------------------------------------------------------
(* The part of the frame that can be audio: behind the headers it says it  *)
(* has, and before the end of what was captured, of the IP packet and of   *)
(* the datagram: no trailer of the link, and no neighbour in memory.       *)
Within(f, ip, range) ==
    /\ ip + Ihl(f) + 8 + 12 + 4 * f.sources <= range[1]
    /\ range[1] <= range[2]
    /\ range[2] <= f.captured
    /\ range[2] <= ip + Ihl(f) + f.udpLength
    /\ f.total # 0 => range[2] <= ip + f.total

AudioIsWithin ==
    frame # Nothing =>
        /\ PcapToWav(frame) # Nothing => Within(frame, Ipv4Offset(frame), PcapToWav(frame))
        /\ AuditFlows(frame) # Nothing => Within(frame, AuditOffset(frame), AuditFlows(frame))

(* The two tools take the same bytes for audio, whatever is wrong with the *)
(* frame; only one of them reads tagged frames, fragments and frames whose *)
(* IP length is left out, and only the other one counts empty packets.     *)
ToolsAgree ==
    frame # Nothing /\ frame.link # 276 =>
        \/ PcapToWav(frame) = AuditFlows(frame)
        \/ /\ AuditFlows(frame) = Nothing
           /\ frame.vlan \/ frame.fragment \/ frame.total = 0
        \/ PcapToWav(frame) = Nothing /\ AuditFlows(frame)[1] = AuditFlows(frame)[2]

(* pcap_util looks at no field of the RTP header, nor for the end of the   *)
(* datagram, but has all the audio audit_rtp counts; and nothing else, if  *)
(* the headers are the least and nothing is behind the datagram.           *)
FlowsHaveTheAudio ==
    frame # Nothing /\ AuditFlows(frame) # Nothing =>
        LET audio == AuditFlows(frame)
            taken == Flows(frame)
        IN  /\ taken # Nothing /\ taken[1] <= audio[1] /\ audio[2] <= taken[2]
            /\ frame.sources = 0 /\ ~frame.extension => taken[1] = audio[1]
            /\ AuditDatagram(frame)[2] = frame.captured /\ ~frame.padding =>
                   taken[2] = audio[2]

(* The service hears what the tools report, padding apart.                 *)
ServiceHearsTheSame ==
    frame # Nothing /\ AuditFlows(frame) # Nothing /\ ~frame.padding =>
        ParseRtpPacket(frame, AuditDatagram(frame)) = AuditFlows(frame)

(* A datagram in which audit_rtcp looks for reports is the whole datagram, *)
(* and the one pcap_to_wav sees.                                           *)
ReportsAreWhole ==
    frame # Nothing /\ ReportDatagram(frame) # Nothing =>
        /\ ReportDatagram(frame)[2] <= frame.captured
        /\ ReportDatagram(frame) = ParseUdp(frame)

(* Of a file that is still being copied, audit_rtp reads what pcap_to_wav *)
(* reads once the record at the end that is cut off has been removed;      *)
(* pcap_util reads at most that record more.                               *)
SameRecords ==
    copied >= GlobalHeader =>
        LET cutBack == Max({end \in ToSet(RecordEnds) : end <= copied})
        IN  /\ ReadPcap(cutBack) = ReadFlows(copied)
            /\ RecordsBegun(copied) - ReadFlows(copied) \in {0, 1}
=============================================================================
