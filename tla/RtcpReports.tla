----------------------------- MODULE RtcpReports -----------------------------
(***************************************************************************)
(* decode_reports of src/research/v90/audit_rtcp.py: the receiver reports  *)
(* of one RTCP datagram, a compound of packets.  The packets are told by   *)
(* the headers the reader meets, one where the one before it ends; where   *)
(* it meets no more of them it meets bytes that are no header.             *)
(***************************************************************************)
EXTENDS Naturals, Integers, Sequences, FiniteSets, SequencesExt

CONSTANTS
    Headers,    \* what a header may say: [version, kind, words, count, padding, last]
    MaxPackets, \* bound on the packets of a datagram
    MaxSize,    \* bound on its bytes
    Malformed

ReportConstants ==
    /\ \A h \in Headers :
          /\ {h.version, h.kind, h.words, h.count, h.last} \subseteq Nat
          /\ h.padding \in BOOLEAN
    /\ MaxSize \in Nat
    /\ Malformed \notin [offset : Nat, reports : Seq(Nat)]

VARIABLES
    packets,  \* the headers, in order
    octets    \* bytes of the datagram

ReportsTypeOK == packets \in Seq(Headers) /\ octets \in 0 .. MaxSize

PacketSize(h) == 4 * (h.words + 1)

TotalSize(headers) ==
    FoldLeft(LAMBDA total, bytes : total + bytes, 0,
             [n \in DOMAIN headers |-> PacketSize(headers[n])])

(* A datagram grows packet by packet, as its sender composed it, and may   *)
(* then be cut short or have something behind it.                          *)
ReportsInit == packets = <<>> /\ octets = 0

AddPacket(h) ==
    /\ Len(packets) < MaxPackets /\ octets = TotalSize(packets)
    /\ octets + PacketSize(h) <= MaxSize
    /\ packets' = Append(packets, h)
    /\ octets' = octets + PacketSize(h)

CutOrExtend(bytes) ==
    /\ octets = TotalSize(packets) /\ octets > 0 /\ bytes # 0
    /\ octets + bytes \in 0 .. MaxSize
    /\ octets' = octets + bytes
    /\ UNCHANGED packets

ReportsNext ==
    \/ \E h \in Headers : AddPacket(h)
    \/ \E bytes \in {-8, -4, -1, 1, 4} : CutOrExtend(bytes)
----------------------------------------------------------------------------
(* Only the last packet may be padded, and not with its own header.        *)
PaddingAnywhere(h, end) == h.last \in 1 .. PacketSize(h) - 4
PaddingSound(h, end) == end = octets /\ h.last \in 1 .. PacketSize(h) - 4

HeaderSound(h, offset) ==
    /\ offset + 4 <= octets
    /\ h.version = 2 /\ h.kind \in 192 .. 223
    /\ offset + PacketSize(h) <= octets
    /\ h.padding => PaddingSound(h, offset + PacketSize(h))

Unpadded(h) == PacketSize(h) - IF h.padding THEN h.last ELSE 0

Reporting(h) == h.kind \in {200, 201}

FirstBlock(h) == IF h.kind = 200 THEN 28 ELSE 8

BlocksFit(h) == Unpadded(h) >= FirstBlock(h) + 24 * h.count

Blocks(h, offset) ==
    [i \in 1 .. h.count |-> offset + FirstBlock(h) + 24 * (i - 1)]

(* Each report is told by the place where its block begins; Malformed when *)
(* the compound is malformed.                                              *)
Decode(progress, h) ==
    IF progress = Malformed \/ progress.offset >= octets THEN progress
    ELSE IF HeaderSound(h, progress.offset) /\ (Reporting(h) => BlocksFit(h))
         THEN [offset  |-> progress.offset + PacketSize(h),
               reports |-> progress.reports \o
                           IF Reporting(h) THEN Blocks(h, progress.offset) ELSE <<>>]
         ELSE Malformed

DecodeReports ==
    LET end == FoldLeft(Decode, [offset |-> 0, reports |-> <<>>], packets)
    IN  IF end # Malformed /\ end.offset >= octets THEN end.reports ELSE <<>>
----------------------------------------------------------------------------
PacketStart(n) == TotalSize(SubSeq(packets, 1, n - 1))

(* A datagram gives reports only if it is a compound from its first byte   *)
(* to its last; then it gives as many as its headers announce, each a      *)
(* block of its own inside its packet, clear of the padding.               *)
AllOrNothing ==
    LET found    == DecodeReports
        compound == {n \in DOMAIN packets : PacketStart(n) < octets}
        of(n)    == {i \in DOMAIN found :
                        /\ PacketStart(n) + 8 <= found[i]
                        /\ found[i] + 24 <= PacketStart(n) + Unpadded(packets[n])}
    IN  found # <<>> =>
            /\ octets = TotalSize(SubSeq(packets, 1, Cardinality(compound)))
            /\ \A n \in compound :
                  /\ Cardinality(of(n)) = IF Reporting(packets[n]) THEN packets[n].count ELSE 0
                  /\ packets[n].padding => n + 1 \notin compound
            /\ UNION {of(n) : n \in compound} = DOMAIN found
            /\ \A i \in 1 .. Len(found) - 1 : found[i] + 24 <= found[i + 1]
=============================================================================
