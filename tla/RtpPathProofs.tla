---------------------------- MODULE RtpPathProofs ----------------------------
(***************************************************************************)
(* Proofs about RtpPath, for any sequence number range, packet size, and   *)
(* any network that RtpCapture's window admits: the loss pcap_to_wav       *)
(* reports, the order and the clock of what a modem gets, and the streams  *)
(* in which audit_rtp finds no anomaly.  And, for a bridge that keeps up   *)
(* with the stream, the redundancy it sends.                               *)
(***************************************************************************)
EXTENDS RtpPath, FiniteSetTheorems, TLAPS

(* Division with remainder.                                                *)
LEMMA DivMod ==
    ASSUME NEW M \in Nat \ {0}, NEW a \in Int
    PROVE  a = M * (a \div M) + (a % M) /\ a % M \in 0 .. M-1 /\ a \div M \in Int
  OBVIOUS

(* The remainder is the only one.                                          *)
LEMMA ModUnique ==
    ASSUME NEW M \in Nat \ {0}, NEW d \in 0 .. M - 1, NEW k \in Int PROVE (d + M * k) % M = d
<1> DEFINE a == d + M * k
<1> DEFINE r == a % M
<1> DEFINE q == a \div M
<1>0. a \in Int /\ k \in Int /\ M \in Int /\ M > 0 /\ d \in Int /\ 0 <= d /\ d < M
  OBVIOUS
<1>1. a = M * q + r /\ r \in Int /\ 0 <= r /\ r < M /\ q \in Int
  BY <1>0, DivMod
<1> DEFINE z == q - k
<1>2. d - r = M * z /\ z \in Int
  BY <1>0, <1>1
<1> HIDE DEF a, r, q, z
<1>3. z < 1
  <2>1. SUFFICES ASSUME z >= 1 PROVE FALSE
    BY <1>2
  <2>2. M * z >= M
    BY <2>1, <1>0, <1>2
  <2> QED BY <2>2, <1>0, <1>1, <1>2
<1>4. z > -1
  <2>1. SUFFICES ASSUME z <= -1 PROVE FALSE
    BY <1>2
  <2>2. M * z <= -M
    BY <2>1, <1>0, <1>2
  <2> QED BY <2>2, <1>0, <1>1, <1>2
<1>5. z = 0
  BY <1>2, <1>3, <1>4
<1>6. d = r
  BY <1>5, <1>2, <1>0, <1>1
<1> QED BY <1>6 DEF r, a
(* Terms of a difference may be reduced before it is.                      *)
Reduced(M, x, y, c) == ((x % M) - (y % M) + c) % M

(* The remainder of a difference that is less than the modulus.            *)
LEMMA ModDifference ==
    ASSUME NEW M \in Nat \ {0}, NEW x \in Int, NEW y \in Int, NEW c \in Int,
           -M <= x - y + c, x - y + c < M
    PROVE  Reduced(M, x, y, c) = IF x - y + c >= 0 THEN x - y + c ELSE x - y + c + M
<1> DEFINE p == x \div M
           q == y \div M
           r == x % M
           s == y % M
           d == IF x - y + c >= 0 THEN x - y + c ELSE x - y + c + M
<1>0. d \in 0 .. M - 1 /\ (x - y + c = d \/ x - y + c = d - M)
  OBVIOUS
<1>1. x = M * p + r /\ r \in Int /\ p \in Int
  BY DivMod
<1>2. y = M * q + s /\ s \in Int /\ q \in Int
  BY DivMod
<1> HIDE DEF p, q, r, s, d
<1> DEFINE j == q - p
<1>3. M * j = M * q - M * p /\ M * (j - 1) = M * q - M * p - M /\ j \in Int /\ j - 1 \in Int
  BY <1>1, <1>2
<1> HIDE DEF j
<1>4. r - s + c = d + M * j \/ r - s + c = d + M * (j - 1)
  BY <1>0, <1>1, <1>2, <1>3
<1>5. (d + M * j) % M = d /\ (d + M * (j - 1)) % M = d
  BY <1>0, <1>3, ModUnique
<1>6. (r - s + c) % M = d
  BY <1>4, <1>5
<1> QED BY <1>6 DEF r, s, d, Reduced

(* The same of sequence numbers.                                           *)
LEMMA SequenceDifference ==
    ASSUME NEW x \in Int, NEW y \in Int, NEW c \in Int,
           -SeqRange <= x - y + c, x - y + c < SeqRange
    PROVE  Reduced(SeqRange, x, y, c) = IF x - y + c >= 0 THEN x - y + c
                                        ELSE x - y + c + SeqRange
<1>1. SeqRange \in Nat \ {0}
  BY ModuliAssumption
<1> QED BY <1>1, ModDifference
----------------------------------------------------------------------------
Latest == seen[Len(seen)]

SeenIsSent ==
    /\ sent \in Seq([stamp : 0 .. StampRange - 1, ssrc : {0, 1}])
    /\ seen \in Seq(Nat)
    /\ \A i \in DOMAIN seen : seen[i] \in Packets

CountersInv ==
    /\ packetCount = Len(seen)
    /\ expectedPackets \in Nat /\ outOfOrder \in Nat /\ gaps \in Seq(Nat)
    /\ lastSequence \in 0 .. SeqRange - 1
    /\ seen = <<>> => outOfOrder = 0

IsNewest(n) == n \in Heard /\ \A other \in Heard : n >= other

(* The newest packet is not far behind the latest.                         *)
NewestInv == IsNewest(Newest) /\ Newest - Late <= Latest

(* Each packet still missing was expected, and not one more as long as     *)
(* none came late.                                                         *)
LossInv ==
    /\ lastSequence = SeqNo(Latest)
    /\ IsFiniteSet(TrulyMissing)
    /\ expectedPackets >= packetCount + Cardinality(TrulyMissing)
    /\ outOfOrder = 0 =>
          /\ Latest = Newest
          /\ expectedPackets = packetCount + Cardinality(TrulyMissing)

CaptureInv ==
    /\ SeenIsSent
    /\ CountersInv
    /\ seen # <<>> => NewestInv /\ LossInv
----------------------------------------------------------------------------
(* A packet is ahead of the latest if its number says so.                  *)
LEMMA NumbersTellOrder ==
    ASSUME NEW a \in Nat, NEW b \in Nat, lastSequence = SeqNo(a),
           b - a <= Burst + Late, a - b <= Late
    PROVE  /\ a < b => Distance(b) = b - a - 1 /\ ~Behind(b)
           /\ b <= a => Behind(b)
<1> USE ModuliAssumption, WindowAssumption
<1> DEFINE x == First + b
           y == First + a
<1>1. /\ SeqRange \in Nat \ {0} /\ x \in Int /\ y \in Int
      /\ Late \in Nat /\ Burst \in Nat /\ First \in Nat
      /\ 2 * (Burst + Late) <= SeqRange /\ 2 * (Late + 1) <= SeqRange
  OBVIOUS
<1>2. Distance(b) = Reduced(SeqRange, x, y, -1)
  <2>1. (x % SeqRange) \in Int /\ (y % SeqRange) \in Int
    BY <1>1, DivMod
  <2>2. (x % SeqRange) - ((y % SeqRange) + 1) = (x % SeqRange) - (y % SeqRange) + (-1)
    BY <2>1
  <2> QED BY <2>2 DEF Distance, SeqNo, Reduced
<1>3. x - y + (-1) = b - a - 1 /\ -SeqRange <= b - a - 1 /\ b - a - 1 < SeqRange
  BY <1>1
<1>4. Distance(b) = IF b - a - 1 >= 0 THEN b - a - 1 ELSE b - a - 1 + SeqRange
  <2> DEFINE c == -1
  <2>1. c \in Int /\ -SeqRange <= x - y + c /\ x - y + c < SeqRange
    BY <1>3
  <2> HIDE DEF x, y, c
  <2>2. Reduced(SeqRange, x, y, c) = IF x - y + c >= 0 THEN x - y + c ELSE x - y + c + SeqRange
    BY <1>1, <2>1, SequenceDifference
  <2> QED BY <1>2, <1>3, <2>2 DEF c
<1>5. CASE a < b
  <2>1. Distance(b) = b - a - 1 /\ ~(2 * (b - a - 1) >= SeqRange)
    BY <1>1, <1>4, <1>5
  <2> QED BY <1>1, <1>5, <2>1 DEF Behind
<1>6. CASE b <= a
  <2>1. Distance(b) = b - a - 1 + SeqRange /\ 2 * (b - a - 1 + SeqRange) >= SeqRange
    BY <1>1, <1>4, <1>6
  <2> QED BY <1>1, <1>6, <2>1 DEF Behind
<1> QED BY <1>5, <1>6

(* The maximum is the element that no other exceeds.                       *)
LEMMA MaxIs ==
    ASSUME NEW S \in SUBSET Nat, NEW n \in S, \A m \in S : n >= m
    PROVE  Max(S) = n
<1>1. ASSUME NEW x \in S, \A m \in S : x >= m
      PROVE  x = n
  <2>1. x >= n /\ n >= x /\ x \in Nat /\ n \in Nat
    BY <1>1
  <2> QED BY <2>1
<1> QED BY <1>1 DEF Max

(* The first packet captured.                                              *)
LEMMA FirstCapture ==
    ASSUME CaptureInv, seen = <<>>, NEW n \in Packets,
           seen' = Append(seen, n), sent' = sent, UpdateStats(n)
    PROVE  CaptureInv'
<1>1. n \in Nat /\ seen' = <<n>> /\ Heard' = {n} /\ Latest' = n
  BY DEF CaptureInv, SeenIsSent, Packets, Heard, Range, Latest
<1>2. SeenIsSent'
  BY <1>1 DEF CaptureInv, SeenIsSent, Packets
<1>3. /\ packetCount' = 1 /\ expectedPackets' = 1 /\ outOfOrder' = 0 /\ gaps' = gaps
      /\ lastSequence' = SeqNo(n)
  BY DEF CaptureInv, CountersInv, UpdateStats
<1>4. SeqNo(n) \in 0 .. SeqRange - 1
  BY <1>1, DivMod, ModuliAssumption DEF SeqNo
<1>5. CountersInv'
  BY <1>1, <1>3, <1>4 DEF CaptureInv, CountersInv
<1>6. Newest' = n
  BY <1>1, MaxIs DEF Newest
<1>7. TrulyMissing' = {}
  BY <1>1, <1>6 DEF TrulyMissing
<1>8. NewestInv'
  BY <1>1, <1>6, WindowAssumption DEF NewestInv, IsNewest
<1>9. LossInv'
  BY <1>1, <1>3, <1>6, <1>7, FS_EmptySet DEF LossInv, SeqNo
<1> QED BY <1>2, <1>5, <1>8, <1>9 DEF CaptureInv

(* Every further packet.                                                   *)
LEMMA NextCapture ==
    ASSUME CaptureInv, seen # <<>>, NEW n \in Packets, Arrives(n),
           seen' = Append(seen, n), sent' = sent, UpdateStats(n)
    PROVE  CaptureInv'
<1> USE ModuliAssumption, WindowAssumption
<1> DEFINE last == Latest
           newest == Newest
<1>1. /\ SeenIsSent /\ CountersInv /\ NewestInv /\ LossInv
      /\ n \in Nat /\ seen \in Seq(Nat) /\ Len(seen) \in Nat /\ Len(seen) > 0
  BY DEF CaptureInv, SeenIsSent, Packets
<1>2. /\ last \in Heard /\ Heard \in SUBSET Nat /\ seen[1] \in Heard
  BY <1>1 DEF Latest, Heard, Range
<1>3. /\ newest \in Heard /\ last <= newest /\ newest - Late <= last
      /\ \A other \in Heard : other <= newest
      /\ newest - Late <= n /\ n <= newest + Burst
  BY <1>1, <1>2 DEF NewestInv, IsNewest, Arrives
<1> n \in Nat /\ newest \in Nat /\ last \in Nat
  BY <1>1, <1>2, <1>3
<1> HIDE DEF last, newest
<1>4. /\ Heard' = Heard \cup {n} /\ Latest' = n /\ seen'[1] = seen[1]
      /\ seen' # <<>> /\ Len(seen') = Len(seen) + 1 /\ seen' \in Seq(Nat)
  <2>1. \A i \in 1 .. Len(seen) + 1 : seen'[i] = IF i <= Len(seen) THEN seen[i] ELSE n
    BY <1>1
  <2>2. DOMAIN seen' = 1 .. Len(seen) + 1 /\ DOMAIN seen = 1 .. Len(seen)
    BY <1>1
  <2>3. Heard' = Heard \cup {n}
    BY <1>1, <2>1, <2>2 DEF Heard, Range
  <2> QED BY <1>1, <2>1, <2>2, <2>3 DEF Latest
<1>5. SeenIsSent'
  BY <1>1, <1>4 DEF SeenIsSent, Packets
<1>6. /\ last < n => Distance(n) = n - last - 1 /\ ~Behind(n)
      /\ n <= last => Behind(n)
  BY <1>1, <1>2, <1>3, NumbersTellOrder DEF LossInv, last
<1>7. /\ packetCount' = packetCount + 1
      /\ lastSequence' = SeqNo(n) /\ SeqNo(n) \in 0 .. SeqRange - 1
      /\ last < n =>
            /\ expectedPackets' = expectedPackets + (n - last)
            /\ outOfOrder' = outOfOrder
            /\ gaps' \in Seq(Nat)
      /\ n <= last =>
            /\ expectedPackets' = expectedPackets + 1
            /\ outOfOrder' = outOfOrder + 1
            /\ gaps' = gaps
  <2>1. packetCount # 0
    BY <1>1 DEF CountersInv
  <2>2. SeqNo(n) \in 0 .. SeqRange - 1
    <3>1. First + n \in Int /\ SeqRange \in Nat \ {0}
      BY <1>1
    <3> QED BY <3>1, DivMod DEF SeqNo
  <2>3. CASE last < n
    <3>1. Distance(n) = n - last - 1 /\ ~Behind(n) /\ n - last - 1 \in Nat
      BY <1>1, <1>2, <1>6, <2>3
    <3>2. /\ expectedPackets' = expectedPackets + Distance(n) + 1
          /\ outOfOrder' = outOfOrder
          /\ gaps' = IF Distance(n) > 0 THEN Append(gaps, Distance(n)) ELSE gaps
          /\ packetCount' = packetCount + 1 /\ lastSequence' = SeqNo(n)
      BY <2>1, <3>1 DEF UpdateStats
    <3>3. gaps \in Seq(Nat) /\ expectedPackets \in Nat
      BY <1>1 DEF CountersInv
    <3> QED BY <1>1, <1>2, <2>2, <2>3, <3>1, <3>2, <3>3
  <2>4. CASE n <= last
    BY <1>1, <1>2, <1>6, <2>1, <2>2, <2>4 DEF UpdateStats, LateExpected
  <2> QED BY <1>1, <1>2, <2>3, <2>4
<1>8. CountersInv'
  <2>1. /\ packetCount = Len(seen) /\ expectedPackets \in Nat
        /\ outOfOrder \in Nat /\ gaps \in Seq(Nat)
    BY <1>1 DEF CountersInv
  <2>2. expectedPackets' \in Nat /\ outOfOrder' \in Nat /\ gaps' \in Seq(Nat)
    <3>1. CASE last < n
      BY <1>7, <2>1, <3>1
    <3>2. CASE n <= last
      BY <1>7, <2>1, <3>2
    <3> QED BY <3>1, <3>2
  <2>3. packetCount' = Len(seen') /\ lastSequence' \in 0 .. SeqRange - 1 /\ seen' # <<>>
    BY <1>1, <1>4, <1>7, <2>1
  <2> QED BY <2>2, <2>3 DEF CountersInv
<1>9. Newest' = IF newest < n THEN n ELSE newest
  <2> DEFINE now == IF newest < n THEN n ELSE newest
  <2>1. now \in Heard' /\ \A m \in Heard' : now >= m
    BY <1>1, <1>2, <1>3, <1>4
  <2>2. Heard' \in SUBSET Nat
    BY <1>1, <1>2, <1>4
  <2> QED BY <2>1, <2>2, MaxIs DEF Newest
<1>10. NewestInv'
  BY <1>1, <1>2, <1>3, <1>4, <1>9 DEF NewestInv, IsNewest
<1> DEFINE skipped == newest + 1 .. n - 1
<1>11. /\ IsFiniteSet(TrulyMissing) /\ IsFiniteSet(skipped)
       /\ Cardinality(TrulyMissing) \in Nat
       /\ Cardinality(skipped) = IF newest < n THEN n - newest - 1 ELSE 0
  <2>1. /\ IsFiniteSet(skipped)
        /\ Cardinality(skipped) = IF newest + 1 > n - 1 THEN 0 ELSE (n - 1) - (newest + 1) + 1
    <3>1. newest + 1 \in Int /\ n - 1 \in Int
      OBVIOUS
    <3> QED BY <3>1, FS_Interval
  <2>2. IsFiniteSet(TrulyMissing)
    BY <1>1 DEF LossInv
  <2> QED BY <1>1, <1>2, <1>3, <2>1, <2>2, FS_CardinalityType
<1>12. CASE newest < n
  <2>1. TrulyMissing' = TrulyMissing \cup skipped
    <3>1. TrulyMissing' = (seen[1] .. n) \ (Heard \cup {n})
      BY <1>4, <1>9, <1>12 DEF TrulyMissing
    <3>2. TrulyMissing = (seen[1] .. newest) \ Heard
      BY DEF TrulyMissing, newest
    <3>3. seen[1] \in Nat /\ seen[1] <= newest
      BY <1>2, <1>3
    <3>4. ASSUME NEW k \in seen[1] .. n, k \notin Heard, k # n
          PROVE  k \in seen[1] .. newest \/ k \in skipped
      <4>1. k \in Int /\ seen[1] <= k /\ k <= n
        BY <3>3
      <4>2. CASE k <= newest
        BY <3>3, <4>1, <4>2
      <4>3. CASE k > newest
        BY <3>4, <4>1, <4>3
      <4> QED BY <4>1, <4>2, <4>3
    <3>5. ASSUME NEW k \in skipped
          PROVE  k \in seen[1] .. n /\ k \notin Heard /\ k # n
      BY <1>3, <1>12, <3>3
    <3>6. ASSUME NEW k \in seen[1] .. newest
          PROVE  k \in seen[1] .. n /\ k # n
      BY <1>12, <3>3
    <3> QED BY <3>1, <3>2, <3>4, <3>5, <3>6
  <2>2. TrulyMissing \cap skipped = {}
    BY <1>2, <1>3 DEF TrulyMissing, newest
  <2>3. /\ IsFiniteSet(TrulyMissing')
        /\ Cardinality(TrulyMissing') = Cardinality(TrulyMissing) + (n - newest - 1)
    <3>1. /\ IsFiniteSet(TrulyMissing')
          /\ Cardinality(TrulyMissing') = Cardinality(TrulyMissing) + Cardinality(skipped)
                                             - Cardinality(TrulyMissing \cap skipped)
      BY <1>11, <2>1, FS_Union
    <3>2. Cardinality(TrulyMissing \cap skipped) = 0
      BY <2>2, FS_EmptySet
    <3> QED BY <1>1, <1>11, <1>12, <3>1, <3>2
  <2>4. /\ last < n /\ n - newest <= n - last /\ Newest' = n
    BY <1>1, <1>2, <1>3, <1>9, <1>12
  <2>5. LossInv'
    <3> DEFINE m == Cardinality(TrulyMissing)
               mm == Cardinality(TrulyMissing')
    <3>1. /\ mm = m + (n - newest - 1) /\ m \in Nat
          /\ expectedPackets \in Nat /\ packetCount \in Nat /\ outOfOrder \in Nat
          /\ expectedPackets >= packetCount + m
          /\ outOfOrder = 0 => last = newest /\ expectedPackets = packetCount + m
      BY <1>1, <1>11, <2>3 DEF LossInv, CountersInv, last, newest
    <3>2. /\ expectedPackets' = expectedPackets + (n - last)
          /\ packetCount' = packetCount + 1 /\ outOfOrder' = outOfOrder
      BY <1>7, <2>4
    <3> HIDE DEF m, mm
    <3>3. expectedPackets' >= packetCount' + mm
      BY <1>1, <2>4, <3>1, <3>2
    <3>4. outOfOrder' = 0 => expectedPackets' = packetCount' + mm
      BY <1>1, <2>4, <3>1, <3>2
    <3>5. lastSequence' = SeqNo(Latest)'
      BY <1>4, <1>7 DEF SeqNo
    <3> QED BY <1>4, <2>3, <2>4, <3>3, <3>4, <3>5 DEF LossInv, mm
  <2> QED BY <1>5, <1>8, <1>10, <2>5 DEF CaptureInv
<1>13. CASE n <= newest
  <2>1. TrulyMissing' = TrulyMissing \ {n}
    BY <1>4, <1>9, <1>13 DEF TrulyMissing, newest
  <2>2. /\ IsFiniteSet(TrulyMissing')
        /\ Cardinality(TrulyMissing') \in Nat
        /\ Cardinality(TrulyMissing') <= Cardinality(TrulyMissing)
    BY <1>11, <2>1, FS_Subset, FS_CardinalityType
  <2>3. expectedPackets' >= expectedPackets + 1
    BY <1>1, <1>2, <1>7 DEF CountersInv
  <2>4. outOfOrder' # 0
    <3>1. CASE n <= last
      BY <1>1, <1>7, <3>1 DEF CountersInv
    <3>2. CASE last < n
      BY <1>1, <1>3, <1>7, <1>13, <3>2 DEF LossInv, CountersInv, last, newest
    <3> QED BY <1>1, <1>2, <3>1, <3>2
  <2>5. LossInv'
    <3> DEFINE m == Cardinality(TrulyMissing)
               mm == Cardinality(TrulyMissing')
    <3>1. /\ mm <= m /\ m \in Nat /\ mm \in Nat
          /\ expectedPackets \in Nat /\ packetCount \in Nat /\ expectedPackets' \in Nat
          /\ expectedPackets >= packetCount + m
      BY <1>1, <1>8, <1>11, <2>2 DEF LossInv, CountersInv
    <3> HIDE DEF m, mm
    <3>2. expectedPackets' >= packetCount' + mm
      BY <1>7, <2>3, <3>1
    <3>3. lastSequence' = SeqNo(Latest)'
      BY <1>4, <1>7 DEF SeqNo
    <3> QED BY <2>2, <2>4, <3>2, <3>3 DEF LossInv, mm
  <2> QED BY <1>5, <1>8, <1>10, <2>5 DEF CaptureInv
<1> QED BY <1>1, <1>2, <1>12, <1>13
----------------------------------------------------------------------------
(* The last packet handed over is remembered, and was heard.               *)
DeliveryInv ==
    /\ delivered \in Seq(Nat)
    /\ previous = None <=> delivered = <<>>
    /\ delivered # <<>> =>
          LET last == delivered[Len(delivered)]
          IN  last \in Heard /\ previous.seq = SeqNo(last)

ClockInv ==
    /\ base \in Nat /\ handed \in Nat
    /\ previous # None => previous.end \in Int
    /\ TimelineKept

PathInv == CaptureInv /\ DeliveryInv /\ InOrderOnce /\ ClockInv

(* Adding a difference modulo M to what it was taken from.                 *)
CaughtUp(M, u, t, c) == (u + ((t - (u % M)) % M) + c) % M

(* What is missing brings the sum to what was aimed at.                    *)
LEMMA ModCatchesUp ==
    ASSUME NEW M \in Nat \ {0}, NEW u \in Int, NEW t \in Int, NEW c \in Int
    PROVE  CaughtUp(M, u, t, c) = (t + c) % M
<1> DEFINE e == u % M
           m == (t - e) % M
           v == (t + c) % M
           p == u \div M
           q == (t - e) \div M
           w == (t + c) \div M
<1>1. u = M * p + e /\ e \in Int /\ p \in Int
  BY DivMod
<1>2. t - e = M * q + m /\ m \in Int /\ q \in Int
  BY <1>1, DivMod
<1>3. t + c = M * w + v /\ v \in 0 .. M - 1 /\ w \in Int
  BY DivMod
<1> HIDE DEF e, m, v, p, q, w
<1> DEFINE j == w + p - q
<1>4. M * j = M * w + M * p - M * q /\ j \in Int
  BY <1>1, <1>2, <1>3
<1>5. u + m + c = v + M * j
  BY <1>1, <1>2, <1>3, <1>4
<1>6. (v + M * j) % M = v
  BY <1>3, <1>4, ModUnique
<1>7. (u + m + c) % M = v
  BY <1>5, <1>6
<1> QED BY <1>7 DEF e, m, v, CaughtUp

(* Before the first packet nothing is missing.                             *)
LEMMA InitHolds == ASSUME PathInit PROVE PathInv
<1> USE ModuliAssumption, PathAssumption
<1>1. CaptureInv
  BY DEF PathInit, Init, CaptureInv, SeenIsSent, CountersInv
<1>2. previous = None /\ delivered = <<>> /\ base = 0 /\ handed = 0
  BY DEF PathInit, Line!ContinuityInit
<1>3. DeliveryInv /\ InOrderOnce
  BY <1>2 DEF DeliveryInv, InOrderOnce
<1>4. ClockInv
  BY <1>2 DEF ClockInv, TimelineKept, Line!TimelineKept
<1> QED BY <1>1, <1>3, <1>4 DEF PathInv

(* The sender's packets are all sent before the first is captured.         *)
LEMMA SendKeeps == ASSUME PathInv, SendNext PROVE PathInv'
<1> USE ModuliAssumption DEF PathInv
<1>1. seen = <<>> /\ seen' = seen /\ UNCHANGED stats /\ UNCHANGED lineVars
  BY DEF SendNext, Send, HandOver, SendPacket
<1>2. sent \in Seq([stamp : 0 .. StampRange - 1, ssrc : {0, 1}])
  BY DEF CaptureInv, SeenIsSent
<1>3. ASSUME NEW stamp \in Nat, NEW ssrc \in {0, 1}, SendPacket(stamp, ssrc)
      PROVE  SeenIsSent'
  <2>1. stamp % StampRange \in 0 .. StampRange - 1
    BY DivMod
  <2>2. sent' = Append(sent, [stamp |-> stamp % StampRange, ssrc |-> ssrc])
    BY <1>3 DEF SendPacket
  <2> QED BY <1>1, <1>2, <2>1, <2>2 DEF SeenIsSent
<1>4. sent # <<>> => Last(sent).stamp \in Nat /\ Last(sent).ssrc \in {0, 1}
  <2>1. ASSUME sent # <<>>
        PROVE  sent[Len(sent)] \in [stamp : 0 .. StampRange - 1, ssrc : {0, 1}]
    <3> DEFINE T == [stamp : 0 .. StampRange - 1, ssrc : {0, 1}]
    <3> HIDE DEF T
    <3>1. sent \in Seq(T)
      BY <1>2 DEF T
    <3>2. sent[Len(sent)] \in T
      BY <2>1, <3>1
    <3> QED BY <3>2 DEF T
  <2>2. ASSUME NEW p \in [stamp : 0 .. StampRange - 1, ssrc : {0, 1}]
        PROVE  p.stamp \in Nat /\ p.ssrc \in {0, 1}
    BY <2>2
  <2> QED BY <2>1, <2>2 DEF Last
<1>5. SeenIsSent'
  <2>1. ASSUME NEW silent \in {0, 1}, Send(silent) PROVE SeenIsSent'
    <3>1. CASE sent = <<>>
      BY <1>3, <2>1, <3>1 DEF Send
    <3>2. CASE sent # <<>>
      <4>1. Last(sent).stamp + (1 + silent) * Samples \in Nat
        BY <1>4, <3>2
      <4> QED BY <1>3, <1>4, <2>1, <3>2, <4>1 DEF Send
    <3> QED BY <3>1, <3>2
  <2>2. ASSUME NEW ssrc \in {0, 1}, HandOver(ssrc) PROVE SeenIsSent'
    BY <1>3, <2>2 DEF HandOver
  <2> QED BY <2>1, <2>2 DEF SendNext
<1>6. CaptureInv'
  BY <1>1, <1>5 DEF CaptureInv, CountersInv, stats
<1>7. DeliveryInv' /\ InOrderOnce' /\ ClockInv'
  BY <1>1 DEF DeliveryInv, InOrderOnce, ClockInv, TimelineKept, Line!TimelineKept,
              lineVars, Heard, Range, SeqNo
<1> QED BY <1>6, <1>7

(* What the filter lets pass is later than what it let pass before.        *)
LEMMA PassedIsLater ==
    ASSUME CaptureInv, DeliveryInv, NEW n \in Packets, Arrives(n), delivered # <<>>,
           Line!SameSource(sent[n].ssrc), ~Line!LateOrDuplicate(SeqNo(n), sent[n].ssrc)
    PROVE  delivered[Len(delivered)] < n
<1> USE ModuliAssumption, WindowAssumption
<1> DEFINE last == delivered[Len(delivered)]
<1>1. /\ last \in Heard /\ previous.seq = SeqNo(last)
      /\ Heard \in SUBSET Nat /\ n \in Nat /\ seen # <<>>
  <2>1. seen \in Seq(Nat) /\ n \in Nat
    BY DEF CaptureInv, SeenIsSent, Packets
  <2>2. last \in Heard /\ previous.seq = SeqNo(last)
    BY DEF DeliveryInv
  <2>3. Heard \in SUBSET Nat
    BY <2>1 DEF Heard, Range
  <2> QED BY <2>1, <2>2, <2>3 DEF Heard, Range
<1>2. last <= Newest /\ Newest \in Nat /\ Newest - Late <= n
  BY <1>1 DEF CaptureInv, NewestInv, IsNewest, Arrives
<1>3. last \in Nat
  BY <1>1
<1> HIDE DEF last
<1>4. SUFFICES ASSUME n <= last PROVE FALSE
  BY <1>1, <1>3 DEF last
<1>5. last - n <= Late /\ last - n \in Nat
  BY <1>1, <1>2, <1>3, <1>4
<1> DEFINE advance == (SeqNo(n) - previous.seq) % SeqRange
           x == First + n
           y == First + last
<1>6. /\ x \in Int /\ y \in Int /\ SeqRange \in Nat \ {0}
      /\ (x % SeqRange) \in Int /\ (y % SeqRange) \in Int
  BY <1>1, <1>3, DivMod
<1>7. advance = Reduced(SeqRange, x, y, 0)
  <2>1. (x % SeqRange) - (y % SeqRange) = (x % SeqRange) - (y % SeqRange) + 0
    BY <1>6
  <2> QED BY <1>1, <2>1 DEF SeqNo, last, Reduced
<1>8. x - y + 0 = n - last /\ -SeqRange <= n - last /\ n - last < SeqRange
  BY <1>1, <1>3, <1>5, <1>6
<1>9. advance = IF n - last >= 0 THEN n - last ELSE n - last + SeqRange
  <2> DEFINE c == 0
  <2>1. c \in Int /\ -SeqRange <= x - y + c /\ x - y + c < SeqRange
    BY <1>8
  <2> HIDE DEF x, y, c, advance
  <2>2. Reduced(SeqRange, x, y, c) = IF x - y + c >= 0 THEN x - y + c ELSE x - y + c + SeqRange
    BY <1>6, <2>1, SequenceDifference
  <2> QED BY <1>7, <1>8, <2>2 DEF c
<1>10. advance = 0 \/ 2 * advance >= SeqRange
  BY <1>1, <1>3, <1>4, <1>5, <1>6, <1>9
<1> QED BY <1>1, <1>10 DEF Line!LateOrDuplicate

(* What the filter does keeps order and clock.                             *)
LEMMA FilterKeeps ==
    ASSUME PathInv, NEW n \in Packets, Arrives(n), Heard' = Heard \cup {n},
           Line!Accept(SeqNo(n), sent[n].stamp, sent[n].ssrc), Deliver(n)
    PROVE  DeliveryInv' /\ InOrderOnce' /\ ClockInv'
<1> USE ModuliAssumption DEF PathInv
<1> DEFINE late == Line!LateOrDuplicate(SeqNo(n), sent[n].ssrc)
           same == Line!SameSource(sent[n].ssrc)
           stamp == sent[n].stamp
<1>1. n \in Nat /\ delivered \in Seq(Nat) /\ stamp \in Nat /\ sent[n].ssrc \in {0, 1}
  <2> DEFINE T == [stamp : 0 .. StampRange - 1, ssrc : {0, 1}]
  <2> HIDE DEF T
  <2>1. sent \in Seq(T) /\ n \in 1 .. Len(sent)
    BY DEF CaptureInv, SeenIsSent, Packets, T
  <2>2. sent[n] \in T
    BY <2>1
  <2>3. n \in Nat /\ delivered \in Seq(Nat)
    BY <2>1 DEF DeliveryInv
  <2> QED BY <2>2, <2>3 DEF T
<1>2. same => previous # None /\ delivered # <<>>
  BY DEF Line!SameSource, DeliveryInv
<1>3. CASE late
  <2>1. UNCHANGED <<previous, restarts, base, handed, delivered>>
    BY <1>3 DEF Line!Accept, Deliver
  <2> QED BY <2>1
          DEF DeliveryInv, InOrderOnce, ClockInv, TimelineKept, Line!TimelineKept, SeqNo
<1>4. CASE ~late
  <2>1. /\ previous' = [seq |-> SeqNo(n), ssrc |-> sent[n].ssrc,
                         end |-> (stamp + Samples) % StampRange]
        /\ Line!HandOn(SeqNo(n), stamp, sent[n].ssrc)
        /\ delivered' = IF same THEN Append(delivered, n) ELSE <<n>>
    BY <1>4 DEF Line!Accept, Line!HandOn, Deliver
  <2>2. SeqNo(n) \in Nat /\ (stamp + Samples) % StampRange \in 0 .. StampRange - 1
    <3>1. First + n \in Int /\ SeqRange \in Nat \ {0} /\ StampRange \in Nat \ {0}
          /\ stamp + Samples \in Int
      BY <1>1, PathAssumption DEF Line!ContinuityAssumption
    <3>2. (First + n) % SeqRange \in 0 .. SeqRange - 1
      BY <3>1, DivMod
    <3>3. (stamp + Samples) % StampRange \in 0 .. StampRange - 1
      BY <3>1, DivMod
    <3> QED BY <3>1, <3>2, <3>3 DEF SeqNo
  <2>3. previous' # None /\ previous'.end = (stamp + Samples) % StampRange
        /\ previous'.seq = SeqNo(n)
    BY <1>1, <2>1, <2>2, PathAssumption DEF Line!ContinuityAssumption
  <2>4. DeliveryInv'
    <3>1. delivered' \in Seq(Nat) /\ delivered' # <<>> /\ delivered'[Len(delivered')] = n
      BY <1>1, <2>1
    <3>2. previous'.seq = SeqNo(n)'
      BY <2>3 DEF SeqNo
    <3> QED BY <2>3, <3>1, <3>2 DEF DeliveryInv, SeqNo
  <2>5. InOrderOnce'
    <3>1. CASE same
      <4>1. delivered[Len(delivered)] < n /\ delivered # <<>>
        BY <1>2, <1>4, <3>1, PassedIsLater
      <4>2. delivered' = Append(delivered, n)
        BY <2>1, <3>1
      <4> QED BY <1>1, <4>1, <4>2 DEF InOrderOnce
    <3>2. CASE ~same
      <4>1. delivered' = <<n>>
        BY <2>1, <3>2
      <4> QED BY <4>1 DEF InOrderOnce
    <3> QED BY <3>1, <3>2
  <2>6. ClockInv'
    <3>1. CASE Line!Continues(stamp, sent[n].ssrc)
      <4> DEFINE u == base + handed
                 M == StampRange
      <4>1. /\ u \in Int /\ M \in Nat \ {0} /\ stamp \in Int /\ Samples \in Int
            /\ base \in Nat /\ handed \in Nat /\ previous.end = u % M
        <5>1. M \in Nat \ {0} /\ Samples \in Int
          BY PathAssumption DEF Line!ContinuityAssumption
        <5>2. base \in Nat /\ handed \in Nat /\ stamp \in Int
          BY <1>1 DEF ClockInv
        <5>3. previous # None
          BY <3>1 DEF Line!Continues, Line!SameSource
        <5>4. previous.end = u % M
          BY <1>1, <5>3 DEF ClockInv, TimelineKept, Line!TimelineKept
        <5> QED BY <5>1, <5>2, <5>4
      <4> DEFINE missing == Line!MissingSamples(stamp)
      <4>2. missing = (stamp - (u % M)) % M
        BY <4>1 DEF Line!MissingSamples
      <4>3. missing \in Nat
        <5>1. u % M \in Int
          BY <4>1, DivMod
        <5>2. stamp - (u % M) \in Int
          BY <4>1, <5>1
        <5>3. (stamp - (u % M)) % M \in 0 .. M - 1
          BY <4>1, <5>2, DivMod
        <5> QED BY <4>1, <4>2, <5>3
      <4>4. CaughtUp(M, u, stamp, Samples) = (stamp + Samples) % M
        BY <4>1, ModCatchesUp
      <4>5. (u + missing + Samples) % M = (stamp + Samples) % M
        BY <4>2, <4>4 DEF CaughtUp
      <4>6. handed' = handed + missing + Samples /\ base' = base
        BY <2>1, <3>1 DEF Line!HandOn
      <4> HIDE DEF missing
      <4>7. base' + handed' = u + missing + Samples /\ handed' \in Nat
        BY <4>1, <4>3, <4>6
      <4> QED BY <2>2, <2>3, <4>1, <4>5, <4>6, <4>7
              DEF ClockInv, TimelineKept, Line!TimelineKept
    <3>2. CASE ~Line!Continues(stamp, sent[n].ssrc)
      <4>1. base' = stamp /\ handed' = Samples
        BY <2>1, <3>2 DEF Line!HandOn
      <4> QED BY <1>1, <2>2, <2>3, <4>1 DEF ClockInv, TimelineKept, Line!TimelineKept
    <3> QED BY <3>1, <3>2
  <2> QED BY <2>4, <2>5, <2>6
<1> QED BY <1>3, <1>4

(* A packet that arrives keeps it all.                                     *)
LEMMA ArriveKeeps ==
    ASSUME PathInv, NEW n \in Packets, NEW port \in Ports, Arrive(n, port)
    PROVE  PathInv'
<1>1. /\ Arrives(n) /\ seen' = Append(seen, n) /\ sent' = sent /\ UpdateStats(n)
      /\ Line!Accept(SeqNo(n), sent[n].stamp, sent[n].ssrc) /\ Deliver(n)
  BY DEF Arrive, Capture
<1>2. CaptureInv'
  BY <1>1, FirstCapture, NextCapture DEF PathInv
<1>3. Heard' = Heard \cup {n}
  <2>1. seen \in Seq(Nat) /\ n \in Nat
    BY DEF PathInv, CaptureInv, SeenIsSent, Packets
  <2>2. \A i \in 1 .. Len(seen) + 1 : seen'[i] = IF i <= Len(seen) THEN seen[i] ELSE n
    BY <1>1, <2>1
  <2>3. DOMAIN seen' = 1 .. Len(seen) + 1 /\ DOMAIN seen = 1 .. Len(seen)
    BY <1>1, <2>1
  <2> QED BY <2>1, <2>2, <2>3 DEF Heard, Range
<1> QED BY <1>1, <1>2, <1>3, FilterKeeps DEF PathInv

(* The bridge leaves the capture and the receiving Line alone.             *)
LEMMA OthersKeep ==
    ASSUME PathInv, UNCHANGED <<vars, lineVars>>
    PROVE  PathInv'
BY DEF PathInv, CaptureInv, SeenIsSent, CountersInv, NewestInv, LossInv, IsNewest, Latest,
       DeliveryInv, InOrderOnce, ClockInv, TimelineKept, Line!TimelineKept, vars, stats,
       lineVars,
       Heard, Range, Newest, TrulyMissing, SeqNo, Packets

(* Capture, delivery and clock stay in step, whatever the network does.    *)
THEOREM PathInvariant == PathSpec => []PathInv
<1>1. PathInit => PathInv
  BY InitHolds
<1>2. PathInv /\ [PathNext]_pathVars => PathInv'
  BY SendKeeps, ArriveKeeps, OthersKeep DEF PathNext, BridgeNext, pathVars
<1> QED BY <1>1, <1>2, PTL DEF PathSpec

(* The loss that pcap_to_wav reports is never below the true one.          *)
THEOREM LossIsNeverUnderreported == PathSpec => []LossNeverUnderreported
<1>1. PathInv => LossNeverUnderreported
  <2>1. SUFFICES ASSUME PathInv, seen # <<>>
                 PROVE  LostPackets >= Cardinality(TrulyMissing)
    BY DEF LossNeverUnderreported
  <2>2. /\ seen \in Seq(Nat) /\ packetCount \in Nat /\ expectedPackets \in Nat
        /\ Cardinality(TrulyMissing) \in Nat
        /\ expectedPackets >= packetCount + Cardinality(TrulyMissing)
    BY <2>1, FS_CardinalityType DEF PathInv, CaptureInv, SeenIsSent, CountersInv, LossInv
  <2> QED BY <2>2 DEF LostPackets
<1> QED BY <1>1, PathInvariant, PTL

(* Without a packet out of order it is the true one.                       *)
THEOREM LossIsExact == PathSpec => []LossExact
<1>1. PathInv => LossExact
  <2>1. SUFFICES ASSUME PathInv, seen # <<>>, outOfOrder = 0
                 PROVE  LostPackets = Cardinality(TrulyMissing)
    BY DEF LossExact
  <2>2. /\ seen \in Seq(Nat) /\ packetCount \in Nat /\ expectedPackets \in Nat
        /\ Cardinality(TrulyMissing) \in Nat
        /\ expectedPackets = packetCount + Cardinality(TrulyMissing)
    BY <2>1, FS_CardinalityType DEF PathInv, CaptureInv, SeenIsSent, CountersInv, LossInv
  <2> QED BY <2>2 DEF LostPackets
<1> QED BY <1>1, PathInvariant, PTL

(* A Line's modem gets the packets of a source once and in order.          *)
THEOREM ModemHearsInOrder == PathSpec => []InOrderOnce
BY PathInvariant, PTL DEF PathInv

(* It gets as many samples as the sender's clock advanced.                 *)
THEOREM ModemKeepsTime == PathSpec => []TimelineKept
<1>1. PathInv => TimelineKept
  BY DEF PathInv, ClockInv
<1> QED BY <1>1, PathInvariant, PTL

(* So what the capture tool says of lost packets can be relied on ...      *)
THEOREM LossStaysReported == PathSpec => []LossIsReported
<1>1. LossNeverUnderreported /\ LossExact => LossIsReported
  BY DEF LossIsReported
<1> QED BY <1>1, LossIsNeverUnderreported, LossIsExact, PTL

(* ... and the modem hears the stream as it was sent.                      *)
THEOREM ModemKeepsHearing == PathSpec => []ModemHearsTheStream
<1>1. InOrderOnce /\ TimelineKept => ModemHearsTheStream
  BY DEF ModemHearsTheStream
<1> QED BY <1>1, ModemHearsInOrder, ModemKeepsTime, PTL
----------------------------------------------------------------------------
(* What audit_rtp compares at a hop: the number and the timestamp.         *)
ClearHop(h, captured) ==
    /\ (SeqNo(captured[h[2]]) - SeqNo(captured[h[1]])) % SeqRange = 1
    /\ (sent[captured[h[2]]].stamp - sent[captured[h[1]]].stamp) % StampRange = Samples

Clean(flow, captured) == \A h \in Hops(flow) : ClearHop(h, captured)

WrapHop(h, captured) ==
    /\ (SeqNo(captured[h[2]]) - SeqNo(captured[h[1]])) % SeqRange = 1
    /\ SeqNo(captured[h[2]]) < SeqNo(captured[h[1]])

Wraps(flow, captured) == {h \in Hops(flow) : WrapHop(h, captured)}

(* A flow that is not empty has a first and a last packet.                 *)
IsFirst(flow, f) == f \in flow /\ \A i \in flow : f <= i
IsLast(flow, l)  == l \in flow /\ \A i \in flow : i <= l

(* So many packets, wrapping so many times, were sent between these two.   *)
Span(first, last, count, wraps) ==
    /\ last = first + count - 1
    /\ sent[last].stamp = (sent[first].stamp + (last - first) * Samples) % StampRange
    /\ wraps = (First + last) \div SeqRange - (First + first) \div SeqRange

Sound(flow, captured) ==
    /\ IsFiniteSet(Wraps(flow, captured))
    /\ \A h \in Hops(flow) : captured[h[2]] = captured[h[1]] + 1
    /\ \A f, l \in flow : IsFirst(flow, f) /\ IsLast(flow, l) =>
          Span(captured[f], captured[l], Cardinality(flow), Cardinality(Wraps(flow, captured)))

(* What may come next of a flow is near its last packet, though packets of *)
(* the other may have come in between.                                     *)
Near(flow, ssrc) ==
    \A l \in flow, n \in Packets :
        /\ IsLast(flow, l) /\ sent[n].ssrc = ssrc
        /\ Newest - Late <= n /\ n <= Newest + Burst
        => n - seen[l] <= Burst + Late /\ seen[l] - n <= Late

FlowInv(ssrc) ==
    LET flow == Flow(ssrc)
    IN  /\ IsFiniteSet(flow)
        /\ flow # {} => (\E l : IsLast(flow, l)) /\ (\E f : IsFirst(flow, f))
        /\ Near(flow, ssrc)
        /\ Clean(flow, seen) => Sound(flow, seen)

(* The SSRC changes at most once.                                          *)
OneHandover == \A m, n \in Packets : m <= n => sent[m].ssrc <= sent[n].ssrc

AuditInv == OneHandover /\ \A ssrc \in {0, 1} : FlowInv(ssrc)
----------------------------------------------------------------------------
(* A step of one tells the packet that was sent next.                      *)
LEMMA StepTells ==
    ASSUME NEW a \in Nat, NEW b \in Nat, b - a <= Burst + Late, a - b <= Late,
           (SeqNo(b) - SeqNo(a)) % SeqRange = 1
    PROVE  b = a + 1
<1> USE ModuliAssumption, WindowAssumption
<1> DEFINE x == First + b
           y == First + a
           c == 0
<1>1. /\ SeqRange \in Nat /\ SeqRange > 1 /\ x \in Int /\ y \in Int /\ x - y + c = b - a
      /\ Late \in Nat /\ Burst \in Nat
      /\ 2 * (Burst + Late) <= SeqRange /\ 2 * (Late + 1) <= SeqRange
  OBVIOUS
<1>2. -SeqRange <= x - y + c /\ x - y + c < SeqRange /\ c \in Int
  BY <1>1
<1>3. Reduced(SeqRange, x, y, c) = 1
  <2>1. (x % SeqRange) \in Int /\ (y % SeqRange) \in Int
    BY <1>1, DivMod
  <2>2. (x % SeqRange) - (y % SeqRange) + c = (x % SeqRange) - (y % SeqRange)
    BY <2>1
  <2> QED BY <2>2 DEF SeqNo, Reduced
<1> HIDE DEF x, y, c
<1>4. Reduced(SeqRange, x, y, c) = IF x - y + c >= 0 THEN x - y + c ELSE x - y + c + SeqRange
  BY <1>1, <1>2, SequenceDifference
<1>5. b - a = 1 \/ b - a = 1 - SeqRange
  BY <1>1, <1>3, <1>4
<1> QED BY <1>1, <1>5

(* The timestamp that is one packet later.                                 *)
LEMMA StampTells ==
    ASSUME NEW M \in Nat \ {0}, NEW u \in Int, NEW y \in 0 .. M - 1, NEW s \in Int,
           (y - (u % M)) % M = s
    PROVE  y = (u + s) % M
<1> DEFINE c == 0
<1>0. y \in Int /\ c \in Int
  OBVIOUS
<1>1. CaughtUp(M, u, y, c) = (y + c) % M
  <2> HIDE DEF c
  <2> QED BY <1>0, ModCatchesUp
<1>2. u + ((y - (u % M)) % M) + 0 = u + s /\ y + 0 = y
  OBVIOUS
<1>3. (y + M * c) % M = y
  <2> HIDE DEF c
  <2> QED BY <1>0, ModUnique
<1>4. y + M * c = y
  OBVIOUS
<1> QED BY <1>1, <1>2, <1>3, <1>4 DEF CaughtUp

(* The quotient grows where the number wraps around.                       *)
LEMMA DivStep ==
    ASSUME NEW M \in Nat, M > 1, NEW x \in Int
    PROVE  /\ (x + 1) \div M = (x \div M) + IF (x + 1) % M < x % M THEN 1 ELSE 0
           /\ x \div M \in Int
<1> DEFINE q == x \div M
           r == x % M
           qq == (x + 1) \div M
           rr == (x + 1) % M
<1>0. M \in Nat \ {0} /\ x + 1 \in Int
  OBVIOUS
<1>1. x = M * q + r /\ r \in 0 .. M - 1 /\ q \in Int
  BY <1>0, DivMod
<1>2. x + 1 = M * qq + rr /\ rr \in 0 .. M - 1 /\ qq \in Int
  <2> DEFINE z == x + 1
  <2>1. z \in Int
    BY <1>0
  <2> HIDE DEF z
  <2>2. z = M * (z \div M) + (z % M) /\ z % M \in 0 .. M-1 /\ z \div M \in Int
    BY <1>0, <2>1, DivMod
  <2> QED BY <2>2 DEF z
<1> HIDE DEF q, r, qq, rr
<1> DEFINE d == qq - q
<1>3. M * d = M * qq - M * q /\ d \in Int /\ qq = q + d
  BY <1>1, <1>2
<1> HIDE DEF d
<1>4. M * d = r + 1 - rr
  BY <1>1, <1>2, <1>3
<1>5. d >= 0
  <2>1. SUFFICES ASSUME d <= -1 PROVE FALSE
    BY <1>3
  <2>2. M * d <= -M
    BY <1>3, <2>1
  <2> QED BY <1>1, <1>2, <1>4, <2>2
<1>6. d <= 1
  <2>1. SUFFICES ASSUME d >= 2 PROVE FALSE
    BY <1>3
  <2>2. M * d >= M * 2
    BY <1>3, <2>1
  <2> QED BY <1>1, <1>2, <1>4, <2>2
<1>7. CASE d = 0
  <2>1. rr = r + 1
    BY <1>1, <1>2, <1>4, <1>7
  <2> QED BY <1>1, <1>3, <1>7, <2>1 DEF q, r, qq, rr
<1>8. CASE d = 1
  <2>1. rr = r + 1 - M
    BY <1>1, <1>2, <1>4, <1>8
  <2> QED BY <1>1, <1>3, <1>8, <2>1 DEF q, r, qq, rr
<1> QED BY <1>3, <1>5, <1>6, <1>7, <1>8

(* A position is in a hop with the next one of the flow.                   *)
LEMMA HopsAre ==
    ASSUME NEW flow
    PROVE  /\ \A h \in Hops(flow) : h = <<h[1], h[2]>>
           /\ \A a, b : <<a, b>> \in Hops(flow) <=>
                 a \in flow /\ b \in flow /\ a < b /\ \A i \in flow : i <= a \/ b <= i
BY DEF Hops

(* A further packet adds the hop from what was the last.                   *)
LEMMA HopsGrow ==
    ASSUME NEW flow \in SUBSET Nat, NEW l \in flow, IsLast(flow, l), NEW k \in Nat, l < k
    PROVE  Hops(flow \cup {k}) = Hops(flow) \cup {<<l, k>>}
<1> DEFINE grown == flow \cup {k}
<1>1. /\ l \in Nat /\ flow \subseteq Nat
      /\ \A i \in flow : i \in Nat /\ i <= l /\ i < k /\ i # k
      /\ \A i : i \in grown <=> i \in flow \/ i = k
  BY DEF IsLast
<1> HIDE DEF grown
<1>2. ASSUME NEW a, NEW b
      PROVE  <<a, b>> \in Hops(grown) <=> <<a, b>> \in Hops(flow) \/ (a = l /\ b = k)
  <2>1. /\ <<a, b>> \in Hops(grown) <=>
              a \in grown /\ b \in grown /\ a < b /\ \A i \in grown : i <= a \/ b <= i
        /\ <<a, b>> \in Hops(flow) <=>
              a \in flow /\ b \in flow /\ a < b /\ \A i \in flow : i <= a \/ b <= i
    BY HopsAre
  <2>2. ASSUME <<a, b>> \in Hops(grown)
        PROVE  <<a, b>> \in Hops(flow) \/ (a = l /\ b = k)
    <3>1. CASE b = k
      <4>1. a \in flow
        BY <1>1, <2>1, <2>2, <3>1
      <4>2. l <= a \/ k <= l
        BY <1>1, <2>1, <2>2, <3>1
      <4> QED BY <1>1, <3>1, <4>1, <4>2
    <3>2. CASE b # k
      <4>1. b \in flow /\ a \in grown /\ a < b
        BY <1>1, <2>1, <2>2, <3>2
      <4>2. a # k
        BY <1>1, <4>1
      <4> QED BY <1>1, <2>1, <2>2, <4>1, <4>2
    <3> QED BY <3>1, <3>2
  <2>3. ASSUME <<a, b>> \in Hops(flow)
        PROVE  <<a, b>> \in Hops(grown)
    <3>1. a \in flow /\ b \in flow /\ a < b /\ \A i \in flow : i <= a \/ b <= i
      BY <2>1, <2>3
    <3>2. ASSUME NEW i \in grown PROVE i <= a \/ b <= i
      <4>1. CASE i \in flow
        BY <3>1, <4>1
      <4>2. CASE i = k
        BY <1>1, <3>1, <4>2
      <4> QED BY <1>1, <4>1, <4>2
    <3> QED BY <1>1, <2>1, <3>1, <3>2
  <2>4. ASSUME a = l, b = k
        PROVE  <<a, b>> \in Hops(grown)
    <3>1. ASSUME NEW i \in grown PROVE i <= l \/ k <= i
      <4>1. CASE i \in flow
        BY <1>1, <4>1
      <4>2. CASE i = k
        BY <4>2
      <4> QED BY <1>1, <4>1, <4>2
    <3> QED BY <1>1, <2>1, <2>4, <3>1
  <2> QED BY <2>2, <2>3, <2>4
<1>3. Hops(grown) \subseteq Hops(flow) \cup {<<l, k>>}
  <2>1. ASSUME NEW h \in Hops(grown) PROVE h \in Hops(flow) \cup {<<l, k>>}
    <3>1. h = <<h[1], h[2]>>
      BY HopsAre
    <3> QED BY <1>2, <3>1
  <2> QED BY <2>1
<1>4. Hops(flow) \cup {<<l, k>>} \subseteq Hops(grown)
  <2>1. ASSUME NEW h \in Hops(flow) PROVE h \in Hops(grown)
    <3>1. h = <<h[1], h[2]>>
      BY HopsAre
    <3> QED BY <1>2, <3>1
  <2> QED BY <1>2, <2>1
<1> QED BY <1>3, <1>4 DEF grown

(* One packet alone has no hop.                                            *)
LEMMA NoHops ==
    ASSUME NEW k \in Nat PROVE Hops({k}) = {}
BY DEF Hops

(* The sent packets have a timestamp.                                      *)
LEMMA StampsInRange ==
    ASSUME SeenIsSent, NEW n \in Packets
    PROVE  n \in Nat /\ sent[n].stamp \in 0 .. StampRange - 1 /\ sent[n].ssrc \in {0, 1}
<1> DEFINE T == [stamp : 0 .. StampRange - 1, ssrc : {0, 1}]
<1> HIDE DEF T
<1>1. sent \in Seq(T) /\ n \in 1 .. Len(sent)
  BY DEF SeenIsSent, Packets, T
<1>2. sent[n] \in T /\ n \in Nat
  BY <1>1
<1> QED BY <1>2 DEF T

(* The first packet of a flow.                                             *)
LEMMA SoundAlone ==
    ASSUME SeenIsSent, NEW k \in Nat, NEW captured, captured[k] \in Packets
    PROVE  Sound({k}, captured)
<1> USE ModuliAssumption
<1> DEFINE n == captured[k]
<1>1. n \in Nat /\ sent[n].stamp \in 0 .. StampRange - 1
  BY StampsInRange
<1>2. Hops({k}) = {} /\ Wraps({k}, captured) = {}
  BY NoHops DEF Wraps
<1>3. Cardinality({k}) = 1 /\ Cardinality({}) = 0 /\ IsFiniteSet({})
  BY FS_EmptySet, FS_Singleton
<1>4. Span(n, n, 1, 0)
  <2> HIDE DEF n
  <2>1. n = n + 1 - 1 /\ n - n = 0 /\ 0 * Samples = 0
    BY <1>1
  <2>2. sent[n].stamp % StampRange = sent[n].stamp
    <3> DEFINE y == sent[n].stamp
               z == 0
    <3>1. y \in 0 .. StampRange - 1 /\ StampRange \in Nat \ {0} /\ z \in Int
          /\ y + StampRange * z = y
      BY <1>1
    <3> HIDE DEF y, z
    <3>2. (y + StampRange * z) % StampRange = y
      BY <3>1, ModUnique
    <3> QED BY <3>1, <3>2 DEF y
  <2>3. (First + n) \div SeqRange \in Int
    <3>1. First + n \in Int /\ SeqRange \in Nat \ {0}
      BY <1>1
    <3> QED BY <3>1, DivMod
  <2>4. sent[n].stamp + 0 = sent[n].stamp
        /\ 0 = (First + n) \div SeqRange - (First + n) \div SeqRange
    BY <1>1, <2>3
  <2> QED BY <2>1, <2>2, <2>4 DEF Span
<1> QED BY <1>2, <1>3, <1>4 DEF Sound, IsFirst, IsLast

(* A packet that follows cleanly keeps the flow what the audit takes it    *)
(* for.                                                                    *)
LEMMA SoundGrows ==
    ASSUME SeenIsSent, NEW flow \in SUBSET Nat, IsFiniteSet(flow), NEW k \in Nat,
           NEW l \in flow, IsLast(flow, l), NEW f \in flow, IsFirst(flow, f), l < k,
           NEW captured, NEW now, now[k] \in Packets,
           \A i \in flow : captured[i] \in Packets /\ now[i] = captured[i],
           now[k] - captured[l] <= Burst + Late, captured[l] - now[k] <= Late,
           Clean(flow, captured) => Sound(flow, captured),
           Clean(flow \cup {k}, now)
    PROVE  Sound(flow \cup {k}, now)
<1> USE ModuliAssumption
<1> DEFINE grown == flow \cup {k}
           n     == now[k]
           last  == captured[l]
           first == captured[f]
           wraps == Wraps(flow, captured)
<1>1. /\ Hops(grown) = Hops(flow) \cup {<<l, k>>} /\ k \notin flow
      /\ n \in Packets /\ last \in Packets /\ first \in Packets
      /\ n \in Nat /\ last \in Nat /\ first \in Nat
  <2>1. n \in Packets /\ last \in Packets /\ first \in Packets
    OBVIOUS
  <2>2. k \notin flow
    BY DEF IsLast
  <2> QED BY <2>1, <2>2, HopsGrow, StampsInRange
<1>2. ASSUME NEW h \in Hops(flow)
      PROVE  /\ h[1] \in flow /\ h[2] \in flow
             /\ captured[h[1]] = now[h[1]] /\ captured[h[2]] = now[h[2]]
  BY DEF Hops
<1>3. Clean(flow, captured)
  <2>1. ASSUME NEW h \in Hops(flow) PROVE ClearHop(h, captured)
    <3>1. ClearHop(h, now)
      BY <1>1 DEF Clean
    <3> QED BY <1>2, <3>1 DEF ClearHop
  <2> QED BY <2>1 DEF Clean
<1>4. Sound(flow, captured)
  BY <1>3
<1>5. /\ (SeqNo(n) - SeqNo(last)) % SeqRange = 1
      /\ (sent[n].stamp - sent[last].stamp) % StampRange = Samples
  <2>1. ClearHop(<<l, k>>, now)
    BY <1>1 DEF Clean
  <2>2. <<l, k>>[1] = l /\ <<l, k>>[2] = k /\ now[l] = captured[l]
    OBVIOUS
  <2> QED BY <2>1, <2>2 DEF ClearHop
<1>6. n = last + 1
  BY <1>1, <1>5, StepTells
<1>7. Span(first, last, Cardinality(flow), Cardinality(wraps)) /\ IsFiniteSet(wraps)
  BY <1>4 DEF Sound
<1>8. sent[n].stamp = (sent[first].stamp + (n - first) * Samples) % StampRange
  <2> DEFINE u == sent[first].stamp + (last - first) * Samples
             y == sent[n].stamp
             s == Samples
             M == StampRange
  <2>1. /\ sent[first].stamp \in Nat /\ sent[n].stamp \in 0 .. StampRange - 1
        /\ StampRange \in Nat \ {0}
    BY <1>1, StampsInRange
  <2>2. u \in Int /\ y \in 0 .. M - 1 /\ s \in Int /\ M \in Nat \ {0}
    BY <1>1, <2>1
  <2>3. (y - (u % M)) % M = s
    BY <1>5, <1>7 DEF Span
  <2>4. u + s = sent[first].stamp + (n - first) * Samples
    <3>1. n - first = (last - first) + 1
      BY <1>1, <1>6
    <3>2. (n - first) * Samples = (last - first) * Samples + Samples
      <4> DEFINE d == last - first
      <4>1. d \in Int /\ n - first = d + 1
        BY <1>1, <3>1
      <4> HIDE DEF d
      <4>2. (d + 1) * Samples = d * Samples + Samples
        BY <4>1
      <4> QED BY <4>1, <4>2 DEF d
    <3> QED BY <1>1, <2>1, <3>2
  <2> HIDE DEF u, y, s, M
  <2>5. y = (u + s) % M
    BY <2>2, <2>3, StampTells
  <2> QED BY <2>4, <2>5 DEF y, M
<1>9. Cardinality(grown) = Cardinality(flow) + 1 /\ Cardinality(flow) \in Nat
  BY <1>1, FS_AddElement, FS_CardinalityType
<1> DEFINE step == IF SeqNo(n) < SeqNo(last) THEN 1 ELSE 0
<1>10. (First + n) \div SeqRange = (First + last) \div SeqRange + step
       /\ (First + last) \div SeqRange \in Int /\ (First + first) \div SeqRange \in Int
  <2> DEFINE x == First + last
             w == First + first
             M == SeqRange
  <2>1. x \in Int /\ w \in Int /\ M \in Nat /\ M > 1 /\ M \in Nat \ {0} /\ First + n = x + 1
    BY <1>1, <1>6
  <2>2. step = IF (x + 1) % M < x % M THEN 1 ELSE 0
    BY <2>1 DEF SeqNo
  <2> HIDE DEF x, w, M, step
  <2>3. /\ (x + 1) \div M = (x \div M) + (IF (x + 1) % M < x % M THEN 1 ELSE 0)
        /\ x \div M \in Int
    BY <2>1, DivStep
  <2>4. w \div M \in Int
    BY <2>1, DivMod
  <2> QED BY <2>1, <2>2, <2>3, <2>4 DEF x, w, M
<1>11. Wraps(grown, now) = wraps \cup (IF step = 1 THEN {<<l, k>>} ELSE {})
  <2>1. \A h \in Hops(flow) : WrapHop(h, now) <=> WrapHop(h, captured)
    BY <1>2 DEF WrapHop
  <2>2. WrapHop(<<l, k>>, now) <=> step = 1
    <3>1. now[<<l, k>>[1]] = last /\ now[<<l, k>>[2]] = n
      OBVIOUS
    <3> HIDE DEF last, n
    <3> QED BY <1>5, <3>1 DEF WrapHop
  <2> HIDE DEF step, grown
  <2> QED BY <1>1, <2>1, <2>2 DEF Wraps
<1>12. IsFiniteSet(Wraps(grown, now))
       /\ Cardinality(Wraps(grown, now)) = Cardinality(wraps) + step
       /\ Cardinality(wraps) \in Nat
  <2>1. <<l, k>> \notin wraps
    <3>1. <<l, k>> \notin Hops(flow)
      BY <1>1, HopsAre
    <3> QED BY <3>1 DEF Wraps
  <2>2. IsFiniteSet(wraps) /\ Cardinality(wraps) \in Nat
    BY <1>7, FS_CardinalityType
  <2> DEFINE new == <<l, k>>
  <2> HIDE DEF wraps, grown, new
  <2>3. IsFiniteSet(wraps \cup {new}) /\ Cardinality(wraps \cup {new}) = Cardinality(wraps) + 1
    BY <2>1, <2>2, FS_AddElement DEF new
  <2>4. CASE step = 1
    <3>1. Wraps(grown, now) = wraps \cup {new}
      BY <1>11, <2>4 DEF new
    <3> QED BY <2>2, <2>3, <2>4, <3>1
  <2>5. CASE step = 0
    <3>1. Wraps(grown, now) = wraps
      BY <1>11, <2>5
    <3> QED BY <2>2, <2>5, <3>1
  <2> QED BY <2>4, <2>5
<1>13. Span(first, n, Cardinality(grown), Cardinality(Wraps(grown, now)))
  <2> DEFINE count == Cardinality(flow)
             wrapped == Cardinality(wraps)
             p == (First + last) \div SeqRange
             q == (First + first) \div SeqRange
  <2>1. last = first + count - 1 /\ wrapped = p - q /\ count \in Nat /\ wrapped \in Nat
        /\ p \in Int /\ q \in Int /\ step \in {0, 1}
    BY <1>7, <1>9, <1>10, <1>12 DEF Span
  <2>2. /\ Cardinality(grown) = count + 1
        /\ Cardinality(Wraps(grown, now)) = wrapped + step
        /\ (First + n) \div SeqRange = p + step
    BY <1>9, <1>10, <1>12
  <2> HIDE DEF count, wrapped, p, step
  <2>3. n = first + (count + 1) - 1 /\ wrapped + step = (p + step) - q
    BY <1>1, <1>6, <2>1
  <2> QED BY <1>8, <2>2, <2>3 DEF Span
<1>14. ASSUME NEW h \in Hops(grown) PROVE now[h[2]] = now[h[1]] + 1
  <2>1. CASE h \in Hops(flow)
    BY <1>2, <1>4, <2>1 DEF Sound
  <2>2. CASE h = <<l, k>>
    BY <1>6, <2>2
  <2> QED BY <1>1, <2>1, <2>2
<1>15. ASSUME NEW i \in grown, NEW j \in grown, IsFirst(grown, i), IsLast(grown, j)
       PROVE  now[i] = first /\ now[j] = n
  <2>1. j = k
    <3>1. k <= j /\ (j \in flow => j <= l)
      BY <1>15 DEF IsLast
    <3> QED BY <3>1
  <2>2. i = f
    <3>1. i <= f /\ (i \in flow => f <= i) /\ f <= l
      BY <1>15 DEF IsFirst, IsLast
    <3> QED BY <3>1
  <2> QED BY <2>1, <2>2
<1> QED BY <1>12, <1>13, <1>14, <1>15 DEF Sound
----------------------------------------------------------------------------
(* What a flow is after a capture.                                         *)
LEMMA FlowGrows ==
    ASSUME SeenIsSent, NEW n \in Packets, seen' = Append(seen, n), sent' = sent, NEW ssrc
    PROVE  LET k == Len(seen) + 1
           IN  /\ k \in Nat /\ Flow(ssrc) \subseteq Nat
               /\ seen'[k] = n
               /\ \A i \in Flow(ssrc) : i < k /\ seen[i] \in Packets /\ seen'[i] = seen[i]
               /\ Flow(ssrc)' = IF sent[n].ssrc = ssrc THEN Flow(ssrc) \cup {k} ELSE Flow(ssrc)
<1> DEFINE k == Len(seen) + 1
<1>1. seen \in Seq(Nat) /\ n \in Nat /\ \A i \in DOMAIN seen : seen[i] \in Packets
  BY DEF SeenIsSent, Packets
<1>2. DOMAIN seen' = 1 .. k /\ DOMAIN seen = 1 .. Len(seen) /\ Len(seen) \in Nat
  BY <1>1
<1>3. \A i \in 1 .. k : seen'[i] = IF i < k THEN seen[i] ELSE n
  BY <1>1
<1>4. seen'[k] = n /\ \A i \in 1 .. Len(seen) : i < k /\ seen'[i] = seen[i]
  BY <1>2, <1>3
<1>5. Flow(ssrc) = {i \in 1 .. Len(seen) : sent[seen[i]].ssrc = ssrc}
  BY <1>2 DEF Flow
<1>6. Flow(ssrc)' = {i \in 1 .. k : sent[seen'[i]].ssrc = ssrc}
  BY <1>2 DEF Flow
<1>7. 1 .. k = (1 .. Len(seen)) \cup {k}
  BY <1>2
<1>8. Flow(ssrc)' = IF sent[n].ssrc = ssrc THEN Flow(ssrc) \cup {k} ELSE Flow(ssrc)
  <2> HIDE DEF k
  <2> QED BY <1>4, <1>5, <1>6, <1>7
<1> QED BY <1>1, <1>2, <1>4, <1>5, <1>8

(* The newest packet after a capture.                                      *)
LEMMA NewestGrows ==
    ASSUME CaptureInv, NEW n \in Packets, seen' = Append(seen, n)
    PROVE  /\ seen = <<>> => Newest' = n
           /\ seen # <<>> => /\ Newest \in Nat
                             /\ Newest' = IF Newest < n THEN n ELSE Newest
<1>1. seen \in Seq(Nat) /\ n \in Nat
  BY DEF CaptureInv, SeenIsSent, Packets
<1>2. Heard \in SUBSET Nat /\ Heard' = Heard \cup {n}
  <2>1. \A i \in 1 .. Len(seen) + 1 : seen'[i] = IF i <= Len(seen) THEN seen[i] ELSE n
    BY <1>1
  <2>2. DOMAIN seen' = 1 .. Len(seen) + 1 /\ DOMAIN seen = 1 .. Len(seen)
    BY <1>1
  <2> QED BY <1>1, <2>1, <2>2 DEF Heard, Range
<1>3. CASE seen = <<>>
  <2>1. Heard' = {n}
    BY <1>2, <1>3 DEF Heard, Range
  <2> QED BY <1>1, <1>3, <2>1, MaxIs DEF Newest
<1>4. CASE seen # <<>>
  <2>1. Newest \in Heard /\ \A m \in Heard : Newest >= m
    BY <1>4 DEF CaptureInv, NewestInv, IsNewest
  <2> DEFINE newest == Newest
             now == IF newest < n THEN n ELSE newest
  <2>2. newest \in Nat /\ \A m \in Heard : m \in Nat
    BY <1>2, <2>1
  <2>3. now \in Heard' /\ Heard' \in SUBSET Nat
    BY <1>1, <1>2, <2>1
  <2>4. ASSUME NEW m \in Heard' PROVE now >= m
    <3>1. CASE m = n
      BY <1>1, <2>2, <3>1
    <3>2. CASE m \in Heard
      <4>1. newest >= m /\ m \in Nat
        BY <2>1, <2>2, <3>2
      <4> QED BY <1>1, <2>2, <4>1
    <3> QED BY <1>2, <3>1, <3>2
  <2> HIDE DEF now
  <2>5. Max(Heard') = now
    BY <2>3, <2>4, MaxIs
  <2>6. Newest' = Max(Heard')
    BY DEF Newest
  <2> QED BY <1>4, <2>2, <2>5, <2>6 DEF now
<1> QED BY <1>3, <1>4

(* The window moves on, and what may come next stays near.                 *)
LEMMA NearStays ==
    ASSUME CaptureInv, OneHandover, NEW n \in Packets, Arrives(n),
           seen' = Append(seen, n), sent' = sent,
           NEW ssrc \in {0, 1}, Near(Flow(ssrc), ssrc)
    PROVE  Near(Flow(ssrc), ssrc)'
<1> USE WindowAssumption
<1> DEFINE k == Len(seen) + 1
           flow == Flow(ssrc)
<1>1. SeenIsSent
  BY DEF CaptureInv
<1>2. /\ k \in Nat /\ flow \subseteq Nat /\ seen'[k] = n
      /\ \A i \in flow : i < k /\ seen[i] \in Packets /\ seen'[i] = seen[i]
      /\ flow' = IF sent[n].ssrc = ssrc THEN flow \cup {k} ELSE flow
  BY <1>1, FlowGrows
<1>3. Packets' = Packets /\ Packets \subseteq Nat
  BY <1>1, StampsInRange DEF Packets
<1>4. /\ seen = <<>> => Newest' = n
      /\ seen # <<>> =>
            /\ Newest \in Nat
            /\ Newest' = IF Newest < n THEN n ELSE Newest
            /\ Newest - Late <= n /\ n <= Newest + Burst
  BY NewestGrows DEF Arrives
<1> DEFINE newest == Newest
           after == Newest'
<1>5. ASSUME NEW l \in flow', NEW m \in Packets, IsLast(flow', l), sent[m].ssrc = ssrc,
             after - Late <= m, m <= after + Burst
      PROVE  m - seen'[l] <= Burst + Late /\ seen'[l] - m <= Late
  <2>1. m \in Nat /\ n \in Nat
    BY <1>3
  <2>2. CASE sent[n].ssrc = ssrc
    <3>1. l = k
      <4>1. k \in flow' /\ (l \in flow \/ l = k)
        BY <1>2, <2>2
      <4>2. k <= l
        BY <1>5, <4>1 DEF IsLast
      <4> QED BY <1>2, <4>1, <4>2
    <3>2. seen'[l] = n
      BY <1>2, <3>1
    <3> HIDE DEF after
    <3>3. CASE seen = <<>>
      <4>1. after = n
        BY <1>4, <3>3 DEF after
      <4> QED BY <1>5, <2>1, <3>2, <4>1
    <3>4. CASE seen # <<>>
      <4> HIDE DEF newest
      <4>1. /\ newest \in Nat /\ after = IF newest < n THEN n ELSE newest
            /\ newest - Late <= n /\ n <= newest + Burst
        BY <1>4, <3>4 DEF after, newest
      <4> QED BY <1>5, <2>1, <3>2, <4>1
    <3> QED BY <3>3, <3>4
  <2>3. CASE sent[n].ssrc # ssrc
    <3>1. l \in flow /\ IsLast(flow, l) /\ seen'[l] = seen[l] /\ seen[l] \in Packets
      BY <1>2, <1>5, <2>3 DEF IsLast
    <3>2. seen # <<>> /\ seen[l] \in Heard /\ sent[seen[l]].ssrc = ssrc
      BY <3>1 DEF Flow, Heard, Range
    <3>3. /\ newest \in Nat /\ after = IF newest < n THEN n ELSE newest
          /\ newest - Late <= n /\ n <= newest + Burst
      BY <1>4, <3>2
    <3>4. seen[l] <= newest
      BY <1>3, <3>1, <3>2 DEF CaptureInv, NewestInv, IsNewest
    <3> HIDE DEF newest, after
    <3>5. newest - Late <= m /\ m <= newest + Burst
      <4>1. CASE n <= newest
        BY <1>5, <2>1, <3>3, <4>1
      <4>2. CASE newest < n
        <5>1. after = n /\ seen[l] < n /\ seen[l] \in Nat
          <6>1. seen[l] \in Nat
            BY <1>3, <3>1
          <6>2. after = n
            BY <3>3, <4>2
          <6> QED BY <2>1, <3>3, <3>4, <4>2, <6>1, <6>2
        <5>2. sent[seen[l]].ssrc <= sent[n].ssrc
          <6>1. seen[l] <= n
            BY <2>1, <5>1
          <6> QED BY <3>1, <6>1 DEF OneHandover
        <5>3. sent[n].ssrc \in {0, 1}
          BY <1>1, StampsInRange
        <5>4. ~(n <= m)
          <6>1. SUFFICES ASSUME n <= m PROVE FALSE
            OBVIOUS
          <6>2. sent[n].ssrc <= sent[m].ssrc
            BY <6>1 DEF OneHandover
          <6> QED BY <1>5, <2>3, <3>2, <5>2, <5>3, <6>2
        <5> QED BY <1>5, <2>1, <3>3, <4>2, <5>1, <5>4
      <4> QED BY <2>1, <3>3, <4>1, <4>2
    <3>6. m - seen[l] <= Burst + Late /\ seen[l] - m <= Late
      BY <1>5, <3>1, <3>5 DEF Near, newest
    <3> QED BY <3>1, <3>6
  <2> QED BY <2>2, <2>3
<1>6. \A l \in flow', m \in Packets' :
          /\ IsLast(flow', l) /\ sent'[m].ssrc = ssrc
          /\ Newest' - Late <= m /\ m <= Newest' + Burst
          => m - seen'[l] <= Burst + Late /\ seen'[l] - m <= Late
  BY <1>3, <1>5
<1> QED BY <1>6 DEF Near, IsLast

(* The invariant of a flow after a step that sends nothing new.            *)
LEMMA FlowAfter ==
    ASSUME sent' = sent, NEW ssrc, NEW flow, Flow(ssrc)' = flow, Near(Flow(ssrc), ssrc)',
           IsFiniteSet(flow),
           flow # {} => (\E l : IsLast(flow, l)) /\ (\E f : IsFirst(flow, f)),
           Clean(flow, seen') => Sound(flow, seen')
    PROVE  FlowInv(ssrc)'
<1>1. Hops(Flow(ssrc))' = Hops(flow)
  BY DEF Hops
<1>2. Clean(Flow(ssrc), seen)' <=> Clean(flow, seen')
  BY <1>1 DEF Clean, ClearHop, SeqNo
<1>3. Wraps(Flow(ssrc), seen)' = Wraps(flow, seen')
  BY <1>1 DEF Wraps, WrapHop, SeqNo
<1>4. Sound(Flow(ssrc), seen)' <=> Sound(flow, seen')
  BY <1>1, <1>3 DEF Sound, Span, IsFirst, IsLast
<1>5. (Flow(ssrc) # {} => (\E l : IsLast(Flow(ssrc), l)) /\ (\E f : IsFirst(Flow(ssrc), f)))'
  BY DEF IsLast, IsFirst
<1> QED BY <1>2, <1>4, <1>5 DEF FlowInv

(* A captured packet, whichever flow it is of.                             *)
LEMMA CaptureKeepsFlow ==
    ASSUME CaptureInv, OneHandover, NEW n \in Packets, Capture(n),
           NEW ssrc \in {0, 1}, FlowInv(ssrc)
    PROVE  FlowInv(ssrc)'
<1> DEFINE k == Len(seen) + 1
           flow == Flow(ssrc)
           now == seen'
<1>0. Arrives(n) /\ seen' = Append(seen, n) /\ sent' = sent
  BY DEF Capture
<1>1. SeenIsSent
  BY DEF CaptureInv
<1>2. /\ k \in Nat /\ flow \subseteq Nat /\ now[k] = n
      /\ \A i \in flow : i < k /\ seen[i] \in Packets /\ now[i] = seen[i]
      /\ flow' = IF sent[n].ssrc = ssrc THEN flow \cup {k} ELSE flow
  BY <1>0, <1>1, FlowGrows
<1>3. /\ IsFiniteSet(flow) /\ Near(flow, ssrc) /\ (Clean(flow, seen) => Sound(flow, seen))
      /\ flow # {} => (\E l : IsLast(flow, l)) /\ (\E f : IsFirst(flow, f))
  BY DEF FlowInv
<1>4. Near(Flow(ssrc), ssrc)'
  BY <1>0, <1>3, NearStays
<1>5. CASE sent[n].ssrc # ssrc
  <2>1. flow' = flow
    BY <1>2, <1>5
  <2>2. ASSUME NEW h \in Hops(flow)
        PROVE  now[h[1]] = seen[h[1]] /\ now[h[2]] = seen[h[2]]
    <3>1. h[1] \in flow /\ h[2] \in flow
      BY DEF Hops
    <3> QED BY <1>2, <3>1
  <2>3. Clean(flow, now) => Clean(flow, seen)
    <3>1. ASSUME NEW h \in Hops(flow), ClearHop(h, now) PROVE ClearHop(h, seen)
      BY <2>2, <3>1 DEF ClearHop
    <3> QED BY <3>1 DEF Clean
  <2>4. Wraps(flow, now) = Wraps(flow, seen)
    <3>1. ASSUME NEW h \in Hops(flow) PROVE WrapHop(h, now) <=> WrapHop(h, seen)
      BY <2>2 DEF WrapHop
    <3> QED BY <3>1 DEF Wraps
  <2>5. Sound(flow, seen) => Sound(flow, now)
    <3>1. ASSUME NEW f \in flow, NEW l \in flow, Sound(flow, seen),
                 IsFirst(flow, f), IsLast(flow, l)
          PROVE  Span(now[f], now[l], Cardinality(flow), Cardinality(Wraps(flow, now)))
      <4>1. now[f] = seen[f] /\ now[l] = seen[l]
        BY <1>2
      <4>2. Span(seen[f], seen[l], Cardinality(flow), Cardinality(Wraps(flow, seen)))
        BY <3>1 DEF Sound
      <4> QED BY <2>4, <4>1, <4>2
    <3>2. ASSUME Sound(flow, seen), NEW h \in Hops(flow) PROVE now[h[2]] = now[h[1]] + 1
      BY <2>2, <3>2 DEF Sound
    <3>3. ASSUME Sound(flow, seen) PROVE IsFiniteSet(Wraps(flow, now))
      BY <2>4, <3>3 DEF Sound
    <3> QED BY <3>1, <3>2, <3>3 DEF Sound
  <2>6. Clean(flow, now) => Sound(flow, now)
    BY <1>3, <2>3, <2>5
  <2> HIDE DEF flow, now
  <2> QED BY <1>0, <1>3, <1>4, <2>1, <2>6, FlowAfter DEF flow, now
<1>6. CASE sent[n].ssrc = ssrc
  <2> DEFINE grown == flow \cup {k}
  <2>1. flow' = grown
    BY <1>2, <1>6
  <2>2. IsFiniteSet(grown)
    BY <1>3, FS_AddElement
  <2>3. IsLast(grown, k)
    BY <1>2 DEF IsLast
  <2>4. \E f : IsFirst(grown, f)
    <3>1. CASE flow = {}
      <4>1. IsFirst(grown, k)
        BY <1>2, <3>1 DEF IsFirst
      <4> QED BY <4>1
    <3>2. CASE flow # {}
      <4>1. PICK f : IsFirst(flow, f)
        BY <1>3, <3>2
      <4>2. IsFirst(grown, f)
        BY <1>2, <4>1 DEF IsFirst
      <4> QED BY <4>2
    <3> QED BY <3>1, <3>2
  <2>5. Clean(grown, now) => Sound(grown, now)
    <3>1. CASE flow = {}
      <4>1. grown = {k} /\ now[k] \in Packets
        BY <1>2, <3>1
      <4> QED BY <1>1, <1>2, <4>1, SoundAlone
    <3>2. CASE flow # {}
      <4>1. PICK f : IsFirst(flow, f)
        BY <1>3, <3>2
      <4>2. PICK l : IsLast(flow, l)
        BY <1>3, <3>2
      <4>3. f \in flow /\ l \in flow /\ l < k /\ now[k] = n
        BY <1>2, <4>1, <4>2 DEF IsFirst, IsLast
      <4>4. seen # <<>>
        BY <4>3 DEF Flow
      <4>5. n - seen[l] <= Burst + Late /\ seen[l] - n <= Late
        <5>1. Newest - Late <= n /\ n <= Newest + Burst
          BY <1>0, <4>4 DEF Arrives
        <5> HIDE DEF flow
        <5> QED BY <1>3, <1>6, <4>2, <4>3, <5>1 DEF Near
      <4>6. SUFFICES ASSUME Clean(grown, now) PROVE Sound(grown, now)
        OBVIOUS
      <4>7. /\ flow \in SUBSET Nat /\ k \in Nat /\ IsFiniteSet(flow) /\ now[k] \in Packets
            /\ \A i \in flow : seen[i] \in Packets /\ now[i] = seen[i]
            /\ (Clean(flow, seen) => Sound(flow, seen))
            /\ now[k] - seen[l] <= Burst + Late /\ seen[l] - now[k] <= Late
        BY <1>2, <1>3, <4>3, <4>5
      <4> HIDE DEF k, flow, now
      <4>8. Clean(flow \cup {k}, now)
        BY <4>6
      <4> HIDE DEF grown
      <4>9. Sound(flow \cup {k}, now)
        BY <1>1, <4>1, <4>2, <4>3, <4>7, <4>8, SoundGrows
      <4> QED BY <4>9 DEF grown
    <3> QED BY <3>1, <3>2
  <2> HIDE DEF grown
  <2> QED BY <1>0, <1>4, <2>1, <2>2, <2>3, <2>4, <2>5, FlowAfter
<1> QED BY <1>5, <1>6

(* While the sender still sends, nothing is captured.                      *)
LEMMA NothingCaptured ==
    ASSUME seen = <<>>, NEW ssrc
    PROVE  FlowInv(ssrc)
<1>1. Flow(ssrc) = {} /\ Hops({}) = {}
  BY DEF Flow, Hops
<1>2. Wraps({}, seen) = {} /\ IsFiniteSet({})
  BY <1>1, FS_EmptySet DEF Wraps
<1> QED BY <1>1, <1>2 DEF FlowInv, Near, Clean, Sound

(* Nothing is captured at first.                                           *)
LEMMA AuditStarts == ASSUME PathInit PROVE AuditInv
BY NothingCaptured DEF PathInit, Init, AuditInv, OneHandover, Packets

(* The sender numbers the SSRCs in the order it uses them.                 *)
LEMMA SendKeepsAudit == ASSUME PathInv, AuditInv, SendNext PROVE AuditInv'
<1>1. seen = <<>> /\ seen' = <<>> /\ SeenIsSent
  BY DEF SendNext, Send, HandOver, SendPacket, PathInv, CaptureInv
<1>2. \A ssrc \in {0, 1} : FlowInv(ssrc)'
  <2>1. ASSUME NEW ssrc \in {0, 1} PROVE FlowInv(ssrc)'
    <3>1. Flow(ssrc)' = {} /\ Hops(Flow(ssrc))' = {}
      BY <1>1 DEF Flow, Hops
    <3>2. Wraps(Flow(ssrc), seen)' = {} /\ IsFiniteSet({})
      BY <3>1, FS_EmptySet DEF Wraps
    <3> QED BY <3>1, <3>2 DEF FlowInv, Near, Clean, Sound
  <2> QED BY <2>1
<1>3. OneHandover'
  <2>1. ASSUME NEW stamp, NEW ssrc \in {0, 1}, SendPacket(stamp, ssrc),
               sent # <<>> => ssrc >= Last(sent).ssrc
        PROVE  OneHandover'
    <3> DEFINE k == Len(sent) + 1
    <3>1. sent' = Append(sent, [stamp |-> stamp % StampRange, ssrc |-> ssrc])
      BY <2>1 DEF SendPacket
    <3>2. /\ Packets = 1 .. Len(sent) /\ Packets' = 1 .. k /\ Len(sent) \in Nat
          /\ \A m \in Packets : sent'[m] = sent[m] /\ m < k
          /\ sent'[k].ssrc = ssrc
      BY <1>1, <3>1 DEF SeenIsSent, Packets
    <3>3. \A m \in Packets : sent[m].ssrc <= ssrc /\ sent[m].ssrc \in {0, 1}
      <4>1. ASSUME NEW m \in Packets PROVE sent[m].ssrc <= ssrc /\ sent[m].ssrc \in {0, 1}
        <5>1. Len(sent) \in Packets /\ m <= Len(sent) /\ sent # <<>>
          BY <1>1, <3>2
        <5>2. sent[m].ssrc <= sent[Len(sent)].ssrc
          BY <5>1 DEF AuditInv, OneHandover
        <5>3. sent[Len(sent)].ssrc \in {0, 1} /\ sent[m].ssrc \in {0, 1}
          BY <1>1, <5>1, StampsInRange
        <5> QED BY <2>1, <5>1, <5>2, <5>3 DEF Last
      <4> QED BY <4>1
    <3>4. ASSUME NEW m \in 1 .. k, NEW n \in 1 .. k, m <= n
          PROVE  sent'[m].ssrc <= sent'[n].ssrc
      <4>1. CASE n = k
        BY <3>2, <3>3, <4>1
      <4>2. CASE n # k
        <5>1. m \in Packets /\ n \in Packets
          BY <3>2, <3>4, <4>2
        <5> QED BY <3>2, <3>4, <5>1 DEF AuditInv, OneHandover
      <4> QED BY <4>1, <4>2
    <3> QED BY <3>2, <3>4 DEF OneHandover
  <2>2. ASSUME NEW silent \in {0, 1}, Send(silent) PROVE OneHandover'
    <3>1. CASE sent = <<>>
      BY <2>1, <2>2, <3>1 DEF Send
    <3>2. CASE sent # <<>>
      <4>1. Last(sent).ssrc \in {0, 1}
        <5>1. Len(sent) \in Packets
          BY <1>1, <3>2 DEF SeenIsSent, Packets
        <5> QED BY <1>1, <5>1, StampsInRange DEF Last
      <4>2. SendPacket(Last(sent).stamp + (1 + silent) * Samples, Last(sent).ssrc)
        BY <2>2, <3>2 DEF Send
      <4>3. Last(sent).ssrc >= Last(sent).ssrc
        BY <4>1
      <4> QED BY <2>1, <4>1, <4>2, <4>3
    <3> QED BY <3>1, <3>2
  <2>3. ASSUME NEW ssrc \in {0, 1}, HandOver(ssrc) PROVE OneHandover'
    BY <2>1, <2>3 DEF HandOver
  <2> QED BY <2>2, <2>3 DEF SendNext
<1> QED BY <1>2, <1>3 DEF AuditInv

(* A captured packet keeps the invariant of both flows.                    *)
LEMMA ArriveKeepsAudit ==
    ASSUME PathInv, AuditInv, NEW n \in Packets, NEW port \in Ports, Arrive(n, port)
    PROVE  AuditInv'
<1>1. Capture(n) /\ sent' = sent /\ CaptureInv /\ OneHandover
  BY DEF Arrive, Capture, PathInv, AuditInv
<1>2. \A ssrc \in {0, 1} : FlowInv(ssrc)'
  BY <1>1, CaptureKeepsFlow DEF AuditInv
<1>3. OneHandover'
  BY <1>1 DEF OneHandover, Packets
<1> QED BY <1>2, <1>3 DEF AuditInv

(* The bridge leaves the capture alone.                                    *)
LEMMA OthersKeepAudit == ASSUME AuditInv, UNCHANGED vars PROVE AuditInv'
<1>1. sent' = sent /\ seen' = seen
  BY DEF vars
<1>2. ASSUME NEW ssrc \in {0, 1} PROVE FlowInv(ssrc)'
  <2>1. FlowInv(ssrc)
    BY DEF AuditInv
  <2>2. Flow(ssrc)' = Flow(ssrc)
    BY <1>1 DEF Flow
  <2>3. Near(Flow(ssrc), ssrc)'
    BY <1>1, <2>1 DEF FlowInv, Near, IsLast, Flow, Newest, Heard, Range, Packets
  <2> QED BY <1>1, <2>1, <2>2, <2>3, FlowAfter DEF FlowInv
<1>3. OneHandover'
  BY <1>1 DEF AuditInv, OneHandover, Packets
<1> QED BY <1>2, <1>3 DEF AuditInv

(* Each flow without an anomaly is the stream as it was sent.              *)
THEOREM AuditInvariant == PathSpec => []AuditInv
<1>1. PathInit => AuditInv
  BY AuditStarts
<1>2. PathInv /\ AuditInv /\ [PathNext]_pathVars => AuditInv'
  BY SendKeepsAudit, ArriveKeepsAudit, OthersKeepAudit DEF PathNext, BridgeNext, pathVars
<1> QED BY <1>1, <1>2, PathInvariant, PTL DEF PathSpec

(* What audit_rtp calls clean is what was sent.                            *)
THEOREM CleanAuditStaysTrue == PathSpec => []CleanAuditIsTrue
<1>1. AuditInv => CleanAuditIsTrue
  <2>1. SUFFICES ASSUME AuditInv, NEW ssrc \in {0, 1},
                        SequenceAnomalies(Flow(ssrc)) = {}, TimestampAnomalies(Flow(ssrc)) = {}
        PROVE  /\ \A h \in Hops(Flow(ssrc)) : seen[h[2]] = seen[h[1]] + 1
               /\ \A i, j \in Flow(ssrc) : (\A k \in Flow(ssrc) : i <= k /\ k <= j) =>
                     Span(seen[i], seen[j], Cardinality(Flow(ssrc)),
                          Cardinality(SequenceWraps(Flow(ssrc))))
    BY DEF CleanAuditIsTrue, Span
  <2>2. Clean(Flow(ssrc), seen)
    BY <2>1 DEF Clean, ClearHop, SequenceAnomalies, TimestampAnomalies, StepOf
  <2>3. Sound(Flow(ssrc), seen)
    BY <2>1, <2>2 DEF AuditInv, FlowInv
  <2>4. SequenceWraps(Flow(ssrc)) = Wraps(Flow(ssrc), seen)
    BY DEF SequenceWraps, Wraps, WrapHop, StepOf
  <2> QED BY <2>3, <2>4 DEF Sound, IsFirst, IsLast
<1> QED BY <1>1, AuditInvariant, PTL
----------------------------------------------------------------------------
(* What the bridge has before it or remembers is a packet that arrived.    *)
Arrived(p, heard, packets) ==
    /\ p.n \in heard
    /\ p = [n |-> p.n, seq |-> SeqNo(p.n), stamp |-> packets[p.n].stamp,
            ssrc |-> packets[p.n].ssrc, port |-> p.port]

(* Packets are not much older than those that were forwarded before them.  *)
QueueInv ==
    /\ queue \in Seq([n : Nat, seq : Nat, stamp : Nat, ssrc : {0, 1}, port : Ports])
    /\ \A i \in DOMAIN queue : Arrived(queue[i], Heard, sent)
    /\ \A i, j \in DOMAIN queue : i < j => queue[i].n - Late <= queue[j].n

HistoryInv ==
    history # None =>
        /\ history = [packet |-> history.packet, under |-> history.under]
        /\ Arrived(history.packet, Heard, sent) /\ history.under = registered
        /\ \A i \in DOMAIN queue : history.packet.n - Late <= queue[i].n

WireInv == wire # None => wire.packet.n \in Heard

BridgeInv == QueueInv /\ HistoryInv /\ WireInv /\ RedundancyIsTrue

(* The bridge does not miss as many packets in a row as there are sequence *)
(* numbers, which would make it take the packet after them for the next.   *)
BridgeKeepsUp ==
    history # None /\ queue # <<>> => Head(queue).n - history.packet.n <= SeqRange
----------------------------------------------------------------------------
(* What red_primary takes for announced.                                   *)
LEMMA NothingAnnounced == Red!Announced(<<>>) = 0
<1> DEFINE Sums(iter) == iter = [s \in SUBSET {} |->
                                   IF s = {} THEN 0
                                   ELSE iter[s \ {Red!Max(s)}] + <<>>[Red!Max(s)]]
           sums == CHOOSE iter : Sums(iter)
<1>1. SUBSET {} = {{}} /\ DOMAIN <<>> = {}
  OBVIOUS
<1>2. \E iter : Sums(iter)
  <2>1. Sums([s \in {{}} |-> 0])
    BY <1>1
  <2> QED BY <2>1
<1>3. Sums(sums)
  BY <1>2
<1>4. sums[{}] = 0
  BY <1>1, <1>3
<1> QED BY <1>1, <1>4 DEF Red!Announced, Red!FoldLeft, Red!MapThenFoldSet

(* The one length that is announced.                                      *)
LEMMA OneAnnounced ==
    ASSUME NEW length \in Nat PROVE Red!Announced(<<length>>) = length
<1> DEFINE Sums(iter) == iter = [s \in SUBSET {1} |->
                                   IF s = {} THEN 0
                                   ELSE iter[s \ {Red!Max(s)}] + <<length>>[Red!Max(s)]]
           sums == CHOOSE iter : Sums(iter)
<1>1. DOMAIN <<length>> = {1} /\ <<length>>[1] = length
  OBVIOUS
<1>2. \A s \in SUBSET {1} : s # {} => s = {1}
  OBVIOUS
<1>3. Red!Max({1}) = 1
  <2>1. \E x \in {1} : \A y \in {1} : x >= y
    OBVIOUS
  <2>2. Red!Max({1}) \in {1}
    BY <2>1 DEF Red!Max
  <2> QED BY <2>2
<1>4. \E iter : Sums(iter)
  <2> DEFINE g == [s \in SUBSET {1} |-> IF s = {} THEN 0 ELSE length]
  <2>1. ASSUME NEW s \in SUBSET {1}
        PROVE  g[s] = IF s = {} THEN 0 ELSE g[s \ {Red!Max(s)}] + <<length>>[Red!Max(s)]
    <3>1. CASE s = {}
      BY <3>1
    <3>2. CASE s # {}
      <4>1. s = {1} /\ s \ {Red!Max(s)} = {} /\ <<length>>[Red!Max(s)] = length
        BY <1>1, <1>2, <1>3, <3>2
      <4>2. g[{}] = 0 /\ g[{1}] = length
        OBVIOUS
      <4> HIDE DEF g
      <4> QED BY <3>2, <4>1, <4>2
    <3> QED BY <3>1, <3>2
  <2>2. g = [s \in SUBSET {1} |-> g[s]]
    OBVIOUS
  <2> HIDE DEF g
  <2>3. g = [s \in SUBSET {1} |->
               IF s = {} THEN 0 ELSE g[s \ {Red!Max(s)}] + <<length>>[Red!Max(s)]]
    BY <2>1, <2>2, Zenon
  <2>4. Sums(g)
    BY <2>3
  <2> QED BY <2>4
<1>5. Sums(sums)
  <2> HIDE DEF Sums
  <2> QED BY <1>4
<1>6. sums[{1}] = length
  <2> DEFINE body(s) == IF s = {} THEN 0 ELSE sums[s \ {Red!Max(s)}] + <<length>>[Red!Max(s)]
  <2>1. sums = [s \in SUBSET {1} |-> body(s)]
    BY <1>5
  <2> HIDE DEF sums, Sums
  <2>2. \A s \in SUBSET {1} : sums[s] = body(s)
    <3> HIDE DEF body
    <3> QED BY <2>1
  <2>3. sums[{}] = 0
    BY <2>2
  <2>4. {1} \ {Red!Max({1})} = {} /\ <<length>>[Red!Max({1})] = length /\ {1} # {}
    BY <1>1, <1>3
  <2>5. body({1}) = sums[{1} \ {Red!Max({1})}] + <<length>>[Red!Max({1})]
    OBVIOUS
  <2>6. sums[{1}] = 0 + length
    BY <2>2, <2>3, <2>4, <2>5
  <2> QED BY <2>6
<1> QED BY <1>1, <1>6 DEF Red!Announced, Red!FoldLeft, Red!MapThenFoldSet

(* The blocks of a packet that was wrapped, told apart.                    *)
LEMMA BlocksApart ==
    ASSUME NEW a, NEW b
    PROVE  LET both == Red!Payload(a) \o Red!Payload(b)
           IN  /\ Len(both) = 2 * Samples
               /\ SubSeq(both, 1, Samples) = Red!Payload(a)
               /\ SubSeq(both, Samples + 1, Len(both)) = Red!Payload(b)
               /\ Len(Red!Payload(a)) = Samples
               /\ SubSeq(Red!Payload(a), 1, Len(Red!Payload(a))) = Red!Payload(a)
<1> USE ModuliAssumption
<1> DEFINE s == Red!Payload(a)
           t == Red!Payload(b)
           both == s \o t
<1>1. /\ s \in Seq({a, b}) /\ t \in Seq({a, b}) /\ Len(s) = Samples /\ Len(t) = Samples
      /\ \A i \in 1 .. Samples : s[i] = a /\ t[i] = b
      /\ Samples \in Nat /\ Samples > 0
  BY DEF Red!Payload
<1>2. s = [i \in 1 .. Samples |-> a] /\ t = [i \in 1 .. Samples |-> b]
  BY DEF Red!Payload
<1> HIDE DEF s, t
<1>3. /\ both \in Seq({a, b}) /\ Len(both) = 2 * Samples
      /\ \A i \in 1 .. Samples : both[i] = a /\ both[Samples + i] = b
  BY <1>1
<1> HIDE DEF both
<1>4. SubSeq(both, 1, Samples) = s
  <2>1. SubSeq(both, 1, Samples) = [i \in 1 .. Samples |-> both[i]]
    BY <1>1, <1>3
  <2> QED BY <1>2, <1>3, <2>1
<1>5. SubSeq(both, Samples + 1, 2 * Samples) = t
  <2>1. SubSeq(both, Samples + 1, 2 * Samples) = [i \in 1 .. Samples |-> both[Samples + i]]
    BY <1>1, <1>3
  <2> QED BY <1>2, <1>3, <2>1
<1>6. SubSeq(s, 1, Samples) = s
  BY <1>1
<1> QED BY <1>1, <1>3, <1>4, <1>5, <1>6 DEF s, t, both

(* A packet that follows by its number and time was sent next.             *)
LEMMA FollowerIsNext ==
    ASSUME SeenIsSent, NEW p, NEW q, Arrived(p, Heard, sent), Arrived(q, Heard, sent),
           q.n - p.n <= SeqRange, p.n - Late <= q.n, p.ssrc = q.ssrc,
           (q.seq - p.seq) % SeqRange = 1,
           (q.stamp - p.stamp) % StampRange = Samples
    PROVE  /\ q.n - 1 = p.n
           /\ sent[q.n - 1].ssrc = sent[q.n].ssrc
           /\ sent[q.n].stamp = (sent[q.n - 1].stamp + Samples) % StampRange
<1> USE ModuliAssumption, WindowAssumption
<1> DEFINE a == p.n
           b == q.n
<1>1. a \in Packets /\ b \in Packets /\ a \in Nat /\ b \in Nat
  BY StampsInRange DEF SeenIsSent, Arrived, Heard, Range
<1>2. /\ p.seq = SeqNo(a) /\ q.seq = SeqNo(b)
      /\ p.stamp = sent[a].stamp /\ q.stamp = sent[b].stamp
      /\ p.ssrc = sent[a].ssrc /\ q.ssrc = sent[b].ssrc
  BY DEF Arrived
<1>3. /\ sent[a].stamp \in Nat /\ sent[b].stamp \in 0 .. StampRange - 1
      /\ StampRange \in Nat \ {0}
  BY <1>1, StampsInRange
<1>4. (SeqNo(b) - SeqNo(a)) % SeqRange = 1 /\ b - a <= SeqRange /\ a - b <= Late
      /\ (sent[b].stamp - sent[a].stamp) % StampRange = Samples
  <2>1. b - a <= SeqRange /\ a - Late <= b
    OBVIOUS
  <2>2. a - b <= Late
    <3> HIDE DEF a, b
    <3> QED BY <1>1, <2>1
  <2> QED BY <1>2, <2>1, <2>2
<1> HIDE DEF a, b
<1>5. b = a + 1
  <2>1. CASE b - a < SeqRange
    <3> DEFINE x == First + b
               y == First + a
               c == 0
    <3>1. /\ x \in Int /\ y \in Int /\ c \in Int /\ x - y + c = b - a
          /\ SeqRange \in Nat \ {0} /\ SeqRange > 1 /\ -SeqRange <= b - a
      BY <1>1, <1>4
    <3>2. Reduced(SeqRange, x, y, c) = 1
      <4>1. (x % SeqRange) \in Int /\ (y % SeqRange) \in Int
        <5> HIDE DEF x, y
        <5> QED BY <3>1, DivMod
      <4>2. (x % SeqRange) - (y % SeqRange) + c = (x % SeqRange) - (y % SeqRange)
        BY <4>1
      <4> QED BY <1>4, <4>2 DEF SeqNo, Reduced
    <3> HIDE DEF x, y, c
    <3>3. Reduced(SeqRange, x, y, c) = IF x - y + c >= 0 THEN x - y + c
                                       ELSE x - y + c + SeqRange
      BY <2>1, <3>1, SequenceDifference
    <3>4. b - a = 1 \/ b - a = 1 - SeqRange
      BY <1>1, <3>1, <3>2, <3>3
    <3> QED BY <1>1, <1>4, <3>1, <3>4
  <2>2. CASE b - a = SeqRange
    <3> DEFINE x == First + a
               r == x % SeqRange
    <3>1. x \in Int /\ SeqRange \in Nat \ {0} /\ First + b = x + SeqRange
      BY <1>1, <2>2
    <3>2. /\ r \in 0 .. SeqRange - 1 /\ x \div SeqRange \in Int
          /\ x = SeqRange * (x \div SeqRange) + r
      <4> HIDE DEF x
      <4> QED BY <3>1, DivMod
    <3> DEFINE k == (x \div SeqRange) + 1
    <3>3. x + SeqRange = r + SeqRange * k /\ k \in Int
      <4> DEFINE j == x \div SeqRange
      <4>1. j \in Int /\ x = SeqRange * j + r
        BY <3>2
      <4> HIDE DEF x, r, j
      <4>2. SeqRange * (j + 1) = SeqRange * j + SeqRange
        BY <4>1
      <4> QED BY <3>1, <3>2, <4>1, <4>2 DEF j
    <3> HIDE DEF x, k, r
    <3>4. (x + SeqRange) % SeqRange = r
      BY <3>1, <3>2, <3>3, ModUnique
    <3>5. SeqNo(b) = SeqNo(a) /\ SeqNo(a) \in Int
      BY <3>1, <3>2, <3>4 DEF SeqNo, x, r
    <3>6. (SeqNo(b) - SeqNo(a)) % SeqRange = 0
      BY <3>5
    <3> QED BY <1>4, <3>6
  <2> QED BY <1>1, <1>4, <2>1, <2>2
<1>6. sent[b].stamp = (sent[a].stamp + Samples) % StampRange
  <2> DEFINE u == sent[a].stamp
             y == sent[b].stamp
             s == Samples
             M == StampRange
  <2>1. u \in Int /\ y \in 0 .. M - 1 /\ s \in Int /\ M \in Nat \ {0} /\ (y - u) % M = s
    BY <1>3, <1>4
  <2>2. u % M = u
    <3> DEFINE z == 0
    <3>1. u \in 0 .. M - 1 /\ z \in Int /\ u + M * z = u
      BY <1>1, <2>1, StampsInRange
    <3> HIDE DEF u, z, M
    <3>2. (u + M * z) % M = u
      BY <2>1, <3>1, ModUnique
    <3> QED BY <3>1, <3>2
  <2>3. (y - (u % M)) % M = s
    BY <2>1, <2>2
  <2> HIDE DEF u, y, s, M
  <2>4. y = (u + s) % M
    BY <2>1, <2>3, StampTells
  <2> QED BY <2>4 DEF u, y, s, M
<1>7. b - 1 = a
  BY <1>1, <1>5
<1>8. sent[a].ssrc = sent[b].ssrc
  BY <1>2
<1> QED BY <1>6, <1>7, <1>8 DEF a, b

(* A packet that is sent as it came has its audio only.                    *)
LEMMA PlainIsTrue ==
    ASSUME NEW n, NEW under, NEW before, NEW packet, packet.n = n,
           wire' = [packet |-> packet, lengths |-> <<>>, data |-> Red!Payload(n),
                    under |-> under, before |-> before]
    PROVE  RedundancyIsTrue'
<1> USE ModuliAssumption
<1>1. wire'.lengths = <<>> /\ wire'.packet.n = n /\ wire'.data = Red!Payload(n)
  OBVIOUS
<1>2. RedundancyIsPredecessor'
  BY <1>1 DEF RedundancyIsPredecessor
<1>3. Red!RedPrimary(<<>>, Red!Payload(n)) = Red!Payload(n)
  <2>1. /\ Len(Red!Payload(n)) = Samples /\ 0 < Samples
        /\ SubSeq(Red!Payload(n), 0 + 1, Len(Red!Payload(n))) = Red!Payload(n)
    BY BlocksApart
  <2> QED BY <2>1, NothingAnnounced DEF Red!RedPrimary
<1>4. PrimaryPreserved'
  <2>1. PrimaryPreserved' <=>
           (wire' # None =>
              Red!RedPrimary(wire'.lengths, wire'.data) = Red!Payload(wire'.packet.n))
    BY DEF PrimaryPreserved, Red!PrimaryPreserved
  <2> QED BY <1>1, <1>3, <2>1
<1> QED BY <1>2, <1>4 DEF RedundancyIsTrue

(* What left stays what it is.                                             *)
LEMMA RedundancyStays ==
    ASSUME RedundancyIsTrue, wire' = wire, wire # None => sent' = sent
    PROVE  RedundancyIsTrue'
<1>1. RedundancyIsPredecessor'
  <2>1. CASE wire = None
    BY <2>1 DEF RedundancyIsPredecessor
  <2>2. CASE wire # None
    BY <2>2 DEF RedundancyIsTrue, RedundancyIsPredecessor, Red!Payload
  <2> QED BY <2>1, <2>2
<1>2. PrimaryPreserved'
  <2>1. PrimaryPreserved' <=>
           (wire' # None =>
              Red!RedPrimary(wire'.lengths, wire'.data) = Red!Payload(wire'.packet.n))
    BY DEF PrimaryPreserved, Red!PrimaryPreserved
  <2>2. PrimaryPreserved <=>
           (wire # None =>
              Red!RedPrimary(wire.lengths, wire.data) = Red!Payload(wire.packet.n))
    BY DEF PrimaryPreserved, Red!PrimaryPreserved
  <2> QED BY <2>1, <2>2 DEF RedundancyIsTrue
<1> QED BY <1>1, <1>2 DEF RedundancyIsTrue

(* A packet for the ATA is queued, or passes the bridge when the queue is  *)
(* full.                                                                   *)
LEMMA ArriveKeepsBridge ==
    ASSUME PathInv, BridgeInv, NEW n \in Packets, NEW port \in Ports, Arrive(n, port)
    PROVE  BridgeInv'
<1> USE ModuliAssumption, WindowAssumption
<1> DEFINE f == Forwarded(n, port)
           T == [n : Nat, seq : Nat, stamp : Nat, ssrc : {0, 1}, port : Ports]
<1>1. /\ Capture(n) /\ Arrives(n) /\ seen' = Append(seen, n) /\ sent' = sent /\ SeenIsSent
      /\ Red!Forward(f)
  BY DEF Arrive, Capture, PathInv, CaptureInv
<1>2. n \in Nat /\ seen \in Seq(Nat)
  BY <1>1, StampsInRange DEF SeenIsSent
<1>3. Heard' = Heard \cup {n} /\ Heard \subseteq Nat
  <2>1. \A i \in 1 .. Len(seen) + 1 : seen'[i] = IF i <= Len(seen) THEN seen[i] ELSE n
    BY <1>1, <1>2
  <2>2. DOMAIN seen' = 1 .. Len(seen) + 1 /\ DOMAIN seen = 1 .. Len(seen)
    BY <1>1, <1>2
  <2> QED BY <1>2, <2>1, <2>2 DEF Heard, Range
<1>4. \A m \in Heard : m - Late <= n
  <2>1. ASSUME NEW m \in Heard PROVE m - Late <= n
    <3>1. seen # <<>>
      BY DEF Heard, Range
    <3>2. m <= Newest /\ Newest \in Nat /\ m \in Nat
      BY <1>3, <3>1 DEF PathInv, CaptureInv, NewestInv, IsNewest
    <3>3. Newest - Late <= n
      BY <1>1, <3>1 DEF Arrives
    <3> HIDE DEF f
    <3> QED BY <1>2, <3>2, <3>3
  <2> QED BY <2>1
<1>5. f \in T /\ f.n = n
  <2>1. SeqNo(n) \in Nat
    <3>1. First + n \in Int /\ SeqRange \in Nat \ {0}
      BY <1>2
    <3>2. (First + n) % SeqRange \in 0 .. SeqRange - 1
      BY <3>1, DivMod
    <3> QED BY <3>2 DEF SeqNo
  <2>2. sent[n].stamp \in Nat /\ sent[n].ssrc \in {0, 1}
    BY <1>1, StampsInRange
  <2> QED BY <1>2, <2>1, <2>2 DEF Forwarded
<1>6. Arrived(f, Heard', sent')
  <2>1. f.n = n /\ f.port = port /\ n \in Heard'
    BY <1>3 DEF Forwarded
  <2>2. f = [n |-> n, seq |-> SeqNo(n), stamp |-> sent'[n].stamp, ssrc |-> sent'[n].ssrc,
             port |-> port]
    BY <1>1 DEF Forwarded
  <2> QED BY <2>1, <2>2 DEF Arrived
<1> HIDE DEF f, T
<1>7. /\ queue \in Seq(T) /\ \A i \in DOMAIN queue : Arrived(queue[i], Heard, sent)
      /\ \A i, j \in DOMAIN queue : i < j => queue[i].n - Late <= queue[j].n
  BY DEF BridgeInv, QueueInv, T
<1>8. ASSUME NEW p, Arrived(p, Heard, sent)
      PROVE  Arrived(p, Heard', sent') /\ p.n - Late <= n
  BY <1>1, <1>3, <1>4, <1>8 DEF Arrived
<1>9. CASE queue' = Append(queue, f) /\ UNCHANGED wire
  <2> DEFINE k == Len(queue) + 1
  <2>1. DOMAIN queue' = 1 .. k /\ DOMAIN queue = 1 .. Len(queue)
        /\ Len(queue) \in Nat /\ queue' \in Seq(T)
    BY <1>5, <1>7, <1>9
  <2>2. \A i \in 1 .. k : queue'[i] = IF i = k THEN f ELSE queue[i]
    BY <1>7, <1>9, <2>1
  <2>3. \A i \in 1 .. k : i = k \/ i \in DOMAIN queue
    BY <2>1
  <2>4. \A i \in DOMAIN queue' : Arrived(queue'[i], Heard', sent')
    BY <1>6, <1>7, <1>8, <2>1, <2>2, <2>3
  <2>5. \A i, j \in DOMAIN queue' : i < j => queue'[i].n - Late <= queue'[j].n
    <3>1. ASSUME NEW i \in 1 .. k, NEW j \in 1 .. k, i < j
          PROVE  queue'[i].n - Late <= queue'[j].n
      <4>1. i \in DOMAIN queue /\ i # k /\ queue'[i] = queue[i]
        BY <2>1, <2>2, <3>1
      <4>2. CASE j = k
        <5>1. queue'[j] = f
          BY <2>2, <4>2
        <5> QED BY <1>5, <1>7, <1>8, <4>1, <5>1
      <4>3. CASE j # k
        <5>1. j \in DOMAIN queue /\ queue'[j] = queue[j]
          BY <2>2, <2>3, <4>3
        <5> QED BY <1>7, <3>1, <4>1, <5>1
      <4> QED BY <4>2, <4>3
    <3> QED BY <2>1, <3>1
  <2>6. QueueInv'
    BY <2>1, <2>4, <2>5 DEF QueueInv, T
  <2>7. HistoryInv'
    <3>1. history' = history /\ registered' = registered
      BY <1>1 DEF Red!Forward
    <3>2. SUFFICES ASSUME history # None PROVE HistoryInv'
      BY <3>1 DEF HistoryInv
    <3>3. /\ history = [packet |-> history.packet, under |-> history.under]
          /\ Arrived(history.packet, Heard, sent) /\ history.under = registered
          /\ \A i \in DOMAIN queue : history.packet.n - Late <= queue[i].n
      BY <3>2 DEF BridgeInv, HistoryInv
    <3>4. Arrived(history.packet, Heard', sent') /\ history.packet.n - Late <= n
      BY <1>8, <3>3
    <3>5. ASSUME NEW i \in 1 .. k PROVE history.packet.n - Late <= queue'[i].n
      BY <1>5, <2>2, <2>3, <3>3, <3>4
    <3> QED BY <2>1, <3>1, <3>3, <3>4, <3>5 DEF HistoryInv
  <2>8. WireInv' /\ RedundancyIsTrue'
    BY <1>1, <1>3, <1>9, RedundancyStays DEF BridgeInv, WireInv
  <2> QED BY <2>6, <2>7, <2>8 DEF BridgeInv
<1>10. CASE wire' = Red!Unchanged(f) /\ UNCHANGED queue
  <2>1. QueueInv'
    <3>1. \A i \in DOMAIN queue' : Arrived(queue'[i], Heard', sent')
      BY <1>7, <1>8, <1>10
    <3> QED BY <1>7, <1>10, <3>1 DEF QueueInv, T
  <2>2. HistoryInv'
    <3>1. history' = history /\ registered' = registered
      BY <1>1 DEF Red!Forward
    <3>2. SUFFICES ASSUME history # None PROVE HistoryInv'
      BY <3>1 DEF HistoryInv
    <3>3. Arrived(history.packet, Heard', sent')
      BY <1>8, <3>2 DEF BridgeInv, HistoryInv
    <3> QED BY <1>10, <3>1, <3>2, <3>3 DEF BridgeInv, HistoryInv
  <2>3. WireInv' /\ RedundancyIsTrue'
    <3>1. wire' = [packet |-> f, lengths |-> <<>>, data |-> Red!Payload(n),
                   under |-> None, before |-> None]
      BY <1>5, <1>10 DEF Red!Unchanged
    <3>2. wire'.packet.n \in Heard'
      BY <1>3, <1>5, <3>1
    <3> QED BY <1>5, <3>1, <3>2, PlainIsTrue DEF WireInv
  <2> QED BY <2>1, <2>2, <2>3 DEF BridgeInv
<1> QED BY <1>1, <1>9, <1>10 DEF Red!Forward

(* The bridge judges the next packet of its queue.                         *)
LEMMA EncodeKeepsBridge ==
    ASSUME SeenIsSent, BridgeInv, BridgeKeepsUp, Red!Encode, UNCHANGED <<vars, lineVars>>
    PROVE  BridgeInv'
<1> USE ModuliAssumption, WindowAssumption
<1> DEFINE T == [n : Nat, seq : Nat, stamp : Nat, ssrc : {0, 1}, port : Ports]
           p == Head(queue)
           remembered == Red!HistoryNow
<1>1. sent' = sent /\ Heard' = Heard
  BY DEF vars, Heard, Range
<1> HIDE DEF T
<1>2. /\ queue \in Seq(T) /\ queue # <<>>
      /\ \A i \in DOMAIN queue : Arrived(queue[i], Heard, sent)
      /\ \A i, j \in DOMAIN queue : i < j => queue[i].n - Late <= queue[j].n
  BY DEF BridgeInv, QueueInv, T, Red!Encode
<1>3. /\ queue' = Tail(queue) /\ registered' = registration
      /\ Len(queue) \in Nat /\ Len(queue) > 0
      /\ DOMAIN queue = 1 .. Len(queue) /\ DOMAIN queue' = 1 .. Len(queue) - 1
      /\ queue' \in Seq(T) /\ p = queue[1]
  BY <1>2 DEF Red!Encode
<1>4. \A i \in 1 .. Len(queue) - 1 :
         queue'[i] = queue[i + 1] /\ i + 1 \in DOMAIN queue /\ 1 < i + 1
  BY <1>2, <1>3
<1>5. Arrived(p, Heard, sent) /\ p.n \in Nat
      /\ \A i \in DOMAIN queue' : p.n - Late <= queue'[i].n
  <2>1. Arrived(p, Heard, sent)
    BY <1>2, <1>3
  <2>2. p.n \in Nat
    BY <2>1 DEF Arrived, SeenIsSent, Heard, Range
  <2> QED BY <1>2, <1>3, <1>4, <2>1, <2>2
<1>6. QueueInv'
  <2>1. \A i \in DOMAIN queue' : Arrived(queue'[i], Heard', sent')
    BY <1>1, <1>2, <1>3, <1>4
  <2>2. ASSUME NEW i \in DOMAIN queue', NEW j \in DOMAIN queue', i < j
        PROVE  queue'[i].n - Late <= queue'[j].n
    <3>1. i + 1 < j + 1
      BY <1>3, <2>2
    <3> QED BY <1>2, <1>3, <1>4, <3>1
  <2> QED BY <1>3, <2>1, <2>2 DEF QueueInv, T
<1>7. remembered # None =>
         /\ remembered = history /\ history # None /\ registration = registered
         /\ history = [packet |-> history.packet, under |-> history.under]
         /\ Arrived(history.packet, Heard, sent) /\ history.under = registered
         /\ \A i \in DOMAIN queue : history.packet.n - Late <= queue[i].n
  BY DEF Red!HistoryNow, BridgeInv, HistoryInv
<1> HIDE DEF p, remembered
<1>8. CASE Red!IsWrapped(p)
  <2>1. /\ wire' = [packet |-> p,
                    lengths |-> Red!Blocks(p).lengths, data |-> Red!Blocks(p).data,
                    under |-> registration,
                    before |-> IF Red!Follows(p) THEN remembered.under ELSE None]
        /\ history' = [packet |-> p, under |-> registration]
    BY <1>8 DEF Red!Encode, p, remembered
  <2>2. HistoryInv'
    <3>1. history'.packet = p /\ history'.under = registration
      BY <2>1
    <3>2. history' = [packet |-> history'.packet, under |-> history'.under]
      BY <2>1
    <3>3. Arrived(history'.packet, Heard', sent')
      BY <1>1, <1>5, <3>1
    <3> QED BY <1>3, <1>5, <3>1, <3>2, <3>3 DEF HistoryInv
  <2>3. WireInv'
    <3>1. wire'.packet = p
      BY <2>1
    <3> QED BY <1>1, <1>5, <3>1 DEF WireInv, Arrived
  <2>4. CASE ~Red!Follows(p)
    <3>1. Red!Blocks(p) = [lengths |-> <<>>, data |-> Red!Payload(p.n)]
      BY <2>4 DEF Red!Blocks
    <3>2. wire' = [packet |-> p, lengths |-> <<>>, data |-> Red!Payload(p.n),
                   under |-> registration, before |-> None]
      BY <2>1, <2>4, <3>1
    <3>3. RedundancyIsTrue'
      BY <3>2, PlainIsTrue
    <3> QED BY <1>6, <2>2, <2>3, <3>3 DEF BridgeInv
  <2>5. CASE Red!Follows(p)
    <3> DEFINE q == history.packet
    <3>1. /\ remembered = history /\ history # None /\ registration = registered
          /\ Arrived(q, Heard, sent) /\ history.under = registered
          /\ q.n - Late <= p.n /\ p.n - q.n <= SeqRange
          /\ q.ssrc = p.ssrc /\ (p.seq - q.seq) % SeqRange = 1
          /\ (p.stamp - q.stamp) % StampRange = Samples
      <4>1. remembered # None
        BY <2>5 DEF Red!Follows, remembered
      <4>2. /\ remembered = history /\ history # None /\ registration = registered
            /\ Arrived(q, Heard, sent) /\ history.under = registered
            /\ q.n - Late <= p.n
        BY <1>3, <1>7, <4>1
      <4>3. p.n - q.n <= SeqRange
        BY <1>2, <4>2 DEF BridgeKeepsUp, p
      <4> QED BY <2>5, <4>2, <4>3 DEF Red!Follows, remembered
    <3> HIDE DEF q
    <3>2. /\ p.n - 1 = q.n
          /\ sent[p.n - 1].ssrc = sent[p.n].ssrc
          /\ sent[p.n].stamp = (sent[p.n - 1].stamp + Samples) % StampRange
      BY <1>5, <3>1, FollowerIsNext
    <3> DEFINE both == Red!Payload(q.n) \o Red!Payload(p.n)
    <3>3. /\ wire'.packet = p /\ wire'.lengths = <<Samples>> /\ wire'.data = both
          /\ wire'.under = registration /\ wire'.before = registration
      <4>1. Red!Blocks(p) = [lengths |-> <<Samples>>, data |-> both]
        BY <2>5, <3>1 DEF Red!Blocks, remembered, q
      <4> HIDE DEF both
      <4>2. wire' = [packet |-> p, lengths |-> <<Samples>>, data |-> both,
                     under |-> registration, before |-> history.under]
        BY <2>1, <2>5, <3>1, <4>1
      <4> QED BY <3>1, <4>2
    <3>4. /\ Len(both) = 2 * Samples
          /\ SubSeq(both, 1, Samples) = Red!Payload(q.n)
          /\ SubSeq(both, Samples + 1, Len(both)) = Red!Payload(p.n)
      BY BlocksApart
    <3>5. RedundancyIsPredecessor'
      <4>1. SubSeq(wire'.data, 1, Samples) = Red!Payload(p.n - 1)
        BY <3>2, <3>3, <3>4
      <4>2. RedundancyIsPredecessor' <=>
              (wire' # None /\ wire'.lengths # <<>> =>
                 LET n == wire'.packet.n
                 IN  /\ SubSeq(wire'.data, 1, Samples) = Red!Payload(n - 1)
                     /\ sent'[n - 1].ssrc = sent'[n].ssrc
                     /\ sent'[n].stamp = (sent'[n - 1].stamp + Samples) % StampRange
                     /\ wire'.before = wire'.under)
        BY DEF RedundancyIsPredecessor, Red!Payload
      <4> QED BY <1>1, <3>2, <3>3, <4>1, <4>2
    <3>6. PrimaryPreserved'
      <4>1. PrimaryPreserved' <=>
              (wire' # None =>
                 Red!RedPrimary(wire'.lengths, wire'.data) = Red!Payload(wire'.packet.n))
        BY DEF PrimaryPreserved, Red!PrimaryPreserved
      <4> HIDE DEF both
      <4>2. Red!RedPrimary(<<Samples>>, both) = Red!Payload(p.n)
        <5>1. Red!Announced(<<Samples>>) = Samples
          BY OneAnnounced
        <5>2. Samples < Len(both)
          BY <3>4
        <5>3. Red!RedPrimary(<<Samples>>, both) = SubSeq(both, Samples + 1, Len(both))
          BY <5>1, <5>2 DEF Red!RedPrimary
        <5> QED BY <3>4, <5>3
      <4> QED BY <3>3, <4>1, <4>2
    <3> QED BY <1>6, <2>2, <2>3, <3>5, <3>6 DEF BridgeInv, RedundancyIsTrue
  <2> QED BY <2>4, <2>5
<1>9. CASE ~Red!IsWrapped(p)
  <2>1. wire' = Red!Unchanged(p) /\ history' = remembered
    BY <1>9 DEF Red!Encode, p, remembered
  <2>2. wire' = [packet |-> p, lengths |-> <<>>, data |-> Red!Payload(p.n),
                 under |-> None, before |-> None]
    BY <2>1 DEF Red!Unchanged
  <2>3. RedundancyIsTrue'
    BY <2>2, PlainIsTrue
  <2>4. WireInv'
    <3>1. wire'.packet = p
      BY <2>2
    <3> QED BY <1>1, <1>5, <3>1 DEF WireInv, Arrived
  <2>5. HistoryInv'
    <3>1. SUFFICES ASSUME remembered # None PROVE HistoryInv'
      BY <2>1 DEF HistoryInv
    <3>2. history' = history /\ registered' = registered
      BY <1>3, <1>7, <2>1, <3>1
    <3>3. \A i \in DOMAIN queue' : history.packet.n - Late <= queue'[i].n
      BY <1>3, <1>4, <1>7, <3>1
    <3>4. Arrived(history.packet, Heard', sent')
      BY <1>1, <1>7, <3>1
    <3> QED BY <1>7, <3>1, <3>2, <3>3, <3>4 DEF HistoryInv
  <2> QED BY <1>6, <2>3, <2>4, <2>5 DEF BridgeInv
<1> QED BY <1>8, <1>9

(* A registration comes and goes, or the bridge starts anew.               *)
LEMMA ControlKeepsBridge ==
    ASSUME BridgeInv, UNCHANGED <<vars, lineVars>>, wire' = wire,
           \/ UNCHANGED <<queue, registered, history>>
           \/ queue' = <<>> /\ history' = None
    PROVE  BridgeInv'
<1>1. sent' = sent /\ Heard' = Heard
  BY DEF vars, Heard, Range
<1>2. WireInv' /\ RedundancyIsTrue'
  BY <1>1, RedundancyStays DEF BridgeInv, WireInv
<1>3. QueueInv' /\ HistoryInv'
  <2>1. CASE UNCHANGED <<queue, registered, history>>
    BY <1>1, <2>1 DEF BridgeInv, QueueInv, HistoryInv
  <2>2. CASE queue' = <<>> /\ history' = None
    BY <2>2 DEF QueueInv, HistoryInv
  <2> QED BY <2>1, <2>2
<1> QED BY <1>2, <1>3 DEF BridgeInv

(* While the sender still sends, nothing arrived.                          *)
LEMMA SendKeepsBridge == ASSUME PathInv, BridgeInv, SendNext PROVE BridgeInv'
<1>1. seen = <<>> /\ seen' = <<>> /\ UNCHANGED redVars
  BY DEF SendNext, Send, HandOver, SendPacket
<1>2. Heard = {} /\ Heard' = {}
  BY <1>1 DEF Heard, Range
<1>3. queue = <<>> /\ history = None /\ wire = None
  <2>1. queue = <<>>
    <3> DEFINE T == [n : Nat, seq : Nat, stamp : Nat, ssrc : {0, 1}, port : Ports]
    <3> HIDE DEF T
    <3>1. queue \in Seq(T) /\ \A i \in DOMAIN queue : Arrived(queue[i], Heard, sent)
      BY DEF BridgeInv, QueueInv, T
    <3>2. DOMAIN queue = {}
      BY <1>2, <3>1 DEF Arrived
    <3> QED BY <3>1, <3>2
  <2> QED BY <1>2, <2>1 DEF BridgeInv, HistoryInv, WireInv, Arrived
<1>4. queue' = <<>> /\ history' = None /\ wire' = None
  BY <1>1, <1>3 DEF redVars
<1>5. RedundancyIsTrue'
  BY <1>3, <1>4, RedundancyStays DEF BridgeInv
<1> QED BY <1>4, <1>5 DEF BridgeInv, QueueInv, HistoryInv, WireInv

(* Nothing is queued, remembered or sent at first.                         *)
LEMMA BridgeStarts == ASSUME PathInit PROVE BridgeInv
<1>1. queue = <<>> /\ history = None /\ wire = None
  BY DEF PathInit, Red!RedInit
<1> QED BY <1>1 DEF BridgeInv, QueueInv, HistoryInv, WireInv, RedundancyIsTrue,
                RedundancyIsPredecessor, PrimaryPreserved, Red!PrimaryPreserved

(* What leaves a bridge that keeps up is the packet, and the one before    *)
(* it, of the same source and the same call.                               *)
THEOREM RedundancyStaysTrue == PathSpec /\ []BridgeKeepsUp => []RedundancyIsTrue
<1>1. PathInit => BridgeInv
  BY BridgeStarts
<1>2. PathInv /\ BridgeInv /\ BridgeKeepsUp /\ [PathNext]_pathVars => BridgeInv'
  <2> SUFFICES ASSUME PathInv, BridgeInv, BridgeKeepsUp, [PathNext]_pathVars
               PROVE  BridgeInv'
    OBVIOUS
  <2>1. CASE Red!Encode /\ UNCHANGED <<vars, lineVars>>
    BY <2>1, EncodeKeepsBridge DEF PathInv, CaptureInv
  <2>2. CASE /\ UNCHANGED <<vars, lineVars>>
             /\ \E value \in Registrations \cup {None} : Red!Register(value)
    BY <2>2, ControlKeepsBridge DEF Red!Register
  <2>3. CASE UNCHANGED <<vars, lineVars>> /\ Red!Restart
    BY <2>3, ControlKeepsBridge DEF Red!Restart
  <2>4. CASE UNCHANGED pathVars
    BY <2>4, ControlKeepsBridge DEF pathVars, redVars
  <2> QED BY <2>1, <2>2, <2>3, <2>4, SendKeepsBridge, ArriveKeepsBridge
          DEF PathNext, BridgeNext, Red!RedNext
<1>3. BridgeInv => RedundancyIsTrue
  BY DEF BridgeInv
<1> QED BY <1>1, <1>2, <1>3, PathInvariant, PTL DEF PathSpec
=============================================================================
