--------------------------- MODULE RtpContinuity ---------------------------
(***************************************************************************)
(* RtpContinuity.accept of src/src/rtp-continuity.js: what a Line hands to *)
(* its modem program of the packets that arrive.  Packets of another       *)
(* payload type do not get here (RtpEndpoint drops them).                  *)
(***************************************************************************)
EXTENDS Naturals

CONSTANTS
    SeqRange,    \* sequence numbers, 2^16
    StampRange,  \* timestamps, 2^32
    Samples,     \* samples of a packet, 160
    MaxErasure,  \* samples of silence inserted at once, 8000
    None

ContinuityAssumption ==
    /\ SeqRange \in Nat \ {0} /\ StampRange \in Nat \ {0}
    /\ Samples \in Nat /\ 0 < Samples /\ Samples < StampRange
    /\ MaxErasure \in 0 .. StampRange - 1
    /\ None \notin [seq : Nat, ssrc : Nat, end : Nat]

VARIABLES
    previous,  \* this.previous, or None
    restarts,  \* frames handed over with a new clock: the first one, and
               \* those after a new source or a timestamp discontinuity
    base,      \* timestamp of the last of these
    handed     \* samples handed to the modem since then, silence included

ContinuityTypeOK ==
    /\ previous \in [seq : 0 .. SeqRange - 1, ssrc : {0, 1},
                     end : 0 .. StampRange - 1] \cup {None}
    /\ restarts \in Nat
    /\ base \in 0 .. StampRange - 1
    /\ handed \in Nat

ContinuityInit ==
    /\ previous = None
    /\ restarts = 0
    /\ base = 0
    /\ handed = 0

SameSource(ssrc) == previous # None /\ previous.ssrc = ssrc

(* The packet is the one handed over last, or one before it.               *)
LateUnlessEqual(seq, ssrc) ==
    SameSource(ssrc) /\ 2 * ((seq - previous.seq) % SeqRange) >= SeqRange

LateOrDuplicate(seq, ssrc) ==
    /\ SameSource(ssrc)
    /\ LET advance == (seq - previous.seq) % SeqRange
       IN  advance = 0 \/ 2 * advance >= SeqRange

(* Samples between the end of the last frame and this one.                 *)
MissingSinceStart(stamp) == (stamp - (previous.end - Samples)) % StampRange

MissingSamples(stamp) == (stamp - previous.end) % StampRange

(* What is missing is made up with silence when it is not too long.        *)
Continues(stamp, ssrc) ==
    SameSource(ssrc) /\ MissingSamples(stamp) <= MaxErasure

HandOn(seq, stamp, ssrc) ==
    /\ previous' = [seq |-> seq, ssrc |-> ssrc, end |-> (stamp + Samples) % StampRange]
    /\ \/ /\ Continues(stamp, ssrc)
          /\ handed' = handed + MissingSamples(stamp) + Samples
          /\ UNCHANGED <<restarts, base>>
       \/ /\ ~Continues(stamp, ssrc)
          /\ restarts' = restarts + 1
          /\ base' = stamp
          /\ handed' = Samples

Accept(seq, stamp, ssrc) ==
    IF LateOrDuplicate(seq, ssrc) THEN UNCHANGED <<previous, restarts, base, handed>>
    ELSE HandOn(seq, stamp, ssrc)
----------------------------------------------------------------------------
(* The modem's clock is the sender's: the samples handed over since the    *)
(* last restart are as many as its timestamps advanced.                    *)
TimelineKept ==
    previous # None => (base + handed) % StampRange = previous.end
=============================================================================
