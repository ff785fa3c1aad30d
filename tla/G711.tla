-------------------------------- MODULE G711 --------------------------------
(***************************************************************************)
(* The G.711 codecs of src/artifacts/lkma-193a/pcap_to_wav.py, which turn  *)
(* captured audio into samples, and the decoders of                        *)
(* src/research/v34-rx/pcap_util.py and src/research/v90/audit_dil.py.     *)
(* The bytes are looked at one after another.                              *)
(***************************************************************************)
EXTENDS Naturals, Integers, FiniteSetsExt, Bitwise

CONSTANT None

VARIABLE code  \* the byte looked at

Codes   == 0 .. 255
Linear  == -32768 .. 32767
Bias    == 132
Clip    == 32635

G711TypeOK == code \in Codes \cup {None}

G711Init == code = 0

NextCode == code < 255 /\ code' = code + 1
----------------------------------------------------------------------------
Magnitude(sample) == IF sample < 0 THEN -sample ELSE sample

(* The exponent is the highest of seven bits that is set, or 0.            *)
ExponentOf(biased) == Max({0} \cup {e \in 1 .. 7 : biased >= 2 ^ (e + 7)})

LinearToUlaw(sample) ==
    LET biased   == Min({Magnitude(sample), Clip}) + Bias
        exponent == ExponentOf(biased)
        mantissa == (biased \div 2 ^ (exponent + 3)) % 16
    IN  255 - (IF sample < 0 THEN 128 ELSE 0) - exponent * 16 - mantissa

Signed(negative, magnitude) == IF negative THEN -magnitude ELSE magnitude

Unbiased(value) == ((value % 16) * 8 + Bias) * 2 ^ ((value \div 16) % 8)
UlawMagnitude(value) == Unbiased(value) - Bias

UlawToLinear(byte) == Signed(byte < 128, UlawMagnitude(255 - byte))

(* The first segment is as wide as the second and has no leading bit.      *)
AlawOneSegment(value) == ((value % 16) * 16 + 264) * 2 ^ ((value \div 16) % 8)
AlawMagnitude(value) ==
    LET exponent == (value \div 16) % 8
        low      == (value % 16) * 16 + 8
    IN  IF exponent = 0 THEN low ELSE (low + 256) * 2 ^ (exponent - 1)

AlawToLinear(byte) == LET value == byte ^^ 85 IN Signed(value < 128, AlawMagnitude(value))

(* pcap_util: the bytes complemented, the sign in the highest bit.         *)
PcapUtilUlaw(byte) ==
    LET v == 255 - byte
        t == Unbiased(v)
    IN  IF v >= 128 THEN Bias - t ELSE t - Bias

(* audit_dil: the sample of a positive code, with the bits of the wire.    *)
DilMu(ucode) == LET bits == (255 - ucode) ^^ 255 IN Unbiased(bits) - Bias

DilA(ucode) ==
    LET bits     == (128 + (ucode ^^ 85)) ^^ 85
        exponent == (bits \div 16) % 8
        value    == (bits % 16) * 16 + 8
    IN  IF exponent = 0 THEN value ELSE (value + 256) * 2 ^ (exponent - 1)
----------------------------------------------------------------------------
(* Bytes that differ are heard as samples that differ, apart from the two  *)
(* zeros of the mu-law; a sample is in 16 bits, and the mu-law encodes it  *)
(* as the byte it came from.  All decoders hear the same: pcap_util any    *)
(* byte, and audit_dil the byte that is sent for a code.                   *)
NothingConfused ==
    code # None =>
        /\ UlawToLinear(code) \in Linear /\ AlawToLinear(code) \in Linear
        /\ LinearToUlaw(UlawToLinear(code)) = (IF code = 127 THEN 255 ELSE code)
        /\ \A other \in Codes \ {code} :
              /\ AlawToLinear(other) # AlawToLinear(code)
              /\ UlawToLinear(other) = UlawToLinear(code) => {code, other} = {127, 255}
        /\ PcapUtilUlaw(code) = UlawToLinear(code)
        /\ code < 128 => /\ DilMu(code) = UlawToLinear(255 - code)
                         /\ DilA(code) = AlawToLinear(128 + (code ^^ 85))
=============================================================================
