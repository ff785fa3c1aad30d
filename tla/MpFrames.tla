------------------------------ MODULE MpFrames ------------------------------
(***************************************************************************)
(* src/research/v34-rx/mp_decode.py: what a modem says in the MP sequence   *)
(* of a V.34 start-up, read from the symbols of a capture, and whether the  *)
(* TRN signal before it can be locked to.                                   *)
(*                                                                         *)
(* A symbol is the point it is decided for: base point q turned clockwise  *)
(* by z quarter turns.  The line turns all of them by the same angle, may  *)
(* change one, and is listened to from the middle on.                      *)
(***************************************************************************)
EXTENDS Integers, Sequences, FiniteSets, SequencesExt

CONSTANTS
    Contents,  \* what frames say: [type, ca, ac, trellis, ack, mask]
    Repeats,   \* times a frame of each type is sent; TRN counts as type 1
    Hits,      \* symbols that may be changed
    Symbols,   \* what they may become
    Joins,     \* symbols that may be missed at the start
    None

VARIABLES
    signal,    \* what is sent: [content, bits, sixteen, tap], or None
    line,      \* its bits so far, scrambled
    received,  \* its symbols, as they are heard
    rotation,  \* quarter turns of the line
    missed,    \* symbols missed at the start
    hit        \* the place of the symbol that was changed, as sent, or None

mpVars == <<signal, line, received, rotation, missed, hit>>

Xor(a, b) == (a + b) % 2

(* GPA, the answering modem's polynomial, and GPC, the calling one's, by   *)
(* their second tap; the other is 23 bits back for both.                   *)
Gpa == 5
Gpc == 18

At(bits, i) == IF i > 0 THEN bits[i] ELSE 0

Zeros(width) == [i \in 1 .. width |-> 0]

(* The register is empty at first, and holds what was on the line.         *)
Descramble(bits, tap) ==
    LET fed == Zeros(23) \o bits
    IN  [i \in DOMAIN bits |-> Xor(bits[i], Xor(fed[i], fed[i + 23 - tap]))]

(* The register of the CRC, its lowest bit first, as it is sent.           *)
CrcStep(crc, bit) ==
    LET x == Xor(crc[1], bit)
    IN  [Append(Tail(crc), x) EXCEPT ![11] = Xor(@, x), ![4] = Xor(@, x)]

Word == [1 .. 16 -> {0, 1}]

CrcWord[crc \in Word, word \in Word] == FoldLeft(CrcStep, crc, word)

Crc16(words) == FoldLeft(LAMBDA crc, word : CrcWord[crc, word], [i \in 1 .. 16 |-> 1], words)
----------------------------------------------------------------------------
(* A frame: a sync word of 17 ones, words of 16 bits and the CRC over      *)
(* them, each behind a start bit, and a last bit.  Frames of type 0 are    *)
(* short.  The search takes them to be two bits longer than they are sent. *)
Words(type) == IF type = 1 THEN 9 ELSE 3

Length(type) == IF type = 1 THEN 188 ELSE 88

Put(width, value) == [i \in 1 .. width |-> (value \div 2 ^ (width - i)) % 2]

BuildMp(content) ==
    LET fields == <<content.type, 0>> \o Put(4, content.ca) \o Put(4, content.ac) \o <<0>>
                  \o Put(2, content.trellis) \o <<0, 0>> \o Put(1, content.ack)
        words  == <<fields, Append(content.mask, 1)>>
                  \o [k \in 1 .. Words(content.type) - 2 |-> Zeros(16)]
    IN  [i \in 1 .. 17 |-> 1]
        \o FlattenSeq([k \in DOMAIN words |-> <<0>> \o words[k]])
        \o <<0>> \o Crc16(words) \o <<0>>

(* The frame that begins behind the first i of the bits, of the type it    *)
(* says it is.                                                             *)
WordOf(bits, i, k) == SubSeq(bits, i + 17 * k + 2, i + 17 * k + 17)

TypeAt(bits, i) == bits[i + 19]

Value(bits) == FoldLeft(LAMBDA value, bit : 2 * value + bit, 0, bits)

Fields(bits, i) ==
    LET fields == WordOf(bits, i, 1)
    IN  [type |-> TypeAt(bits, i), ca |-> Value(SubSeq(fields, 3, 6)),
         ac |-> Value(SubSeq(fields, 7, 10)), trellis |-> Value(SubSeq(fields, 12, 13)),
         ack |-> fields[16], mask |-> Front(WordOf(bits, i, 2))]

InSync(bits, i) == \A n \in 1 .. 17 : bits[i + n] = 1

CrcUnchecked(bits, i) == WordOf(bits, i, 1) \in Word
CrcHolds(bits, i) ==
    LET covered == Words(TypeAt(bits, i))
    IN  Crc16([k \in 1 .. covered |-> WordOf(bits, i, k)]) = WordOf(bits, i, covered + 1)

IsFrame(bits, i) == InSync(bits, i) /\ CrcHolds(bits, i)

(* The search goes on behind a frame it has found, as long as frames of    *)
(* its type are taken to be, and stops 190 bits before the end.            *)
EndOf(frame) == frame.at + Length(frame.fields.type)

FindFrames(bits, tap) ==
    LET plain == Descramble(bits, tap)
        found == {i \in 0 .. Len(bits) - 191 : IsFrame(plain, i)}
        Take(taken, i) ==
            IF taken # <<>> /\ i < EndOf(Last(taken)) THEN taken
            ELSE Append(taken, [at |-> i, fields |-> Fields(plain, i)])
    IN  FoldLeft(Take, <<>>, SetToSortSeq(found, <))
----------------------------------------------------------------------------
(* Symbols.  The nearest of the 4 points to one of the 16, and the nearest *)
(* of the 16 to one of the 4, amplitudes brought to the same power.        *)
Nearest4 == <<0, 3, 1, 2>>

Decide(symbol, sixteen) ==
    IF sixteen
    THEN IF signal.sixteen THEN symbol ELSE [q |-> 3, z |-> (symbol.z + 2) % 4]
    ELSE [q |-> 0, z |-> (symbol.z + Nearest4[symbol.q + 1]) % 4]

BitsPer(sixteen) == IF sixteen THEN 4 ELSE 2

Width == BitsPer(signal.sixteen)

(* The bits of a symbol that is turned by in quarter turns.                *)
Bit(in, q, n) == <<in % 2, in \div 2, q % 2, q \div 2>>[n]

TurnAbsolute(z, before) == z
Turn(z, before) == (z - before + 4) % 4

SymbolsToBits(symbols, sixteen) ==
    LET width   == BitsPer(sixteen)
        decided == [i \in DOMAIN symbols |-> Decide(symbols[i], sixteen)]
    IN  [n \in 1 .. width * (Len(symbols) - 1) |->
            LET i == (n - 1) \div width + 2
            IN  Bit(Turn(decided[i].z, decided[i - 1].z), decided[i].q, ((n - 1) % width) + 1)]

(* The size that gives more frames, 4-point first.                         *)
Decode(symbols, tap) ==
    LET four    == FindFrames(SymbolsToBits(symbols, FALSE), tap)
        sixteen == FindFrames(SymbolsToBits(symbols, TRUE), tap)
    IN  IF Len(sixteen) > Len(four) THEN [frames |-> sixteen, size |-> "16-point"]
        ELSE [frames |-> four, size |-> IF four = <<>> THEN None ELSE "4-point"]

(* TRN turns by absolute angles; the reader tries all of them.             *)
TurnedOn(z, rot) == (z + rot) % 4
Turned(z, rot) == (z + 4 - rot) % 4

TrnBitsOf(symbols, sixteen, rot) ==
    LET width == BitsPer(sixteen)
    IN  [n \in 1 .. width * Len(symbols) |->
            LET symbol == Decide(symbols[(n - 1) \div width + 1], sixteen)
            IN  Bit(Turned(symbol.z, rot), symbol.q, ((n - 1) % width) + 1)]

(* The fraction of ones, or of zeros, as a count.                          *)
TrnScore(symbols, sixteen, tap) ==
    [rot \in 0 .. 3 |->
        LET plain == Descramble(TrnBitsOf(symbols, sixteen, rot), tap)
            ones  == Cardinality({n \in DOMAIN plain : plain[n] = 1})
        IN  IF 2 * ones >= Len(plain) THEN ones ELSE Len(plain) - ones]
----------------------------------------------------------------------------
(* What is sent, over and over: a frame, or the ones of TRN.               *)
Silence ==
    signal = None /\ line = <<>> /\ received = <<>> /\ rotation = 0 /\ missed = 0 /\ hit = None

Begin(content, sixteen, tap) ==
    /\ signal = None
    /\ signal' = [content |-> content, sixteen |-> sixteen, tap |-> tap,
                  bits |-> IF content = None THEN [n \in 1 .. Length(1) |-> 1]
                           ELSE BuildMp(content)]
    /\ UNCHANGED <<line, received, rotation, missed, hit>>

Period == Len(signal.bits)

Total == Period * Repeats[IF signal.content = None THEN 1 ELSE signal.content.type]

AllSent == signal # None /\ Len(line) + Width > Total

(* One more symbol: its bits go through the scrambler, which holds those   *)
(* before; MP turns on from the symbol before, TRN by absolute angles.     *)
SendSymbol ==
    /\ signal # None /\ ~AllSent
    /\ LET n      == Len(line)
           plain  == [i \in 1 .. Width |-> signal.bits[((n + i - 1) % Period) + 1]]
           in     == 2 * line'[n + 2] + line'[n + 1]
           before == IF signal.content = None \/ n = 0 THEN 0 ELSE Last(received).z
       IN  /\ line' = line \o [i \in 1 .. Width |->
                  Xor(plain[i], Xor(At(line, n + i - 23), At(line, n + i - signal.tap)))]
           /\ received' = Append(received,
                  [q |-> IF signal.sixteen THEN 2 * line'[n + 4] + line'[n + 3] ELSE 0,
                   z |-> (in + before) % 4])
    /\ UNCHANGED <<signal, rotation, missed, hit>>

Rotate(quarters) ==
    /\ AllSent /\ rotation = 0
    /\ rotation' = quarters
    /\ received' = [i \in DOMAIN received |-> [received[i] EXCEPT !.z = (@ + quarters) % 4]]
    /\ UNCHANGED <<signal, line, missed, hit>>

JoinLate(n) ==
    /\ AllSent /\ missed = 0 /\ hit = None /\ n < Len(received)
    /\ missed' = n
    /\ received' = SubSeq(received, n + 1, Len(received))
    /\ UNCHANGED <<signal, line, rotation, hit>>

DamageSymbol(i, symbol) ==
    /\ AllSent /\ hit = None /\ i \in DOMAIN received
    /\ symbol.q = 0 \/ signal.sixteen
    /\ received[i] # symbol
    /\ hit' = i + missed
    /\ received' = [received EXCEPT ![i] = symbol]
    /\ UNCHANGED <<signal, line, rotation, missed>>

MpNext ==
    \/ \E content \in Contents \cup {None}, sixteen \in BOOLEAN, tap \in {Gpa, Gpc} :
          Begin(content, sixteen, tap)
    \/ SendSymbol
    \/ \E quarters \in 1 .. 3 : Rotate(quarters)
    \/ \E n \in Joins : JoinLate(n)
    \/ \E i \in Hits, symbol \in Symbols : DamageSymbol(i, symbol)

----------------------------------------------------------------------------
MpTypeOK ==
    /\ received \in Seq([q : 0 .. 3, z : 0 .. 3])
    /\ rotation \in 0 .. 3 /\ missed \in Nat /\ hit \in Nat \cup {None}

MpSent == AllSent /\ signal.content # None

(* The symbol that was changed carries one of these bits, or the one before *)
(* or behind does.                                                         *)
Spoilt(first, last) ==
    hit # None /\ first \div Width <= hit /\ hit - 1 <= last \div Width

(* The frames that are heard as a whole, with what the descrambler needs   *)
(* before them and what the search wants behind them, by where they begin  *)
(* in the bits of the reader.                                              *)
WholeFrames ==
    LET first(k) == Period * k
        whole    == {k \in 0 .. Repeats[signal.content.type] - 1 :
                        /\ first(k) - 23 >= Width * (missed + 1)
                        /\ first(k) + 191 <= Len(line)
                        /\ ~Spoilt(first(k) - 23, first(k) + Period - 1)}
    IN  {first(k) - Width * (missed + 1) : k \in whole}

(* A frame that is reported is one that was sent, whatever happened to one *)
(* symbol, however the line turned the signal, and from wherever on it was *)
(* listened to.                                                            *)
FramesWereSent ==
    MpSent =>
        \A frame \in ToSet(Decode(received, signal.tap).frames) : frame.fields = signal.content

(* Every frame that was heard is reported, unless it begins in what the    *)
(* search takes for the end of the frame it reports before; and the size   *)
(* of the constellation is recognised.                                     *)
FramesAreFound ==
    MpSent /\ WholeFrames # {} =>
        LET decoded == Decode(received, signal.tap)
        IN  /\ decoded.size = IF signal.sixteen THEN "16-point" ELSE "4-point"
            /\ \A at \in WholeFrames : \E frame \in ToSet(decoded.frames) :
                  \/ frame.at = at
                  \/ signal.content.type = 0 /\ at \in frame.at .. EndOf(frame) - 1

(* Every frame that was heard is reported, of either type: of short ones   *)
(* sent back to back that is not so.                                       *)
EveryFrameReported ==
    MpSent =>
        \A at \in WholeFrames : \E frame \in ToSet(Decode(received, signal.tap).frames) :
            frame.at = at

(* A TRN signal is locked to at the angle the line turned it by, and at no *)
(* other, even when it is caught late and with a symbol wrong.             *)
TrnLocks ==
    signal # None /\ signal.content = None /\ AllSent =>
        LET score == TrnScore(received, signal.sixteen, signal.tap)
        IN  \A rot \in (0 .. 3) \ {rotation} : score[rotation] > score[rot]
=============================================================================
