------------------------------ MODULE Training ------------------------------
(***************************************************************************)
(* What the laboratory knows of the B1 signal that ends a V.34 start-up:   *)
(* the branch tables of the trellis code (src/tools/gen_trellis_trans_16.py), *)
(* the signal an encoder sends (template of src/research/v90/audit_b1.py), *)
(* the bits in it (descramble of src/research/v90/analyze_training.py) and *)
(* the places in a recording it is reported at (audit of audit_b1.py).     *)
(***************************************************************************)
EXTENDS Integers, Sequences, FiniteSets, SequencesExt

CONSTANTS
    Lanes,         \* sampling phases, 5
    Span,          \* samples of the recording
    Strengths,     \* correlations above the threshold
    MaxCandidates, \* bound on the candidates
    Apart          \* samples between two events, 640

VARIABLES
    scrambled,  \* bits of B1 so far
    angles,     \* its symbols, in quarter turns, clockwise
    states,     \* the states of the convolutional encoder so far, as bits
    candidates  \* samples at which the correlation is high, as they are found

trainingVars == <<scrambled, angles, states, candidates>>

Odd(n) == n % 2
High(n) == n \div 2
----------------------------------------------------------------------------
(* label, trans_of and build.  A row is the coset of each coordinate of    *)
(* the two points of a branch: <<u, v, u, v>>.                             *)
LabelOfY0(u, v, rule) ==
    [s2 |-> Odd(High(u) + High(v) + v + u), s1 |-> Odd(v), s0 |-> Odd(v + u)]

Label(u, v, rule) ==
    [s2 |-> Odd(High(u) + High(v) + v + u), s1 |-> Odd(IF rule = "x0" THEN u ELSE v),
     s0 |-> Odd(v + u)]

TransOf(row, rule) ==
    LET a  == Label(row[1], row[2], rule)
        b  == Label(row[3], row[4], rule)
        y1 == Odd(a.s0 * (1 - b.s0) + a.s1 + b.s1)
    IN  8 * a.s1 + 4 * Odd(a.s2 + b.s2) + 2 * a.s0 + y1

Half(row) == Odd(row[1] + row[2] + row[3] + row[4])

Rows == (0 .. 3) \X (0 .. 3) \X (0 .. 3) \X (0 .. 3)

Block(k, rule, transitions) ==
    {row \in Rows : (TransOf(row, rule) % transitions) + transitions * Half(row) = k}
----------------------------------------------------------------------------
(* template: the scrambler starts with zeros, and so does the encoder.     *)
Scrambled(i) == IF i > 0 THEN scrambled[i] ELSE 0

NextBits ==
    LET n == Len(scrambled)
    IN  [k \in 1 .. 3 |-> Odd(1 + Scrambled(n + k - 5) + Scrambled(n + k - 23))]

Advance(state, y1, y2) ==
    <<Odd(state[2] + y1), Odd(state[3] + y2), Odd(state[4] + y2 + state[1]), state[1]>>

(* The last frame has an inversion on its first pair.                      *)
InversionAt(pair) == IF pair = 1 THEN 1 ELSE 0

SendPair ==
    /\ Len(angles) < 128 /\ candidates = <<>>
    /\ LET bits     == NextBits
           state    == Last(states)
           previous == IF angles = <<>> THEN 0 ELSE angles[Len(angles) - 1]
           a        == (previous + bits[2] + 2 * bits[3]) % 4
           b        == (a + 2 * bits[1] + Odd(state[1] + InversionAt(Len(states)))) % 4
           y1       == Odd(Odd(a) * (1 - Odd(b)) + High(a) + High(b))
       IN  /\ scrambled' = scrambled \o bits
           /\ angles' = angles \o <<a, b>>
           /\ states' = Append(states, Advance(state, y1, Odd(a)))
    /\ UNCHANGED candidates

Descramble(bits) ==
    LET fed == [i \in 1 .. 23 |-> 0] \o bits
    IN  [i \in DOMAIN bits |-> Odd(bits[i] + fed[i + 18] + fed[i])]
----------------------------------------------------------------------------
(* audit: the sampling phases are gone through one after another, each     *)
(* from the start of the recording.                                        *)
FoundAfter(at, last) ==
    \/ at % Lanes > last % Lanes
    \/ at % Lanes = last % Lanes /\ at > last

FindCandidate(at, strength) ==
    /\ angles = <<>> /\ Len(candidates) < MaxCandidates
    /\ candidates # <<>> => FoundAfter(at, Last(candidates).at)
    /\ candidates' = Append(candidates, [at |-> at, strength |-> strength])
    /\ UNCHANGED <<scrambled, angles, states>>

StrongestFirst ==
    LET Before(i, j) == \/ candidates[i].strength > candidates[j].strength
                        \/ candidates[i].strength = candidates[j].strength /\ i < j
        order == SetToSortSeq(DOMAIN candidates, Before)
    IN  [k \in DOMAIN order |-> candidates[order[k]]]

Near(c, d) == c.at - d.at < Apart /\ d.at - c.at < Apart

Events ==
    FoldLeft(LAMBDA kept, c : IF \E e \in kept : Near(c, e) THEN kept ELSE kept \cup {c},
             {}, StrongestFirst)
----------------------------------------------------------------------------
TrainingInit ==
    scrambled = <<>> /\ angles = <<>> /\ states = <<<<0, 0, 0, 0>>>> /\ candidates = <<>>

TrainingNext ==
    \/ SendPair
    \/ \E at \in 0 .. Span - 1, strength \in Strengths : FindCandidate(at, strength)

TrainingTypeOK ==
    /\ scrambled \in Seq({0, 1}) /\ angles \in Seq(0 .. 3)
    /\ Len(states) = Len(angles) \div 2 + 1
    /\ candidates \in Seq([at : 0 .. Span - 1, strength : Strengths])
----------------------------------------------------------------------------
(* The point 1 + i turned clockwise: the cosets of its coordinates.        *)
CosetsOf == <<<<2, 2>>, <<2, 1>>, <<1, 1>>, <<1, 2>>>>

RowOf(a, b) == CosetsOf[a + 1] \o CosetsOf[b + 1]

(* Both points of a branch, turned by a quarter turn.                      *)
TurnedRow(row) == <<row[2], 3 - row[1], row[4], 3 - row[3]>>

(* Each table, for 4, 8 and 16 transitions and by both rules, divides the  *)
(* 256 rows evenly; and however the line turns a signal, its branches stay *)
(* in the same half, with the same Y1 and Y4.                              *)
TablesAreEven ==
    angles = <<>> /\ candidates = <<>> =>
        \A rule \in {"x0", "y0"} :
            /\ \A transitions \in {4, 8, 16} :
                  \A k \in 0 .. 2 * transitions - 1 :
                      Cardinality(Block(k, rule, transitions)) = 128 \div transitions
            /\ \A row \in Rows :
                  LET turned == TurnedRow(row)
                      before == TransOf(row, rule)
                      after  == TransOf(turned, rule)
                  IN  /\ Half(turned) = Half(row)
                      /\ Odd(after) = Odd(before)
                      /\ (after \div 4) % 2 = (before \div 4) % 2

(* The encoder takes the branches of the Figure 9 table: read off from the *)
(* points that are sent, they lead a decoder through the encoder's states, *)
(* from the half that the state, and the inversion, call for.              *)
BranchesAreTaken ==
    angles # <<>> =>
        LET pair  == Len(states) - 1
            row   == RowOf(angles[2 * pair - 1], angles[2 * pair])
            trans == TransOf(row, "x0")
        IN  /\ states[pair + 1] = Advance(states[pair], Odd(trans), Odd(trans \div 2))
            /\ Half(row) = Odd(states[pair][1] + InversionAt(pair))

(* What a receiver reads from the symbols when the line has turned them.   *)
BitsHeard(turn) ==
    [i \in 1 .. Len(scrambled) |->
        LET pair  == (i - 1) \div 3 + 1
            a     == (angles[2 * pair - 1] + turn) % 4
            b     == (angles[2 * pair] + turn) % 4
            angle == (a - IF pair = 1 THEN 0 ELSE (angles[2 * pair - 3] + turn)) % 4
        IN  CASE i % 3 = 1 -> High((b - a) % 4)
              [] i % 3 = 2 -> Odd(angle)
              [] OTHER     -> High(angle)]

(* B1 is ones: a receiver that hears all of it descrambles it to nothing   *)
(* but ones, and one that hears it turned does once the turn of the first  *)
(* pair has left the register.                                             *)
B1IsOnes ==
    \A turn \in 0 .. 3 :
        LET plain == Descramble(BitsHeard(turn))
        IN  \A i \in DOMAIN plain : turn = 0 \/ i > 26 => plain[i] = 1

(* The tables fit the signal, and the signal the receiver.                 *)
TrainingFits == TablesAreEven /\ BranchesAreTaken /\ B1IsOnes

(* No two reported events are one B1, and what is not reported is near an  *)
(* event that is as strong.                                                *)
EventsAreStrongest ==
    LET events == Events
    IN  /\ \A e, other \in events : e # other => ~Near(e, other)
        /\ \A c \in ToSet(candidates) :
              \E e \in events : Near(c, e) /\ e.strength >= c.strength
=============================================================================
