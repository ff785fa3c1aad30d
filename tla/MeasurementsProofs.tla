------------------------- MODULE MeasurementsProofs -------------------------
(***************************************************************************)
(* Proofs about three parts of Measurements: AudioOut, for any sizes and   *)
(* numbers of frames, any delay and limit of the pacer and any ranges of   *)
(* the RTP numbers; Captures, for any frames, damage, files and RTCP       *)
(* headers; and Uploads, for any number of uploads, attempts and errors.   *)
(*                                                                         *)
(* The provers have no induction over the folds these are written with.    *)
(* A fold is therefore shown to be the last of a sequence of values, each  *)
(* made of the one before it by one step, and what the steps keep is       *)
(* proved for the set of the steps at which it holds.                      *)
(***************************************************************************)
EXTENDS AudioOut, Captures, Uploads, FiniteSetTheorems, SequenceTheorems, TLAPS

(* Induction over the numbers, for a set of them.                          *)
LEMMA Induction ==
    ASSUME NEW S, 0 \in S, \A n \in Nat : n \in S => n + 1 \in S
    PROVE  \A n \in Nat : n \in S
<1> DEFINE Others == Nat \ S
<1> SUFFICES ASSUME Others # {} PROVE FALSE
  OBVIOUS
<1>1. PICK least \in Others : \A n \in Others : ~(<<n, least>> \in OpToRel(<, Nat))
  BY NatLessThanWellFounded, WFMin
<1>2. \A n \in Nat : <<n, least>> \in OpToRel(<, Nat) <=> n < least
  BY DEF OpToRel
<1>3. least \in Nat /\ least # 0
  OBVIOUS
<1>4. least - 1 \in Nat /\ least - 1 < least
  BY <1>3
<1>5. least - 1 \in S
  BY <1>1, <1>2, <1>4
<1>6. (least - 1) + 1 \in S
  BY <1>4, <1>5
<1> QED BY <1>3, <1>6

(* The largest of the first numbers.                                       *)
LEMMA MaxOfFirst ==
    ASSUME NEW n \in Nat, NEW x \in SUBSET (1 .. n + 1), n + 1 \in x
    PROVE  Max(x) = n + 1 /\ x \ {Max(x)} \in SUBSET (1 .. n)
<1>1. n + 1 \in x /\ \A y \in x : n + 1 >= y
  OBVIOUS
<1>2. \E m \in x : \A y \in x : m >= y
  BY <1>1
<1>2a. Max(x) \in x /\ \A y \in x : Max(x) >= y
  BY <1>2 DEF Max
<1>2b. \A y \in x : y \in Nat /\ y <= n + 1
  OBVIOUS
<1>2c. Max(x) \in x
  BY <1>2a
<1>2d. Max(x) >= n + 1
  BY <1>2a
<1>3. Max(x) \in Nat /\ Max(x) <= n + 1 /\ Max(x) >= n + 1
  BY <1>2b, <1>2c, <1>2d
<1>4. Max(x) = n + 1
  BY <1>3
<1> QED BY <1>4

(* A non-empty set of the first numbers has a largest.                     *)
LEMMA MaxIsFirst ==
    ASSUME NEW n \in Nat, NEW x \in SUBSET (1 .. n), x # {}
    PROVE  Max(x) \in x /\ \A z \in x : Max(x) >= z
<1>0 DEFINE S == {k \in Nat : \A y \in SUBSET (1 .. k) :
                                 y # {} => \E m \in y : \A z \in y : m >= z}
<1>1. 0 \in S
  <2>1. \A y \in SUBSET (1 .. 0) : y = {}
    OBVIOUS
  <2> QED BY <2>1
<1>2. ASSUME NEW k \in Nat, k \in S PROVE k + 1 \in S
  <2> SUFFICES ASSUME NEW y \in SUBSET (1 .. k + 1), y # {}
               PROVE  \E m \in y : \A z \in y : m >= z
    OBVIOUS
  <2>1. CASE k + 1 \in y
    BY <2>1
  <2>2. CASE k + 1 \notin y
    <3>1. y \in SUBSET (1 .. k)
      BY <2>2
    <3> QED BY <1>2, <3>1
  <2> QED BY <2>1, <2>2
<1>3. n \in S
  <2> HIDE DEF S
  <2> QED BY <1>1, <1>2, Induction
<1>4. \E m \in x : \A z \in x : m >= z
  BY <1>3
<1> QED BY <1>4 DEF Max
----------------------------------------------------------------------------
(* Total, step by step.                                                    *)
Sums(sizes, n, iter) ==
    iter = [x \in SUBSET (1 .. n) |->
              IF x = {} THEN 0 ELSE iter[x \ {Max(x)}] + sizes[Max(x)]]

(* The function that a total is computed through exists, however long the  *)
(* sequence is.                                                            *)
LEMMA SumsExist == ASSUME NEW sizes, NEW n \in Nat PROVE \E iter : Sums(sizes, n, iter)
<1> DEFINE S == {k \in Nat : \E iter : Sums(sizes, k, iter)}
<1>1. 0 \in S
  <2> DEFINE g == [x \in SUBSET (1 .. 0) |-> 0]
  <2>1. \A x \in SUBSET (1 .. 0) : x = {}
    OBVIOUS
  <2>2. g = [x \in SUBSET (1 .. 0) |->
              IF x = {} THEN 0 ELSE g[x \ {Max(x)}] + sizes[Max(x)]]
    BY <2>1
  <2> QED BY <2>2 DEF Sums
<1>2. ASSUME NEW k \in Nat, k \in S PROVE k + 1 \in S
  <2>1. PICK iter : Sums(sizes, k, iter)
    BY <1>2
  <2> DEFINE Small == SUBSET (1 .. k)
             Large == SUBSET (1 .. k + 1)
             body(f, x) == IF x = {} THEN 0 ELSE f[x \ {Max(x)}] + sizes[Max(x)]
             g == [x \in Large |-> IF x \in Small THEN iter[x]
                                   ELSE iter[x \ {k + 1}] + sizes[k + 1]]
  <2>2. \A x \in Small : iter[x] = body(iter, x)
    BY <2>1 DEF Sums
  <2>3. ASSUME NEW x \in Large PROVE g[x] = body(g, x)
    <3>1. CASE x \in Small
      <4>1. g[x] = iter[x]
        BY <3>1
      <4>2. CASE x = {}
        BY <2>2, <3>1, <4>1, <4>2
      <4>3. CASE x # {}
        <5>1. Max(x) \in x
          BY <3>1, <4>3, MaxIsFirst
        <5>2. x \ {Max(x)} \in Small /\ x \ {Max(x)} \in Large
          BY <3>1
        <5>3. g[x \ {Max(x)}] = iter[x \ {Max(x)}]
          BY <5>2
        <5> HIDE DEF g
        <5> QED BY <2>2, <3>1, <4>1, <4>3, <5>3
      <4> QED BY <4>2, <4>3
    <3>2. CASE x \notin Small
      <4>1. k + 1 \in x /\ x # {}
        BY <3>2
      <4>2. Max(x) = k + 1 /\ x \ {Max(x)} \in Small
        BY <4>1, MaxOfFirst
      <4>3. g[x] = iter[x \ {k + 1}] + sizes[k + 1]
        BY <3>2
      <4>4. x \ {Max(x)} \in Large
        OBVIOUS
      <4>5. g[x \ {Max(x)}] = iter[x \ {Max(x)}]
        BY <4>2, <4>4
      <4> HIDE DEF g
      <4> QED BY <4>1, <4>2, <4>3, <4>5
    <3> QED BY <3>1, <3>2
  <2>4. g = [x \in Large |-> g[x]]
    OBVIOUS
  <2> HIDE DEF g
  <2>5. g = [x \in Large |-> body(g, x)]
    BY <2>3, <2>4, Zenon
  <2>6. Sums(sizes, k + 1, g)
    BY <2>5 DEF Sums
  <2> QED BY <2>6
<1>3. n \in S
  <2> HIDE DEF S
  <2> QED BY <1>1, <1>2, Induction
<1> QED BY <1>3

(* A total is reached size by size.                                        *)
LEMMA TotalSteps ==
    ASSUME NEW sizes, DOMAIN sizes = 1 .. Len(sizes), Len(sizes) \in Nat
    PROVE  \E sum : /\ sum[0] = 0 /\ Total(sizes) = sum[Len(sizes)]
                    /\ \A k \in 1 .. Len(sizes) : sum[k] = sum[k - 1] + sizes[k]
<1> DEFINE n == Len(sizes)
           iter == CHOOSE iter : Sums(sizes, n, iter)
           sum == [k \in 0 .. n |-> iter[1 .. k]]
<1>1. Sums(sizes, n, iter)
  BY SumsExist
<1>2. Total(sizes) = iter[1 .. n]
  <2>1. Total(sizes) = (CHOOSE it : it = [x \in SUBSET DOMAIN sizes |->
              IF x = {} THEN 0 ELSE it[x \ {Max(x)}] + sizes[Max(x)]])[DOMAIN sizes]
    BY DEF Total, FoldLeft, MapThenFoldSet
  <2> QED BY <2>1 DEF Sums
<1> HIDE DEF iter
<1>3. sum[0] = 0
  <2>1. 1 .. 0 = {}
    OBVIOUS
  <2> QED BY <1>1, <2>1 DEF Sums
<1>4. ASSUME NEW k \in 1 .. n PROVE sum[k] = sum[k - 1] + sizes[k]
  <2>1. PICK j \in Nat : k = j + 1
    <3>1. k - 1 \in Nat /\ k = (k - 1) + 1
      OBVIOUS
    <3> QED BY <3>1
  <2>2. Max(1 .. k) = k
    <3>1. 1 .. k \in SUBSET (1 .. j + 1) /\ j + 1 \in 1 .. k
      BY <2>1
    <3> QED BY <2>1, <3>1, MaxOfFirst
  <2>3. (1 .. k) \ {k} = 1 .. k - 1
    BY <2>1
  <2>4. 1 .. k # {} /\ 1 .. k \in SUBSET (1 .. n)
    BY <2>1
  <2>5. iter[1 .. k] = iter[1 .. k - 1] + sizes[k]
    BY <1>1, <2>2, <2>3, <2>4 DEF Sums
  <2>6. k \in 0 .. n /\ k - 1 \in 0 .. n
    OBVIOUS
  <2> QED BY <2>5, <2>6
<1>5. Total(sizes) = sum[Len(sizes)]
  BY <1>2
<1> HIDE DEF sum
<1> QED BY <1>3, <1>4, <1>5

(* Whatever adds up size by size adds up to the total.                     *)
LEMMA TotalIs ==
    ASSUME NEW sizes \in Seq(Nat), NEW sum, sum[0] = 0,
           \A k \in 1 .. Len(sizes) : sum[k] = sum[k - 1] + sizes[k]
    PROVE  Total(sizes) = sum[Len(sizes)] /\ sum[Len(sizes)] \in Nat
<1> DEFINE n == Len(sizes)
<1>1. n \in Nat /\ DOMAIN sizes = 1 .. n /\ \A k \in 1 .. n : sizes[k] \in Nat
  OBVIOUS
<1>2. PICK other : /\ other[0] = 0 /\ Total(sizes) = other[n]
                   /\ \A k \in 1 .. n : other[k] = other[k - 1] + sizes[k]
  BY <1>1, TotalSteps
<1> DEFINE S == {k \in Nat : k <= n => other[k] = sum[k] /\ sum[k] \in Nat}
<1>3. 0 \in S
  BY <1>2
<1>4. ASSUME NEW k \in Nat, k \in S PROVE k + 1 \in S
  <2> SUFFICES ASSUME k + 1 <= n PROVE other[k + 1] = sum[k + 1] /\ sum[k + 1] \in Nat
    OBVIOUS
  <2>1. k + 1 \in 1 .. n /\ (k + 1) - 1 = k /\ k <= n
    BY <1>1
  <2>2. /\ other[k + 1] = other[k] + sizes[k + 1] /\ sum[k + 1] = sum[k] + sizes[k + 1]
    BY <1>2, <2>1
  <2> QED BY <1>1, <1>4, <2>1, <2>2
<1>5. n \in S
  <2> HIDE DEF S
  <2> QED BY <1>1, <1>3, <1>4, Induction
<1> QED BY <1>1, <1>2, <1>5

(* The total of nothing.                                                   *)
LEMMA TotalOfNone == Total(<<>>) = 0
<1> DEFINE sum == [k \in 0 .. 0 |-> 0]
<1>1. <<>> \in Seq(Nat) /\ Len(<<>>) = 0 /\ sum[0] = 0
  OBVIOUS
<1>2. \A k \in 1 .. 0 : sum[k] = sum[k - 1] + <<>>[k]
  OBVIOUS
<1> HIDE DEF sum
<1> QED BY <1>1, <1>2, TotalIs

(* The total with a size more.                                             *)
LEMMA TotalOfMore ==
    ASSUME NEW sizes \in Seq(Nat), NEW size \in Nat
    PROVE  Total(Append(sizes, size)) = Total(sizes) + size /\ Total(sizes) \in Nat
<1> DEFINE n == Len(sizes)
           more == Append(sizes, size)
<1>1. n \in Nat /\ DOMAIN sizes = 1 .. n /\ \A k \in 1 .. n : sizes[k] \in Nat
  OBVIOUS
<1>2. /\ more \in Seq(Nat) /\ Len(more) = n + 1 /\ more[n + 1] = size
      /\ \A k \in 1 .. n : more[k] = sizes[k]
  OBVIOUS
<1>3. PICK sum : /\ sum[0] = 0 /\ Total(more) = sum[n + 1]
                 /\ \A k \in 1 .. n + 1 : sum[k] = sum[k - 1] + more[k]
  <2>1. DOMAIN more = 1 .. Len(more) /\ Len(more) \in Nat
    OBVIOUS
  <2> HIDE DEF more
  <2> QED BY <2>1, <1>2, TotalSteps, SMTT(30)
<1> HIDE DEF more
<1>4. \A k \in 1 .. n : sum[k] = sum[k - 1] + sizes[k]
  BY <1>1, <1>2, <1>3
<1>5. Total(sizes) = sum[n] /\ sum[n] \in Nat
  BY <1>3, <1>4, TotalIs
<1>6. sum[n + 1] = sum[n] + size
  <2>1. n + 1 \in 1 .. n + 1 /\ (n + 1) - 1 = n
    BY <1>1
  <2> QED BY <1>2, <1>3, <2>1
<1> QED BY <1>3, <1>5, <1>6 DEF more
----------------------------------------------------------------------------
(* What frames m to n add up to.                                           *)
Span(w, m, n) == Total(SubSeq(w, m, n))

(* An empty span.                                                          *)
LEMMA SpanOfNone == ASSUME NEW w, NEW m \in Nat \ {0} PROVE Span(w, m, m - 1) = 0
<1>1. SubSeq(w, m, m - 1) = <<>>
  OBVIOUS
<1> QED BY <1>1, TotalOfNone DEF Span

(* A span with a size more.                                                *)
LEMMA SpanOfMore ==
    ASSUME NEW w \in Seq(Nat), NEW m \in 1 .. Len(w), NEW n \in m - 1 .. Len(w) - 1
    PROVE  Span(w, m, n + 1) = Span(w, m, n) + w[n + 1] /\ Span(w, m, n) \in Nat
<1>1. SubSeq(w, m, n) \in Seq(Nat) /\ w[n + 1] \in Nat
  OBVIOUS
<1>2. SubSeq(w, m, n + 1) = Append(SubSeq(w, m, n), w[n + 1])
  OBVIOUS
<1> QED BY <1>1, <1>2, TotalOfMore DEF Span

(* Spans are numbers.                                                      *)
LEMMA SpanType ==
    ASSUME NEW w \in Seq(Nat), NEW m \in 1 .. Len(w) + 1, NEW n \in m - 1 .. Len(w)
    PROVE  Span(w, m, n) \in Nat
<1>1. SubSeq(w, m, n) \in Seq(Nat)
  OBVIOUS
<1> QED BY <1>1, TotalOfMore DEF Span

(* It only depends on these frames.                                        *)
LEMMA SpanOfPrefix ==
    ASSUME NEW w \in Seq(Nat), NEW size \in Nat, NEW m \in Nat \ {0}, NEW n \in Nat,
           n <= Len(w)
    PROVE  Span(Append(w, size), m, n) = Span(w, m, n)
<1>1. SubSeq(Append(w, size), m, n) = SubSeq(w, m, n)
  OBVIOUS
<1> QED BY <1>1 DEF Span

(* A span that begins later is what is left of the whole one.              *)
LEMMA SpanSplits ==
    ASSUME NEW w \in Seq(Nat), NEW m \in 1 .. Len(w), NEW n \in m - 1 .. Len(w)
    PROVE  Span(w, 1, n) = Span(w, 1, m - 1) + Span(w, m, n)
<1> DEFINE Fits(k) == Span(w, 1, m - 1 + k) = Span(w, 1, m - 1) + Span(w, m, m - 1 + k)
           S == {k \in Nat : m - 1 + k <= Len(w) => Fits(k)}
<1>0. m \in Nat /\ m >= 1 /\ Len(w) \in Nat /\ m <= Len(w)
  OBVIOUS
<1>1. 0 \in S
  <2>1. Span(w, m, m - 1) = 0
    BY SpanOfNone
  <2>2. Span(w, 1, m - 1) \in Nat
    BY SpanType
  <2>3. m - 1 + 0 = m - 1
    OBVIOUS
  <2>4. Fits(0)
    BY <2>1, <2>2, <2>3
  <2> QED BY <2>4
<1>2. ASSUME NEW k \in Nat, k \in S PROVE k + 1 \in S
  <2> SUFFICES ASSUME m - 1 + (k + 1) <= Len(w) PROVE Fits(k + 1)
    OBVIOUS
  <2> DEFINE j == m - 1 + k
  <2>1. j \in m - 1 .. Len(w) - 1 /\ j \in 1 - 1 .. Len(w) - 1 /\ 1 \in 1 .. Len(w)
    BY <1>0
  <2>2. Fits(k)
    BY <1>2, <2>1
  <2>3. Span(w, 1, j + 1) = Span(w, 1, j) + w[j + 1] /\ Span(w, 1, j) \in Nat
    BY <2>1, SpanOfMore
  <2>4. Span(w, m, j + 1) = Span(w, m, j) + w[j + 1] /\ Span(w, m, j) \in Nat
    BY <2>1, SpanOfMore
  <2>5. Span(w, 1, m - 1) \in Nat /\ w[j + 1] \in Nat
    <3>1. 1 \in 1 .. Len(w) + 1 /\ m - 1 \in 1 - 1 .. Len(w)
      BY <1>0
    <3>2. Span(w, 1, m - 1) \in Nat
      BY <3>1, SpanType
    <3> QED BY <2>1, <3>2
  <2>6. m - 1 + (k + 1) = j + 1
    OBVIOUS
  <2> QED BY <2>2, <2>3, <2>4, <2>5, <2>6, SMTT(30)
<1>3. n - (m - 1) \in S
  <2>1. n - (m - 1) \in Nat
    OBVIOUS
  <2> HIDE DEF S
  <2> QED BY <2>1, <1>1, <1>2, Induction
<1>4. m - 1 + (n - (m - 1)) = n
  OBVIOUS
<1> QED BY <1>3, <1>4
----------------------------------------------------------------------------
(* Where frame n ends in the byte stream, counted from its begin.          *)
End(w, n) == Span(w, 1, n) + n + n

(* A frame is never empty.                                                 *)
Sizes == Nat \ {0}

(* The sizes of the frames written.                                        *)
IsWritten(w) == w \in Seq(Sizes)

(* Sizes of frames are numbers, and no frame is empty.                     *)
LEMMA WrittenType ==
    ASSUME NEW w, IsWritten(w)
    PROVE  /\ w \in Seq(Nat) /\ Len(w) \in Nat
           /\ \A n \in 1 .. Len(w) : w[n] \in Nat /\ w[n] > 0
<1>1. w \in Seq(Sizes)
  BY DEF IsWritten
<1>2. w \in Seq(Nat)
  BY <1>1 DEF Sizes
<1>3. \A n \in 1 .. Len(w) : w[n] \in Sizes
  BY <1>1
<1> QED BY <1>2, <1>3 DEF Sizes

(* Ends of frames are numbers.                                             *)
LEMMA EndType ==
    ASSUME NEW w, IsWritten(w), NEW n \in Nat, n <= Len(w)
    PROVE  End(w, n) \in Nat
<1>1. w \in Seq(Nat) /\ Len(w) \in Nat
  BY WrittenType
<1>2. 1 \in 1 .. Len(w) + 1 /\ n \in 1 - 1 .. Len(w) /\ Len(w) \in Nat
  OBVIOUS
<1>3. Span(w, 1, n) \in Nat
  BY <1>1, <1>2, SpanType
<1> QED BY <1>3 DEF End

(* An end with a frame more, by the spans alone.                           *)
LEMMA EndSum ==
    ASSUME NEW w, NEW n \in Nat, w[n + 1] \in Nat, Span(w, 1, n) \in Nat,
           Span(w, 1, n + 1) = Span(w, 1, n) + w[n + 1]
    PROVE  End(w, n + 1) = End(w, n) + 2 + w[n + 1]
BY DEF End

(* A frame ends its length and its audio behind the one before.            *)
LEMMA EndNext ==
    ASSUME NEW w, IsWritten(w), NEW n \in Nat, n < Len(w)
    PROVE  /\ End(w, n + 1) = End(w, n) + 2 + w[n + 1]
           /\ w[n + 1] \in Nat /\ w[n + 1] > 0 /\ End(w, n) \in Nat
<1>1. w \in Seq(Nat) /\ Len(w) \in Nat /\ \A k \in 1 .. Len(w) : w[k] \in Nat /\ w[k] > 0
  BY WrittenType
<1>2. 1 \in 1 .. Len(w) /\ n \in 1 - 1 .. Len(w) - 1 /\ n + 1 \in 1 .. Len(w)
  BY <1>1
<1>3. Span(w, 1, n + 1) = Span(w, 1, n) + w[n + 1] /\ Span(w, 1, n) \in Nat
  BY <1>1, <1>2, SpanOfMore
<1>4. w[n + 1] \in Nat /\ w[n + 1] > 0
  BY <1>1, <1>2
<1>5. End(w, n) \in Nat
  BY <1>1, <1>3 DEF End
<1>6. End(w, n + 1) = End(w, n) + 2 + w[n + 1]
  BY <1>3, <1>4, EndSum
<1> QED BY <1>4, <1>5, <1>6

(* Ends grow.                                                              *)
LEMMA EndGrows ==
    ASSUME NEW w, IsWritten(w), NEW m \in Nat, NEW n \in Nat, m <= n, n <= Len(w)
    PROVE  End(w, n) >= End(w, m) /\ End(w, m) \in Nat /\ End(w, n) \in Nat
<1> DEFINE S == {k \in Nat : m + k <= Len(w) => End(w, m + k) >= End(w, m)}
<1>0. Len(w) \in Nat /\ m <= Len(w)
  BY WrittenType
<1>t. \A k \in Nat : k <= Len(w) => End(w, k) \in Nat
  BY EndType
<1>1. 0 \in S
  BY <1>0, <1>t
<1>2. ASSUME NEW k \in Nat, k \in S PROVE k + 1 \in S
  <2> SUFFICES ASSUME m + (k + 1) <= Len(w) PROVE End(w, m + (k + 1)) >= End(w, m)
    OBVIOUS
  <2> DEFINE j == m + k
  <2>1. j \in Nat /\ j < Len(w) /\ m + (k + 1) = j + 1 /\ j + 1 <= Len(w) /\ j + 1 \in Nat
    BY <1>0
  <2>2. End(w, j + 1) = End(w, j) + 2 + w[j + 1] /\ w[j + 1] \in Nat /\ End(w, j) \in Nat
    BY <2>1, EndNext
  <2>3. End(w, j) >= End(w, m) /\ End(w, m) \in Nat
    BY <1>0, <1>2, <1>t, <2>1
  <2> HIDE DEF j
  <2> QED BY <2>1, <2>2, <2>3
<1>3. n - m \in S
  <2>1. n - m \in Nat
    OBVIOUS
  <2> HIDE DEF S
  <2> QED BY <2>1, <1>1, <1>2, Induction
<1>4. m + (n - m) = n
  OBVIOUS
<1> QED BY <1>0, <1>t, <1>3, <1>4

(* A further frame moves none of the ends before it.                       *)
LEMMA EndOfPrefix ==
    ASSUME NEW w, IsWritten(w), NEW size \in Sizes, NEW n \in Nat, n <= Len(w)
    PROVE  End(Append(w, size), n) = End(w, n)
<1>1. w \in Seq(Nat) /\ size \in Nat /\ 1 \in Nat \ {0}
  BY WrittenType DEF Sizes
<1>2. Span(Append(w, size), 1, n) = Span(w, 1, n)
  BY <1>1, SpanOfPrefix
<1> QED BY <1>2 DEF End
----------------------------------------------------------------------------
(* A byte stream that begins behind frame r: every later frame follows its *)
(* length.                                                                 *)
FrameAt(w, n, s, b) ==
    /\ s[b + 1] = w[n] \div 256 /\ s[b + 2] = w[n] % 256
    /\ \A i \in 1 .. w[n] : s[b + 2 + i] = n

IsStream(w, r, s) ==
    /\ s \in Seq(Nat) /\ Len(s) = End(w, Len(w)) - End(w, r)
    /\ \A n \in r + 1 .. Len(w) : FrameAt(w, n, s, End(w, n - 1) - End(w, r))

(* Two sequences of bytes, one behind the other.                           *)
LEMMA Concat ==
    ASSUME NEW s \in Seq(Nat), NEW t \in Seq(Nat)
    PROVE  /\ s \o t \in Seq(Nat) /\ Len(s \o t) = Len(s) + Len(t)
           /\ \A i \in 1 .. Len(s) : (s \o t)[i] = s[i]
           /\ \A i \in 1 .. Len(t) : (s \o t)[Len(s) + i] = t[i]
<1>1. s \o t \in Seq(Nat) /\ Len(s \o t) = Len(s) + Len(t)
  OBVIOUS
<1>2. \A i \in 1 .. Len(s) : (s \o t)[i] = s[i]
  OBVIOUS
<1>3. \A i \in 1 .. Len(t) : (s \o t)[Len(s) + i] = t[i]
  OBVIOUS
<1> QED BY <1>1, <1>2, <1>3

(* What is left of a stream is as long as the frames left in it.           *)
LEMMA StreamType ==
    ASSUME NEW w, IsWritten(w), NEW r \in Nat, r <= Len(w), NEW s, IsStream(w, r, s)
    PROVE  /\ s \in Seq(Nat) /\ Len(s) \in Nat /\ Len(s) = End(w, Len(w)) - End(w, r)
           /\ End(w, Len(w)) \in Nat /\ End(w, r) \in Nat
<1>1. Len(w) \in Nat
  BY WrittenType
<1>2. End(w, Len(w)) \in Nat /\ End(w, r) \in Nat
  BY <1>1, EndType
<1>3. s \in Seq(Nat) /\ Len(s) \in Nat
  BY DEF IsStream
<1> QED BY <1>2, <1>3 DEF IsStream

(* Where a frame of the stream is.                                         *)
LEMMA FramePlace ==
    ASSUME NEW w, IsWritten(w), NEW r \in Nat, NEW n \in Nat, r < n, n <= Len(w),
           NEW s, IsStream(w, r, s)
    PROVE  LET b == End(w, n - 1) - End(w, r)
           IN  /\ b \in Nat /\ w[n] \in Nat /\ w[n] > 0 /\ b + 2 + w[n] <= Len(s)
               /\ End(w, n) - End(w, r) = b + 2 + w[n]
               /\ FrameAt(w, n, s, b)
<1> DEFINE b == End(w, n - 1) - End(w, r)
<1>1. Len(w) \in Nat
  BY WrittenType
<1>2. PICK m \in Nat : n = m + 1 /\ n - 1 = m /\ r <= m /\ m < Len(w) /\ m <= Len(w)
  <2>1. n - 1 \in Nat /\ n = (n - 1) + 1 /\ r <= n - 1 /\ n - 1 < Len(w) /\ n - 1 <= Len(w)
    BY <1>1
  <2> QED BY <2>1
<1>3. End(w, n) = End(w, m) + 2 + w[n] /\ w[n] \in Nat /\ w[n] > 0
  BY <1>2, EndNext
<1>4. /\ End(w, m) >= End(w, r) /\ End(w, Len(w)) >= End(w, n)
      /\ End(w, m) \in Nat /\ End(w, r) \in Nat
  BY <1>1, <1>2, EndGrows
<1>5. Len(s) = End(w, Len(w)) - End(w, r) /\ End(w, Len(w)) \in Nat
  BY <1>1, EndType DEF IsStream
<1>6. b = End(w, m) - End(w, r)
  BY <1>2
<1>7. b \in Nat /\ b + 2 + w[n] <= Len(s) /\ End(w, n) - End(w, r) = b + 2 + w[n]
  BY <1>3, <1>4, <1>5, <1>6, SMTT(30)
<1>8. n \in r + 1 .. Len(w)
  BY <1>1
<1>9. FrameAt(w, n, s, b)
  BY <1>8 DEF IsStream
<1> QED BY <1>3, <1>7, <1>9

(* A frame written appears at the end of the stream.                       *)
LEMMA StreamGrows ==
    ASSUME NEW w, IsWritten(w), NEW size \in Sizes, NEW r \in Nat, r <= Len(w),
           NEW s, IsStream(w, r, s)
    PROVE  IsStream(Append(w, size), r,
                    s \o <<size \div 256, size % 256>> \o [i \in 1 .. size |-> Len(w) + 1])
<1> DEFINE v == Append(w, size)
           l == Len(w)
           head == <<size \div 256, size % 256>>
           body == [i \in 1 .. size |-> l + 1]
           t == s \o head \o body
<1>1. /\ l \in Nat /\ IsWritten(v) /\ Len(v) = l + 1 /\ v[l + 1] = size
      /\ \A n \in 1 .. l : v[n] = w[n]
  BY DEF IsWritten
<1>0. size \in Nat /\ size > 0
  BY DEF Sizes
<1>2. \A n \in Nat : n <= l => End(v, n) = End(w, n) /\ End(w, n) \in Nat
  BY EndOfPrefix, EndType
<1> HIDE DEF v, l
<1>3. End(v, l + 1) = End(v, l) + 2 + size
  <2>1. l < Len(v)
    BY <1>1
  <2> QED BY <1>1, <2>1, EndNext
<1>4. End(w, r) \in Nat /\ End(w, l) \in Nat /\ r <= l /\ End(v, r) = End(w, r)
      /\ End(v, l) = End(w, l)
  BY <1>1, <1>2 DEF l
<1>5. s \in Seq(Nat) /\ Len(s) = End(w, l) - End(w, r) /\ Len(s) \in Nat
  BY StreamType DEF l
<1>6. /\ head \in Seq(Nat) /\ Len(head) = 2
      /\ head[1] = size \div 256 /\ head[2] = size % 256
  BY <1>0
<1>7. /\ body \in Seq(Nat) /\ Len(body) = size /\ \A i \in 1 .. size : body[i] = l + 1
  BY <1>0, <1>1
<1> HIDE DEF head, body
<1>8. /\ t \in Seq(Nat) /\ Len(t) = Len(s) + 2 + size
      /\ \A i \in 1 .. Len(s) : t[i] = s[i]
      /\ t[Len(s) + 1] = size \div 256 /\ t[Len(s) + 2] = size % 256
      /\ \A i \in 1 .. size : t[Len(s) + 2 + i] = l + 1
  <2> DEFINE u == s \o head
  <2>1. /\ u \in Seq(Nat) /\ Len(u) = Len(s) + Len(head)
        /\ \A i \in 1 .. Len(s) : u[i] = s[i]
        /\ \A i \in 1 .. Len(head) : u[Len(s) + i] = head[i]
    <3>1. s \in Seq(Nat) /\ head \in Seq(Nat)
      BY <1>5, <1>6
    <3> QED BY <3>1, Concat, Zenon
  <2>2. /\ t \in Seq(Nat) /\ Len(t) = Len(u) + Len(body)
        /\ \A i \in 1 .. Len(u) : t[i] = u[i]
        /\ \A i \in 1 .. Len(body) : t[Len(u) + i] = body[i]
    BY <2>1, <1>7, Concat
  <2> HIDE DEF t, u
  <2>3. Len(u) = Len(s) + 2 /\ Len(t) = Len(s) + 2 + size
    BY <1>6, <1>7, <2>1, <2>2
  <2>4. ASSUME NEW i \in 1 .. Len(s) PROVE t[i] = s[i]
    <3>1. i \in 1 .. Len(u)
      BY <1>5, <2>3
    <3> QED BY <2>1, <2>2, <3>1
  <2>5. /\ u[Len(s) + 1] = size \div 256 /\ u[Len(s) + 2] = size % 256
    <3>1. 1 \in 1 .. Len(head) /\ 2 \in 1 .. Len(head)
      BY <1>6
    <3> QED BY <1>6, <2>1, <3>1
  <2>6. Len(s) + 1 \in 1 .. Len(u) /\ Len(s) + 2 \in 1 .. Len(u)
    BY <1>5, <2>3
  <2>7. t[Len(s) + 1] = size \div 256 /\ t[Len(s) + 2] = size % 256
    BY <2>2, <2>5, <2>6
  <2>8. \A i \in 1 .. size : t[Len(s) + 2 + i] = l + 1
    BY <1>7, <2>2, <2>3
  <2> QED BY <2>2, <2>3, <2>4, <2>7, <2>8
<1> HIDE DEF t
<1>9. Len(t) = End(v, Len(v)) - End(v, r)
  <2>1. Len(t) = (End(w, l) - End(w, r)) + 2 + size
    BY <1>5, <1>8
  <2>2. End(v, Len(v)) = End(w, l) + 2 + size /\ End(v, r) = End(w, r)
    BY <1>1, <1>3, <1>4
  <2> QED BY <1>0, <1>4, <2>1, <2>2
<1>10. ASSUME NEW n \in r + 1 .. l + 1 PROVE FrameAt(v, n, t, End(v, n - 1) - End(v, r))
  <2>1. CASE n <= l
    <3> DEFINE b == End(w, n - 1) - End(w, r)
    <3>1. n \in Nat /\ r < n /\ n \in 1 .. l /\ n - 1 \in Nat /\ n - 1 <= l
      BY <1>1, <2>1
    <3>2. /\ b \in Nat /\ w[n] \in Nat /\ b + 2 + w[n] <= Len(s) /\ FrameAt(w, n, s, b)
      BY <2>1, <3>1, FramePlace DEF l
    <3>3. v[n] = w[n] /\ End(v, n - 1) - End(v, r) = b
      BY <1>1, <1>2, <1>4, <3>1
    <3> HIDE DEF b
    <3>4. /\ b + 1 \in 1 .. Len(s) /\ b + 2 \in 1 .. Len(s)
          /\ \A i \in 1 .. w[n] : b + 2 + i \in 1 .. Len(s)
      BY <1>5, <3>2, SMTT(30)
    <3>5. t[b + 1] = s[b + 1] /\ t[b + 2] = s[b + 2]
      BY <1>8, <3>4
    <3>6. \A i \in 1 .. w[n] : t[b + 2 + i] = s[b + 2 + i]
      BY <1>8, <3>4
    <3>7. FrameAt(w, n, s, b)
      BY <3>2
    <3>8. FrameAt(w, n, t, b)
      BY <3>5, <3>6, <3>7, Zenon DEF FrameAt
    <3> QED BY <3>3, <3>8 DEF FrameAt
  <2>2. CASE n = l + 1
    <3>1. n - 1 = l
      BY <1>1, <2>2
    <3>2. End(v, n - 1) - End(v, r) = Len(s)
      BY <1>4, <1>5, <3>1
    <3>3. v[n] = size /\ n = l + 1
      BY <1>1, <2>2
    <3> DEFINE b == Len(s)
    <3>4. /\ t[b + 1] = v[n] \div 256 /\ t[b + 2] = v[n] % 256
          /\ \A i \in 1 .. v[n] : t[b + 2 + i] = n
      BY <1>8, <3>3
    <3> HIDE DEF b
    <3>5. FrameAt(v, n, t, b)
      BY <3>4, Zenon DEF FrameAt
    <3> QED BY <3>2, <3>5, Zenon DEF b
  <2> QED BY <1>1, <2>1, <2>2
<1>11. IsStream(v, r, t)
  <2>1. \A n \in r + 1 .. Len(v) : FrameAt(v, n, t, End(v, n - 1) - End(v, r))
    BY <1>1, <1>10
  <2> QED BY <1>8, <1>9, <2>1, Zenon DEF IsStream
<1> QED BY <1>11, Zenon DEF v, l, head, body, t

(* The two bytes of a length tell it.                                      *)
LEMMA Digits == ASSUME NEW size \in Nat PROVE 256 * (size \div 256) + (size % 256) = size
OBVIOUS

IsBytes(s) == s \in Seq(Nat)

(* Bytes have a length.                                                    *)
LEMMA BytesType == ASSUME NEW s, IsBytes(s) PROVE Len(s) \in Nat
BY DEF IsBytes

(* The same for what is known to be bytes.                                 *)
LEMMA Joined ==
    ASSUME NEW s, IsBytes(s), NEW t, IsBytes(t)
    PROVE  /\ IsBytes(s \o t) /\ Len(s \o t) = Len(s) + Len(t)
           /\ \A i \in 1 .. Len(s) : (s \o t)[i] = s[i]
           /\ \A i \in 1 .. Len(t) : (s \o t)[Len(s) + i] = t[i]
BY Concat DEF IsBytes

ContentOf(w, n) == [i \in 1 .. w[n] |-> n]

(* What is left of a stream after its first bytes.                         *)
LEMMA Dropped ==
    ASSUME NEW s, IsBytes(s), NEW k \in Nat, k <= Len(s)
    PROVE  /\ IsBytes(SubSeq(s, k + 1, Len(s)))
           /\ Len(SubSeq(s, k + 1, Len(s))) = Len(s) - k
           /\ \A i \in 1 .. Len(s) - k : SubSeq(s, k + 1, Len(s))[i] = s[k + i]
<1>1. Len(s) \in Nat /\ s \in Seq(Nat)
  BY DEF IsBytes
<1>2. IsBytes(SubSeq(s, k + 1, Len(s)))
  BY <1>1 DEF IsBytes
<1>3. Len(SubSeq(s, k + 1, Len(s))) = Len(s) - k
  BY <1>1
<1>4. \A i \in 1 .. Len(s) - k : SubSeq(s, k + 1, Len(s))[i] = s[k + i]
  BY <1>1
<1> QED BY <1>2, <1>3, <1>4

(* Where a frame ends once what is before it is cut off.                   *)
LEMMA CutBefore ==
    ASSUME NEW length \in Nat, NEW cut \in Nat, NEW b \in Nat, NEW c \in Nat, NEW size \in Nat,
           b + 2 + size <= length, b = cut + c
    PROVE  length - cut \in Nat /\ c + 2 + size <= length - cut
OBVIOUS

(* Behind its first frame, a stream is the stream of the frames that       *)
(* follow.                                                                 *)
LEMMA StreamAdvances ==
    ASSUME NEW w, IsWritten(w), NEW r \in Nat, r < Len(w), NEW s, IsStream(w, r, s),
           NEW t, IsBytes(t), Len(t) = Len(s) - (2 + w[r + 1]),
           \A i \in 1 .. Len(t) : t[i] = s[2 + w[r + 1] + i]
    PROVE  IsStream(w, r + 1, t)
<1> DEFINE size == w[r + 1]
<1>1. /\ End(w, r + 1) = End(w, r) + 2 + size /\ size \in Nat /\ End(w, r) \in Nat
      /\ Len(w) \in Nat
  BY EndNext, WrittenType
<1>2. Len(s) = End(w, Len(w)) - End(w, r) /\ Len(s) \in Nat /\ End(w, Len(w)) \in Nat
  BY <1>1, StreamType, SMTT(30)
<1> HIDE DEF size
<1>3. Len(t) = End(w, Len(w)) - End(w, r + 1)
  BY <1>1, <1>2, SMTT(30) DEF size
<1>4. ASSUME NEW n \in (r + 1) + 1 .. Len(w)
      PROVE  FrameAt(w, n, t, End(w, n - 1) - End(w, r + 1))
  <2> DEFINE b == End(w, n - 1) - End(w, r)
             c == End(w, n - 1) - End(w, r + 1)
  <2>1. n \in Nat /\ r < n /\ n <= Len(w) /\ r + 1 < n /\ r + 1 \in Nat /\ n - 1 \in Nat
        /\ r + 1 <= n - 1 /\ n - 1 <= Len(w)
    BY <1>1, SMTT(30)
  <2>2. b \in Nat /\ w[n] \in Nat /\ b + 2 + w[n] <= Len(s) /\ FrameAt(w, n, s, b)
    BY <2>1, FramePlace
  <2>3. End(w, n - 1) >= End(w, r + 1) /\ End(w, n - 1) \in Nat
    BY <2>1, EndGrows
  <2>4. c \in Nat /\ b = 2 + size + c
    BY <1>1, <2>3, SMTT(30)
  <2> HIDE DEF b, c
  <2>a. Len(t) = Len(s) - (2 + size)
    BY DEF size
  <2>b. Len(t) \in Nat /\ c + 2 + w[n] <= Len(t)
    <3>1. 2 + size \in Nat /\ b = (2 + size) + c
      BY <1>1, <2>4, SMTT(30)
    <3>2. Len(s) \in Nat /\ b \in Nat /\ w[n] \in Nat /\ b + 2 + w[n] <= Len(s)
      BY <1>2, <2>2
    <3>3. /\ Len(s) - (2 + size) \in Nat /\ c + 2 + w[n] <= Len(s) - (2 + size)
      BY <2>4, <3>1, <3>2, CutBefore
    <3> QED BY <2>a, <3>3
  <2>5. /\ c + 1 \in 1 .. Len(t) /\ c + 2 \in 1 .. Len(t)
        /\ \A i \in 1 .. w[n] : c + 2 + i \in 1 .. Len(t)
    BY <2>2, <2>4, <2>b, SMTT(30)
  <2>6. /\ t[c + 1] = s[b + 1] /\ t[c + 2] = s[b + 2]
        /\ \A i \in 1 .. w[n] : t[c + 2 + i] = s[b + 2 + i]
    <3>1. t[c + 1] = s[2 + size + (c + 1)] /\ t[c + 2] = s[2 + size + (c + 2)]
      BY <2>5 DEF size
    <3>2. \A i \in 1 .. w[n] : t[c + 2 + i] = s[2 + size + (c + 2 + i)]
      BY <2>5 DEF size
    <3>3. 2 + size + (c + 1) = b + 1 /\ 2 + size + (c + 2) = b + 2
      BY <1>1, <2>4
    <3>4. \A i \in 1 .. w[n] : 2 + size + (c + 2 + i) = b + 2 + i
      BY <1>1, <2>2, <2>4
    <3> QED BY <3>1, <3>2, <3>3, <3>4
  <2> QED BY <2>2, <2>6 DEF FrameAt, c
<1> QED BY <1>3, <1>4 DEF IsStream, IsBytes

(* The audio of a frame behind its two bytes.                              *)
LEMMA AudioPart ==
    ASSUME NEW b, IsBytes(b), NEW size \in Nat, 2 + size <= Len(b)
    PROVE  SubSeq(b, 3, 2 + size) = [i \in 1 .. size |-> b[2 + i]]
<1>1. b \in Seq(Nat) /\ Len(b) \in Nat
  BY DEF IsBytes
<1>2. (2 + size) - 3 + 1 = size /\ \A i \in 1 .. size : 3 + i - 1 = 2 + i
  OBVIOUS
<1>3. SubSeq(b, 3, 2 + size) = [i \in 1 .. (2 + size) - 3 + 1 |-> b[3 + i - 1]]
  BY <1>1
<1> QED BY <1>2, <1>3

(* acceptProcessOutput takes the next frame, whole, when it is there.      *)
LEMMA FrameTaken ==
    ASSUME NEW w, IsWritten(w), NEW r \in Nat, r <= Len(w),
           NEW b, IsBytes(b), NEW p, IsBytes(p), IsStream(w, r, b \o p), HasFrame(b)
    PROVE  /\ r < Len(w)
           /\ SubSeq(b, 3, 2 + FrameLength(b)) = ContentOf(w, r + 1)
           /\ IsBytes(SubSeq(b, 3 + FrameLength(b), Len(b)))
           /\ Len(SubSeq(b, 3 + FrameLength(b), Len(b))) <= Len(b) - 2
           /\ IsStream(w, r + 1, SubSeq(b, 3 + FrameLength(b), Len(b)) \o p)
           /\ FrameLength(b) \in Nat
<1> DEFINE s == b \o p
           size == w[r + 1]
           rest == SubSeq(b, 3 + size, Len(b))
<1>1. Len(w) \in Nat /\ Len(b) \in Nat /\ Len(p) \in Nat /\ Len(b) >= 2
  BY WrittenType, BytesType DEF HasFrame
<1>2. /\ IsBytes(s) /\ Len(s) = Len(b) + Len(p)
      /\ \A i \in 1 .. Len(b) : s[i] = b[i]
      /\ \A i \in 1 .. Len(p) : s[Len(b) + i] = p[i]
  BY Joined
<1> HIDE DEF s
<1>3. r < Len(w)
  <2>1. Len(s) = End(w, Len(w)) - End(w, r) /\ End(w, r) \in Nat
    BY StreamType DEF s
  <2>2. r # Len(w)
    BY <1>1, <1>2, <2>1
  <2> QED BY <1>1, <2>2
<1>4. /\ size \in Nat /\ size > 0 /\ 2 + size <= Len(s)
      /\ s[1] = size \div 256 /\ s[2] = size % 256
      /\ \A i \in 1 .. size : s[2 + i] = r + 1
  <2>1. /\ r + 1 \in Nat /\ r < r + 1 /\ r + 1 <= Len(w) /\ (r + 1) - 1 = r
    BY <1>1, <1>3
  <2>2. End(w, r) \in Nat /\ End(w, r) - End(w, r) = 0
    BY EndType
  <2>3. size \in Nat /\ size > 0 /\ 0 + 2 + size <= Len(s) /\ FrameAt(w, r + 1, s, 0)
    BY <2>1, <2>2, FramePlace DEF s
  <2> QED BY <2>3 DEF FrameAt
<1>5. FrameLength(b) = size
  <2>1. b[1] = s[1] /\ b[2] = s[2]
    BY <1>1, <1>2
  <2> QED BY <1>4, <2>1, Digits DEF FrameLength
<1>6. 2 + size <= Len(b) /\ 3 + size = (2 + size) + 1
  BY <1>1, <1>4, <1>5 DEF HasFrame
<1>7. SubSeq(b, 3, 2 + size) = ContentOf(w, r + 1)
  <2>1. \A i \in 1 .. size : b[2 + i] = r + 1
    <3>1. \A i \in 1 .. size : 2 + i \in 1 .. Len(b)
      BY <1>1, <1>4, <1>6, SMTT(30)
    <3> QED BY <1>2, <1>4, <3>1
  <2>2. SubSeq(b, 3, 2 + size) = [i \in 1 .. size |-> b[2 + i]]
    BY <1>4, <1>6, AudioPart
  <2> HIDE DEF size
  <2>3. [i \in 1 .. size |-> b[2 + i]] = [i \in 1 .. size |-> r + 1]
    BY <2>1
  <2> QED BY <2>2, <2>3 DEF ContentOf, size
<1>8. /\ IsBytes(rest) /\ Len(rest) = Len(b) - (2 + size)
      /\ \A i \in 1 .. Len(b) - (2 + size) : rest[i] = b[2 + size + i]
  <2>1. 2 + size \in Nat
    BY <1>4
  <2> HIDE DEF size
  <2> QED BY <1>6, <2>1, Dropped, SMTT(30)
<1> HIDE DEF rest
<1>9. Len(rest) <= Len(b) - 2
  BY <1>1, <1>4, <1>8, SMTT(30)
<1>10. IsStream(w, r + 1, rest \o p)
  <2> DEFINE t == rest \o p
  <2>a. IsBytes(rest)
    BY <1>8
  <2>b. Len(rest) \in Nat
    BY <2>a, BytesType
  <2>1. /\ IsBytes(t) /\ Len(t) = Len(rest) + Len(p)
        /\ \A i \in 1 .. Len(rest) : t[i] = rest[i]
        /\ \A i \in 1 .. Len(p) : t[Len(rest) + i] = p[i]
    BY <2>a, Joined
  <2> HIDE DEF t, size
  <2>c. size \in Nat /\ Len(b) = Len(rest) + (2 + size) /\ Len(t) = Len(rest) + Len(p)
    BY <1>1, <1>4, <1>8, <2>b, <2>1
  <2>2. Len(t) = Len(s) - (2 + size)
    BY <1>1, <1>2, <1>4, <1>8, <2>1
  <2>3. ASSUME NEW i \in 1 .. Len(t) PROVE t[i] = s[2 + size + i]
    <3>1. CASE i <= Len(rest)
      <4>1. i \in 1 .. Len(rest) /\ 2 + size + i \in 1 .. Len(b)
        BY <1>1, <2>b, <2>c, <3>1
      <4> QED BY <1>2, <1>8, <2>1, <4>1
    <3>2. CASE i > Len(rest)
      <4> DEFINE j == i - Len(rest)
      <4>1. j \in 1 .. Len(p) /\ i = Len(rest) + j /\ 2 + size + i = Len(b) + j
        BY <1>1, <2>b, <2>c, <3>2
      <4> QED BY <1>2, <2>1, <4>1
    <3> QED BY <1>1, <2>b, <2>c, <3>1, <3>2
  <2>4. IsStream(w, r, s)
    BY DEF s
  <2> QED BY <1>3, <2>1, <2>2, <2>3, <2>4, StreamAdvances DEF t, size
<1> QED BY <1>3, <1>4, <1>5, <1>7, <1>8, <1>9, <1>10 DEF rest

(* What is there of the next frame otherwise.                              *)
LEMMA NoFrameYet ==
    ASSUME NEW w, IsWritten(w), NEW r \in Nat, r < Len(w),
           NEW b, IsBytes(b), NEW p, IsBytes(p), IsStream(w, r, b \o p), ~HasFrame(b)
    PROVE  Len(b) < 2 + w[r + 1]
<1> DEFINE s == b \o p
           size == w[r + 1]
<1>1. Len(w) \in Nat /\ Len(b) \in Nat
  BY WrittenType, BytesType
<1>2. \A i \in 1 .. Len(b) : s[i] = b[i]
  BY Joined
<1>3. size \in Nat /\ size > 0 /\ FrameAt(w, r + 1, s, 0)
  <2>1. /\ r + 1 \in Nat /\ r < r + 1 /\ r + 1 <= Len(w) /\ (r + 1) - 1 = r
    BY <1>1
  <2>2. End(w, r) \in Nat /\ End(w, r) - End(w, r) = 0
    BY EndType
  <2> HIDE DEF s
  <2> QED BY <2>1, <2>2, FramePlace DEF s
<1> HIDE DEF s
<1>4. CASE Len(b) >= 2
  <2>1. b[1] = size \div 256 /\ b[2] = size % 256
    BY <1>1, <1>2, <1>3, <1>4 DEF FrameAt
  <2>2. FrameLength(b) = size
    BY <1>3, <2>1, Digits DEF FrameLength
  <2> QED BY <1>1, <1>3, <1>4, <2>2 DEF HasFrame
<1> QED BY <1>1, <1>3, <1>4
----------------------------------------------------------------------------
(* What TakeFrames goes through, over the first n bytes.                   *)
Parses(buffer, n, iter) ==
    iter = [x \in SUBSET (1 .. n) |->
              IF x = {} THEN [frames |-> <<>>, rest |-> buffer]
              ELSE TakeFrame(iter[x \ {Max(x)}], buffer[Max(x)])]

(* There is such a function.                                               *)
LEMMA ParsesExist == ASSUME NEW buffer, NEW n \in Nat PROVE \E iter : Parses(buffer, n, iter)
<1> DEFINE base == [frames |-> <<>>, rest |-> buffer]
           S == {k \in Nat : \E iter : Parses(buffer, k, iter)}
<1>0. \A k, iter : Parses(buffer, k, iter) <=>
        iter = [x \in SUBSET (1 .. k) |->
                  IF x = {} THEN base ELSE TakeFrame(iter[x \ {Max(x)}], buffer[Max(x)])]
  BY DEF Parses
<1> HIDE DEF base
<1>1. 0 \in S
  <2> DEFINE g == [x \in SUBSET (1 .. 0) |-> base]
  <2>1. \A x \in SUBSET (1 .. 0) : x = {}
    OBVIOUS
  <2>2. g = [x \in SUBSET (1 .. 0) |->
              IF x = {} THEN base ELSE TakeFrame(g[x \ {Max(x)}], buffer[Max(x)])]
    BY <2>1
  <2> HIDE DEF g
  <2>3. Parses(buffer, 0, g)
    BY <1>0, <2>2
  <2> QED BY <2>3
<1>2. ASSUME NEW k \in Nat, k \in S PROVE k + 1 \in S
  <2>1. PICK iter : Parses(buffer, k, iter)
    BY <1>2
  <2> DEFINE Small == SUBSET (1 .. k)
             Large == SUBSET (1 .. k + 1)
             body(f, x) == IF x = {} THEN base ELSE TakeFrame(f[x \ {Max(x)}], buffer[Max(x)])
             g == [x \in Large |-> IF x \in Small THEN iter[x]
                                  ELSE TakeFrame(iter[x \ {k + 1}], buffer[k + 1])]
  <2>a. iter = [x \in Small |->
                  IF x = {} THEN base ELSE TakeFrame(iter[x \ {Max(x)}], buffer[Max(x)])]
    BY <1>0, <2>1
  <2>2. \A x \in Small : iter[x] = body(iter, x)
    <3> SUFFICES ASSUME NEW x \in Small PROVE iter[x] = body(iter, x)
      OBVIOUS
    <3> HIDE DEF Small
    <3> QED BY <2>a, Zenon
  <2>3. ASSUME NEW x \in Large PROVE g[x] = body(g, x)
    <3>1. CASE x \in Small
      <4>1. g[x] = iter[x]
        BY <3>1
      <4>2. CASE x = {}
        BY <2>2, <3>1, <4>1, <4>2
      <4>3. CASE x # {}
        <5>1. Max(x) \in x
          BY <3>1, <4>3, MaxIsFirst
        <5>2. x \ {Max(x)} \in Small /\ x \ {Max(x)} \in Large
          BY <3>1
        <5>3. g[x \ {Max(x)}] = iter[x \ {Max(x)}]
          BY <5>2
        <5> HIDE DEF g
        <5> QED BY <2>2, <3>1, <4>1, <4>3, <5>3
      <4> QED BY <4>2, <4>3
    <3>2. CASE x \notin Small
      <4>1. k + 1 \in x /\ x # {}
        BY <3>2
      <4>2. Max(x) = k + 1 /\ x \ {Max(x)} \in Small
        BY <4>1, MaxOfFirst
      <4>3. g[x] = TakeFrame(iter[x \ {k + 1}], buffer[k + 1])
        BY <3>2
      <4>4. x \ {Max(x)} \in Large
        OBVIOUS
      <4>5. g[x \ {Max(x)}] = iter[x \ {Max(x)}]
        BY <4>2, <4>4
      <4> HIDE DEF g
      <4> QED BY <4>1, <4>2, <4>3, <4>5
    <3> QED BY <3>1, <3>2
  <2>4. g = [x \in Large |-> g[x]]
    OBVIOUS
  <2> HIDE DEF g
  <2>5. g = [x \in Large |-> body(g, x)]
    BY <2>3, <2>4, Zenon
  <2>6. Parses(buffer, k + 1, g)
    BY <1>0, <2>5
  <2> QED BY <2>6
<1>3. n \in S
  <2> HIDE DEF S
  <2> QED BY <1>1, <1>2, Induction
<1> QED BY <1>3

(* TakeFrames, step by step.                                               *)
LEMMA TakeSteps ==
    ASSUME NEW buffer, DOMAIN buffer = 1 .. Len(buffer), Len(buffer) \in Nat
    PROVE  \E acc : /\ acc[0] = [frames |-> <<>>, rest |-> buffer]
                    /\ TakeFrames(buffer) = acc[Len(buffer)]
                    /\ \A k \in 1 .. Len(buffer) : acc[k] = TakeFrame(acc[k - 1], buffer[k])
<1> DEFINE n == Len(buffer)
           base == [frames |-> <<>>, rest |-> buffer]
           iter == CHOOSE iter : Parses(buffer, n, iter)
           acc == [k \in 0 .. n |-> iter[1 .. k]]
<1>1. Parses(buffer, n, iter)
  BY ParsesExist
<1>2. TakeFrames(buffer) = iter[1 .. n]
  <2>1. TakeFrames(buffer) = (CHOOSE it : it = [x \in SUBSET DOMAIN buffer |->
              IF x = {} THEN base
              ELSE TakeFrame(it[x \ {Max(x)}], buffer[Max(x)])])[DOMAIN buffer]
    BY DEF TakeFrames, FoldLeft, MapThenFoldSet
  <2> QED BY <2>1 DEF Parses
<1> HIDE DEF iter
<1>0. iter = [x \in SUBSET (1 .. n) |->
                IF x = {} THEN base ELSE TakeFrame(iter[x \ {Max(x)}], buffer[Max(x)])]
  BY <1>1 DEF Parses
<1> HIDE DEF base
<1>3. acc[0] = base
  <2>1. 1 .. 0 = {}
    OBVIOUS
  <2> QED BY <1>0, <2>1
<1>4. ASSUME NEW k \in 1 .. n PROVE acc[k] = TakeFrame(acc[k - 1], buffer[k])
  <2>1. PICK j \in Nat : k = j + 1
    <3>1. k - 1 \in Nat /\ k = (k - 1) + 1
      OBVIOUS
    <3> QED BY <3>1
  <2>2. Max(1 .. k) = k
    <3>1. 1 .. k \in SUBSET (1 .. j + 1) /\ j + 1 \in 1 .. k
      BY <2>1
    <3> QED BY <2>1, <3>1, MaxOfFirst
  <2>3. (1 .. k) \ {k} = 1 .. k - 1
    BY <2>1
  <2>4. 1 .. k # {} /\ 1 .. k \in SUBSET (1 .. n)
    BY <2>1
  <2>5. iter[1 .. k] = TakeFrame(iter[1 .. k - 1], buffer[k])
    BY <1>0, <2>2, <2>3, <2>4
  <2>6. k \in 0 .. n /\ k - 1 \in 0 .. n
    OBVIOUS
  <2> QED BY <2>5, <2>6
<1>5. TakeFrames(buffer) = acc[n]
  BY <1>2
<1> HIDE DEF acc
<1> QED BY <1>3, <1>4, <1>5 DEF base
----------------------------------------------------------------------------
(* What the out record goes through, over the first n payloads.            *)
Sendings(o, payloads, n, iter) ==
    iter = [x \in SUBSET (1 .. n) |->
              IF x = {} THEN o
              ELSE SendPayload(iter[x \ {Max(x)}], payloads[Max(x)])]

(* There is such a function.                                               *)
LEMMA SendingsExist ==
    ASSUME NEW o, NEW payloads, NEW n \in Nat PROVE \E iter : Sendings(o, payloads, n, iter)
<1> DEFINE base == o
           S == {k \in Nat : \E iter : Sendings(o, payloads, k, iter)}
<1>0. \A k, iter : Sendings(o, payloads, k, iter) <=>
        iter = [x \in SUBSET (1 .. k) |->
                  IF x = {} THEN base ELSE SendPayload(iter[x \ {Max(x)}], payloads[Max(x)])]
  BY DEF Sendings
<1> HIDE DEF base
<1>1. 0 \in S
  <2> DEFINE g == [x \in SUBSET (1 .. 0) |-> base]
  <2>1. \A x \in SUBSET (1 .. 0) : x = {}
    OBVIOUS
  <2>2. g = [x \in SUBSET (1 .. 0) |->
              IF x = {} THEN base ELSE SendPayload(g[x \ {Max(x)}], payloads[Max(x)])]
    BY <2>1
  <2> HIDE DEF g
  <2>3. Sendings(o, payloads, 0, g)
    BY <1>0, <2>2
  <2> QED BY <2>3
<1>2. ASSUME NEW k \in Nat, k \in S PROVE k + 1 \in S
  <2>1. PICK iter : Sendings(o, payloads, k, iter)
    BY <1>2
  <2> DEFINE Small == SUBSET (1 .. k)
             Large == SUBSET (1 .. k + 1)
             body(f, x) == IF x = {} THEN base
                           ELSE SendPayload(f[x \ {Max(x)}], payloads[Max(x)])
             g == [x \in Large |-> IF x \in Small THEN iter[x]
                                  ELSE SendPayload(iter[x \ {k + 1}], payloads[k + 1])]
  <2>a. iter = [x \in Small |->
                  IF x = {} THEN base ELSE SendPayload(iter[x \ {Max(x)}], payloads[Max(x)])]
    BY <1>0, <2>1
  <2>2. \A x \in Small : iter[x] = body(iter, x)
    <3> SUFFICES ASSUME NEW x \in Small PROVE iter[x] = body(iter, x)
      OBVIOUS
    <3> HIDE DEF Small
    <3> QED BY <2>a, Zenon
  <2>3. ASSUME NEW x \in Large PROVE g[x] = body(g, x)
    <3>1. CASE x \in Small
      <4>1. g[x] = iter[x]
        BY <3>1
      <4>2. CASE x = {}
        BY <2>2, <3>1, <4>1, <4>2
      <4>3. CASE x # {}
        <5>1. Max(x) \in x
          BY <3>1, <4>3, MaxIsFirst
        <5>2. x \ {Max(x)} \in Small /\ x \ {Max(x)} \in Large
          BY <3>1
        <5>3. g[x \ {Max(x)}] = iter[x \ {Max(x)}]
          BY <5>2
        <5> HIDE DEF g
        <5> QED BY <2>2, <3>1, <4>1, <4>3, <5>3
      <4> QED BY <4>2, <4>3
    <3>2. CASE x \notin Small
      <4>1. k + 1 \in x /\ x # {}
        BY <3>2
      <4>2. Max(x) = k + 1 /\ x \ {Max(x)} \in Small
        BY <4>1, MaxOfFirst
      <4>3. g[x] = SendPayload(iter[x \ {k + 1}], payloads[k + 1])
        BY <3>2
      <4>4. x \ {Max(x)} \in Large
        OBVIOUS
      <4>5. g[x \ {Max(x)}] = iter[x \ {Max(x)}]
        BY <4>2, <4>4
      <4> HIDE DEF g
      <4> QED BY <4>1, <4>2, <4>3, <4>5
    <3> QED BY <3>1, <3>2
  <2>4. g = [x \in Large |-> g[x]]
    OBVIOUS
  <2> HIDE DEF g
  <2>5. g = [x \in Large |-> body(g, x)]
    BY <2>3, <2>4, Zenon
  <2>6. Sendings(o, payloads, k + 1, g)
    BY <1>0, <2>5
  <2> QED BY <2>6
<1>3. n \in S
  <2> HIDE DEF S
  <2> QED BY <1>1, <1>2, Induction
<1> QED BY <1>3

(* Sending payload after payload.                                          *)
LEMMA SendSteps ==
    ASSUME NEW o, NEW payloads, DOMAIN payloads = 1 .. Len(payloads), Len(payloads) \in Nat
    PROVE  \E acc : /\ acc[0] = o
                    /\ SendAll(o, payloads) = acc[Len(payloads)]
                    /\ \A k \in 1 .. Len(payloads) :
                          acc[k] = SendPayload(acc[k - 1], payloads[k])
<1> DEFINE n == Len(payloads)
           base == o
           iter == CHOOSE iter : Sendings(o, payloads, n, iter)
           acc == [k \in 0 .. n |-> iter[1 .. k]]
<1>1. Sendings(o, payloads, n, iter)
  BY SendingsExist
<1>2. SendAll(o, payloads) = iter[1 .. n]
  <2>1. SendAll(o, payloads) = (CHOOSE it : it = [x \in SUBSET DOMAIN payloads |->
              IF x = {} THEN base
              ELSE SendPayload(it[x \ {Max(x)}], payloads[Max(x)])])[DOMAIN payloads]
    BY DEF SendAll, FoldLeft, MapThenFoldSet
  <2> QED BY <2>1 DEF Sendings
<1> HIDE DEF iter
<1>0. iter = [x \in SUBSET (1 .. n) |->
                IF x = {} THEN base ELSE SendPayload(iter[x \ {Max(x)}], payloads[Max(x)])]
  BY <1>1 DEF Sendings
<1> HIDE DEF base
<1>3. acc[0] = base
  <2>1. 1 .. 0 = {}
    OBVIOUS
  <2> QED BY <1>0, <2>1
<1>4. ASSUME NEW k \in 1 .. n PROVE acc[k] = SendPayload(acc[k - 1], payloads[k])
  <2>1. PICK j \in Nat : k = j + 1
    <3>1. k - 1 \in Nat /\ k = (k - 1) + 1
      OBVIOUS
    <3> QED BY <3>1
  <2>2. Max(1 .. k) = k
    <3>1. 1 .. k \in SUBSET (1 .. j + 1) /\ j + 1 \in 1 .. k
      BY <2>1
    <3> QED BY <2>1, <3>1, MaxOfFirst
  <2>3. (1 .. k) \ {k} = 1 .. k - 1
    BY <2>1
  <2>4. 1 .. k # {} /\ 1 .. k \in SUBSET (1 .. n)
    BY <2>1
  <2>5. iter[1 .. k] = SendPayload(iter[1 .. k - 1], payloads[k])
    BY <1>0, <2>2, <2>3, <2>4
  <2>6. k \in 0 .. n /\ k - 1 \in 0 .. n
    OBVIOUS
  <2> QED BY <2>5, <2>6
<1>5. SendAll(o, payloads) = acc[n]
  BY <1>2
<1> HIDE DEF acc
<1> QED BY <1>3, <1>4, <1>5 DEF base
----------------------------------------------------------------------------
(* The q frames behind frame r.                                            *)
FramesBehind(w, r, q) == [k \in 1 .. q |-> ContentOf(w, r + k)]

(* The frames behind frame r, q of them.                                   *)
LEMMA FramesBehindType ==
    ASSUME NEW w, NEW r \in Nat, NEW q \in Nat
    PROVE  /\ Len(FramesBehind(w, r, q)) = q /\ DOMAIN FramesBehind(w, r, q) = 1 .. q
           /\ \A k \in 1 .. q : FramesBehind(w, r, q)[k] = ContentOf(w, r + k)
BY DEF FramesBehind

(* One frame more behind frame r.                                          *)
LEMMA FramesGrow ==
    ASSUME NEW w, NEW r \in Nat, NEW q \in Nat
    PROVE  Append(FramesBehind(w, r, q), ContentOf(w, r + q + 1)) = FramesBehind(w, r, q + 1)
<1> DEFINE f == FramesBehind(w, r, q)
           g == FramesBehind(w, r, q + 1)
           c == ContentOf(w, r + q + 1)
<1>1. Len(f) = q /\ DOMAIN f = 1 .. q /\ \A k \in 1 .. q : f[k] = ContentOf(w, r + k)
  BY FramesBehindType
<1>2. /\ DOMAIN g = 1 .. q + 1 /\ \A k \in 1 .. q + 1 : g[k] = ContentOf(w, r + k)
      /\ g = [k \in 1 .. q + 1 |-> g[k]]
  BY DEF FramesBehind
<1> HIDE DEF f, g, c
<1> DEFINE Contents == {ContentOf(w, r + k) : k \in 1 .. q + 1}
<1>a. f \in Seq(Contents) /\ g \in Seq(Contents) /\ Len(g) = q + 1 /\ c \in Contents
  <2>1. r + (q + 1) = r + q + 1 /\ q + 1 \in 1 .. q + 1
    OBVIOUS
  <2>2. c \in Contents
    BY <2>1 DEF c
  <2>0. f = [k \in 1 .. q |-> ContentOf(w, r + k)]
        /\ g = [k \in 1 .. q + 1 |-> ContentOf(w, r + k)]
    BY DEF f, g, FramesBehind
  <2>a. \A k \in 1 .. q + 1 : ContentOf(w, r + k) \in Contents
    OBVIOUS
  <2> HIDE DEF Contents
  <2>b. \A k \in 1 .. q : ContentOf(w, r + k) \in Contents
    BY <2>a
  <2>3. f \in Seq(Contents)
    BY <2>0, <2>b
  <2>4. g \in Seq(Contents) /\ Len(g) = q + 1
    BY <2>0, <2>a
  <2> QED BY <2>2, <2>3, <2>4
<1> HIDE DEF Contents
<1>3. /\ Append(f, c) \in Seq(Contents) /\ Len(Append(f, c)) = q + 1
      /\ \A k \in 1 .. q : Append(f, c)[k] = f[k]
      /\ Append(f, c)[q + 1] = c
  BY <1>1, <1>a, AppendProperties
<1>4. \A k \in 1 .. q + 1 : g[k] = IF k = q + 1 THEN c ELSE f[k]
  <2> SUFFICES ASSUME NEW k \in 1 .. q + 1 PROVE g[k] = IF k = q + 1 THEN c ELSE f[k]
    OBVIOUS
  <2>1. CASE k = q + 1
    <3>1. r + k = r + q + 1
      BY <2>1
    <3> QED BY <1>2, <2>1, <3>1 DEF c
  <2>2. CASE k # q + 1
    <3>1. k \in 1 .. q
      BY <2>2
    <3> QED BY <1>1, <1>2, <2>2, <3>1
  <2> QED BY <2>1, <2>2
<1>5. \A k \in 1 .. q + 1 : Append(f, c)[k] = g[k]
  BY <1>3, <1>4
<1>6. Append(f, c) = g
  BY <1>a, <1>3, <1>5, SeqEqual
<1> QED BY <1>6 DEF f, g, c

(* What TakeFrame does with a frame that is whole.                         *)
LEMMA OneTaken ==
    ASSUME NEW parse, NEW byte, HasFrame(parse.rest)
    PROVE  TakeFrame(parse, byte) =
             [frames |-> Append(parse.frames,
                                SubSeq(parse.rest, 3, 2 + FrameLength(parse.rest))),
              rest   |-> SubSeq(parse.rest, 2 + FrameLength(parse.rest) + 1, Len(parse.rest))]
BY Zenon DEF TakeFrame

(* acceptProcessOutput takes all frames that are there, whole and in order. *)
LEMMA FramesTaken ==
    ASSUME NEW w, IsWritten(w), NEW r \in Nat, r <= Len(w), NEW b, IsBytes(b),
           NEW p, IsBytes(p), IsStream(w, r, b \o p)
    PROVE  \E q \in Nat : LET parse == TakeFrames(b)
                          IN  /\ r + q <= Len(w)
                              /\ parse.frames = FramesBehind(w, r, q)
                              /\ IsBytes(parse.rest) /\ ~HasFrame(parse.rest)
                              /\ IsStream(w, r + q, parse.rest \o p)
<1> DEFINE n == Len(b)
<1>1. n \in Nat /\ DOMAIN b = 1 .. n
  BY BytesType DEF IsBytes
<1>2. PICK acc : /\ acc[0] = [frames |-> <<>>, rest |-> b]
                 /\ TakeFrames(b) = acc[n]
                 /\ \A k \in 1 .. n : acc[k] = TakeFrame(acc[k - 1], b[k])
  BY <1>1, TakeSteps
<1> DEFINE Taken(k, q) ==
             /\ r + q <= Len(w)
             /\ acc[k].frames = FramesBehind(w, r, q)
             /\ IsBytes(acc[k].rest) /\ IsStream(w, r + q, acc[k].rest \o p)
             /\ HasFrame(acc[k].rest) => Len(acc[k].rest) + k + k <= n
           S == {k \in Nat : k <= n => \E q \in Nat : Taken(k, q)}
<1>3. 0 \in S
  <2>1. acc[0].rest = b /\ acc[0].frames = <<>>
    BY <1>2
  <2>2. FramesBehind(w, r, 0) = <<>>
    BY DEF FramesBehind
  <2>3. r + 0 = r /\ n + 0 + 0 = n
    BY <1>1
  <2>4. Taken(0, 0)
    BY <1>1, <2>1, <2>2, <2>3
  <2> QED BY <2>4
<1>4. ASSUME NEW k \in Nat, k \in S PROVE k + 1 \in S
  <2> HIDE DEF n, Taken
  <2> SUFFICES ASSUME k + 1 <= n PROVE \E q \in Nat : Taken(k + 1, q)
    OBVIOUS
  <2> USE DEF Taken
  <2>1. k + 1 \in 1 .. n /\ (k + 1) - 1 = k /\ k <= n
    BY <1>1
  <2>2. PICK q \in Nat : Taken(k, q)
    BY <1>4, <2>1 DEF n
  <2> DEFINE rest == acc[k].rest
             less == SubSeq(rest, 3 + FrameLength(rest), Len(rest))
  <2>3. acc[k + 1] = TakeFrame(acc[k], b[k + 1])
    BY <1>2, <2>1 DEF n
  <2>4. CASE ~HasFrame(rest)
    <3>1. acc[k + 1] = acc[k]
      BY <2>3, <2>4 DEF TakeFrame
    <3>2. Taken(k + 1, q)
      BY <2>2, <2>4, <3>1
    <3> QED BY <3>2
  <2>5. CASE HasFrame(rest)
    <3>1. /\ acc[k + 1].frames = Append(acc[k].frames, SubSeq(rest, 3, 2 + FrameLength(rest)))
          /\ acc[k + 1].rest = SubSeq(rest, 2 + FrameLength(rest) + 1, Len(rest))
      <4> DEFINE f == Append(acc[k].frames, SubSeq(rest, 3, 2 + FrameLength(rest)))
                 s == SubSeq(rest, 2 + FrameLength(rest) + 1, Len(rest))
      <4>1. TakeFrame(acc[k], b[k + 1]) = [frames |-> f, rest |-> s]
        BY <2>5, OneTaken
      <4> HIDE DEF f, s
      <4>2. acc[k + 1] = [frames |-> f, rest |-> s]
        BY <2>3, <4>1
      <4>3. acc[k + 1].frames = f /\ acc[k + 1].rest = s
        BY <4>2
      <4> QED BY <4>3 DEF f, s
    <3>2. IsBytes(rest) /\ r + q \in Nat /\ r + q <= Len(w) /\ IsStream(w, r + q, rest \o p)
      BY <2>2
    <3> HIDE DEF rest
    <3>3. /\ r + q < Len(w)
          /\ SubSeq(rest, 3, 2 + FrameLength(rest)) = ContentOf(w, r + q + 1)
          /\ IsBytes(less) /\ Len(less) <= Len(rest) - 2
          /\ IsStream(w, r + q + 1, less \o p) /\ FrameLength(rest) \in Nat
      BY <2>5, <3>2, FrameTaken
    <3>4. acc[k + 1].rest = less
      <4>1. 2 + FrameLength(rest) + 1 = 3 + FrameLength(rest)
        BY <3>3
      <4> QED BY <3>1, <4>1
    <3>5. acc[k + 1].frames = FramesBehind(w, r, q + 1)
      <4>1. acc[k].frames = FramesBehind(w, r, q)
        BY <2>2
      <4> QED BY <3>1, <3>3, <4>1, FramesGrow
    <3>6. r + q + 1 = r + (q + 1) /\ r + q + 1 <= Len(w)
      BY <3>3, WrittenType
    <3>7. Len(less) + (k + 1) + (k + 1) <= n
      <4>1. Len(rest) + k + k <= n
        BY <2>2, <2>5 DEF rest
      <4>2. Len(less) \in Nat /\ Len(rest) \in Nat
        BY <3>2, <3>3, BytesType
      <4> HIDE DEF less
      <4> QED BY <1>1, <3>3, <4>1, <4>2
    <3>8. Taken(k + 1, q + 1)
      BY <3>3, <3>4, <3>5, <3>6, <3>7
    <3> HIDE DEF Taken
    <3> QED BY <3>8
  <2> QED BY <2>4, <2>5
<1>5. n \in S
  <2> HIDE DEF S
  <2> QED BY <1>1, <1>3, <1>4, Induction
<1>6. PICK q \in Nat : Taken(n, q)
  BY <1>1, <1>5
<1>7. ~HasFrame(acc[n].rest)
  <2> DEFINE rest == acc[n].rest
  <2>1. IsBytes(rest) /\ Len(rest) \in Nat
    BY <1>6, BytesType
  <2>2. HasFrame(rest) => Len(rest) + n + n <= n /\ Len(rest) >= 2
    BY <1>6 DEF HasFrame
  <2> HIDE DEF rest, n
  <2>3. ~HasFrame(rest)
    BY <1>1, <2>1, <2>2
  <2> QED BY <2>3 DEF rest
<1> HIDE DEF n
<1> QED BY <1>2, <1>6, <1>7
----------------------------------------------------------------------------
(* Division with remainder.                                                *)
LEMMA Remainder ==
    ASSUME NEW M \in Nat \ {0}, NEW a \in Int
    PROVE  a = M * (a \div M) + (a % M) /\ a % M \in 0 .. M - 1 /\ a \div M \in Int
OBVIOUS

Around(M, x) == x % M

(* A sum may be reduced on the way.                                        *)
LEMMA ReducedSum ==
    ASSUME NEW M \in Nat \ {0}, NEW x \in Int, NEW c \in Int
    PROVE  Around(M, Around(M, x) + c) = Around(M, x + c)
<1> DEFINE a == (x % M) + c
           b == x + c
<1>1. x = M * (x \div M) + (x % M) /\ x % M \in 0 .. M - 1 /\ x \div M \in Int
  BY Remainder
<1>2. a \in Int /\ b \in Int /\ a + M * (x \div M) = b
  BY <1>1
<1>3. a = M * (a \div M) + (a % M) /\ a % M \in 0 .. M - 1 /\ a \div M \in Int
  BY <1>2, Remainder
<1>4. b = M * (b \div M) + (b % M) /\ b % M \in 0 .. M - 1 /\ b \div M \in Int
  BY <1>2, Remainder
<1> DEFINE p == a % M
           q == b % M
           z == (b \div M) - (a \div M) - (x \div M)
<1>5. p - q = M * z /\ z \in Int /\ p \in 0 .. M - 1 /\ q \in 0 .. M - 1
  BY <1>1, <1>2, <1>3, <1>4
<1> HIDE DEF a, b, p, q, z
<1>6. z < 1
  <2> SUFFICES ASSUME z >= 1 PROVE FALSE
    BY <1>5
  <2>1. M * z >= M
    BY <1>5
  <2> QED BY <1>5, <2>1
<1>7. z > -1
  <2> SUFFICES ASSUME z <= -1 PROVE FALSE
    BY <1>5
  <2>1. M * z <= -M
    BY <1>5
  <2> QED BY <1>5, <2>1
<1>8. z = 0
  BY <1>5, <1>6, <1>7
<1>9. p = q
  BY <1>5, <1>8
<1> QED BY <1>9 DEF p, q, a, b, Around
----------------------------------------------------------------------------
(* Sequences, whatever of.                                                 *)
IsList(s) == \E S : s \in Seq(S)

(* Sequences have a length and a domain.                                   *)
LEMMA ListType ==
    ASSUME NEW s, IsList(s)
    PROVE  Len(s) \in Nat /\ DOMAIN s = 1 .. Len(s) /\ (s = <<>> <=> Len(s) = 0)
<1>1. PICK S : s \in Seq(S)
  BY DEF IsList
<1> QED BY <1>1

(* The empty sequence.                                                     *)
LEMMA NoList == IsList(<<>>) /\ Len(<<>>) = 0
<1>1. <<>> \in Seq(Nat)
  OBVIOUS
<1> QED BY <1>1 DEF IsList

(* One element more.                                                       *)
LEMMA ListAppends ==
    ASSUME NEW s, IsList(s), NEW e
    PROVE  /\ IsList(Append(s, e)) /\ Len(Append(s, e)) = Len(s) + 1
           /\ \A k \in 1 .. Len(s) : Append(s, e)[k] = s[k]
           /\ Append(s, e)[Len(s) + 1] = e
<1>1. PICK S : s \in Seq(S)
  BY DEF IsList
<1> DEFINE R == S \cup {e}
<1>2. e \in R /\ S \subseteq R
  OBVIOUS
<1> HIDE DEF R
<1>3. s \in Seq(R)
  <2>1. Len(s) \in Nat /\ s = [k \in 1 .. Len(s) |-> s[k]] /\ \A k \in 1 .. Len(s) : s[k] \in S
    BY <1>1
  <2>2. \A k \in 1 .. Len(s) : s[k] \in R
    BY <1>2, <2>1
  <2> QED BY <2>1, <2>2
<1>4. /\ Append(s, e) \in Seq(R) /\ Len(Append(s, e)) = Len(s) + 1
      /\ \A k \in 1 .. Len(s) : Append(s, e)[k] = s[k]
      /\ Append(s, e)[Len(s) + 1] = e
  BY <1>2, <1>3, AppendProperties
<1> QED BY <1>4 DEF IsList

(* Two sequences, one behind the other.                                    *)
LEMMA ListsJoin ==
    ASSUME NEW s, IsList(s), NEW t, IsList(t)
    PROVE  /\ IsList(s \o t) /\ Len(s \o t) = Len(s) + Len(t)
           /\ \A k \in 1 .. Len(s) : (s \o t)[k] = s[k]
           /\ \A k \in 1 .. Len(t) : (s \o t)[Len(s) + k] = t[k]
<1>1. PICK S : s \in Seq(S)
  BY DEF IsList
<1>2. PICK T : t \in Seq(T)
  BY DEF IsList
<1> DEFINE R == S \cup T
<1>3. S \subseteq R /\ T \subseteq R
  OBVIOUS
<1> HIDE DEF R
<1>4. s \in Seq(R)
  <2>1. Len(s) \in Nat /\ s = [k \in 1 .. Len(s) |-> s[k]] /\ \A k \in 1 .. Len(s) : s[k] \in S
    BY <1>1
  <2>2. \A k \in 1 .. Len(s) : s[k] \in R
    BY <1>3, <2>1
  <2> QED BY <2>1, <2>2
<1>5. t \in Seq(R)
  <2>1. Len(t) \in Nat /\ t = [k \in 1 .. Len(t) |-> t[k]] /\ \A k \in 1 .. Len(t) : t[k] \in T
    BY <1>2
  <2>2. \A k \in 1 .. Len(t) : t[k] \in R
    BY <1>3, <2>1
  <2> QED BY <2>1, <2>2
<1>6. s \o t \in Seq(R) /\ Len(s \o t) = Len(s) + Len(t)
  BY <1>4, <1>5
<1>7. \A k \in 1 .. Len(s) : (s \o t)[k] = s[k]
  BY <1>4, <1>5
<1>8. \A k \in 1 .. Len(t) : (s \o t)[Len(s) + k] = t[k]
  BY <1>4, <1>5
<1> QED BY <1>6, <1>7, <1>8 DEF IsList

(* A sequence without its first element.                                   *)
LEMMA ListTail ==
    ASSUME NEW s, IsList(s), s # <<>>
    PROVE  /\ IsList(Tail(s)) /\ Len(s) = Len(Tail(s)) + 1 /\ Head(s) = s[1]
           /\ \A k \in 1 .. Len(Tail(s)) : Tail(s)[k] = s[k + 1]
<1>1. PICK S : s \in Seq(S)
  BY DEF IsList
<1>2. Len(s) \in Nat /\ Len(s) > 0
  BY <1>1
<1>3. Tail(s) \in Seq(S) /\ Len(Tail(s)) = Len(s) - 1
  BY <1>1, <1>2
<1>4. \A k \in 1 .. Len(s) - 1 : Tail(s)[k] = s[k + 1]
  BY <1>1, <1>2
<1>5. Head(s) = s[1]
  BY <1>1
<1>6. Len(s) = Len(Tail(s)) + 1
  BY <1>2, <1>3
<1>7. \A k \in 1 .. Len(Tail(s)) : Tail(s)[k] = s[k + 1]
  BY <1>3, <1>4
<1> QED BY <1>3, <1>5, <1>6, <1>7 DEF IsList
----------------------------------------------------------------------------
(* A packet carries one of the first r frames.                             *)
Carries(w, packet, r) ==
    /\ FrameOf(packet) \in 1 .. r /\ packet.payload = ContentOf(w, FrameOf(packet))
    /\ packet.seq \in Nat /\ packet.stamp \in Nat /\ packet.made \in Nat

(* The numbers of a packet of frame n, counted on from an earlier packet.  *)
SeqAt(packet, n)      == (packet.seq + n - FrameOf(packet)) % SeqNumbers
StampAt(w, packet, n) == (packet.stamp + Span(w, FrameOf(packet), n - 1)) % Timestamps

Follows(w, packet, next, overflowed) ==
    /\ FrameOf(packet) < FrameOf(next)
    /\ next.seq = SeqAt(packet, FrameOf(next))
    /\ next.stamp = StampAt(w, packet, FrameOf(next))
    /\ ~overflowed => FrameOf(next) = FrameOf(packet) + 1

Numbers(w, a, r, overflowed) ==
    /\ IsList(a)
    /\ \A k \in 1 .. Len(a) : Carries(w, a[k], r)
    /\ \A k \in 1 .. Len(a) - 1 : Follows(w, a[k], a[k + 1], overflowed)

(* What comes after this packet.                                           *)
NumbersAfter(w, packet, seq, stamp, overflowed, r) ==
    /\ seq = SeqAt(packet, r + 1) /\ stamp = StampAt(w, packet, r + 1)
    /\ ~overflowed => FrameOf(packet) = r

Extends(a, b, e) ==
    /\ IsList(b) /\ Len(b) = Len(a) + 1
    /\ \A k \in 1 .. Len(a) : b[k] = a[k]
    /\ b[Len(a) + 1] = e

(* A number in range is its own remainder.                                 *)
LEMMA AlreadyReduced == ASSUME NEW M \in Nat, NEW x \in 0 .. M - 1 PROVE x % M = x
<1>1. M \in Nat \ {0} /\ x \in Nat /\ x < M
  OBVIOUS
<1> QED BY <1>1

(* Sequence numbers are counted on.                                        *)
LEMMA SeqAtNext ==
    ASSUME NEW packet, NEW n \in Nat, packet.seq \in Nat, FrameOf(packet) \in Nat,
           SeqNumbers \in Nat \ {0}
    PROVE  SeqAt(packet, n + 1) = (SeqAt(packet, n) + 1) % SeqNumbers
<1> DEFINE x == packet.seq + n - FrameOf(packet)
<1>1. x \in Int /\ packet.seq + (n + 1) - FrameOf(packet) = x + 1
  <2> DEFINE y == packet.seq
             m == FrameOf(packet)
  <2>1. y \in Nat /\ m \in Nat
    OBVIOUS
  <2> HIDE DEF y, m
  <2>2. y + n - m \in Int /\ y + (n + 1) - m = (y + n - m) + 1
    BY <2>1
  <2> QED BY <2>2 DEF y, m
<1> HIDE DEF x
<1>2. Around(SeqNumbers, Around(SeqNumbers, x) + 1) = Around(SeqNumbers, x + 1)
  <2>1. SeqNumbers \in Nat \ {0} /\ x \in Int /\ 1 \in Int
    BY <1>1
  <2> QED BY <2>1, ReducedSum, Zenon
<1> QED BY <1>1, <1>2 DEF SeqAt, Around, x

(* Timestamps are counted on by the audio of the frame.                    *)
LEMMA StampAtNext ==
    ASSUME NEW w, IsWritten(w), NEW packet, NEW n \in Nat, packet.stamp \in Nat,
           FrameOf(packet) \in Nat, FrameOf(packet) >= 1, FrameOf(packet) <= n, n <= Len(w),
           Timestamps \in Nat \ {0}
    PROVE  StampAt(w, packet, n + 1) = (StampAt(w, packet, n) + w[n]) % Timestamps
<1> DEFINE m == FrameOf(packet)
           x == packet.stamp + Span(w, m, n - 1)
<1>1. w \in Seq(Nat) /\ Len(w) \in Nat /\ w[n] \in Nat
  BY WrittenType
<1>2. m \in 1 .. Len(w) /\ n - 1 \in m - 1 .. Len(w) - 1 /\ (n - 1) + 1 = n /\ (n + 1) - 1 = n
  BY <1>1
<1> HIDE DEF m
<1>3. Span(w, m, n) = Span(w, m, n - 1) + w[n] /\ Span(w, m, n - 1) \in Nat
  <2>1. /\ Span(w, m, (n - 1) + 1) = Span(w, m, n - 1) + w[(n - 1) + 1]
        /\ Span(w, m, n - 1) \in Nat
    BY <1>1, <1>2, SpanOfMore
  <2> QED BY <1>2, <2>1
<1>4. x \in Int /\ packet.stamp + Span(w, m, n) = x + w[n]
  BY <1>1, <1>3
<1>5. StampAt(w, packet, n + 1) = (x + w[n]) % Timestamps
  <2>1. StampAt(w, packet, n + 1) = (packet.stamp + Span(w, m, (n + 1) - 1)) % Timestamps
    BY DEF StampAt, m
  <2> QED BY <1>2, <1>4, <2>1
<1>6. StampAt(w, packet, n) = x % Timestamps
  BY DEF StampAt, m
<1> HIDE DEF x
<1>7. Around(Timestamps, Around(Timestamps, x) + w[n]) = Around(Timestamps, x + w[n])
  <2>1. Timestamps \in Nat \ {0} /\ x \in Int /\ w[n] \in Int
    BY <1>1, <1>4
  <2> QED BY <2>1, ReducedSum, Zenon
<1> QED BY <1>5, <1>6, <1>7 DEF Around

(* A packet of frame r + 1 numbers the next one.                           *)
LEMMA OwnNumbers ==
    ASSUME NEW w, IsWritten(w), NEW packet, NEW n \in Nat, packet.seq \in 0 .. SeqNumbers - 1,
           packet.stamp \in 0 .. Timestamps - 1, FrameOf(packet) = n, n >= 1, n <= Len(w),
           SeqNumbers \in Nat \ {0}, Timestamps \in Nat \ {0}
    PROVE  /\ SeqAt(packet, n + 1) = (packet.seq + 1) % SeqNumbers
           /\ StampAt(w, packet, n + 1) = (packet.stamp + w[n]) % Timestamps
<1>1. SeqAt(packet, n) = packet.seq
  <2>1. packet.seq + n - n = packet.seq
    <3>1. \A x \in 0 .. SeqNumbers - 1 : x + n - n = x
      OBVIOUS
    <3> QED BY <3>1
  <2>2. packet.seq % SeqNumbers = packet.seq
    BY AlreadyReduced
  <2> QED BY <2>1, <2>2 DEF SeqAt
<1>2. StampAt(w, packet, n) = packet.stamp
  <2>1. Span(w, n, n - 1) = 0
    BY SpanOfNone
  <2>2. packet.stamp + 0 = packet.stamp /\ packet.stamp % Timestamps = packet.stamp
    BY AlreadyReduced
  <2> QED BY <2>1, <2>2 DEF StampAt
<1>3. SeqAt(packet, n + 1) = (SeqAt(packet, n) + 1) % SeqNumbers
  <2>1. packet.seq \in Nat
    OBVIOUS
  <2> QED BY <2>1, SeqAtNext
<1>4. StampAt(w, packet, n + 1) = (StampAt(w, packet, n) + w[n]) % Timestamps
  <2>1. packet.stamp \in Nat /\ n <= n
    OBVIOUS
  <2> QED BY <2>1, StampAtNext
<1> QED BY <1>1, <1>2, <1>3, <1>4

(* The payload tells the frame, and its length.                            *)
LEMMA FrameCarried ==
    ASSUME NEW w, IsWritten(w), NEW packet, NEW n \in Nat, n >= 1, n <= Len(w),
           packet.payload = ContentOf(w, n)
    PROVE  FrameOf(packet) = n /\ Len(packet.payload) = w[n] /\ w[n] \in Nat /\ w[n] > 0
<1>1. w[n] \in Nat /\ w[n] > 0
  BY WrittenType
<1>2. packet.payload = [i \in 1 .. w[n] |-> n]
  BY DEF ContentOf
<1>3. Len(packet.payload) = w[n] /\ packet.payload[1] = n
  BY <1>1, <1>2
<1> QED BY <1>1, <1>3 DEF FrameOf

(* A packet still carries one of the frames when more have been read.      *)
LEMMA CarriesMore ==
    ASSUME NEW w, NEW packet, NEW r \in Nat, NEW s \in Nat, r <= s, Carries(w, packet, r)
    PROVE  Carries(w, packet, s)
<1>1. FrameOf(packet) \in 1 .. r
  BY DEF Carries
<1>2. FrameOf(packet) \in 1 .. s
  BY <1>1
<1> QED BY <1>2 DEF Carries

(* Numbers are still right when more frames are read or the pacer          *)
(* overflows.                                                              *)
LEMMA NumbersKeep ==
    ASSUME NEW w, NEW a, NEW r \in Nat, NEW s \in Nat, r <= s, NEW over, NEW overflowed,
           over => overflowed, Numbers(w, a, r, over)
    PROVE  Numbers(w, a, s, overflowed)
<1>1. \A k \in 1 .. Len(a) : Carries(w, a[k], s)
  BY CarriesMore DEF Numbers
<1>2. \A k \in 1 .. Len(a) - 1 : Follows(w, a[k], a[k + 1], overflowed)
  BY DEF Numbers, Follows
<1> QED BY <1>1, <1>2 DEF Numbers

(* Numbers are right with a packet more, if it follows the last one.       *)
LEMMA NumbersGrow ==
    ASSUME NEW w, NEW a, NEW b, NEW e, NEW r \in Nat, NEW overflowed,
           Numbers(w, a, r, overflowed), Extends(a, b, e), Carries(w, e, r + 1),
           a # <<>> => Follows(w, a[Len(a)], e, overflowed)
    PROVE  Numbers(w, b, r + 1, overflowed)
<1>1. Len(a) \in Nat /\ (a = <<>> <=> Len(a) = 0)
  BY ListType DEF Numbers
<1>2. /\ IsList(b) /\ Len(b) = Len(a) + 1
      /\ \A k \in 1 .. Len(a) : b[k] = a[k]
      /\ b[Len(a) + 1] = e
  BY DEF Extends
<1>3. ASSUME NEW k \in 1 .. Len(b) PROVE Carries(w, b[k], r + 1)
  <2>1. CASE k = Len(a) + 1
    BY <1>2, <2>1
  <2>2. CASE k # Len(a) + 1
    <3>1. k \in 1 .. Len(a)
      BY <1>1, <1>2, <2>2
    <3>2. Carries(w, a[k], r)
      BY <3>1 DEF Numbers
    <3>3. r + 1 \in Nat /\ r <= r + 1
      OBVIOUS
    <3> QED BY <1>2, <3>1, <3>2, <3>3, CarriesMore
  <2> QED BY <2>1, <2>2
<1>4. ASSUME NEW k \in 1 .. Len(b) - 1 PROVE Follows(w, b[k], b[k + 1], overflowed)
  <2>1. CASE k = Len(a)
    <3>1. a # <<>> /\ k \in 1 .. Len(a)
      BY <1>1, <1>2, <2>1
    <3> QED BY <1>2, <2>1, <3>1
  <2>2. CASE k # Len(a)
    <3>1. k \in 1 .. Len(a) /\ k + 1 \in 1 .. Len(a) /\ k \in 1 .. Len(a) - 1
      BY <1>1, <1>2, <2>2
    <3>2. Follows(w, a[k], a[k + 1], overflowed)
      BY <3>1 DEF Numbers
    <3> QED BY <1>2, <3>1, <3>2
  <2> QED BY <2>1, <2>2
<1> QED BY <1>2, <1>3, <1>4 DEF Numbers

(* Only these fields of the packets count.                                 *)
Alike(packet, other) ==
    /\ packet.payload = other.payload /\ packet.seq = other.seq
    /\ packet.stamp = other.stamp /\ packet.made = other.made

(* Packets alike carry the same.                                           *)
LEMMA AlikeCarry ==
    ASSUME NEW w, NEW r, NEW packet, NEW other, Alike(packet, other), Carries(w, packet, r)
    PROVE  Carries(w, other, r) /\ FrameOf(other) = FrameOf(packet)
BY DEF Alike, Carries, FrameOf

(* Packets alike number the frames behind them alike.                      *)
LEMMA AlikeNumbers ==
    ASSUME NEW w, NEW packet, NEW other, Alike(packet, other)
    PROVE  \A n : /\ SeqAt(other, n) = SeqAt(packet, n)
                  /\ StampAt(w, other, n) = StampAt(w, packet, n)
BY DEF Alike, SeqAt, StampAt, FrameOf

(* Packets alike follow packets alike.                                     *)
LEMMA AlikeFollow ==
    ASSUME NEW w, NEW packet, NEW other, Alike(packet, other), NEW next, NEW follower,
           Alike(next, follower), NEW overflowed, Follows(w, packet, next, overflowed)
    PROVE  Follows(w, other, follower, overflowed)
<1>1. FrameOf(other) = FrameOf(packet) /\ FrameOf(follower) = FrameOf(next)
  BY DEF Alike, FrameOf
<1>2. \A n : SeqAt(other, n) = SeqAt(packet, n) /\ StampAt(w, other, n) = StampAt(w, packet, n)
  BY AlikeNumbers
<1>3. follower.seq = next.seq /\ follower.stamp = next.stamp
  BY DEF Alike
<1> QED BY <1>1, <1>2, <1>3 DEF Follows

(* Numbers are right in a sequence of packets alike, or in a part of one   *)
(* from its start.                                                         *)
LEMMA NumbersAlike ==
    ASSUME NEW w, NEW a, NEW b, NEW r, NEW overflowed, Numbers(w, a, r, overflowed),
           IsList(b), Len(b) <= Len(a), \A k \in 1 .. Len(b) : Alike(a[k], b[k])
    PROVE  Numbers(w, b, r, overflowed)
<1>1. Len(a) \in Nat /\ Len(b) \in Nat
  BY ListType DEF Numbers
<1>2. ASSUME NEW k \in 1 .. Len(b) PROVE Carries(w, b[k], r)
  <2>1. k \in 1 .. Len(a)
    BY <1>1
  <2>2. Carries(w, a[k], r)
    BY <2>1 DEF Numbers
  <2> QED BY <2>2, AlikeCarry
<1>3. ASSUME NEW k \in 1 .. Len(b) - 1 PROVE Follows(w, b[k], b[k + 1], overflowed)
  <2>1. k \in 1 .. Len(a) - 1 /\ k \in 1 .. Len(b) /\ k + 1 \in 1 .. Len(b)
    BY <1>1
  <2>2. Follows(w, a[k], a[k + 1], overflowed)
    BY <2>1 DEF Numbers
  <2> QED BY <2>1, <2>2, AlikeFollow
<1> QED BY <1>2, <1>3 DEF Numbers

(* A further frame changes nothing about the earlier ones.                 *)
LEMMA CarriesStays ==
    ASSUME NEW w, IsWritten(w), NEW size, NEW r \in Nat, r <= Len(w), NEW packet,
           Carries(w, packet, r)
    PROVE  Carries(Append(w, size), packet, r)
<1> DEFINE n == FrameOf(packet)
<1>1. Len(w) \in Nat /\ n \in 1 .. r
  BY WrittenType DEF Carries
<1>2. n \in 1 .. Len(w)
  BY <1>1
<1>3. Append(w, size)[n] = w[n]
  <2>1. IsList(w)
    BY DEF IsWritten, IsList
  <2> QED BY <1>2, <2>1, ListAppends
<1>4. ContentOf(Append(w, size), n) = ContentOf(w, n)
  BY <1>3 DEF ContentOf
<1> QED BY <1>4 DEF Carries

(* A further frame leaves the timestamps counted on from a packet as they  *)
(* are.                                                                    *)
LEMMA StampStays ==
    ASSUME NEW w, IsWritten(w), NEW size \in Sizes, NEW packet, NEW n \in Nat, n >= 1,
           FrameOf(packet) \in Nat, FrameOf(packet) >= 1, n <= Len(w) + 1
    PROVE  StampAt(Append(w, size), packet, n) = StampAt(w, packet, n)
<1>1. w \in Seq(Nat) /\ size \in Nat /\ Len(w) \in Nat
  BY WrittenType DEF Sizes
<1>2. n - 1 \in Nat /\ n - 1 <= Len(w) /\ FrameOf(packet) \in Nat \ {0}
  BY <1>1
<1>3. Span(Append(w, size), FrameOf(packet), n - 1) = Span(w, FrameOf(packet), n - 1)
  BY <1>1, <1>2, SpanOfPrefix
<1> QED BY <1>3 DEF StampAt

(* A further frame leaves the numbers right.                               *)
LEMMA NumbersStay ==
    ASSUME NEW w, IsWritten(w), NEW size \in Sizes, NEW r \in Nat, r <= Len(w), NEW a,
           NEW overflowed, Numbers(w, a, r, overflowed)
    PROVE  Numbers(Append(w, size), a, r, overflowed)
<1>1. Len(a) \in Nat /\ Len(w) \in Nat
  BY ListType, WrittenType DEF Numbers
<1>2. \A k \in 1 .. Len(a) : Carries(Append(w, size), a[k], r)
  BY CarriesStays DEF Numbers
<1>3. ASSUME NEW k \in 1 .. Len(a) - 1
      PROVE  Follows(Append(w, size), a[k], a[k + 1], overflowed)
  <2>1. k \in 1 .. Len(a) /\ k + 1 \in 1 .. Len(a)
    BY <1>1
  <2>2. FrameOf(a[k]) \in 1 .. r /\ FrameOf(a[k + 1]) \in 1 .. r
    BY <2>1 DEF Numbers, Carries
  <2>3. /\ FrameOf(a[k]) \in Nat /\ FrameOf(a[k]) >= 1 /\ FrameOf(a[k + 1]) \in Nat
        /\ FrameOf(a[k + 1]) >= 1 /\ FrameOf(a[k + 1]) <= Len(w) + 1
    BY <1>1, <2>2
  <2>4. StampAt(Append(w, size), a[k], FrameOf(a[k + 1])) = StampAt(w, a[k], FrameOf(a[k + 1]))
    BY <2>3, StampStays
  <2> QED BY <2>4 DEF Numbers, Follows
<1> QED BY <1>2, <1>3 DEF Numbers
----------------------------------------------------------------------------
Fields == {"seq", "stamp", "queue", "timer", "deadline", "overflowed", "sent"}

(* The packet a payload becomes.                                           *)
PacketOf(o, payload) == [payload |-> payload, seq |-> o.seq, stamp |-> o.stamp, made |-> now]

(* Everything but the two numbers is as it was.                            *)
NumbersGo(o, payload, q) ==
    /\ DOMAIN q = Fields
    /\ q.seq = (o.seq + 1) % SeqNumbers /\ q.stamp = (o.stamp + Len(payload)) % Timestamps

(* The larger of two numbers.                                              *)
LEMMA MaxOfTwo ==
    ASSUME NEW a \in Nat, NEW b \in Nat
    PROVE  Max({a, b}) \in Nat /\ Max({a, b}) >= a /\ Max({a, b}) >= b
<1>1. \E m \in {a, b} : \A x \in {a, b} : m >= x
  OBVIOUS
<1>2. Max({a, b}) \in {a, b} /\ \A x \in {a, b} : Max({a, b}) >= x
  BY <1>1 DEF Max
<1> QED BY <1>2

(* Nothing is sent before it is known where to.                            *)
LEMMA NotSent == ASSUME NEW o, NEW payload, ~remote PROVE SendPayload(o, payload) = o
BY Zenon DEF SendPayload

(* Without a pacer a packet is sent at once.                               *)
LEMMA SentAtOnce ==
    ASSUME NEW o, DOMAIN o = Fields, NEW payload, remote, ~paced
    PROVE  LET q == SendPayload(o, payload)
           IN  /\ NumbersGo(o, payload, q)
               /\ q.sent = Append(o.sent, Departing(PacketOf(o, payload)))
               /\ q.queue = o.queue /\ q.timer = o.timer /\ q.deadline = o.deadline
               /\ q.overflowed = o.overflowed
<1> DEFINE e == Departing(PacketOf(o, payload))
           next == [o EXCEPT !.seq = (@ + 1) % SeqNumbers,
                             !.stamp = (@ + Len(payload)) % Timestamps]
           q == [next EXCEPT !.sent = Append(@, e)]
<1>1. SendPayload(o, payload) = q
  BY DEF SendPayload, PacketOf
<1> HIDE DEF e
<1>2. /\ DOMAIN next = Fields /\ next.seq = (o.seq + 1) % SeqNumbers
      /\ next.stamp = (o.stamp + Len(payload)) % Timestamps
      /\ next.sent = o.sent /\ next.queue = o.queue /\ next.timer = o.timer
      /\ next.deadline = o.deadline /\ next.overflowed = o.overflowed
  BY DEF Fields
<1> HIDE DEF next
<1>3. /\ DOMAIN q = Fields /\ q.seq = next.seq /\ q.stamp = next.stamp
      /\ q.sent = Append(next.sent, e) /\ q.queue = next.queue /\ q.timer = next.timer
      /\ q.deadline = next.deadline /\ q.overflowed = next.overflowed
  BY <1>2 DEF Fields
<1> HIDE DEF q
<1> QED BY <1>1, <1>2, <1>3 DEF NumbersGo, e

(* RtpPacer.push, field by field.                                          *)
LEMMA Pushed ==
    ASSUME NEW o, DOMAIN o = Fields, NEW payload, remote, paced
    PROVE  LET q == SendPayload(o, payload)
           IN  /\ NumbersGo(o, payload, q) /\ q.sent = o.sent
               /\ Len(o.queue) >= Limit =>
                     /\ q.queue = o.queue /\ q.timer = o.timer /\ q.deadline = o.deadline
                     /\ q.overflowed = TRUE
               /\ ~(Len(o.queue) >= Limit) =>
                     /\ q.queue = Append(o.queue, PacketOf(o, payload))
                     /\ q.overflowed = o.overflowed
                     /\ o.timer # Unset => q.timer = o.timer /\ q.deadline = o.deadline
                     /\ o.timer = Unset =>
                           /\ q.deadline = now + IF o.deadline = Unset THEN Delay ELSE 0
                           /\ q.timer = Max({now, q.deadline})
<1> DEFINE e == PacketOf(o, payload)
           next == [o EXCEPT !.seq = (@ + 1) % SeqNumbers,
                             !.stamp = (@ + Len(payload)) % Timestamps]
           q == SendPayload(o, payload)
<1>1. q = Push(next, e)
  BY DEF SendPayload, PacketOf
<1> HIDE DEF e, q
<1>2. /\ DOMAIN next = Fields /\ next.seq = (o.seq + 1) % SeqNumbers
      /\ next.stamp = (o.stamp + Len(payload)) % Timestamps
      /\ next.sent = o.sent /\ next.queue = o.queue /\ next.timer = o.timer
      /\ next.deadline = o.deadline /\ next.overflowed = o.overflowed
  BY DEF Fields
<1> HIDE DEF next
<1>3. CASE Len(o.queue) >= Limit
  <2>1. q = [next EXCEPT !.overflowed = TRUE]
    BY <1>1, <1>2, <1>3 DEF Push
  <2>2. /\ DOMAIN q = Fields /\ q.seq = next.seq /\ q.stamp = next.stamp
        /\ q.sent = next.sent /\ q.queue = next.queue /\ q.timer = next.timer
        /\ q.deadline = next.deadline /\ q.overflowed = TRUE
    BY <1>2, <2>1 DEF Fields
  <2> QED BY <1>2, <1>3, <2>2 DEF NumbersGo, q
<1>4. CASE ~(Len(o.queue) >= Limit)
  <2> DEFINE kept == [next EXCEPT !.queue = Append(@, e)]
  <2>1. /\ DOMAIN kept = Fields /\ kept.seq = next.seq /\ kept.stamp = next.stamp
        /\ kept.sent = next.sent /\ kept.queue = Append(next.queue, e)
        /\ kept.timer = next.timer
        /\ kept.deadline = next.deadline /\ kept.overflowed = next.overflowed
    BY <1>2 DEF Fields
  <2>2. CASE o.timer # Unset
    <3>1. q = kept
      BY <1>1, <1>2, <1>4, <2>2 DEF Push
    <3> HIDE DEF kept
    <3> QED BY <1>2, <1>4, <2>1, <2>2, <3>1 DEF NumbersGo, q, e
  <2>3. CASE o.timer = Unset
    <3> DEFINE late == [kept EXCEPT !.deadline = now + IF @ = Unset THEN Delay ELSE 0]
    <3>1. q = Arm(late)
      BY <1>1, <1>2, <1>4, <2>3 DEF Push
    <3> HIDE DEF kept
    <3>2. /\ DOMAIN late = Fields /\ late.seq = kept.seq /\ late.stamp = kept.stamp
          /\ late.sent = kept.sent /\ late.queue = kept.queue /\ late.timer = kept.timer
          /\ late.deadline = (now + IF kept.deadline = Unset THEN Delay ELSE 0)
          /\ late.overflowed = kept.overflowed
      BY <2>1 DEF Fields
    <3> HIDE DEF late
    <3>3. /\ DOMAIN q = Fields /\ q.seq = late.seq /\ q.stamp = late.stamp
          /\ q.sent = late.sent /\ q.queue = late.queue
          /\ q.timer = Max({now, late.deadline})
          /\ q.deadline = late.deadline /\ q.overflowed = late.overflowed
      BY <3>1, <3>2 DEF Fields, Arm
    <3>4. q.timer = Max({now, q.deadline})
      BY <3>3
    <3>5. q.deadline = (now + IF o.deadline = Unset THEN Delay ELSE 0)
      BY <1>2, <2>1, <3>2, <3>3
    <3>6. NumbersGo(o, payload, q)
      BY <1>2, <2>1, <3>2, <3>3 DEF NumbersGo
    <3>7. q.sent = o.sent /\ q.queue = Append(o.queue, e) /\ q.overflowed = o.overflowed
      BY <1>2, <2>1, <3>2, <3>3
    <3> QED BY <1>4, <2>3, <3>4, <3>5, <3>6, <3>7 DEF q, e
  <2> HIDE DEF kept
  <2> QED BY <2>2, <2>3
<1> HIDE DEF q, e
<1> QED BY <1>3, <1>4 DEF q, e

(* What a timer that is due does: it is set again, or ends, or the oldest  *)
(* packet goes out.                                                        *)
TickOf(o) ==
    LET woken == Woken(o)
    IN  IF woken.timer # Unset \/ woken.queue = <<>> THEN woken ELSE SendHead(woken)

(* RtpPacer.tick, field by field.                                          *)
LEMMA Ticked ==
    ASSUME NEW o, DOMAIN o = Fields, now \in Nat, o.deadline \in Nat, Unset \notin Nat
    PROVE  LET q == TickOf(o)
           IN  /\ DOMAIN q = Fields /\ q.seq = o.seq /\ q.stamp = o.stamp
               /\ q.overflowed = o.overflowed
               /\ now < o.deadline =>
                     /\ q.queue = o.queue /\ q.sent = o.sent /\ q.deadline = o.deadline
                     /\ q.timer = Max({now, o.deadline})
               /\ now >= o.deadline /\ o.queue = <<>> =>
                     /\ q.queue = o.queue /\ q.sent = o.sent /\ q.deadline = o.deadline
                     /\ q.timer = Unset
               /\ now >= o.deadline /\ o.queue # <<>> =>
                     LET packet == Head(o.queue)
                         duration == Len(packet.payload)
                     IN  /\ q.queue = Tail(o.queue)
                         /\ q.sent = Append(o.sent, Departing(packet))
                         /\ q.deadline =
                              (IF now - o.deadline >= duration THEN now ELSE o.deadline)
                              + duration
                         /\ q.timer = Max({now, q.deadline})
<1> DEFINE q == TickOf(o)
<1>1. CASE now < o.deadline
  <2>1. Woken(o) = [o EXCEPT !.timer = Max({now, o.deadline})]
    BY <1>1 DEF Woken, Arm
  <2>2. Max({now, o.deadline}) \in Nat
    BY MaxOfTwo
  <2>3. /\ DOMAIN Woken(o) = Fields /\ Woken(o).timer = Max({now, o.deadline})
        /\ Woken(o).seq = o.seq /\ Woken(o).stamp = o.stamp
        /\ Woken(o).overflowed = o.overflowed /\ Woken(o).queue = o.queue
        /\ Woken(o).sent = o.sent /\ Woken(o).deadline = o.deadline
    BY <2>1 DEF Fields
  <2>4. q = Woken(o)
    BY <2>2, <2>3 DEF TickOf
  <2> HIDE DEF q
  <2>5. ~(now >= o.deadline)
    BY <1>1
  <2> QED BY <1>1, <2>3, <2>4, <2>5 DEF q
<1>2. CASE ~(now < o.deadline)
  <2> DEFINE woken == [o EXCEPT !.timer = Unset]
  <2>1. Woken(o) = woken
    BY <1>2 DEF Woken
  <2>2. /\ DOMAIN woken = Fields /\ woken.timer = Unset
        /\ woken.seq = o.seq /\ woken.stamp = o.stamp
        /\ woken.overflowed = o.overflowed /\ woken.queue = o.queue
        /\ woken.sent = o.sent /\ woken.deadline = o.deadline
    BY DEF Fields
  <2> HIDE DEF woken
  <2>3. CASE o.queue = <<>>
    <3>1. q = woken
      BY <2>1, <2>2, <2>3 DEF TickOf
    <3> HIDE DEF q
    <3> QED BY <1>2, <2>2, <2>3, <3>1 DEF q
  <2>4. CASE o.queue # <<>>
    <3> DEFINE packet == Head(o.queue)
               duration == Len(packet.payload)
               deadline == (IF now - o.deadline >= duration THEN now ELSE o.deadline)
                           + duration
               e == Departing(packet)
               gone == [woken EXCEPT !.queue = Tail(@), !.sent = Append(@, e),
                           !.deadline = (IF now - o.deadline >= duration THEN now ELSE @)
                                        + duration]
    <3>1. q = SendHead(woken)
      BY <2>1, <2>2, <2>4 DEF TickOf
    <3>2. SendHead(woken) = Arm(gone)
      BY <2>2 DEF SendHead
    <3> HIDE DEF e, duration, q
    <3>3. /\ DOMAIN gone = Fields /\ gone.seq = o.seq /\ gone.stamp = o.stamp
          /\ gone.overflowed = o.overflowed /\ gone.queue = Tail(o.queue)
          /\ gone.sent = Append(o.sent, e) /\ gone.deadline = deadline
      BY <2>2 DEF Fields
    <3> HIDE DEF gone, deadline
    <3>4. /\ DOMAIN q = Fields /\ q.seq = o.seq /\ q.stamp = o.stamp
          /\ q.overflowed = o.overflowed /\ q.queue = Tail(o.queue)
          /\ q.sent = Append(o.sent, e) /\ q.deadline = deadline
          /\ q.timer = Max({now, deadline})
      BY <3>1, <3>2, <3>3 DEF Fields, Arm
    <3> QED BY <1>2, <2>4, <3>4 DEF q, e, deadline, duration
  <2> QED BY <2>3, <2>4
<1> HIDE DEF q
<1> QED BY <1>1, <1>2 DEF q

Outgoing(o) == o.sent \o o.queue

(* The packet made last.                                                   *)
Newest(o) == Outgoing(o)[Len(Outgoing(o))]

OutTypeOK(o) ==
    /\ DOMAIN o = Fields /\ IsList(o.queue) /\ IsList(o.sent)
    /\ o.seq \in 0 .. SeqNumbers - 1 /\ o.stamp \in 0 .. Timestamps - 1
    /\ Len(o.queue) <= Limit
    /\ o.timer \in Nat \cup {Unset} /\ o.deadline \in Nat \cup {Unset}

(* What was sent and what waits carries the frames in order; what comes    *)
(* next is numbered as the last of them says.                              *)
Numbered(w, o, r) ==
    /\ Numbers(w, Outgoing(o), r, o.overflowed)
    /\ open /\ Outgoing(o) # <<>> =>
          remote /\ NumbersAfter(w, Newest(o), o.seq, o.stamp, o.overflowed, r)

(* The newest packet carries a frame.                                      *)
LEMMA NewestCarries ==
    ASSUME NEW w, NEW o, NEW r, NEW overflowed, Numbers(w, Outgoing(o), r, overflowed),
           Outgoing(o) # <<>>
    PROVE  Carries(w, Newest(o), r) /\ Len(Outgoing(o)) \in Nat /\ Len(Outgoing(o)) >= 1
<1>1. Len(Outgoing(o)) \in Nat /\ Len(Outgoing(o)) # 0
  BY ListType DEF Numbers
<1>2. Len(Outgoing(o)) \in 1 .. Len(Outgoing(o))
  BY <1>1
<1> QED BY <1>1, <1>2 DEF Numbers, Newest

(* A new packet.                                                           *)
LEMMA NewPacket ==
    ASSUME AudioConstants, NEW w, IsWritten(w), NEW r \in Nat, r < Len(w), NEW o, OutTypeOK(o),
           NEW e, e.payload = ContentOf(w, r + 1), e.seq = o.seq, e.stamp = o.stamp,
           e.made \in Nat, NEW overflowed
    PROVE  /\ Carries(w, e, r + 1) /\ FrameOf(e) = r + 1
           /\ NumbersAfter(w, e, (o.seq + 1) % SeqNumbers,
                           (o.stamp + Len(ContentOf(w, r + 1))) % Timestamps,
                           overflowed, r + 1)
<1>1. Len(w) \in Nat
  BY WrittenType
<1>2. r + 1 \in Nat /\ r + 1 >= 1 /\ r + 1 <= Len(w) /\ r + 1 \in 1 .. r + 1
  BY <1>1
<1>3. FrameOf(e) = r + 1 /\ Len(e.payload) = w[r + 1]
  BY <1>2, FrameCarried
<1>4. o.seq \in 0 .. SeqNumbers - 1 /\ o.stamp \in 0 .. Timestamps - 1
  BY DEF OutTypeOK
<1>5. o.seq \in Nat /\ o.stamp \in Nat
  BY <1>4
<1>6. Carries(w, e, r + 1)
  BY <1>2, <1>3, <1>5 DEF Carries
<1>7. SeqNumbers \in Nat \ {0} /\ Timestamps \in Nat \ {0}
  BY DEF AudioConstants
<1>8. /\ SeqAt(e, (r + 1) + 1) = (o.seq + 1) % SeqNumbers
      /\ StampAt(w, e, (r + 1) + 1) = (o.stamp + w[r + 1]) % Timestamps
  <2>1. e.seq \in 0 .. SeqNumbers - 1 /\ e.stamp \in 0 .. Timestamps - 1
    BY <1>4
  <2> DEFINE n == r + 1
  <2>2. n \in Nat /\ n >= 1 /\ n <= Len(w) /\ FrameOf(e) = n
    BY <1>2, <1>3
  <2> HIDE DEF n
  <2>3. /\ SeqAt(e, n + 1) = (e.seq + 1) % SeqNumbers
        /\ StampAt(w, e, n + 1) = (e.stamp + w[n]) % Timestamps
    BY <1>7, <2>1, <2>2, OwnNumbers
  <2> QED BY <2>3 DEF n
<1> QED BY <1>3, <1>6, <1>8 DEF NumbersAfter

(* A packet numbered after another one follows it.                         *)
LEMMA NextFollows ==
    ASSUME NEW w, NEW r \in Nat, NEW last, Carries(w, last, r), NEW seq, NEW stamp,
           NEW overflowed, NumbersAfter(w, last, seq, stamp, overflowed, r),
           NEW e, FrameOf(e) = r + 1, e.seq = seq, e.stamp = stamp
    PROVE  Follows(w, last, e, overflowed)
<1>1. FrameOf(last) \in 1 .. r
  BY DEF Carries
<1>2. FrameOf(last) < r + 1
  BY <1>1
<1>3. ~overflowed => r + 1 = FrameOf(last) + 1
  BY DEF NumbersAfter
<1>4. e.seq = SeqAt(last, r + 1) /\ e.stamp = StampAt(w, last, r + 1)
  BY DEF NumbersAfter
<1> QED BY <1>2, <1>3, <1>4 DEF Follows

(* A packet the pacer refuses has used its numbers.                        *)
LEMMA NumberSkipped ==
    ASSUME AudioConstants, NEW w, IsWritten(w), NEW r \in Nat, r < Len(w), NEW last,
           Carries(w, last, r), NEW seq, NEW stamp, NEW over,
           NumbersAfter(w, last, seq, stamp, over, r)
    PROVE  NumbersAfter(w, last, (seq + 1) % SeqNumbers,
                        (stamp + Len(ContentOf(w, r + 1))) % Timestamps, TRUE, r + 1)
<1>1. Len(w) \in Nat
  BY WrittenType
<1>2. r + 1 \in Nat /\ r + 1 >= 1 /\ r + 1 <= Len(w)
  BY <1>1
<1>3. w[r + 1] \in Nat
  BY <1>2, WrittenType
<1>4. Len(ContentOf(w, r + 1)) = w[r + 1]
  BY <1>3 DEF ContentOf
<1>5. last.seq \in Nat /\ last.stamp \in Nat /\ FrameOf(last) \in 1 .. r
  BY DEF Carries
<1>6. FrameOf(last) \in Nat /\ FrameOf(last) >= 1 /\ FrameOf(last) <= r + 1
  BY <1>5
<1>7. SeqNumbers \in Nat \ {0} /\ Timestamps \in Nat \ {0}
  BY DEF AudioConstants
<1>8. SeqAt(last, (r + 1) + 1) = (SeqAt(last, r + 1) + 1) % SeqNumbers
  BY <1>2, <1>5, <1>6, <1>7, SeqAtNext
<1>9. StampAt(w, last, (r + 1) + 1) = (StampAt(w, last, r + 1) + w[r + 1]) % Timestamps
  BY <1>2, <1>5, <1>6, <1>7, StampAtNext
<1>10. seq = SeqAt(last, r + 1) /\ stamp = StampAt(w, last, r + 1)
  BY DEF NumbersAfter
<1> QED BY <1>4, <1>8, <1>9, <1>10 DEF NumbersAfter

(* Out with a packet more.                                                 *)
LEMMA PacketAdded ==
    ASSUME AudioConstants, NEW w, IsWritten(w), NEW r \in Nat, r < Len(w), NEW o, OutTypeOK(o),
           open, remote, Numbered(w, o, r), NEW e, e.payload = ContentOf(w, r + 1),
           e.seq = o.seq, e.stamp = o.stamp, e.made \in Nat, NEW q,
           q.seq = (o.seq + 1) % SeqNumbers,
           q.stamp = (o.stamp + Len(ContentOf(w, r + 1))) % Timestamps,
           q.overflowed = o.overflowed, Extends(Outgoing(o), Outgoing(q), e)
    PROVE  Numbered(w, q, r + 1)
<1>1. /\ Carries(w, e, r + 1) /\ FrameOf(e) = r + 1
      /\ NumbersAfter(w, e, q.seq, q.stamp, q.overflowed, r + 1)
  BY NewPacket
<1>2. Numbers(w, Outgoing(o), r, o.overflowed)
  BY DEF Numbered
<1>3. ASSUME Outgoing(o) # <<>>
      PROVE  Follows(w, Newest(o), e, o.overflowed)
  <2>1. Carries(w, Newest(o), r)
    BY <1>2, <1>3, NewestCarries
  <2>2. NumbersAfter(w, Newest(o), o.seq, o.stamp, o.overflowed, r)
    BY <1>3 DEF Numbered
  <2> QED BY <1>1, <2>1, <2>2, NextFollows
<1>4. Numbers(w, Outgoing(q), r + 1, o.overflowed)
  BY <1>1, <1>2, <1>3, NumbersGrow DEF Newest
<1>5. Newest(q) = e
  BY DEF Newest, Extends
<1> QED BY <1>1, <1>4, <1>5 DEF Numbered

(* One more at the end of one of two sequences.                            *)
LEMMA ExtendsFirst ==
    ASSUME NEW s, IsList(s), NEW e
    PROVE  Extends(s \o <<>>, Append(s, e) \o <<>>, e)
<1> DEFINE l == Append(s, e)
           a == s \o <<>>
           b == l \o <<>>
<1>1. IsList(<<>>) /\ Len(<<>>) = 0
  BY NoList
<1>2. Len(s) \in Nat
  BY ListType
<1>3. IsList(l) /\ Len(l) = Len(s) + 1
  BY ListAppends
<1>4. \A k \in 1 .. Len(s) : l[k] = s[k]
  BY ListAppends
<1>5. l[Len(s) + 1] = e
  BY ListAppends
<1> HIDE DEF l
<1>6. Len(a) = Len(s) + Len(<<>>) /\ \A k \in 1 .. Len(s) : a[k] = s[k]
  BY <1>1, ListsJoin
<1>7. IsList(b) /\ Len(b) = Len(l) + Len(<<>>) /\ \A k \in 1 .. Len(l) : b[k] = l[k]
  BY <1>1, <1>3, ListsJoin
<1> HIDE DEF a, b
<1>8. Len(a) = Len(s) /\ Len(b) = Len(a) + 1 /\ Len(a) \in Nat
  BY <1>1, <1>2, <1>3, <1>6, <1>7
<1>9. ASSUME NEW k \in 1 .. Len(a) PROVE b[k] = a[k]
  <2>1. k \in 1 .. Len(s) /\ k \in 1 .. Len(l)
    BY <1>2, <1>3, <1>8
  <2> QED BY <1>4, <1>6, <1>7, <2>1
<1>10. b[Len(a) + 1] = e
  <2>1. Len(s) + 1 \in 1 .. Len(l)
    BY <1>2, <1>3
  <2> QED BY <1>5, <1>7, <1>8, <2>1
<1> QED BY <1>7, <1>8, <1>9, <1>10 DEF Extends, a, b, l

(* The same at the end of the second one.                                  *)
LEMMA ExtendsSecond ==
    ASSUME NEW s, IsList(s), NEW t, IsList(t), NEW e
    PROVE  Extends(s \o t, s \o Append(t, e), e)
<1> DEFINE l == Append(t, e)
           a == s \o t
           b == s \o l
<1>2. Len(s) \in Nat /\ Len(t) \in Nat
  BY ListType
<1>3. IsList(l) /\ Len(l) = Len(t) + 1
  BY ListAppends
<1>4. \A k \in 1 .. Len(t) : l[k] = t[k]
  BY ListAppends
<1>5. l[Len(t) + 1] = e
  BY ListAppends
<1> HIDE DEF l
<1>6. Len(a) = Len(s) + Len(t)
  BY ListsJoin
<1>6a. \A k \in 1 .. Len(s) : a[k] = s[k]
  BY ListsJoin
<1>6b. \A k \in 1 .. Len(t) : a[Len(s) + k] = t[k]
  BY ListsJoin
<1>7. IsList(b) /\ Len(b) = Len(s) + Len(l)
  BY <1>3, ListsJoin
<1>7a. \A k \in 1 .. Len(s) : b[k] = s[k]
  BY <1>3, ListsJoin
<1>7b. \A k \in 1 .. Len(l) : b[Len(s) + k] = l[k]
  BY <1>3, ListsJoin
<1> HIDE DEF a, b
<1>8. Len(a) \in Nat /\ Len(b) = Len(a) + 1
  BY <1>2, <1>3, <1>6, <1>7
<1>9. ASSUME NEW k \in 1 .. Len(a) PROVE b[k] = a[k]
  <2>1. CASE k <= Len(s)
    <3>1. k \in 1 .. Len(s)
      BY <1>2, <2>1
    <3> QED BY <1>6a, <1>7a, <3>1
  <2>2. CASE k > Len(s)
    <3> DEFINE j == k - Len(s)
    <3>1. j \in 1 .. Len(t) /\ k = Len(s) + j /\ j \in 1 .. Len(l)
      BY <1>2, <1>3, <1>6, <2>2
    <3> HIDE DEF j
    <3> QED BY <1>4, <1>6b, <1>7b, <3>1
  <2> QED BY <1>2, <2>1, <2>2
<1>10. b[Len(a) + 1] = e
  <2>1. Len(t) + 1 \in 1 .. Len(l) /\ Len(a) + 1 = Len(s) + (Len(t) + 1)
    BY <1>2, <1>3, <1>6
  <2> QED BY <1>5, <1>7b, <2>1
<1> QED BY <1>7, <1>8, <1>9, <1>10 DEF Extends, a, b, l

(* Whatever happens to the next frame.                                     *)
LEMMA SendNumbers ==
    ASSUME AudioConstants, NEW w, IsWritten(w), NEW r \in Nat, r < Len(w), NEW o, OutTypeOK(o),
           now \in Nat, open, Numbered(w, o, r), ~paced => o.queue = <<>>
    PROVE  Numbered(w, SendPayload(o, ContentOf(w, r + 1)), r + 1)
<1> DEFINE c == ContentOf(w, r + 1)
           q == SendPayload(o, c)
           a == Outgoing(o)
           b == Outgoing(q)
<1>1. Numbers(w, a, r, o.overflowed) /\ r + 1 \in Nat /\ r <= r + 1
  BY DEF Numbered
<1>2. DOMAIN o = Fields /\ IsList(o.queue) /\ IsList(o.sent)
  BY DEF OutTypeOK
<1> HIDE DEF c, a, b
<1>4. CASE ~remote
  <2>1. q = o
    BY <1>4, NotSent
  <2>2. a = <<>>
    BY <1>4 DEF Numbered, a
  <2>3. Numbers(w, a, r + 1, o.overflowed)
    BY <1>1, NumbersKeep
  <2> HIDE DEF q
  <2>4. Numbered(w, q, r + 1)
    BY <2>1, <2>2, <2>3 DEF Numbered, a
  <2> QED BY <2>4 DEF q, c
<1>5. CASE remote /\ ~paced
  <2> DEFINE e == Departing(PacketOf(o, c))
  <2>1. /\ NumbersGo(o, c, q) /\ q.sent = Append(o.sent, e) /\ q.queue = o.queue
        /\ q.overflowed = o.overflowed
    BY <1>2, <1>5, SentAtOnce
  <2>2. o.queue = <<>>
    BY <1>5
  <2>3. /\ e.payload = c /\ e.seq = o.seq /\ e.stamp = o.stamp /\ e.made \in Nat
    BY DEF Departing, PacketOf
  <2> HIDE DEF e, q
  <2>7. Extends(a, b, e)
    <3>1. Extends(o.sent \o <<>>, Append(o.sent, e) \o <<>>, e)
      BY <1>2, ExtendsFirst
    <3>2. a = o.sent \o <<>> /\ b = Append(o.sent, e) \o <<>>
      BY <2>1, <2>2 DEF a, b, Outgoing
    <3> QED BY <3>1, <3>2
  <2>8. /\ q.seq = (o.seq + 1) % SeqNumbers
        /\ q.stamp = (o.stamp + Len(ContentOf(w, r + 1))) % Timestamps
    BY <2>1 DEF NumbersGo, c
  <2>9. Numbered(w, q, r + 1)
    BY <1>5, <2>1, <2>3, <2>7, <2>8, PacketAdded DEF a, b, c
  <2> QED BY <2>9 DEF q, c
<1>6. CASE remote /\ paced /\ Len(o.queue) >= Limit
  <2>1. /\ NumbersGo(o, c, q) /\ q.sent = o.sent /\ q.queue = o.queue /\ q.overflowed = TRUE
    BY <1>2, <1>6, Pushed
  <2> HIDE DEF q
  <2>2. b = a
    BY <2>1 DEF a, b, Outgoing
  <2>3. Numbers(w, b, r + 1, q.overflowed)
    BY <1>1, <2>1, <2>2, NumbersKeep
  <2>4. ASSUME a # <<>>
        PROVE  NumbersAfter(w, Newest(q), q.seq, q.stamp, q.overflowed, r + 1)
    <3>1. Carries(w, Newest(o), r)
      BY <1>1, <2>4, NewestCarries DEF a
    <3>2. NumbersAfter(w, Newest(o), o.seq, o.stamp, o.overflowed, r)
      BY <2>4 DEF Numbered, a
    <3>3. NumbersAfter(w, Newest(o), (o.seq + 1) % SeqNumbers,
                       (o.stamp + Len(ContentOf(w, r + 1))) % Timestamps, TRUE, r + 1)
      BY <3>1, <3>2, NumberSkipped
    <3>4. Newest(q) = Newest(o)
      BY <2>2 DEF Newest, a, b
    <3> QED BY <2>1, <3>3, <3>4 DEF NumbersGo, c
  <2>5. Numbered(w, q, r + 1)
    BY <1>6, <2>2, <2>3, <2>4 DEF Numbered, b
  <2> QED BY <2>5 DEF q, c
<1>7. CASE remote /\ paced /\ ~(Len(o.queue) >= Limit)
  <2> DEFINE e == PacketOf(o, c)
  <2>1. /\ NumbersGo(o, c, q) /\ q.queue = Append(o.queue, e) /\ q.sent = o.sent
        /\ q.overflowed = o.overflowed
    BY <1>2, <1>7, Pushed
  <2>3. /\ e.payload = c /\ e.seq = o.seq /\ e.stamp = o.stamp /\ e.made \in Nat
    BY DEF PacketOf
  <2> HIDE DEF e, q
  <2>7. Extends(a, b, e)
    <3>1. Extends(o.sent \o o.queue, o.sent \o Append(o.queue, e), e)
      BY <1>2, ExtendsSecond
    <3>2. a = o.sent \o o.queue /\ b = o.sent \o Append(o.queue, e)
      BY <2>1 DEF a, b, Outgoing
    <3> QED BY <3>1, <3>2
  <2>8. /\ q.seq = (o.seq + 1) % SeqNumbers
        /\ q.stamp = (o.stamp + Len(ContentOf(w, r + 1))) % Timestamps
    BY <2>1 DEF NumbersGo, c
  <2>9. Numbered(w, q, r + 1)
    BY <1>7, <2>1, <2>3, <2>7, <2>8, PacketAdded DEF a, b, c
  <2> QED BY <2>9 DEF q, c
<1> HIDE DEF q
<1> QED BY <1>4, <1>5, <1>6, <1>7 DEF q, c
----------------------------------------------------------------------------
(* Durations of packets, and of those behind packet i up to packet j.      *)
DurationsOf(s) == [k \in DOMAIN s |-> Len(s[k].payload)]

Dur(s, i, j) == DurationOf(SubSeq(s, i + 1, j))

HasDurations(s) == IsList(s) /\ \A k \in 1 .. Len(s) : Len(s[k].payload) \in Nat

(* Durations are numbers, one for each packet.                             *)
LEMMA DurationsType ==
    ASSUME NEW s, HasDurations(s)
    PROVE  /\ DurationsOf(s) \in Seq(Nat) /\ Len(DurationsOf(s)) = Len(s) /\ Len(s) \in Nat
           /\ \A k \in 1 .. Len(s) : DurationsOf(s)[k] = Len(s[k].payload)
<1>1. Len(s) \in Nat /\ DOMAIN s = 1 .. Len(s)
  BY ListType DEF HasDurations
<1> DEFINE n == Len(s)
           d == DurationsOf(s)
<1>2. d = [k \in 1 .. n |-> Len(s[k].payload)]
  BY <1>1 DEF DurationsOf
<1>3. \A k \in 1 .. n : Len(s[k].payload) \in Nat
  BY DEF HasDurations
<1> HIDE DEF n, d
<1>4. n \in Nat
  BY <1>1 DEF n
<1>5. d \in Seq(Nat) /\ Len(d) = n
  BY <1>2, <1>3, <1>4
<1>6. \A k \in 1 .. n : d[k] = Len(s[k].payload)
  BY <1>2
<1> QED BY <1>4, <1>5, <1>6 DEF n, d

(* Durations add up as sizes do.                                           *)
LEMMA DurIsSpan ==
    ASSUME NEW s, HasDurations(s), NEW i \in Nat, NEW j \in Nat, i <= j, j <= Len(s)
    PROVE  Dur(s, i, j) = Span(DurationsOf(s), i + 1, j)
<1> DEFINE d == DurationsOf(s)
           m == j - i
           t == SubSeq(s, i + 1, j)
<1>1. /\ d \in Seq(Nat) /\ Len(d) = Len(s) /\ Len(s) \in Nat
      /\ \A k \in 1 .. Len(s) : d[k] = Len(s[k].payload)
  BY DurationsType
<1>2. PICK S : s \in Seq(S)
  BY DEF HasDurations, IsList
<1>3. m \in Nat /\ \A k \in 1 .. m : i + k \in 1 .. Len(s) /\ (i + 1) + k - 1 = i + k
  BY <1>1
<1>4. t = [k \in 1 .. m |-> s[i + k]]
  <2>1. i + 1 \in Nat /\ j - (i + 1) + 1 = m
    OBVIOUS
  <2>2. t = [k \in 1 .. j - (i + 1) + 1 |-> s[(i + 1) + k - 1]]
    BY <1>2, <2>1
  <2> HIDE DEF t, m
  <2> QED BY <1>3, <2>1, <2>2
<1>5. SubSeq(d, i + 1, j) = [k \in 1 .. m |-> d[i + k]]
  <2>1. i + 1 \in Nat /\ j - (i + 1) + 1 = m
    OBVIOUS
  <2>2. SubSeq(d, i + 1, j) = [k \in 1 .. j - (i + 1) + 1 |-> d[(i + 1) + k - 1]]
    BY <1>1, <2>1
  <2> HIDE DEF d, m
  <2> QED BY <1>3, <2>1, <2>2
<1> HIDE DEF d, m, t
<1>6. DOMAIN t = 1 .. m /\ \A k \in 1 .. m : t[k] = s[i + k]
  BY <1>4
<1>7. [k \in DOMAIN t |-> Len(t[k].payload)] = [k \in 1 .. m |-> d[i + k]]
  BY <1>1, <1>3, <1>6
<1> QED BY <1>5, <1>7 DEF Dur, DurationOf, Span, d, t

(* The durations with a packet more.                                       *)
LEMMA DurationsGrow ==
    ASSUME NEW s, HasDurations(s), NEW e, Len(e.payload) \in Nat
    PROVE  /\ HasDurations(Append(s, e))
           /\ DurationsOf(Append(s, e)) = Append(DurationsOf(s), Len(e.payload))
<1> DEFINE t == Append(s, e)
           d == DurationsOf(s)
           x == Len(e.payload)
           n == Len(s)
<1>1. IsList(s)
  BY DEF HasDurations
<1>2. IsList(t) /\ Len(t) = n + 1
  BY <1>1, ListAppends
<1>3. \A k \in 1 .. n : t[k] = s[k]
  BY <1>1, ListAppends
<1>4. t[n + 1] = e
  BY <1>1, ListAppends
<1>5. d \in Seq(Nat) /\ Len(d) = n /\ n \in Nat
  BY DurationsType
<1>6. \A k \in 1 .. n : d[k] = Len(s[k].payload)
  BY DurationsType
<1> HIDE DEF t, d, n
<1>7. ASSUME NEW k \in 1 .. n + 1 PROVE Len(t[k].payload) = IF k = n + 1 THEN x ELSE d[k]
  <2>1. CASE k = n + 1
    BY <1>4, <2>1
  <2>2. CASE k # n + 1
    <3>1. k \in 1 .. n
      BY <1>5, <2>2
    <3> QED BY <1>3, <1>6, <2>2, <3>1
  <2> QED BY <2>1, <2>2
<1>8. x \in Nat
  OBVIOUS
<1> HIDE DEF x
<1>9. ASSUME NEW k \in 1 .. n + 1 PROVE Len(t[k].payload) \in Nat
  <2>1. CASE k = n + 1
    BY <1>7, <1>8, <2>1
  <2>2. CASE k # n + 1
    <3>1. k \in 1 .. Len(d)
      BY <1>5, <2>2
    <3>2. d[k] \in Nat
      BY <1>5, <3>1
    <3> QED BY <1>7, <2>2, <3>2
  <2> QED BY <2>1, <2>2
<1>10. HasDurations(t)
  BY <1>2, <1>9 DEF HasDurations
<1>11. /\ DurationsOf(t) \in Seq(Nat) /\ Len(DurationsOf(t)) = n + 1
  BY <1>2, <1>10, DurationsType
<1>12. \A k \in 1 .. n + 1 : DurationsOf(t)[k] = Len(t[k].payload)
  BY <1>2, <1>10, DurationsType
<1>13. /\ Append(d, x) \in Seq(Nat) /\ Len(Append(d, x)) = n + 1
       /\ \A k \in 1 .. n : Append(d, x)[k] = d[k]
       /\ Append(d, x)[n + 1] = x
  BY <1>5, <1>8, AppendProperties
<1>14. ASSUME NEW k \in 1 .. n + 1 PROVE DurationsOf(t)[k] = Append(d, x)[k]
  <2>1. CASE k = n + 1
    BY <1>7, <1>12, <1>13, <2>1
  <2>2. CASE k # n + 1
    <3>1. k \in 1 .. n
      BY <1>5, <2>2
    <3> QED BY <1>7, <1>12, <1>13, <2>2, <3>1
  <2> QED BY <2>1, <2>2
<1>15. DurationsOf(t) = Append(d, x)
  <2> DEFINE u == DurationsOf(t)
             v == Append(d, x)
  <2>1. Len(u) = Len(v) /\ u \in Seq(Nat) /\ v \in Seq(Nat)
    BY <1>11, <1>13
  <2>2. \A k \in 1 .. Len(u) : u[k] = v[k]
    BY <1>11, <1>14
  <2> HIDE DEF u, v
  <2>3. u = v
    BY <2>1, <2>2, SeqEqual
  <2> QED BY <2>3 DEF u, v
<1> QED BY <1>10, <1>15 DEF t, d, x

(* Durations of parts are numbers.                                         *)
LEMMA DurType ==
    ASSUME NEW s, HasDurations(s), NEW i \in Nat, NEW j \in Nat, i <= j, j <= Len(s)
    PROVE  Dur(s, i, j) \in Nat
<1>1. DurationsOf(s) \in Seq(Nat) /\ Len(DurationsOf(s)) = Len(s) /\ Len(s) \in Nat
  BY DurationsType
<1>2. i + 1 \in 1 .. Len(DurationsOf(s)) + 1 /\ j \in (i + 1) - 1 .. Len(DurationsOf(s))
  BY <1>1
<1>3. Span(DurationsOf(s), i + 1, j) \in Nat
  BY <1>1, <1>2, SpanType
<1> QED BY <1>3, DurIsSpan

(* No packet, no duration.                                                 *)
LEMMA DurOfNone ==
    ASSUME NEW s, HasDurations(s), NEW i \in Nat, i <= Len(s) PROVE Dur(s, i, i) = 0
<1>1. i + 1 \in Nat \ {0} /\ (i + 1) - 1 = i /\ i <= i
  OBVIOUS
<1>2. Span(DurationsOf(s), i + 1, i) = 0
  BY <1>1, SpanOfNone
<1> QED BY <1>1, <1>2, DurIsSpan

(* A packet more changes no duration before it.                            *)
LEMMA DurStays ==
    ASSUME NEW s, HasDurations(s), NEW e, Len(e.payload) \in Nat,
           NEW i \in Nat, NEW j \in Nat, i <= j, j <= Len(s)
    PROVE  Dur(Append(s, e), i, j) = Dur(s, i, j)
<1> DEFINE d == DurationsOf(s)
           t == Append(s, e)
<1>1. d \in Seq(Nat) /\ Len(d) = Len(s) /\ Len(s) \in Nat
  BY DurationsType
<1>2. HasDurations(t) /\ DurationsOf(t) = Append(d, Len(e.payload))
  BY DurationsGrow
<1>3. Len(t) = Len(s) + 1
  BY ListAppends DEF HasDurations
<1> HIDE DEF t, d
<1>4. j <= Len(t)
  BY <1>1, <1>3
<1>5. Dur(t, i, j) = Span(Append(d, Len(e.payload)), i + 1, j)
  BY <1>2, <1>4, DurIsSpan
<1>6. i + 1 \in Nat \ {0} /\ j <= Len(d)
  BY <1>1
<1>7. Span(Append(d, Len(e.payload)), i + 1, j) = Span(d, i + 1, j)
  BY <1>1, <1>6, SpanOfPrefix
<1>8. Dur(s, i, j) = Span(d, i + 1, j)
  BY DurIsSpan DEF d
<1> QED BY <1>5, <1>7, <1>8 DEF t

(* A packet more adds its duration to those that reach up to it.           *)
LEMMA DurGrows ==
    ASSUME NEW s, HasDurations(s), NEW e, Len(e.payload) \in Nat, NEW i \in Nat, i <= Len(s)
    PROVE  Dur(Append(s, e), i, Len(s) + 1) = Dur(s, i, Len(s)) + Len(e.payload)
<1> DEFINE d == DurationsOf(s)
           t == Append(s, e)
           x == Len(e.payload)
           n == Len(s)
<1>1. d \in Seq(Nat) /\ Len(d) = n /\ n \in Nat
  BY DurationsType
<1>2. HasDurations(t) /\ DurationsOf(t) = Append(d, x)
  BY DurationsGrow
<1>3. Len(t) = n + 1
  BY ListAppends DEF HasDurations
<1>3a. x \in Nat /\ i <= n
  OBVIOUS
<1>4. Dur(s, i, n) = Span(d, i + 1, n)
  <2>1. n <= Len(s) /\ i <= n /\ n \in Nat
    BY <1>1
  <2> HIDE DEF n
  <2> QED BY <2>1, DurIsSpan DEF d
<1> HIDE DEF t, d, x, n
<1>5. Dur(t, i, n + 1) = Span(Append(d, x), i + 1, n + 1)
  <2>1. n + 1 \in Nat /\ i <= n + 1 /\ n + 1 <= Len(t)
    BY <1>1, <1>3, <1>3a
  <2> QED BY <1>2, <2>1, DurIsSpan
<1> DEFINE v == Append(d, x)
<1>6. v \in Seq(Nat) /\ Len(v) = n + 1 /\ v[n + 1] = x
  BY <1>1, <1>3a, AppendProperties
<1>7. Span(v, i + 1, n) = Span(d, i + 1, n)
  <2>1. i + 1 \in Nat \ {0} /\ n <= Len(d)
    BY <1>1
  <2> QED BY <1>1, <1>3a, <2>1, SpanOfPrefix
<1> HIDE DEF v
<1>8. Span(v, i + 1, n + 1) = Span(v, i + 1, n) + v[n + 1]
  <2>1. i + 1 \in 1 .. Len(v) /\ n \in (i + 1) - 1 .. Len(v) - 1
    BY <1>1, <1>3a, <1>6
  <2> QED BY <1>6, <2>1, SpanOfMore
<1> QED BY <1>4, <1>5, <1>6, <1>7, <1>8 DEF t, x, n, v
----------------------------------------------------------------------------
(* Timer, deadline and queue.  A line that was stopped waits for nothing.  *)
Timed(o) ==
    /\ ~paced => o.queue = <<>> /\ o.timer = Unset /\ o.deadline = Unset
    /\ ~open => o.queue = <<>> /\ o.timer = Unset
    /\ o.timer # Unset => o.deadline # Unset
    /\ o.timer = Unset => o.queue = <<>>
    /\ o.timer = Unset /\ o.deadline # Unset => now >= o.deadline

(* The deadline is ahead of all that was sent, by what was sent since.     *)
DeadlineAhead(o) ==
    \A i \in 1 .. Len(o.sent) : o.deadline > o.sent[i].at + Dur(o.sent, i, Len(o.sent))

SentInPace(o) ==
    \A j \in 1 .. Len(o.sent) : \A i \in 1 .. j - 1 :
        o.sent[j].at > o.sent[i].at + Dur(o.sent, i, j - 1)

Paced(o) ==
    /\ o.sent = <<>> /\ o.queue # <<>> => o.deadline >= o.queue[1].made + Delay
    /\ o.sent = <<>> /\ o.deadline # Unset => o.queue # <<>>
    /\ o.sent # <<>> => o.sent[1].at >= o.sent[1].made + Delay
    /\ o.sent # <<>> /\ open => o.deadline # Unset /\ DeadlineAhead(o)
    /\ \A i \in 1 .. Len(o.sent) : o.sent[i].at \in Nat
    /\ SentInPace(o)

(* The constants that are numbers.                                         *)
LEMMA ConstantsType ==
    ASSUME AudioConstants
    PROVE  /\ Delay \in Nat /\ Limit \in Nat /\ Early \in Nat /\ MaxTime \in Nat
           /\ SeqNumbers \in Nat \ {0} /\ Timestamps \in Nat \ {0} /\ Unset \notin Nat
BY DEF AudioConstants

(* Packets have a duration.                                                *)
Lasts(packet) ==
    Len(packet.payload) \in Nat /\ Len(packet.payload) > 0 /\ packet.made \in Nat

(* A packet that carries a frame has a duration.                           *)
LEMMA CarriedLasts ==
    ASSUME NEW w, IsWritten(w), NEW r \in Nat, r <= Len(w), NEW packet, Carries(w, packet, r)
    PROVE  Lasts(packet)
<1> DEFINE n == FrameOf(packet)
<1>1. n \in 1 .. r /\ packet.payload = ContentOf(w, n) /\ Len(w) \in Nat /\ packet.made \in Nat
  BY WrittenType DEF Carries
<1>2. n \in Nat /\ n >= 1 /\ n <= Len(w)
  BY <1>1
<1> HIDE DEF n
<1> QED BY <1>1, <1>2, FrameCarried DEF Lasts

(* The parts are found in the whole.                                       *)
LEMMA JoinedParts ==
    ASSUME NEW s, IsList(s), NEW t, IsList(t)
    PROVE  /\ \A k \in 1 .. Len(s) : k \in 1 .. Len(s \o t) /\ (s \o t)[k] = s[k]
           /\ \A k \in 1 .. Len(t) :
                 Len(s) + k \in 1 .. Len(s \o t) /\ (s \o t)[Len(s) + k] = t[k]
<1> DEFINE a == s \o t
<1>1. Len(s) \in Nat /\ Len(t) \in Nat
  BY ListType
<1>2. Len(a) = Len(s) + Len(t)
  BY ListsJoin
<1>3. \A k \in 1 .. Len(s) : a[k] = s[k]
  BY ListsJoin
<1>4. \A k \in 1 .. Len(t) : a[Len(s) + k] = t[k]
  BY ListsJoin
<1> HIDE DEF a
<1>5. \A k \in 1 .. Len(s) : k \in 1 .. Len(a)
  BY <1>1, <1>2
<1>6. \A k \in 1 .. Len(t) : Len(s) + k \in 1 .. Len(a)
  BY <1>1, <1>2
<1> QED BY <1>3, <1>4, <1>5, <1>6 DEF a

(* The duration of all packets.                                            *)
LEMMA LastingHasDurations ==
    ASSUME NEW s, IsList(s), \A k \in 1 .. Len(s) : Lasts(s[k]) PROVE HasDurations(s)
BY DEF HasDurations, Lasts

(* All packets sent and waiting have a duration.                           *)
LEMMA AllLast ==
    ASSUME NEW w, IsWritten(w), NEW r \in Nat, r <= Len(w), NEW o, OutTypeOK(o),
           Numbers(w, Outgoing(o), r, o.overflowed)
    PROVE  /\ \A k \in 1 .. Len(o.sent) : Lasts(o.sent[k])
           /\ \A k \in 1 .. Len(o.queue) : Lasts(o.queue[k])
           /\ HasDurations(o.sent)
<1>1. IsList(o.sent) /\ IsList(o.queue)
  BY DEF OutTypeOK
<1>2. \A k \in 1 .. Len(Outgoing(o)) : Lasts(Outgoing(o)[k])
  BY CarriedLasts DEF Numbers
<1>3. \A k \in 1 .. Len(o.sent) :
        k \in 1 .. Len(Outgoing(o)) /\ Outgoing(o)[k] = o.sent[k]
  BY <1>1, JoinedParts DEF Outgoing
<1>4. \A k \in 1 .. Len(o.queue) :
        /\ Len(o.sent) + k \in 1 .. Len(Outgoing(o))
        /\ Outgoing(o)[Len(o.sent) + k] = o.queue[k]
  <2> DEFINE s == o.sent
             t == o.queue
  <2>1. IsList(s) /\ IsList(t) /\ Outgoing(o) = s \o t
    BY <1>1 DEF Outgoing
  <2> HIDE DEF s, t
  <2>2. \A k \in 1 .. Len(t) :
          Len(s) + k \in 1 .. Len(s \o t) /\ (s \o t)[Len(s) + k] = t[k]
    BY <2>1, JoinedParts
  <2>3. \A k \in 1 .. Len(t) :
          Len(s) + k \in 1 .. Len(Outgoing(o)) /\ Outgoing(o)[Len(s) + k] = t[k]
    BY <2>1, <2>2
  <2> QED BY <2>3 DEF s, t
<1>5. \A k \in 1 .. Len(o.sent) : Lasts(o.sent[k])
  BY <1>2, <1>3
<1>6. \A k \in 1 .. Len(o.queue) : Lasts(o.queue[k])
  BY <1>2, <1>4
<1>7. HasDurations(o.sent)
  BY <1>1, <1>5, LastingHasDurations
<1> QED BY <1>5, <1>6, <1>7

(* The numbers stay in their ranges.                                       *)
LEMMA InRange ==
    ASSUME NEW M \in Nat \ {0}, NEW x \in Int PROVE x % M \in 0 .. M - 1
OBVIOUS

(* Numbers counted on stay in their range.                                 *)
LEMMA NumbersInRange ==
    ASSUME AudioConstants, NEW o, OutTypeOK(o), NEW payload, Len(payload) \in Nat, NEW q,
           NumbersGo(o, payload, q)
    PROVE  q.seq \in 0 .. SeqNumbers - 1 /\ q.stamp \in 0 .. Timestamps - 1
<1>1. SeqNumbers \in Nat \ {0} /\ Timestamps \in Nat \ {0}
  BY DEF AudioConstants
<1>2. o.seq \in Int /\ o.stamp \in Int
  BY DEF OutTypeOK
<1>3. o.seq + 1 \in Int /\ o.stamp + Len(payload) \in Int
  BY <1>2
<1>4. (o.seq + 1) % SeqNumbers \in 0 .. SeqNumbers - 1
  BY <1>1, <1>3, InRange
<1>5. (o.stamp + Len(payload)) % Timestamps \in 0 .. Timestamps - 1
  BY <1>1, <1>3, InRange
<1> QED BY <1>4, <1>5 DEF NumbersGo

(* sendPayload keeps the types.                                            *)
LEMMA SendTypeOK ==
    ASSUME AudioConstants, now \in Nat, NEW o, OutTypeOK(o), NEW payload, Len(payload) \in Nat
    PROVE  OutTypeOK(SendPayload(o, payload))
<1> DEFINE q == SendPayload(o, payload)
<1>1. /\ DOMAIN o = Fields /\ IsList(o.queue) /\ IsList(o.sent) /\ Len(o.queue) <= Limit
      /\ o.timer \in Nat \cup {Unset} /\ o.deadline \in Nat \cup {Unset}
  BY DEF OutTypeOK
<1>2. Limit \in Nat /\ Delay \in Nat /\ Len(o.queue) \in Nat
  BY <1>1, ListType, ConstantsType
<1>3. CASE ~remote
  BY <1>3, NotSent
<1>4. CASE remote /\ ~paced
  <2> DEFINE e == Departing(PacketOf(o, payload))
  <2>1. /\ NumbersGo(o, payload, q) /\ q.sent = Append(o.sent, e) /\ q.queue = o.queue
        /\ q.timer = o.timer /\ q.deadline = o.deadline
    BY <1>1, <1>4, SentAtOnce
  <2> HIDE DEF e, q
  <2>2. IsList(q.sent)
    BY <1>1, <2>1, ListAppends
  <2>3. q.seq \in 0 .. SeqNumbers - 1 /\ q.stamp \in 0 .. Timestamps - 1 /\ DOMAIN q = Fields
    BY <2>1, NumbersInRange DEF NumbersGo
  <2>4. OutTypeOK(q)
    BY <1>1, <2>1, <2>2, <2>3 DEF OutTypeOK
  <2> QED BY <2>4 DEF q
<1>5. CASE remote /\ paced
  <2> DEFINE e == PacketOf(o, payload)
  <2>1. NumbersGo(o, payload, q) /\ q.sent = o.sent
    BY <1>1, <1>5, Pushed
  <2>2. Len(o.queue) >= Limit =>
              q.queue = o.queue /\ q.timer = o.timer /\ q.deadline = o.deadline
    BY <1>1, <1>5, Pushed
  <2>3. ~(Len(o.queue) >= Limit) =>
              /\ q.queue = Append(o.queue, e)
              /\ o.timer # Unset => q.timer = o.timer /\ q.deadline = o.deadline
              /\ o.timer = Unset =>
                    /\ q.deadline = now + IF o.deadline = Unset THEN Delay ELSE 0
                    /\ q.timer = Max({now, q.deadline})
    BY <1>1, <1>5, Pushed
  <2> HIDE DEF e, q
  <2>4. q.seq \in 0 .. SeqNumbers - 1 /\ q.stamp \in 0 .. Timestamps - 1 /\ DOMAIN q = Fields
    BY <2>1, NumbersInRange DEF NumbersGo
  <2>5. IsList(q.queue) /\ Len(q.queue) <= Limit
    <3>1. IsList(Append(o.queue, e)) /\ Len(Append(o.queue, e)) = Len(o.queue) + 1
      BY <1>1, ListAppends
    <3>2. ~(Len(o.queue) >= Limit) => Len(o.queue) + 1 <= Limit
      BY <1>2
    <3> QED BY <1>1, <2>2, <2>3, <3>1, <3>2
  <2>6. q.timer \in Nat \cup {Unset} /\ q.deadline \in Nat \cup {Unset}
    <3>1. CASE Len(o.queue) >= Limit \/ o.timer # Unset
      BY <1>1, <2>2, <2>3, <3>1
    <3>2. CASE ~(Len(o.queue) >= Limit) /\ o.timer = Unset
      <4>1. q.deadline \in Nat
        BY <1>2, <2>3, <3>2
      <4>2. q.timer \in Nat
        BY <2>3, <3>2, <4>1, MaxOfTwo
      <4> QED BY <4>1, <4>2
    <3> QED BY <3>1, <3>2
  <2>7. OutTypeOK(q)
    BY <1>1, <2>1, <2>4, <2>5, <2>6 DEF OutTypeOK
  <2> QED BY <2>7 DEF q
<1> HIDE DEF q
<1> QED BY <1>3, <1>4, <1>5 DEF q

(* sendPayload keeps the timer, the deadline and the pace.                 *)
LEMMA SendTimed ==
    ASSUME AudioConstants, now \in Nat, open, NEW o, OutTypeOK(o), Timed(o), NEW payload,
           HasDurations(o.sent), paced => Paced(o)
    PROVE  LET q == SendPayload(o, payload) IN Timed(q) /\ (paced => Paced(q))
<1> DEFINE q == SendPayload(o, payload)
<1>1. /\ DOMAIN o = Fields /\ IsList(o.queue) /\ IsList(o.sent) /\ Len(o.queue) <= Limit
      /\ o.timer \in Nat \cup {Unset} /\ o.deadline \in Nat \cup {Unset}
  BY DEF OutTypeOK
<1>2. Limit \in Nat /\ Delay \in Nat /\ Len(o.queue) \in Nat /\ Unset \notin Nat
      /\ (o.queue = <<>> <=> Len(o.queue) = 0)
  BY <1>1, ListType, ConstantsType
<1>3. CASE ~remote
  BY <1>3, NotSent
<1>4. CASE remote /\ ~paced
  <2>1. /\ q.queue = o.queue /\ q.timer = o.timer /\ q.deadline = o.deadline
    BY <1>1, <1>4, SentAtOnce
  <2> HIDE DEF q
  <2> QED BY <1>4, <2>1 DEF Timed, q
<1>5. CASE remote /\ paced
  <2> DEFINE e == PacketOf(o, payload)
  <2>1. q.sent = o.sent
    BY <1>1, <1>5, Pushed
  <2>2. Len(o.queue) >= Limit =>
              q.queue = o.queue /\ q.timer = o.timer /\ q.deadline = o.deadline
    BY <1>1, <1>5, Pushed
  <2>3. ~(Len(o.queue) >= Limit) =>
              /\ q.queue = Append(o.queue, e)
              /\ o.timer # Unset => q.timer = o.timer /\ q.deadline = o.deadline
              /\ o.timer = Unset =>
                    /\ q.deadline = now + IF o.deadline = Unset THEN Delay ELSE 0
                    /\ q.timer = Max({now, q.deadline})
    BY <1>1, <1>5, Pushed
  <2>4. e.made = now
    BY DEF PacketOf
  <2> HIDE DEF e, q
  <2>5. Paced(o)
    BY <1>5
  <2>6. CASE Len(o.queue) >= Limit
    <3>1. q.queue = o.queue /\ q.timer = o.timer /\ q.deadline = o.deadline
      BY <2>2, <2>6
    <3>2. Timed(q)
      BY <3>1 DEF Timed
    <3>3. Paced(q)
      BY <2>1, <2>5, <3>1 DEF Paced, DeadlineAhead, SentInPace
    <3> QED BY <3>2, <3>3 DEF q
  <2>7. CASE ~(Len(o.queue) >= Limit)
    <3>0. q.queue = Append(o.queue, e)
      BY <2>3, <2>7
    <3>1. /\ IsList(q.queue) /\ Len(q.queue) = Len(o.queue) + 1
          /\ q.queue[Len(o.queue) + 1] = e
      BY <1>1, <3>0, ListAppends
    <3>2. \A k \in 1 .. Len(o.queue) : q.queue[k] = o.queue[k]
      BY <1>1, <3>0, ListAppends
    <3>3. q.queue # <<>>
      <4>1. Len(q.queue) # 0
        BY <1>2, <3>1
      <4> QED BY <3>1, <4>1, ListType
    <3>4. o.queue # <<>> => q.queue[1] = o.queue[1]
      <4>1. o.queue # <<>> => 1 \in 1 .. Len(o.queue)
        BY <1>2
      <4> QED BY <3>2, <4>1
    <3>5. o.queue = <<>> => q.queue[1].made = now
      BY <1>2, <2>4, <3>1
    <3>6. CASE o.timer # Unset
      <4>1. q.timer = o.timer /\ q.deadline = o.deadline /\ o.deadline # Unset
        BY <2>3, <2>7, <3>6 DEF Timed
      <4>2. Timed(q)
        BY <1>5, <3>6, <4>1 DEF Timed
      <4>3. Paced(q)
        <5>1. o.sent = <<>> => o.queue # <<>>
          BY <2>5, <4>1 DEF Paced
        <5>2. q.sent = <<>> /\ q.queue # <<>> => q.deadline >= q.queue[1].made + Delay
          BY <2>1, <2>5, <3>4, <4>1, <5>1 DEF Paced
        <5> QED BY <2>1, <2>5, <3>3, <4>1, <5>2 DEF Paced, DeadlineAhead, SentInPace
      <4> QED BY <4>2, <4>3 DEF q
    <3>7. CASE o.timer = Unset
      <4>1. /\ q.deadline = now + IF o.deadline = Unset THEN Delay ELSE 0
            /\ q.timer = Max({now, q.deadline})
        BY <2>3, <2>7, <3>7
      <4>2. q.deadline \in Nat
        BY <1>2, <4>1
      <4>3. q.timer \in Nat
        BY <4>1, <4>2, MaxOfTwo
      <4>4. o.queue = <<>>
        BY <3>7 DEF Timed
      <4>5. Timed(q)
        BY <1>2, <1>5, <4>2, <4>3 DEF Timed
      <4>6. q.sent = <<>> => q.deadline >= q.queue[1].made + Delay
        <5>1. o.sent = <<>> => o.deadline = Unset
          BY <2>5, <4>4 DEF Paced
        <5> QED BY <1>2, <2>1, <3>5, <4>1, <4>4, <5>1
      <4>7. q.sent # <<>> => DeadlineAhead(q)
        <5> SUFFICES ASSUME q.sent # <<>> PROVE DeadlineAhead(q)
          OBVIOUS
        <5>1. o.deadline # Unset /\ DeadlineAhead(o)
          BY <2>1, <2>5 DEF Paced
        <5>2. now >= o.deadline
          BY <3>7, <5>1 DEF Timed
        <5>3. q.deadline = now
          BY <4>1, <5>1
        <5>4. o.deadline \in Nat
          BY <1>1, <5>1
        <5> SUFFICES ASSUME NEW i \in 1 .. Len(o.sent)
                     PROVE  q.deadline > o.sent[i].at + Dur(o.sent, i, Len(o.sent))
          BY <2>1 DEF DeadlineAhead
        <5>5. o.deadline > o.sent[i].at + Dur(o.sent, i, Len(o.sent))
          BY <5>1 DEF DeadlineAhead
        <5>6. o.sent[i].at + Dur(o.sent, i, Len(o.sent)) \in Int
          <6>1. o.sent[i].at \in Nat
            BY <2>5 DEF Paced
          <6>2. i \in Nat /\ i <= Len(o.sent) /\ Len(o.sent) \in Nat
            BY <1>1, ListType
          <6>3. Dur(o.sent, i, Len(o.sent)) \in Nat
            BY <6>2, DurType
          <6> QED BY <6>1, <6>3
        <5> DEFINE x == o.sent[i].at + Dur(o.sent, i, Len(o.sent))
        <5>7. x \in Int /\ o.deadline > x
          BY <5>5, <5>6
        <5> HIDE DEF x
        <5>8. q.deadline > x
          BY <5>2, <5>3, <5>4, <5>7
        <5> QED BY <5>8 DEF x
      <4>8. Paced(q)
        BY <1>2, <2>1, <2>5, <3>3, <4>2, <4>6, <4>7 DEF Paced, SentInPace
      <4> QED BY <4>5, <4>8 DEF q
    <3> QED BY <3>6, <3>7
  <2> QED BY <2>6, <2>7
<1> HIDE DEF q
<1> QED BY <1>3, <1>4, <1>5 DEF q

(* All about the out record, while r frames have been read.                *)
OutInv(w, o, r) ==
    OutTypeOK(o) /\ Numbered(w, o, r) /\ Timed(o) /\ (paced => Paced(o))

(* sendPayload of the next frame.                                          *)
LEMMA SendKeeps ==
    ASSUME AudioConstants, now \in Nat, open, NEW w, IsWritten(w), NEW r \in Nat, r < Len(w),
           NEW o, OutInv(w, o, r)
    PROVE  OutInv(w, SendPayload(o, ContentOf(w, r + 1)), r + 1)
<1> DEFINE c == ContentOf(w, r + 1)
<1>1. OutTypeOK(o) /\ Numbered(w, o, r) /\ Timed(o) /\ (paced => Paced(o))
  BY DEF OutInv
<1>2. Len(w) \in Nat
  BY WrittenType
<1>3. r <= Len(w) /\ r + 1 \in Nat /\ r + 1 >= 1 /\ r + 1 <= Len(w)
  BY <1>2
<1>4. Len(c) \in Nat
  <2>1. w[r + 1] \in Nat
    BY <1>3, WrittenType
  <2> QED BY <2>1 DEF ContentOf
<1>5. HasDurations(o.sent)
  BY <1>1, <1>3, AllLast DEF Numbered
<1>6. ~paced => o.queue = <<>>
  BY <1>1 DEF Timed
<1>7. Numbered(w, SendPayload(o, c), r + 1)
  BY <1>1, <1>6, SendNumbers
<1> HIDE DEF c
<1>8. OutTypeOK(SendPayload(o, c))
  BY <1>1, <1>4, SendTypeOK
<1>9. Timed(SendPayload(o, c)) /\ (paced => Paced(SendPayload(o, c)))
  BY <1>1, <1>5, SendTimed
<1> QED BY <1>7, <1>8, <1>9 DEF OutInv, c

(* All frames that were taken, one after the other.                        *)
LEMMA SendAllKeeps ==
    ASSUME AudioConstants, now \in Nat, open, NEW w, IsWritten(w), NEW r \in Nat,
           NEW q \in Nat, r + q <= Len(w), NEW o, OutInv(w, o, r)
    PROVE  OutInv(w, SendAll(o, FramesBehind(w, r, q)), r + q)
<1> DEFINE f == FramesBehind(w, r, q)
<1>1. DOMAIN f = 1 .. q /\ Len(f) = q /\ \A k \in 1 .. q : f[k] = ContentOf(w, r + k)
  BY FramesBehindType
<1>2. Len(w) \in Nat
  BY WrittenType
<1> HIDE DEF f
<1>3. PICK acc : /\ acc[0] = o
                 /\ SendAll(o, f) = acc[q]
                 /\ \A k \in 1 .. q : acc[k] = SendPayload(acc[k - 1], f[k])
  <2>1. DOMAIN f = 1 .. Len(f) /\ Len(f) \in Nat
    BY <1>1
  <2>2. \E acc : /\ acc[0] = o
                 /\ SendAll(o, f) = acc[Len(f)]
                 /\ \A k \in 1 .. Len(f) : acc[k] = SendPayload(acc[k - 1], f[k])
    BY <2>1, SendSteps
  <2>3. Len(f) = q
    BY <1>1
  <2> QED BY <2>2, <2>3, Zenon
<1> DEFINE S == {k \in Nat : k <= q => OutInv(w, acc[k], r + k)}
<1>4. 0 \in S
  <2>1. r + 0 = r
    OBVIOUS
  <2> QED BY <1>3, <2>1
<1>5. ASSUME NEW k \in Nat, k \in S PROVE k + 1 \in S
  <2> SUFFICES ASSUME k + 1 <= q PROVE OutInv(w, acc[k + 1], r + (k + 1))
    OBVIOUS
  <2>1. k + 1 \in 1 .. q /\ (k + 1) - 1 = k /\ r + (k + 1) = (r + k) + 1
    OBVIOUS
  <2>2. r + k \in Nat /\ r + k < Len(w)
    BY <1>2
  <2>3. OutInv(w, acc[k], r + k)
    BY <1>5
  <2>4. acc[k + 1] = SendPayload(acc[k], ContentOf(w, r + (k + 1)))
    BY <1>1, <1>3, <2>1
  <2>5. OutInv(w, SendPayload(acc[k], ContentOf(w, (r + k) + 1)), (r + k) + 1)
    BY <2>2, <2>3, SendKeeps
  <2> QED BY <2>1, <2>4, <2>5
<1>6. q \in S
  <2> HIDE DEF S
  <2> QED BY <1>4, <1>5, Induction
<1> QED BY <1>3, <1>6 DEF f
----------------------------------------------------------------------------
(* A packet that is sent from the queue.                                   *)
LEMMA SentNextInPace ==
    ASSUME NEW s, HasDurations(s), \A i \in 1 .. Len(s) : s[i].at \in Nat,
           NEW e, Len(e.payload) \in Nat, Len(e.payload) > 0, e.at \in Nat,
           NEW deadline \in Nat, e.at >= deadline, NEW later \in Nat,
           later >= deadline + Len(e.payload), later > e.at,
           \A i \in 1 .. Len(s) : deadline > s[i].at + Dur(s, i, Len(s)),
           \A j \in 1 .. Len(s) : \A i \in 1 .. j - 1 : s[j].at > s[i].at + Dur(s, i, j - 1)
    PROVE  LET t == Append(s, e)
           IN  /\ \A i \in 1 .. Len(t) : t[i].at \in Nat
               /\ \A i \in 1 .. Len(t) : later > t[i].at + Dur(t, i, Len(t))
               /\ \A j \in 1 .. Len(t) : \A i \in 1 .. j - 1 :
                     t[j].at > t[i].at + Dur(t, i, j - 1)
<1> DEFINE t == Append(s, e)
           n == Len(s)
           x == Len(e.payload)
<1>1. IsList(s)
  BY DEF HasDurations
<1>2. Len(t) = n + 1
  BY <1>1, ListAppends
<1>3. \A k \in 1 .. n : t[k] = s[k]
  BY <1>1, ListAppends
<1>4. t[n + 1] = e
  BY <1>1, ListAppends
<1>5. n \in Nat
  BY <1>1, ListType
<1>6. \A i \in 1 .. n : Dur(t, i, n + 1) = Dur(s, i, n) + x
  BY <1>5, DurGrows
<1>7. \A j \in 1 .. n : \A i \in 1 .. j - 1 : Dur(t, i, j - 1) = Dur(s, i, j - 1)
  <2> SUFFICES ASSUME NEW j \in 1 .. n, NEW i \in 1 .. j - 1
               PROVE  Dur(t, i, j - 1) = Dur(s, i, j - 1)
    OBVIOUS
  <2>1. i \in Nat /\ j - 1 \in Nat /\ i <= j - 1 /\ j - 1 <= Len(s)
    BY <1>5
  <2> QED BY <2>1, DurStays
<1>8. \A i \in 1 .. n : Dur(t, i, n) = Dur(s, i, n) /\ Dur(s, i, n) \in Nat
  <2> SUFFICES ASSUME NEW i \in 1 .. n
               PROVE  Dur(t, i, n) = Dur(s, i, n) /\ Dur(s, i, n) \in Nat
    OBVIOUS
  <2>1. i \in Nat /\ n \in Nat /\ i <= n /\ n <= Len(s)
    BY <1>5
  <2> QED BY <2>1, DurStays, DurType, SMTT(30)
<1>9. Dur(t, n + 1, n + 1) = 0
  <2>1. HasDurations(t)
    BY DurationsGrow
  <2>2. n + 1 \in Nat /\ n + 1 <= Len(t)
    BY <1>2, <1>5
  <2> QED BY <2>1, <2>2, DurOfNone
<1>10. x \in Nat /\ x > 0 /\ later >= deadline + x
  OBVIOUS
<1>11. \A i \in 1 .. n : s[i].at \in Nat /\ deadline > s[i].at + Dur(s, i, n)
  OBVIOUS
<1>12. \A j \in 1 .. n : \A i \in 1 .. j - 1 : s[j].at > s[i].at + Dur(s, i, j - 1)
  OBVIOUS
<1> HIDE DEF t, n, x
<1>13. ASSUME NEW i \in 1 .. n + 1 PROVE t[i].at \in Nat
  <2>1. CASE i = n + 1
    BY <1>4, <2>1
  <2>2. CASE i # n + 1
    <3>1. i \in 1 .. n
      BY <1>5, <2>2
    <3> QED BY <1>3, <1>11, <3>1
  <2> QED BY <2>1, <2>2
<1>14. ASSUME NEW i \in 1 .. n + 1 PROVE later > t[i].at + Dur(t, i, n + 1)
  <2>1. CASE i = n + 1
    BY <1>4, <1>9, <2>1
  <2>2. CASE i # n + 1
    <3>1. i \in 1 .. n
      BY <1>5, <2>2
    <3>2. Dur(t, i, n + 1) = Dur(s, i, n) + x /\ Dur(s, i, n) \in Nat
      BY <1>6, <1>8, <3>1
    <3>3. t[i].at = s[i].at /\ s[i].at \in Nat /\ deadline > s[i].at + Dur(s, i, n)
      BY <1>3, <1>11, <3>1
    <3> DEFINE at == s[i].at
               d == Dur(s, i, n)
    <3>4. at \in Nat /\ d \in Nat /\ deadline > at + d
      BY <3>2, <3>3
    <3> HIDE DEF at, d
    <3>5. later > at + (d + x)
      BY <1>10, <3>4
    <3> QED BY <3>2, <3>3, <3>5 DEF at, d
  <2> QED BY <2>1, <2>2
<1>15. ASSUME NEW j \in 1 .. n + 1, NEW i \in 1 .. j - 1
       PROVE  t[j].at > t[i].at + Dur(t, i, j - 1)
  <2>1. CASE j = n + 1
    <3>1. i \in 1 .. n /\ j - 1 = n
      BY <1>5, <2>1
    <3>2. t[i].at = s[i].at /\ t[j].at = e.at
      BY <1>3, <1>4, <2>1, <3>1
    <3>3. Dur(t, i, j - 1) = Dur(s, i, n) /\ Dur(s, i, n) \in Nat
      BY <1>8, <3>1
    <3> DEFINE at == s[i].at
               d == Dur(s, i, n)
               now1 == e.at
    <3>4. at \in Nat /\ d \in Nat /\ deadline > at + d /\ now1 \in Nat /\ now1 >= deadline
      BY <1>11, <3>1, <3>3
    <3> HIDE DEF at, d, now1
    <3>5. now1 > at + d
      BY <3>4
    <3> QED BY <3>2, <3>3, <3>5 DEF at, d, now1
  <2>2. CASE j # n + 1
    <3>1. j \in 1 .. n /\ i \in 1 .. n
      BY <1>5, <2>2
    <3>2. t[i] = s[i] /\ t[j] = s[j]
      BY <1>3, <3>1
    <3> QED BY <1>7, <1>12, <3>1, <3>2
  <2> QED BY <2>1, <2>2
<1> QED BY <1>2, <1>13, <1>14, <1>15 DEF t
----------------------------------------------------------------------------
(* The head of one sequence moves to the end of another.                   *)
LEMMA HeadMoves ==
    ASSUME NEW s, IsList(s), NEW t, IsList(t), t # <<>>, NEW e, Alike(Head(t), e)
    PROVE  LET a == s \o t
               b == Append(s, e) \o Tail(t)
           IN  IsList(b) /\ Len(b) = Len(a) /\ \A k \in 1 .. Len(b) : Alike(a[k], b[k])
<1> DEFINE a == s \o t
           l == Append(s, e)
           u == Tail(t)
           b == l \o u
           n == Len(s)
           m == Len(u)
<1>1. n \in Nat
  BY ListType
<1>2. IsList(l) /\ Len(l) = n + 1 /\ l[n + 1] = e
  BY ListAppends
<1>3. \A k \in 1 .. n : l[k] = s[k]
  BY ListAppends
<1>4. IsList(u) /\ Len(t) = m + 1 /\ Head(t) = t[1]
  BY ListTail
<1>5. \A k \in 1 .. m : u[k] = t[k + 1]
  BY ListTail
<1>6. m \in Nat
  BY <1>4, ListType
<1> HIDE DEF l, u
<1>7. Len(a) = n + Len(t)
  BY ListsJoin
<1>8. \A k \in 1 .. n : a[k] = s[k]
  BY ListsJoin
<1>9. \A k \in 1 .. Len(t) : a[n + k] = t[k]
  BY ListsJoin
<1>10. IsList(b) /\ Len(b) = Len(l) + m
  BY <1>2, <1>4, ListsJoin
<1>11. \A k \in 1 .. Len(l) : b[k] = l[k]
  BY <1>2, <1>4, ListsJoin
<1>12. \A k \in 1 .. m : b[Len(l) + k] = u[k]
  BY <1>2, <1>4, ListsJoin
<1> HIDE DEF a, b, n, m
<1>13. Len(b) = n + (m + 1) /\ Len(b) = Len(a)
  BY <1>1, <1>2, <1>4, <1>6, <1>7, <1>10
<1>14. ASSUME NEW k \in 1 .. Len(b) PROVE Alike(a[k], b[k])
  <2>1. CASE k \in 1 .. n
    <3>1. k \in 1 .. Len(l)
      BY <1>1, <1>2, <2>1
    <3>2. a[k] = b[k]
      BY <1>3, <1>8, <1>11, <2>1, <3>1
    <3> QED BY <3>2 DEF Alike
  <2>2. CASE k = n + 1
    <3>1. 1 \in 1 .. Len(t) /\ k \in 1 .. Len(l)
      BY <1>1, <1>2, <1>4, <1>6, <2>2
    <3>2. a[k] = t[1] /\ b[k] = e
      BY <1>2, <1>9, <1>11, <2>2, <3>1
    <3> QED BY <1>4, <3>2
  <2>3. CASE k > n + 1
    <3> DEFINE j == k - (n + 1)
    <3>1. j \in 1 .. m /\ k = (n + 1) + j /\ k = n + (j + 1) /\ j + 1 \in 1 .. Len(t)
      BY <1>1, <1>4, <1>6, <1>13, <2>3
    <3> HIDE DEF j
    <3>2. b[k] = u[j] /\ a[k] = t[j + 1]
      BY <1>2, <1>9, <1>12, <3>1
    <3>3. a[k] = b[k]
      BY <1>5, <3>1, <3>2
    <3> QED BY <3>3 DEF Alike
  <2> QED BY <1>1, <1>13, <2>1, <2>2, <2>3
<1> QED BY <1>10, <1>13, <1>14 DEF a, b, l, u

(* What a tick leaves of the packets and their numbers.                    *)
LEMMA TickNumbers ==
    ASSUME NEW w, NEW r, NEW o, OutTypeOK(o), Numbered(w, o, r), NEW q,
           q.seq = o.seq, q.stamp = o.stamp, q.overflowed = o.overflowed,
           IsList(Outgoing(q)), Len(Outgoing(q)) = Len(Outgoing(o)),
           \A k \in 1 .. Len(Outgoing(q)) : Alike(Outgoing(o)[k], Outgoing(q)[k])
    PROVE  Numbered(w, q, r)
<1> DEFINE a == Outgoing(o)
           b == Outgoing(q)
<1>1. Numbers(w, a, r, o.overflowed)
  BY DEF Numbered
<1>2. /\ Len(a) \in Nat /\ Len(b) = Len(a)
      /\ b = <<>> <=> Len(b) = 0
      /\ a = <<>> <=> Len(a) = 0
  BY <1>1, ListType DEF Numbers
<1>3. \A k \in 1 .. Len(b) : Alike(a[k], b[k])
  OBVIOUS
<1>4. IsList(b)
  OBVIOUS
<1> HIDE DEF a, b
<1>5. Numbers(w, b, r, q.overflowed)
  <2>1. Len(b) <= Len(a)
    BY <1>2
  <2> QED BY <1>1, <1>3, <1>4, <2>1, NumbersAlike
<1>6. ASSUME open, b # <<>>
      PROVE  remote /\ NumbersAfter(w, Newest(q), q.seq, q.stamp, q.overflowed, r)
  <2>1. a # <<>> /\ Len(b) \in 1 .. Len(b)
    BY <1>2, <1>6
  <2>2. remote /\ NumbersAfter(w, Newest(o), o.seq, o.stamp, o.overflowed, r)
    BY <1>6, <2>1 DEF Numbered, a
  <2>3. Alike(Newest(o), Newest(q))
    <3>1. Alike(a[Len(b)], b[Len(b)])
      BY <1>3, <2>1
    <3> QED BY <1>2, <3>1 DEF Newest, a, b
  <2>4. FrameOf(Newest(q)) = FrameOf(Newest(o))
    BY <2>3 DEF Alike, FrameOf
  <2>5. /\ SeqAt(Newest(q), r + 1) = SeqAt(Newest(o), r + 1)
        /\ StampAt(w, Newest(q), r + 1) = StampAt(w, Newest(o), r + 1)
    BY <2>3, AlikeNumbers
  <2> QED BY <2>2, <2>4, <2>5 DEF NumbersAfter
<1> QED BY <1>5, <1>6 DEF Numbered, b

(* The next deadline lies ahead by the packet that went out.               *)
LEMMA NextDeadline ==
    ASSUME NEW time \in Nat, NEW deadline \in Nat, time >= deadline,
           NEW duration \in Nat, duration > 0
    PROVE  LET later == (IF time - deadline >= duration THEN time ELSE deadline) + duration
           IN  later \in Nat /\ later >= deadline + duration /\ later > time
OBVIOUS

(* Nothing is due, or nothing is waiting.                                  *)
LEMMA TickSendsNothing ==
    ASSUME AudioConstants, now \in Nat, NEW w, NEW r, NEW o, OutInv(w, o, r), paced, open,
           NEW q, DOMAIN q = Fields, q.seq = o.seq, q.stamp = o.stamp,
           q.overflowed = o.overflowed, q.queue = o.queue, q.sent = o.sent,
           q.deadline = o.deadline, o.deadline \in Nat,
           \/ q.timer \in Nat
           \/ q.timer = Unset /\ o.queue = <<>> /\ now >= o.deadline
    PROVE  OutInv(w, q, r)
<1>1. OutTypeOK(o) /\ Numbered(w, o, r) /\ Timed(o) /\ Paced(o)
  BY DEF OutInv
<1>2. Unset \notin Nat
  BY ConstantsType
<1>3. OutTypeOK(q)
  BY <1>1 DEF OutTypeOK
<1>4. Numbered(w, q, r)
  <2>1. Outgoing(q) = Outgoing(o)
    BY DEF Outgoing
  <2> QED BY <1>1, <2>1 DEF Numbered, Newest
<1>5. Timed(q)
  BY <1>2 DEF Timed
<1>6. Paced(q)
  BY <1>1 DEF Paced, DeadlineAhead, SentInPace
<1> QED BY <1>3, <1>4, <1>5, <1>6 DEF OutInv

(* What something was appended to is not empty.                            *)
LEMMA SomethingSent == ASSUME NEW s, IsList(s), NEW e PROVE Append(s, e) # <<>>
<1> DEFINE u == Append(s, e)
<1>1. IsList(u) /\ Len(u) = Len(s) + 1 /\ Len(s) \in Nat
  BY ListAppends, ListType
<1> HIDE DEF u
<1>2. Len(u) # 0
  BY <1>1
<1>3. u # <<>>
  BY <1>1, <1>2, ListType
<1> QED BY <1>3 DEF u

(* The oldest packet goes out.                                             *)
LEMMA TickSends ==
    ASSUME AudioConstants, now \in Nat, NEW w, IsWritten(w), NEW r \in Nat, r <= Len(w),
           NEW o, OutInv(w, o, r), paced, open, o.queue # <<>>, o.deadline \in Nat,
           now >= o.deadline, NEW e, e = Departing(Head(o.queue)), NEW later,
           later = (IF now - o.deadline >= Len(e.payload) THEN now ELSE o.deadline)
                   + Len(e.payload),
           NEW q, DOMAIN q = Fields, q.seq = o.seq, q.stamp = o.stamp,
           q.overflowed = o.overflowed, q.queue = Tail(o.queue), q.sent = Append(o.sent, e),
           q.deadline = later, q.timer = Max({now, later})
    PROVE  OutInv(w, q, r)
<1>1. OutTypeOK(o) /\ Numbered(w, o, r) /\ Timed(o) /\ Paced(o)
  BY DEF OutInv
<1>2. Unset \notin Nat /\ Delay \in Nat
  BY ConstantsType
<1> DEFINE s == o.sent
           t == o.queue
<1>3. IsList(s) /\ IsList(t) /\ t # <<>>
  BY <1>1 DEF OutTypeOK
<1>4. /\ e.payload = Head(t).payload /\ e.seq = Head(t).seq /\ e.stamp = Head(t).stamp
      /\ e.made = Head(t).made /\ e.at = now
  BY DEF Departing
<1>5. Alike(Head(t), e)
  BY <1>4 DEF Alike
<1>6. /\ \A k \in 1 .. Len(t) : Lasts(t[k])
      /\ HasDurations(s)
  BY <1>1, AllLast DEF Numbered
<1>7. Lasts(e) /\ Head(t) = t[1]
  <2>1. Head(t) = t[1] /\ Len(t) = Len(Tail(t)) + 1 /\ Len(Tail(t)) \in Nat
    BY <1>3, ListTail, ListType
  <2>2. 1 \in 1 .. Len(t)
    BY <2>1
  <2>3. Lasts(Head(t))
    BY <1>6, <2>1, <2>2
  <2> QED BY <1>4, <2>1, <2>3 DEF Lasts
<1>8. /\ s = <<>> => o.deadline >= Head(t).made + Delay
      /\ s # <<>> => s[1].at >= s[1].made + Delay
  BY <1>1, <1>3, <1>7 DEF Paced
<1>9. \A i \in 1 .. Len(s) : s[i].at \in Nat
  BY <1>1 DEF Paced
<1>10. \A i \in 1 .. Len(s) : o.deadline > s[i].at + Dur(s, i, Len(s))
  <2>1. ASSUME s # <<>> PROVE \A i \in 1 .. Len(s) : o.deadline > s[i].at + Dur(s, i, Len(s))
    BY <1>1, <2>1 DEF Paced, DeadlineAhead
  <2>2. ASSUME s = <<>> PROVE \A i \in 1 .. Len(s) : o.deadline > s[i].at + Dur(s, i, Len(s))
    BY <2>2, NoList
  <2> QED BY <2>1, <2>2
<1>11. \A j \in 1 .. Len(s) : \A i \in 1 .. j - 1 : s[j].at > s[i].at + Dur(s, i, j - 1)
  BY <1>1 DEF Paced, SentInPace
<1>12. later \in Nat /\ later >= o.deadline + Len(e.payload) /\ later > now
  <2> DEFINE d == o.deadline
             x == Len(e.payload)
  <2>1. d \in Nat /\ x \in Nat /\ x > 0 /\ now >= d
    BY <1>7 DEF Lasts
  <2>2. later = (IF now - d >= x THEN now ELSE d) + x
    OBVIOUS
  <2> HIDE DEF d, x
  <2>3. later \in Nat /\ later >= d + x /\ later > now
    BY <2>1, <2>2, NextDeadline
  <2> QED BY <2>3 DEF d, x
<1>13. q.timer \in Nat /\ q.deadline \in Nat
  BY <1>12, MaxOfTwo
<1>14. Numbered(w, q, r)
  <2>1. Outgoing(q) = Append(s, e) \o Tail(t) /\ Outgoing(o) = s \o t
    BY DEF Outgoing
  <2> HIDE DEF s, t
  <2>2. /\ IsList(Append(s, e) \o Tail(t)) /\ Len(Append(s, e) \o Tail(t)) = Len(s \o t)
        /\ \A k \in 1 .. Len(Append(s, e) \o Tail(t)) :
              Alike((s \o t)[k], (Append(s, e) \o Tail(t))[k])
    BY <1>3, <1>5, HeadMoves
  <2>3. /\ IsList(Outgoing(q)) /\ Len(Outgoing(q)) = Len(Outgoing(o))
        /\ \A k \in 1 .. Len(Outgoing(q)) : Alike(Outgoing(o)[k], Outgoing(q)[k])
    BY <2>1, <2>2
  <2> QED BY <1>1, <2>3, TickNumbers
<1>15. OutTypeOK(q)
  <2>1. IsList(Tail(t)) /\ Len(t) = Len(Tail(t)) + 1 /\ Len(Tail(t)) \in Nat
    BY <1>3, ListTail, ListType
  <2>2. Len(t) <= Limit /\ Limit \in Nat
    BY <1>1, ConstantsType DEF OutTypeOK
  <2>3. Len(Tail(t)) <= Limit
    BY <2>1, <2>2
  <2>4. IsList(Append(s, e))
    BY <1>3, ListAppends
  <2>5. o.seq \in 0 .. SeqNumbers - 1 /\ o.stamp \in 0 .. Timestamps - 1
    BY <1>1 DEF OutTypeOK
  <2> QED BY <1>13, <2>1, <2>3, <2>4, <2>5 DEF OutTypeOK
<1>16. Timed(q)
  BY <1>2, <1>13 DEF Timed
<1>17. Paced(q)
  <2> DEFINE u == Append(s, e)
  <2>1. /\ \A i \in 1 .. Len(u) : u[i].at \in Nat
        /\ \A i \in 1 .. Len(u) : later > u[i].at + Dur(u, i, Len(u))
        /\ \A j \in 1 .. Len(u) : \A i \in 1 .. j - 1 : u[j].at > u[i].at + Dur(u, i, j - 1)
    <3> HIDE DEF s
    <3>1. Len(e.payload) \in Nat /\ Len(e.payload) > 0 /\ e.at \in Nat
      BY <1>4, <1>7 DEF Lasts
    <3>2. e.at >= o.deadline /\ later > e.at
      BY <1>4, <1>12
    <3> QED BY <1>6, <1>9, <1>10, <1>11, <1>12, <3>1, <3>2, SentNextInPace
  <2>2. u # <<>> /\ u[1].at >= u[1].made + Delay
    <3>1. Len(u) = Len(s) + 1 /\ Len(s) \in Nat /\ IsList(u)
      BY <1>3, ListAppends, ListType
    <3>2. u # <<>>
      BY <1>3, SomethingSent
    <3>3. CASE s = <<>>
      <4>1. Len(s) = 0
        BY <3>3, NoList
      <4>2. u[1] = e
        <5>1. u[Len(s) + 1] = e
          BY <1>3, ListAppends
        <5> QED BY <4>1, <5>1
      <4>3. e.at >= e.made + Delay
        <5>1. e.made \in Nat
          BY <1>7 DEF Lasts
        <5>2. o.deadline >= e.made + Delay
          BY <1>4, <1>8, <3>3
        <5> QED BY <1>2, <1>4, <5>1, <5>2
      <4> QED BY <3>2, <4>2, <4>3
    <3>4. CASE s # <<>>
      <4>1. 1 \in 1 .. Len(s)
        BY <1>3, <3>1, <3>4, ListType
      <4>2. u[1] = s[1]
        BY <1>3, <4>1, ListAppends
      <4> QED BY <1>8, <3>2, <3>4, <4>2
    <3> QED BY <3>3, <3>4
  <2>3. q.sent = u
    OBVIOUS
  <2>4. q.deadline = later /\ later # Unset
    BY <1>2, <1>12
  <2> HIDE DEF u
  <2> QED BY <2>1, <2>2, <2>3, <2>4 DEF Paced, DeadlineAhead, SentInPace
<1> QED BY <1>14, <1>15, <1>16, <1>17 DEF OutInv

(* RtpPacer.tick keeps it all.                                             *)
LEMMA TickKeeps ==
    ASSUME AudioConstants, now \in Nat, NEW w, IsWritten(w), NEW r \in Nat, r <= Len(w),
           NEW o, OutInv(w, o, r), o.timer # Unset
    PROVE  OutInv(w, TickOf(o), r)
<1>1. OutTypeOK(o) /\ Timed(o)
  BY DEF OutInv
<1>2. paced /\ open /\ o.deadline \in Nat /\ DOMAIN o = Fields
  BY <1>1 DEF Timed, OutTypeOK
<1>3. Unset \notin Nat
  BY ConstantsType
<1> DEFINE q == TickOf(o)
<1>4. /\ DOMAIN q = Fields /\ q.seq = o.seq /\ q.stamp = o.stamp
      /\ q.overflowed = o.overflowed
  BY <1>2, <1>3, Ticked
<1>5. CASE now < o.deadline
  <2>1. /\ q.queue = o.queue /\ q.sent = o.sent /\ q.deadline = o.deadline
        /\ q.timer = Max({now, o.deadline})
    BY <1>2, <1>3, <1>5, Ticked
  <2>2. q.timer \in Nat
    BY <1>2, <2>1, MaxOfTwo
  <2> HIDE DEF q
  <2>3. OutInv(w, q, r)
    BY <1>2, <1>4, <2>1, <2>2, TickSendsNothing
  <2> QED BY <2>3 DEF q
<1>6. CASE now >= o.deadline /\ o.queue = <<>>
  <2>1. /\ q.queue = o.queue /\ q.sent = o.sent /\ q.deadline = o.deadline
        /\ q.timer = Unset
    BY <1>2, <1>3, <1>6, Ticked
  <2> HIDE DEF q
  <2>2. OutInv(w, q, r)
    BY <1>2, <1>4, <1>6, <2>1, TickSendsNothing
  <2> QED BY <2>2 DEF q
<1>7. CASE now >= o.deadline /\ o.queue # <<>>
  <2> DEFINE e == Departing(Head(o.queue))
             later == (IF now - o.deadline >= Len(e.payload) THEN now ELSE o.deadline)
                      + Len(e.payload)
  <2>1. e.payload = Head(o.queue).payload
    BY DEF Departing
  <2>2. /\ q.queue = Tail(o.queue) /\ q.sent = Append(o.sent, e) /\ q.deadline = later
        /\ q.timer = Max({now, q.deadline})
    <3> HIDE DEF q
    <3> QED BY <1>2, <1>3, <1>7, <2>1, Ticked DEF q
  <2>3. q.timer = Max({now, later})
    BY <2>2
  <2>4. e = Departing(Head(o.queue))
    OBVIOUS
  <2>5. later = (IF now - o.deadline >= Len(e.payload) THEN now ELSE o.deadline)
                + Len(e.payload)
    OBVIOUS
  <2> HIDE DEF q, e, later
  <2>6. OutInv(w, q, r)
    BY <1>2, <1>4, <1>7, <2>2, <2>3, <2>4, <2>5, TickSends
  <2> QED BY <2>6 DEF q
<1> QED BY <1>2, <1>5, <1>6, <1>7
----------------------------------------------------------------------------
(* r frames have been taken from the stream, and no other one is whole.    *)
Streaming(w, b, p, r) ==
    /\ IsWritten(w) /\ IsBytes(b) /\ IsBytes(p)
    /\ r <= Len(w) /\ IsStream(w, r, b \o p) /\ ~HasFrame(b)

(* The invariant: r frames have been taken, and what was made of them is   *)
(* right.                                                                  *)
AudioInv ==
    /\ now \in 0 .. MaxTime
    /\ \E r \in Nat : Streaming(written, stdoutBuffer, pipe, r) /\ OutInv(written, out, r)

(* Steps in which only the stream and the packets change.                  *)
LEMMA SameTimes ==
    ASSUME UNCHANGED <<paced, now, remote, open>>, NEW r, OutInv(written', out', r)
    PROVE  OutInv(written, out, r)'
BY DEF OutInv, Numbered, Timed, Paced, OutTypeOK, Numbers, NumbersAfter, Newest, Outgoing,
       DeadlineAhead, SentInPace

(* Concatenation is associative.                                           *)
LEMMA JoinsInOrder ==
    ASSUME NEW a, IsBytes(a), NEW b, IsBytes(b), NEW c, IsBytes(c)
    PROVE  a \o (b \o c) = (a \o b) \o c
<1>1. a \in Seq(Nat) /\ b \in Seq(Nat) /\ c \in Seq(Nat)
  BY DEF IsBytes
<1> QED BY <1>1, ConcatAssociative, SMTT(30)

(* Sizes of frames.                                                        *)
LEMMA SizesOfFrames == ASSUME AudioConstants, NEW size \in FrameSizes PROVE size \in Sizes
<1>1. size \in Nat /\ 0 < size
  BY DEF AudioConstants
<1> QED BY <1>1 DEF Sizes

(* Wherever the stream is cut, its pieces make up the stream.              *)
LEMMA ChunkJoins ==
    ASSUME NEW b, IsBytes(b), NEW p, IsBytes(p), NEW l \in Nat, l <= Len(p)
    PROVE  LET c == SubSeq(p, 1, l)
               d == SubSeq(p, l + 1, Len(p))
           IN  IsBytes(b \o c) /\ IsBytes(d) /\ (b \o c) \o d = b \o p
<1> DEFINE c == SubSeq(p, 1, l)
           d == SubSeq(p, l + 1, Len(p))
<1>1. b \in Seq(Nat) /\ p \in Seq(Nat) /\ Len(p) \in Nat
  BY DEF IsBytes
<1>2. IsBytes(d) /\ d \in Seq(Nat)
  BY Dropped DEF IsBytes
<1>3. c \in Seq(Nat)
  <2>1. \A i \in 1 .. l : p[i] \in Nat
    BY <1>1
  <2> QED BY <1>1, <2>1, SubSeqProperties
<1>4. c \o d = p
  <2>1. 1 \in 1 .. Len(p) + 1 /\ l \in 1 - 1 .. Len(p) /\ Len(p) \in l .. Len(p)
    BY <1>1
  <2>2. c \o d = SubSeq(p, 1, Len(p))
    BY <1>1, <2>1, ConcatAdjacentSubSeq
  <2> QED BY <1>1, <2>2, SubSeqFull
<1> HIDE DEF c, d
<1>5. IsBytes(c)
  BY <1>3 DEF IsBytes
<1>6. b \o (c \o d) = (b \o c) \o d
  <2>1. PICK x, y : x = c /\ y = d
    OBVIOUS
  <2>2. IsBytes(x) /\ IsBytes(y)
    BY <1>2, <1>5, <2>1
  <2>3. b \o (x \o y) = (b \o x) \o y
    BY <2>2, JoinsInOrder
  <2> QED BY <2>1, <2>3
<1>7. IsBytes(b \o c)
  BY <1>5, Joined
<1> QED BY <1>2, <1>4, <1>6, <1>7 DEF c, d

(* acceptProcessOutput keeps the invariant.                                *)
LEMMA ChunkKeeps ==
    ASSUME AudioConstants, AudioInv, NEW length \in 1 .. Len(pipe), Chunk(length)
    PROVE  AudioInv'
<1>1. PICK r \in Nat : Streaming(written, stdoutBuffer, pipe, r) /\ OutInv(written, out, r)
  BY DEF AudioInv
<1> DEFINE b == stdoutBuffer \o SubSeq(pipe, 1, length)
           p == SubSeq(pipe, length + 1, Len(pipe))
           parse == TakeFrames(b)
<1>2. /\ IsWritten(written) /\ IsBytes(stdoutBuffer) /\ IsBytes(pipe)
      /\ r <= Len(written) /\ IsStream(written, r, stdoutBuffer \o pipe)
  BY <1>1 DEF Streaming
<1>3. IsBytes(b) /\ IsBytes(p) /\ b \o p = stdoutBuffer \o pipe
  <2>1. length \in Nat /\ length <= Len(pipe)
    BY <1>2, BytesType
  <2> QED BY <1>2, <2>1, ChunkJoins
<1>4. /\ open /\ pipe' = p /\ stdoutBuffer' = parse.rest /\ out' = SendAll(out, parse.frames)
      /\ UNCHANGED <<paced, now, written, remote, open>>
  BY DEF Chunk
<1> HIDE DEF b, p
<1>5. PICK q \in Nat : /\ r + q <= Len(written)
                       /\ parse.frames = FramesBehind(written, r, q)
                       /\ IsBytes(parse.rest) /\ ~HasFrame(parse.rest)
                       /\ IsStream(written, r + q, parse.rest \o p)
  <2>1. IsStream(written, r, b \o p)
    BY <1>2, <1>3
  <2> QED BY <1>2, <1>3, <2>1, FramesTaken
<1> HIDE DEF parse
<1>6. now \in 0 .. MaxTime /\ now \in Nat
  BY DEF AudioInv
<1>7. OutInv(written, SendAll(out, FramesBehind(written, r, q)), r + q)
  BY <1>1, <1>2, <1>4, <1>5, <1>6, SendAllKeeps
<1>8. OutInv(written', out', r + q)
  BY <1>4, <1>5, <1>7
<1>9. OutInv(written, out, r + q)'
  BY <1>4, <1>8, SameTimes
<1>10. Streaming(written, stdoutBuffer, pipe, r + q)'
  BY <1>2, <1>3, <1>4, <1>5 DEF Streaming
<1>11. r + q \in Nat /\ (now \in 0 .. MaxTime)'
  BY <1>4, <1>6
<1> QED BY <1>9, <1>10, <1>11 DEF AudioInv

(* The modem writes a frame.                                               *)
LEMMA ModemWritesKeeps ==
    ASSUME AudioConstants, AudioInv, NEW size \in FrameSizes, ModemWrites(size)
    PROVE  AudioInv'
<1>1. PICK r \in Nat : Streaming(written, stdoutBuffer, pipe, r) /\ OutInv(written, out, r)
  BY DEF AudioInv
<1> DEFINE head == <<size \div 256, size % 256>>
           body == [i \in 1 .. size |-> Len(written) + 1]
<1>2. /\ IsWritten(written) /\ IsBytes(stdoutBuffer) /\ IsBytes(pipe)
      /\ r <= Len(written) /\ IsStream(written, r, stdoutBuffer \o pipe)
      /\ ~HasFrame(stdoutBuffer)
  BY <1>1 DEF Streaming
<1>3. size \in Sizes /\ size \in Nat
  <2>1. size \in Sizes
    BY SizesOfFrames
  <2> QED BY <2>1 DEF Sizes
<1>4. Len(written) \in Nat
  BY <1>2, WrittenType
<1>5. IsBytes(head) /\ IsBytes(body)
  <2>1. size \div 256 \in Nat /\ size % 256 \in Nat
    BY <1>3
  <2>2. head \in Seq(Nat)
    <3> DEFINE h == size \div 256
               l == size % 256
    <3>1. h \in Nat /\ l \in Nat
      BY <2>1
    <3> HIDE DEF h, l
    <3>2. <<h, l>> \in Seq(Nat)
      BY <3>1
    <3> QED BY <3>2 DEF h, l
  <2>3. body \in Seq(Nat)
    BY <1>3, <1>4
  <2> QED BY <2>2, <2>3 DEF IsBytes
<1>6. /\ written' = Append(written, size) /\ pipe' = pipe \o head \o body
      /\ UNCHANGED <<paced, now, stdoutBuffer, remote, open, out>>
  BY DEF ModemWrites
<1>7. IsStream(Append(written, size), r, (stdoutBuffer \o pipe) \o head \o body)
  BY <1>2, <1>3, StreamGrows
<1> HIDE DEF head, body
<1>8. IsBytes(pipe') /\ stdoutBuffer' \o pipe' = (stdoutBuffer \o pipe) \o head \o body
  <2>1. PICK b, p : b = stdoutBuffer /\ p = pipe
    OBVIOUS
  <2>2. PICK c, d : c = head /\ d = body
    OBVIOUS
  <2>3. IsBytes(b) /\ IsBytes(p) /\ IsBytes(c) /\ IsBytes(d)
    BY <1>2, <1>5, <2>1, <2>2
  <2>4. IsBytes(p \o c \o d)
    BY <2>3, Joined
  <2>6. b \o (p \o c) = (b \o p) \o c
    BY <2>3, JoinsInOrder
  <2>7. PICK pc : pc = p \o c
    OBVIOUS
  <2>8. b \o (pc \o d) = (b \o pc) \o d
    <3>1. IsBytes(pc)
      BY <2>3, <2>7, Joined
    <3> QED BY <2>3, <3>1, JoinsInOrder, SMTT(30)
  <2>5. stdoutBuffer' = b /\ pipe' = p \o c \o d
    BY <1>6, <2>1, <2>2
  <2> QED BY <2>1, <2>2, <2>4, <2>5, <2>6, <2>7, <2>8
<1>9. IsWritten(written') /\ Len(written') = Len(written) + 1
  <2>1. written \in Seq(Sizes)
    BY <1>2 DEF IsWritten
  <2>2. Append(written, size) \in Seq(Sizes) /\ Len(Append(written, size)) = Len(written) + 1
    BY <1>3, <2>1, AppendProperties
  <2> QED BY <1>6, <2>2 DEF IsWritten
<1>10. Streaming(written, stdoutBuffer, pipe, r)'
  <2>1. r <= Len(written')
    BY <1>2, <1>4, <1>9
  <2>2. IsStream(written', r, stdoutBuffer' \o pipe')
    BY <1>6, <1>7, <1>8
  <2>3. IsBytes(stdoutBuffer') /\ ~HasFrame(stdoutBuffer')
    BY <1>2, <1>6
  <2> QED BY <1>8, <1>9, <2>1, <2>2, <2>3 DEF Streaming
<1>11. OutTypeOK(out) /\ Numbered(written, out, r) /\ Timed(out) /\ (paced => Paced(out))
  BY <1>1 DEF OutInv
<1>12. Numbered(written', out, r)
  <2>1. Numbers(written, Outgoing(out), r, out.overflowed)
    BY <1>11 DEF Numbered
  <2>2. Numbers(written', Outgoing(out), r, out.overflowed)
    BY <1>2, <1>3, <1>6, <2>1, NumbersStay
  <2>3. ASSUME open, Outgoing(out) # <<>>
        PROVE  remote /\ NumbersAfter(written', Newest(out), out.seq, out.stamp,
                                      out.overflowed, r)
    <3>1. remote /\ NumbersAfter(written, Newest(out), out.seq, out.stamp, out.overflowed, r)
      BY <1>11, <2>3 DEF Numbered
    <3>2. Carries(written, Newest(out), r)
      BY <2>1, <2>3, NewestCarries
    <3>3. FrameOf(Newest(out)) \in 1 .. r
      BY <3>2 DEF Carries
    <3>4. FrameOf(Newest(out)) \in Nat /\ FrameOf(Newest(out)) >= 1
      BY <3>3
    <3>5. r + 1 \in Nat /\ r + 1 >= 1 /\ r + 1 <= Len(written) + 1
      BY <1>2, <1>4
    <3>6. StampAt(written', Newest(out), r + 1) = StampAt(written, Newest(out), r + 1)
      BY <1>2, <1>3, <1>6, <3>4, <3>5, StampStays
    <3> QED BY <3>1, <3>6 DEF NumbersAfter
  <2> QED BY <2>2, <2>3 DEF Numbered
<1>13. OutInv(written, out, r)'
  <2>1. OutInv(written', out', r)
    BY <1>6, <1>11, <1>12 DEF OutInv
  <2> QED BY <1>6, <2>1, SameTimes
<1>14. (now \in 0 .. MaxTime)'
  BY <1>6 DEF AudioInv
<1> QED BY <1>10, <1>13, <1>14 DEF AudioInv

(* Time passes.                                                            *)
LEMMA TimePassesKeeps == ASSUME AudioConstants, AudioInv, TimePasses PROVE AudioInv'
<1>1. PICK r \in Nat : Streaming(written, stdoutBuffer, pipe, r) /\ OutInv(written, out, r)
  BY DEF AudioInv
<1>2. /\ now < MaxTime /\ now' = now + 1
      /\ UNCHANGED <<paced, written, pipe, stdoutBuffer, remote, open, out>>
  BY DEF TimePasses
<1>3. MaxTime \in Nat /\ Unset \notin Nat
  BY ConstantsType
<1>4. now \in Nat /\ now' \in 0 .. MaxTime
  BY <1>2, <1>3 DEF AudioInv
<1>5. Streaming(written, stdoutBuffer, pipe, r)'
  BY <1>1, <1>2 DEF Streaming
<1>6. OutTypeOK(out) /\ Numbered(written, out, r) /\ Timed(out) /\ (paced => Paced(out))
  BY <1>1 DEF OutInv
<1>7. Timed(out)'
  <2>1. out.timer = Unset /\ out.deadline # Unset => now' >= out.deadline
    <3>1. out.deadline \in Nat \cup {Unset}
      BY <1>6 DEF OutTypeOK
    <3>2. out.timer = Unset /\ out.deadline # Unset => now >= out.deadline
      BY <1>6 DEF Timed
    <3> QED BY <1>2, <1>4, <3>1, <3>2
  <2> QED BY <1>2, <1>6, <2>1 DEF Timed
<1>8. OutTypeOK(out)' /\ Numbered(written, out, r)' /\ (paced => Paced(out))'
  BY <1>2, <1>6 DEF OutTypeOK, Numbered, Numbers, NumbersAfter, Newest, Outgoing, Paced,
                    DeadlineAhead, SentInPace
<1>9. OutInv(written, out, r)'
  BY <1>7, <1>8 DEF OutInv
<1> QED BY <1>4, <1>5, <1>9 DEF AudioInv

(* The first packet arrives.                                               *)
LEMMA RemoteKnownKeeps == ASSUME AudioConstants, AudioInv, RemoteKnown PROVE AudioInv'
<1>1. PICK r \in Nat : Streaming(written, stdoutBuffer, pipe, r) /\ OutInv(written, out, r)
  BY DEF AudioInv
<1>2. /\ remote' = TRUE
      /\ UNCHANGED <<paced, now, written, pipe, stdoutBuffer, open, out>>
  BY DEF RemoteKnown
<1>3. Streaming(written, stdoutBuffer, pipe, r)'
  BY <1>1, <1>2 DEF Streaming
<1>4. OutTypeOK(out) /\ Numbered(written, out, r) /\ Timed(out) /\ (paced => Paced(out))
  BY <1>1 DEF OutInv
<1>5. OutTypeOK(out)' /\ Timed(out)' /\ (paced => Paced(out))'
  BY <1>2, <1>4 DEF OutTypeOK, Timed, Paced, DeadlineAhead, SentInPace
<1>6. Numbered(written, out, r)'
  BY <1>2, <1>4 DEF Numbered, Numbers, NumbersAfter, Newest, Outgoing
<1>7. OutInv(written, out, r)'
  BY <1>5, <1>6 DEF OutInv
<1>8. (now \in 0 .. MaxTime)'
  BY <1>2 DEF AudioInv
<1> QED BY <1>3, <1>7, <1>8 DEF AudioInv

(* The timer fires.                                                        *)
LEMMA TickStepKeeps == ASSUME AudioConstants, AudioInv, Tick PROVE AudioInv'
<1>1. PICK r \in Nat : Streaming(written, stdoutBuffer, pipe, r) /\ OutInv(written, out, r)
  BY DEF AudioInv
<1>2. /\ out.timer # Unset /\ out' = TickOf(out)
      /\ UNCHANGED <<paced, now, written, pipe, stdoutBuffer, remote, open>>
  BY DEF Tick, TickOf
<1>3. IsWritten(written) /\ r <= Len(written)
  BY <1>1 DEF Streaming
<1>4. now \in 0 .. MaxTime /\ now \in Nat
  BY DEF AudioInv
<1>5. OutInv(written, TickOf(out), r)
  BY <1>1, <1>2, <1>3, <1>4, TickKeeps
<1>6. OutInv(written, out, r)'
  <2>1. OutInv(written', out', r)
    BY <1>2, <1>5
  <2> QED BY <1>2, <2>1, SameTimes
<1>7. Streaming(written, stdoutBuffer, pipe, r)'
  BY <1>1, <1>2 DEF Streaming
<1>8. (now \in 0 .. MaxTime)'
  BY <1>2, <1>4
<1> QED BY <1>6, <1>7, <1>8 DEF AudioInv

(* Nothing is left behind those sent.                                      *)
LEMMA QueueDropped ==
    ASSUME NEW s, IsList(s), NEW t, IsList(t)
    PROVE  /\ IsList(s \o <<>>) /\ Len(s \o <<>>) <= Len(s \o t)
           /\ \A k \in 1 .. Len(s \o <<>>) : Alike((s \o t)[k], (s \o <<>>)[k])
<1> DEFINE a == s \o t
           b == s \o <<>>
<1>1. IsList(<<>>) /\ Len(<<>>) = 0
  BY NoList
<1>2. Len(s) \in Nat /\ Len(t) \in Nat
  BY ListType
<1>3. Len(a) = Len(s) + Len(t)
  BY ListsJoin
<1>4. \A k \in 1 .. Len(s) : a[k] = s[k]
  BY ListsJoin
<1>5. IsList(b) /\ Len(b) = Len(s) + Len(<<>>)
  BY <1>1, ListsJoin
<1>6. \A k \in 1 .. Len(s) : b[k] = s[k]
  BY <1>1, ListsJoin
<1> HIDE DEF a, b
<1>7. Len(b) = Len(s) /\ Len(b) <= Len(a)
  BY <1>1, <1>2, <1>3, <1>5
<1>8. \A k \in 1 .. Len(b) : Alike(a[k], b[k])
  BY <1>4, <1>6, <1>7 DEF Alike
<1> QED BY <1>5, <1>7, <1>8 DEF a, b

(* Line.stop.                                                              *)
LEMMA StopLineKeeps == ASSUME AudioConstants, AudioInv, StopLine PROVE AudioInv'
<1>1. PICK r \in Nat : Streaming(written, stdoutBuffer, pipe, r) /\ OutInv(written, out, r)
  BY DEF AudioInv
<1>2. /\ open' = FALSE /\ out' = Reset(out)
      /\ UNCHANGED <<paced, now, written, pipe, stdoutBuffer, remote>>
  BY DEF StopLine
<1>3. OutTypeOK(out) /\ Numbered(written, out, r) /\ Timed(out) /\ (paced => Paced(out))
  BY <1>1 DEF OutInv
<1> DEFINE q == Reset(out)
<1>4. /\ DOMAIN q = Fields /\ q.seq = out.seq /\ q.stamp = out.stamp
      /\ q.overflowed = out.overflowed /\ q.sent = out.sent
      /\ q.queue = <<>> /\ q.deadline = Unset /\ q.timer = Unset
  BY <1>3 DEF Reset, OutTypeOK, Fields
<1> HIDE DEF q
<1>5. OutTypeOK(q)
  <2>1. Len(<<>>) <= Limit /\ IsList(<<>>)
    BY NoList, ConstantsType
  <2> QED BY <1>3, <1>4, <2>1 DEF OutTypeOK
<1>6. Numbers(written, Outgoing(q), r, q.overflowed)
  <2> PICK s, t : s = out.sent /\ t = out.queue
    OBVIOUS
  <2>1. IsList(s) /\ IsList(t)
    BY <1>3 DEF OutTypeOK
  <2>2. Outgoing(q) = s \o <<>> /\ Outgoing(out) = s \o t
    BY <1>4 DEF Outgoing
  <2>3. Numbers(written, s \o t, r, q.overflowed)
    BY <1>3, <1>4, <2>2 DEF Numbered
  <2>4. /\ IsList(s \o <<>>) /\ Len(s \o <<>>) <= Len(s \o t)
        /\ \A k \in 1 .. Len(s \o <<>>) : Alike((s \o t)[k], (s \o <<>>)[k])
    BY <2>1, QueueDropped
  <2>5. Numbers(written, s \o <<>>, r, q.overflowed)
    BY <2>3, <2>4, NumbersAlike
  <2> QED BY <2>2, <2>5
<1>7. Numbered(written, out, r)'
  <2>1. (Numbers(written, Outgoing(out), r, out.overflowed))'
    BY <1>2, <1>6 DEF Outgoing, Numbers, q
  <2> QED BY <1>2, <2>1 DEF Numbered
<1>8. Timed(out)'
  BY <1>2, <1>4 DEF Timed, q
<1>9. (paced => Paced(out))'
  <2>1. ASSUME paced PROVE Paced(out)'
    <3>1. Paced(out)
      BY <1>3, <2>1
    <3>2. out'.sent = out.sent /\ out'.queue = <<>> /\ out'.deadline = Unset /\ ~open'
      BY <1>2, <1>4 DEF q
    <3> QED BY <3>1, <3>2 DEF Paced, DeadlineAhead, SentInPace
  <2> QED BY <1>2, <2>1
<1>10. OutInv(written, out, r)'
  <2>1. OutTypeOK(out)'
    BY <1>2, <1>5 DEF OutTypeOK, q
  <2> QED BY <1>7, <1>8, <1>9, <2>1 DEF OutInv
<1>11. Streaming(written, stdoutBuffer, pipe, r)' /\ (now \in 0 .. MaxTime)'
  BY <1>1, <1>2 DEF Streaming, AudioInv
<1> QED BY <1>10, <1>11 DEF AudioInv

(* Nothing happens.                                                        *)
LEMMA AudioStutters == ASSUME AudioInv, UNCHANGED audio PROVE AudioInv'
<1>1. PICK r \in Nat : Streaming(written, stdoutBuffer, pipe, r) /\ OutInv(written, out, r)
  BY DEF AudioInv
<1>2. UNCHANGED <<paced, now, written, pipe, stdoutBuffer, remote, open, out>>
  BY DEF audio
<1>3. OutInv(written, out, r)'
  <2>1. OutInv(written', out', r)
    BY <1>1, <1>2
  <2> QED BY <1>2, <2>1, SameTimes
<1>4. Streaming(written, stdoutBuffer, pipe, r)' /\ (now \in 0 .. MaxTime)'
  BY <1>1, <1>2 DEF Streaming, AudioInv
<1> QED BY <1>3, <1>4 DEF AudioInv

(* The invariant holds at first.                                           *)
LEMMA AudioBegins == ASSUME AudioConstants, AudioInit PROVE AudioInv
<1>1. /\ now = 0 /\ written = <<>> /\ pipe = <<>> /\ stdoutBuffer = <<>>
      /\ out = [seq |-> 0, stamp |-> 0, queue |-> <<>>, timer |-> Unset, deadline |-> Unset,
                overflowed |-> FALSE, sent |-> <<>>]
  BY DEF AudioInit
<1>2. /\ DOMAIN out = Fields /\ out.seq = 0 /\ out.stamp = 0 /\ out.queue = <<>>
      /\ out.timer = Unset /\ out.deadline = Unset /\ out.overflowed = FALSE /\ out.sent = <<>>
  BY <1>1 DEF Fields
<1>3. IsList(<<>>) /\ Len(<<>>) = 0
  BY NoList
<1>4. Streaming(written, stdoutBuffer, pipe, 0)
  <2>1. IsWritten(<<>>) /\ IsBytes(<<>>)
    BY DEF IsWritten, IsBytes
  <2>2. <<>> \o <<>> \in Seq(Nat) /\ Len(<<>> \o <<>>) = 0
    BY <1>3, <2>1, Concat DEF IsBytes
  <2>3. IsStream(<<>>, 0, <<>> \o <<>>)
    <3>1. End(<<>>, 0) \in Nat
      BY <1>3, <2>1, EndType
    <3> PICK s, n : s = <<>> \o <<>> /\ n = End(<<>>, 0)
      OBVIOUS
    <3>2. s \in Seq(Nat) /\ Len(s) = 0 /\ n - n = 0
      BY <2>2, <3>1
    <3>3. \A m \in 0 + 1 .. 0 : FALSE
      OBVIOUS
    <3> QED BY <1>3, <2>2, <3>2, <3>3 DEF IsStream
  <2>4. ~HasFrame(<<>>)
    BY <1>3 DEF HasFrame
  <2> QED BY <1>1, <1>3, <2>1, <2>3, <2>4 DEF Streaming
<1>5. OutTypeOK(out)
  BY <1>2, <1>3, ConstantsType DEF OutTypeOK
<1>6. Outgoing(out) = <<>>
  <2>1. Len(<<>> \o <<>>) = 0 + 0 /\ IsList(<<>> \o <<>>)
    BY <1>3, ListsJoin
  <2>2. <<>> \o <<>> = <<>>
    BY <2>1, ListType
  <2> QED BY <1>2, <2>2 DEF Outgoing
<1>7. Numbered(written, out, 0)
  <2>1. \A k \in 1 .. 0 : FALSE
    OBVIOUS
  <2>2. \A k \in 1 .. 0 - 1 : FALSE
    OBVIOUS
  <2> QED BY <1>3, <1>6, <2>1, <2>2 DEF Numbered, Numbers
<1>8. Timed(out)
  BY <1>2 DEF Timed
<1>9. Paced(out)
  <2>1. \A k \in 1 .. Len(out.sent) : FALSE
    BY <1>2, <1>3
  <2> QED BY <1>2, <2>1 DEF Paced, SentInPace
<1>10. OutInv(written, out, 0)
  BY <1>5, <1>7, <1>8, <1>9 DEF OutInv
<1>11. now \in 0 .. MaxTime /\ 0 \in Nat
  BY <1>1, ConstantsType
<1> QED BY <1>4, <1>10, <1>11 DEF AudioInv

(* Every step keeps the invariant.                                         *)
LEMMA AudioSteps == ASSUME AudioConstants, AudioInv, [AudioNext]_audio PROVE AudioInv'
<1>1. CASE TimePasses
  BY <1>1, TimePassesKeeps
<1>2. CASE \E size \in FrameSizes : ModemWrites(size)
  BY <1>2, ModemWritesKeeps
<1>3. CASE RemoteKnown
  BY <1>3, RemoteKnownKeeps
<1>4. CASE \E length \in 1 .. Len(pipe) : Chunk(length)
  BY <1>4, ChunkKeeps
<1>5. CASE Tick
  BY <1>5, TickStepKeeps
<1>6. CASE StopLine
  BY <1>6, StopLineKeeps
<1>7. CASE UNCHANGED audio
  BY <1>7, AudioStutters
<1> QED BY <1>1, <1>2, <1>3, <1>4, <1>5, <1>6, <1>7 DEF AudioNext
----------------------------------------------------------------------------
(* The end of a frame, as AudioOut counts it.                              *)
LEMMA EndTwice ==
    ASSUME NEW w, IsWritten(w), NEW n \in Nat, n <= Len(w)
    PROVE  Span(w, 1, n) + 2 * n = End(w, n)
<1>1. w \in Seq(Nat) /\ Len(w) \in Nat
  BY WrittenType
<1>2. 1 \in 1 .. Len(w) + 1 /\ n \in 1 - 1 .. Len(w)
  BY <1>1
<1>3. Span(w, 1, n) \in Nat
  BY <1>1, <1>2, SpanType
<1>4. \A x \in Nat : x + 2 * n = x + n + n
  OBVIOUS
<1> QED BY <1>3, <1>4 DEF End

(* Bytes that do not reach the end of a frame.                             *)
LEMMA NotYetThere ==
    ASSUME NEW e \in Nat, NEW f \in Nat, NEW l \in Nat, NEW x \in Nat,
           f >= e + 2 + x, l < 2 + x
    PROVE  ~(f <= e + l)
OBVIOUS

(* The frames whose last byte has been read are the first r.               *)
LEMMA FramesReadAre ==
    ASSUME NEW w, NEW b, NEW p, NEW r \in Nat, Streaming(w, b, p, r),
           NEW all, all = Span(w, 1, Len(w)) + 2 * Len(w), NEW bytes, bytes = all - Len(p)
    PROVE  Cardinality({n \in DOMAIN w : Span(w, 1, n) + 2 * n <= bytes}) = r
<1>1. /\ IsWritten(w) /\ IsBytes(b) /\ IsBytes(p)
      /\ r <= Len(w) /\ IsStream(w, r, b \o p) /\ ~HasFrame(b)
  BY DEF Streaming
<1>2. Len(w) \in Nat /\ DOMAIN w = 1 .. Len(w) /\ Len(b) \in Nat /\ Len(p) \in Nat
  BY <1>1, WrittenType, BytesType
<1>3. End(w, r) \in Nat /\ End(w, Len(w)) \in Nat
  BY <1>1, <1>2, EndType
<1>4. bytes = End(w, r) + Len(b)
  <2>1. bytes = End(w, Len(w)) - Len(p)
    <3>1. Len(w) <= Len(w)
      BY <1>2
    <3>2. Span(w, 1, Len(w)) + 2 * Len(w) = End(w, Len(w))
      BY <1>1, <1>2, <3>1, EndTwice
    <3>3. all = End(w, Len(w))
      BY <3>2
    <3> QED BY <3>3
  <2>2. Len(b \o p) = Len(b) + Len(p)
    BY <1>1, Joined
  <2>3. Len(b \o p) = End(w, Len(w)) - End(w, r)
    BY <1>1 DEF IsStream
  <2> QED BY <1>2, <1>3, <2>1, <2>2, <2>3
<1>5. ASSUME NEW n \in 1 .. Len(w)
      PROVE  Span(w, 1, n) + 2 * n <= bytes <=> n \in 1 .. r
  <2>1. n \in Nat /\ n <= Len(w) /\ n >= 1
    BY <1>2
  <2>2. Span(w, 1, n) + 2 * n = End(w, n)
    BY <1>1, <2>1, EndTwice
  <2>3. CASE n <= r
    <3>1. End(w, r) >= End(w, n) /\ End(w, n) \in Nat
      BY <1>1, <2>1, <2>3, EndGrows
    <3> QED BY <1>2, <1>3, <1>4, <2>1, <2>2, <2>3, <3>1
  <2>4. CASE n > r
    <3>1. r < Len(w) /\ r + 1 \in Nat /\ r + 1 <= n
      BY <1>2, <2>1, <2>4
    <3>2. End(w, n) >= End(w, r + 1) /\ End(w, n) \in Nat
      BY <1>1, <2>1, <3>1, EndGrows
    <3>3. End(w, r + 1) = End(w, r) + 2 + w[r + 1] /\ w[r + 1] \in Nat
      BY <1>1, <3>1, EndNext
    <3>4. Len(b) < 2 + w[r + 1]
      BY <1>1, <3>1, NoFrameYet
    <3> PICK e, f, l, x : e = End(w, r) /\ f = End(w, n) /\ l = Len(b) /\ x = w[r + 1]
      OBVIOUS
    <3>5. e \in Nat /\ f \in Nat /\ l \in Nat /\ x \in Nat /\ f >= e + 2 + x /\ l < 2 + x
      BY <1>2, <1>3, <3>2, <3>3, <3>4
    <3>6. ~(f <= e + l)
      BY <3>5, NotYetThere
    <3>7. ~(n \in 1 .. r)
      BY <2>1, <2>4
    <3> QED BY <1>4, <2>2, <3>6, <3>7
  <2> QED BY <2>1, <2>3, <2>4
<1>6. {n \in DOMAIN w : Span(w, 1, n) + 2 * n <= bytes} = 1 .. r
  <2>1. \A n \in 1 .. r : n \in 1 .. Len(w)
    BY <1>1, <1>2
  <2> QED BY <1>2, <1>5, <2>1
<1>7. Cardinality(1 .. r) = r
  <2>1. Cardinality(1 .. r) = IF 1 > r THEN 0 ELSE r - 1 + 1
    BY FS_Interval
  <2> QED BY <2>1
<1> QED BY <1>6, <1>7, Zenon

(* What AudioArrives says of the packets.                                  *)
LEMMA FramesCarried ==
    ASSUME AudioConstants, NEW r \in Nat, Streaming(written, stdoutBuffer, pipe, r),
           OutInv(written, out, r)
    PROVE  FramesAreWhole
<1>1. Ahead = Outgoing(out)
  BY DEF Ahead, Outgoing
<1>2. Numbered(written, out, r) /\ Numbers(written, Ahead, r, out.overflowed)
  BY <1>1 DEF OutInv, Numbered
<1>3. DOMAIN Ahead = 1 .. Len(Ahead)
  BY <1>2, ListType DEF Numbers
<1>4. \A k \in DOMAIN Ahead : Ahead[k].payload = Content(FrameOf(Ahead[k]))
  BY <1>2, <1>3 DEF Numbers, Carries, Content, ContentOf
<1>5. ASSUME NEW k \in 1 .. Len(Ahead) - 1
      PROVE  LET m == FrameOf(Ahead[k])
                 n == FrameOf(Ahead[k + 1])
             IN  /\ m < n
                 /\ Ahead[k + 1].seq = (Ahead[k].seq + n - m) % SeqNumbers
                 /\ Ahead[k + 1].stamp = (Ahead[k].stamp + SamplesOf(m, n - 1)) % Timestamps
                 /\ ~out.overflowed => n = m + 1
  <2>1. Follows(written, Ahead[k], Ahead[k + 1], out.overflowed)
    BY <1>2 DEF Numbers
  <2> QED BY <2>1 DEF Follows, SeqAt, StampAt, SamplesOf, Span
<1>6. ASSUME open, Ahead # <<>>, ~out.overflowed
      PROVE  FrameOf(Last(Ahead)) = FramesRead
  <2>1. FrameOf(Newest(out)) = r
    BY <1>1, <1>2, <1>6 DEF Numbered, NumbersAfter
  <2>2. Last(Ahead) = Newest(out)
    BY <1>1 DEF Last, Newest
  <2>3. FramesRead = r
    <3>1. \A m, n : SamplesOf(m, n) = Span(written, m, n)
      BY DEF SamplesOf, Span
    <3>2. PICK sum, l, p : /\ sum = Span(written, 1, Len(written))
                           /\ l = Len(written) /\ p = Len(pipe)
      OBVIOUS
    <3>3. sum \in Nat /\ l \in Nat /\ p \in Nat
      <4>1. written \in Seq(Nat) /\ l \in Nat /\ p \in Nat
        BY <3>2, WrittenType, BytesType DEF Streaming
      <4>2. 1 \in 1 .. l + 1 /\ l \in 1 - 1 .. l
        BY <4>1
      <4> QED BY <3>2, <4>1, <4>2, SpanType
    <3>4. BytesRead = (sum + 2 * l) - p
      <4>1. SamplesOf(1, l) = sum
        BY <3>1, <3>2
      <4>2. BytesRead = sum + ((2 * l) - p)
        BY <3>2, <4>1 DEF BytesRead
      <4> QED BY <3>3, <4>2
    <3>5. Cardinality({n \in DOMAIN written : Span(written, 1, n) + 2 * n <= BytesRead}) = r
      BY <3>2, <3>4, FramesReadAre
    <3> QED BY <3>1, <3>5 DEF FramesRead
  <2> QED BY <2>1, <2>2, <2>3
<1> HIDE DEF Ahead
<1> QED BY <1>4, <1>5, <1>6 DEF FramesAreWhole

(* The pace of the packets sent, as AudioOut states it.                    *)
LEMMA PaceKept ==
    ASSUME AudioConstants, NEW r, OutInv(written, out, r) PROVE NeverAhead
<1> SUFFICES ASSUME paced
             PROVE  /\ out.sent # <<>> => out.sent[1].at >= out.sent[1].made + Delay
                    /\ \A j \in DOMAIN out.sent : \A i \in 1 .. j - 1 :
                          out.sent[j].at >
                            out.sent[i].at + DurationOf(SubSeq(out.sent, i + 1, j - 1))
  BY DEF NeverAhead
<1>1. Paced(out) /\ IsList(out.sent)
  BY DEF OutInv, OutTypeOK
<1>2. DOMAIN out.sent = 1 .. Len(out.sent)
  BY <1>1, ListType
<1>3. out.sent # <<>> => out.sent[1].at >= out.sent[1].made + Delay
  BY <1>1 DEF Paced
<1>4. \A j \in 1 .. Len(out.sent) : \A i \in 1 .. j - 1 :
         out.sent[j].at > out.sent[i].at + Dur(out.sent, i, j - 1)
  BY <1>1 DEF Paced, SentInPace
<1> QED BY <1>2, <1>3, <1>4 DEF Dur

(* The invariant implies what the run checks.                              *)
LEMMA ArrivesByInv == ASSUME AudioConstants, AudioInv PROVE AudioArrives
<1>1. PICK r \in Nat : Streaming(written, stdoutBuffer, pipe, r) /\ OutInv(written, out, r)
  BY DEF AudioInv
<1>2. AudioTypeOK
  BY <1>1 DEF AudioInv, OutInv, OutTypeOK, AudioTypeOK
<1>3. FramesAreWhole
  BY <1>1, FramesCarried
<1>4. NeverAhead
  BY <1>1, PaceKept
<1>5. NothingIsStuck
  BY <1>1 DEF OutInv, Timed, NothingIsStuck
<1> QED BY <1>2, <1>3, <1>4, <1>5 DEF AudioArrives

(* The frames a modem program writes reach the network whole and in order, *)
(* wherever acceptProcessOutput finds the stream cut; their numbers tell   *)
(* the order and the clock, past a range's end and past a refused packet   *)
(* too; RtpPacer never gets ahead of the sender's clock; what waits has a  *)
(* timer, and nothing is sent after Line.stop. For every size of frames,   *)
(* any delay, limit and range, and timers that fire as early or late as    *)
(* they like.                                                              *)
THEOREM AudioAlwaysArrives == ASSUME AudioConstants PROVE AudioSpec => []AudioArrives
<1>1. AudioInit => AudioInv
  BY AudioBegins
<1>2. AudioInv /\ [AudioNext]_audio => AudioInv'
  BY AudioSteps
<1>3. AudioInv => AudioArrives
  BY ArrivesByInv
<1> QED BY <1>1, <1>2, <1>3, PTL DEF AudioSpec
----------------------------------------------------------------------------
(* Captures.                                                               *)
(* A frame: the parsers of the tools.                                      *)
(* The fields of a frame.                                                  *)
LEMMA FieldTypes ==
    ASSUME NEW f, IsFrame(f)
    PROVE  /\ f.link \in {1, 113, 276} /\ f.vlan \in BOOLEAN /\ f.ipv4 \in BOOLEAN
           /\ f.version \in Nat /\ f.ihl \in Nat /\ f.protocol \in Nat
           /\ f.fragment \in BOOLEAN /\ f.total \in Nat /\ f.udpLength \in Nat
           /\ f.rtpVersion \in Nat /\ f.type \in Nat /\ f.sources \in Nat
           /\ f.extension \in BOOLEAN /\ f.extensionWords \in Nat
           /\ f.padding \in BOOLEAN /\ f.padLength \in Nat /\ f.captured \in Nat
BY DEF IsFrame, FieldValues

(* A range is its two ends, and not nothing.                               *)
LEMMA Ranges ==
    ASSUME FrameConstants, NEW a \in Nat, NEW b \in Nat
    PROVE  <<a, b>> # Nothing /\ <<a, b>>[1] = a /\ <<a, b>>[2] = b
BY DEF FrameConstants

(* The smaller of two numbers.                                             *)
LEMMA LesserIs ==
    ASSUME NEW a \in Nat, NEW b \in Nat
    PROVE  /\ Lesser(a, b) \in Nat /\ Lesser(a, b) <= a /\ Lesser(a, b) <= b
           /\ Lesser(a, b) = a \/ Lesser(a, b) = b
BY DEF Lesser
----------------------------------------------------------------------------
(* The frames a reader takes, where it looks for their datagrams, and how  *)
(* far it looks.                                                           *)
WavTakes(f, ip) ==
    /\ f.ipv4 /\ f.captured >= ip + 20 /\ f.version = 4 /\ f.ihl >= 5
    /\ f.captured >= ip + 4 * f.ihl + 8 /\ f.protocol = 17

WavEnd(f, ip) ==
    Lesser(ip + 4 * f.ihl + f.udpLength,
           IF f.total = 0 THEN f.captured ELSE Lesser(ip + f.total, f.captured))

AuditTakes(f, ip) ==
    /\ f.captured >= ip + 20 /\ f.ipv4 /\ (f.link = 1 => ~f.vlan)
    /\ f.version = 4 /\ f.ihl >= 5 /\ f.protocol = 17 /\ ~f.fragment
    /\ Lesser(ip + f.total, f.captured) >= ip + 4 * f.ihl + 20

AuditEnd(f, ip) ==
    Lesser(ip + 4 * f.ihl + f.udpLength, Lesser(ip + f.total, f.captured))

(* ipv4_offset.                                                            *)
LEMMA WavOffset ==
    ASSUME FrameConstants, NEW f, IsFrame(f)
    PROVE  /\ f.link = 276 => Ipv4Offset(f) = Nothing
           /\ f.link # 276 => /\ Ipv4Offset(f) \in Nat /\ Ipv4Offset(f) # Nothing
                              /\ f.link = 1 /\ ~f.vlan => Ipv4Offset(f) = AuditOffset(f)
                              /\ f.link = 113 => Ipv4Offset(f) = AuditOffset(f)
           /\ AuditOffset(f) \in Nat
<1>1. f.link \in {1, 113, 276} /\ f.vlan \in BOOLEAN
  BY FieldTypes
<1>2. f.link = 1 => Ipv4Offset(f) = (IF f.vlan THEN 18 ELSE 14) /\ AuditOffset(f) = 14
  BY DEF Ipv4Offset, EthernetOffset, AuditOffset
<1>3. f.link = 113 => Ipv4Offset(f) = 16 /\ AuditOffset(f) = 16
  BY DEF Ipv4Offset, AuditOffset
<1>4. f.link = 276 => Ipv4Offset(f) = Nothing /\ AuditOffset(f) = 20
  BY DEF Ipv4Offset, AuditOffset
<1>5. Nothing \notin Nat
  BY DEF FrameConstants
<1> QED BY <1>1, <1>2, <1>3, <1>4, <1>5

(* parse_udp_ipv4.                                                         *)
LEMMA UdpParsed ==
    ASSUME FrameConstants, NEW f, IsFrame(f)
    PROVE  LET ip == Ipv4Offset(f)
           IN  ParseUdp(f) = IF f.link # 276 /\ WavTakes(f, ip)
                             THEN <<ip + 4 * f.ihl + 8, WavEnd(f, ip)>> ELSE Nothing
<1> DEFINE ip == Ipv4Offset(f)
<1>1. CASE f.link = 276
  <2>1. ~HasIpv4(f)
    BY <1>1, WavOffset DEF HasIpv4
  <2> QED BY <1>1, <2>1 DEF ParseUdp
<1>2. CASE f.link # 276
  <2>1. ip \in Nat /\ ip # Nothing /\ f.captured \in Nat /\ f.ihl \in Nat
    BY <1>2, WavOffset, FieldTypes
  <2>2. HasIpv4(f) <=> f.ipv4 /\ f.captured >= ip
    BY <2>1 DEF HasIpv4
  <2>3. (HasIpv4(f) /\ f.captured >= ip + 20) <=> (f.ipv4 /\ f.captured >= ip + 20)
    BY <2>1, <2>2
  <2>4. EndOfIp(f) = IF f.total = 0 THEN f.captured ELSE Lesser(ip + f.total, f.captured)
    BY DEF EndOfIp
  <2> HIDE DEF ip
  <2>5. ParseUdp(f) = IF /\ HasIpv4(f) /\ f.captured >= ip + 20
                         /\ f.version = 4 /\ f.ihl >= 5 /\ f.captured >= ip + 4 * f.ihl + 8
                         /\ f.protocol = 17
                      THEN <<ip + 4 * f.ihl + 8,
                             Lesser(ip + 4 * f.ihl + f.udpLength, EndOfIp(f))>>
                      ELSE Nothing
    BY DEF ParseUdp, Ihl, ip
  <2> QED BY <1>2, <2>3, <2>4, <2>5 DEF WavTakes, WavEnd, ip
<1> QED BY <1>1, <1>2

(* read_flows.                                                             *)
LEMMA AuditParsed ==
    ASSUME FrameConstants, NEW f, IsFrame(f)
    PROVE  LET ip == AuditOffset(f)
           IN  AuditDatagram(f) = IF AuditTakes(f, ip)
                                  THEN <<ip + 4 * f.ihl + 8, AuditEnd(f, ip)>> ELSE Nothing
BY DEF AuditDatagram, Ihl, AuditTakes, AuditEnd

(* Both take numbers for the ends of a datagram.                           *)
LEMMA EndsAreNumbers ==
    ASSUME NEW f, IsFrame(f), NEW ip \in Nat
    PROVE  /\ ip + 4 * f.ihl + 8 \in Nat /\ WavEnd(f, ip) \in Nat /\ AuditEnd(f, ip) \in Nat
           /\ WavEnd(f, ip) <= f.captured /\ WavEnd(f, ip) <= ip + 4 * f.ihl + f.udpLength
           /\ f.total # 0 => WavEnd(f, ip) <= ip + f.total
           /\ AuditEnd(f, ip) <= f.captured /\ AuditEnd(f, ip) <= ip + 4 * f.ihl + f.udpLength
           /\ AuditEnd(f, ip) <= ip + f.total
           /\ f.total # 0 => WavEnd(f, ip) = AuditEnd(f, ip)
<1>1. /\ f.ihl \in Nat /\ f.total \in Nat /\ f.udpLength \in Nat /\ f.captured \in Nat
  BY FieldTypes
<1> PICK ihl, total, udp, captured :
       ihl = f.ihl /\ total = f.total /\ udp = f.udpLength /\ captured = f.captured
  OBVIOUS
<1>2. WavEnd(f, ip) = Lesser(ip + 4 * ihl + udp,
                             IF total = 0 THEN captured ELSE Lesser(ip + total, captured))
  BY DEF WavEnd
<1>3. AuditEnd(f, ip) = Lesser(ip + 4 * ihl + udp, Lesser(ip + total, captured))
  BY DEF AuditEnd
<1>4. ihl \in Nat /\ total \in Nat /\ udp \in Nat /\ captured \in Nat
  BY <1>1
<1> QED BY <1>2, <1>3, <1>4 DEF Lesser
----------------------------------------------------------------------------
(* What the header of an RTP packet takes, its padding, and when the two   *)
(* tools find it sound.                                                    *)
HeaderOf(f) == 12 + 4 * f.sources + IF f.extension THEN 4 + 4 * f.extensionWords ELSE 0

PadOf(f) == IF f.padding THEN f.padLength ELSE 0

Sound(f, a, b) ==
    /\ a + 12 <= b /\ f.rtpVersion = 2 /\ f.type \in {0, 8}
    /\ f.extension => a + 16 + 4 * f.sources <= b
    /\ f.padding => f.padLength >= 1
    /\ a + HeaderOf(f) + PadOf(f) <= b

(* Header and padding are counted in numbers.                              *)
LEMMA HeaderType ==
    ASSUME NEW f, IsFrame(f)
    PROVE  HeaderOf(f) \in Nat /\ HeaderOf(f) >= 12 + 4 * f.sources /\ PadOf(f) \in Nat
<1>1. /\ f.sources \in Nat /\ f.extension \in BOOLEAN /\ f.extensionWords \in Nat
      /\ f.padding \in BOOLEAN /\ f.padLength \in Nat
  BY FieldTypes
<1> QED BY <1>1 DEF HeaderOf, PadOf

(* parse_rtp.                                                              *)
LEMMA WavRtp ==
    ASSUME FrameConstants, NEW f, IsFrame(f), NEW a \in Nat, NEW b \in Nat
    PROVE  ParseRtp(f, <<a, b>>) = IF Sound(f, a, b) /\ a + HeaderOf(f) + PadOf(f) < b
                                   THEN <<a + HeaderOf(f), b - PadOf(f)>> ELSE Nothing
<1>1. /\ f.sources \in Nat /\ f.extension \in BOOLEAN /\ f.extensionWords \in Nat
      /\ f.padding \in BOOLEAN /\ f.padLength \in Nat
  BY FieldTypes
<1> DEFINE range == <<a, b>>
           h == a + HeaderOf(f)
           rest == <<h, b>>
<1>2. range[1] = a /\ range[2] = b
  OBVIOUS
<1>3. HeaderOf(f) \in Nat /\ PadOf(f) \in Nat /\ h \in Nat
  BY HeaderType
<1>4. HeaderEnd(f, range) = h
  BY <1>1, <1>2 DEF HeaderEnd, ExtensionAt, HeaderOf
<1>5. HasHeader(f, range) <=> /\ a + 12 <= b /\ f.rtpVersion = 2
                              /\ f.extension => a + 16 + 4 * f.sources <= b
                              /\ h <= b
  BY <1>1, <1>2, <1>4 DEF HasHeader, ExtensionAt
<1> HIDE DEF range, h
<1>6. rest[1] = h /\ rest[2] = b /\ rest # Nothing
  BY <1>3, Ranges
<1>7. WithoutPadding(f, rest) =
         IF f.padding /\ ~(f.padLength >= 1 /\ h + f.padLength <= b) THEN Nothing
         ELSE <<h, b - PadOf(f)>>
  <2>1. CASE ~f.padding
    BY <1>3, <2>1 DEF WithoutPadding, PadOf
  <2>2. CASE f.padding
    <3>1. f.padLength \in 1 .. rest[2] - rest[1] <=> f.padLength >= 1 /\ h + f.padLength <= b
      BY <1>1, <1>3, <1>6
    <3>2. WithoutPadding(f, rest) = IF f.padLength \in 1 .. rest[2] - rest[1]
                                    THEN <<rest[1], rest[2] - f.padLength>> ELSE Nothing
      BY <2>2 DEF WithoutPadding
    <3>3. PadOf(f) = f.padLength
      BY <2>2 DEF PadOf
    <3> HIDE DEF rest
    <3> QED BY <1>6, <2>2, <3>1, <3>2, <3>3
  <2> QED BY <1>1, <2>1, <2>2
<1> DEFINE heard == WithoutPadding(f, rest)
<1>8. ParseRtp(f, range) = IF HasHeader(f, range) /\ f.type \in {0, 8}
                           THEN IF heard # Nothing /\ heard[1] < heard[2] THEN heard
                                ELSE Nothing
                           ELSE Nothing
  BY <1>2, <1>4 DEF ParseRtp
<1> HIDE DEF rest, heard
<1>9. CASE HasHeader(f, range) /\ f.type \in {0, 8}
  <2>1. CASE f.padding /\ ~(f.padLength >= 1 /\ h + f.padLength <= b)
    <3>1. heard = Nothing
      BY <1>7, <2>1 DEF heard
    <3>2. ~Sound(f, a, b)
      BY <1>1, <1>3, <2>1 DEF Sound, PadOf, h
    <3> QED BY <1>8, <3>1, <3>2 DEF range
  <2>2. CASE ~(f.padding /\ ~(f.padLength >= 1 /\ h + f.padLength <= b))
    <3>1. heard = <<h, b - PadOf(f)>>
      BY <1>7, <2>2 DEF heard
    <3>2. h + PadOf(f) <= b /\ b - PadOf(f) \in Nat
      BY <1>1, <1>3, <1>5, <1>9, <2>2 DEF PadOf
    <3>3. Sound(f, a, b)
      BY <1>1, <1>5, <1>9, <2>2, <3>2 DEF Sound, h
    <3>4. heard # Nothing /\ heard[1] = h /\ heard[2] = b - PadOf(f)
      BY <1>3, <3>1, <3>2, Ranges
    <3>5. h < b - PadOf(f) <=> a + HeaderOf(f) + PadOf(f) < b
      BY <1>3, <3>2 DEF h
    <3> QED BY <1>8, <1>9, <3>1, <3>3, <3>4, <3>5 DEF range, h
  <2> QED BY <2>1, <2>2
<1>10. CASE ~(HasHeader(f, range) /\ f.type \in {0, 8})
  <2>1. ~Sound(f, a, b)
    BY <1>3, <1>5, <1>10 DEF Sound, h
  <2> QED BY <1>8, <1>10, <2>1 DEF range
<1> QED BY <1>9, <1>10

(* parse_rtp's counterpart in audit_rtp.                                   *)
LEMMA AuditRtpIs ==
    ASSUME FrameConstants, NEW f, IsFrame(f), NEW a \in Nat, NEW b \in Nat
    PROVE  AuditRtp(f, <<a, b>>) = IF Sound(f, a, b)
                                   THEN <<a + HeaderOf(f), b - PadOf(f)>> ELSE Nothing
<1>1. /\ f.sources \in Nat /\ f.extension \in BOOLEAN /\ f.extensionWords \in Nat
      /\ f.padding \in BOOLEAN /\ f.padLength \in Nat
  BY FieldTypes
<1> DEFINE range == <<a, b>>
           start == HeaderOf(f)
           pad == PadOf(f)
<1>2. range[1] = a /\ Length(range) = b - a
  BY DEF Length
<1>3. start \in Nat /\ pad \in Nat
  BY HeaderType
<1>4. AfterSources(f) + (IF f.extension THEN 4 + 4 * f.extensionWords ELSE 0) = start
  BY DEF AfterSources, HeaderOf
<1> DEFINE good == /\ b - a >= 12 /\ f.rtpVersion = 2 /\ f.type \in {0, 8}
                   /\ f.extension => b - a >= 12 + 4 * f.sources + 4
                   /\ f.padding => f.padLength # 0 /\ f.padLength <= (b - a) - start
                   /\ start <= (b - a) - pad
<1>5. AuditRtp(f, range) = IF good THEN <<a + start, a + ((b - a) - pad)>> ELSE Nothing
  <2> HIDE DEF range
  <2>1. PadOf(f) = IF f.padding THEN f.padLength ELSE 0
    BY DEF PadOf
  <2>2. AfterSources(f) = 12 + 4 * f.sources
    BY DEF AfterSources
  <2> QED BY <1>2, <1>4, <2>1, <2>2, Zenon DEF AuditRtp, PaddingFits
<1>6. good <=> Sound(f, a, b)
  <2>1. f.padding => pad = f.padLength
    BY DEF PadOf
  <2> HIDE DEF start, pad
  <2> QED BY <1>1, <1>3, <2>1 DEF Sound, start, pad
<1>7. a + ((b - a) - pad) = b - pad
  BY <1>3
<1> QED BY <1>5, <1>6, <1>7

(* What pcap_to_wav finds in a frame.                                      *)
LEMMA WavFinds ==
    ASSUME FrameConstants, NEW f, IsFrame(f)
    PROVE  LET ip == Ipv4Offset(f)
               a  == ip + 4 * f.ihl + 8
               b  == WavEnd(f, ip)
           IN  PcapToWav(f) =
                  IF /\ f.link # 276 /\ WavTakes(f, ip)
                     /\ Sound(f, a, b) /\ a + HeaderOf(f) + PadOf(f) < b
                  THEN <<a + HeaderOf(f), b - PadOf(f)>> ELSE Nothing
<1> DEFINE ip == Ipv4Offset(f)
           a == ip + 4 * f.ihl + 8
           b == WavEnd(f, ip)
<1>1. ParseUdp(f) = IF f.link # 276 /\ WavTakes(f, ip) THEN <<a, b>> ELSE Nothing
  BY UdpParsed
<1>2. CASE ~(f.link # 276 /\ WavTakes(f, ip))
  BY <1>1, <1>2 DEF PcapToWav
<1>3. CASE f.link # 276 /\ WavTakes(f, ip)
  <2>1. ip \in Nat
    BY <1>3, WavOffset
  <2> HIDE DEF ip
  <2>2. a \in Nat /\ b \in Nat
    BY <2>1, EndsAreNumbers
  <2> HIDE DEF a, b
  <2>3. <<a, b>> # Nothing
    BY <2>2, Ranges
  <2>4. ParseUdp(f) = <<a, b>>
    BY <1>1, <1>3
  <2>5. PcapToWav(f) = ParseRtp(f, <<a, b>>)
    BY <2>3, <2>4 DEF PcapToWav
  <2>6. PcapToWav(f) = IF Sound(f, a, b) /\ a + HeaderOf(f) + PadOf(f) < b
                       THEN <<a + HeaderOf(f), b - PadOf(f)>> ELSE Nothing
    BY <2>2, <2>5, WavRtp
  <2> QED BY <1>3, <2>6 DEF ip, a, b
<1> QED BY <1>2, <1>3

(* What audit_rtp finds.                                                   *)
LEMMA AuditFinds ==
    ASSUME FrameConstants, NEW f, IsFrame(f)
    PROVE  LET ip == AuditOffset(f)
               a  == ip + 4 * f.ihl + 8
               b  == AuditEnd(f, ip)
           IN  AuditFlows(f) = IF AuditTakes(f, ip) /\ Sound(f, a, b)
                               THEN <<a + HeaderOf(f), b - PadOf(f)>> ELSE Nothing
<1> DEFINE ip == AuditOffset(f)
           a == ip + 4 * f.ihl + 8
           b == AuditEnd(f, ip)
<1>1. AuditDatagram(f) = IF AuditTakes(f, ip) THEN <<a, b>> ELSE Nothing
  BY AuditParsed
<1>2. CASE ~AuditTakes(f, ip)
  BY <1>1, <1>2 DEF AuditFlows
<1>3. CASE AuditTakes(f, ip)
  <2>1. ip \in Nat
    BY WavOffset
  <2> HIDE DEF ip
  <2>2. a \in Nat /\ b \in Nat
    BY <2>1, EndsAreNumbers
  <2> HIDE DEF a, b
  <2>3. <<a, b>> # Nothing
    BY <2>2, Ranges
  <2>4. AuditDatagram(f) = <<a, b>>
    BY <1>1, <1>3
  <2>5. AuditFlows(f) = AuditRtp(f, <<a, b>>)
    BY <2>3, <2>4 DEF AuditFlows
  <2>6. AuditFlows(f) = IF Sound(f, a, b)
                        THEN <<a + HeaderOf(f), b - PadOf(f)>> ELSE Nothing
    BY <2>2, <2>5, AuditRtpIs
  <2> QED BY <1>3, <2>6 DEF ip, a, b
<1> QED BY <1>2, <1>3

(* Both stay within the datagram.                                          *)
LEMMA FoundIsWithin ==
    ASSUME NEW f, IsFrame(f), NEW ip \in Nat, NEW b \in Nat,
           b <= f.captured, b <= ip + 4 * f.ihl + f.udpLength,
           f.total # 0 => b <= ip + f.total,
           LET a == ip + 4 * f.ihl + 8 IN Sound(f, a, b)
    PROVE  LET a == ip + 4 * f.ihl + 8 IN Within(f, ip, <<a + HeaderOf(f), b - PadOf(f)>>)
<1> DEFINE a == ip + 4 * f.ihl + 8
           c == a + HeaderOf(f)
           d == b - PadOf(f)
<1>1. /\ f.ihl \in Nat /\ f.sources \in Nat /\ HeaderOf(f) \in Nat /\ PadOf(f) \in Nat
      /\ HeaderOf(f) >= 12 + 4 * f.sources
  BY FieldTypes, HeaderType
<1>2. a \in Nat /\ c + PadOf(f) <= b
  BY <1>1 DEF Sound
<1>3. c \in Nat /\ c >= ip + 4 * f.ihl + 8 + 12 + 4 * f.sources
  BY <1>1
<1>4. d \in Nat /\ c <= d /\ d <= b
  BY <1>1, <1>2, <1>3
<1> HIDE DEF a, c, d
<1>5. f.captured \in Nat /\ f.udpLength \in Nat /\ f.total \in Nat
  BY FieldTypes
<1>6. /\ d <= f.captured /\ d <= ip + 4 * f.ihl + f.udpLength
      /\ f.total # 0 => d <= ip + f.total
  BY <1>1, <1>4, <1>5
<1>7. <<c, d>>[1] = c /\ <<c, d>>[2] = d
  OBVIOUS
<1>8. Within(f, ip, <<c, d>>)
  BY <1>3, <1>4, <1>6, <1>7, Zenon DEF Within, Ihl
<1> QED BY <1>8 DEF a, c, d

(* Audio is taken from within the packet.                                  *)
LEMMA AudioStaysWithin ==
    ASSUME FrameConstants, NEW f, IsFrame(f)
    PROVE  /\ PcapToWav(f) # Nothing => Within(f, Ipv4Offset(f), PcapToWav(f))
           /\ AuditFlows(f) # Nothing => Within(f, AuditOffset(f), AuditFlows(f))
<1>1. ASSUME PcapToWav(f) # Nothing PROVE Within(f, Ipv4Offset(f), PcapToWav(f))
  <2> DEFINE ip == Ipv4Offset(f)
             a == ip + 4 * f.ihl + 8
             b == WavEnd(f, ip)
  <2>1. /\ f.link # 276 /\ Sound(f, a, b)
        /\ PcapToWav(f) = <<a + HeaderOf(f), b - PadOf(f)>>
    BY <1>1, WavFinds
  <2>2. ip \in Nat
    BY <2>1, WavOffset
  <2> HIDE DEF ip
  <2>3. /\ b \in Nat /\ b <= f.captured /\ b <= ip + 4 * f.ihl + f.udpLength
        /\ f.total # 0 => b <= ip + f.total
    BY <2>2, EndsAreNumbers
  <2> HIDE DEF b
  <2>4. Within(f, ip, <<a + HeaderOf(f), b - PadOf(f)>>)
    BY <2>1, <2>2, <2>3, FoundIsWithin
  <2> QED BY <2>1, <2>4 DEF ip
<1>2. ASSUME AuditFlows(f) # Nothing PROVE Within(f, AuditOffset(f), AuditFlows(f))
  <2> DEFINE ip == AuditOffset(f)
             a == ip + 4 * f.ihl + 8
             b == AuditEnd(f, ip)
  <2>1. Sound(f, a, b) /\ AuditFlows(f) = <<a + HeaderOf(f), b - PadOf(f)>>
    BY <1>2, AuditFinds
  <2>2. ip \in Nat
    BY WavOffset
  <2> HIDE DEF ip
  <2>3. /\ b \in Nat /\ b <= f.captured /\ b <= ip + 4 * f.ihl + f.udpLength
        /\ b <= ip + f.total
    BY <2>2, EndsAreNumbers
  <2> HIDE DEF b
  <2>4. Within(f, ip, <<a + HeaderOf(f), b - PadOf(f)>>)
    BY <2>1, <2>2, <2>3, FoundIsWithin
  <2> QED BY <2>1, <2>4 DEF ip
<1> QED BY <1>1, <1>2

(* The tools agree about a frame without a tag that is whole and says how  *)
(* long it is.                                                             *)
LEMMA PlainAgree ==
    ASSUME FrameConstants, NEW f, IsFrame(f), f.link # 276, f.link = 1 => ~f.vlan,
           ~f.fragment, f.total # 0
    PROVE  \/ PcapToWav(f) = AuditFlows(f)
           \/ PcapToWav(f) = Nothing /\ AuditFlows(f)[1] = AuditFlows(f)[2]
<1> DEFINE ip == AuditOffset(f)
           a == ip + 4 * f.ihl + 8
           b == AuditEnd(f, ip)
           end == Lesser(ip + f.total, f.captured)
           heard == <<a + HeaderOf(f), b - PadOf(f)>>
<1>1. ip \in Nat /\ Ipv4Offset(f) = ip
  BY FieldTypes, WavOffset
<1>2. AuditFlows(f) = IF AuditTakes(f, ip) /\ Sound(f, a, b) THEN heard ELSE Nothing
  BY AuditFinds
<1>3. WavEnd(f, ip) = b /\ b \in Nat
  BY <1>1, EndsAreNumbers
<1>4. PcapToWav(f) = IF WavTakes(f, ip) /\ Sound(f, a, b) /\ a + HeaderOf(f) + PadOf(f) < b
                     THEN heard ELSE Nothing
  BY <1>1, <1>3, WavFinds
<1>5. /\ f.ihl \in Nat /\ f.total \in Nat /\ f.captured \in Nat /\ f.udpLength \in Nat
      /\ HeaderOf(f) \in Nat /\ PadOf(f) \in Nat
  BY FieldTypes, HeaderType
<1>6. end \in Nat /\ end <= f.captured
  <2>1. ip + f.total \in Nat
    BY <1>1, <1>5
  <2> QED BY <1>5, <2>1, LesserIs
<1>7. b <= end
  <2>1. b = Lesser(ip + 4 * f.ihl + f.udpLength, end)
    BY DEF AuditEnd
  <2>2. ip + 4 * f.ihl + f.udpLength \in Nat
    BY <1>1, <1>5
  <2> HIDE DEF b, end
  <2> QED BY <1>6, <2>1, <2>2, LesserIs
<1> HIDE DEF ip, b, end
<1>8. AuditTakes(f, ip) <=> /\ f.captured >= ip + 20 /\ f.ipv4 /\ f.version = 4 /\ f.ihl >= 5
                            /\ f.protocol = 17 /\ end >= ip + 4 * f.ihl + 20
  BY DEF AuditTakes, end
<1>9. AuditTakes(f, ip) => WavTakes(f, ip)
  BY <1>1, <1>5, <1>6, <1>8 DEF WavTakes
<1>10. WavTakes(f, ip) /\ Sound(f, a, b) => AuditTakes(f, ip)
  BY <1>1, <1>3, <1>5, <1>6, <1>7, <1>8 DEF WavTakes, Sound
<1>11. CASE AuditTakes(f, ip) /\ Sound(f, a, b)
  <2>1. CASE a + HeaderOf(f) + PadOf(f) < b
    BY <1>2, <1>4, <1>9, <1>11, <2>1
  <2>2. CASE ~(a + HeaderOf(f) + PadOf(f) < b)
    <3>1. a + HeaderOf(f) + PadOf(f) <= b
      BY <1>11 DEF Sound
    <3>2. a + HeaderOf(f) = b - PadOf(f)
      BY <1>1, <1>3, <1>5, <2>2, <3>1
    <3>3. PcapToWav(f) = Nothing /\ AuditFlows(f) = heard
      BY <1>2, <1>4, <1>11, <2>2
    <3> QED BY <3>2, <3>3
  <2> QED BY <2>1, <2>2
<1>12. CASE ~(AuditTakes(f, ip) /\ Sound(f, a, b))
  BY <1>2, <1>4, <1>10, <1>12
<1> QED BY <1>11, <1>12

(* The tools agree.                                                        *)
LEMMA ToolsStayAgreed ==
    ASSUME FrameConstants, NEW f, IsFrame(f), f.link # 276
    PROVE  \/ PcapToWav(f) = AuditFlows(f)
           \/ AuditFlows(f) = Nothing /\ (f.vlan \/ f.fragment \/ f.total = 0)
           \/ PcapToWav(f) = Nothing /\ AuditFlows(f)[1] = AuditFlows(f)[2]
<1> DEFINE ip == AuditOffset(f)
           end == Lesser(ip + f.total, f.captured)
<1>1. CASE AuditFlows(f) = Nothing
  <2>1. CASE f.vlan \/ f.fragment \/ f.total = 0
    BY <1>1, <2>1
  <2>2. CASE ~(f.vlan \/ f.fragment \/ f.total = 0)
    BY <2>2, PlainAgree
  <2> QED BY <2>1, <2>2
<1>2. CASE AuditFlows(f) # Nothing
  <2>1. AuditTakes(f, ip)
    BY <1>2, AuditFinds
  <2>2. ip \in Nat /\ f.total \in Nat /\ f.captured \in Nat /\ f.ihl \in Nat
    BY WavOffset, FieldTypes
  <2> HIDE DEF ip
  <2>3. end \in Nat /\ end <= ip + f.total
    <3>1. ip + f.total \in Nat
      BY <2>2
    <3> QED BY <2>2, <3>1, LesserIs
  <2>4. /\ (f.link = 1 => ~f.vlan) /\ ~f.fragment /\ end >= ip + 4 * f.ihl + 20
    BY <2>1 DEF AuditTakes
  <2> HIDE DEF end
  <2>5. f.total # 0
    BY <2>2, <2>3, <2>4
  <2> QED BY <2>4, <2>5, PlainAgree
<1> QED BY <1>1, <1>2

(* pcap_util has all the audio audit_rtp counts.                           *)
LEMMA FlowsKeepTheAudio ==
    ASSUME FrameConstants, NEW f, IsFrame(f), AuditFlows(f) # Nothing
    PROVE  LET heard == AuditFlows(f)
               taken == Flows(f)
           IN  /\ taken # Nothing /\ taken[1] <= heard[1] /\ heard[2] <= taken[2]
               /\ f.sources = 0 /\ ~f.extension => taken[1] = heard[1]
               /\ AuditDatagram(f)[2] = f.captured /\ ~f.padding => taken[2] = heard[2]
<1> DEFINE ip == AuditOffset(f)
           a == ip + 4 * f.ihl + 8
           b == AuditEnd(f, ip)
           c == a + HeaderOf(f)
           d == b - PadOf(f)
           end == Lesser(ip + f.total, f.captured)
           first == ip + 4 * f.ihl + 20
<1>1. AuditTakes(f, ip) /\ Sound(f, a, b) /\ AuditFlows(f) = <<c, d>>
  BY AuditFinds
<1>2. AuditDatagram(f) = <<a, b>>
  BY <1>1, AuditParsed
<1>3. /\ ip \in Nat /\ f.ihl \in Nat /\ f.total \in Nat /\ f.captured \in Nat
      /\ f.sources \in Nat /\ HeaderOf(f) \in Nat /\ PadOf(f) \in Nat
      /\ HeaderOf(f) >= 12 + 4 * f.sources
  BY FieldTypes, HeaderType, WavOffset
<1>4. b \in Nat /\ b <= f.captured
  BY <1>3, EndsAreNumbers
<1>5. end \in Nat /\ end <= f.captured
  <2>1. ip + f.total \in Nat
    BY <1>3
  <2> QED BY <1>3, <2>1, LesserIs
<1> HIDE DEF ip, b, end
<1>6. /\ f.captured >= ip + 20 /\ f.ipv4 /\ (f.link = 1 => ~f.vlan) /\ f.protocol = 17
      /\ end >= ip + 4 * f.ihl + 20
  BY <1>1 DEF AuditTakes, end
<1>7. f.captured >= ip + 4 * f.ihl + 20
  BY <1>3, <1>5, <1>6
<1>8. Flows(f) = <<first, f.captured>>
  BY <1>6, <1>7 DEF Flows, Ihl, ip
<1>9. c \in Nat /\ first \in Nat /\ first <= c /\ (f.sources = 0 /\ ~f.extension => first = c)
  <2>1. f.sources = 0 /\ ~f.extension => HeaderOf(f) = 12
    BY DEF HeaderOf
  <2> QED BY <1>3, <2>1
<1>10. d \in Nat /\ d <= f.captured /\ (~f.padding => d = b)
  <2>1. a + HeaderOf(f) + PadOf(f) <= b
    BY <1>1 DEF Sound
  <2>2. ~f.padding => PadOf(f) = 0
    BY DEF PadOf
  <2> QED BY <1>3, <1>4, <2>1, <2>2
<1> HIDE DEF a, c, d, first
<1>11. <<first, f.captured>> # Nothing
  BY <1>3, <1>9, Ranges
<1> QED BY <1>1, <1>2, <1>8, <1>9, <1>10, <1>11

(* The service hears what audit_rtp finds.                                 *)
LEMMA ServiceHears ==
    ASSUME FrameConstants, NEW f, IsFrame(f), AuditFlows(f) # Nothing, ~f.padding
    PROVE  ParseRtpPacket(f, AuditDatagram(f)) = AuditFlows(f)
<1> DEFINE ip == AuditOffset(f)
           a == ip + 4 * f.ihl + 8
           b == AuditEnd(f, ip)
           range == <<a, b>>
<1>1. /\ AuditTakes(f, ip) /\ Sound(f, a, b)
      /\ AuditFlows(f) = <<a + HeaderOf(f), b - PadOf(f)>>
  BY AuditFinds
<1>2. AuditDatagram(f) = range
  BY <1>1, AuditParsed
<1>3. /\ ip \in Nat /\ f.ihl \in Nat /\ f.sources \in Nat /\ f.extension \in BOOLEAN
      /\ f.extensionWords \in Nat /\ HeaderOf(f) \in Nat
      /\ HeaderOf(f) >= 12 + 4 * f.sources
  BY FieldTypes, HeaderType, WavOffset
<1>4. b \in Nat
  BY <1>3, EndsAreNumbers
<1>5. PadOf(f) = 0
  BY DEF PadOf
<1> HIDE DEF ip, b
<1>6. AfterSources(f) + (IF f.extension THEN ExtensionSize(f) ELSE 0) = HeaderOf(f)
  BY DEF AfterSources, ExtensionSize, HeaderOf
<1>7. range[1] = a /\ range[2] = b /\ Length(range) = b - a
  BY DEF Length
<1>8. a \in Nat
  BY <1>3
<1> HIDE DEF a, range
<1>9. /\ b - a >= 12 /\ f.rtpVersion = 2 /\ b - a >= HeaderOf(f)
      /\ f.extension => b - a >= AfterSources(f) + 4
      /\ b - a >= AfterSources(f)
  <2>1. AfterSources(f) = 12 + 4 * f.sources
    BY DEF AfterSources
  <2>2. /\ a + 12 <= b /\ f.rtpVersion = 2
        /\ f.extension => a + 16 + 4 * f.sources <= b
        /\ a + HeaderOf(f) <= b
    BY <1>1, <1>3, <1>5, <1>8 DEF Sound
  <2> QED BY <1>3, <1>4, <1>8, <2>1, <2>2
<1>10. ParseRtpPacket(f, range) = <<a + HeaderOf(f), b>>
  BY <1>6, <1>7, <1>9 DEF ParseRtpPacket
<1>11. b - PadOf(f) = b
  BY <1>4, <1>5
<1> QED BY <1>1, <1>2, <1>10, <1>11

(* The datagram audit_rtcp reads is that which pcap_to_wav sees.           *)
LEMMA ReportsStayWhole ==
    ASSUME FrameConstants, NEW f, IsFrame(f), ReportDatagram(f) # Nothing
    PROVE  ReportDatagram(f)[2] <= f.captured /\ ReportDatagram(f) = ParseUdp(f)
<1> DEFINE a == 14 + 4 * f.ihl + 8
           b == 14 + 4 * f.ihl + f.udpLength
<1>1. /\ f.captured >= 34 /\ f.link = 1 /\ f.ipv4 /\ ~f.vlan /\ f.version = 4 /\ f.ihl >= 5
      /\ f.total <= f.captured - 14 /\ f.total >= 4 * f.ihl + 8 /\ f.protocol = 17
      /\ f.udpLength \in 8 .. f.total - 4 * f.ihl
      /\ ReportDatagram(f) = <<a, b>>
  BY DEF ReportDatagram, IsAllThere, Ihl
<1>2. /\ f.ihl \in Nat /\ f.total \in Nat /\ f.captured \in Nat /\ f.udpLength \in Nat
  BY FieldTypes
<1>3. Ipv4Offset(f) = 14
  BY <1>1 DEF Ipv4Offset, EthernetOffset
<1>4. 14 + 4 * f.ihl + f.udpLength <= 14 + f.total /\ 14 + f.total <= f.captured
  BY <1>1, <1>2
<1>5. WavTakes(f, 14)
  BY <1>1, <1>2, <1>4 DEF WavTakes
<1>6. WavEnd(f, 14) = b
  <2>1. f.total # 0
    BY <1>1, <1>2
  <2>2. Lesser(14 + f.total, f.captured) = 14 + f.total
    BY <1>2, <1>4 DEF Lesser
  <2>3. Lesser(14 + 4 * f.ihl + f.udpLength, 14 + f.total) = 14 + 4 * f.ihl + f.udpLength
    BY <1>2, <1>4 DEF Lesser
  <2> QED BY <2>1, <2>2, <2>3 DEF WavEnd
<1>7. ParseUdp(f) = <<a, b>>
  BY <1>1, <1>3, <1>5, <1>6, UdpParsed
<1>8. b <= f.captured /\ <<a, b>>[2] = b
  BY <1>2, <1>4
<1> HIDE DEF a, b
<1> QED BY <1>1, <1>7, <1>8

----------------------------------------------------------------------------
(* A file: its records.                                                    *)
(* Where a record ends, behind the others.                                 *)
EndAfter(ends, bytes) == Append(ends, Last(ends) + 16 + bytes)

(* What RecordEnds goes through, over the first n records.                 *)
Endings(n, iter) ==
    iter = [x \in SUBSET (1 .. n) |->
              IF x = {} THEN <<GlobalHeader>>
              ELSE EndAfter(iter[x \ {Max(x)}], RecordSizes[Max(x)])]

(* There is such a function.                                               *)
LEMMA EndingsExist == ASSUME NEW n \in Nat PROVE \E iter : Endings(n, iter)
<1> DEFINE base == <<GlobalHeader>>
           S == {k \in Nat : \E iter : Endings(k, iter)}
<1>0. \A k, iter : Endings(k, iter) <=>
        iter = [x \in SUBSET (1 .. k) |->
                  IF x = {} THEN base ELSE EndAfter(iter[x \ {Max(x)}], RecordSizes[Max(x)])]
  BY DEF Endings
<1> HIDE DEF base
<1>1. 0 \in S
  <2> DEFINE g == [x \in SUBSET (1 .. 0) |-> base]
  <2>1. \A x \in SUBSET (1 .. 0) : x = {}
    OBVIOUS
  <2>2. g = [x \in SUBSET (1 .. 0) |->
              IF x = {} THEN base ELSE EndAfter(g[x \ {Max(x)}], RecordSizes[Max(x)])]
    BY <2>1
  <2> HIDE DEF g
  <2>3. Endings(0, g)
    BY <1>0, <2>2
  <2> QED BY <2>3
<1>2. ASSUME NEW k \in Nat, k \in S PROVE k + 1 \in S
  <2>1. PICK iter : Endings(k, iter)
    BY <1>2
  <2> DEFINE Small == SUBSET (1 .. k)
             Large == SUBSET (1 .. k + 1)
             body(f, x) == IF x = {} THEN base
                           ELSE EndAfter(f[x \ {Max(x)}], RecordSizes[Max(x)])
             g == [x \in Large |-> IF x \in Small THEN iter[x]
                                  ELSE EndAfter(iter[x \ {k + 1}], RecordSizes[k + 1])]
  <2>a. iter = [x \in Small |->
                  IF x = {} THEN base ELSE EndAfter(iter[x \ {Max(x)}], RecordSizes[Max(x)])]
    BY <1>0, <2>1
  <2>2. \A x \in Small : iter[x] = body(iter, x)
    <3> SUFFICES ASSUME NEW x \in Small PROVE iter[x] = body(iter, x)
      OBVIOUS
    <3> HIDE DEF Small
    <3> QED BY <2>a, Zenon
  <2>3. ASSUME NEW x \in Large PROVE g[x] = body(g, x)
    <3>1. CASE x \in Small
      <4>1. g[x] = iter[x]
        BY <3>1
      <4>2. CASE x = {}
        BY <2>2, <3>1, <4>1, <4>2
      <4>3. CASE x # {}
        <5>1. Max(x) \in x
          BY <3>1, <4>3, MaxIsFirst
        <5>2. x \ {Max(x)} \in Small /\ x \ {Max(x)} \in Large
          BY <3>1
        <5>3. g[x \ {Max(x)}] = iter[x \ {Max(x)}]
          BY <5>2
        <5> HIDE DEF g
        <5> QED BY <2>2, <3>1, <4>1, <4>3, <5>3
      <4> QED BY <4>2, <4>3
    <3>2. CASE x \notin Small
      <4>1. k + 1 \in x /\ x # {}
        BY <3>2
      <4>2. Max(x) = k + 1 /\ x \ {Max(x)} \in Small
        BY <4>1, MaxOfFirst
      <4>3. g[x] = EndAfter(iter[x \ {k + 1}], RecordSizes[k + 1])
        BY <3>2
      <4>4. x \ {Max(x)} \in Large
        OBVIOUS
      <4>5. g[x \ {Max(x)}] = iter[x \ {Max(x)}]
        BY <4>2, <4>4
      <4> HIDE DEF g
      <4> QED BY <4>1, <4>2, <4>3, <4>5
    <3> QED BY <3>1, <3>2
  <2>4. g = [x \in Large |-> g[x]]
    OBVIOUS
  <2> HIDE DEF g
  <2>5. g = [x \in Large |-> body(g, x)]
    BY <2>3, <2>4, Zenon
  <2>6. Endings(k + 1, g)
    BY <1>0, <2>5
  <2> QED BY <2>6
<1>3. n \in S
  <2> HIDE DEF S
  <2> QED BY <1>1, <1>2, Induction
<1> QED BY <1>3

(* RecordEnds, record by record.                                           *)
LEMMA RecordSteps ==
    ASSUME DOMAIN RecordSizes = 1 .. Len(RecordSizes), Len(RecordSizes) \in Nat
    PROVE  \E acc : /\ acc[0] = <<GlobalHeader>>
                    /\ RecordEnds = acc[Len(RecordSizes)]
                    /\ \A k \in 1 .. Len(RecordSizes) :
                          acc[k] = EndAfter(acc[k - 1], RecordSizes[k])
<1> DEFINE n == Len(RecordSizes)
           base == <<GlobalHeader>>
           iter == CHOOSE iter : Endings(n, iter)
           acc == [k \in 0 .. n |-> iter[1 .. k]]
<1>1. Endings(n, iter)
  BY EndingsExist
<1>2. RecordEnds = iter[1 .. n]
  <2>1. RecordEnds = (CHOOSE it : it = [x \in SUBSET DOMAIN RecordSizes |->
              IF x = {} THEN base
              ELSE EndAfter(it[x \ {Max(x)}], RecordSizes[Max(x)])])[DOMAIN RecordSizes]
    BY DEF RecordEnds, EndAfter, FoldLeft, MapThenFoldSet
  <2> QED BY <2>1 DEF Endings
<1> HIDE DEF iter
<1>0. iter = [x \in SUBSET (1 .. n) |->
                IF x = {} THEN base ELSE EndAfter(iter[x \ {Max(x)}], RecordSizes[Max(x)])]
  BY <1>1 DEF Endings
<1> HIDE DEF base
<1>3. acc[0] = base
  <2>1. 1 .. 0 = {}
    OBVIOUS
  <2> QED BY <1>0, <2>1
<1>4. ASSUME NEW k \in 1 .. n PROVE acc[k] = EndAfter(acc[k - 1], RecordSizes[k])
  <2>1. PICK j \in Nat : k = j + 1
    <3>1. k - 1 \in Nat /\ k = (k - 1) + 1
      OBVIOUS
    <3> QED BY <3>1
  <2>2. Max(1 .. k) = k
    <3>1. 1 .. k \in SUBSET (1 .. j + 1) /\ j + 1 \in 1 .. k
      BY <2>1
    <3> QED BY <2>1, <3>1, MaxOfFirst
  <2>3. (1 .. k) \ {k} = 1 .. k - 1
    BY <2>1
  <2>4. 1 .. k # {} /\ 1 .. k \in SUBSET (1 .. n)
    BY <2>1
  <2>5. iter[1 .. k] = EndAfter(iter[1 .. k - 1], RecordSizes[k])
    BY <1>0, <2>2, <2>3, <2>4
  <2>6. k \in 0 .. n /\ k - 1 \in 0 .. n
    OBVIOUS
  <2> QED BY <2>5, <2>6
<1>5. RecordEnds = acc[n]
  BY <1>2
<1> HIDE DEF acc
<1> QED BY <1>3, <1>4, <1>5 DEF base

RecordCount == Len(RecordSizes)

(* The ends of the records follow each other by their sizes and headers.   *)
LEMMA EndsFollow ==
    ASSUME FrameConstants
    PROVE  /\ RecordCount \in Nat /\ DOMAIN RecordSizes = 1 .. RecordCount
           /\ RecordEnds \in Seq(Nat) /\ Len(RecordEnds) = RecordCount + 1
           /\ RecordEnds[1] = GlobalHeader
           /\ \A i \in 1 .. RecordCount :
                 /\ RecordSizes[i] \in Nat
                 /\ RecordEnds[i + 1] = RecordEnds[i] + 16 + RecordSizes[i]
<1> DEFINE n == RecordCount
<1>1. n \in Nat /\ DOMAIN RecordSizes = 1 .. n /\ \A i \in 1 .. n : RecordSizes[i] \in Nat
  BY DEF FrameConstants, RecordCount
<1>2. PICK acc : /\ acc[0] = <<GlobalHeader>> /\ RecordEnds = acc[n]
                 /\ \A k \in 1 .. n : acc[k] = EndAfter(acc[k - 1], RecordSizes[k])
  BY <1>1, RecordSteps DEF RecordCount
<1> HIDE DEF n
<1> DEFINE Ends(k) == /\ acc[k] \in Seq(Nat) /\ Len(acc[k]) = k + 1
                      /\ acc[k][1] = GlobalHeader
                      /\ \A i \in 1 .. k : acc[k][i + 1] = acc[k][i] + 16 + RecordSizes[i]
           S == {k \in Nat : k <= n => Ends(k)}
<1>3. 0 \in S
  <2> PICK s : s = acc[0]
    OBVIOUS
  <2>1. s = <<24>> /\ GlobalHeader = 24
    BY <1>2 DEF GlobalHeader
  <2>2. s \in Seq(Nat) /\ Len(s) = 0 + 1 /\ s[1] = GlobalHeader
    BY <2>1
  <2>3. \A i \in 1 .. 0 : FALSE
    OBVIOUS
  <2>4. Ends(0)
    BY <2>2, <2>3
  <2> QED BY <2>4
<1>4. ASSUME NEW k \in Nat, k \in S PROVE k + 1 \in S
  <2> SUFFICES ASSUME k + 1 <= n PROVE Ends(k + 1)
    OBVIOUS
  <2> PICK s, t, bytes : s = acc[k] /\ t = acc[k + 1] /\ bytes = RecordSizes[k + 1]
    OBVIOUS
  <2>1. /\ s \in Seq(Nat) /\ Len(s) = k + 1 /\ s[1] = GlobalHeader
        /\ \A i \in 1 .. k : s[i + 1] = s[i] + 16 + RecordSizes[i]
    BY <1>1, <1>4
  <2>2. k + 1 \in 1 .. n /\ (k + 1) - 1 = k /\ bytes \in Nat
    BY <1>1
  <2>3. t = Append(s, s[k + 1] + 16 + bytes)
    BY <1>2, <2>1, <2>2 DEF EndAfter, Last
  <2> PICK e : e = s[k + 1] + 16 + bytes
    OBVIOUS
  <2>4. s[k + 1] \in Nat /\ e \in Nat /\ t = Append(s, e)
    <3>1. s[k + 1] \in Nat
      BY <2>1
    <3>2. e \in Nat
      BY <2>2, <3>1
    <3> QED BY <2>3, <3>1, <3>2
  <2>5. /\ t \in Seq(Nat) /\ Len(t) = k + 2 /\ t[k + 2] = e
        /\ \A i \in 1 .. k + 1 : t[i] = s[i]
    <3>1. Len(s) = k + 1 /\ s \in Seq(Nat)
      BY <2>1
    <3>2. t \in Seq(Nat) /\ Len(t) = Len(s) + 1 /\ t[Len(s) + 1] = e
      BY <2>4, <3>1
    <3>3. \A i \in 1 .. Len(s) : t[i] = s[i]
      BY <2>4, <3>1
    <3>4. (k + 1) + 1 = k + 2
      OBVIOUS
    <3> QED BY <3>1, <3>2, <3>3, <3>4
  <2>6. \A i \in 1 .. k + 1 : t[i + 1] = t[i] + 16 + RecordSizes[i]
    <3> SUFFICES ASSUME NEW i \in 1 .. k + 1 PROVE t[i + 1] = t[i] + 16 + RecordSizes[i]
      OBVIOUS
    <3>1. CASE i = k + 1
      <4>1. t[i + 1] = e /\ t[i] = s[k + 1]
        <5>1. i + 1 = k + 2 /\ k + 1 \in 1 .. k + 1
          BY <3>1
        <5> QED BY <2>5, <3>1, <5>1
      <4> QED BY <3>1, <4>1
    <3>2. CASE i # k + 1
      <4>1. i \in 1 .. k /\ i + 1 \in 1 .. k + 1
        BY <3>2
      <4> QED BY <2>1, <2>5, <4>1
    <3> QED BY <3>1, <3>2
  <2>7. t[1] = GlobalHeader /\ k + 2 = (k + 1) + 1
    <3>1. 1 \in 1 .. k + 1
      OBVIOUS
    <3> QED BY <2>1, <2>5, <3>1
  <2> QED BY <2>5, <2>6, <2>7
<1>5. n \in S
  <2> HIDE DEF S
  <2> QED BY <1>1, <1>3, <1>4, Induction
<1>6. Ends(n)
  BY <1>1, <1>5
<1> QED BY <1>1, <1>2, <1>6 DEF n

(* They ascend.                                                            *)
LEMMA EndsAscend ==
    ASSUME FrameConstants, NEW i \in 1 .. RecordCount + 1, NEW j \in 1 .. RecordCount + 1,
           i < j
    PROVE  /\ RecordEnds[i] + 16 <= RecordEnds[j]
           /\ RecordEnds[i] \in Nat /\ RecordEnds[j] \in Nat
<1> DEFINE S == {k \in Nat : i + 1 + k <= RecordCount + 1 =>
                                RecordEnds[i] + 16 <= RecordEnds[i + 1 + k]}
<1>1. RecordCount \in Nat /\ \A k \in 1 .. RecordCount + 1 : RecordEnds[k] \in Nat
  BY EndsFollow
<1>2. \A k \in 1 .. RecordCount : RecordEnds[k] + 16 <= RecordEnds[k + 1]
  <2> SUFFICES ASSUME NEW k \in 1 .. RecordCount
               PROVE  RecordEnds[k] + 16 <= RecordEnds[k + 1]
    OBVIOUS
  <2>1. /\ RecordSizes[k] \in Nat
        /\ RecordEnds[k + 1] = RecordEnds[k] + 16 + RecordSizes[k]
    BY EndsFollow
  <2>2. RecordEnds[k] \in Nat
    BY <1>1
  <2> QED BY <2>1, <2>2
<1>3. 0 \in S
  BY <1>1, <1>2
<1>4. ASSUME NEW k \in Nat, k \in S PROVE k + 1 \in S
  <2> SUFFICES ASSUME i + 1 + (k + 1) <= RecordCount + 1
               PROVE  RecordEnds[i] + 16 <= RecordEnds[i + 1 + (k + 1)]
    OBVIOUS
  <2> PICK m : m = i + 1 + k
    OBVIOUS
  <2>1. /\ m \in 1 .. RecordCount /\ i + 1 + (k + 1) = m + 1 /\ m <= RecordCount + 1
        /\ m \in 1 .. RecordCount + 1 /\ m + 1 \in 1 .. RecordCount + 1
    BY <1>1
  <2>2. RecordEnds[i] + 16 <= RecordEnds[m] /\ RecordEnds[m] + 16 <= RecordEnds[m + 1]
    BY <1>2, <1>4, <2>1
  <2>3. RecordEnds[i] \in Nat /\ RecordEnds[m] \in Nat /\ RecordEnds[m + 1] \in Nat
    BY <1>1, <2>1
  <2> QED BY <2>1, <2>2, <2>3
<1>5. j - (i + 1) \in Nat /\ i + 1 + (j - (i + 1)) = j
  BY <1>1
<1>6. j - (i + 1) \in S
  <2> HIDE DEF S
  <2> QED BY <1>3, <1>4, <1>5, Induction
<1>7. RecordEnds[i] + 16 <= RecordEnds[j]
  BY <1>1, <1>5, <1>6
<1> QED BY <1>1, <1>7

(* What is the largest of a set.                                           *)
LEMMA MaxIs ==
    ASSUME NEW x \in SUBSET Nat, NEW m \in x, \A z \in x : z <= m
    PROVE  Max(x) = m
<1>1. m \in x /\ \A y \in x : m >= y
  OBVIOUS
<1>2. Max(x) \in x /\ \A y \in x : Max(x) >= y
  BY <1>1 DEF Max
<1>3. Max(x) \in Nat /\ m \in Nat /\ Max(x) >= m /\ Max(x) <= m
  BY <1>2
<1> QED BY <1>3

(* And the smallest.                                                       *)
LEMMA MinIs ==
    ASSUME NEW x \in SUBSET Nat, NEW m \in x, \A z \in x : m <= z
    PROVE  Min(x) = m
<1>1. m \in x /\ \A y \in x : m <= y
  OBVIOUS
<1>2. Min(x) \in x /\ \A y \in x : Min(x) <= y
  BY <1>1 DEF Min
<1>3. Min(x) \in Nat /\ m \in Nat /\ Min(x) >= m /\ Min(x) <= m
  BY <1>2
<1> QED BY <1>3

(* How many numbers come first.                                            *)
LEMMA FirstAre == ASSUME NEW n \in Nat PROVE Cardinality(1 .. n) = n
<1>1. 1 \in Int /\ n \in Int
  OBVIOUS
<1>2. Cardinality(1 .. n) = IF 1 > n THEN 0 ELSE n - 1 + 1
  BY <1>1, FS_Interval
<1> QED BY <1>2

(* Of a file there is a last record that ends in what has been copied, and *)
(* how many records are whole and begun follows from it.                   *)
LEMMA SameRecordsRead == ASSUME FrameConstants, copied \in Nat PROVE SameRecords
<1> DEFINE n == RecordCount
           E == RecordEnds
           K == {i \in 1 .. n + 1 : E[i] <= copied}
           k == Max(K)
           T == {end \in ToSet(E) : end <= copied}
<1> SUFFICES ASSUME copied >= GlobalHeader
             PROVE  /\ ReadPcap(Max(T)) = ReadFlows(copied)
                    /\ RecordsBegun(copied) - ReadFlows(copied) \in {0, 1}
  BY DEF SameRecords
<1>1. /\ n \in Nat /\ DOMAIN RecordSizes = 1 .. n /\ E \in Seq(Nat) /\ Len(E) = n + 1
      /\ E[1] = GlobalHeader
  BY EndsFollow
<1>2. \A i \in 1 .. n + 1 : E[i] \in Nat
  BY <1>1
<1>3. \A i, j \in 1 .. n + 1 : i < j => E[i] + 16 <= E[j]
  BY EndsAscend
<1> HIDE DEF n, E
<1>4. k \in 1 .. n + 1 /\ E[k] <= copied /\ \A i \in 1 .. n + 1 : E[i] <= copied => i <= k
  <2>1. 1 \in K
    BY <1>1
  <2>2. n + 1 \in Nat /\ K \in SUBSET (1 .. n + 1) /\ K # {}
    BY <1>1, <2>1
  <2>3. k \in K /\ \A i \in K : k >= i
    <3> HIDE DEF K
    <3> QED BY <2>2, MaxIsFirst
  <2> HIDE DEF k
  <2>4. \A i \in K : i \in Nat
    OBVIOUS
  <2> QED BY <2>3, <2>4
<1> HIDE DEF K, k
<1>5. \A i \in 1 .. n + 1 : E[i] <= E[k] <=> i <= k
  <2> SUFFICES ASSUME NEW i \in 1 .. n + 1 PROVE E[i] <= E[k] <=> i <= k
    OBVIOUS
  <2>1. E[i] \in Nat /\ E[k] \in Nat /\ k \in 1 .. n + 1
    BY <1>2, <1>4
  <2>2. i < k => E[i] + 16 <= E[k]
    BY <1>3, <2>1
  <2>3. k < i => E[k] + 16 <= E[i]
    BY <1>3, <2>1
  <2>4. i \in Nat /\ k \in Nat
    BY <1>1, <2>1
  <2>5. i = k => E[i] = E[k]
    OBVIOUS
  <2> QED BY <2>1, <2>2, <2>3, <2>4, <2>5
<1>6. ToSet(E) = {E[i] : i \in 1 .. n + 1}
  BY <1>1 DEF ToSet
<1>7. Max(T) = E[k]
  <2>1. T \in SUBSET Nat
    BY <1>2, <1>6
  <2>2. E[k] \in T
    BY <1>4, <1>6
  <2>3. \A z \in T : z <= E[k]
    <3> SUFFICES ASSUME NEW i \in 1 .. n + 1, E[i] <= copied PROVE E[i] <= E[k]
      BY <1>6
    <3> QED BY <1>4, <1>5
  <2> HIDE DEF T
  <2> QED BY <2>1, <2>2, <2>3, MaxIs
<1>8. ReadPcap(Max(T)) = k - 1
  <2> DEFINE I == {i \in 1 .. Len(E) : E[i] = E[k]}
  <2>1. I = {k}
    <3>1. k \in I
      BY <1>1, <1>4
    <3>2. ASSUME NEW i \in I PROVE i = k
      <4>1. i \in 1 .. n + 1 /\ E[i] = E[k] /\ k \in 1 .. n + 1
        BY <1>1, <1>4, <3>2
      <4>2. ~(i < k) /\ ~(k < i)
        <5>1. E[i] \in Nat /\ E[k] \in Nat
          BY <1>2, <4>1
        <5>2. i < k => E[i] + 16 <= E[k]
          BY <1>3, <4>1
        <5>3. k < i => E[k] + 16 <= E[i]
          BY <1>3, <4>1
        <5> QED BY <4>1, <5>1, <5>2, <5>3
      <4> QED BY <1>1, <4>1, <4>2
    <3> QED BY <3>1, <3>2
  <2>2. Min({k}) = k
    <3>1. {k} \in SUBSET Nat /\ k \in {k} /\ \A z \in {k} : k <= z
      BY <1>1, <1>4
    <3> QED BY <3>1, MinIs
  <2>3. E[k] \in ToSet(E)
    BY <1>4, <1>6
  <2>4. ReadPcap(E[k]) = IF E[k] \in ToSet(E) THEN (IF I # {} THEN Min(I) ELSE 0) - 1
                         ELSE Nothing
    BY DEF ReadPcap, SelectInSeq, E
  <2> HIDE DEF I
  <2> QED BY <1>7, <2>1, <2>2, <2>3, <2>4
<1>9. k - 1 \in Nat /\ k \in Nat /\ k <= n + 1
  BY <1>1, <1>4
<1>10. RecordsWhole(copied) = k - 1
  <2>1. {m \in 1 .. n : E[m + 1] <= copied} = 1 .. k - 1
    <3>1. ASSUME NEW m \in 1 .. n PROVE E[m + 1] <= copied <=> m <= k - 1
      <4>1. m + 1 \in 1 .. n + 1 /\ (m + 1 <= k <=> m <= k - 1)
        BY <1>1, <1>9
      <4>2. E[m + 1] <= copied => m + 1 <= k
        BY <1>4, <4>1
      <4>3. m + 1 <= k => E[m + 1] <= E[k]
        BY <1>5, <4>1
      <4>4. E[m + 1] \in Nat /\ E[k] \in Nat /\ E[k] <= copied
        BY <1>2, <1>4, <4>1
      <4> QED BY <4>1, <4>2, <4>3, <4>4
    <3>2. \A m : m \in 1 .. k - 1 => m \in 1 .. n
      BY <1>1, <1>9
    <3>3. \A m : m \in 1 .. k - 1 <=> m \in 1 .. n /\ m <= k - 1
      BY <1>1, <1>9
    <3> QED BY <3>1, <3>3
  <2>2. Cardinality(1 .. k - 1) = k - 1
    BY <1>9, FirstAre
  <2> QED BY <1>1, <2>1, <2>2 DEF RecordsWhole, E
<1>11. RecordsBegun(copied) \in {k - 1, k}
  <2> DEFINE B == {m \in 1 .. n : E[m] + 16 <= copied}
  <2>1. ASSUME NEW m \in 1 .. n PROVE /\ m < k => E[m] + 16 <= copied
                                      /\ E[m] + 16 <= copied => m <= k
    <3>1. /\ m \in 1 .. n + 1 /\ k \in 1 .. n + 1
          /\ E[m] \in Nat /\ E[k] \in Nat /\ E[k] <= copied
      BY <1>1, <1>2, <1>4
    <3>2. m < k => E[m] + 16 <= E[k]
      BY <1>3, <3>1
    <3>3. E[m] <= copied => m <= k
      BY <1>4, <3>1
    <3> QED BY <3>1, <3>2, <3>3
  <2>2. CASE k \in B
    <3>1. B = 1 .. k
      <4>1. k \in 1 .. n /\ E[k] + 16 <= copied
        BY <2>2
      <4>2. \A m : m \in 1 .. k <=> m \in 1 .. n /\ m <= k
        BY <1>1, <4>1
      <4>3. \A m \in 1 .. n : m \in B <=> m <= k
        <5> SUFFICES ASSUME NEW m \in 1 .. n PROVE m \in B <=> m <= k
          OBVIOUS
        <5>1. m \in Nat /\ (m <= k <=> m < k \/ m = k)
          BY <1>1, <1>9
        <5> QED BY <2>1, <4>1, <5>1
      <4>4. \A m : m \in B => m \in 1 .. n
        OBVIOUS
      <4> HIDE DEF B
      <4> QED BY <4>2, <4>3, <4>4
    <3>2. Cardinality(1 .. k) = k
      BY <1>9, FirstAre
    <3> QED BY <1>1, <3>1, <3>2 DEF RecordsBegun, E
  <2>3. CASE k \notin B
    <3>1. B = 1 .. k - 1
      <4>2. \A m : m \in 1 .. k - 1 <=> m \in 1 .. n /\ m < k
        BY <1>1, <1>9
      <4>3. \A m \in 1 .. n : m \in B <=> m < k
        <5> SUFFICES ASSUME NEW m \in 1 .. n PROVE m \in B <=> m < k
          OBVIOUS
        <5>1. m \in Nat /\ (m <= k <=> m < k \/ m = k)
          BY <1>1, <1>9
        <5> QED BY <2>1, <2>3, <5>1
      <4>4. \A m : m \in B => m \in 1 .. n
        OBVIOUS
      <4> HIDE DEF B
      <4> QED BY <4>2, <4>3, <4>4
    <3>2. Cardinality(1 .. k - 1) = k - 1
      BY <1>9, FirstAre
    <3> QED BY <1>1, <3>1, <3>2 DEF RecordsBegun, E
  <2> QED BY <2>2, <2>3
<1>12. ReadFlows(copied) = k - 1
  BY <1>10 DEF ReadFlows, GlobalHeader
<1> QED BY <1>8, <1>9, <1>11, <1>12

----------------------------------------------------------------------------
(* A datagram: its receiver reports.                                       *)
(* Blocks a header announces.                                              *)
Announced(h) == IF Reporting(h) THEN h.count ELSE 0

(* The numbers of a header.                                                *)
LEMMA HeaderTypes ==
    ASSUME ReportConstants, NEW h \in Headers
    PROVE  /\ h.words \in Nat /\ h.count \in Nat /\ h.last \in Nat /\ h.kind \in Nat
           /\ h.padding \in BOOLEAN
           /\ PacketSize(h) \in Nat /\ PacketSize(h) >= 4
           /\ Unpadded(h) \in Int /\ Unpadded(h) <= PacketSize(h)
           /\ Announced(h) \in Nat
<1>1. /\ h.words \in Nat /\ h.count \in Nat /\ h.last \in Nat /\ h.kind \in Nat
      /\ h.padding \in BOOLEAN
  BY DEF ReportConstants
<1>2. PacketSize(h) \in Nat /\ PacketSize(h) >= 4
  BY <1>1 DEF PacketSize
<1>3. Unpadded(h) \in Int /\ Unpadded(h) <= PacketSize(h)
  BY <1>1, <1>2 DEF Unpadded
<1> QED BY <1>1, <1>2, <1>3 DEF Announced

(* The sizes of the packets, and where a packet ends.                      *)
PacketSizes == [n \in DOMAIN packets |-> PacketSize(packets[n])]

PacketEnd(n) == Span(PacketSizes, 1, n)

(* The sizes are a sequence of numbers.                                    *)
LEMMA SizesAre ==
    ASSUME ReportConstants, ReportsTypeOK
    PROVE  /\ Len(packets) \in Nat /\ DOMAIN packets = 1 .. Len(packets)
           /\ PacketSizes \in Seq(Nat) /\ Len(PacketSizes) = Len(packets)
           /\ \A n \in 1 .. Len(packets) :
                 packets[n] \in Headers /\ PacketSizes[n] = PacketSize(packets[n])
<1>1. /\ Len(packets) \in Nat /\ DOMAIN packets = 1 .. Len(packets)
      /\ \A n \in 1 .. Len(packets) : packets[n] \in Headers
  BY DEF ReportsTypeOK
<1>2. \A n \in 1 .. Len(packets) : PacketSize(packets[n]) \in Nat
  BY <1>1, HeaderTypes
<1>3. PacketSizes = [n \in 1 .. Len(packets) |-> PacketSize(packets[n])]
  BY <1>1 DEF PacketSizes
<1>4. PacketSizes \in [1 .. Len(packets) -> Nat]
  BY <1>2, <1>3
<1>5. PacketSizes \in Seq(Nat)
  BY <1>1, <1>4
<1>6. Len(PacketSizes) = Len(packets)
  BY <1>1, <1>4, <1>5
<1> QED BY <1>1, <1>3, <1>5, <1>6

(* TotalSize is the sum it is written as.                                  *)
LEMMA TotalSizeIs ==
    ASSUME NEW headers
    PROVE  TotalSize(headers) = Total([n \in DOMAIN headers |-> PacketSize(headers[n])])
BY DEF TotalSize, Total

(* Packets end where TotalSize says, each by its size behind the one       *)
(* before it.                                                              *)
LEMMA PacketEnds ==
    ASSUME ReportConstants, ReportsTypeOK
    PROVE  /\ PacketEnd(0) = 0
           /\ \A n \in 0 .. Len(packets) :
                 PacketEnd(n) \in Nat /\ TotalSize(SubSeq(packets, 1, n)) = PacketEnd(n)
           /\ \A n \in 1 .. Len(packets) :
                 PacketEnd(n) = PacketEnd(n - 1) + PacketSize(packets[n])
<1> DEFINE N == Len(packets)
<1>1. /\ N \in Nat /\ PacketSizes \in Seq(Nat) /\ Len(PacketSizes) = N
      /\ \A n \in 1 .. N : PacketSizes[n] = PacketSize(packets[n])
  BY SizesAre
<1>2. PacketEnd(0) = 0
  <2>1. 1 \in Nat \ {0} /\ 1 - 1 = 0
    OBVIOUS
  <2> QED BY <2>1, SpanOfNone DEF PacketEnd
<1>3. ASSUME NEW n \in 0 .. N
      PROVE  PacketEnd(n) \in Nat /\ TotalSize(SubSeq(packets, 1, n)) = PacketEnd(n)
  <2>1. 1 \in 1 .. Len(PacketSizes) + 1 /\ n \in 1 - 1 .. Len(PacketSizes)
    BY <1>1
  <2>2. PacketEnd(n) \in Nat
    BY <1>1, <2>1, SpanType DEF PacketEnd
  <2>3. packets \in Seq(Headers) /\ n \in Nat /\ n <= N
    BY <1>1 DEF ReportsTypeOK
  <2> DEFINE part == SubSeq(packets, 1, n)
  <2>4. DOMAIN part = 1 .. n /\ \A m \in 1 .. n : part[m] = packets[m]
    BY <2>3
  <2>5. /\ SubSeq(PacketSizes, 1, n) = [m \in 1 .. n |-> PacketSizes[m]]
    BY <1>1, <2>3
  <2> HIDE DEF part
  <2>6. \A m \in 1 .. n : PacketSize(part[m]) = PacketSizes[m]
    BY <1>1, <2>3, <2>4
  <2>7. [m \in DOMAIN part |-> PacketSize(part[m])] = SubSeq(PacketSizes, 1, n)
    BY <2>4, <2>5, <2>6
  <2>8. TotalSize(part) = Total(SubSeq(PacketSizes, 1, n))
    BY <2>7, TotalSizeIs
  <2> QED BY <2>2, <2>8 DEF PacketEnd, Span, part
<1>4. ASSUME NEW n \in 1 .. N PROVE PacketEnd(n) = PacketEnd(n - 1) + PacketSize(packets[n])
  <2>1. 1 \in 1 .. Len(PacketSizes) /\ n - 1 \in 1 - 1 .. Len(PacketSizes) - 1
    BY <1>1
  <2>2. (n - 1) + 1 = n
    BY <1>1
  <2>3. Span(PacketSizes, 1, (n - 1) + 1) =
           Span(PacketSizes, 1, n - 1) + PacketSizes[(n - 1) + 1]
    BY <1>1, <2>1, SpanOfMore
  <2> QED BY <1>1, <2>2, <2>3 DEF PacketEnd
<1> QED BY <1>2, <1>3, <1>4

(* They ascend.                                                            *)
LEMMA PacketsAscend ==
    ASSUME ReportConstants, ReportsTypeOK, NEW i \in 0 .. Len(packets),
           NEW j \in 0 .. Len(packets)
    PROVE  /\ PacketEnd(i) \in Nat /\ PacketEnd(j) \in Nat
           /\ i <= j => PacketEnd(i) <= PacketEnd(j)
           /\ i < j => PacketEnd(i) < PacketEnd(j)
<1> DEFINE N == Len(packets)
           S == {k \in Nat : i + k <= N => PacketEnd(i) + k <= PacketEnd(i + k)}
<1>1. /\ N \in Nat /\ \A n \in 1 .. N : packets[n] \in Headers
  BY SizesAre
<1>2. \A n \in 0 .. N : PacketEnd(n) \in Nat
  BY PacketEnds
<1>3. \A n \in 1 .. N : PacketEnd(n - 1) + 1 <= PacketEnd(n)
  <2> SUFFICES ASSUME NEW n \in 1 .. N PROVE PacketEnd(n - 1) + 1 <= PacketEnd(n)
    OBVIOUS
  <2>1. PacketEnd(n) = PacketEnd(n - 1) + PacketSize(packets[n])
    BY PacketEnds
  <2>2. PacketSize(packets[n]) \in Nat /\ PacketSize(packets[n]) >= 4
    BY <1>1, HeaderTypes
  <2>3. n - 1 \in 0 .. N
    BY <1>1
  <2>4. PacketEnd(n - 1) \in Nat
    BY <1>2, <2>3
  <2> QED BY <2>1, <2>2, <2>4
<1>4. 0 \in S
  BY <1>1, <1>2
<1>5. ASSUME NEW k \in Nat, k \in S PROVE k + 1 \in S
  <2> SUFFICES ASSUME i + (k + 1) <= N PROVE PacketEnd(i) + (k + 1) <= PacketEnd(i + (k + 1))
    OBVIOUS
  <2> PICK m : m = i + k
    OBVIOUS
  <2>1. /\ m + 1 \in 1 .. N /\ m \in 0 .. N /\ m + 1 \in 0 .. N /\ m <= N
        /\ i + (k + 1) = m + 1 /\ (m + 1) - 1 = m
    BY <1>1
  <2>2. PacketEnd(i) + k <= PacketEnd(m)
    BY <1>5, <2>1
  <2>3. PacketEnd(m) + 1 <= PacketEnd(m + 1)
    BY <1>3, <2>1
  <2>4. PacketEnd(i) \in Nat /\ PacketEnd(m) \in Nat /\ PacketEnd(m + 1) \in Nat
    BY <1>2, <2>1
  <2> QED BY <2>1, <2>2, <2>3, <2>4
<1>6. \A k \in Nat : k \in S
  <2> HIDE DEF S
  <2> QED BY <1>4, <1>5, Induction
<1>7. ASSUME i <= j PROVE PacketEnd(i) + (j - i) <= PacketEnd(j)
  <2>1. j - i \in Nat /\ i + (j - i) = j /\ j <= N
    BY <1>1, <1>7
  <2>2. j - i \in S
    BY <1>6, <2>1
  <2>3. i + (j - i) <= N => PacketEnd(i) + (j - i) <= PacketEnd(i + (j - i))
    BY <2>2
  <2> QED BY <2>1, <2>3
<1>8. PacketEnd(i) \in Nat /\ PacketEnd(j) \in Nat /\ i \in Nat /\ j \in Nat
  BY <1>1, <1>2
<1> HIDE DEF N, S
<1> QED BY <1>7, <1>8

(* What the loop of decode_reports has come to behind the last packet.     *)
DecodedTo == FoldLeft(Decode, [offset |-> 0, reports |-> <<>>], packets)

(* What DecodeReports goes through, over the first n packets.              *)
Decodings(n, iter) ==
    iter = [x \in SUBSET (1 .. n) |->
              IF x = {} THEN [offset |-> 0, reports |-> <<>>]
              ELSE Decode(iter[x \ {Max(x)}], packets[Max(x)])]

(* There is such a function.                                               *)
LEMMA DecodingsExist == ASSUME NEW n \in Nat PROVE \E iter : Decodings(n, iter)
<1> DEFINE base == [offset |-> 0, reports |-> <<>>]
           S == {k \in Nat : \E iter : Decodings(k, iter)}
<1>0. \A k, iter : Decodings(k, iter) <=>
        iter = [x \in SUBSET (1 .. k) |->
                  IF x = {} THEN base ELSE Decode(iter[x \ {Max(x)}], packets[Max(x)])]
  BY DEF Decodings
<1> HIDE DEF base
<1>1. 0 \in S
  <2> DEFINE g == [x \in SUBSET (1 .. 0) |-> base]
  <2>1. \A x \in SUBSET (1 .. 0) : x = {}
    OBVIOUS
  <2>2. g = [x \in SUBSET (1 .. 0) |->
              IF x = {} THEN base ELSE Decode(g[x \ {Max(x)}], packets[Max(x)])]
    BY <2>1
  <2> HIDE DEF g
  <2>3. Decodings(0, g)
    BY <1>0, <2>2
  <2> QED BY <2>3
<1>2. ASSUME NEW k \in Nat, k \in S PROVE k + 1 \in S
  <2>1. PICK iter : Decodings(k, iter)
    BY <1>2
  <2> DEFINE Small == SUBSET (1 .. k)
             Large == SUBSET (1 .. k + 1)
             body(f, x) == IF x = {} THEN base ELSE Decode(f[x \ {Max(x)}], packets[Max(x)])
             g == [x \in Large |-> IF x \in Small THEN iter[x]
                                  ELSE Decode(iter[x \ {k + 1}], packets[k + 1])]
  <2>a. iter = [x \in Small |->
                  IF x = {} THEN base ELSE Decode(iter[x \ {Max(x)}], packets[Max(x)])]
    BY <1>0, <2>1
  <2>2. \A x \in Small : iter[x] = body(iter, x)
    <3> SUFFICES ASSUME NEW x \in Small PROVE iter[x] = body(iter, x)
      OBVIOUS
    <3> HIDE DEF Small
    <3> QED BY <2>a, Zenon
  <2>3. ASSUME NEW x \in Large PROVE g[x] = body(g, x)
    <3>1. CASE x \in Small
      <4>1. g[x] = iter[x]
        BY <3>1
      <4>2. CASE x = {}
        BY <2>2, <3>1, <4>1, <4>2
      <4>3. CASE x # {}
        <5>1. Max(x) \in x
          BY <3>1, <4>3, MaxIsFirst
        <5>2. x \ {Max(x)} \in Small /\ x \ {Max(x)} \in Large
          BY <3>1
        <5>3. g[x \ {Max(x)}] = iter[x \ {Max(x)}]
          BY <5>2
        <5> HIDE DEF g
        <5> QED BY <2>2, <3>1, <4>1, <4>3, <5>3
      <4> QED BY <4>2, <4>3
    <3>2. CASE x \notin Small
      <4>1. k + 1 \in x /\ x # {}
        BY <3>2
      <4>2. Max(x) = k + 1 /\ x \ {Max(x)} \in Small
        BY <4>1, MaxOfFirst
      <4>3. g[x] = Decode(iter[x \ {k + 1}], packets[k + 1])
        BY <3>2
      <4>4. x \ {Max(x)} \in Large
        OBVIOUS
      <4>5. g[x \ {Max(x)}] = iter[x \ {Max(x)}]
        BY <4>2, <4>4
      <4> HIDE DEF g
      <4> QED BY <4>1, <4>2, <4>3, <4>5
    <3> QED BY <3>1, <3>2
  <2>4. g = [x \in Large |-> g[x]]
    OBVIOUS
  <2> HIDE DEF g
  <2>5. g = [x \in Large |-> body(g, x)]
    BY <2>3, <2>4, Zenon
  <2>6. Decodings(k + 1, g)
    BY <1>0, <2>5
  <2> QED BY <2>6
<1>3. n \in S
  <2> HIDE DEF S
  <2> QED BY <1>1, <1>2, Induction
<1> QED BY <1>3

(* DecodeReports, packet by packet.                                        *)
LEMMA DecodeSteps ==
    ASSUME DOMAIN packets = 1 .. Len(packets), Len(packets) \in Nat
    PROVE  \E acc : /\ acc[0] = [offset |-> 0, reports |-> <<>>]
                    /\ DecodedTo = acc[Len(packets)]
                    /\ \A k \in 1 .. Len(packets) : acc[k] = Decode(acc[k - 1], packets[k])
<1> DEFINE n == Len(packets)
           base == [offset |-> 0, reports |-> <<>>]
           iter == CHOOSE iter : Decodings(n, iter)
           acc == [k \in 0 .. n |-> iter[1 .. k]]
<1>1. Decodings(n, iter)
  BY DecodingsExist
<1>2. DecodedTo = iter[1 .. n]
  <2>1. DecodedTo = (CHOOSE it : it = [x \in SUBSET DOMAIN packets |->
              IF x = {} THEN base
              ELSE Decode(it[x \ {Max(x)}], packets[Max(x)])])[DOMAIN packets]
    BY DEF DecodedTo, FoldLeft, MapThenFoldSet
  <2> QED BY <2>1 DEF Decodings
<1> HIDE DEF iter
<1>0. iter = [x \in SUBSET (1 .. n) |->
                IF x = {} THEN base ELSE Decode(iter[x \ {Max(x)}], packets[Max(x)])]
  BY <1>1 DEF Decodings
<1> HIDE DEF base
<1>3. acc[0] = base
  <2>1. 1 .. 0 = {}
    OBVIOUS
  <2> QED BY <1>0, <2>1
<1>4. ASSUME NEW k \in 1 .. n PROVE acc[k] = Decode(acc[k - 1], packets[k])
  <2>1. PICK j \in Nat : k = j + 1
    <3>1. k - 1 \in Nat /\ k = (k - 1) + 1
      OBVIOUS
    <3> QED BY <3>1
  <2>2. Max(1 .. k) = k
    <3>1. 1 .. k \in SUBSET (1 .. j + 1) /\ j + 1 \in 1 .. k
      BY <2>1
    <3> QED BY <2>1, <3>1, MaxOfFirst
  <2>3. (1 .. k) \ {k} = 1 .. k - 1
    BY <2>1
  <2>4. 1 .. k # {} /\ 1 .. k \in SUBSET (1 .. n)
    BY <2>1
  <2>5. iter[1 .. k] = Decode(iter[1 .. k - 1], packets[k])
    BY <1>0, <2>2, <2>3, <2>4
  <2>6. k \in 0 .. n /\ k - 1 \in 0 .. n
    OBVIOUS
  <2> QED BY <2>5, <2>6
<1>5. DecodedTo = acc[n]
  BY <1>2
<1> HIDE DEF acc
<1> QED BY <1>3, <1>4, <1>5 DEF base

----------------------------------------------------------------------------
(* A report at x is in packet n, clear of its header and padding.          *)
InPacket(n, x) ==
    /\ PacketEnd(n - 1) + 8 <= x
    /\ x + 24 <= PacketEnd(n - 1) + Unpadded(packets[n])

(* The reports r of the first m packets: in order and without overlap,     *)
(* each in a packet, and of each packet as many as it announces, in a row. *)
Found(m, r) ==
    /\ r \in Seq(Nat)
    /\ \A i \in 1 .. Len(r) : r[i] + 24 <= PacketEnd(m)
    /\ \A i \in 1 .. Len(r) - 1 : r[i] + 24 <= r[i + 1]
    /\ \A n \in 1 .. m : \E lo \in Nat :
          {i \in 1 .. Len(r) : InPacket(n, r[i])} = lo + 1 .. lo + Announced(packets[n])
    /\ \A i \in 1 .. Len(r) : \E n \in 1 .. m : InPacket(n, r[i])

(* The blocks of one packet.                                               *)
BlocksOf(h, p) == IF Reporting(h) THEN Blocks(h, p) ELSE <<>>

(* They are as many as announced, one behind the other, and in the packet. *)
LEMMA NewBlocks ==
    ASSUME ReportConstants, NEW h \in Headers, NEW p \in Nat, Reporting(h) => BlocksFit(h)
    PROVE  LET b == BlocksOf(h, p)
           IN  /\ b \in Seq(Nat) /\ Len(b) = Announced(h)
               /\ \A i \in 1 .. Len(b) : p + 8 <= b[i] /\ b[i] + 24 <= p + Unpadded(h)
               /\ \A i \in 1 .. Len(b) - 1 : b[i + 1] = b[i] + 24
<1> DEFINE b == BlocksOf(h, p)
<1>1. CASE ~Reporting(h)
  <2>1. b = <<>> /\ Announced(h) = 0
    BY <1>1 DEF BlocksOf, Announced
  <2> HIDE DEF b
  <2>2. b \in Seq(Nat) /\ Len(b) = 0
    BY <2>1
  <2>3. \A i \in 1 .. 0 : FALSE
    OBVIOUS
  <2>4. \A i \in 1 .. 0 - 1 : FALSE
    OBVIOUS
  <2> QED BY <2>1, <2>2, <2>3, <2>4 DEF b
<1>2. CASE Reporting(h)
  <2> PICK first, c, u : first = FirstBlock(h) /\ c = h.count /\ u = Unpadded(h)
    OBVIOUS
  <2>1. c \in Nat /\ u \in Int /\ (first = 8 \/ first = 28) /\ u >= first + 24 * c
    BY <1>2, HeaderTypes DEF FirstBlock, BlocksFit
  <2>2. b = [i \in 1 .. c |-> p + first + 24 * (i - 1)]
    BY <1>2 DEF BlocksOf, Blocks
  <2> HIDE DEF b
  <2>3. Announced(h) = c
    BY <1>2 DEF Announced
  <2>4. \A i \in 1 .. c : /\ b[i] = p + first + 24 * (i - 1) /\ b[i] \in Nat
                          /\ p + 8 <= b[i] /\ b[i] + 24 <= p + u
    <3> SUFFICES ASSUME NEW i \in 1 .. c
                 PROVE  /\ b[i] = p + first + 24 * (i - 1) /\ b[i] \in Nat
                        /\ p + 8 <= b[i] /\ b[i] + 24 <= p + u
      OBVIOUS
    <3>1. b[i] = p + first + 24 * (i - 1)
      BY <2>2
    <3> PICK x : x = b[i]
      OBVIOUS
    <3>2. i \in Nat /\ 1 <= i /\ i <= c
      BY <2>1
    <3> QED BY <2>1, <3>1, <3>2
  <2>5. b \in [1 .. c -> Nat]
    BY <2>2, <2>4
  <2>6. b \in Seq(Nat) /\ Len(b) = c
    BY <2>1, <2>5
  <2>7. \A i \in 1 .. c - 1 : b[i + 1] = b[i] + 24
    <3> SUFFICES ASSUME NEW i \in 1 .. c - 1 PROVE b[i + 1] = b[i] + 24
      OBVIOUS
    <3>1. i \in 1 .. c /\ i + 1 \in 1 .. c /\ i \in Nat
      BY <2>1
    <3>2. b[i] = p + first + 24 * (i - 1) /\ b[i + 1] = p + first + 24 * ((i + 1) - 1)
      BY <2>4, <3>1
    <3> QED BY <2>1, <3>1, <3>2
  <2> QED BY <2>3, <2>4, <2>6, <2>7 DEF b
<1> QED BY <1>1, <1>2

(* Before the first packet nothing has been found.                         *)
LEMMA FoundNone == Found(0, <<>>)
<1>1. <<>> \in Seq(Nat) /\ Len(<<>>) = 0
  OBVIOUS
<1>2. \A i \in 1 .. 0 : FALSE
  OBVIOUS
<1>3. \A i \in 1 .. 0 - 1 : FALSE
  OBVIOUS
<1> QED BY <1>1, <1>2, <1>3 DEF Found

(* Nothing is in two packets.                                              *)
LEMMA NotBoth ==
    ASSUME NEW p \in Nat, NEW e \in Nat, NEW size \in Nat, NEW u \in Int, NEW x \in Nat,
           u <= size, e + size <= p, x + 24 <= e + u
    PROVE  ~(p + 8 <= x)
OBVIOUS

(* A packet adds its blocks behind those of the packets before it.         *)
LEMMA FoundMore ==
    ASSUME ReportConstants, ReportsTypeOK, NEW m \in Nat, m < Len(packets), NEW r, Found(m, r),
           Reporting(packets[m + 1]) => BlocksFit(packets[m + 1])
    PROVE  Found(m + 1, r \o BlocksOf(packets[m + 1], PacketEnd(m)))
<1> DEFINE h == packets[m + 1]
           p == PacketEnd(m)
           b == BlocksOf(h, p)
           q == r \o b
           L == Len(r)
           B == Len(b)
<1>1. /\ Len(packets) \in Nat /\ \A n \in 1 .. Len(packets) : packets[n] \in Headers
  BY SizesAre
<1>2. m + 1 \in 1 .. Len(packets) /\ (m + 1) - 1 = m /\ m \in 0 .. Len(packets)
      /\ m + 1 \in 0 .. Len(packets)
  BY <1>1
<1>3. h \in Headers
  BY <1>1, <1>2
<1>4. \A n \in 0 .. Len(packets) : PacketEnd(n) \in Nat
  BY PacketEnds
<1>5. p \in Nat /\ PacketEnd(m + 1) = p + PacketSize(h)
  BY <1>2, <1>4, PacketEnds
<1>6. /\ PacketSize(h) \in Nat /\ Unpadded(h) \in Int /\ Unpadded(h) <= PacketSize(h)
      /\ Announced(h) \in Nat
  BY <1>3, HeaderTypes
<1> HIDE DEF p
<1>7. /\ b \in Seq(Nat) /\ B = Announced(h)
      /\ \A i \in 1 .. B : p + 8 <= b[i] /\ b[i] + 24 <= p + Unpadded(h)
      /\ \A i \in 1 .. B - 1 : b[i + 1] = b[i] + 24
  BY <1>3, <1>5, NewBlocks
<1> HIDE DEF b, h
<1>8. /\ r \in Seq(Nat)
      /\ \A i \in 1 .. L : r[i] + 24 <= p
      /\ \A i \in 1 .. L - 1 : r[i] + 24 <= r[i + 1]
      /\ \A n \in 1 .. m : \E lo \in Nat :
            {i \in 1 .. L : InPacket(n, r[i])} = lo + 1 .. lo + Announced(packets[n])
      /\ \A i \in 1 .. L : \E n \in 1 .. m : InPacket(n, r[i])
  BY DEF Found, p
<1>9. L \in Nat /\ B \in Nat
  BY <1>7, <1>8
<1>10. /\ q \in Seq(Nat) /\ Len(q) = L + B
       /\ \A i \in 1 .. L : q[i] = r[i]
       /\ \A i \in 1 .. B : q[L + i] = b[i]
  BY <1>7, <1>8, Concat
<1>11. \A i \in 1 .. L : r[i] \in Nat
  BY <1>8
<1>12. \A i \in 1 .. B : b[i] \in Nat
  BY <1>7
<1> HIDE DEF q, L, B
<1>13. \A i \in 1 .. Len(q) : i \in 1 .. L \/ (i - L \in 1 .. B /\ i = L + (i - L) /\ i > L)
  BY <1>9, <1>10
<1>14. PacketEnd(m + 1) \in Nat /\ p <= PacketEnd(m + 1)
       /\ p + Unpadded(h) <= PacketEnd(m + 1)
  BY <1>5, <1>6
<1>15. \A i \in 1 .. Len(q) : q[i] + 24 <= PacketEnd(m + 1)
  <2> SUFFICES ASSUME NEW i \in 1 .. Len(q) PROVE q[i] + 24 <= PacketEnd(m + 1)
    OBVIOUS
  <2>1. CASE i \in 1 .. L
    <3>1. q[i] = r[i] /\ r[i] \in Nat /\ r[i] + 24 <= p
      BY <1>8, <1>10, <1>11, <2>1
    <3> QED BY <1>5, <1>14, <3>1
  <2>2. CASE i - L \in 1 .. B /\ i = L + (i - L)
    <3>1. PICK j \in 1 .. B : i = L + j
      BY <2>2
    <3> PICK x, y, z : x = b[j] /\ y = p + Unpadded(h) /\ z = PacketEnd(m + 1)
      OBVIOUS
    <3>2. q[i] = x
      BY <1>10, <3>1
    <3>3. x \in Nat /\ x + 24 <= y
      BY <1>7, <1>12
    <3>4. y \in Int /\ z \in Nat /\ y <= z
      BY <1>5, <1>6, <1>14
    <3>5. x + 24 <= z
      BY <3>3, <3>4
    <3> QED BY <3>2, <3>5
  <2> QED BY <1>13, <2>1, <2>2
<1>16. \A i \in 1 .. Len(q) - 1 : q[i] + 24 <= q[i + 1]
  <2> SUFFICES ASSUME NEW i \in 1 .. Len(q) - 1 PROVE q[i] + 24 <= q[i + 1]
    OBVIOUS
  <2>0. i \in Nat /\ 1 <= i /\ i + 1 <= L + B /\ i \in 1 .. Len(q) /\ i + 1 \in 1 .. Len(q)
    BY <1>9, <1>10
  <2>1. CASE i + 1 <= L
    <3>1. i \in 1 .. L /\ i + 1 \in 1 .. L /\ i \in 1 .. L - 1
      BY <1>9, <2>0, <2>1
    <3> QED BY <1>8, <1>10, <3>1
  <2>2. CASE i = L
    <3>1. i \in 1 .. L /\ 1 \in 1 .. B
      BY <1>9, <2>0, <2>2
    <3>2. q[i] = r[i] /\ r[i] \in Nat /\ r[i] + 24 <= p
      BY <1>8, <1>10, <1>11, <3>1
    <3>3. q[i + 1] = b[1] /\ b[1] \in Nat /\ p + 8 <= b[1]
      BY <1>7, <1>10, <1>12, <2>2, <3>1
    <3> QED BY <1>5, <3>2, <3>3
  <2>3. CASE i > L
    <3> PICK j : j = i - L
      OBVIOUS
    <3>1. /\ j \in 1 .. B - 1 /\ j \in 1 .. B /\ j + 1 \in 1 .. B
          /\ i = L + j /\ i + 1 = L + (j + 1)
      BY <1>9, <2>0, <2>3
    <3>2. q[i] = b[j] /\ q[i + 1] = b[j + 1] /\ b[j + 1] = b[j] + 24 /\ b[j] \in Nat
      BY <1>7, <1>10, <1>12, <3>1
    <3> QED BY <3>2
  <2> QED BY <1>9, <2>0, <2>1, <2>2, <2>3
<1>17. \A i \in 1 .. L : ~InPacket(m + 1, r[i])
  <2> SUFFICES ASSUME NEW i \in 1 .. L PROVE ~(p + 8 <= r[i])
    BY <1>2 DEF InPacket, p
  <2>1. r[i] \in Nat /\ r[i] + 24 <= p
    BY <1>8, <1>11
  <2> QED BY <1>5, <2>1
<1>18. \A i \in 1 .. B : InPacket(m + 1, b[i])
  BY <1>2, <1>7 DEF InPacket, p, h
<1>19. \A n \in 1 .. m : \A i \in 1 .. B : ~InPacket(n, b[i])
  <2> SUFFICES ASSUME NEW n \in 1 .. m, NEW i \in 1 .. B, InPacket(n, b[i]) PROVE FALSE
    OBVIOUS
  <2>1. n \in 1 .. Len(packets) /\ n \in 0 .. Len(packets) /\ n - 1 \in 0 .. Len(packets)
        /\ n <= m
    BY <1>1, <1>2
  <2> PICK u, size, e : u = Unpadded(packets[n]) /\ size = PacketSize(packets[n])
                        /\ e = PacketEnd(n - 1)
    OBVIOUS
  <2>2. u \in Int /\ size \in Nat /\ u <= size
    BY <1>1, <2>1, HeaderTypes
  <2>3. PacketEnd(n) = e + size /\ e \in Nat
    BY <1>4, <2>1, PacketEnds
  <2>4. PacketEnd(n) <= p
    BY <1>2, <2>1, PacketsAscend DEF p
  <2>5. b[i] + 24 <= e + u
    BY DEF InPacket
  <2>6. b[i] \in Nat /\ p + 8 <= b[i]
    BY <1>7, <1>12
  <2> PICK x, end : x = b[i] /\ end = PacketEnd(n)
    OBVIOUS
  <2>7. x \in Nat /\ p + 8 <= x /\ x + 24 <= e + u /\ end = e + size /\ end <= p
    BY <2>3, <2>4, <2>5, <2>6
  <2>8. x \in Nat /\ p \in Nat /\ e \in Nat /\ size \in Nat /\ u \in Int /\ u <= size
    BY <1>5, <2>2, <2>3, <2>7
  <2>9. p + 8 <= x /\ x + 24 <= e + u /\ e + size <= p
    BY <2>7
  <2> QED BY <2>8, <2>9, NotBoth
<1>20. ASSUME NEW n \in 1 .. m + 1
       PROVE  \E lo \in Nat :
                 {i \in 1 .. Len(q) : InPacket(n, q[i])} = lo + 1 .. lo + Announced(packets[n])
  <2>1. CASE n = m + 1
    <3>1. \A i \in 1 .. Len(q) : InPacket(n, q[i]) <=> i > L
      <4> SUFFICES ASSUME NEW i \in 1 .. Len(q) PROVE InPacket(n, q[i]) <=> i > L
        OBVIOUS
      <4>1. CASE i \in 1 .. L
        <5>1. q[i] = r[i] /\ ~(i > L)
          BY <1>9, <1>10, <4>1
        <5> QED BY <1>17, <2>1, <4>1, <5>1
      <4>2. CASE i - L \in 1 .. B /\ i = L + (i - L) /\ i > L
        <5>1. PICK j \in 1 .. B : i = L + j
          BY <4>2
        <5>2. q[i] = b[j]
          BY <1>10, <5>1
        <5>3. InPacket(n, b[j])
          BY <1>18, <2>1
        <5> QED BY <4>2, <5>2, <5>3
      <4> QED BY <1>13, <4>1, <4>2
    <3>2. \A i : i \in L + 1 .. L + B <=> i \in 1 .. Len(q) /\ i > L
      BY <1>9, <1>10
    <3>3. {i \in 1 .. Len(q) : InPacket(n, q[i])} = L + 1 .. L + B
      BY <3>1, <3>2
    <3>4. B = Announced(packets[n])
      BY <1>7, <2>1 DEF h
    <3> QED BY <1>9, <3>3, <3>4
  <2>2. CASE n # m + 1
    <3>1. n \in 1 .. m
      BY <2>2
    <3>2. PICK lo \in Nat :
             {i \in 1 .. L : InPacket(n, r[i])} = lo + 1 .. lo + Announced(packets[n])
      BY <1>8, <3>1
    <3>3. \A i \in 1 .. Len(q) : InPacket(n, q[i]) <=> i \in 1 .. L /\ InPacket(n, r[i])
      <4> SUFFICES ASSUME NEW i \in 1 .. Len(q)
                   PROVE  InPacket(n, q[i]) <=> i \in 1 .. L /\ InPacket(n, r[i])
        OBVIOUS
      <4>1. CASE i \in 1 .. L
        BY <1>10, <4>1
      <4>2. CASE i - L \in 1 .. B /\ i = L + (i - L) /\ i > L
        <5>1. i \notin 1 .. L
          BY <1>9, <4>2
        <5>2. PICK j \in 1 .. B : i = L + j
          BY <4>2
        <5>3. q[i] = b[j]
          BY <1>10, <5>2
        <5>4. ~InPacket(n, b[j])
          BY <1>19, <3>1
        <5> QED BY <5>1, <5>3, <5>4
      <4> QED BY <1>13, <4>1, <4>2
    <3>4. \A i : i \in 1 .. L => i \in 1 .. Len(q)
      BY <1>9, <1>10
    <3>5. {i \in 1 .. Len(q) : InPacket(n, q[i])} = {i \in 1 .. L : InPacket(n, r[i])}
      BY <3>3, <3>4
    <3> QED BY <3>2, <3>5
  <2> QED BY <2>1, <2>2
<1>21. \A i \in 1 .. Len(q) : \E n \in 1 .. m + 1 : InPacket(n, q[i])
  <2> SUFFICES ASSUME NEW i \in 1 .. Len(q) PROVE \E n \in 1 .. m + 1 : InPacket(n, q[i])
    OBVIOUS
  <2>1. CASE i \in 1 .. L
    <3>1. PICK n \in 1 .. m : InPacket(n, r[i])
      BY <1>8, <2>1
    <3>2. n \in 1 .. m + 1 /\ q[i] = r[i]
      BY <1>10, <2>1
    <3> QED BY <3>1, <3>2
  <2>2. CASE i - L \in 1 .. B /\ i = L + (i - L) /\ i > L
    <3>1. PICK j \in 1 .. B : i = L + j
      BY <2>2
    <3>2. q[i] = b[j] /\ m + 1 \in 1 .. m + 1
      BY <1>10, <3>1
    <3>3. InPacket(m + 1, b[j])
      BY <1>18
    <3> QED BY <3>2, <3>3
  <2> QED BY <1>13, <2>1, <2>2
<1>22. Found(m + 1, q)
  BY <1>10, <1>15, <1>16, <1>20, <1>21 DEF Found
<1> QED BY <1>22 DEF q, b, h, p

(* Where decode_reports is behind packet k: it has read m packets, as many *)
(* as there were bytes for, and only the last of them may be padded.       *)
Reads(k, m, o, r) ==
    /\ m \in 0 .. k /\ o = PacketEnd(m) /\ o <= octets
    /\ m = k \/ o >= octets
    /\ Found(m, r)
    /\ \A n \in 1 .. m : packets[n].padding => PacketEnd(n) = octets

Progress(k, d) ==
    \/ d = Malformed
    \/ \E m, o, r : d = [offset |-> o, reports |-> r] /\ Reads(k, m, o, r)

(* A progress is not taken for the malformed one.                          *)
LEMMA NotMalformed ==
    ASSUME ReportConstants, NEW o \in Nat, NEW r \in Seq(Nat)
    PROVE  [offset |-> o, reports |-> r] # Malformed
<1>1. [offset |-> o, reports |-> r] \in [offset : Nat, reports : Seq(Nat)]
  OBVIOUS
<1>2. Malformed \notin [offset : Nat, reports : Seq(Nat)]
  BY DEF ReportConstants
<1> QED BY <1>1, <1>2

(* One packet.                                                             *)
LEMMA DecodeKeeps ==
    ASSUME ReportConstants, ReportsTypeOK, NEW k \in Nat, k < Len(packets), NEW d,
           Progress(k, d)
    PROVE  Progress(k + 1, Decode(d, packets[k + 1]))
<1> DEFINE h == packets[k + 1]
           next == Decode(d, h)
<1>0. octets \in Nat /\ Len(packets) \in Nat
  <2>1. Len(packets) \in Nat
    BY SizesAre
  <2> QED BY <2>1 DEF ReportsTypeOK, ReportConstants
<1>1. CASE d = Malformed
  BY <1>1 DEF Decode, Progress
<1>2. CASE d # Malformed
  <2>1. PICK m, o, r : d = [offset |-> o, reports |-> r] /\ Reads(k, m, o, r)
    BY <1>2 DEF Progress
  <2>2. /\ m \in 0 .. k /\ o = PacketEnd(m) /\ o <= octets /\ (m = k \/ o >= octets)
        /\ Found(m, r)
        /\ \A n \in 1 .. m : packets[n].padding => PacketEnd(n) = octets
    BY <2>1 DEF Reads
  <2>3. d.offset = o /\ d.reports = r
    BY <2>1
  <2>4. m \in 0 .. Len(packets) /\ o \in Nat
    <3>1. m \in 0 .. Len(packets)
      BY <1>0, <2>2
    <3> QED BY <2>2, <3>1, PacketEnds
  <2>5. CASE o >= octets
    <3>1. next = d
      BY <2>3, <2>5 DEF Decode
    <3>2. m \in 0 .. k + 1
      BY <2>2
    <3>3. Reads(k + 1, m, o, r)
      BY <2>2, <2>5, <3>2 DEF Reads
    <3> QED BY <2>1, <3>1, <3>3 DEF Progress
  <2>6. CASE ~(o >= octets)
    <3>1. m = k /\ k + 1 \in 1 .. Len(packets) /\ (k + 1) - 1 = k
      BY <1>0, <2>2, <2>6
    <3>2. PacketEnd(k + 1) = o + PacketSize(h)
      BY <2>2, <3>1, PacketEnds
    <3>3. h \in Headers
      BY <3>1, SizesAre
    <3>4. CASE HeaderSound(h, o) /\ (Reporting(h) => BlocksFit(h))
      <4> DEFINE o2 == o + PacketSize(h)
                 r2 == r \o BlocksOf(h, o)
      <4>1. next = [offset |-> o2, reports |-> r2]
        BY <1>2, <2>3, <2>6, <3>4 DEF Decode, BlocksOf
      <4>2. o2 <= octets /\ (h.padding => o2 = octets)
        BY <3>4 DEF HeaderSound, PaddingSound
      <4>3. Found(k + 1, r2)
        BY <2>2, <3>1, <3>4, FoundMore
      <4>4. \A n \in 1 .. k + 1 : packets[n].padding => PacketEnd(n) = octets
        <5> SUFFICES ASSUME NEW n \in 1 .. k + 1, packets[n].padding
                     PROVE  PacketEnd(n) = octets
          OBVIOUS
        <5>1. CASE n = k + 1
          BY <3>2, <4>2, <5>1
        <5>2. CASE n # k + 1
          <6>1. n \in 1 .. k
            BY <5>2
          <6> QED BY <2>2, <3>1, <6>1
        <5> QED BY <5>1, <5>2
      <4> HIDE DEF next, r2
      <4>5. Reads(k + 1, k + 1, o2, r2)
        BY <3>2, <4>2, <4>3, <4>4 DEF Reads
      <4>6. Progress(k + 1, next)
        BY <4>1, <4>5 DEF Progress
      <4> QED BY <4>6 DEF next
    <3>5. CASE ~(HeaderSound(h, o) /\ (Reporting(h) => BlocksFit(h)))
      <4>1. next = Malformed
        BY <1>2, <2>3, <2>6, <3>5 DEF Decode
      <4> QED BY <4>1 DEF Progress
    <3> QED BY <3>4, <3>5
  <2> QED BY <2>5, <2>6
<1> QED BY <1>1, <1>2

(* All packets.                                                            *)
LEMMA AllDecoded ==
    ASSUME ReportConstants, ReportsTypeOK
    PROVE  Progress(Len(packets), DecodedTo)
<1> DEFINE N == Len(packets)
<1>1. N \in Nat /\ DOMAIN packets = 1 .. N
  BY SizesAre
<1>2. PICK acc : /\ acc[0] = [offset |-> 0, reports |-> <<>>] /\ DecodedTo = acc[N]
                 /\ \A k \in 1 .. N : acc[k] = Decode(acc[k - 1], packets[k])
  BY <1>1, DecodeSteps
<1> DEFINE S == {k \in Nat : k <= N => Progress(k, acc[k])}
<1>3. 0 \in S
  <2>1. octets \in Nat
    BY DEF ReportsTypeOK, ReportConstants
  <2>2. PacketEnd(0) = 0
    BY PacketEnds
  <2>3. Reads(0, 0, 0, <<>>)
    <3>1. \A n \in 1 .. 0 : FALSE
      OBVIOUS
    <3>2. 0 \in 0 .. 0 /\ 0 <= octets
      BY <2>1
    <3> QED BY <2>2, <3>1, <3>2, FoundNone DEF Reads
  <2>4. Progress(0, acc[0])
    BY <1>2, <2>3 DEF Progress
  <2> QED BY <2>4
<1>4. ASSUME NEW k \in Nat, k \in S PROVE k + 1 \in S
  <2> SUFFICES ASSUME k + 1 <= N PROVE Progress(k + 1, acc[k + 1])
    OBVIOUS
  <2>1. k < N /\ k <= N /\ k + 1 \in 1 .. N /\ (k + 1) - 1 = k
    BY <1>1
  <2>2. acc[k + 1] = Decode(acc[k], packets[k + 1])
    BY <1>2, <2>1
  <2>3. Progress(k, acc[k])
    BY <1>4, <2>1
  <2> QED BY <2>1, <2>2, <2>3, DecodeKeeps
<1>5. N \in S
  <2> HIDE DEF S
  <2> QED BY <1>1, <1>3, <1>4, Induction
<1> QED BY <1>1, <1>2, <1>5

(* So reports are found in a compound that is whole from first to last.    *)
LEMMA AllOrNothingRead == ASSUME ReportConstants, ReportsTypeOK PROVE AllOrNothing
<1> DEFINE found == DecodeReports
           compound == {n \in DOMAIN packets : PacketStart(n) < octets}
           of(n) == {i \in DOMAIN found :
                        /\ PacketStart(n) + 8 <= found[i]
                        /\ found[i] + 24 <= PacketStart(n) + Unpadded(packets[n])}
           N == Len(packets)
<1> SUFFICES ASSUME found # <<>>
             PROVE  /\ octets = TotalSize(SubSeq(packets, 1, Cardinality(compound)))
                    /\ \A n \in compound :
                          /\ Cardinality(of(n)) =
                                IF Reporting(packets[n]) THEN packets[n].count ELSE 0
                          /\ packets[n].padding => n + 1 \notin compound
                    /\ UNION {of(n) : n \in compound} = DOMAIN found
                    /\ \A i \in 1 .. Len(found) - 1 : found[i] + 24 <= found[i + 1]
  BY DEF AllOrNothing
<1>1. DecodedTo # Malformed /\ DecodedTo.offset >= octets /\ found = DecodedTo.reports
  BY DEF DecodeReports, DecodedTo
<1>2. PICK m, o, r : DecodedTo = [offset |-> o, reports |-> r] /\ Reads(N, m, o, r)
  BY <1>1, AllDecoded DEF Progress
<1>3. /\ m \in 0 .. N /\ o = PacketEnd(m) /\ o <= octets /\ Found(m, r)
      /\ \A n \in 1 .. m : packets[n].padding => PacketEnd(n) = octets
      /\ found = r /\ o >= octets
  <2>1. DecodedTo.offset = o /\ DecodedTo.reports = r
    BY <1>2
  <2> QED BY <1>1, <1>2, <2>1 DEF Reads
<1> HIDE DEF found
<1>4. /\ N \in Nat /\ DOMAIN packets = 1 .. N /\ octets \in Nat
      /\ \A n \in 1 .. N : packets[n] \in Headers
  <2>1. octets \in Nat
    BY DEF ReportsTypeOK, ReportConstants
  <2> QED BY <2>1, SizesAre
<1>5. \A n \in 0 .. N : PacketEnd(n) \in Nat /\ TotalSize(SubSeq(packets, 1, n)) = PacketEnd(n)
  BY PacketEnds
<1>6. octets = PacketEnd(m) /\ m \in Nat
  <2>1. o \in Nat
    BY <1>3, <1>5
  <2> QED BY <1>3, <1>4, <2>1
<1>7. \A n \in 1 .. N : PacketStart(n) = PacketEnd(n - 1)
  <2> SUFFICES ASSUME NEW n \in 1 .. N PROVE PacketStart(n) = PacketEnd(n - 1)
    OBVIOUS
  <2>1. n - 1 \in 0 .. N
    BY <1>4
  <2> QED BY <1>5, <2>1 DEF PacketStart
<1>8. compound = 1 .. m
  <2>1. ASSUME NEW n \in 1 .. N PROVE PacketStart(n) < octets <=> n <= m
    <3>1. n - 1 \in 0 .. N /\ (n <= m <=> n - 1 < m) /\ (~(n <= m) <=> m <= n - 1)
      BY <1>4, <1>6
    <3>2. /\ PacketEnd(n - 1) \in Nat /\ PacketEnd(m) \in Nat
          /\ n - 1 < m => PacketEnd(n - 1) < PacketEnd(m)
          /\ m <= n - 1 => PacketEnd(m) <= PacketEnd(n - 1)
      BY <1>3, <3>1, PacketsAscend
    <3> QED BY <1>6, <1>7, <3>1, <3>2
  <2>2. \A n : n \in 1 .. m <=> n \in 1 .. N /\ n <= m
    BY <1>3, <1>4
  <2> QED BY <1>4, <2>1, <2>2
<1> HIDE DEF compound
<1>9. Cardinality(compound) = m
  BY <1>6, <1>8, FirstAre
<1>10. octets = TotalSize(SubSeq(packets, 1, Cardinality(compound)))
  BY <1>3, <1>5, <1>6, <1>9
<1>11. /\ r \in Seq(Nat)
       /\ \A i \in 1 .. Len(r) - 1 : r[i] + 24 <= r[i + 1]
       /\ \A n \in 1 .. m : \E lo \in Nat :
             {i \in 1 .. Len(r) : InPacket(n, r[i])} = lo + 1 .. lo + Announced(packets[n])
       /\ \A i \in 1 .. Len(r) : \E n \in 1 .. m : InPacket(n, r[i])
  BY <1>3 DEF Found
<1>12. DOMAIN found = 1 .. Len(r)
  BY <1>3, <1>11
<1>13. ASSUME NEW n \in 1 .. m PROVE of(n) = {i \in 1 .. Len(r) : InPacket(n, r[i])}
  <2>1. n \in 1 .. N
    BY <1>3, <1>4
  <2>2. PacketStart(n) = PacketEnd(n - 1)
    BY <1>7, <2>1
  <2> QED BY <1>3, <1>12, <2>2 DEF InPacket
<1> HIDE DEF of
<1>14. ASSUME NEW n \in compound
       PROVE  /\ Cardinality(of(n)) = IF Reporting(packets[n]) THEN packets[n].count ELSE 0
              /\ packets[n].padding => n + 1 \notin compound
  <2>1. n \in 1 .. m /\ n \in 1 .. N /\ n \in 0 .. N
    BY <1>3, <1>4, <1>8
  <2>2. PICK lo \in Nat : of(n) = lo + 1 .. lo + Announced(packets[n])
    BY <1>11, <1>13, <2>1
  <2> PICK c : c = Announced(packets[n])
    OBVIOUS
  <2>3. c \in Nat
    BY <1>4, <2>1, HeaderTypes
  <2>4. Cardinality(lo + 1 .. lo + c) = c
    <3>1. lo + 1 \in Int /\ lo + c \in Int
      BY <2>3
    <3>2. Cardinality(lo + 1 .. lo + c) =
             IF lo + 1 > lo + c THEN 0 ELSE (lo + c) - (lo + 1) + 1
      BY <3>1, FS_Interval
    <3> QED BY <2>3, <3>2
  <2>5. packets[n].padding => n + 1 \notin compound
    <3> SUFFICES ASSUME packets[n].padding, n + 1 \in compound PROVE FALSE
      OBVIOUS
    <3>1. n + 1 \in 1 .. m /\ n < m
      BY <1>6, <1>8, <2>1
    <3>2. PacketEnd(n) = PacketEnd(m)
      BY <1>3, <1>6, <2>1
    <3>3. PacketEnd(n) \in Nat /\ PacketEnd(m) \in Nat /\ PacketEnd(n) < PacketEnd(m)
      BY <1>3, <2>1, <3>1, PacketsAscend
    <3> QED BY <3>2, <3>3
  <2> QED BY <2>2, <2>4, <2>5 DEF Announced
<1>15. UNION {of(n) : n \in compound} = DOMAIN found
  <2>1. \A i \in DOMAIN found : \E n \in compound : i \in of(n)
    <3> SUFFICES ASSUME NEW i \in 1 .. Len(r) PROVE \E n \in compound : i \in of(n)
      BY <1>12
    <3>1. PICK n \in 1 .. m : InPacket(n, r[i])
      BY <1>11
    <3>2. i \in of(n)
      BY <1>13, <3>1
    <3> QED BY <1>8, <3>2
  <2>2. \A n \in compound : of(n) \subseteq DOMAIN found
    BY <1>8, <1>12, <1>13
  <2> QED BY <2>1, <2>2
<1>16. \A i \in 1 .. Len(found) - 1 : found[i] + 24 <= found[i + 1]
  BY <1>3, <1>11
<1> QED BY <1>10, <1>14, <1>15, <1>16

----------------------------------------------------------------------------
(* A frame stays one, whatever of it is damaged.                           *)
CapturesInv ==
    /\ frame # Nothing => IsFrame(frame)
    /\ FramesTypeOK /\ ReportsTypeOK

(* All that CapturesAreRead says follows.                                  *)
LEMMA ReadByInv ==
    ASSUME FrameConstants, ReportConstants, CapturesInv
    PROVE  CapturesAreRead
<1>1. FramesTypeOK /\ ReportsTypeOK /\ copied \in Nat
  BY DEF CapturesInv, FramesTypeOK
<1>2. SameRecords /\ AllOrNothing
  BY <1>1, SameRecordsRead, AllOrNothingRead
<1>3. ASSUME frame # Nothing PROVE IsFrame(frame)
  BY <1>3 DEF CapturesInv
<1>4. AudioIsWithin
  BY <1>3, AudioStaysWithin DEF AudioIsWithin
<1>5. ToolsAgree
  BY <1>3, ToolsStayAgreed DEF ToolsAgree
<1>6. FlowsHaveTheAudio
  BY <1>3, FlowsKeepTheAudio DEF FlowsHaveTheAudio
<1>7. ServiceHearsTheSame
  BY <1>3, ServiceHears DEF ServiceHearsTheSame
<1>8. ReportsAreWhole
  BY <1>3, ReportsStayWhole DEF ReportsAreWhole
<1> QED BY <1>1, <1>2, <1>4, <1>5, <1>6, <1>7, <1>8 DEF CapturesAreRead

(* Damage to a field.                                                      *)
LEMMA DamageKeeps ==
    ASSUME FrameConstants, CapturesInv, frame # Nothing, NEW field \in DOMAIN Damage,
           DamageField(field)
    PROVE  (frame # Nothing => IsFrame(frame))' /\ FramesTypeOK'
<1>1. PICK value \in Damage[field] : frame' = [frame EXCEPT ![field] = value]
  BY DEF DamageField
<1>2. field \in DOMAIN FieldValues /\ value \in FieldValues[field]
  BY <1>1 DEF FrameConstants
<1>3. DOMAIN frame = DOMAIN FieldValues /\ \A g \in DOMAIN frame : frame[g] \in FieldValues[g]
  BY DEF CapturesInv, IsFrame
<1>4. DOMAIN frame' = DOMAIN FieldValues
  BY <1>1, <1>3
<1>5. \A g \in DOMAIN frame' : frame'[g] \in FieldValues[g]
  <2> SUFFICES ASSUME NEW g \in DOMAIN frame PROVE frame'[g] \in FieldValues[g]
    BY <1>3, <1>4
  <2>1. frame'[g] = IF g = field THEN value ELSE frame[g]
    BY <1>1
  <2> QED BY <1>2, <1>3, <2>1
<1>6. IsFrame(frame')
  BY <1>4, <1>5 DEF IsFrame
<1>7. FramesTypeOK'
  BY DEF DamageField, CapturesInv, FramesTypeOK
<1> QED BY <1>6, <1>7

(* A packet more, or a datagram that is cut or extended.                   *)
LEMMA ReportsKeep == ASSUME ReportConstants, ReportsTypeOK, ReportsNext PROVE ReportsTypeOK'
<1>1. packets \in Seq(Headers) /\ octets \in 0 .. MaxSize /\ MaxSize \in Nat
  BY DEF ReportsTypeOK, ReportConstants
<1>2. ASSUME NEW h \in Headers, AddPacket(h) PROVE ReportsTypeOK'
  <2>1. PacketSize(h) \in Nat
    BY HeaderTypes
  <2>2. /\ packets' = Append(packets, h) /\ octets' = octets + PacketSize(h)
        /\ octets + PacketSize(h) <= MaxSize
    BY <1>2 DEF AddPacket
  <2>3. packets' \in Seq(Headers)
    BY <1>1, <2>2
  <2>4. octets' \in 0 .. MaxSize
    BY <1>1, <2>1, <2>2
  <2> QED BY <2>3, <2>4 DEF ReportsTypeOK
<1>3. ASSUME NEW bytes \in {-8, -4, -1, 1, 4}, CutOrExtend(bytes) PROVE ReportsTypeOK'
  BY <1>1, <1>3 DEF CutOrExtend, ReportsTypeOK
<1> QED BY <1>2, <1>3 DEF ReportsNext

(* Every step.                                                             *)
LEMMA CapturesKeep ==
    ASSUME FrameConstants, ReportConstants, CapturesInv,
           [CapturesNext]_<<frameVars, reportVars>>
    PROVE  CapturesInv'
<1>1. CASE FramesNext /\ UNCHANGED reportVars
  <2>1. ReportsTypeOK'
    BY <1>1 DEF CapturesInv, ReportsTypeOK, reportVars
  <2>2. ASSUME NEW field \in DOMAIN Damage, frame # Nothing, DamageField(field)
        PROVE  CapturesInv'
    <3>1. (frame # Nothing => IsFrame(frame))' /\ FramesTypeOK'
      BY <2>2, DamageKeeps
    <3> QED BY <2>1, <3>1 DEF CapturesInv
  <2>3. ASSUME CopyOn PROVE CapturesInv'
    <3>1. frame' = frame /\ damaged' = damaged /\ copied' = copied + 1
      BY <2>3 DEF CopyOn
    <3>2. FramesTypeOK'
      BY <3>1 DEF CapturesInv, FramesTypeOK
    <3> QED BY <2>1, <3>1, <3>2 DEF CapturesInv
  <2> QED BY <1>1, <2>2, <2>3 DEF FramesNext
<1>2. CASE ReportsNext /\ UNCHANGED frameVars
  <2>1. ReportsTypeOK'
    BY <1>2, ReportsKeep DEF CapturesInv
  <2>2. frame' = frame /\ damaged' = damaged /\ copied' = copied
    BY <1>2 DEF frameVars
  <2> QED BY <2>1, <2>2 DEF CapturesInv, FramesTypeOK
<1>3. CASE UNCHANGED <<frameVars, reportVars>>
  BY <1>3 DEF CapturesInv, FramesTypeOK, ReportsTypeOK, frameVars, reportVars
<1> QED BY <1>1, <1>2, <1>3 DEF CapturesNext

(* The beginning.                                                          *)
LEMMA CapturesBegin ==
    ASSUME FrameConstants, ReportConstants, CapturesInit PROVE CapturesInv
<1>1. frame # Nothing => IsFrame(frame)
  BY DEF CapturesInit, FramesInit, FrameConstants
<1>2. FramesTypeOK
  BY DEF CapturesInit, FramesInit, FramesTypeOK
<1>3. ReportsTypeOK
  BY DEF CapturesInit, ReportsInit, ReportsTypeOK, ReportConstants
<1> QED BY <1>1, <1>2, <1>3 DEF CapturesInv

(* What the tools read of captured frames, files and datagrams             *)
(* (CapturesAreRead), for any frames that are sent, any damage to any      *)
(* number of fields, any record sizes and any headers.                     *)
THEOREM CapturesStayRead ==
    ASSUME FrameConstants, ReportConstants PROVE CapturesSpec => []CapturesAreRead
<1>1. CapturesInit => CapturesInv
  BY CapturesBegin
<1>2. CapturesInv /\ [CapturesNext]_<<frameVars, reportVars>> => CapturesInv'
  BY CapturesKeep
<1>3. CapturesInv => CapturesAreRead
  BY ReadByInv
<1> QED BY <1>1, <1>2, <1>3, PTL DEF CapturesSpec
----------------------------------------------------------------------------
(* Uploads.                                                                *)
(* An upload's record tells how it went, and what the client noted of it   *)
(* agrees with that.                                                       *)
Judged(r) ==
    request[r].at # "reading" =>
        /\ request[r].record \in Records
        /\ request[r].record.attempt = request[r].attempt
        /\ request[r].record.of = r
        /\ request[r].record.status = 200 =>
              /\ request[r].intact /\ request[r].received = request[r].size
              /\ request[r].record.received = request[r].received

Told(r) ==
    probe[r] # Missing =>
        /\ request[r] # Missing
        /\ probe[r].attempt = request[r].attempt /\ probe[r].size = request[r].size
        /\ probe[r].complete =>
              request[r].at = "done" /\ probe[r].status = request[r].record.status

(* It is among the server's records once it is written.                    *)
Written(r) ==
    request[r].at \in {"reply", "done"} =>
        \E n \in DOMAIN records : records[n] = request[r].record

Listed(n) ==
    LET r == records[n].of
    IN  /\ request[r] # Missing /\ request[r].at \in {"reply", "done"}
        /\ records[n] = request[r].record

RequestInv == \A r \in Requests : (request[r] # Missing => Judged(r) /\ Written(r)) /\ Told(r)

RecordInv ==
    /\ \A n \in DOMAIN records : Listed(n)
    /\ \A n, m \in DOMAIN records : records[n].of = records[m].of => n = m

UploadsInv == UploadsTypeOK /\ RequestInv /\ RecordInv
----------------------------------------------------------------------------
(* Nothing is uploaded, recorded or probed at first.                       *)
LEMMA InitHolds == ASSUME UploadsInit PROVE UploadsInv
<1>1. UploadsTypeOK
  BY UploadsAssumption DEF UploadsInit, UploadsTypeOK
<1>2. RequestInv /\ RecordInv
  BY DEF UploadsInit, RequestInv, RecordInv, Told
<1> QED BY <1>1, <1>2 DEF UploadsInv

(* A step of one request that writes no record.                            *)
LEMMA RequestKeeps ==
    ASSUME UploadsInv, NEW r \in Requests, NEW q \in Posted,
           request' = [request EXCEPT ![r] = q], records' = records,
           \A other \in Requests \ {r} : probe'[other] = probe[other],
           UploadsTypeOK',
           request[r] = Missing => q.at = "reading",
           request[r] # Missing =>
              /\ request[r].at \in {"reply", "done"} <=> q.at \in {"reply", "done"}
              /\ q.at \in {"reply", "done"} => q.record = request[r].record,
           Judged(r)', Told(r)'
    PROVE  UploadsInv'
<1>1. /\ request \in [Requests -> Posted \cup {Missing}] /\ request'[r] = q /\ q # Missing
      /\ \A other \in Requests \ {r} : request'[other] = request[other]
      /\ records \in Seq(Records)
  BY UploadsAssumption DEF UploadsInv, UploadsTypeOK
<1>2. ASSUME NEW n \in DOMAIN records PROVE Listed(n)' /\ records[n].of \in Requests
  <2>1. Listed(n) /\ records[n] \in Records /\ records[n].of \in Requests
    <3>1. records[n] \in Records /\ Listed(n)
      BY <1>1, <1>2 DEF UploadsInv, RecordInv
    <3> QED BY <3>1 DEF Records
  <2> QED BY <1>1, <2>1 DEF Listed
<1>3. RecordInv'
  BY <1>2 DEF UploadsInv, RecordInv
<1>4. ASSUME NEW s \in Requests
      PROVE  (request'[s] # Missing => Judged(s)' /\ Written(s)') /\ Told(s)'
  <2>1. CASE s = r
    <3>1. Written(r)'
      BY <1>1 DEF UploadsInv, RequestInv, Written
    <3> QED BY <2>1, <3>1
  <2>2. CASE s # r
    BY <1>1, <2>2 DEF UploadsInv, RequestInv, Judged, Written, Told
  <2> QED BY <2>1, <2>2
<1>5. RequestInv'
  BY <1>4 DEF RequestInv
<1> QED BY <1>3, <1>5 DEF UploadsInv

(* The record of an upload is what the server made of it.                  *)
LEMMA WriteKeeps ==
    ASSUME UploadsInv, NEW r \in Requests, WriteRecord(r)
    PROVE  UploadsInv'
<1> DEFINE record == request[r].record
           q == [request[r] EXCEPT !.at = "reply"]
<1>1. /\ request[r] \in Posted /\ request[r].at = "record" /\ Judged(r)
      /\ records \in Seq(Records) /\ record \in Records /\ record.of = r
  BY DEF UploadsInv, UploadsTypeOK, RequestInv, Judged, WriteRecord, At
<1>2. /\ q \in Posted /\ q.at = "reply" /\ q.record = record /\ q # Missing
      /\ q.attempt = request[r].attempt /\ q.size = request[r].size
      /\ q.received = request[r].received /\ q.intact = request[r].intact
  BY <1>1, UploadsAssumption DEF Posted
<1>3. request' = [request EXCEPT ![r] = q] /\ records' = Append(records, record)
      /\ probe' = probe /\ errors' = errors
  BY <1>1 DEF WriteRecord, At, After, Steps
<1> HIDE DEF q
<1>4. /\ request \in [Requests -> Posted \cup {Missing}] /\ request'[r] = q
      /\ \A other \in Requests \ {r} : request'[other] = request[other]
  BY <1>3 DEF UploadsInv, UploadsTypeOK
<1>5. UploadsTypeOK'
  BY <1>1, <1>2, <1>3, <1>4 DEF UploadsInv, UploadsTypeOK
<1>. PICK last \in Nat : last = Len(records) + 1
  BY <1>1
<1>6. /\ DOMAIN records = 1 .. Len(records) /\ DOMAIN records' = 1 .. last
      /\ Len(records) \in Nat
      /\ records'[last] = record
      /\ \A n \in DOMAIN records : records'[n] = records[n] /\ n \in DOMAIN records'
  BY <1>1, <1>3
<1>7. ASSUME NEW n \in DOMAIN records PROVE records[n].of \in Requests \ {r} /\ Listed(n)'
  <2>1. Listed(n) /\ records[n] \in Records /\ records[n].of \in Requests
    <3>1. records[n] \in Records /\ Listed(n)
      BY <1>1, <1>7 DEF UploadsInv, RecordInv
    <3> QED BY <3>1 DEF Records
  <2>2. records[n].of # r
    BY <1>1, <2>1 DEF Listed
  <2> QED BY <1>4, <1>6, <2>1, <2>2 DEF Listed
<1>8. Listed(last)'
  <2>1. records'[last].of = r /\ request'[r] = q
    BY <1>1, <1>4, <1>6
  <2> QED BY <1>2, <1>6, <2>1 DEF Listed
<1>9. RecordInv'
  <2>1. \A n \in DOMAIN records' : n \in DOMAIN records \/ n = last
    BY <1>6
  <2>2. \A n \in DOMAIN records' : Listed(n)'
    BY <1>7, <1>8, <2>1
  <2>3. ASSUME NEW n \in DOMAIN records', NEW m \in DOMAIN records',
               records'[n].of = records'[m].of
        PROVE  n = m
    <3>1. records'[last].of = r
      BY <1>1, <1>6
    <3>2. \A k \in DOMAIN records : records'[k].of = records[k].of /\ records'[k].of # r
      BY <1>6, <1>7
    <3>3. n = last <=> m = last
      BY <2>1, <2>3, <3>1, <3>2
    <3>4. CASE n # last
      BY <2>1, <2>3, <3>2, <3>3, <3>4 DEF UploadsInv, RecordInv
    <3> QED BY <3>3, <3>4
  <2> QED BY <2>2, <2>3 DEF RecordInv
<1>10. ASSUME NEW s \in Requests
       PROVE  (request'[s] # Missing => Judged(s)' /\ Written(s)') /\ Told(s)'
  <2>1. CASE s = r
    <3>1. Judged(r)'
      BY <1>1, <1>2, <1>4 DEF Judged
    <3>2. Written(r)'
      BY <1>2, <1>4, <1>6 DEF Written
    <3>3. Told(r)'
      BY <1>1, <1>2, <1>3, <1>4 DEF Told, UploadsInv, RequestInv
    <3> QED BY <2>1, <3>1, <3>2, <3>3
  <2>2. CASE s # r
    <3>1. Written(s) => Written(s)'
      BY <1>4, <1>6, <2>2 DEF Written
    <3> QED BY <1>3, <1>4, <2>2, <3>1 DEF UploadsInv, RequestInv, Judged, Told
  <2> QED BY <2>1, <2>2
<1>11. RequestInv'
  BY <1>10 DEF RequestInv
<1> QED BY <1>5, <1>9, <1>11 DEF UploadsInv

(* Whether the client hears of it, and what the link does.                 *)
LEMMA OthersKeep ==
    ASSUME UploadsInv, UNCHANGED <<request, records, probe>>, errors' \in 0 .. MaxErrors
    PROVE  UploadsInv'
BY DEF UploadsInv, UploadsTypeOK, RequestInv, RecordInv, Judged, Told, Written, Listed

(* A client posts an upload once.                                          *)
LEMMA PostKeeps ==
    ASSUME UploadsInv, NEW r \in Requests, NEW attempt \in Attempts,
           NEW size \in 0 .. MaxUpload + 1, Post(r, attempt, size)
    PROVE  UploadsInv'
<1> DEFINE q == [attempt |-> attempt, size |-> size, received |-> 0, intact |-> TRUE,
                 at |-> "reading", record |-> Missing]
<1>1. size \in Nat
  BY UploadsAssumption
<1>2. q \in Posted /\ q.at = "reading" /\ request' = [request EXCEPT ![r] = q]
      /\ UNCHANGED <<records, probe, errors>> /\ request[r] = Missing
  BY <1>1 DEF Post, Posted
<1> HIDE DEF q
<1>3. UploadsTypeOK' /\ request'[r] = q
  BY <1>2 DEF UploadsInv, UploadsTypeOK
<1>4. Judged(r)' /\ Told(r)'
  BY <1>2, <1>3 DEF UploadsInv, RequestInv, Judged, Told
<1> QED BY <1>2, <1>3, <1>4, RequestKeeps

(* The server reads a body, whole or not.                                  *)
LEMMA ReadKeeps ==
    ASSUME UploadsInv, NEW r \in Requests, NEW asItShould \in BOOLEAN,
           ReadPiece(r, asItShould)
    PROVE  UploadsInv'
<1> DEFINE intact == request[r].intact /\ asItShould
           received == request[r].received + 1
           q == [request[r] EXCEPT !.received = received, !.intact = intact]
<1>1. request[r] \in Posted /\ request[r] # Missing /\ request[r].at = "reading" /\ Told(r)
  BY DEF UploadsInv, UploadsTypeOK, RequestInv, ReadPiece, At
<1>2. /\ q \in Posted /\ q.at = "reading" /\ q # Missing
      /\ q.attempt = request[r].attempt /\ q.size = request[r].size
  <2>1. intact \in BOOLEAN /\ received \in Nat
    BY <1>1 DEF Posted
  <2> HIDE DEF intact, received
  <2>2. q \in Posted
    BY <1>1, <2>1 DEF Posted
  <2>3. q.at = "reading" /\ q.attempt = request[r].attempt /\ q.size = request[r].size
    BY <1>1 DEF Posted
  <2> QED BY <2>2, <2>3, UploadsAssumption
<1>3. request' = [request EXCEPT ![r] = q] /\ UNCHANGED <<records, probe, errors>>
  BY <1>1 DEF ReadPiece
<1> HIDE DEF q
<1>4. UploadsTypeOK' /\ request'[r] = q
  BY <1>2, <1>3 DEF UploadsInv, UploadsTypeOK
<1>5. Judged(r)' /\ Told(r)'
  BY <1>1, <1>2, <1>3, <1>4 DEF Judged, Told
<1> QED BY <1>1, <1>2, <1>3, <1>4, <1>5, RequestKeeps

(* The server judges an upload: as a whole one, or as refused.             *)
LEMMA JudgeKeeps ==
    ASSUME UploadsInv, NEW r \in Requests, At(r, "reading"),
           NEW record \in Records, Judge(r, record),
           record.attempt = request[r].attempt, record.of = r,
           record.status = 200 =>
              /\ request[r].intact /\ request[r].received = request[r].size
              /\ record.received = request[r].received,
           \/ probe' = probe
           \/ probe' = Noted(r, FALSE, Missing)
    PROVE  UploadsInv'
<1> DEFINE q == [request[r] EXCEPT !.at = "record", !.record = record]
<1>1. request[r] \in Posted /\ request[r] # Missing /\ request[r].at = "reading" /\ Told(r)
      /\ probe \in [Requests -> Notes \cup {Missing}] /\ errors \in Nat
  BY UploadsAssumption DEF UploadsInv, UploadsTypeOK, RequestInv, At
<1>2. /\ q \in Posted /\ q.at = "record" /\ q.record = record /\ q # Missing
      /\ q.attempt = request[r].attempt /\ q.size = request[r].size
      /\ q.received = request[r].received /\ q.intact = request[r].intact
  <2>1. q \in Posted
    BY <1>1 DEF Posted
  <2>2. /\ q.at = "record" /\ q.record = record
        /\ q.attempt = request[r].attempt /\ q.size = request[r].size
        /\ q.received = request[r].received /\ q.intact = request[r].intact
    BY <1>1 DEF Posted
  <2> QED BY <2>1, <2>2, UploadsAssumption
<1>3. request' = [request EXCEPT ![r] = q] /\ UNCHANGED <<records, errors>>
  BY <1>1 DEF Judge, Steps
<1> HIDE DEF q
<1> DEFINE note == [attempt |-> request[r].attempt, size |-> request[r].size,
                    complete |-> FALSE, status |-> Missing, errors |-> errors]
<1>4. note \in Notes
  BY <1>1 DEF Posted, Notes
<1>5. /\ probe' \in [Requests -> Notes \cup {Missing}]
      /\ \A other \in Requests \ {r} : probe'[other] = probe[other]
      /\ probe'[r] = probe[r] \/ probe'[r] = note
  <2>1. CASE probe' = probe
    BY <1>1, <2>1
  <2>2. CASE probe' = [probe EXCEPT ![r] = note]
    BY <1>1, <1>4, <2>2
  <2> QED BY <2>1, <2>2 DEF Noted
<1>6. UploadsTypeOK' /\ request'[r] = q
  BY <1>2, <1>3, <1>5 DEF UploadsInv, UploadsTypeOK
<1>7. Judged(r)'
  BY <1>2, <1>6 DEF Judged
<1>8. Told(r)'
  <2>1. probe'[r] = note => ~probe'[r].complete /\ probe'[r].attempt = q.attempt
                            /\ probe'[r].size = q.size
    BY <1>2
  <2> QED BY <1>1, <1>2, <1>5, <1>6, <2>1 DEF Told
<1> QED BY <1>1, <1>2, <1>3, <1>5, <1>6, <1>7, <1>8, RequestKeeps

(* The answer reaches the client, or is lost on the way.                   *)
LEMMA ReplyKeeps ==
    ASSUME UploadsInv, NEW r \in Requests, NEW arrives \in BOOLEAN,
           Reply(r, arrives)
    PROVE  UploadsInv'
<1> DEFINE q == [request[r] EXCEPT !.at = "done"]
           record == request[r].record
<1>1. request[r] \in Posted /\ request[r] # Missing /\ request[r].at = "reply"
      /\ Told(r) /\ Judged(r) /\ record \in Records
      /\ probe \in [Requests -> Notes \cup {Missing}] /\ errors \in Nat
  BY UploadsAssumption DEF UploadsInv, UploadsTypeOK, RequestInv, Reply, At, Judged
<1>2. /\ q \in Posted /\ q.at = "done" /\ q.record = record /\ q # Missing
      /\ q.attempt = request[r].attempt /\ q.size = request[r].size
      /\ q.received = request[r].received /\ q.intact = request[r].intact
  BY <1>1, UploadsAssumption DEF Posted
<1>3. request' = [request EXCEPT ![r] = q] /\ UNCHANGED <<records, errors>>
  BY <1>1 DEF Reply, After, Steps
<1> HIDE DEF q
<1> DEFINE status == IF arrives THEN record.status ELSE Missing
           note == [attempt |-> request[r].attempt, size |-> request[r].size,
                    complete |-> arrives, status |-> status, errors |-> errors]
<1>4. note \in Notes
  <2>1. status \in Statuses \cup {Missing}
    BY <1>1 DEF Records
  <2> HIDE DEF status
  <2> QED BY <1>1, <2>1 DEF Posted, Notes
<1>5. /\ probe' \in [Requests -> Notes \cup {Missing}]
      /\ \A other \in Requests \ {r} : probe'[other] = probe[other]
      /\ probe'[r] = probe[r] \/ probe'[r] = note
  <2>1. CASE probe' = probe
    BY <1>1, <2>1
  <2>2. CASE probe' = [probe EXCEPT ![r] = note]
    BY <1>1, <1>4, <2>2
  <2> QED BY <2>1, <2>2 DEF Reply, Noted
<1>6. UploadsTypeOK' /\ request'[r] = q
  BY <1>2, <1>3, <1>5 DEF UploadsInv, UploadsTypeOK
<1>7. Judged(r)'
  BY <1>1, <1>2, <1>6 DEF Judged
<1>8. Told(r)'
  <2>1. probe'[r] = note => /\ probe'[r].attempt = q.attempt /\ probe'[r].size = q.size
                            /\ probe'[r].complete => probe'[r].status = q.record.status
    BY <1>2
  <2> QED BY <1>1, <1>2, <1>5, <1>6, <2>1 DEF Told
<1> QED BY <1>1, <1>2, <1>3, <1>5, <1>6, <1>7, <1>8, RequestKeeps

(* Every step keeps requests, records and notes together.                  *)
LEMMA StepKeeps ==
    ASSUME UploadsInv, [UploadsNext]_uploadVars
    PROVE  UploadsInv'
<1>1. CASE LinkError
  BY <1>1, OthersKeep, UploadsAssumption DEF LinkError, UploadsInv, UploadsTypeOK
<1>2. ASSUME NEW r \in Requests, BodyRead(r) PROVE UploadsInv'
  <2>1. request[r] \in Posted /\ At(r, "reading") /\ request[r].received = request[r].size
    BY <1>2 DEF BodyRead, At, UploadsInv, UploadsTypeOK
  <2>2. Accepted(r) \in Records
    BY <2>1 DEF Accepted, Records, Statuses, Posted
  <2>3. /\ Accepted(r).attempt = request[r].attempt /\ Accepted(r).of = r
        /\ Accepted(r).status = 200 => request[r].intact
        /\ Accepted(r).received = request[r].received
    BY DEF Accepted
  <2> QED BY <1>2, <2>1, <2>2, <2>3, JudgeKeeps DEF BodyRead
<1>3. ASSUME NEW r \in Requests, At(r, "reading"), Judge(r, Refused(r)),
             probe' = probe \/ probe' = Noted(r, FALSE, Missing)
      PROVE  UploadsInv'
  <2>1. request[r] \in Posted
    BY <1>3 DEF At, UploadsInv, UploadsTypeOK
  <2>2. Refused(r) \in Records /\ Refused(r).attempt = request[r].attempt /\ Refused(r).of = r
        /\ Refused(r).status # 200
    BY <2>1 DEF Refused, Records, Statuses, Posted
  <2> QED BY <1>3, <2>2, JudgeKeeps
<1>4. CASE UNCHANGED uploadVars
  BY <1>4, OthersKeep DEF uploadVars, UploadsInv, UploadsTypeOK
<1> QED BY <1>1, <1>2, <1>3, <1>4, PostKeeps, ReadKeeps, WriteKeeps, ReplyKeeps
        DEF UploadsNext, LengthRefused, BodyEnds
----------------------------------------------------------------------------
(* Requests, records and the client's notes stay in step.                  *)
THEOREM UploadsInvariant == UploadsSpec => []UploadsInv
<1>1. UploadsInit => UploadsInv
  BY InitHolds
<1>2. UploadsInv /\ [UploadsNext]_uploadVars => UploadsInv'
  BY StepKeeps
<1> QED BY <1>1, <1>2, PTL DEF UploadsSpec

(* The record of an upload is among those the audit looks at.              *)
LEMMA RecordMatches ==
    ASSUME UploadsInv, NEW r \in Requests, probe[r] # Missing,
           probe[r].complete, probe[r].status = 200
    PROVE  /\ request[r] # Missing /\ request[r].intact
           /\ request[r].received = request[r].size
           /\ \E n \in Matching(probe[r].attempt) :
                 /\ records[n].of = r /\ records[n].status = 200
                 /\ records[n].received = probe[r].size
<1>1. /\ request[r] # Missing /\ request[r].at = "done"
      /\ request[r].record.status = 200 /\ probe[r].attempt = request[r].attempt
      /\ probe[r].size = request[r].size /\ Judged(r) /\ Written(r)
  BY DEF UploadsInv, RequestInv, Told
<1>2. PICK n \in DOMAIN records : records[n] = request[r].record
  BY <1>1 DEF Written
<1> QED BY <1>1, <1>2 DEF Judged, Matching

(* The records of an attempt can be counted.                               *)
LEMMA MatchesAreFinite ==
    ASSUME UploadsInv, NEW attempt
    PROVE  IsFiniteSet(Matching(attempt))
<1>1. records \in Seq(Records)
  BY DEF UploadsInv, UploadsTypeOK
<1>2. Matching(attempt) \in SUBSET (1 .. Len(records)) /\ Len(records) \in Nat
  BY <1>1 DEF Matching
<1>3. IsFiniteSet(1 .. Len(records))
  BY <1>2, FS_Interval
<1> QED BY <1>2, <1>3, FS_Subset

(* What the audit verifies is this very upload, come through whole.        *)
THEOREM VerifiedUploadsAreWhole == UploadsSpec => []VerifiedIsTrue
<1>1. ASSUME UploadsInv, NEW r \in Requests, PayloadVerified(r)
      PROVE  /\ request[r].received = request[r].size /\ request[r].intact
             /\ \A n \in Matching(probe[r].attempt) : records[n].of = r
  <2> DEFINE M == Matching(probe[r].attempt)
  <2>1. /\ probe[r] # Missing /\ probe[r].complete /\ probe[r].status = 200
        /\ Cardinality(M) = 1 /\ IsFiniteSet(M)
    BY <1>1, MatchesAreFinite DEF PayloadVerified, OneMatches
  <2>2. PICK n : M = {n}
    <3> HIDE DEF M
    <3>1. IsFiniteSet(M) /\ Cardinality(M) = 1
      BY <2>1
    <3> QED BY <3>1, FS_Singleton
  <2>3. /\ request[r].intact /\ request[r].received = request[r].size
        /\ \E m \in M : records[m].of = r
    <3>1. /\ probe[r] # Missing /\ probe[r].complete /\ probe[r].status = 200
      BY <2>1
    <3> HIDE DEF M
    <3>2. \E m \in Matching(probe[r].attempt) : records[m].of = r
      BY <1>1, <3>1, RecordMatches
    <3>3. request[r].intact /\ request[r].received = request[r].size
      BY <1>1, <3>1, RecordMatches
    <3> QED BY <3>2, <3>3 DEF M
  <2> QED BY <2>2, <2>3
<1>2. UploadsInv => VerifiedIsTrue
  BY <1>1 DEF VerifiedIsTrue
<1> QED BY <1>2, UploadsInvariant, PTL

(* A whole upload under an attempt of its own is verified.                 *)
THEOREM HonestUploadsAreVerified == UploadsSpec => []HonestVerifies
<1>1. ASSUME UploadsInv, NEW r \in Requests,
             probe[r] # Missing, probe[r].complete, probe[r].status = 200, probe[r].errors = 0,
             \A other \in Requests \ {r} :
                 request[other] = Missing \/ request[other].attempt # request[r].attempt
      PROVE  PayloadVerified(r)
  <2> DEFINE M == Matching(probe[r].attempt)
  <2>1. PICK n \in M :
           /\ records[n].of = r /\ records[n].status = 200
           /\ records[n].received = probe[r].size
    BY <1>1, RecordMatches
  <2>2. probe[r].attempt = request[r].attempt
    BY <1>1 DEF UploadsInv, RequestInv, Told
  <2>3. ASSUME NEW m \in M PROVE m = n
    <3>1. /\ m \in DOMAIN records /\ n \in DOMAIN records
          /\ records[m].attempt = request[r].attempt
      BY <2>2, <2>3 DEF Matching
    <3>2. Listed(m) /\ records[m] \in Records
      BY <1>1, <3>1 DEF UploadsInv, UploadsTypeOK, RecordInv
    <3>3. records[m].of \in Requests
      BY <3>2 DEF Records
    <3> DEFINE s == records[m].of
    <3>4. /\ request[s] # Missing /\ Judged(s) /\ request[s].at \in {"reply", "done"}
          /\ records[m] = request[s].record
      BY <1>1, <3>2, <3>3 DEF UploadsInv, RequestInv, Listed
    <3>5. request[s].attempt = request[r].attempt
      BY <3>1, <3>4 DEF Judged
    <3>6. s = r
      BY <1>1, <3>3, <3>4, <3>5
    <3> QED BY <1>1, <2>1, <3>1, <3>6 DEF UploadsInv, RecordInv
  <2>4. M = {n}
    BY <2>1, <2>3
  <2>5. Cardinality(M) = 1
    BY <2>4, FS_Singleton
  <2> QED BY <1>1, <2>1, <2>4, <2>5 DEF PayloadVerified, OneMatches
<1>2. UploadsInv => HonestVerifies
  BY <1>1 DEF HonestVerifies
<1> QED BY <1>2, UploadsInvariant, PTL

(* So the audit verifies what came through whole, and nothing else.        *)
THEOREM AuditVerifiesExactly == UploadsSpec => []VerifiesExactly
<1>1. VerifiedIsTrue /\ HonestVerifies => VerifiesExactly
  BY DEF VerifiesExactly
<1> QED BY <1>1, VerifiedUploadsAreWhole, HonestUploadsAreVerified, PTL
=============================================================================
