----------------------------- MODULE WireProofs -----------------------------
(***************************************************************************)
(* What is written is what the standard describes, and what the broker     *)
(* writes is read back: for packets of any length up to MAX, any size of   *)
(* the buffer, and any width of the fan's words.                           *)
(***************************************************************************)
EXTENDS Wire, FanSensorProofs, WellFoundedInduction, SequenceTheorems, TLAPS

-----------------------------------------------------------------------------
(***************************************************************************)
(* Sequences                                                               *)
(***************************************************************************)

\* What a concatenation begins with and what it ends with.
LEMMA Parts ==
  ASSUME NEW S, NEW s \in Seq(S), NEW t \in Seq(S)
  PROVE  /\ SubSeq(s \o t, 1, Len(s)) = s
         /\ SubSeq(s \o t, Len(s) + 1, Len(s) + Len(t)) = t
<1>1. /\ s \o t \in Seq(S) /\ Len(s \o t) = Len(s) + Len(t)
      /\ Len(s) \in Nat /\ Len(t) \in Nat
      /\ \A i \in 1 .. Len(s) + Len(t) :
           (s \o t)[i] \in S /\ (s \o t)[i] = IF i <= Len(s) THEN s[i] ELSE t[i - Len(s)]
  BY ConcatProperties, LenProperties, ElementOfSeq
<1>2. SubSeq(s \o t, 1, Len(s)) = s
  <2> DEFINE u == SubSeq(s \o t, 1, Len(s))
  <2>1. \A i \in 1 .. Len(s) : (s \o t)[i] \in S
    BY <1>1
  <2>2. u \in Seq(S) /\ Len(u) = Len(s) /\ \A i \in 1 .. Len(s) : u[i] = (s \o t)[i]
    BY <1>1, <2>1, SubSeqProperties
  <2> HIDE DEF u
  <2>3. \A i \in 1 .. Len(u) : u[i] = s[i]
    BY <1>1, <2>2
  <2>4. u = s
    BY <2>2, <2>3, SeqEqual
  <2> QED
    BY <2>4 DEF u
<1>3. SubSeq(s \o t, Len(s) + 1, Len(s) + Len(t)) = t
  <2> DEFINE u == SubSeq(s \o t, Len(s) + 1, Len(s) + Len(t))
  <2>1. \A i \in Len(s) + 1 .. Len(s) + Len(t) : (s \o t)[i] \in S
    BY <1>1
  <2>2. /\ u \in Seq(S) /\ Len(u) = Len(t)
        /\ \A i \in 1 .. Len(t) : u[i] = (s \o t)[Len(s) + i]
    <3> DEFINE m == Len(s) + 1
               n == Len(s) + Len(t)
    <3>1. /\ m \in Int /\ n \in Int
          /\ (IF m <= n THEN n - m + 1 ELSE 0) = Len(t) /\ n - m + 1 = Len(t)
          /\ \A i \in 1 .. Len(t) : m + i - 1 = Len(s) + i
      BY <1>1
    <3>2. /\ u \in Seq(S) /\ Len(u) = IF m <= n THEN n - m + 1 ELSE 0
          /\ \A i \in 1 .. n - m + 1 : u[i] = (s \o t)[m + i - 1]
      <4> HIDE DEF m, n
      <4>1. \A i \in m .. n : (s \o t)[i] \in S
        BY <2>1 DEF m, n
      <4> QED
        BY <3>1, <4>1, SubSeqProperties DEF m, n
    <3> HIDE DEF u
    <3> QED
      BY <3>1, <3>2
  <2> HIDE DEF u
  <2>3. \A i \in 1 .. Len(u) : u[i] = t[i]
    BY <1>1, <2>2
  <2>4. u = t
    BY <2>2, <2>3, SeqEqual
  <2> QED
    BY <2>4 DEF u
<1> QED
  BY <1>2, <1>3

\* A beginning of a sequence.
LEMMA Beginning ==
  ASSUME NEW S, NEW s \in Seq(S), NEW n \in 0 .. Len(s)
  PROVE  /\ SubSeq(s, 1, n) \in Seq(S) /\ Len(SubSeq(s, 1, n)) = n
         /\ \A i \in 1 .. n : SubSeq(s, 1, n)[i] = s[i]
<1>1. Len(s) \in Nat /\ \A i \in 1 .. n : s[i] \in S
  BY LenProperties, ElementOfSeq
<1>2. n \in Nat /\ 1 \in Int /\ n \in Int /\ (IF 1 <= n THEN n - 1 + 1 ELSE 0) = n /\ n - 1 + 1 = n
      /\ \A i \in 1 .. n : 1 + i - 1 = i
  BY <1>1
<1>3. /\ SubSeq(s, 1, n) \in Seq(S)
      /\ Len(SubSeq(s, 1, n)) = IF 1 <= n THEN n - 1 + 1 ELSE 0
      /\ \A i \in 1 .. n - 1 + 1 : SubSeq(s, 1, n)[i] = s[1 + i - 1]
  BY <1>1, <1>2, SubSeqProperties
<1> QED
  BY <1>2, <1>3

\* The same letter again and again.
LEMMA Repeated ==
  ASSUME NEW S, NEW x \in S, NEW n \in Nat
  PROVE  Repeat(x, n) \in Seq(S) /\ Len(Repeat(x, n)) = n
<1>1. Repeat(x, n) \in [1 .. n -> S]
  BY DEF Repeat
<1>2. Repeat(x, n) \in Seq(S)
  BY <1>1, SeqDef
<1>3. Len(Repeat(x, n)) \in Nat /\ 1 .. Len(Repeat(x, n)) = 1 .. n
  BY <1>1, <1>2, LenProperties
<1>4. \A m \in Nat : 1 .. m = 1 .. n => m = n
  <2> SUFFICES ASSUME NEW m \in Nat, 1 .. m = 1 .. n PROVE m = n
    OBVIOUS
  <2>1. m # 0 => m \in 1 .. n
    OBVIOUS
  <2>2. n # 0 => n \in 1 .. m
    OBVIOUS
  <2> QED
    BY <2>1, <2>2
<1> QED
  BY <1>2, <1>3, <1>4

\* A set of numbers that has a member has a least one.
LEMMA Smallest ==
  ASSUME NEW S \in SUBSET Nat, S # {}
  PROVE  \E n \in S : \A m \in S : n <= m
<1>1. PICK n \in S : \A m \in S : ~(<<m, n>> \in OpToRel(<, Nat))
  BY NatLessThanWellFounded, WFMin
<1>2. \A m \in S : ~(m < n)
  BY <1>1 DEF OpToRel
<1> QED
  BY <1>2

\* Induction, as a fact about sets: the least number that is left out has a predecessor.
LEMMA Induction ==
  ASSUME NEW S \in SUBSET Nat, 0 \in S, \A n \in S : n + 1 \in S
  PROVE  S = Nat
<1> SUFFICES ASSUME Nat \ S # {} PROVE FALSE
  OBVIOUS
<1>1. PICK n \in Nat \ S : \A m \in Nat \ S : n <= m
  BY Smallest
<1>2. n # 0 /\ n - 1 \in Nat /\ n - 1 \in S /\ (n - 1) + 1 = n
  BY <1>1
<1> QED
  BY <1>1, <1>2

\* Sequences one behind the other are a sequence: the function that puts them together
\* exists, and all its values are sequences.
LEMMA Flattened ==
  ASSUME NEW S, NEW ss \in Seq(Seq(S))
  PROVE  FlattenSeq(ss) \in Seq(S)
<1> DEFINE L == Len(ss)
           Next1(g) == [i \in 1 .. L |-> IF i = 1 THEN ss[i] ELSE g[i - 1] \o ss[i]]
           flatten == CHOOSE g : g = Next1(g)
<1>1. L \in Nat /\ \A i \in 1 .. L : ss[i] \in Seq(S)
  BY LenProperties, ElementOfSeq
<1>2. CASE L = 0
  <2>1. FlattenSeq(ss) = ss
    BY <1>2 DEF FlattenSeq
  <2>2. ss = <<>>
    BY <1>2, EmptySeq
  <2> QED
    BY <2>1, <2>2, EmptySeq
<1>3. CASE L # 0
  <2> HIDE DEF L
  <2>1. \E g : g = Next1(g)
    <3> DEFINE Grows(g, n) == \A i \in 1 .. n : g[i] = IF i = 1 THEN ss[i] ELSE g[i - 1] \o ss[i]
               K == {n \in Nat : n <= L => \E g \in [1 .. n -> Seq(S)] : Grows(g, n)}
    <3>1. 0 \in K
      <4>1. [i \in 1 .. 0 |-> <<>>] \in [1 .. 0 -> Seq(S)] /\ Grows([i \in 1 .. 0 |-> <<>>], 0)
        OBVIOUS
      <4> QED
        BY <4>1
    <3>2. ASSUME NEW n \in K PROVE n + 1 \in K
      <4>0. n + 1 \in Nat
        BY <3>2
      <4> SUFFICES ASSUME n + 1 <= L
                   PROVE  \E g \in [1 .. n + 1 -> Seq(S)] : Grows(g, n + 1)
        <5> HIDE DEF Grows
        <5> QED
          BY <4>0
      <4>1. n \in Nat /\ n + 1 \in 1 .. L /\ n <= L
        BY <1>1, <3>2
      <4>2. PICK g \in [1 .. n -> Seq(S)] : Grows(g, n)
        BY <3>2, <4>1
      <4> DEFINE last == IF n = 0 THEN ss[n + 1] ELSE g[n] \o ss[n + 1]
                 h == [i \in 1 .. n + 1 |-> IF i = n + 1 THEN last ELSE g[i]]
      <4>3. last \in Seq(S)
        <5>1. ss[n + 1] \in Seq(S)
          BY <1>1, <4>1
        <5>2. n # 0 => g[n] \in Seq(S)
          BY <4>1, <4>2
        <5> QED
          BY <5>1, <5>2, ConcatProperties
      <4> HIDE DEF last
      <4>4. h \in [1 .. n + 1 -> Seq(S)]
        BY <4>1, <4>2, <4>3
      <4>5. ASSUME NEW i \in 1 .. n + 1
            PROVE  h[i] = IF i = 1 THEN ss[i] ELSE h[i - 1] \o ss[i]
        <5>1. CASE i = n + 1
          <6>1. n # 0 => n \in 1 .. n + 1 /\ n # n + 1 /\ i - 1 = n /\ i # 1
            BY <4>1, <5>1
          <6>2. n # 0 => h[i - 1] = g[n]
            BY <6>1
          <6>3. h[i] = last
            BY <5>1
          <6>4. n = 0 => i = 1
            BY <5>1
          <6> QED
            BY <4>1, <5>1, <6>1, <6>2, <6>3, <6>4 DEF last
        <5>2. CASE i # n + 1
          <6>1. i \in 1 .. n /\ (i # 1 => i - 1 \in 1 .. n + 1 /\ i - 1 # n + 1)
            BY <4>1, <5>2
          <6>2. h[i] = g[i] /\ (i # 1 => h[i - 1] = g[i - 1])
            BY <5>2, <6>1
          <6> QED
            BY <4>2, <6>1, <6>2
        <5> QED
          BY <5>1, <5>2
      <4> HIDE DEF h
      <4> QED
        BY <4>4, <4>5
    <3>3. K = Nat
      <4>1. K \in SUBSET Nat
        OBVIOUS
      <4> HIDE DEF K
      <4> QED
        BY <3>1, <3>2, <4>1, Induction
    <3>4. PICK g \in [1 .. L -> Seq(S)] : Grows(g, L)
      <4>1. L \in K
        <5> HIDE DEF K
        <5> QED
          BY <1>1, <3>3
      <4>2. L <= L
        BY <1>1
      <4> HIDE DEF Grows
      <4> QED
        BY <4>1, <4>2
    <3>5. g = Next1(g)
      BY <3>4
    <3> QED
      BY <3>5
  <2>2. flatten = Next1(flatten)
    BY <2>1
  <2>3. FlattenSeq(ss) = flatten[L]
    BY <1>3 DEF FlattenSeq, L
  <2> HIDE DEF flatten
  <2>4. \A i \in 1 .. L : flatten[i] = IF i = 1 THEN ss[i] ELSE flatten[i - 1] \o ss[i]
    <3> DEFINE t == Next1(flatten)
    <3>1. \A i \in 1 .. L : t[i] = IF i = 1 THEN ss[i] ELSE flatten[i - 1] \o ss[i]
      OBVIOUS
    <3>2. flatten = t
      BY <2>2
    <3> HIDE DEF t
    <3> QED
      BY <3>1, <3>2
  <2> DEFINE K == {n \in Nat : n \in 1 .. L => flatten[n] \in Seq(S)}
  <2>5. 0 \in K
    OBVIOUS
  <2>6. ASSUME NEW n \in K PROVE n + 1 \in K
    <3> SUFFICES ASSUME n + 1 \in 1 .. L PROVE flatten[n + 1] \in Seq(S)
      BY <2>6
    <3>1. n \in Nat /\ (n # 0 => n \in 1 .. L) /\ (n + 1) - 1 = n /\ (n + 1 = 1 <=> n = 0)
      BY <1>1, <2>6
    <3>2. ss[n + 1] \in Seq(S) /\ (n # 0 => flatten[n] \in Seq(S))
      BY <1>1, <2>6, <3>1
    <3>3. flatten[n + 1] = IF n = 0 THEN ss[n + 1] ELSE flatten[n] \o ss[n + 1]
      BY <2>4, <3>1
    <3> QED
      BY <3>2, <3>3, ConcatProperties
  <2>7. K = Nat
    <3>1. K \in SUBSET Nat
      OBVIOUS
    <3> HIDE DEF K
    <3> QED
      BY <2>5, <2>6, <3>1, Induction
  <2>8. L \in 1 .. L
    BY <1>1, <1>3
  <2> QED
    BY <1>1, <2>3, <2>7, <2>8
<1> QED
  BY <1>2, <1>3

-----------------------------------------------------------------------------
(***************************************************************************)
(* Variable byte integers                                                  *)
(***************************************************************************)

\* The loop writes as many digits as room is asked for, and they are those of the standard.
LEMMA DigitsAsStandard ==
  ASSUME NEW n \in Nat, n <= MAX
  PROVE  /\ Digits(n) = StandardLength(n)
         /\ Len(StandardLength(n)) = encoded_length(n)
<1> USE DEF MAX
<1> DEFINE IsLast(k) == n \div Weight[k + 1] = 0 /\ \A i \in 2 .. k : n \div Weight[i] > 0
           last == CHOOSE k \in 1 .. 4 : IsLast(k)
<1>0. /\ Weight[1] = 1 /\ Weight[2] = 128 /\ Weight[3] = 16384 /\ Weight[4] = 2097152
      /\ Weight[5] = 268435456
  BY SMT DEF Weight
<1>1. Digits(n) = [i \in 1 .. last |-> ((n \div Weight[i]) % 128) + (IF i < last THEN 128 ELSE 0)]
  BY SMT DEF Digits
<1>2. CASE n < 128
  <2>1. IsLast(1) /\ \A k \in 2 .. 4 : ~IsLast(k)
    BY SMT, <1>0, <1>2
  <2>2. last = 1
    BY SMT, <2>1
  <2> HIDE DEF last
  <2> QED
    BY SMT, <1>0, <1>1, <1>2, <2>2 DEF StandardLength, encoded_length
<1>3. CASE 128 <= n /\ n < 16384
  <2>1. IsLast(2) /\ \A k \in {1, 3, 4} : ~IsLast(k)
    BY SMT, <1>0, <1>3
  <2>2. last = 2
    BY SMT, <2>1
  <2> HIDE DEF last
  <2> QED
    BY SMT, <1>0, <1>1, <1>3, <2>2 DEF StandardLength, encoded_length
<1>4. CASE 16384 <= n /\ n < 2097152
  <2>1. IsLast(3) /\ \A k \in {1, 2, 4} : ~IsLast(k)
    BY SMT, <1>0, <1>4
  <2>2. last = 3
    BY SMT, <2>1
  <2> HIDE DEF last
  <2> QED
    BY SMT, <1>0, <1>1, <1>4, <2>2 DEF StandardLength, encoded_length
<1>5. CASE 2097152 <= n
  <2>1. IsLast(4) /\ \A k \in {1, 2, 3} : ~IsLast(k)
    BY SMT, <1>0, <1>5
  <2>2. last = 4
    BY SMT, <2>1
  <2> HIDE DEF last
  <2> QED
    BY SMT, <1>0, <1>1, <1>5, <2>2 DEF StandardLength, encoded_length
<1> QED
  BY SMT, <1>2, <1>3, <1>4, <1>5

\* What the digits of a number are, and that each but the last announces another.
LEMMA StandardDigits ==
  ASSUME NEW n \in Nat, n <= MAX
  PROVE  LET d == StandardLength(n) IN
         /\ d \in Seq(0 .. 255) /\ Len(d) \in 1 .. 4 /\ Len(d) = encoded_length(n)
         /\ d[Len(d)] < 128 /\ \A i \in 1 .. Len(d) - 1 : d[i] >= 128
         /\ n = (d[1] % 128) + (IF Len(d) >= 2 THEN (d[2] % 128) * Weight[2] ELSE 0)
                              + (IF Len(d) >= 3 THEN (d[3] % 128) * Weight[3] ELSE 0)
                              + (IF Len(d) >= 4 THEN (d[4] % 128) * Weight[4] ELSE 0)
<1> USE DEF MAX
<1>0. Weight[2] = 128 /\ Weight[3] = 16384 /\ Weight[4] = 2097152
  BY SMT DEF Weight
<1>1. CASE n < 128
  <2>1. StandardLength(n) = <<n>> /\ encoded_length(n) = 1
    BY SMT, <1>1 DEF StandardLength, encoded_length
  <2> QED
    BY SMT, <1>0, <1>1, <2>1
<1>2. CASE 128 <= n /\ n < 16384
  <2>1. StandardLength(n) = <<128 + (n % 128), n \div 128>> /\ encoded_length(n) = 2
    BY SMT, <1>2 DEF StandardLength, encoded_length
  <2>2. n \div 128 \in 0 .. 127 /\ n % 128 \in 0 .. 127 /\ n = 128 * (n \div 128) + (n % 128)
    BY SMT, <1>2
  <2> QED
    BY SMT, <1>0, <1>2, <2>1, <2>2
<1>3. CASE 16384 <= n /\ n < 2097152
  <2>1. /\ StandardLength(n) = <<128 + (n % 128), 128 + ((n \div 128) % 128), n \div 16384>>
        /\ encoded_length(n) = 3
    BY SMT, <1>3 DEF StandardLength, encoded_length
  <2>2. /\ n \div 16384 \in 0 .. 127 /\ (n \div 128) % 128 \in 0 .. 127 /\ n % 128 \in 0 .. 127
        /\ n = 16384 * (n \div 16384) + 128 * ((n \div 128) % 128) + (n % 128)
    BY SMT, <1>3
  <2> QED
    BY SMT, <1>0, <1>3, <2>1, <2>2
<1>4. CASE 2097152 <= n
  <2>1. /\ StandardLength(n) = <<128 + (n % 128), 128 + ((n \div 128) % 128),
                                 128 + ((n \div 16384) % 128), n \div 2097152>>
        /\ encoded_length(n) = 4
    BY SMT, <1>4 DEF StandardLength, encoded_length
  <2>2. /\ n \div 2097152 \in 0 .. 127 /\ (n \div 16384) % 128 \in 0 .. 127
        /\ (n \div 128) % 128 \in 0 .. 127 /\ n % 128 \in 0 .. 127
        /\ n = 2097152 * (n \div 2097152) + 16384 * ((n \div 16384) % 128)
                + 128 * ((n \div 128) % 128) + (n % 128)
    <3>1. n \div 128 \in Nat /\ n % 128 \in 0 .. 127 /\ n = 128 * (n \div 128) + (n % 128)
      BY SMT
    <3>2. /\ n \div 16384 \in Nat /\ (n \div 128) % 128 \in 0 .. 127
          /\ n \div 128 = 128 * (n \div 16384) + ((n \div 128) % 128)
      BY SMT
    <3>3. /\ n \div 2097152 \in 0 .. 127 /\ (n \div 16384) % 128 \in 0 .. 127
          /\ n \div 16384 = 128 * (n \div 2097152) + ((n \div 16384) % 128)
      BY SMT
    <3> QED
      BY SMT, <3>1, <3>2, <3>3
  <2> QED
    BY SMT, <1>0, <1>4, <2>1, <2>2
<1> QED
  BY SMT, <1>1, <1>2, <1>3, <1>4

\* Where the digits of a number are found in a buffer, the number is read, and what is read
\* next is what follows them.
LEMMA DecodesStandard ==
  ASSUME NEW S, NEW buffer \in Seq(S), NEW at \in Nat \ {0}, NEW n \in Nat, n <= MAX,
         at + Len(StandardLength(n)) - 1 <= Len(buffer),
         \A i \in 1 .. Len(StandardLength(n)) : buffer[at + i - 1] = StandardLength(n)[i]
  PROVE  decode_integer(buffer, at) =
           Ok([number |-> n, next |-> at + Len(StandardLength(n))])
<1> DEFINE d == StandardLength(n)
           k == Len(d)
           last == at + k - 1
           ends == {i \in at .. at + 3 :
                      i <= Len(buffer) /\ buffer[i] < 128 /\ Continues(buffer, at, i - 1)}
<1>1. /\ d \in Seq(0 .. 255) /\ k \in 1 .. 4
      /\ d[k] < 128 /\ \A i \in 1 .. k - 1 : d[i] >= 128
      /\ n = (d[1] % 128) + (IF k >= 2 THEN (d[2] % 128) * Weight[2] ELSE 0)
                           + (IF k >= 3 THEN (d[3] % 128) * Weight[3] ELSE 0)
                           + (IF k >= 4 THEN (d[4] % 128) * Weight[4] ELSE 0)
  BY StandardDigits
<1>2. /\ last <= Len(buffer) /\ Len(buffer) \in Nat
      /\ \A i \in 1 .. k : buffer[at + i - 1] = d[i] /\ d[i] \in 0 .. 255
  BY <1>1, ElementOfSeq, LenProperties
<1> HIDE DEF d, k
<1>3. \A i \in at .. last - 1 : buffer[i] >= 128
  <2> TAKE i \in at .. last - 1
  <2> DEFINE j == i - at + 1
  <2>1. j \in 1 .. k - 1 /\ j \in 1 .. k /\ at + j - 1 = i
    BY <1>1
  <2> HIDE DEF j
  <2> QED
    BY <1>1, <1>2, <2>1
<1>4. /\ last \in Int /\ at <= last /\ last <= at + 3
      /\ buffer[last] \in 0 .. 255 /\ buffer[last] < 128
  <2>1. k \in 1 .. k /\ at + k - 1 = last
    BY <1>1
  <2>2. buffer[last] = d[k] /\ d[k] \in 0 .. 255
    BY <1>2, <2>1
  <2> HIDE DEF last
  <2> QED
    BY <1>1, <2>1, <2>2
<1>5. ends = {last}
  <2>1. last \in ends
    BY <1>2, <1>3, <1>4 DEF Continues
  <2>2. ASSUME NEW i \in ends PROVE i = last
    <3>1. i \in at .. at + 3 /\ buffer[i] < 128 /\ \A j \in at .. i - 1 : buffer[j] >= 128
      BY <2>2 DEF Continues
    <3>2. ~(i < last)
      <4>1. i < last => i \in at .. last - 1
        BY <1>4, <3>1
      <4>2. \A b : b >= 128 /\ b < 128 /\ b \in 0 .. 255 => FALSE
        OBVIOUS
      <4>3. i < last => buffer[i] \in 0 .. 255
        <5> SUFFICES ASSUME i < last PROVE buffer[i] \in 0 .. 255
          OBVIOUS
        <5> DEFINE j == i - at + 1
        <5>1. j \in 1 .. k /\ at + j - 1 = i
          BY <1>1, <3>1
        <5> HIDE DEF j
        <5> QED
          BY <1>2, <5>1
      <4> QED
        BY <1>3, <3>1, <4>1, <4>2, <4>3
    <3>3. ~(last < i)
      <4> HIDE DEF last
      <4>1. last < i => last \in at .. i - 1
        BY <1>4, <3>1
      <4>2. last < i => buffer[last] >= 128
        BY <3>1, <4>1
      <4>3. \A b \in 0 .. 255 : ~(b < 128 /\ b >= 128)
        OBVIOUS
      <4> QED
        BY <1>4, <4>2, <4>3
    <3> QED
      BY <1>4, <3>1, <3>2, <3>3
  <2> QED
    BY <2>1, <2>2
<1>6. NumberAt(buffer, at, last) = n
  <2>1. /\ at + 0 <= last /\ buffer[at + 0] = d[1]
        /\ (at + 1 <= last <=> k >= 2) /\ (k >= 2 => buffer[at + 1] = d[2])
        /\ (at + 2 <= last <=> k >= 3) /\ (k >= 3 => buffer[at + 2] = d[3])
        /\ (at + 3 <= last <=> k >= 4) /\ (k >= 4 => buffer[at + 3] = d[4])
    <3>1. /\ 1 \in 1 .. k /\ at + 1 - 1 = at + 0
          /\ (k >= 2 => 2 \in 1 .. k) /\ at + 2 - 1 = at + 1
          /\ (k >= 3 => 3 \in 1 .. k) /\ at + 3 - 1 = at + 2
          /\ (k >= 4 => 4 \in 1 .. k) /\ at + 4 - 1 = at + 3
      BY <1>1
    <3> QED
      BY <1>1, <1>2, <3>1
  <2>2. /\ Weight[0 + 1] = 1 /\ Weight[1 + 1] = Weight[2] /\ Weight[2 + 1] = Weight[3]
        /\ Weight[3 + 1] = Weight[4]
    BY SMT DEF Weight
  <2>3. NumberAt(buffer, at, last) =
          (d[1] % 128) * 1 + (IF k >= 2 THEN (d[2] % 128) * Weight[2] ELSE 0)
                       + (IF k >= 3 THEN (d[3] % 128) * Weight[3] ELSE 0)
                       + (IF k >= 4 THEN (d[4] % 128) * Weight[4] ELSE 0)
    <3> HIDE DEF last
    <3> QED
      BY SMT, <2>1, <2>2 DEF NumberAt
  <2>4. (d[1] % 128) * 1 = d[1] % 128
    <3>1. 1 \in 1 .. k
      BY <1>1
    <3>2. d[1] \in 0 .. 255
      BY <1>2, <3>1
    <3>3. \A x \in 0 .. 255 : (x % 128) * 1 = x % 128
      OBVIOUS
    <3> QED
      BY <3>2, <3>3
  <2> QED
    BY SMT, <1>1, <2>3, <2>4
<1>7. ~(at > Len(buffer)) /\ last + 1 = at + k
  BY <1>1, <1>2, <1>4
<1>8. decode_integer(buffer, at) = Ok([number |-> NumberAt(buffer, at, last), next |-> last + 1])
  <2>1. (CHOOSE i \in ends : TRUE) = last
    BY <1>5
  <2> HIDE DEF last
  <2> QED
    BY <1>5, <1>7, <2>1 DEF decode_integer
<1> QED
  BY <1>6, <1>7, <1>8 DEF d, k

\* Where only the first of the digits are found, the end is not taken for that of the number.
LEMMA NoticesCutDigits ==
  ASSUME NEW S, NEW buffer \in Seq(S), NEW at \in Nat \ {0}, NEW n \in Nat, n <= MAX,
         at <= Len(buffer), Len(buffer) < at + Len(StandardLength(n)) - 1,
         \A i \in 1 .. Len(StandardLength(n)) :
           at + i - 1 <= Len(buffer) => buffer[at + i - 1] = StandardLength(n)[i]
  PROVE  decode_integer(buffer, at) = Err("unexpected_end_of_buffer")
<1> DEFINE d == StandardLength(n)
           k == Len(d)
           ends == {i \in at .. at + 3 :
                      i <= Len(buffer) /\ buffer[i] < 128 /\ Continues(buffer, at, i - 1)}
<1>1. /\ k \in 1 .. 4 /\ \A i \in 1 .. k - 1 : d[i] >= 128 /\ d[i] \in 0 .. 255
      /\ Len(buffer) \in Nat
  <2>1. d \in Seq(0 .. 255) /\ k \in 1 .. 4 /\ \A i \in 1 .. k - 1 : d[i] >= 128
    BY StandardDigits
  <2>2. \A i \in 1 .. k - 1 : i \in 1 .. k
    BY <2>1
  <2> QED
    BY <2>1, <2>2, ElementOfSeq, LenProperties
<1>2. /\ Len(buffer) < at + k - 1
      /\ \A i \in 1 .. k : at + i - 1 <= Len(buffer) => buffer[at + i - 1] = d[i]
  OBVIOUS
<1> HIDE DEF d, k
<1>3. ends = {}
  <2> SUFFICES ASSUME NEW i \in ends PROVE FALSE
    OBVIOUS
  <2> DEFINE j == i - at + 1
  <2>1. j \in 1 .. k - 1 /\ j \in 1 .. k /\ at + j - 1 = i
    BY <1>1, <1>2
  <2>2. at + j - 1 <= Len(buffer)
    BY <2>1
  <2> HIDE DEF j
  <2>3. buffer[i] = d[j]
    BY <1>2, <2>1, <2>2
  <2>4. \A b \in 0 .. 255 : ~(b < 128 /\ b >= 128)
    OBVIOUS
  <2> QED
    BY <1>1, <2>1, <2>3, <2>4
<1>4. ~(at > Len(buffer)) /\ ~(at + 4 <= Len(buffer))
  BY <1>1, <1>2
<1> QED
  BY <1>3, <1>4 DEF decode_integer

-----------------------------------------------------------------------------
(***************************************************************************)
(* Packets as a whole                                                      *)
(***************************************************************************)

\* The letters of a packet: numbers, among them the bytes, and words of flags.
Letter == Int \cup SUBSET Int

\* A byte is a letter.
LEMMA BytesAreLetters == 0 .. 255 \subseteq Letter
BY DEF Letter

\* Whether it is the letter `x` that stands `n` times in a text.
IsRepeated(x, n) == Repeat(x, n) \in Seq(Letter) /\ Len(Repeat(x, n)) = n

\* How letters, and numbers, are grouped does not matter to a concatenation.
LEMMA Regrouped ==
  /\ \A a \in Seq(Letter), b \in Seq(Letter), c \in Seq(Letter) : (a \o b) \o c = a \o (b \o c)
  /\ \A a \in Seq(Int), b \in Seq(Int), c \in Seq(Int) : (a \o b) \o c = a \o (b \o c)
<1>1. ASSUME NEW S, NEW a \in Seq(S), NEW b \in Seq(S), NEW c \in Seq(S)
      PROVE  (a \o b) \o c = a \o (b \o c)
  BY ConcatAssociative
<1>2. ASSUME NEW a \in Seq(Letter), NEW b \in Seq(Letter), NEW c \in Seq(Letter)
      PROVE  (a \o b) \o c = a \o (b \o c)
  BY <1>1
<1>3. ASSUME NEW a \in Seq(Int), NEW b \in Seq(Int), NEW c \in Seq(Int)
      PROVE  (a \o b) \o c = a \o (b \o c)
  BY <1>1
<1> QED
  BY <1>2, <1>3

\* The same letter again and again is a text.
LEMMA LettersRepeated ==
  \A x \in Letter, n \in Nat : IsRepeated(x, n)
BY Repeated DEF IsRepeated

\* Where the parts of a packet are.
LEMMA StandardParts ==
  ASSUME NEW first \in 0 .. 255, NEW rest \in Seq(Letter), Len(rest) <= MAX
  PROVE  /\ Standard(first, rest) \in Seq(Letter) /\ Len(rest) \in Nat
         /\ Len(StandardLength(Len(rest))) \in 1 .. 4
         /\ Len(Standard(first, rest)) = 1 + Len(StandardLength(Len(rest))) + Len(rest)
         /\ Standard(first, rest)[1] = first
         /\ \A i \in 1 .. Len(StandardLength(Len(rest))) :
              Standard(first, rest)[2 + i - 1] = StandardLength(Len(rest))[i]
         /\ SubSeq(Standard(first, rest), Len(StandardLength(Len(rest))) + 2,
                   Len(Standard(first, rest))) = rest
<1> DEFINE d == StandardLength(Len(rest))
           h == <<first>> \o d
           w == h \o rest
<1>1. Len(rest) \in Nat /\ d \in Seq(0 .. 255) /\ Len(d) \in 1 .. 4
  BY StandardDigits, LenProperties
<1>2. d \in Seq(Letter) /\ <<first>> \in Seq(Letter) /\ Len(<<first>>) = 1 /\ <<first>>[1] = first
  <2>1. first \in Letter
    BY BytesAreLetters
  <2>2. d \in Seq(Letter)
    BY <1>1, SeqMonotonic, BytesAreLetters
  <2> HIDE DEF d
  <2> QED
    BY <2>1, <2>2
<1>3. Standard(first, rest) = w
  BY DEF Standard
<1> HIDE DEF d
<1>4. /\ h \in Seq(Letter) /\ Len(h) = 1 + Len(d)
      /\ \A i \in 1 .. 1 + Len(d) : h[i] = IF i <= 1 THEN <<first>>[i] ELSE d[i - 1]
  BY <1>2, ConcatProperties
<1> HIDE DEF h
<1>5. /\ w \in Seq(Letter) /\ Len(w) = Len(h) + Len(rest)
      /\ \A i \in 1 .. Len(h) + Len(rest) : w[i] = IF i <= Len(h) THEN h[i] ELSE rest[i - Len(h)]
      /\ SubSeq(w, Len(h) + 1, Len(h) + Len(rest)) = rest
  <2>1. /\ w \in Seq(Letter) /\ Len(w) = Len(h) + Len(rest)
        /\ \A i \in 1 .. Len(h) + Len(rest) : w[i] = IF i <= Len(h) THEN h[i] ELSE rest[i - Len(h)]
    BY <1>4, ConcatProperties
  <2>2. SubSeq(w, Len(h) + 1, Len(h) + Len(rest)) = rest
    BY <1>4, Parts
  <2> QED
    BY <2>1, <2>2
<1> HIDE DEF w
<1>6. w[1] = first
  <2>1. 1 \in 1 .. 1 + Len(d) /\ 1 \in 1 .. Len(h) + Len(rest) /\ 1 <= Len(h)
    BY <1>1, <1>4
  <2> QED
    BY <1>2, <1>4, <1>5, <2>1
<1>7. \A i \in 1 .. Len(d) : w[2 + i - 1] = d[i]
  <2> TAKE i \in 1 .. Len(d)
  <2> DEFINE j == 2 + i - 1
  <2>1. /\ j \in 1 .. 1 + Len(d) /\ j \in 1 .. Len(h) + Len(rest) /\ j <= Len(h)
        /\ ~(j <= 1) /\ j - 1 = i
    BY <1>1, <1>4
  <2> HIDE DEF j
  <2>2. w[j] = d[i]
    BY <1>4, <1>5, <2>1
  <2> QED
    BY <2>2 DEF j
<1>8. Len(h) + 1 = Len(d) + 2 /\ Len(w) = 1 + Len(d) + Len(rest)
  BY <1>1, <1>4, <1>5
<1> QED
  BY <1>1, <1>3, <1>5, <1>6, <1>7, <1>8 DEF d

\* Where the length can be read, it decides.
LEMMA PartsByLength ==
  ASSUME NEW buffer, buffer # <<>>, NEW n, NEW next,
         decode_integer(buffer, 2) = Ok([number |-> n, next |-> next])
  PROVE  get_parts(buffer) =
           IF Len(buffer) < next - 1 + n THEN MissingBytes
           ELSE Ok([type |-> buffer[1] \div 16, flags |-> buffer[1] % 16,
                    body |-> SubSeq(buffer, next, next - 1 + n)])
<1> DEFINE r == decode_integer(buffer, 2)
<1>1. r.result = "ok" /\ r.value.number = n /\ r.value.next = next
  BY DEF Ok
<1>2. get_parts(buffer) =
        IF r.result = "ok"
        THEN IF Len(buffer) < r.value.next - 1 + r.value.number THEN MissingBytes
             ELSE Ok([type |-> buffer[1] \div 16, flags |-> buffer[1] % 16,
                      body |-> SubSeq(buffer, r.value.next, r.value.next - 1 + r.value.number)])
        ELSE r
  BY DEF get_parts, AndThen
<1> HIDE DEF r
<1> QED
  BY <1>1, <1>2

\* A packet that arrives as a whole is taken apart as it was put together.
LEMMA PartsOfWhole ==
  ASSUME NEW first \in 0 .. 255, NEW rest \in Seq(Letter), Len(rest) <= MAX
  PROVE  get_parts(Standard(first, rest)) =
           Ok([type |-> first \div 16, flags |-> first % 16, body |-> rest])
<1> DEFINE d == StandardLength(Len(rest))
           w == Standard(first, rest)
           n == Len(rest)
           k == Len(d)
<1>1. /\ w \in Seq(Letter) /\ n \in Nat /\ k \in 1 .. 4 /\ Len(w) = 1 + k + n
      /\ w[1] = first /\ \A i \in 1 .. k : w[2 + i - 1] = d[i]
      /\ SubSeq(w, k + 2, Len(w)) = rest
  BY StandardParts
<1>2. decode_integer(w, 2) = Ok([number |-> n, next |-> 2 + k])
  <2> HIDE DEF w
  <2>1. 2 \in Nat \ {0} /\ 2 + k - 1 <= Len(w)
    BY <1>1
  <2> QED
    BY <1>1, <2>1, DecodesStandard
<1> HIDE DEF w, k, n
<1>3. w # <<>> /\ 2 + k - 1 + n = Len(w) /\ ~(Len(w) < Len(w))
  BY <1>1
<1>4. \A next : next = 2 + k =>
        get_parts(w) = Ok([type |-> first \div 16, flags |-> first % 16, body |-> rest])
  <2> SUFFICES ASSUME NEW next, next = 2 + k
               PROVE  get_parts(w) = Ok([type |-> first \div 16, flags |-> first % 16, body |-> rest])
    OBVIOUS
  <2>1. next - 1 + n = Len(w) /\ next = k + 2
    BY <1>1
  <2>2. get_parts(w) = Ok([type |-> w[1] \div 16, flags |-> w[1] % 16,
                           body |-> SubSeq(w, next, next - 1 + n)])
    BY <1>2, <1>3, <2>1, PartsByLength
  <2>3. SubSeq(w, next, next - 1 + n) = rest
    BY <1>1, <2>1
  <2> QED
    BY <1>1, <2>2, <2>3
<1> QED
  BY <1>4 DEF w

\* Of a packet that is cut, the controller says that it is not all there; in a build that
\* checks subtractions it panics instead.
LEMMA PartsOfCut ==
  ASSUME NEW first \in 0 .. 255, NEW rest \in Seq(Letter), Len(rest) <= MAX,
         NEW m \in 1 .. Len(Standard(first, rest)) - 1
  PROVE  get_parts(SubSeq(Standard(first, rest), 1, m)) \in
           {Err("end_of_buffer"), Err("unexpected_end_of_buffer"), MissingBytes}
<1> DEFINE d == StandardLength(Len(rest))
           w == Standard(first, rest)
           n == Len(rest)
           k == Len(d)
           b == SubSeq(w, 1, m)
<1>1. /\ w \in Seq(Letter) /\ n \in Nat /\ k \in 1 .. 4 /\ Len(w) = 1 + k + n
      /\ \A i \in 1 .. k : w[2 + i - 1] = d[i]
  BY StandardParts
<1>2. m \in 1 .. Len(w) - 1 /\ m \in 0 .. Len(w)
  BY <1>1
<1> HIDE DEF w
<1>3. b \in Seq(Letter) /\ Len(b) = m /\ \A i \in 1 .. m : b[i] = w[i]
  BY <1>1, <1>2, Beginning
<1> HIDE DEF b
<1>4. b # <<>>
  BY <1>2, <1>3
<1>5. \A i \in 1 .. k : 2 + i - 1 <= m => b[2 + i - 1] = d[i]
  <2> SUFFICES ASSUME NEW i \in 1 .. k, 2 + i - 1 <= m PROVE b[2 + i - 1] = d[i]
    OBVIOUS
  <2> DEFINE j == 2 + i - 1
  <2>1. j \in 1 .. m
    BY <1>1, <1>2
  <2>2. w[j] = d[i]
    BY <1>1
  <2> HIDE DEF j
  <2>3. b[j] = d[i]
    BY <1>3, <2>1, <2>2
  <2> QED
    BY <2>3 DEF j
<1> HIDE DEF n, k
<1>6. CASE m = 1
  <2>1. decode_integer(b, 2) = Err("end_of_buffer")
    BY <1>3, <1>6 DEF decode_integer
  <2> QED
    BY <1>4, <2>1 DEF get_parts, AndThen, Err, b, w
<1>7. CASE 2 <= m /\ m < 1 + k
  <2>1. decode_integer(b, 2) = Err("unexpected_end_of_buffer")
    <3>1. 2 \in Nat \ {0} /\ 2 <= Len(b) /\ Len(b) < 2 + k - 1
      BY <1>1, <1>3, <1>7
    <3> QED
      BY <1>1, <1>3, <1>5, <3>1, NoticesCutDigits DEF n, k
  <2> QED
    BY <1>4, <2>1 DEF get_parts, AndThen, Err, b, w
<1>8. CASE 1 + k <= m
  <2>1. decode_integer(b, 2) = Ok([number |-> n, next |-> 2 + k])
    <3>1. 2 \in Nat \ {0} /\ 2 + k - 1 <= Len(b)
      BY <1>1, <1>3, <1>8
    <3>2. \A i \in 1 .. k : b[2 + i - 1] = d[i]
      BY <1>1, <1>5, <1>8
    <3> QED
      BY <1>1, <1>3, <3>1, <3>2, DecodesStandard DEF n, k
  <2>2. Len(b) < 2 + k - 1 + n
    BY <1>1, <1>2, <1>3
  <2>3. ASSUME NEW next, next = 2 + k PROVE get_parts(b) = MissingBytes
    <3>1. decode_integer(b, 2) = Ok([number |-> n, next |-> next])
      BY <2>1, <2>3
    <3>2. Len(b) < next - 1 + n
      BY <1>1, <1>2, <1>3, <2>3
    <3> QED
      BY <1>4, <3>1, <3>2, PartsByLength
  <2> QED
    BY <2>3 DEF b, w
<1> QED
  BY <1>1, <1>2, <1>6, <1>7, <1>8

-----------------------------------------------------------------------------
(***************************************************************************)
(* Encoding                                                                *)
(***************************************************************************)

\* A length takes one to four letters.
LEMMA LengthOfStandardLength ==
  ASSUME NEW n \in Nat
  PROVE  StandardLength(n) \in Seq(Letter) /\ Len(StandardLength(n)) \in 1 .. 4
<1>1. \A x \in Int : x \in Letter
  BY DEF Letter
<1>2. /\ n \in Letter /\ 128 + (n % 128) \in Letter /\ n \div 128 \in Letter
      /\ 128 + ((n \div 128) % 128) \in Letter /\ n \div 16384 \in Letter
  BY SMT, <1>1
<1>3. 128 + ((n \div 16384) % 128) \in Letter /\ n \div 2097152 \in Letter
  BY SMT, <1>1
<1> QED
  BY SMT, <1>2, <1>3 DEF StandardLength

\* How long a packet is, also one that is too long to be written.
LEMMA LengthOfStandard ==
  ASSUME NEW first \in 0 .. 255, NEW rest \in Seq(Letter)
  PROVE  /\ Len(rest) \in Nat /\ Len(StandardLength(Len(rest))) \in 1 .. 4
         /\ Len(Standard(first, rest)) = 1 + Len(StandardLength(Len(rest))) + Len(rest)
<1> DEFINE d == StandardLength(Len(rest))
<1>1. Len(rest) \in Nat /\ d \in Seq(Letter) /\ Len(d) \in 1 .. 4
  BY LengthOfStandardLength, LenProperties
<1> HIDE DEF d
<1>2. <<first>> \in Seq(Letter) /\ Len(<<first>>) = 1
  <2>1. first \in Letter
    BY BytesAreLetters
  <2> QED
    BY <2>1
<1>3. <<first>> \o d \in Seq(Letter) /\ Len(<<first>> \o d) = 1 + Len(d)
  BY <1>1, <1>2, ConcatProperties
<1>4. Len((<<first>> \o d) \o rest) = Len(<<first>> \o d) + Len(rest)
  BY <1>3, ConcatProperties
<1>5. Standard(first, rest) = (<<first>> \o d) \o rest
  BY DEF Standard, d
<1>6. Len(Standard(first, rest)) = 1 + Len(d) + Len(rest)
  BY <1>3, <1>4, <1>5
<1> QED
  BY <1>1, <1>6 DEF d

\* What begins a packet is written if the length can be announced and there is room for more.
LEMMA FixedHeaderWritten ==
  ASSUME NEW first \in 0 .. 255, NEW n \in Nat
  PROVE  FixedHeader(first, n) =
           IF n > MAX THEN Err("too_large")
           ELSE IF SEND_BUFFER_SIZE <= 1 + Len(StandardLength(n)) THEN Err("end_of_buffer")
           ELSE Ok(<<first>> \o StandardLength(n))
<1>1. MAX \in Nat
  BY SMT DEF MAX
<1>2. Len(<<first>>) = 1
  OBVIOUS
<1>3. n <= MAX => Digits(n) = StandardLength(n) /\ Len(StandardLength(n)) = encoded_length(n)
  BY DigitsAsStandard
<1>4. CASE n > MAX
  BY <1>1, <1>4 DEF FixedHeader, encode
<1>5. CASE ~(n > MAX) /\ SEND_BUFFER_SIZE <= 1 + Len(StandardLength(n))
  BY <1>1, <1>2, <1>3, <1>5 DEF FixedHeader, encode
<1>6. CASE ~(n > MAX) /\ ~(SEND_BUFFER_SIZE <= 1 + Len(StandardLength(n)))
  BY <1>1, <1>2, <1>3, <1>6 DEF FixedHeader, encode
<1> QED
  BY <1>4, <1>5, <1>6

\* What is asked for is at least what is written, so that no index is past the end.
LEMMA BehindWritten ==
  ASSUME NEW head \in Seq(Letter), NEW body \in Seq(Letter), NEW required \in Nat,
         Len(body) <= required
  PROVE  Behind(head, body, required) =
           IF required > SEND_BUFFER_SIZE - Len(head) THEN Err("buffer_too_small")
           ELSE Ok(head \o body)
<1>1. Len(head) \in Nat /\ Len(body) \in Nat /\ Len(head \o body) = Len(head) + Len(body)
  BY LenProperties, ConcatProperties
<1>2. ~(required > SEND_BUFFER_SIZE - Len(head)) => ~(Len(head \o body) > SEND_BUFFER_SIZE)
  BY <1>1, BuildAssumption
<1> QED
  BY <1>2 DEF Behind, Written

\* A packet that has to fit as a whole is written as the standard has it, or is too large; the
\* encoder never panics.
LEMMA WholeWritten ==
  ASSUME NEW first \in 0 .. 255, NEW body \in Seq(Letter)
  PROVE  /\ WholeEncoded(first, body).result \in
              {"ok", "too_large", "end_of_buffer", "buffer_too_small"}
         /\ WholeEncoded(first, body).result = "ok" =>
              WholeEncoded(first, body).value = Standard(first, body)
         /\ WholeEncoded(first, body).result # "ok" =>
              Len(Standard(first, body)) + 5 > SEND_BUFFER_SIZE
<1> DEFINE n == Len(body)
           d == StandardLength(n)
           h == <<first>> \o d
           required == Len(h) + n
           whole == WholeEncoded(first, body)
<1>1. /\ n \in Nat /\ d \in Seq(Letter) /\ Len(d) \in 1 .. 4
      /\ Len(Standard(first, body)) = 1 + Len(d) + n
  BY LengthOfStandard, LengthOfStandardLength
<1>2. h \in Seq(Letter) /\ Len(h) = 1 + Len(d)
  <2>1. first \in Letter
    BY BytesAreLetters
  <2>2. <<first>> \in Seq(Letter) /\ Len(<<first>>) = 1
    BY <2>1
  <2> HIDE DEF d
  <2> QED
    BY <1>1, <2>2, ConcatProperties
<1>3. SEND_BUFFER_SIZE \in Nat /\ SEND_BUFFER_SIZE <= MAX /\ MAX \in Nat
  BY SMT, BuildAssumption DEF MAX
<1>4. CASE n > MAX
  <2>1. FixedHeader(first, n) = Err("too_large")
    BY <1>1, <1>4, FixedHeaderWritten
  <2>2. whole = Err("too_large")
    BY <2>1 DEF WholeEncoded, AndThen, Err
  <2>3. Len(Standard(first, body)) + 5 > SEND_BUFFER_SIZE
    <3> HIDE DEF n, d
    <3> QED
      BY <1>1, <1>3, <1>4
  <2> HIDE DEF whole
  <2>4. whole.result = "too_large"
    BY <2>2 DEF Err
  <2> QED
    BY <2>3, <2>4 DEF whole
<1>5. CASE ~(n > MAX) /\ SEND_BUFFER_SIZE <= 1 + Len(d)
  <2>1. FixedHeader(first, n) = Err("end_of_buffer")
    BY <1>1, <1>5, FixedHeaderWritten
  <2>2. whole = Err("end_of_buffer")
    BY <2>1 DEF WholeEncoded, AndThen, Err
  <2>3. Len(Standard(first, body)) + 5 > SEND_BUFFER_SIZE
    <3> HIDE DEF n, d
    <3> QED
      BY <1>1, <1>3, <1>5
  <2> HIDE DEF whole
  <2>4. whole.result = "end_of_buffer"
    BY <2>2 DEF Err
  <2> QED
    BY <2>3, <2>4 DEF whole
<1>6. CASE ~(n > MAX) /\ ~(SEND_BUFFER_SIZE <= 1 + Len(d))
  <2>1. FixedHeader(first, n) = Ok(h)
    BY <1>1, <1>6, FixedHeaderWritten
  <2>2. whole = Behind(h, body, required)
    <3>1. FixedHeader(first, n).result = "ok" /\ FixedHeader(first, n).value = h
      BY <2>1 DEF Ok
    <3> HIDE DEF h
    <3> QED
      BY <3>1 DEF WholeEncoded, AndThen
  <2>3. required \in Nat /\ Len(body) <= required
    <3> HIDE DEF h
    <3> QED
      BY <1>1, <1>2
  <2> HIDE DEF whole, required
  <2>4. Behind(h, body, required) =
          IF required > SEND_BUFFER_SIZE - Len(h) THEN Err("buffer_too_small") ELSE Ok(h \o body)
    BY <1>2, <2>3, BehindWritten
  <2>5. required > SEND_BUFFER_SIZE - Len(h) => Len(Standard(first, body)) + 5 > SEND_BUFFER_SIZE
    <3>1. required = Len(h) + n
      BY DEF required
    <3>2. \A k \in 1 .. 4, m \in Nat, size \in Nat :
            (1 + k) + m > size - (1 + k) => (1 + k + m) + 5 > size
      OBVIOUS
    <3> HIDE DEF h, n, d
    <3> QED
      BY <1>1, <1>2, <1>3, <3>1, <3>2
  <2>6. h \o body = Standard(first, body)
    BY DEF Standard
  <2>7. CASE required > SEND_BUFFER_SIZE - Len(h)
    <3>1. whole.result = "buffer_too_small"
      BY <2>2, <2>4, <2>7 DEF Err
    <3> QED
      BY <2>5, <2>7, <3>1 DEF whole
  <2>8. CASE ~(required > SEND_BUFFER_SIZE - Len(h))
    <3>1. whole = Ok(Standard(first, body))
      BY <2>2, <2>4, <2>6, <2>8
    <3>2. whole.result = "ok" /\ whole.value = Standard(first, body)
      BY <3>1 DEF Ok
    <3> QED
      BY <3>2 DEF whole
  <2> QED
    BY <2>7, <2>8
<1> QED
  BY <1>4, <1>5, <1>6

\* Whether a text's length fits the two bytes it is announced in; beyond, the code drops the
\* rest of the length without noticing.
IsShort(text) == Len(text) <= 65535

\* What has only a few letters is short.
LEMMA FewAreShort ==
  ASSUME NEW text, NEW n \in 0 .. 100, Len(text) = n
  PROVE  IsShort(text)
<1>1. n <= 65535
  OBVIOUS
<1> QED
  BY <1>1 DEF IsShort

\* A text behind its length.
LEMMA TextIsText ==
  ASSUME NEW text \in Seq(Letter)
  PROVE  /\ Text(text) \in Seq(Letter) /\ Len(Text(text)) = 2 + Len(text) /\ Len(text) \in Nat
         /\ IsShort(text) => WithLength(text) = Text(text)
<1> DEFINE n == Len(text)
           size == <<n \div 256, n % 256>>
<1>1. n \in Nat
  BY LenProperties
<1>2. n \div 256 \in Letter /\ n % 256 \in Letter
  <2>1. n \div 256 \in Int /\ n % 256 \in Int
    BY <1>1
  <2> QED
    BY <2>1 DEF Letter
<1>3. size \in Seq(Letter) /\ Len(size) = 2
  <2> HIDE DEF n
  <2> QED
    BY <1>2
<1>4. Text(text) = size \o text /\ (IsShort(text) => WithLength(text) = size \o text)
  <2>1. IsShort(text) => (n \div 256) % 256 = n \div 256
    <3>1. \A m \in Nat : m <= 65535 => (m \div 256) % 256 = m \div 256
      OBVIOUS
    <3> QED
      BY <1>1, <3>1 DEF IsShort
  <2>2. Text(text) = size \o text
    BY DEF Text
  <2>3. IsShort(text) => Word16(n) = size
    BY <2>1 DEF Word16
  <2> QED
    BY <2>2, <2>3 DEF WithLength
<1> HIDE DEF size
<1>5. size \o text \in Seq(Letter) /\ Len(size \o text) = 2 + Len(text)
  <2>1. size \o text \in Seq(Letter) /\ Len(size \o text) = Len(size) + Len(text)
    BY <1>3, ConcatProperties
  <2> QED
    BY <1>3, <2>1
<1> QED
  BY <1>1, <1>4, <1>5

\* A small number as a u16.
LEMMA ByteAsWord ==
  ASSUME NEW b \in 0 .. 255
  PROVE  Word16(b) = <<0, b>>
<1>1. (b \div 256) % 256 = 0 /\ b % 256 = b
  OBVIOUS
<1> QED
  BY <1>1 DEF Word16

\* The letters a concatenation has.
LEMMA Joined ==
  ASSUME NEW s \in Seq(Letter), NEW t \in Seq(Letter), NEW u \in Seq(Letter),
         Len(u) = Len(s) + Len(t),
         \A i \in 1 .. Len(u) : u[i] = IF i <= Len(s) THEN s[i] ELSE t[i - Len(s)]
  PROVE  s \o t = u
<1>1. /\ Len(s) \in Nat /\ Len(t) \in Nat
      /\ s \o t \in Seq(Letter) /\ Len(s \o t) = Len(s) + Len(t)
      /\ \A i \in 1 .. Len(s) + Len(t) :
           (s \o t)[i] = IF i <= Len(s) THEN s[i] ELSE t[i - Len(s)]
  BY LenProperties, ConcatProperties
<1>2. \A i \in 1 .. Len(s \o t) : (s \o t)[i] = u[i]
  BY <1>1
<1> QED
  BY <1>1, <1>2, SeqEqual

AText == {text \in Seq(Letter) : IsShort(text)}

\* A packet that connects, subscribes or publishes, of any texts and payload.
AConnect ==
  [type : {"connect"}, client_identifier : AText, username : AText, password : AText,
   keep_alive : 0 .. 255]

ASubscribe ==
  [type : {"subscribe"}, packet_identifier : 0 .. 255, filters : Seq(AText)]

APublish ==
  [type : {"publish"}, topic : AText, payload : Seq(Letter), retained : {0, 1}]

\* What is encoded of a packet is what the standard has behind the fixed header.
LEMMA ConnectBodyAsStandard ==
  ASSUME NEW p \in AConnect
  PROVE  ConnectBody(p) \in Seq(Letter) /\ StandardBytes(p) = Standard(16, ConnectBody(p))
<1> DEFINE k == p.keep_alive
<1>1. /\ p.type = "connect" /\ k \in 0 .. 255 /\ p.client_identifier \in Seq(Letter)
      /\ p.username \in Seq(Letter) /\ p.password \in Seq(Letter)
      /\ IsShort(p.client_identifier) /\ IsShort(p.username)
      /\ IsShort(p.password)
  BY DEF AConnect, AText
<1> HIDE DEF k
<1> DEFINE eight == <<0, 4, 77, 81, 84, 84, 5, 194>>
           name == <<77, 81, 84, 84>>
           ten == <<0, 4, 77, 81, 84, 84, 5, 194, 0, k>>
<1>0. /\ eight \in Seq(Letter) /\ name \in Seq(Letter) /\ ten \in Seq(Letter)
      /\ <<0>> \in Seq(Letter) /\ <<0, k>> \in Seq(Letter) /\ <<0, 4>> \in Seq(Letter)
      /\ <<5, 194, 0, k>> \in Seq(Letter) /\ <<0, 4, 77, 81, 84, 84>> \in Seq(Letter)
  <2>1. \A b \in Int : b \in Letter
    BY DEF Letter
  <2>2. k \in Letter /\ 0 \in Letter /\ 4 \in Letter /\ 77 \in Letter /\ 81 \in Letter
        /\ 84 \in Letter /\ 5 \in Letter /\ 194 \in Letter
    BY <1>1, <2>1
  <2> QED
    BY <2>2
<1>2. eight \o Word16(k) = ten
  <2>1. Word16(k) = <<0, k>>
    BY <1>1, ByteAsWord
  <2> DEFINE two == <<0, k>>
  <2>2. Len(ten) = Len(eight) + Len(two)
    OBVIOUS
  <2>3. \A i \in 1 .. Len(ten) : ten[i] = IF i <= Len(eight) THEN eight[i] ELSE two[i - Len(eight)]
    OBVIOUS
  <2>5. two \in Seq(Letter)
    BY <1>0
  <2> HIDE DEF eight, ten, two
  <2>6. eight \o two = ten
    BY <1>0, <2>2, <2>3, <2>5, Joined
  <2> QED
    BY <2>1, <2>6 DEF two
<1>3. Text(name) \o <<5, 194, 0, k>> = ten
  <2> DEFINE six == <<0, 4, 77, 81, 84, 84>>
             four == <<5, 194, 0, k>>
             two == <<0, 4>>
  <2>1. Text(name) = two \o name
    BY DEF Text
  <2>2. Len(six) = Len(two) + Len(name) /\ Len(ten) = Len(six) + Len(four)
    OBVIOUS
  <2>3. \A i \in 1 .. Len(six) : six[i] = IF i <= Len(two) THEN two[i] ELSE name[i - Len(two)]
    OBVIOUS
  <2>4. \A i \in 1 .. Len(ten) : ten[i] = IF i <= Len(six) THEN six[i] ELSE four[i - Len(six)]
    OBVIOUS
  <2> HIDE DEF name, two, six, four, ten
  <2>5. two \in Seq(Letter) /\ six \in Seq(Letter) /\ four \in Seq(Letter)
    BY <1>0 DEF two, six, four
  <2>6. two \o name = six
    BY <1>0, <2>2, <2>3, <2>5, Joined
  <2>7. six \o four = ten
    BY <1>0, <2>2, <2>4, <2>5, Joined
  <2> QED
    BY <2>1, <2>6, <2>7 DEF four
<1>4. StandardLength(0) = <<0>>
  BY SMT DEF StandardLength
<1>5. ten \in Seq(Letter) /\ <<0>> \in Seq(Letter)
  BY <1>0
<1> HIDE DEF ten
<1>6. ConnectBody(p) = ten \o <<0>> \o Text(p.client_identifier) \o Text(p.username) \o Text(p.password)
  BY <1>1, <1>2, TextIsText DEF ConnectBody, eight, k
<1>7. StandardBytes(p) =
        Standard(16, ten \o <<0>> \o Text(p.client_identifier) \o Text(p.username) \o Text(p.password))
  BY <1>1, <1>3, <1>4 DEF StandardBytes, k, name
<1>8. ConnectBody(p) \in Seq(Letter)
  <2>1. ten \o <<0>> \in Seq(Letter)
    BY <1>5, ConcatProperties
  <2>2. ten \o <<0>> \o Text(p.client_identifier) \in Seq(Letter)
    BY <1>1, <2>1, ConcatProperties, TextIsText
  <2>3. ten \o <<0>> \o Text(p.client_identifier) \o Text(p.username) \in Seq(Letter)
    BY <1>1, <2>2, ConcatProperties, TextIsText
  <2>4. ten \o <<0>> \o Text(p.client_identifier) \o Text(p.username) \o Text(p.password)
          \in Seq(Letter)
    BY <1>1, <2>3, ConcatProperties, TextIsText
  <2> QED
    BY <1>6, <2>4
<1> QED
  BY <1>6, <1>7, <1>8

\* The same of a packet that subscribes, with any number of filters.
LEMMA SubscribeBodyAsStandard ==
  ASSUME NEW p \in ASubscribe
  PROVE  SubscribeBody(p) \in Seq(Letter) /\ StandardBytes(p) = Standard(130, SubscribeBody(p))
<1> DEFINE id == p.packet_identifier
           texts == [i \in DOMAIN p.filters |-> Text(p.filters[i]) \o <<0>>]
<1>1. p.type = "subscribe" /\ id \in 0 .. 255 /\ p.filters \in Seq(AText)
  BY DEF ASubscribe
<1>2. Word16(id) = <<0, id>>
  BY <1>1, ByteAsWord
<1>3. StandardLength(0) = <<0>>
  BY SMT DEF StandardLength
<1>4. DOMAIN p.filters = 1 .. Len(p.filters) /\ Len(p.filters) \in Nat
      /\ \A i \in DOMAIN p.filters : p.filters[i] \in Seq(Letter) /\ IsShort(p.filters[i])
  <2>1. DOMAIN p.filters = 1 .. Len(p.filters) /\ Len(p.filters) \in Nat
        /\ \A i \in DOMAIN p.filters : p.filters[i] \in AText
    BY <1>1, LenProperties, ElementOfSeq
  <2> QED
    BY <2>1 DEF AText
<1>5. 0 \in Letter /\ id \in Letter
  <2> HIDE DEF id
  <2>1. \A b \in Int : b \in Letter
    BY DEF Letter
  <2> QED
    BY <1>1, <2>1
<1>6. texts \in Seq(Seq(Letter))
  <2>1. \A i \in DOMAIN p.filters : Text(p.filters[i]) \o <<0>> \in Seq(Letter)
    <3> TAKE i \in DOMAIN p.filters
    <3>1. Text(p.filters[i]) \in Seq(Letter)
      BY <1>4, TextIsText
    <3>2. <<0>> \in Seq(Letter)
      BY <1>5
    <3> QED
      BY <3>1, <3>2, ConcatProperties
  <2>2. texts \in [1 .. Len(p.filters) -> Seq(Letter)]
    BY <1>4, <2>1
  <2> HIDE DEF texts
  <2> QED
    BY <1>4, <2>2, SeqDef
<1>7. [i \in DOMAIN p.filters |-> WithLength(p.filters[i]) \o <<Options(0)>>] = texts
  <2>1. \A i \in DOMAIN p.filters : WithLength(p.filters[i]) = Text(p.filters[i])
    BY <1>4, TextIsText
  <2> QED
    BY <2>1 DEF Options
<1> HIDE DEF texts, id
<1>8. SubscribeBody(p) = <<0, id>> \o <<0>> \o FlattenSeq(texts)
  BY <1>2, <1>7 DEF SubscribeBody, id
<1>9. StandardBytes(p) = Standard(130, <<0, id>> \o <<0>> \o FlattenSeq(texts))
  BY <1>1, <1>3 DEF StandardBytes, texts, id
<1>10. SubscribeBody(p) \in Seq(Letter)
  <2>1. <<0, id>> \in Seq(Letter) /\ <<0>> \in Seq(Letter)
    BY <1>5
  <2>2. FlattenSeq(texts) \in Seq(Letter)
    BY <1>6, Flattened
  <2>3. <<0, id>> \o <<0>> \in Seq(Letter)
    BY <2>1, ConcatProperties
  <2> QED
    BY <1>8, <2>2, <2>3, ConcatProperties
<1> QED
  BY <1>8, <1>9, <1>10

\* The same of a packet that publishes: its payload stands apart, but its length is announced.
LEMMA PublishAsStandard ==
  ASSUME NEW p \in APublish
  PROVE  /\ PublishHeader(p) \in Seq(Letter) /\ p.payload \in Seq(Letter)
         /\ Len(PublishHeader(p)) = 3 + Len(p.topic)
         /\ Len(PublishHeader(p)) + Len(p.payload) = Len(PublishHeader(p) \o p.payload)
         /\ 48 + p.retained \in 0 .. 255
         /\ StandardBytes(p) = Standard(48 + p.retained, PublishHeader(p) \o p.payload)
<1> DEFINE header == PublishHeader(p)
<1>1. /\ p.type = "publish" /\ p.topic \in Seq(Letter) /\ p.payload \in Seq(Letter)
      /\ 48 + p.retained \in 0 .. 255 /\ IsShort(p.topic)
  <2>1. /\ p.type = "publish" /\ p.topic \in Seq(Letter) /\ p.payload \in Seq(Letter)
        /\ p.retained \in {0, 1} /\ IsShort(p.topic)
    BY DEF APublish, AText
  <2>2. \A b \in {0, 1} : 48 + b \in 0 .. 255
    OBVIOUS
  <2> QED
    BY <2>1, <2>2
<1>2. StandardLength(0) = <<0>>
  BY SMT DEF StandardLength
<1>3. <<0>> \in Seq(Letter) /\ Len(<<0>>) = 1
  <2>1. 0 \in Letter
    BY DEF Letter
  <2> QED
    BY <2>1
<1>4. header = Text(p.topic) \o <<0>>
  BY <1>1, TextIsText DEF PublishHeader
<1>5. StandardBytes(p) = Standard(48 + p.retained, header \o p.payload)
  BY <1>1, <1>2, <1>4 DEF StandardBytes
<1>6. header \in Seq(Letter) /\ Len(header) = 3 + Len(p.topic)
  <2>1. /\ Text(p.topic) \in Seq(Letter) /\ Len(Text(p.topic)) = 2 + Len(p.topic)
        /\ Len(p.topic) \in Nat
    BY <1>1, TextIsText
  <2>2. /\ Text(p.topic) \o <<0>> \in Seq(Letter)
        /\ Len(Text(p.topic) \o <<0>>) = Len(Text(p.topic)) + Len(<<0>>)
    BY <1>3, <2>1, ConcatProperties
  <2> QED
    BY <1>3, <1>4, <2>1, <2>2
<1> HIDE DEF header
<1>7. Len(header) + Len(p.payload) = Len(header \o p.payload)
  BY <1>1, <1>6, ConcatProperties
<1> QED
  BY <1>1, <1>5, <1>6, <1>7 DEF header

\* What goes through the buffer has to fit, and the payload that follows is announced.
LEMMA PublishWritten ==
  ASSUME NEW p \in APublish
  PROVE  /\ send(p).result \in {"ok", "too_large", "end_of_buffer", "buffer_too_small"}
         /\ send(p).result = "ok" => send(p).value = StandardBytes(p)
         /\ send(p).result # "ok" /\ 3 + Len(p.topic) + Len(p.payload) <= MAX =>
              Copied(p) > SEND_BUFFER_SIZE
<1> DEFINE first == 48 + p.retained
           header == PublishHeader(p)
           payload == p.payload
           rest == header \o payload
           n == Len(header) + Len(payload)
           d == StandardLength(n)
           h == <<first>> \o d
           sent == send(p)
           whole == StandardBytes(p)
<1>1. /\ header \in Seq(Letter) /\ payload \in Seq(Letter) /\ n = Len(rest)
      /\ Len(header) = 3 + Len(p.topic)
      /\ first \in 0 .. 255 /\ whole = Standard(first, rest)
  BY PublishAsStandard
<1>2. p.type = "publish" /\ Len(p.topic) \in Nat
  BY LenProperties DEF APublish, AText
<1> HIDE DEF first, header, payload, whole
<1>3. rest \in Seq(Letter) /\ Len(header) \in Nat /\ Len(payload) \in Nat /\ n \in Nat
  BY <1>1, ConcatProperties, LenProperties
<1>4. /\ d \in Seq(Letter) /\ Len(d) \in 1 .. 4 /\ Len(whole) = 1 + Len(d) + n
  <2>1. /\ Len(StandardLength(Len(rest))) \in 1 .. 4
        /\ Len(Standard(first, rest)) = 1 + Len(StandardLength(Len(rest))) + Len(rest)
    BY <1>1, <1>3, LengthOfStandard
  <2>2. d \in Seq(Letter)
    BY <1>3, LengthOfStandardLength
  <2> HIDE DEF rest, n
  <2> QED
    BY <1>1, <2>1, <2>2
<1>5. h \in Seq(Letter) /\ Len(h) = 1 + Len(d)
  <2>1. first \in Letter
    BY <1>1, BytesAreLetters
  <2>2. <<first>> \in Seq(Letter) /\ Len(<<first>>) = 1
    BY <2>1
  <2> HIDE DEF d
  <2> QED
    BY <1>4, <2>2, ConcatProperties
<1>6. whole = h \o rest /\ h \o rest = (h \o header) \o payload
  <2>1. Standard(first, rest) = h \o rest
    <3> HIDE DEF rest, n
    <3> QED
      BY <1>1 DEF Standard
  <2>2. h \o rest = (h \o header) \o payload
    <3> HIDE DEF h
    <3> QED
      BY <1>1, <1>5, Regrouped
  <2> QED
    BY <1>1, <2>1, <2>2
<1>7. SEND_BUFFER_SIZE \in Nat
  BY BuildAssumption
<1>8. sent = AndThen(AndThen(FixedHeader(first, n), LAMBDA head : Behind(head, header, Len(header))),
                     LAMBDA head : Ok(head \o payload))
  BY <1>2 DEF send, try_encode, PublishEncoded, trailing_payload, first, header, payload
<1>9. Copied(p) = 1 + Len(d) + Len(header)
  <2>1. Copied(p) = Len(whole) - Len(payload)
    BY <1>2 DEF Copied, whole, payload
  <2> HIDE DEF d
  <2> QED
    BY <1>3, <1>4, <2>1
<1> HIDE DEF rest, sent
<1>10. CASE n > MAX
  <2>1. FixedHeader(first, n) = Err("too_large")
    <3> HIDE DEF n
    <3> QED
      BY <1>1, <1>3, <1>10, FixedHeaderWritten
  <2>2. sent = Err("too_large")
    BY <1>8, <2>1 DEF AndThen, Err
  <2>3. sent.result = "too_large"
    BY <2>2 DEF Err
  <2>4. ~(3 + Len(p.topic) + Len(p.payload) <= MAX)
    <3>1. MAX \in Nat
      BY SMT DEF MAX
    <3>2. Len(header) = 3 + Len(p.topic) /\ Len(payload) = Len(p.payload) /\ Len(payload) \in Nat
      BY <1>1, <1>3 DEF payload
    <3>3. \A a, b, m \in Nat : (3 + a) + b > m => ~(3 + a + b <= m)
      OBVIOUS
    <3> QED
      BY <1>2, <1>10, <3>1, <3>2, <3>3
  <2> QED
    BY <2>3, <2>4 DEF sent
<1>11. CASE ~(n > MAX) /\ SEND_BUFFER_SIZE <= 1 + Len(d)
  <2> HIDE DEF n
  <2>1. FixedHeader(first, n) = Err("end_of_buffer")
    BY <1>1, <1>3, <1>11, FixedHeaderWritten
  <2>2. sent = Err("end_of_buffer")
    BY <1>8, <2>1 DEF AndThen, Err
  <2>3. sent.result = "end_of_buffer"
    BY <2>2 DEF Err
  <2>4. Copied(p) > SEND_BUFFER_SIZE
    <3> DEFINE IsHeader(m) == 3 <= m
    <3>1. Len(header) \in Nat /\ IsHeader(Len(header))
      BY <1>1, <1>3
    <3>2. \A k, m, size \in Nat : IsHeader(m) /\ size <= 1 + k => 1 + k + m > size
      OBVIOUS
    <3> HIDE DEF d, header, IsHeader
    <3>3. Len(d) \in Nat
      BY <1>4
    <3> QED
      BY <1>7, <1>9, <1>11, <3>1, <3>2, <3>3
  <2> QED
    BY <2>3, <2>4 DEF sent
<1>12. CASE ~(n > MAX) /\ ~(SEND_BUFFER_SIZE <= 1 + Len(d))
  <2> HIDE DEF n
  <2>1. FixedHeader(first, n) = Ok(h)
    BY <1>1, <1>3, <1>12, FixedHeaderWritten
  <2> HIDE DEF h
  <2>2. FixedHeader(first, n).result = "ok" /\ FixedHeader(first, n).value = h
    BY <2>1 DEF Ok
  <2> DEFINE buffered == Behind(h, header, Len(header))
  <2>3. sent = IF buffered.result = "ok" THEN Ok(buffered.value \o payload) ELSE buffered
    BY <1>8, <2>2 DEF AndThen
  <2>4. buffered = IF Len(header) > SEND_BUFFER_SIZE - Len(h) THEN Err("buffer_too_small")
                   ELSE Ok(h \o header)
    <3>1. Len(header) \in Nat /\ Len(header) <= Len(header)
      BY <1>3
    <3> QED
      BY <1>1, <1>5, <3>1, BehindWritten
  <2> HIDE DEF buffered
  <2>5. CASE Len(header) > SEND_BUFFER_SIZE - Len(h)
    <3>1. buffered.result = "buffer_too_small"
      BY <2>4, <2>5 DEF Err
    <3>2. sent.result = "buffer_too_small"
      BY <2>3, <3>1
    <3>3. Copied(p) > SEND_BUFFER_SIZE
      <4> HIDE DEF d
      <4> QED
        BY <1>3, <1>4, <1>5, <1>7, <1>9, <2>5
    <3> QED
      BY <3>2, <3>3 DEF sent
  <2>6. CASE ~(Len(header) > SEND_BUFFER_SIZE - Len(h))
    <3>1. buffered = Ok(h \o header)
      BY <2>4, <2>6
    <3>2. buffered.result = "ok" /\ buffered.value = h \o header
      BY <3>1 DEF Ok
    <3>3. sent = Ok(whole)
      BY <1>6, <2>3, <3>2
    <3>4. sent.result = "ok" /\ sent.value = whole
      BY <3>3 DEF Ok
    <3> QED
      BY <3>4 DEF sent, whole
  <2> QED
    BY <2>5, <2>6
<1> QED
  BY <1>10, <1>11, <1>12

\* What the controller may have to say.
Outgoing == AConnect \cup ASubscribe \cup APublish \cup {[type |-> "ping_request"]}

\* A payload is not so long that its length could not be announced.
IsAnnounced(p) == p.type = "publish" => 3 + Len(p.topic) + Len(p.payload) <= MAX

\* Whatever the controller says, of payloads of any length and texts whose length fits its two
\* bytes: the encoder neither panics nor writes anything but the packet of the standard, and
\* of what fits it refuses only what is not a publish and comes within five bytes of the size
\* of the buffer.
THEOREM SendsStandard ==
  ASSUME NEW p \in Outgoing
  PROVE  /\ send(p).result \in {"ok", "too_large", "end_of_buffer", "buffer_too_small"}
         /\ send(p).result = "ok" => send(p).value = StandardBytes(p)
         /\ send(p).result # "ok" /\ IsAnnounced(p) => IsLarge(p)
<1> DEFINE sent == send(p)
           whole == StandardBytes(p)
<1>1. ASSUME NEW first \in 0 .. 255, NEW body \in Seq(Letter), whole = Standard(first, body),
             try_encode(p) = WholeEncoded(first, body), p.type # "publish"
      PROVE  /\ sent.result \in {"ok", "too_large", "end_of_buffer", "buffer_too_small"}
             /\ sent.result = "ok" => sent.value = whole
             /\ sent.result # "ok" => IsLarge(p)
  <2> DEFINE encoded == WholeEncoded(first, body)
  <2>1. /\ encoded.result \in {"ok", "too_large", "end_of_buffer", "buffer_too_small"}
        /\ encoded.result = "ok" => encoded.value = whole
        /\ encoded.result # "ok" => Len(whole) + 5 > SEND_BUFFER_SIZE
    BY <1>1, WholeWritten
  <2>2. Len(whole) \in Nat
    <3>1. /\ Len(body) \in Nat /\ Len(StandardLength(Len(body))) \in 1 .. 4
          /\ Len(whole) = 1 + Len(StandardLength(Len(body))) + Len(body)
      BY <1>1, LengthOfStandard
    <3> QED
      BY <3>1
  <2>3. whole \in Seq(Letter)
    <3> DEFINE d == StandardLength(Len(body))
    <3>1. d \in Seq(Letter)
      BY LengthOfStandardLength, LenProperties
    <3>2. first \in Letter
      BY BytesAreLetters
    <3>3. <<first>> \in Seq(Letter)
      BY <3>2
    <3> HIDE DEF d
    <3>4. <<first>> \o d \in Seq(Letter)
      BY <3>1, <3>3, ConcatProperties
    <3>5. (<<first>> \o d) \o body \in Seq(Letter)
      BY <3>4, ConcatProperties
    <3> QED
      BY <1>1, <3>5 DEF Standard, d
  <2>4. Copied(p) = Len(whole)
    <3>1. Copied(p) = Len(whole) - 0
      BY <1>1 DEF Copied
    <3> HIDE DEF whole
    <3> QED
      BY <2>2, <3>1
  <2>5. sent = IF encoded.result = "ok" THEN Ok(encoded.value \o <<>>) ELSE encoded
    <3>1. trailing_payload(p) = <<>>
      BY <1>1 DEF trailing_payload
    <3> HIDE DEF encoded
    <3>2. try_encode(p) = encoded
      BY <1>1 DEF encoded
    <3> QED
      BY <3>1, <3>2 DEF send, AndThen
  <2> HIDE DEF encoded, sent, whole
  <2>6. CASE encoded.result = "ok"
    <3>1. whole \o <<>> = whole
      BY <2>3, ConcatEmptySeq
    <3>2. sent = Ok(whole)
      BY <2>1, <2>5, <2>6, <3>1
    <3>3. sent.result = "ok" /\ sent.value = whole
      BY <3>2 DEF Ok
    <3> QED
      BY <3>3
  <2>7. CASE encoded.result # "ok"
    <3>1. sent = encoded
      BY <2>5, <2>7
    <3> QED
      BY <1>1, <2>1, <2>4, <2>7, <3>1 DEF IsLarge
  <2> QED
    BY <2>6, <2>7
<1>2. CASE p \in AConnect
  <2>1. p.type = "connect"
    BY <1>2 DEF AConnect
  <2>2. /\ ConnectBody(p) \in Seq(Letter) /\ whole = Standard(16, ConnectBody(p))
        /\ try_encode(p) = WholeEncoded(16, ConnectBody(p))
    BY <1>2, <2>1, ConnectBodyAsStandard DEF try_encode, ConnectEncoded
  <2> HIDE DEF whole, sent
  <2>3. 16 \in 0 .. 255 /\ p.type # "publish"
    BY <2>1
  <2>4. /\ sent.result \in {"ok", "too_large", "end_of_buffer", "buffer_too_small"}
        /\ sent.result = "ok" => sent.value = whole
        /\ sent.result # "ok" => IsLarge(p)
    BY <1>1, <2>2, <2>3
  <2> QED
    BY <2>4 DEF sent, whole
<1>3. CASE p \in ASubscribe
  <2>1. p.type = "subscribe"
    BY <1>3 DEF ASubscribe
  <2>2. /\ SubscribeBody(p) \in Seq(Letter) /\ whole = Standard(130, SubscribeBody(p))
        /\ try_encode(p) = WholeEncoded(130, SubscribeBody(p))
    BY <1>3, <2>1, SubscribeBodyAsStandard DEF try_encode, SubscribeEncoded
  <2> HIDE DEF whole, sent
  <2>3. 130 \in 0 .. 255 /\ p.type # "publish"
    BY <2>1
  <2>4. /\ sent.result \in {"ok", "too_large", "end_of_buffer", "buffer_too_small"}
        /\ sent.result = "ok" => sent.value = whole
        /\ sent.result # "ok" => IsLarge(p)
    BY <1>1, <2>2, <2>3
  <2> QED
    BY <2>4 DEF sent, whole
<1>4. CASE p \in APublish
  <2>1. p.type = "publish"
    BY <1>4 DEF APublish
  <2> QED
    BY <1>4, <2>1, PublishWritten DEF IsAnnounced, IsLarge
<1>5. CASE p = [type |-> "ping_request"]
  <2>1. p.type = "ping_request"
    BY <1>5
  <2>2. Written(<<192, 0>>) = Ok(<<192, 0>>)
    <3>1. ~(Len(<<192, 0>>) > SEND_BUFFER_SIZE)
      BY BuildAssumption
    <3> QED
      BY <3>1 DEF Written
  <2>3. try_encode(p) = Ok(<<192, 0>>)
    BY <2>1, <2>2 DEF try_encode, PingRequestEncoded
  <2>4. trailing_payload(p) = <<>>
    BY <2>1 DEF trailing_payload
  <2>5. <<192, 0>> \o <<>> = <<192, 0>>
    OBVIOUS
  <2>6. send(p) = Ok(<<192, 0>>)
    <3>1. try_encode(p).result = "ok" /\ try_encode(p).value = <<192, 0>>
      BY <2>3 DEF Ok
    <3> QED
      BY <2>4, <2>5, <3>1 DEF send, AndThen
  <2>7. send(p).result = "ok" /\ send(p).value = <<192, 0>>
    BY <2>6 DEF Ok
  <2>8. StandardBytes(p) = <<192, 0>>
    BY <2>1 DEF StandardBytes
  <2> QED
    BY <2>7, <2>8
<1> QED
  BY <1>2, <1>3, <1>4, <1>5 DEF Outgoing

-----------------------------------------------------------------------------
(***************************************************************************)
(* What is told                                                            *)
(***************************************************************************)

\* A text that is built in has a length of two bytes.
LEMMA BuiltInAreShort ==
  ASSUME NEW text, NEW length \in TextLengths, Len(text) = length
  PROVE  length \in Nat /\ IsShort(text)
<1>1. length \in Nat /\ length <= 65535
  BY FlashAssumption
<1> QED
  BY <1>1 DEF IsShort

Topics == {Name, DISCOVERY} \cup {Repeat(278, n) : n \in TextLengths}

\* The packets that are known when the program is built.
LEMMA BuiltIn ==
  /\ \A length \in TextLengths : Connect(length) \in Outgoing /\ IsAnnounced(Connect(length))
  /\ \A count \in DOMAIN SUBSCRIPTIONS :
       Subscribe(count) \in Outgoing /\ IsAnnounced(Subscribe(count))
  /\ \A topic \in Topics, length \in PayloadLengths, retained \in {0, 1} :
       /\ Publish(topic, Repeat(264, length), retained) \in Outgoing
       /\ IsAnnounced(Publish(topic, Repeat(264, length), retained))
  /\ [type |-> "ping_request"] \in Outgoing /\ IsAnnounced([type |-> "ping_request"])
<1>1. \A x \in Int : x \in Letter
  BY DEF Letter
<1>2. Name \in Seq(Letter) /\ Len(Name) = 3
  <2>1. 260 \in Letter /\ 261 \in Letter /\ 262 \in Letter
    BY <1>1
  <2> QED
    BY <2>1 DEF Name
<1>3. ASSUME NEW length \in TextLengths
      PROVE  Connect(length) \in Outgoing /\ IsAnnounced(Connect(length))
  <2>1. length \in Nat /\ 263 \in Letter /\ 60 \in 0 .. 255
    BY <1>1, FlashAssumption
  <2>2. Repeat(263, length) \in Seq(Letter) /\ Len(Repeat(263, length)) = length
    BY <2>1, LettersRepeated DEF IsRepeated
  <2>3. Name \in AText /\ Repeat(263, length) \in AText
    <3>1. IsShort(Name)
      BY <1>2, FewAreShort
    <3>2. IsShort(Repeat(263, length))
      BY <2>2, BuiltInAreShort
    <3> QED
      BY <1>2, <2>2, <3>1, <3>2 DEF AText
  <2>4. Connect(length) \in AConnect /\ Connect(length).type = "connect"
    BY <2>1, <2>3 DEF Connect, AConnect
  <2> QED
    BY <2>4 DEF Outgoing, IsAnnounced
<1>4. ASSUME NEW count \in DOMAIN SUBSCRIPTIONS
      PROVE  Subscribe(count) \in Outgoing /\ IsAnnounced(Subscribe(count))
  <2>1. SUBSCRIPTIONS \in Seq(AText) /\ Len(SUBSCRIPTIONS) = 6
    <3>1. /\ 270 \in Letter /\ 271 \in Letter /\ 272 \in Letter /\ 273 \in Letter
          /\ 274 \in Letter /\ 275 \in Letter
      BY <1>1
    <3>2. /\ <<270>> \in AText /\ <<271, 272>> \in AText /\ <<271, 273>> \in AText
          /\ <<274, 272>> \in AText /\ <<274, 273>> \in AText /\ <<275, 272>> \in AText
      <4>1. \A x \in Letter : <<x>> \in Seq(Letter) /\ IsShort(<<x>>)
        <5>1. \A x \in Letter : <<x>> \in Seq(Letter) /\ Len(<<x>>) = 1 /\ 1 \in 0 .. 100
          OBVIOUS
        <5> QED
          BY <5>1, FewAreShort
      <4>2. \A x \in Letter, y \in Letter : <<x, y>> \in Seq(Letter) /\ IsShort(<<x, y>>)
        <5>1. \A x \in Letter, y \in Letter :
                <<x, y>> \in Seq(Letter) /\ Len(<<x, y>>) = 2 /\ 2 \in 0 .. 100
          OBVIOUS
        <5> QED
          BY <5>1, FewAreShort
      <4> QED
        BY <3>1, <4>1, <4>2 DEF AText
    <3> DEFINE a == <<270>> b == <<271, 272>> c == <<271, 273>>
               d == <<274, 272>> e == <<274, 273>> f == <<275, 272>>
               all == <<a, b, c, d, e, f>>
    <3> HIDE DEF a, b, c, d, e, f
    <3>3. a \in AText /\ b \in AText /\ c \in AText /\ d \in AText /\ e \in AText /\ f \in AText
      BY <3>2 DEF a, b, c, d, e, f
    <3>4. all \in Seq(AText) /\ Len(all) = 6
      BY <3>3
    <3> QED
      BY <3>4 DEF SUBSCRIPTIONS, a, b, c, d, e, f
  <2>2. count \in 0 .. Len(SUBSCRIPTIONS)
    BY <2>1, LenProperties
  <2>3. SubSeq(SUBSCRIPTIONS, 1, count) \in Seq(AText)
    BY <2>1, <2>2, Beginning
  <2>4. Subscribe(count) \in ASubscribe /\ Subscribe(count).type = "subscribe"
    BY <2>3 DEF Subscribe, ASubscribe
  <2> QED
    BY <2>4 DEF Outgoing, IsAnnounced
<1>5. ASSUME NEW topic \in Topics, NEW length \in PayloadLengths, NEW retained \in {0, 1}
      PROVE  /\ Publish(topic, Repeat(264, length), retained) \in Outgoing
             /\ IsAnnounced(Publish(topic, Repeat(264, length), retained))
  <2> DEFINE p == Publish(topic, Repeat(264, length), retained)
  <2>1. length \in Nat
    BY FlashAssumption
  <2>2. 264 \in Letter /\ 277 \in Letter /\ 278 \in Letter /\ 8 \in Nat
    BY <1>1
  <2>3. Repeat(264, length) \in Seq(Letter) /\ Len(Repeat(264, length)) = length
    BY <2>1, <2>2, LettersRepeated DEF IsRepeated
  <2>4. topic \in Seq(Letter) /\ IsShort(topic)
    <3>1. CASE topic = Name
      BY <1>2, <3>1, FewAreShort
    <3>2. CASE topic = DISCOVERY
      <4>1. DISCOVERY \in Seq(Letter) /\ Len(DISCOVERY) = 8
        BY <2>2, LettersRepeated DEF IsRepeated, DISCOVERY
      <4> QED
        BY <3>2, <4>1, FewAreShort
    <3>3. ASSUME NEW n \in TextLengths, topic = Repeat(278, n)
          PROVE  topic \in Seq(Letter) /\ IsShort(topic)
      <4>1. n \in Nat
        BY FlashAssumption
      <4>2. Repeat(278, n) \in Seq(Letter) /\ Len(Repeat(278, n)) = n
        BY <2>2, <4>1, LettersRepeated DEF IsRepeated
      <4> QED
        BY <3>3, <4>2, BuiltInAreShort
    <3> QED
      BY <3>1, <3>2, <3>3 DEF Topics
  <2>5. p \in APublish /\ p.type = "publish" /\ p.topic = topic /\ p.payload = Repeat(264, length)
    <3>1. topic \in AText
      BY <2>4 DEF AText
    <3> QED
      BY <2>3, <3>1 DEF Publish, APublish
  <2>6. 3 + Len(topic) + length <= MAX
    <3> DEFINE IsSmall(l) == l <= 2097152
               IsWord(k)  == k <= 65535
               Fits(k, l) == 3 + k + l <= MAX
    <3>1. IsSmall(length)
      BY SMT, FlashAssumption
    <3>2. \A k, l \in Nat : IsWord(k) /\ IsSmall(l) => Fits(k, l)
      BY SMT DEF MAX
    <3>3. Len(topic) \in Nat
      BY <2>4, LenProperties
    <3>4. IsWord(Len(topic))
      BY <2>4 DEF IsShort
    <3>5. Fits(Len(topic), length)
      <4> HIDE DEF IsSmall, IsWord, Fits
      <4> QED
        BY <2>1, <3>1, <3>2, <3>3, <3>4
    <3> QED
      BY <3>5
  <2> QED
    BY <2>3, <2>5, <2>6 DEF Outgoing, IsAnnounced
<1>6. [type |-> "ping_request"] \in Outgoing /\ IsAnnounced([type |-> "ping_request"])
  BY DEF Outgoing, IsAnnounced
<1> QED
  BY <1>3, <1>4, <1>5, <1>6

\* The fields of a reading, one behind the other.
LEMMA Fields ==
  ASSUME NEW a1 \in Letter, NEW a2 \in Letter, NEW a3 \in Letter, NEW a4 \in Letter, NEW a5 \in Letter,
         NEW a6 \in Letter, NEW a7 \in Letter, NEW a8 \in Letter, NEW a9 \in Letter, NEW a10 \in Letter,
         NEW a11 \in Letter, NEW a12 \in Letter, NEW a13 \in Letter, NEW a14 \in Letter
  PROVE  /\ <<a1>> \o <<a2>> \o <<a3, a4>> \o <<a5, a6>> \o <<a7>> \o <<a8, a9, a10>> \o <<a11, a12, a13>> \o <<a14>>
           = <<a1, a2, a3, a4, a5, a6, a7, a8, a9, a10, a11, a12, a13, a14>>
         /\ <<a1, a2, a3, a4, a5, a6, a7, a8, a9, a10, a11, a12, a13, a14>> \in Seq(Letter)
         /\ Len(<<a1, a2, a3, a4, a5, a6, a7, a8, a9, a10, a11, a12, a13, a14>>) = 14
<1> DEFINE p1 == <<a1>>
           p2 == <<a2>>
           p3 == <<a3, a4>>
           p4 == <<a5, a6>>
           p5 == <<a7>>
           p6 == <<a8, a9, a10>>
           p7 == <<a11, a12, a13>>
           p8 == <<a14>>
           q2 == <<a1, a2>>
           q3 == <<a1, a2, a3, a4>>
           q4 == <<a1, a2, a3, a4, a5, a6>>
           q5 == <<a1, a2, a3, a4, a5, a6, a7>>
           q6 == <<a1, a2, a3, a4, a5, a6, a7, a8, a9, a10>>
           q7 == <<a1, a2, a3, a4, a5, a6, a7, a8, a9, a10, a11, a12, a13>>
           q8 == <<a1, a2, a3, a4, a5, a6, a7, a8, a9, a10, a11, a12, a13, a14>>
<1>1. p1 \in Seq(Letter) /\ p2 \in Seq(Letter) /\ p3 \in Seq(Letter) /\ p4 \in Seq(Letter)
      /\ p5 \in Seq(Letter) /\ p6 \in Seq(Letter) /\ p7 \in Seq(Letter) /\ p8 \in Seq(Letter)
  OBVIOUS
<1>2. q2 \in Seq(Letter) /\ q3 \in Seq(Letter) /\ q4 \in Seq(Letter) /\ q5 \in Seq(Letter)
      /\ q6 \in Seq(Letter) /\ q7 \in Seq(Letter) /\ q8 \in Seq(Letter)
      /\ Len(q8) = 14
  OBVIOUS
<1>3. p1 \o p2 = q2
  <2>1. Len(q2) = Len(p1) + Len(p2)
    OBVIOUS
  <2>2. \A i \in 1 .. Len(q2) : q2[i] = IF i <= Len(p1) THEN p1[i] ELSE p2[i - Len(p1)]
    OBVIOUS
  <2> HIDE DEF p1, p2, q2
  <2> QED
    BY <1>1, <1>2, <2>1, <2>2, Joined
<1>4. q2 \o p3 = q3
  <2>1. Len(q3) = Len(q2) + Len(p3)
    OBVIOUS
  <2>2. \A i \in 1 .. Len(q3) : q3[i] = IF i <= Len(q2) THEN q2[i] ELSE p3[i - Len(q2)]
    OBVIOUS
  <2> HIDE DEF q2, p3, q3
  <2> QED
    BY <1>1, <1>2, <2>1, <2>2, Joined
<1>5. q3 \o p4 = q4
  <2>1. Len(q4) = Len(q3) + Len(p4)
    OBVIOUS
  <2>2. \A i \in 1 .. Len(q4) : q4[i] = IF i <= Len(q3) THEN q3[i] ELSE p4[i - Len(q3)]
    OBVIOUS
  <2> HIDE DEF q3, p4, q4
  <2> QED
    BY <1>1, <1>2, <2>1, <2>2, Joined
<1>6. q4 \o p5 = q5
  <2>1. Len(q5) = Len(q4) + Len(p5)
    OBVIOUS
  <2>2. \A i \in 1 .. Len(q5) : q5[i] = IF i <= Len(q4) THEN q4[i] ELSE p5[i - Len(q4)]
    OBVIOUS
  <2> HIDE DEF q4, p5, q5
  <2> QED
    BY <1>1, <1>2, <2>1, <2>2, Joined
<1>7. q5 \o p6 = q6
  <2>1. Len(q6) = Len(q5) + Len(p6)
    OBVIOUS
  <2>2. \A i \in 1 .. Len(q6) : q6[i] = IF i <= Len(q5) THEN q5[i] ELSE p6[i - Len(q5)]
    OBVIOUS
  <2> HIDE DEF q5, p6, q6
  <2> QED
    BY <1>1, <1>2, <2>1, <2>2, Joined
<1>8. q6 \o p7 = q7
  <2>1. Len(q7) = Len(q6) + Len(p7)
    OBVIOUS
  <2>2. \A i \in 1 .. Len(q7) : q7[i] = IF i <= Len(q6) THEN q6[i] ELSE p7[i - Len(q6)]
    OBVIOUS
  <2> HIDE DEF q6, p7, q7
  <2> QED
    BY <1>1, <1>2, <2>1, <2>2, Joined
<1>9. q7 \o p8 = q8
  <2>1. Len(q8) = Len(q7) + Len(p8)
    OBVIOUS
  <2>2. \A i \in 1 .. Len(q8) : q8[i] = IF i <= Len(q7) THEN q7[i] ELSE p8[i - Len(q7)]
    OBVIOUS
  <2> HIDE DEF q7, p8, q8
  <2> QED
    BY <1>1, <1>2, <2>1, <2>2, Joined
<1> QED
  BY <1>2, <1>3, <1>4, <1>5, <1>6, <1>7, <1>8, <1>9

\* What is made of a measurement before it is published.
Reading(m) ==
  to_json(decode(Registers(m).status, Registers(m).air, m.maximum),
          10 \in Registers(m).status.warning)

\* The registers hold what was measured.
LEMMA RegistersHold ==
  ASSUME NEW t \in Temperature
  PROVE  t \in Int /\ Register(t) \in Word /\ Signed(Register(t)) = t
<1>1. /\ t \in Int /\ 2 * t <= WordMax /\ -(WordMax + 1) <= 2 * t
  <2>1. WordMax \in Nat
    BY WidthAssumption
  <2>2. \A d \in Degrees : d \in Nat /\ 2 * d < WordMax
    BY MeasurementAssumption
  <2>3. t \in Degrees \/ \E d \in Degrees : t = -d - 1
    BY DEF Temperature
  <2> QED
    BY <2>1, <2>2, <2>3
<1> QED
  BY <1>1, WidthAssumption DEF Register, Signed, Word

\* The first letter of a reading is the speed, to one revolution, or nothing.
LEMMA SpeedTold ==
  ASSUME NEW share \in Word, NEW maximum \in Word
  PROVE  /\ speed(share, maximum) \in Word
         /\ \/ IsQuotient(speed(share, maximum), share * maximum, SpeedMax)
            \/ speed(share, maximum) = WordMax /\ share * maximum >= WordMax * SpeedMax
<1> DEFINE product == share * maximum
           q == product \div SpeedMax
<1>1. speed(share, maximum) \in Word
  BY SpeedFitsWord
<1>2. SpeedMax \in Nat \ {0} /\ WordMax \in Nat /\ product \in Nat
  BY WidthAssumption DEF Word
<1>3. q \in Nat /\ SpeedMax * q <= product /\ product < SpeedMax * q + SpeedMax
  BY <1>2, Divides
<1>4. speed(share, maximum) = IF q <= WordMax THEN q ELSE WordMax
  BY DEF speed, Least
<1>5. CASE q <= WordMax
  <2>1. q * SpeedMax = SpeedMax * q /\ (q + 1) * SpeedMax = SpeedMax * q + SpeedMax
    BY <1>2, <1>3
  <2> HIDE DEF q, product
  <2>2. IsQuotient(q, product, SpeedMax)
    BY <1>3, <2>1 DEF IsQuotient
  <2> QED
    BY <1>1, <1>4, <1>5, <2>2 DEF product
<1>6. CASE ~(q <= WordMax)
  <2>1. WordMax * SpeedMax <= SpeedMax * q
    BY <1>2, <1>3, <1>6
  <2>2. WordMax * SpeedMax \in Nat /\ SpeedMax * q \in Nat
    BY <1>2, <1>3
  <2> HIDE DEF q, product
  <2>3. product >= WordMax * SpeedMax
    BY <1>2, <1>3, <2>1, <2>2
  <2> QED
    BY <1>1, <1>4, <1>6, <2>3 DEF product
<1> QED
  BY <1>5, <1>6

\* The humidity is told in tenths of a percent.
LEMMA HumidityTold ==
  ASSUME NEW raw \in Word
  PROVE  IsQuotient(relative_humidity(raw), raw * 1000, WordMax + 1)
<1> DEFINE n == raw * 1000
           d == WordMax + 1
           q == n \div d
<1>1. n \in Nat /\ d \in Nat \ {0}
  BY WidthAssumption DEF Word
<1>2. relative_humidity(raw) = q
  BY DEF relative_humidity
<1> HIDE DEF n, d
<1>3. q \in Nat /\ d * q <= n /\ n < d * q + d
  BY <1>1, Divides
<1> HIDE DEF q
<1>4. q * d = d * q /\ (q + 1) * d = d * q + d
  BY <1>1, <1>3
<1>5. IsQuotient(q, n, d)
  BY <1>3, <1>4 DEF IsQuotient
<1> QED
  BY <1>2, <1>5 DEF n, d

\* What is made of a measurement has fourteen letters, and they say what was measured.
LEMMA ReadingTells ==
  ASSUME NEW m \in Measurement
  PROVE  Reading(m) \in Seq(Letter) /\ Len(Reading(m)) = 14 /\ Tells(Reading(m), m)
<1> DEFINE share == m.share
           maximum == m.maximum
           humidity == m.humidity
           air == Tenths(m.air)
           damp == Tenths(relative_humidity(humidity))
           motor == write_flags(m.motor, MotorStatusFlags, {})
           warning == write_flags(m.warning, WarningFlags, AnalogSetPointBreak)
           a1 == IF maximum = NoFlow THEN 258 ELSE speed(share, maximum)
           a3 == IF motor.ok THEN {} ELSE motor.names
           a4 == IF motor.ok THEN {} ELSE motor.undocumented
           a5 == IF warning.ok THEN {} ELSE warning.names
           a6 == IF warning.ok THEN {} ELSE warning.undocumented
           a7 == IF 10 \in m.warning THEN 1 ELSE 0
           a8 == IF air.isNegative THEN -1 ELSE 1
           a11 == IF damp.isNegative THEN -1 ELSE 1
           told == <<a1, m.temperature, a3, a4, a5, a6, a7, a8, air.whole, air.tenth,
                     a11, damp.whole, damp.tenth, m.flow>>
<1>1. /\ share \in Word /\ maximum \in Word \cup {NoFlow} /\ humidity \in Word
      /\ m.temperature \in Temperature /\ m.air \in Temperature /\ m.flow = 7
      /\ m.motor \in SUBSET (0 .. 15) /\ m.warning \in SUBSET (0 .. 15)
  BY MeasurementAssumption DEF Measurement
<1>2. \A x \in Int : x \in Letter
  BY DEF Letter
<1>3. Reading(m) = (IF maximum = NoFlow THEN NULL ELSE <<speed(share, maximum)>>)
                     \o <<m.temperature>> \o <<a3, a4>> \o <<a5, a6>> \o <<a7>>
                     \o <<a8, air.whole, air.tenth>> \o <<a11, damp.whole, damp.tenth>> \o <<m.flow>>
  <2> DEFINE r == decode(Registers(m).status, Registers(m).air, m.maximum)
  <2>1. /\ Registers(m).status.speed = share /\ Registers(m).status.motor = m.motor
        /\ Registers(m).status.warning = m.warning
        /\ Registers(m).status.temperature = Register(m.temperature)
        /\ Registers(m).air.temperature = Register(m.air)
        /\ Registers(m).air.humidity = humidity /\ Registers(m).air.flow = m.flow
    BY DEF Registers
  <2>2. Signed(Register(m.temperature)) = m.temperature /\ Signed(Register(m.air)) = m.air
    BY <1>1, RegistersHold
  <2> HIDE DEF air, damp, motor, warning
  <2>3. /\ r.speed = IF maximum = NoFlow THEN NoFlow ELSE speed(share, maximum)
        /\ r.motorStatus = motor /\ r.warning = warning /\ r.motorTemperature = m.temperature
        /\ r.airTemperature = air /\ r.airHumidity = damp /\ r.volumeFlow = m.flow
    BY <2>1, <2>2 DEF decode, air, damp, motor, warning
  <2> HIDE DEF r
  <2>4. (IF r.speed = NoFlow THEN NULL ELSE <<r.speed>>)
          = IF maximum = NoFlow THEN NULL ELSE <<speed(share, maximum)>>
    <3>1. maximum # NoFlow => speed(share, maximum) # NoFlow
      BY <1>1, SpeedTold, NoFlowAssumption DEF Word
    <3> QED
      BY <2>3, <3>1
  <2>5. FlagsText(r.motorStatus) = <<a3, a4>> /\ FlagsText(r.warning) = <<a5, a6>>
    BY <2>3 DEF FlagsText
  <2>6. TenthsText(r.airTemperature) = <<a8, air.whole, air.tenth>>
    BY <2>3 DEF TenthsText
  <2>7. TenthsText(r.airHumidity) = <<a11, damp.whole, damp.tenth>>
    BY <2>3 DEF TenthsText
  <2>8. Reading(m) = to_json(r, 10 \in m.warning)
    BY <2>1 DEF Reading, r
  <2> HIDE DEF a3, a4, a5, a6, a8, a11
  <2> QED
    BY <2>3, <2>4, <2>5, <2>6, <2>7, <2>8 DEF to_json
<1>4. (IF maximum = NoFlow THEN NULL ELSE <<speed(share, maximum)>>) = <<a1>>
  BY DEF NULL
<1>5. /\ air.whole \in Nat /\ air.tenth \in Nat
      /\ m.air = a8 * (10 * air.whole + air.tenth)
  <2>1. m.air \in Int
    BY <1>1, RegistersHold
  <2>2. /\ air.whole \in Nat /\ air.tenth \in 0 .. 9
        /\ m.air = IF air.isNegative THEN -(10 * air.whole + air.tenth)
                   ELSE 10 * air.whole + air.tenth
    BY <2>1, TenthsKeepTheirValue
  <2> HIDE DEF air
  <2> QED
    BY <2>2
<1>6. /\ damp.whole \in Nat /\ damp.tenth \in Nat
      /\ relative_humidity(humidity) = 10 * damp.whole + damp.tenth
  <2> DEFINE h == relative_humidity(humidity)
  <2>1. h \in 0 .. 999
    BY <1>1, HumidityIsAFraction
  <2> HIDE DEF h
  <2>2. h \in Int /\ damp = Tenths(h)
    BY <2>1 DEF h
  <2>3. /\ damp.whole \in Nat /\ damp.tenth \in 0 .. 9
        /\ h = IF damp.isNegative THEN -(10 * damp.whole + damp.tenth)
               ELSE 10 * damp.whole + damp.tenth
    BY <2>2, TenthsKeepTheirValue
  <2> HIDE DEF damp
  <2>4. damp.whole \in Nat /\ damp.tenth \in Nat /\ h = 10 * damp.whole + damp.tenth
    <3> DEFINE w == damp.whole
               t == damp.tenth
               negative == damp.isNegative
    <3>1. w \in Nat /\ t \in Nat /\ h \in Nat /\ (negative => h = -(10 * w + t))
          /\ (~negative => h = 10 * w + t)
      BY <2>1, <2>3
    <3> HIDE DEF w, t, negative
    <3>2. -(10 * w + t) = 10 * w + t \/ -(10 * w + t) < 0
      BY <3>1
    <3>3. h = 10 * w + t
      BY <3>1, <3>2
    <3>4. w \in Nat /\ t \in Nat /\ h = 10 * w + t
      BY <3>1, <3>3
    <3> QED
      BY <3>4 DEF w, t
  <2> QED
    BY <2>4 DEF h
<1>7. /\ motor.names \in SUBSET Int /\ motor.undocumented \in SUBSET Int
      /\ a3 \cup a4 = m.motor
  <2>1. /\ motor.names \cup motor.undocumented = m.motor \ {}
        /\ motor.ok <=> m.motor \subseteq {}
    BY NoFlagIsSwallowed
  <2> HIDE DEF motor
  <2>2. m.motor \subseteq Int
    BY <1>1
  <2> QED
    BY <2>1, <2>2
<1>8. /\ warning.names \in SUBSET Int /\ warning.undocumented \in SUBSET Int
      /\ a5 \cup a6 = m.warning \ {10}
  <2>1. /\ warning.names \cup warning.undocumented = m.warning \ AnalogSetPointBreak
        /\ warning.ok <=> m.warning \subseteq AnalogSetPointBreak
    BY NoFlagIsSwallowed
  <2> HIDE DEF warning
  <2>2. m.warning \subseteq Int
    BY <1>1
  <2> QED
    BY <2>1, <2>2 DEF AnalogSetPointBreak
<1>9. m.temperature \in Int
  BY <1>1, RegistersHold
<1> HIDE DEF air, damp, motor, warning
<1>10. /\ a3 \in SUBSET Int /\ a4 \in SUBSET Int /\ a5 \in SUBSET Int /\ a6 \in SUBSET Int
  BY <1>7, <1>8
<1>11. a1 \in Int /\ a7 \in Int /\ a8 \in Int /\ a11 \in Int
  <2>1. maximum # NoFlow => speed(share, maximum) \in Int
    <3>1. Word \subseteq Int
      BY WidthAssumption DEF Word
    <3> QED
      BY <1>1, <3>1, SpeedTold
  <2> QED
    BY <2>1
<1>12. /\ maximum = NoFlow => a1 = 258
       /\ maximum # NoFlow => \/ IsQuotient(a1, share * maximum, SpeedMax)
                              \/ a1 = WordMax /\ share * maximum >= WordMax * SpeedMax
  BY <1>1, SpeedTold
<1>13. IsQuotient(10 * damp.whole + damp.tenth, humidity * 1000, WordMax + 1)
  <2>1. IsQuotient(relative_humidity(humidity), humidity * 1000, WordMax + 1)
    BY <1>1, HumidityTold
  <2> QED
    BY <1>6, <2>1
<1>14. a7 = 1 <=> 10 \in m.warning
  OBVIOUS
<1> HIDE DEF a1, a3, a4, a5, a6, a7, a8, a11
<1>15. /\ a1 \in Letter /\ m.temperature \in Letter /\ a3 \in Letter /\ a4 \in Letter /\ a5 \in Letter
       /\ a6 \in Letter /\ a7 \in Letter /\ a8 \in Letter /\ air.whole \in Letter
       /\ air.tenth \in Letter /\ a11 \in Letter /\ damp.whole \in Letter
       /\ damp.tenth \in Letter /\ m.flow \in Letter
  BY <1>1, <1>5, <1>6, <1>9, <1>10, <1>11 DEF Letter
<1>16. Reading(m) = told /\ told \in Seq(Letter) /\ Len(told) = 14
  <2>1. /\ <<a1>> \o <<m.temperature>> \o <<a3, a4>> \o <<a5, a6>> \o <<a7>>
             \o <<a8, air.whole, air.tenth>> \o <<a11, damp.whole, damp.tenth>> \o <<m.flow>> = told
        /\ told \in Seq(Letter) /\ Len(told) = 14
    BY <1>15, Fields
  <2> QED
    BY <1>3, <1>4, <2>1
<1>17. /\ told[1] = a1 /\ told[2] = m.temperature /\ told[3] = a3 /\ told[4] = a4
       /\ told[5] = a5 /\ told[6] = a6 /\ told[7] = a7 /\ told[8] = a8
       /\ told[9] = air.whole /\ told[10] = air.tenth /\ told[12] = damp.whole
       /\ told[13] = damp.tenth /\ told[14] = m.flow /\ NULL[1] = 258
  BY DEF NULL
<1> HIDE DEF told
<1>18. Tells(told, m)
  BY <1>5, <1>7, <1>8, <1>12, <1>13, <1>14, <1>17 DEF Tells
<1> QED
  BY <1>16, <1>18

\* A reading is published as any other packet of the controller.
LEMMA ReadingSent ==
  ASSUME NEW m \in Measurement
  PROVE  LET p == Publish(SENSOR_STATE, Reading(m), 0) IN
         p \in Outgoing /\ p \in APublish /\ p.payload = Reading(m) /\ IsAnnounced(p)
<1> DEFINE p == Publish(SENSOR_STATE, Reading(m), 0)
<1>1. Reading(m) \in Seq(Letter) /\ Len(Reading(m)) = 14
  BY ReadingTells
<1>2. SENSOR_STATE \in Seq(Letter) /\ Len(SENSOR_STATE) = 2
  <2>1. 271 \in Letter /\ 276 \in Letter
    BY DEF Letter
  <2> QED
    BY <2>1 DEF SENSOR_STATE
<1>3. p \in APublish /\ p.topic = SENSOR_STATE /\ p.payload = Reading(m)
  <2>1. IsShort(SENSOR_STATE)
    <3>1. 2 \in 0 .. 100
      OBVIOUS
    <3> QED
      BY <1>2, <3>1, FewAreShort
  <2>2. SENSOR_STATE \in AText
    BY <1>2, <2>1 DEF AText
  <2> QED
    BY <1>1, <2>2 DEF Publish, APublish
<1>4. 3 + 2 + 14 <= MAX
  BY SMT DEF MAX
<1> HIDE DEF p
<1>5. p \in Outgoing /\ IsAnnounced(p)
  BY <1>1, <1>2, <1>3, <1>4 DEF Outgoing, IsAnnounced
<1> QED
  BY <1>3, <1>5 DEF p

\* A packet ends with its payload.
LEMMA PayloadIsLast ==
  ASSUME NEW p \in APublish, Len(p.payload) = 14
  PROVE  SubSeq(StandardBytes(p), Len(StandardBytes(p)) - 13, Len(StandardBytes(p))) = p.payload
<1> DEFINE header == PublishHeader(p)
           payload == p.payload
           first == 48 + p.retained
           rest == header \o payload
           d == StandardLength(Len(rest))
           h == <<first>> \o d
           front == h \o header
<1>1. /\ header \in Seq(Letter) /\ payload \in Seq(Letter) /\ first \in 0 .. 255
      /\ StandardBytes(p) = Standard(first, rest)
  BY PublishAsStandard
<1> HIDE DEF header, payload, first
<1>2. rest \in Seq(Letter) /\ Len(rest) \in Nat
  BY <1>1, ConcatProperties, LenProperties
<1> HIDE DEF rest
<1>3. d \in Seq(Letter)
  BY <1>2, LengthOfStandardLength
<1> HIDE DEF d
<1>4. h \in Seq(Letter)
  <2>1. <<first>> \in Seq(Letter)
    <3>1. first \in Letter
      BY <1>1, BytesAreLetters
    <3> QED
      BY <3>1
  <2> QED
    BY <1>3, <2>1, ConcatProperties
<1>5. front \in Seq(Letter) /\ Len(front) \in Nat
  BY <1>1, <1>4, ConcatProperties, LenProperties
<1>6. StandardBytes(p) = front \o payload
  <2>1. StandardBytes(p) = h \o (header \o payload)
    BY <1>1 DEF Standard, h, d, rest
  <2> HIDE DEF h
  <2>2. h \o (header \o payload) = (h \o header) \o payload
    BY <1>1, <1>4, Regrouped
  <2> QED
    BY <2>1, <2>2
<1> HIDE DEF front, h
<1>7. /\ Len(front \o payload) = Len(front) + Len(payload)
      /\ SubSeq(front \o payload, Len(front) + 1, Len(front) + Len(payload)) = payload
  BY <1>1, <1>5, ConcatProperties, Parts
<1>8. Len(payload) = 14
  BY DEF payload
<1>9. Len(front \o payload) - 13 = Len(front) + 1
  BY <1>5, <1>7, <1>8
<1> QED
  BY <1>6, <1>7, <1>9 DEF payload

-----------------------------------------------------------------------------
(***************************************************************************)
(* What the broker sends                                                   *)
(***************************************************************************)

\* The first letter of a packet of the broker, and what is behind its fixed header.
First(p) ==
  CASE p.type = "connack" -> 32
    [] p.type = "command" -> 48 + p.retained
    [] p.type = "suback" -> 144
    [] p.type = "ping_response" -> 208
    [] p.type = "disconnect" -> 224

Body(p) ==
  CASE p.type = "connack" -> <<p.session, p.reason>> \o WithStandardLength(p.properties)
    [] p.type = "command" -> Text(p.topic) \o WithStandardLength(p.properties) \o p.payload
    [] p.type = "suback" -> <<p.identifier \div 256, p.identifier % 256>>
                              \o WithStandardLength(p.properties) \o p.codes
    [] p.type = "ping_response" -> <<>>
    [] p.type = "disconnect" -> p.reason \o (IF p.reason = <<>> THEN <<>> ELSE <<0>>)

\* What is much shorter than a packet may be.
Short == {s \in Seq(Letter) : Len(s) <= 1000}

\* The texts of one letter that the broker sends.
LEMMA RepeatedLetters ==
  /\ Repeat(265, 130) \in Seq(Letter) /\ Len(Repeat(265, 130)) = 130
  /\ Repeat(0, 6) \in Seq(Letter) /\ Len(Repeat(0, 6)) = 6
<1>1. 265 \in Letter /\ 0 \in Letter /\ 130 \in Nat /\ 6 \in Nat
  BY DEF Letter
<1>2. IsRepeated(265, 130) /\ IsRepeated(0, 6)
  BY <1>1, LettersRepeated
<1> QED
  BY <1>2 DEF IsRepeated

\* What is joined of few letters is short.
LEMMA ShortJoined ==
  ASSUME NEW s \in Seq(Letter), NEW t \in Seq(Letter), Len(s) <= 10, Len(t) <= 500
  PROVE  s \o t \in Short /\ s \o t \in Seq(Letter) /\ Len(s \o t) = Len(s) + Len(t)
<1>1. s \o t \in Seq(Letter) /\ Len(s \o t) = Len(s) + Len(t) /\ Len(s) \in Nat /\ Len(t) \in Nat
  BY ConcatProperties, LenProperties
<1>2. Len(s \o t) <= 1000
  BY <1>1
<1> QED
  BY <1>1, <1>2 DEF Short

\* What is put together of a few short parts is far from what a packet can hold.
LEMMA FewLetters ==
  ASSUME NEW prefix \in Seq(Letter), Len(prefix) <= 2000, NEW properties \in Short, NEW rest \in Short
  PROVE  /\ prefix \o WithStandardLength(properties) \o rest \in Seq(Letter)
         /\ Len(prefix \o WithStandardLength(properties) \o rest) <= MAX
         /\ prefix \o WithStandardLength(properties) \in Seq(Letter)
         /\ Len(prefix \o WithStandardLength(properties)) <= MAX
<1> DEFINE d == StandardLength(Len(properties))
           w == d \o properties
<1>1. /\ Len(properties) \in Nat /\ Len(properties) <= 1000
      /\ Len(rest) \in Nat /\ Len(rest) <= 1000 /\ Len(prefix) \in Nat
      /\ properties \in Seq(Letter) /\ rest \in Seq(Letter)
  BY LenProperties DEF Short
<1>2. d \in Seq(Letter) /\ Len(d) \in 1 .. 4
  BY <1>1, LengthOfStandardLength
<1> HIDE DEF d
<1>3. w \in Seq(Letter) /\ Len(w) = Len(d) + Len(properties)
  BY <1>1, <1>2, ConcatProperties
<1>4. w = WithStandardLength(properties)
  BY DEF WithStandardLength, d
<1> HIDE DEF w
<1>5. /\ prefix \o w \in Seq(Letter) /\ Len(prefix \o w) = Len(prefix) + Len(w)
  <2>1. w \in Seq(Letter)
    BY <1>3
  <2> QED
    BY <2>1, ConcatProperties
<1>6. /\ (prefix \o w) \o rest \in Seq(Letter)
      /\ Len((prefix \o w) \o rest) = Len(prefix \o w) + Len(rest)
  BY <1>1, <1>5, ConcatProperties
<1>7. Len(prefix \o w) <= 3004 /\ Len((prefix \o w) \o rest) <= 4004
        /\ Len(prefix \o w) \in Nat /\ Len((prefix \o w) \o rest) \in Nat
  <2> DEFINE a == Len(prefix)
             b == Len(d)
             c == Len(properties)
             e == Len(rest)
             f == Len(w)
             g == Len(prefix \o w)
             h == Len((prefix \o w) \o rest)
  <2>1. /\ a \in Nat /\ a <= 2000 /\ b \in 1 .. 4 /\ c \in Nat /\ c <= 1000
        /\ e \in Nat /\ e <= 1000 /\ f = b + c /\ g = a + f /\ h = g + e
    BY <1>1, <1>2, <1>3, <1>5, <1>6
  <2> HIDE DEF a, b, c, e, f, g, h
  <2>2. g <= 3004 /\ h <= 4004 /\ g \in Nat /\ h \in Nat
    BY <2>1
  <2> QED
    BY <2>2 DEF g, h
<1>8. \A n \in Nat : n <= 4004 => n <= MAX
  BY SMT DEF MAX
<1>9. Len(prefix \o w) <= MAX /\ Len((prefix \o w) \o rest) <= MAX
  BY <1>7, <1>8
<1> QED
  BY <1>4, <1>5, <1>6, <1>9

\* The texts and properties that the broker uses are short.
LEMMA TextsAreShort ==
  /\ ConnackProperties \cup {AssignedIdentifier} \subseteq Short
  /\ PublishProperties \subseteq Short
  /\ \A i \in DOMAIN SUBSCRIPTIONS : SUBSCRIPTIONS[i] \in Short /\ Len(SUBSCRIPTIONS[i]) \in {1, 2}
  /\ Payloads \subseteq Short
  /\ {Repeat(0, 6), <<0, 0, 0, 0, 0, 135>>} \subseteq Short
<1>1. \A x \in Int : x \in Letter
  BY DEF Letter

<1>3. <<>> \in Short
  BY DEF Short
<1>4. ConnackProperties \subseteq Short
  <2> DEFINE a == <<36, 0>>
             b == <<19, 0, 60>>
             c == <<34, 0, 10>>
             d == <<39, 0, 0, 4, 0>>
             e == <<37, 1>>
  <2>1. /\ a \in Seq(Letter) /\ Len(a) = 2 /\ b \in Seq(Letter) /\ Len(b) = 3
        /\ c \in Seq(Letter) /\ Len(c) = 3 /\ d \in Seq(Letter) /\ Len(d) = 5
        /\ e \in Seq(Letter) /\ Len(e) = 2
    <3>1. /\ 0 \in Letter /\ 1 \in Letter /\ 4 \in Letter /\ 10 \in Letter /\ 19 \in Letter
          /\ 34 \in Letter /\ 36 \in Letter /\ 37 \in Letter /\ 39 \in Letter /\ 60 \in Letter
      BY <1>1
    <3> QED
      BY <3>1
  <2>2. ConnackProperties = {<<>>, a \o b, c \o d \o e}
    BY DEF ConnackProperties
  <2> HIDE DEF a, b, c, d, e
  <2>3. a \o b \in Short
    <3>1. Len(a) <= 10 /\ Len(b) <= 500
      BY <2>1
    <3> QED
      BY <2>1, <3>1, ShortJoined
  <2>4. c \o d \in Seq(Letter) /\ Len(c \o d) = 8
    <3>1. Len(c) <= 10 /\ Len(d) <= 500
      BY <2>1
    <3>2. c \o d \in Seq(Letter) /\ Len(c \o d) = Len(c) + Len(d)
      BY <2>1, <3>1, ShortJoined
    <3> QED
      BY <2>1, <3>2
  <2>5. (c \o d) \o e \in Short
    <3>1. Len(c \o d) <= 10 /\ Len(e) <= 500
      BY <2>1, <2>4
    <3> QED
      BY <2>1, <2>4, <3>1, ShortJoined
  <2> QED
    BY <1>3, <2>2, <2>3, <2>5
<1>5. AssignedIdentifier \in Short
  <2>1. 260 \in Letter /\ 261 \in Letter /\ 262 \in Letter /\ 18 \in Letter
    BY <1>1
  <2>2. Name \in Seq(Letter) /\ Len(Name) = 3 /\ <<18>> \in Seq(Letter) /\ Len(<<18>>) = 1
    BY <2>1 DEF Name
  <2>3. Text(Name) \in Seq(Letter) /\ Len(Text(Name)) = 2 + Len(Name)
    BY <2>2, TextIsText
  <2>4. Len(<<18>>) <= 10 /\ Len(Text(Name)) <= 500
    BY <2>2, <2>3
  <2> DEFINE id == <<18>>
  <2>5. id \in Seq(Letter) /\ Len(id) <= 10
    BY <2>2, <2>4
  <2> HIDE DEF id
  <2>6. id \o Text(Name) \in Short
    BY <2>3, <2>4, <2>5, ShortJoined
  <2> QED
    BY <2>6 DEF AssignedIdentifier, id
<1>6. PublishProperties \subseteq Short
  <2> DEFINE long == Repeat(265, 130)
             a == <<2, 0, 0, 0, 9>>
             b == <<3>>
  <2>1. long \in Seq(Letter) /\ Len(long) = 130
    BY RepeatedLetters
  <2>2. PublishProperties = {<<>>, a, b \o Text(long)}
    BY DEF PublishProperties
  <2>3. a \in Seq(Letter) /\ Len(a) = 5 /\ b \in Seq(Letter) /\ Len(b) = 1
    <3>1. 0 \in Letter /\ 2 \in Letter /\ 3 \in Letter /\ 9 \in Letter
      BY <1>1
    <3> QED
      BY <3>1
  <2> HIDE DEF long, a, b
  <2>4. Text(long) \in Seq(Letter) /\ Len(Text(long)) <= 500 /\ Len(b) <= 10
    <3>1. Text(long) \in Seq(Letter) /\ Len(Text(long)) = 2 + Len(long)
      BY <2>1, TextIsText
    <3> QED
      BY <2>1, <2>3, <3>1
  <2>5. b \o Text(long) \in Short
    BY <2>3, <2>4, ShortJoined
  <2>6. a \in Short
    <3>1. Len(a) <= 1000
      BY <2>3
    <3> QED
      BY <2>3, <3>1 DEF Short
  <2> QED
    BY <1>3, <2>2, <2>5, <2>6
<1>7. \A i \in DOMAIN SUBSCRIPTIONS : SUBSCRIPTIONS[i] \in Short /\ Len(SUBSCRIPTIONS[i]) \in {1, 2}
  <2>1. /\ 270 \in Letter /\ 271 \in Letter /\ 272 \in Letter /\ 273 \in Letter
        /\ 274 \in Letter /\ 275 \in Letter
    BY <1>1
  <2>2. /\ <<270>> \in Short /\ Len(<<270>>) = 1 /\ <<271, 272>> \in Short /\ Len(<<271, 272>>) = 2
        /\ <<271, 273>> \in Short /\ Len(<<271, 273>>) = 2
        /\ <<274, 272>> \in Short /\ Len(<<274, 272>>) = 2
        /\ <<274, 273>> \in Short /\ Len(<<274, 273>>) = 2
        /\ <<275, 272>> \in Short /\ Len(<<275, 272>>) = 2
    BY <2>1 DEF Short
  <2> DEFINE a == <<270>> b == <<271, 272>> c == <<271, 273>>
             d == <<274, 272>> e == <<274, 273>> f == <<275, 272>>
             all == <<a, b, c, d, e, f>>
             P(s) == s \in Short /\ Len(s) \in {1, 2}
  <2>3. P(a) /\ P(b) /\ P(c) /\ P(d) /\ P(e) /\ P(f)
    BY <2>2
  <2> HIDE DEF a, b, c, d, e, f, P
  <2>4. \A i \in DOMAIN all : P(all[i])
    BY <2>3
  <2> QED
    BY <2>4 DEF SUBSCRIPTIONS, a, b, c, d, e, f, P
<1>8. Payloads \subseteq Short
  <2>1. \A x \in Int : <<x>> \in Short
    <3> TAKE x \in Int
    <3>1. x \in Letter
      BY <1>1
    <3>2. <<x>> \in Seq(Letter) /\ Len(<<x>>) = 1
      BY <3>1
    <3> QED
      BY <3>2 DEF Short
  <2>2. ON \in Short /\ OFF \in Short /\ Other \in Short
    BY <2>1 DEF ON, OFF, Other
  <2>3. \A n \in {0, 1, SpeedMax, SpeedMax + 1, WordMax, WordMax + 1} : n \in Nat
    BY WidthAssumption
  <2>4. \A n \in Nat : NumberText(n) \in Short
    <3> TAKE n \in Nat
    <3>1. 300 + n \in Int
      OBVIOUS
    <3> QED
      BY <2>1, <3>1 DEF NumberText
  <2> QED
    BY <1>3, <2>2, <2>3, <2>4 DEF Payloads
<1>9. {Repeat(0, 6), <<0, 0, 0, 0, 0, 135>>} \subseteq Short
  <2>1. 0 \in Letter /\ 135 \in Letter
    BY <1>1
  <2>2. Repeat(0, 6) \in Seq(Letter) /\ Len(Repeat(0, 6)) = 6
    BY RepeatedLetters
  <2>3. <<0, 0, 0, 0, 0, 135>> \in Seq(Letter) /\ Len(<<0, 0, 0, 0, 0, 135>>) = 6
    BY <2>1
  <2> DEFINE a == Repeat(0, 6)
             b == <<0, 0, 0, 0, 0, 135>>
  <2>4. a \in Seq(Letter) /\ Len(a) <= 1000 /\ b \in Seq(Letter) /\ Len(b) <= 1000
    <3>1. /\ a \in Seq(Letter) /\ Len(a) = 6
          /\ b \in Seq(Letter) /\ Len(b) = 6
      BY <2>2, <2>3
    <3> HIDE DEF a, b
    <3> QED
      BY <3>1
  <2> HIDE DEF a, b
  <2>5. a \in Short /\ b \in Short
    BY <2>4 DEF Short
  <2> QED
    BY <2>5 DEF a, b
<1> QED
  BY <1>4, <1>5, <1>6, <1>7, <1>8, <1>9

\* Every packet of the broker has a body behind a fixed header, far shorter than it may be.
LEMMA IncomingAsStandard ==
  ASSUME NEW p \in Incoming
  PROVE  /\ First(p) \in 0 .. 255 /\ Body(p) \in Seq(Letter) /\ Len(Body(p)) <= MAX
         /\ StandardBytes(p) = Standard(First(p), Body(p))
<1>0. \A x \in Int : x \in Letter
  BY DEF Letter
<1>1. CASE p.type = "connack"
  <2>1. /\ p.session \in {0, 1} /\ p.reason \in {0, 128, 135, 159}
        /\ p.properties \in ConnackProperties \cup {AssignedIdentifier}
    BY <1>1 DEF Incoming
  <2> DEFINE prefix == <<p.session, p.reason>>
  <2>2. prefix \in Seq(Letter) /\ Len(prefix) <= 2000
    <3>1. p.session \in Letter /\ p.reason \in Letter
      BY <1>0, <2>1
    <3>2. prefix \in Seq(Letter) /\ Len(prefix) = 2
      BY <3>1
    <3> HIDE DEF prefix
    <3> QED
      BY <3>2
  <2>3. Body(p) = prefix \o WithStandardLength(p.properties) /\ First(p) = 32
    BY <1>1 DEF Body, First
  <2>4. StandardBytes(p) = Standard(32, prefix \o WithStandardLength(p.properties))
    BY <1>1 DEF StandardBytes
  <2> HIDE DEF prefix
  <2>5. p.properties \in Short
    BY <2>1, TextsAreShort
  <2>6. Body(p) \in Seq(Letter) /\ Len(Body(p)) <= MAX
    BY <2>2, <2>3, <2>5, FewLetters
  <2> QED
    BY <2>3, <2>4, <2>6
<1>2. CASE p.type = "command"
  <2>1. /\ p.topic \in {SUBSCRIPTIONS[i] : i \in DOMAIN SUBSCRIPTIONS}
        /\ p.payload \in Payloads /\ p.properties \in PublishProperties /\ p.retained \in {0, 1}
    BY <1>2 DEF Incoming
  <2> DEFINE prefix == Text(p.topic)
  <2>2. prefix \in Seq(Letter) /\ Len(prefix) <= 2000
    <3>1. p.topic \in Seq(Letter) /\ Len(p.topic) \in {1, 2}
      BY <2>1, TextsAreShort DEF Short
    <3>2. prefix \in Seq(Letter) /\ Len(prefix) = 2 + Len(p.topic)
      BY <3>1, TextIsText
    <3> HIDE DEF prefix
    <3> DEFINE n == Len(p.topic)
               l == Len(prefix)
    <3>3. (n = 1 \/ n = 2) /\ l = 2 + n
      BY <3>1, <3>2
    <3> HIDE DEF n, l
    <3>4. l <= 2000
      BY <3>3
    <3> QED
      BY <3>2, <3>4 DEF l
  <2>3. /\ Body(p) = prefix \o WithStandardLength(p.properties) \o p.payload
        /\ First(p) = 48 + p.retained
    BY <1>2 DEF Body, First
  <2>4. StandardBytes(p)
          = Standard(48 + p.retained, prefix \o WithStandardLength(p.properties) \o p.payload)
    BY <1>2 DEF StandardBytes
  <2> DEFINE properties == p.properties
             payload == p.payload
             retained == p.retained
  <2>5. properties \in Short /\ payload \in Short /\ retained \in {0, 1}
    BY <2>1, TextsAreShort
  <2> HIDE DEF prefix, properties, payload, retained
  <2>6. /\ prefix \o WithStandardLength(properties) \o payload \in Seq(Letter)
        /\ Len(prefix \o WithStandardLength(properties) \o payload) <= MAX
    BY <2>2, <2>5, FewLetters
  <2>7. 48 + retained \in 0 .. 255
    BY <2>5
  <2> QED
    BY <2>3, <2>4, <2>6, <2>7 DEF properties, payload, retained
<1>3. CASE p.type = "suback"
  <2>1. /\ p.identifier = 1 /\ p.properties \in PublishProperties
        /\ p.codes \in {Repeat(0, 6), <<0, 0, 0, 0, 0, 135>>}
    BY <1>3 DEF Incoming
  <2> DEFINE prefix == <<p.identifier \div 256, p.identifier % 256>>
  <2>2. prefix \in Seq(Letter) /\ Len(prefix) <= 2000
    <3>1. p.identifier \div 256 \in Letter /\ p.identifier % 256 \in Letter
      BY <1>0, <2>1
    <3>2. prefix \in Seq(Letter) /\ Len(prefix) = 2
      BY <3>1
    <3> HIDE DEF prefix
    <3> QED
      BY <3>2
  <2>3. Body(p) = prefix \o WithStandardLength(p.properties) \o p.codes /\ First(p) = 144
    BY <1>3 DEF Body, First
  <2>4. StandardBytes(p) = Standard(144, prefix \o WithStandardLength(p.properties) \o p.codes)
    BY <1>3 DEF StandardBytes
  <2> DEFINE properties == p.properties
             codes == p.codes
  <2>5. properties \in Short /\ codes \in Short
    BY <2>1, TextsAreShort
  <2> HIDE DEF prefix, properties, codes
  <2>6. /\ prefix \o WithStandardLength(properties) \o codes \in Seq(Letter)
        /\ Len(prefix \o WithStandardLength(properties) \o codes) <= MAX
    BY <2>2, <2>5, FewLetters
  <2>7. 144 \in 0 .. 255
    OBVIOUS
  <2> QED
    BY <2>3, <2>4, <2>6, <2>7 DEF properties, codes
<1>4. CASE p.type = "ping_response"
  <2>1. Body(p) = <<>> /\ First(p) = 208 /\ StandardBytes(p) = <<208, 0>>
    BY <1>4 DEF Body, First, StandardBytes
  <2>2. Standard(208, <<>>) = <<208, 0>>
    <3>1. StandardLength(Len(<<>>)) = <<0>>
      BY SMT DEF StandardLength
    <3>2. <<208>> \o <<0>> \o <<>> = <<208, 0>>
      <4>1. 208 \in Letter /\ 0 \in Letter
        BY <1>0
      <4> DEFINE a == <<208>>
                 b == <<0>>
                 c == <<208, 0>>
      <4>2. a \o b = c
        <5>1. a \in Seq(Letter) /\ b \in Seq(Letter) /\ c \in Seq(Letter) /\ Len(c) = Len(a) + Len(b)
          BY <4>1
        <5>2. \A i \in 1 .. Len(c) : c[i] = IF i <= Len(a) THEN a[i] ELSE b[i - Len(a)]
          OBVIOUS
        <5> HIDE DEF a, b, c
        <5> QED
          BY <5>1, <5>2, Joined
      <4>3. c \o <<>> = c
        <5>1. c \in Seq(Letter)
          BY <4>1
        <5> HIDE DEF c
        <5> QED
          BY <5>1, ConcatEmptySeq
      <4> QED
        BY <4>2, <4>3
    <3> QED
      BY <3>1, <3>2 DEF Standard
  <2>3. <<>> \in Seq(Letter) /\ Len(<<>>) = 0 /\ 0 <= MAX
    BY SMT DEF MAX
  <2> QED
    BY <2>1, <2>2, <2>3
<1>5. CASE p.type = "disconnect"
  <2>1. p.reason \in {<<>>, <<0>>, <<139>>, <<142>>}
    BY <1>5 DEF Incoming
  <2>2. Body(p) = p.reason \o (IF p.reason = <<>> THEN <<>> ELSE <<0>>) /\ First(p) = 224
    BY <1>5 DEF Body, First
  <2>3. StandardBytes(p) = Standard(224, p.reason \o (IF p.reason = <<>> THEN <<>> ELSE <<0>>))
    BY <1>5 DEF StandardBytes
  <2>4. 0 \in Letter /\ 139 \in Letter /\ 142 \in Letter
    BY <1>0
  <2>5. Body(p) \in Seq(Letter) /\ Len(Body(p)) \in {0, 2}
    <3>1. CASE p.reason = <<>>
      BY <2>2, <3>1
    <3>2. CASE p.reason # <<>>
      <4> DEFINE reason == p.reason
                 zero == <<0>>
      <4>1. reason \in Seq(Letter) /\ Len(reason) = 1
        <5>1. <<0>> \in Seq(Letter) /\ <<139>> \in Seq(Letter) /\ <<142>> \in Seq(Letter)
          BY <2>4
        <5>2. Len(<<0>>) = 1 /\ Len(<<139>>) = 1 /\ Len(<<142>>) = 1
          OBVIOUS
        <5>3. reason = <<0>> \/ reason = <<139>> \/ reason = <<142>>
          BY <2>1, <3>2
        <5> HIDE DEF reason
        <5> QED
          BY <5>1, <5>2, <5>3
      <4>2. zero \in Seq(Letter) /\ Len(zero) = 1
        BY <2>4
      <4>3. Body(p) = reason \o zero
        BY <2>2, <3>2
      <4> HIDE DEF reason, zero
      <4>4. reason \o zero \in Seq(Letter) /\ Len(reason \o zero) = Len(reason) + Len(zero)
        BY <4>1, <4>2, ConcatProperties
      <4> QED
        BY <4>1, <4>2, <4>3, <4>4
    <3> QED
      BY <3>1, <3>2
  <2>6. 0 <= MAX /\ 2 <= MAX
    BY SMT DEF MAX
  <2>7. Len(Body(p)) <= MAX
    BY <2>5, <2>6
  <2>8. 224 \in 0 .. 255
    OBVIOUS
  <2>9. StandardBytes(p) = Standard(First(p), Body(p))
    BY <2>2, <2>3
  <2>10. First(p) \in 0 .. 255
    BY <2>2
  <2>11. Body(p) \in Seq(Letter)
    BY <2>5
  <2> QED
    BY <2>7, <2>9, <2>10, <2>11
<1>6. p.type \in {"connack", "command", "suback", "ping_response", "disconnect"}
  BY DEF Incoming
<1> QED
  BY <1>1, <1>2, <1>3, <1>4, <1>5, <1>6

-----------------------------------------------------------------------------
(***************************************************************************)
(* Invariants                                                              *)
(***************************************************************************)

\* What has been told is a packet of the controller's, as it was encoded.
Told ==
  phase \in {"ok", "refused", "panic"} =>
    /\ packet \in Outgoing /\ IsAnnounced(packet)
    /\ stream = send(packet).value
    /\ phase = IF send(packet).result \in {"ok", "panic"} THEN send(packet).result ELSE "refused"

\* If it was measured, the packet's payload is the reading.
ReadingIsTold ==
  phase \in {"ok", "refused", "panic"} /\ measured # Nothing =>
    measured \in Measurement /\ packet \in APublish /\ packet.payload = Reading(measured)

\* What the broker sent is on the connection as a whole, or begun.
Sent ==
  /\ phase \in {"whole", "heard"} => packet \in Incoming /\ stream = StandardBytes(packet)
  /\ phase \in {"cut", "heard_cut"} =>
       /\ packet \in Incoming
       /\ \E n \in 1 .. Len(StandardBytes(packet)) - 1 : stream = SubSeq(StandardBytes(packet), 1, n)

\* What is heard is what is read of it.
IsHeard == phase \in {"heard", "heard_cut"} => heard = HeardIn(stream, packet.type = "connack")

WireInv == Told /\ ReadingIsTold /\ Sent /\ IsHeard

\* Nothing has been told or sent at the start.
LEMMA WireInit == Init => WireInv
BY DEF Init, WireInv, Told, ReadingIsTold, Sent, IsHeard

\* A packet that is told is encoded at once.
LEMMA TellKeeps ==
  ASSUME NEW p \in Outgoing, IsAnnounced(p), Tell(p),
         measured' # Nothing => /\ measured' \in Measurement /\ p \in APublish
                                /\ p.payload = Reading(measured')
  PROVE  WireInv'
<1> DEFINE result == send(p).result
<1>1. /\ packet' = p /\ stream' = send(p).value
      /\ phase' = IF result \in {"ok", "panic"} THEN result ELSE "refused"
  BY DEF Tell
<1> HIDE DEF result
<1>2. phase' \in {"ok", "refused", "panic"}
  BY <1>1
<1>3. Told'
  BY <1>1 DEF Told, result
<1>4. ReadingIsTold'
  BY <1>1 DEF ReadingIsTold
<1>5. Sent' /\ IsHeard'
  BY <1>2 DEF Sent, IsHeard
<1> QED
  BY <1>3, <1>4, <1>5 DEF WireInv

\* Every step keeps the invariant.
LEMMA WireNext == WireInv /\ [Next]_vars => WireInv'
<1> SUFFICES ASSUME WireInv, [Next]_vars PROVE WireInv'
  OBVIOUS
<1>1. ASSUME Send PROVE WireInv'
  <2>1. measured' = Nothing
    BY <1>1 DEF Send
  <2>2. PICK p \in Outgoing : IsAnnounced(p) /\ Tell(p)
    <3>1. CASE \E length \in TextLengths : Tell(Connect(length))
      BY <3>1, BuiltIn
    <3>2. CASE \E count \in DOMAIN SUBSCRIPTIONS : Tell(Subscribe(count))
      BY <3>2, BuiltIn
    <3>3. CASE \E topic \in Topics, length \in PayloadLengths, retained \in {0, 1} :
                Tell(Publish(topic, Repeat(264, length), retained))
      BY <3>3, BuiltIn
    <3>4. CASE Tell([type |-> "ping_request"])
      BY <3>4, BuiltIn
    <3> QED
      BY <1>1, <3>1, <3>2, <3>3, <3>4 DEF Send, Topics
  <2> QED
    BY <2>1, <2>2, TellKeeps
<1>2. ASSUME SendReading PROVE WireInv'
  <2>1. PICK m \in Measurement : measured' = m /\ Tell(Publish(SENSOR_STATE, Reading(m), 0))
    BY <1>2 DEF SendReading, Reading
  <2> DEFINE p == Publish(SENSOR_STATE, Reading(m), 0)
  <2>2. p \in Outgoing /\ p \in APublish /\ p.payload = Reading(m) /\ IsAnnounced(p)
    BY ReadingSent
  <2> HIDE DEF p
  <2> QED
    BY <2>1, <2>2, TellKeeps DEF p
<1>3. ASSUME BrokerSends PROVE WireInv'
  <2>1. packet' \in Incoming /\ stream' = StandardBytes(packet') /\ phase' = "whole"
    BY <1>3 DEF BrokerSends
  <2> QED
    BY <2>1 DEF WireInv, Told, ReadingIsTold, Sent, IsHeard
<1>4. ASSUME Cut PROVE WireInv'
  <2>1. /\ packet \in Incoming /\ stream = StandardBytes(packet)
        /\ phase' = "cut" /\ packet' = packet
        /\ \E n \in 1 .. Len(stream) - 1 : stream' = SubSeq(stream, 1, n)
    BY <1>4 DEF Cut, WireInv, Sent
  <2> QED
    BY <2>1 DEF WireInv, Told, ReadingIsTold, Sent, IsHeard
<1>5. ASSUME Receive PROVE WireInv'
  <2>1. /\ phase \in {"whole", "cut"} /\ phase' = IF phase = "whole" THEN "heard" ELSE "heard_cut"
        /\ heard' = HeardIn(stream, packet.type = "connack")
        /\ packet' = packet /\ stream' = stream
    BY <1>5 DEF Receive
  <2> QED
    BY <2>1 DEF WireInv, Told, ReadingIsTold, Sent, IsHeard
<1>6. ASSUME Rested PROVE WireInv'
  BY <1>6 DEF Rested, WireInv, Told, ReadingIsTold, Sent, IsHeard
<1>7. ASSUME UNCHANGED vars PROVE WireInv'
  BY <1>7 DEF vars, WireInv, Told, ReadingIsTold, Sent, IsHeard
<1> QED
  BY <1>1, <1>2, <1>3, <1>4, <1>5, <1>6, <1>7 DEF Next

\* What is on the connection is always the encoding of what one side means to tell, or its
\* beginning.
THEOREM WireInvHolds == Spec => []WireInv
BY WireInit, WireNext, PTL DEF Spec

\* "remaining length" as the standard has it: whatever the controller says, with its payload
\* written apart, is the packet that the standard describes.
THEOREM PacketsAreStandard == Spec => []SentAsStandard
<1>1. WireInv => SentAsStandard
  <2> SUFFICES ASSUME WireInv, phase = "ok" PROVE stream = StandardBytes(packet)
    BY DEF SentAsStandard
  <2>1. packet \in Outgoing /\ stream = send(packet).value /\ send(packet).result = "ok"
    BY DEF WireInv, Told
  <2> QED
    BY <2>1, SendsStandard
<1> QED
  BY <1>1, WireInvHolds, PTL

\* The encoder never panics, and refuses a publish only if what it copies does not fit the
\* buffer, another packet only if it comes within five bytes of it.
THEOREM OnlyLargeIsRefused == Spec => []RefusesOnlyLarge
<1>1. WireInv => RefusesOnlyLarge
  <2> SUFFICES ASSUME WireInv, phase \in {"refused", "panic"}
               PROVE  phase # "panic" /\ IsLarge(packet)
    BY DEF RefusesOnlyLarge
  <2> DEFINE result == send(packet).result
  <2>1. /\ packet \in Outgoing /\ IsAnnounced(packet)
        /\ phase = IF result \in {"ok", "panic"} THEN result ELSE "refused"
    BY DEF WireInv, Told
  <2>2. /\ result \in {"ok", "too_large", "end_of_buffer", "buffer_too_small"}
        /\ result # "ok" => IsLarge(packet)
    BY <2>1, SendsStandard
  <2> HIDE DEF result
  <2>3. result # "ok" /\ phase # "panic"
    BY <2>1, <2>2
  <2> QED
    BY <2>2, <2>3
<1> QED
  BY <1>1, WireInvHolds, PTL

\* What Home Assistant gets of a reading is what the fan measured: decoding, formatting and
\* encoding together keep signs, tenths and every flag.
THEOREM ReadingsArrive == Spec => []MeasurementsArrive
<1>1. WireInv => MeasurementsArrive
  <2> SUFFICES ASSUME WireInv, phase = "ok", measured # Nothing
               PROVE  Tells(SubSeq(stream, Len(stream) - 13, Len(stream)), measured)
    BY DEF MeasurementsArrive
  <2>1. /\ packet \in Outgoing /\ stream = send(packet).value /\ send(packet).result = "ok"
        /\ measured \in Measurement /\ packet \in APublish /\ packet.payload = Reading(measured)
    BY DEF WireInv, Told, ReadingIsTold
  <2>2. stream = StandardBytes(packet)
    BY <2>1, SendsStandard
  <2>3. Len(packet.payload) = 14 /\ Tells(packet.payload, measured)
    BY <2>1, ReadingTells
  <2>4. SubSeq(stream, Len(stream) - 13, Len(stream)) = packet.payload
    BY <2>1, <2>2, <2>3, PayloadIsLast
  <2> QED
    BY <2>3, <2>4
<1> QED
  BY <1>1, WireInvHolds, PTL

\* What is heard of the first bytes of a packet, in a build that does not check subtractions,
\* is that there are bytes missing.
LEMMA CutIsHeard ==
  ASSUME ~OverflowChecks, NEW p \in Incoming, NEW isGreeting,
         NEW n \in 1 .. Len(StandardBytes(p)) - 1
  PROVE  HeardIn(SubSeq(StandardBytes(p), 1, n), isGreeting).result
           \in {"missing_bytes", "end_of_buffer", "unexpected_end_of_buffer"}
<1> DEFINE bytes == SubSeq(StandardBytes(p), 1, n)
           parts == get_parts(bytes)
<1>1. /\ First(p) \in 0 .. 255 /\ Body(p) \in Seq(Letter) /\ Len(Body(p)) <= MAX
      /\ StandardBytes(p) = Standard(First(p), Body(p))
  BY IncomingAsStandard
<1>2. parts \in {Err("end_of_buffer"), Err("unexpected_end_of_buffer"), MissingBytes}
  BY <1>1, PartsOfCut
<1>3. MissingBytes = Err("missing_bytes")
  BY DEF MissingBytes
<1> HIDE DEF parts
<1>4. parts.result \in {"missing_bytes", "end_of_buffer", "unexpected_end_of_buffer"}
  BY <1>2, <1>3 DEF Err
<1>5. HeardIn(bytes, isGreeting) = parts
  BY <1>4 DEF HeardIn, AndThen, parts
<1> QED
  BY <1>4, <1>5

\* The beginning of a packet is never taken for a packet, in the build that is released: one
\* that checks subtractions panics where it computes how much is missing.
THEOREM BeginningIsNoPacket == ~OverflowChecks => (Spec => []CutIsNoticed)
<1> SUFFICES ASSUME ~OverflowChecks PROVE Spec => []CutIsNoticed
  OBVIOUS
<1>1. WireInv => CutIsNoticed
  <2> SUFFICES ASSUME WireInv, phase = "heard_cut"
               PROVE  heard.result \in {"missing_bytes", "end_of_buffer", "unexpected_end_of_buffer"}
    BY DEF CutIsNoticed
  <2>1. packet \in Incoming
    BY DEF WireInv, Sent
  <2>2. PICK n \in 1 .. Len(StandardBytes(packet)) - 1 : stream = SubSeq(StandardBytes(packet), 1, n)
    BY DEF WireInv, Sent
  <2>3. heard = HeardIn(stream, packet.type = "connack")
    BY DEF WireInv, IsHeard
  <2> QED
    BY <2>1, <2>2, <2>3, CutIsHeard
<1> QED
  BY <1>1, WireInvHolds, PTL

-----------------------------------------------------------------------------
(***************************************************************************)
(* Decoding                                                                *)
(***************************************************************************)

\* The letters of three parts, one behind the other.
LEMMA ThreeParts ==
  ASSUME NEW a \in Seq(Letter), NEW b \in Seq(Letter), NEW c \in Seq(Letter)
  PROVE  /\ (a \o b) \o c \in Seq(Letter)
         /\ Len(a) \in Nat /\ Len(b) \in Nat /\ Len(c) \in Nat
         /\ Len((a \o b) \o c) = Len(a) + Len(b) + Len(c)
         /\ \A i \in 1 .. Len(a) : ((a \o b) \o c)[i] = a[i]
         /\ \A i \in 1 .. Len(b) : ((a \o b) \o c)[Len(a) + i] = b[i]
         /\ SubSeq((a \o b) \o c, Len(a) + 1, Len(a) + Len(b)) = b
         /\ SubSeq((a \o b) \o c, Len(a) + Len(b) + 1, Len(a) + Len(b) + Len(c)) = c
<1> DEFINE s == a \o b
           t == s \o c
<1>1. /\ s \in Seq(Letter) /\ Len(s) = Len(a) + Len(b) /\ Len(a) \in Nat /\ Len(b) \in Nat
      /\ Len(c) \in Nat
      /\ \A i \in 1 .. Len(a) + Len(b) : s[i] = IF i <= Len(a) THEN a[i] ELSE b[i - Len(a)]
  BY ConcatProperties, LenProperties
<1>2. SubSeq(s, Len(a) + 1, Len(a) + Len(b)) = b
  BY Parts
<1> HIDE DEF s
<1>3. /\ t \in Seq(Letter) /\ Len(t) = Len(s) + Len(c)
      /\ \A i \in 1 .. Len(s) + Len(c) : t[i] = IF i <= Len(s) THEN s[i] ELSE c[i - Len(s)]
  <2>1. s \in Seq(Letter)
    BY <1>1
  <2> QED
    BY <2>1, ConcatProperties
<1>4. SubSeq(t, Len(s) + 1, Len(s) + Len(c)) = c
  BY <1>1, Parts
<1> HIDE DEF t
<1>5. \A i \in 1 .. Len(a) : t[i] = a[i]
  <2> TAKE i \in 1 .. Len(a)
  <2>1. i \in 1 .. Len(a) + Len(b) /\ i <= Len(a)
    BY <1>1
  <2>2. i \in 1 .. Len(s) + Len(c) /\ i <= Len(s)
    BY <1>1, <2>1
  <2>3. s[i] = a[i]
    BY <1>1, <2>1
  <2> QED
    BY <1>3, <2>2, <2>3
<1>6. \A i \in 1 .. Len(b) : t[Len(a) + i] = b[i]
  <2> TAKE i \in 1 .. Len(b)
  <2> DEFINE j == Len(a) + i
  <2>1. j \in 1 .. Len(a) + Len(b) /\ ~(j <= Len(a)) /\ j - Len(a) = i
    BY <1>1
  <2> HIDE DEF j
  <2>2. j \in 1 .. Len(s) + Len(c) /\ j <= Len(s)
    BY <1>1, <2>1
  <2>3. s[j] = b[i]
    BY <1>1, <2>1
  <2>4. t[j] = b[i]
    BY <1>3, <2>2, <2>3
  <2> QED
    BY <2>4 DEF j
<1>7. SubSeq(t, Len(a) + 1, Len(a) + Len(b)) = b
  <2> DEFINE m == Len(a) + 1
             n == Len(a) + Len(b)
             u == SubSeq(t, m, n)
  <2>1. /\ m \in Int /\ n \in Int /\ (IF m <= n THEN n - m + 1 ELSE 0) = Len(b)
        /\ n - m + 1 = Len(b) /\ \A i \in 1 .. Len(b) : m + i - 1 = Len(a) + i
    BY <1>1
  <2>2. \A i \in m .. n : t[i] \in Letter
    <3> TAKE i \in m .. n
    <3>1. i \in 1 .. Len(t)
      BY <1>1, <1>3
    <3> QED
      BY <1>3, <3>1, ElementOfSeq
  <2> HIDE DEF m, n
  <2>3. /\ u \in Seq(Letter) /\ Len(u) = IF m <= n THEN n - m + 1 ELSE 0
        /\ \A i \in 1 .. n - m + 1 : u[i] = t[m + i - 1]
    BY <2>1, <2>2, SubSeqProperties
  <2> HIDE DEF u
  <2>4. \A i \in 1 .. Len(u) : u[i] = b[i]
    BY <1>6, <2>1, <2>3
  <2>5. Len(u) = Len(b)
    BY <2>1, <2>3
  <2>6. u = b
    BY <2>3, <2>4, <2>5, SeqEqual
  <2> QED
    BY <2>6 DEF u, m, n
<1>8. Len(t) = Len(a) + Len(b) + Len(c)
  BY <1>1, <1>3
<1> QED
  BY <1>1, <1>3, <1>4, <1>5, <1>6, <1>7, <1>8 DEF t, s

\* Properties of any length are skipped, and only they.
LEMMA SkipsProperties ==
  ASSUME NEW prefix \in Seq(Letter), NEW properties \in Seq(Letter), NEW rest \in Seq(Letter),
         Len(properties) <= MAX
  PROVE  AfterProperties(prefix \o WithStandardLength(properties) \o rest, Len(prefix) + 1) = Ok(rest)
<1> DEFINE n == Len(properties)
           d == StandardLength(n)
           k == Len(d)
           w == d \o properties
           body == (prefix \o w) \o rest
           at == Len(prefix) + 1
           next == at + k
<1>1. n \in Nat /\ n <= MAX
  BY LenProperties
<1>2. d \in Seq(Letter) /\ k \in 1 .. 4
  BY <1>1, LengthOfStandardLength
<1>3. w = WithStandardLength(properties)
  BY DEF WithStandardLength
<1> HIDE DEF d
<1>4. w \in Seq(Letter) /\ Len(w) = k + n /\ \A i \in 1 .. k : w[i] = d[i]
  <2>1. /\ w \in Seq(Letter) /\ Len(w) = Len(d) + Len(properties)
        /\ \A i \in 1 .. Len(d) + Len(properties) :
             w[i] = IF i <= Len(d) THEN d[i] ELSE properties[i - Len(d)]
    BY <1>2, ConcatProperties
  <2> HIDE DEF w
  <2>2. \A i \in 1 .. k : i \in 1 .. k + n
    BY <1>1, <1>2
  <2> QED
    BY <2>1, <2>2
<1> HIDE DEF w
<1>5. /\ body \in Seq(Letter) /\ Len(prefix) \in Nat /\ Len(rest) \in Nat
      /\ Len(body) = Len(prefix) + Len(w) + Len(rest)
      /\ \A i \in 1 .. Len(w) : body[Len(prefix) + i] = w[i]
      /\ SubSeq(body, Len(prefix) + Len(w) + 1, Len(prefix) + Len(w) + Len(rest)) = rest
  <2>1. w \in Seq(Letter)
    BY <1>4
  <2> QED
    BY <2>1, ThreeParts
<1> HIDE DEF body, n, k
<1>6. \A i \in 1 .. k : body[at + i - 1] = d[i]
  <2> TAKE i \in 1 .. k
  <2>1. at + i - 1 = Len(prefix) + i /\ i \in 1 .. Len(w)
    BY <1>1, <1>2, <1>4, <1>5
  <2>2. body[Len(prefix) + i] = d[i]
    BY <1>4, <1>5, <2>1
  <2> QED
    BY <2>1, <2>2
<1>7. at \in Nat \ {0} /\ at + k - 1 <= Len(body)
  BY <1>1, <1>2, <1>4, <1>5
<1> HIDE DEF at
<1>8. decode_integer(body, at) = Ok([number |-> n, next |-> next])
  BY <1>1, <1>5, <1>6, <1>7, DecodesStandard DEF d, k
<1>9. next + n = Len(prefix) + Len(w) + 1 /\ next + n <= Len(body) + 1
  BY <1>1, <1>2, <1>4, <1>5 DEF at
<1> HIDE DEF next
<1>10. AfterProperties(body, at) = Rest(body, next + n)
  BY <1>8 DEF AfterProperties, AndThen, Ok
<1>11. ~(next + n > Len(body) + 1)
  <2>1. Len(body) + 1 \in Int /\ Len(prefix) + Len(w) + 1 \in Int
    BY <1>1, <1>2, <1>4, <1>5
  <2> QED
    BY <1>9, <2>1
<1>12. SubSeq(body, next + n, Len(body)) = rest
  BY <1>5, <1>9
<1>13. AfterProperties(body, at) = Ok(rest)
  BY <1>10, <1>11, <1>12 DEF Rest
<1> QED
  BY <1>3, <1>13 DEF body, at

\* A number of two bytes, in front of what follows it.
LEMMA WordRead ==
  ASSUME NEW n \in Nat, NEW rest \in Seq(Letter)
  PROVE  /\ <<n \div 256, n % 256>> \in Seq(Letter) /\ Len(<<n \div 256, n % 256>>) = 2
         /\ (<<n \div 256, n % 256>> \o rest)[1] * 256 + (<<n \div 256, n % 256>> \o rest)[2] = n
<1> DEFINE high == n \div 256
           low == n % 256
           word == <<high, low>>
<1>1. high \in Int /\ low \in Int /\ high * 256 + low = n
  OBVIOUS
<1> HIDE DEF high, low
<1>2. word \in Seq(Letter) /\ Len(word) = 2 /\ word[1] = high /\ word[2] = low
  <2>1. high \in Letter /\ low \in Letter
    BY <1>1 DEF Letter
  <2> QED
    BY <2>1
<1> HIDE DEF word
<1>3. \A i \in 1 .. Len(word) + Len(rest) :
        (word \o rest)[i] = IF i <= Len(word) THEN word[i] ELSE rest[i - Len(word)]
  <2>1. word \in Seq(Letter)
    BY <1>2
  <2> QED
    BY <2>1, ConcatProperties
<1>4. /\ 1 \in 1 .. Len(word) + Len(rest) /\ 1 <= Len(word)
      /\ 2 \in 1 .. Len(word) + Len(rest) /\ 2 <= Len(word)
  BY <1>2, LenProperties
<1>5. (word \o rest)[1] = high /\ (word \o rest)[2] = low
  BY <1>2, <1>3, <1>4
<1>6. word \in Seq(Letter) /\ Len(word) = 2 /\ (word \o rest)[1] * 256 + (word \o rest)[2] = n
  BY <1>1, <1>2, <1>5
<1> QED
  BY <1>6 DEF word, high, low

\* The topic and the payload of a message are those it was sent with, past properties of any
\* length.
LEMMA PublishRead ==
  ASSUME NEW topic \in Seq(Letter), topic # <<>>, NEW properties \in Seq(Letter),
         Len(properties) <= MAX, NEW payload \in Seq(Letter), NEW flags \in {0, 1}
  PROVE  PublishDecoded(flags, Text(topic) \o WithStandardLength(properties) \o payload)
           = Ok([topic |-> topic, payload |-> payload])
<1> DEFINE n == Len(topic)
           size == <<n \div 256, n % 256>>
           w == WithStandardLength(properties)
           end == w \o payload
           body == (Text(topic) \o w) \o payload
<1>1. n \in Nat /\ n # 0
  BY LenProperties, EmptySeq
<1>2. Text(topic) = size \o topic /\ Text(topic) \in Seq(Letter) /\ Len(Text(topic)) = 2 + n
  BY TextIsText DEF Text
<1>3. w \in Seq(Letter)
  <2> DEFINE d == StandardLength(Len(properties))
  <2>1. d \in Seq(Letter)
    BY LenProperties, LengthOfStandardLength
  <2> HIDE DEF d
  <2>2. d \o properties \in Seq(Letter)
    BY <2>1, ConcatProperties
  <2> QED
    BY <2>2 DEF WithStandardLength, d
<1>4. AfterProperties(body, Len(Text(topic)) + 1) = Ok(payload)
  BY <1>2, SkipsProperties
<1> HIDE DEF w
<1>5. end \in Seq(Letter)
  BY <1>3, ConcatProperties
<1>6. body = (size \o topic) \o end
  <2> DEFINE text == Text(topic)
  <2>1. text \in Seq(Letter)
    BY <1>2
  <2> HIDE DEF text
  <2>2. (text \o w) \o payload = text \o (w \o payload)
    BY <1>3, <2>1, Regrouped
  <2> QED
    BY <1>2, <2>2 DEF text
<1> HIDE DEF end
<1>7. size \in Seq(Letter) /\ Len(size) = 2
  BY <1>1, <1>5, WordRead
<1>8. body[1] * 256 + body[2] = n
  <2>1. topic \o end \in Seq(Letter)
    BY <1>5, ConcatProperties
  <2>2. body = size \o (topic \o end)
    <3> HIDE DEF size, body
    <3> QED
      BY <1>5, <1>6, <1>7, Regrouped
  <2> HIDE DEF body
  <2> QED
    BY <1>1, <2>1, <2>2, WordRead
<1> HIDE DEF size, n
<1>9. /\ Len(body) = Len(size) + n + Len(end) /\ Len(end) \in Nat
      /\ SubSeq(body, Len(size) + 1, Len(size) + n) = topic
  <2> DEFINE all == (size \o topic) \o end
  <2>1. size \in Seq(Letter)
    BY <1>7
  <2>2. /\ Len(all) = Len(size) + n + Len(end) /\ Len(end) \in Nat
        /\ SubSeq(all, Len(size) + 1, Len(size) + n) = topic
    BY <1>5, <2>1, ThreeParts DEF n
  <2> HIDE DEF body, all
  <2>3. body = all
    BY <1>6 DEF all
  <2> QED
    BY <2>2, <2>3
<1> HIDE DEF body
<1>10. /\ Len(body) = 2 + n + Len(end) /\ ~(Len(body) < 2) /\ ~(Len(body) < 2 + n)
  BY <1>1, <1>7, <1>9
<1>11. SubSeq(body, 3, 2 + n) = topic
  <2>1. Len(size) + 1 = 3
    BY <1>7
  <2> QED
    BY <1>7, <1>9, <2>1
<1>12. AfterProperties(body, 3 + n) = Ok(payload)
  <2>1. Len(Text(topic)) + 1 = 3 + n
    BY <1>1, <1>2
  <2> QED
    BY <1>4, <2>1 DEF body
<1>13. (flags \div 2) % 4 = 0
  OBVIOUS
<1> DEFINE quality == (flags \div 2) % 4
           length == body[1] * 256 + body[2]
           after == AfterProperties(body, 3 + length)
<1>14. PublishDecoded(flags, body) =
         CASE quality > 0 -> Err("unsupported_quality_of_service")
           [] quality = 0 /\ Len(body) < 2 -> Panic
           [] OTHER ->
                IF length = 0 THEN Err("zero_length_topic_name")
                ELSE IF Len(body) < 2 + length THEN Panic
                ELSE IF after.result = "ok"
                THEN Ok([topic |-> SubSeq(body, 3, 2 + length), payload |-> after.value])
                ELSE after
  BY DEF PublishDecoded, AndThen
<1>15. length = n /\ after = Ok(payload) /\ ~(quality > 0)
  BY <1>8, <1>12, <1>13
<1> HIDE DEF quality, length, after
<1>16. PublishDecoded(flags, body) =
         IF after.result = "ok" THEN Ok([topic |-> topic, payload |-> after.value]) ELSE after
  BY <1>1, <1>10, <1>11, <1>14, <1>15
<1>17. PublishDecoded(flags, body) = Ok([topic |-> topic, payload |-> payload])
  BY <1>15, <1>16 DEF Ok
<1> QED
  BY <1>17 DEF body, w

\* The identifier of an acknowledgement, and its codes.
LEMMA SubscribeAcknowledgementIsRead ==
  ASSUME NEW id \in Nat, NEW properties \in Seq(Letter), Len(properties) <= MAX,
         NEW codes \in Seq(Letter)
  PROVE  SubscribeAcknowledgementRead(
           <<id \div 256, id % 256>> \o WithStandardLength(properties) \o codes)
           = Ok([packet_identifier |-> id, reason_codes |-> codes])
<1> DEFINE word == <<id \div 256, id % 256>>
           w == WithStandardLength(properties)
           end == w \o codes
           body == (word \o w) \o codes
<1>1. w \in Seq(Letter)
  <2> DEFINE d == StandardLength(Len(properties))
  <2>1. d \in Seq(Letter)
    BY LenProperties, LengthOfStandardLength
  <2> HIDE DEF d
  <2>2. d \o properties \in Seq(Letter)
    BY <2>1, ConcatProperties
  <2> QED
    BY <2>2 DEF WithStandardLength, d
<1>2. word \in Seq(Letter) /\ Len(word) = 2
  BY WordRead
<1>3. AfterProperties(body, Len(word) + 1) = Ok(codes)
  <2> HIDE DEF word
  <2> QED
    BY <1>2, SkipsProperties
<1> HIDE DEF w
<1>4. end \in Seq(Letter) /\ Len(end) \in Nat
  BY <1>1, ConcatProperties, LenProperties
<1>5. body = word \o end
  <2> HIDE DEF word
  <2> QED
    BY <1>1, <1>2, ConcatAssociative
<1> HIDE DEF end, body
<1>6. body[1] * 256 + body[2] = id
  BY <1>4, <1>5, WordRead
<1> HIDE DEF word
<1>7. Len(body) = 2 + Len(end) /\ ~(Len(body) < 2)
  <2>1. Len(body) = Len(word) + Len(end)
    BY <1>2, <1>4, <1>5, ConcatProperties
  <2> QED
    BY <1>2, <1>4, <2>1
<1>8. AfterProperties(body, 3) = Ok(codes)
  <2>1. Len(word) + 1 = 3
    BY <1>2
  <2> QED
    BY <1>3, <2>1
<1>9. SubscribeAcknowledgementRead(body) = Ok([packet_identifier |-> id, reason_codes |-> codes])
  BY <1>6, <1>7, <1>8 DEF SubscribeAcknowledgementRead, AndThen, Ok
<1> QED
  BY <1>9 DEF body, word, w

\* Reading a number goes on, by at least one byte.
LEMMA DecodingGoesOn ==
  ASSUME NEW buffer \in Seq(Int), NEW at \in Nat \ {0}, decode_integer(buffer, at).result = "ok"
  PROVE  /\ decode_integer(buffer, at).value.number \in Nat
         /\ decode_integer(buffer, at).value.next \in Nat
         /\ at < decode_integer(buffer, at).value.next
<1> DEFINE ends == {i \in at .. at + 3 :
                      i <= Len(buffer) /\ buffer[i] < 128 /\ Continues(buffer, at, i - 1)}
           last == CHOOSE i \in ends : TRUE
           read == decode_integer(buffer, at)
<1>1. read = CASE at > Len(buffer) -> Err("end_of_buffer")
               [] ends # {} -> Ok([number |-> NumberAt(buffer, at, last), next |-> last + 1])
               [] at <= Len(buffer) /\ ends = {} /\ at + 4 <= Len(buffer) ->
                    FifthByte(buffer[at + 4])
               [] OTHER -> Err("unexpected_end_of_buffer")
  BY DEF decode_integer
<1>2. ends # {} => last \in at .. at + 3 /\ last <= Len(buffer)
  <2>1. ends # {} => last \in ends
    OBVIOUS
  <2> HIDE DEF last
  <2> QED
    BY <2>1
<1>3. \A i \in ends : at <= Len(buffer)
  BY LenProperties
<1> HIDE DEF ends, last, read
<1>4. /\ Err("end_of_buffer").result # "ok" /\ FifthByte(buffer[at + 4]).result # "ok"
      /\ Err("unexpected_end_of_buffer").result # "ok"
  BY DEF Err, FifthByte, Panic
<1>5. read.result = "ok"
  BY DEF read
<1>6. ends # {} /\ read = Ok([number |-> NumberAt(buffer, at, last), next |-> last + 1])
  <2>1. ends # {} => ~(at > Len(buffer))
    BY <1>3, LenProperties
  <2>2. CASE at > Len(buffer)
    BY <1>1, <1>4, <1>5, <2>1, <2>2
  <2>3. CASE ~(at > Len(buffer)) /\ ends # {}
    BY <1>1, <2>3
  <2>4. CASE ~(at > Len(buffer)) /\ ends = {}
    BY <1>1, <1>4, <1>5, <2>4
  <2> QED
    BY <2>2, <2>3, <2>4
<1>7. last \in Nat /\ at <= last /\ last <= at + 3 /\ last <= Len(buffer)
  BY <1>2, <1>6
<1>8. NumberAt(buffer, at, last) \in Nat
  <2> DEFINE part(k) == IF at + k <= last THEN (buffer[at + k] % 128) * Weight[k + 1] ELSE 0
  <2>1. /\ Weight[0 + 1] \in Nat /\ Weight[1 + 1] \in Nat /\ Weight[2 + 1] \in Nat
        /\ Weight[3 + 1] \in Nat
    BY SMT DEF Weight
  <2>2. \A k \in 0 .. 3 : at + k <= last => buffer[at + k] % 128 \in Nat
    <3> TAKE k \in 0 .. 3
    <3> HAVE at + k <= last
    <3> DEFINE j == at + k
    <3>1. j \in 1 .. Len(buffer)
      BY <1>7, LenProperties
    <3> HIDE DEF j
    <3>2. buffer[j] \in Int
      BY <3>1, ElementOfSeq
    <3>3. buffer[j] % 128 \in Nat
      BY <3>2
    <3> QED
      BY <3>3 DEF j
  <2>3. part(0) \in Nat /\ part(1) \in Nat /\ part(2) \in Nat /\ part(3) \in Nat
    <3>1. \A a \in Nat, b \in Nat : a * b \in Nat
      OBVIOUS
    <3>2. part(0) \in Nat
      BY <2>1, <2>2, <3>1
    <3>3. part(1) \in Nat
      BY <2>1, <2>2, <3>1
    <3>4. part(2) \in Nat
      BY <2>1, <2>2, <3>1
    <3>5. part(3) \in Nat
      BY <2>1, <2>2, <3>1
    <3> QED
      BY <3>2, <3>3, <3>4, <3>5
  <2>4. NumberAt(buffer, at, last) = part(0) + part(1) + part(2) + part(3)
    BY DEF NumberAt
  <2> HIDE DEF part
  <2> QED
    BY <2>3, <2>4
<1>9. read.value.number = NumberAt(buffer, at, last) /\ read.value.next = last + 1
  BY <1>6 DEF Ok
<1>10. read.value.number \in Nat /\ read.value.next \in Nat /\ at < read.value.next
  BY <1>7, <1>8, <1>9
<1> QED
  BY <1>10 DEF read

\* One round of the loop over the properties, where `skipped` says what the next ones come to.
Skip(body, end, skipped, at) ==
  IF at >= end THEN Ok(<<>>)
  ELSE IF at > Len(body) THEN Panic
  ELSE CASE HasFixedLength(body[at]) -> skipped[at + 1 + FixedLength(body[at])]
         [] HasText(body[at]) ->
              AndThen(decode_integer(body, at + 1),
                      LAMBDA length : skipped[length.next + length.number])
         [] body[at] = USER_PROPERTY ->
              AndThen(decode_integer(body, at + 1),
                      LAMBDA name : AndThen(decode_integer(body, name.next + name.number),
                        LAMBDA value : skipped[value.next + value.number]))
         [] OTHER -> Err("unknown_property_identifier")

\* A round depends only on what is further on.
LEMMA SkipGoesOn ==
  ASSUME NEW body \in Seq(Int), NEW end \in Nat, NEW at \in Nat, NEW f, NEW g,
         \A b \in Nat : at < b => f[b] = g[b]
  PROVE  Skip(body, end, f, at) = Skip(body, end, g, at)
<1> DEFINE id == body[at]
           fixed == at + 1 + FixedLength(id)
           first == decode_integer(body, at + 1)
           from == first.value.next + first.value.number
           second == decode_integer(body, from)
           to == second.value.next + second.value.number
           Round(h) ==
             CASE HasFixedLength(id) -> h[fixed]
               [] HasText(id) -> IF first.result = "ok" THEN h[from] ELSE first
               [] id = USER_PROPERTY ->
                    IF first.result = "ok"
                    THEN IF second.result = "ok" THEN h[to] ELSE second
                    ELSE first
               [] OTHER -> Err("unknown_property_identifier")
<1>1. \A h : Skip(body, end, h, at) =
               IF at >= end THEN Ok(<<>>) ELSE IF at > Len(body) THEN Panic ELSE Round(h)
  BY DEF Skip, AndThen
<1>2. f[fixed] = g[fixed]
  <2>1. FixedLength(id) \in {0, 1, 2, 4}
    BY DEF FixedLength
  <2>2. fixed \in Nat /\ at < fixed
    <3> HIDE DEF id
    <3> QED
      BY <2>1
  <2> HIDE DEF fixed
  <2> QED
    BY <2>2
<1>3. first.result = "ok" => from \in Nat /\ at + 1 < from
  <2>1. at + 1 \in Nat \ {0}
    OBVIOUS
  <2>2. first.result = "ok" => /\ first.value.number \in Nat /\ first.value.next \in Nat
                               /\ at + 1 < first.value.next
    BY <2>1, DecodingGoesOn
  <2> HIDE DEF first
  <2> QED
    BY <2>2
<1> HIDE DEF from, first
<1>4. first.result = "ok" => f[from] = g[from]
  <2>1. first.result = "ok" => at < from
    BY <1>3
  <2> QED
    BY <1>3, <2>1
<1>5. first.result = "ok" /\ second.result = "ok" => f[to] = g[to]
  <2> SUFFICES ASSUME first.result = "ok", second.result = "ok" PROVE f[to] = g[to]
    OBVIOUS
  <2>1. from \in Nat \ {0} /\ at < from
    BY <1>3
  <2>2. second.value.number \in Nat /\ second.value.next \in Nat /\ from < second.value.next
    BY <2>1, DecodingGoesOn
  <2> HIDE DEF second
  <2>3. to \in Nat /\ at < to
    BY <2>1, <2>2
  <2> HIDE DEF to
  <2> QED
    BY <2>3
<1> HIDE DEF fixed, second, to
<1>6. Round(f) = Round(g)
  BY <1>2, <1>4, <1>5
<1> QED
  BY <1>1, <1>6

\* The loop ends: what it comes to is defined from every position on.
LEMMA SkippingEnds ==
  ASSUME NEW body \in Seq(Int), NEW end \in Nat
  PROVE  \E f : f = [at \in Nat |-> Skip(body, end, f, at)]
<1> DEFINE IsFrom(f, k) ==
             /\ f = [at \in Nat |-> f[at]]
             /\ \A at \in Nat : end <= at + k => f[at] = Skip(body, end, f, at)
           K == {k \in Nat : \E f : IsFrom(f, k)}
<1>1. 0 \in K
  <2> DEFINE f == [at \in Nat |-> Ok(<<>>)]
  <2>1. f = [at \in Nat |-> f[at]] /\ \A at \in Nat : f[at] = Ok(<<>>)
    OBVIOUS
  <2>2. \A h : \A at \in Nat : end <= at + 0 => Skip(body, end, h, at) = Ok(<<>>)
    BY DEF Skip
  <2> HIDE DEF f
  <2>3. IsFrom(f, 0)
    BY <2>1, <2>2
  <2> HIDE DEF IsFrom
  <2> QED
    BY <2>3
<1>2. \A k \in K : k + 1 \in K
  <2> TAKE k \in K
  <2>1. k \in Nat
    OBVIOUS
  <2>2. PICK f : IsFrom(f, k)
    OBVIOUS
  <2> HIDE DEF K
  <2> DEFINE g == [at \in Nat |-> IF end <= at + k THEN f[at] ELSE Skip(body, end, f, at)]
  <2>3. g = [at \in Nat |-> g[at]]
    OBVIOUS
  <2>4. \A at \in Nat : g[at] = IF end <= at + k THEN f[at] ELSE Skip(body, end, f, at)
    OBVIOUS
  <2> HIDE DEF g
  <2>5. \A at \in Nat : end <= at + (k + 1) => g[at] = Skip(body, end, f, at)
    BY <2>1, <2>2, <2>4
  <2>6. \A at \in Nat : end <= at + (k + 1) => Skip(body, end, f, at) = Skip(body, end, g, at)
    <3> TAKE at \in Nat
    <3> HAVE end <= at + (k + 1)
    <3>1. \A b \in Nat : at < b => end <= b + k
      BY <2>1
    <3>2. \A b \in Nat : at < b => f[b] = g[b]
      BY <2>4, <3>1
    <3> QED
      BY <3>2, SkipGoesOn
  <2>7. IsFrom(g, k + 1)
    BY <2>3, <2>5, <2>6
  <2> HIDE DEF IsFrom
  <2> QED
    BY <2>1, <2>7 DEF K
<1>3. end \in K
  <2>1. K = Nat
    <3> HIDE DEF IsFrom
    <3>1. K \in SUBSET Nat
      OBVIOUS
    <3> HIDE DEF K
    <3> QED
      BY <1>1, <1>2, <3>1, Induction
  <2> QED
    BY <2>1
<1>4. PICK f : IsFrom(f, end)
  BY <1>3
<1>5. \A at \in Nat : end <= at + end
  OBVIOUS
<1>6. f = [at \in Nat |-> Skip(body, end, f, at)]
  BY <1>4, <1>5
<1> QED
  BY <1>6

\* Properties whose identifier implies their length are skipped one after the other: if
\* `starts` are the positions where they start, up to the end, the loop gets there.
LEMMA FixedAreSkipped ==
  ASSUME NEW body \in Seq(Int), NEW end \in Nat, NEW starts \in SUBSET Nat, NEW from \in starts,
         \A at \in starts :
           at < end => /\ at <= Len(body) /\ HasFixedLength(body[at])
                       /\ at + 1 + FixedLength(body[at]) \in starts
  PROVE  PropertiesSkipped(body, from, end) = Ok(<<>>)
<1> DEFINE skipped == CHOOSE f : f = [at \in Nat |-> Skip(body, end, f, at)]
           K == {k \in Nat : \A at \in starts : end <= at + k => skipped[at] = Ok(<<>>)}
<1>1. PropertiesSkipped(body, from, end) = skipped[from]
  BY DEF PropertiesSkipped, Skip
<1>2. skipped = [at \in Nat |-> Skip(body, end, skipped, at)]
  BY SkippingEnds
<1> HIDE DEF skipped
<1>3. \A at \in Nat : skipped[at] = Skip(body, end, skipped, at)
  BY <1>2
<1>4. \A at \in starts : end <= at => skipped[at] = Ok(<<>>)
  BY <1>3 DEF Skip
<1>5. 0 \in K
  BY <1>4
<1>6. \A k \in K : k + 1 \in K
  <2> TAKE k \in K
  <2>0. k \in Nat /\ k + 1 \in Nat /\ \A at \in starts : end <= at + k => skipped[at] = Ok(<<>>)
    OBVIOUS
  <2> SUFFICES ASSUME NEW at \in starts, end <= at + (k + 1) PROVE skipped[at] = Ok(<<>>)
    BY <2>0
  <2>1. CASE end <= at
    BY <1>4, <2>1
  <2>2. CASE at < end
    <3> DEFINE next == at + 1 + FixedLength(body[at])
    <3>1. at <= Len(body) /\ HasFixedLength(body[at]) /\ next \in starts
      BY <2>2
    <3>2. FixedLength(body[at]) \in {0, 1, 2, 4}
      BY DEF FixedLength
    <3>3. next \in starts /\ end <= next + k
      <4> DEFINE l == FixedLength(body[at])
      <4>1. l \in Nat
        BY <3>2
      <4> HIDE DEF l
      <4>2. end <= at + 1 + l + k
        BY <2>0, <4>1
      <4> QED
        BY <3>1, <4>2 DEF l
    <3>4. skipped[next] = Ok(<<>>)
      <4> HIDE DEF next
      <4> QED
        BY <2>0, <3>3
    <3>5. ~(at >= end) /\ ~(at > Len(body))
      BY <2>2, <3>1, LenProperties
    <3>6. ~HasText(body[at]) /\ body[at] # USER_PROPERTY
      <4> DEFINE id == body[at]
      <4>1. \A i \in {18, 31, 26, 28, 21, 22, 38} : FixedLength(i) = 0
        <5> TAKE i \in {18, 31, 26, 28, 21, 22, 38}
        <5>1. /\ i \notin {36, 37, 40, 41, 42} /\ i \notin {33, 34, 19} /\ i \notin {17, 39}
          OBVIOUS
        <5> QED
          BY <5>1 DEF FixedLength
      <4> HIDE DEF id
      <4>2. id \in {18, 31, 26, 28, 21, 22, 38} => ~HasFixedLength(id)
        BY <4>1 DEF HasFixedLength
      <4>3. HasText(id) \/ id = USER_PROPERTY => id \in {18, 31, 26, 28, 21, 22, 38}
        BY DEF HasText, USER_PROPERTY
      <4> QED
        BY <3>1, <4>2, <4>3 DEF id
    <3>7. Skip(body, end, skipped, at) = skipped[next]
      BY <3>1, <3>5, <3>6 DEF Skip
    <3> QED
      BY <1>3, <3>4, <3>7
  <2> QED
    BY <2>1, <2>2
<1>7. K = Nat
  <2>1. K \in SUBSET Nat
    OBVIOUS
  <2> HIDE DEF K
  <2> QED
    BY <1>5, <1>6, <2>1, Induction
<1>8. end <= from + end
  OBVIOUS
<1>9. \A at \in starts : end <= at + end => skipped[at] = Ok(<<>>)
  <2>1. end \in K
    <3> HIDE DEF K
    <3> QED
      BY <1>7
  <2> QED
    BY <2>1
<1> QED
  BY <1>1, <1>8, <1>9

\* The acknowledgement of a connection is read with properties whose identifiers imply their
\* lengths, any number of them: `starts` are the positions where they start.
LEMMA ConnectAcknowledgementIsRead ==
  ASSUME NEW session \in Int, NEW reason \in {0} \cup ConnectErrorReasonCode,
         NEW properties \in Seq(Int), Len(properties) <= MAX,
         NEW starts \in SUBSET (Nat \ {0}), 1 \in starts,
         \A i \in starts :
           i <= Len(properties) => /\ HasFixedLength(properties[i])
                                   /\ i + 1 + FixedLength(properties[i]) \in starts
  PROVE  ConnectAcknowledgementDecoded(<<session, reason>> \o WithStandardLength(properties))
           = Ok([is_session_present |-> session % 2 = 1, connect_reason_code |-> reason])
<1> DEFINE n == Len(properties)
           d == StandardLength(n)
           k == Len(d)
           first == <<session, reason>>
           h == first \o d
           body == h \o properties
           end == 3 + k + n
           positions == {i + (2 + k) : i \in starts}
<1>1. n \in Nat /\ n <= MAX /\ reason \in Int
  <2>1. n \in Nat
    BY LenProperties
  <2>2. reason \in Int
    BY DEF ConnectErrorReasonCode
  <2> QED
    BY <2>1, <2>2
<1>2. d \in Seq(Int) /\ k \in 1 .. 4
  <2>1. /\ n \in Int /\ 128 + (n % 128) \in Int /\ n \div 128 \in Int
        /\ 128 + ((n \div 128) % 128) \in Int /\ n \div 16384 \in Int
        /\ 128 + ((n \div 16384) % 128) \in Int /\ n \div 2097152 \in Int
    BY SMT, <1>1
  <2> HIDE DEF n
  <2> QED
    BY SMT, <2>1 DEF StandardLength
<1>3. first \in Seq(Int) /\ Len(first) = 2 /\ first[1] = session /\ first[2] = reason
  BY <1>1
<1>4. <<session, reason>> \o WithStandardLength(properties) = body
  <2>1. first \in Seq(Int) /\ d \in Seq(Int)
    BY <1>2, <1>3
  <2> HIDE DEF first, d
  <2>2. first \o (d \o properties) = (first \o d) \o properties
    BY <2>1, Regrouped
  <2> QED
    BY <2>2 DEF first, d, WithStandardLength
<1> HIDE DEF first, d
<1>5. /\ h \in Seq(Int) /\ Len(h) = 2 + k
      /\ h[1] = session /\ h[2] = reason /\ \A i \in 1 .. k : h[2 + i] = d[i]
  <2>1. first \in Seq(Int) /\ d \in Seq(Int)
    BY <1>2, <1>3
  <2>2. /\ h \in Seq(Int) /\ Len(h) = Len(first) + Len(d)
        /\ \A i \in 1 .. Len(first) + Len(d) : h[i] = IF i <= Len(first) THEN first[i] ELSE d[i - Len(first)]
    BY <2>1, ConcatProperties
  <2> HIDE DEF h
  <2>3. \A i \in 1 .. 2 + k : h[i] = IF i <= 2 THEN first[i] ELSE d[i - 2]
    BY <1>3, <2>2
  <2>4. 1 \in 1 .. 2 + k /\ 2 \in 1 .. 2 + k
    BY <1>2
  <2>5. h[1] = session /\ h[2] = reason
    BY <1>3, <2>3, <2>4
  <2>6. \A i \in 1 .. k : h[2 + i] = d[i]
    <3> TAKE i \in 1 .. k
    <3> DEFINE j == 2 + i
    <3>1. j \in 1 .. 2 + k /\ ~(j <= 2) /\ j - 2 = i
      BY <1>2
    <3> HIDE DEF j
    <3>2. h[j] = d[i]
      BY <2>3, <3>1
    <3> QED
      BY <3>2 DEF j
  <2> QED
    BY <1>3, <2>2, <2>5, <2>6
<1> HIDE DEF h
<1>6. /\ body \in Seq(Int) /\ Len(body) = 2 + k + n
      /\ \A i \in 1 .. 2 + k : body[i] = h[i]
      /\ \A i \in 1 .. n : body[i + (2 + k)] = properties[i]
  <2>1. h \in Seq(Int)
    BY <1>5
  <2>2. /\ body \in Seq(Int) /\ Len(body) = Len(h) + n
        /\ \A i \in 1 .. Len(h) + n : body[i] = IF i <= Len(h) THEN h[i] ELSE properties[i - Len(h)]
    BY <2>1, ConcatProperties
  <2> HIDE DEF body, n, k
  <2>3. \A i \in 1 .. 2 + k + n : body[i] = IF i <= 2 + k THEN h[i] ELSE properties[i - (2 + k)]
    BY <1>5, <2>2
  <2>4. \A i \in 1 .. 2 + k : body[i] = h[i]
    <3> TAKE i \in 1 .. 2 + k
    <3>1. i \in 1 .. 2 + k + n /\ i <= 2 + k
      BY <1>1, <1>2
    <3> QED
      BY <2>3, <3>1
  <2>5. \A i \in 1 .. n : body[i + (2 + k)] = properties[i]
    <3> TAKE i \in 1 .. n
    <3> DEFINE j == i + (2 + k)
    <3>1. j \in 1 .. 2 + k + n /\ ~(j <= 2 + k) /\ j - (2 + k) = i
      BY <1>1, <1>2
    <3> HIDE DEF j
    <3>2. body[j] = properties[i]
      BY <2>3, <3>1
    <3> QED
      BY <3>2 DEF j
  <2> QED
    BY <1>5, <2>2, <2>4, <2>5
<1> HIDE DEF body
<1>7. decode_integer(body, 3) = Ok([number |-> n, next |-> 3 + k])
  <2>1. 3 \in Nat \ {0} /\ 3 + k - 1 <= Len(body)
    <3> HIDE DEF n, k
    <3> QED
      BY <1>1, <1>2, <1>6
  <2>2. \A i \in 1 .. k : body[3 + i - 1] = d[i]
    <3> HIDE DEF n, k
    <3> TAKE i \in 1 .. k
    <3>1. 3 + i - 1 = 2 + i /\ 2 + i \in 1 .. 2 + k
      BY <1>2
    <3>2. body[2 + i] = d[i]
      BY <1>5, <1>6, <3>1
    <3> QED
      BY <3>1, <3>2
  <2>3. body \in Seq(Int)
    BY <1>6
  <2> HIDE DEF n, k
  <2> QED
    BY <1>1, <2>1, <2>2, <2>3, DecodesStandard DEF d, k
<1>8. PropertiesSkipped(body, 3 + k, end) = Ok(<<>>)
  <2> HIDE DEF k
  <2>1. end \in Nat /\ positions \in SUBSET Nat
    BY <1>1, <1>2
  <2>2. 3 + k \in positions
    <3>1. 3 + k = 1 + (2 + k)
      BY <1>2
    <3> QED
      BY <3>1
  <2>3. \A at \in positions :
          at < end => /\ at <= Len(body) /\ HasFixedLength(body[at])
                      /\ at + 1 + FixedLength(body[at]) \in positions
    <3> TAKE at \in positions
    <3> HAVE at < end
    <3>1. PICK i \in starts : at = i + (2 + k)
      OBVIOUS
    <3>2. i \in 1 .. n /\ at <= Len(body)
      <4> HIDE DEF n
      <4>1. i \in Nat \ {0}
        OBVIOUS
      <4> QED
        BY <1>1, <1>2, <1>6, <3>1, <4>1
    <3>3. body[at] = properties[i]
      BY <1>6, <3>1, <3>2
    <3> DEFINE l == FixedLength(properties[i])
    <3>4. HasFixedLength(properties[i]) /\ i + 1 + l \in starts
      BY <3>2
    <3>5. at + 1 + l = (i + 1 + l) + (2 + k)
      <4>1. l \in {0, 1, 2, 4} /\ i \in Nat
        BY DEF FixedLength
      <4> HIDE DEF l
      <4> QED
        BY <1>2, <3>1, <4>1
    <3>6. at + 1 + l \in positions
      <4> DEFINE j == i + 1 + l
      <4> HIDE DEF l
      <4>1. at + 1 + l = j + (2 + k) /\ j \in starts
        BY <3>4, <3>5 DEF l
      <4> HIDE DEF j
      <4> QED
        BY <4>1
    <3> QED
      BY <3>2, <3>3, <3>4, <3>6
  <2> HIDE DEF positions, end
  <2> QED
    BY <1>6, <2>1, <2>2, <2>3, FixedAreSkipped
<1>9. ~(Len(body) < 2) /\ body[2] = reason /\ body[1] = session
  <2> HIDE DEF n, k
  <2>1. 1 \in 1 .. 2 + k /\ 2 \in 1 .. 2 + k /\ ~(2 + k + n < 2)
    BY <1>1, <1>2
  <2> QED
    BY <1>5, <1>6, <2>1
<1> DEFINE length == decode_integer(body, 3)
           skipped == PropertiesSkipped(body, length.value.next, length.value.next + length.value.number)
<1>10. ConnectAcknowledgementDecoded(body) =
         CASE Len(body) < 2 -> Panic
           [] Len(body) >= 2 /\ body[2] \notin {0} \cup ConnectErrorReasonCode ->
                Err("invalid_reason_code")
           [] OTHER ->
                IF length.result = "ok"
                THEN IF skipped.result = "ok"
                     THEN Ok([is_session_present |-> body[1] % 2 = 1,
                              connect_reason_code |-> body[2]])
                     ELSE skipped
                ELSE length
  BY DEF ConnectAcknowledgementDecoded, AndThen
<1>11. length.result = "ok" /\ length.value.next = 3 + k /\ length.value.number = n
  BY <1>7 DEF Ok
<1>12. skipped.result = "ok"
  <2>1. skipped = Ok(<<>>)
    BY <1>8, <1>11
  <2> HIDE DEF skipped
  <2> QED
    BY <2>1 DEF Ok
<1> HIDE DEF length, skipped
<1>13. ConnectAcknowledgementDecoded(body) =
         Ok([is_session_present |-> body[1] % 2 = 1, connect_reason_code |-> body[2]])
  BY <1>9, <1>10, <1>11, <1>12
<1> QED
  BY <1>4, <1>9, <1>13

-----------------------------------------------------------------------------
(***************************************************************************)
(* What is understood                                                      *)
(***************************************************************************)

\* What is heard is what is meant, or an error where nothing is.
Understood(p, h) ==
  h.result # "panic" /\ {x \in {h} : x.result = "ok"} = {Ok(meaning) : meaning \in Meaning(p)}

\* An answer is understood if it is the only thing that is meant.
LEMMA UnderstoodOk ==
  ASSUME NEW p, NEW meaning, Meaning(p) = {meaning}
  PROVE  Understood(p, Ok(meaning))
<1>1. Ok(meaning).result = "ok"
  BY DEF Ok
<1> QED
  BY <1>1 DEF Understood

\* An error is understood if nothing is meant.
LEMMA UnderstoodError ==
  ASSUME NEW p, NEW error, error # "ok", error # "panic", Meaning(p) = {}
  PROVE  Understood(p, Err(error))
<1>1. Err(error).result = error
  BY DEF Err
<1> QED
  BY <1>1 DEF Understood

\* What the controller is handed of a packet that arrives as a whole.
Handed(p) == [type |-> First(p) \div 16, flags |-> First(p) % 16, body |-> Body(p)]

\* It is the type and flags of its first letter and the body behind its length.
LEMMA WholeIsHanded ==
  ASSUME NEW p \in Incoming, NEW isGreeting
  PROVE  HeardIn(StandardBytes(p), isGreeting)
           = IF isGreeting THEN Greeted(Handed(p)) ELSE Listened(Handed(p))
<1>1. /\ First(p) \in 0 .. 255 /\ Body(p) \in Seq(Letter) /\ Len(Body(p)) <= MAX
      /\ StandardBytes(p) = Standard(First(p), Body(p))
  BY IncomingAsStandard
<1>2. get_parts(StandardBytes(p)) = Ok(Handed(p))
  BY <1>1, PartsOfWhole DEF Handed
<1>3. Ok(Handed(p)).result = "ok" /\ Ok(Handed(p)).value = Handed(p)
  BY DEF Ok
<1> QED
  BY <1>2, <1>3 DEF HeardIn, AndThen

\* The properties of an acknowledgement, where they start, and how many letters they have.
LEMMA ConnackPropertiesStart ==
  ASSUME NEW properties \in ConnackProperties
  PROVE  /\ properties \in Seq(Int) /\ Len(properties) <= MAX
         /\ \E starts \in SUBSET (Nat \ {0}) :
              /\ 1 \in starts
              /\ \A i \in starts :
                   i <= Len(properties) => /\ HasFixedLength(properties[i])
                                           /\ i + 1 + FixedLength(properties[i]) \in starts
<1> DEFINE a == <<36, 0>>
           b == <<19, 0, 60>>
           c == <<34, 0, 10>>
           d == <<39, 0, 0, 4, 0>>
           e == <<37, 1>>
           two == <<36, 0, 19, 0, 60>>
           three == <<34, 0, 10, 39, 0, 0, 4, 0, 37, 1>>
           front == <<34, 0, 10, 39, 0, 0, 4, 0>>
<1>1. /\ FixedLength(36) = 1 /\ FixedLength(37) = 1 /\ FixedLength(19) = 2 /\ FixedLength(34) = 2
      /\ FixedLength(39) = 4
  BY DEF FixedLength
<1>2. /\ HasFixedLength(36) /\ HasFixedLength(37) /\ HasFixedLength(19) /\ HasFixedLength(34)
      /\ HasFixedLength(39)
  BY <1>1 DEF HasFixedLength
<1>3. 0 <= MAX /\ 5 <= MAX /\ 10 <= MAX
  BY SMT DEF MAX
<1>4. /\ 0 \in Letter /\ 1 \in Letter /\ 4 \in Letter /\ 10 \in Letter /\ 19 \in Letter
      /\ 34 \in Letter /\ 36 \in Letter /\ 37 \in Letter /\ 39 \in Letter /\ 60 \in Letter
  BY DEF Letter
<1>5. /\ a \in Seq(Letter) /\ b \in Seq(Letter) /\ c \in Seq(Letter) /\ d \in Seq(Letter)
      /\ e \in Seq(Letter) /\ two \in Seq(Letter) /\ three \in Seq(Letter) /\ front \in Seq(Letter)
  BY <1>4
<1>6. a \o b = two
  <2>1. Len(two) = Len(a) + Len(b)
    OBVIOUS
  <2>2. \A i \in 1 .. Len(two) : two[i] = IF i <= Len(a) THEN a[i] ELSE b[i - Len(a)]
    OBVIOUS
  <2> HIDE DEF a, b, two
  <2> QED
    BY <1>5, <2>1, <2>2, Joined
<1>7. c \o d = front
  <2>1. Len(front) = Len(c) + Len(d)
    OBVIOUS
  <2>2. \A i \in 1 .. Len(front) : front[i] = IF i <= Len(c) THEN c[i] ELSE d[i - Len(c)]
    OBVIOUS
  <2> HIDE DEF c, d, front
  <2> QED
    BY <1>5, <2>1, <2>2, Joined
<1>8. front \o e = three
  <2>1. Len(three) = Len(front) + Len(e)
    OBVIOUS
  <2>2. \A i \in 1 .. Len(three) : three[i] = IF i <= Len(front) THEN front[i] ELSE e[i - Len(front)]
    OBVIOUS
  <2> HIDE DEF front, e, three
  <2> QED
    BY <1>5, <2>1, <2>2, Joined
<1>9. properties = <<>> \/ properties = two \/ properties = three
  <2>1. ConnackProperties = {<<>>, a \o b, c \o d \o e}
    BY DEF ConnackProperties
  <2> HIDE DEF a, b, c, d, e, two, three, front
  <2> QED
    BY <1>6, <1>7, <1>8, <2>1
<1>10. CASE properties = <<>>
  <2>1. properties \in Seq(Int) /\ Len(properties) = 0
    BY <1>10
  <2>2. {1} \in SUBSET (Nat \ {0}) /\ 1 \in {1} /\ \A i \in {1} : ~(i <= Len(properties))
    BY <2>1
  <2> QED
    BY <1>3, <2>1, <2>2
<1>11. CASE properties = two
  <2>1. /\ two \in Seq(Int) /\ Len(two) = 5 /\ two[1] = 36 /\ two[3] = 19
    OBVIOUS
  <2> HIDE DEF two
  <2> DEFINE starts == {1, 3, 6}
             Fits(i) == i <= 5 => HasFixedLength(two[i]) /\ i + 1 + FixedLength(two[i]) \in starts
  <2>2. Fits(1)
    BY <1>1, <1>2, <2>1
  <2>3. Fits(3)
    BY <1>1, <1>2, <2>1
  <2>4. Fits(6)
    OBVIOUS
  <2>5. starts \in SUBSET (Nat \ {0}) /\ 1 \in starts /\ \A i \in starts : Fits(i)
    <3> HIDE DEF Fits
    <3> QED
      BY <2>2, <2>3, <2>4
  <2> HIDE DEF starts
  <2> QED
    BY <1>3, <1>11, <2>1, <2>5
<1>12. CASE properties = three
  <2>1. /\ three \in Seq(Int) /\ Len(three) = 10 /\ three[1] = 34 /\ three[4] = 39 /\ three[9] = 37
    OBVIOUS
  <2> HIDE DEF three
  <2> DEFINE starts == {1, 4, 9, 11}
             Fits(i) == i <= 10 => HasFixedLength(three[i]) /\ i + 1 + FixedLength(three[i]) \in starts
  <2>2. Fits(1)
    BY <1>1, <1>2, <2>1
  <2>3. Fits(4)
    BY <1>1, <1>2, <2>1
  <2>4. Fits(9) /\ Fits(11)
    BY <1>1, <1>2, <2>1
  <2>5. starts \in SUBSET (Nat \ {0}) /\ 1 \in starts /\ \A i \in starts : Fits(i)
    <3> HIDE DEF Fits
    <3> QED
      BY <2>2, <2>3, <2>4
  <2> HIDE DEF starts
  <2> QED
    BY <1>3, <1>12, <2>1, <2>5
<1> QED
  BY <1>9, <1>10, <1>11, <1>12

\* The connection is acknowledged, or refused.
LEMMA GreetingUnderstood ==
  ASSUME NEW p \in Incoming, p.type = "connack", p.properties \in ConnackProperties
  PROVE  Understood(p, Greeted(Handed(p)))
<1> DEFINE body == <<p.session, p.reason>> \o WithStandardLength(p.properties)
           parts == Handed(p)
           ack == ConnectAcknowledgementDecoded(body)
<1>1. p.session \in Int /\ p.reason \in {0, 128, 135, 159}
  BY DEF Incoming
<1>2. p.reason \in {0} \cup ConnectErrorReasonCode
  BY <1>1 DEF ConnectErrorReasonCode
<1>3. parts.type = 2 /\ parts.body = body
  <2>1. First(p) = 32 /\ Body(p) = body
    BY DEF First, Body
  <2> HIDE DEF body
  <2> QED
    BY <2>1 DEF Handed
<1>4. ack = Ok([is_session_present |-> p.session % 2 = 1, connect_reason_code |-> p.reason])
  <2> DEFINE properties == p.properties
             session == p.session
             reason == p.reason
  <2>1. properties \in Seq(Int) /\ Len(properties) <= MAX
    BY ConnackPropertiesStart
  <2>2. PICK starts \in SUBSET (Nat \ {0}) :
          /\ 1 \in starts
          /\ \A i \in starts :
               i <= Len(properties) => /\ HasFixedLength(properties[i])
                                       /\ i + 1 + FixedLength(properties[i]) \in starts
    BY ConnackPropertiesStart
  <2>3. session \in Int /\ reason \in {0} \cup ConnectErrorReasonCode
    BY <1>1, <1>2
  <2> HIDE DEF properties, session, reason
  <2>4. ConnectAcknowledgementDecoded(<<session, reason>> \o WithStandardLength(properties))
          = Ok([is_session_present |-> session % 2 = 1, connect_reason_code |-> reason])
    BY <2>1, <2>2, <2>3, ConnectAcknowledgementIsRead
  <2> QED
    BY <2>4 DEF properties, session, reason
<1> HIDE DEF body
<1>5. Greeted(parts) = IF ack.result = "ok"
                       THEN IF ack.value.connect_reason_code = 0 THEN Ok("connected") ELSE Err("refused")
                       ELSE ack
  <2> HIDE DEF parts
  <2> QED
    BY <1>3 DEF Greeted, AndThen
<1>6. ack.result = "ok" /\ ack.value.connect_reason_code = p.reason
  <2> HIDE DEF ack
  <2> DEFINE present == p.session % 2 = 1
             read == [is_session_present |-> present, connect_reason_code |-> p.reason]
  <2>1. ack = Ok(read)
    BY <1>4
  <2>2. read.connect_reason_code = p.reason
    OBVIOUS
  <2> HIDE DEF read
  <2>3. ack.result = "ok" /\ ack.value = read
    BY <2>1 DEF Ok
  <2> QED
    BY <2>2, <2>3
<1> HIDE DEF ack, parts
<1>7. CASE p.reason = 0
  <2>1. Meaning(p) = {"connected"}
    BY <1>7 DEF Meaning
  <2>2. Greeted(parts) = Ok("connected")
    BY <1>5, <1>6, <1>7
  <2> QED
    BY <2>1, <2>2, UnderstoodOk DEF parts
<1>8. CASE p.reason # 0
  <2>1. Meaning(p) = {}
    BY <1>8 DEF Meaning
  <2>2. Greeted(parts) = Err("refused")
    BY <1>5, <1>6, <1>8
  <2> QED
    BY <2>1, <2>2, UnderstoodError DEF parts
<1> QED
  BY <1>7, <1>8

\* What is ordered, and nothing else, is heard of the text of a message.
LEMMA OrderUnderstood ==
  ASSUME NEW p \in Incoming, p.type = "command"
  PROVE  Understood(p, IncomingPublish([topic |-> p.topic, payload |-> p.payload]))
<1> DEFINE topic == p.topic
           payload == p.payload
           m == [topic |-> topic, payload |-> payload]
           heardOf == IncomingPublish(m)
           parsed == SetPointParsed(payload)
<1>1. /\ topic \in {SUBSCRIPTIONS[i] : i \in DOMAIN SUBSCRIPTIONS} /\ payload \in Payloads
  BY DEF Incoming
<1>2. /\ \A t \in STATE_COMMAND : t[2] = 272
      /\ \A t \in PERCENTAGE_COMMAND : t[2] = 273
  BY DEF STATE_COMMAND, PERCENTAGE_COMMAND, SUBSCRIPTIONS
<1>3. ON # OFF
  <2>1. ON[1] = 256 /\ OFF[1] = 257
    BY DEF ON, OFF
  <2> QED
    BY <2>1
<1>4. heardOf = CASE topic \in STATE_COMMAND /\ payload = ON -> Command(topic, "on")
                  [] topic \in STATE_COMMAND /\ payload = OFF -> Command(topic, "off")
                  [] topic \in STATE_COMMAND /\ payload \notin {ON, OFF} -> Err("invalid_state")
                  [] topic \in PERCENTAGE_COMMAND ->
                       IF parsed.result = "ok" THEN Command(topic, <<parsed.value>>) ELSE parsed
                  [] OTHER -> Err("unknown_topic")
  <2>1. m.topic = topic /\ m.payload = payload
    OBVIOUS
  <2> HIDE DEF m, topic, payload
  <2> QED
    BY <2>1 DEF IncomingPublish, AndThen
<1>5. Meaning(p) =
        IF topic \in STATE_COMMAND
        THEN {[topic |-> topic, order |-> IF payload = ON THEN "on" ELSE "off"]
                : x \in {payload} \cap {ON, OFF}}
        ELSE {[topic |-> topic, order |-> <<n>>]
                : n \in {s \in 0 .. SpeedMax : topic \in PERCENTAGE_COMMAND
                                                 /\ payload = NumberText(s)}}
  BY DEF Meaning
<1> HIDE DEF topic, payload, parsed, heardOf
<1>6. CASE topic \in STATE_COMMAND /\ payload = ON
  <2>1. heardOf = Ok([topic |-> topic, order |-> "on"])
    BY <1>2, <1>3, <1>4, <1>6 DEF Command
  <2>2. Meaning(p) = {[topic |-> topic, order |-> "on"]}
    BY <1>5, <1>6
  <2> QED
    BY <2>1, <2>2, UnderstoodOk DEF heardOf, topic, payload
<1>7. CASE topic \in STATE_COMMAND /\ payload = OFF
  <2>1. heardOf = Ok([topic |-> topic, order |-> "off"])
    BY <1>2, <1>3, <1>4, <1>7 DEF Command
  <2>2. Meaning(p) = {[topic |-> topic, order |-> "off"]}
    BY <1>3, <1>5, <1>7
  <2> QED
    BY <2>1, <2>2, UnderstoodOk DEF heardOf, topic, payload
<1>8. CASE topic \in STATE_COMMAND /\ payload \notin {ON, OFF}
  <2>1. heardOf = Err("invalid_state")
    BY <1>2, <1>4, <1>8
  <2>2. Meaning(p) = {}
    BY <1>5, <1>8
  <2> QED
    BY <2>1, <2>2, UnderstoodError DEF heardOf, topic, payload
<1>9. CASE topic \in PERCENTAGE_COMMAND
  <2>1. topic \notin STATE_COMMAND
    BY <1>2, <1>9
  <2>2. heardOf = IF parsed.result = "ok" THEN Command(topic, <<parsed.value>>) ELSE parsed
    BY <1>4, <1>9, <2>1
  <2>3. Meaning(p) = {[topic |-> topic, order |-> <<n>>]
                        : n \in {s \in 0 .. SpeedMax : payload = NumberText(s)}}
    BY <1>5, <1>9, <2>1
  <2>4. CASE \E n \in Nat : payload = NumberText(n)
    <3>1. PICK n \in Nat : payload = NumberText(n)
      BY <2>4
    <3>2. IsNumber(payload) /\ NumberIn(payload) = n
      <4>1. Len(payload) = 1 /\ payload[1] = 300 + n
        BY <3>1 DEF NumberText
      <4> QED
        BY <4>1 DEF IsNumber, NumberIn
    <3>3. \A s \in Nat : payload = NumberText(s) => s = n
      <4> TAKE s \in Nat
      <4> HAVE payload = NumberText(s)
      <4>1. payload[1] = 300 + s /\ payload[1] = 300 + n
        BY <3>1 DEF NumberText
      <4> QED
        BY <4>1
    <3>4. SpeedMax \in Nat /\ WordMax \in Nat /\ SpeedMax <= WordMax
      BY WidthAssumption
    <3>5. CASE n <= SpeedMax
      <4>1. parsed = Ok(n)
        BY <3>2, <3>4, <3>5 DEF SetPointParsed, parsed
      <4>2. parsed.result = "ok" /\ parsed.value = n
        BY <4>1 DEF Ok
      <4>3. heardOf = Ok([topic |-> topic, order |-> <<n>>])
        BY <2>2, <4>2 DEF Command
      <4>4. {s \in 0 .. SpeedMax : payload = NumberText(s)} = {n}
        BY <3>1, <3>3, <3>4, <3>5
      <4>5. Meaning(p) = {[topic |-> topic, order |-> <<n>>]}
        BY <2>3, <4>4
      <4> QED
        BY <4>3, <4>5, UnderstoodOk DEF heardOf, topic, payload
    <3>6. CASE ~(n <= SpeedMax)
      <4>1. parsed \in {Err("parse_int"), Err("out_of_bounds")}
        BY <3>2, <3>4, <3>6 DEF SetPointParsed, parsed
      <4>2. heardOf \in {Err("parse_int"), Err("out_of_bounds")}
        BY <2>2, <4>1 DEF Err
      <4>3. {s \in 0 .. SpeedMax : payload = NumberText(s)} = {}
        BY <3>3, <3>4, <3>6
      <4>4. Meaning(p) = {}
        BY <2>3, <4>3
      <4> QED
        BY <4>2, <4>4, UnderstoodError DEF heardOf, topic, payload
    <3> QED
      BY <3>5, <3>6
  <2>5. CASE ~\E n \in Nat : payload = NumberText(n)
    <3>1. payload \in {ON, OFF, Other, <<>>}
      <4>1. \A n \in {0, 1, SpeedMax, SpeedMax + 1, WordMax, WordMax + 1} : n \in Nat
        BY WidthAssumption
      <4> QED
        BY <1>1, <2>5, <4>1 DEF Payloads
    <3>2. ~IsNumber(payload)
      <4>1. ~IsNumber(ON) /\ ~IsNumber(OFF) /\ ~IsNumber(Other) /\ ~IsNumber(<<>>)
        BY DEF IsNumber, ON, OFF, Other
      <4> QED
        BY <3>1, <4>1
    <3>3. parsed = Err("parse_int")
      BY <3>2 DEF SetPointParsed, parsed
    <3>4. heardOf = Err("parse_int")
      BY <2>2, <3>3 DEF Err
    <3>5. {s \in 0 .. SpeedMax : payload = NumberText(s)} = {}
      <4>1. \A s \in 0 .. SpeedMax : s \in Nat
        BY WidthAssumption
      <4> QED
        BY <2>5, <4>1
    <3>6. Meaning(p) = {}
      BY <2>3, <3>5
    <3> QED
      BY <3>4, <3>6, UnderstoodError DEF heardOf, topic, payload
  <2> QED
    BY <2>4, <2>5
<1>10. CASE topic \notin STATE_COMMAND /\ topic \notin PERCENTAGE_COMMAND
  <2>1. heardOf = Err("unknown_topic")
    BY <1>4, <1>10
  <2>2. Meaning(p) = {}
    BY <1>5, <1>10
  <2> QED
    BY <2>1, <2>2, UnderstoodError DEF heardOf, topic, payload
<1> QED
  BY <1>6, <1>7, <1>8, <1>9, <1>10 DEF heardOf, topic, payload

\* A message is heard as the order it is.
LEMMA MessageUnderstood ==
  ASSUME NEW p \in Incoming, p.type = "command"
  PROVE  Understood(p, Listened(Handed(p)))
<1> DEFINE topic == p.topic
           payload == p.payload
           properties == p.properties
           retained == p.retained
           parts == Handed(p)
           read == PublishDecoded(parts.flags, parts.body)
<1>1. /\ topic \in Seq(Letter) /\ topic # <<>> /\ payload \in Seq(Letter)
      /\ properties \in Seq(Letter) /\ Len(properties) <= MAX /\ retained \in {0, 1}
  <2>1. /\ topic \in {SUBSCRIPTIONS[i] : i \in DOMAIN SUBSCRIPTIONS}
        /\ payload \in Payloads /\ properties \in PublishProperties /\ retained \in {0, 1}
    BY DEF Incoming
  <2>2. topic \in Short /\ Len(topic) \in {1, 2} /\ payload \in Short /\ properties \in Short
    BY <2>1, TextsAreShort
  <2> HIDE DEF topic, payload, properties, retained
  <2>3. \A n \in Nat : n <= 1000 => n <= MAX
    BY SMT DEF MAX
  <2>4. Len(properties) \in Nat /\ Len(properties) <= 1000
    BY <2>2, LenProperties DEF Short
  <2>5. Len(properties) <= MAX
    BY <2>3, <2>4
  <2>6. topic # <<>>
    <3> DEFINE n == Len(topic)
    <3>1. n # 0
      <4>1. n \in {1, 2}
        BY <2>2
      <4> HIDE DEF n
      <4> QED
        BY <4>1
    <3>2. topic = <<>> => n = 0
      OBVIOUS
    <3> QED
      BY <3>1, <3>2
  <2> QED
    BY <2>1, <2>2, <2>5, <2>6 DEF Short
<1>2. /\ parts.type = 3 /\ parts.flags = retained
      /\ parts.body = Text(topic) \o WithStandardLength(properties) \o payload
  <2>1. First(p) = 48 + retained /\ Body(p) = Text(topic) \o WithStandardLength(properties) \o payload
    BY DEF First, Body
  <2> HIDE DEF topic, payload, properties, retained
  <2>2. (48 + retained) \div 16 = 3 /\ (48 + retained) % 16 = retained
    BY <1>1
  <2> QED
    BY <2>1, <2>2 DEF Handed
<1> HIDE DEF parts
<1>3. read = Ok([topic |-> topic, payload |-> payload])
  <2> HIDE DEF topic, payload, properties, retained
  <2> QED
    BY <1>1, <1>2, PublishRead
<1> HIDE DEF read
<1>4. Listened(parts) = IF read.result = "ok" THEN IncomingPublish(read.value) ELSE read
  BY <1>2 DEF Listened, AndThen, read
<1>5. read.result = "ok" /\ read.value = [topic |-> topic, payload |-> payload]
  BY <1>3 DEF Ok
<1>6. Listened(parts) = IncomingPublish([topic |-> topic, payload |-> payload])
  BY <1>4, <1>5
<1> QED
  BY <1>6, OrderUnderstood DEF parts

\* The acknowledgement of the subscriptions is heard as theirs.
LEMMA AcknowledgementUnderstood ==
  ASSUME NEW p \in Incoming, p.type = "suback", Refusals(p) = {}
  PROVE  Understood(p, Listened(Handed(p)))
<1> DEFINE id == p.identifier
           codes == p.codes
           properties == p.properties
           parts == Handed(p)
           read == SubscribeAcknowledgementRead(parts.body)
<1>1. /\ id = 1 /\ codes \in Seq(Letter) /\ properties \in Seq(Letter) /\ Len(properties) <= MAX
  <2>1. /\ id = 1 /\ codes \in {Repeat(0, 6), <<0, 0, 0, 0, 0, 135>>}
        /\ properties \in PublishProperties
    BY DEF Incoming
  <2>2. codes \in Short /\ properties \in Short
    BY <2>1, TextsAreShort
  <2> HIDE DEF id, codes, properties
  <2>3. \A n \in Nat : n <= 1000 => n <= MAX
    BY SMT DEF MAX
  <2>4. Len(properties) \in Nat /\ Len(properties) <= 1000
    BY <2>2, LenProperties DEF Short
  <2>5. Len(properties) <= MAX
    BY <2>3, <2>4
  <2> QED
    BY <2>1, <2>2, <2>5 DEF Short
<1>2. /\ parts.type = 9
      /\ parts.body = <<id \div 256, id % 256>> \o WithStandardLength(properties) \o codes
  <2>1. /\ First(p) = 144
        /\ Body(p) = <<id \div 256, id % 256>> \o WithStandardLength(properties) \o codes
    BY DEF First, Body
  <2> HIDE DEF id, codes, properties
  <2> QED
    BY <2>1 DEF Handed
<1> HIDE DEF parts
<1>3. read = Ok([packet_identifier |-> id, reason_codes |-> codes])
  <2> HIDE DEF id, codes, properties
  <2>1. id \in Nat
    BY <1>1
  <2>2. codes \in Seq(Letter) /\ properties \in Seq(Letter) /\ Len(properties) <= MAX
    BY <1>1
  <2>3. SubscribeAcknowledgementRead(
          <<id \div 256, id % 256>> \o WithStandardLength(properties) \o codes)
          = Ok([packet_identifier |-> id, reason_codes |-> codes])
    BY <2>1, <2>2, SubscribeAcknowledgementIsRead
  <2> QED
    BY <1>2, <2>3
<1> HIDE DEF read
<1>4. Listened(parts) = IF read.result = "ok" THEN Acknowledged(read.value) ELSE read
  BY <1>2 DEF Listened, AndThen, read
<1>5. read.result = "ok" /\ read.value.packet_identifier = 1
  <2>1. [packet_identifier |-> id, reason_codes |-> codes].packet_identifier = 1
    BY <1>1
  <2> QED
    BY <1>3, <2>1 DEF Ok
<1>6. Len(SUBSCRIPTIONS) = 6
  BY DEF SUBSCRIPTIONS
<1>7. Listened(parts) = Ok(1)
  BY <1>4, <1>5, <1>6 DEF Acknowledged
<1>8. Meaning(p) = {1}
  BY <1>1 DEF Meaning
<1> QED
  BY <1>7, <1>8, UnderstoodOk DEF parts

\* The answer to a ping, and a disconnect that gives its reason.
LEMMA OthersUnderstood ==
  ASSUME NEW p \in Incoming,
         \/ p.type = "ping_response"
         \/ p.type = "disconnect" /\ p.reason # <<>>
  PROVE  Understood(p, Listened(Handed(p)))
<1> DEFINE parts == Handed(p)
<1>1. CASE p.type = "ping_response"
  <2>1. First(p) = 208 /\ Meaning(p) = {"ping_response"}
    BY <1>1 DEF First, Meaning
  <2>2. parts.type = 13
    BY <2>1 DEF Handed
  <2> HIDE DEF parts
  <2>3. Listened(parts) = Ok("ping_response")
    BY <2>2 DEF Listened
  <2> QED
    BY <2>1, <2>3, UnderstoodOk DEF parts
<1>2. CASE p.type = "disconnect" /\ p.reason # <<>>
  <2> DEFINE reason == p.reason
             zero == <<0>>
             body == reason \o zero
             d == DisconnectDecoded(body)
  <2>1. First(p) = 224 /\ Meaning(p) = {"disconnected"} /\ Body(p) = body
    BY <1>2 DEF First, Meaning, Body
  <2>2. parts.type = 14 /\ parts.body = body
    BY <2>1 DEF Handed
  <2>3. reason \in Seq(Letter) /\ Len(reason) = 1 /\ zero \in Seq(Letter) /\ Len(zero) = 1
    <3>1. reason = <<0>> \/ reason = <<139>> \/ reason = <<142>>
      BY <1>2 DEF Incoming
    <3>2. 0 \in Letter /\ 139 \in Letter /\ 142 \in Letter
      BY DEF Letter
    <3>3. <<0>> \in Seq(Letter) /\ <<139>> \in Seq(Letter) /\ <<142>> \in Seq(Letter)
      BY <3>2
    <3>4. Len(<<0>>) = 1 /\ Len(<<139>>) = 1 /\ Len(<<142>>) = 1
      OBVIOUS
    <3> HIDE DEF reason
    <3> QED
      BY <3>1, <3>3, <3>4
  <2> HIDE DEF reason, zero, parts
  <2>4. body # <<>>
    <3>1. Len(body) = Len(reason) + Len(zero)
      BY <2>3, ConcatProperties
    <3>2. Len(body) = 2
      BY <2>3, <3>1
    <3> HIDE DEF body
    <3> QED
      BY <3>2
  <2> HIDE DEF body
  <2>5. d.result # "panic"
    <3>1. d \in {Err("unknown_reason_code"), Ok(body[1])}
      BY <2>4 DEF DisconnectDecoded
    <3> HIDE DEF d
    <3> QED
      BY <3>1 DEF Err, Ok
  <2>6. Listened(parts) = Ok("disconnected")
    BY <2>2, <2>5 DEF Listened
  <2> QED
    BY <2>1, <2>6, UnderstoodOk DEF parts
<1> QED
  BY <1>1, <1>2

\* Whatever the broker sends as a whole is understood as it is meant, past its properties, and
\* no command is heard that was not given; but for the three kinds of packet that IsMisread
\* names.
THEOREM BrokerIsUnderstood == Spec => []Understands
<1>1. WireInv => Understands
  <2> SUFFICES ASSUME WireInv, phase = "heard", ~IsMisread(packet) PROVE Understood(packet, heard)
    BY DEF Understands, Understood
  <2>1. packet \in Incoming /\ stream = StandardBytes(packet)
    BY DEF WireInv, Sent
  <2>2. heard = HeardIn(stream, packet.type = "connack")
    BY DEF WireInv, IsHeard
  <2>3. heard = IF packet.type = "connack" THEN Greeted(Handed(packet)) ELSE Listened(Handed(packet))
    BY <2>1, <2>2, WholeIsHanded
  <2>4. CASE packet.type = "connack"
    <3>1. packet.properties \in ConnackProperties
      BY <2>1, <2>4 DEF IsMisread, Incoming
    <3> QED
      BY <2>1, <2>3, <2>4, <3>1, GreetingUnderstood
  <2>5. CASE packet.type = "command"
    BY <2>1, <2>3, <2>5, MessageUnderstood
  <2>6. CASE packet.type = "suback"
    BY <2>1, <2>3, <2>6, AcknowledgementUnderstood DEF IsMisread
  <2>7. CASE packet.type \in {"ping_response", "disconnect"}
    <3>1. \/ packet.type = "ping_response"
          \/ packet.type = "disconnect" /\ packet.reason # <<>>
      BY <2>7 DEF IsMisread
    <3> QED
      BY <2>1, <2>3, <2>7, <3>1, OthersUnderstood
  <2>8. packet.type \in {"connack", "command", "suback", "ping_response", "disconnect"}
    BY <2>1 DEF Incoming
  <2> QED
    BY <2>4, <2>5, <2>6, <2>7, <2>8
<1> QED
  BY <1>1, WireInvHolds, PTL
=============================================================================
