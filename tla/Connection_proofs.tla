------------------------- MODULE Connection_proofs -------------------------
(***************************************************************************)
(* Proofs about Connection, for buffers and kernel queues of any size, any *)
(* list of messages and any cut of the stream: its types, that the echo    *)
(* returns the peer's bytes exactly, that the other callbacks get the      *)
(* peer's messages as sent and answer in whole frames, that no edge of the *)
(* socket is missed, and when the program exits over a full buffer.        *)
(*                                                                         *)
(* The lemmas come first: bytes, the decimal numbers of the framing,       *)
(* FlattenSeq, the head of a frame, C strings, the wire; then the          *)
(* inductive invariant ConnectionInv, one lemma for each action, and the   *)
(* theorems.                                                               *)
(***************************************************************************)
EXTENDS Connection, NatInduction, SequenceTheorems, FiniteSetTheorems

-----------------------------------------------------------------------------
(* Sizes and sequences of bytes. *)

LEMMA Sizes ==
  /\ ReadMax \in Nat /\ ReadMax > 0 /\ WriteMax \in Nat /\ WriteMax > 0
  /\ SendRoom \in Nat /\ SendRoom > 0 /\ \A n \in Segments : n \in Nat
BY ConnectionAssumption

\* The library's facts about concatenation, for bytes.
LEMMA Concatenation ==
  /\ \A a, b \in Seq(Byte) : /\ a \o b \in Seq(Byte)
                              /\ Len(a \o b) = Len(a) + Len(b)
  /\ \A a, b, c \in Seq(Byte) : (a \o b) \o c = a \o (b \o c)
  /\ \A a \in Seq(Byte) : a \o <<>> = a /\ <<>> \o a = a
<1>1. ASSUME NEW a \in Seq(Byte), NEW b \in Seq(Byte)
      PROVE  a \o b \in Seq(Byte) /\ Len(a \o b) = Len(a) + Len(b)
  BY ConcatProperties
<1>2. ASSUME NEW a \in Seq(Byte), NEW b \in Seq(Byte), NEW c \in Seq(Byte)
      PROVE  (a \o b) \o c = a \o (b \o c)
  BY ConcatAssociative
<1>3. ASSUME NEW a \in Seq(Byte)
      PROVE  a \o <<>> = a /\ <<>> \o a = a
  BY ConcatEmptySeq
<1> QED BY <1>1, <1>2, <1>3

\* Take returns the first so many bytes, or all there are.
LEMMA TakeProperties ==
  ASSUME NEW s \in Seq(Byte), NEW n \in Nat
  PROVE  /\ Take(s, n) \in Seq(Byte)
         /\ Len(Take(s, n)) = AtMost(n, Len(s))
         /\ Len(s) <= n => Take(s, n) = s
         /\ Drop(s, n) \in Seq(Byte)
         /\ Len(Drop(s, n)) = Len(s) - AtMost(n, Len(s))
         /\ Len(s) <= n => Drop(s, n) = <<>>
         /\ Take(s, n) \o Drop(s, n) = s
<1> DEFINE k == AtMost(n, Len(s))
<1>1. /\ Len(s) \in Nat /\ k \in 0..Len(s) /\ (Len(s) <= n => k = Len(s))
      /\ \A i \in 1..Len(s) : s[i] \in Byte
  BY DEF AtMost
<1>2. SubSeq(s, 1, k) \in Seq(Byte) /\ Len(SubSeq(s, 1, k)) = k
  <2>1. \A i \in 1..k : s[i] \in Byte
    BY <1>1
  <2> HIDE DEF k
  <2> QED BY <1>1, <2>1, SubSeqProperties
<1>3. SubSeq(s, k + 1, Len(s)) \in Seq(Byte) /\ Len(SubSeq(s, k + 1, Len(s))) = Len(s) - k
  <2>1. \A i \in k + 1..Len(s) : s[i] \in Byte
    BY <1>1
  <2> HIDE DEF k
  <2> QED BY <1>1, <2>1, SubSeqProperties
<1>4. SubSeq(s, 1, k) \o SubSeq(s, k + 1, Len(s)) = s
  <2>1. 1 \in 1..Len(s) + 1 /\ k \in 1 - 1..Len(s) /\ Len(s) \in k..Len(s)
    BY <1>1
  <2> HIDE DEF k
  <2>2. SubSeq(s, 1, k) \o SubSeq(s, k + 1, Len(s)) = SubSeq(s, 1, Len(s))
    BY <2>1, ConcatAdjacentSubSeq
  <2> QED BY <2>2, SubSeqFull
<1>5. Len(s) <= n => SubSeq(s, 1, k) = s /\ SubSeq(s, k + 1, Len(s)) = <<>>
  <2> HIDE DEF k
  <2>1. SubSeq(s, 1, Len(s)) = s
    BY SubSeqFull
  <2>2. SubSeq(s, Len(s) + 1, Len(s)) = <<>>
    BY <1>1, SubSeqEmpty
  <2> QED BY <1>1, <2>1, <2>2
<1> QED BY <1>2, <1>3, <1>4, <1>5 DEF Take, Drop

-----------------------------------------------------------------------------
(* Numbers and their digits. *)

\* The values of the first so many digits
IsValue(f, s) ==
  /\ f \in [Nat -> Int]
  /\ f[0] = 0
  /\ \A i \in Nat : i < Len(s) => f[i + 1] = f[i] * 10 + (s[i + 1] - 48)

LEMMA ValueExists ==
  ASSUME NEW s \in Seq(Digits)
  PROVE  \E f : IsValue(f, s)
<1> DEFINE At(p) == IF p[1] < Len(s) THEN p[2] * 10 + (s[p[1] + 1] - 48) ELSE p[2]
           step == [p \in Nat \X Int |-> At(p)]
<1>1. ASSUME NEW n \in Nat, NEW a \in Int
      PROVE  /\ At(<<n, a>>) \in Int
             /\ n < Len(s) => At(<<n, a>>) = a * 10 + (s[n + 1] - 48)
  <2>1. n < Len(s) => s[n + 1] \in Digits
    BY ElementOfSeq
  <2>2. \A d \in Digits : a * 10 + (d - 48) \in Int
    BY DEF Digits
  <2> QED BY <2>1, <2>2
<1> HIDE DEF At
<1>2. step \in [Nat \X Int -> Int]
  BY <1>1
<1>3. \A n \in Nat, a \in Int : step[<<n, a>>] = At(<<n, a>>)
  OBVIOUS
<1>4. 0 \in Int
  OBVIOUS
<1> HIDE DEF step
<1>5. PICK f : IsRecursive(f, Int, 0, step)
  BY <1>2, <1>4, Recursion
<1>6. IsValue(f, s)
  <2>1. f \in [Nat -> Int] /\ f[0] = 0
    BY <1>5 DEF IsRecursive
  <2>2. ASSUME NEW i \in Nat, i < Len(s)
        PROVE  f[i + 1] = f[i] * 10 + (s[i + 1] - 48)
    <3>1. f[i] \in Int /\ f[i + 1] = step[<<i, f[i]>>]
      BY <1>5, <2>1 DEF IsRecursive
    <3>2. step[<<i, f[i]>>] = At(<<i, f[i]>>)
      BY <1>3, <3>1
    <3>3. At(<<i, f[i]>>) = f[i] * 10 + (s[i + 1] - 48)
      BY <1>1, <2>2, <3>1
    <3> QED BY <3>1, <3>2, <3>3
  <2> QED BY <2>1, <2>2 DEF IsValue
<1> QED BY <1>6

LEMMA NumberIsValue ==
  ASSUME NEW s \in Seq(Digits), NEW f, IsValue(f, s)
  PROVE  Number(s) = f[Len(s)]
<1> DEFINE n == Len(s)
           Step(g) == [i \in 0..n |-> IF i = 0 THEN 0 ELSE g[i - 1] * 10 + (s[i] - 48)]
           value == CHOOSE g : g = Step(g)
           h == [i \in 0..n |-> f[i]]
<1>1. n \in Nat
  OBVIOUS
<1>2. Number(s) = value[n]
  BY DEF Number
<1>3. h = Step(h)
  <2> SUFFICES ASSUME NEW i \in 0..n
               PROVE  f[i] = IF i = 0 THEN 0 ELSE h[i - 1] * 10 + (s[i] - 48)
    OBVIOUS
  <2>1. CASE i = 0
    BY <2>1 DEF IsValue
  <2>2. CASE i # 0
    <3>1. i - 1 \in Nat /\ i - 1 \in 0..n /\ i - 1 < Len(s) /\ i - 1 + 1 = i
      BY <1>1, <2>2
    <3>2. f[i] = f[i - 1] * 10 + (s[i] - 48)
      BY <3>1 DEF IsValue
    <3> QED BY <2>2, <3>1, <3>2
  <2> QED BY <2>1, <2>2
<1>4. value = Step(value)
  <2> HIDE DEF h, Step
  <2>1. \E g : g = Step(g)
    BY <1>3
  <2> QED BY <2>1
<1> HIDE DEF value
<1>5. value[0] = 0 /\ \A i \in 1..n : value[i] = value[i - 1] * 10 + (s[i] - 48)
  <2>1. \A i \in 0..n : value[i] = IF i = 0 THEN 0 ELSE value[i - 1] * 10 + (s[i] - 48)
    BY <1>4
  <2>2. 0 \in 0..n /\ \A i \in 1..n : i \in 0..n /\ i # 0
    BY <1>1
  <2> QED BY <2>1, <2>2
<1> DEFINE S == {i \in Nat : i <= n => value[i] = f[i]}
<1>6. 0 \in S
  BY <1>5 DEF IsValue
<1>7. ASSUME NEW i \in Nat, i \in S
      PROVE  i + 1 \in S
  <2> SUFFICES ASSUME i + 1 <= n PROVE value[i + 1] = f[i + 1]
    OBVIOUS
  <2>1. PICK j \in 1..n : j = i + 1
    BY <1>1
  <2>2. value[j] = value[j - 1] * 10 + (s[j] - 48)
    BY <1>5
  <2>3. f[i + 1] = f[i] * 10 + (s[i + 1] - 48)
    BY <1>1 DEF IsValue
  <2>4. value[i] = f[i] /\ j - 1 = i
    BY <1>1, <1>7, <2>1
  <2> QED BY <2>1, <2>2, <2>3, <2>4
<1> HIDE DEF S
<1>8. Nat \subseteq S
  BY <1>6, <1>7, SetInduction
<1>9. value[n] = f[n]
  BY <1>1, <1>8 DEF S
<1> QED BY <1>2, <1>9

LEMMA NumberProperties ==
  /\ Number(<<>>) = 0
  /\ \A s \in Seq(Digits), d \in Digits : Number(Append(s, d)) = Number(s) * 10 + (d - 48)
<1>1. Number(<<>>) = 0
  <2>1. <<>> \in Seq(Digits) /\ Len(<<>>) = 0
    OBVIOUS
  <2>2. PICK f : IsValue(f, <<>>)
    BY <2>1, ValueExists
  <2>3. Number(<<>>) = f[Len(<<>>)]
    BY <2>1, <2>2, NumberIsValue
  <2> QED BY <2>1, <2>2, <2>3 DEF IsValue
<1>2. ASSUME NEW s \in Seq(Digits), NEW d \in Digits
      PROVE  Number(Append(s, d)) = Number(s) * 10 + (d - 48)
  <2> DEFINE n == Len(s)
             more == Append(s, d)
  <2>1. /\ more \in Seq(Digits) /\ Len(more) = n + 1 /\ more[n + 1] = d
        /\ \A i \in 1..n : more[i] = s[i]
    BY AppendProperties
  <2> HIDE DEF more
  <2>2. PICK f : IsValue(f, more)
    BY <2>1, ValueExists
  <2>3. IsValue(f, s)
    <3>1. \A i \in Nat : i < n => i + 1 \in 1..n /\ i < n + 1
      OBVIOUS
    <3> QED BY <2>1, <2>2, <3>1 DEF IsValue
  <2>4. Number(more) = f[n + 1] /\ Number(s) = f[n]
    BY <2>1, <2>2, <2>3, NumberIsValue
  <2>5. n \in Nat /\ n < n + 1
    OBVIOUS
  <2>6. f[n + 1] = f[n] * 10 + (more[n + 1] - 48)
    BY <2>1, <2>2, <2>5 DEF IsValue
  <2> QED BY <2>1, <2>4, <2>6 DEF more
<1> QED BY <1>1, <1>2

LEMMA DecimalProperties ==
  /\ Decimal \in [Nat -> Seq(Digits)]
  /\ \A n \in Nat : /\ n < 10 => Decimal[n] = <<48 + n>>
                    /\ n >= 10 => Decimal[n] = Append(Decimal[n \div 10], 48 + (n % 10))
<1> DEFINE T == Seq(Digits)
           base == [n \in Nat |-> IF n < 10 THEN <<48 + n>> ELSE <<48>>]
           step == [p \in Nat \X T |-> Append(p[2], 48 + (p[1] % 10))]
           before == [n \in Nat |-> n \div 10]
           Step(g) == [n \in Nat |-> IF n < 10 THEN <<48 + n>> ELSE Append(g[n \div 10], 48 + (n % 10))]
<1>1. base \in [Nat -> T]
  <2>1. \A d \in Digits : <<d>> \in T
    OBVIOUS
  <2>2. \A n \in Nat : (n < 10 => 48 + n \in Digits) /\ 48 \in Digits
    BY DEF Digits
  <2>3. \A n \in Nat : (IF n < 10 THEN <<48 + n>> ELSE <<48>>) \in T
    <3> HIDE DEF T
    <3> QED BY <2>1, <2>2
  <2> QED BY <2>3
<1>2. step \in [Nat \X T -> T]
  <2>1. ASSUME NEW n \in Nat, NEW s \in T
        PROVE  Append(s, 48 + (n % 10)) \in T
    <3>1. 48 + (n % 10) \in Digits
      BY DEF Digits
    <3> QED BY <3>1, AppendProperties
  <2> QED BY <2>1
<1>3. before \in [Nat -> Nat] /\ \A n \in Nat : n >= 10 => before[n] < n
  OBVIOUS
<1>4. /\ \A n \in Nat : n < 10 => base[n] = <<48 + n>>
      /\ \A n \in Nat : before[n] = n \div 10
      /\ \A n \in Nat, s \in T : step[<<n, s>>] = Append(s, 48 + (n % 10))
  OBVIOUS
<1>5. \E f : IsCourse(f, T, 10, base, step, before)
  <2> HIDE DEF T, base, step, before
  <2> QED BY <1>1, <1>2, <1>3, CourseOfValues
<1>6. PICK f : IsCourse(f, T, 10, base, step, before)
  BY <1>5
<1>7. \A n \in Nat : f[n] \in T /\ n \div 10 \in Nat
  BY <1>6 DEF IsCourse
<1>8. f = Step(f)
  <2>1. ASSUME NEW n \in Nat
        PROVE  f[n] = IF n < 10 THEN <<48 + n>> ELSE Append(f[n \div 10], 48 + (n % 10))
    <3>1. f[n] = IF n < 10 THEN base[n] ELSE step[<<n, f[before[n]]>>]
      <4> HIDE DEF T, base, step, before
      <4> QED BY <1>6 DEF IsCourse
    <3>2. f[n \div 10] \in T
      BY <1>7
    <3> HIDE DEF T, base, step, before
    <3>3. step[<<n, f[before[n]]>>] = Append(f[n \div 10], 48 + (n % 10))
      BY <1>4, <3>2
    <3> QED BY <1>4, <3>1, <3>3
  <2>2. f = [n \in Nat |-> f[n]]
    <3> HIDE DEF T, base, step, before
    <3> QED BY <1>6 DEF IsCourse
  <2> QED BY <2>1, <2>2
<1>9. Decimal = Step(Decimal)
  <2> HIDE DEF Step
  <2>1. \E g : g = Step(g)
    BY <1>8
  <2>2. (CHOOSE g : g = Step(g)) = Step(CHOOSE g : g = Step(g))
    BY <2>1
  <2>3. Decimal = CHOOSE g : g = Step(g)
    BY DEF Decimal, Step
  <2> QED BY <2>2, <2>3
<1>10. ASSUME NEW n \in Nat
       PROVE  /\ n < 10 => Decimal[n] = <<48 + n>>
              /\ n >= 10 => Decimal[n] = Append(Decimal[n \div 10], 48 + (n % 10))
  <2>1. Decimal[n] = IF n < 10 THEN <<48 + n>> ELSE Append(Decimal[n \div 10], 48 + (n % 10))
    BY <1>9
  <2>2. n >= 10 => ~(n < 10)
    OBVIOUS
  <2> QED BY <2>1, <2>2
<1>11. \A n \in Nat : Decimal[n] \in Seq(Digits)
  <2> DEFINE S == {n \in Nat : Decimal[n] \in Seq(Digits)}
  <2>1. ASSUME NEW n \in Nat, \A m \in Nat : m < n => m \in S
        PROVE  n \in S
    <3>1. CASE n < 10
      <4>1. 48 + n \in Digits
        BY <3>1 DEF Digits
      <4>2. <<48 + n>> \in Seq(Digits)
        BY <4>1
      <4>3. Decimal[n] = <<48 + n>>
        BY <1>10, <3>1
      <4> QED BY <4>2, <4>3
    <3>2. CASE n >= 10
      <4>1. n \div 10 \in Nat /\ n \div 10 < n /\ 48 + (n % 10) \in Digits
        BY <3>2 DEF Digits
      <4>2. Decimal[n \div 10] \in Seq(Digits)
        BY <2>1, <4>1
      <4>3. Append(Decimal[n \div 10], 48 + (n % 10)) \in Seq(Digits)
        BY <4>1, <4>2, AppendProperties
      <4>4. Decimal[n] = Append(Decimal[n \div 10], 48 + (n % 10))
        BY <1>10, <3>2
      <4> QED BY <4>3, <4>4
    <3> QED BY <3>1, <3>2
  <2> HIDE DEF S
  <2>2. Nat \subseteq S
    BY <2>1, StrongInduction
  <2> QED BY <2>2 DEF S
<1>12. Decimal = [n \in Nat |-> Decimal[n]]
  BY <1>9
<1>13. Decimal \in [Nat -> Seq(Digits)]
  BY <1>11, <1>12
<1> QED BY <1>10, <1>13

\* peekIntWithLength reads what "%d" has written.
LEMMA NumberOfDecimal == \A n \in Nat : Number(Decimal[n]) = n
<1> DEFINE S == {n \in Nat : Number(Decimal[n]) = n}
<1>1. ASSUME NEW n \in Nat, \A m \in Nat : m < n => m \in S
      PROVE  n \in S
  <2>1. CASE n < 10
    <3>1. 48 + n \in Digits /\ <<>> \in Seq(Digits)
      BY <2>1 DEF Digits
    <3>2. Append(<<>>, 48 + n) = <<48 + n>>
      OBVIOUS
    <3>3. Number(Append(<<>>, 48 + n)) = Number(<<>>) * 10 + (48 + n - 48)
      <4>1. PICK d \in Digits : d = 48 + n
        BY <3>1
      <4>2. Number(Append(<<>>, d)) = Number(<<>>) * 10 + (d - 48)
        BY <3>1, NumberProperties
      <4> QED BY <4>1, <4>2
    <3>4. Number(<<48 + n>>) = n
      BY <3>2, <3>3, NumberProperties
    <3> QED BY <2>1, <3>4, DecimalProperties
  <2>2. CASE n >= 10
    <3>1. n \div 10 \in Nat /\ n \div 10 < n /\ 48 + (n % 10) \in Digits
      BY <2>2 DEF Digits
    <3>2. Decimal[n \div 10] \in Seq(Digits) /\ Decimal[n] = Append(Decimal[n \div 10], 48 + (n % 10))
      BY <2>2, <3>1, DecimalProperties
    <3>3. Number(Decimal[n]) = Number(Decimal[n \div 10]) * 10 + (48 + (n % 10) - 48)
      BY <3>1, <3>2, NumberProperties
    <3>4. Number(Decimal[n \div 10]) = n \div 10
      BY <1>1, <3>1
    <3>5. (n \div 10) * 10 + (48 + (n % 10) - 48) = n
      OBVIOUS
    <3> QED BY <3>3, <3>4, <3>5
  <2> QED BY <2>1, <2>2
<1> HIDE DEF S
<1>2. Nat \subseteq S
  BY <1>1, StrongInduction
<1> QED BY <1>2 DEF S
-----------------------------------------------------------------------------
(* Concatenations of sequences of byte strings. *)

\* Joined step by step
IsJoined(f, seqs) ==
  /\ f \in [Nat -> Seq(Byte)]
  /\ f[0] = <<>>
  /\ \A i \in Nat : i < Len(seqs) => f[i + 1] = f[i] \o seqs[i + 1]

LEMMA Joining ==
  ASSUME NEW seqs \in Seq(Seq(Byte))
  PROVE  \E f : IsJoined(f, seqs)
<1> DEFINE T == Seq(Byte)
           At(p) == IF p[1] < Len(seqs) THEN p[2] \o seqs[p[1] + 1] ELSE p[2]
           step == [p \in Nat \X T |-> At(p)]
<1>1. ASSUME NEW n \in Nat, NEW a \in T
      PROVE  At(<<n, a>>) \in T
  <2>1. CASE n < Len(seqs)
    <3>1. n + 1 \in 1..Len(seqs)
      BY <2>1
    <3>2. seqs[n + 1] \in Seq(Byte)
      BY <3>1
    <3> QED BY <2>1, <3>2, Concatenation
  <2>2. CASE ~(n < Len(seqs))
    BY <2>2
  <2> QED BY <2>1, <2>2
<1>2. ASSUME NEW n \in Nat, NEW a \in T, n < Len(seqs)
      PROVE  At(<<n, a>>) = a \o seqs[n + 1]
  BY <1>2
<1> HIDE DEF At
<1>3. step \in [Nat \X T -> T]
  BY <1>1
<1>4. \A n \in Nat, a \in T : step[<<n, a>>] = At(<<n, a>>)
  OBVIOUS
<1>5. <<>> \in T
  OBVIOUS
<1> HIDE DEF step
<1>6. PICK f : IsRecursive(f, T, <<>>, step)
  <2> HIDE DEF T
  <2> QED BY <1>3, <1>5, Recursion
<1>7. IsJoined(f, seqs)
  <2>1. f \in [Nat -> T] /\ f[0] = <<>>
    BY <1>6 DEF IsRecursive
  <2>2. ASSUME NEW i \in Nat, i < Len(seqs)
        PROVE  f[i + 1] = f[i] \o seqs[i + 1]
    <3>1. f[i] \in T /\ f[i + 1] = step[<<i, f[i]>>]
      BY <1>6, <2>1 DEF IsRecursive
    <3> HIDE DEF T
    <3>2. step[<<i, f[i]>>] = At(<<i, f[i]>>)
      BY <1>4, <3>1
    <3>3. At(<<i, f[i]>>) = f[i] \o seqs[i + 1]
      BY <1>2, <2>2, <3>1
    <3> QED BY <3>1, <3>2, <3>3
  <2> QED BY <2>1, <2>2 DEF IsJoined
<1> QED BY <1>7

\* FlattenSeq joins the sequences it is given.
LEMMA FlattenIsJoined ==
  ASSUME NEW seqs \in Seq(Seq(Byte)), NEW f, IsJoined(f, seqs)
  PROVE  FlattenSeq(seqs) = f[Len(seqs)]
<1> DEFINE n == Len(seqs)
           Step(g) == [i \in 1..n |-> IF i = 1 THEN seqs[i] ELSE g[i - 1] \o seqs[i]]
           flat == CHOOSE g : g = Step(g)
<1>1. n \in Nat
  OBVIOUS
<1>2. CASE n = 0
  <2>1. seqs = <<>>
    BY <1>2
  <2>2. FlattenSeq(seqs) = seqs
    BY <1>2 DEF FlattenSeq
  <2> QED BY <1>2, <2>1, <2>2 DEF IsJoined
<1>3. CASE n # 0
  <2>1. FlattenSeq(seqs) = flat[n]
    BY <1>3 DEF FlattenSeq
  <2> DEFINE h == [i \in 1..n |-> f[i]]
  <2>2. h = Step(h)
    <3> SUFFICES ASSUME NEW i \in 1..n
                 PROVE  f[i] = IF i = 1 THEN seqs[i] ELSE h[i - 1] \o seqs[i]
      OBVIOUS
    <3>1. CASE i = 1
      <4>1. 0 \in Nat /\ 0 < Len(seqs) /\ 0 + 1 = 1
        BY <1>1, <1>3
      <4>2. f[1] = f[0] \o seqs[1] /\ f[0] = <<>>
        BY <4>1 DEF IsJoined
      <4>3. seqs[1] \in Seq(Byte)
        BY <3>1
      <4> QED BY <3>1, <4>2, <4>3, Concatenation
    <3>2. CASE i # 1
      <4>1. i - 1 \in Nat /\ i - 1 \in 1..n /\ i - 1 < Len(seqs) /\ i - 1 + 1 = i
        BY <1>1, <3>2
      <4>2. f[i] = f[i - 1] \o seqs[i]
        BY <4>1 DEF IsJoined
      <4> QED BY <3>2, <4>1, <4>2
    <3> QED BY <3>1, <3>2
  <2>3. flat = Step(flat)
    <3> HIDE DEF h, Step
    <3>1. \E g : g = Step(g)
      BY <2>2
    <3> QED BY <3>1
  <2> HIDE DEF flat
  <2>4. flat[1] = seqs[1] /\ \A i \in 2..n : flat[i] = flat[i - 1] \o seqs[i]
    <3>1. \A i \in 1..n : flat[i] = IF i = 1 THEN seqs[i] ELSE flat[i - 1] \o seqs[i]
      BY <2>3
    <3>2. 1 \in 1..n
      BY <1>1, <1>3
    <3>3. \A i \in 2..n : i \in 1..n /\ i # 1
      BY <1>1
    <3> QED BY <3>1, <3>2, <3>3
  <2> DEFINE S == {i \in Nat : i + 1 <= n => flat[i + 1] = f[i + 1]}
  <2>5. 0 \in S
    <3>1. h[1] = f[1] /\ h[1] = seqs[1]
      <4>1. 1 \in 1..n
        BY <1>1, <1>3
      <4> QED BY <2>2, <4>1
    <3> HIDE DEF h
    <3>2. flat[1] = f[1] /\ 0 + 1 = 1
      BY <2>4, <3>1
    <3> QED BY <3>2
  <2>6. ASSUME NEW i \in Nat, i \in S
        PROVE  i + 1 \in S
    <3> SUFFICES ASSUME i + 1 + 1 <= n PROVE flat[i + 1 + 1] = f[i + 1 + 1]
      OBVIOUS
    <3>1. i + 1 + 1 \in 2..n /\ i + 1 + 1 - 1 = i + 1 /\ i + 1 \in Nat /\ i + 1 < Len(seqs)
      BY <1>1
    <3>2. flat[i + 1 + 1] = flat[i + 1] \o seqs[i + 1 + 1]
      <4>1. PICK j \in 2..n : j = i + 1 + 1
        BY <3>1
      <4>2. flat[j] = flat[j - 1] \o seqs[j]
        BY <2>4
      <4>3. j - 1 = i + 1
        BY <4>1
      <4> QED BY <4>1, <4>2, <4>3
    <3>3. f[i + 1 + 1] = f[i + 1] \o seqs[i + 1 + 1]
      BY <3>1 DEF IsJoined
    <3>4. flat[i + 1] = f[i + 1]
      BY <2>6, <3>1
    <3> QED BY <3>2, <3>3, <3>4
  <2> HIDE DEF S
  <2>7. Nat \subseteq S
    BY <2>5, <2>6, SetInduction
  <2>8. n - 1 \in S /\ n - 1 + 1 = n
    BY <1>1, <1>3, <2>7
  <2>9. flat[n] = f[n]
    BY <1>1, <2>8 DEF S
  <2> QED BY <2>1, <2>9
<1> QED BY <1>2, <1>3

LEMMA FlattenProperties ==
  ASSUME NEW seqs \in Seq(Seq(Byte))
  PROVE  /\ FlattenSeq(seqs) \in Seq(Byte)
         /\ \A s \in Seq(Byte) : FlattenSeq(Append(seqs, s)) = FlattenSeq(seqs) \o s
<1>1. FlattenSeq(seqs) \in Seq(Byte)
  <2>1. PICK f : IsJoined(f, seqs)
    BY Joining
  <2>2. FlattenSeq(seqs) = f[Len(seqs)]
    BY <2>1, FlattenIsJoined
  <2> QED BY <2>1, <2>2 DEF IsJoined
<1>2. ASSUME NEW s \in Seq(Byte)
      PROVE  FlattenSeq(Append(seqs, s)) = FlattenSeq(seqs) \o s
  <2> DEFINE n == Len(seqs)
             more == Append(seqs, s)
  <2>1. /\ more \in Seq(Seq(Byte)) /\ Len(more) = n + 1 /\ more[n + 1] = s
        /\ \A i \in 1..n : more[i] = seqs[i]
    BY AppendProperties
  <2> HIDE DEF more
  <2>2. PICK f : IsJoined(f, more)
    BY <2>1, Joining
  <2>3. IsJoined(f, seqs)
    <3>1. \A i \in Nat : i < n => i + 1 \in 1..n /\ i < n + 1
      OBVIOUS
    <3> QED BY <2>1, <2>2, <3>1 DEF IsJoined
  <2>4. FlattenSeq(more) = f[n + 1] /\ FlattenSeq(seqs) = f[n]
    BY <2>1, <2>2, <2>3, FlattenIsJoined
  <2>5. n \in Nat /\ n < n + 1
    OBVIOUS
  <2>6. f[n + 1] = f[n] \o more[n + 1]
    BY <2>1, <2>2, <2>5 DEF IsJoined
  <2> QED BY <2>1, <2>4, <2>6 DEF more
<1> QED BY <1>1, <1>2

\* The sequences from some place on are the rest.
LEMMA FlattenPrefix ==
  ASSUME NEW seqs \in Seq(Seq(Byte)), NEW k \in 0..Len(seqs)
  PROVE  \E rest \in Seq(Byte) : FlattenSeq(seqs) = FlattenSeq(SubSeq(seqs, 1, k)) \o rest
<1> DEFINE n == Len(seqs)
           head == SubSeq(seqs, 1, k)
<1>1. n \in Nat /\ k \in Nat /\ k <= n
  OBVIOUS
<1>2. head \in Seq(Seq(Byte)) /\ Len(head) = k /\ \A i \in 1..k : head[i] = seqs[i]
  <2>1. \A i \in 1..k : seqs[i] \in Seq(Byte)
    BY <1>1
  <2>2. /\ head \in Seq(Seq(Byte)) /\ Len(head) = IF 1 <= k THEN k - 1 + 1 ELSE 0
        /\ \A i \in 1..k - 1 + 1 : head[i] = seqs[1 + i - 1]
    BY <1>1, <2>1, SubSeqProperties
  <2> QED BY <1>1, <2>2
<1> HIDE DEF head
<1>3. PICK f : IsJoined(f, seqs)
  BY Joining
<1>4. IsJoined(f, head)
  <2>1. \A i \in Nat : i < k => i + 1 \in 1..k /\ i < n
    BY <1>1
  <2> QED BY <1>2, <1>3, <2>1 DEF IsJoined
<1>5. FlattenSeq(seqs) = f[n] /\ FlattenSeq(head) = f[k]
  BY <1>2, <1>3, <1>4, FlattenIsJoined
<1>6. \A i \in Nat : f[i] \in Seq(Byte)
  BY <1>3 DEF IsJoined
<1> DEFINE Extends(j) == \E rest \in Seq(Byte) : f[j] = f[k] \o rest
           S == {i \in Nat : k + i <= n => Extends(k + i)}
<1>7. 0 \in S
  <2>1. f[k] = f[k] \o <<>> /\ <<>> \in Seq(Byte) /\ k + 0 = k
    BY <1>1, <1>6, Concatenation
  <2>2. Extends(k)
    BY <2>1
  <2> HIDE DEF Extends
  <2> QED BY <2>1, <2>2
<1>8. ASSUME NEW i \in Nat, i \in S
      PROVE  i + 1 \in S
  <2> SUFFICES ASSUME k + (i + 1) <= n PROVE Extends(k + (i + 1))
    <3> HIDE DEF Extends
    <3> QED OBVIOUS
  <2>1. k + i \in Nat /\ k + i < Len(seqs) /\ k + i + 1 = k + (i + 1) /\ k + i + 1 \in 1..n
    BY <1>1
  <2>2. PICK rest \in Seq(Byte) : f[k + i] = f[k] \o rest
    <3>1. Extends(k + i)
      <4> HIDE DEF Extends
      <4> QED BY <1>1, <1>8, <2>1
    <3> QED BY <3>1
  <2>3. f[k + (i + 1)] = f[k + i] \o seqs[k + i + 1]
    BY <1>3, <2>1 DEF IsJoined
  <2>4. seqs[k + i + 1] \in Seq(Byte) /\ f[k] \in Seq(Byte)
    BY <1>1, <1>6, <2>1
  <2>5. /\ rest \o seqs[k + i + 1] \in Seq(Byte)
        /\ (f[k] \o rest) \o seqs[k + i + 1] = f[k] \o (rest \o seqs[k + i + 1])
    BY <2>4, Concatenation
  <2> QED BY <2>2, <2>3, <2>5
<1> HIDE DEF S
<1>9. Nat \subseteq S
  BY <1>7, <1>8, SetInduction
<1>10. n - k \in S /\ k + (n - k) = n
  BY <1>1, <1>9
<1>11. Extends(n)
  <2> HIDE DEF Extends
  <2> QED BY <1>1, <1>10 DEF S
<1> QED BY <1>5, <1>11 DEF head
-----------------------------------------------------------------------------
(* Frames. *)

LEMMA SpanIs ==
  ASSUME NEW s \in Seq(Byte), NEW B, NEW k \in 0..Len(s),
         \A j \in 1..k : s[j] \in B, k < Len(s) => s[k + 1] \notin B
  PROVE  Span(s, B) = k
<1> DEFINE I == {i \in 1..Len(s) : \A j \in 1..i : s[j] \in B}
<1>1. Len(s) \in Nat /\ k \in Nat
  OBVIOUS
<1>2. I = 1..k
  <2>1. ASSUME NEW i \in I
        PROVE  i \in 1..k
    <3>1. i \in 1..Len(s) /\ \A j \in 1..i : s[j] \in B
      OBVIOUS
    <3>2. CASE i > k
      <4>1. k < Len(s) /\ k + 1 \in 1..i
        BY <1>1, <3>1, <3>2
      <4> QED BY <3>1, <4>1
    <3> QED BY <1>1, <3>1, <3>2
  <2>2. ASSUME NEW i \in 1..k
        PROVE  i \in I
    <3>1. i \in 1..Len(s) /\ \A j \in 1..i : j \in 1..k
      BY <1>1
    <3> QED BY <3>1
  <2> HIDE DEF I
  <2> QED BY <2>1, <2>2
<1>3. Cardinality(1..k) = k
  <2>1. \A n \in Nat : Cardinality(1..n) = n
    <3> TAKE n \in Nat
    <3>1. Cardinality(1..n) = IF 1 > n THEN 0 ELSE n - 1 + 1
      BY FS_Interval
    <3> QED BY <3>1
  <2> QED BY <1>1, <2>1
<1> QED BY <1>2, <1>3 DEF Span

\* A message on the wire is its length's digits, a space and its bytes.
LEMMA OnWireProperties ==
  ASSUME NEW m \in Seq(Byte)
  PROVE  /\ Decimal[Len(m)] \in Seq(Digits) /\ Decimal[Len(m)] \in Seq(Byte)
         /\ OnWire(m) \in Seq(Byte)
         /\ Len(OnWire(m)) = Len(Decimal[Len(m)]) + 1 + Len(m)
         /\ \A i \in 1..Len(Decimal[Len(m)]) : OnWire(m)[i] = Decimal[Len(m)][i]
         /\ OnWire(m)[Len(Decimal[Len(m)]) + 1] = Space
         /\ \A i \in 1..Len(m) : OnWire(m)[Len(Decimal[Len(m)]) + 1 + i] = m[i]
<1> DEFINE d == Decimal[Len(m)]
           sp == <<Space>>
<1>1. d \in Seq(Digits)
  <2>1. Len(m) \in Nat
    OBVIOUS
  <2> QED BY <2>1, DecimalProperties
<1>2. d \in Seq(Byte)
  <2>1. Digits \subseteq Byte
    BY DEF Digits, Byte
  <2> HIDE DEF d
  <2> QED BY <1>1, <2>1, SeqMonotonic
<1>3. sp \in Seq(Byte) /\ Len(sp) = 1 /\ sp[1] = Space
  BY DEF Space, Byte
<1> HIDE DEF d, sp
<1>4. Len(d) \in Nat /\ Len(m) \in Nat
  BY <1>2
<1>5. /\ d \o sp \in Seq(Byte) /\ Len(d \o sp) = Len(d) + 1
      /\ \A i \in 1..Len(d) + 1 : (d \o sp)[i] = IF i <= Len(d) THEN d[i] ELSE sp[i - Len(d)]
  <2>1. /\ d \o sp \in Seq(Byte) /\ Len(d \o sp) = Len(d) + Len(sp)
        /\ \A i \in 1..Len(d) + Len(sp) : (d \o sp)[i] = IF i <= Len(d) THEN d[i] ELSE sp[i - Len(d)]
    BY <1>2, <1>3, ConcatProperties
  <2> QED BY <1>3, <2>1
<1> DEFINE w == (d \o sp) \o m
<1>6. /\ w \in Seq(Byte) /\ Len(w) = Len(d) + 1 + Len(m)
      /\ \A i \in 1..Len(d) + 1 + Len(m) :
           w[i] = IF i <= Len(d) + 1 THEN (d \o sp)[i] ELSE m[i - (Len(d) + 1)]
  <2>1. /\ w \in Seq(Byte) /\ Len(w) = Len(d \o sp) + Len(m)
        /\ \A i \in 1..Len(d \o sp) + Len(m) :
             w[i] = IF i <= Len(d \o sp) THEN (d \o sp)[i] ELSE m[i - Len(d \o sp)]
    BY <1>5, ConcatProperties
  <2> HIDE DEF w
  <2> QED BY <1>5, <2>1
<1>7. OnWire(m) = w
  <2>1. OnWire(m) = d \o sp \o m
    BY DEF OnWire, d, sp
  <2> QED BY <2>1
<1> HIDE DEF w
<1>8. \A i \in 1..Len(d) : w[i] = d[i]
  <2> TAKE i \in 1..Len(d)
  <2>1. i \in 1..Len(d) + 1 + Len(m) /\ i \in 1..Len(d) + 1 /\ i <= Len(d) /\ i <= Len(d) + 1
    BY <1>4
  <2> QED BY <1>5, <1>6, <2>1
<1>9. w[Len(d) + 1] = Space
  <2>1. PICK i \in 1..Len(d) + 1 : i = Len(d) + 1
    BY <1>4
  <2>2. i \in 1..Len(d) + 1 + Len(m) /\ ~(i <= Len(d)) /\ i <= Len(d) + 1 /\ i - Len(d) = 1
    BY <1>4, <2>1
  <2> QED BY <1>3, <1>5, <1>6, <2>1, <2>2
<1>10. \A i \in 1..Len(m) : w[Len(d) + 1 + i] = m[i]
  <2> TAKE i \in 1..Len(m)
  <2>1. PICK j \in 1..Len(d) + 1 + Len(m) : j = Len(d) + 1 + i
    BY <1>4
  <2>2. ~(j <= Len(d) + 1) /\ j - (Len(d) + 1) = i
    BY <1>4, <2>1
  <2> QED BY <1>6, <2>1, <2>2
<1> QED BY <1>1, <1>2, <1>6, <1>7, <1>8, <1>9, <1>10 DEF d

\* What peekIntWithLength makes of the first bytes of a message: its length, or
\* that the message is not there as a whole.
LEMMA HeadOfMessage ==
  ASSUME NEW m \in Seq(Byte), NEW b \in Seq(Byte), NEW garbage,
         \A i \in 1..Len(b) : i <= Len(OnWire(m)) => b[i] = OnWire(m)[i]
  PROVE  LET head == PeekIntWithLength(b, garbage) IN
         /\ Len(b) >= Len(OnWire(m)) =>
              head.ok /\ head.value = Len(m) /\ head.length = Len(Decimal[Len(m)])
         /\ Len(b) < Len(OnWire(m)) => ~(head.ok /\ Len(b) >= head.length + 1 + head.value)
<1> DEFINE d == Decimal[Len(m)]
           w == OnWire(m)
           head == PeekIntWithLength(b, garbage)
<1>1. /\ d \in Seq(Digits) /\ d \in Seq(Byte) /\ w \in Seq(Byte)
      /\ Len(w) = Len(d) + 1 + Len(m)
      /\ \A i \in 1..Len(d) : w[i] = d[i]
      /\ w[Len(d) + 1] = Space
  BY OnWireProperties
<1>2. Len(d) \in Nat /\ Len(m) \in Nat /\ Len(b) \in Nat
  BY <1>1
<1>3. \A i \in 1..Len(d) : d[i] \in Digits
  BY <1>1, ElementOfSeq
<1>4. Space \notin Digits
  BY DEF Space, Digits
<1>5. /\ head.ok = (Space = (IF b = <<>> THEN garbage
                             ELSE b[AtMost(Len(LeadingDigits(b)) + 1, Len(b))]))
      /\ head.value = Number(LeadingDigits(b))
      /\ head.length = Len(LeadingDigits(b))
  BY DEF PeekIntWithLength
<1>6. LeadingDigits(b) = Take(b, Span(b, Digits))
  BY DEF LeadingDigits
<1> HIDE DEF d, w, head
<1>7. CASE Len(b) > Len(d)
  <2>1. \A i \in 1..Len(d) : b[i] = d[i]
    <3> TAKE i \in 1..Len(d)
    <3>1. i \in 1..Len(b) /\ i <= Len(w)
      BY <1>1, <1>2, <1>7
    <3> QED BY <1>1, <3>1 DEF w
  <2>2. b[Len(d) + 1] = Space
    <3>1. Len(d) + 1 \in 1..Len(b) /\ Len(d) + 1 <= Len(w)
      BY <1>1, <1>2, <1>7
    <3> QED BY <1>1, <3>1 DEF w
  <2>3. Span(b, Digits) = Len(d)
    <3>1. Len(d) \in 0..Len(b) /\ \A j \in 1..Len(d) : b[j] \in Digits
      BY <1>2, <1>3, <1>7, <2>1
    <3> QED BY <1>4, <2>2, <3>1, SpanIs
  <2>4. Take(b, Len(d)) = d
    <3>1. /\ Take(b, Len(d)) \in Seq(Byte) /\ Len(Take(b, Len(d))) = Len(d)
          /\ \A i \in 1..Len(d) : Take(b, Len(d))[i] = b[i]
      <4>1. AtMost(Len(d), Len(b)) = Len(d)
        BY <1>2, <1>7 DEF AtMost
      <4>2. \A i \in 1..Len(d) : b[i] \in Byte
        BY <1>2, <1>7
      <4>3. /\ SubSeq(b, 1, Len(d)) \in Seq(Byte)
            /\ Len(SubSeq(b, 1, Len(d))) = IF 1 <= Len(d) THEN Len(d) - 1 + 1 ELSE 0
            /\ \A i \in 1..Len(d) - 1 + 1 : SubSeq(b, 1, Len(d))[i] = b[1 + i - 1]
        BY <1>2, <4>2, SubSeqProperties
      <4> QED BY <1>2, <4>1, <4>3 DEF Take
    <3> QED BY <1>1, <2>1, <3>1, SeqEqual
  <2>5. head.value = Len(m) /\ head.length = Len(d)
    <3>1. Number(d) = Len(m)
      BY <1>2, NumberOfDecimal DEF d
    <3> QED BY <1>5, <1>6, <2>3, <2>4, <3>1
  <2>6. head.ok
    <3>1. b # <<>> /\ AtMost(Len(d) + 1, Len(b)) = Len(d) + 1
      BY <1>2, <1>7 DEF AtMost
    <3>2. Len(LeadingDigits(b)) = Len(d)
      BY <1>5, <2>5
    <3> QED BY <1>5, <2>2, <3>1, <3>2
  <2>7. Len(b) < Len(w) => ~(Len(b) >= head.length + 1 + head.value)
    BY <1>1, <1>2, <2>5
  <2> QED BY <2>5, <2>6, <2>7 DEF d, w, head
<1>8. CASE Len(b) <= Len(d) /\ b # <<>>
  <2>1. \A i \in 1..Len(b) : b[i] = d[i] /\ b[i] \in Digits
    <3> TAKE i \in 1..Len(b)
    <3>1. i \in 1..Len(d) /\ i <= Len(w)
      BY <1>1, <1>2, <1>8
    <3> QED BY <1>1, <1>3, <3>1 DEF w
  <2>2. Span(b, Digits) = Len(b)
    <3>1. Len(b) \in 0..Len(b) /\ ~(Len(b) < Len(b))
      BY <1>2
    <3> QED BY <2>1, <3>1, SpanIs
  <2>3. Take(b, Len(b)) = b
    BY <1>2, TakeProperties
  <2>4. Len(b) \in 1..Len(b) /\ AtMost(Len(b) + 1, Len(b)) = Len(b)
    BY <1>2, <1>8 DEF AtMost
  <2>5. LeadingDigits(b) = b
    BY <1>6, <2>2, <2>3
  <2>6. ~head.ok
    <3>1. b[Len(b)] \in Digits
      BY <2>1, <2>4
    <3> QED BY <1>4, <1>5, <1>8, <2>4, <2>5, <3>1
  <2>7. ~(Len(b) >= Len(w))
    BY <1>1, <1>2, <1>8
  <2> QED BY <2>6, <2>7 DEF d, w, head
<1>9. CASE b = <<>>
  <2>1. Len(b) = 0
    BY <1>9
  <2>2. Span(b, Digits) = 0
    <3>1. 0 \in 0..Len(b) /\ ~(0 < Len(b)) /\ \A j \in 1..0 : b[j] \in Digits
      BY <2>1
    <3> QED BY <3>1, SpanIs
  <2>3. LeadingDigits(b) = <<>>
    <3>1. Take(b, Len(b)) = b
      BY <1>2, TakeProperties
    <3> QED BY <1>6, <1>9, <2>1, <2>2, <3>1
  <2>4. head.value = 0 /\ head.length = 0
    BY <1>5, <2>3, NumberProperties
  <2>5. ~(Len(b) >= head.length + 1 + head.value) /\ ~(Len(b) >= Len(w))
    BY <1>1, <1>2, <2>1, <2>4
  <2> QED BY <2>5 DEF d, w, head
<1> QED BY <1>2, <1>7, <1>8, <1>9

-----------------------------------------------------------------------------
(* C strings and the wire. *)

LEMMA SpanExists ==
  ASSUME NEW s \in Seq(Byte), NEW B
  PROVE  /\ Span(s, B) \in 0..Len(s)
         /\ \A j \in 1..Span(s, B) : s[j] \in B
<1>1. Len(s) \in Nat
  OBVIOUS
<1>2. CASE \A j \in 1..Len(s) : s[j] \in B
  <2>1. Len(s) \in 0..Len(s) /\ ~(Len(s) < Len(s))
    BY <1>1
  <2>2. Span(s, B) = Len(s)
    BY <1>2, <2>1, SpanIs
  <2> QED BY <1>2, <2>1, <2>2
<1>3. CASE \E j \in 1..Len(s) : s[j] \notin B
  <2> DEFINE T == {j \in 1..Len(s) : s[j] \notin B}
  <2>1. T \subseteq Nat /\ T # {}
    BY <1>1, <1>3
  <2>2. PICK x \in T : \A y \in T : x <= y
    <3> HIDE DEF T
    <3> QED BY <2>1, LeastNat
  <2>3. x - 1 \in 0..Len(s) /\ x - 1 + 1 = x /\ s[x] \notin B
    BY <1>1, <2>2
  <2>4. \A j \in 1..x - 1 : s[j] \in B
    BY <1>1, <2>2, <2>3
  <2>5. PICK k \in 0..Len(s) : k = x - 1
    BY <2>3
  <2>6. s[k + 1] \notin B /\ \A j \in 1..k : s[j] \in B
    BY <2>3, <2>4, <2>5
  <2>7. Span(s, B) = k
    BY <2>6, SpanIs
  <2> QED BY <2>6, <2>7
<1> QED BY <1>2, <1>3

LEMMA CStringProperties ==
  ASSUME NEW s \in Seq(Byte)
  PROVE  /\ AsCString(s) \in Seq(Byte)
         /\ ~HasNul(AsCString(s))
         /\ ~HasNul(s) => AsCString(s) = s
<1> DEFINE k == Span(s, Byte \ {Nul})
<1>1. k \in 0..Len(s) /\ \A j \in 1..k : s[j] \in Byte \ {Nul}
  BY SpanExists
<1>2. AsCString(s) = Take(s, k)
  BY DEF AsCString
<1>3. ~HasNul(s) => k = Len(s)
  <2> SUFFICES ASSUME ~HasNul(s) PROVE k = Len(s)
    OBVIOUS
  <2>1. \A j \in 1..Len(s) : s[j] \in Byte \ {Nul}
    BY DEF HasNul
  <2>2. Len(s) \in 0..Len(s) /\ ~(Len(s) < Len(s))
    OBVIOUS
  <2> QED BY <2>1, <2>2, SpanIs
<1> HIDE DEF k
<1>4. AtMost(k, Len(s)) = k /\ k \in Nat /\ Len(s) \in Nat
  BY <1>1 DEF AtMost
<1>5. /\ SubSeq(s, 1, k) \in Seq(Byte)
      /\ Len(SubSeq(s, 1, k)) = k
      /\ \A i \in 1..k : SubSeq(s, 1, k)[i] = s[i]
  <2>1. /\ SubSeq(s, 1, k) \in Seq(Byte)
        /\ Len(SubSeq(s, 1, k)) = IF 1 <= k THEN k - 1 + 1 ELSE 0
        /\ \A i \in 1..k - 1 + 1 : SubSeq(s, 1, k)[i] = s[1 + i - 1]
    BY <1>1, <1>4, SubSeqProperties
  <2> QED BY <1>4, <2>1
<1>6. AsCString(s) = SubSeq(s, 1, k)
  BY <1>2, <1>4 DEF Take
<1>7. ~HasNul(AsCString(s))
  BY <1>1, <1>5, <1>6 DEF HasNul
<1>8. SubSeq(s, 1, Len(s)) = s
  BY SubSeqFull
<1> QED BY <1>3, <1>5, <1>6, <1>7, <1>8

-----------------------------------------------------------------------------
(* The peer's messages on the wire. *)

LEMMA WireIsFlat ==
  ASSUME NEW h, h # "echo", NEW msgs \in Seq(Seq(Byte))
  PROVE  /\ [i \in DOMAIN msgs |-> OnWire(msgs[i])] \in Seq(Seq(Byte))
         /\ Wire(h, msgs) = FlattenSeq([i \in DOMAIN msgs |-> OnWire(msgs[i])])
<1> DEFINE frames == [i \in DOMAIN msgs |-> OnWire(msgs[i])]
<1>1. frames \in Seq(Seq(Byte))
  <2>1. DOMAIN msgs = 1..Len(msgs) /\ Len(msgs) \in Nat
    OBVIOUS
  <2>2. ASSUME NEW i \in 1..Len(msgs)
        PROVE  OnWire(msgs[i]) \in Seq(Byte)
    <3>1. msgs[i] \in Seq(Byte)
      BY ElementOfSeq
    <3> QED BY <3>1, OnWireProperties
  <2>3. frames = [i \in 1..Len(msgs) |-> frames[i]]
    BY <2>1
  <2>4. \A i \in 1..Len(msgs) : frames[i] \in Seq(Byte)
    BY <2>1, <2>2
  <2> HIDE DEF frames
  <2>5. frames \in [1..Len(msgs) -> Seq(Byte)]
    BY <2>3, <2>4
  <2> QED BY <2>1, <2>5, SeqDef
<1>2. Wire(h, msgs) = FlattenSeq(frames)
  BY DEF Wire
<1> QED BY <1>1, <1>2

LEMMA WireType ==
  ASSUME NEW h, NEW msgs \in Seq(Seq(Byte))
  PROVE  Wire(h, msgs) \in Seq(Byte)
<1>1. CASE h = "echo"
  <2>1. [i \in DOMAIN msgs |-> msgs[i]] = msgs
    OBVIOUS
  <2>2. Wire(h, msgs) = FlattenSeq(msgs)
    BY <1>1, <2>1 DEF Wire
  <2> QED BY <2>2, FlattenProperties
<1>2. CASE h # "echo"
  BY <1>2, WireIsFlat, FlattenProperties
<1> QED BY <1>1, <1>2

\* One message more.
LEMMA WireAppend ==
  ASSUME NEW h, h # "echo", NEW msgs \in Seq(Seq(Byte)), NEW m \in Seq(Byte)
  PROVE  Wire(h, Append(msgs, m)) = Wire(h, msgs) \o OnWire(m)
<1> DEFINE frames == [i \in DOMAIN msgs |-> OnWire(msgs[i])]
           more == Append(msgs, m)
           moreFrames == [i \in DOMAIN more |-> OnWire(more[i])]
<1>1. /\ more \in Seq(Seq(Byte)) /\ Len(more) = Len(msgs) + 1 /\ more[Len(msgs) + 1] = m
      /\ \A i \in 1..Len(msgs) : more[i] = msgs[i]
  BY AppendProperties
<1>2. /\ frames \in Seq(Seq(Byte)) /\ Wire(h, msgs) = FlattenSeq(frames)
      /\ moreFrames \in Seq(Seq(Byte)) /\ Wire(h, more) = FlattenSeq(moreFrames)
  <2>1. frames \in Seq(Seq(Byte)) /\ Wire(h, msgs) = FlattenSeq(frames)
    BY WireIsFlat
  <2>2. moreFrames \in Seq(Seq(Byte)) /\ Wire(h, more) = FlattenSeq(moreFrames)
    <3> HIDE DEF more
    <3> QED BY <1>1, WireIsFlat
  <2> QED BY <2>1, <2>2
<1>3. OnWire(m) \in Seq(Byte)
  BY OnWireProperties
<1>4. /\ Len(frames) = Len(msgs) /\ \A i \in 1..Len(msgs) : frames[i] = OnWire(msgs[i])
      /\ Len(moreFrames) = Len(msgs) + 1
      /\ \A i \in 1..Len(msgs) + 1 : moreFrames[i] = OnWire(more[i])
  BY <1>1
<1> HIDE DEF frames, moreFrames, more
<1>5. /\ Append(frames, OnWire(m)) \in Seq(Seq(Byte))
      /\ Len(Append(frames, OnWire(m))) = Len(msgs) + 1
      /\ \A i \in 1..Len(msgs) : Append(frames, OnWire(m))[i] = frames[i]
      /\ Append(frames, OnWire(m))[Len(msgs) + 1] = OnWire(m)
  BY <1>2, <1>3, <1>4, AppendProperties
<1>6. moreFrames = Append(frames, OnWire(m))
  <2>1. ASSUME NEW i \in 1..Len(msgs) + 1
        PROVE  moreFrames[i] = Append(frames, OnWire(m))[i]
    <3>1. i \in 1..Len(msgs) \/ i = Len(msgs) + 1
      OBVIOUS
    <3> QED BY <1>1, <1>4, <1>5, <3>1
  <2> QED BY <1>2, <1>4, <1>5, <2>1, SeqEqual
<1>7. FlattenSeq(Append(frames, OnWire(m))) = FlattenSeq(frames) \o OnWire(m)
  BY <1>2, <1>3, FlattenProperties
<1> QED BY <1>2, <1>6, <1>7 DEF more

\* The first so many messages are at the head of the wire.
LEMMA WirePrefix ==
  ASSUME NEW h, h # "echo", NEW msgs \in Seq(Seq(Byte)), NEW k \in 0..Len(msgs)
  PROVE  /\ SubSeq(msgs, 1, k) \in Seq(Seq(Byte)) /\ Len(SubSeq(msgs, 1, k)) = k
         /\ \E rest \in Seq(Byte) : Wire(h, msgs) = Wire(h, SubSeq(msgs, 1, k)) \o rest
         /\ k < Len(msgs) => SubSeq(msgs, 1, k + 1) = Append(SubSeq(msgs, 1, k), msgs[k + 1])
<1> DEFINE frames == [i \in DOMAIN msgs |-> OnWire(msgs[i])]
           head == SubSeq(msgs, 1, k)
           headFrames == [i \in DOMAIN head |-> OnWire(head[i])]
<1>1. Len(msgs) \in Nat /\ k \in Nat /\ k <= Len(msgs) /\ DOMAIN msgs = 1..Len(msgs)
  OBVIOUS
<1>2. head \in Seq(Seq(Byte)) /\ Len(head) = k /\ \A i \in 1..k : head[i] = msgs[i]
  <2>1. \A i \in 1..k : msgs[i] \in Seq(Byte)
    BY <1>1
  <2>2. /\ head \in Seq(Seq(Byte)) /\ Len(head) = IF 1 <= k THEN k - 1 + 1 ELSE 0
        /\ \A i \in 1..k - 1 + 1 : head[i] = msgs[1 + i - 1]
    BY <1>1, <2>1, SubSeqProperties
  <2> QED BY <1>1, <2>2
<1> HIDE DEF head
<1>3. /\ frames \in Seq(Seq(Byte)) /\ Wire(h, msgs) = FlattenSeq(frames)
      /\ headFrames \in Seq(Seq(Byte)) /\ Wire(h, head) = FlattenSeq(headFrames)
  <2>1. frames \in Seq(Seq(Byte)) /\ Wire(h, msgs) = FlattenSeq(frames)
    BY WireIsFlat
  <2>2. headFrames \in Seq(Seq(Byte)) /\ Wire(h, head) = FlattenSeq(headFrames)
    BY <1>2, WireIsFlat
  <2> QED BY <2>1, <2>2
<1>4. /\ Len(frames) = Len(msgs) /\ \A i \in 1..Len(msgs) : frames[i] = OnWire(msgs[i])
      /\ Len(headFrames) = k /\ \A i \in 1..k : headFrames[i] = OnWire(head[i])
  BY <1>1, <1>2
<1> HIDE DEF frames, headFrames
<1>5. headFrames = SubSeq(frames, 1, k)
  <2>1. \A i \in 1..k : frames[i] \in Seq(Byte)
    BY <1>1, <1>3, <1>4
  <2>2. /\ SubSeq(frames, 1, k) \in Seq(Seq(Byte))
        /\ Len(SubSeq(frames, 1, k)) = IF 1 <= k THEN k - 1 + 1 ELSE 0
        /\ \A i \in 1..k - 1 + 1 : SubSeq(frames, 1, k)[i] = frames[1 + i - 1]
    BY <1>1, <2>1, SubSeqProperties
  <2>3. Len(SubSeq(frames, 1, k)) = k /\ \A i \in 1..k : SubSeq(frames, 1, k)[i] = frames[i]
    BY <1>1, <2>2
  <2>4. \A i \in 1..k : frames[i] = OnWire(msgs[i]) /\ head[i] = msgs[i]
    BY <1>1, <1>2, <1>4
  <2> QED BY <1>3, <1>4, <2>2, <2>3, <2>4, SeqEqual
<1>6. \E rest \in Seq(Byte) : FlattenSeq(frames) = FlattenSeq(SubSeq(frames, 1, k)) \o rest
  <2>1. k \in 0..Len(frames)
    BY <1>4
  <2> QED BY <1>3, <2>1, FlattenPrefix
<1>7. k < Len(msgs) => SubSeq(msgs, 1, k + 1) = Append(head, msgs[k + 1])
  <2> SUFFICES ASSUME k < Len(msgs) PROVE SubSeq(msgs, 1, k + 1) = Append(head, msgs[k + 1])
    OBVIOUS
  <2>1. k + 1 \in 1..Len(msgs) /\ 1 \in 1..Len(msgs) /\ k + 1 - 1 = k
    BY <1>1
  <2>2. SubSeq(msgs, 1, k + 1) = SubSeq(msgs, 1, k) \o <<msgs[k + 1]>>
    <3>1. PICK n \in 1..Len(msgs) : n = k + 1
      BY <2>1
    <3>2. SubSeq(msgs, 1, n) = SubSeq(msgs, 1, n - 1) \o <<msgs[n]>>
      BY <2>1, SubSeqRecursiveSecond
    <3> QED BY <2>1, <3>1, <3>2
  <2>3. msgs[k + 1] \in Seq(Byte)
    BY <2>1
  <2>4. Append(head, msgs[k + 1]) = head \o <<msgs[k + 1]>>
    BY <1>2, <2>3, AppendIsConcat
  <2> QED BY <2>2, <2>4 DEF head
<1> QED BY <1>2, <1>3, <1>5, <1>6, <1>7 DEF head
-----------------------------------------------------------------------------
(* The inductive invariant. *)

\* With the echo, the bytes the server has read are on their way back in order.
EchoedInv ==
  ~HasNul(stream) /\ ~reported /\ pushes = 0
    => Output \o readBuffer = SubSeq(stream, 1, taken)

\* The echo leaves nothing behind, so that there is always space to read into.
EmptiedInv ==
  /\ process = "running"
  /\ pc # "message" => readBuffer = <<>>

EchoInv == handler = "echo" => EchoedInv /\ EmptiedInv

\* Between epoll_wait and the end of the handling, an event that has not been acted
\* on yet stands for the bytes that are there.
EdgeInv ==
  /\ pc = "readable" => event.in \/ (taken < sent => ready \/ filled)
  /\ pc \in {"message", "writable", "poll"} => (taken < sent => ready \/ filled)
  /\ pc \in {"readable", "message", "writable"} => event.out \/ noSpace \/ ready
  /\ pc = "poll" => (writeBuffer # <<>> => ready \/ noSpace \/ pushed)

\* What the callback is given for a message.
AsGiven(m) == IF handler = "chars" THEN m ELSE AsCString(m)

\* The read buffer begins where a message does.
AlignedInv ==
  /\ stream = Wire(handler, messages)
  /\ Len(received) <= Len(messages)
  /\ \A i \in 1..Len(received) : received[i] = AsGiven(messages[i])
  /\ Wire(handler, SubSeq(messages, 1, Len(received))) \o readBuffer = SubSeq(stream, 1, taken)

\* The callback has taken all it could, unless it took an empty message for the end.
Waiting ==
  \/ \E i \in DOMAIN received : received[i] = <<>>
  \/ Len(received) = Len(messages)
  \/ Len(readBuffer) < Len(OnWire(messages[Len(received) + 1]))

WaitingInv == pc \in {"poll", "readable", "writable"} => Waiting

ExitInv == process = "exited" => pc = "readable" /\ Len(readBuffer) = ReadMax

AnsweredInv ==
  ~reported /\ pushes = 0 /\ (handler = "chars" => ~HasNul(stream)) => Output = Framed(received)

FramedInv == handler # "echo" => AlignedInv /\ WaitingInv /\ ExitInv /\ AnsweredInv

ConnectionInv == TypeOK /\ EdgeInv /\ EchoInv /\ FramedInv

-----------------------------------------------------------------------------
(* The parts that several actions share. *)

\* Steps of the peer and the kernel, and those of the worker that leave the bytes
\* that went through the connection as they are.
LEMMA QuietSteps ==
  ASSUME EchoInv, FramedInv,
         UNCHANGED <<handler, messages, stream, taken, readBuffer, reported, pushes, received,
                     process>>,
         Output' = Output,
         \/ pc' = pc
         \/ process = "running" /\ pc = "poll" /\ pc' = "readable"
         \/ process = "running" /\ pc = "writable" /\ pc' \in {"poll", "removed"}
  PROVE  EchoInv' /\ FramedInv'
<1>1. EchoInv'
  BY DEF EchoInv, EchoedInv, EmptiedInv
<1>2. handler # "echo" => AlignedInv' /\ AnsweredInv'
  BY DEF FramedInv, AlignedInv, AnsweredInv, AsGiven
<1>3. handler # "echo" => WaitingInv'
  <2>1. Waiting => Waiting'
    BY DEF Waiting
  <2> QED BY <2>1 DEF FramedInv, WaitingInv
<1>4. handler # "echo" => ExitInv'
  BY DEF FramedInv, ExitInv
<1> QED BY <1>1, <1>2, <1>3, <1>4 DEF FramedInv

\* What SendRaw does to the types; and nothing is cut off without a report.
LEMMA SendRawProperties ==
  ASSUME TypeOK, NEW s \in Seq(Byte), SendRaw(s)
  PROVE  /\ writeBuffer' \in Seq(Byte) /\ Len(writeBuffer') <= WriteMax
         /\ reported' \in BOOLEAN
         /\ ~reported' => ~reported /\ writeBuffer' = writeBuffer \o s
<1> DEFINE space == SpaceIn(writeBuffer, WriteMax)
<1>1. space \in Nat /\ space = WriteMax - Len(writeBuffer) /\ Len(writeBuffer) \in Nat
  BY Sizes DEF TypeOK, SpaceIn
<1>2. Take(s, space) \in Seq(Byte) /\ Len(Take(s, space)) <= space
  <2> HIDE DEF space
  <2>1. Take(s, space) \in Seq(Byte) /\ Len(Take(s, space)) = AtMost(space, Len(s))
    BY <1>1, TakeProperties
  <2> QED BY <1>1, <2>1 DEF AtMost
<1>3. writeBuffer \in Seq(Byte)
  BY DEF TypeOK
<1>4. /\ writeBuffer \o Take(s, space) \in Seq(Byte)
      /\ Len(writeBuffer \o Take(s, space)) = Len(writeBuffer) + Len(Take(s, space))
  <2> HIDE DEF space
  <2> QED BY <1>2, <1>3, ConcatProperties
<1>5. Len(s) <= space => Take(s, space) = s
  <2> HIDE DEF space
  <2> QED BY <1>1, TakeProperties
<1>6. Len(s) \in Nat /\ Len(Take(s, space)) \in Nat
  BY <1>2
<1>7. /\ writeBuffer' = writeBuffer \o Take(s, space)
      /\ reported' = (reported \/ space < Len(s))
  BY DEF SendRaw
<1>8. reported' \in BOOLEAN /\ (~reported' => ~reported /\ ~(space < Len(s)))
  BY <1>7 DEF TypeOK
<1>9. ~(space < Len(s)) => Len(s) <= space
  BY <1>1, <1>6
<1>10. Len(writeBuffer') <= WriteMax
  <2> HIDE DEF space
  <2>1. Len(Take(s, space)) <= WriteMax - Len(writeBuffer)
    BY <1>1, <1>2
  <2> QED BY <1>1, <1>4, <1>6, <1>7, <2>1, Sizes
<1> QED BY <1>4, <1>5, <1>7, <1>8, <1>9, <1>10

\* What is sent is at the end of the output.
LEMMA SentIsOutput ==
  ASSUME TypeOK, NEW s \in Seq(Byte), SendRaw(s), ~reported', UNCHANGED <<delivered, outbound>>
  PROVE  ~reported /\ Output \in Seq(Byte) /\ Output' = Output \o s
<1>1. writeBuffer \in Seq(Byte) /\ delivered \in Seq(Byte) /\ outbound \in Seq(Byte)
  BY DEF TypeOK
<1>2. ~reported /\ writeBuffer' = writeBuffer \o s
  BY SendRawProperties
<1>3. delivered \o outbound \in Seq(Byte) /\ Output \in Seq(Byte)
  BY <1>1, Concatenation DEF Output
<1>4. (delivered \o outbound) \o (writeBuffer \o s) = ((delivered \o outbound) \o writeBuffer) \o s
  BY <1>1, <1>3, Concatenation
<1> QED BY <1>2, <1>3, <1>4 DEF Output

\* Moving the head of one queue to the end of another keeps their concatenation.
LEMMA MovingBytes ==
  ASSUME NEW a \in Seq(Byte), NEW b \in Seq(Byte), NEW n \in Nat
  PROVE  /\ a \o Take(b, n) \in Seq(Byte)
         /\ Len(a \o Take(b, n)) = Len(a) + AtMost(n, Len(b))
         /\ (a \o Take(b, n)) \o Drop(b, n) = a \o b
<1>1. /\ Take(b, n) \in Seq(Byte) /\ Drop(b, n) \in Seq(Byte)
      /\ Len(Take(b, n)) = AtMost(n, Len(b)) /\ Take(b, n) \o Drop(b, n) = b
  BY TakeProperties
<1>2. (a \o Take(b, n)) \o Drop(b, n) = a \o (Take(b, n) \o Drop(b, n))
  BY <1>1, Concatenation
<1>3. /\ a \o Take(b, n) \in Seq(Byte)
      /\ Len(a \o Take(b, n)) = Len(a) + Len(Take(b, n))
  BY <1>1, Concatenation
<1> QED BY <1>1, <1>2, <1>3

\* What the read buffer holds is in the stream, after what was taken out of it.
LEMMA ReadIsStream ==
  ASSUME TypeOK, NEW out \in Seq(Byte), out \o readBuffer = SubSeq(stream, 1, taken)
  PROVE  /\ Len(out) + Len(readBuffer) = taken
         /\ \A i \in 1..Len(readBuffer) :
              Len(out) + i \in 1..Len(stream) /\ readBuffer[i] = stream[Len(out) + i]
<1>1. /\ stream \in Seq(Byte) /\ readBuffer \in Seq(Byte)
      /\ taken \in Nat /\ taken <= Len(stream) /\ Len(stream) \in Nat
      /\ Len(out) \in Nat /\ Len(readBuffer) \in Nat
  BY DEF TypeOK
<1>2. /\ Len(out \o readBuffer) = Len(out) + Len(readBuffer)
      /\ \A i \in 1..Len(out) + Len(readBuffer) : (out \o readBuffer)[i] =
           IF i <= Len(out) THEN out[i] ELSE readBuffer[i - Len(out)]
  BY <1>1, ConcatProperties
<1>3. /\ Len(SubSeq(stream, 1, taken)) = taken
      /\ \A j \in 1..taken : SubSeq(stream, 1, taken)[j] = stream[j]
  <2>1. \A j \in 1..taken : stream[j] \in Byte
    BY <1>1
  <2>2. /\ Len(SubSeq(stream, 1, taken)) = IF 1 <= taken THEN taken - 1 + 1 ELSE 0
        /\ \A j \in 1..taken - 1 + 1 : SubSeq(stream, 1, taken)[j] = stream[1 + j - 1]
    BY <1>1, <2>1, SubSeqProperties
  <2> QED BY <1>1, <2>2
<1>4. Len(out) + Len(readBuffer) = taken
  BY <1>2, <1>3
<1>5. ASSUME NEW i \in 1..Len(readBuffer)
      PROVE  Len(out) + i \in 1..Len(stream) /\ readBuffer[i] = stream[Len(out) + i]
  <2>1. PICK j \in 1..taken : j = Len(out) + i
    BY <1>1, <1>4
  <2>2. j \in 1..Len(out) + Len(readBuffer) /\ ~(j <= Len(out)) /\ j - Len(out) = i
    BY <1>1, <1>4, <2>1
  <2>3. (out \o readBuffer)[j] = readBuffer[i]
    BY <1>2, <2>2
  <2>4. j \in 1..Len(stream) /\ SubSeq(stream, 1, taken)[j] = stream[j]
    BY <1>1, <1>3, <2>1
  <2> QED BY <2>1, <2>3, <2>4
<1> QED BY <1>4, <1>5

\* One run of the loop of read calls.
LEMMA ReadProperties ==
  ASSUME TypeOK, OnReadableEvent
  PROVE  /\ readBuffer' \in Seq(Byte) /\ Len(readBuffer') <= ReadMax
         /\ taken' \in taken..sent
         /\ closed' \in BOOLEAN /\ filled' \in BOOLEAN
         /\ \/ ~event.in /\ pc' = "writable"
               /\ UNCHANGED <<taken, readBuffer, closed, filled, process>>
            \/ event.in /\ pc' = "readable" /\ process' = "exited" /\ Len(readBuffer) = ReadMax
               /\ UNCHANGED <<taken, readBuffer, closed, filled>>
            \/ event.in /\ pc' = "writable" /\ UNCHANGED <<taken, readBuffer, process>>
               /\ (taken' < sent => filled')
            \/ event.in /\ pc' = "message" /\ UNCHANGED process /\ (taken' < sent => filled')
         /\ \A out \in Seq(Byte) : out \o readBuffer = SubSeq(stream, 1, taken)
              => out \o readBuffer' = SubSeq(stream, 1, taken')
<1> DEFINE space == SpaceIn(readBuffer, ReadMax)
           n == BytesRead(space)
           got == SubSeq(stream, taken + 1, taken + n)
<1>1. /\ pc = "readable" /\ readBuffer \in Seq(Byte) /\ Len(readBuffer) \in Nat
      /\ Len(readBuffer) <= ReadMax /\ ReadMax \in Nat
      /\ stream \in Seq(Byte) /\ Len(stream) \in Nat
      /\ taken \in Nat /\ sent \in Nat /\ taken <= sent /\ sent <= Len(stream)
      /\ closed \in BOOLEAN /\ filled \in BOOLEAN
      /\ space = ReadMax - Len(readBuffer)
  BY Sizes DEF TypeOK, OnReadableEvent, SpaceIn
<1>2. taken \in taken..sent
  BY <1>1
<1>3. CASE ~event.in
  <2>1. pc' = "writable" /\ UNCHANGED <<taken, readBuffer, closed, process, filled>>
    BY <1>3 DEF OnReadableEvent
  <2> QED BY <1>1, <1>2, <1>3, <2>1
<1>4. CASE event.in /\ space <= 0
  <2>1. /\ process' = "exited" /\ UNCHANGED <<pc, taken, readBuffer, closed, filled>>
    BY <1>4 DEF OnReadableEvent
  <2>2. Len(readBuffer) = ReadMax
    BY <1>1, <1>4
  <2> QED BY <1>1, <1>2, <1>4, <2>1, <2>2
<1>5. CASE event.in /\ ~(space <= 0)
  <2>1. /\ readBuffer' = readBuffer \o got
        /\ taken' = taken + n
        /\ filled' = (n = space)
        /\ closed' = (n = 0)
        /\ pc' = IF n = 0 THEN "writable" ELSE "message"
        /\ process' = process
    BY <1>5 DEF OnReadableEvent
  <2>2. /\ space \in Nat /\ n \in Nat /\ n <= space /\ taken + n <= sent
        /\ n = space \/ taken + n = sent
    BY <1>1, <1>5 DEF BytesRead, AtMost
  <2>3. got \in Seq(Byte) /\ Len(got) = n
    <3> HIDE DEF n
    <3>1. \A i \in taken + 1..taken + n : stream[i] \in Byte
      BY <1>1, <2>2
    <3>2. /\ got \in Seq(Byte)
          /\ Len(got) = IF taken + 1 <= taken + n THEN taken + n - (taken + 1) + 1 ELSE 0
      BY <1>1, <2>2, <3>1, SubSeqProperties
    <3> QED BY <1>1, <2>2, <3>2
  <2> HIDE DEF n, space
  <2>4. /\ readBuffer' \in Seq(Byte) /\ Len(readBuffer') = Len(readBuffer) + n
    BY <1>1, <2>1, <2>3, Concatenation
  <2>5. Len(readBuffer') <= ReadMax /\ taken' \in taken..sent
    BY <1>1, <2>1, <2>2, <2>4
  <2>6. taken' < sent => filled'
    <3>1. taken' = taken + n /\ (filled' <=> n = space)
      BY <2>1
    <3>2. taken + n < sent => n = space
      BY <1>1, <2>2
    <3> QED BY <3>1, <3>2
  <2>7. n = 0 => UNCHANGED <<taken, readBuffer>>
    <3>1. n = 0 => got = <<>>
      BY <2>3
    <3> HIDE DEF got
    <3> QED BY <1>1, <2>1, <3>1, Concatenation
  <2>8. ASSUME NEW out \in Seq(Byte), out \o readBuffer = SubSeq(stream, 1, taken)
        PROVE  out \o readBuffer' = SubSeq(stream, 1, taken')
    <3>1. SubSeq(stream, 1, taken) \o got = SubSeq(stream, 1, taken + n)
      <4>1. 1 \in 1..Len(stream) + 1 /\ taken \in 1 - 1..Len(stream) /\ taken + n \in taken..Len(stream)
        BY <1>1, <2>2
      <4> QED BY <1>1, <4>1, ConcatAdjacentSubSeq
    <3> HIDE DEF got
    <3>2. (out \o readBuffer) \o got = out \o (readBuffer \o got)
      BY <1>1, <2>3, Concatenation
    <3> QED BY <2>1, <2>8, <3>1, <3>2
  <2>9. closed' \in BOOLEAN /\ filled' \in BOOLEAN
    BY <2>1
  <2> QED BY <1>5, <2>1, <2>4, <2>5, <2>6, <2>7, <2>8, <2>9
<1> QED BY <1>3, <1>4, <1>5
-----------------------------------------------------------------------------
(* The messages that are still to be received. *)

\* A frame is cut out of the head of a buffer.
LEMMA CutFrame ==
  ASSUME NEW m \in Seq(Byte), NEW b \in Seq(Byte), Len(b) >= Len(OnWire(m)),
         \A i \in 1..Len(b) : i <= Len(OnWire(m)) => b[i] = OnWire(m)[i]
  PROVE  /\ Take(b, Len(OnWire(m))) = OnWire(m)
         /\ Take(Drop(b, Len(Decimal[Len(m)]) + 1), Len(m)) = m
<1> DEFINE w == OnWire(m)
           l == Len(Decimal[Len(m)]) + 1
           tail == SubSeq(b, l + 1, Len(b))
<1>1. /\ w \in Seq(Byte) /\ l \in Nat /\ Len(w) = l + Len(m) /\ Len(m) \in Nat /\ Len(w) \in Nat
      /\ \A i \in 1..Len(m) : w[l + i] = m[i]
  BY OnWireProperties
<1>2. Len(b) \in Nat /\ Len(w) <= Len(b) /\ \A i \in 1..Len(b) : b[i] \in Byte
  OBVIOUS
<1>3. \A i \in 1..Len(w) : b[i] = w[i]
  BY <1>1, <1>2
<1> HIDE DEF w, l
<1>4. Take(b, Len(w)) = w
  <2>1. AtMost(Len(w), Len(b)) = Len(w)
    BY <1>1, <1>2 DEF AtMost
  <2>2. \A i \in 1..Len(w) : b[i] \in Byte
    BY <1>1, <1>2
  <2>3. /\ SubSeq(b, 1, Len(w)) \in Seq(Byte)
        /\ Len(SubSeq(b, 1, Len(w))) = IF 1 <= Len(w) THEN Len(w) - 1 + 1 ELSE 0
        /\ \A i \in 1..Len(w) - 1 + 1 : SubSeq(b, 1, Len(w))[i] = b[1 + i - 1]
    BY <1>1, <2>2, SubSeqProperties
  <2>4. /\ Len(SubSeq(b, 1, Len(w))) = Len(w)
        /\ \A i \in 1..Len(w) : SubSeq(b, 1, Len(w))[i] = w[i]
    BY <1>1, <1>3, <2>3
  <2>5. SubSeq(b, 1, Len(w)) = w
    BY <1>1, <2>3, <2>4, SeqEqual
  <2> QED BY <2>1, <2>5 DEF Take
<1>5. Drop(b, l) = tail
  <2>1. AtMost(l, Len(b)) = l
    BY <1>1, <1>2 DEF AtMost
  <2> QED BY <2>1 DEF Drop
<1>6. /\ tail \in Seq(Byte) /\ Len(tail) = Len(b) - l
      /\ \A i \in 1..Len(b) - l : tail[i] = b[l + i]
  <2>1. \A i \in l + 1..Len(b) : b[i] \in Byte
    BY <1>1, <1>2
  <2>2. /\ tail \in Seq(Byte)
        /\ Len(tail) = IF l + 1 <= Len(b) THEN Len(b) - (l + 1) + 1 ELSE 0
        /\ \A i \in 1..Len(b) - (l + 1) + 1 : tail[i] = b[l + 1 + i - 1]
    BY <1>1, <1>2, <2>1, SubSeqProperties
  <2> HIDE DEF tail
  <2>3. \A i \in 1..Len(b) - l : tail[i] = b[l + i]
    <3> TAKE i \in 1..Len(b) - l
    <3>1. i \in 1..Len(b) - (l + 1) + 1 /\ l + 1 + i - 1 = l + i
      BY <1>1, <1>2
    <3> QED BY <2>2, <3>1
  <2> QED BY <1>1, <1>2, <2>2, <2>3
<1> HIDE DEF tail
<1>7. Take(tail, Len(m)) = m
  <2>1. AtMost(Len(m), Len(tail)) = Len(m) /\ Len(m) <= Len(tail)
    BY <1>1, <1>2, <1>6 DEF AtMost
  <2>2. \A i \in 1..Len(m) : tail[i] = m[i] /\ tail[i] \in Byte
    <3> TAKE i \in 1..Len(m)
    <3>1. i \in 1..Len(b) - l
      BY <1>1, <1>2
    <3>2. PICK j \in 1..Len(w) : j = l + i
      BY <1>1
    <3>3. b[j] = w[j] /\ w[j] = m[i]
      BY <1>1, <1>3, <3>2
    <3> QED BY <1>6, <3>1, <3>2, <3>3
  <2>3. /\ SubSeq(tail, 1, Len(m)) \in Seq(Byte)
        /\ Len(SubSeq(tail, 1, Len(m))) = IF 1 <= Len(m) THEN Len(m) - 1 + 1 ELSE 0
        /\ \A i \in 1..Len(m) - 1 + 1 : SubSeq(tail, 1, Len(m))[i] = tail[1 + i - 1]
    BY <1>1, <2>2, SubSeqProperties
  <2>4. /\ Len(SubSeq(tail, 1, Len(m))) = Len(m)
        /\ \A i \in 1..Len(m) : SubSeq(tail, 1, Len(m))[i] = m[i]
    BY <1>1, <2>2, <2>3
  <2>5. SubSeq(tail, 1, Len(m)) = m
    BY <2>3, <2>4, SeqEqual
  <2> QED BY <2>1, <2>5 DEF Take
<1> QED BY <1>4, <1>5, <1>7 DEF w, l

\* What the read buffer begins with, as long as not all messages were received.
LEMMA NextMessage ==
  ASSUME TypeOK, AlignedInv, handler # "echo",
         NEW k \in Nat, k = Len(received), k < Len(messages),
         NEW m, m = messages[k + 1]
  PROVE  /\ m \in Seq(Byte)
         /\ Wire(handler, SubSeq(messages, 1, k)) \in Seq(Byte)
         /\ Wire(handler, SubSeq(messages, 1, k + 1)) = Wire(handler, SubSeq(messages, 1, k)) \o OnWire(m)
         /\ \A i \in 1..Len(readBuffer) : i <= Len(OnWire(m)) => readBuffer[i] = OnWire(m)[i]
         /\ HasNul(m) => HasNul(stream)
<1> DEFINE W == Wire(handler, SubSeq(messages, 1, k))
           w == OnWire(m)
<1>1. messages \in Seq(Seq(Byte)) /\ Len(messages) \in Nat /\ k + 1 \in 1..Len(messages)
  BY DEF TypeOK
<1>2. m \in Seq(Byte)
  BY <1>1
<1>3. /\ SubSeq(messages, 1, k) \in Seq(Seq(Byte))
      /\ SubSeq(messages, 1, k + 1) = Append(SubSeq(messages, 1, k), m)
  <2>1. k \in 0..Len(messages)
    BY <1>1
  <2> QED BY <1>1, <2>1, WirePrefix
<1>4. W \in Seq(Byte) /\ w \in Seq(Byte)
  BY <1>2, <1>3, WireType, OnWireProperties
<1>5. Wire(handler, SubSeq(messages, 1, k + 1)) = W \o w
  <2>1. PICK head \in Seq(Seq(Byte)) : head = SubSeq(messages, 1, k)
    BY <1>3
  <2>2. Wire(handler, Append(head, m)) = Wire(handler, head) \o w
    BY <1>2, WireAppend
  <2> QED BY <1>3, <2>1, <2>2
<1>6. PICK rest \in Seq(Byte) : Wire(handler, messages) = Wire(handler, SubSeq(messages, 1, k + 1)) \o rest
  <2>1. PICK n \in 0..Len(messages) : n = k + 1
    BY <1>1
  <2>2. \E rest \in Seq(Byte) : Wire(handler, messages) = Wire(handler, SubSeq(messages, 1, n)) \o rest
    BY <1>1, WirePrefix
  <2> QED BY <2>1, <2>2
<1>7. stream = (W \o w) \o rest /\ W \o readBuffer = SubSeq(stream, 1, taken)
  BY <1>5, <1>6 DEF AlignedInv
<1> DEFINE l == Len(Decimal[Len(m)]) + 1
<1>8. /\ l \in Nat /\ Len(w) = l + Len(m) /\ Len(m) \in Nat
      /\ \A i \in 1..Len(m) : w[l + i] = m[i]
  <2>1. /\ Decimal[Len(m)] \in Seq(Byte)
        /\ Len(w) = Len(Decimal[Len(m)]) + 1 + Len(m)
    BY <1>2, OnWireProperties
  <2>2. \A i \in 1..Len(m) : w[l + i] = m[i]
    BY <1>2, OnWireProperties
  <2>3. l \in Nat /\ l = Len(Decimal[Len(m)]) + 1 /\ Len(m) \in Nat
    BY <1>2, <2>1
  <2> HIDE DEF w, l
  <2>4. Len(w) = l + Len(m)
    BY <2>1, <2>3
  <2> QED BY <2>2, <2>3, <2>4
<1> HIDE DEF W, w, l
<1>9. \A i \in 1..Len(w) : Len(W) + i \in 1..Len(stream) /\ stream[Len(W) + i] = w[i]
  <2>1. /\ W \o w \in Seq(Byte) /\ Len(W \o w) = Len(W) + Len(w)
        /\ \A i \in 1..Len(W) + Len(w) : (W \o w)[i] = IF i <= Len(W) THEN W[i] ELSE w[i - Len(W)]
    BY <1>4, ConcatProperties
  <2>2. /\ Len(stream) = Len(W \o w) + Len(rest)
        /\ \A i \in 1..Len(W \o w) + Len(rest) :
             stream[i] = IF i <= Len(W \o w) THEN (W \o w)[i] ELSE rest[i - Len(W \o w)]
    BY <1>7, <2>1, ConcatProperties
  <2>3. Len(W) \in Nat /\ Len(w) \in Nat /\ Len(rest) \in Nat
    BY <1>4
  <2> TAKE i \in 1..Len(w)
  <2>4. PICK j \in 1..Len(W) + Len(w) : j = Len(W) + i
    BY <2>3
  <2>5. (W \o w)[j] = w[i]
    <3>1. ~(j <= Len(W)) /\ j - Len(W) = i
      BY <2>3, <2>4
    <3> QED BY <2>1, <3>1
  <2>6. j \in 1..Len(stream) /\ stream[j] = (W \o w)[j]
    <3>1. j \in 1..Len(W \o w) + Len(rest) /\ j <= Len(W \o w)
      BY <2>1, <2>3
    <3> QED BY <2>2, <3>1
  <2> QED BY <2>4, <2>5, <2>6
<1>10. ASSUME NEW i \in 1..Len(readBuffer), i <= Len(w)
      PROVE  readBuffer[i] = w[i]
  <2>1. readBuffer[i] = stream[Len(W) + i]
    BY <1>4, <1>7, ReadIsStream
  <2>2. i \in 1..Len(w)
    BY <1>4, <1>10
  <2> QED BY <1>9, <2>1, <2>2
<1>11. HasNul(m) => HasNul(stream)
  <2> SUFFICES ASSUME HasNul(m) PROVE HasNul(stream)
    OBVIOUS
  <2>1. PICK i \in 1..Len(m) : m[i] = Nul
    BY DEF HasNul
  <2>2. PICK j \in 1..Len(w) : j = l + i
    BY <1>8
  <2>3. w[j] = Nul
    BY <1>8, <2>1, <2>2
  <2>4. PICK n \in 1..Len(stream) : n = Len(W) + j
    BY <1>9
  <2>5. stream[n] = Nul
    BY <1>9, <2>3, <2>4
  <2> QED BY <2>5 DEF HasNul
<1> QED BY <1>2, <1>4, <1>5, <1>10, <1>11 DEF W, w

\* When all were, nothing is left.
LEMMA NothingLeft ==
  ASSUME TypeOK, AlignedInv, Len(received) = Len(messages)
  PROVE  readBuffer = <<>>
<1>1. /\ messages \in Seq(Seq(Byte)) /\ stream \in Seq(Byte) /\ readBuffer \in Seq(Byte)
      /\ taken \in Nat /\ taken <= Len(stream) /\ Len(stream) \in Nat
  BY DEF TypeOK
<1>2. SubSeq(messages, 1, Len(messages)) = messages
  BY <1>1, SubSeqFull
<1>3. stream \o readBuffer = SubSeq(stream, 1, taken)
  BY <1>2 DEF AlignedInv
<1>4. Len(stream) + Len(readBuffer) = taken
  BY <1>1, <1>3, ReadIsStream
<1>5. Len(readBuffer) = 0
  BY <1>1, <1>4
<1> QED BY <1>1, <1>5

\* The two outcomes of asking for a message.
NoneTaken ==
  /\ pc' = "writable" /\ Waiting
  /\ UNCHANGED <<readBuffer, writeBuffer, received, reported>>

OneTaken(m) ==
  /\ Len(readBuffer) >= Len(OnWire(m))
  /\ readBuffer' = Drop(readBuffer, Len(OnWire(m)))
  /\ received' = Append(received, AsGiven(m))
  /\ SendRaw(Answer(AsGiven(m)))
  /\ pc' = IF AsGiven(m) = <<>> THEN "writable" ELSE "message"

LEMMA Outcomes ==
  ASSUME TypeOK, AlignedInv, TakeMessage
  PROVE  NoneTaken \/ (Len(received) < Len(messages) /\ OneTaken(messages[Len(received) + 1]))
<1>1. handler # "echo" /\ handler \in {"strings", "chars"}
  BY DEF TakeMessage, TypeOK
<1>2. PICK garbage \in {Nul, Space} :
        LET head == PeekIntWithLength(readBuffer, garbage) IN
        IF head.ok /\ Complete(head)
        THEN \E message \in {Payload(head)} :
               /\ readBuffer' = Drop(readBuffer, head.length + 1 + head.value)
               /\ received' = Append(received, message)
               /\ SendRaw(Answer(message))
               /\ pc' = IF message = <<>> THEN "writable" ELSE "message"
        ELSE /\ pc' = "writable"
             /\ UNCHANGED <<readBuffer, writeBuffer, received, reported>>
  BY DEF TakeMessage
<1> DEFINE head == PeekIntWithLength(readBuffer, garbage)
<1>3. /\ head.ok /\ Complete(head) =>
           /\ readBuffer' = Drop(readBuffer, head.length + 1 + head.value)
           /\ received' = Append(received, Payload(head))
           /\ SendRaw(Answer(Payload(head)))
           /\ pc' = IF Payload(head) = <<>> THEN "writable" ELSE "message"
      /\ ~(head.ok /\ Complete(head)) =>
           pc' = "writable" /\ UNCHANGED <<readBuffer, writeBuffer, received, reported>>
  BY <1>2
<1>4. Complete(head) <=> Len(readBuffer) >= head.length + 1 + head.value
  BY DEF Complete
<1>5. /\ readBuffer \in Seq(Byte) /\ received \in Seq(Seq(Byte)) /\ messages \in Seq(Seq(Byte))
      /\ Len(received) \in Nat /\ Len(messages) \in Nat /\ Len(received) <= Len(messages)
      /\ Len(readBuffer) \in Nat
  BY DEF TypeOK, AlignedInv
<1>6. CASE Len(received) = Len(messages)
  <2>1. readBuffer = <<>>
    BY <1>6, NothingLeft
  <2>2. ~(head.ok /\ Complete(head))
    <3> DEFINE e == <<>>
    <3>1. e \in Seq(Byte) /\ Len(readBuffer) = 0 /\ Len(OnWire(e)) > 0
      <4>1. e \in Seq(Byte) /\ Len(e) = 0
        OBVIOUS
      <4>2. Len(OnWire(e)) = Len(Decimal[Len(e)]) + 1 + Len(e) /\ Decimal[Len(e)] \in Seq(Byte)
        BY <4>1, OnWireProperties
      <4> QED BY <2>1, <4>1, <4>2
    <3> HIDE DEF e
    <3>2. \A i \in 1..Len(readBuffer) : i <= Len(OnWire(e)) => readBuffer[i] = OnWire(e)[i]
      BY <3>1
    <3>3. Len(readBuffer) < Len(OnWire(e)) => ~(head.ok /\ Len(readBuffer) >= head.length + 1 + head.value)
      BY <1>5, <3>1, <3>2, HeadOfMessage
    <3>4. Len(OnWire(e)) \in Nat
      BY <3>1, OnWireProperties
    <3> QED BY <1>4, <3>1, <3>3, <3>4
  <2> QED BY <1>3, <1>6, <2>2 DEF NoneTaken, Waiting
<1>7. CASE Len(received) < Len(messages)
  <2>1. PICK k \in Nat : k = Len(received)
    BY <1>5
  <2>2. PICK m : m = messages[k + 1]
    OBVIOUS
  <2>3. /\ m \in Seq(Byte)
        /\ \A i \in 1..Len(readBuffer) : i <= Len(OnWire(m)) => readBuffer[i] = OnWire(m)[i]
    BY <1>1, <1>7, <2>1, <2>2, NextMessage
  <2>4. /\ Len(readBuffer) >= Len(OnWire(m)) =>
             head.ok /\ head.value = Len(m) /\ head.length = Len(Decimal[Len(m)])
        /\ Len(readBuffer) < Len(OnWire(m)) =>
             ~(head.ok /\ Len(readBuffer) >= head.length + 1 + head.value)
    BY <1>5, <2>3, HeadOfMessage
  <2>5. Len(OnWire(m)) \in Nat /\ Len(OnWire(m)) = Len(Decimal[Len(m)]) + 1 + Len(m)
    BY <2>3, OnWireProperties
  <2> HIDE DEF head
  <2>6. CASE Len(readBuffer) < Len(OnWire(m))
    <3>1. ~(head.ok /\ Complete(head))
      BY <1>4, <2>4, <2>6
    <3> QED BY <1>3, <2>1, <2>2, <2>6, <3>1 DEF NoneTaken, Waiting
  <2>7. CASE Len(readBuffer) >= Len(OnWire(m))
    <3>1. /\ head.ok /\ Complete(head)
          /\ head.length + 1 + head.value = Len(OnWire(m))
          /\ head.value = Len(m) /\ head.length = Len(Decimal[Len(m)])
      BY <1>4, <2>4, <2>5, <2>7
    <3>2. Payload(head) = AsGiven(m)
      <4>1. Take(Drop(readBuffer, head.length + 1), head.value) = m
        BY <1>5, <2>3, <2>7, <3>1, CutFrame
      <4>2. Payload(head) = IF handler = "strings" THEN AsCString(m) ELSE m
        BY <4>1 DEF Payload
      <4> QED BY <1>1, <4>2 DEF AsGiven
    <3>3. OneTaken(m)
      BY <1>3, <2>7, <3>1, <3>2 DEF OneTaken
    <3> QED BY <1>7, <2>1, <2>2, <3>3
  <2> QED BY <1>5, <2>5, <2>6, <2>7
<1> QED BY <1>5, <1>6, <1>7
-----------------------------------------------------------------------------
(* One lemma per action. *)

LEMMA InitHolds == Init => ConnectionInv
<1> SUFFICES ASSUME Init PROVE ConnectionInv
  OBVIOUS
<1>1. PICK s \in Scenarios : handler = s.handler /\ messages = s.messages /\ stream = Wire(s.handler, s.messages)
  BY DEF Init
<1>2. /\ handler \in {"echo", "strings", "chars"} /\ messages \in Seq(Seq(Byte))
      /\ stream = Wire(handler, messages)
  BY <1>1, ConnectionAssumption
<1>3. stream \in Seq(Byte) /\ Len(stream) \in Nat
  <2>1. stream \in Seq(Byte)
    BY <1>2, WireType
  <2> QED BY <2>1
<1>4. /\ sent = 0 /\ finished = FALSE /\ outbound = <<>> /\ delivered = <<>>
      /\ ready = TRUE /\ noSpace = FALSE
      /\ taken = 0 /\ readBuffer = <<>> /\ writeBuffer = <<>> /\ closed = FALSE
      /\ event = [in |-> FALSE, out |-> FALSE]
      /\ pc = "poll" /\ process = "running"
      /\ received = <<>> /\ reported = FALSE /\ pushes = 0 /\ pushed = FALSE /\ filled = FALSE
  BY DEF Init
<1>5. <<>> \in Seq(Byte) /\ <<>> \in Seq(Seq(Byte)) /\ Len(<<>>) = 0
  OBVIOUS
<1>6. TypeOK
  <2>1. /\ taken \in 0..sent /\ sent \in 0..Len(stream) /\ sent - taken <= ReceiveRoom
        /\ pushes \in Nat
    BY <1>3, <1>4, ConnectionAssumption
  <2>2. /\ outbound \in Seq(Byte) /\ Len(outbound) <= SendRoom /\ delivered \in Seq(Byte)
        /\ readBuffer \in Seq(Byte) /\ Len(readBuffer) <= ReadMax
        /\ writeBuffer \in Seq(Byte) /\ Len(writeBuffer) <= WriteMax
        /\ received \in Seq(Seq(Byte))
    BY <1>4, <1>5, Sizes
  <2>3. /\ finished \in BOOLEAN /\ closed \in BOOLEAN /\ ready \in BOOLEAN /\ noSpace \in BOOLEAN
        /\ event \in [in : BOOLEAN, out : BOOLEAN]
        /\ pc \in {"poll", "readable", "message", "writable", "removed"}
        /\ process \in {"running", "exited"}
        /\ reported \in BOOLEAN /\ pushed \in BOOLEAN /\ filled \in BOOLEAN
    BY <1>4
  <2> QED BY <1>2, <1>3, <2>1, <2>2, <2>3 DEF TypeOK
<1>7. EdgeInv
  BY <1>4 DEF EdgeInv
<1>8. Output = <<>> /\ SubSeq(stream, 1, taken) = <<>> /\ <<>> \o <<>> = <<>>
  <2>1. <<>> \o <<>> = <<>>
    BY <1>5, Concatenation
  <2>2. SubSeq(stream, 1, 0) = <<>>
    BY SubSeqEmpty
  <2> QED BY <1>4, <2>1, <2>2 DEF Output
<1>9. EchoInv
  BY <1>4, <1>8 DEF EchoInv, EchoedInv, EmptiedInv
<1>10. Framed(received) = <<>> /\ Wire(handler, SubSeq(messages, 1, 0)) = <<>>
  <2>1. SubSeq(messages, 1, 0) = <<>>
    BY SubSeqEmpty
  <2>2. FlattenSeq(<<>>) = <<>>
    BY <1>5 DEF FlattenSeq
  <2>3. DOMAIN <<>> = {} /\ \A f : DOMAIN f = {} /\ f = [i \in DOMAIN f |-> f[i]] => f = <<>>
    OBVIOUS
  <2>4. Framed(<<>>) = FlattenSeq(<<>>)
    BY <2>3 DEF Framed
  <2>5. Wire(handler, <<>>) = FlattenSeq(<<>>)
    BY <2>3 DEF Wire
  <2> QED BY <1>4, <2>1, <2>2, <2>4, <2>5
<1>11. FramedInv
  <2>1. AlignedInv
    <3>1. Len(received) = 0 /\ Len(received) <= Len(messages)
      BY <1>2, <1>4, <1>5
    <3>2. Wire(handler, SubSeq(messages, 1, 0)) \o readBuffer = SubSeq(stream, 1, taken)
      BY <1>4, <1>8, <1>10
    <3>3. \A i \in 1..Len(received) : received[i] = AsGiven(messages[i])
      BY <3>1
    <3> QED BY <1>2, <3>1, <3>2, <3>3 DEF AlignedInv
  <2>2. WaitingInv
    <3>1. Len(messages) \in Nat /\ Len(received) = 0 /\ Len(readBuffer) = 0
      BY <1>2, <1>4, <1>5
    <3>2. CASE Len(messages) = 0
      BY <3>1, <3>2 DEF WaitingInv, Waiting
    <3>3. CASE Len(messages) # 0
      <4>1. 1 \in 1..Len(messages)
        BY <3>1, <3>3
      <4>2. PICK m \in Seq(Byte) : m = messages[1]
        BY <1>2, <4>1
      <4>3. Len(OnWire(m)) = Len(Decimal[Len(m)]) + 1 + Len(m) /\ Decimal[Len(m)] \in Seq(Byte)
        BY OnWireProperties
      <4>4. Len(OnWire(messages[1])) > 0
        <5>1. Len(m) \in Nat /\ Len(Decimal[Len(m)]) \in Nat
          BY <4>3
        <5>2. Len(OnWire(m)) > 0
          BY <4>3, <5>1
        <5> QED BY <4>2, <5>2
      <4>5. 0 + 1 = 1
        OBVIOUS
      <4> QED BY <3>1, <4>4, <4>5 DEF WaitingInv, Waiting
    <3> QED BY <3>2, <3>3
  <2>3. ExitInv
    BY <1>4 DEF ExitInv
  <2>4. AnsweredInv
    BY <1>8, <1>10 DEF AnsweredInv
  <2> QED BY <2>1, <2>2, <2>3, <2>4 DEF FramedInv
<1> QED BY <1>6, <1>7, <1>9, <1>11 DEF ConnectionInv

LEMMA PeerSendsKeeps ==
  ASSUME ConnectionInv, NEW n \in Segments, PeerSends(n)
  PROVE  ConnectionInv'
<1>1. n \in Nat /\ sent' = sent + n /\ sent + n <= Len(stream) /\ sent + n - taken <= ReceiveRoom /\ ready' = TRUE
  <2>1. n \in Nat
    BY Sizes
  <2>2. sent' = sent + n /\ sent + n <= Len(stream) /\ sent + n - taken <= ReceiveRoom /\ ready' = TRUE
    BY DEF PeerSends
  <2> QED BY <2>1, <2>2
<1>2. UNCHANGED <<scenario, finished, outbound, delivered, noSpace, objectVars, event, pc,
                  process, historyVars>>
  BY DEF PeerSends
<1>3. TypeOK'
  <2>1. taken' \in 0..sent' /\ sent' \in 0..Len(stream')
    BY <1>1, <1>2 DEF ConnectionInv, TypeOK, scenario, objectVars
  <2> QED BY <1>1, <1>2, <2>1 DEF ConnectionInv, TypeOK, scenario, objectVars, historyVars
<1>4. EdgeInv'
  BY <1>1, <1>2 DEF ConnectionInv, EdgeInv, objectVars, historyVars
<1>5. EchoInv' /\ FramedInv'
  BY <1>2, QuietSteps DEF ConnectionInv, scenario, objectVars, historyVars, Output
<1> QED BY <1>3, <1>4, <1>5 DEF ConnectionInv

LEMMA PeerFinishesKeeps ==
  ASSUME ConnectionInv, PeerFinishes
  PROVE  ConnectionInv'
<1>1. finished' = TRUE /\ ready' = TRUE
  BY DEF PeerFinishes
<1>2. UNCHANGED <<scenario, sent, outbound, delivered, noSpace, objectVars, event, pc,
                  process, historyVars>>
  BY DEF PeerFinishes
<1>3. TypeOK'
  BY <1>1, <1>2 DEF ConnectionInv, TypeOK, scenario, objectVars, historyVars
<1>4. EdgeInv'
  BY <1>1, <1>2 DEF ConnectionInv, EdgeInv, objectVars, historyVars
<1>5. EchoInv' /\ FramedInv'
  BY <1>2, QuietSteps DEF ConnectionInv, scenario, objectVars, historyVars, Output
<1> QED BY <1>3, <1>4, <1>5 DEF ConnectionInv

LEMMA PeerReceivesKeeps ==
  ASSUME ConnectionInv, NEW n \in Segments, PeerReceives(n)
  PROVE  ConnectionInv'
<1>1. n \in Nat /\ outbound \in Seq(Byte) /\ delivered \in Seq(Byte)
  BY Sizes DEF ConnectionInv, TypeOK
<1>2. /\ delivered' = delivered \o Take(outbound, n) /\ outbound' = Drop(outbound, n)
      /\ UNCHANGED <<scenario, sent, finished, objectVars, event, pc, process, historyVars>>
      /\ \/ noSpace /\ ready' = TRUE /\ noSpace' = FALSE
         \/ UNCHANGED epollVars
  BY DEF PeerReceives
<1>3. /\ delivered' \in Seq(Byte) /\ delivered' \o outbound' = delivered \o outbound
      /\ outbound' \in Seq(Byte) /\ Len(outbound') = Len(outbound) - AtMost(n, Len(outbound))
  BY <1>1, <1>2, MovingBytes, TakeProperties
<1>4. Len(outbound') <= SendRoom
  BY <1>1, <1>3, Sizes DEF AtMost, ConnectionInv, TypeOK
<1>5. ready' \in BOOLEAN /\ noSpace' \in BOOLEAN
  BY <1>2 DEF ConnectionInv, TypeOK, epollVars
<1>6. TypeOK'
  BY <1>2, <1>3, <1>4, <1>5 DEF ConnectionInv, TypeOK, scenario, objectVars, historyVars
<1>7. EdgeInv'
  BY <1>2 DEF ConnectionInv, EdgeInv, epollVars, objectVars, historyVars
<1>8. EchoInv' /\ FramedInv'
  <2>1. Output' = Output
    BY <1>2, <1>3 DEF objectVars, Output
  <2> QED BY <1>2, <2>1, QuietSteps DEF ConnectionInv, scenario, objectVars, historyVars
<1> QED BY <1>6, <1>7, <1>8 DEF ConnectionInv

LEMMA PollKeeps ==
  ASSUME ConnectionInv, Poll, process = "running"
  PROVE  ConnectionInv'
<1>1. /\ pc = "poll" /\ pc' = "readable" /\ ready' = FALSE
      /\ event' = [in |-> taken < sent \/ finished, out |-> Len(outbound) < SendRoom]
      /\ noSpace' = (noSpace \/ ~event'.out)
      /\ UNCHANGED <<scenario, peerVars, objectVars, process, historyVars>>
  BY DEF Poll
<1>2. TypeOK'
  <2>1. ready' \in BOOLEAN /\ noSpace' \in BOOLEAN
    BY <1>1
  <2>2. event' \in [in : BOOLEAN, out : BOOLEAN]
    BY <1>1 DEF ConnectionInv, TypeOK
  <2> QED BY <1>1, <2>1, <2>2 DEF ConnectionInv, TypeOK, scenario, peerVars, objectVars, historyVars
<1>3. EdgeInv'
  BY <1>1 DEF ConnectionInv, EdgeInv, peerVars, objectVars, historyVars
<1>4. EchoInv' /\ FramedInv'
  BY <1>1, QuietSteps DEF ConnectionInv, scenario, peerVars, objectVars, historyVars, Output
<1> QED BY <1>2, <1>3, <1>4 DEF ConnectionInv

LEMMA SendElsewhereKeeps ==
  ASSUME ConnectionInv, SendElsewhere
  PROVE  ConnectionInv'
<1>1. <<PushByte>> \in Seq(Byte) /\ SendRaw(<<PushByte>>)
  BY DEF SendElsewhere, PushByte, Byte
<1>2. writeBuffer' \in Seq(Byte) /\ Len(writeBuffer') <= WriteMax /\ reported' \in BOOLEAN
  BY <1>1, SendRawProperties DEF ConnectionInv
<1>3. /\ pc = "poll" /\ pushes' = pushes + 1 /\ pushed' = TRUE
      /\ UNCHANGED <<scenario, peerVars, epollVars, taken, readBuffer, closed, event, pc,
                     process, received, filled>>
  BY DEF SendElsewhere
<1>4. TypeOK'
  BY <1>2, <1>3 DEF ConnectionInv, TypeOK, scenario, peerVars, epollVars
<1>5. pushes' # 0
  BY <1>3 DEF ConnectionInv, TypeOK
<1>6. EdgeInv'
  BY <1>3 DEF ConnectionInv, EdgeInv, peerVars, epollVars
<1>7. EchoInv'
  BY <1>3, <1>5 DEF ConnectionInv, scenario, EchoInv, EchoedInv, EmptiedInv
<1>8. FramedInv'
  <2> SUFFICES ASSUME handler # "echo" PROVE AlignedInv' /\ WaitingInv' /\ ExitInv' /\ AnsweredInv'
    BY <1>3 DEF FramedInv, scenario
  <2>1. AlignedInv'
    BY <1>3 DEF ConnectionInv, FramedInv, AlignedInv, AsGiven, scenario
  <2>2. WaitingInv'
    BY <1>3 DEF ConnectionInv, FramedInv, WaitingInv, Waiting, scenario
  <2>3. ExitInv'
    BY <1>3 DEF ConnectionInv, FramedInv, ExitInv
  <2>4. AnsweredInv'
    BY <1>5 DEF AnsweredInv
  <2> QED BY <2>1, <2>2, <2>3, <2>4
<1> QED BY <1>4, <1>6, <1>7, <1>8 DEF ConnectionInv

LEMMA EchoMessageKeeps ==
  ASSUME ConnectionInv, EchoMessage
  PROVE  ConnectionInv'
<1>1. /\ readBuffer \in Seq(Byte) /\ writeBuffer \in Seq(Byte)
      /\ delivered \in Seq(Byte) /\ outbound \in Seq(Byte)
  BY DEF ConnectionInv, TypeOK
<1>2. /\ handler = "echo" /\ pc = "message" /\ pc' = "writable" /\ readBuffer' = <<>>
      /\ SendRaw(AsCString(readBuffer))
      /\ UNCHANGED <<scenario, peerVars, epollVars, taken, closed, event, process,
                     received, pushes, pushed, filled>>
  BY DEF EchoMessage
<1>3. AsCString(readBuffer) \in Seq(Byte)
  BY <1>1, CStringProperties
<1>4. writeBuffer' \in Seq(Byte) /\ Len(writeBuffer') <= WriteMax /\ reported' \in BOOLEAN
  BY <1>2, <1>3, SendRawProperties DEF ConnectionInv
<1>5. TypeOK'
  <2>1. readBuffer' \in Seq(Byte) /\ Len(readBuffer') = 0
    BY <1>2
  <2>2. Len(readBuffer') <= ReadMax
    BY <2>1, Sizes
  <2> QED BY <1>2, <1>4, <2>1, <2>2 DEF ConnectionInv, TypeOK, scenario, peerVars, epollVars
<1>6. EdgeInv'
  BY <1>2 DEF ConnectionInv, EdgeInv, peerVars, epollVars
<1>7. EchoedInv'
  <2> SUFFICES ASSUME ~HasNul(stream), ~reported', pushes = 0
               PROVE  Output' \o readBuffer' = SubSeq(stream, 1, taken)
    BY <1>2 DEF EchoedInv, scenario
  <2>1. ~reported /\ Output \in Seq(Byte) /\ Output' = Output \o AsCString(readBuffer)
    BY <1>2, <1>3, SentIsOutput DEF ConnectionInv, peerVars
  <2>2. Output \o readBuffer = SubSeq(stream, 1, taken)
    BY <1>2, <2>1 DEF ConnectionInv, EchoInv, EchoedInv
  <2>3. ~HasNul(readBuffer)
    <3>1. \A i \in 1..Len(readBuffer) :
            Len(Output) + i \in 1..Len(stream) /\ readBuffer[i] = stream[Len(Output) + i]
      BY <2>1, <2>2, ReadIsStream DEF ConnectionInv
    <3> QED BY <3>1 DEF HasNul
  <2>4. AsCString(readBuffer) = readBuffer
    BY <1>1, <2>3, CStringProperties
  <2>5. Output' \o readBuffer' = Output'
    <3>1. Output' \in Seq(Byte)
      BY <1>1, <2>1, <2>4, Concatenation
    <3> QED BY <1>2, <3>1, Concatenation
  <2> QED BY <2>1, <2>2, <2>4, <2>5
<1>8. EchoInv' /\ FramedInv'
  <2>1. EmptiedInv'
    BY <1>2 DEF ConnectionInv, EchoInv, EmptiedInv
  <2> QED BY <1>2, <1>7, <2>1 DEF EchoInv, FramedInv, scenario
<1> QED BY <1>5, <1>6, <1>8 DEF ConnectionInv

\* One answer more.
LEMMA FramedAppend ==
  ASSUME NEW msgs \in Seq(Seq(Byte)), NEW m \in Seq(Byte)
  PROVE  /\ Framed(msgs) \in Seq(Byte)
         /\ Framed(Append(msgs, m)) = Framed(msgs) \o (IF m = <<>> THEN <<>> ELSE OnWire(m))
<1> DEFINE Readable(x) == IF x = <<>> THEN <<>> ELSE OnWire(x)
           more == Append(msgs, m)
           frames(s) == [i \in DOMAIN s |-> Readable(s[i])]
<1>1. /\ more \in Seq(Seq(Byte)) /\ Len(more) = Len(msgs) + 1 /\ more[Len(msgs) + 1] = m
      /\ \A i \in 1..Len(msgs) : more[i] = msgs[i]
  BY AppendProperties
<1>2. \A x \in Seq(Byte) : Readable(x) \in Seq(Byte)
  BY OnWireProperties
<1>3. Framed(msgs) = FlattenSeq(frames(msgs)) /\ Framed(more) = FlattenSeq(frames(more))
  BY DEF Framed
<1> HIDE DEF Readable, more
<1>4. ASSUME NEW s \in Seq(Seq(Byte))
      PROVE  /\ frames(s) \in Seq(Seq(Byte)) /\ Len(frames(s)) = Len(s)
             /\ \A i \in 1..Len(s) : frames(s)[i] = Readable(s[i])
  <2>1. DOMAIN s = 1..Len(s) /\ Len(s) \in Nat
    OBVIOUS
  <2>2. \A i \in 1..Len(s) : Readable(s[i]) \in Seq(Byte)
    BY <1>2, ElementOfSeq
  <2>3. frames(s) = [i \in 1..Len(s) |-> Readable(s[i])]
    BY <2>1
  <2>4. frames(s) \in [1..Len(s) -> Seq(Byte)]
    BY <2>2, <2>3
  <2>5. frames(s) \in Seq(Seq(Byte))
    <3>1. PICK g \in [1..Len(s) -> Seq(Byte)] : g = frames(s)
      BY <2>4
    <3>2. g \in Seq(Seq(Byte))
      BY <2>1, <3>1, SeqDef
    <3> HIDE DEF frames
    <3> QED BY <3>1, <3>2
  <2>6. DOMAIN frames(s) = 1..Len(s)
    BY <2>3
  <2>7. Len(frames(s)) = Len(s)
    <3> HIDE DEF frames
    <3> QED BY <2>1, <2>5, <2>6, LenProperties
  <2> QED BY <2>3, <2>5, <2>7
<1>5. PICK a \in Seq(Seq(Byte)) : a = frames(msgs)
  BY <1>4
<1>6. PICK b \in Seq(Seq(Byte)) : b = frames(more)
  BY <1>1, <1>4
<1>7. PICK r \in Seq(Byte) : r = Readable(m)
  BY <1>2
<1>8. Len(a) = Len(msgs) /\ \A i \in 1..Len(msgs) : a[i] = Readable(msgs[i])
  BY <1>4, <1>5
<1>9. Len(b) = Len(msgs) + 1 /\ \A i \in 1..Len(msgs) + 1 : b[i] = Readable(more[i])
  BY <1>1, <1>4, <1>6
<1> HIDE DEF frames
<1>10. /\ Append(a, r) \in Seq(Seq(Byte)) /\ Len(Append(a, r)) = Len(msgs) + 1
       /\ \A i \in 1..Len(msgs) : Append(a, r)[i] = a[i]
       /\ Append(a, r)[Len(msgs) + 1] = r
  BY <1>8, AppendProperties
<1>11. b = Append(a, r)
  <2>1. ASSUME NEW i \in 1..Len(msgs) + 1
        PROVE  b[i] = Append(a, r)[i]
    <3>1. i \in 1..Len(msgs) \/ i = Len(msgs) + 1
      OBVIOUS
    <3> QED BY <1>1, <1>7, <1>8, <1>9, <1>10, <3>1
  <2> QED BY <1>9, <1>10, <2>1, SeqEqual
<1>12. FlattenSeq(a) \in Seq(Byte) /\ FlattenSeq(Append(a, r)) = FlattenSeq(a) \o r
  BY FlattenProperties
<1> QED BY <1>3, <1>5, <1>6, <1>7, <1>11, <1>12 DEF more, Readable

LEMMA TakeMessageKeeps ==
  ASSUME ConnectionInv, TakeMessage
  PROVE  ConnectionInv'
<1>1. /\ TypeOK /\ EdgeInv /\ AlignedInv /\ ExitInv /\ AnsweredInv
      /\ handler # "echo" /\ handler \in {"strings", "chars"}
      /\ pc = "message" /\ pc' \in {"message", "writable"}
      /\ UNCHANGED <<scenario, peerVars, epollVars, taken, closed, event, process,
                     pushes, pushed, filled>>
  <2>1. /\ pc = "message" /\ handler # "echo"
        /\ UNCHANGED <<scenario, peerVars, epollVars, taken, closed, event, process,
                       pushes, pushed, filled>>
    BY DEF TakeMessage
  <2>2. TypeOK /\ EdgeInv /\ AlignedInv /\ ExitInv /\ AnsweredInv
    BY <2>1 DEF ConnectionInv, FramedInv
  <2>3. pc' \in {"message", "writable"}
    BY <2>2, Outcomes DEF NoneTaken, OneTaken
  <2>4. handler \in {"strings", "chars"}
    BY <2>1, <2>2 DEF TypeOK
  <2> QED BY <2>1, <2>2, <2>3, <2>4
<1>2. EdgeInv'
  BY <1>1 DEF EdgeInv, peerVars, epollVars
<1>3. EchoInv' /\ ExitInv'
  BY <1>1 DEF EchoInv, ExitInv, scenario
<1>4. CASE NoneTaken
  <2>1. UNCHANGED <<readBuffer, writeBuffer, received, reported>> /\ Waiting /\ pc' = "writable"
    BY <1>4 DEF NoneTaken
  <2>2. TypeOK'
    BY <1>1, <2>1 DEF TypeOK, scenario, peerVars, epollVars
  <2>3. AlignedInv' /\ AnsweredInv'
    BY <1>1, <2>1 DEF AlignedInv, AsGiven, AnsweredInv, Output, scenario, peerVars
  <2>4. WaitingInv'
    BY <1>1, <2>1 DEF WaitingInv, Waiting, scenario
  <2> QED BY <1>2, <1>3, <2>2, <2>3, <2>4 DEF ConnectionInv, FramedInv
<1>5. CASE Len(received) < Len(messages) /\ OneTaken(messages[Len(received) + 1])
  <2>1. PICK k \in Nat : k = Len(received)
    BY <1>1 DEF TypeOK
  <2>2. PICK m : m = messages[k + 1]
    OBVIOUS
  <2>3. /\ m \in Seq(Byte)
        /\ Wire(handler, SubSeq(messages, 1, k)) \in Seq(Byte)
        /\ Wire(handler, SubSeq(messages, 1, k + 1)) = Wire(handler, SubSeq(messages, 1, k)) \o OnWire(m)
        /\ \A i \in 1..Len(readBuffer) : i <= Len(OnWire(m)) => readBuffer[i] = OnWire(m)[i]
        /\ HasNul(m) => HasNul(stream)
    BY <1>1, <1>5, <2>1, <2>2, NextMessage
  <2>4. PICK g \in Seq(Byte) : g = AsGiven(m)
    BY <2>3, CStringProperties DEF AsGiven
  <2>5. /\ Len(readBuffer) >= Len(OnWire(m)) /\ readBuffer' = Drop(readBuffer, Len(OnWire(m)))
        /\ received' = Append(received, g) /\ SendRaw(Answer(g))
        /\ pc' = IF g = <<>> THEN "writable" ELSE "message"
    BY <1>5, <2>1, <2>2, <2>4 DEF OneTaken
  <2>6. /\ readBuffer \in Seq(Byte) /\ received \in Seq(Seq(Byte)) /\ messages \in Seq(Seq(Byte))
        /\ Len(readBuffer) <= ReadMax /\ ReadMax \in Nat /\ Len(messages) \in Nat
    BY <1>1, Sizes DEF TypeOK
  <2>7. OnWire(m) \in Seq(Byte) /\ Len(OnWire(m)) \in Nat
    BY <2>3, OnWireProperties
  <2>8. /\ readBuffer' \in Seq(Byte) /\ Len(readBuffer') <= ReadMax
        /\ OnWire(m) \o readBuffer' = readBuffer
    <3>1. /\ readBuffer' \in Seq(Byte)
          /\ Len(readBuffer') = Len(readBuffer) - AtMost(Len(OnWire(m)), Len(readBuffer))
          /\ Take(readBuffer, Len(OnWire(m))) \o readBuffer' = readBuffer
      BY <2>5, <2>6, <2>7, TakeProperties
    <3>2. Len(readBuffer') <= ReadMax
      BY <2>6, <2>7, <3>1 DEF AtMost
    <3>3. Take(readBuffer, Len(OnWire(m))) = OnWire(m)
      BY <2>3, <2>5, <2>6, CutFrame
    <3> QED BY <3>1, <3>2, <3>3
  <2>9. /\ received' \in Seq(Seq(Byte)) /\ Len(received') = k + 1 /\ received'[k + 1] = g
        /\ \A i \in 1..k : received'[i] = received[i]
    BY <2>1, <2>5, <2>6, AppendProperties
  <2>10. Answer(g) \in Seq(Byte)
    <3>1. Decimal[Len(g)] \in Seq(Byte) /\ AsCString(g) \in Seq(Byte)
      BY OnWireProperties, CStringProperties
    <3>2. <<Space>> \in Seq(Byte)
      BY DEF Space, Byte
    <3>3. Frame(Len(g), g) \in Seq(Byte)
      <4>1. (Decimal[Len(g)] \o <<Space>>) \o AsCString(g) \in Seq(Byte)
        BY <3>1, <3>2, Concatenation
      <4> QED BY <4>1 DEF Frame
    <3> QED BY <3>3 DEF Answer
  <2>11. writeBuffer' \in Seq(Byte) /\ Len(writeBuffer') <= WriteMax /\ reported' \in BOOLEAN
    BY <1>1, <2>5, <2>10, SendRawProperties
  <2>12. TypeOK'
    BY <1>1, <2>8, <2>9, <2>11 DEF TypeOK, scenario, peerVars, epollVars
  <2>13. AlignedInv'
    <3>1. k + 1 <= Len(messages)
      BY <1>5, <2>1, <2>6
    <3>2. \A i \in 1..k + 1 : received'[i] = AsGiven(messages[i])
      <4> TAKE i \in 1..k + 1
      <4>1. i \in 1..k \/ i = k + 1
        OBVIOUS
      <4>2. i \in 1..k => received'[i] = AsGiven(messages[i])
        BY <1>1, <2>1, <2>9 DEF AlignedInv
      <4> QED BY <2>2, <2>4, <2>9, <4>1, <4>2
    <3>3. Wire(handler, SubSeq(messages, 1, k + 1)) \o readBuffer' = SubSeq(stream, 1, taken)
      <4>1. (Wire(handler, SubSeq(messages, 1, k)) \o OnWire(m)) \o readBuffer'
              = Wire(handler, SubSeq(messages, 1, k)) \o (OnWire(m) \o readBuffer')
        BY <2>3, <2>7, <2>8, Concatenation
      <4>2. Wire(handler, SubSeq(messages, 1, k)) \o readBuffer = SubSeq(stream, 1, taken)
        BY <1>1, <2>1 DEF AlignedInv
      <4> QED BY <2>3, <2>8, <4>1, <4>2
    <3>4. handler' = handler /\ messages' = messages /\ stream' = stream /\ taken' = taken
      BY <1>1 DEF scenario
    <3>5. stream = Wire(handler, messages)
      BY <1>1 DEF AlignedInv
    <3>6. \A x : AsGiven(x)' = IF handler = "chars" THEN x ELSE AsCString(x)
      BY <3>4 DEF AsGiven
    <3> QED BY <2>9, <3>1, <3>2, <3>3, <3>4, <3>5 DEF AlignedInv, AsGiven
  <2>14. WaitingInv'
    <3> SUFFICES ASSUME g = <<>> PROVE Waiting'
      BY <2>5 DEF WaitingInv
    <3>1. k + 1 \in DOMAIN received' /\ received'[k + 1] = <<>>
      BY <2>9
    <3> QED BY <3>1 DEF Waiting
  <2>15. AnsweredInv'
    <3> SUFFICES ASSUME ~reported', pushes = 0, handler = "chars" => ~HasNul(stream)
                 PROVE  Output' = Framed(received')
      BY <1>1 DEF AnsweredInv, scenario
    <3>1. ~reported /\ Output' = Output \o Answer(g)
      BY <1>1, <2>5, <2>10, SentIsOutput DEF peerVars
    <3>2. Output = Framed(received)
      BY <1>1, <3>1 DEF AnsweredInv
    <3>3. ~HasNul(g)
      <4>1. CASE handler = "chars"
        BY <2>3, <2>4, <4>1 DEF AsGiven
      <4>2. CASE handler = "strings"
        <5>1. g = AsCString(m)
          BY <2>4, <4>2 DEF AsGiven
        <5> QED BY <2>3, <5>1, CStringProperties
      <4> QED BY <1>1, <4>1, <4>2
    <3>4. AsCString(g) = g
      BY <3>3, CStringProperties
    <3>5. Answer(g) = IF g = <<>> THEN <<>> ELSE OnWire(g)
      BY <3>4 DEF Answer, Frame, OnWire
    <3>6. Framed(Append(received, g)) = Framed(received) \o (IF g = <<>> THEN <<>> ELSE OnWire(g))
      BY <2>6, FramedAppend
    <3> QED BY <2>5, <3>1, <3>2, <3>5, <3>6
  <2> QED BY <1>2, <1>3, <2>12, <2>13, <2>14, <2>15 DEF ConnectionInv, FramedInv
<1> QED BY <1>1, <1>4, <1>5, Outcomes

\* What is read leaves the kernel's room.
LEMMA ReadFrees ==
  ASSUME NEW a \in Nat, NEW b \in Nat, NEW c \in Nat, NEW d \in Nat,
         b - a <= c, a <= d
  PROVE  b - d <= c
OBVIOUS

LEMMA OnReadableEventKeeps ==
  ASSUME ConnectionInv, OnReadableEvent, process = "running"
  PROVE  ConnectionInv'
<1>1. /\ pc = "readable"
      /\ UNCHANGED <<scenario, peerVars, epollVars, writeBuffer, event, received, reported,
                     pushes, pushed>>
  BY DEF OnReadableEvent
<1>2. /\ readBuffer' \in Seq(Byte) /\ Len(readBuffer') <= ReadMax
      /\ taken' \in taken..sent
      /\ closed' \in BOOLEAN /\ filled' \in BOOLEAN
      /\ \/ ~event.in /\ pc' = "writable"
            /\ UNCHANGED <<taken, readBuffer, closed, filled, process>>
         \/ event.in /\ pc' = "readable" /\ process' = "exited" /\ Len(readBuffer) = ReadMax
            /\ UNCHANGED <<taken, readBuffer, closed, filled>>
         \/ event.in /\ pc' = "writable" /\ UNCHANGED <<taken, readBuffer, process>>
            /\ (taken' < sent => filled')
         \/ event.in /\ pc' = "message" /\ UNCHANGED process /\ (taken' < sent => filled')
  BY ReadProperties DEF ConnectionInv
<1>3. ASSUME NEW out \in Seq(Byte), out \o readBuffer = SubSeq(stream, 1, taken)
      PROVE  out \o readBuffer' = SubSeq(stream, 1, taken')
  BY <1>3, ReadProperties DEF ConnectionInv
<1>4. TypeOK'
  <2>1. /\ taken' \in 0..sent' /\ sent' \in 0..Len(stream') /\ sent' - taken' <= ReceiveRoom
    <3>1. taken \in Nat /\ sent \in Nat /\ ReceiveRoom \in Nat /\ sent - taken <= ReceiveRoom
      BY ConnectionAssumption DEF ConnectionInv, TypeOK
    <3>2. sent' = sent /\ stream' = stream /\ sent \in 0..Len(stream)
      BY <1>1 DEF scenario, peerVars, ConnectionInv, TypeOK
    <3>3. taken' \in Nat /\ taken <= taken' /\ taken' <= sent
      BY <1>2, <3>1
    <3>4. PICK t \in Nat : t = taken'
      BY <3>3
    <3>5. sent - t <= ReceiveRoom
      BY <3>1, <3>3, <3>4, ReadFrees
    <3>6. t \in 0..sent
      BY <3>1, <3>3, <3>4
    <3> QED BY <3>2, <3>4, <3>5, <3>6
  <2>2. process' \in {"running", "exited"} /\ pc' \in {"poll", "readable", "message", "writable", "removed"}
    BY <1>2
  <2> QED BY <1>1, <1>2, <2>1, <2>2 DEF ConnectionInv, TypeOK, scenario, peerVars, epollVars
<1>5. EdgeInv'
  <2>1. sent' = sent /\ ready' = ready /\ noSpace' = noSpace /\ event' = event
    BY <1>1 DEF peerVars, epollVars
  <2>2. event.out \/ noSpace \/ ready
    BY <1>1 DEF ConnectionInv, EdgeInv
  <2>3. CASE ~event.in /\ pc' = "writable" /\ UNCHANGED <<taken, readBuffer, closed, filled, process>>
    BY <1>1, <2>1, <2>2, <2>3 DEF ConnectionInv, EdgeInv
  <2>4. CASE event.in /\ pc' = "readable"
    BY <2>1, <2>2, <2>4 DEF EdgeInv
  <2>5. CASE pc' \in {"writable", "message"} /\ (taken' < sent => filled')
    BY <2>1, <2>2, <2>5 DEF EdgeInv
  <2> QED BY <1>2, <2>3, <2>4, <2>5
<1>6. Output' = Output
  BY <1>1 DEF peerVars, Output
<1>7. EchoInv'
  <2> SUFFICES ASSUME handler = "echo" PROVE EchoedInv' /\ EmptiedInv'
    BY <1>1 DEF EchoInv, scenario
  <2>1. readBuffer = <<>> /\ EchoedInv
    BY <1>1 DEF ConnectionInv, EchoInv, EmptiedInv
  <2>2. Len(readBuffer) # ReadMax
    BY <2>1, Sizes
  <2>3. EmptiedInv'
    BY <1>2, <2>1, <2>2 DEF EmptiedInv
  <2>4. EchoedInv'
    <3> SUFFICES ASSUME ~HasNul(stream), ~reported, pushes = 0
                 PROVE  Output \o readBuffer' = SubSeq(stream, 1, taken')
      BY <1>1, <1>6 DEF EchoedInv, scenario
    <3>1. Output \in Seq(Byte)
      BY Concatenation DEF ConnectionInv, TypeOK, Output
    <3> QED BY <1>3, <2>1, <3>1 DEF EchoedInv
  <2> QED BY <2>3, <2>4
<1>8. FramedInv'
  <2> SUFFICES ASSUME handler # "echo" PROVE AlignedInv' /\ WaitingInv' /\ ExitInv' /\ AnsweredInv'
    BY <1>1 DEF FramedInv, scenario
  <2>1. AlignedInv /\ Waiting /\ AnsweredInv
    BY <1>1 DEF ConnectionInv, FramedInv, WaitingInv
  <2>2. AlignedInv'
    <3>1. Wire(handler, SubSeq(messages, 1, Len(received))) \in Seq(Byte)
      <4>1. Len(received) \in 0..Len(messages) /\ messages \in Seq(Seq(Byte))
        BY <2>1 DEF ConnectionInv, TypeOK, AlignedInv
      <4>2. SubSeq(messages, 1, Len(received)) \in Seq(Seq(Byte))
        BY <4>1, WirePrefix
      <4> QED BY <4>2, WireType
    <3>2. Wire(handler, SubSeq(messages, 1, Len(received))) \o readBuffer' = SubSeq(stream, 1, taken')
      BY <1>3, <2>1, <3>1 DEF AlignedInv
    <3> QED BY <1>1, <2>1, <3>2 DEF AlignedInv, AsGiven, scenario
  <2>3. WaitingInv'
    <3>1. pc' \in {"poll", "readable", "writable"} => UNCHANGED <<readBuffer, received, messages>>
      BY <1>1, <1>2 DEF scenario
    <3> QED BY <2>1, <3>1 DEF WaitingInv, Waiting
  <2>4. ExitInv'
    BY <1>2 DEF ExitInv
  <2>5. AnsweredInv'
    BY <1>1, <1>6, <2>1 DEF AnsweredInv, scenario
  <2> QED BY <2>2, <2>3, <2>4, <2>5
<1> QED BY <1>4, <1>5, <1>7, <1>8 DEF ConnectionInv

LEMMA OnWritableEventKeeps ==
  ASSUME ConnectionInv, OnWritableEvent, process = "running"
  PROVE  ConnectionInv'
<1> DEFINE n == AtMost(Len(writeBuffer), SendRoom - Len(outbound))
<1>1. /\ outbound \in Seq(Byte) /\ Len(outbound) \in Nat /\ Len(outbound) <= SendRoom
      /\ writeBuffer \in Seq(Byte) /\ Len(writeBuffer) \in Nat /\ Len(writeBuffer) <= WriteMax
      /\ delivered \in Seq(Byte) /\ TypeOK /\ EdgeInv
  BY DEF ConnectionInv, TypeOK
<1>2. n \in Nat /\ n <= Len(writeBuffer) /\ Len(outbound) + n <= SendRoom
  BY <1>1, Sizes DEF AtMost
<1>3. /\ pc = "writable" /\ pc' \in {"removed", "poll"}
      /\ UNCHANGED <<scenario, sent, finished, delivered, ready, taken, readBuffer, closed,
                     event, process, received, reported, pushes, filled>>
  BY DEF OnWritableEvent
<1>4. /\ outbound' \in Seq(Byte) /\ Len(outbound') <= SendRoom
      /\ writeBuffer' \in Seq(Byte) /\ Len(writeBuffer') <= WriteMax
      /\ noSpace' \in BOOLEAN /\ pushed' \in BOOLEAN /\ (noSpace => noSpace')
      /\ Output' = Output
      /\ event.out => (writeBuffer' # <<>> => noSpace')
      /\ ~event.out => UNCHANGED <<outbound, writeBuffer, noSpace, pushed>>
  <2>1. CASE ~event.out
    <3>1. UNCHANGED <<outbound, writeBuffer, noSpace, pushed>>
      BY <2>1 DEF OnWritableEvent
    <3> QED BY <1>1, <1>3, <2>1, <3>1 DEF TypeOK, Output
  <2>2. CASE event.out
    <3>1. /\ outbound' = outbound \o Take(writeBuffer, n)
          /\ writeBuffer' = Drop(writeBuffer, n)
          /\ noSpace' = (noSpace \/ n < Len(writeBuffer))
          /\ pushed' = FALSE
      BY <2>2 DEF OnWritableEvent, Written
    <3> HIDE DEF n
    <3>2. AtMost(n, Len(writeBuffer)) = n
      BY <1>2 DEF AtMost
    <3>3. /\ outbound' \in Seq(Byte) /\ outbound' \o writeBuffer' = outbound \o writeBuffer
      BY <1>1, <1>2, <3>1, MovingBytes
    <3>4. Len(outbound') = Len(outbound) + n
      <4>1. Len(outbound \o Take(writeBuffer, n)) = Len(outbound) + AtMost(n, Len(writeBuffer))
        BY <1>1, <1>2, MovingBytes
      <4> QED BY <3>1, <3>2, <4>1
    <3>5. /\ writeBuffer' \in Seq(Byte) /\ Len(writeBuffer') = Len(writeBuffer) - n
          /\ n = Len(writeBuffer) => writeBuffer' = <<>>
      BY <1>1, <1>2, <3>1, <3>2, TakeProperties
    <3>6. Output' = Output
      <4>1. (delivered \o outbound') \o writeBuffer' = delivered \o (outbound' \o writeBuffer')
        BY <1>1, <3>3, <3>5, Concatenation
      <4>2. (delivered \o outbound) \o writeBuffer = delivered \o (outbound \o writeBuffer)
        BY <1>1, Concatenation
      <4> QED BY <1>3, <3>3, <4>1, <4>2 DEF Output
    <3>7. writeBuffer' # <<>> => noSpace'
      <4>1. n < Len(writeBuffer) \/ n = Len(writeBuffer)
        BY <1>1, <1>2
      <4> QED BY <3>1, <3>5, <4>1
    <3>8. noSpace' \in BOOLEAN /\ pushed' \in BOOLEAN /\ (noSpace => noSpace')
      BY <3>1
    <3>9. Len(outbound') <= SendRoom /\ Len(writeBuffer') <= WriteMax
      BY <1>1, <1>2, <3>4, <3>5, Sizes
    <3> QED BY <2>2, <3>3, <3>5, <3>6, <3>7, <3>8, <3>9
  <2> QED BY <2>1, <2>2
<1>5. TypeOK'
  BY <1>1, <1>3, <1>4 DEF TypeOK, scenario
<1>6. EdgeInv'
  <2>1. taken' < sent' => ready' \/ filled'
    BY <1>1, <1>3 DEF EdgeInv
  <2>2. writeBuffer' # <<>> => ready' \/ noSpace' \/ pushed'
    <3>1. event.out \/ noSpace \/ ready
      BY <1>1, <1>3 DEF EdgeInv
    <3>2. ready' = ready
      BY <1>3
    <3> QED BY <1>4, <3>1, <3>2
  <2> QED BY <1>3, <2>1, <2>2 DEF EdgeInv
<1>7. EchoInv' /\ FramedInv'
  BY <1>3, <1>4, QuietSteps DEF ConnectionInv, scenario
<1> QED BY <1>5, <1>6, <1>7 DEF ConnectionInv

-----------------------------------------------------------------------------
(* The invariant holds throughout. *)

\* The invariant holds, whatever the callback.
LEMMA ConnectionKept == Spec => []ConnectionInv
<1>1. Init => ConnectionInv
  BY InitHolds
<1>2. ConnectionInv /\ [Next]_vars => ConnectionInv'
  <2> SUFFICES ASSUME ConnectionInv, [Next]_vars PROVE ConnectionInv'
    OBVIOUS
  <2>1. ASSUME NEW n \in Segments, PeerSends(n)
        PROVE  ConnectionInv'
    BY <2>1, PeerSendsKeeps
  <2>2. ASSUME NEW n \in Segments, PeerReceives(n)
        PROVE  ConnectionInv'
    BY <2>2, PeerReceivesKeeps
  <2>3. CASE PeerFinishes
    BY <2>3, PeerFinishesKeeps
  <2>4. CASE SendElsewhere
    BY <2>4, SendElsewhereKeeps
  <2>5. CASE process = "running" /\ Poll
    BY <2>5, PollKeeps
  <2>6. CASE process = "running" /\ OnReadableEvent
    BY <2>6, OnReadableEventKeeps
  <2>7. CASE EchoMessage
    BY <2>7, EchoMessageKeeps
  <2>8. CASE TakeMessage
    BY <2>8, TakeMessageKeeps
  <2>9. CASE process = "running" /\ OnWritableEvent
    BY <2>9, OnWritableEventKeeps
  <2>10. CASE UNCHANGED vars
    <3>1. TypeOK' /\ EdgeInv'
      BY <2>10 DEF ConnectionInv, vars, scenario, peerVars, epollVars, objectVars, historyVars,
             TypeOK, EdgeInv
    <3>2. EchoInv' /\ FramedInv'
      BY <2>10, QuietSteps DEF ConnectionInv, vars, scenario, peerVars, epollVars, objectVars,
             historyVars, Output
    <3> QED BY <3>1, <3>2 DEF ConnectionInv
  <2> QED BY <2>1, <2>2, <2>3, <2>4, <2>5, <2>6, <2>7, <2>8, <2>9, <2>10 DEF Next, ServerStep
<1> QED BY <1>1, <1>2, PTL DEF Spec

-----------------------------------------------------------------------------
(* The theorems, for buffers, kernel queues, streams and segments of any size. *)

\* Every variable keeps its type: no buffer outgrows its limit, and the server never
\* reads more than was sent.
THEOREM ConnectionTypes == Spec => []TypeOK
<1>1. ConnectionInv => TypeOK
  BY DEF ConnectionInv
<1> QED BY <1>1, ConnectionKept, PTL

\* The echo returns the peer's bytes in order and once each (main.cpp onMessage,
\* TcpConnection::sendRaw, onReadableEvent and onWritableEvent).
THEOREM EchoIsReturned == Spec => []EchoIsExact
<1>1. ConnectionInv => EchoIsExact
  <2> SUFFICES ASSUME ConnectionInv, handler = "echo", ~HasNul(stream), ~reported, pushes = 0
               PROVE  Output \o readBuffer = Take(stream, taken)
    BY DEF EchoIsExact
  <2>1. Output \o readBuffer = SubSeq(stream, 1, taken)
    BY DEF ConnectionInv, EchoInv, EchoedInv
  <2>2. AtMost(taken, Len(stream)) = taken
    BY DEF ConnectionInv, TypeOK, AtMost
  <2> QED BY <2>1, <2>2 DEF Take
<1> QED BY <1>1, ConnectionKept, PTL

\* The callback gets the peer's messages one by one and as they were sent, however
\* the stream is cut (TcpConnection::receiveMessage and receiveMessageAsString with
\* Buffer::peekIntWithLength).
THEOREM MessagesArrive == Spec => []MessagesArriveAsSent
<1>1. ConnectionInv => MessagesArriveAsSent
  <2> SUFFICES ASSUME ConnectionInv, handler # "echo" PROVE MessagesArriveAsSent
    BY DEF MessagesArriveAsSent
  <2>1. TypeOK /\ AlignedInv
    BY DEF ConnectionInv, FramedInv
  <2>2. /\ messages \in Seq(Seq(Byte)) /\ received \in Seq(Seq(Byte))
        /\ Len(received) \in 0..Len(messages) /\ Len(received) \in Nat
    BY <2>1 DEF TypeOK, AlignedInv
  <2> DEFINE whole == SubSeq(messages, 1, Len(received))
  <2>3. /\ whole \in Seq(Seq(Byte)) /\ Len(whole) = Len(received)
        /\ \A i \in 1..Len(received) : whole[i] = messages[i]
    <3>1. \A i \in 1..Len(received) : messages[i] \in Seq(Byte)
      BY <2>2
    <3>2. /\ whole \in Seq(Seq(Byte))
          /\ Len(whole) = IF 1 <= Len(received) THEN Len(received) - 1 + 1 ELSE 0
          /\ \A i \in 1..Len(received) - 1 + 1 : whole[i] = messages[1 + i - 1]
      BY <2>2, <3>1, SubSeqProperties
    <3> QED BY <2>2, <3>2
  <2> HIDE DEF whole
  <2>4. Wire(handler, whole) \o readBuffer = Take(stream, taken)
    <3>1. AtMost(taken, Len(stream)) = taken
      BY <2>1 DEF TypeOK, AtMost
    <3> QED BY <2>1, <3>1 DEF Take, AlignedInv, whole
  <2>5. \A i \in 1..Len(received) : received[i] = AsGiven(whole[i])
    BY <2>1, <2>3 DEF AlignedInv
  <2>6. handler = "chars" => received = whole
    <3> SUFFICES ASSUME handler = "chars" PROVE received = whole
      OBVIOUS
    <3>1. \A i \in 1..Len(received) : received[i] = whole[i]
      BY <2>5 DEF AsGiven
    <3> QED BY <2>2, <2>3, <3>1, SeqEqual
  <2>7. handler # "chars" => received = [i \in DOMAIN whole |-> AsCString(whole[i])]
    <3> SUFFICES ASSUME handler # "chars" PROVE received = [i \in DOMAIN whole |-> AsCString(whole[i])]
      OBVIOUS
    <3>1. \A i \in 1..Len(received) : received[i] = AsCString(whole[i])
      BY <2>5 DEF AsGiven
    <3>2. DOMAIN whole = 1..Len(received) /\ DOMAIN received = 1..Len(received)
      BY <2>2, <2>3
    <3>3. received = [i \in DOMAIN received |-> received[i]]
      BY <2>2
    <3> QED BY <3>1, <3>2, <3>3
  <2> QED BY <2>2, <2>4, <2>6, <2>7 DEF MessagesArriveAsSent, whole
<1> QED BY <1>1, ConnectionKept, PTL

\* What the callbacks answer goes out as whole frames in order, which a peer can take
\* apart again (TcpConnection::sendMessage).
THEOREM AnswersAreReadable == Spec => []AnswersAreFramed
<1>1. ConnectionInv => AnswersAreFramed
  BY DEF ConnectionInv, FramedInv, AnsweredInv, AnswersAreFramed
<1> QED BY <1>1, ConnectionKept, PTL

\* No edge of the socket is missed: what is left in the kernel or in the write buffer
\* while the worker waits has an event to come or owed, except for the two cases that
\* NothingIsForgotten names.
THEOREM NoEdgeIsMissed == Spec => []NothingIsForgotten
<1>1. ConnectionInv => NothingIsForgotten
  BY DEF ConnectionInv, EdgeInv, NothingIsForgotten
<1> QED BY <1>1, ConnectionKept, PTL

\* The exit(0) of a full read buffer (tcpConnection.cpp:170-173) is reached only over a
\* message that is larger than the buffer, or after an empty message that the callback
\* took for the last one; never by the echo.
THEOREM ExitsOverLargeMessages == Spec => []ExitsOnlyWhenFull
<1>1. ConnectionInv => ExitsOnlyWhenFull
  <2> SUFFICES ASSUME ConnectionInv, process = "exited"
               PROVE  /\ handler # "echo"
                      /\ \/ \E i \in DOMAIN received : received[i] = <<>>
                         \/ Len(OnWire(messages[Len(received) + 1])) > ReadMax
    BY DEF ExitsOnlyWhenFull
  <2>1. handler # "echo"
    BY DEF ConnectionInv, EchoInv, EmptiedInv
  <2>2. TypeOK /\ AlignedInv /\ Waiting /\ Len(readBuffer) = ReadMax
    BY <2>1 DEF ConnectionInv, FramedInv, WaitingInv, ExitInv
  <2>3. CASE Len(received) = Len(messages)
    <3>1. readBuffer = <<>>
      BY <2>2, <2>3, NothingLeft
    <3>2. Len(readBuffer) = 0
      BY <3>1
    <3> QED BY <2>2, <3>2, Sizes
  <2>4. CASE Len(received) # Len(messages)
    <3>1. Len(received) + 1 \in 1..Len(messages)
      BY <2>2, <2>4 DEF TypeOK, AlignedInv
    <3>2. PICK m \in Seq(Byte) : m = messages[Len(received) + 1]
      BY <2>2, <3>1 DEF TypeOK
    <3>3. Len(OnWire(m)) \in Nat
      BY OnWireProperties
    <3> QED BY <2>1, <2>2, <2>4, <3>2, <3>3, Sizes DEF Waiting
  <2> QED BY <2>3, <2>4
<1> QED BY <1>1, ConnectionKept, PTL
=============================================================================
