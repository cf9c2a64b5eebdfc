--------------------------- MODULE Buffer_proofs ---------------------------
(***************************************************************************)
(* Proofs about Buffer, for bytes, sizes and strings of any number: the    *)
(* indices agree, and the ring implements a queue of bytes.                *)
(***************************************************************************)
EXTENDS Buffer, TLAPS, SequenceTheorems

\* A write that has to grow was given a string that does not fit, and room is left
\* for some of it.
GrowingInv ==
  growing =>
    /\ currentSize < MaxSize
    /\ count + Len(source) > currentSize

Inv == RingInvariant /\ GrowingInv

-----------------------------------------------------------------------------
(* Remainders and strings. *)

\* Remainders are kept folded: the solver does not get far with a variable divisor.
Mod(n, size) == n % size

LEMMA ModType ==
  ASSUME NEW n \in Int, NEW size \in Nat, size > 0
  PROVE  Mod(n, size) \in Nat /\ Mod(n, size) < size
BY DEF Mod

\* Indices are less than twice the size before they are reduced.
LEMMA Wrap ==
  ASSUME NEW n \in Nat, NEW size \in Nat, size > 0, n < 2 * size
  PROVE  Mod(n, size) = IF n < size THEN n ELSE n - size
BY DEF Mod

LEMMA StringsAreSequences ==
  ASSUME NEW s \in Strings
  PROVE  /\ s \in Seq(Byte) /\ Len(s) \in 0..MaxLen
         /\ s \in [1..Len(s) -> Byte] /\ \A i \in 1..Len(s) : s[i] \in Byte
<1>1. PICK n \in 0..MaxLen : s \in [1..n -> Byte]
  BY DEF Strings
<1>2. n \in Nat
  BY BufferAssumption
<1>3. s \in Seq(Byte) /\ Len(s) = n
  BY <1>1, <1>2
<1> QED BY <1>1, <1>2, <1>3

\* The n bytes of the array mem from position first on, going round.
Around(mem, first, size, n) == [i \in 1..n |-> mem[Mod(first + i - 1, size)]]

LEMMA AroundProperties ==
  ASSUME NEW size \in Nat, NEW mem \in [0..size - 1 -> Byte], NEW first \in Nat,
         NEW n \in 0..size
  PROVE  /\ Around(mem, first, size, n) \in Seq(Byte)
         /\ Len(Around(mem, first, size, n)) = n
         /\ \A i \in 1..n : Around(mem, first, size, n)[i] = mem[Mod(first + i - 1, size)]
<1>1. \A i \in 1..n : mem[Mod(first + i - 1, size)] \in Byte
  <2> SUFFICES ASSUME NEW i \in 1..n
               PROVE  mem[Mod(first + i - 1, size)] \in Byte
    OBVIOUS
  <2>1. size > 0 /\ first + i - 1 \in Int
    OBVIOUS
  <2>2. Mod(first + i - 1, size) \in 0..size - 1
    BY <2>1, ModType
  <2> QED BY <2>2
<1>2. n \in Nat
  OBVIOUS
<1>3. Around(mem, first, size, n) \in [1..n -> Byte]
  BY <1>1 DEF Around
<1>4. Around(mem, first, size, n) \in Seq(Byte) /\ Len(Around(mem, first, size, n)) = n
  BY <1>2, <1>3
<1>5. \A i \in 1..n : Around(mem, first, size, n)[i] = mem[Mod(first + i - 1, size)]
  BY DEF Around
<1> QED BY <1>4, <1>5

\* What Peek returns: the bytes from _begin on.
LEMMA PeekIsAround ==
  /\ \A n : Peek(n) = Around(data, begin, currentSize, n)
  /\ Content = Around(data, begin, currentSize, count)
  /\ Content' = Around(data', begin', currentSize', count')
BY DEF Content, Peek, Around, Mod

LEMMA PeekProperties ==
  ASSUME RingInvariant, NEW n \in 0..count
  PROVE  /\ Peek(n) \in Seq(Byte) /\ Len(Peek(n)) = n
         /\ \A i \in 1..n : Peek(n)[i] = data[Mod(begin + i - 1, currentSize)]
<1>1. /\ currentSize \in Nat /\ data \in [0..currentSize - 1 -> Byte] /\ begin \in Nat
      /\ n \in 0..currentSize
  BY BufferAssumption DEF RingInvariant, TypeOK
<1> QED BY <1>1, AroundProperties, PeekIsAround

\* How far the k-th position from first on is behind the c-th, going round.
LEMMA Distance ==
  ASSUME NEW size \in Nat, size > 0, NEW first \in 0..size - 1,
         NEW k \in 0..size - 1, NEW c \in 0..size
  PROVE  Mod(Mod(first + k, size) + size - Mod(first + c, size), size)
           = IF k < c THEN k + size - c ELSE k - c
<1> DEFINE p == Mod(first + k, size)
           q == Mod(first + c, size)
<1>1. p = IF first + k < size THEN first + k ELSE first + k - size
  BY Wrap
<1>2. q = IF first + c < size THEN first + c ELSE first + c - size
  BY Wrap
<1> HIDE DEF p, q
<1> DEFINE m == p + size - q
<1>4. m \in Nat /\ m < 2 * size
  BY <1>1, <1>2
<1>5. (IF m < size THEN m ELSE m - size) = IF k < c THEN k + size - c ELSE k - c
  BY <1>1, <1>2
<1> HIDE DEF m
<1>6. Mod(m, size) = IF m < size THEN m ELSE m - size
  BY <1>4, Wrap
<1>7. Mod(m, size) = IF k < c THEN k + size - c ELSE k - c
  BY <1>5, <1>6
<1> QED BY <1>7 DEF m, p, q

\* The first n bytes of s are in the array, from a position on.
Holds(mem, first, size, s, n) == \A i \in 1..n : mem[Mod(first + i - 1, size)] = s[i]

\* As many bytes of s as fit in an array of the given size.
Taken(s, size) == AtMost(Len(s), size - count)

\* What the loop of write does: the content stays, and as many bytes of the string as
\* there is room for come behind it.
LEMMA StoreProperties ==
  ASSUME NEW size \in Nat, NEW first \in Nat, NEW last, NEW mem \in [0..size - 1 -> Byte],
         NEW s \in Seq(Byte), count \in 0..size,
         IF size = 0 THEN first = 0 /\ last = 0
                     ELSE first < size /\ last = Mod(first + count, size),
         Store(mem, size, last, s)
  PROVE  /\ Taken(s, size) \in 0..Len(s)
         /\ data' \in [0..size - 1 -> Byte]
         /\ count' = count + Taken(s, size) /\ count' \in 0..size
         /\ end' = IF size = 0 THEN 0 ELSE Mod(first + count', size)
         /\ Around(data', first, size, count) = Around(mem, first, size, count)
         /\ Holds(data', first + count, size, s, Taken(s, size))
<1> DEFINE n == Taken(s, size)
           Offset(i) == Mod(i + size - last, size)
<1>1. /\ Len(s) \in Nat /\ n \in Nat /\ n <= Len(s) /\ n <= size - count /\ count \in Nat
      /\ n = Len(s) \/ n = size - count
  BY DEF AtMost, Taken
<1>2. /\ data' = [i \in 0..size - 1 |-> IF Offset(i) < n THEN s[Offset(i) + 1] ELSE mem[i]]
      /\ end' = IF n = 0 THEN last ELSE Mod(last + n, size)
      /\ count' = count + n
  BY DEF Store, Mod, Taken
<1>3. \A i \in 1..Len(s) : s[i] \in Byte
  OBVIOUS
<1> HIDE DEF n
<1>4. CASE size = 0
  <2>1. n = 0 /\ count = 0
    BY <1>1, <1>4
  <2>2. data' \in [0..size - 1 -> Byte]
    BY <1>2, <1>4
  <2>3. /\ n \in 0..Len(s) /\ count' = count + n /\ count' \in 0..size /\ end' = 0
        /\ \A i \in 1..count : FALSE
        /\ \A i \in 1..n : FALSE
    BY <1>1, <1>2, <1>4, <2>1
  <2>4. Around(data', first, size, count) = Around(mem, first, size, count)
    BY <2>3 DEF Around
  <2>5. Holds(data', first + count, size, s, n)
    BY <2>3 DEF Holds
  <2> QED BY <1>4, <2>2, <2>3, <2>4, <2>5 DEF n
<1>5. CASE size > 0
  <2>1. first \in 0..size - 1 /\ last = Mod(first + count, size) /\ last \in 0..size - 1
    BY <1>1, <1>5, ModType
  <2>2. \A i \in 0..size - 1 : Offset(i) \in Nat /\ Offset(i) < size
    <3> SUFFICES ASSUME NEW i \in 0..size - 1 PROVE Offset(i) \in Nat /\ Offset(i) < size
      OBVIOUS
    <3>1. i + size - last \in Int
      BY <2>1
    <3> QED BY <1>5, <3>1, ModType
  <2>3. \A k \in 0..size - 1 : /\ Mod(first + k, size) \in 0..size - 1
                               /\ Offset(Mod(first + k, size))
                                    = IF k < count THEN k + size - count ELSE k - count
    <3> SUFFICES ASSUME NEW k \in 0..size - 1
                 PROVE  /\ Mod(first + k, size) \in 0..size - 1
                        /\ Offset(Mod(first + k, size))
                             = IF k < count THEN k + size - count ELSE k - count
      OBVIOUS
    <3>1. first + k \in Int
      BY <2>1
    <3>2. Mod(first + k, size) \in Nat /\ Mod(first + k, size) < size
      BY <1>5, <3>1, ModType
    <3>3. Mod(first + k, size) \in 0..size - 1
      BY <3>2
    <3>4. Mod(Mod(first + k, size) + size - Mod(first + count, size), size)
            = IF k < count THEN k + size - count ELSE k - count
      BY <1>5, <2>1, Distance
    <3> QED BY <2>1, <3>3, <3>4
  <2> HIDE DEF Offset
  <2>4. data' \in [0..size - 1 -> Byte]
    <3> SUFFICES ASSUME NEW i \in 0..size - 1
                 PROVE  (IF Offset(i) < n THEN s[Offset(i) + 1] ELSE mem[i]) \in Byte
      BY <1>2
    <3> DEFINE o == Offset(i)
    <3>1. o \in Nat
      BY <2>2
    <3> HIDE DEF o
    <3>2. o < n => o + 1 \in 1..Len(s)
      BY <1>1, <3>1
    <3>3. (IF o < n THEN s[o + 1] ELSE mem[i]) \in Byte
      BY <1>3, <3>2
    <3> QED BY <3>3 DEF o
  <2>5. \A i \in 1..count : data'[Mod(first + i - 1, size)] = mem[Mod(first + i - 1, size)]
    <3> SUFFICES ASSUME NEW i \in 1..count
                 PROVE  data'[Mod(first + i - 1, size)] = mem[Mod(first + i - 1, size)]
      OBVIOUS
    <3> DEFINE k == i - 1
    <3>1. k \in 0..size - 1 /\ k < count /\ first + i - 1 = first + k
      BY <1>1, <2>1
    <3> HIDE DEF k
    <3>2. ~(Offset(Mod(first + k, size)) < n)
      BY <1>1, <2>3, <3>1
    <3> QED BY <1>2, <2>3, <3>1, <3>2
  <2>6. \A i \in 1..n : data'[Mod(first + count + i - 1, size)] = s[i]
    <3> SUFFICES ASSUME NEW i \in 1..n
                 PROVE  data'[Mod(first + count + i - 1, size)] = s[i]
      OBVIOUS
    <3> DEFINE k == count + i - 1
    <3>1. /\ k \in 0..size - 1 /\ ~(k < count) /\ first + count + i - 1 = first + k
          /\ k - count = i - 1
      BY <1>1, <2>1
    <3> HIDE DEF k
    <3>2. Offset(Mod(first + k, size)) = i - 1
      BY <2>3, <3>1
    <3>3. i - 1 < n /\ i - 1 + 1 = i
      BY <1>1
    <3> QED BY <1>2, <2>3, <3>1, <3>2, <3>3
  <2>7. end' = Mod(first + count', size)
    <3>1. CASE n = 0
      BY <1>1, <1>2, <2>1, <3>1
    <3>2. CASE n # 0
      <4>1. last = IF first + count < size THEN first + count ELSE first + count - size
        BY <1>1, <1>5, <2>1, Wrap
      <4>2. Mod(last + n, size) = IF last + n < size THEN last + n ELSE last + n - size
        BY <1>1, <1>5, <2>1, Wrap
      <4>3. Mod(first + (count + n), size) = IF first + (count + n) < size THEN first + (count + n)
                                             ELSE first + (count + n) - size
        BY <1>1, <1>5, <2>1, Wrap
      <4>4. Mod(last + n, size) = Mod(first + (count + n), size)
        BY <1>1, <2>1, <4>1, <4>2, <4>3
      <4> QED BY <1>2, <3>2, <4>4
    <3> QED BY <3>1, <3>2
  <2>8. n \in 0..Len(s) /\ count' = count + n /\ count' \in 0..size /\ size # 0
    BY <1>1, <1>2, <1>5
  <2>9. Around(data', first, size, count) = Around(mem, first, size, count)
    BY <2>5 DEF Around
  <2>10. Holds(data', first + count, size, s, n)
    BY <2>6 DEF Holds
  <2> QED BY <2>4, <2>7, <2>8, <2>9, <2>10 DEF n
<1>6. size = 0 \/ size > 0
  OBVIOUS
<1> QED BY <1>4, <1>5, <1>6

-----------------------------------------------------------------------------
(* The indices agree. *)

LEMMA InitInv == Init => Inv
<1> SUFFICES ASSUME Init PROVE Inv
  OBVIOUS
<1>1. Zeros(InitSize) \in [0..InitSize - 1 -> Byte]
  BY BufferAssumption DEF Zeros
<1>2. <<>> \in Strings
  <2>1. <<>> \in [1..0 -> Byte]
    OBVIOUS
  <2>2. 0 \in 0..MaxLen
    BY BufferAssumption
  <2> QED BY <2>1, <2>2 DEF Strings
<1>3. TypeOK
  <2>1. <<>> \in Seq(Byte)
    OBVIOUS
  <2>2. InitSize \in 0..MaxSize /\ 0 \in 0..InitSize /\ 0 \in Nat
    BY BufferAssumption
  <2> QED BY <1>1, <1>2, <2>1, <2>2 DEF Init, TypeOK
<1>4. InitSize > 0 => Mod(0 + 0, InitSize) = 0
  BY BufferAssumption, Wrap
<1>5. RingInvariant
  BY <1>3, <1>4, BufferAssumption DEF Init, RingInvariant, Mod
<1> QED BY <1>5 DEF Init, Inv, GrowingInv

\* A write as it finds the array keeps the indices in step.
LEMMA WriteInv ==
  ASSUME Inv, NEW s \in Strings, Write(s)
  PROVE  Inv'
<1>1. s \in Seq(Byte)
  BY StringsAreSequences
<1>2. /\ currentSize \in Nat /\ begin \in Nat /\ count \in 0..currentSize
      /\ data \in [0..currentSize - 1 -> Byte]
      /\ IF currentSize = 0 THEN begin = 0 /\ end = 0
         ELSE begin < currentSize /\ end = Mod(begin + count, currentSize)
  BY BufferAssumption DEF Inv, RingInvariant, TypeOK, Mod
<1>3. Store(data, currentSize, end, s)
  BY DEF Write
<1>4. /\ data' \in [0..currentSize - 1 -> Byte] /\ count' \in 0..currentSize
      /\ end' = IF currentSize = 0 THEN 0 ELSE Mod(begin + count', currentSize)
  BY <1>1, <1>2, <1>3, StoreProperties
<1>5. end' \in 0..currentSize
  <2>1. currentSize > 0 => /\ Mod(begin + count', currentSize) \in Nat
                           /\ Mod(begin + count', currentSize) < currentSize
    BY <1>2, <1>4, ModType
  <2> QED BY <1>2, <1>4, <2>1
<1>6. UNCHANGED <<currentSize, begin, out, growVars>> /\ ~growing
  BY DEF Write
<1>7. TypeOK'
  BY <1>4, <1>5, <1>6 DEF Inv, RingInvariant, TypeOK, growVars
<1> QED BY <1>2, <1>4, <1>6, <1>7 DEF Inv, RingInvariant, GrowingInv, growVars, Mod

\* Reading and skipping: _begin goes forward and _end stays.
LEMMA Forward ==
  ASSUME NEW size \in Nat, size > 0, NEW b \in 0..size - 1, NEW c \in 0..size, NEW m \in 0..c
  PROVE  /\ Mod(b + m, size) \in 0..size - 1
         /\ Mod(Mod(b + m, size) + (c - m), size) = Mod(b + c, size)
         /\ \A i \in Nat : i < c - m =>
              Mod(Mod(b + m, size) + i, size) = Mod(b + m + i, size)
<1> DEFINE p == Mod(b + m, size)
<1>1. p = IF b + m < size THEN b + m ELSE b + m - size
  BY Wrap
<1>2. p \in 0..size - 1
  BY <1>1
<1> HIDE DEF p
<1>3. \A i \in 0..c - m : Mod(p + i, size) = Mod(b + m + i, size)
  <2> SUFFICES ASSUME NEW i \in 0..c - m PROVE Mod(p + i, size) = Mod(b + m + i, size)
    OBVIOUS
  <2>1. Mod(p + i, size) = IF p + i < size THEN p + i ELSE p + i - size
    BY <1>2, Wrap
  <2>2. Mod(b + m + i, size) = IF b + m + i < size THEN b + m + i ELSE b + m + i - size
    BY Wrap
  <2> QED BY <1>1, <2>1, <2>2
<1>4. c - m \in 0..c - m /\ b + m + (c - m) = b + c
  OBVIOUS
<1>5. Mod(p + (c - m), size) = Mod(b + c, size)
  BY <1>3, <1>4
<1> QED BY <1>2, <1>3, <1>5 DEF p

LEMMA ReadInv ==
  ASSUME Inv, NEW n \in 0..MaxLen, Read(n)
  PROVE  Inv'
<1> DEFINE m == AtMost(n, count)
<1>1. /\ currentSize \in Nat /\ begin \in Nat /\ count \in 0..currentSize /\ n \in Nat
      /\ currentSize = 0 => begin = 0 /\ end = 0
      /\ currentSize > 0 => begin \in 0..currentSize - 1 /\ end = Mod(begin + count, currentSize)
  BY BufferAssumption DEF Inv, RingInvariant, TypeOK, Mod
<1>2. m \in 0..count
  BY <1>1 DEF AtMost
<1>3. /\ out' = Peek(m) /\ count' = count - m /\ ~growing
      /\ begin' = IF m = 0 THEN begin ELSE Mod(begin + m, currentSize)
      /\ UNCHANGED <<data, currentSize, end, growVars>>
  BY DEF Read, Mod
<1>4. Peek(m) \in Seq(Byte)
  BY <1>2, PeekProperties DEF Inv
<1> HIDE DEF m
<1>5. /\ currentSize = 0 => begin' = 0 /\ end' = 0
      /\ currentSize > 0 => begin' \in 0..currentSize - 1 /\ end' = Mod(begin' + count', currentSize)
  <2>1. CASE m = 0
    <3>1. begin' = begin /\ count' = count /\ end' = end
      BY <1>1, <1>3, <2>1
    <3> QED BY <1>1, <1>3, <3>1
  <2>2. CASE m # 0
    <3>1. currentSize > 0
      BY <1>1, <1>2, <2>2
    <3>2. /\ Mod(begin + m, currentSize) \in 0..currentSize - 1
          /\ Mod(Mod(begin + m, currentSize) + (count - m), currentSize) = Mod(begin + count, currentSize)
      BY <1>1, <1>2, <3>1, Forward
    <3> QED BY <1>1, <1>3, <2>2, <3>1, <3>2
  <2> QED BY <2>1, <2>2
<1>6. count' \in 0..currentSize /\ begin' \in 0..currentSize
  BY <1>1, <1>2, <1>3, <1>5
<1>7. TypeOK'
  BY <1>3, <1>4, <1>6 DEF Inv, RingInvariant, TypeOK, growVars
<1> QED BY <1>1, <1>3, <1>5, <1>7 DEF Inv, RingInvariant, GrowingInv, growVars, Mod

LEMMA SkipHeadInv ==
  ASSUME Inv, NEW n \in 0..MaxLen, SkipHead(n)
  PROVE  Inv'
<1>1. /\ currentSize \in Nat /\ begin \in Nat /\ count \in 0..currentSize /\ n \in 0..count
      /\ currentSize > 0
      /\ currentSize > 0 => begin \in 0..currentSize - 1 /\ end = Mod(begin + count, currentSize)
  BY BufferAssumption DEF Inv, RingInvariant, TypeOK, Mod, SkipHead
<1>2. /\ count' = count - n /\ ~growing /\ begin' = Mod(begin + n, currentSize)
      /\ UNCHANGED <<data, currentSize, end, out, growVars>>
  BY DEF SkipHead, Mod
<1>3. /\ Mod(begin + n, currentSize) \in 0..currentSize - 1
      /\ Mod(Mod(begin + n, currentSize) + (count - n), currentSize) = Mod(begin + count, currentSize)
  BY <1>1, Forward
<1>4. count' \in 0..currentSize /\ begin' \in 0..currentSize - 1 /\ begin' \in 0..currentSize
  BY <1>1, <1>2, <1>3
<1>5. TypeOK'
  BY <1>2, <1>4 DEF Inv, RingInvariant, TypeOK, growVars
<1>6. end' = Mod(begin' + count', currentSize')
  BY <1>1, <1>2, <1>3
<1> QED BY <1>1, <1>2, <1>4, <1>5, <1>6 DEF Inv, RingInvariant, GrowingInv, growVars, Mod

LEMMA CopyInv ==
  ASSUME Inv, NEW n \in 0..MaxLen, Copy(n)
  PROVE  Inv'
<1>1. AtMost(n, count) \in 0..count
  BY BufferAssumption DEF AtMost, Inv, RingInvariant, TypeOK
<1>2. Peek(AtMost(n, count)) \in Seq(Byte)
  BY <1>1, PeekProperties DEF Inv
<1>3. out' = Peek(AtMost(n, count)) /\ UNCHANGED <<ring, growVars>>
  BY DEF Copy
<1>4. TypeOK'
  BY <1>2, <1>3 DEF Inv, RingInvariant, TypeOK, ring, growVars
<1> QED BY <1>3, <1>4 DEF Inv, RingInvariant, GrowingInv, ring, growVars

LEMMA ClearInv ==
  ASSUME Inv, Clear
  PROVE  Inv'
<1>1. TypeOK'
  BY BufferAssumption DEF Inv, RingInvariant, TypeOK, Clear, growVars
<1>2. currentSize \in Nat
  BY BufferAssumption DEF Inv, RingInvariant, TypeOK
<1>3. currentSize > 0 => Mod(0 + 0, currentSize) = 0
  BY <1>2, Wrap
<1> QED BY <1>1, <1>2, <1>3 DEF Inv, RingInvariant, GrowingInv, Clear, growVars, Mod

LEMMA StartGrowInv ==
  ASSUME Inv, NEW s \in Strings, StartGrow(s)
  PROVE  Inv'
<1>1. TypeOK'
  BY BufferAssumption DEF Inv, RingInvariant, TypeOK, StartGrow, ring
<1> QED BY <1>1 DEF Inv, RingInvariant, GrowingInv, StartGrow, NeedGrow, CanGrow, ring

LEMMA GrowMoreInv ==
  ASSUME Inv, GrowMore
  PROVE  Inv'
<1>1. Enlarged(newSize) \in Nat
  BY DEF Inv, RingInvariant, TypeOK, Enlarged
<1>2. TypeOK'
  BY <1>1 DEF Inv, RingInvariant, TypeOK, GrowMore, ring
<1> QED BY <1>2 DEF Inv, RingInvariant, GrowingInv, GrowMore, ring

\* The array that grow allocates, with the content at its start.
Moved(size) == [i \in 0..size - 1 |-> IF i < count THEN Content[i + 1] ELSE 0]

\* What growing leaves: the old content, moved, and the string behind it.
LEMMA GrowProperties ==
  ASSUME Inv, GrowAndWrite, NEW size, size = AtMost(newSize, MaxSize)
  PROVE  /\ size \in 1..MaxSize /\ count \in 0..size - 1
         /\ size = MaxSize \/ size - count >= Len(source)
         /\ Taken(source, size) \in 0..Len(source)
         /\ data' \in [0..size - 1 -> Byte]
         /\ count' = count + Taken(source, size) /\ count' \in 0..size
         /\ end' = Mod(0 + count', size) /\ end' \in 0..size - 1
         /\ Holds(data', 0, size, Content, count)
         /\ Holds(data', 0 + count, size, source, Taken(source, size))
<1>1. /\ growing /\ newSize >= count + Len(source) /\ currentSize < MaxSize
      /\ count + Len(source) > currentSize /\ source \in Strings
      /\ newSize \in Nat /\ count \in 0..currentSize /\ currentSize \in Nat
  BY BufferAssumption DEF GrowAndWrite, Inv, GrowingInv, RingInvariant, TypeOK
<1>2. source \in Seq(Byte) /\ Len(source) \in Nat
  BY <1>1, StringsAreSequences
<1>3. /\ size \in Nat /\ size > 0 /\ size <= MaxSize /\ count \in Nat /\ count < size
      /\ size = MaxSize \/ size - count >= Len(source)
  BY <1>1, <1>2, BufferAssumption DEF AtMost
<1>4. Mod(0 + count, size) = count
  BY <1>3, Wrap
<1>5. Store(Moved(size), size, count, source)
  BY DEF GrowAndWrite, Moved
<1>6. /\ Content \in Seq(Byte) /\ Len(Content) = count
  BY <1>3, PeekProperties DEF Inv, Content
<1>7. Moved(size) \in [0..size - 1 -> Byte]
  <2> SUFFICES ASSUME NEW i \in 0..size - 1
               PROVE  (IF i < count THEN Content[i + 1] ELSE 0) \in Byte
    BY DEF Moved
  <2>1. CASE i < count
    <3>1. i + 1 \in 1..Len(Content)
      BY <1>3, <1>6, <2>1
    <3> QED BY <1>6, <2>1, <3>1
  <2>2. CASE ~(i < count)
    BY <2>2, BufferAssumption
  <2> QED BY <2>1, <2>2
<1>8. /\ Taken(source, size) \in 0..Len(source)
      /\ data' \in [0..size - 1 -> Byte]
      /\ count' = count + Taken(source, size) /\ count' \in 0..size
      /\ end' = IF size = 0 THEN 0 ELSE Mod(0 + count', size)
      /\ Around(data', 0, size, count) = Around(Moved(size), 0, size, count)
      /\ Holds(data', 0 + count, size, source, Taken(source, size))
  <2>1. 0 \in Nat /\ count \in 0..size /\ 0 < size
    BY <1>3
  <2>2. IF size = 0 THEN 0 = 0 /\ count = 0 ELSE 0 < size /\ count = Mod(0 + count, size)
    BY <1>3, <1>4, <2>1
  <2>3. size \in Nat
    BY <1>3
  <2> QED BY <1>2, <1>5, <1>7, <2>1, <2>2, <2>3, StoreProperties
<1>9. Holds(data', 0, size, Content, count)
  <2> SUFFICES ASSUME NEW i \in 1..count PROVE data'[Mod(0 + i - 1, size)] = Content[i]
    BY DEF Holds
  <2>1. i - 1 \in Nat /\ i - 1 < size /\ i - 1 < count /\ i - 1 + 1 = i /\ 0 + i - 1 = i - 1
        /\ i - 1 \in 0..size - 1
    BY <1>3
  <2>2. Mod(i - 1, size) = i - 1
    BY <1>3, <2>1, Wrap
  <2>3. Moved(size)[i - 1] = Content[i]
    BY <2>1 DEF Moved
  <2>4. /\ Around(data', 0, size, count)[i] = data'[Mod(0 + i - 1, size)]
        /\ Around(Moved(size), 0, size, count)[i] = Moved(size)[Mod(0 + i - 1, size)]
    BY DEF Around
  <2> QED BY <1>8, <2>1, <2>2, <2>3, <2>4
<1>11. end' = Mod(0 + count', size) /\ end' \in 0..size - 1
  <2>1. 0 + count' \in Int
    BY <1>3, <1>8
  <2>2. end' = Mod(0 + count', size)
    BY <1>3, <1>8
  <2>3. Mod(0 + count', size) \in Nat /\ Mod(0 + count', size) < size
    BY <1>3, <2>1, ModType
  <2> QED BY <1>3, <2>2, <2>3
<1>12. size \in 1..MaxSize /\ count \in 0..size - 1
  BY <1>3, BufferAssumption
<1> QED BY <1>3, <1>8, <1>9, <1>11, <1>12

LEMMA GrowAndWriteInv ==
  ASSUME Inv, GrowAndWrite
  PROVE  Inv'
<1> DEFINE size == AtMost(newSize, MaxSize)
<1>1. /\ currentSize' = size /\ begin' = 0 /\ growing' = FALSE /\ source' = <<>> /\ newSize' = 0
      /\ out' = out
  BY DEF GrowAndWrite
<1>2. /\ size \in 1..MaxSize /\ data' \in [0..size - 1 -> Byte] /\ count' \in 0..size
      /\ end' = Mod(0 + count', size) /\ end' \in 0..size - 1
  BY GrowProperties
<1> HIDE DEF size
<1>3. <<>> \in Strings
  <2>1. <<>> \in [1..0 -> Byte] /\ 0 \in 0..MaxLen
    BY BufferAssumption
  <2> QED BY <2>1 DEF Strings
<1>4. size \in 0..MaxSize /\ size > 0 /\ end' \in 0..size /\ 0 \in 0..size
  <2>1. MaxSize \in Nat
    BY BufferAssumption
  <2>2. size \in Nat /\ size > 0 /\ size \in 0..MaxSize
    BY <1>2, <2>1
  <2> QED BY <1>2, <2>2
<1>5. TypeOK'
  BY <1>1, <1>2, <1>3, <1>4 DEF Inv, RingInvariant, TypeOK
<1>6. end' = Mod(begin' + count', currentSize')
  BY <1>1, <1>2, <1>4
<1> QED BY <1>1, <1>4, <1>5, <1>6 DEF Inv, RingInvariant, GrowingInv, Mod

LEMMA NextInv == Inv /\ [Next]_vars => Inv'
<1> SUFFICES ASSUME Inv, [Next]_vars PROVE Inv'
  OBVIOUS
<1>1. ASSUME NEW s \in Strings, Write(s) \/ StartGrow(s) PROVE Inv'
  BY <1>1, WriteInv, StartGrowInv
<1>2. CASE GrowMore
  BY <1>2, GrowMoreInv
<1>3. CASE GrowAndWrite
  BY <1>3, GrowAndWriteInv
<1>4. ASSUME NEW n \in 0..MaxLen, Read(n) \/ Copy(n) \/ SkipHead(n) PROVE Inv'
  BY <1>4, ReadInv, CopyInv, SkipHeadInv
<1>5. CASE Clear
  BY <1>5, ClearInv
<1>6. CASE UNCHANGED vars
  BY <1>6 DEF vars, ring, growVars, Inv, RingInvariant, TypeOK, GrowingInv
<1> QED BY <1>1, <1>2, <1>3, <1>4, <1>5, <1>6 DEF Next

LEMMA InvHolds == Spec => []Inv
BY InitInv, NextInv, PTL DEF Spec

\* Whatever is written, read and grown, _end is _count behind _begin and neither
\* index leaves the array.
THEOREM RingIsSound == Spec => []RingInvariant
<1>1. Inv => RingInvariant
  BY DEF Inv
<1> QED BY <1>1, InvHolds, PTL

-----------------------------------------------------------------------------
(* The ring implements a queue. *)

\* Where m bytes from position b on end; no byte needs no array.
Past(b, m, size) == IF m = 0 THEN b ELSE Mod(b + m, size)

\* The first bytes, and those that are left when _begin goes past them.
LEMMA FrontAndRest ==
  ASSUME NEW size \in Nat, NEW mem \in [0..size - 1 -> Byte], NEW b \in Nat,
         NEW c \in 0..size, NEW m \in 0..c, size > 0 => b < size
  PROVE  /\ Around(mem, b, size, m) = SubSeq(Around(mem, b, size, c), 1, m)
         /\ Around(mem, Past(b, m, size), size, c - m) = SubSeq(Around(mem, b, size, c), m + 1, c)
<1> DEFINE later == Past(b, m, size)
           all == Around(mem, b, size, c)
           front == Around(mem, b, size, m)
           rest == Around(mem, later, size, c - m)
<1>1. c \in Nat /\ m \in Nat /\ m <= c /\ c <= size /\ c - m \in Nat /\ m \in 0..size /\ c - m \in 0..size
  OBVIOUS
<1>2. /\ all \in Seq(Byte) /\ Len(all) = c
      /\ \A i \in 1..c : all[i] = mem[Mod(b + i - 1, size)]
  BY <1>1, AroundProperties
<1>3. /\ front \in Seq(Byte) /\ Len(front) = m
      /\ \A i \in 1..m : front[i] = mem[Mod(b + i - 1, size)]
  BY <1>1, AroundProperties
<1>4. later \in Nat /\ (m # 0 => \A i \in 0..c - m : Mod(later + i, size) = Mod(b + m + i, size))
  <2>1. CASE m = 0
    BY <2>1 DEF Past
  <2>2. CASE m # 0
    <3>1. size > 0 /\ b \in 0..size - 1 /\ later = Mod(b + m, size)
      BY <1>1, <2>2 DEF Past
    <3> HIDE DEF later
    <3>2. /\ Mod(b + m, size) \in 0..size - 1
          /\ Mod(Mod(b + m, size) + (c - m), size) = Mod(b + c, size)
          /\ \A i \in Nat : i < c - m => Mod(Mod(b + m, size) + i, size) = Mod(b + m + i, size)
      BY <3>1, Forward
    <3>3. \A i \in 0..c - m : Mod(later + i, size) = Mod(b + m + i, size)
      <4> SUFFICES ASSUME NEW i \in 0..c - m PROVE Mod(later + i, size) = Mod(b + m + i, size)
        OBVIOUS
      <4>1. CASE i < c - m
        <5>1. i \in Nat
          OBVIOUS
        <5> QED BY <3>1, <3>2, <4>1, <5>1
      <4>2. CASE i = c - m
        <5>1. b + m + i = b + c
          BY <1>1, <4>2
        <5> QED BY <3>1, <3>2, <4>2, <5>1
      <4> QED BY <1>1, <4>1, <4>2
    <3> QED BY <3>1, <3>2, <3>3
  <2> QED BY <2>1, <2>2
<1> HIDE DEF later
<1>5. /\ rest \in Seq(Byte) /\ Len(rest) = c - m
      /\ \A i \in 1..c - m : rest[i] = mem[Mod(later + i - 1, size)]
  BY <1>1, <1>4, AroundProperties
<1> HIDE DEF all, front, rest
<1>6. \A i \in 1..c : all[i] \in Byte
  BY <1>2
<1>7. front = SubSeq(all, 1, m)
  <2>1. \A i \in 1..m : all[i] \in Byte
    BY <1>1, <1>6
  <2>2. /\ SubSeq(all, 1, m) \in Seq(Byte)
        /\ Len(SubSeq(all, 1, m)) = IF 1 <= m THEN m - 1 + 1 ELSE 0
        /\ \A i \in 1..m - 1 + 1 : SubSeq(all, 1, m)[i] = all[1 + i - 1]
    BY <1>1, <2>1, SubSeqProperties
  <2>3. Len(SubSeq(all, 1, m)) = m
    BY <1>1, <2>2
  <2>4. \A i \in 1..m : front[i] = SubSeq(all, 1, m)[i]
    <3> SUFFICES ASSUME NEW i \in 1..m PROVE front[i] = SubSeq(all, 1, m)[i]
      OBVIOUS
    <3>1. i \in 1..c /\ i \in 1..m - 1 + 1 /\ 1 + i - 1 = i
      BY <1>1
    <3> QED BY <1>2, <1>3, <2>2, <3>1
  <2> QED BY <1>3, <2>2, <2>3, <2>4, SeqEqual
<1>8. rest = SubSeq(all, m + 1, c)
  <2>1. \A i \in m + 1..c : all[i] \in Byte
    BY <1>1, <1>6
  <2>2. /\ SubSeq(all, m + 1, c) \in Seq(Byte)
        /\ Len(SubSeq(all, m + 1, c)) = IF m + 1 <= c THEN c - (m + 1) + 1 ELSE 0
        /\ \A i \in 1..c - (m + 1) + 1 : SubSeq(all, m + 1, c)[i] = all[m + 1 + i - 1]
    <3>1. m + 1 \in Int /\ c \in Int
      BY <1>1
    <3> QED BY <2>1, <3>1, SubSeqProperties
  <2>3. Len(SubSeq(all, m + 1, c)) = c - m
    BY <1>1, <2>2
  <2>4. \A i \in 1..c - m : rest[i] = SubSeq(all, m + 1, c)[i]
    <3> SUFFICES ASSUME NEW i \in 1..c - m PROVE rest[i] = SubSeq(all, m + 1, c)[i]
      OBVIOUS
    <3>1. /\ i \in 1..c - (m + 1) + 1 /\ m + 1 + i - 1 = m + i /\ m + i \in 1..c
          /\ i - 1 \in 0..c - m /\ later + i - 1 = later + (i - 1)
          /\ b + m + (i - 1) = b + (m + i) - 1
      BY <1>1, <1>4
    <3>2. SubSeq(all, m + 1, c)[i] = mem[Mod(b + (m + i) - 1, size)]
      BY <1>2, <2>2, <3>1
    <3>3. rest[i] = mem[Mod(later + (i - 1), size)]
      BY <1>5, <3>1
    <3>4. Mod(later + (i - 1), size) = Mod(b + (m + i) - 1, size)
      <4>1. CASE m = 0
        <5>1. later = b /\ later + (i - 1) = b + (m + i) - 1
          BY <1>1, <4>1 DEF later, Past
        <5> QED BY <5>1
      <4>2. CASE m # 0
        BY <1>4, <3>1, <4>2
      <4> QED BY <4>1, <4>2
    <3> QED BY <3>2, <3>3, <3>4
  <2> QED BY <1>5, <2>2, <2>3, <2>4, SeqEqual
<1> QED BY <1>7, <1>8 DEF all, front, rest, later

\* Writing appends: c bytes that were there, then n bytes of the string.
LEMMA Appended ==
  ASSUME NEW size \in Nat, NEW mem \in [0..size - 1 -> Byte], NEW b \in Nat,
         NEW old \in Seq(Byte), NEW s \in Seq(Byte), NEW n \in 0..Len(s),
         Len(old) + n <= size,
         Holds(mem, b, size, old, Len(old)), Holds(mem, b + Len(old), size, s, n)
  PROVE  Around(mem, b, size, Len(old) + n) = old \o SubSeq(s, 1, n)
<1> DEFINE c == Len(old)
           new == Around(mem, b, size, c + n)
           tail == SubSeq(s, 1, n)
<1>1. c \in Nat /\ n \in Nat /\ n <= Len(s) /\ Len(s) \in Nat /\ c + n \in 0..size
  OBVIOUS
<1>2. /\ new \in Seq(Byte) /\ Len(new) = c + n
      /\ \A i \in 1..c + n : new[i] = mem[Mod(b + i - 1, size)]
  BY <1>1, AroundProperties
<1>3. /\ tail \in Seq(Byte) /\ Len(tail) = n
      /\ \A i \in 1..n : tail[i] = s[i]
  <2>1. \A i \in 1..n : s[i] \in Byte
    BY <1>1
  <2>2. /\ tail \in Seq(Byte)
        /\ Len(tail) = IF 1 <= n THEN n - 1 + 1 ELSE 0
        /\ \A i \in 1..n - 1 + 1 : tail[i] = s[1 + i - 1]
    BY <1>1, <2>1, SubSeqProperties
  <2>3. Len(tail) = n
    BY <1>1, <2>2
  <2>4. \A i \in 1..n : i \in 1..n - 1 + 1 /\ 1 + i - 1 = i
    BY <1>1
  <2> QED BY <2>2, <2>3, <2>4
<1> HIDE DEF tail
<1>4. /\ \A i \in 1..c : mem[Mod(b + i - 1, size)] = old[i]
      /\ \A i \in 1..n : mem[Mod(b + c + i - 1, size)] = s[i]
  BY DEF Holds
<1>5. /\ old \o tail \in Seq(Byte) /\ Len(old \o tail) = c + n
      /\ \A i \in 1..c + n : (old \o tail)[i] = IF i <= c THEN old[i] ELSE tail[i - c]
  BY <1>3, ConcatProperties
<1> HIDE DEF new
<1>6. ASSUME NEW i \in 1..c + n
      PROVE  new[i] = (old \o tail)[i]
  <2>1. CASE i <= c
    <3>1. i \in 1..Len(old)
      BY <1>1, <2>1
    <3> QED BY <1>2, <1>4, <1>5, <2>1, <3>1
  <2>2. CASE ~(i <= c)
    <3> DEFINE k == i - c
    <3>1. k \in 1..n /\ b + i - 1 = b + c + k - 1 /\ ~(i <= c)
      BY <1>1, <2>2
    <3> HIDE DEF k
    <3>2. new[i] = s[k]
      BY <1>2, <1>4, <3>1
    <3>3. (old \o tail)[i] = tail[k]
      BY <1>5, <2>2 DEF k
    <3> QED BY <1>3, <3>1, <3>2, <3>3
  <2> QED BY <2>1, <2>2
<1>7. new = old \o tail
  <2> HIDE DEF c
  <2> QED BY <1>2, <1>5, <1>6, SeqEqual
<1> QED BY <1>7 DEF new, tail

LEMMA ContentProperties ==
  ASSUME Inv
  PROVE  /\ Content \in Seq(Byte) /\ Len(Content) = count /\ count \in Nat
         /\ \A i \in 1..count : Content[i] = data[Mod(begin + i - 1, currentSize)]
<1>1. count \in Nat /\ count \in 0..count
  BY BufferAssumption DEF Inv, RingInvariant, TypeOK
<1> QED BY <1>1, PeekProperties DEF Inv, Content

LEMMA WriteIsWrite ==
  ASSUME Inv, NEW s \in Strings, Write(s)
  PROVE  Queue!Write(s)
<1>1. s \in Seq(Byte) /\ Len(s) \in Nat
  BY StringsAreSequences
<1>2. /\ currentSize \in Nat /\ begin \in Nat /\ count \in 0..currentSize
      /\ data \in [0..currentSize - 1 -> Byte]
      /\ IF currentSize = 0 THEN begin = 0 /\ end = 0
         ELSE begin < currentSize /\ end = Mod(begin + count, currentSize)
      /\ MaxSize \in Nat /\ currentSize <= MaxSize
  BY BufferAssumption DEF Inv, RingInvariant, TypeOK, Mod
<1> DEFINE n == Taken(s, currentSize)
<1>3. /\ n \in 0..Len(s)
      /\ data' \in [0..currentSize - 1 -> Byte]
      /\ count' = count + n /\ count' \in 0..currentSize
      /\ Around(data', begin, currentSize, count) = Content
      /\ Holds(data', begin + count, currentSize, s, n)
  <2>1. Store(data, currentSize, end, s)
    BY DEF Write
  <2>2. /\ currentSize \in Nat /\ begin \in Nat /\ data \in [0..currentSize - 1 -> Byte]
        /\ count \in 0..currentSize
        /\ IF currentSize = 0 THEN begin = 0 /\ end = 0
           ELSE begin < currentSize /\ end = Mod(begin + count, currentSize)
    BY <1>2
  <2> HIDE DEF n
  <2>3. /\ Taken(s, currentSize) \in 0..Len(s)
        /\ data' \in [0..currentSize - 1 -> Byte]
        /\ count' = count + Taken(s, currentSize) /\ count' \in 0..currentSize
    BY <1>1, <2>1, <2>2, StoreProperties
  <2>4. Around(data', begin, currentSize, count) = Content
    BY <1>1, <2>1, <2>2, StoreProperties, PeekIsAround
  <2>5. Holds(data', begin + count, currentSize, s, Taken(s, currentSize))
    BY <1>1, <2>1, <2>2, StoreProperties
  <2> QED BY <2>3, <2>4, <2>5 DEF n
<1>4. n = AtMost(MaxSize - count, Len(s))
  BY <1>1, <1>2 DEF Write, NeedGrow, CanGrow, Taken, AtMost
<1> HIDE DEF n
<1>5. currentSize' = currentSize /\ begin' = begin /\ out' = out
  BY DEF Write
<1>6. Around(data', begin, currentSize, Len(Content) + n) = Content \o SubSeq(s, 1, n)
  <2>1. Len(Content) + n <= currentSize
    BY <1>2, <1>3, ContentProperties
  <2>2. Holds(data', begin, currentSize, Content, Len(Content))
    <3>1. \A i \in 1..count : Around(data', begin, currentSize, count)[i]
                                = data'[Mod(begin + i - 1, currentSize)]
      BY DEF Around
    <3> QED BY <1>3, <3>1, ContentProperties DEF Holds
  <2>3. Holds(data', begin + Len(Content), currentSize, s, n)
    BY <1>3, ContentProperties
  <2>4. currentSize \in Nat /\ data' \in [0..currentSize - 1 -> Byte] /\ begin \in Nat
    BY <1>2, <1>3
  <2>5. Content \in Seq(Byte) /\ n \in 0..Len(s)
    BY <1>3, ContentProperties
  <2> QED BY <1>1, <2>1, <2>2, <2>3, <2>4, <2>5, Appended
<1>7. Content' = Content \o SubSeq(s, 1, AtMost(MaxSize - Len(Content), Len(s)))
  BY <1>3, <1>4, <1>5, <1>6, ContentProperties, PeekIsAround
<1> QED BY <1>5, <1>7 DEF Queue!Write, Queue!Front, Queue!AtMost, AtMost

LEMMA GrowAndWriteIsWrite ==
  ASSUME Inv, GrowAndWrite
  PROVE  Queue!Write(source)
<1> DEFINE size == AtMost(newSize, MaxSize)
           n == Taken(source, size)
<1>1. /\ size \in 1..MaxSize /\ count \in 0..size - 1
      /\ size = MaxSize \/ size - count >= Len(source)
      /\ n \in 0..Len(source)
      /\ data' \in [0..size - 1 -> Byte]
      /\ count' = count + n /\ count' \in 0..size
      /\ Holds(data', 0, size, Content, count)
      /\ Holds(data', 0 + count, size, source, n)
  BY GrowProperties
<1>2. source \in Seq(Byte) /\ Len(source) \in Nat
  BY StringsAreSequences DEF Inv, RingInvariant, TypeOK
<1>3. /\ size \in Nat /\ MaxSize \in Nat /\ size <= MaxSize /\ count \in Nat /\ n \in Nat
      /\ count + n <= size
  <2>1. MaxSize \in Nat
    BY BufferAssumption
  <2> HIDE DEF n, size
  <2> QED BY <1>1, <1>2, <2>1
<1>4. n = AtMost(MaxSize - count, Len(source))
  <2> HIDE DEF size
  <2> QED BY <1>1, <1>2, <1>3 DEF Taken, AtMost
<1>5. currentSize' = size /\ begin' = 0 /\ out' = out
  BY DEF GrowAndWrite
<1> HIDE DEF n, size
<1>6. Around(data', 0, size, Len(Content) + n) = Content \o SubSeq(source, 1, n)
  <2>1. Len(Content) + n <= size
    BY <1>3, ContentProperties
  <2>2. Holds(data', 0, size, Content, Len(Content))
    BY <1>1, ContentProperties
  <2>3. Holds(data', 0 + Len(Content), size, source, n)
    BY <1>1, ContentProperties
  <2>4. 0 \in Nat
    OBVIOUS
  <2>5. size \in Nat /\ data' \in [0..size - 1 -> Byte] /\ n \in 0..Len(source)
    BY <1>1, <1>3
  <2>6. Content \in Seq(Byte)
    BY ContentProperties
  <2> QED BY <1>2, <2>1, <2>2, <2>3, <2>4, <2>5, <2>6, Appended
<1>7. Content' = Content \o SubSeq(source, 1, AtMost(MaxSize - Len(Content), Len(source)))
  BY <1>1, <1>4, <1>5, <1>6, ContentProperties, PeekIsAround
<1> QED BY <1>5, <1>7 DEF Queue!Write, Queue!Front, Queue!AtMost, AtMost

\* read and skipHead take the same bytes off; what is there of the first n comes first.
LEMMA HeadOff ==
  ASSUME Inv, NEW n \in 0..MaxLen, NEW m, m = AtMost(n, count)
  PROVE  /\ Peek(m) = Queue!Front(Content, n)
         /\ Around(data, Past(begin, m, currentSize), currentSize, count - m)
              = Queue!Rest(Content, n)
<1>1. /\ currentSize \in Nat /\ begin \in Nat /\ count \in 0..currentSize /\ n \in Nat
      /\ data \in [0..currentSize - 1 -> Byte]
      /\ currentSize > 0 => begin < currentSize
  BY BufferAssumption DEF Inv, RingInvariant, TypeOK
<1>2. m \in 0..count
  BY <1>1 DEF AtMost
<1>3. /\ Around(data, begin, currentSize, m) = SubSeq(Around(data, begin, currentSize, count), 1, m)
      /\ Around(data, Past(begin, m, currentSize), currentSize, count - m)
           = SubSeq(Around(data, begin, currentSize, count), m + 1, count)
  BY <1>1, <1>2, FrontAndRest
<1>4. AtMost(n, Len(Content)) = m /\ Len(Content) = count
  BY ContentProperties
<1> QED BY <1>3, <1>4, PeekIsAround DEF Queue!Front, Queue!Rest, Queue!AtMost, AtMost

LEMMA ReadIsRead ==
  ASSUME Inv, NEW n \in 0..MaxLen, Read(n)
  PROVE  Queue!Read(n)
<1> DEFINE m == AtMost(n, count)
<1>1. /\ out' = Peek(m) /\ count' = count - m
      /\ begin' = Past(begin, m, currentSize)
      /\ data' = data /\ currentSize' = currentSize
  BY DEF Read, Past, Mod
<1>2. /\ Peek(m) = Queue!Front(Content, n)
      /\ Around(data, Past(begin, m, currentSize), currentSize, count - m)
           = Queue!Rest(Content, n)
  BY HeadOff
<1> HIDE DEF m
<1> QED BY <1>1, <1>2, PeekIsAround DEF Queue!Read

LEMMA CopyIsCopy ==
  ASSUME Inv, NEW n \in 0..MaxLen, Copy(n)
  PROVE  Queue!Copy(n)
<1>1. out' = Peek(AtMost(n, count)) /\ UNCHANGED ring
  BY DEF Copy
<1>2. Peek(AtMost(n, count)) = Queue!Front(Content, n)
  BY HeadOff
<1>3. Content' = Content
  BY <1>1, PeekIsAround DEF ring
<1> QED BY <1>1, <1>2, <1>3 DEF Queue!Copy

LEMMA SkipHeadIsSkipHead ==
  ASSUME Inv, NEW n \in 0..MaxLen, SkipHead(n)
  PROVE  Queue!SkipHead(n)
<1>1. /\ n > 0 /\ count >= n /\ count' = count - n /\ begin' = Past(begin, n, currentSize)
      /\ data' = data /\ currentSize' = currentSize /\ out' = out
  BY DEF SkipHead, Mod, Past
<1>2. n = AtMost(n, count)
  BY <1>1, BufferAssumption, ContentProperties DEF AtMost
<1>3. Around(data, Past(begin, n, currentSize), currentSize, count - n)
        = Queue!Rest(Content, n)
  BY <1>2, HeadOff
<1>4. Content' = Queue!Rest(Content, n)
  BY <1>1, <1>2, <1>3, PeekIsAround
<1> QED BY <1>1, <1>4, ContentProperties DEF Queue!SkipHead

LEMMA NoBytes == Around(data, begin, currentSize, 0) = <<>> /\ Around(data', begin', currentSize', 0) = <<>>
BY DEF Around

LEMMA NextIsNext == Inv /\ [Next]_vars => [Queue!Next]_<<Content, out>>
<1> SUFFICES ASSUME Inv, [Next]_vars PROVE [Queue!Next]_<<Content, out>>
  OBVIOUS
<1>1. ASSUME NEW s \in Strings, Write(s) PROVE Queue!Next
  BY <1>1, WriteIsWrite DEF Queue!Next, Queue!Strings, Strings
<1>2. ASSUME UNCHANGED <<ring, out>> PROVE UNCHANGED <<Content, out>>
  BY <1>2, PeekIsAround DEF ring
<1>3. ASSUME NEW s \in Strings, StartGrow(s) PROVE UNCHANGED <<Content, out>>
  BY <1>2, <1>3 DEF StartGrow
<1>4. CASE GrowMore
  BY <1>2, <1>4 DEF GrowMore
<1>5. CASE GrowAndWrite
  <2>1. source \in Strings
    BY DEF Inv, RingInvariant, TypeOK
  <2> QED BY <1>5, <2>1, GrowAndWriteIsWrite DEF Queue!Next, Queue!Strings, Strings
<1>6. ASSUME NEW n \in 0..MaxLen, Read(n) \/ Copy(n) \/ SkipHead(n) PROVE Queue!Next
  BY <1>6, ReadIsRead, CopyIsCopy, SkipHeadIsSkipHead DEF Queue!Next
<1>7. CASE Clear
  <2>1. count' = 0 /\ out' = out
    BY <1>7 DEF Clear
  <2>2. Content' = <<>>
    BY <2>1, NoBytes, PeekIsAround
  <2> QED BY <2>1, <2>2 DEF Queue!Next, Queue!Clear
<1>8. CASE UNCHANGED vars
  BY <1>2, <1>8 DEF vars
<1> QED BY <1>1, <1>3, <1>4, <1>5, <1>6, <1>7, <1>8 DEF Next

\* The ring implements a queue of at most MaxSize bytes: through wrapping round and
\* growing, no byte is lost, doubled or reordered, and what does not fit is dropped.
THEOREM BufferIsQueue == Spec => ImplementsQueue
<1>1. Init => Queue!Init
  <2> SUFFICES ASSUME Init PROVE Queue!Init
    OBVIOUS
  <2>1. Content = <<>>
    BY NoBytes, PeekIsAround DEF Init
  <2> QED BY <2>1 DEF Init, Queue!Init
<1>2. Inv /\ [Next]_vars => [Queue!Next]_Queue!vars
  BY NextIsNext DEF Queue!vars
<1> QED BY <1>1, <1>2, InvHolds, PTL DEF Spec, Queue!Spec, ImplementsQueue
=============================================================================
