------------------------------- MODULE Buffer -------------------------------
(***************************************************************************)
(* The byte buffer of a connection (buffer.h): a ring in an array that     *)
(* grows, up to a maximum, when a string does not fit.  The loop that      *)
(* looks for the new size is taken step by step; everything else a member  *)
(* function does is one step.                                              *)
(***************************************************************************)
EXTENDS Integers, Sequences

CONSTANTS
  Byte,      \* 0 among them, what fresh memory holds
  InitSize,
  MaxSize,
  MaxLen     \* bound: the longest string written, the most bytes asked for

ASSUME BufferAssumption ==
  /\ 0 \in Byte
  /\ InitSize \in Nat /\ MaxSize \in Nat /\ MaxLen \in Nat
  /\ InitSize <= MaxSize   \* asserted by the constructor

VARIABLES
  data,         \* _data
  currentSize,  \* _currentSize, the size of the array
  begin,        \* _begin
  end,          \* _end
  count,        \* _count
  out,          \* the bytes that the last read or copy returned
  growing,      \* a write is in the loop of grow
  source,       \* the string that write was given
  newSize       \* newSize in that loop, 0 outside of it

ring == <<data, currentSize, begin, end, count>>
growVars == <<growing, source, newSize>>
vars == <<ring, out, growVars>>

Strings == UNION {[1..n -> Byte] : n \in 0..MaxLen}

AtMost(n, m) == IF n <= m THEN n ELSE m
Zeros(n) == [i \in 0..n - 1 |-> 0]

\* The first n bytes from _begin on.
Peek(n) == [i \in 1..n |-> data[(begin + i - 1) % currentSize]]

Content == Peek(count)

-----------------------------------------------------------------------------
Init ==
  /\ data = Zeros(InitSize)
  /\ currentSize = InitSize
  /\ begin = 0 /\ end = 0 /\ count = 0
  /\ out = <<>>
  /\ source = <<>>
  /\ growing = FALSE
  /\ newSize = 0

NeedGrow(n) == count + n > currentSize
CanGrow == currentSize < MaxSize

\* read(dst, n)
Read(n) ==
  LET m == AtMost(n, count) IN
  /\ ~growing
  /\ out' = Peek(m)
  /\ begin' = IF m = 0 THEN begin ELSE (begin + m) % currentSize
  /\ count' = count - m
  /\ UNCHANGED <<data, currentSize, end, growVars>>

\* copy(dst, n)
Copy(n) ==
  /\ ~growing
  /\ out' = Peek(AtMost(n, count))
  /\ UNCHANGED <<ring, growVars>>

\* skipHead(n), for the n its assertion allows; its callers pass no zero
SkipHead(n) ==
  /\ ~growing
  /\ n > 0
  /\ count >= n
  /\ count' = count - n
  /\ begin' = (begin + n) % currentSize
  /\ UNCHANGED <<data, currentSize, end, out, growVars>>

Clear ==
  /\ ~growing
  /\ begin' = 0 /\ end' = 0 /\ count' = 0
  /\ UNCHANGED <<data, currentSize, out, growVars>>

\* The loop of write over an array mem of the given size, from position last on:
\* as many of the bytes as there is room for, wrapping round at the end.
Store(mem, size, last, s) ==
  LET n == AtMost(Len(s), size - count)
      Offset(i) == (i + size - last) % size
  IN
  /\ data' = [i \in 0..size - 1 |-> IF Offset(i) < n THEN s[Offset(i) + 1] ELSE mem[i]]
  /\ end' = IF n = 0 THEN last ELSE (last + n) % size
  /\ count' = count + n

\* write(src, n) when the array is large enough or cannot grow
Write(s) ==
  /\ ~growing
  /\ ~(NeedGrow(Len(s)) /\ CanGrow)
  /\ Store(data, currentSize, end, s)
  /\ UNCHANGED <<currentSize, begin, out, growVars>>

\* write(src, n) when it must grow first
StartGrow(s) ==
  /\ ~growing
  /\ NeedGrow(Len(s)) /\ CanGrow
  /\ growing' = TRUE
  /\ source' = s
  /\ newSize' = currentSize
  /\ UNCHANGED <<ring, out>>

\* Mutant: a factor of 1.25, which leaves 2 at 2.
EnlargedByQuarter(size) == (size * 5) \div 4

\* newSize *= _growFactor, which is 1.5, rounded towards 0
Enlarged(size) == (size * 3) \div 2

GrowMore ==
  /\ growing
  /\ newSize < count + Len(source)
  /\ newSize' = Enlarged(newSize)
  /\ UNCHANGED <<ring, out, growing, source>>

\* Mutant: _begin is not reset.
GrowKeepingBegin ==
  LET size == AtMost(newSize, MaxSize)
      moved == [i \in 0..size - 1 |-> IF i < count THEN Content[i + 1] ELSE 0]
  IN
  /\ growing
  /\ newSize >= count + Len(source)
  /\ currentSize' = size
  /\ Store(moved, size, count, source)
  /\ growing' = FALSE
  /\ source' = <<>>
  /\ newSize' = 0
  /\ UNCHANGED <<begin, out>>

\* Mutant: the array is copied as it is, as realloc would.
GrowUnrotated ==
  LET size == AtMost(newSize, MaxSize)
      moved == [i \in 0..size - 1 |-> IF i < count THEN data[i] ELSE 0]
  IN
  /\ growing
  /\ newSize >= count + Len(source)
  /\ currentSize' = size
  /\ begin' = 0
  /\ Store(moved, size, count, source)
  /\ growing' = FALSE
  /\ source' = <<>>
  /\ newSize' = 0
  /\ UNCHANGED out

\* The content moves to the start of the new array, then the string is stored.
GrowAndWrite ==
  LET size == AtMost(newSize, MaxSize)
      moved == [i \in 0..size - 1 |-> IF i < count THEN Content[i + 1] ELSE 0]
  IN
  /\ growing
  /\ newSize >= count + Len(source)
  /\ currentSize' = size
  /\ begin' = 0
  /\ Store(moved, size, count, source)
  /\ growing' = FALSE
  /\ source' = <<>>
  /\ newSize' = 0
  /\ UNCHANGED out

Next ==
  \/ \E s \in Strings : Write(s) \/ StartGrow(s)
  \/ GrowMore
  \/ GrowAndWrite
  \/ \E n \in 0..MaxLen : Read(n) \/ Copy(n) \/ SkipHead(n)
  \/ Clear

Spec == Init /\ [][Next]_vars

\* A write that has begun goes on.
FairSpec == Spec /\ WF_vars(GrowMore \/ GrowAndWrite)

-----------------------------------------------------------------------------
(* Properties. *)

\* The type of every variable.
TypeOK ==
  /\ currentSize \in 0..MaxSize
  /\ data \in [0..currentSize - 1 -> Byte]
  /\ begin \in 0..currentSize /\ end \in 0..currentSize /\ count \in 0..currentSize
  /\ out \in Seq(Byte)
  /\ growing \in BOOLEAN /\ source \in Strings /\ newSize \in Nat

\* The two indices and the count agree, whatever was written, read and grown, and
\* neither index is ever outside of the array (an array filled by growing would
\* leave _end = _count just behind it).
RingInvariant ==
  /\ TypeOK
  /\ IF currentSize = 0
     THEN begin = 0 /\ end = 0
     ELSE /\ begin < currentSize
          /\ end = (begin + count) % currentSize

Queue == INSTANCE ByteQueue WITH queue <- Content

\* Through wrapping round and growing, the buffer is a queue of bytes: nothing is
\* lost, doubled or reordered, up to MaxSize bytes.
ImplementsQueue == Queue!Spec

\* Every write returns: the loop of grow reaches the size it looks for.
WriteReturns == growing ~> ~growing
=============================================================================
