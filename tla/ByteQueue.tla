----------------------------- MODULE ByteQueue -----------------------------
(***************************************************************************)
(* What Buffer promises: a queue of at most MaxSize bytes.                 *)
(***************************************************************************)
EXTENDS Integers, Sequences

CONSTANTS
  Byte,
  MaxSize,
  MaxLen  \* bound: the longest string written, the most bytes asked for

VARIABLES
  queue,
  out     \* the bytes that the last read or copy returned

vars == <<queue, out>>

Strings == UNION {[1..n -> Byte] : n \in 0..MaxLen}

AtMost(n, m) == IF n <= m THEN n ELSE m
Front(s, n) == SubSeq(s, 1, AtMost(n, Len(s)))
Rest(s, n) == SubSeq(s, AtMost(n, Len(s)) + 1, Len(s))

Init ==
  /\ queue = <<>>
  /\ out = <<>>

\* What does not fit is dropped.
Write(s) ==
  /\ queue' = queue \o Front(s, MaxSize - Len(queue))
  /\ UNCHANGED out

Read(n) ==
  /\ out' = Front(queue, n)
  /\ queue' = Rest(queue, n)

Copy(n) ==
  /\ out' = Front(queue, n)
  /\ UNCHANGED queue

SkipHead(n) ==
  /\ Len(queue) >= n
  /\ queue' = Rest(queue, n)
  /\ UNCHANGED out

Clear ==
  /\ queue' = <<>>
  /\ UNCHANGED out

Next ==
  \/ \E s \in Strings : Write(s)
  \/ \E n \in 0..MaxLen : Read(n) \/ Copy(n) \/ SkipHead(n)
  \/ Clear

Spec == Init /\ [][Next]_vars
=============================================================================
