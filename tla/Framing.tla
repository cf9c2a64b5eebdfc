------------------------------ MODULE Framing ------------------------------
(***************************************************************************)
(* Bytes and messages: what the member functions of TcpConnection and      *)
(* Buffer make of byte strings.  A byte is its character code; a message   *)
(* travels as its length in decimal, a space, and its bytes.               *)
(***************************************************************************)
EXTENDS Integers, Sequences, FiniteSets, SequencesExt

Byte == 0..127
Nul == 0
Space == 32
Digits == 48..57

AtMost(n, m) == IF n <= m THEN n ELSE m
Take(s, n) == SubSeq(s, 1, AtMost(n, Len(s)))
Drop(s, n) == SubSeq(s, AtMost(n, Len(s)) + 1, Len(s))

\* How many bytes at the head of s are in B.
Span(s, B) == Cardinality({i \in 1..Len(s) : \A j \in 1..i : s[j] \in B})

HasNul(s) == \E i \in 1..Len(s) : s[i] = Nul

\* A C string ends at its first NUL: std::string(const char *) and "%s".
AsCString(s) == Take(s, Span(s, Byte \ {Nul}))

\* What isdigit lets the loop of peekIntWithLength pass.
LeadingDigits(s) == Take(s, Span(s, Digits))

\* The number that the loop of peekIntWithLength makes of digits.
Number(digits) ==
  LET upTo[i \in 0..Len(digits)] ==
        IF i = 0 THEN 0 ELSE upTo[i - 1] * 10 + (digits[i] - 48)
  IN  upTo[Len(digits)]

\* peekIntWithLength: the number at the head, its length, and whether the last
\* character looked at is a space.  That is a digit when the buffer ends with the
\* number, and the variable's garbage when the buffer is empty.
PeekIntWithLength(s, garbage) ==
  LET digits == LeadingDigits(s) IN
  [ok     |-> Space = (IF s = <<>> THEN garbage ELSE s[AtMost(Len(digits) + 1, Len(s))]),
   value  |-> Number(digits),
   length |-> Len(digits)]

\* "%d" of a length
Decimal[n \in Nat] ==
  IF n < 10 THEN <<48 + n>> ELSE Append(Decimal[n \div 10], 48 + (n % 10))

\* A message as a peer frames it: its length, a space and all of its bytes.
OnWire(m) == Decimal[Len(m)] \o <<Space>> \o m

\* What sendMessage puts together for a string of the given size.
Frame(size, s) == Decimal[size] \o <<Space>> \o AsCString(s)
=============================================================================
