---------------------------- MODULE MCConnection ----------------------------
(* Connection with short streams of letters, told apart by their place. *)
EXTENDS Connection

Letters(n) == [i \in 1..n |-> 96 + i]
Scenario(h, msgs) == [handler |-> h, messages |-> msgs]

\* The echo of plain bytes, and of bytes with a NUL among them.
PlainEcho == Scenario("echo", <<Letters(7)>>)
NulEcho == Scenario("echo", <<<<97, 0, 98>>>>)

\* Two messages in a row; a message of a digit and a space and one with a two-digit
\* length; a NUL inside; an empty message; one larger than the read buffer, without and
\* with a NUL.
TwoMessages(h) == Scenario(h, <<Letters(1), Letters(3)>>)
LongMessage(h) == Scenario(h, <<<<49, 32>>, Letters(10)>>)
NulMessage(h) == Scenario(h, <<<<97, 0, 98>>, Letters(1)>>)
EmptyMessage(h) == Scenario(h, <<<<>>, Letters(12)>>)
HugeMessage(h) == Scenario(h, <<Letters(12)>>)
HugeNulMessage(h) == Scenario(h, <<[Letters(12) EXCEPT ![2] = 0]>>)

AllScenarios ==
  {PlainEcho, NulEcho} \cup
  {TwoMessages("strings"), LongMessage("strings"), NulMessage("strings"),
   EmptyMessage("strings"), HugeMessage("chars"), NulMessage("chars"), HugeNulMessage("chars")}

EchoOnly == {PlainEcho}
=============================================================================
