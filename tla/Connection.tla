----------------------------- MODULE Connection -----------------------------
(***************************************************************************)
(* The data path of one connection (tcpConnection.cpp): from the socket    *)
(* into the read buffer, through the user's message callback into the      *)
(* write buffer, and back to the socket, driven by edge-triggered events.  *)
(* A buffer is the queue of bytes that Buffer is shown to be.              *)
(*                                                                         *)
(* The callbacks are the example's, which echoes (main.cpp), and two that  *)
(* answer every message with itself, taken as std::string or as char array.*)
(***************************************************************************)
EXTENDS Framing

CONSTANTS
  Scenarios,    \* which callback there is and what the peer sends, see Init
  ReadMax,      \* tcp-read-buffer-max-size-bytes
  WriteMax,     \* tcp-write-buffer-max-size-bytes
  ReceiveRoom,  \* bytes the kernel holds for the server to read
  SendRoom,     \* bytes the kernel holds for the peer to receive
  Segments,     \* bound: how many bytes arrive at once, either way
  MaxPushes     \* bound: sends from outside of the connection's own events

\* Lengths are of type int: those of a message with its head fit.
MaxInt == 2147483647

ASSUME ConnectionAssumption ==
  /\ \A s \in Scenarios : /\ s.handler \in {"echo", "strings", "chars"}
                          /\ s.messages \in Seq(Seq(Byte))
                          /\ \A i \in DOMAIN s.messages : Len(OnWire(s.messages[i])) <= MaxInt
  /\ ReadMax \in Nat \ {0} /\ WriteMax \in Nat \ {0}
  /\ ReceiveRoom \in Nat \ {0} /\ SendRoom \in Nat \ {0}
  /\ Segments \subseteq Nat \ {0} /\ MaxPushes \in Nat

VARIABLES
  handler,      \* the message callback that was set
  messages,     \* what the peer sends, message by message
  stream,       \* the same as bytes
  sent,         \* the peer has sent the first so many of them
  finished,     \* the peer has closed its sending side
  outbound,     \* bytes the kernel holds for the peer
  delivered,    \* bytes the peer has received
  ready,        \* the socket is on the epoll ready list
  noSpace,      \* the kernel owes the socket an event once there is room again
  taken,        \* the server has read the first so many bytes
  readBuffer,   \* _readBuffer
  writeBuffer,  \* _writeBuffer
  closed,       \* _close
  event,        \* the event being handled
  pc,           \* where the worker is with this connection
  process,      \* "running", or "exited" by exit(0)
  received,     \* history: the messages the callback was given
  reported,     \* history: the console was told that a string is too long
  pushes,       \* history: sends from outside of this connection's events
  pushed,       \* history: there was one since the last writable event
  filled        \* history: the last read filled the read buffer

scenario == <<handler, messages, stream>>
peerVars == <<sent, finished, outbound, delivered>>
epollVars == <<ready, noSpace>>
objectVars == <<taken, readBuffer, writeBuffer, closed>>
historyVars == <<received, reported, pushes, pushed, filled>>
vars == <<scenario, peerVars, epollVars, objectVars, event, pc, process, historyVars>>

\* The byte that is sent from elsewhere, and the other ones.
PushByte == 33
Own(bytes) == SelectSeq(bytes, LAMBDA b : b # PushByte)

Output == delivered \o outbound \o writeBuffer

\* The callbacks' answer to a message; an empty one gets none.
Answer(m) == IF m = <<>> THEN <<>> ELSE Frame(Len(m), m)

\* The answers as a peer can read them.
Framed(msgs) == FlattenSeq([i \in DOMAIN msgs |-> IF msgs[i] = <<>> THEN <<>> ELSE OnWire(msgs[i])])

\* How the peer puts its messages on the wire.  It frames them properly.
Wire(hdl, msgs) ==
  FlattenSeq([i \in DOMAIN msgs |-> IF hdl = "echo" THEN msgs[i] ELSE OnWire(msgs[i])])

\* The connection has just been registered, which makes it ready.
Init ==
  /\ \E s \in Scenarios : /\ handler = s.handler
                          /\ messages = s.messages
                          /\ stream = Wire(s.handler, s.messages)
  /\ sent = 0 /\ finished = FALSE /\ outbound = <<>> /\ delivered = <<>>
  /\ ready = TRUE /\ noSpace = FALSE
  /\ taken = 0 /\ readBuffer = <<>> /\ writeBuffer = <<>> /\ closed = FALSE
  /\ event = [in |-> FALSE, out |-> FALSE]
  /\ pc = "poll"
  /\ process = "running"
  /\ received = <<>> /\ reported = FALSE /\ pushes = 0 /\ pushed = FALSE /\ filled = FALSE

-----------------------------------------------------------------------------
(* The peer and the kernel. *)

PeerSends(n) ==
  /\ ~finished
  /\ sent + n <= Len(stream)
  /\ sent + n - taken <= ReceiveRoom
  /\ sent' = sent + n
  /\ ready' = TRUE
  /\ UNCHANGED <<scenario, finished, outbound, delivered, noSpace, objectVars, event, pc,
                 process, historyVars>>

PeerFinishes ==
  /\ ~finished
  /\ finished' = TRUE
  /\ ready' = TRUE
  /\ UNCHANGED <<scenario, sent, outbound, delivered, noSpace, objectVars, event, pc,
                 process, historyVars>>

\* The kernel may wait for more room before it raises the event it owes, but not
\* for more than all of it.
PeerReceives(n) ==
  /\ n <= Len(outbound)
  /\ delivered' = delivered \o Take(outbound, n)
  /\ outbound' = Drop(outbound, n)
  /\ \/ noSpace /\ ready' = TRUE /\ noSpace' = FALSE
     \/ (noSpace => outbound' # <<>>) /\ UNCHANGED epollVars
  /\ UNCHANGED <<scenario, sent, finished, objectVars, event, pc, process, historyVars>>

\* epoll_wait reports the socket.  Not being writable is noticed by the kernel,
\* which then owes it an event.
Poll ==
  /\ pc = "poll" /\ ready
  /\ ready' = FALSE
  /\ event' = [in |-> taken < sent \/ finished, out |-> Len(outbound) < SendRoom]
  /\ noSpace' = (noSpace \/ ~event'.out)
  /\ pc' = "readable"
  /\ UNCHANGED <<scenario, peerVars, objectVars, process, historyVars>>

-----------------------------------------------------------------------------
(* Called by the user's callbacks. *)

SpaceIn(buffer, max) == max - Len(buffer)

\* Mutant: a string that does not fit is dropped as a whole, without a word.
SendRawOrDrop(s) ==
  /\ writeBuffer' = IF SpaceIn(writeBuffer, WriteMax) < Len(s) THEN writeBuffer ELSE writeBuffer \o s
  /\ UNCHANGED reported

\* sendRaw and the second half of sendMessage: what does not fit is cut off.
SendRaw(s) ==
  /\ reported' = (reported \/ SpaceIn(writeBuffer, WriteMax) < Len(s))
  /\ writeBuffer' = writeBuffer \o Take(s, SpaceIn(writeBuffer, WriteMax))

\* Mutant: what the callback sends is not written in the same event.
EchoAndWait ==
  /\ pc = "message" /\ handler = "echo"
  /\ SendRaw(AsCString(readBuffer))
  /\ readBuffer' = <<>>
  /\ pc' = "poll"
  /\ UNCHANGED <<scenario, peerVars, epollVars, taken, closed, event, process,
                 received, pushes, pushed, filled>>

\* onMessage of main.cpp: receiveRawAsString, sendRaw.
EchoMessage ==
  /\ pc = "message" /\ handler = "echo"
  /\ SendRaw(AsCString(readBuffer))
  /\ readBuffer' = <<>>
  /\ pc' = "writable"
  /\ UNCHANGED <<scenario, peerVars, epollVars, taken, closed, event, process,
                 received, pushes, pushed, filled>>

\* Mutant: more than the message has to be there.
CompleteWithMore(head) == Len(readBuffer) > head.length + 1 + head.value

\* Mutant: the delimiter is forgotten in the length of a frame.
CompleteWithoutSpace(head) == Len(readBuffer) >= head.length + head.value

\* Whether the message that the head announces is there as a whole.
Complete(head) == Len(readBuffer) >= head.length + 1 + head.value

\* What receiveMessage copies, and receiveMessageAsString makes a string of.
Payload(head) ==
  LET bytes == Take(Drop(readBuffer, head.length + 1), head.value)
  IN  IF handler = "strings" THEN AsCString(bytes) ELSE bytes

\* One call of receiveMessageAsString or receiveMessage.  The callback answers
\* the message and asks for the next one until it gets none, or an empty one.
TakeMessage ==
  /\ pc = "message" /\ handler # "echo"
  /\ \E head \in {PeekIntWithLength(readBuffer, garbage) : garbage \in {Nul, Space}} :
       IF head.ok /\ Complete(head)
       THEN \E message \in {Payload(head)} :
              /\ readBuffer' = Drop(readBuffer, head.length + 1 + head.value)
              /\ received' = Append(received, message)
              /\ SendRaw(Answer(message))
              /\ pc' = IF message = <<>> THEN "writable" ELSE "message"
       ELSE /\ pc' = "writable"
            /\ UNCHANGED <<readBuffer, writeBuffer, received, reported>>
  /\ UNCHANGED <<scenario, peerVars, epollVars, taken, closed, event, process,
                 pushes, pushed, filled>>

\* Another connection's callback, on the same worker, sends on this one.
SendElsewhere ==
  /\ pc = "poll"
  /\ pushes < MaxPushes
  /\ SendRaw(<<PushByte>>)
  /\ pushes' = pushes + 1
  /\ pushed' = TRUE
  /\ UNCHANGED <<scenario, peerVars, epollVars, taken, readBuffer, closed, event, pc,
                 process, received, filled>>

-----------------------------------------------------------------------------
(* The worker's handling of one event (worker.cpp:69-76). *)

\* Mutant: the space is not looked at.
ReadAll(space) == sent - taken

\* Mutant: one call of read with a buffer of fixed size, not repeated.
ReadOnce(space) == AtMost(AtMost(space, 2), sent - taken)

\* What the loop of read calls gets: all there is, up to the buffer's space.
BytesRead(space) == AtMost(space, sent - taken)

\* onReadableEvent
OnReadableEvent ==
  LET space == SpaceIn(readBuffer, ReadMax)
      n == BytesRead(space)
  IN
  /\ pc = "readable"
  /\ IF ~event.in
     THEN /\ pc' = "writable"
          /\ UNCHANGED <<taken, readBuffer, closed, process, filled>>
     ELSE IF space <= 0
     THEN /\ process' = "exited"
          /\ UNCHANGED <<pc, taken, readBuffer, closed, filled>>
     ELSE /\ readBuffer' = readBuffer \o SubSeq(stream, taken + 1, taken + n)
          /\ taken' = taken + n
          /\ filled' = (n = space)
          /\ closed' = (n = 0)    \* onDisconnection
          /\ pc' = IF n = 0 THEN "writable" ELSE "message"
          /\ UNCHANGED process
  /\ UNCHANGED <<scenario, peerVars, epollVars, writeBuffer, event, received, reported,
                 pushes, pushed>>

\* Mutant: all that was copied is skipped, written or not.
Skipped(n) == Len(writeBuffer)

\* skipHead(totalWrite)
Written(n) == n

\* onWritableEvent: write until there is nothing left or the kernel is full; then
\* a closed connection is removed, with what is left in its buffers.
OnWritableEvent ==
  LET n == AtMost(Len(writeBuffer), SendRoom - Len(outbound)) IN
  /\ pc = "writable"
  /\ pc' = IF closed THEN "removed" ELSE "poll"
  /\ IF event.out
     THEN /\ outbound' = outbound \o Take(writeBuffer, n)
          /\ writeBuffer' = Drop(writeBuffer, Written(n))
          /\ noSpace' = (noSpace \/ n < Len(writeBuffer))
          /\ pushed' = FALSE
     ELSE UNCHANGED <<outbound, writeBuffer, noSpace, pushed>>
  /\ UNCHANGED <<scenario, sent, finished, delivered, ready, taken, readBuffer, closed,
                 event, process, received, reported, pushes, filled>>

ServerStep == Poll \/ OnReadableEvent \/ EchoMessage \/ TakeMessage \/ OnWritableEvent

Next ==
  /\ process = "running"
  /\ \/ ServerStep
     \/ \E n \in Segments : PeerSends(n) \/ PeerReceives(n)
     \/ PeerFinishes
     \/ SendElsewhere

Spec == Init /\ [][Next]_vars

\* The worker keeps running, and a peer receives what is on its way to it.
FairSpec ==
  /\ Spec
  /\ WF_vars(process = "running" /\ ServerStep)
  /\ WF_vars(process = "running" /\ \E n \in Segments : PeerReceives(n))

-----------------------------------------------------------------------------
(* Properties. *)

\* The type of every variable.
TypeOK ==
  /\ handler \in {"echo", "strings", "chars"}
  /\ messages \in Seq(Seq(Byte)) /\ stream \in Seq(Byte)
  /\ taken \in 0..sent /\ sent \in 0..Len(stream) /\ sent - taken <= ReceiveRoom
  /\ finished \in BOOLEAN /\ closed \in BOOLEAN
  /\ outbound \in Seq(Byte) /\ Len(outbound) <= SendRoom /\ delivered \in Seq(Byte)
  /\ readBuffer \in Seq(Byte) /\ Len(readBuffer) <= ReadMax
  /\ writeBuffer \in Seq(Byte) /\ Len(writeBuffer) <= WriteMax
  /\ ready \in BOOLEAN /\ noSpace \in BOOLEAN /\ event \in [in : BOOLEAN, out : BOOLEAN]
  /\ pc \in {"poll", "readable", "message", "writable", "removed"}
  /\ process \in {"running", "exited"}
  /\ received \in Seq(Seq(Byte))
  /\ reported \in BOOLEAN /\ pushed \in BOOLEAN /\ filled \in BOOLEAN /\ pushes \in Nat

\* Without a NUL in the data, a string that was reported too long, or bytes sent
\* from elsewhere, the echo (main.cpp, README.md: "echo") is the peer's bytes, in
\* order and once each, through two buffers, partial reads and partial writes.
EchoIsExact ==
  handler = "echo" /\ ~HasNul(stream) /\ ~reported /\ pushes = 0
    => Output \o readBuffer = Take(stream, taken)

\* The callback is given the peer's messages as they were sent, one by one, however
\* TCP cuts the stream (also inside of a length), and what it has not been given
\* is still in the read buffer; a std::string ends at a NUL.
MessagesArriveAsSent ==
  handler # "echo" =>
    LET whole == SubSeq(messages, 1, Len(received)) IN
    /\ Len(received) <= Len(messages)
    /\ received = IF handler = "chars" THEN whole
                  ELSE [i \in DOMAIN whole |-> AsCString(whole[i])]
    /\ Wire(handler, whole) \o readBuffer = Take(stream, taken)

\* Answers go out as whole frames in order, as long as none was reported too long;
\* a message with a NUL may not be sent with sendMessage(const char *, int), whose
\* "%s" stops short of the length it announces.
AnswersAreFramed ==
  handler # "echo" /\ ~reported /\ pushes = 0 /\ (handler = "chars" => ~HasNul(stream))
    => Output = Framed(received)

\* Edge-triggered: while the worker waits, bytes are left in the kernel only with
\* an event to come, or when the last read filled the read buffer; and bytes are
\* left in the write buffer only with an event to come or owed, or when they were
\* sent from outside of this connection's events.
NothingIsForgotten ==
  pc = "poll" =>
    /\ taken < sent => ready \/ filled
    /\ writeBuffer # <<>> => ready \/ noSpace \/ pushed

\* exit(0) is reached only over a message that does not fit into the read buffer,
\* or because the callback took an empty message for the last one; never by the
\* echo, which empties the buffer every time.
ExitsOnlyWhenFull ==
  process = "exited" =>
    /\ handler # "echo"
    /\ \/ \E i \in DOMAIN received : received[i] = <<>>
       \/ Len(OnWire(messages[Len(received) + 1])) > ReadMax

\* What a peer sends, and keeps its side open for, comes back to it (README.md,
\* "echo"), unless it was reported too long.
EchoIsComplete ==
  (handler = "echo" /\ ~HasNul(stream) /\ Len(Own(delivered)) < sent)
    ~> (Len(Own(delivered)) >= sent \/ finished \/ reported)
=============================================================================
