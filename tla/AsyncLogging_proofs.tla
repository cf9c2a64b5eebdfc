------------------------ MODULE AsyncLogging_proofs ------------------------
(***************************************************************************)
(* Proofs about AsyncLogging, for any number of writers and lines, any     *)
(* high-water mark, file size and set of rolling rules.                    *)
(***************************************************************************)
EXTENDS AsyncLogging, TLAPS, SequenceTheorems

USE AsyncLoggingAssumption

\* Who may still append: nobody once stop has been called, and the logging thread
\* leaves its loop only after that.
StopInv ==
  /\ stopper # "none" => writerIn = {}
  /\ ~running => stopper \in {"joining", "returned"}
  /\ pc \in {"drain", "done"} => ~running
  /\ stopper = "returned" => pc = "done"

\* Where the lines are: _nextBuffer is empty but for the time of writing, and
\* after the last lines were written everything is in the files.
LinesInv ==
  /\ pc # "write" => nextBuffer = <<>>
  /\ NothingLost
  /\ pc = "done" => written = Lines(appended)

Inv == TypeOK /\ StopInv /\ HighWaterIsNotified /\ LinesInv

-----------------------------------------------------------------------------
(* Sequences of lines. *)

LEMMA LinesType ==
  ASSUME NEW n \in Nat
  PROVE  Lines(n) \in Seq(Nat) /\ Len(Lines(n)) = n
<1>1. Lines(n) \in [1..n -> Nat]
  BY DEF Lines
<1>2. Lines(n) \in Seq(Nat)
  BY <1>1
<1> QED BY <1>2, LenProperties DEF Lines

\* Appending the next number to the first n lines gives the first n + 1.
LEMMA LinesAppend ==
  ASSUME NEW n \in Nat
  PROVE  Append(Lines(n), n + 1) = Lines(n + 1)
<1> DEFINE s == Append(Lines(n), n + 1)
<1>1. /\ s \in Seq(Nat) /\ Len(s) = n + 1
      /\ \A i \in 1..n : s[i] = Lines(n)[i]
      /\ s[n + 1] = n + 1
  BY LinesType, AppendProperties
<1>2. Lines(n + 1) \in Seq(Nat) /\ Len(Lines(n + 1)) = n + 1
  BY LinesType
<1>3. \A i \in 1..n + 1 : s[i] = Lines(n + 1)[i]
  BY <1>1 DEF Lines
<1> HIDE DEF s
<1>4. s = Lines(n + 1)
  BY <1>1, <1>2, <1>3, SeqEqual
<1> QED BY <1>4 DEF s

\* Appending to the last of three sequences is appending to all three.
LEMMA AppendLast ==
  ASSUME NEW u \in Seq(Nat), NEW v \in Seq(Nat), NEW x \in Nat
  PROVE  u \o Append(v, x) = Append(u \o v, x)
<1>1. <<x>> \in Seq(Nat) /\ u \o v \in Seq(Nat)
  BY ConcatProperties
<1>2. u \o Append(v, x) = u \o (v \o <<x>>)
  BY AppendIsConcat
<1>3. u \o (v \o <<x>>) = (u \o v) \o <<x>>
  BY <1>1, ConcatAssociative
<1>4. (u \o v) \o <<x>> = Append(u \o v, x)
  BY <1>1, AppendIsConcat
<1> QED BY <1>2, <1>3, <1>4

\* What Write does to the type of the files.
LEMMA WrittenType ==
  ASSUME TypeOK, NEW s \in Seq(Nat)
  PROVE  written \o s \in Seq(Nat) /\ fileStart \in 0..Len(written \o s)
<1>1. written \o s \in Seq(Nat) /\ Len(written \o s) = Len(written) + Len(s)
  BY ConcatProperties DEF TypeOK
<1>2. Len(written) \in Nat /\ Len(s) \in Nat
  BY DEF TypeOK
<1> QED BY <1>1, <1>2 DEF TypeOK

-----------------------------------------------------------------------------
(* Inv is inductive. *)

LEMMA InitInv == Init => Inv
<1> SUFFICES ASSUME Init PROVE Inv
  OBVIOUS
<1> USE DEF Init
<1>1. Lines(0) = <<>>
  BY LinesType, EmptySeq
<1>2. <<>> \in Seq(Nat) /\ Len(<<>>) = 0 /\ <<>> \o <<>> = <<>>
  BY ConcatEmptySeq
<1>3. TypeOK
  <2>1. appended \in Nat /\ accumulateBytes \in 0..appended /\ today \in 0..MaxDay
    OBVIOUS
  <2>2. fileStart \in 0..Len(written) /\ files \in Nat
    BY <1>2
  <2>3. currentBuffer \in Seq(Nat) /\ nextBuffer \in Seq(Nat) /\ written \in Seq(Nat)
    BY <1>2
  <2> QED BY <2>1, <2>2, <2>3 DEF TypeOK
<1>4. StopInv /\ HighWaterIsNotified
  BY DEF StopInv, HighWaterIsNotified
<1>5. LinesInv
  BY <1>1, <1>2 DEF LinesInv, NothingLost
<1> QED BY <1>3, <1>4, <1>5 DEF Inv

LEMMA AppendInv ==
  ASSUME Inv, NEW w \in Writers, EnterAppend(w) \/ AppendLine(w)
  PROVE  Inv'
<1>1. CASE EnterAppend(w)
  BY <1>1 DEF EnterAppend, bufferVars, fileVars, Inv, TypeOK, StopInv,
              HighWaterIsNotified, LinesInv, NothingLost, Lines
<1>2. CASE AppendLine(w)
  <2> USE <1>2 DEF AppendLine, fileVars, Inv
  <2>1. appended' \in Nat /\ currentBuffer' \in Seq(Nat) /\ accumulateBytes' \in 0..appended'
    <3>1. appended + 1 \in Nat /\ accumulateBytes + 1 \in 0..appended + 1
      BY DEF TypeOK
    <3> QED BY <3>1, AppendProperties DEF TypeOK
  <2>2. notified' \in BOOLEAN
    BY DEF Notify, TypeOK
  <2>3. TypeOK'
    BY <2>1, <2>2 DEF TypeOK
  <2>4. pc \notin {"drain", "done"} /\ StopInv'
    BY DEF StopInv
  <2>5. HighWaterIsNotified'
    BY DEF HighWaterIsNotified, Notify
  <2>6. LinesInv'
    <3> DEFINE before == written \o nextBuffer
    <3>1. before \in Seq(Nat) /\ currentBuffer \in Seq(Nat) /\ appended + 1 \in Nat
      BY ConcatProperties DEF TypeOK
    <3>2. before \o currentBuffer = Lines(appended)
      BY <2>4 DEF LinesInv, NothingLost
    <3> HIDE DEF before
    <3>3. before \o Append(currentBuffer, appended + 1)
            = Append(before \o currentBuffer, appended + 1)
      BY <3>1, AppendLast
    <3>4. before \o Append(currentBuffer, appended + 1) = Lines(appended + 1)
      BY <3>2, <3>3, LinesAppend DEF TypeOK
    <3> QED BY <2>4, <3>4 DEF before, LinesInv, NothingLost
  <2> QED BY <2>3, <2>4, <2>5, <2>6
<1> QED BY <1>1, <1>2

LEMMA StopStepInv ==
  ASSUME Inv, StopNotify \/ StopRunning \/ StopJoin
  PROVE  Inv'
<1> USE DEF bufferVars, fileVars, Inv
<1>1. UNCHANGED <<appended, currentBuffer, nextBuffer, written, pc>>
  BY DEF StopNotify, StopRunning, StopJoin
<1>2. LinesInv'
  BY <1>1 DEF LinesInv, NothingLost, Lines
<1>3. CASE StopNotify
  BY <1>2, <1>3 DEF StopNotify, Notify, TypeOK, StopInv, HighWaterIsNotified
<1>4. CASE StopRunning
  BY <1>2, <1>4 DEF StopRunning, TypeOK, StopInv, HighWaterIsNotified
<1>5. CASE StopJoin
  BY <1>2, <1>5 DEF StopJoin, TypeOK, StopInv, HighWaterIsNotified
<1> QED BY <1>3, <1>4, <1>5

\* The swap, by which the logging thread takes the lines that were appended.
LEMMA SwapInv ==
  ASSUME Inv, pc \in {"lock", "waiting"}, Swap,
         UNCHANGED <<running, writerIn, fileVars, today, stopper, rollingRule>>
  PROVE  Inv'
<1> USE DEF Swap, fileVars, Inv
<1>1. nextBuffer = <<>>
  BY DEF LinesInv
<1>2. /\ written \in Seq(Nat) /\ currentBuffer \in Seq(Nat)
      /\ written \o currentBuffer \in Seq(Nat)
  BY ConcatProperties DEF TypeOK
<1>3. /\ written \o <<>> = written
      /\ (written \o currentBuffer) \o <<>> = written \o currentBuffer
  BY <1>2, ConcatEmptySeq
<1>4. LinesInv'
  BY <1>1, <1>3 DEF LinesInv, NothingLost, Lines
<1>5. TypeOK'
  BY DEF TypeOK
<1>6. StopInv' /\ HighWaterIsNotified'
  BY DEF StopInv, HighWaterIsNotified
<1> QED BY <1>4, <1>5, <1>6

LEMMA LoggerStepInv ==
  ASSUME Inv, LoggerStep \/ TimeOut
  PROVE  Inv'
<1> USE DEF bufferVars, Inv
<1>1. CASE Test
  BY <1>1 DEF Test, fileVars, TypeOK, StopInv, HighWaterIsNotified, LinesInv, NothingLost, Lines
<1>2. CASE Lock
  <2>1. CASE running /\ Len(currentBuffer) < HighWaterMask
    <3>1. Len(currentBuffer) \in Nat
      BY DEF TypeOK
    <3>2. HighWaterIsNotified'
      BY <1>2, <2>1, <3>1 DEF Lock, HighWaterIsNotified
    <3>3. TypeOK' /\ StopInv' /\ LinesInv'
      BY <1>2, <2>1 DEF Lock, fileVars, TypeOK, StopInv, LinesInv, NothingLost, Lines
    <3> QED BY <3>2, <3>3
  <2>2. CASE ~(running /\ Len(currentBuffer) < HighWaterMask)
    BY <1>2, <2>2, SwapInv DEF Lock
  <2> QED BY <2>1, <2>2
<1>3. CASE WakeUp \/ TimeOut
  BY <1>3, SwapInv DEF WakeUp, TimeOut
<1>4. CASE Write
  <2> USE <1>4 DEF Write
  <2>1. TypeOK'
    BY WrittenType DEF TypeOK
  <2>2. (written \o nextBuffer) \o <<>> = written \o nextBuffer
    BY ConcatProperties, ConcatEmptySeq DEF TypeOK
  <2>3. LinesInv'
    BY <2>2 DEF LinesInv, NothingLost, Lines
  <2>4. StopInv' /\ HighWaterIsNotified'
    BY DEF StopInv, HighWaterIsNotified
  <2> QED BY <2>1, <2>3, <2>4
<1>5. CASE Roll \/ Reset
  <2>1. fileStart' \in 0..Len(written) /\ files' \in Nat /\ written' = written
    BY <1>5 DEF Roll, Reset, OpenNext, fileVars, TypeOK
  <2>2. TypeOK'
    BY <1>5, <2>1 DEF Roll, Reset, TypeOK
  <2>3. StopInv' /\ HighWaterIsNotified' /\ LinesInv'
    BY <1>5, <2>1 DEF Roll, Reset, StopInv, HighWaterIsNotified, LinesInv, NothingLost, Lines
  <2> QED BY <2>2, <2>3
<1>6. CASE Drain
  <2> USE <1>6 DEF Drain
  <2>1. TypeOK'
    BY WrittenType DEF TypeOK
  <2>2. nextBuffer = <<>> /\ written \o <<>> = written
    BY ConcatEmptySeq DEF TypeOK, LinesInv
  <2>3. LinesInv'
    BY <2>2 DEF LinesInv, NothingLost, Lines
  <2>4. StopInv' /\ HighWaterIsNotified'
    BY DEF StopInv, HighWaterIsNotified
  <2> QED BY <2>1, <2>3, <2>4
<1> QED BY <1>1, <1>2, <1>3, <1>4, <1>5, <1>6 DEF LoggerStep

LEMMA NextInv == Inv /\ [Next]_vars => Inv'
<1> SUFFICES ASSUME Inv, [Next]_vars PROVE Inv'
  OBVIOUS
<1>1. CASE Midnight
  BY <1>1 DEF Midnight, bufferVars, fileVars, Inv, TypeOK, StopInv,
              HighWaterIsNotified, LinesInv, NothingLost, Lines
<1>2. CASE UNCHANGED vars
  BY <1>2 DEF vars, bufferVars, fileVars, Inv, TypeOK, StopInv,
              HighWaterIsNotified, LinesInv, NothingLost, Lines
<1> QED BY <1>1, <1>2, AppendInv, StopStepInv, LoggerStepInv DEF Next

-----------------------------------------------------------------------------
LEMMA InvHolds == Spec => []Inv
BY InitInv, NextInv, PTL DEF Spec

\* Until the logging thread has ended, the files and the two buffers hold exactly
\* the lines appended so far, in order, whatever the writers, the timer, the
\* rolling rule and stop do in between.
THEOREM LinesAreKept == Spec => []NothingLost
<1>1. Inv => NothingLost
  BY DEF Inv, LinesInv
<1> QED BY InvHolds, <1>1, PTL

\* When stop has returned, every line ever appended is in a file.
THEOREM StopLeavesNothing == Spec => []StopFlushes
<1>1. Inv => StopFlushes
  BY DEF Inv, StopInv, LinesInv, StopFlushes
<1> QED BY InvHolds, <1>1, PTL

\* The logging thread never sleeps through a full buffer.
THEOREM NoLostWakeup == Spec => []HighWaterIsNotified
<1>1. Inv => HighWaterIsNotified
  BY DEF Inv
<1> QED BY InvHolds, <1>1, PTL

-----------------------------------------------------------------------------
(* Rolling by size. *)

\* Under the rule "size" the byte count never exceeds what is in the file or on
\* its way to it, and the logging thread that is about to reset it saw it above
\* the maximum; appends can only have added to it since.
SizeInv ==
  rollingRule = "size" =>
    /\ accumulateBytes <= Len(written) - fileStart + Len(nextBuffer) + Len(currentBuffer)
    /\ pc = "reset" => accumulateBytes > MaxBytes

LEMMA InitSizeInv == Init => SizeInv
<1>1. Len(<<>>) = 0
  OBVIOUS
<1> QED BY <1>1 DEF Init, SizeInv

\* The lengths are numbers, and a write adds up.
LEMMA Lengths ==
  ASSUME TypeOK
  PROVE  /\ Len(written) \in Nat /\ Len(nextBuffer) \in Nat /\ Len(currentBuffer) \in Nat
         /\ fileStart \in Nat /\ accumulateBytes \in Nat
         /\ Len(written \o nextBuffer) = Len(written) + Len(nextBuffer)
         /\ Len(written \o currentBuffer) = Len(written) + Len(currentBuffer)
         /\ Len(Append(currentBuffer, appended + 1)) = Len(currentBuffer) + 1
<1>1. /\ currentBuffer \in Seq(Nat) /\ nextBuffer \in Seq(Nat) /\ written \in Seq(Nat)
      /\ appended \in Nat /\ appended + 1 \in Nat
  BY DEF TypeOK
<1>2. Len(written) \in Nat /\ Len(nextBuffer) \in Nat /\ Len(currentBuffer) \in Nat
  BY <1>1
<1>3. /\ Len(written \o nextBuffer) = Len(written) + Len(nextBuffer)
      /\ Len(written \o currentBuffer) = Len(written) + Len(currentBuffer)
  BY <1>1, ConcatProperties
<1>4. Len(Append(currentBuffer, appended + 1)) = Len(currentBuffer) + 1
  BY <1>1, AppendProperties
<1>5. fileStart \in Nat /\ accumulateBytes \in Nat
  BY <1>1, <1>2 DEF TypeOK
<1> QED BY <1>2, <1>3, <1>4, <1>5

LEMMA NextSizeInv == Inv /\ SizeInv /\ [Next]_vars => SizeInv'
<1> SUFFICES ASSUME Inv, SizeInv, [Next]_vars, rollingRule' = "size" PROVE SizeInv'
  BY DEF SizeInv
<1> USE DEF SizeInv, bufferVars, fileVars
<1>0. TypeOK /\ Len(<<>>) = 0
  BY DEF Inv
<1>1. ASSUME NEW w \in Writers, EnterAppend(w) \/ AppendLine(w) PROVE SizeInv'
  BY <1>0, <1>1, Lengths DEF EnterAppend, AppendLine
<1>2. CASE StopNotify \/ StopRunning \/ StopJoin
  BY <1>2 DEF StopNotify, StopRunning, StopJoin
<1>3. CASE Test
  BY <1>3 DEF Test
<1>4. CASE Lock \/ WakeUp \/ TimeOut
  BY <1>0, <1>4, Lengths DEF Lock, WakeUp, TimeOut, Swap
<1>5. CASE Write
  BY <1>0, <1>5, Lengths DEF Write
<1>6. CASE Roll
  BY <1>0, <1>6, Lengths DEF Roll, ResetDue, ChangeDue, TooLarge
<1>7. CASE Reset
  BY <1>0, <1>7, Lengths DEF Reset, OpenNext
<1>8. CASE Drain
  BY <1>0, <1>8, Lengths DEF Drain
<1>9. CASE Midnight \/ UNCHANGED vars
  BY <1>9 DEF Midnight, vars
<1> QED BY <1>1, <1>2, <1>3, <1>4, <1>5, <1>6, <1>7, <1>8, <1>9 DEF Next, LoggerStep

\* Every variable keeps its type: the byte counts and the marks in the file never
\* run ahead of what was written, for any sizes and any number of threads.
THEOREM LoggingTypes == Spec => []TypeOK
<1>1. Inv => TypeOK
  BY DEF Inv
<1> QED BY InvHolds, <1>1, PTL

\* Under the rule "size" the logging thread changes the file only when more than
\* log-file-max-size bytes are in it or in the buffer, however long ago it tested
\* the byte count without the mutex.
THEOREM FilesAreFull == Spec => NotRolledEarly
<1> DEFINE Step == rollingRule = "size" /\ files' # files
                     => Len(written) - fileStart + Len(currentBuffer) > MaxBytes
<1>1. Inv /\ SizeInv /\ [Next]_vars => [Step]_vars
  <2> SUFFICES ASSUME Inv, SizeInv, Next, rollingRule = "size", files' # files
               PROVE  Len(written) - fileStart + Len(currentBuffer) > MaxBytes
    OBVIOUS
  <2>1. Reset
    BY DEF Next, LoggerStep, EnterAppend, AppendLine, StopNotify, StopRunning, StopJoin,
           Test, Lock, WakeUp, TimeOut, Swap, Write, Roll, ChangeDue, Drain, Midnight, fileVars
  <2>2. nextBuffer = <<>> /\ TypeOK
    BY <2>1 DEF Reset, Inv, LinesInv
  <2>3. Len(nextBuffer) = 0
    BY <2>2
  <2>4. /\ accumulateBytes <= Len(written) - fileStart + Len(nextBuffer) + Len(currentBuffer)
        /\ accumulateBytes > MaxBytes
    BY <2>1 DEF Reset, SizeInv
  <2>5. MaxBytes \in Nat
    OBVIOUS
  <2> QED BY <2>2, <2>3, <2>4, <2>5, Lengths
<1>2. Spec => []SizeInv
  BY InvHolds, InitSizeInv, NextSizeInv, PTL DEF Spec
<1> QED BY InvHolds, <1>1, <1>2, PTL DEF Spec, NotRolledEarly
=============================================================================
