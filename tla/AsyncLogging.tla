---------------------------- MODULE AsyncLogging ----------------------------
(***************************************************************************)
(* The log (asyncLogging.cpp): threads append lines to a buffer under a    *)
(* mutex; one logging thread swaps the buffer out when it is full enough   *)
(* or a timer runs out, writes the lines and changes to a new file by size *)
(* or by date.                                                             *)
(*                                                                         *)
(* Lines are numbered in the order in which they are appended and have the *)
(* size 1.  A step that holds the mutex is atomic.                         *)
(***************************************************************************)
EXTENDS Naturals, Sequences

CONSTANTS
  Writers,        \* the threads that append
  HighWaterMask,  \* log-high-watermask
  RollingRules,   \* the values of log-file-rolling to consider
  MaxBytes,       \* log-file-max-size
  MaxLines,       \* bound: how many lines are appended
  MaxDay,         \* bound: how many midnights pass
  MayStop         \* TRUE: stop is called

ASSUME AsyncLoggingAssumption ==
  /\ HighWaterMask \in Nat \ {0}
  /\ RollingRules \subseteq {"none", "size", "daily", "sizedaily"}
  /\ MaxBytes \in Nat /\ MaxLines \in Nat /\ MaxDay \in Nat
  /\ MayStop \in BOOLEAN

VARIABLES
  appended,         \* history: lines 1..appended have been appended
  currentBuffer,    \* _currentBuffer
  nextBuffer,       \* _nextBuffer
  accumulateBytes,  \* _accumulateBytes
  running,          \* _running
  writerIn,         \* writers inside of append, past its test of _running
  pc,               \* where the logging thread is
  notified,         \* the logging thread was notified while it waited
  written,          \* the lines in the files, over all files
  fileStart,        \* how many of them are in earlier files
  files,            \* how many files have been opened
  today,            \* the date; _currentDate is the first one
  stopper,          \* how far the call of stop is
  rollingRule       \* _rollingRule, set before start

bufferVars == <<appended, currentBuffer, nextBuffer, accumulateBytes>>
fileVars == <<written, fileStart, files>>
vars == <<bufferVars, running, writerIn, pc, notified, fileVars, today, stopper, rollingRule>>

Lines(n) == [i \in 1..n |-> i]

\* start() has been called and the first file opened.
Init ==
  /\ appended = 0
  /\ currentBuffer = <<>> /\ nextBuffer = <<>>
  /\ accumulateBytes = 0
  /\ running = TRUE
  /\ writerIn = {}
  /\ pc = "test"
  /\ notified = FALSE
  /\ written = <<>> /\ fileStart = 0 /\ files = 1
  /\ today = 0
  /\ stopper = "none"
  /\ rollingRule \in RollingRules

Notify == notified' = (pc = "waiting" \/ notified)

-----------------------------------------------------------------------------
(* append, called by any thread.  Whoever calls stop has ended them before. *)

EnterAppend(w) ==
  /\ w \notin writerIn
  /\ stopper = "none"
  /\ appended < MaxLines
  /\ running
  /\ writerIn' = writerIn \cup {w}
  /\ UNCHANGED <<bufferVars, running, pc, notified, fileVars, today, stopper, rollingRule>>

\* Mutant: the newline that writeLine adds is counted, too.
AppendWithNewline(w) ==
  /\ w \in writerIn
  /\ writerIn' = writerIn \ {w}
  /\ appended' = appended + 1
  /\ currentBuffer' = Append(currentBuffer, appended')
  /\ accumulateBytes' = accumulateBytes + 2
  /\ IF Len(currentBuffer') >= HighWaterMask \/ accumulateBytes' > MaxBytes
     THEN Notify
     ELSE UNCHANGED notified
  /\ UNCHANGED <<nextBuffer, running, pc, fileVars, today, stopper, rollingRule>>

\* Mutant: the high-water mark is not looked at.
AppendQuietly(w) ==
  /\ w \in writerIn
  /\ writerIn' = writerIn \ {w}
  /\ appended' = appended + 1
  /\ currentBuffer' = Append(currentBuffer, appended')
  /\ accumulateBytes' = accumulateBytes + 1
  /\ IF accumulateBytes' > MaxBytes THEN Notify ELSE UNCHANGED notified
  /\ UNCHANGED <<nextBuffer, running, pc, fileVars, today, stopper, rollingRule>>

AppendLine(w) ==
  /\ w \in writerIn
  /\ writerIn' = writerIn \ {w}
  /\ appended' = appended + 1
  /\ currentBuffer' = Append(currentBuffer, appended')
  /\ accumulateBytes' = accumulateBytes + 1
  /\ IF Len(currentBuffer') >= HighWaterMask \/ accumulateBytes' > MaxBytes
     THEN Notify
     ELSE UNCHANGED notified
  /\ UNCHANGED <<nextBuffer, running, pc, fileVars, today, stopper, rollingRule>>

-----------------------------------------------------------------------------
(* stop *)

StopNotify ==
  /\ MayStop
  /\ stopper = "none" /\ writerIn = {}
  /\ stopper' = "notified"
  /\ Notify
  /\ UNCHANGED <<bufferVars, running, writerIn, pc, fileVars, today, rollingRule>>

\* Mutant: _running is not cleared.
StopNotRunning ==
  /\ stopper = "notified"
  /\ stopper' = "joining"
  /\ UNCHANGED <<bufferVars, running, writerIn, pc, notified, fileVars, today, rollingRule>>

StopRunning ==
  /\ stopper = "notified"
  /\ stopper' = "joining"
  /\ running' = FALSE
  /\ UNCHANGED <<bufferVars, writerIn, pc, notified, fileVars, today, rollingRule>>

StopJoin ==
  /\ stopper = "joining"
  /\ pc = "done"
  /\ stopper' = "returned"
  /\ UNCHANGED <<bufferVars, running, writerIn, pc, notified, fileVars, today, rollingRule>>

-----------------------------------------------------------------------------
(* The logging thread, threadFunction. *)

Test ==
  /\ pc = "test"
  /\ pc' = IF running THEN "lock" ELSE "drain"
  /\ UNCHANGED <<bufferVars, running, writerIn, notified, fileVars, today, stopper, rollingRule>>

Swap ==
  /\ pc' = "write"
  /\ currentBuffer' = nextBuffer
  /\ nextBuffer' = currentBuffer
  /\ notified' = FALSE
  /\ UNCHANGED <<appended, accumulateBytes>>

\* With the mutex held: swap at once, or wait, which releases it.
Lock ==
  /\ pc = "lock"
  /\ IF running /\ Len(currentBuffer) < HighWaterMask
     THEN /\ pc' = "waiting"
          /\ UNCHANGED <<bufferVars, notified>>
     ELSE Swap
  /\ UNCHANGED <<running, writerIn, fileVars, today, stopper, rollingRule>>

WakeUp ==
  /\ pc = "waiting"
  /\ notified
  /\ Swap
  /\ UNCHANGED <<running, writerIn, fileVars, today, stopper, rollingRule>>

\* Mutant: after the timer the buffers are not swapped.
TimeOutIdle ==
  /\ pc = "waiting"
  /\ pc' = "test"
  /\ UNCHANGED <<bufferVars, running, writerIn, notified, fileVars, today, stopper, rollingRule>>

\* waitForSeconds gives up, or wakes up for no reason.
TimeOut ==
  /\ pc = "waiting"
  /\ Swap
  /\ UNCHANGED <<running, writerIn, fileVars, today, stopper, rollingRule>>

\* Mutant: _nextBuffer is not cleared.
WriteKeeping ==
  /\ pc = "write"
  /\ pc' = IF nextBuffer = <<>> THEN "test" ELSE "roll"
  /\ written' = written \o nextBuffer
  /\ UNCHANGED <<bufferVars, running, writerIn, notified, fileStart, files, today, stopper, rollingRule>>

Write ==
  /\ pc = "write"
  /\ pc' = IF nextBuffer = <<>> THEN "test" ELSE "roll"
  /\ written' = written \o nextBuffer
  /\ nextBuffer' = <<>>
  /\ UNCHANGED <<appended, currentBuffer, accumulateBytes, running, writerIn, notified,
                 fileStart, files, today, stopper, rollingRule>>

TooLarge == accumulateBytes > MaxBytes
NewDate == today # 0

\* A change of file that also resets _accumulateBytes, and one that does not.
ResetDue ==
  \/ rollingRule = "size" /\ TooLarge
  \/ rollingRule = "sizedaily" /\ (TooLarge \/ NewDate)
ChangeDue == rollingRule = "daily" /\ NewDate

OpenNext ==
  /\ files' = files + 1
  /\ fileStart' = Len(written)
  /\ UNCHANGED written

\* Decide, without the mutex, whether to change to a new file.
Roll ==
  /\ pc = "roll"
  /\ pc' = IF ResetDue THEN "reset" ELSE "test"
  /\ IF ChangeDue THEN OpenNext ELSE UNCHANGED fileVars
  /\ UNCHANGED <<bufferVars, running, writerIn, notified, today, stopper, rollingRule>>

\* Mutant: _accumulateBytes is not reset.
ResetNothing ==
  /\ pc = "reset"
  /\ pc' = "test"
  /\ OpenNext
  /\ UNCHANGED <<bufferVars, running, writerIn, notified, today, stopper, rollingRule>>

\* With the mutex again.
Reset ==
  /\ pc = "reset"
  /\ pc' = "test"
  /\ accumulateBytes' = 0
  /\ OpenNext
  /\ UNCHANGED <<appended, currentBuffer, nextBuffer, running, writerIn, notified, today, stopper, rollingRule>>

\* Mutant: what is left in the buffer after the loop is not written.
DrainNothing ==
  /\ pc = "drain"
  /\ pc' = "done"
  /\ UNCHANGED <<bufferVars, running, writerIn, notified, fileVars, today, stopper, rollingRule>>

\* After the loop, without the mutex.
Drain ==
  /\ pc = "drain"
  /\ pc' = "done"
  /\ written' = written \o currentBuffer
  /\ UNCHANGED <<bufferVars, running, writerIn, notified, fileStart, files, today, stopper, rollingRule>>

LoggerStep == Test \/ Lock \/ WakeUp \/ Write \/ Roll \/ Reset \/ Drain

-----------------------------------------------------------------------------
Midnight ==
  /\ today < MaxDay
  /\ today' = today + 1
  /\ UNCHANGED <<bufferVars, running, writerIn, pc, notified, fileVars, stopper, rollingRule>>

Next ==
  \/ \E w \in Writers : EnterAppend(w) \/ AppendLine(w)
  \/ StopNotify \/ StopRunning \/ StopJoin
  \/ LoggerStep
  \/ TimeOut
  \/ Midnight

Spec == Init /\ [][Next]_vars

\* The logging thread and whoever called stop are scheduled, and the timer of
\* waitForSeconds runs out.
FairSpec ==
  /\ Spec
  /\ WF_vars(LoggerStep)
  /\ WF_vars(TimeOut)
  /\ WF_vars(StopRunning \/ StopJoin)

-----------------------------------------------------------------------------
(* Properties. *)

\* The type of every variable.
TypeOK ==
  /\ appended \in Nat /\ accumulateBytes \in 0..appended
  /\ currentBuffer \in Seq(Nat) /\ nextBuffer \in Seq(Nat) /\ written \in Seq(Nat)
  /\ running \in BOOLEAN /\ notified \in BOOLEAN
  /\ writerIn \subseteq Writers
  /\ pc \in {"test", "lock", "waiting", "write", "roll", "reset", "drain", "done"}
  /\ fileStart \in 0..Len(written) /\ files \in Nat /\ today \in 0..MaxDay
  /\ stopper \in {"none", "notified", "joining", "returned"}
  /\ rollingRule \in RollingRules

\* Across the two buffers, the swaps and the changes of file no line is lost,
\* doubled or reordered: the files and the buffers hold the lines in the order in
\* which they were appended.
NothingLost ==
  pc # "done" => written \o nextBuffer \o currentBuffer = Lines(appended)

\* When stop returns, every line is in a file.
StopFlushes == stopper = "returned" => written = Lines(appended)

\* Under the rule "size" a file is left only for one that log-file-max-size
\* requires: more than that many bytes are in it or about to be written.
NotRolledEarly ==
  [][rollingRule = "size" /\ files' # files
       => Len(written) - fileStart + Len(currentBuffer) > MaxBytes]_vars

\* The notification at the high-water mark is not lost while the logging thread is
\* about to wait: it never sleeps on a buffer that has reached the mark.
HighWaterIsNotified ==
  pc = "waiting" /\ Len(currentBuffer) >= HighWaterMask => notified

\* With the timer every line is written in the end.
LinesAreWritten == \A n \in 1..MaxLines : appended = n ~> Len(written) >= n

\* stop returns, although it notifies before it clears _running, so that the
\* logging thread may go back to waiting in between.
StopReturns == stopper # "none" ~> stopper = "returned"

\* Under the rules by size, what the logging thread has left behind when it looks
\* for new lines is a file of at most log-file-max-size (README.md), even without
\* the newlines that writeLine adds.
FileSizeIsLimited ==
  rollingRule \in {"size", "sizedaily"} /\ pc = "lock"
    => Len(written) - fileStart <= MaxBytes
=============================================================================
