------------------------------ MODULE Acceptor ------------------------------
(***************************************************************************)
(* The master thread's loop (Acceptor::start): wait for the listening      *)
(* socket, accept until the queue is empty, run the server cron.  The      *)
(* listening socket is edge-triggered and non-blocking.  The connection    *)
(* callback and the cron are TcpServer's and are conjoined there.          *)
(***************************************************************************)
EXTENDS Kernel

CONSTANTS
  FdLimit,         \* descriptors the process may still open for connections
  TransientErrors  \* TRUE: accept may fail with ECONNABORTED or EPROTO

ASSUME AcceptorAssumption ==
  /\ FdLimit \in Nat
  /\ TransientErrors \in BOOLEAN

VARIABLES
  mpc,       \* "wait", "accept" or "cron": where the master thread is
  dequeued,  \* peers 1..dequeued have left the listen queue
  aborted,   \* those of them that accept reported as an error
  fds        \* descriptors held by accepted connections

acceptorVars == <<mpc, dequeued, aborted, fds>>

Pending == dequeued < opened

AcceptorInit ==
  /\ mpc = "wait"
  /\ dequeued = 0
  /\ aborted = {}
  /\ fds = 0

\* epoll_wait(_epollfd, events, 1, timeout): one event when the listening socket
\* is on the ready list and still readable, none when the 10 ms pass.
WaitForListener ==
  /\ mpc = "wait"
  /\ mpc' = IF listenReady /\ Pending THEN "accept" ELSE "cron"
  /\ listenReady' = FALSE
  /\ UNCHANGED <<dequeued, aborted, fds, opened, peerVars, epollVars, now, process>>

\* Mutant: the result of accept is not tested before it is used.
AcceptUntested ==
  /\ mpc = "accept"
  /\ fds < FdLimit
  /\ dequeued' = dequeued + 1
  /\ fds' = fds + 1
  /\ UNCHANGED <<mpc, aborted, kernelVars>>

\* accept returns a descriptor.  The new connection is number dequeued'.
Accept ==
  /\ mpc = "accept"
  /\ Pending
  /\ fds < FdLimit
  /\ dequeued' = dequeued + 1
  /\ fds' = fds + 1
  /\ UNCHANGED <<mpc, aborted, kernelVars>>

\* Mutant: the inner loop may end before the queue is empty.
AcceptSome ==
  /\ mpc = "accept"
  /\ fds < FdLimit
  /\ mpc' = "cron"
  /\ UNCHANGED <<dequeued, aborted, fds, kernelVars>>

\* EAGAIN: the queue is empty and the inner loop ends.
AcceptDrained ==
  /\ mpc = "accept"
  /\ ~Pending
  /\ fds < FdLimit
  /\ mpc' = "cron"
  /\ UNCHANGED <<dequeued, aborted, fds, kernelVars>>

\* ECONNABORTED or EPROTO: the peer at the head of the queue is gone, and the
\* inner loop ends although others may be queued behind it.
AcceptTransientError ==
  /\ TransientErrors
  /\ mpc = "accept"
  /\ Pending
  /\ fds < FdLimit
  /\ dequeued' = dequeued + 1
  /\ aborted' = aborted \cup {dequeued + 1}
  /\ mpc' = "cron"
  /\ UNCHANGED <<fds, kernelVars>>

\* EMFILE (reported before the queue is looked at): assert(ret >= 0) fails.
AcceptOutOfDescriptors ==
  /\ mpc = "accept"
  /\ fds >= FdLimit
  /\ process' = "aborted"
  /\ UNCHANGED <<acceptorVars, opened, listenReady, peerVars, epollVars, now>>

\* _serverCron() returned: the loop starts over.
CronDone ==
  /\ mpc = "cron"
  /\ mpc' = "wait"
  /\ UNCHANGED <<dequeued, aborted, fds, kernelVars>>
=============================================================================
