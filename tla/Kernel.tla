------------------------------- MODULE Kernel -------------------------------
(***************************************************************************)
(* What the server sees of the operating system: the listening socket, the *)
(* connection sockets with their peers, the edge-triggered epoll instances *)
(* and the clock.  None of this is code of the repository; it is modelled  *)
(* from the calls the code makes (accept, read, epoll_wait, epoll_ctl,     *)
(* gettimeofday) and from the results those calls are checked for.         *)
(*                                                                         *)
(* Connections are numbered in the order in which their peers connect.     *)
(***************************************************************************)
EXTENDS Naturals, FiniteSets

CONSTANTS
  Workers,        \* the worker threads, each with an epoll instance
  MaxConns,       \* bound: how many peers ever connect
  MaxTime,        \* bound: how many seconds pass
  PatientClients  \* TRUE: a peer closes only once what it sent has been read

ASSUME KernelAssumption ==
  /\ Workers # {}
  /\ MaxConns \in Nat
  /\ MaxTime \in Nat
  /\ PatientClients \in BOOLEAN

VARIABLES
  opened,       \* peers 1..opened have completed the TCP handshake
  listenReady,  \* the listening socket is on the master's epoll ready list
  unread,       \* connections with bytes in the kernel's receive queue
  fin,          \* connections whose peer has closed its sending side
  rst,          \* connections reset by their peer
  interest,     \* interest[w]: connections registered in w's epoll instance
  ready,        \* registered connections that are on a ready list
  late,         \* those of them an earlier epoll_wait had no room to report
  now,          \* the clock, in seconds
  process       \* "running", or how the process ended

peerVars   == <<unread, fin, rst>>
epollVars  == <<interest, ready, late>>
kernelVars == <<opened, listenReady, peerVars, epollVars, now, process>>

Conn == 1..MaxConns

\* What epoll_wait reports of a connection: EPOLLIN when a read would return
\* bytes, end of file or an error, EPOLLERR | EPOLLHUP after a reset.  An event
\* with neither flag is EPOLLOUT alone, which every event for an idle writable
\* socket is.
Event == [conn : Conn, in : BOOLEAN, err : BOOLEAN]

EventOf(c) ==
  [conn |-> c, in |-> c \in unread \cup fin \cup rst, err |-> c \in rst]

KernelInit ==
  /\ opened = 0
  /\ listenReady = FALSE
  /\ unread = {} /\ fin = {} /\ rst = {}
  /\ interest = [w \in Workers |-> {}]
  /\ ready = {} /\ late = {}
  /\ now = 0
  /\ process = "running"

-----------------------------------------------------------------------------
(* System calls, as the changes they make to the kernel's state. *)

\* EPOLL_CTL_ADD: a fresh socket is writable, so the new item is ready at once.
EpollAdd(w, c) ==
  /\ interest' = [interest EXCEPT ![w] = @ \cup {c}]
  /\ ready' = ready \cup {c}
  /\ UNCHANGED late

\* EPOLL_CTL_DEL of every connection in S; a second DEL of one fails silently.
EpollDel(w, S) ==
  /\ interest' = [interest EXCEPT ![w] = @ \ S]
  /\ ready' = ready \ S
  /\ late' = late \ S

\* Edge trigger: activity puts a registered socket on the ready list.
Wake(c) ==
  /\ ready' = IF \E w \in Workers : c \in interest[w] THEN ready \cup {c} ELSE ready
  /\ UNCHANGED <<interest, late>>

\* epoll_wait on w's instance with room for n events, without waiting.  What did
\* not fit stays at the head of the ready list, ahead of what becomes ready later;
\* the order within one call is left open.
EpollWait(w, n, S) ==
  LET available == ready \cap interest[w]
      first     == late \cap available
  IN
  /\ S \subseteq available
  /\ Cardinality(S) <= n
  /\ S = available \/ Cardinality(S) = n
  /\ first \subseteq S \/ S \subseteq first
  /\ ready' = ready \ S
  /\ late' = (late \cup available) \ S
  /\ UNCHANGED interest

-----------------------------------------------------------------------------
(* The environment: peers and time. *)

Talking(c) == c \in 1..opened /\ c \notin fin \cup rst

\* A new peer completes the handshake and waits in the listen queue.
Connect ==
  /\ opened < MaxConns
  /\ opened' = opened + 1
  /\ listenReady' = TRUE
  /\ UNCHANGED <<peerVars, epollVars, now, process>>

Send(c) ==
  /\ Talking(c)
  /\ c \notin unread
  /\ unread' = unread \cup {c}
  /\ Wake(c)
  /\ UNCHANGED <<opened, listenReady, fin, rst, now, process>>

Finish(c) ==
  /\ Talking(c)
  /\ PatientClients => c \notin unread
  /\ fin' = fin \cup {c}
  /\ Wake(c)
  /\ UNCHANGED <<opened, listenReady, unread, rst, now, process>>

Reset(c) ==
  /\ c \in 1..opened /\ c \notin rst
  /\ rst' = rst \cup {c}
  /\ Wake(c)
  /\ UNCHANGED <<opened, listenReady, unread, fin, now, process>>

Tick ==
  /\ now < MaxTime
  /\ now' = now + 1
  /\ UNCHANGED <<opened, listenReady, peerVars, epollVars, process>>

Environment ==
  \/ Connect
  \/ \E c \in Conn : Send(c) \/ Finish(c) \/ Reset(c)
  \/ Tick
=============================================================================
