---------------------------- MODULE MCTcpServer ----------------------------
(* TcpServer on small instances: workers are interchangeable. *)
EXTENDS TcpServer, TLC

CONSTANTS w1, w2

Symmetry == Permutations(Workers)
AllCallbacks == {"connection", "message", "disconnection"}
=============================================================================
