--------------------------- MODULE MCAsyncLogging ---------------------------
(* AsyncLogging with two writing threads, which are interchangeable. *)
EXTENDS AsyncLogging, TLC

CONSTANTS a, b

Symmetry == Permutations(Writers)
=============================================================================
