--------------------------- MODULE TwosComplement ---------------------------
(* The int arithmetic that gcc's code does: results are cut to their width. *)
EXTENDS Integers

\* n in two's complement of the given width
Signed(n, bits) == ((n + 2^(bits - 1)) % 2^bits) - 2^(bits - 1)

\* C's division truncates toward zero.
Quotient(a, n) == IF a >= 0 THEN a \div n ELSE -((-a) \div n)
=============================================================================
