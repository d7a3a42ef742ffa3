--------------------------- MODULE MCLogCapture ------------------------------
(* A small instance of LogCapture for TLC. *)
EXTENDS LogCapture, TLC

CONSTANTS a, b, c

Symmetry == Permutations({a, b, c})
=============================================================================
