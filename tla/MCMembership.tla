---------------------------- MODULE MCMembership ----------------------------
(* A small instance of Membership for TLC. *)
EXTENDS Membership, TLC

CONSTANTS u1, u2, u3, c1, c2

Symmetry == Permutations({u1, u2, u3}) \cup Permutations({c1, c2})
=============================================================================
