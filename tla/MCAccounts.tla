----------------------------- MODULE MCAccounts ------------------------------
(* A small instance of Accounts for TLC. *)
EXTENDS Accounts, TLC

CONSTANTS u1, u2, p1, p2, c1, c2, r1, r2, k1

Symmetry == Permutations({u1, u2}) \cup Permutations({p1, p2})
  \cup Permutations({c1, c2}) \cup Permutations({r1, r2})
=============================================================================
