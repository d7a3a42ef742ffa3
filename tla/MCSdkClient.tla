---------------------------- MODULE MCSdkClient -----------------------------
(* Small instances of SdkClient for TLC: two threads capture three events, of which *)
(* any two, but not all three, fit into the spool.                                  *)
EXTENDS SdkClient, TLC

CONSTANTS e1, e2, e3, t1, t2

SizeOf == (e1 :> 1) @@ (e2 :> 2) @@ (e3 :> 2)
SizeAlike == [e \in Event |-> 1]
Symmetry == Permutations({t1, t2}) \cup Permutations({e2, e3})
=============================================================================
