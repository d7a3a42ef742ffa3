------------------------------ MODULE MCIssues ------------------------------
(* A small instance of Issues for TLC. *)
EXTENDS Issues, TLC

CONSTANTS x1, x2, y, old, c1, c2, k1

\* x1 and x2 share an event id, x1 and y an issue whose labels do not fit with every
\* edit; old is a legacy event of x2's issue.
SmallEventId == (x1 :> "x") @@ (x2 :> "x") @@ (y :> "y") @@ (old :> "o")
SmallFingerprint == (x1 :> "f") @@ (x2 :> "g") @@ (y :> "f") @@ (old :> "g")
SmallLabels == (x1 :> {}) @@ (x2 :> {}) @@ (y :> {"s", "t"}) @@ (old :> {})

\* Statuses change most where a legacy event is, tags where labels come.
SmallStatusLog == ("f" :> 1) @@ ("g" :> 2)
SmallTagLog == ("f" :> 2) @@ ("g" :> 0)

Symmetry == Permutations({c1, c2})
=============================================================================
