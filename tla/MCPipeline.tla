----------------------------- MODULE MCPipeline ------------------------------
(* A small instance of Pipeline for TLC: one thread and two events of one issue, of *)
(* which one is other bytes when it comes from the spool, where only one has room;  *)
(* the server handles two requests at a time.  The thread only captures, for what   *)
(* flush and shutdown make the sender do with an event it also does by itself, and  *)
(* members only resolve or ignore: only events reopen an issue.                     *)
EXTENDS Pipeline, TLC

CONSTANTS e1, e2, c1, c2, i1, a1, b1, a2

AsCaptured == (e1 :> a1) @@ (e2 :> a2)
AsReread == (e1 :> b1) @@ (e2 :> a2)
SizeAlike == [e \in Event |-> 1]
OneIssue == [e \in Event |-> i1]
SmallStatusLog == [i \in Issue |-> 2]

CapturesOnly == \A t \in Caller : caller[t].at \in {"ready", "capture", "spill"}
ClosesOnly == \A c \in Client : req[c].op = "status" => req[c].to # "unresolved"
SmallSpec == PipelineInit /\ [][PipelineNext /\ CapturesOnly' /\ ClosesOnly']_pipelineVars

Symmetry == Permutations({c1, c2})
==============================================================================
