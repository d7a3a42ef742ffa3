--------------------------- MODULE EventCollection ---------------------------
(***************************************************************************)
(* What SDK and server promise together about the events of one            *)
(* application, without queues, spools, posts and answers: an event is     *)
(* captured, and at some time after that it may be counted, once.  Being   *)
(* counted is all an event does to its issue: it opens a new one, reopens  *)
(* a resolved one, and leaves any other as members have decided.  Nothing  *)
(* else changes an issue's status but a member whose request is granted,   *)
(* so that a copy of an event that was counted can reopen nothing.         *)
(***************************************************************************)
EXTENDS Naturals

CONSTANTS
  Event,   \* events, each under its own event_id
  Issue,
  IssueOf, \* IssueOf[e]: the issue e belongs to
  Member   \* members who decide about issues, each on one at a time

VARIABLES
  captured,  \* events handed to the SDK
  counted,   \* events stored by the server
  total,     \* total[f]: the event_count of issue f
  status,    \* status[f]: "none" before its first event
  asked      \* asked[m]: the decision that member m has asked for

vars == <<captured, counted, total, status, asked>>

Decisions == {"unresolved", "resolved", "ignored"}
NoDecision == [to |-> "none"]

Init ==
  /\ captured = {} /\ counted = {}
  /\ total = [f \in Issue |-> 0]
  /\ status = [f \in Issue |-> "none"]
  /\ asked = [m \in Member |-> NoDecision]

Capture(e) ==
  /\ captured' = captured \cup {e}
  /\ UNCHANGED <<counted, total, status, asked>>

Reopened(s) == IF s \in {"none", "resolved"} THEN "unresolved" ELSE s

Count(e) ==
  /\ e \in captured \ counted
  /\ counted' = counted \cup {e}
  /\ total' = [total EXCEPT ![IssueOf[e]] = @ + 1]
  /\ status' = [status EXCEPT ![IssueOf[e]] = Reopened(@)]
  /\ UNCHANGED <<captured, asked>>

Ask(m, f, s) ==
  /\ asked[m] = NoDecision
  /\ status[f] # "none"
  /\ asked' = [asked EXCEPT ![m] = [issue |-> f, to |-> s]]
  /\ UNCHANGED <<captured, counted, total, status>>

\* A request is granted once.
Decide(m) ==
  /\ asked[m] # NoDecision
  /\ status' = [status EXCEPT ![asked[m].issue] = asked[m].to]
  /\ asked' = [asked EXCEPT ![m] = NoDecision]
  /\ UNCHANGED <<captured, counted, total>>

\* Or not at all.
Dismiss(m) ==
  /\ asked' = [asked EXCEPT ![m] = NoDecision]
  /\ UNCHANGED <<captured, counted, total, status>>

Next ==
  \/ \E e \in Event : Capture(e) \/ Count(e)
  \/ \E m \in Member :
       Decide(m) \/ Dismiss(m) \/ \E f \in Issue, s \in Decisions : Ask(m, f, s)

Spec == Init /\ [][Next]_vars
=============================================================================
