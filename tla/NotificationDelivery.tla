------------------------ MODULE NotificationDelivery ------------------------
(***************************************************************************)
(* What the notification outbox promises to a project, without workers,    *)
(* leases, timers or crashes.  A notification is queued for an endpoint,   *)
(* the receiver may accept it, and only then is it settled as delivered;   *)
(* deleting the endpoint cancels it.  Delivery is at least once: until it  *)
(* is settled, a notification may be accepted again.  Once settled it is   *)
(* never sent again, and it is never settled without having been accepted. *)
(***************************************************************************)
EXTENDS Naturals

CONSTANT Notification \* identities, never reused (AUTOINCREMENT)

VARIABLES status,    \* status[n]: where notification n stands
          receipts   \* receipts[n]: how often a receiver accepted n

vars == <<status, receipts>>

TypeOK == /\ status \in [Notification -> {"absent", "pending", "delivered", "cancelled"}]
          /\ receipts \in [Notification -> Nat]

Init == /\ status = [n \in Notification |-> "absent"]
        /\ receipts = [n \in Notification |-> 0]

Queue(N) == /\ \A n \in N : status[n] = "absent"
            /\ status' = [n \in Notification |-> IF n \in N THEN "pending" ELSE status[n]]
            /\ UNCHANGED receipts

\* A request already on its way when its endpoint is deleted may still arrive.
Accept(n) == /\ status[n] \in {"pending", "cancelled"}
             /\ receipts' = [receipts EXCEPT ![n] = @ + 1]
             /\ UNCHANGED status

Settle(n) == /\ status[n] = "pending"
             /\ receipts[n] > 0
             /\ status' = [status EXCEPT ![n] = "delivered"]
             /\ UNCHANGED receipts

Cancel(N) == /\ \A n \in N : status[n] = "pending"
             /\ status' = [n \in Notification |-> IF n \in N THEN "cancelled" ELSE status[n]]
             /\ UNCHANGED receipts

Next == \/ \E N \in SUBSET Notification : Queue(N) \/ Cancel(N)
        \/ \E n \in Notification : Accept(n) \/ Settle(n)

Spec == Init /\ [][Next]_vars
=============================================================================
