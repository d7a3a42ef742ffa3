------------------------------- MODULE Outbox -------------------------------
(***************************************************************************)
(* The notification outbox: rows committed by ingestion, the one worker    *)
(* task that claims a row under a lease, posts it and settles it, and the  *)
(* server process around them (src/src/outbox.rs, the worker's life in     *)
(* src/src/lib.rs, the endpoint handlers in src/src/handlers.rs).          *)
(*                                                                         *)
(* Time is relative: a row holds the seconds left until it is available    *)
(* and until its lease ends, and the worker the seconds left in what it is *)
(* doing.  The columns available_at and locked_at are compared with now    *)
(* only, so nothing is lost and the state stays finite.                    *)
(***************************************************************************)
EXTENDS Integers, FiniteSets, Functions

CONSTANTS Endpoint,     \* ids of rows of notification_endpoints
          MaxRow,       \* bound: ids of outbox rows are 1 .. MaxRow
          MaxFault,     \* bound: ambiguous outcomes and crashes in a behaviour
          Lease,        \* seconds a claim holds a row (60)
          AttemptTime,  \* longest delivery: resolving, and the 10 s HTTP timeout
          IdleSleep,    \* sleep when nothing is claimable (2)
          ErrorSleep,   \* sleep after a database error (5)
          BaseDelay,    \* retry_delay: first step (5)
          DelayCap,     \* retry_delay: cap of the exponential part (3600)
          LongDelay,    \* retry_delay: from LongAfter attempts on (86400)
          LongAfter     \* retry_delay: attempts >= 12

ASSUME BoundAssumption == MaxRow \in Nat /\ MaxFault \in Nat
ASSUME TimeAssumption ==
  /\ {Lease, BaseDelay, DelayCap, LongDelay, LongAfter} \subseteq Nat \ {0}
  /\ {AttemptTime, IdleSleep, ErrorSleep} \subseteq Nat
  /\ DelayCap <= LongDelay

\* Arithmetic the provers do not know: powers of two are positive.
ASSUME PowerAssumption == \A n \in 0 .. LongAfter : 2 ^ n > 0

Row == 1 .. MaxRow
NoEndpoint == "none"
ASSUME EndpointAssumption == NoEndpoint \notin Endpoint

VARIABLES
  endpoints,  \* rows of notification_endpoints, by id
  retired,    \* ids of deleted endpoints (AUTOINCREMENT: never used again)
  nextRow,    \* AUTOINCREMENT: the id of the next outbox row
  row,        \* row[r]: "absent", "pending", "delivered", or "deleted" by cascade
  target,     \* target[r]: endpoint_id
  attempts,   \* attempts[r], counted up to LongAfter: retry_delay is constant above
  wait,       \* wait[r]: available_at - now, 0 when due
  lease,      \* lease[r]: seconds until locked_at < now - 60; 0 is unlocked
  server,     \* "running", "stopping" (shutdown flag sent), "stopped", "crashed"
  pc,         \* what the worker task is doing
  job,        \* the Delivery record it claimed: row id (0 when it holds none) ...
  jobTries,   \*   ... and the attempts returned by the claim
  timer,      \* seconds left in the worker's attempt or sleep
  healthy,    \* endpoints whose receiver answers 2xx from now on
  receipts,   \* receipts[r]: history, POSTs of r the receiver accepted
  settled,    \* history: rows once marked delivered
  unsure,     \* unsure[r]: history, accepted POSTs of r the worker never recorded
  faults,     \* faults so far
  since,      \* since[r]: history, seconds since pending r was last claimed, up to Lease + 1
  lateClaims  \* history: claims the worker made since it was told to stop

tableVars   == <<endpoints, retired, nextRow, row, target, attempts, wait, lease>>
workerVars  == <<server, pc, job, jobTries, timer>>
historyVars == <<receipts, settled, unsure, faults, since, lateClaims>>
vars == <<tableVars, workerVars, healthy, historyVars>>

WorkerState == {"top", "claiming", "attempting", "accepted", "failed",
                "idle", "erred", "gone"}

\* The worker holds a Delivery record.
InFlight == pc \in {"attempting", "accepted", "failed"}

Lower(a, b) == IF a <= b THEN a ELSE b

\* Mutated form: no backoff.
RetryDelayNone(n) == 0

RetryDelay(n) == IF n >= LongAfter THEN LongDelay ELSE Lower(BaseDelay * 2 ^ n, DelayCap)

TypeOK ==
  /\ endpoints \subseteq Endpoint /\ retired \subseteq Endpoint
  /\ nextRow \in 1 .. MaxRow + 1
  /\ row \in [Row -> {"absent", "pending", "delivered", "deleted"}]
  /\ target \in [Row -> Endpoint \cup {NoEndpoint}]
  /\ attempts \in [Row -> 0 .. LongAfter]
  /\ wait \in [Row -> Nat]
  /\ lease \in [Row -> 0 .. Lease + 1]
  /\ server \in {"running", "stopping", "stopped", "crashed"}
  /\ pc \in WorkerState /\ (pc = "gone" <=> server \in {"stopped", "crashed"})
  /\ job \in 0 .. MaxRow /\ (job # 0 <=> InFlight)
  /\ jobTries \in 0 .. LongAfter
  /\ timer \in Nat
  /\ healthy \subseteq Endpoint
  /\ receipts \in [Row -> Nat]
  /\ settled \subseteq Row
  /\ unsure \in [Row -> Nat]
  /\ faults \in 0 .. MaxFault
  /\ since \in [Row -> 0 .. Lease + 1]
  /\ lateClaims \in Nat

Init ==
  /\ endpoints = {} /\ retired = {}
  /\ nextRow = 1
  /\ row = [r \in Row |-> "absent"]
  /\ target = [r \in Row |-> NoEndpoint]
  /\ attempts = [r \in Row |-> 0]
  /\ wait = [r \in Row |-> 0]
  /\ lease = [r \in Row |-> 0]
  /\ server = "running" /\ pc = "top" /\ job = 0 /\ jobTries = 0 /\ timer = 0
  /\ healthy = {}
  /\ receipts = [r \in Row |-> 0]
  /\ settled = {}
  /\ unsure = [r \in Row |-> 0]
  /\ faults = 0
  /\ since = [r \in Row |-> Lease + 1]
  /\ lateClaims = 0
-----------------------------------------------------------------------------
(* Helpers of the actions. *)

ZeroedFor(column, e) == [r \in Row |-> IF target[r] = e THEN 0 ELSE column[r]]

\* Mutated form: delivered_at IS NULL is forgotten.
ClaimableDelivered(r) == row[r] \in {"pending", "delivered"} /\ wait[r] = 0 /\ lease[r] = 0

Claimable(r) == row[r] = "pending" /\ wait[r] = 0 /\ lease[r] = 0

\* deliver returns to the top of the loop and the Delivery record is dropped.
DropDelivery == pc' = "top" /\ job' = 0 /\ jobTries' = 0

(* Mutated forms: plausible mistakes in outbox.rs that the properties must notice. *)

\* The task returns, but nothing waits for it.
CheckShutdownDetached ==
  /\ pc = "top"
  /\ pc' = IF server = "stopping" THEN "gone" ELSE "claiming"
  /\ UNCHANGED <<tableVars, server, job, jobTries, timer, healthy, historyVars>>

\* The flag is never looked at.
CheckShutdownNever ==
  /\ pc = "top"
  /\ pc' = "claiming"
  /\ UNCHANGED <<tableVars, server, job, jobTries, timer, healthy, historyVars>>

\* The lock is cleared but delivered_at is not set.
MarkDeliveredUnlocksOnly ==
  /\ pc = "accepted"
  /\ lease' = [lease EXCEPT ![job] = 0]
  /\ DropDelivery
  /\ UNCHANGED <<endpoints, retired, nextRow, row, target, attempts, wait, server, timer, healthy,
                 historyVars>>

\* The row is unlocked, but available_at stays in the past.
RescheduleNow ==
  /\ pc = "failed"
  /\ lease' = [lease EXCEPT ![job] = 0]
  /\ DropDelivery
  /\ UNCHANGED <<endpoints, retired, nextRow, row, target, attempts, wait, server, timer, healthy,
                 historyVars>>

-----------------------------------------------------------------------------
(* Handlers: webhooks and ingestion.  Each transaction is one step. *)

CreateWebhook(e) ==
  /\ server = "running"
  /\ e \notin endpoints \cup retired
  /\ endpoints' = endpoints \cup {e}
  /\ UNCHANGED <<retired, nextRow, row, target, attempts, wait, lease,
                 workerVars, healthy, historyVars>>

\* DELETE FROM notification_endpoints; its outbox rows go with it (ON DELETE CASCADE).
DeleteWebhook(e) ==
  /\ server = "running"
  /\ e \in endpoints
  /\ endpoints' = endpoints \ {e}
  /\ retired' = retired \cup {e}
  /\ row' = [r \in Row |-> IF target[r] = e THEN "deleted" ELSE row[r]]
  /\ attempts' = ZeroedFor(attempts, e) /\ wait' = ZeroedFor(wait, e)
  /\ lease' = ZeroedFor(lease, e)
  /\ UNCHANGED <<nextRow, target, workerVars, healthy, historyVars>>

\* Ingestion created or regressed an issue: INSERT INTO outbox ... SELECT, one row
\* for each endpoint, in whatever order the SELECT yields them.
Notify ==
  /\ server = "running"
  /\ \E last \in nextRow .. MaxRow :
       \E of \in Bijection(nextRow .. last, endpoints) :
         /\ row' = [r \in Row |-> IF r \in DOMAIN of THEN "pending" ELSE row[r]]
         /\ target' = [r \in Row |-> IF r \in DOMAIN of THEN of[r] ELSE target[r]]
         /\ nextRow' = last + 1
  /\ UNCHANGED <<endpoints, retired, attempts, wait, lease, workerVars, healthy, historyVars>>

-----------------------------------------------------------------------------
(* The worker task: run, claim, deliver, fail. *)

\* The top of the loop in run: `if *shutdown.borrow() { break; }`.
CheckShutdown ==
  /\ pc = "top"
  /\ IF server = "stopping"
       THEN pc' = "gone" /\ server' = "stopped"
       ELSE pc' = "claiming" /\ UNCHANGED server
  /\ UNCHANGED <<tableVars, job, jobTries, timer, healthy, historyVars>>

Claim(r) ==
  /\ pc = "claiming"
  /\ Claimable(r)
  /\ \A s \in Row : Claimable(s) => r <= s
  /\ lease' = [lease EXCEPT ![r] = Lease + 1]
  /\ attempts' = [attempts EXCEPT ![r] = Lower(@ + 1, LongAfter)]
  /\ pc' = "attempting" /\ job' = r /\ jobTries' = attempts'[r] /\ timer' = AttemptTime
  /\ since' = [since EXCEPT ![r] = 0]
  /\ lateClaims' = IF server = "stopping" THEN lateClaims + 1 ELSE lateClaims
  /\ UNCHANGED <<endpoints, retired, nextRow, row, target, wait, server, healthy,
                 receipts, settled, unsure, faults>>

ClaimNothing ==
  /\ pc = "claiming"
  /\ \A r \in Row : ~Claimable(r)
  /\ pc' = "idle" /\ timer' = IdleSleep
  /\ UNCHANGED <<tableVars, server, job, jobTries, healthy, historyVars>>

ClaimError ==
  /\ pc = "claiming"
  /\ faults < MaxFault /\ faults' = faults + 1
  /\ pc' = "erred" /\ timer' = ErrorSleep
  /\ UNCHANGED <<tableVars, server, job, jobTries, healthy,
                 receipts, settled, unsure, since, lateClaims>>

\* The sleep after Ok(None) ends early on shutdown, the one after an error does not.
Wake ==
  /\ \/ pc = "idle" /\ (timer = 0 \/ server = "stopping")
     \/ pc = "erred" /\ timer = 0
  /\ pc' = "top" /\ timer' = 0
  /\ UNCHANGED <<tableVars, server, job, jobTries, healthy, historyVars>>

\* The receiver handles the POST and its 2xx arrives within the timeout.
PostAccepted ==
  /\ pc = "attempting"
  /\ receipts' = [receipts EXCEPT ![job] = @ + 1]
  /\ pc' = "accepted" /\ timer' = 0
  /\ UNCHANGED <<tableVars, server, job, jobTries, healthy,
                 settled, unsure, faults, since, lateClaims>>

\* The receiver handles the POST, but the answer is lost or late.
PostAnswerLost ==
  /\ pc = "attempting" /\ target[job] \notin healthy
  /\ faults < MaxFault /\ faults' = faults + 1
  /\ receipts' = [receipts EXCEPT ![job] = @ + 1]
  /\ unsure' = [unsure EXCEPT ![job] = @ + 1]
  /\ pc' = "failed" /\ timer' = 0
  /\ UNCHANGED <<tableVars, server, job, jobTries, healthy, settled, since, lateClaims>>

\* The destination cannot be pinned, its secret cannot be decrypted, the request
\* does not get through, or the answer is not a 2xx.
AttemptFails ==
  /\ pc = "attempting" /\ target[job] \notin healthy
  /\ pc' = "failed" /\ timer' = 0
  /\ UNCHANGED <<tableVars, server, job, jobTries, healthy, historyVars>>

\* UPDATE outbox SET delivered_at=unixepoch(), locked_at=NULL WHERE id=?
\* (no row if the endpoint was deleted meanwhile)
MarkDelivered ==
  /\ pc = "accepted"
  /\ IF row[job] = "deleted"
       THEN UNCHANGED <<row, lease, settled>>
       ELSE /\ row' = [row EXCEPT ![job] = "delivered"]
            /\ lease' = [lease EXCEPT ![job] = 0]
            /\ settled' = settled \cup {job}
  /\ DropDelivery
  /\ UNCHANGED <<endpoints, retired, nextRow, target, attempts, wait, server, timer, healthy,
                 receipts, unsure, faults, since, lateClaims>>

\* UPDATE outbox SET locked_at=NULL, available_at=unixepoch()+?, last_error=? WHERE id=?
Reschedule ==
  /\ pc = "failed"
  /\ IF row[job] = "deleted"
       THEN UNCHANGED <<lease, wait>>
       ELSE /\ lease' = [lease EXCEPT ![job] = 0]
            /\ wait' = [wait EXCEPT ![job] = RetryDelay(jobTries)]
  /\ DropDelivery
  /\ UNCHANGED <<endpoints, retired, nextRow, row, target, attempts, server, timer, healthy,
                 historyVars>>

\* Either UPDATE fails: the error is logged and the row keeps its lease.
SettleError ==
  /\ pc \in {"accepted", "failed"}
  /\ faults < MaxFault /\ faults' = faults + 1
  /\ unsure' = [unsure EXCEPT ![job] = IF pc = "accepted" THEN @ + 1 ELSE @]
  /\ DropDelivery
  /\ UNCHANGED <<tableVars, server, timer, healthy,
                 receipts, settled, since, lateClaims>>

Worker ==
  \/ CheckShutdown \/ ClaimNothing \/ Wake
  \/ \E r \in Row : Claim(r)
  \/ PostAccepted \/ AttemptFails \/ MarkDelivered \/ Reschedule

WorkerFault == ClaimError \/ PostAnswerLost \/ SettleError

-----------------------------------------------------------------------------
(* The process, the receivers, and time. *)

\* SIGTERM or SIGINT: axum finishes serving, then run sends the shutdown flag.
Shutdown ==
  /\ server = "running"
  /\ server' = "stopping"
  /\ UNCHANGED <<tableVars, pc, job, jobTries, timer, healthy, historyVars>>

Crash ==
  /\ server \in {"running", "stopping"}
  /\ faults < MaxFault /\ faults' = faults + 1
  /\ server' = "crashed" /\ pc' = "gone" /\ timer' = 0 /\ job' = 0 /\ jobTries' = 0
  /\ unsure' = IF pc = "accepted" THEN [unsure EXCEPT ![job] = @ + 1] ELSE unsure
  /\ UNCHANGED <<tableVars, healthy, receipts, settled, since, lateClaims>>

Restart(from) ==
  /\ server = from
  /\ server' = "running" /\ pc' = "top" /\ lateClaims' = 0
  /\ UNCHANGED <<tableVars, job, jobTries, timer, healthy,
                 receipts, settled, unsure, faults, since>>

\* From now on the receiver of e answers every POST in time with a 2xx.
Recover(e) ==
  /\ e \notin healthy
  /\ healthy' = healthy \cup {e}
  /\ UNCHANGED <<tableVars, workerVars, historyVars>>

CountDown(f) == [r \in Row |-> IF f[r] = 0 THEN 0 ELSE f[r] - 1]

\* One second.  Between an attempt and a sleep the worker only runs local
\* statements, which take none; an attempt may end before its timer does.
Tick ==
  /\ \/ pc \in {"attempting", "idle", "erred"} /\ timer > 0
     \/ pc = "gone"
  /\ wait' = CountDown(wait)
  /\ lease' = CountDown(lease)
  /\ timer' = IF timer = 0 THEN 0 ELSE timer - 1
  /\ since' = [r \in Row |-> IF row[r] = "pending" THEN Lower(since[r] + 1, Lease + 1)
                                                  ELSE Lease + 1]
  /\ UNCHANGED <<endpoints, retired, nextRow, row, target, attempts, server, pc, job, jobTries,
                 healthy, receipts, settled, unsure, faults, lateClaims>>

Handlers == Notify \/ \E e \in Endpoint : CreateWebhook(e) \/ DeleteWebhook(e)

Process == Shutdown \/ Crash \/ Restart("stopped") \/ Restart("crashed")

Next == \/ Handlers \/ Worker \/ WorkerFault \/ Process \/ Tick
        \/ \E e \in Endpoint : Recover(e)

\* The worker task is polled as long as the process lives, time passes, and the
\* service manager restarts a crashed process (README: Restart=on-failure).
Fairness == WF_vars(Worker) /\ WF_vars(Tick) /\ WF_vars(Restart("crashed"))

SafetySpec == Init /\ [][Next]_vars
Spec == SafetySpec /\ Fairness

-----------------------------------------------------------------------------
(* Properties. *)

\* A row is sent to its receiver again only because an earlier acceptance could
\* not be recorded: its answer was lost, the UPDATE failed, or the process died
\* between the answer and the UPDATE (deliver).  Nothing else duplicates.
DuplicatesAreExplained == \A r \in Row : receipts[r] <= unsure[r] + 1

\* delivered_at is only set on a row some receiver accepted, and such a row is
\* never in flight again: neither a restart nor an expired lease revives it.
DeliveredMeansAccepted ==
  \A r \in settled : /\ receipts[r] > 0
                     /\ job # r

\* However attempts end (a failure, a database error while recording it, a crash
\* and restart in mid-flight), the next claim of a row comes no sooner than its
\* retry delay or the end of its lease, whichever is shorter: no hot retry loop.
RespectsBackoff ==
  [][\A r \in Row : job # job' /\ job' = r /\ attempts[r] > 0
        => since[r] >= Lower(RetryDelay(attempts[r]), Lease + 1)]_vars

\* Once the shutdown flag is sent, the worker starts at most one more delivery
\* (run looks at the flag only at the top of its loop).
ShutdownBoundsWork == lateClaims <= 1

\* Deleting an endpoint cancels its rows for good: the attempt under way, if there is
\* one, is the last, and settling it brings no row back (UPDATE ... WHERE id=?).
DeletedEndpointIsLeftAlone ==
  [][\A r \in Row : row[r] = "deleted" => row'[r] = "deleted" /\ (job # r => job' # r)]_vars

\* A row for a receiver that works from some point on is delivered in the end,
\* unless its endpoint is deleted or the server is shut down: neither crashes nor
\* other endpoints that fail for ever, with lower ids, hold it up (ORDER BY id).
HealthyRowsAreDelivered ==
  \A r \in Row : (row[r] = "pending" /\ target[r] \in healthy)
                 ~> (row[r] # "pending" \/ server = "stopped")

\* A shutdown completes: the worker task run joins does stop (or the process dies).
ShutdownCompletes == server = "stopping" ~> server \in {"stopped", "crashed"}

\* Why the properties hold: the inductive invariant of the safety proofs.

\* Receipts of a row are accounted for before it is attempted again.
Accounting ==
  /\ DuplicatesAreExplained
  /\ \A r \in Row : row[r] \in {"absent", "pending"} /\ (pc = "accepted" => job # r)
                     => receipts[r] <= unsure[r]
  /\ pc = "attempting" => receipts[job] <= unsure[job]

\* The table agrees with what the worker holds and with what was settled.
Bookkeeping ==
  /\ \A r \in Row : nextRow <= r => row[r] = "absent"
  /\ \A r \in Row : row[r] = "absent" => target[r] = NoEndpoint
  /\ \A r \in Row : row[r] = "delivered" => r \in settled
  /\ \A r \in settled : row[r] \in {"delivered", "deleted"}
  /\ DeliveredMeansAccepted
  /\ InFlight => row[job] \in {"pending", "deleted"}
  /\ pc = "accepted" => receipts[job] > 0

ShutdownAccounting ==
  /\ ShutdownBoundsWork
  /\ server = "running" \/ pc = "claiming" => lateClaims = 0

\* A row that was claimed before is protected by its lease or by its retry delay.
Protected ==
  /\ \A r \in Row : row[r] = "absent" => attempts[r] = 0
  /\ \A r \in Row : row[r] = "pending" /\ attempts[r] > 0
        => \/ since[r] + lease[r] >= Lease + 1
           \/ job # r /\ since[r] + wait[r] >= Lower(RetryDelay(attempts[r]), Lease + 1)
  /\ InFlight /\ row[job] = "pending" => jobTries = attempts[job]

Safety == Accounting /\ Bookkeeping /\ ShutdownAccounting /\ Protected

\* The outbox implements at-least-once notification delivery.
Promise == INSTANCE NotificationDelivery WITH
  Notification <- Row,
  status <- [r \in Row |-> IF r \in settled THEN "delivered"
                          ELSE IF row[r] = "deleted" THEN "cancelled" ELSE row[r]],
  receipts <- receipts

ImplementsPromise == Promise!Spec
=============================================================================
