---------------------------- MODULE OutboxProofs ----------------------------
(* Theorems about Outbox for every set of endpoints, every bound on rows and   *)
(* faults, and every value of the lease, the timeouts and the retry schedule. *)
EXTENDS Outbox, TLAPS

USE BoundAssumption, TimeAssumption, EndpointAssumption

\* The retry schedule always yields at least one second.
LEMMA RetryDelayPositive ==
  ASSUME NEW n \in 0 .. LongAfter
  PROVE  RetryDelay(n) \in Nat \ {0}
<1>1. CASE n >= LongAfter
  BY <1>1 DEF RetryDelay
<1>2. CASE n < LongAfter
  <2>1. 2 ^ n \in Int /\ 2 ^ n > 0
    BY <1>2, PowerAssumption
  <2>2. BaseDelay * 2 ^ n \in Int /\ BaseDelay * 2 ^ n > 0
    BY <2>1
  <2>3. QED
    BY <1>2, <2>2 DEF RetryDelay, Lower
<1>3. QED
  BY <1>1, <1>2

\* Counting one more event of a row.
LEMMA CountType ==
  ASSUME NEW f \in [Row -> Nat], NEW r \in Row
  PROVE  [f EXCEPT ![r] = f[r] + 1] \in [Row -> Nat]
  OBVIOUS

\* Every step of the handlers, the worker (claim, deliver, fail), the process and the
\* clock keeps the state well formed.
LEMMA TypeOKInductive == TypeOK /\ [Next]_vars => TypeOK'
<1> SUFFICES ASSUME TypeOK, [Next]_vars PROVE TypeOK'
  OBVIOUS
<1> USE DEF TypeOK, WorkerState, InFlight
<1>1. CASE Handlers
  <2>1. ASSUME NEW e \in Endpoint, CreateWebhook(e) PROVE TypeOK'
    BY <2>1 DEF CreateWebhook, workerVars, historyVars
  <2>2. ASSUME NEW e \in Endpoint, DeleteWebhook(e) PROVE TypeOK'
    BY <2>2 DEF DeleteWebhook, ZeroedFor, workerVars, historyVars
  <2>3. CASE Notify
    <3>0. PICK last \in nextRow .. MaxRow :
           \E of \in Bijection(nextRow .. last, endpoints) :
             /\ row' = [r \in Row |-> IF r \in DOMAIN of THEN "pending" ELSE row[r]]
             /\ target' = [r \in Row |-> IF r \in DOMAIN of THEN of[r] ELSE target[r]]
             /\ nextRow' = last + 1
      BY <2>3 DEF Notify
    <3>1. PICK of \in Bijection(nextRow .. last, endpoints) :
             /\ row' = [r \in Row |-> IF r \in DOMAIN of THEN "pending" ELSE row[r]]
             /\ target' = [r \in Row |-> IF r \in DOMAIN of THEN of[r] ELSE target[r]]
             /\ nextRow' = last + 1
      BY <3>0
    <3>2. of \in [nextRow .. last -> endpoints]
      BY DEF Bijection, Injection
    <3>3. target' \in [Row -> Endpoint \cup {NoEndpoint}]
      BY <3>1, <3>2
    <3>4. row' \in [Row -> {"absent", "pending", "delivered", "deleted"}]
      BY <3>1
    <3>5. nextRow' \in 1 .. MaxRow + 1
      BY <3>1
    <3>6. UNCHANGED <<endpoints, retired, attempts, wait, lease, workerVars, healthy, historyVars>>
      BY <2>3 DEF Notify
    <3>7. QED
      BY <3>3, <3>4, <3>5, <3>6 DEF workerVars, historyVars
  <2>4. QED
    BY <1>1, <2>1, <2>2, <2>3 DEF Handlers
<1>2. CASE Worker
  <2>1. CASE CheckShutdown
    BY <2>1 DEF CheckShutdown, tableVars, historyVars
  <2>2. CASE ClaimNothing
    BY <2>2 DEF ClaimNothing, tableVars, historyVars
  <2>3. CASE Wake
    BY <2>3 DEF Wake, tableVars, historyVars
  <2>4. ASSUME NEW r \in Row, Claim(r) PROVE TypeOK'
    <3>1. attempts' \in [Row -> 0 .. LongAfter] /\ jobTries' \in 0 .. LongAfter
      BY <2>4 DEF Claim, Lower
    <3>2. lease' \in [Row -> 0 .. Lease + 1] /\ since' \in [Row -> 0 .. Lease + 1]
      BY <2>4 DEF Claim
    <3>3. lateClaims' \in Nat
      BY <2>4 DEF Claim
    <3>4. job' \in 1 .. MaxRow /\ timer' \in Nat /\ pc' = "attempting" /\ pc = "claiming"
      BY <2>4 DEF Claim, Row
    <3>5. UNCHANGED <<endpoints, retired, nextRow, row, target, wait, server, healthy,
                      receipts, settled, unsure, faults>>
      BY <2>4 DEF Claim
    <3>6. server \notin {"stopped", "crashed"} /\ job' # 0
      BY <3>4
    <3>7. QED
      BY <3>1, <3>2, <3>3, <3>4, <3>5, <3>6, SMTT(40)
  <2>5. CASE PostAccepted
    <3>1. job \in Row
      BY <2>5 DEF PostAccepted, Row
    <3>2. QED
      BY <2>5, <3>1, CountType DEF PostAccepted, tableVars
  <2>6. CASE AttemptFails
    BY <2>6 DEF AttemptFails, tableVars, historyVars
  <2>7. CASE MarkDelivered
    <3>1. row' \in [Row -> {"absent", "pending", "delivered", "deleted"}]
      BY <2>7 DEF MarkDelivered
    <3>2. lease' \in [Row -> 0 .. Lease + 1]
      BY <2>7 DEF MarkDelivered
    <3>3. settled' \subseteq Row
      <4>1. job \in Row
        BY <2>7 DEF MarkDelivered, Row
      <4>2. QED
        BY <2>7, <4>1 DEF MarkDelivered
    <3>4. QED
      BY <2>7, <3>1, <3>2, <3>3 DEF MarkDelivered, DropDelivery
  <2>8. CASE Reschedule
    <3>1. RetryDelay(jobTries) \in Nat
      BY RetryDelayPositive
    <3>2. QED
      BY <2>8, <3>1 DEF Reschedule, DropDelivery, historyVars
  <2>9. QED
    BY <1>2, <2>1, <2>2, <2>3, <2>4, <2>5, <2>6, <2>7, <2>8 DEF Worker
<1>3. CASE WorkerFault
  <2>1. CASE ClaimError
    BY <2>1 DEF ClaimError, tableVars
  <2>2. CASE PostAnswerLost
    <3>1. job \in Row
      BY <2>2 DEF PostAnswerLost, Row
    <3>2. QED
      BY <2>2, <3>1, CountType DEF PostAnswerLost, tableVars
  <2>3. CASE SettleError
    <3>1. unsure' \in [Row -> Nat] /\ faults' \in 0 .. MaxFault
      <4>1. job \in Row /\ faults' \in 0 .. MaxFault
        BY <2>3 DEF SettleError, Row
      <4>2. unsure' \in {[unsure EXCEPT ![job] = unsure[job] + 1], [unsure EXCEPT ![job] = unsure[job]]}
        BY <2>3 DEF SettleError
      <4>3. QED
        BY <4>1, <4>2, CountType
    <3>2. /\ UNCHANGED <<tableVars, server, timer, healthy, receipts, settled, since, lateClaims>>
          /\ InFlight /\ pc' = "top" /\ job' = 0 /\ jobTries' = 0
      BY <2>3 DEF SettleError, DropDelivery
    <3>3. QED
      BY <3>1, <3>2 DEF tableVars
  <2>4. QED
    BY <1>3, <2>1, <2>2, <2>3 DEF WorkerFault
<1>4. CASE Process
  <2>1. CASE Shutdown
    BY <2>1 DEF Shutdown, tableVars, historyVars
  <2>2. CASE Crash
    <3>1. unsure' \in [Row -> Nat] /\ faults' \in 0 .. MaxFault
      <4>1. faults' \in 0 .. MaxFault
        BY <2>2 DEF Crash
      <4>2. CASE pc = "accepted"
        BY <2>2, <4>1, <4>2, CountType DEF Crash, Row
      <4>3. CASE pc # "accepted"
        BY <2>2, <4>1, <4>3 DEF Crash
      <4>4. QED
        BY <4>2, <4>3
    <3>2. /\ UNCHANGED <<tableVars, healthy, receipts, settled, since, lateClaims>>
          /\ server' = "crashed" /\ pc' = "gone" /\ timer' = 0 /\ job' = 0 /\ jobTries' = 0
      BY <2>2 DEF Crash
    <3>3. QED
      BY <3>1, <3>2 DEF tableVars
  <2>3. ASSUME NEW from \in {"stopped", "crashed"}, Restart(from) PROVE TypeOK'
    <3>1. job = 0 /\ UNCHANGED <<job, jobTries>>
      BY <2>3 DEF Restart
    <3>2. pc' = "top" /\ server' = "running" /\ lateClaims' = 0
      BY <2>3 DEF Restart
    <3>3. QED
      BY <2>3, <3>1, <3>2 DEF Restart, tableVars
  <2>4. ASSUME Restart("stopped") \/ Restart("crashed") PROVE TypeOK'
    <3> HIDE DEF TypeOK
    <3>1. QED
      BY <2>3, <2>4
  <2>5. QED
    BY <1>4, <2>1, <2>2, <2>4 DEF Process
<1>5. CASE Tick
  <2>1. wait' \in [Row -> Nat] /\ lease' \in [Row -> 0 .. Lease + 1]
    BY <1>5 DEF Tick, CountDown
  <2>2. since' \in [Row -> 0 .. Lease + 1]
    BY <1>5 DEF Tick, Lower
  <2>3. QED
    BY <1>5, <2>1, <2>2 DEF Tick
<1>6. ASSUME NEW e \in Endpoint, Recover(e) PROVE TypeOK'
  BY <1>6 DEF Recover, tableVars, workerVars, historyVars
<1>7. CASE UNCHANGED vars
  BY <1>7 DEF vars, tableVars, workerVars, historyVars
<1>8. QED
  BY <1>1, <1>2, <1>3, <1>4, <1>5, <1>6, <1>7 DEF Next

-----------------------------------------------------------------------------
\* A case for every action of Next.
LEMMA StepCases ==
  ASSUME [Next]_vars
  PROVE  \/ \E e \in Endpoint : CreateWebhook(e) \/ DeleteWebhook(e) \/ Recover(e)
         \/ Notify
         \/ CheckShutdown \/ ClaimNothing \/ ClaimError \/ Wake
         \/ \E r \in Row : Claim(r)
         \/ PostAccepted \/ PostAnswerLost \/ AttemptFails
         \/ MarkDelivered \/ Reschedule \/ SettleError
         \/ Shutdown \/ Crash \/ Restart("stopped") \/ Restart("crashed")
         \/ Tick \/ UNCHANGED vars
  BY DEF Next, Handlers, Worker, WorkerFault, Process

\* What Notify does: fresh ids become pending rows of existing endpoints.
LEMMA NotifyEffect ==
  ASSUME TypeOK, Notify
  PROVE  \E last \in nextRow .. MaxRow :
           /\ nextRow' = last + 1
           /\ \A r \in nextRow .. last : row'[r] = "pending" /\ target'[r] \in endpoints
           /\ \A r \in Row \ (nextRow .. last) : row'[r] = row[r] /\ target'[r] = target[r]
<1>1. PICK last \in nextRow .. MaxRow :
        \E of \in Bijection(nextRow .. last, endpoints) :
          /\ row' = [r \in Row |-> IF r \in DOMAIN of THEN "pending" ELSE row[r]]
          /\ target' = [r \in Row |-> IF r \in DOMAIN of THEN of[r] ELSE target[r]]
          /\ nextRow' = last + 1
  BY DEF Notify
<1>2. PICK of \in Bijection(nextRow .. last, endpoints) :
          /\ row' = [r \in Row |-> IF r \in DOMAIN of THEN "pending" ELSE row[r]]
          /\ target' = [r \in Row |-> IF r \in DOMAIN of THEN of[r] ELSE target[r]]
          /\ nextRow' = last + 1
  BY <1>1
<1>3. of \in [nextRow .. last -> endpoints]
  BY DEF Bijection, Injection
<1>4. nextRow .. last \subseteq Row
  BY DEF TypeOK, Row
<1>5. QED
  BY <1>2, <1>3, <1>4

-----------------------------------------------------------------------------
\* The table, the Delivery record deliver holds and the rows it settled keep agreeing.
LEMMA BookkeepingInductive ==
  TypeOK /\ Bookkeeping /\ [Next]_vars => Bookkeeping'
<1> SUFFICES ASSUME TypeOK, Bookkeeping, [Next]_vars PROVE Bookkeeping'
  OBVIOUS
<1> USE DEF Bookkeeping, DeliveredMeansAccepted, InFlight
<1>a. /\ nextRow \in Nat /\ settled \subseteq Row /\ Row \subseteq Nat
      /\ row \in [Row -> {"absent", "pending", "delivered", "deleted"}]
      /\ receipts \in [Row -> Nat] /\ target \in [Row -> Endpoint \cup {NoEndpoint}]
  <2>1. Row \subseteq Nat
    BY DEF Row
  <2>2. QED
    BY <2>1 DEF TypeOK
<1>b. InFlight <=> job \in Row
  BY DEF TypeOK, Row
<1>1. ASSUME NEW e \in Endpoint, DeleteWebhook(e) PROVE Bookkeeping'
  <2>1. /\ \A r \in Row : row'[r] = IF target[r] = e THEN "deleted" ELSE row[r]
        /\ UNCHANGED <<nextRow, target, pc, job, receipts, settled>>
    BY <1>1 DEF DeleteWebhook, workerVars, historyVars
  <2>2. QED
    BY <2>1, <1>a, <1>b
<1>2. CASE Notify
  <2>1. PICK last \in nextRow .. MaxRow :
           /\ nextRow' = last + 1
           /\ \A r \in nextRow .. last : row'[r] = "pending" /\ target'[r] \in endpoints
           /\ \A r \in Row \ (nextRow .. last) : row'[r] = row[r] /\ target'[r] = target[r]
    BY <1>2, NotifyEffect
  <2>2. UNCHANGED <<pc, job, receipts, settled>>
    BY <1>2 DEF Notify, workerVars, historyVars
  <2>3. last \in Int
    OBVIOUS
  <2>4. \A r \in settled : r \notin nextRow .. last
    BY <1>a, <2>3
  <2>5. InFlight => job \notin nextRow .. last
    BY <1>a, <1>b, <2>3
  <2>6. \A r \in Row : nextRow' <= r => r \notin nextRow .. last /\ nextRow <= r
    BY <1>a, <2>1, <2>3
  <2>7. \A r \in Row : /\ nextRow' <= r => row'[r] = "absent"
                       /\ row'[r] = "absent" => target'[r] = NoEndpoint
    BY <2>1, <2>6
  <2>8. \A r \in Row : row'[r] = "delivered" => r \in settled'
    BY <2>1, <2>2
  <2>9. \A r \in settled' : row'[r] \in {"delivered", "deleted"}
    BY <2>1, <2>2, <2>4, <1>a
  <2>10. InFlight' => row'[job'] \in {"pending", "deleted"}
    BY <2>1, <2>2, <2>5, <1>b
  <2>11. DeliveredMeansAccepted' /\ (pc' = "accepted" => receipts'[job'] > 0)
    BY <2>2
  <2>12. QED
    BY <2>7, <2>8, <2>9, <2>10, <2>11
<1>3. ASSUME NEW r \in Row, Claim(r) PROVE Bookkeeping'
  BY <1>3, <1>a DEF Claim, Claimable
<1>4. CASE PostAccepted \/ PostAnswerLost
  <2>1. /\ job \in Row /\ InFlight
        /\ receipts' = [receipts EXCEPT ![job] = receipts[job] + 1]
        /\ UNCHANGED <<nextRow, row, target, job, settled>>
    BY <1>4, <1>b DEF PostAccepted, PostAnswerLost, tableVars
  <2>2. \A r \in Row : receipts'[r] >= receipts[r]
    BY <2>1, <1>a
  <2>3. receipts'[job] > 0
    BY <2>1, <1>a
  <2>4. \A r \in settled : receipts'[r] > 0
    BY <2>1, <1>a
  <2>5. QED
    BY <2>1, <2>3, <2>4
<1>5. CASE MarkDelivered
  <2>1. pc = "accepted" /\ job \in Row /\ pc' = "top" /\ job' = 0 /\ UNCHANGED <<nextRow, target, receipts>>
    BY <1>5, <1>b DEF MarkDelivered, DropDelivery
  <2>2. CASE row[job] = "deleted"
    <3>1. UNCHANGED <<row, settled>>
      BY <1>5, <2>2 DEF MarkDelivered
    <3>2. QED
      BY <2>1, <3>1, <1>a DEF Row
  <2>3. CASE row[job] # "deleted"
    <3>1. row' = [row EXCEPT ![job] = "delivered"] /\ settled' = settled \cup {job}
      BY <1>5, <2>3 DEF MarkDelivered
    <3>2. \A r \in Row : row'[r] = IF r = job THEN "delivered" ELSE row[r]
      BY <3>1, <1>a
    <3>3. QED
      BY <2>1, <2>3, <3>1, <3>2, <1>a DEF Row
  <2>4. QED
    BY <2>2, <2>3
<1>6. CASE Reschedule \/ SettleError \/ Crash
  <2>1. ~InFlight' /\ job' = 0 /\ UNCHANGED <<nextRow, row, target, receipts, settled>>
    BY <1>6 DEF Reschedule, SettleError, Crash, DropDelivery, tableVars, historyVars
  <2>2. QED
    BY <2>1, <1>a DEF Row
<1>7. CASE \/ \E e \in Endpoint : CreateWebhook(e) \/ Recover(e)
           \/ CheckShutdown \/ ClaimNothing \/ ClaimError \/ Wake \/ AttemptFails
           \/ Shutdown \/ Restart("stopped") \/ Restart("crashed") \/ Tick \/ UNCHANGED vars
  <2>1. UNCHANGED <<nextRow, row, target, job, receipts, settled>>
    BY <1>7 DEF CreateWebhook, Recover, CheckShutdown, ClaimNothing, ClaimError, Wake,
                AttemptFails, Shutdown, Restart, Tick, vars, tableVars, workerVars, historyVars
  <2>2. (InFlight' => InFlight) /\ (pc' = "accepted" => pc = "accepted")
    BY <1>7 DEF CreateWebhook, Recover, CheckShutdown, ClaimNothing, ClaimError, Wake,
                AttemptFails, Shutdown, Restart, Tick, vars, workerVars
  <2>3. QED
    BY <2>1, <2>2
<1>8. QED
  <2> HIDE DEF Bookkeeping
  <2>1. QED
    BY <1>1, <1>2, <1>3, <1>4, <1>5, <1>6, <1>7, StepCases

-----------------------------------------------------------------------------
\* Every acceptance by a receiver is recorded by deliver's UPDATE or counted as unsure
\* before claim hands the row out again.
LEMMA AccountingInductive ==
  TypeOK /\ Bookkeeping /\ Accounting /\ [Next]_vars => Accounting'
<1> SUFFICES ASSUME TypeOK, Bookkeeping, Accounting, [Next]_vars PROVE Accounting'
  OBVIOUS
<1> USE DEF Accounting, DuplicatesAreExplained
<1>a. receipts \in [Row -> Nat] /\ unsure \in [Row -> Nat] /\ Row \subseteq Nat \ {0}
  <2>1. Row \subseteq Nat \ {0}
    BY DEF Row
  <2>2. QED
    BY <2>1 DEF TypeOK
<1>b. InFlight <=> job \in Row
  BY DEF TypeOK, Row
<1>c. InFlight => row[job] \in {"pending", "deleted"}
  BY DEF Bookkeeping
<1>1. ASSUME NEW e \in Endpoint, DeleteWebhook(e) PROVE Accounting'
  <2>1. /\ \A r \in Row : row'[r] = IF target[r] = e THEN "deleted" ELSE row[r]
        /\ UNCHANGED <<pc, job, receipts, unsure>>
    BY <1>1 DEF DeleteWebhook, workerVars, historyVars
  <2>2. QED
    BY <2>1
<1>2. CASE Notify
  <2>1. PICK last \in nextRow .. MaxRow :
           /\ \A r \in nextRow .. last : row'[r] = "pending"
           /\ \A r \in Row \ (nextRow .. last) : row'[r] = row[r]
    BY <1>2, NotifyEffect
  <2>2. UNCHANGED <<pc, job, receipts, unsure>>
    BY <1>2 DEF Notify, workerVars, historyVars
  <2>3. \A r \in Row : r \in nextRow .. last => row[r] = "absent"
    BY DEF Bookkeeping
  <2>4. \A r \in Row : row'[r] \in {"absent", "pending"} => row[r] \in {"absent", "pending"}
    BY <2>1, <2>3
  <2>5. QED
    BY <2>2, <2>4
<1>3. ASSUME NEW r \in Row, Claim(r) PROVE Accounting'
  <2>1. /\ row[r] = "pending" /\ pc = "claiming" /\ pc' = "attempting" /\ job' = r
        /\ UNCHANGED <<row, receipts, unsure>>
    BY <1>3 DEF Claim, Claimable
  <2>2. QED
    BY <2>1
<1>4. CASE PostAccepted
  <2>1. /\ pc = "attempting" /\ pc' = "accepted" /\ job \in Row
        /\ receipts' = [receipts EXCEPT ![job] = receipts[job] + 1]
        /\ UNCHANGED <<row, job, unsure>>
    BY <1>4, <1>b DEF PostAccepted, tableVars, InFlight
  <2>2. \A r \in Row : receipts'[r] = IF r = job THEN receipts[r] + 1 ELSE receipts[r]
    BY <2>1, <1>a
  <2>3. QED
    BY <2>1, <2>2, <1>a
<1>5. CASE PostAnswerLost
  <2>1. /\ pc = "attempting" /\ pc' = "failed" /\ job \in Row
        /\ receipts' = [receipts EXCEPT ![job] = receipts[job] + 1]
        /\ unsure' = [unsure EXCEPT ![job] = unsure[job] + 1]
        /\ UNCHANGED <<row, job>>
    BY <1>5, <1>b DEF PostAnswerLost, tableVars, InFlight
  <2>2. \A r \in Row : /\ receipts'[r] = IF r = job THEN receipts[r] + 1 ELSE receipts[r]
                       /\ unsure'[r] = IF r = job THEN unsure[r] + 1 ELSE unsure[r]
    BY <2>1, <1>a
  <2>3. QED
    BY <2>1, <2>2, <1>a
<1>6. CASE MarkDelivered
  <2>1. /\ pc = "accepted" /\ pc' = "top" /\ job \in Row /\ UNCHANGED <<receipts, unsure>>
        /\ row' = IF row[job] = "deleted" THEN row ELSE [row EXCEPT ![job] = "delivered"]
    BY <1>6, <1>b DEF MarkDelivered, DropDelivery, InFlight
  <2>2. \A r \in Row : r # job => row'[r] = row[r]
    BY <2>1 DEF TypeOK
  <2>3. row'[job] \in {"deleted", "delivered"}
    BY <2>1 DEF TypeOK
  <2>4. QED
    BY <2>1, <2>2, <2>3
<1>7. CASE SettleError \/ Crash
  <2>1. /\ pc' \in {"top", "gone"} /\ UNCHANGED <<row, receipts>>
        /\ \A r \in Row : unsure'[r] = IF pc = "accepted" /\ r = job THEN unsure[r] + 1
                                       ELSE unsure[r]
    <3>1. pc = "accepted" => job \in Row
      BY <1>b DEF InFlight
    <3>2. CASE SettleError
      <4>1. /\ pc' = "top" /\ UNCHANGED <<row, receipts>> /\ pc \in {"accepted", "failed"}
            /\ unsure' = [unsure EXCEPT ![job] = IF pc = "accepted" THEN @ + 1 ELSE @]
        BY <3>2 DEF SettleError, DropDelivery, tableVars
      <4>2. \A r \in Row : unsure'[r] = IF pc = "accepted" /\ r = job THEN unsure[r] + 1
                                       ELSE unsure[r]
        BY <4>1, <1>a
      <4>3. QED
        BY <4>1, <4>2
    <3>3. CASE Crash
      <4>1. /\ pc' = "gone" /\ UNCHANGED <<row, receipts>>
            /\ unsure' = IF pc = "accepted" THEN [unsure EXCEPT ![job] = @ + 1] ELSE unsure
        BY <3>3 DEF Crash, tableVars
      <4>2. \A r \in Row : unsure'[r] = IF pc = "accepted" /\ r = job THEN unsure[r] + 1
                                       ELSE unsure[r]
        BY <4>1, <1>a
      <4>3. QED
        BY <4>1, <4>2
    <3>4. QED
      BY <3>2, <3>3, <1>7
  <2>2. \A r \in Row : unsure'[r] >= unsure[r]
    BY <2>1, <1>a
  <2>3. DuplicatesAreExplained'
    BY <2>1, <2>2, <1>a
  <2>4. \A r \in Row : row[r] \in {"absent", "pending"} => receipts[r] <= unsure'[r]
    BY <2>1, <1>a
  <2>5. QED
    BY <2>1, <2>3, <2>4
<1>8. CASE \/ \E e \in Endpoint : CreateWebhook(e) \/ Recover(e)
           \/ CheckShutdown \/ ClaimNothing \/ ClaimError \/ Wake \/ AttemptFails \/ Reschedule
           \/ Shutdown \/ Restart("stopped") \/ Restart("crashed") \/ Tick \/ UNCHANGED vars
  <2>1. /\ UNCHANGED <<row, receipts, unsure>>
        /\ \/ UNCHANGED <<pc, job>>
           \/ pc # "accepted" /\ pc' \notin {"attempting", "accepted"}
    <3>1. ASSUME NEW from \in {"stopped", "crashed"}, Restart(from)
          PROVE  UNCHANGED <<row, receipts, unsure>> /\ pc = "gone" /\ pc' = "top"
      BY <3>1 DEF Restart, tableVars, TypeOK
    <3>2. Restart("stopped") \/ Restart("crashed")
          => UNCHANGED <<row, receipts, unsure>> /\ pc = "gone" /\ pc' = "top"
      BY <3>1
    <3>3. CASE \/ \E e \in Endpoint : CreateWebhook(e) \/ Recover(e)
               \/ Shutdown \/ Tick \/ UNCHANGED vars
      BY <3>3 DEF CreateWebhook, Recover, Shutdown, Tick, vars, tableVars, workerVars, historyVars
    <3>4. CASE \/ CheckShutdown \/ ClaimNothing \/ ClaimError \/ Wake \/ AttemptFails \/ Reschedule
      BY <3>4 DEF CheckShutdown, ClaimNothing, ClaimError, Wake, AttemptFails, Reschedule,
                  DropDelivery, tableVars, historyVars
    <3>5. QED
      BY <1>8, <3>2, <3>3, <3>4
  <2>2. QED
    BY <2>1
<1>9. QED
  <2> HIDE DEF Accounting
  <2>1. QED
    BY <1>1, <1>2, <1>3, <1>4, <1>5, <1>6, <1>7, <1>8, StepCases

-----------------------------------------------------------------------------
\* run's look at the shutdown flag bounds the claims made after it was sent.
LEMMA ShutdownInductive ==
  TypeOK /\ ShutdownAccounting /\ [Next]_vars => ShutdownAccounting'
<1> SUFFICES ASSUME TypeOK, ShutdownAccounting, [Next]_vars PROVE ShutdownAccounting'
  OBVIOUS
<1> USE DEF ShutdownAccounting, ShutdownBoundsWork
<1>a. lateClaims \in Nat /\ server \in {"running", "stopping", "stopped", "crashed"}
  BY DEF TypeOK
<1>1. ASSUME NEW r \in Row, Claim(r) PROVE ShutdownAccounting'
  BY <1>1, <1>a DEF Claim
<1>2. CASE CheckShutdown
  <2>1. server = "running" \/ server = "stopping"
    BY <1>2, <1>a DEF CheckShutdown, TypeOK
  <2>2. QED
    BY <1>2, <2>1 DEF CheckShutdown, historyVars
<1>3. CASE Shutdown \/ Crash \/ Restart("stopped") \/ Restart("crashed")
  BY <1>3 DEF Shutdown, Crash, Restart, historyVars
<1>4. CASE \/ \E e \in Endpoint : CreateWebhook(e) \/ DeleteWebhook(e) \/ Recover(e)
           \/ Notify \/ ClaimNothing \/ ClaimError \/ Wake \/ PostAccepted \/ PostAnswerLost
           \/ AttemptFails \/ MarkDelivered \/ Reschedule \/ SettleError \/ Tick
           \/ UNCHANGED vars
  <2>1. UNCHANGED <<server, lateClaims>> /\ (pc' = "claiming" => pc = "claiming")
    BY <1>4 DEF CreateWebhook, DeleteWebhook, Recover, Notify, ClaimNothing, ClaimError, Wake,
                PostAccepted, PostAnswerLost, AttemptFails, MarkDelivered, Reschedule,
                SettleError, DropDelivery, Tick, vars, workerVars, historyVars
  <2>2. QED
    BY <2>1
<1>5. QED
  BY <1>1, <1>2, <1>3, <1>4, StepCases

-----------------------------------------------------------------------------
\* A claimed row stays covered by its lease (claim) or by its retry delay (fail).
LEMMA ProtectedInductive ==
  TypeOK /\ Bookkeeping /\ Protected /\ [Next]_vars => Protected'
<1> SUFFICES ASSUME TypeOK, Bookkeeping, Protected, [Next]_vars PROVE Protected'
  OBVIOUS
<1> USE DEF Protected
<1> DEFINE Delay(n) == Lower(RetryDelay(n), Lease + 1)
           Guarded(r) == \/ since[r] + lease[r] >= Lease + 1
                         \/ job # r /\ since[r] + wait[r] >= Delay(attempts[r])
<1>a. /\ Row \subseteq Nat \ {0} /\ (InFlight <=> job \in Row)
      /\ \A r \in Row : /\ attempts[r] \in 0 .. LongAfter /\ wait[r] \in Nat
                        /\ lease[r] \in 0 .. Lease + 1 /\ since[r] \in 0 .. Lease + 1
  <2>1. Row \subseteq Nat \ {0}
    BY DEF Row
  <2>2. InFlight <=> job \in Row
    BY DEF TypeOK, Row
  <2>3. QED
    BY <2>1, <2>2 DEF TypeOK
<1>b. \A n \in 0 .. LongAfter : /\ RetryDelay(n) \in Nat /\ Delay(n) \in Nat
                               /\ Delay(n) <= Lease + 1 /\ Delay(n) <= RetryDelay(n)
  BY RetryDelayPositive DEF Lower
<1>c. InFlight => pc # "top" /\ pc # "claiming"
  BY DEF InFlight
<1>1. ASSUME NEW e \in Endpoint, DeleteWebhook(e) PROVE Protected'
  <2>1. /\ \A r \in Row : /\ row'[r] = IF target[r] = e THEN "deleted" ELSE row[r]
                          /\ target[r] # e => /\ attempts'[r] = attempts[r] /\ wait'[r] = wait[r]
                                               /\ lease'[r] = lease[r]
        /\ UNCHANGED <<pc, job, jobTries, since>>
    BY <1>1 DEF DeleteWebhook, ZeroedFor, workerVars, historyVars
  <2>2. QED
    BY <2>1, <1>a DEF InFlight
<1>2. CASE Notify
  <2>1. PICK last \in nextRow .. MaxRow :
           /\ \A r \in nextRow .. last : row'[r] = "pending"
           /\ \A r \in Row \ (nextRow .. last) : row'[r] = row[r]
    BY <1>2, NotifyEffect
  <2>2. UNCHANGED <<attempts, wait, lease, pc, job, jobTries, since>>
    BY <1>2 DEF Notify, workerVars, historyVars
  <2>3. InFlight => row[job] # "absent"
    BY DEF Bookkeeping
  <2>4. \A r \in Row : r \in nextRow .. last => row[r] = "absent" /\ attempts[r] = 0
    BY DEF Bookkeeping
  <2>5. \A r \in Row : attempts[r] > 0 \/ r = job => row'[r] = row[r]
    BY <2>1, <2>3, <2>4, <1>a
  <2>6. \A r \in Row : row'[r] = "absent" => row[r] = "absent"
    BY <2>1
  <2>7. QED
    BY <2>2, <2>5, <2>6, <1>a DEF InFlight
<1>3. ASSUME NEW r \in Row, Claim(r) PROVE Protected'
  <2>1. /\ lease'[r] = Lease + 1 /\ since'[r] = 0 /\ job' = r /\ jobTries' = attempts'[r]
        /\ row[r] = "pending"
        /\ \A s \in Row \ {r} : /\ lease'[s] = lease[s] /\ since'[s] = since[s]
                                /\ attempts'[s] = attempts[s]
        /\ job \notin Row
        /\ UNCHANGED <<row, wait>>
    BY <1>3, <1>a, <1>c DEF Claim, Claimable, TypeOK
  <2>2. \A s \in Row \ {r} : row'[s] = "pending" /\ attempts'[s] > 0 => Guarded(s)'
    <3>1. SUFFICES ASSUME NEW s \in Row \ {r}, row'[s] = "pending", attempts'[s] > 0
                   PROVE  Guarded(s)'
      OBVIOUS
    <3>2. Guarded(s)
      BY <2>1, <3>1
    <3>3. QED
      BY <2>1, <3>1, <3>2, <1>a
  <2>3. Guarded(r)'
    BY <2>1
  <2>4. QED
    BY <2>1, <2>2, <2>3
<1>4. CASE MarkDelivered
  <2>1. /\ job \in Row /\ job' = 0 /\ pc' = "top" /\ UNCHANGED <<attempts, wait, since>>
        /\ \A r \in Row \ {job} : row'[r] = row[r] /\ lease'[r] = lease[r]
        /\ row'[job] \in {"deleted", "delivered"}
    BY <1>4, <1>a DEF MarkDelivered, DropDelivery, InFlight, TypeOK
  <2>2. \A r \in Row \ {job} : row'[r] = "pending" /\ attempts'[r] > 0 => Guarded(r)'
    BY <2>1, <1>a
  <2>3. QED
    BY <2>1, <2>2 DEF InFlight
<1>5. CASE Reschedule
  <2>1. /\ job \in Row /\ job' = 0 /\ pc' = "top" /\ UNCHANGED <<row, attempts, since>>
        /\ \A r \in Row \ {job} : wait'[r] = wait[r] /\ lease'[r] = lease[r]
        /\ row[job] = "pending" => wait'[job] = RetryDelay(jobTries)
    BY <1>5, <1>a DEF Reschedule, DropDelivery, InFlight, TypeOK, historyVars
  <2>2. \A r \in Row : r = job /\ row[r] = "pending" => Guarded(r)'
    <3>1. SUFFICES ASSUME NEW r \in Row, r = job, row[r] = "pending" PROVE Guarded(r)'
      OBVIOUS
    <3>2. jobTries = attempts[job]
      BY <3>1, <2>1, <1>a
    <3>3. job' # job
      BY <2>1, <1>a
    <3>4. since[job] + RetryDelay(attempts[job]) >= Delay(attempts[job])
      BY <1>a, <1>b, <2>1
    <3>5. QED
      BY <2>1, <3>1, <3>2, <3>3, <3>4
  <2>3. \A r \in Row \ {job} : row'[r] = "pending" /\ attempts'[r] > 0 => Guarded(r)'
    BY <2>1, <1>a
  <2>4. QED
    BY <2>1, <2>2, <2>3 DEF InFlight
<1>6. CASE Tick
  <2>1. /\ UNCHANGED <<row, attempts, pc, job, jobTries>>
        /\ \A r \in Row : /\ wait'[r] = IF wait[r] = 0 THEN 0 ELSE wait[r] - 1
                          /\ lease'[r] = IF lease[r] = 0 THEN 0 ELSE lease[r] - 1
                          /\ row[r] = "pending" => since'[r] = Lower(since[r] + 1, Lease + 1)
    BY <1>6 DEF Tick, CountDown
  <2>2. ASSUME NEW r \in Row, row[r] = "pending", attempts[r] > 0
        PROVE  Guarded(r)'
    <3>1. since'[r] = IF since[r] + 1 <= Lease + 1 THEN since[r] + 1 ELSE Lease + 1
      BY <2>1, <2>2 DEF Lower
    <3>2. Delay(attempts[r]) \in Nat /\ Delay(attempts[r]) <= Lease + 1
      BY <1>a, <1>b
    <3>3. CASE since[r] + lease[r] >= Lease + 1
      BY <2>1, <3>1, <3>3, <1>a
    <3>4. CASE job # r /\ since[r] + wait[r] >= Delay(attempts[r])
      <4>1. since'[r] + wait'[r] >= Delay(attempts[r])
        BY <2>1, <3>1, <3>2, <3>4, <1>a
      <4>2. QED
        BY <4>1, <3>4, <2>1
    <3>5. QED
      BY <2>2, <3>3, <3>4
  <2>3. QED
    BY <2>1, <2>2 DEF InFlight
<1>7. CASE SettleError \/ Crash
  <2>1. ~InFlight' /\ job' = 0 /\ UNCHANGED <<row, attempts, wait, lease, since>>
    BY <1>7 DEF SettleError, Crash, DropDelivery, tableVars, InFlight
  <2>2. QED
    BY <2>1, <1>a
<1>8. CASE \/ \E e \in Endpoint : CreateWebhook(e) \/ Recover(e)
           \/ CheckShutdown \/ ClaimNothing \/ ClaimError \/ Wake
           \/ PostAccepted \/ PostAnswerLost \/ AttemptFails
           \/ Shutdown \/ Restart("stopped") \/ Restart("crashed") \/ UNCHANGED vars
  <2>1. UNCHANGED <<row, attempts, wait, lease, since, job, jobTries>> /\ (InFlight' => InFlight)
    BY <1>8 DEF CreateWebhook, Recover, CheckShutdown, ClaimNothing, ClaimError, Wake,
                PostAccepted, PostAnswerLost, AttemptFails, Shutdown, Restart, vars,
                tableVars, workerVars, historyVars, InFlight
  <2>2. QED
    BY <2>1
<1>9. QED
  <2> HIDE DEF Protected
  <2>1. QED
    BY <1>1, <1>2, <1>3, <1>4, <1>5, <1>6, <1>7, <1>8, StepCases

-----------------------------------------------------------------------------
\* Type correctness: the state run, claim, deliver and fail keep is well formed.
THEOREM OutboxTypeOK == SafetySpec => []TypeOK
<1>1. Init => TypeOK
  BY DEF Init, TypeOK, WorkerState, InFlight, Row
<1>2. QED
  BY <1>1, TypeOKInductive, PTL DEF SafetySpec

\* The inductive invariant: receipts, table and worker agree in every state.
THEOREM OutboxSafety == SafetySpec => [](TypeOK /\ Safety)
<1>1. Init => TypeOK
  BY DEF Init, TypeOK, WorkerState, InFlight, Row
<1>2. Init => Safety
  BY DEF Init, Safety, Accounting, DuplicatesAreExplained, Bookkeeping, DeliveredMeansAccepted,
         InFlight, ShutdownAccounting, ShutdownBoundsWork, Protected
<1>3. TypeOK /\ Safety /\ [Next]_vars => Safety'
  BY BookkeepingInductive, AccountingInductive, ShutdownInductive, ProtectedInductive DEF Safety
<1>4. QED
  BY <1>1, <1>2, <1>3, TypeOKInductive, PTL DEF SafetySpec

\* A receiver gets a notification twice only after an acceptance that deliver
\* could not record (lost answer, failed UPDATE, crash before the UPDATE).
THEOREM OutboxDuplicates == SafetySpec => []DuplicatesAreExplained
<1>1. Safety => DuplicatesAreExplained
  BY DEF Safety, Accounting
<1>2. QED
  BY <1>1, OutboxSafety, PTL

\* A row marked delivered was accepted, and deliver never holds it again.
THEOREM OutboxDelivered == SafetySpec => []DeliveredMeansAccepted
<1>1. Safety => DeliveredMeansAccepted
  BY DEF Safety, Bookkeeping
<1>2. QED
  BY <1>1, OutboxSafety, PTL

\* After the shutdown flag, run starts at most one more delivery.
THEOREM OutboxShutdown == SafetySpec => []ShutdownBoundsWork
<1>1. Safety => ShutdownBoundsWork
  BY DEF Safety, ShutdownAccounting
<1>2. QED
  BY <1>1, OutboxSafety, PTL

\* claim takes a row again no sooner than its retry delay or the end of its lease,
\* whatever happened to the attempt before: failure, database error, crash, restart.
THEOREM OutboxBackoff == SafetySpec => RespectsBackoff
<1> DEFINE Patient == \A r \in Row : job # job' /\ job' = r /\ attempts[r] > 0
                         => since[r] >= Lower(RetryDelay(attempts[r]), Lease + 1)
<1>1. ASSUME TypeOK, Safety, [Next]_vars PROVE Patient
  <2>1. SUFFICES ASSUME NEW r \in Row, job # job', job' = r, attempts[r] > 0
                 PROVE  since[r] >= Lower(RetryDelay(attempts[r]), Lease + 1)
    OBVIOUS
  <2>2. r # 0
    BY DEF Row
  <2>3. Claim(r)
    <3>1. ASSUME NEW s \in Row, Claim(s) PROVE s = r
      BY <2>1, <3>1 DEF Claim
    <3>2. CASE UNCHANGED job \/ job' = 0
      BY <2>1, <2>2, <3>2
    <3>3. ASSUME ~(UNCHANGED job), job' # 0 PROVE \E s \in Row : Claim(s)
      BY <1>1, <3>3, StepCases DEF CreateWebhook, DeleteWebhook, Recover, Notify, CheckShutdown,
         ClaimNothing, ClaimError, Wake, PostAccepted, PostAnswerLost, AttemptFails,
         MarkDelivered, Reschedule, SettleError, DropDelivery, Shutdown, Crash, Restart, Tick,
         vars, workerVars
    <3>4. QED
      BY <2>1, <2>2, <3>1, <3>3
  <2>4. row[r] = "pending" /\ wait[r] = 0 /\ lease[r] = 0
    BY <2>3 DEF Claim, Claimable
  <2>5. \/ since[r] + lease[r] >= Lease + 1
        \/ since[r] + wait[r] >= Lower(RetryDelay(attempts[r]), Lease + 1)
    BY <1>1, <2>1, <2>4 DEF Safety, Protected
  <2>6. since[r] \in Nat /\ attempts[r] \in 0 .. LongAfter
    BY <1>1 DEF TypeOK
  <2>7. Lower(RetryDelay(attempts[r]), Lease + 1) <= Lease + 1
    BY <2>6, RetryDelayPositive DEF Lower
  <2>8. RetryDelay(attempts[r]) \in Nat /\ Lower(RetryDelay(attempts[r]), Lease + 1) \in Nat
    BY <2>6, RetryDelayPositive DEF Lower
  <2>9. QED
    BY <2>4, <2>5, <2>6, <2>7, <2>8
<1>2. SafetySpec => [][Patient]_vars
  BY <1>1, OutboxSafety, PTL DEF SafetySpec
<1>3. QED
  BY <1>2 DEF RespectsBackoff

\* Rows deleted with their endpoint stay deleted and are never claimed (delete_webhook
\* racing claim and deliver).
THEOREM OutboxDeleted == SafetySpec => DeletedEndpointIsLeftAlone
<1> DEFINE LeftAlone == \A r \in Row : row[r] = "deleted"
                          => row'[r] = "deleted" /\ (job # r => job' # r)
<1>1. ASSUME TypeOK, Safety, [Next]_vars PROVE LeftAlone
  <2>a. Row \subseteq Nat \ {0} /\ row \in [Row -> {"absent", "pending", "delivered", "deleted"}]
    BY <1>1 DEF TypeOK, Row
  <2>1. ASSUME NEW r \in Row, row[r] = "deleted" PROVE row'[r] = "deleted"
    <3>1. CASE Notify
      <4>1. r \notin nextRow .. MaxRow
        BY <1>1, <2>1 DEF Safety, Bookkeeping, TypeOK
      <4>2. QED
        BY <1>1, <2>1, <3>1, <4>1, NotifyEffect DEF TypeOK
    <3>2. CASE MarkDelivered
      BY <2>1, <2>a, <3>2 DEF MarkDelivered
    <3>3. ASSUME NEW e \in Endpoint, DeleteWebhook(e) PROVE row'[r] = "deleted"
      BY <2>1, <3>3 DEF DeleteWebhook
    <3>4. ASSUME ~Notify, ~MarkDelivered, ~\E e \in Endpoint : DeleteWebhook(e)
          PROVE  UNCHANGED row
      BY <1>1, <3>4, StepCases DEF CreateWebhook, Recover, CheckShutdown, ClaimNothing, ClaimError,
         Wake, Claim, PostAccepted, PostAnswerLost, AttemptFails, Reschedule, SettleError, Shutdown,
         Crash, Restart, Tick, vars, tableVars
    <3>5. QED
      BY <2>1, <3>1, <3>2, <3>3, <3>4
  <2>2. ASSUME NEW r \in Row, row[r] = "deleted", job # r PROVE job' # r
    <3>1. ASSUME NEW s \in Row, Claim(s) PROVE job' # r
      BY <2>2, <3>1 DEF Claim, Claimable
    <3>2. ASSUME ~\E s \in Row : Claim(s) PROVE job' = job \/ job' = 0
      BY <1>1, <3>2, StepCases DEF CreateWebhook, DeleteWebhook, Recover, Notify, CheckShutdown,
         ClaimNothing, ClaimError, Wake, PostAccepted, PostAnswerLost, AttemptFails,
         MarkDelivered, Reschedule, SettleError, DropDelivery, Shutdown, Crash, Restart, Tick,
         vars, workerVars
    <3>3. QED
      BY <2>2, <2>a, <3>1, <3>2
  <2>3. QED
    BY <2>1, <2>2
<1>2. SafetySpec => [][LeftAlone]_vars
  BY <1>1, OutboxSafety, PTL DEF SafetySpec
<1>3. QED
  BY <1>2 DEF DeletedEndpointIsLeftAlone

\* The outbox implements at-least-once delivery: each step of the handlers, the
\* worker, the process or the clock is a step of NotificationDelivery or none.
THEOREM OutboxRefinement == SafetySpec => ImplementsPromise
<1> DEFINE Status == [r \in Row |-> IF r \in settled THEN "delivered"
                                 ELSE IF row[r] = "deleted" THEN "cancelled" ELSE row[r]]
<1>1. Init => Promise!Init
  BY DEF Init, Promise!Init
<1>2. ASSUME TypeOK, Safety, TypeOK', Safety', [Next]_vars PROVE [Promise!Next]_(Promise!vars)
  <2>a. row \in [Row -> {"absent", "pending", "delivered", "deleted"}] /\ settled \subseteq Row
    BY <1>2 DEF TypeOK
  <2>b. \A r \in Row : row[r] = "pending" \/ row[r] = "absent" => r \notin settled
    BY <1>2 DEF Safety, Bookkeeping
  <2>1. ASSUME NEW e \in Endpoint, DeleteWebhook(e) PROVE Promise!Next
    <3> DEFINE N == {r \in Row : target[r] = e /\ row[r] = "pending"}
    <3>0. PICK M \in SUBSET Row : M = N
      OBVIOUS
    <3>1. Promise!Cancel(M)
      <4>1. \A r \in N : Status[r] = "pending"
        BY <2>b
      <4>2. \A r \in Row : target[r] = e => row[r] # "absent"
        BY <1>2, EndpointAssumption DEF Safety, Bookkeeping, TypeOK
      <4>3. \A r \in Row : /\ row[r] = "delivered" => r \in settled
                           /\ row'[r] = IF target[r] = e THEN "deleted" ELSE row[r]
        BY <2>1, <1>2 DEF DeleteWebhook, Safety, Bookkeeping
      <4>4. UNCHANGED <<receipts, settled>>
        BY <2>1 DEF DeleteWebhook, historyVars
      <4>5. \A r \in Row : Status'[r] = IF r \in N THEN "cancelled" ELSE Status[r]
        <5>1. TAKE r \in Row
        <5>2. CASE target[r] = e
          BY <5>2, <2>a, <2>b, <4>2, <4>3, <4>4
        <5>3. CASE target[r] # e
          BY <5>3, <4>3, <4>4
        <5>4. QED
          BY <5>2, <5>3
      <4>6. QED
        BY <3>0, <4>1, <4>4, <4>5 DEF Promise!Cancel
    <3>2. QED
      BY <3>1 DEF Promise!Next
  <2>2. CASE Notify
    <3>1. PICK last \in nextRow .. MaxRow :
             /\ \A r \in nextRow .. last : row'[r] = "pending"
             /\ \A r \in Row \ (nextRow .. last) : row'[r] = row[r]
      BY <2>2, <1>2, NotifyEffect
    <3>2. UNCHANGED <<receipts, settled>>
      BY <2>2 DEF Notify, historyVars
    <3>3. \A r \in Row : r \in nextRow .. last => row[r] = "absent"
      BY <1>2 DEF Safety, Bookkeeping
    <3> DEFINE N == {r \in Row : r \in nextRow .. last}
    <3>4. \A r \in N : Status[r] = "absent"
      BY <2>b, <3>3
    <3>5. \A r \in Row : Status'[r] = IF r \in N THEN "pending" ELSE Status[r]
      <4>1. TAKE r \in Row
      <4>2. CASE r \in nextRow .. last
        BY <4>2, <2>b, <3>1, <3>2, <3>3
      <4>3. CASE r \notin nextRow .. last
        BY <4>3, <3>1, <3>2
      <4>4. QED
        BY <4>2, <4>3
    <3>6. PICK M \in SUBSET Row : M = N
      OBVIOUS
    <3>7. Promise!Queue(M)
      BY <3>2, <3>4, <3>5, <3>6 DEF Promise!Queue
    <3>8. QED
      BY <3>7 DEF Promise!Next
  <2>3. CASE PostAccepted \/ PostAnswerLost
    <3>1. /\ job \in Row /\ receipts' = [receipts EXCEPT ![job] = receipts[job] + 1]
          /\ UNCHANGED <<row, settled>>
      <4>1. InFlight
        BY <2>3 DEF PostAccepted, PostAnswerLost, InFlight
      <4>2. job \in Row
        BY <4>1, <1>2 DEF TypeOK, Row
      <4>3. QED
        BY <2>3, <4>2 DEF PostAccepted, PostAnswerLost, tableVars
    <3>2. Status[job] \in {"pending", "cancelled"}
      <4>1. row[job] \in {"pending", "deleted"}
        BY <2>3, <1>2 DEF Safety, Bookkeeping, InFlight, PostAccepted, PostAnswerLost
      <4>2. job \notin settled
        BY <1>2 DEF Safety, Bookkeeping, DeliveredMeansAccepted
      <4>3. QED
        BY <3>1, <4>1, <4>2
    <3>3. PICK j \in Row : j = job
      BY <3>1
    <3>4. Promise!Accept(j)
      BY <3>1, <3>2, <3>3 DEF Promise!Accept
    <3>5. QED
      BY <3>4 DEF Promise!Next
  <2>4. CASE MarkDelivered
    <3>1. job \in Row /\ pc = "accepted" /\ UNCHANGED receipts
      BY <2>4, <1>2 DEF MarkDelivered, TypeOK, InFlight, Row
    <3>2. row[job] \in {"pending", "deleted"} /\ receipts[job] > 0 /\ job \notin settled
      BY <3>1, <1>2 DEF Safety, Bookkeeping, InFlight, DeliveredMeansAccepted
    <3>3. CASE row[job] = "deleted"
      BY <2>4, <3>1, <3>3 DEF MarkDelivered, Promise!vars
    <3>4. CASE row[job] = "pending"
      <4>1. row' = [row EXCEPT ![job] = "delivered"] /\ settled' = settled \cup {job}
        BY <2>4, <3>4 DEF MarkDelivered
      <4>2. Status[job] = "pending"
        BY <3>1, <3>2, <3>4
      <4>3. \A r \in Row : Status'[r] = IF r = job THEN "delivered" ELSE Status[r]
        BY <4>1, <2>a
      <4>4. Status' = [Status EXCEPT ![job] = "delivered"]
        BY <4>3
      <4>5. PICK j \in Row : j = job
        BY <3>1
      <4>6. Promise!Settle(j)
        BY <3>1, <3>2, <4>2, <4>4, <4>5 DEF Promise!Settle
      <4>7. QED
        BY <4>6 DEF Promise!Next
    <3>5. QED
      BY <3>2, <3>3, <3>4
  <2>5. CASE \/ \E e \in Endpoint : CreateWebhook(e) \/ Recover(e)
             \/ CheckShutdown \/ ClaimNothing \/ ClaimError \/ Wake
             \/ \E r \in Row : Claim(r)
             \/ AttemptFails \/ Reschedule \/ SettleError
             \/ Shutdown \/ Crash \/ Restart("stopped") \/ Restart("crashed")
             \/ Tick \/ UNCHANGED vars
    <3>1. UNCHANGED <<row, settled, receipts>>
      BY <2>5 DEF CreateWebhook, Recover, CheckShutdown, ClaimNothing, ClaimError, Wake, Claim,
                  AttemptFails, Reschedule, SettleError, DropDelivery, Shutdown, Crash, Restart,
                  Tick, vars, tableVars, historyVars
    <3>2. QED
      BY <3>1 DEF Promise!vars
  <2>6. QED
    BY <1>2, <2>1, <2>2, <2>3, <2>4, <2>5, StepCases
<1>3. QED
  BY <1>1, <1>2, OutboxSafety, PTL DEF SafetySpec, ImplementsPromise, Promise!Spec
=============================================================================
