------------------------------ MODULE SdkProofs ------------------------------
(* Proofs about SdkClient, for any number of threads and events, any queue and *)
(* spool, both clients, and a disk that may fail; then about Pipeline, where   *)
(* it is put together with the server.                                         *)
EXTENDS Pipeline, FiniteSetTheorems, TLAPS

USE SdkAssumption DEF Ready, Recv, Stopped, Unlocked

\* What the union types say of a state of the sender, a thread and the mutex.
LEMMA WorkerCases ==
  ASSUME worker \in Working
  PROVE  /\ worker.at \in {"recv", "stopped", "post", "store", "remove", "drain"}
         /\ worker.at = "recv" <=> worker = Recv
         /\ worker.at = "stopped" <=> worker = Stopped
         /\ worker.at \in {"post", "store", "remove"} => worker.ev \in Event
         /\ worker.at \in {"drain", "remove"} => worker.by \in Listener
         /\ worker.at = "post" => worker.from \in {"queue", "spool"}
         /\ worker.at = "post" /\ worker.from = "spool" => worker.by \in Listener
  BY DEF Working

LEMMA CallerCases ==
  ASSUME caller \in [Caller -> Calling], NEW t \in Caller
  PROVE  /\ caller[t].at \in {"ready", "capture", "spill", "flush", "waitFlush", "stop", "join",
                              "wait", "flushed", "stopped"}
         /\ caller[t].at = "ready" <=> caller[t] = Ready
         /\ caller[t].at \in {"capture", "spill"} => caller[t].ev \in Event
         /\ caller[t].at \in {"capture", "spill"} =>
              caller[t] = [at |-> caller[t].at, ev |-> caller[t].ev]
         /\ caller[t].at \in {"flush", "waitFlush", "stop", "join", "wait", "flushed", "stopped"} =>
              caller[t].owed \in SUBSET Event
         /\ caller[t].at \in {"flush", "waitFlush", "stop", "join", "wait"} =>
              caller[t] = [at |-> caller[t].at, owed |-> caller[t].owed]
         /\ caller[t].at = "flushed" => caller[t].left \in BOOLEAN
         /\ caller[t].at = "stopped" => caller[t].waited \in BOOLEAN
  BY DEF Calling

LEMMA LockCases ==
  ASSUME spoolLock \in Locked \cup {Unlocked}
  PROVE  /\ spoolLock.by = Nobody <=> spoolLock = Unlocked
         /\ spoolLock # Unlocked => spoolLock \in Locked /\ spoolLock.ev \in Event
                                    /\ spoolLock.by \in Caller \cup {Sender}
  BY DEF Locked

LEMMA QueueCases ==
  ASSUME queue \in Seq(Command), NEW i \in DOMAIN queue
  PROVE  /\ Len(queue) \in Nat /\ DOMAIN queue = 1 .. Len(queue) /\ i \in 1 .. Len(queue)
         /\ queue[i] \in Command
         /\ queue[i].do \in {"event", "flush", "shutdown"}
         /\ queue[i].do = "event" => queue[i].ev \in Event
         /\ queue[i].do = "flush" => queue[i].by \in Listener
                                     /\ queue[i] = [do |-> "flush", by |-> queue[i].by]
<1>1. Len(queue) \in Nat /\ DOMAIN queue = 1 .. Len(queue) /\ queue[i] \in Command
  OBVIOUS
<1>2. QED
  BY <1>1 DEF Command

\* What a step makes of a thread, the sender and the mutex is one of their states.
LEMMA Fates ==
  ASSUME fate \in [Event -> {"open", "answered", "evicted", "lost"}],
         NEW e \in Event, NEW what \in {"answered", "evicted", "lost"}, Fated(e, what)
  PROVE  fate' \in [Event -> {"open", "answered", "evicted", "lost"}]
  BY DEF Fated, First

LEMMA CallerMoves ==
  ASSUME caller \in [Caller -> Calling], NEW t \in Caller
  PROVE  /\ [caller EXCEPT ![t] = Ready] \in [Caller -> Calling]
         /\ caller[t].at = "capture" => [caller EXCEPT ![t].at = "spill"] \in [Caller -> Calling]
         /\ caller[t].at = "flush" => [caller EXCEPT ![t].at = "waitFlush"] \in [Caller -> Calling]
         /\ caller[t].at = "stop" => [caller EXCEPT ![t].at = "join"] \in [Caller -> Calling]
         /\ caller[t].at = "join" => [caller EXCEPT ![t].at = "wait"] \in [Caller -> Calling]
<1>1. Ready \in Calling
  BY DEF Calling
<1>2. ASSUME NEW x \in {"spill"}, caller[t].at = "capture"
      PROVE  [caller[t] EXCEPT !.at = x] \in Calling
  BY <1>2, CallerCases DEF Calling
<1>3. ASSUME NEW x \in {"waitFlush", "join", "wait"}, caller[t].at \in {"flush", "stop", "join"}
      PROVE  [caller[t] EXCEPT !.at = x] \in Calling
  BY <1>3, CallerCases DEF Calling
<1>4. QED
  BY <1>1, <1>2, <1>3

LEMMA QueueMoves ==
  ASSUME queue \in Seq(Command), Len(queue) <= QueueCap
  PROVE  /\ queue # <<>> => /\ Tail(queue) \in Seq(Command) /\ Len(Tail(queue)) <= QueueCap
                            /\ Head(queue) \in Command
         /\ \A c \in Command : Len(queue) < QueueCap =>
              Append(queue, c) \in Seq(Command) /\ Len(Append(queue, c)) <= QueueCap
  OBVIOUS

LEMMA ReportType ==
  ASSUME TypeOK, NEW by \in Listener, NEW left \in BOOLEAN, Report(by, left),
         by \in Caller => caller[by].at = "waitFlush"
  PROVE  worker' \in Working /\ caller' \in [Caller -> Calling]
<1>1. worker' \in Working
  BY DEF Report, Working
<1>2. CASE by = Nobody
  BY <1>1, <1>2 DEF Report, TypeOK
<1>3. CASE by \in Caller
  <2>1. caller[by].owed \in SUBSET Event
    BY <1>3, CallerCases DEF TypeOK
  <2>2. [at |-> "flushed", owed |-> caller[by].owed, left |-> left] \in Calling
    BY <2>1 DEF Calling
  <2>3. QED
    BY <1>1, <1>3, <2>2 DEF Report, TypeOK
<1>4. QED
  BY <1>1, <1>2, <1>3 DEF Listener

LEMMA ReporterWaits ==
  ASSUME TypeOK, Waiting, Draining
  PROVE  worker.by \in Listener /\ (worker.by \in Caller => caller[worker.by].at = "waitFlush")
  BY WorkerCases DEF TypeOK, Waiting, Draining

LEMMA TypeOKCaller ==
  ASSUME TypeOK, NEW t \in Caller,
         \/ \E e \in Event : BeginCapture(t, e)
         \/ Enqueue(t) \/ Spill(t) \/ CaptureStopped(t)
         \/ BeginFlush(t) \/ SendFlush(t)
         \/ BeginStop(t) \/ SendStop(t) \/ Join(t) \/ AwaitExit(t) \/ Proceed(t)
  PROVE  TypeOK'
<1> USE CallerCases, CallerMoves, QueueMoves
<1>1. ASSUME NEW e \in Event, BeginCapture(t, e)
      PROVE  TypeOK'
  <2>1. [at |-> "capture", ev |-> e] \in Calling
    BY DEF Calling
  <2>2. QED
    BY <1>1, <2>1 DEF BeginCapture, TypeOK
<1>2. CASE Enqueue(t)
  <2>1. [do |-> "event", ev |-> caller[t].ev] \in Command
    BY <1>2 DEF Enqueue, TypeOK, Command
  <2>2. QED
    BY <1>2, <2>1 DEF Enqueue, Returns, TypeOK
<1>3. CASE Spill(t)
  BY <1>3 DEF Spill, TypeOK
<1>4. CASE CaptureStopped(t)
  BY <1>4 DEF CaptureStopped, Returns, TypeOK
<1>5. CASE BeginFlush(t)
  <2>1. [at |-> "flush", owed |-> Owed] \in Calling
    BY DEF Calling, Owed, Ok
  <2>2. QED
    BY <1>5, <2>1 DEF BeginFlush, TypeOK
<1>6. CASE SendFlush(t)
  <2>1. [do |-> "flush", by |-> t] \in Command
    BY DEF Command, Listener
  <2>2. QED
    BY <1>6, <2>1 DEF SendFlush, TypeOK
<1>7. CASE BeginStop(t)
  <2>1. [at |-> "stop", owed |-> Owed] \in Calling
    BY DEF Calling, Owed, Ok
  <2>2. QED
    BY <1>7, <2>1 DEF BeginStop, TypeOK
<1>8. CASE SendStop(t)
  <2>1. [do |-> "shutdown"] \in Command
    BY DEF Command
  <2>2. queue' \in Seq(Command) /\ Len(queue') <= QueueCap
    BY <1>8, <2>1 DEF SendStop, TypeOK
  <2>3. QED
    BY <1>8, <2>2 DEF SendStop, TypeOK
<1>9. ASSUME NEW waited \in BOOLEAN, HasStopped(t, waited), caller[t].at \in {"join", "wait"}
      PROVE  TypeOK => caller' \in [Caller -> Calling]
  <2>1. [at |-> "stopped", owed |-> caller[t].owed, waited |-> waited] \in Calling
    BY <1>9 DEF Calling, TypeOK
  <2>2. QED
    BY <1>9, <2>1 DEF HasStopped, TypeOK
<1>10. CASE Join(t)
  BY <1>9, <1>10 DEF Join, TypeOK
<1>11. CASE AwaitExit(t)
  BY <1>9, <1>11 DEF AwaitExit, TypeOK
<1>12. CASE Proceed(t)
  BY <1>12 DEF Proceed, TypeOK
<1>13. QED
  BY <1>1, <1>2, <1>3, <1>4, <1>5, <1>6, <1>7, <1>8, <1>10, <1>11, <1>12

LEMMA SeqOfFunction ==
  ASSUME NEW S, NEW n \in Nat, NEW f \in [1 .. n -> S]
  PROVE  f \in Seq(S) /\ Len(f) = n
  OBVIOUS

LEMMA UnheardCommand ==
  ASSUME NEW c \in Command, NEW t \in Caller
  PROVE  (IF c.do = "flush" THEN [c EXCEPT !.by = Unheard(@, t)] ELSE c) \in Command
<1>1. CASE c.do = "flush"
  <2>1. c \in [do : {"flush"}, by : Listener]
    BY <1>1 DEF Command
  <2>2. [c EXCEPT !.by = Unheard(@, t)] \in [do : {"flush"}, by : Listener]
    BY <2>1 DEF Unheard, Listener
  <2>3. QED
    BY <1>1, <2>2 DEF Command
<1>2. QED
  BY <1>1

LEMMA UnheardWorker ==
  ASSUME worker \in Working, NEW t \in Caller
  PROVE  (IF worker.at \in {"drain", "remove"} \/ (worker.at = "post" /\ worker.from = "spool")
            THEN [worker EXCEPT !.by = Unheard(@, t)] ELSE worker) \in Working
<1> DEFINE Tended == [at : {"post"}, ev : Event, from : {"spool"}, by : Listener]
                     \cup [at : {"remove"}, ev : Event, by : Listener] \cup [at : {"drain"}, by : Listener]
<1>1. CASE Draining
  <2>1. worker \in Tended
    BY <1>1 DEF Working, Draining
  <2>2. [worker EXCEPT !.by = Unheard(@, t)] \in Tended
    BY <2>1 DEF Unheard, Listener
  <2>3. Tended \subseteq Working
    BY DEF Working
  <2>4. QED
    BY <1>1, <2>2, <2>3 DEF Draining
<1>2. CASE ~Draining
  BY <1>2 DEF Draining
<1>3. QED
  BY <1>1, <1>2

LEMMA TypeOKAbandon ==
  ASSUME TypeOK, NEW t \in Caller, AbandonFlush(t)
  PROVE  TypeOK'
<1>1. queue' \in Seq(Command) /\ Len(queue') = Len(queue)
  <2>1. queue' = [i \in 1 .. Len(queue) |->
                   IF queue[i].do = "flush" THEN [queue[i] EXCEPT !.by = Unheard(@, t)] ELSE queue[i]]
    BY DEF AbandonFlush, TypeOK
  <2>2. \A i \in 1 .. Len(queue) : queue'[i] \in Command
    BY <2>1, UnheardCommand DEF TypeOK
  <2>3. Len(queue) \in Nat /\ queue' \in [1 .. Len(queue) -> Command]
    <3>1. Len(queue) \in Nat
      BY DEF TypeOK
    <3>2. QED
      BY <2>1, <2>2, <3>1
  <2>4. QED
    BY <2>3, SeqOfFunction
<1>2. worker' \in Working
  BY UnheardWorker DEF AbandonFlush, TypeOK
<1>3. QED
  BY <1>1, <1>2, CallerMoves DEF AbandonFlush, TypeOK

LEMMA TypeOKSender ==
  ASSUME TypeOK, Waiting,
         \/ TakeEvent \/ TakeFlush \/ TakeShutdown \/ IdleDrain
         \/ DrainEmpty \/ DrainEnds \/ DrainNext
         \/ PostDelivered \/ PostRejected \/ PostFails \/ RemoveFile
  PROVE  TypeOK'
<1> USE QueueMoves, WorkerCases, Fates
<1>1. CASE TakeEvent
  <2>1. Head(queue).ev \in Event
    BY <1>1 DEF TakeEvent, TypeOK, Command
  <2>2. worker' \in Working
    BY <1>1, <2>1 DEF TakeEvent, Working
  <2>3. QED
    BY <1>1, <2>2 DEF TakeEvent, TypeOK, appVars
<1>2. CASE TakeFlush
  <2>1. Head(queue).by \in Listener
    BY <1>2 DEF TakeFlush, TypeOK, Command
  <2>2. worker' \in Working
    BY <1>2, <2>1 DEF TakeFlush, Working
  <2>3. QED
    BY <1>2, <2>2 DEF TakeFlush, TypeOK, appVars
<1>3. CASE TakeShutdown
  <2>1. worker' \in Working
    BY <1>3 DEF TakeShutdown, Working
  <2>2. fate' \in [Event -> {"open", "answered", "evicted", "lost"}]
    BY <1>3 DEF TakeShutdown, TypeOK, First
  <2>3. QED
    BY <1>3, <2>1, <2>2 DEF TakeShutdown, TypeOK, appVars
<1>4. CASE IdleDrain
  <2>1. worker' \in Working
    BY <1>4 DEF IdleDrain, Working, Listener
  <2>2. QED
    BY <1>4, <2>1 DEF IdleDrain, TypeOK, appVars
<1>5. CASE DrainEmpty \/ DrainEnds
  <2>1. Draining
    BY <1>5 DEF DrainEmpty, DrainEnds, Draining
  <2>2. worker' \in Working /\ caller' \in [Caller -> Calling]
    BY <1>5, <2>1, ReporterWaits, ReportType DEF DrainEmpty, DrainEnds
  <2>3. QED
    BY <1>5, <2>2 DEF DrainEmpty, DrainEnds, TypeOK
<1>6. CASE DrainNext
  <2>1. PICK e \in Oldest(stamp) : worker' = [at |-> "post", ev |-> e, from |-> "spool", by |-> worker.by]
    BY <1>6 DEF DrainNext
  <2>2. e \in Event /\ worker.by \in Listener
    BY <1>6, <2>1 DEF DrainNext, Oldest, Files, TypeOK
  <2>3. worker' \in Working
    BY <2>1, <2>2 DEF Working
  <2>4. QED
    BY <1>6, <2>3 DEF DrainNext, TypeOK, appVars
<1>7. CASE PostDelivered \/ PostRejected
  <2>1. worker' \in Working
    BY <1>7 DEF PostDelivered, PostRejected, AfterPost, TypeOK, Working
  <2>2. worker.ev \in Event
    BY <1>7 DEF PostDelivered, PostRejected, TypeOK
  <2>3. QED
    BY <1>7, <2>1, <2>2 DEF PostDelivered, PostRejected, TypeOK, appVars
<1>8. CASE PostFails
  <2>1. worker.ev \in Event /\ worker.at = "post"
    BY <1>8 DEF PostFails, TypeOK
  <2>2. fate' \in [Event -> {"open", "answered", "evicted", "lost"}]
    BY <1>8, <2>1 DEF PostFails, TypeOK
  <2>3. worker' \in Working /\ caller' \in [Caller -> Calling]
    <3>1. CASE worker.from = "queue"
      BY <1>8, <2>1, <3>1 DEF PostFails, Retry, Working, TypeOK
    <3>2. CASE worker.from # "queue"
      <4>1. Draining
        BY <2>1, <3>2 DEF Draining, TypeOK
      <4>2. Report(worker.by, Spooled # {})
        BY <1>8, <3>2 DEF PostFails, Retry
      <4>3. QED
        BY <4>1, <4>2, ReporterWaits, ReportType
    <3>3. QED
      BY <3>1, <3>2
  <2>4. QED
    BY <1>8, <2>2, <2>3 DEF PostFails, TypeOK
<1>9. CASE RemoveFile
  <2>1. worker' \in Working
    BY <1>9 DEF RemoveFile, TypeOK, Working
  <2>2. stamp' \in [Event -> Nat]
    BY <1>9 DEF RemoveFile, TypeOK
  <2>3. QED
    BY <1>9, <2>1, <2>2 DEF RemoveFile, TypeOK, appVars
<1>10. QED
  BY <1>1, <1>2, <1>3, <1>4, <1>5, <1>6, <1>7, <1>8, <1>9

LEMMA StoreReturnsType ==
  ASSUME TypeOK, NEW p \in Caller \cup {Sender}, NEW e \in Event, NEW result \in {"ok", "error"},
         StoreReturns(p, e, result)
  PROVE  /\ worker' \in Working /\ caller' \in [Caller -> Calling]
         /\ answer' \in [Event -> {"none", "asked", "ok", "error"}]
<1>1. CASE p = Sender
  BY <1>1, SMTT(30) DEF StoreReturns, Working, TypeOK
<1>2. CASE p \in Caller
  BY <1>2, CallerMoves DEF StoreReturns, Returns, TypeOK
<1>3. QED
  BY <1>1, <1>2

LEMMA TypeOKStore ==
  ASSUME TypeOK, NEW p \in Caller \cup {Sender}, Store(p)
  PROVE  TypeOK'
<1> USE LockCases, Fates
<1>1. PICK e \in Event :
        \/ StoreFails(p, e) \/ StoreFile(p, e) \/ Measure(p, e)
        \/ Evict(p, e) \/ StoreEnds(p, e) \/ StoreDisturbed(p, e)
  BY DEF Store
<1>2. CASE StoreFails(p, e)
  <2>1. fate' \in [Event -> {"open", "answered", "evicted", "lost"}]
    BY <1>2 DEF StoreFails, TypeOK
  <2>2. QED
    BY <1>2, <2>1, StoreReturnsType DEF StoreFails, TypeOK
<1>3. CASE StoreFile(p, e)
  <2>1. PICK n \in NextStamps : stamp' = [stamp EXCEPT ![e] = n]
    BY <1>3 DEF StoreFile
  <2>2. stamp' \in [Event -> Nat]
    BY <2>1 DEF NextStamps, TypeOK
  <2>3. spoolLock' \in Locked
    BY <1>3, <2>2 DEF StoreFile, Locked
  <2>4. QED
    BY <1>3, <2>2, <2>3 DEF StoreFile, TypeOK, appVars
<1>4. CASE Measure(p, e)
  <2>1. spoolLock \in Locked
    BY <1>4 DEF Measure, TypeOK
  <2>2. spoolLock' \in Locked
    BY <1>4, <2>1 DEF Measure, Locked
  <2>3. QED
    BY <1>4, <2>2 DEF Measure, TypeOK, appVars
<1>5. CASE Evict(p, e)
  <2>1. spoolLock \in Locked
    BY <1>5 DEF Evict, TypeOK
  <2>2. PICK victim \in Event :
          /\ stamp' = [stamp EXCEPT ![victim] = 0]
          /\ spoolLock' = [spoolLock EXCEPT !.listed[victim] = 0]
          /\ Fated(victim, "evicted")
    BY <1>5 DEF Evict, Spooled
  <2>3. spoolLock' \in Locked
    BY <2>1, <2>2 DEF Locked
  <2>4. stamp' \in [Event -> Nat] /\ fate' \in [Event -> {"open", "answered", "evicted", "lost"}]
    BY <2>2 DEF TypeOK
  <2>5. QED
    BY <1>5, <2>3, <2>4 DEF Evict, TypeOK, appVars
<1>6. CASE StoreEnds(p, e) \/ StoreDisturbed(p, e)
  BY <1>6, StoreReturnsType DEF StoreEnds, StoreDisturbed, TypeOK
<1>7. QED
  BY <1>1, <1>2, <1>3, <1>4, <1>5, <1>6

LEMMA TypeOKCrash ==
  ASSUME TypeOK, Crash
  PROVE  TypeOK'
<1>1. worker' \in Working /\ caller' \in [Caller -> Calling]
  BY DEF Crash, Working, Calling
<1>2. answer' \in [Event -> {"none", "asked", "ok", "error"}]
  BY DEF Crash, TypeOK
<1>3. fate' \in [Event -> {"open", "answered", "evicted", "lost"}]
  BY DEF Crash, TypeOK, First
<1>4. queue' \in Seq(Command) /\ Len(queue') <= QueueCap
  BY DEF Crash
<1>5. crashes' \in 0 .. MaxCrashes /\ stamp' \in [Event -> Nat]
  BY DEF Crash, TypeOK
<1>6. spoolLock' = Unlocked /\ stopping' \in BOOLEAN /\ handle' \in BOOLEAN
  BY Zenon DEF Crash
<1>7. QED
  BY <1>1, <1>2, <1>3, <1>4, <1>5, <1>6 DEF TypeOK

LEMMA TypeOKInit ==
  ASSUME Init
  PROVE  TypeOK
<1>1. worker \in Working /\ caller \in [Caller -> Calling]
  BY DEF Init, Working, Calling
<1>2. queue \in Seq(Command) /\ Len(queue) <= QueueCap
  BY DEF Init
<1>3. crashes \in 0 .. MaxCrashes /\ stamp \in [Event -> Nat]
  BY DEF Init
<1>4. spoolLock = Unlocked /\ stopping \in BOOLEAN /\ handle \in BOOLEAN
  BY Zenon DEF Init
<1>5. /\ answer \in [Event -> {"none", "asked", "ok", "error"}]
      /\ fate \in [Event -> {"open", "answered", "evicted", "lost"}]
  BY DEF Init
<1>6. QED
  BY <1>1, <1>2, <1>3, <1>4, <1>5 DEF TypeOK
-----------------------------------------------------------------------------
(* A thread waits for one flush: Waiting. *)

LEMMA AppendFlushOf ==
  ASSUME queue \in Seq(Command), NEW c \in Command, queue' = Append(queue, c), NEW t \in Listener
  PROVE  FlushOf(t)' = FlushOf(t) \cup (IF c.do = "flush" /\ c.by = t THEN {Len(queue) + 1} ELSE {})
<1>1. /\ Len(queue) \in Nat /\ Len(queue') = Len(queue) + 1
      /\ \A i \in 1 .. Len(queue) : queue'[i] = queue[i]
      /\ queue'[Len(queue) + 1] = c
      /\ DOMAIN queue = 1 .. Len(queue) /\ DOMAIN queue' = 1 .. Len(queue) + 1
  OBVIOUS
<1>2. QED
  BY <1>1 DEF FlushOf

LEMMA TailFlushOf ==
  ASSUME queue \in Seq(Command), queue # <<>>, queue' = Tail(queue), NEW t \in Listener
  PROVE  \A i \in FlushOf(t)' : i \in Nat /\ i + 1 \in FlushOf(t)
<1>1. /\ Len(queue) \in Nat \ {0} /\ DOMAIN queue' = 1 .. Len(queue) - 1 /\ DOMAIN queue = 1 .. Len(queue)
      /\ \A i \in 1 .. Len(queue) - 1 : queue'[i] = queue[i + 1] /\ i + 1 \in 1 .. Len(queue)
  OBVIOUS
<1>2. QED
  BY <1>1 DEF FlushOf

\* A step of a thread that does not wait for a flush.
LEMMA WaitingCaller ==
  ASSUME TypeOK, Waiting, UNCHANGED worker, NEW t \in Caller, caller[t].at # "waitFlush",
         \A u \in Caller \ {t} : caller'[u] = caller[u],
         queue' = queue \/ \E c \in Command : c.do # "flush" /\ queue' = Append(queue, c)
  PROVE  Waiting'
<1>1. ASSUME NEW u \in Caller
      PROVE  FlushOf(u)' = FlushOf(u)
  <2>1. CASE queue' = queue
    BY <2>1 DEF FlushOf
  <2>2. CASE \E c \in Command : c.do # "flush" /\ queue' = Append(queue, c)
    <3>1. PICK c \in Command : c.do # "flush" /\ queue' = Append(queue, c)
      BY <2>2
    <3>2. queue \in Seq(Command) /\ u \in Listener
      BY DEF TypeOK, Listener
    <3>3. FlushOf(u)' = FlushOf(u) \cup {}
      BY <3>1, <3>2, AppendFlushOf
    <3>4. QED
      BY <3>3
  <2>3. QED
    BY <2>1, <2>2
<1>2. Draining' <=> Draining
  BY DEF Draining
<1>3. FlushOf(t) = {} /\ ~(Draining /\ worker.by = t)
  BY DEF Waiting
<1>4. QED
  BY <1>1, <1>2, <1>3 DEF Waiting

\* A step of the sender that reports to no one.
LEMMA WaitingSender ==
  ASSUME Waiting, UNCHANGED <<queue, caller>>,
         Draining' => worker'.by \notin Caller \/ (Draining /\ worker'.by = worker.by)
  PROVE  Waiting'
<1>1. \A u \in Caller : FlushOf(u)' = FlushOf(u)
  BY DEF FlushOf
<1>2. QED
  BY <1>1 DEF Waiting

LEMMA WaitingReport ==
  ASSUME TypeOK, Waiting, Draining, NEW left \in BOOLEAN, Report(worker.by, left), UNCHANGED queue
  PROVE  Waiting'
<1>1. \A u \in Caller : FlushOf(u)' = FlushOf(u)
  BY DEF FlushOf
<1>2. ~Draining'
  BY DEF Report, Draining
<1>3. \A u \in Caller : u # worker.by => caller'[u] = caller[u]
  BY ReporterWaits DEF Report, TypeOK, Listener
<1>4. \A u \in Caller : u = worker.by => FlushOf(u) = {}
  BY DEF Waiting
<1>5. QED
  BY <1>1, <1>2, <1>3, <1>4 DEF Waiting

\* What a step of Spool::store leaves alone.
LEMMA StoreFrame ==
  ASSUME TypeOK, Holding, NEW p \in Caller \cup {Sender}, Store(p)
  PROVE  /\ UNCHANGED queue
         /\ p \in Caller => worker' = worker
         /\ p \in Caller => caller' = caller \/ (caller[p].at = "spill" /\ caller' = [caller EXCEPT ![p] = Ready])
         /\ p = Sender => caller' = caller /\ (worker' = worker \/ (worker.at = "store" /\ worker' = Recv))
<1>1. PICK e \in Event :
        \/ StoreFails(p, e) \/ StoreFile(p, e) \/ Measure(p, e)
        \/ Evict(p, e) \/ StoreEnds(p, e) \/ StoreDisturbed(p, e)
  BY DEF Store
<1>2. CASE StoreFile(p, e) \/ Measure(p, e) \/ Evict(p, e)
  BY <1>2 DEF StoreFile, Measure, Evict, appVars
<1>3. CASE StoreFails(p, e) \/ StoreEnds(p, e) \/ StoreDisturbed(p, e)
  <2>1. Stores(p, e) /\ queue' = queue /\ \E result \in {"ok", "error"} : StoreReturns(p, e, result)
    BY <1>3, LockCases DEF StoreFails, StoreEnds, StoreDisturbed, Holding, TypeOK
  <2>2. QED
    BY <2>1 DEF Stores, StoreReturns, Returns
<1>4. QED
  BY <1>1, <1>2, <1>3

LEMMA WaitingThread ==
  ASSUME TypeOK, Waiting, Holding, NEW t \in Caller, CallerStep(t)
  PROVE  Waiting'
<1>1. ASSUME NEW e \in Event, BeginCapture(t, e)
      PROVE  Waiting'
  BY <1>1, WaitingCaller DEF BeginCapture, TypeOK
<1>2. CASE Enqueue(t)
  <2>1. [do |-> "event", ev |-> caller[t].ev] \in Command
    BY <1>2, CallerCases DEF Enqueue, TypeOK, Command
  <2>2. \A u \in Caller \ {t} : caller'[u] = caller[u]
    BY <1>2 DEF Enqueue, Returns, TypeOK
  <2>3. QED
    BY <1>2, <2>1, <2>2, WaitingCaller DEF Enqueue
<1>3. CASE Spill(t) \/ CaptureStopped(t) \/ BeginFlush(t) \/ BeginStop(t) \/ Proceed(t)
  <2>1. /\ caller[t].at # "waitFlush" /\ UNCHANGED <<worker, queue>>
        /\ \E c : caller' = [caller EXCEPT ![t] = c]
    BY <1>3 DEF Spill, CaptureStopped, BeginFlush, BeginStop, Proceed, Returns
  <2>2. QED
    BY <2>1, WaitingCaller DEF TypeOK
<1>4. CASE Store(t)
  <2>1. /\ UNCHANGED <<worker, queue>>
        /\ caller' = caller \/ (caller[t].at = "spill" /\ caller' = [caller EXCEPT ![t] = Ready])
    BY <1>4, StoreFrame
  <2>2. CASE caller' = caller
    BY <2>1, <2>2, WaitingSender DEF Draining
  <2>3. CASE caller[t].at = "spill" /\ caller' = [caller EXCEPT ![t] = Ready]
    BY <2>1, <2>3, WaitingCaller DEF TypeOK
  <2>4. QED
    BY <2>1, <2>2, <2>3
<1>5. CASE SendFlush(t)
  <2>1. [do |-> "flush", by |-> t] \in Command
    BY DEF Command, Listener
  <2>2. \A u \in Caller : FlushOf(u)' = IF u = t THEN FlushOf(u) \cup {Len(queue) + 1} ELSE FlushOf(u)
    <3>1. queue \in Seq(Command) /\ queue' = Append(queue, [do |-> "flush", by |-> t])
      BY <1>5 DEF SendFlush, TypeOK
    <3>2. ASSUME NEW u \in Caller
          PROVE  FlushOf(u)' = FlushOf(u) \cup (IF u = t THEN {Len(queue) + 1} ELSE {})
      BY <2>1, <3>1, AppendFlushOf DEF Listener
    <3>3. QED
      BY <3>2
  <2>3. FlushOf(t) = {} /\ ~(Draining /\ worker.by = t)
    BY <1>5 DEF SendFlush, Waiting
  <2>4. (Draining' <=> Draining) /\ worker' = worker
    BY <1>5 DEF SendFlush, Draining
  <2>5. caller'[t].at = "waitFlush" /\ \A u \in Caller \ {t} : caller'[u] = caller[u]
    BY <1>5, CallerCases DEF SendFlush, TypeOK
  <2>6. QED
    BY <2>2, <2>3, <2>4, <2>5 DEF Waiting
<1>6. CASE AbandonFlush(t)
  <2>1. DOMAIN queue' = DOMAIN queue
    BY <1>6 DEF AbandonFlush
  <2>2. \A u \in Caller : FlushOf(u)' = IF u = t THEN {} ELSE FlushOf(u)
    BY <1>6, <2>1, QueueCases DEF AbandonFlush, TypeOK, FlushOf, Unheard, Listener
  <2>3. (Draining' <=> Draining) /\ (Draining => worker'.by = Unheard(worker.by, t))
    BY <1>6, WorkerCases DEF AbandonFlush, Draining, TypeOK
  <2>4. \A u \in Caller \ {t} : caller'[u] = caller[u]
    BY <1>6 DEF AbandonFlush, TypeOK
  <2>5. QED
    BY <2>2, <2>3, <2>4 DEF Waiting, Unheard
<1>7. CASE SendStop(t)
  <2>1. [do |-> "shutdown"] \in Command
    BY DEF Command
  <2>2. QED
    BY <1>7, <2>1, WaitingCaller DEF SendStop, TypeOK
<1>8. CASE Join(t) \/ AwaitExit(t)
  BY <1>8, WaitingCaller DEF Join, AwaitExit, HasStopped, TypeOK
<1>9. QED
  BY <1>1, <1>2, <1>3, <1>4, <1>5, <1>6, <1>7, <1>8 DEF CallerStep

LEMMA WaitingSenderStep ==
  ASSUME TypeOK, Waiting, Holding, SenderStep
  PROVE  Waiting'
<1>1. CASE TakeEvent \/ TakeFlush
  <2>1. queue # <<>> /\ queue' = Tail(queue) /\ caller' = caller /\ ~Draining
    BY <1>1 DEF TakeEvent, TakeFlush, appVars, Draining
  <2>2. \A u \in Caller : \A i, j \in FlushOf(u)' : i \in Nat /\ i + 1 \in FlushOf(u) /\ j \in Nat /\ j + 1 \in FlushOf(u)
    BY <2>1, TailFlushOf DEF TypeOK, Listener
  <2>3. \A u \in Caller : \A i, j \in FlushOf(u)' : i = j
    BY <2>2 DEF Waiting
  <2>4. ASSUME NEW u \in Caller, Draining', worker'.by = u
        PROVE  FlushOf(u)' = {} /\ caller[u].at = "waitFlush"
    <3>1. TakeFlush /\ Head(queue).by = u /\ 1 \in FlushOf(u)
      BY <1>1, <2>4 DEF TakeEvent, TakeFlush, Draining, FlushOf, TypeOK
    <3>2. \A i \in FlushOf(u)' : i + 1 = 1 /\ i \in DOMAIN queue'
      BY <2>2, <3>1 DEF Waiting, FlushOf
    <3>3. \A i \in DOMAIN queue' : i >= 1
      BY <2>1 DEF TypeOK
    <3>4. \A i \in FlushOf(u)' : FALSE
      BY <2>2, <3>2, <3>3
    <3>5. caller[u].at = "waitFlush"
      BY <3>1 DEF Waiting
    <3>6. QED
      BY <3>4, <3>5
  <2>5. QED
    BY <2>1, <2>2, <2>3, <2>4 DEF Waiting
<1>2. CASE TakeShutdown
  <2>1. queue' = <<>> /\ caller' = caller /\ ~Draining'
    BY <1>2 DEF TakeShutdown, appVars, Draining
  <2>2. \A u \in Caller : FlushOf(u)' = {}
    BY <2>1 DEF FlushOf
  <2>3. QED
    BY <2>1, <2>2 DEF Waiting
<1>3. CASE IdleDrain \/ DrainNext \/ PostDelivered \/ PostRejected \/ RemoveFile
  BY <1>3, WaitingSender, WorkerCases
     DEF IdleDrain, DrainNext, PostDelivered, PostRejected, AfterPost, RemoveFile, appVars, Draining, TypeOK
<1>4. CASE DrainEmpty \/ DrainEnds
  BY <1>4, WaitingReport DEF DrainEmpty, DrainEnds, Draining
<1>5. CASE PostFails
  <2>1. CASE worker.from = "queue"
    BY <1>5, <2>1, WaitingSender DEF PostFails, Retry, Draining
  <2>2. CASE worker.from # "queue"
    BY <1>5, <2>2, WaitingReport, WorkerCases DEF PostFails, Retry, Draining, TypeOK
  <2>3. QED
    BY <2>1, <2>2
<1>6. CASE Store(Sender)
  BY <1>6, StoreFrame, WaitingSender DEF Draining
<1>7. QED
  BY <1>1, <1>2, <1>3, <1>4, <1>5, <1>6 DEF SenderStep

LEMMA WaitingCrash ==
  ASSUME Crash
  PROVE  Waiting'
  BY DEF Crash, Waiting, FlushOf, Draining
-----------------------------------------------------------------------------
(* What is safe stays safe, and what is kept stays kept. *)

LEMMA FatedSettles ==
  ASSUME TypeOK, NEW e \in Event, NEW what \in {"answered", "evicted", "lost"}, Fated(e, what)
  PROVE  Settled(e)' /\ \A f \in Event : (Settled(f) => Settled(f)') /\ (f # e => fate'[f] = fate[f])
  BY DEF Fated, First, Settled, TypeOK

LEMMA StoreSteps ==
  ASSUME TypeOK, NEW p \in Caller \cup {Sender}, Store(p)
  PROVE  \E e \in Event :
           \/ StoreFails(p, e) \/ StoreFile(p, e) \/ Measure(p, e)
           \/ Evict(p, e) \/ StoreEnds(p, e) \/ StoreDisturbed(p, e)
  BY DEF Store

LEMMA SafeInStore ==
  ASSUME TypeOK, NEW p \in Caller \cup {Sender}, Store(p), NEW f \in Event
  PROVE  (Settled(f) => Settled(f)') /\ (Safe(f) => Safe(f)')
<1>1. PICK e \in Event :
        \/ StoreFails(p, e) \/ StoreFile(p, e) \/ Measure(p, e)
        \/ Evict(p, e) \/ StoreEnds(p, e) \/ StoreDisturbed(p, e)
  BY StoreSteps
<1>2. CASE StoreFails(p, e)
  <2>1. stamp' = stamp /\ (fate' = fate \/ Fated(e, "lost"))
    BY <1>2 DEF StoreFails
  <2>2. QED
    BY <2>1, FatedSettles DEF Safe, Settled, Spooled
<1>3. CASE StoreFile(p, e)
  <2>1. PICK n \in NextStamps : stamp' = [stamp EXCEPT ![e] = n]
    BY <1>3 DEF StoreFile
  <2>2. n \in Nat /\ n > 0 /\ fate' = fate
    BY <1>3 DEF NextStamps, StoreFile
  <2>3. QED
    BY <2>1, <2>2 DEF Safe, Settled, Spooled, TypeOK
<1>4. CASE Evict(p, e)
  <2>1. PICK victim \in Event : stamp' = [stamp EXCEPT ![victim] = 0] /\ Fated(victim, "evicted")
    BY <1>4 DEF Evict, Spooled
  <2>2. QED
    BY <2>1, FatedSettles DEF Safe, Spooled, TypeOK
<1>5. CASE Measure(p, e) \/ StoreEnds(p, e) \/ StoreDisturbed(p, e)
  BY <1>5 DEF Measure, StoreEnds, StoreDisturbed, Safe, Settled, Spooled
<1>6. QED
  BY <1>1, <1>2, <1>3, <1>4, <1>5

LEMMA SafeStays ==
  ASSUME TypeOK, Handling, Next, NEW f \in Event
  PROVE  (Settled(f) => Settled(f)') /\ (Safe(f) => Safe(f)')
<1>1. CASE \E t \in Caller : CallerStep(t) /\ ~Store(t)
  BY <1>1
     DEF CallerStep, BeginCapture, Enqueue, Spill, CaptureStopped, BeginFlush, SendFlush, AbandonFlush,
         BeginStop, SendStop, Join, AwaitExit, Proceed, Safe, Settled, Spooled
<1>2. CASE TakeEvent \/ TakeFlush \/ IdleDrain \/ DrainEmpty \/ DrainEnds \/ DrainNext
  BY <1>2 DEF TakeEvent, TakeFlush, IdleDrain, DrainEmpty, DrainEnds, DrainNext, Safe, Settled, Spooled
<1>3. CASE TakeShutdown
  BY <1>3 DEF TakeShutdown, First, Safe, Settled, Spooled, TypeOK
<1>4. CASE PostDelivered \/ PostRejected \/ PostFails
  <2>1. worker.ev \in Event /\ stamp' = stamp /\ (fate' = fate \/ Fated(worker.ev, "answered"))
    BY <1>4, WorkerCases DEF PostDelivered, PostRejected, PostFails, TypeOK
  <2>2. QED
    BY <2>1, FatedSettles DEF Safe, Settled, Spooled
<1>5. CASE RemoveFile
  BY <1>5, WorkerCases DEF RemoveFile, Handling, Safe, Settled, Spooled, TypeOK
<1>6. CASE \E p \in Caller \cup {Sender} : Store(p)
  BY <1>6, SafeInStore
<1>7. CASE Crash
  BY <1>7 DEF Crash, First, Safe, Settled, Spooled, TypeOK
<1>8. QED
  BY <1>1, <1>2, <1>3, <1>4, <1>5, <1>6, <1>7 DEF Next, SenderStep, CallerStep

LEMMA HandlingNext ==
  ASSUME TypeOK, Holding, Handling, Next
  PROVE  Handling'
<1> USE WorkerCases, SafeStays DEF Handling
<1>1. CASE \E t \in Caller : CallerStep(t) /\ ~AbandonFlush(t) /\ ~Store(t)
  <2>1. worker' = worker /\ (worker # Stopped \/ queue' = queue)
    BY <1>1
       DEF CallerStep, BeginCapture, Enqueue, Spill, CaptureStopped, BeginFlush, SendFlush,
           BeginStop, SendStop, Join, AwaitExit, Proceed
  <2>2. QED
    BY <2>1 DEF TypeOK
<1>2. ASSUME NEW t \in Caller, AbandonFlush(t)
      PROVE  Handling'
  <2>1. /\ worker'.at = worker.at
        /\ worker.at = "post" => worker'.from = worker.from
        /\ worker.at \in {"post", "remove"} => worker'.ev = worker.ev
    BY <1>2 DEF AbandonFlush, TypeOK
  <2>2. DOMAIN queue' = DOMAIN queue
    BY <1>2 DEF AbandonFlush
  <2>3. worker.at = "stopped" => queue' = <<>>
    BY <1>2, <2>2 DEF AbandonFlush
  <2>4. QED
    BY <2>1, <2>3 DEF TypeOK
<1>3. CASE TakeEvent \/ TakeFlush \/ TakeShutdown \/ IdleDrain
  BY <1>3 DEF TakeEvent, TakeFlush, TakeShutdown, IdleDrain
<1>4. CASE DrainEmpty \/ DrainEnds
  BY <1>4 DEF DrainEmpty, DrainEnds, Report
<1>5. CASE DrainNext
  BY <1>5 DEF DrainNext, Oldest, Files, Safe, Spooled
<1>6. CASE PostDelivered \/ PostRejected
  <2>1. PICK e \in Event : e = worker.ev
    BY <1>6 DEF PostDelivered, PostRejected, TypeOK
  <2>2. Settled(e)'
    BY <1>6, <2>1, FatedSettles DEF PostDelivered, PostRejected
  <2>3. QED
    BY <1>6, <2>1, <2>2 DEF PostDelivered, PostRejected, AfterPost, Settled
<1>7. CASE PostFails
  BY <1>7 DEF PostFails, Retry, Report
<1>8. CASE RemoveFile
  BY <1>8 DEF RemoveFile
<1>9. ASSUME NEW p \in Caller \cup {Sender}, Store(p)
      PROVE  Handling'
  <2>1. queue' = queue /\ (worker' = worker \/ (worker.at = "store" /\ worker' = Recv))
    BY <1>9, StoreFrame
  <2>2. QED
    BY <2>1 DEF TypeOK
<1>10. CASE Crash
  BY <1>10 DEF Crash
<1>11. QED
  BY <1>1, <1>2, <1>3, <1>4, <1>5, <1>6, <1>7, <1>8, <1>9, <1>10 DEF Next, SenderStep, CallerStep

\* A thread that spills does nothing else.
LEMMA SpillStays ==
  ASSUME TypeOK, NEW t \in Caller, CallerStep(t), ~Store(t), NEW u \in Caller, caller[u].at = "spill"
  PROVE  caller'[u] = caller[u] /\ spoolLock' = spoolLock
<1>1. CASE u = t
  <2>1. ~(\E e \in Event : BeginCapture(t, e)) /\ ~BeginFlush(t) /\ ~BeginStop(t)
    BY <1>1 DEF BeginCapture, BeginFlush, BeginStop
  <2>2. ~Enqueue(t) /\ ~Spill(t) /\ ~CaptureStopped(t) /\ ~SendFlush(t) /\ ~AbandonFlush(t)
    BY <1>1 DEF Enqueue, Spill, CaptureStopped, SendFlush, AbandonFlush
  <2>3. ~SendStop(t) /\ ~Join(t) /\ ~AwaitExit(t) /\ ~Proceed(t)
    BY <1>1 DEF SendStop, Join, AwaitExit, Proceed
  <2>4. QED
    BY <2>1, <2>2, <2>3 DEF CallerStep
<1>2. CASE u # t
  BY <1>2
     DEF CallerStep, BeginCapture, Enqueue, Spill, CaptureStopped, BeginFlush, SendFlush, AbandonFlush,
         BeginStop, SendStop, Join, AwaitExit, HasStopped, Proceed, Returns, TypeOK
<1>3. QED
  BY <1>1, <1>2

LEMMA HoldingStore ==
  ASSUME TypeOK, Holding, Handling, Next, NEW p \in Caller \cup {Sender}, Store(p)
  PROVE  Holding'
<1>1. PICK e \in Event :
        \/ StoreFails(p, e) \/ StoreFile(p, e) \/ Measure(p, e)
        \/ Evict(p, e) \/ StoreEnds(p, e) \/ StoreDisturbed(p, e)
  BY StoreSteps
<1>2. CASE StoreFails(p, e) \/ StoreEnds(p, e) \/ StoreDisturbed(p, e)
  BY <1>2 DEF StoreFails, StoreEnds, StoreDisturbed, Holding
<1>3. CASE StoreFile(p, e)
  <2>1. PICK n \in NextStamps : stamp' = [stamp EXCEPT ![e] = n]
    BY <1>3 DEF StoreFile
  <2>2. n \in Nat /\ n > 0
    BY DEF NextStamps
  <2>3. /\ spoolLock'.by = p /\ spoolLock'.ev = e
        /\ worker' = worker /\ caller' = caller /\ Stores(p, e)
    BY <1>3 DEF StoreFile, appVars
  <2>4. e \in Spooled'
    BY <2>1, <2>2 DEF Spooled, TypeOK
  <2>5. QED
    BY <2>3, <2>4 DEF Holding, Stores, Safe
<1>4. CASE Measure(p, e) \/ Evict(p, e)
  <2>1. spoolLock # Unlocked /\ spoolLock \in Locked /\ spoolLock.by = p /\ spoolLock.ev = e
    BY <1>4, LockCases DEF Measure, Evict, TypeOK
  <2>2. spoolLock'.by = p /\ spoolLock'.ev = e /\ worker' = worker /\ caller' = caller
    BY <1>4, <2>1 DEF Measure, Evict, appVars, Locked
  <2>3. Stores(p, e) /\ Safe(e)
    BY <2>1 DEF Holding
  <2>4. Safe(e)'
    BY <2>3, SafeStays
  <2>5. QED
    BY <2>2, <2>3, <2>4 DEF Holding, Stores
<1>5. QED
  BY <1>1, <1>2, <1>3, <1>4

\* A step of another one, or of the holder, leaves it storing.
LEMMA HolderStays ==
  ASSUME TypeOK, Holding, Handling, Next, UNCHANGED spoolLock,
         spoolLock # Unlocked => Stores(spoolLock.by, spoolLock.ev)'
  PROVE  Holding'
<1>1. CASE spoolLock # Unlocked
  <2>1. PICK e \in Event : e = spoolLock.ev
    BY <1>1, LockCases DEF TypeOK
  <2>2. Safe(e)'
    BY <1>1, <2>1, SafeStays DEF Holding
  <2>3. QED
    BY <2>1, <2>2 DEF Holding
<1>2. CASE spoolLock = Unlocked
  BY <1>2 DEF Holding
<1>3. QED
  BY <1>1, <1>2

LEMMA HoldingNext ==
  ASSUME TypeOK, Waiting, Holding, Handling, Next
  PROVE  Holding'
<1>1. spoolLock # Unlocked => spoolLock.by \in Caller \cup {Sender}
  BY LockCases DEF TypeOK
<1>2. CASE \E p \in Caller \cup {Sender} : Store(p)
  BY <1>2, HoldingStore
<1>3. ASSUME NEW t \in Caller, CallerStep(t), ~Store(t)
      PROVE  Holding'
  <2>1. spoolLock' = spoolLock
    BY <1>3
       DEF CallerStep, BeginCapture, Enqueue, Spill, CaptureStopped, BeginFlush, SendFlush, AbandonFlush,
           BeginStop, SendStop, Join, AwaitExit, Proceed
  <2>2. worker.at = "store" => worker' = worker
    BY <1>3
       DEF CallerStep, BeginCapture, Enqueue, Spill, CaptureStopped, BeginFlush, SendFlush, AbandonFlush,
           BeginStop, SendStop, Join, AwaitExit, Proceed
  <2>3. spoolLock # Unlocked => Stores(spoolLock.by, spoolLock.ev)'
    BY <1>1, <1>3, <2>1, <2>2, SpillStays DEF Holding, Stores
  <2>4. QED
    BY <2>1, <2>3, HolderStays
<1>4. CASE SenderStep /\ ~Store(Sender)
  <2>1. spoolLock' = spoolLock
    BY <1>4
       DEF SenderStep, TakeEvent, TakeFlush, TakeShutdown, IdleDrain, DrainEmpty, DrainEnds, DrainNext,
           PostDelivered, PostRejected, PostFails, RemoveFile
  <2>2. worker.at # "store"
    <3>1. CASE TakeEvent \/ TakeFlush \/ TakeShutdown \/ IdleDrain
      BY <3>1 DEF TakeEvent, TakeFlush, TakeShutdown, IdleDrain
    <3>2. CASE DrainEmpty \/ DrainEnds \/ DrainNext
      BY <3>2 DEF DrainEmpty, DrainEnds, DrainNext
    <3>3. CASE PostDelivered \/ PostRejected \/ PostFails \/ RemoveFile
      BY <3>3 DEF PostDelivered, PostRejected, PostFails, RemoveFile
    <3>4. QED
      BY <1>4, <3>1, <3>2, <3>3 DEF SenderStep
  <2>3. caller' = caller \/ (Draining /\ \E left \in BOOLEAN : Report(worker.by, left))
    BY <1>4, WorkerCases
       DEF SenderStep, TakeEvent, TakeFlush, TakeShutdown, IdleDrain, DrainEmpty, DrainEnds, DrainNext,
           PostDelivered, PostRejected, PostFails, Retry, RemoveFile, appVars, Draining, TypeOK
  <2>4. \A u \in Caller : caller[u].at = "spill" => caller'[u] = caller[u]
    BY <2>3, ReporterWaits DEF Report, TypeOK, Listener
  <2>5. spoolLock # Unlocked => Stores(spoolLock.by, spoolLock.ev)'
    BY <1>1, <2>1, <2>2, <2>4 DEF Holding, Stores
  <2>6. QED
    BY <2>1, <2>5, HolderStays
<1>5. CASE Crash
  BY <1>5 DEF Crash, Holding
<1>6. QED
  BY <1>2, <1>3, <1>4, <1>5 DEF Next
-----------------------------------------------------------------------------
(* Nothing that is kept is forgotten. *)

LEMMA AppendQueue ==
  ASSUME queue \in Seq(Command), NEW c \in Command, queue' = Append(queue, c)
  PROVE  /\ Len(queue) \in Nat /\ DOMAIN queue = 1 .. Len(queue) /\ DOMAIN queue' = 1 .. Len(queue) + 1
         /\ queue'[Len(queue) + 1] = c
         /\ \A i \in DOMAIN queue : queue'[i] = queue[i] /\ i \in DOMAIN queue'
  OBVIOUS

LEMMA TailQueue ==
  ASSUME queue \in Seq(Command), queue # <<>>, queue' = Tail(queue)
  PROVE  /\ Len(queue) \in Nat \ {0} /\ DOMAIN queue = 1 .. Len(queue) /\ DOMAIN queue' = 1 .. Len(queue) - 1
         /\ Head(queue) = queue[1]
         /\ \A i \in DOMAIN queue : i # 1 => i - 1 \in DOMAIN queue' /\ queue'[i - 1] = queue[i]
  OBVIOUS

\* The ways a step changes the queue.
SameEvents ==
  /\ DOMAIN queue' = DOMAIN queue
  /\ \A i \in DOMAIN queue : /\ queue'[i].do = queue[i].do
                             /\ queue[i].do = "event" => queue'[i].ev = queue[i].ev
                             /\ queue[i].do = "flush" => queue'[i].by \in {queue[i].by, Nobody}
Appended == \E c \in Command : queue' = Append(queue, c) /\ (c.do = "flush" => SendFlush(c.by))
Emptied == queue' = <<>> /\ \A f \in Queued : Settled(f)'

LEMMA QueuedEvents ==
  ASSUME TypeOK
  PROVE  Queued \subseteq Event /\ InHand \subseteq Event
  BY QueueCases, WorkerCases DEF Queued, InHand, TypeOK

LEMMA QueueSteps ==
  ASSUME TypeOK, Holding, Next
  PROVE  \/ queue' = queue \/ SameEvents \/ Appended \/ TakeEvent \/ TakeFlush \/ Emptied
<1>1. ASSUME NEW t \in Caller, CallerStep(t), ~Store(t)
      PROVE  queue' = queue \/ SameEvents \/ Appended
  <2>1. CASE Enqueue(t)
    <3>1. [do |-> "event", ev |-> caller[t].ev] \in Command
      BY <2>1, CallerCases DEF Enqueue, TypeOK, Command
    <3>2. QED
      BY <2>1, <3>1 DEF Enqueue, Appended
  <2>2. CASE SendFlush(t)
    <3>1. [do |-> "flush", by |-> t] \in Command
      BY DEF Command, Listener
    <3>2. queue' = Append(queue, [do |-> "flush", by |-> t])
      BY <2>2 DEF SendFlush
    <3>3. [do |-> "flush", by |-> t].by = t
      OBVIOUS
    <3>4. QED
      BY <2>2, <3>1, <3>2, <3>3 DEF Appended
  <2>3. CASE SendStop(t)
    <3>1. [do |-> "shutdown"] \in Command
      BY DEF Command
    <3>2. QED
      BY <2>3, <3>1 DEF SendStop, Appended
  <2>4. CASE AbandonFlush(t)
    BY <2>4, QueueCases DEF AbandonFlush, Unheard, SameEvents, TypeOK
  <2>5. QED
    BY <1>1, <2>1, <2>2, <2>3, <2>4
       DEF CallerStep, BeginCapture, Spill, CaptureStopped, BeginFlush, BeginStop, Join, AwaitExit, Proceed
<1>2. CASE \E p \in Caller \cup {Sender} : Store(p)
  BY <1>2, StoreFrame
<1>3. CASE TakeShutdown \/ Crash
  <2>1. ASSUME NEW f \in Queued
        PROVE  Settled(f)'
    <3>1. fate'[f] = First(f, "lost")
      BY <1>3, QueuedEvents DEF TakeShutdown, Crash
    <3>2. QED
      BY <3>1 DEF First, Settled
  <2>2. QED
    BY <1>3, <2>1 DEF TakeShutdown, Crash, Emptied
<1>4. QED
  BY <1>1, <1>2, <1>3
     DEF Next, SenderStep, IdleDrain, DrainEmpty, DrainEnds, DrainNext, PostDelivered, PostRejected,
         PostFails, RemoveFile

LEMMA QueuedMoves ==
  ASSUME TypeOK, Holding, Next, NEW f \in Queued
  PROVE  f \in Queued' \/ f \in InHand' \/ Settled(f)'
<1>1. PICK i \in DOMAIN queue : queue[i].do = "event" /\ queue[i].ev = f
  BY DEF Queued
<1>2. CASE queue' = queue
  BY <1>2 DEF Queued
<1>3. CASE SameEvents
  BY <1>1, <1>3 DEF SameEvents, Queued
<1>4. CASE Appended
  BY <1>1, <1>4, AppendQueue DEF Appended, Queued, TypeOK
<1>5. CASE TakeEvent \/ TakeFlush
  <2>1. queue # <<>> /\ queue' = Tail(queue) /\ queue \in Seq(Command)
    BY <1>5 DEF TakeEvent, TakeFlush, TypeOK
  <2>2. CASE i = 1
    <3>1. TakeEvent /\ Head(queue).ev = f
      BY <1>1, <1>5, <2>1, <2>2, TailQueue, SMTT(30) DEF TakeEvent, TakeFlush
    <3>2. QED
      BY <3>1 DEF TakeEvent, InHand
  <2>3. CASE i # 1
    BY <1>1, <2>1, <2>3, TailQueue DEF Queued
  <2>4. QED
    BY <2>2, <2>3
<1>6. CASE Emptied
  BY <1>6 DEF Emptied
<1>7. QED
  BY <1>2, <1>3, <1>4, <1>5, <1>6, QueueSteps

LEMMA HandStays ==
  ASSUME TypeOK, Holding, Handling, Next, NEW f \in InHand
  PROVE  Safe(f)' \/ f \in InHand'
<1>1. worker.at \in {"post", "store"} /\ f = worker.ev /\ f \in Event
  BY QueuedEvents DEF InHand
<1>2. ASSUME NEW t \in Caller, CallerStep(t), ~Store(t)
      PROVE  f \in InHand'
  <2>1. CASE AbandonFlush(t)
    BY <1>1, <2>1, WorkerCases DEF AbandonFlush, InHand, TypeOK
  <2>2. CASE ~AbandonFlush(t)
    <3>1. worker' = worker
      BY <1>2, <2>2
         DEF CallerStep, BeginCapture, Enqueue, Spill, CaptureStopped, BeginFlush, SendFlush,
             BeginStop, SendStop, Join, AwaitExit, Proceed
    <3>2. QED
      BY <3>1 DEF InHand
  <2>3. QED
    BY <2>1, <2>2
<1>3. ASSUME NEW p \in Caller \cup {Sender}, Store(p)
      PROVE  Safe(f)' \/ f \in InHand'
  <2>1. CASE worker' = worker
    BY <2>1 DEF InHand
  <2>2. CASE worker' # worker
    <3>1. p = Sender
      BY <1>3, <2>2, StoreFrame
    <3>2. PICK e \in Event :
            \/ StoreFails(p, e) \/ StoreFile(p, e) \/ Measure(p, e)
            \/ Evict(p, e) \/ StoreEnds(p, e) \/ StoreDisturbed(p, e)
      BY <1>3, StoreSteps
    <3>3. CASE StoreFails(p, e)
      BY <1>1, <3>1, <3>3, FatedSettles DEF StoreFails, Stores, Safe
    <3>4. CASE StoreEnds(p, e) \/ StoreDisturbed(p, e)
      <4>1. spoolLock # Unlocked /\ spoolLock.by = Sender
        BY <3>1, <3>4, LockCases DEF StoreEnds, StoreDisturbed, TypeOK
      <4>2. Safe(f)
        BY <1>1, <4>1 DEF Holding, Stores
      <4>3. QED
        BY <1>1, <1>3, <4>2, SafeInStore
    <3>5. QED
      BY <2>2, <3>2, <3>3, <3>4 DEF StoreFile, Measure, Evict
  <2>3. QED
    BY <2>1, <2>2
<1>4. CASE PostDelivered \/ PostRejected
  BY <1>1, <1>4, FatedSettles DEF PostDelivered, PostRejected, Safe
<1>5. CASE PostFails
  <2>1. CASE worker.from = "queue"
    BY <1>1, <1>5, <2>1 DEF PostFails, Retry, InHand
  <2>2. CASE worker.from # "queue"
    <3>1. Safe(f)
      BY <1>1, <1>5, <2>2, WorkerCases DEF PostFails, Handling, TypeOK
    <3>2. QED
      BY <1>1, <3>1, SafeStays
  <2>3. QED
    BY <2>1, <2>2
<1>6. CASE Crash
  <2>1. fate'[f] = First(f, "lost")
    BY <1>1, <1>6 DEF Crash
  <2>2. QED
    BY <2>1 DEF First, Settled, Safe
<1>7. ~TakeEvent /\ ~TakeFlush /\ ~TakeShutdown /\ ~IdleDrain
  BY <1>1 DEF TakeEvent, TakeFlush, TakeShutdown, IdleDrain
<1>8. ~DrainEmpty /\ ~DrainEnds /\ ~DrainNext /\ ~RemoveFile
  BY <1>1 DEF DrainEmpty, DrainEnds, DrainNext, RemoveFile
<1>9. QED
  BY <1>2, <1>3, <1>4, <1>5, <1>6, <1>7, <1>8 DEF Next, SenderStep, CallerStep

LEMMA KeptStays ==
  ASSUME TypeOK, Holding, Handling, Next, NEW f \in Event, Kept(f)
  PROVE  Kept(f)'
<1>1. CASE Safe(f)
  BY <1>1, SafeStays DEF Kept
<1>2. CASE f \in InHand
  BY <1>2, HandStays DEF Kept
<1>3. CASE f \in Queued
  <2>1. f \in Queued' \/ f \in InHand' \/ Settled(f)'
    BY <1>3, QueuedMoves
  <2>2. QED
    BY <2>1 DEF Kept, Safe
<1>4. QED
  BY <1>1, <1>2, <1>3 DEF Kept

\* A capture returns Ok with its event in the queue or at the end of its own store.
LEMMA OkComes ==
  ASSUME TypeOK, Next, NEW e \in Event, answer'[e] = "ok", answer[e] # "ok"
  PROVE  \/ \E t \in Caller : Enqueue(t) /\ caller[t].ev = e
         \/ \E t \in Caller : StoreEnds(t, e)
<1>1. ASSUME NEW t \in Caller, CallerStep(t), ~Store(t)
      PROVE  Enqueue(t) /\ caller[t].ev = e
  <2>0. answer \in [Event -> {"none", "asked", "ok", "error"}]
    BY DEF TypeOK
  <2>1. ASSUME NEW f \in Event, BeginCapture(t, f)
        PROVE  FALSE
    BY <2>0, <2>1 DEF BeginCapture
  <2>2. CASE Enqueue(t) \/ CaptureStopped(t)
    BY <1>1, <2>0, <2>2 DEF Enqueue, CaptureStopped, Returns
  <2>3. CASE Spill(t) \/ BeginFlush(t) \/ SendFlush(t) \/ AbandonFlush(t)
             \/ BeginStop(t) \/ SendStop(t) \/ Join(t) \/ AwaitExit(t) \/ Proceed(t)
    BY <2>3 DEF Spill, BeginFlush, SendFlush, AbandonFlush, BeginStop, SendStop, Join, AwaitExit, Proceed
  <2>4. QED
    BY <1>1, <2>1, <2>2, <2>3 DEF CallerStep
<1>2. ASSUME NEW p \in Caller \cup {Sender}, Store(p)
      PROVE  p \in Caller /\ StoreEnds(p, e)
  <2>1. PICK f \in Event :
          \/ StoreFails(p, f) \/ StoreFile(p, f) \/ Measure(p, f)
          \/ Evict(p, f) \/ StoreEnds(p, f) \/ StoreDisturbed(p, f)
    BY <1>2, StoreSteps
  <2>2. StoreEnds(p, f) /\ f = e
    BY <2>1
       DEF StoreFails, StoreFile, Measure, Evict, StoreEnds, StoreDisturbed, StoreReturns, Returns, appVars,
           TypeOK
  <2>3. p # Sender
    BY <2>2 DEF StoreEnds, StoreReturns
  <2>4. QED
    BY <2>2, <2>3
<1>3. CASE SenderStep /\ ~Store(Sender)
  BY <1>3
     DEF SenderStep, TakeEvent, TakeFlush, TakeShutdown, IdleDrain, DrainEmpty, DrainEnds, DrainNext,
         PostDelivered, PostRejected, PostFails, RemoveFile, appVars
<1>4. CASE Crash
  BY <1>4 DEF Crash, TypeOK
<1>5. QED
  BY <1>1, <1>2, <1>3, <1>4 DEF Next

LEMMA NewlyOk ==
  ASSUME TypeOK, Holding, Handling, Next, NEW e \in Event, answer'[e] = "ok", answer[e] # "ok"
  PROVE  Kept(e)'
<1>1. ASSUME NEW t \in Caller, Enqueue(t), caller[t].ev = e
      PROVE  Kept(e)'
  <2>1. [do |-> "event", ev |-> e] \in Command
    BY DEF Command
  <2>2. queue' = Append(queue, [do |-> "event", ev |-> e]) /\ queue \in Seq(Command)
    BY <1>1 DEF Enqueue, TypeOK
  <2>3. Len(queue) + 1 \in DOMAIN queue' /\ queue'[Len(queue) + 1] = [do |-> "event", ev |-> e]
    BY <2>1, <2>2, AppendQueue
  <2>4. QED
    BY <2>3 DEF Kept, Queued
<1>2. ASSUME NEW t \in Caller, StoreEnds(t, e)
      PROVE  Kept(e)'
  <2>1. spoolLock # Unlocked /\ spoolLock.ev = e
    BY <1>2, LockCases DEF StoreEnds, TypeOK
  <2>2. Safe(e)'
    BY <2>1, SafeStays DEF Holding
  <2>3. QED
    BY <2>2 DEF Kept
<1>3. QED
  BY <1>1, <1>2, OkComes

LEMMA OkIsKept ==
  ASSUME NothingVanishes, NEW e \in Ok
  PROVE  Kept(e)
  BY DEF NothingVanishes, Kept, Safe

LEMMA NothingVanishesNext ==
  ASSUME TypeOK, Holding, Handling, NothingVanishes, Next
  PROVE  NothingVanishes'
<1>1. ASSUME NEW e \in Event, answer'[e] = "ok"
      PROVE  Kept(e)'
  <2>1. CASE answer[e] = "ok"
    BY <2>1, OkIsKept, KeptStays DEF Ok
  <2>2. CASE answer[e] # "ok"
    BY <1>1, <2>2, NewlyOk
  <2>3. QED
    BY <2>1, <2>2
<1>2. QED
  BY <1>1 DEF NothingVanishes, Ok, Kept, Safe
-----------------------------------------------------------------------------
(* What is owed to a thread. *)

Pending == {"flush", "stop", "join", "wait"}

LEMMA CallerChanges ==
  ASSUME TypeOK, Waiting, Holding, Next, NEW t \in Caller
  PROVE  \/ caller'[t] = caller[t]
         \/ caller'[t].at \in {"ready", "capture", "spill"}
         \/ caller'[t].at \in {"flush", "stop"} /\ caller'[t].owed = Owed
         \/ SendFlush(t) /\ caller'[t].at = "waitFlush" /\ caller'[t].owed = caller[t].owed
         \/ /\ caller[t].at \in {"stop", "join"} /\ caller'[t].at \in {"join", "wait"}
            /\ caller'[t].owed = caller[t].owed
         \/ caller'[t].at = "stopped" /\ ~caller'[t].waited
         \/ /\ AwaitExit(t) /\ caller'[t].at = "stopped" /\ caller'[t].owed = caller[t].owed
            /\ UNCHANGED <<stamp, fate>>
         \/ /\ Draining /\ worker.by = t
            /\ caller'[t].at = "flushed" /\ caller'[t].owed = caller[t].owed
            /\ ~caller'[t].left => Spooled = {}
<1>1. ASSUME NEW u \in Caller, CallerStep(u), u # t
      PROVE  caller'[t] = caller[t]
  <2>1. CASE Store(u)
    BY <1>1, <2>1, StoreFrame, ZenonT(30) DEF TypeOK
  <2>0. caller \in [Caller -> Calling]
    BY DEF TypeOK
  <2>2. ASSUME NEW e \in Event, BeginCapture(u, e)
        PROVE  caller'[t] = caller[t]
    BY <1>1, <2>0, <2>2 DEF BeginCapture
  <2>3. CASE Enqueue(u) \/ Spill(u) \/ CaptureStopped(u)
    BY <1>1, <2>0, <2>3 DEF Enqueue, Spill, CaptureStopped, Returns
  <2>4. CASE BeginFlush(u) \/ SendFlush(u) \/ AbandonFlush(u) \/ BeginStop(u) \/ SendStop(u)
    BY <1>1, <2>0, <2>4 DEF BeginFlush, SendFlush, AbandonFlush, BeginStop, SendStop
  <2>5. CASE Join(u) \/ AwaitExit(u) \/ Proceed(u)
    BY <1>1, <2>0, <2>5 DEF Join, AwaitExit, HasStopped, Proceed
  <2>6. QED
    BY <1>1, <2>1, <2>2, <2>3, <2>4, <2>5 DEF CallerStep
<1>2. CASE CallerStep(t)
  <2> USE CallerCases
  <2>1. CASE Store(t)
    BY <2>1, StoreFrame DEF TypeOK
  <2>2. CASE \E e \in Event : BeginCapture(t, e)
    BY <2>2 DEF BeginCapture, TypeOK
  <2>3. CASE Enqueue(t) \/ Spill(t) \/ CaptureStopped(t) \/ AbandonFlush(t) \/ Proceed(t)
    BY <2>3 DEF Enqueue, Spill, CaptureStopped, AbandonFlush, Proceed, Returns, TypeOK
  <2>4. CASE BeginFlush(t) \/ BeginStop(t)
    BY <2>4 DEF BeginFlush, BeginStop, TypeOK
  <2>5. CASE SendFlush(t)
    BY <2>5 DEF SendFlush, TypeOK
  <2>6. CASE SendStop(t)
    BY <2>6 DEF SendStop, TypeOK
  <2>7. CASE Join(t)
    BY <2>7 DEF Join, HasStopped, TypeOK
  <2>8. CASE AwaitExit(t)
    BY <2>8 DEF AwaitExit, HasStopped, TypeOK
  <2>9. QED
    BY <1>2, <2>1, <2>2, <2>3, <2>4, <2>5, <2>6, <2>7, <2>8 DEF CallerStep
<1>3. CASE Store(Sender)
  BY <1>3, StoreFrame
<1>4. ASSUME NEW left \in BOOLEAN, Draining, Report(worker.by, left), ~left => Spooled = {}
      PROVE  \/ caller'[t] = caller[t]
             \/ /\ worker.by = t /\ caller'[t].at = "flushed" /\ caller'[t].owed = caller[t].owed
                /\ ~caller'[t].left => Spooled = {}
  BY <1>4, ReporterWaits DEF Report, TypeOK, Listener
<1>5. CASE TakeEvent \/ TakeFlush \/ TakeShutdown \/ IdleDrain \/ DrainNext \/ PostDelivered \/ PostRejected
           \/ RemoveFile
  BY <1>5 DEF TakeEvent, TakeFlush, TakeShutdown, IdleDrain, DrainNext, PostDelivered, PostRejected,
              RemoveFile, appVars
<1>6. CASE DrainEmpty
  BY <1>4, <1>6 DEF DrainEmpty, Draining
<1>7. CASE DrainEnds
  BY <1>4, <1>7 DEF DrainEnds, Draining
<1>8. CASE PostFails
  <2>1. CASE worker.from = "queue"
    BY <1>8, <2>1 DEF PostFails, Retry
  <2>2. CASE worker.from # "queue"
    <3>1. Draining /\ Report(worker.by, Spooled # {})
      BY <1>8, <2>2, WorkerCases DEF PostFails, Retry, Draining, TypeOK
    <3>2. QED
      BY <1>4, <3>1
  <2>3. QED
    BY <2>1, <2>2
<1>9. CASE Crash
  BY <1>9 DEF Crash
<1>10. QED
  BY <1>1, <1>2, <1>3, <1>5, <1>6, <1>7, <1>8, <1>9 DEF Next, SenderStep

\* The flush a thread waits for loses nothing that is ahead of it.
LEMMA AheadMoves ==
  ASSUME TypeOK, Holding, Next, NEW t \in Caller, ~SendFlush(t), NEW i \in FlushOf(t)'
  PROVE  \E i0 \in FlushOf(t) : \A f \in Ahead(i0) : f \in Ahead(i)' \/ f \in InHand'
<1>1. queue \in Seq(Command) /\ i \in DOMAIN queue' /\ queue'[i].do = "flush" /\ queue'[i].by = t
  BY DEF FlushOf, TypeOK
<1>2. CASE queue' = queue
  BY <1>2 DEF FlushOf, Ahead
<1>3. CASE SameEvents
  <2>1. i \in FlushOf(t)
    BY <1>1, <1>3 DEF SameEvents, FlushOf
  <2>2. \A j \in 1 .. i - 1 : j \in DOMAIN queue
    BY <1>1, <1>3 DEF SameEvents
  <2>3. \A f \in Ahead(i) : f \in Ahead(i)'
    BY <1>3, <2>2 DEF SameEvents, Ahead
  <2>4. QED
    BY <2>1, <2>3
<1>4. CASE Appended
  <2>1. PICK c \in Command : queue' = Append(queue, c) /\ (c.do = "flush" => SendFlush(c.by))
    BY <1>4 DEF Appended
  <2>2. /\ Len(queue) \in Nat /\ DOMAIN queue = 1 .. Len(queue) /\ DOMAIN queue' = 1 .. Len(queue) + 1
        /\ queue'[Len(queue) + 1] = c
        /\ \A j \in DOMAIN queue : queue'[j] = queue[j]
    BY <1>1, <2>1, AppendQueue
  <2>3. i \in DOMAIN queue
    BY <1>1, <2>1, <2>2
  <2>4. i \in FlushOf(t) /\ \A j \in 1 .. i - 1 : j \in DOMAIN queue
    BY <1>1, <2>2, <2>3 DEF FlushOf
  <2>5. \A f \in Ahead(i) : f \in Ahead(i)'
    BY <2>2, <2>4 DEF Ahead
  <2>6. QED
    BY <2>4, <2>5
<1>5. CASE TakeEvent \/ TakeFlush
  <2>1. queue # <<>> /\ queue' = Tail(queue) /\ worker = Recv
    BY <1>5 DEF TakeEvent, TakeFlush
  <2>2. i \in Nat /\ i + 1 \in FlushOf(t)
    BY <1>1, <2>1, TailFlushOf DEF Listener
  <2>3. ASSUME NEW f \in Ahead(i + 1)
        PROVE  f \in Ahead(i)' \/ f \in InHand'
    <3>1. PICK j \in 1 .. i : queue[j].do = "event" /\ queue[j].ev = f
      BY <2>2 DEF Ahead
    <3>2. j \in DOMAIN queue
      BY <1>1, <2>2, <3>1 DEF FlushOf
    <3>3. CASE j = 1
      <4>1. TakeEvent /\ Head(queue).ev = f
        BY <1>1, <1>5, <2>1, <3>1, <3>3, TailQueue DEF TakeEvent, TakeFlush
      <4>2. QED
        BY <4>1 DEF TakeEvent, InHand
    <3>4. CASE j # 1
      <4>1. queue'[j - 1] = queue[j] /\ j - 1 \in 1 .. i - 1
        BY <1>1, <2>1, <2>2, <3>1, <3>2, <3>4, TailQueue
      <4>2. QED
        BY <3>1, <4>1 DEF Ahead
    <3>5. QED
      BY <3>3, <3>4
  <2>4. QED
    BY <2>2, <2>3
<1>6. CASE Emptied
  BY <1>1, <1>6 DEF Emptied
<1>7. QED
  BY <1>2, <1>3, <1>4, <1>5, <1>6, QueueSteps

\* The sender begins to work for a thread by taking its flush.
LEMMA DrainingMoves ==
  ASSUME TypeOK, Holding, Next, NEW t \in Caller, Draining', worker'.by = t
  PROVE  (Draining /\ worker.by = t) \/ (TakeFlush /\ Head(queue).by = t)
<1>1. CASE worker' = worker
  BY <1>1 DEF Draining
<1>2. ASSUME NEW u \in Caller, CallerStep(u), ~Store(u), worker' # worker
      PROVE  Draining /\ worker.by = t
  <2>1. AbandonFlush(u)
    BY <1>2
       DEF CallerStep, BeginCapture, Enqueue, Spill, CaptureStopped, BeginFlush, SendFlush,
           BeginStop, SendStop, Join, AwaitExit, Proceed
  <2>2. QED
    BY <2>1, WorkerCases DEF AbandonFlush, Draining, Unheard, TypeOK
<1>3. CASE \E p \in Caller \cup {Sender} : Store(p)
  BY <1>1, <1>3, StoreFrame DEF Draining
<1>4. CASE SenderStep /\ ~Store(Sender)
  BY <1>4, WorkerCases
     DEF SenderStep, TakeEvent, TakeFlush, TakeShutdown, IdleDrain, DrainEmpty, DrainEnds, DrainNext,
         PostDelivered, PostRejected, AfterPost, PostFails, Retry, Report, RemoveFile, Draining, TypeOK
<1>5. CASE Crash
  BY <1>5 DEF Crash, Draining
<1>6. QED
  BY <1>1, <1>2, <1>3, <1>4, <1>5 DEF Next, CallerStep

LEMMA PendingNext ==
  ASSUME TypeOK, Waiting, Holding, Handling, Promised, NothingVanishes, Next,
         NEW t \in Caller, caller'[t].at \in Pending, NEW e \in caller'[t].owed, e \in Event
  PROVE  Kept(e)'
<1>1. CASE caller[t].at \in Pending /\ caller'[t].owed = caller[t].owed
  BY <1>1, KeptStays DEF Promised, Pending
<1>2. CASE caller'[t].owed = Owed
  BY <1>2, OkIsKept, KeptStays DEF Owed
<1>3. QED
  BY <1>1, <1>2, CallerChanges DEF Pending

\* Who waits for a flush waited before, or has just sent it.
LEMMA WaiterMoves ==
  ASSUME TypeOK, Waiting, Holding, Next, NEW t \in Caller, caller'[t].at = "waitFlush"
  PROVE  caller'[t].owed = caller[t].owed /\ (SendFlush(t) \/ caller'[t] = caller[t])
  BY CallerChanges

LEMMA QueuedFlushNext ==
  ASSUME TypeOK, Waiting, Holding, Handling, Promised, Next, NEW t \in Caller,
         NEW i \in FlushOf(t)', NEW e \in caller[t].owed, e \in Event
  PROVE  Safe(e)' \/ e \in InHand' \/ e \in Ahead(i)'
<1>1. CASE SendFlush(t)
  <2>1. [do |-> "flush", by |-> t] \in Command /\ t \in Listener
    BY DEF Command, Listener
  <2>2. queue' = Append(queue, [do |-> "flush", by |-> t]) /\ queue \in Seq(Command)
    BY <1>1 DEF SendFlush, TypeOK
  <2>3. FlushOf(t) = {}
    BY <1>1 DEF SendFlush, Waiting
  <2>4. i = Len(queue) + 1
    BY <2>1, <2>2, <2>3, AppendFlushOf
  <2>5. Len(queue) \in Nat /\ DOMAIN queue = 1 .. Len(queue) /\ \A j \in DOMAIN queue : queue'[j] = queue[j]
    BY <2>1, <2>2, AppendQueue
  <2>6. Queued \subseteq Ahead(i)'
    BY <2>4, <2>5 DEF Queued, Ahead
  <2>7. Kept(e)
    BY <1>1 DEF SendFlush, Promised
  <2>8. InHand' = InHand /\ (Safe(e)' <=> Safe(e))
    BY <1>1 DEF SendFlush, InHand, Safe, Settled, Spooled
  <2>9. QED
    BY <2>6, <2>7, <2>8 DEF Kept
<1>2. CASE ~SendFlush(t)
  <2>1. PICK i0 \in FlushOf(t) : \A f \in Ahead(i0) : f \in Ahead(i)' \/ f \in InHand'
    BY <1>2, AheadMoves
  <2>2. Safe(e) \/ e \in InHand \/ e \in Ahead(i0)
    BY DEF Promised
  <2>3. QED
    BY <2>1, <2>2, SafeStays, HandStays
<1>3. QED
  BY <1>1, <1>2

LEMMA DrainingNext ==
  ASSUME TypeOK, Waiting, Holding, Handling, Promised, Next, NEW t \in Caller,
         Draining', worker'.by = t, NEW e \in caller[t].owed, e \in Event
  PROVE  Safe(e)'
<1>1. CASE Draining /\ worker.by = t
  BY <1>1, SafeStays DEF Promised
<1>2. CASE TakeFlush /\ Head(queue).by = t
  <2>1. 1 \in FlushOf(t) /\ worker = Recv
    BY <1>2 DEF TakeFlush, FlushOf, TypeOK
  <2>2. Ahead(1) = {} /\ InHand = {}
    BY <2>1 DEF Ahead, InHand
  <2>3. Safe(e)
    BY <2>1, <2>2 DEF Promised
  <2>4. QED
    BY <2>3, SafeStays
<1>3. QED
  BY <1>1, <1>2, DrainingMoves

LEMMA OwedEvents ==
  ASSUME TypeOK, NEW t \in Caller,
         caller[t].at \in Pending \cup {"waitFlush", "flushed", "stopped"}
  PROVE  caller[t].owed \subseteq Event
  BY CallerCases DEF TypeOK, Pending

LEMMA OwedOfCalling ==
  ASSUME NEW c \in Calling, c.at \in Pending \cup {"waitFlush"}
  PROVE  c.owed \subseteq Event
  BY DEF Calling, Pending

LEMMA PromisedNext ==
  ASSUME TypeOK, TypeOK', Waiting, Waiting', Holding, Handling, Promised, NothingVanishes, Next
  PROVE  Promised'
<1> SUFFICES ASSUME NEW t \in Caller
             PROVE  /\ caller'[t].at \in Pending => \A e \in caller'[t].owed : Kept(e)'
                    /\ \A i \in FlushOf(t)' : \A e \in caller'[t].owed : Safe(e)' \/ e \in (InHand \cup Ahead(i))'
                    /\ Draining' /\ worker'.by = t => \A e \in caller'[t].owed : Safe(e)'
  BY DEF Promised, Pending
<1>1. caller'[t].at \in Pending \cup {"waitFlush"} => caller'[t].owed \subseteq Event
  <2>1. caller'[t] \in Calling
    BY DEF TypeOK
  <2>2. QED
    BY <2>1, OwedOfCalling
<1>2. ASSUME caller'[t].at \in Pending
      PROVE  \A e \in caller'[t].owed : Kept(e)'
  BY <1>1, <1>2, PendingNext
<1>3. FlushOf(t)' # {} => caller'[t].at = "waitFlush"
  BY DEF Waiting
<1>4. Draining' /\ worker'.by = t => caller'[t].at = "waitFlush"
  BY DEF Waiting
<1>5. caller'[t].at = "waitFlush" => caller'[t].owed = caller[t].owed
  BY WaiterMoves
<1>6. ASSUME NEW i \in FlushOf(t)', NEW e \in caller'[t].owed
      PROVE  Safe(e)' \/ e \in (InHand \cup Ahead(i))'
  BY <1>1, <1>3, <1>5, <1>6, QueuedFlushNext
<1>7. ASSUME Draining', worker'.by = t, NEW e \in caller'[t].owed
      PROVE  Safe(e)'
  BY <1>1, <1>4, <1>5, <1>7, DrainingNext
<1>8. QED
  BY <1>2, <1>6, <1>7

LEMMA FlushCoversNext ==
  ASSUME TypeOK, Waiting, Holding, Handling, Promised, FlushCovers, Next
  PROVE  FlushCovers'
<1> SUFFICES ASSUME NEW t \in Caller, caller'[t].at = "flushed", ~caller'[t].left, NEW e \in caller'[t].owed
             PROVE  Settled(e)'
  BY DEF FlushCovers
<1>1. CASE caller'[t] = caller[t]
  <2>1. e \in Event /\ Settled(e)
    BY <1>1, OwedEvents DEF FlushCovers
  <2>2. QED
    BY <2>1, SafeStays
<1>2. CASE Draining /\ worker.by = t /\ caller'[t].owed = caller[t].owed /\ Spooled = {}
  <2>1. caller[t].at = "waitFlush" /\ Safe(e)
    BY <1>2 DEF Waiting, Promised
  <2>2. e \in Event /\ Settled(e)
    BY <1>2, <2>1, OwedEvents DEF Safe
  <2>3. QED
    BY <2>2, SafeStays
<1>3. QED
  BY <1>1, <1>2, CallerChanges

LEMMA WaitersNext ==
  ASSUME TypeOK, Waiting, Holding, Handling, Promised, WaitersSeeItDone, Next
  PROVE  WaitersSeeItDone'
<1> SUFFICES ASSUME NEW t \in Caller, caller'[t].at = "stopped", caller'[t].waited, NEW e \in caller'[t].owed
             PROVE  Safe(e)'
  BY DEF WaitersSeeItDone, Attempted, Safe
<1>1. CASE caller'[t] = caller[t]
  <2>1. e \in Event /\ Safe(e)
    BY <1>1, OwedEvents DEF WaitersSeeItDone, Attempted, Safe
  <2>2. QED
    BY <2>1, SafeStays
<1>2. CASE AwaitExit(t) /\ caller'[t].owed = caller[t].owed
  <2>1. caller[t].at = "wait" /\ worker.at = "stopped"
    BY <1>2 DEF AwaitExit
  <2>2. Queued = {} /\ InHand = {}
    BY <2>1 DEF Handling, Queued, InHand
  <2>3. e \in Event /\ Kept(e)
    BY <1>2, <2>1, OwedEvents DEF Promised, Pending
  <2>4. Safe(e)
    BY <2>2, <2>3 DEF Kept
  <2>5. QED
    BY <2>3, <2>4, SafeStays
<1>3. QED
  BY <1>1, <1>2, CallerChanges
-----------------------------------------------------------------------------
(* The properties, together with what they rest on, hold at first and after every *)
(* step.                                                                          *)

IInv == /\ TypeOK /\ Waiting /\ Holding /\ Handling
        /\ Promised /\ NothingVanishes /\ FlushCovers /\ WaitersSeeItDone

LEMMA IInvInit ==
  ASSUME Init
  PROVE  IInv
<1>1. TypeOK
  BY TypeOKInit
<1>2. Waiting /\ Promised
  BY DEF Init, Waiting, Promised, FlushOf, Draining
<1>3. Holding /\ Handling
  BY DEF Init, Holding, Handling
<1>4. NothingVanishes /\ FlushCovers /\ WaitersSeeItDone
  BY DEF Init, NothingVanishes, Ok, FlushCovers, WaitersSeeItDone
<1>5. QED
  BY <1>1, <1>2, <1>3, <1>4 DEF IInv

LEMMA TypeOKNext ==
  ASSUME TypeOK, Waiting, Next
  PROVE  TypeOK'
<1>1. CASE \E t \in Caller : CallerStep(t)
  BY <1>1, TypeOKCaller, TypeOKAbandon, TypeOKStore DEF CallerStep
<1>2. CASE SenderStep
  BY <1>2, TypeOKSender, TypeOKStore DEF SenderStep
<1>3. CASE Crash
  BY <1>3, TypeOKCrash
<1>4. QED
  BY <1>1, <1>2, <1>3 DEF Next

LEMMA IInvNext ==
  ASSUME IInv, [Next]_vars
  PROVE  IInv'
<1>1. CASE Next
  <2>1. TypeOK'
    BY <1>1, TypeOKNext DEF IInv
  <2>2. Waiting'
    BY <1>1, WaitingThread, WaitingSenderStep, WaitingCrash DEF IInv, Next
  <2>3. Holding'
    BY <1>1, HoldingNext DEF IInv
  <2>4. Handling'
    BY <1>1, HandlingNext DEF IInv
  <2>5. Promised'
    BY <1>1, <2>1, <2>2, PromisedNext DEF IInv
  <2>6. NothingVanishes'
    BY <1>1, NothingVanishesNext DEF IInv
  <2>7. FlushCovers'
    BY <1>1, FlushCoversNext DEF IInv
  <2>8. WaitersSeeItDone'
    BY <1>1, WaitersNext DEF IInv
  <2>9. QED
    BY <2>1, <2>2, <2>3, <2>4, <2>5, <2>6, <2>7, <2>8 DEF IInv
<1>2. CASE UNCHANGED vars
  <2>1. TypeOK' /\ Holding' /\ Handling'
    BY <1>2 DEF IInv, vars, TypeOK, Holding, Handling, Stores, Safe, Settled, Spooled
  <2>2. Waiting' /\ Promised'
    BY <1>2 DEF IInv, vars, Waiting, Promised, FlushOf, Draining, Kept, Safe, Settled, Spooled, Queued,
                InHand, Ahead
  <2>3. NothingVanishes' /\ FlushCovers' /\ WaitersSeeItDone'
    BY <1>2 DEF IInv, vars, NothingVanishes, Ok, FlushCovers, WaitersSeeItDone, Attempted, Settled, Spooled,
                Queued, InHand
  <2>4. QED
    BY <2>1, <2>2, <2>3 DEF IInv
<1>3. QED
  BY <1>1, <1>2

LEMMA IInvHolds == Spec => []IInv
<1>1. Init => IInv
  BY IInvInit
<1>2. IInv /\ [Next]_vars => IInv'
  BY IInvNext
<1>3. QED
  BY <1>1, <1>2, PTL DEF Spec

\* Every state the threads, the sender and the spool reach has its type: the queue never
\* holds more than queue_capacity commands, whoever sends them.
THEOREM SdkTypeOK == Spec => []TypeOK
<1>1. IInv => TypeOK
  BY DEF IInv
<1>2. QED
  BY <1>1, IInvHolds, PTL

\* A thread waits for one flush at a time, and a report of the sender finds it waiting:
\* abandoning a flush leaves none behind, neither in the queue nor with the sender.
THEOREM SdkReportsFindTheirThread == Spec => []Waiting
<1>1. IInv => Waiting
  BY DEF IInv
<1>2. QED
  BY <1>1, IInvHolds, PTL

\* The event that is being stored under the mutex is on disk, or settled, until the store
\* ends, although the sender removes files without the mutex.
THEOREM SdkHolderIsSafe == Spec => []Holding
<1>1. IInv => Holding
  BY DEF IInv
<1>2. QED
  BY <1>1, IInvHolds, PTL

\* capture_event: an event that returned Ok is queued, in the sender's hand, in the spool,
\* or something has become of it.
THEOREM SdkNothingVanishes == Spec => []NothingVanishes
<1>1. IInv => NothingVanishes
  BY DEF IInv
<1>2. QED
  BY <1>1, IInvHolds, PTL

\* flush: a report that nothing is left covers what had been captured before the call.
THEOREM SdkFlushCovers == Spec => []FlushCovers
<1>1. IInv => FlushCovers
  BY DEF IInv
<1>2. QED
  BY <1>1, IInvHolds, PTL

\* shutdown: who has waited for the sender finds all it had captured attempted.
THEOREM SdkWaitersSeeItDone == Spec => []WaitersSeeItDone
<1>1. IInv => WaitersSeeItDone
  BY DEF IInv
<1>2. QED
  BY <1>1, IInvHolds, PTL
-----------------------------------------------------------------------------
(* What is in a hand, queued, on disk or settled was captured. *)

LEMMA AskedMoves ==
  ASSUME TypeOK, Holding, Next
  PROVE  \/ \A e \in Event : Asked(e)' <=> Asked(e)
         \/ \E d \in Event : Asked(d)' /\ \A e \in Event \ {d} : Asked(e)' <=> Asked(e)
<1>1. ASSUME NEW t \in Caller, CallerStep(t), ~Store(t)
      PROVE  \/ answer' = answer
             \/ \E d \in Event, a \in {"asked", "ok", "error"} : answer' = [answer EXCEPT ![d] = a]
  BY <1>1, CallerCases
     DEF CallerStep, BeginCapture, Enqueue, Spill, CaptureStopped, BeginFlush, SendFlush, AbandonFlush,
         BeginStop, SendStop, Join, AwaitExit, Proceed, Returns, TypeOK
<1>2. ASSUME NEW p \in Caller \cup {Sender}, Store(p)
      PROVE  \/ answer' = answer
             \/ \E d \in Event, a \in {"asked", "ok", "error"} : answer' = [answer EXCEPT ![d] = a]
  BY <1>2, StoreSteps
     DEF StoreFails, StoreFile, Measure, Evict, StoreEnds, StoreDisturbed, StoreReturns, Returns, appVars
<1>3. CASE SenderStep /\ ~Store(Sender)
  <2>1. answer' = answer
    BY <1>3
       DEF SenderStep, TakeEvent, TakeFlush, TakeShutdown, IdleDrain, DrainEmpty, DrainEnds, DrainNext,
           PostDelivered, PostRejected, PostFails, RemoveFile, appVars
  <2>2. QED
    BY <2>1 DEF Asked
<1>4. CASE Crash
  BY <1>4 DEF Crash, Asked, TypeOK
<1>5. CASE answer' = answer
  BY <1>5 DEF Asked
<1>6. CASE \E d \in Event, a \in {"asked", "ok", "error"} : answer' = [answer EXCEPT ![d] = a]
  BY <1>6 DEF Asked, TypeOK
<1>7. QED
  BY <1>1, <1>2, <1>3, <1>4, <1>5, <1>6 DEF Next

LEMMA AskedStays ==
  ASSUME TypeOK, Holding, Next, NEW e \in Event, Asked(e)
  PROVE  Asked(e)'
  BY AskedMoves

\* Nothing comes into the queue but by a capture.
LEMMA QueuedComes ==
  ASSUME TypeOK, Holding, Next, NEW f \in Queued'
  PROVE  f \in Queued \/ \E t \in Caller : Enqueue(t) /\ caller[t].ev = f
<1>1. PICK i \in DOMAIN queue' : queue'[i].do = "event" /\ queue'[i].ev = f
  BY DEF Queued
<1>2. CASE queue' = queue
  BY <1>2 DEF Queued
<1>3. CASE SameEvents
  BY <1>1, <1>3 DEF SameEvents, Queued
<1>4. CASE Appended
  <2>1. PICK c \in Command : queue' = Append(queue, c)
    BY <1>4 DEF Appended
  <2>2. CASE i \in DOMAIN queue
    BY <1>1, <2>1, <2>2, AppendQueue DEF Queued, TypeOK
  <2>3. CASE i \notin DOMAIN queue
    <3>1. c.do = "event" /\ c.ev = f /\ queue' # queue /\ Len(queue') # 0 /\ Len(queue') # Len(queue) - 1
      BY <1>1, <2>1, <2>3, AppendQueue DEF TypeOK
    <3>2. Len(queue') = Len(queue) + 1 /\ queue'[Len(queue) + 1] = c /\ Len(queue) \in Nat
      BY <2>1 DEF TypeOK
    <3>3. PICK t \in Caller : CallerStep(t) /\ ~Store(t)
      <4>1. ~Crash /\ ~Store(Sender) /\ ~(\E p \in Caller \cup {Sender} : Store(p)) /\ queue' # <<>>
        BY <3>1, <3>2, StoreFrame DEF Crash
      <4>2. ~TakeEvent /\ ~TakeFlush
        <5>1. queue # <<>> => Len(Tail(queue)) = Len(queue) - 1
          BY DEF TypeOK
        <5>2. QED
          BY <3>1, <5>1 DEF TakeEvent, TakeFlush
      <4>3. ~SenderStep
        BY <3>1, <4>1, <4>2
           DEF SenderStep, TakeShutdown, IdleDrain, DrainEmpty, DrainEnds, DrainNext,
               PostDelivered, PostRejected, PostFails, RemoveFile
      <4>4. QED
        BY <4>1, <4>3 DEF Next
    <3>4. ~SendFlush(t) /\ ~SendStop(t) /\ ~AbandonFlush(t)
      <4>1. ~AbandonFlush(t)
        BY <3>2 DEF AbandonFlush, TypeOK
      <4>2. [do |-> "flush", by |-> t].do # "event" /\ [do |-> "shutdown"].do # "event"
        OBVIOUS
      <4>3. ASSUME SendFlush(t) PROVE FALSE
        BY <3>1, <3>2, <4>2, <4>3 DEF SendFlush, TypeOK
      <4>4. ASSUME SendStop(t) PROVE FALSE
        BY <3>1, <3>2, <4>2, <4>4 DEF SendStop, TypeOK
      <4>5. QED
        BY <4>1, <4>3, <4>4
    <3>5. Enqueue(t)
      BY <3>1, <3>3, <3>4
         DEF CallerStep, BeginCapture, Spill, CaptureStopped, BeginFlush, BeginStop, Join, AwaitExit, Proceed
    <3>6. QED
      BY <3>1, <3>2, <3>5 DEF Enqueue, TypeOK
  <2>4. QED
    BY <2>2, <2>3
<1>5. CASE TakeEvent \/ TakeFlush
  <2>1. queue # <<>> /\ queue' = Tail(queue) /\ queue \in Seq(Command)
    BY <1>5 DEF TakeEvent, TakeFlush, TypeOK
  <2>2. i \in Nat /\ i + 1 \in DOMAIN queue /\ queue[i + 1] = queue'[i]
    BY <2>1
  <2>3. QED
    BY <1>1, <2>2 DEF Queued
<1>6. CASE Emptied
  BY <1>1, <1>6 DEF Emptied
<1>7. QED
  BY <1>2, <1>3, <1>4, <1>5, <1>6, QueueSteps

\* Nothing comes into the sender's hand but from the queue and the spool.
LEMMA HandComes ==
  ASSUME TypeOK, Holding, Next, NEW f \in InHand'
  PROVE  f \in Queued \cup InHand \/ (DrainNext /\ f \in Spooled)
<1>1. ASSUME NEW t \in Caller, CallerStep(t), ~Store(t)
      PROVE  f \in InHand
  <2>1. CASE AbandonFlush(t)
    BY <1>1, <2>1, WorkerCases DEF AbandonFlush, InHand, TypeOK
  <2>2. CASE ~AbandonFlush(t)
    BY <1>1, <2>2
       DEF CallerStep, BeginCapture, Enqueue, Spill, CaptureStopped, BeginFlush, SendFlush,
           BeginStop, SendStop, Join, AwaitExit, Proceed, InHand
  <2>3. QED
    BY <2>1, <2>2
<1>2. CASE \E p \in Caller \cup {Sender} : Store(p)
  BY <1>2, StoreFrame DEF InHand
<1>3. CASE TakeEvent
  <2>1. f = Head(queue).ev /\ queue[1].do = "event" /\ queue[1].ev = f /\ 1 \in DOMAIN queue
    BY <1>3 DEF TakeEvent, InHand, TypeOK
  <2>2. QED
    BY <2>1 DEF Queued
<1>4. CASE DrainNext
  BY <1>4 DEF DrainNext, Oldest, Files, Spooled, InHand
<1>5. CASE PostFails
  <2>1. InHand = {worker.ev}
    BY <1>5 DEF PostFails, InHand
  <2>2. QED
    BY <1>5, <2>1 DEF PostFails, Retry, Report, InHand
<1>6. CASE TakeFlush \/ TakeShutdown \/ IdleDrain \/ DrainEmpty \/ DrainEnds \/ PostDelivered \/ PostRejected
           \/ RemoveFile \/ Crash
  BY <1>6
     DEF TakeFlush, TakeShutdown, IdleDrain, DrainEmpty, DrainEnds, PostDelivered, PostRejected, AfterPost,
         RemoveFile, Crash, Report, InHand
<1>7. QED
  BY <1>1, <1>2, <1>3, <1>4, <1>5, <1>6 DEF Next, SenderStep

\* Nothing comes into the spool but by a store.
LEMMA SpooledComes ==
  ASSUME TypeOK, Next, NEW f \in Spooled'
  PROVE  f \in Spooled \/ \E p \in Caller \cup {Sender} : StoreFile(p, f)
<1>1. ASSUME NEW p \in Caller \cup {Sender}, NEW e \in Event, StoreFile(p, e)
      PROVE  f \in Spooled \/ StoreFile(p, f)
  <2>1. \E n : stamp' = [stamp EXCEPT ![e] = n]
    BY <1>1 DEF StoreFile
  <2>2. f = e \/ f \in Spooled
    BY <2>1 DEF Spooled, TypeOK
  <2>3. QED
    BY <1>1, <2>2
<1>2. ASSUME NEW p \in Caller \cup {Sender}, Store(p)
      PROVE  f \in Spooled \/ StoreFile(p, f)
  <2>1. PICK e \in Event :
          \/ StoreFails(p, e) \/ StoreFile(p, e) \/ Measure(p, e)
          \/ Evict(p, e) \/ StoreEnds(p, e) \/ StoreDisturbed(p, e)
    BY <1>2, StoreSteps
  <2>2. CASE StoreFile(p, e)
    BY <1>1, <2>2
  <2>3. CASE Evict(p, e)
    BY <2>3 DEF Evict, Spooled, TypeOK
  <2>4. QED
    BY <2>1, <2>2, <2>3 DEF StoreFails, Measure, StoreEnds, StoreDisturbed, Spooled
<1>3. CASE RemoveFile
  <2>1. stamp \in [Event -> Nat] /\ \E e \in Event : stamp' = stamp \/ stamp' = [stamp EXCEPT ![e] = 0]
    BY <1>3, WorkerCases DEF RemoveFile, TypeOK
  <2>2. \A d \in Event : stamp'[d] > 0 => stamp[d] > 0
    BY <2>1
  <2>3. QED
    BY <2>2 DEF Spooled
<1>4. CASE stamp' = stamp
  BY <1>4 DEF Spooled
<1>5. QED
  BY <1>2, <1>3, <1>4
     DEF Next, SenderStep, CallerStep, BeginCapture, Enqueue, Spill, CaptureStopped, BeginFlush, SendFlush,
         AbandonFlush, BeginStop, SendStop, Join, AwaitExit, Proceed, TakeEvent, TakeFlush, TakeShutdown,
         IdleDrain, DrainEmpty, DrainEnds, DrainNext, PostDelivered, PostRejected, PostFails, Crash

LEMMA CapturingComes ==
  ASSUME TypeOK, Waiting, Holding, Next, NEW t \in Caller, caller'[t].at \in {"capture", "spill"}
  PROVE  \/ caller[t].at \in {"capture", "spill"} /\ caller'[t].ev = caller[t].ev
         \/ \E e \in Event : BeginCapture(t, e) /\ caller'[t].ev = e
<1>1. CASE caller'[t] = caller[t]
  BY <1>1
<1>2. CASE CallerStep(t) /\ ~Store(t)
  <2>1. ~BeginFlush(t) /\ ~BeginStop(t) /\ ~Join(t) /\ ~AwaitExit(t)
    BY CallerCases DEF BeginFlush, BeginStop, Join, AwaitExit, HasStopped, TypeOK
  <2>2. ~SendFlush(t) /\ ~SendStop(t)
    BY CallerCases DEF SendFlush, SendStop, TypeOK
  <2>3. ~Enqueue(t) /\ ~CaptureStopped(t) /\ ~AbandonFlush(t) /\ ~Proceed(t)
    BY DEF Enqueue, CaptureStopped, AbandonFlush, Proceed, Returns, TypeOK
  <2>4. CASE Spill(t)
    BY <2>4, CallerCases DEF Spill, TypeOK
  <2>5. ASSUME NEW e \in Event, BeginCapture(t, e)
        PROVE  caller'[t].ev = e
    BY <2>5 DEF BeginCapture, TypeOK
  <2>6. QED
    BY <1>2, <2>1, <2>2, <2>3, <2>4, <2>5 DEF CallerStep
<1>3. ASSUME ~(CallerStep(t) /\ ~Store(t))
      PROVE  caller'[t] = caller[t] \/ caller'[t].at \in {"ready", "flushed"}
  <2>1. CASE Store(t)
    BY <2>1, StoreFrame DEF TypeOK
  <2>2. ASSUME NEW u \in Caller, CallerStep(u), u # t
        PROVE  caller'[t] = caller[t]
    <3>1. CASE Store(u)
      BY <2>2, <3>1, StoreFrame DEF TypeOK
    <3>2. CASE ~Store(u)
      BY <2>2, <3>2
         DEF CallerStep, BeginCapture, Enqueue, Spill, CaptureStopped, BeginFlush, SendFlush, AbandonFlush,
             BeginStop, SendStop, Join, AwaitExit, HasStopped, Proceed, Returns, TypeOK
    <3>3. QED
      BY <3>1, <3>2
  <2>3. CASE Store(Sender)
    BY <2>3, StoreFrame
  <2>4. CASE Crash
    BY <2>4 DEF Crash
  <2>5. CASE SenderStep /\ ~Store(Sender)
    <3>1. ASSUME NEW by, NEW left, Report(by, left)
          PROVE  caller'[t] = caller[t] \/ caller'[t].at = "flushed"
      BY <3>1 DEF Report, TypeOK
    <3>2. QED
      BY <2>5, <3>1
         DEF SenderStep, TakeEvent, TakeFlush, TakeShutdown, IdleDrain, DrainEmpty, DrainEnds, DrainNext,
             PostDelivered, PostRejected, PostFails, Retry, RemoveFile, appVars
  <2>6. QED
    BY <1>3, <2>1, <2>2, <2>3, <2>4, <2>5 DEF Next
<1>4. QED
  BY <1>1, <1>2, <1>3

\* Nothing becomes of an event but from the queue, the sender's hand and the spool.
LEMMA FateMoves ==
  ASSUME TypeOK, Next, NEW f \in Event, fate'[f] # fate[f]
  PROVE  \/ f \in Queued \cup InHand
         \/ \E p \in Caller \cup {Sender}, e \in Event : Evict(p, e) /\ f \in Oldest(Listed) \cap Spooled
<1>1. CASE TakeShutdown \/ Crash
  BY <1>1 DEF TakeShutdown, Crash
<1>2. CASE PostDelivered \/ PostRejected \/ PostFails
  BY <1>2, WorkerCases, FatedSettles DEF PostDelivered, PostRejected, PostFails, InHand, TypeOK
<1>3. ASSUME NEW p \in Caller \cup {Sender}, Store(p)
      PROVE  f \in InHand \/ \E e \in Event : Evict(p, e) /\ f \in Oldest(Listed) \cap Spooled
  <2>1. PICK e \in Event :
          \/ StoreFails(p, e) \/ StoreFile(p, e) \/ Measure(p, e)
          \/ Evict(p, e) \/ StoreEnds(p, e) \/ StoreDisturbed(p, e)
    BY <1>3, StoreSteps
  <2>2. CASE StoreFails(p, e)
    BY <2>2, FatedSettles DEF StoreFails, Stores, InHand
  <2>3. CASE Evict(p, e)
    <3>1. PICK victim \in Oldest(Listed) \cap Spooled : Fated(victim, "evicted")
      BY <2>3 DEF Evict
    <3>2. victim = f
      BY <3>1, FatedSettles DEF Spooled
    <3>3. QED
      BY <2>3, <3>1, <3>2
  <2>4. QED
    BY <2>1, <2>2, <2>3 DEF StoreFile, Measure, StoreEnds, StoreDisturbed
<1>4. QED
  BY <1>1, <1>2, <1>3
     DEF Next, SenderStep, CallerStep, BeginCapture, Enqueue, Spill, CaptureStopped, BeginFlush, SendFlush,
         AbandonFlush, BeginStop, SendStop, Join, AwaitExit, Proceed, TakeEvent, TakeFlush,
         IdleDrain, DrainEmpty, DrainEnds, DrainNext, RemoveFile

LEMMA OriginNext ==
  ASSUME TypeOK, Waiting, Holding, Origin, Next
  PROVE  Origin'
<1>1. \A t \in Caller : caller[t].at \in {"capture", "spill"} => caller[t].ev \in Event /\ Asked(caller[t].ev)
  BY CallerCases DEF Origin, TypeOK
<1>2. Queued \cup InHand \cup Spooled \subseteq Event
  BY QueuedEvents DEF Spooled
<1>3. ASSUME NEW e \in Queued' \cup InHand' \cup Spooled'
      PROVE  Asked(e)'
  <2>1. CASE e \in Queued'
    <3>1. e \in Queued \/ \E t \in Caller : Enqueue(t) /\ caller[t].ev = e
      BY <2>1, QueuedComes
    <3>2. e \in Event /\ Asked(e)
      BY <1>1, <1>2, <3>1 DEF Origin, Enqueue
    <3>3. QED
      BY <3>2, AskedStays
  <2>2. CASE e \in InHand'
    <3>1. e \in Queued \cup InHand \cup Spooled
      BY <2>2, HandComes
    <3>2. QED
      BY <1>2, <3>1, AskedStays DEF Origin
  <2>3. ASSUME NEW p \in Caller \cup {Sender}, StoreFile(p, e)
        PROVE  e \in InHand \/ \E t \in Caller : caller[t].at = "spill" /\ caller[t].ev = e
    BY <2>3 DEF StoreFile, Stores, InHand
  <2>4. CASE e \in Spooled'
    BY <1>1, <1>2, <2>3, <2>4, SpooledComes, AskedStays DEF Origin
  <2>5. QED
    BY <1>3, <2>1, <2>2, <2>4
<1>4. ASSUME NEW t \in Caller, caller'[t].at \in {"capture", "spill"}
      PROVE  answer'[caller'[t].ev] # "none"
  <2>1. CASE caller[t].at \in {"capture", "spill"} /\ caller'[t].ev = caller[t].ev
    BY <1>1, <2>1, AskedStays DEF Asked
  <2>2. CASE \E e \in Event : BeginCapture(t, e) /\ caller'[t].ev = e
    BY <2>2 DEF BeginCapture, Asked, TypeOK
  <2>3. QED
    BY <1>4, <2>1, <2>2, CapturingComes
<1>5. ASSUME NEW e \in Event, Settled(e)'
      PROVE  Asked(e)'
  <2>1. Settled(e) \/ e \in Queued \cup InHand \cup Spooled
    BY <1>5, FateMoves DEF Settled
  <2>2. QED
    BY <2>1, AskedStays DEF Origin
<1>6. QED
  BY <1>3, <1>4, <1>5 DEF Origin, Asked
-----------------------------------------------------------------------------
(* How many bytes files have: a sum over a finite set counts the bytes one by one. *)

BytesOf(files) == UNION {{e} \X (1 .. Size[e]) : e \in files}

LEMMA BytesOfFinite ==
  ASSUME NEW s \in SUBSET Event, IsFiniteSet(s)
  PROVE  IsFiniteSet(BytesOf(s))
<1> DEFINE f == [e \in s |-> {e} \X (1 .. Size[e])]
           T == {{e} \X (1 .. Size[e]) : e \in s}
<1>1. f \in Surjection(s, T)
  BY DEF Surjection
<1>2. IsFiniteSet(T)
  BY <1>1, FS_Surjection
<1>3. ASSUME NEW e \in s
      PROVE  IsFiniteSet({e} \X (1 .. Size[e]))
  <2>1. IsFiniteSet({e}) /\ IsFiniteSet(1 .. Size[e])
    <3>1. Size[e] \in Int /\ 1 \in Int
      OBVIOUS
    <3>2. QED
      BY <3>1, FS_Singleton, FS_Interval
  <2>2. QED
    BY <2>1, FS_Product
<1>4. \A u \in T : IsFiniteSet(u)
  BY <1>3
<1>5. QED
  BY <1>2, <1>4, FS_UNION DEF BytesOf

LEMMA BytesOfSplit ==
  ASSUME NEW s \in SUBSET Event, IsFiniteSet(s), NEW x \in s
  PROVE  /\ Cardinality(BytesOf(s)) = Size[x] + Cardinality(BytesOf(s \ {x}))
         /\ Cardinality(BytesOf(s)) \in Nat
<1> DEFINE X == {x} \X (1 .. Size[x])
           R == BytesOf(s \ {x})
<1>1. BytesOf(s) = X \cup R /\ X \cap R = {}
  BY DEF BytesOf
<1>2. IsFiniteSet(R) /\ Cardinality(R) \in Nat
  BY BytesOfFinite, FS_RemoveElement, FS_CardinalityType
<1>3. IsFiniteSet(X) /\ Cardinality(X) = Size[x]
  <2>1. Size[x] \in Nat
    OBVIOUS
  <2>2. IsFiniteSet(1 .. Size[x]) /\ Cardinality(1 .. Size[x]) = Size[x]
    BY <2>1, FS_Interval
  <2>3. IsFiniteSet({x}) /\ Cardinality({x}) = 1
    BY FS_Singleton
  <2>4. IsFiniteSet(X) /\ Cardinality(X) = Cardinality({x}) * Cardinality(1 .. Size[x])
    BY <2>2, <2>3, FS_Product
  <2> HIDE DEF X
  <2>5. QED
    BY <2>1, <2>2, <2>3, <2>4
<1>4. Cardinality(X \cap R) = 0
  BY <1>1, FS_EmptySet
<1> HIDE DEF X, R
<1>5. Cardinality(BytesOf(s)) = Size[x] + Cardinality(R) - 0
  BY <1>1, <1>2, <1>3, <1>4, FS_Union
<1>6. QED
  BY <1>2, <1>5 DEF R

\* What holds of a part of S whenever it holds of the smaller ones holds of them all.
LEMMA PartInduction ==
  ASSUME NEW S, IsFiniteSet(S), NEW P,
         \A s \in SUBSET S : (\A r \in SUBSET s : r # s => r \in P) => s \in P
  PROVE  SUBSET S \subseteq P
<1> DEFINE T == (SUBSET S) \ P
<1>1. SUFFICES ASSUME T # {}
               PROVE  FALSE
  OBVIOUS
<1>2. IsWellFoundedOn(StrictSubsetOrdering(S), SUBSET S)
  BY FS_StrictSubsetOrderingWellFounded, FS_FiniteSubsetsOfFinite
<1>3. PICK s \in T : \A r \in T : <<r, s>> \notin StrictSubsetOrdering(S)
  <2>1. T \subseteq SUBSET S
    OBVIOUS
  <2> HIDE DEF T
  <2>2. QED
    BY <1>1, <1>2, <2>1, WFMin
<1>4. \A r \in SUBSET s : r # s => r \in P
  BY <1>1, <1>3 DEF StrictSubsetOrdering
<1>5. QED
  BY <1>1, <1>4

\* Bytes is the one function of the files that adds the size of one to that of the others,
\* and so does the number of bytes.
LEMMA BytesCounts ==
  ASSUME NEW S \in SUBSET Event, IsFiniteSet(S)
  PROVE  Bytes(S) = Cardinality(BytesOf(S))
<1> DEFINE Fn(g, s) == IF s = {} THEN 0 ELSE LET x == CHOOSE x \in s : TRUE IN Size[x] + g[s \ {x}]
           IsSum(g) == g = [s \in SUBSET S |-> Fn(g, s)]
           iter == CHOOSE g : IsSum(g)
           U == [s \in SUBSET S |-> Cardinality(BytesOf(s))]
<1>1. Bytes(S) = iter[S]
  BY DEF Bytes, MapThenSumSet, MapThenFoldSet
<1>2. IsSum(U)
  <2>1. ASSUME NEW s \in SUBSET S
        PROVE  U[s] = Fn(U, s)
    <3>1. CASE s = {}
      <4>1. BytesOf({}) = {}
        BY DEF BytesOf
      <4>2. QED
        BY <3>1, <4>1, FS_EmptySet
    <3>2. CASE s # {}
      <4>1. PICK x : x = (CHOOSE y \in s : TRUE) /\ x \in s
        BY <3>2
      <4>2. IsFiniteSet(s) /\ s \ {x} \in SUBSET S
        BY FS_Subset
      <4>3. U[s] = Size[x] + U[s \ {x}]
        <5>1. Cardinality(BytesOf(s)) = Size[x] + Cardinality(BytesOf(s \ {x}))
          <6> HIDE DEF U, iter, IsSum, Fn
          <6>1. x \in s /\ IsFiniteSet(s) /\ s \in SUBSET Event
            BY <4>1, <4>2
          <6>2. QED
            BY <6>1, BytesOfSplit
        <5>2. QED
          BY <4>2, <5>1
      <4> HIDE DEF U
      <4>4. QED
        BY <3>2, <4>1, <4>3
    <3>3. QED
      BY <3>1, <3>2
  <2> HIDE DEF Fn
  <2>2. QED
    BY <2>1
<1>3. ASSUME NEW g, IsSum(g), NEW h, IsSum(h)
      PROVE  g = h
  <2> DEFINE P == {s \in SUBSET S : g[s] = h[s]}
  <2>1. ASSUME NEW s \in SUBSET S, \A r \in SUBSET s : r # s => r \in P
        PROVE  s \in P
    <3>1. g[s] = Fn(g, s) /\ h[s] = Fn(h, s)
      <4> HIDE DEF Fn
      <4>1. QED
        BY <1>3
    <3>2. CASE s = {}
      BY <3>1, <3>2
    <3>3. CASE s # {}
      <4>1. PICK x : x = (CHOOSE y \in s : TRUE) /\ x \in s
        BY <3>3
      <4>2. g[s \ {x}] = h[s \ {x}]
        BY <2>1, <4>1
      <4>3. QED
        BY <3>1, <3>3, <4>1, <4>2
    <3>4. QED
      BY <3>2, <3>3
  <2>2. SUBSET S \subseteq P
    <3> HIDE DEF P
    <3>1. QED
      BY <2>1, PartInduction
  <2> HIDE DEF Fn
  <2>3. QED
    BY <1>3, <2>2
<1> HIDE DEF IsSum, U
<1>4. iter = U
  BY <1>2, <1>3
<1>5. QED
  BY <1>1, <1>4 DEF U

\* Fewer files have no more bytes, and one file has its own.
LEMMA BytesOfFewer ==
  ASSUME NEW S \in SUBSET Event, IsFiniteSet(S), NEW s \in SUBSET S
  PROVE  Bytes(s) <= Bytes(S) /\ Bytes(s) \in Nat /\ Bytes(S) \in Nat
<1>1. IsFiniteSet(s) /\ s \in SUBSET Event
  BY FS_Subset
<1>2. Bytes(s) = Cardinality(BytesOf(s)) /\ Bytes(S) = Cardinality(BytesOf(S))
  BY <1>1, BytesCounts
<1>3. BytesOf(s) \subseteq BytesOf(S) /\ IsFiniteSet(BytesOf(S)) /\ IsFiniteSet(BytesOf(s))
  <2>1. BytesOf(s) \subseteq BytesOf(S)
    BY DEF BytesOf
  <2>2. QED
    BY <1>1, <2>1, BytesOfFinite
<1>4. Cardinality(BytesOf(s)) <= Cardinality(BytesOf(S))
      /\ Cardinality(BytesOf(s)) \in Nat /\ Cardinality(BytesOf(S)) \in Nat
  BY <1>3, FS_Subset, FS_CardinalityType
<1>5. QED
  BY <1>2, <1>4

LEMMA BytesOfOne ==
  ASSUME NEW e \in Event
  PROVE  Bytes({e}) = Size[e]
<1>1. IsFiniteSet({e}) /\ {e} \in SUBSET Event /\ e \in {e} /\ {e} \ {e} = {}
  BY FS_Singleton
<1>2. BytesOf({}) = {}
  BY DEF BytesOf
<1>3. Cardinality(BytesOf({e})) = Size[e] + Cardinality(BytesOf({}))
  BY <1>1, BytesOfSplit
<1>4. Bytes({e}) = Size[e] + 0
  BY <1>1, <1>2, <1>3, BytesCounts, FS_EmptySet
<1>5. QED
  BY <1>4
-----------------------------------------------------------------------------
(* Who has an event: OneOwner and Untouched. *)

LEMMA CapturingMoves ==
  ASSUME TypeOK, Waiting, Holding, Next, NEW t \in Caller, NEW e \in Event, Capturing(t, e)'
  PROVE  Capturing(t, e) \/ BeginCapture(t, e)
<1>1. caller'[t].at \in {"capture", "spill"} /\ caller'[t].ev = e
  BY DEF Capturing
<1>2. QED
  BY <1>1, CapturingComes DEF Capturing

LEMMA OneOwnerNext ==
  ASSUME TypeOK, Waiting, Holding, Origin, OneOwner, Next
  PROVE  OneOwner'
<1>1. SUFFICES ASSUME NEW t \in Caller, NEW u \in Caller, NEW e \in Event,
                      Capturing(t, e)', Capturing(u, e)', t # u
               PROVE  FALSE
  BY DEF OneOwner
<1>2. ASSUME NEW p \in Caller, NEW q \in Caller, p # q, BeginCapture(p, e), Capturing(q, e)'
      PROVE  FALSE
  <2>1. caller'[q] = caller[q]
    BY <1>2 DEF BeginCapture, TypeOK
  <2>2. Asked(e)
    BY <1>2, <2>1 DEF Capturing, Origin
  <2>3. QED
    BY <1>2, <2>2 DEF BeginCapture, Asked
<1>3. Capturing(t, e) /\ Capturing(u, e)
  BY <1>1, <1>2, CapturingMoves
<1>4. QED
  BY <1>1, <1>3 DEF OneOwner

\* The mutex passes from the holder to whoever stores next.
LEMMA LockMoves ==
  ASSUME TypeOK, Next
  PROVE  \/ spoolLock' = spoolLock
         \/ Crash
         \/ \E p \in Caller \cup {Sender}, e \in Event :
              StoreFile(p, e) \/ Measure(p, e) \/ Evict(p, e) \/ StoreEnds(p, e) \/ StoreDisturbed(p, e)
<1>1. ASSUME NEW p \in Caller \cup {Sender}, Store(p)
      PROVE  \/ spoolLock' = spoolLock
             \/ \E e \in Event :
                  StoreFile(p, e) \/ Measure(p, e) \/ Evict(p, e) \/ StoreEnds(p, e) \/ StoreDisturbed(p, e)
  <2>1. \A e \in Event : StoreFails(p, e) => spoolLock' = spoolLock
    BY DEF StoreFails
  <2>2. QED
    BY <1>1, <2>1, StoreSteps
<1>2. QED
  BY <1>1
     DEF Next, SenderStep, CallerStep, BeginCapture, Enqueue, Spill, CaptureStopped, BeginFlush, SendFlush,
         AbandonFlush, BeginStop, SendStop, Join, AwaitExit, Proceed, TakeEvent, TakeFlush, TakeShutdown,
         IdleDrain, DrainEmpty, DrainEnds, DrainNext, PostDelivered, PostRejected, PostFails, RemoveFile

\* A thread that holds the mutex holds it until its capture returns.
LEMMA ThreadHolds ==
  ASSUME TypeOK, Holding, Next, NEW t \in Caller, spoolLock.by = t, caller'[t] # Ready
  PROVE  spoolLock'.by = t
<1>1. spoolLock # Unlocked /\ spoolLock \in Locked
  BY LockCases DEF TypeOK
<1>2. ASSUME NEW p \in Caller \cup {Sender}, NEW e \in Event,
             StoreFile(p, e) \/ Measure(p, e) \/ Evict(p, e) \/ StoreEnds(p, e) \/ StoreDisturbed(p, e)
      PROVE  spoolLock'.by = t
  <2>1. ~StoreFile(p, e)
    BY <1>1 DEF StoreFile
  <2>2. p = t
    BY <1>2, <2>1 DEF Measure, Evict, StoreEnds, StoreDisturbed
  <2>3. ~StoreEnds(p, e) /\ ~StoreDisturbed(p, e)
    BY <2>2 DEF StoreEnds, StoreDisturbed, StoreReturns, Returns, TypeOK
  <2>4. QED
    BY <1>1, <1>2, <2>1, <2>3 DEF Measure, Evict, Locked
<1>3. ~Crash
  BY DEF Crash
<1>4. QED
  BY <1>2, <1>3, LockMoves

\* What the sender removes it has posted before.
LEMMA RemovingComes ==
  ASSUME TypeOK, Holding, Next, worker'.at = "remove"
  PROVE  worker.at \in {"post", "remove"} /\ worker'.ev = worker.ev
<1>1. ASSUME NEW t \in Caller, CallerStep(t), ~Store(t)
      PROVE  worker.at \in {"post", "remove"} /\ worker'.ev = worker.ev
  <2>1. worker' = worker \/ AbandonFlush(t)
    BY <1>1
       DEF CallerStep, BeginCapture, Enqueue, Spill, CaptureStopped, BeginFlush, SendFlush,
           BeginStop, SendStop, Join, AwaitExit, Proceed
  <2>2. CASE AbandonFlush(t)
    BY <2>2, WorkerCases DEF AbandonFlush, TypeOK
  <2>3. QED
    BY <2>1, <2>2
<1>2. CASE \E p \in Caller \cup {Sender} : Store(p)
  BY <1>2, StoreFrame DEF TypeOK
<1>3. CASE PostDelivered \/ PostRejected
  BY <1>3 DEF PostDelivered, PostRejected, AfterPost
<1>4. CASE SenderStep /\ ~Store(Sender) /\ ~PostDelivered /\ ~PostRejected
  BY <1>4
     DEF SenderStep, TakeEvent, TakeFlush, TakeShutdown, IdleDrain, DrainEmpty, DrainEnds, DrainNext,
         PostFails, Retry, Report, RemoveFile
<1>5. CASE Crash
  BY <1>5 DEF Crash
<1>6. QED
  BY <1>1, <1>2, <1>3, <1>4, <1>5 DEF Next

\* Nothing becomes of the event that a thread is storing: what the bound evicts is the
\* oldest file, and that event is the newest.
LEMMA NewestStays ==
  ASSUME TypeOK, Holding, Listing, Monotonic, NEW p \in Caller \cup {Sender}, NEW e \in Event, Evict(p, e)
  PROVE  e \notin Oldest(Listed)
<1>1. spoolLock \in Locked /\ spoolLock # Unlocked /\ spoolLock.ev = e
  BY LockCases DEF Evict, TypeOK
<1>2. SUFFICES ASSUME e \in Oldest(Listed)
               PROVE  FALSE
  OBVIOUS
<1>3. Listed \in [Event -> Nat]
  BY <1>1 DEF Listed, Locked
<1>4. Files(Listed) = {e}
  BY <1>1, <1>2, <1>3 DEF Listing, Oldest, Files
<1>5. Bytes(Files(Listed)) = Size[e]
  BY <1>4, BytesOfOne
<1>6. QED
  BY <1>1, <1>5 DEF Listing, Evict, Excess

LEMMA UntouchedOld ==
  ASSUME TypeOK, Holding, Handling, OneOwner, Untouched, Listing, Next,
         NEW t \in Caller, NEW e \in Event, Capturing(t, e), Capturing(t, e)'
  PROVE  /\ e \notin Queued' /\ ~(worker'.at \in {"post", "store", "remove"} /\ worker'.ev = e)
         /\ e \in Spooled' => spoolLock'.by = t
         /\ Monotonic => fate'[e] = "open"
<1>1. /\ e \notin Queued /\ ~(worker.at \in {"post", "store", "remove"} /\ worker.ev = e)
      /\ e \in Spooled => spoolLock.by = t
      /\ Monotonic => fate[e] = "open"
  BY DEF Untouched
<1>2. e \notin Queued \cup InHand
  BY <1>1 DEF InHand
<1>3. caller'[t] # Ready
  BY DEF Capturing
<1>4. \A u \in Caller : Capturing(u, e) => u = t
  BY DEF OneOwner
<1>5. e \notin Queued'
  <2>1. ASSUME NEW u \in Caller, Enqueue(u), caller[u].ev = e
        PROVE  FALSE
    <3>1. u = t
      BY <1>4, <2>1 DEF Capturing, Enqueue
    <3>2. QED
      BY <1>3, <2>1, <3>1 DEF Enqueue, Returns, TypeOK
  <2>2. QED
    BY <1>2, <2>1, QueuedComes
<1>6. ~(worker'.at \in {"post", "store", "remove"} /\ worker'.ev = e)
  <2>1. e \notin InHand'
    <3>1. ~(DrainNext /\ e \in Spooled)
      BY <1>1 DEF DrainNext
    <3>2. QED
      BY <1>2, <3>1, HandComes
  <2>2. ~(worker'.at = "remove" /\ worker'.ev = e)
    BY <1>1, RemovingComes
  <2>3. QED
    BY <2>1, <2>2 DEF InHand
<1>7. e \in Spooled' => spoolLock'.by = t
  <2>1. CASE e \in Spooled
    BY <1>1, <1>3, <2>1, ThreadHolds
  <2>2. ASSUME NEW p \in Caller \cup {Sender}, StoreFile(p, e)
        PROVE  spoolLock'.by = t
    <3>1. p = t
      BY <1>1, <1>4, <2>2 DEF StoreFile, Stores, Capturing
    <3>2. QED
      BY <2>2, <3>1 DEF StoreFile
  <2>3. QED
    BY <2>1, <2>2, SpooledComes
<1>8. Monotonic => fate'[e] = "open"
  <2>1. SUFFICES ASSUME Monotonic, fate'[e] # fate[e]
                 PROVE  FALSE
    BY <1>1
  <2>2. PICK p \in Caller \cup {Sender}, d \in Event : Evict(p, d) /\ e \in Oldest(Listed) \cap Spooled
    BY <1>2, <2>1, FateMoves
  <2>3. spoolLock.by = t /\ spoolLock # Unlocked /\ spoolLock.ev = d
    BY <1>1, <2>2 DEF Evict
  <2>4. d = e
    BY <2>3 DEF Holding, Stores, Capturing
  <2>5. QED
    BY <2>1, <2>2, <2>3, <2>4, NewestStays
<1>9. QED
  BY <1>5, <1>6, <1>7, <1>8

LEMMA UntouchedNew ==
  ASSUME TypeOK, Handling, Origin, NEW t \in Caller, NEW e \in Event, BeginCapture(t, e)
  PROVE  /\ e \notin Queued' /\ ~(worker'.at \in {"post", "store", "remove"} /\ worker'.ev = e)
         /\ e \in Spooled' => spoolLock'.by = t
         /\ Monotonic => fate'[e] = "open"
<1>1. ~Asked(e)
  BY DEF BeginCapture, Asked
<1>2. e \notin Queued \cup InHand \cup Spooled /\ ~Settled(e)
  BY <1>1 DEF Origin
<1>3. ~(worker.at \in {"post", "store", "remove"} /\ worker.ev = e)
  BY <1>2 DEF InHand, Handling
<1>4. queue' = queue /\ worker' = worker /\ stamp' = stamp /\ fate' = fate
  BY DEF BeginCapture
<1>5. QED
  BY <1>2, <1>3, <1>4 DEF Queued, Spooled, Settled

LEMMA UntouchedNext ==
  ASSUME TypeOK, Waiting, Holding, Handling, Origin, OneOwner, Untouched, Listing, Next
  PROVE  Untouched'
<1>1. ASSUME NEW t \in Caller, NEW e \in Event, Capturing(t, e)'
      PROVE  /\ e \notin Queued' /\ ~(worker'.at \in {"post", "store", "remove"} /\ worker'.ev = e)
             /\ e \in Spooled' => spoolLock'.by = t
             /\ Monotonic => fate'[e] = "open"
  BY <1>1, CapturingMoves, UntouchedOld, UntouchedNew
<1>2. QED
  BY <1>1 DEF Untouched
-----------------------------------------------------------------------------
(* What is listed, and the bound: Listing, StoreKeepsBound and SpilledIsSafe. *)

LEMMA FilesWithout ==
  ASSUME NEW name \in [Event -> Nat], NEW e \in Event
  PROVE  Files([name EXCEPT ![e] = 0]) = Files(name) \ {e}
  BY DEF Files

LEMMA ListingNext ==
  ASSUME TypeOK, Holding, Listing, Next
  PROVE  Listing'
<1>1. ASSUME NEW p \in Caller \cup {Sender}, NEW e \in Event, StoreFile(p, e)
      PROVE  Listing'
  <2>1. PICK n \in NextStamps : stamp' = [stamp EXCEPT ![e] = n]
    BY <1>1 DEF StoreFile
  <2>2. n \in Nat /\ n > 0 /\ (Monotonic => \A f \in Event : stamp[f] < n)
    BY DEF NextStamps, Taken
  <2>3. spoolLock'.ev = e /\ spoolLock'.listed = stamp' /\ Size[e] <= MaxBytes
    BY <1>1 DEF StoreFile
  <2>4. Monotonic => e \in Files(stamp') /\ \A f \in Files(stamp') \ {e} : stamp'[f] < stamp'[e]
    BY <2>1, <2>2 DEF Files, TypeOK
  <2>5. QED
    BY <2>3, <2>4 DEF Listing, Listed, Files, Spooled
<1>2. ASSUME NEW p \in Caller \cup {Sender}, NEW e \in Event, Measure(p, e)
      PROVE  Listing'
  <2>1. spoolLock # Unlocked /\ spoolLock \in Locked /\ stamp' = stamp
    BY <1>2, LockCases DEF Measure, TypeOK
  <2>2. spoolLock'.ev = spoolLock.ev /\ spoolLock'.listed = spoolLock.listed
    BY <1>2, <2>1 DEF Measure, Locked
  <2>3. QED
    BY <2>1, <2>2 DEF Listing, Listed, Files, Spooled
<1>3. ASSUME NEW p \in Caller \cup {Sender}, NEW e \in Event, Evict(p, e)
      PROVE  Listing'
  <2>1. spoolLock # Unlocked /\ spoolLock \in Locked /\ spoolLock.ev = e
    BY <1>3, LockCases DEF Evict, TypeOK
  <2>2. PICK victim \in Oldest(Listed) \cap Spooled :
          /\ stamp' = [stamp EXCEPT ![victim] = 0]
          /\ spoolLock' = [spoolLock EXCEPT !.listed[victim] = 0]
    BY <1>3 DEF Evict
  <2>3. /\ victim \in Event /\ Listed \in [Event -> Nat]
        /\ spoolLock'.ev = e /\ spoolLock'.listed = [Listed EXCEPT ![victim] = 0]
    BY <2>1, <2>2 DEF Locked, Listed, Spooled
  <2>4. Spooled' = Spooled \ {victim} /\ Files(spoolLock'.listed) = Files(Listed) \ {victim}
    <3>1. stamp \in [Event -> Nat] /\ Spooled = Files(stamp) /\ Spooled' = Files(stamp')
      BY DEF TypeOK, Spooled, Files
    <3>2. QED
      BY <2>2, <2>3, <3>1, FilesWithout
  <2>5. Monotonic => victim # e
    BY <1>3, <2>2, NewestStays
  <2>6. Monotonic => /\ e \in Files(spoolLock'.listed)
                     /\ \A f \in Files(spoolLock'.listed) \ {e} : spoolLock'.listed[f] < spoolLock'.listed[e]
    BY <2>1, <2>3, <2>4, <2>5 DEF Listing, Files
  <2>7. QED
    BY <2>1, <2>3, <2>4, <2>6 DEF Listing, Listed, Files
<1>4. CASE spoolLock' = spoolLock
  <2>1. SUFFICES ASSUME spoolLock # Unlocked
                 PROVE  Listing'
    BY <1>4 DEF Listing
  <2>2. Spooled' \subseteq Spooled
    BY <2>1, SpooledComes DEF StoreFile
  <2>3. QED
    BY <1>4, <2>1, <2>2 DEF Listing, Listed, Files
<1>5. ASSUME NEW p \in Caller \cup {Sender}, NEW e \in Event, StoreEnds(p, e) \/ StoreDisturbed(p, e)
      PROVE  Listing'
  BY <1>5 DEF StoreEnds, StoreDisturbed, Listing
<1>6. CASE Crash
  BY <1>6 DEF Crash, Listing
<1>7. QED
  BY <1>1, <1>2, <1>3, <1>4, <1>5, <1>6, LockMoves

\* The files are finitely many.
FiniteSpool ==
  /\ IsFiniteSet(Spooled)
  /\ spoolLock # Unlocked => IsFiniteSet(Files(Listed))

LEMMA FiniteSpoolNext ==
  ASSUME TypeOK, Holding, FiniteSpool, Next
  PROVE  FiniteSpool'
<1>1. \A s \in SUBSET Spooled : IsFiniteSet(s)
  BY FS_Subset DEF FiniteSpool
<1>2. IsFiniteSet(Spooled')
  <2>1. CASE Spooled' \subseteq Spooled
    BY <1>1, <2>1
  <2>2. ASSUME NEW p \in Caller \cup {Sender}, NEW e \in Event, StoreFile(p, e)
        PROVE  IsFiniteSet(Spooled')
    <3>1. Spooled' \subseteq Spooled \cup {e}
      BY <2>2 DEF StoreFile, Spooled, TypeOK
    <3>2. IsFiniteSet(Spooled \cup {e})
      BY FS_AddElement DEF FiniteSpool
    <3>3. QED
      BY <3>1, <3>2, FS_Subset
  <2>3. QED
    BY <2>1, <2>2, SpooledComes DEF Spooled
<1>3. ASSUME spoolLock' # Unlocked
      PROVE  IsFiniteSet(Files(spoolLock'.listed))
  <2>1. ASSUME NEW p \in Caller \cup {Sender}, NEW e \in Event, StoreFile(p, e)
        PROVE  IsFiniteSet(Files(spoolLock'.listed))
    <3>1. Files(spoolLock'.listed) = Spooled'
      BY <2>1 DEF StoreFile, Files, Spooled
    <3>2. QED
      BY <1>2, <3>1
  <2>2. ASSUME spoolLock # Unlocked, Files(spoolLock'.listed) \subseteq Files(Listed)
        PROVE  IsFiniteSet(Files(spoolLock'.listed))
    BY <2>2, FS_Subset DEF FiniteSpool
  <2>3. ASSUME NEW p \in Caller \cup {Sender}, NEW e \in Event, Measure(p, e) \/ Evict(p, e)
        PROVE  spoolLock # Unlocked /\ Files(spoolLock'.listed) \subseteq Files(Listed)
    <3>1. spoolLock # Unlocked /\ spoolLock \in Locked
      BY <2>3, LockCases DEF Measure, Evict, TypeOK
    <3>2. Listed \in [Event -> Nat] /\ \E victim \in Event :
            spoolLock'.listed = Listed \/ spoolLock'.listed = [Listed EXCEPT ![victim] = 0]
      BY <2>3, <3>1 DEF Measure, Evict, Locked, Listed, Spooled
    <3>3. QED
      BY <3>1, <3>2, FilesWithout
  <2>4. CASE spoolLock' = spoolLock
    BY <1>3, <2>2, <2>4 DEF Listed
  <2>5. ASSUME NEW p \in Caller \cup {Sender}, NEW e \in Event, StoreEnds(p, e) \/ StoreDisturbed(p, e)
        PROVE  FALSE
    BY <1>3, <2>5 DEF StoreEnds, StoreDisturbed
  <2>6. ~Crash
    BY <1>3 DEF Crash
  <2>7. QED
    BY <2>1, <2>2, <2>3, <2>4, <2>5, <2>6, LockMoves
<1>4. QED
  BY <1>2, <1>3 DEF FiniteSpool, Listed

\* A capture that ends by storing its event and returns Ok ends its own store.
LEMMA SpilledEnds ==
  ASSUME TypeOK, Holding, OneOwner, Next, NEW t \in Caller, NEW e \in Event, Spilled(t, e), answer'[e] = "ok"
  PROVE  StoreEnds(t, e) /\ spoolLock # Unlocked /\ spoolLock.ev = e
<1>1. ASSUME NEW u \in Caller, Enqueue(u), caller[u].ev = e
      PROVE  FALSE
  <2>1. caller[u].at = "capture" /\ caller[t].at = "spill" /\ caller[t].ev = e
    BY <1>1 DEF Enqueue, Spilled
  <2>2. u = t
    BY <1>1, <2>1 DEF OneOwner, Capturing
  <2>3. QED
    BY <2>1, <2>2
<1>2. PICK u \in Caller : StoreEnds(u, e)
  BY <1>1, OkComes DEF Spilled
<1>3. Stores(u, e)
  BY <1>2, LockCases DEF StoreEnds, Holding, TypeOK
<1>4. QED
  BY <1>2, <1>3, LockCases DEF Stores, Spilled, OneOwner, Capturing, StoreEnds, TypeOK

-----------------------------------------------------------------------------
SpillInv == IInv /\ Origin /\ OneOwner /\ Untouched /\ Listing /\ FiniteSpool

LEMMA SpillInvInit ==
  ASSUME Init
  PROVE  SpillInv
<1>1. IInv
  BY IInvInit
<1>2. Origin /\ OneOwner /\ Untouched
  BY DEF Init, Origin, Settled, OneOwner, Untouched, Capturing, Queued, InHand, Spooled
<1>3. Listing /\ FiniteSpool
  <2>1. Spooled = {}
    BY DEF Init, Spooled
  <2>2. QED
    BY <2>1, FS_EmptySet DEF Init, Listing, FiniteSpool
<1>4. QED
  BY <1>1, <1>2, <1>3 DEF SpillInv

LEMMA SpillInvNext ==
  ASSUME SpillInv, [Next]_vars
  PROVE  SpillInv'
<1>1. IInv'
  BY IInvNext DEF SpillInv
<1>2. CASE Next
  <2>1. TypeOK /\ Waiting /\ Holding /\ Handling
    BY DEF SpillInv, IInv
  <2>2. Origin' /\ OneOwner'
    BY <1>2, <2>1, OriginNext, OneOwnerNext DEF SpillInv
  <2>3. Untouched'
    BY <1>2, <2>1, UntouchedNext DEF SpillInv
  <2>4. Listing' /\ FiniteSpool'
    BY <1>2, <2>1, ListingNext, FiniteSpoolNext DEF SpillInv
  <2>5. QED
    BY <1>1, <2>2, <2>3, <2>4 DEF SpillInv
<1>3. CASE UNCHANGED vars
  <2>1. Origin' /\ OneOwner' /\ Untouched'
    BY <1>3 DEF SpillInv, vars, Origin, Asked, Settled, OneOwner, Untouched, Capturing, Queued, InHand, Spooled
  <2>2. Listing' /\ FiniteSpool'
    BY <1>3 DEF SpillInv, vars, Listing, FiniteSpool, Listed, Files, Spooled
  <2>3. QED
    BY <1>1, <2>1, <2>2 DEF SpillInv
<1>4. QED
  BY <1>2, <1>3

LEMMA SpillInvHolds == Spec => []SpillInv
<1>1. Init => SpillInv
  BY SpillInvInit
<1>2. SpillInv /\ [Next]_vars => SpillInv'
  BY SpillInvNext
<1>3. QED
  BY <1>1, <1>2, PTL DEF Spec

\* Whatever is queued, in the sender's hand, on disk or settled was captured.
THEOREM SdkOrigin == Spec => []Origin
<1>1. SpillInv => Origin
  BY DEF SpillInv
<1>2. QED
  BY <1>1, SpillInvHolds, PTL

\* capture_event takes the event by value: until a thread that captures one has queued or
\* stored it, no other thread, the queue and the sender have it.
THEOREM SdkCapturesOwn == Spec => [](OneOwner /\ Untouched)
<1>1. SpillInv => OneOwner /\ Untouched
  BY DEF SpillInv
<1>2. QED
  BY <1>1, SpillInvHolds, PTL

\* enforce_bound: a capture that ends by storing its event and returns Ok leaves the spool
\* within its bound, whatever the sender removed meanwhile.
THEOREM SdkStoreKeepsBound == Spec => StoreKeepsBound
<1>1. ASSUME SpillInv, [Next]_vars
      PROVE  [\A t \in Caller, e \in Event : Spilled(t, e) /\ answer'[e] = "ok" =>
                Bytes(Spooled') <= MaxBytes]_vars
  <2>1. ASSUME Next, NEW t \in Caller, NEW e \in Event, Spilled(t, e), answer'[e] = "ok"
        PROVE  Bytes(Spooled') <= MaxBytes
    <3>1. TypeOK /\ Holding /\ OneOwner /\ Listing /\ FiniteSpool
      BY <1>1 DEF SpillInv, IInv
    <3>2. StoreEnds(t, e) /\ spoolLock # Unlocked
      BY <2>1, <3>1, SpilledEnds
    <3>3. Spooled' = Spooled /\ Spooled \in SUBSET Files(Listed) /\ Files(Listed) \in SUBSET Event
      BY <3>1, <3>2 DEF StoreEnds, Listing, Spooled, Files
    <3>4. Bytes(Spooled) <= Bytes(Files(Listed)) /\ Bytes(Spooled) \in Nat /\ Bytes(Files(Listed)) \in Nat
      BY <3>1, <3>2, <3>3, BytesOfFewer DEF FiniteSpool
    <3>5. Bytes(Files(Listed)) <= MaxBytes
      BY <3>2, <3>4 DEF StoreEnds, Excess
    <3>6. QED
      BY <3>3, <3>4, <3>5
  <2>2. QED
    BY <1>1, <2>1
<1>2. QED
  BY <1>1, SpillInvHolds, PTL DEF Spec, StoreKeepsBound

\* "A full queue that can spill returns Ok -- the event is safe on disk": where the clock
\* that names the files does not go back, neither the bound nor the sender has taken the
\* file by then.
THEOREM SdkSpilledIsSafe ==
  ASSUME Monotonic
  PROVE  Spec => SpilledIsSafe
<1>1. ASSUME SpillInv, [Next]_vars
      PROVE  [\A t \in Caller, e \in Event : Spilled(t, e) /\ answer'[e] = "ok" => stamp'[e] > 0]_vars
  <2>1. ASSUME Next, NEW t \in Caller, NEW e \in Event, Spilled(t, e), answer'[e] = "ok"
        PROVE  stamp'[e] > 0
    <3>1. TypeOK /\ Holding /\ OneOwner /\ Untouched
      BY <1>1 DEF SpillInv, IInv
    <3>2. StoreEnds(t, e) /\ spoolLock # Unlocked /\ spoolLock.ev = e
      BY <2>1, <3>1, SpilledEnds
    <3>3. Safe(e) /\ ~Settled(e)
      BY <2>1, <3>1, <3>2 DEF Holding, Untouched, Capturing, Spilled, Settled
    <3>4. QED
      BY <3>2, <3>3 DEF StoreEnds, Safe, Spooled
  <2>2. QED
    BY <1>1, <2>1
<1>2. QED
  BY <1>1, SpillInvHolds, PTL DEF Spec, SpilledIsSafe
-----------------------------------------------------------------------------
(* Pipeline: requests and answers. *)

LEMMA Bodies ==
  /\ \A e \in Event : Captured[e] \in Body /\ EventOf(Captured[e]) = e
  /\ \A e \in Event : Reread[e] \in Body /\ EventOf(Reread[e]) = e
  /\ \A b \in Body : EventOf(b) \in Event
  BY PipelineAssumption DEF EventOf

LEMMA RequestCases ==
  ASSUME LinkTypeOK, NEW c \in Client
  PROVE  /\ req[c].op = "none" <=> req[c] = Server!NoRequest
         /\ req[c].op = "ingest" => req[c].body \in Body /\ EventOf(req[c].body) \in Event
         /\ req[c].op = "status" => req[c].issue \in Issue /\ req[c].to \in Server!Status
  BY Bodies DEF LinkTypeOK, Server!Request, Server!NoRequest

\* What one branch of ingest or another does: the event is stored afterwards, and if it was
\* not before, its issue has one event more and is open unless it is ignored.
LEMMA IngestEffect ==
  ASSUME LinkTypeOK, Received, NEW c \in Client, Server!Ingest(c),
         NEW e, e = EventOf(req[c].body), NEW f, f = IssueOf[e]
  PROVE  /\ req[c].op = "ingest" /\ e \in Event /\ f \in Issue
         /\ req' = [req EXCEPT ![c] = Server!NoRequest]
         /\ \/ Stored(e) /\ UNCHANGED <<raw, eventCount, status>>
            \/ /\ ~Stored(e) /\ raw' = [raw EXCEPT ![e] = req[c].body]
               /\ eventCount' = [eventCount EXCEPT ![f] = @ + 1]
               /\ status' = [status EXCEPT ![f] = Promise!Reopened(@)]
<1> DEFINE b == req[c].body
<1>1. req[c].op = "ingest"
  BY DEF Server!Ingest, Server!IngestNewIssue, Server!IngestOccurrence, Server!IngestDuplicate,
         Server!IngestConflict
<1>2. b \in Body /\ e \in Event /\ f \in Issue
  BY <1>1, RequestCases, PipelineAssumption
<1>3. [a \in Body |-> EventOf(a)][b] = e /\ [a \in Body |-> IssueOf[EventOf(a)]][b] = f
  BY <1>2
<1>4. Stored(e) <=> raw[e] # Server!NoBody
  BY <1>2 DEF Stored, Server!Stored
<1>5. CASE Server!IngestNewIssue(c)
  <2>1. /\ raw[e] = Server!NoBody /\ status[f] = "none"
        /\ raw' = [raw EXCEPT ![e] = b] /\ status' = [status EXCEPT ![f] = "unresolved"]
        /\ eventCount' = [eventCount EXCEPT ![f] = 1] /\ req' = [req EXCEPT ![c] = Server!NoRequest]
    BY <1>3, <1>5 DEF Server!IngestNewIssue, Server!StoreEvent, Server!Commit, Server!Finish, Server!Exists
  <2>2. eventCount[f] = 0
    BY <1>2, <2>1 DEF Received
  <2>3. QED
    BY <1>1, <1>2, <1>4, <2>1, <2>2 DEF Promise!Reopened
<1>6. CASE Server!IngestOccurrence(c)
  <2>1. /\ raw[e] = Server!NoBody /\ raw' = [raw EXCEPT ![e] = b]
        /\ req' = [req EXCEPT ![c] = Server!NoRequest]
    BY <1>3, <1>6 DEF Server!IngestOccurrence, Server!StoreEvent, Server!Commit, Server!Finish
  <2>2. eventCount' = [eventCount EXCEPT ![f] = @ + 1] /\ status[f] # "none"
    BY <1>3, <1>6 DEF Server!IngestOccurrence, Server!Exists
  <2>3. status' = [status EXCEPT ![f] = IF status[f] = "resolved" THEN "unresolved" ELSE @]
    <3> DEFINE g == [a \in Body |-> IssueOf[EventOf(a)]][b]
    <3>1. status' = [status EXCEPT ![g] = IF status[g] = "resolved" THEN "unresolved" ELSE status[g]]
      BY <1>6, Zenon DEF Server!IngestOccurrence
    <3>2. g = f
      BY <1>3
    <3>3. QED
      <4> HIDE DEF g
      <4>1. QED
        BY <3>1, <3>2
  <2>4. QED
    BY <1>1, <1>2, <1>4, <2>1, <2>2, <2>3 DEF Promise!Reopened
<1>7. CASE Server!IngestDuplicate(c) \/ Server!IngestConflict(c)
  <2>1. /\ raw[e] # Server!NoBody /\ UNCHANGED <<raw, eventCount, status>>
        /\ req' = [req EXCEPT ![c] = Server!NoRequest]
    BY <1>3, <1>7
       DEF Server!IngestDuplicate, Server!IngestConflict, Server!Stored, Server!Commit, Server!Finish,
           Server!issueVars
  <2>2. QED
    BY <1>1, <1>2, <1>4, <2>1
<1>8. QED
  BY <1>5, <1>6, <1>7 DEF Server!Ingest

\* What the server does leaves what is stored, and issues that exist, in place.
LEMMA StoredAfterIngest ==
  ASSUME LinkTypeOK, Received, NEW c \in Client, Server!Ingest(c),
         NEW e, e = EventOf(req[c].body)
  PROVE  /\ Stored(e)'
         /\ \A d \in Event : Stored(d) => Stored(d)'
         /\ \A f \in Issue : status[f] # "none" => status'[f] # "none"
<1>1. PICK f : f = IssueOf[e]
  OBVIOUS
<1>2. /\ req[c].op = "ingest" /\ e \in Event /\ f \in Issue
      /\ \/ Stored(e) /\ UNCHANGED <<raw, eventCount, status>>
         \/ /\ ~Stored(e) /\ raw' = [raw EXCEPT ![e] = req[c].body]
            /\ status' = [status EXCEPT ![f] = Promise!Reopened(@)]
  BY <1>1, IngestEffect
<1>3. req[c].body \in Body /\ req[c].body # Server!NoBody
  BY <1>2, RequestCases, BodyAssumption
<1>4. raw \in [Event -> Body \cup {Server!NoBody}] /\ status \in [Issue -> Server!Status \cup {"none"}]
  BY DEF LinkTypeOK
<1>5. /\ \A d \in Event : Stored(d) <=> raw[d] # Server!NoBody
      /\ \A d \in Event : Stored(d)' <=> raw'[d] # Server!NoBody
  BY DEF Stored, Server!Stored
<1>6. QED
  BY <1>2, <1>3, <1>4, <1>5 DEF Promise!Reopened
-----------------------------------------------------------------------------
(* Pipeline: each side takes steps of its own specification. *)

SdkAlone == AppStep \/ AppCrash \/ Delivered \/ Rejected \/ NotAnswered
ServerAlone == MemberStep \/ \E c \in Client : Send(c) \/ Serve(c) \/ ServerFails(c)

LEMMA PipelineSteps ==
  ASSUME [PipelineNext]_pipelineVars
  PROVE  \/ SdkAlone \/ ServerAlone \/ Unauthorized \/ UNCHANGED pipelineVars
  BY DEF PipelineNext, SdkAlone, ServerAlone

LEMMA SdkSideSteps ==
  ASSUME SdkAlone
  PROVE  Next /\ UNCHANGED serverVars
  BY DEF SdkAlone, AppStep, SenderAlone, AppCrash, Delivered, Rejected, RejectedWith, NotAnswered,
         Next, SenderStep

LEMMA ServerSideSteps ==
  ASSUME TypeOK, ServerAlone
  PROVE  Server!Next /\ UNCHANGED vars
<1>1. UNCHANGED vars
  BY DEF ServerAlone, MemberStep, Send, Serve, ServerFails, sdkVars
<1>2. ASSUME MemberStep
      PROVE  Server!Next
  BY <1>2, PipelineAssumption DEF MemberStep, Server!Next
<1>3. ASSUME NEW c \in Client, Send(c)
      PROVE  Server!Next
  <2>1. worker.ev \in Event
    BY <1>3, WorkerCases DEF Send, Posting, TypeOK
  <2>2. \E b \in Body : Server!Authenticate(c, b, AppKey)
    BY <1>3, <2>1, Bodies DEF Send
  <2>3. QED
    BY <2>2, PipelineAssumption DEF Server!Next
<1>4. ASSUME NEW c \in Client, Serve(c) \/ ServerFails(c)
      PROVE  Server!Next
  BY <1>4 DEF Serve, ServerFails, Server!Next
<1>5. QED
  BY <1>1, <1>2, <1>3, <1>4 DEF ServerAlone

LEMMA EachSide ==
  ASSUME TypeOK, [PipelineNext]_pipelineVars
  PROVE  [Next]_vars /\ [Server!Next]_(Server!vars)
<1>1. UNCHANGED serverVars => UNCHANGED Server!vars
  BY DEF serverVars, Server!vars, Server!issueVars
<1>2. QED
  BY <1>1, PipelineSteps, SdkSideSteps, ServerSideSteps DEF Unauthorized, pipelineVars, sdkVars

LEMMA SendEffect ==
  ASSUME TypeOK, LinkTypeOK, NEW c \in Client, Send(c)
  PROVE  \E b \in Body :
           /\ worker.at = "post" /\ EventOf(b) = worker.ev /\ worker.ev \in Event
           /\ req' = [req EXCEPT ![c] = [op |-> "ingest", body |-> b, key |-> AppKey]]
           /\ link' = c /\ link = NoLink /\ reply = "none"
           /\ UNCHANGED <<raw, eventCount, status, vars, reply, denied>>
<1>1. worker.ev \in Event
  BY WorkerCases DEF Send, Posting, TypeOK
<1>2. PICK b \in Body : EventOf(b) = worker.ev /\ Server!Authenticate(c, b, AppKey)
  BY <1>1, Bodies DEF Send
<1>3. QED
  BY <1>1, <1>2 DEF Send, Posting, Server!Authenticate, Server!issueVars, sdkVars

LEMMA MemberEffect ==
  ASSUME LinkTypeOK, Received, MemberStep
  PROVE  /\ UNCHANGED <<raw, eventCount, vars, linkVars>>
         /\ \/ status' = status
            \/ \E f \in Issue, s \in Promise!Decisions :
                 status[f] # "none" /\ status' = [status EXCEPT ![f] = s]
         /\ \/ req' = req /\ status' = status
            \/ \E c \in Client, f \in Issue, s \in Server!Status :
                 /\ req[c] = Server!NoRequest /\ status[f] # "none" /\ status' = status
                 /\ req' = [req EXCEPT ![c] = [op |-> "status", issue |-> f, to |-> s, seen |-> status[f]]]
            \/ \E c \in Client :
                 /\ req[c].op = "status" /\ req' = [req EXCEPT ![c] = Server!NoRequest]
                 /\ status' = [status EXCEPT ![req[c].issue] = req[c].to]
<1>1. ASSUME NEW c \in Client, NEW f \in Issue, NEW s \in Server!Status, Server!OpenStatus(c, f, s)
      PROVE  /\ req[c] = Server!NoRequest /\ status[f] # "none"
             /\ req' = [req EXCEPT ![c] = [op |-> "status", issue |-> f, to |-> s, seen |-> status[f]]]
             /\ UNCHANGED <<raw, eventCount, status>>
  BY <1>1 DEF Server!OpenStatus, Server!Exists, Server!issueVars
<1>2. ASSUME NEW c \in Client, Server!WriteStatus(c)
      PROVE  /\ req[c].op = "status" /\ req' = [req EXCEPT ![c] = Server!NoRequest]
             /\ req[c].issue \in Issue /\ req[c].to \in Promise!Decisions /\ status[req[c].issue] # "none"
             /\ status' = [status EXCEPT ![req[c].issue] = req[c].to]
             /\ UNCHANGED <<raw, eventCount>>
  BY <1>2, RequestCases
     DEF Server!WriteStatus, Server!Commit, Server!Finish, Received, Promise!Decisions, Server!Status
<1>3. CASE Server!CreateIngestKey(AppKey) \/ Server!RevokeIngestKey(AppKey)
  BY <1>3 DEF MemberStep, Server!CreateIngestKey, Server!RevokeIngestKey, Server!issueVars, sdkVars
<1>4. QED
  BY <1>1, <1>2, <1>3 DEF MemberStep, sdkVars
-----------------------------------------------------------------------------
(* Pipeline: the inductive invariant. *)

LEMMA LinkTypeNext ==
  ASSUME TypeOK, LinkTypeOK, Received, PipelineNext
  PROVE  LinkTypeOK'
<1>1. CASE AppStep \/ AppCrash
  BY <1>1 DEF AppStep, AppCrash, serverVars, linkVars, LinkTypeOK
<1>2. CASE Delivered \/ Rejected \/ NotAnswered \/ Unauthorized
  BY <1>2, WorkerCases
     DEF Delivered, Rejected, RejectedWith, NotAnswered, Unauthorized, Posting, serverVars, LinkTypeOK, TypeOK
<1>3. ASSUME NEW c \in Client, Send(c)
      PROVE  LinkTypeOK'
  <2>1. PICK b \in Body :
          /\ req' = [req EXCEPT ![c] = [op |-> "ingest", body |-> b, key |-> AppKey]]
          /\ link' = c /\ UNCHANGED <<raw, eventCount, status, reply, denied>>
    BY <1>3, SendEffect
  <2>2. [op |-> "ingest", body |-> b, key |-> AppKey] \in Server!Request
    BY PipelineAssumption DEF Server!Request
  <2>3. QED
    BY <2>1, <2>2 DEF LinkTypeOK
<1>4. Server!NoRequest \in Server!Request
  BY DEF Server!Request
<1>5. ASSUME NEW c \in Client, Serve(c)
      PROVE  LinkTypeOK'
  <2>1. link' \in Client \cup {NoLink} /\ reply' \in {"none", "stored", "refused", "failed"} /\ denied' = denied
    BY <1>5 DEF Serve, Answers, LinkTypeOK
  <2>2. PICK e, f : e = EventOf(req[c].body) /\ f = IssueOf[e]
    OBVIOUS
  <2>3. req[c].body \in Body /\ e \in Event /\ f \in Issue /\ req' = [req EXCEPT ![c] = Server!NoRequest]
    BY <1>5, <2>2, IngestEffect, RequestCases DEF Serve
  <2>4. \/ UNCHANGED <<raw, eventCount, status>>
        \/ /\ raw' = [raw EXCEPT ![e] = req[c].body]
           /\ eventCount' = [eventCount EXCEPT ![f] = @ + 1]
           /\ status' = [status EXCEPT ![f] = Promise!Reopened(@)]
    BY <1>5, <2>2, IngestEffect DEF Serve
  <2>5. \A s \in Server!Status \cup {"none"} : Promise!Reopened(s) \in Server!Status
    BY DEF Promise!Reopened, Server!Status
  <2>6. QED
    BY <1>4, <2>1, <2>3, <2>4, <2>5 DEF LinkTypeOK
<1>6. ASSUME NEW c \in Client, ServerFails(c)
      PROVE  LinkTypeOK'
  BY <1>4, <1>6 DEF ServerFails, Server!Abandon, Server!Finish, Server!issueVars, Answers, LinkTypeOK
<1>7. CASE MemberStep
  <2>1. UNCHANGED <<raw, eventCount, link, reply, denied>>
    BY <1>7, MemberEffect DEF linkVars
  <2>2. status' \in [Issue -> Server!Status \cup {"none"}]
    BY <1>7, MemberEffect DEF LinkTypeOK, Promise!Decisions, Server!Status
  <2>3. req' \in [Client -> Server!Request]
    <3>1. ASSUME NEW f \in Issue, NEW s \in Server!Status, status[f] # "none"
          PROVE  [op |-> "status", issue |-> f, to |-> s, seen |-> status[f]] \in Server!Request
      BY <3>1 DEF LinkTypeOK, Server!Request
    <3>2. QED
      BY <1>4, <1>7, <3>1, MemberEffect DEF LinkTypeOK
  <2>4. QED
    BY <2>1, <2>2, <2>3 DEF LinkTypeOK
<1>8. QED
  BY <1>1, <1>2, <1>3, <1>5, <1>6, <1>7 DEF PipelineNext

\* What was captured stays captured, whoever takes the step.
LEMMA AskedAlways ==
  ASSUME TypeOK, Holding, [PipelineNext]_pipelineVars, NEW e \in Event, Asked(e)
  PROVE  Asked(e)'
<1>1. CASE Next
  BY <1>1, AskedStays
<1>2. CASE UNCHANGED vars
  BY <1>2 DEF vars, Asked
<1>3. QED
  BY <1>1, <1>2, EachSide

LEMMA OriginAlways ==
  ASSUME TypeOK, Waiting, Holding, Origin, [PipelineNext]_pipelineVars
  PROVE  Origin'
<1>1. CASE Next
  BY <1>1, OriginNext
<1>2. CASE UNCHANGED vars
  BY <1>2 DEF vars, Origin, Asked, Settled, Queued, InHand, Spooled
<1>3. QED
  BY <1>1, <1>2, EachSide

LEMMA ReceivedNext ==
  ASSUME TypeOK, Holding, LinkTypeOK, Origin, Received, PipelineNext
  PROVE  Received'
<1>1. \A c \in Client : req[c].op = "ingest" => EventOf(req[c].body) \in Event
  BY RequestCases
<1>2. \A e \in Event : Asked(e) => Asked(e)'
  BY AskedAlways
<1>3. CASE UNCHANGED <<req, status, eventCount>>
  BY <1>1, <1>2, <1>3 DEF Received, Asked, EventOf
<1>4. ASSUME NEW c \in Client, Send(c)
      PROVE  Received'
  <2>1. PICK b \in Body :
          /\ worker.at = "post" /\ EventOf(b) = worker.ev /\ worker.ev \in Event
          /\ req' = [req EXCEPT ![c] = [op |-> "ingest", body |-> b, key |-> AppKey]]
          /\ UNCHANGED <<raw, eventCount, status, vars>>
    BY <1>4, SendEffect
  <2>2. Asked(EventOf(b))
    BY <2>1 DEF Origin, InHand
  <2>3. answer' = answer
    BY <2>1 DEF vars
  <2>4. ASSUME NEW d \in Client
        PROVE  /\ req'[d].op = "ingest" => answer[EventOf(req'[d].body)] # "none"
               /\ req'[d].op = "status" => status[req'[d].issue] # "none"
    BY <2>1, <2>2, <2>4 DEF Received, Asked, LinkTypeOK
  <2>5. QED
    BY <2>1, <2>3, <2>4 DEF Received, Asked, EventOf
<1>5. ASSUME NEW c \in Client, req' = [req EXCEPT ![c] = Server!NoRequest], UNCHANGED answer,
             \A f \in Issue : status[f] # "none" => status'[f] # "none",
             \A f \in Issue : status'[f] = "none" => eventCount'[f] = eventCount[f]
      PROVE  Received'
  <2>1. ASSUME NEW d \in Client
        PROVE  /\ req'[d].op = "ingest" => answer[EventOf(req'[d].body)] # "none"
               /\ req'[d].op = "status" => status'[req'[d].issue] # "none"
    BY <1>5, <2>1, RequestCases DEF Received, Asked, LinkTypeOK, Server!NoRequest
  <2>2. QED
    BY <1>5, <2>1 DEF Received, Asked, EventOf
<1>6. ASSUME NEW c \in Client, Serve(c)
      PROVE  Received'
  <2>1. PICK e, f : e = EventOf(req[c].body) /\ f = IssueOf[e]
    OBVIOUS
  <2>2. /\ f \in Issue /\ req' = [req EXCEPT ![c] = Server!NoRequest]
        /\ \/ UNCHANGED <<eventCount, status>>
           \/ /\ eventCount' = [eventCount EXCEPT ![f] = @ + 1]
              /\ status' = [status EXCEPT ![f] = Promise!Reopened(@)]
    BY <1>6, <2>1, IngestEffect DEF Serve
  <2>3. \A g \in Issue : status'[g] = "none" => eventCount'[g] = eventCount[g]
    BY <2>2 DEF Promise!Reopened, LinkTypeOK
  <2>4. \A g \in Issue : status[g] # "none" => status'[g] # "none"
    BY <1>6, <2>1, StoredAfterIngest DEF Serve
  <2>5. answer' = answer
    BY <1>6 DEF Serve, sdkVars, vars, appVars
  <2>6. QED
    BY <1>5, <2>2, <2>3, <2>4, <2>5
<1>7. ASSUME NEW c \in Client, ServerFails(c)
      PROVE  Received'
  BY <1>5, <1>7 DEF ServerFails, Server!Abandon, Server!Finish, Server!issueVars, sdkVars, vars
<1>8. CASE MemberStep
  <2>1. answer' = answer /\ eventCount' = eventCount
    BY <1>8, MemberEffect DEF vars
  <2>2. \A f \in Issue : status[f] # "none" <=> status'[f] # "none"
    BY <1>8, MemberEffect DEF LinkTypeOK, Promise!Decisions
  <2>3. CASE req' = req
    <3>1. \A c \in Client : req[c].op = "status" => req[c].issue \in Issue
      BY RequestCases
    <3>2. QED
      BY <2>1, <2>2, <2>3, <3>1 DEF Received, Asked, EventOf
  <2>4. ASSUME NEW c \in Client, NEW f \in Issue, NEW s \in Server!Status,
               status[f] # "none", status' = status,
               req' = [req EXCEPT ![c] = [op |-> "status", issue |-> f, to |-> s, seen |-> status[f]]]
        PROVE  Received'
    <3>1. ASSUME NEW d \in Client
          PROVE  /\ req'[d].op = "ingest" => answer[EventOf(req'[d].body)] # "none"
                 /\ req'[d].op = "status" => status[req'[d].issue] # "none"
      BY <2>4, <3>1 DEF Received, Asked, LinkTypeOK
    <3>2. QED
      BY <2>1, <2>4, <3>1 DEF Received, Asked, EventOf
  <2>5. ASSUME NEW c \in Client, req' = [req EXCEPT ![c] = Server!NoRequest]
        PROVE  Received'
    BY <1>5, <2>1, <2>2, <2>5
  <2>6. QED
    BY <1>8, <2>3, <2>4, <2>5, MemberEffect
<1>9. QED
  BY <1>3, <1>4, <1>6, <1>7, <1>8
     DEF PipelineNext, AppStep, AppCrash, Unauthorized, Delivered, Rejected, RejectedWith, NotAnswered,
         serverVars

\* A sender that posts keeps posting until its answer comes.
LEMMA PostStays ==
  ASSUME TypeOK, Holding, AppStep, worker.at = "post"
  PROVE  worker'.at = "post" /\ worker'.ev = worker.ev
<1>1. ASSUME NEW t \in Caller, CallerStep(t)
      PROVE  worker'.at = "post" /\ worker'.ev = worker.ev
  <2>1. CASE Store(t)
    BY <2>1, StoreFrame
  <2>2. CASE AbandonFlush(t)
    BY <2>2, WorkerCases DEF AbandonFlush, TypeOK
  <2>3. QED
    BY <1>1, <2>1, <2>2
       DEF CallerStep, BeginCapture, Enqueue, Spill, CaptureStopped, BeginFlush, SendFlush, BeginStop,
           SendStop, Join, AwaitExit, Proceed
<1>2. CASE SenderAlone
  <2>1. ~Store(Sender) \/ UNCHANGED worker
    BY StoreFrame
  <2>2. QED
    BY <1>2, <2>1
       DEF SenderAlone, TakeEvent, TakeFlush, TakeShutdown, IdleDrain, DrainEmpty, DrainEnds, DrainNext,
           RemoveFile
<1>3. QED
  BY <1>1, <1>2 DEF AppStep

LEMMA StoredStays ==
  ASSUME LinkTypeOK, Received, PipelineNext, NEW e \in Event, Stored(e)
  PROVE  Stored(e)'
<1>1. CASE raw' = raw
  BY <1>1 DEF Stored, Server!Stored
<1>2. ASSUME NEW c \in Client, Serve(c)
      PROVE  Stored(e)'
  <2>1. PICK d : d = EventOf(req[c].body)
    OBVIOUS
  <2>2. QED
    BY <1>2, <2>1, StoredAfterIngest DEF Serve
<1>3. ASSUME NEW c \in Client, Send(c) \/ ServerFails(c)
      PROVE  raw' = raw
  BY <1>3 DEF Send, ServerFails, Server!Authenticate, Server!Abandon
<1>4. CASE MemberStep
  BY <1>1, <1>4, MemberEffect
<1>5. QED
  BY <1>1, <1>2, <1>3, <1>4
     DEF PipelineNext, AppStep, AppCrash, Unauthorized, Delivered, Rejected, RejectedWith, NotAnswered,
         serverVars

LEMMA AwaitedNext ==
  ASSUME TypeOK, Holding, LinkTypeOK, Received, Awaited, PipelineNext
  PROVE  Awaited'
<1>1. \A e \in Event : Stored(e) => Stored(e)'
  BY StoredStays
<1>2. worker.at = "post" => worker.ev \in Event
  BY WorkerCases DEF TypeOK
<1>3. CASE AppStep
  <2>1. UNCHANGED <<raw, req, link, reply, denied>>
    BY <1>3 DEF AppStep, serverVars, linkVars
  <2>2. CASE link = NoLink /\ reply = "none"
    BY <2>1, <2>2 DEF Awaited
  <2>3. CASE ~(link = NoLink /\ reply = "none")
    <3>1. worker.at = "post" /\ worker'.at = "post" /\ worker'.ev = worker.ev
      BY <1>3, <2>3, PostStays DEF Awaited
    <3>2. QED
      BY <2>1, <3>1 DEF Awaited, Stored, Server!Stored, EventOf
  <2>4. QED
    BY <2>2, <2>3
<1>4. CASE AppCrash \/ Delivered \/ Rejected \/ NotAnswered
  <2>1. link' = NoLink /\ reply' = "none"
    BY <1>4, PipelineAssumption DEF AppCrash, Delivered, Rejected, RejectedWith, NotAnswered, Awaited
  <2>2. QED
    BY <2>1 DEF Awaited
<1>5. CASE Unauthorized
  <2>1. /\ worker.at = "post" /\ link = NoLink /\ link' = NoLink /\ reply' = "refused"
        /\ denied' = IF Stored(worker.ev) THEN denied ELSE denied \cup {worker.ev}
        /\ UNCHANGED <<worker, raw>>
    BY <1>5 DEF Unauthorized, Posting, sdkVars, vars, serverVars
  <2>2. QED
    BY <2>1 DEF Awaited, Stored, Server!Stored
<1>6. ASSUME NEW c \in Client, Send(c)
      PROVE  Awaited'
  <2>1. PICK b \in Body :
          /\ worker.at = "post" /\ EventOf(b) = worker.ev
          /\ req' = [req EXCEPT ![c] = [op |-> "ingest", body |-> b, key |-> AppKey]]
          /\ link' = c /\ reply = "none" /\ reply' = "none" /\ worker' = worker
    BY <1>6, SendEffect DEF vars
  <2>2. req'[c].op = "ingest" /\ EventOf(req'[c].body) = worker.ev
    BY <2>1 DEF LinkTypeOK
  <2>3. QED
    BY <2>1, <2>2 DEF Awaited, EventOf
<1>7. ASSUME NEW c \in Client, NEW what, req' = [req EXCEPT ![c] = Server!NoRequest], Answers(c, what),
             UNCHANGED <<worker, denied>>, c = link /\ what = "stored" => Stored(worker.ev)',
             c = link /\ what = "refused" => Stored(worker.ev)' \/ worker.ev \in denied
      PROVE  Awaited'
  <2>1. CASE c = link
    <3>1. worker.at = "post" /\ link' = NoLink /\ reply' = what
      BY <1>7, <2>1, PipelineAssumption DEF Answers, Awaited
    <3>2. QED
      BY <1>7, <2>1, <3>1 DEF Awaited, Stored
  <2>2. CASE c # link
    <3>1. UNCHANGED <<link, reply>>
      BY <1>7, <2>2 DEF Answers
    <3>2. link # NoLink => req'[link] = req[link]
      BY <1>7, <2>2 DEF LinkTypeOK
    <3>3. Stored(worker.ev)' <=> worker.ev \in Server!Stored'
      BY <1>7 DEF Stored
    <3>4. QED
      BY <1>1, <1>2, <1>7, <3>1, <3>2, <3>3 DEF Awaited, EventOf, Stored
  <2>3. QED
    BY <2>1, <2>2
<1>8. ASSUME NEW c \in Client, Serve(c)
      PROVE  Awaited'
  <2>1. PICK e : e = EventOf(req[c].body)
    OBVIOUS
  <2>2. req' = [req EXCEPT ![c] = Server!NoRequest]
    BY <1>8, <2>1, IngestEffect DEF Serve
  <2>3. Stored(e)'
    BY <1>8, <2>1, StoredAfterIngest DEF Serve
  <2>4. UNCHANGED <<worker, denied>>
    BY <1>8 DEF Serve, sdkVars, vars
  <2>5. c = link => worker.ev = e
    BY <2>1, PipelineAssumption DEF Awaited
  <2>6. PICK what : Answers(c, what)
    BY <1>8 DEF Serve
  <2>7. c = link => Stored(worker.ev)'
    BY <2>3, <2>4, <2>5 DEF Stored
  <2>8. QED
    BY <1>7, <2>2, <2>4, <2>6, <2>7
<1>9. ASSUME NEW c \in Client, ServerFails(c)
      PROVE  Awaited'
  <2>1. req' = [req EXCEPT ![c] = Server!NoRequest] /\ Answers(c, "failed") /\ UNCHANGED <<worker, denied>>
    BY <1>9 DEF ServerFails, Server!Abandon, Server!Finish, sdkVars, vars
  <2>2. QED
    BY <1>7, <2>1
<1>10. CASE MemberStep
  <2>1. UNCHANGED <<raw, worker, link, reply, denied>>
    BY <1>10, MemberEffect DEF vars, linkVars
  <2>2. link # NoLink => req[link].op = "ingest" /\ link \in Client
    BY DEF Awaited, LinkTypeOK
  <2>3. link # NoLink => req'[link] = req[link]
    BY <1>10, <2>2, MemberEffect, RequestCases DEF LinkTypeOK, Server!NoRequest
  <2>4. QED
    BY <2>1, <2>3 DEF Awaited, EventOf, Stored, Server!Stored
<1>11. QED
  BY <1>3, <1>4, <1>5, <1>6, <1>8, <1>9, <1>10 DEF PipelineNext

\* Only an answer settles an event as answered.
LEMMA AnsweredByAnswer ==
  ASSUME TypeOK, AppStep \/ AppCrash, NEW e \in Event, fate'[e] = "answered"
  PROVE  fate[e] = "answered"
<1>1. ASSUME NEW p \in Caller \cup {Sender}, Store(p)
      PROVE  fate[e] = "answered"
  <2>1. PICK d \in Event :
          \/ StoreFails(p, d) \/ StoreFile(p, d) \/ Measure(p, d)
          \/ Evict(p, d) \/ StoreEnds(p, d) \/ StoreDisturbed(p, d)
    BY <1>1, StoreSteps
  <2>2. CASE StoreFails(p, d)
    BY <2>2 DEF StoreFails, Fated, First, TypeOK
  <2>3. CASE Evict(p, d)
    <3>1. PICK victim \in Spooled : Fated(victim, "evicted")
      BY <2>3 DEF Evict
    <3>2. QED
      BY <3>1 DEF Fated, First, TypeOK
  <2>4. QED
    BY <2>1, <2>2, <2>3 DEF StoreFile, Measure, StoreEnds, StoreDisturbed
<1>2. ASSUME NEW t \in Caller, CallerStep(t), ~Store(t)
      PROVE  fate' = fate
  BY <1>2
     DEF CallerStep, BeginCapture, Enqueue, Spill, CaptureStopped, BeginFlush, SendFlush, AbandonFlush,
         BeginStop, SendStop, Join, AwaitExit, Proceed
<1>3. CASE TakeShutdown \/ Crash
  BY <1>3 DEF TakeShutdown, Crash, First, TypeOK
<1>4. CASE SenderAlone /\ ~TakeShutdown /\ ~Store(Sender)
  BY <1>4 DEF SenderAlone, TakeEvent, TakeFlush, IdleDrain, DrainEmpty, DrainEnds, DrainNext, RemoveFile
<1>5. QED
  BY <1>1, <1>2, <1>3, <1>4 DEF AppStep, AppCrash, SenderAlone

LEMMA AnswersNext ==
  ASSUME TypeOK, LinkTypeOK, Received, Awaited, AnswersAreTrue, PipelineNext
  PROVE  AnswersAreTrue'
<1>1. denied \subseteq denied'
  BY DEF PipelineNext, AppStep, AppCrash, Unauthorized, Delivered, Rejected, RejectedWith, NotAnswered,
         Send, Serve, ServerFails, MemberStep, linkVars
<1>2. ASSUME NEW e \in Event, fate'[e] = "answered", fate[e] # "answered"
      PROVE  Stored(e) \/ e \in denied
  <2>1. ~AppStep /\ ~AppCrash
    BY <1>2, AnsweredByAnswer
  <2>2. PostDelivered \/ PostRejected \/ PostFails => worker.ev \in Event
    BY WorkerCases DEF PostDelivered, PostRejected, PostFails, TypeOK
  <2>3. CASE Delivered \/ Rejected
    <3>1. Fated(worker.ev, "answered") /\ worker.ev \in Event
      BY <2>2, <2>3 DEF Delivered, Rejected, RejectedWith, PostDelivered, PostRejected
    <3>2. e = worker.ev
      BY <1>2, <3>1 DEF Fated, TypeOK
    <3>3. QED
      BY <2>3, <3>2 DEF Delivered, Rejected, RejectedWith, Awaited
  <2>4. CASE NotAnswered
    <3>1. /\ PostFails /\ worker.ev \in Event /\ (Fated(worker.ev, "answered") \/ UNCHANGED fate)
          /\ ~Stored(worker.ev) => fate'[worker.ev] = fate[worker.ev]
      BY <2>2, <2>4 DEF NotAnswered, PostFails
    <3>2. e = worker.ev
      BY <1>2, <3>1 DEF Fated, TypeOK
    <3>3. QED
      BY <1>2, <3>1, <3>2
  <2>5. CASE UNCHANGED sdkVars
    BY <1>2, <2>5 DEF sdkVars, vars
  <2>6. QED
    BY <2>1, <2>3, <2>4, <2>5
       DEF PipelineNext, Unauthorized, Send, Serve, ServerFails, MemberStep
<1>3. QED
  BY <1>1, <1>2, StoredStays DEF AnswersAreTrue

PInv == IInv /\ LinkTypeOK /\ Origin /\ Received /\ Awaited /\ AnswersAreTrue

\* The server starts with empty tables: nothing here was stored before migration 0003.
LEMMA ServerStart ==
  ASSUME Server!Init
  PROVE  /\ raw = [e \in Event |-> Server!NoBody] /\ eventCount = [f \in Issue |-> 0]
         /\ status = [f \in Issue |-> "none"] /\ req = [c \in Client |-> Server!NoRequest]
<1>1. \A f \in Issue : Server!LegacyOf(f) = {}
  BY DEF Server!LegacyOf
<1>2. raw = [e \in Event |-> Server!NoBody] /\ req = [c \in Client |-> Server!NoRequest]
  BY DEF Server!Init
<1>3. status = [f \in Issue |-> "none"]
  BY <1>1 DEF Server!Init
<1> DEFINE Ids(f) == {[d \in Body |-> EventOf(d)][b] : b \in Server!LegacyOf(f)}
<1>4. eventCount = [f \in Issue |-> Server!Cardinality(Ids(f))]
  BY DEF Server!Init
<1>5. \A f \in Issue : Ids(f) = {}
  BY <1>1
<1>6. \A f \in Issue : Server!Cardinality(Ids(f)) = 0
  <2>1. Server!Cardinality({}) = Cardinality({})
    BY DEF Server!Cardinality, Cardinality, Server!IsFiniteSet, IsFiniteSet
  <2>2. QED
    BY <1>5, <2>1, FS_EmptySet
<1> HIDE DEF Ids
<1>7. eventCount = [f \in Issue |-> 0]
  BY <1>4, <1>6
<1>8. QED
  BY <1>2, <1>3, <1>7

LEMMA PInvInit ==
  ASSUME PipelineInit
  PROVE  PInv
<1>1. IInv
  BY IInvInit DEF PipelineInit
<1>2. /\ raw \in [Event -> Body \cup {Server!NoBody}] /\ eventCount = [f \in Issue |-> 0]
      /\ status \in [Issue -> Server!Status \cup {"none"}] /\ req = [c \in Client |-> Server!NoRequest]
  BY ServerStart DEF PipelineInit, Server!Status
<1>3. LinkTypeOK
  BY <1>2 DEF PipelineInit, LinkTypeOK, Server!Request
<1>4. Origin
  BY DEF PipelineInit, Init, Origin, Settled, Queued, InHand, Spooled
<1>5. Received
  BY <1>2 DEF Received, Server!NoRequest
<1>6. Awaited /\ AnswersAreTrue
  BY DEF PipelineInit, Init, Awaited, AnswersAreTrue
<1>7. QED
  BY <1>1, <1>3, <1>4, <1>5, <1>6 DEF PInv

LEMMA PInvNext ==
  ASSUME PInv, [PipelineNext]_pipelineVars
  PROVE  PInv'
<1>1. TypeOK /\ Waiting /\ Holding
  BY DEF PInv, IInv
<1>2. IInv' /\ Origin'
  BY <1>1, EachSide, IInvNext, OriginAlways DEF PInv
<1>3. CASE PipelineNext
  BY <1>1, <1>2, <1>3, LinkTypeNext, ReceivedNext, AwaitedNext, AnswersNext DEF PInv
<1>4. CASE UNCHANGED pipelineVars
  <2>1. UNCHANGED <<worker, answer, fate, raw, eventCount, status, req, link, reply, denied>>
    BY <1>4 DEF pipelineVars, sdkVars, vars, serverVars, linkVars
  <2>2. QED
    BY <1>2, <2>1 DEF PInv, LinkTypeOK, Received, Awaited, AnswersAreTrue, Asked, EventOf, Stored, Server!Stored
<1>5. QED
  BY <1>3, <1>4

LEMMA PInvHolds == PipelineSpec => []PInv
<1>1. PipelineInit => PInv
  BY PInvInit
<1>2. PInv /\ [PipelineNext]_pipelineVars => PInv'
  BY PInvNext
<1>3. QED
  BY <1>1, <1>2, PTL DEF PipelineSpec

\* Put together, the SDK and the server each behave as their own modules say: what holds of
\* SdkClient whatever its posts come to, and of Issues whatever is sent to it, holds of both
\* in Pipeline (deliver, ingest).
THEOREM PipelineParts == PipelineSpec => Spec /\ Server!Spec
<1>1. PipelineInit => Init /\ Server!Init
  BY DEF PipelineInit
<1>2. PInv /\ [PipelineNext]_pipelineVars => [Next]_vars /\ [Server!Next]_(Server!vars)
  BY EachSide DEF PInv, IInv
<1>3. QED
  BY <1>1, <1>2, PInvHolds, PTL DEF PipelineSpec, Spec, Server!Spec

\* No answer, no lack of one and no late one makes the SDK drop an event that the server has
\* not stored, but for an event whose key was refused (deliver, is_retryable, ingest).
THEOREM PipelineEndToEnd == PipelineSpec => []EndToEnd
<1>1. PInv => EndToEnd
  <2>1. ASSUME PInv, NEW e \in Ok
        PROVE  \/ Stored(e) \/ e \in Queued \cup InHand \cup Spooled
               \/ fate[e] \in {"evicted", "lost"} \/ e \in denied
    <3>1. e \in Event /\ (Settled(e) \/ e \in Queued \cup InHand \cup Spooled)
      BY <2>1 DEF PInv, IInv, NothingVanishes, Ok
    <3>2. fate[e] \in {"open", "answered", "evicted", "lost"}
      BY <2>1, <3>1 DEF PInv, IInv, TypeOK
    <3>3. QED
      BY <2>1, <3>1, <3>2 DEF PInv, AnswersAreTrue, Settled
  <2>2. QED
    BY <2>1 DEF EndToEnd
<1>2. QED
  BY <1>1, PInvHolds, PTL

\* A request that begins or ends changes what one member asks for.
LEMMA AskingMoves ==
  ASSUME NEW c \in Client, \A d \in Client \ {c} : req'[d] = req[d]
  PROVE  /\ Asking' = [Asking EXCEPT ![c] = Asking'[c]]
         /\ req[c].op # "status" => Asking[c] = Promise!NoDecision
         /\ req'[c].op # "status" => Asking'[c] = Promise!NoDecision
         /\ req[c].op = "status" => Asking[c] = [issue |-> req[c].issue, to |-> req[c].to]
         /\ req'[c].op = "status" => Asking'[c] = [issue |-> req'[c].issue, to |-> req'[c].to]
  BY DEF Asking, Promise!NoDecision

LEMMA CaptureStep ==
  ASSUME TypeOK, Holding, Next, UNCHANGED serverVars
  PROVE  [Promise!Next]_(Promise!vars)
<1>1. UNCHANGED <<Server!Stored, eventCount, status, Asking>>
  BY DEF serverVars, Server!Stored, Asking
<1>2. CASE \A e \in Event : Asked(e)' <=> Asked(e)
  <2>1. {e \in Event : answer'[e] # "none"} = {e \in Event : answer[e] # "none"}
    BY <1>2 DEF Asked
  <2>2. QED
    BY <1>1, <2>1 DEF Promise!vars
<1>3. ASSUME NEW d \in Event, Asked(d)', \A e \in Event \ {d} : Asked(e)' <=> Asked(e)
      PROVE  Promise!Next
  <2>1. {e \in Event : answer'[e] # "none"} = {e \in Event : answer[e] # "none"} \cup {d}
    BY <1>3 DEF Asked
  <2>2. Promise!Capture(d)
    BY <1>1, <2>1 DEF Promise!Capture
  <2>3. QED
    BY <2>2 DEF Promise!Next
<1>4. QED
  BY <1>2, <1>3, AskedMoves

LEMMA CountStep ==
  ASSUME LinkTypeOK, Received, NEW c \in Client, Serve(c)
  PROVE  [Promise!Next]_(Promise!vars)
<1>1. PICK e, f : e = EventOf(req[c].body) /\ f = IssueOf[e]
  OBVIOUS
<1>2. answer' = answer
  BY DEF Serve, sdkVars, vars, appVars
<1>3. /\ req[c].op = "ingest" /\ e \in Event /\ f \in Issue
      /\ \/ Stored(e) /\ UNCHANGED <<raw, eventCount, status>>
         \/ /\ ~Stored(e) /\ raw' = [raw EXCEPT ![e] = req[c].body]
            /\ eventCount' = [eventCount EXCEPT ![f] = @ + 1]
            /\ status' = [status EXCEPT ![f] = Promise!Reopened(@)]
      /\ req' = [req EXCEPT ![c] = Server!NoRequest]
  BY <1>1, IngestEffect DEF Serve
<1>4. Asking' = Asking
  <2>1. req'[c].op = "none" /\ \A d \in Client \ {c} : req'[d] = req[d]
    BY <1>3 DEF LinkTypeOK, Server!NoRequest
  <2>2. QED
    BY <1>3, <2>1 DEF Asking
<1>5. CASE UNCHANGED <<raw, eventCount, status>>
  BY <1>2, <1>4, <1>5 DEF Promise!vars, Server!Stored
<1>6. CASE /\ ~Stored(e) /\ raw' = [raw EXCEPT ![e] = req[c].body]
           /\ eventCount' = [eventCount EXCEPT ![f] = @ + 1]
           /\ status' = [status EXCEPT ![f] = Promise!Reopened(@)]
  <2>1. req[c].body # Server!NoBody
    BY <1>3, RequestCases, BodyAssumption
  <2>2. Server!Stored' = Server!Stored \cup {e}
    BY <1>3, <1>6, <2>1 DEF LinkTypeOK, Server!Stored
  <2>3. e \in {d \in Event : answer[d] # "none"} \ Server!Stored
    BY <1>1, <1>3, <1>6 DEF Received, Asked, Stored
  <2>4. Promise!Count(e)
    BY <1>1, <1>2, <1>4, <1>6, <2>2, <2>3 DEF Promise!Count
  <2>5. QED
    BY <1>3, <2>4 DEF Promise!Next
<1>7. QED
  BY <1>3, <1>5, <1>6

\* Only a member's own request, when it is granted, decides about an issue.
LEMMA DecideStep ==
  ASSUME LinkTypeOK, Received, MemberStep
  PROVE  [Promise!Next]_(Promise!vars)
<1>1. UNCHANGED <<answer, Server!Stored, eventCount>>
  BY MemberEffect DEF vars, Server!Stored
<1>2. CASE req' = req /\ status' = status
  BY <1>1, <1>2 DEF Promise!vars, Asking
<1>3. ASSUME NEW c \in Client, NEW f \in Issue, NEW s \in Server!Status,
             req[c] = Server!NoRequest, status[f] # "none", status' = status,
             req' = [req EXCEPT ![c] = [op |-> "status", issue |-> f, to |-> s, seen |-> status[f]]]
      PROVE  Promise!Next
  <2>1. /\ req[c].op = "none" /\ \A d \in Client \ {c} : req'[d] = req[d]
        /\ req'[c].op = "status" /\ req'[c].issue = f /\ req'[c].to = s
    BY <1>3 DEF LinkTypeOK, Server!NoRequest
  <2>2. /\ Asking' = [Asking EXCEPT ![c] = [issue |-> f, to |-> s]]
        /\ Asking[c] = Promise!NoDecision
    BY <2>1, AskingMoves
  <2>3. Promise!Ask(c, f, s)
    BY <1>1, <1>3, <2>2 DEF Promise!Ask
  <2>4. s \in Promise!Decisions
    BY DEF Server!Status, Promise!Decisions
  <2>5. QED
    BY <2>3, <2>4 DEF Promise!Next
<1>4. ASSUME NEW c \in Client, req[c].op = "status", req' = [req EXCEPT ![c] = Server!NoRequest],
             status' = [status EXCEPT ![req[c].issue] = req[c].to]
      PROVE  Promise!Next
  <2>1. req'[c].op = "none" /\ \A d \in Client \ {c} : req'[d] = req[d]
    BY <1>4 DEF LinkTypeOK, Server!NoRequest
  <2>2. Asking' = [Asking EXCEPT ![c] = Promise!NoDecision]
    BY <2>1, AskingMoves
  <2>3. Asking[c].issue = req[c].issue /\ Asking[c].to = req[c].to
    BY <1>4 DEF Asking
  <2>4. req[c].to # "none"
    BY <1>4, RequestCases DEF Server!Status
  <2>5. Asking[c] # Promise!NoDecision
    BY <2>3, <2>4 DEF Promise!NoDecision
  <2>6. Promise!Decide(c)
    BY <1>1, <1>4, <2>2, <2>3, <2>5 DEF Promise!Decide
  <2>7. QED
    BY <2>6 DEF Promise!Next
<1>5. QED
  BY <1>2, <1>3, <1>4, MemberEffect

\* A post that arrives asks for no decision; a request that fails asks no more.
LEMMA NoDecisionStep ==
  ASSUME LinkTypeOK, NEW c \in Client, Send(c) \/ ServerFails(c)
  PROVE  [Promise!Next]_(Promise!vars)
<1>1. UNCHANGED <<answer, Server!Stored, eventCount, status>>
  BY DEF Send, ServerFails, Server!Authenticate, Server!Abandon, Server!issueVars, Server!Stored,
         sdkVars, vars
<1>2. CASE Send(c)
  <2>1. req[c].op = "none" /\ req'[c].op = "ingest" /\ \A d \in Client \ {c} : req'[d] = req[d]
    BY <1>2 DEF Send, Server!Authenticate, Server!NoRequest, LinkTypeOK
  <2>2. Asking' = Asking
    BY <2>1 DEF Asking
  <2>3. QED
    BY <1>1, <2>2 DEF Promise!vars
<1>3. CASE ServerFails(c)
  <2>1. req'[c].op = "none" /\ \A d \in Client \ {c} : req'[d] = req[d]
    BY <1>3 DEF ServerFails, Server!Abandon, Server!Finish, Server!NoRequest, LinkTypeOK
  <2>2. Asking' = [Asking EXCEPT ![c] = Promise!NoDecision]
    BY <2>1, AskingMoves
  <2>3. Promise!Dismiss(c)
    BY <1>1, <2>2 DEF Promise!Dismiss
  <2>4. QED
    BY <2>3 DEF Promise!Next
<1>4. QED
  BY <1>2, <1>3

\* The server counts each captured event once, at most, and with that reopens its issue if it was
\* resolved; nothing else changes a status but the grant of a member's request, so a copy of a
\* counted event reopens nothing, whatever is sent twice, late or with other bytes ("The SDK
\* preserves generated event IDs across spool retries", README.md:363).
THEOREM PipelineCollection == PipelineSpec => ImplementsCollection
<1>1. PipelineInit => Promise!Init
  <2>1. ASSUME PipelineInit
        PROVE  /\ {e \in Event : answer[e] # "none"} = {} /\ Server!Stored = {}
               /\ status = [f \in Issue |-> "none"] /\ eventCount = [f \in Issue |-> 0]
    BY <2>1, ServerStart DEF PipelineInit, Init, Server!Stored
  <2>2. ASSUME PipelineInit
        PROVE  Asking = [c \in Client |-> Promise!NoDecision]
    BY <2>2 DEF PipelineInit, Server!Init, Server!NoRequest, Promise!NoDecision, Asking
  <2>3. QED
    BY <2>1, <2>2 DEF Promise!Init
<1>2. PInv /\ [PipelineNext]_pipelineVars => [Promise!Next]_(Promise!vars)
  <2> SUFFICES ASSUME PInv, [PipelineNext]_pipelineVars
               PROVE  [Promise!Next]_(Promise!vars)
    OBVIOUS
  <2>1. CASE SdkAlone
    BY <2>1, SdkSideSteps, CaptureStep DEF PInv, IInv
  <2>2. CASE MemberStep
    BY <2>2, DecideStep DEF PInv
  <2>3. ASSUME NEW c \in Client, Serve(c)
        PROVE  [Promise!Next]_(Promise!vars)
    BY <2>3, CountStep DEF PInv
  <2>4. ASSUME NEW c \in Client, Send(c) \/ ServerFails(c)
        PROVE  [Promise!Next]_(Promise!vars)
    BY <2>4, NoDecisionStep DEF PInv
  <2>5. CASE Unauthorized \/ UNCHANGED pipelineVars
    <3>1. UNCHANGED <<answer, raw, eventCount, status, req>>
      BY <2>5 DEF Unauthorized, pipelineVars, sdkVars, vars, serverVars
    <3>2. QED
      BY <3>1 DEF Promise!vars, Server!Stored, Asking
  <2>6. QED
    BY <2>1, <2>2, <2>3, <2>4, <2>5, PipelineSteps DEF ServerAlone
<1>3. QED
  BY <1>1, <1>2, PInvHolds, PTL DEF PipelineSpec, ImplementsCollection, Promise!Spec
=============================================================================
