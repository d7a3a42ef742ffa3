------------------------------ MODULE SdkClient ------------------------------
(***************************************************************************)
(* zbierak-sdk: the threads of an application that capture events, flush   *)
(* and shut down, the bounded queue between them and the sender, and the   *)
(* spool on disk (crates/zbierak-sdk/src/lib.rs, async_client.rs,          *)
(* blocking.rs).  Both clients run the same worker.  Clones of the async   *)
(* client may be used during a shutdown (Shared); the blocking client      *)
(* stops when its last handle is dropped.                                  *)
(*                                                                         *)
(* A mutex protects the spool, but the sender removes the file it has      *)
(* delivered without it: storing is therefore several steps.  Deadlines    *)
(* and I/O errors come at any time.                                        *)
(***************************************************************************)
EXTENDS Integers, Sequences, FiniteSetsExt

CONSTANTS
  Event,       \* events the application captures, each under its own id
  Size,        \* Size[e]: bytes of e in the spool
  MaxBytes,    \* bytes the spool may hold
  QueueCap,    \* queue_capacity
  Caller,      \* threads of the application
  Sender,      \* the worker
  Nobody,      \* no one waits for the answer, or no one has the spool
  Shared,      \* the async client
  Monotonic,   \* the clock that names the files never goes back
  Faulty,      \* file operations may fail
  MaxStamp,    \* bound: times of the clock
  MaxCrashes   \* bound: crashes of the application

ASSUME SdkAssumption ==
  /\ Size \in [Event -> Nat \ {0}] /\ MaxBytes \in Nat /\ QueueCap \in Nat \ {0}
  /\ Sender \notin Caller /\ Nobody \notin Caller /\ Nobody # Sender
  /\ Shared \in BOOLEAN /\ Monotonic \in BOOLEAN /\ Faulty \in BOOLEAN
  /\ MaxStamp \in Nat /\ MaxCrashes \in Nat

VARIABLES
  queue,     \* commands on their way to the sender
  stamp,     \* stamp[e]: the time in the name of e's file; 0: there is none
  spoolLock, \* who holds the spool's mutex to store what, and the names it has listed
  worker,    \* what the sender is doing
  caller,    \* what each thread is doing
  stopping,  \* Inner.shutdown, or the last handle is gone
  handle,    \* Inner.worker still has the sender's handle
  answer,    \* answer[e]: what the capture of e returned
  fate,      \* history: what became of e first: the server accepted it or refused it
             \* for good, the bound evicted it, it was lost with the process or a file
  crashes    \* history: crashes so far

vars == <<queue, stamp, spoolLock, worker, caller, stopping, handle, answer, fate, crashes>>
appVars == <<caller, stopping, handle, answer>>

Listener == Caller \cup {Nobody}
Command == [do : {"event"}, ev : Event] \cup [do : {"flush"}, by : Listener] \cup {[do |-> "shutdown"]}
Unlocked == [by |-> Nobody]
Locked == [by : Caller \cup {Sender}, ev : Event, step : {"measure", "evict"}, listed : [Event -> Nat]]
Working == {[at |-> "recv"], [at |-> "stopped"]}
  \cup [at : {"post"}, ev : Event, from : {"queue"}]
  \cup [at : {"post"}, ev : Event, from : {"spool"}, by : Listener]
  \cup [at : {"store"}, ev : Event]
  \cup [at : {"remove"}, ev : Event, by : Listener]
  \cup [at : {"drain"}, by : Listener]
Calling == {[at |-> "ready"]}
  \cup [at : {"capture", "spill"}, ev : Event]
  \cup [at : {"flush", "waitFlush", "stop", "join", "wait"}, owed : SUBSET Event]
  \cup [at : {"flushed"}, owed : SUBSET Event, left : BOOLEAN]
  \cup [at : {"stopped"}, owed : SUBSET Event, waited : BOOLEAN]

Spooled == {e \in Event : stamp[e] > 0}
Queued == {queue[i].ev : i \in {j \in DOMAIN queue : queue[j].do = "event"}}
InHand == IF worker.at \in {"post", "store"} THEN {worker.ev} ELSE {}
Ok == {e \in Event : answer[e] = "ok"}
Settled(e) == fate[e] # "open"
Owed == {e \in Ok : ~Settled(e)}

TypeOK ==
  /\ queue \in Seq(Command) /\ Len(queue) <= QueueCap
  /\ stamp \in [Event -> Nat]
  /\ spoolLock \in Locked \cup {Unlocked}
  /\ worker \in Working
  /\ caller \in [Caller -> Calling]
  /\ stopping \in BOOLEAN /\ handle \in BOOLEAN
  /\ answer \in [Event -> {"none", "asked", "ok", "error"}]
  /\ fate \in [Event -> {"open", "answered", "evicted", "lost"}]
  /\ crashes \in 0 .. MaxCrashes

Ready == [at |-> "ready"]
Recv == [at |-> "recv"]
Stopped == [at |-> "stopped"]

Init ==
  /\ queue = <<>> /\ stamp = [e \in Event |-> 0] /\ spoolLock = Unlocked
  /\ worker = Recv /\ caller = [t \in Caller |-> Ready]
  /\ stopping = FALSE /\ handle = TRUE
  /\ answer = [e \in Event |-> "none"] /\ fate = [e \in Event |-> "open"]
  /\ crashes = 0
-----------------------------------------------------------------------------
(* Threads of the application. *)

\* capture_event: the event is prepared once the client is seen running.
BeginCapture(t, e) ==
  /\ caller[t] = Ready /\ (Shared \/ ~stopping)
  /\ answer[e] = "none"
  /\ answer' = [answer EXCEPT ![e] = IF stopping THEN "error" ELSE "asked"]
  /\ caller' = [caller EXCEPT ![t] = IF stopping THEN Ready ELSE [at |-> "capture", ev |-> e]]
  /\ UNCHANGED <<queue, stamp, spoolLock, worker, stopping, handle, fate, crashes>>

Returns(t, e, result) ==
  /\ caller' = [caller EXCEPT ![t] = Ready]
  /\ answer' = [answer EXCEPT ![e] = result]

Enqueue(t) ==
  /\ caller[t].at = "capture" /\ worker # Stopped
  /\ Len(queue) < QueueCap
  /\ queue' = Append(queue, [do |-> "event", ev |-> caller[t].ev])
  /\ Returns(t, caller[t].ev, "ok")
  /\ UNCHANGED <<stamp, spoolLock, worker, stopping, handle, fate, crashes>>

\* The queue is full: the thread stores the event itself.
Spill(t) ==
  /\ caller[t].at = "capture" /\ worker # Stopped
  /\ Len(queue) >= QueueCap
  /\ caller' = [caller EXCEPT ![t].at = "spill"]
  /\ UNCHANGED <<queue, stamp, spoolLock, worker, stopping, handle, answer, fate, crashes>>

CaptureStopped(t) ==
  /\ caller[t].at = "capture" /\ worker = Stopped
  /\ Returns(t, caller[t].ev, "error")
  /\ UNCHANGED <<queue, stamp, spoolLock, worker, stopping, handle, fate, crashes>>

\* flush: what was captured by now is owed.
BeginFlush(t) ==
  /\ caller[t] = Ready /\ (Shared \/ ~stopping)
  /\ caller' = [caller EXCEPT ![t] = [at |-> "flush", owed |-> Owed]]
  /\ UNCHANGED <<queue, stamp, spoolLock, worker, stopping, handle, answer, fate, crashes>>

SendFlush(t) ==
  /\ caller[t].at = "flush" /\ worker # Stopped
  /\ Len(queue) < QueueCap
  /\ queue' = Append(queue, [do |-> "flush", by |-> t])
  /\ caller' = [caller EXCEPT ![t].at = "waitFlush"]
  /\ UNCHANGED <<stamp, spoolLock, worker, stopping, handle, answer, fate, crashes>>

Unheard(b, t) == IF b = t THEN Nobody ELSE b

\* TimedOut, or SenderStopped: a report would find no one.
AbandonFlush(t) ==
  /\ caller[t].at \in {"flush", "waitFlush"}
  /\ caller' = [caller EXCEPT ![t] = Ready]
  /\ queue' = [i \in DOMAIN queue |->
       IF queue[i].do = "flush" THEN [queue[i] EXCEPT !.by = Unheard(@, t)] ELSE queue[i]]
  /\ worker' = IF worker.at \in {"drain", "remove"} \/ (worker.at = "post" /\ worker.from = "spool")
                 THEN [worker EXCEPT !.by = Unheard(@, t)] ELSE worker
  /\ UNCHANGED <<stamp, spoolLock, stopping, handle, answer, fate, crashes>>

\* shutdown of a clone, or the drop of the blocking client's last handle.
BeginStop(t) ==
  /\ caller[t] = Ready
  /\ Shared \/ (~stopping /\ \A u \in Caller : caller[u] = Ready)
  /\ stopping' = TRUE
  /\ caller' = [caller EXCEPT ![t] = [at |-> "stop", owed |-> Owed]]
  /\ UNCHANGED <<queue, stamp, spoolLock, worker, handle, answer, fate, crashes>>

SendStop(t) ==
  /\ caller[t].at = "stop"
  /\ \/ /\ worker # Stopped /\ Len(queue) < QueueCap
        /\ queue' = Append(queue, [do |-> "shutdown"])
     \/ worker = Stopped /\ UNCHANGED queue
  /\ caller' = [caller EXCEPT ![t].at = "join"]
  /\ UNCHANGED <<stamp, spoolLock, worker, stopping, handle, answer, fate, crashes>>

HasStopped(t, waited) ==
  caller' = [caller EXCEPT ![t] = [at |-> "stopped", owed |-> caller[t].owed, waited |-> waited]]

\* The first to take the handle waits; the others find none and return.
Join(t) ==
  /\ caller[t].at = "join"
  /\ \/ handle /\ handle' = FALSE /\ caller' = [caller EXCEPT ![t].at = "wait"]
     \/ ~handle /\ HasStopped(t, FALSE) /\ UNCHANGED handle
  /\ UNCHANGED <<queue, stamp, spoolLock, worker, stopping, answer, fate, crashes>>

\* Mutated form: the sender is left to itself.
AwaitExitDetached(t) ==
  /\ caller[t].at = "wait"
  /\ HasStopped(t, TRUE)
  /\ UNCHANGED <<queue, stamp, spoolLock, worker, stopping, handle, answer, fate, crashes>>

AwaitExit(t) ==
  /\ caller[t].at = "wait" /\ worker = Stopped
  /\ HasStopped(t, TRUE)
  /\ UNCHANGED <<queue, stamp, spoolLock, worker, stopping, handle, answer, fate, crashes>>

\* The application has seen the report, or that shutdown returned.
Proceed(t) ==
  /\ caller[t].at \in {"flushed", "stopped"}
  /\ caller' = [caller EXCEPT ![t] = Ready]
  /\ UNCHANGED <<queue, stamp, spoolLock, worker, stopping, handle, answer, fate, crashes>>
-----------------------------------------------------------------------------
(* The sender. *)

First(e, what) == IF fate[e] = "open" THEN what ELSE fate[e]
Fated(e, what) == fate' = [fate EXCEPT ![e] = First(e, what)]

TakeEvent ==
  /\ worker = Recv /\ queue # <<>> /\ Head(queue).do = "event"
  /\ worker' = [at |-> "post", ev |-> Head(queue).ev, from |-> "queue"]
  /\ queue' = Tail(queue)
  /\ UNCHANGED <<stamp, spoolLock, appVars, fate, crashes>>

TakeFlush ==
  /\ worker = Recv /\ queue # <<>> /\ Head(queue).do = "flush"
  /\ worker' = [at |-> "drain", by |-> Head(queue).by]
  /\ queue' = Tail(queue)
  /\ UNCHANGED <<stamp, spoolLock, appVars, fate, crashes>>

\* Mutated form: the sender stays.
TakeShutdownIgnored ==
  /\ worker = Recv /\ queue # <<>> /\ Head(queue).do = "shutdown"
  /\ queue' = Tail(queue)
  /\ UNCHANGED <<stamp, spoolLock, worker, appVars, fate, crashes>>

\* What was queued behind the command is dropped with the queue.
TakeShutdown ==
  /\ worker = Recv /\ queue # <<>> /\ Head(queue).do = "shutdown"
  /\ worker' = Stopped
  /\ queue' = <<>>
  /\ fate' = [e \in Event |-> IF e \in Queued THEN First(e, "lost") ELSE fate[e]]
  /\ UNCHANGED <<stamp, spoolLock, appVars, crashes>>

\* Mutated form: the spool is only drained by a flush.
IdleDrainNever ==
  FALSE /\ UNCHANGED vars

\* retry_interval has passed without a command.
IdleDrain ==
  /\ worker = Recv /\ queue = <<>>
  /\ worker' = [at |-> "drain", by |-> Nobody]
  /\ UNCHANGED <<queue, stamp, spoolLock, appVars, fate, crashes>>

\* The drain ends and reports to whoever asked and still waits.
Report(by, left) ==
  /\ worker' = Recv
  /\ caller' = IF by = Nobody THEN caller
               ELSE [caller EXCEPT ![by] = [at |-> "flushed", owed |-> caller[by].owed, left |-> left]]

DrainEmpty ==
  /\ worker.at = "drain" /\ spoolLock = Unlocked
  /\ Spooled = {}
  /\ Report(worker.by, FALSE)
  /\ UNCHANGED <<queue, stamp, spoolLock, stopping, handle, answer, fate, crashes>>

\* The deadline has passed, or the spool cannot be read; len counts what is left.
DrainEnds ==
  /\ worker.at = "drain" /\ spoolLock = Unlocked
  /\ Report(worker.by, Spooled # {})
  /\ UNCHANGED <<queue, stamp, spoolLock, stopping, handle, answer, fate, crashes>>

\* Files are listed by name.
Files(name) == {e \in Event : name[e] > 0}
Oldest(name) == {e \in Files(name) : \A f \in Files(name) : name[e] <= name[f]}

\* Mutated form: the file is removed before its event is delivered.
DrainNextTakes ==
  /\ worker.at = "drain" /\ spoolLock = Unlocked
  /\ \E e \in Oldest(stamp) :
       /\ worker' = [at |-> "post", ev |-> e, from |-> "spool", by |-> worker.by]
       /\ stamp' = [stamp EXCEPT ![e] = 0]
  /\ UNCHANGED <<queue, spoolLock, appVars, fate, crashes>>

DrainNext ==
  /\ worker.at = "drain" /\ spoolLock = Unlocked
  /\ \E e \in Oldest(stamp) : worker' = [at |-> "post", ev |-> e, from |-> "spool", by |-> worker.by]
  /\ UNCHANGED <<queue, stamp, spoolLock, appVars, fate, crashes>>

AfterPost ==
  worker' = IF worker.from = "queue" THEN Recv
            ELSE [at |-> "remove", ev |-> worker.ev, by |-> worker.by]

\* 2xx: the server has stored the event.
PostDelivered ==
  /\ worker.at = "post"
  /\ Fated(worker.ev, "answered") /\ AfterPost
  /\ UNCHANGED <<queue, stamp, spoolLock, appVars, crashes>>

\* An answer is_retryable does not know.
PostRejected ==
  /\ worker.at = "post"
  /\ Fated(worker.ev, "answered") /\ AfterPost
  /\ UNCHANGED <<queue, stamp, spoolLock, appVars, crashes>>

\* Mutated form: a drain that gives up reports nothing left.
RetryReportsEmpty ==
  IF worker.from = "queue"
    THEN worker' = [at |-> "store", ev |-> worker.ev] /\ UNCHANGED caller
    ELSE Report(worker.by, FALSE)

Retry ==
  IF worker.from = "queue"
    THEN worker' = [at |-> "store", ev |-> worker.ev] /\ UNCHANGED caller
    ELSE Report(worker.by, Spooled # {})

\* Delivery::Retry: no answer, although the server may have stored the event, 408, 429
\* or 5xx.
PostFails ==
  /\ worker.at = "post"
  /\ worker.from = "spool" => spoolLock = Unlocked
  /\ Retry
  /\ Fated(worker.ev, "answered") \/ UNCHANGED fate
  /\ UNCHANGED <<queue, stamp, spoolLock, stopping, handle, answer, crashes>>

\* Spool::remove takes no lock, and its errors are ignored.
RemoveFile ==
  /\ worker.at = "remove"
  /\ worker' = [at |-> "drain", by |-> worker.by]
  /\ \/ stamp' = [stamp EXCEPT ![worker.ev] = 0]
     \/ Faulty /\ UNCHANGED stamp
  /\ UNCHANGED <<queue, spoolLock, appVars, fate, crashes>>
-----------------------------------------------------------------------------
(* Spool::store, by the sender or by a thread. *)

Stores(p, e) ==
  IF p = Sender THEN worker.at = "store" /\ worker.ev = e
  ELSE caller[p].at = "spill" /\ caller[p].ev = e

\* A thread's capture has its answer; the sender ignores the result.
StoreReturns(p, e, result) ==
  IF p = Sender THEN worker' = Recv /\ UNCHANGED <<caller, answer>>
  ELSE Returns(p, e, result) /\ UNCHANGED worker

\* The event alone is larger than the spool, or writing its file fails.
StoreFails(p, e) ==
  /\ spoolLock = Unlocked /\ Stores(p, e)
  /\ Size[e] > MaxBytes \/ Faulty
  /\ StoreReturns(p, e, "error")
  /\ IF p = Sender THEN Fated(e, "lost") ELSE UNCHANGED fate
  /\ UNCHANGED <<queue, stamp, spoolLock, stopping, handle, crashes>>

\* Two files never share a name, which also carries a counter.  Only the order of names
\* matters: a clock that never goes back shows the next time.
Taken == {stamp[e] : e \in Event} \cup {0}
NextStamps ==
  {n \in 1 .. MaxStamp : IF Monotonic THEN n - 1 \in Taken /\ \A m \in Taken : m < n ELSE n \notin Taken}

\* The file appears whole, by a rename; enforce_bound lists the spool.
StoreFile(p, e) ==
  /\ spoolLock = Unlocked /\ Stores(p, e)
  /\ Size[e] <= MaxBytes
  /\ \E n \in NextStamps : stamp' = [stamp EXCEPT ![e] = n]
  /\ spoolLock' = [by |-> p, ev |-> e, step |-> "measure", listed |-> stamp']
  /\ UNCHANGED <<queue, worker, appVars, fate, crashes>>

Bytes(files) == MapThenSumSet(LAMBDA e : Size[e], files)
Listed == spoolLock.listed
Excess == Bytes(Files(Listed)) > MaxBytes

Measure(p, e) ==
  /\ spoolLock.by = p /\ spoolLock.ev = e /\ spoolLock.step = "measure"
  /\ Files(Listed) \subseteq Spooled
  /\ spoolLock' = [spoolLock EXCEPT !.step = "evict"]
  /\ UNCHANGED <<queue, stamp, worker, appVars, fate, crashes>>

\* Mutated form: the newest file goes first.
EvictNewest(p, e) ==
  /\ spoolLock.by = p /\ spoolLock.ev = e /\ spoolLock.step = "evict"
  /\ Excess
  /\ \E victim \in {f \in Files(Listed) : \A g \in Files(Listed) : Listed[g] <= Listed[f]} \cap Spooled :
       /\ stamp' = [stamp EXCEPT ![victim] = 0]
       /\ spoolLock' = [spoolLock EXCEPT !.listed[victim] = 0]
       /\ Fated(victim, "evicted")
  /\ UNCHANGED <<queue, worker, appVars, crashes>>

Evict(p, e) ==
  /\ spoolLock.by = p /\ spoolLock.ev = e /\ spoolLock.step = "evict"
  /\ Excess
  /\ \E victim \in Oldest(Listed) \cap Spooled :
       /\ stamp' = [stamp EXCEPT ![victim] = 0]
       /\ spoolLock' = [spoolLock EXCEPT !.listed[victim] = 0]
       /\ Fated(victim, "evicted")
  /\ UNCHANGED <<queue, worker, appVars, crashes>>

\* Mutated form: one file is enough.
StoreEndsEarly(p, e) ==
  /\ spoolLock.by = p /\ spoolLock.ev = e /\ spoolLock.step = "evict"
  /\ spoolLock' = Unlocked
  /\ StoreReturns(p, e, "ok")
  /\ UNCHANGED <<queue, stamp, stopping, handle, fate, crashes>>

StoreEnds(p, e) ==
  /\ spoolLock.by = p /\ spoolLock.ev = e /\ spoolLock.step = "evict"
  /\ ~Excess
  /\ spoolLock' = Unlocked
  /\ StoreReturns(p, e, "ok")
  /\ UNCHANGED <<queue, stamp, stopping, handle, fate, crashes>>

\* A listed file that is gone cannot be measured or removed: store fails, but the new
\* file stays.
StoreDisturbed(p, e) ==
  /\ spoolLock.by = p /\ spoolLock.ev = e
  /\ \/ spoolLock.step = "measure" /\ ~(Files(Listed) \subseteq Spooled)
     \/ spoolLock.step = "evict" /\ Excess /\ Oldest(Listed) \cap Spooled = {}
     \/ Faulty
  /\ spoolLock' = Unlocked
  /\ StoreReturns(p, e, "error")
  /\ UNCHANGED <<queue, stamp, stopping, handle, fate, crashes>>

Store(p) ==
  \E e \in Event :
    \/ StoreFails(p, e) \/ StoreFile(p, e) \/ Measure(p, e)
    \/ Evict(p, e) \/ StoreEnds(p, e) \/ StoreDisturbed(p, e)
-----------------------------------------------------------------------------
\* The application dies and is started again, over the same spool.  What was in memory
\* is lost; captures that had not returned have no answer.
Crash ==
  /\ crashes < MaxCrashes /\ crashes' = crashes + 1
  /\ queue' = <<>> /\ spoolLock' = Unlocked
  /\ worker' = Recv /\ caller' = [t \in Caller |-> Ready]
  /\ stopping' = FALSE /\ handle' = TRUE
  /\ answer' = [e \in Event |-> IF answer[e] = "asked" THEN "error" ELSE answer[e]]
  /\ fate' = [e \in Event |-> IF e \in Queued \cup InHand THEN First(e, "lost") ELSE fate[e]]
  /\ UNCHANGED stamp

SenderStep ==
  \/ TakeEvent \/ TakeFlush \/ TakeShutdown \/ IdleDrain
  \/ DrainEmpty \/ DrainEnds \/ DrainNext
  \/ PostDelivered \/ PostRejected \/ PostFails \/ RemoveFile
  \/ Store(Sender)

CallerStep(t) ==
  \/ \E e \in Event : BeginCapture(t, e)
  \/ Enqueue(t) \/ Spill(t) \/ CaptureStopped(t) \/ Store(t)
  \/ BeginFlush(t) \/ SendFlush(t) \/ AbandonFlush(t)
  \/ BeginStop(t) \/ SendStop(t) \/ Join(t) \/ AwaitExit(t)
  \/ Proceed(t)

Next == SenderStep \/ (\E t \in Caller : CallerStep(t)) \/ Crash

Spec == Init /\ [][Next]_vars

\* The sender is scheduled, and so is a thread that holds the spool or shuts down; a
\* healthy server answers again and again, and a drain is not always out of time.
Fairness ==
  /\ WF_vars(SenderStep)
  /\ SF_vars(PostDelivered)
  /\ SF_vars(DrainNext)
  /\ SF_vars(Store(Sender))
  /\ \A t \in Caller : /\ WF_vars(Store(t) /\ spoolLock # Unlocked)
                       /\ SF_vars(SendStop(t)) /\ WF_vars(Join(t) \/ AwaitExit(t))

FairSpec == Spec /\ Fairness
-----------------------------------------------------------------------------
(* What the threads and the sender rely on: the inductive part of the properties. *)

Safe(e) == Settled(e) \/ e \in Spooled
Kept(e) == Safe(e) \/ e \in Queued \cup InHand

\* The sender works for a flush, or for nobody.
Draining == worker.at \in {"drain", "remove"} \/ (worker.at = "post" /\ worker.from = "spool")

FlushOf(t) == {i \in DOMAIN queue : queue[i].do = "flush" /\ queue[i].by = t}
Ahead(i) == {queue[j].ev : j \in {k \in 1 .. i - 1 : queue[k].do = "event"}}

\* Whoever holds the mutex is storing, and its event is on disk until it is settled.
Holding == spoolLock # Unlocked => Stores(spoolLock.by, spoolLock.ev) /\ Safe(spoolLock.ev)

\* The sender posts from the spool what is there or settled, removes what is settled, and
\* leaves nothing queued.
Handling ==
  /\ worker.at = "post" /\ worker.from = "spool" => Safe(worker.ev)
  /\ worker.at = "remove" => Settled(worker.ev)
  /\ worker.at = "stopped" => queue = <<>>

\* A thread waits for one flush, which is queued or under way.
Waiting ==
  \A t \in Caller :
    /\ \A i, j \in FlushOf(t) : i = j
    /\ FlushOf(t) # {} => caller[t].at = "waitFlush" /\ ~(Draining /\ worker.by = t)
    /\ Draining /\ worker.by = t => caller[t].at = "waitFlush"

\* What is owed to a thread is kept; what is owed to a flush is ahead of it in the queue, in
\* the sender's hand or in the spool.
Promised ==
  \A t \in Caller :
    /\ caller[t].at \in {"flush", "stop", "join", "wait"} => \A e \in caller[t].owed : Kept(e)
    /\ \A i \in FlushOf(t) : \A e \in caller[t].owed : Safe(e) \/ e \in InHand \cup Ahead(i)
    /\ Draining /\ worker.by = t => \A e \in caller[t].owed : Safe(e)

\* Whatever is in a hand, queued or on disk was captured, and so was what is settled.
Asked(e) == answer[e] # "none"
Origin ==
  /\ \A e \in Queued \cup InHand \cup Spooled : Asked(e)
  /\ \A t \in Caller : caller[t].at \in {"capture", "spill"} => Asked(caller[t].ev)
  /\ \A e \in Event : Settled(e) => Asked(e)

\* An event is captured by one thread; until that thread stores it no one else has it, and
\* while it does so nothing has become of it.
Capturing(t, e) == caller[t].at \in {"capture", "spill"} /\ caller[t].ev = e
OneOwner == \A t, u \in Caller, e \in Event : Capturing(t, e) /\ Capturing(u, e) => t = u
Untouched ==
  \A t \in Caller, e \in Event : Capturing(t, e) =>
    /\ e \notin Queued /\ ~(worker.at \in {"post", "store", "remove"} /\ worker.ev = e)
    /\ e \in Spooled => spoolLock.by = t
    /\ Monotonic => fate[e] = "open"

\* What is in the spool was listed by whoever stores, and of that, where the clock never goes
\* back, the event being stored is the newest.
Listing ==
  spoolLock # Unlocked =>
    /\ Size[spoolLock.ev] <= MaxBytes
    /\ Spooled \subseteq Files(Listed)
    /\ Monotonic => /\ spoolLock.ev \in Files(Listed)
                    /\ \A e \in Files(Listed) \ {spoolLock.ev} : Listed[e] < Listed[spoolLock.ev]

-----------------------------------------------------------------------------
(* Properties. *)

\* An event whose capture returned Ok is queued, in the sender's hand or in the spool
\* until it is accepted, rejected, evicted by the bound or lost to a crash, a disk that
\* fails or a queue that is dropped: no interleaving of captures, spills, drains and
\* evictions forgets it.
NothingVanishes ==
  \A e \in Ok : Settled(e) \/ e \in Queued \cup InHand \cup Spooled

\* "Waits for queued events and retryable spooled events": a report that nothing remains
\* covers all that was captured before the call.
FlushCovers ==
  \A t \in Caller : caller[t].at = "flushed" /\ ~caller[t].left =>
    \A e \in caller[t].owed : Settled(e)

\* "Stops the client and waits for queued events to be attempted", for who waited.
Attempted(t) == \A e \in caller[t].owed : Settled(e) \/ e \in Spooled
WaitersSeeItDone ==
  \A t \in Caller : caller[t].at = "stopped" /\ caller[t].waited => Attempted(t)

\* The same, for every caller of shutdown.
ShutdownWaits == \A t \in Caller : caller[t].at = "stopped" => Attempted(t)

\* A capture that ends by storing its event.
Spilled(t, e) == caller[t] = [at |-> "spill", ev |-> e] /\ answer'[e] # answer[e]

\* "A full queue that can spill returns Ok -- the event is safe on disk": neither the bound
\* nor the sender, which lists files under the mutex, has taken it from there by then.
SpilledIsSafe ==
  [][\A t \in Caller, e \in Event : Spilled(t, e) /\ answer'[e] = "ok" => stamp'[e] > 0]_vars

\* A store that succeeds leaves the spool within its bound, whatever the sender removed
\* meanwhile (enforce_bound).
StoreKeepsBound ==
  [][\A t \in Caller, e \in Event : Spilled(t, e) /\ answer'[e] = "ok" =>
       Bytes(Spooled') <= MaxBytes]_vars

\* While the sender runs, every event captured is settled in the end.
CapturesSettle == \A e \in Event : (answer[e] = "ok") ~> (Settled(e) \/ worker = Stopped)

\* Whoever shuts down gets away, whatever is queued and whatever the server does.
ShutdownReturns == \A t \in Caller : (caller[t].at = "stop") ~> (caller[t].at = "stopped")
=============================================================================
