----------------------------- MODULE LogCapture ------------------------------
(***************************************************************************)
(* The log capture of the SDK's Bevy integration: a tracing layer sends the *)
(* log events of every thread into a channel, and a system of the game loop *)
(* drains it into the client under a rate limit and a suppression of        *)
(* duplicates (crates/zbierak-sdk/src/bevy.rs).  Level, target and frames   *)
(* are left out: an event the layer filters out is no step.                 *)
(***************************************************************************)
EXTENDS Integers, Sequences, FiniteSets

CONSTANTS Message,      \* texts of log events
          RateWindow,   \* rate_window
          MaxEvents,    \* max_events_per_window
          Suppression,  \* duplicate_suppression
          MaxTracked,   \* max_tracked_messages
          Never,        \* None, for an Instant
          MaxPending, MaxSent, MaxTime  \* bounds of the model

ASSUME LogCaptureAssumption ==
  /\ RateWindow \in Nat /\ MaxEvents \in Nat /\ Suppression \in Nat /\ MaxTracked \in Nat
  /\ MaxPending \in Nat /\ MaxSent \in Nat /\ MaxTime \in Nat
  /\ Never \notin Nat
  /\ IsFiniteSet(Message)

VARIABLES pending,       \* the channel
          lastSent,      \* last_sent: when a message was forwarded, as far as remembered
          windowStart,   \* window_start
          sentInWindow,  \* sent_in_window
          now,           \* Instant::now()
          sent           \* history: what the client took, and when

vars == <<pending, lastSent, windowStart, sentInWindow, now, sent>>

Instant == Nat \cup {Never}

TypeOK ==
  /\ pending \in Seq(Message)
  /\ lastSent \in [Message -> Instant]
  /\ windowStart \in Instant
  /\ sentInWindow \in 0 .. MaxEvents
  /\ now \in Nat
  /\ sent \in Seq([msg : Message, at : Nat])

Init ==
  /\ pending = <<>>
  /\ lastSent = [m \in Message |-> Never]
  /\ windowStart = Never /\ sentInWindow = 0
  /\ now = 0 /\ sent = <<>>
-----------------------------------------------------------------------------
(* What process_captured computes for one log event. *)

Expired == windowStart = Never \/ now - windowStart >= RateWindow

\* Mutated form: a new window does not get a start of its own.
StartOnce == IF windowStart = Never THEN now ELSE windowStart

\* The window the event falls in, and what it has seen.
Start == IF Expired THEN now ELSE windowStart
Count == IF Expired THEN 0 ELSE sentInWindow

Limited == Count >= MaxEvents

Repeated(m) == lastSent[m] # Never /\ now - lastSent[m] < Suppression

Tracked == {m \in Message : lastSent[m] # Never}

\* Mutated form: entry(m).or_insert(now).
RememberFirst(m) ==
  [x \in Message |-> IF x = m /\ lastSent[x] = Never THEN now
                     ELSE IF Cardinality(Tracked) >= MaxTracked THEN Never
                     ELSE lastSent[x]]

\* A full table is forgotten before m is entered.
Remember(m) ==
  [x \in Message |-> IF x = m THEN now
                     ELSE IF Cardinality(Tracked) >= MaxTracked THEN Never
                     ELSE lastSent[x]]
-----------------------------------------------------------------------------
\* on_event, on any thread.
Emit(m) ==
  /\ Len(pending) < MaxPending
  /\ pending' = Append(pending, m)
  /\ UNCHANGED <<lastSent, windowStart, sentInWindow, now, sent>>

\* One round of the loop of process_captured: a window that has expired is replaced,
\* whatever happens to the event.
Receive ==
  /\ pending # <<>>
  /\ pending' = Tail(pending)
  /\ windowStart' = Start

\* Over the limit, or a duplicate.
Drop ==
  /\ Receive
  /\ Limited \/ Repeated(Head(pending))
  /\ sentInWindow' = Count
  /\ UNCHANGED <<lastSent, now, sent>>

Forward ==
  LET m == Head(pending)
  IN /\ Receive
     /\ ~Limited /\ ~Repeated(m) /\ Len(sent) < MaxSent
     /\ sentInWindow' = Count + 1
     /\ lastSent' = Remember(m)
     /\ sent' = Append(sent, [msg |-> m, at |-> now])
     /\ UNCHANGED now

\* Mutated form: the message is remembered before the client has taken it.
RefuseRemembered ==
  /\ Receive
  /\ ~Limited /\ ~Repeated(Head(pending))
  /\ sentInWindow' = Count
  /\ lastSent' = Remember(Head(pending))
  /\ UNCHANGED <<now, sent>>

\* capture_event fails: the event is invalid, cannot be spooled, or the client has
\* been shut down.
Refuse ==
  /\ Receive
  /\ ~Limited /\ ~Repeated(Head(pending))
  /\ sentInWindow' = Count
  /\ UNCHANGED <<lastSent, now, sent>>

Tick ==
  /\ now < MaxTime
  /\ now' = now + 1
  /\ UNCHANGED <<pending, lastSent, windowStart, sentInWindow, sent>>

Next == \/ \E m \in Message : Emit(m)
        \/ Drop \/ Forward \/ Refuse \/ Tick

Spec == Init /\ [][Next]_vars
-----------------------------------------------------------------------------
(* Properties. *)

\* What the client took less than w ago.
Recent(w) == {k \in DOMAIN sent : now - sent[k].at < w}

Forwarded == {sent[k].msg : k \in DOMAIN sent}

\* Some message was forwarded again within the suppression time.
EarlyRepeat ==
  \E j, k \in DOMAIN sent :
    j < k /\ sent[j].msg = sent[k].msg /\ sent[k].at - sent[j].at < Suppression

\* No event is lost that is not due to be: one is dropped only if the limit was used
\* up, or the same message forwarded, by events the client really took within the
\* window or the suppression time before (process_captured counts and remembers after
\* capture_event, not before).
DropsAreDue ==
  \A m \in Message :
    /\ Limited => Cardinality(Recent(RateWindow)) >= MaxEvents
    /\ Repeated(m) => \E k \in Recent(Suppression) : sent[k].msg = m

\* The rate the code does guarantee: windows are laid end to end, so a stretch of
\* rate_window may see the end of one and the start of the next.
TwoWindowsAtMost == Cardinality(Recent(RateWindow)) <= 2 * MaxEvents

\* As long as there are fewer different messages than max_tracked_messages, none is
\* forwarded twice within the suppression time.
NoEarlyRepeats == Cardinality(Forwarded) < MaxTracked => ~EarlyRepeat

\* The inductive part: the last sentInWindow forwarded events belong to the window, and
\* whatever is remembered was forwarded at that time.
Bookkeeping ==
  /\ windowStart # Never => windowStart <= now
  /\ sentInWindow <= Len(sent)
  /\ \A k \in DOMAIN sent :
       /\ sent[k].at <= now
       /\ k > Len(sent) - sentInWindow => windowStart # Never /\ windowStart <= sent[k].at
  /\ \A m \in Message :
       lastSent[m] # Never => \E k \in DOMAIN sent : sent[k] = [msg |-> m, at |-> lastSent[m]]

\* While the table has room, it remembers the last time of every message.
RemembersAll ==
  Cardinality(Forwarded) < MaxTracked =>
    /\ ~EarlyRepeat
    /\ \A k \in DOMAIN sent : /\ lastSent[sent[k].msg] # Never
                              /\ sent[k].at <= lastSent[sent[k].msg]
=============================================================================
