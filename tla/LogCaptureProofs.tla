--------------------------- MODULE LogCaptureProofs --------------------------
(* Proofs about LogCapture, for any window, limits and set of messages. *)
EXTENDS LogCapture, FiniteSetTheorems, TLAPS

USE LogCaptureAssumption DEF Instant

LEMMA SeqElement ==
  ASSUME NEW S, NEW s \in Seq(S), NEW k \in DOMAIN s
  PROVE  Len(s) \in Nat /\ k \in 1 .. Len(s) /\ s[k] \in S
  OBVIOUS

LEMMA SentFields ==
  ASSUME TypeOK, NEW k \in DOMAIN sent
  PROVE  /\ sent[k].msg \in Message /\ sent[k].at \in Nat
         /\ k \in 1 .. Len(sent) /\ Len(sent) \in Nat
<1>1. sent \in Seq([msg : Message, at : Nat])
  BY DEF TypeOK
<1>2. /\ Len(sent) \in Nat /\ k \in 1 .. Len(sent)
      /\ sent[k] \in [msg : Message, at : Nat]
  BY <1>1, SeqElement
<1>3. QED
  BY <1>2

LEMMA StartTypes ==
  ASSUME TypeOK
  PROVE  Start \in Nat /\ Count \in 0 .. MaxEvents
  BY DEF TypeOK, Start, Count, Expired

LEMMA RememberType ==
  ASSUME TypeOK, NEW m \in Message
  PROVE  Remember(m) \in [Message -> Instant]
  BY DEF TypeOK, Remember

LEMMA HeadTail ==
  ASSUME TypeOK, Receive
  PROVE  Head(pending) \in Message /\ pending' \in Seq(Message) /\ windowStart' \in Nat
  BY StartTypes DEF TypeOK, Receive

LEMMA TypeOKInit ==
  ASSUME Init
  PROVE  TypeOK
  BY DEF Init, TypeOK

LEMMA TypeOKNext ==
  ASSUME TypeOK, [Next]_vars
  PROVE  TypeOK'
<1>1. CASE UNCHANGED vars
  BY <1>1 DEF TypeOK, vars
<1>2. ASSUME NEW m \in Message, Emit(m)
      PROVE  TypeOK'
  BY <1>2 DEF Emit, TypeOK
<1>3. CASE Drop
  BY <1>3, StartTypes, HeadTail DEF Drop, TypeOK
<1>4. CASE Forward
  <2> DEFINE m == Head(pending)
  <2>1. m \in Message /\ pending' \in Seq(Message) /\ windowStart' \in Nat
    BY <1>4, HeadTail DEF Forward
  <2>2. lastSent' \in [Message -> Instant]
    BY <1>4, <2>1, RememberType DEF Forward
  <2>3. sentInWindow' \in 0 .. MaxEvents
    BY <1>4, StartTypes DEF Forward, Limited
  <2>4. sent' \in Seq([msg : Message, at : Nat]) /\ now' \in Nat
    BY <1>4, <2>1 DEF Forward, TypeOK
  <2>5. QED
    BY <2>1, <2>2, <2>3, <2>4 DEF TypeOK
<1>5. CASE Refuse
  BY <1>5, StartTypes, HeadTail DEF Refuse, TypeOK
<1>6. CASE Tick
  BY <1>6 DEF Tick, TypeOK
<1>7. QED
  BY <1>1, <1>2, <1>3, <1>4, <1>5, <1>6 DEF Next

\* The channel, the window, the table and the history are well formed.
THEOREM LogTypeOK == Spec => []TypeOK
<1>1. Init => TypeOK
  BY TypeOKInit
<1>2. TypeOK /\ [Next]_vars => TypeOK'
  BY TypeOKNext
<1>3. QED
  BY <1>1, <1>2, PTL DEF Spec
-----------------------------------------------------------------------------
(* The window and the table agree with what was forwarded. *)

LEMMA BookkeepingInit ==
  ASSUME Init
  PROVE  Bookkeeping
  BY DEF Init, Bookkeeping

\* A step that forwards nothing: the window goes on or a new one is empty.
LEMMA WindowMoves ==
  ASSUME TypeOK, Bookkeeping, UNCHANGED <<lastSent, now, sent>>,
         windowStart' = Start, sentInWindow' = Count
  PROVE  Bookkeeping'
<1>1. CASE Expired
  <2>1. windowStart' = now /\ sentInWindow' = 0
    BY <1>1 DEF Start, Count
  <2>2. QED
    BY <2>1 DEF Bookkeeping, TypeOK
<1>2. CASE ~Expired
  <2>1. UNCHANGED <<windowStart, sentInWindow>>
    BY <1>2 DEF Start, Count
  <2>2. QED
    BY <2>1 DEF Bookkeeping, TypeOK
<1>3. QED
  BY <1>1, <1>2

LEMMA BookkeepingForward ==
  ASSUME TypeOK, Bookkeeping, Forward
  PROVE  Bookkeeping'
<1> DEFINE m == Head(pending)
           n == Len(sent) + 1
<1>1. m \in Message
  BY HeadTail DEF Forward
<1>2. /\ sent' = Append(sent, [msg |-> m, at |-> now])
      /\ lastSent' = Remember(m) /\ now' = now
      /\ windowStart' = Start /\ sentInWindow' = Count + 1
  BY DEF Forward, Receive
<1>3. /\ Len(sent') = n /\ sent'[n] = [msg |-> m, at |-> now]
      /\ \A k \in DOMAIN sent : k \in DOMAIN sent' /\ sent'[k] = sent[k] /\ k \in 1 .. Len(sent)
      /\ \A k \in DOMAIN sent' : k \in DOMAIN sent \/ k = n
      /\ n \in DOMAIN sent'
  BY <1>1, <1>2 DEF TypeOK
<1>4. /\ Start \in Nat /\ Start <= now /\ Count \in Nat /\ Count <= Len(sent)
      /\ \A k \in DOMAIN sent : k > Len(sent) - Count => Start <= sent[k].at
  <2>1. CASE Expired
    BY <2>1 DEF Start, Count, TypeOK
  <2>2. CASE ~Expired
    BY <2>2 DEF Start, Count, Expired, TypeOK, Bookkeeping
  <2>3. QED
    BY <2>1, <2>2
<1>5. windowStart' # Never /\ windowStart' <= now' /\ sentInWindow' <= Len(sent')
  BY <1>2, <1>3, <1>4 DEF TypeOK
<1>6. ASSUME NEW k \in DOMAIN sent'
      PROVE  /\ sent'[k].at <= now'
             /\ k > Len(sent') - sentInWindow' => windowStart' <= sent'[k].at
  <2>1. CASE k = n
    BY <1>2, <1>3, <1>4, <2>1 DEF TypeOK
  <2>2. CASE k \in DOMAIN sent
    <3>1. sent'[k] = sent[k] /\ k \in 1 .. Len(sent) /\ sent[k].at <= now
      BY <1>3, <2>2 DEF Bookkeeping
    <3>2. k > Len(sent') - sentInWindow' => k > Len(sent) - Count
      BY <1>2, <1>3, <1>4, <3>1 DEF TypeOK
    <3>3. QED
      BY <1>2, <1>4, <2>2, <3>1, <3>2
  <2>3. QED
    BY <1>3, <1>6, <2>1, <2>2
<1>7. ASSUME NEW x \in Message, lastSent'[x] # Never
      PROVE  \E k \in DOMAIN sent' : sent'[k] = [msg |-> x, at |-> lastSent'[x]]
  <2>1. CASE x = m
    BY <1>1, <1>2, <1>3, <2>1 DEF Remember
  <2>2. CASE x # m
    <3>1. lastSent'[x] = lastSent[x] /\ lastSent[x] # Never
      BY <1>2, <1>7, <2>2 DEF Remember
    <3>2. PICK k \in DOMAIN sent : sent[k] = [msg |-> x, at |-> lastSent[x]]
      BY <3>1 DEF Bookkeeping
    <3>3. QED
      BY <1>3, <3>1, <3>2
  <2>3. QED
    BY <2>1, <2>2
<1>8. QED
  BY <1>5, <1>6, <1>7 DEF Bookkeeping

LEMMA BookkeepingNext ==
  ASSUME TypeOK, Bookkeeping, [Next]_vars
  PROVE  Bookkeeping'
<1>1. CASE UNCHANGED vars
  BY <1>1 DEF Bookkeeping, vars
<1>2. ASSUME NEW m \in Message, Emit(m)
      PROVE  Bookkeeping'
  BY <1>2 DEF Emit, Bookkeeping
<1>3. CASE Drop
  BY <1>3, WindowMoves DEF Drop, Receive
<1>4. CASE Forward
  BY <1>4, BookkeepingForward
<1>5. CASE Refuse
  BY <1>5, WindowMoves DEF Refuse, Receive
<1>6. CASE Tick
  <2>1. now' = now + 1 /\ UNCHANGED <<lastSent, windowStart, sentInWindow, sent>>
    BY <1>6 DEF Tick
  <2>2. \A t \in Nat : t <= now => t <= now'
    BY <2>1 DEF TypeOK
  <2>3. \A k \in DOMAIN sent : sent[k].at \in Nat
    BY SentFields
  <2>4. QED
    BY <2>1, <2>2, <2>3 DEF Bookkeeping, TypeOK
<1>7. QED
  BY <1>1, <1>2, <1>3, <1>4, <1>5, <1>6 DEF Next

\* The last sent_in_window forwarded events belong to the current window, and whatever
\* last_sent remembers was forwarded at that time.
THEOREM LogBookkeeping == Spec => []Bookkeeping
<1>1. Init => Bookkeeping
  BY BookkeepingInit
<1>2. TypeOK /\ Bookkeeping /\ [Next]_vars => Bookkeeping'
  BY BookkeepingNext
<1>3. QED
  BY <1>1, <1>2, LogTypeOK, PTL DEF Spec
-----------------------------------------------------------------------------
LEMMA RecentFinite ==
  ASSUME TypeOK, NEW w
  PROVE  IsFiniteSet(Recent(w)) /\ Cardinality(Recent(w)) \in Nat
<1>1. Recent(w) \subseteq 1 .. Len(sent) /\ Len(sent) \in Nat
  BY DEF Recent, TypeOK
<1>2. IsFiniteSet(1 .. Len(sent))
  BY <1>1, FS_Interval
<1>3. QED
  BY <1>1, <1>2, FS_Subset, FS_CardinalityType

LEMMA LimitIsUsedUp ==
  ASSUME TypeOK, Bookkeeping, Limited
  PROVE  Cardinality(Recent(RateWindow)) >= MaxEvents
<1>1. CASE Expired
  BY <1>1, RecentFinite DEF Limited, Count
<1>2. CASE ~Expired
  <2> DEFINE first == Len(sent) - sentInWindow + 1
             last  == first .. Len(sent)
  <2>1. /\ sentInWindow \in Nat /\ sentInWindow >= MaxEvents
        /\ Len(sent) \in Nat /\ sentInWindow <= Len(sent) /\ first \in Int
    BY <1>2 DEF Limited, Count, TypeOK, Bookkeeping
  <2>2. ASSUME NEW k \in last
        PROVE  k \in Recent(RateWindow)
    <3>1. k \in DOMAIN sent /\ k > Len(sent) - sentInWindow
      BY <2>1, <2>2 DEF TypeOK
    <3>2. /\ windowStart # Never /\ windowStart <= sent[k].at
          /\ sent[k].at \in Nat /\ windowStart \in Nat
      BY <3>1, SentFields DEF Bookkeeping, TypeOK
    <3>3. now - windowStart < RateWindow
      BY <1>2, <3>2 DEF Expired, TypeOK
    <3>4. QED
      BY <3>1, <3>2, <3>3 DEF Recent, TypeOK
  <2>3. Cardinality(last) = Len(sent) - first + 1
    <3>1. CASE sentInWindow = 0
      BY <2>1, <3>1, FS_Interval
    <3>2. CASE sentInWindow # 0
      BY <2>1, <3>2, FS_Interval
    <3>3. QED
      BY <3>1, <3>2
  <2>4. Cardinality(last) <= Cardinality(Recent(RateWindow))
    BY <2>2, RecentFinite, FS_Subset
  <2>5. QED
    BY <2>1, <2>3, <2>4, RecentFinite
<1>3. QED
  BY <1>1, <1>2

\* The throttle never drops an event without cause.
THEOREM LogDropsAreDue == Spec => []DropsAreDue
<1>1. ASSUME TypeOK, Bookkeeping
      PROVE  DropsAreDue
  <2>1. ASSUME NEW m \in Message, Repeated(m)
        PROVE  \E k \in Recent(Suppression) : sent[k].msg = m
    <3>1. PICK k \in DOMAIN sent : sent[k] = [msg |-> m, at |-> lastSent[m]]
      BY <1>1, <2>1 DEF Repeated, Bookkeeping
    <3>2. k \in Recent(Suppression) /\ sent[k].msg = m
      BY <2>1, <3>1 DEF Repeated, Recent
    <3>3. QED
      BY <3>2
  <2>2. QED
    BY <1>1, <2>1, LimitIsUsedUp DEF DropsAreDue
<1>2. QED
  BY <1>1, LogTypeOK, LogBookkeeping, PTL
-----------------------------------------------------------------------------
LEMMA ForwardedFinite ==
  ASSUME TypeOK
  PROVE  /\ Forwarded \subseteq Message /\ IsFiniteSet(Forwarded)
         /\ Cardinality(Forwarded) \in Nat
<1>1. Forwarded \subseteq Message
  BY SentFields DEF Forwarded
<1>2. QED
  BY <1>1, FS_Subset, FS_CardinalityType

LEMMA TrackedWasForwarded ==
  ASSUME TypeOK, Bookkeeping
  PROVE  Cardinality(Tracked) \in Nat /\ Cardinality(Tracked) <= Cardinality(Forwarded)
<1>1. Tracked \subseteq Forwarded
  BY DEF Tracked, Forwarded, Bookkeeping
<1>2. QED
  BY <1>1, ForwardedFinite, FS_Subset, FS_CardinalityType

LEMMA RemembersForward ==
  ASSUME TypeOK, Bookkeeping, RemembersAll, Forward, Cardinality(Forwarded') < MaxTracked
  PROVE  RemembersAll'
<1> DEFINE m == Head(pending)
           n == Len(sent) + 1
<1>1. m \in Message /\ TypeOK'
  BY HeadTail, TypeOKNext DEF Forward, Next
<1>2. /\ sent' = Append(sent, [msg |-> m, at |-> now])
      /\ lastSent' = Remember(m) /\ ~Repeated(m)
  BY DEF Forward
<1>3. /\ n \in Nat /\ sent'[n] = [msg |-> m, at |-> now]
      /\ \A k \in DOMAIN sent : k \in DOMAIN sent' /\ sent'[k] = sent[k] /\ k \in Nat /\ k < n
      /\ \A k \in DOMAIN sent' : k \in DOMAIN sent \/ k = n
      /\ \A k \in DOMAIN sent : sent[k].msg \in Message /\ sent[k].at \in Nat
  <2>1. sent \in Seq([msg : Message, at : Nat]) /\ [msg |-> m, at |-> now] \in [msg : Message, at : Nat]
    BY <1>1 DEF TypeOK
  <2>2. \A k \in DOMAIN sent : sent[k].msg \in Message /\ sent[k].at \in Nat
    BY SentFields
  <2>3. QED
    BY <1>2, <2>1, <2>2
<1>4. Forwarded \subseteq Forwarded'
  BY <1>3 DEF Forwarded
<1>5. IsFiniteSet(Forwarded') /\ Cardinality(Forwarded') \in Nat
  <2>1. Forwarded' \subseteq Message
    BY <1>1, <1>3 DEF Forwarded
  <2>2. QED
    BY <2>1, FS_Subset, FS_CardinalityType
<1>6. Cardinality(Forwarded) < MaxTracked /\ Cardinality(Tracked) < MaxTracked
  <2>1. Cardinality(Forwarded) <= Cardinality(Forwarded')
    BY <1>4, <1>5, FS_Subset
  <2>2. QED
    BY <1>5, <2>1, ForwardedFinite, TrackedWasForwarded
<1>7. \A x \in Message : lastSent'[x] = IF x = m THEN now ELSE lastSent[x]
  BY <1>2, <1>6, TrackedWasForwarded DEF Remember
<1>8. /\ ~EarlyRepeat
      /\ \A k \in DOMAIN sent : /\ lastSent[sent[k].msg] # Never
                                /\ sent[k].at <= lastSent[sent[k].msg]
  BY <1>6 DEF RemembersAll
<1>9. ASSUME NEW k \in DOMAIN sent'
      PROVE  lastSent'[sent'[k].msg] # Never /\ sent'[k].at <= lastSent'[sent'[k].msg]
  <2>1. CASE k = n
    BY <1>1, <1>3, <1>7, <2>1 DEF TypeOK
  <2>2. CASE k \in DOMAIN sent /\ sent[k].msg = m
    BY <1>1, <1>3, <1>7, <2>2 DEF Bookkeeping, TypeOK
  <2>3. CASE k \in DOMAIN sent /\ sent[k].msg # m
    BY <1>3, <1>7, <1>8, <2>3
  <2>4. QED
    BY <1>3, <1>9, <2>1, <2>2, <2>3
<1>10. ASSUME NEW j \in DOMAIN sent', NEW k \in DOMAIN sent', j < k,
              sent'[j].msg = sent'[k].msg, sent'[k].at - sent'[j].at < Suppression
       PROVE  FALSE
  <2>1. CASE k \in DOMAIN sent
    <3>1. j \in DOMAIN sent
      BY <1>3, <1>10, <2>1
    <3>2. QED
      BY <1>3, <1>8, <1>10, <2>1, <3>1 DEF EarlyRepeat
  <2>2. CASE k = n
    <3>1. j \in DOMAIN sent /\ sent[j].msg = m /\ now - sent[j].at < Suppression
      BY <1>3, <1>10, <2>2
    <3>2. lastSent[m] # Never /\ sent[j].at <= lastSent[m]
      BY <1>8, <3>1
    <3>3. now - lastSent[m] < Suppression
      <4>1. now \in Nat /\ lastSent[m] \in Nat /\ sent[j].at \in Nat /\ Suppression \in Nat
        BY <1>1, <1>3, <3>1, <3>2 DEF TypeOK
      <4>2. QED
        BY <3>1, <3>2, <4>1
    <3>4. QED
      BY <1>2, <3>2, <3>3 DEF Repeated
  <2>3. QED
    BY <1>3, <1>10, <2>1, <2>2
<1>11. ~EarlyRepeat'
  BY <1>10 DEF EarlyRepeat
<1>12. QED
  BY <1>9, <1>11 DEF RemembersAll

LEMMA RemembersNext ==
  ASSUME TypeOK, Bookkeeping, RemembersAll, [Next]_vars
  PROVE  RemembersAll'
<1>1. CASE UNCHANGED <<lastSent, sent>>
  BY <1>1 DEF RemembersAll, Forwarded, EarlyRepeat
<1>2. CASE Forward
  <2>1. CASE Cardinality(Forwarded') < MaxTracked
    BY <1>2, <2>1, RemembersForward
  <2>2. CASE ~(Cardinality(Forwarded') < MaxTracked)
    BY <2>2 DEF RemembersAll
  <2>3. QED
    BY <2>1, <2>2
<1>3. UNCHANGED <<lastSent, sent>> \/ Forward
  BY DEF Next, vars, Emit, Drop, Refuse, Tick
<1>4. QED
  BY <1>1, <1>2, <1>3

\* Fewer different messages than the table has room for: none is repeated early.
THEOREM LogNoEarlyRepeats == Spec => []NoEarlyRepeats
<1>1. Init => RemembersAll
  BY DEF Init, RemembersAll, EarlyRepeat
<1>2. TypeOK /\ Bookkeeping /\ RemembersAll /\ [Next]_vars => RemembersAll'
  BY RemembersNext
<1>3. RemembersAll => NoEarlyRepeats
  BY DEF RemembersAll, NoEarlyRepeats
<1>4. QED
  BY <1>1, <1>2, <1>3, LogTypeOK, LogBookkeeping, PTL DEF Spec
-----------------------------------------------------------------------------
(* Windows are laid end to end: TwoWindowsAtMost. *)

\* Of a window that starts at start and has seen count events: all others are older than
\* it, and all but one window's worth of them older by a whole window.
Apart(start, count) ==
  \E p \in 0 .. Len(sent) - count :
    /\ Len(sent) - count - p <= MaxEvents
    /\ \A k \in 1 .. Len(sent) - count : start # Never /\ sent[k].at <= start
    /\ \A k \in 1 .. p : sent[k].at + RateWindow <= start

LEMMA ApartOpens ==
  ASSUME TypeOK, Bookkeeping, Apart(windowStart, sentInWindow)
  PROVE  Apart(Start, Count)
<1>1. CASE Expired
  <2>1. Start = now /\ Count = 0 /\ now \in Nat /\ Len(sent) \in Nat
    BY <1>1 DEF Start, Count, TypeOK
  <2>2. \A k \in 1 .. Len(sent) : sent[k].at \in Nat /\ sent[k].at <= now
    BY <2>1, SentFields DEF Bookkeeping, TypeOK
  <2>3. \A k \in 1 .. Len(sent) - sentInWindow : windowStart # Never /\ sent[k].at <= windowStart
    BY DEF Apart
  <2>4. sentInWindow \in Nat /\ sentInWindow <= Len(sent) /\ sentInWindow <= MaxEvents
    BY DEF TypeOK, Bookkeeping
  <2>5. Len(sent) - sentInWindow \in 0 .. Len(sent)
    BY <2>1, <2>4
  <2>6. \A k \in 1 .. Len(sent) - sentInWindow : sent[k].at + RateWindow <= now
    <3>1. SUFFICES ASSUME NEW k \in 1 .. Len(sent) - sentInWindow
                   PROVE  sent[k].at + RateWindow <= now
      OBVIOUS
    <3>2. k \in 1 .. Len(sent) /\ sent[k].at \in Nat
      BY <2>1, <2>2, <2>4
    <3>3. windowStart \in Nat /\ sent[k].at <= windowStart /\ now - windowStart >= RateWindow
      BY <1>1, <2>3 DEF TypeOK, Expired
    <3>4. QED
      BY <2>1, <3>2, <3>3
  <2>7. now # Never
    BY <2>1
  <2>8. Apart(now, 0)
    <3>1. Len(sent) - 0 - (Len(sent) - sentInWindow) <= MaxEvents /\ Len(sent) - 0 = Len(sent)
      BY <2>1, <2>4
    <3>2. QED
      BY <2>2, <2>5, <2>6, <2>7, <3>1 DEF Apart
  <2>9. QED
    BY <2>1, <2>8
<1>2. CASE ~Expired
  BY <1>2 DEF Start, Count
<1>3. QED
  BY <1>1, <1>2

LEMMA ApartForward ==
  ASSUME TypeOK, Bookkeeping, Apart(windowStart, sentInWindow), Forward
  PROVE  Apart(windowStart, sentInWindow)'
<1>1. PICK p \in 0 .. Len(sent) - Count :
        /\ Len(sent) - Count - p <= MaxEvents
        /\ \A k \in 1 .. Len(sent) - Count : Start # Never /\ sent[k].at <= Start
        /\ \A k \in 1 .. p : sent[k].at + RateWindow <= Start
  BY ApartOpens DEF Apart
<1>2. /\ sent' = Append(sent, [msg |-> Head(pending), at |-> now]) /\ windowStart' = Start
      /\ sentInWindow' = Count + 1
  BY DEF Forward, Receive
<1>3. /\ Len(sent) \in Nat /\ Len(sent') = Len(sent) + 1
      /\ \A k \in 1 .. Len(sent) : sent'[k] = sent[k]
  BY <1>2 DEF TypeOK
<1>4. Count \in Nat /\ p \in Nat /\ p <= Len(sent) - Count
  BY <1>1, <1>3, StartTypes
<1>5. Len(sent') - sentInWindow' = Len(sent) - Count
  BY <1>2, <1>3, <1>4
<1>6. \A k \in 1 .. Len(sent) - Count : k \in 1 .. Len(sent)
  BY <1>3, <1>4
<1>7. \A k \in 1 .. p : k \in 1 .. Len(sent)
  BY <1>3, <1>4
<1>8. QED
  BY <1>1, <1>2, <1>3, <1>5, <1>6, <1>7 DEF Apart

LEMMA ApartNext ==
  ASSUME TypeOK, Bookkeeping, Apart(windowStart, sentInWindow), [Next]_vars
  PROVE  Apart(windowStart, sentInWindow)'
<1>1. CASE Drop \/ Refuse
  BY <1>1, ApartOpens DEF Drop, Refuse, Receive, Apart
<1>2. CASE Forward
  BY <1>2, ApartForward
<1>3. CASE Tick \/ UNCHANGED vars \/ \E m \in Message : Emit(m)
  BY <1>3 DEF Tick, vars, Emit, Apart
<1>4. QED
  BY <1>1, <1>2, <1>3 DEF Next

\* process_captured: any stretch of rate_window sees at most twice max_events_per_window
\* events forwarded, the end of one window and the start of the next.
THEOREM LogTwoWindows == Spec => []TwoWindowsAtMost
<1>1. Init => Apart(windowStart, sentInWindow)
  BY DEF Init, Apart
<1>2. TypeOK /\ Bookkeeping /\ Apart(windowStart, sentInWindow) /\ [Next]_vars
        => Apart(windowStart, sentInWindow)'
  BY ApartNext
<1>3. TypeOK /\ Bookkeeping /\ Apart(windowStart, sentInWindow) => TwoWindowsAtMost
  <2>1. SUFFICES ASSUME TypeOK, Bookkeeping, Apart(windowStart, sentInWindow)
                 PROVE  TwoWindowsAtMost
    OBVIOUS
  <2>2. PICK p \in 0 .. Len(sent) - sentInWindow :
          /\ Len(sent) - sentInWindow - p <= MaxEvents
          /\ \A k \in 1 .. Len(sent) - sentInWindow : windowStart # Never /\ sent[k].at <= windowStart
          /\ \A k \in 1 .. p : sent[k].at + RateWindow <= windowStart
    BY <2>1 DEF Apart
  <2>3. /\ Len(sent) \in Nat /\ sentInWindow \in Nat /\ sentInWindow <= MaxEvents
        /\ sentInWindow <= Len(sent) /\ now \in Nat
    BY <2>1 DEF TypeOK, Bookkeeping
  <2>4. p \in Nat /\ p <= Len(sent) - sentInWindow
    BY <2>2, <2>3
  <2>5. Recent(RateWindow) \subseteq p + 1 .. Len(sent)
    <3>1. SUFFICES ASSUME NEW k \in DOMAIN sent, now - sent[k].at < RateWindow
                   PROVE  k > p
      BY <2>1, <2>3, <2>4, SentFields DEF Recent
    <3>2. SUFFICES ASSUME k <= p
                   PROVE  FALSE
      BY <2>1, <2>4, SentFields
    <3>3. k \in 1 .. p /\ k \in 1 .. Len(sent) - sentInWindow /\ sent[k].at \in Nat
      BY <2>1, <2>3, <2>4, <3>2, SentFields
    <3>4. windowStart \in Nat /\ windowStart <= now /\ sent[k].at + RateWindow <= windowStart
      BY <2>1, <2>2, <3>3 DEF Bookkeeping, TypeOK
    <3>5. \A x, y, z, w \in Nat : x - y < w /\ y + w <= z => ~(z <= x)
      OBVIOUS
    <3>6. QED
      BY <2>3, <3>1, <3>3, <3>4, <3>5
  <2>6. /\ IsFiniteSet(p + 1 .. Len(sent))
        /\ Cardinality(p + 1 .. Len(sent)) = IF p + 1 > Len(sent) THEN 0 ELSE Len(sent) - (p + 1) + 1
    <3>1. p + 1 \in Int /\ Len(sent) \in Int
      BY <2>3, <2>4
    <3>2. QED
      BY <3>1, FS_Interval
  <2>7. Cardinality(Recent(RateWindow)) <= Cardinality(p + 1 .. Len(sent))
    BY <2>5, <2>6, FS_Subset
  <2>8. Len(sent) - p <= 2 * MaxEvents
    BY <2>2, <2>3, <2>4
  <2>9. QED
    BY <2>1, <2>3, <2>4, <2>6, <2>7, <2>8, RecentFinite DEF TwoWindowsAtMost
<1>4. QED
  BY <1>1, <1>2, <1>3, LogTypeOK, LogBookkeeping, PTL DEF Spec
=============================================================================
