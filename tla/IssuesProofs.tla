----------------------------- MODULE IssuesProofs -----------------------------
(* Proofs about Issues, for any number of requests in flight, event bodies,     *)
(* issues, keys and legacy events.                                              *)
EXTENDS Issues, FiniteSetTheorems, TLAPS

USE DataAssumption, SizeAssumption

\* Every step of the handlers is one of these.
LEMMA StepCases ==
  [Next]_vars =>
    \/ \E c \in Client :
         \/ \E b \in Body, k \in Key : Authenticate(c, b, k)
         \/ IngestNewIssue(c) \/ IngestOccurrence(c) \/ IngestDuplicate(c) \/ IngestConflict(c)
         \/ \E f \in Issue, s \in Status : OpenStatus(c, f, s)
         \/ \E f \in Issue, T \in SUBSET Tag : OpenTags(c, f, T)
         \/ WriteStatus(c) \/ WriteTags(c) \/ Abandon(c)
    \/ \E k \in Key : CreateIngestKey(k) \/ RevokeIngestKey(k)
    \/ UNCHANGED vars
  BY DEF Next, Ingest

\* What the fields of a request are, by its kind.
LEMMA RequestFields ==
  ASSUME NEW r \in Request
  PROVE  /\ r.op \in {"none", "ingest", "status", "tags"}
         /\ r.op = "ingest" => r.body \in Body /\ r.key \in Key
         /\ r.op = "status" => r.issue \in Issue /\ r.to \in Status /\ r.seen \in Status
         /\ r.op = "tags" => r.issue \in Issue /\ r.to \in SUBSET Tag /\ r.seen \in SUBSET Tag
  BY DEF Request, NoRequest

\* SeedLabels only adds labels of the event.
LEMMA SeedLabelsType ==
  ASSUME NEW f \in Issue, NEW b \in Body, tags \in [Issue -> SUBSET Tag], SeedLabels(f, b)
  PROVE  \E fit \in SUBSET (Labels[b] \ tags[f]) :
           /\ tags' = [tags EXCEPT ![f] = tags[f] \cup fit]
           /\ tags' \in [Issue -> SUBSET Tag]
           /\ Cardinality(fit) = IF Cardinality(Labels[b] \ tags[f]) <= MaxTags - Cardinality(tags[f])
                                   THEN Cardinality(Labels[b] \ tags[f])
                                   ELSE MaxTags - Cardinality(tags[f])
<1>1. PICK fit \in SUBSET (Labels[b] \ tags[f]) :
        /\ Cardinality(fit) = IF Cardinality(Labels[b] \ tags[f]) <= MaxTags - Cardinality(tags[f])
                                THEN Cardinality(Labels[b] \ tags[f])
                                ELSE MaxTags - Cardinality(tags[f])
        /\ tags' = [tags EXCEPT ![f] = tags[f] \cup fit]
  BY DEF SeedLabels
<1>2. Labels[b] \subseteq Tag
  OBVIOUS
<1>3. tags' \in [Issue -> SUBSET Tag]
  BY <1>1, <1>2
<1>4. QED
  BY <1>1, <1>3

-----------------------------------------------------------------------------
\* Ending a request, with or without a commit, leaves the requests well formed.
LEMMA FinishType ==
  ASSUME TypeOK, NEW c \in Client, Finish(c), fresh' \in {{}, fresh \ {c}}
  PROVE  /\ req' \in [Client -> Request]
         /\ fresh' \subseteq {d \in Client : req'[d].op \in {"status", "tags"}}
         /\ \A d \in Client : req'[d].op = "ingest" => req[d].op = "ingest" /\ req'[d].key = req[d].key
<1>1. NoRequest \in Request /\ NoRequest.op = "none"
  BY DEF Request, NoRequest
<1>2. req' = [req EXCEPT ![c] = NoRequest] /\ req \in [Client -> Request]
  BY DEF Finish, TypeOK
<1>3. req' \in [Client -> Request]
  BY <1>1, <1>2
<1>4. \A d \in Client : req'[d] = IF d = c THEN NoRequest ELSE req[d]
  BY <1>2
<1>5. fresh \subseteq {d \in Client : req[d].op \in {"status", "tags"}}
  BY DEF TypeOK
<1>6. QED
  BY <1>1, <1>3, <1>4, <1>5

\* Every handler's step (ingest, set_issue_status, replace_issue_tags, the key
\* handlers) keeps the tables and the requests well formed.
LEMMA TypeOKInductive == TypeOK /\ [Next]_vars => TypeOK'
<1> SUFFICES ASSUME TypeOK, [Next]_vars PROVE TypeOK'
  OBVIOUS
<1> USE DEF Stored
<1>1. ASSUME NEW c \in Client, NEW b \in Body, NEW k \in Key, Authenticate(c, b, k)
      PROVE  TypeOK'
  <2> DEFINE r == [op |-> "ingest", body |-> b, key |-> k]
  <2>1. r \in Request /\ r.op = "ingest" /\ r.key = k
    BY DEF Request
  <2>2. req' = [req EXCEPT ![c] = r] /\ keys[k] = "active" /\ req[c] = NoRequest
        /\ UNCHANGED <<raw, via, unhashed, issueVars, keys, fresh, accepted>>
    BY <1>1 DEF Authenticate
  <2> HIDE DEF r
  <2>3. \A d \in Client : req'[d] = IF d = c THEN r ELSE req[d]
    BY <2>2 DEF TypeOK
  <2>4. c \notin fresh
    <3>1. req[c].op = "none"
      BY <2>2 DEF NoRequest
    <3>2. \A d \in fresh : req[d].op \in {"status", "tags"}
      BY DEF TypeOK
    <3>3. QED
      BY <3>1, <3>2
  <2>5. req' \in [Client -> Request]
    BY <2>1, <2>2 DEF TypeOK
  <2>6. \A d \in Client : req'[d].op = "ingest" => keys[req'[d].key] # "absent"
    BY <2>1, <2>2, <2>3 DEF TypeOK
  <2>7. fresh \subseteq {d \in Client : req'[d].op \in {"status", "tags"}}
    BY <2>3, <2>4 DEF TypeOK
  <2>8. QED
    BY <2>2, <2>5, <2>6, <2>7 DEF TypeOK, issueVars
<1>2. ASSUME NEW c \in Client, IngestNewIssue(c) \/ IngestOccurrence(c) PROVE TypeOK'
  <2> DEFINE b == req[c].body
             k == req[c].key
             f == Fingerprint[b]
             id == EventId[b]
  <2>1. req[c].op = "ingest" /\ StoreEvent(b, k) /\ SeedLabels(f, b) /\ Commit(c)
        /\ raw[id] = NoBody /\ UNCHANGED <<unhashed, tagLog, keys>>
    BY <1>2 DEF IngestNewIssue, IngestOccurrence
  <2>2. b \in Body /\ k \in Key /\ keys[k] # "absent"
    BY <2>1, RequestFields DEF TypeOK
  <2>3. f \in Issue /\ id \in Id
    BY <2>2
  <2>4. /\ eventCount' \in [Issue -> Nat]
        /\ status' \in [Issue -> Status \cup {"none"}]
        /\ statusLog' \in [Issue -> Seq(StatusEntry)]
        /\ notices' \in [Issue -> Seq({"issue.created", "issue.regressed"})]
    <3>1. CASE IngestNewIssue(c)
      <4>1. eventCount' \in [Issue -> Nat] /\ status' \in [Issue -> Status \cup {"none"}]
        BY <3>1, <2>3 DEF IngestNewIssue, TypeOK, Status
      <4>2. statusLog' \in [Issue -> Seq(StatusEntry)]
        BY <3>1 DEF IngestNewIssue, TypeOK
      <4>3. notices[f] \in Seq({"issue.created", "issue.regressed"})
        BY <2>3 DEF TypeOK
      <4>4. notices' \in [Issue -> Seq({"issue.created", "issue.regressed"})]
        BY <3>1, <2>3, <4>3 DEF IngestNewIssue, TypeOK
      <4>5. QED
        BY <4>1, <4>2, <4>4
    <3>2. CASE IngestOccurrence(c)
      <4>1. [kind |-> "regression", from |-> "resolved", to |-> "unresolved"] \in StatusEntry
        BY DEF StatusEntry, Status
      <4>2. statusLog[f] \in Seq(StatusEntry)
            /\ notices[f] \in Seq({"issue.created", "issue.regressed"})
        BY <2>3 DEF TypeOK
      <4>3. eventCount' \in [Issue -> Nat] /\ status' \in [Issue -> Status \cup {"none"}]
        BY <3>2, <2>3 DEF IngestOccurrence, TypeOK, Status
      <4>4. statusLog' \in [Issue -> Seq(StatusEntry)]
        BY <3>2, <2>3, <4>1, <4>2 DEF IngestOccurrence, TypeOK
      <4>5. notices' \in [Issue -> Seq({"issue.created", "issue.regressed"})]
        BY <3>2, <2>3, <4>2 DEF IngestOccurrence, NotifyRegression, TypeOK
      <4>6. QED
        BY <4>3, <4>4, <4>5
    <3>3. QED
      BY <1>2, <3>1, <3>2
  <2>5. tags' \in [Issue -> SUBSET Tag]
    BY <2>1, <2>2, <2>3, SeedLabelsType DEF TypeOK
  <2>6. /\ raw' = [raw EXCEPT ![id] = b] /\ via' = [via EXCEPT ![id] = k]
        /\ accepted' = accepted \cup {b}
    BY <2>1 DEF StoreEvent
  <2> HIDE DEF b, k, f, id
  <2>7. raw' \in [Id -> Body \cup {NoBody}] /\ via' \in [Id -> Key \cup {NoKey}]
    BY <2>2, <2>3, <2>6 DEF TypeOK
  <2>8. \A i \in Id : raw'[i] = (IF i = id THEN b ELSE raw[i])
                      /\ via'[i] = (IF i = id THEN k ELSE via[i])
    BY <2>2, <2>3, <2>6 DEF TypeOK
  <2>9. unhashed' \subseteq Stored'
    BY <2>1, <2>2, <2>8 DEF TypeOK
  <2>10. \A i \in Stored' \ unhashed' : via'[i] \in Key /\ keys'[via'[i]] # "absent"
    BY <2>1, <2>2, <2>8 DEF TypeOK
  <2>11. /\ req' \in [Client -> Request]
         /\ fresh' \subseteq {d \in Client : req'[d].op \in {"status", "tags"}}
         /\ \A d \in Client : req'[d].op = "ingest" => keys'[req'[d].key] # "absent"
    BY <2>1, FinishType DEF Commit, TypeOK
  <2>12. QED
    BY <2>1, <2>2, <2>4, <2>5, <2>6, <2>7, <2>9, <2>10, <2>11 DEF TypeOK
<1>3. ASSUME NEW c \in Client, IngestDuplicate(c) \/ IngestConflict(c) \/ Abandon(c)
      PROVE  TypeOK'
  <2>1. Finish(c) /\ fresh' \in {{}, fresh \ {c}} /\ UNCHANGED <<raw, via, unhashed, issueVars, keys>>
    <3>1. CASE IngestDuplicate(c)
      BY <3>1 DEF IngestDuplicate, Commit
    <3>2. CASE IngestConflict(c)
      <4>1. c \notin fresh
        BY <3>2 DEF IngestConflict, TypeOK
      <4>2. QED
        BY <3>2, <4>1 DEF IngestConflict
    <3>3. CASE Abandon(c)
      BY <3>3 DEF Abandon
    <3>4. QED
      BY <1>3, <3>1, <3>2, <3>3
  <2>2. accepted' \subseteq Body
    <3>1. CASE IngestDuplicate(c)
      <4>1. req[c].body \in Body
        BY <3>1, RequestFields DEF IngestDuplicate, TypeOK
      <4>2. QED
        BY <3>1, <4>1 DEF IngestDuplicate, TypeOK
    <3>2. CASE IngestConflict(c) \/ Abandon(c)
      BY <3>2 DEF IngestConflict, Abandon, TypeOK
    <3>3. QED
      BY <1>3, <3>1, <3>2
  <2>3. /\ req' \in [Client -> Request]
        /\ fresh' \subseteq {d \in Client : req'[d].op \in {"status", "tags"}}
        /\ \A d \in Client : req'[d].op = "ingest" => keys'[req'[d].key] # "absent"
    BY <2>1, FinishType DEF TypeOK
  <2>4. QED
    BY <2>1, <2>2, <2>3 DEF TypeOK, issueVars
<1>4. ASSUME NEW k \in Key, CreateIngestKey(k) \/ RevokeIngestKey(k) PROVE TypeOK'
  <2>1. /\ keys' \in [Key -> {"absent", "active", "revoked"}] /\ fresh' = {}
        /\ \A j \in Key : keys[j] # "absent" => keys'[j] # "absent"
        /\ UNCHANGED <<raw, via, unhashed, issueVars, req, accepted>>
    BY <1>4 DEF CreateIngestKey, RevokeIngestKey, TypeOK
  <2>2. \A d \in Client : req[d].op = "ingest" => req[d].key \in Key
    BY RequestFields DEF TypeOK
  <2>3. QED
    BY <2>1, <2>2 DEF TypeOK, issueVars
<1>5. ASSUME NEW c \in Client, NEW r \in Request, r.op \in {"status", "tags"},
             req' = [req EXCEPT ![c] = r], fresh' = fresh \cup {c},
             UNCHANGED <<raw, via, unhashed, issueVars, keys, accepted>>
      PROVE  TypeOK'
  <2>1. \A d \in Client : req'[d] = IF d = c THEN r ELSE req[d]
    BY <1>5 DEF TypeOK
  <2>2. req' \in [Client -> Request]
    BY <1>5 DEF TypeOK
  <2>3. \A d \in Client : req'[d].op = "ingest" => keys[req'[d].key] # "absent"
    BY <1>5, <2>1 DEF TypeOK
  <2>4. fresh' \subseteq {d \in Client : req'[d].op \in {"status", "tags"}}
    BY <1>5, <2>1 DEF TypeOK
  <2>5. QED
    BY <1>5, <2>2, <2>3, <2>4 DEF TypeOK, issueVars
<1>6. ASSUME NEW c \in Client, NEW f \in Issue, NEW s \in Status, OpenStatus(c, f, s)
      PROVE  TypeOK'
  <2> DEFINE r == [op |-> "status", issue |-> f, to |-> s, seen |-> status[f]]
  <2>1. status[f] \in Status
    BY <1>6 DEF OpenStatus, Exists, TypeOK
  <2>2. r \in Request /\ r.op = "status"
    BY <2>1 DEF Request
  <2>3. QED
    BY <1>5, <1>6, <2>2 DEF OpenStatus
<1>7. ASSUME NEW c \in Client, NEW f \in Issue, NEW T \in SUBSET Tag, OpenTags(c, f, T)
      PROVE  TypeOK'
  <2> DEFINE r == [op |-> "tags", issue |-> f, to |-> T, seen |-> tags[f]]
  <2>1. tags[f] \in SUBSET Tag
    BY DEF TypeOK
  <2>2. r \in Request /\ r.op = "tags"
    BY <2>1 DEF Request
  <2>3. QED
    BY <1>5, <1>7, <2>2 DEF OpenTags
<1>8. ASSUME NEW c \in Client, WriteStatus(c) \/ WriteTags(c) PROVE TypeOK'
  <2> DEFINE f == req[c].issue
  <2>1. Commit(c) /\ UNCHANGED <<raw, via, unhashed, eventCount, notices, keys, accepted>>
    BY <1>8 DEF WriteStatus, WriteTags
  <2>2. /\ status' \in [Issue -> Status \cup {"none"}]
        /\ tags' \in [Issue -> SUBSET Tag]
        /\ statusLog' \in [Issue -> Seq(StatusEntry)]
        /\ tagLog' \in [Issue -> Seq(TagsEntry)]
    <3>1. CASE WriteStatus(c)
      <4>1. f \in Issue /\ req[c].to \in Status /\ req[c].seen \in Status
        BY <3>1, RequestFields DEF WriteStatus, TypeOK
      <4>2. [kind |-> "status", from |-> req[c].seen, to |-> req[c].to] \in StatusEntry
        BY <4>1 DEF StatusEntry
      <4>3. statusLog[f] \in Seq(StatusEntry)
        BY <4>1 DEF TypeOK
      <4>4. QED
        BY <3>1, <4>1, <4>2, <4>3 DEF WriteStatus, TypeOK
    <3>2. CASE WriteTags(c)
      <4>1. f \in Issue /\ req[c].to \in SUBSET Tag /\ req[c].seen \in SUBSET Tag
        BY <3>2, RequestFields DEF WriteTags, TypeOK
      <4>2. [from |-> req[c].seen, to |-> req[c].to] \in TagsEntry
        BY <4>1 DEF TagsEntry
      <4>3. tagLog[f] \in Seq(TagsEntry)
        BY <4>1 DEF TypeOK
      <4>4. QED
        BY <3>2, <4>1, <4>2, <4>3 DEF WriteTags, TypeOK
    <3>3. QED
      BY <1>8, <3>1, <3>2
  <2>3. /\ req' \in [Client -> Request]
        /\ fresh' \subseteq {d \in Client : req'[d].op \in {"status", "tags"}}
        /\ \A d \in Client : req'[d].op = "ingest" => keys'[req'[d].key] # "absent"
    BY <2>1, FinishType DEF Commit, TypeOK
  <2>4. QED
    BY <2>1, <2>2, <2>3 DEF TypeOK
<1>9. CASE UNCHANGED vars
  BY <1>9 DEF vars, issueVars, TypeOK
<1>10. QED
  BY <1>1, <1>2, <1>3, <1>4, <1>6, <1>7, <1>8, <1>9, StepCases

-----------------------------------------------------------------------------
\* A database after the migrations is well formed.
LEMMA TypeOKInit == Init => TypeOK
<1> SUFFICES ASSUME Init PROVE TypeOK
  OBVIOUS
<1>1. \A id \in Id : raw[id] = IF \E b \in Legacy : EventId[b] = id
                                THEN CHOOSE b \in Legacy : EventId[b] = id ELSE NoBody
  BY DEF Init
<1>2. \A id \in Id : \/ raw[id] = NoBody /\ ~\E b \in Legacy : EventId[b] = id
                     \/ raw[id] \in Legacy /\ EventId[raw[id]] = id
  BY <1>1
<1>3. raw \in [Id -> Body \cup {NoBody}]
  BY <1>2 DEF Init
<1>4. unhashed = {id \in Id : \E b \in Legacy : EventId[b] = id}
  BY DEF Init
<1>5. unhashed = Stored
  BY <1>2, <1>4 DEF Stored
<1>6. eventCount \in [Issue -> Nat]
  <2>1. ASSUME NEW f \in Issue PROVE Cardinality({EventId[b] : b \in LegacyOf(f)}) \in Nat
    <3>1. {EventId[b] : b \in LegacyOf(f)} \subseteq Id
      BY DEF LegacyOf
    <3>2. QED
      BY <3>1, FS_Subset, FS_CardinalityType
  <2>2. QED
    BY <2>1 DEF Init
<1>7. NoRequest \in Request /\ NoRequest.op = "none"
  BY DEF Request, NoRequest
<1>8. req \in [Client -> Request] /\ \A c \in Client : req[c].op # "ingest"
  BY <1>7 DEF Init
<1>9. /\ status \in [Issue -> Status \cup {"none"}] /\ tags \in [Issue -> SUBSET Tag]
      /\ via \in [Id -> Key \cup {NoKey}] /\ keys \in [Key -> {"absent", "active", "revoked"}]
      /\ fresh = {} /\ accepted = {}
  BY DEF Init, Status
<1>10. statusLog \in [Issue -> Seq(StatusEntry)] /\ tagLog \in [Issue -> Seq(TagsEntry)]
  BY DEF Init
<1>11. notices \in [Issue -> Seq({"issue.created", "issue.regressed"})]
  <2>1. <<"issue.created">> \in Seq({"issue.created", "issue.regressed"})
        /\ <<>> \in Seq({"issue.created", "issue.regressed"})
    OBVIOUS
  <2>2. QED
    BY <2>1 DEF Init
<1>12. QED
  BY <1>3, <1>5, <1>6, <1>8, <1>9, <1>10, <1>11 DEF TypeOK

\* Stored events stay as they are (ingest never updates raw_events).
LEMMA StoredIsFinal ==
  ASSUME TypeOK, [Next]_vars
  PROVE  unhashed' = unhashed /\ \A id \in Id : raw[id] # NoBody => raw'[id] = raw[id]
<1>1. ASSUME NEW c \in Client, IngestNewIssue(c) \/ IngestOccurrence(c)
      PROVE  unhashed' = unhashed /\ \A id \in Id : raw[id] # NoBody => raw'[id] = raw[id]
  <2>1. /\ raw[EventId[req[c].body]] = NoBody /\ UNCHANGED unhashed
        /\ raw' = [raw EXCEPT ![EventId[req[c].body]] = req[c].body]
    BY <1>1 DEF IngestNewIssue, IngestOccurrence, StoreEvent
  <2>2. QED
    BY <2>1 DEF TypeOK
<1>2. QED
  BY <1>1, StepCases DEF Authenticate, IngestDuplicate, IngestConflict, OpenStatus, OpenTags,
     WriteStatus, WriteTags, Abandon, CreateIngestKey, RevokeIngestKey, vars

-----------------------------------------------------------------------------
\* An entry that starts where the history ends extends it.
LEMMA ReplaysAppend ==
  ASSUME NEW h \in Seq(StatusEntry), NEW s, StatusReplays(h, s),
         NEW e \in StatusEntry, e.from = s, e.to # s
  PROVE  StatusReplays(Append(h, e), e.to)
<1> DEFINE g == Append(h, e)
<1>1. Len(g) = Len(h) + 1 /\ Len(h) \in Nat /\ g # <<>>
  OBVIOUS
<1>2. g[Len(h) + 1] = e /\ \A k \in 1 .. Len(h) : g[k] = h[k]
  OBVIOUS
<1> HIDE DEF g
<1>3. h = <<>> <=> Len(h) = 0
  OBVIOUS
<1>4. \A k \in 1 .. Len(h) : /\ h[k].from = IF k = 1 THEN "unresolved" ELSE h[k - 1].to
                             /\ h[k].from # h[k].to
  BY DEF StatusReplays
<1>5. s = IF Len(h) = 0 THEN "unresolved" ELSE h[Len(h)].to
  BY <1>3 DEF StatusReplays
<1>6. ASSUME NEW k \in 1 .. Len(g)
      PROVE  g[k].from = (IF k = 1 THEN "unresolved" ELSE g[k - 1].to) /\ g[k].from # g[k].to
  <2>1. CASE k \in 1 .. Len(h)
    <3>1. k # 1 => k - 1 \in 1 .. Len(h)
      BY <2>1, <1>1
    <3>2. QED
      BY <2>1, <3>1, <1>2, <1>4
  <2>2. CASE k = Len(h) + 1
    <3>1. k # 1 => Len(h) \in 1 .. Len(h) /\ k - 1 = Len(h)
      BY <2>2, <1>1
    <3>2. QED
      BY <2>2, <3>1, <1>1, <1>2, <1>5
  <2>3. QED
    BY <2>1, <2>2, <1>1
<1>7. StatusReplays(g, e.to)
  BY <1>1, <1>2, <1>6 DEF StatusReplays
<1>8. QED
  BY <1>7 DEF g

\* Snapshots that are still the latest show what is stored (BEGIN DEFERRED in WAL mode).
LEMMA SnapshotsInductive == TypeOK /\ Snapshots /\ [Next]_vars => Snapshots'
<1> SUFFICES ASSUME TypeOK, Snapshots, [Next]_vars PROVE Snapshots'
  OBVIOUS
<1> DEFINE Seen(c) == IF req[c].op = "status"
                        THEN /\ Exists(req[c].issue) /\ req[c].seen = status[req[c].issue]
                             /\ req[c].to # req[c].seen
                        ELSE req[c].seen = tags[req[c].issue]
           Sized(c) == req[c].op = "tags" => Cardinality(req[c].to) <= MaxTags
           Quiet == \A f \in Issue : ~Exists(f) => statusLog[f] = <<>>
<1>1. (\A c \in fresh : Seen(c)) /\ (\A c \in Client : Sized(c)) /\ Quiet
  BY DEF Snapshots
<1>2. SUFFICES (\A c \in fresh' : Seen(c)') /\ (\A c \in Client : Sized(c)') /\ Quiet'
  BY DEF Snapshots
<1>3. ASSUME NEW c \in Client, IngestNewIssue(c) \/ IngestOccurrence(c) \/ IngestDuplicate(c)
                               \/ WriteStatus(c) \/ WriteTags(c)
      PROVE  (\A d \in fresh' : Seen(d)') /\ (\A d \in Client : Sized(d)') /\ Quiet'
  <2>1. fresh' = {} /\ req' = [req EXCEPT ![c] = NoRequest]
    BY <1>3 DEF IngestNewIssue, IngestOccurrence, IngestDuplicate, WriteStatus, WriteTags,
       Commit, Finish
  <2>2. \A d \in Client : req'[d] = IF d = c THEN NoRequest ELSE req[d]
    BY <2>1 DEF TypeOK
  <2>3. \A d \in Client : Sized(d)'
    BY <2>2, <1>1 DEF NoRequest
  <2>4. Quiet'
    <3>1. CASE IngestNewIssue(c)
      <4>1. req[c].body \in Body
        BY <3>1, RequestFields DEF IngestNewIssue, TypeOK
      <4>2. \A f \in Issue : status'[f] = IF f = Fingerprint[req[c].body] THEN "unresolved"
                                          ELSE status[f]
        BY <3>1 DEF IngestNewIssue, TypeOK
      <4>3. QED
        BY <4>2, <3>1, <1>1 DEF IngestNewIssue, Exists
    <3>2. CASE IngestOccurrence(c)
      <4>1. Fingerprint[req[c].body] \in Issue /\ Exists(Fingerprint[req[c].body])
        BY <3>2, RequestFields DEF IngestOccurrence, TypeOK
      <4>2. \A f \in Issue : f # Fingerprint[req[c].body]
                               => status'[f] = status[f] /\ statusLog'[f] = statusLog[f]
        BY <3>2 DEF IngestOccurrence, TypeOK
      <4>3. status'[Fingerprint[req[c].body]] # "none"
        BY <3>2, <4>1 DEF IngestOccurrence, TypeOK, Exists
      <4>4. QED
        BY <4>1, <4>2, <4>3, <1>1 DEF Exists
    <3>3. CASE IngestDuplicate(c)
      BY <3>3, <1>1 DEF IngestDuplicate, issueVars, Exists
    <3>4. CASE WriteStatus(c)
      <4>1. req[c].issue \in Issue /\ req[c].to \in Status
        BY <3>4, RequestFields DEF WriteStatus, TypeOK
      <4>2. \A f \in Issue : f # req[c].issue
                               => status'[f] = status[f] /\ statusLog'[f] = statusLog[f]
        BY <3>4 DEF WriteStatus, TypeOK
      <4>3. status'[req[c].issue] # "none"
        BY <3>4, <4>1 DEF WriteStatus, TypeOK, Status
      <4>4. QED
        BY <4>2, <4>3, <1>1 DEF Exists
    <3>5. CASE WriteTags(c)
      BY <3>5, <1>1 DEF WriteTags, Exists
    <3>6. QED
      BY <1>3, <3>1, <3>2, <3>3, <3>4, <3>5
  <2>5. QED
    BY <2>1, <2>3, <2>4
<1>4. ASSUME NEW c \in Client, IngestConflict(c) \/ Abandon(c)
      PROVE  (\A d \in fresh' : Seen(d)') /\ (\A d \in Client : Sized(d)') /\ Quiet'
  <2>1. /\ req' = [req EXCEPT ![c] = NoRequest] /\ fresh' \subseteq fresh /\ UNCHANGED issueVars
    BY <1>4 DEF IngestConflict, Abandon, Finish
  <2>2. c \notin fresh'
    BY <1>4 DEF IngestConflict, Abandon, TypeOK
  <2>3. \A d \in Client : req'[d] = IF d = c THEN NoRequest ELSE req[d]
    BY <2>1 DEF TypeOK
  <2>4. \A d \in fresh' : d \in Client /\ d # c /\ d \in fresh
    BY <2>1, <2>2 DEF TypeOK
  <2>5. QED
    BY <2>1, <2>3, <2>4, <1>1 DEF NoRequest, issueVars, Exists
<1>5. ASSUME NEW c \in Client, NEW r, req' = [req EXCEPT ![c] = r], UNCHANGED issueVars,
             \/ r.op = "ingest" /\ fresh' = fresh /\ c \notin fresh
             \/ /\ fresh' = fresh \cup {c} /\ r.op = "status" /\ status[r.issue] # "none"
                /\ r.seen = status[r.issue] /\ r.to # r.seen
             \/ /\ fresh' = fresh \cup {c} /\ r.op = "tags" /\ r.seen = tags[r.issue]
                /\ Cardinality(r.to) <= MaxTags
      PROVE  (\A d \in fresh' : Seen(d)') /\ (\A d \in Client : Sized(d)') /\ Quiet'
  <2>1. \A d \in Client : req'[d] = IF d = c THEN r ELSE req[d]
    BY <1>5 DEF TypeOK
  <2>2. \A d \in fresh' : d \in Client /\ (d \in fresh \/ d = c)
    BY <1>5 DEF TypeOK
  <2>3. \A d \in fresh' : Seen(d)'
    <3>1. ASSUME NEW d \in fresh', d # c PROVE Seen(d)'
      BY <3>1, <2>1, <2>2, <1>1, <1>5 DEF issueVars, Exists
    <3>2. ASSUME c \in fresh' PROVE Seen(c)'
      BY <3>2, <2>1, <1>5 DEF issueVars, Exists
    <3>3. QED
      BY <3>1, <3>2
  <2>4. \A d \in Client : Sized(d)'
    BY <2>1, <1>1, <1>5
  <2>5. Quiet'
    BY <1>1, <1>5 DEF issueVars, Exists
  <2>6. QED
    BY <2>3, <2>4, <2>5
<1>6. ASSUME NEW c \in Client, NEW b \in Body, NEW k \in Key, Authenticate(c, b, k)
      PROVE  (\A d \in fresh' : Seen(d)') /\ (\A d \in Client : Sized(d)') /\ Quiet'
  <2>1. req[c].op = "none"
    BY <1>6 DEF Authenticate, NoRequest
  <2>2. c \notin fresh
    BY <2>1 DEF TypeOK
  <2>3. QED
    BY <1>5, <1>6, <2>2 DEF Authenticate
<1>7. ASSUME NEW c \in Client, NEW f \in Issue, NEW s \in Status, OpenStatus(c, f, s)
      PROVE  (\A d \in fresh' : Seen(d)') /\ (\A d \in Client : Sized(d)') /\ Quiet'
  BY <1>5, <1>7 DEF OpenStatus, Exists
<1>8. ASSUME NEW c \in Client, NEW f \in Issue, NEW T \in SUBSET Tag, OpenTags(c, f, T)
      PROVE  (\A d \in fresh' : Seen(d)') /\ (\A d \in Client : Sized(d)') /\ Quiet'
  BY <1>5, <1>8 DEF OpenTags
<1>9. ASSUME NEW k \in Key, CreateIngestKey(k) \/ RevokeIngestKey(k)
      PROVE  (\A d \in fresh' : Seen(d)') /\ (\A d \in Client : Sized(d)') /\ Quiet'
  BY <1>1, <1>9 DEF CreateIngestKey, RevokeIngestKey, issueVars, Exists
<1>10. CASE UNCHANGED vars
  BY <1>1, <1>10 DEF vars, issueVars, Exists
<1> HIDE DEF Seen, Sized, Quiet
<1>11. QED
  BY <1>3, <1>4, <1>6, <1>7, <1>8, <1>9, <1>10, StepCases

\* The activity keeps replaying to the status (set_issue_status and ingest interleaved).
LEMMA StatusHistoryInductive ==
  TypeOK /\ Snapshots /\ StatusHistoryReplays /\ [Next]_vars => StatusHistoryReplays'
<1> SUFFICES ASSUME TypeOK, Snapshots, StatusHistoryReplays, [Next]_vars,
                    NEW f \in Issue, status'[f] # "none"
             PROVE  StatusReplays(statusLog'[f], status'[f])
  BY DEF StatusHistoryReplays, Exists
<1>1. statusLog[f] \in Seq(StatusEntry)
  BY DEF TypeOK
<1>2. status[f] # "none" => StatusReplays(statusLog[f], status[f])
  BY DEF StatusHistoryReplays, Exists
<1>3. ASSUME status'[f] = status[f], statusLog'[f] = statusLog[f]
      PROVE  StatusReplays(statusLog'[f], status'[f])
  BY <1>2, <1>3
<1>4. ASSUME status[f] # "none",
             NEW e \in StatusEntry, e.from = status[f], e.to # e.from,
             statusLog'[f] = Append(statusLog[f], e), status'[f] = e.to
      PROVE  StatusReplays(statusLog'[f], status'[f])
  BY <1>1, <1>2, <1>4, ReplaysAppend
<1>5. ASSUME NEW c \in Client, IngestNewIssue(c) PROVE StatusReplays(statusLog'[f], status'[f])
  <2>1. req[c].body \in Body
    BY <1>5, RequestFields DEF IngestNewIssue, TypeOK
  <2>2. statusLog' = statusLog
    BY <1>5 DEF IngestNewIssue
  <2>3. CASE f = Fingerprint[req[c].body]
    <3>1. status[f] = "none" /\ status'[f] = "unresolved"
      BY <1>5, <2>3 DEF IngestNewIssue, TypeOK, Exists
    <3>2. statusLog'[f] = <<>>
      BY <3>1, <2>2 DEF Snapshots, Exists
    <3>3. QED
      BY <3>1, <3>2 DEF StatusReplays
  <2>4. CASE f # Fingerprint[req[c].body]
    <3>1. status'[f] = status[f]
      BY <1>5, <2>4 DEF IngestNewIssue, TypeOK
    <3>2. QED
      BY <1>3, <2>2, <3>1
  <2>5. QED
    BY <2>3, <2>4
<1>6. ASSUME NEW c \in Client, IngestOccurrence(c) PROVE StatusReplays(statusLog'[f], status'[f])
  <2> DEFINE i == Fingerprint[req[c].body]
             e == [kind |-> "regression", from |-> "resolved", to |-> "unresolved"]
  <2>1. i \in Issue
    BY <1>6, RequestFields DEF IngestOccurrence, TypeOK
  <2>2. status[i] # "none"
    BY <1>6 DEF IngestOccurrence, Exists
  <2>3. /\ status' = [status EXCEPT ![i] = IF status[i] = "resolved" THEN "unresolved" ELSE status[i]]
        /\ statusLog' = [statusLog EXCEPT ![i] = IF status[i] = "resolved"
                                                  THEN Append(statusLog[i], e) ELSE statusLog[i]]
    BY <1>6 DEF IngestOccurrence
  <2>4. e \in StatusEntry /\ e.from = "resolved" /\ e.to = "unresolved"
    BY DEF StatusEntry, Status
  <2> HIDE DEF i, e
  <2>5. CASE f = i /\ status[i] = "resolved"
    <3>1. status'[f] = "unresolved" /\ statusLog'[f] = Append(statusLog[f], e)
      BY <2>1, <2>3, <2>5 DEF TypeOK
    <3>2. QED
      BY <1>4, <2>4, <2>5, <3>1
  <2>6. CASE f # i \/ status[i] # "resolved"
    <3>1. status'[f] = status[f] /\ statusLog'[f] = statusLog[f]
      BY <2>1, <2>3, <2>6 DEF TypeOK
    <3>2. QED
      BY <1>3, <3>1
  <2>7. QED
    BY <2>5, <2>6
<1>7. ASSUME NEW c \in Client, WriteStatus(c) PROVE StatusReplays(statusLog'[f], status'[f])
  <2> DEFINE i == req[c].issue
             e == [kind |-> "status", from |-> req[c].seen, to |-> req[c].to]
  <2>1. i \in Issue /\ req[c].to \in Status /\ req[c].seen \in Status
    BY <1>7, RequestFields DEF WriteStatus, TypeOK
  <2>2. status[i] # "none" /\ req[c].seen = status[i] /\ req[c].to # req[c].seen
    BY <1>7 DEF WriteStatus, Snapshots, Exists
  <2>3. /\ status' = [status EXCEPT ![i] = req[c].to]
        /\ statusLog' = [statusLog EXCEPT ![i] = Append(statusLog[i], e)]
    BY <1>7 DEF WriteStatus
  <2>4. e \in StatusEntry /\ e.from = status[i] /\ e.to = req[c].to
    BY <2>1, <2>2 DEF StatusEntry
  <2> HIDE DEF i, e
  <2>5. CASE f = i
    <3>1. status'[f] = e.to /\ statusLog'[f] = Append(statusLog[f], e)
      BY <2>1, <2>3, <2>4, <2>5 DEF TypeOK
    <3>2. QED
      BY <1>4, <2>2, <2>4, <2>5, <3>1
  <2>6. CASE f # i
    <3>1. status'[f] = status[f] /\ statusLog'[f] = statusLog[f]
      BY <2>3, <2>6 DEF TypeOK
    <3>2. QED
      BY <1>3, <3>1
  <2>7. QED
    BY <2>5, <2>6
<1>8. QED
  BY <1>3, <1>5, <1>6, <1>7, StepCases
     DEF Authenticate, IngestDuplicate, IngestConflict, OpenStatus, OpenTags,
         WriteTags, Abandon, CreateIngestKey, RevokeIngestKey, vars, issueVars

\* What was answered with 202 stays stored: ingest compares the hash before it says duplicate.
LEMMA AcceptedInductive == TypeOK /\ AcceptedIsStored /\ [Next]_vars => AcceptedIsStored'
<1> SUFFICES ASSUME TypeOK, AcceptedIsStored, [Next]_vars, NEW a \in accepted'
             PROVE  raw'[EventId[a]] = a \/ EventId[a] \in unhashed'
  BY DEF AcceptedIsStored
<1>1. ASSUME a \in accepted PROVE raw'[EventId[a]] = a \/ EventId[a] \in unhashed'
  <2>1. a \in Body /\ a # NoBody
    BY <1>1 DEF TypeOK
  <2>2. raw[EventId[a]] = a \/ EventId[a] \in unhashed
    BY <1>1 DEF AcceptedIsStored
  <2>3. QED
    BY <2>1, <2>2, StoredIsFinal
<1>2. ASSUME NEW c \in Client, IngestNewIssue(c) \/ IngestOccurrence(c), a \notin accepted
      PROVE  raw'[EventId[a]] = a
  <2>1. StoreEvent(req[c].body, req[c].key) /\ req[c].body \in Body
    BY <1>2, RequestFields DEF IngestNewIssue, IngestOccurrence, TypeOK
  <2>2. a = req[c].body
    BY <1>2, <2>1 DEF StoreEvent
  <2>3. QED
    BY <2>1, <2>2 DEF StoreEvent, TypeOK
<1>3. ASSUME NEW c \in Client, IngestDuplicate(c), a \notin accepted
      PROVE  raw'[EventId[a]] = a \/ EventId[a] \in unhashed'
  BY <1>3 DEF IngestDuplicate, SameContent
<1>4. QED
  BY <1>1, <1>2, <1>3, StepCases
     DEF Authenticate, IngestConflict, OpenStatus, OpenTags, WriteStatus, WriteTags, Abandon,
         CreateIngestKey, RevokeIngestKey, vars

-----------------------------------------------------------------------------
\* Storing a new event adds its id to the events of its issue and to no other's.
LEMMA EventsOfStore ==
  ASSUME TypeOK, NEW b \in Body, NEW k, raw[EventId[b]] = NoBody, StoreEvent(b, k)
  PROVE  /\ EventsOf(Fingerprint[b])' = EventsOf(Fingerprint[b]) \cup {EventId[b]}
         /\ EventId[b] \notin EventsOf(Fingerprint[b])
         /\ \A f \in Issue \ {Fingerprint[b]} : EventsOf(f)' = EventsOf(f)
         /\ \A f \in Issue : IsFiniteSet(EventsOf(f))
<1>1. \A id \in Id : raw'[id] = IF id = EventId[b] THEN b ELSE raw[id]
  BY DEF StoreEvent, TypeOK
<1>2. ASSUME NEW f \in Issue PROVE EventsOf(f) \subseteq Id /\ IsFiniteSet(EventsOf(f))
  <2>1. EventsOf(f) \subseteq Id
    BY DEF EventsOf, Stored
  <2>2. QED
    BY <2>1, FS_Subset
<1>3. QED
  BY <1>1, <1>2 DEF EventsOf, Stored

\* event_count stays the number of stored events (ingest's UPDATE and INSERT in one transaction).
LEMMA CountsInductive == TypeOK /\ CountsMatchEvents /\ (\A f \in Issue : ~Exists(f) => EventsOf(f) = {})
                         /\ [Next]_vars
                         => CountsMatchEvents' /\ (\A f \in Issue : ~Exists(f) => EventsOf(f) = {})'
<1> DEFINE NoIssueNoEvents == \A f \in Issue : ~Exists(f) => EventsOf(f) = {}
<1> SUFFICES ASSUME TypeOK, CountsMatchEvents, NoIssueNoEvents, [Next]_vars
             PROVE  CountsMatchEvents' /\ NoIssueNoEvents'
  OBVIOUS
<1>1. ASSUME UNCHANGED <<raw, eventCount>>, \A f \in Issue : status[f] # "none" => status'[f] # "none"
      PROVE  CountsMatchEvents' /\ NoIssueNoEvents'
  BY <1>1 DEF CountsMatchEvents, EventsOf, Stored, Exists
<1>2. ASSUME NEW c \in Client, IngestNewIssue(c) \/ IngestOccurrence(c)
      PROVE  CountsMatchEvents' /\ NoIssueNoEvents'
  <2>0. PICK b \in Body : b = req[c].body
    BY <1>2, RequestFields DEF IngestNewIssue, IngestOccurrence, TypeOK
  <2>a. PICK k : k = req[c].key
    OBVIOUS
  <2>b. PICK i \in Issue : i = Fingerprint[b]
    OBVIOUS
  <2>1. raw[EventId[b]] = NoBody /\ StoreEvent(b, k)
    BY <1>2, <2>0, <2>a DEF IngestNewIssue, IngestOccurrence
  <2>2. /\ EventsOf(i)' = EventsOf(i) \cup {EventId[b]}
        /\ EventId[b] \notin EventsOf(i)
        /\ \A f \in Issue \ {i} : EventsOf(f)' = EventsOf(f)
        /\ \A f \in Issue : IsFiniteSet(EventsOf(f))
    BY <2>1, <2>b, EventsOfStore
  <2>3. Cardinality(EventsOf(i)') = Cardinality(EventsOf(i)) + 1
    BY <2>1, <2>2, FS_AddElement
  <2>4. eventCount'[i] = eventCount[i] + 1 /\ \A f \in Issue \ {i} : eventCount'[f] = eventCount[f]
    <3>1. CASE IngestNewIssue(c)
      <4>1. EventsOf(i) = {}
        BY <3>1, <2>0, <2>b DEF IngestNewIssue
      <4>2. eventCount[i] = 0
        BY <4>1, FS_EmptySet DEF CountsMatchEvents
      <4>3. QED
        BY <3>1, <2>0, <2>b, <4>2 DEF IngestNewIssue, TypeOK
    <3>2. CASE IngestOccurrence(c)
      BY <3>2, <2>0, <2>b DEF IngestOccurrence, TypeOK
    <3>3. QED
      BY <1>2, <3>1, <3>2
  <2>5. status'[i] # "none" /\ \A f \in Issue \ {i} : status'[f] = status[f]
    BY <1>2, <2>0, <2>b DEF IngestNewIssue, IngestOccurrence, TypeOK, Exists
  <2>6. CountsMatchEvents'
    BY <2>1, <2>2, <2>3, <2>4 DEF CountsMatchEvents
  <2>7. NoIssueNoEvents'
    BY <2>1, <2>2, <2>5 DEF Exists
  <2>8. QED
    BY <2>6, <2>7
<1>3. ASSUME NEW c \in Client, WriteStatus(c) PROVE CountsMatchEvents' /\ NoIssueNoEvents'
  <2>1. req[c].to \in Status
    BY <1>3, RequestFields DEF WriteStatus, TypeOK
  <2>2. \A f \in Issue : status[f] # "none" => status'[f] # "none"
    BY <1>3, <2>1 DEF WriteStatus, TypeOK, Status
  <2>3. UNCHANGED <<raw, eventCount>>
    BY <1>3 DEF WriteStatus
  <2>4. QED
    BY <1>1, <2>2, <2>3
<1>4. (\E c \in Client : \/ \E b \in Body, k \in Key : Authenticate(c, b, k)
                         \/ IngestDuplicate(c) \/ IngestConflict(c)
                         \/ \E f \in Issue, s \in Status : OpenStatus(c, f, s)
                         \/ \E f \in Issue, T \in SUBSET Tag : OpenTags(c, f, T)
                         \/ WriteTags(c) \/ Abandon(c))
      \/ (\E k \in Key : CreateIngestKey(k) \/ RevokeIngestKey(k)) \/ UNCHANGED vars
      => UNCHANGED <<raw, eventCount, status>>
  BY DEF Authenticate, IngestDuplicate, IngestConflict, OpenStatus, OpenTags, WriteTags, Abandon,
         CreateIngestKey, RevokeIngestKey, vars, issueVars
<1>5. UNCHANGED <<raw, eventCount, status>> => CountsMatchEvents' /\ NoIssueNoEvents'
  BY <1>1
<1> HIDE DEF NoIssueNoEvents
<1>6. QED
  BY <1>2, <1>3, <1>4, <1>5, StepCases

-----------------------------------------------------------------------------
\* Labels seeded into the room left keep an issue within the limit.
LEMMA SeedLabelsLimit ==
  ASSUME TypeOK, TagsStayWithinLimit, NEW f \in Issue, NEW b \in Body, SeedLabels(f, b)
  PROVE  TagsStayWithinLimit'
<1>1. PICK fit \in SUBSET (Labels[b] \ tags[f]) :
        /\ tags' = [tags EXCEPT ![f] = tags[f] \cup fit]
        /\ Cardinality(fit) = IF Cardinality(Labels[b] \ tags[f]) <= MaxTags - Cardinality(tags[f])
                                THEN Cardinality(Labels[b] \ tags[f])
                                ELSE MaxTags - Cardinality(tags[f])
  BY SeedLabelsType DEF TypeOK
<1>2. tags[f] \subseteq Tag /\ Labels[b] \subseteq Tag /\ fit \subseteq Tag
  BY <1>1 DEF TypeOK
<1>3. IsFiniteSet(tags[f]) /\ IsFiniteSet(fit) /\ IsFiniteSet(Labels[b] \ tags[f])
  BY <1>2, FS_Subset
<1>4. Cardinality(tags[f]) <= MaxTags /\ Cardinality(tags[f]) \in Nat
      /\ Cardinality(fit) \in Nat /\ Cardinality(Labels[b] \ tags[f]) \in Nat
  BY <1>3, FS_CardinalityType DEF TagsStayWithinLimit
<1>5. Cardinality(fit) <= MaxTags - Cardinality(tags[f])
  BY <1>1, <1>4
<1>6. tags[f] \cap fit = {}
  BY <1>1
<1>7. Cardinality(tags[f] \cup fit) = Cardinality(tags[f]) + Cardinality(fit)
  <2>1. Cardinality(tags[f] \cup fit)
          = Cardinality(tags[f]) + Cardinality(fit) - Cardinality(tags[f] \cap fit)
    BY <1>3, FS_Union
  <2>2. Cardinality(tags[f] \cap fit) = 0
    BY <1>6, FS_EmptySet
  <2>3. QED
    BY <1>4, <2>1, <2>2
<1>8. Cardinality(tags[f] \cup fit) <= MaxTags
  BY <1>4, <1>5, <1>7
<1>9. \A g \in Issue : tags'[g] = IF g = f THEN tags[f] \cup fit ELSE tags[g]
  BY <1>1 DEF TypeOK
<1>10. QED
  BY <1>8, <1>9 DEF TagsStayWithinLimit

\* No edit and no event takes an issue over MAX_TAGS tags (replace_issue_tags, ingest).
LEMMA TagLimitInductive ==
  TypeOK /\ Snapshots /\ TagsStayWithinLimit /\ [Next]_vars => TagsStayWithinLimit'
<1> SUFFICES ASSUME TypeOK, Snapshots, TagsStayWithinLimit, [Next]_vars PROVE TagsStayWithinLimit'
  OBVIOUS
<1>1. ASSUME NEW c \in Client, IngestNewIssue(c) \/ IngestOccurrence(c) PROVE TagsStayWithinLimit'
  <2>1. req[c].body \in Body /\ SeedLabels(Fingerprint[req[c].body], req[c].body)
    BY <1>1, RequestFields DEF IngestNewIssue, IngestOccurrence, TypeOK
  <2>2. PICK b \in Body, f \in Issue : b = req[c].body /\ f = Fingerprint[req[c].body]
    BY <2>1
  <2>3. SeedLabels(f, b)
    BY <2>1, <2>2
  <2>4. QED
    BY <2>3, SeedLabelsLimit
<1>2. ASSUME NEW c \in Client, WriteTags(c) PROVE TagsStayWithinLimit'
  <2>1. Cardinality(req[c].to) <= MaxTags
    BY <1>2 DEF WriteTags, Snapshots
  <2>2. \A f \in Issue : tags'[f] = IF f = req[c].issue THEN req[c].to ELSE tags[f]
    BY <1>2 DEF WriteTags, TypeOK
  <2>3. QED
    BY <2>1, <2>2 DEF TagsStayWithinLimit
<1>3. (tags' = tags) => TagsStayWithinLimit'
  BY DEF TagsStayWithinLimit
<1>4. QED
  BY <1>1, <1>2, <1>3, StepCases
     DEF Authenticate, IngestDuplicate, IngestConflict, OpenStatus, OpenTags, WriteStatus, Abandon,
         CreateIngestKey, RevokeIngestKey, vars, issueVars

\* An edit (replace_issue_tags) records the tags it replaces, an event (ingest) only adds
\* labels of its own, and nothing else touches tags.
LEMMA TagEditsNext ==
  ASSUME TypeOK, Snapshots, [Next]_vars, NEW f \in Issue
  PROVE  \/ tagLog'[f] = Append(tagLog[f], [from |-> tags[f], to |-> tags'[f]])
         \/ /\ tagLog'[f] = tagLog[f]
            /\ tags[f] \subseteq tags'[f] /\ tags'[f] \ tags[f] \subseteq LabelsStored(f)
<1> DEFINE Recorded == tagLog'[f] = Append(tagLog[f], [from |-> tags[f], to |-> tags'[f]])
           Labelled == /\ tagLog'[f] = tagLog[f]
                       /\ tags[f] \subseteq tags'[f] /\ tags'[f] \ tags[f] \subseteq LabelsStored(f)
<1>1. ASSUME NEW c \in Client, IngestNewIssue(c) \/ IngestOccurrence(c)
      PROVE  Labelled
  <2>1. PICK b \in Body, i \in Issue : b = req[c].body /\ i = Fingerprint[b]
    BY <1>1, RequestFields DEF IngestNewIssue, IngestOccurrence, TypeOK
  <2>2. SeedLabels(i, b) /\ StoreEvent(b, req[c].key) /\ raw[EventId[b]] = NoBody /\ tagLog' = tagLog
    BY <1>1, <2>1 DEF IngestNewIssue, IngestOccurrence
  <2>3. PICK fit \in SUBSET (Labels[b] \ tags[i]) : tags' = [tags EXCEPT ![i] = tags[i] \cup fit]
    BY <2>2, SeedLabelsType DEF TypeOK
  <2>4. CASE f # i
    BY <2>2, <2>3, <2>4 DEF TypeOK
  <2>5. CASE f = i
    <3>1. raw'[EventId[b]] = b /\ b # NoBody
      BY <2>2 DEF StoreEvent, TypeOK
    <3>2. EventId[b] \in EventsOf(f)' \ EventsOf(f)
      BY <2>1, <2>2, <2>5, <3>1 DEF EventsOf, Stored
    <3>3. Labels[b] \subseteq LabelsStored(f)
      BY <3>1, <3>2 DEF LabelsStored
    <3>4. tags'[f] = tags[f] \cup fit
      BY <2>3, <2>5 DEF TypeOK
    <3>5. QED
      BY <2>2, <3>3, <3>4
  <2>6. QED
    BY <2>4, <2>5
<1>2. ASSUME NEW c \in Client, WriteTags(c)
      PROVE  Recorded \/ Labelled
  <2>1. PICK i \in Issue, T \in SUBSET Tag : i = req[c].issue /\ T = req[c].to
    BY <1>2, RequestFields DEF WriteTags, TypeOK
  <2>2. req[c].seen = tags[i]
    BY <1>2, <2>1 DEF WriteTags, Snapshots
  <2>3. /\ tags' = [tags EXCEPT ![i] = T]
        /\ tagLog' = [tagLog EXCEPT ![i] = Append(tagLog[i], [from |-> tags[i], to |-> T])]
    BY <1>2, <2>1, <2>2 DEF WriteTags
  <2>4. CASE f = i
    BY <2>3, <2>4 DEF TypeOK
  <2>5. CASE f # i
    BY <2>3, <2>5 DEF TypeOK
  <2>6. QED
    BY <2>4, <2>5
<1>3. (tags' = tags /\ tagLog' = tagLog) => Labelled
  OBVIOUS
<1> HIDE DEF Recorded, Labelled
<1>4. Recorded \/ Labelled
  BY <1>1, <1>2, <1>3, StepCases
     DEF Authenticate, IngestDuplicate, IngestConflict, OpenStatus, OpenTags, WriteStatus, Abandon,
         CreateIngestKey, RevokeIngestKey, vars, issueVars
<1>5. QED
  BY <1>4 DEF Recorded, Labelled

-----------------------------------------------------------------------------
\* The regressions in an issue's activity.
Regressions(h) == {k \in 1 .. Len(h) : h[k].kind = "regression"}

\* An entry more is a regression more or none.
LEMMA RegressionsAppend ==
  ASSUME NEW h \in Seq(StatusEntry), NEW e \in StatusEntry
  PROVE  /\ Cardinality(Regressions(h)) \in Nat
         /\ Cardinality(Regressions(Append(h, e)))
              = Cardinality(Regressions(h)) + (IF e.kind = "regression" THEN 1 ELSE 0)
<1> DEFINE g == Append(h, e)
<1>1. Len(g) = Len(h) + 1 /\ Len(h) \in Nat
  OBVIOUS
<1>2. g[Len(h) + 1] = e /\ \A k \in 1 .. Len(h) : g[k] = h[k]
  OBVIOUS
<1> HIDE DEF g
<1>3. Regressions(g) = IF e.kind = "regression" THEN Regressions(h) \cup {Len(h) + 1}
                                                ELSE Regressions(h)
  BY <1>1, <1>2 DEF Regressions
<1>4. Regressions(h) \subseteq 1 .. Len(h) /\ Len(h) + 1 \notin Regressions(h)
  <2>1. Regressions(h) \subseteq 1 .. Len(h)
    BY Zenon DEF Regressions
  <2>2. Len(h) + 1 \notin 1 .. Len(h)
    BY <1>1
  <2>3. QED
    BY <2>1, <2>2, Zenon
<1>5. IsFiniteSet(Regressions(h))
  <2>1. IsFiniteSet(1 .. Len(h))
    BY <1>1, FS_Interval
  <2>2. QED
    BY <1>4, <2>1, FS_Subset
<1>6. Cardinality(Regressions(h) \cup {Len(h) + 1}) = Cardinality(Regressions(h)) + 1
  BY <1>4, <1>5, FS_AddElement
<1>7. Cardinality(Regressions(h)) \in Nat
  BY <1>5, FS_CardinalityType
<1>8. Cardinality(Regressions(g))
        = Cardinality(Regressions(h)) + (IF e.kind = "regression" THEN 1 ELSE 0)
  BY <1>3, <1>6, <1>7
<1>9. QED
  BY <1>7, <1>8 DEF g

\* Notifications keep matching the creation and the regressions (ingest's outbox insert).
LEMMA NoticesInductive ==
  TypeOK /\ Snapshots /\ NoticesMatchTransitions /\ [Next]_vars => NoticesMatchTransitions'
<1> DEFINE Matches(n, h, s) ==
             /\ Len(n) = (IF s # "none" THEN 1 ELSE 0) + Cardinality(Regressions(h))
             /\ \A k \in 1 .. Len(n) : n[k] = "issue.created" <=> k = 1
           Kinds == {"issue.created", "issue.regressed"}
<1> SUFFICES ASSUME TypeOK, Snapshots, NoticesMatchTransitions, [Next]_vars, NEW f \in Issue
             PROVE  Matches(notices'[f], statusLog'[f], status'[f])
  BY DEF NoticesMatchTransitions, Regressions, Exists
<1>1. Matches(notices[f], statusLog[f], status[f])
  BY DEF NoticesMatchTransitions, Regressions, Exists
<1>2. notices[f] \in Seq(Kinds) /\ statusLog[f] \in Seq(StatusEntry)
  BY DEF TypeOK
<1>3. ASSUME notices'[f] = notices[f], statusLog'[f] = statusLog[f],
             status'[f] # "none" <=> status[f] # "none"
      PROVE  Matches(notices'[f], statusLog'[f], status'[f])
  BY <1>1, <1>3
<1>4. ASSUME NEW n \in Seq(Kinds), NEW m \in Kinds, NEW g, NEW s,
             Len(n) + 1 = (IF s # "none" THEN 1 ELSE 0) + Cardinality(Regressions(g)),
             \A k \in 1 .. Len(n) : n[k] = "issue.created" <=> k = 1,
             m = "issue.created" <=> Len(n) = 0
      PROVE  Matches(Append(n, m), g, s)
  <2> DEFINE a == Append(n, m)
  <2>1. Len(a) = Len(n) + 1 /\ Len(n) \in Nat
    OBVIOUS
  <2>2. a[Len(n) + 1] = m /\ \A k \in 1 .. Len(n) : a[k] = n[k]
    OBVIOUS
  <2> HIDE DEF a
  <2>3. ASSUME NEW k \in 1 .. Len(a) PROVE a[k] = "issue.created" <=> k = 1
    <3>1. CASE k \in 1 .. Len(n)
      BY <3>1, <2>2, <1>4
    <3>2. CASE k = Len(n) + 1
      BY <3>2, <2>1, <2>2, <1>4
    <3>3. QED
      BY <3>1, <3>2, <2>1
  <2>4. Matches(a, g, s)
    BY <2>1, <2>3, <1>4
  <2>5. QED
    BY <2>4 DEF a
<1>5. ASSUME NEW c \in Client, IngestNewIssue(c)
      PROVE  Matches(notices'[f], statusLog'[f], status'[f])
  <2>1. req[c].body \in Body /\ Fingerprint[req[c].body] \in Issue
    BY <1>5, RequestFields DEF IngestNewIssue, TypeOK
  <2>2. CASE f = Fingerprint[req[c].body]
    <3>1. /\ status[f] = "none" /\ status'[f] = "unresolved" /\ statusLog' = statusLog
          /\ notices'[f] = Append(notices[f], "issue.created")
      BY <1>5, <2>2 DEF IngestNewIssue, TypeOK, Exists
    <3>2. statusLog[f] = <<>>
      BY <3>1 DEF Snapshots, Exists
    <3>3. Cardinality(Regressions(statusLog[f])) = 0
      <4>1. Regressions(statusLog[f]) = {}
        BY <3>2 DEF Regressions
      <4>2. QED
        BY <4>1, FS_EmptySet
    <3>4. Len(notices[f]) = 0
      BY <1>1, <3>1, <3>3
    <3>5. QED
      BY <1>1, <1>2, <1>4, <3>1, <3>3, <3>4
  <2>3. CASE f # Fingerprint[req[c].body]
    BY <1>3, <1>5, <2>3 DEF IngestNewIssue, TypeOK
  <2>4. QED
    BY <2>2, <2>3
<1>6. ASSUME NEW c \in Client, IngestOccurrence(c)
      PROVE  Matches(notices'[f], statusLog'[f], status'[f])
  <2> DEFINE i == Fingerprint[req[c].body]
             e == [kind |-> "regression", from |-> "resolved", to |-> "unresolved"]
  <2>1. i \in Issue /\ status[i] # "none"
    BY <1>6, RequestFields DEF IngestOccurrence, TypeOK, Exists
  <2>2. /\ status' = [status EXCEPT ![i] = IF status[i] = "resolved" THEN "unresolved" ELSE status[i]]
        /\ statusLog' = [statusLog EXCEPT ![i] = IF status[i] = "resolved"
                                                  THEN Append(statusLog[i], e) ELSE statusLog[i]]
        /\ notices' = [notices EXCEPT ![i] = IF status[i] = "resolved"
                                                THEN Append(notices[i], "issue.regressed")
                                                ELSE notices[i]]
    BY <1>6 DEF IngestOccurrence, NotifyRegression
  <2>3. e \in StatusEntry /\ e.kind = "regression"
    BY DEF StatusEntry, Status
  <2> HIDE DEF i, e
  <2>4. CASE f = i /\ status[i] = "resolved"
    <3>1. /\ status'[f] = "unresolved" /\ statusLog'[f] = Append(statusLog[f], e)
          /\ notices'[f] = Append(notices[f], "issue.regressed")
      BY <2>1, <2>2, <2>4 DEF TypeOK
    <3>2. /\ Cardinality(Regressions(statusLog'[f])) = Cardinality(Regressions(statusLog[f])) + 1
          /\ Cardinality(Regressions(statusLog[f])) \in Nat
      BY <1>2, <2>3, <3>1, RegressionsAppend
    <3>3. Len(notices[f]) = 1 + Cardinality(Regressions(statusLog[f]))
          /\ \A k \in 1 .. Len(notices[f]) : notices[f][k] = "issue.created" <=> k = 1
      BY <1>1, <2>1, <2>4
    <3>4. Len(notices[f]) # 0
          /\ Len(notices[f]) + 1 = 1 + Cardinality(Regressions(statusLog'[f]))
      BY <3>2, <3>3
    <3>5. PICK g, s : g = statusLog'[f] /\ s = status'[f]
      OBVIOUS
    <3>6. Matches(Append(notices[f], "issue.regressed"), g, s)
      BY <1>2, <1>4, <3>1, <3>3, <3>4, <3>5
    <3>7. QED
      BY <3>1, <3>5, <3>6
  <2>5. CASE f # i \/ status[i] # "resolved"
    <3>1. notices'[f] = notices[f] /\ statusLog'[f] = statusLog[f] /\ status'[f] = status[f]
      BY <2>1, <2>2, <2>5 DEF TypeOK
    <3>2. QED
      BY <1>3, <3>1
  <2>6. QED
    BY <2>4, <2>5
<1>7. ASSUME NEW c \in Client, WriteStatus(c)
      PROVE  Matches(notices'[f], statusLog'[f], status'[f])
  <2> DEFINE i == req[c].issue
             e == [kind |-> "status", from |-> req[c].seen, to |-> req[c].to]
  <2>1. i \in Issue /\ req[c].to \in Status /\ req[c].seen \in Status
    BY <1>7, RequestFields DEF WriteStatus, TypeOK
  <2>2. status[i] # "none"
    BY <1>7 DEF WriteStatus, Snapshots, Exists
  <2>3. /\ status' = [status EXCEPT ![i] = req[c].to] /\ notices' = notices
        /\ statusLog' = [statusLog EXCEPT ![i] = Append(statusLog[i], e)]
    BY <1>7 DEF WriteStatus
  <2>4. e \in StatusEntry /\ e.kind # "regression" /\ req[c].to # "none"
    BY <2>1 DEF StatusEntry, Status
  <2> HIDE DEF i, e
  <2>5. CASE f = i
    <3>1. status'[f] # "none" /\ statusLog'[f] = Append(statusLog[f], e)
      BY <2>1, <2>3, <2>4, <2>5 DEF TypeOK
    <3>2. Cardinality(Regressions(statusLog'[f])) = Cardinality(Regressions(statusLog[f]))
      BY <1>2, <2>4, <3>1, RegressionsAppend
    <3>3. QED
      BY <1>1, <2>2, <2>3, <2>5, <3>1, <3>2
  <2>6. CASE f # i
    BY <1>3, <2>3, <2>6 DEF TypeOK
  <2>7. QED
    BY <2>5, <2>6
<1>8. (notices' = notices /\ statusLog' = statusLog /\ status' = status)
      => Matches(notices'[f], statusLog'[f], status'[f])
  BY <1>3
<1> HIDE DEF Matches
<1>9. QED
  BY <1>5, <1>6, <1>7, <1>8, StepCases
     DEF Authenticate, IngestDuplicate, IngestConflict, OpenStatus, OpenTags, WriteTags, Abandon,
         CreateIngestKey, RevokeIngestKey, vars, issueVars

-----------------------------------------------------------------------------
\* Type correctness of ingest, the issue handlers and the key handlers.
THEOREM IssuesTypeOK == Spec => []TypeOK
<1>1. QED
  BY TypeOKInit, TypeOKInductive, PTL DEF Spec

\* An open transaction whose snapshot is the latest has read what is stored, in every state.
THEOREM IssuesSnapshots == Spec => [](TypeOK /\ Snapshots)
<1>1. Init => Snapshots
  BY DEF Init, Snapshots, NoRequest
<1>2. QED
  BY <1>1, SnapshotsInductive, IssuesTypeOK, PTL DEF Spec

\* set_issue_status and the regressions of ingest never fork an issue's history: its
\* activity replays to its status.
THEOREM IssuesStatusHistory == Spec => []StatusHistoryReplays
<1>1. Init => StatusHistoryReplays
  BY DEF Init, StatusHistoryReplays, StatusReplays, Exists
<1>2. QED
  BY <1>1, StatusHistoryInductive, IssuesSnapshots, PTL DEF Spec

\* Every change of an issue's tags is entered in its activity as it was made, or adds labels of
\* the event it stores: an edit (replace_issue_tags) that read the tags before another edit, or
\* before ingest labelled the issue, replaces nothing.
THEOREM IssuesTagHistory == Spec => TagEditsAreRecorded
<1>1. TypeOK /\ Snapshots /\ [Next]_vars
        => [\A f \in Issue :
              \/ tagLog'[f] = Append(tagLog[f], [from |-> tags[f], to |-> tags'[f]])
              \/ /\ tagLog'[f] = tagLog[f]
                 /\ tags[f] \subseteq tags'[f] /\ tags'[f] \ tags[f] \subseteq LabelsStored(f)]_vars
  BY TagEditsNext
<1>2. QED
  BY <1>1, IssuesSnapshots, PTL DEF Spec, TagEditsAreRecorded

\* Edits and event labels together never take an issue over MAX_TAGS tags.
THEOREM IssuesTagLimit == Spec => []TagsStayWithinLimit
<1>1. Init => TagsStayWithinLimit
  BY FS_EmptySet DEF Init, TagsStayWithinLimit
<1>2. QED
  BY <1>1, TagLimitInductive, IssuesSnapshots, PTL DEF Spec

\* The content behind every 202 of ingest stays stored under its event id.
THEOREM IssuesAccepted == Spec => []AcceptedIsStored
<1>1. Init => AcceptedIsStored
  BY DEF Init, AcceptedIsStored
<1>2. QED
  BY <1>1, AcceptedInductive, IssuesTypeOK, PTL DEF Spec

\* event_count is the number of stored events of the issue, whatever repeats, conflicts
\* and concurrent requests ingest saw.
THEOREM IssuesCounts == Spec => []CountsMatchEvents
<1> DEFINE Backed == \A f \in Issue : ~Exists(f) => EventsOf(f) = {}
<1>1. Init => CountsMatchEvents /\ Backed
  <2> SUFFICES ASSUME Init, NEW f \in Issue
               PROVE  /\ eventCount[f] = Cardinality(EventsOf(f))
                      /\ ~Exists(f) => EventsOf(f) = {}
    BY DEF CountsMatchEvents
  <2>1. \A id \in Id : raw[id] = IF \E b \in Legacy : EventId[b] = id
                                  THEN CHOOSE b \in Legacy : EventId[b] = id ELSE NoBody
    BY DEF Init
  <2>2. \A id \in Id : \/ raw[id] = NoBody /\ ~\E b \in Legacy : EventId[b] = id
                       \/ raw[id] \in Legacy /\ EventId[raw[id]] = id
    BY <2>1
  <2>3. EventsOf(f) = {EventId[b] : b \in LegacyOf(f)}
    <3>1. ASSUME NEW id \in EventsOf(f) PROVE id \in {EventId[b] : b \in LegacyOf(f)}
      BY <3>1, <2>2 DEF EventsOf, Stored, LegacyOf
    <3>2. ASSUME NEW b \in LegacyOf(f) PROVE EventId[b] \in EventsOf(f)
      <4>1. b \in Legacy /\ b \in Body /\ Fingerprint[b] = f /\ EventId[b] \in Id
        BY <3>2 DEF LegacyOf
      <4>2. raw[EventId[b]] \in Legacy /\ EventId[raw[EventId[b]]] = EventId[b]
        BY <4>1, <2>2
      <4>3. raw[EventId[b]] = b
        BY <4>1, <4>2
      <4>4. QED
        BY <4>1, <4>3 DEF EventsOf, Stored
    <3>3. QED
      BY <3>1, <3>2
  <2>4. eventCount[f] = Cardinality({EventId[b] : b \in LegacyOf(f)})
    BY DEF Init
  <2>5. ~Exists(f) => LegacyOf(f) = {}
    BY DEF Init, Exists
  <2>6. QED
    BY <2>3, <2>4, <2>5
<1>2. TypeOK /\ CountsMatchEvents /\ Backed /\ [Next]_vars => CountsMatchEvents' /\ Backed'
  BY CountsInductive
<1> HIDE DEF Backed
<1>3. QED
  BY <1>1, <1>2, IssuesTypeOK, PTL DEF Spec

\* Endpoints hear of an issue once, and once more for each regression in its activity.
THEOREM IssuesNotices == Spec => []NoticesMatchTransitions
<1>1. Init => NoticesMatchTransitions
  <2> SUFFICES ASSUME Init, NEW f \in Issue
               PROVE  /\ Len(notices[f]) = (IF Exists(f) THEN 1 ELSE 0)
                                           + Cardinality(Regressions(statusLog[f]))
                      /\ \A k \in 1 .. Len(notices[f]) : notices[f][k] = "issue.created" <=> k = 1
    BY DEF NoticesMatchTransitions, Regressions
  <2>1. Regressions(statusLog[f]) = {}
    BY DEF Init, Regressions
  <2>2. Cardinality(Regressions(statusLog[f])) = 0
    BY <2>1, FS_EmptySet
  <2>3. CASE LegacyOf(f) = {}
    BY <2>2, <2>3 DEF Init, Exists
  <2>4. CASE LegacyOf(f) # {}
    <3>1. notices[f] = <<"issue.created">> /\ Exists(f)
      BY <2>4 DEF Init, Exists
    <3>2. Len(notices[f]) = 1 /\ notices[f][1] = "issue.created"
      BY <3>1
    <3>3. QED
      BY <2>2, <3>1, <3>2
  <2>5. QED
    BY <2>3, <2>4
<1>2. QED
  BY <1>1, NoticesInductive, IssuesSnapshots, PTL DEF Spec
=============================================================================
