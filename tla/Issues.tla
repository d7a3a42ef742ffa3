------------------------------- MODULE Issues -------------------------------
(***************************************************************************)
(* Ingestion and the life of an issue in one project (src/src/handlers.rs: *)
(* ingest, set_issue_status, replace_issue_tags, the ingest key handlers). *)
(*                                                                         *)
(* SQLite runs in WAL mode and sqlx's begin() is BEGIN DEFERRED, so a      *)
(* transaction that starts with a write (ingest, revoke_ingest_key) holds  *)
(* the write lock to its end and is one step here; an error in it rolls it *)
(* all back.  A transaction that starts with a read takes a snapshot, and  *)
(* its first write fails (SQLITE_BUSY_SNAPSHOT, answered with a 500) if    *)
(* anything was committed since: fresh holds the requests whose snapshot   *)
(* is still the latest.                                                    *)
(***************************************************************************)
EXTENDS Integers, Sequences, FiniteSets

CONSTANTS Body,         \* valid event bodies; equal hashes are equal bodies
          Id,           \* producer event ids
          Issue,        \* fingerprints: an issue's identity in its project
          Tag,          \* tags that validate_tag accepts
          EventId,      \* EventId[b]: the event_id in body b
          Fingerprint,  \* Fingerprint[b]: event_fingerprint(b)
          Labels,       \* Labels[b]: labels_from_event_tags(b)
          Legacy,       \* bodies stored before migration 0003, without body_hash
          MaxTags,      \* tags::MAX_TAGS (50)
          Key,          \* ids of rows of ingest_keys
          Client,       \* requests the server handles at a time
          MaxStatusLog, \* bound: status and regression entries in an issue's activity, by issue
          MaxTagLog     \* bound: tags entries in an issue's activity, by issue

NoBody == "no body"
NoKey == "no key"
Status == {"unresolved", "resolved", "ignored"}

ASSUME DataAssumption ==
  /\ EventId \in [Body -> Id] /\ Fingerprint \in [Body -> Issue]
  /\ Labels \in [Body -> SUBSET Tag]
  /\ Legacy \subseteq Body
  /\ \A a, b \in Legacy : EventId[a] = EventId[b] => a = b
  /\ NoBody \notin Body /\ NoKey \notin Key
ASSUME SizeAssumption ==
  /\ MaxTags \in Nat /\ {MaxStatusLog, MaxTagLog} \subseteq [Issue -> Nat]
  /\ IsFiniteSet(Id) /\ IsFiniteSet(Tag)

VARIABLES
  raw,         \* raw[id]: body stored for a producer event id (raw_events, events)
  via,         \* via[id]: raw_events.ingest_key_id
  unhashed,    \* ids stored with a NULL body_hash
  eventCount,  \* issues.event_count
  status,      \* issues.status; "none": there is no such issue
  tags,        \* issue_tags
  statusLog,   \* activity of kinds 'status' and 'regression', in order
  tagLog,      \* activity of kind 'tags', in order
  notices,     \* outbox rows written for the issue, for one enabled endpoint
  keys,        \* keys[k]: "absent", "active" or "revoked"
  req,         \* req[c]: what request c has read so far
  fresh,       \* requests whose transaction's snapshot is the latest commit
  accepted     \* history: bodies answered with 202

issueVars == <<eventCount, status, tags, statusLog, tagLog, notices>>
vars == <<raw, via, unhashed, issueVars, keys, req, fresh, accepted>>

\* What a handler holds while it waits: nothing, the authenticated key, or the
\* new value and the old one its transaction has read.
NoRequest == [op |-> "none"]
Request == {NoRequest}
  \cup [op : {"ingest"}, body : Body, key : Key]
  \cup [op : {"status"}, issue : Issue, to : Status, seen : Status]
  \cup [op : {"tags"}, issue : Issue, to : SUBSET Tag, seen : SUBSET Tag]

StatusEntry == [kind : {"status", "regression"}, from : Status, to : Status]
TagsEntry == [from : SUBSET Tag, to : SUBSET Tag]

Stored == {id \in Id : raw[id] # NoBody}
EventsOf(f) == {id \in Stored : Fingerprint[raw[id]] = f}

TypeOK ==
  /\ raw \in [Id -> Body \cup {NoBody}]
  /\ via \in [Id -> Key \cup {NoKey}]
  /\ unhashed \subseteq Stored
  /\ \A id \in Stored \ unhashed : via[id] \in Key /\ keys[via[id]] # "absent"
  /\ eventCount \in [Issue -> Nat]
  /\ status \in [Issue -> Status \cup {"none"}]
  /\ tags \in [Issue -> SUBSET Tag]
  /\ statusLog \in [Issue -> Seq(StatusEntry)]
  /\ tagLog \in [Issue -> Seq(TagsEntry)]
  /\ notices \in [Issue -> Seq({"issue.created", "issue.regressed"})]
  /\ keys \in [Key -> {"absent", "active", "revoked"}]
  /\ req \in [Client -> Request]
  /\ \A c \in Client : req[c].op = "ingest" => keys[req[c].key] # "absent"
  /\ fresh \subseteq {c \in Client : req[c].op \in {"status", "tags"}}
  /\ accepted \subseteq Body

LegacyOf(f) == {b \in Legacy : Fingerprint[b] = f}

\* The database after the migrations: Legacy bodies are stored without a hash.
Init ==
  /\ raw = [id \in Id |-> IF \E b \in Legacy : EventId[b] = id
                            THEN CHOOSE b \in Legacy : EventId[b] = id ELSE NoBody]
  /\ via = [id \in Id |-> NoKey]
  /\ unhashed = {EventId[b] : b \in Legacy}
  /\ eventCount = [f \in Issue |-> Cardinality({EventId[b] : b \in LegacyOf(f)})]
  /\ status = [f \in Issue |-> IF LegacyOf(f) = {} THEN "none" ELSE "unresolved"]
  /\ tags = [f \in Issue |-> {}]
  /\ statusLog = [f \in Issue |-> <<>>] /\ tagLog = [f \in Issue |-> <<>>]
  /\ notices = [f \in Issue |-> IF LegacyOf(f) = {} THEN <<>> ELSE <<"issue.created">>]
  /\ keys = [k \in Key |-> "absent"]
  /\ req = [c \in Client |-> NoRequest]
  /\ fresh = {} /\ accepted = {}
-----------------------------------------------------------------------------
(* Steps shared by the handlers. *)

Exists(f) == status[f] # "none"

Finish(c) == req' = [req EXCEPT ![c] = NoRequest]

\* A committed write makes every other snapshot an old one.
Commit(c) == Finish(c) /\ fresh' = {}

\* The id of b was stored before, with this content as far as anyone can tell.
SameContent(b) == EventId[b] \in unhashed \/ raw[EventId[b]] = b

\* Mutated form: the tags already stored do not reduce the room.
SeedLabelsUncounted(f, b) ==
  tags' = [tags EXCEPT ![f] = @ \cup Labels[b]]

\* New labels are added while there is room (in the order of the event's tag map,
\* which is left out: any of them may be the ones that fit).
SeedLabels(f, b) ==
  LET new == Labels[b] \ tags[f]
      room == MaxTags - Cardinality(tags[f])
  IN \E fit \in SUBSET new :
       /\ Cardinality(fit) = IF Cardinality(new) <= room THEN Cardinality(new) ELSE room
       /\ tags' = [tags EXCEPT ![f] = @ \cup fit]

\* The raw_events and events rows.
StoreEvent(b, k) ==
  /\ raw' = [raw EXCEPT ![EventId[b]] = b]
  /\ via' = [via EXCEPT ![EventId[b]] = k]
  /\ accepted' = accepted \cup {b}

\* Mutated form: whatever reopens or hides an issue notifies.
NotifyUnlessUnresolved(f) ==
  notices' = [notices EXCEPT ![f] = IF status[f] # "unresolved"
                                      THEN Append(@, "issue.regressed") ELSE @]

\* The outbox row for an issue that got one more event.
NotifyRegression(f) ==
  notices' = [notices EXCEPT ![f] = IF status[f] = "resolved"
                                      THEN Append(@, "issue.regressed") ELSE @]
-----------------------------------------------------------------------------
(* Ingestion. *)

\* IngestProject: the key is looked up before the body is read.
Authenticate(c, b, k) ==
  /\ req[c] = NoRequest
  /\ keys[k] = "active"
  /\ req' = [req EXCEPT ![c] = [op |-> "ingest", body |-> b, key |-> k]]
  /\ UNCHANGED <<raw, via, unhashed, issueVars, keys, fresh, accepted>>

\* The first event of a fingerprint creates the issue.
IngestNewIssue(c) ==
  LET b == req[c].body  f == Fingerprint[b]
  IN /\ req[c].op = "ingest" /\ raw[EventId[b]] = NoBody /\ ~Exists(f)
     /\ StoreEvent(b, req[c].key)
     /\ status' = [status EXCEPT ![f] = "unresolved"]
     /\ eventCount' = [eventCount EXCEPT ![f] = 1]
     /\ SeedLabels(f, b)
     /\ notices' = [notices EXCEPT ![f] = Append(@, "issue.created")]
     /\ Commit(c)
     /\ UNCHANGED <<unhashed, statusLog, tagLog, keys>>

\* One more event of an issue; a resolved issue is reopened.
IngestOccurrence(c) ==
  LET b == req[c].body  f == Fingerprint[b]  regression == status[f] = "resolved"
  IN /\ req[c].op = "ingest" /\ raw[EventId[b]] = NoBody /\ Exists(f)
     /\ regression => Len(statusLog[f]) < MaxStatusLog[f]
     /\ StoreEvent(b, req[c].key)
     /\ eventCount' = [eventCount EXCEPT ![f] = @ + 1]
     /\ status' = [status EXCEPT ![f] = IF regression THEN "unresolved" ELSE @]
     /\ statusLog' = [statusLog EXCEPT ![f] =
          IF regression
            THEN Append(@, [kind |-> "regression", from |-> "resolved", to |-> "unresolved"])
            ELSE @]
     /\ SeedLabels(f, b)
     /\ NotifyRegression(f)
     /\ Commit(c)
     /\ UNCHANGED <<unhashed, tagLog, keys>>

\* Mutated form: the early return is missing for the counter.
IngestDuplicateCounted(c) ==
  LET b == req[c].body
  IN /\ req[c].op = "ingest" /\ EventId[b] \in Stored /\ SameContent(b)
     /\ eventCount[Fingerprint[b]] < Cardinality(Id)
     /\ eventCount' = [eventCount EXCEPT ![Fingerprint[b]] = @ + 1]
     /\ accepted' = accepted \cup {b}
     /\ Commit(c)
     /\ UNCHANGED <<raw, via, unhashed, status, tags, statusLog, tagLog, notices, keys>>

\* Mutated form: the issue is touched before the repeated id is noticed.
IngestDuplicateReopens(c) ==
  LET b == req[c].body
  IN /\ req[c].op = "ingest" /\ EventId[b] \in Stored /\ SameContent(b)
     /\ status' = [status EXCEPT ![Fingerprint[b]] = IF @ = "resolved" THEN "unresolved" ELSE @]
     /\ accepted' = accepted \cup {b}
     /\ Commit(c)
     /\ UNCHANGED <<raw, via, unhashed, eventCount, tags, statusLog, tagLog, notices, keys>>

\* A repeated event changes no issue (last_used_at of the key is left out, its
\* commit is not).
IngestDuplicate(c) ==
  LET b == req[c].body
  IN /\ req[c].op = "ingest" /\ EventId[b] \in Stored /\ SameContent(b)
     /\ accepted' = accepted \cup {b}
     /\ Commit(c)
     /\ UNCHANGED <<raw, via, unhashed, issueVars, keys>>

\* 409: the id was used for another content; the transaction rolls back.
IngestConflict(c) ==
  /\ req[c].op = "ingest"
  /\ EventId[req[c].body] \in Stored /\ ~SameContent(req[c].body)
  /\ Finish(c)
  /\ UNCHANGED <<raw, via, unhashed, issueVars, keys, fresh, accepted>>

-----------------------------------------------------------------------------
(* Ingest keys. *)

CreateIngestKey(k) ==
  /\ keys[k] = "absent"
  /\ keys' = [keys EXCEPT ![k] = "active"]
  /\ fresh' = {}
  /\ UNCHANGED <<raw, via, unhashed, issueVars, req, accepted>>

\* Mutated form: DELETE FROM ingest_keys.
RevokeIngestKeyDeletes(k) ==
  /\ keys[k] = "active"
  /\ keys' = [keys EXCEPT ![k] = "absent"]
  /\ fresh' = {}
  /\ UNCHANGED <<raw, via, unhashed, issueVars, req, accepted>>

RevokeIngestKey(k) ==
  /\ keys[k] = "active"
  /\ keys' = [keys EXCEPT ![k] = "revoked"]
  /\ fresh' = {}
  /\ UNCHANGED <<raw, via, unhashed, issueVars, req, accepted>>

-----------------------------------------------------------------------------
(* Status and tags.  The role check and the validation before the transaction *)
(* are left out: without them there is no request.  A request for the value   *)
(* the issue has writes nothing and is not a step.                            *)

OpenStatus(c, f, s) ==
  /\ req[c] = NoRequest
  /\ Exists(f) /\ status[f] # s
  /\ req' = [req EXCEPT ![c] = [op |-> "status", issue |-> f, to |-> s, seen |-> status[f]]]
  /\ fresh' = fresh \cup {c}
  /\ UNCHANGED <<raw, via, unhashed, issueVars, keys, accepted>>

\* Mutated form: the old status was read outside the transaction.
WriteStatusStale(c) ==
  LET f == req[c].issue
  IN /\ req[c].op = "status" /\ Len(statusLog[f]) < MaxStatusLog[f]
     /\ status' = [status EXCEPT ![f] = req[c].to]
     /\ statusLog' = [statusLog EXCEPT ![f] =
          Append(@, [kind |-> "status", from |-> req[c].seen, to |-> req[c].to])]
     /\ Commit(c)
     /\ UNCHANGED <<raw, via, unhashed, eventCount, tags, tagLog, notices, keys, accepted>>

WriteStatus(c) ==
  LET f == req[c].issue
  IN /\ req[c].op = "status" /\ c \in fresh /\ Len(statusLog[f]) < MaxStatusLog[f]
     /\ status' = [status EXCEPT ![f] = req[c].to]
     /\ statusLog' = [statusLog EXCEPT ![f] =
          Append(@, [kind |-> "status", from |-> req[c].seen, to |-> req[c].to])]
     /\ Commit(c)
     /\ UNCHANGED <<raw, via, unhashed, eventCount, tags, tagLog, notices, keys, accepted>>

OpenTags(c, f, T) ==
  /\ req[c] = NoRequest
  /\ Exists(f) /\ tags[f] # T /\ Cardinality(T) <= MaxTags
  /\ req' = [req EXCEPT ![c] = [op |-> "tags", issue |-> f, to |-> T, seen |-> tags[f]]]
  /\ fresh' = fresh \cup {c}
  /\ UNCHANGED <<raw, via, unhashed, issueVars, keys, accepted>>

\* Mutated form: the previous tags were read outside the transaction.
WriteTagsStale(c) ==
  LET f == req[c].issue
  IN /\ req[c].op = "tags" /\ Len(tagLog[f]) < MaxTagLog[f]
     /\ tags' = [tags EXCEPT ![f] = req[c].to]
     /\ tagLog' = [tagLog EXCEPT ![f] = Append(@, [from |-> req[c].seen, to |-> req[c].to])]
     /\ Commit(c)
     /\ UNCHANGED <<raw, via, unhashed, eventCount, status, statusLog, notices, keys, accepted>>

WriteTags(c) ==
  LET f == req[c].issue
  IN /\ req[c].op = "tags" /\ c \in fresh /\ Len(tagLog[f]) < MaxTagLog[f]
     /\ tags' = [tags EXCEPT ![f] = req[c].to]
     /\ tagLog' = [tagLog EXCEPT ![f] = Append(@, [from |-> req[c].seen, to |-> req[c].to])]
     /\ Commit(c)
     /\ UNCHANGED <<raw, via, unhashed, eventCount, status, statusLog, notices, keys, accepted>>

\* A database error (an old snapshot, a locked database), a client that goes away or
\* a crash: the open transaction, if there is one, is rolled back.
Abandon(c) ==
  /\ req[c] # NoRequest
  /\ Finish(c)
  /\ fresh' = fresh \ {c}
  /\ UNCHANGED <<raw, via, unhashed, issueVars, keys, accepted>>

Ingest(c) == \/ IngestNewIssue(c) \/ IngestOccurrence(c)
             \/ IngestDuplicate(c) \/ IngestConflict(c)

Next ==
  \/ \E c \in Client :
       \/ \E b \in Body, k \in Key : Authenticate(c, b, k)
       \/ Ingest(c)
       \/ \E f \in Issue, s \in Status : OpenStatus(c, f, s)
       \/ \E f \in Issue, T \in SUBSET Tag : OpenTags(c, f, T)
       \/ WriteStatus(c) \/ WriteTags(c) \/ Abandon(c)
  \/ \E k \in Key : CreateIngestKey(k) \/ RevokeIngestKey(k)

Spec == Init /\ [][Next]_vars

-----------------------------------------------------------------------------
(* Properties. *)

\* The entries of h lead from "unresolved" to s without a gap.
StatusReplays(h, s) ==
  /\ \A k \in 1 .. Len(h) : /\ h[k].from = IF k = 1 THEN "unresolved" ELSE h[k - 1].to
                            /\ h[k].from # h[k].to
  /\ s = IF h = <<>> THEN "unresolved" ELSE h[Len(h)].to

\* The labels of the event that a step stores for f.
LabelsStored(f) == UNION {Labels[raw'[id]] : id \in EventsOf(f)' \ EventsOf(f)}

\* An issue's activity replays to its status: each entry starts where the one before
\* it ended, however status requests and regressions from ingestion interleave
\* (set_issue_status, ingest).
StatusHistoryReplays ==
  \A f \in Issue : Exists(f) => StatusReplays(statusLog[f], status[f])

\* No tag vanishes without a trace: a step that changes an issue's tags either enters in the
\* activity exactly what they were and what they are, or only adds labels of the event it
\* stores.  An edit that read the tags before an event labelled the issue, or before another
\* edit, must not replace them (replace_issue_tags, ingest).
TagEditsAreRecorded ==
  [][\A f \in Issue :
       \/ tagLog'[f] = Append(tagLog[f], [from |-> tags[f], to |-> tags'[f]])
       \/ /\ tagLog'[f] = tagLog[f]
          /\ tags[f] \subseteq tags'[f] /\ tags'[f] \ tags[f] \subseteq LabelsStored(f)]_vars

\* An issue never carries more than MAX_TAGS tags, whichever way they came: edits
\* of up to MAX_TAGS and labels of any number of later events.
TagsStayWithinLimit == \A f \in Issue : Cardinality(tags[f]) <= MaxTags

\* event_count is the number of events stored for the issue: repeats, conflicts and
\* abandoned requests do not count, concurrent ones all do (ingest).
CountsMatchEvents == \A f \in Issue : eventCount[f] = Cardinality(EventsOf(f))

\* An endpoint is notified once that an issue exists and once for each regression in
\* its activity, never for a duplicate or for an issue that is ignored (ingest).
NoticesMatchTransitions ==
  \A f \in Issue :
    LET regressions == {k \in 1 .. Len(statusLog[f]) : statusLog[f][k].kind = "regression"}
    IN /\ Len(notices[f]) = (IF Exists(f) THEN 1 ELSE 0) + Cardinality(regressions)
       /\ \A k \in 1 .. Len(notices[f]) : notices[f][k] = "issue.created" <=> k = 1

\* Whatever was answered with 202 is what is stored under its id, for good (unless the
\* id was stored before contents were hashed).
AcceptedIsStored ==
  \A b \in accepted : raw[EventId[b]] = b \/ EventId[b] \in unhashed

\* What makes the histories inductive: a transaction whose snapshot is the latest has
\* read what is stored, and there is no activity before there is an issue.
Snapshots ==
  /\ \A c \in fresh :
       LET r == req[c]
       IN IF r.op = "status" THEN Exists(r.issue) /\ r.seen = status[r.issue] /\ r.to # r.seen
                             ELSE r.seen = tags[r.issue]
  /\ \A f \in Issue : ~Exists(f) => statusLog[f] = <<>>
  /\ \A c \in Client : req[c].op = "tags" => Cardinality(req[c].to) <= MaxTags
=============================================================================
