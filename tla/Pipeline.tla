------------------------------- MODULE Pipeline -------------------------------
(***************************************************************************)
(* An application with its SDK (SdkClient) and the server it reports to    *)
(* (Issues), joined by HTTP requests.  The sender posts an event and waits *)
(* for the answer; when it waits no longer the request goes on in the      *)
(* server, and may be served after the copy that was spooled meanwhile.    *)
(* What is read back from the spool is written anew, so that the copy need *)
(* not be the same bytes, and the server compares bytes (body_hash).       *)
(***************************************************************************)
EXTENDS SdkClient

CONSTANTS
  Issue, IssueOf,  \* IssueOf[e]: the issue that e's fingerprint belongs to
  Body,            \* what a post can carry
  Captured,        \* Captured[e]: the body of e as it was captured
  Reread,          \* Reread[e]: the same, parsed and written again: it may be other bytes
  Client,          \* requests the server handles at a time
  NoLink,          \* the sender waits for no request
  Key, AppKey,     \* ingest keys, and the one the application is configured with
  MaxStatusLog     \* bound: status entries in an issue's activity

ASSUME PipelineAssumption ==
  /\ IssueOf \in [Event -> Issue] /\ {Captured, Reread} \subseteq [Event -> Body]
  /\ \A d, e \in Event : {Captured[d], Reread[d]} \cap {Captured[e], Reread[e]} # {} => d = e
  /\ \A b \in Body : \E e \in Event : b \in {Captured[e], Reread[e]}
  /\ NoLink \notin Client /\ AppKey \in Key

\* The server's tables and requests, as in Issues.
VARIABLES raw, via, unhashed, eventCount, status, tags, statusLog, tagLog, notices, keys, req, fresh, accepted

VARIABLES
  link,   \* the request the sender waits for
  reply,  \* its answer, on its way: "stored" (202), "refused" (4xx), "failed" (5xx)
  denied  \* history: events refused although they were not stored (401)

sdkVars == vars
serverVars == <<raw, via, unhashed, eventCount, status, tags, statusLog, tagLog, notices, keys, req, fresh, accepted>>
linkVars == <<link, reply, denied>>
pipelineVars == <<sdkVars, serverVars, linkVars>>

EventOf(b) == CHOOSE e \in Event : b \in {Captured[e], Reread[e]}

Server == INSTANCE Issues WITH
  Id <- Event, EventId <- [b \in Body |-> EventOf(b)],
  Fingerprint <- [b \in Body |-> IssueOf[EventOf(b)]],
  Tag <- {}, Labels <- [b \in Body |-> {}], Legacy <- {}, MaxTags <- 0,
  MaxTagLog <- [f \in Issue |-> 0]

ASSUME BodyAssumption == Server!NoBody \notin Body

PipelineInit ==
  /\ Init /\ Server!Init
  /\ link = NoLink /\ reply = "none" /\ denied = {}

Stored(e) == e \in Server!Stored
-----------------------------------------------------------------------------
(* The application: what its threads and the sender do by themselves. *)

SenderAlone ==
  \/ TakeEvent \/ TakeFlush \/ TakeShutdown \/ IdleDrain
  \/ DrainEmpty \/ DrainEnds \/ DrainNext \/ RemoveFile \/ Store(Sender)

AppStep ==
  /\ SenderAlone \/ \E t \in Caller : CallerStep(t)
  /\ UNCHANGED <<serverVars, linkVars>>

AppCrash ==
  /\ Crash
  /\ link' = NoLink /\ reply' = "none"
  /\ UNCHANGED <<serverVars, denied>>
-----------------------------------------------------------------------------
(* A post. *)

Posting == worker.at = "post" /\ link = NoLink /\ reply = "none"

Send(c) ==
  /\ Posting
  /\ Server!Authenticate(c, IF worker.from = "spool" THEN Reread[worker.ev] ELSE Captured[worker.ev], AppKey)
  /\ link' = c
  /\ UNCHANGED <<sdkVars, reply, denied>>

\* 401: the key was revoked, or is not there yet.
Unauthorized ==
  /\ Posting /\ keys[AppKey] # "active"
  /\ reply' = "refused"
  /\ denied' = IF Stored(worker.ev) THEN denied ELSE denied \cup {worker.ev}
  /\ UNCHANGED <<sdkVars, serverVars, link>>

\* The answer goes to whoever waits for it.
Answers(c, what) ==
  IF c = link THEN link' = NoLink /\ reply' = what ELSE UNCHANGED <<link, reply>>

\* ingest: 202, or 409 if the id is stored with other bytes.
Serve(c) ==
  /\ Server!Ingest(c)
  /\ Answers(c, IF req[c].body \in accepted' THEN "stored" ELSE "refused")
  /\ UNCHANGED <<sdkVars, denied>>

\* 500, or the server dies: nothing is stored.
ServerFails(c) ==
  /\ Server!Abandon(c)
  /\ Answers(c, "failed")
  /\ UNCHANGED <<sdkVars, denied>>

Delivered ==
  /\ reply = "stored" /\ PostDelivered
  /\ reply' = "none"
  /\ UNCHANGED <<serverVars, link, denied>>

\* Mutated form: no status is worth a retry.
RejectedWith(statuses) ==
  /\ reply \in statuses /\ PostRejected
  /\ reply' = "none"
  /\ UNCHANGED <<serverVars, link, denied>>
RejectedAny == RejectedWith({"refused", "failed"})

Rejected == RejectedWith({"refused"})

\* The server answers 5xx, the answer is lost, it does not come within request_timeout, or
\* the request never got there.
NotAnswered ==
  /\ PostFails
  /\ fate'[worker.ev] = IF Stored(worker.ev) THEN First(worker.ev, "answered") ELSE fate[worker.ev]
  /\ link' = NoLink /\ reply' = "none"
  /\ UNCHANGED <<serverVars, denied>>
-----------------------------------------------------------------------------
\* Members decide about issues, and about keys.
MemberStep ==
  /\ \/ \E c \in Client, f \in Issue, s \in Server!Status : Server!OpenStatus(c, f, s)
     \/ \E c \in Client : Server!WriteStatus(c)
     \/ Server!CreateIngestKey(AppKey) \/ Server!RevokeIngestKey(AppKey)
  /\ UNCHANGED <<sdkVars, linkVars>>

PipelineNext ==
  \/ AppStep \/ AppCrash
  \/ Unauthorized \/ Delivered \/ Rejected \/ NotAnswered
  \/ \E c \in Client : Send(c) \/ Serve(c) \/ ServerFails(c)
  \/ MemberStep

PipelineSpec == PipelineInit /\ [][PipelineNext]_pipelineVars
-----------------------------------------------------------------------------
(* What the two sides rely on: the inductive part of the properties. *)

LinkTypeOK ==
  /\ raw \in [Event -> Body \cup {Server!NoBody}]
  /\ eventCount \in [Issue -> Nat] /\ status \in [Issue -> Server!Status \cup {"none"}]
  /\ req \in [Client -> Server!Request]
  /\ link \in Client \cup {NoLink} /\ reply \in {"none", "stored", "refused", "failed"}
  /\ denied \subseteq Event

\* What the server receives was captured; it counts for issues that exist, and members decide
\* about those.
Received ==
  /\ \A c \in Client : req[c].op = "ingest" => Asked(EventOf(req[c].body))
  /\ \A c \in Client : req[c].op = "status" => status[req[c].issue] # "none"
  /\ \A f \in Issue : status[f] = "none" => eventCount[f] = 0

\* The sender waits with the event it posts, for a request that carries it, and an answer
\* tells it what the server has.
Awaited ==
  /\ link # NoLink \/ reply # "none" => worker.at = "post"
  /\ link # NoLink => /\ reply = "none" /\ req[link].op = "ingest"
                      /\ EventOf(req[link].body) = worker.ev
  /\ reply = "stored" => Stored(worker.ev)
  /\ reply = "refused" => Stored(worker.ev) \/ worker.ev \in denied

\* The SDK settles an event by an answer only if the server has it, or its key was refused.
AnswersAreTrue == \A e \in Event : fate[e] = "answered" => Stored(e) \/ e \in denied
-----------------------------------------------------------------------------
(* Properties. *)

\* The decisions that requests under way ask for.
Asking == [c \in Client |-> IF req[c].op = "status" THEN [issue |-> req[c].issue, to |-> req[c].to]
                                                    ELSE [to |-> "none"]]

\* "The SDK preserves generated event IDs across spool retries, allowing the server's
\* project-scoped idempotency check to suppress duplicate processing" (README.md:363): whatever
\* is sent twice, late, at the same time or with other bytes, each event is counted once, only if
\* it was captured, and changes its issue's status only by that.  A copy that comes after members
\* resolved the issue leaves it resolved: any other change is the grant of a member's request.
Promise == INSTANCE EventCollection WITH
  captured <- {e \in Event : answer[e] # "none"},
  counted <- Server!Stored, total <- eventCount, Member <- Client, asked <- Asking
ImplementsCollection == Promise!Spec

\* An event whose capture returned Ok is in the server's tables or still with the
\* application, unless the spool's bound evicted it, it was lost with the process, or the key
\* it was sent with was refused: no answer, and no lack of one, makes the SDK drop an event
\* that the server has not stored.
EndToEnd ==
  \A e \in Ok :
    \/ Stored(e) \/ e \in Queued \cup InHand \cup Spooled
    \/ fate[e] \in {"evicted", "lost"} \/ e \in denied
=============================================================================
