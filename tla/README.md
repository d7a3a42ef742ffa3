# zbierak: a TLA+ development

zbierak is a self-hosted error collector: one Rust process (axum, tokio, SQLite) that
ingests events from SDK clients, groups them into issues, lets a team work on those
issues, and notifies webhooks through a durable outbox. Its SDK queues events in the
application, spools them to disk and sends them in the background. Its pages carry a
script of their own and a theme that all tabs of a browser share. This directory holds
TLA+ models of the stateful parts, TLC configurations that check them on small instances,
and TLAPS proofs of their central properties for every value of the constants.

Paths below are relative to the repository; `handlers.rs` is `src/handlers.rs`, the SDK is
`crates/zbierak-sdk/src`, the scripts of the pages are in `src/static`.

## 1. Inventory

| Component | State | Operations | Talks to | What is hard | What makes it correct |
|---|---|---|---|---|---|
| Outbox and worker (`src/outbox.rs`, `run` in `src/lib.rs`, webhook handlers) | tables `notification_endpoints`, `outbox`; the worker's `Delivery`; the shutdown flag | claim, deliver, settle, reschedule; create and delete webhook; shutdown, crash, restart | ingestion inserts rows; receivers over HTTP | leases, retries, a crash between the POST and the UPDATE, deletion under the worker | at-least-once delivery, explained duplicates, no hot retries, no starvation, bounded shutdown |
| Ingestion and issues (`ingest`, `set_issue_status`, `replace_issue_tags`, keys) | `raw_events`, `events`, `issues`, `issue_tags`, `issue_activity`, `ingest_keys` | ingest, set status, replace tags, create and revoke key | SDKs over HTTP; outbox; activity feed | idempotency, snapshot transactions that lose a race | activity replays to the state, counts match events, one notification per transition |
| Members (`create_project`, `create_member`, `domain.rs`) | `users`, `projects`, `project_memberships` | bootstrap, create project, grant and change roles | every handler's role check | a role read before the transaction that relies on it | an owner remains, admins do not touch their peers |
| Comments (`insert_`, `update_`, `delete_comment_in_project`) | `issue_comments`, activity | post, edit, remove, by form or API | members | an edit racing a removal, a moderator losing the role | removals are final, the timeline explains every comment |
| Logins, sessions, tokens (`src/auth.rs`, `extractors.rs`, settings) | `users`, `sessions`, `login_throttle`, `api_tokens` | login, logout, change password, revoke | every handler | concurrent failures, revocation racing requests | lockout runs its time, a change of the password closes the user's other sessions (API tokens stay) |
| SDK clients (`lib.rs`, `async_client.rs`, `blocking.rs`) | bounded queue, spool directory, sender, callers | capture, flush, shutdown, drain | ingestion | queue and spool limits, lost answers, crashes, clones | no event is forgotten, flush and shutdown mean what they say |
| Bevy log capture (`bevy.rs`) | channel, rate window, table of messages | emit, drain | SDK client | window borders, table at capacity, refused events | nothing dropped without cause, no early repeats |
| Event preparation, breadcrumbs, panic hook, backtraces (SDK) | a bounded deque | prepare, push | SDK client | the deque at capacity | bounded trail, redactor contained |
| Theme of the tabs (`theme-init.js`) | `localStorage`, a memory per tab, attributes of the document | choose, hear another tab, hear the device, load | other tabs; the settings page | storage that fails or is full, events in any order | tabs show what is stored, and converge |
| Pages in the browser (`app.js`) | elements of a page: stack card, comment editor, copy button, project form | load, boosted navigation, back, clicks, typing | htmx, theme, handlers | markup put back without its code, timers that overlap | what is shown is what will happen |
| Wire protocol (`crates/zbierak-protocol`) | none | validate | SDK, ingestion | bounds | what validates on one side validates on the other |
| Pure functions (`slugify`, `fence_for`, `src/tags.rs`, `src/fingerprint.rs`) | none | | handlers | bounds, separators | a generated slug validates, a fence encloses, labels are valid tags |
| Profiles and avatars | `users`, `user_avatars` | single statements | pages | image decoding | |
| Network policy, secrets | none | functions | outbox, webhooks | bit masks | |
| Pages on the server, templates, OpenAPI, configuration, errors, audit, health | none, or an append-only table | rendering, parsing, probes | | | |

### How the parts interact

The server is one process. Handlers run as concurrent tasks and share nothing but the
SQLite database (and the shutdown flag); so does the outbox worker. What the models
therefore need is the meaning of a transaction (`src/db.rs:10-32`: WAL, pool of
connections, deferred `BEGIN`):

* a transaction that *reads first* works on the snapshot of its first read; its first
  write fails (`SQLITE_BUSY_SNAPSHOT`) if anything was committed since, and the handler
  answers with an error;
* a transaction that *writes first* holds the writer's lock from its first statement to
  its commit, so it is one atomic step;
* what a handler reads outside its transaction (a role, a key, a session) may be stale.

The modules `Issues`, `Membership` and `Comments` render this with one set, `fresh`: the
requests whose open snapshot is the latest commit. Every commit empties it, and a request
may write only while it is in it. What was read before the transaction is remembered in
the request and compared with nothing.

The SDK runs in another process: callers, one sender, one channel between them, one mutex
around the spool. It meets the server in the requests it posts and in their answers, which
may come late or not at all; `Pipeline` composes the two.

In the browser, tabs share `localStorage` and hear of each other's changes by storage
events, which arrive later and carry a value the handler does not look at: it reads the
preference anew. Within a tab, `app.js` hears of the theme by `zbierak:themechange`, and of
new bodies by htmx's `afterSwap`.

## 2. Modules

| Module | Models | Abstract specification | Proofs |
|---|---|---|---|
| `NotificationDelivery` | what the outbox promises | (is one) | |
| `Outbox` | worker, leases, retries, process life, webhooks | `NotificationDelivery`, by `Promise == INSTANCE ... WITH` | `OutboxProofs` |
| `Issues` | ingestion, statuses, tags, keys | | `IssuesProofs` |
| `Membership` | accounts and roles of one project | | `MembershipProofs` |
| `Comments` | comments of one issue and their timeline | | `CommentsProofs` |
| `Accounts` | logins, throttle, sessions, tokens, passwords | | `AccountsProofs` |
| `SdkClient` | callers, queue, sender, spool | | `SdkProofs` |
| `EventCollection` | what SDK and server promise together | (is one) | |
| `Pipeline` | `SdkClient` and `Issues`, joined by requests | `EventCollection`, by `Promise == INSTANCE ... WITH` | `SdkProofs` |
| `LogCapture` | Bevy log channel and throttle | | `LogCaptureProofs` |
| `Theme` | preference, storage and events of all tabs | | `PageProofs` |
| `Page` | the pages of one tab; EXTENDS `Theme` | `Theme`, whose steps are all it does to the theme | `PageProofs` |

`MC*.tla` give each its small sets and symmetry. A definition named as a mutated form in a
module is not part of the model: it stands before the definition it varies and shows which
slip of the code the properties notice.

### Outbox

State is the two tables by column (`row`, `target`, `attempts`, `wait`, `lease`), the
worker (`pc`, `job`, `jobTries`, `timer`), the process (`server`) and histories. Time is
relative: `available_at` and `locked_at` are only ever compared with now, so a row holds
the seconds left. `Claim` is `claim`'s single `UPDATE ... RETURNING`;
`PostAccepted`, `PostAnswerLost` and `AttemptFails` are the outcomes of `deliver`;
`MarkDelivered`, `Reschedule` (in `fail`) and `SettleError` the two UPDATEs and their failure;
`CheckShutdown`, `Wake` and `ClaimNothing` are the loop of `run`. `Shutdown`,
`Crash` and `Restart` are the process. `Recover(e)` says that e's receiver answers 2xx
from then on; before it, anything may happen to a POST.

### Issues

`Authenticate` is the extractor that checks the key before the body is read; the four
`Ingest*` actions are the branches of `ingest` (a new issue, one more event, a duplicate,
409), each an atomic transaction because it writes first. `OpenStatus`/`WriteStatus` and
`OpenTags`/`WriteTags` are the read and the write of `set_issue_status` and
`replace_issue_tags`, which read first. `Abandon` is a failed statement, a lost snapshot or
a client that goes away. Fingerprint, id and labels are constants of a body.

### Membership and Comments

`create_member` is four steps: `CheckFloor` (role floor), `ReadActor` (role read again,
still outside the transaction), `OpenGrant` (target's role, inside it), `WriteGrant`.
Comment changes are `CheckFloor`, `OpenChange` (comment and role read inside) and
`UpdateComment` or `DeleteComment`; `InsertComment` reads nothing again. `OtherCommit`
is any other handler's commit, which makes snapshots old.

### Accounts

A login is `BeginLogin` (throttle read), `CheckPassword`, then `RecordFailure` (one upsert)
or `ClearThrottle` and `CreateSession`: four transactions that other requests may come
between. `Authenticate` is the extractor of a session; a request then acts on what it read.
`Rotate` is the transaction of `change_password`: a new hash, and the user's other sessions
deleted; API tokens stay as they are. A session remembers the password it was opened with, and
a login is `late` when the password changes after it was verified. `Tick` lets locks and sessions run out.

### SdkClient

`queue` is the channel (FIFO, `QueueCap`), `caller[t]` what a thread of the application is
doing, `worker` the sender. Storing is several steps (`Store`: write and list, measure,
evict) under `spoolLock`, because the sender removes the file it delivered *without* the
mutex. `Shared` distinguishes the async client, whose clones go on during a shutdown, from
the blocking one, which stops with its last handle. File names carry `stamp`, the clock;
with `Monotonic` FALSE it may step back. `Faulty` lets any file operation fail.

The module ends with what its properties rest on. An event is `Safe` when something has
become of it or it is in the spool, and `Kept` when it is safe, queued or in someone's hand.
`Holding` says that the event being stored under the mutex is safe, although the sender
removes files without the mutex; `Handling` that the sender removes only what is settled and
leaves an empty queue; `Waiting` that each thread waits for at most one flush, queued
(`FlushOf`) or under way (`Draining`); `Promised` that what is owed to a flush is safe, in
the sender's hand or `Ahead` of it in the queue. `Origin` says that whatever is in a hand,
queued or on disk was captured; `OneOwner` and `Untouched` that one thread captures an event
and nobody else has it until it is queued or stored; `Listing` that a store has listed all
that is on disk, with the event it stores as the newest unless the clock went back.

### Pipeline

`Pipeline` EXTENDS `SdkClient` and instantiates `Issues` as `Server`. Between them are two
variables: `link`, the request the sender waits for, and `reply`, its answer on the way back.
`Send` is the server's `Authenticate` for the event in the sender's hand, `Serve` one of the
branches of `ingest`, `ServerFails` a 5xx or a server that dies; `Delivered`, `Rejected` and
`NotAnswered` are the three results of `deliver` and each includes what the SDK does about it.
`NotAnswered` may happen at any time: the request it gives up stays in the server and may be
served later, before or after the copy that was spooled. A post carries the bytes `Captured`
or, from the spool, `Reread`: the event is parsed and written anew (SDK lib.rs:296), by which
a float may change its last digit, and `ingest` compares the hash of the bytes
(handlers.rs:2266), so that the copy of an event that is stored may get 409. The SDK's
outcomes of a post, free in `SdkClient`, are what the server answers here.

The module ends with what holds between the two: what a request carries was captured
(`Received`); an answer the sender is given tells what the server has of the event in its
hand, and the request it waits for carries that event (`Awaited`); and an event settled by an
answer is stored or its key was refused (`AnswersAreTrue`).

`EventCollection` knows of none of this: an event is captured, and later it may be counted,
once, which is all that it does to its issue. Besides, a member asks for a decision about an
issue (`Ask`), and a request is granted once or not at all (`Decide`, `Dismiss`); nothing else
changes a status. The refinement maps what is asked to the server's requests between
`OpenStatus` and `WriteStatus` (`Asking`), so that a duplicate which reopened a resolved issue
would be neither a count nor a decision.

### LogCapture

`Emit` is the tracing layer; `Drop`, `Forward` and `Refuse` are the ways one round of the
loop of `process_captured` ends, all of which first replace an expired window (`Receive`).

### Theme

`stored` and `storage` are the browser's `localStorage` and how it fails (`"full"`: reads
work, writes throw; `"denied"`: neither works). For each tab, `memory` is
`memoryPreference`, `shown` and `painted` what `apply` wrote on the document, `control` the
settings page's select, `news` the storage events under way, and `flipped` whether the
device's scheme has changed since the tab was told. `unsaved` is a history: the tab shows a
choice that could not be stored. `Choose`, `HearStorage`, `HearDevice` and `Load` are
`setPreference`, the two listeners and the run of the script in the head; each includes the
`themechange` it sends and what `app.js` does about it.

### Page

`LoadPage` and `PageReady` are a document and its `DOMContentLoaded`; `Boost` is a link of the
navigation, whose body is enhanced; `Restore` is the way back, on which htmx puts the markup
it kept (`Markup`: an editor without its code, a button without its timers) into the body and
announces it without a target, so that nothing is enhanced. `ClickCopy`, `Copied`,
`CopyFails` and `FeedbackEnds` are one copy, its answer and its timer. `AutoSlug` is the
slug the form suggests, `Slugify` the one the server makes of a name that comes without one
(handlers.rs:3046); both work on names that are sequences of letters and separators, and
are recursive functions over the length read (`HyphenStep`, `SlugStep`: what one character
does), so that they can be proved about. A name may be empty (`PageAssumption`): the form
starts that way, and a slug that is emptied follows the name again.

## 3. Runs

| Run | Instance | Shows |
|---|---|---|
| `outbox` | 2 endpoints, 2 rows, 1 fault, lease 2, delays 1, 2, 3 | every outbox property, liveness and refinement included |
| `issues` | 2 requests, 4 bodies (two with one id, two of one issue, one legacy), 2 issues, 2 tags of which 1 fits | status histories, tag edits recorded, counts, notifications, tag limit, idempotency |
| `team` | members: 3 accounts, 2 requests; or comments: 2 users, 2 requests, 2 comments, 4 entries | an owner remains, peers are safe; removals final, timeline complete, moderation current |
| `membership_stale` | 3 accounts, 2 requests | *violated*: `OnlyOwnersManageOwners` |
| `accounts` | 2 users, 2 passwords, 2 cookies, 1 token, 2 requests, limit 2, lock 2 | lockout and sessions |
| `accounts_stale` | the same | *violated*: `RotationEvicts` |
| `sdk_safety` | async client, 3 events of different size, queue 1, spool 3 bytes, 2 callers, faults, 1 crash | no event forgotten; flush, shutdown and bound |
| `sdk_liveness` | blocking client, 2 events, queue 2, spool 1, clock may step back | events settle, shutdown returns |
| `sdk_shutdown` | async client, 3 events, queue 2 | *violated*: `ShutdownWaits` |
| `pipeline` | 1 thread, 2 events of which one is other bytes from the spool, spool for 1, 2 requests at a time, 1 crash, 2 status changes | each event counts once, and a copy of it reopens nothing; nothing is dropped that the server does not have |
| `log_capture` | 3 messages, window 2, limit 2, suppression 3, table 3 | drops have a cause, no early repeats, twice the limit at most |
| `browser` | two tabs, and the pages of one of them; slugs of 3, names of up to 5; 1 event under way, 2 copies | tabs follow storage and converge; controls, buttons and slugs are right |

### Bounds

Two requests are enough for every race of snapshot transactions: a commit either falls
between another request's read and write or it does not, and a third request adds only
another such commit (in `Membership` and `Comments`, `OtherCommit` is one). Bounds on logs
and histories (`MaxStatusLog`, `MaxTagLog`, by issue; `MaxActivity`; `MaxSent`; `MaxTime`;
`MaxFault`; `MaxStamp`; `MaxCrashes`) stop behaviours, they remove no step before: each is
at least as long as the shortest violation of every mutated form. `Outbox` caps `attempts`
at the value from which `retry_delay` is constant, and `since` at what a lease protects.
Sizes and limits are chosen so that the limit is met: more labels than tags fit, a queue of
one, a spool that holds less than all events, a table as large as the set of messages. For
the components with proofs, the instance only has to make the properties meaningful; the
theorems hold for all sizes.

Two things hold by the way the models are made and are not checked. A transaction that writes
first is one step, so that no half of `ingest` is ever stored: that is SQLite's promise. And
`RespectsBackoff` measures delays by `RetryDelay`, the translation of `retry_delay`, so it says
that the delay is waited for and not that it is the right one; that a delay of zero would
starve other rows, `HealthyRowsAreDelivered` does see.

`pipeline` leaves flush and shutdown to the SDK's own runs, for the drain is the same one,
and lets members close the issue while only events reopen it (`MCPipeline`). Two requests at a
time are a post that was given up and its copy, or either of them and a member; two events,
of which one has room on disk, are one that is sent again and one that is evicted or overtakes
it.

`team` is one run of two families (`MCTeam`): requests about comments, or `create_member`'s.
`Comments` already lets any role change at any time (`GrantRole`) and any other commit come
between (`OtherCommit`), so that the two together show nothing that each does not by itself.

`browser` is one run of two families of behaviours (`MCPage`): in one the tabs, the device
and storage act while pages come and go; in the other one tab acts alone, stores nothing, and
does everything there is to do on a page. What a page does by itself concerns no other tab,
and the two families share no state but the theme, which both have. A slug of 3 is cut behind
a hyphen by the name "-aa-a", and 4 names are enough to make one that is too short, one that
is exact, and one that has no room for a separator and the next letter.

### Fairness

* `Outbox`: the worker's own steps (`WF`: tokio polls a task that is ready), the passing of
  time, and the restart of a *crashed* process (README.md:88 `Restart=on-failure`,
  docker-compose.yml:7). Faults, recoveries and a restart after an orderly stop are not fair.
* `SdkClient` (`FairSpec`): the sender is scheduled; a thread that holds the spool's mutex or
  shuts down goes on; `PostDelivered`, `DrainNext` and the sender's own `Store` are strongly
  fair: a healthy server answers again and again, a drain is not always out of time before it
  starts, and the mutex is not for ever someone else's. `SendStop` is strongly fair because
  places in a tokio channel are handed out first come, first served, and the blocking channel
  is used by no one else by then.
* `Page` (`PageFairness`): a browser delivers each storage event it has queued for a tab. The
  device's events, loads and choices are not fair.
* No other module states fairness; their properties are safety.

`issues` runs without a deadlock check because every key may be revoked before an event
comes, and `sdk_liveness` because a client that was shut down really stops.

## 4. What is proved

Everything below is for every value of the constants that satisfies the named ASSUMEs. All
proofs have one shape: types are inductive alone; then an inductive strengthening, with one
step per action; then the property follows.

| Theorem | States | Rests on |
|---|---|---|
| `OutboxTypeOK`, `OutboxSafety` | types; the inductive invariant | `Safety` = `Accounting`, `Bookkeeping`, `ShutdownAccounting`, `Protected` |
| `OutboxDuplicates`, `OutboxDelivered`, `OutboxShutdown` | duplicates explained; delivered was accepted; one late claim at most | conjuncts of `Safety` |
| `OutboxBackoff`, `OutboxDeleted` | no hot retry; deleted endpoints left alone | `Protected`: a claimed row is covered by its lease or its delay, whichever way the attempt ended |
| `OutboxRefinement` | `SafetySpec` implements `NotificationDelivery` | `Safety`, one step per action |
| `IssuesTypeOK`, `IssuesSnapshots` | types; a fresh request has read what is stored | `Snapshots` |
| `IssuesStatusHistory`, `IssuesTagHistory`, `IssuesTagLimit`, `IssuesAccepted`, `IssuesCounts`, `IssuesNotices` | the other properties of `issues` (tag edits as a property of steps: each is recorded as it was made), and that 202 means stored | `Snapshots`; counts by cardinality of the rows |
| `MembershipTypeOK`, `MembershipStanding`, `MembershipOwner`, `MembershipPeers` | types, standing, an owner remains, peers are safe | `Standing`: what a request was let through on holds while it is fresh |
| `CommentsTypeOK`, `CommentsSnapshots`, `CommentsTombstones`, `CommentsModeration`, `CommentsTimeline` | the properties of comments in `team` | `Snapshots`; a witness pair (first, last entry) per comment |
| `AccountsTypeOK`, `AccountsSessions`, `AccountsLock` | types; sessions follow the password, but for logins that a change overtook; a lock runs its time | `Current`: a verified login holds the current password or is marked late |
| `AccountsFailures` | at most `Limit + Cardinality(Request) - 1` failures since the throttle was last lifted | `Spent`: without a lock the row counts the failures; each one recorded under a lock takes a request out of those past the throttle (`Past`) |
| `AccountsCredentials` | a session is deleted, and a token revoked, only by a request of its own user | `Owns`: what a request acts on is its user's |
| `SdkTypeOK`, `SdkReportsFindTheirThread`, `SdkHolderIsSafe` | types and the bound of the queue; no report finds its thread gone; what is being stored stays safe | `Waiting`, `Holding`, `Handling` |
| `SdkNothingVanishes`, `SdkFlushCovers`, `SdkWaitersSeeItDone` | no event that was accepted is forgotten; an empty flush covers what came before it; who waited for the sender finds all attempted | `Promised` and the above, for every number of callers and events, both clients, with faults, crashes and a clock that steps back |
| `SdkOrigin`, `SdkCapturesOwn` | what the SDK has was captured; until it is queued or stored, only the thread that captures an event has it | one induction with the next two (`SpillInv`), since a store under the mutex must know that its event is its own |
| `SdkStoreKeepsBound` | a capture that spills leaves the spool within its bound | `Listing`; `BytesCounts`: the sum of sizes is the cardinality of a set of bytes, so fewer files have no more |
| `SdkSpilledIsSafe` | and leaves its own event on disk, if the clock does not go back | `Listing`: the event stored is the newest; the oldest go first, and it fits alone |
| `PipelineParts` | in `Pipeline`, the SDK and the server each behave as `SdkClient` and `Issues` say, so that all of the above holds there | each post, served or not, is one of the outcomes the SDK's own module allows, and every step of a request one of the server's |
| `PipelineEndToEnd` | the SDK drops only what the server has stored, but for refused keys, evictions and crashes | `Awaited`, `AnswersAreTrue`, and that nothing vanishes in the SDK |
| `PipelineCollection` | `Pipeline` implements `EventCollection`: each captured event counts once at most, and only that or the grant of a member's request changes a status, whatever is sent twice or late | `Origin`, `Received`; the one action that counts stores an id that was not stored, and of the others only `WriteStatus` moves a status, which ends what its request asks (`Asking`) |
| `ThemeFollowsStorage`, `ThemeRemembers`, `ThemeChoiceSticks` | a tab shows what is stored or will hear of it; it remembers what it shows; only a choice, a load or another tab changes it | `Steady` |
| `PageIsTheme`, `PageFollowsStorage`, `PageChoiceSticks` | the pages of a tab use the theme as `Theme` says, so both properties hold there | a step of `Page` is one of `Theme`, or none of the theme's |
| `SlugifyIsValid`, `SlugsAgree` | of any name, the server's slug is valid or too short; it is the page's, unless that is cut | induction over the name: what the page has read and what the server has read, letter by letter (`Same`) |
| `PageTypes`, `PageControlAgrees`, `PageCopyReturns`, `PageSlugIsValid` | the four properties of a page in `browser` | `KeptCard`, `ControlFollows`, `CopyWaits`, `FormFollows`: the invariant says of every page what the property says of one |
| `LogTypeOK`, `LogBookkeeping`, `LogDropsAreDue`, `LogNoEarlyRepeats` | types, the window's count, drops have a cause, no early repeats | `Bookkeeping`, `RemembersAll`; the interval of the last `sentInWindow` forwarded events |
| `LogTwoWindows` | at most twice the limit in any `rate_window` | `Apart`: two events more than a limit apart are in different windows |

Why a strengthening is needed: that an issue's activity replays to its status, for example,
is preserved by `WriteStatus` only if the status the request read is still the stored one,
which the property does not say and `Snapshots` does. The same holds for every handler that
reads before it writes. For the outbox, `RespectsBackoff` compares two states and follows
from `Protected`, which ties the time since a claim to what is left of the lease and the
delay in every state between.

A sum, and a function defined by recursion, are reasoned about without the library's induction
theorems, whose operator parameters no installed prover can instantiate. Induction is stated
of a *set* (`Induction` in `PageProofs`: a set that has 0 and with each number the next has
all; `PartInduction` in `SdkProofs`: the same for the parts of a finite set) and proved from
`WFMin`: what is missing from the set would have a least member. A function defined by
recursion is a CHOICE of one that satisfies its equation, so the equation holds once such a
function exists: `Recursion` builds it, step by step, and `SlugReads` and `HyphenReads` apply
that to the two loops.

Proved and not run: `DeliveredMeansAccepted`, `ShutdownBoundsWork` and
`DeletedEndpointIsLeftAlone` of `Outbox`, `AcceptedIsStored` of `Issues`,
`CredentialsEndByTheirUser` of `Accounts`, `Origin`, `OneOwner` and `Untouched` of
`SdkClient`, and the types of `Membership`, `Comments`, `SdkClient` and `LogCapture`. TLC
agreed with each before it was proved; the theorem says more than the instance.

Only model-checked: liveness (`HealthyRowsAreDelivered`, `ShutdownCompletes`,
`CapturesSettle`, `ShutdownReturns`, `TabsConverge`), which is out of the prover's reach. Every
invariant and every action property of the passing runs is a theorem.

Assumptions worth a look: `PowerAssumption` of `Outbox` (powers of two are positive: TLC
evaluates it, and the provers have no rule for a power whose exponent varies); `EventId` of
two legacy bodies differ (`raw_events` has a primary key); `SdkSpilledIsSafe` takes
`Monotonic`, without which the code does otherwise (section 5); and in `Pipeline` a body
belongs to one event (`PipelineAssumption`: its JSON carries the event's id) and is never the
empty row (`BodyAssumption`).

## 5. Where code and words differ

* `membership_stale`: `create_member` reads the actor's role before its transaction
  (handlers.rs:671) and never again, so a change is committed for an actor demoted
  meanwhile; two owners may demote each other and leave a project without one.
  docs/IMPLEMENTATION.md:64-65: "only owners can assign or modify owner/admin-level
  membership". `OwnerRemains` holds as long as no such change was committed (`drifted`).
* `sdk_shutdown`: only the first caller of `AsyncClient::shutdown` takes the sender's handle
  (async_client.rs:341); another clone returns while events are still being delivered.
  async_client.rs:326: "Stops the client and waits for queued events to be attempted."
* `accounts_stale`: a login verifies the password (handlers.rs:454) and inserts its session in
  a later transaction (handlers.rs:468) without looking at the hash again. When
  `change_password` deletes the user's other sessions in between (handlers.rs:1569), the
  session opened with the old password comes after that and stays. handlers.rs:1563-1564:
  "Keep the current session alive, but evict every other one so a stolen credential cannot
  survive a rotation." `SessionsFollowPassword` holds but for these sessions (`late`).

Seen while modelling, without a run of their own:

* A capture that saw the client running may queue its event behind another clone's shutdown:
  it returns Ok and the event is dropped (async_client.rs:229). `NothingVanishes` names such
  an event lost.
* A delivered file that cannot be removed is sent again by each drain (SDK lib.rs:306); the
  server answers 202 or 409 and counts nothing. `NothingVanishes` takes the event as settled.
* The developer floor of a comment change is checked outside the transaction and not again
  (handlers.rs:1336).
* A key is checked before the body is read, so a request under way may store its event just
  after the revocation (auth.rs:307).
* Windows of the log throttle are laid end to end (bevy.rs:527), so a stretch of `rate_window`
  may see twice the limit; `LogTwoWindows` proves that it sees no more. bevy.rs:74 says "at
  most 20 per rolling minute", bevy.rs:83 "Sliding rate window".
* A spooled copy whose bytes changed gets 409 once its event is stored, which is a permanent
  failure (SDK lib.rs:241): the file is removed, and rightly so.
* A revoked key does not stop the application that still uses it: each 401 is a permanent
  failure too, so that the sender empties the queue and the spool into refusals
  (README.md:361-362). `EndToEnd` names these events `denied`.
* With a clock that steps back the event just spilled is taken for the oldest and evicted
  while its capture returns Ok (SDK lib.rs:272; `SpilledIsSafe` is checked with `Monotonic`
  TRUE and fails otherwise).
* A table that holds exactly `max_tracked_messages` is cleared when a message it already holds
  is entered again (bevy.rs:566), and recent messages are repeated early. `NoEarlyRepeats` is
  about fewer messages than that.
* A second call of `init` installs its panic hook before it learns that reporting is
  initialised (bevy.rs:352): a panic is then reported twice.
* Debug events of the SDK's own transport stay out of the log channel only by the default of
  `excluded_targets`, which an application may replace (bevy.rs:573).
* A choice that could not be stored is undone by the next event of the device or of another
  tab, because `preference` prefers what is stored to what it remembers (theme-init.js:15
  against :62). `ChoiceSticks` and `TabsFollowStorage` name the case (`unsaved`).
* A page that htmx puts back is not enhanced: its theme control shows its first option and its
  comment editor is markup without code over a hidden textarea. docs/IMPLEMENTATION.md:93-94
  and README.md:168-169 promise the plain textarea as the fallback. `ControlAgrees` and
  `PageTypeOK` name the case (`restored`).
* Copying twice within the feedback leaves "Copied" on the button (app.js:129); the slug is
  filled in only on a document that was loaded, not after boosted navigation (app.js:146);
  and the suggested slug may end in the hyphen it was cut behind, which the field's own
  pattern refuses (app.js:159). The server's `slugify` does not.

## 6. Not modelled

Payload contents, hashing, signing, DNS pinning and encryption (outcomes only); CSRF; audit
rows (append-only, read by nothing); profiles and avatars (single statements on one user's
row); lists, templates, assets, Markdown, OpenAPI, health; configuration and error
mapping; event preparation, breadcrumbs, the panic hook and backtraces; `init` and the
forwarding methods of the Bevy integration; two processes sharing one spool directory; the
wasm stubs, which do nothing.

In the browser: dates, JSON, the sidebar, confirmations, the preview's filter and the CSRF
header (one statement on one element each), and the libraries the pages load: htmx, EasyMDE
and Tabler, modelled where `app.js` depends on what they do, and the API reference
(`docs/scalar/scalar.standalone.js`, 2,522 lines of bundled third-party code). Of the
JavaScript in the repository only `app.js` and `theme-init.js`, 327 lines, are the program's
own; `Page` and `Theme` model three quarters of them. Everything else modelled here is Rust
and SQL.

## 7. Plan

In order of worth:

1. `TextRules`: `fence_for`, `normalize_tags`, `labels_from_event_tags`,
   `event_fingerprint`, `truncate_utf8`, and the validation of the protocol, as folds and
   recursive functions over short sequences, checked against reference definitions (a fence
   is longer than any run it encloses; labels pass `validate_tag`; truncation is the longest
   prefix). `slugify` is done, in `Page`.
2. `Reporting`: `prepare`, breadcrumbs, the panic hook and `init`: the first client wins, but
   hooks stack.
3. `Profiles`: display name and avatar under the rule of `require_profile_editor`.
4. Liveness of `Pipeline`: that every captured event is counted, evicted or lost, which needs
   a server without a limit on requests under way.
5. Refinement of `Accounts` to an abstract access rule (who may act at a time), and of `Theme`
   to one shared register that tabs read late.
