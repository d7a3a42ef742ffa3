---------------------------- MODULE CommentsProofs ----------------------------
(* Proofs about Comments, for any number of accounts, requests, comments and    *)
(* timeline entries.                                                            *)
EXTENDS Comments, TLAPS

USE CommentsAssumption

LEMMA StepCases ==
  [Next]_vars =>
    \/ \E u \in User, r \in Role : GrantRole(u, r)
    \/ \E c \in Client :
         \/ \E u \in User, op \in {"insert", "update", "delete"}, i \in 1 .. MaxComments :
              CheckFloor(c, u, op, i)
         \/ InsertComment(c) \/ OpenChange(c) \/ UpdateComment(c) \/ DeleteComment(c)
         \/ Abandon(c)
    \/ OtherCommit
    \/ UNCHANGED vars
  BY DEF Next

\* What the fields of a request are, by how far it is.
LEMMA RequestFields ==
  ASSUME NEW r \in Request
  PROVE  /\ r.step \in {"none", "floor", "open"}
         /\ r.step # "none" => /\ r.op \in {"insert", "update", "delete"}
                               /\ r.user \in User /\ r.on \in 1 .. MaxComments
         /\ r.step # "none" =>
              r \in [step : {"floor", "open"}, op : {"insert", "update", "delete"},
                     user : User, on : 1 .. MaxComments]
  BY DEF Request, NoRequest

LEMMA NoRequestType == NoRequest \in Request /\ NoRequest.step = "none"
  BY DEF Request, NoRequest

\* What a request has read still holds while its snapshot is the latest.
Inv == TypeOK /\ Snapshots

-----------------------------------------------------------------------------
LEMMA Initially == Init => Inv
<1> SUFFICES ASSUME Init PROVE Inv
  OBVIOUS
<1>1. comments \in Seq(Comment) /\ Len(comments) <= MaxComments
  BY DEF Init
<1>2. activity \in Seq(Entry) /\ Len(activity) <= MaxActivity
  BY DEF Init
<1>3. req \in [Client -> Request] /\ \A c \in Client : req[c].step = "none"
  BY NoRequestType DEF Init
<1>4. role \in [User -> Role \cup {"none"}] /\ fresh = {}
  BY DEF Init
<1>5. QED
  BY <1>1, <1>2, <1>3, <1>4 DEF Inv, TypeOK, Snapshots

\* A step that only ends or only starts a request's snapshot.
LEMMA GrantRoleStep ==
  ASSUME Inv, NEW u \in User, NEW r \in Role, GrantRole(u, r)
  PROVE  Inv'
<1>1. /\ role' = [role EXCEPT ![u] = r]
      /\ fresh' = {} /\ UNCHANGED <<comments, activity, req>>
  BY DEF GrantRole
<1>2. role' \in [User -> Role \cup {"none"}]
  BY <1>1 DEF Inv, TypeOK
<1>3. TypeOK'
  BY <1>1, <1>2 DEF Inv, TypeOK
<1>4. Snapshots'
  BY <1>1 DEF Inv, Snapshots
<1>5. QED
  BY <1>3, <1>4 DEF Inv

LEMMA CheckFloorStep ==
  ASSUME Inv, NEW c \in Client, NEW u \in User, NEW op \in {"insert", "update", "delete"},
         NEW i \in 1 .. MaxComments, CheckFloor(c, u, op, i)
  PROVE  Inv'
<1> DEFINE new == [step |-> "floor", op |-> op, user |-> u, on |-> i]
<1>1. /\ req' = [req EXCEPT ![c] = new] /\ req[c].step = "none"
      /\ UNCHANGED <<role, comments, activity, fresh>>
  BY NoRequestType DEF CheckFloor
<1>2. new \in Request /\ new.step = "floor"
  BY DEF Request
<1>3. req \in [Client -> Request] /\ c \notin fresh
      /\ fresh \subseteq {d \in Client : req[d].step = "open"}
  BY <1>1 DEF Inv, TypeOK
<1>4. /\ req' \in [Client -> Request]
      /\ req'[c] = new
      /\ \A d \in Client \ {c} : req'[d] = req[d]
  BY <1>1, <1>2, <1>3
<1>5. TypeOK'
  <2>1. fresh' \subseteq {d \in Client : req'[d].step = "open"}
    BY <1>1, <1>3, <1>4
  <2>2. QED
    BY <1>1, <1>4, <2>1 DEF Inv, TypeOK
<1>6. Snapshots'
  <2>1. \A d \in Client : req'[d].step = "open" => req'[d].on \in DOMAIN comments
    BY <1>2, <1>4 DEF Inv, Snapshots
  <2>2. \A d \in fresh : req'[d] = req[d]
    BY <1>3, <1>4
  <2>3. \A d \in fresh : ~comments[req[d].on].deleted /\ CanModifyComment(req[d].user, req[d].on)
    BY DEF Inv, Snapshots
  <2>4. \A d \in fresh' : /\ ~comments'[req'[d].on].deleted
                          /\ (CanModifyComment(req[d].user, req[d].on))'
    BY <1>1, <2>2, <2>3 DEF CanModifyComment
  <2>5. QED
    BY <1>1, <2>1, <2>4 DEF Snapshots
<1>7. QED
  BY <1>5, <1>6 DEF Inv

LEMMA OpenChangeStep ==
  ASSUME Inv, NEW c \in Client, OpenChange(c)
  PROVE  Inv'
<1> DEFINE r == req[c]
           new == [step |-> "open", op |-> r.op, user |-> r.user, on |-> r.on]
<1>1. /\ r \in Request /\ r.step = "floor"
      /\ r.op \in {"insert", "update", "delete"} /\ r.user \in User /\ r.on \in 1 .. MaxComments
      /\ r \in [step : {"floor", "open"}, op : {"insert", "update", "delete"},
                user : User, on : 1 .. MaxComments]
  BY RequestFields DEF Inv, TypeOK, OpenChange
<1>2. /\ r.on \in DOMAIN comments /\ ~comments[r.on].deleted
      /\ CanModifyComment(r.user, r.on)
      /\ req' = [req EXCEPT ![c] = [r EXCEPT !.step = "open"]]
      /\ fresh' = fresh \cup {c}
      /\ UNCHANGED <<role, comments, activity>>
  BY DEF OpenChange
<1>3. [r EXCEPT !.step = "open"] = new /\ new \in Request
  BY <1>1 DEF Request
<1>4. /\ req \in [Client -> Request]
      /\ fresh \subseteq {d \in Client : req[d].step = "open"}
  BY DEF Inv, TypeOK
<1>5. /\ req' \in [Client -> Request]
      /\ req'[c] = new
      /\ \A d \in Client \ {c} : req'[d] = req[d]
  BY <1>2, <1>3, <1>4
<1>6. TypeOK'
  <2>1. fresh' \subseteq {d \in Client : req'[d].step = "open"}
    BY <1>2, <1>4, <1>5
  <2>2. QED
    BY <1>2, <1>5, <2>1 DEF Inv, TypeOK
<1>7. Snapshots'
  <2>1. \A d \in Client : req'[d].step = "open" => req'[d].on \in DOMAIN comments
    BY <1>2, <1>5 DEF Inv, Snapshots
  <2>2. \A d \in fresh \ {c} : req'[d] = req[d]
    BY <1>4, <1>5
  <2>3. \A d \in fresh : ~comments[req[d].on].deleted /\ CanModifyComment(req[d].user, req[d].on)
    BY DEF Inv, Snapshots
  <2>4. \A d \in fresh' : /\ ~comments[req'[d].on].deleted
                          /\ CanModifyComment(req'[d].user, req'[d].on)
    BY <1>2, <1>5, <2>2, <2>3
  <2>5. QED
    BY <1>2, <2>1, <2>4 DEF Snapshots, CanModifyComment
<1>8. QED
  BY <1>6, <1>7 DEF Inv

\* Every commit of the three handlers, by what it writes to the timeline.
LEMMA CommitStep ==
  ASSUME TypeOK, NEW c \in Client, NEW i \in 1 .. MaxComments,
         NEW kind \in {"comment", "comment_edited", "comment_deleted"},
         req[c].step # "none", CommitEntry(c, kind, i)
  PROVE  /\ activity' \in Seq(Entry) /\ Len(activity') <= MaxActivity
         /\ Len(activity') = Len(activity) + 1
         /\ activity'[Len(activity) + 1] = [kind |-> kind, user |-> req[c].user, on |-> i]
         /\ \A k \in DOMAIN activity : activity'[k] = activity[k]
         /\ req' \in [Client -> Request]
         /\ \A d \in Client : req'[d].step = "open" => d # c /\ req'[d] = req[d]
         /\ role' = role /\ fresh' = {}
<1> DEFINE e == [kind |-> kind, user |-> req[c].user, on |-> i]
<1>1. req \in [Client -> Request] /\ activity \in Seq(Entry)
  BY DEF TypeOK
<1>2. /\ Len(activity) < MaxActivity
      /\ activity' = Append(activity, e)
      /\ req' = [req EXCEPT ![c] = NoRequest]
      /\ role' = role /\ fresh' = {}
  BY DEF CommitEntry
<1>3. e \in Entry
  <2>1. req[c].user \in User
    BY <1>1, RequestFields
  <2>2. QED
    BY <2>1 DEF Entry
<1>4. Len(activity') = Len(activity) + 1 /\ activity' \in Seq(Entry)
  BY <1>1, <1>2, <1>3
<1>5. /\ activity'[Len(activity) + 1] = e
      /\ \A k \in DOMAIN activity : activity'[k] = activity[k]
  BY <1>1, <1>2, <1>3
<1>6. /\ req' \in [Client -> Request]
      /\ \A d \in Client : req'[d].step = "open" => d # c /\ req'[d] = req[d]
  BY <1>1, <1>2, NoRequestType
<1>7. Len(activity') <= MaxActivity
  <2>1. Len(activity) \in Nat
    BY <1>1
  <2>2. QED
    BY <1>2, <1>4, <2>1
<1>8. QED
  BY <1>2, <1>4, <1>5, <1>6, <1>7

\* What an insert does to the rows.
LEMMA InsertFacts ==
  ASSUME Inv, NEW c \in Client, InsertComment(c)
  PROVE  /\ req[c].step # "none" /\ req[c].user \in User
         /\ Len(comments) + 1 \in 1 .. MaxComments
         /\ CommitEntry(c, "comment", Len(comments) + 1)
         /\ comments' \in Seq(Comment) /\ Len(comments') = Len(comments) + 1
         /\ Len(comments) \in Nat
         /\ comments'[Len(comments) + 1]
              = [author |-> req[c].user, by |-> NoUser, deleted |-> FALSE]
         /\ \A i \in DOMAIN comments : comments'[i] = comments[i]
<1> DEFINE new == [author |-> req[c].user, by |-> NoUser, deleted |-> FALSE]
<1>1. /\ req[c].step = "floor" /\ Len(comments) < MaxComments
      /\ comments' = Append(comments, new)
      /\ CommitEntry(c, "comment", Len(comments) + 1)
  BY DEF InsertComment
<1>2. req[c].user \in User
  BY <1>1, RequestFields DEF Inv, TypeOK
<1>3. comments \in Seq(Comment) /\ Len(comments) \in Nat
  BY DEF Inv, TypeOK
<1>4. new \in Comment
  BY <1>2 DEF Comment
<1>5. /\ comments' \in Seq(Comment) /\ Len(comments') = Len(comments) + 1
      /\ comments'[Len(comments) + 1] = new
      /\ \A i \in DOMAIN comments : comments'[i] = comments[i]
  BY <1>1, <1>3, <1>4
<1>6. Len(comments) + 1 \in 1 .. MaxComments
  BY <1>1, <1>3
<1>7. QED
  BY <1>1, <1>2, <1>3, <1>5, <1>6

\* What a change of comment i to the row new does.
ChangesTo(c, kind, i, new) ==
  /\ req[c].step = "open" /\ req[c].op # "insert"
  /\ c \in fresh /\ i = req[c].on
  /\ i \in DOMAIN comments /\ i \in 1 .. MaxComments
  /\ ~comments[i].deleted /\ CanModifyComment(req[c].user, i)
  /\ req[c].user \in User
  /\ new \in Comment /\ new.author = comments[i].author /\ new.by = req[c].user
  /\ new.deleted <=> kind = "comment_deleted"
  /\ comments' = [comments EXCEPT ![i] = new]
  /\ CommitEntry(c, kind, i)

LEMMA UpdateFacts ==
  ASSUME Inv, NEW c \in Client, UpdateComment(c)
  PROVE  \E i, new : ChangesTo(c, "comment_edited", i, new)
<1> DEFINE i == req[c].on
           row == comments[i]
           new == [author |-> row.author, by |-> req[c].user, deleted |-> FALSE]
<1>1. /\ req[c].step = "open" /\ req[c].op = "update" /\ c \in fresh /\ ~row.deleted
      /\ comments' = [comments EXCEPT ![i] = [row EXCEPT !.by = req[c].user]]
      /\ CommitEntry(c, "comment_edited", i)
  BY DEF UpdateComment
<1>2. i \in 1 .. MaxComments /\ req[c].user \in User
  BY <1>1, RequestFields DEF Inv, TypeOK
<1>3. i \in DOMAIN comments /\ CanModifyComment(req[c].user, i)
  BY <1>1 DEF Inv, Snapshots
<1>4. row \in Comment
  BY <1>3 DEF Inv, TypeOK
<1>5. [row EXCEPT !.by = req[c].user] = new /\ new \in Comment
  <2>1. row.deleted \in BOOLEAN
    BY <1>4 DEF Comment
  <2>2. row.deleted = FALSE
    BY <1>1, <2>1, Zenon
  <2>3. [row EXCEPT !.by = req[c].user]
          = [author |-> row.author, by |-> req[c].user, deleted |-> row.deleted]
    BY <1>4 DEF Comment
  <2>4. new \in Comment
    BY <1>2, <1>4 DEF Comment
  <2>5. QED
    BY <2>2, <2>3, <2>4
<1>6. ChangesTo(c, "comment_edited", i, new)
  BY <1>1, <1>2, <1>3, <1>4, <1>5 DEF ChangesTo
<1>7. QED
  BY <1>6

LEMMA DeleteFacts ==
  ASSUME Inv, NEW c \in Client, DeleteComment(c)
  PROVE  \E i, new : ChangesTo(c, "comment_deleted", i, new)
<1> DEFINE i == req[c].on
           row == comments[i]
           new == [author |-> row.author, by |-> req[c].user, deleted |-> TRUE]
<1>1. /\ req[c].step = "open" /\ req[c].op = "delete" /\ c \in fresh /\ ~row.deleted
      /\ comments' = [comments EXCEPT ![i] = new]
      /\ CommitEntry(c, "comment_deleted", i)
  BY DEF DeleteComment
<1>2. i \in 1 .. MaxComments /\ req[c].user \in User
  BY <1>1, RequestFields DEF Inv, TypeOK
<1>3. i \in DOMAIN comments /\ CanModifyComment(req[c].user, i)
  BY <1>1 DEF Inv, Snapshots
<1>4. row \in Comment /\ comments \in Seq(Comment)
  BY <1>3 DEF Inv, TypeOK
<1>5. new \in Comment
  BY <1>2, <1>4 DEF Comment
<1>6. ChangesTo(c, "comment_deleted", i, new)
  BY <1>1, <1>2, <1>3, <1>5 DEF ChangesTo
<1>7. QED
  BY <1>6

\* The rows a change leaves.
LEMMA ChangeRows ==
  ASSUME Inv, NEW c \in Client, NEW kind \in {"comment_edited", "comment_deleted"},
         NEW i, NEW new, ChangesTo(c, kind, i, new)
  PROVE  /\ comments' \in Seq(Comment) /\ Len(comments') = Len(comments)
         /\ DOMAIN comments' = DOMAIN comments
         /\ comments'[i] = new
         /\ \A j \in DOMAIN comments \ {i} : comments'[j] = comments[j]
         /\ i \in DOMAIN comments
<1>1. /\ i \in DOMAIN comments /\ new \in Comment
      /\ comments' = [comments EXCEPT ![i] = new]
  BY DEF ChangesTo
<1>2. comments \in Seq(Comment)
  BY DEF Inv, TypeOK
<1>3. QED
  BY <1>1, <1>2

\* After a commit no snapshot is the latest: only the types are left to keep.
LEMMA AfterCommit ==
  ASSUME Inv, fresh' = {}, role' = role,
         comments' \in Seq(Comment), Len(comments') <= MaxComments,
         Len(comments) <= Len(comments'),
         activity' \in Seq(Entry), Len(activity') <= MaxActivity,
         req' \in [Client -> Request],
         \A d \in Client : req'[d].step = "open" => req'[d] = req[d]
  PROVE  Inv'
<1>1. TypeOK'
  BY DEF Inv, TypeOK
<1>2. comments \in Seq(Comment) /\ DOMAIN comments \subseteq DOMAIN comments'
  BY DEF Inv, TypeOK
<1>3. Snapshots'
  BY <1>2 DEF Inv, Snapshots
<1>4. QED
  BY <1>1, <1>3 DEF Inv

LEMMA InsertStep ==
  ASSUME Inv, NEW c \in Client, InsertComment(c)
  PROVE  Inv'
<1>1. TypeOK
  BY DEF Inv
<1>2. /\ Len(comments) + 1 \in 1 .. MaxComments
      /\ comments' \in Seq(Comment) /\ Len(comments') = Len(comments) + 1
      /\ Len(comments) \in Nat
      /\ req[c].step # "none" /\ CommitEntry(c, "comment", Len(comments) + 1)
  BY InsertFacts
<1>3. /\ activity' \in Seq(Entry) /\ Len(activity') <= MaxActivity
      /\ req' \in [Client -> Request] /\ role' = role /\ fresh' = {}
      /\ \A d \in Client : req'[d].step = "open" => req'[d] = req[d]
  BY <1>1, <1>2, CommitStep
<1>4. Len(comments') <= MaxComments /\ Len(comments) <= Len(comments')
  BY <1>2
<1>5. QED
  BY <1>2, <1>3, <1>4, AfterCommit

LEMMA ChangeStep ==
  ASSUME Inv, NEW c \in Client, NEW kind \in {"comment_edited", "comment_deleted"},
         NEW i, NEW new, ChangesTo(c, kind, i, new)
  PROVE  Inv'
<1>1. TypeOK /\ Len(comments) <= MaxComments /\ Len(comments) \in Nat
  BY DEF Inv, TypeOK
<1>2. comments' \in Seq(Comment) /\ Len(comments') = Len(comments)
  BY ChangeRows
<1>3. i \in 1 .. MaxComments /\ req[c].step # "none" /\ CommitEntry(c, kind, i)
  BY DEF ChangesTo
<1>4. /\ activity' \in Seq(Entry) /\ Len(activity') <= MaxActivity
      /\ req' \in [Client -> Request] /\ role' = role /\ fresh' = {}
      /\ \A d \in Client : req'[d].step = "open" => req'[d] = req[d]
  BY <1>1, <1>3, CommitStep
<1>5. QED
  BY <1>1, <1>2, <1>4, AfterCommit

LEMMA AbandonStep ==
  ASSUME Inv, NEW c \in Client, Abandon(c)
  PROVE  Inv'
<1>1. /\ req' = [req EXCEPT ![c] = NoRequest]
      /\ fresh' = fresh \ {c}
      /\ UNCHANGED <<role, comments, activity>>
  BY DEF Abandon
<1>2. /\ req \in [Client -> Request]
      /\ fresh \subseteq {d \in Client : req[d].step = "open"}
  BY DEF Inv, TypeOK
<1>3. /\ req' \in [Client -> Request]
      /\ req'[c].step = "none"
      /\ \A d \in Client \ {c} : req'[d] = req[d]
  BY <1>1, <1>2, NoRequestType
<1>4. TypeOK'
  <2>1. fresh' \subseteq {d \in Client : req'[d].step = "open"}
    BY <1>1, <1>2, <1>3
  <2>2. QED
    BY <1>1, <1>3, <2>1 DEF Inv, TypeOK
<1>5. Snapshots'
  <2>1. \A d \in Client : req'[d].step = "open" => req'[d].on \in DOMAIN comments
    BY <1>3 DEF Inv, Snapshots
  <2>2. \A d \in fresh' : req'[d] = req[d] /\ d \in fresh
    BY <1>1, <1>2, <1>3
  <2>3. \A d \in fresh' : ~comments[req'[d].on].deleted /\ CanModifyComment(req'[d].user, req'[d].on)
    BY <2>2 DEF Inv, Snapshots
  <2>4. QED
    BY <1>1, <2>1, <2>3 DEF Snapshots, CanModifyComment
<1>6. QED
  BY <1>4, <1>5 DEF Inv

LEMMA OtherCommitStep ==
  ASSUME Inv, OtherCommit
  PROVE  Inv'
<1>1. fresh' = {} /\ UNCHANGED <<role, comments, activity, req>>
  BY DEF OtherCommit
<1>2. TypeOK'
  BY <1>1 DEF Inv, TypeOK
<1>3. Snapshots'
  BY <1>1 DEF Inv, Snapshots
<1>4. QED
  BY <1>2, <1>3 DEF Inv

LEMMA Inductive == Inv /\ [Next]_vars => Inv'
<1> SUFFICES ASSUME Inv, [Next]_vars PROVE Inv'
  OBVIOUS
<1>1. CASE UNCHANGED vars
  BY <1>1 DEF Inv, TypeOK, Snapshots, CanModifyComment, vars
<1>2. ASSUME NEW c \in Client, UpdateComment(c) PROVE Inv'
  BY <1>2, UpdateFacts, ChangeStep
<1>3. ASSUME NEW c \in Client, DeleteComment(c) PROVE Inv'
  BY <1>3, DeleteFacts, ChangeStep
<1>4. QED
  BY <1>1, <1>2, <1>3, StepCases, GrantRoleStep, CheckFloorStep, InsertStep, OpenChangeStep,
     AbandonStep, OtherCommitStep

\* The three handlers keep rows, timeline and requests well formed.
THEOREM CommentsTypeOK == Spec => []TypeOK
<1>1. Inv => TypeOK
  BY DEF Inv
<1>2. QED
  BY <1>1, Initially, Inductive, PTL DEF Spec

\* What a change was let through on (the comment is no tombstone, the actor may modify
\* it) still holds while its snapshot is the latest.
THEOREM CommentsSnapshots == Spec => []Inv
<1>1. QED
  BY Initially, Inductive, PTL DEF Spec

-----------------------------------------------------------------------------
\* What a step may do to the rows: nothing, an insert, or a change.
LEMMA RowCases ==
  ASSUME Inv, [Next]_vars
  PROVE  \/ UNCHANGED <<comments, activity>>
         \/ \E c \in Client : InsertComment(c)
         \/ \E c \in Client, kind \in {"comment_edited", "comment_deleted"} :
              \E i, new : ChangesTo(c, kind, i, new)
<1>1. ASSUME NEW c \in Client, UpdateComment(c)
      PROVE  \E i, new : ChangesTo(c, "comment_edited", i, new)
  BY <1>1, UpdateFacts
<1>2. ASSUME NEW c \in Client, DeleteComment(c)
      PROVE  \E i, new : ChangesTo(c, "comment_deleted", i, new)
  BY <1>2, DeleteFacts
<1>3. QED
  BY <1>1, <1>2, StepCases DEF vars, GrantRole, CheckFloor, OpenChange, Abandon, OtherCommit

\* Whatever a removal races with, nothing happens to a comment after it.
THEOREM CommentsTombstones == Spec => TombstonesAreFinal
<1> DEFINE Final == \A i \in DOMAIN comments : comments[i].deleted => comments'[i] = comments[i]
<1>1. ASSUME Inv, [Next]_vars PROVE [Final]_vars
  <2>1. CASE UNCHANGED <<comments, activity>>
    BY <2>1
  <2>2. ASSUME NEW c \in Client, InsertComment(c) PROVE Final
    BY <1>1, <2>2, InsertFacts
  <2>3. ASSUME NEW c \in Client, NEW kind \in {"comment_edited", "comment_deleted"},
               NEW i, NEW new, ChangesTo(c, kind, i, new)
        PROVE  Final
    <3>1. ~comments[i].deleted
      BY <2>3 DEF ChangesTo
    <3>2. \A j \in DOMAIN comments \ {i} : comments'[j] = comments[j]
      BY <1>1, <2>3, ChangeRows
    <3>3. QED
      BY <3>1, <3>2
  <2>4. QED
    BY <1>1, <2>1, <2>2, <2>3, RowCases
<1>2. QED
  BY <1>1, CommentsSnapshots, PTL DEF Spec, TombstonesAreFinal

\* A comment is changed by its author or by who manages the project at the commit.
THEOREM CommentsModeration == Spec => ModerationIsCurrent
<1> DEFINE Current == \A c \in Client : \A i \in DOMAIN comments :
                        Changes(c, i) => CanModifyComment(req[c].user, i)
<1>1. ASSUME Inv, [Next]_vars PROVE [Current]_vars
  <2> SUFFICES ASSUME NEW c \in Client, NEW i \in DOMAIN comments, Changes(c, i)
               PROVE  CanModifyComment(req[c].user, i)
    OBVIOUS
  <2>1. req[c].step = "open" /\ req'[c] = NoRequest /\ req[c].on = i /\ comments'[i] # comments[i]
    BY DEF Changes
  <2>2. req \in [Client -> Request] /\ NoRequest.step = "none"
    BY <1>1, NoRequestType DEF Inv, TypeOK
  <2>3. ASSUME NEW d \in Client, InsertComment(d) PROVE FALSE
    BY <1>1, <2>1, <2>3, InsertFacts
  <2>4. ASSUME NEW d \in Client, NEW kind \in {"comment_edited", "comment_deleted"},
               NEW j, NEW new, ChangesTo(d, kind, j, new)
        PROVE  CanModifyComment(req[c].user, i)
    <3>1. req' = [req EXCEPT ![d] = NoRequest]
      BY <2>4 DEF ChangesTo, CommitEntry
    <3>2. d = c
      BY <2>1, <2>2, <3>1
    <3>3. QED
      BY <2>1, <2>4, <3>2 DEF ChangesTo
  <2>5. QED
    BY <1>1, <2>1, <2>3, <2>4, RowCases
<1>2. QED
  BY <1>1, CommentsSnapshots, PTL DEF Spec, ModerationIsCurrent

-----------------------------------------------------------------------------
\* An entry about another comment, written last, changes no explanation.
LEMMA StillExplained ==
  ASSUME NEW i \in DOMAIN comments, NEW first \in DOMAIN activity, NEW last \in DOMAIN activity,
         Explains(i, first, last),
         activity \in Seq(Entry), activity' \in Seq(Entry),
         Len(activity') = Len(activity) + 1,
         \A k \in DOMAIN activity : activity'[k] = activity[k],
         activity'[Len(activity) + 1].on # i,
         comments'[i] = comments[i]
  PROVE  \E f, l \in DOMAIN activity' : Explains(i, f, l)'
<1>1. DOMAIN activity' = DOMAIN activity \cup {Len(activity) + 1} /\ Len(activity) \in Nat
  OBVIOUS
<1>2. /\ activity'[first] = [kind |-> "comment", user |-> comments'[i].author, on |-> i]
      /\ activity'[last].on = i
  BY DEF Explains
<1>3. \A k \in DOMAIN activity' : activity'[k].on = i =>
        /\ first <= k /\ k <= last
        /\ activity'[k].kind = "comment" => k = first
        /\ activity'[k].kind = "comment_deleted" => k = last
  BY <1>1 DEF Explains
<1>4. comments'[i].deleted <=> activity'[last].kind = "comment_deleted"
  BY DEF Explains
<1>5. comments'[i].by = IF last = first THEN NoUser ELSE activity'[last].user
  BY DEF Explains
<1>6. Explains(i, first, last)'
  BY <1>2, <1>3, <1>4, <1>5 DEF Explains
<1>7. QED
  BY <1>1, <1>6

LEMMA InsertTimeline ==
  ASSUME Inv, TimelineReplays, NEW c \in Client, InsertComment(c)
  PROVE  TimelineReplays'
<1>0. PICK N, L : N = Len(comments) + 1 /\ L = Len(activity) + 1
  OBVIOUS
<1>1. /\ req[c].step # "none" /\ req[c].user \in User /\ N \in 1 .. MaxComments
      /\ Len(comments) \in Nat /\ CommitEntry(c, "comment", N)
      /\ comments' \in Seq(Comment) /\ Len(comments') = N
      /\ comments'[N] = [author |-> req[c].user, by |-> NoUser, deleted |-> FALSE]
      /\ \A i \in DOMAIN comments : comments'[i] = comments[i]
  BY <1>0, InsertFacts
<1>2. /\ activity' \in Seq(Entry) /\ Len(activity') = L
      /\ activity'[L] = [kind |-> "comment", user |-> req[c].user, on |-> N]
      /\ \A k \in DOMAIN activity : activity'[k] = activity[k]
  BY <1>0, <1>1, CommitStep DEF Inv
<1>3. /\ comments \in Seq(Comment) /\ activity \in Seq(Entry) /\ Len(activity) \in Nat
      /\ L \in Nat
  BY <1>0 DEF Inv, TypeOK
<1>4. /\ DOMAIN comments' = DOMAIN comments \cup {N} /\ N \notin DOMAIN comments
      /\ DOMAIN activity' = DOMAIN activity \cup {L}
  BY <1>0, <1>1, <1>2, <1>3
<1>5. ASSUME NEW i \in DOMAIN comments
      PROVE  \E f, l \in DOMAIN activity' : Explains(i, f, l)'
  <2>1. PICK first \in DOMAIN activity, last \in DOMAIN activity : Explains(i, first, last)
    BY DEF TimelineReplays
  <2>2. activity'[L].on # i
    BY <1>2, <1>4
  <2>3. QED
    BY <1>0, <1>1, <1>2, <1>3, <2>1, <2>2, StillExplained
<1>6. \A k \in DOMAIN activity' : activity'[k].on = N => k = L
  <2>1. \A k \in DOMAIN activity : activity[k].on \in DOMAIN comments
    BY DEF TimelineReplays
  <2>2. QED
    BY <1>2, <1>4, <2>1
<1>7. Explains(N, L, L)'
  <2>1. \A k \in DOMAIN activity' : activity'[k].on = N =>
          /\ L <= k /\ k <= L
          /\ activity'[k].kind = "comment" => k = L
          /\ activity'[k].kind = "comment_deleted" => k = L
    BY <1>3, <1>6
  <2>2. /\ activity'[L] = [kind |-> "comment", user |-> comments'[N].author, on |-> N]
        /\ activity'[L].on = N /\ activity'[L].kind # "comment_deleted"
        /\ comments'[N].by = NoUser
    BY <1>1, <1>2
  <2>3. comments'[N].deleted <=> activity'[L].kind = "comment_deleted"
    BY <1>1, <2>2
  <2>4. QED
    BY <2>1, <2>2, <2>3 DEF Explains
<1>8. \A i \in DOMAIN comments' : \E f, l \in DOMAIN activity' : Explains(i, f, l)'
  BY <1>4, <1>5, <1>7
<1>9. \A k \in DOMAIN activity' : activity'[k].on \in DOMAIN comments'
  <2>1. \A k \in DOMAIN activity : activity[k].on \in DOMAIN comments
    BY DEF TimelineReplays
  <2>2. QED
    BY <1>2, <1>4, <2>1
<1>10. QED
  BY <1>8, <1>9 DEF TimelineReplays

LEMMA ChangeTimeline ==
  ASSUME Inv, TimelineReplays, NEW c \in Client,
         NEW kind \in {"comment_edited", "comment_deleted"},
         NEW i, NEW new, ChangesTo(c, kind, i, new)
  PROVE  TimelineReplays'
<1>0. PICK L : L = Len(activity) + 1
  OBVIOUS
<1>1. /\ i \in DOMAIN comments /\ i \in 1 .. MaxComments /\ req[c].step # "none"
      /\ ~comments[i].deleted /\ CommitEntry(c, kind, i)
      /\ new.author = comments[i].author /\ new.by = req[c].user
      /\ new.deleted <=> kind = "comment_deleted"
  BY DEF ChangesTo
<1>2. /\ DOMAIN comments' = DOMAIN comments /\ comments'[i] = new
      /\ \A j \in DOMAIN comments \ {i} : comments'[j] = comments[j]
  BY ChangeRows
<1>3. /\ activity' \in Seq(Entry) /\ Len(activity') = L
      /\ activity'[L] = [kind |-> kind, user |-> req[c].user, on |-> i]
      /\ \A k \in DOMAIN activity : activity'[k] = activity[k]
  <2>1. TypeOK /\ kind \in {"comment", "comment_edited", "comment_deleted"}
    BY DEF Inv
  <2>2. /\ activity' \in Seq(Entry) /\ Len(activity') = Len(activity) + 1
        /\ activity'[Len(activity) + 1] = [kind |-> kind, user |-> req[c].user, on |-> i]
        /\ \A k \in DOMAIN activity : activity'[k] = activity[k]
    BY <1>1, <2>1, CommitStep
  <2>3. QED
    BY <1>0, <2>2
<1>4. activity \in Seq(Entry) /\ Len(activity) \in Nat /\ L \in Nat
  BY <1>0 DEF Inv, TypeOK
<1>5. DOMAIN activity' = DOMAIN activity \cup {L} /\ \A k \in DOMAIN activity : k \in Nat /\ k < L
  BY <1>0, <1>3, <1>4
<1>6. ASSUME NEW j \in DOMAIN comments \ {i}
      PROVE  \E f, l \in DOMAIN activity' : Explains(j, f, l)'
  <2>1. PICK first \in DOMAIN activity, last \in DOMAIN activity : Explains(j, first, last)
    BY DEF TimelineReplays
  <2>2. activity'[L].on # j
    BY <1>3
  <2>3. QED
    BY <1>0, <1>2, <1>3, <1>4, <2>1, <2>2, StillExplained
<1>7. \E f, l \in DOMAIN activity' : Explains(i, f, l)'
  <2>1. PICK first \in DOMAIN activity, last \in DOMAIN activity : Explains(i, first, last)
    BY <1>1 DEF TimelineReplays
  <2>2. activity[last].kind # "comment_deleted"
    BY <1>1, <2>1 DEF Explains
  <2>3. /\ activity'[first] = [kind |-> "comment", user |-> comments'[i].author, on |-> i]
        /\ activity'[L].on = i /\ activity'[L].user = req[c].user /\ first # L
    BY <1>1, <1>2, <1>3, <1>5, <2>1 DEF Explains
  <2>4. \A k \in DOMAIN activity' : activity'[k].on = i =>
          /\ first <= k /\ k <= L
          /\ activity'[k].kind = "comment" => k = first
          /\ activity'[k].kind = "comment_deleted" => k = L
    <3>1. \A k \in DOMAIN activity : activity[k].on = i =>
            /\ first <= k
            /\ activity[k].kind = "comment" => k = first
            /\ activity[k].kind # "comment_deleted"
      BY <2>1, <2>2 DEF Explains
    <3>2. first <= L /\ L <= L
      BY <1>4, <1>5
    <3>3. activity'[L].kind # "comment"
      BY <1>3
    <3>4. \A k \in DOMAIN activity : k <= L
      BY <1>4, <1>5
    <3>5. QED
      BY <1>3, <1>5, <3>1, <3>2, <3>3, <3>4
  <2>5. comments'[i].deleted <=> activity'[L].kind = "comment_deleted"
    BY <1>1, <1>2, <1>3
  <2>6. comments'[i].by = req[c].user
    BY <1>1, <1>2
  <2>7. Explains(i, first, L)'
    BY <2>3, <2>4, <2>5, <2>6 DEF Explains
  <2>8. QED
    BY <1>5, <2>7
<1>8. \A j \in DOMAIN comments' : \E f, l \in DOMAIN activity' : Explains(j, f, l)'
  BY <1>2, <1>6, <1>7
<1>9. \A k \in DOMAIN activity' : activity'[k].on \in DOMAIN comments'
  <2>1. \A k \in DOMAIN activity : activity[k].on \in DOMAIN comments
    BY DEF TimelineReplays
  <2>2. activity'[L].on = i
    BY <1>3
  <2>3. QED
    BY <1>1, <1>2, <1>3, <1>5, <2>1, <2>2
<1>10. QED
  BY <1>8, <1>9 DEF TimelineReplays

\* The timeline explains every comment: its author's post, its last change and its removal.
THEOREM CommentsTimeline == Spec => []TimelineReplays
<1>1. Init => TimelineReplays
  BY DEF Init, TimelineReplays
<1>2. Inv /\ TimelineReplays /\ [Next]_vars => TimelineReplays'
  <2> SUFFICES ASSUME Inv, TimelineReplays, [Next]_vars PROVE TimelineReplays'
    OBVIOUS
  <2>1. CASE UNCHANGED <<comments, activity>>
    BY <2>1 DEF TimelineReplays, Explains
  <2>2. QED
    BY <2>1, RowCases, InsertTimeline, ChangeTimeline
<1>3. QED
  BY <1>1, <1>2, CommentsSnapshots, PTL DEF Spec
=============================================================================
