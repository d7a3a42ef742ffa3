------------------------------ MODULE Comments ------------------------------
(***************************************************************************)
(* The comments of one issue: insert_, update_ and                         *)
(* delete_comment_in_project of src/src/handlers.rs, which the forms and   *)
(* the API share.  Roles change underneath by create_member; GrantRole     *)
(* allows every change of module Membership, and more.                     *)
(*                                                                         *)
(* All three check the developer floor before their transaction.  A change *)
(* reads the comment and the actor's role again inside it, so it commits   *)
(* only if nothing was committed since (fresh, as in module Issues); an    *)
(* insert reads nothing again.                                             *)
(***************************************************************************)
EXTENDS Integers, Sequences

CONSTANTS User,        \* accounts
          Client,      \* requests the server handles at a time
          NoUser,      \* updated_by is NULL
          MaxComments, \* bound: comments posted
          MaxActivity  \* bound: timeline entries

ASSUME CommentsAssumption ==
  NoUser \notin User /\ MaxComments \in Nat /\ MaxActivity \in Nat

VARIABLES
  role,      \* project_memberships.role; "none": no row
  comments,  \* rows of issue_comments, by id
  activity,  \* rows of issue_activity about comments
  req,       \* req[c]: what request c has been let through on
  fresh      \* requests whose transaction's snapshot is the latest commit

vars == <<role, comments, activity, req, fresh>>

Rank(r) == CASE r = "none" -> 0 [] r = "viewer" -> 1 [] r = "developer" -> 2
             [] r = "admin" -> 3 [] r = "owner" -> 4
Role == {"viewer", "developer", "admin", "owner"}

Comment == [author : User, by : User \cup {NoUser}, deleted : BOOLEAN]
Entry == [kind : {"comment", "comment_edited", "comment_deleted"},
          user : User, on : 1 .. MaxComments]

NoRequest == [step |-> "none"]
Request == {NoRequest}
  \cup [step : {"floor", "open"}, op : {"insert", "update", "delete"}, user : User,
        on : 1 .. MaxComments]

TypeOK ==
  /\ role \in [User -> Role \cup {"none"}]
  /\ comments \in Seq(Comment) /\ Len(comments) <= MaxComments
  /\ activity \in Seq(Entry) /\ Len(activity) <= MaxActivity
  /\ req \in [Client -> Request]
  /\ fresh \subseteq {c \in Client : req[c].step = "open"}

Init ==
  /\ role \in [User -> Role \cup {"none"}]
  /\ comments = <<>> /\ activity = <<>>
  /\ req = [c \in Client |-> NoRequest]
  /\ fresh = {}
-----------------------------------------------------------------------------
\* create_member commits.
GrantRole(u, r) ==
  /\ role' = [role EXCEPT ![u] = r]
  /\ fresh' = {}
  /\ UNCHANGED <<comments, activity, req>>

\* require_project_role(.., ProjectRole::Developer).  The id is the client's word, and
\* an insert does not use it.
CheckFloor(c, u, op, i) ==
  /\ req[c] = NoRequest
  /\ Rank(role[u]) >= Rank("developer")
  /\ req' = [req EXCEPT ![c] = [step |-> "floor", op |-> op, user |-> u, on |-> i]]
  /\ UNCHANGED <<role, comments, activity, fresh>>

\* Records the timeline entry and commits.
CommitEntry(c, kind, i) ==
  /\ Len(activity) < MaxActivity
  /\ activity' = Append(activity, [kind |-> kind, user |-> req[c].user, on |-> i])
  /\ req' = [req EXCEPT ![c] = NoRequest]
  /\ fresh' = {}
  /\ UNCHANGED role

\* Writes first: nothing it goes by was read in its transaction.
InsertComment(c) ==
  /\ req[c].step = "floor" /\ req[c].op = "insert"
  /\ Len(comments) < MaxComments
  /\ comments' = Append(comments, [author |-> req[c].user, by |-> NoUser, deleted |-> FALSE])
  /\ CommitEntry(c, "comment", Len(comments) + 1)

CanModifyComment(u, i) == comments[i].author = u \/ Rank(role[u]) >= Rank("admin")

\* load_comment_access, actor_role_in_project and can_modify_comment.
OpenChange(c) ==
  LET r == req[c]
  IN /\ r.step = "floor" /\ r.op # "insert"
     /\ r.on \in DOMAIN comments /\ ~comments[r.on].deleted
     /\ CanModifyComment(r.user, r.on)
     /\ req' = [req EXCEPT ![c].step = "open"]
     /\ fresh' = fresh \cup {c}
     /\ UNCHANGED <<role, comments, activity>>

\* Mutated form: what was read is not protected until the commit.
UpdateCommentStale(c) ==
  LET i == req[c].on
  IN /\ req[c].step = "open" /\ req[c].op = "update"
     /\ ~comments[i].deleted
     /\ comments' = [comments EXCEPT ![i].by = req[c].user]
     /\ CommitEntry(c, "comment_edited", i)

\* Mutated form: a tombstone can be edited by who read the comment before.
UpdateCommentAnyway(c) ==
  LET i == req[c].on
  IN /\ req[c].step = "open" /\ req[c].op = "update"
     /\ comments' = [comments EXCEPT ![i].by = req[c].user]
     /\ CommitEntry(c, "comment_edited", i)

UpdateComment(c) ==
  LET i == req[c].on
  IN /\ req[c].step = "open" /\ req[c].op = "update" /\ c \in fresh
     /\ ~comments[i].deleted
     /\ comments' = [comments EXCEPT ![i].by = req[c].user]
     /\ CommitEntry(c, "comment_edited", i)

\* Mutated form: a removal that finds a tombstone is recorded all the same.
DeleteCommentUncounted(c) ==
  LET i == req[c].on
  IN /\ req[c].step = "open" /\ req[c].op = "delete"
     /\ comments' = IF comments[i].deleted THEN comments
                    ELSE [comments EXCEPT ![i] = [author |-> @.author, by |-> req[c].user, deleted |-> TRUE]]
     /\ CommitEntry(c, "comment_deleted", i)

\* The row stays, as a tombstone.
DeleteComment(c) ==
  LET i == req[c].on
  IN /\ req[c].step = "open" /\ req[c].op = "delete" /\ c \in fresh
     /\ ~comments[i].deleted
     /\ comments' = [comments EXCEPT ![i] = [author |-> @.author, by |-> req[c].user, deleted |-> TRUE]]
     /\ CommitEntry(c, "comment_deleted", i)

\* Refused (403, 404), failed (an old snapshot, a database error) or gone.
Abandon(c) ==
  /\ req[c] # NoRequest
  /\ req' = [req EXCEPT ![c] = NoRequest]
  /\ fresh' = fresh \ {c}
  /\ UNCHANGED <<role, comments, activity>>

\* Any other handler or the worker commits.
OtherCommit ==
  /\ fresh # {}
  /\ fresh' = {}
  /\ UNCHANGED <<role, comments, activity, req>>

Next ==
  \/ \E u \in User, r \in Role : GrantRole(u, r)
  \/ \E c \in Client :
       \/ \E u \in User, op \in {"insert", "update", "delete"}, i \in 1 .. MaxComments :
            CheckFloor(c, u, op, i)
       \/ InsertComment(c) \/ OpenChange(c) \/ UpdateComment(c) \/ DeleteComment(c)
       \/ Abandon(c)
  \/ OtherCommit

Spec == Init /\ [][Next]_vars
-----------------------------------------------------------------------------
(* Properties. *)

\* "Tombstones are immutable; there is no restore flow": whatever a removal races with,
\* no comment is edited, attributed anew or removed again after it (update_ and
\* delete_comment_in_project).
TombstonesAreFinal ==
  [][\A i \in DOMAIN comments : comments[i].deleted => comments'[i] = comments[i]]_vars

\* The timeline explains every comment: it begins with the author's post, its last entry
\* is what updated_by and deleted_at show, and a removal ends it.
Explains(i, first, last) ==
  /\ activity[first] = [kind |-> "comment", user |-> comments[i].author, on |-> i]
  /\ activity[last].on = i
  /\ \A k \in DOMAIN activity : activity[k].on = i =>
       /\ first <= k /\ k <= last
       /\ activity[k].kind = "comment" => k = first
       /\ activity[k].kind = "comment_deleted" => k = last
  /\ comments[i].deleted <=> activity[last].kind = "comment_deleted"
  /\ comments[i].by = IF last = first THEN NoUser ELSE activity[last].user

TimelineReplays ==
  /\ \A i \in DOMAIN comments : \E first, last \in DOMAIN activity : Explains(i, first, last)
  /\ \A k \in DOMAIN activity : activity[k].on \in DOMAIN comments

\* A request of c changed comment i.
Changes(c, i) ==
  /\ req[c].step = "open" /\ req'[c] = NoRequest
  /\ req[c].on = i /\ comments'[i] # comments[i]

\* Whoever changes a comment is its author or manages the project when the change is
\* committed, not only when it was asked for (the role is read in the transaction).
ModerationIsCurrent ==
  [][\A c \in Client : \A i \in DOMAIN comments :
       Changes(c, i) => CanModifyComment(req[c].user, i)]_vars

\* What an open change was let through on still holds while its snapshot is the latest.
Snapshots ==
  /\ \A c \in Client : req[c].step = "open" => req[c].on \in DOMAIN comments
  /\ \A c \in fresh :
       ~comments[req[c].on].deleted /\ CanModifyComment(req[c].user, req[c].on)
=============================================================================
