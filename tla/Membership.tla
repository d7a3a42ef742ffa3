----------------------------- MODULE Membership -----------------------------
(***************************************************************************)
(* Accounts and the members of one project: bootstrap, create_project and  *)
(* create_member (src/src/handlers.rs), require_project_role               *)
(* (src/src/auth.rs), the order of roles (src/src/domain.rs).              *)
(*                                                                         *)
(* create_member reads the actor's role twice before its transaction and   *)
(* the target's role inside it; only the latter is protected by the        *)
(* snapshot (fresh, as in module Issues).  No handler removes a member.    *)
(***************************************************************************)
EXTENDS Naturals

CONSTANTS User,   \* accounts, by email address
          Client  \* requests the server handles at a time

VARIABLES
  users,    \* rows of users
  founded,  \* the project exists
  role,     \* project_memberships.role; "none": no row
  req,      \* req[c]: what request c has read so far
  fresh,    \* requests whose transaction's snapshot is the latest commit
  drifted   \* history: some change was committed for an actor whose role was no
            \* longer the one create_member had read

vars == <<users, founded, role, req, fresh, drifted>>

\* ProjectRole, weakest first.
Rank(r) == CASE r = "none" -> 0 [] r = "viewer" -> 1 [] r = "developer" -> 2
             [] r = "admin" -> 3 [] r = "owner" -> 4
Role == {"viewer", "developer", "admin", "owner"}
Manages(r) == Rank(r) >= Rank("admin")

NoRequest == [op |-> "none"]
Request == {NoRequest}
  \cup [op : {"floor"}, by : User, whom : User, to : Role]
  \cup [op : {"actor"}, by : User, whom : User, to : Role, actor : Role]
  \cup [op : {"open"}, by : User, whom : User, to : Role, actor : Role]

TypeOK ==
  /\ users \subseteq User
  /\ founded \in BOOLEAN
  /\ role \in [User -> Role \cup {"none"}]
  /\ \A u \in User : role[u] # "none" => u \in users /\ founded
  /\ req \in [Client -> Request]
  /\ fresh \subseteq {c \in Client : req[c].op = "open"}
  /\ drifted \in BOOLEAN

Init ==
  /\ users = {} /\ founded = FALSE
  /\ role = [u \in User |-> "none"]
  /\ req = [c \in Client |-> NoRequest]
  /\ fresh = {} /\ drifted = FALSE
-----------------------------------------------------------------------------
\* The lock row is written before the users are counted, so two first users cannot be.
Bootstrap(u) ==
  /\ users = {}
  /\ users' = {u}
  /\ fresh' = {}
  /\ UNCHANGED <<founded, role, req, drifted>>

CreateProject(u) ==
  /\ u \in users /\ ~founded
  /\ founded' = TRUE
  /\ role' = [role EXCEPT ![u] = "owner"]
  /\ fresh' = {}
  /\ UNCHANGED <<users, req, drifted>>

\* create_member begins: require_project_role(.., ProjectRole::Admin).
CheckFloor(c, u, w, r) ==
  /\ req[c] = NoRequest
  /\ Manages(role[u])
  /\ req' = [req EXCEPT ![c] = [op |-> "floor", by |-> u, whom |-> w, to |-> r]]
  /\ UNCHANGED <<users, founded, role, fresh, drifted>>

\* The second read of the actor's role; only owners assign owners and admins.
ReadActor(c) ==
  LET r == req[c]  actor == role[r.by]
  IN /\ r.op = "floor"
     /\ actor = "owner" \/ ~Manages(r.to)
     /\ req' = [req EXCEPT ![c] =
          [op |-> "actor", by |-> r.by, whom |-> r.whom, to |-> r.to, actor |-> actor]]
     /\ UNCHANGED <<users, founded, role, fresh, drifted>>

\* Mutated form: nothing keeps owners from demoting themselves.
OpenGrantSelf(c) ==
  LET r == req[c]
  IN /\ r.op = "actor"
     /\ r.actor = "owner" \/ ~Manages(role[r.whom])
     /\ req' = [req EXCEPT ![c].op = "open"]
     /\ fresh' = fresh \cup {c}
     /\ UNCHANGED <<users, founded, role, drifted>>

\* The transaction reads the target: only owners modify owners and admins, and
\* nobody demotes themselves.
OpenGrant(c) ==
  LET r == req[c]
  IN /\ r.op = "actor"
     /\ r.actor = "owner" \/ ~Manages(role[r.whom])
     /\ r.whom = r.by => r.to = "owner"
     /\ req' = [req EXCEPT ![c].op = "open"]
     /\ fresh' = fresh \cup {c}
     /\ UNCHANGED <<users, founded, role, drifted>>

\* Mutated form: the target was read outside the transaction.
WriteGrantStale(c) ==
  LET r == req[c]
  IN /\ r.op = "open"
     /\ users' = users \cup {r.whom}
     /\ role' = [role EXCEPT ![r.whom] = r.to]
     /\ drifted' = (drifted \/ role[r.by] # r.actor)
     /\ req' = [req EXCEPT ![c] = NoRequest] /\ fresh' = {}
     /\ UNCHANGED founded

\* The account, if it is new, and the membership are written and committed.
WriteGrant(c) ==
  LET r == req[c]
  IN /\ r.op = "open" /\ c \in fresh
     /\ users' = users \cup {r.whom}
     /\ role' = [role EXCEPT ![r.whom] = r.to]
     /\ drifted' = (drifted \/ role[r.by] # r.actor)
     /\ req' = [req EXCEPT ![c] = NoRequest] /\ fresh' = {}
     /\ UNCHANGED founded

\* Refused (400, 403), failed (an old snapshot, a database error) or gone.
Abandon(c) ==
  /\ req[c] # NoRequest
  /\ req' = [req EXCEPT ![c] = NoRequest]
  /\ fresh' = fresh \ {c}
  /\ UNCHANGED <<users, founded, role, drifted>>

\* Any other handler or the worker commits; create_member of another project may
\* add an account.
OtherCommit ==
  /\ users # {}
  /\ \E new \in SUBSET User : users' = users \cup new
  /\ fresh' = {}
  /\ UNCHANGED <<founded, role, req, drifted>>

Next ==
  \/ \E u \in User : Bootstrap(u) \/ CreateProject(u)
  \/ \E c \in Client :
       \/ \E u, w \in User, r \in Role : CheckFloor(c, u, w, r)
       \/ ReadActor(c) \/ OpenGrant(c) \/ WriteGrant(c) \/ Abandon(c)
  \/ OtherCommit

Spec == Init /\ [][Next]_vars
-----------------------------------------------------------------------------
(* Properties. *)

\* A change of the roles by the member request that ends in this step.
Grants(c) == req[c].op = "open" /\ req'[c] = NoRequest /\ role' # role

Elevated(c) == Manages(role[req[c].whom]) \/ Manages(req[c].to)

\* A project has an owner as long as no change was committed for an actor whose role
\* had changed meanwhile: refusing self-demotion is enough for that (create_member).
OwnerRemains == founded /\ ~drifted => \E u \in User : role[u] = "owner"

\* Whoever create_member read as less than an owner changes no owner or admin, even
\* one who was promoted while the request was on its way (the target's role is read
\* under the snapshot the change is committed on).
PeersAreSafe == [][\A c \in Client : Grants(c) /\ Elevated(c) => req[c].actor = "owner"]_vars

\* docs/IMPLEMENTATION.md: "only owners can assign or modify owner/admin-level
\* membership".
OnlyOwnersManageOwners ==
  [][\A c \in Client : Grants(c) /\ Elevated(c) => role[req[c].by] = "owner"]_vars

\* The inductive part: what an open request was granted on still holds.
Standing ==
  /\ \A c \in Client : req[c].op \in {"actor", "open"} => req[c].actor = "owner" \/ ~Manages(req[c].to)
  /\ \A c \in Client : req[c].op = "open" /\ req[c].whom = req[c].by => req[c].to = "owner"
  /\ \A c \in fresh : req[c].actor = "owner" \/ ~Manages(role[req[c].whom])
  /\ \A c \in Client : req[c].op # "none" => founded /\ role[req[c].by] # "none"
=============================================================================
