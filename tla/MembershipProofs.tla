--------------------------- MODULE MembershipProofs ---------------------------
(* Proofs about Membership, for any number of accounts and requests.            *)
EXTENDS Membership, TLAPS

LEMMA StepCases ==
  [Next]_vars =>
    \/ \E u \in User : Bootstrap(u) \/ CreateProject(u)
    \/ \E c \in Client :
         \/ \E u, w \in User, r \in Role : CheckFloor(c, u, w, r)
         \/ ReadActor(c) \/ OpenGrant(c) \/ WriteGrant(c) \/ Abandon(c)
    \/ OtherCommit
    \/ UNCHANGED vars
  BY DEF Next

\* What the fields of a request are, by how far it is.
LEMMA RequestFields ==
  ASSUME NEW r \in Request
  PROVE  /\ r.op \in {"none", "floor", "actor", "open"}
         /\ r.op # "none" => r.by \in User /\ r.whom \in User /\ r.to \in Role
         /\ r.op \in {"actor", "open"} => r.actor \in Role
         /\ r = NoRequest <=> r.op = "none"
  BY DEF Request, NoRequest

LEMMA NoRequestType == NoRequest \in Request /\ NoRequest.op = "none"
  BY DEF Request, NoRequest

\* Only owners and admins manage a project.
LEMMA Managers ==
  /\ \A r \in Role : Manages(r) <=> r \in {"admin", "owner"}
  /\ ~Manages("none")
  BY DEF Role, Manages, Rank

\* What a request has read, and what it was let through on.
Inv == TypeOK /\ Standing

-----------------------------------------------------------------------------
LEMMA Initially == Init => Inv
  BY NoRequestType, RequestFields DEF Init, Inv, TypeOK, Standing

LEMMA BootstrapStep ==
  ASSUME Inv, NEW u \in User, Bootstrap(u)
  PROVE  Inv'
  BY DEF Inv, TypeOK, Standing, Bootstrap

LEMMA CreateProjectStep ==
  ASSUME Inv, NEW u \in User, CreateProject(u)
  PROVE  Inv'
<1>1. TypeOK'
  <2>1. "owner" \in Role
    BY DEF Role
  <2>2. QED
    BY <2>1 DEF Inv, TypeOK, CreateProject
<1>2. Standing'
  BY DEF Inv, TypeOK, Standing, CreateProject
<1>3. QED
  BY <1>1, <1>2 DEF Inv

LEMMA CheckFloorStep ==
  ASSUME Inv, NEW c \in Client, NEW u \in User, NEW w \in User, NEW r \in Role,
         CheckFloor(c, u, w, r)
  PROVE  Inv'
<1> DEFINE new == [op |-> "floor", by |-> u, whom |-> w, to |-> r]
<1>1. new \in Request /\ new.op = "floor"
  BY DEF Request
<1>2. /\ req' = [req EXCEPT ![c] = new]
      /\ req[c].op = "none"
  BY NoRequestType DEF CheckFloor
<1>3. UNCHANGED <<users, founded, role, fresh, drifted>>
  BY DEF CheckFloor
<1>4. req \in [Client -> Request] /\ c \notin fresh
  BY <1>2 DEF Inv, TypeOK
<1>5. /\ req' \in [Client -> Request]
      /\ req'[c] = new
      /\ \A d \in Client \ {c} : req'[d] = req[d]
  BY <1>1, <1>2, <1>4
<1>0. role[u] # "none"
  BY Managers DEF CheckFloor
<1>6. founded
  BY <1>0 DEF Inv, TypeOK
<1>7. TypeOK'
  BY <1>3, <1>4, <1>5 DEF Inv, TypeOK
<1>8. Standing'
  BY <1>1, <1>3, <1>4, <1>5, <1>6, <1>0 DEF Inv, TypeOK, Standing
<1>9. QED
  BY <1>7, <1>8 DEF Inv

LEMMA ReadActorStep ==
  ASSUME Inv, NEW c \in Client, ReadActor(c)
  PROVE  Inv'
<1> DEFINE r == req[c]
           new == [op |-> "actor", by |-> r.by, whom |-> r.whom, to |-> r.to,
                   actor |-> role[r.by]]
<1>1. /\ r \in Request /\ r.op = "floor"
      /\ r.by \in User /\ r.whom \in User /\ r.to \in Role
  BY RequestFields DEF Inv, TypeOK, ReadActor
<1>2. /\ role[r.by] = "owner" \/ ~Manages(r.to)
      /\ req' = [req EXCEPT ![c] = new]
      /\ UNCHANGED <<users, founded, role, fresh, drifted>>
  BY DEF ReadActor
<1>3. role[r.by] \in Role
  BY <1>1 DEF Inv, TypeOK, Standing
<1>4. new \in Request
  BY <1>1, <1>3 DEF Request
<1>5. req \in [Client -> Request] /\ c \notin fresh
  BY <1>1 DEF Inv, TypeOK
<1>6. /\ req' \in [Client -> Request]
      /\ req'[c] = new
      /\ \A d \in Client \ {c} : req'[d] = req[d]
  BY <1>2, <1>4, <1>5
<1>7. TypeOK'
  BY <1>2, <1>5, <1>6 DEF Inv, TypeOK
<1>8. Standing'
  BY <1>1, <1>2, <1>5, <1>6 DEF Inv, TypeOK, Standing
<1>9. QED
  BY <1>7, <1>8 DEF Inv

LEMMA OpenGrantStep ==
  ASSUME Inv, NEW c \in Client, OpenGrant(c)
  PROVE  Inv'
<1> DEFINE r == req[c]
           new == [op |-> "open", by |-> r.by, whom |-> r.whom, to |-> r.to,
                   actor |-> r.actor]
<1>1. /\ r \in Request /\ r.op = "actor"
      /\ r.by \in User /\ r.whom \in User /\ r.to \in Role /\ r.actor \in Role
  BY RequestFields DEF Inv, TypeOK, OpenGrant
<1>2. r \in [op : {"actor"}, by : User, whom : User, to : Role, actor : Role]
  BY <1>1 DEF Request, NoRequest
<1>3. [r EXCEPT !.op = "open"] = new
  BY <1>2
<1>4. /\ r.actor = "owner" \/ ~Manages(role[r.whom])
      /\ r.whom = r.by => r.to = "owner"
      /\ req' = [req EXCEPT ![c] = [r EXCEPT !.op = "open"]]
      /\ fresh' = fresh \cup {c}
      /\ UNCHANGED <<users, founded, role, drifted>>
  BY DEF OpenGrant
<1>5. new \in Request
  BY <1>1 DEF Request
<1>6. req \in [Client -> Request] /\ fresh \subseteq {d \in Client : req[d].op = "open"}
  BY DEF Inv, TypeOK
<1>7. /\ req' \in [Client -> Request]
      /\ req'[c] = new
      /\ \A d \in Client \ {c} : req'[d] = req[d]
  BY <1>3, <1>4, <1>5, <1>6
<1>8. TypeOK'
  BY <1>4, <1>6, <1>7 DEF Inv, TypeOK
<1>9. Standing'
  <2>1. role[r.by] # "none" /\ founded /\ (r.actor = "owner" \/ ~Manages(r.to))
    BY <1>1 DEF Inv, Standing
  <2>2. \A d \in Client : req'[d].op \in {"actor", "open"} =>
          req'[d].actor = "owner" \/ ~Manages(req'[d].to)
    BY <1>7, <2>1 DEF Inv, Standing
  <2>3. \A d \in Client : req'[d].op = "open" /\ req'[d].whom = req'[d].by =>
          req'[d].to = "owner"
    BY <1>4, <1>7 DEF Inv, Standing
  <2>4. \A d \in fresh' : req'[d].actor = "owner" \/ ~Manages(role'[req'[d].whom])
    BY <1>4, <1>6, <1>7 DEF Inv, Standing
  <2>5. \A d \in Client : req'[d].op # "none" => founded' /\ role'[req'[d].by] # "none"
    BY <1>4, <1>7, <2>1 DEF Inv, Standing
  <2>6. QED
    BY <2>2, <2>3, <2>4, <2>5 DEF Standing, Manages, Rank
<1>10. QED
  BY <1>8, <1>9 DEF Inv

\* What a committed change has: the facts the properties rest on.
LEMMA WriteGrantFacts ==
  ASSUME Inv, NEW c \in Client, WriteGrant(c)
  PROVE  /\ req[c].op = "open" /\ c \in fresh /\ founded
         /\ req[c].by \in User /\ req[c].whom \in User
         /\ req[c].to \in Role /\ req[c].actor \in Role
         /\ req[c].actor = "owner" \/ (~Manages(role[req[c].whom]) /\ ~Manages(req[c].to))
         /\ req[c].whom = req[c].by => req[c].to = "owner"
         /\ users' = users \cup {req[c].whom}
         /\ role' = [role EXCEPT ![req[c].whom] = req[c].to]
         /\ drifted' = (drifted \/ role[req[c].by] # req[c].actor)
         /\ req' = [req EXCEPT ![c] = NoRequest] /\ fresh' = {} /\ founded' = founded
<1>1. req[c] \in Request /\ req[c].op = "open" /\ c \in fresh
  BY DEF Inv, TypeOK, WriteGrant
<1>2. /\ req[c].by \in User /\ req[c].whom \in User
      /\ req[c].to \in Role /\ req[c].actor \in Role
  BY <1>1, RequestFields
<1>3. /\ founded
      /\ req[c].actor = "owner" \/ (~Manages(role[req[c].whom]) /\ ~Manages(req[c].to))
      /\ req[c].whom = req[c].by => req[c].to = "owner"
  BY <1>1 DEF Inv, Standing
<1>4. QED
  BY <1>1, <1>2, <1>3 DEF WriteGrant

LEMMA WriteGrantStep ==
  ASSUME Inv, NEW c \in Client, WriteGrant(c)
  PROVE  Inv'
<1> DEFINE w == req[c].whom
           to == req[c].to
<1>1. /\ founded /\ w \in User /\ to \in Role /\ to # "none"
      /\ users' = users \cup {w}
      /\ role' = [role EXCEPT ![w] = to]
      /\ drifted' = (drifted \/ role[req[c].by] # req[c].actor)
      /\ req' = [req EXCEPT ![c] = NoRequest] /\ fresh' = {} /\ founded' = founded
  BY WriteGrantFacts DEF Role
<1>2. /\ req \in [Client -> Request] /\ role \in [User -> Role \cup {"none"}]
      /\ users \subseteq User /\ drifted \in BOOLEAN /\ founded \in BOOLEAN
      /\ \A u \in User : role[u] # "none" => u \in users
  BY DEF Inv, TypeOK
<1>3. /\ req' \in [Client -> Request]
      /\ req'[c] = NoRequest
      /\ \A d \in Client \ {c} : req'[d] = req[d]
  BY <1>1, <1>2, NoRequestType
<1>4. /\ role' \in [User -> Role \cup {"none"}]
      /\ role'[w] = to
      /\ \A u \in User \ {w} : role'[u] = role[u]
  BY <1>1, <1>2
<1>5. drifted' \in BOOLEAN
  BY <1>1, <1>2, Zenon
<1>6. TypeOK'
  BY <1>1, <1>2, <1>3, <1>4, <1>5 DEF TypeOK
<1>7. \A d \in Client : req'[d].op # "none" =>
        /\ req'[d] = req[d] /\ req[d].by \in User /\ role'[req[d].by] # "none"
  <2> SUFFICES ASSUME NEW d \in Client, req'[d].op # "none"
               PROVE  /\ req'[d] = req[d] /\ req[d].by \in User
                      /\ role'[req[d].by] # "none"
    OBVIOUS
  <2>1. req'[d] = req[d] /\ req[d] \in Request
    BY <1>2, <1>3, NoRequestType
  <2>2. req[d].by \in User /\ role[req[d].by] # "none"
    BY <2>1, RequestFields DEF Inv, Standing
  <2>3. QED
    BY <2>1, <2>2, <1>1, <1>4
<1>8. Standing'
  <2>1. \A d \in Client : req'[d].op \in {"actor", "open"} =>
          req'[d].actor = "owner" \/ ~Manages(req'[d].to)
    BY <1>7 DEF Inv, Standing
  <2>2. \A d \in Client : req'[d].op = "open" /\ req'[d].whom = req'[d].by =>
          req'[d].to = "owner"
    BY <1>7 DEF Inv, Standing
  <2>3. \A d \in Client : req'[d].op # "none" => founded' /\ role'[req'[d].by] # "none"
    BY <1>1, <1>7
  <2>4. QED
    BY <2>1, <2>2, <2>3, <1>1 DEF Standing, Manages, Rank
<1>9. QED
  BY <1>6, <1>8 DEF Inv

LEMMA AbandonStep ==
  ASSUME Inv, NEW c \in Client, Abandon(c)
  PROVE  Inv'
<1>1. /\ req' = [req EXCEPT ![c] = NoRequest] /\ fresh' = fresh \ {c}
      /\ UNCHANGED <<users, founded, role, drifted>>
  BY DEF Abandon
<1>2. /\ req' \in [Client -> Request]
      /\ req'[c] = NoRequest
      /\ \A d \in Client \ {c} : req'[d] = req[d]
  BY <1>1, NoRequestType DEF Inv, TypeOK
<1>3. TypeOK'
  BY <1>1, <1>2 DEF Inv, TypeOK
<1>4. Standing'
  BY <1>1, <1>2, NoRequestType DEF Inv, TypeOK, Standing
<1>5. QED
  BY <1>3, <1>4 DEF Inv

LEMMA OtherCommitStep ==
  ASSUME Inv, OtherCommit
  PROVE  Inv'
<1>1. /\ \E new \in SUBSET User : users' = users \cup new
      /\ fresh' = {} /\ UNCHANGED <<founded, role, req, drifted>>
  BY DEF OtherCommit
<1>2. TypeOK'
  BY <1>1 DEF Inv, TypeOK
<1>3. Standing'
  BY <1>1 DEF Inv, Standing
<1>4. QED
  BY <1>2, <1>3 DEF Inv

LEMMA Inductive == Inv /\ [Next]_vars => Inv'
<1> SUFFICES ASSUME Inv, [Next]_vars PROVE Inv'
  OBVIOUS
<1>1. CASE UNCHANGED vars
  BY <1>1 DEF Inv, TypeOK, Standing, vars
<1>2. QED
  BY <1>1, StepCases, BootstrapStep, CreateProjectStep, CheckFloorStep, ReadActorStep,
     OpenGrantStep, WriteGrantStep, AbandonStep, OtherCommitStep

-----------------------------------------------------------------------------
\* bootstrap, create_project and create_member keep accounts, roles and requests well
\* formed: whoever has a role has an account and a project.
THEOREM MembershipTypeOK == Spec => []TypeOK
<1>1. Inv => TypeOK
  BY DEF Inv
<1>2. QED
  BY <1>1, Initially, Inductive, PTL DEF Spec

\* What create_member let a request through on still holds while the snapshot of its
\* transaction is the latest.
THEOREM MembershipStanding == Spec => []Inv
<1>1. QED
  BY Initially, Inductive, PTL DEF Spec

\* An owner is lost only through a change whose actor lost the role create_member had read.
LEMMA OwnerStep == Inv /\ OwnerRemains /\ [Next]_vars => OwnerRemains'
<1> SUFFICES ASSUME Inv, OwnerRemains, [Next]_vars, founded', ~drifted'
             PROVE  \E u \in User : role'[u] = "owner"
  BY DEF OwnerRemains
<1>1. role \in [User -> Role \cup {"none"}]
  BY DEF Inv, TypeOK
<1>2. ASSUME UNCHANGED <<founded, role, drifted>>
      PROVE  \E u \in User : role'[u] = "owner"
  BY <1>2 DEF OwnerRemains
<1>3. ASSUME NEW u \in User, CreateProject(u)
      PROVE  \E v \in User : role'[v] = "owner"
  <2>1. role'[u] = "owner"
    BY <1>1, <1>3 DEF CreateProject
  <2>2. QED
    BY <2>1
<1>4. ASSUME NEW c \in Client, WriteGrant(c)
      PROVE  \E v \in User : role'[v] = "owner"
  <2> DEFINE r == req[c]
  <2>1. /\ founded /\ r.by \in User /\ r.whom \in User
        /\ r.actor = "owner" \/ ~Manages(role[r.whom])
        /\ r.whom = r.by => r.to = "owner"
        /\ role' = [role EXCEPT ![r.whom] = r.to]
        /\ drifted' = (drifted \/ role[r.by] # r.actor)
    BY <1>4, WriteGrantFacts
  <2>2. ~drifted /\ role[r.by] = r.actor
    BY <2>1, Zenon
  <2>3. PICK u \in User : role[u] = "owner"
    BY <2>1, <2>2 DEF OwnerRemains
  <2>4. role'[r.whom] = r.to /\ \A v \in User \ {r.whom} : role'[v] = role[v]
    BY <1>1, <2>1
  <2>5. CASE u # r.whom
    BY <2>3, <2>4, <2>5
  <2>6. CASE u = r.whom
    <3>1. role[r.by] = "owner"
      BY <2>1, <2>2, <2>3, <2>6, Managers DEF Role
    <3>2. CASE r.whom = r.by
      BY <2>1, <2>4, <3>2
    <3>3. CASE r.whom # r.by
      BY <2>1, <2>4, <3>1, <3>3
    <3>4. QED
      BY <3>2, <3>3
  <2>7. QED
    BY <2>5, <2>6
<1>5. CASE \/ UNCHANGED vars \/ OtherCommit
           \/ \E u \in User : Bootstrap(u)
           \/ \E c \in Client :
                \/ \E u, w \in User, r \in Role : CheckFloor(c, u, w, r)
                \/ ReadActor(c) \/ OpenGrant(c) \/ Abandon(c)
  <2>1. UNCHANGED <<founded, role, drifted>>
    BY <1>5 DEF vars, OtherCommit, Bootstrap, CheckFloor, ReadActor, OpenGrant, Abandon
  <2>2. QED
    BY <1>2, <2>1
<1>6. QED
  BY <1>3, <1>4, <1>5, StepCases

\* Refusing self-demotion keeps an owner, as long as no actor's role changes under a
\* request of create_member.
THEOREM MembershipOwner == Spec => []OwnerRemains
<1>1. Init => OwnerRemains
  BY DEF Init, OwnerRemains
<1>2. QED
  BY <1>1, OwnerStep, MembershipStanding, PTL DEF Spec

\* Whoever create_member read as less than an owner changes no owner or admin.
THEOREM MembershipPeers == Spec => PeersAreSafe
<1> DEFINE Safe == \A c \in Client : Grants(c) /\ Elevated(c) => req[c].actor = "owner"
<1>1. ASSUME Inv, [Next]_vars PROVE [Safe]_vars
  <2> SUFFICES ASSUME NEW c \in Client, Grants(c), Elevated(c) PROVE req[c].actor = "owner"
    OBVIOUS
  <2>1. /\ req[c].op = "open" /\ req'[c] = NoRequest /\ role' # role
        /\ Manages(role[req[c].whom]) \/ Manages(req[c].to)
    BY DEF Grants, Elevated
  <2>2. req \in [Client -> Request] /\ NoRequest.op = "none"
    BY <1>1, NoRequestType DEF Inv, TypeOK
  <2>3. WriteGrant(c)
    <3>1. ASSUME NEW d \in Client, WriteGrant(d) PROVE d = c
      <4>1. req' = [req EXCEPT ![d] = NoRequest]
        BY <3>1 DEF WriteGrant
      <4>2. QED
        BY <4>1, <2>1, <2>2
    <3>2. ASSUME NEW u \in User, CreateProject(u) PROVE FALSE
      BY <3>2, <2>1, <2>2 DEF CreateProject
    <3>3. \/ \E d \in Client : WriteGrant(d)
          \/ \E u \in User : CreateProject(u)
      BY <2>1, StepCases, <1>1
        DEF vars, OtherCommit, Bootstrap, CheckFloor, ReadActor, OpenGrant, Abandon
    <3>4. QED
      BY <3>1, <3>2, <3>3
  <2>4. QED
    BY <1>1, <2>1, <2>3, WriteGrantFacts
<1>2. QED
  BY <1>1, MembershipStanding, PTL DEF Spec, PeersAreSafe
=============================================================================
