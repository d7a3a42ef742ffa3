------------------------------- MODULE MCTeam --------------------------------
(* A small instance of Comments and of Membership for TLC, as two families of      *)
(* behaviours: either requests about comments race each other while GrantRole and  *)
(* OtherCommit stand for everything else the server commits, or the requests are   *)
(* create_member's.  Comments allows any change of a role already, so what its     *)
(* properties say needs none of the ways by which a role came to be.                *)
EXTENDS Comments, TLC

CONSTANTS u1, u2, a1, a2, a3, c1, c2,
          Account  \* the users of the other family, more than comments need

VARIABLES family, users, founded, standing, grant, latest, drifted

memberVars == <<users, founded, standing, grant, latest, drifted>>

Members == INSTANCE Membership WITH
  User <- Account, role <- standing, req <- grant, fresh <- latest

Symmetry ==
  Permutations({u1, u2}) \cup Permutations({a1, a2, a3}) \cup Permutations({c1, c2})

TeamInit ==
  /\ Init /\ Members!Init /\ family \in {"members", "comments"}
  /\ family = "members" => role = [u \in User |-> "none"]

TeamNext ==
  \/ family = "comments" /\ Next /\ UNCHANGED <<memberVars, family>>
  \/ family = "members" /\ Members!Next /\ UNCHANGED <<vars, family>>

TeamSpec == TeamInit /\ [][TeamNext]_<<vars, memberVars, family>>
-----------------------------------------------------------------------------
(* The properties of Membership. *)

\* However grants and self-demotions interleave (create_member), an owner remains, unless an
\* actor's role had changed under the request.
OwnerRemains == Members!OwnerRemains

\* An admin changes no owner or admin, one promoted meanwhile included (create_member).
PeersAreSafe == Members!PeersAreSafe
==============================================================================
