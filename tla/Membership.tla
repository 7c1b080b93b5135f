----------------------------- MODULE Membership -----------------------------
(***************************************************************************)
(* The members of one organization: its registration and the invitations   *)
(* to it (api/v1/auth.py), its administration (api/v1/organizations.py)    *)
(* and the role check in front of both (core/dependencies.py).             *)
(*                                                                         *)
(* A request reads the membership of its user, then the one it is about,   *)
(* and commits.  Between these steps other requests commit theirs.  A row  *)
(* that a session has loaded is not read a second time.                    *)
(***************************************************************************)
EXTENDS Naturals

CONSTANTS
  Users,           \* e-mail addresses
  Founder,         \* the one that registered the organization
  PlatformAdmins,  \* is_platform_admin: set by no API
  Invites,         \* invitations
  Requests         \* requests that may overlap

ASSUME FounderAssumption == Founder \in Users
ASSUME PlatformAssumption == PlatformAdmins \subseteq Users

VARIABLES
  account,  \* the e-mail addresses with a users row
  member,   \* member[u]: the organization_memberships row
  invite,   \* invite[i]: the invitations row
  req       \* req[r]: what request r has loaded

vars == <<account, member, invite, req>>

-----------------------------------------------------------------------------
\* Any string can be stored.  "operator", like a string nobody defined, is no
\* more to this module than "viewer", and "platform_admin" no more than "admin".
Roles == {"owner", "admin", "viewer"}
Row == [role : Roles, active : BOOLEAN]
NoRow == [role |-> "none", active |-> FALSE]

NoInvite == [state |-> "absent"]
Invitation ==
  [state : {"pending", "expired", "accepted"}, user : Users, role : Roles]

Idle == [phase |-> "idle"]
Administration ==
  [phase : {"authorized"}, actor : Users, own : Row \cup {NoRow}]
    \cup [phase : {"loaded"}, actor : Users, target : Users, copy : Row]
Acceptance ==
  [phase : {"invited"}, inv : Invites, new : BOOLEAN]
    \cup [phase : {"joining"}, inv : Invites, new : BOOLEAN, found : BOOLEAN]

TypeOK ==
  /\ account \subseteq Users
  /\ member \in [Users -> Row \cup {NoRow}]
  /\ \A u \in Users : member[u] # NoRow => u \in account
  /\ invite \in [Invites -> Invitation \cup {NoInvite}]
  /\ req \in [Requests -> Administration \cup Acceptance \cup {Idle}]

Init ==
  /\ account = {Founder} \cup PlatformAdmins
  /\ member = [u \in Users |-> IF u = Founder
                                 THEN [role |-> "owner", active |-> TRUE]
                                 ELSE NoRow]
  /\ invite = [i \in Invites |-> NoInvite]
  /\ req = [r \in Requests |-> Idle]

-----------------------------------------------------------------------------
\* register: an account, and an organization of its own that is not this one.
Register(u) ==
  /\ u \notin account
  /\ account' = account \cup {u}
  /\ UNCHANGED <<member, invite, req>>

\* Seven days.
Expire(i) ==
  /\ invite[i] # NoInvite /\ invite[i].state = "pending"
  /\ invite' = [invite EXCEPT
                  ![i] = [state |-> "expired", user |-> invite[i].user,
                          role |-> invite[i].role]]
  /\ UNCHANGED <<account, member, req>>

Done(r) == req' = [req EXCEPT ![r] = Idle]

\* An error of the request, a refusal included.
Abort(r) ==
  /\ req[r] # Idle
  /\ Done(r)
  /\ UNCHANGED <<account, member, invite>>

-----------------------------------------------------------------------------
(* require_org_role("admin").  A platform admin's membership is not read.  *)

IsAdmin(row) == row.active /\ row.role \in {"owner", "admin"}

Authorize(r, u) ==
  /\ req[r] = Idle /\ u \in account
  /\ u \in PlatformAdmins \/ IsAdmin(member[u])
  /\ req' = [req EXCEPT
               ![r] = [phase |-> "authorized", actor |-> u,
                       own |-> IF u \in PlatformAdmins THEN NoRow ELSE member[u]]]
  /\ UNCHANGED <<account, member, invite>>

InviteUser(r, i, u, role) ==
  /\ req[r].phase = "authorized" /\ invite[i] = NoInvite
  /\ invite' = [invite EXCEPT
                  ![i] = [state |-> "pending", user |-> u, role |-> role]]
  /\ Done(r)
  /\ UNCHANGED <<account, member>>

\* The row as the session has it, if it is the one it was authorized by.
Copy(r, u) ==
  IF u = req[r].actor /\ req[r].own # NoRow THEN req[r].own ELSE member[u]

LoadedFrom(r, u, row) ==
  /\ req[r].phase = "authorized"
  /\ req' = [req EXCEPT ![r] = [phase |-> "loaded", actor |-> req[r].actor,
                                target |-> u, copy |-> row]]
  /\ UNCHANGED <<account, member, invite>>

\* Deviation: a membership that is missing is taken for a viewer's.
LoadTargetOrViewer(r, u) ==
  /\ req[r].phase = "authorized"
  /\ LoadedFrom(r, u, IF Copy(r, u) = NoRow
                        THEN [role |-> "viewer", active |-> TRUE]
                        ELSE Copy(r, u))

LoadTarget(r, u) ==
  /\ req[r].phase = "authorized"
  /\ Copy(r, u) # NoRow
  /\ LoadedFrom(r, u, Copy(r, u))

\* The UPDATE holds is_active if the loaded row was active.
SetInactive(r) ==
  /\ member' = [member EXCEPT
                  ![req[r].target] =
                    [role |-> member[req[r].target].role,
                     active |-> IF req[r].copy.active THEN FALSE
                                ELSE member[req[r].target].active]]
  /\ Done(r)
  /\ UNCHANGED <<account, invite>>

\* Deviation: owners are not spared.
RemoveAnyMember(r) ==
  /\ req[r].phase = "loaded" /\ req[r].target # req[r].actor
  /\ SetInactive(r)

RemoveMember(r) ==
  /\ req[r].phase = "loaded"
  /\ req[r].target # req[r].actor
  /\ req[r].copy.role # "owner"
  /\ SetInactive(r)

\* The UPDATE holds role if the loaded role is another.
UpdateMemberRole(r, role) ==
  /\ req[r].phase = "loaded"
  /\ req[r].copy.role = "owner" => role = "owner"
  /\ member' = [member EXCEPT
                  ![req[r].target] =
                    [role |-> IF role = req[r].copy.role
                                THEN member[req[r].target].role ELSE role,
                     active |-> member[req[r].target].active]]
  /\ Done(r)
  /\ UNCHANGED <<account, invite>>

-----------------------------------------------------------------------------
(* accept_invitation.                                                      *)

LoadInvite(r, i) ==
  /\ req[r] = Idle
  /\ invite[i] # NoInvite /\ invite[i].state = "pending"
  /\ req' = [req EXCEPT ![r] = [phase |-> "invited", inv |-> i,
                                new |-> invite[i].user \notin account]]
  /\ UNCHANGED <<account, member, invite>>

\* A user that this request has just created is a member of nothing.
LoadMembership(r) ==
  /\ req[r].phase = "invited"
  /\ req' = [req EXCEPT
               ![r] = [phase |-> "joining", inv |-> req[r].inv, new |-> req[r].new,
                       found |-> /\ ~req[r].new
                                 /\ member[invite[req[r].inv].user] # NoRow]]
  /\ UNCHANGED <<account, member, invite>>

\* The constraints on users.email and on (organization_id, user_id).
Unique(r) ==
  LET u == invite[req[r].inv].user IN
    /\ req[r].new => u \notin account
    /\ req[r].found \/ member[u] = NoRow

JoinOf(r) ==
  LET i == req[r].inv
      u == invite[i].user IN
    /\ account' = account \cup {u}
    /\ member' = IF req[r].found THEN member
                 ELSE [member EXCEPT ![u] = [role |-> invite[i].role,
                                             active |-> TRUE]]
    /\ invite' = [invite EXCEPT ![i] = [state |-> "accepted", user |-> u,
                                        role |-> invite[i].role]]
    /\ Done(r)

\* Deviation: the row of another request is overwritten.
JoinBlindly(r) == req[r].phase = "joining" /\ JoinOf(r)

\* A membership that is there is left as it is, also an inactive one.
Join(r) ==
  /\ req[r].phase = "joining"
  /\ Unique(r)
  /\ JoinOf(r)

-----------------------------------------------------------------------------
Next ==
  \/ \E u \in Users : Register(u)
  \/ \E i \in Invites : Expire(i)
  \/ \E r \in Requests :
       \/ Abort(r)
       \/ \E u \in Users :
            \/ Authorize(r, u) \/ LoadTarget(r, u)
            \/ \E i \in Invites, role \in Roles : InviteUser(r, i, u, role)
       \/ RemoveMember(r)
       \/ \E role \in Roles : UpdateMemberRole(r, role)
       \/ \E i \in Invites : LoadInvite(r, i)
       \/ LoadMembership(r) \/ Join(r)

Spec == Init /\ [][Next]_vars

-----------------------------------------------------------------------------
(* The organization never loses the owner that registered it, whoever      *)
(* administers it and however requests overlap: someone can always mend it. *)
FounderStays ==
  member[Founder] = [role |-> "owner", active |-> TRUE]

(* Who was removed stays removed, whatever invitations were accepted, and  *)
(* however acceptances overlap with the removal.                           *)
RemovedStaysOut ==
  [][\A u \in Users :
       member[u] # NoRow /\ ~member[u].active => ~member'[u].active]_vars
=============================================================================
