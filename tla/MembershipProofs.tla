-------------------------- MODULE MembershipProofs --------------------------
(***************************************************************************)
(* Proofs about Membership, for any users, invitations and overlapping     *)
(* requests.  The founder keeps the organization because no copy of the    *)
(* founder's row that a request holds says anything but "active owner",    *)
(* and no acceptance takes the founder for someone new.                    *)
(***************************************************************************)
EXTENDS Membership, TLAPS

OwnerRow == [role |-> "owner", active |-> TRUE]

\* Rows that requests hold are there: no membership or invitation is deleted.
RowsExist ==
  \A r \in Requests :
    /\ req[r].phase = "authorized" /\ req[r].own # NoRow
         => member[req[r].actor] # NoRow
    /\ req[r].phase = "loaded" => member[req[r].target] # NoRow
    /\ req[r].phase \in {"invited", "joining"} => invite[req[r].inv] # NoInvite

TypeInv == TypeOK /\ RowsExist

\* What requests hold about the founder.
CopiesTrue ==
  \A r \in Requests :
    /\ req[r].phase = "authorized" /\ req[r].actor = Founder
         => req[r].own \in {NoRow, OwnerRow}
    /\ req[r].phase = "loaded" /\ req[r].target = Founder
         => req[r].copy = OwnerRow

\* What acceptances hold about the user that was invited.
AcceptancesTrue ==
  \A r \in Requests :
    /\ req[r].phase = "invited" /\ invite[req[r].inv].user = Founder
         => ~req[r].new
    /\ req[r].phase = "joining" /\ invite[req[r].inv].user = Founder
         => req[r].found

FounderInv ==
  /\ FounderStays
  /\ Founder \in account
  /\ CopiesTrue
  /\ AcceptancesTrue

-----------------------------------------------------------------------------
(* The fields of a request, by its phase. *)
LEMMA RequestFields ==
  ASSUME TypeOK, NEW r \in Requests
  PROVE  /\ req[r].phase = "authorized" =>
              req[r].actor \in Users /\ req[r].own \in Row \cup {NoRow}
         /\ req[r].phase = "loaded" =>
              /\ req[r].actor \in Users /\ req[r].target \in Users
              /\ req[r].copy \in Row
         /\ req[r].phase = "invited" =>
              req[r].inv \in Invites /\ req[r].new \in BOOLEAN
         /\ req[r].phase = "joining" =>
              /\ req[r].inv \in Invites /\ req[r].new \in BOOLEAN
              /\ req[r].found \in BOOLEAN
BY DEF TypeOK, Administration, Acceptance, Idle

(* An invitation that exists has its user and role. *)
LEMMA InvitationFields ==
  ASSUME TypeOK, NEW i \in Invites, invite[i] # NoInvite
  PROVE  invite[i].user \in Users /\ invite[i].role \in Roles
BY DEF TypeOK, Invitation

(* No membership has the role of a missing one. *)
LEMMA RowsAreNotMissing ==
  ASSUME NEW row \in Row
  PROVE  row # NoRow
BY DEF Row, NoRow, Roles

-----------------------------------------------------------------------------
(* TypeOK is kept by every action. *)
LEMMA TypeStep ==
  ASSUME TypeInv, [Next]_vars
  PROVE  TypeOK'
<1> USE FounderAssumption, PlatformAssumption DEF TypeInv
<1>1. CASE UNCHANGED vars
  BY <1>1 DEF vars, TypeOK
<1>2. ASSUME NEW u \in Users, Register(u)
      PROVE  TypeOK'
  BY <1>2 DEF Register, TypeOK
<1>3. ASSUME NEW i \in Invites, Expire(i)
      PROVE  TypeOK'
  BY <1>3 DEF Expire, TypeOK, Invitation
<1>4. ASSUME NEW r \in Requests, Abort(r)
      PROVE  TypeOK'
  BY <1>4 DEF Abort, Done, TypeOK
<1>5. ASSUME NEW r \in Requests, NEW u \in Users, Authorize(r, u)
      PROVE  TypeOK'
  <2>1. member[u] \in Row \cup {NoRow}
    BY DEF TypeOK
  <2>2. [phase |-> "authorized", actor |-> u,
         own |-> IF u \in PlatformAdmins THEN NoRow ELSE member[u]]
          \in Administration
    BY <2>1 DEF Administration
  <2> QED
    BY <1>5, <2>2 DEF Authorize, TypeOK
<1>6. ASSUME NEW r \in Requests, NEW u \in Users, LoadTarget(r, u)
      PROVE  TypeOK'
  <2>1. Copy(r, u) \in Row
    BY <1>6, RequestFields DEF LoadTarget, Copy, TypeOK
  <2>2. [phase |-> "loaded", actor |-> req[r].actor, target |-> u,
         copy |-> Copy(r, u)] \in Administration
    BY <1>6, <2>1, RequestFields DEF LoadTarget, Administration
  <2> QED
    BY <1>6, <2>2 DEF LoadTarget, LoadedFrom, TypeOK
<1>7. ASSUME NEW r \in Requests, NEW u \in Users, NEW i \in Invites,
             NEW role \in Roles, InviteUser(r, i, u, role)
      PROVE  TypeOK'
  BY <1>7 DEF InviteUser, Done, TypeOK, Invitation
<1>8. ASSUME NEW r \in Requests, RemoveMember(r)
      PROVE  TypeOK'
  <2> DEFINE t == req[r].target
  <2>1. t \in Users /\ req[r].copy \in Row
    BY <1>8, RequestFields DEF RemoveMember
  <2>2. member[t] \in Row /\ t \in account
    BY <1>8, <2>1 DEF RemoveMember, RowsExist, TypeOK
  <2>3. member' = [member EXCEPT
                     ![t] = [role |-> member[t].role,
                             active |-> IF req[r].copy.active THEN FALSE
                                        ELSE member[t].active]]
    BY <1>8 DEF RemoveMember, SetInactive
  <2>4. member'[t] \in Row
    BY <2>1, <2>2, <2>3 DEF TypeOK, Row
  <2>5. member' \in [Users -> Row \cup {NoRow}]
    BY <2>1, <2>3, <2>4 DEF TypeOK
  <2>6. \A u \in Users : member'[u] # NoRow => u \in account'
    BY <1>8, <2>1, <2>2, <2>3 DEF TypeOK, RemoveMember, SetInactive
  <2> QED
    BY <1>8, <2>5, <2>6 DEF RemoveMember, SetInactive, Done, TypeOK
<1>9. ASSUME NEW r \in Requests, NEW role \in Roles, UpdateMemberRole(r, role)
      PROVE  TypeOK'
  <2> DEFINE t == req[r].target
  <2>1. t \in Users /\ req[r].copy \in Row
    BY <1>9, RequestFields DEF UpdateMemberRole
  <2>2. member[t] \in Row /\ t \in account
    BY <1>9, <2>1 DEF UpdateMemberRole, RowsExist, TypeOK
  <2>3. member' = [member EXCEPT
                     ![t] = [role |-> IF role = req[r].copy.role
                                        THEN member[t].role ELSE role,
                             active |-> member[t].active]]
    BY <1>9 DEF UpdateMemberRole
  <2>4. member'[t] \in Row
    BY <2>1, <2>2, <2>3 DEF TypeOK, Row
  <2>5. member' \in [Users -> Row \cup {NoRow}]
    BY <2>1, <2>3, <2>4 DEF TypeOK
  <2>6. \A u \in Users : member'[u] # NoRow => u \in account'
    BY <1>9, <2>1, <2>2, <2>3 DEF TypeOK, UpdateMemberRole
  <2> QED
    BY <1>9, <2>5, <2>6 DEF UpdateMemberRole, Done, TypeOK
<1>10. ASSUME NEW r \in Requests, NEW i \in Invites, LoadInvite(r, i)
       PROVE  TypeOK'
  BY <1>10 DEF LoadInvite, TypeOK, Acceptance
<1>11. ASSUME NEW r \in Requests, LoadMembership(r)
       PROVE  TypeOK'
  <2>1. [phase |-> "joining", inv |-> req[r].inv, new |-> req[r].new,
         found |-> /\ ~req[r].new
                   /\ member[invite[req[r].inv].user] # NoRow] \in Acceptance
    BY <1>11, RequestFields DEF LoadMembership, Acceptance
  <2> QED
    BY <1>11, <2>1 DEF LoadMembership, TypeOK
<1>12. ASSUME NEW r \in Requests, Join(r)
       PROVE  TypeOK'
  <2> DEFINE i == req[r].inv
             u == invite[i].user
  <2>1. i \in Invites /\ u \in Users /\ invite[i].role \in Roles
    BY <1>12, RequestFields, InvitationFields DEF Join, RowsExist
  <2>2. [role |-> invite[i].role, active |-> TRUE] \in Row
    BY <2>1 DEF Row
  <2>3. [state |-> "accepted", user |-> u, role |-> invite[i].role] \in Invitation
    BY <2>1 DEF Invitation
  <2>4. /\ account' \subseteq Users
        /\ member' \in [Users -> Row \cup {NoRow}]
        /\ invite' \in [Invites -> Invitation \cup {NoInvite}]
    BY <1>12, <2>1, <2>2, <2>3 DEF Join, JoinOf, TypeOK
  <2>5. \A v \in Users : member'[v] # NoRow => v \in account'
    BY <1>12, <2>1 DEF Join, JoinOf, TypeOK
  <2> QED
    BY <1>12, <2>4, <2>5 DEF Join, JoinOf, Done, TypeOK
<1> QED
  BY <1>1, <1>2, <1>3, <1>4, <1>5, <1>6, <1>7, <1>8, <1>9, <1>10, <1>11, <1>12
  DEF Next

(* A membership or an invitation that exists is never deleted. *)
LEMMA NothingDeleted ==
  ASSUME TypeInv, [Next]_vars
  PROVE  /\ \A u \in Users : member[u] # NoRow => member'[u] # NoRow
         /\ \A i \in Invites : invite[i] # NoInvite =>
              invite'[i] # NoInvite /\ invite'[i].user = invite[i].user
<1> USE DEF TypeInv
<1>1. CASE UNCHANGED vars
  BY <1>1 DEF vars
<1>2. ASSUME NEW u \in Users, Register(u)
      PROVE  member' = member /\ invite' = invite
  BY <1>2 DEF Register
<1>3. ASSUME NEW i \in Invites, Expire(i)
      PROVE  /\ member' = member
             /\ \A j \in Invites : invite[j] # NoInvite =>
                  invite'[j] # NoInvite /\ invite'[j].user = invite[j].user
  BY <1>3 DEF Expire, TypeOK, NoInvite
<1>4. ASSUME NEW r \in Requests,
             \/ Abort(r) \/ LoadMembership(r)
             \/ \E u \in Users : Authorize(r, u) \/ LoadTarget(r, u)
             \/ \E i \in Invites : LoadInvite(r, i)
      PROVE  member' = member /\ invite' = invite
  BY <1>4 DEF Abort, LoadMembership, Authorize, LoadTarget, LoadedFrom, LoadInvite
<1>5. ASSUME NEW r \in Requests, NEW u \in Users, NEW i \in Invites,
             NEW role \in Roles, InviteUser(r, i, u, role)
      PROVE  /\ member' = member
             /\ \A j \in Invites : invite[j] # NoInvite => invite'[j] = invite[j]
  BY <1>5 DEF InviteUser, TypeOK
<1>6. ASSUME NEW r \in Requests,
             RemoveMember(r) \/ \E role \in Roles : UpdateMemberRole(r, role)
      PROVE  /\ \A u \in Users : member[u] # NoRow => member'[u] # NoRow
             /\ invite' = invite
  <2>1. req[r].phase = "loaded"
    BY <1>6 DEF RemoveMember, UpdateMemberRole
  <2>2. /\ req[r].target \in Users /\ req[r].copy \in Row
        /\ member[req[r].target] \in Row
    BY <2>1, RequestFields DEF RowsExist, TypeOK
  <2> DEFINE Rewritten == \E row \in Row :
                            member' = [member EXCEPT ![req[r].target] = row]
  <2>3. Rewritten
    <3>1. CASE RemoveMember(r)
      <4>1. [role |-> member[req[r].target].role,
             active |-> IF req[r].copy.active THEN FALSE
                        ELSE member[req[r].target].active] \in Row
        BY <2>2 DEF Row
      <4> QED
        BY <3>1, <4>1 DEF RemoveMember, SetInactive
    <3>2. ASSUME NEW role \in Roles, UpdateMemberRole(r, role)
          PROVE  Rewritten
      <4>1. [role |-> IF role = req[r].copy.role
                        THEN member[req[r].target].role ELSE role,
             active |-> member[req[r].target].active] \in Row
        BY <2>2 DEF Row
      <4> QED
        BY <3>2, <4>1 DEF UpdateMemberRole
    <3> QED
      BY <1>6, <3>1, <3>2
  <2>4. invite' = invite
    BY <1>6 DEF RemoveMember, SetInactive, UpdateMemberRole
  <2> QED
    BY <2>2, <2>3, <2>4, RowsAreNotMissing DEF TypeOK
<1>7. ASSUME NEW r \in Requests, Join(r)
      PROVE  /\ \A u \in Users : member[u] # NoRow => member'[u] # NoRow
             /\ \A i \in Invites : invite[i] # NoInvite =>
                  invite'[i] # NoInvite /\ invite'[i].user = invite[i].user
  <2>1. req[r].inv \in Invites
    BY <1>7, RequestFields DEF Join
  <2>2. \A u \in Users : member[u] # NoRow => member'[u] = member[u]
    BY <1>7, <2>1 DEF Join, JoinOf, Unique, TypeOK
  <2>3. \A i \in Invites : invite[i] # NoInvite =>
          invite'[i] # NoInvite /\ invite'[i].user = invite[i].user
    BY <1>7, <2>1 DEF Join, JoinOf, TypeOK, NoInvite
  <2> QED
    BY <2>2, <2>3
<1> QED
  BY <1>1, <1>2, <1>3, <1>4, <1>5, <1>6, <1>7 DEF Next

\* RowsExist and the facts about the founder, for one request.
RowsExistFor(r) ==
  /\ req[r].phase = "authorized" /\ req[r].own # NoRow
       => member[req[r].actor] # NoRow
  /\ req[r].phase = "loaded" => member[req[r].target] # NoRow
  /\ req[r].phase \in {"invited", "joining"} => invite[req[r].inv] # NoInvite

(* A step leaves a request as it is, ends it, or is one of the four that    *)
(* load something for it.                                                   *)
LEMMA RequestChanges ==
  ASSUME TypeOK, [Next]_vars, NEW r \in Requests
  PROVE  \/ req'[r] = req[r]
         \/ req'[r] = Idle
         \/ \E u \in Users : Authorize(r, u) \/ LoadTarget(r, u)
         \/ \E i \in Invites : LoadInvite(r, i)
         \/ LoadMembership(r)
<1>1. CASE UNCHANGED vars
  BY <1>1 DEF vars
<1>2. CASE \/ \E u \in Users : Register(u)
           \/ \E i \in Invites : Expire(i)
  BY <1>2 DEF Register, Expire
<1>3. ASSUME NEW q \in Requests,
             \/ Abort(q) \/ RemoveMember(q) \/ Join(q)
             \/ \E role \in Roles : UpdateMemberRole(q, role)
             \/ \E u \in Users, i \in Invites, role \in Roles :
                  InviteUser(q, i, u, role)
      PROVE  req'[r] = req[r] \/ req'[r] = Idle
  BY <1>3 DEF Abort, RemoveMember, SetInactive, Join, JoinOf, UpdateMemberRole,
              InviteUser, Done, TypeOK
<1>4. ASSUME NEW q \in Requests, q # r,
             \/ \E u \in Users : Authorize(q, u) \/ LoadTarget(q, u)
             \/ \E i \in Invites : LoadInvite(q, i)
             \/ LoadMembership(q)
      PROVE  req'[r] = req[r]
  BY <1>4 DEF Authorize, LoadTarget, LoadedFrom, LoadInvite, LoadMembership, TypeOK
<1> QED
  BY <1>1, <1>2, <1>3, <1>4 DEF Next

(* A request holds only rows that exist, after every action. *)
LEMMA RowsExistStep ==
  ASSUME TypeInv, [Next]_vars
  PROVE  RowsExist'
<1> SUFFICES ASSUME NEW r \in Requests
             PROVE  RowsExistFor(r)'
  BY DEF RowsExist, RowsExistFor
<1> USE DEF TypeInv
<1>1. RowsExistFor(r)
  BY DEF RowsExist, RowsExistFor
<1>2. CASE req'[r] = req[r]
  BY <1>1, <1>2, NothingDeleted, RequestFields DEF RowsExistFor
<1>3. CASE req'[r] = Idle
  BY <1>3 DEF RowsExistFor, Idle
<1>4. ASSUME NEW u \in Users, Authorize(r, u)
      PROVE  RowsExistFor(r)'
  BY <1>4 DEF Authorize, RowsExistFor, TypeOK
<1>5. ASSUME NEW u \in Users, LoadTarget(r, u)
      PROVE  RowsExistFor(r)'
  <2>1. member[u] # NoRow
    BY <1>1, <1>5 DEF LoadTarget, Copy, RowsExistFor
  <2> QED
    BY <1>5, <2>1 DEF LoadTarget, LoadedFrom, RowsExistFor, TypeOK
<1>6. ASSUME NEW i \in Invites, LoadInvite(r, i)
      PROVE  RowsExistFor(r)'
  BY <1>6 DEF LoadInvite, RowsExistFor, TypeOK
<1>7. CASE LoadMembership(r)
  BY <1>1, <1>7 DEF LoadMembership, RowsExistFor, TypeOK
<1> QED
  BY <1>2, <1>3, <1>4, <1>5, <1>6, <1>7, RequestChanges

(* The types, with the rows that requests hold. *)
LEMMA TypeInvariant == Spec => []TypeInv
<1>1. ASSUME Init
      PROVE  TypeInv
  <2>1. [role |-> "owner", active |-> TRUE] \in Row
    BY DEF Row, Roles
  <2>2. /\ account \subseteq Users
        /\ member \in [Users -> Row \cup {NoRow}]
        /\ \A u \in Users : member[u] # NoRow => u \in account
    BY <1>1, <2>1, FounderAssumption, PlatformAssumption DEF Init
  <2>3. /\ invite \in [Invites -> Invitation \cup {NoInvite}]
        /\ req \in [Requests -> Administration \cup Acceptance \cup {Idle}]
    BY <1>1 DEF Init
  <2>4. RowsExist
    BY <1>1 DEF Init, RowsExist, Idle
  <2> QED
    BY <2>2, <2>3, <2>4 DEF TypeInv, TypeOK
<1>2. TypeInv /\ [Next]_vars => TypeInv'
  BY TypeStep, RowsExistStep DEF TypeInv
<1> QED
  BY <1>1, <1>2, PTL DEF Spec

(* Type correctness: no two requests, however they overlap, leave a         *)
(* membership without an account or a row of the wrong shape.               *)
THEOREM TypeCorrect == Spec => []TypeOK
<1>1. TypeInv => TypeOK
  BY DEF TypeInv
<1> QED
  BY <1>1, TypeInvariant, PTL

-----------------------------------------------------------------------------
(* A row changes by a removal, a change of role or an acceptance.  An        *)
(* acceptance changes no row that is there.                                  *)
LEMMA MemberChanges ==
  ASSUME TypeInv, [Next]_vars, NEW u \in Users, member'[u] # member[u]
  PROVE  \/ \E r \in Requests :
              /\ req[r].target = u
              /\ RemoveMember(r) \/ \E role \in Roles : UpdateMemberRole(r, role)
         \/ /\ member[u] = NoRow
            /\ \E r \in Requests : Join(r) /\ ~req[r].found
                                   /\ u = invite[req[r].inv].user
<1> USE DEF TypeInv
<1>1. CASE UNCHANGED vars
  BY <1>1 DEF vars
<1>2. CASE \/ \E v \in Users : Register(v)
           \/ \E i \in Invites : Expire(i)
  BY <1>2 DEF Register, Expire
<1>3. ASSUME NEW r \in Requests,
             \/ Abort(r) \/ LoadMembership(r)
             \/ \E v \in Users : Authorize(r, v) \/ LoadTarget(r, v)
             \/ \E i \in Invites : LoadInvite(r, i)
             \/ \E v \in Users, i \in Invites, role \in Roles :
                  InviteUser(r, i, v, role)
      PROVE  FALSE
  BY <1>3 DEF Abort, LoadMembership, Authorize, LoadTarget, LoadedFrom,
              LoadInvite, InviteUser
<1>4. ASSUME NEW r \in Requests,
             RemoveMember(r) \/ \E role \in Roles : UpdateMemberRole(r, role)
      PROVE  req[r].target = u
  BY <1>4 DEF RemoveMember, SetInactive, UpdateMemberRole, TypeOK
<1>5. ASSUME NEW r \in Requests, Join(r)
      PROVE  member[u] = NoRow /\ ~req[r].found /\ u = invite[req[r].inv].user
  BY <1>5 DEF Join, JoinOf, Unique, TypeOK
<1> QED
  BY <1>1, <1>2, <1>3, <1>4, <1>5 DEF Next

\* CopiesTrue and AcceptancesTrue, for one request.
FounderFor(r) ==
  /\ req[r].phase = "authorized" /\ req[r].actor = Founder
       => req[r].own \in {NoRow, OwnerRow}
  /\ req[r].phase = "loaded" /\ req[r].target = Founder
       => req[r].copy = OwnerRow
  /\ req[r].phase = "invited" /\ invite[req[r].inv].user = Founder
       => ~req[r].new
  /\ req[r].phase = "joining" /\ invite[req[r].inv].user = Founder
       => req[r].found

(* The founder's row: a request that could change it holds a true copy. *)
LEMMA FounderRowStep ==
  ASSUME TypeInv, FounderInv, [Next]_vars
  PROVE  FounderStays' /\ Founder \in account'
<1> USE FounderAssumption DEF TypeInv
<1>1. ASSUME NEW r \in Requests, req[r].target = Founder, RemoveMember(r)
      PROVE  FALSE
  BY <1>1 DEF RemoveMember, FounderInv, CopiesTrue, OwnerRow
<1>2. ASSUME NEW r \in Requests, req[r].target = Founder,
             NEW role \in Roles, UpdateMemberRole(r, role)
      PROVE  FounderStays'
  <2>1. req[r].copy = OwnerRow
    BY <1>2 DEF UpdateMemberRole, FounderInv, CopiesTrue
  <2>2. role = "owner" /\ role = req[r].copy.role
    BY <1>2, <2>1 DEF UpdateMemberRole, OwnerRow
  <2>3. member' = [member EXCEPT ![Founder] = [role |-> member[Founder].role,
                                               active |-> member[Founder].active]]
    BY <1>2, <2>2 DEF UpdateMemberRole
  <2>4. member[Founder] = [role |-> "owner", active |-> TRUE]
    BY DEF FounderInv, FounderStays
  <2> QED
    BY <2>3, <2>4 DEF FounderStays, TypeOK
<1>3. member[Founder] # NoRow
  BY DEF FounderInv, FounderStays, NoRow
<1>4. FounderStays'
  BY <1>1, <1>2, <1>3, MemberChanges DEF FounderInv, FounderStays
<1>5. member'[Founder] # NoRow
  BY <1>4 DEF FounderStays, NoRow
<1>6. Founder \in account'
  BY <1>5, TypeStep DEF TypeOK
<1> QED
  BY <1>4, <1>6

(* The copies: what is loaded of the founder is the founder's row. *)
LEMMA FounderCopiesStep ==
  ASSUME TypeInv, FounderInv, [Next]_vars
  PROVE  CopiesTrue' /\ AcceptancesTrue'
<1> SUFFICES ASSUME NEW r \in Requests
             PROVE  FounderFor(r)'
  BY DEF CopiesTrue, AcceptancesTrue, FounderFor
<1> USE FounderAssumption DEF TypeInv
<1>1. FounderFor(r)
  BY DEF FounderInv, CopiesTrue, AcceptancesTrue, FounderFor
<1>2. member[Founder] = OwnerRow /\ OwnerRow # NoRow
  BY DEF FounderInv, FounderStays, OwnerRow, NoRow
<1>3. CASE req'[r] = req[r]
  <2>1. req[r].phase \in {"invited", "joining"} =>
          invite'[req[r].inv].user = invite[req[r].inv].user
    BY NothingDeleted, RequestFields DEF RowsExist
  <2> QED
    BY <1>1, <1>3, <2>1 DEF FounderFor
<1>4. CASE req'[r] = Idle
  BY <1>4 DEF FounderFor, Idle
<1>5. ASSUME NEW u \in Users, Authorize(r, u)
      PROVE  FounderFor(r)'
  BY <1>2, <1>5 DEF Authorize, FounderFor, TypeOK
<1>6. ASSUME NEW u \in Users, LoadTarget(r, u)
      PROVE  FounderFor(r)'
  <2>1. u = Founder => Copy(r, u) = OwnerRow
    BY <1>1, <1>2, <1>6 DEF LoadTarget, Copy, FounderFor
  <2> QED
    BY <1>6, <2>1 DEF LoadTarget, LoadedFrom, FounderFor, TypeOK
<1>7. ASSUME NEW i \in Invites, LoadInvite(r, i)
      PROVE  FounderFor(r)'
  BY <1>7 DEF LoadInvite, FounderFor, FounderInv, TypeOK
<1>8. CASE LoadMembership(r)
  BY <1>1, <1>2, <1>8 DEF LoadMembership, FounderFor, TypeOK
<1> QED
  BY <1>3, <1>4, <1>5, <1>6, <1>7, <1>8, RequestChanges

(* The founder remains an active owner, whatever requests overlap: the       *)
(* organization always has somebody who can administer it.                   *)
THEOREM FounderStaysCorrect == Spec => []FounderStays
<1>1. Init => FounderInv
  BY FounderAssumption
  DEF Init, FounderInv, FounderStays, CopiesTrue, AcceptancesTrue, Idle
<1>2. TypeInv /\ FounderInv /\ [Next]_vars => FounderInv'
  BY FounderRowStep, FounderCopiesStep DEF FounderInv
<1>3. FounderInv => FounderStays
  BY DEF FounderInv
<1> QED
  BY <1>1, <1>2, <1>3, TypeInvariant, PTL DEF Spec

(* Nobody who was removed becomes a member again, whatever invitations are   *)
(* accepted and however their acceptance overlaps with the removal.          *)
THEOREM RemovedStaysOutCorrect == Spec => RemovedStaysOut
<1>1. ASSUME TypeInv, [Next]_vars, NEW u \in Users,
             member[u] # NoRow, ~member[u].active
      PROVE  ~member'[u].active
  <2>1. ASSUME NEW r \in Requests, req[r].target = u, RemoveMember(r)
        PROVE  ~member'[u].active
    BY <1>1, <2>1 DEF RemoveMember, SetInactive, TypeInv, TypeOK
  <2>2. ASSUME NEW r \in Requests, req[r].target = u,
               NEW role \in Roles, UpdateMemberRole(r, role)
        PROVE  ~member'[u].active
    BY <1>1, <2>2 DEF UpdateMemberRole, TypeInv, TypeOK
  <2> QED
    BY <1>1, <2>1, <2>2, MemberChanges
<1>2. TypeInv /\ [Next]_vars =>
        [\A u \in Users :
           member[u] # NoRow /\ ~member[u].active => ~member'[u].active]_vars
  BY <1>1
<1> QED
  BY <1>2, TypeInvariant, PTL DEF Spec, RemovedStaysOut
=============================================================================
