------------------------------- MODULE Members -------------------------------
(***************************************************************************)
(* The people of one organization: who is a member and in which role, who  *)
(* has been invited, who is on a team, and how many seats that takes.      *)
(* Organizations share no such row, so one is enough.                      *)
(*                                                                         *)
(* A request is served in two steps where the code reads and then writes:  *)
(* it is checked (Begin...) and later writes what it decided, with no lock *)
(* in between; an invitation deletes before it inserts and takes three.    *)
(* The reads of one check are one step.  A request that writes whatever it *)
(* read is a single step.  An id is never used twice.                      *)
(*                                                                         *)
(* Whoever asks is an active owner or administrator, which are the roles   *)
(* that may manage members; who exactly makes no difference.  A user's     *)
(* current organization is not kept: every request looks again whether the *)
(* user is an active member of it.                                         *)
(***************************************************************************)
EXTENDS Integers, FiniteSets

CONSTANTS
  Users,        \* accounts, of members and of others
  Creator,      \* the user who created the organization
  Emails,       \* addresses
  First,        \* the address of each account at first
  Ids,          \* ids of invitations
  Clients,      \* requests served at the same time
  Limits,       \* member limits of the plans
  Readdresses,  \* may users change their address
  Departures,   \* may users delete their account
  Reseats,      \* may members be reactivated, expired invitations be resent
  Replans       \* may the plan change

Roles == {"owner", "admin", "viewer"}

ASSUME MembersAssumption ==
  /\ Creator \in Users
  /\ IsFiniteSet(Users) /\ IsFiniteSet(Ids)
  /\ "none" \notin Emails
  /\ First \in [Users -> Emails]
  /\ \A u, v \in Users : First[u] = First[v] => u = v
  /\ Limits \subseteq Nat \ {0}
  /\ {Readdresses, Departures, Reseats, Replans} \subseteq BOOLEAN

VARIABLES
  org,          \* the organization: "there", "deleted" or "erased"
  members,      \* organization_user: per user the membership
  email,        \* the accounts' addresses; "none" for a deleted account
  invitations,  \* the rows of invitations
  team,         \* the users on a team
  limit,        \* the seats of the plan
  requests,     \* requests that were checked and have still to write
  uses          \* history: how often an invitation let somebody in

vars == <<org, members, email, invitations, team, limit, requests, uses>>

NoMember == [role |-> "none", status |-> "none"]
Membership == [role : Roles, status : {"active", "deactivated"}]

\* A row is open until it is accepted, also when it has expired.
NotInserted == [email |-> "none", role |-> "none", state |-> "none", expired |-> FALSE]
Gone == [email |-> "none", role |-> "none", state |-> "gone", expired |-> FALSE]
Invitation ==
  [email : Emails, role : Roles, state : {"open", "accepted"}, expired : BOOLEAN]

Idle == [op |-> "idle"]
Request ==
  [op : {"role"}, user : Users, role : Roles]
    \cup [op : {"remove", "deactivate", "team"}, user : Users]
    \cup [op : {"invite", "cleared"}, email : Emails, role : Roles]
    \cup [op : {"accept"}, user : Users, id : Ids, role : Roles]

\* OrganizationService::create; it takes the plan it is on for granted.
Init ==
  /\ org = "there"
  /\ members = [u \in Users |-> IF u = Creator
                                THEN [role |-> "owner", status |-> "active"]
                                ELSE NoMember]
  /\ email = First
  /\ invitations = [i \in Ids |-> NotInserted]
  /\ team = {}
  /\ limit \in Limits
  /\ requests = [c \in Clients |-> Idle]
  /\ uses = [i \in Ids |-> 0]

-----------------------------------------------------------------------------
(* What the checks look at.                                                *)

IsMember(u) == members[u] # NoMember
Active == {u \in Users : members[u].status = "active"}
Owners == {u \in Active : members[u].role = "owner"}

\* Fault: owners who have been deactivated count as owners.
FaultyIsLastOwner(u) ==
  u \in Owners /\ {v \in Users : members[v].role = "owner"} = {u}
\* isLastOwner: an active owner, and one is counted.
IsLastOwner(u) == Owners = {u}

\* Somebody there may manage the members.
Managed == org = "there" /\ \E u \in Active : members[u].role \in {"owner", "admin"}

Open(i) == invitations[i].state = "open"

\* Fault: accepted_at is not looked at.
FaultyPending(i) ==
  invitations[i].state \in {"open", "accepted"} /\ ~invitations[i].expired
Pending(i) == Open(i) /\ ~invitations[i].expired

\* memberSeatsUsed
SeatsUsed == Cardinality(Active) + Cardinality({i \in Ids : Pending(i)})

\* Fault: the seat that is asked for is not counted.
FaultyWithinLimit == SeatsUsed <= limit
WithinLimit == SeatsUsed + 1 <= limit

\* Fault: only active members are looked for.
FaultyIsMembersAddress(m) == \E u \in Active : email[u] = m
IsMembersAddress(m) == \E u \in Users : IsMember(u) /\ email[u] = m

-----------------------------------------------------------------------------
(* MemberController and changeMemberRole, removeMember, setMemberStatus.   *)

BeginChangeRole(c, u, r) ==
  /\ requests[c] = Idle
  /\ Managed
  /\ IsMember(u)
  /\ r # "owner" => ~IsLastOwner(u)
  /\ requests' = [requests EXCEPT ![c] = [op |-> "role", user |-> u, role |-> r]]
  /\ UNCHANGED <<org, members, email, invitations, team, limit, uses>>

\* updateExistingPivot changes a row that is still there.
ChangeRole(c) ==
  LET u == requests[c].user IN
  /\ requests[c].op = "role"
  /\ members' = IF IsMember(u) THEN [members EXCEPT ![u].role = requests[c].role]
                ELSE members
  /\ requests' = [requests EXCEPT ![c] = Idle]
  /\ UNCHANGED <<org, email, invitations, team, limit, uses>>

\* Removal and deactivation are checked alike.
BeginLower(c, u, op) ==
  /\ op \in {"remove", "deactivate"}
  /\ requests[c] = Idle
  /\ Managed
  /\ IsMember(u)
  /\ ~IsLastOwner(u)
  /\ requests' = [requests EXCEPT ![c] = [op |-> op, user |-> u]]
  /\ UNCHANGED <<org, members, email, invitations, team, limit, uses>>

\* Faults: the row stays, without a status; the teams are forgotten.
FaultyDetached(row) == [row EXCEPT !.status = "none"]
Detached(row) == NoMember
FaultyTeamWithout(u) == team
TeamWithout(u) == team \ {u}

\* detach, from the organization and from its teams.
Remove(c) ==
  LET u == requests[c].user IN
  /\ requests[c].op = "remove"
  /\ members' = [members EXCEPT ![u] = Detached(@)]
  /\ team' = TeamWithout(u)
  /\ requests' = [requests EXCEPT ![c] = Idle]
  /\ UNCHANGED <<org, email, invitations, limit, uses>>

Deactivate(c) ==
  LET u == requests[c].user IN
  /\ requests[c].op = "deactivate"
  /\ members' = IF IsMember(u) THEN [members EXCEPT ![u].status = "deactivated"]
                ELSE members
  /\ requests' = [requests EXCEPT ![c] = Idle]
  /\ UNCHANGED <<org, email, invitations, team, limit, uses>>

\* The seats are not looked at.
Reactivate(u) ==
  /\ Reseats
  /\ Managed
  /\ IsMember(u)
  /\ members' = [members EXCEPT ![u].status = "active"]
  /\ UNCHANGED <<org, email, invitations, team, limit, requests, uses>>

-----------------------------------------------------------------------------
(* InvitationController and invite, resendInvitation, revokeInvitation.    *)

BeginInvite(c, m, r) ==
  /\ requests[c] = Idle
  /\ Managed
  /\ ~IsMembersAddress(m)
  /\ WithinLimit
  /\ requests' = [requests EXCEPT ![c] = [op |-> "invite", email |-> m, role |-> r]]
  /\ UNCHANGED <<org, members, email, invitations, team, limit, uses>>

\* Fault: an invitation that has expired is not refreshed.
FaultyToRefresh(m) == {i \in Ids : Pending(i) /\ invitations[i].email = m}
\* The rows of the address nobody has accepted.
ToRefresh(m) == {i \in Ids : Open(i) /\ invitations[i].email = m}

ClearInvite(c) ==
  LET old == ToRefresh(requests[c].email) IN
  /\ requests[c].op = "invite"
  /\ invitations' = [i \in Ids |-> IF i \in old THEN Gone ELSE invitations[i]]
  /\ requests' = [requests EXCEPT ![c].op = "cleared"]
  /\ UNCHANGED <<org, members, email, team, limit, uses>>

Invite(c, i) ==
  /\ requests[c].op = "cleared"
  /\ org # "erased"
  /\ invitations[i] = NotInserted
  /\ invitations' = [invitations EXCEPT ![i] =
       [email |-> requests[c].email, role |-> requests[c].role,
        state |-> "open", expired |-> FALSE]]
  /\ requests' = [requests EXCEPT ![c] = Idle]
  /\ UNCHANGED <<org, members, email, team, limit, uses>>

\* Seven days have passed.
Expire(i) ==
  /\ Pending(i)
  /\ invitations' = [invitations EXCEPT ![i].expired = TRUE]
  /\ UNCHANGED <<org, members, email, team, limit, requests, uses>>

\* A new token, and seven days more; the seats are not looked at.
Resend(i) ==
  /\ Reseats
  /\ Managed
  /\ Open(i)
  /\ invitations' = [invitations EXCEPT ![i].expired = FALSE]
  /\ UNCHANGED <<org, members, email, team, limit, requests, uses>>

Revoke(i) ==
  /\ Managed
  /\ invitations[i].state \in {"open", "accepted"}
  /\ invitations' = [invitations EXCEPT ![i] = Gone]
  /\ UNCHANGED <<org, members, email, team, limit, requests, uses>>

-----------------------------------------------------------------------------
(* InvitationAcceptanceController and acceptInvitation.                    *)

BeginAccept(c, i, u) ==
  /\ requests[c] = Idle
  /\ Pending(i)
  /\ invitations[i].email = email[u]
  /\ requests' = [requests EXCEPT ![c] =
       [op |-> "accept", user |-> u, id |-> i, role |-> invitations[i].role]]
  /\ UNCHANGED <<org, members, email, invitations, team, limit, uses>>

\* syncWithoutDetaching inserts a membership, or writes over the one there is.
Accept(c) ==
  LET u == requests[c].user
      i == requests[c].id
  IN
  /\ requests[c].op = "accept"
  /\ org = "there"
  /\ email[u] # "none"
  /\ members' = [members EXCEPT ![u] =
       [role |-> requests[c].role, status |-> "active"]]
  /\ invitations' = IF Open(i)
                    THEN [invitations EXCEPT ![i].state = "accepted"]
                    ELSE invitations
  /\ uses' = [uses EXCEPT ![i] = @ + 1]
  /\ requests' = [requests EXCEPT ![c] = Idle]
  /\ UNCHANGED <<org, email, team, limit>>

-----------------------------------------------------------------------------
(* TeamController.                                                         *)

BeginJoinTeam(c, u) ==
  /\ requests[c] = Idle
  /\ Managed
  /\ IsMember(u)
  /\ requests' = [requests EXCEPT ![c] = [op |-> "team", user |-> u]]
  /\ UNCHANGED <<org, members, email, invitations, team, limit, uses>>

JoinTeam(c) ==
  LET u == requests[c].user IN
  /\ requests[c].op = "team"
  /\ org # "erased"
  /\ email[u] # "none"
  /\ team' = team \cup {u}
  /\ requests' = [requests EXCEPT ![c] = Idle]
  /\ UNCHANGED <<org, members, email, invitations, limit, uses>>

LeaveTeam(u) ==
  /\ Managed
  /\ team' = team \ {u}
  /\ UNCHANGED <<org, members, email, invitations, limit, requests, uses>>

\* The process ends before it writes, or the database refuses the row.
Dies(c) ==
  /\ requests[c] # Idle
  /\ requests' = [requests EXCEPT ![c] = Idle]
  /\ UNCHANGED <<org, members, email, invitations, team, limit, uses>>

-----------------------------------------------------------------------------
(* The account: ProfileController; the organization; the plan.             *)

\* A new address, which is unique and has been verified.
ChangeEmail(u, m) ==
  /\ Readdresses
  /\ email[u] # "none"
  /\ \A v \in Users : email[v] # m
  /\ email' = [email EXCEPT ![u] = m]
  /\ UNCHANGED <<org, members, invitations, team, limit, requests, uses>>

\* The rows of the user go with the account, and those of the organization
\* with the account of its creator (organizations.owner_id).
DeleteAccount(u) ==
  /\ Departures
  /\ email[u] # "none"
  /\ email' = [email EXCEPT ![u] = "none"]
  /\ IF u = Creator
     THEN /\ org' = "erased"
          /\ members' = [v \in Users |-> NoMember]
          /\ invitations' = [i \in Ids |-> IF invitations[i] = NotInserted
                                           THEN NotInserted ELSE Gone]
          /\ team' = {}
     ELSE /\ members' = [members EXCEPT ![u] = NoMember]
          /\ team' = team \ {u}
          /\ UNCHANGED <<org, invitations>>
  /\ UNCHANGED <<limit, requests, uses>>

\* organization.delete is the owners' permission.
DeleteOrganization ==
  /\ org = "there"
  /\ Owners # {}
  /\ org' = "deleted"
  /\ UNCHANGED <<members, email, invitations, team, limit, requests, uses>>

ChangePlan(n) ==
  /\ Replans
  /\ org = "there"
  /\ limit' = n
  /\ UNCHANGED <<org, members, email, invitations, team, requests, uses>>

-----------------------------------------------------------------------------

Managing(c) ==
  \/ \E u \in Users, r \in Roles : BeginChangeRole(c, u, r)
  \/ ChangeRole(c)
  \/ \E u \in Users, op \in {"remove", "deactivate"} : BeginLower(c, u, op)
  \/ Remove(c)
  \/ Deactivate(c)
  \/ \E u \in Users : BeginJoinTeam(c, u)
  \/ JoinTeam(c)

Inviting(c) ==
  \/ \E m \in Emails, r \in Roles : BeginInvite(c, m, r)
  \/ ClearInvite(c)
  \/ \E i \in Ids : Invite(c, i)
  \/ \E i \in Ids, u \in Users : BeginAccept(c, i, u)
  \/ Accept(c)

Elsewhere ==
  \/ \E u \in Users : Reactivate(u) \/ LeaveTeam(u) \/ DeleteAccount(u)
  \/ \E i \in Ids : Expire(i) \/ Resend(i) \/ Revoke(i)
  \/ \E u \in Users, m \in Emails : ChangeEmail(u, m)
  \/ DeleteOrganization
  \/ \E n \in Limits : ChangePlan(n)

Next ==
  \/ \E c \in Clients : Managing(c) \/ Inviting(c) \/ Dies(c)
  \/ Elsewhere

Spec == Init /\ [][Next]_vars

-----------------------------------------------------------------------------
TypeOK ==
  /\ org \in {"there", "deleted", "erased"}
  /\ members \in [Users -> Membership \cup {NoMember}]
  /\ email \in [Users -> Emails \cup {"none"}]
  /\ invitations \in [Ids -> Invitation \cup {NotInserted, Gone}]
  /\ team \in SUBSET Users
  /\ limit \in Limits
  /\ requests \in [Clients -> Request \cup {Idle}]
  /\ uses \in [Ids -> Nat]

(* OrganizationService: "an organization always keeps at least one Owner", *)
(* who is active.                                                          *)
OwnerKept == org = "there" => Owners # {}

(* invite(): whoever is a member, active or not, has no invitation open.   *)
(* Accepting one would write over the membership.                          *)
MembersNotInvited ==
  \A i \in Ids, u \in Users :
    Open(i) /\ invitations[i].email = email[u] => ~IsMember(u)

(* invite(): "Refresh any existing pending invite for this email rather    *)
(* than stacking duplicates": an address has one open invitation at most.  *)
OneOpenInvitation ==
  \A i, j \in Ids :
    Open(i) /\ Open(j) /\ invitations[i].email = invitations[j].email => i = j

(* "Invitations: single-use": none lets somebody in twice.                 *)
UsedOnce == \A i \in Ids : uses[i] <= 1

(* removeMember: whoever left the organization is on none of its teams.    *)
TeamOfMembers == \A u \in team : IsMember(u)

(* ENTL-007: the seats taken by active members and pending invitations     *)
(* stay within the plan, whatever expires, is revoked or accepted late.    *)
SeatsWithinPlan == SeatsUsed <= limit

(* "member seat limit enforced on invite + acceptance": whoever becomes an *)
(* active member does so within the limit of the plan.                     *)
JoinsWithinPlan ==
  [][\A u \in Users :
       u \notin Active /\ u \in Active' => Cardinality(Active)' <= limit]_vars

(* "an organization they solely own is NOT silently destroyed": deleting   *)
(* an account destroys no organization others are members of.              *)
OthersKeepOrganization ==
  [][org' = "erased" =>
       org = "erased" \/ \A u \in Users : IsMember(u) => u = Creator]_vars

=============================================================================
