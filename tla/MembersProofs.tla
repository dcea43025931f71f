---------------------------- MODULE MembersProofs ----------------------------
(***************************************************************************)
(* Theorems about Members, for any number of accounts, addresses,          *)
(* invitations and requests at once, all plans and every deployment: its   *)
(* types; and, where the requests of an organization do not overlap        *)
(* (Serial), that invitations do not pile up, are used once and reach      *)
(* nobody who is a member, that an owner is kept and the seats of the plan *)
(* are.  What each needs beyond Serial its theorem says.                   *)
(***************************************************************************)
EXTENDS Members, FiniteSetTheorems, TLAPS

\* The requests of the organization are served one after the other.
Serial == \A c, d \in Clients : c = d

(* What a client's request is says what is in it.                          *)
LEMMA RequestTyped ==
  ASSUME TypeOK, NEW c \in Clients
  PROVE  /\ requests[c] # Idle => requests[c] \in Request
         /\ requests[c].op = "role" =>
              requests[c].user \in Users /\ requests[c].role \in Roles
         /\ requests[c].op \in {"remove", "deactivate", "team"} =>
              requests[c].user \in Users
         /\ requests[c].op \in {"invite", "cleared"} =>
              requests[c].email \in Emails /\ requests[c].role \in Roles
         /\ requests[c].op = "accept" =>
              /\ requests[c].user \in Users
              /\ requests[c].id \in Ids
              /\ requests[c].role \in Roles
<1>1. requests[c] \in Request \cup {Idle}
  BY DEF TypeOK
<1>2. CASE requests[c] = Idle
  BY <1>2 DEF Idle
<1>3. CASE requests[c] \in [op : {"role"}, user : Users, role : Roles]
  BY <1>3 DEF Request, Idle
<1>4. CASE requests[c] \in [op : {"remove", "deactivate", "team"}, user : Users]
  BY <1>4 DEF Request, Idle
<1>5. CASE requests[c] \in [op : {"invite", "cleared"}, email : Emails, role : Roles]
  BY <1>5 DEF Request, Idle
<1>6. CASE requests[c] \in [op : {"accept"}, user : Users, id : Ids, role : Roles]
  BY <1>6 DEF Request, Idle
<1> QED
  BY <1>1, <1>2, <1>3, <1>4, <1>5, <1>6 DEF Request

(* A change of a member's role or status leaves a membership.              *)
LEMMA Altered ==
  ASSUME TypeOK, NEW u \in Users, IsMember(u)
  PROVE  /\ members[u] \in Membership
         /\ \A r \in Roles : [members[u] EXCEPT !.role = r] \in Membership
         /\ \A s \in {"active", "deactivated"} :
              [members[u] EXCEPT !.status = s] \in Membership
<1>1. members[u] \in Membership
  BY DEF TypeOK, IsMember
<1> QED
  BY <1>1 DEF Membership

LEMMA InitTyped == Init => TypeOK
<1> SUFFICES ASSUME Init PROVE TypeOK
  OBVIOUS
<1>1. members \in [Users -> Membership \cup {NoMember}]
  BY DEF Init, Membership, Roles
<1> QED
  BY <1>1, MembersAssumption DEF Init, TypeOK

LEMMA ManagingTyped ==
  ASSUME TypeOK, NEW c \in Clients, Managing(c)
  PROVE  TypeOK'
<1> USE DEF TypeOK
<1>1. ASSUME NEW u \in Users, NEW r \in Roles, BeginChangeRole(c, u, r)
      PROVE  TypeOK'
  <2>1. [op |-> "role", user |-> u, role |-> r] \in Request
    BY DEF Request
  <2> QED
    BY <1>1, <2>1 DEF BeginChangeRole
<1>2. CASE ChangeRole(c)
  <2>1. members' \in [Users -> Membership \cup {NoMember}]
    BY <1>2, RequestTyped, Altered DEF ChangeRole
  <2> QED
    BY <1>2, <2>1 DEF ChangeRole
<1>3. ASSUME NEW u \in Users, NEW op \in {"remove", "deactivate"}, BeginLower(c, u, op)
      PROVE  TypeOK'
  <2>1. [op |-> op, user |-> u] \in Request
    BY DEF Request
  <2> QED
    BY <1>3, <2>1 DEF BeginLower
<1>4. CASE Remove(c)
  BY <1>4 DEF Remove, Detached, TeamWithout
<1>5. CASE Deactivate(c)
  <2>1. members' \in [Users -> Membership \cup {NoMember}]
    BY <1>5, RequestTyped, Altered DEF Deactivate
  <2> QED
    BY <1>5, <2>1 DEF Deactivate
<1>6. ASSUME NEW u \in Users, BeginJoinTeam(c, u)
      PROVE  TypeOK'
  <2>1. [op |-> "team", user |-> u] \in Request
    BY DEF Request
  <2> QED
    BY <1>6, <2>1 DEF BeginJoinTeam
<1>7. CASE JoinTeam(c)
  BY <1>7, RequestTyped DEF JoinTeam
<1> QED
  BY <1>1, <1>2, <1>3, <1>4, <1>5, <1>6, <1>7 DEF Managing

LEMMA InvitingTyped ==
  ASSUME TypeOK, NEW c \in Clients, Inviting(c)
  PROVE  TypeOK'
<1> USE DEF TypeOK
<1>1. ASSUME NEW m \in Emails, NEW r \in Roles, BeginInvite(c, m, r)
      PROVE  TypeOK'
  <2>1. [op |-> "invite", email |-> m, role |-> r] \in Request
    BY DEF Request
  <2> QED
    BY <1>1, <2>1 DEF BeginInvite
<1>2. CASE ClearInvite(c)
  <2>1. requests[c] \in [op : {"invite", "cleared"}, email : Emails, role : Roles]
    BY <1>2 DEF ClearInvite, Request, Idle
  <2>2. [requests[c] EXCEPT !.op = "cleared"] \in Request
    BY <2>1 DEF Request
  <2> QED
    BY <1>2, <2>2 DEF ClearInvite
<1>3. ASSUME NEW i \in Ids, Invite(c, i)
      PROVE  TypeOK'
  <2>1. [email |-> requests[c].email, role |-> requests[c].role,
         state |-> "open", expired |-> FALSE] \in Invitation
    BY <1>3, RequestTyped DEF Invite, Invitation
  <2> QED
    BY <1>3, <2>1 DEF Invite
<1>4. ASSUME NEW i \in Ids, NEW u \in Users, BeginAccept(c, i, u)
      PROVE  TypeOK'
  <2>1. invitations[i] \in Invitation
    BY <1>4 DEF BeginAccept, Pending, Open, NotInserted, Gone
  <2>2. [op |-> "accept", user |-> u, id |-> i, role |-> invitations[i].role] \in Request
    BY <2>1 DEF Request, Invitation
  <2> QED
    BY <1>4, <2>2 DEF BeginAccept
<1>5. CASE Accept(c)
  <2> DEFINE u == requests[c].user
             i == requests[c].id
  <2>1. u \in Users /\ i \in Ids /\ requests[c].role \in Roles
    BY <1>5, RequestTyped DEF Accept
  <2>2. [role |-> requests[c].role, status |-> "active"] \in Membership
    BY <2>1 DEF Membership
  <2>3. Open(i) => [invitations[i] EXCEPT !.state = "accepted"] \in Invitation
    BY <2>1 DEF Open, Invitation, NotInserted, Gone
  <2> QED
    BY <1>5, <2>1, <2>2, <2>3 DEF Accept
<1> QED
  BY <1>1, <1>2, <1>3, <1>4, <1>5 DEF Inviting

LEMMA ElsewhereTyped ==
  ASSUME TypeOK, Elsewhere
  PROVE  TypeOK'
<1> USE DEF TypeOK
<1>1. ASSUME NEW u \in Users, Reactivate(u)
      PROVE  TypeOK'
  BY <1>1, Altered DEF Reactivate
<1>2. ASSUME NEW u \in Users, LeaveTeam(u)
      PROVE  TypeOK'
  BY <1>2 DEF LeaveTeam
<1>3. ASSUME NEW u \in Users, DeleteAccount(u)
      PROVE  TypeOK'
  BY <1>3 DEF DeleteAccount
<1>4. ASSUME NEW i \in Ids, Expire(i) \/ Resend(i)
      PROVE  TypeOK'
  <2>1. invitations[i] \in Invitation
    BY <1>4 DEF Expire, Resend, Pending, Open, NotInserted, Gone
  <2>2. \A b \in BOOLEAN : [invitations[i] EXCEPT !.expired = b] \in Invitation
    BY <2>1 DEF Invitation
  <2> QED
    BY <1>4, <2>2 DEF Expire, Resend
<1>5. ASSUME NEW i \in Ids, Revoke(i)
      PROVE  TypeOK'
  BY <1>5 DEF Revoke
<1>6. ASSUME NEW u \in Users, NEW m \in Emails, ChangeEmail(u, m)
      PROVE  TypeOK'
  BY <1>6 DEF ChangeEmail
<1>7. CASE DeleteOrganization
  BY <1>7 DEF DeleteOrganization
<1>8. ASSUME NEW n \in Limits, ChangePlan(n)
      PROVE  TypeOK'
  BY <1>8 DEF ChangePlan
<1> QED
  BY <1>1, <1>2, <1>3, <1>4, <1>5, <1>6, <1>7, <1>8 DEF Elsewhere

LEMMA StepTyped ==
  ASSUME TypeOK, [Next]_vars
  PROVE  TypeOK'
<1>1. ASSUME NEW c \in Clients, Dies(c)
      PROVE  TypeOK'
  BY <1>1 DEF Dies, TypeOK
<1>2. CASE UNCHANGED vars
  BY <1>2 DEF vars, TypeOK
<1> QED
  BY <1>1, <1>2, ManagingTyped, InvitingTyped, ElsewhereTyped DEF Next

(* Memberships, invitations, addresses and requests are what their columns *)
(* allow, whatever overlaps.                                               *)
THEOREM MembersTyped == Spec => []TypeOK
<1> QED
  BY InitTyped, StepTyped, PTL DEF Spec
-----------------------------------------------------------------------------
(* What a step does to one request, one row, one membership.               *)

(* A request in progress is what it was, or has moved on as its action     *)
(* says.                                                                   *)
LEMMA RequestMoves ==
  ASSUME TypeOK, [Next]_vars, NEW c \in Clients,
         requests'[c] # requests[c], requests'[c] # Idle
  PROVE  \/ \E u \in Users, r \in Roles : BeginChangeRole(c, u, r)
         \/ \E u \in Users, op \in {"remove", "deactivate"} : BeginLower(c, u, op)
         \/ \E u \in Users : BeginJoinTeam(c, u)
         \/ \E m \in Emails, r \in Roles : BeginInvite(c, m, r)
         \/ ClearInvite(c)
         \/ \E i \in Ids, u \in Users : BeginAccept(c, i, u)
<1>1. requests \in [Clients -> Request \cup {Idle}]
  BY DEF TypeOK
<1>2. Next
  BY DEF vars
<1>3. ~Elsewhere
  BY DEF Elsewhere, Reactivate, LeaveTeam, DeleteAccount, Expire, Resend, Revoke,
         ChangeEmail, DeleteOrganization, ChangePlan
<1>4. PICK d \in Clients : Managing(d) \/ Inviting(d) \/ Dies(d)
  BY <1>2, <1>3 DEF Next
<1>5. d = c
  <2>1. SUFFICES ASSUME d # c PROVE requests'[c] = requests[c]
    OBVIOUS
  <2>2. CASE Managing(d)
    BY <1>1, <2>1, <2>2 DEF Managing, BeginChangeRole, ChangeRole, BeginLower,
       Remove, Deactivate, BeginJoinTeam, JoinTeam
  <2>3. CASE Inviting(d)
    BY <1>1, <2>1, <2>3 DEF Inviting, BeginInvite, ClearInvite, Invite,
       BeginAccept, Accept
  <2>4. CASE Dies(d)
    BY <1>1, <2>1, <2>4 DEF Dies
  <2> QED
    BY <1>4, <2>2, <2>3, <2>4
<1>6. ~(ChangeRole(c) \/ Remove(c) \/ Deactivate(c) \/ JoinTeam(c) \/ Dies(c)
        \/ Accept(c) \/ \E i \in Ids : Invite(c, i))
  BY <1>1 DEF ChangeRole, Remove, Deactivate, JoinTeam, Dies, Accept, Invite
<1> QED
  BY <1>4, <1>5, <1>6 DEF Managing, Inviting

(* While a request is between its check and its writes, requests that do   *)
(* not overlap leave only what goes on elsewhere.                          *)
LEMMA Undisturbed ==
  ASSUME TypeOK, Serial, [Next]_vars, NEW c \in Clients,
         requests[c] # Idle, requests'[c] = requests[c]
  PROVE  Elsewhere \/ UNCHANGED vars
<1>1. requests \in [Clients -> Request \cup {Idle}]
  BY DEF TypeOK
<1>2. SUFFICES ASSUME NEW d \in Clients, Managing(d) \/ Inviting(d) \/ Dies(d)
               PROVE  FALSE
  BY DEF Next
<1>3. d = c
  BY DEF Serial
<1>4. ~Managing(c)
  BY <1>1 DEF Managing, BeginChangeRole, ChangeRole, BeginLower,
     Remove, Deactivate, BeginJoinTeam, JoinTeam
<1>5. ~Inviting(c)
  <2>1. ~ClearInvite(c)
    <3>1. SUFFICES ASSUME ClearInvite(c) PROVE FALSE
      OBVIOUS
    <3>2. requests[c] \in [op : {"invite", "cleared"}, email : Emails, role : Roles]
      BY <1>1, <3>1 DEF ClearInvite, Request, Idle
    <3>3. requests'[c].op = "cleared" /\ requests[c].op = "invite"
      BY <1>1, <3>1, <3>2 DEF ClearInvite
    <3> QED
      BY <3>3
  <2> QED
    BY <1>1, <2>1 DEF Inviting, BeginInvite, Invite, BeginAccept, Accept
<1>6. ~Dies(c)
  BY <1>1 DEF Dies
<1> QED
  BY <1>2, <1>3, <1>4, <1>5, <1>6

(* A row stays as open as it was for the address it was for, unless it is  *)
(* inserted.                                                               *)
LEMMA RowMoves ==
  ASSUME TypeOK, [Next]_vars, NEW i \in Ids,
         \A c \in Clients : ~Invite(c, i)
  PROVE  /\ Open(i)' => Open(i) /\ invitations'[i].email = invitations[i].email
         /\ invitations'[i] = NotInserted <=> invitations[i] = NotInserted
<1>1. invitations \in [Ids -> Invitation \cup {NotInserted, Gone}]
  BY DEF TypeOK
<1>2. CASE invitations'[i] = invitations[i]
  BY <1>2 DEF Open
<1>3. ASSUME NEW c \in Clients, ClearInvite(c)
      PROVE  invitations'[i] # invitations[i] => invitations'[i] = Gone /\ Open(i)
  <2>1. invitations'[i] = IF i \in ToRefresh(requests[c].email) THEN Gone
                          ELSE invitations[i]
    BY <1>3 DEF ClearInvite
  <2> QED
    BY <2>1 DEF ToRefresh
<1>4. ASSUME NEW c \in Clients, NEW j \in Ids, Invite(c, j)
      PROVE  invitations'[i] = invitations[i]
  BY <1>1, <1>4 DEF Invite
<1>5. ASSUME NEW c \in Clients, Accept(c), invitations'[i] # invitations[i]
      PROVE  Open(i) /\ ~Open(i)' /\ invitations'[i] # NotInserted
  <2>1. requests[c].id = i /\ Open(i)
    BY <1>1, <1>5, RequestTyped DEF Accept
  <2>2. invitations'[i] = [invitations[i] EXCEPT !.state = "accepted"]
    BY <1>1, <1>5, <2>1, RequestTyped DEF Accept
  <2>3. invitations[i] \in Invitation
    BY <1>1, <2>1 DEF Open, NotInserted, Gone
  <2> QED
    BY <2>1, <2>2, <2>3 DEF Open, Invitation, NotInserted
<1>6. ASSUME NEW j \in Ids, Expire(j) \/ Resend(j), invitations'[i] # invitations[i]
      PROVE  /\ Open(i) /\ invitations'[i].email = invitations[i].email
             /\ invitations'[i] # NotInserted
  <2>1. Open(i) /\ j = i
    BY <1>1, <1>6 DEF Expire, Resend, Pending
  <2>2. invitations[i] \in Invitation
    BY <1>1, <2>1 DEF Open, NotInserted, Gone
  <2>3. \E b \in BOOLEAN : invitations'[i] = [invitations[i] EXCEPT !.expired = b]
    BY <1>1, <1>6, <2>1 DEF Expire, Resend
  <2> QED
    BY <2>1, <2>2, <2>3 DEF Invitation, NotInserted
<1>7. ASSUME NEW j \in Ids, Revoke(j), invitations'[i] # invitations[i]
      PROVE  ~Open(i)' /\ invitations'[i] # NotInserted /\ invitations[i] # NotInserted
  BY <1>1, <1>7 DEF Revoke, Open, Gone, NotInserted
<1>8. ASSUME NEW u \in Users, DeleteAccount(u), invitations'[i] # invitations[i]
      PROVE  ~Open(i)' /\ invitations'[i] # NotInserted /\ invitations[i] # NotInserted
  <2>1. invitations'[i] = IF invitations[i] = NotInserted THEN NotInserted ELSE Gone
    BY <1>1, <1>8 DEF DeleteAccount
  <2>2. invitations[i] # NotInserted /\ invitations'[i] = Gone
    BY <1>8, <2>1
  <2> QED
    BY <2>2 DEF Open, Gone, NotInserted
<1>9. invitations'[i] # invitations[i] =>
        \/ \E c \in Clients : ClearInvite(c) \/ Accept(c)
        \/ \E c \in Clients, j \in Ids : Invite(c, j)
        \/ \E j \in Ids : Expire(j) \/ Resend(j) \/ Revoke(j)
        \/ \E u \in Users : DeleteAccount(u)
  BY DEF Next, vars, Managing, Inviting, Elsewhere, BeginChangeRole, ChangeRole,
     BeginLower, Remove, Deactivate, BeginJoinTeam, JoinTeam, BeginInvite,
     BeginAccept, Dies, Reactivate, LeaveTeam, ChangeEmail, DeleteOrganization,
     ChangePlan
<1>10. Open(i) => invitations[i] # NotInserted
  BY DEF Open, NotInserted
<1>11. ~(Gone.state = "open") /\ Gone # NotInserted
  BY DEF Gone, NotInserted
<1> QED
  BY <1>2, <1>3, <1>4, <1>5, <1>6, <1>7, <1>8, <1>9, <1>10, <1>11 DEF Open

(* Somebody becomes a member by accepting, and stops being one by removal  *)
(* or with an account.                                                     *)
LEMMA MembershipMoves ==
  ASSUME TypeOK, [Next]_vars, NEW u \in Users
  PROVE  /\ IsMember(u)' /\ ~IsMember(u) =>
              \E c \in Clients : Accept(c) /\ requests[c].user = u
         /\ IsMember(u) /\ ~IsMember(u)' =>
              \/ \E c \in Clients : Remove(c)
              \/ \E v \in Users : DeleteAccount(v)
<1>1. members \in [Users -> Membership \cup {NoMember}]
  BY DEF TypeOK
<1>2. CASE members'[u] = members[u]
  BY <1>2 DEF IsMember
<1>3. ASSUME NEW c \in Clients, ChangeRole(c) \/ Deactivate(c),
             members'[u] # members[u]
      PROVE  IsMember(u) /\ IsMember(u)'
  <2>1. IsMember(u) /\ requests[c].user = u
    BY <1>1, <1>3, RequestTyped DEF ChangeRole, Deactivate
  <2>2. CASE ChangeRole(c)
    <3>1. members'[u] = [members[u] EXCEPT !.role = requests[c].role]
      BY <1>1, <2>1, <2>2 DEF ChangeRole
    <3>2. requests[c].role \in Roles
      BY <2>2, RequestTyped DEF ChangeRole
    <3>3. members'[u] \in Membership
      BY <2>1, <3>1, <3>2, Altered
    <3> QED
      BY <2>1, <3>3 DEF IsMember, Membership, NoMember, Roles
  <2>3. CASE Deactivate(c)
    <3>1. members'[u] = [members[u] EXCEPT !.status = "deactivated"]
      BY <1>1, <2>1, <2>3 DEF Deactivate
    <3>2. members'[u] \in Membership
      BY <2>1, <3>1, Altered
    <3> QED
      BY <2>1, <3>2 DEF IsMember, Membership, NoMember, Roles
  <2> QED
    BY <1>3, <2>2, <2>3
<1>4. ASSUME NEW v \in Users, Reactivate(v), members'[u] # members[u]
      PROVE  IsMember(u) /\ IsMember(u)'
  <2>1. IsMember(u) /\ v = u
    BY <1>1, <1>4 DEF Reactivate
  <2>2. members'[u] \in Membership
    BY <1>1, <1>4, <2>1, Altered DEF Reactivate
  <2> QED
    BY <2>1, <2>2 DEF IsMember, Membership, NoMember, Roles
<1>5. ASSUME NEW c \in Clients, Remove(c)
      PROVE  ~(IsMember(u)' /\ ~IsMember(u))
  BY <1>1, <1>5, RequestTyped DEF Remove, Detached, IsMember
<1>6. ASSUME NEW v \in Users, DeleteAccount(v)
      PROVE  ~(IsMember(u)' /\ ~IsMember(u))
  BY <1>1, <1>6 DEF DeleteAccount, IsMember
<1>7. ASSUME NEW c \in Clients, Accept(c), members'[u] # members[u]
      PROVE  requests[c].user = u /\ IsMember(u)'
  <2>1. requests[c].user = u
    BY <1>1, <1>7 DEF Accept
  <2>2. members'[u] = [role |-> requests[c].role, status |-> "active"]
    BY <1>1, <1>7, <2>1 DEF Accept
  <2> QED
    BY <2>1, <2>2 DEF IsMember, NoMember
<1>8. members'[u] # members[u] =>
        \/ \E c \in Clients : ChangeRole(c) \/ Deactivate(c) \/ Remove(c) \/ Accept(c)
        \/ \E v \in Users : Reactivate(v) \/ DeleteAccount(v)
  BY DEF Next, vars, Managing, Inviting, Elsewhere, BeginChangeRole, BeginLower,
     BeginJoinTeam, JoinTeam, BeginInvite, ClearInvite, Invite, BeginAccept, Dies,
     Expire, Resend, Revoke, LeaveTeam, ChangeEmail, DeleteOrganization, ChangePlan
<1> QED
  BY <1>2, <1>3, <1>4, <1>5, <1>6, <1>7, <1>8

-----------------------------------------------------------------------------
(* Open invitations.                                                       *)

\* Between the two statements of an invitation its address has none open.
Cleared ==
  \A c \in Clients : requests[c].op = "cleared" =>
    \A i \in Ids : Open(i) => invitations[i].email # requests[c].email

LEMMA InitRequests == Init => \A c \in Clients : requests[c].op = "idle"
BY DEF Init, Idle

LEMMA ClearedStep ==
  ASSUME TypeOK, Serial, Cleared, [Next]_vars
  PROVE  Cleared'
<1> SUFFICES ASSUME NEW c \in Clients, requests'[c].op = "cleared",
                    NEW i \in Ids, Open(i)'
             PROVE  invitations'[i].email # requests'[c].email
  BY DEF Cleared
<1>0. requests'[c] # Idle
  BY DEF Idle
<1>1. CASE requests'[c] = requests[c]
  <2>1. \A d \in Clients : ~Invite(d, i)
    BY <1>0 DEF Serial, Invite, TypeOK
  <2>2. Open(i) /\ invitations'[i].email = invitations[i].email
    BY <2>1, RowMoves
  <2> QED
    BY <1>1, <2>2 DEF Cleared
<1>2. CASE requests'[c] # requests[c]
  <2>1. ClearInvite(c)
    BY <1>0, <1>2, RequestMoves DEF BeginChangeRole, BeginLower, BeginJoinTeam,
       BeginInvite, BeginAccept, TypeOK
  <2>2. invitations'[i] = IF i \in ToRefresh(requests[c].email) THEN Gone
                          ELSE invitations[i]
    BY <2>1 DEF ClearInvite
  <2>3. requests[c] \in [op : {"invite", "cleared"}, email : Emails, role : Roles]
    BY <2>1 DEF ClearInvite, TypeOK, Request, Idle
  <2>4. requests'[c].email = requests[c].email
    BY <2>1, <2>3 DEF ClearInvite, TypeOK
  <2> QED
    BY <2>2, <2>4 DEF ToRefresh, Open, Gone
<1> QED
  BY <1>1, <1>2

LEMMA OneOpenStep ==
  ASSUME TypeOK, Cleared, OneOpenInvitation, [Next]_vars
  PROVE  OneOpenInvitation'
<1> SUFFICES ASSUME NEW i \in Ids, NEW j \in Ids, Open(i)', Open(j)',
                    invitations'[i].email = invitations'[j].email, i # j
             PROVE  FALSE
  BY DEF OneOpenInvitation
<1>1. ASSUME NEW c \in Clients, NEW k \in Ids, NEW l \in Ids, k # l,
             Invite(c, k), Open(l)',
             invitations'[k].email = invitations'[l].email
      PROVE  FALSE
  <2>1. invitations'[l] = invitations[l] /\ invitations'[k].email = requests[c].email
    BY <1>1 DEF Invite, TypeOK
  <2> QED
    BY <1>1, <2>1 DEF Cleared, Invite, Open
<1>2. \A c \in Clients : ~Invite(c, i) /\ ~Invite(c, j)
  BY <1>1
<1> QED
  BY <1>2, RowMoves DEF OneOpenInvitation

(* Refreshing leaves one open invitation to an address, if no two requests *)
(* invite it at once.                                                      *)
THEOREM InvitationsDoNotPileUp ==
  ASSUME Serial PROVE Spec => []OneOpenInvitation
<1>1. Init => TypeOK /\ Cleared /\ OneOpenInvitation
  BY InitTyped, InitRequests DEF Init, Cleared, OneOpenInvitation, Open, NotInserted
<1>2. TypeOK /\ Cleared /\ OneOpenInvitation /\ [Next]_vars
        => (TypeOK /\ Cleared /\ OneOpenInvitation)'
  BY StepTyped, ClearedStep, OneOpenStep
<1> QED
  BY <1>1, <1>2, PTL DEF Spec

-----------------------------------------------------------------------------
(* An invitation that may still be accepted has let nobody in.             *)

Unspent ==
  /\ \A i \in Ids : uses[i] <= 1
  /\ \A i \in Ids : Open(i) \/ invitations[i] = NotInserted => uses[i] = 0
  /\ \A c \in Clients : requests[c].op = "accept" =>
       uses[requests[c].id] = 0 /\ invitations[requests[c].id] # NotInserted

LEMMA UsesMove ==
  ASSUME TypeOK, [Next]_vars, NEW i \in Ids, uses'[i] # uses[i]
  PROVE  \E c \in Clients : /\ Accept(c)
                            /\ requests[c].id = i
                            /\ uses'[i] = uses[i] + 1
<1>1. PICK c \in Clients : Accept(c)
  BY DEF Next, vars, Managing, Inviting, Elsewhere, BeginChangeRole, ChangeRole,
     BeginLower, Remove, Deactivate, BeginJoinTeam, JoinTeam, BeginInvite,
     ClearInvite, Invite, BeginAccept, Dies, Reactivate, LeaveTeam, DeleteAccount,
     Expire, Resend, Revoke, ChangeEmail, DeleteOrganization, ChangePlan
<1> QED
  BY <1>1 DEF Accept, TypeOK

LEMMA UnspentStep ==
  ASSUME TypeOK, Serial, Unspent, [Next]_vars
  PROVE  Unspent'
<1>1. ASSUME NEW i \in Ids
      PROVE  uses'[i] <= 1
  <2>1. CASE uses'[i] = uses[i]
    BY <2>1 DEF Unspent
  <2>2. CASE uses'[i] # uses[i]
    <3>1. PICK c \in Clients : /\ Accept(c)
                               /\ requests[c].id = i
                               /\ uses'[i] = uses[i] + 1
      BY <2>2, UsesMove
    <3>2. uses[i] = 0
      BY <3>1 DEF Accept, Unspent
    <3> QED
      BY <3>1, <3>2
  <2> QED
    BY <2>1, <2>2
<1>2. ASSUME NEW i \in Ids, Open(i)' \/ invitations'[i] = NotInserted
      PROVE  uses'[i] = 0
  <2>1. Open(i) \/ invitations[i] = NotInserted
    BY <1>2, RowMoves DEF Invite
  <2>2. SUFFICES ASSUME uses'[i] # uses[i] PROVE FALSE
    BY <2>1 DEF Unspent
  <2>3. PICK c \in Clients : Accept(c) /\ requests[c].id = i
    BY <2>2, UsesMove
  <2>4. Open(i)
    BY <2>1, <2>3 DEF Unspent, Accept
  <2>5. invitations'[i] = [invitations[i] EXCEPT !.state = "accepted"]
    BY <2>3, <2>4 DEF Accept, TypeOK
  <2>6. invitations[i] \in Invitation
    BY <2>4 DEF TypeOK, Open, NotInserted, Gone
  <2> QED
    BY <1>2, <2>5, <2>6 DEF Open, Invitation, NotInserted
<1>3. ASSUME NEW c \in Clients, requests'[c].op = "accept"
      PROVE  uses'[requests'[c].id] = 0 /\ invitations'[requests'[c].id] # NotInserted
  <2>0. requests'[c] # Idle
    BY <1>3 DEF Idle
  <2>1. CASE requests'[c] = requests[c]
    <3> DEFINE i == requests[c].id
    <3>1. i \in Ids
      BY <1>3, <2>1, RequestTyped
    <3>2. \A d \in Clients : ~Invite(d, i) /\ ~Accept(d)
      BY <2>0, <2>1 DEF Serial, Invite, Accept, TypeOK
    <3>3. uses'[i] = uses[i]
      BY <3>1, <3>2, UsesMove
    <3>4. invitations'[i] # NotInserted
      BY <1>3, <2>1, <3>1, <3>2, RowMoves DEF Unspent
    <3> QED
      BY <1>3, <2>1, <3>3, <3>4 DEF Unspent
  <2>2. CASE requests'[c] # requests[c]
    <3>0. ~ClearInvite(c)
      <4>1. SUFFICES ASSUME ClearInvite(c) PROVE FALSE
        OBVIOUS
      <4>2. requests[c] \in [op : {"invite", "cleared"}, email : Emails, role : Roles]
        BY <4>1 DEF ClearInvite, TypeOK, Request, Idle
      <4> QED
        BY <1>3, <4>1, <4>2 DEF ClearInvite, TypeOK
    <3>1. PICK i \in Ids, u \in Users : BeginAccept(c, i, u)
      BY <1>3, <2>0, <2>2, <3>0, RequestMoves DEF BeginChangeRole, BeginLower,
         BeginJoinTeam, BeginInvite, TypeOK
    <3>2. requests'[c].id = i /\ uses' = uses /\ invitations' = invitations
      BY <3>1 DEF BeginAccept, TypeOK
    <3> QED
      BY <3>1, <3>2 DEF BeginAccept, Pending, Unspent, Open, NotInserted
  <2> QED
    BY <2>1, <2>2
<1> QED
  BY <1>1, <1>2, <1>3 DEF Unspent

(* An invitation lets somebody in once at most, if it is not accepted by   *)
(* two requests at once.                                                   *)
THEOREM InvitationsAreSingleUse ==
  ASSUME Serial PROVE Spec => []UsedOnce
<1>1. Init => TypeOK /\ Unspent
  BY InitTyped, InitRequests DEF Init, Unspent
<1>2. TypeOK /\ Unspent /\ [Next]_vars => (TypeOK /\ Unspent)'
  BY StepTyped, UnspentStep
<1>3. Unspent => UsedOnce
  BY DEF Unspent, UsedOnce
<1> QED
  BY <1>1, <1>2, <1>3, PTL DEF Spec

-----------------------------------------------------------------------------
(* Teams.                                                                  *)

\* Who is about to join a team is a member, unless the account or the
\* organization has been deleted since.
Joining ==
  \A c \in Clients : requests[c].op = "team" =>
    \/ IsMember(requests[c].user)
    \/ email[requests[c].user] = "none"
    \/ org = "erased"

TeamKept == TeamOfMembers /\ Joining

LEMMA ElsewhereRequests == Elsewhere => requests' = requests /\ uses' = uses
BY DEF Elsewhere, Reactivate, LeaveTeam, DeleteAccount, Expire, Resend, Revoke,
   ChangeEmail, DeleteOrganization, ChangePlan

(* What goes on elsewhere adds no member, and ends a membership only with  *)
(* an account.                                                             *)
LEMMA ElsewhereMembership ==
  ASSUME TypeOK, Elsewhere, NEW u \in Users
  PROVE  /\ IsMember(u)' => IsMember(u)
         /\ IsMember(u) => \/ IsMember(u)'
                           \/ email'[u] = "none"
                           \/ org' = "erased"
         /\ email[u] = "none" => email'[u] = "none"
         /\ org = "erased" => org' = "erased"
<1>1. \A c \in Clients : ~Remove(c) /\ ~Accept(c)
  BY ElsewhereRequests DEF Remove, Accept, TypeOK, Idle
<1>2. /\ IsMember(u)' => IsMember(u)
      /\ IsMember(u) => IsMember(u)' \/ \E v \in Users : DeleteAccount(v)
  BY <1>1, MembershipMoves DEF Next
<1>3. ASSUME NEW v \in Users, DeleteAccount(v)
      PROVE  /\ IsMember(u) => \/ IsMember(u)'
                               \/ email'[u] = "none"
                               \/ org' = "erased"
             /\ email[u] = "none" => email'[u] = "none"
             /\ org = "erased" => org' = "erased"
  BY <1>3 DEF DeleteAccount, IsMember, TypeOK
<1>4. ASSUME NEW v \in Users, NEW m \in Emails, ChangeEmail(v, m)
      PROVE  (email[u] = "none" => email'[u] = "none") /\ org' = org
  BY <1>4 DEF ChangeEmail, TypeOK
<1>5. \/ \E v \in Users : DeleteAccount(v)
      \/ \E v \in Users, m \in Emails : ChangeEmail(v, m)
      \/ email' = email /\ (org = "erased" => org' = "erased")
  BY DEF Elsewhere, Reactivate, LeaveTeam, Expire, Resend, Revoke,
     DeleteOrganization, ChangePlan
<1> QED
  BY <1>2, <1>3, <1>4, <1>5

LEMMA JoiningStep ==
  ASSUME TypeOK, Serial, Joining, [Next]_vars
  PROVE  Joining'
<1> SUFFICES ASSUME NEW c \in Clients, requests'[c].op = "team"
             PROVE  \/ members'[requests'[c].user] # NoMember
                    \/ email'[requests'[c].user] = "none"
                    \/ org' = "erased"
  BY DEF Joining, IsMember
<1>0. requests'[c] # Idle
  BY DEF Idle
<1>1. CASE requests'[c] = requests[c]
  <2>1. requests[c].user \in Users
    BY <1>1, RequestTyped
  <2>2. CASE UNCHANGED vars
    BY <1>1, <2>2 DEF vars, Joining, IsMember
  <2>3. CASE Elsewhere
    BY <1>1, <2>1, <2>3, ElsewhereMembership DEF Joining, IsMember
  <2> QED
    BY <1>0, <1>1, <2>2, <2>3, Undisturbed
<1>2. CASE requests'[c] # requests[c]
  <2>1. ~ClearInvite(c)
    <3>1. SUFFICES ASSUME ClearInvite(c) PROVE FALSE
      OBVIOUS
    <3>2. requests[c] \in [op : {"invite", "cleared"}, email : Emails, role : Roles]
      BY <3>1 DEF ClearInvite, TypeOK, Request, Idle
    <3> QED
      BY <3>1, <3>2 DEF ClearInvite, TypeOK
  <2>2. PICK u \in Users : BeginJoinTeam(c, u)
    BY <1>0, <1>2, <2>1, RequestMoves DEF BeginChangeRole, BeginLower,
       BeginInvite, BeginAccept, TypeOK
  <2> QED
    BY <2>2 DEF BeginJoinTeam, IsMember, TypeOK
<1> QED
  BY <1>1, <1>2

LEMMA TeamStep ==
  ASSUME TypeOK, TeamKept, [Next]_vars
  PROVE  TeamOfMembers'
<1> SUFFICES ASSUME NEW u \in Users, u \in team', ~IsMember(u)'
             PROVE  FALSE
  BY StepTyped DEF TeamOfMembers, TypeOK
<1>1. CASE u \notin team
  <2>1. PICK c \in Clients : JoinTeam(c)
    BY <1>1 DEF Next, vars, Managing, Inviting, Elsewhere, BeginChangeRole,
       ChangeRole, BeginLower, Remove, TeamWithout, Deactivate, BeginJoinTeam,
       BeginInvite, ClearInvite, Invite, BeginAccept, Accept, Dies, Reactivate,
       LeaveTeam, DeleteAccount, Expire, Resend, Revoke, ChangeEmail,
       DeleteOrganization, ChangePlan
  <2>2. requests[c].user = u
    BY <1>1, <2>1 DEF JoinTeam
  <2> QED
    BY <2>1, <2>2 DEF JoinTeam, TeamKept, Joining, IsMember
<1>2. CASE u \in team
  <2>1. \/ \E c \in Clients : Remove(c)
        \/ \E v \in Users : DeleteAccount(v)
    BY <1>2, MembershipMoves DEF TeamKept, TeamOfMembers
  <2>2. ASSUME NEW c \in Clients, Remove(c)
        PROVE  FALSE
    <3>1. u # requests[c].user
      BY <2>2 DEF Remove, TeamWithout
    <3> QED
      BY <1>2, <2>2, <3>1 DEF Remove, TeamKept, TeamOfMembers, IsMember, TypeOK
  <2>3. ASSUME NEW v \in Users, DeleteAccount(v)
        PROVE  FALSE
    BY <1>2, <2>3 DEF DeleteAccount, TeamKept, TeamOfMembers, IsMember, TypeOK
  <2> QED
    BY <2>1, <2>2, <2>3
<1> QED
  BY <1>1, <1>2

(* Nobody stays on a team, or gets onto one, after leaving the             *)
(* organization.                                                           *)
THEOREM TeamsFollowMembership ==
  ASSUME Serial PROVE Spec => []TeamOfMembers
<1>1. Init => TypeOK /\ TeamKept
  BY InitTyped, InitRequests DEF Init, TeamKept, TeamOfMembers, Joining
<1>2. TypeOK /\ TeamKept /\ [Next]_vars => (TypeOK /\ TeamKept)'
  BY StepTyped, JoiningStep, TeamStep DEF TeamKept
<1> QED
  BY <1>1, <1>2, PTL DEF Spec, TeamKept

-----------------------------------------------------------------------------
(* Whom an invitation may reach.                                           *)

\* Nobody takes over an address.
Settled == \A u \in Users : email[u] \in {First[u], "none"}

\* What an invitation was checked for still holds when it is written.
Asked ==
  \A c \in Clients : requests[c].op \in {"invite", "cleared"} =>
    ~IsMembersAddress(requests[c].email)

\* Who is about to accept is no member and has no other invitation.
Entering ==
  \A c \in Clients : requests[c].op = "accept" =>
    /\ ~IsMember(requests[c].user)
    /\ \A j \in Ids :
         Open(j) /\ invitations[j].email = email[requests[c].user] =>
           j = requests[c].id

Apart == Settled /\ Asked /\ Entering /\ MembersNotInvited

LEMMA SettledStep ==
  ASSUME TypeOK, ~Readdresses, Settled, [Next]_vars
  PROVE  /\ \A u \in Users : email'[u] \in {email[u], "none"}
         /\ Settled'
<1>1. ASSUME NEW v \in Users, DeleteAccount(v)
      PROVE  \A u \in Users : email'[u] \in {email[u], "none"}
  BY <1>1 DEF DeleteAccount, TypeOK
<1>2. email' = email \/ \E v \in Users : DeleteAccount(v)
  BY DEF Next, vars, Managing, Inviting, Elsewhere, BeginChangeRole, ChangeRole,
     BeginLower, Remove, Deactivate, BeginJoinTeam, JoinTeam, BeginInvite,
     ClearInvite, Invite, BeginAccept, Accept, Dies, Reactivate, LeaveTeam,
     Expire, Resend, Revoke, ChangeEmail, DeleteOrganization, ChangePlan
<1>3. \A u \in Users : email'[u] \in {email[u], "none"}
  BY <1>1, <1>2
<1> QED
  BY <1>3 DEF Settled

(* An open invitation is for an address.                                   *)
LEMMA OpenAddress ==
  ASSUME TypeOK, NEW i \in Ids, Open(i)
  PROVE  invitations[i] \in Invitation /\ invitations[i].email # "none"
<1>1. invitations[i] \in Invitation
  BY DEF TypeOK, Open, NotInserted, Gone
<1> QED
  BY <1>1, MembersAssumption DEF Invitation

LEMMA AskedStep ==
  ASSUME TypeOK, Serial, ~Readdresses, Settled, Asked, [Next]_vars
  PROVE  Asked'
<1> SUFFICES ASSUME NEW c \in Clients, requests'[c].op \in {"invite", "cleared"},
                    NEW u \in Users, members'[u] # NoMember,
                    email'[u] = requests'[c].email
             PROVE  FALSE
  BY DEF Asked, IsMembersAddress, IsMember
<1>0. requests'[c] # Idle
  BY DEF Idle
<1>1. CASE requests'[c] = requests[c]
  <2>1. requests[c].email # "none"
    BY <1>1, RequestTyped, MembersAssumption
  <2>2. email[u] = requests[c].email
    BY <1>1, <2>1, SettledStep
  <2>3. IsMember(u)
    BY <1>0, <1>1, Undisturbed, ElsewhereMembership DEF vars, IsMember
  <2> QED
    BY <1>1, <2>2, <2>3 DEF Asked, IsMembersAddress
<1>2. CASE requests'[c] # requests[c]
  <2>1. \/ \E m \in Emails, r \in Roles : BeginInvite(c, m, r)
        \/ ClearInvite(c)
    BY <1>0, <1>2, RequestMoves DEF BeginChangeRole, BeginLower, BeginJoinTeam,
       BeginAccept, TypeOK
  <2>2. ASSUME NEW m \in Emails, NEW r \in Roles, BeginInvite(c, m, r)
        PROVE  FALSE
    BY <2>2 DEF BeginInvite, IsMembersAddress, IsMember, TypeOK
  <2>3. CASE ClearInvite(c)
    <3>1. requests[c] \in [op : {"invite", "cleared"}, email : Emails, role : Roles]
      BY <2>3 DEF ClearInvite, TypeOK, Request, Idle
    <3>2. requests'[c].email = requests[c].email
      BY <2>3, <3>1 DEF ClearInvite, TypeOK
    <3> QED
      BY <2>3, <3>1, <3>2 DEF ClearInvite, Asked, IsMembersAddress, IsMember
  <2> QED
    BY <2>1, <2>2, <2>3
<1> QED
  BY <1>1, <1>2

LEMMA EnteringStep ==
  ASSUME TypeOK, Serial, ~Readdresses, Settled, OneOpenInvitation, Entering,
         MembersNotInvited, [Next]_vars
  PROVE  Entering'
<1> SUFFICES ASSUME NEW c \in Clients, requests'[c].op = "accept"
             PROVE  /\ members'[requests'[c].user] = NoMember
                    /\ \A j \in Ids :
                         Open(j)' /\ invitations'[j].email = email'[requests'[c].user]
                           => j = requests'[c].id
  BY DEF Entering, IsMember
<1>0. requests'[c] # Idle
  BY DEF Idle
<1>1. CASE requests'[c] = requests[c]
  <2>1. requests[c].user \in Users
    BY <1>1, RequestTyped
  <2>2. members'[requests'[c].user] = NoMember
    BY <1>0, <1>1, <2>1, Undisturbed, ElsewhereMembership DEF vars, IsMember, Entering
  <2>3. ASSUME NEW j \in Ids, Open(j)',
               invitations'[j].email = email'[requests'[c].user]
        PROVE  j = requests'[c].id
    <3>1. \A d \in Clients : ~Invite(d, j)
      BY <1>0, <1>1 DEF Serial, Invite, TypeOK
    <3>2. Open(j) /\ invitations'[j].email = invitations[j].email
      BY <2>3, <3>1, RowMoves
    <3>3. invitations[j].email = email[requests[c].user]
      BY <1>1, <2>1, <2>3, <3>2, OpenAddress, SettledStep
    <3> QED
      BY <1>1, <3>2, <3>3 DEF Entering
  <2> QED
    BY <2>2, <2>3
<1>2. CASE requests'[c] # requests[c]
  <2>1. ~ClearInvite(c)
    <3>1. SUFFICES ASSUME ClearInvite(c) PROVE FALSE
      OBVIOUS
    <3>2. requests[c] \in [op : {"invite", "cleared"}, email : Emails, role : Roles]
      BY <3>1 DEF ClearInvite, TypeOK, Request, Idle
    <3> QED
      BY <3>1, <3>2 DEF ClearInvite, TypeOK
  <2>2. PICK i \in Ids, u \in Users : BeginAccept(c, i, u)
    BY <1>0, <1>2, <2>1, RequestMoves DEF BeginChangeRole, BeginLower,
       BeginJoinTeam, BeginInvite, TypeOK
  <2>3. /\ requests'[c].user = u /\ requests'[c].id = i
        /\ members' = members /\ email' = email /\ invitations' = invitations
        /\ Open(i) /\ invitations[i].email = email[u]
    BY <2>2 DEF BeginAccept, Pending, TypeOK
  <2> QED
    BY <2>3 DEF MembersNotInvited, OneOpenInvitation, Open, IsMember
<1> QED
  BY <1>1, <1>2

LEMMA NotInvitedStep ==
  ASSUME TypeOK, ~Readdresses, Settled, Asked, Entering, MembersNotInvited,
         [Next]_vars
  PROVE  MembersNotInvited'
<1> SUFFICES ASSUME NEW i \in Ids, NEW u \in Users, Open(i)',
                    invitations'[i].email = email'[u], IsMember(u)'
             PROVE  FALSE
  BY DEF MembersNotInvited
<1>1. ASSUME NEW c \in Clients, Invite(c, i)
      PROVE  FALSE
  <2>1. invitations'[i].email = requests[c].email /\ email' = email /\ members' = members
    BY <1>1 DEF Invite, TypeOK
  <2> QED
    BY <1>1, <2>1 DEF Invite, Asked, IsMembersAddress, IsMember
<1>2. Open(i) /\ invitations'[i].email = invitations[i].email
  BY <1>1, RowMoves
<1>3. invitations[i].email = email[u]
  BY <1>2, OpenAddress, SettledStep
<1>4. ~IsMember(u)
  BY <1>2, <1>3 DEF MembersNotInvited
<1>5. PICK c \in Clients : Accept(c) /\ requests[c].user = u
  BY <1>4, MembershipMoves
<1>6. requests[c].id = i
  BY <1>2, <1>3, <1>5 DEF Entering, Accept
<1>7. invitations'[i].state = "accepted"
  BY <1>2, <1>5, <1>6, OpenAddress DEF Accept, TypeOK, Invitation
<1> QED
  BY <1>7 DEF Open

LEMMA InitApart == Init => Apart
BY InitRequests DEF Init, Apart, Settled, Asked, Entering, MembersNotInvited, Open,
   NotInserted

LEMMA ApartStep ==
  ASSUME TypeOK, Serial, ~Readdresses, Apart, OneOpenInvitation, [Next]_vars
  PROVE  Apart'
BY SettledStep, AskedStep, EnteringStep, NotInvitedStep DEF Apart

(* Whoever is a member has no invitation open that would write over the    *)
(* membership, if nobody changes address.                                  *)
THEOREM MembersAreNotInvited ==
  ASSUME Serial, ~Readdresses PROVE Spec => []MembersNotInvited
<1> DEFINE Inv == TypeOK /\ Cleared /\ OneOpenInvitation /\ Apart
<1>1. Init => Inv
  BY InitTyped, InitRequests, InitApart
     DEF Init, Cleared, OneOpenInvitation, Open, NotInserted
<1>2. Inv /\ [Next]_vars => Inv'
  BY StepTyped, ClearedStep, OneOpenStep, ApartStep
<1>3. Inv => MembersNotInvited
  BY DEF Apart
<1> QED
  BY <1>1, <1>2, <1>3, PTL DEF Spec

-----------------------------------------------------------------------------
(* The last owner.                                                         *)

\* Does the request of c, when it writes, end that its user is an owner?
Lowers(c) ==
  \/ requests[c].op \in {"remove", "deactivate"}
  \/ requests[c].op = "role" /\ requests[c].role # "owner"

\* A request that was allowed to lower somebody leaves another owner.
OwnerSafe ==
  \A c \in Clients : Lowers(c) /\ org = "there" =>
    \E v \in Owners : v # requests[c].user

(* Only the request of an owner's own row makes an owner none.             *)
LEMMA OwnerStays ==
  ASSUME TypeOK, ~Departures, Entering, [Next]_vars, NEW v \in Users, v \in Owners
  PROVE  \/ v \in Owners'
         \/ \E c \in Clients : Lowers(c) /\ requests[c].user = v /\ requests'[c] = Idle
<1>1. members[v].status = "active" /\ members[v].role = "owner" /\ IsMember(v)
  BY DEF Owners, Active, IsMember, NoMember
<1>2. members[v] \in Membership
  BY <1>1 DEF TypeOK, IsMember
<1>3. CASE members'[v] = members[v]
  BY <1>1, <1>3 DEF Owners, Active
<1>4. ASSUME NEW c \in Clients, ChangeRole(c), members'[v] # members[v]
      PROVE  requests[c].user = v /\ (Lowers(c) \/ v \in Owners')
  <2>1. requests[c].user = v
    BY <1>4 DEF ChangeRole, TypeOK
  <2>2. members'[v] = [members[v] EXCEPT !.role = requests[c].role]
    BY <1>1, <1>4, <2>1 DEF ChangeRole, TypeOK
  <2>3. requests[c].role = "owner" => v \in Owners'
    BY <1>1, <1>2, <2>2 DEF Owners, Active, Membership
  <2> QED
    BY <1>4, <2>1, <2>3 DEF ChangeRole, Lowers
<1>5. ASSUME NEW c \in Clients, Remove(c) \/ Deactivate(c), members'[v] # members[v]
      PROVE  Lowers(c) /\ requests[c].user = v
  BY <1>5, RequestTyped DEF Remove, Deactivate, Lowers, TypeOK
<1>6. ASSUME NEW u \in Users, Reactivate(u), members'[v] # members[v]
      PROVE  v \in Owners'
  <2>1. members'[v] = [members[v] EXCEPT !.status = "active"]
    BY <1>6 DEF Reactivate, TypeOK
  <2> QED
    BY <1>1, <1>2, <2>1 DEF Owners, Active, Membership
<1>7. ASSUME NEW c \in Clients, Accept(c)
      PROVE  members'[v] = members[v]
  BY <1>1, <1>7, RequestTyped DEF Accept, Entering, TypeOK
<1>8. members'[v] # members[v] =>
        \/ \E c \in Clients : ChangeRole(c) \/ Deactivate(c) \/ Remove(c) \/ Accept(c)
        \/ \E u \in Users : Reactivate(u)
  BY DEF Next, vars, Managing, Inviting, Elsewhere, BeginChangeRole, BeginLower,
     BeginJoinTeam, JoinTeam, BeginInvite, ClearInvite, Invite, BeginAccept, Dies,
     Expire, Resend, Revoke, LeaveTeam, ChangeEmail, DeleteAccount,
     DeleteOrganization, ChangePlan
<1>9. \A c \in Clients :
        ChangeRole(c) \/ Remove(c) \/ Deactivate(c) => requests'[c] = Idle
  BY DEF ChangeRole, Remove, Deactivate, TypeOK
<1> QED
  BY <1>3, <1>4, <1>5, <1>6, <1>7, <1>8, <1>9

LEMMA OrganizationStays ==
  ASSUME TypeOK, [Next]_vars, org' = "there"
  PROVE  org = "there"
BY DEF Next, vars, Managing, Inviting, Elsewhere, BeginChangeRole, ChangeRole,
   BeginLower, Remove, Deactivate, BeginJoinTeam, JoinTeam, BeginInvite,
   ClearInvite, Invite, BeginAccept, Accept, Dies, Reactivate, LeaveTeam,
   DeleteAccount, Expire, Resend, Revoke, ChangeEmail, DeleteOrganization,
   ChangePlan

LEMMA OwnerKeptStep ==
  ASSUME TypeOK, Serial, ~Departures, Entering, OwnerSafe, OwnerKept, [Next]_vars
  PROVE  OwnerKept'
<1> SUFFICES ASSUME org' = "there" PROVE Owners' # {}
  BY DEF OwnerKept
<1>1. org = "there"
  BY OrganizationStays
<1>2. PICK v \in Owners : TRUE
  BY <1>1 DEF OwnerKept
<1>3. SUFFICES ASSUME NEW c \in Clients, Lowers(c), requests[c].user = v,
                      requests'[c] = Idle
               PROVE  Owners' # {}
  BY <1>2, OwnerStays DEF Owners, Active
<1>4. PICK w \in Owners : w # v
  BY <1>1, <1>3 DEF OwnerSafe
<1>5. w \in Owners' \/ \E d \in Clients : requests[d].user = w
  BY <1>4, OwnerStays DEF Owners, Active
<1> QED
  BY <1>3, <1>4, <1>5 DEF Serial

LEMMA OwnerSafeStep ==
  ASSUME TypeOK, Serial, ~Departures, Entering, OwnerSafe, OwnerKept, [Next]_vars
  PROVE  OwnerSafe'
<1> SUFFICES ASSUME NEW c \in Clients, Lowers(c)', org' = "there"
             PROVE  \E v \in Owners' : v # requests'[c].user
  BY DEF OwnerSafe
<1>0. requests'[c] # Idle
  BY DEF Lowers, Idle
<1>1. org = "there"
  BY OrganizationStays
<1>2. CASE requests'[c] = requests[c]
  <2>1. PICK v \in Owners : v # requests[c].user
    BY <1>1, <1>2 DEF OwnerSafe, Lowers
  <2>2. v \in Owners'
    BY <1>0, <1>2, <2>1, OwnerStays DEF Serial, Owners, Active
  <2> QED
    BY <1>2, <2>1, <2>2
<1>3. CASE requests'[c] # requests[c]
  <2>1. ~ClearInvite(c)
    <3>1. SUFFICES ASSUME ClearInvite(c) PROVE FALSE
      OBVIOUS
    <3>2. requests[c] \in [op : {"invite", "cleared"}, email : Emails, role : Roles]
      BY <3>1 DEF ClearInvite, TypeOK, Request, Idle
    <3> QED
      BY <3>1, <3>2 DEF ClearInvite, TypeOK, Lowers
  <2>2. \/ \E u \in Users, r \in Roles : BeginChangeRole(c, u, r)
        \/ \E u \in Users, op \in {"remove", "deactivate"} : BeginLower(c, u, op)
    BY <1>0, <1>3, <2>1, RequestMoves DEF BeginJoinTeam, BeginInvite, BeginAccept,
       TypeOK, Lowers
  <2>3. PICK u \in Users : /\ ~IsLastOwner(u)
                           /\ requests'[c].user = u
                           /\ members' = members
    BY <2>2 DEF BeginChangeRole, BeginLower, TypeOK, Lowers
  <2>4. Owners' = Owners
    BY <2>3 DEF Owners, Active
  <2>5. Owners # {} /\ Owners # {u}
    BY <1>1, <2>3 DEF OwnerKept, IsLastOwner
  <2> QED
    BY <2>3, <2>4, <2>5
<1> QED
  BY <1>2, <1>3

(* An organization keeps an active owner: whatever is checked, written,    *)
(* invited, accepted or revoked in between, if requests do not overlap and *)
(* nobody changes address or deletes the account.                          *)
THEOREM AnOwnerIsKept ==
  ASSUME Serial, ~Readdresses, ~Departures PROVE Spec => []OwnerKept
<1> DEFINE Inv == /\ TypeOK /\ Cleared /\ OneOpenInvitation /\ Apart
                  /\ OwnerSafe /\ OwnerKept
<1>1. Init => Inv
  <2> SUFFICES ASSUME Init PROVE Inv
    OBVIOUS
  <2>1. Creator \in Owners
    BY MembersAssumption DEF Init, Owners, Active
  <2> QED
    BY <2>1, InitTyped, InitRequests, InitApart
       DEF Init, Cleared, OneOpenInvitation, Open, NotInserted, OwnerSafe, OwnerKept,
       Lowers
<1>2. Inv /\ [Next]_vars => Inv'
  BY StepTyped, ClearedStep, OneOpenStep, ApartStep, OwnerSafeStep, OwnerKeptStep
     DEF Apart
<1> QED
  BY <1>1, <1>2, PTL DEF Spec

-----------------------------------------------------------------------------
(* The seats of the plan.                                                  *)

Waiting == {i \in Ids : Pending(i)}

\* A seat is kept free for who was invited, or for who accepts what has
\* expired or been revoked since.
Reserved ==
  \A c \in Clients :
    (\/ requests[c].op \in {"invite", "cleared"}
     \/ requests[c].op = "accept" /\ requests[c].id \notin Waiting)
    => SeatsUsed + 1 <= limit

LEMMA SubsetFits ==
  ASSUME NEW S, NEW T, IsFiniteSet(S), T \subseteq S
  PROVE  /\ IsFiniteSet(T)
         /\ Cardinality(T) \in Nat
         /\ Cardinality(S) \in Nat
         /\ Cardinality(T) <= Cardinality(S)
BY FS_Subset, FS_CardinalityType

LEMMA OneMore ==
  ASSUME NEW S, NEW T, NEW x, IsFiniteSet(S), T \subseteq S \cup {x}
  PROVE  /\ Cardinality(T) \in Nat
         /\ Cardinality(S) \in Nat
         /\ Cardinality(T) <= Cardinality(S) + 1
<1>1. /\ IsFiniteSet(S \cup {x})
      /\ Cardinality(S \cup {x}) = IF x \in S THEN Cardinality(S) ELSE Cardinality(S) + 1
  BY FS_AddElement
<1>2. Cardinality(S) \in Nat
  BY FS_CardinalityType
<1>3. Cardinality(T) \in Nat /\ Cardinality(T) <= Cardinality(S \cup {x})
  BY <1>1, SubsetFits
<1> QED
  BY <1>1, <1>2, <1>3

LEMMA OneFewer ==
  ASSUME NEW S, NEW T, NEW x \in S, IsFiniteSet(S), T \subseteq S \ {x}
  PROVE  /\ Cardinality(T) \in Nat
         /\ Cardinality(S) \in Nat
         /\ Cardinality(T) + 1 <= Cardinality(S)
<1>1. IsFiniteSet(S \ {x}) /\ Cardinality(S \ {x}) = Cardinality(S) - 1
  BY FS_RemoveElement
<1>2. Cardinality(S) \in Nat
  BY FS_CardinalityType
<1>3. Cardinality(T) \in Nat /\ Cardinality(T) <= Cardinality(S \ {x})
  BY <1>1, SubsetFits
<1> QED
  BY <1>1, <1>2, <1>3

LEMMA SeatsFinite ==
  /\ IsFiniteSet(Active) /\ Cardinality(Active) \in Nat
  /\ IsFiniteSet(Waiting) /\ Cardinality(Waiting) \in Nat
  /\ SeatsUsed = Cardinality(Active) + Cardinality(Waiting)
BY SubsetFits, MembersAssumption DEF Active, Waiting, SeatsUsed

LEMMA SeatsFiniteNext ==
  /\ IsFiniteSet(Active') /\ Cardinality(Active') \in Nat
  /\ IsFiniteSet(Waiting') /\ Cardinality(Waiting') \in Nat
  /\ SeatsUsed' = Cardinality(Active') + Cardinality(Waiting')
BY SubsetFits, MembersAssumption DEF Active, Waiting, SeatsUsed

(* A seat is taken by accepting, if nobody is reactivated.                 *)
LEMMA ActiveMoves ==
  ASSUME TypeOK, ~Reseats, [Next]_vars, NEW u \in Users,
         u \in Active', u \notin Active
  PROVE  \E c \in Clients : Accept(c) /\ requests[c].user = u
<1>1. members[u] \in Membership \cup {NoMember} /\ members[u].status # "active"
  BY DEF TypeOK, Active
<1>2. ASSUME NEW c \in Clients, ChangeRole(c)
      PROVE  FALSE
  <2>1. \/ members'[u] = members[u]
        \/ IsMember(u) /\ members'[u] = [members[u] EXCEPT !.role = requests[c].role]
    BY <1>2 DEF ChangeRole, TypeOK
  <2> QED
    BY <1>1, <2>1 DEF Active, IsMember, Membership
<1>3. ASSUME NEW c \in Clients, Remove(c) \/ Deactivate(c)
      PROVE  FALSE
  <2>1. \/ members'[u] = members[u]
        \/ members'[u] = NoMember
        \/ IsMember(u) /\ members'[u] = [members[u] EXCEPT !.status = "deactivated"]
    BY <1>3 DEF Remove, Detached, Deactivate, TypeOK
  <2> QED
    BY <1>1, <2>1 DEF Active, IsMember, Membership, NoMember
<1>4. ASSUME NEW v \in Users, DeleteAccount(v)
      PROVE  FALSE
  <2>1. members'[u] = members[u] \/ members'[u] = NoMember
    BY <1>4 DEF DeleteAccount, TypeOK
  <2> QED
    BY <1>1, <2>1 DEF Active, NoMember
<1>5. \/ \E c \in Clients : ChangeRole(c) \/ Deactivate(c) \/ Remove(c) \/ Accept(c)
      \/ \E v \in Users : DeleteAccount(v)
  <2>1. members' # members
    BY DEF Active
  <2> QED
    BY <2>1 DEF Next, vars, Managing, Inviting, Elsewhere, BeginChangeRole,
       BeginLower, BeginJoinTeam, JoinTeam, BeginInvite, ClearInvite, Invite,
       BeginAccept, Dies, Reactivate, Expire, Resend, Revoke, LeaveTeam,
       ChangeEmail, DeleteOrganization, ChangePlan
<1>6. ASSUME NEW c \in Clients, Accept(c)
      PROVE  requests[c].user = u
  <2>1. SUFFICES ASSUME requests[c].user # u PROVE members'[u] = members[u]
    BY DEF Active
  <2> QED
    BY <1>6, <2>1 DEF Accept, TypeOK
<1> QED
  BY <1>2, <1>3, <1>4, <1>5, <1>6

(* An invitation comes to wait only when it is inserted, if none is resent. *)
LEMMA WaitingMoves ==
  ASSUME TypeOK, ~Reseats, [Next]_vars, NEW i \in Ids,
         i \in Waiting', i \notin Waiting
  PROVE  \E c \in Clients : Invite(c, i)
<1> SUFFICES ASSUME \A c \in Clients : ~Invite(c, i) PROVE FALSE
  OBVIOUS
<1>1. Open(i)' /\ Open(i) /\ ~invitations'[i].expired /\ invitations[i].expired
  BY RowMoves DEF Waiting, Pending
<1>2. invitations[i] \in Invitation
  BY <1>1, OpenAddress
<1>3. ASSUME NEW c \in Clients, ClearInvite(c)
      PROVE  FALSE
  <2>1. invitations'[i] = IF i \in ToRefresh(requests[c].email) THEN Gone
                          ELSE invitations[i]
    BY <1>3 DEF ClearInvite
  <2> QED
    BY <1>1, <2>1 DEF Open, Gone
<1>4. ASSUME NEW c \in Clients, NEW j \in Ids, Invite(c, j)
      PROVE  FALSE
  BY <1>1, <1>4 DEF Invite, TypeOK
<1>5. ASSUME NEW c \in Clients, Accept(c)
      PROVE  FALSE
  <2>1. \/ invitations'[i] = invitations[i]
        \/ invitations'[i] = [invitations[i] EXCEPT !.state = "accepted"]
    BY <1>5 DEF Accept, TypeOK
  <2> QED
    BY <1>1, <1>2, <2>1 DEF Open, Invitation
<1>6. ASSUME NEW j \in Ids, Expire(j) \/ Revoke(j)
      PROVE  FALSE
  <2>1. \/ invitations'[i] = invitations[i]
        \/ invitations'[i] = [invitations[i] EXCEPT !.expired = TRUE]
        \/ invitations'[i] = Gone
    BY <1>6 DEF Expire, Revoke, TypeOK
  <2> QED
    BY <1>1, <1>2, <2>1 DEF Open, Invitation, Gone
<1>7. ASSUME NEW v \in Users, DeleteAccount(v)
      PROVE  FALSE
  <2>1. invitations'[i] = invitations[i] \/ invitations'[i] = Gone
          \/ invitations'[i] = NotInserted
    BY <1>7 DEF DeleteAccount, TypeOK
  <2> QED
    BY <1>1, <2>1 DEF Open, Gone, NotInserted
<1> QED
  BY <1>1, <1>3, <1>4, <1>5, <1>6, <1>7
     DEF Next, vars, Managing, Inviting, Elsewhere, BeginChangeRole, ChangeRole,
     BeginLower, Remove, Deactivate, BeginJoinTeam, JoinTeam, BeginInvite,
     BeginAccept, Dies, Reactivate, LeaveTeam, Resend, ChangeEmail,
     DeleteOrganization, ChangePlan

LEMMA LimitStays ==
  ASSUME TypeOK, ~Replans, [Next]_vars
  PROVE  limit' = limit /\ limit \in Nat
<1>1. limit \in Nat
  BY MembersAssumption DEF TypeOK
<1> QED
  BY <1>1 DEF Next, vars, Managing, Inviting, Elsewhere, BeginChangeRole, ChangeRole,
     BeginLower, Remove, Deactivate, BeginJoinTeam, JoinTeam, BeginInvite,
     ClearInvite, Invite, BeginAccept, Accept, Dies, Reactivate, LeaveTeam,
     DeleteAccount, Expire, Resend, Revoke, ChangeEmail, DeleteOrganization,
     ChangePlan

(* Nobody but who accepts and who invites takes a seat.                    *)
LEMMA SeatsDoNotGrow ==
  ASSUME TypeOK, ~Reseats, [Next]_vars,
         \A c \in Clients : ~Accept(c),
         \A c \in Clients, i \in Ids : ~Invite(c, i)
  PROVE  /\ Active' \subseteq Active
         /\ Waiting' \subseteq Waiting
         /\ SeatsUsed' <= SeatsUsed
         /\ SeatsUsed \in Nat /\ SeatsUsed' \in Nat
<1>1. Active' \subseteq Active
  BY ActiveMoves DEF Active
<1>2. Waiting' \subseteq Waiting
  BY WaitingMoves DEF Waiting
<1>3. Cardinality(Active') <= Cardinality(Active)
  BY <1>1, SeatsFinite, SubsetFits
<1>4. Cardinality(Waiting') <= Cardinality(Waiting)
  BY <1>2, SeatsFinite, SubsetFits
<1> QED
  BY <1>1, <1>2, <1>3, <1>4, SeatsFinite, SeatsFiniteNext

LEMMA ReservedStep ==
  ASSUME TypeOK, Serial, ~Reseats, ~Replans, Reserved, SeatsWithinPlan, [Next]_vars
  PROVE  Reserved'
<1>1. SUFFICES ASSUME NEW c \in Clients,
                      \/ requests'[c].op \in {"invite", "cleared"}
                      \/ requests'[c].op = "accept" /\ requests'[c].id \notin Waiting'
               PROVE  SeatsUsed' + 1 <= limit
  BY LimitStays DEF Reserved
<1>2. requests \in [Clients -> Request \cup {Idle}]
  BY DEF TypeOK
<1>3. requests'[c] # Idle
  BY <1>1 DEF Idle
<1>4. CASE requests'[c] = requests[c]
  <2>1. Elsewhere \/ UNCHANGED vars
    BY <1>3, <1>4, Undisturbed
  <2>2. requests' = requests
    BY <2>1, ElsewhereRequests DEF vars
  <2>3. \A d \in Clients : ~Accept(d)
    BY <1>2, <2>2 DEF Accept, Idle
  <2>4. \A d \in Clients, i \in Ids : ~Invite(d, i)
    BY <1>2, <2>2 DEF Invite, Idle
  <2>5. /\ Active' \subseteq Active
        /\ Waiting' \subseteq Waiting
        /\ SeatsUsed' <= SeatsUsed
        /\ SeatsUsed \in Nat /\ SeatsUsed' \in Nat
    BY <2>3, <2>4, SeatsDoNotGrow
  <2>6. CASE SeatsUsed + 1 <= limit
    BY <2>5, <2>6, LimitStays
  <2>7. CASE requests[c].op = "accept" /\ requests[c].id \in Waiting
    <3>1. requests[c].id \notin Waiting'
      BY <1>1, <1>4, <2>7
    <3>2. Waiting' \subseteq Waiting \ {requests[c].id}
      BY <2>5, <3>1
    <3>3. Cardinality(Waiting') + 1 <= Cardinality(Waiting)
      BY <2>7, <3>2, SeatsFinite, OneFewer
    <3>4. Cardinality(Active') <= Cardinality(Active)
      BY <2>5, SeatsFinite, SubsetFits
    <3> QED
      BY <3>3, <3>4, SeatsFinite, SeatsFiniteNext, LimitStays DEF SeatsWithinPlan
  <2> QED
    BY <1>1, <1>4, <2>6, <2>7 DEF Reserved
<1>5. CASE requests'[c] # requests[c]
  <2>1. ASSUME NEW m \in Emails, NEW r \in Roles, BeginInvite(c, m, r)
        PROVE  SeatsUsed' + 1 <= limit
    BY <2>1 DEF BeginInvite, WithinLimit, SeatsUsed, Active, Pending, Open
  <2>2. ASSUME ClearInvite(c)
        PROVE  SeatsUsed' + 1 <= limit
    <3>1. requests[c].op = "invite"
      BY <2>2 DEF ClearInvite
    <3>2. requests'[c].op = "cleared"
      BY <1>2, <2>2, RequestTyped DEF ClearInvite
    <3>3. \A d \in Clients : ~Accept(d)
      BY <3>1 DEF Serial, Accept
    <3>4. \A d \in Clients, i \in Ids : ~Invite(d, i)
      BY <3>1 DEF Serial, Invite
    <3>5. SeatsUsed' <= SeatsUsed /\ SeatsUsed \in Nat /\ SeatsUsed' \in Nat
      BY <3>3, <3>4, SeatsDoNotGrow
    <3>6. SeatsUsed + 1 <= limit
      BY <3>1 DEF Reserved
    <3> QED
      BY <3>5, <3>6, LimitStays
  <2>3. ASSUME NEW i \in Ids, NEW u \in Users, BeginAccept(c, i, u)
        PROVE  FALSE
    <3>1. /\ requests'[c] = [op |-> "accept", user |-> u, id |-> i,
                             role |-> invitations[i].role]
          /\ i \in Waiting'
      BY <1>2, <2>3 DEF BeginAccept, Waiting, Pending, Open
    <3> QED
      BY <1>1, <3>1
  <2>4. ASSUME \/ \E u \in Users, r \in Roles : BeginChangeRole(c, u, r)
               \/ \E u \in Users, op \in {"remove", "deactivate"} : BeginLower(c, u, op)
               \/ \E u \in Users : BeginJoinTeam(c, u)
        PROVE  FALSE
    <3>1. requests'[c].op \in {"role", "remove", "deactivate", "team"}
      BY <1>2, <2>4 DEF BeginChangeRole, BeginLower, BeginJoinTeam
    <3> QED
      BY <1>1, <3>1
  <2> QED
    BY <1>3, <1>5, <2>1, <2>2, <2>3, <2>4, RequestMoves
<1> QED
  BY <1>4, <1>5

LEMMA SeatsStep ==
  ASSUME TypeOK, Serial, ~Reseats, ~Replans, Reserved, SeatsWithinPlan, [Next]_vars
  PROVE  SeatsWithinPlan'
<1>1. limit' = limit /\ limit \in Nat
  BY LimitStays
<1>2. ASSUME NEW c \in Clients, Accept(c)
      PROVE  SeatsUsed' <= limit
  <2> DEFINE u == requests[c].user
             i == requests[c].id
  <2>1. requests[c].op = "accept"
    BY <1>2 DEF Accept
  <2>2. u \in Users /\ i \in Ids
    BY <2>1, RequestTyped
  <2>3. \A d \in Clients, j \in Ids : ~Invite(d, j)
    BY <2>1 DEF Serial, Invite
  <2>4. Waiting' \subseteq Waiting
    BY <2>3, WaitingMoves DEF Waiting
  <2>5. Active' \subseteq Active \cup {u}
    <3>1. ASSUME NEW v \in Users, v \in Active', v \notin Active
          PROVE  v = u
      <4>1. PICK d \in Clients : Accept(d) /\ requests[d].user = v
        BY <3>1, ActiveMoves
      <4> QED
        BY <4>1, <1>2 DEF Serial
    <3> QED
      BY <3>1 DEF Active
  <2>6. Cardinality(Active') <= Cardinality(Active) + 1
    BY <2>5, SeatsFinite, OneMore
  <2>7. CASE i \in Waiting
    <3>1. i \notin Waiting'
      BY <1>2, <2>2, <2>7 DEF Accept, Waiting, Pending, Open, TypeOK
    <3>2. Waiting' \subseteq Waiting \ {i}
      BY <2>4, <3>1
    <3>3. Cardinality(Waiting') + 1 <= Cardinality(Waiting)
      BY <2>7, <3>2, SeatsFinite, OneFewer
    <3> QED
      BY <1>1, <2>6, <3>3, SeatsFinite, SeatsFiniteNext DEF SeatsWithinPlan
  <2>8. CASE i \notin Waiting
    <3>1. SeatsUsed + 1 <= limit
      BY <2>1, <2>8 DEF Reserved
    <3>2. Cardinality(Waiting') <= Cardinality(Waiting)
      BY <2>4, SeatsFinite, SubsetFits
    <3> QED
      BY <1>1, <2>6, <3>1, <3>2, SeatsFinite, SeatsFiniteNext
  <2> QED
    BY <2>7, <2>8
<1>3. ASSUME NEW c \in Clients, NEW i \in Ids, Invite(c, i)
      PROVE  SeatsUsed' <= limit
  <2>1. SeatsUsed + 1 <= limit
    BY <1>3 DEF Invite, Reserved
  <2>2. \A d \in Clients : ~Accept(d)
    BY <1>3 DEF Serial, Invite, Accept
  <2>3. Active' \subseteq Active
    BY <2>2, ActiveMoves DEF Active
  <2>4. Waiting' \subseteq Waiting \cup {i}
    BY <1>3 DEF Invite, Waiting, Pending, Open, TypeOK
  <2>5. Cardinality(Active') <= Cardinality(Active)
    BY <2>3, SeatsFinite, SubsetFits
  <2>6. Cardinality(Waiting') <= Cardinality(Waiting) + 1
    BY <2>4, SeatsFinite, OneMore
  <2> QED
    BY <1>1, <2>1, <2>5, <2>6, SeatsFinite, SeatsFiniteNext
<1>4. CASE /\ \A c \in Clients : ~Accept(c)
           /\ \A c \in Clients, i \in Ids : ~Invite(c, i)
  <2>1. SeatsUsed' <= SeatsUsed /\ SeatsUsed \in Nat /\ SeatsUsed' \in Nat
    BY <1>4, SeatsDoNotGrow
  <2> QED
    BY <1>1, <2>1 DEF SeatsWithinPlan
<1> QED
  BY <1>1, <1>2, <1>3, <1>4 DEF SeatsWithinPlan

LEMMA InitSeats == Init => Reserved /\ SeatsWithinPlan
<1> SUFFICES ASSUME Init PROVE Reserved /\ SeatsWithinPlan
  OBVIOUS
<1>1. Reserved
  BY InitRequests DEF Reserved
<1>2. Active = {Creator}
  BY MembersAssumption DEF Init, Active, NoMember
<1>3. Waiting = {}
  BY DEF Init, Waiting, Pending, Open, NotInserted
<1>4. Cardinality(Active) = 1 /\ Cardinality(Waiting) = 0
  BY <1>2, <1>3, FS_Singleton, FS_EmptySet
<1>5. limit \in Nat /\ limit # 0
  BY MembersAssumption DEF Init
<1> QED
  BY <1>1, <1>4, <1>5, SeatsFinite DEF SeatsWithinPlan

(* The seats taken stay within the plan, where requests do not overlap,    *)
(* nobody is let in again past the check, and the plan stays as it is: an  *)
(* invitation keeps the seat it was granted until it is used, also when it *)
(* expires or is revoked while it is accepted.                             *)
THEOREM SeatsStayWithinPlan ==
  ASSUME Serial, ~Reseats, ~Replans
  PROVE  Spec => []SeatsWithinPlan
<1>1. Init => TypeOK /\ Reserved /\ SeatsWithinPlan
  BY InitTyped, InitSeats
<1>2. TypeOK /\ Reserved /\ SeatsWithinPlan /\ [Next]_vars
        => (TypeOK /\ Reserved /\ SeatsWithinPlan)'
  BY StepTyped, ReservedStep, SeatsStep
<1> QED
  BY <1>1, <1>2, PTL DEF Spec

=============================================================================
