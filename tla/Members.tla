------------------------------ MODULE Members ------------------------------
(***************************************************************************)
(* Who works in which workspace: every request signs its user in, founding *)
(* a workspace for a newcomer, and then invites, accepts, revokes, or asks *)
(* for the workspace's deletion. Requests overlap at every await. Users,   *)
(* their mail, the clock and the audits of a workspace are environment.    *)
(***************************************************************************)
EXTENDS Naturals, Sequences, FiniteSets, FiniteSetsExt, Functions

CONSTANTS
  Users,
  Visits,       \* the requests; a workspace is named by the visit founding it
  TeamLimit,    \* plan.teamMemberLimit: a set of at most one number
  MemberCases   \* [visit: [Visits -> what the request wants, if it is made],
                \* time: how often an invitation may run out, mail: what may
                \* become of a mail]

VARIABLES
  visit,        \* [Visits -> what the request wants, and how far it is]
  members,      \* the OrganizationMember rows, oldest first
  invitation,   \* the WorkspaceInvitation rows, by the visit that invites
  mailed,       \* the invitations whose token reached the guest
  emails,       \* the EmailEvent rows: [invitation -> status]
  busy,         \* the workspace has an active audit
  deletions,    \* the WorkspaceDeletionRequest rows
  time,         \* how often an invitation may still run out
  mail,         \* what may become of a mail
  granted,      \* history: the invitations that took effect, in order
  void,         \* history: closed before anybody had read them as open
  crossed,      \* history: users whose first sign-ins overlapped
  piled         \* history: workspaces with an invitation created while another
                \* was open, or since the count that allowed it has filled up

memberVars == <<visit, members, invitation, mailed, emails, busy, deletions, time, mail,
                granted, void, crossed, piled>>

Nowhere == "nowhere"
MemberRoles == {"owner", "admin", "member"}

ASSUME TeamAssumption == TeamLimit \subseteq Nat \ {0} /\ Nowhere \notin Visits

\* Whose request it is, what it wants, whom it invites in which role, and
\* which invitation it is about, if it is about one.
Wishes ==
  [user: Users, guest: Users, role: {"admin", "member"}, invitation: Visits \cup {"none"},
   wants: {"look", "invite", "accept", "revoke", "delete", "nothing"}]

ASSUME MemberCasesAssumption ==
  \A c \in MemberCases :
    /\ c.visit \in [Visits -> Wishes]
    /\ \A v \in Visits : c.visit[v].wants \in {"accept", "revoke"}
                           => c.visit[v].invitation \in Visits

\* rolePermissions, as far as this module asks for them.
MayManageMembers(role) == role \in {"owner", "admin"}
MayDelete(role) == role = "owner"

MemberInit ==
  /\ \E c \in MemberCases :
       /\ visit = [v \in Visits |->
                     LET wish == c.visit[v] IN
                     [stage |-> "new", workspace |-> Nowhere, user |-> wish.user,
                      wants |-> wish.wants, guest |-> wish.guest, role |-> wish.role,
                      invitation |-> wish.invitation]]
       /\ time = c.time /\ mail = c.mail
  /\ members = <<>>
  /\ invitation = [i \in Visits |-> [status |-> "none", workspace |-> Nowhere,
                                     guest |-> visit[i].guest, role |-> visit[i].role,
                                     expired |-> FALSE]]
  /\ mailed = {} /\ emails = [i \in Visits |-> "none"]
  /\ busy = FALSE /\ deletions = {}
  /\ granted = <<>> /\ void = {} /\ crossed = {} /\ piled = {}

accounts == <<granted, void, crossed, piled>>

VisitAt(v, stage) == visit[v].stage = stage
Goes(v, stage) == visit' = [visit EXCEPT ![v].stage = stage]
Wants(v, what) == visit[v].wants = what

MembershipsOf(u) == {k \in DOMAIN members : members[k].user = u}
MembersOf(w) == {m \in Range(members) : m.workspace = w}
RoleIn(w, u) == {m.role : m \in {n \in MembersOf(w) : n.user = u}}
Founder(w) == visit[w].user

(***************************************************************************)
(* requireAuth, at the head of every request.                              *)
(***************************************************************************)
\* Variant: the newest membership decides.
NewestHome(u) == IF MembershipsOf(u) = {} THEN Nowhere ELSE members[Max(MembershipsOf(u))].workspace

\* The oldest membership decides for which workspace the request acts.
Home(u) == IF MembershipsOf(u) = {} THEN Nowhere ELSE members[Min(MembershipsOf(u))].workspace

SignIn(v) ==
  /\ VisitAt(v, "new") /\ ~Wants(v, "nothing")
  /\ visit' = [visit EXCEPT ![v].workspace = Home(visit[v].user),
                            ![v].stage = IF Home(visit[v].user) = Nowhere
                                         THEN "newcomer" ELSE "in"]
  /\ UNCHANGED <<members, invitation, mailed, emails, busy, deletions, time, mail, accounts>>

FoundWorkspace(v) ==
  /\ VisitAt(v, "newcomer")
  /\ members' = Append(members, [workspace |-> v, user |-> visit[v].user, role |-> "owner"])
  /\ visit' = [visit EXCEPT ![v].workspace = v, ![v].stage = "in"]
  /\ crossed' = crossed \cup {u \in {visit[v].user} : MembershipsOf(u) # {}}
  /\ UNCHANGED <<invitation, mailed, emails, busy, deletions, time, mail, granted, void, piled>>

(***************************************************************************)
(* Inviting.                                                               *)
(***************************************************************************)
AskPermission(v) ==
  /\ VisitAt(v, "in") /\ visit[v].wants \in {"invite", "revoke", "delete"}
  /\ LET roles == RoleIn(visit[v].workspace, visit[v].user)
         may == \E r \in roles : IF Wants(v, "delete") THEN MayDelete(r)
                                                       ELSE MayManageMembers(r)
     IN Goes(v, IF may THEN "permitted" ELSE "refused")
  /\ UNCHANGED <<members, invitation, mailed, emails, busy, deletions, time, mail, accounts>>

TeamIsFull(w) == \E n \in TeamLimit : Cardinality(MembersOf(w)) >= n

CountTeam(v) ==
  /\ VisitAt(v, "permitted") /\ Wants(v, "invite")
  /\ Goes(v, IF TeamIsFull(visit[v].workspace) THEN "refused" ELSE "counted")
  /\ UNCHANGED <<members, invitation, mailed, emails, busy, deletions, time, mail, accounts>>

ReadBy(i) == {v \in Visits : VisitAt(v, "read") /\ visit[v].invitation = i}
Open(w) == {i \in Visits : /\ invitation[i].workspace = w
                           /\ invitation[i].status = "PENDING" \/ ReadBy(i) # {}}

CreateInvitation(v) ==
  /\ VisitAt(v, "counted")
  /\ LET w == visit[v].workspace IN
     /\ invitation' = [invitation EXCEPT ![v].status = "PENDING", ![v].workspace = w]
     /\ piled' = piled \cup {x \in {w} : Open(x) # {} \/ TeamIsFull(x)}
  /\ Goes(v, "created")
  /\ UNCHANGED <<members, mailed, emails, busy, deletions, time, mail, granted, void, crossed>>

\* The token is only ever in the mail: without a provider, or with one that
\* fails, nobody learns it and the row stays open until it runs out.
SendInvitation(v, outcome) ==
  /\ VisitAt(v, "created")
  /\ mailed' = mailed \cup {i \in {v} : outcome \in {"sent", "lost"}}
  /\ emails' = IF outcome \in {"lost", "unreachable"}
               THEN emails ELSE [emails EXCEPT ![v] = outcome]
  /\ Goes(v, "done")
  /\ UNCHANGED <<members, invitation, busy, deletions, time, mail, accounts>>

(***************************************************************************)
(* Accepting: read and judged first, written in a transaction after.       *)
(***************************************************************************)
Row(v) == invitation[visit[v].invitation]
Closes(i, status) ==
  /\ invitation' = [invitation EXCEPT ![i].status = status]
  /\ void' = void \cup {k \in {i} : ReadBy(k) = {} /\ k \notin Range(granted)}

\* Variant: whatever the row's status is.
ReadAnyInvitation(v) ==
  /\ VisitAt(v, "in") /\ Wants(v, "accept") /\ visit[v].invitation \in mailed
  /\ ~Row(v).expired /\ Row(v).guest = visit[v].user
  /\ Goes(v, "read")
  /\ UNCHANGED <<members, invitation, mailed, emails, busy, deletions, time, mail, accounts>>

ReadInvitation(v) ==
  /\ VisitAt(v, "in") /\ Wants(v, "accept") /\ visit[v].invitation \in mailed
  /\ Row(v).status = "PENDING" /\ ~Row(v).expired /\ Row(v).guest = visit[v].user
  /\ Goes(v, "read")
  /\ UNCHANGED <<members, invitation, mailed, emails, busy, deletions, time, mail, accounts>>

FindExpired(v) ==
  /\ VisitAt(v, "in") /\ Wants(v, "accept") /\ visit[v].invitation \in mailed
  /\ Row(v).status = "PENDING" /\ Row(v).expired
  /\ Closes(visit[v].invitation, "EXPIRED")
  /\ Goes(v, "refused")
  /\ UNCHANGED <<members, mailed, emails, busy, deletions, time, mail, granted, crossed, piled>>

RefuseGuest(v) ==
  /\ VisitAt(v, "in") /\ Wants(v, "accept") /\ visit[v].invitation \in mailed
  /\ \/ Row(v).status # "PENDING"
     \/ ~Row(v).expired /\ Row(v).guest # visit[v].user
  /\ Goes(v, "refused")
  /\ UNCHANGED <<members, invitation, mailed, emails, busy, deletions, time, mail, accounts>>

\* Variant: an insert.
JoinedAgain(w, u, role) == Append(members, [workspace |-> w, user |-> u, role |-> role])

\* An upsert: a member of the workspace gets the invited role instead.
Joined(w, u, role) ==
  IF RoleIn(w, u) = {} THEN Append(members, [workspace |-> w, user |-> u, role |-> role])
  ELSE [k \in DOMAIN members |->
          IF members[k].workspace = w /\ members[k].user = u
          THEN [members[k] EXCEPT !.role = role] ELSE members[k]]

\* Whatever has become of the row since it was read.
AcceptInvitation(v) ==
  /\ VisitAt(v, "read")
  /\ members' = Joined(Row(v).workspace, visit[v].user, Row(v).role)
  /\ invitation' = [invitation EXCEPT ![visit[v].invitation].status = "ACCEPTED"]
  /\ granted' = Append(granted, visit[v].invitation)
  /\ Goes(v, "done")
  /\ UNCHANGED <<mailed, emails, busy, deletions, time, mail, void, crossed, piled>>

\* An accepted invitation may be revoked, too; its guest stays a member.
RevokeInvitation(v) ==
  /\ VisitAt(v, "permitted") /\ Wants(v, "revoke")
  /\ Row(v).status # "none"
  /\ IF Row(v).workspace = visit[v].workspace
     THEN Closes(visit[v].invitation, "REVOKED") /\ Goes(v, "done")
     ELSE Goes(v, "refused") /\ UNCHANGED <<invitation, void>>
  /\ UNCHANGED <<members, mailed, emails, busy, deletions, time, mail, granted, crossed, piled>>

(***************************************************************************)
(* Deletion is asked for; nothing in the program carries it out.           *)
(***************************************************************************)
RequestDeletion(v) ==
  /\ VisitAt(v, "permitted") /\ Wants(v, "delete")
  /\ deletions' = deletions \cup {[workspace |-> visit[v].workspace,
                                   status |-> IF busy THEN "BLOCKED" ELSE "REQUESTED"]}
  /\ Goes(v, "done")
  /\ UNCHANGED <<members, invitation, mailed, emails, busy, time, mail, accounts>>

InvitationExpires(i) ==
  /\ time > 0 /\ time' = time - 1
  /\ invitation[i].status = "PENDING" /\ ~invitation[i].expired
  /\ invitation' = [invitation EXCEPT ![i].expired = TRUE]
  /\ UNCHANGED <<visit, members, mailed, emails, busy, deletions, mail, accounts>>

AuditsChange ==
  /\ \E v \in Visits : VisitAt(v, "permitted") /\ Wants(v, "delete")
  /\ busy' = ~busy
  /\ UNCHANGED <<visit, members, invitation, mailed, emails, deletions, time, mail, accounts>>

MemberNext ==
  \/ \E v \in Visits :
       \/ SignIn(v) \/ FoundWorkspace(v) \/ AskPermission(v) \/ CountTeam(v)
       \/ CreateInvitation(v)
       \/ \E outcome \in mail : SendInvitation(v, outcome)
       \/ ReadInvitation(v) \/ FindExpired(v) \/ RefuseGuest(v) \/ AcceptInvitation(v)
       \/ RevokeInvitation(v) \/ RequestDeletion(v) \/ InvitationExpires(v)
  \/ AuditsChange

MemberSpec == MemberInit /\ [][MemberNext]_memberVars

(***************************************************************************)
(* Properties.                                                             *)
(***************************************************************************)
MemberTypes ==
  /\ \A v \in Visits : /\ visit[v].stage \in {"new", "newcomer", "in", "permitted",
                             "counted", "created", "read", "done", "refused"}
                       /\ visit[v].workspace \in Visits \cup {Nowhere}
  /\ \A m \in Range(members) :
       m.workspace \in Visits /\ m.user \in Users /\ m.role \in MemberRoles
  /\ \A i \in Visits : invitation[i].status \in
                         {"none", "PENDING", "ACCEPTED", "EXPIRED", "REVOKED"}
  /\ \A k, l \in DOMAIN members :
       members[k].workspace = members[l].workspace /\ members[k].user = members[l].user
         => k = l

\* A request acts for a workspace its own user has founded, and all requests
\* of a user for the same one, whatever invitations the user has accepted
\* meanwhile: no acceptance takes a user away from its audits. Only first
\* sign-ins that overlap may leave a user with two workspaces.
ActsAtHome ==
  \A v \in Visits : visit[v].workspace # Nowhere =>
    LET u == visit[v].user IN
    /\ Founder(visit[v].workspace) = u
    /\ u \notin crossed =>
         \A x \in Visits : visit[x].user = u /\ visit[x].workspace # Nowhere
                             => visit[x].workspace = visit[v].workspace

\* A role is the founder's, or what the last invitation to take effect says.
RolesAreGranted ==
  \A m \in Range(members) :
    LET given == {k \in DOMAIN granted : /\ invitation[granted[k]].workspace = m.workspace
                                         /\ invitation[granted[k]].guest = m.user}
    IN IF given = {} THEN m.role = "owner" /\ Founder(m.workspace) = m.user
       ELSE m.role = invitation[granted[Max(given)]].role

\* An invitation that was revoked or had run out before its guest read it
\* never takes effect.
VoidStaysVoid == void \cap Range(granted) = {}

\* The limit is asked when inviting, not when accepting: a team outgrows it
\* only where two invitations were open at a time, or one was counted for
\* before and created after the last place was taken.
TeamFits ==
  \A w \in Visits \ piled : \A n \in TeamLimit : Cardinality(MembersOf(w)) <= n

\* Who works where, in which role: only what somebody with the right to has
\* granted, over signing in, inviting, accepting and revoking in any order.
MembershipIsGranted == ActsAtHome /\ RolesAreGranted /\ VoidStaysVoid /\ TeamFits

=============================================================================
