--------------------------- MODULE WorkspaceProofs ---------------------------
(***************************************************************************)
(* Theorems about a workspace and its requests: who is a member of it, in  *)
(* which role (Members), what its plan is and allows (Billing), and how    *)
(* many of its calls are served in a window (RateLimit).  For any number   *)
(* of users, requests, checkouts and web processes, any limits, and any    *)
(* number of mails lost, calls failed and months gone by.  The three share *)
(* no variable.                                                            *)
(***************************************************************************)
EXTENDS Members, Billing, RateLimit, FiniteSetTheorems, SequenceTheorems,
        WellFoundedInduction, TLAPS

-----------------------------------------------------------------------------
(***************************************************************************)
(* Members: the rows are well formed.                                      *)
(***************************************************************************)
Stages == {"new", "newcomer", "in", "permitted", "counted", "created", "read", "done", "refused"}
VisitRecords ==
  [stage: Stages, workspace: Visits \cup {Nowhere}, user: Users, guest: Users,
   role: MemberRoles, invitation: Visits \cup {"none"},
   wants: {"look", "invite", "accept", "revoke", "delete", "nothing"}]
MemberRows == [workspace: Visits, user: Users, role: MemberRoles]
InvitationRows ==
  [status: {"none", "PENDING", "ACCEPTED", "EXPIRED", "REVOKED"},
   workspace: Visits \cup {Nowhere}, guest: Users, role: MemberRoles, expired: BOOLEAN]

VisitTypes ==
  /\ visit \in [Visits -> VisitRecords]
  /\ \A v \in Visits : visit[v].wants \in {"accept", "revoke"} => visit[v].invitation \in Visits
TableTypes ==
  /\ members \in Seq(MemberRows)
  /\ invitation \in [Visits -> InvitationRows]
  /\ mailed \subseteq Visits /\ granted \in Seq(Visits) /\ void \subseteq Visits

Founded(w) == visit[w].stage \notin {"new", "newcomer"}

\* A request acts for a workspace exactly if it is past its sign-in, and its
\* user is then a member of what the user has founded.
VisitsAreSignedIn ==
  \A v \in Visits :
    IF Founded(v)
    THEN /\ visit[v].workspace \in Visits /\ Founder(visit[v].workspace) = visit[v].user
         /\ \E k \in DOMAIN members : /\ members[k].user = visit[v].user
                                      /\ members[k].workspace = visit[v].workspace
    ELSE visit[v].workspace = Nowhere

MembersAreOne ==
  \A k, l \in DOMAIN members :
    members[k].workspace = members[l].workspace /\ members[k].user = members[l].user => k = l
WorkspacesAreFounded ==
  \A k \in DOMAIN members : Founded(members[k].workspace)

IsFirst(k) == \A j \in DOMAIN members : members[j].user = members[k].user => k <= j
\* The oldest membership is of the workspace its user founded; who has
\* founded one only works there.
OldestIsOwn ==
  \A k \in DOMAIN members : IsFirst(k) =>
    /\ Founder(members[k].workspace) = members[k].user
    /\ members[k].user \notin crossed =>
         \A v \in Visits : visit[v].user = members[k].user /\ Founded(v)
                             => visit[v].workspace = members[k].workspace

\* An invitation has a row from its creation on, a token after that, and
\* whoever has read it is the guest with the token.
InvitationsAreMade ==
  /\ \A i \in Visits :
       IF invitation[i].status = "none" THEN invitation[i].workspace = Nowhere
       ELSE /\ visit[i].stage \in {"created", "done"}
            /\ invitation[i].workspace \in Visits /\ Founded(invitation[i].workspace)
  /\ \A i \in Visits : visit[i].stage = "created" => invitation[i].status # "none"
  /\ \A i \in mailed : invitation[i].status # "none"
  /\ \A v \in Visits : VisitAt(v, "read") =>
       /\ Wants(v, "accept") /\ visit[v].invitation \in mailed
       /\ Row(v).guest = visit[v].user
  /\ Range(granted) \subseteq mailed

\* RolesAreGranted, over the indices of the invitations granted to a member.
Given(w, u) == {k \in DOMAIN granted : /\ invitation[granted[k]].workspace = w
                                       /\ invitation[granted[k]].guest = u}
RoleFits(m) ==
  IF Given(m.workspace, m.user) = {} THEN m.role = "owner" /\ Founder(m.workspace) = m.user
  ELSE m.role = invitation[granted[Max(Given(m.workspace, m.user))]].role
RolesFit == \A m \in Range(members) : RoleFits(m)

VoidIsClosed ==
  \A i \in void : /\ invitation[i].status \notin {"none", "PENDING"}
                  /\ ReadBy(i) = {} /\ i \notin Range(granted)

Team(w) == {k \in DOMAIN members : members[k].workspace = w}
GuestJoined(i, w) == \E k \in Team(w) : members[k].user = invitation[i].guest
\* An open invitation is the only one, and has a place to give.
PlacesAt(w) ==
  /\ \A i, j \in Open(w) : i = j
  /\ \A n \in TeamLimit :
       /\ Cardinality(Team(w)) <= n
       /\ \A i \in Open(w) : GuestJoined(i, w) \/ Cardinality(Team(w)) < n
PlacesAreLeft == \A w \in Visits \ piled : PlacesAt(w)

MemberInv ==
  /\ VisitTypes /\ TableTypes /\ VisitsAreSignedIn /\ MembersAreOne /\ WorkspacesAreFounded
  /\ OldestIsOwn /\ InvitationsAreMade /\ RolesFit /\ VoidIsClosed /\ PlacesAreLeft

LEMMA LeastIsMin ==
  ASSUME NEW S, S \subseteq Nat, S # {}
  PROVE  Min(S) \in S /\ \A y \in S : Min(S) <= y
<1>1. PICK x \in S : \A y \in S : ~ (<<y, x>> \in OpToRel(<, Nat))
  BY WFMin, NatLessThanWellFounded
<1>2. \A y \in S : x <= y
  <2> SUFFICES ASSUME NEW y \in S, y < x PROVE FALSE
    OBVIOUS
  <2>1. <<y, x>> \in Nat \X Nat /\ <<y, x>>[1] < <<y, x>>[2]
    OBVIOUS
  <2>2. <<y, x>> \in OpToRel(<, Nat)
    BY <2>1 DEF OpToRel
  <2> QED  BY <1>1, <2>2
<1> QED  BY <1>2 DEF Min

LEMMA MaxIs ==
  ASSUME NEW S, S \subseteq Nat, NEW x \in S, \A y \in S : y <= x
  PROVE  Max(S) = x
<1>1. \E m \in S : \A y \in S : m >= y
  OBVIOUS
<1>2. Max(S) \in S /\ \A y \in S : Max(S) >= y
  BY <1>1 DEF Max
<1>3. Max(S) \in Nat /\ x \in Nat /\ Max(S) <= x /\ x <= Max(S)
  BY <1>2
<1> QED  BY <1>3

LEMMA GreatestIsMax ==
  ASSUME NEW S, S \subseteq Nat, S # {}, NEW n \in Nat, \A y \in S : y <= n
  PROVE  Max(S) \in S /\ \A y \in S : y <= Max(S)
<1> DEFINE T == {n - y : y \in S}
<1>1. T \subseteq Nat /\ T # {}
  <2>1. \A y \in S : y \in Nat /\ n - y \in Nat
    OBVIOUS
  <2>2. PICK y \in S : TRUE
    OBVIOUS
  <2> QED  BY <2>1, <2>2
<1>2. Min(T) \in T /\ \A t \in T : Min(T) <= t
  BY <1>1, LeastIsMin
<1>3. PICK x \in S : Min(T) = n - x
  BY <1>2
<1>4. \A y \in S : y <= x
  BY <1>2, <1>3
<1> QED  BY <1>3, <1>4, MaxIs

LEMMA MembersAreSequence ==
  ASSUME TableTypes
  PROVE  /\ Len(members) \in Nat /\ DOMAIN members = 1..Len(members)
         /\ \A k \in DOMAIN members : members[k] \in MemberRows
         /\ \A k \in DOMAIN members : k \in Nat
<1>1. members \in Seq(MemberRows)
  BY DEF TableTypes
<1>2. Len(members) \in Nat /\ DOMAIN members = 1..Len(members)
  BY <1>1
<1>3. \A k \in DOMAIN members : members[k] \in MemberRows /\ k \in Nat
  BY <1>1, <1>2
<1> QED  BY <1>2, <1>3

LEMMA GrantedIsSequence ==
  ASSUME TableTypes
  PROVE  /\ Len(granted) \in Nat /\ DOMAIN granted = 1..Len(granted)
         /\ \A k \in DOMAIN granted : granted[k] \in Visits /\ k \in Nat
<1>1. granted \in Seq(Visits)
  BY DEF TableTypes
<1>2. Len(granted) \in Nat /\ DOMAIN granted = 1..Len(granted)
  BY <1>1
<1> QED  BY <1>1, <1>2

\* A user without a home is nobody's member; another one's home is where the
\* first membership is.
LEMMA HomeIsOldest ==
  ASSUME TableTypes, NEW u
  PROVE  /\ Home(u) = Nowhere => \A k \in DOMAIN members : members[k].user # u
         /\ Home(u) # Nowhere => \E k \in DOMAIN members :
              /\ members[k].user = u /\ IsFirst(k) /\ Home(u) = members[k].workspace
<1> DEFINE S == MembershipsOf(u)
<1>1. S \subseteq Nat /\ S \subseteq DOMAIN members
  BY MembersAreSequence DEF MembershipsOf
<1>2. CASE S = {}
  BY <1>2 DEF Home, MembershipsOf
<1>3. CASE S # {}
  <2>1. Min(S) \in S /\ \A y \in S : Min(S) <= y
    BY <1>1, <1>3, LeastIsMin
  <2>2. Home(u) = members[Min(S)].workspace
    BY <1>3 DEF Home
  <2>3. Min(S) \in DOMAIN members /\ members[Min(S)].user = u
    BY <2>1 DEF MembershipsOf
  <2>4. IsFirst(Min(S))
    BY <2>1, <2>3 DEF IsFirst, MembershipsOf
  <2>5. Home(u) # Nowhere
    BY <1>1, <2>2, <2>3, MembersAreSequence, TeamAssumption DEF MemberRows
  <2> QED  BY <2>2, <2>3, <2>4, <2>5
<1> QED  BY <1>2, <1>3

LEMMA FirstExists ==
  ASSUME TableTypes, NEW k \in DOMAIN members
  PROVE  \E j \in DOMAIN members : members[j].user = members[k].user /\ IsFirst(j)
<1> DEFINE u == members[k].user
           S == MembershipsOf(u)
<1>1. S \subseteq Nat /\ S # {}
  BY MembersAreSequence DEF MembershipsOf
<1>2. Min(S) \in S /\ \A y \in S : Min(S) <= y
  BY <1>1, LeastIsMin
<1> QED  BY <1>2 DEF IsFirst, MembershipsOf

-----------------------------------------------------------------------------
\* What the steps leave alone that change neither members nor invitations.
QuietFrame ==
  /\ UNCHANGED <<members, granted>>
  /\ \A v \in Visits : visit'[v].user = visit[v].user
  /\ \A i \in Range(granted) : /\ invitation'[i].workspace = invitation[i].workspace
                               /\ invitation'[i].guest = invitation[i].guest
                               /\ invitation'[i].role = invitation[i].role

LEMMA QuietKeepsMembers ==
  ASSUME MemberInv, QuietFrame
  PROVE  /\ MembersAreOne' /\ RolesFit'
         /\ \A w : Team(w)' = Team(w)
<1>1. \A k \in DOMAIN granted : granted[k] \in Range(granted)
  BY DEF Range
<1>2. \A w, u : Given(w, u)' = Given(w, u)
  BY <1>1 DEF QuietFrame, Given
<1>3. MembersAreOne' /\ \A w : Team(w)' = Team(w)
  BY DEF QuietFrame, MemberInv, MembersAreOne, Team
<1>4. ASSUME NEW m \in Range(members) PROVE RoleFits(m)'
  <2> DEFINE g == Given(m.workspace, m.user)
  <2>1. granted' = granted
    BY DEF QuietFrame
  <2>2. RoleFits(m)
    BY DEF MemberInv, RolesFit
  <2>3. Given(m.workspace, m.user)' = g
    BY <1>2
  <2>4. CASE g = {}
    <3>1. visit'[m.workspace].user = visit[m.workspace].user
      <4>1. m \in MemberRows
        BY MembersAreSequence DEF MemberInv, Range
      <4> QED  BY <4>1 DEF QuietFrame, MemberRows
    <3> QED  BY <2>1, <2>2, <2>3, <2>4, <3>1 DEF RoleFits, Founder
  <2>5. CASE g # {}
    <3> DEFINE top == Max(g)
    <3>1. top \in DOMAIN granted
      <4>1. g \subseteq Nat /\ \A y \in g : y <= Len(granted)
        BY GrantedIsSequence DEF Given, MemberInv
      <4>2. Len(granted) \in Nat
        BY GrantedIsSequence DEF MemberInv
      <4>3. top \in g
        BY <2>5, <4>1, <4>2, GreatestIsMax
      <4> QED  BY <4>3 DEF Given
    <3>2. m.role = invitation[granted[top]].role
      BY <2>2, <2>5 DEF RoleFits
    <3>3. invitation'[granted[top]].role = invitation[granted[top]].role
      BY <1>1, <3>1 DEF QuietFrame
    <3>4. RoleFits(m)' <=> m.role = invitation'[granted[top]].role
      BY <2>1, <2>3, <2>5 DEF RoleFits
    <3> QED  BY <3>2, <3>3, <3>4
  <2> QED  BY <2>4, <2>5
<1>5. RolesFit'
  BY <1>4 DEF RolesFit, QuietFrame
<1> QED  BY <1>3, <1>5

SameWishes ==
  \A x \in Visits : /\ visit'[x].user = visit[x].user /\ visit'[x].wants = visit[x].wants
                    /\ visit'[x].guest = visit[x].guest /\ visit'[x].role = visit[x].role
                    /\ visit'[x].invitation = visit[x].invitation
Moves(v, s) ==
  /\ VisitTypes' /\ SameWishes
  /\ \A x \in Visits : /\ visit'[x].workspace = visit[x].workspace
                       /\ visit'[x].stage = IF x = v THEN s ELSE visit[x].stage

LEMMA GoingMoves ==
  ASSUME VisitTypes, NEW v \in Visits, NEW s \in Stages, Goes(v, s)
  PROVE  Moves(v, s)
<1>1. visit \in [Visits -> VisitRecords]
  BY DEF VisitTypes
<1>2. /\ visit' \in [Visits -> VisitRecords]
      /\ \A x \in Visits : visit'[x] = IF x = v THEN [visit[v] EXCEPT !.stage = s] ELSE visit[x]
  BY <1>1 DEF Goes, VisitRecords
<1>3. \A x \in Visits : /\ visit'[x].workspace = visit[x].workspace
                        /\ visit'[x].stage = IF x = v THEN s ELSE visit[x].stage
                        /\ visit'[x].user = visit[x].user /\ visit'[x].wants = visit[x].wants
                        /\ visit'[x].guest = visit[x].guest /\ visit'[x].role = visit[x].role
                        /\ visit'[x].invitation = visit[x].invitation
  BY <1>1, <1>2 DEF VisitRecords
<1>4. VisitTypes'
  BY <1>2, <1>3 DEF VisitTypes
<1> QED  BY <1>3, <1>4 DEF Moves, SameWishes

\* Old rows keep user and workspace; a new one is not its user's first.
MembersGrow ==
  /\ DOMAIN members \subseteq DOMAIN members'
  /\ \A k \in DOMAIN members : /\ members'[k].user = members[k].user
                               /\ members'[k].workspace = members[k].workspace
  /\ \A k \in DOMAIN members' \ DOMAIN members :
       /\ \A j \in DOMAIN members : ~(k <= j)
       /\ Founded(members'[k].workspace)
       /\ members'[k].workspace \in Visits
       /\ \E j \in DOMAIN members : members[j].user = members'[k].user

LEMMA GrowthKeepsHomes ==
  ASSUME MemberInv, MembersGrow, SameWishes, crossed' = crossed,
         \A x \in Visits : visit'[x].workspace = visit[x].workspace /\ (Founded(x)' <=> Founded(x))
  PROVE  VisitsAreSignedIn' /\ WorkspacesAreFounded' /\ OldestIsOwn'
<1>1. /\ VisitsAreSignedIn /\ WorkspacesAreFounded /\ OldestIsOwn
      /\ \A k \in DOMAIN members : members[k] \in MemberRows
  BY MembersAreSequence DEF MemberInv
<1>2. VisitsAreSignedIn'
  <2>1. \A v \in Visits : Founded(v) => Founder(visit[v].workspace)' = Founder(visit[v].workspace)
    BY <1>1 DEF VisitsAreSignedIn, SameWishes, Founder
  <2> QED  BY <1>1, <2>1 DEF VisitsAreSignedIn, MembersGrow, SameWishes, Founder
<1>3. WorkspacesAreFounded'
  <2> SUFFICES ASSUME NEW k \in DOMAIN members'
               PROVE  visit'[members'[k].workspace].stage \notin {"new", "newcomer"}
    BY DEF WorkspacesAreFounded, Founded
  <2>1. CASE k \in DOMAIN members
    <3>1. members'[k].workspace = members[k].workspace /\ members[k].workspace \in Visits
      BY <1>1, <2>1 DEF MembersGrow, MemberRows
    <3>2. Founded(members[k].workspace)
      BY <1>1, <2>1 DEF WorkspacesAreFounded
    <3>3. Founded(members[k].workspace)'
      BY <3>1, <3>2
    <3> QED  BY <3>1, <3>3 DEF Founded
  <2>2. CASE k \notin DOMAIN members
    <3> DEFINE w == members'[k].workspace
    <3>1. Founded(w) /\ w \in Visits
      BY <2>2 DEF MembersGrow
    <3> QED  BY <3>1 DEF Founded
  <2> QED  BY <2>1, <2>2
<1>4. OldestIsOwn'
  <2> SUFFICES ASSUME NEW k \in DOMAIN members',
                      \A j \in DOMAIN members' : members'[j].user = members'[k].user => k <= j
               PROVE  /\ visit'[members'[k].workspace].user = members'[k].user
                      /\ members'[k].user \notin crossed =>
                           \A v \in Visits : visit'[v].user = members'[k].user /\ Founded(v)'
                             => visit'[v].workspace = members'[k].workspace
    BY DEF OldestIsOwn, IsFirst, Founder
  <2>1. k \in DOMAIN members
    BY DEF MembersGrow
  <2>2. IsFirst(k)
    BY <2>1 DEF IsFirst, MembersGrow
  <2>3. members'[k].workspace = members[k].workspace /\ members'[k].user = members[k].user
        /\ members[k].workspace \in Visits
    BY <1>1, <2>1 DEF MembersGrow, MemberRows
  <2> QED  BY <1>1, <2>1, <2>2, <2>3 DEF OldestIsOwn, Founder, SameWishes
<1> QED  BY <1>2, <1>3, <1>4

\* Places stay where no team grows and no invitation opens.
LEMMA PlacesStay ==
  ASSUME NEW w, PlacesAt(w), Open(w)' \subseteq Open(w), Team(w)' = Team(w),
         \A k \in Team(w) : members'[k].user = members[k].user,
         \A i \in Open(w) : invitation'[i].guest = invitation[i].guest
  PROVE  PlacesAt(w)'
<1>1. \A i \in Open(w) : GuestJoined(i, w) => GuestJoined(i, w)'
  BY DEF GuestJoined
<1> QED  BY <1>1 DEF PlacesAt

-----------------------------------------------------------------------------
(***************************************************************************)
(* Signing in.                                                             *)
(***************************************************************************)
\* Nothing of invitations depends on a visit before it is in.
LEMMA SigningKeepsInvitations ==
  ASSUME MemberInv, NEW v \in Visits, visit[v].stage \in {"new", "newcomer"},
         visit'[v].stage \in {"newcomer", "in"}, VisitTypes', SameWishes,
         \A x \in Visits : x # v => visit'[x].stage = visit[x].stage,
         UNCHANGED <<invitation, mailed, granted, void>>
  PROVE  /\ InvitationsAreMade' /\ VoidIsClosed'
         /\ \A w : Open(w)' = Open(w)
<1>1. \A i : ReadBy(i)' = ReadBy(i)
  BY DEF ReadBy, VisitAt, SameWishes
<1>2. \A w : Open(w)' = Open(w)
  BY <1>1 DEF Open
<1>3. InvitationsAreMade /\ VoidIsClosed
  BY DEF MemberInv
<1>4. VoidIsClosed'
  BY <1>1, <1>3 DEF VoidIsClosed
<1>5. \A i \in Visits : Founded(i) => Founded(i)'
  BY DEF Founded
<1>6. InvitationsAreMade'
  BY <1>3, <1>5 DEF InvitationsAreMade, VisitAt, Wants, Row, SameWishes
<1> QED  BY <1>2, <1>4, <1>6

LEMMA SignInKeepsHomes ==
  ASSUME MemberInv, NEW v \in Visits, SignIn(v)
  PROVE  /\ VisitTypes' /\ SameWishes
         /\ \A x \in Visits : x # v => visit'[x].stage = visit[x].stage
         /\ visit'[v].stage \in {"newcomer", "in"}
         /\ VisitsAreSignedIn' /\ WorkspacesAreFounded' /\ OldestIsOwn'
<1> DEFINE u == visit[v].user
           home == Home(u)
<1>0. visit \in [Visits -> VisitRecords] /\ visit[v].stage = "new" /\ members' = members /\ crossed' = crossed
  BY DEF MemberInv, VisitTypes, SignIn, VisitAt, accounts
<1>1. /\ home = Nowhere => \A k \in DOMAIN members : members[k].user # u
      /\ home # Nowhere => \E k \in DOMAIN members :
           members[k].user = u /\ IsFirst(k) /\ home = members[k].workspace
  BY HomeIsOldest DEF MemberInv
<1>2. home \in Visits \cup {Nowhere}
  BY <1>1, MembersAreSequence DEF MemberInv, MemberRows
<1>3. visit' = [visit EXCEPT ![v].workspace = home,
                             ![v].stage = IF home = Nowhere THEN "newcomer" ELSE "in"]
  BY DEF SignIn
<1> HIDE DEF home
<1>4. /\ visit' \in [Visits -> VisitRecords]
      /\ \A x \in Visits : x # v => visit'[x] = visit[x]
      /\ visit'[v].workspace = home /\ visit'[v].stage = IF home = Nowhere THEN "newcomer" ELSE "in"
      /\ SameWishes
  BY <1>0, <1>2, <1>3 DEF VisitRecords, Stages, SameWishes
<1>5. VisitTypes'
  BY <1>4 DEF VisitTypes, MemberInv, SameWishes
<1>6. \A x \in Visits : x # v => (Founded(x)' <=> Founded(x))
  BY <1>4 DEF Founded
<1>7. ~Founded(v) /\ (Founded(v)' <=> home # Nowhere)
  BY <1>0, <1>4 DEF Founded
<1>8. VisitsAreSignedIn /\ WorkspacesAreFounded /\ OldestIsOwn
      /\ \A k \in DOMAIN members : members[k] \in MemberRows
  BY MembersAreSequence DEF MemberInv
<1>9. WorkspacesAreFounded'
  <2> SUFFICES ASSUME NEW k \in DOMAIN members
               PROVE  visit'[members[k].workspace].stage \notin {"new", "newcomer"}
    BY <1>0 DEF WorkspacesAreFounded, Founded
  <2> DEFINE w == members[k].workspace
  <2>1. w \in Visits /\ Founded(w) /\ w # v
    BY <1>7, <1>8 DEF WorkspacesAreFounded, MemberRows
  <2> QED  BY <1>4, <2>1 DEF Founded
<1>10. VisitsAreSignedIn'
  <2> SUFFICES ASSUME NEW x \in Visits
               PROVE  IF Founded(x)'
                      THEN /\ visit'[x].workspace \in Visits
                           /\ visit'[visit'[x].workspace].user = visit'[x].user
                           /\ \E k \in DOMAIN members : /\ members[k].user = visit'[x].user
                                                        /\ members[k].workspace = visit'[x].workspace
                      ELSE visit'[x].workspace = Nowhere
    BY <1>0 DEF VisitsAreSignedIn, Founder
  <2>1. CASE x # v
    BY <1>4, <1>6, <1>8, <2>1 DEF VisitsAreSignedIn, Founder, SameWishes
  <2>2. CASE x = v /\ home = Nowhere
    BY <1>4, <1>7, <2>2
  <2>3. CASE x = v /\ home # Nowhere
    <3>1. PICK k \in DOMAIN members : members[k].user = u /\ IsFirst(k) /\ home = members[k].workspace
      BY <1>1, <2>3
    <3>2. home \in Visits /\ visit[home].user = u
      BY <1>8, <3>1 DEF OldestIsOwn, Founder, MemberRows
    <3> QED  BY <1>4, <1>7, <2>3, <3>1, <3>2 DEF SameWishes
  <2> QED  BY <2>1, <2>2, <2>3
<1>11. OldestIsOwn'
  <2> SUFFICES ASSUME NEW k \in DOMAIN members, IsFirst(k)
               PROVE  /\ visit'[members[k].workspace].user = members[k].user
                      /\ members[k].user \notin crossed =>
                           \A x \in Visits : visit'[x].user = members[k].user /\ Founded(x)'
                             => visit'[x].workspace = members[k].workspace
    BY <1>0 DEF OldestIsOwn, IsFirst, Founder
  <2>1. visit'[members[k].workspace].user = members[k].user
    BY <1>4, <1>8 DEF OldestIsOwn, Founder, MemberRows, SameWishes
  <2>2. SUFFICES ASSUME members[k].user \notin crossed, NEW x \in Visits,
                        visit'[x].user = members[k].user, Founded(x)'
                 PROVE  visit'[x].workspace = members[k].workspace
    BY <2>1
  <2>3. CASE x # v
    BY <1>4, <1>6, <1>8, <2>2, <2>3 DEF OldestIsOwn
  <2>4. CASE x = v
    <3>1. PICK l \in DOMAIN members : members[l].user = u /\ IsFirst(l) /\ home = members[l].workspace
      BY <1>1, <1>7, <2>2, <2>4
    <3>2. members[k].user = u
      BY <1>4, <2>2, <2>4 DEF SameWishes
    <3>3. k = l
      <4>1. k <= l /\ l <= k /\ k \in Nat /\ l \in Nat
        BY <3>1, <3>2, MembersAreSequence DEF IsFirst, MemberInv
      <4> QED  BY <4>1
    <3> QED  BY <1>4, <2>4, <3>1, <3>3
  <2> QED  BY <2>3, <2>4
<1> QED  BY <1>4, <1>5, <1>9, <1>10, <1>11

LEMMA SignInKeeps ==
  ASSUME MemberInv, NEW v \in Visits, SignIn(v)
  PROVE  MemberInv'
<1>1. /\ UNCHANGED <<members, invitation, mailed, granted, void, crossed, piled>>
      /\ visit[v].stage = "new"
  BY DEF SignIn, accounts, VisitAt
<1>2. /\ VisitTypes' /\ SameWishes
      /\ \A x \in Visits : x # v => visit'[x].stage = visit[x].stage
      /\ visit'[v].stage \in {"newcomer", "in"}
      /\ VisitsAreSignedIn' /\ WorkspacesAreFounded' /\ OldestIsOwn'
  BY SignInKeepsHomes
<1>3. InvitationsAreMade' /\ VoidIsClosed' /\ \A w : Open(w)' = Open(w)
  BY <1>1, <1>2, SigningKeepsInvitations
<1>4. QuietFrame
  BY <1>1, <1>2 DEF QuietFrame, SameWishes
<1>5. MembersAreOne' /\ RolesFit' /\ \A w : Team(w)' = Team(w)
  BY <1>4, QuietKeepsMembers
<1>6. PlacesAreLeft'
  <2> SUFFICES ASSUME NEW w \in Visits \ piled PROVE PlacesAt(w)'
    BY <1>1 DEF PlacesAreLeft
  <2>1. PlacesAt(w)
    BY DEF MemberInv, PlacesAreLeft
  <2> QED  BY <1>1, <1>3, <1>5, <2>1, PlacesStay
<1>7. TableTypes'
  BY <1>1 DEF TableTypes, MemberInv
<1> QED  BY <1>2, <1>3, <1>5, <1>6, <1>7 DEF MemberInv

\* The newcomer's row comes last, and its workspace is nobody else's yet.
LEMMA FoundingAppends ==
  ASSUME MemberInv, NEW v \in Visits, FoundWorkspace(v)
  PROVE  /\ visit[v].stage = "newcomer"
         /\ UNCHANGED <<invitation, mailed, granted, void, piled>>
         /\ VisitTypes' /\ SameWishes
         /\ visit'[v].stage = "in" /\ visit'[v].workspace = v
         /\ \A x \in Visits : x # v => visit'[x] = visit[x]
         /\ TableTypes'
         /\ DOMAIN members' = 1..(Len(members) + 1)
         /\ members'[Len(members) + 1] = [workspace |-> v, user |-> visit[v].user, role |-> "owner"]
         /\ \A k \in DOMAIN members : members'[k] = members[k]
         /\ \A k \in DOMAIN members : members[k].workspace # v
         /\ \A i \in Visits : invitation[i].workspace # v
<1> DEFINE own == [workspace |-> v, user |-> visit[v].user, role |-> "owner"]
<1>1. /\ visit[v].stage = "newcomer" /\ UNCHANGED <<invitation, mailed, granted, void, piled>>
      /\ members' = Append(members, own)
      /\ visit' = [visit EXCEPT ![v].workspace = v, ![v].stage = "in"]
  BY DEF FoundWorkspace, VisitAt
<1>2. visit \in [Visits -> VisitRecords] /\ members \in Seq(MemberRows)
  BY DEF MemberInv, VisitTypes, TableTypes
<1>3. visit[v].user \in Users
  BY <1>2 DEF VisitRecords
<1>4. own \in MemberRows
  BY <1>3 DEF MemberRows, MemberRoles
<1> HIDE DEF own
<1>5. /\ members' \in Seq(MemberRows)
      /\ DOMAIN members' = 1..(Len(members) + 1)
      /\ members'[Len(members) + 1] = own
      /\ \A k \in DOMAIN members : members'[k] = members[k]
  BY <1>1, <1>2, <1>4
<1>6. /\ visit' \in [Visits -> VisitRecords]
      /\ visit'[v].stage = "in" /\ visit'[v].workspace = v
      /\ \A x \in Visits : x # v => visit'[x] = visit[x]
      /\ SameWishes
  BY <1>1, <1>2 DEF VisitRecords, Stages, SameWishes
<1>7. VisitTypes'
  BY <1>6 DEF VisitTypes, MemberInv, SameWishes
<1>8. TableTypes'
  BY <1>1, <1>5 DEF TableTypes, MemberInv
<1>9. ~Founded(v)
  BY <1>1 DEF Founded
<1>10. \A k \in DOMAIN members : members[k].workspace # v
  BY <1>9 DEF MemberInv, WorkspacesAreFounded
<1>11. \A i \in Visits : invitation[i].workspace # v
  BY <1>9, TeamAssumption DEF MemberInv, InvitationsAreMade
<1> QED  BY <1>1, <1>5, <1>6, <1>7, <1>8, <1>10, <1>11 DEF own

LEMMA FoundingKeeps ==
  ASSUME MemberInv, NEW v \in Visits, FoundWorkspace(v)
  PROVE  MemberInv'
<1> DEFINE last == Len(members) + 1
           own == [workspace |-> v, user |-> visit[v].user, role |-> "owner"]
<1>1. /\ visit[v].stage = "newcomer"
      /\ UNCHANGED <<invitation, mailed, granted, void, piled>>
      /\ VisitTypes' /\ SameWishes
      /\ visit'[v].stage = "in" /\ visit'[v].workspace = v
      /\ \A x \in Visits : x # v => visit'[x] = visit[x]
      /\ TableTypes'
      /\ DOMAIN members' = 1..last
      /\ members'[last] = own
      /\ \A k \in DOMAIN members : members'[k] = members[k]
      /\ \A k \in DOMAIN members : members[k].workspace # v
      /\ \A i \in Visits : invitation[i].workspace # v
  BY FoundingAppends
<1>2. /\ Len(members) \in Nat /\ DOMAIN members = 1..Len(members)
      /\ \A k \in DOMAIN members : members[k] \in MemberRows /\ k \in Nat
  BY MembersAreSequence DEF MemberInv
<1>3. /\ own.workspace = v /\ own.user = visit[v].user /\ own.role = "owner"
  OBVIOUS
<1>4. crossed' = crossed \cup {u \in {visit[v].user} : MembershipsOf(u) # {}}
  BY DEF FoundWorkspace
<1> HIDE DEF own
<1> DEFINE len == Len(members)
<1>5. /\ last = len + 1 /\ last \in Nat /\ len \in Nat /\ last \notin DOMAIN members
      /\ \A k \in DOMAIN members' : k \in DOMAIN members \/ k = last
      /\ \A k \in DOMAIN members : k \in DOMAIN members' /\ k < last
      /\ last \in DOMAIN members'
  BY <1>1, <1>2
<1> HIDE DEF last, len
<1>6. MembersAreOne'
  BY <1>1, <1>3, <1>5 DEF MembersAreOne, MemberInv
<1>7. /\ ~Founded(v) /\ Founded(v)'
      /\ \A x \in Visits : x # v => (Founded(x)' <=> Founded(x))
  BY <1>1 DEF Founded
<1>8. VisitsAreSignedIn /\ WorkspacesAreFounded /\ OldestIsOwn
  BY DEF MemberInv
<1>9. WorkspacesAreFounded'
  <2> SUFFICES ASSUME NEW k \in DOMAIN members'
               PROVE  visit'[members'[k].workspace].stage \notin {"new", "newcomer"}
    BY DEF WorkspacesAreFounded, Founded
  <2>1. CASE k = last
    BY <1>1, <1>3, <2>1
  <2>2. CASE k \in DOMAIN members
    <3> DEFINE w == members[k].workspace
    <3>1. w \in Visits /\ w # v /\ Founded(w)
      BY <1>1, <1>2, <1>8, <2>2 DEF WorkspacesAreFounded, MemberRows
    <3> QED  BY <1>1, <2>2, <3>1 DEF Founded
  <2> QED  BY <1>5, <2>1, <2>2
<1>10. VisitsAreSignedIn'
  <2> SUFFICES ASSUME NEW x \in Visits
               PROVE  IF Founded(x)'
                      THEN /\ visit'[x].workspace \in Visits
                           /\ visit'[visit'[x].workspace].user = visit'[x].user
                           /\ \E k \in DOMAIN members' : /\ members'[k].user = visit'[x].user
                                                         /\ members'[k].workspace = visit'[x].workspace
                      ELSE visit'[x].workspace = Nowhere
    BY DEF VisitsAreSignedIn, Founder
  <2>1. CASE x # v
    BY <1>1, <1>5, <1>7, <1>8, <2>1 DEF VisitsAreSignedIn, Founder, SameWishes
  <2>2. CASE x = v
    BY <1>1, <1>3, <1>5, <1>7, <2>2 DEF SameWishes
  <2> QED  BY <2>1, <2>2
<1>11. OldestIsOwn'
  <2> SUFFICES ASSUME NEW k \in DOMAIN members',
                      \A j \in DOMAIN members' : members'[j].user = members'[k].user => k <= j
               PROVE  /\ visit'[members'[k].workspace].user = members'[k].user
                      /\ members'[k].user \notin crossed' =>
                           \A x \in Visits : visit'[x].user = members'[k].user /\ Founded(x)'
                             => visit'[x].workspace = members'[k].workspace
    BY DEF OldestIsOwn, IsFirst, Founder
  <2>1. CASE k = last
    <3>1. \A j \in DOMAIN members : members[j].user # visit[v].user
      BY <1>1, <1>2, <1>3, <1>5, <2>1
    <3>2. ASSUME NEW x \in Visits, visit'[x].user = visit[v].user, Founded(x)'
          PROVE  visit'[x].workspace = v
      BY <1>1, <1>7, <1>8, <3>1, <3>2 DEF VisitsAreSignedIn, SameWishes
    <3> QED  BY <1>1, <1>3, <2>1, <3>2 DEF SameWishes
  <2>2. CASE k \in DOMAIN members
    <3>1. members'[k] = members[k] /\ IsFirst(k) /\ members[k].workspace \in Visits
      BY <1>1, <1>2, <1>5, <2>2 DEF IsFirst, MemberRows
    <3>2. visit'[members[k].workspace].user = members[k].user
      BY <1>1, <1>8, <2>2, <3>1 DEF OldestIsOwn, Founder, SameWishes
    <3>3. SUFFICES ASSUME members[k].user \notin crossed', NEW x \in Visits,
                          visit'[x].user = members[k].user, Founded(x)'
                   PROVE  visit'[x].workspace = members[k].workspace
      BY <3>1, <3>2
    <3>4. x # v
      BY <1>1, <1>4, <2>2, <3>3 DEF MembershipsOf, SameWishes
    <3> QED  BY <1>1, <1>4, <1>7, <1>8, <2>2, <3>1, <3>3, <3>4 DEF OldestIsOwn, SameWishes
  <2> QED  BY <1>5, <2>1, <2>2
<1>12. /\ InvitationsAreMade' /\ VoidIsClosed' /\ \A w : Open(w)' = Open(w)
  BY <1>1, SigningKeepsInvitations
<1>13. \A w, u : Given(w, u)' = Given(w, u)
  BY <1>1 DEF Given
<1>14. RolesFit'
  <2> SUFFICES ASSUME NEW m \in Range(members') PROVE RoleFits(m)'
    BY DEF RolesFit
  <2>0. PICK k \in DOMAIN members' : m = members'[k]
    BY DEF Range
  <2>1. CASE k \in DOMAIN members
    <3>1. m \in Range(members) /\ m.workspace \in Visits
      BY <1>1, <1>2, <2>0, <2>1 DEF Range, MemberRows
    <3>2. RoleFits(m)
      BY <3>1 DEF MemberInv, RolesFit
    <3> QED  BY <1>1, <1>13, <3>1, <3>2 DEF RoleFits, Founder, SameWishes
  <2>2. CASE k = last
    <3>1. m.workspace = v /\ m.user = visit[v].user /\ m.role = "owner"
      BY <1>1, <1>3, <2>0, <2>2
    <3>2. Given(m.workspace, m.user) = {}
      BY <1>1, <3>1, GrantedIsSequence DEF Given, MemberInv
    <3> QED  BY <1>1, <1>13, <3>1, <3>2 DEF RoleFits, Founder, SameWishes
  <2> QED  BY <1>5, <2>0, <2>1, <2>2
<1>15. PlacesAreLeft'
  <2> SUFFICES ASSUME NEW w \in Visits \ piled PROVE PlacesAt(w)'
    BY <1>1 DEF PlacesAreLeft
  <2>1. PlacesAt(w)
    BY DEF MemberInv, PlacesAreLeft
  <2>2. CASE w # v
    <3>1. Team(w)' = Team(w)
      BY <1>1, <1>3, <1>5, <2>2 DEF Team
    <3> QED  BY <1>1, <1>12, <2>1, <3>1, PlacesStay DEF Team
  <2>3. CASE w = v
    <3>1. Team(v)' = {last} /\ Open(v)' = {}
      BY <1>1, <1>3, <1>5, <1>12 DEF Team, Open
    <3>2. Cardinality({last}) = 1
      BY FS_Singleton
    <3>3. \A n \in TeamLimit : 1 <= n
      BY TeamAssumption
    <3> QED  BY <2>3, <3>1, <3>2, <3>3 DEF PlacesAt
  <2> QED  BY <2>2, <2>3
<1> QED  BY <1>1, <1>6, <1>9, <1>10, <1>11, <1>12, <1>14, <1>15 DEF MemberInv

-----------------------------------------------------------------------------
(***************************************************************************)
(* Past signing in.                                                        *)
(***************************************************************************)
\* A request that is in goes on, and may close an invitation.
GoesOn(v, s) ==
  /\ Moves(v, s) /\ Founded(v) /\ s \notin {"new", "newcomer"}
  /\ s = "created" => VisitAt(v, "created")
  /\ visit[v].stage \in {"created", "done"} => s \in {"created", "done"}
  /\ s = "read" => /\ Wants(v, "accept") /\ visit[v].invitation \in mailed
                   /\ Row(v).status = "PENDING" /\ Row(v).guest = visit[v].user
RowsStay ==
  /\ invitation' \in [Visits -> InvitationRows]
  /\ \A i \in Visits :
       /\ invitation'[i].workspace = invitation[i].workspace
       /\ invitation'[i].guest = invitation[i].guest
       /\ invitation'[i].role = invitation[i].role
       /\ \/ invitation'[i].status = invitation[i].status
          \/ /\ invitation[i].status # "none"
             /\ invitation'[i].status \in {"EXPIRED", "REVOKED"}

LEMMA GoingOnKeeps ==
  ASSUME MemberInv, NEW v \in Visits, NEW s \in Stages, GoesOn(v, s), RowsStay,
         UNCHANGED <<members, granted, crossed, piled>>,
         mailed \subseteq mailed', mailed' \subseteq Visits, void' \subseteq Visits,
         \A i \in mailed' : i \in mailed \/ invitation[i].status # "none",
         \A i \in void' : \/ i \in void
                          \/ /\ invitation'[i].status \in {"EXPIRED", "REVOKED"} /\ s # "read"
                             /\ ReadBy(i) = {} /\ i \notin Range(granted)
  PROVE  MemberInv'
<1>1. /\ VisitTypes' /\ SameWishes
      /\ \A x \in Visits : /\ visit'[x].workspace = visit[x].workspace
                           /\ visit'[x].stage = IF x = v THEN s ELSE visit[x].stage
  BY DEF GoesOn, Moves
<1>2. \A x \in Visits : Founded(x)' <=> Founded(x)
  BY <1>1 DEF GoesOn, Founded
<1>3. Range(granted) \subseteq Visits
  BY DEF MemberInv, TableTypes, InvitationsAreMade
<1>4. TableTypes'
  BY DEF TableTypes, MemberInv, RowsStay
<1>5. QuietFrame
  BY <1>1, <1>3 DEF QuietFrame, RowsStay, SameWishes
<1>6. MembersAreOne' /\ RolesFit' /\ \A w : Team(w)' = Team(w)
  BY <1>5, QuietKeepsMembers
<1>7. VisitsAreSignedIn' /\ WorkspacesAreFounded' /\ OldestIsOwn'
  <2>1. MembersGrow
    BY DEF MembersGrow
  <2> QED  BY <1>1, <1>2, <2>1, GrowthKeepsHomes
<1>8. \A i \in Visits : \/ ReadBy(i)' \subseteq ReadBy(i)
                        \/ s = "read" /\ i = visit[v].invitation
  BY <1>1 DEF ReadBy, VisitAt, SameWishes
<1>9. VoidIsClosed'
  <2> SUFFICES ASSUME NEW i \in void'
               PROVE  /\ invitation'[i].status \notin {"none", "PENDING"}
                      /\ ReadBy(i)' = {} /\ i \notin Range(granted)
    BY DEF VoidIsClosed
  <2>1. CASE i \in void
    <3>1. /\ invitation[i].status \notin {"none", "PENDING"}
          /\ ReadBy(i) = {} /\ i \notin Range(granted) /\ i \in Visits
      BY <2>1 DEF MemberInv, VoidIsClosed
    <3>2. ~(s = "read" /\ i = visit[v].invitation)
      BY <3>1 DEF GoesOn, Row
    <3> QED  BY <1>8, <3>1, <3>2 DEF RowsStay
  <2>2. CASE i \notin void
    BY <1>8, <2>2
  <2> QED  BY <2>1, <2>2
<1>10. InvitationsAreMade'
  <2>1. InvitationsAreMade
    BY DEF MemberInv
  <2>2. ASSUME NEW i \in Visits
        PROVE  IF invitation'[i].status = "none" THEN invitation'[i].workspace = Nowhere
               ELSE /\ visit'[i].stage \in {"created", "done"}
                    /\ invitation'[i].workspace \in Visits
                    /\ visit'[invitation'[i].workspace].stage \notin {"new", "newcomer"}
    <3> DEFINE w == invitation[i].workspace
    <3>1. invitation'[i].workspace = w
          /\ (invitation'[i].status = "none" <=> invitation[i].status = "none")
      BY DEF RowsStay
    <3>2. CASE invitation[i].status = "none"
      BY <2>1, <3>1, <3>2 DEF InvitationsAreMade
    <3>3. CASE invitation[i].status # "none"
      <4>1. visit[i].stage \in {"created", "done"} /\ w \in Visits /\ Founded(w)
        BY <2>1, <3>3 DEF InvitationsAreMade
      <4>2. visit'[w].stage \notin {"new", "newcomer"}
        BY <1>1, <4>1 DEF Founded, GoesOn
      <4>3. visit'[i].stage \in {"created", "done"}
        BY <1>1, <4>1 DEF GoesOn
      <4> QED  BY <3>1, <3>3, <4>1, <4>2, <4>3
    <3> QED  BY <3>2, <3>3
  <2>3. \A i \in Visits : visit'[i].stage = "created" => invitation'[i].status # "none"
    BY <1>1, <2>1 DEF InvitationsAreMade, RowsStay, GoesOn, VisitAt
  <2>4. \A i \in mailed' : invitation'[i].status # "none"
    BY <2>1 DEF InvitationsAreMade, RowsStay
  <2>5. ASSUME NEW x \in Visits, visit'[x].stage = "read"
        PROVE  /\ visit'[x].wants = "accept" /\ visit'[x].invitation \in mailed'
               /\ invitation'[visit'[x].invitation].guest = visit'[x].user
    <3>1. visit[x].wants = "accept" /\ visit[x].invitation \in mailed
          /\ invitation[visit[x].invitation].guest = visit[x].user
      BY <1>1, <2>1, <2>5 DEF InvitationsAreMade, GoesOn, VisitAt, Wants, Row
    <3>2. visit[x].invitation \in Visits
      BY <3>1
    <3> QED  BY <1>1, <3>1, <3>2 DEF RowsStay, SameWishes
  <2>6. Range(granted') \subseteq mailed'
    BY <2>1 DEF InvitationsAreMade
  <2> QED  BY <2>2, <2>3, <2>4, <2>5, <2>6 DEF InvitationsAreMade, VisitAt, Wants, Row, Founded
<1>11. PlacesAreLeft'
  <2> SUFFICES ASSUME NEW w \in Visits \ piled PROVE PlacesAt(w)'
    BY DEF PlacesAreLeft
  <2>1. PlacesAt(w)
    BY DEF MemberInv, PlacesAreLeft
  <2>2. Open(w)' \subseteq Open(w)
    <3> SUFFICES ASSUME NEW i \in Visits, invitation'[i].workspace = w,
                        invitation'[i].status = "PENDING" \/ ReadBy(i)' # {}
                 PROVE  i \in Open(w)
      BY DEF Open
    <3>1. invitation[i].status = "PENDING" \/ ReadBy(i) # {}
      BY <1>8 DEF RowsStay, GoesOn, Row
    <3> QED  BY <3>1 DEF Open, RowsStay
  <2>3. Team(w)' = Team(w) /\ \A k \in Team(w) : members'[k].user = members[k].user
    BY <1>6
  <2>4. \A i \in Open(w) : invitation'[i].guest = invitation[i].guest
    BY DEF Open, RowsStay
  <2> QED  BY <2>1, <2>2, <2>3, <2>4, PlacesStay
<1> QED  BY <1>1, <1>4, <1>6, <1>7, <1>9, <1>10, <1>11 DEF MemberInv

\* The steps of inviting and accepting that leave the rows as they are.
LEMMA AskingKeeps ==
  ASSUME MemberInv, NEW v \in Visits, NEW s \in Stages, Goes(v, s), Founded(v),
         s \notin {"new", "newcomer", "created"},
         visit[v].stage = "created" => s = "done", ~VisitAt(v, "done"),
         s = "read" => /\ Wants(v, "accept") /\ visit[v].invitation \in mailed
                       /\ Row(v).status = "PENDING" /\ Row(v).guest = visit[v].user,
         mailed' = mailed \/ (VisitAt(v, "created") /\ mailed' = mailed \cup {v}),
         UNCHANGED <<members, invitation, granted, void, crossed, piled>>
  PROVE  MemberInv'
<1>1. VisitTypes /\ TableTypes /\ InvitationsAreMade
  BY DEF MemberInv
<1>2. Moves(v, s)
  BY <1>1, GoingMoves
<1>3. GoesOn(v, s)
  BY <1>2 DEF GoesOn, VisitAt
<1>4. RowsStay
  BY <1>1 DEF RowsStay, TableTypes
<1>5. mailed' \subseteq Visits /\ void' \subseteq Visits /\ mailed \subseteq mailed'
  BY <1>1 DEF TableTypes
<1>6. \A i \in mailed' : i \in mailed \/ invitation[i].status # "none"
  BY <1>1 DEF InvitationsAreMade, VisitAt
<1> QED  BY <1>3, <1>4, <1>5, <1>6, GoingOnKeeps

\* Closing one that nobody has read and nobody was granted makes it void.
LEMMA ClosingKeeps ==
  ASSUME MemberInv, NEW v \in Visits, NEW s \in {"refused", "done"}, Goes(v, s),
         visit[v].stage \in {"in", "permitted"}, visit[v].invitation \in Visits,
         Row(v).status # "none", NEW status \in {"EXPIRED", "REVOKED"},
         Closes(visit[v].invitation, status),
         UNCHANGED <<members, mailed, granted, crossed, piled>>
  PROVE  MemberInv'
<1> DEFINE i == visit[v].invitation
<1>1. VisitTypes /\ TableTypes /\ s \in Stages
  BY DEF MemberInv, Stages
<1>2. Moves(v, s)
  BY <1>1, GoingMoves
<1>3. GoesOn(v, s)
  BY <1>2 DEF GoesOn, VisitAt, Founded
<1>4. /\ invitation \in [Visits -> InvitationRows] /\ i \in Visits /\ invitation[i].status # "none"
      /\ invitation' = [invitation EXCEPT ![i].status = status]
      /\ void' = void \cup {k \in {i} : ReadBy(k) = {} /\ k \notin Range(granted)}
  BY <1>1 DEF TableTypes, Closes, Row
<1> HIDE DEF i
<1>5. RowsStay /\ invitation'[i].status = status
  BY <1>4 DEF RowsStay, InvitationRows
<1>6. void' \subseteq Visits /\ mailed' \subseteq Visits
  BY <1>1, <1>4 DEF TableTypes
<1>7. \A k \in void' : \/ k \in void
                       \/ /\ invitation'[k].status \in {"EXPIRED", "REVOKED"} /\ s # "read"
                          /\ ReadBy(k) = {} /\ k \notin Range(granted)
  BY <1>4, <1>5
<1> QED  BY <1>1, <1>3, <1>5, <1>6, <1>7, GoingOnKeeps

\* A workspace has as many members as rows, and finitely many.
LEMMA TeamIsCounted ==
  ASSUME MemberInv, NEW w
  PROVE  /\ IsFiniteSet(Team(w)) /\ Cardinality(Team(w)) \in Nat
         /\ Cardinality(MembersOf(w)) = Cardinality(Team(w))
<1> DEFINE f == [k \in Team(w) |-> members[k]]
<1>1. Len(members) \in Nat /\ DOMAIN members = 1..Len(members)
  BY MembersAreSequence DEF MemberInv
<1>2. IsFiniteSet(1..Len(members)) /\ Team(w) \in SUBSET (1..Len(members))
  BY <1>1, FS_Interval DEF Team
<1>3. IsFiniteSet(Team(w)) /\ Cardinality(Team(w)) \in Nat
  BY <1>2, FS_Subset, FS_CardinalityType
<1>4. f \in [Team(w) -> MembersOf(w)]
  BY DEF Team, MembersOf, Range
<1>5. \A k, l \in Team(w) : f[k] = f[l] => k = l
  BY DEF MemberInv, MembersAreOne, Team
<1>6. \A m \in MembersOf(w) : \E k \in Team(w) : f[k] = m
  BY DEF Team, MembersOf, Range
<1> HIDE DEF f
<1>7. ExistsBijection(Team(w), MembersOf(w))
  BY <1>4, <1>5, <1>6 DEF ExistsBijection, Bijection, Injection, IsInjective, Surjection
<1> QED  BY <1>3, <1>7, FS_Bijection

\* A workspace has room for the invitation, or its account says otherwise.
LEMMA CreatingKeeps ==
  ASSUME MemberInv, NEW v \in Visits, CreateInvitation(v)
  PROVE  MemberInv'
<1> DEFINE w == visit[v].workspace
<1>1. /\ visit[v].stage = "counted" /\ Goes(v, "created")
      /\ invitation' = [invitation EXCEPT ![v].status = "PENDING", ![v].workspace = w]
      /\ piled' = piled \cup {x \in {w} : Open(x) # {} \/ TeamIsFull(x)}
      /\ UNCHANGED <<members, mailed, granted, void, crossed>>
  BY DEF CreateInvitation, VisitAt
<1>2. VisitTypes /\ TableTypes /\ InvitationsAreMade /\ VisitsAreSignedIn /\ WorkspacesAreFounded
  BY DEF MemberInv
<1>3. Moves(v, "created")
  BY <1>1, <1>2, GoingMoves DEF Stages
<1>4. /\ VisitTypes' /\ SameWishes
      /\ \A x \in Visits : /\ visit'[x].workspace = visit[x].workspace
                           /\ visit'[x].stage = IF x = v THEN "created" ELSE visit[x].stage
  BY <1>3 DEF Moves
<1>5. \A x \in Visits : Founded(x)' <=> Founded(x)
  BY <1>1, <1>4 DEF Founded
<1>6. w \in Visits /\ Founded(w)
  BY <1>1, <1>2 DEF VisitsAreSignedIn, WorkspacesAreFounded, Founded
<1>7. /\ invitation[v].status = "none" /\ invitation[v].workspace = Nowhere
      /\ v \notin mailed /\ v \notin Range(granted) /\ ReadBy(v) = {}
  <2>1. invitation[v].status = "none"
    BY <1>1, <1>2 DEF InvitationsAreMade
  <2> QED  BY <1>2, <2>1 DEF InvitationsAreMade, ReadBy
<1>8. invitation \in [Visits -> InvitationRows]
  BY <1>2 DEF TableTypes
<1> HIDE DEF w
<1>9. /\ invitation' \in [Visits -> InvitationRows]
      /\ invitation'[v].status = "PENDING" /\ invitation'[v].workspace = w
      /\ invitation'[v].guest = invitation[v].guest
      /\ \A i \in Visits : i # v => invitation'[i] = invitation[i]
  BY <1>1, <1>6, <1>8 DEF InvitationRows
<1>10. TableTypes'
  BY <1>1, <1>2, <1>9 DEF TableTypes
<1>11. QuietFrame
  BY <1>1, <1>2, <1>4, <1>7, <1>9 DEF QuietFrame, SameWishes, InvitationsAreMade, TableTypes
<1>12. MembersAreOne' /\ RolesFit' /\ \A x : Team(x)' = Team(x)
  BY <1>11, QuietKeepsMembers
<1>13. VisitsAreSignedIn' /\ WorkspacesAreFounded' /\ OldestIsOwn'
  <2>1. MembersGrow
    BY <1>1 DEF MembersGrow
  <2> QED  BY <1>1, <1>4, <1>5, <2>1, GrowthKeepsHomes
<1>14. \A i : ReadBy(i)' = ReadBy(i)
  BY <1>1, <1>4 DEF ReadBy, VisitAt, SameWishes
<1>15. VoidIsClosed'
  BY <1>1, <1>2, <1>7, <1>9, <1>14 DEF VoidIsClosed, MemberInv, TableTypes
<1>16. InvitationsAreMade'
  <2>1. ASSUME NEW i \in Visits
        PROVE  IF invitation'[i].status = "none" THEN invitation'[i].workspace = Nowhere
               ELSE /\ visit'[i].stage \in {"created", "done"}
                    /\ invitation'[i].workspace \in Visits
                    /\ visit'[invitation'[i].workspace].stage \notin {"new", "newcomer"}
    <3>1. CASE i = v
      BY <1>4, <1>6, <1>9, <3>1 DEF Founded
    <3>2. CASE i # v /\ invitation[i].status = "none"
      BY <1>2, <1>9, <3>2 DEF InvitationsAreMade
    <3>3. CASE i # v /\ invitation[i].status # "none"
      <4>1. /\ visit[i].stage \in {"created", "done"} /\ invitation[i].workspace \in Visits
            /\ Founded(invitation[i].workspace)
        BY <1>2, <3>3 DEF InvitationsAreMade
      <4> QED  BY <1>4, <1>9, <3>3, <4>1 DEF Founded
    <3> QED  BY <3>1, <3>2, <3>3
  <2>2. \A i \in Visits : visit'[i].stage = "created" => invitation'[i].status # "none"
    BY <1>2, <1>4, <1>9 DEF InvitationsAreMade
  <2>3. \A i \in mailed' : invitation'[i].status # "none"
    BY <1>1, <1>2, <1>7, <1>9 DEF InvitationsAreMade, TableTypes
  <2>4. ASSUME NEW x \in Visits, visit'[x].stage = "read"
        PROVE  /\ visit'[x].wants = "accept" /\ visit'[x].invitation \in mailed'
               /\ invitation'[visit'[x].invitation].guest = visit'[x].user
    <3>1. visit[x].wants = "accept" /\ visit[x].invitation \in mailed
          /\ invitation[visit[x].invitation].guest = visit[x].user
      BY <1>2, <1>4, <2>4 DEF InvitationsAreMade, VisitAt, Wants, Row
    <3>2. visit[x].invitation \in Visits
      BY <1>2, <3>1 DEF TableTypes
    <3> QED  BY <1>1, <1>4, <1>9, <3>1, <3>2 DEF SameWishes
  <2>5. Range(granted') \subseteq mailed'
    BY <1>1, <1>2 DEF InvitationsAreMade
  <2> QED  BY <2>1, <2>2, <2>3, <2>4, <2>5 DEF InvitationsAreMade, VisitAt, Wants, Row, Founded
<1>17. PlacesAreLeft'
  <2> SUFFICES ASSUME NEW x \in Visits \ piled' PROVE PlacesAt(x)'
    BY DEF PlacesAreLeft
  <2>1. PlacesAt(x)
    BY <1>1 DEF MemberInv, PlacesAreLeft
  <2>2. CASE x # w
    <3>1. Open(x)' \subseteq Open(x)
      BY <1>9, <1>14, <2>2 DEF Open
    <3>2. \A i \in Open(x) : invitation'[i].guest = invitation[i].guest
      BY <1>9 DEF Open
    <3> QED  BY <1>1, <1>12, <2>1, <3>1, <3>2, PlacesStay
  <2>3. CASE x = w
    <3>1. Open(x) = {} /\ ~TeamIsFull(x)
      BY <1>1, <2>3
    <3>2. Open(x)' \subseteq {v}
      BY <1>9, <1>14, <2>3, <3>1 DEF Open
    <3>3. \A n \in TeamLimit : Cardinality(Team(x)) < n
      <4>1. Cardinality(Team(x)) \in Nat /\ Cardinality(MembersOf(x)) = Cardinality(Team(x))
        BY TeamIsCounted
      <4> QED  BY <3>1, <4>1, TeamAssumption DEF TeamIsFull
    <3>4. \A n \in TeamLimit : Cardinality(Team(x)') < n
      BY <1>12, <3>3
    <3>5. Cardinality(Team(x)') \in Nat
      BY <1>12, TeamIsCounted
    <3> QED  BY <3>2, <3>4, <3>5, TeamAssumption DEF PlacesAt
  <2> QED  BY <2>2, <2>3
<1> QED  BY <1>4, <1>10, <1>12, <1>13, <1>15, <1>16, <1>17 DEF MemberInv

-----------------------------------------------------------------------------
(***************************************************************************)
(* Accepting.                                                              *)
(***************************************************************************)
\* The guest u of w is a member afterwards, in the role; nobody else changes.
Joining(w, u, role) ==
  /\ members' \in Seq(MemberRows)
  /\ \E k \in DOMAIN members' : members'[k].workspace = w /\ members'[k].user = u
  /\ \A k \in DOMAIN members' :
       \/ members'[k].workspace = w /\ members'[k].user = u /\ members'[k].role = role
       \/ /\ k \in DOMAIN members /\ members'[k] = members[k]
          /\ ~(members[k].workspace = w /\ members[k].user = u)
  /\ DOMAIN members \subseteq DOMAIN members'
  /\ \A k \in DOMAIN members : /\ members'[k].workspace = members[k].workspace
                               /\ members'[k].user = members[k].user
  /\ \/ DOMAIN members' = DOMAIN members
     \/ /\ DOMAIN members' = DOMAIN members \cup {Len(members) + 1}
        /\ \A k \in DOMAIN members : members[k].workspace = w => members[k].user # u

LEMMA JoiningIsPut ==
  ASSUME MemberInv, NEW w \in Visits, NEW u \in Users, NEW role \in MemberRoles,
         members' = Joined(w, u, role)
  PROVE  Joining(w, u, role)
<1> DEFINE own == [workspace |-> w, user |-> u, role |-> role]
<1>1. /\ Len(members) \in Nat /\ DOMAIN members = 1..Len(members) /\ members \in Seq(MemberRows)
      /\ \A k \in DOMAIN members : members[k] \in MemberRows /\ k \in Nat
  BY MembersAreSequence DEF MemberInv, TableTypes
<1>2. own \in MemberRows /\ own.workspace = w /\ own.user = u /\ own.role = role
  BY DEF MemberRows
<1>3. CASE RoleIn(w, u) = {}
  <2>1. \A k \in DOMAIN members : members[k].workspace = w => members[k].user # u
    BY <1>3 DEF RoleIn, MembersOf, Range
  <2>2. members' = Append(members, own)
    BY <1>3 DEF Joined
  <2> HIDE DEF own
  <2>3. /\ members' \in Seq(MemberRows) /\ DOMAIN members' = 1..(Len(members) + 1)
        /\ members'[Len(members) + 1] = own
        /\ \A k \in DOMAIN members : members'[k] = members[k]
    BY <1>1, <1>2, <2>2
  <2>4. DOMAIN members' = DOMAIN members \cup {Len(members) + 1}
    BY <1>1, <2>3
  <2> QED  BY <1>2, <2>1, <2>3, <2>4 DEF Joining
<1>4. CASE RoleIn(w, u) # {}
  <2>1. members' = [k \in DOMAIN members |->
                      IF members[k].workspace = w /\ members[k].user = u
                      THEN [members[k] EXCEPT !.role = role] ELSE members[k]]
    BY <1>4 DEF Joined
  <2>2. ASSUME NEW k \in DOMAIN members
        PROVE  /\ [members[k] EXCEPT !.role = role] \in MemberRows
               /\ [members[k] EXCEPT !.role = role].workspace = members[k].workspace
               /\ [members[k] EXCEPT !.role = role].user = members[k].user
               /\ [members[k] EXCEPT !.role = role].role = role
    BY <1>1, <2>2 DEF MemberRows
  <2>3. \A k \in DOMAIN members : /\ members'[k] \in MemberRows
                                  /\ members'[k].workspace = members[k].workspace
                                  /\ members'[k].user = members[k].user
                                  /\ \/ /\ members'[k] = members[k]
                                        /\ ~(members[k].workspace = w /\ members[k].user = u)
                                     \/ /\ members[k].workspace = w /\ members[k].user = u
                                        /\ members'[k].role = role
    BY <1>1, <2>1, <2>2
  <2>4. DOMAIN members' = DOMAIN members
    BY <2>1
  <2>5. members' \in Seq(MemberRows)
    <3>1. members' \in [1..Len(members) -> MemberRows]
      BY <1>1, <2>1, <2>3
    <3> QED  BY <1>1, <3>1, SeqDef
  <2>6. PICK k \in DOMAIN members : members[k].workspace = w /\ members[k].user = u
    BY <1>4 DEF RoleIn, MembersOf, Range
  <2> QED  BY <2>3, <2>4, <2>5, <2>6 DEF Joining
<1> QED  BY <1>3, <1>4

LEMMA AcceptingMoves ==
  ASSUME MemberInv, NEW v \in Visits, AcceptInvitation(v)
  PROVE  /\ visit[v].stage = "read" /\ Moves(v, "done") /\ VisitTypes'
         /\ visit[v].invitation \in mailed /\ visit[v].invitation \in Visits
         /\ Row(v).guest = visit[v].user /\ Row(v).status # "none"
         /\ Row(v).workspace \in Visits
         /\ Joining(Row(v).workspace, visit[v].user, Row(v).role)
         /\ invitation' \in [Visits -> InvitationRows]
         /\ \A i \in Visits :
              /\ invitation'[i].workspace = invitation[i].workspace
              /\ invitation'[i].guest = invitation[i].guest
              /\ invitation'[i].role = invitation[i].role
              /\ invitation'[i].status =
                   IF i = visit[v].invitation THEN "ACCEPTED" ELSE invitation[i].status
         /\ UNCHANGED <<mailed, void, crossed, piled>>
         /\ granted' = Append(granted, visit[v].invitation)
<1>1. /\ visit[v].stage = "read" /\ Goes(v, "done")
      /\ invitation' = [invitation EXCEPT ![visit[v].invitation].status = "ACCEPTED"]
      /\ granted' = Append(granted, visit[v].invitation)
      /\ UNCHANGED <<mailed, void, crossed, piled>>
  BY DEF AcceptInvitation, VisitAt
<1>2. VisitTypes /\ TableTypes /\ InvitationsAreMade
  BY DEF MemberInv
<1>3. Moves(v, "done") /\ VisitTypes'
  BY <1>1, <1>2, GoingMoves DEF Stages, Moves
<1>4. /\ visit[v].invitation \in mailed /\ visit[v].invitation \in Visits
      /\ Row(v).guest = visit[v].user /\ Row(v).status # "none" /\ Row(v).workspace \in Visits
  BY <1>1, <1>2 DEF InvitationsAreMade, TableTypes, VisitAt, Row
<1>5. visit[v].user \in Users /\ Row(v).role \in MemberRoles
  BY <1>2, <1>4 DEF VisitTypes, VisitRecords, TableTypes, InvitationRows, Row
<1>6. Joining(Row(v).workspace, visit[v].user, Row(v).role)
  BY <1>4, <1>5, JoiningIsPut DEF AcceptInvitation
<1>7. /\ invitation' \in [Visits -> InvitationRows]
      /\ \A i \in Visits :
           /\ invitation'[i].workspace = invitation[i].workspace
           /\ invitation'[i].guest = invitation[i].guest
           /\ invitation'[i].role = invitation[i].role
           /\ invitation'[i].status =
                IF i = visit[v].invitation THEN "ACCEPTED" ELSE invitation[i].status
  BY <1>1, <1>2, <1>4 DEF TableTypes, InvitationRows
<1> QED  BY <1>1, <1>3, <1>4, <1>6, <1>7

\* The invitation that takes effect is the last one to say what its guest's
\* role is.
LEMMA AcceptingFits ==
  ASSUME MemberInv, NEW v \in Visits, AcceptInvitation(v)
  PROVE  RolesFit'
<1> DEFINE i == visit[v].invitation
           w == invitation[i].workspace
           u == invitation[i].guest
           last == Len(granted) + 1
<1>1. /\ i \in Visits /\ w \in Visits /\ u = visit[v].user /\ granted' = Append(granted, i)
      /\ \A k \in Visits : /\ invitation'[k].workspace = invitation[k].workspace
                           /\ invitation'[k].guest = invitation[k].guest
                           /\ invitation'[k].role = invitation[k].role
      /\ Joining(w, u, invitation[i].role)
      /\ \A x \in Visits : visit'[x].user = visit[x].user
  BY AcceptingMoves DEF Row, Moves, SameWishes
<1> HIDE DEF i
<1>2. /\ Len(granted) \in Nat /\ DOMAIN granted = 1..Len(granted) /\ granted \in Seq(Visits)
      /\ \A k \in DOMAIN granted : granted[k] \in Visits /\ k \in Nat
  BY GrantedIsSequence DEF MemberInv, TableTypes
<1>3. /\ DOMAIN granted' = 1..last /\ granted'[last] = i
      /\ \A k \in DOMAIN granted : granted'[k] = granted[k]
  BY <1>1, <1>2
<1>4. ASSUME NEW w2, NEW u2
      PROVE  Given(w2, u2)' = IF w2 = w /\ u2 = u THEN Given(w2, u2) \cup {last} ELSE Given(w2, u2)
  <2>1. Given(w2, u2) \subseteq DOMAIN granted /\ Given(w2, u2)' \subseteq 1..last
    BY <1>3 DEF Given
  <2>2. ASSUME NEW k \in DOMAIN granted PROVE k \in Given(w2, u2)' <=> k \in Given(w2, u2)
    BY <1>1, <1>2, <1>3, <2>2 DEF Given
  <2>3. last \in Given(w2, u2)' <=> (w2 = w /\ u2 = u)
    BY <1>1, <1>2, <1>3 DEF Given
  <2>4. 1..last = DOMAIN granted \cup {last}
    BY <1>2
  <2> HIDE DEF last
  <2> QED  BY <2>1, <2>2, <2>3, <2>4
<1>5. SUFFICES ASSUME NEW m \in Range(members') PROVE RoleFits(m)'
  BY DEF RolesFit
<1>6. PICK k \in DOMAIN members' : m = members'[k]
  BY DEF Range
<1>7. CASE m.workspace = w /\ m.user = u
  <2>1. m.role = invitation[i].role
    BY <1>1, <1>6, <1>7 DEF Joining
  <2>2. Given(m.workspace, m.user)' = Given(w, u) \cup {last}
    BY <1>4, <1>7
  <2>3. Max(Given(w, u) \cup {last}) = last
    <3>1. \A y \in Given(w, u) : y \in Nat /\ y <= last
      BY <1>2 DEF Given
    <3> DEFINE S == Given(w, u) \cup {last}
    <3>2. S \subseteq Nat /\ last \in S /\ \A y \in S : y <= last
      BY <1>2, <3>1
    <3> HIDE DEF S, last
    <3>3. Max(S) = last
      BY <3>2, MaxIs
    <3> QED  BY <3>3 DEF S
  <2> HIDE DEF last
  <2>4. RoleFits(m)' <=> m.role = invitation'[granted'[last]].role
    BY <2>2, <2>3 DEF RoleFits
  <2> QED  BY <1>1, <1>3, <2>1, <2>4
<1>8. CASE ~(m.workspace = w /\ m.user = u)
  <2>1. m \in Range(members) /\ RoleFits(m) /\ m.workspace \in Visits
    <3>1. k \in DOMAIN members /\ m = members[k]
      BY <1>1, <1>6, <1>8 DEF Joining
    <3>2. m \in MemberRows
      BY <3>1, MembersAreSequence DEF MemberInv
    <3> QED  BY <3>1, <3>2 DEF Range, MemberInv, RolesFit, MemberRows
  <2> DEFINE g == Given(m.workspace, m.user)
  <2>2. Given(m.workspace, m.user)' = g
    BY <1>4, <1>8
  <2>3. CASE g = {}
    <3>1. RoleFits(m)' <=> m.role = "owner" /\ visit'[m.workspace].user = m.user
      BY <2>2, <2>3 DEF RoleFits, Founder
    <3> QED  BY <1>1, <2>1, <2>3, <3>1 DEF RoleFits, Founder
  <2>4. CASE g # {}
    <3>1. g \subseteq Nat /\ \A y \in g : y <= Len(granted)
      BY <1>2 DEF Given
    <3>2. Max(g) \in g
      BY <1>2, <2>4, <3>1, GreatestIsMax
    <3> DEFINE top == Max(g)
    <3>3. top \in DOMAIN granted /\ m.role = invitation[granted[top]].role
      BY <2>1, <2>4, <3>2 DEF Given, RoleFits
    <3>4. granted'[top] = granted[top] /\ granted[top] \in Visits
      BY <1>2, <1>3, <3>3
    <3>5. RoleFits(m)' <=> m.role = invitation'[granted'[top]].role
      BY <2>2, <2>4 DEF RoleFits
    <3> QED  BY <1>1, <3>3, <3>4, <3>5
  <2> QED  BY <2>3, <2>4
<1> QED  BY <1>7, <1>8

LEMMA AcceptingKeeps ==
  ASSUME MemberInv, NEW v \in Visits, AcceptInvitation(v)
  PROVE  MemberInv'
<1> DEFINE i == visit[v].invitation
           w == invitation[i].workspace
           u == invitation[i].guest
           role == invitation[i].role
           last == Len(members) + 1
<1>1. /\ visit[v].stage = "read" /\ VisitTypes' /\ SameWishes
      /\ \A x \in Visits : /\ visit'[x].workspace = visit[x].workspace
                           /\ visit'[x].stage = IF x = v THEN "done" ELSE visit[x].stage
      /\ i \in mailed /\ i \in Visits /\ w \in Visits /\ u = visit[v].user
      /\ invitation[i].status # "none"
      /\ Joining(w, u, role)
      /\ invitation' \in [Visits -> InvitationRows]
      /\ \A k \in Visits : /\ invitation'[k].workspace = invitation[k].workspace
                           /\ invitation'[k].guest = invitation[k].guest
                           /\ invitation'[k].status = IF k = i THEN "ACCEPTED" ELSE invitation[k].status
      /\ UNCHANGED <<mailed, void, crossed, piled>>
      /\ granted' = Append(granted, i)
  BY AcceptingMoves DEF Row, Moves
<1> HIDE DEF i
<1>2. VisitTypes /\ TableTypes /\ InvitationsAreMade /\ VisitsAreSignedIn /\ WorkspacesAreFounded
  BY DEF MemberInv
<1>3. /\ Len(members) \in Nat /\ DOMAIN members = 1..Len(members) /\ last \notin DOMAIN members
      /\ \A k \in DOMAIN members : k \in Nat /\ ~(last <= k)
  BY <1>2, MembersAreSequence
<1>4. /\ \A k \in DOMAIN members' \ DOMAIN members : k = last
      /\ \A k \in DOMAIN members' \ DOMAIN members :
           members'[k].workspace = w /\ members'[k].user = u
  BY <1>1 DEF Joining
<1> HIDE DEF last
<1>5. \A x \in Visits : Founded(x)' <=> Founded(x)
  BY <1>1 DEF Founded
<1>6. Founded(w)
  BY <1>1, <1>2 DEF InvitationsAreMade
<1>7. VisitsAreSignedIn' /\ WorkspacesAreFounded' /\ OldestIsOwn'
  <2>1. \E j \in DOMAIN members : members[j].user = u
    BY <1>1, <1>2 DEF VisitsAreSignedIn, Founded
  <2>2. MembersGrow
    BY <1>1, <1>3, <1>4, <1>6, <2>1 DEF MembersGrow, Joining
  <2> QED  BY <1>1, <1>5, <2>2, GrowthKeepsHomes
<1>8. MembersAreOne'
  <2> SUFFICES ASSUME NEW k \in DOMAIN members', NEW l \in DOMAIN members',
                      members'[k].workspace = members'[l].workspace,
                      members'[k].user = members'[l].user
               PROVE  k = l
    BY DEF MembersAreOne
  <2> QED  BY <1>1, <1>4 DEF Joining, MemberInv, MembersAreOne
<1>9. RolesFit'
  BY AcceptingFits
<1>10. TableTypes'
  <2>1. granted' \in Seq(Visits)
    BY <1>1, <1>2 DEF TableTypes
  <2> QED  BY <1>1, <1>2, <2>1 DEF TableTypes, Joining
<1>11. \A k : ReadBy(k)' \subseteq ReadBy(k)
  BY <1>1 DEF ReadBy, VisitAt, SameWishes
<1>12. Range(granted') \subseteq Range(granted) \cup {i}
  <2>1. granted \in Seq(Visits)
    BY <1>2 DEF TableTypes
  <2>2. \A k \in DOMAIN granted' : granted'[k] \in Range(granted) \cup {i}
    BY <1>1, <2>1 DEF Range
  <2> QED  BY <2>2 DEF Range
<1>13. VoidIsClosed'
  <2>1. v \in ReadBy(i)
    BY <1>1 DEF ReadBy, VisitAt, i
  <2> SUFFICES ASSUME NEW k \in void
               PROVE  /\ invitation'[k].status \notin {"none", "PENDING"}
                      /\ ReadBy(k)' = {} /\ k \notin Range(granted')
    BY <1>1 DEF VoidIsClosed
  <2>2. /\ k \in Visits /\ k # i /\ invitation[k].status \notin {"none", "PENDING"}
        /\ ReadBy(k) = {} /\ k \notin Range(granted)
    BY <1>2, <2>1 DEF MemberInv, VoidIsClosed, TableTypes
  <2> QED  BY <1>1, <1>11, <1>12, <2>2
<1>14. InvitationsAreMade'
  <2>1. ASSUME NEW k \in Visits
        PROVE  IF invitation'[k].status = "none" THEN invitation'[k].workspace = Nowhere
               ELSE /\ visit'[k].stage \in {"created", "done"}
                    /\ invitation'[k].workspace \in Visits
                    /\ visit'[invitation'[k].workspace].stage \notin {"new", "newcomer"}
    <3>1. CASE invitation[k].status = "none"
      BY <1>1, <1>2, <3>1 DEF InvitationsAreMade
    <3>2. CASE invitation[k].status # "none"
      <4>1. /\ visit[k].stage \in {"created", "done"} /\ invitation[k].workspace \in Visits
            /\ Founded(invitation[k].workspace)
        BY <1>2, <3>2 DEF InvitationsAreMade
      <4> QED  BY <1>1, <3>2, <4>1 DEF Founded
    <3> QED  BY <3>1, <3>2
  <2>2. \A k \in Visits : visit'[k].stage = "created" => invitation'[k].status # "none"
    BY <1>1, <1>2 DEF InvitationsAreMade
  <2>3. \A k \in mailed' : invitation'[k].status # "none"
    BY <1>1, <1>2 DEF InvitationsAreMade, TableTypes
  <2>4. ASSUME NEW x \in Visits, visit'[x].stage = "read"
        PROVE  /\ visit'[x].wants = "accept" /\ visit'[x].invitation \in mailed'
               /\ invitation'[visit'[x].invitation].guest = visit'[x].user
    <3>1. visit[x].wants = "accept" /\ visit[x].invitation \in mailed
          /\ invitation[visit[x].invitation].guest = visit[x].user
      BY <1>1, <1>2, <2>4 DEF InvitationsAreMade, VisitAt, Wants, Row
    <3>2. visit[x].invitation \in Visits
      BY <1>2, <3>1 DEF TableTypes
    <3> QED  BY <1>1, <3>1, <3>2 DEF SameWishes
  <2>5. Range(granted') \subseteq mailed'
    BY <1>1, <1>2, <1>12 DEF InvitationsAreMade
  <2> QED  BY <2>1, <2>2, <2>3, <2>4, <2>5 DEF InvitationsAreMade, VisitAt, Wants, Row, Founded
<1>15. PlacesAreLeft'
  <2> SUFFICES ASSUME NEW x \in Visits \ piled PROVE PlacesAt(x)'
    BY <1>1 DEF PlacesAreLeft
  <2>1. PlacesAt(x)
    BY DEF MemberInv, PlacesAreLeft
  <2>2. Open(x)' \subseteq Open(x)
    BY <1>1, <1>11 DEF Open
  <2>3. /\ \A k \in Open(x) : invitation'[k].guest = invitation[k].guest
        /\ \A k \in Team(x) : members'[k].user = members[k].user
    BY <1>1 DEF Open, Joining, Team
  <2>4. CASE Team(x)' = Team(x)
    BY <2>1, <2>2, <2>3, <2>4, PlacesStay
  <2>5. CASE Team(x)' # Team(x)
    <3>1. \A k \in DOMAIN members : k \in Team(x)' <=> k \in Team(x)
      BY <1>1 DEF Team, Joining
    <3>2. /\ last \in DOMAIN members' /\ x = w /\ Team(x)' = Team(x) \cup {last}
          /\ members'[last].user = u /\ last \notin Team(x)
          /\ \A k \in DOMAIN members : members[k].workspace = w => members[k].user # u
      <4>1. Team(x) \subseteq Team(x)' /\ Team(x)' \subseteq DOMAIN members'
        BY <1>1, <3>1 DEF Team, Joining
      <4>2. PICK k \in DOMAIN members' \ DOMAIN members : k \in Team(x)'
        BY <2>5, <3>1, <4>1
      <4>3. k = last /\ members'[k].workspace = w /\ members'[k].user = u /\ x = w
        BY <1>4, <4>2 DEF Team
      <4>4. Team(x)' = Team(x) \cup {last}
        BY <1>4, <3>1, <4>1, <4>2, <4>3
      <4>5. \A j \in DOMAIN members : members[j].workspace = w => members[j].user # u
        BY <1>1, <4>2 DEF Joining
      <4> QED  BY <1>3, <4>2, <4>3, <4>4, <4>5 DEF Team
    <3>3. i \in Open(x) /\ ~GuestJoined(i, x)
      <4>1. v \in ReadBy(i)
        BY <1>1 DEF ReadBy, VisitAt, i
      <4> QED  BY <1>1, <3>2, <4>1 DEF Open, GuestJoined, Team
    <3>4. \A n \in TeamLimit : Cardinality(Team(x)) < n
      BY <2>1, <3>3 DEF PlacesAt
    <3>5. /\ Cardinality(Team(x)) \in Nat
          /\ Cardinality(Team(x) \cup {last}) = Cardinality(Team(x)) + 1
      BY <3>2, TeamIsCounted, FS_AddElement
    <3>6. \A n \in TeamLimit : Cardinality(Team(x)') <= n
      BY <3>2, <3>4, <3>5, TeamAssumption
    <3>7. \A k \in Open(x)' : k = i
      BY <2>1, <2>2, <3>3 DEF PlacesAt
    <3>8. last \in Team(x)' /\ members'[last].user = invitation'[i].guest
      BY <1>1, <3>2
    <3>9. \A k \in Open(x)' : GuestJoined(k, x)'
      BY <3>7, <3>8 DEF GuestJoined
    <3> QED  BY <3>6, <3>7, <3>9 DEF PlacesAt
  <2> QED  BY <2>4, <2>5
<1> QED  BY <1>1, <1>7, <1>8, <1>9, <1>10, <1>13, <1>14, <1>15 DEF MemberInv

-----------------------------------------------------------------------------
LEMMA MembersStart == MemberInit => MemberInv
<1> SUFFICES ASSUME MemberInit PROVE MemberInv
  OBVIOUS
<1>1. /\ members = <<>> /\ mailed = {} /\ granted = <<>> /\ void = {} /\ piled = {}
      /\ invitation = [i \in Visits |-> [status |-> "none", workspace |-> Nowhere,
                                         guest |-> visit[i].guest, role |-> visit[i].role,
                                         expired |-> FALSE]]
  BY DEF MemberInit
<1>2. PICK c \in MemberCases :
        visit = [v \in Visits |->
                   [stage |-> "new", workspace |-> Nowhere, user |-> c.visit[v].user,
                    wants |-> c.visit[v].wants, guest |-> c.visit[v].guest,
                    role |-> c.visit[v].role, invitation |-> c.visit[v].invitation]]
  BY DEF MemberInit
<1>3. /\ c.visit \in [Visits -> Wishes]
      /\ \A v \in Visits : c.visit[v].wants \in {"accept", "revoke"} => c.visit[v].invitation \in Visits
  BY MemberCasesAssumption
<1>4. \A v \in Visits :
        /\ c.visit[v].user \in Users /\ c.visit[v].guest \in Users
        /\ c.visit[v].role \in {"admin", "member"} /\ c.visit[v].invitation \in Visits \cup {"none"}
        /\ c.visit[v].wants \in {"look", "invite", "accept", "revoke", "delete", "nothing"}
  BY <1>3 DEF Wishes
<1>5. VisitTypes
  <2>1. visit \in [Visits -> VisitRecords]
    BY <1>2, <1>4 DEF VisitRecords, Stages, MemberRoles
  <2> QED  BY <1>2, <1>3, <2>1 DEF VisitTypes
<1>6. \A v \in Visits : visit[v].stage = "new" /\ visit[v].workspace = Nowhere
  BY <1>2
<1>7. DOMAIN members = {} /\ DOMAIN granted = {} /\ Range(granted) = {} /\ Range(members) = {}
  BY <1>1 DEF Range
<1>8. TableTypes
  <2>1. invitation \in [Visits -> InvitationRows]
    BY <1>1, <1>5 DEF VisitTypes, VisitRecords, InvitationRows
  <2> QED  BY <1>1, <2>1 DEF TableTypes
<1>9. \A i \in Visits : invitation[i].status = "none" /\ invitation[i].workspace = Nowhere
  BY <1>1
<1>10. VisitsAreSignedIn /\ MembersAreOne /\ WorkspacesAreFounded /\ OldestIsOwn /\ RolesFit
  BY <1>6, <1>7 DEF VisitsAreSignedIn, MembersAreOne, WorkspacesAreFounded, OldestIsOwn, RolesFit,
                    Founded
<1>11. InvitationsAreMade /\ VoidIsClosed
  BY <1>1, <1>6, <1>7, <1>9 DEF InvitationsAreMade, VoidIsClosed, VisitAt
<1>12. PlacesAreLeft
  <2>1. \A w \in Visits : Team(w) = {} /\ Open(w) = {}
    BY <1>6, <1>7, <1>9 DEF Team, Open, ReadBy, VisitAt
  <2>2. Cardinality({}) = 0
    BY FS_EmptySet
  <2> QED  BY <2>1, <2>2, TeamAssumption DEF PlacesAreLeft, PlacesAt
<1> QED  BY <1>5, <1>8, <1>10, <1>11, <1>12 DEF MemberInv

\* Every step: a sign-in, or something a request does once it is in.
LEMMA MembersStep ==
  ASSUME MemberInv, [MemberNext]_memberVars
  PROVE  MemberInv'
<1>1. ASSUME NEW v \in Visits, SignIn(v) PROVE MemberInv'
  BY <1>1, SignInKeeps
<1>2. ASSUME NEW v \in Visits, FoundWorkspace(v) PROVE MemberInv'
  BY <1>2, FoundingKeeps
<1>3. ASSUME NEW v \in Visits, AskPermission(v) PROVE MemberInv'
  <2>1. PICK s \in {"permitted", "refused"} : Goes(v, s)
    BY <1>3 DEF AskPermission
  <2> QED  BY <1>3, <2>1, AskingKeeps DEF AskPermission, accounts, VisitAt, Stages, Founded
<1>4. ASSUME NEW v \in Visits, CountTeam(v) PROVE MemberInv'
  <2>1. PICK s \in {"refused", "counted"} : Goes(v, s)
    BY <1>4 DEF CountTeam
  <2> QED  BY <1>4, <2>1, AskingKeeps DEF CountTeam, accounts, VisitAt, Stages, Founded
<1>5. ASSUME NEW v \in Visits, CreateInvitation(v) PROVE MemberInv'
  BY <1>5, CreatingKeeps
<1>6. ASSUME NEW v \in Visits, NEW outcome \in mail, SendInvitation(v, outcome) PROVE MemberInv'
  <2>1. mailed' = mailed \/ mailed' = mailed \cup {v}
    BY <1>6 DEF SendInvitation
  <2> QED  BY <1>6, <2>1, AskingKeeps DEF SendInvitation, accounts, VisitAt, Stages, Founded
<1>7. ASSUME NEW v \in Visits, ReadInvitation(v) PROVE MemberInv'
  BY <1>7, AskingKeeps DEF ReadInvitation, accounts, VisitAt, Stages, Founded
<1>8. ASSUME NEW v \in Visits, FindExpired(v) PROVE MemberInv'
  <2>1. visit[v].invitation \in Visits
    BY <1>8 DEF FindExpired, MemberInv, VisitTypes, Wants
  <2> QED  BY <1>8, <2>1, ClosingKeeps DEF FindExpired, VisitAt
<1>9. ASSUME NEW v \in Visits, RefuseGuest(v) PROVE MemberInv'
  BY <1>9, AskingKeeps DEF RefuseGuest, accounts, VisitAt, Stages, Founded
<1>10. ASSUME NEW v \in Visits, AcceptInvitation(v) PROVE MemberInv'
  BY <1>10, AcceptingKeeps
<1>11. ASSUME NEW v \in Visits, RevokeInvitation(v) PROVE MemberInv'
  <2>1. visit[v].invitation \in Visits
    BY <1>11 DEF RevokeInvitation, MemberInv, VisitTypes, Wants
  <2>2. CASE Row(v).workspace = visit[v].workspace
    BY <1>11, <2>1, <2>2, ClosingKeeps DEF RevokeInvitation, VisitAt
  <2>3. CASE Row(v).workspace # visit[v].workspace
    BY <1>11, <2>3, AskingKeeps DEF RevokeInvitation, VisitAt, Stages, Founded
  <2> QED  BY <2>2, <2>3
<1>12. ASSUME NEW v \in Visits, RequestDeletion(v) PROVE MemberInv'
  BY <1>12, AskingKeeps DEF RequestDeletion, accounts, VisitAt, Stages, Founded
<1>13. ASSUME NEW i \in Visits, InvitationExpires(i) PROVE MemberInv'
  <2>1. /\ VisitTypes /\ TableTypes /\ InvitationsAreMade
        /\ invitation[i].status = "PENDING" /\ invitation' = [invitation EXCEPT ![i].expired = TRUE]
        /\ UNCHANGED <<visit, members, mailed, granted, void, crossed, piled>>
    BY <1>13 DEF InvitationExpires, accounts, MemberInv
  <2>2. RowsStay
    BY <2>1 DEF TableTypes, RowsStay, InvitationRows
  <2> DEFINE s == visit[i].stage
  <2>3. s \in {"created", "done"} /\ s \in Stages
    BY <2>1 DEF InvitationsAreMade, Stages
  <2>4. GoesOn(i, s)
    BY <2>1, <2>3 DEF GoesOn, Moves, SameWishes, VisitTypes, VisitAt, Founded
  <2>5. mailed \subseteq Visits /\ void \subseteq Visits
    BY <2>1 DEF TableTypes
  <2> QED  BY <2>1, <2>2, <2>3, <2>4, <2>5, GoingOnKeeps
<1>14. CASE AuditsChange \/ UNCHANGED memberVars
  <2>1. UNCHANGED <<visit, members, invitation, mailed, granted, void, crossed, piled>>
    BY <1>14 DEF AuditsChange, accounts, memberVars
  <2>2. /\ VisitTypes' /\ TableTypes' /\ VisitsAreSignedIn' /\ MembersAreOne'
        /\ WorkspacesAreFounded' /\ OldestIsOwn'
    BY <2>1 DEF MemberInv, VisitTypes, TableTypes, VisitsAreSignedIn, Founded, Founder,
                MembersAreOne, WorkspacesAreFounded, OldestIsOwn, IsFirst
  <2>3. InvitationsAreMade' /\ VoidIsClosed' /\ \A w : Open(w)' = Open(w)
    BY <2>1 DEF MemberInv, InvitationsAreMade, VisitAt, Wants, Row, Founded, VoidIsClosed, ReadBy,
                Open
  <2>4. RolesFit' /\ \A w : Team(w)' = Team(w)
    BY <2>1, QuietKeepsMembers DEF QuietFrame
  <2>5. PlacesAreLeft'
    <3> SUFFICES ASSUME NEW w \in Visits \ piled PROVE PlacesAt(w)'
      BY <2>1 DEF PlacesAreLeft
    <3> QED  BY <2>1, <2>3, <2>4, PlacesStay DEF MemberInv, PlacesAreLeft
  <2> QED  BY <2>2, <2>3, <2>4, <2>5 DEF MemberInv
<1> QED
  BY <1>1, <1>2, <1>3, <1>4, <1>5, <1>6, <1>7, <1>8, <1>9, <1>10, <1>11, <1>12, <1>13, <1>14
     DEF MemberNext

LEMMA MembershipFollows == MemberInv => MembershipIsGranted
<1> SUFFICES ASSUME MemberInv PROVE MembershipIsGranted
  OBVIOUS
<1>1. ActsAtHome
  <2> SUFFICES ASSUME NEW v \in Visits, visit[v].workspace # Nowhere
               PROVE  /\ Founder(visit[v].workspace) = visit[v].user
                      /\ visit[v].user \notin crossed =>
                           \A x \in Visits : visit[x].user = visit[v].user /\ visit[x].workspace # Nowhere
                                               => visit[x].workspace = visit[v].workspace
    BY DEF ActsAtHome
  <2>1. PICK j \in DOMAIN members :
          /\ Founded(v) /\ Founder(visit[v].workspace) = visit[v].user
          /\ members[j].user = visit[v].user
    BY DEF MemberInv, VisitsAreSignedIn
  <2>2. PICK k \in DOMAIN members : members[k].user = visit[v].user /\ IsFirst(k)
    BY <2>1, FirstExists DEF MemberInv
  <2>3. \A x \in Visits : visit[x].workspace # Nowhere => Founded(x)
    BY DEF MemberInv, VisitsAreSignedIn
  <2> QED  BY <2>1, <2>2, <2>3 DEF MemberInv, OldestIsOwn
<1>2. RolesAreGranted
  BY DEF MemberInv, RolesFit, RoleFits, Given, RolesAreGranted
<1>3. VoidStaysVoid
  BY DEF MemberInv, VoidIsClosed, VoidStaysVoid
<1>4. TeamFits
  <2>1. \A w : Cardinality(MembersOf(w)) = Cardinality(Team(w))
    BY TeamIsCounted
  <2> QED  BY <2>1 DEF MemberInv, PlacesAreLeft, PlacesAt, TeamFits
<1> QED  BY <1>1, <1>2, <1>3, <1>4 DEF MembershipIsGranted

LEMMA MemberTypesFollow == MemberInv => MemberTypes
<1> SUFFICES ASSUME MemberInv PROVE MemberTypes
  OBVIOUS
<1>1. \A m \in Range(members) : m \in MemberRows
  BY MembersAreSequence DEF MemberInv, Range
<1>2. \A v \in Visits : visit[v] \in VisitRecords /\ invitation[v] \in InvitationRows
  BY DEF MemberInv, VisitTypes, TableTypes
<1>3. MembersAreOne
  BY DEF MemberInv
<1> QED  BY <1>1, <1>2, <1>3 DEF MemberTypes, MembersAreOne, MemberRows, VisitRecords, Stages,
                                 InvitationRows

LEMMA MembersInvariant == MemberSpec => []MemberInv
<1>1. MemberInv /\ [MemberNext]_memberVars => MemberInv'
  BY MembersStep
<1> QED  BY MembersStart, <1>1, PTL DEF MemberSpec

\* Rows of members, invitations and requests are well formed, and nobody is a
\* member of a workspace twice, however joining and founding overlap.
THEOREM MembersAreTyped == MemberSpec => []MemberTypes
<1> QED  BY MembersInvariant, MemberTypesFollow, PTL

\* Requests act where their user founded, roles are what was granted last, a
\* closed invitation nobody had read stays without effect, and teams keep to
\* their limit unless invitations were open side by side: for any number of
\* users and requests, signing in, inviting, accepting, revoking in any order.
THEOREM MembershipIsAlwaysGranted == MemberSpec => []MembershipIsGranted
<1> QED  BY MembersInvariant, MembershipFollows, PTL

-----------------------------------------------------------------------------
(***************************************************************************)
(* Billing: the rows are well formed.                                      *)
(***************************************************************************)
Customers == Checkouts \cup {NoCustomer}
SubscriptionStatuses == {"free", "active", "past_due", "canceled"}
Periods == [of: {"none", "calendar", "subscription"}, number: Nat]
Cases == [shoppers: SUBSET Checkouts, requests: SUBSET Requests,
          stripe: Nat, faults: Nat, months: Nat]
Subscriptions ==
  [present: BOOLEAN, plan: PlanIds, status: SubscriptionStatuses,
   interval: {"monthly", "yearly"}, period: Periods, customer: Customers]
Events ==
  [kind: {"checkout", "subscription", "invoice"}, status: {"active", "past_due", "canceled"},
   customer: Checkouts, period: Nat]
Tasks == [stage: {"idle", "recorded", "synced"}, event: Nat]
PlanReads == [stage: {"idle", "plan", "period", "allowed", "refused", "created", "done", "failed"},
            plan: PlanIds, status: SubscriptionStatuses, period: Periods]
AuditRecords == [by: Requests, active: BOOLEAN, queued: BOOLEAN, fresh: BOOLEAN]
Usages == [by: Requests, period: Periods]

WebRows ==
  /\ customer \in Customers
  /\ subscription \in Subscriptions
  /\ orgPlan \in PlanIds
  /\ handler \in [Handlers -> Tasks]
StripeRows ==
  /\ stripe \in [status: {"none", "active", "past_due", "canceled"}, customer: Customers,
                 period: Nat, sent: Seq(Events), answered: SUBSET Nat]
  /\ stripe.status # "none" => stripe.customer \in Checkouts
  /\ InHand \subseteq recorded
  /\ recorded \subseteq DOMAIN stripe.sent /\ stripe.answered \subseteq recorded
AuditRows ==
  /\ request \in [Requests -> PlanReads]
  /\ audits \subseteq AuditRecords /\ usageEvents \subseteq Usages
  /\ IsFiniteSet(audits) /\ IsFiniteSet(usageEvents)

RowTypes ==
  /\ billing \in Cases
  /\ checkout \in [Checkouts -> Checkouts \cup {"idle", "new"}]
  /\ WebRows /\ StripeRows /\ AuditRows

LEMMA PeriodsAreTyped == RowTypes => Period \in Periods /\ PlanId \in PlanIds
BY PlansAssumption DEF RowTypes, WebRows, Period, PlanId, Periods, Subscriptions, Cases, Calendar, PlanIds

LEMMA SpendKeepsCases ==
  ASSUME RowTypes
  PROVE  /\ May("stripe") /\ Spend("stripe") => billing' \in Cases
         /\ May("faults") /\ Spend("faults") => billing' \in Cases
         /\ May("months") /\ Spend("months") => billing' \in Cases
BY DEF RowTypes, Cases, May, Spend

LEMMA ThreeEvents ==
  ASSUME NEW S, NEW s \in Seq(S), NEW a \in S, NEW b \in S, NEW c \in S
  PROVE  LET t == s \o <<a, b, c>> IN
         /\ t \in Seq(S) /\ Len(t) = Len(s) + 3
         /\ \A i \in 1..Len(s) : t[i] = s[i]
         /\ t[Len(s) + 1] = a /\ t[Len(s) + 2] = b /\ t[Len(s) + 3] = c
<1>1. <<a, b, c>> \in Seq(S) /\ Len(<<a, b, c>>) = 3
  OBVIOUS
<1>2. <<a, b, c>>[1] = a /\ <<a, b, c>>[2] = b /\ <<a, b, c>>[3] = c
  OBVIOUS
<1>3. Len(s) \in Nat
  OBVIOUS
<1> QED  BY <1>1, <1>2, <1>3, ConcatProperties, SMTT(30)
LEMMA TwoEvents ==
  ASSUME NEW S, NEW s \in Seq(S), NEW a \in S, NEW b \in S
  PROVE  LET t == s \o <<a, b>> IN
         /\ t \in Seq(S) /\ Len(t) = Len(s) + 2
         /\ \A i \in 1..Len(s) : t[i] = s[i]
         /\ t[Len(s) + 1] = a /\ t[Len(s) + 2] = b
<1>1. <<a, b>> \in Seq(S) /\ Len(<<a, b>>) = 2
  OBVIOUS
<1>2. <<a, b>>[1] = a /\ <<a, b>>[2] = b
  OBVIOUS
<1>3. Len(s) \in Nat
  OBVIOUS
<1> QED  BY <1>1, <1>2, <1>3, ConcatProperties, SMTT(30)
LEMMA OneEvent ==
  ASSUME NEW S, NEW s \in Seq(S), NEW a \in S
  PROVE  LET t == s \o <<a>> IN
         /\ t \in Seq(S) /\ Len(t) = Len(s) + 1
         /\ \A i \in 1..Len(s) : t[i] = s[i]
         /\ t[Len(s) + 1] = a
<1>1. <<a>> \in Seq(S) /\ Len(<<a>>) = 1
  OBVIOUS
<1>2. <<a>>[1] = a
  OBVIOUS
<1>3. Len(s) \in Nat
  OBVIOUS
<1> QED  BY <1>1, <1>2, <1>3, ConcatProperties, SMTT(30)

LEMMA BillingInitTypes == BillingInit => RowTypes
<1> SUFFICES ASSUME BillingInit PROVE RowTypes
  OBVIOUS
<1>1. billing \in Cases
  BY BillingCasesAssumption DEF BillingInit, Cases
<1>2. NoPeriod \in Periods
  BY DEF NoPeriod, Periods
<1>3. WebRows
  BY <1>2 DEF BillingInit, WebRows, NoSubscription, Customers, Subscriptions, SubscriptionStatuses,
     PlanIds, Idle, Tasks
<1>4. StripeRows
  <2>1. <<>> \in Seq(Events)
    BY EmptySeq
  <2> QED  BY <2>1 DEF BillingInit, StripeRows, InHand, Idle, Customers
<1>5. AuditRows
  BY <1>2, FS_EmptySet DEF BillingInit, AuditRows, Unread, PlanReads, PlanIds, SubscriptionStatuses
<1> QED  BY <1>1, <1>3, <1>4, <1>5 DEF RowTypes, BillingInit

\* What the requests to create audits leave alone.
LEMMA AuditStepsLeaveBilling ==
  ASSUME RowTypes, UNCHANGED <<checkout, webVars, handler, stripe>>
  PROVE  /\ checkout' \in [Checkouts -> Checkouts \cup {"idle", "new"}]
         /\ WebRows' /\ StripeRows'
BY DEF RowTypes, WebRows, StripeRows, webVars, InHand

LEMMA AuditOfIsAudit ==
  ASSUME NEW r \in Requests, \E a \in audits : a.by = r
  PROVE  AuditOf(r) \in audits /\ AuditOf(r).by = r
BY DEF AuditOf

LEMMA CreatedAudit ==
  ASSUME NEW r \in Requests, CreateAudit(r)
  PROVE  \E a \in AuditRecords : /\ audits' = audits \cup {a}
                                 /\ a.by = r /\ a.active /\ ~a.queued
<1> DEFINE a == [by |-> r, active |-> TRUE, queued |-> FALSE, fresh |-> TRUE]
<1>1. a \in AuditRecords
  BY DEF AuditRecords
<1>2. a.by = r /\ a.active /\ ~a.queued
  OBVIOUS
<1>3. audits' = audits \cup {a}
  BY DEF CreateAudit
<1> HIDE DEF a
<1> QED  BY <1>1, <1>2, <1>3

\* What a step makes of the audit of r: it ends, or is written, or is not.
Becoming(r) ==
  {[AuditOf(r) EXCEPT !.active = FALSE], [AuditOf(r) EXCEPT !.queued = TRUE, !.fresh = TRUE],
   [AuditOf(r) EXCEPT !.fresh = FALSE], [AuditOf(r) EXCEPT !.fresh = TRUE]}

LEMMA BecomingIsAudit ==
  ASSUME audits \subseteq AuditRecords, NEW r \in Requests, \E a \in audits : a.by = r
  PROVE  \A b \in Becoming(r) :
           /\ b \in AuditRecords /\ b.by = r
           /\ b.active => AuditOf(r).active
<1>1. AuditOf(r) \in AuditRecords /\ AuditOf(r).by = r
  BY AuditOfIsAudit
<1> QED  BY <1>1 DEF AuditRecords, Becoming

\* The steps that touch nothing but one audit.
LEMMA AuditAlone ==
  ASSUME NEW r \in Requests, AuditEnds(r) \/ AuditGoesQuiet(r) \/ AuditMoves(r)
  PROVE  /\ \E a \in audits : a.by = r
         /\ \E b \in Becoming(r) : Becomes(r, b)
         /\ UNCHANGED <<checkout, webVars, handler, stripe, request, usageEvents, billing, excused, unordered>>
<1>1. CASE AuditEnds(r)
  BY <1>1 DEF AuditEnds, Becoming
<1>2. CASE AuditGoesQuiet(r)
  BY <1>2 DEF AuditGoesQuiet, Becoming, ActiveSeen, ActiveAudits
<1>3. CASE AuditMoves(r)
  BY <1>3 DEF AuditMoves, Becoming, ActiveSeen, ActiveAudits
<1> QED  BY <1>1, <1>2, <1>3

\* Every request past the creation has its audit, and only one.
AuditsAreOwned ==
  /\ \A r \in Requests : request[r].stage \in {"created", "done", "failed"}
                           <=> \E a \in audits : a.by = r
  /\ \A a, b \in audits : a.by = b.by => a = b

LEMMA RequestsKeepTypes ==
  ASSUME RowTypes, AuditsAreOwned, NEW r \in Requests,
         \/ ReadPlan(r) \/ ReadPeriod(r) \/ CountUsage(r) \/ CreateAudit(r)
         \/ EnqueueFails(r) \/ Enqueue(r) \/ RecordUsageEvent(r) \/ RecordUsageFails(r)
         \/ AuditEnds(r) \/ AuditGoesQuiet(r) \/ AuditMoves(r)
  PROVE  RowTypes'
<1>0. AuditRows
  BY DEF RowTypes
<1>1. CASE ReadPlan(r)
  <2>1. AuditRows'
    BY <1>0, <1>1, PeriodsAreTyped DEF RowTypes, WebRows, Subscriptions, ReadPlan, AuditRows, PlanReads, NoPeriod, Periods
  <2> QED  BY <1>1, <2>1, AuditStepsLeaveBilling DEF RowTypes, ReadPlan
<1>2. CASE ReadPeriod(r)
  <2>1. AuditRows'
    BY <1>0, <1>2, PeriodsAreTyped DEF ReadPeriod, AuditRows, PlanReads
  <2> QED  BY <1>2, <2>1, AuditStepsLeaveBilling DEF RowTypes, ReadPeriod
<1>3. CASE CountUsage(r)
  <2>1. AuditRows'
    BY <1>0, <1>3 DEF CountUsage, AuditRows, PlanReads
  <2> QED  BY <1>3, <2>1, AuditStepsLeaveBilling DEF RowTypes, CountUsage
<1>4. CASE CreateAudit(r)
  <2>1. PICK a \in AuditRecords : audits' = audits \cup {a}
    BY <1>4, CreatedAudit
  <2>3. IsFiniteSet(audits')
    BY <1>0, <2>1, FS_AddElement DEF AuditRows
  <2>4. request' \in [Requests -> PlanReads] /\ usageEvents' = usageEvents
    BY <1>0, <1>4 DEF CreateAudit, AuditRows, PlanReads
  <2>2. AuditRows'
    BY <1>0, <2>1, <2>3, <2>4 DEF AuditRows
  <2> QED  BY <1>4, <2>2, AuditStepsLeaveBilling DEF RowTypes, CreateAudit
<1>a. ASSUME NEW a \in AuditRecords, Becomes(r, a) PROVE audits' \subseteq AuditRecords /\ IsFiniteSet(audits')
  BY <1>0, <1>a, FS_AddElement, FS_RemoveElement DEF AuditRows, Becomes
<1>b. ASSUME \E a \in audits : a.by = r
      PROVE  \A b \in Becoming(r) : b \in AuditRecords
  BY <1>0, <1>b, BecomingIsAudit DEF AuditRows
<1>5. CASE EnqueueFails(r)
  <2>1. \E a \in audits : a.by = r
    BY <1>5 DEF EnqueueFails, AuditsAreOwned
  <2>2. AuditRows'
    BY <1>0, <1>5, <1>a, <1>b, <2>1 DEF EnqueueFails, AuditRows, PlanReads, Becoming
  <2>3. billing' \in Cases
    BY <1>5, SpendKeepsCases DEF EnqueueFails
  <2> QED  BY <1>5, <2>2, <2>3, AuditStepsLeaveBilling DEF RowTypes, EnqueueFails
<1>6. CASE Enqueue(r)
  <2>1. \E a \in audits : a.by = r
    BY <1>6 DEF Enqueue, AuditsAreOwned
  <2>2. AuditRows'
    BY <1>0, <1>6, <1>a, <1>b, <2>1 DEF Enqueue, AuditRows, Becoming
  <2> QED  BY <1>6, <2>2, AuditStepsLeaveBilling DEF RowTypes, Enqueue
<1>7. CASE RecordUsageEvent(r)
  <2>1. [by |-> r, period |-> Period] \in Usages
    BY PeriodsAreTyped DEF Usages
  <2>2. AuditRows'
    BY <1>0, <1>7, <2>1, FS_AddElement DEF RecordUsageEvent, AuditRows, PlanReads
  <2> QED  BY <1>7, <2>2, AuditStepsLeaveBilling DEF RowTypes, RecordUsageEvent
<1>8. CASE RecordUsageFails(r)
  <2>1. AuditRows'
    BY <1>0, <1>8 DEF RecordUsageFails, AuditRows, PlanReads
  <2>2. billing' \in Cases
    BY <1>8, SpendKeepsCases DEF RecordUsageFails
  <2> QED  BY <1>8, <2>1, <2>2, AuditStepsLeaveBilling DEF RowTypes, RecordUsageFails
<1>9. CASE AuditEnds(r) \/ AuditGoesQuiet(r) \/ AuditMoves(r)
  <2>1. /\ \E a \in audits : a.by = r
        /\ \E b \in Becoming(r) : Becomes(r, b)
        /\ UNCHANGED <<checkout, webVars, handler, stripe, request, usageEvents, billing>>
    BY <1>9, AuditAlone
  <2>2. AuditRows'
    BY <1>0, <1>a, <1>b, <2>1 DEF AuditRows
  <2> QED  BY <2>1, <2>2, AuditStepsLeaveBilling DEF RowTypes
<1> QED  BY <1>1, <1>2, <1>3, <1>4, <1>5, <1>6, <1>7, <1>8, <1>9

-----------------------------------------------------------------------------
(***************************************************************************)
(* Billing: the limits.                                                    *)
(***************************************************************************)
CountedIn(period) == {u \in usageEvents : u.period = period}

HasRoom(r, field, n) == \A limit \in Plans[request[r].plan][field] : n < limit

\* Whoever is creating is alone, and has the room that it was counted for.
Alone == \A r, s \in Creating : r = s
CreatorIsCounted ==
  \A r \in Creating : HasRoom(r, "audits", Cardinality(CountedIn(request[r].period)))
CreatorHasRoom ==
  \A r \in Requests : request[r].stage = "allowed"
                         => HasRoom(r, "concurrent", Cardinality(ActiveAudits))

UsageFits ==
  \A u \in usageEvents :
    \E r \in Requests :
      /\ request[r].stage = "done" /\ request[r].period = u.period
      /\ Allows(r, "audits", Cardinality(CountedIn(u.period)))
ActiveFits ==
  ActiveAudits # {} =>
    \E r \in Requests :
      /\ request[r].stage \in {"created", "done", "failed"}
      /\ Allows(r, "concurrent", Cardinality(ActiveAudits))

QueuedAreCounted ==
  \A a \in audits : a.queued => a.by \in Creating \/ \E u \in usageEvents : u.by = a.by

LimitsInv ==
  /\ AuditsAreOwned
  /\ Spared({"overlap"}) => Alone
  /\ Spared({"overlap", "moved"}) => CreatorIsCounted /\ UsageFits
  /\ Spared({"overlap", "quiet"}) => CreatorHasRoom /\ ActiveFits
  /\ Spared({"unrecorded"}) => QueuedAreCounted

LEMMA LimitsByParts ==
  LimitsHoldUnlessRaced <=>
    /\ Spared({"overlap", "moved"}) => UsageFits
    /\ Spared({"overlap", "quiet"}) => ActiveFits
    /\ Spared({"unrecorded"}) => QueuedAreCounted
BY DEF LimitsHoldUnlessRaced, UsageFits, ActiveFits, CountedIn, QueuedAreCounted

LEMMA ActiveIsFinite ==
  ASSUME AuditRows
  PROVE  /\ IsFiniteSet(ActiveAudits) /\ Cardinality(ActiveAudits) \in Nat
         /\ \A p : IsFiniteSet(CountedIn(p)) /\ Cardinality(CountedIn(p)) \in Nat
BY FS_Subset, FS_CardinalityType DEF AuditRows, ActiveAudits, CountedIn

\* What another step of the requests may do to the audits that are active.
LEMMA BecomingKeepsActive ==
  ASSUME AuditRows, NEW a \in audits, NEW b, b.active => a.active,
         audits' = (audits \ {a}) \cup {b}
  PROVE  /\ Cardinality(ActiveAudits') <= Cardinality(ActiveAudits)
         /\ ActiveAudits' # {} => ActiveAudits # {}
<1>1. CASE b.active
  <2>1. ActiveAudits' = (ActiveAudits \ {a}) \cup {b} /\ a \in ActiveAudits
    BY <1>1 DEF ActiveAudits
  <2>2. IsFiniteSet(ActiveAudits \ {a}) /\ Cardinality(ActiveAudits \ {a}) = Cardinality(ActiveAudits) - 1
    BY <2>1, ActiveIsFinite, FS_RemoveElement
  <2>3. Cardinality(ActiveAudits') \in {Cardinality(ActiveAudits \ {a}), Cardinality(ActiveAudits \ {a}) + 1}
    <3> HIDE DEF ActiveAudits
    <3> QED  BY <2>1, <2>2, FS_AddElement
  <2> QED  BY <2>1, <2>2, <2>3, ActiveIsFinite
<1>2. CASE ~b.active
  <2>1. ActiveAudits' \subseteq ActiveAudits
    BY <1>2 DEF ActiveAudits
  <2> QED  BY <2>1, ActiveIsFinite, FS_Subset
<1> QED  BY <1>1, <1>2

LEMMA OwnersStay ==
  ASSUME RowTypes, AuditsAreOwned, NEW r \in Requests,
         \/ ReadPlan(r) \/ ReadPeriod(r) \/ CountUsage(r) \/ CreateAudit(r)
         \/ EnqueueFails(r) \/ Enqueue(r) \/ RecordUsageEvent(r) \/ RecordUsageFails(r)
         \/ AuditEnds(r) \/ AuditGoesQuiet(r) \/ AuditMoves(r)
  PROVE  AuditsAreOwned'
<1>0. request \in [Requests -> PlanReads] /\ audits \subseteq AuditRecords
  BY DEF RowTypes, AuditRows
<1>1. CASE UNCHANGED audits
  <2>1. \A s \in Requests : request'[s].stage \in {"created", "done", "failed"}
                              <=> request[s].stage \in {"created", "done", "failed"}
    <3>1. \/ ReadPlan(r) \/ ReadPeriod(r) \/ CountUsage(r) \/ RecordUsageEvent(r)
          \/ RecordUsageFails(r) \/ UNCHANGED request \/ EnqueueFails(r) \/ CreateAudit(r)
      BY AuditAlone DEF Enqueue
    <3>2. ~CreateAudit(r)
      <4>1. SUFFICES ASSUME CreateAudit(r) PROVE FALSE
        OBVIOUS
      <4>2. \E a \in audits' : a.by = r
        BY <4>1, CreatedAudit
      <4>3. request[r].stage = "allowed"
        BY <4>1 DEF CreateAudit
      <4> QED  BY <1>1, <4>2, <4>3 DEF AuditsAreOwned
    <3> QED  BY <1>0, <3>1, <3>2 DEF ReadPlan, ReadPeriod, CountUsage, RecordUsageEvent,
               RecordUsageFails, EnqueueFails, PlanReads
  <2> QED  BY <1>1, <2>1 DEF AuditsAreOwned
<1>2. CASE CreateAudit(r)
  <2>0. PICK b \in AuditRecords : audits' = audits \cup {b} /\ b.by = r
    BY <1>2, CreatedAudit
  <2>1. ~ \E a \in audits : a.by = r
    BY <1>2 DEF CreateAudit, AuditsAreOwned
  <2>2. \A s \in Requests : request'[s].stage \in {"created", "done", "failed"}
                              <=> s = r \/ request[s].stage \in {"created", "done", "failed"}
    BY <1>0, <1>2 DEF CreateAudit, PlanReads
  <2> QED  BY <2>0, <2>1, <2>2 DEF AuditsAreOwned
<1>3. ASSUME NEW b, b.by = r, \E a \in audits : a.by = r, Becomes(r, b),
             \A s \in Requests : request'[s].stage \in {"created", "done", "failed"}
                                   <=> request[s].stage \in {"created", "done", "failed"}
      PROVE  AuditsAreOwned'
  <2>1. AuditOf(r) \in audits /\ AuditOf(r).by = r
    BY <1>3, AuditOfIsAudit
  <2> QED  BY <1>3, <2>1 DEF AuditsAreOwned, Becomes
<1>4. ASSUME \E a \in audits : a.by = r
      PROVE  \A b \in Becoming(r) : b.by = r
  BY <1>0, <1>4, BecomingIsAudit
<1>5. CASE EnqueueFails(r)
  <2>1. \E a \in audits : a.by = r
    BY <1>5 DEF EnqueueFails, AuditsAreOwned
  <2>2. \A s \in Requests : request'[s].stage \in {"created", "done", "failed"}
                                   <=> request[s].stage \in {"created", "done", "failed"}
    BY <1>0, <1>5 DEF EnqueueFails, PlanReads
  <2> QED  BY <1>3, <1>4, <1>5, <2>1, <2>2 DEF EnqueueFails, Becoming
<1>6. CASE Enqueue(r)
  <2>1. \E a \in audits : a.by = r
    BY <1>6 DEF Enqueue, AuditsAreOwned
  <2> QED  BY <1>3, <1>4, <1>6, <2>1 DEF Enqueue, Becoming
<1>7. CASE AuditEnds(r) \/ AuditGoesQuiet(r) \/ AuditMoves(r)
  <2>1. /\ \E a \in audits : a.by = r
        /\ \E b \in Becoming(r) : Becomes(r, b)
        /\ request' = request
    BY <1>7, AuditAlone
  <2> QED  BY <1>3, <1>4, <2>1
<1> QED  BY <1>1, <1>2, <1>5, <1>6, <1>7 DEF ReadPlan, ReadPeriod, CountUsage, RecordUsageEvent, RecordUsageFails

LEMMA PlanLimits ==
  ASSUME RowTypes, NEW r \in Requests
  PROVE  \A field \in {"audits", "concurrent"} : Plans[request[r].plan][field] \subseteq Nat
BY PlansAssumption DEF RowTypes, AuditRows, PlanReads

\* A step that allows nobody, creates no audit and counts none.
LEMMA QuietStepKeepsLimits ==
  ASSUME RowTypes, usageEvents' = usageEvents,
         Cardinality(ActiveAudits') \in Nat, Cardinality(ActiveAudits') <= Cardinality(ActiveAudits),
         ActiveAudits' # {} => ActiveAudits # {},
         \A s \in Requests :
           /\ request'[s].stage \in {"allowed", "created"} => request'[s].stage = request[s].stage
           /\ request[s].stage = "done" => request'[s].stage = "done"
           /\ request[s].stage \in {"created", "failed"} => request'[s].stage \in {"created", "done", "failed"}
           /\ request[s].stage \in {"allowed", "created", "done", "failed"}
                => request'[s].plan = request[s].plan /\ request'[s].period = request[s].period
  PROVE  /\ Alone => Alone'
         /\ CreatorIsCounted => CreatorIsCounted'
         /\ UsageFits => UsageFits'
         /\ CreatorHasRoom => CreatorHasRoom'
         /\ ActiveFits => ActiveFits'
<1> DEFINE n == Cardinality(ActiveAudits)
           m == Cardinality(ActiveAudits')
<1>0. n \in Nat /\ m \in Nat /\ m <= n
  BY ActiveIsFinite DEF RowTypes
<1>1. \A p : CountedIn(p)' = CountedIn(p)
  BY DEF CountedIn
<1>2. ASSUME UsageFits PROVE UsageFits'
  <2>1. SUFFICES ASSUME NEW u \in usageEvents
                 PROVE  \E r \in Requests :
                          /\ request'[r].stage = "done" /\ request'[r].period = u.period
                          /\ \A limit \in Plans[request'[r].plan]["audits"] :
                               Cardinality(CountedIn(u.period)) <= limit
    BY <1>1 DEF UsageFits, Allows
  <2>2. PICK r \in Requests : /\ request[r].stage = "done" /\ request[r].period = u.period
                              /\ Allows(r, "audits", Cardinality(CountedIn(u.period)))
    BY <1>2 DEF UsageFits
  <2> QED  BY <2>2 DEF Allows
<1> HIDE DEF n, m
<1>3. ASSUME ActiveFits PROVE ActiveFits'
  <2>1. SUFFICES ASSUME ActiveAudits' # {}
                 PROVE  \E r \in Requests :
                          /\ request'[r].stage \in {"created", "done", "failed"}
                          /\ \A limit \in Plans[request'[r].plan]["concurrent"] : m <= limit
    BY DEF ActiveFits, Allows, m
  <2>2. PICK r \in Requests : /\ request[r].stage \in {"created", "done", "failed"}
                              /\ \A limit \in Plans[request[r].plan]["concurrent"] : n <= limit
    BY <1>3, <2>1 DEF ActiveFits, Allows, n
  <2>3. \A limit \in Plans[request[r].plan]["concurrent"] : m <= limit
    BY <1>0, <2>2, PlanLimits
  <2> QED  BY <2>2, <2>3
<1>4. Creating' \subseteq Creating
  BY DEF Creating
<1>5. ASSUME CreatorIsCounted PROVE CreatorIsCounted'
  <2>1. SUFFICES ASSUME NEW r \in Creating'
                 PROVE  \A limit \in Plans[request'[r].plan]["audits"] :
                               Cardinality(CountedIn(request'[r].period)) < limit
    BY <1>1 DEF CreatorIsCounted, HasRoom
  <2>2. request'[r].plan = request[r].plan /\ request'[r].period = request[r].period
    BY DEF Creating
  <2> QED  BY <1>4, <1>5, <2>2 DEF CreatorIsCounted, HasRoom
<1>6. ASSUME CreatorHasRoom PROVE CreatorHasRoom'
  <2>1. SUFFICES ASSUME NEW r \in Requests, request'[r].stage = "allowed"
                 PROVE  \A limit \in Plans[request[r].plan]["concurrent"] : m < limit
    BY DEF CreatorHasRoom, HasRoom, m
  <2>2. request[r].stage = "allowed"
    BY <2>1
  <2>3. \A limit \in Plans[request[r].plan]["concurrent"] : n < limit
    BY <1>6, <2>2 DEF CreatorHasRoom, HasRoom, n
  <2> QED  BY <1>0, <2>3, PlanLimits
<1> QED  BY <1>2, <1>3, <1>4, <1>5, <1>6 DEF Alone

\* One who is allowed was counted with nobody else creating.
LEMMA AllowedKeepsLimits ==
  ASSUME RowTypes, NEW r \in Requests, CountUsage(r), ~Refused(r), Creating = {}
  PROVE  /\ Alone' /\ CreatorIsCounted'
         /\ UsageFits => UsageFits'
         /\ ActiveFits => ActiveFits'
         /\ ActiveSeen = ActiveAudits => CreatorHasRoom'
<1>0. /\ request[r].stage = "period"
      /\ usageEvents' = usageEvents /\ audits' = audits
      /\ request' = [request EXCEPT ![r].stage = "allowed"]
      /\ request \in [Requests -> PlanReads]
  BY DEF CountUsage, RowTypes, AuditRows
<1>1. /\ \A s \in Requests : /\ request'[s].plan = request[s].plan
                             /\ request'[s].period = request[s].period
                             /\ request'[s].stage = IF s = r THEN "allowed" ELSE request[s].stage
  BY <1>0 DEF PlanReads
<1>2. (\A p : CountedIn(p)' = CountedIn(p)) /\ ActiveAudits' = ActiveAudits
  BY <1>0 DEF CountedIn, ActiveAudits
<1>3. UsageFits => UsageFits'
  BY <1>0, <1>1, <1>2 DEF UsageFits, Allows
<1>4. ActiveFits => ActiveFits'
  BY <1>0, <1>1, <1>2 DEF ActiveFits, Allows
<1>5. Creating' = {r}
  BY <1>0, <1>1 DEF Creating
<1>6. /\ ~Reached(Plans[request[r].plan].audits, Cardinality(CountedIn(request[r].period)))
      /\ ~Reached(Plans[request[r].plan].concurrent, Cardinality(ActiveSeen))
  BY DEF Refused, CountedIn
<1>7. /\ HasRoom(r, "audits", Cardinality(CountedIn(request[r].period)))
      /\ ActiveSeen = ActiveAudits => HasRoom(r, "concurrent", Cardinality(ActiveAudits))
  <2> DEFINE n == Cardinality(CountedIn(request[r].period))
             m == Cardinality(ActiveAudits)
  <2>1. n \in Nat /\ m \in Nat
    BY ActiveIsFinite DEF RowTypes
  <2>2. /\ ~Reached(Plans[request[r].plan]["audits"], n)
        /\ ActiveSeen = ActiveAudits => ~Reached(Plans[request[r].plan]["concurrent"], m)
    BY <1>6
  <2> HIDE DEF n, m
  <2>3. HasRoom(r, "audits", n) /\ (ActiveSeen = ActiveAudits => HasRoom(r, "concurrent", m))
    BY <2>1, <2>2, PlanLimits DEF Reached, HasRoom
  <2> QED  BY <2>3 DEF n, m
<1>8. Alone' /\ CreatorIsCounted'
  BY <1>1, <1>2, <1>5, <1>7 DEF Alone, CreatorIsCounted, HasRoom
<1>9. ActiveSeen = ActiveAudits => CreatorHasRoom'
  BY <1>1, <1>2, <1>5, <1>7 DEF CreatorHasRoom, HasRoom, Creating
<1> QED  BY <1>3, <1>4, <1>8, <1>9

LEMMA CreatingKeepsLimits ==
  ASSUME RowTypes, NEW r \in Requests, CreateAudit(r)
  PROVE  /\ Alone => Alone'
         /\ CreatorIsCounted => CreatorIsCounted'
         /\ UsageFits => UsageFits'
         /\ Alone /\ CreatorHasRoom => CreatorHasRoom' /\ ActiveFits'
<1>0. /\ usageEvents' = usageEvents /\ request[r].stage = "allowed"
      /\ request' = [request EXCEPT ![r].stage = "created"]
      /\ request \in [Requests -> PlanReads]
  BY DEF CreateAudit, RowTypes, AuditRows
<1>1. \A s \in Requests : /\ request'[s].plan = request[s].plan
                          /\ request'[s].period = request[s].period
                          /\ request'[s].stage = IF s = r THEN "created" ELSE request[s].stage
  BY <1>0 DEF PlanReads
<1>2. \A p : CountedIn(p)' = CountedIn(p)
  BY <1>0 DEF CountedIn
<1>3. UsageFits => UsageFits'
  BY <1>0, <1>1, <1>2 DEF UsageFits, Allows
<1>4. Creating' = Creating /\ r \in Creating
  BY <1>0, <1>1 DEF Creating
<1>7. /\ Alone => Alone'
      /\ CreatorIsCounted => CreatorIsCounted'
  BY <1>1, <1>2, <1>4 DEF Alone, CreatorIsCounted, HasRoom, Creating
<1>5. ASSUME Alone PROVE CreatorHasRoom'
  <2>1. \A s \in Requests : request'[s].stage # "allowed"
    BY <1>0, <1>1, <1>4, <1>5 DEF Alone, Creating
  <2> QED  BY <2>1 DEF CreatorHasRoom
<1>6. ASSUME CreatorHasRoom PROVE ActiveFits'
  <2> DEFINE n == Cardinality(ActiveAudits)
             m == Cardinality(ActiveAudits')
  <2>1. PICK a \in AuditRecords : audits' = audits \cup {a} /\ a.active
    BY CreatedAudit
  <2>2. ActiveAudits' = ActiveAudits \cup {a}
    BY <2>1 DEF ActiveAudits
  <2>3. n \in Nat /\ m \in {n, n + 1}
    BY <2>2, ActiveIsFinite, FS_AddElement DEF RowTypes
  <2>4. \A limit \in Plans[request[r].plan]["concurrent"] : n < limit
    BY <1>0, <1>6 DEF CreatorHasRoom, HasRoom
  <2> HIDE DEF n, m
  <2>5. \A limit \in Plans[request'[r].plan]["concurrent"] : m <= limit
    BY <1>1, <2>3, <2>4, PlanLimits
  <2> QED  BY <1>1, <2>5 DEF ActiveFits, Allows, m
<1> QED  BY <1>3, <1>5, <1>6, <1>7

LEMMA RecordingKeepsLimits ==
  ASSUME RowTypes, Alone, CreatorIsCounted, UsageFits, NEW r \in Requests,
         RecordUsageEvent(r), Period = request[r].period
  PROVE  CreatorIsCounted' /\ UsageFits'
<1> DEFINE p == request[r].period
           new == [by |-> r, period |-> Period]
           n == Cardinality(CountedIn(p))
           Now == {u \in usageEvents' : u.period = p}
           m == Cardinality(Now)
<1>0. /\ usageEvents' = usageEvents \cup {new} /\ audits' = audits /\ request[r].stage = "created"
      /\ request' = [request EXCEPT ![r].stage = "done"]
      /\ request \in [Requests -> PlanReads]
  BY DEF RecordUsageEvent, RowTypes, AuditRows
<1>1. \A s \in Requests : /\ request'[s].plan = request[s].plan
                          /\ request'[s].period = request[s].period
                          /\ request'[s].stage = IF s = r THEN "done" ELSE request[s].stage
  BY <1>0 DEF PlanReads
<1>4. r \in Creating /\ Creating' = {}
  BY <1>0, <1>1 DEF Creating, Alone
<1>5. CreatorIsCounted'
  BY <1>4 DEF CreatorIsCounted
<1>6. new.period = p
  OBVIOUS
<1>7. /\ Now = CountedIn(p) \cup {new}
      /\ \A q : q # p => CountedIn(q)' = CountedIn(q)
  <2>1. usageEvents' = usageEvents \cup {new} /\ new.period = p
    BY <1>0, <1>6
  <2> HIDE DEF new, p
  <2> QED  BY <2>1 DEF CountedIn
<1>8. \A limit \in Plans[request[r].plan]["audits"] : m <= limit
  <2>1. n \in Nat /\ m \in {n, n + 1}
    <3>1. IsFiniteSet(CountedIn(p)) /\ n \in Nat
      BY ActiveIsFinite DEF RowTypes
    <3> HIDE DEF new, p
    <3> QED  BY <1>7, <3>1, FS_AddElement
  <2>2. \A limit \in Plans[request[r].plan]["audits"] : n < limit
    BY <1>4 DEF CreatorIsCounted, HasRoom
  <2> HIDE DEF n, m
  <2> QED  BY <2>1, <2>2, PlanLimits
<1>9. UsageFits'
  <2>1. SUFFICES ASSUME NEW u \in usageEvents'
                 PROVE  \E s \in Requests :
                          /\ request'[s].stage = "done" /\ request'[s].period = u.period
                          /\ \A limit \in Plans[request'[s].plan]["audits"] :
                               Cardinality(CountedIn(u.period)') <= limit
    BY DEF UsageFits, Allows
  <2>2. CASE u.period = p
    <3>1. CountedIn(u.period)' = Now
      BY <2>2 DEF CountedIn
    <3>2. request'[r].stage = "done" /\ request'[r].period = u.period
      BY <1>1, <2>2
    <3>3. \A limit \in Plans[request'[r].plan]["audits"] : Cardinality(CountedIn(u.period)') <= limit
      BY <1>1, <1>8, <3>1
    <3> QED  BY <3>2, <3>3
  <2>3. CASE u.period # p
    <3>1. u \in usageEvents
      <4>1. new.period = p /\ u \in usageEvents \cup {new}
        BY <1>0, <1>6
      <4> HIDE DEF p, new
      <4> QED  BY <4>1, <2>3
    <3>2. PICK s \in Requests : /\ request[s].stage = "done" /\ request[s].period = u.period
                                /\ \A limit \in Plans[request[s].plan]["audits"] :
                                     Cardinality(CountedIn(u.period)) <= limit
      BY <3>1 DEF UsageFits, Allows
    <3> QED  BY <1>1, <1>7, <2>3, <3>2
  <2> QED  BY <2>2, <2>3
<1> QED  BY <1>5, <1>9

\* The event of a request is written while it still creates, or has failed.
LEMMA QueuedStayCounted ==
  ASSUME RowTypes, AuditsAreOwned, QueuedAreCounted, Spared({"unrecorded"})', NEW r \in Requests,
         \/ ReadPlan(r) \/ ReadPeriod(r) \/ CountUsage(r) \/ CreateAudit(r)
         \/ EnqueueFails(r) \/ Enqueue(r) \/ RecordUsageEvent(r) \/ RecordUsageFails(r)
         \/ AuditEnds(r) \/ AuditGoesQuiet(r) \/ AuditMoves(r)
  PROVE  QueuedAreCounted'
<1>0. request \in [Requests -> PlanReads] /\ audits \subseteq AuditRecords
  BY DEF RowTypes, AuditRows
<1>1. ASSUME \A s \in Requests : s \in Creating => s \in Creating' \/ \E u \in usageEvents' : u.by = s,
             usageEvents \subseteq usageEvents',
             \A a \in audits' : a.queued => \/ \E b \in audits : b.queued /\ b.by = a.by
                                          \/ a.by \in Creating'
      PROVE  QueuedAreCounted'
  BY <1>0, <1>1 DEF QueuedAreCounted, AuditRecords
<1>2. CASE ReadPlan(r) \/ ReadPeriod(r) \/ CountUsage(r)
  <2>1. Creating \subseteq Creating' /\ UNCHANGED <<usageEvents, audits>>
    BY <1>0, <1>2 DEF ReadPlan, ReadPeriod, CountUsage, Creating, PlanReads
  <2> QED  BY <1>1, <2>1
<1>3. CASE CreateAudit(r)
  <2>1. PICK a \in AuditRecords : audits' = audits \cup {a} /\ ~a.queued
    BY <1>3, CreatedAudit
  <2>2. Creating \subseteq Creating' /\ usageEvents' = usageEvents
    BY <1>0, <1>3 DEF CreateAudit, Creating, PlanReads
  <2> QED  BY <1>1, <2>1, <2>2
<1>4. CASE RecordUsageEvent(r)
  <2>1. /\ \A s \in Requests : s \in Creating => s = r \/ s \in Creating'
        /\ audits' = audits
    BY <1>0, <1>4 DEF RecordUsageEvent, Creating, PlanReads
  <2>2. usageEvents \subseteq usageEvents' /\ \E u \in usageEvents' : u.by = r
    <3>1. [by |-> r, period |-> Period] \in usageEvents' /\ usageEvents \subseteq usageEvents'
      BY <1>4 DEF RecordUsageEvent
    <3>2. [by |-> r, period |-> Period].by = r
      OBVIOUS
    <3> QED  BY <3>1, <3>2
  <2> QED  BY <1>1, <2>1, <2>2
<1>5. ~RecordUsageFails(r)
  BY DEF RecordUsageFails, Spared
<1>6. CASE Enqueue(r)
  <2>1. PICK a : audits' = (audits \ {AuditOf(r)}) \cup {a} /\ a.by = r
    <3>1. \E a \in audits : a.by = r
      BY <1>6 DEF Enqueue, AuditsAreOwned
    <3> QED  BY <1>0, <1>6, <3>1, BecomingIsAudit DEF Enqueue, Becomes, Becoming
  <2>2. r \in Creating' /\ Creating' = Creating /\ usageEvents' = usageEvents
    BY <1>6 DEF Enqueue, Creating
  <2> QED  BY <1>1, <2>1, <2>2
<1>7. CASE EnqueueFails(r)
  <2> DEFINE b == [AuditOf(r) EXCEPT !.active = FALSE]
  <2>1. AuditOf(r) \in audits /\ AuditOf(r) \in AuditRecords /\ AuditOf(r).by = r
    <3>1. \E a \in audits : a.by = r
      BY <1>7 DEF EnqueueFails, AuditsAreOwned
    <3> QED  BY <1>0, <3>1, AuditOfIsAudit
  <2>2. audits' = (audits \ {AuditOf(r)}) \cup {b} /\ b.queued = AuditOf(r).queued
        /\ ~AuditOf(r).queued
    BY <1>7, <2>1 DEF EnqueueFails, Becomes, AuditRecords
  <2>3. \A a \in audits' : a.queued => a \in audits /\ a.by # r
    <3> HIDE DEF b
    <3> QED  BY <2>1, <2>2 DEF AuditsAreOwned
  <2>4. \A s \in Creating : s = r \/ s \in Creating'
    BY <1>0, <1>7 DEF EnqueueFails, Creating, PlanReads
  <2>5. usageEvents' = usageEvents
    BY <1>7 DEF EnqueueFails
  <2> QED  BY <2>3, <2>4, <2>5 DEF QueuedAreCounted
<1>8. CASE AuditEnds(r) \/ AuditGoesQuiet(r) \/ AuditMoves(r)
  <2>1. AuditOf(r) \in audits /\ AuditOf(r) \in AuditRecords /\ AuditOf(r).by = r
    BY <1>0, <1>8, AuditAlone, AuditOfIsAudit
  <2>2. PICK b : /\ audits' = (audits \ {AuditOf(r)}) \cup {b}
                 /\ b.queued = AuditOf(r).queued /\ b.by = r
    <3>1. /\ [AuditOf(r) EXCEPT !.active = FALSE].queued = AuditOf(r).queued
          /\ [AuditOf(r) EXCEPT !.active = FALSE].by = r
          /\ \A f \in BOOLEAN : /\ [AuditOf(r) EXCEPT !.fresh = f].queued = AuditOf(r).queued
                                 /\ [AuditOf(r) EXCEPT !.fresh = f].by = r
      BY <2>1 DEF AuditRecords
    <3> QED  BY <1>8, <3>1 DEF AuditEnds, AuditGoesQuiet, AuditMoves, Becomes
  <2>3. UNCHANGED <<usageEvents, request>>
    BY <1>8, AuditAlone
  <2>4. Creating' = Creating
    BY <2>3 DEF Creating
  <2> QED  BY <1>1, <2>1, <2>2, <2>3, <2>4
<1> QED  BY <1>2, <1>3, <1>4, <1>5, <1>6, <1>7, <1>8

\* What may excuse a limit grows.
LEMMA ExcusesGrow ==
  ASSUME NEW r \in Requests,
         \/ ReadPlan(r) \/ ReadPeriod(r) \/ CountUsage(r) \/ CreateAudit(r)
         \/ EnqueueFails(r) \/ Enqueue(r) \/ RecordUsageEvent(r) \/ RecordUsageFails(r)
         \/ AuditEnds(r) \/ AuditGoesQuiet(r) \/ AuditMoves(r)
  PROVE  /\ \A reasons : Spared(reasons)' => Spared(reasons)
         /\ CountUsage(r) /\ ~Refused(r) =>
              /\ "overlap" \notin excused' => Creating = {}
              /\ "quiet" \notin excused' => ActiveSeen = ActiveAudits
         /\ RecordUsageEvent(r) /\ "moved" \notin excused' => Period = request[r].period
<1>1. excused \subseteq excused'
  BY AuditAlone DEF ReadPlan, ReadPeriod, CountUsage, CreateAudit, EnqueueFails, Enqueue,
     RecordUsageEvent, RecordUsageFails
<1>2. CountUsage(r) /\ ~Refused(r) => Risks \subseteq excused'
  BY DEF CountUsage
<1>3. RecordUsageEvent(r) /\ Period # request[r].period => "moved" \in excused'
  BY DEF RecordUsageEvent
<1> QED  BY <1>1, <1>2, <1>3 DEF Spared, Risks

LEMMA RequestsKeepLimits ==
  ASSUME RowTypes, RowTypes', LimitsInv, NEW r \in Requests,
         \/ ReadPlan(r) \/ ReadPeriod(r) \/ CountUsage(r) \/ CreateAudit(r)
         \/ EnqueueFails(r) \/ Enqueue(r) \/ RecordUsageEvent(r) \/ RecordUsageFails(r)
         \/ AuditEnds(r) \/ AuditGoesQuiet(r) \/ AuditMoves(r)
  PROVE  LimitsInv'
<1>0. request \in [Requests -> PlanReads] /\ AuditRows /\ AuditsAreOwned
  BY DEF RowTypes, AuditRows, LimitsInv
<1>1. AuditsAreOwned'
  BY OwnersStay DEF LimitsInv
<1>2. Spared({"unrecorded"})' => QueuedAreCounted'
  BY <1>0, ExcusesGrow, QueuedStayCounted DEF LimitsInv
<1>3. /\ \A reasons : Spared(reasons)' => Spared(reasons)
      /\ Spared({"overlap", "moved"})' \/ Spared({"overlap", "quiet"})' => Spared({"overlap"})'
      /\ Spared({"overlap"})' => "overlap" \notin excused'
      /\ Spared({"overlap", "moved"})' => "moved" \notin excused'
      /\ Spared({"overlap", "quiet"})' => "quiet" \notin excused'
  BY ExcusesGrow DEF Spared
<1>4. SUFFICES /\ Spared({"overlap"})' => Alone'
               /\ Spared({"overlap", "moved"})' => CreatorIsCounted' /\ UsageFits'
               /\ Spared({"overlap", "quiet"})' => CreatorHasRoom' /\ ActiveFits'
  BY <1>1, <1>2 DEF LimitsInv
<1>5. /\ Spared({"overlap"})' => Alone
      /\ Spared({"overlap", "moved"})' => CreatorIsCounted /\ UsageFits /\ Alone
      /\ Spared({"overlap", "quiet"})' => CreatorHasRoom /\ ActiveFits /\ Alone
  BY <1>3 DEF LimitsInv
<1>6. ASSUME usageEvents' = usageEvents,
             Cardinality(ActiveAudits') \in Nat, Cardinality(ActiveAudits') <= Cardinality(ActiveAudits),
             ActiveAudits' # {} => ActiveAudits # {},
             \A s \in Requests :
               /\ request'[s].stage \in {"allowed", "created"} => request'[s].stage = request[s].stage
               /\ request[s].stage = "done" => request'[s].stage = "done"
               /\ request[s].stage \in {"created", "failed"} => request'[s].stage \in {"created", "done", "failed"}
               /\ request[s].stage \in {"allowed", "created", "done", "failed"}
                    => request'[s].plan = request[s].plan /\ request'[s].period = request[s].period
      PROVE  /\ Spared({"overlap"})' => Alone'
             /\ Spared({"overlap", "moved"})' => CreatorIsCounted' /\ UsageFits'
             /\ Spared({"overlap", "quiet"})' => CreatorHasRoom' /\ ActiveFits'
  BY <1>5, <1>6, QuietStepKeepsLimits
<1>f. Cardinality(ActiveAudits) \in Nat
  BY <1>0, ActiveIsFinite
<1>7. CASE ReadPlan(r) \/ ReadPeriod(r) \/ (CountUsage(r) /\ Refused(r)) \/ RecordUsageFails(r)
  <2>1. ActiveAudits' = ActiveAudits
    BY <1>7 DEF ActiveAudits, ReadPlan, ReadPeriod, CountUsage, RecordUsageFails
  <2>2. usageEvents' = usageEvents
    BY <1>7 DEF ReadPlan, ReadPeriod, CountUsage, RecordUsageFails
  <2>3. \A s \in Requests :
           /\ request'[s].stage \in {"allowed", "created"} => request'[s].stage = request[s].stage
           /\ request[s].stage = "done" => request'[s].stage = "done"
           /\ request[s].stage \in {"created", "failed"} => request'[s].stage \in {"created", "done", "failed"}
           /\ request[s].stage \in {"allowed", "created", "done", "failed"}
                => request'[s].plan = request[s].plan /\ request'[s].period = request[s].period
    BY <1>0, <1>7 DEF ReadPlan, ReadPeriod, CountUsage, RecordUsageFails, PlanReads
  <2> QED  BY <1>6, <1>f, <2>1, <2>2, <2>3
<1>8. CASE EnqueueFails(r) \/ Enqueue(r) \/ AuditEnds(r) \/ AuditGoesQuiet(r) \/ AuditMoves(r)
  <2>1. \E a \in audits : a.by = r
    BY <1>0, <1>8, AuditAlone DEF EnqueueFails, Enqueue, AuditsAreOwned
  <2>2. AuditOf(r) \in audits
    BY <2>1, AuditOfIsAudit
  <2>3. \E b : Becomes(r, b) /\ (b.active => AuditOf(r).active)
    <3>1. audits \subseteq AuditRecords
      BY <1>0 DEF AuditRows
    <3>2. \E b \in Becoming(r) : Becomes(r, b)
      BY <1>8, AuditAlone DEF EnqueueFails, Enqueue, Becoming
    <3> QED  BY <2>1, <3>1, <3>2, BecomingIsAudit
  <2>4. /\ Cardinality(ActiveAudits') <= Cardinality(ActiveAudits)
        /\ ActiveAudits' # {} => ActiveAudits # {}
    BY <1>0, <2>2, <2>3, BecomingKeepsActive DEF Becomes
  <2>5. Cardinality(ActiveAudits') \in Nat
    <3>1. IsFiniteSet(ActiveAudits') /\ ActiveAudits' \subseteq audits'
      BY FS_Subset DEF RowTypes, AuditRows, ActiveAudits
    <3> QED  BY <3>1, FS_CardinalityType
  <2>6. usageEvents' = usageEvents /\ (EnqueueFails(r) \/ request' = request)
    BY <1>8, AuditAlone DEF EnqueueFails, Enqueue
  <2>7. \A s \in Requests :
           /\ request'[s].stage \in {"allowed", "created"} => request'[s].stage = request[s].stage
           /\ request[s].stage = "done" => request'[s].stage = "done"
           /\ request[s].stage \in {"created", "failed"} => request'[s].stage \in {"created", "done", "failed"}
           /\ request[s].stage \in {"allowed", "created", "done", "failed"}
                => request'[s].plan = request[s].plan /\ request'[s].period = request[s].period
    BY <1>0, <2>6 DEF EnqueueFails, PlanReads
  <2> QED  BY <1>6, <2>4, <2>5, <2>6, <2>7
<1>9. CASE CountUsage(r) /\ ~Refused(r)
  <2>1. Spared({"overlap"})' => Creating = {}
    BY <1>3, <1>9, ExcusesGrow
  <2>2. Spared({"overlap", "quiet"})' => ActiveSeen = ActiveAudits
    BY <1>3, <1>9, ExcusesGrow
  <2> QED  BY <1>3, <1>5, <1>9, <2>1, <2>2, AllowedKeepsLimits
<1>10. CASE CreateAudit(r)
  BY <1>5, <1>10, CreatingKeepsLimits
<1>11. CASE RecordUsageEvent(r)
  <2>1. Spared({"overlap", "moved"})' => CreatorIsCounted' /\ UsageFits'
    BY <1>3, <1>5, <1>11, ExcusesGrow, RecordingKeepsLimits
  <2>2. /\ \A s \in Requests : /\ request'[s].plan = request[s].plan
                              /\ request'[s].stage = IF s = r THEN "done" ELSE request[s].stage
        /\ audits' = audits /\ request[r].stage = "created"
    BY <1>0, <1>11 DEF RecordUsageEvent, PlanReads
  <2>3. ActiveAudits' = ActiveAudits
    BY <2>2 DEF ActiveAudits
  <2>4. Alone => Alone'
    BY <2>2 DEF Alone, Creating
  <2>5. CreatorHasRoom => CreatorHasRoom'
    BY <2>2, <2>3 DEF CreatorHasRoom, HasRoom
  <2>6. ActiveFits => ActiveFits'
    BY <2>2, <2>3 DEF ActiveFits, Allows
  <2> QED  BY <1>5, <2>1, <2>4, <2>5, <2>6
<1> QED  BY <1>7, <1>8, <1>9, <1>10, <1>11

-----------------------------------------------------------------------------
(***************************************************************************)
(* Billing: the row follows Stripe.                                        *)
(***************************************************************************)
\* Stripe's story begins with the three events of a payment, and its last
\* event tells its present state.
Story(sent) ==
  /\ sent[1].kind = "checkout" /\ sent[2].kind = "subscription" /\ sent[3].kind = "invoice"
  /\ sent[2].status = sent[3].status /\ sent[2].customer = sent[3].customer
StoryIsTold ==
  LET n == Len(stripe.sent) IN
  /\ stripe.status = "none" <=> n = 0
  /\ n # 0 => /\ n >= 3 /\ Story(stripe.sent)
              /\ stripe.sent[n].status = stripe.status
              /\ stripe.sent[n].customer = stripe.customer
              /\ n = 3 \/ stripe.sent[n].kind = "subscription"

Busy == {h \in Handlers : handler[h].stage # "idle"}
\* The events whose effect on the row is there.
Entered == {i \in recorded : \A h \in Busy : handler[h].event = i => handler[h].stage = "synced"}
Settled == recorded \ InHand

\* While nothing is out of turn, the events are handled one after another.
InTurn ==
  /\ \A i \in recorded : \A k \in 1..i : k \in recorded
  /\ \A g, h \in Busy : g = h
  /\ \A i \in InHand : \A k \in recorded : k <= i
  /\ Settled \subseteq stripe.answered

Tells(i) == stripe.sent[i].kind = "subscription" \/ i = 3
RowTellsLatest ==
  /\ \A i \in Entered :
       Tells(i) /\ (\A k \in Entered : k <= i) =>
         /\ subscription.status = stripe.sent[i].status
         /\ subscription.customer = stripe.sent[i].customer
  /\ 2 \in Entered => subscription.plan = "pro"
  /\ 2 \in Settled => orgPlan = "pro"

FollowInv == StoryIsTold /\ (~unordered => InTurn /\ RowTellsLatest)

LEMMA FollowingImpliesProperty == RowTypes /\ FollowInv => RowFollowsStripe
<1> SUFFICES ASSUME RowTypes, FollowInv,
                    stripe.status # "none", Unanswered = {}, InHand = {}, ~unordered
             PROVE  /\ subscription.status = stripe.status
                    /\ subscription.customer = stripe.customer
                    /\ orgPlan = subscription.plan
  BY DEF RowFollowsStripe
<1> DEFINE n == Len(stripe.sent)
<1>1. n \in Nat /\ DOMAIN stripe.sent = 1..n
  BY DEF RowTypes, StripeRows
<1>a. recorded = 1..n
  <2>1. DOMAIN stripe.sent \subseteq stripe.answered
    BY DEF Unanswered
  <2> QED  BY <1>1, <2>1 DEF RowTypes, StripeRows
<1>b. Busy = {}
  BY DEF InHand, Busy
<1>2. recorded = 1..n /\ Busy = {} /\ Entered = 1..n /\ Settled = 1..n
  BY <1>a, <1>b DEF Entered, Settled
<1>3. /\ n >= 3
      /\ stripe.sent[n].status = stripe.status
      /\ stripe.sent[n].customer = stripe.customer
      /\ Tells(n)
  BY <1>1 DEF FollowInv, StoryIsTold, Tells
<1> HIDE DEF n
<1>4. n \in Entered /\ 2 \in Entered /\ 2 \in Settled /\ \A k \in Entered : k <= n
  BY <1>1, <1>2, <1>3
<1> QED  BY <1>3, <1>4 DEF FollowInv, RowTellsLatest

LEMMA EventIsSent ==
  ASSUME RowTypes, NEW h \in Handlers, handler[h].stage # "idle"
  PROVE  /\ h \in Busy /\ handler[h].event \in InHand
         /\ handler[h].event \in recorded /\ recorded \subseteq DOMAIN stripe.sent
         /\ EventOf(h) \in Events
         /\ EventOf(h) = stripe.sent[handler[h].event]
<1>1. h \in Busy /\ handler[h].event \in InHand
  BY DEF Busy, InHand
<1>2. handler[h].event \in recorded /\ recorded \subseteq DOMAIN stripe.sent
  BY <1>1 DEF RowTypes, StripeRows
<1>3. stripe.sent \in Seq(Events)
  BY DEF RowTypes, StripeRows
<1>4. EventOf(h) \in Events
  BY <1>2, <1>3 DEF EventOf
<1> QED  BY <1>1, <1>2, <1>4 DEF EventOf

LEMMA StripeSends ==
  ASSUME RowTypes, NEW events \in Seq(Events), NEW status \in {"active", "past_due", "canceled"},
         NEW who \in Checkouts, NEW period \in Nat,
         stripe' = Sends([stripe EXCEPT !.status = status, !.customer = who, !.period = period], events),
         UNCHANGED <<checkout, webVars, handler, auditVars>>, billing' \in Cases
  PROVE  /\ RowTypes'
         /\ stripe'.sent = stripe.sent \o events /\ stripe'.answered = stripe.answered
         /\ stripe'.status = status /\ stripe'.customer = who /\ stripe'.period = period
<1>0. stripe \in [status: {"none", "active", "past_due", "canceled"}, customer: Customers,
                 period: Nat, sent: Seq(Events), answered: SUBSET Nat]
  BY DEF RowTypes, StripeRows
<1>1. /\ stripe'.sent = stripe.sent \o events /\ stripe'.answered = stripe.answered
      /\ stripe'.status = status /\ stripe'.customer = who /\ stripe'.period = period
  BY <1>0 DEF Sends
<1>2. stripe.sent \o events \in Seq(Events) /\ DOMAIN stripe.sent \subseteq DOMAIN (stripe.sent \o events)
  BY <1>0, ConcatProperties, LenProperties
<1>3. stripe' \in [status: {"none", "active", "past_due", "canceled"}, customer: Customers,
                 period: Nat, sent: Seq(Events), answered: SUBSET Nat]
  BY <1>0, <1>2 DEF Sends, Customers
<1>4. StripeRows'
  BY <1>1, <1>2, <1>3 DEF RowTypes, StripeRows, webVars, InHand
<1>5. WebRows' /\ AuditRows'
  BY DEF RowTypes, WebRows, AuditRows, webVars, auditVars
<1> QED  BY <1>1, <1>4, <1>5 DEF RowTypes

\* What Stripe sends changes nothing of what was handled.
LEMMA SendingKeepsTurns ==
  ASSUME RowTypes, ~unordered => InTurn /\ RowTellsLatest,
         UNCHANGED <<webVars, handler, unordered>>,
         stripe'.answered = stripe.answered,
         \A i \in DOMAIN stripe.sent : stripe'.sent[i] = stripe.sent[i]
  PROVE  ~unordered' => InTurn' /\ RowTellsLatest'
<1>1. /\ Busy' = Busy /\ InHand' = InHand /\ recorded' = recorded
      /\ subscription' = subscription /\ orgPlan' = orgPlan /\ handler' = handler
  BY DEF webVars, Busy, InHand
<1>2. Entered' = Entered /\ Settled' = Settled
  BY <1>1 DEF Entered, Settled
<1>3. Entered \subseteq DOMAIN stripe.sent
  BY DEF Entered, RowTypes, StripeRows
<1>4. \A i \in Entered : stripe'.sent[i] = stripe.sent[i]
  BY <1>3
<1>5. InTurn => InTurn'
  BY <1>1, <1>2 DEF InTurn
<1>6. RowTellsLatest => RowTellsLatest'
  BY <1>1, <1>2, <1>4 DEF RowTellsLatest, Tells
<1> QED  BY <1>5, <1>6

LEMMA PaymentTellsStory ==
  ASSUME RowTypes, FollowInv, NEW c \in Checkouts, CheckoutPaid(c)
  PROVE  RowTypes' /\ FollowInv'
<1> DEFINE who == checkout[c]
           e1 == Event("checkout", "active", who, 1)
           e2 == Event("subscription", "active", who, 1)
           e3 == Event("invoice", "active", who, 1)
<1>0. /\ who \in Checkouts /\ stripe.status = "none"
      /\ stripe' = Sends([stripe EXCEPT !.status = "active", !.customer = who, !.period = 1], <<e1, e2, e3>>)
      /\ UNCHANGED <<checkout, webVars, handler, auditVars, billing, unordered>>
  BY DEF CheckoutPaid
<1>1. e1 \in Events /\ e2 \in Events /\ e3 \in Events
  BY <1>0 DEF Event, Events
<1>2. /\ e1.kind = "checkout" /\ e2.kind = "subscription" /\ e3.kind = "invoice"
      /\ e2.status = "active" /\ e3.status = "active" /\ e2.customer = who /\ e3.customer = who
  BY DEF Event
<1>3. stripe.sent \in Seq(Events) /\ Len(stripe.sent) = 0 /\ billing' \in Cases
  BY <1>0 DEF RowTypes, StripeRows, FollowInv, StoryIsTold
<1> HIDE DEF e1, e2, e3
<1>4. <<e1, e2, e3>> \in Seq(Events)
  BY <1>1
<1>5. /\ RowTypes' /\ stripe'.sent = stripe.sent \o <<e1, e2, e3>>
      /\ stripe'.answered = stripe.answered /\ stripe'.status = "active" /\ stripe'.customer = who
  BY <1>0, <1>3, <1>4, StripeSends
<1>6. /\ Len(stripe'.sent) = 3 /\ stripe'.sent[1] = e1 /\ stripe'.sent[2] = e2 /\ stripe'.sent[3] = e3
      /\ \A i \in 1..Len(stripe.sent) : stripe'.sent[i] = stripe.sent[i]
  BY <1>1, <1>3, <1>5, ThreeEvents
<1>7. StoryIsTold'
  BY <1>2, <1>5, <1>6 DEF StoryIsTold, Story
<1>8. DOMAIN stripe.sent = 1..Len(stripe.sent)
  BY <1>3
<1>9. ~unordered' => InTurn' /\ RowTellsLatest'
  BY <1>0, <1>5, <1>6, <1>8, SendingKeepsTurns DEF FollowInv
<1> QED  BY <1>5, <1>7, <1>9 DEF FollowInv

\* A change that ends on a subscription event goes on with the story.
LEMMA ChangeTellsStory ==
  ASSUME RowTypes, RowTypes', FollowInv, NEW b \in Events, stripe.status # "none",
         stripe'.status # "none",
         b.kind = "subscription", b.status = stripe'.status, b.customer = stripe'.customer,
         stripe'.answered = stripe.answered,
         Len(stripe'.sent) \in {Len(stripe.sent) + 1, Len(stripe.sent) + 2},
         stripe'.sent[Len(stripe'.sent)] = b,
         \A i \in 1..Len(stripe.sent) : stripe'.sent[i] = stripe.sent[i],
         UNCHANGED <<webVars, handler, unordered>>
  PROVE  FollowInv'
<1>1. stripe.sent \in Seq(Events)
  BY DEF RowTypes, StripeRows
<1>2. Len(stripe.sent) \in Nat /\ DOMAIN stripe.sent = 1..Len(stripe.sent)
  BY <1>1
<1>3. Len(stripe.sent) >= 3 /\ Story(stripe.sent)
  BY <1>2 DEF FollowInv, StoryIsTold
<1>4. Story(stripe'.sent)
  BY <1>2, <1>3 DEF Story
<1>5. StoryIsTold'
  BY <1>2, <1>3, <1>4 DEF StoryIsTold
<1>6. ~unordered' => InTurn' /\ RowTellsLatest'
  BY <1>2, SendingKeepsTurns DEF FollowInv
<1> QED  BY <1>5, <1>6 DEF FollowInv

LEMMA ChangesTellStory ==
  ASSUME RowTypes, FollowInv, PaymentFails \/ Renews \/ CustomerCancels
  PROVE  RowTypes' /\ FollowInv'
<1> DEFINE who == stripe.customer
<1>0. /\ stripe \in [status: {"none", "active", "past_due", "canceled"}, customer: Customers,
                     period: Nat, sent: Seq(Events), answered: SUBSET Nat]
      /\ stripe.status # "none" /\ who \in Checkouts /\ stripe.period \in Nat
      /\ stripe.sent \in Seq(Events)
  BY DEF RowTypes, StripeRows, PaymentFails, Renews, CustomerCancels
<1>1. billing' \in Cases /\ UNCHANGED <<checkout, webVars, handler, auditVars, unordered>>
  BY SpendKeepsCases DEF PaymentFails, Renews, CustomerCancels
<1>2. ASSUME NEW status \in {"active", "past_due", "canceled"}, NEW period \in Nat,
             NEW events \in Seq(Events), NEW b \in Events,
             b.kind = "subscription", b.status = status, b.customer = who,
             stripe' = Sends([stripe EXCEPT !.status = status, !.customer = who, !.period = period], events),
             LET now == stripe.sent \o events IN
               /\ Len(now) \in {Len(stripe.sent) + 1, Len(stripe.sent) + 2}
               /\ now[Len(now)] = b
               /\ \A i \in 1..Len(stripe.sent) : now[i] = stripe.sent[i]
      PROVE  RowTypes' /\ FollowInv'
  <2>1. /\ RowTypes' /\ stripe'.sent = stripe.sent \o events
        /\ stripe'.answered = stripe.answered /\ stripe'.status = status /\ stripe'.customer = who
    BY <1>0, <1>1, <1>2, StripeSends
  <2>2. /\ Len(stripe'.sent) \in {Len(stripe.sent) + 1, Len(stripe.sent) + 2}
        /\ stripe'.sent[Len(stripe'.sent)] = b
        /\ \A i \in 1..Len(stripe.sent) : stripe'.sent[i] = stripe.sent[i]
    BY <1>2, <2>1
  <2> QED  BY <1>0, <1>1, <1>2, <2>1, <2>2, ChangeTellsStory
<1>3. ASSUME NEW kind \in {"invoice", "subscription"}, NEW status \in {"active", "past_due", "canceled"},
             NEW period \in Nat
      PROVE  /\ Event(kind, status, who, period) \in Events
             /\ Event(kind, status, who, period).kind = kind
             /\ Event(kind, status, who, period).status = status
             /\ Event(kind, status, who, period).customer = who
  BY <1>0 DEF Event, Events
<1>4. CASE PaymentFails
  <2> DEFINE a == Event("invoice", "past_due", who, stripe.period)
             b == Event("subscription", "past_due", who, stripe.period)
  <2>1. a \in Events /\ b \in Events /\ b.kind = "subscription" /\ b.status = "past_due" /\ b.customer = who
    BY <1>0, <1>3
  <2>2. stripe' = Sends([stripe EXCEPT !.status = "past_due"], <<a, b>>)
    BY <1>4 DEF PaymentFails
  <2>3. [stripe EXCEPT !.status = "past_due"] =
          [stripe EXCEPT !.status = "past_due", !.customer = who, !.period = stripe.period]
    BY <1>0
  <2> HIDE DEF a, b
  <2>4. <<a, b>> \in Seq(Events)
    BY <2>1
  <2>5. LET now == stripe.sent \o <<a, b>> IN
          /\ Len(now) \in {Len(stripe.sent) + 1, Len(stripe.sent) + 2}
          /\ now[Len(now)] = b
          /\ \A i \in 1..Len(stripe.sent) : now[i] = stripe.sent[i]
    BY <1>0, <2>1, TwoEvents
  <2>6. stripe' = Sends([stripe EXCEPT !.status = "past_due", !.customer = who, !.period = stripe.period], <<a, b>>)
    BY <2>2, <2>3
  <2> QED  BY <1>0, <1>2, <2>1, <2>4, <2>5, <2>6
<1>5. CASE Renews
  <2> DEFINE a == Event("invoice", "active", who, stripe.period + 1)
             b == Event("subscription", "active", who, stripe.period + 1)
  <2>0. stripe.period + 1 \in Nat
    BY <1>0
  <2>1. a \in Events /\ b \in Events /\ b.kind = "subscription" /\ b.status = "active" /\ b.customer = who
    BY <1>0, <1>3, <2>0
  <2>2. stripe' = Sends([stripe EXCEPT !.status = "active", !.period = stripe.period + 1], <<a, b>>)
    BY <1>5 DEF Renews
  <2>3. [stripe EXCEPT !.status = "active", !.period = stripe.period + 1] =
          [stripe EXCEPT !.status = "active", !.customer = who, !.period = stripe.period + 1]
    BY <1>0
  <2> HIDE DEF a, b
  <2>4. <<a, b>> \in Seq(Events)
    BY <2>1
  <2>5. LET now == stripe.sent \o <<a, b>> IN
          /\ Len(now) \in {Len(stripe.sent) + 1, Len(stripe.sent) + 2}
          /\ now[Len(now)] = b
          /\ \A i \in 1..Len(stripe.sent) : now[i] = stripe.sent[i]
    BY <1>0, <2>1, TwoEvents
  <2>6. stripe' = Sends([stripe EXCEPT !.status = "active", !.customer = who, !.period = (stripe.period + 1)], <<a, b>>)
    BY <2>2, <2>3
  <2> QED  BY <1>0, <1>2, <2>0, <2>1, <2>4, <2>5, <2>6
<1>6. CASE CustomerCancels
  <2> DEFINE b == Event("subscription", "canceled", who, stripe.period)
  <2>1. b \in Events /\ b.kind = "subscription" /\ b.status = "canceled" /\ b.customer = who
    BY <1>0, <1>3
  <2>2. stripe' = Sends([stripe EXCEPT !.status = "canceled"], <<b>>)
    BY <1>6 DEF CustomerCancels
  <2>3. [stripe EXCEPT !.status = "canceled"] =
          [stripe EXCEPT !.status = "canceled", !.customer = who, !.period = stripe.period]
    BY <1>0
  <2> HIDE DEF b
  <2>4. <<b>> \in Seq(Events)
    BY <2>1
  <2>5. LET now == stripe.sent \o <<b>> IN
          /\ Len(now) \in {Len(stripe.sent) + 1, Len(stripe.sent) + 2}
          /\ now[Len(now)] = b
          /\ \A i \in 1..Len(stripe.sent) : now[i] = stripe.sent[i]
    BY <1>0, <2>1, OneEvent
  <2>6. stripe' = Sends([stripe EXCEPT !.status = "canceled", !.customer = who, !.period = stripe.period], <<b>>)
    BY <2>2, <2>3
  <2> QED  BY <1>0, <1>2, <2>1, <2>4, <2>5, <2>6
<1> QED  BY <1>4, <1>5, <1>6

LEMMA ShoppingKeepsFollowing ==
  ASSUME RowTypes, FollowInv, NEW c \in Checkouts, ReadCustomer(c) \/ CreateCustomer(c) \/ MonthPasses
  PROVE  RowTypes' /\ FollowInv'
<1>1. /\ UNCHANGED <<subscription, orgPlan, recorded, handler, stripe, unordered>>
      /\ UNCHANGED auditVars
  BY DEF ReadCustomer, CreateCustomer, MonthPasses, webVars
<1>2. customer' \in Customers
  BY DEF ReadCustomer, CreateCustomer, MonthPasses, webVars, RowTypes, WebRows, Customers
<1>3. checkout' \in [Checkouts -> Checkouts \cup {"idle", "new"}]
  BY DEF ReadCustomer, CreateCustomer, MonthPasses, RowTypes, WebRows, Customers
<1>4. billing' \in Cases
  BY SpendKeepsCases DEF ReadCustomer, CreateCustomer, MonthPasses, RowTypes
<1>5. RowTypes'
  BY <1>1, <1>2, <1>3, <1>4 DEF RowTypes, WebRows, StripeRows, AuditRows, auditVars, InHand
<1>6. FollowInv'
  BY <1>1 DEF FollowInv, StoryIsTold, InTurn, RowTellsLatest, Entered, Settled, Busy, InHand, Tells
<1> QED  BY <1>5, <1>6

LEMMA HandlingFreesHandler ==
  ASSUME RowTypes, NEW h \in Handlers, handler[h].stage # "idle", Handled(h)
  PROVE  /\ handler' \in [Handlers -> Tasks] /\ InHand' \subseteq InHand
         /\ InTurn => Busy' = {} /\ InHand' = {} /\ InHand = {handler[h].event}
<1>1. handler \in [Handlers -> Tasks]
  BY DEF RowTypes, WebRows
<1>2. /\ handler' \in [Handlers -> Tasks]
      /\ \A g \in Handlers : handler'[g] = IF g = h THEN Idle ELSE handler[g]
  BY <1>1 DEF Handled, Idle, Tasks
<1>3. InHand' \subseteq InHand
  BY <1>2 DEF InHand, Idle
<1>4. InTurn => Busy = {h}
  BY DEF InTurn, Busy
<1>5. InTurn => Busy' = {}
  BY <1>2, <1>4 DEF Busy, Idle
<1>6. InTurn => InHand' = {} /\ InHand = {handler[h].event}
  BY <1>4, <1>5 DEF InHand, Busy
<1> QED  BY <1>2, <1>3, <1>5, <1>6

LEMMA AnsweringKeepsTypes ==
  ASSUME RowTypes, NEW i \in recorded, Answers(i)
  PROVE  /\ stripe' \in [status: {"none", "active", "past_due", "canceled"}, customer: Customers,
                         period: Nat, sent: Seq(Events), answered: SUBSET Nat]
         /\ stripe'.status = stripe.status /\ stripe'.customer = stripe.customer
         /\ stripe'.sent = stripe.sent /\ stripe'.answered = stripe.answered \cup {i}
<1>1. i \in Nat
  <2>1. stripe.sent \in Seq(Events) /\ i \in DOMAIN stripe.sent
    BY DEF RowTypes, StripeRows
  <2>2. DOMAIN stripe.sent = 1..Len(stripe.sent) /\ Len(stripe.sent) \in Nat
    BY <2>1
  <2> QED  BY <2>1, <2>2
<1> QED  BY <1>1 DEF RowTypes, StripeRows, Answers

LEMMA TypesOfWebStep ==
  ASSUME RowTypes, customer' \in Customers, subscription' \in Subscriptions, orgPlan' \in PlanIds,
         handler' \in [Handlers -> Tasks],
         stripe' \in [status: {"none", "active", "past_due", "canceled"}, customer: Customers,
                      period: Nat, sent: Seq(Events), answered: SUBSET Nat],
         stripe'.status = stripe.status, stripe'.customer = stripe.customer, stripe'.sent = stripe.sent,
         InHand' \subseteq recorded', recorded' \subseteq DOMAIN stripe.sent,
         stripe'.answered \subseteq recorded',
         billing' \in Cases,
         UNCHANGED <<checkout, auditVars>>
  PROVE  RowTypes'
<1>1. WebRows'
  BY DEF WebRows
<1>2. StripeRows'
  BY DEF RowTypes, StripeRows
<1>3. AuditRows'
  BY DEF RowTypes, AuditRows, auditVars
<1> QED  BY <1>1, <1>2, <1>3 DEF RowTypes

LEMMA RecordingEventFollows ==
  ASSUME RowTypes, FollowInv, NEW h \in Handlers, NEW i \in DOMAIN stripe.sent, RecordEvent(h, i)
  PROVE  RowTypes' /\ FollowInv'
<1>0. /\ handler[h].stage = "idle" /\ i \in Unanswered
      /\ UNCHANGED <<checkout, customer, subscription, orgPlan, auditVars, billing>>
      /\ handler \in [Handlers -> Tasks]
  BY DEF RecordEvent, RowTypes, WebRows
<1>i. i \in Nat
  <2>1. stripe.sent \in Seq(Events)
    BY DEF RowTypes, StripeRows
  <2>2. DOMAIN stripe.sent = 1..Len(stripe.sent) /\ Len(stripe.sent) \in Nat
    BY <2>1
  <2> QED  BY <2>1, <2>2
<1>1. CASE i \in recorded
  <2>1. Answers(i) /\ UNCHANGED <<recorded, handler, unordered>>
    BY <1>1 DEF RecordEvent
  <2>2. /\ stripe' \in [status: {"none", "active", "past_due", "canceled"}, customer: Customers,
                        period: Nat, sent: Seq(Events), answered: SUBSET Nat]
        /\ stripe'.status = stripe.status /\ stripe'.customer = stripe.customer
        /\ stripe'.sent = stripe.sent /\ stripe'.answered = stripe.answered \cup {i}
    BY <1>1, <2>1, AnsweringKeepsTypes
  <2>3. Busy' = Busy /\ InHand' = InHand /\ Entered' = Entered /\ Settled' = Settled
    BY <2>1 DEF Busy, InHand, Entered, Settled
  <2>4. RowTypes'
    <3>1. InHand' \subseteq recorded' /\ recorded' \subseteq DOMAIN stripe.sent /\ stripe'.answered \subseteq recorded'
      BY <1>1, <2>1, <2>2, <2>3 DEF RowTypes, StripeRows
    <3>2. customer' \in Customers /\ subscription' \in Subscriptions /\ orgPlan' \in PlanIds
          /\ handler' \in [Handlers -> Tasks] /\ billing' \in Cases
      BY <1>0, <2>1 DEF RowTypes, WebRows
    <3> QED  BY <1>0, <2>1, <2>2, <3>1, <3>2, TypesOfWebStep
  <2>5. InTurn => InTurn'
    BY <2>1, <2>2, <2>3 DEF InTurn
  <2>6. RowTellsLatest => RowTellsLatest'
    BY <1>0, <2>2, <2>3 DEF RowTellsLatest, Tells
  <2>7. StoryIsTold'
    BY <2>2 DEF FollowInv, StoryIsTold
  <2> QED  BY <2>1, <2>4, <2>5, <2>6, <2>7 DEF FollowInv
<1>2. CASE i \notin recorded
  <2>1. /\ recorded' = recorded \cup {i}
        /\ handler' = [handler EXCEPT ![h] = [stage |-> "recorded", event |-> i]]
        /\ unordered' = (unordered \/ InHand # {} \/ \E k \in Unanswered : k < i)
        /\ stripe' = stripe
    BY <1>2 DEF RecordEvent
  <2>2. handler' \in [Handlers -> Tasks] /\ InHand' = InHand \cup {i} /\ Busy' = Busy \cup {h}
    BY <1>0, <1>i, <2>1 DEF Tasks, InHand, Busy
  <2>3. RowTypes'
    <3>1. InHand' \subseteq recorded' /\ recorded' \subseteq DOMAIN stripe.sent /\ stripe'.answered \subseteq recorded'
      BY <2>1, <2>2 DEF RowTypes, StripeRows
    <3>2. customer' \in Customers /\ subscription' \in Subscriptions /\ orgPlan' \in PlanIds
          /\ billing' \in Cases
      BY <1>0 DEF RowTypes, WebRows
    <3>3. stripe' \in [status: {"none", "active", "past_due", "canceled"}, customer: Customers,
                      period: Nat, sent: Seq(Events), answered: SUBSET Nat]
      BY <2>1 DEF RowTypes, StripeRows
    <3> QED  BY <1>0, <2>1, <2>2, <3>1, <3>2, <3>3, TypesOfWebStep
  <2>4. SUFFICES ASSUME ~unordered' PROVE InTurn' /\ RowTellsLatest'
    BY <2>1, <2>3 DEF FollowInv, StoryIsTold
  <2>5. /\ ~unordered /\ InHand = {} /\ \A k \in Unanswered : ~(k < i)
        /\ InTurn /\ RowTellsLatest
    BY <2>1, <2>4 DEF FollowInv
  <2>6. Busy = {} /\ Busy' = {h} /\ InHand' = {i}
    <3>1. Busy = {}
      BY <2>5 DEF InHand, Busy
    <3> QED  BY <2>2, <2>5, <3>1
  <2>7. Settled = recorded /\ Settled' = recorded /\ Entered = recorded
    BY <1>2, <2>1, <2>5, <2>6 DEF Settled, Entered
  <2>8. Entered' = recorded
    BY <1>2, <2>1, <2>6, <1>0 DEF Entered
  <2>d. /\ DOMAIN stripe.sent = 1..Len(stripe.sent) /\ Len(stripe.sent) \in Nat
        /\ recorded \subseteq DOMAIN stripe.sent
        /\ stripe.answered \subseteq recorded
    BY DEF RowTypes, StripeRows
  <2>9. \A k \in 1..i : k \in recorded'
    <3>1. \A k \in 1..i : k # i => k \in stripe.answered
      BY <1>i, <2>5, <2>d DEF Unanswered
    <3> QED  BY <2>1, <2>d, <3>1
  <2>10. \A k \in recorded' : k <= i
    <3>1. \A k \in recorded : ~(i <= k)
      BY <1>2, <1>i, <2>5, <2>d DEF InTurn
    <3> QED  BY <1>i, <2>1, <2>d, <3>1
  <2>11. InTurn'
    <3>1. \A j \in recorded' : \A k \in 1..j : k \in recorded'
      BY <2>1, <2>5, <2>9 DEF InTurn
    <3>2. Settled' \subseteq stripe'.answered
      BY <2>1, <2>5, <2>7 DEF InTurn
    <3> QED  BY <2>6, <2>10, <3>1, <3>2 DEF InTurn
  <2>12. RowTellsLatest'
    BY <1>0, <2>1, <2>5, <2>7, <2>8 DEF RowTellsLatest, Tells
  <2> QED  BY <2>11, <2>12
<1> QED  BY <1>1, <1>2

\* A handler that is through: its event is settled, and nothing is in hand.
LEMMA FinishingFollows ==
  ASSUME RowTypes, FollowInv, NEW h \in Handlers, handler[h].stage # "idle",
         Handled(h), Answers(handler[h].event),
         customer' \in Customers, orgPlan' \in {orgPlan, "pro"},
         UNCHANGED <<checkout, subscription, recorded, auditVars, billing, unordered>>,
         handler[h].stage = "synced" \/ EventOf(h).kind # "subscription",
         handler[h].stage = "synced" => orgPlan' = "pro",
         handler[h].stage # "synced" => EventOf(h).kind = "checkout" \/ ~Known(EventOf(h).customer)
  PROVE  RowTypes' /\ FollowInv'
<1> DEFINE i == handler[h].event
<1>1. i \in recorded /\ recorded \subseteq DOMAIN stripe.sent /\ h \in Busy
      /\ EventOf(h) = stripe.sent[i]
  BY EventIsSent
<1>2. /\ stripe' \in [status: {"none", "active", "past_due", "canceled"}, customer: Customers,
                      period: Nat, sent: Seq(Events), answered: SUBSET Nat]
      /\ stripe'.status = stripe.status /\ stripe'.customer = stripe.customer
      /\ stripe'.sent = stripe.sent /\ stripe'.answered = stripe.answered \cup {i}
  BY <1>1, AnsweringKeepsTypes
<1>3. /\ handler' \in [Handlers -> Tasks] /\ InHand' \subseteq InHand
      /\ InTurn => Busy' = {} /\ InHand' = {} /\ InHand = {i}
  BY HandlingFreesHandler
<1>4. RowTypes'
  <2>1. InHand' \subseteq recorded' /\ stripe'.answered \subseteq recorded'
    BY <1>1, <1>2, <1>3 DEF RowTypes, StripeRows
  <2>2. subscription' \in Subscriptions /\ orgPlan' \in PlanIds /\ billing' \in Cases
    BY DEF RowTypes, WebRows, PlanIds
  <2> QED  BY <1>1, <1>2, <1>3, <2>1, <2>2, TypesOfWebStep
<1>5. SUFFICES ASSUME ~unordered PROVE InTurn' /\ RowTellsLatest'
  BY <1>2, <1>4 DEF FollowInv, StoryIsTold
<1>6. InTurn /\ RowTellsLatest
  BY <1>5 DEF FollowInv
<1>7. Busy' = {} /\ InHand' = {} /\ InHand = {i} /\ Busy = {h}
  BY <1>1, <1>3, <1>6 DEF InTurn
<1>8. Settled' = recorded /\ Entered' = recorded
  BY <1>7 DEF Settled, Entered
<1>9. InTurn'
  <2>1. recorded \subseteq stripe'.answered
    BY <1>2, <1>6, <1>7 DEF InTurn, Settled
  <2> QED  BY <1>6, <1>7, <1>8, <2>1 DEF InTurn
<1>10. \A k \in recorded : k <= i
  BY <1>6, <1>7 DEF InTurn
<1>11. /\ i \in Nat /\ Story(stripe.sent)
       /\ \A k \in recorded : k \in Nat
  <2>1. stripe.sent \in Seq(Events)
    BY DEF RowTypes, StripeRows
  <2>2. DOMAIN stripe.sent = 1..Len(stripe.sent) /\ Len(stripe.sent) \in Nat
    BY <2>1
  <2> QED  BY <1>1, <2>2 DEF FollowInv, StoryIsTold
<1>s. stripe'.sent = stripe.sent /\ subscription' = subscription
  BY <1>2
<1> HIDE DEF i
<1>12. CASE handler[h].stage = "synced"
  <2>1. Entered = recorded
    BY <1>7, <1>12 DEF Entered
  <2> QED  BY <1>6, <1>8, <1>9, <1>12, <1>s, <2>1 DEF RowTellsLatest, Tells
<1>13. CASE handler[h].stage # "synced"
  <2>1. Entered = recorded \ {i} /\ Settled = recorded \ {i}
    BY <1>7, <1>13 DEF Entered, Settled, i
  <2>2. stripe.sent[i].kind # "subscription" /\ i # 2
    BY <1>1, <1>11, <1>13 DEF Story
  <2>3. i # 3
    <3>1. SUFFICES ASSUME i = 3 PROVE FALSE
      OBVIOUS
    <3>2. 2 \in recorded
      BY <1>1, <1>6, <3>1 DEF InTurn
    <3>3. 2 \in Entered /\ \A k \in Entered : k <= 2
      BY <1>10, <1>11, <2>1, <3>1, <3>2
    <3>4. subscription.customer = stripe.sent[2].customer
      BY <1>6, <1>11, <3>3 DEF RowTellsLatest, Tells, Story
    <3>5. Known(EventOf(h).customer) /\ EventOf(h).kind # "checkout"
      BY <1>1, <1>11, <3>1, <3>4 DEF Known, Story
    <3> QED  BY <1>13, <3>5
  <2>4. \A j \in recorded : (\A k \in recorded : k <= j) => j = i
    BY <1>1, <1>10, <1>11
  <2>5. \A j \in Entered' : Tells(j)' /\ (\A k \in Entered' : k <= j) => FALSE
    BY <1>8, <1>s, <2>2, <2>3, <2>4 DEF Tells
  <2>6. 2 \in Entered' => 2 \in Entered /\ 2 \in Settled
    BY <1>8, <2>1, <2>2
  <2>7. (2 \in Entered' => subscription'.plan = "pro") /\ (2 \in Settled' => orgPlan' = "pro")
    BY <1>6, <1>8, <1>s, <2>6 DEF RowTellsLatest
  <2> QED  BY <1>9, <2>5, <2>7 DEF RowTellsLatest
<1> QED  BY <1>12, <1>13

LEMMA FinishersFollow ==
  ASSUME RowTypes, FollowInv, NEW h \in Handlers,
         ProcessCheckout(h) \/ IgnoreInvoice(h) \/ SetOrganizationPlan(h)
  PROVE  RowTypes' /\ FollowInv'
<1>1. handler[h].stage # "idle" /\ handler[h].stage \in {"recorded", "synced"}
  BY DEF ProcessCheckout, IgnoreInvoice, SetOrganizationPlan
<1>2. EventOf(h) \in Events
  BY <1>1, EventIsSent
<1>3. customer' \in Customers
  BY <1>2 DEF ProcessCheckout, IgnoreInvoice, SetOrganizationPlan, webVars, RowTypes, WebRows, Customers, Events
<1>4. /\ Handled(h) /\ Answers(handler[h].event) /\ orgPlan' \in {orgPlan, "pro"}
      /\ UNCHANGED <<checkout, subscription, recorded, auditVars, billing, unordered>>
      /\ handler[h].stage = "synced" \/ EventOf(h).kind # "subscription"
      /\ handler[h].stage = "synced" => orgPlan' = "pro"
      /\ handler[h].stage # "synced" => EventOf(h).kind = "checkout" \/ ~Known(EventOf(h).customer)
  BY <1>2 DEF ProcessCheckout, IgnoreInvoice, SetOrganizationPlan, webVars
<1> QED  BY <1>1, <1>3, <1>4, FinishingFollows

\* The row that is written tells the event in hand.
LEMMA SyncingFollows ==
  ASSUME RowTypes, FollowInv, NEW h \in Handlers, handler[h].stage = "recorded",
         EventOf(h).kind \in {"subscription", "invoice"},
         NEW row \in Subscriptions, SyncRow(h, row),
         row.status = EventOf(h).status, row.customer = EventOf(h).customer, row.plan = "pro"
  PROVE  RowTypes' /\ FollowInv'
<1> DEFINE i == handler[h].event
<1>0. /\ subscription' = row /\ handler' = [handler EXCEPT ![h].stage = "synced"]
      /\ UNCHANGED <<checkout, customer, orgPlan, recorded, stripe, auditVars, billing, unordered>>
  BY DEF SyncRow
<1>1. i \in recorded /\ recorded \subseteq DOMAIN stripe.sent /\ h \in Busy
      /\ EventOf(h) = stripe.sent[i]
  BY EventIsSent
<1>2. /\ handler \in [Handlers -> Tasks] /\ handler' \in [Handlers -> Tasks]
      /\ \A g \in Handlers : /\ handler'[g].event = handler[g].event
                             /\ handler'[g].stage = IF g = h THEN "synced" ELSE handler[g].stage
  BY <1>0 DEF RowTypes, WebRows, Tasks
<1>3. Busy' = Busy /\ InHand' = InHand /\ Settled' = Settled
  BY <1>0, <1>2 DEF Busy, InHand, Settled
<1>4. RowTypes'
  <2>1. InHand' \subseteq recorded' /\ stripe'.answered \subseteq recorded'
    BY <1>0, <1>3 DEF RowTypes, StripeRows
  <2>2. customer' \in Customers /\ subscription' \in Subscriptions /\ orgPlan' \in PlanIds /\ billing' \in Cases
    BY <1>0 DEF RowTypes, WebRows
  <2>3. stripe' \in [status: {"none", "active", "past_due", "canceled"}, customer: Customers,
                      period: Nat, sent: Seq(Events), answered: SUBSET Nat]
    BY <1>0 DEF RowTypes, StripeRows
  <2> QED  BY <1>0, <1>1, <1>2, <2>1, <2>2, <2>3, TypesOfWebStep
<1>5. SUFFICES ASSUME ~unordered PROVE InTurn' /\ RowTellsLatest'
  BY <1>0, <1>4 DEF FollowInv, StoryIsTold
<1>6. InTurn /\ RowTellsLatest
  BY <1>5 DEF FollowInv
<1>7. Busy = {h} /\ InHand = {i}
  BY <1>1, <1>6 DEF InTurn, Busy, InHand
<1>8. InTurn'
  BY <1>0, <1>3, <1>6 DEF InTurn
<1>9. Entered' = recorded
  BY <1>0, <1>2, <1>3, <1>7 DEF Entered
<1>10. \A k \in recorded : k <= i
  BY <1>6, <1>7 DEF InTurn
<1>11. \A k \in recorded : k \in Nat
  <2>1. stripe.sent \in Seq(Events)
    BY DEF RowTypes, StripeRows
  <2>2. DOMAIN stripe.sent = 1..Len(stripe.sent) /\ Len(stripe.sent) \in Nat
    BY <2>1
  <2> QED  BY <1>1, <2>2
<1> HIDE DEF i
<1>12. \A j \in recorded : (\A k \in recorded : k <= j) => j = i
  BY <1>1, <1>10, <1>11
<1> QED  BY <1>0, <1>1, <1>3, <1>6, <1>8, <1>9, <1>12 DEF RowTellsLatest

LEMMA SyncsFollow ==
  ASSUME RowTypes, FollowInv, NEW h \in Handlers, SyncSubscription(h) \/ SyncInvoice(h)
  PROVE  RowTypes' /\ FollowInv'
<1>1. handler[h].stage = "recorded" /\ EventOf(h).kind \in {"subscription", "invoice"}
  BY DEF SyncSubscription, SyncInvoice
<1>2. EventOf(h) \in Events
  BY <1>1, EventIsSent
<1> DEFINE Told(interval, period) == [present |-> TRUE, plan |-> "pro", status |-> EventOf(h).status,
                 interval |-> interval, period |-> period, customer |-> EventOf(h).customer]
<1>3. \A interval \in {"monthly", "yearly"}, period \in Periods :
        /\ Told(interval, period) \in Subscriptions
        /\ Told(interval, period).status = EventOf(h).status
        /\ Told(interval, period).customer = EventOf(h).customer
        /\ Told(interval, period).plan = "pro"
  BY <1>2 DEF Events, Subscriptions, PlanIds, SubscriptionStatuses, Customers
<1>4. Paid(EventOf(h).period) \in Periods /\ NoPeriod \in Periods
  BY <1>2 DEF Events, Paid, NoPeriod, Periods
<1>5. SyncRow(h, Told("yearly", Paid(EventOf(h).period))) \/ SyncRow(h, Told("monthly", NoPeriod))
  BY DEF SyncSubscription, SyncInvoice
<1> HIDE DEF Row
<1> QED  BY <1>1, <1>3, <1>4, <1>5, SyncingFollows

LEMMA FailingFollows ==
  ASSUME RowTypes, FollowInv, NEW h \in Handlers, HandlerFails(h)
  PROVE  RowTypes' /\ FollowInv'
<1>1. /\ handler' \in [Handlers -> Tasks] /\ InHand' \subseteq InHand
  BY HandlingFreesHandler DEF HandlerFails
<1>2. billing' \in Cases
  BY SpendKeepsCases DEF HandlerFails
<1>3. /\ unordered' /\ UNCHANGED <<checkout, webVars, stripe, auditVars>>
  BY DEF HandlerFails
<1>4. WebRows' /\ StripeRows' /\ AuditRows'
  BY <1>1, <1>3 DEF RowTypes, WebRows, StripeRows, AuditRows, webVars, auditVars
<1>5. RowTypes'
  BY <1>2, <1>3, <1>4 DEF RowTypes
<1> QED  BY <1>3, <1>5 DEF FollowInv, StoryIsTold

-----------------------------------------------------------------------------
BillingInv == RowTypes /\ LimitsInv /\ FollowInv

LEMMA WebLeavesLimits ==
  ASSUME LimitsInv, UNCHANGED auditVars
  PROVE  LimitsInv'
BY DEF LimitsInv, auditVars, AuditsAreOwned, Alone, CreatorIsCounted, CreatorHasRoom, Creating,
       HasRoom, CountedIn, ActiveAudits, UsageFits, ActiveFits, Allows, QueuedAreCounted, Spared

LEMMA AuditsLeaveFollowing ==
  ASSUME FollowInv, UNCHANGED <<webVars, handler, stripe, unordered>>
  PROVE  FollowInv'
BY DEF FollowInv, webVars, StoryIsTold, InTurn, RowTellsLatest, Entered, Settled, Busy, InHand, Tells

LEMMA BillingInvHolds == BillingSpec => []BillingInv
<1>1. BillingInit => BillingInv
  <2> SUFFICES ASSUME BillingInit PROVE BillingInv
    OBVIOUS
  <2>1. RowTypes
    BY BillingInitTypes
  <2>2. LimitsInv
    BY DEF BillingInit, LimitsInv, AuditsAreOwned, Alone, CreatorIsCounted, CreatorHasRoom,
           Creating, Unread, UsageFits, ActiveFits, ActiveAudits, QueuedAreCounted
  <2>3. Len(stripe.sent) = 0 /\ stripe.status = "none"
    BY DEF BillingInit
  <2>4. recorded = {}
    BY DEF BillingInit
  <2>5. FollowInv
    <3>1. StoryIsTold
      BY <2>3 DEF StoryIsTold
    <3>2. InHand = {} /\ Busy = {} /\ Entered = {} /\ Settled = {}
      BY <2>4 DEF BillingInit, Idle, InHand, Busy, Entered, Settled
    <3> QED  BY <2>4, <3>1, <3>2 DEF FollowInv, InTurn, RowTellsLatest
  <2> QED  BY <2>1, <2>2, <2>5 DEF BillingInv
<1>2. BillingInv /\ [BillingNext]_billingVars => BillingInv'
  <2> SUFFICES ASSUME BillingInv, [BillingNext]_billingVars PROVE BillingInv'
    OBVIOUS
  <2>0. RowTypes /\ LimitsInv /\ FollowInv
    BY DEF BillingInv
  <2>1. ASSUME NEW c \in Checkouts, ReadCustomer(c) \/ CreateCustomer(c) \/ MonthPasses PROVE BillingInv'
    <3>1. UNCHANGED auditVars
      BY <2>1 DEF ReadCustomer, CreateCustomer, MonthPasses
    <3> QED  BY <2>0, <2>1, <3>1, ShoppingKeepsFollowing, WebLeavesLimits DEF BillingInv
  <2>2. ASSUME NEW c \in Checkouts, CheckoutPaid(c) PROVE BillingInv'
    <3>1. UNCHANGED auditVars
      BY <2>2 DEF CheckoutPaid
    <3> QED  BY <2>0, <2>2, <3>1, PaymentTellsStory, WebLeavesLimits DEF BillingInv
  <2>3. CASE PaymentFails \/ Renews \/ CustomerCancels
    <3>1. UNCHANGED auditVars
      BY <2>3 DEF PaymentFails, Renews, CustomerCancels
    <3> QED  BY <2>0, <2>3, <3>1, ChangesTellStory, WebLeavesLimits DEF BillingInv
  <2>4. ASSUME NEW h \in Handlers, NEW i \in DOMAIN stripe.sent, RecordEvent(h, i) PROVE BillingInv'
    <3>1. UNCHANGED auditVars
      BY <2>4 DEF RecordEvent
    <3> QED  BY <2>0, <2>4, <3>1, RecordingEventFollows, WebLeavesLimits DEF BillingInv
  <2>5. ASSUME NEW h \in Handlers, ProcessCheckout(h) \/ IgnoreInvoice(h) \/ SetOrganizationPlan(h) PROVE BillingInv'
    <3>1. UNCHANGED auditVars
      BY <2>5 DEF ProcessCheckout, IgnoreInvoice, SetOrganizationPlan
    <3> QED  BY <2>0, <2>5, <3>1, FinishersFollow, WebLeavesLimits DEF BillingInv
  <2>6. ASSUME NEW h \in Handlers, SyncSubscription(h) \/ SyncInvoice(h) PROVE BillingInv'
    <3>1. UNCHANGED auditVars
      BY <2>6 DEF SyncSubscription, SyncInvoice, SyncRow
    <3> QED  BY <2>0, <2>6, <3>1, SyncsFollow, WebLeavesLimits DEF BillingInv
  <2>7. ASSUME NEW h \in Handlers, HandlerFails(h) PROVE BillingInv'
    <3>1. UNCHANGED auditVars
      BY <2>7 DEF HandlerFails
    <3> QED  BY <2>0, <2>7, <3>1, FailingFollows, WebLeavesLimits DEF BillingInv
  <2>8. ASSUME NEW r \in Requests,
               \/ ReadPlan(r) \/ ReadPeriod(r) \/ CountUsage(r) \/ CreateAudit(r)
               \/ EnqueueFails(r) \/ Enqueue(r) \/ RecordUsageEvent(r) \/ RecordUsageFails(r)
               \/ AuditEnds(r) \/ AuditGoesQuiet(r) \/ AuditMoves(r)
        PROVE  BillingInv'
    <3>1. UNCHANGED <<webVars, handler, stripe, unordered>>
      BY <2>8, AuditAlone DEF ReadPlan, ReadPeriod, CountUsage, CreateAudit, EnqueueFails, Enqueue, RecordUsageEvent, RecordUsageFails
    <3>2. RowTypes'
      BY <2>0, <2>8, RequestsKeepTypes DEF LimitsInv
    <3>3. LimitsInv'
      BY <2>0, <2>8, <3>2, RequestsKeepLimits
    <3> QED  BY <2>0, <3>1, <3>2, <3>3, AuditsLeaveFollowing DEF BillingInv
  <2>9. CASE MonthPasses
    <3>1. UNCHANGED <<auditVars, checkout, webVars, handler, stripe, unordered>> /\ billing' \in Cases
      BY <2>0, <2>9, SpendKeepsCases DEF MonthPasses
    <3>2. RowTypes'
      BY <2>0, <3>1 DEF RowTypes, WebRows, StripeRows, AuditRows, webVars, auditVars, InHand
    <3> QED  BY <2>0, <3>1, <3>2, WebLeavesLimits, AuditsLeaveFollowing DEF BillingInv
  <2>10. CASE UNCHANGED billingVars
    <3>1. UNCHANGED <<auditVars, checkout, webVars, handler, stripe, unordered, billing>>
      BY <2>10 DEF billingVars, auditVars, webVars
    <3>2. RowTypes'
      BY <2>0, <3>1 DEF RowTypes, WebRows, StripeRows, AuditRows, webVars, auditVars, InHand
    <3> QED  BY <2>0, <3>1, <3>2, WebLeavesLimits, AuditsLeaveFollowing DEF BillingInv
  <2> QED  BY <2>1, <2>2, <2>3, <2>4, <2>5, <2>6, <2>7, <2>8, <2>9, <2>10 DEF BillingNext
<1> QED  BY <1>1, <1>2, PTL DEF BillingSpec

\* What the workspace knows of its subscription is what Stripe last said, once
\* every event is answered and none was handled out of turn or broken off: for
\* any number of checkouts, web processes and events sent again.
THEOREM RowsFollowStripe == BillingSpec => []RowFollowsStripe
<1>1. BillingInv => RowFollowsStripe
  BY FollowingImpliesProperty DEF BillingInv
<1> QED  BY <1>1, BillingInvHolds, PTL

\* A plan's limits hold for every plan and any number of requests: that on the
\* audits of a period unless two requests were between count and insert at a
\* time or the period changed under one; that on the audits that run at once
\* unless two overlapped or one was let through past an audit that runs but had
\* not been written for 12 hours. Every queued audit is counted unless the
\* writing of its usage event failed.
THEOREM LimitsHold == BillingSpec => []LimitsHoldUnlessRaced
<1>1. BillingInv => LimitsHoldUnlessRaced
  BY LimitsByParts DEF BillingInv, LimitsInv
<1> QED  BY <1>1, BillingInvHolds, PTL

-----------------------------------------------------------------------------
(***************************************************************************)
(* Billing: every customer was made by a checkout.                         *)
(***************************************************************************)
Made == {c \in Checkouts : checkout[c] \in Checkouts}
MadeEvents == {e \in Events : e.customer \in Made}

\* An open session is of a customer that was made, whoever opened it, and
\* nobody else is known to the rows, to Stripe or to its events.
CustomersMade ==
  /\ \A c \in Checkouts : checkout[c] \in Checkouts => checkout[c] \in Made
  /\ {customer, subscription.customer, stripe.customer} \subseteq Made \cup {NoCustomer}
  /\ stripe.sent \in Seq(MadeEvents)
\* Usage is counted once a request is through.
UsageIsDone == \A u \in usageEvents : request[u.by].stage = "done"

LEMMA EventsOfMore ==
  ASSUME NEW S, NEW T, S \subseteq T, NEW s \in Seq(S)
  PROVE  s \in Seq(T)
OBVIOUS

\* A checkout that made a customer, or found one, keeps it.
LEMMA MadeStays ==
  ASSUME RowTypes, CustomersMade,
         UNCHANGED checkout \/ \E c \in Checkouts : ReadCustomer(c) \/ CreateCustomer(c)
  PROVE  /\ Made \subseteq Made' /\ stripe.sent \in Seq(MadeEvents')
         /\ \A c \in Checkouts : checkout'[c] \in Checkouts => checkout'[c] \in Made'
<1>1. checkout \in [Checkouts -> Checkouts \cup {"idle", "new"}]
  BY DEF RowTypes
<1>2. Made \subseteq Made'
  BY <1>1, PlansAssumption DEF Made, ReadCustomer, CreateCustomer
<1>3. ASSUME NEW c \in Checkouts, checkout'[c] \in Checkouts PROVE checkout'[c] \in Made'
  <2>1. CASE checkout'[c] = checkout[c]
    BY <1>2, <1>3, <2>1 DEF CustomersMade
  <2>2. CASE checkout'[c] # checkout[c] /\ ReadCustomer(c)
    BY <1>1, <1>2, <1>3, <2>2, PlansAssumption DEF ReadCustomer, CustomersMade
  <2>3. CASE checkout'[c] # checkout[c] /\ CreateCustomer(c)
    BY <1>1, <1>3, <2>3 DEF CreateCustomer, Made
  <2> QED  BY <1>1, <2>1, <2>2, <2>3 DEF ReadCustomer, CreateCustomer
<1>4. MadeEvents \subseteq MadeEvents'
  BY <1>2 DEF MadeEvents
<1> QED  BY <1>2, <1>3, <1>4, EventsOfMore DEF CustomersMade

\* What Stripe sends is of the customer that has the subscription.
LEMMA SendingKeepsCustomers ==
  ASSUME RowTypes, CustomersMade, UNCHANGED <<checkout, webVars>>, NEW who \in Made,
         NEW status \in {"active", "past_due", "canceled"}, NEW period \in Nat, NEW events,
         \/ events = <<Event("checkout", status, who, period),
                       Event("subscription", status, who, period),
                       Event("invoice", status, who, period)>>
         \/ events = <<Event("invoice", status, who, period),
                       Event("subscription", status, who, period)>>
         \/ events = <<Event("subscription", status, who, period)>>,
         stripe'.sent = stripe.sent \o events, stripe'.customer = who
  PROVE  CustomersMade'
<1>1. Made' = Made /\ MadeEvents' = MadeEvents
  BY DEF Made, MadeEvents
<1>2. /\ Event("checkout", status, who, period) \in MadeEvents
      /\ Event("subscription", status, who, period) \in MadeEvents
      /\ Event("invoice", status, who, period) \in MadeEvents
  BY DEF MadeEvents, Event, Events, Made
<1>3. events \in Seq(MadeEvents)
  <2>1. ASSUME NEW S, NEW a \in S, NEW b \in S, NEW c \in S
        PROVE  <<a, b, c>> \in Seq(S) /\ <<a, b>> \in Seq(S) /\ <<a>> \in Seq(S)
    OBVIOUS
  <2> QED  BY <1>2, <2>1, Zenon
<1>4. stripe'.sent \in Seq(MadeEvents)
  BY <1>3, ConcatProperties DEF CustomersMade
<1> QED  BY <1>1, <1>4 DEF CustomersMade, webVars

\* An event in hand is of a customer that was made.
LEMMA EventIsOfMade ==
  ASSUME RowTypes, CustomersMade, NEW h \in Handlers, handler[h].stage # "idle"
  PROVE  EventOf(h).customer \in Made
<1>1. handler[h].event \in DOMAIN stripe.sent
  BY DEF RowTypes, StripeRows, InHand
<1>2. stripe.sent \in Seq(MadeEvents)
  BY DEF CustomersMade
<1>3. stripe.sent[handler[h].event] \in MadeEvents
  BY <1>1, <1>2
<1> QED  BY <1>3 DEF EventOf, MadeEvents

LEMMA CustomersStay ==
  ASSUME RowTypes, CustomersMade, [BillingNext]_billingVars
  PROVE  CustomersMade'
<1>0. stripe \in [status: {"none", "active", "past_due", "canceled"}, customer: Customers,
                 period: Nat, sent: Seq(Events), answered: SUBSET Nat]
  BY DEF RowTypes, StripeRows
<1>1. ASSUME NEW c \in Checkouts, ReadCustomer(c) \/ CreateCustomer(c) PROVE CustomersMade'
  <2>1. /\ Made \subseteq Made' /\ stripe.sent \in Seq(MadeEvents')
        /\ \A d \in Checkouts : checkout'[d] \in Checkouts => checkout'[d] \in Made'
    BY <1>1, MadeStays
  <2>2. subscription' = subscription /\ stripe' = stripe
    BY <1>1 DEF ReadCustomer, CreateCustomer, webVars
  <2>3. customer' \in Made' \cup {NoCustomer}
    <3>1. CASE ReadCustomer(c)
      BY <2>1, <3>1 DEF ReadCustomer, webVars, CustomersMade
    <3>2. CASE CreateCustomer(c)
      BY <3>2 DEF CreateCustomer, Made, RowTypes
    <3> QED  BY <1>1, <3>1, <3>2
  <2> QED  BY <2>1, <2>2, <2>3 DEF CustomersMade
<1>2. ASSUME NEW c \in Checkouts, CheckoutPaid(c) PROVE CustomersMade'
  <2>1. checkout[c] \in Made /\ UNCHANGED <<checkout, webVars>>
    BY <1>2 DEF CheckoutPaid, CustomersMade
  <2>2. /\ stripe'.customer = checkout[c]
        /\ stripe'.sent = stripe.sent \o <<Event("checkout", "active", checkout[c], 1),
                                           Event("subscription", "active", checkout[c], 1),
                                           Event("invoice", "active", checkout[c], 1)>>
    BY <1>0, <1>2 DEF CheckoutPaid, Sends
  <2> QED  BY <2>1, <2>2, SendingKeepsCustomers
<1>3. ASSUME PaymentFails \/ Renews \/ CustomerCancels PROVE CustomersMade'
  <2>1. stripe.status # "none" /\ UNCHANGED <<checkout, webVars>>
    BY <1>3 DEF PaymentFails, Renews, CustomerCancels
  <2>2. stripe.customer \in Made /\ stripe.period \in Nat
    <3>1. stripe.customer \in Checkouts
      BY <2>1 DEF RowTypes, StripeRows
    <3> QED  BY <1>0, <3>1, PlansAssumption DEF CustomersMade
  <2>3. CASE PaymentFails
    <3>1. /\ stripe'.customer = stripe.customer
          /\ stripe'.sent = stripe.sent \o
               <<Event("invoice", "past_due", stripe.customer, stripe.period),
                 Event("subscription", "past_due", stripe.customer, stripe.period)>>
      BY <1>0, <2>3 DEF PaymentFails, Sends
    <3> QED  BY <2>1, <2>2, <3>1, SendingKeepsCustomers
  <2>4. CASE Renews
    <3>1. /\ stripe'.customer = stripe.customer
          /\ stripe'.sent = stripe.sent \o
               <<Event("invoice", "active", stripe.customer, stripe.period + 1),
                 Event("subscription", "active", stripe.customer, stripe.period + 1)>>
      BY <1>0, <2>4 DEF Renews, Sends
    <3>2. stripe.period + 1 \in Nat
      BY <2>2
    <3> QED  BY <2>1, <2>2, <3>1, <3>2, SendingKeepsCustomers
  <2>5. CASE CustomerCancels
    <3>1. /\ stripe'.customer = stripe.customer
          /\ stripe'.sent = stripe.sent \o
               <<Event("subscription", "canceled", stripe.customer, stripe.period)>>
      BY <1>0, <2>5 DEF CustomerCancels, Sends
    <3> QED  BY <2>1, <2>2, <3>1, SendingKeepsCustomers
  <2> QED  BY <1>3, <2>3, <2>4, <2>5
<1>4. ASSUME NEW h \in Handlers,
             ProcessCheckout(h) \/ SyncSubscription(h) \/ SyncInvoice(h)
      PROVE  CustomersMade'
  <2>1. EventOf(h).customer \in Made
    BY <1>4, EventIsOfMade DEF ProcessCheckout, SyncSubscription, SyncInvoice
  <2>2. /\ checkout' = checkout /\ stripe'.sent = stripe.sent /\ stripe'.customer = stripe.customer
        /\ customer' \in {customer, EventOf(h).customer}
        /\ subscription'.customer \in {subscription.customer, EventOf(h).customer}
    <3>1. CASE ProcessCheckout(h)
      BY <1>0, <3>1 DEF ProcessCheckout, Answers
    <3>2. CASE SyncSubscription(h) \/ SyncInvoice(h)
      BY <3>2 DEF SyncSubscription, SyncInvoice, SyncRow
    <3> QED  BY <1>4, <3>1, <3>2
  <2>3. Made' = Made /\ MadeEvents' = MadeEvents
    BY <2>2 DEF Made, MadeEvents
  <2> QED  BY <2>1, <2>2, <2>3 DEF CustomersMade
<1>5. ASSUME UNCHANGED <<checkout, customer, subscription>>,
             stripe'.sent = stripe.sent, stripe'.customer = stripe.customer
      PROVE  CustomersMade'
  BY <1>5 DEF CustomersMade, Made, MadeEvents
<1>6. ASSUME NEW h \in Handlers, NEW i, RecordEvent(h, i) PROVE CustomersMade'
  BY <1>0, <1>5, <1>6 DEF RecordEvent, Answers
<1>7. ASSUME NEW h \in Handlers, IgnoreInvoice(h) \/ SetOrganizationPlan(h) \/ HandlerFails(h)
      PROVE  CustomersMade'
  BY <1>0, <1>5, <1>7 DEF IgnoreInvoice, SetOrganizationPlan, HandlerFails, Answers, webVars
<1>8. ASSUME NEW r \in Requests,
             \/ ReadPlan(r) \/ ReadPeriod(r) \/ CountUsage(r) \/ CreateAudit(r)
             \/ EnqueueFails(r) \/ Enqueue(r) \/ RecordUsageEvent(r) \/ RecordUsageFails(r)
             \/ AuditEnds(r) \/ AuditGoesQuiet(r) \/ AuditMoves(r)
      PROVE  CustomersMade'
  BY <1>5, <1>8, AuditAlone DEF ReadPlan, ReadPeriod, CountUsage, CreateAudit, EnqueueFails,
     Enqueue, RecordUsageEvent, RecordUsageFails, webVars
<1>9. ASSUME MonthPasses \/ UNCHANGED billingVars PROVE CustomersMade'
  BY <1>5, <1>9 DEF MonthPasses, billingVars, webVars
<1> QED
  BY <1>1, <1>2, <1>3, <1>4, <1>6, <1>7, <1>8, <1>9 DEF BillingNext

\* Nobody leaves "done".
LEMMA UsageStaysDone ==
  ASSUME RowTypes, UsageIsDone, [BillingNext]_billingVars
  PROVE  UsageIsDone'
<1>0. request \in [Requests -> PlanReads] /\ usageEvents \subseteq Usages
  BY DEF RowTypes, AuditRows
<1>1. ASSUME \A r \in Requests : request[r].stage = "done" => request'[r].stage = "done",
             \A u \in usageEvents' : u \in usageEvents \/ request'[u.by].stage = "done"
      PROVE  UsageIsDone'
  BY <1>0, <1>1 DEF UsageIsDone, Usages
<1>2. CASE UNCHANGED <<request, usageEvents>>
  BY <1>1, <1>2 DEF UsageIsDone
<1>3. ASSUME NEW r \in Requests,
             \/ ReadPlan(r) \/ ReadPeriod(r) \/ CountUsage(r) \/ CreateAudit(r)
             \/ EnqueueFails(r) \/ RecordUsageFails(r)
      PROVE  UsageIsDone'
  <2>1. /\ usageEvents' = usageEvents /\ request[r].stage # "done"
        /\ \A s \in Requests \ {r} : request'[s] = request[s]
    BY <1>0, <1>3 DEF ReadPlan, ReadPeriod, CountUsage, CreateAudit, EnqueueFails, RecordUsageFails
  <2> QED  BY <1>1, <2>1
<1>4. ASSUME NEW r \in Requests, RecordUsageEvent(r) PROVE UsageIsDone'
  <2>1. /\ \A u \in usageEvents' : u \in usageEvents \/ u.by = r
        /\ request'[r].stage = "done"
        /\ \A s \in Requests \ {r} : request'[s] = request[s]
    BY <1>0, <1>4 DEF RecordUsageEvent, PlanReads
  <2> QED  BY <1>1, <2>1
<1>5. ASSUME NEW r \in Requests,
             Enqueue(r) \/ AuditEnds(r) \/ AuditGoesQuiet(r) \/ AuditMoves(r)
      PROVE  UsageIsDone'
  BY <1>2, <1>5, AuditAlone DEF Enqueue
<1>6. ASSUME NEW c \in Checkouts, ReadCustomer(c) \/ CreateCustomer(c) \/ CheckoutPaid(c)
      PROVE  UsageIsDone'
  BY <1>2, <1>6 DEF ReadCustomer, CreateCustomer, CheckoutPaid, auditVars
<1>7. ASSUME PaymentFails \/ Renews \/ CustomerCancels \/ MonthPasses PROVE UsageIsDone'
  BY <1>2, <1>7 DEF PaymentFails, Renews, CustomerCancels, MonthPasses, auditVars
<1>8. ASSUME NEW h \in Handlers, \/ \E i \in DOMAIN stripe.sent : RecordEvent(h, i)
                                 \/ ProcessCheckout(h) \/ SyncSubscription(h) \/ SyncInvoice(h)
                                 \/ IgnoreInvoice(h) \/ SetOrganizationPlan(h) \/ HandlerFails(h)
      PROVE  UsageIsDone'
  BY <1>2, <1>8 DEF RecordEvent, ProcessCheckout, SyncSubscription, SyncInvoice, SyncRow,
     IgnoreInvoice, SetOrganizationPlan, HandlerFails, auditVars
<1>9. CASE UNCHANGED billingVars
  BY <1>2, <1>9 DEF billingVars
<1> QED
  BY <1>3, <1>4, <1>5, <1>6, <1>7, <1>8, <1>9 DEF BillingNext

\* Every customer in a row, or known to Stripe, is one that a checkout of the
\* workspace made or found; the webhook answers only what it recorded; and usage
\* is counted of audits there are.
THEOREM BillingIsTyped == BillingSpec => []BillingTypes
<1>1. BillingInit => CustomersMade /\ UsageIsDone
  <2> SUFFICES ASSUME BillingInit PROVE CustomersMade /\ UsageIsDone
    OBVIOUS
  <2>1. <<>> \in Seq(MadeEvents)
    OBVIOUS
  <2> QED  BY <2>1, PlansAssumption
              DEF BillingInit, CustomersMade, UsageIsDone, NoSubscription, Made
<1>2. BillingInv /\ CustomersMade /\ UsageIsDone /\ [BillingNext]_billingVars
        => CustomersMade' /\ UsageIsDone'
  BY CustomersStay, UsageStaysDone DEF BillingInv
<1>3. BillingInv /\ CustomersMade /\ UsageIsDone => BillingTypes
  <2> SUFFICES ASSUME BillingInv, CustomersMade, UsageIsDone PROVE BillingTypes
    OBVIOUS
  <2>1. {u.by : u \in usageEvents} \subseteq {a.by : a \in audits}
    BY DEF BillingInv, LimitsInv, AuditsAreOwned, UsageIsDone, RowTypes, AuditRows, Usages
  <2>2. /\ orgPlan \in PlanIds /\ subscription.plan \in PlanIds /\ InHand \subseteq recorded
        /\ recorded \subseteq DOMAIN stripe.sent /\ stripe.answered \subseteq recorded
    BY DEF BillingInv, RowTypes, WebRows, StripeRows, Subscriptions
  <2> QED  BY <2>1, <2>2 DEF BillingTypes, CustomersMade, Made
<1> QED  BY <1>1, <1>2, <1>3, BillingInvHolds, PTL DEF BillingSpec

-----------------------------------------------------------------------------
(***************************************************************************)
(* RateLimit: what a counter has given out.                                *)
(***************************************************************************)
Buckets == [count : Nat, ends : 0..WindowLength, number : Nat]

CallStates ==
  [stage : {"new", "waiting", "alone", "stuck", "served", "refused",
            "served alone", "refused alone"},
   pipe : {"none", "counting", "expiring", "asking"},
   web : Webs \cup {"none"}, count : Nat, number : Nat]

RateTyped ==
  /\ call \in [Calls -> CallStates]
  /\ shared \in Buckets
  /\ apart \in [Webs -> Buckets]
  /\ age \in Nat

\* Whoever counts, counts at some web process.
CameIn == \A q \in Calls : CallAt(q, "new") \/ call[q].web \in Webs

\* The counter a call has its count from.
ByRedis(q) ==
  \/ CallAt(q, "waiting") /\ call[q].pipe \in {"expiring", "asking"}
  \/ CallAt(q, "served") \/ CallAt(q, "refused")
ByWeb(q, w) ==
  /\ call[q].web = w
  /\ CallAt(q, "served alone") \/ CallAt(q, "refused alone")

\* A counter is ahead of the counts it has given out.
Behind(q, b) ==
  /\ call[q].count > 0
  /\ call[q].number <= b.number
  /\ call[q].number = b.number /\ b.count > 0 => call[q].count <= b.count

Apart(p, q) == call[p].number = call[q].number => call[p].count # call[q].count

CountsByRedis ==
  /\ \A q \in Calls : ByRedis(q) => Behind(q, shared)
  /\ \A p, q \in Calls : ByRedis(p) /\ ByRedis(q) /\ p # q => Apart(p, q)

CountsByWeb ==
  /\ \A w \in Webs : \A q \in Calls : ByWeb(q, w) => Behind(q, apart[w])
  /\ \A w \in Webs : \A p, q \in Calls : ByWeb(p, w) /\ ByWeb(q, w) /\ p # q => Apart(p, q)

Verdicts ==
  \A q \in Calls : CallAt(q, "served") \/ CallAt(q, "served alone")
                     => call[q].count <= RateLimitMax

Clock ==
  /\ shared.ends = 0 => age = 0
  /\ shared.count = 0 => shared.ends = 0

RateInv ==
  RateTyped /\ CameIn /\ CountsByRedis /\ CountsByWeb /\ Verdicts /\ Clock /\ WindowEnds

LEMMA RateConstants ==
  RateLimitMax \in Nat \ {0} /\ WindowLength \in Nat \ {0}
BY RateAssumption

\* As many calls as have different counts within the limit are within it.
LEMMA CountsFit ==
  ASSUME NEW S \in SUBSET Calls, RateTyped,
         \A q \in S : call[q].count > 0 /\ call[q].count <= RateLimitMax,
         \A p, q \in S : p # q => call[p].count # call[q].count
  PROVE  Cardinality(S) <= RateLimitMax
<1> DEFINE f == [q \in S |-> call[q].count]
<1>1. ASSUME NEW q \in S PROVE call[q].count \in 1..RateLimitMax
  <2>1. q \in Calls /\ call[q] \in CallStates
    BY DEF RateTyped
  <2>2. call[q].count \in Nat
    BY <2>1 DEF CallStates
  <2>3. QED
    BY <2>2, RateConstants
<1>2. f \in Injection(S, 1..RateLimitMax)
  BY <1>1 DEF Injection, IsInjective
<1>3. /\ IsFiniteSet(1..RateLimitMax) /\ Cardinality(1..RateLimitMax) = RateLimitMax
  BY RateConstants, FS_Interval
<1> HIDE DEF f
<1>4. QED
  BY <1>2, <1>3, FS_Injection

\* The invariant has the property.
LEMMA InvLimits == RateInv => RateIsLimited
<1> SUFFICES ASSUME RateInv PROVE ServedWithinLimit
  BY DEF RateInv, RateIsLimited
<1>1. ASSUME NEW n \in 1..shared.number
      PROVE  Cardinality({q \in Calls : CallAt(q, "served") /\ call[q].number = n}) <= RateLimitMax
  <2> DEFINE S == {q \in Calls : CallAt(q, "served") /\ call[q].number = n}
  <2>1. \A q \in S : call[q].count > 0 /\ call[q].count <= RateLimitMax
    BY DEF RateInv, CountsByRedis, Verdicts, ByRedis, Behind
  <2>2. \A p, q \in S : p # q => call[p].count # call[q].count
    BY DEF RateInv, CountsByRedis, ByRedis, Apart
  <2>3. QED
    BY <2>1, <2>2, CountsFit DEF RateInv
<1>2. ASSUME NEW w \in Webs, NEW n \in 1..apart[w].number
      PROVE  Cardinality({q \in Calls : /\ CallAt(q, "served alone") /\ call[q].web = w
                                        /\ call[q].number = n}) <= RateLimitMax
  <2> DEFINE S == {q \in Calls : /\ CallAt(q, "served alone") /\ call[q].web = w
                                 /\ call[q].number = n}
  <2>1. \A q \in S : call[q].count > 0 /\ call[q].count <= RateLimitMax
    BY DEF RateInv, CountsByWeb, Verdicts, ByWeb, Behind
  <2>2. \A p, q \in S : p # q => call[p].count # call[q].count
    BY DEF RateInv, CountsByWeb, ByWeb, Apart
  <2>3. QED
    BY <2>1, <2>2, CountsFit DEF RateInv
<1>3. QED
  BY <1>1, <1>2 DEF ServedWithinLimit

LEMMA InitInv == RateInit => RateInv
<1> SUFFICES ASSUME RateInit PROVE RateInv
  OBVIOUS
<1>1. RateTyped
  BY RateConstants DEF RateInit, RateTyped, CallStates, Buckets, Bucket
<1>2. \A q \in Calls : call[q].stage = "new"
  BY DEF RateInit
<1>3. shared.count = 0 /\ shared.ends = 0 /\ age = 0
  BY DEF RateInit, Bucket
<1>4. CountsByRedis /\ CountsByWeb /\ Verdicts
  BY <1>2 DEF CountsByRedis, CountsByWeb, Verdicts, ByRedis, ByWeb, CallAt
<1>5. Clock /\ WindowEnds /\ CameIn
  BY <1>2, <1>3 DEF Clock, WindowEnds, CameIn, CallAt
<1>6. QED
  BY <1>1, <1>4, <1>5 DEF RateInv

-----------------------------------------------------------------------------
(***************************************************************************)
(* The steps of a call.                                                    *)
(***************************************************************************)
LEMMA Typing ==
  ASSUME RateInv, NEW q \in Calls
  PROVE  /\ call[q] \in CallStates /\ call \in [Calls -> CallStates]
         /\ shared \in Buckets /\ apart \in [Webs -> Buckets] /\ age \in Nat
         /\ call[q].count \in Nat /\ call[q].number \in Nat
         /\ shared.count \in Nat /\ shared.number \in Nat /\ shared.ends \in 0..WindowLength
BY DEF RateInv, RateTyped, CallStates, Buckets

\* A step that counts nobody, and may drop the key, keeps who is behind it.
LEMMA KeepsRedisCounts ==
  ASSUME RateInv,
         shared'.count \in {shared.count, 0}, shared'.number = shared.number,
         \A p \in Calls : ByRedis(p)' =>
           ByRedis(p) /\ call'[p].count = call[p].count /\ call'[p].number = call[p].number
  PROVE  CountsByRedis'
<1>1. ASSUME NEW p \in Calls, ByRedis(p)' PROVE Behind(p, shared)'
  <2>1. Behind(p, shared)
    BY <1>1 DEF RateInv, CountsByRedis
  <2>2. call'[p].count = call[p].count /\ call'[p].number = call[p].number
    BY <1>1
  <2>3. QED
    BY <2>1, <2>2 DEF Behind
<1>2. ASSUME NEW p \in Calls, NEW o \in Calls, ByRedis(p)', ByRedis(o)', p # o
      PROVE  Apart(p, o)'
  <2>1. ByRedis(p) /\ ByRedis(o)
    BY <1>2
  <2>2. Apart(p, o)
    BY <1>2, <2>1 DEF RateInv, CountsByRedis
  <2>3. /\ call'[p].count = call[p].count /\ call'[p].number = call[p].number
        /\ call'[o].count = call[o].count /\ call'[o].number = call[o].number
    BY <1>2
  <2>4. QED
    BY <2>2, <2>3 DEF Apart
<1>3. QED
  BY <1>1, <1>2 DEF CountsByRedis

\* The same of the buckets of the web processes.
LEMMA KeepsWebCounts ==
  ASSUME RateInv,
         \A w \in Webs : apart'[w].count = apart[w].count /\ apart'[w].number = apart[w].number,
         \A p \in Calls, w \in Webs : ByWeb(p, w)' =>
           ByWeb(p, w) /\ call'[p].count = call[p].count /\ call'[p].number = call[p].number
  PROVE  CountsByWeb'
<1>1. ASSUME NEW w \in Webs, NEW p \in Calls, ByWeb(p, w)' PROVE Behind(p, apart[w])'
  <2>1. Behind(p, apart[w])
    BY <1>1 DEF RateInv, CountsByWeb
  <2>2. call'[p].count = call[p].count /\ call'[p].number = call[p].number
    BY <1>1
  <2>3. apart'[w].count = apart[w].count /\ apart'[w].number = apart[w].number
    OBVIOUS
  <2>4. QED
    BY <2>1, <2>2, <2>3 DEF Behind
<1>2. ASSUME NEW w \in Webs, NEW p \in Calls, NEW o \in Calls,
             ByWeb(p, w)', ByWeb(o, w)', p # o
      PROVE  Apart(p, o)'
  <2>1. ByWeb(p, w) /\ ByWeb(o, w)
    BY <1>2
  <2>2. Apart(p, o)
    BY <1>2, <2>1 DEF RateInv, CountsByWeb
  <2>3. /\ call'[p].count = call[p].count /\ call'[p].number = call[p].number
        /\ call'[o].count = call[o].count /\ call'[o].number = call[o].number
    BY <1>2
  <2>4. QED
    BY <2>2, <2>3 DEF Apart
<1>3. QED
  BY <1>1, <1>2 DEF CountsByWeb

\* A call that is in no counter before the step or after it.
LEMMA EnterInv ==
  ASSUME RateInv, NEW q \in Calls, NEW w \in Webs, Enter(q, w)
  PROVE  RateInv'
<1> DEFINE entered == [call[q] EXCEPT !.web = w,
                         !.stage = IF rate.redis THEN "waiting" ELSE "alone",
                         !.pipe = IF rate.redis THEN "counting" ELSE "none"]
<1>1. /\ entered \in CallStates
      /\ entered.stage \in {"waiting", "alone"} /\ entered.web \in Webs
      /\ entered.pipe \in {"none", "counting"}
  BY Typing DEF CallStates
<1>2. /\ call' \in [Calls -> CallStates]
      /\ \A p \in Calls \ {q} : call'[p] = call[p]
      /\ call'[q].stage \in {"waiting", "alone"} /\ call'[q].web \in Webs
      /\ call'[q].pipe \in {"none", "counting"}
  <2>1. call' = [call EXCEPT ![q] = entered]
    BY DEF Enter
  <2> HIDE DEF entered
  <2>2. QED
    BY <1>1, <2>1, Typing
<1>3. /\ shared' = shared /\ apart' = apart /\ age' = age
      /\ RateTyped'
  BY <1>2, Typing DEF Enter, RateTyped
<1>6. \A p \in Calls : /\ ByRedis(p)' => p # q
                       /\ \A v \in Webs : ByWeb(p, v)' => p # q
  BY <1>2 DEF ByRedis, ByWeb, CallAt
<1>4. CountsByRedis' /\ CountsByWeb' /\ Verdicts'
  <2>1. CountsByRedis' /\ CountsByWeb'
    <3>1. \A p \in Calls : ByRedis(p)' => ByRedis(p) /\ call'[p] = call[p]
      BY <1>2, <1>6 DEF ByRedis, CallAt
    <3>2. \A p \in Calls, v \in Webs : ByWeb(p, v)' => ByWeb(p, v) /\ call'[p] = call[p]
      BY <1>2, <1>6 DEF ByWeb, CallAt
    <3>3. QED
      BY <1>3, <3>1, <3>2, KeepsRedisCounts, KeepsWebCounts
  <2>2. Verdicts'
    BY <1>2 DEF RateInv, Verdicts, CallAt
  <2>3. QED
    BY <2>1, <2>2
<1>5. Clock' /\ WindowEnds' /\ CameIn'
  BY <1>2, <1>3 DEF RateInv, Clock, WindowEnds, CameIn, CallAt, InPipe
<1>7. QED
  BY <1>3, <1>4, <1>5 DEF RateInv

LEMMA IncrementInv ==
  ASSUME RateInv, NEW q \in Calls, Increment(q)
  PROVE  RateInv'
<1>1. /\ shared' \in Buckets /\ shared'.ends = shared.ends
      /\ shared'.count = shared.count + 1
      /\ shared'.number = IF shared.count = 0 THEN shared.number + 1 ELSE shared.number
  <2> DEFINE number == IF shared.count = 0 THEN shared.number + 1 ELSE shared.number
  <2>1. shared' = [shared EXCEPT !.count = shared.count + 1, !.number = number]
    BY DEF Increment, OneMore
  <2>2. number \in Nat /\ shared.count + 1 \in Nat /\ shared \in Buckets
    BY Typing
  <2> HIDE DEF number
  <2>3. /\ shared' \in Buckets /\ shared'.ends = shared.ends
        /\ shared'.count = shared.count + 1 /\ shared'.number = number
    BY <2>1, <2>2 DEF Buckets
  <2>4. QED
    BY <2>3 DEF number
<1>2. /\ \A p \in Calls \ {q} : call'[p] = call[p]
      /\ call'[q].stage = call[q].stage /\ call'[q].pipe = "expiring"
      /\ call'[q].web = call[q].web
      /\ call'[q].count = IF CallAt(q, "waiting") THEN shared'.count ELSE call[q].count
      /\ call'[q].number = IF CallAt(q, "waiting") THEN shared'.number ELSE call[q].number
      /\ call'[q] \in CallStates /\ call' \in [Calls -> CallStates]
  <2> DEFINE counted == IF CallAt(q, "waiting")
                        THEN [call[q] EXCEPT !.count = shared'.count, !.number = shared'.number]
                        ELSE call[q]
             next == [counted EXCEPT !.pipe = "expiring"]
  <2>1. call' = [call EXCEPT ![q] = next]
    BY DEF Increment, TakesCount
  <2>2. shared'.count \in Nat /\ shared'.number \in Nat
    BY <1>1 DEF Buckets
  <2>3. /\ counted \in CallStates
        /\ counted.stage = call[q].stage /\ counted.web = call[q].web
        /\ counted.count = IF CallAt(q, "waiting") THEN shared'.count ELSE call[q].count
        /\ counted.number = IF CallAt(q, "waiting") THEN shared'.number ELSE call[q].number
    BY <2>2, Typing DEF CallStates
  <2> HIDE DEF counted
  <2>4. /\ next \in CallStates /\ next.pipe = "expiring"
        /\ next.stage = counted.stage /\ next.web = counted.web
        /\ next.count = counted.count /\ next.number = counted.number
    BY <2>3 DEF CallStates
  <2> HIDE DEF next
  <2>5. QED
    BY <2>1, <2>3, <2>4, Typing
<1>3. apart' = apart /\ age' = age
  BY DEF Increment
<1>4. RateTyped'
  BY <1>1, <1>2, <1>3, Typing DEF RateTyped
<1>5. ASSUME NEW p \in Calls, ByRedis(p), p # q \/ ~CallAt(q, "waiting")
      PROVE  /\ Behind(p, shared)
             /\ call[p].number <= shared.number /\ call[p].count > 0
             /\ call[p].number = shared.number /\ shared.count > 0
                  => call[p].count <= shared.count
  BY <1>5 DEF RateInv, CountsByRedis, Behind
<1>6. ASSUME NEW p \in Calls, ByRedis(p)'
      PROVE  \/ p = q /\ CallAt(q, "waiting")
             \/ ByRedis(p) /\ (p # q \/ ~CallAt(q, "waiting"))
  <2>1. CASE p # q
    <3>1. call'[p] = call[p]
      BY <1>2, <2>1
    <3>2. QED
      BY <1>6, <2>1, <3>1 DEF ByRedis, CallAt
  <2>2. CASE p = q
    BY <1>2, <1>6, <2>2 DEF ByRedis, CallAt
  <2>3. QED
    BY <2>1, <2>2
<1>7. ASSUME NEW p \in Calls, ByRedis(p)' PROVE Behind(p, shared)'
  <2>1. CASE p = q /\ CallAt(q, "waiting")
    BY <1>1, <1>2, <2>1, Typing DEF Behind
  <2>2. CASE ByRedis(p) /\ (p # q \/ ~CallAt(q, "waiting"))
    <3>1. call'[p].count = call[p].count /\ call'[p].number = call[p].number
      BY <1>2, <2>2
    <3>2. call[p].count \in Nat /\ call[p].number \in Nat
      BY Typing
    <3>3. QED
      BY <1>1, <1>5, <2>2, <3>1, <3>2, Typing DEF Behind
  <2>3. QED
    BY <1>6, <1>7, <2>1, <2>2
<1>8. ASSUME NEW p \in Calls, NEW r \in Calls, ByRedis(p)', ByRedis(r)', p # r
      PROVE  Apart(p, r)'
  <2>1. \A o \in {p, r} : call[o].count \in Nat /\ call[o].number \in Nat
    BY Typing
  <2>2. CASE p = q /\ CallAt(q, "waiting")
    <3>1. call'[r].count = call[r].count /\ call'[r].number = call[r].number
      BY <1>2, <1>8, <2>2
    <3>2. ByRedis(r)
      BY <1>6, <1>8, <2>2
    <3>3. QED
      BY <1>1, <1>2, <1>5, <1>8, <2>1, <2>2, <3>1, <3>2, Typing DEF Apart
  <2>3. CASE r = q /\ CallAt(q, "waiting")
    <3>1. call'[p].count = call[p].count /\ call'[p].number = call[p].number
      BY <1>2, <1>8, <2>3
    <3>2. ByRedis(p)
      BY <1>6, <1>8, <2>3
    <3>3. QED
      BY <1>1, <1>2, <1>5, <1>8, <2>1, <2>3, <3>1, <3>2, Typing DEF Apart
  <2>4. CASE ~(p = q /\ CallAt(q, "waiting")) /\ ~(r = q /\ CallAt(q, "waiting"))
    <3>1. ByRedis(p) /\ ByRedis(r)
      BY <1>6, <1>8, <2>4
    <3>2. Apart(p, r)
      BY <1>8, <3>1 DEF RateInv, CountsByRedis
    <3>3. QED
      BY <1>2, <2>4, <3>2 DEF Apart
  <2>5. QED
    BY <2>2, <2>3, <2>4
<1>9. CountsByRedis'
  BY <1>7, <1>8 DEF CountsByRedis
<1>10. CountsByWeb' /\ Verdicts'
  <2>1. ASSUME NEW p \in Calls, call'[p].stage \in {"served", "served alone", "refused alone"}
        PROVE  /\ call[p].stage = call'[p].stage /\ call[p].web = call'[p].web
               /\ call[p].count = call'[p].count /\ call[p].number = call'[p].number
    <3>1. CASE p # q
      BY <1>2, <3>1
    <3>2. CASE p = q
      BY <1>2, <2>1, <3>2 DEF CallAt
    <3>3. QED
      BY <3>1, <3>2
  <2>2. \A p \in Calls, w \in Webs : ByWeb(p, w)' =>
          ByWeb(p, w) /\ call'[p].count = call[p].count /\ call'[p].number = call[p].number
    BY <2>1 DEF ByWeb, CallAt
  <2>3. CountsByWeb'
    BY <1>3, <2>2, KeepsWebCounts
  <2>4. Verdicts'
    BY <2>1 DEF RateInv, Verdicts, CallAt
  <2>5. QED
    BY <2>3, <2>4
<1>11. Clock' /\ WindowEnds'
  <2>1. Clock' /\ (shared'.ends > 0 => age' + shared'.ends = WindowLength)
    BY <1>1, <1>3, Typing DEF RateInv, Clock, WindowEnds
  <2>2. ASSUME NEW p \in Calls, shared'.count > 0, call'[p].number = shared'.number,
               CallAt(p, "waiting")' => InPipe(p, "asking")',
               call'[p].stage \in {"waiting", "served", "refused"}
        PROVE  shared'.ends > 0
    <3>1. /\ p # q \/ ~CallAt(q, "waiting")
          /\ call[p].stage \in {"waiting", "served", "refused"}
          /\ CallAt(p, "waiting") => InPipe(p, "asking")
          /\ call'[p].number = call[p].number
      BY <1>2, <2>2 DEF CallAt, InPipe
    <3>2. ByRedis(p)
      BY <3>1 DEF ByRedis, CallAt, InPipe
    <3>3. call[p].number <= shared.number
      BY <1>5, <3>1, <3>2
    <3>4. call[p].number \in Nat
      BY Typing
    <3>5. shared.count > 0 /\ call[p].number = shared.number
      BY <1>1, <2>2, <3>1, <3>3, <3>4, Typing
    <3>6. QED
      BY <1>1, <3>1, <3>5 DEF RateInv, WindowEnds
  <2>3. QED
    BY <2>1, <2>2 DEF WindowEnds
<1>12. CameIn'
  BY <1>2 DEF RateInv, CameIn, CallAt
<1>13. QED
  BY <1>4, <1>9, <1>10, <1>11, <1>12 DEF RateInv

LEMMA ExpireInv ==
  ASSUME RateInv, NEW q \in Calls, Expire(q)
  PROVE  RateInv'
<1>1. /\ shared' \in Buckets /\ shared'.count = shared.count /\ shared'.number = shared.number
      /\ shared'.ends = IF shared.count > 0 /\ shared.ends = 0
                        THEN WindowLength ELSE shared.ends
  BY Typing, RateConstants DEF Expire, Buckets
<1>2. /\ \A p \in Calls \ {q} : call'[p] = call[p]
      /\ call[q].pipe = "expiring" /\ call'[q].pipe = "asking"
      /\ call'[q].stage = call[q].stage /\ call'[q].web = call[q].web
      /\ call'[q].count = call[q].count /\ call'[q].number = call[q].number
      /\ call' \in [Calls -> CallStates]
  BY Typing DEF Expire, InPipe, CallStates
<1>3. apart' = apart /\ age' = age
  BY DEF Expire
<1>4. RateTyped'
  BY <1>1, <1>2, <1>3, Typing DEF RateTyped
<1>5. \A p \in Calls : ByRedis(p)' => ByRedis(p)
  BY <1>2 DEF ByRedis, CallAt
<1>6. \A p \in Calls : call'[p].count = call[p].count /\ call'[p].number = call[p].number
  BY <1>2
<1>7. CountsByRedis'
  BY <1>1, <1>5, <1>6, KeepsRedisCounts
<1>8. CountsByWeb' /\ Verdicts'
  <2>1. \A p \in Calls, w \in Webs : ByWeb(p, w)' => ByWeb(p, w)
    BY <1>2 DEF ByWeb, CallAt
  <2>2. CountsByWeb'
    BY <1>3, <1>6, <2>1, KeepsWebCounts
  <2>3. Verdicts'
    BY <1>2 DEF RateInv, Verdicts, CallAt
  <2>4. QED
    BY <2>2, <2>3
<1>9. Clock' /\ (shared'.ends > 0 => age' + shared'.ends = WindowLength)
  BY <1>1, <1>3, Typing, RateConstants DEF RateInv, Clock, WindowEnds
<1>10. shared'.count > 0 => shared'.ends > 0
  BY <1>1, Typing, RateConstants
<1>11. WindowEnds'
  BY <1>9, <1>10 DEF WindowEnds
<1>12. CameIn'
  BY <1>2 DEF RateInv, CameIn, CallAt
<1>13. QED
  BY <1>4, <1>7, <1>8, <1>9, <1>11, <1>12 DEF RateInv

LEMMA AskTimeInv ==
  ASSUME RateInv, NEW q \in Calls, AskTime(q)
  PROVE  RateInv'
<1>1. /\ \A p \in Calls \ {q} : call'[p] = call[p]
      /\ InPipe(q, "asking") /\ call'[q].pipe = "none"
      /\ call'[q].stage = IF CallAt(q, "waiting") THEN Judged(call[q]) ELSE call[q].stage
      /\ call'[q].web = call[q].web
      /\ call'[q].count = call[q].count /\ call'[q].number = call[q].number
      /\ call' \in [Calls -> CallStates]
  <2> DEFINE verdict == IF CallAt(q, "waiting") THEN Judged(call[q]) ELSE call[q].stage
             told == [call[q] EXCEPT !.pipe = "none", !.stage = verdict]
  <2>1. call' = [call EXCEPT ![q] = told]
    BY DEF AskTime, CallAt
  <2>2. /\ told \in CallStates
        /\ told.pipe = "none" /\ told.stage = verdict /\ told.web = call[q].web
        /\ told.count = call[q].count /\ told.number = call[q].number
    <3>1. verdict \in {"new", "waiting", "alone", "stuck", "served", "refused",
                       "served alone", "refused alone"}
      BY Typing DEF CallStates, Judged
    <3> HIDE DEF verdict
    <3>2. QED
      BY <3>1, Typing DEF CallStates
  <2> HIDE DEF told
  <2>3. InPipe(q, "asking")
    BY DEF AskTime
  <2>4. QED
    BY <2>1, <2>2, <2>3, Typing
<1>2. shared' = shared /\ apart' = apart /\ age' = age
  BY DEF AskTime
<1>3. RateTyped'
  BY <1>1, <1>2, Typing DEF RateTyped
<1>4. \A p \in Calls : call'[p].count = call[p].count /\ call'[p].number = call[p].number
  BY <1>1
<1>5. \A p \in Calls : ByRedis(p)' => ByRedis(p)
  BY <1>1 DEF ByRedis, CallAt, InPipe
<1>6. CountsByRedis'
  BY <1>2, <1>4, <1>5, KeepsRedisCounts
<1>7. \A p \in Calls, w \in Webs : ByWeb(p, w)' => ByWeb(p, w)
  BY <1>1 DEF ByWeb, CallAt, Judged
<1>8. CountsByWeb'
  BY <1>2, <1>4, <1>7, KeepsWebCounts
<1>9. Verdicts'
  <2>1. CallAt(q, "waiting") /\ Judged(call[q]) # "refused" => call[q].count <= RateLimitMax
    BY Typing, RateConstants DEF Judged
  <2>2. QED
    BY <1>1, <2>1 DEF RateInv, Verdicts, CallAt, Judged
<1>10. Clock' /\ WindowEnds' /\ CameIn'
  BY <1>1, <1>2 DEF RateInv, Clock, WindowEnds, CameIn, CallAt, InPipe, Judged
<1>11. QED
  BY <1>3, <1>6, <1>8, <1>9, <1>10 DEF RateInv

\* A call that leaves its pipeline has no count of Redis any longer.
LEMMA LeavesInv ==
  ASSUME RateInv, NEW q \in Calls, RedisFails(q) \/ RedisHangsUp(q)
  PROVE  RateInv'
<1>1. /\ \A p \in Calls \ {q} : call'[p] = call[p]
      /\ call'[q].stage \in {"alone", "stuck"} /\ CallAt(q, "waiting")
      /\ call'[q].web = call[q].web
      /\ call' \in [Calls -> CallStates]
  <2>1. PICK rest \in {"none", call[q].pipe}, end \in {"alone", "stuck"} :
          call' = [call EXCEPT ![q] = [call[q] EXCEPT !.stage = end, !.pipe = rest]]
    BY DEF RedisFails, RedisHangsUp
  <2> DEFINE left == [call[q] EXCEPT !.stage = end, !.pipe = rest]
  <2>2. left \in CallStates /\ left.stage = end /\ left.web = call[q].web
    BY Typing DEF CallStates
  <2>3. call' = [call EXCEPT ![q] = left]
    BY <2>1
  <2> HIDE DEF left
  <2>4. CallAt(q, "waiting")
    BY DEF RedisFails, RedisHangsUp
  <2>5. QED
    BY <2>2, <2>3, <2>4, Typing
<1>2. shared' = shared /\ apart' = apart /\ age' = age
  BY DEF RedisFails, RedisHangsUp
<1>3. RateTyped'
  BY <1>1, <1>2, Typing DEF RateTyped
<1>4. CountsByRedis' /\ CountsByWeb' /\ Verdicts'
  <2>1. \A p \in Calls : ByRedis(p)' => ByRedis(p) /\ call'[p] = call[p]
    BY <1>1 DEF ByRedis, CallAt
  <2>2. \A p \in Calls, w \in Webs : ByWeb(p, w)' => ByWeb(p, w) /\ call'[p] = call[p]
    BY <1>1 DEF ByWeb, CallAt
  <2>3. CountsByRedis' /\ CountsByWeb'
    BY <1>2, <2>1, <2>2, KeepsRedisCounts, KeepsWebCounts
  <2>4. Verdicts'
    BY <1>1 DEF RateInv, Verdicts, CallAt
  <2>5. QED
    BY <2>3, <2>4
<1>5. Clock' /\ WindowEnds' /\ CameIn'
  BY <1>1, <1>2 DEF RateInv, Clock, WindowEnds, CameIn, CallAt, InPipe
<1>6. QED
  BY <1>3, <1>4, <1>5 DEF RateInv

\* A call that has to be counted by its web process: the first of a bucket, or
\* one more in the bucket there is.
LEMMA CountAloneInv ==
  ASSUME RateInv, NEW q \in Calls, CountAlone(q)
  PROVE  RateInv'
<1> DEFINE w == call[q].web
           old == IF apart[w].ends = 0 THEN Empty(apart[w]) ELSE apart[w]
           b == IF apart[w].ends = 0
                THEN [OneMore(Empty(apart[w])) EXCEPT !.ends = WindowLength]
                ELSE OneMore(apart[w])
           said == IF Judged(TakesCount(call[q], b)) = "served"
                   THEN "served alone" ELSE "refused alone"
<1>1. w \in Webs /\ CallAt(q, "alone")
  BY Typing DEF CountAlone, RateInv, CameIn, CallAt
<1>2. apart[w] \in Buckets
  BY <1>1, Typing
<1>3. /\ old.count \in Nat /\ old.number = apart[w].number /\ old.number \in Nat
      /\ old.count > 0 => old.count = apart[w].count
      /\ b \in Buckets /\ b.count = old.count + 1
      /\ b.number = IF old.count = 0 THEN old.number + 1 ELSE old.number
  <2>1. CASE apart[w].ends = 0
    <3>1. b = [count |-> 1, ends |-> WindowLength, number |-> apart[w].number + 1]
      <4>1. Empty(apart[w]) = [count |-> 0, ends |-> 0, number |-> apart[w].number]
        BY DEF Empty, Bucket
      <4>2. OneMore(Empty(apart[w])) =
              [count |-> 1, ends |-> 0, number |-> apart[w].number + 1]
        <5> DEFINE none == Empty(apart[w])
        <5>1. none = [count |-> 0, ends |-> 0, number |-> apart[w].number]
          BY <4>1
        <5>2. OneMore(none) = [none EXCEPT !.count = none.count + 1,
                !.number = IF none.count = 0 THEN none.number + 1 ELSE none.number]
          BY DEF OneMore
        <5> HIDE DEF none
        <5>3. OneMore(none) = [none EXCEPT !.count = 1, !.number = apart[w].number + 1]
          BY <5>1, <5>2
        <5>4. OneMore(none) = [count |-> 1, ends |-> 0, number |-> apart[w].number + 1]
          BY <5>1, <5>3
        <5>5. QED
          BY <5>4 DEF none
      <4>3. QED
        BY <2>1, <4>2
    <3>2. old = [count |-> 0, ends |-> 0, number |-> apart[w].number]
      BY <2>1 DEF Empty, Bucket
    <3>3. apart[w].number \in Nat /\ WindowLength \in 0..WindowLength
      BY <1>2, RateConstants DEF Buckets
    <3> HIDE DEF b, old
    <3>4. QED
      BY <3>1, <3>2, <3>3 DEF Buckets
  <2>2. CASE apart[w].ends # 0
    <3>1. /\ b = [apart[w] EXCEPT !.count = apart[w].count + 1,
                   !.number = IF apart[w].count = 0
                              THEN apart[w].number + 1 ELSE apart[w].number]
          /\ old = apart[w]
      BY <2>2 DEF OneMore
    <3> DEFINE number == IF apart[w].count = 0
                         THEN apart[w].number + 1 ELSE apart[w].number
    <3>2. number \in Nat /\ apart[w].count + 1 \in Nat /\ apart[w].count \in Nat
          /\ apart[w].number \in Nat
      BY <1>2 DEF Buckets
    <3>3. b = [apart[w] EXCEPT !.count = apart[w].count + 1, !.number = number]
      BY <3>1
    <3> HIDE DEF b, old, number
    <3>4. b \in Buckets /\ b.count = apart[w].count + 1 /\ b.number = number
      BY <1>2, <3>2, <3>3 DEF Buckets
    <3>5. QED
      BY <3>1, <3>2, <3>4 DEF number
  <2>3. QED
    BY <2>1, <2>2
<1>4. apart' = [apart EXCEPT ![w] = b]
  BY DEF CountAlone
<1>5. /\ call' = [call EXCEPT ![q] = [TakesCount(call[q], b) EXCEPT !.stage = said]]
      /\ shared' = shared /\ age' = age
  BY DEF CountAlone
<1>6. Judged(TakesCount(call[q], b)) = "served" => b.count <= RateLimitMax
  <2> HIDE DEF b
  <2>1. TakesCount(call[q], b).count = b.count
    BY Typing DEF TakesCount, CallStates
  <2>2. b.count \in Nat
    BY <1>3 DEF Buckets
  <2>3. QED
    BY <2>1, <2>2, RateConstants DEF Judged
<1>7. /\ said \in {"served alone", "refused alone"}
      /\ said = "served alone" => b.count <= RateLimitMax
  BY <1>6
<1> HIDE DEF b, old, said
<1>8. /\ \A p \in Calls \ {q} : call'[p] = call[p]
      /\ call'[q].stage = said /\ call'[q].web = w
      /\ call'[q].count = b.count /\ call'[q].number = b.number
      /\ call' \in [Calls -> CallStates]
  <2> DEFINE taken == [call[q] EXCEPT !.count = b.count, !.number = b.number, !.stage = said]
  <2>1. call' = [call EXCEPT ![q] = taken]
    BY <1>5, Typing DEF TakesCount, CallStates
  <2>2. /\ taken \in CallStates /\ taken.stage = said /\ taken.web = w
        /\ taken.count = b.count /\ taken.number = b.number
    BY <1>3, <1>7, Typing DEF CallStates, Buckets
  <2> HIDE DEF taken
  <2>3. QED
    BY <2>1, <2>2, Typing
<1>9. RateTyped' /\ CameIn'
  <2>1. apart' \in [Webs -> Buckets]
    BY <1>1, <1>3, <1>4, Typing
  <2>2. CameIn'
    BY <1>1, <1>7, <1>8 DEF RateInv, CameIn, CallAt
  <2>3. QED
    BY <1>5, <1>8, <2>1, <2>2, Typing DEF RateTyped
<1>10. CountsByRedis'
  <2>1. \A p \in Calls : ByRedis(p)' => ByRedis(p) /\ call'[p] = call[p]
    BY <1>7, <1>8 DEF ByRedis, CallAt
  <2>2. QED
    BY <1>5, <2>1, KeepsRedisCounts
<1>11. \A p \in Calls, v \in Webs : ByWeb(p, v)' =>
         \/ p = q /\ v = w
         \/ p # q /\ ByWeb(p, v) /\ call'[p] = call[p]
  <2>1. ASSUME NEW p \in Calls, NEW v \in Webs, ByWeb(p, v)', p # q
        PROVE  ByWeb(p, v) /\ call'[p] = call[p]
    BY <1>8, <2>1 DEF ByWeb, CallAt
  <2>2. ASSUME NEW v \in Webs, ByWeb(q, v)' PROVE v = w
    BY <1>8, <2>2 DEF ByWeb
  <2>3. QED
    BY <2>1, <2>2
<1>12. ASSUME NEW p \in Calls, ByWeb(p, w), p # q
       PROVE  /\ call[p].count \in Nat /\ call[p].number \in Nat /\ call[p].count > 0
              /\ call[p].number <= old.number
              /\ call[p].number = old.number /\ old.count > 0 => call[p].count <= old.count
  <2>1. Behind(p, apart[w])
    BY <1>1, <1>12 DEF RateInv, CountsByWeb
  <2>2. call[p].count \in Nat /\ call[p].number \in Nat
    BY Typing
  <2>3. QED
    BY <1>3, <2>1, <2>2 DEF Behind
<1>13. CountsByWeb'
  <2>1. ASSUME NEW v \in Webs, NEW p \in Calls, ByWeb(p, v)'
        PROVE  Behind(p, apart[v])'
    <3>1. CASE v # w
      <4>1. apart'[v] = apart[v] /\ call'[p] = call[p] /\ ByWeb(p, v)
        BY <1>4, <1>11, <2>1, <3>1, Typing
      <4>2. Behind(p, apart[v])
        BY <4>1 DEF RateInv, CountsByWeb
      <4>3. QED
        BY <4>1, <4>2 DEF Behind
    <3>2. CASE v = w /\ p = q
      <4>1. apart'[v] = b
        BY <1>1, <1>4, <3>2, Typing
      <4>2. QED
        BY <1>3, <1>8, <3>2, <4>1 DEF Behind
    <3>3. CASE v = w /\ p # q
      <4>1. apart'[v] = b /\ call'[p] = call[p] /\ ByWeb(p, w)
        BY <1>1, <1>4, <1>11, <2>1, <3>3, Typing
      <4>2. QED
        BY <1>3, <1>12, <3>3, <4>1 DEF Behind
    <3>4. QED
      BY <3>1, <3>2, <3>3
  <2>2. ASSUME NEW v \in Webs, NEW p \in Calls, NEW o \in Calls,
               ByWeb(p, v)', ByWeb(o, v)', p # o
        PROVE  Apart(p, o)'
    <3>1. CASE p # q /\ o # q
      <4>1. call'[p] = call[p] /\ call'[o] = call[o] /\ ByWeb(p, v) /\ ByWeb(o, v)
        BY <1>11, <2>2, <3>1
      <4>2. Apart(p, o)
        BY <2>2, <4>1 DEF RateInv, CountsByWeb
      <4>3. QED
        BY <4>1, <4>2 DEF Apart
    <3>2. CASE p = q
      <4>1. o # q /\ call'[o] = call[o] /\ ByWeb(o, w)
        BY <1>11, <2>2, <3>2
      <4>2. QED
        BY <1>3, <1>8, <1>12, <3>2, <4>1 DEF Apart
    <3>3. CASE o = q
      <4>1. p # q /\ call'[p] = call[p] /\ ByWeb(p, w)
        BY <1>11, <2>2, <3>3
      <4>2. QED
        BY <1>3, <1>8, <1>12, <3>3, <4>1 DEF Apart
    <3>4. QED
      BY <3>1, <3>2, <3>3
  <2>3. QED
    BY <2>1, <2>2 DEF CountsByWeb
<1>14. Verdicts'
  BY <1>7, <1>8 DEF RateInv, Verdicts, CallAt
<1>15. Clock' /\ WindowEnds'
  BY <1>5, <1>7, <1>8 DEF RateInv, Clock, WindowEnds, CallAt, InPipe
<1>16. QED
  BY <1>9, <1>10, <1>13, <1>14, <1>15 DEF RateInv

LEMMA TimePassesInv ==
  ASSUME RateInv, TimePasses
  PROVE  RateInv'
<1>1. /\ call' = call
      /\ shared' = IF shared.ends = 1 THEN Empty(shared) ELSE Later(shared)
      /\ age' = IF shared'.ends = 0 THEN 0 ELSE age + 1
      /\ apart' = [w \in Webs |-> Later(apart[w])]
      /\ \A q \in Calls : ~CallAt(q, "waiting")
  BY DEF TimePasses
<1>2. /\ shared \in Buckets /\ apart \in [Webs -> Buckets] /\ age \in Nat
      /\ call \in [Calls -> CallStates]
  BY DEF RateInv, RateTyped
<1>3. ASSUME NEW o \in Buckets
      PROVE  /\ Later(o) \in Buckets /\ Later(o).count = o.count /\ Later(o).number = o.number
             /\ Later(o).ends = IF o.ends = 0 THEN 0 ELSE o.ends - 1
  BY RateConstants DEF Later, Buckets
<1>4. /\ shared' \in Buckets /\ shared'.number = shared.number
      /\ shared'.ends = IF shared.ends = 0 THEN 0 ELSE shared.ends - 1
      /\ shared'.count = IF shared.ends = 1 THEN 0 ELSE shared.count
  <2>1. CASE shared.ends = 1
    BY <1>1, <1>2, <2>1, RateConstants DEF Empty, Bucket, Buckets
  <2>2. CASE shared.ends # 1
    BY <1>1, <1>2, <1>3, <2>2
  <2>3. QED
    BY <2>1, <2>2
<1>5. /\ apart' \in [Webs -> Buckets]
      /\ \A w \in Webs : apart'[w].count = apart[w].count /\ apart'[w].number = apart[w].number
  BY <1>1, <1>2, <1>3
<1>6. shared.ends \in Nat /\ shared.count \in Nat /\ shared'.ends \in Nat
  BY <1>2, <1>4 DEF Buckets
<1>7. RateTyped' /\ CameIn' /\ Verdicts'
  <2>1. RateTyped'
    <3>1. age' \in Nat
      BY <1>1, <1>2
    <3>2. QED
      BY <1>1, <1>2, <1>4, <1>5, <3>1 DEF RateTyped
  <2>2. CameIn' /\ Verdicts'
    BY <1>1 DEF RateInv, CameIn, Verdicts, CallAt
  <2>3. QED
    BY <2>1, <2>2
<1>8. CountsByRedis'
  <2>1. \A q \in Calls : ByRedis(q)' => ByRedis(q)
    BY <1>1 DEF ByRedis, CallAt
  <2>2. shared'.count \in {shared.count, 0}
    BY <1>4
  <2>3. QED
    BY <1>1, <1>4, <2>1, <2>2, KeepsRedisCounts
<1>9. CountsByWeb'
  <2>1. \A q \in Calls, w \in Webs : ByWeb(q, w)' => ByWeb(q, w)
    BY <1>1 DEF ByWeb, CallAt
  <2>2. QED
    BY <1>1, <1>5, <2>1, KeepsWebCounts
<1>10. Clock' /\ WindowEnds'
  <2>1. Clock' /\ (shared'.ends > 0 => age' + shared'.ends = WindowLength)
    BY <1>1, <1>2, <1>4, <1>6 DEF RateInv, Clock, WindowEnds
  <2>2. ASSUME NEW q \in Calls, shared'.count > 0, call[q].number = shared'.number,
               call[q].stage \in {"waiting", "served", "refused"}
        PROVE  shared'.ends > 0
    <3>1. shared.ends # 1 /\ shared.count > 0 /\ call[q].number = shared.number
      BY <1>4, <2>2
    <3>2. shared.ends > 0
      BY <1>1, <2>2, <3>1 DEF RateInv, WindowEnds
    <3>3. QED
      BY <1>4, <1>6, <3>1, <3>2
  <2>3. QED
    BY <1>1, <2>1, <2>2 DEF WindowEnds
<1>11. QED
  BY <1>7, <1>8, <1>9, <1>10 DEF RateInv

-----------------------------------------------------------------------------
LEMMA RateStep == RateInv /\ [RateNext]_rateVars => RateInv'
<1> SUFFICES ASSUME RateInv, [RateNext]_rateVars PROVE RateInv'
  OBVIOUS
<1>1. ASSUME NEW q \in Calls, NEW w \in Webs, Enter(q, w) PROVE RateInv'
  BY <1>1, EnterInv
<1>2. ASSUME NEW q \in Calls, Increment(q) PROVE RateInv'
  BY <1>2, IncrementInv
<1>3. ASSUME NEW q \in Calls, Expire(q) PROVE RateInv'
  BY <1>3, ExpireInv
<1>4. ASSUME NEW q \in Calls, AskTime(q) PROVE RateInv'
  BY <1>4, AskTimeInv
<1>5. ASSUME NEW q \in Calls, RedisFails(q) \/ RedisHangsUp(q) PROVE RateInv'
  BY <1>5, LeavesInv
<1>6. ASSUME NEW q \in Calls, CountAlone(q) PROVE RateInv'
  BY <1>6, CountAloneInv
<1>7. ASSUME TimePasses PROVE RateInv'
  BY <1>7, TimePassesInv
<1>8. ASSUME UNCHANGED rateVars PROVE RateInv'
  BY <1>8 DEF rateVars, RateInv, RateTyped, CameIn, CountsByRedis, CountsByWeb, Verdicts,
       Clock, WindowEnds, ByRedis, ByWeb, Behind, Apart, CallAt, InPipe
<1>9. QED
  BY <1>1, <1>2, <1>3, <1>4, <1>5, <1>6, <1>7, <1>8 DEF RateNext

\* assertRateLimit never serves more calls of one counter than the limit, and
\* a key that has come through a pipeline ends within its window, whatever
\* fails, hangs up or comes late.
THEOREM CallsAreLimited == RateSpec => []RateIsLimited
<1>1. RateSpec => []RateInv
  BY InitInv, RateStep, PTL DEF RateSpec
<1>2. QED
  BY <1>1, InvLimits, PTL

\* A call whose INCR is behind it, or will never come.
Through == {q \in Calls : ~CallAt(q, "new") /\ ~InPipe(q, "counting")}

\* The key counts no more calls than are through; a call that waits has
\* something to wait for, and one that has not come has nothing in the pipeline.
Waiting ==
  /\ shared.count <= Cardinality(Through)
  /\ \A q \in Calls :
       /\ CallAt(q, "waiting") => call[q].pipe # "none"
       /\ CallAt(q, "new") => call[q].pipe = "none"

\* Who is through stays so.
LEMMA ThroughGrows ==
  ASSUME IsFiniteSet(Calls), RateInv, Waiting, Through \subseteq Through',
         shared'.count \in {shared.count, 0}
  PROVE  shared'.count <= Cardinality(Through')
<1>1. IsFiniteSet(Through') /\ Cardinality(Through) <= Cardinality(Through')
  BY FS_Subset DEF Through
<1>2. Cardinality(Through) \in Nat /\ Cardinality(Through') \in Nat
  BY <1>1, FS_Subset, FS_CardinalityType
<1>3. shared.count \in Nat
  BY DEF RateInv, RateTyped, Buckets
<1> QED  BY <1>1, <1>2, <1>3 DEF Waiting

\* A step of one call that does not reach Redis.
LEMMA CallStepWaits ==
  ASSUME IsFiniteSet(Calls), RateInv, Waiting, NEW q \in Calls,
         \A p \in Calls \ {q} : call'[p] = call[p],
         shared'.count \in {shared.count, 0},
         call'[q].stage # "new", call'[q].stage = "waiting" => call'[q].pipe # "none",
         call[q].stage = "new" \/ call'[q].pipe \in {call[q].pipe, "expiring", "asking", "none"}
  PROVE  Waiting'
<1>1. Through \subseteq Through'
  BY DEF Through, CallAt, InPipe
<1>2. shared'.count <= Cardinality(Through')
  BY <1>1, ThroughGrows
<1> QED  BY <1>2 DEF Waiting, CallAt

\* INCR counts one call, which is then through.
LEMMA IncrementWaits ==
  ASSUME IsFiniteSet(Calls), RateInv, Waiting, NEW q \in Calls, Increment(q)
  PROVE  Waiting'
<1>1. /\ call \in [Calls -> CallStates] /\ shared \in Buckets
  BY DEF RateInv, RateTyped
<1>2. shared'.count = shared.count + 1
  BY <1>1 DEF Increment, OneMore, Buckets
<1>3. /\ \A p \in Calls \ {q} : call'[p] = call[p]
      /\ call'[q].stage = call[q].stage /\ call'[q].pipe = "expiring"
  BY <1>1 DEF Increment, TakesCount, CallStates
<1>4. call[q].pipe = "counting" /\ call[q].stage # "new"
  BY DEF Increment, InPipe, Waiting, CallAt
<1>5. q \notin Through /\ Through' = Through \cup {q}
  BY <1>3, <1>4 DEF Through, CallAt, InPipe
<1>6. IsFiniteSet(Through) /\ Cardinality(Through') = Cardinality(Through) + 1
  BY <1>5, FS_Subset, FS_AddElement DEF Through
<1>7. Cardinality(Through) \in Nat /\ shared.count \in Nat
  BY <1>1, <1>6, FS_CardinalityType DEF Buckets
<1> QED  BY <1>2, <1>3, <1>4, <1>6, <1>7 DEF Waiting, CallAt

LEMMA WaitingStays ==
  ASSUME IsFiniteSet(Calls), RateInv, Waiting, [RateNext]_rateVars
  PROVE  Waiting'
<1>0. call \in [Calls -> CallStates] /\ shared \in Buckets
  BY DEF RateInv, RateTyped
<1>1. ASSUME NEW q \in Calls, NEW w \in Webs, Enter(q, w) PROVE Waiting'
  <2>1. /\ \A p \in Calls \ {q} : call'[p] = call[p] /\ shared' = shared
        /\ call[q].stage = "new" /\ call'[q].stage \in {"waiting", "alone"}
        /\ call'[q].stage = "waiting" => call'[q].pipe # "none"
    BY <1>0, <1>1 DEF Enter, CallAt, CallStates
  <2>2. shared' = shared
    BY <1>1 DEF Enter
  <2> QED  BY <2>1, <2>2, CallStepWaits
<1>2. ASSUME NEW q \in Calls, Increment(q) PROVE Waiting'
  BY <1>2, IncrementWaits
<1>3. ASSUME NEW q \in Calls, Expire(q) PROVE Waiting'
  <2>1. /\ \A p \in Calls \ {q} : call'[p] = call[p]
        /\ call'[q].stage = call[q].stage /\ call'[q].pipe = "asking"
        /\ call[q].stage # "new"
    BY <1>0, <1>3 DEF Expire, CallStates, InPipe, Waiting, CallAt
  <2>2. shared'.count = shared.count
    BY <1>0, <1>3 DEF Expire, Buckets
  <2> QED  BY <2>1, <2>2, CallStepWaits
<1>4. ASSUME NEW q \in Calls, AskTime(q) PROVE Waiting'
  <2>1. /\ \A p \in Calls \ {q} : call'[p] = call[p]
        /\ call'[q].stage \notin {"new", "waiting"} /\ call'[q].pipe = "none"
    BY <1>0, <1>4 DEF AskTime, CallStates, InPipe, Waiting, CallAt, Judged
  <2>2. shared' = shared
    BY <1>4 DEF AskTime
  <2> QED  BY <2>1, <2>2, CallStepWaits
<1>5. ASSUME NEW q \in Calls, RedisFails(q) \/ RedisHangsUp(q) PROVE Waiting'
  <2>1. /\ \A p \in Calls \ {q} : call'[p] = call[p]
        /\ call'[q].stage \in {"alone", "stuck"} /\ call'[q].pipe \in {call[q].pipe, "none"}
    <3>1. CASE RedisFails(q)
      <4>1. PICK rest \in {call[q].pipe, "none"} :
              call' = [call EXCEPT ![q] = [@ EXCEPT !.stage = "alone", !.pipe = rest]]
        BY <3>1 DEF RedisFails
      <4> QED  BY <1>0, <4>1 DEF CallStates
    <3>2. CASE RedisHangsUp(q)
      BY <1>0, <3>2 DEF RedisHangsUp, CallStates
    <3> QED  BY <1>5, <3>1, <3>2
  <2>2. shared' = shared
    BY <1>5 DEF RedisFails, RedisHangsUp
  <2> QED  BY <2>1, <2>2, CallStepWaits
<1>6. ASSUME NEW q \in Calls, CountAlone(q) PROVE Waiting'
  <2>1. /\ \A p \in Calls \ {q} : call'[p] = call[p]
        /\ call'[q].stage \in {"served alone", "refused alone"}
        /\ call'[q].pipe = call[q].pipe
    <3> DEFINE w == call[q].web
               b == IF apart[w].ends = 0
                    THEN [OneMore(Empty(apart[w])) EXCEPT !.ends = WindowLength]
                    ELSE OneMore(apart[w])
               verdict == IF Judged(TakesCount(call[q], b)) = "served"
                          THEN "served alone" ELSE "refused alone"
    <3>1. /\ verdict \in {"served alone", "refused alone"}
          /\ call' = [call EXCEPT ![q] = [TakesCount(call[q], b) EXCEPT !.stage = verdict]]
      BY <1>6, Zenon DEF CountAlone
    <3> HIDE DEF b, verdict
    <3>2. call'[q] = [TakesCount(call[q], b) EXCEPT !.stage = verdict]
      BY <1>0, <3>1
    <3>3. /\ \A p \in Calls \ {q} : call'[p] = call[p]
          /\ call'[q].stage = verdict /\ call'[q].pipe = call[q].pipe
      BY <1>0, <3>1, <3>2 DEF TakesCount, CallStates
    <3> QED  BY <3>1, <3>3
  <2>2. shared' = shared
    BY <1>6 DEF CountAlone
  <2> QED  BY <2>1, <2>2, CallStepWaits
<1>7. ASSUME TimePasses PROVE Waiting'
  <2>1. call' = call /\ Through' = Through
    BY <1>7 DEF TimePasses, Through, CallAt, InPipe
  <2>2. shared'.count \in {shared.count, 0}
    BY <1>0, <1>7 DEF TimePasses, Empty, Bucket, Later, Buckets
  <2>3. shared'.count <= Cardinality(Through')
    BY <2>1, <2>2, ThroughGrows
  <2> QED  BY <2>1, <2>3 DEF Waiting, CallAt
<1>8. CASE UNCHANGED rateVars
  BY <1>8 DEF rateVars, Waiting, Through, CallAt, InPipe
<1> QED
  BY <1>1, <1>2, <1>3, <1>4, <1>5, <1>6, <1>7, <1>8 DEF RateNext

\* Every counter ends within a window, the key in Redis counts no more than the
\* calls there are, however late or broken the pipelines, and a call that waits
\* has a command in the pipeline.
THEOREM CountersAreTyped ==
  ASSUME IsFiniteSet(Calls)
  PROVE  RateSpec => []RateTypes
<1>1. RateInit => RateInv /\ Waiting
  <2> SUFFICES ASSUME RateInit PROVE Waiting
    BY InitInv
  <2>1. Through = {}
    BY DEF RateInit, Through, CallAt
  <2> QED  BY <2>1, FS_EmptySet DEF RateInit, Bucket, Waiting, CallAt
<1>2. RateInv /\ Waiting /\ [RateNext]_rateVars => RateInv' /\ Waiting'
  BY RateStep, WaitingStays
<1>3. RateInv /\ Waiting => RateTypes
  <2> SUFFICES ASSUME RateInv, Waiting PROVE RateTypes
    OBVIOUS
  <2>1. /\ call \in [Calls -> CallStates] /\ shared \in Buckets /\ apart \in [Webs -> Buckets]
    BY DEF RateInv, RateTyped
  <2>2. Cardinality(Through) <= Cardinality(Calls)
    BY FS_Subset DEF Through
  <2>3. /\ shared.count \in Nat /\ Cardinality(Through) \in Nat /\ Cardinality(Calls) \in Nat
    BY <2>1, FS_Subset, FS_CardinalityType DEF Buckets, Through
  <2>4. shared.count <= Cardinality(Calls)
    BY <2>2, <2>3 DEF Waiting
  <2> QED  BY <2>1, <2>4 DEF RateTypes, Waiting, Buckets, CallStates
<1> QED  BY <1>1, <1>2, <1>3, PTL DEF RateSpec

=============================================================================
