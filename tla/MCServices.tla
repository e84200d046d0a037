----------------------------- MODULE MCServices ------------------------------
(***************************************************************************)
(* What requests do to a workspace, each on small instances: billing,      *)
(* members, the connection to GitHub and the rate limits; and the life of  *)
(* an audit whose jobs run one at a time. As in MCJobs they share no state *)
(* and "part" names the one that moves.                                    *)
(***************************************************************************)
EXTENDS MCAuditLifecycle, Billing, Members, GitHubConnection, RateLimit

CONSTANTS c1, c2, a1, a2, a3, w1, w2, t1, t2

VARIABLE part

(***************************************************************************)
(* Billing: two shoppers, or one whose payments Stripe changes its mind    *)
(* on, or audits at the plan's limit.                                      *)
(***************************************************************************)
MCPlans ==
  [free     |-> [audits |-> {1}, concurrent |-> {1}],
   pro      |-> [audits |-> {2}, concurrent |-> {1}],
   business |-> [audits |-> {}, concurrent |-> {}]]

Trade(shoppers, requests, changes, failures, months) ==
  [shoppers |-> shoppers, requests |-> requests, stripe |-> changes,
   faults |-> failures, months |-> months]

MCBillingCases ==
  {Trade({c1, c2}, {}, 0, 1, 0), Trade({c1}, {}, 1, 1, 0),
   Trade({}, {a1, a2, a3}, 0, 1, 1), Trade({c1}, {a1}, 0, 0, 0)}

(***************************************************************************)
(* Members: five requests of three users.                                  *)
(***************************************************************************)
Wish(user, what) ==
  [user |-> user, wants |-> what, guest |-> user, role |-> "member", invitation |-> "none"]
Look(user) == Wish(user, "look")
Invite(user, guest, as) == [Wish(user, "invite") EXCEPT !.guest = guest, !.role = as]
Accept(user, i) == [Wish(user, "accept") EXCEPT !.invitation = i]
Revoke(user, i) == [Wish(user, "revoke") EXCEPT !.invitation = i]
Delete(user) == Wish(user, "delete")
Absence == Wish("ann", "nothing")

Day(v1, v2, v3, v4, v5, hours, outcomes) ==
  [visit |-> [v \in Visits |->
                CASE v = "v1" -> v1 [] v = "v2" -> v2 [] v = "v3" -> v3
                  [] v = "v4" -> v4 [] v = "v5" -> v5],
   time |-> hours, mail |-> outcomes]

MCMemberCases ==
  {Day(Invite("ann", "bob", "admin"), Accept("bob", "v1"), Revoke("ann", "v1"),
       Look("bob"), Absence, 1, {"sent"}),
   Day(Invite("ann", "bob", "admin"), Accept("bob", "v1"), Invite("ann", "eve", "member"),
       Accept("eve", "v3"), Absence, 0, {"sent"}),
   Day(Invite("ann", "bob", "admin"), Accept("bob", "v1"), Absence, Absence,
       Accept("bob", "v1"), 0, {"sent", "failed", "skipped", "lost", "unreachable"}),
   Day(Invite("ann", "ann", "member"), Accept("ann", "v1"), Delete("ann"),
       Accept("bob", "v1"), Absence, 0, {"sent"})}

(***************************************************************************)
(* Connection: two workspaces or two states of one, and GitHub changing,   *)
(* a page opened, a user disconnecting, a handler dying.                   *)
(***************************************************************************)
Asks(tickets, changes, opened, hangups, deaths) ==
  [asks |-> tickets, github |-> changes, pages |-> opened, hangups |-> hangups,
   faults |-> deaths]

MCConnectionCases ==
  {Asks({<<t1, w1>>, <<t2, w2>>}, 1, 0, 0, 0), Asks({<<t1, w1>>}, 1, 1, 0, 0),
   Asks({<<t1, w1>>}, 2, 0, 0, 0), Asks({<<t1, w1>>}, 1, 0, 0, 1),
   Asks({<<t1, w1>>}, 1, 0, 1, 0), Asks({<<t1, w1>>, <<t2, w1>>}, 0, 0, 1, 0)}

(***************************************************************************)
(* Rate limits: calls of two web processes, with a Redis that fails and     *)
(* without one.                                                            *)
(***************************************************************************)
Redis(failures, hangups, passing) ==
  [redis |-> TRUE, breaks |-> failures, closes |-> hangups, units |-> passing]

MCRateCases ==
  {Redis(1, 0, 2), Redis(0, 1, 1), [Redis(0, 0, 3) EXCEPT !.redis = FALSE]}

(***************************************************************************)
(* The services.                                                           *)
(***************************************************************************)
\* A part at rest begins somewhere; which state that is makes no difference.
Resting(p, chosen) == part # p => chosen

ServicesInit ==
  /\ part \in {"audit", "billing", "members", "connection", "rate"}
  /\ Init
  /\ BillingInit
  /\ Resting("billing", billing = CHOOSE b \in MCBillingCases : TRUE)
  /\ MemberInit
  /\ Resting("members", time = 1)
  /\ ConnectionInit
  /\ Resting("connection", left = CHOOSE c \in MCConnectionCases : TRUE)
  /\ RateInit
  /\ Resting("rate", ~rate.redis)

ServicesNext ==
  \/ /\ part = "audit" /\ Next
     /\ UNCHANGED <<part, billingVars, memberVars, connectionVars, rateVars>>
  \/ /\ part = "billing" /\ BillingNext
     /\ UNCHANGED <<part, vars, memberVars, connectionVars, rateVars>>
  \/ /\ part = "members" /\ MemberNext
     /\ UNCHANGED <<part, vars, billingVars, connectionVars, rateVars>>
  \/ /\ part = "connection" /\ ConnectionNext
     /\ UNCHANGED <<part, vars, billingVars, memberVars, rateVars>>
  \/ /\ part = "rate" /\ RateNext
     /\ UNCHANGED <<part, vars, billingVars, memberVars, connectionVars>>

ServicesSpec ==
  ServicesInit
  /\ [][ServicesNext]_<<part, vars, billingVars, memberVars, connectionVars, rateVars>>

\* Every service keeps its rows well formed.
ServicesTypes == BillingTypes /\ MemberTypes /\ ConnectionTypes /\ RateTypes

=============================================================================
