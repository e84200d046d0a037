------------------------------ MODULE Billing -------------------------------
(***************************************************************************)
(* Plan, subscription and usage of one workspace. Checkouts make the       *)
(* workspace a customer of Stripe; Stripe tells of the subscription by     *)
(* events, which it sends again until they are answered, in any order and  *)
(* several at a time; the requests that create audits are held to the      *)
(* plan's limits. Stripe, its clock and the audits' ends are environment.  *)
(***************************************************************************)
EXTENDS Naturals, Sequences, FiniteSets, FiniteSetsExt

CONSTANTS
  Checkouts,    \* the checkout requests; each may make a customer of its own
  Handlers,     \* the web processes that may answer Stripe
  Requests,     \* the requests to create an audit
  Plans,        \* [plan -> [audits, concurrent]]: sets of at most one number
  BillingCases  \* [shoppers, requests, stripe, faults, months]: who acts, and
                \* how often Stripe changes its mind, a call fails, time passes

VARIABLES
  checkout,     \* [Checkouts -> stage, or the customer of the open session]
  customer,     \* BillingCustomer.stripeCustomerId
  subscription, \* the WorkspaceSubscription row
  orgPlan,      \* Organization.plan
  recorded,     \* the BillingWebhookEvent rows
  handler,      \* what each web process is doing for Stripe
  stripe,       \* Stripe: its subscription, the events sent and answered
  request,      \* what each request has read and done
  audits,       \* the audits created; "fresh" if the row was written in the
                \* last 12 hours (updatedAt against staleActiveAuditWindowMs)
  usageEvents,  \* the AUDIT_CREATED usage events
  billing,      \* what the environment may still do
  excused,      \* history: why a limit may be overrun
  unordered     \* history: an event was handled out of turn, or failed halfway

billingVars == <<checkout, customer, subscription, orgPlan, recorded, handler, stripe,
                 request, audits, usageEvents, billing, excused, unordered>>

NoCustomer == "no customer"
PlanIds == {"free", "pro", "business"}

ASSUME PlansAssumption ==
  /\ DOMAIN Plans = PlanIds
  /\ \A p \in PlanIds : Plans[p].audits \subseteq Nat /\ Plans[p].concurrent \subseteq Nat
  /\ {NoCustomer, "idle", "new"} \cap Checkouts = {}

ASSUME BillingCasesAssumption ==
  BillingCases \subseteq [shoppers: SUBSET Checkouts, requests: SUBSET Requests,
                          stripe: Nat, faults: Nat, months: Nat]

\* Without a period of its own a workspace is counted by calendar months.
Calendar(month) == [of |-> "calendar", number |-> month]
Paid(number) == [of |-> "subscription", number |-> number]
NoPeriod == [of |-> "none", number |-> 0]

NoSubscription == [present |-> FALSE, plan |-> "free", status |-> "free",
                   interval |-> "monthly", period |-> NoPeriod, customer |-> NoCustomer]

Idle == [stage |-> "idle", event |-> 0]
Unread == [stage |-> "idle", plan |-> "free", status |-> "free", period |-> NoPeriod]

BillingInit ==
  /\ billing \in BillingCases
  /\ checkout = [c \in Checkouts |-> "idle"]
  /\ customer = NoCustomer
  /\ subscription = NoSubscription
  /\ orgPlan = "free"
  /\ recorded = {}
  /\ handler = [h \in Handlers |-> Idle]
  /\ stripe = [status |-> "none", customer |-> NoCustomer, period |-> 0,
               sent |-> <<>>, answered |-> {}]
  /\ request = [r \in Requests |-> Unread]
  /\ audits = {} /\ usageEvents = {} /\ excused = {}
  /\ unordered = FALSE

webVars == <<customer, subscription, orgPlan, recorded>>
auditVars == <<request, audits, usageEvents, excused>>

May(what) == billing[what] > 0
Spend(what) == billing' = [billing EXCEPT ![what] = @ - 1]

(***************************************************************************)
(* Checkout.                                                               *)
(***************************************************************************)
ReadCustomer(c) ==
  /\ checkout[c] = "idle" /\ c \in billing.shoppers
  /\ checkout' = [checkout EXCEPT ![c] = IF customer = NoCustomer THEN "new" ELSE customer]
  /\ UNCHANGED <<webVars, handler, stripe, auditVars, billing, unordered>>

\* Two checkouts at a time make two customers; the later record stays.
CreateCustomer(c) ==
  /\ checkout[c] = "new"
  /\ checkout' = [checkout EXCEPT ![c] = c]
  /\ customer' = c
  /\ UNCHANGED <<subscription, orgPlan, recorded, handler, stripe, auditVars, billing,
                 unordered>>

(***************************************************************************)
(* Stripe.                                                                 *)
(***************************************************************************)
Event(kind, status, who, period) ==
  [kind |-> kind, status |-> status, customer |-> who, period |-> period]

Sends(s, events) == [s EXCEPT !.sent = @ \o events]

\* One of the open sessions is paid.
CheckoutPaid(c) ==
  /\ checkout[c] \in Checkouts /\ stripe.status = "none"
  /\ LET who == checkout[c] IN
     stripe' = Sends([stripe EXCEPT !.status = "active", !.customer = who, !.period = 1],
                     <<Event("checkout", "active", who, 1),
                       Event("subscription", "active", who, 1),
                       Event("invoice", "active", who, 1)>>)
  /\ UNCHANGED <<checkout, webVars, handler, auditVars, billing, unordered>>

PaymentFails ==
  /\ stripe.status = "active" /\ May("stripe") /\ Spend("stripe")
  /\ stripe' = Sends([stripe EXCEPT !.status = "past_due"],
                     <<Event("invoice", "past_due", stripe.customer, stripe.period),
                       Event("subscription", "past_due", stripe.customer, stripe.period)>>)
  /\ UNCHANGED <<checkout, webVars, handler, auditVars, unordered>>

Renews ==
  /\ stripe.status \in {"active", "past_due"} /\ May("stripe") /\ Spend("stripe")
  /\ stripe' = Sends([stripe EXCEPT !.status = "active", !.period = @ + 1],
                     <<Event("invoice", "active", stripe.customer, stripe.period + 1),
                       Event("subscription", "active", stripe.customer, stripe.period + 1)>>)
  /\ UNCHANGED <<checkout, webVars, handler, auditVars, unordered>>

CustomerCancels ==
  /\ stripe.status \in {"active", "past_due"} /\ May("stripe") /\ Spend("stripe")
  /\ stripe' = Sends([stripe EXCEPT !.status = "canceled"],
                     <<Event("subscription", "canceled", stripe.customer, stripe.period)>>)
  /\ UNCHANGED <<checkout, webVars, handler, auditVars, unordered>>

(***************************************************************************)
(* The webhook.                                                            *)
(***************************************************************************)
EventOf(h) == stripe.sent[handler[h].event]
Handled(h) == handler' = [handler EXCEPT ![h] = Idle]
Answers(i) == stripe' = [stripe EXCEPT !.answered = @ \cup {i}]

Unanswered == DOMAIN stripe.sent \ stripe.answered
InHand == {handler[h].event : h \in {k \in Handlers : handler[k].stage # "idle"}}

\* An event already recorded is answered as a duplicate.
RecordEvent(h, i) ==
  /\ handler[h].stage = "idle" /\ i \in Unanswered
  /\ IF i \in recorded
     THEN Answers(i) /\ UNCHANGED <<recorded, handler, unordered>>
     ELSE /\ recorded' = recorded \cup {i}
          /\ handler' = [handler EXCEPT ![h] = [stage |-> "recorded", event |-> i]]
          /\ unordered' = (unordered \/ InHand # {} \/ \E k \in Unanswered : k < i)
          /\ UNCHANGED stripe
  /\ UNCHANGED <<checkout, customer, subscription, orgPlan, auditVars, billing>>

ProcessCheckout(h) ==
  /\ handler[h].stage = "recorded" /\ EventOf(h).kind = "checkout"
  /\ customer' = EventOf(h).customer
  /\ Handled(h) /\ Answers(handler[h].event)
  /\ UNCHANGED <<checkout, subscription, orgPlan, recorded, auditVars, billing, unordered>>

\* findWorkspaceIdForStripeCustomer: the customer's record, else the
\* subscription's.
Known(who) == who \in {customer, subscription.customer}

SyncRow(h, row) ==
  /\ subscription' = row
  /\ handler' = [handler EXCEPT ![h].stage = "synced"]
  /\ UNCHANGED <<checkout, customer, orgPlan, recorded, stripe, auditVars, billing, unordered>>

\* Variant: the row is created, and never updated.
SyncFirstSubscription(h) ==
  /\ handler[h].stage = "recorded" /\ EventOf(h).kind = "subscription"
  /\ SyncRow(h, IF subscription.present THEN subscription
                ELSE [present |-> TRUE, plan |-> "pro", status |-> EventOf(h).status,
                      interval |-> "yearly", period |-> Paid(EventOf(h).period),
                      customer |-> EventOf(h).customer])

\* A subscription names its workspace in its metadata.
SyncSubscription(h) ==
  /\ handler[h].stage = "recorded" /\ EventOf(h).kind = "subscription"
  /\ SyncRow(h, [present |-> TRUE, plan |-> "pro", status |-> EventOf(h).status,
                 interval |-> "yearly", period |-> Paid(EventOf(h).period),
                 customer |-> EventOf(h).customer])

\* An invoice says neither interval nor period: the row forgets them.
SyncInvoice(h) ==
  /\ handler[h].stage = "recorded" /\ EventOf(h).kind = "invoice"
  /\ Known(EventOf(h).customer)
  /\ SyncRow(h, [present |-> TRUE, plan |-> "pro", status |-> EventOf(h).status,
                 interval |-> "monthly", period |-> NoPeriod,
                 customer |-> EventOf(h).customer])

IgnoreInvoice(h) ==
  /\ handler[h].stage = "recorded" /\ EventOf(h).kind = "invoice"
  /\ ~Known(EventOf(h).customer)
  /\ Handled(h) /\ Answers(handler[h].event)
  /\ UNCHANGED <<checkout, webVars, auditVars, billing, unordered>>

\* Whatever the status, the workspace's plan is the subscription's.
SetOrganizationPlan(h) ==
  /\ handler[h].stage = "synced"
  /\ orgPlan' = "pro"
  /\ Handled(h) /\ Answers(handler[h].event)
  /\ UNCHANGED <<checkout, customer, subscription, recorded, auditVars, billing, unordered>>

\* The answer is an error, or none: Stripe sends the event again.
HandlerFails(h) ==
  /\ handler[h].stage # "idle" /\ May("faults") /\ Spend("faults")
  /\ Handled(h)
  /\ unordered' = TRUE
  /\ UNCHANGED <<checkout, webVars, stripe, auditVars>>

(***************************************************************************)
(* Plan state and the audits it allows.                                    *)
(***************************************************************************)
PlanId ==
  IF subscription.present /\ subscription.status \in {"trialing", "active", "past_due", "unpaid"}
  THEN subscription.plan ELSE orgPlan

Period ==
  IF subscription.period # NoPeriod THEN subscription.period ELSE Calendar(billing.months)

ReadPlan(r) ==
  /\ request[r].stage = "idle" /\ r \in billing.requests
  /\ request' = [request EXCEPT ![r] = [stage |-> "plan", plan |-> PlanId,
                                        status |-> subscription.status, period |-> NoPeriod]]
  /\ UNCHANGED <<checkout, webVars, handler, stripe, audits, usageEvents, billing, excused, unordered>>

ReadPeriod(r) ==
  /\ request[r].stage = "plan"
  /\ request' = [request EXCEPT ![r].stage = "period", ![r].period = Period]
  /\ UNCHANGED <<checkout, webVars, handler, stripe, audits, usageEvents, billing, excused, unordered>>

\* Variant: one more than the limit.
ReachedLate(limit, n) == \E m \in limit : n > m

Reached(limit, n) == \E m \in limit : n >= m

\* The audits that run, and those of them that assertCanCreateAudit sees.
ActiveAudits == {a \in audits : a.active}
ActiveSeen == {a \in ActiveAudits : a.fresh}

Refused(r) ==
  \/ request[r].status \notin {"free", "trialing", "active"}
  \/ Reached(Plans[request[r].plan].audits,
             Cardinality({u \in usageEvents : u.period = request[r].period}))
  \/ Reached(Plans[request[r].plan].concurrent, Cardinality(ActiveSeen))

Creating == {r \in Requests : request[r].stage \in {"allowed", "created"}}

\* What the count of one who is let through may have missed.
Risks ==
  (IF Creating = {} THEN {} ELSE {"overlap"})
  \cup (IF ActiveSeen = ActiveAudits THEN {} ELSE {"quiet"})

\* The usage events and the audits are counted in one Promise.all.
CountUsage(r) ==
  /\ request[r].stage = "period"
  /\ request' = [request EXCEPT ![r].stage = IF Refused(r) THEN "refused" ELSE "allowed"]
  /\ excused' = IF Refused(r) THEN excused ELSE excused \cup Risks
  /\ UNCHANGED <<checkout, webVars, handler, stripe, audits, usageEvents, billing, unordered>>

CreateAudit(r) ==
  /\ request[r].stage = "allowed"
  /\ request' = [request EXCEPT ![r].stage = "created"]
  /\ audits' = audits \cup {[by |-> r, active |-> TRUE, queued |-> FALSE, fresh |-> TRUE]}
  /\ UNCHANGED <<checkout, webVars, handler, stripe, usageEvents, billing, excused, unordered>>

AuditOf(r) == CHOOSE a \in audits : a.by = r
Becomes(r, audit) == audits' = (audits \ {AuditOf(r)}) \cup {audit}

\* The queue does not take the job: the audit fails and is not counted.
EnqueueFails(r) ==
  /\ request[r].stage = "created" /\ ~AuditOf(r).queued /\ May("faults") /\ Spend("faults")
  /\ Becomes(r, [AuditOf(r) EXCEPT !.active = FALSE])
  /\ request' = [request EXCEPT ![r].stage = "failed"]
  /\ UNCHANGED <<checkout, webVars, handler, stripe, usageEvents, excused, unordered>>

\* The audit goes to "validating" and "planning" on the way to the queue.
Enqueue(r) ==
  /\ request[r].stage = "created" /\ ~AuditOf(r).queued
  /\ Becomes(r, [AuditOf(r) EXCEPT !.queued = TRUE, !.fresh = TRUE])
  /\ UNCHANGED <<checkout, webVars, handler, stripe, request, usageEvents, billing, excused, unordered>>

\* recordUsageEvent asks for the period again.
RecordUsageEvent(r) ==
  /\ request[r].stage = "created" /\ AuditOf(r).queued
  /\ usageEvents' = usageEvents \cup {[by |-> r, period |-> Period]}
  /\ excused' = IF Period = request[r].period THEN excused ELSE excused \cup {"moved"}
  /\ request' = [request EXCEPT ![r].stage = "done"]
  /\ UNCHANGED <<checkout, webVars, handler, stripe, audits, billing, unordered>>

RecordUsageFails(r) ==
  /\ request[r].stage = "created" /\ AuditOf(r).queued /\ May("faults") /\ Spend("faults")
  /\ request' = [request EXCEPT ![r].stage = "failed"]
  /\ excused' = excused \cup {"unrecorded"}
  /\ UNCHANGED <<checkout, webVars, handler, stripe, audits, usageEvents, unordered>>

AuditEnds(r) ==
  /\ r \in {a.by : a \in {b \in audits : b.active /\ b.queued}}
  /\ Becomes(r, [AuditOf(r) EXCEPT !.active = FALSE])
  /\ UNCHANGED <<checkout, webVars, handler, stripe, request, usageEvents, billing, excused, unordered>>

\* Nothing writes the row for 12 hours: the audit waits for a worker, a job
\* runs that long, or the request that created it died.
AuditGoesQuiet(r) ==
  /\ r \in {a.by : a \in ActiveSeen}
  /\ Becomes(r, [AuditOf(r) EXCEPT !.fresh = FALSE])
  /\ UNCHANGED <<checkout, webVars, handler, stripe, request, usageEvents, billing, excused, unordered>>

\* The audit goes on: a worker writes its next status.
AuditMoves(r) ==
  /\ r \in {a.by : a \in {b \in ActiveAudits \ ActiveSeen : b.queued}}
  /\ Becomes(r, [AuditOf(r) EXCEPT !.fresh = TRUE])
  /\ UNCHANGED <<checkout, webVars, handler, stripe, request, usageEvents, billing, excused, unordered>>

MonthPasses ==
  /\ May("months") /\ Spend("months")
  /\ UNCHANGED <<checkout, webVars, handler, stripe, auditVars, unordered>>

BillingNext ==
  \/ \E c \in Checkouts : ReadCustomer(c) \/ CreateCustomer(c) \/ CheckoutPaid(c)
  \/ PaymentFails \/ Renews \/ CustomerCancels \/ MonthPasses
  \/ \E h \in Handlers :
       \/ \E i \in DOMAIN stripe.sent : RecordEvent(h, i)
       \/ ProcessCheckout(h) \/ SyncSubscription(h) \/ SyncInvoice(h) \/ IgnoreInvoice(h)
       \/ SetOrganizationPlan(h) \/ HandlerFails(h)
  \/ \E r \in Requests :
       \/ ReadPlan(r) \/ ReadPeriod(r) \/ CountUsage(r) \/ CreateAudit(r)
       \/ EnqueueFails(r) \/ Enqueue(r) \/ RecordUsageEvent(r) \/ RecordUsageFails(r)
       \/ AuditEnds(r) \/ AuditGoesQuiet(r) \/ AuditMoves(r)

BillingSpec == BillingInit /\ [][BillingNext]_billingVars

(***************************************************************************)
(* Properties.                                                             *)
(***************************************************************************)
\* The customer of every row is one a checkout has made, a process answers
\* only what it recorded, and usage is counted of audits there are.
BillingTypes ==
  /\ {customer, subscription.customer, stripe.customer} \subseteq
       {NoCustomer} \cup {c \in Checkouts : checkout[c] \in Checkouts}
  /\ orgPlan \in PlanIds /\ subscription.plan \in PlanIds
  /\ InHand \subseteq recorded
  /\ recorded \subseteq DOMAIN stripe.sent /\ stripe.answered \subseteq recorded
  /\ {u.by : u \in usageEvents} \subseteq {a.by : a \in audits}

\* When Stripe has had all its answers, and no event was handled before an
\* earlier one or broke off, the workspace has what Stripe says of it: events
\* that come again, and the two that every change consists of, do no harm.
RowFollowsStripe ==
  stripe.status # "none" /\ Unanswered = {} /\ InHand = {} /\ ~unordered =>
    /\ subscription.status = stripe.status
    /\ subscription.customer = stripe.customer
    /\ orgPlan = subscription.plan

Allows(r, field, n) ==
  \A limit \in Plans[request[r].plan][field] : n <= limit

Spared(reasons) == excused \cap reasons = {}

\* No more audits are counted in a period than the plan of a request that
\* counted one allows, unless two requests overlapped or the period changed
\* under one. No more run at once than the plan of a request that created one
\* allows, unless two requests overlapped or one was let through while an
\* audit that still runs had not been written for 12 hours. And every audit in
\* the queue is counted, or its request is about to, unless that failed.
LimitsHoldUnlessRaced ==
  /\ Spared({"overlap", "moved"}) =>
       \A u \in usageEvents :
         \E r \in Requests :
           /\ request[r].stage = "done" /\ request[r].period = u.period
           /\ Allows(r, "audits", Cardinality({v \in usageEvents : v.period = u.period}))
  /\ Spared({"overlap", "quiet"}) /\ ActiveAudits # {} =>
       \E r \in Requests :
         /\ request[r].stage \in {"created", "done", "failed"}
         /\ Allows(r, "concurrent", Cardinality(ActiveAudits))
  /\ Spared({"unrecorded"}) =>
       \A a \in audits :
         a.queued => a.by \in Creating \/ \E u \in usageEvents : u.by = a.by

\* docs/PHASE_8_SAAS_FOUNDATION.md:84 says that a canceled subscription
\* resolves to Free.
CanceledMeansFree ==
  subscription.status = "canceled" /\ InHand = {} => PlanId = "free"

=============================================================================
