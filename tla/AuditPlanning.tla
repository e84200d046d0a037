--------------------------- MODULE AuditPlanning ----------------------------
(***************************************************************************)
(* The plan-audit job: it looks at the target, asks the AI planner if it   *)
(* may, merges what the planner proposes into the deterministic baseline,  *)
(* and persists the plan and its missions. The page, the provider and the  *)
(* user who cancels are the environment. What the queue does with the job  *)
(* and its missions is AuditLifecycle's; here a job that dies starts over. *)
(***************************************************************************)
EXTENDS PlannerContext, FiniteSetsExt

CONSTANTS
  PlanningCases, \* [setting, site, restarts]: a configuration with the
                 \* audit's setup, a page, how often the job may die
  Replies        \* what Anthropic may answer

\* What the configuration's schema lets through, and the job's data.
Settings ==
  [preview : BOOLEAN, swarm : BOOLEAN, agent : BOOLEAN, assisted : BOOLEAN,
   aiEnabled : BOOLEAN, provider : {"anthropic", "mock"}, key : BOOLEAN,
   fallbackToMock : BOOLEAN, scenario : STRING,
   plannerAttempts : Nat \ {0}, providerAttempts : Nat \ {0}, maxProposed : Nat,
   maxRoutes : Nat, maxPages : Nat, maxLinks : Nat, maxClicks : Nat,
   linksInContext : Nat, formsInContext : Nat, context : Contexts]

ASSUME PlanningAssumption ==
  \A c \in PlanningCases :
    c.setting \in Settings /\ c.site \in Pages /\ c.restarts \in Nat

\* What an answer's JSON can be, whether or not it fits the schema.
Proposals ==
  [type : STRING, priority : Int, routes : Seq(AnyUrl),
   limits : [pages : SUBSET Int, links : SUBSET Int, clicks : SUBSET Int]]

ASSUME RepliesAssumption ==
  \A r \in Replies :
    r \in [by : {"anthropic"}, status : Nat, json : BOOLEAN, tokens : BOOLEAN,
          proposals : Seq(Proposals), dear : BOOLEAN]

VARIABLES
  setting,   \* the configuration and the job's data
  site,      \* the page under audit
  step,      \* where the job is
  snapshot,  \* the planning snapshot: a sequence of at most one
  prompt,    \* what the provider is asked: a sequence of at most one
  tries,     \* the rounds of requestPlanner and the attempts in this round
  replies,   \* the answers of this delivery of the job
  output,    \* the plannerOutput: a sequence of at most one list of proposals
  fallbackReason, \* why the plan is not the provider's, or "none"
  planRow,   \* the AuditPlan: a sequence of at most one
  missionRows, \* the Mission rows by type
  todo,      \* the missions left to persist
  stopAsked, \* the user cancelled the audit
  restarts   \* how often the job may still die

planningVars == <<setting, site, step, snapshot, prompt, tries, replies, output,
                  fallbackReason, planRow, missionRows, todo, stopAsked, restarts>>

(***************************************************************************)
(* The deterministic plan.                                                 *)
(***************************************************************************)
Definition(priority, required, attempts, pages, links, clicks) ==
  [priority |-> priority, required |-> required, attempts |-> attempts,
   limits |-> [pages |-> pages, links |-> links, clicks |-> clicks]]

Defined ==
  [t \in {"error-reviewer", "link-tester", "form-tester", "mobile-tester",
          "accessibility-reviewer", "interaction-tester", "autonomous-browser",
          "browser-swarm"} |->
     CASE t = "error-reviewer"         -> Definition(10, TRUE, 2, 1, 0, 0)
       [] t = "link-tester"            -> Definition(20, TRUE, 2, 1, 10, 0)
       [] t = "form-tester"            -> Definition(30, TRUE, 1, 1, 0, 0)
       [] t = "mobile-tester"          -> Definition(40, TRUE, 2, 1, 0, 0)
       [] t = "accessibility-reviewer" -> Definition(50, FALSE, 1, 1, 0, 0)
       [] t = "interaction-tester"     -> Definition(60, FALSE, 1, 1, 0, 5)
       [] t = "autonomous-browser"     -> Definition(70, FALSE, 1, 4, 8, 12)
       [] t = "browser-swarm"          -> Definition(80, FALSE, 1, 6, 16, 40)]

Baseline ==
  LET deterministic == <<"error-reviewer", "link-tester", "form-tester",
                         "mobile-tester", "accessibility-reviewer",
                         "interaction-tester">>
  IN IF setting.preview THEN <<"error-reviewer", "link-tester", "mobile-tester">>
     ELSE deterministic \o
          (IF setting.swarm THEN <<"browser-swarm">>
           ELSE Given(setting.agent, "autonomous-browser"))

BaselineMission(t) ==
  [type |-> t, priority |-> Defined[t].priority, required |-> Defined[t].required,
   attempts |-> Defined[t].attempts, limits |-> Defined[t].limits,
   origin |-> "baseline", routes |-> <<Root>>]

(***************************************************************************)
(* Merging what the planner proposes. A proposal's limits are sets of at   *)
(* most one number.                                                        *)
(***************************************************************************)
Clamp(proposed, fallback, low, high) ==
  IF proposed = {} THEN fallback
  ELSE Max({low, Min({high, CHOOSE n \in proposed : TRUE})})

ProposedRoutes(p) == FirstOf(RoutesOf(p.routes), setting.maxRoutes)

Refusal(p) ==
  IF p.type \notin DOMAIN Defined THEN "UNSUPPORTED_MISSION"
  ELSE IF p.type \notin Range(Baseline) THEN "MISSION_DISABLED"
  ELSE IF p.routes # <<>> /\ ProposedRoutes(p) = <<>> THEN "UNSAFE_ROUTE"
  ELSE "none"

\* A second proposal for a mission builds on what the first has left.
MergedMission(m, p) ==
  [m EXCEPT
     !.priority = Clamp({p.priority}, m.priority, 1, 100),
     !.limits = [pages  |-> Clamp(p.limits.pages, m.limits.pages, 1, setting.maxPages),
                 links  |-> Clamp(p.limits.links, m.limits.links, 0, setting.maxLinks),
                 clicks |-> Clamp(p.limits.clicks, m.limits.clicks, 0, setting.maxClicks)],
     !.origin = "ai-prioritized",
     !.routes = IF ProposedRoutes(p) = <<>> THEN <<Root>> ELSE ProposedRoutes(p)]

\* The plan so far: the missions in the order of the baseline, what was
\* accepted, and why the rest was not.
MergeProposal(plan, p) ==
  IF Refusal(p) # "none"
  THEN [plan EXCEPT !.rejected = Append(@, Refusal(p))]
  ELSE LET i == CHOOSE k \in DOMAIN plan.missions : plan.missions[k].type = p.type
           merged == MergedMission(plan.missions[i], p)
       IN [plan EXCEPT !.missions[i] = merged, !.accepted = Append(@, merged)]

\* Array.sort is stable.
ByPriority(missions) ==
  FoldLeft(LAMBDA sorted, m :
             LET before == {i \in DOMAIN sorted : sorted[i].priority <= m.priority}
             IN InsertAt(sorted, Cardinality(before) + 1, m),
           <<>>, missions)

MergedPlan ==
  LET baseline == [missions |-> Mapped(Baseline, BaselineMission),
                   accepted |-> <<>>, rejected |-> <<>>]
      proposals == IF output = <<>> THEN <<>>
                   ELSE FirstOf(output[1], setting.maxProposed)
      plan == FoldLeft(MergeProposal, baseline, proposals)
  IN [plan EXCEPT !.missions = ByPriority(@)]

(***************************************************************************)
(* The provider.                                                           *)
(***************************************************************************)
\* plannerOutputSchema: at most 20 proposals, all of known types.
ProposalFits(p) == p.type \in DOMAIN Defined /\ p.priority \in 1..100
AnswerFits(r) ==
  r.json /\ Len(r.proposals) <= 20 /\ \A i \in DOMAIN r.proposals : ProposalFits(r.proposals[i])

\* Of an answer, a status of Anthropic's API, or none in time (status 0).
CodeOf(r) ==
  CASE r.status = 0                 -> "TIMEOUT"
    [] r.status = 200               -> IF AnswerFits(r) THEN "none" ELSE "INVALID_RESPONSE"
    [] r.status \in {401, 403}      -> "AUTHENTICATION"
    [] r.status = 429               -> "RATE_LIMIT"
    [] r.status = 400 /\ r.tokens   -> "CONTEXT_TOO_LARGE"
    [] r.status = 400 /\ ~r.tokens  -> "CONFIGURATION"
    [] r.status = 404               -> "CONFIGURATION"
    [] r.status >= 500              -> "UNAVAILABLE"
    [] OTHER                        -> "UNKNOWN"

Transient == {"RATE_LIMIT", "TIMEOUT", "UNAVAILABLE", "UNKNOWN", "INVALID_RESPONSE"}

ReasonFor(code) ==
  CASE code = "TIMEOUT"           -> "PROVIDER_TIMEOUT"
    [] code = "RATE_LIMIT"        -> "PROVIDER_RATE_LIMIT"
    [] code = "UNAVAILABLE"       -> "PROVIDER_UNAVAILABLE"
    [] code = "INVALID_RESPONSE"  -> "INVALID_PROVIDER_OUTPUT"
    [] code = "CONTEXT_TOO_LARGE" -> "INPUT_TOO_LARGE"
    [] code \in {"AUTHENTICATION", "CONFIGURATION"} -> "MISSING_API_KEY"
    [] OTHER                      -> "UNKNOWN_PROVIDER_ERROR"

WorthAnotherRound == {"PROVIDER_TIMEOUT", "PROVIDER_RATE_LIMIT",
                      "INVALID_PROVIDER_OUTPUT", "UNKNOWN_PROVIDER_ERROR"}

\* createAiProvider: without a key the mock answers for Anthropic.
Genuine == setting.provider = "anthropic" /\ setting.key

Proposal(t, priority, routes, pages, clicks) ==
  [type |-> t, priority |-> priority, routes |-> routes,
   limits |-> [pages |-> pages, links |-> {}, clicks |-> clicks]]

Answer(by, proposals, dear) ==
  [by |-> by, status |-> 200, json |-> TRUE, tokens |-> FALSE,
   proposals |-> proposals, dear |-> dear]
Failure(by, status) ==
  [by |-> by, status |-> status, json |-> FALSE, tokens |-> FALSE,
   proposals |-> <<>>, dear |-> FALSE]

HomeUrl == AsUrl(Root)

MockReply(scenario) ==
  LET success == <<Proposal("interaction-tester", 12, <<HomeUrl>>, {}, {5}),
                   Proposal("form-tester", 18, <<HomeUrl>>, {1}, {})>>
  IN CASE scenario = "timeout"     -> Failure("mock", 0)
       [] scenario = "rate-limit"  -> Failure("mock", 429)
       [] scenario \in {"malformed", "empty"} -> Failure("mock", 200)
       [] scenario = "unsupported-mission" ->
            Answer("mock", <<Proposal("payment-tester", 1, <<HomeUrl>>, {}, {})>>, FALSE)
       [] scenario = "unsafe-route" ->
            Answer("mock", <<Proposal("interaction-tester", 1,
                              <<[HomeUrl EXCEPT !.site = "other", !.rooted = FALSE]>>,
                              {}, {100})>>, FALSE)
       [] scenario = "over-budget" -> Answer("mock", success, TRUE)
       [] OTHER                    -> Answer("mock", success, FALSE)

(***************************************************************************)
(* The job.                                                                *)
(***************************************************************************)
PlanningEnded == {"planned", "refused", "stopped"}

PlanningInit ==
  /\ \E c \in PlanningCases :
       setting = c.setting /\ site = c.site /\ restarts = c.restarts
  /\ step = "start"
  /\ snapshot = <<>> /\ prompt = <<>> /\ output = <<>> /\ replies = <<>>
  /\ tries = [round |-> 1, attempt |-> 1]
  /\ fallbackReason = "none"
  /\ planRow = <<>>
  /\ missionRows = [t \in {} |-> 0]
  /\ todo = <<>>
  /\ stopAsked = FALSE

stored == <<setting, site, planRow, missionRows, stopAsked, restarts>>
local == <<snapshot, prompt, tries, replies, output, fallbackReason, todo>>

UserStopsPlanning ==
  /\ step \notin PlanningEnded /\ ~stopAsked
  /\ stopAsked' = TRUE
  /\ UNCHANGED <<setting, site, step, local, planRow, missionRows, restarts>>

PlanningStep(from, to) == step = from /\ step' = to

\* An address the target may not have, before the page opens or after.
RefuseTarget ==
  /\ site.forbidden
  /\ \/ PlanningStep("start", "refused")
     \/ PlanningStep("looking", "refused")
  /\ UNCHANGED <<stored, local>>

BeginPlanning ==
  /\ PlanningStep("start", IF stopAsked THEN "stopped" ELSE "looking")
  /\ UNCHANGED <<stored, local>>

MayAsk == setting.assisted /\ setting.aiEnabled

\* The reason before the provider is asked: "AI disabled" has the last word.
ReasonAfter(found) ==
  IF setting.assisted /\ ~setting.aiEnabled THEN "AI_DISABLED" ELSE found

\* A cancellation seen here is caught like any other error: the plan is
\* written before it is looked for again.
TakeSnapshot ==
  /\ step = "looking" /\ ~site.forbidden
  /\ LET s == Sanitized(Collected(site),
                        [links |-> setting.linksInContext, forms |-> setting.formsInContext,
                         routes |-> setting.maxRoutes])
         found == IF SnapshotFits(s) /\ ~stopAsked THEN "none" ELSE "UNKNOWN_PROVIDER_ERROR"
     IN /\ snapshot' = Given(SnapshotFits(s), s)
        /\ fallbackReason' = ReasonAfter(found)
        /\ step' = IF MayAsk /\ fallbackReason' = "none" THEN "preparing" ELSE "merging"
  /\ UNCHANGED <<stored, prompt, tries, replies, output, todo>>

SnapshotFails ==
  /\ PlanningStep("looking", "merging")
  /\ fallbackReason' = ReasonAfter("UNKNOWN_PROVIDER_ERROR")
  /\ UNCHANGED <<stored, snapshot, prompt, tries, replies, output, todo>>

\* plannerInputSchema allows no mission more than 10 interactions.
BaselineFits == \A i \in DOMAIN Baseline : Defined[Baseline[i]].limits.clicks <= 10

BuildPrompt ==
  /\ step = "preparing"
  /\ LET p == PlannerPrompt(site.target, snapshot[1], setting.context, setting.maxRoutes)
         refused == IF ~BaselineFits \/ ~ResearchFits(p.research)
                    THEN "UNKNOWN_PROVIDER_ERROR"
                    ELSE IF site.bulky THEN "INPUT_TOO_LARGE" ELSE "none"
     IN /\ fallbackReason' = refused
        /\ prompt' = Given(refused = "none", p)
        /\ step' = IF refused = "none" THEN "asking" ELSE "merging"
  /\ UNCHANGED <<stored, snapshot, tries, replies, output, todo>>

\* Variant: an answer over the budget is merged all the same.
TakeAnyAnswer(r) ==
  /\ step' = "merging"
  /\ output' = <<r.proposals>>
  /\ fallbackReason' = IF r.dear THEN "BUDGET_EXCEEDED" ELSE "none"

\* An answer over the budget is paid for and dropped.
TakeAnswer(r) ==
  /\ step' = "merging"
  /\ output' = IF r.dear THEN <<>> ELSE <<r.proposals>>
  /\ fallbackReason' = IF r.dear THEN "BUDGET_EXCEEDED" ELSE "none"

GiveUpAsking(code) ==
  /\ step' = "merging"
  /\ fallbackReason' = ReasonFor(code)
  /\ UNCHANGED output

AskPlanner(r) ==
  /\ step = "asking"
  /\ IF Genuine THEN r \in Replies ELSE r = MockReply(setting.scenario)
  /\ replies' = Append(replies, r)
  /\ LET code == CodeOf(r)
         again == code \in Transient /\ tries.attempt < setting.providerAttempts
         newRound == /\ ReasonFor(code) \in WorthAnotherRound
                     /\ tries.round < setting.plannerAttempts
     IN IF code = "none" THEN TakeAnswer(r) /\ UNCHANGED tries
        ELSE IF again
        THEN /\ tries' = [tries EXCEPT !.attempt = @ + 1]
             /\ UNCHANGED <<step, output, fallbackReason>>
        ELSE IF newRound
        THEN /\ tries' = [round |-> tries.round + 1, attempt |-> 1]
             /\ UNCHANGED <<step, output, fallbackReason>>
        ELSE IF setting.provider = "anthropic" /\ setting.fallbackToMock
        THEN step' = "standing in" /\ UNCHANGED <<tries, output, fallbackReason>>
        ELSE GiveUpAsking(code) /\ UNCHANGED tries
  /\ UNCHANGED <<stored, snapshot, prompt, todo>>

\* The mock stands in for Anthropic, once.
AskMockInstead ==
  /\ step = "standing in"
  /\ LET r == MockReply(setting.scenario) IN
     /\ replies' = Append(replies, r)
     /\ IF CodeOf(r) = "none" THEN TakeAnswer(r) ELSE GiveUpAsking(CodeOf(r))
  /\ UNCHANGED <<stored, snapshot, prompt, tries, todo>>

Source == IF output = <<>> THEN "deterministic" ELSE Last(replies).by

WritePlan ==
  /\ PlanningStep("merging", "persisting")
  /\ planRow' = <<[source |-> Source,
                   status |-> IF fallbackReason = "none" THEN "completed" ELSE "fallback",
                   reason |-> fallbackReason,
                   accepted |-> MergedPlan.accepted]>>
  /\ todo' = MergedPlan.missions
  /\ UNCHANGED <<setting, site, missionRows, stopAsked, restarts, snapshot, prompt, tries,
                 replies, output, fallbackReason>>

\* Variant: a mission that has a row keeps it.
PersistNewMission ==
  /\ step = "persisting" /\ todo # <<>>
  /\ missionRows' = [t \in DOMAIN missionRows \cup {Head(todo).type} |->
              IF t \in DOMAIN missionRows THEN missionRows[t] ELSE Head(todo)]
  /\ todo' = Tail(todo)
  /\ UNCHANGED <<setting, site, step, planRow, stopAsked, restarts, snapshot, prompt,
                 tries, replies, output, fallbackReason>>

\* An upsert: what a row has already, the plan changes only in part.
PersistMission ==
  /\ step = "persisting" /\ todo # <<>>
  /\ LET m == Head(todo) IN
     missionRows' = [t \in DOMAIN missionRows \cup {m.type} |->
                IF t # m.type THEN missionRows[t]
                ELSE IF t \notin DOMAIN missionRows THEN m
                ELSE [missionRows[t] EXCEPT !.priority = m.priority, !.limits = m.limits,
                                     !.origin = m.origin, !.routes = m.routes]]
  /\ todo' = Tail(todo)
  /\ UNCHANGED <<setting, site, step, planRow, stopAsked, restarts, snapshot, prompt,
                 tries, replies, output, fallbackReason>>

QueueMissions ==
  /\ todo = <<>>
  /\ PlanningStep("persisting", IF stopAsked THEN "stopped" ELSE "planned")
  /\ UNCHANGED <<stored, local>>

\* The worker dies, or a database call throws, and the job starts over.
PlanningDies ==
  /\ step \notin PlanningEnded \cup {"start"} /\ restarts > 0
  /\ restarts' = restarts - 1
  /\ step' = "start"
  /\ snapshot' = <<>> /\ prompt' = <<>> /\ output' = <<>> /\ replies' = <<>>
  /\ tries' = [round |-> 1, attempt |-> 1]
  /\ fallbackReason' = "none" /\ todo' = <<>>
  /\ UNCHANGED <<setting, site, planRow, missionRows, stopAsked>>

PlanningNext ==
  \/ UserStopsPlanning \/ RefuseTarget \/ BeginPlanning \/ TakeSnapshot \/ SnapshotFails
  \/ BuildPrompt
  \/ \E r \in Replies \cup {MockReply(setting.scenario)} : AskPlanner(r)
  \/ AskMockInstead \/ WritePlan \/ PersistMission \/ QueueMissions \/ PlanningDies

PlanningSpec == PlanningInit /\ [][PlanningNext]_planningVars

(***************************************************************************)
(* Properties.                                                             *)
(***************************************************************************)
\* There is at most one plan, its missions are of the kinds there are, and none
\* of them is persisted, nor the planner asked, before there is what to ask or
\* to persist.
PlanningTypes ==
  /\ step \in PlanningEnded \cup {"start", "looking", "preparing", "asking",
                                 "standing in", "merging", "persisting"}
  /\ Len(snapshot) <= 1 /\ Len(prompt) <= 1 /\ Len(output) <= 1 /\ Len(planRow) <= 1
  /\ DOMAIN missionRows \cup {m.type : m \in Range(todo)} \subseteq DOMAIN Defined
  /\ prompt # <<>> => snapshot # <<>>
  /\ DOMAIN missionRows # {} => planRow # <<>>

IsRedacted(u) == \A q \in u.params : q.name \in SensitiveNames => q.value = Redacted

\* Whatever the page holds and however the links, forms, notes and routes
\* derived from it are combined, the provider is told no secret word, no
\* password field and no route of another site, and no sensitive parameter but
\* those of the page's own two addresses, which the prompt holds as they are:
\* PromptUrlsAreRedacted, that it tells none at all, is false.
PromptIsClean ==
  \A i \in DOMAIN prompt :
    LET p == prompt[i]
        named == Range(site.routes) \cup {l.url : l \in Range(site.links)}
                 \cup setting.context.login
    IN /\ \A text \in PromptTexts(p) : text \cap Secrets = {}
       /\ \A u \in PromptUrls(p) : IsRedacted(u)
       /\ PageUrls(p) \subseteq {site.target, site.final}
       /\ \A field \in PromptFields(p) : Fold(field.kind) # "password"
       /\ \A route \in PromptRoutes(p) :
            /\ \A q \in route.params : q.name \notin SensitiveNames
            /\ route = Root
               \/ \E u \in named : u.site = "self" /\ ~u.bad /\ u.path = route.path

\* docs/security/ai-data-redaction.md:16-23 says that redaction removes or masks
\* sensitive query parameters, of every URL that the planner is told.
PromptUrlsAreRedacted ==
  \A i \in DOMAIN prompt :
    \A u \in PromptUrls(prompt[i]) \cup PageUrls(prompt[i]) : IsRedacted(u)

\* Whatever the planner proposes, the missions that are queued are those of
\* the baseline, each as required and as often tried as it is defined, within
\* its limits or those of the policy, on routes without a sensitive parameter.
PlanIsExecutable ==
  step = "planned" =>
    /\ DOMAIN missionRows = Range(Baseline)
    /\ \A t \in DOMAIN missionRows :
         LET own == Defined[t].limits
             limits == missionRows[t].limits
         IN /\ missionRows[t].required = Defined[t].required
            /\ missionRows[t].attempts = Defined[t].attempts
            /\ limits.pages \in 1..Max({own.pages, setting.maxPages})
            /\ limits.links \in 0..Max({own.links, setting.maxLinks})
            /\ limits.clicks \in 0..Max({own.clicks, setting.maxClicks})
            /\ missionRows[t].priority \in 1..100
            /\ missionRows[t].routes # <<>>
            /\ \A i \in DOMAIN missionRows[t].routes :
                 \A q \in missionRows[t].routes[i].params : q.name \notin SensitiveNames

\* The missions that are queued are the ones the plan's row tells of, also
\* when an earlier delivery of the job wrote another plan and died.
RowsFollowThePlan ==
  step = "planned" =>
    \A t \in DOMAIN missionRows :
      LET accepted == planRow[1].accepted
          mine == {i \in DOMAIN accepted : accepted[i].type = t}
      IN missionRows[t] = IF mine = {} THEN BaselineMission(t) ELSE accepted[Max(mine)]

\* What the queue is given is safe to run, and what the plan's row tells.
PlanIsCarriedOut == PlanIsExecutable /\ RowsFollowThePlan

\* The plan's row says who made the plan: a source other than the baseline
\* means the last answer and no earlier one fitted the schema and the budget,
\* and a planner that was asked in vain is told by the reason. No more is
\* asked than the two retry limits allow, and the mock once more.
PlanTellsItsSource ==
  /\ Len(replies) <= setting.plannerAttempts * setting.providerAttempts + 1
  /\ \A i \in 1..(Len(replies) - 1) : CodeOf(replies[i]) # "none"
  /\ step \in {"persisting", "planned"} =>
       LET plan == planRow[1] IN
       /\ plan.source = "deterministic" => plan.accepted = <<>>
       /\ plan.source # "deterministic" =>
            /\ setting.assisted /\ plan.reason = "none"
            /\ CodeOf(Last(replies)) = "none" /\ ~Last(replies).dear
            /\ Last(replies).by = plan.source
       /\ setting.assisted /\ plan.reason = "none" => plan.source # "deterministic"

\* docs/architecture/ai-planner-agent.md:33 says that a timeout, a rate limit,
\* a missing key or an invalid answer of the provider falls back to the
\* deterministic plan.
FailureFallsBackToBaseline ==
  step = "planned" /\ setting.provider = "anthropic" =>
    planRow[1].source \in {"anthropic", "deterministic"}

=============================================================================
