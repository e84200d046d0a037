------------------------------- MODULE MCJobs -------------------------------
(***************************************************************************)
(* What the worker's jobs do beside the statuses of the audit, each on     *)
(* small instances: the browser swarm, findings with their evidence and    *)
(* its retention, the deterministic missions, and planning. They share no  *)
(* state but the database's, of which each has its own tables, so that a   *)
(* behaviour of one is a behaviour of all with the others at rest: "part"  *)
(* names the one that moves.                                               *)
(***************************************************************************)
EXTENDS MCBrowserSwarm, EvidenceStore, MissionFindings, AuditPlanning

CONSTANTS m1, m2, k1, k2, print1, print2

VARIABLE part

(***************************************************************************)
(* Evidence: two jobs that see one fingerprint, or two, and one of them    *)
(* twice; a job that dies, a storage that fails, a cleaner that dies.      *)
(***************************************************************************)
Meeting ==
  [m \in Reporters |-> IF m = m1 THEN <<Found(print1, 2, TRUE)>>
                                 ELSE <<Found(print1, 1, FALSE)>>]
Crossing ==
  [m \in Reporters |-> IF m = m1 THEN <<Found(print1, 2, TRUE)>>
                       ELSE <<Found(print2, 1, FALSE), Found(print1, 1, FALSE)>>]
OneShot == [m \in Reporters |-> IF m = m1 THEN <<Found(print1, 1, TRUE)>> ELSE <<>>]
TwoShots ==
  [m \in Reporters |-> IF m = m1 THEN <<Found(print1, 1, TRUE), Found(print2, 1, TRUE)>>
                                 ELSE <<>>]

With(reported, workers, j, s, c, h) ==
  [reports |-> reported, crew |-> workers,
   budget |-> [job |-> j, store |-> s, cleaner |-> c, share |-> h]]

MCScenarios ==
  {With(Meeting, {}, 1, 0, 0, 0), With(OneShot, {k1}, 1, 0, 0, 0),
   With(Crossing, {}, 0, 1, 0, 0), With(Meeting, {k1}, 0, 1, 0, 0),
   With(TwoShots, {k1}, 0, 0, 1, 1), With(TwoShots, {k1, k2}, 0, 0, 0, 0),
   With(OneShot, {k1, k2}, 0, 0, 0, 1)}

(***************************************************************************)
(* Missions: a page with every kind of defect and repeated events, links   *)
(* and controls; one that does not answer; a forbidden one; one whose      *)
(* links do not parse and whose first button to match is disabled.         *)
(***************************************************************************)
Blank ==
  [status |-> 200, url |-> "home", final |-> "home", allowed |-> TRUE,
   events |-> <<>>, controls |-> <<>>, overflow |-> 0, violations |-> <<>>,
   links |-> <<>>, buttons |-> <<>>]

Occurs(kind, key, code) ==
  [kind |-> kind, key |-> key, status |-> code, failure |-> "none"]
Fails(key, why) == [kind |-> "failed", key |-> key, status |-> 0, failure |-> why]
Control(selector, hidden) == [selector |-> selector, named |-> FALSE, hidden |-> hidden]
Link(href, here, answer) ==
  [href |-> href, sameOrigin |-> here, download |-> FALSE, destructive |-> FALSE,
   malformed |-> FALSE, status |-> answer]
Button(label, disabled, hangs) ==
  [label |-> label, disabled |-> disabled, native |-> TRUE, stalls |-> hangs]
Violation(rule) == [rule |-> rule, impact |-> "minor", help |-> "help", nodes |-> 1]

Rules == <<"a", "b", "c", "d", "e", "f", "g", "h", "i", "j", "k">>

MCTargets ==
  {[Blank EXCEPT
      !.status = 503, !.final = "login",
      !.events = <<Occurs("console", "e1", 0), Occurs("thrown", "E1", 0),
                   Occurs("console", "e1", 0), Occurs("http", "a", 404),
                   Occurs("http", "a", 500), Fails("a", "reset"),
                   Fails("b", "reset"), Fails("b", "abort")>>,
      !.controls = <<Control("input", FALSE), Control("input", FALSE), Control("#a", TRUE)>>,
      !.links = <<[Link("c", TRUE, 500) EXCEPT !.download = TRUE],
                  Link("a", TRUE, 404), Link("x", FALSE, 404), Link("a", TRUE, 404),
                  Link("b", TRUE, 200), Link("c", TRUE, 500)>>,
      !.buttons = <<Button({"checkout", "delete"}, FALSE, FALSE),
                    Button({"checkout"}, FALSE, TRUE)>>],
   [Blank EXCEPT
      !.status = 0, !.overflow = 9,
      !.violations = Mapped(Rules, Violation),
      !.links = <<Link("a", TRUE, 0)>>,
      !.buttons = <<Button({"checkout"}, TRUE, FALSE)>>],
   [Blank EXCEPT !.allowed = FALSE],
   [Blank EXCEPT
      !.links = <<Link("a", TRUE, 200), [Link("b", TRUE, 200) EXCEPT !.malformed = TRUE]>>,
      !.buttons = <<Button({"checkout", "now"}, TRUE, FALSE),
                    Button({"checkout"}, FALSE, FALSE)>>]}

\* Texts that differ in case only.
MCFolded ==
  [text \in {"E1", "LOGIN", "Login", "Password"} |->
     CASE text = "E1" -> "e1" [] text = "Password" -> "password" [] OTHER -> "login"]

(***************************************************************************)
(* Planning: a shop with secrets in every kind of text and URL, and what a *)
(* planner may propose, answer or fail to answer.                          *)
(***************************************************************************)
UrlOf(where, path, params) ==
  [site |-> where, rooted |-> FALSE, bad |-> FALSE, long |-> FALSE, path |-> path,
   params |-> {[name |-> n, value |-> "v"] : n \in params}]

Anchor(text, target) == [text |-> text, url |-> target]

Shop ==
  [target |-> UrlOf("self", "shop", {"token", "page"}),
   final |-> UrlOf("self", "home", {"code"}), title |-> {"Shop"}, description |-> {"buy", "sk_1"},
   body |-> {"Login", "cart", "price", "search", "dashboard", "newsletter"},
   headings |-> <<[level |-> 3, text |-> {"sk_1"}], [level |-> 1, text |-> {"Shop"}]>>,
   links |-> <<Anchor({"log in"}, UrlOf("self", "login", {"token", "page"})),
               Anchor({"partner"}, UrlOf("other", "cart", {})),
               Anchor({"sk_1"}, UrlOf("self", "LOGIN", {"page"})),
               Anchor({"broken"}, [UrlOf("self", "broken", {}) EXCEPT !.bad = TRUE])>>,
   buttons |-> <<{"pay"}, {"sk_1"}>>,
   forms |-> <<[action |-> {UrlOf("self", "join", {"key"})},
                fields |-> <<[kind |-> "Password", label |-> {}],
                             [kind |-> "email", label |-> {"sk_1", "mail"}]>>]>>,
   routes |-> <<UrlOf("self", "search", {"code"}), UrlOf("other", "away", {}),
                UrlOf("self", "home", {})>>,
   consoleErrors |-> 1, failedRequests |-> 0, bulky |-> FALSE, forbidden |-> FALSE]

EmptyPage ==
  [Shop EXCEPT !.title = {}, !.description = {}, !.body = {}, !.headings = <<>>,
               !.links = <<>>, !.buttons = <<>>, !.forms = <<>>, !.routes = <<>>]

MoreLinks ==
  [Shop EXCEPT !.links = @ \o <<Anchor({}, UrlOf("self", "a", {})),
                                Anchor({}, UrlOf("self", "b", {}))>>]

PublicSetup ==
  [access |-> "public", scope |-> "full", login |-> {}, notes |-> <<{"sk_1", "note"}>>]
GuidedSetup ==
  [access |-> "guided", scope |-> "checkout",
   login |-> {UrlOf("self", "signin", {"token"})}, notes |-> <<>>]

Assisted ==
  [preview |-> FALSE, swarm |-> FALSE, agent |-> FALSE, assisted |-> TRUE,
   aiEnabled |-> TRUE, provider |-> "anthropic", key |-> TRUE, fallbackToMock |-> TRUE,
   scenario |-> "success", plannerAttempts |-> 2, providerAttempts |-> 2,
   maxProposed |-> 3, maxRoutes |-> 2, maxPages |-> 3, maxLinks |-> 10, maxClicks |-> 5,
   linksInContext |-> 3, formsInContext |-> 1, context |-> GuidedSetup]

On(s, p, n) == [setting |-> s, site |-> p, restarts |-> n]

MCPlanningCases ==
  {On(Assisted, Shop, 0),
   On([Assisted EXCEPT !.fallbackToMock = FALSE, !.context = PublicSetup,
                       !.plannerAttempts = 1, !.providerAttempts = 1], Shop, 1),
   On([Assisted EXCEPT !.assisted = FALSE, !.preview = TRUE], Shop, 0),
   On([Assisted EXCEPT !.aiEnabled = FALSE], [EmptyPage EXCEPT !.forbidden = TRUE], 0),
   On([Assisted EXCEPT !.agent = TRUE], Shop, 0),
   On([Assisted EXCEPT !.swarm = TRUE, !.agent = TRUE], Shop, 0),
   On([Assisted EXCEPT !.providerAttempts = 1, !.preview = TRUE], Shop, 0),
   On([Assisted EXCEPT !.linksInContext = 9], MoreLinks, 0),
   On([Assisted EXCEPT !.scenario = "timeout"], [Shop EXCEPT !.links[1].url.long = TRUE], 0),
   On([Assisted EXCEPT !.scenario = "timeout", !.providerAttempts = 1], Shop, 0),
   On(Assisted, [EmptyPage EXCEPT !.bulky = TRUE], 0),
   On([Assisted EXCEPT !.key = FALSE, !.scenario = "unsafe-route"], EmptyPage, 0)}
  \cup {On([Assisted EXCEPT !.provider = "mock", !.scenario = s], Shop, 0) :
          s \in {"timeout", "rate-limit", "malformed", "unsupported-mission",
                 "unsafe-route", "over-budget"}}

Anthropic(proposals, dear) == Answer("anthropic", proposals, dear)

\* One answer mixes what can be accepted, clamped, refused and repeated.
MCReplies ==
  {Failure("anthropic", s) : s \in {0, 200, 401, 503}}
  \cup {[Failure("anthropic", 400) EXCEPT !.tokens = TRUE]}
  \cup {Anthropic(<<Proposal("interaction-tester", 5,
                      <<UrlOf("other", "away", {}), UrlOf("self", "cart", {"token"}),
                        HomeUrl, UrlOf("self", "search", {})>>, {}, {100}),
                    Proposal("browser-swarm", 1, <<>>, {}, {}),
                    Proposal("interaction-tester", 70, <<>>, {0 - 3}, {}),
                    Proposal("link-tester", 1, <<>>, {}, {})>>, FALSE),
        Anthropic(<<Proposal("form-tester", 10, <<>>, {9}, {})>>, TRUE),
        Anthropic(<<Proposal("form-tester", 101, <<>>, {9}, {})>>, FALSE)}

MCCaps ==
  [headings |-> 2, buttons |-> 2, fields |-> 2, researchLinks |-> 2, researchForms |-> 1,
   signals |-> 12, journeys |-> 5, journeyRoutes |-> 2, researchRoutes |-> 3,
   snapshotLinks |-> 4, snapshotForms |-> 2]

(***************************************************************************)
(* The jobs.                                                               *)
(***************************************************************************)
\* A part at rest begins somewhere; which state that is makes no difference.
Resting(p, chosen) == part # p => chosen

JobsInit ==
  /\ part \in {"swarm", "evidence", "missions", "planning"}
  /\ Init
  /\ EvidenceInit
  /\ Resting("evidence", /\ ~storageOn
                         /\ [reports |-> reports, crew |-> crew, budget |-> budget] =
                              CHOOSE s \in MCScenarios : TRUE)
  /\ MissionInit
  /\ Resting("missions", page = CHOOSE p \in MCTargets : TRUE)
  /\ Resting("missions", role = "mobile-tester")
  /\ PlanningInit
  /\ Resting("planning", On(setting, site, restarts) = CHOOSE c \in MCPlanningCases : TRUE)

JobsNext ==
  \/ /\ part = "swarm" /\ Next
     /\ UNCHANGED <<part, evidenceVars, missionVars, planningVars>>
  \/ /\ part = "evidence" /\ EvidenceNext
     /\ UNCHANGED <<part, vars, missionVars, planningVars>>
  \/ /\ part = "missions" /\ MissionNext
     /\ UNCHANGED <<part, vars, evidenceVars, planningVars>>
  \/ /\ part = "planning" /\ PlanningNext
     /\ UNCHANGED <<part, vars, evidenceVars, missionVars>>

\* The swarm's FairSpec and EvidenceFairness, of the part that moves.
JobsFairness ==
  /\ WF_vars(part = "swarm" /\ Orchestrator)
  /\ \A a \in Agents : WF_vars(part = "swarm" /\ Agent(a))
  /\ \A m \in Reporters : WF_evidenceVars(part = "evidence" /\ JobStep(m))
  /\ \A c \in Cleaners : WF_evidenceVars(part = "evidence" /\ CleanerStep(c))
  /\ WF_evidenceVars(part = "evidence" /\ \E e \in DOMAIN evidence : ClaimGoesStale(e))

JobsSpec ==
  /\ JobsInit
  /\ [][JobsNext]_<<part, vars, evidenceVars, missionVars, planningVars>>
  /\ JobsFairness

\* Every job keeps its rows well formed.
JobsTypes == TypeInvariant /\ EvidenceTypes /\ MissionTypes /\ PlanningTypes

=============================================================================
