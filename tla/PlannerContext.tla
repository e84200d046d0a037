--------------------------- MODULE PlannerContext ---------------------------
(***************************************************************************)
(* What the AI planner is told of the page: the snapshot with secrets      *)
(* blanked, and the signals, journeys and routes derived from it.          *)
(*                                                                         *)
(* A text is the set of its words, {} the empty one. A URL has a site      *)
(* ("self" is the target's origin), the word of its path, and parameters;  *)
(* "rooted" if it is written from "/" on, "bad" if it does not parse,      *)
(* "long" if its path is over the 300 characters a route may have.         *)
(***************************************************************************)
EXTENDS Naturals, Sequences, FiniteSets, SequencesExt, Texts

CONSTANTS
  Secrets,         \* the words redactSensitiveText blanks
  SensitiveNames,  \* the parameter names with a sensitiveQueryParamNames in them
  Caps             \* the numbers of things the code keeps

CapNames == {"headings", "buttons", "fields", "researchLinks", "researchForms",
             "signals", "journeys", "journeyRoutes", "researchRoutes",
             "snapshotLinks", "snapshotForms"}

ASSUME CapsAssumption == Caps \in [CapNames -> Nat]

Redacted == "[REDACTED]"

\* A text that is blanked once has nothing left to blank.
ASSUME SecretsAssumption == Redacted \notin Secrets

AnyText == SUBSET STRING
Parameters == [name : STRING, value : STRING]
AnyUrl == [site : STRING, rooted : BOOLEAN, bad : BOOLEAN, long : BOOLEAN,
           path : STRING, params : SUBSET Parameters]
\* What the browser tells as a link's or a form's address, and what the
\* schema takes for the address of a login page.
AbsoluteUrl == {u \in AnyUrl : ~u.rooted}
\* What normalizeAuditUrl takes, and where the browser may be.
PageUrl == {u \in AbsoluteUrl : ~u.bad}

\* The address that was asked for, the one the browser ended at, and what it
\* finds there.
Pages ==
  [target : PageUrl, final : PageUrl, title : AnyText, description : AnyText, body : AnyText,
   headings : Seq([level : 1..6, text : AnyText]),
   links : Seq([text : AnyText, url : AbsoluteUrl]), buttons : Seq(AnyText),
   forms : Seq([action : SUBSET AbsoluteUrl,
                fields : Seq([kind : STRING, label : AnyText])]),
   routes : Seq(AbsoluteUrl), consoleErrors : Nat, failedRequests : Nat,
   bulky : BOOLEAN, forbidden : BOOLEAN]

\* How the user who asked for the audit wants it made.
Contexts ==
  [access : STRING, scope : STRING,
   login : {urls \in SUBSET AbsoluteUrl : IsFiniteSet(urls)}, notes : Seq(AnyText)]

\* truncateText: the length is left out.
Redact(text) ==
  IF text \cap Secrets = {} THEN text ELSE (text \ Secrets) \cup {Redacted}

\* sanitizeUrlForPlanning of a URL that parses.
CleanUrl(u) ==
  [u EXCEPT !.params =
     {[name |-> p.name, value |-> IF p.name \in SensitiveNames THEN Redacted ELSE p.value] :
        p \in u.params}]

SameOriginOrRelative(u) == ~u.bad /\ (u.rooted \/ u.site = "self")

RoutePath(u) ==
  [path |-> u.path, params |-> {p \in u.params : p.name \notin SensitiveNames},
   long |-> u.long]

Root == [path |-> "home", params |-> {}, long |-> FALSE]

\* The paths of the same-origin URLs of s.
RoutesOf(s) ==
  DistinctBy(Mapped(Only(s, SameOriginOrRelative), RoutePath), LAMBDA r : r)

\* What one push of appendUnique after another makes of s.
Unique(s, Key(_), n) == FirstOf(DistinctBy(s, Key), n)

Given(condition, x) == IF condition THEN <<x>> ELSE <<>>

(***************************************************************************)
(* The snapshot.                                                           *)
(***************************************************************************)
SignalWords ==
  [login     |-> {"log in", "login", "sign in"},
   signup    |-> {"sign up", "signup", "start trial", "create account"},
   checkout  |-> {"checkout", "cart", "order"},
   pricing   |-> {"pricing", "price", "plan"},
   search    |-> {"search"},
   dashboard |-> {"dashboard", "workspace"},
   contact   |-> {"contact", "newsletter", "subscribe"},
   upload    |-> {"upload", "file"}]

Signals(page) ==
  LET words == {Fold(w) : w \in page.title \cup page.description \cup page.body}
  IN {signal \in DOMAIN SignalWords : words \cap SignalWords[signal] # {}}

CleanLink(l) == [text |-> Redact(l.text), url |-> CleanUrl(l.url)]

\* Variant: the kind of a field is compared as it is written.
CleanFormByCase(f) ==
  [action |-> {CleanUrl(u) : u \in {x \in f.action : ~x.bad}},
   fields |-> Mapped(FirstOf(Only(f.fields, LAMBDA x : x.kind # "password"),
                             Caps.fields),
                     LAMBDA x : [kind |-> x.kind, label |-> Redact(x.label)])]

CleanForm(f) ==
  [action |-> {CleanUrl(u) : u \in {x \in f.action : ~x.bad}},
   fields |-> Mapped(FirstOf(Only(f.fields, LAMBDA x : Fold(x.kind) # "password"),
                             Caps.fields),
                     LAMBDA x : [kind |-> x.kind, label |-> Redact(x.label)])]

\* sanitizePlanningSnapshot; what the schema then refuses is SnapshotFits. The
\* two addresses of the page pass as they are.
Sanitized(s, limits) ==
  [target |-> s.target, final |-> s.final,
   title |-> Redact(s.title), description |-> Redact(s.description),
   headings |-> Mapped(FirstOf(s.headings, Caps.headings),
                       LAMBDA h : [level |-> h.level, text |-> Redact(h.text)]),
   links |-> Unique(Mapped(Only(s.links, LAMBDA l : ~l.url.bad), CleanLink),
                    LAMBDA l : l.url, limits.links),
   buttons |-> Mapped(FirstOf(s.buttons, Caps.buttons), Redact),
   forms |-> Mapped(FirstOf(s.forms, limits.forms), CleanForm),
   routes |-> FirstOf(RoutesOf(s.routes), limits.routes), signals |-> s.signals,
   consoleErrors |-> s.consoleErrors, failedRequests |-> s.failedRequests]

SnapshotFits(s) ==
  Len(s.links) <= Caps.snapshotLinks /\ Len(s.forms) <= Caps.snapshotForms

Collected(page) ==
  [target |-> page.target, final |-> page.final,
   title |-> page.title, description |-> page.description, headings |-> page.headings,
   links |-> page.links, buttons |-> page.buttons,
   forms |-> page.forms, routes |-> page.routes, signals |-> Signals(page),
   consoleErrors |-> page.consoleErrors, failedRequests |-> page.failedRequests]

(***************************************************************************)
(* The research context.                                                   *)
(***************************************************************************)
CleanContext(context) ==
  [access |-> context.access, scope |-> context.scope,
   login |-> {CleanUrl(u) : u \in {x \in context.login : ~x.bad}},
   notes |-> Mapped(context.notes, Redact)]

\* A route of the snapshot, taken for a URL again.
AsUrl(route) ==
  [site |-> "self", rooted |-> TRUE, bad |-> FALSE, long |-> route.long,
   path |-> route.path, params |-> route.params]

RouteKey(route) == <<Fold(route.path), route.params>>

RoutesByKeyword(s, keywords) ==
  LET candidates == Mapped(s.links, LAMBDA l : [text |-> l.text, url |-> l.url])
                    \o Mapped(s.routes, LAMBDA r : [text |-> {r.path}, url |-> AsUrl(r)])
      Matches(c) == {Fold(w) : w \in c.text \cup {c.url.path}} \cap keywords # {}
  IN Unique(RoutesOf(Mapped(Only(candidates, Matches), LAMBDA c : c.url)),
            RouteKey, Caps.journeyRoutes)

\* The kinds of product signal, in the order they are pushed.
ProductSignals(s) ==
  FirstOf(Given(s.title # {}, "title") \o Given(s.description # {}, "description")
          \o Given(\E i \in DOMAIN s.headings :
                     s.headings[i].level <= 2 /\ s.headings[i].text # {}, "heading")
          \o Only(<<"login", "signup", "checkout", "pricing", "search", "dashboard",
                         "contact", "upload">>, LAMBDA k : k \in s.signals)
          \o Given(s.forms # <<>>, "forms") \o Given(s.buttons # <<>>, "buttons"),
          Caps.signals)

Journey(name, routes) ==
  [name |-> name, routes |-> IF routes = <<>> THEN <<Root>> ELSE routes]

Journeys(s, context) ==
  LET auth == RoutesOf(SetToSeq(context.login))
              \o RoutesByKeyword(s, {"login", "log in", "signin", "sign in", "account", "auth"})
  IN FirstOf(
       Given({"login", "signup"} \cap s.signals # {} \/ context.access # "public",
             Journey("account access", FirstOf(auth, Caps.journeyRoutes)))
       \o Given("checkout" \in s.signals \/ context.scope = "checkout",
                Journey("checkout", RoutesByKeyword(s, {"checkout", "cart", "order", "pricing"})))
       \o Given("pricing" \in s.signals,
                Journey("pricing", RoutesByKeyword(s, {"pricing", "price", "plan"})))
       \o Given("search" \in s.signals, Journey("search", RoutesByKeyword(s, {"search"})))
       \o Given("dashboard" \in s.signals,
                Journey("dashboard", RoutesByKeyword(s, {"dashboard", "workspace", "app"})))
       \o Given("contact" \in s.signals \/ s.forms # <<>>,
                Journey("forms", RoutesByKeyword(s, {"contact", "newsletter", "subscribe", "form"})))
       \o Given(context.scope # "full", Journey("focus", <<Root>>)),
       Caps.journeys)

PriorityRoutes(s, maxRoutes) ==
  FirstOf(Unique(RoutesOf(Mapped(s.links, LAMBDA l : l.url))
                 \o FirstOf(s.routes, maxRoutes),
                 RouteKey, Caps.researchRoutes), maxRoutes)

Warnings(s) ==
  Given(s.consoleErrors > 0, "console errors") \o Given(s.failedRequests > 0, "failed requests")
  \o Given(s.links = <<>> /\ Len(s.routes) <= 1, "few routes")

\* buildAuditResearchContext sanitizes once more what it is given.
Research(snapshot, setup, maxRoutes) ==
  LET s == Sanitized([snapshot EXCEPT !.routes = Mapped(snapshot.routes, AsUrl)],
                     [links |-> Caps.researchLinks, forms |-> Caps.researchForms,
                      routes |-> maxRoutes])
      context == CleanContext(setup)
  IN [from |-> CleanUrl(s.final), signals |-> ProductSignals(s),
      journeys |-> Journeys(s, context), routes |-> PriorityRoutes(s, maxRoutes), warnings |-> Warnings(s)]

\* One route that is too long fails the schema, and with it the AI plan.
ResearchFits(r) ==
  /\ \A i \in DOMAIN r.routes : ~r.routes[i].long
  /\ \A i \in DOMAIN r.journeys : \A k \in DOMAIN r.journeys[i].routes :
       ~r.journeys[i].routes[k].long

\* buildPlannerInput, all of which the prompt tells; the target's address is the
\* one of the job.
PlannerPrompt(target, snapshot, setup, maxRoutes) ==
  [target |-> target, snapshot |-> snapshot, context |-> CleanContext(setup),
   research |-> Research(snapshot, setup, maxRoutes)]

(***************************************************************************)
(* What may be in a prompt.                                                *)
(***************************************************************************)
PromptTexts(p) ==
  {p.snapshot.title, p.snapshot.description}
  \cup {h.text : h \in Range(p.snapshot.headings)}
  \cup {l.text : l \in Range(p.snapshot.links)}
  \cup Range(p.snapshot.buttons) \cup Range(p.context.notes)
  \cup UNION {{x.label : x \in Range(f.fields)} : f \in Range(p.snapshot.forms)}

\* The addresses of the page, which nothing sanitizes.
PageUrls(p) == {p.target, p.snapshot.target, p.snapshot.final}

PromptUrls(p) ==
  {p.research.from} \cup {l.url : l \in Range(p.snapshot.links)} \cup p.context.login
  \cup UNION {f.action : f \in Range(p.snapshot.forms)}

PromptRoutes(p) ==
  Range(p.snapshot.routes) \cup Range(p.research.routes)
  \cup UNION {Range(j.routes) : j \in Range(p.research.journeys)}

PromptFields(p) == UNION {Range(f.fields) : f \in Range(p.snapshot.forms)}

=============================================================================
