-------------------------- MODULE MissionFindings ---------------------------
(***************************************************************************)
(* The six deterministic missions of the worker: what each does to the     *)
(* page it opens, and which findings it makes of what it sees there. The   *)
(* browser and the page are the environment: a mission is given a page of  *)
(* Targets, and the user may cancel the audit at any moment.               *)
(***************************************************************************)
EXTENDS Naturals, Sequences, FiniteSets, SequencesExt, Texts

CONSTANTS
  Targets,        \* the pages
  MaxLinks,       \* limits.maxLinks of the link tester
  MaxInteractions,\* limits.maxInteractions of the interaction tester
  Destructive     \* destructiveInteractionWords

\* What the browser tells of a page. Of an event, the key is its text or its
\* URL; the status is a response's, the failure a request's.
MissionPages ==
  [status : Nat, url : STRING, final : STRING, allowed : BOOLEAN,
   events : Seq([kind : {"console", "thrown", "failed", "http"}, key : STRING,
                 status : Nat, failure : STRING]),
   controls : Seq([selector : STRING, named : BOOLEAN, hidden : BOOLEAN]), overflow : Nat,
   violations : Seq([rule : STRING, impact : STRING, help : STRING, nodes : Nat \ {0}]),
   links : Seq([href : STRING, sameOrigin : BOOLEAN, download : BOOLEAN,
                destructive : BOOLEAN, malformed : BOOLEAN, status : Nat]),
   buttons : Seq([label : SUBSET STRING, disabled : BOOLEAN, native : BOOLEAN,
                  stalls : BOOLEAN])]

\* A link's status is what its URL answers, however often the page repeats it.
ASSUME TargetsAssumption ==
  /\ MaxLinks \in Nat /\ MaxInteractions \in Nat
  /\ \A p \in Targets :
       /\ p \in MissionPages
       /\ \A i, j \in DOMAIN p.links :
            p.links[i].href = p.links[j].href => p.links[i].status = p.links[j].status

VARIABLES
  page,       \* the page under audit
  role,       \* the mission's type
  stage,      \* how far the mission has come
  checks,     \* the links or buttons left to try
  results,    \* the findings so far
  touched,    \* history: the links requested and the buttons clicked
  cancelAsked \* the user asked to cancel the audit

missionVars == <<page, role, stage, checks, results, touched, cancelAsked>>

Roles == {"error-reviewer", "link-tester", "form-tester", "mobile-tester",
          "accessibility-reviewer", "interaction-tester"}

(***************************************************************************)
(* Findings.                                                               *)
(***************************************************************************)
\* createFindingFingerprint: what is not given counts as empty.
Fingerprint(category, status, selector, url, message) ==
  <<category, status, Fold(selector), Fold(url), Fold(message)>>

Finding(category, severity, print, times, shot) ==
  [category |-> category, severity |-> severity, print |-> print,
   times |-> times, shot |-> shot]

Broken(status) == status >= 400
Grave(status) == IF status >= 500 THEN "high" ELSE "medium"

\* The listeners count equal events in maps that keep the order of the first.
Events(kind) == Only(page.events, LAMBDA e : e.kind = kind)
Counted(kind) == DistinctBy(Events(kind), LAMBDA e : e.key)
Times(kind, key) == Len(Only(Events(kind), LAMBDA e : e.key = key))
\* The maps keep the failure text or the status of the last equal event.
LastOf(kind, key) ==
  Last(Only(Events(kind), LAMBDA e : e.key = key))

\* No response at all is as grave as a server error.
NavigationFindings ==
  IF page.status # 0 /\ ~Broken(page.status) THEN <<>>
  ELSE <<Finding("functional", IF page.status = 0 THEN "high" ELSE Grave(page.status),
                 Fingerprint("functional", page.status, "none", page.url,
                             "initial-navigation"), 1, FALSE)>>

ErrorFindings ==
  NavigationFindings
  \o Mapped(Counted("console"), LAMBDA e :
       Finding("console", "medium",
               Fingerprint("console", 0, "none", page.final, e.key),
               Times("console", e.key), FALSE))
  \o Mapped(Counted("thrown"), LAMBDA e :
       Finding("console", "high",
               Fingerprint("console", 0, "none", page.final, e.key),
               Times("thrown", e.key), FALSE))
  \o Mapped(Counted("failed"), LAMBDA e :
       Finding("network", "medium",
               Fingerprint("network", 0, "none", e.key,
                           LastOf("failed", e.key).failure),
               Times("failed", e.key), FALSE))
  \o Mapped(Counted("http"), LAMBDA e :
       LET status == LastOf("http", e.key).status IN
       Finding("network", Grave(status),
               Fingerprint("network", status, "none", e.key, "none"),
               Times("http", e.key), FALSE))

\* A visible control without a name, told by its id or else by its tag.
FormFindings ==
  Mapped(Only(page.controls, LAMBDA c : ~c.named /\ ~c.hidden), LAMBDA c :
    Finding("accessibility", "medium",
            Fingerprint("accessibility", 0, c.selector, page.url, "missing-label"),
            1, FALSE))

\* The only mission with a screenshot.
MobileFindings ==
  IF page.overflow > 4
  THEN <<Finding("ux", "medium",
                 Fingerprint("ux", 0, "none", page.url,
                             "mobile-horizontal-overflow"), 1, TRUE)>>
  ELSE <<>>

AxeSeverity(impact) ==
  CASE impact \in {"critical", "serious"} -> "high"
    [] impact = "moderate" -> "medium"
    [] OTHER -> "low"

MaxViolations == 10

AxeFindings ==
  Mapped(FirstOf(page.violations, MaxViolations), LAMBDA v :
    Finding("accessibility", AxeSeverity(v.impact),
            Fingerprint("accessibility", 0, v.rule, page.url, v.help),
            v.nodes, FALSE))

LinkFinding(link) ==
  Finding("functional", Grave(link.status),
          Fingerprint("functional", link.status, "none", link.href, "broken-link"),
          1, FALSE)

StalledFinding ==
  Finding("functional", "high",
          Fingerprint("functional", 0, "button:has-text('Checkout')", page.url,
                      "checkout-stalled"), 1, FALSE)

(***************************************************************************)
(* What a mission may touch.                                               *)
(***************************************************************************)
SafeLink(l) == l.sameOrigin /\ ~l.download /\ ~l.destructive

\* Variant: a link that the page repeats is requested again.
RepeatedLinks == FirstOf(Only(page.links, SafeLink), MaxLinks)

SafeLinks ==
  FirstOf(DistinctBy(Only(page.links, SafeLink), LAMBDA l : l.href), MaxLinks)

\* A label is the set of its words; the empty label is never safe.
SafeLabel(label) == label # {} /\ label \cap Destructive = {}

SafeCandidates ==
  FirstOf(Only(page.buttons, LAMBDA b : ~b.disabled /\ SafeLabel(b.label)),
          MaxInteractions)

\* Of the safe ones, it is the checkout that is tried.
CheckoutCandidates == Only(SafeCandidates, LAMBDA b : "checkout" \in b.label)

\* The click goes to the first button that has the candidate's text.
HasText(label) == Only(page.buttons, LAMBDA b : b.native /\ label \subseteq b.label)

(***************************************************************************)
(* The mission.                                                            *)
(***************************************************************************)
MissionInit ==
  /\ page \in Targets
  /\ role \in Roles
  /\ stage = "start"
  /\ checks = <<>>
  /\ results = <<>>
  /\ touched = <<>>
  /\ cancelAsked = FALSE

UserCancels ==
  /\ stage \notin {"reported", "failed", "cancelled"}
  /\ ~cancelAsked
  /\ cancelAsked' = TRUE
  /\ UNCHANGED <<page, role, stage, checks, results, touched>>

Ends(as) ==
  /\ stage' = as
  /\ UNCHANGED <<page, role, checks, results, touched, cancelAsked>>

\* gotoTarget asks whether the audit is cancelled before it opens the page ...
Begin ==
  /\ stage = "start"
  /\ Ends(IF cancelAsked THEN "cancelled" ELSE "opening")

\* ... and after, when a page that leads to a forbidden address is refused
\* first, whether or not it opened.
Navigate ==
  /\ stage = "opening"
  /\ Ends(IF ~page.allowed THEN "failed"
          ELSE IF cancelAsked THEN "cancelled" ELSE "open")

NavigationFails ==
  /\ stage = "opening"
  /\ Ends(IF page.allowed /\ cancelAsked THEN "cancelled" ELSE "failed")

\* The missions that look once.
Inspect ==
  /\ stage = "open"
  /\ role \notin {"link-tester", "interaction-tester"}
  /\ results' = CASE role = "error-reviewer" -> ErrorFindings
                  [] role = "form-tester"    -> FormFindings
                  [] role = "mobile-tester"  -> MobileFindings
                  [] role = "accessibility-reviewer" -> AxeFindings
  /\ stage' = "checked"
  /\ UNCHANGED <<page, role, checks, touched, cancelAsked>>

\* One link that is no URL fails the whole mission.
ListLinks ==
  /\ stage = "open" /\ role = "link-tester"
  /\ IF \E i \in DOMAIN page.links : page.links[i].malformed
     THEN Ends("failed")
     ELSE /\ stage' = "trying"
          /\ checks' = SafeLinks
          /\ UNCHANGED <<page, role, results, touched, cancelAsked>>

ListButtons ==
  /\ stage = "open" /\ role = "interaction-tester"
  /\ stage' = "trying"
  /\ checks' = CheckoutCandidates
  /\ UNCHANGED <<page, role, results, touched, cancelAsked>>

\* A request that does not answer throws out of the loop.
RequestLink ==
  /\ stage = "trying" /\ role = "link-tester" /\ checks # <<>>
  /\ touched' = Append(touched, Head(checks))
  /\ IF Head(checks).status = 0
     THEN stage' = "failed" /\ UNCHANGED <<checks, results>>
     ELSE /\ checks' = Tail(checks)
          /\ results' = IF Broken(Head(checks).status)
                        THEN Append(results, LinkFinding(Head(checks)))
                        ELSE results
          /\ UNCHANGED stage
  /\ UNCHANGED <<page, role, cancelAsked>>

\* A click that finds no enabled button waits for its timeout and throws.
ClickCheckout ==
  /\ stage = "trying" /\ role = "interaction-tester" /\ checks # <<>>
  /\ LET matches == HasText(Head(checks).label) IN
     IF matches = <<>> \/ Head(matches).disabled
     THEN stage' = "failed" /\ UNCHANGED <<checks, results, touched>>
     ELSE /\ touched' = Append(touched, Head(matches))
          /\ checks' = Tail(checks)
          /\ results' = IF Head(matches).stalls
                        THEN Append(results, StalledFinding) ELSE results
          /\ UNCHANGED stage
  /\ UNCHANGED <<page, role, cancelAsked>>

TriedAll ==
  /\ stage = "trying" /\ checks = <<>>
  /\ Ends("checked")

\* A call of the browser throws, runWithTimeout gives the mission up, or the
\* page has gone to a forbidden address by the end.
MissionFails ==
  /\ stage \in {"opening", "open", "trying", "checked"}
  /\ Ends("failed")

\* The job persists what is left after dedupeByFingerprint, unless the audit
\* was cancelled meanwhile.
ReportFindings ==
  /\ stage = "checked"
  /\ stage' = IF cancelAsked THEN "cancelled" ELSE "reported"
  /\ results' = IF cancelAsked THEN results
                ELSE DistinctBy(results, LAMBDA f : f.print)
  /\ UNCHANGED <<page, role, checks, touched, cancelAsked>>

MissionNext ==
  \/ UserCancels \/ Begin \/ Navigate \/ NavigationFails \/ Inspect
  \/ ListLinks \/ ListButtons \/ RequestLink \/ ClickCheckout \/ TriedAll
  \/ MissionFails \/ ReportFindings

MissionSpec == MissionInit /\ [][MissionNext]_missionVars

(***************************************************************************)
(* Properties.                                                             *)
(***************************************************************************)
\* A finding counts at least one occurrence, and a cancelled mission has come
\* no further than to its findings.
MissionTypes ==
  /\ role \in Roles /\ cancelAsked \in BOOLEAN
  /\ stage \in {"start", "opening", "open", "trying", "checked", "reported", "failed",
                "cancelled"}
  /\ \A i \in DOMAIN results : results[i].times > 0
  /\ stage = "cancelled" => cancelAsked

\* The fingerprints of what is wrong with the page, for the mission that
\* looks for it; missions with a limit answer for the first within it.
Defects ==
  CASE role = "error-reviewer" ->
         {f.print : f \in Range(NavigationFindings)}
         \cup {Fingerprint("console", 0, "none", page.final, e.key) :
                 e \in {x \in Range(page.events) : x.kind \in {"console", "thrown"}}}
         \cup {Fingerprint("network", IF e.kind = "http" THEN LastOf("http", e.key).status ELSE 0,
                           "none", e.key,
                           IF e.kind = "http" THEN "none" ELSE LastOf("failed", e.key).failure) :
                 e \in {x \in Range(page.events) : x.kind \in {"failed", "http"}}}
    [] role = "link-tester" ->
         LET safe == {i \in DOMAIN page.links : SafeLink(page.links[i])}
             Rank(i) == Cardinality({page.links[j].href : j \in {k \in safe : k <= i}})
         IN {LinkFinding(page.links[i]).print :
               i \in {k \in safe : Broken(page.links[k].status) /\ Rank(k) <= MaxLinks}}
    [] role = "form-tester" ->
         {Fingerprint("accessibility", 0, c.selector, page.url, "missing-label") :
            c \in {x \in Range(page.controls) : ~x.named /\ ~x.hidden}}
    [] role = "mobile-tester" -> {f.print : f \in Range(MobileFindings)}
    [] role = "accessibility-reviewer" ->
         {Fingerprint("accessibility", 0, v.rule, page.url, v.help) :
            v \in Range(FirstOf(page.violations, MaxViolations))}
    [] role = "interaction-tester" ->
         IF \E b \in Range(touched) : b.stalls THEN {StalledFinding.print} ELSE {}

\* A mission that reports, reports each defect it looked for once and nothing
\* else: neither the maps and limits of the executors nor the deduplication
\* may lose one.
ReportIsExact ==
  stage = "reported" =>
    /\ {results[i].print : i \in DOMAIN results} = Defects
    /\ \A i, j \in DOMAIN results : results[i].print = results[j].print => i = j

\* A mission requests no link twice and none it should leave alone, however
\* often the page repeats it. It clicks once at most for each candidate, in their
\* order, and each time an enabled button whose text contains the candidate's:
\* not always the candidate, and where such a button is destructive and comes
\* first, that one. ClicksOnlySafeLabels, that it never is, is false.
TouchesOnlyCandidates ==
  /\ role = "link-tester" =>
       /\ Len(touched) <= MaxLinks
       /\ \A i \in DOMAIN touched :
            /\ touched[i].sameOrigin /\ ~touched[i].destructive
            /\ \A j \in DOMAIN touched : touched[i].href = touched[j].href => i = j
  /\ role = "interaction-tester" =>
       /\ Len(touched) <= Len(CheckoutCandidates)
       /\ \A i \in DOMAIN touched :
            /\ touched[i].native /\ ~touched[i].disabled
            /\ SafeLabel(CheckoutCandidates[i].label)
            /\ CheckoutCandidates[i].label \subseteq touched[i].label

\* docs/architecture/mission-execution-system.md:59 says that interaction testing
\* only clicks labels that pass the safe interaction classifier, and skips
\* destructive ones.
ClicksOnlySafeLabels ==
  role = "interaction-tester" => \A i \in DOMAIN touched : SafeLabel(touched[i].label)

\* What a deterministic mission reports and what it touches on the way.
MissionIsExact == ReportIsExact /\ TouchesOnlyCandidates

=============================================================================
