-------------------------- MODULE GitHubConnection --------------------------
(***************************************************************************)
(* How workspaces come to be connected to one installation of the GitHub   *)
(* App: a state is handed out, the browser comes back with it, GitHub      *)
(* tells of changes by webhook, a page asks for the repositories again, a  *)
(* user disconnects. The handlers overlap at every await. GitHub, its      *)
(* deliveries, browsers and the clock are environment.                     *)
(***************************************************************************)
EXTENDS Naturals, Sequences, FiniteSets

CONSTANTS
  Homes,            \* the workspaces
  Repositories,     \* what the installation may grant access to
  Tickets,          \* the states handed out by the install route
  Servers,          \* the handlers that may be at work at a time
  ConnectionCases   \* [asks: which workspace asks for which state, github,
                    \* pages, hangups, faults: how often GitHub changes, a page
                    \* is opened, a user disconnects, a handler dies]

VARIABLES
  connection,       \* [Homes -> GitHubConnection: "none", "active", "revoked"]
  repository,       \* [Homes -> [Repositories -> "none", "ready", "archived"]]
  ticket,           \* the GitHubAuthState rows
  delivered,        \* the GitHubWebhookDelivery rows
  server,           \* what each handler has read and where it is
  github,           \* the installation at GitHub, and the deliveries it made
  left,             \* how often the environment may still act
  spent,            \* history: [Tickets -> how many callbacks consumed it]
  wanted,           \* history: [Homes -> its last word was a connection]
  doubled,            \* history: states read unused by two callbacks at a time
  excuse            \* history: why the rows may differ from GitHub

connectionVars == <<connection, repository, ticket, delivered, server, github, left,
                    spent, wanted, doubled, excuse>>

NoHome == "no home"
Free == [stage |-> "free", kind |-> "none", of |-> 0, home |-> NoHome, listed |-> {}, todo |-> {}]

ASSUME HomesAssumption == NoHome \notin Homes

ConnectionInit ==
  /\ left \in ConnectionCases
  /\ connection = [h \in Homes |-> "none"]
  /\ repository = [h \in Homes |-> [r \in Repositories |-> "none"]]
  /\ ticket = [t \in Tickets |-> [status |-> "none", home |-> NoHome, expired |-> FALSE]]
  /\ delivered = {}
  /\ server = [s \in Servers |-> Free]
  /\ github = [status |-> "active", granted |-> Repositories, events |-> <<>>, answered |-> {}]
  /\ spent = [t \in Tickets |-> 0]
  /\ wanted = [h \in Homes |-> FALSE]
  /\ doubled = {} /\ excuse = {}

tables == <<connection, repository, ticket, delivered>>

Stage(s, stage) == server[s].stage = stage
Moves(s, stage) == server' = [server EXCEPT ![s].stage = stage]
Frees(s) == server' = [server EXCEPT ![s] = Free]
Left(what) == left[what] > 0
Uses(what) == left' = [left EXCEPT ![what] = @ - 1]
Excused(why) == excuse' = excuse \cup why

Active == {h \in Homes : connection[h] = "active"}

\* At work with a list of GitHub's that it has not written completely.
Syncing == {s \in Servers : server[s].stage \in {"listed", "found", "syncing"}}

(***************************************************************************)
(* Connecting.                                                             *)
(***************************************************************************)
CreateAuthState(t, h) ==
  /\ ticket[t].status = "none" /\ <<t, h>> \in left.asks
  /\ ticket' = [ticket EXCEPT ![t].status = "issued", ![t].home = h]
  /\ UNCHANGED <<connection, repository, delivered, server, github, left, spent, wanted, doubled, excuse>>

AuthStateExpires(t) ==
  /\ ticket[t].status = "issued" /\ ~ticket[t].expired /\ Left("faults") /\ Uses("faults")
  /\ ticket' = [ticket EXCEPT ![t].expired = TRUE]
  /\ UNCHANGED <<connection, repository, delivered, server, github, spent, wanted, doubled, excuse>>

\* Variant: a state is not looked at again once it is consumed.
CheckSignature(s, t) ==
  /\ Stage(s, "free") /\ github.status = "active"
  /\ ticket[t].status # "none" /\ ~ticket[t].expired
  /\ server' = [server EXCEPT ![s] = [Free EXCEPT !.stage = "checked", !.kind = "callback",
                                                  !.of = t, !.home = ticket[t].home]]
  /\ doubled' = doubled \cup {x \in {t} : \E k \in Servers : Stage(k, "checked") /\ server[k].of = x}
  /\ UNCHANGED <<tables, github, left, spent, wanted, excuse>>

\* The signature holds, for the state was handed out; the row is only read.
CheckAuthState(s, t) ==
  /\ Stage(s, "free") /\ github.status = "active"
  /\ ticket[t].status = "issued" /\ ~ticket[t].expired
  /\ server' = [server EXCEPT ![s] = [Free EXCEPT !.stage = "checked", !.kind = "callback",
                                                  !.of = t, !.home = ticket[t].home]]
  /\ doubled' = doubled \cup {x \in {t} : \E k \in Servers : Stage(k, "checked") /\ server[k].of = x}
  /\ UNCHANGED <<tables, github, left, spent, wanted, excuse>>

ConsumeAuthState(s) ==
  /\ Stage(s, "checked")
  /\ ticket' = [ticket EXCEPT ![server[s].of].status = "consumed"]
  /\ spent' = [spent EXCEPT ![server[s].of] = @ + 1]
  /\ Moves(s, "toList")
  /\ UNCHANGED <<connection, repository, delivered, github, left, wanted, doubled, excuse>>

(***************************************************************************)
(* GitHub's webhook.                                                       *)
(***************************************************************************)
\* Recorded before it is handled: a delivery that comes again is a duplicate.
RecordDelivery(s, i) ==
  /\ Stage(s, "free") /\ i \in DOMAIN github.events \ github.answered
  /\ IF i \in delivered
     THEN /\ github' = [github EXCEPT !.answered = @ \cup {i}]
          /\ UNCHANGED <<delivered, server>>
     ELSE /\ delivered' = delivered \cup {i}
          /\ server' = [server EXCEPT ![s] =
                          [Free EXCEPT !.kind = "webhook", !.of = i,
                             !.stage = IF github.events[i] = "gone" THEN "toRevoke" ELSE "toList"]]
          /\ UNCHANGED github
  /\ UNCHANGED <<connection, repository, ticket, left, spent, wanted, doubled, excuse>>

Answered(s) == github' = [github EXCEPT !.answered =
                            @ \cup (IF server[s].kind = "webhook" THEN {server[s].of} ELSE {})]

\* The installation is deleted or suspended, for every workspace.
RevokeInstallation(s) ==
  /\ Stage(s, "toRevoke")
  /\ connection' = [h \in Homes |-> IF connection[h] = "none" THEN "none" ELSE "revoked"]
  /\ wanted' = [h \in Homes |-> FALSE]
  /\ Excused(IF Syncing = {} THEN {} ELSE {"overtaken"})
  /\ Answered(s) /\ Frees(s)
  /\ UNCHANGED <<repository, ticket, delivered, left, spent, doubled>>

ListRepositories(s) ==
  /\ Stage(s, "toList") /\ github.status = "active"
  /\ server' = [server EXCEPT ![s].listed = github.granted, ![s].todo = github.granted,
                   ![s].stage = IF server[s].kind = "resync" THEN "syncing" ELSE "listed"]
  /\ Excused(IF Syncing = {} THEN {} ELSE {"overtaken"})
  /\ UNCHANGED <<tables, github, left, spent, wanted, doubled>>

\* GitHub refuses a token for an installation that is gone: the request fails.
ListingFails(s) ==
  /\ Stage(s, "toList") /\ github.status = "gone"
  /\ Answered(s) /\ Frees(s)
  /\ UNCHANGED <<tables, left, spent, wanted, doubled, excuse>>

\* getActiveGitHubConnectionByInstallation: any one of them.
FindConnection(s, h) ==
  /\ Stage(s, "listed") /\ server[s].kind = "webhook" /\ h \in Active
  /\ server' = [server EXCEPT ![s].home = h, ![s].stage = "found"]
  /\ Excused(IF Active = {h} THEN {} ELSE {"shared"})
  /\ UNCHANGED <<tables, github, left, spent, wanted, doubled>>

IgnoreUnknown(s) ==
  /\ Stage(s, "listed") /\ server[s].kind = "webhook" /\ Active = {}
  /\ Answered(s) /\ Frees(s)
  /\ UNCHANGED <<tables, left, spent, wanted, doubled, excuse>>

\* The row is active from here, whatever it has become since it was read.
UpsertInstallation(s) ==
  /\ \/ Stage(s, "found")
     \/ Stage(s, "listed") /\ server[s].kind = "callback"
  /\ connection' = [connection EXCEPT ![server[s].home] = "active"]
  /\ wanted' = [wanted EXCEPT ![server[s].home] = @ \/ server[s].kind = "callback"]
  /\ Moves(s, "syncing")
  /\ UNCHANGED <<repository, ticket, delivered, github, left, spent, doubled, excuse>>

(***************************************************************************)
(* syncGitHubRepositories: one upsert after the other, then the rest.      *)
(***************************************************************************)
UpsertRepository(s, r) ==
  /\ Stage(s, "syncing") /\ r \in server[s].todo
  /\ repository' = [repository EXCEPT ![server[s].home][r] = "ready"]
  /\ server' = [server EXCEPT ![s].todo = @ \ {r}]
  /\ UNCHANGED <<connection, ticket, delivered, github, left, spent, wanted, doubled, excuse>>

ArchiveUnseen(s) ==
  /\ Stage(s, "syncing") /\ server[s].todo = {}
  /\ repository' = [repository EXCEPT ![server[s].home] =
                      [r \in Repositories |->
                         IF r \in server[s].listed \/ @[r] = "none" THEN @[r] ELSE "archived"]]
  /\ Answered(s) /\ Frees(s)
  /\ UNCHANGED <<connection, ticket, delivered, left, spent, wanted, doubled, excuse>>

(***************************************************************************)
(* The user's pages.                                                       *)
(***************************************************************************)
RepositoryRows(h) == {r \in Repositories : repository[h][r] # "none"}

\* GET repositories finds the connection by its repositories' rows: one that
\* has none is never listed again.
OpenPage(s, h) ==
  /\ Stage(s, "free") /\ Left("pages") /\ Uses("pages")
  /\ h \in Active /\ RepositoryRows(h) # {}
  /\ server' = [server EXCEPT ![s] = [Free EXCEPT !.stage = "toList", !.kind = "resync", !.home = h]]
  /\ UNCHANGED <<tables, github, spent, wanted, doubled, excuse>>

Disconnect(h) ==
  /\ h \in Active /\ Left("hangups") /\ Uses("hangups")
  /\ connection' = [connection EXCEPT ![h] = "revoked"]
  /\ wanted' = [wanted EXCEPT ![h] = FALSE]
  /\ Excused(IF Syncing = {} THEN {} ELSE {"overtaken"})
  /\ UNCHANGED <<repository, ticket, delivered, server, github, spent, doubled>>

(***************************************************************************)
(* Environment.                                                            *)
(***************************************************************************)
Tells(event, g) == github' = [g EXCEPT !.events = Append(@, event)]

AccessChanges(granted) ==
  /\ github.status = "active" /\ granted # github.granted /\ Left("github") /\ Uses("github")
  /\ Tells("changed", [github EXCEPT !.granted = granted])
  /\ UNCHANGED <<tables, server, spent, wanted, doubled, excuse>>

InstallationGoes ==
  /\ github.status = "active" /\ Left("github") /\ Uses("github")
  /\ Tells("gone", [github EXCEPT !.status = "gone"])
  /\ UNCHANGED <<tables, server, spent, wanted, doubled, excuse>>

InstallationReturns ==
  /\ github.status = "gone" /\ Left("github") /\ Uses("github")
  /\ Tells("changed", [github EXCEPT !.status = "active"])
  /\ UNCHANGED <<tables, server, spent, wanted, doubled, excuse>>

\* A request fails half way, or its process dies; GitHub may deliver again.
HandlerDies(s) ==
  /\ ~Stage(s, "free") /\ Left("faults") /\ Uses("faults")
  /\ Frees(s) /\ Excused({"died"})
  /\ UNCHANGED <<tables, github, spent, wanted, doubled>>

ConnectionNext ==
  \/ \E s \in Servers :
       \/ \E t \in Tickets : CheckAuthState(s, t)
       \/ ConsumeAuthState(s) \/ RevokeInstallation(s) \/ ListRepositories(s)
       \/ ListingFails(s) \/ IgnoreUnknown(s) \/ UpsertInstallation(s) \/ ArchiveUnseen(s)
       \/ HandlerDies(s)
       \/ \E i \in 1 .. Len(github.events) : RecordDelivery(s, i)
       \/ \E h \in Homes : FindConnection(s, h) \/ OpenPage(s, h)
       \/ \E r \in Repositories : UpsertRepository(s, r)
  \/ \E t \in Tickets : AuthStateExpires(t) \/ \E h \in Homes : CreateAuthState(t, h)
  \/ \E h \in Homes : Disconnect(h)
  \/ \E granted \in (SUBSET Repositories) \ {{}} : AccessChanges(granted)
  \/ InstallationGoes \/ InstallationReturns

ConnectionSpec == ConnectionInit /\ [][ConnectionNext]_connectionVars

(***************************************************************************)
(* Properties.                                                             *)
(***************************************************************************)
ConnectionTypes ==
  /\ \A h \in Homes : connection[h] \in {"none", "active", "revoked"}
  /\ \A h \in Homes, r \in Repositories : repository[h][r] \in {"none", "ready", "archived"}
  /\ \A s \in Servers : server[s].todo \subseteq server[s].listed
                        /\ server[s].listed \subseteq Repositories
  /\ delivered \subseteq DOMAIN github.events

\* getRepositoryForExport.
Exportable(h) == {r \in Repositories : connection[h] = "active" /\ repository[h][r] = "ready"}

\* A state connects a workspace once, unless two callbacks had read it unused:
\* StateIsConsumedOnce, that it always does, is false.
StateSpentOnce == \A t \in Tickets : spent[t] > 1 => t \in doubled

\* docs/PHASE_7_GITHUB_EXPORT.md:247-248 says that a state is consumed once.
StateIsConsumedOnce == \A t \in Tickets : spent[t] <= 1

\* A workspace that was disconnected, by its user or at GitHub, is connected
\* again only by a callback it asked for, unless a list was being written
\* just then.
NobodyReconnectsUnasked ==
  "overtaken" \notin excuse => \A h \in Active : wanted[h]

Settled == /\ github.answered = DOMAIN github.events
           /\ \A s \in Servers : Stage(s, "free")

\* Once every delivery is answered and nothing is under way, no workspace can
\* export to a repository GitHub has withdrawn, and an active connection lists
\* all that is granted: unless a handler died, lists were written across each
\* other, or the installation is shared, for then only one workspace hears.
ExportsFollowGitHub ==
  Settled /\ excuse \cap {"died", "overtaken", "shared"} = {} =>
    \A h \in Homes :
      IF github.status = "gone" THEN Exportable(h) = {}
      ELSE Exportable(h) = {r \in github.granted : h \in Active}

\* The rows of a connection are what its user and GitHub said last
\* (callback, webhook and repository routes).
ConnectionIsTrue == StateSpentOnce /\ NobodyReconnectsUnasked /\ ExportsFollowGitHub

=============================================================================
