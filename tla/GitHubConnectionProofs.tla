----------------------- MODULE GitHubConnectionProofs -----------------------
(***************************************************************************)
(* Theorems about GitHubConnection, for any workspaces, repositories,      *)
(* states, handlers at a time and behaviour of GitHub.                     *)
(***************************************************************************)
EXTENDS GitHubConnection, TLAPS

-----------------------------------------------------------------------------
(***************************************************************************)
(* What the rows and the handlers look like.                               *)
(***************************************************************************)

Stages ==
  {"free", "checked", "toRevoke", "toList", "listed", "found", "syncing"}

ServerRow ==
  [stage : Stages, kind : {"none", "callback", "webhook", "resync"},
   of : Tickets \cup Nat, home : Homes \cup {NoHome},
   listed : SUBSET Repositories, todo : SUBSET Repositories]

TicketRow ==
  [status : {"none", "issued", "consumed"}, home : Homes \cup {NoHome},
   expired : BOOLEAN]

Installation ==
  [status : {"active", "gone"}, granted : SUBSET Repositories,
   events : Seq({"changed", "gone"}), answered : SUBSET Nat]

ConnectionRows ==
  /\ connection \in [Homes -> {"none", "active", "revoked"}]
  /\ repository \in [Homes -> [Repositories -> {"none", "ready", "archived"}]]
  /\ wanted \in [Homes -> BOOLEAN]

TicketRows ==
  /\ ticket \in [Tickets -> TicketRow]
  /\ \A t \in Tickets : ticket[t].status = "issued" => ticket[t].home \in Homes
  /\ spent \in [Tickets -> Nat]
  /\ doubled \subseteq Tickets

\* A delivery is answered only after it was recorded.
Deliveries ==
  /\ github \in Installation
  /\ delivered \subseteq DOMAIN github.events
  /\ github.answered \subseteq delivered

\* What a handler has read by the time it is at a stage.
Shaped(row, told) ==
  /\ row \in ServerRow
  /\ row.stage = "free" => row = Free
  /\ row.kind = "none" => row.stage = "free"
  /\ row.stage = "checked" => row.kind = "callback" /\ row.of \in Tickets
  /\ row.stage = "listed" => row.kind \in {"callback", "webhook"}
  /\ row.stage = "found" => row.kind = "webhook"
  /\ \/ row.stage \in {"checked", "found", "syncing"}
     \/ row.kind \in {"callback", "resync"}
     => row.home \in Homes
  /\ row.kind = "webhook" => row.of \in told
  /\ row.todo \subseteq row.listed
  /\ row.stage \in {"listed", "found"} => row.todo = row.listed

Handlers ==
  /\ server \in [Servers -> ServerRow]
  /\ \A s \in Servers : Shaped(server[s], delivered)

RowsInv == ConnectionRows /\ TicketRows /\ Deliveries /\ Handlers

LEMMA FreeIsShaped == \A told : Shaped(Free, told)
BY DEF Free, Shaped, ServerRow, Stages

LEMMA InitRows == ConnectionInit => RowsInv
<1> SUFFICES ASSUME ConnectionInit PROVE RowsInv
  OBVIOUS
<1>1. Deliveries
  BY DEF ConnectionInit, Installation, Deliveries
<1>2. ConnectionRows /\ TicketRows
  BY DEF ConnectionInit, ConnectionRows, TicketRows, TicketRow
<1>3. Handlers
  BY FreeIsShaped DEF ConnectionInit, Handlers, Shaped
<1> QED
  BY <1>1, <1>2, <1>3 DEF RowsInv

(***************************************************************************)
(* The steps, each told by what becomes of its handler.                    *)
(***************************************************************************)

\* Handler s goes on with row and the others stay where they are.
GoesOn(s, row) ==
  /\ server' = [server EXCEPT ![s] = row]
  /\ Shaped(row, delivered')

LEMMA HandlersStay ==
  ASSUME Handlers, delivered \subseteq delivered',
         \/ UNCHANGED server
         \/ \E s \in Servers : \E row : GoesOn(s, row)
  PROVE  Handlers'
<1>1. CASE UNCHANGED server
  BY <1>1 DEF Handlers, Shaped
<1>2. CASE \E s \in Servers : \E row : GoesOn(s, row)
  <2>1. PICK s \in Servers : \E row : GoesOn(s, row)
    BY <1>2
  <2>2. PICK row : GoesOn(s, row)
    BY <2>1
  <2>3. row \in ServerRow
    BY <2>2 DEF GoesOn, Shaped
  <2>4. /\ server' \in [Servers -> ServerRow] /\ server'[s] = row
        /\ \A k \in Servers \ {s} : server'[k] = server[k]
    BY <2>2, <2>3 DEF GoesOn, Handlers
  <2>5. \A k \in Servers \ {s} : Shaped(server'[k], delivered')
    BY <2>4 DEF Handlers, Shaped
  <2>6. Shaped(server'[s], delivered')
    BY <2>2, <2>4 DEF GoesOn
  <2> QED
    BY <2>4, <2>5, <2>6 DEF Handlers
<1> QED
  BY <1>1, <1>2

\* A handler that moves on to a stage, or is free again.
LEMMA FreedHandler ==
  ASSUME NEW s \in Servers, Frees(s)
  PROVE  GoesOn(s, Free)
BY FreeIsShaped DEF Frees, GoesOn, Shaped, Free

LEMMA HandlersKept ==
  ASSUME RowsInv, ConnectionNext
  PROVE  Handlers'
<1>0. /\ \A s \in Servers : Shaped(server[s], delivered) /\ server[s] \in ServerRow
      /\ github \in Installation /\ delivered \subseteq DOMAIN github.events
  BY DEF RowsInv, Handlers, Deliveries
<1>1. ASSUME NEW s \in Servers, NEW t \in Tickets, CheckAuthState(s, t)
      PROVE  Handlers'
  <2> DEFINE row == [Free EXCEPT !.stage = "checked", !.kind = "callback",
                                 !.of = t, !.home = ticket[t].home]
  <2>1. Shaped(row, delivered')
    BY <1>1 DEF CheckAuthState, RowsInv, TicketRows, Shaped, Free, ServerRow,
       Stages
  <2>2. server' = [server EXCEPT ![s] = row]
    BY <1>1 DEF CheckAuthState
  <2>3. GoesOn(s, row)
    BY <2>1, <2>2 DEF GoesOn
  <2> QED
    BY <1>1, <2>3, HandlersStay DEF CheckAuthState, RowsInv, tables
<1>2. ASSUME NEW s \in Servers, ConsumeAuthState(s)
      PROVE  Handlers'
  <2> DEFINE row == [server[s] EXCEPT !.stage = "toList"]
  <2>1. Shaped(row, delivered')
    BY <1>0, <1>2 DEF ConsumeAuthState, Stage, Shaped, ServerRow, Stages
  <2>2. server' = [server EXCEPT ![s] = row]
    BY <1>2 DEF ConsumeAuthState, Moves
  <2>3. GoesOn(s, row)
    BY <2>1, <2>2 DEF GoesOn
  <2> QED
    BY <1>2, <2>3, HandlersStay DEF ConsumeAuthState, RowsInv
<1>3. ASSUME NEW s \in Servers, NEW i \in 1 .. Len(github.events),
             RecordDelivery(s, i)
      PROVE  Handlers'
  <2>1. CASE i \in delivered
    BY <1>3, <2>1, HandlersStay DEF RecordDelivery, RowsInv
  <2>2. CASE i \notin delivered
    <3> DEFINE row == [Free EXCEPT !.kind = "webhook", !.of = i,
                         !.stage = IF github.events[i] = "gone" THEN "toRevoke"
                                                                ELSE "toList"]
    <3>0. i \in Nat
      BY <1>0 DEF Installation
    <3>1. delivered' = delivered \cup {i}
      BY <1>3, <2>2 DEF RecordDelivery
    <3>2. Shaped(row, delivered')
      BY <3>0, <3>1 DEF Shaped, Free, ServerRow, Stages
    <3>3. server' = [server EXCEPT ![s] = row]
      BY <1>3, <2>2 DEF RecordDelivery
    <3>4. GoesOn(s, row)
      BY <3>2, <3>3 DEF GoesOn
    <3> QED
      BY <3>1, <3>4, HandlersStay DEF RowsInv
  <2> QED
    BY <2>1, <2>2
<1>4. ASSUME NEW s \in Servers,
             \/ RevokeInstallation(s) \/ ListingFails(s) \/ IgnoreUnknown(s)
             \/ ArchiveUnseen(s) \/ HandlerDies(s)
      PROVE  Handlers'
  <2>1. Frees(s) /\ UNCHANGED delivered
    BY <1>4 DEF RevokeInstallation, ListingFails, IgnoreUnknown, ArchiveUnseen,
       HandlerDies, tables
  <2> QED
    BY <2>1, FreedHandler, HandlersStay DEF RowsInv
<1>5. ASSUME NEW s \in Servers, ListRepositories(s)
      PROVE  Handlers'
  <2> DEFINE row == [server[s] EXCEPT !.listed = github.granted,
                       !.todo = github.granted,
                       !.stage = IF server[s].kind = "resync" THEN "syncing"
                                                              ELSE "listed"]
  <2>1. server[s].kind \in {"callback", "webhook", "resync"}
    BY <1>0, <1>5 DEF ListRepositories, Stage, Shaped, ServerRow
  <2>2. Shaped(row, delivered')
    BY <1>0, <1>5, <2>1 DEF ListRepositories, Stage, tables, Shaped, ServerRow,
       Stages, Installation
  <2>3. server' = [server EXCEPT ![s] = row]
    BY <1>5 DEF ListRepositories
  <2>4. GoesOn(s, row)
    BY <2>2, <2>3 DEF GoesOn
  <2> QED
    BY <1>5, <2>4, HandlersStay DEF ListRepositories, RowsInv, tables
<1>6. ASSUME NEW s \in Servers, NEW h \in Homes, FindConnection(s, h)
      PROVE  Handlers'
  <2> DEFINE row == [server[s] EXCEPT !.home = h, !.stage = "found"]
  <2>1. Shaped(row, delivered')
    BY <1>0, <1>6 DEF FindConnection, Stage, tables, Shaped, ServerRow, Stages
  <2>2. server' = [server EXCEPT ![s] = row]
    BY <1>6 DEF FindConnection
  <2>3. GoesOn(s, row)
    BY <2>1, <2>2 DEF GoesOn
  <2> QED
    BY <1>6, <2>3, HandlersStay DEF FindConnection, RowsInv, tables
<1>7. ASSUME NEW s \in Servers, UpsertInstallation(s)
      PROVE  Handlers'
  <2> DEFINE row == [server[s] EXCEPT !.stage = "syncing"]
  <2>1. Shaped(row, delivered')
    BY <1>0, <1>7 DEF UpsertInstallation, Stage, Shaped, ServerRow, Stages
  <2>2. server' = [server EXCEPT ![s] = row]
    BY <1>7 DEF UpsertInstallation, Moves
  <2>3. GoesOn(s, row)
    BY <2>1, <2>2 DEF GoesOn
  <2> QED
    BY <1>7, <2>3, HandlersStay DEF UpsertInstallation, RowsInv
<1>8. ASSUME NEW s \in Servers, NEW r \in Repositories, UpsertRepository(s, r)
      PROVE  Handlers'
  <2> DEFINE row == [server[s] EXCEPT !.todo = @ \ {r}]
  <2>1. Shaped(row, delivered')
    BY <1>0, <1>8 DEF UpsertRepository, Stage, Shaped, ServerRow, Stages
  <2>2. server' = [server EXCEPT ![s] = row]
    BY <1>8 DEF UpsertRepository
  <2>3. GoesOn(s, row)
    BY <2>1, <2>2 DEF GoesOn
  <2> QED
    BY <1>8, <2>3, HandlersStay DEF UpsertRepository, RowsInv
<1>9. ASSUME NEW s \in Servers, NEW h \in Homes, OpenPage(s, h)
      PROVE  Handlers'
  <2> DEFINE row == [Free EXCEPT !.stage = "toList", !.kind = "resync", !.home = h]
  <2>1. Shaped(row, delivered')
    BY DEF Shaped, Free, ServerRow, Stages
  <2>2. server' = [server EXCEPT ![s] = row]
    BY <1>9 DEF OpenPage
  <2>3. GoesOn(s, row)
    BY <2>1, <2>2 DEF GoesOn
  <2> QED
    BY <1>9, <2>3, HandlersStay DEF OpenPage, RowsInv, tables
<1>10. CASE \/ \E t \in Tickets : AuthStateExpires(t)
            \/ \E t \in Tickets, h \in Homes : CreateAuthState(t, h)
            \/ \E h \in Homes : Disconnect(h)
            \/ \E granted \in (SUBSET Repositories) \ {{}} : AccessChanges(granted)
            \/ InstallationGoes \/ InstallationReturns
  <2>1. UNCHANGED <<server, delivered>>
    BY <1>10 DEF AuthStateExpires, CreateAuthState, Disconnect, AccessChanges,
       InstallationGoes, InstallationReturns, tables
  <2> QED
    BY <2>1, HandlersStay DEF RowsInv
<1> QED
  BY <1>1, <1>2, <1>3, <1>4, <1>5, <1>6, <1>7, <1>8, <1>9, <1>10
     DEF ConnectionNext

LEMMA TablesKept ==
  ASSUME RowsInv, ConnectionNext
  PROVE  ConnectionRows' /\ TicketRows'
<1>1. ConnectionRows'
  <2>1. \A s \in Servers :
          server[s].stage \in {"found", "syncing"} \/ server[s].kind = "callback"
          => server[s].home \in Homes
    BY DEF RowsInv, Handlers, Shaped
  <2>2. ASSUME NEW s \in Servers, RevokeInstallation(s) PROVE ConnectionRows'
    BY <2>2 DEF RevokeInstallation, RowsInv, ConnectionRows
  <2>3. ASSUME NEW s \in Servers, UpsertInstallation(s) PROVE ConnectionRows'
    BY <2>1, <2>3 DEF UpsertInstallation, Stage, RowsInv, ConnectionRows
  <2>4. ASSUME NEW s \in Servers, NEW r \in Repositories, UpsertRepository(s, r)
        PROVE  ConnectionRows'
    BY <2>1, <2>4 DEF UpsertRepository, Stage, RowsInv, ConnectionRows
  <2>5. ASSUME NEW s \in Servers, ArchiveUnseen(s) PROVE ConnectionRows'
    BY <2>1, <2>5 DEF ArchiveUnseen, Stage, RowsInv, ConnectionRows
  <2>6. ASSUME NEW h \in Homes, Disconnect(h) PROVE ConnectionRows'
    BY <2>6 DEF Disconnect, RowsInv, ConnectionRows
  <2>7. CASE UNCHANGED <<connection, repository, wanted>>
    BY <2>7 DEF RowsInv, ConnectionRows
  <2> QED
    BY <2>2, <2>3, <2>4, <2>5, <2>6, <2>7 DEF ConnectionNext, CheckAuthState,
       ConsumeAuthState, ListRepositories, ListingFails, IgnoreUnknown,
       HandlerDies, RecordDelivery, FindConnection, OpenPage, AuthStateExpires,
       CreateAuthState, AccessChanges, InstallationGoes, InstallationReturns,
       tables
<1>2. TicketRows'
  <2>1. ASSUME NEW t \in Tickets, NEW h \in Homes, CreateAuthState(t, h)
        PROVE  TicketRows'
    BY <2>1 DEF CreateAuthState, RowsInv, TicketRows, TicketRow
  <2>2. ASSUME NEW t \in Tickets, AuthStateExpires(t) PROVE TicketRows'
    BY <2>2 DEF AuthStateExpires, RowsInv, TicketRows, TicketRow
  <2>3. ASSUME NEW s \in Servers, NEW t \in Tickets, CheckAuthState(s, t)
        PROVE  TicketRows'
    BY <2>3 DEF CheckAuthState, tables, RowsInv, TicketRows
  <2>4. ASSUME NEW s \in Servers, ConsumeAuthState(s) PROVE TicketRows'
    <3>1. server[s].of \in Tickets
      BY <2>4 DEF ConsumeAuthState, Stage, RowsInv, Handlers, Shaped
    <3> QED
      BY <2>4, <3>1 DEF ConsumeAuthState, RowsInv, TicketRows, TicketRow
  <2>5. CASE UNCHANGED <<ticket, spent, doubled>>
    BY <2>5 DEF RowsInv, TicketRows
  <2> QED
    BY <2>1, <2>2, <2>3, <2>4, <2>5 DEF ConnectionNext, RevokeInstallation,
       UpsertInstallation, UpsertRepository, ArchiveUnseen, Disconnect,
       ListRepositories, ListingFails, IgnoreUnknown, HandlerDies,
       RecordDelivery, FindConnection, OpenPage, AccessChanges,
       InstallationGoes, InstallationReturns, tables
<1> QED
  BY <1>1, <1>2

LEMMA DeliveriesKept ==
  ASSUME RowsInv, ConnectionNext
  PROVE  Deliveries'
<1>0. /\ github \in Installation /\ delivered \subseteq DOMAIN github.events
      /\ github.answered \subseteq delivered
  BY DEF RowsInv, Deliveries
<1>1. ASSUME NEW s \in Servers, NEW i \in 1 .. Len(github.events),
             RecordDelivery(s, i)
      PROVE  Deliveries'
  <2>1. i \in DOMAIN github.events /\ i \in Nat
    BY <1>0, <1>1 DEF RecordDelivery, Installation
  <2> QED
    BY <1>0, <1>1, <2>1 DEF RecordDelivery, Deliveries, Installation
<1>2. ASSUME NEW s \in Servers, Answered(s), UNCHANGED delivered
      PROVE  Deliveries'
  <2>1. server[s].kind = "webhook" => server[s].of \in delivered /\ server[s].of \in Nat
    BY <1>0 DEF RowsInv, Handlers, Shaped, Installation
  <2> QED
    BY <1>0, <1>2, <2>1 DEF Answered, Deliveries, Installation
<1>3. ASSUME NEW event \in {"changed", "gone"}, NEW g \in Installation,
             g.events = github.events, g.answered = github.answered,
             Tells(event, g), UNCHANGED delivered
      PROVE  Deliveries'
  <2>1. /\ Append(g.events, event) \in Seq({"changed", "gone"})
        /\ DOMAIN g.events \subseteq DOMAIN Append(g.events, event)
    BY <1>0, <1>3 DEF Installation
  <2>2. /\ github' \in Installation /\ github'.answered = github.answered
        /\ github'.events = Append(g.events, event)
    BY <1>3, <2>1 DEF Tells, Installation
  <2> QED
    BY <1>0, <1>3, <2>1, <2>2 DEF Deliveries
<1>4. ASSUME NEW granted \in (SUBSET Repositories) \ {{}}, AccessChanges(granted)
      PROVE  Deliveries'
  <2>1. [github EXCEPT !.granted = granted] \in Installation
    BY <1>0 DEF Installation
  <2> QED
    BY <1>0, <1>3, <1>4, <2>1 DEF AccessChanges, tables, Installation
<1>5. CASE InstallationGoes \/ InstallationReturns
  <2>1. /\ [github EXCEPT !.status = "gone"] \in Installation
        /\ [github EXCEPT !.status = "active"] \in Installation
    BY <1>0 DEF Installation
  <2> QED
    BY <1>0, <1>3, <1>5, <2>1 DEF InstallationGoes, InstallationReturns, tables,
       Installation
<1>6. CASE UNCHANGED <<github, delivered>>
  BY <1>6 DEF RowsInv, Deliveries
<1> QED
  BY <1>1, <1>2, <1>4, <1>5, <1>6 DEF ConnectionNext, RevokeInstallation,
     UpsertInstallation, UpsertRepository, ArchiveUnseen, Disconnect,
     ListRepositories, ListingFails, IgnoreUnknown, HandlerDies,
     FindConnection, OpenPage, CheckAuthState, ConsumeAuthState,
     AuthStateExpires, CreateAuthState, tables

LEMMA NextRows ==
  ASSUME RowsInv, [ConnectionNext]_connectionVars
  PROVE  RowsInv'
<1>1. CASE UNCHANGED connectionVars
  BY <1>1 DEF connectionVars, RowsInv, ConnectionRows, TicketRows, Deliveries,
     Handlers, Shaped
<1> QED
  BY <1>1, HandlersKept, TablesKept, DeliveriesKept DEF RowsInv

\* The rows of connections, repositories, states and deliveries, and what the
\* handlers have read of them, are well formed (consumeGitHubAuthState,
\* upsertGitHubConnection, the webhook's handlers).
THEOREM ConnectionsAreTyped == ConnectionSpec => []ConnectionTypes
<1>1. RowsInv => ConnectionTypes
  BY DEF RowsInv, ConnectionRows, Deliveries, Handlers, Shaped, ServerRow,
     ConnectionTypes
<1> QED
  BY <1>1, InitRows, NextRows, PTL DEF ConnectionSpec

-----------------------------------------------------------------------------
(***************************************************************************)
(* A state is spent once, unless two callbacks had read it unused.         *)
(***************************************************************************)

\* Callbacks that have read state t unused and not consumed it yet.
Holding(s, t) == Stage(s, "checked") /\ server[s].of = t

SpentInv ==
  \A t \in Tickets : t \notin doubled =>
    /\ \A s, k \in Servers : Holding(s, t) /\ Holding(k, t) => s = k
    /\ spent[t] \in {0, 1}
    /\ spent[t] = 1 => /\ ticket[t].status = "consumed"
                       /\ \A s \in Servers : ~Holding(s, t)

\* Where a step takes its handler; all others stay where they are.
Takes(s, from, to) ==
  /\ server[s].stage \in from
  /\ server'[s].stage \in to
  /\ \A k \in Servers \ {s} : server'[k] = server[k]

LEMMA HandlerTakes ==
  ASSUME RowsInv, NEW s \in Servers
  PROVE  /\ ConsumeAuthState(s) => Takes(s, {"checked"}, {"toList"})
         /\ RevokeInstallation(s) => Takes(s, {"toRevoke"}, {"free"})
         /\ ListRepositories(s) => Takes(s, {"toList"}, {"listed", "syncing"})
         /\ ListingFails(s) => Takes(s, {"toList"}, {"free"})
         /\ IgnoreUnknown(s) => Takes(s, {"listed"}, {"free"})
         /\ UpsertInstallation(s) => Takes(s, {"listed", "found"}, {"syncing"})
         /\ ArchiveUnseen(s) => Takes(s, {"syncing"}, {"free"})
         /\ HandlerDies(s) => Takes(s, Stages \ {"free"}, {"free"})
         /\ \A t \in Tickets :
              CheckAuthState(s, t) => Takes(s, {"free"}, {"checked"})
         /\ \A i \in 1 .. Len(github.events) :
              RecordDelivery(s, i) =>
                UNCHANGED server \/ Takes(s, {"free"}, {"toRevoke", "toList"})
         /\ \A h \in Homes : FindConnection(s, h) => Takes(s, {"listed"}, {"found"})
         /\ \A h \in Homes : OpenPage(s, h) => Takes(s, {"free"}, {"toList"})
         /\ \A r \in Repositories :
              UpsertRepository(s, r) => Takes(s, {"syncing"}, {"syncing"})
<1>0. server \in [Servers -> ServerRow] /\ server[s].stage \in Stages
  BY DEF RowsInv, Handlers, ServerRow
<1>1. ASSUME NEW row, server' = [server EXCEPT ![s] = row]
      PROVE  server'[s] = row /\ \A k \in Servers \ {s} : server'[k] = server[k]
  BY <1>0, <1>1
<1>2. /\ ConsumeAuthState(s) => Takes(s, {"checked"}, {"toList"})
      /\ UpsertInstallation(s) => Takes(s, {"listed", "found"}, {"syncing"})
  BY <1>0 DEF ConsumeAuthState, UpsertInstallation, Moves, Stage, Takes, ServerRow
<1>3. Frees(s) =>
        server'[s].stage = "free" /\ \A k \in Servers \ {s} : server'[k] = server[k]
  BY <1>0 DEF Frees, Free
<1>4. /\ RevokeInstallation(s) => Takes(s, {"toRevoke"}, {"free"})
      /\ ListingFails(s) => Takes(s, {"toList"}, {"free"})
      /\ IgnoreUnknown(s) => Takes(s, {"listed"}, {"free"})
      /\ ArchiveUnseen(s) => Takes(s, {"syncing"}, {"free"})
      /\ HandlerDies(s) => Takes(s, Stages \ {"free"}, {"free"})
  BY <1>0, <1>3 DEF RevokeInstallation, ListingFails, IgnoreUnknown,
     ArchiveUnseen, HandlerDies, Stage, Takes
<1>5. ListRepositories(s) => Takes(s, {"toList"}, {"listed", "syncing"})
  BY <1>0, <1>1 DEF ListRepositories, Stage, Takes, ServerRow
<1>6. \A t \in Tickets : CheckAuthState(s, t) => Takes(s, {"free"}, {"checked"})
  <2> SUFFICES ASSUME NEW t \in Tickets, CheckAuthState(s, t)
               PROVE  Takes(s, {"free"}, {"checked"})
    OBVIOUS
  <2>1. /\ server[s].stage = "free" /\ server'[s].stage = "checked"
        /\ \A k \in Servers \ {s} : server'[k] = server[k]
    BY <1>0 DEF CheckAuthState, Stage, Free
  <2> QED
    BY <2>1 DEF Takes
<1>7. \A i \in 1 .. Len(github.events) :
        RecordDelivery(s, i) =>
          UNCHANGED server \/ Takes(s, {"free"}, {"toRevoke", "toList"})
  <2> SUFFICES ASSUME NEW i \in 1 .. Len(github.events), RecordDelivery(s, i),
                      i \notin delivered
               PROVE  Takes(s, {"free"}, {"toRevoke", "toList"})
    BY DEF RecordDelivery
  <2>1. /\ server[s].stage = "free" /\ server'[s].stage \in {"toRevoke", "toList"}
        /\ \A k \in Servers \ {s} : server'[k] = server[k]
    BY <1>0 DEF RecordDelivery, Stage, Free
  <2> QED
    BY <2>1 DEF Takes
<1>8. /\ \A h \in Homes : FindConnection(s, h) => Takes(s, {"listed"}, {"found"})
      /\ \A h \in Homes : OpenPage(s, h) => Takes(s, {"free"}, {"toList"})
  <2>1. ASSUME NEW h \in Homes, FindConnection(s, h)
        PROVE  Takes(s, {"listed"}, {"found"})
    <3>1. server'[s].stage = "found" /\ \A k \in Servers \ {s} : server'[k] = server[k]
      BY <1>0, <2>1 DEF FindConnection, ServerRow
    <3> QED
      BY <2>1, <3>1 DEF FindConnection, Stage, Takes
  <2>2. ASSUME NEW h \in Homes, OpenPage(s, h)
        PROVE  Takes(s, {"free"}, {"toList"})
    <3>1. server'[s].stage = "toList" /\ \A k \in Servers \ {s} : server'[k] = server[k]
      BY <1>0, <2>2 DEF OpenPage, Free
    <3> QED
      BY <2>2, <3>1 DEF OpenPage, Stage, Takes
  <2> QED
    BY <2>1, <2>2
<1>9. \A r \in Repositories :
        UpsertRepository(s, r) => Takes(s, {"syncing"}, {"syncing"})
  BY <1>0, <1>1 DEF UpsertRepository, Stage, Takes, ServerRow
<1> QED
  BY <1>2, <1>4, <1>5, <1>6, <1>7, <1>8, <1>9

\* The steps of nobody's handler.
Outside ==
  \/ \E t \in Tickets : AuthStateExpires(t) \/ \E h \in Homes : CreateAuthState(t, h)
  \/ \E h \in Homes : Disconnect(h)
  \/ \E granted \in (SUBSET Repositories) \ {{}} : AccessChanges(granted)
  \/ InstallationGoes \/ InstallationReturns

LEMMA OutsideMovesNobody == Outside => UNCHANGED <<server, delivered>>
BY DEF Outside, AuthStateExpires, CreateAuthState, Disconnect, AccessChanges,
   InstallationGoes, InstallationReturns, tables

\* The steps of a handler but for its two with a state.
Handles(s) ==
  \/ RevokeInstallation(s) \/ ListRepositories(s) \/ ListingFails(s)
  \/ IgnoreUnknown(s) \/ UpsertInstallation(s) \/ ArchiveUnseen(s)
  \/ HandlerDies(s)
  \/ \E i \in 1 .. Len(github.events) : RecordDelivery(s, i)
  \/ \E h \in Homes : FindConnection(s, h) \/ OpenPage(s, h)
  \/ \E r \in Repositories : UpsertRepository(s, r)

LEMMA NextSteps ==
  ConnectionNext <=> \/ Outside
                     \/ \E s \in Servers : Handles(s) \/ ConsumeAuthState(s)
                     \/ \E s \in Servers, t \in Tickets : CheckAuthState(s, t)
BY DEF ConnectionNext, Outside, Handles

LEMMA OthersHoldNothing ==
  ASSUME RowsInv, Outside \/ \E s \in Servers : Handles(s)
  PROVE  /\ \A s \in Servers, t \in Tickets : Holding(s, t)' => Holding(s, t)
         /\ UNCHANGED <<spent, doubled>>
         /\ \A t \in Tickets :
              ticket[t].status = "consumed" => ticket'[t].status = "consumed"
<1>1. \A s \in Servers, t \in Tickets : Holding(s, t)' => Holding(s, t)
  <2>1. CASE Outside
    BY <2>1, OutsideMovesNobody DEF Holding, Stage
  <2>2. ASSUME NEW s \in Servers, Handles(s)
        PROVE  \A k \in Servers :
                 server'[k] = server[k] \/ server'[k].stage # "checked"
    BY <2>2, HandlerTakes DEF Handles, Takes
  <2> QED
    BY <2>1, <2>2 DEF Holding, Stage
<1>2. UNCHANGED <<spent, doubled>>
  BY DEF Outside, Handles, RevokeInstallation, ListRepositories, ListingFails,
     IgnoreUnknown, UpsertInstallation, ArchiveUnseen, HandlerDies,
     RecordDelivery, FindConnection, OpenPage, UpsertRepository,
     AuthStateExpires, CreateAuthState, Disconnect, AccessChanges,
     InstallationGoes, InstallationReturns, tables
<1>3. \/ UNCHANGED ticket
      \/ \E t \in Tickets : AuthStateExpires(t) \/ \E h \in Homes : CreateAuthState(t, h)
  BY DEF Outside, Handles, RevokeInstallation, ListRepositories, ListingFails,
     IgnoreUnknown, UpsertInstallation, ArchiveUnseen, HandlerDies,
     RecordDelivery, FindConnection, OpenPage, UpsertRepository,
     Disconnect, AccessChanges, InstallationGoes, InstallationReturns, tables
<1>4. \A t \in Tickets :
        ticket[t].status = "consumed" => ticket'[t].status = "consumed"
  BY <1>3 DEF AuthStateExpires, CreateAuthState, RowsInv, TicketRows, TicketRow
<1> QED
  BY <1>1, <1>2, <1>4

LEMMA NextSpent ==
  ASSUME RowsInv, SpentInv, [ConnectionNext]_connectionVars
  PROVE  SpentInv'
<1>0. /\ spent \in [Tickets -> Nat] /\ ticket \in [Tickets -> TicketRow]
      /\ server \in [Servers -> ServerRow]
  BY DEF RowsInv, TicketRows, Handlers
<1>1. CASE UNCHANGED connectionVars
  BY <1>1 DEF connectionVars, SpentInv, Holding, Stage
<1>2. CASE Outside \/ \E s \in Servers : Handles(s)
  BY <1>2, OthersHoldNothing DEF SpentInv
<1>3. ASSUME NEW s \in Servers, NEW t \in Tickets, CheckAuthState(s, t)
      PROVE  SpentInv'
  <2>1. /\ UNCHANGED <<ticket, spent>> /\ ticket[t].status = "issued"
        /\ doubled \subseteq doubled'
        /\ (\E k \in Servers : Holding(k, t)) => t \in doubled'
    BY <1>3 DEF CheckAuthState, tables, Holding
  <2>2. /\ server'[s].of = t
        /\ \A k \in Servers \ {s} : server'[k] = server[k]
        /\ ~Stage(s, "checked")
    BY <1>0, <1>3 DEF CheckAuthState, Stage, Free
  <2>3. \A k \in Servers, u \in Tickets :
          Holding(k, u)' => Holding(k, u) \/ (k = s /\ u = t)
    BY <2>2 DEF Holding, Stage
  <2> QED
    BY <2>1, <2>2, <2>3 DEF SpentInv, Holding
<1>4. ASSUME NEW s \in Servers, ConsumeAuthState(s)
      PROVE  SpentInv'
  <2> DEFINE t == server[s].of
  <2>1. t \in Tickets /\ Holding(s, t)
    BY <1>4 DEF ConsumeAuthState, Stage, Holding, RowsInv, Handlers, Shaped
  <2>2. /\ UNCHANGED doubled
        /\ spent'[t] = spent[t] + 1 /\ ticket'[t].status = "consumed"
        /\ \A u \in Tickets \ {t} : spent'[u] = spent[u] /\ ticket'[u] = ticket[u]
    BY <1>0, <1>4, <2>1 DEF ConsumeAuthState, TicketRow
  <2>3. \A k \in Servers, u \in Tickets :
          Holding(k, u)' => Holding(k, u) /\ k # s
    BY <1>4, HandlerTakes DEF Takes, Holding, Stage
  <2>4. t \notin doubled => spent[t] = 0 /\ \A k \in Servers : Holding(k, t) => k = s
    BY <1>0, <2>1 DEF SpentInv
  <2> QED
    BY <2>1, <2>2, <2>3, <2>4 DEF SpentInv
<1> QED
  BY <1>1, <1>2, <1>3, <1>4, NextSteps

\* However callbacks overlap and handlers die: a state connects a workspace
\* once, unless two callbacks had read it before either consumed it.
THEOREM StatesAreSpentOnce == ConnectionSpec => []StateSpentOnce
<1>1. ConnectionInit => SpentInv
  BY DEF ConnectionInit, SpentInv, Holding, Stage, Free
<1>2. RowsInv /\ SpentInv => StateSpentOnce
  BY DEF SpentInv, StateSpentOnce
<1> QED
  BY <1>1, <1>2, InitRows, NextRows, NextSpent, PTL DEF ConnectionSpec

-----------------------------------------------------------------------------
(***************************************************************************)
(* Nobody is connected again unasked.  A webhook writes active into a row  *)
(* it has found active; if that was no longer so, a disconnection fell     *)
(* into the time it was writing its list.                                  *)
(***************************************************************************)

WantedInv ==
  "overtaken" \notin excuse =>
    /\ \A h \in Active : wanted[h]
    /\ \A s \in Servers : Stage(s, "found") => server[s].home \in Active

LEMMA ExcuseStays ==
  ASSUME [ConnectionNext]_connectionVars
  PROVE  excuse \subseteq excuse'
BY DEF ConnectionNext, RevokeInstallation, ListRepositories, ListingFails,
   IgnoreUnknown, UpsertInstallation, ArchiveUnseen, HandlerDies,
   RecordDelivery, FindConnection, OpenPage, UpsertRepository, CheckAuthState,
   ConsumeAuthState, AuthStateExpires, CreateAuthState, Disconnect,
   AccessChanges, InstallationGoes, InstallationReturns, Excused,
   connectionVars

\* Connections change at four steps only.
LEMMA OthersLeaveConnections ==
  ASSUME [ConnectionNext]_connectionVars,
         ~\E s \in Servers : RevokeInstallation(s),
         ~\E s \in Servers : UpsertInstallation(s),
         ~\E h \in Homes : Disconnect(h)
  PROVE  UNCHANGED <<connection, wanted>>
BY DEF ConnectionNext, ListRepositories, ListingFails,
   IgnoreUnknown, ArchiveUnseen, HandlerDies,
   RecordDelivery, FindConnection, OpenPage, UpsertRepository, CheckAuthState,
   ConsumeAuthState, AuthStateExpires, CreateAuthState,
   AccessChanges, InstallationGoes, InstallationReturns, tables,
   connectionVars

LEMMA NextWanted ==
  ASSUME RowsInv, WantedInv, [ConnectionNext]_connectionVars
  PROVE  WantedInv'
<1> SUFFICES ASSUME "overtaken" \notin excuse'
             PROVE  /\ \A h \in Active' : wanted'[h]
                    /\ \A s \in Servers :
                         Stage(s, "found")' => server'[s].home \in Active'
  BY DEF WantedInv
<1>0. /\ connection \in [Homes -> {"none", "active", "revoked"}]
      /\ wanted \in [Homes -> BOOLEAN] /\ "overtaken" \notin excuse
      /\ server \in [Servers -> ServerRow]
  BY ExcuseStays DEF RowsInv, ConnectionRows, Handlers
<1>1. ASSUME NEW s \in Servers, RevokeInstallation(s)
      PROVE  Active' = {} /\ \A k \in Servers : ~Stage(k, "found")'
  <2>1. Syncing = {}
    BY <1>1 DEF RevokeInstallation, Excused
  <2>2. \A k \in Servers : server'[k] = server[k] \/ server'[k].stage = "free"
    BY <1>1, HandlerTakes DEF Takes
  <2> QED
    BY <1>1, <2>1, <2>2 DEF RevokeInstallation, Active, Syncing, Stage
<1>2. ASSUME NEW h \in Homes, Disconnect(h)
      PROVE  /\ \A g \in Active' : wanted'[g]
             /\ \A k \in Servers : ~Stage(k, "found")'
  <2>1. Syncing = {} /\ UNCHANGED server
    BY <1>2 DEF Disconnect, Excused
  <2>2. /\ connection' = [connection EXCEPT ![h] = "revoked"]
        /\ wanted' = [wanted EXCEPT ![h] = FALSE]
    BY <1>2 DEF Disconnect
  <2>3. \A g \in Active' : g # h /\ g \in Active /\ wanted'[g] = wanted[g]
    BY <1>0, <2>2 DEF Active
  <2> QED
    BY <1>0, <2>1, <2>3 DEF Syncing, Stage, WantedInv
<1>3. ASSUME NEW s \in Servers, UpsertInstallation(s)
      PROVE  /\ \A g \in Active' : wanted'[g]
             /\ \A k \in Servers : Stage(k, "found")' => server'[k].home \in Active'
  <2>1. /\ server[s].home \in Homes
        /\ server[s].kind = "callback" \/ server[s].home \in Active
    BY <1>0, <1>3 DEF UpsertInstallation, Stage, WantedInv, RowsInv, Handlers,
       Shaped
  <2>2. /\ connection' = [connection EXCEPT ![server[s].home] = "active"]
        /\ wanted' = [wanted EXCEPT ![server[s].home] = @ \/ server[s].kind = "callback"]
    BY <1>3 DEF UpsertInstallation
  <2>3. Active' = Active \cup {server[s].home}
    BY <1>0, <2>1, <2>2 DEF Active
  <2>4. \A g \in Active' : wanted'[g]
    <3>1. wanted'[server[s].home] = (wanted[server[s].home] \/ server[s].kind = "callback")
      BY <1>0, <2>1, <2>2
    <3>2. \A g \in Homes \ {server[s].home} : wanted'[g] = wanted[g]
      BY <1>0, <2>1, <2>2
    <3>3. server[s].home \in Active => wanted[server[s].home]
      BY <1>0 DEF WantedInv
    <3>4. wanted'[server[s].home]
      BY <2>1, <3>1, <3>3
    <3> QED
      BY <1>0, <2>3, <3>2, <3>4 DEF WantedInv, Active
  <2>5. \A k \in Servers : server'[k] = server[k] \/ server'[k].stage = "syncing"
    BY <1>3, HandlerTakes DEF Takes
  <2> QED
    BY <1>0, <2>3, <2>4, <2>5 DEF WantedInv, Stage
<1>4. CASE /\ ~\E s \in Servers : RevokeInstallation(s)
           /\ ~\E s \in Servers : UpsertInstallation(s)
           /\ ~\E h \in Homes : Disconnect(h)
  <2>1. UNCHANGED <<connection, wanted>> /\ Active' = Active
    BY <1>4, OthersLeaveConnections DEF Active
  <2>2. \A k \in Servers :
          Stage(k, "found")' => server'[k] = server[k] \/ server'[k].home \in Active
    <3>1. CASE UNCHANGED connectionVars \/ Outside
      BY <3>1, OutsideMovesNobody DEF connectionVars
    <3>2. ASSUME NEW s \in Servers,
                 \/ ListRepositories(s) \/ ListingFails(s) \/ IgnoreUnknown(s)
                 \/ ArchiveUnseen(s) \/ HandlerDies(s) \/ ConsumeAuthState(s)
                 \/ \E t \in Tickets : CheckAuthState(s, t)
                 \/ \E i \in 1 .. Len(github.events) : RecordDelivery(s, i)
                 \/ \E h \in Homes : OpenPage(s, h)
                 \/ \E r \in Repositories : UpsertRepository(s, r)
          PROVE  \A k \in Servers :
                   server'[k] = server[k] \/ server'[k].stage # "found"
      BY <3>2, HandlerTakes DEF Takes
    <3>3. ASSUME NEW s \in Servers, NEW h \in Homes, FindConnection(s, h)
          PROVE  \A k \in Servers :
                   server'[k] = server[k] \/ server'[k].home \in Active
      BY <1>0, <3>3 DEF FindConnection, ServerRow
    <3> QED
      BY <1>4, <3>1, <3>2, <3>3, NextSteps DEF Handles, Stage
  <2> QED
    BY <1>0, <2>1, <2>2 DEF WantedInv, Stage
<1> QED
  BY <1>1, <1>2, <1>3, <1>4

\* However webhooks, callbacks and disconnections overlap: a connection that
\* is active was asked for by a callback since it was last disconnected,
\* unless the disconnection fell into a time when a list was being written.
THEOREM NobodyIsReconnected == ConnectionSpec => []NobodyReconnectsUnasked
<1>1. ConnectionInit => WantedInv
  BY DEF ConnectionInit, WantedInv, Active, Stage, Free
<1>2. WantedInv => NobodyReconnectsUnasked
  BY DEF WantedInv, NobodyReconnectsUnasked
<1> QED
  BY <1>1, <1>2, InitRows, NextRows, NextWanted, PTL DEF ConnectionSpec

-----------------------------------------------------------------------------
(***************************************************************************)
(* The repositories follow GitHub.  Whatever GitHub has changed and the    *)
(* rows do not show yet is either a delivery nobody has recorded, a        *)
(* webhook that is about to list, or a list that is being written, and     *)
(* only one is.                                                            *)
(***************************************************************************)

Unexcused == excuse \cap {"died", "overtaken", "shared"} = {}

Ready(h) == {r \in Repositories : repository[h][r] = "ready"}

Untold(event) ==
  \E i \in DOMAIN github.events \ delivered : github.events[i] = event

PendingList ==
  \/ Untold("changed")
  \/ \E s \in Servers : Stage(s, "toList") /\ server[s].kind = "webhook"

PendingGone == Untold("gone") \/ \E s \in Servers : Stage(s, "toRevoke")

\* The list s holds will become the rows of h.
Serves(s, h) ==
  \/ server[s].stage \in {"found", "syncing"} /\ server[s].home = h
  \/ Stage(s, "listed") /\ (server[s].kind = "callback" => server[s].home = h)

OneList == \A s, k \in Syncing : s = k

ListsAreFresh ==
  github.status = "active" =>
    \A s \in Syncing : server[s].listed = github.granted \/ PendingList

RowsAreFresh ==
  github.status = "active" =>
    \A h \in Active : \/ Ready(h) = github.granted
                      \/ PendingList
                      \/ \E s \in Servers : Serves(s, h)

GoneIsPending ==
  github.status = "gone" /\ (Active # {} \/ Syncing # {}) => PendingGone

Written ==
  \A s \in Servers : Stage(s, "syncing") =>
    server[s].listed \ server[s].todo \subseteq Ready(server[s].home)

Follows == OneList /\ ListsAreFresh /\ RowsAreFresh /\ GoneIsPending /\ Written

FollowInv == Unexcused => Follows

\* What is pending stays so while no delivery is recorded, none comes and
\* nobody who is about to fetch or revoke moves on.
LEMMA PendingStays ==
  ASSUME UNCHANGED <<delivered, github.events>>,
         \A k \in Servers :
           server'[k] = server[k] \/ server[k].stage \notin {"toList", "toRevoke"}
  PROVE  (PendingList => PendingList') /\ (PendingGone => PendingGone')
<1>1. \A event : Untold(event)' <=> Untold(event)
  BY DEF Untold
<1> QED
  BY <1>1 DEF PendingList, PendingGone, Stage

LEMMA TablesStand ==
  /\ UNCHANGED connection => Active' = Active
  /\ UNCHANGED repository => \A h : Ready(h)' = Ready(h)
BY DEF Active, Ready

LEMMA WhoIsAtWork == Active \subseteq Homes /\ Syncing \subseteq Servers
BY DEF Active, Syncing

\* The handlers that hold a list, when s moves on.
LEMMA SyncingMoves ==
  ASSUME NEW s \in Servers, \A k \in Servers \ {s} : server'[k] = server[k]
  PROVE  Syncing' = {k \in Servers :
                       IF k = s THEN server'[s].stage \in {"listed", "found", "syncing"}
                       ELSE k \in Syncing}
BY DEF Syncing

\* Steps of handlers that neither hold a list nor are about to fetch or
\* revoke for a webhook.
LEMMA CalmFollows ==
  ASSUME Follows, UNCHANGED <<connection, repository, github, delivered>>,
         \A k \in Servers :
           \/ server'[k] = server[k]
           \/ /\ server[k].stage \in {"free", "checked"}
              /\ server'[k].stage \in {"checked", "toList"}
  PROVE  Follows'
<1>1. /\ Active' = Active /\ \A h : Ready(h)' = Ready(h)
      /\ \A event : Untold(event)' <=> Untold(event)
  BY DEF Active, Ready, Untold
<1>2. /\ Syncing' = Syncing
      /\ \A s \in Syncing : server'[s] = server[s]
      /\ PendingList => PendingList'
      /\ PendingGone => PendingGone'
      /\ \A s \in Servers : Stage(s, "syncing")' => Stage(s, "syncing")
                            /\ server'[s] = server[s]
  BY <1>1 DEF Syncing, PendingList, PendingGone, Stage
<1>3. \A s \in Servers, h \in Homes : Serves(s, h) => Serves(s, h)'
  BY DEF Serves, Stage
<1>4. OneList' /\ ListsAreFresh' /\ GoneIsPending'
  BY <1>1, <1>2 DEF Follows, OneList, ListsAreFresh, GoneIsPending
<1>5. RowsAreFresh'
  BY <1>1, <1>2, <1>3 DEF Follows, RowsAreFresh, Active
<1>6. Written'
  BY <1>1, <1>2 DEF Follows, Written
<1> QED
  BY <1>4, <1>5, <1>6 DEF Follows

LEMMA RecordFollows ==
  ASSUME RowsInv, Follows, NEW s \in Servers,
         NEW i \in 1 .. Len(github.events), RecordDelivery(s, i)
  PROVE  Follows'
<1>0. /\ UNCHANGED <<connection, repository>> /\ server \in [Servers -> ServerRow]
      /\ github \in Installation
      /\ UNCHANGED <<github.status, github.granted, github.events>>
      /\ DOMAIN github.events = 1 .. Len(github.events)
  BY DEF RecordDelivery, RowsInv, Handlers, Deliveries, Installation
<1>1. CASE i \in delivered
  <2>1. UNCHANGED <<server, delivered>>
    BY <1>1 DEF RecordDelivery
  <2>2. /\ Active' = Active /\ \A h : Ready(h)' = Ready(h)
        /\ \A event : Untold(event)' <=> Untold(event)
        /\ Syncing' = Syncing
    BY <1>0, <2>1 DEF Active, Ready, Untold, Syncing
  <2>3. (PendingList' <=> PendingList) /\ (PendingGone' <=> PendingGone)
    BY <2>1, <2>2 DEF PendingList, PendingGone, Stage
  <2> QED
    BY <1>0, <2>1, <2>2, <2>3 DEF Follows, OneList, ListsAreFresh,
       RowsAreFresh, GoneIsPending, Written, Serves, Stage
<1>2. CASE i \notin delivered
  <2>1. /\ delivered' = delivered \cup {i} /\ Stage(s, "free")
        /\ \A k \in Servers \ {s} : server'[k] = server[k]
        /\ server'[s].kind = "webhook"
        /\ server'[s].stage = IF github.events[i] = "gone" THEN "toRevoke"
                                                           ELSE "toList"
    BY <1>0, <1>2 DEF RecordDelivery, Free
  <2>2. /\ Active' = Active /\ \A h : Ready(h)' = Ready(h)
        /\ Syncing' = Syncing /\ s \notin Syncing
    BY <1>0, <2>1, TablesStand, SyncingMoves DEF Syncing, Stage
  <2>3. (PendingList => PendingList') /\ (PendingGone => PendingGone')
    <3>1. Untold("changed") => Untold("changed")' \/ github.events[i] = "changed"
      BY <1>0, <2>1 DEF Untold
    <3>2. Untold("gone") => Untold("gone")' \/ github.events[i] = "gone"
      BY <1>0, <2>1 DEF Untold
    <3>3. ASSUME PendingList PROVE PendingList'
      <4>1. CASE Untold("changed")
        BY <2>1, <3>1, <4>1 DEF PendingList, Stage
      <4>2. CASE \E k \in Servers : Stage(k, "toList") /\ server[k].kind = "webhook"
        BY <2>1, <4>2 DEF PendingList, Stage
      <4> QED
        BY <3>3, <4>1, <4>2 DEF PendingList
    <3>4. ASSUME PendingGone PROVE PendingGone'
      <4>1. CASE Untold("gone")
        BY <2>1, <3>2, <4>1 DEF PendingGone, Stage
      <4>2. CASE \E k \in Servers : Stage(k, "toRevoke")
        BY <2>1, <4>2 DEF PendingGone, Stage
      <4> QED
        BY <3>4, <4>1, <4>2 DEF PendingGone
    <3> QED
      BY <3>3, <3>4
  <2>4. \A k \in Servers, h \in Homes : Serves(k, h) => Serves(k, h)'
    BY <2>1 DEF Serves, Stage
  <2>5. OneList' /\ ListsAreFresh' /\ GoneIsPending'
    BY <1>0, <2>1, <2>2, <2>3, WhoIsAtWork DEF Follows, OneList, ListsAreFresh,
       GoneIsPending
  <2>6. RowsAreFresh' /\ Written'
    BY <1>0, <2>1, <2>2, <2>3, <2>4 DEF Follows, RowsAreFresh, Written, Active,
       Stage
  <2> QED
    BY <2>5, <2>6 DEF Follows
<1> QED
  BY <1>1, <1>2

LEMMA RevokeFollows ==
  ASSUME RowsInv, Syncing = {}, NEW s \in Servers, RevokeInstallation(s)
  PROVE  Follows'
<1>1. Active' = {}
  BY DEF RevokeInstallation, Active
<1>2. \A k \in Servers : server'[k] = server[k] \/ server'[k].stage = "free"
  BY HandlerTakes DEF Takes
<1>3. Syncing' = {}
  BY <1>2 DEF Syncing
<1>4. Written'
  BY <1>3 DEF Written, Syncing, Stage
<1> QED
  BY <1>1, <1>3, <1>4 DEF Follows, OneList, ListsAreFresh, RowsAreFresh,
     GoneIsPending

LEMMA ListFollows ==
  ASSUME RowsInv, Follows, Syncing = {}, NEW s \in Servers, ListRepositories(s)
  PROVE  Follows'
<1>0. /\ server \in [Servers -> ServerRow] /\ Stage(s, "toList")
      /\ server[s].kind \in {"callback", "webhook", "resync"}
      /\ UNCHANGED <<connection, repository, delivered, github>>
      /\ github.status = "active"
  BY DEF ListRepositories, tables, RowsInv, Handlers, Shaped, ServerRow, Stage
<1>1. /\ server'[s] = [server[s] EXCEPT !.listed = github.granted,
                         !.todo = github.granted,
                         !.stage = IF server[s].kind = "resync" THEN "syncing"
                                                                ELSE "listed"]
      /\ \A k \in Servers \ {s} : server'[k] = server[k]
  BY <1>0 DEF ListRepositories
<1>2. /\ server'[s].listed = github.granted /\ server'[s].todo = github.granted
      /\ server'[s].kind = server[s].kind /\ server'[s].home = server[s].home
      /\ server'[s].stage = IF server[s].kind = "resync" THEN "syncing" ELSE "listed"
  BY <1>0, <1>1 DEF ServerRow
<1>3. Syncing' = {s}
  BY <1>1, <1>2, Syncing = {} DEF Syncing
<1>4. Active' = Active /\ \A h : Ready(h)' = Ready(h)
  BY <1>0 DEF Active, Ready
<1>5. RowsAreFresh'
  <2>1. \A k \in Servers, h \in Homes : ~Serves(k, h)
    BY DEF Serves, Syncing, Stage
  <2>2. CASE server[s].kind = "webhook"
    BY <1>0, <1>2, <2>2 DEF RowsAreFresh, Serves, Stage
  <2>3. CASE server[s].kind # "webhook"
    <3>1. PendingList => PendingList'
      BY <1>0, <1>1, <2>3 DEF PendingList, Untold, Stage
    <3> QED
      BY <1>0, <1>4, <2>1, <3>1 DEF Follows, RowsAreFresh, Active
  <2> QED
    BY <2>2, <2>3
<1>6. OneList' /\ ListsAreFresh' /\ GoneIsPending'
  BY <1>0, <1>2, <1>3 DEF OneList, ListsAreFresh, GoneIsPending
<1>7. Written'
  BY <1>2, <1>3 DEF Written, Syncing, Stage
<1> QED
  BY <1>5, <1>6, <1>7 DEF Follows

LEMMA FailureFollows ==
  ASSUME RowsInv, Follows, NEW s \in Servers, ListingFails(s)
  PROVE  Follows'
<1>0. /\ UNCHANGED <<connection, repository, delivered>>
      /\ UNCHANGED <<github.status, github.granted, github.events>>
      /\ github.status = "gone"
      /\ Stage(s, "toList") /\ server'[s].stage = "free"
      /\ \A k \in Servers \ {s} : server'[k] = server[k]
  BY HandlerTakes DEF ListingFails, tables, Answered, RowsInv, Deliveries,
     Installation, Takes, Stage
<1>1. /\ Active' = Active /\ \A h : Ready(h)' = Ready(h)
      /\ Syncing' = Syncing
      /\ PendingGone => PendingGone'
  <2>1. \A event : Untold(event)' <=> Untold(event)
    BY <1>0 DEF Untold
  <2>2. PendingGone => PendingGone'
    BY <1>0, <2>1 DEF PendingGone, Stage
  <2> QED
    BY <1>0, <2>2, TablesStand, SyncingMoves DEF Syncing, Stage
<1>2. OneList' /\ ListsAreFresh' /\ RowsAreFresh' /\ GoneIsPending'
  BY <1>0, <1>1 DEF Follows, OneList, ListsAreFresh, RowsAreFresh, GoneIsPending
<1>3. Written'
  BY <1>0, <1>1 DEF Follows, Written, Stage
<1> QED
  BY <1>2, <1>3 DEF Follows

LEMMA FindFollows ==
  ASSUME RowsInv, Follows, NEW s \in Servers, NEW h \in Homes,
         Active = {h}, FindConnection(s, h)
  PROVE  Follows'
<1>0. /\ UNCHANGED <<connection, repository, delivered, github>>
      /\ server \in [Servers -> ServerRow] /\ Stage(s, "listed")
  BY DEF FindConnection, tables, RowsInv, Handlers
<1>1. /\ server'[s].stage = "found" /\ server'[s].home = h
      /\ server'[s].listed = server[s].listed
      /\ \A k \in Servers \ {s} : server'[k] = server[k]
  BY <1>0 DEF FindConnection, ServerRow
<1>2. /\ Active' = {h} /\ \A g : Ready(g)' = Ready(g)
      /\ Syncing' = Syncing /\ Serves(s, h)'
      /\ PendingList => PendingList'
      /\ PendingGone => PendingGone'
  BY <1>0, <1>1, TablesStand, SyncingMoves, PendingStays DEF Syncing, Serves, Stage
<1>3. ListsAreFresh'
  BY <1>0, <1>1, <1>2, WhoIsAtWork DEF Follows, ListsAreFresh
<1>4. OneList' /\ RowsAreFresh' /\ GoneIsPending'
  BY <1>0, <1>2 DEF Follows, OneList, RowsAreFresh, GoneIsPending
<1>5. Written'
  BY <1>0, <1>1, <1>2 DEF Follows, Written, Stage
<1> QED
  BY <1>3, <1>4, <1>5 DEF Follows

LEMMA IgnoreFollows ==
  ASSUME RowsInv, Follows, NEW s \in Servers, IgnoreUnknown(s)
  PROVE  Follows'
<1>0. /\ UNCHANGED <<connection, repository, delivered>>
      /\ UNCHANGED <<github.status, github.granted, github.events>>
      /\ Stage(s, "listed") /\ server'[s].stage = "free" /\ Active = {}
      /\ \A k \in Servers \ {s} : server'[k] = server[k]
  BY HandlerTakes DEF IgnoreUnknown, tables, Answered, RowsInv, Deliveries,
     Installation, Takes, Stage
<1>1. /\ Active' = {} /\ \A h : Ready(h)' = Ready(h)
      /\ Syncing' \subseteq Syncing /\ s \notin Syncing'
      /\ PendingGone => PendingGone'
      /\ PendingList => PendingList'
  BY <1>0, TablesStand, SyncingMoves, PendingStays DEF Syncing, Stage
<1>2. Written'
  BY <1>0, <1>1 DEF Follows, Written, Stage
<1>3. OneList' /\ ListsAreFresh' /\ RowsAreFresh' /\ GoneIsPending'
  <2>1. \A k \in Syncing' : k \in Syncing /\ server'[k] = server[k]
    BY <1>0, <1>1, WhoIsAtWork
  <2> QED
    BY <1>0, <1>1, <2>1 DEF Follows, OneList, ListsAreFresh, RowsAreFresh,
       GoneIsPending
<1> QED
  BY <1>2, <1>3 DEF Follows

LEMMA ConnectFollows ==
  ASSUME RowsInv, Follows, NEW s \in Servers, UpsertInstallation(s)
  PROVE  Follows'
<1>0. /\ UNCHANGED <<repository, delivered, github>>
      /\ server \in [Servers -> ServerRow]
      /\ server[s].stage \in {"listed", "found"} /\ server[s].home \in Homes
      /\ connection \in [Homes -> {"none", "active", "revoked"}]
      /\ server[s].todo = server[s].listed
      /\ Stage(s, "listed") => server[s].kind = "callback"
  BY DEF UpsertInstallation, RowsInv, Handlers, Shaped, ConnectionRows, Stage
<1>1. /\ server'[s].stage = "syncing" /\ server'[s].home = server[s].home
      /\ server'[s].listed = server[s].listed /\ server'[s].todo = server[s].todo
      /\ server'[s].kind = server[s].kind
      /\ \A k \in Servers \ {s} : server'[k] = server[k]
  BY <1>0 DEF UpsertInstallation, Moves, ServerRow
<1>2. /\ Active' = Active \cup {server[s].home} /\ \A g : Ready(g)' = Ready(g)
      /\ Syncing' = Syncing /\ s \in Syncing
      /\ PendingList => PendingList'
      /\ PendingGone => PendingGone'
  <2>1. connection' = [connection EXCEPT ![server[s].home] = "active"]
    BY DEF UpsertInstallation
  <2>2. Active' = Active \cup {server[s].home}
    BY <1>0, <2>1 DEF Active
  <2> QED
    BY <1>0, <1>1, <2>2, TablesStand, SyncingMoves, PendingStays DEF Syncing
<1>3. /\ \A k \in Servers, h \in Homes : Serves(k, h) => Serves(k, h)'
      /\ \A g : g = server[s].home => Serves(s, g)'
  BY <1>0, <1>1 DEF Serves, Stage
<1>4. ListsAreFresh' /\ OneList' /\ GoneIsPending'
  BY <1>0, <1>1, <1>2 DEF Follows, ListsAreFresh, OneList, GoneIsPending
<1>5. RowsAreFresh'
  <2> SUFFICES ASSUME NEW h \in Active', ~PendingList', github.status = "active"
               PROVE  Ready(h)' = github.granted \/ \E k \in Servers : Serves(k, h)'
    BY <1>0 DEF RowsAreFresh
  <2>1. CASE h = server[s].home
    BY <1>3, <2>1
  <2>2. CASE h \in Active
    <3>1. Ready(h) = github.granted \/ \E k \in Servers : Serves(k, h)
      BY <1>2, <2>2 DEF Follows, RowsAreFresh
    <3> QED
      BY <1>2, <1>3, <2>2, <3>1, WhoIsAtWork
  <2> QED
    BY <1>2, <2>1, <2>2
<1>6. Written'
  BY <1>0, <1>1, <1>2 DEF Follows, Written, Stage
<1> QED
  BY <1>4, <1>5, <1>6 DEF Follows

LEMMA UpsertFollows ==
  ASSUME RowsInv, Follows, NEW s \in Servers, NEW r \in Repositories,
         UpsertRepository(s, r)
  PROVE  Follows'
<1>0. /\ UNCHANGED <<connection, delivered, github>>
      /\ server \in [Servers -> ServerRow]
      /\ Stage(s, "syncing") /\ server[s].home \in Homes
      /\ repository \in [Homes -> [Repositories -> {"none", "ready", "archived"}]]
  BY DEF UpsertRepository, RowsInv, Handlers, Shaped, ConnectionRows, Stage
<1>1. /\ server'[s].stage = "syncing" /\ server'[s].home = server[s].home
      /\ server'[s].listed = server[s].listed
      /\ server'[s].todo = server[s].todo \ {r}
      /\ \A k \in Servers \ {s} : server'[k] = server[k]
  BY <1>0 DEF UpsertRepository, ServerRow, Stage
<1>2. /\ \A h \in Homes \ {server[s].home} : Ready(h)' = Ready(h)
      /\ Ready(server[s].home)' = Ready(server[s].home) \cup {r}
  BY <1>0 DEF UpsertRepository, Ready
<1>3. /\ Active' = Active /\ Syncing' = Syncing /\ s \in Syncing
      /\ PendingList => PendingList'
      /\ PendingGone => PendingGone'
  BY <1>0, <1>1, TablesStand, SyncingMoves, PendingStays DEF Syncing, Stage
<1>4. /\ \A k \in Servers, h \in Homes : Serves(k, h) => Serves(k, h)'
      /\ \A g : g = server[s].home => Serves(s, g)'
  BY <1>0, <1>1 DEF Serves, Stage
<1>5. ListsAreFresh' /\ OneList' /\ GoneIsPending'
  BY <1>0, <1>1, <1>3 DEF Follows, ListsAreFresh, OneList, GoneIsPending
<1>6. RowsAreFresh'
  <2> SUFFICES ASSUME NEW h \in Active, ~PendingList', github.status = "active"
               PROVE  Ready(h)' = github.granted \/ \E k \in Servers : Serves(k, h)'
    BY <1>0, <1>3 DEF RowsAreFresh
  <2>1. CASE h = server[s].home
    BY <1>4, <2>1
  <2>2. CASE h # server[s].home
    <3>1. Ready(h) = github.granted \/ \E k \in Servers : Serves(k, h)
      BY <1>3 DEF Follows, RowsAreFresh
    <3> QED
      BY <1>2, <1>4, <2>2, <3>1, WhoIsAtWork
  <2> QED
    BY <2>1, <2>2
<1>7. Written'
  <2>1. \A k \in Servers : Stage(k, "syncing")' => k = s
    BY <1>0, <1>3 DEF Follows, OneList, Syncing, Stage
  <2>2. server[s].listed \ server[s].todo \subseteq Ready(server[s].home)
    BY <1>0 DEF Follows, Written
  <2> QED
    BY <1>1, <1>2, <2>1, <2>2 DEF Written
<1> QED
  BY <1>5, <1>6, <1>7 DEF Follows

LEMMA ArchiveFollows ==
  ASSUME RowsInv, Follows, NEW s \in Servers, ArchiveUnseen(s)
  PROVE  Follows'
<1>0. /\ UNCHANGED <<connection, delivered>>
      /\ UNCHANGED <<github.status, github.granted, github.events>>
      /\ server[s] \in ServerRow /\ server[s].todo = {}
      /\ Stage(s, "syncing") /\ server[s].home \in Homes
      /\ repository \in [Homes -> [Repositories -> {"none", "ready", "archived"}]]
  BY DEF ArchiveUnseen, Answered, RowsInv, Handlers, Shaped, ConnectionRows,
     Deliveries, Installation, Stage
<1>1. server'[s].stage = "free" /\ \A k \in Servers \ {s} : server'[k] = server[k]
  BY HandlerTakes DEF Takes
<1>2. /\ \A h \in Homes \ {server[s].home} : Ready(h)' = Ready(h)
      /\ {r \in Repositories : repository'[server[s].home][r] = "ready"} =
           server[s].listed
  <2>1. server[s].listed \subseteq Ready(server[s].home)
    BY <1>0 DEF Follows, Written
  <2>2. repository' = [repository EXCEPT ![server[s].home] =
          [r \in Repositories |->
             IF r \in server[s].listed \/ @[r] = "none" THEN @[r] ELSE "archived"]]
    BY DEF ArchiveUnseen
  <2>3. \A r \in Repositories :
          repository'[server[s].home][r] =
            IF r \in server[s].listed \/ repository[server[s].home][r] = "none"
            THEN repository[server[s].home][r] ELSE "archived"
    BY <1>0, <2>2
  <2>4. \A h \in Homes \ {server[s].home} : repository'[h] = repository[h]
    BY <1>0, <2>2
  <2>5. \A h \in Homes \ {server[s].home} : Ready(h)' = Ready(h)
    BY <2>4 DEF Ready
  <2>6. server[s].listed \subseteq Repositories
    BY <1>0 DEF ServerRow
  <2>7. ASSUME NEW r \in Repositories
        PROVE  repository'[server[s].home][r] = "ready" <=> r \in server[s].listed
    <3>1. r \in server[s].listed => repository[server[s].home][r] = "ready"
      BY <2>1 DEF Ready
    <3> QED
      BY <2>3, <3>1
  <2> QED
    BY <2>5, <2>6, <2>7
<1>3. /\ Active' = Active /\ Syncing = {s} /\ Syncing' = {}
      /\ PendingList => PendingList'
      /\ PendingGone => PendingGone'
  <2>1. Syncing = {s}
    BY <1>0 DEF Follows, OneList, Syncing, Stage
  <2>2. Syncing' = {}
    BY <1>1, <2>1 DEF Syncing
  <2> QED
    BY <1>0, <1>1, <2>1, <2>2, TablesStand, PendingStays DEF Stage
<1>4. \A k \in Servers, h \in Homes : Serves(k, h) => k = s /\ h = server[s].home
  BY <1>0, <1>3 DEF Serves, Syncing, Stage
<1>5. RowsAreFresh'
  <2> SUFFICES ASSUME NEW h \in Active, ~PendingList', github.status = "active"
               PROVE  Ready(h)' = github.granted
    BY <1>0, <1>3 DEF RowsAreFresh
  <2>1. CASE h = server[s].home
    <3>1. Ready(h)' = {r \in Repositories : repository'[h][r] = "ready"}
      BY DEF Ready
    <3> QED
      BY <1>2, <1>3, <2>1, <3>1 DEF Follows, ListsAreFresh
  <2>2. CASE h # server[s].home
    BY <1>2, <1>3, <1>4, <2>2, WhoIsAtWork DEF Follows, RowsAreFresh
  <2> QED
    BY <2>1, <2>2
<1>6. Written'
  BY <1>3 DEF Written, Syncing, Stage
<1>7. ListsAreFresh' /\ OneList' /\ GoneIsPending'
  BY <1>0, <1>3 DEF Follows, ListsAreFresh, OneList, GoneIsPending
<1> QED
  BY <1>5, <1>6, <1>7 DEF Follows

LEMMA DisconnectFollows ==
  ASSUME RowsInv, Follows, NEW h \in Homes, Disconnect(h)
  PROVE  Follows'
<1>0. /\ UNCHANGED <<repository, server, github, delivered>>
      /\ connection \in [Homes -> {"none", "active", "revoked"}]
      /\ connection' = [connection EXCEPT ![h] = "revoked"]
  BY DEF Disconnect, RowsInv, ConnectionRows
<1>1. /\ Active' \subseteq Active /\ \A g : Ready(g)' = Ready(g)
      /\ Syncing' = Syncing
      /\ PendingList <=> PendingList'
      /\ PendingGone <=> PendingGone'
      /\ \A k \in Servers, g \in Homes : Serves(k, g) => Serves(k, g)'
  BY <1>0 DEF Active, Ready, Syncing, PendingList, PendingGone, Untold, Serves,
     Stage
<1>2. ListsAreFresh' /\ OneList' /\ GoneIsPending' /\ Written'
  BY <1>0, <1>1 DEF Follows, ListsAreFresh, OneList, GoneIsPending, Written,
     Stage
<1>3. RowsAreFresh'
  BY <1>0, <1>1 DEF Follows, RowsAreFresh, Active
<1> QED
  BY <1>2, <1>3 DEF Follows

\* Whatever GitHub changes comes with a delivery nobody has recorded yet.
LEMMA GitHubFollows ==
  ASSUME RowsInv, Follows,
         \/ \E granted \in (SUBSET Repositories) \ {{}} : AccessChanges(granted)
         \/ InstallationGoes \/ InstallationReturns
  PROVE  Follows'
<1>0. /\ UNCHANGED <<connection, repository, delivered, server>>
      /\ github \in Installation /\ delivered \subseteq DOMAIN github.events
  BY DEF AccessChanges, InstallationGoes, InstallationReturns, tables, RowsInv,
     Deliveries
<1>1. ASSUME NEW event \in {"changed", "gone"}, NEW g \in Installation,
             g.events = github.events, Tells(event, g)
      PROVE  Untold(event)' /\ github'.status = g.status
  <2>1. /\ github'.events = Append(github.events, event)
        /\ github'.status = g.status
    BY <1>1 DEF Tells, Installation
  <2>2. Len(github.events) + 1 \in DOMAIN github'.events \ delivered
    BY <1>0, <2>1 DEF Installation
  <2>3. github'.events[Len(github.events) + 1] = event
    BY <1>0, <2>1 DEF Installation
  <2> QED
    BY <1>0, <2>1, <2>2, <2>3 DEF Untold
<1>2. \/ Untold("changed")' /\ github'.status = "active"
      \/ Untold("gone")' /\ github'.status = "gone"
  <2>1. ASSUME NEW granted \in (SUBSET Repositories) \ {{}}, AccessChanges(granted)
        PROVE  Untold("changed")' /\ github'.status = "active"
    <3>1. /\ [github EXCEPT !.granted = granted] \in Installation
          /\ [github EXCEPT !.granted = granted].status = "active"
          /\ [github EXCEPT !.granted = granted].events = github.events
      BY <1>0, <2>1 DEF AccessChanges, Installation
    <3> QED
      BY <1>1, <2>1, <3>1 DEF AccessChanges
  <2>2. CASE InstallationGoes
    <3>1. /\ [github EXCEPT !.status = "gone"] \in Installation
          /\ [github EXCEPT !.status = "gone"].status = "gone"
          /\ [github EXCEPT !.status = "gone"].events = github.events
      BY <1>0 DEF Installation
    <3> QED
      BY <1>1, <2>2, <3>1 DEF InstallationGoes
  <2>3. CASE InstallationReturns
    <3>1. /\ [github EXCEPT !.status = "active"] \in Installation
          /\ [github EXCEPT !.status = "active"].status = "active"
          /\ [github EXCEPT !.status = "active"].events = github.events
      BY <1>0 DEF Installation
    <3> QED
      BY <1>1, <2>3, <3>1 DEF InstallationReturns
  <2> QED
    BY <2>1, <2>2, <2>3
<1>3. ListsAreFresh' /\ RowsAreFresh' /\ GoneIsPending'
  BY <1>2 DEF ListsAreFresh, RowsAreFresh, GoneIsPending, PendingList, PendingGone
<1>4. OneList' /\ Written'
  BY <1>0 DEF Follows, OneList, Written, Syncing, Ready, Stage
<1> QED
  BY <1>3, <1>4 DEF Follows

LEMMA NextFollow ==
  ASSUME RowsInv, FollowInv, [ConnectionNext]_connectionVars
  PROVE  FollowInv'
<1> SUFFICES ASSUME Unexcused', Follows
             PROVE  Follows'
  BY ExcuseStays DEF FollowInv, Unexcused
<1>1. CASE UNCHANGED connectionVars
  BY <1>1, CalmFollows DEF connectionVars
<1>2. ASSUME NEW s \in Servers,
             \/ ConsumeAuthState(s) \/ \E t \in Tickets : CheckAuthState(s, t)
             \/ \E h \in Homes : OpenPage(s, h)
      PROVE  Follows'
  BY <1>2, HandlerTakes, CalmFollows DEF ConsumeAuthState, CheckAuthState,
     OpenPage, tables, Takes
<1>3. CASE \E t \in Tickets : AuthStateExpires(t) \/ \E h \in Homes : CreateAuthState(t, h)
  BY <1>3, CalmFollows DEF AuthStateExpires, CreateAuthState
<1>4. ASSUME NEW s \in Servers, RevokeInstallation(s) PROVE Follows'
  BY <1>4, RevokeFollows DEF RevokeInstallation, Excused, Unexcused
<1>5. ASSUME NEW s \in Servers, ListRepositories(s) PROVE Follows'
  BY <1>5, ListFollows DEF ListRepositories, Excused, Unexcused
<1>6. ASSUME NEW s \in Servers, NEW h \in Homes, FindConnection(s, h)
      PROVE  Follows'
  BY <1>6, FindFollows DEF FindConnection, Excused, Unexcused
<1>7. ASSUME NEW s \in Servers, HandlerDies(s) PROVE Follows'
  BY <1>7 DEF HandlerDies, Excused, Unexcused
<1> QED
  BY <1>1, <1>2, <1>3, <1>4, <1>5, <1>6, <1>7, RecordFollows, FailureFollows,
     IgnoreFollows, ConnectFollows, UpsertFollows, ArchiveFollows,
     DisconnectFollows, GitHubFollows DEF ConnectionNext

\* However deliveries are repeated, late or out of order, and callbacks,
\* pages and disconnections fall between them: once all are answered the
\* rows show what GitHub grants, unless a handler died, two lists were
\* written across each other or the installation is shared.
THEOREM ExportsFollow == ConnectionSpec => []ExportsFollowGitHub
<1>1. ConnectionInit => FollowInv
  BY DEF ConnectionInit, FollowInv, Follows, OneList, ListsAreFresh,
     RowsAreFresh, GoneIsPending, Written, Syncing, Active, Stage, Free
<1>2. RowsInv /\ FollowInv => ExportsFollowGitHub
  <2> SUFFICES ASSUME RowsInv, Follows, Settled, NEW h \in Homes
               PROVE  IF github.status = "gone" THEN Exportable(h) = {}
                      ELSE Exportable(h) = {r \in github.granted : h \in Active}
    BY DEF FollowInv, Unexcused, ExportsFollowGitHub
  <2>1. ~PendingList /\ ~PendingGone
    BY DEF Settled, RowsInv, Deliveries, PendingList, PendingGone, Untold, Stage
  <2>2. \A s \in Servers : ~Serves(s, h)
    BY DEF Settled, Serves, Stage
  <2>3. Exportable(h) = IF h \in Active THEN Ready(h) ELSE {}
    BY DEF Exportable, Active, Ready
  <2>4. CASE github.status = "gone"
    BY <2>1, <2>3, <2>4 DEF Follows, GoneIsPending
  <2>5. CASE github.status = "active"
    BY <2>1, <2>2, <2>3, <2>5 DEF Follows, RowsAreFresh
  <2> QED
    BY <2>4, <2>5 DEF RowsInv, Deliveries, Installation
<1> QED
  BY <1>1, <1>2, InitRows, NextRows, NextFollow, PTL DEF ConnectionSpec

\* The three together: the rows of a connection are what its user and GitHub
\* said last.
THEOREM ConnectionsAreTrue == ConnectionSpec => []ConnectionIsTrue
BY StatesAreSpentOnce, NobodyIsReconnected, ExportsFollow, PTL
   DEF ConnectionIsTrue

=============================================================================
