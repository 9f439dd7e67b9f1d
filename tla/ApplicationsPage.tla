-------------------------- MODULE ApplicationsPage --------------------------
(***************************************************************************)
(* The page a user sees: Keycloak's clients and the user's roles become    *)
(* the applications of a grid with environment tabs and a view toggle.     *)
(* The container is filled over HTMX; every tab, toggle and retry button   *)
(* asks for a new grid with what it knows, several requests may be under   *)
(* way, and the answers land in any order or not at all.  The list of      *)
(* clients comes from the cache of AdminClient, which others fill, too.    *)
(*                                                                         *)
(* Environments and spaces are numbered in the order of sort.Strings.      *)
(***************************************************************************)
EXTENDS Naturals

CONSTANTS
  Clients,      \* client IDs
  Internal,     \* those of isInternalClient, the portal's own included
  Names,        \* values of env-... and of the env parameter
  Spaces,       \* values of space-...
  Other,        \* the space "other"
  Arrives,      \* Arrives[e]: what the server reads after buildURL wrote e
  CutsView,     \* names with a '#', after which the view parameter is lost
  Catalogues,   \* lists GetClients may give: client ID -> OptionalClientScopes
  Claims,       \* the resource_access claims the user's token may carry
  Nothing,      \* an empty cache
  Requests,     \* requests of the page in flight
  MaxOpens, MaxClicks, MaxChanges    \* bounds: page loads, clicks, changes

None == 0      \* the empty string
Views == {"card", "list"}
Malformed == [c \in Clients |-> "malformed"]   \* claims that do not decode
NoRoles   == [c \in Clients |-> "absent"]
Roles     == [Clients -> {"absent", "empty", "some"}]

ASSUME NamesAssumption ==
  /\ Names \subseteq Nat \ {None} /\ Spaces \subseteq Nat \ {None} /\ Other \in Spaces
  /\ Arrives \in [Names -> Names \cup {None}]
  /\ CutsView \subseteq Names

ASSUME CataloguesAssumption ==
  /\ Nothing \notin Catalogues
  /\ Internal \subseteq Clients
  /\ \A list \in Catalogues :
       /\ DOMAIN list \subseteq Clients
       /\ \A c \in DOMAIN list : \A i \in DOMAIN list[c] :
            /\ i \in Nat
            /\ \/ list[c][i] \in {"env"} \X (Names \cup {None})
               \/ list[c][i] \in {"space"} \X (Spaces \cup {None})
               \/ list[c][i] \in {"scope"} \X {None}
  /\ Claims \subseteq Roles \cup {Malformed}
  /\ {MaxOpens, MaxClicks, MaxChanges} \subseteq Nat

---------------------------------------------------------------------------
(* ApplicationService: from a client to an application *)

Least(S) == CHOOSE e \in S : \A f \in S : e <= f

\* The first scope of the category, if there is one.
extractScopeCategory(scopes, category) ==
  LET at == {i \in DOMAIN scopes : scopes[i][1] = category}
  IN  IF at = {} THEN None ELSE scopes[Least(at)][2]

transformClientToApplication(c, scopes) ==
  [client |-> c,
   space  |-> extractScopeCategory(scopes, "space"),
   env    |-> extractScopeCategory(scopes, "env")]

\* Slip: a client counts as accessible when the claims mention it.
Mentioned(roles, c) == roles[c] # "absent"

HasAccess(roles, c) == roles[c] = "some"

isInternalClient(c) == c \in Internal

GetApplicationsForUser(list, roles) ==
  {transformClientToApplication(c, list[c]) :
     c \in {d \in DOMAIN list : ~ isInternalClient(d) /\ HasAccess(roles, d)}}

---------------------------------------------------------------------------
(* RenderApplications and the templates *)

extractEnvironments(apps) == {a.env : a \in apps} \ {None}

filterByEnvironment(apps, env) ==
  IF env = None THEN apps ELSE {a \in apps : a.env = env}

SpaceOf(a) == IF a.space = None THEN Other ELSE a.space

groupBySpace(apps) ==
  [s \in {SpaceOf(a) : a \in apps} |-> {a \in apps : SpaceOf(a) = s}]

Urls == [env : Names \cup {None}, view : Views \cup {""}]

\* The env value is not escaped, so the server may read another one.
buildURL(env, view) ==
  IF env = None THEN [env |-> None, view |-> view]
  ELSE [env |-> Arrives[env], view |-> IF env \in CutsView THEN "" ELSE view]

\* What the container holds. "all" is a history field: the applications of
\* the user that the grid was rendered from.
Notice(kind, view) ==
  [kind |-> kind, env |-> None, view |-> view,
   tabs |-> {}, groups |-> groupBySpace({}), all |-> {}]

Blank   == Notice("blank", "card")     \* the container of a new page
Login   == Notice("login", "card")     \* HX-Redirect: /auth/login
Refused == Notice("refused", "card")   \* status 500, not swapped in

ViewOf(url) == IF url.view = "" THEN "card" ELSE url.view

EnvOf(url, apps) ==
  LET environments == extractEnvironments(apps)
  IN  IF url.env = None /\ environments # {} THEN Least(environments) ELSE url.env

\* Slip: the tabs are taken from the applications left by the filter.
TabsOfShown(apps, url) ==
  LET shown == filterByEnvironment(apps, EnvOf(url, apps))
  IN  [kind |-> "grid", env |-> EnvOf(url, apps), view |-> ViewOf(url),
       tabs |-> extractEnvironments(shown), groups |-> groupBySpace(shown), all |-> apps]

ApplicationsGrid(apps, url) ==
  [kind |-> "grid", env |-> EnvOf(url, apps), view |-> ViewOf(url),
   tabs |-> extractEnvironments(apps),
   groups |-> groupBySpace(filterByEnvironment(apps, EnvOf(url, apps))),
   all |-> apps]

\* Slip: the retry button starts anew.
ErrorPanelInCards(url) == Notice("error", "card")

ErrorPanel(url) == Notice("error", ViewOf(url))

ShownApps(body) == UNION {body.groups[s] : s \in DOMAIN body.groups}

\* The buttons of a grid or of an error panel, and where they lead.
TabUrl(body, t)    == buildURL(t, body.view)
ToggleUrl(body, v) == buildURL(body.env, v)
RetryUrl(body)     == [env |-> None, view |-> body.view]

---------------------------------------------------------------------------
VARIABLES
  tier2,      \* IsIntrospectionEnabled
  realm,      \* Keycloak's clients now
  claims,     \* what the user's token says now
  cached,     \* the list in AdminClient's cache, or nothing
  request,    \* request[r]: its stage, URL, roles and answer; history: the
              \* choice before the click
  page,       \* the content of the container
  choice,     \* history: environment and view the user has chosen last
  smooth,     \* history: since the page was opened no two requests met and no
              \* tab was clicked whose name does not survive its URL
  granted,    \* history: clients the user has ever had a role of
  lost,       \* history: the page's first answer was lost or refused
  opens, clicks, changes   \* counters for the bounds

backend == <<realm, claims, cached>>
history == <<choice, smooth, granted, lost>>
counters == <<opens, clicks, changes>>
vars == <<tier2, backend, request, page, history, counters>>

Start   == [env |-> None, view |-> "card"]
Idle    == [stage |-> "idle", url |-> Start, roles |-> NoRoles, body |-> Blank, before |-> Start]
Sent(url, ch) == [stage |-> "sent", url |-> url, roles |-> NoRoles, body |-> Blank, before |-> ch]

InFlight == {r \in Requests : request[r].stage # "idle"}

RolesIn(c) == {d \in Clients : c[d] = "some"}

Init ==
  /\ tier2 \in BOOLEAN
  /\ realm \in Catalogues /\ claims \in Claims /\ cached = Nothing
  /\ request = [r \in Requests |-> Idle]
  /\ page = Login
  /\ choice = Start /\ smooth = TRUE /\ lost = FALSE
  /\ granted = RolesIn(claims)
  /\ opens = 0 /\ clicks = 0 /\ changes = 0

---------------------------------------------------------------------------
(* Keycloak's administrators, other users, and time *)

ChangeClients ==
  /\ changes < MaxChanges
  /\ realm' \in Catalogues
  /\ changes' = changes + 1
  /\ UNCHANGED <<tier2, claims, cached, request, page, history, opens, clicks>>

\* The token is refreshed, or the session is another user's.
ChangeClaims ==
  /\ changes < MaxChanges
  /\ claims' \in Claims
  /\ granted' = granted \cup RolesIn(claims')
  /\ changes' = changes + 1
  /\ UNCHANGED <<tier2, realm, cached, request, page, choice, smooth, lost, opens, clicks>>

\* The request of another page fills the cache.
OtherFetches ==
  /\ cached = Nothing
  /\ cached' = realm
  /\ UNCHANGED <<tier2, realm, claims, request, page, history, counters>>

CacheExpires ==
  /\ cached # Nothing
  /\ cached' = Nothing
  /\ UNCHANGED <<tier2, realm, claims, request, page, history, counters>>

---------------------------------------------------------------------------
(* The browser *)

\* RenderIndex: the page is opened or reloaded, an empty container asks for
\* its content once, and nothing is left of the page before.
Index(r) ==
  /\ opens < MaxOpens
  /\ opens' = opens + 1
  /\ page' = Blank
  /\ request' = [q \in Requests |->
                   IF q = r THEN Sent([env |-> None, view |-> "card"], Start) ELSE Idle]
  /\ choice' = Start /\ smooth' = TRUE /\ lost' = FALSE
  /\ UNCHANGED <<tier2, backend, granted, clicks, changes>>

Ask(r, url, ch, survives) ==
  /\ request[r].stage = "idle" /\ clicks < MaxClicks
  /\ request' = [request EXCEPT ![r] = Sent(url, choice)]
  /\ choice' = ch
  /\ smooth' = (smooth /\ survives /\ InFlight = {})
  /\ clicks' = clicks + 1
  /\ UNCHANGED <<tier2, backend, page, granted, lost, opens, changes>>

Survives(e) == e = None \/ (Arrives[e] = e /\ e \notin CutsView)

ClickTab(r, t) ==
  /\ page.kind = "grid" /\ t \in page.tabs
  /\ Ask(r, TabUrl(page, t), [choice EXCEPT !.env = t], Survives(t))

\* The toggle keeps the environment shown, also one nobody has asked for.
ClickView(r, v) ==
  /\ page.kind = "grid"
  /\ Ask(r, ToggleUrl(page, v), [env |-> page.env, view |-> v], Survives(page.env))

\* The retry button keeps the view, not the environment.
ClickRetry(r) ==
  /\ page.kind = "error"
  /\ Ask(r, RetryUrl(page), [choice EXCEPT !.env = None], TRUE)

\* Slip: the grid is swapped below the tabs that are there.
SwapBelowTabs(r) ==
  /\ request[r].stage = "answered" /\ request[r].body.kind \in {"grid", "error"}
  /\ page' = [request[r].body EXCEPT !.tabs = page.tabs]
  /\ request' = [request EXCEPT ![r] = Idle]
  /\ UNCHANGED <<tier2, backend, history, counters>>

\* HTMX swaps the answer in, whichever was asked for last.
Swap(r) ==
  /\ request[r].stage = "answered" /\ request[r].body.kind \in {"grid", "error"}
  /\ page' = request[r].body
  /\ request' = [request EXCEPT ![r] = Idle]
  /\ UNCHANGED <<tier2, backend, history, counters>>

\* HX-Redirect leaves the page, and its other requests with it.
Leave(r) ==
  /\ request[r].stage = "answered" /\ request[r].body.kind = "login"
  /\ page' = Login
  /\ request' = [q \in Requests |-> Idle]
  /\ UNCHANGED <<tier2, backend, history, counters>>

\* The answer does not arrive, or is an error status: the page stays.
Lose(r) ==
  /\ request[r].stage # "idle"
  /\ request' = [request EXCEPT ![r] = Idle]
  /\ lost' = (lost \/ page.kind = "blank")
  /\ choice' = request[r].before
  /\ UNCHANGED <<tier2, backend, page, smooth, granted, counters>>

---------------------------------------------------------------------------
(* The server *)

Answer(r, body) ==
  request' = [request EXCEPT ![r] = [stage |-> "answered", url |-> @.url, roles |-> NoRoles,
                                     body |-> body, before |-> @.before]]

\* buildUserInfoFromClaims (Tier 2) makes an empty UserInfo of claims that do
\* not decode; in Tier 1 they are an error.
Admit(r) ==
  /\ request[r].stage = "sent"
  /\ IF claims = Malformed /\ ~ tier2
     THEN Answer(r, Refused)
     ELSE request' = [request EXCEPT ![r] =
            [stage |-> "admitted", url |-> @.url, body |-> Blank, before |-> @.before,
             roles |-> IF claims = Malformed THEN NoRoles ELSE claims]]
  /\ UNCHANGED <<tier2, backend, page, history, counters>>

\* AuthRequired finds no valid session (AuthSessions says when).
TurnAway(r) ==
  /\ request[r].stage = "sent"
  /\ Answer(r, Login)
  /\ UNCHANGED <<tier2, backend, page, history, counters>>

\* RenderApplications, with the cached list or a new one.
Render(r) ==
  /\ request[r].stage = "admitted"
  /\ cached' = IF cached = Nothing THEN realm ELSE cached
  /\ Answer(r, ApplicationsGrid(GetApplicationsForUser(cached', request[r].roles), request[r].url))
  /\ UNCHANGED <<tier2, realm, claims, page, history, counters>>

\* Slip: the handler returns without an answer when GetClients fails.
RenderNothing(r) ==
  /\ request[r].stage = "admitted" /\ cached = Nothing
  /\ request' = [request EXCEPT ![r] = Idle]
  /\ UNCHANGED <<tier2, backend, page, history, counters>>

RenderError(r) ==
  /\ request[r].stage = "admitted" /\ cached = Nothing
  /\ Answer(r, ErrorPanel(request[r].url))
  /\ UNCHANGED <<tier2, backend, page, history, counters>>

---------------------------------------------------------------------------

Serve(r) == Admit(r) \/ TurnAway(r) \/ Render(r) \/ RenderError(r)

Settle(r) == Swap(r) \/ Leave(r) \/ Lose(r)

Next ==
  \/ ChangeClients \/ ChangeClaims \/ OtherFetches \/ CacheExpires
  \/ \E r \in Requests :
       \/ Index(r)
       \/ \E t \in Names : ClickTab(r, t)
       \/ \E v \in Views : ClickView(r, v)
       \/ ClickRetry(r)
       \/ Serve(r) \/ Settle(r)

\* The server answers, its calls to Keycloak being bounded by timeouts, and
\* an answer arrives or the browser gives it up. No user has to click.
Fairness == \A r \in Requests : WF_vars(Serve(r)) /\ WF_vars(Settle(r))

Spec == Init /\ [][Next]_vars /\ Fairness

---------------------------------------------------------------------------
(* Properties *)

Grids ==
  {ApplicationsGrid(GetApplicationsForUser(list, roles), url) :
     list \in Catalogues, roles \in (Claims \ {Malformed}) \cup {NoRoles}, url \in Urls}

Bodies == {Blank, Login, Refused} \cup {ErrorPanel(url) : url \in Urls} \cup Grids

Choices == [env : Names \cup {None}, view : Views]

RequestType ==
  [stage : {"idle", "sent", "admitted", "answered"}, url : Urls,
   roles : (Claims \ {Malformed}) \cup {NoRoles}, body : Bodies, before : Choices]

\* Every variable keeps its type; a page is one rendering of one list, one
\* user's roles and one URL, never a blend of two answers.
TypeOK ==
  /\ tier2 \in BOOLEAN
  /\ realm \in Catalogues /\ claims \in Claims /\ cached \in Catalogues \cup {Nothing}
  /\ request \in [Requests -> RequestType]
  /\ page \in Bodies
  /\ choice \in Choices
  /\ {smooth, lost} \subseteq BOOLEAN
  /\ granted \subseteq Clients
  /\ opens \in 0 .. MaxOpens /\ clicks \in 0 .. MaxClicks /\ changes \in 0 .. MaxChanges

Links(body) ==
  {TabUrl(body, t) : t \in body.tabs} \cup {ToggleUrl(body, v) : v \in Views}

\* A grid leads in one click to each of the user's applications that has an
\* environment, also when it shows nothing itself, because the environment it
\* was asked for is gone from the list that answered, or its name was cut.
\* (An application in an environment whose name no URL carries is excepted.)
EnvironmentsAreInReach ==
  page.kind = "grid" =>
    \A a \in page.all : a.env # None /\ Survives(a.env) =>
      \E url \in Links(page) : a \in ShownApps(ApplicationsGrid(page.all, url))

\* src/README.md:13: "users can access all applications they have permission to
\* use", and index.templ:158: "Access all your authorized applications/services":
\* each application of the user is on the page for some URL.
AllAreAccessible ==
  page.kind = "grid" =>
    \A a \in page.all : \E url \in Urls : a \in ShownApps(ApplicationsGrid(page.all, url))

\* While requests do not meet, the user's choices last: the toggle keeps the
\* environment, the tabs and the retry button keep the view, and a failed,
\* lost or refused request costs no more than the environment.
ShownIsChosen ==
  smooth /\ InFlight = {} /\ page.kind \in {"grid", "error"} =>
    /\ page.view = choice.view
    /\ page.kind = "grid" /\ choice.env # None => page.env = choice.env

\* Only applications are shown of which the user has had a role, whichever
\* user's request filled the cache; a client named with no role does not count.
ShownWasGranted == \A a \in ShownApps(page) : a.client \in granted \ Internal

\* An opened page does not stay empty, unless its one answer was lost: then
\* nothing asks again.
LoadEnds == page.kind = "blank" ~> (page.kind # "blank" \/ lost)
=============================================================================
