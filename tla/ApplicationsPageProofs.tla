----------------------- MODULE ApplicationsPageProofs -----------------------
(***************************************************************************)
(* Proofs about ApplicationsPage, for any catalogue, any claims and any    *)
(* number of requests in flight.                                           *)
(***************************************************************************)
EXTENDS ApplicationsPage, FiniteSetTheorems, TLAPS

USE NamesAssumption, CataloguesAssumption DEF None

Envs == Names \cup {None}

\* An application as transformClientToApplication makes it.
AppType == [client : Clients, space : Spaces \cup {None}, env : Envs]

---------------------------------------------------------------------------
(* The operators *)

\* A set of naturals has a least member: the intervals from 0 to its members
\* are finite sets, of which one has no other inside it.
LEMMA LeastIsMember ==
  ASSUME NEW S \in SUBSET Nat, S # {}
  PROVE  Least(S) \in S /\ \A f \in S : Least(S) <= f
<1> DEFINE T == {0 .. n : n \in S}
<1>1. T \subseteq FiniteSubsetsOf(Nat) /\ T # {}
  <2>1. \A n \in S : 0 .. n \in SUBSET Nat /\ IsFiniteSet(0 .. n)
    BY FS_Interval
  <2>2. \A n \in S : 0 .. n \in FiniteSubsetsOf(Nat)
    BY <2>1 DEF FiniteSubsetsOf
  <2>3. PICK n \in S : TRUE
    OBVIOUS
  <2>4. 0 .. n \in T
    BY <2>3
  <2> QED  BY ONLY <2>2, <2>4
<1>2. \E X \in T : \A Y \in T : ~ (<<Y, X>> \in StrictSubsetOrdering(Nat))
  BY <1>1, FS_StrictSubsetOrderingWellFounded, WFMin
<1>3. PICK m \in S : \A n \in S : ~ (<<0 .. n, 0 .. m>> \in StrictSubsetOrdering(Nat))
  <2>1. \A n \in S : 0 .. n \in T
    OBVIOUS
  <2>2. PICK X \in T : \A Y \in T : ~ (<<Y, X>> \in StrictSubsetOrdering(Nat))
    BY <1>2
  <2>3. PICK m \in S : X = 0 .. m
    BY <2>2
  <2> HIDE DEF T
  <2> QED  BY <2>1, <2>2, <2>3, Zenon
<1>4. ASSUME NEW n \in S  PROVE m <= n
  <2>1. <<0 .. n, 0 .. m>> \in (SUBSET Nat) \X (SUBSET Nat)
    OBVIOUS
  <2>2. ~ (0 .. n \subseteq 0 .. m /\ 0 .. n # 0 .. m)
    BY <1>3, <2>1 DEF StrictSubsetOrdering
  <2>3. n < m => 0 .. n \subseteq 0 .. m /\ m \in 0 .. m /\ m \notin 0 .. n
    OBVIOUS
  <2> QED  BY <2>2, <2>3
<1> QED  BY <1>4 DEF Least

\* The value of a category is one of that category, or none.
LEMMA CategoryType ==
  ASSUME NEW list \in Catalogues, NEW c \in DOMAIN list
  PROVE  /\ extractScopeCategory(list[c], "env") \in Envs
         /\ extractScopeCategory(list[c], "space") \in Spaces \cup {None}
<1> DEFINE at(category) == {i \in DOMAIN list[c] : list[c][i][1] = category}
<1>1. at("env") \in SUBSET Nat /\ at("space") \in SUBSET Nat
  OBVIOUS
<1>2. at("env") # {} => extractScopeCategory(list[c], "env") \in Envs
  <2>1. at("env") # {} => Least(at("env")) \in at("env")
    BY <1>1, LeastIsMember
  <2>2. \A i \in at("env") : list[c][i][2] \in Envs
    BY DEF Envs
  <2> QED  BY <2>1, <2>2 DEF extractScopeCategory
<1>3. at("space") # {} => extractScopeCategory(list[c], "space") \in Spaces \cup {None}
  <2>1. at("space") # {} => Least(at("space")) \in at("space")
    BY <1>1, LeastIsMember
  <2>2. \A i \in at("space") : list[c][i][2] \in Spaces \cup {None}
    OBVIOUS
  <2> QED  BY <2>1, <2>2 DEF extractScopeCategory
<1> QED  BY <1>2, <1>3 DEF extractScopeCategory, Envs

\* What GetApplicationsForUser returns: applications, none of an internal
\* client, each of a client the claims name with a role.
LEMMA ApplicationsType ==
  ASSUME NEW list \in Catalogues, NEW roles \in Roles
  PROVE  /\ GetApplicationsForUser(list, roles) \subseteq AppType
         /\ \A a \in GetApplicationsForUser(list, roles) :
              a.client \notin Internal /\ HasAccess(roles, a.client)
<1> SUFFICES ASSUME NEW c \in DOMAIN list, ~ isInternalClient(c), HasAccess(roles, c)
             PROVE  /\ transformClientToApplication(c, list[c]) \in AppType
                    /\ transformClientToApplication(c, list[c]).client = c
                    /\ c \notin Internal
  BY DEF GetApplicationsForUser
<1>1. c \in Clients
  OBVIOUS
<1> QED  BY <1>1, CategoryType DEF transformClientToApplication, AppType, isInternalClient

\* The environment of a page: the one asked for, else one of the applications,
\* else none because there is none.
LEMMA EnvironmentOfPage ==
  ASSUME NEW apps \in SUBSET AppType, NEW url \in Urls
  PROVE  /\ extractEnvironments(apps) \subseteq Names
         /\ EnvOf(url, apps) \in Envs
         /\ url.env # None => EnvOf(url, apps) = url.env
         /\ EnvOf(url, apps) = None => extractEnvironments(apps) = {}
<1>1. extractEnvironments(apps) \subseteq Names
  BY DEF extractEnvironments, AppType, Envs
<1>2. extractEnvironments(apps) # {} => Least(extractEnvironments(apps)) \in extractEnvironments(apps)
  BY <1>1, LeastIsMember
<1>3. url.env \in Envs /\ None \notin Names
  BY DEF Urls, Envs
<1> QED  BY <1>1, <1>2, <1>3 DEF EnvOf, Envs

\* Grouping by space shows each application that passed the filter, once.
LEMMA GroupsPartition ==
  ASSUME NEW apps
  PROVE  /\ UNION {groupBySpace(apps)[s] : s \in DOMAIN groupBySpace(apps)} = apps
         /\ \A s, t \in DOMAIN groupBySpace(apps) :
              s # t => groupBySpace(apps)[s] \cap groupBySpace(apps)[t] = {}
<1>1. \A s \in DOMAIN groupBySpace(apps) : groupBySpace(apps)[s] = {a \in apps : SpaceOf(a) = s}
  BY DEF groupBySpace
<1>2. \A a \in apps : SpaceOf(a) \in DOMAIN groupBySpace(apps)
  BY DEF groupBySpace
<1> HIDE DEF groupBySpace
<1>3. UNION {groupBySpace(apps)[s] : s \in DOMAIN groupBySpace(apps)} \subseteq apps
  BY <1>1
<1>4. \A a \in apps : a \in UNION {groupBySpace(apps)[s] : s \in DOMAIN groupBySpace(apps)}
  BY <1>1, <1>2
<1> QED  BY <1>1, <1>3, <1>4

\* What a grid shows.
LEMMA ShownByGrid ==
  ASSUME NEW apps \in SUBSET AppType, NEW url \in Urls
  PROVE  ShownApps(ApplicationsGrid(apps, url)) = filterByEnvironment(apps, EnvOf(url, apps))
BY GroupsPartition DEF ShownApps, ApplicationsGrid
\* A link's URL is one the server can read; a name that survives arrives.
LEMMA LinkType ==
  ASSUME NEW e \in Envs, NEW v \in Views
  PROVE  /\ buildURL(e, v) \in Urls
         /\ Survives(e) => buildURL(e, v) = [env |-> e, view |-> v]
BY DEF buildURL, Urls, Envs, Survives, Views

\* A grid has a tab for each environment of the applications it was rendered
\* from, whichever is selected; its answer, from those, shows that environment.
LEMMA TabLeadsThere ==
  ASSUME NEW apps \in SUBSET AppType, NEW url \in Urls, NEW a \in apps,
         a.env # None, Survives(a.env)
  PROVE  \E u \in Links(ApplicationsGrid(apps, url)) : a \in ShownApps(ApplicationsGrid(apps, u))
<1> DEFINE body == ApplicationsGrid(apps, url)
           u == [env |-> a.env, view |-> body.view]
<1>1. body.view \in Views /\ body.tabs = extractEnvironments(apps)
  BY DEF ApplicationsGrid, ViewOf, Urls, Views
<1>2. a.env \in Envs /\ a.env \in body.tabs
  BY <1>1 DEF AppType, extractEnvironments
<1> HIDE DEF body
<1>3. u = TabUrl(body, a.env) /\ u \in Urls
  BY <1>1, <1>2, LinkType DEF TabUrl
<1>4. u \in Links(body)
  BY <1>2, <1>3 DEF Links
<1>5. EnvOf(u, apps) = a.env
  BY <1>3, EnvironmentOfPage
<1>6. a \in ShownApps(ApplicationsGrid(apps, u))
  BY <1>3, <1>5, ShownByGrid DEF filterByEnvironment
<1> QED  BY <1>4, <1>6 DEF body

---------------------------------------------------------------------------
(* Types *)

RolesType == (Claims \ {Malformed}) \cup {NoRoles}

LEMMA RolesAreRoles == RolesType \subseteq Roles
BY DEF RolesType, NoRoles, Roles

\* What every content of the container has in common.
LEMMA BodyType ==
  ASSUME NEW b \in Bodies
  PROVE  /\ b.view \in Views /\ b.env \in Envs /\ b.tabs \subseteq Names
         /\ b.kind = "grid" => b \in Grids
<1>1. CASE b \in Grids
  <2>1. PICK list \in Catalogues, roles \in RolesType, url \in Urls :
               b = ApplicationsGrid(GetApplicationsForUser(list, roles), url)
    BY <1>1 DEF Grids, RolesType
  <2> DEFINE apps == GetApplicationsForUser(list, roles)
  <2>2. apps \in SUBSET AppType
    BY ApplicationsType, RolesAreRoles
  <2> HIDE DEF apps
  <2>3. extractEnvironments(apps) \subseteq Names /\ EnvOf(url, apps) \in Envs
    BY <2>2, EnvironmentOfPage
  <2>4. ViewOf(url) \in Views
    BY DEF ViewOf, Urls, Views
  <2>5. b = ApplicationsGrid(apps, url)
    BY <2>1 DEF apps
  <2> QED  BY <1>1, <2>3, <2>4, <2>5 DEF ApplicationsGrid
<1>2. CASE b \in {ErrorPanel(url) : url \in Urls}
  <2>1. \A url \in Urls : ViewOf(url) \in Views
    BY DEF ViewOf, Urls, Views
  <2> QED  BY <1>2, <2>1 DEF ErrorPanel, Notice, Envs
<1>3. CASE b \in {Blank, Login, Refused}
  BY <1>3 DEF Blank, Login, Refused, Notice, Envs, Views
<1> QED  BY <1>1, <1>2, <1>3 DEF Bodies

LEMMA RecordTypes ==
  /\ Start \in Choices /\ Start \in Urls /\ Idle \in RequestType
  /\ \A url \in Urls, ch \in Choices : Sent(url, ch) \in RequestType
<1>1. Start \in Choices /\ Start \in Urls
  BY DEF Start, Choices, Urls, Views
<1>2. NoRoles \in RolesType /\ Blank \in Bodies
  BY DEF RolesType, Bodies
<1>3. Idle \in RequestType
  BY <1>1, <1>2 DEF Idle, RequestType, RolesType
<1>4. \A url \in Urls, ch \in Choices : Sent(url, ch) \in RequestType
  <2> TAKE url \in Urls, ch \in Choices
  <2> QED  BY <1>2 DEF RequestType, RolesType, Sent
<1> QED  BY <1>1, <1>3, <1>4

\* Answer and Ask keep the type of the requests.
LEMMA AnswerType ==
  ASSUME TypeOK, NEW r \in Requests, NEW body \in Bodies, Answer(r, body)
  PROVE  /\ request' \in [Requests -> RequestType]
         /\ request' = [request EXCEPT ![r] = [stage |-> "answered", url |-> request[r].url,
                          roles |-> NoRoles, body |-> body, before |-> request[r].before]]
<1>1. request[r] \in RequestType /\ request \in [Requests -> RequestType]
  BY DEF TypeOK
<1>2. [stage |-> "answered", url |-> request[r].url, roles |-> NoRoles, body |-> body,
         before |-> request[r].before] \in RequestType
  BY <1>1 DEF RequestType
<1> QED  BY <1>1, <1>2 DEF Answer

LEMMA InitType == Init => TypeOK
<1> SUFFICES ASSUME Init  PROVE TypeOK
  OBVIOUS
<1>1. Login \in Bodies
  BY DEF Bodies
<1>2. granted \subseteq Clients
  BY DEF Init, RolesIn
<1>3. request \in [Requests -> RequestType] /\ choice \in Choices
  BY RecordTypes DEF Init
<1>4. opens \in 0 .. MaxOpens /\ clicks \in 0 .. MaxClicks /\ changes \in 0 .. MaxChanges
  <2>1. MaxOpens \in Nat /\ MaxClicks \in Nat /\ MaxChanges \in Nat
    OBVIOUS
  <2> QED  BY <2>1 DEF Init
<1>5. smooth \in BOOLEAN /\ lost \in BOOLEAN /\ tier2 \in BOOLEAN
  BY DEF Init
<1>6. realm \in Catalogues /\ claims \in Claims /\ cached = Nothing /\ page = Login
  BY DEF Init
<1> QED  BY <1>1, <1>2, <1>3, <1>4, <1>5, <1>6 DEF TypeOK

\* A click: Ask with a URL and a choice of the right kind.
LEMMA AskType ==
  ASSUME TypeOK, NEW r \in Requests, NEW url \in Urls, NEW ch \in Choices, NEW survives \in BOOLEAN,
         Ask(r, url, ch, survives)
  PROVE  TypeOK'
<1>1. Sent(url, choice) \in RequestType
  BY RecordTypes DEF TypeOK
<1>2. request' \in [Requests -> RequestType]
  BY <1>1 DEF TypeOK, Ask
<1>3. clicks' \in 0 .. MaxClicks
  BY DEF TypeOK, Ask
<1>4. smooth' \in BOOLEAN
  BY DEF TypeOK, Ask
<1> QED  BY <1>2, <1>3, <1>4 DEF TypeOK, Ask, backend

LEMMA NextType == TypeOK /\ [Next]_vars => TypeOK'
<1> SUFFICES ASSUME TypeOK, [Next]_vars  PROVE TypeOK'
  OBVIOUS
<1> USE DEF backend, history, counters
<1>1. CASE ChangeClients
  <2>1. changes' \in 0 .. MaxChanges
    BY <1>1 DEF ChangeClients, TypeOK
  <2> QED  BY <1>1, <2>1 DEF TypeOK, ChangeClients
<1>2. CASE ChangeClaims
  <2>1. granted' \subseteq Clients
    BY <1>2 DEF ChangeClaims, TypeOK, RolesIn
  <2>2. changes' \in 0 .. MaxChanges
    BY <1>2 DEF ChangeClaims, TypeOK
  <2> QED  BY <1>2, <2>1, <2>2 DEF TypeOK, ChangeClaims
<1>3. CASE OtherFetches
  BY <1>3 DEF TypeOK, OtherFetches
<1>4. CASE CacheExpires
  BY <1>4 DEF TypeOK, CacheExpires
<1>5. ASSUME NEW r \in Requests, Index(r)  PROVE TypeOK'
  <2>1. [env |-> None, view |-> "card"] \in Urls /\ Start \in Choices
    BY RecordTypes DEF Start
  <2>2. request' \in [Requests -> RequestType]
    BY <1>5, <2>1, RecordTypes DEF Index
  <2>3. Blank \in Bodies
    BY DEF Bodies
  <2>4. opens' \in 0 .. MaxOpens
    BY <1>5 DEF Index, TypeOK
  <2>5. smooth' \in BOOLEAN /\ lost' \in BOOLEAN
    BY <1>5 DEF Index
  <2> QED  BY <1>5, <2>1, <2>2, <2>3, <2>4, <2>5 DEF TypeOK, Index
<1>6. ASSUME NEW r \in Requests, NEW t \in Names, ClickTab(r, t)  PROVE TypeOK'
  <2>1. TabUrl(page, t) \in Urls
    BY BodyType, LinkType DEF TabUrl, TypeOK, Envs
  <2>2. [choice EXCEPT !.env = t] \in Choices
    BY DEF TypeOK, Choices
  <2> QED  BY <1>6, <2>1, <2>2, AskType DEF ClickTab, Survives
<1>7. ASSUME NEW r \in Requests, NEW v \in Views, ClickView(r, v)  PROVE TypeOK'
  <2>1. ToggleUrl(page, v) \in Urls
    BY BodyType, LinkType DEF ToggleUrl, TypeOK
  <2>2. [env |-> page.env, view |-> v] \in Choices
    BY BodyType DEF TypeOK, Choices, Envs
  <2> QED  BY <1>7, <2>1, <2>2, AskType DEF ClickView, Survives
<1>8. ASSUME NEW r \in Requests, ClickRetry(r)  PROVE TypeOK'
  <2>1. RetryUrl(page) \in Urls
    BY BodyType DEF RetryUrl, TypeOK, Urls
  <2>2. [choice EXCEPT !.env = None] \in Choices
    BY DEF TypeOK, Choices
  <2> QED  BY <1>8, <2>1, <2>2, AskType DEF ClickRetry
<1>9. ASSUME NEW r \in Requests, Admit(r)  PROVE TypeOK'
  <2>1. CASE Answer(r, Refused)
    <3>1. request' \in [Requests -> RequestType]
      BY <2>1, AnswerType DEF Bodies
    <3> QED  BY <1>9, <3>1 DEF TypeOK, Admit
  <2>2. CASE ~ Answer(r, Refused)
    <3>1. request[r] \in RequestType /\ Blank \in Bodies
      BY DEF TypeOK, Bodies
    <3>2. (IF claims = Malformed THEN NoRoles ELSE claims) \in RolesType
      BY DEF RolesType, TypeOK
    <3>3. [stage |-> "admitted", url |-> request[r].url, body |-> Blank, before |-> request[r].before,
            roles |-> IF claims = Malformed THEN NoRoles ELSE claims] \in RequestType
      BY <3>1, <3>2 DEF RequestType, RolesType
    <3>4. request' \in [Requests -> RequestType]
      BY <1>9, <2>2, <3>3 DEF Admit, TypeOK
    <3> QED  BY <1>9, <3>4 DEF TypeOK, Admit
  <2> QED  BY <2>1, <2>2
<1>10. ASSUME NEW r \in Requests, TurnAway(r)  PROVE TypeOK'
  <2>1. request' \in [Requests -> RequestType]
    BY <1>10, AnswerType DEF TurnAway, Bodies
  <2> QED  BY <1>10, <2>1 DEF TypeOK, TurnAway
<1>11. ASSUME NEW r \in Requests, Render(r)  PROVE TypeOK'
  <2>1. cached' \in Catalogues
    BY <1>11 DEF Render, TypeOK
  <2>2. request[r].roles \in RolesType /\ request[r].url \in Urls
    BY DEF TypeOK, RequestType, RolesType
  <2> DEFINE body == ApplicationsGrid(GetApplicationsForUser(cached', request[r].roles), request[r].url)
  <2>3. body \in Bodies
    BY <2>1, <2>2 DEF Bodies, Grids, RolesType
  <2>4. Answer(r, body)
    BY <1>11 DEF Render
  <2> HIDE DEF body
  <2>5. request' \in [Requests -> RequestType]
    BY <2>3, <2>4, AnswerType
  <2> QED  BY <1>11, <2>1, <2>5 DEF TypeOK, Render
<1>12. ASSUME NEW r \in Requests, RenderError(r)  PROVE TypeOK'
  <2>1. ErrorPanel(request[r].url) \in Bodies
    BY DEF Bodies, TypeOK, RequestType
  <2>2. request' \in [Requests -> RequestType]
    BY <1>12, <2>1, AnswerType DEF RenderError
  <2> QED  BY <1>12, <2>2 DEF TypeOK, RenderError
<1>13. ASSUME NEW r \in Requests, Swap(r)  PROVE TypeOK'
  <2>1. request[r].body \in Bodies
    BY DEF TypeOK, RequestType
  <2>2. request' \in [Requests -> RequestType]
    BY <1>13, RecordTypes DEF TypeOK, Swap
  <2> QED  BY <1>13, <2>1, <2>2 DEF TypeOK, Swap
<1>14. ASSUME NEW r \in Requests, Leave(r)  PROVE TypeOK'
  <2>1. request' \in [Requests -> RequestType] /\ Login \in Bodies
    BY <1>14, RecordTypes DEF Leave, Bodies
  <2> QED  BY <1>14, <2>1 DEF TypeOK, Leave
<1>15. ASSUME NEW r \in Requests, Lose(r)  PROVE TypeOK'
  <2>1. request[r].before \in Choices
    BY DEF TypeOK, RequestType
  <2>2. request' \in [Requests -> RequestType]
    BY <1>15, RecordTypes DEF TypeOK, Lose
  <2>3. lost' \in BOOLEAN
    BY <1>15 DEF TypeOK, Lose
  <2> QED  BY <1>15, <2>1, <2>2, <2>3 DEF TypeOK, Lose
<1>16. CASE UNCHANGED vars
  BY <1>16 DEF TypeOK, vars
<1> QED
  BY <1>1, <1>2, <1>3, <1>4, <1>5, <1>6, <1>7, <1>8, <1>9, <1>10, <1>11, <1>12, <1>13, <1>14,
     <1>15, <1>16 DEF Next, Serve, Settle

\* The model is well typed for every catalogue, every claims and any number
\* of requests: a page is always one rendering, never a blend of two.
THEOREM TypeCorrect == Spec => []TypeOK
<1>1. Init => TypeOK
  BY InitType
<1>2. TypeOK /\ [Next]_vars => TypeOK'
  BY NextType
<1> QED  BY <1>1, <1>2, PTL DEF Spec

---------------------------------------------------------------------------
(* What is a click away *)

LEMMA GridOf ==
  ASSUME NEW b \in Grids
  PROVE  \E apps \in SUBSET AppType, url \in Urls :
           b = ApplicationsGrid(apps, url) /\ b.all = apps /\ b.env = EnvOf(url, apps)
<1>1. PICK list \in Catalogues, roles \in RolesType, url \in Urls :
             b = ApplicationsGrid(GetApplicationsForUser(list, roles), url)
  BY DEF Grids, RolesType
<1>2. GetApplicationsForUser(list, roles) \in SUBSET AppType
  BY ApplicationsType, RolesAreRoles
<1> QED  BY <1>1, <1>2 DEF ApplicationsGrid

\* For every catalogue, and whichever lists and answers led to it: a grid leads
\* in one click to each of the user's applications that has an environment.
THEOREM OneClickAway == Spec => []EnvironmentsAreInReach
<1>1. TypeOK => EnvironmentsAreInReach
  <2> SUFFICES ASSUME TypeOK, page.kind = "grid",
                      NEW a \in page.all, a.env # None, Survives(a.env)
               PROVE  \E url \in Links(page) : a \in ShownApps(ApplicationsGrid(page.all, url))
    BY DEF EnvironmentsAreInReach
  <2>1. page \in Grids
    BY BodyType DEF TypeOK
  <2>2. PICK apps \in SUBSET AppType, url \in Urls :
               page = ApplicationsGrid(apps, url) /\ page.all = apps
    BY <2>1, GridOf
  <2>3. \E u \in Links(ApplicationsGrid(apps, url)) : a \in ShownApps(ApplicationsGrid(apps, u))
    BY <2>2, TabLeadsThere
  <2> QED  BY ONLY <2>2, <2>3
<1> QED  BY <1>1, TypeCorrect, PTL

---------------------------------------------------------------------------
(* What is shown was granted *)

Vetted(body) == \A a \in ShownApps(body) : a.client \in granted \ Internal

GInv ==
  /\ RolesIn(claims) \subseteq granted
  /\ \A r \in Requests : RolesIn(request[r].roles) \subseteq granted /\ Vetted(request[r].body)
  /\ Vetted(page)

\* A notice shows no application, and a grid only ones of its roles.
LEMMA NoticesAreVetted ==
  ASSUME NEW kind, NEW view  PROVE Vetted(Notice(kind, view))
<1>1. ShownApps(Notice(kind, view)) = {}
  BY GroupsPartition DEF ShownApps, Notice
<1> QED  BY <1>1 DEF Vetted

LEMMA GridsAreVetted ==
  ASSUME NEW list \in Catalogues, NEW roles \in RolesType, NEW url \in Urls,
         RolesIn(roles) \subseteq granted
  PROVE  Vetted(ApplicationsGrid(GetApplicationsForUser(list, roles), url))
<1> DEFINE apps == GetApplicationsForUser(list, roles)
<1>1. apps \in SUBSET AppType /\ \A a \in apps : a.client \notin Internal /\ HasAccess(roles, a.client)
  BY ApplicationsType, RolesAreRoles
<1>2. \A a \in apps : a.client \in granted \ Internal
  <2> TAKE a \in apps
  <2>1. a.client \in Clients
    BY <1>1 DEF AppType
  <2> QED  BY <1>1, <2>1 DEF HasAccess, RolesIn
<1> HIDE DEF apps
<1>3. ShownApps(ApplicationsGrid(apps, url)) \subseteq apps
  BY <1>1, ShownByGrid DEF filterByEnvironment
<1>4. Vetted(ApplicationsGrid(apps, url))
  BY <1>2, <1>3 DEF Vetted
<1> QED  BY <1>4 DEF apps

LEMMA NoRolesGrantNothing == RolesIn(NoRoles) = {}
BY DEF RolesIn, NoRoles

LEMMA InitGranted == Init => GInv
<1> SUFFICES ASSUME Init  PROVE GInv
  OBVIOUS
<1>1. Vetted(Blank) /\ Vetted(Login)
  BY NoticesAreVetted DEF Blank, Login
<1> QED  BY <1>1, NoRolesGrantNothing DEF Init, GInv, Idle

LEMMA NextGranted == TypeOK /\ GInv /\ [Next]_vars => GInv'
<1> SUFFICES ASSUME TypeOK, GInv, [Next]_vars  PROVE GInv'
  OBVIOUS
<1> USE DEF backend, history, counters
<1>1. Vetted(Blank) /\ Vetted(Login) /\ Vetted(Refused)
  BY NoticesAreVetted DEF Blank, Login, Refused
<1>2. \A r \in Requests : request[r] \in RequestType
  BY DEF TypeOK
\* A step that grants nothing, and sets requests and page to what is vetted.
<1>3. ASSUME UNCHANGED <<claims, granted>>,
             \A r \in Requests : RolesIn(request'[r].roles) \subseteq granted /\ Vetted(request'[r].body),
             Vetted(page')
      PROVE  GInv'
  BY <1>3 DEF GInv, Vetted
<1>4. ASSUME UNCHANGED <<claims, granted, request, page>>  PROVE GInv'
  BY <1>4 DEF GInv, Vetted
<1>5. CASE ChangeClaims
  <2>1. granted \subseteq granted' /\ RolesIn(claims') \subseteq granted'
    BY <1>5 DEF ChangeClaims
  <2>2. \A r \in Requests : Vetted(request[r].body)' /\ RolesIn(request[r].roles)' \subseteq granted'
    BY <1>5, <2>1 DEF ChangeClaims, GInv, Vetted, RolesIn
  <2>3. Vetted(page)'
    BY <1>5, <2>1 DEF ChangeClaims, GInv, Vetted
  <2> QED  BY <1>5, <2>1, <2>2, <2>3 DEF GInv, ChangeClaims, RolesIn
\* A step that sets one request to a record and leaves page, or sets it.
<1>6. ASSUME NEW r \in Requests, NEW rec, request' = [request EXCEPT ![r] = rec],
             RolesIn(rec.roles) \subseteq granted, Vetted(rec.body),
             Vetted(page'), UNCHANGED <<claims, granted>>
      PROVE  GInv'
  <2>1. \A q \in Requests : request'[q] = IF q = r THEN rec ELSE request[q]
    BY <1>6 DEF TypeOK
  <2>2. \A q \in Requests : RolesIn(request'[q].roles) \subseteq granted /\ Vetted(request'[q].body)
    BY <1>6, <2>1 DEF GInv
  <2> QED  BY <1>3, <1>6, <2>2
<1>7. ASSUME NEW r \in Requests, Index(r)  PROVE GInv'
  <2>1. \A q \in Requests : request'[q].roles = NoRoles /\ request'[q].body = Blank
    BY <1>7 DEF Index, Sent, Idle
  <2> QED  BY <1>1, <1>3, <1>7, <2>1, NoRolesGrantNothing DEF Index
<1>8. ASSUME NEW r \in Requests, NEW url, NEW ch, NEW survives, Ask(r, url, ch, survives)
      PROVE  GInv'
  <2>1. Sent(url, choice).roles = NoRoles /\ Sent(url, choice).body = Blank
    BY DEF Sent
  <2>2. Vetted(page') /\ UNCHANGED <<claims, granted>> /\ request' = [request EXCEPT ![r] = Sent(url, choice)]
    BY <1>8 DEF Ask, GInv
  <2> QED  BY <1>1, <1>6, <2>1, <2>2, NoRolesGrantNothing
<1>9. ASSUME NEW r \in Requests, NEW body, Answer(r, body), Vetted(body),
             UNCHANGED <<claims, granted, page>>
      PROVE  GInv'
  <2> DEFINE rec == [stage |-> "answered", url |-> request[r].url, roles |-> NoRoles,
                     body |-> body, before |-> request[r].before]
  <2>1. request' = [request EXCEPT ![r] = rec]
    BY <1>9 DEF Answer, TypeOK
  <2>2. Vetted(page') /\ rec.roles = NoRoles /\ rec.body = body
    BY <1>9 DEF GInv
  <2> HIDE DEF rec
  <2> QED  BY <1>6, <1>9, <2>1, <2>2, NoRolesGrantNothing
<1>10. ASSUME NEW r \in Requests, Admit(r)  PROVE GInv'
  <2>1. CASE Answer(r, Refused)
    BY <1>1, <1>9, <1>10, <2>1 DEF Admit
  <2>2. CASE ~ Answer(r, Refused)
    <3> DEFINE rec == [stage |-> "admitted", url |-> request[r].url, body |-> Blank, before |-> request[r].before,
                       roles |-> IF claims = Malformed THEN NoRoles ELSE claims]
    <3>1. request' = [request EXCEPT ![r] = rec]
      BY <1>10, <2>2 DEF Admit, TypeOK
    <3>2. RolesIn(rec.roles) \subseteq granted /\ rec.body = Blank
      BY NoRolesGrantNothing DEF GInv
    <3>3. Vetted(page') /\ UNCHANGED <<claims, granted>>
      BY <1>10 DEF GInv, Admit
    <3> HIDE DEF rec
    <3> QED  BY <1>1, <1>6, <3>1, <3>2, <3>3
  <2> QED  BY <2>1, <2>2
<1>11. ASSUME NEW r \in Requests, Render(r)  PROVE GInv'
  <2>1. cached' \in Catalogues
    BY <1>11 DEF Render, TypeOK
  <2>2. request[r].roles \in RolesType /\ request[r].url \in Urls /\ RolesIn(request[r].roles) \subseteq granted
    BY <1>2 DEF RequestType, RolesType, GInv
  <2> DEFINE body == ApplicationsGrid(GetApplicationsForUser(cached', request[r].roles), request[r].url)
  <2>3. Vetted(body)
    BY <2>1, <2>2, GridsAreVetted
  <2>4. Answer(r, body) /\ UNCHANGED <<claims, granted, page>>
    BY <1>11 DEF Render
  <2> HIDE DEF body
  <2> QED  BY <1>9, <2>3, <2>4
<1>12. ASSUME NEW r \in Requests, TurnAway(r) \/ RenderError(r)  PROVE GInv'
  <2>1. Vetted(ErrorPanel(request[r].url))
    BY NoticesAreVetted DEF ErrorPanel
  <2> QED  BY <1>1, <1>9, <1>12, <2>1 DEF TurnAway, RenderError
<1>13. ASSUME NEW r \in Requests, Swap(r) \/ Lose(r)  PROVE GInv'
  <2>1. Vetted(page') /\ UNCHANGED <<claims, granted>> /\ request' = [request EXCEPT ![r] = Idle]
    BY <1>13 DEF Swap, Lose, GInv
  <2>2. Idle.roles = NoRoles /\ Idle.body = Blank
    BY DEF Idle
  <2> QED  BY <1>1, <1>6, <2>1, <2>2, NoRolesGrantNothing
<1>14. ASSUME NEW r \in Requests, Leave(r)  PROVE GInv'
  <2>1. \A q \in Requests : request'[q].roles = NoRoles /\ request'[q].body = Blank
    BY <1>14 DEF Leave, Idle
  <2> QED  BY <1>1, <1>3, <1>14, <2>1, NoRolesGrantNothing DEF Leave
<1>15. CASE ChangeClients \/ OtherFetches \/ CacheExpires \/ UNCHANGED vars
  BY <1>4, <1>15 DEF ChangeClients, OtherFetches, CacheExpires, vars
<1> QED
  BY <1>5, <1>7, <1>8, <1>10, <1>11, <1>12, <1>13, <1>14, <1>15
     DEF Next, Serve, Settle, ClickTab, ClickView, ClickRetry

\* Whoever filled the cache and however requests and changes interleave: only
\* applications are shown of which the user has had a role.
THEOREM OnlyGrantedShown == Spec => []ShownWasGranted
<1>1. Init => TypeOK /\ GInv
  BY InitType, InitGranted
<1>2. TypeOK /\ GInv /\ [Next]_vars => (TypeOK /\ GInv)'
  BY NextType, NextGranted
<1>3. GInv => ShownWasGranted
  BY DEF GInv, Vetted, ShownWasGranted
<1> QED  BY <1>1, <1>2, <1>3, PTL DEF Spec

---------------------------------------------------------------------------
(* What is shown is what was chosen *)

\* A URL that asks for the choice, and a content that agrees with it.
Carries(url, ch) == ViewOf(url) = ch.view /\ (ch.env # None => url.env = ch.env)

Matches(body, ch) ==
  body.kind \in {"grid", "error"} =>
    /\ body.view = ch.view
    /\ body.kind = "grid" /\ ch.env # None => body.env = ch.env

\* While requests do not meet there is at most one. It asks for what was
\* chosen last, and the page still shows what was chosen before it.
CInv ==
  smooth =>
    /\ \A q, r \in InFlight : q = r
    /\ InFlight = {} => Matches(page, choice)
    /\ \A r \in InFlight :
         /\ Carries(request[r].url, choice)
         /\ Matches(page, request[r].before)
         /\ request[r].stage = "answered" => Matches(request[r].body, choice)

\* An answer agrees with the choice its URL asks for.
LEMMA AnswersMatch ==
  ASSUME NEW url \in Urls, NEW ch \in Choices, Carries(url, ch)
  PROVE  /\ Matches(ErrorPanel(url), ch) /\ Matches(Blank, ch)
         /\ Matches(Login, ch) /\ Matches(Refused, ch)
         /\ \A apps \in SUBSET AppType : Matches(ApplicationsGrid(apps, url), ch)
<1>1. \A apps \in SUBSET AppType : Matches(ApplicationsGrid(apps, url), ch)
  <2> TAKE apps \in SUBSET AppType
  <2>1. ch.env # None => EnvOf(url, apps) = ch.env
    BY EnvironmentOfPage DEF Carries
  <2> QED  BY <2>1 DEF Carries, Matches, ApplicationsGrid
<1> QED
  BY <1>1 DEF Carries, Matches, ErrorPanel, Blank, Login, Refused, Notice

\* Each button of a page that matches the choice asks for the new choice.
LEMMA ButtonsCarry ==
  ASSUME TypeOK, Matches(page, choice), page.kind \in {"grid", "error"}
  PROVE  /\ \A t \in Names : Survives(t) => Carries(TabUrl(page, t), [choice EXCEPT !.env = t])
         /\ \A v \in Views : page.kind = "grid" /\ Survives(page.env)
                               => Carries(ToggleUrl(page, v), [env |-> page.env, view |-> v])
         /\ Carries(RetryUrl(page), [choice EXCEPT !.env = None])
<1>1. page.view \in Views /\ page.env \in Envs /\ page.view = choice.view /\ choice \in Choices
  BY BodyType DEF TypeOK, Matches
<1>2. ASSUME NEW t \in Names, Survives(t)
      PROVE  Carries(TabUrl(page, t), [choice EXCEPT !.env = t])
  <2>1. TabUrl(page, t) = [env |-> t, view |-> page.view]
    BY <1>1, <1>2, LinkType DEF TabUrl, Envs
  <2>2. [choice EXCEPT !.env = t] = [env |-> t, view |-> choice.view]
    BY <1>1 DEF Choices
  <2>3. page.view # ""
    BY <1>1 DEF Views
  <2> QED  BY <1>1, <2>1, <2>2, <2>3 DEF Carries, ViewOf
<1>3. ASSUME NEW v \in Views, page.kind = "grid", Survives(page.env)
      PROVE  Carries(ToggleUrl(page, v), [env |-> page.env, view |-> v])
  <2>1. ToggleUrl(page, v) = [env |-> page.env, view |-> v]
    BY <1>1, <1>3, LinkType DEF ToggleUrl
  <2>2. v # ""
    BY DEF Views
  <2>3. ViewOf([env |-> page.env, view |-> v]) = v
    BY <2>2 DEF ViewOf
  <2> HIDE DEF ViewOf, ToggleUrl
  <2> QED  BY ONLY <2>1, <2>3 DEF Carries
<1>4. Carries(RetryUrl(page), [choice EXCEPT !.env = None])
  BY <1>1 DEF Carries, RetryUrl, ViewOf, Views, Choices
<1> QED  BY <1>2, <1>3, <1>4

LEMMA InitChosen == Init => CInv
BY DEF Init, CInv, InFlight, Idle, Matches, Login, Notice

LEMMA NextChosen == TypeOK /\ CInv /\ [Next]_vars => CInv'
<1> SUFFICES ASSUME TypeOK, CInv, [Next]_vars  PROVE CInv'
  OBVIOUS
<1> USE DEF backend, history, counters
<1>1. \A r \in Requests : request[r] \in RequestType
  BY DEF TypeOK
<1>2. choice \in Choices
  BY DEF TypeOK
<1>3. CASE UNCHANGED <<request, page, choice, smooth>>
  BY <1>3 DEF CInv, InFlight
\* A click, whose URL asks for the new choice if it survives.
<1>4. ASSUME NEW r \in Requests, NEW url \in Urls, NEW ch \in Choices, NEW survives \in BOOLEAN,
             Ask(r, url, ch, survives),
             survives /\ Matches(page, choice) => Carries(url, ch)
      PROVE  CInv'
  <2> SUFFICES ASSUME smooth'  PROVE CInv'
    BY DEF CInv
  <2>1. smooth /\ survives /\ InFlight = {} /\ page' = page /\ choice' = ch
    BY <1>4 DEF Ask
  <2>2. Matches(page, choice) /\ Carries(url, ch)
    BY <1>4, <2>1 DEF CInv
  <2>3. \A q \in Requests : request'[q] = IF q = r THEN Sent(url, choice) ELSE request[q]
    BY <1>4 DEF Ask, TypeOK
  <2>4. InFlight' = {r}
    BY <2>1, <2>3 DEF InFlight, Sent
  <2>5. request'[r].url = url /\ request'[r].before = choice /\ request'[r].stage = "sent"
    BY <2>3 DEF Sent
  <2> QED  BY <2>1, <2>2, <2>4, <2>5 DEF CInv
\* The server's steps: the request stays in flight with its URL.
<1>5. ASSUME NEW r \in Requests, request[r].stage # "idle", NEW rec,
             request' = [request EXCEPT ![r] = rec], UNCHANGED <<page, choice, smooth>>,
             rec.stage # "idle", rec.url = request[r].url, rec.before = request[r].before,
             rec.stage = "answered" /\ Carries(rec.url, choice) => Matches(rec.body, choice)
      PROVE  CInv'
  <2> SUFFICES ASSUME smooth  PROVE CInv'
    BY <1>5 DEF CInv
  <2>1. \A q \in Requests : request'[q] = IF q = r THEN rec ELSE request[q]
    BY <1>5 DEF TypeOK
  <2>2. InFlight' = InFlight /\ r \in InFlight
    BY <1>5, <2>1 DEF InFlight
  <2>3. \A q \in InFlight : q = r
    BY <2>2 DEF CInv
  <2>4. Carries(request[r].url, choice) /\ Matches(page, request[r].before)
    BY <2>2 DEF CInv
  <2> QED  BY <1>5, <2>1, <2>2, <2>3, <2>4 DEF CInv
<1>6. ASSUME NEW r \in Requests, request[r].stage # "idle", NEW body, Answer(r, body),
             UNCHANGED <<page, choice, smooth>>,
             Carries(request[r].url, choice) => Matches(body, choice)
      PROVE  CInv'
  <2> DEFINE rec == [stage |-> "answered", url |-> request[r].url, roles |-> NoRoles,
                     body |-> body, before |-> request[r].before]
  <2>1. request' = [request EXCEPT ![r] = rec]
    BY <1>6 DEF Answer, TypeOK
  <2>2. rec.stage # "idle" /\ rec.url = request[r].url /\ rec.before = request[r].before /\ rec.body = body
    OBVIOUS
  <2> HIDE DEF rec
  <2> QED  BY <1>5, <1>6, <2>1, <2>2
<1>7. \A r \in Requests : request[r].url \in Urls /\ request[r].roles \in RolesType
  BY <1>1 DEF RequestType, RolesType
<1>8. ASSUME NEW r \in Requests, Index(r)  PROVE CInv'
  <2>1. \A q \in Requests : request'[q] = IF q = r THEN Sent([env |-> None, view |-> "card"], Start) ELSE Idle
    BY <1>8 DEF Index
  <2>2. InFlight' = {r}
    BY <2>1 DEF InFlight, Sent, Idle
  <2>3. /\ request'[r].url = [env |-> None, view |-> "card"] /\ request'[r].before = Start
        /\ request'[r].stage = "sent" /\ choice' = Start /\ page' = Blank
    BY <1>8, <2>1 DEF Index, Sent
  <2>4. Carries([env |-> None, view |-> "card"], Start) /\ Matches(Blank, Start)
    BY DEF Carries, ViewOf, Start, Matches, Blank, Notice
  <2> QED  BY <2>2, <2>3, <2>4 DEF CInv
<1>9. ASSUME NEW r \in Requests, NEW t \in Names, ClickTab(r, t)  PROVE CInv'
  <2>1. TabUrl(page, t) \in Urls /\ [choice EXCEPT !.env = t] \in Choices /\ Survives(t) \in BOOLEAN
    BY BodyType, LinkType, <1>2 DEF TabUrl, TypeOK, Envs, Choices, Survives
  <2>2. Ask(r, TabUrl(page, t), [choice EXCEPT !.env = t], Survives(t)) /\ page.kind = "grid"
    BY <1>9 DEF ClickTab
  <2> QED  BY <1>4, <2>1, <2>2, ButtonsCarry
<1>10. ASSUME NEW r \in Requests, NEW v \in Views, ClickView(r, v)  PROVE CInv'
  <2>1. ToggleUrl(page, v) \in Urls /\ [env |-> page.env, view |-> v] \in Choices /\ Survives(page.env) \in BOOLEAN
    BY BodyType, LinkType, <1>2 DEF ToggleUrl, TypeOK, Choices, Survives, Envs
  <2>2. Ask(r, ToggleUrl(page, v), [env |-> page.env, view |-> v], Survives(page.env)) /\ page.kind = "grid"
    BY <1>10 DEF ClickView
  <2> QED  BY <1>4, <2>1, <2>2, ButtonsCarry
<1>11. ASSUME NEW r \in Requests, ClickRetry(r)  PROVE CInv'
  <2>1. RetryUrl(page) \in Urls /\ [choice EXCEPT !.env = None] \in Choices
    BY BodyType, <1>2 DEF RetryUrl, TypeOK, Urls, Choices
  <2>2. Ask(r, RetryUrl(page), [choice EXCEPT !.env = None], TRUE) /\ page.kind = "error"
    BY <1>11 DEF ClickRetry
  <2> QED  BY <1>4, <2>1, <2>2, ButtonsCarry
<1>12. ASSUME NEW r \in Requests, Admit(r)  PROVE CInv'
  <2>1. CASE Answer(r, Refused)
    BY <1>2, <1>6, <1>7, <1>12, <2>1, AnswersMatch DEF Admit
  <2>2. CASE ~ Answer(r, Refused)
    <3> DEFINE rec == [stage |-> "admitted", url |-> request[r].url, body |-> Blank, before |-> request[r].before,
                       roles |-> IF claims = Malformed THEN NoRoles ELSE claims]
    <3>1. request' = [request EXCEPT ![r] = rec]
      BY <1>12, <2>2 DEF Admit, TypeOK
    <3>2. rec.stage = "admitted" /\ rec.url = request[r].url /\ rec.before = request[r].before
      OBVIOUS
    <3> HIDE DEF rec
    <3> QED  BY <1>5, <1>12, <3>1, <3>2 DEF Admit
  <2> QED  BY <2>1, <2>2
<1>13. ASSUME NEW r \in Requests, TurnAway(r) \/ RenderError(r)  PROVE CInv'
  <2>1. Carries(request[r].url, choice) => Matches(Login, choice) /\ Matches(ErrorPanel(request[r].url), choice)
    BY <1>2, <1>7, AnswersMatch
  <2>2. request[r].stage # "idle" /\ UNCHANGED <<page, choice, smooth>>
    BY <1>13 DEF TurnAway, RenderError
  <2>3. Answer(r, Login) \/ Answer(r, ErrorPanel(request[r].url))
    BY <1>13 DEF TurnAway, RenderError
  <2> QED  BY <1>6, <2>1, <2>2, <2>3
<1>14. ASSUME NEW r \in Requests, Render(r)  PROVE CInv'
  <2> DEFINE apps == GetApplicationsForUser(cached', request[r].roles)
  <2>1. cached' \in Catalogues
    BY <1>14 DEF Render, TypeOK
  <2>2. apps \in SUBSET AppType
    BY <1>7, <2>1, ApplicationsType, RolesAreRoles
  <2>3. Answer(r, ApplicationsGrid(apps, request[r].url)) /\ UNCHANGED <<page, choice, smooth>>
        /\ request[r].stage # "idle"
    BY <1>14 DEF Render
  <2> HIDE DEF apps
  <2>4. Carries(request[r].url, choice) => Matches(ApplicationsGrid(apps, request[r].url), choice)
    BY <1>2, <1>7, <2>2, AnswersMatch
  <2> QED  BY <1>6, <2>3, <2>4
\* The request ends: nothing is in flight any more, if nothing else was.
<1>15. ASSUME NEW r \in Requests, request[r].stage # "idle", request' = [request EXCEPT ![r] = Idle],
              UNCHANGED smooth,
              smooth => Matches(page', choice')
       PROVE  CInv'
  <2> SUFFICES ASSUME smooth  PROVE CInv'
    BY <1>15 DEF CInv
  <2>1. \A q \in Requests : request'[q] = IF q = r THEN Idle ELSE request[q]
    BY <1>15 DEF TypeOK
  <2>2. \A q \in Requests : q # r => request[q].stage = "idle"
    BY <1>15 DEF CInv, InFlight
  <2>3. InFlight' = {}
    BY <2>1, <2>2 DEF InFlight, Idle
  <2> QED  BY <1>15, <2>3 DEF CInv
<1>16. ASSUME NEW r \in Requests, Swap(r)  PROVE CInv'
  <2>1. smooth => Matches(request[r].body, choice)
    BY <1>16 DEF CInv, Swap, InFlight
  <2>2. /\ request[r].stage # "idle" /\ request' = [request EXCEPT ![r] = Idle]
        /\ UNCHANGED <<smooth, choice>> /\ page' = request[r].body
    BY <1>16 DEF Swap
  <2> QED  BY <1>15, <2>1, <2>2
<1>17. ASSUME NEW r \in Requests, Lose(r)  PROVE CInv'
  <2>1. smooth => Matches(page, request[r].before)
    BY <1>17 DEF CInv, Lose, InFlight
  <2>2. /\ request[r].stage # "idle" /\ request' = [request EXCEPT ![r] = Idle]
        /\ UNCHANGED <<smooth, page>> /\ choice' = request[r].before
    BY <1>17 DEF Lose
  <2> QED  BY <1>15, <2>1, <2>2
<1>18. ASSUME NEW r \in Requests, Leave(r)  PROVE CInv'
  <2>1. InFlight' = {} /\ page' = Login
    BY <1>18 DEF Leave, InFlight, Idle
  <2>2. Matches(Login, choice')
    BY DEF Matches, Login, Notice
  <2> QED  BY <2>1, <2>2 DEF CInv
<1>19. CASE ChangeClients \/ ChangeClaims \/ OtherFetches \/ CacheExpires \/ UNCHANGED vars
  BY <1>3, <1>19 DEF ChangeClients, ChangeClaims, OtherFetches, CacheExpires, vars
<1> QED
  BY <1>8, <1>9, <1>10, <1>11, <1>12, <1>13, <1>14, <1>16, <1>17, <1>18, <1>19 DEF Next, Serve, Settle

\* A user whose requests do not meet sees what was chosen last, however many
\* pages, errors, lost answers and changes there were.
THEOREM ChoicesLast == Spec => []ShownIsChosen
<1>1. Init => TypeOK /\ CInv
  BY InitType, InitChosen
<1>2. TypeOK /\ CInv /\ [Next]_vars => (TypeOK /\ CInv)'
  BY NextType, NextChosen
<1>3. CInv => ShownIsChosen
  BY DEF CInv, Matches, ShownIsChosen
<1> QED  BY <1>1, <1>2, <1>3, PTL DEF Spec
=============================================================================
