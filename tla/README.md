# A TLA+ model of cloak-apps

Cloak Apps is a portal in front of Keycloak: a user logs in with OpenID Connect
and sees the applications his roles give access to. The program is small, and
most of what can go wrong in it happens between goroutines, between the program
and Keycloak, or between several requests of one browser. This project models
those parts, checks them with TLC and proves the central ones with TLAPS.

## The system

| Component | State | Operations | Talks to |
|---|---|---|---|
| Keyed TTL cache, `utils/httputil.go` `CacheFirstForKeyTTL` | a map of entries with expiry, result and error; one mutex; a ticker | lookup, miss and store, sweep, stop | Keycloak's introspection endpoint, through `keycloak/introspection.go` |
| Session store, `server/session/store.go` over gorilla/sessions | session files named by a cookie (Tier 1), or the values in the cookie (Tier 2) | Get, GetToken, SaveToken, Clear | the browser's cookie jar, the disk |
| Auth handlers, `server/auth/handlers.go` | none of their own | HandleLogin, HandleCallback, HandleLogout, HandleSSORedirect | session store, Keycloak's authorization, token and logout endpoints |
| AuthRequired, `server/middlewares/auth.go` | none | Tier 1: verify the ID token, refresh when expired; Tier 2: introspect | session store, Keycloak, the keyed cache |
| Admin client, `keycloak/admin.go` with `SendRetryableRequest` and `CacheFirstTTL` | service account token and its expiry; the singleflight group; one cached list of clients | GetClients, GetClientScopes, the token refresh behind them | Keycloak's token endpoint and Admin API |
| Application service, `services/application_service.go` | the map of client scopes, a ticker | GetApplicationsForUser, the scopes refresher | the admin client |
| Process, `cmd/server/main.go`, `config`, `server/server.go` | configuration, listener, goroutines, telemetry providers | start, serve, graceful shutdown | all of the above, the OS |
| Catalogue and page, `application_service.go`, `hda/renderers.go`, `views/index.templ`, `components/applications_grid.templ`, `error_panel.templ` | in the browser: the content of one container, which knows an environment and a view | RenderIndex, RenderApplications; tabs, view toggle and retry button | AuthRequired, the admin client's cache, the browser over HTMX |
| Organization service, `services/organization_service.go` | one string, computed at the start | undo URL encoding round by round, sanitise | the configuration, the page's heading |

How they interact: every request to a protected route passes AuthRequired, which
reads the session and, in Tier 2, calls the keyed cache; pages with applications
then go through the `GetClients` cache to the admin client, whose token they
share with the goroutine that refreshes client scopes. The page itself is a loop:
each answer is a grid whose buttons hold the URLs of the next requests. `main`
starts and stops all of it.

Hard behaviours, and where they are modelled:

- many requests of one browser load, change and save the *whole* session
  concurrently, and their responses arrive in any order (AuthSessions);
- the login is a conversation of browser, program and Keycloak, in which any
  message may be repeated, lost, late or come from another browser (AuthSessions);
- files can be cut short or vanish, tokens expire, sessions end (AuthSessions);
- an answer of Keycloak is already old when it is cached (KeyTTLCache);
- a slow call is made under a mutex that everybody needs (KeyTTLCache, AdminClient);
- read, check and use of the shared token are three steps (AdminClient);
- the answers to several clicks land in any order or not at all, each rendered
  from another list of clients and other roles than the grid that was clicked
  (ApplicationsPage);
- the start has an order, and the shutdown a deadline (ServiceLifecycle);
- a description is decoded until nothing changes, within a limit that refuses it
  and with it the start (OrganizationService).

`PROJECT.json` lists every hazard at its line with the property that covers it,
or the reason why none does.

## The modules

**BoundedStaleCache** is the promise a cache makes to its callers: each call ends
with an error, or with an answer Keycloak itself would have given at most `Bound`
ago, and answers for a key never go back in time. No mutex, map or expiry in it.

**KeyTTLCache** is `CacheFirstForKeyTTL`. A lookup that hits, and a sweep, are one
step each, since nothing is called under the mutex; a miss is three: `Miss` takes
the mutex and sends the request, `Evaluate` is Keycloak's judgement, `StoreAnswer`
or `StoreError` writes the entry and frees the mutex. The sweeper reads the clock
in `ReceiveTick` and takes the mutex in `Sweep`. Keycloak's answers for a key are
numbered; `lastTrue` remembers until when each was true. `Abs` is the refinement
mapping onto BoundedStaleCache with `Bound = TTL + Timeout`.

**KeyTTLCacheProofs** holds the proofs about it, as **AdminClientProofs**,
**ApplicationsPageProofs**, **AuthSessionsProofs** and **ServiceLifecycleProofs** do
for their modules. **LoneLoginProofs** and **LoginTabProofs** extend
AuthSessionsProofs by the proofs of `NoLoginIsLost` and `BackInFive`, and
**StaysLoggedInProofs** extends LoneLoginProofs by that of `StaysLoggedIn`.

**AuthSessions** is the store, the four handlers and AuthRequired. A request is a
record with what a goroutine has in its locals: the cookie it came with, the
loaded session (`snap`), the token set it has got, and the response as it will
be. One action per step between two accesses to shared state: `LoginLoad` /
`LoginSave`, `CallbackLoad` / `CallbackClearState` / `CallbackExchange` /
`CallbackSaveToken`, `Logout`, `AuthLoad` / `AuthRefresh` / `AuthSaveToken` /
`AuthIntrospect` / `AuthClear`, `SSOLoad` / `SSOSave`. `Write` and `Erase` are what
gorilla/sessions does on `Save`. `Deliver` is the browser taking the response:
`Set-Cookie` first, then the redirect. What can go wrong is a set of named
troubles (`Fail`, `Drop`, `Restart`, `Forget`, `Expire`, `EndSession`). With
`Disciplined`, a browser has one tab that follows redirects; without, it sends
anything at any time. In Tier 2 the answers of the introspection cache are the
set `cached`, emptied by `CacheExpires`; KeyTTLCache says how soon that happens.

**MCAuthSessions** adds the symmetry of requests.

**LoginTab** is AuthSessions with one history variable beside it: `calm` counts the
answers that arrive (`Deliver`), up to five, and starts again at zero whenever
something goes wrong. It gives `LoginRecovers` its measure, `BackInFive`.

**AdminClient** is the service account token. `Hit`, `Miss` and `UserReturns` are
`CacheFirstTTL`; `ReadToken`, `Do`, `Receive` and `Finish` are `ensureValidToken`
around singleflight; `Attach` to `CallFails` are one round of
`SendRetryableRequest`. Before the first load of client scopes has succeeded
(`up`) there are no users, and a failure ends the program, as in `main`.

**ApplicationsPage** is the page from Keycloak's clients to the buttons.
`transformClientToApplication`, `GetApplicationsForUser`, `extractEnvironments`,
`filterByEnvironment` and `groupBySpace` are operators of the code's names, over
clients whose scopes are sequences of `<<category, value>>`; environments and
spaces are numbers in the order of `sort.Strings`, 0 the empty string.
`ApplicationsGrid` is what `RenderApplications` answers, `TabUrl`, `ToggleUrl`
and `RetryUrl` what its buttons ask for. A request goes through `Admit` or
`TurnAway` (AuthRequired), then `Render` or `RenderError`, with the list in the
shared cache or a new one; `Swap`, `Leave` and `Lose` are what HTMX does with
the answer: it swaps it in, leaves the page on `HX-Redirect`, and does nothing
on a status of 400 and above. Requests of different elements are not
synchronised, so any of them may be in flight at once. Meanwhile the clients,
the user's claims and the cache change (`ChangeClients`, `ChangeClaims`,
`OtherFetches`, `CacheExpires`). `buildURL` writes the environment without
escaping: `Arrives` says what the server reads, `CutsView` which names take the
view parameter with them.

`ShownIsChosen` compares the page with what was clicked: a tab chooses an
environment, the toggle a view and the environment it was shown with, which it keeps
even if nobody has asked for it. `EnvironmentsAreInReach` says that a grid leads on
even when the click was answered from a list without the environment asked for.

**MCApplicationsPage** gives it three catalogues and three claims.

**OrganizationService** is `canonicalizeHTML` and `sanitizeHTML` over descriptions
made of tokens, each a character or tag under a number of layers of encoding.
One `Round` of the loop is an action.

**ServiceLifecycle** is `main`: one action for each thing that can end the start,
the goroutines as small automata beside it, and the shutdown in its order. It
extends OrganizationService, whose rounds are a phase of the start. Until `Notify` a
signal kills the process. `HandOver` is what the batch processor does with the spans
it holds, on its timer (`Export`) and at the end (`TracerShutdown`): the collector may
refuse them, which `refused` remembers, and they are dropped then. A collector is
taken to be configured; without one there are no spans.

**MCServiceLifecycle** gives it descriptions on both sides of the limits.

Every operator under a comment that begins with *Slip* is a plausible mistake in
the definition that follows it. No specification uses one; substituted for that
definition, each violates the property `PROJECT.json` names with it.

## The runs

| Run | Bounds | Shows |
|---|---|---|
| `cache` | 2 callers, 1 key, TTL 1, Timeout 1, 1 revocation, clock to 3 | type invariant, `ErrorsAreNeverHits`, `NoRedundantFetch`, `BoundedStaleness`, `NeverGoesBack`, `LiveEntriesAreKept`, refinement of BoundedStaleCache, `EveryCallReturns`, `ExpiredEntriesAreEvicted` |
| `page` | 3 clients in 3 catalogues, 3 claims, 2 requests, 2 page loads, 2 clicks, 1 change | type invariant, `EnvironmentsAreInReach`, `ShownIsChosen`, `ShownWasGranted`, `LoadEnds` |
| `page_everything` | the same | **violated** `AllAreAccessible` |
| `sessions_tabs` | 2 browsers with any tabs, each other's callbacks, 2 requests, 2 logins, 3 token sets, 1 expiry, lost response or restart | type invariant, `LoginStaysInBrowser`, `OneFileALogin`, `StaysLoggedIn`, `NoLoginIsLost` |
| `sessions_recover` | 1 tab, any 3 troubles, 4 logins | `BackInFive`, `LoginRecovers` |
| `sessions_cookie` | Tier 2, 1 browser, 2 requests of any kind, 2 logins, 3 token sets, 1 expiry, ended Keycloak session, failed step, restart or forgotten cookie | `EndedTokensAreRefused`, `EndedTokensStayOut` |
| `sessions_logout` | 1 browser, 2 requests, 1 expiry | **violated** `LogoutClearsSession` |
| `sessions_session_only` | `max_age` 0, nothing goes wrong | **violated** `LoginWorks` |
| `admin` | 1 user and the refresher, Buffer = Timeout = 1, Lifespan 4, 3 tokens, 1 revocation, clock to 6 | type invariant, `AttachedTokenExists`, `RetryRecovers`, `RevokedTokenIsDropped`, `ErrorsAreNotCached`, `NobodyWaitsInVain`, `TokenNeverRegresses` |
| `admin_one_refresh` | the same | **violated** `OnlyOneRefresh` |
| `lifecycle` | 2 requests, all stores, metrics enabled, positive and negative numbers, 7 descriptions, a collector that may refuse | type invariant, `AcceptedConfigWorks`, `DescriptionIsSettled`, `RequestsAreDrained`, `SpansAreFlushed`, `ShutdownEnds` |
| `lifecycle_zero` | metrics enabled, zeros as well | **violated** `AcceptedConfigWorks` |

Why the bounds suffice. `cache`: one revocation and one key make both the stale
answer and the older-answer-last race; the clock reaches a tick of the sweeper's
ticker after an expiry, and a second miss. A second key adds nothing to the
wait: the mutex is one for all keys, and a caller waits for it whatever key the
holder asks about. `page`: two requests suffice for answers to land in the
wrong order, two clicks for a choice to be lost by the second, one change for
the answer to come from another list or other roles than the grid, two page
loads for a request of the page before. The catalogues hold an application in
two environments, one without any beside one whose name has a `#`, and a list
without environments; the claims one client with no role and claims that do not
decode. `lifecycle`: the descriptions need ten rounds and eleven, by text and by
a plus, hide a tag under layers, and have a percent sign early and late.
`sessions_tabs`: a mix-up takes
two browsers with a login each and two callbacks at a time. With two
logins, a browser's login can be met by another of its own, which may cost it, and by
one of the other browser, which may not; two requests are a callback and whatever
another tab does meanwhile, or a refresh and a save of what was loaded before it. A third
request that reads between the two, a second refresh, and callbacks sent twice are left
to the theorems; so are logouts and forgotten cookies for `LoginStaysInBrowser` and
`OneFileALogin`, which hold with them and with callbacks sent twice, while of the other
two invariants each fails with some of these. `sessions_cookie`: the third token set is
what lets a token expire, since one set is kept for each login to come and `Expire`
asks for another; Tier 2 refreshes nothing. `sessions_recover`: more logins than
troubles, so that the bound on logins never ends the story; five answers are tight there, four are not
enough.
`admin`: the cache's mutex lets one user through, so one user and the refresher
are all that meet at the token; the clock passes the expiry of the first token,
both as the client and as Keycloak see it, and `RevokedTokenIsDropped` is tight
there: with a bound one less it is violated. A token that expires under way needs
Lifespan > Timeout, slow refreshes Timeout > 0. The scopes of all counters are in
the comments of the constants.

### What the violated runs say

- *Applications without an environment disappear from view* as soon as one
  application of the user has an environment: the filter of `renderers.go` line
  115 is strict, the first environment is selected when none is asked for, and no
  tab, indeed no URL, is for none. `README.md` line 13 says that users can access
  all applications they have permission to use, and `index.templ` line 158 offers
  to "Access all your authorized applications/services". A page asked for an
  environment that is gone from the list shows nothing of them either, while none
  of the user's applications has an environment any more, and has no tab to leave it.
- *The session comes back after a logout.* A page request that loaded the session
  before the logout refreshes its token and saves the session after it. The file
  is written again under the same ID, and the response, if it arrives after the
  logout's, sets the cookie again. `handlers.go` line 140 says that HandleLogout
  clears the session.
- *`session.max_age: 0` makes logging in impossible* with the filesystem store:
  gorilla/sessions erases a session that is saved with a MaxAge that is not
  positive. The test of the configuration says zero is a session-only cookie.
- *Two refreshes for one expiry.* The token is judged before singleflight is
  entered. Harmless, except for the comment and the load.
- *Zero intervals panic.* `time.NewTicker` takes no zero; Validate and its tests
  do ("caching disabled", "should be valid").

Neither run of the process says anything about a program without metrics, although
`metrics.enabled` is false by default (`config.go` line 74): both have them enabled.
Without, `AcceptedConfigWorks` is violated by every configuration that gets as far as
`LoadClientScopes`, so that nothing else could be checked: the instruments are nil
interfaces, and the first token refresh counts itself. To see it, give
`MetricsEnabled` the value `{FALSE}` in `ServiceLifecycle.cfg`.

### What the models say that is no finding

- *An application in several environments* is in the first one's tab only, as its
  first `env-` scope decides.
- *Environment names are not escaped* in `buildURL`: with a `#`, `&`, `+` or `%` in
  its name the tab asks for another environment. The properties except such
  names; the instance has one, to check the rest beside it.
- *The retry button forgets the environment*, not the view: its URL has none.
- *The last answer to land wins* over the last click. `ShownIsChosen` therefore
  speaks of requests that do not meet; whatever lands is whole, which is a conjunct of
  the type invariant.
- *A page whose first answer is lost stays empty* until it is reloaded.
- *"100%25" keeps the program from starting*, and so does every percent sign under
  any encoding: the loop decodes until nothing changes, and then fails on the
  bare one. A plus never survives. Eleven rounds that change something are
  refused, where the constant says ten.
- *A revoked service account token is used until its expiry*, less the buffer: the
  client judges it by its expiry alone, so until then every call fails.
  `RevokedTokenIsDropped` bounds for how long.

## Fairness

- A goroutine that can take a step does (weak fairness of the handlers, the
  sweeper, `main`, the hooks): Go's scheduler.
- `sync.Mutex` hands itself to the longest waiter (strong fairness of `Hit \/
  Miss` and `Sweep`).
- No fairness makes Keycloak answer well: calls end by `http.Client`'s timeout
  (`StoreError`). `AuthSessions` lets handlers run on and treats failing as a
  trouble of which there are finitely many, since a login cannot succeed while
  Keycloak is down for good. The token exchange and refresh of AuthSessions have no
  timeout of their own in the code; the request's context ends them.
- Responses arrive unless dropped, and users keep clicking: without that nobody
  ever gets in again.
- The page: the server answers, and an answer arrives or the browser gives it up.
  No user has to click.
- Time passes (KeyTTLCache, AdminClient), a cached answer does not last
  (AuthSessions, by KeyTTLCache's `TTL`), and the shutdown's ten seconds end
  (ServiceLifecycle). No handler is assumed to end there.

In AdminClient the code between two calls takes no time: the clock stands while
a goroutine is neither idle, waiting nor at Keycloak. `RetryRecovers` needs that,
and `LifespanAssumption`: a buffer no shorter than the timeout (both are 30 s) and
tokens that outlive a refresh and two calls (5 minutes by default).

## What is proved

`KeyTTLCacheProofs`, for any callers, keys, TTL > 0, Timeout and bounds:
`TypeCorrect`, `ErrorsNotCached`, `OneFetch`, `Staleness`, `Monotonic`, `LiveKept`
and `Refinement` (the safety part of `ImplementsBoundedStaleCache`).

Their inductive invariant `IInv` adds to the type invariant what makes the
properties inductive: the mutex is held exactly by the caller in the circuit
(`MutexInv`); a request in flight left no more than Timeout ago and no reading of
the clock lies in the future (`ClockInv`); what upstream answers now is true now
(`HistoryInv`); an entry with an error is expired from the start, one with an
answer expires no later than TTL + Timeout after the answer was last true, and
is ordered between what was served last and what upstream says (`EntryInv`); a
reply on its way was true since its request, in the same order (`ReplyInv`,
`ServedInv`). One lemma per action shows that it is preserved, `StepInv` puts
them together, `Invariance` makes it `[]IInv`, and each theorem follows from it:
the action properties and the refinement with one lemma per action that returns.

`AdminClientProofs`, for any users, TTL and bounds, and any Buffer, Timeout and
Lifespan that satisfy `LifespanAssumption`: `TypeCorrect`, `TokenExistsWhenAttached`,
`OneRetryIsEnough`, `CacheKeepsNoError`, `WaitersAreServed`, `TokensOnlyAdvance`,
`RevokedTokensGoOutOfUse`, that is, every safety property of the run `admin`. The argument for the retry:

- the token in memory expires for its owner at most Timeout later than for
  Keycloak (`TokensInv`), since its lifespan is counted from the answer's arrival;
- a caller at Keycloak sent the token in memory, or another has replaced it, whose
  answer came no earlier than the call began (`Sent`);
- a 401 to the first call says that its token is spent (`Spent`). At the retry that
  token, if still in memory, was revoked or is within Timeout of its expiry for its
  owner: `Timeout <= Buffer` makes it stale. Any other token, also one a leader
  brings while the caller waits, is young enough to last for the call (`Lasts`),
  by `3 * Timeout + Buffer <= Lifespan`.

For the others `IInv` says that there are no users before the first load and a
token after it (`StartInv`), that the flight is led exactly by the goroutine that
is at its refresh (`FlightInv`), whose token is the last one issued (`LeaderInv`),
and that a user past the mutex still sees the expired entry it saw (`MutexInv`).
TLC agrees with this `IInv` for one user and three tokens, and two users and two.
`RevokedTokensGoOutOfUse` adds `BoundInv`: whoever is to attach the token in memory
has it for Buffer more, by its expiry there, since no time passes between the look
and the attachment, and any token that replaces it lives longer; so every call
begins Buffer before the end of Timeout and a life.

`ApplicationsPageProofs`, for any clients, catalogues, claims, names, requests and
bounds: `TypeCorrect`, `OneClickAway`, `OnlyGrantedShown` and `ChoicesLast`, every
safety property of the run `page`. `GInv` says that what is shown, or on its way,
was rendered for roles the user has had; `CInv` that without a crossing
at most one request is under way, and that it, its answer and the page agree with
the choice. That `Least` returns a least member of any set of names, finite or not,
is proved from the library's well-foundedness of finite sets.

`ServiceLifecycleProofs`, for any requests and configurations: `TypeCorrect`,
`DrainIsComplete`, `TelemetryIsComplete`, `DescriptionSettled` and `StartsAndStops`, which needs as
hypotheses what the runs choose by their constants: no interval of zero, no ttl of
zero with the cookie store, metrics enabled. These are the checks `Validate` lacks.
`IInv` says that main is past its first step only with a validated configuration,
which decides whether there are instruments (`ConfigInv`), and that the listener
is closed from the drain on, so that what has ended stays ended (`DrainInv`). `OrgInv` says that after `count` rounds
the text is the description less `count` layers of every token (`Peeled`), and the
text before it one layer more: a round changes nothing exactly when every token
has been peeled bare, which gives the closed form of `DescriptionIsSettled` without
an induction over the loop.

`AuthSessionsProofs`, for any browsers, any number of requests, either store, any
kinds of requests and troubles: `TypeCorrect`, `SessionsStayApart` and
`FilesGrowWithLogins`, three invariants of the run `sessions_tabs`, here with every kind of
request and trouble. Whose a
session ID is, no variable says:
`OwnerInv` says that owners can be chosen for all IDs so that no cookie, file, request
or response mixes two browsers (`Owned`, `Keeps`, `Mine`). A save under a fresh ID
adds one owner; every other step leaves the choice as it is (`OwnerLasts`). What
came from a login of b still does after any step, since states, IDs and token sets
are only ever added (`Grows`, `FlowInv`). For the types, every login under way must
find a state, an ID and a token set left: `CountInv` reserves them, the states for
logins received, the IDs for logins about to save, the token sets for codes not
exchanged yet (`Spare`). With it, the files, whose IDs are all below `nextID`, are
never more than the logins started. The actions fall into a few kinds of steps, each with its
lemma: nothing but the request changes (`QuietStep`), a file is written or erased
(`SaveStep`, `EraseStep`), Keycloak issues a token set (`IssueStep`), requests are lost
(`LostStep`), something happens outside (`OutsideStep`).

`LoneLoginProofs`: `LoginsAreKept`, another invariant of the run `sessions_tabs`, for any
browsers, requests, logins and either store, under the hypothesis `Undisturbed`: no
logout, failed step, restart or forgotten cookie, each of which may take the session
away (a restart only from a callback that is sent again: without that the run has
restarts too), and in Tier 1 no `max_age` of 0. `NoLoginIsLost` speaks of a callback that has
failed; `LoneInv` says why none does: while a browser's only login has not come through
(`Lone`), what the browser holds has the state of that login behind it. That goes for the
cookie once Keycloak has the state, for every response that will set the cookie, and for
the cookie that the callback brings (`Ready`, `BringsOn`). It is inductive only with
`Proper`: a request that could overwrite the session has had a token, and a browser
whose only login has not come through has none (`NoTokenYet`). The session IDs are kept
apart by the owners of `AuthSessionsProofs`. TLC agrees with `LoneInv` for either store.

`StaysLoggedInProofs`: `NobodyIsLoggedOut`, the last invariant of that run, for any
browsers, requests, refreshes, logins and token sets, under the hypothesis `Steady`: what
the run's constants choose but for their bounds and its restarts, that is, the filesystem
store, no logout, no callback sent twice, and no trouble but expiry and lost responses. Without it the
property is false, as it should be: a logout ends the session, a failure may, and so may
a replayed callback that saves the session as it was loaded before the token came. So may
a second login, which is why the property speaks of browsers with one. `OnceInv` says
that a login is in one place at a time: with one request (`Carries`), or at Keycloak, or
its code is exchanged. By then only, and by `LoneInv`, the browser has a token; so who may
still write a session without one does so before there is one (`NotYet`). Whoever loads
the session later finds the token in it, and saves no session without it (`Safe`), and
no other browser writes the file, by the owners of the IDs.

`EndedTokensGone` in `AuthSessionsProofs` is the action property of `sessions_cookie`,
for any browsers and requests in Tier 2. `CookieInv` says where a request can be there:
it never refreshes, saves a new token only in a callback, and is served last of all, with
the token its own cookie brought. So whoever serves with a token has had an answer for
it, from Keycloak, which gives none once the session has ended, or from the cache, which
gets none any more.

`LoginTabProofs`: `BackAtThePage`, for one tab and the filesystem store, any number of
logins, tokens and troubles of every kind. `BackInFive` says where the tab is after five
answers; `TabInv` says where it is after each. Its answers have ranks (`Rank`: an error,
the login, Keycloak, "/", the page), and the tab is never behind its count (`CalmInv`):
every answer brings it one on, because its request finds the session as the last answer
left it, with the state that the callback brings, or with a token that has not expired
(`GoesWell`, `Holds`, `Live`). Whatever goes wrong, `BaseInv` remains: there is one
request at most, the one the last answer led to, and the state of its login has not been
used yet (`Underway`). The theorem is the bounded form of `LoginRecovers`; that the five
answers arrive at all is left to fairness, and to TLC.

Not proved: liveness (`EveryCallReturns`, `ExpiredEntriesAreEvicted`, `LoadEnds`,
`LoginRecovers`, `EndedTokensAreRefused`, `ShutdownEnds`), which is beyond TLAPS here
and checked by TLC on the instances above. Every invariant and every action property
of a passing run is proved.

## What is not modelled

- The looks of the page: cards and list items, `getInitials`, the layout, static
  assets and the API documentation; of an application the model keeps what decides
  whether, where and for whom it is shown.
- Names and mail in the claims, and realm roles, which are carried and never judged.
- Telemetry: what spans, metrics and log lines say. That spans are handed over is
  modelled, and that the instruments exist when they are used; not that the batch
  processor drops spans when its queue is full.
- In Tier 1, the failures of AuthRequired after the refresh: a missing ID token, one
  that `Verify` refuses (`auth.go` lines 144 to 161), claims that do not decode (179 to
  185, but see ApplicationsPage). `Fail` covers those of the refresh, of the
  introspection and of the save; what the others do to the session, to clear it or to
  leave it, these do as well.
- The access check of HandleSSORedirect (`handlers.go` lines 180 to 203), which may end
  the request with an error before it loads the session: it touches no state.
- JSON. The cache of GetClients keeps the body and `admin.go` line 297 decodes it
  after the cache, so a 200 that does not decode is an error until its entry expires;
  in the models every answer that is cached decodes.
- That `StrictPolicy` escapes `&` and quotes, which the template escapes once more
  (`organization_service.go` line 38).
- The clientScopes map of the application service: the refresher writes it under its
  mutex and nothing reads it.
- gorilla/sessions, singleflight, net/http, HTMX, the browser and Keycloak are
  modelled from how the code uses them; `PROJECT.json` marks them external.
- Cookie size limits, disk space, and clock skew between Keycloak and the program,
  none of which the code handles.

## Order of the work

Caches and sessions came first, as everything stands on them; then the admin
client, the process, the page, and the organization's description. Each module was
checked before it was proved about, and each inductive invariant was checked by TLC
before its proof. The last four proofs answer what the first properties of AuthSessions
had left open: what a login can be lost to, before it has come through and after, how
soon a tab recovers, and whether an ended token stays out. Two things would be next:

1. the introspection cache of AuthSessions (`cached`) as an instance of
   BoundedStaleCache, so that `EndedTokensAreRefused` gets its bound in time;
2. an abstract session, which one tab of a browser sees, implemented by AuthSessions
   with `Disciplined`.

## Running

    tlc -config KeyTTLCache.cfg KeyTTLCache.tla
    tlc -config ApplicationsPage.cfg MCApplicationsPage.tla
    tlapm KeyTTLCacheProofs.tla
    tlapm AdminClientProofs.tla
    tlapm ApplicationsPageProofs.tla
    tlapm AuthSessionsProofs.tla
    tlapm LoneLoginProofs.tla
    tlapm StaysLoggedInProofs.tla
    tlapm LoginTabProofs.tla
    tlapm ServiceLifecycleProofs.tla
