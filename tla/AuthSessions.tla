---------------------------- MODULE AuthSessions ----------------------------
(***************************************************************************)
(* The login session of a browser: session.Store over gorilla/sessions,    *)
(* the handlers of /auth/*, and the AuthRequired middleware in front of    *)
(* every protected route.                                                  *)
(*                                                                         *)
(* A request is a goroutine. It loads the whole session, calls Keycloak,   *)
(* changes its own copy and saves it whole, and so do the other requests   *)
(* of the same browser meanwhile; what a save tells the browser takes      *)
(* effect when the response arrives, in any order. With the filesystem     *)
(* store (Tier 1) the values are in a file and the cookie names it; with   *)
(* the cookie store (Tier 2) the values are in the cookie.                 *)
(***************************************************************************)
EXTENDS Integers, FiniteSets

CONSTANTS Browsers,
          Requests,    \* requests in flight at a time
          StoreType,   \* "filesystem" or "cookie"
          SessionOnly, \* session.max_age is 0
          Kinds,       \* what browsers may ask for
          Disciplined, \* browsers have one tab, which follows redirects
          Replay,      \* a browser may send the same callback again
          Troubles,    \* what may go wrong
          MaxTrouble,  \* bound: how often something goes wrong
          MaxStates,   \* bound: logins started
          MaxTokens    \* bound: tokens Keycloak issues

AllKinds    == {"page", "sso", "login", "callback", "logout"}
AllTroubles == {"expire", "end", "fail", "drop", "restart", "forget"}

ASSUME StoreAssumption  == StoreType \in {"filesystem", "cookie"} /\ SessionOnly \in BOOLEAN
ASSUME KindsAssumption  == Kinds \subseteq AllKinds /\ Troubles \subseteq AllTroubles
ASSUME PartiesAssumption == Browsers # {} /\ IsFiniteSet(Requests)
ASSUME BoundsAssumption ==
  {MaxTrouble, MaxStates, MaxTokens} \subseteq Nat /\ MaxStates <= MaxTokens

InCookie == StoreType = "cookie"

States == 1 .. MaxStates   \* oauth_state values, in the order of their creation
Tokens == 1 .. MaxTokens   \* token sets, in the order Keycloak issued them
None   == 0                \* no token, no state, no session ID

\* session.Values: the token set, the refresh token's own set, oauth_state.
\* sso_state and sso_target_client are written and never read.
Values   == [token : Tokens \cup {None}, refresh : Tokens \cup {None},
             state : States \cup {None}]
NoValues == [token |-> None, refresh |-> None, state |-> None]

IDs      == 1 .. MaxStates \* session IDs: only HandleLogin ever makes one
Cookies  == [id : IDs \cup {None}, values : Values]
NoCookie == [id |-> None, values |-> NoValues]

\* What a response shows: the page or SSO redirect, a redirect to
\* /auth/login, to Keycloak's login, to "/" after a login, to Keycloak's
\* logout, an error page.
Verdicts == {"none", "served", "login", "authorize", "home", "kcLogout", "error"}

PCs == {"idle", "received", "saveState", "clearState", "exchange", "refresh",
        "introspect", "saveToken", "clear", "ssoLoad", "saveSSO", "responded"}

VARIABLES
  cookie,    \* cookie[b]: b's session cookie
  last,      \* last[b]: the verdict b has followed last
  files,     \* the session files: session ID -> Values
  torn,      \* the IDs whose file was cut short by a restart
  nextID,    \* the next fresh session ID
  req,       \* req[r]: a request's locals
  nextState, \* the next fresh oauth_state
  startedBy, \* history: startedBy[s], the browser whose login made state s
  atKeycloak,\* states that have been sent to Keycloak's login page
  codeUsed,  \* states whose authorization code has been exchanged
  nextToken, \* the next token set Keycloak issues
  flow,      \* history: flow[g], the state whose login led to token set g
  expired,   \* token sets whose access and ID tokens are past their exp
  ended,     \* token sets of a Keycloak session that has ended
  cached,    \* Tier 2: revoked tokens the introspection cache calls active
  trouble    \* how often something has gone wrong

store    == <<files, torn, nextID>>
browser  == <<cookie, last>>
keycloak == <<atKeycloak, codeUsed, nextToken, flow, expired, ended, cached>>
states   == <<nextState, startedBy>>
vars     == <<browser, store, req, states, keycloak, trouble>>

NoRequest ==
  [pc |-> "idle", browser |-> CHOOSE b \in Browsers : TRUE, kind |-> "page",
   cookie |-> NoCookie, param |-> None, id |-> None, snap |-> NoValues,
   got |-> None, set |-> FALSE, to |-> NoCookie, verdict |-> "none", authed |-> FALSE]

---------------------------------------------------------------------------
(* session.Store and gorilla/sessions *)

\* Store.Get: the values behind a cookie, or an error and empty values when
\* the file is gone or does not decode. The session keeps the cookie's ID.
Readable(ck) == InCookie \/ ck.id = None \/ ck.id \in DOMAIN files \ torn
Loaded(ck) ==
  IF InCookie THEN ck.values
  ELSE IF ck.id # None /\ Readable(ck) THEN files[ck.id] ELSE NoValues

\* A request that has loaded its session and is at pc p.
WithSession(r, p) ==
  [req[r] EXCEPT !.snap = Loaded(req[r].cookie), !.id = req[r].cookie.id, !.pc = p]

Responding(rec, v) == [rec EXCEPT !.pc = "responded", !.verdict = v]

Respond(r, v) == req' = [req EXCEPT ![r] = Responding(@, v)]

\* Slip: every save starts a new session file.
SaveAnew(r, vals, rec) ==
  /\ files' = [i \in DOMAIN files \cup {nextID} |-> IF i = nextID THEN vals ELSE files[i]]
  /\ torn' = torn
  /\ nextID' = nextID + 1
  /\ req' = [req EXCEPT ![r] = [rec EXCEPT !.id = nextID, !.snap = vals, !.set = TRUE,
                                           !.to = [id |-> nextID, values |-> NoValues]]]

\* session.Save: the whole of vals is written, under a fresh ID if the
\* session has none, and the response sets the cookie. rec is the request
\* after the save.
Write(r, vals, rec) ==
  LET new == ~ InCookie /\ req[r].id = None
      id  == IF new THEN nextID ELSE req[r].id
      ck  == IF InCookie THEN [id |-> None, values |-> vals]
             ELSE [id |-> id, values |-> NoValues]
  IN  /\ files' = IF InCookie THEN files
                  ELSE [i \in DOMAIN files \cup {id} |->
                          IF i = id THEN vals ELSE files[i]]
      /\ torn' = torn \ {id}
      /\ nextID' = IF new THEN nextID + 1 ELSE nextID
      /\ req' = [req EXCEPT ![r] = [rec EXCEPT !.id = id, !.snap = vals,
                                               !.set = TRUE, !.to = ck]]

\* The same with a MaxAge that is not positive: the file is erased, and the
\* response takes the session away from the browser.
Erase(r, id, rec) ==
  /\ files' = [i \in DOMAIN files \ {id} |-> files[i]]
  /\ torn' = torn \ {id}
  /\ req' = [req EXCEPT ![r] = [rec EXCEPT !.set = TRUE, !.to = NoCookie]]
  /\ UNCHANGED nextID

Save(r, vals, rec) ==
  IF SessionOnly /\ ~ InCookie THEN Erase(r, req[r].id, [rec EXCEPT !.snap = vals])
                               ELSE Write(r, vals, rec)

\* Store.Clear: no values and a MaxAge of -1.
Clear(r, id, rec, v) == Erase(r, id, Responding(rec, v))

\* Slip: Tier 1 keeps the access token only, too.
AccessTokenOnly(vals, g) == [vals EXCEPT !.token = g]

\* Store.SaveToken: Tier 2 keeps the access token only.
TokenValues(vals, g) ==
  IF InCookie THEN [vals EXCEPT !.token = g]
  ELSE [vals EXCEPT !.token = g, !.refresh = g]

SaveToken(r, rec) == Save(r, TokenValues(req[r].snap, req[r].got), rec)

---------------------------------------------------------------------------
(* The browser *)

\* What a lone tab does after verdict v: follow the redirect, or open "/".
Follows(v) ==
  CASE v = "login" -> "login" [] v = "authorize" -> "callback" [] OTHER -> "page"

HasToken(ck) == Readable(ck) /\ Loaded(ck).token # None

LoginReceived(r) == req[r].pc = "received" /\ req[r].kind = "login"

Send(r, b, k) ==
  /\ req[r].pc = "idle"
  /\ k \in Kinds
  /\ Disciplined => k = Follows(last[b]) /\ \A q \in Requests : req[q].pc = "idle"
  /\ k = "login" => nextState + Cardinality({q \in Requests : LoginReceived(q)}) <= MaxStates
  /\ \E s \in IF k = "callback" THEN atKeycloak ELSE {None} :
       /\ req' = [req EXCEPT ![r] =
                    [NoRequest EXCEPT !.pc = "received", !.browser = b, !.kind = k,
                                      !.cookie = cookie[b], !.param = s,
                                      !.authed = HasToken(cookie[b])]]
       /\ atKeycloak' = IF Replay THEN atKeycloak ELSE atKeycloak \ {s}
  /\ UNCHANGED <<browser, store, states, codeUsed, nextToken, flow, expired, ended,
                 cached, trouble>>

\* The tokens of the Keycloak session b is logged in with.
TokensOf(b) == {g \in 1 .. nextToken - 1 : startedBy[flow[g]] = b}

\* The response arrives: its Set-Cookie first, then its redirect. Keycloak
\* ends its session at once if the logout brings an ID token as a hint, and
\* asks the user otherwise.
Deliver(r) ==
  LET b == req[r].browser v == req[r].verdict
  IN  /\ req[r].pc = "responded"
      /\ req' = [req EXCEPT ![r] = NoRequest]
      /\ cookie' = IF req[r].set THEN [cookie EXCEPT ![b] = req[r].to] ELSE cookie
      /\ last' = IF Disciplined THEN [last EXCEPT ![b] = v] ELSE last
      /\ atKeycloak' = IF v = "authorize" THEN atKeycloak \cup {req[r].param}
                       ELSE atKeycloak
      /\ ended' = IF v = "kcLogout" /\ req[r].got # None THEN ended \cup TokensOf(b)
                  ELSE ended
      /\ UNCHANGED <<store, states, codeUsed, nextToken, flow, expired, cached, trouble>>

---------------------------------------------------------------------------
(* HandleLogin *)

\* Slip: a session that cannot be loaded is an error, as in HandleCallback.
LoginRefusesUnreadable(r) ==
  /\ LoginReceived(r)
  /\ IF Readable(req[r].cookie)
       THEN /\ req' = [req EXCEPT ![r] = [WithSession(r, "saveState") EXCEPT
                                            !.param = nextState, !.snap.state = nextState]]
            /\ nextState' = nextState + 1
            /\ startedBy' = [startedBy EXCEPT ![nextState] = req[r].browser]
       ELSE Respond(r, "error") /\ UNCHANGED states
  /\ UNCHANGED <<browser, store, keycloak, trouble>>

\* The error of Get is ignored: the state goes into whatever was loaded.
LoginLoad(r) ==
  /\ LoginReceived(r)
  /\ req' = [req EXCEPT ![r] = [WithSession(r, "saveState") EXCEPT !.param = nextState,
                                                                   !.snap.state = nextState]]
  /\ nextState' = nextState + 1
  /\ startedBy' = [startedBy EXCEPT ![nextState] = req[r].browser]
  /\ UNCHANGED <<browser, store, keycloak, trouble>>

LoginSave(r) ==
  /\ req[r].pc = "saveState"
  /\ Save(r, req[r].snap, Responding(req[r], "authorize"))
  /\ UNCHANGED <<browser, states, keycloak, trouble>>

(* HandleCallback *)

\* Slip: any state will do once a login has begun.
StateIsSet(rec, vals) == vals.state # None

StateMatches(rec, vals) == vals.state # None /\ vals.state = rec.param

\* Slip: a callback with a state that is not the session's ends the session.
CallbackClearsOnMismatch(r) ==
  /\ req[r].pc = "received" /\ req[r].kind = "callback"
  /\ IF Readable(req[r].cookie) /\ StateMatches(req[r], Loaded(req[r].cookie))
       THEN req' = [req EXCEPT ![r] = WithSession(r, "clearState")] /\ UNCHANGED store
       ELSE Clear(r, req[r].cookie.id, req[r], "error")
  /\ UNCHANGED <<browser, states, keycloak, trouble>>

CallbackLoad(r) ==
  /\ req[r].pc = "received" /\ req[r].kind = "callback"
  /\ IF Readable(req[r].cookie) /\ StateMatches(req[r], Loaded(req[r].cookie))
       THEN req' = [req EXCEPT ![r] = WithSession(r, "clearState")]
       ELSE Respond(r, "error")
  /\ UNCHANGED <<browser, store, states, keycloak, trouble>>

CallbackClearState(r) ==
  /\ req[r].pc = "clearState"
  /\ Save(r, [req[r].snap EXCEPT !.state = None], [req[r] EXCEPT !.pc = "exchange"])
  /\ UNCHANGED <<browser, states, keycloak, trouble>>

\* Keycloak issues the next token set to r, in the login flow of state s.
Issue(r, s, p) ==
  /\ nextToken' = nextToken + 1
  /\ flow' = [flow EXCEPT ![nextToken] = s]
  /\ req' = [req EXCEPT ![r].got = nextToken, ![r].pc = p]

\* Token sets left for refreshes: one is kept for every login to come.
Spare == MaxTokens + 1 - nextToken - (MaxStates - Cardinality(codeUsed))

\* The same in return for a refresh token; when none is left, a token set of
\* the flow that is still valid stands for the new one.
Reissue(r, s, p) ==
  \/ Spare > 0 /\ Issue(r, s, p)
  \/ /\ Spare <= 0
     /\ \E g \in Tokens \ expired :
          flow[g] = s /\ req' = [req EXCEPT ![r].got = g, ![r].pc = p]
     /\ UNCHANGED <<nextToken, flow>>

\* OAuth2Config.Exchange: Keycloak takes a code once.
CallbackExchange(r) ==
  /\ req[r].pc = "exchange"
  /\ \/ /\ req[r].param \notin codeUsed
        /\ Issue(r, req[r].param, "saveToken")
        /\ codeUsed' = codeUsed \cup {req[r].param}
     \/ /\ req[r].param \in codeUsed
        /\ Respond(r, "error")
        /\ UNCHANGED <<nextToken, flow, codeUsed>>
  /\ UNCHANGED <<browser, store, states, atKeycloak, expired, ended, cached, trouble>>

CallbackSaveToken(r) ==
  /\ req[r].pc = "saveToken" /\ req[r].kind = "callback"
  /\ SaveToken(r, Responding(req[r], "home"))
  /\ UNCHANGED <<browser, states, keycloak, trouble>>

(* HandleLogout: Clear has the cookie's ID whether or not the session could
   be loaded. The ID token goes to Keycloak as a hint; Tier 2 has none. *)
Logout(r) ==
  /\ req[r].pc = "received" /\ req[r].kind = "logout"
  /\ Clear(r, req[r].cookie.id,
           [req[r] EXCEPT !.got = IF InCookie THEN None ELSE Loaded(req[r].cookie).token],
           "kcLogout")
  /\ UNCHANGED <<browser, states, keycloak, trouble>>

---------------------------------------------------------------------------
(* AuthRequired, and the handlers behind it *)

Protected(r) == req[r].kind \in {"page", "sso"}

\* next.ServeHTTP: pages and API answers do not touch the session.
Admitted(rec) ==
  IF rec.kind = "page" THEN Responding(rec, "served") ELSE [rec EXCEPT !.pc = "ssoLoad"]

\* token.Valid() and the ID token's exp count as one: Valid turns false ten
\* seconds before the access token's expiry, and both tokens share it.
AuthLoad(r) ==
  LET sess == Loaded(req[r].cookie)
  IN  /\ req[r].pc = "received" /\ Protected(r)
      /\ req' = [req EXCEPT ![r] =
                   IF sess.token = None THEN Responding(@, "login")
                   ELSE IF InCookie THEN WithSession(r, "introspect")
                   ELSE IF sess.token \in expired THEN WithSession(r, "refresh")
                   ELSE Admitted(WithSession(r, "received"))]
      /\ UNCHANGED <<browser, store, states, keycloak, trouble>>

\* Tier 1: Keycloak refreshes as long as the login session lives; the realm
\* does not revoke a refresh token that has been used.
AuthRefresh(r) ==
  /\ req[r].pc = "refresh"
  /\ LET g == req[r].snap.refresh
     IN  \/ /\ g # None /\ g \notin ended
            /\ Reissue(r, flow[g], "saveToken")
         \/ /\ g = None \/ g \in ended
            /\ req' = [req EXCEPT ![r].pc = "clear"]
            /\ UNCHANGED <<nextToken, flow>>
  /\ UNCHANGED <<browser, store, states, atKeycloak, codeUsed, expired, ended, cached, trouble>>

AuthSaveToken(r) ==
  /\ req[r].pc = "saveToken" /\ Protected(r)
  /\ SaveToken(r, Admitted(req[r]))
  /\ UNCHANGED <<browser, states, keycloak, trouble>>

\* Slip: a token is active until its exp, whatever Keycloak knows of its session.
Unexpired(g) == g \notin expired

Active(g) == g \notin expired \cup ended

\* Tier 2: IntrospectToken answers from the cache as long as that lasts.
AuthIntrospect(r) ==
  /\ req[r].pc = "introspect"
  /\ LET g == req[r].snap.token
     IN  /\ req' = [req EXCEPT ![r] = IF Active(g) \/ g \in cached THEN Admitted(@)
                                      ELSE [@ EXCEPT !.pc = "clear"]]
         /\ cached' = IF Active(g) THEN cached \cup {g} ELSE cached
  /\ UNCHANGED <<browser, store, states, atKeycloak, codeUsed, nextToken, flow, expired,
                 ended, trouble>>

AuthClear(r) ==
  /\ req[r].pc = "clear"
  /\ Clear(r, req[r].id, req[r], "login")
  /\ UNCHANGED <<browser, states, keycloak, trouble>>

\* HandleSSORedirect gets a request whose context has lost the session
\* registry: it loads the session again, from the cookie the request came with.
SSOLoad(r) ==
  /\ req[r].pc = "ssoLoad"
  /\ req' = [req EXCEPT ![r] = WithSession(r, "saveSSO")]
  /\ UNCHANGED <<browser, store, states, keycloak, trouble>>

SSOSave(r) ==
  /\ req[r].pc = "saveSSO"
  /\ Save(r, req[r].snap, Responding(req[r], "served"))
  /\ UNCHANGED <<browser, states, keycloak, trouble>>

---------------------------------------------------------------------------
(* What goes wrong *)

Trouble(t) == t \in Troubles /\ trouble < MaxTrouble /\ trouble' = trouble + 1

\* Keycloak or the disk fails a step of r, or its context is cancelled.
Fail(r) ==
  /\ Trouble("fail")
  /\ \/ /\ \/ req[r].pc \in {"refresh", "introspect"}
           \/ req[r].pc = "saveToken" /\ Protected(r)
        /\ req' = [req EXCEPT ![r].pc = "clear"]
     \/ /\ \/ req[r].pc \in {"saveState", "clearState", "exchange", "saveSSO"}
           \/ req[r].pc = "saveToken" /\ ~ Protected(r)
           \/ req[r].pc = "received" /\ req[r].kind = "logout"
        /\ Respond(r, "error")
     \/ /\ req[r].pc = "clear"
        /\ Respond(r, "login")
  /\ UNCHANGED <<browser, store, states, keycloak>>

\* A browser whose request was lost opens "/" next.
Lost(rs) ==
  /\ req' = [r \in Requests |-> IF r \in rs THEN NoRequest ELSE req[r]]
  /\ last' = [b \in Browsers |->
                IF Disciplined /\ \E r \in rs : req[r].pc # "idle" /\ req[r].browser = b
                THEN "error" ELSE last[b]]

\* r's browser leaves the page before the response arrives.
Drop(r) ==
  /\ Trouble("drop")
  /\ req[r].pc = "responded"
  /\ Lost({r})
  /\ UNCHANGED <<cookie, store, states, keycloak>>

\* The server restarts; a file that was being written may be cut short. The
\* introspection cache is lost.
Restart ==
  /\ Trouble("restart")
  /\ \E t \in SUBSET {req[r].id : r \in {q \in Requests :
                        req[q].pc \in {"saveState", "clearState", "saveToken", "saveSSO"}}} :
       torn' = torn \cup (t \cap DOMAIN files)
  /\ Lost(Requests)
  /\ cached' = {}
  /\ UNCHANGED <<cookie, files, nextID, states, atKeycloak, codeUsed, nextToken, flow,
                 expired, ended>>

\* The cookie's MaxAge is over.
Forget(b) ==
  /\ Trouble("forget")
  /\ cookie' = [cookie EXCEPT ![b] = NoCookie]
  /\ UNCHANGED <<last, store, req, states, keycloak>>

\* A token set reaches its exp, while Keycloak can still issue another.
Expire(g) ==
  /\ Trouble("expire")
  /\ g < nextToken /\ Spare > 0 /\ g \notin expired
  /\ expired' = expired \cup {g}
  /\ UNCHANGED <<browser, store, req, states, atKeycloak, codeUsed, nextToken, flow, ended,
                 cached>>

\* b's session at Keycloak times out, or an administrator ends it.
EndSession(b) ==
  /\ Trouble("end")
  /\ ended' = ended \cup TokensOf(b)
  /\ UNCHANGED <<browser, store, req, states, atKeycloak, codeUsed, nextToken, flow, expired,
                 cached>>

\* The cache's entry for g reaches its ttl (KeyTTLCache bounds when).
CacheExpires(g) ==
  /\ g \in cached
  /\ cached' = cached \ {g}
  /\ UNCHANGED <<browser, store, req, states, atKeycloak, codeUsed, nextToken, flow, expired,
                 ended, trouble>>

---------------------------------------------------------------------------

Init ==
  /\ cookie = [b \in Browsers |-> NoCookie]
  /\ last = [b \in Browsers |-> "none"]
  /\ files = [i \in {} |-> NoValues]
  /\ torn = {}
  /\ nextID = 1
  /\ req = [r \in Requests |-> NoRequest]
  /\ nextState = 1
  /\ startedBy = [s \in States |-> NoRequest.browser]
  /\ atKeycloak = {}
  /\ codeUsed = {}
  /\ nextToken = 1
  /\ flow = [g \in Tokens |-> None]
  /\ expired = {}
  /\ ended = {}
  /\ cached = {}
  /\ trouble = 0

\* A step of r that needs nothing but the server and Keycloak.
Handle(r) ==
  \/ LoginLoad(r) \/ LoginSave(r)
  \/ CallbackLoad(r) \/ CallbackClearState(r) \/ CallbackExchange(r) \/ CallbackSaveToken(r)
  \/ Logout(r)
  \/ AuthLoad(r) \/ AuthRefresh(r) \/ AuthSaveToken(r) \/ AuthIntrospect(r) \/ AuthClear(r)
  \/ SSOLoad(r) \/ SSOSave(r)

Next ==
  \/ \E r \in Requests : Handle(r) \/ Deliver(r) \/ Fail(r) \/ Drop(r)
  \/ \E r \in Requests, b \in Browsers, k \in Kinds : Send(r, b, k)
  \/ \E b \in Browsers : Forget(b) \/ EndSession(b)
  \/ \E g \in Tokens : Expire(g) \/ CacheExpires(g)
  \/ Restart

(***************************************************************************)
(* Fairness: a handler that can go on does, Keycloak answers it, its       *)
(* response arrives unless it is dropped, a cached answer does not last,   *)
(* and the user keeps clicking.                                            *)
(***************************************************************************)
Fairness ==
  /\ \A r \in Requests : WF_vars(Handle(r)) /\ WF_vars(Deliver(r))
  /\ \A b \in Browsers : WF_vars(\E r \in Requests, k \in Kinds : Send(r, b, k))
  /\ \A g \in Tokens : WF_vars(CacheExpires(g))

Spec == Init /\ [][Next]_vars /\ Fairness

---------------------------------------------------------------------------
(* Properties *)

RequestType ==
  [pc : PCs, browser : Browsers, kind : AllKinds, cookie : Cookies,
   param : States \cup {None}, id : IDs \cup {None}, snap : Values,
   got : Tokens \cup {None}, set : BOOLEAN, to : Cookies,
   verdict : Verdicts, authed : BOOLEAN]

\* Every variable keeps its type; counters stay one above their bounds.
TypeOK ==
  /\ cookie \in [Browsers -> Cookies]
  /\ last \in [Browsers -> Verdicts]
  /\ DOMAIN files \subseteq IDs /\ \A i \in DOMAIN files : files[i] \in Values
  /\ torn \subseteq DOMAIN files
  /\ nextID \in 1 .. MaxStates + 1
  /\ req \in [Requests -> RequestType]
  /\ nextState \in 1 .. MaxStates + 1
  /\ startedBy \in [States -> Browsers]
  /\ atKeycloak \subseteq States /\ codeUsed \subseteq States
  /\ nextToken \in 1 .. MaxTokens + 1
  /\ flow \in [Tokens -> States \cup {None}]
  /\ UNION {expired, ended, cached} \subseteq Tokens
  /\ trouble \in 0 .. MaxTrouble

\* A browser is logged in with tokens of a login it started itself: a
\* callback opened in another browser, again, late, or in the middle of
\* another login gives nobody somebody else's session.
LoginStaysInBrowser ==
  \A b \in Browsers :
    HasToken(cookie[b]) => startedBy[flow[Loaded(cookie[b]).token]] = b

\* Session files grow with the logins that were started and with nothing else:
\* the saves of callbacks and refreshes reuse their file, even one that a
\* logout has erased or a restart has cut short meanwhile.
OneFileALogin == Cardinality(DOMAIN files) < nextState

\* The login of state s is the only one of its browser; b has started one login
\* at most.
OnlyLogin(s)   == \A t \in 1 .. nextState - 1 : startedBy[t] = startedBy[s] => t = s
HasOneLogin(b) == \A s \in 1 .. nextState - 1 : startedBy[s] = b => OnlyLogin(s)

\* Whoever is logged in when a request leaves is not sent to the login page,
\* although other requests of the browser refresh the same token, and save
\* older copies of the session over newer ones: that takes a second login of
\* the browser. (To be checked with the filesystem store, without logouts, and
\* with expiry, lost responses and restarts as the only troubles.)
StaysLoggedIn ==
  \A r \in Requests :
    req[r].authed /\ HasOneLogin(req[r].browser) => req[r].verdict # "login"

\* The other logins of a browser are what a login can be lost to, and nothing
\* but that: the callback of the only login of a browser, opened there, gets an
\* error only if another has brought the same state before, whose code has been
\* exchanged or is about to be. (To be checked without logouts, failed steps and
\* forgotten cookies, and with restarts only if no callback is sent twice.)
Taken(s) == s \in codeUsed \/ \E r \in Requests : req[r].param = s /\ req[r].pc = "exchange"

NoLoginIsLost ==
  \A r \in Requests :
    LET s == req[r].param
    IN  /\ req[r].kind = "callback" /\ req[r].verdict = "error"
        /\ startedBy[s] = req[r].browser /\ OnlyLogin(s)
        => Taken(s)

\* However the cookie, the file, the token and Keycloak's session have been
\* damaged, a tab that follows its redirects gets in again and stays in.
LoginRecovers == \A b \in Browsers : <>[](last[b] = "served")

\* Tier 2: once Keycloak has ended the login session of a token, requests that
\* carry the token are turned away for good, as soon as the answers cached
\* before that are gone.
EndedTokensAreRefused ==
  \A g \in Tokens :
    [](g \in ended =>
         <>[](\A r \in Requests : req[r].snap.token = g => req[r].verdict # "served"))

\* What is behind it: a token that is out of use stays out. No cached
\* answer and no session that is loaded again brings it back.
OutOfUse(g) ==
  /\ g \in ended \ cached
  /\ \A r \in Requests : req[r].snap.token = g =>
        req[r].pc \notin {"ssoLoad", "saveSSO"} /\ req[r].verdict # "served"

EndedTokensStayOut == [][\A g \in Tokens : OutOfUse(g) => OutOfUse(g)']_vars

\* "HandleLogout clears session": once a browser has been through the logout
\* it holds no session with the tokens it logged out.
LogoutClearsSession ==
  \A b \in Browsers : HasToken(cookie[b]) => Loaded(cookie[b]).token \notin ended

\* "Zero max_age should be valid (session-only cookie)": as long as nothing
\* goes wrong, a lone tab that logs in never ends at an error page.
LoginWorks == Disciplined /\ trouble = 0 => \A b \in Browsers : last[b] # "error"
=============================================================================
