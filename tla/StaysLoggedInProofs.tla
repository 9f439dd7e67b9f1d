------------------------ MODULE StaysLoggedInProofs ------------------------
(***************************************************************************)
(* The proof that a browser with one login stays logged in: StaysLoggedIn  *)
(* of AuthSessions with the filesystem store, for any browsers, any number *)
(* of requests, of refreshes and of logins, as long as nothing happens but *)
(* that tokens expire and responses are lost.                              *)
(***************************************************************************)
EXTENDS LoneLoginProofs

\* What the run sessions_tabs assumes of its constants, but for their bounds
\* and for its restarts.
Steady ==
  /\ StoreType = "filesystem" /\ ~ SessionOnly
  /\ ~ Replay /\ "logout" \notin Kinds
  /\ Troubles \subseteq {"expire", "drop"}

---------------------------------------------------------------------------
(* The inductive invariant, on top of IInv and LoneInv. *)

\* The request is the login of state s, or its callback, and could still bring
\* the login on.
Carries(s, rec) ==
  /\ rec.param = s
  /\ \/ rec.pc \in {"saveState", "clearState", "exchange"} \/ rec.verdict = "authorize"
     \/ rec.pc = "received" /\ rec.kind = "callback"

\* A login is in one place at a time: with one request, or at Keycloak's login
\* page, or its code has been exchanged.
OnceInv ==
  /\ \A s \in States, q, r \in Requests : Carries(s, req[q]) /\ Carries(s, req[r]) => q = r
  /\ \A s \in States, r \in Requests :
       Carries(s, req[r]) => s \notin atKeycloak \cup codeUsed /\ s < nextState
  /\ atKeycloak \cap codeUsed = {}
  /\ \A s \in codeUsed : s < nextState

\* SaveToken of Tier 1 keeps the refresh token with the access token.
Paired(vals) == vals.token # None => vals.refresh # None

\* A refresh finds its refresh token, and no request clears a session. In a
\* browser with one login, a request that came with a token finds one whenever
\* it loads the session, and writes none that has not.
Safe(rec) ==
  /\ Paired(rec.snap)
  /\ rec.pc = "saveToken" => rec.got # None
  /\ rec.pc = "refresh" => rec.snap.refresh # None
  /\ rec.pc \notin {"introspect", "clear"} /\ rec.verdict # "kcLogout"
  /\ HasOneLogin(rec.browser) =>
       /\ rec.pc = "saveSSO" => rec.snap.token # None
       /\ rec.pc = "ssoLoad" \/ rec.authed => HasToken(rec.cookie)
       /\ rec.authed => rec.verdict # "login"

StayInv ==
  /\ OnceInv
  /\ \A r \in Requests : Safe(req[r])
  /\ \A i \in DOMAIN files : Paired(files[i])
  /\ ended = {}

---------------------------------------------------------------------------
(* What holds before a step. *)

USE StoreAssumption, KindsAssumption, PartiesAssumption, BoundsAssumption
USE DEF StoreAssumption, KindsAssumption, PartiesAssumption, BoundsAssumption

LEMMA Undisturbing == Steady => Undisturbed /\ ~ InCookie
BY DEF Steady, Undisturbed, InCookie

\* A browser has a token behind a cookie if the session file has.
LEMMA TokenFound ==
  ASSUME Steady, torn = {}, NEW ck
  PROVE  HasToken(ck) <=>
           ck.id # None /\ ck.id \in DOMAIN files /\ files[ck.id].token # None
BY Undisturbing DEF HasToken, Readable, Loaded, NoValues

\* A load finds the refresh token with the token.
LEMMA LoadedPaired ==
  ASSUME Steady, IInv, LoneInv, StayInv, NEW ck
  PROVE  /\ Paired(Loaded(ck))
         /\ HasToken(ck) <=> Loaded(ck).token # None
<1>1. ~ InCookie /\ torn = {} /\ \A i \in DOMAIN files : Paired(files[i])
  BY Undisturbing DEF StayInv, LoneInv
<1>2. Paired(NoValues) /\ NoValues.token = None
  BY DEF Paired, NoValues
<1> QED
  BY <1>1, <1>2 DEF HasToken, Loaded, Readable

\* Once a browser has begun a second login it has.
LEMMA OneLoginBefore ==
  ASSUME TypeOK, Grows, TypeOK', NEW b, HasOneLogin(b)'
  PROVE  HasOneLogin(b)
<1> SUFFICES ASSUME NEW s \in 1 .. nextState - 1, startedBy[s] = b,
                    NEW t \in 1 .. nextState - 1, startedBy[t] = b
             PROVE  t = s
  BY DEF HasOneLogin, OnlyLogin
<1>1. /\ s \in 1 .. nextState' - 1 /\ startedBy'[s] = b
      /\ t \in 1 .. nextState' - 1 /\ startedBy'[t] = b
  <2>1. nextState \in Int /\ nextState' \in Int /\ nextState <= MaxStates + 1 /\ nextState <= nextState'
    BY DEF TypeOK, Grows
  <2>2. s \in States /\ t \in States /\ s < nextState /\ t < nextState
    BY <2>1 DEF States
  <2>3. startedBy'[s] = b /\ startedBy'[t] = b
    BY <2>2 DEF Grows
  <2>4. \A m, n \in Int : m <= n => \A i \in 1 .. m - 1 : i \in 1 .. n - 1
    OBVIOUS
  <2> QED
    BY <2>1, <2>3, <2>4
<1> QED
  BY <1>1 DEF HasOneLogin, OnlyLogin

\* While the only login of a browser is under way, no token is the browser's.
LEMMA NotYet ==
  ASSUME IInv, LoneInv, StayInv, NEW r \in Requests, NEW s \in States,
         Carries(s, req[r]), StateOf(req[r].browser, s), HasOneLogin(req[r].browser)
  PROVE  ~ HasGotToken(req[r].browser)
<1> SUFFICES ASSUME NEW g \in Tokens, TokenOf(req[r].browser, g) PROVE FALSE
  BY DEF HasGotToken
<1>1. /\ flow[g] \in States /\ flow[g] < nextState /\ startedBy[flow[g]] = req[r].browser
      /\ flow[g] \in codeUsed
  BY DEF TokenOf, IInv, FlowInv, LoneInv
<1>2. s \notin codeUsed /\ s < nextState /\ startedBy[s] = req[r].browser
  BY DEF StayInv, OnceInv, StateOf
<1>3. flow[g] = s
  BY <1>1, <1>2 DEF HasOneLogin, OnlyLogin, States, IInv, TypeOK
<1> QED
  BY <1>1, <1>2, <1>3

---------------------------------------------------------------------------
(* The kinds of steps. *)

\* A step of one request takes a login that is new, that comes from Keycloak's
\* login page or that the request has had, and leaves it in one place.
LEMMA OnceStep ==
  ASSUME IInv, IInv', OnceInv, nextState <= nextState', NEW r \in Requests,
         \A q \in Requests : q # r => req'[q] = req[q],
         \A s \in States :
           Carries(s, req'[r]) =>
             /\ Carries(s, req[r]) \/ s >= nextState \/ s \in atKeycloak
             /\ s \notin atKeycloak' \cup codeUsed' /\ s < nextState',
         \A s \in atKeycloak' : s \in atKeycloak \/ Carries(s, req[r]),
         \A s \in codeUsed' : s \in codeUsed \/ (Carries(s, req[r]) /\ s \notin atKeycloak')
  PROVE  OnceInv'
<1>1. /\ nextState \in Int /\ nextState' \in Int /\ States \subseteq Int
      /\ atKeycloak \subseteq States /\ codeUsed \subseteq States
      /\ atKeycloak' \subseteq States /\ codeUsed' \subseteq States
  BY DEF IInv, TypeOK, States
<1>2. ASSUME NEW s \in States, NEW q \in Requests, Carries(s, req'[q]), q # r
      PROVE  /\ Carries(s, req[q]) /\ s < nextState /\ ~ Carries(s, req[r])
             /\ s \notin atKeycloak \cup codeUsed
  BY <1>2 DEF OnceInv
<1>3. ASSUME NEW s \in States, NEW q \in Requests, NEW p \in Requests,
             Carries(s, req'[q]), Carries(s, req'[p])
      PROVE  p = q
  <2>1. CASE q # r /\ p # r
    BY <1>2, <1>3, <2>1 DEF OnceInv
  <2>2. CASE q = r \/ p = r
    BY <1>1, <1>2, <1>3, <2>2
  <2> QED
    BY <2>1, <2>2
<1>4. ASSUME NEW s \in States, NEW q \in Requests, Carries(s, req'[q])
      PROVE  s \notin atKeycloak' \cup codeUsed' /\ s < nextState'
  <2>1. CASE q = r
    BY <1>4, <2>1
  <2>2. CASE q # r
    BY <1>1, <1>2, <1>4, <2>2
  <2> QED
    BY <2>1, <2>2
<1>5. atKeycloak' \cap codeUsed' = {}
  BY <1>1 DEF OnceInv
<1>6. \A s \in codeUsed' : s < nextState'
  BY <1>1 DEF OnceInv
<1> QED
  BY <1>3, <1>4, <1>5, <1>6 DEF OnceInv, Carries

\* A step that takes none.
LEMMA OnceKept ==
  ASSUME IInv, IInv', OnceInv, UNCHANGED <<nextState, atKeycloak, codeUsed>>,
         NEW r \in Requests, \A q \in Requests : q # r => req'[q] = req[q],
         \A s \in States : Carries(s, req'[r]) => Carries(s, req[r])
  PROVE  OnceInv'
<1>1. nextState <= nextState'
  BY DEF IInv, TypeOK
<1>2. \A s \in States :
        Carries(s, req'[r]) => s \notin atKeycloak' \cup codeUsed' /\ s < nextState'
  BY DEF OnceInv
<1> QED
  BY <1>1, <1>2, OnceStep

\* A step of one request, seen from the others: no token goes from a browser
\* with one login.
LEMMA StayStep ==
  ASSUME Steady, IInv, LoneInv, StayInv, IInv', Grows, NEW r \in Requests,
         \A q \in Requests : q # r => req'[q] = req[q],
         NEW o \in [IDs -> Browsers], Owned(o),
         \A b \in Browsers, ck \in Cookies :
           HasOneLogin(b)' /\ IdOf(o, b, ck.id) /\ HasToken(ck) => HasToken(ck)',
         Safe(req[r])', \A i \in DOMAIN files' : Paired(files'[i]), ended' = {}, OnceInv'
  PROVE  StayInv'
<1>1. TypeOK /\ TypeOK'
  BY DEF IInv
<1>2. ASSUME NEW q \in Requests PROVE Safe(req[q])'
  <2>1. CASE q = r
    BY <2>1
  <2>2. CASE q # r
    <3>1. PICK rec \in RequestType : rec = req[q]
      BY <1>1 DEF TypeOK
    <3>2. Safe(rec) /\ IdOf(o, rec.browser, rec.cookie.id)
      BY <3>1 DEF StayInv, Owned, Keeps
    <3>3. rec.browser \in Browsers /\ rec.cookie \in Cookies
      BY DEF RequestType
    <3>4. HasOneLogin(rec.browser)' => HasOneLogin(rec.browser)
      BY <1>1, OneLoginBefore
    <3>5. Safe(rec)'
      BY <3>2, <3>3, <3>4 DEF Safe
    <3> QED
      BY <2>2, <3>1, <3>5 DEF Safe
  <2> QED
    BY <2>1, <2>2
<1> QED
  BY <1>2 DEF StayInv

\* A save keeps the token of a browser with one login, if it has one.
LEMMA StaySave ==
  ASSUME Steady, IInv, LoneInv, StayInv, IInv', NEW r \in Requests, NEW vals \in Values,
         NEW rec \in RequestType, Save(r, vals, rec),
         UNCHANGED <<browser, states, keycloak, trouble>>, Alike(rec, req[r]),
         Paired(vals),
         HasOneLogin(req[r].browser) /\ HasGotToken(req[r].browser) => vals.token # None,
         rec.pc \in {"responded", "exchange", "ssoLoad"},
         rec.pc = "ssoLoad" => req[r].pc \in Loading /\ vals.token # None,
         rec.verdict # "kcLogout",
         HasOneLogin(req[r].browser) /\ req[r].authed => rec.verdict # "login",
         \A s \in States : Carries(s, rec) => Carries(s, req[r])
  PROVE  StayInv'
<1>1. TypeOK /\ TypeOK' /\ FlowInv /\ torn = {} /\ ~ InCookie /\ OnceInv /\ Safe(req[r])
  BY Undisturbing DEF IInv, LoneInv, StayInv
<1>2. PICK o \in [IDs -> Browsers] : Owned(o)
  BY DEF IInv, OwnerInv
<1>3. Write(r, vals, rec)
  BY Undisturbing DEF Save, Steady
<1>4. PICK id : id = IF req[r].id = None THEN nextID ELSE req[r].id
  OBVIOUS
<1>5. PICK new : new = [rec EXCEPT !.id = id, !.snap = vals, !.set = TRUE,
                                   !.to = [id |-> id, values |-> NoValues]]
  OBVIOUS
<1>6. /\ files' = [i \in DOMAIN files \cup {id} |-> IF i = id THEN vals ELSE files[i]]
      /\ torn' = torn \ {id}
      /\ nextID' = nextID \/ nextID' = nextID + 1
      /\ req' = [req EXCEPT ![r] = new]
  BY <1>1, <1>3, <1>4, <1>5 DEF Write
<1>7. req'[r] = new /\ \A q \in Requests : q # r => req'[q] = req[q]
  BY <1>1, <1>6 DEF TypeOK
<1>8. /\ new.pc = rec.pc /\ new.verdict = rec.verdict /\ new.snap = vals
      /\ new.browser = req[r].browser /\ new.kind = req[r].kind /\ new.param = req[r].param
      /\ new.cookie = req[r].cookie /\ new.authed = req[r].authed
  BY <1>5 DEF Alike, RequestType
<1>9. Grows /\ torn' = {} /\ ended' = {} /\ UNCHANGED <<nextState, atKeycloak, codeUsed>>
  BY <1>1, <1>6, GrowsBySave DEF keycloak, states, StayInv
<1>10. \A b : HasOneLogin(b)' <=> HasOneLogin(b)
  BY DEF HasOneLogin, OnlyLogin, states
<1>11. \A ck \in Cookies :
         HasToken(ck)' <=> ck.id # None /\ ck.id \in DOMAIN files' /\ files'[ck.id].token # None
  BY <1>1, <1>9 DEF HasToken, Readable, Loaded, NoValues
<1>12. ASSUME NEW b \in Browsers, NEW ck \in Cookies, HasOneLogin(b)', IdOf(o, b, ck.id),
              HasToken(ck)
       PROVE  HasToken(ck)'
  <2>1. ck.id # None /\ ck.id \in DOMAIN files /\ files[ck.id].token # None
    BY <1>1, <1>12, TokenFound
  <2>2. CASE ck.id # id
    BY <1>6, <1>11, <2>1, <2>2
  <2>3. CASE ck.id = id
    <3>1. ck.id < nextID /\ o[ck.id] = b /\ nextID \in Int /\ ck.id \in IDs
      BY <1>1, <1>12, <2>1 DEF IdOf, TypeOK
    <3>2. req[r].browser = b
      BY <1>2, <1>4, <2>1, <2>3, <3>1 DEF Owned, Keeps, IdOf
    <3>3. HasGotToken(b)
      <4>1. Mine(b, files[ck.id]) /\ files[ck.id] \in Values
        BY <1>1, <1>2, <2>1, <3>1 DEF Owned, TypeOK
      <4> QED
        BY <2>1, <4>1 DEF Mine, HasGotToken, Values
    <3>4. vals.token # None
      BY <1>10, <1>12, <3>2, <3>3
    <3> QED
      BY <1>6, <1>11, <2>1, <2>3, <3>4
  <2> QED
    BY <2>2, <2>3
<1>13. Safe(req[r])'
  <2>1. PICK ck \in Cookies : ck = req[r].cookie
    BY RequestFacts
  <2>2. ASSUME HasOneLogin(req[r].browser), req[r].authed PROVE HasToken(ck)'
    <3>1. HasToken(ck) /\ IdOf(o, req[r].browser, ck.id) /\ req[r].browser \in Browsers
      BY <1>1, <1>2, <2>1, <2>2, RequestFacts DEF Safe, Owned, Keeps
    <3> QED
      BY <1>10, <1>12, <2>2, <3>1
  <2>3. ASSUME rec.pc = "ssoLoad" PROVE HasToken(ck)'
    <3>1. ck.id = id /\ ck.id # None
      BY <1>1, <1>4, <2>1, <2>3, RequestFacts
    <3> QED
      BY <1>6, <1>11, <2>3, <3>1
  <2>4. /\ HasOneLogin(new.browser)' => HasOneLogin(req[r].browser)
        /\ new.cookie = ck
    BY <1>8, <1>10, <2>1
  <2>5. Safe(new)'
    BY <1>8, <2>2, <2>3, <2>4 DEF Safe
  <2> QED
    BY <1>7, <2>5 DEF Safe
<1>14. \A i \in DOMAIN files' : Paired(files'[i])
  BY <1>6 DEF StayInv
<1>15. OnceInv'
  <2>1. \A s \in States : Carries(s, req'[r]) => Carries(s, req[r])
    BY <1>7, <1>8 DEF Carries, Alike
  <2> QED
    BY <1>1, <1>7, <1>9, <2>1, OnceKept
<1>16. \A b \in Browsers, ck \in Cookies :
         HasOneLogin(b)' /\ IdOf(o, b, ck.id) /\ HasToken(ck) => HasToken(ck)'
  BY <1>12
<1> QED
  BY <1>2, <1>7, <1>9, <1>13, <1>14, <1>15, <1>16, StayStep

\* A step that writes no session.
LEMMA StayQuiet ==
  ASSUME Steady, IInv, LoneInv, StayInv, IInv', Grows, NEW r \in Requests, NEW new,
         req' = [req EXCEPT ![r] = new], UNCHANGED <<store, ended>>, Safe(new), OnceInv'
  PROVE  StayInv'
<1>1. TypeOK /\ TypeOK'
  BY DEF IInv
<1>2. PICK o \in [IDs -> Browsers] : Owned(o)
  BY DEF IInv, OwnerInv
<1>3. req'[r] = new /\ \A q \in Requests : q # r => req'[q] = req[q]
  BY <1>1 DEF TypeOK
<1>4. \A ck : HasToken(ck)' <=> HasToken(ck)
  BY DEF HasToken, Readable, Loaded, store
<1>5. HasOneLogin(new.browser)' => HasOneLogin(new.browser)
  BY <1>1, OneLoginBefore
<1>6. Safe(req[r])'
  <2>1. Safe(new)'
    BY <1>4, <1>5 DEF Safe
  <2> QED
    BY <1>3, <2>1 DEF Safe
<1>7. ended' = {} /\ \A i \in DOMAIN files' : Paired(files'[i])
  BY DEF StayInv, store
<1> QED
  BY <1>2, <1>3, <1>4, <1>6, <1>7, StayStep

\* One that brings no login on either.
LEMMA StayGoesOn ==
  ASSUME Steady, IInv, LoneInv, StayInv, IInv', NEW r \in Requests, NEW new,
         req' = [req EXCEPT ![r] = new], UNCHANGED <<store, states, keycloak>>,
         Safe(new), \A s \in States : Carries(s, new) => Carries(s, req[r])
  PROVE  StayInv'
<1>1. TypeOK /\ OnceInv
  BY DEF IInv, StayInv
<1>2. Grows
  BY <1>1, GrowsByIssue DEF store, keycloak
<1>3. req'[r] = new /\ \A q \in Requests : q # r => req'[q] = req[q]
  BY <1>1 DEF TypeOK
<1>4. OnceInv'
  BY <1>1, <1>3, OnceKept DEF states, keycloak
<1> QED
  BY <1>2, <1>4, StayQuiet DEF keycloak

\* An answer that is not about a login.
LEMMA StayRespond ==
  ASSUME Steady, IInv, LoneInv, StayInv, IInv', NEW r \in Requests,
         NEW v \in Verdicts \ {"authorize", "kcLogout"},
         HasOneLogin(req[r].browser) /\ req[r].authed => v # "login",
         req' = [req EXCEPT ![r] = Responding(req[r], v)],
         UNCHANGED <<store, states, keycloak>>
  PROVE  StayInv'
<1>1. PICK new : new = Responding(req[r], v)
  OBVIOUS
<1>2. new.pc = "responded" /\ new.verdict = v /\ Alike(new, req[r])
  BY <1>1, RequestFacts, RespondingChanges
<1>3. Safe(req[r])
  BY DEF StayInv
<1>4. Safe(new) /\ \A s : ~ Carries(s, new)
  BY <1>2, <1>3 DEF Safe, Alike, Carries
<1> QED
  BY <1>1, <1>4, StayGoesOn

---------------------------------------------------------------------------
(* Every action preserves it. *)

\* A browser sends the callback of a login once.
LEMMA SendStays ==
  ASSUME Steady, IInv, LoneInv, StayInv, IInv', NEW r \in Requests, NEW b \in Browsers,
         NEW k \in Kinds, Send(r, b, k)
  PROVE  StayInv'
<1>1. TypeOK /\ OnceInv
  BY DEF IInv, StayInv
<1>2. PICK s \in IF k = "callback" THEN atKeycloak ELSE {None} :
        /\ req' = [req EXCEPT ![r] =
                     [NoRequest EXCEPT !.pc = "received", !.browser = b, !.kind = k,
                                       !.cookie = cookie[b], !.param = s,
                                       !.authed = HasToken(cookie[b])]]
        /\ atKeycloak' = atKeycloak \ {s}
  BY DEF Send, Steady
<1>3. PICK new : new = [NoRequest EXCEPT !.pc = "received", !.browser = b, !.kind = k,
                                         !.cookie = cookie[b], !.param = s,
                                         !.authed = HasToken(cookie[b])]
  OBVIOUS
<1>4. req' = [req EXCEPT ![r] = new] /\ \A q \in Requests : q # r => req'[q] = req[q]
  BY <1>2, <1>3
<1>5. /\ new.pc = "received" /\ new.kind = k /\ new.cookie = cookie[b] /\ new.snap = NoValues
      /\ new.verdict = "none" /\ new.authed = HasToken(cookie[b]) /\ new.param = s
  BY <1>3 DEF NoRequest
<1>6. UNCHANGED <<store, states, nextToken, flow, codeUsed, ended>>
  BY DEF Send
<1>7. Grows
  BY <1>1, <1>6, GrowsByIssue DEF store
<1>8. Safe(new)
  BY <1>5 DEF Safe, Paired, NoValues
<1>9. OnceInv'
  <2>1. req'[r] = new /\ nextState' = nextState /\ codeUsed' = codeUsed /\ nextState <= nextState'
    BY <1>1, <1>4, <1>6 DEF TypeOK, states
  <2>2. ASSUME NEW t \in States, Carries(t, new)
        PROVE  t \in atKeycloak /\ t \notin atKeycloak' \cup codeUsed' /\ t < nextState'
    <3>1. k = "callback" /\ t = s
      BY <1>5, <2>2 DEF Carries
    <3> QED
      BY <1>1, <1>2, <2>1, <3>1 DEF OnceInv, LoneInv
  <2>3. \A t \in atKeycloak' : t \in atKeycloak
    BY <1>2
  <2> QED
    BY <1>1, <1>4, <2>1, <2>2, <2>3, OnceStep
<1> QED
  BY <1>4, <1>6, <1>7, <1>8, <1>9, StayQuiet

\* HandleLogin takes a new state.
LEMMA LoginLoadStays ==
  ASSUME Steady, IInv, LoneInv, StayInv, IInv', NEW r \in Requests, LoginLoad(r)
  PROVE  StayInv'
<1>1. /\ Safe(req[r]) /\ req[r] \in RequestType /\ TypeOK /\ TypeOK' /\ OnceInv
      /\ req[r].pc = "received" /\ req[r].verdict # "authorize"
  BY RequestFacts DEF StayInv, IInv, LoginLoad, LoginReceived
<1>2. PICK w : w = WithSession(r, "saveState")
  OBVIOUS
<1>3. /\ w \in RequestType
      /\ w.pc = "saveState" /\ w.snap = Loaded(req[r].cookie) /\ w.cookie = req[r].cookie
      /\ w.browser = req[r].browser /\ w.authed = req[r].authed /\ w.verdict = req[r].verdict
  <2>1. "saveState" \in PCs
    BY DEF PCs
  <2> QED
    BY <1>1, <1>2, <2>1, WithSessionChanges
<1>4. PICK new : new = [w EXCEPT !.param = nextState, !.snap.state = nextState]
  OBVIOUS
<1>5. /\ new.pc = "saveState" /\ new.cookie = req[r].cookie /\ new.browser = req[r].browser
      /\ new.authed = req[r].authed /\ new.verdict = req[r].verdict /\ new.param = nextState
      /\ new.snap.token = w.snap.token /\ new.snap.refresh = w.snap.refresh
  BY <1>3, <1>4 DEF RequestType, Values
<1>6. /\ req' = [req EXCEPT ![r] = new] /\ nextState' = nextState + 1
      /\ startedBy' = [startedBy EXCEPT ![nextState] = req[r].browser]
      /\ UNCHANGED <<store, keycloak>>
  BY <1>2, <1>4 DEF LoginLoad
<1>7. req'[r] = new /\ \A q \in Requests : q # r => req'[q] = req[q]
  BY <1>1, <1>6 DEF TypeOK
<1>8. Safe(new)
  <2>1. Paired(w.snap)
    BY <1>3, LoadedPaired
  <2> QED
    BY <1>1, <1>5, <2>1 DEF Safe, Paired
<1>9. Grows
  <2>1. nextState \in Int /\ \A s \in States : s < nextState => startedBy'[s] = startedBy[s]
    BY <1>1, <1>6 DEF TypeOK, States
  <2> QED
    BY <1>1, <1>6, <2>1 DEF Grows, TypeOK, store, keycloak
<1>10. OnceInv'
  <2>1. \A s \in States : Carries(s, new) => s = nextState
    BY <1>5 DEF Carries
  <2>2. /\ nextState \in Int /\ nextState <= nextState' /\ nextState < nextState'
        /\ nextState >= nextState
    BY <1>1, <1>6 DEF TypeOK
  <2>3. nextState \notin atKeycloak \cup codeUsed
    BY <1>1, <2>2 DEF LoneInv, OnceInv
  <2>4. atKeycloak' = atKeycloak /\ codeUsed' = codeUsed
    BY <1>6 DEF keycloak
  <2> QED
    BY <1>1, <1>7, <2>1, <2>2, <2>3, <2>4, OnceStep
<1> QED
  BY <1>6, <1>8, <1>9, <1>10, StayQuiet DEF keycloak

\* It saves a session without a token before the browser has one.
LEMMA LoginSaveStays ==
  ASSUME Steady, IInv, LoneInv, StayInv, IInv', NEW r \in Requests, LoginSave(r)
  PROVE  StayInv'
<1>1. /\ Safe(req[r]) /\ req[r] \in RequestType /\ req[r].pc = "saveState"
      /\ req[r].snap \in Values /\ req[r].param \in States
      /\ StateOf(req[r].browser, req[r].param)
  BY RequestFacts DEF StayInv, LoneInv, Proper, LoginSave
<1>2. PICK rec : rec = Responding(req[r], "authorize")
  OBVIOUS
<1>3. /\ rec \in RequestType /\ rec.pc = "responded" /\ rec.verdict = "authorize"
      /\ Alike(rec, req[r])
  BY <1>1, <1>2, RespondingChanges DEF Verdicts
<1>4. Carries(req[r].param, req[r])
  BY <1>1 DEF Carries
<1>5. HasOneLogin(req[r].browser) => ~ HasGotToken(req[r].browser)
  BY <1>1, <1>4, NotYet
<1>6. \A s \in States : Carries(s, rec) => Carries(s, req[r])
  BY <1>3, <1>4 DEF Carries, Alike
<1>7. Save(r, req[r].snap, rec) /\ UNCHANGED <<browser, states, keycloak, trouble>>
  BY <1>2 DEF LoginSave
<1>8. Paired(req[r].snap)
  BY <1>1 DEF Safe
<1> QED
  BY <1>1, <1>3, <1>5, <1>6, <1>7, <1>8, StaySave

\* So does HandleCallback, once its state has matched.
LEMMA CallbackStays ==
  ASSUME Steady, IInv, LoneInv, StayInv, IInv', NEW r \in Requests,
         CallbackLoad(r) \/ CallbackClearState(r)
  PROVE  StayInv'
<1>1. /\ Safe(req[r]) /\ req[r] \in RequestType /\ TypeOK /\ req[r].snap \in Values
      /\ req[r].verdict # "authorize"
  BY RequestFacts DEF StayInv, IInv, CallbackLoad, CallbackClearState
<1>2. "error" \in Verdicts \ {"authorize", "kcLogout"} /\ {"clearState", "exchange"} \subseteq PCs
  BY DEF Verdicts, PCs
<1>3. ASSUME CallbackLoad(r) PROVE StayInv'
  <2>1. /\ UNCHANGED <<store, states, keycloak>>
        /\ req[r].pc = "received" /\ req[r].kind = "callback"
    BY <1>3 DEF CallbackLoad
  <2>2. CASE Respond(r, "error")
    BY <1>2, <2>1, <2>2, StayRespond DEF Respond
  <2>3. CASE req' = [req EXCEPT ![r] = WithSession(r, "clearState")]
    <3>1. PICK new : new = WithSession(r, "clearState")
      OBVIOUS
    <3>2. /\ new.pc = "clearState" /\ new.snap = Loaded(req[r].cookie)
          /\ new.cookie = req[r].cookie /\ new.browser = req[r].browser
          /\ new.param = req[r].param
          /\ new.authed = req[r].authed /\ new.verdict = req[r].verdict
      BY <1>1, <1>2, <3>1, WithSessionChanges
    <3>3. Paired(new.snap)
      BY <3>2, LoadedPaired
    <3>4. Safe(new)
      BY <1>1, <3>2, <3>3 DEF Safe
    <3>5. \A s : Carries(s, new) => Carries(s, req[r])
      BY <2>1, <3>2 DEF Carries
    <3> QED
      BY <2>1, <2>3, <3>1, <3>4, <3>5, StayGoesOn
  <2> QED
    BY <1>3, <2>2, <2>3 DEF CallbackLoad
<1>4. ASSUME CallbackClearState(r) PROVE StayInv'
  <2>1. req[r].pc = "clearState" /\ StateOf(req[r].browser, req[r].param)
    BY <1>4, RequestFacts DEF CallbackClearState
  <2>2. PICK vals : vals = [req[r].snap EXCEPT !.state = None]
    OBVIOUS
  <2>3. /\ vals \in Values
        /\ vals.token = req[r].snap.token /\ vals.refresh = req[r].snap.refresh
    BY <1>1, <2>2 DEF Values
  <2>4. PICK rec : rec = [req[r] EXCEPT !.pc = "exchange"]
    OBVIOUS
  <2>5. /\ rec \in RequestType /\ rec.pc = "exchange" /\ Alike(rec, req[r])
        /\ rec.verdict = req[r].verdict
    BY <1>1, <1>2, <2>4, PcChanges DEF RequestType
  <2>6. Carries(req[r].param, req[r]) /\ req[r].param \in States
    BY <2>1 DEF Carries, StateOf
  <2>7. HasOneLogin(req[r].browser) => ~ HasGotToken(req[r].browser)
    BY <2>1, <2>6, NotYet
  <2>8. /\ \A s \in States : Carries(s, rec) => Carries(s, req[r])
        /\ Paired(vals) /\ rec.verdict # "kcLogout"
        /\ HasOneLogin(req[r].browser) /\ req[r].authed => rec.verdict # "login"
    BY <1>1, <2>3, <2>5, <2>6 DEF Carries, Alike, Paired, Safe
  <2>9. Save(r, vals, rec) /\ UNCHANGED <<browser, states, keycloak, trouble>>
    BY <1>4, <2>2, <2>4 DEF CallbackClearState
  <2> QED
    BY <2>3, <2>5, <2>7, <2>8, <2>9, StaySave
<1> QED
  BY <1>3, <1>4

\* The code of the login is exchanged, for good.
LEMMA CallbackExchangeStays ==
  ASSUME Steady, IInv, LoneInv, StayInv, IInv', NEW r \in Requests, CallbackExchange(r)
  PROVE  StayInv'
<1>1. /\ Safe(req[r]) /\ req[r] \in RequestType /\ TypeOK /\ OnceInv /\ req[r].pc = "exchange"
      /\ req[r].verdict # "authorize" /\ StateOf(req[r].browser, req[r].param)
  BY RequestFacts DEF StayInv, IInv, CallbackExchange
<1>2. Carries(req[r].param, req[r]) /\ req[r].param \in States
  BY <1>1 DEF Carries, StateOf
<1>3. req[r].param \notin atKeycloak \cup codeUsed /\ req[r].param < nextState
  BY <1>1, <1>2 DEF OnceInv
<1>4. /\ nextToken' = nextToken + 1 /\ flow' = [flow EXCEPT ![nextToken] = req[r].param]
      /\ req' = [req EXCEPT ![r].got = nextToken, ![r].pc = "saveToken"]
      /\ codeUsed' = codeUsed \cup {req[r].param}
      /\ UNCHANGED <<store, states, atKeycloak, ended>>
  BY <1>3 DEF CallbackExchange, Issue
<1>5. PICK new : new = [req[r] EXCEPT !.got = nextToken, !.pc = "saveToken"]
  OBVIOUS
<1>6. req' = [req EXCEPT ![r] = new]
  BY <1>1, <1>4, <1>5 DEF TypeOK
<1>7. /\ new.pc = "saveToken" /\ new.got = nextToken /\ new.snap = req[r].snap
      /\ new.cookie = req[r].cookie /\ new.browser = req[r].browser
      /\ new.authed = req[r].authed /\ new.verdict = req[r].verdict
  BY <1>1, <1>5 DEF RequestType
<1>8. nextToken # None
  BY <1>1 DEF TypeOK, None
<1>9. Safe(new) /\ \A s : ~ Carries(s, new)
  BY <1>1, <1>7, <1>8 DEF Safe, Carries
<1>10. Grows
  BY <1>1, <1>4, GrowsByIssue DEF store
<1>11. OnceInv'
  <2>1. req'[r] = new /\ \A q \in Requests : q # r => req'[q] = req[q]
    BY <1>1, <1>6 DEF TypeOK
  <2>2. nextState <= nextState' /\ atKeycloak' = atKeycloak
    BY <1>1, <1>4 DEF TypeOK, states
  <2>3. \A s \in codeUsed' : s \in codeUsed \/ (Carries(s, req[r]) /\ s \notin atKeycloak')
    BY <1>2, <1>3, <1>4
  <2> QED
    BY <1>1, <1>9, <2>1, <2>2, <2>3, OnceStep
<1> QED
  BY <1>4, <1>6, <1>9, <1>10, <1>11, StayQuiet

\* Every token saved is one Keycloak has issued.
LEMMA TokenStays ==
  ASSUME Steady, IInv, LoneInv, StayInv, IInv', NEW r \in Requests,
         CallbackSaveToken(r) \/ AuthSaveToken(r)
  PROVE  StayInv'
<1>1. /\ Safe(req[r]) /\ req[r] \in RequestType /\ req[r].snap \in Values /\ ~ InCookie
      /\ req[r].pc = "saveToken" /\ req[r].pc \in Loading /\ req[r].verdict # "authorize"
  BY RequestFacts, Undisturbing DEF StayInv, CallbackSaveToken, AuthSaveToken, Loading
<1>2. PICK vals : vals = TokenValues(req[r].snap, req[r].got)
  OBVIOUS
<1>3. req[r].got # None /\ req[r].got \in Tokens
  BY <1>1 DEF Safe, RequestType
<1>4. vals \in Values /\ vals.token # None /\ vals.refresh # None
  BY <1>1, <1>2, <1>3 DEF TokenValues, Values
<1>5. PICK rec : /\ rec = Responding(req[r], "home") \/ rec = Admitted(req[r])
                 /\ Save(r, vals, rec)
  BY <1>2 DEF CallbackSaveToken, AuthSaveToken, SaveToken
<1>6. /\ rec \in RequestType /\ Alike(rec, req[r]) /\ rec.pc \in {"responded", "ssoLoad"}
      /\ rec.verdict \in {"home", "served"} \/ rec.verdict = req[r].verdict
  <2>1. "home" \in Verdicts
    BY DEF Verdicts
  <2>2. CASE rec = Responding(req[r], "home")
    BY <1>1, <2>1, <2>2, RespondingChanges
  <2>3. CASE rec = Admitted(req[r])
    BY <1>1, <2>3, AdmittedChanges
  <2> QED
    BY <1>5, <2>2, <2>3
<1>7. /\ HasOneLogin(req[r].browser) /\ req[r].authed => rec.verdict # "login"
      /\ rec.verdict \notin {"kcLogout", "authorize"}
  BY <1>1, <1>6 DEF Safe
<1>8. Paired(vals) /\ \A s : ~ Carries(s, rec)
  BY <1>4, <1>6, <1>7 DEF Paired, Carries
<1>9. UNCHANGED <<browser, states, keycloak, trouble>>
  BY DEF CallbackSaveToken, AuthSaveToken
<1> QED
  BY <1>1, <1>4, <1>5, <1>6, <1>7, <1>8, <1>9, StaySave

\* AuthRequired finds the token of a browser that came with one.
LEMMA AuthLoadStays ==
  ASSUME Steady, IInv, LoneInv, StayInv, IInv', NEW r \in Requests, AuthLoad(r)
  PROVE  StayInv'
<1>1. /\ Safe(req[r]) /\ req[r] \in RequestType /\ TypeOK /\ req[r].pc = "received"
      /\ req[r].verdict # "authorize" /\ ~ InCookie
  BY RequestFacts, Undisturbing DEF StayInv, IInv, AuthLoad
<1>2. UNCHANGED <<store, states, keycloak>>
  BY DEF AuthLoad
<1>3. PICK sess : sess = Loaded(req[r].cookie)
  OBVIOUS
<1>4. Paired(sess) /\ (sess.token # None <=> HasToken(req[r].cookie))
  BY <1>3, LoadedPaired
<1>5. CASE sess.token = None
  <2>1. req' = [req EXCEPT ![r] = Responding(req[r], "login")]
    BY <1>3, <1>5 DEF AuthLoad
  <2>2. "login" \in Verdicts \ {"authorize", "kcLogout"}
    BY DEF Verdicts
  <2>3. ~ (HasOneLogin(req[r].browser) /\ req[r].authed)
    BY <1>1, <1>4, <1>5 DEF Safe
  <2> QED
    BY <1>2, <2>1, <2>2, <2>3, StayRespond
<1>6. CASE sess.token # None
  <2>1. PICK p \in {"refresh", "received"} :
          req' = [req EXCEPT ![r] = IF p = "refresh" THEN WithSession(r, p)
                                    ELSE Admitted(WithSession(r, p))]
    <3>1. CASE sess.token \in expired
      BY <1>1, <1>3, <1>6, <3>1 DEF AuthLoad
    <3>2. CASE sess.token \notin expired
      BY <1>1, <1>3, <1>6, <3>2 DEF AuthLoad
    <3> QED
      BY <3>1, <3>2
  <2>2. PICK w : w = WithSession(r, p)
    OBVIOUS
  <2>3. /\ w \in RequestType /\ w.pc = p /\ w.snap = sess /\ w.cookie = req[r].cookie
        /\ w.browser = req[r].browser /\ w.authed = req[r].authed /\ w.verdict = req[r].verdict
    <3>1. p \in PCs
      BY DEF PCs
    <3> QED
      BY <1>1, <1>3, <2>2, <3>1, WithSessionChanges
  <2>4. PICK new : new = IF p = "refresh" THEN w ELSE Admitted(w)
    OBVIOUS
  <2>5. /\ new.snap = sess /\ new.cookie = req[r].cookie /\ new.browser = req[r].browser
        /\ new.authed = req[r].authed
        /\ new.pc \in {"refresh", "responded", "ssoLoad"}
        /\ new.verdict = "served" \/ new.verdict = req[r].verdict
    <3>1. CASE p = "refresh"
      BY <2>3, <2>4, <3>1
    <3>2. CASE p # "refresh"
      BY <2>3, <2>4, <3>2, AdmittedChanges DEF Alike
    <3> QED
      BY <3>1, <3>2
  <2>6. Safe(new) /\ \A s : ~ Carries(s, new)
    BY <1>1, <1>4, <1>6, <2>5 DEF Safe, Paired, Carries
  <2> QED
    BY <1>2, <2>1, <2>2, <2>4, <2>6, StayGoesOn
<1> QED
  BY <1>5, <1>6

\* A refresh is always granted, and gives a token set.
LEMMA AuthRefreshStays ==
  ASSUME Steady, IInv, LoneInv, StayInv, IInv', NEW r \in Requests, AuthRefresh(r)
  PROVE  StayInv'
<1>1. /\ Safe(req[r]) /\ req[r] \in RequestType /\ TypeOK /\ OnceInv /\ req[r].pc = "refresh"
      /\ req[r].verdict # "authorize" /\ ended = {}
      /\ UNCHANGED <<store, states, atKeycloak, codeUsed, ended>>
  BY RequestFacts DEF StayInv, IInv, AuthRefresh
<1>2. PICK f : f = flow[req[r].snap.refresh]
  OBVIOUS
<1>3. Reissue(r, f, "saveToken")
  BY <1>1, <1>2 DEF AuthRefresh, Safe
<1>4. Grows
  <2>1. UNCHANGED nextID
    BY <1>1 DEF store
  <2>2. \/ UNCHANGED <<nextToken, flow>>
        \/ nextToken' = nextToken + 1 /\ flow' = [flow EXCEPT ![nextToken] = f]
    BY <1>3 DEF Reissue, Issue
  <2> QED
    BY <1>1, <2>1, <2>2, GrowsByIssue
<1>5. PICK g : g # None /\ req' = [req EXCEPT ![r].got = g, ![r].pc = "saveToken"]
  <2>1. nextToken # None /\ \A t \in Tokens : t # None
    BY <1>1 DEF TypeOK, None, Tokens
  <2> QED
    BY <1>3, <2>1 DEF Reissue, Issue
<1>6. PICK new : new = [req[r] EXCEPT !.got = g, !.pc = "saveToken"]
  OBVIOUS
<1>7. req' = [req EXCEPT ![r] = new]
  BY <1>1, <1>5, <1>6 DEF TypeOK
<1>8. /\ new.pc = "saveToken" /\ new.got = g /\ new.snap = req[r].snap
      /\ new.cookie = req[r].cookie /\ new.browser = req[r].browser
      /\ new.authed = req[r].authed /\ new.verdict = req[r].verdict
  BY <1>1, <1>6 DEF RequestType
<1>9. Safe(new) /\ \A s : ~ Carries(s, new)
  BY <1>1, <1>5, <1>8 DEF Safe, Carries
<1>10. OnceInv'
  <2>1. req'[r] = new /\ \A q \in Requests : q # r => req'[q] = req[q]
    BY <1>1, <1>7 DEF TypeOK
  <2> QED
    BY <1>1, <1>9, <2>1, OnceKept DEF states
<1> QED
  BY <1>1, <1>4, <1>7, <1>9, <1>10, StayQuiet

\* The SSO handler saves what it loaded, which has a token.
LEMMA SSOStays ==
  ASSUME Steady, IInv, LoneInv, StayInv, IInv', NEW r \in Requests, SSOLoad(r) \/ SSOSave(r)
  PROVE  StayInv'
<1>1. /\ Safe(req[r]) /\ req[r] \in RequestType /\ TypeOK /\ req[r].snap \in Values
      /\ req[r].verdict # "authorize"
  BY RequestFacts DEF StayInv, IInv, SSOLoad, SSOSave
<1>2. ASSUME SSOLoad(r) PROVE StayInv'
  <2>1. PICK new : new = WithSession(r, "saveSSO")
    OBVIOUS
  <2>2. /\ new.pc = "saveSSO" /\ new.snap = Loaded(req[r].cookie)
        /\ new.cookie = req[r].cookie /\ new.browser = req[r].browser
        /\ new.authed = req[r].authed /\ new.verdict = req[r].verdict
    <3>1. "saveSSO" \in PCs
      BY DEF PCs
    <3> QED
      BY <1>1, <2>1, <3>1, WithSessionChanges
  <2>3. /\ Paired(new.snap)
        /\ HasOneLogin(req[r].browser) => new.snap.token # None
    BY <1>1, <1>2, <2>2, LoadedPaired DEF SSOLoad, Safe
  <2>4. Safe(new) /\ \A s : ~ Carries(s, new)
    BY <1>1, <2>2, <2>3 DEF Safe, Carries
  <2> QED
    BY <1>2, <2>1, <2>4, StayGoesOn DEF SSOLoad
<1>3. ASSUME SSOSave(r) PROVE StayInv'
  <2>1. PICK rec : rec = Responding(req[r], "served")
    OBVIOUS
  <2>2. /\ rec \in RequestType /\ rec.pc = "responded" /\ rec.verdict = "served"
        /\ Alike(rec, req[r])
    BY <1>1, <2>1, RespondingChanges DEF Verdicts
  <2>3. /\ HasOneLogin(req[r].browser) => req[r].snap.token # None
        /\ Paired(req[r].snap)
    BY <1>1, <1>3 DEF SSOSave, Safe
  <2>4. \A s : ~ Carries(s, rec)
    BY <2>2 DEF Carries
  <2> QED
    BY <1>1, <1>3, <2>1, <2>2, <2>3, <2>4, StaySave DEF SSOSave
<1> QED
  BY <1>2, <1>3

\* The login goes to Keycloak's page with its response, or is lost with it.
LEMMA DeliverStays ==
  ASSUME Steady, IInv, LoneInv, StayInv, IInv', NEW r \in Requests, Deliver(r) \/ Drop(r)
  PROVE  StayInv'
<1>1. /\ Safe(req[r]) /\ req[r].pc = "responded" /\ req[r].verdict # "kcLogout"
      /\ TypeOK /\ OnceInv
  BY DEF StayInv, Deliver, Drop, Safe, IInv
<1>2. req' = [req EXCEPT ![r] = NoRequest]
  BY <1>1 DEF Deliver, Drop, Lost, TypeOK
<1>3. /\ UNCHANGED <<store, states, nextToken, flow, codeUsed>> /\ ended' = ended
      /\ \/ atKeycloak' = atKeycloak
         \/ /\ req[r].verdict = "authorize"
            /\ atKeycloak' = atKeycloak \cup {req[r].param}
  BY <1>1 DEF Deliver, Drop, keycloak
<1>4. Safe(NoRequest) /\ \A s : ~ Carries(s, NoRequest)
  BY DEF NoRequest, NoValues, Safe, Paired, Carries
<1>5. Grows
  BY <1>1, <1>3, GrowsByIssue DEF store
<1>6. OnceInv'
  <2>1. req'[r] = NoRequest /\ \A q \in Requests : q # r => req'[q] = req[q]
    BY <1>1, <1>2 DEF TypeOK
  <2>2. nextState <= nextState' /\ codeUsed' = codeUsed
    BY <1>1, <1>3 DEF TypeOK, states
  <2>3. \A s \in atKeycloak' : s \in atKeycloak \/ Carries(s, req[r])
    BY <1>3 DEF Carries
  <2> QED
    BY <1>1, <1>4, <2>1, <2>2, <2>3, OnceStep
<1> QED
  BY <1>2, <1>3, <1>4, <1>5, <1>6, StayQuiet

\* Nothing else can happen but that tokens, and cached answers, expire.
LEMMA OthersStay ==
  ASSUME Steady, IInv, LoneInv, StayInv,
         \/ \E r \in Requests : Logout(r) \/ AuthIntrospect(r) \/ AuthClear(r) \/ Fail(r)
         \/ \E b \in Browsers : Forget(b) \/ EndSession(b)
         \/ \E g \in Tokens : Expire(g) \/ CacheExpires(g)
         \/ Restart
         \/ UNCHANGED vars
  PROVE  StayInv'
<1>1. \A r \in Requests : ~ Logout(r) /\ ~ AuthIntrospect(r) /\ ~ AuthClear(r)
  BY DEF StayInv, Safe, LoneInv, Proper, Logout, AuthIntrospect, AuthClear
<1>2. \A t \in {"fail", "restart", "forget", "end"} : ~ Trouble(t)
  BY DEF Trouble, Steady
<1>3. /\ \A r \in Requests : ~ Fail(r)
      /\ \A b \in Browsers : ~ Forget(b) /\ ~ EndSession(b)
      /\ ~ Restart
  BY <1>2 DEF Fail, Forget, EndSession, Restart
<1>4. UNCHANGED <<store, req, states, atKeycloak, codeUsed, ended>>
  BY <1>1, <1>3 DEF Expire, CacheExpires, vars, keycloak
<1> QED
  BY <1>4 DEF StayInv, OnceInv, Carries, Safe, HasOneLogin, OnlyLogin, HasToken, Readable, Loaded,
              store, states

---------------------------------------------------------------------------
(* Together. *)

LEMMA InitStays == Init => StayInv
<1> SUFFICES ASSUME Init PROVE StayInv
  OBVIOUS
<1>1. Safe(NoRequest) /\ \A s : ~ Carries(s, NoRequest)
  BY DEF NoRequest, NoValues, Safe, Paired, Carries
<1>2. \A r \in Requests : req[r] = NoRequest
  BY DEF Init
<1>3. OnceInv
  BY <1>1, <1>2 DEF Init, OnceInv
<1> QED
  BY <1>1, <1>2, <1>3 DEF Init, StayInv

LEMMA NextStays ==
  ASSUME Steady, IInv, LoneInv, StayInv, [Next]_vars
  PROVE  LoneInv' /\ StayInv'
<1>1. IInv' /\ LoneInv'
  BY NextInv, NextLone, Undisturbing
<1>2. ASSUME NEW r \in Requests, Handle(r) PROVE StayInv'
  <2>1. CASE LoginLoad(r) \/ LoginSave(r)
    BY <1>1, <2>1, LoginLoadStays, LoginSaveStays
  <2>2. CASE CallbackLoad(r) \/ CallbackClearState(r) \/ CallbackExchange(r)
    BY <1>1, <2>2, CallbackStays, CallbackExchangeStays
  <2>3. CASE CallbackSaveToken(r) \/ AuthSaveToken(r)
    BY <1>1, <2>3, TokenStays
  <2>4. CASE AuthLoad(r) \/ AuthRefresh(r) \/ SSOLoad(r) \/ SSOSave(r)
    BY <1>1, <2>4, AuthLoadStays, AuthRefreshStays, SSOStays
  <2>5. CASE Logout(r) \/ AuthIntrospect(r) \/ AuthClear(r)
    BY <2>5, OthersStay
  <2> QED
    BY <1>2, <2>1, <2>2, <2>3, <2>4, <2>5 DEF Handle
<1>3. ASSUME NEW r \in Requests, Deliver(r) \/ Drop(r) PROVE StayInv'
  BY <1>1, <1>3, DeliverStays
<1>4. ASSUME NEW r \in Requests, NEW b \in Browsers, NEW k \in Kinds, Send(r, b, k) PROVE StayInv'
  BY <1>1, <1>4, SendStays
<1>5. CASE \/ \E r \in Requests : Fail(r)
           \/ \E b \in Browsers : Forget(b) \/ EndSession(b)
           \/ \E g \in Tokens : Expire(g) \/ CacheExpires(g)
           \/ Restart
           \/ UNCHANGED vars
  BY <1>1, <1>5, OthersStay
<1> QED
  BY <1>1, <1>2, <1>3, <1>4, <1>5 DEF Next

\* AuthRequired never sends a browser that came with a session to the login
\* page, as long as the browser has started one login, however many of its
\* requests refresh the token at a time and save older copies of the session
\* over newer ones, whatever other browsers do, and whichever responses are lost:
\* with the filesystem store, when nothing happens to a session but expiry.
THEOREM NobodyIsLoggedOut == Steady /\ Spec => []StaysLoggedIn
<1>1. Steady /\ Init => Steady /\ LoneInv /\ StayInv
  BY InitLone, InitStays
<1>2. IInv /\ (Steady /\ LoneInv /\ StayInv) /\ [Next]_vars => (Steady /\ LoneInv /\ StayInv)'
  BY NextStays DEF Steady
<1>3. LoneInv /\ StayInv => StaysLoggedIn
  BY DEF StayInv, Safe, StaysLoggedIn
<1> QED
  BY <1>1, <1>2, <1>3, InvariantHolds, PTL DEF Spec
=============================================================================
