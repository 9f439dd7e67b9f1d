--------------------------- MODULE LoginTabProofs ---------------------------
(***************************************************************************)
(* The proof that a lone tab is back at its page after five answers:       *)
(* BackInFive of LoginTab, with the filesystem store, for any number of    *)
(* logins, tokens and troubles of every kind.                              *)
(***************************************************************************)
EXTENDS AuthSessionsProofs, LoginTab

\* What the run sessions_recover assumes of its constants.
OneTab ==
  /\ \A b, c \in Browsers : b = c
  /\ Disciplined /\ ~ Replay
  /\ ~ InCookie /\ ~ SessionOnly

---------------------------------------------------------------------------
(* The inductive invariant, on top of IInv. *)

Tab == CHOOSE b \in Browsers : TRUE

\* How far on its way to the page the tab is.
Rank(v) == CASE v = "served" -> 5 [] v = "home" -> 4 [] v = "authorize" -> 3
             [] v = "login" -> 2 [] OTHER -> 1

\* The session behind ck waits for the callback with state s, or lets a page
\* through without a refresh.
Holds(ck, s) == ck.id \in DOMAIN files \ torn /\ files[ck.id].state = s
Live(ck)     == ck.id \in DOMAIN files \ torn /\ files[ck.id].token \notin expired \cup {None}

\* The page was or would have been shown since something last went wrong, so the
\* next request gets it.
Due == calm >= 2 /\ last[Tab] \in {"home", "served"}

StepsOf(k) ==
  CASE k = "login"    -> {"received", "saveState", "responded"}
    [] k = "callback" -> {"received", "clearState", "exchange", "saveToken", "responded"}
    [] k = "page"     -> {"received", "refresh", "saveToken", "clear", "responded"}

\* Whatever goes wrong, the request under way is the one the last answer led
\* to, and the state of its login has not come back yet.
Underway(rec) ==
  /\ rec.kind \in {"page", "login", "callback"}
  /\ rec.kind = Follows(last[Tab])
  /\ rec.pc \in StepsOf(rec.kind)
  /\ rec.pc = "received" => ~ rec.set
  /\ rec.pc = "saveState" => rec.snap.state = rec.param
  /\ rec.kind = "callback" => rec.param \in States
  /\ rec.verdict = "authorize" => rec.set /\ Holds(rec.to, rec.param)
  /\ \/ rec.pc \in {"saveState", "clearState", "exchange"}
     \/ rec.verdict = "authorize"
     \/ rec.kind = "callback" /\ rec.pc = "received"
     => rec.param \notin codeUsed

\* If the request has started after something went wrong, it brings the tab on.
LoginGoesWell(rec) == rec.pc = "responded" => rec.verdict = "authorize"

CallbackGoesWell(rec) ==
  /\ rec.pc = "received" => Holds(rec.cookie, rec.param)
  /\ rec.pc = "saveToken" => rec.got \notin expired \cup {None}
  /\ rec.pc = "responded" => rec.verdict = "home" /\ rec.set /\ Live(rec.to)

PageGoesWell(rec) ==
  /\ Due => \/ rec.pc = "received" /\ Live(rec.cookie)
            \/ rec.pc = "responded" /\ rec.verdict = "served"
  /\ rec.pc = "saveToken" => rec.got \notin expired \cup {None}
  /\ rec.pc = "responded" =>
       \/ rec.verdict = "login"
       \/ rec.verdict = "served" /\ Live(IF rec.set THEN rec.to ELSE rec.cookie)

GoesWell(rec) ==
  /\ rec.cookie = cookie[Tab]
  /\ rec.kind = "login" => LoginGoesWell(rec)
  /\ rec.kind = "callback" => CallbackGoesWell(rec)
  /\ rec.kind = "page" => PageGoesWell(rec)

Idle == \A r \in Requests : req[r].pc = "idle"

\* What holds whatever goes wrong.
BaseInv ==
  /\ \A q, r \in Requests : req[q].pc # "idle" /\ req[r].pc # "idle" => q = r
  /\ \A r \in Requests : req[r].pc # "idle" => Underway(req[r])
  /\ \A g \in expired : g < nextToken
  /\ \A s \in codeUsed : s < nextState
  /\ \A s \in atKeycloak : s \notin codeUsed /\ \A t \in atKeycloak : s = t
  /\ atKeycloak # {} => last[Tab] = "authorize" /\ Idle

\* What holds once the tab has followed an answer since.
CalmInv ==
  /\ calm \in 0 .. Enough /\ calm <= Rank(last[Tab])
  /\ Due => Live(cookie[Tab])
  /\ calm >= 1 => /\ \A s \in atKeycloak : Holds(cookie[Tab], s)
                  /\ \A r \in Requests : req[r].pc # "idle" => GoesWell(req[r])

TabInv == BaseInv /\ CalmInv

---------------------------------------------------------------------------
(* The kinds of steps. *)

USE StoreAssumption, KindsAssumption, PartiesAssumption, BoundsAssumption
USE DEF StoreAssumption, KindsAssumption, PartiesAssumption, BoundsAssumption

\* There is one browser, and its rank is at least that of an error.
LEMMA TabFacts ==
  ASSUME OneTab
  PROVE  Tab \in Browsers /\ \A b \in Browsers : b = Tab
BY DEF OneTab, Tab

LEMMA RankFacts ==
  ASSUME NEW v
  PROVE  Rank(v) \in 1 .. 5 /\ (Rank(v) = 5 => v = "served")
BY DEF Rank

\* When something goes wrong, the count starts again.
LEMMA TroubleStep ==
  ASSUME IInv, trouble' = trouble + 1, Count, BaseInv'
  PROVE  TabInv'
<1>1. trouble \in Int
  BY DEF IInv, TypeOK
<1>2. calm' = 0
  BY <1>1 DEF Count
<1>3. Rank(last'[Tab]) >= 1
  BY RankFacts
<1>4. 0 <= Rank(last'[Tab])
  BY <1>3, RankFacts
<1>5. CalmInv'
  BY <1>2, <1>4 DEF CalmInv, Enough, Due
<1> QED
  BY <1>5 DEF TabInv

\* What a request that is under way says of the state.
LEMMA UnderwayFacts ==
  ASSUME OneTab, IInv, TabInv, NEW r \in Requests, req[r].pc # "idle"
  PROVE  /\ Underway(req[r]) /\ ~ Idle /\ atKeycloak = {}
         /\ \A q \in Requests : q # r => req[q].pc = "idle"
         /\ req[r] \in RequestType /\ req[r].browser = Tab /\ TypeOK
         /\ Due => req[r].kind = "page"
<1>0. Due => req[r].kind = "page"
  BY DEF Due, TabInv, BaseInv, Underway, Follows
<1>1. Underway(req[r]) /\ ~ Idle /\ atKeycloak = {}
  BY DEF TabInv, BaseInv, Idle
<1>2. \A q \in Requests : q # r => req[q].pc = "idle"
  BY DEF TabInv, BaseInv
<1>3. req[r] \in RequestType /\ req[r].browser \in Browsers
  BY RequestFacts
<1> QED
  BY <1>0, <1>1, <1>2, <1>3, TabFacts DEF IInv

\* A step of a request that does not end it is none to be counted.
LEMMA CalmStays ==
  ASSUME OneTab, IInv, TabInv, Count, NEW r \in Requests,
         req[r].pc # "idle", req'[r].pc # "idle",
         \A q \in Requests : q # r => req'[q] = req[q],
         UNCHANGED <<last, trouble>>
  PROVE  calm' = calm /\ (Due' <=> Due)
<1>1. \A q \in Requests : q # r => req[q].pc = "idle"
  BY UnderwayFacts
<1>2. \A q \in Requests : ~ (req[q].pc = "responded" /\ req'[q].pc = "idle")
  BY <1>1
<1>3. ~ Arrives
  BY <1>2 DEF Arrives
<1> QED
  BY <1>3 DEF Count, Due

\* It keeps what has to hold of it, and of the session the tab has, if that is due.
LEMMA RunsOn ==
  ASSUME OneTab, IInv, TabInv, Count, NEW r \in Requests,
         req[r].pc # "idle", req'[r].pc # "idle",
         \A q \in Requests : q # r => req'[q] = req[q],
         UNCHANGED <<browser, expired, atKeycloak, trouble>>,
         \A g \in expired : g < nextToken',
         \A s \in codeUsed' : s < nextState',
         Underway(req[r])', calm >= 1 => GoesWell(req[r])',
         Due => Live(cookie[Tab])'
  PROVE  TabInv'
<1>1. /\ atKeycloak = {} /\ ~ Idle /\ \A q \in Requests : q # r => req[q].pc = "idle"
      /\ cookie' = cookie /\ last' = last
  BY UnderwayFacts DEF browser
<1>2. calm' = calm
  BY <1>1, CalmStays
<1>3. \A q \in Requests : req'[q].pc # "idle" => q = r
  BY <1>1
<1>4. BaseInv'
  <2>1. \A q \in Requests : req'[q].pc # "idle" => Underway(req[q])'
    BY <1>3
  <2> QED
    BY <1>1, <1>3, <2>1 DEF BaseInv
<1>5. CalmInv'
  <2>1. \A q \in Requests : calm >= 1 /\ req'[q].pc # "idle" => GoesWell(req[q])'
    BY <1>3
  <2>2. calm \in 0 .. Enough /\ calm <= Rank(last[Tab])
    BY DEF TabInv, CalmInv
  <2>3. Due' => Live(cookie[Tab])'
    BY <1>1, <1>2 DEF Due
  <2> QED
    BY <1>1, <1>2, <2>1, <2>2, <2>3 DEF CalmInv
<1> QED
  BY <1>4, <1>5 DEF TabInv

\* Such a step that changes no session.
LEMMA RunsOnQuietly ==
  ASSUME OneTab, IInv, TabInv, Count, NEW r \in Requests,
         req[r].pc # "idle", NEW new, req' = [req EXCEPT ![r] = new], new.pc # "idle",
         UNCHANGED <<browser, store, expired, atKeycloak, trouble>>,
         nextToken' \in {nextToken, nextToken + 1},
         \A s \in codeUsed' : s < nextState',
         Underway(req[r])', calm >= 1 => GoesWell(req[r])'
  PROVE  TabInv'
<1>1. TypeOK
  BY DEF IInv
<1>2. req'[r] = new /\ \A q \in Requests : q # r => req'[q] = req[q]
  BY <1>1 DEF TypeOK
<1>3. \A g \in expired : g < nextToken'
  <2>1. \A g \in expired : g < nextToken /\ g \in Int
    BY <1>1 DEF TabInv, BaseInv, TypeOK, Tokens
  <2>2. nextToken \in Int
    BY <1>1 DEF TypeOK
  <2> QED
    BY <2>1, <2>2
<1>4. Due => Live(cookie[Tab])'
  BY DEF TabInv, CalmInv, Live, store, browser
<1> QED
  BY <1>2, <1>3, <1>4, RunsOn

\* A save writes a file that is whole, and the response names it.
LEMMA SaveWrites ==
  ASSUME OneTab, IInv, NEW r \in Requests, NEW vals, NEW rec \in RequestType,
         Save(r, vals, rec)
  PROVE  LET new == req'[r]
         IN  /\ new.pc = rec.pc /\ new.verdict = rec.verdict /\ new.kind = rec.kind
             /\ new.param = rec.param /\ new.cookie = rec.cookie /\ new.got = rec.got
             /\ new.set /\ new.snap = vals
             /\ new.to.id \in DOMAIN files' \ torn' /\ files'[new.to.id] = vals
             /\ \A q \in Requests : q # r => req'[q] = req[q]
<1>1. TypeOK /\ Write(r, vals, rec)
  BY DEF IInv, OneTab, Save
<1>2. PICK id : id = IF ~ InCookie /\ req[r].id = None THEN nextID ELSE req[r].id
  OBVIOUS
<1>3. PICK ck : ck = [id |-> id, values |-> NoValues]
  OBVIOUS
<1>4. PICK new : new = [rec EXCEPT !.id = id, !.snap = vals, !.set = TRUE, !.to = ck]
  OBVIOUS
<1>5. /\ files' = [i \in DOMAIN files \cup {id} |-> IF i = id THEN vals ELSE files[i]]
      /\ torn' = torn \ {id}
      /\ req' = [req EXCEPT ![r] = new]
  BY <1>1, <1>2, <1>3, <1>4 DEF Write, OneTab
<1>6. req'[r] = new /\ \A q \in Requests : q # r => req'[q] = req[q]
  BY <1>1, <1>5 DEF TypeOK
<1>7. /\ new.pc = rec.pc /\ new.verdict = rec.verdict /\ new.kind = rec.kind
      /\ new.param = rec.param /\ new.cookie = rec.cookie /\ new.got = rec.got
      /\ new.set /\ new.snap = vals /\ new.to = ck
  BY <1>4 DEF RequestType
<1>8. ck.id = id /\ id \in DOMAIN files' \ torn' /\ files'[id] = vals
  BY <1>3, <1>5
<1> QED
  BY <1>6, <1>7, <1>8

---------------------------------------------------------------------------
(* Every action preserves it. *)

\* HandleLogin puts a fresh state into the session, whatever it has loaded.
LEMMA LoginLoadTab ==
  ASSUME OneTab, IInv, TabInv, Count, NEW r \in Requests, LoginLoad(r)
  PROVE  TabInv'
<1>1. /\ req[r].pc = "received" /\ req[r].kind = "login" /\ req[r].verdict # "authorize"
      /\ req[r] \in RequestType /\ TypeOK /\ Underway(req[r])
  BY RequestFacts, UnderwayFacts DEF LoginLoad, LoginReceived
<1>2. PICK w \in RequestType :
        /\ w = WithSession(r, "saveState") /\ w.pc = "saveState" /\ w.kind = "login"
        /\ w.verdict = req[r].verdict /\ w.cookie = req[r].cookie
  BY <1>1, WithSessionChanges DEF PCs
<1>3. PICK new : new = [w EXCEPT !.param = nextState, !.snap.state = nextState]
  OBVIOUS
<1>4. /\ new.pc = "saveState" /\ new.kind = "login" /\ new.verdict # "authorize"
      /\ new.cookie = req[r].cookie /\ new.param = nextState /\ new.snap.state = nextState
  BY <1>1, <1>2, <1>3 DEF RequestType, Values
<1>5. /\ req' = [req EXCEPT ![r] = new] /\ nextState' = nextState + 1
      /\ UNCHANGED <<browser, store, keycloak, trouble>>
  BY <1>2, <1>3 DEF LoginLoad
<1>6. req'[r] = new
  BY <1>1, <1>5 DEF TypeOK
<1>7. codeUsed' = codeUsed /\ nextState \notin codeUsed /\ \A s \in codeUsed : s < nextState'
  BY <1>1, <1>5 DEF TabInv, BaseInv, TypeOK, States, keycloak
<1>8. Underway(req[r])'
  BY <1>1, <1>4, <1>5, <1>6, <1>7 DEF Underway, StepsOf, browser
<1>9. calm >= 1 => GoesWell(req[r])'
  BY <1>1, <1>4, <1>5, <1>6 DEF TabInv, CalmInv, GoesWell, LoginGoesWell, browser
<1> QED
  BY <1>1, <1>4, <1>5, <1>7, <1>8, <1>9, RunsOnQuietly DEF keycloak

\* The session that the answer brings holds the state.
LEMMA LoginSaveTab ==
  ASSUME OneTab, IInv, TabInv, Count, NEW r \in Requests, LoginSave(r)
  PROVE  TabInv'
<1>1. /\ req[r].pc = "saveState" /\ req[r].kind = "login" /\ req[r].snap.state = req[r].param
      /\ req[r].param \notin codeUsed
      /\ req[r] \in RequestType /\ TypeOK /\ Underway(req[r]) /\ ~ Due
  BY UnderwayFacts DEF LoginSave, Underway, StepsOf
<1>2. PICK rec \in RequestType : /\ rec = Responding(req[r], "authorize")
                                 /\ rec.pc = "responded" /\ rec.verdict = "authorize"
                                 /\ Alike(rec, req[r])
  BY <1>1, RespondingChanges DEF Verdicts
<1>3. PICK vals : vals = req[r].snap
  OBVIOUS
<1>4. Save(r, vals, rec) /\ UNCHANGED <<browser, states, keycloak, trouble>>
  BY <1>2, <1>3 DEF LoginSave
<1>5. /\ req'[r].pc = "responded" /\ req'[r].verdict = "authorize" /\ req'[r].kind = "login"
      /\ req'[r].param = req[r].param /\ req'[r].cookie = req[r].cookie /\ req'[r].set
      /\ req'[r].to.id \in DOMAIN files' \ torn' /\ files'[req'[r].to.id] = vals
      /\ \A q \in Requests : q # r => req'[q] = req[q]
  BY <1>1, <1>2, <1>4, SaveWrites DEF Alike
<1>6. Underway(req[r])'
  BY <1>1, <1>3, <1>4, <1>5 DEF Underway, StepsOf, Holds, browser, keycloak
<1>7. calm >= 1 => GoesWell(req[r])'
  BY <1>1, <1>4, <1>5 DEF TabInv, CalmInv, GoesWell, LoginGoesWell, browser
<1>8. /\ \A g \in expired : g < nextToken'
      /\ \A s \in codeUsed' : s < nextState'
  BY <1>4 DEF TabInv, BaseInv, keycloak, states
<1> QED
  BY <1>1, <1>4, <1>5, <1>6, <1>7, <1>8, RunsOn DEF keycloak

\* HandleCallback finds the state it brings in the session.
LEMMA CallbackLoadTab ==
  ASSUME OneTab, IInv, TabInv, Count, NEW r \in Requests, CallbackLoad(r)
  PROVE  TabInv'
<1>1. /\ req[r].pc = "received" /\ req[r].kind = "callback" /\ req[r].verdict # "authorize"
      /\ req[r].param \in States \ codeUsed
      /\ req[r] \in RequestType /\ TypeOK /\ Underway(req[r])
      /\ UNCHANGED <<browser, store, states, keycloak, trouble>>
  BY RequestFacts, UnderwayFacts DEF CallbackLoad, Underway
<1>2. \A s \in codeUsed' : s < nextState'
  BY <1>1 DEF TabInv, BaseInv, keycloak, states
<1>3. CASE Readable(req[r].cookie) /\ StateMatches(req[r], Loaded(req[r].cookie))
  <2>1. PICK w \in RequestType :
          /\ w = WithSession(r, "clearState") /\ w.pc = "clearState" /\ w.kind = "callback"
          /\ w.verdict = req[r].verdict /\ w.cookie = req[r].cookie /\ w.param = req[r].param
    BY <1>1, WithSessionChanges DEF PCs
  <2>2. req' = [req EXCEPT ![r] = w] /\ req'[r] = w
    BY <1>1, <1>3, <2>1 DEF CallbackLoad, TypeOK
  <2>3. Underway(req[r])'
    BY <1>1, <2>1, <2>2 DEF Underway, StepsOf, browser, keycloak
  <2>4. calm >= 1 => GoesWell(req[r])'
    BY <1>1, <2>1, <2>2 DEF TabInv, CalmInv, GoesWell, CallbackGoesWell, browser
  <2> QED
    BY <1>1, <1>2, <2>1, <2>2, <2>3, <2>4, RunsOnQuietly DEF keycloak
<1>4. CASE ~ (Readable(req[r].cookie) /\ StateMatches(req[r], Loaded(req[r].cookie)))
  <2>1. PICK new \in RequestType : /\ new = Responding(req[r], "error")
                                   /\ new.pc = "responded" /\ new.verdict = "error"
                                   /\ Alike(new, req[r])
    BY <1>1, RespondingChanges DEF Verdicts
  <2>2. req' = [req EXCEPT ![r] = new] /\ req'[r] = new
    BY <1>1, <1>4, <2>1 DEF CallbackLoad, Respond, TypeOK
  <2>3. Underway(req[r])'
    BY <1>1, <2>1, <2>2 DEF Underway, StepsOf, Alike, browser
  <2>4. ~ (calm >= 1)
    <3>1. ASSUME calm >= 1 PROVE FALSE
      <4>1. Holds(req[r].cookie, req[r].param)
        BY <1>1, <3>1 DEF TabInv, CalmInv, GoesWell, CallbackGoesWell
      <4>2. req[r].cookie.id # None /\ req[r].param # None
        BY <1>1, <4>1 DEF Holds, TypeOK, IDs, States, None
      <4> QED
        BY <1>4, <4>1, <4>2 DEF Holds, Readable, Loaded, StateMatches, OneTab
    <3> QED
      BY <3>1
  <2> QED
    BY <1>1, <1>2, <2>1, <2>2, <2>3, <2>4, RunsOnQuietly DEF keycloak
<1> QED
  BY <1>3, <1>4

\* Its code has not been used.
LEMMA CallbackClearStateTab ==
  ASSUME OneTab, IInv, TabInv, Count, NEW r \in Requests, CallbackClearState(r)
  PROVE  TabInv'
<1>1. /\ req[r].pc = "clearState" /\ req[r].kind = "callback" /\ req[r].verdict # "authorize"
      /\ req[r].param \in States \ codeUsed
      /\ req[r] \in RequestType /\ TypeOK /\ Underway(req[r]) /\ ~ Due
  BY RequestFacts, UnderwayFacts DEF CallbackClearState, Underway, StepsOf
<1>2. PICK rec \in RequestType : /\ rec = [req[r] EXCEPT !.pc = "exchange"]
                                 /\ rec.pc = "exchange" /\ Alike(rec, req[r])
                                 /\ rec.verdict = req[r].verdict
  <2>1. "exchange" \in PCs
    BY DEF PCs
  <2>2. [req[r] EXCEPT !.pc = "exchange"].verdict = req[r].verdict
    BY <1>1 DEF RequestType
  <2> QED
    BY <1>1, <2>1, <2>2, PcChanges
<1>3. PICK vals : vals = [req[r].snap EXCEPT !.state = None]
  OBVIOUS
<1>4. Save(r, vals, rec) /\ UNCHANGED <<browser, states, keycloak, trouble>>
  BY <1>2, <1>3 DEF CallbackClearState
<1>5. /\ req'[r].pc = "exchange" /\ req'[r].verdict # "authorize" /\ req'[r].kind = "callback"
      /\ req'[r].param = req[r].param /\ req'[r].cookie = req[r].cookie
      /\ \A q \in Requests : q # r => req'[q] = req[q]
  <2>1. /\ req'[r].pc = rec.pc /\ req'[r].verdict = rec.verdict /\ req'[r].kind = rec.kind
        /\ req'[r].param = rec.param /\ req'[r].cookie = rec.cookie
        /\ \A q \in Requests : q # r => req'[q] = req[q]
    BY <1>4, SaveWrites
  <2> QED
    BY <1>1, <1>2, <2>1 DEF Alike
<1>6. Underway(req[r])'
  BY <1>1, <1>4, <1>5 DEF Underway, StepsOf, browser, keycloak
<1>7. calm >= 1 => GoesWell(req[r])'
  BY <1>1, <1>4, <1>5 DEF TabInv, CalmInv, GoesWell, CallbackGoesWell, browser
<1>8. /\ \A g \in expired : g < nextToken'
      /\ \A s \in codeUsed' : s < nextState'
  BY <1>4 DEF TabInv, BaseInv, keycloak, states
<1> QED
  BY <1>1, <1>4, <1>5, <1>6, <1>7, <1>8, RunsOn DEF keycloak

\* Keycloak issues a token set for it that has not expired.
LEMMA CallbackExchangeTab ==
  ASSUME OneTab, IInv, TabInv, Count, NEW r \in Requests, CallbackExchange(r)
  PROVE  TabInv'
<1>1. /\ req[r].pc = "exchange" /\ req[r].kind = "callback" /\ req[r].verdict # "authorize"
      /\ req[r].param \in States \ codeUsed /\ req[r].param < nextState
      /\ req[r] \in RequestType /\ TypeOK /\ Underway(req[r])
      /\ UNCHANGED <<browser, store, states, atKeycloak, expired, ended, cached, trouble>>
  BY RequestFacts, UnderwayFacts DEF CallbackExchange, Underway, StepsOf, StateOf
<1>2. /\ Issue(r, req[r].param, "saveToken") /\ codeUsed' = codeUsed \cup {req[r].param}
  BY <1>1 DEF CallbackExchange
<1>3. PICK new : new = [req[r] EXCEPT !.got = nextToken, !.pc = "saveToken"]
  OBVIOUS
<1>4. /\ new.pc = "saveToken" /\ new.kind = "callback" /\ new.verdict # "authorize"
      /\ new.cookie = req[r].cookie /\ new.param = req[r].param /\ new.got = nextToken
  BY <1>1, <1>3 DEF RequestType
<1>5. req' = [req EXCEPT ![r] = new] /\ req'[r] = new /\ nextToken' = nextToken + 1
  BY <1>1, <1>2, <1>3 DEF Issue, TypeOK, RequestType
<1>6. nextToken \notin expired \cup {None}
  BY <1>1 DEF TabInv, BaseInv, TypeOK, None, Tokens
<1>7. \A s \in codeUsed' : s < nextState'
  BY <1>1, <1>2 DEF TabInv, BaseInv, states
<1>8. Underway(req[r])'
  BY <1>1, <1>4, <1>5 DEF Underway, StepsOf, browser
<1>9. calm >= 1 => GoesWell(req[r])'
  BY <1>1, <1>4, <1>5, <1>6 DEF TabInv, CalmInv, GoesWell, CallbackGoesWell, browser
<1> QED
  BY <1>1, <1>4, <1>5, <1>7, <1>8, <1>9, RunsOnQuietly

\* The session that the answer brings has it.
LEMMA CallbackSaveTokenTab ==
  ASSUME OneTab, IInv, TabInv, Count, NEW r \in Requests, CallbackSaveToken(r)
  PROVE  TabInv'
<1>1. /\ req[r].pc = "saveToken" /\ req[r].kind = "callback" /\ req[r].snap \in Values
      /\ req[r].param \in States
      /\ req[r] \in RequestType /\ TypeOK /\ Underway(req[r]) /\ ~ Due
  BY RequestFacts, UnderwayFacts DEF CallbackSaveToken, Underway
<1>2. PICK rec \in RequestType : /\ rec = Responding(req[r], "home")
                                 /\ rec.pc = "responded" /\ rec.verdict = "home"
                                 /\ Alike(rec, req[r])
  BY <1>1, RespondingChanges DEF Verdicts
<1>3. PICK vals : vals = TokenValues(req[r].snap, req[r].got)
  OBVIOUS
<1>4. vals.token = req[r].got
  BY <1>1, <1>3 DEF TokenValues, OneTab, Values
<1>5. Save(r, vals, rec) /\ UNCHANGED <<browser, states, keycloak, trouble>>
  BY <1>2, <1>3 DEF CallbackSaveToken, SaveToken
<1>6. /\ req'[r].pc = "responded" /\ req'[r].verdict = "home" /\ req'[r].kind = "callback"
      /\ req'[r].param = req[r].param /\ req'[r].cookie = req[r].cookie /\ req'[r].set
      /\ req'[r].to.id \in DOMAIN files' \ torn' /\ files'[req'[r].to.id] = vals
      /\ \A q \in Requests : q # r => req'[q] = req[q]
  BY <1>1, <1>2, <1>5, SaveWrites DEF Alike
<1>7. Underway(req[r])'
  BY <1>1, <1>5, <1>6 DEF Underway, StepsOf, browser
<1>8. calm >= 1 => GoesWell(req[r])'
  <2> SUFFICES ASSUME calm >= 1 PROVE GoesWell(req[r])'
    OBVIOUS
  <2>1. req[r].got \notin expired \cup {None} /\ req[r].cookie = cookie[Tab]
    BY <1>1 DEF TabInv, CalmInv, GoesWell, CallbackGoesWell
  <2>2. Live(req[r].to)'
    BY <1>4, <1>5, <1>6, <2>1 DEF Live, keycloak
  <2> QED
    BY <1>5, <1>6, <2>1, <2>2 DEF GoesWell, CallbackGoesWell, browser
<1>9. /\ \A g \in expired : g < nextToken'
      /\ \A s \in codeUsed' : s < nextState'
  BY <1>5 DEF TabInv, BaseInv, keycloak, states
<1> QED
  BY <1>1, <1>5, <1>6, <1>7, <1>8, <1>9, RunsOn DEF keycloak

\* AuthRequired lets the page through if its session is alive, and otherwise
\* refreshes the token or sends the tab to the login.
LEMMA AuthLoadTab ==
  ASSUME OneTab, IInv, TabInv, Count, NEW r \in Requests, AuthLoad(r)
  PROVE  TabInv'
<1>1. /\ req[r].pc = "received" /\ req[r].kind = "page" /\ req[r].verdict # "authorize"
      /\ req[r] \in RequestType /\ TypeOK /\ Underway(req[r])
      /\ UNCHANGED <<browser, store, states, keycloak, trouble>>
      /\ req[r].cookie \in Cookies
  BY RequestFacts, UnderwayFacts DEF AuthLoad, Protected, Underway
<1>2. \A s \in codeUsed' : s < nextState'
  BY <1>1 DEF TabInv, BaseInv, keycloak, states
<1>3. PICK sess : sess = Loaded(req[r].cookie)
  OBVIOUS
<1>4. Live(req[r].cookie) <=> sess.token \notin expired \cup {None}
  <2>1. NoValues.token = None
    BY DEF NoValues
  <2>2. req[r].cookie.id \in DOMAIN files => req[r].cookie.id # None
    BY <1>1 DEF TypeOK, IDs, None
  <2> QED
    BY <1>3, <2>1, <2>2 DEF Live, Loaded, Readable, OneTab
<1>5. calm >= 1 /\ Due => Live(req[r].cookie)
  BY <1>1 DEF TabInv, CalmInv, GoesWell, PageGoesWell
<1>6. ASSUME NEW new, req' = [req EXCEPT ![r] = new],
             new.kind = "page", new.cookie = req[r].cookie, new.set = req[r].set,
             \/ /\ new.pc = "responded" /\ new.verdict = "login" /\ ~ Live(req[r].cookie)
             \/ /\ new.pc = "refresh" /\ new.verdict = req[r].verdict /\ ~ Live(req[r].cookie)
             \/ /\ new.pc = "responded" /\ new.verdict = "served" /\ Live(req[r].cookie)
                /\ ~ req[r].set
      PROVE  TabInv'
  <2>1. req'[r] = new
    BY <1>1, <1>6 DEF TypeOK
  <2>2. new.pc # "idle" /\ new.verdict # "authorize"
    BY <1>1, <1>6
  <2>3. Underway(req[r])'
    BY <1>1, <1>6, <2>1, <2>2 DEF Underway, StepsOf, browser
  <2>4. calm >= 1 => GoesWell(req[r])'
    <3> SUFFICES ASSUME calm >= 1 PROVE GoesWell(req[r])'
      OBVIOUS
    <3>1. req[r].cookie = cookie[Tab]
      BY <1>1 DEF TabInv, CalmInv, GoesWell
    <3>2. new.cookie = cookie'[Tab]
      BY <1>1, <1>6, <3>1 DEF browser
    <3>3. \A q \in Requests : q # r => req'[q] = req[q]
      BY <1>1, <1>6 DEF TypeOK
    <3>4. Due' <=> Due
      BY <1>1, <2>1, <2>2, <3>3, CalmStays DEF browser
    <3>5. Live(req[r].cookie)' <=> Live(req[r].cookie)
      BY <1>1, <1>6, <2>1 DEF Live, store, keycloak
    <3>6. PageGoesWell(req[r])'
      BY <1>5, <1>6, <2>1, <3>4, <3>5 DEF PageGoesWell
    <3> QED
      BY <1>6, <2>1, <3>2, <3>6 DEF GoesWell
  <2> QED
    BY <1>1, <1>2, <1>6, <2>2, <2>3, <2>4, RunsOnQuietly DEF keycloak
<1>7. ~ req[r].set
  BY <1>1 DEF Underway
<1>8. CASE sess.token = None
  <2>1. PICK new : new = Responding(req[r], "login")
    OBVIOUS
  <2>2. new.pc = "responded" /\ new.verdict = "login" /\ Alike(new, req[r])
    BY <1>1, <2>1, RespondingChanges DEF Verdicts
  <2>3. req' = [req EXCEPT ![r] = new]
    BY <1>3, <1>8, <2>1 DEF AuthLoad
  <2> QED
    BY <1>1, <1>4, <1>6, <1>8, <2>2, <2>3 DEF Alike
<1>9. CASE sess.token # None /\ sess.token \in expired
  <2>1. PICK new : new = WithSession(r, "refresh")
    OBVIOUS
  <2>2. /\ new.pc = "refresh" /\ new.verdict = req[r].verdict /\ new.kind = req[r].kind
        /\ new.cookie = req[r].cookie /\ new.set = req[r].set
    BY <1>1, <2>1, WithSessionChanges DEF PCs
  <2>3. req' = [req EXCEPT ![r] = new]
    BY <1>3, <1>9, <2>1 DEF AuthLoad, OneTab
  <2> QED
    BY <1>1, <1>4, <1>6, <1>9, <2>2, <2>3
<1>10. CASE sess.token # None /\ sess.token \notin expired
  <2>1. PICK w \in RequestType :
          /\ w = WithSession(r, "received") /\ w.kind = "page"
          /\ w.cookie = req[r].cookie /\ w.set = req[r].set
    BY <1>1, WithSessionChanges DEF PCs
  <2>2. PICK new : new = Responding(w, "served")
    OBVIOUS
  <2>3. new.pc = "responded" /\ new.verdict = "served" /\ Alike(new, w)
    BY <2>2, RespondingChanges DEF Verdicts
  <2>4. req' = [req EXCEPT ![r] = new]
    BY <1>3, <1>10, <2>1, <2>2 DEF AuthLoad, OneTab, Admitted
  <2> QED
    BY <1>4, <1>6, <1>7, <1>10, <2>1, <2>3, <2>4 DEF Alike
<1> QED
  BY <1>8, <1>9, <1>10

\* A refresh gives a token set that has not expired, unless Keycloak's session
\* is over.
LEMMA AuthRefreshTab ==
  ASSUME OneTab, IInv, TabInv, Count, NEW r \in Requests, AuthRefresh(r)
  PROVE  TabInv'
<1>1. /\ req[r].pc = "refresh" /\ req[r].kind = "page" /\ req[r].verdict # "authorize"
      /\ req[r] \in RequestType /\ TypeOK /\ Underway(req[r])
      /\ UNCHANGED <<browser, store, states, atKeycloak, codeUsed, expired, trouble>>
  BY RequestFacts, UnderwayFacts DEF AuthRefresh, Underway, StepsOf
<1>2. \A s \in codeUsed' : s < nextState'
  BY <1>1 DEF TabInv, BaseInv, states
<1>3. nextToken' \in {nextToken, nextToken + 1}
  BY DEF AuthRefresh, Reissue, Issue
<1>4. ASSUME NEW new, req' = [req EXCEPT ![r] = new],
             new.kind = "page", new.cookie = req[r].cookie, new.verdict = req[r].verdict,
             \/ new.pc = "clear"
             \/ new.pc = "saveToken" /\ new.got \notin expired \cup {None}
      PROVE  TabInv'
  <2>1. req'[r] = new /\ new.pc # "idle" /\ \A q \in Requests : q # r => req'[q] = req[q]
    BY <1>1, <1>4 DEF TypeOK
  <2>2. Underway(req[r])'
    BY <1>1, <1>4, <2>1 DEF Underway, StepsOf, browser
  <2>3. calm >= 1 => GoesWell(req[r])'
    <3> SUFFICES ASSUME calm >= 1 PROVE GoesWell(req[r])'
      OBVIOUS
    <3>1. req[r].cookie = cookie[Tab] /\ ~ Due
      BY <1>1 DEF TabInv, CalmInv, GoesWell, PageGoesWell
    <3>2. ~ Due'
      BY <1>1, <2>1, <3>1, CalmStays DEF browser
    <3> QED
      BY <1>1, <1>4, <2>1, <3>1, <3>2 DEF GoesWell, PageGoesWell, browser
  <2> QED
    BY <1>1, <1>2, <1>3, <1>4, <2>1, <2>2, <2>3, RunsOnQuietly
<1>5. CASE req' = [req EXCEPT ![r].pc = "clear"]
  <2>1. PICK new : new = [req[r] EXCEPT !.pc = "clear"]
    OBVIOUS
  <2>2. /\ new.pc = "clear" /\ new.kind = req[r].kind /\ new.cookie = req[r].cookie
        /\ new.verdict = req[r].verdict
    BY <1>1, <2>1 DEF RequestType
  <2>3. req' = [req EXCEPT ![r] = new]
    BY <1>1, <1>5, <2>1 DEF TypeOK
  <2> QED
    BY <1>1, <1>4, <2>2, <2>3
<1>6. ASSUME NEW g, g \notin expired \cup {None},
             req' = [req EXCEPT ![r].got = g, ![r].pc = "saveToken"]
      PROVE  TabInv'
  <2>1. PICK new : new = [req[r] EXCEPT !.got = g, !.pc = "saveToken"]
    OBVIOUS
  <2>2. /\ new.pc = "saveToken" /\ new.kind = req[r].kind /\ new.cookie = req[r].cookie
        /\ new.verdict = req[r].verdict /\ new.got = g
    BY <1>1, <2>1 DEF RequestType
  <2>3. req' = [req EXCEPT ![r] = new]
    BY <1>1, <1>6, <2>1 DEF TypeOK, RequestType
  <2> QED
    BY <1>1, <1>4, <1>6, <2>2, <2>3
<1>7. nextToken \notin expired \cup {None} /\ None \notin Tokens
  BY <1>1 DEF TabInv, BaseInv, TypeOK, None, Tokens
<1>8. \/ req' = [req EXCEPT ![r].pc = "clear"]
      \/ req' = [req EXCEPT ![r].got = nextToken, ![r].pc = "saveToken"]
      \/ \E g \in Tokens \ expired : req' = [req EXCEPT ![r].got = g, ![r].pc = "saveToken"]
  BY DEF AuthRefresh, Reissue, Issue
<1>9. CASE req' = [req EXCEPT ![r].got = nextToken, ![r].pc = "saveToken"]
  <2>1. PICK g : g = nextToken
    OBVIOUS
  <2> QED
    BY <1>6, <1>7, <1>9, <2>1
<1>10. CASE \E g \in Tokens \ expired : req' = [req EXCEPT ![r].got = g, ![r].pc = "saveToken"]
  <2>1. PICK g \in Tokens \ expired : req' = [req EXCEPT ![r].got = g, ![r].pc = "saveToken"]
    BY <1>10
  <2> QED
    BY <1>6, <1>7, <2>1
<1> QED
  BY <1>5, <1>8, <1>9, <1>10

\* The page comes with the session it goes into.
LEMMA AuthSaveTokenTab ==
  ASSUME OneTab, IInv, TabInv, Count, NEW r \in Requests, AuthSaveToken(r)
  PROVE  TabInv'
<1>1. /\ req[r].pc = "saveToken" /\ req[r].kind = "page" /\ req[r].snap \in Values
      /\ req[r] \in RequestType /\ TypeOK /\ Underway(req[r])
  BY RequestFacts, UnderwayFacts DEF AuthSaveToken, Underway, Protected
<1>2. PICK rec \in RequestType : /\ rec = Responding(req[r], "served")
                                 /\ rec.pc = "responded" /\ rec.verdict = "served"
                                 /\ Alike(rec, req[r])
  BY <1>1, RespondingChanges DEF Verdicts
<1>3. PICK vals : vals = TokenValues(req[r].snap, req[r].got)
  OBVIOUS
<1>4. vals.token = req[r].got
  BY <1>1, <1>3 DEF TokenValues, OneTab, Values
<1>5. Save(r, vals, rec) /\ UNCHANGED <<browser, states, keycloak, trouble>>
  BY <1>1, <1>2, <1>3 DEF AuthSaveToken, SaveToken, Admitted
<1>6. /\ req'[r].pc = "responded" /\ req'[r].verdict = "served" /\ req'[r].kind = "page"
      /\ req'[r].cookie = req[r].cookie /\ req'[r].set
      /\ req'[r].to.id \in DOMAIN files' \ torn' /\ files'[req'[r].to.id] = vals
      /\ \A q \in Requests : q # r => req'[q] = req[q]
  BY <1>1, <1>2, <1>5, SaveWrites DEF Alike
<1>7. Underway(req[r])'
  BY <1>1, <1>5, <1>6 DEF Underway, StepsOf, browser
<1>8. ~ Due
  <2>1. calm >= 1 => ~ Due
    BY <1>1 DEF TabInv, CalmInv, GoesWell, PageGoesWell
  <2> QED
    BY <2>1 DEF Due, TabInv, CalmInv
<1>9. calm >= 1 => GoesWell(req[r])'
  <2> SUFFICES ASSUME calm >= 1 PROVE GoesWell(req[r])'
    OBVIOUS
  <2>1. req[r].got \notin expired \cup {None} /\ req[r].cookie = cookie[Tab]
    BY <1>1 DEF TabInv, CalmInv, GoesWell, PageGoesWell
  <2>2. Live(req[r].to)'
    BY <1>4, <1>5, <1>6, <2>1 DEF Live, keycloak
  <2>3. ~ Due'
    BY <1>1, <1>5, <1>6, <1>8, CalmStays DEF browser
  <2>4. Live(IF req[r].set THEN req[r].to ELSE req[r].cookie)'
    BY <1>6, <2>2
  <2> QED
    BY <1>5, <1>6, <2>1, <2>3, <2>4 DEF GoesWell, PageGoesWell, browser
<1>10. /\ \A g \in expired : g < nextToken'
       /\ \A s \in codeUsed' : s < nextState'
  BY <1>5 DEF TabInv, BaseInv, keycloak, states
<1> QED
  BY <1>1, <1>5, <1>6, <1>7, <1>8, <1>9, <1>10, RunsOn DEF keycloak

\* A session that cannot be refreshed is erased, and the tab sent to the login.
LEMMA AuthClearTab ==
  ASSUME OneTab, IInv, TabInv, Count, NEW r \in Requests, AuthClear(r)
  PROVE  TabInv'
<1>1. /\ req[r].pc = "clear" /\ req[r].kind = "page"
      /\ req[r] \in RequestType /\ TypeOK /\ Underway(req[r])
      /\ UNCHANGED <<browser, states, keycloak, trouble>>
  BY UnderwayFacts DEF AuthClear, Underway, StepsOf
<1>2. PICK rec \in RequestType : /\ rec = Responding(req[r], "login")
                                 /\ rec.pc = "responded" /\ rec.verdict = "login"
                                 /\ Alike(rec, req[r])
  BY <1>1, RespondingChanges DEF Verdicts
<1>3. PICK new : new = [rec EXCEPT !.set = TRUE, !.to = NoCookie]
  OBVIOUS
<1>4. /\ new.pc = "responded" /\ new.verdict = "login" /\ new.kind = "page"
      /\ new.cookie = req[r].cookie
  BY <1>1, <1>2, <1>3 DEF RequestType, Alike
<1>5. req' = [req EXCEPT ![r] = new]
  BY <1>2, <1>3 DEF AuthClear, Clear, Erase
<1>6. req'[r] = new /\ \A q \in Requests : q # r => req'[q] = req[q]
  BY <1>1, <1>5 DEF TypeOK
<1>7. Underway(req[r])'
  BY <1>1, <1>4, <1>6 DEF Underway, StepsOf, browser
<1>8. ~ Due
  <2>1. calm >= 1 => ~ Due
    BY <1>1 DEF TabInv, CalmInv, GoesWell, PageGoesWell
  <2> QED
    BY <2>1 DEF Due, TabInv, CalmInv
<1>9. ~ Due'
  BY <1>1, <1>4, <1>6, <1>8, CalmStays DEF browser
<1>10. calm >= 1 => GoesWell(req[r])'
  BY <1>1, <1>4, <1>6, <1>9 DEF TabInv, CalmInv, GoesWell, PageGoesWell, browser
<1>11. /\ \A g \in expired : g < nextToken'
       /\ \A s \in codeUsed' : s < nextState'
  BY <1>1 DEF TabInv, BaseInv, keycloak, states
<1> QED
  BY <1>1, <1>4, <1>6, <1>7, <1>8, <1>10, <1>11, RunsOn DEF keycloak

\* The lone tab neither logs out nor asks for an SSO redirect, and nothing is
\* introspected with the filesystem store.
LEMMA OtherHandlersTab ==
  ASSUME OneTab, IInv, TabInv, NEW r \in Requests,
         Logout(r) \/ AuthIntrospect(r) \/ SSOLoad(r) \/ SSOSave(r)
  PROVE  FALSE
<1>1. req[r].pc # "idle"
  BY DEF Logout, AuthIntrospect, SSOLoad, SSOSave
<1>2. Underway(req[r])
  BY <1>1, UnderwayFacts
<1> QED
  BY <1>2 DEF Underway, StepsOf, Logout, AuthIntrospect, SSOLoad, SSOSave

\* What the tab asks for is what its last answer leads to.
LEMMA SendTab ==
  ASSUME OneTab, IInv, TabInv, Count, NEW r \in Requests, NEW b \in Browsers, NEW k \in Kinds,
         Send(r, b, k)
  PROVE  TabInv'
<1>1. /\ TypeOK /\ b = Tab /\ k = Follows(last[Tab])
      /\ \A q \in Requests : req[q].pc = "idle"
      /\ UNCHANGED <<browser, store, states, codeUsed, nextToken, flow, expired, trouble>>
  BY TabFacts DEF IInv, Send, OneTab
<1>2. PICK s \in IF k = "callback" THEN atKeycloak ELSE {None} :
        /\ req' = [req EXCEPT ![r] =
                     [NoRequest EXCEPT !.pc = "received", !.browser = b, !.kind = k,
                                       !.cookie = cookie[b], !.param = s,
                                       !.authed = HasToken(cookie[b])]]
        /\ atKeycloak' = atKeycloak \ {s}
  BY DEF Send, OneTab
<1>3. PICK new : new = [NoRequest EXCEPT !.pc = "received", !.browser = b, !.kind = k,
                                         !.cookie = cookie[b], !.param = s,
                                         !.authed = HasToken(cookie[b])]
  OBVIOUS
<1>4. /\ new.pc = "received" /\ new.kind = k /\ new.cookie = cookie[Tab] /\ new.param = s
      /\ ~ new.set /\ new.verdict = "none"
  BY <1>1, <1>3 DEF NoRequest
<1>5. req'[r] = new /\ \A q \in Requests : q # r => req'[q].pc = "idle"
  BY <1>1, <1>2, <1>3 DEF TypeOK
<1>6. k = "callback" => s \in atKeycloak /\ s \in States /\ s \notin codeUsed
  BY <1>1, <1>2 DEF TypeOK, TabInv, BaseInv
<1>7. atKeycloak' = {}
  <2>1. CASE k = "callback"
    BY <1>2, <1>6, <2>1 DEF TabInv, BaseInv
  <2>2. CASE k # "callback"
    BY <1>1, <1>2, <2>2 DEF TabInv, BaseInv, Follows
  <2> QED
    BY <2>1, <2>2
<1>8. Underway(req[r])'
  BY <1>1, <1>4, <1>5, <1>6 DEF Underway, StepsOf, Follows, browser
<1>9. calm' = calm /\ (Due' <=> Due)
  BY <1>1 DEF Count, Arrives, Due, browser
<1>10. /\ \A t : Holds(cookie[Tab], t)' <=> Holds(cookie[Tab], t)
       /\ Live(cookie[Tab])' <=> Live(cookie[Tab])
  BY <1>1 DEF Holds, Live, store, browser
<1>11. calm >= 1 => GoesWell(req[r])'
  <2> SUFFICES ASSUME calm >= 1 PROVE GoesWell(req[r])'
    OBVIOUS
  <2>1. new.kind = "callback" => Holds(new.cookie, new.param)'
    <3>1. k = "callback" => Holds(cookie[Tab], s)
      BY <1>6 DEF TabInv, CalmInv
    <3> QED
      BY <1>1, <1>4, <1>10, <3>1 DEF browser, Holds, store
  <2>2. Due' => Live(new.cookie)'
    BY <1>1, <1>4, <1>5, <1>9 DEF Live, store, TabInv, CalmInv
  <2>3. new.cookie = cookie'[Tab]
    BY <1>1, <1>4 DEF browser
  <2>4. new.kind = "callback" => CallbackGoesWell(req[r])'
    BY <1>4, <1>5, <2>1 DEF CallbackGoesWell, Holds
  <2>5. PageGoesWell(req[r])'
    BY <1>4, <1>5, <2>2 DEF PageGoesWell, Live
  <2> QED
    BY <1>4, <1>5, <2>3, <2>4, <2>5 DEF GoesWell, LoginGoesWell
<1>12. BaseInv'
  <2>1. \A q \in Requests : req'[q].pc # "idle" => q = r
    BY <1>5
  <2>2. \A q \in Requests : req'[q].pc # "idle" => Underway(req[q])'
    BY <1>8, <2>1
  <2> QED
    BY <1>1, <1>7, <2>1, <2>2 DEF TabInv, BaseInv, states
<1>13. CalmInv'
  <2>1. \A q \in Requests : calm >= 1 /\ req'[q].pc # "idle" => GoesWell(req[q])'
    BY <1>5, <1>11
  <2>2. calm' \in 0 .. Enough /\ calm' <= Rank(last'[Tab])
    BY <1>1, <1>9 DEF TabInv, CalmInv, browser
  <2>3. Due' => Live(cookie[Tab])'
    BY <1>9, <1>10 DEF TabInv, CalmInv
  <2> QED
    BY <1>7, <1>9, <2>1, <2>2, <2>3 DEF CalmInv
<1> QED
  BY <1>12, <1>13 DEF TabInv

\* An answer brings the tab one rank on, from wherever it is.
LEMMA DeliverTab ==
  ASSUME OneTab, IInv, TabInv, Count, NEW r \in Requests, Deliver(r)
  PROVE  TabInv'
<1>1. /\ req[r].pc = "responded" /\ req[r] \in RequestType /\ TypeOK /\ Underway(req[r])
      /\ req[r].browser = Tab /\ atKeycloak = {} /\ Tab \in Browsers
      /\ \A q \in Requests : q # r => req[q].pc = "idle"
  BY UnderwayFacts, TabFacts DEF Deliver
<1>2. PICK rec : rec = req[r]
  OBVIOUS
<1>3. /\ cookie' = IF rec.set THEN [cookie EXCEPT ![Tab] = rec.to] ELSE cookie
      /\ last' = [last EXCEPT ![Tab] = rec.verdict]
      /\ atKeycloak' = IF rec.verdict = "authorize" THEN {rec.param} ELSE {}
      /\ req' = [req EXCEPT ![r] = NoRequest]
      /\ UNCHANGED <<store, states, codeUsed, nextToken, expired, trouble>>
  BY <1>1, <1>2 DEF Deliver, OneTab
<1>4. /\ last'[Tab] = rec.verdict /\ cookie'[Tab] = IF rec.set THEN rec.to ELSE cookie[Tab]
      /\ req'[r].pc = "idle" /\ \A q \in Requests : req'[q].pc = "idle"
  BY <1>1, <1>3 DEF TypeOK, NoRequest
<1>5. calm \in 0 .. 5 /\ calm <= Rank(last[Tab]) /\ calm' = IF calm < 5 THEN calm + 1 ELSE 5
  <2>1. Arrives
    BY <1>1, <1>4 DEF Arrives
  <2>2. trouble' = trouble
    BY <1>3
  <2> QED
    BY <2>1, <2>2 DEF Count, TabInv, CalmInv, Enough
<1>6. BaseInv'
  <2>1. Idle'
    BY <1>4 DEF Idle
  <2>2. rec.verdict = "authorize" => rec.param \notin codeUsed
    BY <1>1, <1>2 DEF Underway
  <2> QED
    BY <1>3, <1>4, <2>1, <2>2 DEF TabInv, BaseInv, states
<1>7. rec.verdict = "authorize" => Holds(cookie[Tab], rec.param)'
  <2>1. rec.verdict = "authorize" => rec.set /\ Holds(rec.to, rec.param)
    BY <1>1, <1>2 DEF Underway
  <2> QED
    BY <1>3, <1>4, <2>1 DEF Holds, store
<1>8. CASE calm = 0
  <2>1. calm' = 1 /\ ~ Due'
    BY <1>5, <1>8 DEF Due
  <2>2. Rank(last'[Tab]) \in 1 .. 5
    BY RankFacts
  <2>3. \A q \in Requests : req'[q].pc = "idle"
    BY <1>4
  <2>4. \A s \in atKeycloak' : Holds(cookie[Tab], s)'
    BY <1>3, <1>7
  <2> QED
    BY <1>6, <2>1, <2>2, <2>3, <2>4 DEF TabInv, CalmInv, Enough
<1>9. CASE calm >= 1
  <2>1. GoesWell(rec) /\ (Due => rec.kind = "page" /\ rec.verdict = "served")
    BY <1>1, <1>2, <1>9, UnderwayFacts DEF TabInv, CalmInv, GoesWell, PageGoesWell
  <2>2. \/ rec.kind = "login" /\ rec.verdict = "authorize" /\ last[Tab] = "login"
        \/ rec.kind = "callback" /\ rec.verdict = "home" /\ last[Tab] = "authorize"
        \/ rec.kind = "page" /\ rec.verdict = "served"
        \/ rec.kind = "page" /\ rec.verdict = "login" /\ ~ Due
             /\ last[Tab] \notin {"login", "authorize"}
    BY <1>1, <1>2, <2>1 DEF Underway, Follows, GoesWell, LoginGoesWell, CallbackGoesWell,
       PageGoesWell
  <2>3. calm' <= Rank(last'[Tab])
    <3>1. CASE rec.verdict = "served"
      BY <1>4, <1>5, <3>1 DEF Rank
    <3>2. CASE rec.verdict = "home" /\ last[Tab] = "authorize"
      BY <1>4, <1>5, <3>2 DEF Rank
    <3>3. CASE rec.verdict = "authorize" /\ last[Tab] = "login"
      BY <1>4, <1>5, <3>3 DEF Rank
    <3>4. CASE rec.verdict = "login" /\ ~ Due /\ last[Tab] \notin {"login", "authorize"}
      BY <1>4, <1>5, <3>4 DEF Rank, Due
    <3> QED
      BY <2>2, <3>1, <3>2, <3>3, <3>4
  <2>4. Due' => Live(cookie[Tab])'
    <3> SUFFICES ASSUME Due' PROVE Live(cookie[Tab])'
      OBVIOUS
    <3>1. rec.verdict \in {"home", "served"}
      BY <1>4 DEF Due
    <3>2. Live(IF rec.set THEN rec.to ELSE rec.cookie) /\ rec.cookie = cookie[Tab]
      BY <1>1, <1>2, <2>1, <2>2, <3>1 DEF GoesWell, CallbackGoesWell, PageGoesWell
    <3> QED
      BY <1>3, <1>4, <3>2 DEF Live, store
  <2>5. calm' \in 0 .. Enough
    BY <1>5 DEF Enough
  <2>6. \A s \in atKeycloak' : Holds(cookie[Tab], s)'
    BY <1>3, <1>7
  <2>7. \A q \in Requests : req'[q].pc = "idle"
    BY <1>4
  <2> QED
    BY <1>6, <2>3, <2>4, <2>5, <2>6, <2>7 DEF TabInv, CalmInv
<1> QED
  BY <1>5, <1>8, <1>9

\* A step that fails ends the request with an error, or with the session to be
\* erased.
LEMMA FailTab ==
  ASSUME OneTab, IInv, TabInv, Count, NEW r \in Requests, Fail(r)
  PROVE  TabInv'
<1>1. /\ trouble' = trouble + 1 /\ req[r].pc # "idle"
      /\ UNCHANGED <<browser, store, states, keycloak>>
  BY DEF Fail, Trouble
<1>2. /\ Underway(req[r]) /\ atKeycloak = {} /\ req[r] \in RequestType /\ TypeOK
      /\ \A q \in Requests : q # r => req[q].pc = "idle"
  BY <1>1, UnderwayFacts
<1>3. ASSUME NEW new, req' = [req EXCEPT ![r] = new],
             new.kind = req[r].kind, new.param = req[r].param,
             \/ new.pc = "clear" /\ new.kind = "page" /\ new.verdict = req[r].verdict
                /\ new.set = req[r].set /\ new.to = req[r].to
             \/ new.pc = "responded" /\ new.verdict \in {"error", "login"}
      PROVE  TabInv'
  <2>1. req'[r] = new /\ \A q \in Requests : q # r => req'[q].pc = "idle"
    BY <1>2, <1>3 DEF TypeOK
  <2>2. Underway(req[r])'
    BY <1>1, <1>2, <1>3, <2>1 DEF Underway, StepsOf, Holds, browser, store, keycloak
  <2>3. BaseInv'
    <3>1. \A q \in Requests : req'[q].pc # "idle" => q = r
      BY <2>1
    <3>2. \A q \in Requests : req'[q].pc # "idle" => Underway(req[q])'
      BY <2>2, <3>1
    <3> QED
      BY <1>1, <1>2, <3>1, <3>2 DEF TabInv, BaseInv, states, keycloak
  <2> QED
    BY <1>1, <2>3, TroubleStep
<1>4. CASE req' = [req EXCEPT ![r].pc = "clear"] /\ req[r].kind = "page"
  <2>1. PICK new : new = [req[r] EXCEPT !.pc = "clear"]
    OBVIOUS
  <2>2. /\ new.pc = "clear" /\ new.kind = req[r].kind /\ new.param = req[r].param
        /\ new.verdict = req[r].verdict /\ new.set = req[r].set /\ new.to = req[r].to
    BY <1>2, <2>1 DEF RequestType
  <2>3. req' = [req EXCEPT ![r] = new]
    BY <1>2, <1>4, <2>1 DEF TypeOK
  <2> QED
    BY <1>3, <1>4, <2>2, <2>3
<1>5. ASSUME NEW v \in {"error", "login"}, Respond(r, v)
      PROVE  TabInv'
  <2>1. PICK new : new = Responding(req[r], v)
    OBVIOUS
  <2>2. new.pc = "responded" /\ new.verdict = v /\ Alike(new, req[r])
    BY <1>2, <2>1, RespondingChanges DEF Verdicts
  <2>3. req' = [req EXCEPT ![r] = new]
    BY <1>2, <1>5, <2>1 DEF Respond, TypeOK
  <2> QED
    BY <1>3, <1>5, <2>2, <2>3 DEF Alike
<1>6. \/ req' = [req EXCEPT ![r].pc = "clear"] /\ req[r].kind = "page"
      \/ Respond(r, "error") \/ Respond(r, "login")
  BY <1>2 DEF Fail, Underway, StepsOf, Protected
<1> QED
  BY <1>4, <1>5, <1>6

\* A tab whose request is lost has an error page before it; one that has none
\* under way has lost nothing.
LEMMA LostTab ==
  ASSUME OneTab, IInv, TabInv, Count, NEW rs \in SUBSET Requests, Lost(rs),
         \A r \in Requests : req[r].pc # "idle" => r \in rs,
         trouble' = trouble + 1, UNCHANGED <<states, atKeycloak, codeUsed, nextToken, expired>>
  PROVE  TabInv'
<1>1. TypeOK /\ Tab \in Browsers
  BY TabFacts DEF IInv
<1>2. \A r \in Requests : req'[r].pc = "idle"
  <2>1. NoRequest.pc = "idle"
    BY DEF NoRequest
  <2> QED
    BY <2>1 DEF Lost
<1>3. Idle => last'[Tab] = last[Tab]
  BY <1>1 DEF Idle, Lost
<1>4. Idle'
  BY <1>2 DEF Idle
<1>5. BaseInv'
  BY <1>2, <1>3, <1>4 DEF TabInv, BaseInv, states
<1> QED
  BY <1>5, TroubleStep

LEMMA DropTab ==
  ASSUME OneTab, IInv, TabInv, Count, NEW r \in Requests, Drop(r)
  PROVE  TabInv'
<1>1. /\ req[r].pc # "idle" /\ trouble' = trouble + 1 /\ Lost({r})
      /\ UNCHANGED <<states, keycloak>>
  BY DEF Drop, Trouble
<1>2. \A q \in Requests : req[q].pc # "idle" => q \in {r}
  BY <1>1, UnderwayFacts
<1> QED
  BY <1>1, <1>2, LostTab DEF keycloak

LEMMA RestartTab ==
  ASSUME OneTab, IInv, TabInv, Count, Restart
  PROVE  TabInv'
<1>1. /\ trouble' = trouble + 1 /\ Lost(Requests)
      /\ UNCHANGED <<states, atKeycloak, codeUsed, nextToken, expired>>
  BY DEF Restart, Trouble
<1> QED
  BY <1>1, LostTab

\* What goes wrong elsewhere leaves the request under way as it is.
LEMMA ElsewhereTab ==
  ASSUME OneTab, IInv, TabInv, Count, trouble' = trouble + 1,
         UNCHANGED <<last, store, req, states, atKeycloak, codeUsed, nextToken>>,
         \A g \in expired' : g < nextToken
  PROVE  TabInv'
<1>1. \A r \in Requests : req[r].pc # "idle" => Underway(req[r])'
  BY DEF TabInv, BaseInv, Underway, Holds, store
<1>2. Idle' <=> Idle
  BY DEF Idle
<1>3. BaseInv'
  BY <1>1, <1>2 DEF TabInv, BaseInv, states
<1> QED
  BY <1>3, TroubleStep

LEMMA OtherTroubleTab ==
  ASSUME OneTab, IInv, TabInv, Count,
         \/ \E b \in Browsers : Forget(b) \/ EndSession(b)
         \/ \E g \in Tokens : Expire(g)
  PROVE  TabInv'
<1>1. /\ trouble' = trouble + 1
      /\ UNCHANGED <<last, store, req, states, atKeycloak, codeUsed, nextToken>>
  BY DEF Forget, EndSession, Expire, Trouble, browser, keycloak
<1>2. \A g \in expired' : g < nextToken
  BY DEF Forget, EndSession, Expire, keycloak, TabInv, BaseInv
<1> QED
  BY <1>1, <1>2, ElsewhereTab

\* A step that changes nothing of what it speaks of is none to be counted.
LEMMA QuietTab ==
  ASSUME TabInv, UNCHANGED <<browser, store, req, states, atKeycloak, codeUsed, nextToken,
                             expired, calm>>
  PROVE  TabInv'
<1>1. /\ Due' <=> Due
      /\ Idle' <=> Idle
      /\ Live(cookie[Tab])' <=> Live(cookie[Tab])
      /\ \A s : Holds(cookie[Tab], s)' <=> Holds(cookie[Tab], s)
  BY DEF Due, Idle, Live, Holds, browser, store
<1>2. \A r \in Requests : Underway(req[r])' <=> Underway(req[r])
  BY DEF Underway, Holds, browser, store
<1>3. \A r \in Requests : GoesWell(req[r])' <=> GoesWell(req[r])
  BY <1>1 DEF GoesWell, LoginGoesWell, CallbackGoesWell, PageGoesWell, Live, Holds, browser,
     store
<1>4. BaseInv'
  BY <1>1, <1>2 DEF TabInv, BaseInv, browser, states
<1>5. CalmInv'
  BY <1>1, <1>3 DEF TabInv, CalmInv, browser
<1> QED
  BY <1>4, <1>5 DEF TabInv

LEMMA CacheExpiresTab ==
  ASSUME OneTab, IInv, TabInv, Count, NEW g \in Tokens, CacheExpires(g)
  PROVE  TabInv'
<1>1. UNCHANGED <<browser, store, req, states, atKeycloak, codeUsed, nextToken, expired,
                  trouble>>
  BY DEF CacheExpires
<1>2. calm' = calm
  BY <1>1 DEF Count, Arrives
<1> QED
  BY <1>1, <1>2, QuietTab

---------------------------------------------------------------------------

LEMMA InitTab ==
  ASSUME OneTab, TabInit
  PROVE  IInv /\ TabInv
<1>1. Init /\ calm = 0 /\ IInv
  BY InitInv DEF TabInit
<1>2. \A r \in Requests : req[r].pc = "idle"
  BY <1>1 DEF Init, NoRequest
<1>3. Rank(last[Tab]) \in 1 .. 5
  BY RankFacts
<1>4. BaseInv
  BY <1>1, <1>2 DEF Init, BaseInv
<1>5. CalmInv
  BY <1>1, <1>3 DEF CalmInv, Due, Enough
<1> QED
  BY <1>1, <1>4, <1>5 DEF TabInv

LEMMA NextTab ==
  ASSUME OneTab, IInv, TabInv, [TabNext]_tabVars
  PROVE  IInv' /\ TabInv'
<1>1. IInv'
  BY NextInv DEF TabNext, tabVars
<1> SUFFICES TabInv'
  BY <1>1
<1>2. CASE UNCHANGED tabVars
  BY <1>2, QuietTab DEF tabVars, vars, keycloak
<1>3. CASE Next /\ Count
  <2>1. CASE \E r \in Requests : Handle(r)
    BY <1>3, <2>1, LoginLoadTab, LoginSaveTab, CallbackLoadTab, CallbackClearStateTab,
       CallbackExchangeTab, CallbackSaveTokenTab, AuthLoadTab, AuthRefreshTab,
       AuthSaveTokenTab, AuthClearTab, OtherHandlersTab DEF Handle
  <2>2. CASE \E r \in Requests : Deliver(r) \/ Fail(r) \/ Drop(r)
    BY <1>3, <2>2, DeliverTab, FailTab, DropTab
  <2>3. CASE \E r \in Requests, b \in Browsers, k \in Kinds : Send(r, b, k)
    BY <1>3, <2>3, SendTab
  <2>4. CASE \E b \in Browsers : Forget(b) \/ EndSession(b)
    BY <1>3, <2>4, OtherTroubleTab
  <2>5. CASE \E g \in Tokens : Expire(g) \/ CacheExpires(g)
    BY <1>3, <2>5, OtherTroubleTab, CacheExpiresTab
  <2>6. CASE Restart
    BY <1>3, <2>6, RestartTab
  <2> QED
    BY <1>3, <2>1, <2>2, <2>3, <2>4, <2>5, <2>6 DEF Next
<1> QED
  BY <1>2, <1>3 DEF TabNext

\* However the cookie, the file, the token and Keycloak's session of a lone tab
\* have been damaged, five answers of HandleLogin, HandleCallback and
\* AuthRequired later it is back at its page, and it stays there as long as
\* nothing goes wrong again.
THEOREM BackAtThePage == OneTab /\ TabSpec => []BackInFive
<1>1. OneTab /\ TabInit => OneTab /\ IInv /\ TabInv
  BY InitTab
<1>2. OneTab /\ IInv /\ TabInv /\ [TabNext]_tabVars => (OneTab /\ IInv /\ TabInv)'
  BY NextTab DEF OneTab
<1>3. OneTab /\ TabInv => BackInFive
  <2> SUFFICES ASSUME OneTab, TabInv, calm = 5, NEW b \in Browsers
               PROVE  last[b] = "served"
    BY DEF BackInFive, Enough
  <2>1. Rank(last[Tab]) \in 1 .. 5 /\ calm <= Rank(last[Tab])
    BY RankFacts DEF TabInv, CalmInv
  <2>2. last[Tab] = "served"
    BY <2>1, RankFacts
  <2> QED
    BY <2>2, TabFacts
<1> QED
  BY <1>1, <1>2, <1>3, PTL DEF TabSpec
=============================================================================
