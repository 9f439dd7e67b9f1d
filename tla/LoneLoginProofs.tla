-------------------------- MODULE LoneLoginProofs --------------------------
(***************************************************************************)
(* The proof that the only login of a browser is not lost: NoLoginIsLost   *)
(* of AuthSessions, for any browsers, any number of requests and of logins *)
(* of other browsers, either store, and callbacks opened anywhere and as   *)
(* often as anybody likes.                                                 *)
(***************************************************************************)
EXTENDS AuthSessionsProofs

\* What a login needs of the constants. The run sessions_tabs adds restarts.
Undisturbed ==
  /\ InCookie \/ ~ SessionOnly
  /\ "logout" \notin Kinds
  /\ Troubles \subseteq {"expire", "end", "drop"}

---------------------------------------------------------------------------
(* The inductive invariant, on top of IInv. *)

\* The session behind ck waits for the callback with state s.
Holds(ck, s) == Readable(ck) /\ Loaded(ck).state = s

\* b has started a login, b has been given a token set.
HasBegun(b)   == \E s \in States : StateOf(b, s)
HasGotToken(b) == \E g \in Tokens : TokenOf(b, g)

\* Where a request is only if its session had a token, or it has got one.
WithToken == {"refresh", "introspect", "saveToken", "clear", "ssoLoad", "saveSSO"}

\* Who saves a session has begun a login.
Proper(rec) ==
  /\ rec.kind # "logout"
  /\ rec.kind = "callback" => rec.param \in States /\ rec.param < nextState
  /\ rec.pc = "saveState" => rec.kind = "login" /\ rec.snap.state = rec.param
  /\ rec.pc = "saveState" \/ rec.verdict = "authorize" => StateOf(rec.browser, rec.param)
  /\ rec.pc \in WithToken => HasGotToken(rec.browser)
  /\ rec.set => HasBegun(rec.browser)

\* The login of s has begun and its callback has not come through yet.
Lone(s) == s < nextState /\ OnlyLogin(s) /\ ~ Taken(s)

\* While it has not, a request of its browser only brings it on: it sets the
\* cookie only with s in the session, and a callback with s finds s there.
BringsOn(s, rec) ==
  /\ rec.verdict = "authorize" <=> rec.set
  /\ rec.set => Holds(rec.to, s)
  /\ rec.kind = "callback" /\ rec.param = s =>
       /\ rec.pc = "received" => Holds(rec.cookie, s)
       /\ rec.verdict # "error"

Ready(s) ==
  /\ \A r \in Requests : req[r].browser = startedBy[s] => BringsOn(s, req[r])
  /\ s \in atKeycloak => Holds(cookie[startedBy[s]], s)

LoneInv ==
  /\ \A r \in Requests : Proper(req[r])
  /\ \A s \in atKeycloak : s < nextState
  /\ \A g \in Tokens : g < nextToken => flow[g] \in codeUsed
  /\ torn = {}
  /\ \A s \in States : Lone(s) => Ready(s)
---------------------------------------------------------------------------
(* What holds before a step. *)

USE StoreAssumption, KindsAssumption, PartiesAssumption, BoundsAssumption
USE DEF StoreAssumption, KindsAssumption, PartiesAssumption, BoundsAssumption

\* The only login is the only one.
LEMMA OneOfIts ==
  ASSUME TypeOK, NEW s \in States, OnlyLogin(s), NEW t \in States, StateOf(startedBy[s], t)
  PROVE  t = s
BY DEF StateOf, OnlyLogin, States, TypeOK

\* A browser whose only login has not come through has no token anywhere.
LEMMA NoTokenYet ==
  ASSUME IInv, LoneInv, NEW s \in States, Lone(s)
  PROVE  ~ HasGotToken(startedBy[s])
<1> SUFFICES ASSUME NEW g \in Tokens, TokenOf(startedBy[s], g) PROVE FALSE
  BY DEF HasGotToken
<1>1. flow[g] \in States /\ StateOf(startedBy[s], flow[g]) /\ flow[g] \in codeUsed
  BY DEF TokenOf, StateOf, IInv, FlowInv, LoneInv
<1>2. flow[g] = s
  BY <1>1, OneOfIts DEF IInv, Lone
<1> QED
  BY <1>1, <1>2 DEF Lone, Taken

\* Without a session there is no state.
LEMMA HoldsFacts ==
  ASSUME TypeOK, NEW s \in States, NEW ck \in Cookies, Holds(ck, s), ~ InCookie
  PROVE  ck.id \in DOMAIN files \ torn /\ files[ck.id].state = s
<1>1. s # None /\ NoValues.state = None
  BY DEF States, None, NoValues
<1> QED
  BY <1>1 DEF Holds, Loaded, Readable

\* What a request has is what it had, as long as logins and tokens only get more.
LEMMA ProperLasts ==
  ASSUME TypeOK, FlowInv, Grows, TypeOK', NEW rec \in RequestType, Proper(rec)
  PROVE  Proper(rec)'
<1>1. \A s \in States : StateOf(rec.browser, s) => StateOf(rec.browser, s)'
  BY MineLasts DEF RequestType
<1>2. \A g \in Tokens : TokenOf(rec.browser, g) => TokenOf(rec.browser, g)'
  BY MineLasts DEF RequestType
<1>3. /\ HasBegun(rec.browser) => HasBegun(rec.browser)'
      /\ HasGotToken(rec.browser) => HasGotToken(rec.browser)'
  BY <1>1, <1>2 DEF HasBegun, HasGotToken
<1>4. StateOf(rec.browser, rec.param) => StateOf(rec.browser, rec.param)'
  BY <1>1 DEF StateOf
<1>5. rec.kind = "callback" => (rec.param < nextState => rec.param < nextState')
  BY DEF RequestType, TypeOK, Grows, States, None
<1> QED
  BY <1>3, <1>4, <1>5 DEF Proper

---------------------------------------------------------------------------
(* The kinds of steps. *)

\* A step of one request, that starts no login, seen from the others. What
\* other browsers hold has to stay; what its own does, and what it holds itself,
\* has to bring the login on, if there is one to lose.
LEMMA LoneChange ==
  ASSUME IInv, LoneInv, TypeOK', Grows, NEW r \in Requests,
         \A q \in Requests : q # r => req'[q] = req[q],
         UNCHANGED states, codeUsed \subseteq codeUsed', torn' = {},
         \A g \in Tokens : g < nextToken' => flow'[g] \in codeUsed',
         Proper(req[r])',
         req[r].pc = "exchange" =>
           \/ req[r].param \in codeUsed'
           \/ req'[r].pc = "exchange" /\ req'[r].param = req[r].param,
         NEW o \in [IDs -> Browsers], Owned(o),
         \A s \in States, ck \in Cookies :
           Lone(s) /\ Lone(s)' /\ IdOf(o, startedBy[s], ck.id) /\ Holds(ck, s) => Holds(ck, s)',
         \A s \in States :
           Lone(s) /\ Lone(s)' /\ req'[r].browser = startedBy[s] => BringsOn(s, req[r])',
         \A s \in atKeycloak' :
           s < nextState /\ (Lone(s) /\ Lone(s)' => Holds(cookie[startedBy[s]], s)')
  PROVE  LoneInv'
<1>1. TypeOK /\ FlowInv
  BY DEF IInv
<1>2. ASSUME NEW q \in Requests PROVE Proper(req[q])'
  <2>1. CASE q = r
    BY <2>1
  <2>2. CASE q # r
    <3>1. PICK rec \in RequestType : rec = req[q]
      BY <1>1 DEF TypeOK
    <3>2. Proper(rec)
      BY <3>1 DEF LoneInv
    <3>3. Proper(rec)'
      BY <1>1, <3>2, ProperLasts
    <3> QED
      BY <2>2, <3>1, <3>3 DEF Proper
  <2> QED
    BY <2>1, <2>2
<1>3. ASSUME NEW s \in States, Lone(s)' PROVE Lone(s)
  <2>1. ASSUME Taken(s) PROVE Taken(s)'
    <3>1. CASE s \in codeUsed
      BY <3>1 DEF Taken
    <3>2. CASE \E q \in Requests : req[q].param = s /\ req[q].pc = "exchange"
      <4>1. PICK q \in Requests : req[q].param = s /\ req[q].pc = "exchange"
        BY <3>2
      <4>2. s \in codeUsed' \/ (req'[q].param = s /\ req'[q].pc = "exchange")
        BY <4>1
      <4> QED
        BY <4>2 DEF Taken
    <3> QED
      BY <2>1, <3>1, <3>2 DEF Taken
  <2>2. OnlyLogin(s) <=> OnlyLogin(s)'
    BY DEF OnlyLogin, states
  <2> QED
    BY <1>3, <2>1, <2>2 DEF Lone, states
<1>4. ASSUME NEW s \in States, Lone(s)' PROVE Ready(s)'
  <2>1. Lone(s) /\ Ready(s) /\ startedBy'[s] = startedBy[s] /\ startedBy[s] \in Browsers
    BY <1>1, <1>3, <1>4 DEF LoneInv, states, TypeOK
  <2>2. ASSUME NEW q \in Requests, req'[q].browser = startedBy[s] PROVE BringsOn(s, req[q])'
    <3>1. CASE q = r
      BY <1>4, <2>1, <2>2, <3>1
    <3>2. CASE q # r
      <4>1. PICK rec \in RequestType : rec = req[q]
        BY <1>1 DEF TypeOK
      <4>2. BringsOn(s, rec) /\ rec.browser = startedBy[s]
        BY <2>1, <2>2, <3>2, <4>1 DEF Ready
      <4>3. /\ rec.to \in Cookies /\ IdOf(o, startedBy[s], rec.to.id)
            /\ rec.cookie \in Cookies /\ IdOf(o, startedBy[s], rec.cookie.id)
        BY <4>1, <4>2 DEF Owned, Keeps, RequestType
      <4>4. /\ Holds(rec.to, s) => Holds(rec.to, s)'
            /\ Holds(rec.cookie, s) => Holds(rec.cookie, s)'
        BY <1>4, <2>1, <4>3
      <4>5. BringsOn(s, rec)'
        BY <4>2, <4>4 DEF BringsOn
      <4> QED
        BY <3>2, <4>1, <4>5 DEF BringsOn
    <3> QED
      BY <3>1, <3>2
  <2>3. ASSUME s \in atKeycloak' PROVE Holds(cookie[startedBy[s]], s)'
    <3>1. Holds(cookie[startedBy[s]], s)'
      BY <1>4, <2>1, <2>3
    <3> QED
      BY <2>1, <3>1 DEF Holds
  <2> QED
    BY <2>1, <2>2, <2>3 DEF Ready
<1>5. \A s \in atKeycloak' : s < nextState'
  BY DEF states
<1> QED
  BY <1>2, <1>4, <1>5 DEF LoneInv

\* The same when no response arrives.
LEMMA LoneStep ==
  ASSUME IInv, LoneInv, TypeOK', Grows, NEW r \in Requests,
         \A q \in Requests : q # r => req'[q] = req[q],
         UNCHANGED <<cookie, states>>,
         codeUsed \subseteq codeUsed', atKeycloak' \subseteq atKeycloak, torn' = {},
         \A g \in Tokens : g < nextToken' => flow'[g] \in codeUsed',
         Proper(req[r])',
         req[r].pc = "exchange" =>
           \/ req[r].param \in codeUsed'
           \/ req'[r].pc = "exchange" /\ req'[r].param = req[r].param,
         NEW o \in [IDs -> Browsers], Owned(o),
         \A s \in States, ck \in Cookies :
           Lone(s) /\ Lone(s)' /\ IdOf(o, startedBy[s], ck.id) /\ Holds(ck, s) => Holds(ck, s)',
         \A s \in States :
           Lone(s) /\ Lone(s)' /\ req'[r].browser = startedBy[s] => BringsOn(s, req[r])'
  PROVE  LoneInv'
<1>1. ASSUME NEW s \in atKeycloak'
      PROVE  s < nextState /\ (Lone(s) /\ Lone(s)' => Holds(cookie[startedBy[s]], s)')
  <2>1. s \in States /\ s \in atKeycloak /\ s < nextState /\ startedBy[s] \in Browsers
    BY DEF LoneInv, IInv, TypeOK
  <2>2. ASSUME Lone(s), Lone(s)' PROVE Holds(cookie[startedBy[s]], s)'
    <3>1. PICK ck \in Cookies : ck = cookie[startedBy[s]]
      BY <2>1 DEF IInv, TypeOK
    <3>2. Holds(ck, s) /\ IdOf(o, startedBy[s], ck.id)
      BY <2>1, <2>2, <3>1 DEF LoneInv, Ready, Owned
    <3>3. Holds(ck, s)'
      BY <2>1, <2>2, <3>2
    <3>4. cookie'[startedBy'[s]] = ck
      BY <3>1 DEF states
    <3> QED
      BY <3>1, <3>3, <3>4 DEF Holds, states
  <2> QED
    BY <2>1, <2>2
<1> QED
  BY <1>1, LoneChange

\* A step that writes no session, of a request that has not answered yet.
LEMMA LoneQuiet ==
  ASSUME IInv, LoneInv, TypeOK', Grows, NEW r \in Requests, NEW new,
         req' = [req EXCEPT ![r] = new],
         UNCHANGED <<cookie, store, states, atKeycloak>>,
         codeUsed \subseteq codeUsed',
         \A g \in Tokens : g < nextToken' => flow'[g] \in codeUsed',
         /\ new.browser = req[r].browser /\ new.kind = req[r].kind /\ new.param = req[r].param
         /\ new.cookie = req[r].cookie /\ new.set = req[r].set /\ new.to = req[r].to,
         req[r].verdict # "authorize", new.verdict # "authorize",
         new.pc \notin {"received", "saveState"},
         new.pc \in WithToken => HasGotToken(req[r].browser)',
         req[r].pc = "exchange" => req[r].param \in codeUsed',
         \A s \in States : /\ Lone(s) /\ req[r].browser = startedBy[s]
                           /\ req[r].kind = "callback" /\ req[r].param = s
                           => new.verdict # "error"
  PROVE  LoneInv'
<1>1. TypeOK /\ FlowInv
  BY DEF IInv
<1>2. req'[r] = new /\ \A q \in Requests : q # r => req'[q] = req[q]
  BY <1>1 DEF TypeOK
<1>3. PICK o \in [IDs -> Browsers] : Owned(o)
  BY DEF IInv, OwnerInv
<1>4. Proper(req[r])'
  <2>1. PICK rec \in RequestType : rec = req[r] /\ Proper(rec)
    BY <1>1 DEF TypeOK, LoneInv
  <2>2. Proper(rec)'
    BY <1>1, <2>1, ProperLasts
  <2>3. new.pc \in WithToken => HasGotToken(new.browser)'
    BY DEF HasGotToken, TokenOf
  <2> QED
    BY <1>2, <2>1, <2>2, <2>3 DEF Proper, HasBegun, StateOf
<1>5. \A s \in States, ck \in Cookies : Holds(ck, s) <=> Holds(ck, s)'
  BY DEF Holds, Readable, Loaded, store
<1>6. ASSUME NEW s \in States, Lone(s), req[r].browser = startedBy[s]
      PROVE  BringsOn(s, req[r])'
  <2>1. BringsOn(s, req[r])
    BY <1>6 DEF LoneInv, Ready
  <2>2. ~ new.set
    BY <2>1 DEF BringsOn
  <2> QED
    BY <1>2, <1>6, <2>2 DEF BringsOn
<1>7. torn' = {}
  BY DEF LoneInv, store
<1> QED
  BY <1>2, <1>3, <1>4, <1>5, <1>6, <1>7, LoneStep

\* Nothing grows but the session IDs.
LEMMA GrowsBySave ==
  ASSUME TypeOK, UNCHANGED <<states, keycloak>>, nextID' = nextID \/ nextID' = nextID + 1
  PROVE  Grows
BY DEF TypeOK, Grows, states, keycloak

\* Or the token sets.
LEMMA GrowsByIssue ==
  ASSUME TypeOK, UNCHANGED <<states, nextID>>,
         \/ UNCHANGED <<nextToken, flow>>
         \/ \E s : nextToken' = nextToken + 1 /\ flow' = [flow EXCEPT ![nextToken] = s]
  PROVE  Grows
BY DEF TypeOK, Grows, states, Tokens

\* A save changes no other browser's session, and if it changes the one that
\* holds the state of a lone login, it keeps the state.
LEMMA LoneSave ==
  ASSUME Undisturbed, IInv, LoneInv, TypeOK', NEW r \in Requests, NEW vals \in Values,
         NEW rec \in RequestType, Save(r, vals, rec),
         UNCHANGED <<browser, states, keycloak, trouble>>, Alike(rec, req[r]),
         rec.pc \notin {"received", "saveState"}, req[r].pc # "exchange",
         rec.pc \in WithToken => HasGotToken(req[r].browser),
         HasBegun(req[r].browser),
         rec.verdict = "authorize" => StateOf(req[r].browser, req[r].param),
         \A s \in States :
           Lone(s) /\ Lone(s)' /\ req[r].browser = startedBy[s] =>
             vals.state = s /\ rec.verdict = "authorize" /\ req[r].kind # "callback"
  PROVE  LoneInv'
<1>1. TypeOK /\ FlowInv /\ torn = {} /\ Proper(req[r])
  BY DEF IInv, LoneInv
<1>2. PICK o \in [IDs -> Browsers] : Owned(o)
  BY DEF IInv, OwnerInv
<1>3. Write(r, vals, rec)
  BY DEF Save, Undisturbed
<1>4. PICK id : id = IF ~ InCookie /\ req[r].id = None THEN nextID ELSE req[r].id
  OBVIOUS
<1>5. PICK ck : ck = IF InCookie THEN [id |-> None, values |-> vals]
                     ELSE [id |-> id, values |-> NoValues]
  OBVIOUS
<1>6. PICK new : new = [rec EXCEPT !.id = id, !.snap = vals, !.set = TRUE, !.to = ck]
  OBVIOUS
<1>7. /\ files' = IF InCookie THEN files
                  ELSE [i \in DOMAIN files \cup {id} |-> IF i = id THEN vals ELSE files[i]]
      /\ torn' = torn \ {id}
      /\ nextID' = nextID \/ nextID' = nextID + 1
      /\ req' = [req EXCEPT ![r] = new]
  BY <1>3, <1>4, <1>5, <1>6 DEF Write
<1>8. req'[r] = new /\ \A q \in Requests : q # r => req'[q] = req[q]
  BY <1>1, <1>7 DEF TypeOK
<1>9. /\ new.pc = rec.pc /\ new.verdict = rec.verdict /\ new.set /\ new.to = ck
      /\ new.browser = req[r].browser /\ new.kind = req[r].kind /\ new.param = req[r].param
  BY <1>6 DEF Alike, RequestType
<1>10. Grows /\ torn' = {} /\ atKeycloak' = atKeycloak /\ codeUsed' = codeUsed
  BY <1>1, <1>7, GrowsBySave DEF keycloak
<1>11. \A g \in Tokens : g < nextToken' => flow'[g] \in codeUsed'
  BY DEF LoneInv, keycloak
<1>12. Proper(req[r])'
  <2>1. UNCHANGED <<nextState, startedBy, nextToken, flow>>
    BY DEF states, keycloak
  <2> QED
    BY <1>1, <1>8, <1>9, <2>1 DEF Proper, HasBegun, HasGotToken, StateOf, TokenOf
<1>13. ASSUME NEW s \in States, Lone(s), Lone(s)', req[r].browser = startedBy[s]
       PROVE  Holds(ck, s)'
  <2>1. vals.state = s /\ s # None
    BY <1>13 DEF States, None
  <2>2. CASE InCookie
    BY <1>5, <2>1, <2>2 DEF Holds, Readable, Loaded, InCookie
  <2>3. CASE ~ InCookie
    <3>1. ck.id = id /\ id # None /\ id \in DOMAIN files' /\ files'[id] = vals
      BY <1>1, <1>4, <1>5, <1>7, <2>3 DEF TypeOK, None
    <3> QED
      BY <1>10, <2>1, <2>3, <3>1 DEF Holds, Readable, Loaded, InCookie
  <2> QED
    BY <2>2, <2>3
<1>14. ASSUME NEW s \in States, NEW c \in Cookies, Lone(s), Lone(s)',
              IdOf(o, startedBy[s], c.id), Holds(c, s)
       PROVE  Holds(c, s)'
  <2>1. CASE InCookie
    BY <1>14, <2>1 DEF Holds, Readable, Loaded, InCookie
  <2>2. CASE ~ InCookie
    <3>1. c.id \in DOMAIN files /\ files[c.id].state = s /\ c.id # None
      BY <1>1, <1>14, <2>2, HoldsFacts DEF TypeOK, IDs, None
    <3>2. c.id = id => req[r].browser = startedBy[s]
      <4>1. c.id < nextID /\ o[c.id] = startedBy[s] /\ nextID \in Int
        BY <1>1, <1>14, <3>1 DEF IdOf, TypeOK
      <4>2. IdOf(o, req[r].browser, req[r].id)
        BY <1>2 DEF Owned, Keeps
      <4> QED
        BY <1>4, <2>2, <3>1, <4>1, <4>2 DEF IdOf
    <3>3. c.id \in DOMAIN files' /\ files'[c.id].state = s
      <4>1. CASE c.id = id
        BY <1>7, <1>14, <2>2, <3>2, <4>1
      <4>2. CASE c.id # id
        BY <1>7, <2>2, <3>1, <4>2
      <4> QED
        BY <4>1, <4>2
    <3> QED
      BY <1>10, <2>2, <3>1, <3>3 DEF Holds, Readable, Loaded, InCookie
  <2> QED
    BY <2>1, <2>2
<1>15. ASSUME NEW s \in States, Lone(s), Lone(s)', req[r].browser = startedBy[s]
       PROVE  BringsOn(s, req[r])'
  <2>1. Holds(new.to, s)'
    BY <1>9, <1>13, <1>15 DEF Holds
  <2> QED
    BY <1>8, <1>9, <1>15, <2>1 DEF BringsOn, Holds
<1>16. req'[r].browser = req[r].browser /\ UNCHANGED <<cookie, states>>
  BY <1>8, <1>9 DEF browser
<1>17. \A s \in States, c \in Cookies :
         Lone(s) /\ Lone(s)' /\ IdOf(o, startedBy[s], c.id) /\ Holds(c, s) => Holds(c, s)'
  BY <1>14
<1>18. \A s \in States :
         Lone(s) /\ Lone(s)' /\ req[r].browser = startedBy[s] => BringsOn(s, req[r])'
  BY <1>15
<1> QED
  BY <1>2, <1>8, <1>10, <1>11, <1>12, <1>16, <1>17, <1>18, LoneStep

\* AuthRequired erases a session only of a browser that has got its token.
LEMMA LoneClear ==
  ASSUME IInv, LoneInv, TypeOK', NEW r \in Requests, AuthClear(r)
  PROVE  LoneInv'
<1>1. /\ TypeOK /\ FlowInv /\ torn = {} /\ Proper(req[r]) /\ req[r] \in RequestType
      /\ req[r].pc = "clear"
  BY DEF IInv, LoneInv, AuthClear, TypeOK
<1>2. PICK o \in [IDs -> Browsers] : Owned(o)
  BY DEF IInv, OwnerInv
<1>3. PICK rec : rec = Responding(req[r], "login")
  OBVIOUS
<1>4. PICK new : new = [rec EXCEPT !.set = TRUE, !.to = NoCookie]
  OBVIOUS
<1>5. /\ files' = [i \in DOMAIN files \ {req[r].id} |-> files[i]]
      /\ torn' = torn \ {req[r].id} /\ nextID' = nextID
      /\ req' = [req EXCEPT ![r] = new]
      /\ UNCHANGED <<browser, states, keycloak, trouble>>
  BY <1>3, <1>4 DEF AuthClear, Clear, Erase
<1>6. req'[r] = new /\ \A q \in Requests : q # r => req'[q] = req[q]
  BY <1>1, <1>5 DEF TypeOK
<1>7. /\ new.pc = "responded" /\ new.verdict = "login"
      /\ new.browser = req[r].browser /\ new.kind = req[r].kind /\ new.param = req[r].param
  BY <1>1, <1>3, <1>4 DEF Responding, RequestType
<1>8. HasGotToken(req[r].browser) /\ \A s \in States : Lone(s) => startedBy[s] # req[r].browser
  BY <1>1, NoTokenYet DEF Proper, WithToken
<1>9. Grows /\ torn' = {} /\ atKeycloak' = atKeycloak /\ codeUsed' = codeUsed
  BY <1>1, <1>5, GrowsBySave DEF keycloak
<1>10. \A g \in Tokens : g < nextToken' => flow'[g] \in codeUsed'
  BY <1>5 DEF LoneInv, keycloak
<1>11. Proper(req[r])'
  <2>1. UNCHANGED <<nextState, startedBy, nextToken, flow>>
    BY <1>5 DEF states, keycloak
  <2>2. HasBegun(req[r].browser)
    BY <1>8 DEF HasBegun, HasGotToken, TokenOf, StateOf, IInv, FlowInv
  <2> QED
    BY <1>1, <1>6, <1>7, <2>1, <2>2 DEF Proper, HasBegun, StateOf, WithToken
<1>12. ASSUME NEW s \in States, NEW c \in Cookies, Lone(s),
              IdOf(o, startedBy[s], c.id), Holds(c, s)
       PROVE  Holds(c, s)'
  <2>1. CASE InCookie
    BY <1>12, <2>1 DEF Holds, Readable, Loaded, InCookie
  <2>2. CASE ~ InCookie
    <3>1. c.id \in DOMAIN files /\ files[c.id].state = s /\ c.id # None
      BY <1>1, <1>12, <2>2, HoldsFacts DEF TypeOK, IDs, None
    <3>2. c.id # req[r].id
      BY <1>2, <1>8, <1>12, <3>1 DEF IdOf, Owned, Keeps
    <3>3. c.id \in DOMAIN files' /\ files'[c.id].state = s
      BY <1>5, <3>1, <3>2
    <3> QED
      BY <1>9, <2>2, <3>1, <3>3 DEF Holds, Readable, Loaded, InCookie
  <2> QED
    BY <2>1, <2>2
<1>13. /\ req'[r].browser = req[r].browser /\ UNCHANGED <<cookie, states>>
       /\ req[r].pc # "exchange"
  BY <1>1, <1>5, <1>6, <1>7 DEF browser
<1>14. /\ \A s \in States, c \in Cookies :
            Lone(s) /\ Lone(s)' /\ IdOf(o, startedBy[s], c.id) /\ Holds(c, s) => Holds(c, s)'
       /\ \A s \in States :
            Lone(s) /\ Lone(s)' /\ req[r].browser = startedBy[s] => BringsOn(s, req[r])'
  BY <1>8, <1>12
<1> QED
  BY <1>2, <1>6, <1>9, <1>10, <1>11, <1>13, <1>14, LoneStep
---------------------------------------------------------------------------
(* Every action preserves it. *)

\* A callback is sent with the session that holds its state, if it is its browser's.
LEMMA SendLone ==
  ASSUME Undisturbed, IInv, LoneInv, IInv', NEW r \in Requests, NEW b \in Browsers,
         NEW k \in Kinds, Send(r, b, k)
  PROVE  LoneInv'
<1>1. TypeOK /\ TypeOK'
  BY DEF IInv
<1>2. PICK s \in IF k = "callback" THEN atKeycloak ELSE {None} :
        /\ req' = [req EXCEPT ![r] =
                     [NoRequest EXCEPT !.pc = "received", !.browser = b, !.kind = k,
                                       !.cookie = cookie[b], !.param = s,
                                       !.authed = HasToken(cookie[b])]]
        /\ atKeycloak' = IF Replay THEN atKeycloak ELSE atKeycloak \ {s}
  BY DEF Send
<1>3. PICK new : new = [NoRequest EXCEPT !.pc = "received", !.browser = b, !.kind = k,
                                         !.cookie = cookie[b], !.param = s,
                                         !.authed = HasToken(cookie[b])]
  OBVIOUS
<1>4. req'[r] = new /\ \A q \in Requests : q # r => req'[q] = req[q]
  BY <1>1, <1>2, <1>3 DEF TypeOK
<1>5. /\ new.pc = "received" /\ new.kind = k /\ new.cookie = cookie[b] /\ new.browser = b
      /\ new.verdict = "none" /\ ~ new.set /\ new.param = s
  BY <1>3 DEF NoRequest
<1>6. /\ req[r].pc = "idle" /\ k # "logout" /\ UNCHANGED <<cookie, store, states>>
      /\ UNCHANGED <<nextToken, flow, codeUsed>> /\ atKeycloak' \subseteq atKeycloak
  BY <1>2 DEF Send, browser, Undisturbed
<1>7. PICK o \in [IDs -> Browsers] : Owned(o)
  BY DEF IInv, OwnerInv
<1>8. Proper(req[r])'
  <2>1. k = "callback" => s \in States /\ s < nextState
    BY <1>1, <1>2 DEF LoneInv, TypeOK
  <2>2. nextState' = nextState
    BY <1>6 DEF states
  <2> QED
    BY <1>4, <1>5, <1>6, <2>1, <2>2 DEF Proper, WithToken
<1>9. \A t \in States, ck \in Cookies : Holds(ck, t) <=> Holds(ck, t)'
  BY <1>6 DEF Holds, Readable, Loaded, store
<1>10. ASSUME NEW t \in States, Lone(t), req'[r].browser = startedBy[t]
       PROVE  BringsOn(t, req[r])'
  <2>1. ASSUME k = "callback", s = t PROVE Holds(cookie[b], t)
    <3>1. startedBy[t] = b /\ t \in atKeycloak
      BY <1>2, <1>4, <1>5, <1>10, <2>1
    <3> QED
      BY <1>10, <3>1 DEF LoneInv, Ready
  <2>2. k = "callback" /\ s = t => Holds(new.cookie, t)'
    BY <1>1, <1>5, <1>9, <2>1 DEF TypeOK, Holds
  <2> QED
    BY <1>4, <1>5, <2>2 DEF BringsOn, Holds
<1>11. Grows
  BY <1>1, <1>6, GrowsByIssue DEF store
<1>12. torn' = {} /\ \A g \in Tokens : g < nextToken' => flow'[g] \in codeUsed'
  BY <1>6 DEF LoneInv, store
<1> QED
  BY <1>1, <1>4, <1>6, <1>7, <1>8, <1>9, <1>10, <1>11, <1>12, LoneStep

\* HandleLogin begins a login: the first of its browser, which has saved
\* nothing before, or one that makes it no longer alone.
LEMMA LoginLoadLone ==
  ASSUME Undisturbed, IInv, LoneInv, IInv', NEW r \in Requests, LoginLoad(r)
  PROVE  LoneInv'
<1>1. TypeOK /\ TypeOK' /\ FlowInv /\ req[r] \in RequestType
  BY RequestFacts DEF IInv
<1>2. PICK b \in Browsers : b = req[r].browser
  BY RequestFacts
<1>3. PICK w : w = WithSession(r, "saveState")
  OBVIOUS
<1>4. /\ w \in RequestType /\ w.pc = "saveState" /\ w.browser = b /\ w.kind = req[r].kind
      /\ w.set = req[r].set /\ w.to = req[r].to /\ w.verdict = req[r].verdict
  <2>1. "saveState" \in PCs
    BY DEF PCs
  <2> QED
    BY <1>1, <1>2, <1>3, <2>1, WithSessionChanges
<1>5. PICK new : new = [w EXCEPT !.param = nextState, !.snap.state = nextState]
  OBVIOUS
<1>6. /\ new.pc = "saveState" /\ new.browser = b /\ new.kind = "login"
      /\ new.set = req[r].set /\ new.to = req[r].to /\ new.verdict = req[r].verdict
      /\ new.param = nextState /\ new.snap.state = nextState
  BY <1>4, <1>5 DEF RequestType, Values, LoginLoad, LoginReceived
<1>7. /\ req' = [req EXCEPT ![r] = new]
      /\ nextState' = nextState + 1 /\ startedBy' = [startedBy EXCEPT ![nextState] = b]
      /\ UNCHANGED <<browser, store, keycloak, trouble>>
  BY <1>2, <1>3, <1>5 DEF LoginLoad
<1>8. req'[r] = new /\ \A q \in Requests : q # r => req'[q] = req[q]
  BY <1>1, <1>7 DEF TypeOK
<1>9. nextState \in States
  BY <1>1, <1>7 DEF TypeOK, States
<1>10. /\ startedBy'[nextState] = b
       /\ \A s \in States : s # nextState => startedBy'[s] = startedBy[s]
  BY <1>1, <1>7, <1>9 DEF TypeOK
<1>11. Grows
  BY <1>1, <1>7, <1>10 DEF Grows, TypeOK, store, keycloak, States
<1>12. ASSUME NEW q \in Requests PROVE Proper(req[q])'
  <2>1. PICK rec \in RequestType : rec = req[q] /\ Proper(rec)
    BY <1>1 DEF TypeOK, LoneInv
  <2>2. Proper(rec)'
    BY <1>1, <1>11, <2>1, ProperLasts
  <2>3. CASE q # r
    BY <1>8, <2>1, <2>2, <2>3 DEF Proper
  <2>4. CASE q = r
    <3>1. PICK n \in States : n = nextState
      BY <1>9
    <3>2. StateOf(b, n)'
      BY <1>1, <1>7, <1>10, <3>1 DEF StateOf, TypeOK
    <3>3. HasBegun(b)'
      BY <3>2 DEF HasBegun
    <3>4. req'[q].param = n /\ req'[q].browser = b
      BY <1>6, <1>8, <2>4, <3>1
    <3> QED
      BY <1>6, <1>8, <2>4, <3>2, <3>3, <3>4 DEF Proper, StateOf, HasBegun, WithToken
  <2> QED
    BY <2>3, <2>4
<1>13. \A s \in States, ck \in Cookies : Holds(ck, s) <=> Holds(ck, s)'
  BY <1>7 DEF Holds, Readable, Loaded, store
<1>14. ASSUME NEW s \in States, Lone(s)' PROVE Ready(s)'
  <2>1. CASE s = nextState
    <3>1. ~ HasBegun(b)
      <4>1. ASSUME NEW t \in States, StateOf(b, t) PROVE FALSE
        <5>1. t < nextState /\ startedBy'[t] = b
          BY <1>1, <1>10, <4>1 DEF StateOf, TypeOK, States
        <5>2. t \in 1 .. nextState' - 1
          BY <1>1, <1>7, <5>1 DEF States, TypeOK
        <5>3. t = nextState
          BY <1>10, <1>14, <2>1, <5>1, <5>2 DEF Lone, OnlyLogin
        <5> QED
          BY <1>1, <5>1, <5>3 DEF TypeOK
      <4> QED
        BY <4>1 DEF HasBegun
    <3>2. ASSUME NEW q \in Requests, req'[q].browser = b PROVE BringsOn(s, req[q])'
      <4>1. req[q].browser = b /\ Proper(req[q])
        BY <1>2, <1>8, <3>2 DEF LoneInv
      <4>2. /\ ~ req[q].set /\ ~ StateOf(b, req[q].param)
            /\ req[q].kind = "callback" => req[q].param # s
        <5>1. req[q].verdict = "authorize" => req[q].param \in States
          BY RequestFacts
        <5>2. nextState \in Int
          BY <1>1 DEF TypeOK
        <5> QED
          BY <2>1, <3>1, <4>1, <5>1, <5>2 DEF Proper, HasBegun, StateOf
      <4>3. req[q].verdict # "authorize"
        BY <4>1, <4>2 DEF Proper
      <4> QED
        BY <1>6, <1>8, <4>2, <4>3 DEF BringsOn
    <3>3. s \notin atKeycloak'
      BY <1>1, <1>7, <2>1 DEF LoneInv, keycloak, TypeOK
    <3> QED
      BY <1>10, <2>1, <3>2, <3>3 DEF Ready
  <2>2. CASE s # nextState
    <3>1. startedBy'[s] = startedBy[s] /\ startedBy[s] \in Browsers
      BY <1>1, <1>10, <2>2 DEF TypeOK
    <3>2. startedBy[s] # b
      <4>1. nextState \in 1 .. nextState' - 1
        BY <1>1, <1>7 DEF TypeOK
      <4> QED
        BY <1>10, <1>14, <2>2, <3>1, <4>1 DEF Lone, OnlyLogin
    <3>3. Lone(s)
      <4>1. s < nextState
        BY <1>1, <1>7, <1>14, <2>2 DEF Lone, States, TypeOK
      <4>2. OnlyLogin(s)
        <5>1. ASSUME NEW t \in 1 .. nextState - 1, startedBy[t] = startedBy[s] PROVE t = s
          <6>1. t \in States /\ t # nextState /\ t \in 1 .. nextState' - 1
            BY <1>1, <1>7 DEF TypeOK, States
          <6> QED
            BY <1>10, <1>14, <3>1, <5>1, <6>1 DEF Lone, OnlyLogin
        <5> QED
          BY <5>1 DEF OnlyLogin
      <4>3. ~ Taken(s)
        <5>1. codeUsed' = codeUsed
          BY <1>7 DEF keycloak
        <5>2. \A q \in Requests : req[q].pc = "exchange" => req'[q] = req[q]
          BY <1>8 DEF LoginLoad, LoginReceived
        <5> QED
          BY <1>14, <5>1, <5>2 DEF Lone, Taken
      <4> QED
        BY <4>1, <4>2, <4>3 DEF Lone
    <3>4. Ready(s)
      BY <3>3 DEF LoneInv
    <3>5. ASSUME NEW q \in Requests, req'[q].browser = startedBy[s] PROVE BringsOn(s, req[q])'
      <4>1. q # r /\ req'[q] = req[q]
        BY <1>6, <1>8, <3>2, <3>5
      <4>2. PICK rec \in RequestType : rec = req[q]
        BY <1>1 DEF TypeOK
      <4>3. BringsOn(s, rec) /\ rec.to \in Cookies /\ rec.cookie \in Cookies
        BY <3>4, <3>5, <4>1, <4>2 DEF Ready, RequestType
      <4>4. BringsOn(s, rec)'
        BY <1>13, <4>3 DEF BringsOn
      <4> QED
        BY <4>1, <4>2, <4>4 DEF BringsOn
    <3>6. s \in atKeycloak' => Holds(cookie[startedBy[s]], s)'
      <4>1. cookie[startedBy[s]] \in Cookies /\ cookie' = cookie /\ atKeycloak' = atKeycloak
        BY <1>1, <1>7, <3>1 DEF TypeOK, browser, keycloak
      <4> QED
        BY <1>13, <3>1, <3>4, <4>1 DEF Ready, Holds
    <3> QED
      BY <3>1, <3>5, <3>6 DEF Ready
  <2> QED
    BY <2>1, <2>2
<1>15. /\ \A s \in atKeycloak' : s < nextState'
       /\ torn' = {} /\ \A g \in Tokens : g < nextToken' => flow'[g] \in codeUsed'
  BY <1>1, <1>7 DEF LoneInv, keycloak, store, TypeOK, States
<1> QED
  BY <1>12, <1>14, <1>15 DEF LoneInv

\* It saves the state, for its browser to come back with.
LEMMA LoginSaveLone ==
  ASSUME Undisturbed, IInv, LoneInv, IInv', NEW r \in Requests, LoginSave(r)
  PROVE  LoneInv'
<1>1. /\ req[r] \in RequestType /\ req[r].snap \in Values /\ req[r].pc = "saveState"
      /\ TypeOK /\ TypeOK'
  BY RequestFacts DEF LoginSave, IInv
<1>2. /\ StateOf(req[r].browser, req[r].param)
      /\ req[r].kind = "login" /\ req[r].snap.state = req[r].param
  BY <1>1 DEF LoneInv, Proper
<1>3. PICK rec \in RequestType : rec = Responding(req[r], "authorize")
  BY <1>1, RespondingChanges DEF Verdicts
<1>4. rec.pc = "responded" /\ rec.verdict = "authorize" /\ Alike(rec, req[r])
  BY <1>1, <1>3, RespondingChanges DEF Verdicts
<1>5. /\ Save(r, req[r].snap, rec)
      /\ UNCHANGED <<browser, states, keycloak, trouble>>
  BY <1>3 DEF LoginSave
<1>6. HasBegun(req[r].browser)
  BY <1>2 DEF HasBegun, StateOf
<1>7. ASSUME NEW s \in States, Lone(s), req[r].browser = startedBy[s]
      PROVE  req[r].snap.state = s
  <2>1. req[r].param \in States
    BY <1>2 DEF StateOf
  <2> QED
    BY <1>1, <1>2, <1>7, <2>1, OneOfIts DEF Lone
<1> QED
  BY <1>1, <1>2, <1>4, <1>5, <1>6, <1>7, LoneSave DEF WithToken

\* The callback of a lone login finds its state.
LEMMA CallbackLoadLone ==
  ASSUME Undisturbed, IInv, LoneInv, IInv', NEW r \in Requests, CallbackLoad(r)
  PROVE  LoneInv'
<1>1. /\ req[r] \in RequestType /\ req[r].pc = "received" /\ req[r].verdict # "authorize"
      /\ TypeOK /\ TypeOK'
  BY RequestFacts DEF CallbackLoad, IInv
<1>2. /\ UNCHANGED <<browser, store, states, keycloak, trouble>>
      /\ Grows
  BY <1>1, GrowsByIssue DEF CallbackLoad, store, keycloak
<1>3. \A g \in Tokens : g < nextToken' => flow'[g] \in codeUsed'
  BY <1>2 DEF LoneInv, keycloak
<1>4. ASSUME NEW s \in States, Lone(s), req[r].browser = startedBy[s],
             req[r].kind = "callback", req[r].param = s
      PROVE  /\ Readable(req[r].cookie) /\ StateMatches(req[r], Loaded(req[r].cookie))
             /\ req[r].verdict # "error"
  BY <1>1, <1>4 DEF LoneInv, Ready, BringsOn, Holds, StateMatches, States, None
<1>5. CASE Readable(req[r].cookie) /\ StateMatches(req[r], Loaded(req[r].cookie))
  <2>1. PICK new : new = WithSession(r, "clearState")
    OBVIOUS
  <2>2. "clearState" \in PCs
    BY DEF PCs
  <2>3. /\ new.pc = "clearState" /\ new.browser = req[r].browser /\ new.kind = req[r].kind
        /\ new.param = req[r].param /\ new.cookie = req[r].cookie /\ new.set = req[r].set
        /\ new.to = req[r].to /\ new.verdict = req[r].verdict
    BY <1>1, <2>1, <2>2, WithSessionChanges
  <2>4. req' = [req EXCEPT ![r] = new]
    BY <1>5, <2>1 DEF CallbackLoad
  <2> QED
    BY <1>1, <1>2, <1>3, <1>4, <2>3, <2>4, LoneQuiet DEF browser, keycloak, WithToken
<1>6. CASE ~ (Readable(req[r].cookie) /\ StateMatches(req[r], Loaded(req[r].cookie)))
  <2>1. PICK new : new = Responding(req[r], "error")
    OBVIOUS
  <2>2. new.pc = "responded" /\ new.verdict = "error" /\ Alike(new, req[r])
    BY <1>1, <2>1, RespondingChanges DEF Verdicts
  <2>3. req' = [req EXCEPT ![r] = new]
    BY <1>6, <2>1 DEF CallbackLoad, Respond
  <2> QED
    BY <1>1, <1>2, <1>3, <1>4, <1>6, <2>2, <2>3, LoneQuiet
       DEF browser, keycloak, WithToken, Alike
<1> QED
  BY <1>5, <1>6

\* After the state has been cleared the code is on its way to be exchanged.
LEMMA CallbackClearStateLone ==
  ASSUME Undisturbed, IInv, LoneInv, IInv', NEW r \in Requests, CallbackClearState(r)
  PROVE  LoneInv'
<1>1. /\ req[r] \in RequestType /\ req[r].snap \in Values /\ req[r].pc = "clearState"
      /\ StateOf(req[r].browser, req[r].param) /\ req[r].verdict # "authorize"
      /\ TypeOK /\ TypeOK'
  BY RequestFacts DEF CallbackClearState, IInv
<1>2. PICK vals \in Values : vals = [req[r].snap EXCEPT !.state = None]
  BY <1>1 DEF Values
<1>3. "exchange" \in PCs
  BY DEF PCs
<1>4. PICK rec \in RequestType : rec = [req[r] EXCEPT !.pc = "exchange"]
  BY <1>1, <1>3, PcChanges
<1>5. rec.pc = "exchange" /\ Alike(rec, req[r]) /\ rec.verdict = req[r].verdict
  BY <1>1, <1>3, <1>4, PcChanges DEF RequestType
<1>6. /\ Save(r, vals, rec)
      /\ UNCHANGED <<browser, states, keycloak, trouble>>
  BY <1>2, <1>4 DEF CallbackClearState
<1>7. HasBegun(req[r].browser)
  BY <1>1 DEF HasBegun, StateOf
<1>8. ASSUME NEW s \in States, Lone(s), Lone(s)', req[r].browser = startedBy[s]
      PROVE  FALSE
  <2>1. req[r].param = s
    <3>1. req[r].param \in States
      BY <1>1 DEF StateOf
    <3> QED
      BY <1>1, <1>8, <3>1, OneOfIts DEF Lone
  <2>2. req'[r].pc = "exchange" /\ req'[r].param = s
    <3>1. Write(r, vals, rec)
      BY <1>6 DEF Save, Undisturbed
    <3> QED
      BY <1>1, <1>5, <2>1, <3>1 DEF Write, TypeOK, Alike, RequestType
  <2> QED
    BY <1>8, <2>2 DEF Lone, Taken
<1> QED
  BY <1>1, <1>5, <1>6, <1>7, <1>8, LoneSave DEF WithToken

\* What has a token now has it later.
LEMMA HasGotTokenLasts ==
  ASSUME TypeOK, FlowInv, Grows, TypeOK', NEW b \in Browsers, HasGotToken(b)
  PROVE  HasGotToken(b)'
<1>1. PICK g \in Tokens : TokenOf(b, g)
  BY DEF HasGotToken
<1>2. TokenOf(b, g)'
  BY <1>1, MineLasts
<1> QED
  BY <1>2 DEF HasGotToken

\* A request at a step where it has not responded goes on to another such step,
\* or ends without an error of a callback.
LEMMA LoneGoesOn ==
  ASSUME IInv, LoneInv, IInv', Grows, NEW r \in Requests, NEW new,
         req' = [req EXCEPT ![r] = new],
         UNCHANGED <<cookie, store, states, atKeycloak>>,
         codeUsed \subseteq codeUsed',
         \A g \in Tokens : g < nextToken' => flow'[g] \in codeUsed',
         /\ new.browser = req[r].browser /\ new.kind = req[r].kind /\ new.param = req[r].param
         /\ new.cookie = req[r].cookie /\ new.set = req[r].set /\ new.to = req[r].to,
         req[r].pc \in WithToken \cup {"exchange"} \/ Protected(r), req[r].pc # "responded",
         new.verdict # "authorize",
         req[r].pc = "exchange" => req[r].param \in codeUsed',
         new.pc \notin {"received", "saveState"},
         new.pc \in WithToken => HasGotToken(req[r].browser)'
  PROVE  LoneInv'
<1>1. TypeOK' /\ req[r].verdict # "authorize"
  BY RequestFacts DEF IInv
<1>2. ASSUME NEW s \in States, Lone(s), req[r].browser = startedBy[s],
             req[r].kind = "callback", req[r].param = s
      PROVE  FALSE
  <2>1. CASE req[r].pc \in WithToken
    <3>1. HasGotToken(startedBy[s])
      BY <1>2, <2>1 DEF LoneInv, Proper
    <3> QED
      BY <1>2, <3>1, NoTokenYet
  <2>2. CASE req[r].pc = "exchange"
    BY <1>2, <2>2 DEF Lone, Taken
  <2>3. CASE Protected(r)
    BY <1>2, <2>3 DEF Protected
  <2> QED
    BY <2>1, <2>2, <2>3
<1> QED
  BY <1>1, <1>2, LoneQuiet

\* Keycloak issues the token set of a code once.
LEMMA CallbackExchangeLone ==
  ASSUME Undisturbed, IInv, LoneInv, IInv', NEW r \in Requests, CallbackExchange(r)
  PROVE  LoneInv'
<1>1. /\ req[r] \in RequestType /\ req[r].pc = "exchange" /\ req[r].verdict # "authorize"
      /\ StateOf(req[r].browser, req[r].param)
      /\ TypeOK /\ TypeOK' /\ FlowInv
  BY RequestFacts DEF CallbackExchange, IInv
<1>2. UNCHANGED <<browser, store, states, atKeycloak>>
  BY DEF CallbackExchange
<1>3. CASE /\ req[r].param \notin codeUsed
           /\ Issue(r, req[r].param, "saveToken")
           /\ codeUsed' = codeUsed \cup {req[r].param}
  <2>1. PICK new : new = [req[r] EXCEPT !.got = nextToken, !.pc = "saveToken"]
    OBVIOUS
  <2>2. /\ req' = [req EXCEPT ![r] = new]
        /\ nextToken' = nextToken + 1 /\ flow' = [flow EXCEPT ![nextToken] = req[r].param]
    BY <1>1, <1>3, <2>1 DEF Issue, TypeOK, RequestType
  <2>3. nextToken \in Tokens
    BY <1>1, <2>2 DEF TypeOK, Tokens
  <2>4. /\ flow'[nextToken] = req[r].param
        /\ \A g \in Tokens : g # nextToken => flow'[g] = flow[g]
    BY <1>1, <2>2, <2>3 DEF TypeOK
  <2>5. Grows
    BY <1>1, <1>2, <2>2, GrowsByIssue DEF store
  <2>6. \A g \in Tokens : g < nextToken' => flow'[g] \in codeUsed'
    BY <1>1, <1>3, <2>2, <2>4 DEF LoneInv, TypeOK, Tokens
  <2>7. HasGotToken(req[r].browser)'
    <3>1. PICK b \in Browsers, g \in Tokens : b = req[r].browser /\ g = nextToken
      BY <1>1, <2>3 DEF RequestType
    <3>2. TokenOf(b, g)'
      BY <1>1, <1>2, <2>2, <2>4, <3>1 DEF TokenOf, StateOf, states, Tokens
    <3>3. HasGotToken(b)'
      BY <3>2 DEF HasGotToken
    <3>4. req'[r].browser = b
      BY <1>1, <2>1, <2>2, <3>1 DEF TypeOK, RequestType
    <3> QED
      BY <3>3, <3>1, <3>4 DEF HasGotToken, TokenOf
  <2>8. /\ new.browser = req[r].browser /\ new.kind = req[r].kind /\ new.param = req[r].param
        /\ new.cookie = req[r].cookie /\ new.set = req[r].set /\ new.to = req[r].to
        /\ new.pc = "saveToken" /\ new.verdict = req[r].verdict
    BY <1>1, <2>1 DEF RequestType
  <2> QED
    BY <1>1, <1>2, <1>3, <2>2, <2>5, <2>6, <2>7, <2>8, LoneGoesOn DEF browser
<1>4. CASE /\ req[r].param \in codeUsed
           /\ Respond(r, "error")
           /\ UNCHANGED <<nextToken, flow, codeUsed>>
  <2>1. PICK new : new = Responding(req[r], "error")
    OBVIOUS
  <2>2. new.pc = "responded" /\ new.verdict = "error" /\ Alike(new, req[r])
    BY <1>1, <2>1, RespondingChanges DEF Verdicts
  <2>3. req' = [req EXCEPT ![r] = new]
    BY <1>4, <2>1 DEF Respond
  <2>4. Grows
    BY <1>1, <1>2, <1>4, GrowsByIssue DEF store
  <2> QED
    BY <1>1, <1>2, <1>4, <2>2, <2>3, <2>4, LoneGoesOn DEF browser, Alike, WithToken, LoneInv
<1> QED
  BY <1>3, <1>4 DEF CallbackExchange

\* Whoever saves a session with a token saves none that a lone login waits for.
LEMMA TokenSaveLone ==
  ASSUME Undisturbed, IInv, LoneInv, IInv', NEW r \in Requests,
         NEW vals \in Values, NEW rec \in RequestType, Save(r, vals, rec),
         UNCHANGED <<browser, states, keycloak, trouble>>, Alike(rec, req[r]),
         rec.pc \in {"responded", "ssoLoad"}, rec.verdict # "authorize",
         req[r].pc \in WithToken
  PROVE  LoneInv'
<1>1. HasGotToken(req[r].browser) /\ FlowInv /\ TypeOK'
  BY DEF LoneInv, Proper, IInv
<1>2. HasBegun(req[r].browser)
  BY <1>1 DEF HasBegun, HasGotToken, TokenOf, StateOf, FlowInv
<1>3. \A s \in States : Lone(s) => req[r].browser # startedBy[s]
  BY <1>1, NoTokenYet
<1> QED
  BY <1>1, <1>2, <1>3, LoneSave DEF WithToken

\* So do the callback, AuthRequired after a refresh, and the SSO handler.
LEMMA SaveTokenLone ==
  ASSUME Undisturbed, IInv, LoneInv, IInv', NEW r \in Requests,
         CallbackSaveToken(r) \/ AuthSaveToken(r) \/ SSOSave(r)
  PROVE  LoneInv'
<1>1. /\ req[r] \in RequestType /\ req[r].snap \in Values
      /\ req[r].pc \in {"saveToken", "saveSSO"} /\ req[r].verdict # "authorize"
  BY RequestFacts DEF CallbackSaveToken, AuthSaveToken, SSOSave
<1>2. req[r].pc \in WithToken
  BY <1>1 DEF WithToken
<1>3. UNCHANGED <<browser, states, keycloak, trouble>>
  BY DEF CallbackSaveToken, AuthSaveToken, SSOSave
<1>4. ASSUME req[r].pc = "saveToken" PROVE TokenValues(req[r].snap, req[r].got) \in Values
  <2>1. HasGotToken(req[r].browser) /\ req[r].got \in Tokens \cup {None}
    BY <1>1, <1>2 DEF LoneInv, Proper, RequestType
  <2> QED
    BY <1>1, <2>1 DEF TokenValues, Values
<1>5. CASE CallbackSaveToken(r)
  <2>1. PICK rec \in RequestType : rec = Responding(req[r], "home")
    BY <1>1, RespondingChanges DEF Verdicts
  <2>2. rec.pc = "responded" /\ rec.verdict = "home" /\ Alike(rec, req[r])
    BY <1>1, <2>1, RespondingChanges DEF Verdicts
  <2>3. Save(r, TokenValues(req[r].snap, req[r].got), rec)
    BY <1>5, <2>1 DEF CallbackSaveToken, SaveToken
  <2> QED
    BY <1>2, <1>3, <1>4, <1>5, <2>2, <2>3, TokenSaveLone DEF CallbackSaveToken
<1>6. CASE AuthSaveToken(r)
  <2>1. PICK rec \in RequestType : rec = Admitted(req[r])
    BY <1>1, AdmittedChanges
  <2>2. rec.pc \in {"responded", "ssoLoad"} /\ rec.verdict # "authorize" /\ Alike(rec, req[r])
    BY <1>1, <2>1, AdmittedChanges
  <2>3. Save(r, TokenValues(req[r].snap, req[r].got), rec)
    BY <1>6, <2>1 DEF AuthSaveToken, SaveToken
  <2> QED
    BY <1>2, <1>3, <1>4, <1>6, <2>2, <2>3, TokenSaveLone DEF AuthSaveToken
<1>7. CASE SSOSave(r)
  <2>1. PICK rec \in RequestType : rec = Responding(req[r], "served")
    BY <1>1, RespondingChanges DEF Verdicts
  <2>2. rec.pc = "responded" /\ rec.verdict = "served" /\ Alike(rec, req[r])
    BY <1>1, <2>1, RespondingChanges DEF Verdicts
  <2>3. Save(r, req[r].snap, rec)
    BY <1>7, <2>1 DEF SSOSave
  <2> QED
    BY <1>1, <1>2, <1>3, <2>2, <2>3, TokenSaveLone
<1> QED
  BY <1>5, <1>6, <1>7

\* AuthRequired finds a token only where there is one.
LEMMA AuthLoadLone ==
  ASSUME Undisturbed, IInv, LoneInv, IInv', NEW r \in Requests, AuthLoad(r)
  PROVE  LoneInv'
<1>1. /\ req[r] \in RequestType /\ req[r].pc = "received" /\ req[r].verdict # "authorize"
      /\ Loaded(req[r].cookie) \in Values /\ Mine(req[r].browser, Loaded(req[r].cookie))
      /\ req[r].browser \in Browsers
      /\ TypeOK /\ TypeOK' /\ FlowInv
  BY RequestFacts DEF AuthLoad, IInv
<1>2. UNCHANGED <<browser, store, states, keycloak, trouble>> /\ Grows /\ Protected(r)
  BY <1>1, GrowsByIssue DEF AuthLoad, store, keycloak
<1>3. \A g \in Tokens : g < nextToken' => flow'[g] \in codeUsed'
  BY <1>2 DEF LoneInv, keycloak
<1>4. ASSUME Loaded(req[r].cookie).token # None PROVE HasGotToken(req[r].browser)'
  <2>1. PICK b \in Browsers : b = req[r].browser
    BY <1>1
  <2>2. HasGotToken(b)
    BY <1>1, <1>4, <2>1 DEF Mine, HasGotToken, TokenOf
  <2>3. HasGotToken(b)'
    BY <1>1, <1>2, <2>2, HasGotTokenLasts
  <2>4. req'[r].browser = req[r].browser
    <3>1. \A v \in Verdicts : Responding(req[r], v).browser = req[r].browser
      BY <1>1, RespondingChanges DEF Alike
    <3>2. \A p \in PCs : /\ WithSession(r, p).browser = req[r].browser
                         /\ WithSession(r, p) \in RequestType
      BY <1>1, WithSessionChanges
    <3>3. {"introspect", "refresh", "received"} \subseteq PCs /\ "login" \in Verdicts
      BY DEF PCs, Verdicts
    <3>4. Admitted(WithSession(r, "received")).browser = req[r].browser
      BY <3>2, <3>3, AdmittedChanges DEF Alike
    <3> QED
      BY <1>1, <3>1, <3>2, <3>3, <3>4 DEF AuthLoad, TypeOK
  <2> QED
    BY <2>1, <2>3, <2>4 DEF HasGotToken, TokenOf
<1>5. ASSUME NEW new, req' = [req EXCEPT ![r] = new],
             /\ new.browser = req[r].browser /\ new.kind = req[r].kind
             /\ new.param = req[r].param /\ new.cookie = req[r].cookie
             /\ new.set = req[r].set /\ new.to = req[r].to,
             \/ new.pc = "responded" /\ new.verdict \in {"login", "served"}
             \/ /\ new.pc \in {"introspect", "refresh", "ssoLoad"}
                /\ new.verdict = req[r].verdict /\ Loaded(req[r].cookie).token # None
      PROVE  LoneInv'
  BY <1>1, <1>2, <1>3, <1>4, <1>5, LoneGoesOn DEF browser, keycloak, WithToken
<1>6. {"introspect", "refresh", "received"} \subseteq PCs /\ "login" \in Verdicts
  BY DEF PCs, Verdicts
<1>7. CASE Loaded(req[r].cookie).token = None
  <2>1. req' = [req EXCEPT ![r] = Responding(req[r], "login")]
    BY <1>7 DEF AuthLoad
  <2> QED
    BY <1>1, <1>5, <1>6, <2>1, RespondingChanges DEF Alike
<1>8. CASE Loaded(req[r].cookie).token # None
  <2>1. ASSUME NEW p \in {"introspect", "refresh"},
               req' = [req EXCEPT ![r] = WithSession(r, p)]
        PROVE  LoneInv'
    <3>1. p \in PCs
      BY <1>6
    <3> QED
      BY <1>1, <1>5, <1>8, <2>1, <3>1, WithSessionChanges
  <2>2. ASSUME req' = [req EXCEPT ![r] = Admitted(WithSession(r, "received"))]
        PROVE  LoneInv'
    <3>1. PICK w \in RequestType :
            /\ w = WithSession(r, "received")
            /\ w.browser = req[r].browser /\ w.kind = req[r].kind /\ w.param = req[r].param
            /\ w.cookie = req[r].cookie /\ w.set = req[r].set /\ w.to = req[r].to
            /\ w.verdict = req[r].verdict
      BY <1>1, <1>6, WithSessionChanges
    <3>2. PICK new : new = Admitted(w)
      OBVIOUS
    <3>3. /\ Alike(new, w)
          /\ \/ new.pc = "responded" /\ new.verdict = "served"
             \/ new.pc = "ssoLoad" /\ new.verdict = w.verdict
      BY <3>2, AdmittedChanges
    <3>4. req' = [req EXCEPT ![r] = new]
      BY <2>2, <3>1, <3>2
    <3> QED
      BY <1>5, <1>8, <3>1, <3>3, <3>4 DEF Alike
  <2> QED
    BY <1>8, <2>1, <2>2 DEF AuthLoad
<1> QED
  BY <1>7, <1>8

\* A refresh gives a token set of a flow whose code has been exchanged.
LEMMA AuthRefreshLone ==
  ASSUME Undisturbed, IInv, LoneInv, IInv', NEW r \in Requests, AuthRefresh(r)
  PROVE  LoneInv'
<1>1. /\ req[r] \in RequestType /\ req[r].pc = "refresh" /\ req[r].verdict # "authorize"
      /\ req[r].browser \in Browsers /\ Mine(req[r].browser, req[r].snap)
      /\ TypeOK /\ TypeOK' /\ FlowInv /\ HasGotToken(req[r].browser)
  BY RequestFacts DEF AuthRefresh, IInv, LoneInv, Proper, WithToken
<1>2. UNCHANGED <<browser, store, states, atKeycloak, codeUsed>>
  BY DEF AuthRefresh
<1>3. PICK g : g = req[r].snap.refresh
  OBVIOUS
<1>4. \/ g # None /\ Reissue(r, flow[g], "saveToken")
      \/ req' = [req EXCEPT ![r].pc = "clear"] /\ UNCHANGED <<nextToken, flow>>
  BY <1>3 DEF AuthRefresh
<1>5. g # None => g \in Tokens /\ flow[g] \in codeUsed
  BY <1>1, <1>3 DEF Mine, TokenOf, LoneInv
<1>6. \/ UNCHANGED <<nextToken, flow>>
      \/ /\ g # None
         /\ nextToken' = nextToken + 1 /\ flow' = [flow EXCEPT ![nextToken] = flow[g]]
  BY <1>4 DEF Reissue, Issue
<1>7. Grows
  BY <1>1, <1>2, <1>6, GrowsByIssue DEF store
<1>8. \A h \in Tokens : h < nextToken' => flow'[h] \in codeUsed'
  <2>1. CASE UNCHANGED <<nextToken, flow>>
    BY <1>2, <2>1 DEF LoneInv
  <2>2. CASE /\ g # None
             /\ nextToken' = nextToken + 1 /\ flow' = [flow EXCEPT ![nextToken] = flow[g]]
    <3>1. nextToken \in Tokens
      BY <1>1, <2>2 DEF TypeOK, Tokens
    <3>2. /\ flow'[nextToken] = flow[g]
          /\ \A h \in Tokens : h # nextToken => flow'[h] = flow[h]
      BY <1>1, <2>2, <3>1 DEF TypeOK
    <3>3. \A h \in Tokens : h < nextToken' => h < nextToken \/ h = nextToken
      BY <1>1, <2>2 DEF TypeOK, Tokens
    <3>4. \A h \in Tokens : h < nextToken => flow[h] \in codeUsed
      BY DEF LoneInv
    <3>5. \A h \in Tokens : h < nextToken => h # nextToken
      BY <1>1 DEF TypeOK, Tokens
    <3> QED
      BY <1>2, <1>5, <2>2, <3>2, <3>3, <3>4, <3>5
  <2> QED
    BY <1>6, <2>1, <2>2
<1>9. ASSUME NEW new, req' = [req EXCEPT ![r] = new],
             /\ new.browser = req[r].browser /\ new.kind = req[r].kind
             /\ new.param = req[r].param /\ new.cookie = req[r].cookie
             /\ new.set = req[r].set /\ new.to = req[r].to
             /\ new.verdict = req[r].verdict /\ new.pc \in {"saveToken", "clear"}
      PROVE  LoneInv'
  <2>1. HasGotToken(req[r].browser)'
    <3>1. PICK b \in Browsers : b = req[r].browser
      BY <1>1
    <3>2. HasGotToken(b)'
      BY <1>1, <1>7, <3>1, HasGotTokenLasts
    <3>3. req'[r].browser = b
      BY <1>1, <1>9, <3>1 DEF TypeOK
    <3> QED
      BY <3>1, <3>2, <3>3 DEF HasGotToken, TokenOf
  <2> QED
    BY <1>1, <1>2, <1>7, <1>8, <1>9, <2>1, LoneGoesOn DEF browser, WithToken
<1>10. ASSUME NEW h, req' = [req EXCEPT ![r].got = h, ![r].pc = "saveToken"]
       PROVE  LoneInv'
  <2>1. PICK new : new = [req[r] EXCEPT !.got = h, !.pc = "saveToken"]
    OBVIOUS
  <2>2. /\ new.browser = req[r].browser /\ new.kind = req[r].kind
        /\ new.param = req[r].param /\ new.cookie = req[r].cookie
        /\ new.set = req[r].set /\ new.to = req[r].to
        /\ new.verdict = req[r].verdict /\ new.pc = "saveToken"
    BY <1>1, <2>1 DEF RequestType
  <2>3. req' = [req EXCEPT ![r] = new]
    BY <1>1, <1>10, <2>1 DEF TypeOK, RequestType
  <2> QED
    BY <1>9, <2>2, <2>3
<1>11. ASSUME req' = [req EXCEPT ![r].pc = "clear"] PROVE LoneInv'
  <2>1. PICK new : new = [req[r] EXCEPT !.pc = "clear"]
    OBVIOUS
  <2>2. new.pc = "clear" /\ Alike(new, req[r]) /\ new.verdict = req[r].verdict
    BY <1>1, <2>1 DEF RequestType, Alike
  <2>3. req' = [req EXCEPT ![r] = new]
    BY <1>1, <1>11, <2>1 DEF TypeOK
  <2> QED
    BY <1>9, <2>2, <2>3 DEF Alike
<1>12. CASE Reissue(r, flow[g], "saveToken")
  BY <1>10, <1>12 DEF Reissue, Issue
<1> QED
  BY <1>4, <1>11, <1>12

\* The other steps of a request whose session has a token.
LEMMA TokenReadLone ==
  ASSUME Undisturbed, IInv, LoneInv, IInv', NEW r \in Requests,
         AuthIntrospect(r) \/ SSOLoad(r)
  PROVE  LoneInv'
<1>1. /\ req[r] \in RequestType /\ req[r].pc \in {"introspect", "ssoLoad"}
      /\ req[r].verdict # "authorize" /\ req[r].browser \in Browsers
      /\ TypeOK /\ TypeOK' /\ FlowInv /\ HasGotToken(req[r].browser)
  BY RequestFacts DEF AuthIntrospect, SSOLoad, IInv, LoneInv, Proper, WithToken
<1>2. UNCHANGED <<browser, store, states, atKeycloak, codeUsed, nextToken, flow>>
  BY DEF AuthIntrospect, SSOLoad, keycloak
<1>3. Grows /\ \A g \in Tokens : g < nextToken' => flow'[g] \in codeUsed'
  BY <1>1, <1>2, GrowsByIssue DEF LoneInv, store
<1>4. ASSUME NEW new, req' = [req EXCEPT ![r] = new],
             /\ new.browser = req[r].browser /\ new.kind = req[r].kind
             /\ new.param = req[r].param /\ new.cookie = req[r].cookie
             /\ new.set = req[r].set /\ new.to = req[r].to,
             \/ new.pc = "responded" /\ new.verdict = "served"
             \/ new.pc \in {"ssoLoad", "saveSSO", "clear"} /\ new.verdict = req[r].verdict
      PROVE  LoneInv'
  <2>1. HasGotToken(req[r].browser)'
    <3>1. PICK b \in Browsers : b = req[r].browser
      BY <1>1
    <3>2. HasGotToken(b)'
      BY <1>1, <1>3, <3>1, HasGotTokenLasts
    <3>3. req'[r].browser = b
      BY <1>1, <1>4, <3>1 DEF TypeOK
    <3> QED
      BY <3>1, <3>2, <3>3 DEF HasGotToken, TokenOf
  <2> QED
    BY <1>1, <1>2, <1>3, <1>4, <2>1, LoneGoesOn DEF browser, WithToken
<1>5. CASE SSOLoad(r)
  <2>1. "saveSSO" \in PCs /\ req' = [req EXCEPT ![r] = WithSession(r, "saveSSO")]
    BY <1>5 DEF SSOLoad, PCs
  <2>2. PICK new : new = WithSession(r, "saveSSO")
    OBVIOUS
  <2> QED
    BY <1>1, <1>4, <2>1, <2>2, WithSessionChanges
<1>6. CASE AuthIntrospect(r)
  <2>1. PICK new : new \in {Admitted(req[r]), [req[r] EXCEPT !.pc = "clear"]}
                   /\ req' = [req EXCEPT ![r] = new]
    BY <1>6 DEF AuthIntrospect
  <2>2. CASE new = Admitted(req[r])
    BY <1>1, <1>4, <2>1, <2>2, AdmittedChanges DEF Alike
  <2>3. CASE new = [req[r] EXCEPT !.pc = "clear"]
    <3>1. new.pc = "clear" /\ Alike(new, req[r]) /\ new.verdict = req[r].verdict
      BY <1>1, <2>3 DEF RequestType, Alike
    <3> QED
      BY <1>4, <2>1, <3>1 DEF Alike
  <2> QED
    BY <2>1, <2>2, <2>3
<1> QED
  BY <1>5, <1>6

\* A request that is no more.
LEMMA NoRequestLone ==
  /\ Proper(NoRequest)' /\ \A s \in States : BringsOn(s, NoRequest)'
  /\ NoRequest.pc = "idle"
BY DEF NoRequest, Proper, BringsOn, WithToken

\* The response of HandleLogin arrives with the session that holds the state.
LEMMA DeliverLone ==
  ASSUME Undisturbed, IInv, LoneInv, IInv', NEW r \in Requests, Deliver(r)
  PROVE  LoneInv'
<1>1. /\ req[r] \in RequestType /\ req[r].pc = "responded" /\ req[r].browser \in Browsers
      /\ TypeOK /\ TypeOK' /\ FlowInv /\ Proper(req[r])
      /\ UNCHANGED <<store, states, codeUsed, nextToken, flow>>
  BY RequestFacts DEF Deliver, IInv, LoneInv
<1>2. req'[r] = NoRequest /\ \A q \in Requests : q # r => req'[q] = req[q]
  BY <1>1 DEF TypeOK, Deliver
<1>3. Grows /\ torn' = {} /\ \A g \in Tokens : g < nextToken' => flow'[g] \in codeUsed'
  BY <1>1, GrowsByIssue DEF LoneInv, store
<1>4. PICK o \in [IDs -> Browsers] : Owned(o)
  BY DEF IInv, OwnerInv
<1>5. Proper(req[r])' /\ \A s \in States : BringsOn(s, req[r])'
  BY <1>2, NoRequestLone DEF Proper, BringsOn
<1>6. \A s \in States, ck \in Cookies : Holds(ck, s) <=> Holds(ck, s)'
  BY <1>1 DEF Holds, Readable, Loaded, store
<1>7. ASSUME NEW s \in atKeycloak'
      PROVE  s < nextState /\ (Lone(s) /\ Lone(s)' => Holds(cookie[startedBy[s]], s)')
  <2>1. \/ s \in atKeycloak
        \/ req[r].verdict = "authorize" /\ s = req[r].param
    BY <1>7 DEF Deliver
  <2>2. s < nextState
    BY <1>1, <2>1 DEF LoneInv, Proper, StateOf
  <2>3. ASSUME Lone(s) PROVE Holds(cookie[startedBy[s]], s)'
    <3>1. s \in States /\ startedBy[s] \in Browsers /\ startedBy' = startedBy
      BY <1>1 DEF TypeOK, states
    <3>2. PICK ck \in Cookies : ck = cookie'[startedBy[s]]
      BY <1>1, <3>1 DEF TypeOK
    <3>3. CASE req[r].set /\ req[r].browser = startedBy[s]
      <4>1. ck = req[r].to
        BY <1>1, <3>2, <3>3 DEF Deliver, TypeOK
      <4>2. Holds(ck, s)
        BY <2>3, <3>1, <3>3, <4>1 DEF LoneInv, Ready, BringsOn
      <4> QED
        BY <1>6, <3>1, <3>2, <4>2 DEF Holds
    <3>4. CASE ~ (req[r].set /\ req[r].browser = startedBy[s])
      <4>1. ck = cookie[startedBy[s]]
        BY <1>1, <3>2, <3>4 DEF Deliver, TypeOK
      <4>2. s \in atKeycloak
        <5>1. ASSUME req[r].verdict = "authorize", s = req[r].param PROVE FALSE
          <6>1. req[r].browser = startedBy[s]
            BY <1>1, <5>1 DEF Proper, StateOf
          <6>2. BringsOn(s, req[r])
            BY <2>3, <3>1, <6>1 DEF LoneInv, Ready
          <6> QED
            BY <3>4, <5>1, <6>1, <6>2 DEF BringsOn
        <5> QED
          BY <2>1, <5>1
      <4>3. Holds(ck, s)
        BY <2>3, <3>1, <4>1, <4>2 DEF LoneInv, Ready
      <4> QED
        BY <1>6, <3>1, <3>2, <4>3 DEF Holds
    <3> QED
      BY <3>3, <3>4
  <2> QED
    BY <2>2, <2>3
<1> QED
  BY <1>1, <1>2, <1>3, <1>4, <1>5, <1>6, <1>7, LoneChange

\* A response that is lost changes no session.
LEMMA DropLone ==
  ASSUME Undisturbed, IInv, LoneInv, IInv', NEW r \in Requests, Drop(r)
  PROVE  LoneInv'
<1>1. /\ TypeOK /\ TypeOK' /\ FlowInv /\ req[r].pc = "responded"
      /\ UNCHANGED <<cookie, store, states, keycloak>>
  BY DEF Drop, IInv
<1>2. req'[r] = NoRequest /\ \A q \in Requests : q # r => req'[q] = req[q]
  BY <1>1 DEF TypeOK, Drop, Lost
<1>3. Grows /\ torn' = {} /\ \A g \in Tokens : g < nextToken' => flow'[g] \in codeUsed'
  BY <1>1, GrowsByIssue DEF LoneInv, store, keycloak
<1>4. PICK o \in [IDs -> Browsers] : Owned(o)
  BY DEF IInv, OwnerInv
<1>5. Proper(req[r])' /\ \A s \in States : BringsOn(s, req[r])'
  BY <1>2, NoRequestLone DEF Proper, BringsOn
<1>6. \A s \in States, ck \in Cookies : Holds(ck, s) <=> Holds(ck, s)'
  BY <1>1 DEF Holds, Readable, Loaded, store
<1> QED
  BY <1>1, <1>2, <1>3, <1>4, <1>5, <1>6, LoneStep DEF keycloak

\* Keycloak's sessions, tokens and cached answers may end meanwhile.
LEMMA OutsideLone ==
  ASSUME LoneInv,
         UNCHANGED <<cookie, store, req, states, atKeycloak, codeUsed, nextToken, flow>>
  PROVE  LoneInv'
BY DEF LoneInv, Proper, Ready, BringsOn, Holds, HasBegun, HasGotToken, Lone, OnlyLogin, Taken,
       StateOf, TokenOf, Readable, Loaded, store, states

---------------------------------------------------------------------------
(* Together. *)

LEMMA InitLone == Init => LoneInv
<1> SUFFICES ASSUME Init PROVE LoneInv
  OBVIOUS
<1>1. \A r \in Requests : req[r] = NoRequest
  BY DEF Init
<1>2. \A r \in Requests : Proper(req[r])
  <2>1. Proper(NoRequest)
    BY DEF Proper, NoRequest, WithToken
  <2> QED
    BY <1>1, <2>1
<1>3. \A s \in States : ~ Lone(s)
  BY DEF Init, Lone, States
<1> QED
  BY <1>2, <1>3 DEF Init, LoneInv, Tokens

LEMMA NextLone == ASSUME Undisturbed, IInv, LoneInv, [Next]_vars PROVE LoneInv'
<1>1. IInv'
  BY NextInv
<1>2. ASSUME NEW t \in {"fail", "restart", "forget"}, Trouble(t) PROVE FALSE
  BY <1>2 DEF Undisturbed, Trouble
<1>3. ASSUME NEW r \in Requests, Handle(r) PROVE LoneInv'
  <2>1. CASE LoginLoad(r) \/ LoginSave(r)
    BY <1>1, <2>1, LoginLoadLone, LoginSaveLone
  <2>2. CASE CallbackLoad(r) \/ CallbackClearState(r) \/ CallbackExchange(r)
    BY <1>1, <2>2, CallbackLoadLone, CallbackClearStateLone, CallbackExchangeLone
  <2>3. CASE CallbackSaveToken(r) \/ AuthSaveToken(r) \/ SSOSave(r)
    BY <1>1, <2>3, SaveTokenLone
  <2>4. CASE Logout(r)
    BY <2>4 DEF Logout, LoneInv, Proper
  <2>5. CASE AuthLoad(r) \/ AuthRefresh(r) \/ AuthIntrospect(r) \/ SSOLoad(r)
    BY <1>1, <2>5, AuthLoadLone, AuthRefreshLone, TokenReadLone
  <2>6. CASE AuthClear(r)
    BY <1>1, <2>6, LoneClear DEF IInv
  <2> QED
    BY <1>3, <2>1, <2>2, <2>3, <2>4, <2>5, <2>6 DEF Handle
<1>4. ASSUME NEW r \in Requests, Deliver(r) \/ Drop(r) \/ Fail(r) PROVE LoneInv'
  BY <1>1, <1>2, <1>4, DeliverLone, DropLone DEF Fail
<1>5. ASSUME NEW r \in Requests, NEW b \in Browsers, NEW k \in Kinds, Send(r, b, k)
      PROVE  LoneInv'
  BY <1>1, <1>5, SendLone
<1>6. CASE Restart \/ \E b \in Browsers : Forget(b)
  BY <1>2, <1>6 DEF Restart, Forget
<1>7. CASE \/ \E b \in Browsers : EndSession(b)
           \/ \E g \in Tokens : Expire(g) \/ CacheExpires(g)
           \/ UNCHANGED vars
  BY <1>7, OutsideLone DEF EndSession, Expire, CacheExpires, vars, browser, keycloak, store, states
<1> QED
  BY <1>3, <1>4, <1>5, <1>6, <1>7 DEF Next

\* HandleLogin and HandleCallback lose a login to nothing but another login of
\* the same browser: whatever else its tabs do, however often a callback is
\* opened and in whose browser, and whichever tokens expire or sessions end at
\* Keycloak meanwhile, the first callback of a browser's only login that is
\* brought back to it goes through. Without logouts, failed steps, restarts and
\* forgotten cookies, for either store, unless max_age is 0 in Tier 1.
THEOREM LoginsAreKept == Undisturbed /\ Spec => []NoLoginIsLost
<1>1. IInv /\ (Undisturbed /\ LoneInv) /\ [Next]_vars => (Undisturbed /\ LoneInv)'
  BY NextLone DEF Undisturbed
<1>2. IInv /\ LoneInv => NoLoginIsLost
  <2> SUFFICES ASSUME IInv, LoneInv, NEW r \in Requests,
                      req[r].kind = "callback", req[r].verdict = "error",
                      startedBy[req[r].param] = req[r].browser, OnlyLogin(req[r].param),
                      ~ Taken(req[r].param)
               PROVE  FALSE
    BY DEF NoLoginIsLost
  <2>1. req[r].browser \in Browsers /\ Proper(req[r])
    BY RequestFacts DEF LoneInv
  <2>2. PICK s \in States : s = req[r].param /\ s < nextState
    BY <2>1 DEF Proper
  <2>3. Lone(s)
    BY <2>2 DEF Lone
  <2>4. BringsOn(s, req[r])
    BY <2>2, <2>3 DEF LoneInv, Ready
  <2> QED
    BY <2>2, <2>4 DEF BringsOn
<1>3. Undisturbed /\ Init => Undisturbed /\ LoneInv
  BY InitLone
<1> QED
  BY <1>1, <1>2, <1>3, InvariantHolds, PTL DEF Spec

=============================================================================
