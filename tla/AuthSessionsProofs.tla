------------------------- MODULE AuthSessionsProofs -------------------------
(***************************************************************************)
(* Proofs about AuthSessions, for any browsers, any number of requests,    *)
(* both stores, whatever browsers ask for and whatever goes wrong.         *)
(***************************************************************************)
EXTENDS AuthSessions, FiniteSetTheorems, TLAPS

---------------------------------------------------------------------------
(* The inductive invariant. *)

LoginsReceived == {r \in Requests : LoginReceived(r)}
LoginsSaving   == {r \in Requests : req[r].pc = "saveState"}

\* The counters cannot pass their bounds: every login that is under way has
\* its state, its session ID and its token set reserved.
CountInv ==
  /\ nextState + Cardinality(LoginsReceived) <= MaxStates + 1
  /\ nextID + Cardinality(LoginsSaving) <= nextState
  /\ Spare >= 0

\* Each token set issued belongs to the flow of a login that was started.
FlowInv ==
  \A g \in Tokens : IF g < nextToken THEN flow[g] \in States /\ flow[g] < nextState
                                     ELSE flow[g] = None

\* The state s, the token set g, and everything in vals come from logins b
\* has started.
StateOf(b, s) == s \in States /\ s < nextState /\ startedBy[s] = b
TokenOf(b, g) == g \in Tokens /\ g < nextToken /\ startedBy[flow[g]] = b

Mine(b, vals) ==
  /\ vals.state # None => StateOf(b, vals.state)
  /\ vals.token # None => TokenOf(b, vals.token)
  /\ vals.refresh # None => TokenOf(b, vals.refresh)

\* The session ID i has been given to b, if o says to whom each was given.
IdOf(o, b, i) == i # None => i < nextID /\ o[i] = b

Loading == {"clearState", "exchange", "refresh", "introspect", "saveToken", "ssoLoad", "saveSSO"}

\* A request has nothing of another browser in its hands: in its cookie, its
\* session, what Keycloak gave it, or its response. While it is past its
\* session's load, the session has the ID of the cookie, and there is one.
Keeps(o, rec) ==
  /\ IdOf(o, rec.browser, rec.cookie.id) /\ Mine(rec.browser, rec.cookie.values)
  /\ IdOf(o, rec.browser, rec.id) /\ Mine(rec.browser, rec.snap)
  /\ IdOf(o, rec.browser, rec.to.id) /\ Mine(rec.browser, rec.to.values)
  /\ rec.got # None => TokenOf(rec.browser, rec.got)
  /\ rec.pc \in {"clearState", "exchange"} => StateOf(rec.browser, rec.param)
  /\ rec.pc = "saveState" \/ rec.verdict = "authorize" => rec.param \in States
  /\ rec.verdict = "authorize" => rec.pc = "responded"
  /\ rec.pc = "introspect" => rec.snap.token # None
  /\ rec.pc \in Loading => (InCookie \/ rec.id # None) /\ rec.id = rec.cookie.id

\* Nor has a browser or a file.
Owned(o) ==
  /\ \A b \in Browsers : IdOf(o, b, cookie[b].id) /\ Mine(b, cookie[b].values)
  /\ \A r \in Requests : Keeps(o, req[r])
  /\ \A i \in DOMAIN files : i < nextID /\ Mine(o[i], files[i])

OwnerInv == \E o \in [IDs -> Browsers] : Owned(o)

IInv == TypeOK /\ CountInv /\ FlowInv /\ OwnerInv

USE StoreAssumption, KindsAssumption, PartiesAssumption, BoundsAssumption
USE DEF StoreAssumption, KindsAssumption, PartiesAssumption, BoundsAssumption

---------------------------------------------------------------------------
(* The records. *)

\* Two records of a request that differ only in pc and verdict.
Alike(new, rec) ==
  /\ new.browser = rec.browser /\ new.kind = rec.kind /\ new.cookie = rec.cookie
  /\ new.param = rec.param /\ new.id = rec.id /\ new.snap = rec.snap /\ new.got = rec.got
  /\ new.set = rec.set /\ new.to = rec.to /\ new.authed = rec.authed

\* The values a request, a cookie and a session start with have their types.
LEMMA NoRequestType == NoRequest \in RequestType /\ NoCookie \in Cookies /\ NoValues \in Values
<1>1. (CHOOSE b \in Browsers : TRUE) \in Browsers
  OBVIOUS
<1>2. NoValues \in Values /\ NoCookie \in Cookies
  BY DEF NoValues, Values, NoCookie, Cookies
<1> QED
  BY <1>1, <1>2 DEF NoRequest, RequestType, PCs, AllKinds, Verdicts

\* A request that only moves on has its type, and the rest of what it had.
LEMMA PcChanges ==
  ASSUME NEW rec \in RequestType, NEW p \in PCs
  PROVE  /\ [rec EXCEPT !.pc = p] \in RequestType
         /\ [rec EXCEPT !.pc = p].pc = p
         /\ Alike([rec EXCEPT !.pc = p], rec)
BY DEF RequestType, Alike

\* So does one that responds.
LEMMA RespondingChanges ==
  ASSUME NEW rec \in RequestType, NEW v \in Verdicts
  PROVE  /\ Responding(rec, v) \in RequestType
         /\ Responding(rec, v).pc = "responded" /\ Responding(rec, v).verdict = v
         /\ Alike(Responding(rec, v), rec)
BY DEF RequestType, Alike, Responding, PCs

\* What a load finds behind a cookie.
LEMMA LoadedType ==
  ASSUME TypeOK, NEW ck \in Cookies
  PROVE  Loaded(ck) \in Values
<1>1. ck.values \in Values
  BY DEF Cookies
<1>2. \A i \in DOMAIN files : files[i] \in Values
  BY DEF TypeOK
<1>3. ~ InCookie /\ ck.id # None /\ Readable(ck) => ck.id \in DOMAIN files
  BY DEF Readable
<1> QED
  BY <1>1, <1>2, <1>3, NoRequestType DEF Loaded

\* A request that has loaded its session has the type, and the ID of its cookie.
LEMMA WithSessionChanges ==
  ASSUME TypeOK, NEW r \in Requests, NEW p \in PCs
  PROVE  LET new == WithSession(r, p)
         IN  /\ new \in RequestType
             /\ new.pc = p /\ new.snap = Loaded(req[r].cookie) /\ new.id = req[r].cookie.id
             /\ new.browser = req[r].browser /\ new.kind = req[r].kind
             /\ new.cookie = req[r].cookie /\ new.param = req[r].param
             /\ new.got = req[r].got /\ new.set = req[r].set /\ new.to = req[r].to
             /\ new.authed = req[r].authed /\ new.verdict = req[r].verdict
<1>1. req[r] \in RequestType
  BY DEF TypeOK
<1>2. Loaded(req[r].cookie) \in Values /\ req[r].cookie.id \in IDs \cup {None}
  BY <1>1, LoadedType DEF RequestType, Cookies
<1> QED
  BY <1>1, <1>2 DEF WithSession, RequestType

---------------------------------------------------------------------------
(* What a step leaves as it was. *)

\* The counters go up, and what is below them stays.
Grows ==
  /\ nextState <= nextState' /\ nextToken <= nextToken' /\ nextID <= nextID'
  /\ \A s \in States : s < nextState => startedBy'[s] = startedBy[s]
  /\ \A g \in Tokens : g < nextToken => flow'[g] = flow[g]

\* The owners of the IDs given away are those they were.
Extends(p, o) == \A i \in IDs : i < nextID => p[i] = o[i]

\* What came from logins of b still does after the counters have grown.
LEMMA MineLasts ==
  ASSUME TypeOK, FlowInv, Grows, TypeOK'
  PROVE  /\ \A b \in Browsers, s \in States : StateOf(b, s) => StateOf(b, s)'
         /\ \A b \in Browsers, g \in Tokens : TokenOf(b, g) => TokenOf(b, g)'
         /\ \A b \in Browsers, vals \in Values : Mine(b, vals) => Mine(b, vals)'
<1>1. /\ nextState \in Int /\ nextState' \in Int /\ nextToken \in Int /\ nextToken' \in Int
      /\ \A s \in States : s \in Int
      /\ \A g \in Tokens : g \in Int
  BY DEF TypeOK, States, Tokens
<1>2. ASSUME NEW b \in Browsers, NEW s \in States, StateOf(b, s) PROVE StateOf(b, s)'
  BY <1>1, <1>2 DEF StateOf, Grows
<1>3. ASSUME NEW b \in Browsers, NEW g \in Tokens, TokenOf(b, g) PROVE TokenOf(b, g)'
  <2>1. flow[g] \in States /\ flow[g] < nextState /\ flow'[g] = flow[g]
    BY <1>3 DEF TokenOf, FlowInv, Grows
  <2> QED
    BY <1>1, <1>3, <2>1 DEF TokenOf, Grows
<1>4. ASSUME NEW b \in Browsers, NEW vals \in Values, Mine(b, vals) PROVE Mine(b, vals)'
  <2>1. /\ vals.state # None => vals.state \in States
        /\ vals.token # None => vals.token \in Tokens
        /\ vals.refresh # None => vals.refresh \in Tokens
    BY DEF Values
  <2> QED
    BY <1>2, <1>3, <1>4, <2>1 DEF Mine
<1> QED
  BY <1>2, <1>3, <1>4

\* The session IDs of b stay its own.
LEMMA IdLasts ==
  ASSUME TypeOK, Grows, TypeOK', NEW o, NEW p, Extends(p, o)
  PROVE  \A b \in Browsers, i \in IDs \cup {None} : IdOf(o, b, i) => IdOf(p, b, i)'
<1>1. nextID \in Int /\ nextID' \in Int /\ \A i \in IDs : i \in Int
  BY DEF TypeOK, IDs
<1> QED
  BY <1>1 DEF IdOf, Grows, Extends

\* A request that does nothing keeps what it has.
LEMMA KeepsLasts ==
  ASSUME TypeOK, FlowInv, Grows, TypeOK', NEW o, NEW p, Extends(p, o),
         NEW rec \in RequestType, Keeps(o, rec)
  PROVE  Keeps(p, rec)'
<1>1. /\ rec.browser \in Browsers
      /\ rec.cookie.values \in Values /\ rec.snap \in Values /\ rec.to.values \in Values
      /\ {rec.cookie.id, rec.id, rec.to.id} \subseteq IDs \cup {None}
      /\ rec.got # None => rec.got \in Tokens
      /\ rec.param # None => rec.param \in States
  BY DEF RequestType, Cookies
<1>2. rec.pc \in {"clearState", "exchange"} => StateOf(rec.browser, rec.param)'
  BY <1>1, MineLasts DEF Keeps, StateOf
<1>3. rec.got # None => TokenOf(rec.browser, rec.got)'
  BY <1>1, MineLasts DEF Keeps
<1>4. /\ Mine(rec.browser, rec.cookie.values)' /\ Mine(rec.browser, rec.snap)'
      /\ Mine(rec.browser, rec.to.values)'
  BY <1>1, MineLasts DEF Keeps
<1>5. /\ IdOf(p, rec.browser, rec.cookie.id)' /\ IdOf(p, rec.browser, rec.id)'
      /\ IdOf(p, rec.browser, rec.to.id)'
  BY <1>1, IdLasts DEF Keeps
<1>6. /\ rec.pc \in Loading => (InCookie \/ rec.id # None) /\ rec.id = rec.cookie.id
      /\ rec.pc = "saveState" \/ rec.verdict = "authorize" => rec.param \in States
      /\ rec.verdict = "authorize" => rec.pc = "responded"
      /\ rec.pc = "introspect" => rec.snap.token # None
  BY DEF Keeps
<1> QED
  BY <1>2, <1>3, <1>4, <1>5, <1>6 DEF Keeps

\* It is enough to look at what has changed.
LEMMA OwnerLasts ==
  ASSUME TypeOK, FlowInv, Grows, TypeOK',
         NEW o \in [IDs -> Browsers], Owned(o),
         NEW p \in [IDs -> Browsers], Extends(p, o),
         \A b \in Browsers : \/ cookie'[b] = cookie[b]
                             \/ IdOf(p, b, cookie[b].id)' /\ Mine(b, cookie[b].values)',
         \A r \in Requests : req'[r] = req[r] \/ Keeps(p, req[r])',
         \A i \in DOMAIN files' : \/ i \in DOMAIN files /\ files'[i] = files[i]
                                  \/ i < nextID' /\ Mine(p[i], files[i])'
  PROVE  OwnerInv'
<1>1. ASSUME NEW b \in Browsers PROVE IdOf(p, b, cookie[b].id)' /\ Mine(b, cookie[b].values)'
  <2>1. CASE cookie'[b] = cookie[b]
    <3>1. cookie[b].id \in IDs \cup {None} /\ cookie[b].values \in Values
      BY DEF TypeOK, Cookies
    <3>2. IdOf(o, b, cookie[b].id) /\ Mine(b, cookie[b].values)
      BY DEF Owned
    <3>3. \A i \in IDs \cup {None} : IdOf(o, b, i) => IdOf(p, b, i)'
      BY IdLasts
    <3>4. \A vals \in Values : Mine(b, vals) => Mine(b, vals)'
      BY MineLasts
    <3> QED
      BY <2>1, <3>1, <3>2, <3>3, <3>4 DEF IdOf, Mine
  <2> QED
    BY <2>1
<1>2. ASSUME NEW r \in Requests PROVE Keeps(p, req[r])'
  <2>1. CASE req'[r] = req[r]
    <3>1. req[r] \in RequestType /\ Keeps(o, req[r])
      BY DEF TypeOK, Owned
    <3>2. \A rec \in RequestType : Keeps(o, rec) => Keeps(p, rec)'
      BY KeepsLasts
    <3> QED
      BY <2>1, <3>1, <3>2 DEF Keeps
  <2> QED
    BY <2>1
<1>3. ASSUME NEW i \in DOMAIN files' PROVE i < nextID' /\ Mine(p[i], files[i])'
  <2>1. CASE i \in DOMAIN files /\ files'[i] = files[i]
    <3>1. /\ i \in IDs /\ i < nextID /\ files[i] \in Values /\ Mine(o[i], files[i])
          /\ o[i] \in Browsers /\ p[i] = o[i] /\ nextID \in Int /\ nextID' \in Int /\ i \in Int
      BY <2>1 DEF TypeOK, Owned, Extends, IDs
    <3>2. \A vals \in Values : Mine(o[i], vals) => Mine(o[i], vals)'
      BY <3>1, MineLasts
    <3>3. i < nextID'
      BY <3>1 DEF Grows
    <3> QED
      BY <2>1, <3>1, <3>2, <3>3 DEF Mine
  <2> QED
    BY <2>1
<1> QED
  BY <1>1, <1>2, <1>3 DEF OwnerInv, Owned

\* How a step of one request changes the two counts of logins.
LEMMA Counts ==
  ASSUME TypeOK, TypeOK', NEW r \in Requests, \A q \in Requests : q # r => req'[q] = req[q]
  PROVE  /\ Cardinality(LoginsReceived) \in Nat
         /\ Cardinality(LoginsSaving) \in Nat
         /\ Cardinality(LoginsReceived') =
              Cardinality(LoginsReceived) - (IF LoginReceived(r) THEN 1 ELSE 0)
                                          + (IF LoginReceived(r)' THEN 1 ELSE 0)
         /\ Cardinality(LoginsSaving') =
              Cardinality(LoginsSaving) - (IF req[r].pc = "saveState" THEN 1 ELSE 0)
                                        + (IF req'[r].pc = "saveState" THEN 1 ELSE 0)
<1>1. ASSUME NEW S \in SUBSET Requests, NEW T \in SUBSET Requests,
             \A q \in Requests : q # r => (q \in S <=> q \in T)
      PROVE  /\ Cardinality(S) \in Nat
             /\ Cardinality(T) = Cardinality(S) - (IF r \in S THEN 1 ELSE 0)
                                                + (IF r \in T THEN 1 ELSE 0)
  <2>1. IsFiniteSet(S) /\ IsFiniteSet(S \ {r}) /\ Cardinality(S) \in Nat
    BY FS_Subset, FS_CardinalityType
  <2>2. /\ Cardinality(S \ {r}) = Cardinality(S) - (IF r \in S THEN 1 ELSE 0)
        /\ Cardinality((S \ {r}) \cup {r}) = Cardinality(S \ {r}) + 1
        /\ Cardinality(S \ {r}) \in Nat
    <3>1. Cardinality(S \ {r}) = IF r \in S THEN Cardinality(S)-1 ELSE Cardinality(S)
      BY <2>1, FS_RemoveElement
    <3>2. Cardinality((S \ {r}) \cup {r})
            = IF r \in S \ {r} THEN Cardinality(S \ {r}) ELSE Cardinality(S \ {r}) + 1
      BY <2>1, FS_AddElement
    <3>3. r \notin S \ {r} /\ Cardinality(S \ {r}) \in Nat
      BY <2>1, FS_CardinalityType
    <3> QED
      BY <2>1, <3>1, <3>2, <3>3
  <2>3. /\ r \in T => T = (S \ {r}) \cup {r}
        /\ r \notin T => T = S \ {r}
    BY <1>1
  <2>4. Cardinality(T) = Cardinality(S \ {r}) + (IF r \in T THEN 1 ELSE 0)
    <3>1. CASE r \in T
      <4>1. Cardinality(T) = Cardinality((S \ {r}) \cup {r})
        BY <2>3, <3>1
      <4> QED
        BY ONLY <2>2, <3>1, <4>1
    <3>2. CASE r \notin T
      <4>1. Cardinality(T) = Cardinality(S \ {r})
        BY <2>3, <3>2
      <4> QED
        BY ONLY <2>2, <3>2, <4>1
    <3> QED
      BY <3>1, <3>2
  <2> QED
    BY ONLY <2>1, <2>2, <2>4
<1>2. /\ LoginsReceived \in SUBSET Requests /\ LoginsReceived' \in SUBSET Requests
      /\ LoginsSaving \in SUBSET Requests /\ LoginsSaving' \in SUBSET Requests
  BY DEF LoginsReceived, LoginsSaving
<1>3. \A q \in Requests :
        /\ (q \in LoginsReceived <=> LoginReceived(q))
        /\ (q \in LoginsReceived' <=> LoginReceived(q)')
        /\ (q \in LoginsSaving <=> req[q].pc = "saveState")
        /\ (q \in LoginsSaving' <=> req'[q].pc = "saveState")
  BY DEF LoginsReceived, LoginsSaving
<1>4. \A q \in Requests : q # r => (LoginReceived(q) <=> LoginReceived(q)')
  BY DEF LoginReceived
<1> HIDE DEF LoginsReceived, LoginsSaving
<1>5. /\ Cardinality(LoginsReceived) \in Nat
      /\ Cardinality(LoginsReceived') =
              Cardinality(LoginsReceived) - (IF r \in LoginsReceived THEN 1 ELSE 0)
                                          + (IF r \in LoginsReceived' THEN 1 ELSE 0)
  BY <1>1, <1>2, <1>3, <1>4
<1>6. /\ Cardinality(LoginsSaving) \in Nat
      /\ Cardinality(LoginsSaving') =
              Cardinality(LoginsSaving) - (IF r \in LoginsSaving THEN 1 ELSE 0)
                                        + (IF r \in LoginsSaving' THEN 1 ELSE 0)
  BY <1>1, <1>2, <1>3
<1> QED
  BY <1>3, <1>5, <1>6

---------------------------------------------------------------------------
(* The steps of a request. *)

\* A step that starts no login keeps the counts within their bounds.
LEMMA StepCounts ==
  ASSUME TypeOK, CountInv, TypeOK', NEW r \in Requests,
         \A q \in Requests : q # r => req'[q] = req[q],
         req'[r].pc \notin {"received", "saveState"},
         nextState' = nextState,
         nextID' = nextID \/ (req[r].pc = "saveState" /\ nextID' = nextID + 1),
         Spare' >= 0
  PROVE  CountInv'
<1>1. ~ LoginReceived(r)'
  BY DEF LoginReceived
<1>2. /\ nextState \in Int /\ nextID \in Int
      /\ nextState + Cardinality(LoginsReceived) <= MaxStates + 1
      /\ nextID + Cardinality(LoginsSaving) <= nextState
  BY DEF TypeOK, CountInv
<1>3. /\ Cardinality(LoginsReceived) \in Nat
      /\ Cardinality(LoginsSaving) \in Nat
      /\ Cardinality(LoginsReceived') <= Cardinality(LoginsReceived)
      /\ Cardinality(LoginsSaving') =
              Cardinality(LoginsSaving) - (IF req[r].pc = "saveState" THEN 1 ELSE 0)
  BY <1>1, Counts
<1>4. nextState' + Cardinality(LoginsReceived') <= MaxStates + 1
  <2>1. Cardinality(LoginsReceived') \in Int
    BY <1>1, Counts
  <2> QED
    BY <1>2, <1>3, <2>1
<1>5. nextID' + Cardinality(LoginsSaving') <= nextState'
  BY <1>2, <1>3
<1> QED
  BY <1>4, <1>5 DEF CountInv

\* A step that changes nothing but its request, and starts no login.
LEMMA QuietStep ==
  ASSUME IInv, NEW r \in Requests, NEW new \in RequestType,
         req' = [req EXCEPT ![r] = new],
         new.pc \notin {"received", "saveState"},
         UNCHANGED <<browser, store, states, atKeycloak, codeUsed, nextToken, flow, expired, ended>>,
         cached' \subseteq Tokens, trouble' \in 0 .. MaxTrouble,
         \A o \in [IDs -> Browsers] : Owned(o) => Keeps(o, new)
  PROVE  IInv'
<1>1. TypeOK /\ CountInv /\ FlowInv /\ OwnerInv
  BY DEF IInv
<1>2. req'[r] = new /\ \A q \in Requests : q # r => req'[q] = req[q]
  BY <1>1 DEF TypeOK
<1>a. TypeOK'
  <2>1. req' \in [Requests -> RequestType]
    BY <1>1 DEF TypeOK
  <2> QED
    BY <1>1, <2>1 DEF TypeOK, browser, store, states
<1>3. FlowInv' /\ Spare' = Spare
  BY <1>1 DEF FlowInv, Spare, states
<1>4. CountInv'
  BY <1>1, <1>2, <1>3, <1>a, StepCounts DEF CountInv, states, store
<1>5. OwnerInv'
  <2>1. PICK o \in [IDs -> Browsers] : Owned(o)
    BY <1>1 DEF OwnerInv
  <2>2. Grows /\ Extends(o, o)
    BY <1>1 DEF Grows, Extends, TypeOK, states, store
  <2>3. Keeps(o, req[r])'
    <3>1. Keeps(o, new)
      BY <2>1
    <3>2. Keeps(o, new)'
      BY <1>1, <1>a, <2>2, <3>1, KeepsLasts
    <3> QED
      BY <1>2, <3>2 DEF Keeps
  <2> QED
    BY <1>1, <1>2, <1>a, <2>1, <2>2, <2>3, OwnerLasts DEF store, browser
<1> QED
  BY <1>1, <1>3, <1>4, <1>5, <1>a DEF IInv

\* Erase: a file goes, and its cookie with it.
LEMMA EraseStep ==
  ASSUME IInv, NEW r \in Requests, NEW id, NEW rec \in RequestType, Erase(r, id, rec),
         UNCHANGED <<browser, states, keycloak, trouble>>,
         rec.pc \notin {"received", "saveState"},
         \A o \in [IDs -> Browsers] : Owned(o) => Keeps(o, rec)
  PROVE  IInv'
<1> DEFINE new == [rec EXCEPT !.set = TRUE, !.to = NoCookie]
<1>1. TypeOK /\ CountInv /\ FlowInv /\ OwnerInv
  BY DEF IInv
<1>2. /\ new \in RequestType /\ new.pc = rec.pc /\ new.browser = rec.browser
      /\ new.cookie = rec.cookie /\ new.id = rec.id /\ new.snap = rec.snap
      /\ new.got = rec.got /\ new.param = rec.param /\ new.to = NoCookie
      /\ new.verdict = rec.verdict
  BY NoRequestType DEF RequestType
<1>3. /\ req' = [req EXCEPT ![r] = new] /\ torn' = torn \ {id} /\ nextID' = nextID
      /\ files' = [i \in DOMAIN files \ {id} |-> files[i]]
  BY DEF Erase
<1> HIDE DEF new
<1>4. req'[r] = new /\ \A q \in Requests : q # r => req'[q] = req[q]
  BY <1>1, <1>3 DEF TypeOK
<1>5. TypeOK'
  <2>1. req' \in [Requests -> RequestType]
    BY <1>1, <1>2, <1>3 DEF TypeOK
  <2>2. /\ DOMAIN files' \subseteq IDs /\ \A i \in DOMAIN files' : files'[i] \in Values
        /\ torn' \subseteq DOMAIN files'
    BY <1>1, <1>3 DEF TypeOK
  <2> QED
    BY <1>1, <1>3, <2>1, <2>2 DEF TypeOK, browser, states, keycloak
<1>6. FlowInv' /\ Spare' = Spare
  BY <1>1 DEF FlowInv, Spare, states, keycloak
<1>7. CountInv'
  BY <1>1, <1>2, <1>3, <1>4, <1>5, <1>6, StepCounts DEF CountInv, states
<1>8. OwnerInv'
  <2>1. PICK o \in [IDs -> Browsers] : Owned(o)
    BY <1>1 DEF OwnerInv
  <2>2. Grows /\ Extends(o, o)
    BY <1>1, <1>3 DEF Grows, Extends, TypeOK, states, keycloak
  <2>3. Keeps(o, req[r])'
    <3>1. Keeps(o, rec)
      BY <2>1
    <3>2. Keeps(o, rec)'
      BY <1>1, <1>5, <2>2, <3>1, KeepsLasts
    <3>3. NoCookie.id = None /\ NoCookie.values = NoValues
      BY DEF NoCookie
    <3>4. NoValues.token = None /\ NoValues.refresh = None /\ NoValues.state = None
      BY DEF NoValues
    <3>5. req'[r].to.id = None /\ Mine(rec.browser, req[r].to.values)'
      BY <1>2, <1>4, <3>3, <3>4 DEF Mine
    <3> QED
      BY <1>2, <1>4, <3>2, <3>5 DEF Keeps, IdOf
  <2>4. \A i \in DOMAIN files' : i \in DOMAIN files /\ files'[i] = files[i]
    BY <1>3
  <2> QED
    BY <1>1, <1>4, <1>5, <2>1, <2>2, <2>3, <2>4, OwnerLasts DEF browser
<1> QED
  BY <1>1, <1>5, <1>6, <1>7, <1>8 DEF IInv

\* Write: the session goes into its file, or into a new one, whose ID is then
\* the browser's.
LEMMA WriteStep ==
  ASSUME IInv, NEW r \in Requests, NEW vals \in Values, NEW rec \in RequestType,
         Write(r, vals, rec), UNCHANGED <<browser, states, keycloak, trouble>>,
         Alike(rec, req[r]), Mine(req[r].browser, vals),
         req[r].pc \in Loading \cup {"saveState"},
         \/ rec.pc = "responded"
         \/ rec.pc \in {"exchange", "ssoLoad"} /\ req[r].pc \in Loading,
         rec.pc = "exchange" => StateOf(req[r].browser, req[r].param),
         rec.verdict = "authorize" => rec.pc = "responded" /\ req[r].param \in States
  PROVE  IInv'
<1>1. TypeOK /\ CountInv /\ FlowInv /\ OwnerInv
  BY DEF IInv
<1>a. PICK b \in Browsers : b = req[r].browser
  BY <1>1 DEF TypeOK, RequestType
<1>b. PICK new \in BOOLEAN : new = (~ InCookie /\ req[r].id = None)
  OBVIOUS
<1>c. PICK id : id = IF new THEN nextID ELSE req[r].id
  OBVIOUS
<1> DEFINE ck    == IF InCookie THEN [id |-> None, values |-> vals]
                    ELSE [id |-> id, values |-> NoValues]
           after == [rec EXCEPT !.id = id, !.snap = vals, !.set = TRUE, !.to = ck]
<1>2. /\ files' = IF InCookie THEN files
                  ELSE [i \in DOMAIN files \cup {id} |-> IF i = id THEN vals ELSE files[i]]
      /\ torn' = torn \ {id}
      /\ nextID' = IF new THEN nextID + 1 ELSE nextID
      /\ req' = [req EXCEPT ![r] = after]
  BY <1>b, <1>c, Zenon DEF Write
<1>3. req[r] \in RequestType /\ req[r].id \in IDs \cup {None}
  BY <1>1 DEF TypeOK, RequestType
<1>4. PICK o \in [IDs -> Browsers] : Owned(o)
  BY <1>1 DEF OwnerInv
<1>5. Keeps(o, req[r]) /\ IdOf(o, b, req[r].id) /\ IdOf(o, b, req[r].cookie.id)
  BY <1>4, <1>a DEF Owned, Keeps
<1>6. new => req[r].pc = "saveState" /\ nextID \in IDs
  <2> SUFFICES ASSUME new PROVE req[r].pc = "saveState" /\ nextID \in IDs
    OBVIOUS
  <2>1. req[r].pc = "saveState"
    BY <1>5, <1>b DEF Keeps
  <2>2. r \in LoginsSaving /\ LoginsSaving \subseteq Requests
    BY <2>1 DEF LoginsSaving
  <2>3. Cardinality(LoginsSaving) \in Nat /\ Cardinality(LoginsSaving) # 0
    <3>1. IsFiniteSet(LoginsSaving)
      BY <2>2, FS_Subset
    <3> QED
      BY <2>2, <3>1, FS_CardinalityType, FS_EmptySet
  <2>4. nextID \in Int /\ nextID >= 1 /\ nextState \in Int /\ nextState <= MaxStates + 1
    BY <1>1 DEF TypeOK
  <2>5. nextID + Cardinality(LoginsSaving) <= nextState
    BY <1>1 DEF CountInv
  <2> QED
    BY <2>1, <2>3, <2>4, <2>5 DEF IDs
<1>7. id \in IDs \cup {None} /\ ck \in Cookies /\ (~ InCookie => id \in IDs)
  <2>1. id \in IDs \cup {None} /\ (~ InCookie => id \in IDs)
    BY <1>3, <1>6, <1>b, <1>c
  <2> QED
    BY <2>1, NoRequestType DEF Cookies
<1>8. /\ after \in RequestType /\ after.pc = rec.pc /\ after.browser = b
      /\ after.cookie = req[r].cookie /\ after.id = id /\ after.snap = vals
      /\ after.got = req[r].got /\ after.param = req[r].param /\ after.to = ck
      /\ after.verdict = rec.verdict
  BY <1>7, <1>a DEF RequestType, Alike
<1>9. after.pc \in Loading => ~ new
  BY <1>6, <1>8 DEF Loading
<1> HIDE DEF after
<1>10. req'[r] = after /\ \A q \in Requests : q # r => req'[q] = req[q]
  BY <1>1, <1>2 DEF TypeOK
<1>11. TypeOK'
  <2>1. req' \in [Requests -> RequestType]
    BY <1>1, <1>2, <1>8 DEF TypeOK
  <2>2. /\ DOMAIN files' \subseteq IDs /\ \A i \in DOMAIN files' : files'[i] \in Values
        /\ torn' \subseteq DOMAIN files'
    <3>1. CASE InCookie
      BY <1>1, <1>2, <3>1 DEF TypeOK
    <3>2. CASE ~ InCookie
      BY <1>1, <1>2, <1>7, <3>2 DEF TypeOK
    <3> QED
      BY <3>1, <3>2
  <2>3. nextID' \in 1 .. MaxStates + 1
    BY <1>1, <1>2, <1>6 DEF TypeOK, IDs
  <2> QED
    BY <1>1, <2>1, <2>2, <2>3 DEF TypeOK, browser, states, keycloak
<1>12. FlowInv' /\ Spare' = Spare
  BY <1>1 DEF FlowInv, Spare, states, keycloak
<1>13. CountInv'
  <2>1. nextID' = nextID \/ (req[r].pc = "saveState" /\ nextID' = nextID + 1)
    BY <1>2, <1>6
  <2>2. req'[r].pc \notin {"received", "saveState"}
    BY <1>8, <1>10
  <2> QED
    BY <1>1, <1>10, <1>11, <1>12, <2>1, <2>2, StepCounts DEF CountInv, states
<1>14. OwnerInv'
  <2> DEFINE p == IF new THEN [o EXCEPT ![id] = b] ELSE o
  <2>1. p \in [IDs -> Browsers]
    OBVIOUS
  <2>2. Grows /\ Extends(p, o)
    <3>1. nextID \in Int /\ \A i \in IDs : i \in Int
      BY <1>1 DEF TypeOK, IDs
    <3>2. Extends(p, o)
      BY <1>c, <3>1 DEF Extends
    <3> QED
      BY <1>1, <1>2, <3>1, <3>2 DEF Grows, TypeOK, states, keycloak
  <2>3. IdOf(p, b, id)' /\ (~ InCookie => id < nextID' /\ p[id] = b)
    <3>1. nextID \in Int /\ \A i \in IDs : i \in Int
      BY <1>1 DEF TypeOK, IDs
    <3>2. CASE new
      BY <1>2, <1>6, <1>c, <3>1, <3>2 DEF IdOf
    <3>3. CASE ~ new
      <4>1. id = req[r].id /\ nextID' = nextID /\ p = o
        BY <1>2, <1>c, <3>3
      <4>2. ~ InCookie => id # None
        BY <1>b, <1>c, <3>3
      <4> QED
        BY <1>2, <1>3, <1>5, <3>1, <4>1, <4>2 DEF IdOf
    <3> QED
      BY <3>2, <3>3
  <2> HIDE DEF p
  <2>4. Mine(b, vals)'
    <3>1. Mine(b, vals)
      BY <1>a
    <3> QED
      BY <1>1, <1>11, <2>2, <3>1, MineLasts
  <2>5. Keeps(p, req[r])'
    <3>2. \A c \in Browsers, i \in IDs \cup {None} : IdOf(o, c, i) => IdOf(p, c, i)'
      BY <1>1, <1>11, <2>2, IdLasts
    <3>3. req[r].cookie.id \in IDs \cup {None} /\ req[r].cookie.values \in Values
      BY <1>3 DEF RequestType, Cookies
    <3>4. IdOf(p, b, after.cookie.id)'
      BY <1>3, <1>5, <1>8, <3>2, <3>3 DEF IdOf
    <3>5. Mine(b, after.cookie.values)'
      <4>1. Mine(b, req[r].cookie.values)
        BY <1>5, <1>a DEF Keeps
      <4>2. \A v \in Values : Mine(b, v) => Mine(b, v)'
        BY <1>1, <1>3, <1>11, <2>2, MineLasts
      <4> QED
        BY <1>8, <3>3, <4>1, <4>2 DEF Mine
    <3>6. Mine(b, after.snap)'
      BY <1>8, <2>4 DEF Mine
    <3>7. IdOf(p, b, after.to.id)' /\ Mine(b, after.to.values)'
      <4>1. CASE InCookie
        BY <1>8, <2>4, <4>1 DEF IdOf, Mine
      <4>2. CASE ~ InCookie
        <5>1. after.to.id = id /\ after.to.values = NoValues
          BY <1>8, <4>2
        <5> QED
          BY <2>3, <5>1 DEF IdOf, Mine, NoValues
      <4> QED
        BY <4>1, <4>2
    <3>8. after.got # None => TokenOf(b, after.got)'
      <4>1. req[r].got # None => req[r].got \in Tokens /\ TokenOf(b, req[r].got)
        BY <1>3, <1>5, <1>a DEF Keeps, RequestType
      <4>2. \A g \in Tokens : TokenOf(b, g) => TokenOf(b, g)'
        BY <1>1, <1>3, <1>11, <2>2, MineLasts
      <4> QED
        BY <1>8, <4>1, <4>2 DEF TokenOf
    <3>9. after.pc \in {"clearState", "exchange"} => StateOf(b, after.param)'
      <4>1. after.pc \in {"clearState", "exchange"} => StateOf(b, req[r].param)
        BY <1>8, <1>a
      <4>2. \A s \in States : StateOf(b, s) => StateOf(b, s)'
        BY <1>1, <1>3, <1>11, <2>2, MineLasts
      <4> QED
        BY <1>8, <4>1, <4>2 DEF StateOf
    <3>10. after.pc \in Loading => (InCookie \/ after.id # None) /\ after.id = after.cookie.id
      <4> SUFFICES ASSUME after.pc \in Loading
                   PROVE  (InCookie \/ after.id # None) /\ after.id = after.cookie.id
        OBVIOUS
      <4>1. req[r].pc \in Loading
        BY <1>8 DEF Loading
      <4> QED
        BY <1>5, <1>8, <1>9, <1>b, <1>c, <4>1 DEF Keeps
    <3>11. /\ after.pc = "saveState" \/ after.verdict = "authorize" => after.param \in States
           /\ after.verdict = "authorize" => after.pc = "responded"
           /\ after.pc # "introspect"
      BY <1>8
    <3> QED
      BY <1>8, <1>10, <2>3, <3>4, <3>5, <3>6, <3>7, <3>8, <3>9, <3>10, <3>11 DEF Keeps, IdOf
  <2>6. \A i \in DOMAIN files' : \/ i \in DOMAIN files /\ files'[i] = files[i]
                                 \/ i < nextID' /\ Mine(p[i], files[i])'
    <3>1. CASE InCookie
      BY <1>2, <3>1
    <3>2. CASE ~ InCookie
      <4>1. files'[id] = vals /\ DOMAIN files' = DOMAIN files \cup {id}
        BY <1>2, <3>2
      <4>2. id < nextID' /\ Mine(p[id], files[id])'
        BY <2>3, <2>4, <3>2, <4>1 DEF Mine
      <4> QED
        BY <1>2, <3>2, <4>1, <4>2
    <3> QED
      BY <3>1, <3>2
  <2> QED
    BY <1>1, <1>4, <1>10, <1>11, <2>1, <2>2, <2>5, <2>6, OwnerLasts DEF browser
<1> QED
  BY <1>1, <1>11, <1>12, <1>13, <1>14 DEF IInv

\* Save: whichever of the two.
LEMMA SaveStep ==
  ASSUME IInv, NEW r \in Requests, NEW vals \in Values, NEW rec \in RequestType,
         Save(r, vals, rec), UNCHANGED <<browser, states, keycloak, trouble>>,
         Alike(rec, req[r]), Mine(req[r].browser, vals),
         req[r].pc \in Loading \cup {"saveState"},
         \/ rec.pc = "responded"
         \/ rec.pc \in {"exchange", "ssoLoad"} /\ req[r].pc \in Loading,
         rec.pc = "exchange" => StateOf(req[r].browser, req[r].param),
         rec.verdict = "authorize" => rec.pc = "responded" /\ req[r].param \in States
  PROVE  IInv'
<1>1. CASE SessionOnly /\ ~ InCookie
  <2> DEFINE new == [rec EXCEPT !.snap = vals]
  <2>1. Erase(r, req[r].id, new)
    BY <1>1 DEF Save
  <2>2. /\ new \in RequestType /\ new.pc = rec.pc /\ new.browser = rec.browser
        /\ new.cookie = rec.cookie /\ new.id = rec.id /\ new.snap = vals
        /\ new.got = rec.got /\ new.param = rec.param /\ new.to = rec.to
        /\ new.verdict = rec.verdict
    BY DEF RequestType
  <2> HIDE DEF new
  <2>3. ASSUME NEW o \in [IDs -> Browsers], Owned(o) PROVE Keeps(o, new)
    <3>1. Keeps(o, req[r])
      BY <2>3 DEF Owned
    <3> QED
      BY <2>2, <3>1 DEF Keeps, Alike, Loading
  <2>4. new.pc \notin {"received", "saveState"}
    BY <2>2
  <2> QED
    BY <2>1, <2>2, <2>3, <2>4, EraseStep
<1>2. CASE ~ (SessionOnly /\ ~ InCookie)
  <2>1. Write(r, vals, rec)
    BY <1>2 DEF Save
  <2> QED
    BY <2>1, WriteStep
<1> QED
  BY <1>1, <1>2

\* Clear: the request ends with an erased session.
LEMMA ClearStep ==
  ASSUME IInv, NEW r \in Requests, NEW id, NEW rec \in RequestType, NEW v \in Verdicts,
         Clear(r, id, rec, v), UNCHANGED <<browser, states, keycloak, trouble>>,
         \A o \in [IDs -> Browsers] : Owned(o) => Keeps(o, Responding(rec, v))
  PROVE  IInv'
<1>1. Responding(rec, v) \in RequestType /\ Responding(rec, v).pc = "responded"
  BY RespondingChanges
<1>2. Erase(r, id, Responding(rec, v))
  BY DEF Clear
<1> QED
  BY <1>1, <1>2, EraseStep

\* What a request has keeps being its browser's when it responds, or goes on.
LEMMA KeepsAlike ==
  ASSUME NEW o, NEW rec, NEW new, Keeps(o, rec), Alike(new, rec),
         new.pc \in {"clearState", "exchange"} => StateOf(rec.browser, rec.param),
         new.pc = "saveState" \/ new.verdict = "authorize" => rec.param \in States,
         new.verdict = "authorize" => new.pc = "responded",
         new.pc = "introspect" => rec.snap.token # None,
         new.pc \in Loading => (InCookie \/ rec.id # None) /\ rec.id = rec.cookie.id
  PROVE  Keeps(o, new)
BY DEF Keeps, Alike

\* What a load finds is the browser's whose cookie it is.
LEMMA LoadedIsMine ==
  ASSUME TypeOK, NEW o \in [IDs -> Browsers], Owned(o), NEW b \in Browsers, NEW ck \in Cookies,
         IdOf(o, b, ck.id), Mine(b, ck.values)
  PROVE  Mine(b, Loaded(ck)) /\ (Loaded(ck) # NoValues /\ ~ InCookie => ck.id # None)
<1>1. Mine(b, NoValues)
  BY DEF Mine, NoValues
<1>2. ~ InCookie /\ ck.id # None /\ Readable(ck) => ck.id \in DOMAIN files
  BY DEF Readable
<1>3. ck.id \in DOMAIN files => Mine(o[ck.id], files[ck.id])
  BY DEF Owned
<1>4. ck.id # None => o[ck.id] = b
  BY DEF IdOf
<1> QED
  BY <1>1, <1>2, <1>3, <1>4 DEF Loaded

---------------------------------------------------------------------------
(* Every action preserves it. *)

\* A browser sends a request with its own cookie, whatever the callback it brings.
LEMMA SendInv ==
  ASSUME IInv, NEW r \in Requests, NEW b \in Browsers, NEW k \in Kinds, Send(r, b, k)
  PROVE  IInv'
<1>1. TypeOK /\ CountInv /\ FlowInv /\ OwnerInv
  BY DEF IInv
<1>2. PICK s \in IF k = "callback" THEN atKeycloak ELSE {None} :
        /\ req' = [req EXCEPT ![r] =
                     [NoRequest EXCEPT !.pc = "received", !.browser = b, !.kind = k,
                                       !.cookie = cookie[b], !.param = s,
                                       !.authed = HasToken(cookie[b])]]
        /\ atKeycloak' = IF Replay THEN atKeycloak ELSE atKeycloak \ {s}
  BY DEF Send
<1>a. PICK new : new = [NoRequest EXCEPT !.pc = "received", !.browser = b, !.kind = k,
                                         !.cookie = cookie[b], !.param = s,
                                         !.authed = HasToken(cookie[b])]
  OBVIOUS
<1>3. cookie[b] \in Cookies /\ s \in States \cup {None} /\ HasToken(cookie[b]) \in BOOLEAN
  <2>1. HasToken(cookie[b]) \in BOOLEAN
    BY DEF HasToken, Readable, InCookie
  <2> QED
    BY <1>1, <2>1 DEF TypeOK
<1>4. /\ new \in RequestType /\ new.pc = "received" /\ new.browser = b /\ new.kind = k
      /\ new.cookie = cookie[b] /\ new.id = None /\ new.snap = NoValues /\ new.got = None
      /\ new.to = NoCookie /\ new.verdict = "none"
  <2>1. /\ NoRequest \in RequestType /\ "received" \in PCs /\ k \in AllKinds
        /\ NoRequest.id = None /\ NoRequest.snap = NoValues /\ NoRequest.got = None
        /\ NoRequest.to = NoCookie /\ NoRequest.verdict = "none"
    BY NoRequestType DEF NoRequest, PCs
  <2> QED
    BY <1>3, <1>a, <2>1 DEF RequestType
<1>5. req'[r] = new /\ \A q \in Requests : q # r => req'[q] = req[q]
  BY <1>1, <1>2, <1>4, <1>a DEF TypeOK
<1>6. TypeOK'
  <2>1. req' \in [Requests -> RequestType]
    BY <1>1, <1>2, <1>4, <1>a DEF TypeOK
  <2>2. atKeycloak' \subseteq States
    BY <1>1, <1>2 DEF TypeOK
  <2> QED
    BY <1>1, <2>1, <2>2 DEF TypeOK, Send, browser, store, states
<1>7. FlowInv' /\ Spare' = Spare
  BY <1>1 DEF FlowInv, Spare, Send, states
<1>8. CountInv'
  <2>1. /\ nextState' = nextState /\ nextID' = nextID /\ nextState \in Int /\ nextID \in Int
        /\ req[r].pc = "idle"
    BY <1>1 DEF TypeOK, Send, states, store
  <2>2. ~ LoginReceived(r) /\ (LoginReceived(r)' <=> k = "login")
    BY <1>4, <1>5, <2>1 DEF LoginReceived
  <2>3. k = "login" => nextState + Cardinality(LoginsReceived) <= MaxStates
    BY DEF Send, LoginsReceived
  <2>4. /\ Cardinality(LoginsReceived) \in Nat /\ Cardinality(LoginsSaving) \in Nat
        /\ Cardinality(LoginsReceived') = Cardinality(LoginsReceived) + (IF k = "login" THEN 1 ELSE 0)
        /\ Cardinality(LoginsSaving') = Cardinality(LoginsSaving)
    BY <1>1, <1>4, <1>5, <1>6, <2>1, <2>2, Counts
  <2> QED
    BY <1>1, <1>7, <2>1, <2>3, <2>4 DEF CountInv
<1>9. OwnerInv'
  <2>1. PICK o \in [IDs -> Browsers] : Owned(o)
    BY <1>1 DEF OwnerInv
  <2>2. Grows /\ Extends(o, o)
    BY <1>1 DEF Grows, Extends, TypeOK, Send, states, store
  <2>3. Keeps(o, new)
    <3>1. IdOf(o, b, cookie[b].id) /\ Mine(b, cookie[b].values)
      BY <2>1 DEF Owned
    <3>2. Mine(b, NoValues) /\ IdOf(o, b, None)
      BY DEF Mine, NoValues, IdOf
    <3> QED
      BY <1>4, <3>1, <3>2 DEF Keeps, NoCookie, Loading
  <2>4. Keeps(o, new)'
    BY <1>1, <1>4, <1>6, <2>2, <2>3, KeepsLasts
  <2>5. Keeps(o, req[r])'
    BY <1>5, <2>4 DEF Keeps
  <2>6. cookie' = cookie /\ files' = files
    BY DEF Send, browser, store
  <2> QED
    BY <1>1, <1>5, <1>6, <2>1, <2>2, <2>5, <2>6, OwnerLasts
<1> QED
  BY <1>1, <1>6, <1>7, <1>8, <1>9 DEF IInv

(* HandleLogin *)

\* A login gets the state that was reserved for it.
LEMMA LoginLoadInv == ASSUME IInv, NEW r \in Requests, LoginLoad(r) PROVE IInv'
<1>1. TypeOK /\ CountInv /\ FlowInv /\ OwnerInv
  BY DEF IInv
<1>2. req[r] \in RequestType /\ req[r].cookie \in Cookies /\ Loaded(req[r].cookie) \in Values
  BY <1>1, LoadedType DEF TypeOK, RequestType
<1>a. PICK b \in Browsers : b = req[r].browser
  BY <1>2 DEF RequestType
<1>b. PICK s : s = nextState
  OBVIOUS
<1>c. PICK new : new = [WithSession(r, "saveState") EXCEPT !.param = nextState,
                                                           !.snap.state = nextState]
  OBVIOUS
<1>3. /\ req' = [req EXCEPT ![r] = new]
      /\ nextState' = s + 1
      /\ startedBy' = [startedBy EXCEPT ![s] = b]
      /\ UNCHANGED <<browser, store, keycloak, trouble>>
  BY <1>a, <1>b, <1>c DEF LoginLoad
<1>4. s \in States /\ s \in Int
  <2>1. r \in LoginsReceived /\ LoginsReceived \subseteq Requests
    BY DEF LoginsReceived, LoginLoad
  <2>2. Cardinality(LoginsReceived) \in Nat /\ Cardinality(LoginsReceived) # 0
    <3>1. IsFiniteSet(LoginsReceived)
      BY <2>1, FS_Subset
    <3> QED
      BY <2>1, <3>1, FS_CardinalityType, FS_EmptySet
  <2>3. s \in Int /\ s >= 1
    BY <1>1, <1>b DEF TypeOK
  <2>4. s + Cardinality(LoginsReceived) <= MaxStates + 1
    BY <1>1, <1>b DEF CountInv
  <2> QED
    BY <2>2, <2>3, <2>4 DEF States
<1>5. /\ new \in RequestType /\ new.pc = "saveState" /\ new.browser = b
      /\ new.cookie = req[r].cookie /\ new.id = req[r].cookie.id
      /\ new.snap.token = Loaded(req[r].cookie).token
      /\ new.snap.refresh = Loaded(req[r].cookie).refresh
      /\ new.snap.state = s
      /\ new.got = req[r].got /\ new.to = req[r].to /\ new.param = s
      /\ new.verdict = req[r].verdict
  <2>1. PICK w : w = WithSession(r, "saveState")
    OBVIOUS
  <2>2. /\ w \in RequestType
        /\ w.pc = "saveState" /\ w.snap = Loaded(req[r].cookie) /\ w.id = req[r].cookie.id
        /\ w.browser = b /\ w.cookie = req[r].cookie /\ w.got = req[r].got /\ w.to = req[r].to
        /\ w.verdict = req[r].verdict
    <3>1. "saveState" \in PCs
      BY DEF PCs
    <3> QED
      BY <1>1, <1>a, <2>1, <3>1, WithSessionChanges
  <2>3. new = [w EXCEPT !.param = s, !.snap = [w.snap EXCEPT !.state = s]]
    BY <1>b, <1>c, <2>1, <2>2 DEF RequestType
  <2>4. w.snap \in Values
    BY <1>2, <2>2
  <2>5. /\ [w.snap EXCEPT !.state = s] \in Values
        /\ [w.snap EXCEPT !.state = s].state = s
        /\ [w.snap EXCEPT !.state = s].token = w.snap.token
        /\ [w.snap EXCEPT !.state = s].refresh = w.snap.refresh
    BY <1>4, <2>4 DEF Values
  <2> QED
    BY <1>4, <2>2, <2>3, <2>5 DEF RequestType
<1>6. req'[r] = new /\ \A q \in Requests : q # r => req'[q] = req[q]
  BY <1>1, <1>3 DEF TypeOK
<1>7. TypeOK'
  <2>1. req' \in [Requests -> RequestType] /\ startedBy' \in [States -> Browsers]
    BY <1>1, <1>3, <1>5 DEF TypeOK
  <2>2. nextState' \in 1 .. MaxStates + 1
    BY <1>3, <1>4 DEF States
  <2> QED
    BY <1>1, <1>3, <2>1, <2>2 DEF TypeOK, browser, store, keycloak
<1>8. FlowInv' /\ Spare' = Spare
  <2>1. \A g \in Tokens : flow[g] \in States => flow[g] \in Int
    BY DEF States
  <2> QED
    BY <1>1, <1>3, <1>4, <1>b, <2>1 DEF FlowInv, Spare, keycloak
<1>9. CountInv'
  <2>1. LoginReceived(r) /\ ~ LoginReceived(r)' /\ req[r].pc # "saveState"
    BY <1>5, <1>6 DEF LoginLoad, LoginReceived
  <2>2. /\ Cardinality(LoginsReceived) \in Nat /\ Cardinality(LoginsSaving) \in Nat
        /\ Cardinality(LoginsReceived') = Cardinality(LoginsReceived) - 1
        /\ Cardinality(LoginsSaving') = Cardinality(LoginsSaving) + 1
    BY <1>1, <1>5, <1>6, <1>7, <2>1, Counts
  <2>3. nextID' = nextID /\ nextID \in Int /\ nextState \in Int
    BY <1>1, <1>3 DEF TypeOK, store
  <2> QED
    BY <1>1, <1>3, <1>8, <1>b, <2>2, <2>3 DEF CountInv
<1>10. OwnerInv'
  <2>1. PICK o \in [IDs -> Browsers] : Owned(o)
    BY <1>1 DEF OwnerInv
  <2>2. Grows /\ Extends(o, o)
    <3>1. \A t \in States : t \in Int
      BY DEF States
    <3> QED
      BY <1>1, <1>3, <1>4, <1>b, <3>1 DEF Grows, Extends, TypeOK, store, keycloak
  <2>3. PICK old : old = req[r]
    OBVIOUS
  <2>4. Keeps(o, old) /\ old \in RequestType
    BY <1>2, <2>1, <2>3 DEF Owned
  <2>5. Keeps(o, old)'
    BY <1>1, <1>7, <2>2, <2>4, KeepsLasts
  <2>6. Mine(b, new.snap)'
    <3>1. PICK vals \in Values : vals = Loaded(req[r].cookie)
      BY <1>2
    <3>2. Mine(b, vals)
      BY <1>1, <1>2, <1>a, <2>1, <2>3, <2>4, <3>1, LoadedIsMine DEF Keeps
    <3>3. Mine(b, vals)'
      BY <1>1, <1>7, <2>2, <3>2, MineLasts
    <3>4. StateOf(b, s)'
      BY <1>1, <1>3, <1>4 DEF StateOf, TypeOK
    <3> QED
      BY <1>5, <3>1, <3>3, <3>4 DEF Mine
  <2>7. Keeps(o, new)'
    <3>1. new.verdict # "authorize"
      BY <1>5, <2>3, <2>4 DEF Keeps, LoginLoad, LoginReceived
    <3> QED
      BY <1>4, <1>5, <1>a, <2>3, <2>5, <2>6, <3>1 DEF Keeps, Loading
  <2>8. Keeps(o, req[r])'
    BY <1>6, <2>7 DEF Keeps
  <2>9. cookie' = cookie /\ files' = files
    BY <1>3 DEF browser, store
  <2> QED
    BY <1>1, <1>6, <1>7, <2>1, <2>2, <2>8, <2>9, OwnerLasts
<1> QED
  BY <1>1, <1>7, <1>8, <1>9, <1>10 DEF IInv

\* Its session gets a file, under an ID that was reserved for it, if it has none.
LEMMA LoginSaveInv == ASSUME IInv, NEW r \in Requests, LoginSave(r) PROVE IInv'
<1>1. TypeOK /\ req[r] \in RequestType /\ req[r].snap \in Values /\ req[r].pc = "saveState"
  BY DEF IInv, TypeOK, RequestType, LoginSave
<1>2. /\ Responding(req[r], "authorize") \in RequestType
      /\ Responding(req[r], "authorize").pc = "responded"
      /\ Alike(Responding(req[r], "authorize"), req[r])
  BY <1>1, RespondingChanges DEF Verdicts
<1>3. Mine(req[r].browser, req[r].snap) /\ req[r].param \in States
  BY <1>1 DEF IInv, OwnerInv, Owned, Keeps
<1> QED
  BY <1>1, <1>2, <1>3, SaveStep DEF LoginSave

\* What IInv says of one request.
LEMMA RequestFacts ==
  ASSUME IInv, NEW r \in Requests
  PROVE  /\ req[r] \in RequestType /\ req[r].browser \in Browsers
         /\ req[r].snap \in Values /\ req[r].cookie \in Cookies
         /\ Mine(req[r].browser, req[r].snap)
         /\ req[r].pc \in {"clearState", "exchange"} => StateOf(req[r].browser, req[r].param)
         /\ req[r].pc = "saveState" \/ req[r].verdict = "authorize" => req[r].param \in States
         /\ req[r].verdict = "authorize" => req[r].pc = "responded"
         /\ req[r].pc = "introspect" => req[r].snap.token # None
         /\ req[r].pc \in Loading =>
              (InCookie \/ req[r].id # None) /\ req[r].id = req[r].cookie.id
         /\ req[r].got # None => TokenOf(req[r].browser, req[r].got)
         /\ Loaded(req[r].cookie) \in Values
         /\ Mine(req[r].browser, Loaded(req[r].cookie))
         /\ ~ InCookie /\ Loaded(req[r].cookie) # NoValues => req[r].cookie.id # None
<1>1. /\ req[r] \in RequestType /\ req[r].browser \in Browsers
      /\ req[r].snap \in Values /\ req[r].cookie \in Cookies
  BY DEF IInv, TypeOK, RequestType
<1>2. PICK o \in [IDs -> Browsers] : Owned(o)
  BY DEF IInv, OwnerInv
<1>3. Keeps(o, req[r])
  BY <1>2 DEF Owned
<1>4. Loaded(req[r].cookie) \in Values
  BY <1>1, LoadedType DEF IInv
<1>5. /\ Mine(req[r].browser, Loaded(req[r].cookie))
      /\ ~ InCookie /\ Loaded(req[r].cookie) # NoValues => req[r].cookie.id # None
  BY <1>1, <1>2, <1>3, LoadedIsMine DEF IInv, Keeps
<1> QED
  BY <1>1, <1>3, <1>4, <1>5 DEF Keeps

\* A request that has loaded its session keeps what it had.
LEMMA WithSessionKeeps ==
  ASSUME IInv, NEW r \in Requests, NEW p \in PCs,
         req[r].pc # "responded", p # "saveState",
         p \in {"clearState", "exchange"} => StateOf(req[r].browser, req[r].param),
         p \in Loading => InCookie \/ req[r].cookie.id # None,
         p = "introspect" => Loaded(req[r].cookie).token # None
  PROVE  \A o \in [IDs -> Browsers] : Owned(o) => Keeps(o, WithSession(r, p))
<1> SUFFICES ASSUME NEW o \in [IDs -> Browsers], Owned(o) PROVE Keeps(o, WithSession(r, p))
  OBVIOUS
<1>1. TypeOK
  BY DEF IInv
<1>2. PICK w : w = WithSession(r, p)
  OBVIOUS
<1>3. /\ w.pc = p /\ w.snap = Loaded(req[r].cookie) /\ w.id = req[r].cookie.id
      /\ w.browser = req[r].browser /\ w.cookie = req[r].cookie /\ w.param = req[r].param
      /\ w.got = req[r].got /\ w.to = req[r].to /\ w.verdict = req[r].verdict
  BY <1>1, <1>2, WithSessionChanges
<1>4. Keeps(o, req[r])
  BY DEF Owned
<1>5. Mine(req[r].browser, Loaded(req[r].cookie))
  BY RequestFacts
<1> QED
  BY <1>2, <1>3, <1>4, <1>5 DEF Keeps

\* An error, or another end of a request that changes no session.
LEMMA RespondStep ==
  ASSUME IInv, NEW r \in Requests, NEW v \in Verdicts \ {"authorize"},
         req' = [req EXCEPT ![r] = Responding(req[r], v)],
         UNCHANGED <<browser, store, states, keycloak>>, trouble' \in 0 .. MaxTrouble
  PROVE  IInv'
<1>1. req[r] \in RequestType
  BY RequestFacts
<1>2. PICK new : new = Responding(req[r], v)
  OBVIOUS
<1>3. new \in RequestType /\ new.pc = "responded" /\ Alike(new, req[r]) /\ new.verdict = v
  BY <1>1, <1>2, RespondingChanges
<1>4. \A o \in [IDs -> Browsers] : Owned(o) => Keeps(o, new)
  BY <1>3, KeepsAlike DEF Owned, Loading
<1>5. cached' \subseteq Tokens
  BY DEF IInv, TypeOK, keycloak
<1> QED
  BY <1>2, <1>3, <1>4, <1>5, QuietStep DEF keycloak

(* HandleCallback *)

\* A callback goes on only with the state of its own session, which is the browser's.
LEMMA CallbackLoadInv == ASSUME IInv, NEW r \in Requests, CallbackLoad(r) PROVE IInv'
<1>1. TypeOK /\ trouble' \in 0 .. MaxTrouble /\ cached' \subseteq Tokens
  BY DEF IInv, TypeOK, CallbackLoad, keycloak
<1>2. CASE Readable(req[r].cookie) /\ StateMatches(req[r], Loaded(req[r].cookie))
  <2>1. PICK new : new = WithSession(r, "clearState")
    OBVIOUS
  <2>2. req' = [req EXCEPT ![r] = new]
    BY <1>2, <2>1 DEF CallbackLoad
  <2>3. new \in RequestType /\ new.pc = "clearState"
    <3>1. "clearState" \in PCs
      BY DEF PCs
    <3> QED
      BY <1>1, <2>1, <3>1, WithSessionChanges
  <2>4. \A o \in [IDs -> Browsers] : Owned(o) => Keeps(o, new)
    <3>1. Loaded(req[r].cookie).state = req[r].param /\ req[r].param # None
      BY <1>2 DEF StateMatches
    <3>2. StateOf(req[r].browser, req[r].param)
      BY <3>1, RequestFacts DEF Mine
    <3>3. InCookie \/ req[r].cookie.id # None
      BY <3>1, RequestFacts DEF NoValues
    <3>4. "clearState" \in PCs
      BY DEF PCs
    <3> QED
      BY <2>1, <3>2, <3>3, <3>4, WithSessionKeeps DEF CallbackLoad
  <2> QED
    BY <1>1, <2>2, <2>3, <2>4, QuietStep DEF CallbackLoad, keycloak
<1>3. CASE ~ (Readable(req[r].cookie) /\ StateMatches(req[r], Loaded(req[r].cookie)))
  <2>1. req' = [req EXCEPT ![r] = Responding(req[r], "error")]
    BY <1>3 DEF CallbackLoad, Respond
  <2> QED
    BY <1>1, <2>1, RespondStep DEF CallbackLoad, Verdicts
<1> QED
  BY <1>2, <1>3

\* Clearing the state leaves the rest of the session as it was loaded.
LEMMA CallbackClearStateInv ==
  ASSUME IInv, NEW r \in Requests, CallbackClearState(r) PROVE IInv'
<1>1. req[r] \in RequestType /\ req[r].pc = "clearState" /\ req[r].snap \in Values
  BY RequestFacts DEF CallbackClearState
<1>2. StateOf(req[r].browser, req[r].param) /\ req[r].verdict # "authorize"
  BY <1>1, RequestFacts
<1>3. PICK vals : vals = [req[r].snap EXCEPT !.state = None]
  OBVIOUS
<1>4. /\ vals \in Values /\ vals.state = None
      /\ vals.token = req[r].snap.token /\ vals.refresh = req[r].snap.refresh
  BY <1>1, <1>3 DEF Values
<1>5. Mine(req[r].browser, vals)
  BY <1>4, RequestFacts DEF Mine
<1>6. PICK rec : rec = [req[r] EXCEPT !.pc = "exchange"]
  OBVIOUS
<1>7. rec \in RequestType /\ rec.pc = "exchange" /\ Alike(rec, req[r])
  <2>1. "exchange" \in PCs
    BY DEF PCs
  <2> QED
    BY <1>1, <1>6, <2>1, PcChanges
<1>8. rec.verdict = req[r].verdict
  BY <1>1, <1>6 DEF RequestType
<1>9. Save(r, vals, rec) /\ UNCHANGED <<browser, states, keycloak, trouble>>
  BY <1>3, <1>6 DEF CallbackClearState
<1>10. req[r].pc \in Loading
  BY <1>1 DEF Loading
<1> QED
  BY <1>2, <1>4, <1>5, <1>7, <1>8, <1>9, <1>10, SaveStep

\* Keycloak issues a token set to a request of the browser that started the flow.
LEMMA IssueStep ==
  ASSUME IInv, NEW r \in Requests, NEW s \in States, Issue(r, s, "saveToken"),
         StateOf(req[r].browser, s), req[r].pc \in Loading,
         nextToken <= MaxTokens, codeUsed' \subseteq States, Spare' >= 0,
         UNCHANGED <<browser, store, states, atKeycloak, expired, ended, cached, trouble>>
  PROVE  IInv'
<1>1. TypeOK /\ CountInv /\ FlowInv /\ OwnerInv /\ req[r] \in RequestType
  BY RequestFacts DEF IInv
<1>a. PICK b \in Browsers : b = req[r].browser
  BY RequestFacts
<1>b. PICK g : g = nextToken
  OBVIOUS
<1>c. PICK new : new = [req[r] EXCEPT !.got = g, !.pc = "saveToken"]
  OBVIOUS
<1>2. g \in Tokens /\ g \in Int /\ \A t \in Tokens : t \in Int
  BY <1>1, <1>b DEF TypeOK, Tokens
<1>3. nextToken' = g + 1 /\ flow' = [flow EXCEPT ![g] = s] /\ req' = [req EXCEPT ![r] = new]
  <2>1. req' = [req EXCEPT ![r].got = g, ![r].pc = "saveToken"]
    BY <1>b DEF Issue
  <2>2. req' = [req EXCEPT ![r] = new]
    BY <1>1, <1>c, <2>1 DEF TypeOK
  <2> QED
    BY <1>b, <2>2 DEF Issue
<1>4. /\ new \in RequestType /\ new.pc = "saveToken" /\ new.got = g /\ new.browser = b
      /\ new.cookie = req[r].cookie /\ new.id = req[r].id /\ new.snap = req[r].snap
      /\ new.to = req[r].to /\ new.param = req[r].param /\ new.verdict = req[r].verdict
  BY <1>1, <1>2, <1>a, <1>c DEF RequestType, PCs
<1>5. req'[r] = new /\ \A q \in Requests : q # r => req'[q] = req[q]
  BY <1>1, <1>3 DEF TypeOK
<1>6. TypeOK'
  <2>1. req' \in [Requests -> RequestType] /\ flow' \in [Tokens -> States \cup {None}]
    BY <1>1, <1>3, <1>4 DEF TypeOK
  <2>2. nextToken' \in 1 .. MaxTokens + 1
    BY <1>1, <1>3, <1>b DEF TypeOK
  <2> QED
    BY <1>1, <2>1, <2>2 DEF TypeOK, browser, store, states
<1>7. FlowInv'
  <2>1. nextState' = nextState /\ s < nextState
    BY DEF states, StateOf
  <2>2. ASSUME NEW t \in Tokens
        PROVE  IF t < nextToken' THEN flow'[t] \in States /\ flow'[t] < nextState'
                                 ELSE flow'[t] = None
    <3>1. CASE t = g
      BY <1>1, <1>2, <1>3, <2>1, <3>1 DEF TypeOK
    <3>2. CASE t # g
      <4>1. flow'[t] = flow[t] /\ (t < nextToken' <=> t < nextToken)
        BY <1>1, <1>2, <1>3, <1>b, <3>2 DEF TypeOK
      <4> QED
        BY <1>1, <2>1, <4>1 DEF FlowInv
    <3> QED
      BY <3>1, <3>2
  <2> QED
    BY <2>2 DEF FlowInv
<1>8. CountInv'
  BY <1>1, <1>4, <1>5, <1>6, StepCounts DEF states, store
<1>9. OwnerInv'
  <2>1. PICK o \in [IDs -> Browsers] : Owned(o)
    BY <1>1 DEF OwnerInv
  <2>2. Grows /\ Extends(o, o)
    BY <1>1, <1>2, <1>3, <1>b DEF Grows, Extends, TypeOK, states, store
  <2>3. PICK old : old = req[r]
    OBVIOUS
  <2>4. Keeps(o, old) /\ old \in RequestType /\ old.pc \in Loading
    BY <1>1, <2>1, <2>3 DEF Owned
  <2>5. Keeps(o, old)'
    BY <1>1, <1>6, <2>2, <2>4, KeepsLasts
  <2>6. TokenOf(b, g)'
    BY <1>1, <1>2, <1>3, <1>a DEF TokenOf, StateOf, TypeOK, states
  <2>7. /\ (InCookie \/ old.id # None) /\ old.id = old.cookie.id
        /\ old.verdict # "authorize"
    BY <2>4 DEF Keeps, Loading
  <2>8. Keeps(o, new)'
    BY <1>4, <1>a, <2>3, <2>5, <2>6, <2>7 DEF Keeps
  <2>9. Keeps(o, req[r])'
    BY <1>5, <2>8 DEF Keeps
  <2> QED
    BY <1>1, <1>5, <1>6, <2>1, <2>2, <2>9, OwnerLasts DEF browser, store
<1> QED
  BY <1>1, <1>6, <1>7, <1>8, <1>9 DEF IInv

\* A code is exchanged once, for a token set of the flow it belongs to.
LEMMA CallbackExchangeInv ==
  ASSUME IInv, NEW r \in Requests, CallbackExchange(r) PROVE IInv'
<1>1. /\ req[r].pc = "exchange" /\ req[r].pc \in Loading
      /\ StateOf(req[r].browser, req[r].param) /\ req[r].param \in States
  BY RequestFacts DEF CallbackExchange, Loading, StateOf
<1>2. UNCHANGED <<browser, store, states, atKeycloak, expired, ended, cached, trouble>>
  BY DEF CallbackExchange
<1>3. TypeOK /\ Spare >= 0
  BY DEF IInv, CountInv
<1>4. CASE /\ req[r].param \notin codeUsed
           /\ Issue(r, req[r].param, "saveToken")
           /\ codeUsed' = codeUsed \cup {req[r].param}
  <2>1. codeUsed \subseteq States /\ codeUsed' \subseteq States
    BY <1>1, <1>3, <1>4 DEF TypeOK
  <2>2. IsFiniteSet(States) /\ Cardinality(States) = MaxStates
    BY FS_Interval DEF States
  <2>3. /\ IsFiniteSet(codeUsed) /\ Cardinality(codeUsed) \in Nat
        /\ Cardinality(codeUsed') <= MaxStates
    BY <2>1, <2>2, FS_Subset, FS_CardinalityType
  <2>4. Cardinality(codeUsed') = Cardinality(codeUsed) + 1
    BY <1>4, <2>3, FS_AddElement
  <2>5. nextToken \in Int /\ nextToken' = nextToken + 1
    BY <1>3, <1>4 DEF TypeOK, Issue
  <2>6. nextToken <= MaxTokens /\ Spare' >= 0
    BY <1>3, <2>3, <2>4, <2>5 DEF Spare
  <2> QED
    BY <1>1, <1>2, <1>4, <2>1, <2>6, IssueStep
<1>5. CASE Respond(r, "error") /\ UNCHANGED <<nextToken, flow, codeUsed>>
  <2>1. req' = [req EXCEPT ![r] = Responding(req[r], "error")]
    BY <1>5 DEF Respond
  <2>2. "error" \in Verdicts \ {"authorize"} /\ trouble' \in 0 .. MaxTrouble
    BY <1>2, <1>3 DEF Verdicts, TypeOK
  <2> QED
    BY <1>2, <1>5, <2>1, <2>2, RespondStep DEF keycloak
<1> QED
  BY <1>4, <1>5 DEF CallbackExchange

\* A save of the token a request has got.
LEMMA SaveTokenStep ==
  ASSUME IInv, NEW r \in Requests, NEW rec \in RequestType, SaveToken(r, rec),
         UNCHANGED <<browser, states, keycloak, trouble>>,
         Alike(rec, req[r]), req[r].pc = "saveToken", rec.pc \in {"responded", "ssoLoad"},
         rec.verdict # "authorize"
  PROVE  IInv'
<1>1. PICK vals : vals = TokenValues(req[r].snap, req[r].got)
  OBVIOUS
<1>2. req[r].snap \in Values /\ req[r].got \in Tokens \cup {None}
  BY RequestFacts DEF RequestType
<1>3. /\ vals \in Values /\ vals.state = req[r].snap.state /\ vals.token = req[r].got
      /\ vals.refresh = req[r].got \/ vals.refresh = req[r].snap.refresh
  BY <1>1, <1>2 DEF TokenValues, Values
<1>4. Mine(req[r].browser, vals)
  BY <1>3, RequestFacts DEF Mine
<1>5. req[r].pc \in Loading
  BY DEF Loading
<1>6. Save(r, vals, rec)
  BY <1>1 DEF SaveToken
<1> QED
  BY <1>3, <1>4, <1>5, <1>6, SaveStep

\* The token of a callback goes into the session of its browser.
LEMMA CallbackSaveTokenInv ==
  ASSUME IInv, NEW r \in Requests, CallbackSaveToken(r) PROVE IInv'
<1>1. req[r] \in RequestType
  BY RequestFacts
<1>2. PICK rec : rec = Responding(req[r], "home")
  OBVIOUS
<1>3. rec \in RequestType /\ rec.pc = "responded" /\ Alike(rec, req[r]) /\ rec.verdict = "home"
  BY <1>1, <1>2, RespondingChanges DEF Verdicts
<1> QED
  BY <1>2, <1>3, SaveTokenStep DEF CallbackSaveToken

\* A logout erases the session, and takes the browser's own token as the hint.
LEMMA LogoutInv == ASSUME IInv, NEW r \in Requests, Logout(r) PROVE IInv'
<1>1. /\ req[r] \in RequestType /\ Loaded(req[r].cookie) \in Values
      /\ Mine(req[r].browser, Loaded(req[r].cookie)) /\ req[r].pc = "received"
  BY RequestFacts DEF Logout
<1>2. PICK g : g = IF InCookie THEN None ELSE Loaded(req[r].cookie).token
  OBVIOUS
<1>3. PICK rec : rec = [req[r] EXCEPT !.got = g]
  OBVIOUS
<1>4. g \in Tokens \cup {None} /\ (g # None => TokenOf(req[r].browser, g))
  BY <1>1, <1>2 DEF Values, Mine
<1>5. /\ rec \in RequestType /\ rec.pc = "received" /\ rec.got = g
      /\ rec.browser = req[r].browser /\ rec.cookie = req[r].cookie /\ rec.id = req[r].id
      /\ rec.snap = req[r].snap /\ rec.to = req[r].to /\ rec.param = req[r].param
      /\ rec.verdict = req[r].verdict
  BY <1>1, <1>3, <1>4 DEF RequestType
<1>6. "kcLogout" \in Verdicts
  BY DEF Verdicts
<1>7. /\ Responding(rec, "kcLogout").pc = "responded" /\ Alike(Responding(rec, "kcLogout"), rec)
      /\ Responding(rec, "kcLogout").verdict = "kcLogout"
  BY <1>5, <1>6, RespondingChanges
<1>8. \A o \in [IDs -> Browsers] : Owned(o) => Keeps(o, Responding(rec, "kcLogout"))
  <2> SUFFICES ASSUME NEW o \in [IDs -> Browsers], Owned(o)
               PROVE  Keeps(o, Responding(rec, "kcLogout"))
    OBVIOUS
  <2>1. Keeps(o, req[r])
    BY DEF Owned
  <2>2. Keeps(o, rec)
    BY <1>1, <1>4, <1>5, <2>1 DEF Keeps, Loading
  <2> QED
    BY <1>7, <2>2, KeepsAlike DEF Loading
<1>9. Clear(r, req[r].cookie.id, rec, "kcLogout")
  BY <1>2, <1>3 DEF Logout
<1> QED
  BY <1>5, <1>6, <1>8, <1>9, ClearStep DEF Logout

---------------------------------------------------------------------------
(* The steps of AuthRequired, and of the handlers behind it. *)

\* A request that is admitted is answered, or goes on to load its session again.
LEMMA AdmittedChanges ==
  ASSUME NEW rec \in RequestType
  PROVE  /\ Admitted(rec) \in RequestType /\ Alike(Admitted(rec), rec)
         /\ \/ Admitted(rec).pc = "responded" /\ Admitted(rec).verdict = "served"
            \/ Admitted(rec).pc = "ssoLoad" /\ Admitted(rec).verdict = rec.verdict
<1>1. "served" \in Verdicts /\ "ssoLoad" \in PCs
  BY DEF Verdicts, PCs
<1>2. CASE rec.kind = "page"
  BY <1>1, <1>2, RespondingChanges DEF Admitted
<1>3. CASE rec.kind # "page"
  BY <1>1, <1>3, PcChanges DEF Admitted, RequestType
<1> QED
  BY <1>2, <1>3

\* A step of a request that keeps what it has, and goes on or ends.
LEMMA GoesOn ==
  ASSUME IInv, NEW r \in Requests, NEW rec \in RequestType, NEW new \in RequestType,
         req' = [req EXCEPT ![r] = new], Alike(new, rec),
         \A o \in [IDs -> Browsers] : Owned(o) => Keeps(o, rec),
         new.pc \in {"responded", "ssoLoad", "clear"},
         new.verdict # "authorize",
         new.pc = "ssoLoad" => (InCookie \/ rec.id # None) /\ rec.id = rec.cookie.id,
         UNCHANGED <<browser, store, states, atKeycloak, codeUsed, nextToken, flow, expired, ended>>,
         cached' \subseteq Tokens, trouble' \in 0 .. MaxTrouble
  PROVE  IInv'
<1>1. \A o \in [IDs -> Browsers] : Owned(o) => Keeps(o, new)
  BY KeepsAlike DEF Loading
<1> QED
  BY <1>1, QuietStep

\* A request that will clear its session.
LEMMA ClearNext ==
  ASSUME IInv, NEW r \in Requests, req[r].pc \in Loading, req' = [req EXCEPT ![r].pc = "clear"],
         UNCHANGED <<browser, store, states, atKeycloak, codeUsed, nextToken, flow, expired, ended>>,
         cached' \subseteq Tokens, trouble' \in 0 .. MaxTrouble
  PROVE  IInv'
<1>1. req[r] \in RequestType /\ req[r].verdict # "authorize" /\ TypeOK
  BY RequestFacts DEF Loading, IInv
<1>2. PICK new : new = [req[r] EXCEPT !.pc = "clear"]
  OBVIOUS
<1>3. new \in RequestType /\ new.pc = "clear" /\ Alike(new, req[r]) /\ new.verdict = req[r].verdict
  <2>1. "clear" \in PCs
    BY DEF PCs
  <2> QED
    BY <1>1, <1>2, <2>1, PcChanges DEF RequestType
<1>4. req' = [req EXCEPT ![r] = new]
  BY <1>1, <1>2 DEF TypeOK
<1>5. \A o \in [IDs -> Browsers] : Owned(o) => Keeps(o, req[r])
  BY DEF Owned
<1> QED
  BY <1>1, <1>3, <1>4, <1>5, GoesOn

\* AuthRequired loads the session and decides from its token what to do.
LEMMA AuthLoadInv == ASSUME IInv, NEW r \in Requests, AuthLoad(r) PROVE IInv'
<1>1. /\ TypeOK /\ trouble' \in 0 .. MaxTrouble /\ cached' \subseteq Tokens
      /\ UNCHANGED <<browser, store, states, keycloak>>
  BY DEF IInv, TypeOK, AuthLoad, keycloak
<1>2. /\ req[r].pc = "received" /\ req[r] \in RequestType /\ req[r].verdict # "authorize"
      /\ Loaded(req[r].cookie) \in Values
  BY RequestFacts DEF AuthLoad
<1>3. PICK sess \in Values : sess = Loaded(req[r].cookie)
  BY <1>2
<1>4. req' = [req EXCEPT ![r] =
                IF sess.token = None THEN Responding(req[r], "login")
                ELSE IF InCookie THEN WithSession(r, "introspect")
                ELSE IF sess.token \in expired THEN WithSession(r, "refresh")
                ELSE Admitted(WithSession(r, "received"))]
  BY <1>3 DEF AuthLoad
<1>5. sess.token # None => InCookie \/ req[r].cookie.id # None
  BY <1>3, RequestFacts DEF NoValues
<1>6. CASE sess.token = None
  <2>1. "login" \in Verdicts \ {"authorize"}
    BY DEF Verdicts
  <2>2. req' = [req EXCEPT ![r] = Responding(req[r], "login")]
    BY <1>4, <1>6
  <2> QED
    BY <1>1, <2>1, <2>2, RespondStep
<1>7. ASSUME sess.token # None, NEW p \in {"introspect", "refresh"},
             req' = [req EXCEPT ![r] = WithSession(r, p)]
      PROVE  IInv'
  <2>1. p \in PCs
    BY DEF PCs
  <2>2. PICK new : new = WithSession(r, p)
    OBVIOUS
  <2>3. new \in RequestType /\ new.pc = p
    BY <1>1, <2>1, <2>2, WithSessionChanges
  <2>4. \A o \in [IDs -> Browsers] : Owned(o) => Keeps(o, new)
    BY <1>2, <1>3, <1>5, <1>7, <2>1, <2>2, WithSessionKeeps
  <2> QED
    BY <1>1, <1>7, <2>2, <2>3, <2>4, QuietStep DEF keycloak
<1>8. ASSUME sess.token # None, req' = [req EXCEPT ![r] = Admitted(WithSession(r, "received"))]
      PROVE  IInv'
  <2>1. "received" \in PCs /\ "received" \notin Loading
    BY DEF PCs, Loading
  <2>2. PICK w : w = WithSession(r, "received")
    OBVIOUS
  <2>3. /\ w \in RequestType /\ w.id = req[r].cookie.id /\ w.cookie = req[r].cookie
        /\ w.verdict = req[r].verdict
    BY <1>1, <2>1, <2>2, WithSessionChanges
  <2>4. \A o \in [IDs -> Browsers] : Owned(o) => Keeps(o, w)
    BY <1>2, <2>1, <2>2, WithSessionKeeps
  <2>5. PICK new : new = Admitted(w)
    OBVIOUS
  <2>6. /\ new \in RequestType /\ Alike(new, w) /\ new.verdict # "authorize"
        /\ new.pc \in {"responded", "ssoLoad", "clear"}
    BY <1>2, <2>3, <2>5, AdmittedChanges
  <2> QED
    BY <1>1, <1>5, <1>8, <2>2, <2>3, <2>4, <2>5, <2>6, GoesOn DEF keycloak
<1> QED
  BY <1>4, <1>6, <1>7, <1>8

\* A refresh gives a token set of the same flow.
LEMMA AuthRefreshInv == ASSUME IInv, NEW r \in Requests, AuthRefresh(r) PROVE IInv'
<1>1. /\ req[r].pc = "refresh" /\ req[r].pc \in Loading /\ req[r] \in RequestType
      /\ req[r].snap \in Values /\ Mine(req[r].browser, req[r].snap)
      /\ req[r].verdict # "authorize"
  BY RequestFacts DEF AuthRefresh, Loading
<1>2. /\ TypeOK /\ FlowInv /\ Spare >= 0
      /\ UNCHANGED <<browser, store, states, atKeycloak, codeUsed, expired, ended, cached, trouble>>
      /\ cached' \subseteq Tokens /\ trouble' \in 0 .. MaxTrouble
  BY DEF IInv, CountInv, TypeOK, AuthRefresh
<1>3. PICK g \in Tokens \cup {None} : g = req[r].snap.refresh
  BY <1>1 DEF Values
<1>4. ASSUME g # None, Reissue(r, flow[g], "saveToken") PROVE IInv'
  <2>1. g \in Tokens /\ TokenOf(req[r].browser, g)
    BY <1>1, <1>3, <1>4 DEF Mine
  <2>2. PICK s \in States : s = flow[g]
    BY <1>2, <2>1 DEF FlowInv, TokenOf
  <2>3. StateOf(req[r].browser, s)
    BY <1>2, <2>1, <2>2 DEF FlowInv, TokenOf, StateOf
  <2>4. CASE Spare > 0 /\ Issue(r, s, "saveToken")
    <3>1. IsFiniteSet(States) /\ Cardinality(States) = MaxStates
      BY FS_Interval DEF States
    <3>2. Cardinality(codeUsed) \in Nat /\ Cardinality(codeUsed) <= MaxStates
      BY <1>2, <3>1, FS_Subset, FS_CardinalityType DEF TypeOK
    <3>3. nextToken \in Int /\ nextToken' = nextToken + 1 /\ codeUsed' = codeUsed
      BY <1>2, <2>4 DEF TypeOK, Issue
    <3>4. nextToken <= MaxTokens /\ Spare' >= 0
      BY <2>4, <3>2, <3>3 DEF Spare
    <3>5. codeUsed' \subseteq States
      BY <1>2 DEF TypeOK
    <3> QED
      BY <1>1, <1>2, <2>3, <2>4, <3>4, <3>5, IssueStep
  <2>5. ASSUME NEW t \in Tokens, flow[t] = s, req' = [req EXCEPT ![r].got = t, ![r].pc = "saveToken"],
               UNCHANGED <<nextToken, flow>>
        PROVE  IInv'
    <3>1. PICK new : new = [req[r] EXCEPT !.got = t, !.pc = "saveToken"]
      OBVIOUS
    <3>2. /\ new \in RequestType /\ new.pc = "saveToken" /\ new.got = t
          /\ new.browser = req[r].browser /\ new.cookie = req[r].cookie
          /\ new.id = req[r].id /\ new.snap = req[r].snap /\ new.to = req[r].to
          /\ new.param = req[r].param /\ new.verdict = req[r].verdict
      BY <1>1, <3>1 DEF RequestType, PCs
    <3>3. req' = [req EXCEPT ![r] = new]
      BY <1>2, <2>5, <3>1 DEF TypeOK
    <3>4. t < nextToken
      BY <1>2, <2>5 DEF FlowInv, States, None
    <3>5. TokenOf(req[r].browser, t)
      BY <2>3, <2>5, <3>4 DEF TokenOf, StateOf
    <3>6. \A o \in [IDs -> Browsers] : Owned(o) => Keeps(o, new)
      <4> SUFFICES ASSUME NEW o \in [IDs -> Browsers], Owned(o) PROVE Keeps(o, new)
        OBVIOUS
      <4>1. Keeps(o, req[r])
        BY DEF Owned
      <4> QED
        BY <1>1, <3>2, <3>5, <4>1 DEF Keeps
    <3> QED
      BY <1>2, <2>5, <3>2, <3>3, <3>6, QuietStep
  <2> QED
    BY <1>4, <2>2, <2>4, <2>5 DEF Reissue
<1>5. ASSUME req' = [req EXCEPT ![r].pc = "clear"], UNCHANGED <<nextToken, flow>> PROVE IInv'
  BY <1>1, <1>2, <1>5, ClearNext
<1>6. \/ g # None /\ Reissue(r, flow[g], "saveToken")
      \/ req' = [req EXCEPT ![r].pc = "clear"] /\ UNCHANGED <<nextToken, flow>>
  BY <1>3 DEF AuthRefresh
<1> QED
  BY <1>4, <1>5, <1>6

\* The refreshed token goes back into the session of its browser.
LEMMA AuthSaveTokenInv ==
  ASSUME IInv, NEW r \in Requests, AuthSaveToken(r) PROVE IInv'
<1>1. req[r] \in RequestType /\ req[r].pc = "saveToken" /\ req[r].verdict # "authorize"
  BY RequestFacts DEF AuthSaveToken
<1>2. PICK rec : rec = Admitted(req[r])
  OBVIOUS
<1>3. /\ rec \in RequestType /\ rec.pc \in {"responded", "ssoLoad"} /\ Alike(rec, req[r])
      /\ rec.verdict # "authorize"
  BY <1>1, <1>2, AdmittedChanges
<1> QED
  BY <1>1, <1>2, <1>3, SaveTokenStep DEF AuthSaveToken

\* An introspection admits the request or has the session cleared.
LEMMA AuthIntrospectInv ==
  ASSUME IInv, NEW r \in Requests, AuthIntrospect(r) PROVE IInv'
<1>1. /\ req[r].pc = "introspect" /\ req[r].pc \in Loading /\ req[r] \in RequestType
      /\ req[r].snap.token \in Tokens /\ req[r].verdict # "authorize"
      /\ (InCookie \/ req[r].id # None) /\ req[r].id = req[r].cookie.id
  BY RequestFacts DEF AuthIntrospect, Loading, Values
<1>2. /\ cached' \subseteq Tokens /\ trouble' \in 0 .. MaxTrouble
      /\ UNCHANGED <<browser, store, states, atKeycloak, codeUsed, nextToken, flow, expired, ended>>
  BY <1>1 DEF IInv, TypeOK, AuthIntrospect
<1>3. PICK new : /\ req' = [req EXCEPT ![r] = new]
                 /\ new = Admitted(req[r]) \/ new = [req[r] EXCEPT !.pc = "clear"]
  BY DEF AuthIntrospect
<1>4. /\ new \in RequestType /\ Alike(new, req[r]) /\ new.verdict # "authorize"
      /\ new.pc \in {"responded", "ssoLoad", "clear"}
  <2>1. "clear" \in PCs
    BY DEF PCs
  <2>2. CASE new = Admitted(req[r])
    BY <1>1, <2>2, AdmittedChanges
  <2>3. CASE new = [req[r] EXCEPT !.pc = "clear"]
    BY <1>1, <2>1, <2>3, PcChanges DEF RequestType
  <2> QED
    BY <1>3, <2>2, <2>3
<1>5. \A o \in [IDs -> Browsers] : Owned(o) => Keeps(o, req[r])
  BY DEF Owned
<1> QED
  BY <1>1, <1>2, <1>3, <1>4, <1>5, GoesOn

\* A session that is cleared takes its cookie with it.
LEMMA AuthClearInv == ASSUME IInv, NEW r \in Requests, AuthClear(r) PROVE IInv'
<1>1. req[r] \in RequestType /\ "login" \in Verdicts /\ "login" # "authorize"
  BY RequestFacts DEF Verdicts
<1>2. PICK rec : rec = Responding(req[r], "login")
  OBVIOUS
<1>3. /\ rec.pc = "responded" /\ Alike(rec, req[r]) /\ rec.verdict = "login"
  BY <1>1, <1>2, RespondingChanges
<1>4. \A o \in [IDs -> Browsers] : Owned(o) => Keeps(o, rec)
  BY <1>3, KeepsAlike DEF Owned, Loading
<1>5. Clear(r, req[r].id, req[r], "login") /\ UNCHANGED <<browser, states, keycloak, trouble>>
  BY DEF AuthClear
<1> QED
  BY <1>1, <1>2, <1>4, <1>5, ClearStep

\* The SSO handler loads the session of the same cookie again.
LEMMA SSOLoadInv == ASSUME IInv, NEW r \in Requests, SSOLoad(r) PROVE IInv'
<1>1. /\ req[r].pc = "ssoLoad" /\ req[r].pc \in Loading /\ TypeOK
      /\ InCookie \/ req[r].cookie.id # None
  BY RequestFacts DEF SSOLoad, Loading, IInv
<1>2. "saveSSO" \in PCs
  BY DEF PCs
<1>3. PICK new : new = WithSession(r, "saveSSO")
  OBVIOUS
<1>4. new \in RequestType /\ new.pc = "saveSSO"
  BY <1>1, <1>2, <1>3, WithSessionChanges
<1>5. \A o \in [IDs -> Browsers] : Owned(o) => Keeps(o, new)
  BY <1>1, <1>2, <1>3, WithSessionKeeps
<1>6. cached' \subseteq Tokens /\ trouble' \in 0 .. MaxTrouble
  BY DEF IInv, TypeOK, SSOLoad, keycloak
<1> QED
  BY <1>3, <1>4, <1>5, <1>6, QuietStep DEF SSOLoad, keycloak

\* It saves the session as it was loaded.
LEMMA SSOSaveInv == ASSUME IInv, NEW r \in Requests, SSOSave(r) PROVE IInv'
<1>1. /\ req[r] \in RequestType /\ req[r].snap \in Values /\ req[r].pc \in Loading
      /\ Mine(req[r].browser, req[r].snap) /\ "served" \in Verdicts
  BY RequestFacts DEF SSOSave, Verdicts, Loading
<1>2. PICK rec : rec = Responding(req[r], "served")
  OBVIOUS
<1>3. rec \in RequestType /\ rec.pc = "responded" /\ Alike(rec, req[r]) /\ rec.verdict = "served"
  BY <1>1, <1>2, RespondingChanges
<1> QED
  BY <1>1, <1>2, <1>3, SaveStep DEF SSOSave

---------------------------------------------------------------------------
(* Responses, and what goes wrong. *)

\* A response brings a browser a cookie of its own session, or takes it away.
LEMMA DeliverInv == ASSUME IInv, NEW r \in Requests, Deliver(r) PROVE IInv'
<1>1. /\ TypeOK /\ CountInv /\ FlowInv /\ OwnerInv
      /\ req[r] \in RequestType /\ req[r].browser \in Browsers
      /\ req[r].verdict = "authorize" => req[r].param \in States
  BY RequestFacts DEF IInv
<1>a. PICK b \in Browsers : b = req[r].browser
  BY <1>1
<1>b. PICK to \in Cookies : to = req[r].to
  BY <1>1 DEF RequestType
<1>2. /\ req' = [req EXCEPT ![r] = NoRequest]
      /\ cookie' = cookie \/ cookie' = [cookie EXCEPT ![b] = to]
      /\ last' = last \/ last' = [last EXCEPT ![b] = req[r].verdict]
      /\ atKeycloak' = atKeycloak \/ (/\ req[r].verdict = "authorize"
                                      /\ atKeycloak' = atKeycloak \cup {req[r].param})
      /\ ended' = ended \/ ended' = ended \cup TokensOf(b)
      /\ UNCHANGED <<store, states, codeUsed, nextToken, flow, expired, cached, trouble>>
  BY <1>a, <1>b DEF Deliver
<1>3. req'[r] = NoRequest /\ \A q \in Requests : q # r => req'[q] = req[q]
  BY <1>1, <1>2 DEF TypeOK
<1>4. TypeOK'
  <2>1. req' \in [Requests -> RequestType] /\ cookie' \in [Browsers -> Cookies]
    BY <1>1, <1>2, NoRequestType DEF TypeOK
  <2>2. last' \in [Browsers -> Verdicts]
    BY <1>1, <1>2 DEF TypeOK, RequestType
  <2>3. atKeycloak' \subseteq States
    BY <1>1, <1>2 DEF TypeOK
  <2>4. TokensOf(b) \subseteq Tokens
    BY <1>1 DEF TokensOf, Tokens, TypeOK
  <2>5. UNION {expired', ended', cached'} \subseteq Tokens
    BY <1>1, <1>2, <2>4 DEF TypeOK
  <2> QED
    BY <1>1, <1>2, <2>1, <2>2, <2>3, <2>5 DEF TypeOK, store, states
<1>5. FlowInv' /\ Spare' = Spare
  BY <1>1, <1>2 DEF FlowInv, Spare, states
<1>6. CountInv'
  <2>1. req'[r].pc \notin {"received", "saveState"}
    BY <1>3 DEF NoRequest
  <2> QED
    BY <1>1, <1>2, <1>3, <1>4, <1>5, <2>1, StepCounts DEF CountInv, states, store
<1>7. OwnerInv'
  <2>1. PICK o \in [IDs -> Browsers] : Owned(o)
    BY <1>1 DEF OwnerInv
  <2>2. Grows /\ Extends(o, o)
    BY <1>1, <1>2 DEF Grows, Extends, TypeOK, states, store
  <2>3. Keeps(o, NoRequest)
    BY DEF Keeps, NoRequest, NoCookie, NoValues, IdOf, Mine, Loading
  <2>4. Keeps(o, req[r])'
    <3>1. Keeps(o, NoRequest)'
      BY <1>1, <1>4, <2>2, <2>3, NoRequestType, KeepsLasts
    <3> QED
      BY <1>3, <3>1 DEF Keeps
  <2>5. IdOf(o, b, to.id)' /\ Mine(b, to.values)'
    <3>1. IdOf(o, b, to.id) /\ Mine(b, to.values) /\ to.values \in Values
      BY <1>a, <1>b, <2>1 DEF Owned, Keeps, Cookies
    <3>2. to.id \in IDs \cup {None}
      BY DEF Cookies
    <3>3. Mine(b, to.values)'
      BY <1>1, <1>4, <2>2, <3>1, MineLasts
    <3> QED
      BY <1>1, <1>4, <2>2, <3>1, <3>2, <3>3, IdLasts
  <2>6. ASSUME NEW c \in Browsers
        PROVE  cookie'[c] = cookie[c] \/ (IdOf(o, c, cookie[c].id)' /\ Mine(c, cookie[c].values)')
    <3>1. CASE cookie'[c] = cookie[c]
      BY <3>1
    <3>2. CASE cookie'[c] # cookie[c]
      <4>1. c = b /\ cookie'[c] = to
        BY <1>1, <1>2, <3>2 DEF TypeOK
      <4> QED
        BY <2>5, <4>1 DEF IdOf, Mine
    <3> QED
      BY <3>1, <3>2
  <2>7. files' = files
    BY <1>2 DEF store
  <2> QED
    BY <1>1, <1>3, <1>4, <2>1, <2>2, <2>4, <2>6, <2>7, OwnerLasts
<1> QED
  BY <1>1, <1>4, <1>5, <1>6, <1>7 DEF IInv

\* A step that fails ends its request, or has the session cleared.
LEMMA FailInv == ASSUME IInv, NEW r \in Requests, Fail(r) PROVE IInv'
<1>1. /\ TypeOK /\ trouble' \in 0 .. MaxTrouble /\ cached' \subseteq Tokens
      /\ UNCHANGED <<browser, store, states, keycloak>>
  BY DEF IInv, TypeOK, Fail, Trouble, keycloak
<1>2. ASSUME req[r].pc \in Loading, req' = [req EXCEPT ![r].pc = "clear"] PROVE IInv'
  BY <1>1, <1>2, ClearNext DEF keycloak
<1>3. ASSUME NEW v \in {"error", "login"}, Respond(r, v) PROVE IInv'
  <2>1. v \in Verdicts \ {"authorize"} /\ req' = [req EXCEPT ![r] = Responding(req[r], v)]
    BY <1>3 DEF Verdicts, Respond
  <2> QED
    BY <1>1, <2>1, RespondStep
<1> QED
  BY <1>2, <1>3 DEF Fail, Loading

\* Requests are lost: nothing else changes but the caches, and which files
\* are torn.
LEMMA LostStep ==
  ASSUME IInv, NEW rs \in SUBSET Requests, Lost(rs),
         UNCHANGED <<cookie, files, nextID, states, atKeycloak, codeUsed, nextToken, flow,
                     expired, ended>>,
         torn' \subseteq DOMAIN files, cached' \subseteq Tokens, trouble' \in 0 .. MaxTrouble
  PROVE  IInv'
<1>1. TypeOK /\ CountInv /\ FlowInv /\ OwnerInv
  BY DEF IInv
<1>2. \A r \in Requests : req'[r] = NoRequest \/ req'[r] = req[r]
  BY DEF Lost
<1>3. TypeOK'
  <2>1. req' \in [Requests -> RequestType]
    BY <1>1, NoRequestType DEF Lost, TypeOK
  <2>2. last' \in [Browsers -> Verdicts]
    BY <1>1 DEF Lost, TypeOK, Verdicts
  <2> QED
    BY <1>1, <2>1, <2>2 DEF TypeOK, states
<1>4. FlowInv' /\ Spare' = Spare
  BY <1>1 DEF FlowInv, Spare, states
<1>5. CountInv'
  <2>1. NoRequest.pc = "idle"
    BY DEF NoRequest
  <2>2. LoginsReceived' \subseteq LoginsReceived /\ LoginsSaving' \subseteq LoginsSaving
    BY <1>2, <2>1 DEF LoginsReceived, LoginsSaving, LoginReceived
  <2>3. IsFiniteSet(LoginsReceived) /\ IsFiniteSet(LoginsSaving)
    BY FS_Subset DEF LoginsReceived, LoginsSaving
  <2>4. /\ Cardinality(LoginsReceived) \in Nat /\ Cardinality(LoginsSaving) \in Nat
        /\ Cardinality(LoginsReceived') \in Nat /\ Cardinality(LoginsSaving') \in Nat
        /\ Cardinality(LoginsReceived') <= Cardinality(LoginsReceived)
        /\ Cardinality(LoginsSaving') <= Cardinality(LoginsSaving)
    BY <2>2, <2>3, FS_Subset, FS_CardinalityType
  <2>5. /\ nextState' = nextState /\ nextID' = nextID /\ nextState \in Int /\ nextID \in Int
        /\ nextState + Cardinality(LoginsReceived) <= MaxStates + 1
        /\ nextID + Cardinality(LoginsSaving) <= nextState
        /\ Spare >= 0
    BY <1>1 DEF TypeOK, CountInv, states
  <2>6. nextState' + Cardinality(LoginsReceived') <= MaxStates + 1
    BY <2>4, <2>5
  <2>7. nextID' + Cardinality(LoginsSaving') <= nextState'
    BY <2>4, <2>5
  <2> QED
    BY <1>4, <2>5, <2>6, <2>7 DEF CountInv
<1>6. OwnerInv'
  <2>1. PICK o \in [IDs -> Browsers] : Owned(o)
    BY <1>1 DEF OwnerInv
  <2>2. Grows /\ Extends(o, o)
    BY <1>1 DEF Grows, Extends, TypeOK, states
  <2>3. Keeps(o, NoRequest)
    BY DEF Keeps, NoRequest, NoCookie, NoValues, IdOf, Mine, Loading
  <2>4. Keeps(o, NoRequest)'
    BY <1>1, <1>3, <2>2, <2>3, NoRequestType, KeepsLasts
  <2>5. \A r \in Requests : req'[r] = req[r] \/ Keeps(o, req[r])'
    BY <1>2, <2>4 DEF Keeps
  <2> QED
    BY <1>1, <1>3, <2>1, <2>2, <2>5, OwnerLasts
<1> QED
  BY <1>1, <1>3, <1>4, <1>5, <1>6 DEF IInv

\* A response that is lost takes its request with it.
LEMMA DropInv == ASSUME IInv, NEW r \in Requests, Drop(r) PROVE IInv'
<1>1. /\ {r} \in SUBSET Requests /\ Lost({r})
      /\ UNCHANGED <<cookie, store, states, keycloak>>
  BY DEF Drop
<1>2. torn' \subseteq DOMAIN files /\ cached' \subseteq Tokens /\ trouble' \in 0 .. MaxTrouble
  BY DEF IInv, TypeOK, Drop, Trouble, store, keycloak
<1> QED
  BY <1>1, <1>2, LostStep DEF store, keycloak

\* A restart loses every request, and may tear the files being written.
LEMMA RestartInv == ASSUME IInv, Restart PROVE IInv'
<1>1. /\ Requests \in SUBSET Requests /\ Lost(Requests)
      /\ UNCHANGED <<cookie, files, nextID, states, atKeycloak, codeUsed, nextToken, flow,
                     expired, ended>>
  BY DEF Restart
<1>2. torn' \subseteq DOMAIN files /\ cached' \subseteq Tokens /\ trouble' \in 0 .. MaxTrouble
  BY DEF IInv, TypeOK, Restart, Trouble
<1> QED
  BY <1>1, <1>2, LostStep

\* Cookies are forgotten, tokens and cached answers expire, Keycloak's
\* sessions end.
LEMMA OutsideStep ==
  ASSUME IInv,
         UNCHANGED <<last, store, req, states, atKeycloak, codeUsed, nextToken, flow>>,
         cookie' \in [Browsers -> Cookies],
         \A b \in Browsers : cookie'[b] = cookie[b] \/ cookie'[b] = NoCookie,
         UNION {expired', ended', cached'} \subseteq Tokens, trouble' \in 0 .. MaxTrouble
  PROVE  IInv'
<1>1. TypeOK /\ CountInv /\ FlowInv /\ OwnerInv
  BY DEF IInv
<1>2. TypeOK'
  BY <1>1 DEF TypeOK, store, states
<1>3. FlowInv' /\ CountInv'
  BY <1>1 DEF FlowInv, CountInv, Spare, LoginsReceived, LoginsSaving, LoginReceived, states, store
<1>4. OwnerInv'
  <2>1. PICK o \in [IDs -> Browsers] : Owned(o)
    BY <1>1 DEF OwnerInv
  <2>2. Grows /\ Extends(o, o)
    BY <1>1 DEF Grows, Extends, TypeOK, states, store
  <2>3. NoCookie.id = None /\ NoCookie.values = NoValues
    BY DEF NoCookie
  <2>4. NoValues.token = None /\ NoValues.refresh = None /\ NoValues.state = None
    BY DEF NoValues
  <2>5. \A b \in Browsers : cookie'[b] = cookie[b] \/ (IdOf(o, b, cookie[b].id)' /\ Mine(b, cookie[b].values)')
    BY <2>3, <2>4 DEF IdOf, Mine
  <2> QED
    BY <1>1, <1>2, <2>1, <2>2, <2>5, OwnerLasts DEF store
<1> QED
  BY <1>1, <1>2, <1>3, <1>4 DEF IInv

\* None of that changes who owns what.
LEMMA OutsideInv ==
  ASSUME IInv,
         \/ \E b \in Browsers : Forget(b) \/ EndSession(b)
         \/ \E g \in Tokens : Expire(g) \/ CacheExpires(g)
         \/ UNCHANGED vars
  PROVE  IInv'
<1>1. TypeOK
  BY DEF IInv
<1>2. ASSUME NEW b \in Browsers, Forget(b) PROVE IInv'
  <2>1. cookie' \in [Browsers -> Cookies] /\ trouble' \in 0 .. MaxTrouble
    BY <1>1, <1>2, NoRequestType DEF TypeOK, Forget, Trouble
  <2>2. \A c \in Browsers : cookie'[c] = cookie[c] \/ cookie'[c] = NoCookie
    BY <1>1, <1>2 DEF TypeOK, Forget
  <2>3. UNION {expired', ended', cached'} \subseteq Tokens
    BY <1>1, <1>2 DEF TypeOK, Forget, keycloak
  <2> QED
    BY <1>2, <2>1, <2>2, <2>3, OutsideStep DEF Forget, keycloak
<1>3. ASSUME NEW b \in Browsers, EndSession(b) PROVE IInv'
  <2>1. TokensOf(b) \subseteq Tokens
    BY <1>1 DEF TokensOf, Tokens, TypeOK
  <2>2. UNION {expired', ended', cached'} \subseteq Tokens /\ trouble' \in 0 .. MaxTrouble
    BY <1>1, <1>3, <2>1 DEF TypeOK, EndSession, Trouble
  <2> QED
    BY <1>1, <1>3, <2>2, OutsideStep DEF EndSession, browser, TypeOK
<1>4. ASSUME NEW g \in Tokens, Expire(g) \/ CacheExpires(g) PROVE IInv'
  <2>1. UNION {expired', ended', cached'} \subseteq Tokens /\ trouble' \in 0 .. MaxTrouble
    BY <1>1, <1>4 DEF TypeOK, Expire, CacheExpires, Trouble
  <2> QED
    BY <1>1, <1>4, <2>1, OutsideStep DEF Expire, CacheExpires, browser, TypeOK
<1>5. CASE UNCHANGED vars
  BY <1>1, <1>5, OutsideStep DEF vars, browser, keycloak, TypeOK
<1> QED
  BY <1>2, <1>3, <1>4, <1>5

---------------------------------------------------------------------------
(* Together. *)

\* The invariant holds at first: no login has been started.
LEMMA InitInv == Init => IInv
<1> SUFFICES ASSUME Init PROVE IInv
  OBVIOUS
<1>1. TypeOK
  <2>1. NoRequest.browser \in Browsers
    BY NoRequestType DEF RequestType
  <2> QED
    BY <2>1, NoRequestType DEF Init, TypeOK, Verdicts
<1>2. \A r \in Requests : req[r].pc = "idle"
  BY DEF Init, NoRequest
<1>3. CountInv
  <2>1. LoginsReceived = {} /\ LoginsSaving = {}
    BY <1>2 DEF LoginsReceived, LoginsSaving, LoginReceived
  <2>2. Cardinality({}) = 0
    BY FS_EmptySet
  <2> QED
    BY <2>1, <2>2 DEF Init, CountInv, Spare
<1>4. FlowInv
  BY DEF Init, FlowInv, Tokens
<1>5. OwnerInv
  <2>1. PICK o \in [IDs -> Browsers] : TRUE
    <3>1. PICK b \in Browsers : TRUE
      OBVIOUS
    <3>2. [i \in IDs |-> b] \in [IDs -> Browsers]
      OBVIOUS
    <3> QED
      BY <3>2
  <2>2. \A b \in Browsers : IdOf(o, b, NoCookie.id) /\ Mine(b, NoCookie.values)
    BY DEF IdOf, Mine, NoCookie, NoValues
  <2>3. Keeps(o, NoRequest)
    BY DEF Keeps, NoRequest, NoCookie, NoValues, IdOf, Mine, Loading
  <2>4. Owned(o)
    BY <2>2, <2>3 DEF Owned, Init
  <2> QED
    BY <2>4 DEF OwnerInv
<1> QED
  BY <1>1, <1>3, <1>4, <1>5 DEF IInv

\* No step breaks it.
LEMMA NextInv == IInv /\ [Next]_vars => IInv'
<1> SUFFICES ASSUME IInv, [Next]_vars PROVE IInv'
  OBVIOUS
<1>1. ASSUME NEW r \in Requests, Handle(r) PROVE IInv'
  <2>1. CASE LoginLoad(r) \/ LoginSave(r)
    BY <2>1, LoginLoadInv, LoginSaveInv
  <2>2. CASE \/ CallbackLoad(r) \/ CallbackClearState(r)
             \/ CallbackExchange(r) \/ CallbackSaveToken(r)
    BY <2>2, CallbackLoadInv, CallbackClearStateInv, CallbackExchangeInv, CallbackSaveTokenInv
  <2>3. CASE Logout(r)
    BY <2>3, LogoutInv
  <2>4. CASE \/ AuthLoad(r) \/ AuthRefresh(r) \/ AuthSaveToken(r)
             \/ AuthIntrospect(r) \/ AuthClear(r)
    BY <2>4, AuthLoadInv, AuthRefreshInv, AuthSaveTokenInv, AuthIntrospectInv, AuthClearInv
  <2>5. CASE SSOLoad(r) \/ SSOSave(r)
    BY <2>5, SSOLoadInv, SSOSaveInv
  <2> QED
    BY <1>1, <2>1, <2>2, <2>3, <2>4, <2>5 DEF Handle
<1>2. ASSUME NEW r \in Requests, Deliver(r) \/ Fail(r) \/ Drop(r) PROVE IInv'
  BY <1>2, DeliverInv, FailInv, DropInv
<1>3. ASSUME NEW r \in Requests, NEW b \in Browsers, NEW k \in Kinds, Send(r, b, k) PROVE IInv'
  BY <1>3, SendInv
<1>4. CASE Restart
  BY <1>4, RestartInv
<1>5. CASE \/ \E b \in Browsers : Forget(b) \/ EndSession(b)
           \/ \E g \in Tokens : Expire(g) \/ CacheExpires(g)
           \/ UNCHANGED vars
  BY <1>5, OutsideInv
<1> QED
  BY <1>1, <1>2, <1>3, <1>4, <1>5 DEF Next

\* The counters, the flows, and who owns what are as described, always.
THEOREM InvariantHolds == Spec => []IInv
BY InitInv, NextInv, PTL DEF Spec

\* Every variable keeps its type: logins under way never outnumber the states,
\* session IDs and token sets that are left, for any number of requests.
THEOREM TypeCorrect == Spec => []TypeOK
<1>1. IInv => TypeOK
  BY DEF IInv
<1> QED
  BY <1>1, InvariantHolds, PTL

\* HandleCallback and session.Store never give a browser a session with
\* somebody else's tokens, whatever requests are in flight at a time, in
\* whatever order they load, save and are answered, and whatever goes wrong.
THEOREM SessionsStayApart == Spec => []LoginStaysInBrowser
<1>1. IInv => LoginStaysInBrowser
  <2> SUFFICES ASSUME IInv, NEW b \in Browsers, HasToken(cookie[b])
               PROVE  startedBy[flow[Loaded(cookie[b]).token]] = b
    BY DEF LoginStaysInBrowser
  <2>1. PICK o \in [IDs -> Browsers] : Owned(o)
    BY DEF IInv, OwnerInv
  <2>2. cookie[b] \in Cookies /\ IdOf(o, b, cookie[b].id) /\ Mine(b, cookie[b].values)
    BY <2>1 DEF Owned, IInv, TypeOK
  <2>3. Mine(b, Loaded(cookie[b]))
    BY <2>1, <2>2, LoadedIsMine DEF IInv
  <2> QED
    BY <2>3 DEF HasToken, Mine, TokenOf
<1> QED
  BY <1>1, InvariantHolds, PTL

\* session.Save makes a new file for a login only: whatever is saved, erased,
\* cut short or brought back, there are never more files than logins started.
THEOREM FilesGrowWithLogins == Spec => []OneFileALogin
<1>1. IInv => OneFileALogin
  <2> SUFFICES ASSUME IInv PROVE Cardinality(DOMAIN files) < nextState
    BY DEF OneFileALogin
  <2>1. PICK o \in [IDs -> Browsers] : Owned(o)
    BY DEF IInv, OwnerInv
  <2>2. DOMAIN files \subseteq 1 .. nextID - 1 /\ nextID \in Nat \ {0}
    BY <2>1 DEF Owned, IInv, TypeOK, IDs
  <2>3. /\ IsFiniteSet(1 .. nextID - 1)
        /\ Cardinality(1 .. nextID - 1) = nextID - 1
    <3>1. 1 \in Int /\ nextID - 1 \in Int
      BY <2>2
    <3>2. /\ IsFiniteSet(1 .. nextID - 1)
          /\ Cardinality(1 .. nextID - 1) = IF 1 > nextID - 1 THEN 0 ELSE nextID - 1 - 1 + 1
      BY ONLY <3>1, FS_Interval, Zenon
    <3> QED
      BY <2>2, <3>2
  <2>4. Cardinality(DOMAIN files) <= nextID - 1 /\ Cardinality(DOMAIN files) \in Nat
    BY <2>2, <2>3, FS_Subset, FS_CardinalityType
  <2>5. LoginsSaving \subseteq Requests /\ Cardinality(LoginsSaving) \in Nat
    BY PartiesAssumption, FS_Subset, FS_CardinalityType DEF LoginsSaving
  <2>6. nextID + Cardinality(LoginsSaving) <= nextState /\ nextState \in Nat
    BY DEF IInv, CountInv, TypeOK
  <2> QED
    BY <2>2, <2>4, <2>5, <2>6
<1> QED
  BY <1>1, InvariantHolds, PTL

---------------------------------------------------------------------------
(* Tier 2: a token that is out of use stays out. *)

\* A request of AuthRequired, with the cookie store: no refresh, so no token
\* but the one its cookie brought, and whether it is served is decided last.
Tier2(rec) ==
  /\ rec.verdict = "served" => rec.pc = "responded"
  /\ rec.pc # "refresh"
  /\ rec.pc \in {"clearState", "exchange", "saveToken"} => rec.kind = "callback"
  /\ rec.pc \in {"introspect", "ssoLoad", "saveSSO"} => rec.snap = rec.cookie.values

CookieInv == \A r \in Requests : Tier2(req[r])

\* It does not serve with g.
Shuns(g, rec) ==
  rec.snap.token = g => rec.pc \notin {"ssoLoad", "saveSSO"} /\ rec.verdict # "served"

\* What a step of one request has to show.
LEMMA CookieStep ==
  ASSUME TypeOK, CookieInv, NEW r \in Requests, NEW new, req' = [req EXCEPT ![r] = new],
         Tier2(new), ended \subseteq ended',
         \A g \in Tokens : OutOfUse(g) => Shuns(g, new) /\ g \notin cached'
  PROVE  CookieInv' /\ \A g \in Tokens : OutOfUse(g) => OutOfUse(g)'
<1>1. req'[r] = new /\ \A q \in Requests : q # r => req'[q] = req[q]
  BY DEF TypeOK
<1>2. CookieInv'
  BY <1>1 DEF CookieInv, Tier2
<1>3. ASSUME NEW g \in Tokens, OutOfUse(g) PROVE OutOfUse(g)'
  BY <1>1, <1>3 DEF OutOfUse, Shuns
<1> QED
  BY <1>2, <1>3

\* Requests that are at none of the steps that lead to the page.
LEMMA ElsewhereShuns ==
  ASSUME NEW rec, rec.pc \notin {"refresh", "introspect", "ssoLoad", "saveSSO"},
         rec.pc \in {"clearState", "exchange", "saveToken"} => rec.kind = "callback",
         rec.verdict # "served"
  PROVE  Tier2(rec) /\ \A g : Shuns(g, rec)
BY DEF Tier2, Shuns

\* The handlers behind /auth/*.
LEMMA LoginsStayOut ==
  ASSUME InCookie, IInv, CookieInv, NEW r \in Requests,
         \/ LoginLoad(r) \/ LoginSave(r)
         \/ CallbackLoad(r) \/ CallbackClearState(r) \/ CallbackExchange(r)
         \/ CallbackSaveToken(r) \/ Logout(r) \/ AuthClear(r)
  PROVE  CookieInv' /\ \A g \in Tokens : OutOfUse(g) => OutOfUse(g)'
<1>1. /\ TypeOK /\ req[r] \in RequestType /\ req[r].pc # "responded"
      /\ req[r].verdict # "served" /\ Tier2(req[r])
  <2>1. TypeOK /\ req[r] \in RequestType /\ Tier2(req[r])
    BY DEF IInv, TypeOK, CookieInv
  <2>2. req[r].pc # "responded"
    BY DEF LoginLoad, LoginReceived, LoginSave, CallbackLoad, CallbackClearState,
           CallbackExchange, CallbackSaveToken, Logout, AuthClear
  <2> QED
    BY <2>1, <2>2 DEF Tier2
<1>2. ended' = ended /\ cached' = cached
  BY DEF LoginLoad, LoginSave, CallbackLoad, CallbackClearState, CallbackExchange,
         CallbackSaveToken, Logout, AuthClear, keycloak
<1>3. ASSUME NEW new, req' = [req EXCEPT ![r] = new], new.verdict # "served",
             new.pc \notin {"refresh", "introspect", "ssoLoad", "saveSSO"},
             new.pc \in {"clearState", "exchange", "saveToken"} => new.kind = "callback"
      PROVE  CookieInv' /\ \A g \in Tokens : OutOfUse(g) => OutOfUse(g)'
  <2>1. Tier2(new) /\ \A g : Shuns(g, new)
    BY <1>3, ElsewhereShuns
  <2> QED
    BY <1>1, <1>2, <1>3, <2>1, CookieStep DEF OutOfUse
<1>4. ASSUME NEW rec \in RequestType, NEW vals, Write(r, vals, rec), rec.verdict # "served",
             rec.pc = "responded" \/ (rec.pc = "exchange" /\ rec.kind = "callback")
      PROVE  CookieInv' /\ \A g \in Tokens : OutOfUse(g) => OutOfUse(g)'
  <2>1. PICK id, ck : req' = [req EXCEPT ![r] = [rec EXCEPT !.id = id, !.snap = vals,
                                                           !.set = TRUE, !.to = ck]]
    BY <1>4 DEF Write
  <2>2. PICK new : new = [rec EXCEPT !.id = id, !.snap = vals, !.set = TRUE, !.to = ck]
    OBVIOUS
  <2>3. new.pc = rec.pc /\ new.verdict = rec.verdict /\ new.kind = rec.kind
    BY <2>2 DEF RequestType
  <2>4. req' = [req EXCEPT ![r] = new]
    BY <2>1, <2>2
  <2> QED
    BY <1>3, <1>4, <2>3, <2>4
<1>5. ASSUME NEW rec \in RequestType, NEW id, Erase(r, id, rec), rec.verdict # "served",
             rec.pc = "responded"
      PROVE  CookieInv' /\ \A g \in Tokens : OutOfUse(g) => OutOfUse(g)'
  <2>1. req' = [req EXCEPT ![r] = [rec EXCEPT !.set = TRUE, !.to = NoCookie]]
    BY <1>5 DEF Erase
  <2>2. PICK new : new = [rec EXCEPT !.set = TRUE, !.to = NoCookie]
    OBVIOUS
  <2>3. new.pc = rec.pc /\ new.verdict = rec.verdict /\ new.kind = rec.kind
    BY <2>2 DEF RequestType
  <2>4. req' = [req EXCEPT ![r] = new]
    BY <2>1, <2>2
  <2> QED
    BY <1>3, <1>5, <2>3, <2>4
<1>6. \A v \in Verdicts :
        /\ Responding(req[r], v) \in RequestType
        /\ Responding(req[r], v).pc = "responded" /\ Responding(req[r], v).verdict = v
  BY <1>1, RespondingChanges
<1>7. CASE LoginLoad(r)
  <2>1. PICK w \in RequestType :
          w = WithSession(r, "saveState") /\ w.pc = "saveState" /\ w.verdict = req[r].verdict
    BY <1>1, WithSessionChanges DEF PCs
  <2>2. req' = [req EXCEPT ![r] = [w EXCEPT !.param = nextState, !.snap.state = nextState]]
    BY <1>7, <2>1 DEF LoginLoad
  <2>3. PICK new : new = [w EXCEPT !.param = nextState, !.snap.state = nextState]
    OBVIOUS
  <2>4. new.pc = "saveState" /\ new.verdict = req[r].verdict
    BY <2>1, <2>3 DEF RequestType
  <2>5. req' = [req EXCEPT ![r] = new]
    BY <2>2, <2>3
  <2> QED
    BY <1>1, <1>3, <2>4, <2>5
<1>8. CASE LoginSave(r)
  <2>1. PICK rec \in RequestType : rec = Responding(req[r], "authorize")
    BY <1>6 DEF Verdicts
  <2>2. rec.pc = "responded" /\ rec.verdict # "served"
    BY <1>6, <2>1 DEF Verdicts
  <2> QED
    BY <1>4, <1>8, <2>1, <2>2 DEF LoginSave, Save
<1>9. CASE CallbackLoad(r)
  <2>1. CASE req' = [req EXCEPT ![r] = WithSession(r, "clearState")]
    <3>1. PICK w \in RequestType :
            /\ w = WithSession(r, "clearState") /\ w.pc = "clearState"
            /\ w.verdict = req[r].verdict /\ w.kind = req[r].kind
      BY <1>1, WithSessionChanges DEF PCs
    <3> QED
      BY <1>1, <1>3, <1>9, <2>1, <3>1 DEF CallbackLoad
  <2>2. CASE Respond(r, "error")
    BY <1>3, <1>6, <2>2 DEF Respond, Verdicts
  <2> QED
    BY <1>9, <2>1, <2>2 DEF CallbackLoad
<1>10. CASE CallbackClearState(r)
  <2>1. PICK rec \in RequestType : rec = [req[r] EXCEPT !.pc = "exchange"]
    BY <1>1, PcChanges DEF PCs
  <2>2. rec.pc = "exchange" /\ rec.kind = "callback" /\ rec.verdict # "served"
    BY <1>1, <1>10, <2>1 DEF RequestType, CallbackClearState, Tier2
  <2> QED
    BY <1>4, <1>10, <2>1, <2>2 DEF CallbackClearState, Save
<1>11. CASE CallbackExchange(r)
  <2>1. CASE Respond(r, "error")
    BY <1>3, <1>6, <2>1 DEF Respond, Verdicts
  <2>2. CASE Issue(r, req[r].param, "saveToken")
    <3>1. PICK new : new = [req[r] EXCEPT !.got = nextToken, !.pc = "saveToken"]
      OBVIOUS
    <3>2. new.pc = "saveToken" /\ new.kind = "callback" /\ new.verdict # "served"
      BY <1>1, <1>11, <3>1 DEF RequestType, CallbackExchange, Tier2
    <3>3. req' = [req EXCEPT ![r] = new]
      BY <1>1, <2>2, <3>1 DEF Issue, TypeOK, RequestType
    <3> QED
      BY <1>3, <3>2, <3>3
  <2> QED
    BY <1>11, <2>1, <2>2 DEF CallbackExchange
<1>12. CASE CallbackSaveToken(r)
  <2>1. PICK rec \in RequestType : rec = Responding(req[r], "home")
    BY <1>6 DEF Verdicts
  <2>2. rec.pc = "responded" /\ rec.verdict # "served"
    BY <1>6, <2>1 DEF Verdicts
  <2> QED
    BY <1>4, <1>12, <2>1, <2>2 DEF CallbackSaveToken, SaveToken, Save
<1>13. CASE Logout(r)
  <2>1. PICK g : g = IF InCookie THEN None ELSE Loaded(req[r].cookie).token
    OBVIOUS
  <2>2. PICK rec \in RequestType : rec = [req[r] EXCEPT !.got = g]
    BY <1>1, <2>1 DEF RequestType
  <2>3. /\ Responding(rec, "kcLogout") \in RequestType
        /\ Responding(rec, "kcLogout").pc = "responded"
        /\ Responding(rec, "kcLogout").verdict = "kcLogout"
    BY <2>2, RespondingChanges DEF Verdicts
  <2>4. Erase(r, req[r].cookie.id, Responding(rec, "kcLogout"))
    BY <1>13, <2>1, <2>2 DEF Logout, Clear
  <2> QED
    BY <1>5, <2>3, <2>4
<1>14. CASE AuthClear(r)
  BY <1>5, <1>6, <1>14 DEF AuthClear, Clear, Verdicts
<1> QED
  BY <1>7, <1>8, <1>9, <1>10, <1>11, <1>12, <1>13, <1>14

\* AuthRequired admits no token that Keycloak and the cache have given up, and
\* the SSO handler loads the values of the same cookie again.
LEMMA RequestsStayOut ==
  ASSUME InCookie, IInv, CookieInv, NEW r \in Requests,
         \/ AuthLoad(r) \/ AuthRefresh(r) \/ AuthSaveToken(r) \/ AuthIntrospect(r)
         \/ SSOLoad(r) \/ SSOSave(r)
  PROVE  CookieInv' /\ \A g \in Tokens : OutOfUse(g) => OutOfUse(g)'
<1>1. TypeOK /\ req[r] \in RequestType /\ Tier2(req[r]) /\ Loaded(req[r].cookie) = req[r].cookie.values
  BY DEF IInv, TypeOK, CookieInv, Loaded
<1>2. CASE AuthLoad(r)
  <2>1. req[r].verdict # "served" /\ ended' = ended /\ cached' = cached
    BY <1>1, <1>2 DEF AuthLoad, Tier2, keycloak
  <2>2. CASE req' = [req EXCEPT ![r] = Responding(req[r], "login")]
    <3>1. PICK new : new = Responding(req[r], "login")
      OBVIOUS
    <3>2. new.pc = "responded" /\ new.verdict = "login"
      BY <1>1, <3>1, RespondingChanges DEF Verdicts
    <3>3. Tier2(new) /\ \A g : Shuns(g, new)
      BY <3>2, ElsewhereShuns
    <3> QED
      BY <1>1, <2>1, <2>2, <3>1, <3>3, CookieStep DEF OutOfUse
  <2>3. CASE req' = [req EXCEPT ![r] = WithSession(r, "introspect")]
    <3>1. PICK w \in RequestType :
            /\ w = WithSession(r, "introspect") /\ w.pc = "introspect"
            /\ w.verdict = req[r].verdict /\ w.snap = Loaded(req[r].cookie)
            /\ w.cookie = req[r].cookie
      BY <1>1, WithSessionChanges DEF PCs
    <3>2. Tier2(w) /\ \A g : Shuns(g, w)
      BY <1>1, <2>1, <3>1 DEF Tier2, Shuns
    <3> QED
      BY <1>1, <2>1, <2>3, <3>1, <3>2, CookieStep DEF OutOfUse
  <2> QED
    BY <1>2, <2>2, <2>3 DEF AuthLoad
<1>3. CASE AuthRefresh(r) \/ AuthSaveToken(r)
  BY <1>1, <1>3 DEF AuthRefresh, AuthSaveToken, Protected, Tier2
<1>4. CASE AuthIntrospect(r)
  <2>1. PICK t : t = req[r].snap.token
    OBVIOUS
  <2>2. /\ ended' = ended /\ cached' \subseteq cached \cup {t}
        /\ ~ Active(t) => cached' = cached
    BY <1>4, <2>1 DEF AuthIntrospect
  <2>3. \A g \in Tokens : OutOfUse(g) => g \notin cached'
    BY <2>2 DEF OutOfUse, Active
  <2>4. CASE /\ Active(t) \/ t \in cached
             /\ req' = [req EXCEPT ![r] = Admitted(req[r])]
    <3>1. PICK new \in RequestType :
            /\ new = Admitted(req[r]) /\ new.snap = req[r].snap /\ new.cookie = req[r].cookie
            /\ \/ new.pc = "responded" /\ new.verdict = "served"
               \/ new.pc = "ssoLoad" /\ new.verdict = req[r].verdict
      BY <1>1, AdmittedChanges DEF Alike
    <3>2. Tier2(new)
      BY <1>1, <1>4, <3>1 DEF Tier2, AuthIntrospect
    <3>3. \A g \in Tokens : OutOfUse(g) => Shuns(g, new)
      BY <2>1, <2>4, <3>1 DEF OutOfUse, Shuns, Active
    <3> QED
      BY <1>1, <2>2, <2>3, <2>4, <3>1, <3>2, <3>3, CookieStep
  <2>5. CASE req' = [req EXCEPT ![r] = [req[r] EXCEPT !.pc = "clear"]]
    <3>1. PICK new : new = [req[r] EXCEPT !.pc = "clear"]
      OBVIOUS
    <3>2. new.pc = "clear" /\ new.verdict # "served"
      BY <1>1, <1>4, <3>1 DEF RequestType, AuthIntrospect, Tier2
    <3>3. Tier2(new) /\ \A g : Shuns(g, new)
      BY <3>2, ElsewhereShuns
    <3> QED
      BY <1>1, <2>2, <2>3, <2>5, <3>1, <3>3, CookieStep
  <2> QED
    BY <1>4, <2>1, <2>4, <2>5 DEF AuthIntrospect
<1>5. CASE SSOLoad(r)
  <2>1. PICK w \in RequestType :
          /\ w = WithSession(r, "saveSSO") /\ w.pc = "saveSSO"
          /\ w.verdict = req[r].verdict /\ w.snap = Loaded(req[r].cookie)
          /\ w.cookie = req[r].cookie
    BY <1>1, WithSessionChanges DEF PCs
  <2>2. w.snap = req[r].snap /\ req[r].pc = "ssoLoad" /\ req[r].verdict # "served"
    BY <1>1, <1>5, <2>1 DEF Tier2, SSOLoad
  <2>3. Tier2(w) /\ \A g \in Tokens : OutOfUse(g) => Shuns(g, w)
    BY <1>1, <2>1, <2>2 DEF Tier2, Shuns, OutOfUse
  <2>4. ended' = ended /\ cached' = cached /\ req' = [req EXCEPT ![r] = w]
    BY <1>5, <2>1 DEF SSOLoad, keycloak
  <2> QED
    BY <1>1, <2>3, <2>4, CookieStep DEF OutOfUse
<1>6. CASE SSOSave(r)
  <2>1. PICK rec \in RequestType :
          rec = Responding(req[r], "served") /\ rec.pc = "responded" /\ rec.verdict = "served"
    BY <1>1, RespondingChanges DEF Verdicts
  <2>2. Write(r, req[r].snap, rec)
    BY <1>6, <2>1 DEF SSOSave, Save
  <2>3. PICK id, ck : req' = [req EXCEPT ![r] = [rec EXCEPT !.id = id, !.snap = req[r].snap,
                                                           !.set = TRUE, !.to = ck]]
    BY <2>2 DEF Write
  <2>4. PICK new : new = [rec EXCEPT !.id = id, !.snap = req[r].snap, !.set = TRUE, !.to = ck]
    OBVIOUS
  <2>5. new.pc = "responded" /\ new.verdict = "served" /\ new.snap = req[r].snap
    BY <2>1, <2>4 DEF RequestType
  <2>6. Tier2(new) /\ \A g \in Tokens : OutOfUse(g) => Shuns(g, new)
    BY <1>6, <2>5 DEF Tier2, Shuns, OutOfUse, SSOSave
  <2>7. ended' = ended /\ cached' = cached
    BY <1>6 DEF SSOSave, keycloak
  <2> QED
    BY <1>1, <2>3, <2>4, <2>6, <2>7, CookieStep DEF OutOfUse
<1> QED
  BY <1>2, <1>3, <1>4, <1>5, <1>6

\* Nothing that happens around a request brings a token back.
LEMMA OthersStayOut ==
  ASSUME InCookie, IInv, CookieInv,
         \/ \E r \in Requests : Deliver(r) \/ Fail(r) \/ Drop(r)
         \/ \E r \in Requests, b \in Browsers, k \in Kinds : Send(r, b, k)
         \/ \E b \in Browsers : Forget(b) \/ EndSession(b)
         \/ \E g \in Tokens : Expire(g) \/ CacheExpires(g)
         \/ Restart
         \/ UNCHANGED vars
  PROVE  CookieInv' /\ \A g \in Tokens : OutOfUse(g) => OutOfUse(g)'
<1>1. TypeOK /\ ended \subseteq ended' /\ cached' \subseteq cached
  BY DEF IInv, Deliver, Fail, Drop, Send, Forget, EndSession, Expire, CacheExpires, Restart,
         vars, keycloak
<1>2. Tier2(NoRequest) /\ \A g \in Tokens : Shuns(g, NoRequest)
  BY DEF NoRequest, NoValues, Tier2, Shuns, Tokens, None
<1>3. ASSUME NEW r \in Requests, NEW new, req' = [req EXCEPT ![r] = new],
             Tier2(new), \A g \in Tokens : Shuns(g, new)
      PROVE  CookieInv' /\ \A g \in Tokens : OutOfUse(g) => OutOfUse(g)'
  BY <1>1, <1>3, CookieStep DEF OutOfUse
<1>4. ASSUME \A r \in Requests : req'[r] = req[r] \/ req'[r] = NoRequest
      PROVE  CookieInv' /\ \A g \in Tokens : OutOfUse(g) => OutOfUse(g)'
  <2>1. CookieInv'
    BY <1>2, <1>4 DEF CookieInv, Tier2
  <2>2. ASSUME NEW g \in Tokens, OutOfUse(g) PROVE OutOfUse(g)'
    BY <1>1, <1>2, <1>4, <2>2 DEF OutOfUse, Shuns
  <2> QED
    BY <2>1, <2>2
<1>5. ASSUME NEW r \in Requests, NEW b \in Browsers, NEW k \in Kinds, Send(r, b, k)
      PROVE  CookieInv' /\ \A g \in Tokens : OutOfUse(g) => OutOfUse(g)'
  <2>1. PICK new : /\ req' = [req EXCEPT ![r] = new]
                   /\ new.pc = "received" /\ new.verdict = "none"
    <3>1. PICK s : req' = [req EXCEPT ![r] =
                     [NoRequest EXCEPT !.pc = "received", !.browser = b, !.kind = k,
                                       !.cookie = cookie[b], !.param = s,
                                       !.authed = HasToken(cookie[b])]]
      BY <1>5 DEF Send
    <3>2. PICK new : new = [NoRequest EXCEPT !.pc = "received", !.browser = b, !.kind = k,
                                             !.cookie = cookie[b], !.param = s,
                                             !.authed = HasToken(cookie[b])]
      OBVIOUS
    <3>3. new.pc = "received" /\ new.verdict = "none"
      BY <3>2 DEF NoRequest
    <3> QED
      BY <3>1, <3>2, <3>3
  <2>2. Tier2(new) /\ \A g : Shuns(g, new)
    BY <2>1, ElsewhereShuns
  <2> QED
    BY <1>3, <2>1, <2>2
<1>6. ASSUME NEW r \in Requests, Fail(r)
      PROVE  CookieInv' /\ \A g \in Tokens : OutOfUse(g) => OutOfUse(g)'
  <2>1. PICK rec \in RequestType : rec = req[r] /\ Tier2(rec)
    BY <1>1 DEF TypeOK, CookieInv
  <2>2. rec.verdict # "served"
    BY <1>6, <2>1 DEF Fail, Tier2
  <2>3. PICK new : /\ req' = [req EXCEPT ![r] = new]
                   /\ \/ new.pc = "clear" /\ new.verdict = rec.verdict
                      \/ new.pc = "responded" /\ new.verdict \in {"error", "login"}
    <3>1. /\ [rec EXCEPT !.pc = "clear"].pc = "clear"
          /\ [rec EXCEPT !.pc = "clear"].verdict = rec.verdict
      BY DEF RequestType
    <3>2. \A v \in {"error", "login"} :
            Responding(rec, v).pc = "responded" /\ Responding(rec, v).verdict = v
      BY RespondingChanges DEF Verdicts
    <3>3. \/ req' = [req EXCEPT ![r] = [rec EXCEPT !.pc = "clear"]]
          \/ \E v \in {"error", "login"} : req' = [req EXCEPT ![r] = Responding(rec, v)]
      BY <1>1, <1>6, <2>1 DEF Fail, Respond, TypeOK
    <3> QED
      BY <3>1, <3>2, <3>3
  <2>4. Tier2(new) /\ \A g : Shuns(g, new)
    BY <2>2, <2>3, ElsewhereShuns
  <2> QED
    BY <1>3, <2>3, <2>4
<1>7. ASSUME NEW r \in Requests, Deliver(r) \/ Drop(r)
      PROVE  CookieInv' /\ \A g \in Tokens : OutOfUse(g) => OutOfUse(g)'
  <2>1. \A q \in Requests : req'[q] = req[q] \/ req'[q] = NoRequest
    BY <1>1, <1>7 DEF Deliver, Drop, Lost, TypeOK
  <2> QED
    BY <1>4, <2>1
<1>8. CASE Restart
  <2>1. \A q \in Requests : req'[q] = req[q] \/ req'[q] = NoRequest
    BY <1>8 DEF Restart, Lost
  <2> QED
    BY <1>4, <2>1
<1>9. CASE \/ \E b \in Browsers : Forget(b) \/ EndSession(b)
           \/ \E g \in Tokens : Expire(g) \/ CacheExpires(g)
           \/ UNCHANGED vars
  <2>1. req' = req
    BY <1>9 DEF Forget, EndSession, Expire, CacheExpires, vars
  <2> QED
    BY <1>4, <2>1
<1> QED
  BY <1>5, <1>6, <1>7, <1>8, <1>9

\* AuthRequired, in Tier 2, never serves again with a token that Keycloak has
\* ended and the introspection cache has dropped, once no request that was
\* admitted with it is left: whatever browsers send, whichever older cookie they
\* still have, and whatever the requests in flight save.
THEOREM EndedTokensGone == InCookie /\ Spec => EndedTokensStayOut
<1>1. InCookie /\ Init => InCookie /\ CookieInv
  <2> SUFFICES ASSUME Init PROVE CookieInv
    OBVIOUS
  <2>1. \A r \in Requests : req[r] = NoRequest
    BY DEF Init
  <2>2. Tier2(NoRequest)
    BY DEF Tier2, NoRequest
  <2> QED
    BY <2>1, <2>2 DEF CookieInv
<1>2. IInv /\ (InCookie /\ CookieInv) /\ [Next]_vars
        => (InCookie /\ CookieInv)' /\ \A g \in Tokens : OutOfUse(g) => OutOfUse(g)'
  BY LoginsStayOut, RequestsStayOut, OthersStayOut DEF Next, Handle, InCookie
<1>3. IInv /\ (InCookie /\ CookieInv) /\ [Next]_vars => (InCookie /\ CookieInv)'
  BY <1>2
<1>4. IInv /\ (InCookie /\ CookieInv) /\ [Next]_vars
        => [\A g \in Tokens : OutOfUse(g) => OutOfUse(g)']_vars
  BY <1>2
<1> QED
  BY <1>1, <1>3, <1>4, InvariantHolds, PTL DEF Spec, EndedTokensStayOut
=============================================================================
