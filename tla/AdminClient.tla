----------------------------- MODULE AdminClient -----------------------------
(***************************************************************************)
(* keycloak.AdminClient: the service account token that all goroutines     *)
(* share, its refresh through singleflight, the retry on 401, and the      *)
(* cache in front of GetClients.                                           *)
(*                                                                         *)
(* Requests of the UI and the API (Users) go through the cache, which its  *)
(* mutex lets one at a time; the goroutine that refreshes client scopes    *)
(* goes to Keycloak directly. So at most one user and the refresher use    *)
(* the token at a time, but their steps interleave freely. Time passes     *)
(* only while Keycloak is asked or nobody is busy: the code between two    *)
(* calls takes none. A call takes up to Timeout, that of http.Client.      *)
(***************************************************************************)
EXTENDS Integers

CONSTANTS Users,         \* goroutines of HTTP requests that show applications
          Refresher,     \* the goroutine of scheduleClientScopesRefresh
          Free,          \* no goroutine
          Buffer,        \* tokenExpiryBuffer
          Timeout,       \* of http.Client
          Lifespan,      \* expires_in of the tokens Keycloak issues
          TTL,           \* keycloakDataTTL
          MaxTokens,     \* bound: tokens Keycloak issues
          MaxRevoked,    \* bound: how often Keycloak revokes what it issued
          MaxTime        \* bound: the clock

Callers == Users \cup {Refresher}

ASSUME CallersAssumption  == Refresher \notin Users /\ Free \notin Callers
ASSUME DurationAssumption == {Buffer, Timeout, Lifespan, TTL} \subseteq Nat
ASSUME BoundsAssumption   == {MaxTokens, MaxRevoked, MaxTime} \subseteq Nat

(***************************************************************************)
(* What RetryRecovers needs: the buffer covers a call to the token         *)
(* endpoint (both are 30 s), and a token outlives a refresh and two calls  *)
(* (Keycloak's default is 5 minutes).                                      *)
(***************************************************************************)
ASSUME LifespanAssumption == Timeout <= Buffer /\ 3 * Timeout + Buffer <= Lifespan

MaxRetry == 1        \* maxRetryTimes of both calls
NoToken  == 0        \* nil
Tokens   == 1 .. MaxTokens
Times    == 0 .. MaxTime
Never    == -1       \* time.Time{}

VARIABLES
  now,          \* the clock
  up,           \* the first load of client scopes has succeeded
  token,        \* AdminClient.token
  tokenExpiry,  \* AdminClient.tokenExpiry
  flight,       \* tokenGroup: the leader of the refresh in flight
  mutex,        \* CacheFirstTTL's: the user that holds it
  expires,      \* CacheFirstTTL's
  clients,      \* CacheFirstTTL's result and err
  pc,           \* pc[c]: what caller c is about to do
  retryNum,     \* retryNum[c]
  bearer,       \* bearer[c]: the token in c's request, or the one Keycloak answers it with
  since,        \* since[c]: when c's call to Keycloak began
  issuedAt,     \* Keycloak: when each token was issued
  revoked,      \* Keycloak: the tokens it no longer accepts
  revocations   \* how often it has revoked them

cache    == <<mutex, expires, clients>>
memory   == <<token, tokenExpiry>>
keycloak == <<issuedAt, revoked, revocations>>
locals   == <<pc, retryNum, bearer, since>>
vars     == <<now, up, cache, memory, flight, locals, keycloak>>

Issued == {g \in Tokens : issuedAt[g] # Never}

\* At Keycloak: waiting for a token to be issued, for the answer with it, for
\* a request to arrive, for its answer.
Calling  == {"issue", "receive", "arrive", "ok", "refused"}
Waiting  == {"idle", "lock", "wait"}
Internal == {"read", "do", "finish", "attach", "done", "failed"}
PCs      == Calling \cup Waiting \cup Internal

Goto(c, p) == pc' = [pc EXCEPT ![c] = p]

---------------------------------------------------------------------------
(* The callers *)

\* A ticker tick, or a request for the applications of a user.
Call(c) ==
  /\ pc[c] = "idle"
  /\ c \in Users => up
  /\ Goto(c, IF c \in Users THEN "lock" ELSE "read")
  /\ UNCHANGED <<now, up, cache, memory, flight, retryNum, bearer, since, keycloak>>

\* CacheFirstTTL with the mutex just taken: the kept answer is young enough.
Hit(c) ==
  /\ pc[c] = "lock" /\ mutex = Free
  /\ now <= expires
  /\ Goto(c, "idle")
  /\ UNCHANGED <<now, up, cache, memory, flight, retryNum, bearer, since, keycloak>>

\* It is not: the circuit is called under the mutex.
Miss(c) ==
  /\ pc[c] = "lock" /\ mutex = Free
  /\ now > expires
  /\ mutex' = c
  /\ Goto(c, "read")
  /\ UNCHANGED <<now, up, expires, clients, memory, flight, retryNum, bearer, since, keycloak>>

\* Slip: an error is kept for the ttl as well.
ExpiresAlsoOnError(ok) == now + TTL

\* The new value of expires once the circuit has returned.
ExpiresAfter(ok) == IF ok THEN now + TTL ELSE expires

\* c's call is over, and its locals with it.
Return(c) ==
  /\ Goto(c, "idle")
  /\ retryNum' = [retryNum EXCEPT ![c] = 0]
  /\ bearer' = [bearer EXCEPT ![c] = NoToken]
  /\ since' = [since EXCEPT ![c] = 0]

\* The circuit's answer goes into the cache, and the mutex is unlocked.
UserReturns(c) ==
  LET ok == pc[c] = "done"
  IN  /\ c \in Users /\ pc[c] \in {"done", "failed"}
      /\ clients' = IF ok THEN "ok" ELSE "error"
      /\ expires' = ExpiresAfter(ok)
      /\ mutex' = Free
      /\ Return(c)
      /\ UNCHANGED <<now, up, memory, flight, keycloak>>

\* loadClientScopes: an error is logged, except at the start, when it ends
\* the program; it starts again with nothing in memory.
RefresherReturns ==
  /\ pc[Refresher] \in {"done", "failed"}
  /\ up' = (up \/ pc[Refresher] = "done")
  /\ IF up' THEN UNCHANGED memory ELSE token' = NoToken /\ tokenExpiry' = Never
  /\ Return(Refresher)
  /\ UNCHANGED <<now, cache, flight, keycloak>>

---------------------------------------------------------------------------
(* ensureValidToken *)

\* Slip: a token is taken to be good until its expiry.
StaleAtExpiry(g, expiry) == g = NoToken \/ now > expiry

\* Slip: a token is good for as long as there is one.
StaleOnlyMissing(g, expiry) == g = NoToken

\* The token is missing, or expires within the buffer.
Stale(g, expiry) == g = NoToken \/ now + Buffer > expiry

\* The token is read under the lock and judged after it.
ReadToken(c) ==
  /\ pc[c] = "read"
  /\ Goto(c, IF Stale(token, tokenExpiry) THEN "do" ELSE "attach")
  /\ UNCHANGED <<now, up, cache, memory, flight, retryNum, bearer, since, keycloak>>

\* Slip: everyone refreshes for itself.
RefreshesAlone(c) ==
  /\ pc[c] = "do"
  /\ flight' = c
  /\ Goto(c, "issue")
  /\ since' = [since EXCEPT ![c] = now]
  /\ UNCHANGED <<now, up, cache, memory, retryNum, bearer, keycloak>>

\* singleflight.Group.Do: the first to come asks for a token, the others wait.
Do(c) ==
  /\ pc[c] = "do"
  /\ IF flight = Free
       THEN /\ flight' = c
            /\ Goto(c, "issue")
            /\ since' = [since EXCEPT ![c] = now]
       ELSE Goto(c, "wait") /\ UNCHANGED <<flight, since>>
  /\ UNCHANGED <<now, up, cache, memory, retryNum, bearer, keycloak>>

\* Keycloak issues a token; the answer is on its way.
Issue(c) ==
  /\ pc[c] = "issue"
  /\ \E g \in Tokens \ Issued :
       /\ \A h \in Tokens \ Issued : g <= h
       /\ issuedAt' = [issuedAt EXCEPT ![g] = now]
       /\ bearer' = [bearer EXCEPT ![c] = g]
  /\ Goto(c, "receive")
  /\ UNCHANGED <<now, up, cache, memory, flight, retryNum, since, revoked, revocations>>

\* setTokenAndExpiry: the lifespan is counted from the answer's arrival.
Receive(c) ==
  /\ pc[c] = "receive"
  /\ token' = bearer[c]
  /\ tokenExpiry' = now + Lifespan
  /\ Goto(c, "finish")
  /\ UNCHANGED <<now, up, cache, flight, retryNum, bearer, since, keycloak>>

\* The flight is over: whoever waits for it gets the leader's result.
Land(c, p) ==
  /\ flight' = Free
  /\ pc' = [d \in Callers |-> IF d = c \/ pc[d] = "wait" THEN p ELSE pc[d]]

Finish(c) ==
  /\ pc[c] = "finish"
  /\ Land(c, "attach")
  /\ UNCHANGED <<now, up, cache, memory, retryNum, bearer, since, keycloak>>

\* Slip: the error of a refresh is not passed on.
RefreshErrorIgnored(c) ==
  /\ pc[c] \in {"issue", "receive"}
  /\ Land(c, "attach")
  /\ UNCHANGED <<now, up, cache, memory, retryNum, bearer, since, keycloak>>

\* Slip: a failed refresh leaves its followers waiting.
OnlyLeaderFails(c) ==
  /\ pc[c] \in {"issue", "receive"}
  /\ flight' = Free
  /\ Goto(c, "failed")
  /\ UNCHANGED <<now, up, cache, memory, retryNum, bearer, since, keycloak>>

\* Keycloak does not answer in time or not with a token, or the leader's
\* context is cancelled: its followers fail with it.
RefreshFails(c) ==
  /\ pc[c] \in {"issue", "receive"}
  /\ Land(c, "failed")
  /\ UNCHANGED <<now, up, cache, memory, retryNum, bearer, since, keycloak>>

---------------------------------------------------------------------------
(* SendRetryableRequest, with setFreshBearerToken as its hook *)

\* getToken: whatever token is in memory by now.
Attach(c) ==
  /\ pc[c] = "attach"
  /\ bearer' = [bearer EXCEPT ![c] = token]
  /\ since' = [since EXCEPT ![c] = now]
  /\ Goto(c, "arrive")
  /\ UNCHANGED <<now, up, cache, memory, flight, retryNum, keycloak>>

\* Keycloak takes a token up to and including its last second.
Accepted(g) == g \in Issued \ revoked /\ now <= issuedAt[g] + Lifespan

Arrive(c) ==
  /\ pc[c] = "arrive"
  /\ Goto(c, IF Accepted(bearer[c]) THEN "ok" ELSE "refused")
  /\ UNCHANGED <<now, up, cache, memory, flight, retryNum, bearer, since, keycloak>>

Answered(c) ==
  /\ pc[c] = "ok"
  /\ Goto(c, "done")
  /\ UNCHANGED <<now, up, cache, memory, flight, retryNum, bearer, since, keycloak>>

\* Slip: retries are counted, and not limited.
RetriesForever(c) ==
  /\ pc[c] = "refused"
  /\ retryNum' = [retryNum EXCEPT ![c] = @ + 1]
  /\ Goto(c, "read")
  /\ UNCHANGED <<now, up, cache, memory, flight, bearer, since, keycloak>>

\* A 401: the hook and the call are tried again, with the same token if that
\* still looks good.
Refused(c) ==
  /\ pc[c] = "refused"
  /\ retryNum' = [retryNum EXCEPT ![c] = @ + 1]
  /\ Goto(c, IF retryNum[c] + 1 <= MaxRetry THEN "read" ELSE "failed")
  /\ UNCHANGED <<now, up, cache, memory, flight, bearer, since, keycloak>>

\* The call fails, with another status than 401, or its context is cancelled.
CallFails(c) ==
  /\ pc[c] \in {"arrive", "ok", "refused"}
  /\ Goto(c, "failed")
  /\ UNCHANGED <<now, up, cache, memory, flight, retryNum, bearer, since, keycloak>>

---------------------------------------------------------------------------
(* The environment *)

\* Keycloak forgets its keys, or an administrator revokes all tokens.
Revoke ==
  /\ revocations < MaxRevoked
  /\ revoked' = Issued
  /\ revocations' = revocations + 1
  /\ UNCHANGED <<now, up, cache, memory, flight, locals, issuedAt>>

Advance ==
  /\ now < MaxTime
  /\ \A c \in Callers : pc[c] \notin Internal
  /\ \A c \in Callers : pc[c] \in Calling => now < since[c] + Timeout
  /\ now' = now + 1
  /\ UNCHANGED <<up, cache, memory, flight, locals, keycloak>>

Init ==
  /\ now = 0
  /\ up = FALSE
  /\ token = NoToken /\ tokenExpiry = Never
  /\ flight = Free
  /\ mutex = Free /\ expires = Never /\ clients = "none"
  /\ pc = [c \in Callers |-> "idle"]
  /\ retryNum = [c \in Callers |-> 0]
  /\ bearer = [c \in Callers |-> NoToken]
  /\ since = [c \in Callers |-> 0]
  /\ issuedAt = [g \in Tokens |-> Never]
  /\ revoked = {} /\ revocations = 0

\* What c does next once it has been called, whether or not Keycloak answers.
Work(c) ==
  \/ ReadToken(c) \/ Do(c) \/ Issue(c) \/ Receive(c) \/ Finish(c) \/ RefreshFails(c)
  \/ Attach(c) \/ Arrive(c) \/ Answered(c) \/ Refused(c) \/ CallFails(c)
  \/ UserReturns(c)
  \/ c = Refresher /\ RefresherReturns

Lock(c) == Hit(c) \/ Miss(c)

Next ==
  \/ \E c \in Callers : Call(c) \/ Lock(c) \/ Work(c)
  \/ Revoke
  \/ Advance

\* A goroutine that can go on does, and time with it.
Fairness == (\A c \in Callers : WF_vars(Work(c) \/ Lock(c))) /\ WF_vars(Advance)

Spec == Init /\ [][Next]_vars /\ Fairness

---------------------------------------------------------------------------
(* Properties *)

\* Every variable keeps its type.
TypeOK ==
  /\ now \in Times /\ up \in BOOLEAN
  /\ token \in Tokens \cup {NoToken} /\ tokenExpiry \in Int
  /\ flight \in Callers \cup {Free}
  /\ mutex \in Users \cup {Free}
  /\ expires \in Int /\ clients \in {"none", "ok", "error"}
  /\ pc \in [Callers -> PCs]
  /\ retryNum \in [Callers -> 0 .. MaxRetry + 1]
  /\ bearer \in [Callers -> Tokens \cup {NoToken}]
  /\ since \in [Callers -> Times]
  /\ issuedAt \in [Tokens -> Times \cup {Never}]
  /\ revoked \subseteq Tokens /\ revocations \in 0 .. MaxRevoked

\* setFreshBearerToken dereferences the token it reads without asking whether
\* there is one: there is, for the leader and for its followers.
AttachedTokenExists == \A c \in Callers : pc[c] = "attach" => token # NoToken

\* A call that Keycloak has refused is refused again only if Keycloak has
\* revoked the token: one retry makes up for a token that expires under way,
\* and for a refresh by another goroutine meanwhile.
RetryRecovers ==
  \A c \in Callers :
    pc[c] = "refused" /\ retryNum[c] = MaxRetry => bearer[c] \in revoked

\* A token that Keycloak refuses, even one it revoked long before the expiry
\* that is all the client judges it by, goes out of use by itself: no call is
\* refused later than this for it.
RevokedTokenIsDropped ==
  \A c \in Callers :
    pc[c] = "refused" => now <= issuedAt[bearer[c]] + Lifespan + 2 * Timeout - Buffer

\* What the cache gives without asking Keycloak is never an error.
ErrorsAreNotCached == now <= expires => clients = "ok"

\* While the program is up, a token in memory is only replaced by a newer one,
\* although answers of Keycloak may be slow and the leader not the last to see
\* the old token expire.
TokenNeverRegresses == [][up => token <= token']_vars

\* Nobody waits in vain: followers wait for a refresh that a leader is still
\* at, and users for a mutex whose holder is still at its call.
NobodyWaitsInVain ==
  /\ (\E c \in Callers : pc[c] = "wait") => flight # Free
  /\ flight # Free => pc[flight] \in {"issue", "receive", "finish"}
  /\ mutex # Free => pc[mutex] \notin {"idle", "lock"}

\* "Use singleflight to ensure only one refresh happens": nobody asks for a
\* token while the one in memory is still good.
OnlyOneRefresh ==
  [][\A c \in Callers : pc[c] = "do" /\ pc'[c] = "issue" => Stale(token, tokenExpiry)]_vars
=============================================================================
