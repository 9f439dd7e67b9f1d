------------------------- MODULE AdminClientProofs -------------------------
(***************************************************************************)
(* Proofs about AdminClient, for every set of users, every buffer, timeout *)
(* and lifespan that satisfy LifespanAssumption, and every bound: its      *)
(* safety properties, from one inductive invariant.                        *)
(***************************************************************************)
EXTENDS AdminClient, TLAPS

---------------------------------------------------------------------------
(* The inductive invariant. *)

\* Before the first load of client scopes there are no users; after it there
\* is always a token in memory, and there is for everyone who is to attach it
\* or has.
StartInv ==
  /\ ~up => \A u \in Users : pc[u] = "idle"
  /\ up => token # NoToken
  /\ \A c \in Callers : pc[c] \in {"attach", "arrive", "ok", "refused", "done"} => token # NoToken

\* The mutex is held exactly by the user that is past it, whose look at the
\* cache is still right: nothing in it was young enough.
MutexInv ==
  /\ \A u \in Users : pc[u] \notin {"idle", "lock"} <=> mutex = u
  /\ \A u \in Users : pc[u] \notin {"idle", "lock"} => now > expires
  /\ pc[Refresher] # "lock"

\* The flight is led exactly by the goroutine that asks for a token, and the
\* others wait only while there is one.
FlightInv ==
  /\ \A c \in Callers : pc[c] \in {"issue", "receive", "finish"} <=> flight = c
  /\ \A c \in Callers : pc[c] = "wait" => flight # Free

\* Tokens are issued in their order; the one in memory is one of them, and
\* expires for its owner at most Timeout later than for Keycloak.
TokensInv ==
  /\ \A g \in Issued, h \in Tokens \ Issued : g < h
  /\ \A g \in Issued : issuedAt[g] <= now
  /\ revoked \subseteq Issued
  /\ token # NoToken => token \in Issued /\ tokenExpiry <= issuedAt[token] + Timeout + Lifespan

\* An issued token on its way is the last one, and is as old as its request
\* at most; once received it is the one in memory.
Leading(c) ==
  /\ pc[c] \in {"receive", "finish"} =>
       /\ bearer[c] \in Issued
       /\ since[c] <= issuedAt[bearer[c]]
  /\ pc[c] = "receive" => \A g \in Issued : g <= bearer[c]
  /\ pc[c] = "finish" => token = bearer[c]

LeaderInv == \A c \in Callers : Leading(c)

\* c is still within its call to Keycloak, or at the instant of its answer.
InTime(c) == since[c] <= now /\ now <= since[c] + Timeout

\* c has sent the token in memory, or another has come since.
Sent(c) ==
  /\ InTime(c)
  /\ bearer[c] \in Issued
  /\ token # NoToken
  /\ token = bearer[c] \/ since[c] <= issuedAt[token] + Timeout

\* The token g has been revoked, or is good for a call that begins at t.
Lasts(g, t) == g \in revoked \/ t + Timeout <= issuedAt[g] + Lifespan

\* The token g is of no use to Keycloak.
Spent(g) == g \in revoked \/ now > issuedAt[g] + Lifespan

\* What a caller on its retry may rely on, and why: the token it was refused
\* with is spent, so that it either looks stale or has been replaced.
Retrying(c) ==
  /\ pc[c] \in {"issue", "receive", "finish"} => InTime(c)
  /\ pc[c] \in {"arrive", "ok", "refused"} => Sent(c)
  /\ pc[c] = "read" /\ retryNum[c] = 1 => Sent(c) /\ Spent(bearer[c])
  /\ pc[c] = "refused" /\ retryNum[c] = 0 => Spent(bearer[c])
  /\ pc[c] = "attach" /\ retryNum[c] = 1 => Lasts(token, now)
  /\ pc[c] = "arrive" /\ retryNum[c] = 1 => Lasts(bearer[c], since[c])
  /\ pc[c] = "refused" /\ retryNum[c] = 1 => bearer[c] \in revoked
  /\ pc[c] \notin {"failed", "done"} => retryNum[c] <= 1
  /\ pc[c] \in {"idle", "lock"} => retryNum[c] = 0

RetryInv == \A c \in Callers : Retrying(c)

IInv ==
  /\ TypeOK
  /\ StartInv
  /\ MutexInv
  /\ FlightInv
  /\ TokensInv
  /\ LeaderInv
  /\ RetryInv
  /\ ErrorsAreNotCached

USE CallersAssumption, DurationAssumption, BoundsAssumption, LifespanAssumption
USE DEF CallersAssumption, DurationAssumption, BoundsAssumption, LifespanAssumption
USE DEF Goto, cache, memory, keycloak, locals

---------------------------------------------------------------------------
(* Every action preserves it. *)

LEMMA CallInv == ASSUME IInv, NEW c \in Callers, Call(c) PROVE IInv'
<1>1. TypeOK'
  BY DEF IInv, TypeOK, PCs, Calling, Waiting, Internal, Call
<1>2. StartInv' /\ MutexInv' /\ FlightInv' /\ TokensInv' /\ LeaderInv' /\ ErrorsAreNotCached'
  BY DEF IInv, StartInv, MutexInv, FlightInv, TokensInv, Issued, LeaderInv, Leading,
       ErrorsAreNotCached, Call
<1>3. RetryInv'
  BY DEF IInv, TypeOK, RetryInv, Retrying, InTime, Sent, Lasts, Spent, Issued, Call
<1> QED
  BY <1>1, <1>2, <1>3 DEF IInv

LEMMA HitInv == ASSUME IInv, NEW c \in Callers, Hit(c) PROVE IInv'
<1>1. TypeOK'
  BY DEF IInv, TypeOK, PCs, Calling, Waiting, Internal, Hit
<1>2. StartInv' /\ MutexInv' /\ FlightInv' /\ TokensInv' /\ LeaderInv' /\ ErrorsAreNotCached'
  BY DEF IInv, StartInv, MutexInv, FlightInv, TokensInv, Issued, LeaderInv, Leading,
       ErrorsAreNotCached, Hit
<1>3. RetryInv'
  BY DEF IInv, TypeOK, RetryInv, Retrying, InTime, Sent, Lasts, Spent, Issued, Hit
<1> QED
  BY <1>1, <1>2, <1>3 DEF IInv

LEMMA MissInv == ASSUME IInv, NEW c \in Callers, Miss(c) PROVE IInv'
<1>1. TypeOK'
  BY DEF IInv, TypeOK, MutexInv, PCs, Internal, Callers, Miss
<1>2. StartInv'
  BY DEF IInv, StartInv, Miss
<1>3. MutexInv'
  BY DEF IInv, TypeOK, MutexInv, Callers, Miss
<1>4. FlightInv'
  BY DEF IInv, FlightInv, Miss
<1>5. TokensInv'
  BY DEF IInv, TokensInv, Issued, Miss
<1>6. LeaderInv'
  BY DEF IInv, LeaderInv, Leading, Issued, Miss
<1>7. RetryInv'
  BY DEF IInv, TypeOK, RetryInv, Retrying, InTime, Sent, Lasts, Spent, Issued, Miss
<1>8. ErrorsAreNotCached'
  BY DEF IInv, ErrorsAreNotCached, Miss
<1> QED
  BY <1>1, <1>2, <1>3, <1>4, <1>5, <1>6, <1>7, <1>8 DEF IInv

LEMMA UserReturnsInv == ASSUME IInv, NEW c \in Callers, UserReturns(c) PROVE IInv'
<1>1. TypeOK'
  <2>1. ExpiresAfter(pc[c] = "done") \in Int
    BY DEF IInv, TypeOK, Times, ExpiresAfter
  <2>2. retryNum' \in [Callers -> 0 .. MaxRetry + 1] /\ since' \in [Callers -> Times]
    BY DEF IInv, TypeOK, MaxRetry, Times, UserReturns, Return
  <2> QED
    BY <2>1, <2>2 DEF IInv, TypeOK, PCs, Waiting, UserReturns, Return
<1>2. StartInv'
  BY DEF IInv, StartInv, UserReturns, Return
<1>3. MutexInv'
  BY DEF IInv, TypeOK, MutexInv, Callers, UserReturns, Return, ExpiresAfter
<1>4. FlightInv'
  BY DEF IInv, FlightInv, UserReturns, Return
<1>5. TokensInv'
  BY DEF IInv, TokensInv, Issued, UserReturns, Return
<1>6. LeaderInv'
  BY DEF IInv, LeaderInv, Leading, Issued, UserReturns, Return
<1>7. RetryInv'
  BY DEF IInv, TypeOK, RetryInv, Retrying, InTime, Sent, Lasts, Spent, Issued,
       UserReturns, Return
<1>8. ErrorsAreNotCached'
  <2>1. CASE pc[c] = "done"
    BY <2>1 DEF ErrorsAreNotCached, UserReturns
  <2>2. CASE pc[c] # "done"
    <3>1. now > expires
      BY DEF IInv, MutexInv, UserReturns
    <3> QED
      BY <2>2, <3>1 DEF IInv, TypeOK, Times, ErrorsAreNotCached, UserReturns, ExpiresAfter
  <2> QED
    BY <2>1, <2>2
<1> QED
  BY <1>1, <1>2, <1>3, <1>4, <1>5, <1>6, <1>7, <1>8 DEF IInv

LEMMA RefresherReturnsInv == ASSUME IInv, RefresherReturns PROVE IInv'
<1>1. TypeOK'
  <2>1. up' \in BOOLEAN
    BY DEF IInv, TypeOK, RefresherReturns
  <2>2. token' \in Tokens \cup {NoToken} /\ tokenExpiry' \in Int
    BY DEF IInv, TypeOK, Never, RefresherReturns, memory
  <2>3. retryNum' \in [Callers -> 0 .. MaxRetry + 1] /\ since' \in [Callers -> Times]
    <3>1. /\ retryNum' = [retryNum EXCEPT ![Refresher] = 0]
          /\ since' = [since EXCEPT ![Refresher] = 0]
      BY DEF RefresherReturns, Return
    <3>2. 0 \in Times /\ 0 \in 0 .. MaxRetry + 1
      BY DEF Times, MaxRetry
    <3> QED
      BY <3>1, <3>2 DEF IInv, TypeOK
  <2> QED
    BY <2>1, <2>2, <2>3 DEF IInv, TypeOK, PCs, Waiting, RefresherReturns, Return
<1>2. StartInv'
  BY DEF IInv, TypeOK, StartInv, Callers, RefresherReturns, Return
<1>3. MutexInv'
  BY DEF IInv, MutexInv, RefresherReturns, Return
<1>4. FlightInv'
  BY DEF IInv, FlightInv, RefresherReturns, Return
<1>5. TokensInv'
  BY DEF IInv, TokensInv, Issued, RefresherReturns, Return
<1>6. LeaderInv'
  <2> SUFFICES ASSUME NEW d \in Callers PROVE Leading(d)'
    BY DEF LeaderInv
  <2>1. d # Refresher => \/ pc'[d] = "idle"
                         \/ /\ UNCHANGED memory
                            /\ pc'[d] = pc[d] /\ bearer'[d] = bearer[d] /\ since'[d] = since[d]
    BY DEF IInv, TypeOK, StartInv, Callers, RefresherReturns, Return
  <2>2. d = Refresher => pc'[d] = "idle"
    BY DEF IInv, TypeOK, RefresherReturns, Return
  <2> QED
    BY <2>1, <2>2 DEF IInv, LeaderInv, Leading, Issued, RefresherReturns
<1>7. RetryInv'
  <2> SUFFICES ASSUME NEW d \in Callers PROVE Retrying(d)'
    BY DEF RetryInv
  <2>1. CASE d = Refresher
    BY <2>1 DEF IInv, TypeOK, Retrying, RefresherReturns, Return
  <2>2. CASE d # Refresher /\ up'
    BY <2>2 DEF IInv, TypeOK, RetryInv, Retrying, InTime, Sent, Lasts, Spent, Issued,
                RefresherReturns, Return
  <2>3. CASE d # Refresher /\ ~up'
    BY <2>3 DEF IInv, TypeOK, StartInv, Callers, RetryInv, Retrying, RefresherReturns, Return
  <2> QED
    BY <2>1, <2>2, <2>3
<1>8. ErrorsAreNotCached'
  BY DEF IInv, ErrorsAreNotCached, RefresherReturns, Return
<1> QED
  BY <1>1, <1>2, <1>3, <1>4, <1>5, <1>6, <1>7, <1>8 DEF IInv

LEMMA ReadTokenInv == ASSUME IInv, NEW c \in Callers, ReadToken(c) PROVE IInv'
<1>1. TypeOK'
  BY DEF IInv, TypeOK, PCs, Calling, Waiting, Internal, ReadToken, Stale, NoToken
<1>2. StartInv'
  BY DEF IInv, TypeOK, StartInv, ReadToken, Stale, NoToken
<1>3. MutexInv'
  BY DEF IInv, MutexInv, ReadToken
<1>4. FlightInv'
  BY DEF IInv, FlightInv, ReadToken
<1>5. TokensInv'
  BY DEF IInv, TokensInv, Issued, ReadToken
<1>6. LeaderInv'
  BY DEF IInv, LeaderInv, Leading, Issued, ReadToken
<1>7. RetryInv'
  <2> SUFFICES ASSUME NEW d \in Callers PROVE Retrying(d)'
    BY DEF RetryInv
  <2>1. Retrying(d)
    BY DEF IInv, RetryInv
  <2>2. CASE d # c
    BY <2>1, <2>2 DEF IInv, TypeOK, Retrying, InTime, Sent, Lasts, Spent, Issued, ReadToken
  <2>3. CASE d = c /\ Stale(token, tokenExpiry)
    BY <2>1, <2>3 DEF IInv, TypeOK, Retrying, ReadToken
  <2>4. CASE d = c /\ ~Stale(token, tokenExpiry)
    <3>1. retryNum[c] = 1 => Lasts(token, now)
      <4> SUFFICES ASSUME retryNum[c] = 1 PROVE Lasts(token, now)
        OBVIOUS
      <4>1. Sent(c) /\ Spent(bearer[c])
        BY <2>1, <2>4 DEF Retrying, ReadToken
      <4>2. /\ token \in Issued
            /\ now + Buffer <= tokenExpiry
            /\ tokenExpiry <= issuedAt[token] + Timeout + Lifespan
            /\ issuedAt[token] \in Int /\ tokenExpiry \in Int /\ now \in Int /\ since[c] \in Int
        BY <2>4 DEF IInv, TypeOK, TokensInv, Stale, Issued, Times, Never
      <4>3. CASE token = bearer[c]
        BY <4>1, <4>2, <4>3 DEF Spent, Lasts
      <4>4. CASE token # bearer[c]
        BY <4>1, <4>2, <4>4 DEF Sent, InTime, Lasts
      <4> QED
        BY <4>3, <4>4
    <3>2. pc'[c] = "attach" /\ retryNum' = retryNum /\ retryNum[c] <= 1
      BY <2>1, <2>4 DEF IInv, TypeOK, Retrying, ReadToken
    <3> QED
      BY <2>4, <3>1, <3>2 DEF Retrying, Lasts, ReadToken
  <2> QED
    BY <2>2, <2>3, <2>4
<1>8. ErrorsAreNotCached'
  BY DEF IInv, ErrorsAreNotCached, ReadToken
<1> QED
  BY <1>1, <1>2, <1>3, <1>4, <1>5, <1>6, <1>7, <1>8 DEF IInv

LEMMA DoInv == ASSUME IInv, NEW c \in Callers, Do(c) PROVE IInv'
<1>1. TypeOK'
  <2>1. since' \in [Callers -> Times] /\ flight' \in Callers \cup {Free}
    BY DEF IInv, TypeOK, Do
  <2>2. pc' \in [Callers -> PCs]
    BY DEF IInv, TypeOK, PCs, Calling, Waiting, Do
  <2> QED
    BY <2>1, <2>2 DEF IInv, TypeOK, Do
<1>2. StartInv'
  BY DEF IInv, TypeOK, StartInv, Callers, Do
<1>3. MutexInv'
  BY DEF IInv, TypeOK, MutexInv, Callers, Do
<1>4. FlightInv'
  BY DEF IInv, TypeOK, FlightInv, Do
<1>5. TokensInv'
  BY DEF IInv, TokensInv, Issued, Do
<1>6. LeaderInv'
  BY DEF IInv, TypeOK, LeaderInv, Leading, Issued, Do
<1>7. RetryInv'
  <2> SUFFICES ASSUME NEW d \in Callers PROVE Retrying(d)'
    BY DEF RetryInv
  <2>1. Retrying(d) /\ retryNum[d] \in Int /\ now \in Int
    BY DEF IInv, TypeOK, RetryInv, Times
  <2>2. CASE d # c
    BY <2>1, <2>2 DEF IInv, TypeOK, Retrying, InTime, Sent, Lasts, Spent, Issued, Do
  <2>3. CASE d = c
    BY <2>1, <2>3 DEF IInv, TypeOK, Retrying, InTime, Do
  <2> QED
    BY <2>2, <2>3
<1>8. ErrorsAreNotCached'
  BY DEF IInv, ErrorsAreNotCached, Do
<1> QED
  BY <1>1, <1>2, <1>3, <1>4, <1>5, <1>6, <1>7, <1>8 DEF IInv

LEMMA IssueInv == ASSUME IInv, NEW c \in Callers, Issue(c) PROVE IInv'
<1>1. PICK g \in Tokens \ Issued :
        /\ \A h \in Tokens \ Issued : g <= h
        /\ issuedAt' = [issuedAt EXCEPT ![g] = now]
        /\ bearer' = [bearer EXCEPT ![c] = g]
  BY DEF Issue
<1>2. /\ Issued' = Issued \cup {g}
      /\ issuedAt'[g] = now
      /\ \A h \in Issued : issuedAt'[h] = issuedAt[h]
  BY <1>1 DEF IInv, TypeOK, Issued, Times, Never
<1>3. \A h \in Issued : h < g
  BY DEF IInv, TokensInv
<1>4. TypeOK'
  <2>1. /\ issuedAt' \in [Tokens -> Times \cup {Never}]
        /\ bearer' \in [Callers -> Tokens \cup {NoToken}]
    BY <1>1 DEF IInv, TypeOK
  <2> QED
    BY <2>1 DEF IInv, TypeOK, PCs, Calling, Issue
<1>5. StartInv'
  BY DEF IInv, TypeOK, StartInv, Callers, Issue
<1>6. MutexInv'
  BY DEF IInv, TypeOK, MutexInv, Callers, Issue
<1>7. FlightInv'
  BY DEF IInv, TypeOK, FlightInv, Issue
<1>8. TokensInv'
  <2>1. \A h \in Issued', i \in (Tokens \ Issued)' : h < i
    <3> SUFFICES ASSUME NEW h \in Issued \cup {g}, NEW i \in Tokens \ Issued, i # g PROVE h < i
      BY <1>2 DEF Tokens
    <3>1. g <= i /\ g \in Int /\ i \in Int
      BY <1>1 DEF Tokens
    <3> QED
      BY <3>1 DEF IInv, TokensInv
  <2>2. \A h \in Issued' : issuedAt'[h] <= now'
    BY <1>2 DEF IInv, TypeOK, TokensInv, Times, Issue
  <2> QED
    BY <1>2, <2>1, <2>2 DEF IInv, TokensInv, Tokens, Issue, memory
<1>9. LeaderInv'
  <2> SUFFICES ASSUME NEW d \in Callers PROVE Leading(d)'
    BY DEF LeaderInv
  <2>1. CASE d = c
    <3>1. pc'[c] = "receive" /\ bearer'[c] = g /\ since'[c] = since[c] /\ now' = now
      BY <1>1 DEF IInv, TypeOK, Issue
    <3>2. since[c] <= now
      BY DEF IInv, RetryInv, Retrying, InTime, Issue
    <3>3. \A h \in Issued' : h <= g
      BY <1>1, <1>2, <1>3 DEF Tokens, Issued
    <3> QED
      BY <1>2, <2>1, <3>1, <3>2, <3>3 DEF Leading
  <2>2. CASE d # c
    <3>1. pc'[d] = pc[d] /\ pc[d] \notin {"receive", "finish"}
      BY <2>2 DEF IInv, TypeOK, FlightInv, Issue
    <3> QED
      BY <3>1 DEF Leading
  <2> QED
    BY <2>1, <2>2
<1>10. RetryInv'
  <2> SUFFICES ASSUME NEW d \in Callers PROVE Retrying(d)'
    BY DEF RetryInv
  <2>1. /\ Retrying(d)
        /\ UNCHANGED <<now, token, retryNum, since, revoked>>
        /\ pc[c] = "issue" /\ pc' = [pc EXCEPT ![c] = "receive"]
        /\ pc \in [Callers -> PCs]
        /\ token # NoToken => token \in Issued
    BY DEF IInv, TypeOK, TokensInv, RetryInv, Issue, memory
  <2>2. CASE d = c
    BY <2>1, <2>2 DEF Retrying, InTime
  <2>3. CASE d # c
    <3>1. pc'[d] = pc[d] /\ bearer'[d] = bearer[d]
      BY <1>1, <2>1, <2>3 DEF IInv, TypeOK
    <3>2. Sent(d) => Sent(d)'
      BY <1>2, <2>1, <3>1 DEF Sent, InTime
    <3>3. pc[d] = "attach" => token \in Issued
      BY <2>1 DEF IInv, StartInv
    <3>4. bearer[d] \in Issued => issuedAt'[bearer'[d]] = issuedAt[bearer[d]]
      BY <1>2, <3>1
    <3>5. token \in Issued => issuedAt'[token'] = issuedAt[token]
      BY <1>2, <2>1
    <3> QED
      BY <2>1, <3>1, <3>2, <3>3, <3>4, <3>5 DEF Retrying, InTime, Sent, Lasts, Spent
  <2> QED
    BY <2>2, <2>3
<1>11. ErrorsAreNotCached'
  BY DEF IInv, ErrorsAreNotCached, Issue, cache
<1> QED
  BY <1>4, <1>5, <1>6, <1>7, <1>8, <1>9, <1>10, <1>11 DEF IInv

LEMMA ReceiveInv == ASSUME IInv, NEW c \in Callers, Receive(c) PROVE IInv'
<1>1. TypeOK'
  <2>1. tokenExpiry' \in Int
    BY DEF IInv, TypeOK, Times, Receive
  <2> QED
    BY <2>1 DEF IInv, TypeOK, PCs, Internal, Receive
<1>2. StartInv'
  <2>1. bearer[c] # NoToken
    BY DEF IInv, LeaderInv, Leading, Issued, Tokens, NoToken, Receive
  <2> QED
    BY <2>1 DEF IInv, TypeOK, StartInv, Callers, Receive
<1>3. MutexInv' /\ FlightInv' /\ LeaderInv' /\ ErrorsAreNotCached'
  BY DEF IInv, MutexInv, FlightInv, LeaderInv, Leading, Issued, ErrorsAreNotCached,
       Receive
<1>4. TokensInv'
  <2>1. /\ bearer[c] \in Issued /\ since[c] <= issuedAt[bearer[c]] /\ InTime(c)
        /\ since[c] \in Int /\ now \in Int /\ issuedAt[bearer[c]] \in Int
    BY DEF IInv, TypeOK, LeaderInv, Leading, RetryInv, Retrying, Issued, Times, Never, Receive
  <2>2. now + Lifespan <= issuedAt[bearer[c]] + Timeout + Lifespan
    BY <2>1 DEF InTime
  <2> QED
    BY <2>1, <2>2 DEF IInv, TokensInv, Issued, Receive
<1>5. RetryInv'
  <2> SUFFICES ASSUME NEW d \in Callers PROVE Retrying(d)'
    BY DEF RetryInv
  <2>1. Retrying(d) /\ Retrying(c) /\ Leading(c)
    BY DEF IInv, RetryInv, LeaderInv
  <2>2. /\ pc[c] = "receive" /\ pc' = [pc EXCEPT ![c] = "finish"]
        /\ token' = bearer[c]
        /\ UNCHANGED <<now, retryNum, bearer, since, issuedAt, revoked>>
    BY DEF Receive
  <2>3. /\ since[c] \in Int /\ since[d] \in Int /\ now \in Int /\ retryNum[d] \in Int
        /\ issuedAt[bearer[c]] \in Int
        /\ pc \in [Callers -> PCs]
    BY <2>1, <2>2 DEF IInv, TypeOK, Leading, Issued, Times, Never
  <2>4. CASE d = c
    BY <2>1, <2>2, <2>3, <2>4 DEF Retrying, InTime
  <2>5. CASE d # c
    <3>1. bearer[c] # NoToken
      BY <2>1, <2>2 DEF Leading, Issued, Tokens, NoToken
    <3>2. now <= issuedAt[bearer[c]] + Timeout
      BY <2>1, <2>2, <2>3 DEF Leading, Retrying, InTime
    <3>3. Sent(d) => Sent(d)'
      BY <2>2, <2>3, <3>1, <3>2 DEF Sent, InTime, Issued
    <3>4. pc[d] = "attach" => Lasts(token, now)'
      BY <2>2, <2>3, <3>2 DEF Lasts
    <3> QED
      BY <2>1, <2>2, <2>3, <2>5, <3>3, <3>4 DEF Retrying, InTime, Lasts, Spent
  <2> QED
    BY <2>4, <2>5
<1> QED
  BY <1>1, <1>2, <1>3, <1>4, <1>5 DEF IInv

LEMMA FinishInv == ASSUME IInv, NEW c \in Callers, Finish(c) PROVE IInv'
<1>1. TypeOK'
  BY DEF IInv, TypeOK, PCs, Calling, Waiting, Internal, Finish, Land
<1>2. StartInv'
  <2>1. token # NoToken
    BY DEF IInv, LeaderInv, Leading, Issued, Tokens, NoToken, Finish
  <2> QED
    BY <2>1 DEF IInv, TypeOK, StartInv, Callers, Finish, Land
<1>3. MutexInv'
  BY DEF IInv, TypeOK, MutexInv, Callers, Finish, Land
<1>4. FlightInv'
  BY DEF IInv, FlightInv, Finish, Land
<1>5. TokensInv'
  BY DEF IInv, TokensInv, Issued, Finish, Land
<1>6. LeaderInv'
  BY DEF IInv, LeaderInv, Leading, Issued, Finish, Land
<1>7. RetryInv'
  <2> SUFFICES ASSUME NEW d \in Callers PROVE Retrying(d)'
    BY DEF RetryInv
  <2>1. Retrying(d) /\ Retrying(c) /\ Leading(c)
    BY DEF IInv, RetryInv, LeaderInv
  <2>2. /\ pc[c] = "finish" /\ pc'[d] = IF d = c \/ pc[d] = "wait" THEN "attach" ELSE pc[d]
        /\ UNCHANGED <<now, token, retryNum, bearer, since, issuedAt, revoked>>
    BY DEF Finish, Land, memory, keycloak
  <2>3. Lasts(token, now)
    <3>1. /\ since[c] \in Int /\ now \in Int /\ issuedAt[bearer[c]] \in Int
      BY <2>1, <2>2 DEF IInv, TypeOK, Leading, Issued, Times, Never
    <3> QED
      BY <2>1, <2>2, <3>1 DEF Leading, Retrying, InTime, Lasts
  <2>4. CASE pc'[d] = pc[d]
    BY <2>1, <2>2, <2>4 DEF Retrying, InTime, Sent, Lasts, Spent, Issued
  <2>5. CASE pc'[d] # pc[d]
    BY <2>1, <2>2, <2>3, <2>5 DEF Retrying, Lasts
  <2> QED
    BY <2>4, <2>5
<1>8. ErrorsAreNotCached'
  BY DEF IInv, ErrorsAreNotCached, Finish, Land
<1> QED
  BY <1>1, <1>2, <1>3, <1>4, <1>5, <1>6, <1>7, <1>8 DEF IInv

LEMMA RefreshFailsInv == ASSUME IInv, NEW c \in Callers, RefreshFails(c) PROVE IInv'
<1>1. TypeOK'
  BY DEF IInv, TypeOK, PCs, Calling, Waiting, Internal, RefreshFails, Land
<1>2. StartInv'
  BY DEF IInv, TypeOK, StartInv, Callers, RefreshFails, Land
<1>3. MutexInv'
  BY DEF IInv, TypeOK, MutexInv, Callers, RefreshFails, Land
<1>4. FlightInv'
  BY DEF IInv, FlightInv, RefreshFails, Land
<1>5. TokensInv'
  BY DEF IInv, TokensInv, Issued, RefreshFails, Land
<1>6. LeaderInv'
  BY DEF IInv, LeaderInv, Leading, Issued, RefreshFails, Land
<1>7. RetryInv'
  BY DEF IInv, TypeOK, RetryInv, Retrying, InTime, Sent, Lasts, Spent, Issued,
       RefreshFails, Land
<1>8. ErrorsAreNotCached'
  BY DEF IInv, ErrorsAreNotCached, RefreshFails, Land
<1> QED
  BY <1>1, <1>2, <1>3, <1>4, <1>5, <1>6, <1>7, <1>8 DEF IInv

LEMMA AttachInv == ASSUME IInv, NEW c \in Callers, Attach(c) PROVE IInv'
<1>1. TypeOK'
  BY DEF IInv, TypeOK, PCs, Calling, Waiting, Internal, Attach
<1>2. StartInv' /\ MutexInv' /\ FlightInv' /\ TokensInv' /\ LeaderInv' /\ ErrorsAreNotCached'
  BY DEF IInv, StartInv, MutexInv, FlightInv, TokensInv, Issued, LeaderInv, Leading,
       ErrorsAreNotCached, Attach
<1>3. RetryInv'
  <2> SUFFICES ASSUME NEW d \in Callers PROVE Retrying(d)'
    BY DEF RetryInv
  <2>1. Retrying(d) /\ now \in Int
    BY DEF IInv, TypeOK, RetryInv, Times
  <2>2. CASE d # c
    BY <2>1, <2>2 DEF IInv, TypeOK, Retrying, InTime, Sent, Lasts, Spent, Issued, Attach
  <2>3. CASE d = c
    <3>1. /\ pc[c] = "attach" /\ pc'[c] = "arrive" /\ bearer'[c] = token /\ since'[c] = now
          /\ UNCHANGED <<now, token, retryNum, issuedAt, revoked>>
      BY DEF IInv, TypeOK, Attach, memory, keycloak
    <3>2. token # NoToken /\ token \in Issued
      BY <3>1 DEF IInv, StartInv, TokensInv
    <3> QED
      BY <2>1, <2>3, <3>1, <3>2 DEF Retrying, InTime, Sent, Lasts, Issued
  <2> QED
    BY <2>2, <2>3
<1> QED
  BY <1>1, <1>2, <1>3 DEF IInv

LEMMA ArriveInv == ASSUME IInv, NEW c \in Callers, Arrive(c) PROVE IInv'
<1>1. TypeOK'
  BY DEF IInv, TypeOK, PCs, Calling, Waiting, Internal, Arrive, Accepted
<1>2. StartInv' /\ MutexInv' /\ FlightInv' /\ TokensInv' /\ LeaderInv' /\ ErrorsAreNotCached'
  BY DEF IInv, StartInv, MutexInv, FlightInv, TokensInv, Issued, LeaderInv, Leading,
       ErrorsAreNotCached, Arrive
<1>3. RetryInv'
  <2> SUFFICES ASSUME NEW d \in Callers PROVE Retrying(d)'
    BY DEF RetryInv
  <2>1. Retrying(d) /\ UNCHANGED <<now, token, retryNum, bearer, since, issuedAt, revoked>>
    BY DEF IInv, RetryInv, Arrive, memory, keycloak
  <2>2. CASE d # c
    BY <2>1, <2>2 DEF IInv, TypeOK, Retrying, InTime, Sent, Lasts, Spent, Issued, Arrive
  <2>3. CASE d = c
    <3>1. Sent(c) /\ pc[c] = "arrive"
      BY <2>1, <2>3 DEF Retrying, Arrive
    <3>2. pc'[c] \in {"ok", "refused"} /\ (pc'[c] = "refused" => ~Accepted(bearer[c]))
      BY DEF IInv, TypeOK, Arrive
    <3>3. pc'[c] = "refused" => Spent(bearer[c])
      <4>1. issuedAt[bearer[c]] \in Int /\ now \in Int
        BY <3>1 DEF IInv, TypeOK, Sent, Issued, Times, Never
      <4> QED
        BY <3>1, <3>2, <4>1 DEF Sent, Accepted, Spent
    <3>4. pc'[c] = "refused" /\ retryNum[c] = 1 => bearer[c] \in revoked
      <4>1. issuedAt[bearer[c]] \in Int /\ now \in Int /\ since[c] \in Int
        BY <3>1 DEF IInv, TypeOK, Sent, Issued, Times, Never
      <4> QED
        BY <2>1, <2>3, <3>1, <3>3, <4>1 DEF Sent, InTime, Spent, Lasts, Retrying
    <3> QED
      BY <2>1, <2>3, <3>1, <3>2, <3>3, <3>4 DEF Retrying, Sent, InTime, Spent, Issued
  <2> QED
    BY <2>2, <2>3
<1> QED
  BY <1>1, <1>2, <1>3 DEF IInv

LEMMA AnsweredInv == ASSUME IInv, NEW c \in Callers, Answered(c) PROVE IInv'
<1>1. TypeOK'
  BY DEF IInv, TypeOK, PCs, Calling, Waiting, Internal, Answered
<1>2. StartInv' /\ MutexInv' /\ FlightInv' /\ TokensInv' /\ LeaderInv' /\ ErrorsAreNotCached'
  BY DEF IInv, StartInv, MutexInv, FlightInv, TokensInv, Issued, LeaderInv, Leading,
       ErrorsAreNotCached, Answered
<1>3. RetryInv'
  BY DEF IInv, TypeOK, RetryInv, Retrying, InTime, Sent, Lasts, Spent, Issued,
       Answered
<1> QED
  BY <1>1, <1>2, <1>3 DEF IInv

LEMMA RefusedInv == ASSUME IInv, NEW c \in Callers, Refused(c) PROVE IInv'
<1>1. TypeOK'
  <2>1. retryNum[c] \in 0 .. 1
    BY DEF IInv, TypeOK, RetryInv, Retrying, MaxRetry, Refused
  <2>2. retryNum' \in [Callers -> 0 .. MaxRetry + 1]
    BY <2>1 DEF IInv, TypeOK, MaxRetry, Refused
  <2> QED
    BY <2>2 DEF IInv, TypeOK, PCs, Internal, Refused
<1>2. StartInv' /\ MutexInv' /\ FlightInv' /\ TokensInv' /\ LeaderInv' /\ ErrorsAreNotCached'
  BY DEF IInv, StartInv, MutexInv, FlightInv, TokensInv, Issued, LeaderInv, Leading,
       ErrorsAreNotCached, Refused
<1>3. RetryInv'
  <2> SUFFICES ASSUME NEW d \in Callers PROVE Retrying(d)'
    BY DEF RetryInv
  <2>1. Retrying(d) /\ UNCHANGED <<now, token, bearer, since, issuedAt, revoked>>
    BY DEF IInv, RetryInv, Refused, memory, keycloak
  <2>2. CASE d # c
    BY <2>1, <2>2 DEF IInv, TypeOK, Retrying, InTime, Sent, Lasts, Spent, Issued, Refused
  <2>3. CASE d = c
    <3>1. /\ pc[c] = "refused" /\ retryNum[c] \in 0 .. 1
          /\ retryNum'[c] = retryNum[c] + 1
          /\ pc'[c] = IF retryNum[c] + 1 <= 1 THEN "read" ELSE "failed"
      BY <2>1, <2>3 DEF IInv, TypeOK, Retrying, MaxRetry, Refused
    <3> QED
      BY <2>1, <2>3, <3>1 DEF Retrying, InTime, Sent, Spent, Issued
  <2> QED
    BY <2>2, <2>3
<1> QED
  BY <1>1, <1>2, <1>3 DEF IInv

LEMMA CallFailsInv == ASSUME IInv, NEW c \in Callers, CallFails(c) PROVE IInv'
<1>1. TypeOK'
  BY DEF IInv, TypeOK, PCs, Calling, Waiting, Internal, CallFails
<1>2. StartInv' /\ MutexInv' /\ FlightInv' /\ TokensInv' /\ LeaderInv' /\ ErrorsAreNotCached'
  BY DEF IInv, StartInv, MutexInv, FlightInv, TokensInv, Issued, LeaderInv, Leading,
       ErrorsAreNotCached, CallFails
<1>3. RetryInv'
  BY DEF IInv, TypeOK, RetryInv, Retrying, InTime, Sent, Lasts, Spent, Issued,
       CallFails
<1> QED
  BY <1>1, <1>2, <1>3 DEF IInv

LEMMA RevokeInv == ASSUME IInv, Revoke PROVE IInv'
<1>1. TypeOK'
  <2>1. revoked' \subseteq Tokens /\ revocations' \in 0 .. MaxRevoked
    BY DEF IInv, TypeOK, Issued, Revoke
  <2> QED
    BY <2>1 DEF IInv, TypeOK, Revoke
<1>2. StartInv' /\ MutexInv' /\ FlightInv' /\ TokensInv' /\ LeaderInv' /\ ErrorsAreNotCached'
  BY DEF IInv, StartInv, MutexInv, FlightInv, TokensInv, Issued, LeaderInv, Leading,
       ErrorsAreNotCached, Revoke
<1>3. RetryInv'
  BY DEF IInv, TypeOK, RetryInv, Retrying, InTime, Sent, Lasts, Spent, Issued,
       TokensInv, StartInv, FlightInv, LeaderInv, Leading, Revoke
<1> QED
  BY <1>1, <1>2, <1>3 DEF IInv

LEMMA AdvanceInv == ASSUME IInv, Advance PROVE IInv'
<1>1. TypeOK'
  <2>1. now' \in Times
    BY DEF IInv, TypeOK, Times, Advance
  <2> QED
    BY <2>1 DEF IInv, TypeOK, Advance
<1>2. StartInv' /\ FlightInv' /\ LeaderInv'
  BY DEF IInv, StartInv, FlightInv, LeaderInv, Leading, Issued, Advance
<1>3. MutexInv'
  BY DEF IInv, TypeOK, Times, MutexInv, Callers, Advance
<1>4. TokensInv'
  <2>1. \A g \in Issued : issuedAt[g] \in Int
    BY DEF IInv, TypeOK, Issued, Times, Never
  <2> QED
    BY <2>1 DEF IInv, TypeOK, TokensInv, Times, Issued, Advance
<1>5. RetryInv'
  <2> SUFFICES ASSUME NEW d \in Callers PROVE Retrying(d)'
    BY DEF RetryInv
  <2>1. Retrying(d) /\ now' = now + 1 /\ now \in Int /\ since[d] \in Int
    BY DEF IInv, TypeOK, RetryInv, Times, Advance
  <2>2. UNCHANGED <<token, pc, retryNum, bearer, since, issuedAt, revoked>>
    BY DEF Advance, memory, locals, keycloak
  <2>3. pc[d] \notin {"read", "attach", "finish"}
    BY DEF Advance, Internal
  <2>4. pc[d] \in {"issue", "receive", "arrive", "ok", "refused"} => now' <= since[d] + Timeout
    BY <2>1 DEF Advance, Calling
  <2>5. pc[d] = "refused" /\ Spent(bearer[d]) => Spent(bearer[d])'
    <3> SUFFICES ASSUME pc[d] = "refused" PROVE Spent(bearer[d]) => Spent(bearer[d])'
      OBVIOUS
    <3>1. issuedAt[bearer[d]] \in Int
      BY <2>1 DEF IInv, TypeOK, Retrying, Sent, Issued, Times, Never
    <3> QED
      BY <2>1, <2>2, <3>1 DEF Spent
  <2>6. Sent(d) /\ now' <= since[d] + Timeout => Sent(d)'
    BY <2>1, <2>2 DEF Sent, InTime, Issued
  <2> QED
    BY <2>1, <2>2, <2>3, <2>4, <2>5, <2>6 DEF Retrying, InTime, Lasts
<1>6. ErrorsAreNotCached'
  BY DEF IInv, TypeOK, Times, ErrorsAreNotCached, Advance
<1> QED
  BY <1>1, <1>2, <1>3, <1>4, <1>5, <1>6 DEF IInv
---------------------------------------------------------------------------
(* The invariant holds in every state. *)

LEMMA InitInv == Init => IInv
<1> SUFFICES ASSUME Init PROVE IInv
  OBVIOUS
<1> USE DEF Init
<1>1. TypeOK
  <2>1. /\ issuedAt \in [Tokens -> Times \cup {Never}]
        /\ since \in [Callers -> Times] /\ now \in Times
    BY DEF Times
  <2>2. retryNum \in [Callers -> 0 .. MaxRetry + 1]
    BY DEF MaxRetry
  <2>3. pc \in [Callers -> PCs] /\ bearer \in [Callers -> Tokens \cup {NoToken}]
    BY DEF PCs, Waiting
  <2>4. /\ tokenExpiry \in Int /\ expires \in Int /\ token = NoToken
        /\ revocations \in 0 .. MaxRevoked /\ revoked \subseteq Tokens
    BY DEF Never
  <2> QED
    BY <2>1, <2>2, <2>3, <2>4 DEF TypeOK
<1>2. StartInv /\ FlightInv /\ LeaderInv /\ ErrorsAreNotCached
  BY DEF StartInv, FlightInv, LeaderInv, Leading, Callers, ErrorsAreNotCached, Never
<1>3. MutexInv
  BY DEF MutexInv, Callers
<1>4. TokensInv
  BY DEF TokensInv, Issued
<1>5. RetryInv
  BY DEF RetryInv, Retrying
<1> QED
  BY <1>1, <1>2, <1>3, <1>4, <1>5 DEF IInv

LEMMA StutterInv == ASSUME IInv, UNCHANGED vars PROVE IInv'
<1> USE DEF vars
<1>1. TypeOK'
  BY DEF IInv, TypeOK
<1>2. StartInv' /\ MutexInv' /\ FlightInv' /\ ErrorsAreNotCached'
  BY DEF IInv, StartInv, MutexInv, FlightInv, ErrorsAreNotCached
<1>3. TokensInv' /\ LeaderInv'
  BY DEF IInv, TokensInv, LeaderInv, Leading, Issued
<1>4. RetryInv'
  BY DEF IInv, RetryInv, Retrying, InTime, Sent, Lasts, Spent, Issued
<1> QED
  BY <1>1, <1>2, <1>3, <1>4 DEF IInv

LEMMA NextInv == IInv /\ [Next]_vars => IInv'
<1> SUFFICES ASSUME IInv, [Next]_vars PROVE IInv'
  OBVIOUS
<1>1. ASSUME NEW c \in Callers, Call(c) \/ Lock(c) PROVE IInv'
  BY <1>1, CallInv, HitInv, MissInv DEF Lock
<1>2. ASSUME NEW c \in Callers,
             ReadToken(c) \/ Do(c) \/ Issue(c) \/ Receive(c) \/ Finish(c) \/ RefreshFails(c)
      PROVE IInv'
  BY <1>2, ReadTokenInv, DoInv, IssueInv, ReceiveInv, FinishInv, RefreshFailsInv
<1>3. ASSUME NEW c \in Callers, Attach(c) \/ Arrive(c) \/ Answered(c) \/ Refused(c) \/ CallFails(c)
      PROVE IInv'
  BY <1>3, AttachInv, ArriveInv, AnsweredInv, RefusedInv, CallFailsInv
<1>4. ASSUME NEW c \in Callers, UserReturns(c) \/ RefresherReturns PROVE IInv'
  BY <1>4, UserReturnsInv, RefresherReturnsInv
<1>5. CASE Revoke \/ Advance
  BY <1>5, RevokeInv, AdvanceInv
<1>6. CASE UNCHANGED vars
  BY <1>6, StutterInv
<1> QED
  BY <1>1, <1>2, <1>3, <1>4, <1>5, <1>6 DEF Next, Work

\* In every state the client can reach, IInv holds.
THEOREM InvariantHolds == Spec => []IInv
<1> QED
  BY InitInv, NextInv, PTL DEF Spec

---------------------------------------------------------------------------
(* What follows from it. *)

\* Every variable keeps its type, in every execution of the client.
THEOREM TypeCorrect == Spec => []TypeOK
<1>1. IInv => TypeOK
  BY DEF IInv
<1> QED
  BY <1>1, InvariantHolds, PTL

\* setFreshBearerToken never dereferences a nil token: neither the leader of
\* a refresh nor a follower that was told of its success finds none.
THEOREM TokenExistsWhenAttached == Spec => []AttachedTokenExists
<1>1. IInv => AttachedTokenExists
  BY DEF IInv, StartInv, AttachedTokenExists
<1> QED
  BY <1>1, InvariantHolds, PTL

\* One retry is enough: for every buffer that covers a call to the token
\* endpoint, and every lifespan that covers a refresh and two calls, the second
\* 401 means that Keycloak has revoked the token.
THEOREM OneRetryIsEnough == Spec => []RetryRecovers
<1>1. IInv => RetryRecovers
  BY DEF IInv, RetryInv, Retrying, RetryRecovers, MaxRetry
<1> QED
  BY <1>1, InvariantHolds, PTL

\* The cache in front of GetClients gives no error that Keycloak was not asked
\* for just now.
THEOREM CacheKeepsNoError == Spec => []ErrorsAreNotCached
<1>1. IInv => ErrorsAreNotCached
  BY DEF IInv
<1> QED
  BY <1>1, InvariantHolds, PTL

\* A follower has a leader that is at its refresh, and whoever waits for the
\* mutex a holder that is at its call.
THEOREM WaitersAreServed == Spec => []NobodyWaitsInVain
<1>1. IInv => NobodyWaitsInVain
  <2> SUFFICES ASSUME IInv PROVE NobodyWaitsInVain
    OBVIOUS
  <2>1. (\E c \in Callers : pc[c] = "wait") => flight # Free
    BY DEF IInv, FlightInv
  <2>2. flight # Free => pc[flight] \in {"issue", "receive", "finish"}
    BY DEF IInv, TypeOK, FlightInv
  <2>3. mutex # Free => pc[mutex] \notin {"idle", "lock"}
    BY DEF IInv, TypeOK, MutexInv
  <2> QED
    BY <2>1, <2>2, <2>3 DEF NobodyWaitsInVain
<1> QED
  BY <1>1, InvariantHolds, PTL

\* A token in memory is only ever replaced by one that Keycloak issued later,
\* once the program is up.
THEOREM TokensOnlyAdvance == Spec => TokenNeverRegresses
<1>1. IInv /\ [Next]_vars => [up => token <= token']_vars
  <2> SUFFICES ASSUME IInv, Next, up PROVE token <= token'
    BY DEF vars
  <2>1. token \in Int
    BY DEF IInv, TypeOK, Tokens, NoToken
  <2>2. ASSUME NEW c \in Callers, Receive(c) PROVE token <= token'
    <3>1. token \in Issued
      BY DEF IInv, StartInv, TokensInv
    <3> QED
      BY <2>2, <3>1 DEF IInv, LeaderInv, Leading, Receive
  <2>3. CASE token' = token
    BY <2>1, <2>3
  <2>4. (\E c \in Callers : Receive(c)) \/ token' = token
    <3>1. ASSUME NEW c \in Callers, Call(c) \/ Lock(c) PROVE token' = token
      BY <3>1 DEF Call, Lock, Hit, Miss
    <3>2. ASSUME NEW c \in Callers, ReadToken(c) \/ Do(c) \/ Issue(c) \/ Finish(c) \/ RefreshFails(c)
          PROVE  token' = token
      BY <3>2 DEF ReadToken, Do, Issue, Finish, RefreshFails
    <3>3. ASSUME NEW c \in Callers,
                 \/ Attach(c) \/ Arrive(c) \/ Answered(c) \/ Refused(c) \/ CallFails(c)
                 \/ UserReturns(c)
          PROVE  token' = token
      BY <3>3 DEF Attach, Arrive, Answered, Refused, CallFails, UserReturns
    <3>4. RefresherReturns => token' = token
      BY DEF RefresherReturns
    <3>5. Revoke \/ Advance => token' = token
      BY DEF Revoke, Advance
    <3> QED
      BY <3>1, <3>2, <3>3, <3>4, <3>5 DEF Next, Work
  <2> QED
    BY <2>2, <2>3, <2>4
<1> QED
  BY <1>1, InvariantHolds, PTL DEF Spec, TokenNeverRegresses
---------------------------------------------------------------------------
(* A revoked token goes out of use. The bound needs more than IInv: what   *)
(* ensureValidToken has seen still holds when the token is attached, and   *)
(* the call begins within the token's life less the buffer.                *)

Outlives(c) ==
  /\ pc[c] \in {"attach", "finish"} => now + Buffer <= tokenExpiry
  /\ pc[c] \in {"arrive", "ok", "refused"} =>
       since[c] + Buffer <= issuedAt[bearer[c]] + Timeout + Lifespan

BoundInv == \A c \in Callers : Outlives(c)

\* The steps that look at the token, or at how long it lives.
LEMMA BoundReadToken ==
  ASSUME IInv, BoundInv, NEW c \in Callers, ReadToken(c) PROVE BoundInv'
<1> SUFFICES ASSUME NEW d \in Callers PROVE Outlives(d)'
  BY DEF BoundInv
<1>1. Outlives(d) /\ UNCHANGED <<now, tokenExpiry, since, bearer, issuedAt>>
  BY DEF BoundInv, ReadToken
<1>2. CASE d # c
  BY <1>1, <1>2 DEF IInv, TypeOK, Outlives, ReadToken
<1>3. CASE d = c
  <2>1. pc'[c] = "attach" => now + Buffer <= tokenExpiry
    BY DEF IInv, TypeOK, Times, ReadToken, Stale
  <2>2. pc'[c] \in {"do", "attach"}
    BY DEF IInv, TypeOK, ReadToken
  <2> QED
    BY <1>1, <1>3, <2>1, <2>2 DEF Outlives
<1> QED
  BY <1>2, <1>3

LEMMA BoundIssue ==
  ASSUME IInv, BoundInv, NEW c \in Callers, Issue(c) PROVE BoundInv'
<1> SUFFICES ASSUME NEW d \in Callers PROVE Outlives(d)'
  BY DEF BoundInv
<1>1. Outlives(d) /\ UNCHANGED <<now, tokenExpiry, since>>
  BY DEF BoundInv, Issue, memory
<1>2. CASE d = c
  <2>1. pc'[c] = "receive"
    BY DEF IInv, TypeOK, Issue
  <2> QED
    BY <1>2, <2>1 DEF Outlives
<1>3. CASE d # c
  <2>1. pc'[d] = pc[d] /\ bearer'[d] = bearer[d]
    BY <1>3 DEF IInv, TypeOK, Issue
  <2>2. bearer[d] \in Issued => issuedAt'[bearer[d]] = issuedAt[bearer[d]]
    BY DEF IInv, TypeOK, Issued, Issue
  <2>3. pc[d] \in {"arrive", "ok", "refused"} => bearer[d] \in Issued
    BY DEF IInv, RetryInv, Retrying, Sent
  <2> QED
    BY <1>1, <2>1, <2>2, <2>3 DEF Outlives
<1> QED
  BY <1>2, <1>3

LEMMA BoundReceive ==
  ASSUME IInv, BoundInv, NEW c \in Callers, Receive(c) PROVE BoundInv'
<1> SUFFICES ASSUME NEW d \in Callers PROVE Outlives(d)'
  BY DEF BoundInv
<1>1. Outlives(d) /\ tokenExpiry' = now + Lifespan
      /\ UNCHANGED <<now, since, bearer, issuedAt>>
  BY DEF BoundInv, Receive, keycloak
<1>2. now + Buffer <= now + Lifespan
  BY DEF IInv, TypeOK, Times
<1>3. pc'[d] \in {"arrive", "ok", "refused"} => pc'[d] = pc[d]
  BY DEF IInv, TypeOK, Receive
<1> QED
  BY <1>1, <1>2, <1>3 DEF Outlives

\* All followers attach the token that the leader has just received.
LEMMA BoundFinish ==
  ASSUME IInv, BoundInv, NEW c \in Callers, Finish(c) PROVE BoundInv'
<1> SUFFICES ASSUME NEW d \in Callers PROVE Outlives(d)'
  BY DEF BoundInv
<1>1. Outlives(d) /\ UNCHANGED <<now, tokenExpiry, since, bearer, issuedAt>>
  BY DEF BoundInv, Finish, memory, keycloak
<1>2. now + Buffer <= tokenExpiry
  BY DEF BoundInv, Outlives, Finish
<1>3. pc'[d] \in {"arrive", "ok", "refused"} => pc'[d] = pc[d]
  BY DEF Finish, Land
<1> QED
  BY <1>1, <1>2, <1>3 DEF Outlives

LEMMA BoundAttach ==
  ASSUME IInv, BoundInv, NEW c \in Callers, Attach(c) PROVE BoundInv'
<1> SUFFICES ASSUME NEW d \in Callers PROVE Outlives(d)'
  BY DEF BoundInv
<1>1. Outlives(d) /\ UNCHANGED <<now, tokenExpiry, issuedAt>>
  BY DEF BoundInv, Attach, memory, keycloak
<1>2. CASE d # c
  BY <1>1, <1>2 DEF IInv, TypeOK, Outlives, Attach
<1>3. CASE d = c
  <2>1. pc'[c] = "arrive" /\ bearer'[c] = token /\ since'[c] = now
    BY DEF IInv, TypeOK, Attach
  <2>2. /\ now + Buffer <= tokenExpiry
        /\ tokenExpiry <= issuedAt[token] + Timeout + Lifespan
        /\ token \in Issued
    BY DEF IInv, StartInv, TokensInv, BoundInv, Outlives, Attach
  <2>3. now \in Int /\ tokenExpiry \in Int /\ issuedAt[token] \in Int
    BY <2>2 DEF IInv, TypeOK, Times, Never, Issued
  <2>4. now + Buffer <= issuedAt[token] + Timeout + Lifespan
    BY <2>2, <2>3
  <2> QED
    BY <1>1, <1>3, <2>1, <2>4 DEF Outlives
<1> QED
  BY <1>2, <1>3

\* A start that has failed forgets the token, when nobody else could use it.
LEMMA BoundRefresherReturns ==
  ASSUME IInv, BoundInv, RefresherReturns PROVE BoundInv'
<1> SUFFICES ASSUME NEW d \in Callers PROVE Outlives(d)'
  BY DEF BoundInv
<1>1. Outlives(d) /\ UNCHANGED <<now, issuedAt>>
  BY DEF BoundInv, RefresherReturns, keycloak
<1>2. CASE d = Refresher
  <2>1. pc'[d] = "idle"
    BY <1>2 DEF IInv, TypeOK, RefresherReturns, Return
  <2> QED
    BY <2>1 DEF Outlives
<1>3. CASE d # Refresher
  <2>1. pc'[d] = pc[d] /\ bearer'[d] = bearer[d] /\ since'[d] = since[d]
    BY <1>3 DEF IInv, TypeOK, RefresherReturns, Return
  <2>2. pc[d] = "idle" \/ tokenExpiry' = tokenExpiry
    BY <1>3 DEF IInv, StartInv, Callers, RefresherReturns, memory
  <2> QED
    BY <1>1, <2>1, <2>2 DEF Outlives
<1> QED
  BY <1>2, <1>3

\* The steps of c that neither attach a token nor read one.
LEMMA BoundOther ==
  ASSUME IInv, BoundInv, NEW c \in Callers,
         \/ Call(c) \/ Hit(c) \/ Miss(c) \/ Do(c) \/ RefreshFails(c) \/ Arrive(c)
         \/ Answered(c) \/ Refused(c) \/ CallFails(c) \/ UserReturns(c)
  PROVE  BoundInv'
<1> SUFFICES ASSUME NEW d \in Callers PROVE Outlives(d)'
  BY DEF BoundInv
<1>1. Outlives(d)
  BY DEF BoundInv
<1>2. CASE Call(c) \/ Hit(c) \/ Miss(c)
  BY <1>1, <1>2 DEF IInv, TypeOK, Outlives, Call, Hit, Miss
<1>3. CASE Do(c)
  BY <1>1, <1>3 DEF IInv, TypeOK, Outlives, Do
<1>4. CASE RefreshFails(c)
  BY <1>1, <1>4 DEF IInv, TypeOK, Outlives, RefreshFails, Land
<1>5. CASE Arrive(c) \/ Answered(c) \/ Refused(c) \/ CallFails(c)
  BY <1>1, <1>5 DEF IInv, TypeOK, Outlives, Arrive, Answered, Refused, CallFails
<1>6. CASE UserReturns(c)
  BY <1>1, <1>6 DEF IInv, TypeOK, Outlives, UserReturns, Return
<1> QED
  BY <1>2, <1>3, <1>4, <1>5, <1>6

LEMMA BoundTime == ASSUME IInv, BoundInv, Advance PROVE BoundInv'
<1> SUFFICES ASSUME NEW d \in Callers PROVE Outlives(d)'
  BY DEF BoundInv
<1>1. Outlives(d) /\ UNCHANGED <<tokenExpiry, pc, since, bearer, issuedAt>>
  BY DEF BoundInv, Advance, memory, locals, keycloak
<1>2. pc[d] \notin {"attach", "finish"}
  BY DEF Advance, Internal
<1> QED
  BY <1>1, <1>2 DEF Outlives

LEMMA BoundNext == IInv /\ BoundInv /\ [Next]_vars => BoundInv'
<1> SUFFICES ASSUME IInv, BoundInv, [Next]_vars PROVE BoundInv'
  OBVIOUS
<1>1. ASSUME NEW c \in Callers, Call(c) \/ Lock(c) \/ Work(c) PROVE BoundInv'
  BY <1>1, BoundReadToken, BoundIssue, BoundReceive, BoundFinish, BoundAttach,
     BoundRefresherReturns, BoundOther DEF Lock, Work
<1>2. CASE Revoke
  BY <1>2 DEF BoundInv, Outlives, Revoke, memory, locals
<1>3. CASE Advance
  BY <1>3, BoundTime
<1>4. CASE UNCHANGED vars
  BY <1>4 DEF vars, BoundInv, Outlives
<1> QED
  BY <1>1, <1>2, <1>3, <1>4 DEF Next

\* However long before its expiry Keycloak has revoked it, a token is refused
\* to nobody later than a life, two calls and no buffer after it was issued.
THEOREM RevokedTokensGoOutOfUse == Spec => []RevokedTokenIsDropped
<1>1. Init => BoundInv
  BY DEF Init, BoundInv, Outlives
<1>2. IInv /\ BoundInv => RevokedTokenIsDropped
  <2> SUFFICES ASSUME IInv, BoundInv, NEW c \in Callers, pc[c] = "refused"
               PROVE  now <= issuedAt[bearer[c]] + Lifespan + 2 * Timeout - Buffer
    BY DEF RevokedTokenIsDropped
  <2>1. /\ since[c] + Buffer <= issuedAt[bearer[c]] + Timeout + Lifespan
        /\ now <= since[c] + Timeout
        /\ bearer[c] \in Issued
    BY DEF BoundInv, Outlives, IInv, RetryInv, Retrying, Sent, InTime
  <2>2. now \in Int /\ since[c] \in Int /\ issuedAt[bearer[c]] \in Int
    BY <2>1 DEF IInv, TypeOK, Times, Never, Issued
  <2> QED
    BY <2>1, <2>2
<1> QED
  BY <1>1, <1>2, BoundNext, InvariantHolds, PTL DEF Spec
=============================================================================
