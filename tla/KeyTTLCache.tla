---------------------------- MODULE KeyTTLCache ----------------------------
(***************************************************************************)
(* utils.CacheFirstForKeyTTL: the cache in front of Keycloak's token       *)
(* introspection.  One map, one mutex for all its keys, held by a caller   *)
(* from the lookup until the upstream has answered; a goroutine that       *)
(* sweeps expired entries on every tick of a 2*TTL ticker until `done` is  *)
(* closed.                                                                 *)
(*                                                                         *)
(* A critical section that calls nothing (a hit, a sweep) is one step; a   *)
(* miss is three: the lookup that takes the mutex and sends the request,   *)
(* the upstream's evaluation of it, and the store that frees the mutex.    *)
(***************************************************************************)
EXTENDS Integers

CONSTANTS Callers,     \* goroutines that call the cached function
          Keys,        \* the keys they ask about (hashes of access tokens)
          Free,        \* the mutex's holder when nobody holds it
          TTL,         \* ttl
          Timeout,     \* http.Client's Timeout: the longest a circuit call lasts
          MaxVersion,  \* bound: changes of the upstream's answer for a key
          MaxTime      \* bound: last reading of the clock

ASSUME TTLAssumption     == TTL \in Nat \ {0}  \* NewTicker panics otherwise
ASSUME TimeoutAssumption == Timeout \in Nat
ASSUME BoundsAssumption  == MaxVersion \in Nat /\ MaxTime \in Nat
ASSUME FreeAssumption    == Free \notin Callers

Versions == 0 .. MaxVersion
Error    == -1                  \* the circuit's non-nil err
Results  == Versions \cup {Error}
Zero     == -1                  \* time.Time{}: before every reading of the clock

VARIABLES now,        \* time.Now()
          upstream,   \* upstream[k]: version Keycloak answers with now
          lastTrue,   \* history: lastTrue[k][v], last time upstream[k] was v
          results,    \* the map: key -> [expires, result]
          mutex,      \* m: its holder, or Free
          pc,         \* pc[c]: where goroutine c is in the closure
          key,        \* key[c]: the argument of c's call
          since,      \* since[c]: when c's request left
          reply,      \* reply[c]: the response on its way back to c
          outcome,    \* outcome[c]: [status, result] c's last call returned
          served,     \* history: served[k], the version last returned for k
          cleaner,    \* where the cleanup goroutine is
          cleanNow,   \* its local variable now
          tick,       \* cleanupTicker.C holds a tick (its buffer is one)
          done        \* the done channel is closed

env     == <<upstream, lastTrue>>
calls   == <<pc, key, since, reply, outcome, served>>
sweeper == <<cleaner, cleanNow, tick, done>>
vars    == <<now, env, results, mutex, calls, sweeper>>

InCircuit(c) == pc[c] \in {"sent", "answered"}

\* time.Now().After(cache.expires)
Expired(entry, t) == t > entry.expires

\* cache == nil || time.Now().After(cache.expires)
IsMiss(k) == k \in DOMAIN results => Expired(results[k], now)

\* Slip: an error gets the ttl of an answer.
ExpiresAlsoOnError(r) == now + TTL

\* Slip: the entry gets the period of the cleanup ticker.
ExpiresAfterTwoTTL(r) == IF r = Error THEN Zero ELSE now + 2 * TTL

\* expires: moved only if the circuit returned no error
ExpiresAfter(r) == IF r = Error THEN Zero ELSE now + TTL

\* results[_key] = &resultWithTTL{...}
Stored(k, r) ==
  [j \in DOMAIN results \cup {k} |->
     IF j = k THEN [expires |-> ExpiresAfter(r), result |-> r] ELSE results[j]]

\* Slip: an entry is dropped in the last instant in which it is valid.
SweptTooEarly(t) == {k \in DOMAIN results : results[k].expires > t}

\* Slip: the zero time is taken for "never expires".
SweptExceptZero(t) ==
  {k \in DOMAIN results : results[k].expires = Zero \/ ~ Expired(results[k], t)}

\* What the sweep leaves in the map.
Swept(t) == {k \in DOMAIN results : ~ Expired(results[k], t)}

Init ==
  /\ now = 0
  /\ upstream = [k \in Keys |-> 0]
  /\ lastTrue = [k \in Keys |-> [v \in Versions |-> IF v = 0 THEN 0 ELSE -1]]
  /\ results = [k \in {} |-> [expires |-> Zero, result |-> Error]]
  /\ mutex = Free
  /\ pc = [c \in Callers |-> "idle"]
  /\ key \in [Callers -> Keys]
  /\ since = [c \in Callers |-> 0]
  /\ reply = [c \in Callers |-> Error]
  /\ outcome = [c \in Callers |-> [status |-> "miss", result |-> Error]]
  /\ served = [k \in Keys |-> 0]
  /\ cleaner = "select"
  /\ cleanNow = 0
  /\ tick = FALSE
  /\ done = FALSE

---------------------------------------------------------------------------
(* The environment: the clock, its ticker, and Keycloak. *)

\* No request outlives the client's timeout, so the clock waits for it.
Advance ==
  /\ now < MaxTime
  /\ \A c \in Callers : InCircuit(c) => now < since[c] + Timeout
  /\ now' = now + 1
  /\ lastTrue' = [k \in Keys |-> [lastTrue[k] EXCEPT ![upstream[k]] = now + 1]]
  /\ tick' = (tick \/ (cleaner # "stopped" /\ (now + 1) % (2 * TTL) = 0))
  /\ UNCHANGED <<upstream, results, mutex, calls, cleaner, cleanNow, done>>

\* The token behind key k is revoked, expires, or its claims change.
Change(k) ==
  /\ upstream[k] < MaxVersion
  /\ upstream' = [upstream EXCEPT ![k] = @ + 1]
  /\ lastTrue' = [lastTrue EXCEPT ![k][upstream[k] + 1] = now]
  /\ UNCHANGED <<now, results, mutex, calls, sweeper>>

\* Keycloak evaluates c's request; the response is on its way.
Evaluate(c) ==
  /\ pc[c] = "sent"
  /\ pc' = [pc EXCEPT ![c] = "answered"]
  /\ reply' = [reply EXCEPT ![c] = upstream[key[c]]]
  /\ UNCHANGED <<now, env, results, mutex, key, since, outcome, served, sweeper>>

---------------------------------------------------------------------------
(* The callers. *)

Call(c, k) ==
  /\ pc[c] \in {"idle", "done"}
  /\ pc' = [pc EXCEPT ![c] = "lock"]
  /\ key' = [key EXCEPT ![c] = k]
  /\ UNCHANGED <<now, env, results, mutex, since, reply, outcome, served, sweeper>>

\* return res, err: what the caller of the closure sees.
ReturnTo(c, status, r) ==
  /\ pc' = [pc EXCEPT ![c] = "done"]
  /\ outcome' = [outcome EXCEPT ![c] = [status |-> status, result |-> r]]
  /\ served' = IF r = Error THEN served ELSE [served EXCEPT ![key[c]] = r]

\* Slip: a hit renews the entry it returns.
HitRenews(c) ==
  /\ pc[c] = "lock"
  /\ mutex = Free
  /\ ~ IsMiss(key[c])
  /\ ReturnTo(c, "hit", results[key[c]].result)
  /\ results' = [results EXCEPT ![key[c]].expires = now + TTL]
  /\ UNCHANGED <<now, env, mutex, key, since, reply, sweeper>>

Hit(c) ==
  /\ pc[c] = "lock"
  /\ mutex = Free
  /\ ~ IsMiss(key[c])
  /\ ReturnTo(c, "hit", results[key[c]].result)
  /\ UNCHANGED <<now, env, results, mutex, key, since, reply, sweeper>>

\* Slip: the mutex is released before the circuit is called.
MissUnlocks(c) ==
  /\ pc[c] = "lock"
  /\ mutex = Free
  /\ IsMiss(key[c])
  /\ pc' = [pc EXCEPT ![c] = "sent"]
  /\ since' = [since EXCEPT ![c] = now]
  /\ UNCHANGED <<now, env, results, mutex, key, reply, outcome, served, sweeper>>

Miss(c) ==
  /\ pc[c] = "lock"
  /\ mutex = Free
  /\ IsMiss(key[c])
  /\ mutex' = c
  /\ pc' = [pc EXCEPT ![c] = "sent"]
  /\ since' = [since EXCEPT ![c] = now]
  /\ UNCHANGED <<now, env, results, key, reply, outcome, served, sweeper>>

\* The circuit returned r: store it, free the mutex, return it. The call's
\* locals die with it.
Store(c, r) ==
  /\ results' = Stored(key[c], r)
  /\ mutex' = Free
  /\ ReturnTo(c, "miss", r)
  /\ since' = [since EXCEPT ![c] = 0]
  /\ reply' = [reply EXCEPT ![c] = Error]
  /\ UNCHANGED <<now, env, key, sweeper>>

StoreAnswer(c) == pc[c] = "answered" /\ Store(c, reply[c])

\* Slip: the early return on an error forgets to unlock.
StoreErrorLocked(c) ==
  /\ InCircuit(c)
  /\ results' = Stored(key[c], Error)
  /\ ReturnTo(c, "miss", Error)
  /\ UNCHANGED <<now, env, mutex, key, since, reply, sweeper>>

\* Cancelled context, timeout, transport error or a status other than 200,
\* whether or not Keycloak has evaluated the request.
StoreError(c) == InCircuit(c) /\ Store(c, Error)

---------------------------------------------------------------------------
(* The cleanup goroutine. *)

\* case <-cleanupTicker.C: the clock is read before the mutex is taken.
ReceiveTick ==
  /\ cleaner = "select"
  /\ tick
  /\ tick' = FALSE
  /\ cleanNow' = now
  /\ cleaner' = "lock"
  /\ UNCHANGED <<now, env, results, mutex, calls, done>>

Sweep ==
  /\ cleaner = "lock"
  /\ mutex = Free
  /\ results' = [k \in Swept(cleanNow) |-> results[k]]
  /\ cleaner' = "select"
  /\ UNCHANGED <<now, env, mutex, calls, cleanNow, tick, done>>

\* case <-done: stop the ticker and leave.
ReceiveDone ==
  /\ cleaner = "select"
  /\ done
  /\ cleaner' = "stopped"
  /\ UNCHANGED <<now, env, results, mutex, calls, cleanNow, tick, done>>

\* keycloak.Client.Shutdown
Shutdown ==
  /\ ~ done
  /\ done' = TRUE
  /\ UNCHANGED <<now, env, results, mutex, calls, cleaner, cleanNow, tick>>

---------------------------------------------------------------------------

CallerStep(c) ==
  \/ \E k \in Keys : Call(c, k)
  \/ Hit(c)
  \/ Miss(c)
  \/ Evaluate(c)
  \/ StoreAnswer(c)
  \/ StoreError(c)

Next ==
  \/ Advance
  \/ \E k \in Keys : Change(k)
  \/ \E c \in Callers : CallerStep(c)
  \/ ReceiveTick
  \/ Sweep
  \/ ReceiveDone
  \/ Shutdown

(***************************************************************************)
(* Fairness: time passes, the goroutines are scheduled, and Go's mutex,    *)
(* which hands itself to the longest waiter once one has waited for a      *)
(* millisecond, starves nobody.  Nothing forces Keycloak to answer: the    *)
(* client's timeout ends the call instead.                                 *)
(***************************************************************************)
Fairness ==
  /\ WF_vars(Advance)
  /\ WF_vars(ReceiveTick)
  /\ SF_vars(Sweep)
  /\ WF_vars(ReceiveDone)
  /\ \A c \in Callers : SF_vars(Hit(c) \/ Miss(c))
  /\ \A c \in Callers : WF_vars(StoreError(c))

Spec == Init /\ [][Next]_vars /\ Fairness

---------------------------------------------------------------------------
(* Properties. *)

\* Every variable keeps its type; no entry is valid for longer than TTL after
\* the last reading of the clock.
TypeOK ==
  /\ now \in 0 .. MaxTime
  /\ upstream \in [Keys -> Versions]
  /\ lastTrue \in [Keys -> [Versions -> Int]]
  /\ DOMAIN results \subseteq Keys
  /\ \A k \in DOMAIN results : results[k] \in [expires : Zero .. MaxTime + TTL, result : Results]
  /\ mutex \in Callers \cup {Free}
  /\ pc \in [Callers -> {"idle", "lock", "sent", "answered", "done"}]
  /\ key \in [Callers -> Keys]
  /\ since \in [Callers -> Int]
  /\ reply \in [Callers -> Results]
  /\ outcome \in [Callers -> [status : {"hit", "miss"}, result : Results]]
  /\ served \in [Keys -> Versions]
  /\ cleaner \in {"select", "lock", "stopped"}
  /\ cleanNow \in 0 .. MaxTime
  /\ tick \in BOOLEAN
  /\ done \in BOOLEAN

\* No caller is given an answer the upstream stopped giving more than
\* TTL + Timeout ago: the ttl counts from the store, the answer is as old as
\* the evaluation, and the sweep and the boundary of After do not stretch it.
BoundedStaleness ==
  [][\A c \in Callers :
       pc[c] # "done" /\ pc'[c] = "done" /\ outcome'[c].result # Error
         => lastTrue'[key[c]][outcome'[c].result] >= now' - (TTL + Timeout)]_vars

\* The answers given for a key, over all callers, never go back in time: a
\* token one request found revoked is not found active by a later one.
NeverGoesBack == [][\A k \in Keys : served'[k] >= served[k]]_vars

\* An error is returned only to the caller whose own request failed: the map
\* remembers it, with the zero time, but no lookup ever takes it for a hit.
ErrorsAreNeverHits ==
  \A c \in Callers : outcome[c].status = "hit" => outcome[c].result # Error

\* Upstream is asked about a key only while the cache has nothing valid for
\* it: no two goroutines that miss together both call Keycloak.
NoRedundantFetch == \A c \in Callers : InCircuit(c) => IsMiss(key[c])

\* Nothing removes an entry that a lookup could still have used, although the
\* sweep works with a time it read before it had to wait for the mutex.
LiveEntriesAreKept ==
  [][\A k \in DOMAIN results :
       k \notin DOMAIN results' => Expired(results[k], now)]_vars

\* Every call returns, however long other keys keep the mutex.
EveryCallReturns ==
  \A c \in Callers : (pc[c] = "lock") ~> (pc[c] = "done")

\* The last tick the bounded clock gives.
LastTick == MaxTime - (MaxTime % (2 * TTL))

\* The map does not keep what it can no longer serve: an entry that expires
\* (or was stored as an error) before a tick is swept or replaced, unless the
\* client is shut down first.
ExpiredEntriesAreEvicted ==
  \A k \in Keys, e \in Zero .. LastTick - 1 :
    (k \in DOMAIN results /\ results[k].expires = e /\ now < LastTick)
      ~> (done \/ k \notin DOMAIN results \/ results[k].expires # e)

\* Refinement: what the closure's callers are promised.
Abs == INSTANCE BoundedStaleCache WITH
         Bound  <- TTL + Timeout,
         state  <- [c \in Callers |->
                      IF pc[c] \in {"idle", "done"} THEN pc[c] ELSE "asked"],
         result <- [c \in Callers |-> outcome[c].result]

\* The cache implements that promise, its termination included.
ImplementsBoundedStaleCache == Abs!Spec
=============================================================================
