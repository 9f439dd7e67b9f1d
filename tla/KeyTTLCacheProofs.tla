------------------------- MODULE KeyTTLCacheProofs -------------------------
(***************************************************************************)
(* Proofs about KeyTTLCache, for every set of callers and keys, every TTL, *)
(* timeout and bound: its safety properties, from one inductive invariant, *)
(* and that each of its steps is one of BoundedStaleCache's or a stutter.  *)
(***************************************************************************)
EXTENDS KeyTTLCache, TLAPS

---------------------------------------------------------------------------
(* The inductive invariant. *)

\* The mutex is held exactly by the goroutine that is inside the circuit.
MutexInv == \A c \in Callers : InCircuit(c) <=> mutex = c

\* The clock readings in hand are not in the future; no request outlives the
\* client's timeout.
ClockInv ==
  /\ cleanNow <= now
  /\ \A c \in Callers : InCircuit(c) => since[c] <= now /\ now <= since[c] + Timeout

\* The history says that what upstream answers now is true now.
HistoryInv == \A k \in Keys : lastTrue[k][upstream[k]] = now

\* An entry is an error that is already expired, or an answer that was true
\* Timeout before it was stored and is at least as new as any returned since.
EntryInv ==
  \A k \in DOMAIN results :
    IF results[k].result = Error
      THEN results[k].expires = Zero
      ELSE /\ results[k].expires <= lastTrue[k][results[k].result] + TTL + Timeout
           /\ served[k] <= results[k].result
           /\ results[k].result <= upstream[k]

\* So is a response on its way back.
ReplyInv ==
  \A c \in Callers :
    pc[c] = "answered" =>
      /\ reply[c] # Error
      /\ since[c] <= lastTrue[key[c]][reply[c]]
      /\ served[key[c]] <= reply[c]
      /\ reply[c] <= upstream[key[c]]

\* Nobody has been told more than upstream has said.
ServedInv == \A k \in Keys : served[k] <= upstream[k]

IInv ==
  /\ TypeOK
  /\ MutexInv
  /\ ClockInv
  /\ HistoryInv
  /\ EntryInv
  /\ ReplyInv
  /\ ServedInv
  /\ ErrorsAreNeverHits
  /\ NoRedundantFetch

USE TTLAssumption, TimeoutAssumption, BoundsAssumption, FreeAssumption
USE DEF TTLAssumption, TimeoutAssumption, BoundsAssumption, FreeAssumption

---------------------------------------------------------------------------
(* It holds initially and every action preserves it. *)

LEMMA InitInv == Init => IInv
<1> SUFFICES ASSUME Init PROVE IInv
  OBVIOUS
<1> USE DEF Init
<1>1. TypeOK
  <2>1. lastTrue \in [Keys -> [Versions -> Int]]
    BY DEF Versions
  <2>2. upstream \in [Keys -> Versions] /\ served \in [Keys -> Versions]
    BY DEF Versions
  <2>3. /\ reply \in [Callers -> Results]
        /\ outcome \in [Callers -> [status : {"hit", "miss"}, result : Results]]
    BY DEF Results
  <2>4. /\ DOMAIN results \subseteq Keys
        /\ \A k \in DOMAIN results :
             results[k] \in [expires : Zero .. MaxTime + TTL, result : Results]
    OBVIOUS
  <2>5. /\ now \in 0 .. MaxTime
        /\ cleanNow \in 0 .. MaxTime
        /\ since \in [Callers -> Int]
        /\ pc \in [Callers -> {"idle", "lock", "sent", "answered", "done"}]
    OBVIOUS
  <2> QED
    BY <2>1, <2>2, <2>3, <2>4, <2>5 DEF TypeOK
<1>2. MutexInv /\ ClockInv /\ ReplyInv /\ NoRedundantFetch
  BY DEF MutexInv, ClockInv, ReplyInv, NoRedundantFetch, InCircuit
<1>3. HistoryInv /\ EntryInv /\ ServedInv
  BY DEF HistoryInv, EntryInv, ServedInv, Versions
<1>4. ErrorsAreNeverHits
  BY DEF ErrorsAreNeverHits
<1> QED
  BY <1>1, <1>2, <1>3, <1>4 DEF IInv

LEMMA AdvanceInv == IInv /\ Advance => IInv'
<1> SUFFICES ASSUME IInv, Advance PROVE IInv'
  OBVIOUS
<1> USE DEF Advance, calls
<1>1. TypeOK'
  BY DEF IInv, TypeOK, Versions
<1>2. MutexInv' /\ ErrorsAreNeverHits'
  BY DEF IInv, MutexInv, ErrorsAreNeverHits, InCircuit
<1>3. ClockInv'
  BY DEF IInv, TypeOK, ClockInv, InCircuit
<1>4. HistoryInv'
  BY DEF IInv, TypeOK, HistoryInv
<1>5. \A k \in Keys, v \in Versions : lastTrue'[k][v] >= lastTrue[k][v]
  BY DEF IInv, TypeOK, HistoryInv
<1>6. EntryInv'
  <2> SUFFICES ASSUME NEW k \in DOMAIN results, results[k].result # Error
               PROVE  results[k].expires <= lastTrue'[k][results[k].result] + TTL + Timeout
    BY DEF IInv, EntryInv
  <2>1. k \in Keys /\ results[k].result \in Versions /\ results[k].expires \in Int
    BY DEF IInv, TypeOK, Results, Zero
  <2>2. results[k].expires <= lastTrue[k][results[k].result] + TTL + Timeout
    BY DEF IInv, EntryInv
  <2> QED
    BY <1>1, <1>5, <2>1, <2>2 DEF IInv, TypeOK
<1>7. ReplyInv' /\ ServedInv'
  <2> SUFFICES ASSUME NEW c \in Callers, pc[c] = "answered"
               PROVE  since[c] <= lastTrue'[key[c]][reply[c]]
    BY DEF IInv, ReplyInv, ServedInv
  <2>1. key[c] \in Keys /\ reply[c] \in Versions /\ since[c] <= lastTrue[key[c]][reply[c]]
    BY DEF IInv, TypeOK, ReplyInv, Results
  <2> QED
    BY <1>1, <1>5, <2>1 DEF IInv, TypeOK
<1>8. NoRedundantFetch'
  BY DEF IInv, TypeOK, NoRedundantFetch, InCircuit, IsMiss, Expired, Zero
<1> QED
  BY <1>1, <1>2, <1>3, <1>4, <1>6, <1>7, <1>8 DEF IInv

LEMMA ChangeInv == ASSUME NEW k \in Keys, IInv, Change(k) PROVE IInv'
<1> USE DEF Change, calls, sweeper
<1>1. TypeOK'
  BY DEF IInv, TypeOK, Versions
<1>2. MutexInv' /\ ErrorsAreNeverHits' /\ ClockInv'
  BY DEF IInv, MutexInv, ErrorsAreNeverHits, ClockInv, InCircuit
<1>3. HistoryInv'
  BY DEF IInv, TypeOK, HistoryInv, Versions
<1>4. \A j \in Keys : upstream[j] \in Int /\ upstream'[j] \in Int /\ upstream[j] <= upstream'[j]
  <2> SUFFICES ASSUME NEW j \in Keys
               PROVE  upstream[j] \in Int /\ upstream'[j] \in Int /\ upstream[j] <= upstream'[j]
    OBVIOUS
  <2>1. upstream \in [Keys -> Int] /\ upstream[j] \in Int /\ upstream[k] \in Int
    BY DEF IInv, TypeOK, Versions
  <2> QED
    BY <2>1
<1>5. \A j \in Keys, v \in Versions :
        v <= upstream[j] => lastTrue'[j][v] = lastTrue[j][v]
  <2> SUFFICES ASSUME NEW j \in Keys, NEW v \in Versions, v <= upstream[j]
               PROVE  lastTrue'[j][v] = lastTrue[j][v]
    OBVIOUS
  <2>1. v # upstream[j] + 1
    BY DEF IInv, TypeOK, Versions
  <2> QED
    BY <2>1 DEF IInv, TypeOK
<1>6. EntryInv'
  <2> SUFFICES ASSUME NEW j \in DOMAIN results, results[j].result # Error
               PROVE  /\ lastTrue'[j][results[j].result] = lastTrue[j][results[j].result]
                      /\ results[j].result <= upstream'[j]
    BY DEF IInv, EntryInv
  <2>1. /\ j \in Keys /\ results[j].result \in Versions
        /\ results[j].result \in Int /\ results[j].result <= upstream[j]
    BY DEF IInv, TypeOK, EntryInv, Results, Versions
  <2> QED
    BY <1>4, <1>5, <2>1
<1>7. ReplyInv'
  <2> SUFFICES ASSUME NEW c \in Callers, pc[c] = "answered"
               PROVE  /\ lastTrue'[key[c]][reply[c]] = lastTrue[key[c]][reply[c]]
                      /\ reply[c] <= upstream'[key[c]]
    BY DEF IInv, ReplyInv
  <2>1. /\ key[c] \in Keys /\ reply[c] \in Versions
        /\ reply[c] \in Int /\ reply[c] <= upstream[key[c]]
    BY DEF IInv, TypeOK, ReplyInv, Results, Versions
  <2> QED
    BY <1>4, <1>5, <2>1
<1>8. ServedInv'
  BY <1>4 DEF IInv, TypeOK, ServedInv, Versions
<1>9. NoRedundantFetch'
  BY DEF IInv, NoRedundantFetch, InCircuit, IsMiss, Expired
<1> QED
  BY <1>1, <1>2, <1>3, <1>6, <1>7, <1>8, <1>9 DEF IInv

LEMMA CallInv == ASSUME NEW c \in Callers, NEW k \in Keys, IInv, Call(c, k) PROVE IInv'
<1> USE DEF Call, env, sweeper
<1>1. TypeOK'
  BY DEF IInv, TypeOK
<1>2. /\ ~ InCircuit(c) /\ ~ InCircuit(c)'
      /\ \A d \in Callers : InCircuit(d)' <=> InCircuit(d)
  BY DEF IInv, TypeOK, InCircuit
<1>3. \A d \in Callers : d # c => key'[d] = key[d] /\ pc'[d] = pc[d]
  BY DEF IInv, TypeOK
<1>4. MutexInv' /\ ClockInv' /\ HistoryInv' /\ EntryInv' /\ ServedInv' /\ ErrorsAreNeverHits'
  BY <1>2 DEF IInv, MutexInv, ClockInv, HistoryInv, EntryInv, ServedInv, ErrorsAreNeverHits
<1>5. ReplyInv'
  BY <1>2, <1>3 DEF IInv, ReplyInv, InCircuit
<1>6. NoRedundantFetch'
  BY <1>2, <1>3 DEF IInv, NoRedundantFetch, IsMiss
<1> QED
  BY <1>1, <1>4, <1>5, <1>6 DEF IInv

LEMMA HitInv == ASSUME NEW c \in Callers, IInv, Hit(c) PROVE IInv'
<1> USE DEF Hit, ReturnTo, env, sweeper
<1>1. /\ key[c] \in DOMAIN results /\ key[c] \in Keys
      /\ results[key[c]].expires >= 0
      /\ results[key[c]].result \in Results
  BY DEF IInv, TypeOK, IsMiss, Expired, Zero
<1>2. /\ results[key[c]].result # Error
      /\ results[key[c]].result \in Versions
      /\ results[key[c]].result <= upstream[key[c]]
      /\ served' = [served EXCEPT ![key[c]] = results[key[c]].result]
  BY <1>1 DEF IInv, EntryInv, Results, Zero
<1>3. TypeOK'
  BY <1>1, <1>2 DEF IInv, TypeOK
<1>4. \A d \in Callers : ~ InCircuit(d) /\ ~ InCircuit(d)'
  BY DEF IInv, TypeOK, MutexInv, InCircuit
<1>5. MutexInv' /\ ClockInv' /\ HistoryInv' /\ ReplyInv' /\ NoRedundantFetch'
  BY <1>4 DEF IInv, MutexInv, ClockInv, HistoryInv, ReplyInv, NoRedundantFetch, InCircuit
<1>6. EntryInv'
  <2> SUFFICES ASSUME NEW k \in DOMAIN results, results[k].result # Error
               PROVE  served'[k] <= results[k].result
    BY DEF IInv, EntryInv
  <2>1. k \in Keys /\ results[k].result \in Int
    BY DEF IInv, TypeOK, Results, Versions
  <2> QED
    BY <1>2, <2>1 DEF IInv, TypeOK, EntryInv
<1>7. ServedInv'
  BY <1>1, <1>2 DEF IInv, TypeOK, ServedInv
<1>8. ErrorsAreNeverHits'
  BY <1>2 DEF IInv, TypeOK, ErrorsAreNeverHits
<1> QED
  BY <1>3, <1>5, <1>6, <1>7, <1>8 DEF IInv

LEMMA MissInv == ASSUME NEW c \in Callers, IInv, Miss(c) PROVE IInv'
<1> USE DEF Miss, env, sweeper
<1>1. TypeOK'
  BY DEF IInv, TypeOK
<1>2. /\ InCircuit(c)' /\ pc'[c] = "sent" /\ since'[c] = now
      /\ \A d \in Callers : ~ InCircuit(d)
      /\ \A d \in Callers : d # c => pc'[d] = pc[d] /\ ~ InCircuit(d)'
  BY DEF IInv, TypeOK, MutexInv, InCircuit
<1>3. MutexInv'
  BY <1>2 DEF MutexInv
<1>4. ClockInv'
  BY <1>2 DEF IInv, TypeOK, ClockInv
<1>5. HistoryInv' /\ EntryInv' /\ ServedInv' /\ ErrorsAreNeverHits'
  BY DEF IInv, HistoryInv, EntryInv, ServedInv, ErrorsAreNeverHits
<1>6. ReplyInv'
  BY <1>2 DEF ReplyInv, InCircuit
<1>7. NoRedundantFetch'
  BY <1>2 DEF NoRedundantFetch, IsMiss
<1> QED
  BY <1>1, <1>3, <1>4, <1>5, <1>6, <1>7 DEF IInv

LEMMA EvaluateInv == ASSUME NEW c \in Callers, IInv, Evaluate(c) PROVE IInv'
<1> USE DEF Evaluate, env, sweeper
<1>1. key[c] \in Keys /\ upstream[key[c]] \in Versions /\ upstream[key[c]] # Error
  BY DEF IInv, TypeOK, Versions, Error
<1>2. TypeOK'
  BY <1>1 DEF IInv, TypeOK, Results
<1>3. /\ InCircuit(c)
      /\ \A d \in Callers : InCircuit(d)' <=> InCircuit(d)
      /\ \A d \in Callers : d # c => pc'[d] = pc[d] /\ reply'[d] = reply[d]
      /\ reply'[c] = upstream[key[c]]
  BY DEF IInv, TypeOK, InCircuit
<1>4. MutexInv' /\ ClockInv' /\ HistoryInv' /\ EntryInv' /\ ServedInv' /\ ErrorsAreNeverHits'
  BY <1>3 DEF IInv, MutexInv, ClockInv, HistoryInv, EntryInv, ServedInv, ErrorsAreNeverHits
<1>5. ReplyInv'
  <2>1. /\ since[c] <= lastTrue[key[c]][reply'[c]]
        /\ served[key[c]] <= reply'[c]
        /\ reply'[c] <= upstream[key[c]]
    <3>1. since[c] <= now /\ lastTrue[key[c]][upstream[key[c]]] = now
      BY <1>1, <1>3 DEF IInv, ClockInv, HistoryInv
    <3>2. served[key[c]] <= upstream[key[c]] /\ upstream[key[c]] <= upstream[key[c]]
      BY <1>1 DEF IInv, ServedInv, Versions
    <3> QED
      BY <1>3, <3>1, <3>2
  <2> QED
    BY <1>1, <1>3, <2>1 DEF IInv, ReplyInv
<1>6. NoRedundantFetch'
  BY <1>3 DEF IInv, NoRedundantFetch, IsMiss
<1> QED
  BY <1>2, <1>4, <1>5, <1>6 DEF IInv

LEMMA StoreInv ==
  ASSUME NEW c \in Callers, IInv, StoreAnswer(c) \/ StoreError(c) PROVE IInv'
<1> PICK r \in Results :
      /\ InCircuit(c) /\ Store(c, r)
      /\ r = Error \/ (pc[c] = "answered" /\ r = reply[c])
  BY DEF StoreAnswer, StoreError, InCircuit, IInv, TypeOK, Results
<1> USE DEF Store, ReturnTo, Stored, env, sweeper
<1>1. /\ key[c] \in Keys
      /\ ExpiresAfter(r) \in Zero .. MaxTime + TTL
  BY DEF IInv, TypeOK, ExpiresAfter, Zero
<1>2. r # Error =>
        /\ r \in Versions
        /\ ExpiresAfter(r) <= lastTrue[key[c]][r] + TTL + Timeout
        /\ served[key[c]] <= r
        /\ r <= upstream[key[c]]
  BY <1>1 DEF IInv, TypeOK, ReplyInv, ClockInv, ExpiresAfter, Results
<1>3. TypeOK'
  <2>1. /\ DOMAIN results' \subseteq Keys
        /\ \A k \in DOMAIN results' :
             results'[k] \in [expires : Zero .. MaxTime + TTL, result : Results]
    BY <1>1 DEF IInv, TypeOK
  <2>2. served' \in [Keys -> Versions]
    BY <1>1, <1>2 DEF IInv, TypeOK
  <2>3. /\ outcome' \in [Callers -> [status : {"hit", "miss"}, result : Results]]
        /\ pc' \in [Callers -> {"idle", "lock", "sent", "answered", "done"}]
        /\ reply' \in [Callers -> Results]
        /\ since' \in [Callers -> Int]
    BY DEF IInv, TypeOK, Results
  <2> QED
    BY <2>1, <2>2, <2>3 DEF IInv, TypeOK
<1>4. \A d \in Callers : ~ InCircuit(d)'
  BY DEF IInv, TypeOK, MutexInv, InCircuit
<1>5. MutexInv' /\ ClockInv' /\ HistoryInv' /\ ReplyInv' /\ NoRedundantFetch'
  BY <1>4 DEF IInv, MutexInv, ClockInv, HistoryInv, ReplyInv, NoRedundantFetch, InCircuit
<1>6. EntryInv'
  <2> SUFFICES ASSUME NEW k \in DOMAIN results'
               PROVE  IF results'[k].result = Error
                        THEN results'[k].expires = Zero
                        ELSE /\ results'[k].expires <= lastTrue[k][results'[k].result] + TTL + Timeout
                             /\ served'[k] <= results'[k].result
                             /\ results'[k].result <= upstream[k]
    BY DEF EntryInv
  <2>1. CASE k = key[c]
    BY <1>1, <1>2, <2>1 DEF IInv, TypeOK, ExpiresAfter, Versions
  <2>2. CASE k # key[c]
    BY <2>2 DEF IInv, TypeOK, EntryInv
  <2> QED
    BY <2>1, <2>2
<1>7. ServedInv'
  BY <1>1, <1>2 DEF IInv, TypeOK, ServedInv
<1>8. ErrorsAreNeverHits'
  BY DEF IInv, TypeOK, ErrorsAreNeverHits
<1> QED
  BY <1>3, <1>5, <1>6, <1>7, <1>8 DEF IInv

LEMMA SweepInv == IInv /\ Sweep => IInv'
<1> SUFFICES ASSUME IInv, Sweep PROVE IInv'
  OBVIOUS
<1> USE DEF Sweep, env, calls
<1>1. /\ DOMAIN results' \subseteq DOMAIN results
      /\ \A k \in DOMAIN results' : results'[k] = results[k]
  BY DEF Swept
<1>2. TypeOK'
  BY <1>1 DEF IInv, TypeOK
<1>3. \A d \in Callers : ~ InCircuit(d) /\ ~ InCircuit(d)'
  BY DEF IInv, MutexInv, InCircuit
<1>4. MutexInv' /\ ClockInv' /\ ReplyInv' /\ NoRedundantFetch'
  BY <1>3 DEF IInv, MutexInv, ClockInv, ReplyInv, NoRedundantFetch, InCircuit
<1>5. HistoryInv' /\ ServedInv' /\ ErrorsAreNeverHits'
  BY DEF IInv, HistoryInv, ServedInv, ErrorsAreNeverHits
<1>6. EntryInv'
  BY <1>1 DEF IInv, EntryInv
<1> QED
  BY <1>2, <1>4, <1>5, <1>6 DEF IInv

LEMMA CleanerInv == IInv /\ (ReceiveTick \/ ReceiveDone \/ Shutdown) => IInv'
<1> SUFFICES ASSUME IInv, ReceiveTick \/ ReceiveDone \/ Shutdown PROVE IInv'
  OBVIOUS
<1>1. /\ UNCHANGED <<now, env, results, mutex, calls>>
      /\ cleanNow' = now \/ cleanNow' = cleanNow
      /\ cleaner' \in {"select", "lock", "stopped"} /\ tick' \in BOOLEAN /\ done' \in BOOLEAN
  BY DEF ReceiveTick, ReceiveDone, Shutdown, IInv, TypeOK
<1> USE DEF env, calls
<1>2. TypeOK'
  BY <1>1 DEF IInv, TypeOK
<1>3. ClockInv'
  BY <1>1 DEF IInv, TypeOK, ClockInv, InCircuit
<1>4. MutexInv' /\ HistoryInv' /\ EntryInv' /\ ReplyInv' /\ ServedInv' /\ ErrorsAreNeverHits'
  BY <1>1 DEF IInv, MutexInv, HistoryInv, EntryInv, ReplyInv, ServedInv,
              ErrorsAreNeverHits, InCircuit
<1>5. NoRedundantFetch'
  BY <1>1 DEF IInv, NoRedundantFetch, InCircuit, IsMiss, Expired
<1> QED
  BY <1>2, <1>3, <1>4, <1>5 DEF IInv

LEMMA StutterInv == IInv /\ UNCHANGED vars => IInv'
BY DEF IInv, vars, env, calls, sweeper, TypeOK, MutexInv, ClockInv, HistoryInv, EntryInv,
       ReplyInv, ServedInv, ErrorsAreNeverHits, NoRedundantFetch, InCircuit, IsMiss, Expired

LEMMA StepInv == IInv /\ [Next]_vars => IInv'
<1> SUFFICES ASSUME IInv, [Next]_vars PROVE IInv'
  OBVIOUS
<1>1. CASE Advance
  BY <1>1, AdvanceInv
<1>2. ASSUME NEW k \in Keys, Change(k) PROVE IInv'
  BY <1>2, ChangeInv
<1>3. ASSUME NEW c \in Callers, CallerStep(c) PROVE IInv'
  BY <1>3, CallInv, HitInv, MissInv, EvaluateInv, StoreInv DEF CallerStep
<1>4. CASE Sweep
  BY <1>4, SweepInv
<1>5. CASE ReceiveTick \/ ReceiveDone \/ Shutdown
  BY <1>5, CleanerInv
<1>6. CASE UNCHANGED vars
  BY <1>6, StutterInv
<1> QED
  BY <1>1, <1>2, <1>3, <1>4, <1>5, <1>6 DEF Next

LEMMA Invariance == Spec => []IInv
BY InitInv, StepInv, PTL DEF Spec

---------------------------------------------------------------------------
(* The invariants the model checker sees on small instances. *)

\* The map, the mutex and the goroutines' locals keep their types: no entry
\* outlives the ttl it was stored with.
THEOREM TypeCorrect == Spec => []TypeOK
<1>1. IInv => TypeOK
  BY DEF IInv
<1> QED
  BY <1>1, Invariance, PTL

\* A failed introspection is never served from the cache.
THEOREM ErrorsNotCached == Spec => []ErrorsAreNeverHits
<1>1. IInv => ErrorsAreNeverHits
  BY DEF IInv
<1> QED
  BY <1>1, Invariance, PTL

\* Concurrent misses of one key lead to one request.
THEOREM OneFetch == Spec => []NoRedundantFetch
<1>1. IInv => NoRedundantFetch
  BY DEF IInv
<1> QED
  BY <1>1, Invariance, PTL

---------------------------------------------------------------------------
(* What a step that returns may return, and the action properties. *)

\* Every way out of the closure gives c an error, or an answer that is recent
\* and not older than one given before.
Returns(c, r) ==
  /\ pc[c] \in {"lock", "sent", "answered"}
  /\ pc' = [pc EXCEPT ![c] = "done"]
  /\ \E s \in {"hit", "miss"} :
       outcome' = [outcome EXCEPT ![c] = [status |-> s, result |-> r]]
  /\ UNCHANGED <<now, upstream, lastTrue, key>>
  /\ \/ r = Error /\ UNCHANGED served
     \/ /\ r \in Versions
        /\ lastTrue[key[c]][r] >= now - (TTL + Timeout)
        /\ r >= served[key[c]]
        /\ served' = [served EXCEPT ![key[c]] = r]

LEMMA HitReturns ==
  ASSUME NEW c \in Callers, IInv, Hit(c) PROVE Returns(c, results[key[c]].result)
<1> DEFINE r == results[key[c]].result
<1>1. /\ key[c] \in DOMAIN results /\ key[c] \in Keys
      /\ results[key[c]].expires \in Int /\ now \in Int
      /\ now <= results[key[c]].expires /\ 0 <= now
      /\ r \in Results
  BY DEF Hit, IInv, TypeOK, IsMiss, Expired, Zero
<1>2. /\ r # Error
      /\ r \in Versions
      /\ results[key[c]].expires <= lastTrue[key[c]][r] + TTL + Timeout
      /\ served[key[c]] <= r
  BY <1>1 DEF IInv, EntryInv, Results, Zero
<1>3. lastTrue[key[c]][r] >= now - (TTL + Timeout)
  BY <1>1, <1>2 DEF IInv, TypeOK
<1>4. r >= served[key[c]]
  BY <1>1, <1>2 DEF IInv, TypeOK, Versions
<1> QED
  BY <1>2, <1>3, <1>4 DEF Hit, ReturnTo, Returns, env

LEMMA StoreErrorReturns ==
  ASSUME NEW c \in Callers, StoreError(c) PROVE Returns(c, Error)
BY DEF StoreError, InCircuit, Store, ReturnTo, Returns, env

LEMMA StoreAnswerReturns ==
  ASSUME NEW c \in Callers, IInv, StoreAnswer(c) PROVE Returns(c, reply[c])
<1>1. /\ key[c] \in Keys /\ since[c] \in Int /\ now \in Int
      /\ reply[c] # Error /\ reply[c] \in Versions
      /\ since[c] <= lastTrue[key[c]][reply[c]]
      /\ served[key[c]] <= reply[c]
      /\ now <= since[c] + Timeout
  BY DEF StoreAnswer, IInv, TypeOK, ReplyInv, ClockInv, InCircuit, Results
<1>2. lastTrue[key[c]][reply[c]] >= now - (TTL + Timeout)
  BY <1>1 DEF IInv, TypeOK
<1>3. reply[c] >= served[key[c]]
  BY <1>1 DEF IInv, TypeOK, Versions
<1> QED
  BY <1>1, <1>2, <1>3 DEF StoreAnswer, Store, ReturnTo, Returns, env

\* A step of the specification returns to one caller or returns to none.
LEMMA StepReturns ==
  ASSUME IInv, [Next]_vars
  PROVE  \/ \E c \in Callers, r \in Results : Returns(c, r)
         \/ /\ \A c \in Callers : pc'[c] = "done" => pc[c] = "done"
            /\ UNCHANGED <<outcome, served>>
<1>1. ASSUME NEW c \in Callers, Hit(c) \/ StoreAnswer(c) \/ StoreError(c)
      PROVE  \E r \in Results : Returns(c, r)
  BY <1>1, HitReturns, StoreAnswerReturns, StoreErrorReturns DEF Returns, Results
<1>2. ASSUME NEW c \in Callers, Miss(c) \/ Evaluate(c) \/ \E k \in Keys : Call(c, k)
      PROVE  /\ \A d \in Callers : pc'[d] = "done" => pc[d] = "done"
             /\ UNCHANGED <<outcome, served>>
  BY <1>2 DEF Miss, Evaluate, Call, IInv, TypeOK
<1>3. CASE Advance \/ (\E k \in Keys : Change(k)) \/ Sweep \/ ReceiveTick
           \/ ReceiveDone \/ Shutdown \/ UNCHANGED vars
  BY <1>3 DEF Advance, Change, Sweep, ReceiveTick, ReceiveDone, Shutdown, vars, calls
<1> QED
  BY <1>1, <1>2, <1>3 DEF Next, CallerStep

\* No answer is older than TTL + Timeout when it is given.
THEOREM Staleness == Spec => BoundedStaleness
<1>1. IInv /\ [Next]_vars =>
        [\A c \in Callers :
           pc[c] # "done" /\ pc'[c] = "done" /\ outcome'[c].result # Error
             => lastTrue'[key[c]][outcome'[c].result] >= now' - (TTL + Timeout)]_vars
  <2> SUFFICES ASSUME IInv, [Next]_vars, NEW c \in Callers,
                      pc[c] # "done", pc'[c] = "done", outcome'[c].result # Error
               PROVE  lastTrue'[key[c]][outcome'[c].result] >= now' - (TTL + Timeout)
    OBVIOUS
  <2>1. PICK d \in Callers, r \in Results : Returns(d, r)
    BY StepReturns
  <2>2. d = c
    BY <2>1 DEF Returns, IInv, TypeOK
  <2>3. outcome'[c].result = r
    <3>1. PICK s \in {"hit", "miss"} :
            outcome' = [outcome EXCEPT ![c] = [status |-> s, result |-> r]]
      BY <2>1, <2>2 DEF Returns
    <3>2. c \in DOMAIN outcome
      BY DEF IInv, TypeOK
    <3> QED
      BY <3>1, <3>2
  <2>4. r # Error
    BY <2>3
  <2> QED
    BY <2>1, <2>2, <2>3, <2>4 DEF Returns
<1> QED
  BY <1>1, Invariance, PTL DEF Spec, BoundedStaleness

\* Whoever asks later is not told something older.
THEOREM Monotonic == Spec => NeverGoesBack
<1>1. IInv /\ [Next]_vars => [\A k \in Keys : served'[k] >= served[k]]_vars
  <2> SUFFICES ASSUME IInv, [Next]_vars, NEW k \in Keys PROVE served'[k] >= served[k]
    OBVIOUS
  <2>1. served \in [Keys -> Int] /\ served[k] >= served[k]
    BY DEF IInv, TypeOK, Versions
  <2>2. ASSUME NEW c \in Callers, NEW r \in Results, Returns(c, r)
        PROVE  served'[k] >= served[k]
    <3>1. CASE UNCHANGED served
      BY <2>1, <3>1
    <3>2. CASE /\ r >= served[key[c]]
               /\ served' = [served EXCEPT ![key[c]] = r]
      BY <2>1, <3>2
    <3> QED
      BY <2>2, <3>1, <3>2 DEF Returns
  <2> QED
    BY <2>1, <2>2, StepReturns
<1> QED
  BY <1>1, Invariance, PTL DEF Spec, NeverGoesBack

\* The sweep, late as it may be, removes only what no lookup could use.
THEOREM LiveKept == Spec => LiveEntriesAreKept
<1>1. IInv /\ [Next]_vars =>
        [\A k \in DOMAIN results :
           k \notin DOMAIN results' => Expired(results[k], now)]_vars
  <2> SUFFICES ASSUME IInv, [Next]_vars, NEW k \in DOMAIN results, k \notin DOMAIN results'
               PROVE  Expired(results[k], now)
    OBVIOUS
  <2>1. CASE Sweep
    BY <2>1 DEF Sweep, Swept, Expired, IInv, TypeOK, ClockInv, Zero
  <2>2. ASSUME NEW c \in Callers, StoreAnswer(c) \/ StoreError(c)
        PROVE  k \in DOMAIN results'
    BY <2>2 DEF StoreAnswer, StoreError, Store, Stored
  <2>3. Sweep \/ results' = results \/ \E c \in Callers : StoreAnswer(c) \/ StoreError(c)
    BY DEF Next, vars, CallerStep, Advance, Change, Call, Hit, Miss, Evaluate,
           ReceiveTick, ReceiveDone, Shutdown
  <2> QED
    BY <2>1, <2>2, <2>3
<1> QED
  BY <1>1, Invariance, PTL DEF Spec, LiveEntriesAreKept

---------------------------------------------------------------------------
(* The cache implements BoundedStaleCache. *)

LEMMA AbsInit == Init => Abs!Init
BY DEF Init, Abs!Init, Abs!Versions, Abs!Error, Versions, Error

LEMMA AbsStep == IInv /\ [Next]_vars => [Abs!Next]_Abs!vars
<1> SUFFICES ASSUME IInv, [Next]_vars PROVE [Abs!Next]_Abs!vars
  OBVIOUS
<1> DEFINE state  == [c \in Callers |->
                        IF pc[c] \in {"idle", "done"} THEN pc[c] ELSE "asked"]
           result == [c \in Callers |-> outcome[c].result]
<1>1. CASE Advance
  BY <1>1 DEF Advance, calls, Abs!Next, Abs!Advance
<1>2. ASSUME NEW k \in Keys, Change(k) PROVE Abs!Next
  BY <1>2 DEF Change, calls, Abs!Next, Abs!Change
<1>3. ASSUME NEW c \in Callers, NEW k \in Keys, Call(c, k) PROVE Abs!Next
  <2>1. state[c] # "asked" /\ state' = [state EXCEPT ![c] = "asked"]
    BY <1>3 DEF Call, IInv, TypeOK
  <2> QED
    BY <1>3, <2>1 DEF Call, env, Abs!Next, Abs!Ask
<1>4. ASSUME NEW c \in Callers, NEW r \in Results, Returns(c, r) PROVE Abs!Next
  <2>1. state[c] = "asked" /\ state' = [state EXCEPT ![c] = "done"]
    BY <1>4 DEF Returns, IInv, TypeOK
  <2>2. result' = [result EXCEPT ![c] = r]
    <3>1. PICK s \in {"hit", "miss"} :
            outcome' = [outcome EXCEPT ![c] = [status |-> s, result |-> r]]
      BY <1>4 DEF Returns
    <3> QED
      BY <3>1 DEF IInv, TypeOK
  <2>3. Abs!AnswerError(c) \/ \E v \in Abs!Versions : Abs!AnswerWith(c, v)
    BY <1>4, <2>2 DEF Returns, Abs!AnswerError, Abs!AnswerWith, Abs!Versions, Abs!Error,
                      Versions, Error
  <2> QED
    BY <1>4, <2>1, <2>3 DEF Returns, Abs!Answer, Abs!Next
<1>5. ASSUME NEW c \in Callers, Miss(c) \/ Evaluate(c) PROVE UNCHANGED Abs!vars
  <2>1. state' = state
    BY <1>5 DEF Miss, Evaluate, IInv, TypeOK
  <2> QED
    BY <1>5, <2>1 DEF Miss, Evaluate, env, Abs!vars
<1>6. CASE Sweep \/ ReceiveTick \/ ReceiveDone \/ Shutdown \/ UNCHANGED vars
  BY <1>6 DEF Sweep, ReceiveTick, ReceiveDone, Shutdown, vars, calls, env, Abs!vars
<1>7. ASSUME NEW c \in Callers, Hit(c) \/ StoreAnswer(c) \/ StoreError(c)
      PROVE  \E r \in Results : Returns(c, r)
  BY <1>7, HitReturns, StoreAnswerReturns, StoreErrorReturns DEF Returns, Results
<1> QED
  BY <1>1, <1>2, <1>3, <1>4, <1>5, <1>6, <1>7 DEF Next, CallerStep

\* Safety half of ImplementsBoundedStaleCache: whoever calls the closure
\* cannot tell it from the abstract cache.
THEOREM Refinement == Spec => Abs!Init /\ [][Abs!Next]_Abs!vars
BY AbsInit, AbsStep, Invariance, PTL DEF Spec
=============================================================================
