------------------------- MODULE BoundedStaleCache -------------------------
(***************************************************************************)
(* What a cache in front of Keycloak promises to the goroutines that ask   *)
(* it, with no mutex, no expiry and no stored entry in sight: every call   *)
(* ends, with an error or with an answer the upstream itself would have    *)
(* given at most Bound ago, and the answers given for one key never go     *)
(* back in time.  KeyTTLCache implements it.                               *)
(*                                                                         *)
(* The upstream's answers for a key are numbered 0, 1, 2, ...: version v+1 *)
(* is what it says after its v+1st change of mind (a token revoked, an     *)
(* application edited).                                                    *)
(***************************************************************************)
EXTENDS Integers

CONSTANTS Callers,     \* goroutines that call the cached function
          Keys,        \* the keys they ask about
          MaxVersion,  \* bound: changes of the upstream's answer for a key
          MaxTime,     \* bound: last reading of the clock
          Bound        \* how old an answer may be when it is given

Versions == 0 .. MaxVersion
Error    == -1         \* the call returned an error instead of an answer

VARIABLES now,       \* the clock
          upstream,  \* upstream[k]: version the upstream answers with now
          lastTrue,  \* lastTrue[k][v]: last time at which upstream[k] was v
          state,     \* state[c]: "idle", "asked" or "done"
          key,       \* key[c]: the key of c's call
          result,    \* result[c]: what c's last call returned
          served     \* served[k]: the version last returned for k

vars == <<now, upstream, lastTrue, state, key, result, served>>

Init ==
  /\ now = 0
  /\ upstream = [k \in Keys |-> 0]
  /\ lastTrue = [k \in Keys |-> [v \in Versions |-> IF v = 0 THEN 0 ELSE -1]]
  /\ state = [c \in Callers |-> "idle"]
  /\ key \in [Callers -> Keys]
  /\ result = [c \in Callers |-> Error]
  /\ served = [k \in Keys |-> 0]

Advance ==
  /\ now < MaxTime
  /\ now' = now + 1
  /\ lastTrue' = [k \in Keys |-> [lastTrue[k] EXCEPT ![upstream[k]] = now + 1]]
  /\ UNCHANGED <<upstream, state, key, result, served>>

Change(k) ==
  /\ upstream[k] < MaxVersion
  /\ upstream' = [upstream EXCEPT ![k] = @ + 1]
  /\ lastTrue' = [lastTrue EXCEPT ![k][upstream[k] + 1] = now]
  /\ UNCHANGED <<now, state, key, result, served>>

Ask(c, k) ==
  /\ state[c] # "asked"
  /\ state' = [state EXCEPT ![c] = "asked"]
  /\ key' = [key EXCEPT ![c] = k]
  /\ UNCHANGED <<now, upstream, lastTrue, result, served>>

AnswerWith(c, v) ==
  /\ lastTrue[key[c]][v] >= now - Bound
  /\ v >= served[key[c]]
  /\ result' = [result EXCEPT ![c] = v]
  /\ served' = [served EXCEPT ![key[c]] = v]

AnswerError(c) ==
  /\ result' = [result EXCEPT ![c] = Error]
  /\ UNCHANGED served

Answer(c) ==
  /\ state[c] = "asked"
  /\ state' = [state EXCEPT ![c] = "done"]
  /\ AnswerError(c) \/ \E v \in Versions : AnswerWith(c, v)
  /\ UNCHANGED <<now, upstream, lastTrue, key>>

Next ==
  \/ Advance
  \/ \E k \in Keys : Change(k)
  \/ \E c \in Callers : Answer(c) \/ \E k \in Keys : Ask(c, k)

Spec == Init /\ [][Next]_vars /\ \A c \in Callers : WF_vars(Answer(c))
=============================================================================
