-------------------------- MODULE ServiceLifecycle --------------------------
(***************************************************************************)
(* The life of the process: main validates the configuration, builds the   *)
(* services in order, serves, and on a signal drains the HTTP server and   *)
(* flushes telemetry within one deadline. Beside main run the goroutine    *)
(* that listens, those of the requests, the client scopes refresher, the   *)
(* sweeper of the introspection cache and the hooks of the shutdown.       *)
(* OrganizationService is a part of the start, which it may end.           *)
(***************************************************************************)
EXTENDS OrganizationService

CONSTANTS Requests,       \* requests in flight at a time
          RefreshIntervals, CacheTTLs, SessionStores, MetricsEnabled
                          \* what the configuration may say

Signs == {"negative", "zero", "positive"}   \* all that matters of a number

ASSUME ConfigAssumption ==
  /\ RefreshIntervals \subseteq Signs /\ CacheTTLs \subseteq Signs
  /\ SessionStores \subseteq {"filesystem", "cookie", "redis", "memory"}
  /\ MetricsEnabled \subseteq BOOLEAN

VARIABLES
  cfg,          \* the configuration
  phase,        \* where main is
  instruments,  \* the package variables of the metrics have been set
  listener,     \* the goroutine of ListenAndServe: none, bound, failed, closed
  quit,         \* a signal is in main's channel
  deadline,     \* the 10 seconds of shutdownCtx are over
  hook,         \* the goroutine of RegisterOnShutdown: none, spawned, ran
  refresher,    \* the client scopes refresher: none, waiting, loading, stopped
  sweeper,      \* the introspection cache's sweeper: none, running, stopped
  done,         \* the channels closed: "scopes", "introspection"
  active,       \* the requests in a handler
  spans,        \* the requests whose ended spans the batch processor holds
  refused       \* history: those whose spans the collector has not taken

services   == <<refresher, sweeper, done>>
telemetry  == <<spans, refused>>
traffic    == <<active, telemetry>>
given      == <<cfg, organization>>
server     == <<listener, quit, deadline, hook>>
vars       == <<given, phase, instruments, server, services, traffic>>

Booting  == {"config", "metrics", "client", "introspection", "store", "organization", "services",
             "scopes", "starting"}
Stopping == {"draining", "meter", "tracer"}
\* "exited": main returns. "failed": os.Exit(1). "killed": a signal that
\* nobody waits for yet. "panicked": so does a goroutine.
Over     == {"exited", "failed", "killed", "panicked"}
Phases   == Booting \cup {"serving"} \cup Stopping \cup Over

---------------------------------------------------------------------------
(* main, up to the server *)

Step(from, to) == phase = from /\ phase' = to

\* Slip: the bound of the introspection cache's ttl is forgotten.
ValidButTTL(c) == c.interval # "negative" /\ c.store \in {"filesystem", "cookie", "redis"}

\* Config.Validate, of what matters later.
Valid(c) == c.interval # "negative" /\ c.ttl # "negative" /\ c.store \in {"filesystem", "cookie", "redis"}

LoadConfig ==
  /\ Step("config", IF Valid(cfg) THEN "metrics" ELSE "failed")
  /\ UNCHANGED <<given, instruments, server, services, traffic>>

\* The exporters are made, of the spans and of the metrics; either may fail.
InitMetrics ==
  /\ \E next \in {"client", "failed"} : Step("metrics", next)
  /\ instruments' = (cfg.metrics /\ phase' = "client")
  /\ UNCHANGED <<given, server, services, traffic>>

\* NewClient asks Keycloak for its endpoints.
NewClient ==
  /\ \E next \in {"introspection", "failed"} : Step("client", next)
  /\ UNCHANGED <<given, instruments, server, services, traffic>>

\* Slip: introspection is enabled with every session store.
IntrospectAlways ==
  /\ Step("introspection", IF cfg.ttl = "positive" THEN "store" ELSE "panicked")
  /\ sweeper' = "running"
  /\ UNCHANGED <<given, instruments, server, refresher, done, traffic>>

\* The cache's sweeper is started by time.NewTicker(2 * ttl), which panics
\* unless the ttl is positive.
EnableIntrospection ==
  /\ Step("introspection",
          IF cfg.store = "cookie" /\ cfg.ttl # "positive" THEN "panicked" ELSE "store")
  /\ sweeper' = IF cfg.store = "cookie" /\ cfg.ttl = "positive" THEN "running" ELSE sweeper
  /\ UNCHANGED <<given, instruments, server, refresher, done, traffic>>

NewStore ==
  /\ Step("store", IF cfg.store = "redis" THEN "failed" ELSE "organization")
  /\ UNCHANGED <<given, instruments, server, services, traffic>>

\* Each round of canonicalizeHTML's loop; its error ends the program.
UnescapeDescription ==
  /\ Step("organization", "organization") /\ Round
  /\ UNCHANGED <<cfg, instruments, server, services, traffic>>

RefuseDescription ==
  /\ Step("organization", "failed") /\ Refuse
  /\ UNCHANGED <<cfg, instruments, server, services, traffic>>

NewOrganizationService ==
  /\ Step("organization", "services") /\ Sanitize
  /\ UNCHANGED <<cfg, instruments, server, services, traffic>>

\* NewApplicationService begins with time.NewTicker(interval).
NewServices ==
  /\ Step("services", IF cfg.interval = "positive" THEN "scopes" ELSE "panicked")
  /\ UNCHANGED <<given, instruments, server, services, traffic>>

\* loadClientScopes gets the first service account token, and counts it
\* whether or not Keycloak answers.
LoadClientScopes ==
  /\ \/ /\ instruments
        /\ \/ Step("scopes", "starting") /\ refresher' = "waiting"
           \/ Step("scopes", "failed") /\ UNCHANGED refresher
     \/ ~ instruments /\ Step("scopes", "panicked") /\ UNCHANGED refresher
  /\ UNCHANGED <<given, instruments, server, sweeper, done, traffic>>

---------------------------------------------------------------------------
(* The server *)

\* signal.Notify, after the goroutine that listens has been started.
Notify ==
  /\ Step("starting", "serving")
  /\ UNCHANGED <<given, instruments, server, services, traffic>>

\* ListenAndServe binds the port, or fails, at once or later.
Listen ==
  /\ phase \in {"starting", "serving"} /\ listener = "none"
  /\ listener' = "bound"
  /\ UNCHANGED <<given, phase, instruments, quit, deadline, hook, services, traffic>>

ListenFails ==
  /\ phase \in {"starting", "serving"} /\ listener \in {"none", "bound"}
  /\ listener' = "failed"
  /\ UNCHANGED <<given, phase, instruments, quit, deadline, hook, services, traffic>>

\* main's select, if the server fails.
ServerError ==
  /\ listener = "failed"
  /\ Step("serving", "failed")
  /\ UNCHANGED <<given, instruments, server, services, traffic>>

\* SIGINT or SIGTERM, before and after signal.Notify; of two, one is kept.
Signal ==
  /\ phase \notin Over /\ ~ quit
  /\ IF phase \in Booting THEN phase' = "killed" /\ UNCHANGED quit
                          ELSE quit' = TRUE /\ UNCHANGED phase
  /\ UNCHANGED <<given, instruments, listener, deadline, hook, services, traffic>>

\* A request is taken while the listener is open; its spans end with it.
Begin(r) ==
  /\ phase \notin Over /\ listener = "bound" /\ r \notin active
  /\ active' = active \cup {r}
  /\ UNCHANGED <<given, phase, instruments, server, services, telemetry>>

End(r) ==
  /\ phase \notin Over /\ r \in active
  /\ active' = active \ {r}
  /\ spans' = spans \cup {r}
  /\ UNCHANGED <<given, phase, instruments, server, services, refused>>

\* The batch processor hands over what it holds. The collector takes it or,
\* being down or unwilling, does not: the batch is dropped then, too.
HandOver ==
  /\ spans' = {}
  /\ refused' \in {refused, refused \cup spans}

\* The batch processor's timer.
Export ==
  /\ phase \notin Over /\ spans # {}
  /\ HandOver
  /\ UNCHANGED <<given, phase, instruments, server, services, active>>

---------------------------------------------------------------------------
(* main, after a signal *)

\* httpServer.Shutdown closes the listener, spawns the hooks and waits.
Shutdown ==
  /\ quit
  /\ Step("serving", "draining")
  /\ listener' = IF listener = "bound" THEN "closed" ELSE listener
  /\ hook' = "spawned"
  /\ UNCHANGED <<given, instruments, quit, deadline, services, traffic>>

\* Slip: the listener is closed, and requests in flight are not waited for.
DrainedAtOnce ==
  /\ Step("draining", "meter")
  /\ UNCHANGED <<given, instruments, server, services, traffic>>

\* Slip: the drain is not bounded by the context.
DrainedWithoutLimit ==
  /\ active = {}
  /\ Step("draining", "meter")
  /\ UNCHANGED <<given, instruments, server, services, traffic>>

Drained ==
  /\ active = {} \/ deadline
  /\ Step("draining", "meter")
  /\ UNCHANGED <<given, instruments, server, services, traffic>>

MeterShutdown ==
  /\ Step("meter", "tracer")
  /\ UNCHANGED <<given, instruments, server, services, traffic>>

\* Slip: the TracerProvider is not shut down.
NoTracerShutdown ==
  /\ Step("tracer", "exited")
  /\ UNCHANGED <<given, instruments, server, services, traffic>>

\* The TracerProvider hands over what is left, unless the shared deadline ends
\* that; an error is logged. main returns, and every other goroutine ends.
TracerShutdown ==
  /\ Step("tracer", "exited")
  /\ HandOver \/ (deadline /\ UNCHANGED telemetry)
  /\ UNCHANGED <<given, instruments, server, services, active>>

Deadline ==
  /\ phase \in Stopping /\ ~ deadline
  /\ deadline' = TRUE
  /\ UNCHANGED <<given, phase, instruments, listener, quit, hook, services, traffic>>

\* Slip: Client.Shutdown closes its channel in either tier; in Tier 1 it is nil.
HookClosesBoth ==
  /\ phase \notin Over /\ hook = "spawned"
  /\ hook' = "ran"
  /\ done' = {"scopes", "introspection"}
  /\ phase' = IF cfg.store = "cookie" THEN phase ELSE "panicked"
  /\ UNCHANGED <<given, instruments, listener, quit, deadline, refresher, sweeper, traffic>>

\* ApplicationService.ShutDown and Client.Shutdown close their channels.
Hook ==
  /\ phase \notin Over /\ hook = "spawned"
  /\ hook' = "ran"
  /\ done' = {"scopes"} \cup IF cfg.store = "cookie" THEN {"introspection"} ELSE {}
  /\ UNCHANGED <<given, phase, instruments, listener, quit, deadline, refresher, sweeper, traffic>>

---------------------------------------------------------------------------
(* The goroutines of the services *)

\* A tick; select takes either case when the channel has been closed, too.
RefreshTick ==
  /\ phase \notin Over /\ refresher = "waiting"
  /\ refresher' = "loading"
  /\ UNCHANGED <<given, phase, instruments, server, sweeper, done, traffic>>

\* The load ends, well or with an error that is logged.
RefreshLoaded ==
  /\ phase \notin Over /\ refresher = "loading"
  /\ refresher' = "waiting"
  /\ UNCHANGED <<given, phase, instruments, server, sweeper, done, traffic>>

RefreshStops ==
  /\ phase \notin Over /\ refresher = "waiting" /\ "scopes" \in done
  /\ refresher' = "stopped"
  /\ UNCHANGED <<given, phase, instruments, server, sweeper, done, traffic>>

SweepStops ==
  /\ phase \notin Over /\ sweeper = "running" /\ "introspection" \in done
  /\ sweeper' = "stopped"
  /\ UNCHANGED <<given, phase, instruments, server, refresher, done, traffic>>

---------------------------------------------------------------------------

Init ==
  /\ cfg \in [interval : RefreshIntervals, ttl : CacheTTLs, store : SessionStores,
              metrics : MetricsEnabled]
  /\ phase = "config"
  /\ instruments = FALSE
  /\ listener = "none" /\ quit = FALSE /\ deadline = FALSE /\ hook = "none"
  /\ refresher = "none" /\ sweeper = "none" /\ done = {}
  /\ active = {} /\ spans = {} /\ refused = {}
  /\ InitOrganization

Main ==
  \/ LoadConfig \/ InitMetrics \/ NewClient \/ EnableIntrospection \/ NewStore
  \/ UnescapeDescription \/ RefuseDescription \/ NewOrganizationService \/ NewServices \/ LoadClientScopes
  \/ Notify \/ ServerError \/ Shutdown \/ Drained \/ MeterShutdown \/ TracerShutdown

Next ==
  \/ Main
  \/ Listen \/ ListenFails \/ Signal \/ Deadline \/ Hook \/ Export
  \/ \E r \in Requests : Begin(r) \/ End(r)
  \/ RefreshTick \/ RefreshLoaded \/ RefreshStops \/ SweepStops

\* main goes on when it can, the deadline comes, and hooks are scheduled. No
\* handler has to end.
Fairness == WF_vars(Main) /\ WF_vars(Deadline) /\ WF_vars(Hook)

Spec == Init /\ [][Next]_vars /\ Fairness

---------------------------------------------------------------------------
(* Properties *)

\* Every variable keeps its type, and there is nothing to sweep in Tier 1.
TypeOK ==
  /\ cfg \in [interval : Signs, ttl : Signs,
              store : {"filesystem", "cookie", "redis", "memory"}, metrics : BOOLEAN]
  /\ phase \in Phases
  /\ {instruments, quit, deadline} \subseteq BOOLEAN
  /\ listener \in {"none", "bound", "failed", "closed"}
  /\ hook \in {"none", "spawned", "ran"}
  /\ refresher \in {"none", "waiting", "loading", "stopped"}
  /\ sweeper \in IF cfg.store = "cookie" THEN {"none", "running", "stopped"} ELSE {"none"}
  /\ done \subseteq {"scopes", "introspection"}
  /\ active \subseteq Requests /\ spans \subseteq Requests /\ refused \subseteq Requests
  /\ custom \in Descriptions /\ count \in 0 .. 11
  /\ \A s \in {text, prev} : DOMAIN s \subseteq DOMAIN custom /\ \A i \in DOMAIN s : s[i] \in Tokens

\* A configuration that Validate accepts does not make the program panic, at
\* the start or at the shutdown, whichever session store it names. What holds
\* of it depends on the constants: see StartsAndStops in ServiceLifecycleProofs.
AcceptedConfigWorks == phase # "panicked"

\* The start fails over a description exactly if it has a percent sign, under
\* whatever encoding, or a character that takes more than ten rounds to become
\* plain; any other ends as its plain text without markup, however encoded.
DescriptionIsSettled ==
  [][phase = "organization" /\ phase' \notin {"organization", "killed"} =>
       IF Acceptable(custom)
       THEN phase' = "services" /\ text' = sanitizeHTML(Canonical(custom))
       ELSE phase' = "failed"]_vars

\* A graceful exit cuts no request short before the deadline.
RequestsAreDrained == phase = "exited" => active = {} \/ deadline

\* Nor does it leave spans of an answered request with the batch processor
\* before the deadline: the TracerProvider is shut down after the last of them
\* has ended. They reach the collector, but for those it has refused.
SpansAreFlushed == phase = "exited" => spans = {} \/ deadline

\* Once main is told to stop it does, even if a request never ends.
ShutdownEnds == quit ~> phase \in Over
=============================================================================
