----------------------- MODULE ServiceLifecycleProofs -----------------------
(***************************************************************************)
(* Proofs about ServiceLifecycle, for every set of requests and every      *)
(* configuration: its safety properties, and which configurations start    *)
(* and stop without a panic.                                               *)
(***************************************************************************)
EXTENDS ServiceLifecycle, TLAPS

---------------------------------------------------------------------------
(* The inductive invariant. *)

\* The configuration in use is one of those given, has been validated unless
\* main is still at that, and decides whether there are instruments.
ConfigInv ==
  /\ cfg \in [interval : RefreshIntervals, ttl : CacheTTLs, store : SessionStores,
              metrics : MetricsEnabled]
  /\ phase \in Booting \ {"config"} => Valid(cfg)
  /\ phase \in Booting \ {"config", "metrics"} => instruments = cfg.metrics

\* From the drain on, no request is taken; after it, none is left, nor are the
\* spans of one after the last step, unless the deadline has come.
DrainInv ==
  /\ phase \in Stopping \cup {"exited"} => listener # "bound"
  /\ phase \in {"meter", "tracer", "exited"} => active = {} \/ deadline
  /\ phase = "exited" => spans = {} \/ deadline

\* A token after n rounds, and a description whose percents have lasted them.
Peeled(t, n) ==
  IF n <= t.layers THEN [char |-> t.char, layers |-> t.layers - n] ELSE Plain(t)

PeeledAll(s, n) == [i \in DOMAIN s |-> Peeled(s[i], n)]

Lasts(s, n) == \A i \in DOMAIN s : s[i].char = "percent" => n <= s[i].layers

\* canonicalizeHTML holds what count rounds have made of the description.
OrgInv ==
  phase \in {"config", "metrics", "client", "introspection", "store", "organization"} =>
    /\ text = PeeledAll(custom, count)
    /\ prev = IF count = 0 THEN << >> ELSE PeeledAll(custom, count - 1)
    /\ Lasts(custom, count)

IInv == TypeOK /\ ConfigInv /\ DrainInv /\ OrgInv

---------------------------------------------------------------------------
(* Rounds of canonicalizeHTML. *)

LEMMA TokenRound ==
  ASSUME NEW t \in Tokens, NEW n \in Nat, t.char = "percent" => n <= t.layers
  PROVE  /\ Peeled(t, n) \in Tokens
         /\ Peeled(t, n) # Bare => Unescaped(Peeled(t, n)) = Peeled(t, n + 1)
         /\ Peeled(t, n) # Bare /\ t.char = "percent" => n + 1 <= t.layers
         /\ Peeled(t, n) = Bare => t.char = "percent"
BY DEF Tokens, Peeled, Plain, Bare, Unescaped

\* A token changes for as long as its rounds last, then is plain.
LEMMA TokenRounds ==
  ASSUME NEW t \in Tokens, NEW n \in Nat
  PROVE  /\ Peeled(t, n + 1) = Peeled(t, n) <=> Rounds(t) <= n
         /\ Rounds(t) <= n => Peeled(t, n) = Plain(t)
BY DEF Tokens, Peeled, Plain, Rounds

\* The same of a whole description: the loop starts with it,
LEMMA NoRound ==
  ASSUME NEW s \in Descriptions
  PROVE  PeeledAll(s, 0) = s /\ Lasts(s, 0) /\ \A i \in DOMAIN s : s[i] \in Tokens
<1>1. \A i \in DOMAIN s : s[i] \in Tokens /\ Peeled(s[i], 0) = s[i]
  <2> TAKE i \in DOMAIN s
  <2>1. s[i] \in Tokens
    BY DescriptionsAssumption
  <2> QED  BY <2>1 DEF Tokens, Peeled
<1>2. s = [i \in DOMAIN s |-> s[i]]
  BY DescriptionsAssumption
<1>3. Lasts(s, 0)
  BY <1>1 DEF Lasts, Tokens
<1> QED  BY <1>1, <1>2, <1>3 DEF PeeledAll

\* a round without an error peels off a layer,
LEMMA OneRound ==
  ASSUME NEW s \in Descriptions, NEW n \in Nat, Lasts(s, n), ~ UnescapeFails(PeeledAll(s, n))
  PROVE  QueryUnescape(PeeledAll(s, n)) = PeeledAll(s, n + 1) /\ Lasts(s, n + 1)
<1>1. \A i \in DOMAIN s : Peeled(s[i], n) # Bare
  BY DEF UnescapeFails, PeeledAll
<1>2. ASSUME NEW i \in DOMAIN s
      PROVE  Unescaped(Peeled(s[i], n)) = Peeled(s[i], n + 1) /\ (s[i].char = "percent" => n + 1 <= s[i].layers)
  <2>1. s[i] \in Tokens /\ (s[i].char = "percent" => n <= s[i].layers) /\ Peeled(s[i], n) # Bare
    BY <1>1, NoRound DEF Lasts
  <2> QED  BY <2>1, TokenRound
<1> QED  BY <1>2 DEF QueryUnescape, PeeledAll, Lasts

\* an error is the fault of a percent,
LEMMA OneError ==
  ASSUME NEW s \in Descriptions, NEW n \in Nat, Lasts(s, n), UnescapeFails(PeeledAll(s, n))
  PROVE  ~ Acceptable(s)
<1>1. PICK i \in DOMAIN s : Peeled(s[i], n) = Bare
  BY DEF UnescapeFails, PeeledAll
<1>2. s[i] \in Tokens /\ (s[i].char = "percent" => n <= s[i].layers)
  BY NoRound DEF Lasts
<1> QED  BY <1>1, <1>2, TokenRound DEF Acceptable

\* ten rounds are enough for what is acceptable,
LEMMA TenRounds ==
  ASSUME NEW s \in Descriptions, Acceptable(s)
  PROVE  PeeledAll(s, 10) = Canonical(s) /\ PeeledAll(s, 11) = Canonical(s)
<1>1. ASSUME NEW i \in DOMAIN s
      PROVE  Peeled(s[i], 10) = Plain(s[i]) /\ Peeled(s[i], 11) = Plain(s[i])
  <2>1. s[i] \in Tokens /\ s[i].char # "percent" /\ Rounds(s[i]) <= 10
    BY NoRound DEF Acceptable
  <2> QED  BY <2>1, TokenRounds
<1> QED  BY <1>1 DEF PeeledAll, Canonical

\* and a round without effect shows that all is plain.
LEMMA LastRound ==
  ASSUME NEW s \in Descriptions, NEW n \in 0 .. 10, Lasts(s, n + 1), PeeledAll(s, n + 1) = PeeledAll(s, n)
  PROVE  Acceptable(s) /\ PeeledAll(s, n + 1) = Canonical(s)
<1>1. ASSUME NEW i \in DOMAIN s
      PROVE  s[i].char # "percent" /\ Rounds(s[i]) <= 10 /\ Peeled(s[i], n + 1) = Plain(s[i])
  <2>1. s[i] \in Tokens /\ (s[i].char = "percent" => n + 1 <= s[i].layers)
    BY NoRound DEF Lasts
  <2>2. Peeled(s[i], n + 1) = Peeled(s[i], n)
    BY DEF PeeledAll
  <2>3. Rounds(s[i]) <= n
    BY <2>1, <2>2, TokenRounds
  <2>4. s[i].char # "percent"
    BY <2>1, <2>3 DEF Rounds, Tokens
  <2>5. Rounds(s[i]) <= 10
    BY <2>1, <2>3 DEF Rounds, Tokens
  <2>6. Peeled(s[i], n) = Plain(s[i])
    BY <2>1, <2>3, TokenRounds
  <2> QED  BY <2>2, <2>4, <2>5, <2>6
<1> QED  BY <1>1 DEF PeeledAll, Canonical, Acceptable

---------------------------------------------------------------------------
(* Every action preserves it. *)

USE ConfigAssumption
    DEF ConfigAssumption, services, traffic, telemetry, server, given, organization, Step

LEMMA InitInv == Init => IInv
<1> SUFFICES ASSUME Init PROVE IInv
  OBVIOUS
<1>1. custom \in Descriptions /\ text = custom /\ prev = << >> /\ count = 0
  BY DEF Init, InitOrganization
<1>2. OrgInv
  BY <1>1, NoRound DEF OrgInv
<1>3. \A s \in {text, prev} : DOMAIN s \subseteq DOMAIN custom /\ \A i \in DOMAIN s : s[i] \in Tokens
  <2>1. DOMAIN << >> = {}
    OBVIOUS
  <2> QED  BY <1>1, <2>1, NoRound
<1>4. TypeOK
  <2>1. phase \in Phases /\ count \in 0 .. 11
    BY <1>1 DEF Init, Phases, Booting
  <2>2. cfg \in [interval : Signs, ttl : Signs,
                store : {"filesystem", "cookie", "redis", "memory"}, metrics : BOOLEAN]
    BY DEF Init
  <2> QED  BY <1>1, <1>3, <2>1, <2>2 DEF Init, TypeOK
<1>5. ConfigInv /\ DrainInv
  BY DEF Init, ConfigInv, DrainInv, Booting, Stopping
<1> QED
  BY <1>2, <1>4, <1>5 DEF IInv

\* Nothing but main's step over the organization touches the description.
LEMMA OrgInvLasts ==
  ASSUME IInv, UNCHANGED organization,
         phase' = phase \/ phase \in {"config", "metrics", "client", "introspection", "store"}
           \/ phase' \notin {"config", "metrics", "client", "introspection", "store", "organization"}
  PROVE  OrgInv'
BY DEF IInv, OrgInv

\* The loop of canonicalizeHTML.
Canonicalize == UnescapeDescription \/ RefuseDescription \/ NewOrganizationService

LEMMA CanonicalizeInv == ASSUME IInv, Canonicalize PROVE IInv'
<1> USE DEF Canonicalize, UnescapeDescription, RefuseDescription, NewOrganizationService
<1>1. custom \in Descriptions /\ custom' = custom /\ count \in 0 .. 11 /\ phase = "organization"
  BY DEF IInv, TypeOK, Round, Refuse, Sanitize
<1>2. text = PeeledAll(custom, count) /\ Lasts(custom, count)
  BY <1>1 DEF IInv, OrgInv
<1>3. \A s \in {text, prev} : DOMAIN s \subseteq DOMAIN custom /\ \A i \in DOMAIN s : s[i] \in Tokens
  BY DEF IInv, TypeOK
<1>4. CASE UnescapeDescription
  <2>1. count \in 0 .. 10 /\ ~ UnescapeFails(text)
    BY <1>1, <1>4 DEF Round, TooMany
  <2>2. text' = PeeledAll(custom, count + 1) /\ Lasts(custom, count + 1)
    BY <1>1, <1>2, <1>4, <2>1, OneRound DEF Round
  <2>3. prev' = PeeledAll(custom, count) /\ count' = count + 1
    BY <1>2, <1>4 DEF Round
  <2>4. count' \in 0 .. 11 /\ count' # 0 /\ count' - 1 = count
    BY <2>1, <2>3
  <2>5. OrgInv'
    BY <1>1, <2>2, <2>3, <2>4 DEF OrgInv
  <2>6. \A i \in DOMAIN custom : Peeled(custom[i], count + 1) \in Tokens
    <3> TAKE i \in DOMAIN custom
    <3>1. custom[i] \in Tokens /\ (custom[i].char = "percent" => count + 1 <= custom[i].layers)
      BY <1>1, <2>2, NoRound DEF Lasts
    <3>2. count + 1 \in Nat
      BY <2>1
    <3> QED  BY <3>1, <3>2, TokenRound
  <2>7. DOMAIN text' = DOMAIN custom /\ \A i \in DOMAIN text' : text'[i] \in Tokens
    BY <2>2, <2>6 DEF PeeledAll
  <2>8. \A s \in {text', prev'} : DOMAIN s \subseteq DOMAIN custom /\ \A i \in DOMAIN s : s[i] \in Tokens
    BY <1>2, <1>3, <2>3, <2>7
  <2>9. TypeOK'
    BY <1>1, <1>4, <2>4, <2>8 DEF IInv, TypeOK
  <2> QED
    BY <1>1, <1>4, <2>5, <2>9 DEF IInv, ConfigInv, DrainInv
<1>5. CASE RefuseDescription \/ NewOrganizationService
  <2>1. phase' \in {"failed", "services"} /\ count' = count
    BY <1>5 DEF Refuse, Sanitize
  <2>2. OrgInv'
    BY <2>1 DEF OrgInv
  <2>3. \A s \in {text', prev'} : DOMAIN s \subseteq DOMAIN custom /\ \A i \in DOMAIN s : s[i] \in Tokens
    <3>1. CASE Refuse
      BY <1>3, <3>1 DEF Refuse
    <3>2. CASE Sanitize
      BY <1>3, <3>2 DEF Sanitize, sanitizeHTML
    <3> QED  BY <1>5, <3>1, <3>2
  <2>4. TypeOK'
    BY <1>1, <1>5, <2>1, <2>3 DEF IInv, TypeOK, Phases, Over, Booting
  <2>5. ConfigInv' /\ DrainInv'
    BY <1>1, <1>5, <2>1 DEF IInv, ConfigInv, DrainInv, Booting, Stopping
  <2> QED
    BY <2>2, <2>4, <2>5 DEF IInv
<1> QED
  BY <1>4, <1>5

\* What main does until it serves.
Boot ==
  \/ LoadConfig \/ InitMetrics \/ NewClient \/ EnableIntrospection \/ NewStore
  \/ Canonicalize \/ NewServices \/ LoadClientScopes \/ Notify

LEMMA BootInv == ASSUME IInv, Boot, ~ Canonicalize PROVE IInv'
<1> USE DEF IInv, Boot, LoadConfig, InitMetrics, NewClient, EnableIntrospection, NewStore,
            NewServices, LoadClientScopes, Notify
<1>1. TypeOK'
  <2>1. phase' \in Phases
    BY DEF Phases, Booting, Over
  <2>2. instruments' \in BOOLEAN
    BY DEF TypeOK, ConfigInv
  <2>3. sweeper' \in IF cfg.store = "cookie" THEN {"none", "running", "stopped"} ELSE {"none"}
    BY DEF TypeOK
  <2>4. refresher' \in {"none", "waiting", "loading", "stopped"}
    BY DEF TypeOK
  <2> QED
    BY <2>1, <2>2, <2>3, <2>4 DEF TypeOK
<1>2. ConfigInv'
  BY DEF ConfigInv, Booting
<1>3. DrainInv'
  BY DEF DrainInv, Stopping
<1>4. OrgInv'
  BY OrgInvLasts
<1> QED
  BY <1>1, <1>2, <1>3, <1>4

\* The listener, a signal and the requests; phase changes only to one in Over.
Traffic ==
  \/ Listen \/ ListenFails \/ ServerError \/ Signal \/ Export
  \/ \E r \in Requests : Begin(r) \/ End(r)

LEMMA TrafficInv == ASSUME IInv, Traffic PROVE IInv'
<1> USE DEF IInv, Traffic, Listen, ListenFails, ServerError, Signal, HandOver, Export, Begin, End
<1>1. TypeOK'
  <2>1. phase' \in Phases
    BY DEF TypeOK, Phases, Booting, Over
  <2>2. /\ active' \subseteq Requests /\ spans' \subseteq Requests /\ refused' \subseteq Requests
        /\ quit' \in BOOLEAN
    BY DEF TypeOK
  <2>3. listener' \in {"none", "bound", "failed", "closed"}
    BY DEF TypeOK
  <2>4. UNCHANGED <<cfg, instruments, deadline, hook, refresher, sweeper, done, organization>>
    OBVIOUS
  <2> QED
    BY <2>1, <2>2, <2>3, <2>4 DEF TypeOK
<1>2. ConfigInv'
  BY DEF ConfigInv, Booting
<1>3. DrainInv'
  BY DEF DrainInv, Stopping, Over, Booting
<1>4. OrgInv'
  BY OrgInvLasts DEF Over, Booting
<1> QED
  BY <1>1, <1>2, <1>3, <1>4

\* What main does after a signal.
Stop == Shutdown \/ Drained \/ MeterShutdown \/ TracerShutdown \/ Deadline

LEMMA StopInv == ASSUME IInv, Stop PROVE IInv'
<1> USE DEF IInv, Stop, Shutdown, Drained, MeterShutdown, TracerShutdown,
            HandOver, Deadline
<1>1. TypeOK'
  <2>1. phase' \in Phases
    BY DEF TypeOK, Phases, Stopping, Over
  <2>2. /\ spans' \subseteq Requests /\ refused' \subseteq Requests /\ active' \subseteq Requests
        /\ deadline' \in BOOLEAN
    BY DEF TypeOK
  <2>3. listener' \in {"none", "bound", "failed", "closed"} /\ hook' \in {"none", "spawned", "ran"}
    BY DEF TypeOK
  <2> QED
    BY <2>1, <2>2, <2>3 DEF TypeOK
<1>2. ConfigInv'
  BY DEF ConfigInv, Booting, Stopping
<1>3. DrainInv'
  BY DEF DrainInv, Stopping
<1>4. OrgInv'
  BY OrgInvLasts DEF Stopping
<1> QED
  BY <1>1, <1>2, <1>3, <1>4

\* The goroutines of the services, and the hooks that stop them.
Background == Hook \/ RefreshTick \/ RefreshLoaded \/ RefreshStops \/ SweepStops

LEMMA BackgroundInv == ASSUME IInv, Background \/ UNCHANGED vars PROVE IInv'
<1> USE DEF IInv, Background, vars, Hook, RefreshTick, RefreshLoaded, RefreshStops, SweepStops
<1>1. TypeOK'
  BY DEF TypeOK
<1>2. ConfigInv' /\ DrainInv'
  BY DEF ConfigInv, DrainInv, Stopping
<1>3. OrgInv'
  BY OrgInvLasts
<1> QED
  BY <1>1, <1>2, <1>3

\* Every step is of one of these kinds.
LEMMA StepKinds == [Next]_vars => Boot \/ Traffic \/ Stop \/ Background \/ UNCHANGED vars
  BY DEF Next, Main, Boot, Canonicalize, Traffic, Stop, Background

LEMMA Invariance == Spec => []IInv
<1>1. IInv /\ [Next]_vars => IInv'
  BY BootInv, CanonicalizeInv, TrafficInv, StopInv, BackgroundInv, StepKinds
<1> QED
  BY <1>1, InitInv, PTL DEF Spec

---------------------------------------------------------------------------
(* What follows from it. *)

\* Every variable keeps its type, for every configuration.
THEOREM TypeCorrect == Spec => []TypeOK
<1>1. IInv => TypeOK
  BY DEF IInv
<1> QED
  BY <1>1, Invariance, PTL

\* However many requests there are and however long they take, main returns
\* before one of them has ended only at the deadline.
THEOREM DrainIsComplete == Spec => []RequestsAreDrained
<1>1. IInv => RequestsAreDrained
  BY DEF IInv, DrainInv, RequestsAreDrained
<1> QED
  BY <1>1, Invariance, PTL

\* By then every span has been handed to the collector, which alone, refusing
\* it, can have lost it; only the deadline leaves one behind.
THEOREM TelemetryIsComplete == Spec => []SpansAreFlushed
<1>1. IInv => SpansAreFlushed
  BY DEF IInv, DrainInv, SpansAreFlushed
<1> QED
  BY <1>1, Invariance, PTL

\* No interval of zero, no ttl of zero with the cookie store, and metrics
\* enabled: a configuration that Validate lets pass does not panic then.
THEOREM StartsAndStops ==
  ASSUME "zero" \notin RefreshIntervals,
         "zero" \notin CacheTTLs \/ "cookie" \notin SessionStores,
         FALSE \notin MetricsEnabled
  PROVE  Spec => []AcceptedConfigWorks
<1>1. Init => AcceptedConfigWorks
  BY DEF Init, AcceptedConfigWorks
<1>2. IInv /\ AcceptedConfigWorks /\ [Next]_vars => AcceptedConfigWorks'
  <2> SUFFICES ASSUME IInv, AcceptedConfigWorks, [Next]_vars PROVE AcceptedConfigWorks'
    OBVIOUS
  <2>1. CASE Boot
    <3>1. phase = "introspection" => cfg.store # "cookie" \/ cfg.ttl = "positive"
      BY DEF IInv, ConfigInv, Booting, Valid, Signs
    <3>2. phase = "services" => cfg.interval = "positive"
      BY DEF IInv, ConfigInv, Booting, Valid, Signs
    <3>3. phase = "scopes" => instruments
      BY DEF IInv, ConfigInv, Booting
    <3>4. CASE Canonicalize
      BY <3>4 DEF Canonicalize, UnescapeDescription, RefuseDescription, NewOrganizationService,
                  AcceptedConfigWorks
    <3>5. CASE LoadConfig \/ InitMetrics \/ NewClient \/ EnableIntrospection
      BY <3>1, <3>5 DEF AcceptedConfigWorks, LoadConfig, InitMetrics, NewClient, EnableIntrospection
    <3>6. CASE NewStore \/ NewServices \/ LoadClientScopes \/ Notify
      BY <3>2, <3>3, <3>6 DEF AcceptedConfigWorks, NewStore, NewServices, LoadClientScopes, Notify
    <3> QED
      BY <2>1, <3>4, <3>5, <3>6 DEF Boot
  <2>2. CASE Traffic
    BY <2>2 DEF Traffic, AcceptedConfigWorks, Listen, ListenFails, ServerError, Signal, Export,
                Begin, End
  <2>3. CASE Stop
    BY <2>3 DEF Stop, AcceptedConfigWorks, Shutdown, Drained, MeterShutdown, TracerShutdown,
                Deadline
  <2>4. CASE Background \/ UNCHANGED vars
    BY <2>4 DEF Background, vars, AcceptedConfigWorks, Hook, RefreshTick, RefreshLoaded,
                RefreshStops, SweepStops
  <2> QED
    BY <2>1, <2>2, <2>3, <2>4, StepKinds
<1> QED
  BY <1>1, <1>2, Invariance, PTL DEF Spec

\* Which descriptions keep the program from starting, and what the page shows
\* of the others, for any description of any length.
THEOREM DescriptionSettled == Spec => DescriptionIsSettled
<1> DEFINE A == phase = "organization" /\ phase' \notin {"organization", "killed"} =>
                  IF Acceptable(custom)
                  THEN phase' = "services" /\ text' = sanitizeHTML(Canonical(custom))
                  ELSE phase' = "failed"
<1>1. IInv /\ [Next]_vars => [A]_vars
  <2> SUFFICES ASSUME IInv, [Next]_vars, phase = "organization", phase' \notin {"organization", "killed"}
               PROVE  IF Acceptable(custom)
                      THEN phase' = "services" /\ text' = sanitizeHTML(Canonical(custom))
                      ELSE phase' = "failed"
    OBVIOUS
  <2>1. /\ custom \in Descriptions /\ count \in 0 .. 11 /\ text = PeeledAll(custom, count)
        /\ prev = IF count = 0 THEN << >> ELSE PeeledAll(custom, count - 1)
        /\ Lasts(custom, count)
    BY DEF IInv, TypeOK, OrgInv
  <2>2. CASE RefuseDescription
    <3>1. ~ Acceptable(custom)
      <4>1. CASE UnescapeFails(text)
        BY <2>1, <4>1, OneError
      <4>2. CASE TooMany(count)
        <5>1. count = 11 /\ text # prev
          BY <2>1, <2>2, <4>2 DEF TooMany, RefuseDescription, Refuse
        <5>2. text = PeeledAll(custom, 11) /\ prev = PeeledAll(custom, 10)
          BY <2>1, <5>1
        <5> QED  BY <2>1, <5>1, <5>2, TenRounds
      <4> QED  BY <2>2, <4>1, <4>2 DEF RefuseDescription, Refuse
    <3> QED  BY <2>2, <3>1 DEF RefuseDescription
  <2>3. CASE NewOrganizationService
    <3>1. text = prev /\ text' = sanitizeHTML(text) /\ phase' = "services"
      BY <2>3 DEF NewOrganizationService, Sanitize
    <3>2. Acceptable(custom) /\ text = Canonical(custom)
      <4>1. CASE count = 0
        <5>1. custom = << >>
          BY <2>1, <3>1, <4>1, NoRound
        <5> QED  BY <2>1, <4>1, <5>1, NoRound, TenRounds DEF Acceptable, Canonical
      <4>2. CASE count # 0
        <5> DEFINE n == count - 1
        <5>1. n \in 0 .. 10 /\ n + 1 = count
          BY <2>1, <4>2
        <5>2. PeeledAll(custom, n + 1) = PeeledAll(custom, n) /\ Lasts(custom, n + 1)
          BY <2>1, <3>1, <4>2, <5>1
        <5> QED  BY <2>1, <5>1, <5>2, LastRound
      <4> QED  BY <4>1, <4>2
    <3> QED  BY <3>1, <3>2
  <2>4. CASE ~ RefuseDescription /\ ~ NewOrganizationService
    <3>1. phase' \in {"organization", "killed"}
      BY <2>4 DEF Next, Main, vars, LoadConfig, InitMetrics, NewClient, EnableIntrospection, NewStore,
           UnescapeDescription, NewServices, LoadClientScopes, Notify, ServerError, Shutdown, Drained,
           MeterShutdown, TracerShutdown, Listen, ListenFails, Signal, Deadline, Hook, Export, Begin,
           End, RefreshTick, RefreshLoaded, RefreshStops, SweepStops, Booting, Over
    <3> QED  BY <3>1
  <2> QED
    BY <2>2, <2>3, <2>4
<1> QED
  BY <1>1, Invariance, PTL DEF Spec, DescriptionIsSettled
=============================================================================
