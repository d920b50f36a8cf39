--------------------------- MODULE StartupProofs ----------------------------
(***************************************************************************)
(* What the start does with its settings and files, for every width of an  *)
(* integer and every file: the options of the store, the types of the      *)
(* providers, the publishers it builds, the durations it makes.            *)
(***************************************************************************)
EXTENDS Startup, FiniteSetTheorems, TLAPS

USE DEF Items

\* int64 arithmetic stays inside the int64.
LEMMA WrappedInRange ==
    ASSUME NEW n \in Int
    PROVE  Wrapped(n) \in Int
BY SettingsAssumption DEF Wrapped

\* A positive duration that fits an int64 comes out as it is.
LEMMA FitsIsKept ==
    ASSUME NEW count \in Int, NEW unit \in Nat \ {0}, count > 0, Fits(count, unit)
    PROVE  Duration(count, unit) = count * unit /\ Duration(count, unit) > 0
<1> DEFINE n == count * unit
<1>1. n \in Nat /\ n > 0 /\ n <= MaxInt64
    BY DEF Fits
<1> HIDE DEF n
<1>2. n + MaxInt64 + 1 \in 0..(2 * MaxInt64 + 1) /\ MaxInt64 \in Nat
    BY <1>1, SettingsAssumption
<1>3. (n + MaxInt64 + 1) % (2 * MaxInt64 + 2) = n + MaxInt64 + 1
    BY <1>2
<1>4. Wrapped(n) = n
    BY <1>1, <1>2, <1>3 DEF Wrapped
<1> QED BY <1>1, <1>4 DEF Duration, n

\* Cutting an instant to whole seconds leaves the second it is in.
LEMMA CutToSecond ==
    ASSUME NEW at \in 0..(Second - 1), NEW t \in Nat
    PROVE  (at + t * Second) \div Second = t
<1> DEFINE n == at + t * Second
           q == n \div Second
<1>1. Second \in Nat \ {0} /\ at \in Nat /\ at < Second
    BY SettingsAssumption
<1>2. n \in Nat /\ q \in Int /\ q * Second <= n /\ n < q * Second + Second
    BY <1>1
<1>3. t * Second <= n /\ n < t * Second + Second
    BY <1>1
<1> HIDE DEF n, q
<1>4. ASSUME q < t
      PROVE  FALSE
  <2>1. (q + 1) * Second <= t * Second
      BY <1>1, <1>2, <1>4
  <2> QED BY <1>1, <1>2, <1>3, <2>1
<1>5. ASSUME t < q
      PROVE  FALSE
  <2>1. (t + 1) * Second <= q * Second
      BY <1>1, <1>2, <1>5
  <2> QED BY <1>1, <1>2, <1>3, <2>1
<1> QED BY <1>2, <1>4, <1>5 DEF n, q

\* A mark may be over at once if its TTL is below a second, and only then.
LEMMA OverAtOnce ==
    ASSUME NEW ttl \in Int, ttl > 0
    PROVE  (\E at \in 0..(Second - 1) : MarkEnd(at, ttl) * Second <= at) <=> ttl < Second
<1>1. Second \in Nat \ {0}
    BY SettingsAssumption
<1>2. ASSUME ttl < Second
      PROVE  \E at \in 0..(Second - 1) : MarkEnd(at, ttl) * Second <= at
  <2>1. MarkEnd(0, ttl) = 0
      BY <1>1, <1>2 DEF MarkEnd
  <2> QED BY <1>1, <2>1
<1>3. ASSUME ~(ttl < Second), NEW at \in 0..(Second - 1), MarkEnd(at, ttl) * Second <= at
      PROVE  FALSE
  <2> DEFINE q == MarkEnd(at, ttl)
  <2>1. q \in Int /\ at + ttl < q * Second + Second
      BY <1>1 DEF MarkEnd
  <2>2. q * Second <= at /\ at < Second
      BY <1>1, <1>3
  <2> HIDE DEF q
  <2>3. q * Second > 0
      BY <1>1, <1>3, <2>1
  <2>4. q >= 1
      BY <1>1, <2>1, <2>3
  <2>5. q * Second >= Second
      BY <1>1, <2>1, <2>4
  <2> QED BY <1>1, <2>1, <2>2, <2>5
<1> QED BY <1>2, <1>3

\* What normalizeOptions makes of the durations of accepted settings.
LEMMA OptionsOfSettings ==
    ASSUME NEW c \in Config, Accepted(c)
    PROVE  LET o == StoreOptions(c)
               ttl == Duration(c.storageTTL, Second)
           IN  /\ o.ttl \in Int /\ o.ttl > 0
               /\ Fits(c.storageTTL, Second) => o.ttl = c.storageTTL * Second
               /\ Fits(c.storageCleanup, Second) => o.cleanup = c.storageCleanup * Second
               /\ o.ttl < Second <=> ttl \in 1..(Second - 1)
<1> DEFINE ttl == Duration(c.storageTTL, Second)
           cleanup == Duration(c.storageCleanup, Second)
<1>1. /\ c.storageTTL \in Int /\ c.storageTTL > 0
      /\ c.storageCleanup \in Int /\ c.storageCleanup > 0
      /\ Second \in Nat \ {0}
    BY SettingsAssumption DEF Config, Accepted
<1>2. c.storageTTL * Second \in Int /\ c.storageCleanup * Second \in Int
    BY <1>1
<1>3. ttl \in Int /\ cleanup \in Int
    BY <1>2, WrappedInRange DEF Duration
<1>4. Fits(c.storageTTL, Second) => ttl = c.storageTTL * Second /\ ttl > 0
    BY <1>1, FitsIsKept
<1>5. Fits(c.storageCleanup, Second) => cleanup = c.storageCleanup * Second /\ cleanup > 0
    BY <1>1, FitsIsKept
<1>6. StoreOptions(c) =
        [ttl |-> IF ttl <= 0 THEN DefaultArticleTTL ELSE ttl,
         cleanup |-> IF cleanup <= 0 THEN DefaultCleanupInterval ELSE cleanup]
    BY DEF StoreOptions, NormalizeOptions
<1>7. DefaultArticleTTL \in Int /\ DefaultArticleTTL >= Second
    BY <1>1, SettingsAssumption
<1> HIDE DEF ttl, cleanup
<1>8. /\ StoreOptions(c).ttl = IF ttl <= 0 THEN DefaultArticleTTL ELSE ttl
      /\ StoreOptions(c).cleanup = IF cleanup <= 0 THEN DefaultCleanupInterval ELSE cleanup
    BY <1>6
<1>9. /\ StoreOptions(c).ttl \in Int /\ StoreOptions(c).ttl > 0
      /\ Fits(c.storageTTL, Second) => StoreOptions(c).ttl = c.storageTTL * Second
      /\ StoreOptions(c).ttl < Second <=> ttl \in 1..(Second - 1)
    BY <1>1, <1>3, <1>4, <1>7, <1>8
<1>10. Fits(c.storageCleanup, Second) => StoreOptions(c).cleanup = c.storageCleanup * Second
    BY <1>3, <1>5, <1>8
<1> QED BY <1>9, <1>10 DEF ttl

\* The settings are checked before the store is opened with what becomes of
\* them, and both stay.
StoreInv ==
    /\ cfg \in Config
    /\ pc \notin {"config", "failed"} => Accepted(cfg)
    /\ store # "closed" => Accepted(cfg) /\ opts = StoreOptions(cfg)

\* The marks and cleanups of an open store are as long and as far apart as set,
\* and a mark is over at once only by a TTL that wraps around to less than a
\* second.
THEOREM TimesAsSet == Spec => []StoreTimesAsSet
<1>1. Init => StoreInv
    BY StartupAssumption DEF Init, StoreInv
<1>2. StoreInv /\ [Next]_vars => StoreInv'
  <2> SUFFICES ASSUME StoreInv, [Next]_vars
               PROVE  StoreInv'
      OBVIOUS
  <2>1. UNCHANGED cfg
      BY DEF Next, vars, files, LoadConfig, Unreadable, LoadProvider,
             ProvidersLoaded, LoadPublisher, PublishersLoaded, Enable, EnabledFound,
             Build, OpenStore, StartTicker, Done, Load
  <2>2. pc' \notin {"config", "failed"} => Accepted(cfg)
      BY DEF Next, vars, LoadConfig, Unreadable, LoadProvider, ProvidersLoaded, LoadPublisher,
             PublishersLoaded, Enable, EnabledFound, Build, OpenStore, StartTicker, Done, Load,
             Fail, StoreInv
  <2>3. store' # "closed" => Accepted(cfg) /\ opts' = StoreOptions(cfg)
    <3>1. CASE OpenStore
      <4>1. Accepted(cfg)
          BY <3>1 DEF OpenStore, StoreInv
      <4> QED BY <3>1, <4>1 DEF OpenStore, StoreInv
    <3>2. CASE ~OpenStore
      <4>1. UNCHANGED opts /\ (store' = store \/ store' = "closed")
          BY <3>2 DEF Next, vars, LoadConfig, Unreadable, LoadProvider, ProvidersLoaded,
                      LoadPublisher, PublishersLoaded, Enable, EnabledFound, Build,
                      StartTicker, Done, Load
      <4> QED BY <4>1 DEF StoreInv
    <3> QED BY <3>1, <3>2
  <2>4. Accepted(cfg)' = Accepted(cfg) /\ StoreOptions(cfg)' = StoreOptions(cfg)
      BY <2>1 DEF Accepted, StoreOptions, Duration
  <2> QED BY <2>1, <2>2, <2>3, <2>4 DEF StoreInv
<1>3. ASSUME StoreInv, store = "bbolt"
      PROVE  StoreTimesAsSet
  <2>1. cfg \in Config /\ Accepted(cfg) /\ opts = StoreOptions(cfg)
      BY <1>3 DEF StoreInv
  <2>2. /\ opts.ttl \in Int /\ opts.ttl > 0
        /\ Fits(cfg.storageTTL, Second) => opts.ttl = cfg.storageTTL * Second
        /\ Fits(cfg.storageCleanup, Second) => opts.cleanup = cfg.storageCleanup * Second
        /\ opts.ttl < Second <=> Duration(cfg.storageTTL, Second) \in 1..(Second - 1)
      BY <2>1, OptionsOfSettings
  <2>3. ASSUME Fits(cfg.storageTTL, Second), NEW at \in 0..(Second - 1)
        PROVE  MarkEnd(at, opts.ttl) = cfg.storageTTL
    <3>1. cfg.storageTTL \in Nat
        BY <2>1 DEF Config, Accepted
    <3> QED BY <2>2, <2>3, <3>1, CutToSecond DEF MarkEnd
  <2>4. (\E at \in 0..(Second - 1) : MarkEnd(at, opts.ttl) * Second <= at)
           <=> opts.ttl < Second
      BY <2>2, OverAtOnce
  <2> QED BY <2>2, <2>3, <2>4 DEF StoreTimesAsSet
<1>4. StoreInv => StoreTimesAsSet
    BY <1>3 DEF StoreTimesAsSet
<1> QED BY <1>1, <1>2, <1>4, PTL DEF Spec
-----------------------------------------------------------------------------
\* The three ways to clean a type agree on what sanitizeProvider leaves.
LEMMA SanitizedIsServed ==
    ASSUME NEW e \in Provider, ValidProvider(SanitizeProvider(e))
    PROVE  Served(SanitizeProvider(e)) <=> e.type.word = GoogleNews
<1> DEFINE t == [word |-> e.type.word, spaces |-> FALSE, capitals |-> FALSE]
<1>1. e.type \in TypeText
    BY DEF Provider
<1>2. ToLower(TrimSpace(e.type)) = t
    BY <1>1 DEF ToLower, TrimSpace, TypeText
<1>3. SanitizeProvider(e).type = t /\ SanitizeProvider(e).id = e.id
    BY <1>2 DEF SanitizeProvider, Provider
<1>4. ToLower(t) = t /\ TrimSpace(t) = t
    BY DEF ToLower, TrimSpace
<1>5. GoogleNews # Blank => FetcherTypes = {Written(GoogleNews)}
    BY DEF FetcherTypes, Registered, ToLower, TrimSpace, Written
<1>6. t = Written(GoogleNews) <=> e.type.word = GoogleNews
    BY DEF Written
<1>7. SanitizeProvider(e).id # Blank /\ SanitizeProvider(e).type.word # Blank
    BY DEF ValidProvider
<1>8. e.type.word # Blank
    BY <1>3, <1>7
<1> HIDE DEF t
<1>9. Accepts(SanitizeProvider(e)) <=> e.type.word = GoogleNews
    BY <1>3, <1>4, <1>6 DEF Accepts
<1>10. ASSUME e.type.word = GoogleNews
       PROVE  HasFetcher(SanitizeProvider(e))
  <2>1. FetcherTypes = {Written(GoogleNews)}
      BY <1>5, <1>8, <1>10
  <2> QED BY <2>1, <1>3, <1>4, <1>6, <1>7, <1>10 DEF HasFetcher
<1> QED BY <1>9, <1>10 DEF Served

\* list holds the first entries of the file, sanitized and valid.
Prefix(list, n) ==
    /\ list \in Seq(Provider)
    /\ Len(list) = n
    /\ n <= Len(provFile)
    /\ \A k \in 1..n :
          list[k] = SanitizeProvider(provFile[k]) /\ ValidProvider(list[k])

ProviderInv ==
    /\ provFile \in Seq(Provider)
    /\ idx \in Nat \ {0}
    /\ pc = "config" => idx = 1 /\ loaded = <<>>
    /\ pc = "providers" => Prefix(loaded, idx - 1)
    /\ pc \in {"publishers", "enabled", "build", "ready"} => Prefix(providers, Len(provFile))

LEMMA SanitizedType ==
    ASSUME NEW e \in Provider
    PROVE  SanitizeProvider(e) \in Provider
<1>1. ToLower(TrimSpace(e.type)) \in TypeText
    BY DEF Provider, TypeText, ToLower, TrimSpace
<1>2. OrDefault(e.delay, DefaultRequestDelayMs) \in Int
    BY SettingsAssumption DEF Provider, OrDefault
<1> QED BY <1>1, <1>2 DEF Provider, SanitizeProvider

LEMMA ProviderInvHolds == Spec => []ProviderInv
<1>1. Init => ProviderInv
    BY StartupAssumption DEF Init, ProviderInv
<1>2. ProviderInv /\ [Next]_vars => ProviderInv'
  <2> SUFFICES ASSUME ProviderInv, [Next]_vars
               PROVE  ProviderInv'
      OBVIOUS
  <2>1. CASE LoadConfig
      BY <2>1 DEF LoadConfig, Fail, files, ProviderInv, Prefix
  <2>2. CASE Unreadable
      BY <2>2 DEF Unreadable, Fail, files, ProviderInv, Prefix
  <2>3. CASE LoadProvider
    <3> DEFINE p == SanitizeProvider(provFile[idx])
    <3>1. pc = "providers" /\ idx <= Len(provFile) /\ Prefix(loaded, idx - 1)
        BY <2>3 DEF LoadProvider, ProviderInv
    <3>2. p \in Provider
        BY <3>1, SanitizedType DEF ProviderInv
    <3>3. Load(p, ValidProvider(p), "invalid provider")
        BY <2>3 DEF LoadProvider
    <3>4. UNCHANGED <<provFile, providers>>
        BY <3>3 DEF Load, files
    <3> HIDE DEF p
    <3>5. CASE pc' = "failed" /\ idx' = idx
        BY <3>4, <3>5 DEF ProviderInv
    <3>6. CASE ValidProvider(p) /\ loaded' = Append(loaded, p) /\ idx' = idx + 1 /\ pc' = pc
      <4>1. loaded \in Seq(Provider) /\ Len(loaded) = idx - 1 /\ idx \in 1..Len(provFile)
          BY <3>1 DEF ProviderInv, Prefix
      <4>2. loaded' \in Seq(Provider) /\ Len(loaded') = idx
          BY <3>2, <3>6, <4>1
      <4>3. \A k \in 1..idx : loaded'[k] = IF k = idx THEN p ELSE loaded[k]
          BY <3>2, <3>6, <4>1
      <4>4. \A k \in 1..idx :
               loaded'[k] = SanitizeProvider(provFile[k]) /\ ValidProvider(loaded'[k])
          BY <3>1, <3>6, <4>1, <4>3 DEF Prefix, p
      <4>5. Prefix(loaded, idx - 1)'
          BY <3>4, <3>6, <4>1, <4>2, <4>4 DEF Prefix
      <4> QED BY <3>1, <3>4, <3>6, <4>1, <4>5 DEF ProviderInv
    <3> QED BY <3>3, <3>5, <3>6 DEF Load, Fail
  <2>4. CASE ProvidersLoaded
      BY <2>4 DEF ProvidersLoaded, Fail, files, ProviderInv, Prefix
  <2>5. SUFFICES ASSUME ~LoadConfig, ~Unreadable, ~LoadProvider, ~ProvidersLoaded
                 PROVE  ProviderInv'
      BY <2>1, <2>2, <2>3, <2>4
  <2>6. UNCHANGED <<provFile, providers>>
      BY <2>5 DEF Next, LoadPublisher, Load, PublishersLoaded, Enable, EnabledFound,
                  Build, OpenStore, StartTicker, Done, vars, files
  <2>7. idx' = idx \/ idx' = 1 \/ idx' = idx + 1
      BY <2>5 DEF Next, LoadPublisher, Load, PublishersLoaded, Enable, EnabledFound,
                  Build, OpenStore, StartTicker, Done, vars
  <2>8. UNCHANGED <<provFile, providers>> /\ idx' \in Nat \ {0}
      BY <2>6, <2>7 DEF ProviderInv
  <2>9. UNCHANGED <<pc, idx, loaded>> \/ pc' \notin {"config", "providers"}
      BY <2>5 DEF Next, LoadPublisher, Load, PublishersLoaded, Enable, EnabledFound,
                  Build, OpenStore, StartTicker, Done, vars, Fail
  <2>10. pc' \in {"publishers", "enabled", "build", "ready"}
            => pc \in {"publishers", "enabled", "build", "ready"}
      BY <2>5 DEF Next, LoadPublisher, Load, PublishersLoaded, Enable, EnabledFound,
                  Build, OpenStore, StartTicker, Done, vars, Fail
  <2> QED BY <2>8, <2>9, <2>10 DEF ProviderInv, Prefix
<1> QED BY <1>1, <1>2, PTL DEF Spec

\* A harvester that started serves the providers of the type it knows.
THEOREM TypeDecides == Spec => []ServedByType
<1>1. ProviderInv => ServedByType
  <2> SUFFICES ASSUME ProviderInv, pc = "ready", NEW k \in DOMAIN provFile
               PROVE  Served(providers[k]) <=> provFile[k].type.word = GoogleNews
      BY DEF ServedByType
  <2>1. /\ provFile[k] \in Provider
        /\ providers[k] = SanitizeProvider(provFile[k])
        /\ ValidProvider(providers[k])
      BY DEF ProviderInv, Prefix
  <2> QED BY <2>1, SanitizedIsServed
<1> QED BY <1>1, ProviderInvHolds, PTL
-----------------------------------------------------------------------------
\* What sanitizePublisherConfig leaves of an entry.
LEMMA SanitizedPublisher ==
    ASSUME NEW e \in Publisher, envSet \in BOOLEAN
    PROVE  /\ Sanitize(e) \in Publisher
           /\ Sanitize(e).id = e.id
           /\ Sanitize(e).enabled = "yes" <=> e.enabled # "no"
           /\ Sanitize(e).timeout = OrDefault(e.timeout, HttpDefaultTimeoutSeconds)
<1>1. OrDefault(e.timeout, HttpDefaultTimeoutSeconds) \in Int
    BY SettingsAssumption DEF Publisher, OrDefault
<1>2. /\ e.enabled \in {"absent", "yes", "no"}
      /\ e.required \in Texts
    BY DEF Publisher
<1> QED BY <1>1, <1>2 DEF Publisher, Sanitize, Texts

\* loaded holds the first n entries of the file, sanitized, valid and told
\* apart by their ids.
Loaded(n) ==
    /\ loaded \in Seq(Publisher)
    /\ Len(loaded) = n
    /\ n <= Len(pubFile)
    /\ \A k \in 1..n : loaded[k] = Sanitize(pubFile[k]) /\ ValidPublisher(loaded[k])
    /\ \A k, l \in 1..n : loaded[k].id = loaded[l].id => k = l

\* list holds the entries at the first n places of from that are not turned
\* off: nothing else, all of them, in their order.
OnlyFrom(list, from, n) == \A j \in 1..Len(list) : \E m \in 1..n : list[j] = from[m]

AllOn(list, from, n) ==
    \A m \in 1..n : from[m].enabled = "yes" => \E j \in 1..Len(list) : list[j] = from[m]

InOrder(list, from, n) ==
    \A j, k \in 1..Len(list) : j < k =>
        \E l, m \in 1..n : l < m /\ list[j] = from[l] /\ list[k] = from[m]

Picked(list, from, n) ==
    OnlyFrom(list, from, n) /\ AllOn(list, from, n) /\ InOrder(list, from, n)

\* clients holds the ids of the first n of them.
Built(n) ==
    /\ Len(clients) = n
    /\ n <= Len(enabled)
    /\ \A k \in 1..n : clients[k] = enabled[k].id

PublisherTypes ==
    /\ pubFile \in Seq(Publisher)
    /\ envSet \in BOOLEAN
    /\ idx \in Nat \ {0}
    /\ enabled \in Seq(Publisher)
    /\ clients \in Seq(Ids)

\* Every publisher found is on, and has its variables.
On == \A j \in 1..Len(enabled) : enabled[j].enabled = "yes" /\ enabled[j].required = "given"

Progress ==
    /\ pc \in {"config", "providers", "publishers", "enabled"} => clients = <<>>
    /\ pc \in {"config", "providers", "publishers"} => enabled = <<>>
    /\ pc = "publishers" => Loaded(idx - 1)
    /\ pc \in {"enabled", "build", "ready"} => Loaded(Len(pubFile))
    /\ pc = "enabled" => idx - 1 <= Len(pubFile) /\ Picked(enabled, loaded, idx - 1)
    /\ pc \in {"build", "ready"} => Picked(enabled, loaded, Len(pubFile)) /\ enabled # <<>>
    /\ pc = "build" => Built(idx - 1)
    /\ pc = "ready" => Built(Len(enabled))
    /\ why # "no builder"

PublisherInv == PublisherTypes /\ On /\ Progress

LEMMA InitPublisherInv == Init => PublisherInv
<1> SUFFICES ASSUME Init PROVE PublisherInv
    OBVIOUS
<1>1. pubFile \in Seq(Publisher) /\ envSet \in BOOLEAN
    BY StartupAssumption DEF Init
<1> QED BY <1>1 DEF Init, PublisherInv, PublisherTypes, On, Progress

\* The entries loaded stay as they are.
LEMMA LoadedStays ==
    ASSUME NEW n \in Nat, Loaded(n), UNCHANGED <<pubFile, envSet, loaded>>
    PROVE  Loaded(n)'
<1>1. \A k \in 1..n : Sanitize(pubFile[k])' = Sanitize(pubFile[k])
    BY DEF Sanitize
<1> QED BY <1>1 DEF Loaded, ValidPublisher

\* The loop of LoadRegistry takes the next entry.
LEMMA LoadPublisherInv ==
    ASSUME PublisherInv, LoadPublisher
    PROVE  PublisherInv'
<1> USE DEF PublisherInv
<1> DEFINE e == Sanitize(pubFile[idx])
<1>1. pc = "publishers" /\ idx \in 1..Len(pubFile) /\ pubFile[idx] \in Publisher
  <2>1. pc = "publishers" /\ idx <= Len(pubFile)
      BY DEF LoadPublisher
  <2>2. pubFile \in Seq(Publisher) /\ idx \in Nat \ {0}
      BY DEF PublisherTypes
  <2>3. idx \in 1..Len(pubFile)
      BY <2>1, <2>2
  <2> QED BY <2>1, <2>2, <2>3
<1>2. Loaded(idx - 1) /\ enabled = <<>> /\ clients = <<>>
    BY <1>1 DEF Progress
<1>3. Load(e, ValidPublisher(e), "invalid publisher")
    BY DEF LoadPublisher
<1>4. e \in Publisher
    BY <1>1, SanitizedPublisher DEF PublisherTypes
<1>5. UNCHANGED <<pubFile, envSet, enabled, clients>>
    BY <1>3 DEF Load, files
<1>6. On'
    BY <1>5 DEF On
<1> HIDE DEF e
<1>7. CASE pc' = "failed" /\ idx' = idx /\ why' # "no builder"
    BY <1>5, <1>6, <1>7 DEF PublisherTypes, Progress
<1>8. CASE /\ ValidPublisher(e) /\ ~Known(e.id) /\ loaded' = Append(loaded, e)
           /\ idx' = idx + 1 /\ UNCHANGED <<pc, why>>
  <2>1. loaded \in Seq(Publisher) /\ Len(loaded) = idx - 1
      BY <1>2 DEF Loaded
  <2>2. loaded' \in Seq(Publisher) /\ Len(loaded') = idx
      BY <1>1, <1>4, <1>8, <2>1
  <2>3. \A k \in 1..idx : loaded'[k] = IF k = idx THEN e ELSE loaded[k]
      BY <1>1, <1>4, <1>8, <2>1
  <2>4. \A k \in 1..(idx - 1) : loaded[k].id # e.id
      BY <1>8, <2>1 DEF Known
  <2>5. \A k \in 1..idx : loaded'[k] = Sanitize(pubFile[k]) /\ ValidPublisher(loaded'[k])
      BY <1>1, <1>2, <1>8, <2>3 DEF Loaded, e
  <2>6. \A k, l \in 1..idx : loaded'[k].id = loaded'[l].id => k = l
      BY <1>1, <1>2, <2>3, <2>4 DEF Loaded
  <2>7. \A k \in 1..idx : Sanitize(pubFile[k])' = Sanitize(pubFile[k])
      BY <1>5 DEF Sanitize
  <2>8. Loaded(idx - 1)'
      BY <1>1, <1>5, <1>8, <2>2, <2>5, <2>6, <2>7 DEF Loaded, ValidPublisher
  <2>9. PublisherTypes'
      BY <1>1, <1>5, <1>8 DEF PublisherTypes
  <2>10. Progress'
      BY <1>1, <1>2, <1>5, <1>8, <2>8 DEF Progress
  <2> QED BY <1>6, <2>9, <2>10
<1> QED BY <1>3, <1>7, <1>8 DEF Load, Fail

\* An entry that is turned off changes nothing of what is picked.
LEMMA PickedSkips ==
    ASSUME NEW list, NEW from, NEW n \in Nat \ {0}, Picked(list, from, n - 1),
           from[n].enabled # "yes"
    PROVE  Picked(list, from, n)
<1>1. 1..(n - 1) \subseteq 1..n /\ \A m \in 1..n : m # n => m \in 1..(n - 1)
    OBVIOUS
<1>2. OnlyFrom(list, from, n)
    BY <1>1 DEF Picked, OnlyFrom
<1>3. AllOn(list, from, n)
    BY <1>1 DEF Picked, AllOn
<1>4. InOrder(list, from, n)
  <2> SUFFICES ASSUME NEW j \in 1..Len(list), NEW k \in 1..Len(list), j < k
               PROVE  \E l, m \in 1..n : l < m /\ list[j] = from[l] /\ list[k] = from[m]
      BY DEF InOrder
  <2>1. PICK l \in 1..(n - 1), m \in 1..(n - 1) :
           l < m /\ list[j] = from[l] /\ list[k] = from[m]
      BY DEF Picked, InOrder
  <2> QED BY <1>1, <2>1
<1> QED BY <1>2, <1>3, <1>4 DEF Picked

\* One that is on goes to the end.
LEMMA PickedAppends ==
    ASSUME NEW S, NEW list \in Seq(S), NEW from, NEW n \in Nat \ {0},
           Picked(list, from, n - 1), from[n] \in S
    PROVE  Picked(Append(list, from[n]), from, n)
<1> DEFINE new == Append(list, from[n])
           l == Len(list)
<1>1. 1..(n - 1) \subseteq 1..n /\ n \in 1..n /\ \A m \in 1..n : m # n => m \in 1..(n - 1)
    OBVIOUS
<1>2. l \in Nat /\ Len(new) = l + 1 /\ new[l + 1] = from[n]
    OBVIOUS
<1>3. \A j \in 1..l : new[j] = list[j]
    OBVIOUS
<1> HIDE DEF new
<1>4. \A j \in 1..Len(new) : j = l + 1 \/ j \in 1..l
    BY <1>2
<1>5. 1..l \subseteq 1..Len(new) /\ l + 1 \in 1..Len(new)
    BY <1>2
<1>6. OnlyFrom(new, from, n)
    BY <1>1, <1>2, <1>3, <1>4 DEF Picked, OnlyFrom
<1>7. AllOn(new, from, n)
  <2> SUFFICES ASSUME NEW m \in 1..n, from[m].enabled = "yes"
               PROVE  \E j \in 1..Len(new) : new[j] = from[m]
      BY DEF AllOn
  <2>1. CASE m = n
      BY <1>2, <1>5, <2>1
  <2>2. CASE m # n
    <3>1. PICK j \in 1..l : list[j] = from[m]
        BY <1>1, <2>2 DEF Picked, AllOn
    <3> QED BY <1>3, <1>5, <3>1
  <2> QED BY <2>1, <2>2
<1>8. InOrder(new, from, n)
  <2> SUFFICES ASSUME NEW j \in 1..Len(new), NEW k \in 1..Len(new), j < k
               PROVE  \E i, m \in 1..n : i < m /\ new[j] = from[i] /\ new[k] = from[m]
      BY DEF InOrder
  <2>1. j \in 1..l
      BY <1>2
  <2>2. CASE k = l + 1
    <3>1. PICK i \in 1..(n - 1) : list[j] = from[i]
        BY <2>1 DEF Picked, OnlyFrom
    <3>2. i < n /\ new[j] = from[i] /\ new[k] = from[n]
        BY <1>2, <1>3, <2>1, <2>2, <3>1
    <3> QED BY <1>1, <3>2
  <2>3. CASE k \in 1..l
    <3>1. PICK i \in 1..(n - 1), m \in 1..(n - 1) :
             i < m /\ list[j] = from[i] /\ list[k] = from[m]
        BY <2>1, <2>3 DEF Picked, InOrder
    <3>2. new[j] = from[i] /\ new[k] = from[m]
        BY <1>3, <2>1, <2>3, <3>1
    <3> QED BY <1>1, <3>1, <3>2
  <2> QED BY <1>4, <2>2, <2>3
<1> QED BY <1>6, <1>7, <1>8 DEF Picked, new

\* The loop of Enabled keeps what is not turned off.
LEMMA EnableInv ==
    ASSUME PublisherInv, Enable
    PROVE  PublisherInv'
<1> USE DEF PublisherInv
<1> DEFINE n == Len(pubFile)
           e == loaded[idx]
<1>1. /\ pc = "enabled" /\ idx <= Len(loaded) /\ idx' = idx + 1
      /\ UNCHANGED <<pubFile, envSet, loaded, clients, pc, why>>
    BY DEF Enable, files
<1>2. Loaded(n) /\ Picked(enabled, loaded, idx - 1) /\ clients = <<>> /\ why # "no builder"
    BY <1>1 DEF Progress
<1>3. loaded \in Seq(Publisher) /\ Len(loaded) = n
    BY <1>2 DEF Loaded
<1>4. n \in Nat /\ idx \in Nat \ {0} /\ enabled \in Seq(Publisher)
    BY <1>3 DEF PublisherTypes
<1>5. idx \in 1..n
    BY <1>1, <1>3, <1>4
<1>6. e \in Publisher
    BY <1>3, <1>5
<1>7. e.required = "given"
    BY <1>2, <1>5 DEF Loaded, ValidPublisher
<1> HIDE DEF n
<1>8. enabled' \in Seq(Publisher) /\ On' /\ Picked(enabled', loaded, idx)
  <2>1. CASE e.enabled # "yes"
    <3>1. enabled' = enabled
        BY <2>1 DEF Enable
    <3>2. Picked(enabled, loaded, idx)
        BY <1>2, <1>4, <2>1, PickedSkips
    <3> QED BY <1>4, <3>1, <3>2 DEF On
  <2>2. CASE e.enabled = "yes"
    <3>1. enabled' = Append(enabled, e)
        BY <2>2 DEF Enable
    <3>2. Picked(enabled', loaded, idx)
        BY <1>2, <1>4, <1>6, <3>1, PickedAppends
    <3> HIDE DEF e
    <3>3. enabled' \in Seq(Publisher)
        BY <1>4, <1>6, <3>1
    <3>4. \A j \in 1..Len(enabled') :
             enabled'[j] = e \/ (j \in 1..Len(enabled) /\ enabled'[j] = enabled[j])
        BY <1>4, <1>6, <3>1
    <3>5. On'
        BY <1>7, <2>2, <3>4 DEF On
    <3> QED BY <3>2, <3>3, <3>5
  <2> QED BY <2>1, <2>2
<1>9. Loaded(n)'
    BY <1>1, <1>2, <1>4, LoadedStays DEF n
<1>10. idx' \in Nat \ {0} /\ idx' - 1 = idx
    BY <1>1, <1>4
<1>11. PublisherTypes'
    BY <1>1, <1>8, <1>10 DEF PublisherTypes
<1>12. Picked(enabled, loaded, idx - 1)'
    BY <1>1, <1>8, <1>10
<1>13. Loaded(Len(pubFile))' /\ idx' - 1 <= Len(pubFile')
    BY <1>1, <1>5, <1>9, <1>10 DEF n
<1>14. Progress'
    BY <1>1, <1>2, <1>12, <1>13 DEF Progress
<1> QED BY <1>8, <1>11, <1>14

\* The registry of the publishers is complete, and Enabled begins.
LEMMA PublishersLoadedInv ==
    ASSUME PublisherInv, PublishersLoaded
    PROVE  PublisherInv'
<1> USE DEF PublisherInv
<1>1. /\ pc = "publishers" /\ idx > Len(pubFile) /\ idx' = 1
      /\ UNCHANGED <<pubFile, envSet, loaded, enabled, clients>>
      /\ \/ pc' = "failed" /\ why' = "empty"
         \/ pc' = "enabled" /\ UNCHANGED why
    BY DEF PublishersLoaded, files, Fail
<1>2. Loaded(idx - 1) /\ enabled = <<>> /\ clients = <<>>
    BY <1>1 DEF Progress
<1>3. Len(pubFile) \in Nat /\ idx - 1 = Len(pubFile)
    BY <1>1, <1>2 DEF Loaded, PublisherTypes
<1>4. Loaded(Len(pubFile))'
    BY <1>1, <1>2, <1>3, LoadedStays
<1>5. Picked(enabled, loaded, idx - 1)'
    BY <1>1, <1>2 DEF Picked, OnlyFrom, AllOn, InOrder
<1>6. idx' - 1 <= Len(pubFile')
    BY <1>1, <1>3
<1>7. PublisherTypes' /\ On'
    BY <1>1 DEF PublisherTypes, On
<1> QED BY <1>1, <1>2, <1>4, <1>5, <1>6, <1>7 DEF Progress

\* The entries that are on are all found, and BuildAll begins.
LEMMA EnabledFoundInv ==
    ASSUME PublisherInv, EnabledFound
    PROVE  PublisherInv'
<1> USE DEF PublisherInv
<1>1. /\ pc = "enabled" /\ idx > Len(loaded) /\ idx' = 1
      /\ UNCHANGED <<pubFile, envSet, loaded, enabled, clients>>
      /\ \/ pc' = "failed" /\ why' = "empty"
         \/ pc' = "build" /\ UNCHANGED why /\ enabled # <<>>
    BY DEF EnabledFound, files, Fail
<1>2. /\ Loaded(Len(pubFile)) /\ Picked(enabled, loaded, idx - 1) /\ clients = <<>>
      /\ idx - 1 <= Len(pubFile)
    BY <1>1 DEF Progress
<1>3. Len(pubFile) \in Nat /\ idx - 1 = Len(pubFile)
    BY <1>1, <1>2 DEF Loaded, PublisherTypes
<1>4. Loaded(Len(pubFile))'
    BY <1>1, <1>2, <1>3, LoadedStays
<1>5. Picked(enabled, loaded, Len(pubFile))'
    BY <1>1, <1>2, <1>3
<1>6. Built(idx - 1)'
    BY <1>1, <1>2 DEF Built, PublisherTypes
<1>7. PublisherTypes' /\ On'
    BY <1>1 DEF PublisherTypes, On
<1> QED BY <1>1, <1>2, <1>4, <1>5, <1>6, <1>7 DEF Progress

\* What is picked is what validatePublisherConfig let through.
LEMMA PickedIsValid ==
    ASSUME NEW n \in Nat, Loaded(n), Picked(enabled, loaded, n),
           NEW j \in 1..Len(enabled)
    PROVE  ValidPublisher(enabled[j])
BY DEF Loaded, Picked, OnlyFrom

\* BuildAll builds the next publisher: there is a builder for it.
LEMMA BuildInv ==
    ASSUME PublisherInv, Build
    PROVE  PublisherInv'
<1> USE DEF PublisherInv
<1> DEFINE e == enabled[idx]
<1>1. /\ pc = "build" /\ idx <= Len(enabled)
      /\ UNCHANGED <<pubFile, envSet, loaded, enabled>>
    BY DEF Build, files
<1>2. /\ Loaded(Len(pubFile)) /\ Picked(enabled, loaded, Len(pubFile))
      /\ enabled # <<>> /\ Built(idx - 1) /\ why # "no builder"
    BY <1>1 DEF Progress
<1>3. /\ Len(pubFile) \in Nat /\ idx \in 1..Len(enabled)
      /\ clients \in Seq(Ids) /\ e \in Publisher
    BY <1>1 DEF PublisherTypes
<1>4. ValidPublisher(e)
    BY <1>2, <1>3, PickedIsValid
<1>5. HasBuilder(e) /\ e.id \in Ids
    BY <1>3, <1>4 DEF ValidPublisher, HasBuilder, Publisher
<1>6. Loaded(Len(pubFile))' /\ Picked(enabled, loaded, Len(pubFile))' /\ On'
    BY <1>1, <1>2, <1>3, LoadedStays DEF On
<1>7. CASE pc' = "failed" /\ why' = "sdk" /\ UNCHANGED <<idx, clients>>
    BY <1>1, <1>6, <1>7 DEF PublisherTypes, Progress
<1>8. CASE clients' = Append(clients, e.id) /\ idx' = idx + 1 /\ UNCHANGED <<pc, why>>
  <2>1. Len(clients) = idx - 1 /\ \A k \in 1..(idx - 1) : clients[k] = enabled[k].id
      BY <1>2 DEF Built
  <2>2. clients' \in Seq(Ids) /\ Len(clients') = idx
      BY <1>3, <1>5, <1>8, <2>1
  <2>3. \A k \in 1..idx : clients'[k] = enabled[k].id
      BY <1>3, <1>5, <1>8, <2>1
  <2>4. idx' - 1 = idx /\ idx' \in Nat \ {0} /\ idx <= Len(enabled)
      BY <1>3, <1>8
  <2>5. Built(idx - 1)'
      BY <1>1, <2>2, <2>3, <2>4 DEF Built
  <2>6. PublisherTypes'
      BY <1>1, <2>2, <2>4 DEF PublisherTypes
  <2> QED BY <1>1, <1>2, <1>6, <1>8, <2>5, <2>6 DEF Progress
<1> QED BY <1>5, <1>7, <1>8 DEF Build, Fail

\* The publishers are built: NewStore, then the first crawl and the ticker.
LEMMA OpenStoreInv ==
    ASSUME PublisherInv, OpenStore
    PROVE  PublisherInv'
<1> USE DEF PublisherInv
<1>1. /\ pc = "build" /\ idx > Len(enabled)
      /\ UNCHANGED <<pubFile, envSet, idx, loaded, enabled, clients>>
      /\ \/ pc' = "ready" /\ UNCHANGED why
         \/ pc' = "failed" /\ why' = "store"
    BY DEF OpenStore, files, Fail
<1>2. /\ Loaded(Len(pubFile)) /\ Picked(enabled, loaded, Len(pubFile))
      /\ enabled # <<>> /\ Built(idx - 1) /\ why # "no builder"
    BY <1>1 DEF Progress
<1>3. Len(enabled) \in Nat /\ Len(pubFile) \in Nat /\ idx - 1 = Len(enabled)
  <2>1. Len(enabled) \in Nat /\ Len(pubFile) \in Nat /\ idx \in Nat
      BY DEF PublisherTypes
  <2>2. idx - 1 <= Len(enabled)
      BY <1>2 DEF Built
  <2> QED BY <1>1, <2>1, <2>2
<1>4. Loaded(Len(pubFile))' /\ Picked(enabled, loaded, Len(pubFile))' /\ On'
    BY <1>1, <1>2, <1>3, LoadedStays DEF On
<1>5. Built(Len(enabled))'
    BY <1>1, <1>2, <1>3 DEF Built
<1>6. PublisherTypes'
    BY <1>1 DEF PublisherTypes
<1> QED BY <1>1, <1>2, <1>4, <1>5, <1>6 DEF Progress

\* Every step of the start keeps PublisherInv.
LEMMA StepPublisherInv ==
    ASSUME PublisherInv, [Next]_vars
    PROVE  PublisherInv'
<1> USE DEF PublisherInv
<1>1. CASE LoadConfig \/ Unreadable \/ LoadProvider \/ ProvidersLoaded
  <2>1. UNCHANGED <<pubFile, envSet, enabled, clients>>
      BY <1>1 DEF LoadConfig, Unreadable, LoadProvider, ProvidersLoaded, Load, files
  <2>2. PublisherTypes' /\ On'
    <3>1. idx' = idx \/ idx' = 1 \/ idx' = idx + 1
        BY <1>1 DEF LoadConfig, Unreadable, LoadProvider, ProvidersLoaded, Load
    <3>2. idx \in Nat \ {0}
        BY DEF PublisherTypes
    <3>3. idx' \in Nat \ {0}
        BY <3>1, <3>2
    <3> QED BY <2>1, <3>3 DEF PublisherTypes, On
  <2>3. /\ pc \in {"config", "providers", "publishers"}
        /\ pc' \in {"failed", "providers", "publishers"}
        /\ why' = why \/ why' # "no builder"
      BY <1>1 DEF LoadConfig, Unreadable, LoadProvider, ProvidersLoaded, Load, Fail
  <2>4. pc' = "publishers" => idx' = 1 /\ loaded' = <<>>
      BY <1>1 DEF LoadConfig, Unreadable, LoadProvider, ProvidersLoaded, Load, Fail
  <2>5. pc' = "publishers" => Loaded(idx - 1)'
    <3> SUFFICES ASSUME pc' = "publishers" PROVE Loaded(idx - 1)'
        OBVIOUS
    <3>1. idx' - 1 = 0 /\ loaded' = <<>> /\ Len(pubFile') \in Nat
        BY <2>1, <2>4 DEF PublisherTypes
    <3> QED BY <3>1 DEF Loaded
  <2> QED BY <2>1, <2>2, <2>3, <2>5 DEF Progress
<1>2. CASE StartTicker
  <2>1. UNCHANGED <<pubFile, envSet, idx, loaded, enabled, clients, why>>
      BY <1>2 DEF StartTicker, files
  <2>2. pc' \in {"ticking", "panicked"}
      BY <1>2 DEF StartTicker
  <2> QED BY <2>1, <2>2 DEF PublisherTypes, On, Progress
<1>3. CASE UNCHANGED vars
  <2>1. UNCHANGED <<pubFile, envSet, idx, loaded, enabled, clients, pc, why>>
      BY <1>3 DEF vars
  <2>2. \A n \in Nat : Loaded(n) => Loaded(n)'
      BY <2>1, LoadedStays
  <2>3. Len(pubFile) \in Nat /\ idx - 1 \in Nat
      BY DEF PublisherTypes
  <2>4. \A n \in Nat : Built(n) => Built(n)'
      BY <2>1 DEF Built
  <2>5. Built(Len(enabled)) => Built(Len(enabled))'
      BY <2>1 DEF Built
  <2> QED BY <2>1, <2>2, <2>3, <2>4, <2>5 DEF PublisherTypes, On, Progress
<1> QED BY <1>1, <1>2, <1>3, LoadPublisherInv, PublishersLoadedInv, EnableInv,
           EnabledFoundInv, BuildInv, OpenStoreInv DEF Next, Done

LEMMA PublisherInvHolds == Spec => []PublisherInv
<1>1. PublisherInv /\ [Next]_vars => PublisherInv'
    BY StepPublisherInv
<1> QED BY <1>1, InitPublisherInv, PTL DEF Spec

\* No entry gets past validatePublisherConfig for which BuildAll has no builder.
THEOREM BuildersAgree == Spec => []ValidCanBeBuilt
<1>1. PublisherInv => ValidCanBeBuilt
    BY DEF PublisherInv, Progress, ValidCanBeBuilt
<1> QED BY <1>1, PublisherInvHolds, PTL

\* The publishers a harvester that is ready was built with.
LEMMA ReadyServes ==
    ASSUME PublisherInv, pc = "ready"
    PROVE  ReadyServesFile
<1> USE DEF PublisherInv
<1> DEFINE n == Len(pubFile)
           l == Len(enabled)
<1>1. Loaded(n) /\ Picked(enabled, loaded, n) /\ enabled # <<>> /\ Built(l)
    BY DEF Progress
<1>2. /\ pubFile \in Seq(Publisher) /\ enabled \in Seq(Publisher)
      /\ clients \in Seq(Ids) /\ envSet \in BOOLEAN
    BY DEF PublisherTypes
<1>3. /\ DOMAIN pubFile = 1..n /\ \A m \in 1..n : pubFile[m] \in Publisher
      /\ l \in Nat \ {0}
    BY <1>1, <1>2
<1>4. DOMAIN clients = 1..l /\ \A k \in 1..l : clients[k] = enabled[k].id
    BY <1>1, <1>2 DEF Built
<1>5. \A m \in 1..n : /\ loaded[m].id = pubFile[m].id
                      /\ loaded[m].enabled = "yes" <=> pubFile[m].enabled # "no"
    BY <1>1, <1>2, <1>3, SanitizedPublisher DEF Loaded
<1>6. \A k, m \in 1..n : pubFile[k].id = pubFile[m].id => k = m
    BY <1>1, <1>5 DEF Loaded
<1>7. \A j \in 1..l : \E m \in 1..n : enabled[j] = loaded[m] /\ loaded[m].enabled = "yes"
    BY <1>1 DEF Picked, OnlyFrom, On
<1> HIDE DEF n, l
<1>8. \A j \in 1..l : \E m \in 1..n : clients[j] = pubFile[m].id /\ pubFile[m].enabled # "no"
    BY <1>4, <1>5, <1>7
<1>9. \A m \in 1..n : pubFile[m].enabled # "no" => \E j \in 1..l : clients[j] = pubFile[m].id
  <2> SUFFICES ASSUME NEW m \in 1..n, pubFile[m].enabled # "no"
               PROVE  \E j \in 1..l : clients[j] = pubFile[m].id
      OBVIOUS
  <2>1. PICK j \in 1..l : enabled[j] = loaded[m]
      BY <1>1, <1>5 DEF Picked, AllOn, l
  <2> QED BY <1>4, <1>5, <2>1
<1>10. \A j, k \in 1..l : j < k =>
          \E i, m \in 1..n : i < m /\ pubFile[i].id = clients[j] /\ pubFile[m].id = clients[k]
  <2> SUFFICES ASSUME NEW j \in 1..l, NEW k \in 1..l, j < k
               PROVE  \E i, m \in 1..n :
                         i < m /\ pubFile[i].id = clients[j] /\ pubFile[m].id = clients[k]
      OBVIOUS
  <2>1. PICK i \in 1..n, m \in 1..n : i < m /\ enabled[j] = loaded[i] /\ enabled[k] = loaded[m]
      BY <1>1 DEF Picked, InOrder, l
  <2> QED BY <1>4, <1>5, <2>1
<1>11. \A j, k \in 1..l : clients[j] = clients[k] => j = k
  <2>1. \A j, k \in 1..l : j < k => clients[j] # clients[k]
    <3> SUFFICES ASSUME NEW j \in 1..l, NEW k \in 1..l, j < k, clients[j] = clients[k]
                 PROVE  FALSE
        OBVIOUS
    <3>1. PICK i \in 1..n, m \in 1..n :
             i < m /\ pubFile[i].id = clients[j] /\ pubFile[m].id = clients[k]
        BY <1>10
    <3>2. i = m
        BY <1>6, <3>1
    <3> QED BY <3>1, <3>2
  <2> SUFFICES ASSUME NEW j \in 1..l, NEW k \in 1..l, j # k
               PROVE  clients[j] # clients[k]
      OBVIOUS
  <2>2. j < k \/ k < j
      BY <1>3
  <2> QED BY <2>1, <2>2
<1>12. clients # <<>>
    BY <1>3, <1>4
<1>13. Items(clients) = {e.id : e \in {f \in Items(pubFile) : f.enabled # "no"}}
  <2>1. ASSUME NEW j \in 1..l
        PROVE  \E f \in Items(pubFile) : f.enabled # "no" /\ f.id = clients[j]
    <3>1. PICK m \in 1..n : clients[j] = pubFile[m].id /\ pubFile[m].enabled # "no"
        BY <1>8
    <3> QED BY <1>3, <3>1
  <2>2. ASSUME NEW f \in Items(pubFile), f.enabled # "no"
        PROVE  f.id \in Items(clients)
    <3>1. PICK m \in 1..n : f = pubFile[m]
        BY <1>3
    <3>2. PICK j \in 1..l : clients[j] = f.id
        BY <1>9, <2>2, <3>1
    <3> QED BY <1>4, <3>2
  <2> QED BY <1>4, <2>1, <2>2
<1>14. Cardinality(Items(clients)) = Len(clients)
  <2>1. clients \in Bijection(1..l, Items(clients))
    <3>1. clients \in [1..l -> Items(clients)]
        BY <1>2, <1>4
    <3>2. clients \in Injection(1..l, Items(clients))
        BY <1>11, <3>1 DEF Injection, IsInjective
    <3>3. clients \in Surjection(1..l, Items(clients))
        BY <1>4, <3>1 DEF Surjection
    <3> QED BY <3>2, <3>3 DEF Bijection
  <2>2. IsFiniteSet(1..l) /\ Cardinality(1..l) = l
      BY <1>3, FS_Interval
  <2>3. Cardinality(Items(clients)) = l
      BY <2>1, <2>2, FS_Bijection DEF ExistsBijection
  <2>4. Len(clients) = l
      BY <1>1 DEF Built, l
  <2> QED BY <2>3, <2>4
<1>15. \A j, k \in DOMAIN clients : j < k => \E i, m \in DOMAIN pubFile :
          i < m /\ pubFile[i].id = clients[j] /\ pubFile[m].id = clients[k]
  <2>1. DOMAIN pubFile = 1..n /\ DOMAIN clients = 1..l
      BY <1>3, <1>4
  <2> QED BY ONLY <2>1, <1>10
<1> USE DEF Items
<1> QED BY <1>12, <1>13, <1>14, <1>15, Zenon DEF ReadyServesFile

\* Each publisher of the file that is not turned off gets one client, in order.
THEOREM ServesTheFile == Spec => []ReadyServesFile
<1>1. PublisherInv => ReadyServesFile
    BY ReadyServes DEF ReadyServesFile
<1> QED BY <1>1, PublisherInvHolds, PTL
-----------------------------------------------------------------------------
\* The variables the two invariants above say nothing of.
Others ==
    /\ cfg \in Config
    /\ pc \in {"config", "providers", "publishers", "enabled", "build", "ready",
               "ticking", "panicked", "failed"}
    /\ loaded \in Seq(Provider) \cup Seq(Publisher)
    /\ providers \in Seq(Provider)
    /\ store \in {"closed", "noop", "bbolt"}
    /\ opts \in [ttl : Int, cleanup : Int]
    /\ why \in {"none", "config", "unreadable", "invalid provider", "invalid publisher",
                "duplicate", "empty", "no builder", "sdk", "store"}

LEMMA StoreOptionsType ==
    ASSUME NEW c \in Config
    PROVE  StoreOptions(c) \in [ttl : Int, cleanup : Int]
<1>1. c.storageTTL * Second \in Int /\ c.storageCleanup * Second \in Int
    BY SettingsAssumption DEF Config
<1>2. Duration(c.storageTTL, Second) \in Int /\ Duration(c.storageCleanup, Second) \in Int
    BY <1>1, WrappedInRange DEF Duration
<1>3. DefaultArticleTTL \in Int /\ DefaultCleanupInterval \in Int
    BY SettingsAssumption
<1> QED BY <1>2, <1>3 DEF StoreOptions, NormalizeOptions

\* Every variable keeps its type.
THEOREM TypeCorrect == Spec => []TypeOK
<1>1. Init => Others
    BY StartupAssumption DEF Init, Others
<1>2. ASSUME Others, ProviderInv, PublisherInv, [Next]_vars
      PROVE  Others'
  <2>1. CASE LoadProvider
    <3>1. pc = "providers" /\ idx <= Len(provFile) /\ Prefix(loaded, idx - 1)
        BY <1>2, <2>1 DEF LoadProvider, ProviderInv
    <3>2. provFile[idx] \in Provider /\ loaded \in Seq(Provider)
        BY <1>2, <3>1 DEF ProviderInv, Prefix
    <3>3. SanitizeProvider(provFile[idx]) \in Provider
        BY <3>2, SanitizedType
    <3>4. loaded' = loaded \/ loaded' = Append(loaded, SanitizeProvider(provFile[idx]))
        BY <2>1 DEF LoadProvider, Load
    <3>5. loaded' \in Seq(Provider)
        BY <3>2, <3>3, <3>4
    <3> QED BY <1>2, <2>1, <3>5 DEF LoadProvider, Load, Fail, files, Others
  <2>2. CASE LoadPublisher
    <3>1. pc = "publishers" /\ idx <= Len(pubFile) /\ Loaded(idx - 1)
        BY <1>2, <2>2 DEF LoadPublisher, PublisherInv, Progress
    <3>2. pubFile[idx] \in Publisher /\ loaded \in Seq(Publisher) /\ envSet \in BOOLEAN
        BY <1>2, <3>1 DEF PublisherInv, PublisherTypes, Loaded
    <3>3. Sanitize(pubFile[idx]) \in Publisher
        BY <3>2, SanitizedPublisher
    <3>4. loaded' = loaded \/ loaded' = Append(loaded, Sanitize(pubFile[idx]))
        BY <2>2 DEF LoadPublisher, Load
    <3>5. loaded' \in Seq(Publisher)
        BY <3>2, <3>3, <3>4
    <3> QED BY <1>2, <2>2, <3>5 DEF LoadPublisher, Load, Fail, files, Others
  <2>3. CASE ProvidersLoaded
    <3>1. loaded \in Seq(Provider)
        BY <1>2, <2>3 DEF ProvidersLoaded, ProviderInv, Prefix
    <3>2. loaded' = <<>> /\ providers' = loaded
        BY <2>3 DEF ProvidersLoaded
    <3>3. loaded' \in Seq(Provider)
        BY <3>2
    <3> QED BY <1>2, <2>3, <3>1, <3>2, <3>3 DEF ProvidersLoaded, Fail, files, Others
  <2>4. CASE OpenStore
    <3>1. opts' \in [ttl : Int, cleanup : Int]
        BY <1>2, <2>4, StoreOptionsType DEF OpenStore, Others
    <3> QED BY <1>2, <2>4, <3>1 DEF OpenStore, Fail, files, Others
  <2>5. CASE LoadConfig \/ Unreadable \/ PublishersLoaded \/ Enable \/ EnabledFound
             \/ Build \/ StartTicker \/ UNCHANGED vars
      BY <1>2, <2>5 DEF LoadConfig, Unreadable, PublishersLoaded, Enable, EnabledFound,
                        Build, StartTicker, vars, Fail, files, Others
  <2> QED BY <1>2, <2>1, <2>2, <2>3, <2>4, <2>5 DEF Next, Done
<1>3. Others /\ PublisherInv => TypeOK
  <2> SUFFICES ASSUME Others, PublisherInv PROVE TypeOK
      OBVIOUS
  <2>1. /\ idx \in Nat \ {0} /\ enabled \in Seq(Publisher) /\ clients \in Seq(Ids)
        /\ \A e \in Items(enabled) : e.enabled = "yes" /\ e.required = "given"
      BY DEF PublisherInv, PublisherTypes, On
  <2> QED BY <2>1 DEF Others, TypeOK
<1> QED BY <1>1, <1>2, <1>3, ProviderInvHolds, PublisherInvHolds, PTL DEF Spec
-----------------------------------------------------------------------------
\* Past config.Load the settings are positive, and only an interval that is not
\* makes the ticker panic.
Positive ==
    /\ cfg \in Config
    /\ pc \notin {"config", "failed"} => Accepted(cfg)
    /\ pc = "panicked" => ~(Duration(cfg.crawlInterval, Second) > 0)

\* What is waited for is positive, or does not fit an int64 of nanoseconds.
THEOREM WaitsAreFinite == Spec => []WaitsUnlessTooLong
<1>1. Init => Positive
    BY StartupAssumption DEF Init, Positive
<1>2. Positive /\ [Next]_vars => Positive'
  <2> SUFFICES ASSUME Positive, [Next]_vars
               PROVE  Positive'
      OBVIOUS
  <2>1. UNCHANGED cfg
      BY DEF Next, vars, files, LoadConfig, Unreadable, LoadProvider, ProvidersLoaded,
             LoadPublisher, PublishersLoaded, Enable, EnabledFound, Build, OpenStore,
             StartTicker, Done, Load
  <2>2. pc' \notin {"config", "failed"} => Accepted(cfg)
      BY DEF Next, vars, LoadConfig, Unreadable, LoadProvider, ProvidersLoaded, LoadPublisher,
             PublishersLoaded, Enable, EnabledFound, Build, OpenStore, StartTicker, Done, Load,
             Fail, Positive
  <2>3. pc' = "panicked" => pc = "panicked" \/ ~(Duration(cfg.crawlInterval, Second) > 0)
      BY DEF Next, vars, LoadConfig, Unreadable, LoadProvider, ProvidersLoaded, LoadPublisher,
             PublishersLoaded, Enable, EnabledFound, Build, OpenStore, StartTicker, Done, Load,
             Fail
  <2> QED BY <2>1, <2>2, <2>3 DEF Positive
<1>3. ASSUME Positive, pc = "panicked"
      PROVE  ~Fits(cfg.crawlInterval, Second)
  <2>1. cfg.crawlInterval \in Int /\ cfg.crawlInterval > 0
      BY <1>3 DEF Positive, Accepted, Config
  <2>2. ~(Duration(cfg.crawlInterval, Second) > 0)
      BY <1>3 DEF Positive
  <2> QED BY <2>1, <2>2, FitsIsKept, SettingsAssumption
<1>4. ASSUME ProviderInv, pc = "ready", NEW p \in Items(providers), RequestDelay(p.delay) <= 0
      PROVE  ~Fits(p.delay, Millisecond)
  <2>1. PICK k \in 1..Len(provFile) : p = SanitizeProvider(provFile[k])
      BY <1>4 DEF ProviderInv, Prefix
  <2>2. provFile[k] \in Provider
      BY <1>4 DEF ProviderInv
  <2>3. p.delay = OrDefault(provFile[k].delay, DefaultRequestDelayMs)
      BY <2>1, <2>2 DEF SanitizeProvider, Provider
  <2>4. p.delay \in Int /\ p.delay > 0
      BY <2>2, <2>3, SettingsAssumption DEF OrDefault, Provider
  <2>5. RequestDelay(p.delay) = Duration(p.delay, Millisecond)
      BY <2>4 DEF RequestDelay, OrDefault
  <2>6. ~(Duration(p.delay, Millisecond) > 0)
    <3>1. p.delay * Millisecond \in Int
        BY <2>4, SettingsAssumption
    <3>2. Duration(p.delay, Millisecond) \in Int
        BY <3>1, WrappedInRange DEF Duration
    <3> QED BY <1>4, <2>5, <3>2
  <2> QED BY <2>4, <2>6, FitsIsKept, SettingsAssumption
<1>5. ASSUME PublisherInv, pc = "ready", NEW e \in Items(enabled), HttpTimeout(e.timeout) <= 0
      PROVE  ~Fits(e.timeout, Second)
  <2>1. /\ Loaded(Len(pubFile)) /\ Picked(enabled, loaded, Len(pubFile))
        /\ pubFile \in Seq(Publisher) /\ enabled \in Seq(Publisher) /\ envSet \in BOOLEAN
      BY <1>5 DEF PublisherInv, PublisherTypes, Progress
  <2>2. PICK j \in 1..Len(enabled) : e = enabled[j]
      BY <2>1
  <2>3. PICK m \in 1..Len(pubFile) : e = Sanitize(pubFile[m])
      BY <2>1, <2>2 DEF Loaded, Picked, OnlyFrom
  <2>4. pubFile[m] \in Publisher
      BY <2>1
  <2>5. e.timeout = OrDefault(pubFile[m].timeout, HttpDefaultTimeoutSeconds)
      BY <2>1, <2>3, <2>4, SanitizedPublisher
  <2>6. e.timeout \in Int /\ e.timeout > 0
      BY <2>4, <2>5, SettingsAssumption DEF OrDefault, Publisher
  <2>7. ~(Duration(e.timeout, Second) > 0)
    <3>1. e.timeout * Second \in Int
        BY <2>6, SettingsAssumption
    <3>2. Duration(e.timeout, Second) \in Int
        BY <3>1, WrappedInRange DEF Duration
    <3> QED BY <1>5, <3>2 DEF HttpTimeout
  <2> QED BY <2>6, <2>7, FitsIsKept, SettingsAssumption
<1>6. Positive /\ ProviderInv /\ PublisherInv => WaitsUnlessTooLong
    BY <1>3, <1>4, <1>5 DEF WaitsUnlessTooLong
<1> QED BY <1>1, <1>2, <1>6, ProviderInvHolds, PublisherInvHolds, PTL DEF Spec
=============================================================================
