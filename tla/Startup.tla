------------------------------ MODULE Startup -------------------------------
(***************************************************************************)
(* config.Load, NewHarvester (internal/app/harvester.go) and the ticker of *)
(* Run: check the settings, load the provider registry and the publisher   *)
(* registry, build a client for every enabled publisher, open the store,   *)
(* start the loop.  Any error ends the process.                            *)
(*                                                                         *)
(* A file is the list of its entries.  Ids and required texts are taken up *)
(* to the spaces around them, which both sanitize functions remove, so     *)
(* that two ids that differ in spaces only are the same id here; so are    *)
(* the words of a publisher's entry up to case.  Blank is a text with      *)
(* nothing else.                                                           *)
(***************************************************************************)
EXTENDS Settings, Fetchers, Sequences, FiniteSets

CONSTANTS
    Ids,        \* ids of providers and publishers
    Inputs      \* the settings and files there may be

Texts == {"given", "env", "blank"}  \* in a file; "env" is a ${VARIABLE}

Provider ==
    [id : Ids \cup {Blank}, type : TypeText, delay : Int, required : {"given", "blank"}]

Publisher ==
    [id : Ids \cup {Blank},
     type : {"queue", "http", "other", Blank},
     provider : {"aws-sqs", "aws-sns", "gcp", "azure", "other"},
     enabled : {"absent", "yes", "no"},
     block : BOOLEAN,       \* its http block, or its provider's block, is there
     timeout : Int,         \* of its http block
     required : Texts]      \* the fields validate asks for in that block

ASSUME StartupAssumption ==
    /\ Blank \notin Ids
    /\ \A in \in Inputs :
          /\ in.cfg \in Config
          /\ in.provFile \in Seq(Provider)
          /\ in.pubFile \in Seq(Publisher)
          /\ in.envSet \in BOOLEAN

VARIABLES
    cfg,                \* the configuration, in seconds
    provFile, pubFile,  \* the two files
    envSet,             \* the variables that the publisher file names are set
    pc,                 \* the step the start is at
    idx,                \* the index its loop is at
    loaded,             \* the entries of the registry being loaded
    enabled,            \* the publishers its Enabled has found so far
    providers,          \* the provider registry, once it is loaded
    clients,            \* the ids of the publishers built
    store,              \* "closed", "noop" or "bbolt"
    opts,               \* the options of the store
    why                 \* "none", or the error returned

vars == <<cfg, provFile, pubFile, envSet, pc, idx, loaded, enabled, providers,
          clients, store, opts, why>>

files == <<cfg, provFile, pubFile, envSet>>

Items(s) == {s[k] : k \in DOMAIN s}

\* The index of the registry being loaded has the id.
Known(id) == \E e \in Items(loaded) : e.id = id

Fail(reason) == pc' = "failed" /\ why' = reason
-----------------------------------------------------------------------------
Init ==
    /\ \E in \in Inputs :
          /\ cfg = in.cfg
          /\ provFile = in.provFile
          /\ pubFile = in.pubFile
          /\ envSet = in.envSet
    /\ pc = "config"
    /\ idx = 1
    /\ loaded = <<>>
    /\ enabled = <<>>
    /\ providers = <<>>
    /\ clients = <<>>
    /\ store = "closed"
    /\ opts = [ttl |-> 0, cleanup |-> 0]
    /\ why = "none"

\* config.Load: a setting that is no number, or one that is not positive.
LoadConfig ==
    /\ pc = "config"
    /\ \/ Fail("config")
       \/ Accepted(cfg) /\ pc' = "providers" /\ UNCHANGED why
    /\ UNCHANGED <<files, idx, loaded, enabled, providers, clients, store, opts>>

\* Either registry file is missing, or neither YAML nor JSON.
Unreadable ==
    /\ pc \in {"providers", "publishers"}
    /\ idx = 1
    /\ Fail("unreadable")
    /\ UNCHANGED <<files, idx, loaded, enabled, providers, clients, store, opts>>

\* Mutant: the type is lowered, and not trimmed.
SanitizeProviderLowers(p) ==
    [p EXCEPT !.type = ToLower(@), !.delay = OrDefault(@, DefaultRequestDelayMs)]

\* sanitizeProvider
SanitizeProvider(p) ==
    [p EXCEPT !.type = ToLower(TrimSpace(@)),
              !.delay = OrDefault(@, DefaultRequestDelayMs)]

\* validateProvider; no one asks whether the type has a fetcher.
ValidProvider(p) == p.id # Blank /\ p.type.word # Blank /\ p.required = "given"

\* The loop of either LoadRegistry over its entries.
Load(e, valid, reason) ==
    /\ \/ ~valid /\ Fail(reason) /\ UNCHANGED <<idx, loaded>>
       \/ valid /\ Known(e.id) /\ Fail("duplicate") /\ UNCHANGED <<idx, loaded>>
       \/ /\ valid
          /\ ~Known(e.id)
          /\ loaded' = Append(loaded, e)
          /\ idx' = idx + 1
          /\ UNCHANGED <<pc, why>>
    /\ UNCHANGED <<files, enabled, providers, clients, store, opts>>

LoadProvider ==
    /\ pc = "providers"
    /\ idx <= Len(provFile)
    /\ LET p == SanitizeProvider(provFile[idx])
       IN  Load(p, ValidProvider(p), "invalid provider")

\* An empty file is an error; else the providers are complete.
ProvidersLoaded ==
    /\ pc = "providers"
    /\ idx > Len(provFile)
    /\ IF provFile = <<>> THEN Fail("empty") ELSE pc' = "publishers" /\ UNCHANGED why
    /\ idx' = 1
    /\ providers' = loaded
    /\ loaded' = <<>>
    /\ UNCHANGED <<files, enabled, clients, store, opts>>

\* os.ExpandEnv, then sanitizePublisherConfig.
Sanitize(e) ==
    [e EXCEPT !.enabled = IF @ = "absent" THEN "yes" ELSE @,
              !.timeout = OrDefault(@, HttpDefaultTimeoutSeconds),
              !.required = IF @ = "env" THEN (IF envSet THEN "given" ELSE "blank") ELSE @]

\* Mutant: a queue provider is checked for the settings it has, no more.
ValidPublisherAzure(e) ==
    /\ e.id # Blank
    /\ e.type \in {"queue", "http"}
    /\ e.type = "queue" => e.provider # "other"
    /\ e.block
    /\ e.required = "given"

\* validatePublisherConfig
ValidPublisher(e) ==
    /\ e.id # Blank
    /\ e.type \in {"queue", "http"}
    /\ e.type = "queue" => e.provider \in {"aws-sqs", "aws-sns", "gcp"}
    /\ e.block
    /\ e.required = "given"

\* Mutant: the entry is checked as sanitized and kept as read.
LoadPublisherRaw ==
    /\ pc = "publishers"
    /\ idx <= Len(pubFile)
    /\ Load(pubFile[idx], ValidPublisher(Sanitize(pubFile[idx])), "invalid publisher")

LoadPublisher ==
    /\ pc = "publishers"
    /\ idx <= Len(pubFile)
    /\ LET e == Sanitize(pubFile[idx])
       IN  Load(e, ValidPublisher(e), "invalid publisher")

\* An empty file is an error; else Enabled looks through the entries.
PublishersLoaded ==
    /\ pc = "publishers"
    /\ idx > Len(pubFile)
    /\ IF pubFile = <<>> THEN Fail("empty") ELSE pc' = "enabled" /\ UNCHANGED why
    /\ idx' = 1
    /\ UNCHANGED <<files, loaded, enabled, providers, clients, store, opts>>

\* The loop of Enabled leaves out the disabled entries.
Enable ==
    /\ pc = "enabled"
    /\ idx <= Len(loaded)
    /\ enabled' = IF loaded[idx].enabled = "yes" THEN Append(enabled, loaded[idx])
                                                ELSE enabled
    /\ idx' = idx + 1
    /\ UNCHANGED <<files, pc, loaded, providers, clients, store, opts, why>>

\* NewHarvester wants one publisher at least.
EnabledFound ==
    /\ pc = "enabled"
    /\ idx > Len(loaded)
    /\ IF enabled = <<>> THEN Fail("empty") ELSE pc' = "build" /\ UNCHANGED why
    /\ idx' = 1
    /\ UNCHANGED <<files, loaded, enabled, providers, clients, store, opts>>

\* What a builder of DefaultRegistry asks for again.
HasBuilder(e) ==
    /\ e.type \in {"queue", "http"}
    /\ e.type = "queue" => e.provider \in {"aws-sqs", "aws-sns", "gcp"}
    /\ e.block

\* Mutant: a publisher that cannot be built is left out.
BuildSkips ==
    /\ pc = "build"
    /\ idx <= Len(enabled)
    /\ \E sdkFails \in {FALSE, enabled[idx].type = "queue"} :
         clients' = IF sdkFails THEN clients ELSE Append(clients, enabled[idx].id)
    /\ idx' = idx + 1
    /\ UNCHANGED <<files, pc, loaded, enabled, providers, store, opts, why>>

\* BuildAll builds the next publisher; the SDK of a queue may refuse.
Build ==
    /\ pc = "build"
    /\ idx <= Len(enabled)
    /\ \/ ~HasBuilder(enabled[idx]) /\ Fail("no builder") /\ UNCHANGED <<idx, clients>>
       \/ HasBuilder(enabled[idx]) /\ enabled[idx].type = "queue"
            /\ Fail("sdk") /\ UNCHANGED <<idx, clients>>
       \/ /\ HasBuilder(enabled[idx])
          /\ clients' = Append(clients, enabled[idx].id)
          /\ idx' = idx + 1
          /\ UNCHANGED <<pc, why>>
    /\ UNCHANGED <<files, loaded, enabled, providers, store, opts>>

\* NewStore: bbolt may fail to open, and another name is an error.
OpenStore ==
    /\ pc = "build"
    /\ idx > Len(enabled)
    /\ \/ /\ cfg.storageType # "other"
          /\ store' = IF cfg.storageType = "none" THEN "noop" ELSE "bbolt"
          /\ opts' = StoreOptions(cfg)
          /\ pc' = "ready"
          /\ UNCHANGED why
       \/ cfg.storageType # "none" /\ Fail("store") /\ UNCHANGED <<store, opts>>
    /\ UNCHANGED <<files, idx, loaded, enabled, providers, clients>>

\* Run, after its first crawl: NewTicker panics on an interval that is not
\* positive, and the deferred closeStore runs.
StartTicker ==
    /\ pc = "ready"
    /\ IF Duration(cfg.crawlInterval, Second) > 0
       THEN pc' = "ticking" /\ UNCHANGED store
       ELSE pc' = "panicked" /\ store' = "closed"
    /\ UNCHANGED <<files, idx, loaded, enabled, providers, clients, opts, why>>

Done ==
    /\ pc \in {"ticking", "panicked", "failed"}
    /\ UNCHANGED vars

Next ==
    \/ LoadConfig
    \/ Unreadable
    \/ LoadProvider
    \/ ProvidersLoaded
    \/ LoadPublisher
    \/ PublishersLoaded
    \/ Enable
    \/ EnabledFound
    \/ Build
    \/ OpenStore
    \/ StartTicker
    \/ Done

Spec == Init /\ [][Next]_vars
-----------------------------------------------------------------------------
(***************************************************************************)
(* Types.  What a builder gets has its defaults and its variables.         *)
(***************************************************************************)
TypeOK ==
    /\ pc \in {"config", "providers", "publishers", "enabled", "build", "ready",
              "ticking", "panicked", "failed"}
    /\ idx \in Nat \ {0}
    /\ loaded \in Seq(Provider) \cup Seq(Publisher)
    /\ enabled \in Seq(Publisher)
    /\ \A e \in Items(enabled) : e.enabled = "yes" /\ e.required = "given"
    /\ providers \in Seq(Provider)
    /\ clients \in Seq(Ids)
    /\ store \in {"closed", "noop", "bbolt"}
    /\ opts \in [ttl : Int, cleanup : Int]
    /\ why \in {"none", "config", "unreadable", "invalid provider", "invalid publisher",
                "duplicate", "empty", "no builder", "sdk", "store"}

\* A harvester that is ready sends to the publishers its file does not turn
\* off, to each of them once, in the order of the file, and to one at least.
ReadyServesFile ==
    pc = "ready" =>
        /\ clients # <<>>
        /\ Items(clients) = {e.id : e \in {f \in Items(pubFile) : f.enabled # "no"}}
        /\ \A j, k \in DOMAIN clients : j < k =>
              \E m, n \in DOMAIN pubFile :
                  m < n /\ pubFile[m].id = clients[j] /\ pubFile[n].id = clients[k]
        /\ Cardinality(Items(clients)) = Len(clients)

\* Validation and the builders agree: no entry gets past the first for which
\* the second has nothing to build.
ValidCanBeBuilt == why # "no builder"

\* The store keeps the times that are set: a mark made at any instant of a
\* second ends TTL seconds after that second, which module BoltStore takes for
\* granted, and cleanups are as far apart as set, whenever an int64 holds the
\* time.  A mark can be over at the instant it is made only if the TTL wraps
\* around to a duration above 0 and below a second: that one normalizeOptions
\* lets through, and MarkArticle cuts it off.
StoreTimesAsSet ==
    store = "bbolt" =>
        /\ Fits(cfg.storageTTL, Second) =>
              \A at \in 0..(Second - 1) : MarkEnd(at, opts.ttl) = cfg.storageTTL
        /\ Fits(cfg.storageCleanup, Second) => opts.cleanup = cfg.storageCleanup * Second
        /\ (\E at \in 0..(Second - 1) : MarkEnd(at, opts.ttl) * Second <= at)
              <=> Duration(cfg.storageTTL, Second) \in 1..(Second - 1)

\* A harvester that started has a fetcher that takes its configuration for the
\* providers whose file entry has the type google_news_sitemap, whatever its
\* spaces and capitals, and for no other.
ServedByType ==
    pc = "ready" =>
        \A k \in DOMAIN provFile :
            Served(providers[k]) <=> provFile[k].type.word = GoogleNews

\* A setting that waits for nothing, an interval that panics, a delay without
\* a limiter or a timeout that is none, is one that no int64 of nanoseconds
\* holds.
WaitsUnlessTooLong ==
    /\ pc = "panicked" => ~Fits(cfg.crawlInterval, Second)
    /\ pc = "ready" =>
          /\ \A p \in Items(providers) :
                RequestDelay(p.delay) <= 0 => ~Fits(p.delay, Millisecond)
          /\ \A e \in Items(enabled) :
                HttpTimeout(e.timeout) <= 0 => ~Fits(e.timeout, Second)

\* What the README says of a disabled publisher: it is ignored, so that no
\* start fails because of it.
DisabledIgnored == why = "invalid publisher" => pubFile[idx].enabled # "no"
=============================================================================
