------------------------------ MODULE Settings ------------------------------
(***************************************************************************)
(* Seconds and milliseconds of the configuration, and the durations the    *)
(* program makes of them (internal/config, internal/storage,               *)
(* pkg/providers, pkg/publishers).  A duration is an int64 of nanoseconds, *)
(* and time.Duration(n) * unit wraps around.                               *)
(***************************************************************************)
EXTENDS Integers

CONSTANTS
    MaxInt64,               \* 2^63 - 1 in the code
    Second, Millisecond,    \* in nanoseconds
    DefaultArticleTTL, DefaultCleanupInterval,
    DefaultRequestDelayMs,
    HttpDefaultTimeoutSeconds

ASSUME SettingsAssumption ==
    /\ MaxInt64 \in Nat \ {0}
    /\ Second \in Nat \ {0}
    /\ Millisecond \in Nat \ {0}
    /\ {DefaultArticleTTL, DefaultCleanupInterval} \subseteq Second..MaxInt64
    /\ DefaultRequestDelayMs \in Nat \ {0}
    /\ DefaultRequestDelayMs * Millisecond <= MaxInt64
    /\ HttpDefaultTimeoutSeconds \in Nat \ {0}
    /\ HttpDefaultTimeoutSeconds * Second <= MaxInt64

\* int64 arithmetic.
Wrapped(n) == ((n + MaxInt64 + 1) % (2 * MaxInt64 + 2)) - (MaxInt64 + 1)

\* time.Duration(count) * unit
Duration(count, unit) == Wrapped(count * unit)

Fits(count, unit) == count * unit <= MaxInt64

\* The part of config.Config that NewHarvester and Run use.
Config ==
    [crawlInterval : Int, storageTTL : Int, storageCleanup : Int,
     storageType : {"none", "bbolt", "other"}]

\* Mutant: zero passes.
AcceptedZero(c) == c.crawlInterval >= 0 /\ c.storageTTL >= 0 /\ c.storageCleanup >= 0

\* The checks of config.Load, which are on the seconds.
Accepted(c) == c.crawlInterval > 0 /\ c.storageTTL > 0 /\ c.storageCleanup > 0

\* normalizeOptions
NormalizeOptions(opts) ==
    [ttl |-> IF opts.ttl <= 0 THEN DefaultArticleTTL ELSE opts.ttl,
     cleanup |-> IF opts.cleanup <= 0 THEN DefaultCleanupInterval ELSE opts.cleanup]

\* Mutant: the two settings change places.
StoreOptionsSwapped(c) ==
    NormalizeOptions([ttl |-> Duration(c.storageCleanup, Second),
                      cleanup |-> Duration(c.storageTTL, Second)])

\* The options NewHarvester gives NewStore.
StoreOptions(c) ==
    NormalizeOptions([ttl |-> Duration(c.storageTTL, Second),
                      cleanup |-> Duration(c.storageCleanup, Second)])

\* The second that MarkArticle stores as the end of a mark it makes at an
\* instant: its fraction is lost.  Instants and seconds count from the same 0.
MarkEnd(at, ttl) == (at + ttl) \div Second

\* sanitizeProvider and sanitizePublisherConfig replace what is not positive.
OrDefault(count, default) == IF count <= 0 THEN default ELSE count

\* RequestDelay; a delay that is not positive means no limiter.
RequestDelay(ms) == Duration(OrDefault(ms, DefaultRequestDelayMs), Millisecond)

\* newHTTPPublisher; a timeout that is not positive means none.
HttpTimeout(seconds) == Duration(seconds, Second)
=============================================================================
