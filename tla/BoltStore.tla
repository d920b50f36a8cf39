----------------------------- MODULE BoltStore ------------------------------
(***************************************************************************)
(* The bbolt implementation of the article store (internal/storage/        *)
(* bolt_store.go) under concurrent callers: SeenArticle and MarkArticle,   *)
(* the cleanup of expired entries both of them run first when it is due    *)
(* (an unlocked look at lastCleanup, then a second look under a mutex),    *)
(* and restarts of the process, which keep the file and lose the rest.     *)
(*                                                                         *)
(* A db.Update is one step: bbolt has one writer at a time and commits     *)
(* atomically.  Any of them may fail (disk), and then changes nothing.     *)
(* Time is counted in instants, Sub of them to a second, because the code  *)
(* stores whole seconds and compares them with a finer clock.              *)
(***************************************************************************)
EXTENDS Integers

CONSTANTS
    Procs,              \* the goroutines that share the store
    Ids,                \* article ids
    TTL,                \* articleTTL, in seconds
    CleanupInterval,    \* cleanupInterval, in seconds
    Sub,                \* instants in a second
    MaxTime,            \* bound: the last instant of the model
    MaxRestarts         \* bound: how often the process restarts

ASSUME ConstantsAssumption ==
    /\ TTL \in Nat \ {0}                \* normalizeOptions
    /\ CleanupInterval \in Nat \ {0}    \* normalizeOptions
    /\ Sub \in Nat \ {0}
    /\ MaxTime \in Nat
    /\ MaxRestarts \in Nat

VARIABLES
    now,            \* the clock
    db,             \* the bucket: the second each id expires, 0 if absent
    lastCleanup,    \* the second of the last cleanup, or of the opening
    locked,         \* cleanupMu is held
    pc,             \* where each goroutine is in its call
    call,           \* the call it is in: operation, id and time.Now() at entry
    ret,            \* how its last call ended
    restarts,       \* restarts so far
    markedAt        \* history: the entry time of the last mark of each id, or -1

vars == <<now, db, lastCleanup, locked, pc, call, ret, restarts, markedAt>>

Ops == {"SeenArticle", "MarkArticle"}
None == [op |-> "none"]
Calls == [op : Ops, id : Ids, at : 0..MaxTime]
Replies == {"none", "seen", "fresh", "marked", "error"}
PC == {"idle", "gate", "lock", "recheck", "sweep", "stamp", "tx"}

Unix(t) == t \div Sub

\* Mutant: the TTL with the wrong sign.
ExpiryBefore(at) == Unix(at) - TTL

\* now.Add(b.articleTTL).Unix(), the value a mark stores
ExpiryOf(at) == Unix(at) + TTL

\* !expiry.After(t) for the entry of i
ExpiredAt(i, t) == db[i] * Sub <= t

\* now.Sub(last) >= b.cleanupInterval, with the now of the call
CleanupDue(p) == call[p].at - lastCleanup * Sub >= CleanupInterval * Sub

\* p holds cleanupMu.
Critical(p) == pc[p] \in {"recheck", "sweep", "stamp"}
-----------------------------------------------------------------------------
Init ==
    /\ now = 0
    /\ db = [i \in Ids |-> 0]
    /\ lastCleanup = 0
    /\ locked = FALSE
    /\ pc = [p \in Procs |-> "idle"]
    /\ call = [p \in Procs |-> None]
    /\ ret = [p \in Procs |-> "none"]
    /\ restarts = 0
    /\ markedAt = [i \in Ids |-> -1]

\* A call starts and reads the clock.
Begin(p, op, i) ==
    /\ pc[p] = "idle"
    /\ call' = [call EXCEPT ![p] = [op |-> op, id |-> i, at |-> now]]
    /\ ret' = [ret EXCEPT ![p] = "none"]
    /\ pc' = [pc EXCEPT ![p] = "gate"]
    /\ UNCHANGED <<now, db, lastCleanup, locked, restarts, markedAt>>

\* The look at lastCleanup without the mutex.
Gate(p) ==
    /\ pc[p] = "gate"
    /\ pc' = [pc EXCEPT ![p] = IF CleanupDue(p) THEN "lock" ELSE "tx"]
    /\ UNCHANGED <<now, db, lastCleanup, locked, call, ret, restarts, markedAt>>

Lock(p) ==
    /\ pc[p] = "lock"
    /\ ~locked
    /\ locked' = TRUE
    /\ pc' = [pc EXCEPT ![p] = "recheck"]
    /\ UNCHANGED <<now, db, lastCleanup, call, ret, restarts, markedAt>>

\* Mutant: no second look under the mutex.
RecheckOmitted(p) ==
    /\ pc[p] = "recheck"
    /\ pc' = [pc EXCEPT ![p] = "sweep"]
    /\ UNCHANGED <<now, db, lastCleanup, locked, call, ret, restarts, markedAt>>

\* The second look: somebody else may have cleaned up while p waited.
Recheck(p) ==
    /\ pc[p] = "recheck"
    /\ pc' = [pc EXCEPT ![p] = IF CleanupDue(p) THEN "sweep" ELSE "tx"]
    /\ locked' = CleanupDue(p)
    /\ UNCHANGED <<now, db, lastCleanup, call, ret, restarts, markedAt>>

\* Mutant: entries go that will have expired at the next cleanup.
SweepAhead(p) ==
    /\ pc[p] = "sweep"
    /\ db' = [i \in Ids |-> IF ExpiredAt(i, call[p].at + CleanupInterval * Sub)
                            THEN 0 ELSE db[i]]
    /\ pc' = [pc EXCEPT ![p] = "stamp"]
    /\ UNCHANGED <<now, lastCleanup, locked, call, ret, restarts, markedAt>>

\* The transaction that deletes what had expired when the call began.
Sweep(p) ==
    /\ pc[p] = "sweep"
    /\ db' = [i \in Ids |-> IF ExpiredAt(i, call[p].at) THEN 0 ELSE db[i]]
    /\ pc' = [pc EXCEPT ![p] = "stamp"]
    /\ UNCHANGED <<now, lastCleanup, locked, call, ret, restarts, markedAt>>

\* b.lastCleanup.Store(now.Unix()) and the deferred unlock.
Stamp(p) ==
    /\ pc[p] = "stamp"
    /\ lastCleanup' = Unix(call[p].at)
    /\ locked' = FALSE
    /\ pc' = [pc EXCEPT ![p] = "tx"]
    /\ UNCHANGED <<now, db, call, ret, restarts, markedAt>>

Return(p, reply) ==
    /\ pc' = [pc EXCEPT ![p] = "idle"]
    /\ call' = [call EXCEPT ![p] = None]
    /\ ret' = [ret EXCEPT ![p] = reply]

\* Mutant: the failure path returns with the mutex held.
SweepFailsLocked(p) ==
    /\ pc[p] = "sweep"
    /\ Return(p, "error")
    /\ UNCHANGED <<now, db, lastCleanup, locked, restarts, markedAt>>

\* Mutant: the error of the cleanup is dropped, and the call goes on.
SweepFailsIgnored(p) ==
    /\ pc[p] = "sweep"
    /\ locked' = FALSE
    /\ pc' = [pc EXCEPT ![p] = "tx"]
    /\ UNCHANGED <<now, db, lastCleanup, call, ret, restarts, markedAt>>

\* The cleanup fails: the call that ran it fails, lastCleanup stays.
SweepFails(p) ==
    /\ pc[p] = "sweep"
    /\ locked' = FALSE
    /\ Return(p, "error")
    /\ UNCHANGED <<now, db, lastCleanup, restarts, markedAt>>

\* The transaction of SeenArticle: it reads the clock again, and deletes the
\* entry it finds expired.
Lookup(p) ==
    /\ pc[p] = "tx"
    /\ call[p].op = "SeenArticle"
    /\ LET i == call[p].id IN
         IF ExpiredAt(i, now)
         THEN /\ db' = [db EXCEPT ![i] = 0]
              /\ Return(p, "fresh")
         ELSE /\ Return(p, "seen")
              /\ UNCHANGED db
    /\ UNCHANGED <<now, lastCleanup, locked, restarts, markedAt>>

\* Mutant: an entry that is present is not renewed.
MarkIfAbsent(p) ==
    /\ pc[p] = "tx"
    /\ call[p].op = "MarkArticle"
    /\ db' = [db EXCEPT ![call[p].id] = IF @ # 0 THEN @ ELSE ExpiryOf(call[p].at)]
    /\ markedAt' = [markedAt EXCEPT ![call[p].id] = call[p].at]
    /\ Return(p, "marked")
    /\ UNCHANGED <<now, lastCleanup, locked, restarts>>

\* The transaction of MarkArticle, with the clock read at the entry.
Mark(p) ==
    /\ pc[p] = "tx"
    /\ call[p].op = "MarkArticle"
    /\ db' = [db EXCEPT ![call[p].id] = ExpiryOf(call[p].at)]
    /\ markedAt' = [markedAt EXCEPT ![call[p].id] = call[p].at]
    /\ Return(p, "marked")
    /\ UNCHANGED <<now, lastCleanup, locked, restarts>>

\* The transaction of the call itself fails.
TxFails(p) ==
    /\ pc[p] = "tx"
    /\ Return(p, "error")
    /\ UNCHANGED <<now, db, lastCleanup, locked, restarts, markedAt>>

Tick ==
    /\ now < MaxTime
    /\ now' = now + 1
    /\ UNCHANGED <<db, lastCleanup, locked, pc, call, ret, restarts, markedAt>>

\* The process stops, in whatever state it is, and openBolt runs again.
Restart ==
    /\ restarts < MaxRestarts
    /\ restarts' = restarts + 1
    /\ lastCleanup' = Unix(now)
    /\ locked' = FALSE
    /\ pc' = [p \in Procs |-> "idle"]
    /\ call' = [p \in Procs |-> None]
    /\ ret' = [p \in Procs |-> "none"]
    /\ UNCHANGED <<now, db, markedAt>>

Step(p) ==
    \/ Gate(p)
    \/ Lock(p)
    \/ Recheck(p)
    \/ Sweep(p)
    \/ SweepFails(p)
    \/ Stamp(p)
    \/ Lookup(p)
    \/ Mark(p)
    \/ TxFails(p)

Next ==
    \/ \E p \in Procs : \E op \in Ops, i \in Ids : Begin(p, op, i)
    \/ \E p \in Procs : Step(p)
    \/ Tick
    \/ Restart

Spec == Init /\ [][Next]_vars

(***************************************************************************)
(* The Go scheduler runs every runnable goroutine, and sync.Mutex hands    *)
(* the lock to a goroutine that has waited for more than a millisecond, so *)
(* that no one waits for ever while others take it again and again.        *)
(***************************************************************************)
Fairness == \A p \in Procs : WF_vars(Step(p)) /\ SF_vars(Lock(p))

FairSpec == Spec /\ Fairness
-----------------------------------------------------------------------------
(***************************************************************************)
(* Types.                                                                  *)
(***************************************************************************)
TypeOK ==
    /\ now \in 0..MaxTime
    /\ db \in [Ids -> Nat]
    /\ lastCleanup \in Nat
    /\ locked \in BOOLEAN
    /\ pc \in [Procs -> PC]
    /\ call \in [Procs -> Calls \cup {None}]
    /\ ret \in [Procs -> Replies]
    /\ restarts \in 0..MaxRestarts
    /\ markedAt \in [Ids -> {-1} \cup (0..MaxTime)]

\* One goroutine at a time is inside the mutex, and every way out of
\* maybeCleanupExpired, failures and restarts included, has released it.
CleanupExclusive ==
    /\ locked <=> \E p \in Procs : Critical(p)
    /\ \A p, q \in Procs : Critical(p) /\ Critical(q) => p = q

\* Goroutines that found the cleanup due together clean up once: a cleanup
\* that succeeds is at least CleanupInterval after the one before it, by the
\* times of the calls that ran them.
CleanupCadence ==
    [][\A p \in Procs : pc[p] = "stamp" /\ pc'[p] = "tx" =>
            lastCleanup' >= lastCleanup + CleanupInterval]_vars

\* A mark lasts for more than TTL - 1 seconds from the call that made it,
\* through concurrent cleanups and restarts.
MarkKept ==
    \A i \in Ids :
        markedAt[i] >= 0 /\ now <= markedAt[i] + (TTL - 1) * Sub
            => ~ExpiredAt(i, now)

\* No call gets to the bucket past a cleanup that is overdue: it has run it, or
\* waited for the goroutine that did, or failed with it.
CleanupNotOverdue ==
    \A p \in Procs : pc[p] = "tx" => ~CleanupDue(p)

\* Every call returns, whoever holds the mutex and whatever fails.
CallsReturn == \A p \in Procs : pc[p] # "idle" ~> pc[p] = "idle"

\* The store is a map that forgets nothing before its time: the deletions of
\* the cleanup and of SeenArticle, which read the clock at different moments,
\* never show in an answer.
Cache == INSTANCE ArticleCache WITH
    expiry <- [i \in Ids |-> IF markedAt[i] < 0 THEN 0 ELSE ExpiryOf(markedAt[i])]

CacheSpec == Cache!Spec
=============================================================================
