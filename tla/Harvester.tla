----------------------------- MODULE Harvester ------------------------------
(***************************************************************************)
(* The life of a harvester process (cmd/harvester/main.go and Run in       *)
(* internal/app/harvester.go): start, open the store, crawl at once and    *)
(* then at every tick, and after SIGINT or SIGTERM leave the loop, close   *)
(* the store and exit.  Several processes may share one database file, as  *)
(* when a service is replaced: bbolt locks the file, waits for the lock    *)
(* for a second and then gives up.                                         *)
(***************************************************************************)
EXTENDS Naturals

CONSTANTS
    Processes,  \* the processes started on the database file
    None        \* nobody

ASSUME HarvesterAssumption == None \notin Processes

VARIABLES
    pc,         \* where each process is
    cancelled,  \* its context is cancelled
    ticking,    \* its ticker has been created
    tick,       \* the ticks in the ticker's channel
    holder      \* the process that has the database file open

vars == <<pc, cancelled, ticking, tick, holder>>

\* "stuck" is a crawl that waits forever for its own workers.
PC == {"down", "starting", "crawling", "stuck", "waiting", "closing"}

\* The process is between openBolt and closeStore.
Open == {"crawling", "stuck", "waiting", "closing"}

GoTo(p, l) == pc' = [pc EXCEPT ![p] = l]
-----------------------------------------------------------------------------
Init ==
    /\ pc = [p \in Processes |-> "down"]
    /\ cancelled = [p \in Processes |-> FALSE]
    /\ ticking = [p \in Processes |-> FALSE]
    /\ tick = [p \in Processes |-> 0]
    /\ holder = None

Start(p) ==
    /\ pc[p] = "down"
    /\ GoTo(p, "starting")
    /\ UNCHANGED <<cancelled, ticking, tick, holder>>

\* What is left of a process when it is gone: the system drops its lock.
Gone(p) ==
    /\ GoTo(p, "down")
    /\ cancelled' = [cancelled EXCEPT ![p] = FALSE]
    /\ ticking' = [ticking EXCEPT ![p] = FALSE]
    /\ tick' = [tick EXCEPT ![p] = 0]
    /\ holder' = IF holder = p THEN None ELSE holder

\* NewHarvester fails (module Startup), the wait for the lock among its
\* reasons, and the process exits.
StartFails(p) ==
    /\ pc[p] = "starting"
    /\ Gone(p)

\* Mutant: the file is opened whoever has it.
OpenStoreUnlocked(p) ==
    /\ pc[p] = "starting"
    /\ holder' = p
    /\ GoTo(p, "crawling")
    /\ UNCHANGED <<cancelled, ticking, tick>>

\* NewHarvester succeeds, and Run begins with a crawl.
OpenStore(p) ==
    /\ pc[p] = "starting"
    /\ holder = None
    /\ holder' = p
    /\ GoTo(p, "crawling")
    /\ UNCHANGED <<cancelled, ticking, tick>>

\* SIGINT or SIGTERM; a second one is swallowed.
Signal(p) ==
    /\ pc[p] # "down"
    /\ cancelled' = [cancelled EXCEPT ![p] = TRUE]
    /\ UNCHANGED <<pc, ticking, tick, holder>>

\* Mutant: the ticker is never set up.
CrawlReturnsUnticked(p) ==
    /\ pc[p] = "crawling"
    /\ GoTo(p, "waiting")
    /\ UNCHANGED <<cancelled, ticking, tick, holder>>

\* runOnce returns; its error is logged.  After the first crawl the ticker is
\* created.
CrawlReturns(p) ==
    /\ pc[p] = "crawling"
    /\ ticking' = [ticking EXCEPT ![p] = TRUE]
    /\ GoTo(p, "waiting")
    /\ UNCHANGED <<cancelled, tick, holder>>

\* A crawl that is cancelled may never return (Stopped in module Service).
CrawlStops(p) ==
    /\ pc[p] = "crawling"
    /\ cancelled[p]
    /\ GoTo(p, "stuck")
    /\ UNCHANGED <<cancelled, ticking, tick, holder>>

\* Mutant: ticks pile up while a crawl lasts.
FireQueues(p) ==
    /\ ticking[p]
    /\ tick' = [tick EXCEPT ![p] = @ + 1]
    /\ UNCHANGED <<pc, cancelled, ticking, holder>>

\* The ticker fires; its channel holds one tick, and the others are dropped.
Fire(p) ==
    /\ ticking[p]
    /\ tick' = [tick EXCEPT ![p] = 1]
    /\ UNCHANGED <<pc, cancelled, ticking, holder>>

\* The select of Run takes the tick.
TakeTick(p) ==
    /\ pc[p] = "waiting"
    /\ tick[p] > 0
    /\ tick' = [tick EXCEPT ![p] = @ - 1]
    /\ GoTo(p, "crawling")
    /\ UNCHANGED <<cancelled, ticking, holder>>

\* Mutant: the loop looks for a tick first, and at the context without one.
TakeDoneLast(p) ==
    /\ pc[p] = "waiting"
    /\ cancelled[p]
    /\ tick[p] = 0
    /\ ticking' = [ticking EXCEPT ![p] = FALSE]
    /\ GoTo(p, "closing")
    /\ UNCHANGED <<cancelled, tick, holder>>

\* The select takes ctx.Done, the loop is left, and the ticker is stopped.
TakeDone(p) ==
    /\ pc[p] = "waiting"
    /\ cancelled[p]
    /\ ticking' = [ticking EXCEPT ![p] = FALSE]
    /\ GoTo(p, "closing")
    /\ UNCHANGED <<cancelled, tick, holder>>

\* closeStore, and the process exits.
Close(p) ==
    /\ pc[p] = "closing"
    /\ Gone(p)

\* The process is killed.
Kill(p) ==
    /\ pc[p] # "down"
    /\ Gone(p)

Next == \E p \in Processes :
    \/ Start(p)
    \/ StartFails(p)
    \/ OpenStore(p)
    \/ Signal(p)
    \/ CrawlReturns(p)
    \/ CrawlStops(p)
    \/ Fire(p)
    \/ TakeTick(p)
    \/ TakeDone(p)
    \/ Close(p)
    \/ Kill(p)

Spec == Init /\ [][Next]_vars

(***************************************************************************)
(* A process runs, its ticker fires, a crawl returns or is stuck, and a    *)
(* start ends within the second it waits for the lock.  A select with two  *)
(* ready cases picks one at random: a case that is ready again and again   *)
(* is taken.  Nothing obliges anyone to start, signal or kill a process.   *)
(***************************************************************************)
Fairness == \A p \in Processes :
    /\ WF_vars(StartFails(p) \/ OpenStore(p))
    /\ WF_vars(CrawlReturns(p) \/ CrawlStops(p))
    /\ WF_vars(Fire(p))
    /\ WF_vars(TakeTick(p))
    /\ SF_vars(TakeDone(p))
    /\ WF_vars(Close(p))

FairSpec == Spec /\ Fairness
-----------------------------------------------------------------------------
(***************************************************************************)
(* Types.                                                                  *)
(***************************************************************************)
TypeOK ==
    /\ pc \in [Processes -> PC]
    /\ cancelled \in [Processes -> BOOLEAN]
    /\ ticking \in [Processes -> BOOLEAN]
    /\ tick \in [Processes -> 0..1]
    /\ holder \in Processes \cup {None}

\* The store is open from before the first crawl until after the last, for
\* one process at a time: no crawl meets a closed store or another process.
StoreHeld ==
    /\ \A p \in Processes : pc[p] \in Open <=> holder = p
    /\ \A p \in Processes : tick[p] > 0 => pc[p] \in Open

\* Every signal ends the process, even if ticks come faster than crawls end,
\* unless the crawl is stuck in its own workers.
SignalEnds == \A p \in Processes : cancelled[p] ~> pc[p] \in {"down", "stuck"}

\* A harvester that nobody stops crawls again and again.
CrawlsAgain ==
    \A p \in Processes :
        pc[p] = "waiting" ~> pc[p] \in {"crawling", "down"} \/ cancelled[p]
=============================================================================
