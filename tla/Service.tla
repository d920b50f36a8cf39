------------------------------ MODULE Service -------------------------------
(***************************************************************************)
(* A harvester process with its crawl inside: the life of module Harvester *)
(* and, while the process that has the database is crawling, the call of   *)
(* Service.Run of module RunAll, under that process's context.  A crawl    *)
(* returns when runAll does; it is stuck when none of its goroutines can   *)
(* move, because runAll waits for workers that have left, or for one whose *)
(* call of Enrich waits in the same way (module Enrich).                   *)
(***************************************************************************)
EXTENDS Harvester, Sequences

CONSTANTS
    NProviders,         \* the providers in the registry
    MaxProviderWorkers, \* 10 in the code
    EnrichHangs         \* a feed may have more articles than Enrich has workers

ASSUME ServiceAssumption ==
    /\ NProviders \in Nat \ {0}
    /\ MaxProviderWorkers \in Nat \ {0}
    /\ EnrichHangs \in BOOLEAN

VARIABLES
    main, next, closed, wpc, cfg, errCh, errs, processed, failed,   \* RunAll
    hung        \* the workers whose call of Enrich never returns

pool == <<main, next, closed, wpc, cfg, errCh, errs, processed, failed>>
process == <<pc, cancelled, ticking, tick, holder>>
allVars == <<process, pool, hung>>

\* The crawl of the process that has the database, under its context.
Crawl == INSTANCE RunAll WITH
    ctxDone <- holder # None /\ cancelled[holder]

Running == holder # None /\ pc[holder] = "crawling"
-----------------------------------------------------------------------------
\* No goroutine of a crawl exists before the first one.
NoCrawl ==
    /\ main = "returned"
    /\ next = 1
    /\ closed = TRUE
    /\ wpc = [w \in Crawl!Workers |-> "exited"]
    /\ cfg = [w \in Crawl!Workers |-> 0]
    /\ errCh = <<>>
    /\ errs = <<>>
    /\ processed = {}
    /\ failed = {}
    /\ hung = {}

Reset(atMain, isClosed, atWorker) ==
    /\ main' = atMain
    /\ next' = 1
    /\ closed' = isClosed
    /\ wpc' = [w \in Crawl!Workers |-> atWorker]
    /\ cfg' = [w \in Crawl!Workers |-> 0]
    /\ errCh' = <<>>
    /\ errs' = <<>>
    /\ processed' = {}
    /\ failed' = {}
    /\ hung' = {}

\* runOnce calls Service.Run, which makes the channels and starts the workers.
BeginCrawl == Reset("check", FALSE, "receive")

\* The goroutines end with their process.
EndCrawl == Reset("returned", TRUE, "exited")

ServiceInit == Init /\ NoCrawl

\* A step of runAll, but for its return.
Dispatch ==
    /\ Running
    /\ UNCHANGED <<process, hung>>
    /\ \/ Crawl!CheckCtx
       \/ Crawl!CloseCfgs
       \/ \E w \in Crawl!Workers : Crawl!Handoff(w)

Work(w) ==
    /\ Running
    /\ w \notin hung
    /\ UNCHANGED <<process, hung>>
    /\ Crawl!WorkerStep(w)

\* The call of Enrich inside Process is cancelled and never returns
\* (StrandedOnlyByCancel in module Enrich).
Hang(w) ==
    /\ EnrichHangs
    /\ Running
    /\ cancelled[holder]
    /\ wpc[w] = "process"
    /\ hung' = hung \cup {w}
    /\ UNCHANGED <<process, pool>>

\* runAll returns, and with it runOnce.
Return(p) ==
    /\ CrawlReturns(p)
    /\ Crawl!Collect
    /\ UNCHANGED hung

\* No goroutine of the crawl will move again.
Stopped ==
    /\ \A w \in Crawl!Workers : wpc[w] = "exited" \/ w \in hung
    /\ main = "send" \/ (main = "wait" /\ hung # {})

Stop(p) ==
    /\ CrawlStops(p)
    /\ Stopped
    /\ UNCHANGED <<pool, hung>>

FirstCrawl(p) == OpenStore(p) /\ BeginCrawl

Recrawl(p) == TakeTick(p) /\ BeginCrawl

Exit(p) == Close(p) /\ EndCrawl

Die(p) ==
    /\ Kill(p)
    /\ IF holder = p THEN EndCrawl ELSE UNCHANGED <<pool, hung>>

\* What happens to a process while its crawl, if there is one, stays put.
Apart(A) == A /\ UNCHANGED <<pool, hung>>

ServiceNext ==
    \/ Dispatch
    \/ \E w \in Crawl!Workers : Work(w) \/ Hang(w)
    \/ \E p \in Processes :
         \/ Apart(Start(p))
         \/ Apart(StartFails(p))
         \/ FirstCrawl(p)
         \/ Apart(Signal(p))
         \/ Return(p)
         \/ Stop(p)
         \/ Apart(Fire(p))
         \/ Recrawl(p)
         \/ Apart(TakeDone(p))
         \/ Exit(p)
         \/ Die(p)

ServiceSpec == ServiceInit /\ [][ServiceNext]_allVars

(***************************************************************************)
(* The fairness of Harvester, but for its assumption that a crawl ends: in *)
(* its place stand the goroutines of the crawl, each of which runs, and a  *)
(* call of Process that is not hung returns.                               *)
(***************************************************************************)
ServiceFairness ==
    /\ WF_allVars(Dispatch)
    /\ \A w \in Crawl!Workers : WF_allVars(Work(w))
    /\ \A p \in Processes :
         /\ WF_allVars(Apart(StartFails(p)) \/ FirstCrawl(p))
         /\ WF_allVars(Return(p))
         /\ WF_allVars(Stop(p))
         /\ WF_allVars(Apart(Fire(p)))
         /\ WF_allVars(Recrawl(p))
         /\ SF_allVars(Apart(TakeDone(p)))
         /\ WF_allVars(Exit(p))

FairServiceSpec == ServiceSpec /\ ServiceFairness
-----------------------------------------------------------------------------
\* Every goroutine of a crawl lives while its process has the database open and
\* is in that crawl: none looks up or marks an article after closeStore, none
\* is left over when the next crawl starts.
WorkInsideCrawl ==
    \A w \in Crawl!Workers : wpc[w] # "exited" =>
        holder # None /\ pc[holder] \in {"crawling", "stuck"}

\* A harvester that waits for its next tick, and was not told to stop, has run
\* Process for every provider in the crawl before.
ProvidersServed ==
    \A p \in Processes :
        pc[p] = "waiting" /\ ~cancelled[p] => processed = Crawl!Providers

\* Module Harvester takes it that every crawl returns or gets stuck, and gets
\* stuck only when it is cancelled: the crawl of RunAll keeps to that.
HarvesterSpec == FairSpec

\* What the comment of Run says of the crawl loop: it runs until the context is
\* cancelled.  A signal brings the process down.
SignalStops == \A p \in Processes : cancelled[p] ~> pc[p] = "down"
=============================================================================
