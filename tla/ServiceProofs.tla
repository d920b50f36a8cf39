--------------------------- MODULE ServiceProofs ----------------------------
(***************************************************************************)
(* What holds of Harvester for every number of processes, and of Service   *)
(* for every number of processes, providers and workers: it is a harvester *)
(* of module Harvester as far as safety goes, its crawls stay within it,   *)
(* and the theorems about RunAll hold of them.                             *)
(***************************************************************************)
EXTENDS Service, TLAPS

\* Ticks come from a ticker, and a ticker belongs to a loop.
Ticking == \A p \in Processes : ticking[p] => pc[p] \in {"crawling", "stuck", "waiting"}

IInv == TypeOK /\ StoreHeld /\ Ticking

LEMMA InitInv == Init => IInv
  BY HarvesterAssumption
  DEF Init, IInv, TypeOK, PC, StoreHeld, Open, Ticking

LEMMA GoneInv ==
    ASSUME IInv, NEW p \in Processes, Gone(p)
    PROVE  IInv'
<1> USE HarvesterAssumption DEF IInv
<1>1. TypeOK'
  BY DEF Gone, GoTo, TypeOK, PC
<1>2. StoreHeld'
  BY DEF Gone, GoTo, TypeOK, StoreHeld, Open
<1>3. Ticking'
  BY DEF Gone, GoTo, TypeOK, Ticking
<1> QED
  BY <1>1, <1>2, <1>3

LEMMA StepInv == IInv /\ [Next]_vars => IInv'
<1> SUFFICES ASSUME IInv, [Next]_vars PROVE IInv'
  OBVIOUS
<1> USE HarvesterAssumption
<1>1. ASSUME NEW p \in Processes, Start(p) PROVE IInv'
  <2>1. TypeOK'
    BY <1>1 DEF Start, GoTo, IInv, TypeOK, PC
  <2>2. StoreHeld'
    BY <1>1 DEF Start, GoTo, IInv, TypeOK, StoreHeld, Open, Ticking
  <2>3. Ticking'
    BY <1>1 DEF Start, GoTo, IInv, TypeOK, Ticking
  <2> QED
    BY <2>1, <2>2, <2>3 DEF IInv
<1>2. ASSUME NEW p \in Processes, StartFails(p) PROVE IInv'
  BY <1>2, GoneInv DEF StartFails
<1>3. ASSUME NEW p \in Processes, OpenStore(p) PROVE IInv'
  <2>1. TypeOK'
    BY <1>3 DEF OpenStore, GoTo, IInv, TypeOK, PC
  <2>2. StoreHeld'
    BY <1>3 DEF OpenStore, GoTo, IInv, TypeOK, StoreHeld, Open, Ticking
  <2>3. Ticking'
    BY <1>3 DEF OpenStore, GoTo, IInv, TypeOK, Ticking
  <2> QED
    BY <2>1, <2>2, <2>3 DEF IInv
<1>4. ASSUME NEW p \in Processes, Signal(p) PROVE IInv'
  <2>1. TypeOK'
    BY <1>4 DEF Signal, IInv, TypeOK, PC
  <2>2. StoreHeld'
    BY <1>4 DEF Signal, IInv, TypeOK, StoreHeld, Open, Ticking
  <2>3. Ticking'
    BY <1>4 DEF Signal, IInv, TypeOK, Ticking
  <2> QED
    BY <2>1, <2>2, <2>3 DEF IInv
<1>5. ASSUME NEW p \in Processes, CrawlReturns(p) PROVE IInv'
  <2>1. TypeOK'
    BY <1>5 DEF CrawlReturns, GoTo, IInv, TypeOK, PC
  <2>2. StoreHeld'
    BY <1>5 DEF CrawlReturns, GoTo, IInv, TypeOK, StoreHeld, Open, Ticking
  <2>3. Ticking'
    BY <1>5 DEF CrawlReturns, GoTo, IInv, TypeOK, Ticking
  <2> QED
    BY <2>1, <2>2, <2>3 DEF IInv
<1>6. ASSUME NEW p \in Processes, CrawlStops(p) PROVE IInv'
  <2>1. TypeOK'
    BY <1>6 DEF CrawlStops, GoTo, IInv, TypeOK, PC
  <2>2. StoreHeld'
    BY <1>6 DEF CrawlStops, GoTo, IInv, TypeOK, StoreHeld, Open, Ticking
  <2>3. Ticking'
    BY <1>6 DEF CrawlStops, GoTo, IInv, TypeOK, Ticking
  <2> QED
    BY <2>1, <2>2, <2>3 DEF IInv
<1>7. ASSUME NEW p \in Processes, Fire(p) PROVE IInv'
  <2>1. TypeOK'
    BY <1>7 DEF Fire, IInv, TypeOK, PC
  <2>2. StoreHeld'
    BY <1>7 DEF Fire, IInv, TypeOK, StoreHeld, Open, Ticking
  <2>3. Ticking'
    BY <1>7 DEF Fire, IInv, TypeOK, Ticking
  <2> QED
    BY <2>1, <2>2, <2>3 DEF IInv
<1>8. ASSUME NEW p \in Processes, TakeTick(p) PROVE IInv'
  <2>1. TypeOK'
    BY <1>8 DEF TakeTick, GoTo, IInv, TypeOK, PC
  <2>2. StoreHeld'
    BY <1>8 DEF TakeTick, GoTo, IInv, TypeOK, StoreHeld, Open, Ticking
  <2>3. Ticking'
    BY <1>8 DEF TakeTick, GoTo, IInv, TypeOK, Ticking
  <2> QED
    BY <2>1, <2>2, <2>3 DEF IInv
<1>9. ASSUME NEW p \in Processes, TakeDone(p) PROVE IInv'
  <2>1. TypeOK'
    BY <1>9 DEF TakeDone, GoTo, IInv, TypeOK, PC
  <2>2. StoreHeld'
    BY <1>9 DEF TakeDone, GoTo, IInv, TypeOK, StoreHeld, Open, Ticking
  <2>3. Ticking'
    BY <1>9 DEF TakeDone, GoTo, IInv, TypeOK, Ticking
  <2> QED
    BY <2>1, <2>2, <2>3 DEF IInv
<1>10. ASSUME NEW p \in Processes, Close(p) PROVE IInv'
  BY <1>10, GoneInv DEF Close
<1>11. ASSUME NEW p \in Processes, Kill(p) PROVE IInv'
  BY <1>11, GoneInv DEF Kill
<1>12. CASE UNCHANGED vars
  BY <1>12 DEF vars, IInv, TypeOK, StoreHeld, Ticking
<1> QED
  BY <1>1, <1>2, <1>3, <1>4, <1>5, <1>6, <1>7, <1>8, <1>9, <1>10, <1>11, <1>12 DEF Next

LEMMA Invariant == Spec => []IInv
  BY InitInv, StepInv, PTL DEF Spec
-----------------------------------------------------------------------------
\* Every variable keeps its type: in particular no tick waits behind another.
THEOREM TypeCorrect == Spec => []TypeOK
<1>1. IInv => TypeOK
  BY DEF IInv
<1> QED
  BY Invariant, <1>1, PTL

\* From the first crawl of Run until closeStore its process, and no other,
\* has the store open, whatever is signalled, stuck or killed.
THEOREM StoreOpenForOne == Spec => []StoreHeld
<1>1. IInv => StoreHeld
  BY DEF IInv
<1> QED
  BY Invariant, <1>1, PTL
-----------------------------------------------------------------------------
\* Every step of Service is a step of Harvester or leaves its variables alone.
LEMMA StepOfLife == [ServiceNext]_allVars => [Next]_vars
<1> SUFFICES ASSUME [ServiceNext]_allVars PROVE [Next]_vars
  OBVIOUS
<1> USE DEF vars, process
<1>1. CASE Dispatch
  BY <1>1 DEF Dispatch
<1>2. ASSUME NEW w \in Crawl!Workers, Work(w) \/ Hang(w) PROVE [Next]_vars
  BY <1>2 DEF Work, Hang
<1>3. ASSUME NEW p \in Processes,
             \/ Apart(Start(p)) \/ Apart(StartFails(p)) \/ FirstCrawl(p)
             \/ Apart(Signal(p)) \/ Return(p) \/ Stop(p) \/ Apart(Fire(p))
             \/ Recrawl(p) \/ Apart(TakeDone(p)) \/ Exit(p) \/ Die(p)
      PROVE  Next
  BY <1>3 DEF Next, Apart, FirstCrawl, Return, Stop, Recrawl, Exit, Die
<1>4. CASE UNCHANGED allVars
  BY <1>4 DEF allVars
<1> QED
  BY <1>1, <1>2, <1>3, <1>4 DEF ServiceNext

\* A process with its crawl inside does only what Harvester lets a process do:
\* the safety half of HarvesterSpec.
THEOREM ImplementsHarvester == ServiceSpec => Spec
<1>1. ServiceInit => Init
  BY DEF ServiceInit
<1> QED
  BY <1>1, StepOfLife, PTL DEF ServiceSpec, Spec

\* A process with its crawl inside is a process of Harvester, whose safety
\* theorems hold of it: the store is open for one process, while it crawls.
THEOREM ServiceHoldsStore == ServiceSpec => [](TypeOK /\ StoreHeld)
<1>1. ServiceInit => Init
  BY DEF ServiceInit
<1>2. IInv => TypeOK /\ StoreHeld
  BY DEF IInv
<1> QED
  BY <1>1, <1>2, InitInv, StepInv, StepOfLife, PTL DEF ServiceSpec
-----------------------------------------------------------------------------
\* A process that has the store is in a crawl.
InCrawl == holder # None /\ pc[holder] \in {"crawling", "stuck"}

\* runAll waits for its workers, and no one but a crawl of the process that
\* has the store calls it.
CrawlInv ==
    /\ main = "returned" => \A w \in Crawl!Workers : wpc[w] = "exited"
    /\ main # "returned" => InCrawl

LEMMA InitCrawlInv == ServiceInit => CrawlInv
  BY DEF ServiceInit, NoCrawl, CrawlInv

LEMMA StepCrawlInv ==
    ASSUME IInv, CrawlInv, [ServiceNext]_allVars
    PROVE  CrawlInv'
<1> USE HarvesterAssumption
<1>1. CASE Dispatch
  BY <1>1 DEF Dispatch, Running, process, CrawlInv, InCrawl, Crawl!CheckCtx,
              Crawl!CloseCfgs, Crawl!Handoff
<1>2. ASSUME NEW w \in Crawl!Workers, Work(w) PROVE CrawlInv'
  <2>1. UNCHANGED <<pc, holder, main>> /\ wpc[w] # "exited"
    BY <1>2 DEF Work, process, Crawl!WorkerStep, Crawl!Drained, Crawl!WorkerCheck,
                Crawl!ProcessOK, Crawl!ProcessFails, Crawl!Report
  <2> QED
    BY <2>1 DEF CrawlInv, InCrawl
<1>3. ASSUME NEW w \in Crawl!Workers, Hang(w) PROVE CrawlInv'
  BY <1>3 DEF Hang, process, pool, CrawlInv, InCrawl
<1>4. ASSUME NEW p \in Processes, Return(p) PROVE CrawlInv'
  BY <1>4 DEF Return, Crawl!Collect, CrawlInv
<1>5. ASSUME NEW p \in Processes, Stop(p) PROVE CrawlInv'
  BY <1>5 DEF Stop, CrawlStops, GoTo, pool, CrawlInv, InCrawl, IInv, TypeOK
<1>6. ASSUME NEW p \in Processes, FirstCrawl(p) \/ Recrawl(p) PROVE CrawlInv'
  <2>1. main' = "check"
    BY <1>6 DEF FirstCrawl, Recrawl, BeginCrawl, Reset
  <2>2. holder' = p /\ pc'[p] = "crawling"
    BY <1>6 DEF FirstCrawl, OpenStore, Recrawl, TakeTick, GoTo, IInv, TypeOK,
                StoreHeld, Open
  <2> QED
    BY <2>1, <2>2 DEF CrawlInv, InCrawl
<1>7. ASSUME NEW p \in Processes, Exit(p) \/ (Die(p) /\ holder = p) PROVE CrawlInv'
  BY <1>7 DEF Exit, Die, EndCrawl, Reset, CrawlInv
<1>8. ASSUME NEW p \in Processes, Die(p), holder # p PROVE CrawlInv'
  BY <1>8 DEF Die, Kill, Gone, GoTo, pool, CrawlInv, InCrawl, IInv, TypeOK
<1>9. ASSUME NEW p \in Processes,
             \/ Apart(Start(p)) \/ Apart(StartFails(p)) \/ Apart(Signal(p))
             \/ Apart(Fire(p)) \/ Apart(TakeDone(p))
      PROVE  CrawlInv'
  <2>1. UNCHANGED <<main, wpc>>
    BY <1>9 DEF Apart, pool
  <2>2. InCrawl => InCrawl'
    BY <1>9 DEF Apart, Start, StartFails, Gone, Signal, Fire, TakeDone, GoTo,
                InCrawl, IInv, TypeOK, StoreHeld, Open
  <2> QED
    BY <2>1, <2>2 DEF CrawlInv
<1>10. CASE UNCHANGED allVars
  BY <1>10 DEF allVars, process, pool, CrawlInv, InCrawl
<1> QED
  BY <1>1, <1>2, <1>3, <1>4, <1>5, <1>6, <1>7, <1>8, <1>9, <1>10 DEF ServiceNext

\* No goroutine of a crawl outlives it: none works after closeStore, or beside
\* the next crawl.
THEOREM CrawlStaysInside == ServiceSpec => []WorkInsideCrawl
<1>1. ServiceInit => IInv
  BY InitInv DEF ServiceInit
<1>2. CrawlInv => WorkInsideCrawl
  BY DEF CrawlInv, InCrawl, WorkInsideCrawl
<1>3. IInv /\ CrawlInv /\ [ServiceNext]_allVars => IInv' /\ CrawlInv'
  BY StepInv, StepOfLife, StepCrawlInv
<1> QED
  BY <1>1, <1>2, <1>3, InitCrawlInv, PTL DEF ServiceSpec
-----------------------------------------------------------------------------
\* The theorems about RunAll, of the crawl inside the process.
CP == INSTANCE RunAllProofs WITH
    ctxDone <- holder # None /\ cancelled[holder]

\* The crawl of the process that has the store keeps the invariant of RunAll,
\* its last one still when the loop waits.
PoolInv ==
    /\ holder # None => CP!IInv
    /\ holder # None /\ pc[holder] = "waiting" => main = "returned"

\* Whoever starts a crawl may be cancelled already.
LEMMA FreshCrawlInv ==
    ASSUME IInv', holder' # None, BeginCrawl
    PROVE  CP!IInv'
<1> USE ServiceAssumption
<1>1. CP!TypeOK'
  <2>1. next' \in 1..(NProviders + 1) /\ errCh' \in Seq(CP!Providers)
        /\ errs' \in Seq(CP!Providers)
    BY DEF BeginCrawl, Reset
  <2>2. (holder # None /\ cancelled[holder])' \in BOOLEAN
    BY DEF IInv, TypeOK
  <2>3. wpc' = [w \in CP!Workers |-> "receive"] /\ cfg' = [w \in CP!Workers |-> 0]
    BY DEF BeginCrawl, Reset, CP!Workers, Crawl!Workers
  <2>4. wpc' \in [CP!Workers -> CP!WorkerPC] /\ cfg' \in [CP!Workers -> 0..NProviders]
    BY <2>3 DEF CP!WorkerPC
  <2> QED
    BY <2>1, <2>2, <2>4 DEF BeginCrawl, Reset, CP!TypeOK, CP!MainPC
<1>2. CP!Exclusive' /\ CP!BelowNext' /\ CP!Phases'
  BY DEF BeginCrawl, Reset, CP!Exclusive, CP!BelowNext, CP!Phases, CP!Holding, CP!Busy,
         CP!Workers, Crawl!Workers
<1>3. CP!Queued' /\ CP!Traced' /\ CP!Accounted' /\ CP!EveryFailureReported'
  BY DEF BeginCrawl, Reset, CP!Queued, CP!Traced, CP!Accounted, CP!Providers,
         CP!EveryFailureReported, CP!Workers, Crawl!Workers
<1> QED
  BY <1>1, <1>2, <1>3 DEF CP!IInv

\* A step of the pool, or of its context, is a step of RunAll.
LEMMA PoolStep ==
    ASSUME CP!IInv, [CP!Next]_(CP!vars)
    PROVE  CP!IInv'
  BY ServiceAssumption, CP!StepInv DEF CP!StepInv

LEMMA StepPoolInv ==
    ASSUME IInv, PoolInv, IInv', [ServiceNext]_allVars
    PROVE  PoolInv'
<1> USE HarvesterAssumption DEF PoolInv
<1>1. CASE Dispatch
  <2>1. UNCHANGED <<pc, holder, cancelled>> /\ holder # None
    BY <1>1 DEF Dispatch, Running, process
  <2>2. CP!Next
    BY <1>1 DEF Dispatch, CP!Next, CP!Dispatch, Crawl!CheckCtx, CP!CheckCtx,
                Crawl!CloseCfgs, CP!CloseCfgs, Crawl!Handoff, CP!Handoff,
                CP!Workers, Crawl!Workers
  <2>3. pc'[holder'] # "waiting"
    BY <1>1, <2>1 DEF Dispatch, Running
  <2> QED
    BY <2>1, <2>2, <2>3, PoolStep
<1>2. ASSUME NEW w \in Crawl!Workers, Work(w) PROVE PoolInv'
  <2>1. UNCHANGED <<pc, holder, cancelled>> /\ holder # None
    BY <1>2 DEF Work, Running, process
  <2>2. w \in CP!Workers /\ CP!WorkerStep(w)
    BY <1>2 DEF Work, Crawl!WorkerStep, CP!WorkerStep, Crawl!Drained, CP!Drained,
                Crawl!WorkerCheck, CP!WorkerCheck, Crawl!ProcessOK, CP!ProcessOK,
                Crawl!ProcessFails, CP!ProcessFails, Crawl!Report, CP!Report,
                Crawl!ErrChCapacity, CP!ErrChCapacity, CP!Workers, Crawl!Workers
  <2>3. CP!Next
    BY <2>2 DEF CP!Next
  <2>4. pc'[holder'] # "waiting"
    BY <1>2, <2>1 DEF Work, Running
  <2> QED
    BY <2>1, <2>3, <2>4, PoolStep
<1>3. ASSUME NEW p \in Processes, Return(p) PROVE PoolInv'
  <2>1. UNCHANGED <<holder, cancelled>> /\ CP!Collect
    BY <1>3 DEF Return, CrawlReturns, Crawl!Collect, CP!Collect, CP!Workers, Crawl!Workers
  <2>2. CP!Next /\ main' = "returned"
    BY <2>1 DEF CP!Next, CP!Dispatch, CP!Collect
  <2> QED
    BY <2>1, <2>2, PoolStep
<1>4. ASSUME NEW p \in Processes, FirstCrawl(p) \/ Recrawl(p) PROVE PoolInv'
  <2>1. holder' = p /\ pc'[p] = "crawling" /\ BeginCrawl
    BY <1>4 DEF FirstCrawl, OpenStore, Recrawl, TakeTick, GoTo, IInv, TypeOK,
                StoreHeld, Open
  <2> QED
    BY <2>1, FreshCrawlInv
\* The process that has the store may be gone, or signalled, while it stays put.
<1>5. ASSUME UNCHANGED pool,
             holder' # None => /\ holder' = holder
                               /\ pc'[holder] = "waiting" => pc[holder] = "waiting"
                               /\ cancelled[holder] => cancelled'[holder]
      PROVE  PoolInv'
  <2> SUFFICES ASSUME holder' # None PROVE PoolInv'
    OBVIOUS
  <2>1. CP!Cancel \/ UNCHANGED CP!vars
    BY <1>5 DEF CP!Cancel, CP!vars, pool, IInv, TypeOK
  <2>2. CP!IInv'
    BY <1>5, <2>1, PoolStep DEF CP!Next
  <2> QED
    BY <1>5, <2>2 DEF pool
<1>6. ASSUME NEW w \in Crawl!Workers, Hang(w) PROVE PoolInv'
  BY <1>5, <1>6 DEF Hang, process
<1>7. ASSUME NEW p \in Processes, Exit(p) \/ (Die(p) /\ holder = p) PROVE PoolInv'
  <2>1. holder' = None
    BY <1>7 DEF Exit, Close, Die, Kill, Gone, IInv, TypeOK, StoreHeld, Open
  <2> QED
    BY <2>1
<1>8. ASSUME NEW p \in Processes,
             \/ Stop(p) \/ (Die(p) /\ holder # p)
             \/ Apart(Start(p)) \/ Apart(StartFails(p)) \/ Apart(Signal(p))
             \/ Apart(Fire(p)) \/ Apart(TakeDone(p))
      PROVE  PoolInv'
  <2>1. UNCHANGED pool
    BY <1>8 DEF Stop, Die, Apart
  <2>2. ASSUME holder' # None
        PROVE  /\ holder' = holder
               /\ pc'[holder] = "waiting" => pc[holder] = "waiting"
               /\ cancelled[holder] => cancelled'[holder]
    BY <1>8, <2>2 DEF Stop, CrawlStops, Die, Kill, Gone, GoTo, Apart, Start, StartFails,
       Signal, Fire, TakeDone, IInv, TypeOK, StoreHeld, Open
  <2> QED
    BY <1>5, <2>1, <2>2
<1>9. CASE UNCHANGED allVars
  BY <1>5, <1>9 DEF allVars, process
<1> QED
  BY <1>1, <1>2, <1>3, <1>4, <1>6, <1>7, <1>8, <1>9 DEF ServiceNext

\* A crawl that nobody cancels runs Process for every provider before the loop
\* waits again, whoever was killed or restarted on the file before.
THEOREM EveryProviderServed == ServiceSpec => []ProvidersServed
<1>1. ServiceInit => IInv /\ PoolInv
  BY InitInv, HarvesterAssumption DEF ServiceInit, Init, PoolInv
<1>2. IInv /\ PoolInv /\ [ServiceNext]_allVars => IInv' /\ PoolInv'
  BY StepInv, StepOfLife, StepPoolInv
<1>3. IInv /\ PoolInv => ProvidersServed
  <2> SUFFICES ASSUME IInv, PoolInv, NEW p \in Processes, pc[p] = "waiting", ~cancelled[p]
               PROVE  processed = Crawl!Providers
    BY DEF ProvidersServed
  <2>1. holder = p /\ p # None
    BY HarvesterAssumption DEF IInv, StoreHeld, Open
  <2>2. CP!TypeOK /\ CP!Phases /\ CP!Accounted /\ main = "returned"
    BY <2>1 DEF PoolInv, CP!IInv
  <2>3. next > NProviders
    BY <2>1, <2>2 DEF CP!Phases
  <2>4. ASSUME NEW i \in CP!Providers PROVE i \in processed
    <3>1. i < next
      BY <2>2, <2>3, ServiceAssumption DEF CP!Providers, CP!TypeOK
    <3> QED
      BY <2>1, <2>2, <3>1 DEF CP!Accounted, CP!Phases, CP!Holds
  <2> QED
    BY <2>2, <2>4 DEF CP!TypeOK, CP!Providers, Crawl!Providers
<1> QED
  BY <1>1, <1>2, <1>3, PTL DEF ServiceSpec
=============================================================================
