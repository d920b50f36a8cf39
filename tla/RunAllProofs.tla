---------------------------- MODULE RunAllProofs ----------------------------
(***************************************************************************)
(* What holds of RunAll for every number of providers and of workers.      *)
(***************************************************************************)
EXTENDS RunAll, FiniteSetTheorems, TLAPS

(***************************************************************************)
(* The inductive invariant.                                                *)
(***************************************************************************)

Busy(w) == wpc[w] \in {"check", "process", "report"}

\* Worker w has a provider nobody else may have: it is at work on it, or it
\* has left with it before the channel was closed.
Holding(w) == Busy(w) \/ (wpc[w] = "exited" /\ ~closed)

Exclusive ==
    \A v, w \in Workers : Holding(v) /\ Holding(w) /\ cfg[v] = cfg[w] => v = w

BelowNext == \A w \in Workers : Holding(w) => cfg[w] \in 1..(next - 1)

\* What waits in errCh was put there once, by a worker that is past it.
Queued ==
    /\ \A k \in DOMAIN errCh : errCh[k] < next
    /\ \A k, l \in DOMAIN errCh : errCh[k] = errCh[l] => k = l
    /\ \A w \in Workers, k \in DOMAIN errCh : Holding(w) => cfg[w] # errCh[k]

\* A failure is on its way to errCh, or in it.
Traced ==
    main # "returned" =>
        \A i \in Providers :
            i \in failed <=> \/ \E w \in Workers : wpc[w] = "report" /\ cfg[w] = i
                             \/ \E k \in DOMAIN errCh : errCh[k] = i

\* Every provider handed out is processed or held, until a cancellation.
Accounted ==
    \A i \in Providers : i < next /\ i \notin processed /\ ~ctxDone
        => \E w \in Workers : Holds(w) /\ cfg[w] = i

Phases ==
    /\ main = "send" => next <= NProviders
    /\ closed <=> main \in {"wait", "returned"}
    /\ closed => ctxDone \/ next > NProviders
    /\ main = "returned" => \A w \in Workers : wpc[w] = "exited"
    /\ \A w \in Workers : wpc[w] = "exited" => closed \/ ctxDone

IInv ==
    /\ TypeOK
    /\ Exclusive
    /\ BelowNext
    /\ Queued
    /\ Traced
    /\ Accounted
    /\ Phases
    /\ EveryFailureReported
-----------------------------------------------------------------------------
LEMMA InitInv == Init => IInv
<1> SUFFICES ASSUME Init PROVE IInv
  OBVIOUS
<1> USE ConstantsAssumption
<1>1. TypeOK
  <2>1. next \in 1..(NProviders + 1)
    BY DEF Init
  <2>2. cfg \in [Workers -> 0..NProviders]
    BY DEF Init
  <2>3. errCh \in Seq(Providers) /\ errs \in Seq(Providers)
    BY DEF Init
  <2> QED
    BY <2>1, <2>2, <2>3 DEF Init, TypeOK, MainPC, WorkerPC
<1>2. Exclusive /\ BelowNext /\ Phases
  BY DEF Init, Exclusive, BelowNext, Phases, Holding, Busy
<1>3. Queued /\ Traced /\ Accounted /\ EveryFailureReported
  BY DEF Init, Queued, Traced, Accounted, Providers, EveryFailureReported
<1> QED
  BY <1>1, <1>2, <1>3 DEF IInv

LEMMA StepInv == IInv /\ [Next]_vars => IInv'
<1> SUFFICES ASSUME IInv, [Next]_vars PROVE IInv'
  OBVIOUS
<1> USE ConstantsAssumption DEF IInv, MainPC, WorkerPC
<1>1. CASE CheckCtx
  <2>1. TypeOK'
    BY <1>1 DEF CheckCtx, TypeOK, Phases, Providers
  <2>2. Exclusive'
    BY <1>1 DEF CheckCtx, TypeOK, Exclusive, BelowNext, Holding, Busy, Phases
  <2>3. BelowNext'
    BY <1>1 DEF CheckCtx, TypeOK, BelowNext, Holding, Busy, Phases
  <2>4. Queued'
    BY <1>1 DEF CheckCtx, TypeOK, Queued, Exclusive, BelowNext, Holding, Busy, Phases, Providers
  <2>5. Traced'
    BY <1>1 DEF CheckCtx, TypeOK, Traced, Phases, Providers
  <2>6. Phases'
    BY <1>1 DEF CheckCtx, TypeOK, Phases
  <2>7. EveryFailureReported'
    BY <1>1 DEF CheckCtx, TypeOK, EveryFailureReported, Phases
  <2>8. Accounted'
    BY <1>1 DEF CheckCtx, TypeOK, Accounted, BelowNext, Holding, Busy, Holds, Providers
  <2> QED
    BY <2>1, <2>2, <2>3, <2>4, <2>5, <2>6, <2>7, <2>8
<1>2. CASE CloseCfgs
  <2>1. TypeOK'
    BY <1>2 DEF CloseCfgs, TypeOK, Phases, Providers
  <2>2. Exclusive'
    BY <1>2 DEF CloseCfgs, TypeOK, Exclusive, BelowNext, Holding, Busy, Phases
  <2>3. BelowNext'
    BY <1>2 DEF CloseCfgs, TypeOK, BelowNext, Holding, Busy, Phases
  <2>4. Queued'
    BY <1>2 DEF CloseCfgs, TypeOK, Queued, Exclusive, BelowNext, Holding, Busy, Phases, Providers
  <2>5. Traced'
    BY <1>2 DEF CloseCfgs, TypeOK, Traced, Phases, Providers
  <2>6. Phases'
    BY <1>2 DEF CloseCfgs, TypeOK, Phases
  <2>7. EveryFailureReported'
    BY <1>2 DEF CloseCfgs, TypeOK, EveryFailureReported, Phases
  <2>8. Accounted'
    BY <1>2 DEF CloseCfgs, TypeOK, Accounted, BelowNext, Holding, Busy, Holds, Providers
  <2> QED
    BY <2>1, <2>2, <2>3, <2>4, <2>5, <2>6, <2>7, <2>8
<1>3. CASE Collect
  <2>1. TypeOK'
    BY <1>3 DEF Collect, TypeOK, Phases, Providers
  <2>2. Exclusive'
    BY <1>3 DEF Collect, TypeOK, Exclusive, BelowNext, Holding, Busy, Phases
  <2>3. BelowNext'
    BY <1>3 DEF Collect, TypeOK, BelowNext, Holding, Busy, Phases
  <2>4. Queued'
    BY <1>3 DEF Collect, TypeOK, Queued, Exclusive, BelowNext, Holding, Busy, Phases, Providers
  <2>5. Traced'
    BY <1>3 DEF Collect, TypeOK, Traced, Phases, Providers
  <2>6. Phases'
    BY <1>3 DEF Collect, TypeOK, Phases
  <2>7. EveryFailureReported'
    <3>1. errs' = errCh /\ failed' = failed /\ main # "returned"
      BY <1>3 DEF Collect
    <3>2. failed = {errCh[k] : k \in DOMAIN errCh}
      <4>1. \A i \in Providers :
               i \in failed <=> \E k \in DOMAIN errCh : errCh[k] = i
        BY <1>3 DEF Collect, Traced
      <4>2. \A k \in DOMAIN errCh : errCh[k] \in Providers
        BY DEF TypeOK
      <4> QED
        BY <4>1, <4>2 DEF TypeOK
    <3> QED
      BY <3>1, <3>2 DEF EveryFailureReported, Queued
  <2>8. Accounted'
    BY <1>3 DEF Collect, TypeOK, Accounted, BelowNext, Holding, Busy, Holds, Providers
  <2> QED
    BY <2>1, <2>2, <2>3, <2>4, <2>5, <2>6, <2>7, <2>8
<1>4. ASSUME NEW w \in Workers, Handoff(w)
       PROVE  IInv'
  <2>1. TypeOK'
    BY <1>4 DEF Handoff, TypeOK, Phases, Providers
  <2>2. Exclusive'
    BY <1>4 DEF Handoff, TypeOK, Exclusive, BelowNext, Holding, Busy, Phases
  <2>3. BelowNext'
    BY <1>4 DEF Handoff, TypeOK, BelowNext, Holding, Busy, Phases
  <2>4. Queued'
    BY <1>4 DEF Handoff, TypeOK, Queued, Exclusive, BelowNext, Holding, Busy, Phases, Providers
  <2>5. Traced'
    BY <1>4 DEF Handoff, TypeOK, Traced, Phases, Providers
  <2>6. Phases'
    BY <1>4 DEF Handoff, TypeOK, Phases
  <2>7. EveryFailureReported'
    BY <1>4 DEF Handoff, TypeOK, EveryFailureReported, Phases
  <2>8. Accounted'
    <3> SUFFICES ASSUME NEW i \in Providers, i < next', i \notin processed, ~ctxDone
                 PROVE  \E v \in Workers : Holds(v)' /\ cfg'[v] = i
      BY <1>4 DEF Handoff, Accounted
    <3>1. CASE i = next
      BY <1>4, <3>1 DEF Handoff, TypeOK, Holds
    <3>2. CASE i < next
      <4> PICK v \in Workers : Holds(v) /\ cfg[v] = i
        BY <3>2 DEF Accounted
      <4>1. v # w
        BY <1>4 DEF Handoff, Holds
      <4> QED
        BY <1>4, <4>1 DEF Handoff, TypeOK, Holds
    <3> QED
      BY <1>4, <3>1, <3>2 DEF Handoff, TypeOK, Providers
  <2> QED
    BY <2>1, <2>2, <2>3, <2>4, <2>5, <2>6, <2>7, <2>8
<1>5. ASSUME NEW w \in Workers, Drained(w)
       PROVE  IInv'
  <2>1. TypeOK'
    BY <1>5 DEF Drained, TypeOK, Phases, Providers
  <2>2. Exclusive'
    BY <1>5 DEF Drained, TypeOK, Exclusive, BelowNext, Holding, Busy, Phases
  <2>3. BelowNext'
    BY <1>5 DEF Drained, TypeOK, BelowNext, Holding, Busy, Phases
  <2>4. Queued'
    BY <1>5 DEF Drained, TypeOK, Queued, Exclusive, BelowNext, Holding, Busy, Phases, Providers
  <2>5. Traced'
    BY <1>5 DEF Drained, TypeOK, Traced, Phases, Providers
  <2>6. Phases'
    BY <1>5 DEF Drained, TypeOK, Phases
  <2>7. EveryFailureReported'
    BY <1>5 DEF Drained, TypeOK, EveryFailureReported, Phases
  <2>8. Accounted'
    BY <1>5 DEF Drained, TypeOK, Accounted, BelowNext, Holding, Busy, Holds, Providers
  <2> QED
    BY <2>1, <2>2, <2>3, <2>4, <2>5, <2>6, <2>7, <2>8
<1>6. ASSUME NEW w \in Workers, WorkerCheck(w)
       PROVE  IInv'
  <2>1. TypeOK'
    BY <1>6 DEF WorkerCheck, TypeOK, Phases, Providers
  <2>2. Exclusive'
    BY <1>6 DEF WorkerCheck, TypeOK, Exclusive, BelowNext, Holding, Busy, Phases
  <2>3. BelowNext'
    BY <1>6 DEF WorkerCheck, TypeOK, BelowNext, Holding, Busy, Phases
  <2>4. Queued'
    BY <1>6 DEF WorkerCheck, TypeOK, Queued, Exclusive, BelowNext, Holding, Busy, Phases, Providers
  <2>5. Traced'
    BY <1>6 DEF WorkerCheck, TypeOK, Traced, Phases, Providers
  <2>6. Phases'
    BY <1>6 DEF WorkerCheck, TypeOK, Phases
  <2>7. EveryFailureReported'
    BY <1>6 DEF WorkerCheck, TypeOK, EveryFailureReported, Phases
  <2>8. Accounted'
    BY <1>6 DEF WorkerCheck, TypeOK, Accounted, BelowNext, Holding, Busy, Holds, Providers
  <2> QED
    BY <2>1, <2>2, <2>3, <2>4, <2>5, <2>6, <2>7, <2>8
<1>7. ASSUME NEW w \in Workers, ProcessOK(w)
       PROVE  IInv'
  <2>1. TypeOK'
    <3>1. cfg[w] \in Providers
      BY <1>7 DEF ProcessOK, TypeOK, BelowNext, Holding, Busy, Providers
    <3> QED
      BY <1>7, <3>1 DEF ProcessOK, TypeOK
  <2>2. Exclusive'
    BY <1>7 DEF ProcessOK, TypeOK, Exclusive, BelowNext, Holding, Busy, Phases
  <2>3. BelowNext'
    BY <1>7 DEF ProcessOK, TypeOK, BelowNext, Holding, Busy, Phases
  <2>4. Queued'
    BY <1>7 DEF ProcessOK, TypeOK, Queued, Exclusive, BelowNext, Holding, Busy, Phases, Providers
  <2>5. Traced'
    BY <1>7 DEF ProcessOK, TypeOK, Traced, Phases, Providers
  <2>6. Phases'
    BY <1>7 DEF ProcessOK, TypeOK, Phases
  <2>7. EveryFailureReported'
    BY <1>7 DEF ProcessOK, TypeOK, EveryFailureReported, Phases
  <2>8. Accounted'
    BY <1>7 DEF ProcessOK, TypeOK, Accounted, BelowNext, Holding, Busy, Holds, Providers
  <2> QED
    BY <2>1, <2>2, <2>3, <2>4, <2>5, <2>6, <2>7, <2>8
<1>8. ASSUME NEW w \in Workers, ProcessFails(w)
       PROVE  IInv'
  <2>1. TypeOK'
    <3>1. cfg[w] \in Providers
      BY <1>8 DEF ProcessFails, TypeOK, BelowNext, Holding, Busy, Providers
    <3> QED
      BY <1>8, <3>1 DEF ProcessFails, TypeOK
  <2>2. Exclusive'
    BY <1>8 DEF ProcessFails, TypeOK, Exclusive, BelowNext, Holding, Busy, Phases
  <2>3. BelowNext'
    BY <1>8 DEF ProcessFails, TypeOK, BelowNext, Holding, Busy, Phases
  <2>4. Queued'
    BY <1>8 DEF ProcessFails, TypeOK, Queued, Exclusive, BelowNext, Holding, Busy, Phases, Providers
  <2>5. Traced'
    BY <1>8 DEF ProcessFails, TypeOK, Traced, Phases, Providers
  <2>6. Phases'
    BY <1>8 DEF ProcessFails, TypeOK, Phases
  <2>7. EveryFailureReported'
    BY <1>8 DEF ProcessFails, TypeOK, EveryFailureReported, Phases
  <2>8. Accounted'
    BY <1>8 DEF ProcessFails, TypeOK, Accounted, BelowNext, Holding, Busy, Holds, Providers
  <2> QED
    BY <2>1, <2>2, <2>3, <2>4, <2>5, <2>6, <2>7, <2>8
<1>9. ASSUME NEW w \in Workers, Report(w)
       PROVE  IInv'
  <2>a. cfg[w] \in Providers /\ cfg[w] < next /\ Holding(w)
    BY <1>9 DEF Report, TypeOK, BelowNext, Holding, Busy, Providers
  <2>b. /\ errCh \in Seq(Providers) /\ errCh' = Append(errCh, cfg[w])
        /\ errCh' \in Seq(Providers) /\ Len(errCh') = Len(errCh) + 1
        /\ DOMAIN errCh = 1..Len(errCh)
        /\ DOMAIN errCh' = 1..(Len(errCh) + 1)
        /\ \A k \in DOMAIN errCh : errCh'[k] = errCh[k]
        /\ errCh'[Len(errCh) + 1] = cfg[w]
        /\ Len(errCh) \in Nat
    BY <1>9, <2>a DEF Report, TypeOK
  <2>c. DOMAIN errCh' = DOMAIN errCh \cup {Len(errCh) + 1}
    BY <2>b
  <2>d. \A v \in Workers : Holding(v)' => Holding(v) /\ v # w
    BY <1>9 DEF Report, TypeOK, Holding, Busy
  <2>1. TypeOK'
    BY <1>9, <2>b DEF Report, TypeOK
  <2>2. Exclusive'
    BY <1>9, <2>d DEF Report, Exclusive
  <2>3. BelowNext'
    BY <1>9, <2>d DEF Report, BelowNext
  <2>4. Queued'
    <3>1. \A k \in DOMAIN errCh' : errCh'[k] < next'
      BY <1>9, <2>a, <2>b, <2>c DEF Report, Queued
    <3>2. \A k \in DOMAIN errCh : errCh'[k] # cfg[w]
      BY <2>a, <2>b DEF Queued
    <3>3. \A k, l \in DOMAIN errCh' : errCh'[k] = errCh'[l] => k = l
      BY <2>b, <2>c, <3>2 DEF Queued
    <3>4. ASSUME NEW v \in Workers, NEW k \in DOMAIN errCh', Holding(v)'
          PROVE  cfg'[v] # errCh'[k]
      <4>1. cfg' = cfg /\ Holding(v) /\ v # w
        BY <1>9, <2>d, <3>4 DEF Report
      <4>2. CASE k \in DOMAIN errCh
        BY <4>1, <4>2, <2>b DEF Queued
      <4>3. CASE k = Len(errCh) + 1
        BY <4>1, <4>3, <2>a, <2>b DEF Exclusive
      <4> QED
        BY <4>2, <4>3, <2>c
    <3> QED
      BY <3>1, <3>3, <3>4 DEF Queued
  <2>5. Traced'
    <3> SUFFICES ASSUME main # "returned", NEW i \in Providers
                 PROVE  i \in failed <=>
                          \/ \E v \in Workers : wpc'[v] = "report" /\ cfg[v] = i
                          \/ \E k \in DOMAIN errCh' : errCh'[k] = i
      BY <1>9 DEF Report, Traced
    <3>1. i \in failed <=> \/ \E v \in Workers : wpc[v] = "report" /\ cfg[v] = i
                           \/ \E k \in DOMAIN errCh : errCh[k] = i
      BY DEF Traced
    <3>2. \A v \in Workers : wpc[v] = "report" <=> (v = w \/ wpc'[v] = "report")
      BY <1>9 DEF Report, TypeOK
    <3>3. (\E k \in DOMAIN errCh' : errCh'[k] = i)
            <=> cfg[w] = i \/ \E k \in DOMAIN errCh : errCh[k] = i
      BY <2>b, <2>c
    <3> QED
      BY <3>1, <3>2, <3>3
  <2>6. Phases'
    BY <1>9 DEF Report, TypeOK, Phases
  <2>7. EveryFailureReported'
    BY <1>9 DEF Report, TypeOK, EveryFailureReported, Phases
  <2>8. Accounted'
    BY <1>9 DEF Report, TypeOK, Accounted, BelowNext, Holding, Busy, Holds, Providers
  <2> QED
    BY <2>1, <2>2, <2>3, <2>4, <2>5, <2>6, <2>7, <2>8
<1>10. CASE Cancel
  <2>1. TypeOK'
    BY <1>10 DEF Cancel, TypeOK, Phases, Providers
  <2>2. Exclusive'
    BY <1>10 DEF Cancel, TypeOK, Exclusive, BelowNext, Holding, Busy, Phases
  <2>3. BelowNext'
    BY <1>10 DEF Cancel, TypeOK, BelowNext, Holding, Busy, Phases
  <2>4. Queued'
    BY <1>10 DEF Cancel, TypeOK, Queued, Exclusive, BelowNext, Holding, Busy, Phases, Providers
  <2>5. Traced'
    BY <1>10 DEF Cancel, TypeOK, Traced, Phases, Providers
  <2>6. Phases'
    BY <1>10 DEF Cancel, TypeOK, Phases
  <2>7. EveryFailureReported'
    BY <1>10 DEF Cancel, TypeOK, EveryFailureReported, Phases
  <2>8. Accounted'
    BY <1>10 DEF Cancel, TypeOK, Accounted, BelowNext, Holding, Busy, Holds, Providers
  <2> QED
    BY <2>1, <2>2, <2>3, <2>4, <2>5, <2>6, <2>7, <2>8
<1>11. CASE UNCHANGED vars
  BY <1>11 DEF vars, TypeOK, Exclusive, BelowNext, Queued, Traced, Accounted, Holds,
                Phases, EveryFailureReported, Holding, Busy
<1>12. CASE Terminated
  BY <1>11, <1>12 DEF Terminated
<1> QED
  BY <1>1, <1>2, <1>3, <1>4, <1>5, <1>6, <1>7, <1>8, <1>9, <1>10, <1>11, <1>12 DEF Next, Dispatch, WorkerStep

LEMMA IInvAlways == Spec => []IInv
  BY InitInv, StepInv, PTL DEF Spec

-----------------------------------------------------------------------------
(***************************************************************************)
(* Every variable keeps its type.                                          *)
(***************************************************************************)
THEOREM TypeCorrect == Spec => []TypeOK
  BY IInvAlways, PTL DEF IInv

(***************************************************************************)
(* The error Run returns names every provider that failed, once.           *)
(***************************************************************************)
THEOREM FailuresReported == Spec => []EveryFailureReported
  BY IInvAlways, PTL DEF IInv

(***************************************************************************)
(* A channel with room for one error per provider never blocks a worker:   *)
(* the errors in it are of different providers, none of them the one in    *)
(* the hand of the worker that reports.                                    *)
(***************************************************************************)
THEOREM ReportNeverBlocks == Spec => []ErrChHasRoom
<1>1. IInv => ErrChHasRoom
  <2> SUFFICES ASSUME IInv, NEW w \in Workers, wpc[w] = "report",
                      ~(Len(errCh) < NProviders)
               PROVE  FALSE
    BY DEF ErrChHasRoom, ErrChCapacity
  <2> USE ConstantsAssumption
  <2> DEFINE n == Len(errCh)
             S == 1..(n + 1)
             held == [k \in S |-> IF k <= n THEN errCh[k] ELSE cfg[w]]
  <2>1. n \in Nat /\ n >= NProviders /\ errCh \in [1..n -> Providers]
    BY DEF IInv, TypeOK
  <2>2. Holding(w) /\ cfg[w] \in Providers
    BY DEF IInv, TypeOK, BelowNext, Holding, Busy, Providers
  <2>3. held \in [S -> Providers]
    BY <2>1, <2>2
  <2>4. /\ IsFiniteSet(S) /\ Cardinality(S) = n + 1
        /\ IsFiniteSet(Providers) /\ Cardinality(Providers) = NProviders
    BY <2>1, FS_Interval DEF Providers
  <2>5. Cardinality(Providers) < Cardinality(S)
    BY <2>1, <2>4
  <2>6. \A k, l \in S : held[k] = held[l] => k = l
    <3>1. DOMAIN errCh = 1..n
      BY DEF IInv, TypeOK
    <3>2. \A k, l \in 1..n : errCh[k] = errCh[l] => k = l
      BY <3>1 DEF IInv, Queued
    <3>3. \A k \in 1..n : errCh[k] # cfg[w]
      BY <2>2, <3>1 DEF IInv, Queued
    <3> QED
      BY <2>1, <3>2, <3>3
  <2> HIDE DEF held, S
  <2>7. \E k, l \in S : k # l /\ held[k] = held[l]
    BY <2>3, <2>4, <2>5, FS_PigeonHole
  <2> QED
    BY <2>6, <2>7
<1> QED
  BY <1>1, IInvAlways, PTL

(***************************************************************************)
(* runAll is left without a receiver only after a cancellation and only if *)
(* there are more providers than workers.                                  *)
(***************************************************************************)
THEOREM StrandedByCancelOnly == Spec => []StrandedOnlyByCancel
<1>1. IInv => StrandedOnlyByCancel
  <2> SUFFICES ASSUME IInv, Stranded
               PROVE  ctxDone /\ NProviders > MaxProviderWorkers
    BY DEF StrandedOnlyByCancel
  <2> DEFINE n == IF NProviders <= MaxProviderWorkers THEN NProviders
                                                      ELSE MaxProviderWorkers
             T == 1..(next - 1)
  <2> USE ConstantsAssumption
  <2>1. Workers = 1..n /\ n \in Nat \ {0} /\ next \in 1..NProviders /\ ~closed
    BY DEF IInv, TypeOK, Phases, Stranded, Workers
  <2>2. \A w \in Workers : Holding(w)
    BY <2>1 DEF Stranded, Holding
  <2>3. ctxDone
    BY <2>1 DEF IInv, Phases, Stranded
  <2>4. cfg \in [Workers -> T]
    BY <2>2 DEF IInv, TypeOK, BelowNext
  <2>5. ~(n > next - 1)
    <3> SUFFICES ASSUME n > next - 1 PROVE FALSE
      OBVIOUS
    <3>1. IsFiniteSet(Workers) /\ Cardinality(Workers) = n
      BY <2>1, FS_Interval
    <3>2. IsFiniteSet(T) /\ Cardinality(T) = next - 1
      BY <2>1, FS_Interval
    <3>3. Cardinality(T) < Cardinality(Workers)
      BY <2>1, <3>1, <3>2
    <3> HIDE DEF T
    <3>4. \E v, w \in Workers : v # w /\ cfg[v] = cfg[w]
      BY <3>1, <3>2, <3>3, <2>4, FS_PigeonHole
    <3> QED
      BY <3>4, <2>2 DEF IInv, Exclusive
  <2> QED
    BY <2>1, <2>3, <2>5
<1> QED
  BY <1>1, IInvAlways, PTL

(***************************************************************************)
(* runAll implements the job pool: providers are handed out in order, each *)
(* is processed at most once, one is given up only after a cancellation,   *)
(* and the call ends when nobody works any more.                           *)
(***************************************************************************)
THEOREM ImplementsPool == Spec => PoolSpec
<1> DEFINE active == {cfg[w] : w \in {v \in Workers : Holds(v)}}
           ended == (main = "returned")
<1>1. Init => Pool!Init
  BY DEF Init, Pool!Init, Holds
<1>2. IInv /\ [Next]_vars => [Pool!Next]_(Pool!vars)
  <2> SUFFICES ASSUME IInv, [Next]_vars
               PROVE  [Pool!Next]_(Pool!vars)
    OBVIOUS
  <2> USE DEF IInv
  <2>1. ASSUME NEW w \in Workers, Handoff(w)
        PROVE  Pool!Take
    <3>1. \A v \in Workers : Holds(v)' <=> Holds(v) \/ v = w
      BY <2>1 DEF Handoff, TypeOK, Holds
    <3>2. \A v \in Workers : cfg'[v] = IF v = w THEN next ELSE cfg[v]
      BY <2>1 DEF Handoff, TypeOK
    <3>3. ~Holds(w)
      BY <2>1 DEF Handoff, Holds
    <3>4. active' = active \cup {next}
      BY <3>1, <3>2, <3>3
    <3> QED
      BY <2>1, <3>4 DEF Handoff, Pool!Take, Phases
  <2>2. ASSUME NEW w \in Workers, Holds(w), cfg' = cfg,
               \A v \in Workers : Holds(v)' <=> Holds(v) /\ v # w
        PROVE  active' = active \ {cfg[w]} /\ cfg[w] \in active
    BY <2>2 DEF Exclusive, Holding, Busy, Holds
  <2>3. ASSUME NEW w \in Workers, WorkerCheck(w), ctxDone
        PROVE  Pool!Drop(cfg[w])
    <3>1. active' = active \ {cfg[w]} /\ cfg[w] \in active
      BY <2>2, <2>3 DEF WorkerCheck, TypeOK, Holds
    <3> QED
      BY <2>3, <3>1 DEF WorkerCheck, Pool!Drop
  <2>4. ASSUME NEW w \in Workers, ProcessOK(w) \/ ProcessFails(w)
        PROVE  Pool!Handle(cfg[w])
    <3>1. active' = active \ {cfg[w]} /\ cfg[w] \in active
      BY <2>2, <2>4 DEF ProcessOK, ProcessFails, TypeOK, Holds
    <3> QED
      BY <2>4, <3>1 DEF ProcessOK, ProcessFails, Pool!Handle
  <2>5. ASSUME Collect
        PROVE  Pool!End
    <3>1. active = {} /\ active' = {}
      BY <2>5 DEF Collect, Holds
    <3>2. ctxDone \/ processed = 1..NProviders
      <4> SUFFICES ASSUME ~ctxDone, NEW i \in Providers
                   PROVE  i \in processed
        BY DEF TypeOK, Providers
      <4>1. i < next
        BY <2>5, ConstantsAssumption DEF Collect, Phases, TypeOK, Providers
      <4> QED
        BY <2>5, <4>1 DEF Collect, Accounted, Holds
    <3> QED
      BY <2>5, <3>1, <3>2 DEF Collect, Pool!End
  <2>6. ASSUME Cancel PROVE Pool!Cancel
    BY <2>6 DEF Cancel, Pool!Cancel, Holds
  <2>7. ASSUME \/ CheckCtx \/ CloseCfgs \/ Terminated \/ UNCHANGED vars
               \/ \E w \in Workers : Drained(w) \/ Report(w)
               \/ \E w \in Workers : WorkerCheck(w) /\ ~ctxDone
        PROVE  UNCHANGED Pool!vars
    <3>1. \A v \in Workers : Holds(v)' <=> Holds(v)
      BY <2>7 DEF CheckCtx, CloseCfgs, Terminated, vars, Drained, Report,
                  WorkerCheck, TypeOK, Holds
    <3>2. /\ cfg' = cfg /\ processed' = processed /\ ctxDone' = ctxDone
          /\ next' = next /\ ended' = ended
      BY <2>7 DEF CheckCtx, CloseCfgs, Terminated, vars, Drained, Report,
                  WorkerCheck
    <3> QED
      BY <3>1, <3>2 DEF Pool!vars
  <2> QED
    <3>1. ASSUME NEW w \in Workers
          PROVE  /\ Pool!Handle(cfg[w]) => Pool!Next
                 /\ Pool!Drop(cfg[w]) => Pool!Next
      BY DEF Pool!Next, Pool!Handle, Pool!Drop
    <3> QED
      BY <2>1, <2>3, <2>4, <2>5, <2>6, <2>7, <3>1
         DEF Next, Dispatch, WorkerStep, Pool!Next
<1> QED
  BY <1>1, <1>2, IInvAlways, PTL DEF Spec, PoolSpec, Pool!Spec
=============================================================================
