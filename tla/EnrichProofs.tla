---------------------------- MODULE EnrichProofs ----------------------------
(***************************************************************************)
(* What holds of Enrich for every number of articles and of workers.       *)
(***************************************************************************)
EXTENDS Enrich, FiniteSetTheorems, TLAPS

(***************************************************************************)
(* The inductive invariant.                                                *)
(***************************************************************************)

\* Worker w has an index nobody else may have: it is at work on it, or it has
\* left with it before the channel was closed.
Holding(w) == Busy(w) \/ (wpc[w] = "exited" /\ ~closed)

Exclusive ==
    \A v, w \in Workers : Holding(v) /\ Holding(w) /\ job[v] = job[w] => v = w

BelowNext == \A w \in Workers : Holding(w) => job[w] \in 1..(next - 1)

NotYetWritten ==
    /\ \A w \in Workers : Busy(w) => out[job[w]] = "copied"
    /\ \A i \in Articles : i >= next => out[i] = "copied"

\* Every index handed out is written or held, until a cancellation.
Accounted ==
    \A i \in Articles : i < next /\ out[i] = "copied" /\ ~ctxDone
        => \E w \in Workers : Busy(w) /\ job[w] = i

Phases ==
    /\ main = "send" => next <= NArticles
    /\ closed <=> main \in {"wait", "returned"}
    /\ closed => ctxDone \/ next > NArticles
    /\ main = "returned" => \A w \in Workers : wpc[w] = "exited"
    /\ \A w \in Workers : wpc[w] = "exited" => closed \/ ctxDone

IInv ==
    /\ TypeOK
    /\ Exclusive
    /\ BelowNext
    /\ NotYetWritten
    /\ Accounted
    /\ Phases
-----------------------------------------------------------------------------
LEMMA InitInv == Init => IInv
<1> SUFFICES ASSUME Init PROVE IInv
  OBVIOUS
<1> USE ConstantsAssumption
<1>1. TypeOK
  <2>1. next \in 1..(NArticles + 1)
    BY DEF Init
  <2>2. job \in [Workers -> 0..NArticles]
    BY DEF Init
  <2> QED
    BY <2>1, <2>2 DEF Init, TypeOK, DispatcherPC, WorkerPC, SlotState
<1>2. Exclusive /\ BelowNext
  BY DEF Init, Exclusive, BelowNext, Holding, Busy
<1>3. NotYetWritten /\ Accounted
  BY DEF Init, NotYetWritten, Accounted, Busy, Articles
<1>4. Phases
  BY DEF Init, Phases
<1> QED
  BY <1>1, <1>2, <1>3, <1>4 DEF IInv

LEMMA StepInv == IInv /\ [Next]_vars => IInv'
<1> SUFFICES ASSUME IInv, [Next]_vars PROVE IInv'
  OBVIOUS
<1> USE ConstantsAssumption DEF IInv, DispatcherPC, WorkerPC, SlotState
<1>1. CASE CheckCtx
  <2>1. TypeOK'
    BY <1>1 DEF CheckCtx, TypeOK, Articles
  <2>2. Exclusive'
    BY <1>1 DEF CheckCtx, TypeOK, Exclusive, BelowNext, Holding, Busy, Phases
  <2>3. BelowNext'
    BY <1>1 DEF CheckCtx, TypeOK, BelowNext, Holding, Busy, Phases
  <2>4. NotYetWritten'
    BY <1>1 DEF CheckCtx, TypeOK, NotYetWritten, Exclusive, BelowNext, Holding, Busy, Phases, Articles
  <2>5. Accounted'
    BY <1>1 DEF CheckCtx, TypeOK, Accounted, BelowNext, Holding, Busy, Articles
  <2>6. Phases'
    BY <1>1 DEF CheckCtx, TypeOK, Phases, Articles
  <2> QED
    BY <2>1, <2>2, <2>3, <2>4, <2>5, <2>6
<1>2. CASE CloseJobs
  <2>1. TypeOK'
    BY <1>2 DEF CloseJobs, TypeOK, Articles
  <2>2. Exclusive'
    BY <1>2 DEF CloseJobs, TypeOK, Exclusive, BelowNext, Holding, Busy, Phases
  <2>3. BelowNext'
    BY <1>2 DEF CloseJobs, TypeOK, BelowNext, Holding, Busy, Phases
  <2>4. NotYetWritten'
    BY <1>2 DEF CloseJobs, TypeOK, NotYetWritten, Exclusive, BelowNext, Holding, Busy, Phases, Articles
  <2>5. Accounted'
    BY <1>2 DEF CloseJobs, TypeOK, Accounted, BelowNext, Holding, Busy, Articles
  <2>6. Phases'
    BY <1>2 DEF CloseJobs, TypeOK, Phases, Articles
  <2> QED
    BY <2>1, <2>2, <2>3, <2>4, <2>5, <2>6
<1>3. CASE Return
  <2>1. TypeOK'
    BY <1>3 DEF Return, TypeOK, Articles
  <2>2. Exclusive'
    BY <1>3 DEF Return, TypeOK, Exclusive, BelowNext, Holding, Busy, Phases
  <2>3. BelowNext'
    BY <1>3 DEF Return, TypeOK, BelowNext, Holding, Busy, Phases
  <2>4. NotYetWritten'
    BY <1>3 DEF Return, TypeOK, NotYetWritten, Exclusive, BelowNext, Holding, Busy, Phases, Articles
  <2>5. Accounted'
    BY <1>3 DEF Return, TypeOK, Accounted, BelowNext, Holding, Busy, Articles
  <2>6. Phases'
    BY <1>3 DEF Return, TypeOK, Phases, Articles
  <2> QED
    BY <2>1, <2>2, <2>3, <2>4, <2>5, <2>6
<1>4. ASSUME NEW w \in Workers, Handoff(w)
       PROVE  IInv'
  <2>1. TypeOK'
    BY <1>4 DEF Handoff, TypeOK, Phases, Articles
  <2>2. Exclusive'
    BY <1>4 DEF Handoff, TypeOK, Exclusive, BelowNext, Holding, Busy, Phases
  <2>3. BelowNext'
    BY <1>4 DEF Handoff, TypeOK, BelowNext, Holding, Busy, Phases
  <2>4. NotYetWritten'
    BY <1>4 DEF Handoff, TypeOK, NotYetWritten, Exclusive, BelowNext, Holding, Busy, Phases, Articles
  <2>5. Accounted'
    BY <1>4 DEF Handoff, TypeOK, Accounted, BelowNext, Holding, Busy, Articles
  <2>6. Phases'
    BY <1>4 DEF Handoff, TypeOK, Phases, Articles
  <2> QED
    BY <2>1, <2>2, <2>3, <2>4, <2>5, <2>6
<1>5. ASSUME NEW w \in Workers, Drained(w)
       PROVE  IInv'
  <2>1. TypeOK'
    BY <1>5 DEF Drained, TypeOK, Articles
  <2>2. Exclusive'
    BY <1>5 DEF Drained, TypeOK, Exclusive, BelowNext, Holding, Busy, Phases
  <2>3. BelowNext'
    BY <1>5 DEF Drained, TypeOK, BelowNext, Holding, Busy, Phases
  <2>4. NotYetWritten'
    BY <1>5 DEF Drained, TypeOK, NotYetWritten, Exclusive, BelowNext, Holding, Busy, Phases, Articles
  <2>5. Accounted'
    BY <1>5 DEF Drained, TypeOK, Accounted, BelowNext, Holding, Busy, Articles
  <2>6. Phases'
    BY <1>5 DEF Drained, TypeOK, Phases, Articles
  <2> QED
    BY <2>1, <2>2, <2>3, <2>4, <2>5, <2>6
<1>6. ASSUME NEW w \in Workers, WorkerCheck(w)
       PROVE  IInv'
  <2>1. TypeOK'
    BY <1>6 DEF WorkerCheck, TypeOK, Articles
  <2>2. Exclusive'
    BY <1>6 DEF WorkerCheck, TypeOK, Exclusive, BelowNext, Holding, Busy, Phases
  <2>3. BelowNext'
    BY <1>6 DEF WorkerCheck, TypeOK, BelowNext, Holding, Busy, Phases
  <2>4. NotYetWritten'
    BY <1>6 DEF WorkerCheck, TypeOK, NotYetWritten, Exclusive, BelowNext, Holding, Busy, Phases, Articles
  <2>5. Accounted'
    BY <1>6 DEF WorkerCheck, TypeOK, Accounted, BelowNext, Holding, Busy, Articles
  <2>6. Phases'
    BY <1>6 DEF WorkerCheck, TypeOK, Phases, Articles
  <2> QED
    BY <2>1, <2>2, <2>3, <2>4, <2>5, <2>6
<1>7. ASSUME NEW w \in Workers, TakeTick(w)
       PROVE  IInv'
  <2>1. TypeOK'
    BY <1>7 DEF TakeTick, TypeOK, Articles
  <2>2. Exclusive'
    BY <1>7 DEF TakeTick, TypeOK, Exclusive, BelowNext, Holding, Busy, Phases
  <2>3. BelowNext'
    BY <1>7 DEF TakeTick, TypeOK, BelowNext, Holding, Busy, Phases
  <2>4. NotYetWritten'
    BY <1>7 DEF TakeTick, TypeOK, NotYetWritten, Exclusive, BelowNext, Holding, Busy, Phases, Articles
  <2>5. Accounted'
    BY <1>7 DEF TakeTick, TypeOK, Accounted, BelowNext, Holding, Busy, Articles
  <2>6. Phases'
    BY <1>7 DEF TakeTick, TypeOK, Phases, Articles
  <2> QED
    BY <2>1, <2>2, <2>3, <2>4, <2>5, <2>6
<1>8. ASSUME NEW w \in Workers, AbandonInLimiter(w)
       PROVE  IInv'
  <2>1. TypeOK'
    BY <1>8 DEF AbandonInLimiter, TypeOK, Articles
  <2>2. Exclusive'
    BY <1>8 DEF AbandonInLimiter, TypeOK, Exclusive, BelowNext, Holding, Busy, Phases
  <2>3. BelowNext'
    BY <1>8 DEF AbandonInLimiter, TypeOK, BelowNext, Holding, Busy, Phases
  <2>4. NotYetWritten'
    BY <1>8 DEF AbandonInLimiter, TypeOK, NotYetWritten, Exclusive, BelowNext, Holding, Busy, Phases, Articles
  <2>5. Accounted'
    BY <1>8 DEF AbandonInLimiter, TypeOK, Accounted, BelowNext, Holding, Busy, Articles
  <2>6. Phases'
    BY <1>8 DEF AbandonInLimiter, TypeOK, Phases, Articles
  <2> QED
    BY <2>1, <2>2, <2>3, <2>4, <2>5, <2>6
<1>9. ASSUME NEW w \in Workers, Scrape(w)
       PROVE  IInv'
  <2>1. TypeOK'
    BY <1>9 DEF Scrape, TypeOK, Articles
  <2>2. Exclusive'
    BY <1>9 DEF Scrape, TypeOK, Exclusive, BelowNext, Holding, Busy, Phases
  <2>3. BelowNext'
    BY <1>9 DEF Scrape, TypeOK, BelowNext, Holding, Busy, Phases
  <2>4. NotYetWritten'
    BY <1>9 DEF Scrape, TypeOK, NotYetWritten, Exclusive, BelowNext, Holding, Busy, Phases, Articles
  <2>5. Accounted'
    BY <1>9 DEF Scrape, TypeOK, Accounted, BelowNext, Holding, Busy, Articles
  <2>6. Phases'
    BY <1>9 DEF Scrape, TypeOK, Phases, Articles
  <2> QED
    BY <2>1, <2>2, <2>3, <2>4, <2>5, <2>6
<1>10. CASE Tick
  <2>1. TypeOK'
    BY <1>10 DEF Tick, TypeOK, Articles
  <2>2. Exclusive'
    BY <1>10 DEF Tick, TypeOK, Exclusive, BelowNext, Holding, Busy, Phases
  <2>3. BelowNext'
    BY <1>10 DEF Tick, TypeOK, BelowNext, Holding, Busy, Phases
  <2>4. NotYetWritten'
    BY <1>10 DEF Tick, TypeOK, NotYetWritten, Exclusive, BelowNext, Holding, Busy, Phases, Articles
  <2>5. Accounted'
    BY <1>10 DEF Tick, TypeOK, Accounted, BelowNext, Holding, Busy, Articles
  <2>6. Phases'
    BY <1>10 DEF Tick, TypeOK, Phases, Articles
  <2> QED
    BY <2>1, <2>2, <2>3, <2>4, <2>5, <2>6
<1>11. CASE Cancel
  <2>1. TypeOK'
    BY <1>11 DEF Cancel, TypeOK, Articles
  <2>2. Exclusive'
    BY <1>11 DEF Cancel, TypeOK, Exclusive, BelowNext, Holding, Busy, Phases
  <2>3. BelowNext'
    BY <1>11 DEF Cancel, TypeOK, BelowNext, Holding, Busy, Phases
  <2>4. NotYetWritten'
    BY <1>11 DEF Cancel, TypeOK, NotYetWritten, Exclusive, BelowNext, Holding, Busy, Phases, Articles
  <2>5. Accounted'
    BY <1>11 DEF Cancel, TypeOK, Accounted, BelowNext, Holding, Busy, Articles
  <2>6. Phases'
    BY <1>11 DEF Cancel, TypeOK, Phases, Articles
  <2> QED
    BY <2>1, <2>2, <2>3, <2>4, <2>5, <2>6
<1>12. CASE UNCHANGED vars
  BY <1>12 DEF vars, TypeOK, Exclusive, BelowNext, NotYetWritten, Accounted,
                Phases, Holding, Busy
<1>13. CASE Terminated
  BY <1>12, <1>13 DEF Terminated
<1> QED
  BY <1>1, <1>2, <1>3, <1>4, <1>5, <1>6, <1>7, <1>8, <1>9, <1>10, <1>11, <1>12, <1>13 DEF Next, Dispatch, WorkerStep

LEMMA IInvAlways == Spec => []IInv
  BY InitInv, StepInv, PTL DEF Spec

-----------------------------------------------------------------------------
(***************************************************************************)
(* Every variable keeps its type: in particular the index of the loop and  *)
(* the index of every worker stay within the slices they address.          *)
(***************************************************************************)
THEOREM TypeCorrect == Spec => []TypeOK
  BY IInvAlways, PTL DEF IInv

(***************************************************************************)
(* Without a lock on the result slice no two goroutines write one slot, no *)
(* slot is written twice, and none is written after the return.            *)
(***************************************************************************)
THEOREM SlotsOwned == Spec => []SlotOwnership
<1>1. IInv => SlotOwnership
  BY DEF IInv, SlotOwnership, Exclusive, NotYetWritten, Phases, Holding, Busy
<1> QED
  BY <1>1, IInvAlways, PTL

(***************************************************************************)
(* Only a cancellation makes Enrich return with articles it has not tried. *)
(***************************************************************************)
THEOREM PartialByCancelOnly == Spec => []PartialOnlyIfCancelled
<1>1. IInv => PartialOnlyIfCancelled
  <2> SUFFICES ASSUME IInv, main = "returned", ~ctxDone, NEW i \in Articles,
                      out[i] = "copied"
               PROVE  FALSE
    BY DEF PartialOnlyIfCancelled
  <2>1. i < next
    BY ConstantsAssumption DEF IInv, TypeOK, Phases, Articles
  <2>2. \E w \in Workers : Busy(w)
    BY <2>1 DEF IInv, Accounted
  <2> QED
    BY <2>2 DEF IInv, Phases, Busy
<1> QED
  BY <1>1, IInvAlways, PTL

(***************************************************************************)
(* The dispatcher is left without a receiver only after a cancellation and *)
(* only if there are more articles than workers: the workers that left     *)
(* before the channel was closed hold different indexes, all of them       *)
(* smaller than the one the dispatcher still has in its hand.              *)
(***************************************************************************)
THEOREM StrandedByCancelOnly == Spec => []StrandedOnlyByCancel
<1>1. IInv => StrandedOnlyByCancel
  <2> SUFFICES ASSUME IInv, Stranded
               PROVE  ctxDone /\ NArticles > MaxArticleWorkers
    BY DEF StrandedOnlyByCancel
  <2> DEFINE n == IF NArticles <= MaxArticleWorkers THEN NArticles
                                                    ELSE MaxArticleWorkers
  <2> USE ConstantsAssumption
  <2>1. Workers = 1..n /\ n \in Nat \ {0} /\ next \in 1..NArticles /\ ~closed
    BY DEF IInv, TypeOK, Phases, Stranded, Workers
  <2>2. \A w \in Workers : Holding(w)
    BY <2>1 DEF Stranded, Holding
  <2>3. ctxDone
    BY <2>1 DEF IInv, Phases, Stranded
  <2>4. job \in [Workers -> 1..(next - 1)]
    BY <2>2 DEF IInv, TypeOK, BelowNext
  <2>5. ~(n > next - 1)
    <3> SUFFICES ASSUME n > next - 1 PROVE FALSE
      OBVIOUS
    <3> DEFINE T == 1..(next - 1)
    <3>1. IsFiniteSet(Workers) /\ Cardinality(Workers) = n
      BY <2>1, FS_Interval
    <3>2. IsFiniteSet(T) /\ Cardinality(T) = next - 1
      BY <2>1, FS_Interval
    <3>3. Cardinality(T) < Cardinality(Workers)
      BY <2>1, <3>1, <3>2
    <3>4. \E v, w \in Workers : v # w /\ job[v] = job[w]
      <4>1. job \in [Workers -> T]
        BY <2>4
      <4> HIDE DEF T
      <4> QED
        BY <3>1, <3>2, <3>3, <4>1, FS_PigeonHole
    <3> QED
      BY <3>4, <2>2 DEF IInv, Exclusive
  <2> QED
    BY <2>1, <2>3, <2>5
<1> QED
  BY <1>1, IInvAlways, PTL

(***************************************************************************)
(* Enrich implements the job pool: articles are handed out in order, each  *)
(* is scraped at most once, one is given up only after a cancellation, and *)
(* the call ends when nobody works any more.                               *)
(***************************************************************************)
THEOREM ImplementsPool == Spec => PoolSpec
<1> DEFINE active == {job[w] : w \in {v \in Workers : Busy(v)}}
           handled == {i \in Articles : out[i] # "copied"}
           ended == (main = "returned")
<1>1. Init => Pool!Init
  BY DEF Init, Pool!Init, Busy
<1>2. IInv /\ [Next]_vars => [Pool!Next]_(Pool!vars)
  <2> SUFFICES ASSUME IInv, [Next]_vars
               PROVE  [Pool!Next]_(Pool!vars)
    OBVIOUS
  <2> USE DEF IInv
  <2>1. ASSUME NEW w \in Workers, Handoff(w)
        PROVE  Pool!Take
    <3>1. \A v \in Workers : Busy(v)' <=> Busy(v) \/ v = w
      BY <2>1 DEF Handoff, TypeOK, Busy
    <3>2. \A v \in Workers : job'[v] = IF v = w THEN next ELSE job[v]
      BY <2>1 DEF Handoff, TypeOK
    <3>3. ~Busy(w)
      BY <2>1 DEF Handoff, Busy
    <3>4. active' = active \cup {next}
      BY <3>1, <3>2, <3>3
    <3> QED
      BY <2>1, <3>4 DEF Handoff, Pool!Take, Phases
  <2>2. ASSUME NEW w \in Workers, Busy(w), job' = job,
               \A v \in Workers : Busy(v)' <=> Busy(v) /\ v # w
        PROVE  active' = active \ {job[w]} /\ job[w] \in active
    BY <2>2 DEF Exclusive, Holding
  <2>3. ASSUME NEW w \in Workers, WorkerCheck(w), ctxDone
        PROVE  Pool!Drop(job[w])
    <3>1. active' = active \ {job[w]} /\ job[w] \in active
      BY <2>2, <2>3 DEF WorkerCheck, TypeOK, Busy
    <3> QED
      BY <2>3, <3>1 DEF WorkerCheck, Pool!Drop
  <2>4. ASSUME NEW w \in Workers, AbandonInLimiter(w)
        PROVE  Pool!Drop(job[w])
    <3>1. active' = active \ {job[w]} /\ job[w] \in active
      BY <2>2, <2>4 DEF AbandonInLimiter, TypeOK, Busy
    <3> QED
      BY <2>4, <3>1 DEF AbandonInLimiter, Pool!Drop
  <2>5. ASSUME NEW w \in Workers, Scrape(w)
        PROVE  Pool!Handle(job[w])
    <3>1. active' = active \ {job[w]} /\ job[w] \in active
      BY <2>2, <2>5 DEF Scrape, TypeOK, Busy
    <3>2. job[w] \in Articles
      BY <2>5, ConstantsAssumption
         DEF Scrape, BelowNext, Holding, Busy, TypeOK, Articles
    <3>3. handled' = handled \cup {job[w]}
      <4> PICK result \in {"kept", "enriched"} : out' = [out EXCEPT ![job[w]] = result]
        BY <2>5 DEF Scrape
      <4> QED
        BY <3>2 DEF TypeOK
    <3> QED
      BY <2>5, <3>1, <3>3 DEF Scrape, Pool!Handle
  <2>6. ASSUME Return
        PROVE  Pool!End
    <3>1. active = {} /\ active' = {} /\ handled' = handled
      BY <2>6 DEF Return, Busy
    <3>2. ctxDone \/ handled = 1..NArticles
      <4> SUFFICES ASSUME ~ctxDone, NEW i \in Articles
                   PROVE  out[i] # "copied"
        BY DEF Articles
      <4>1. i < next
        BY <2>6, ConstantsAssumption DEF Return, Phases, TypeOK, Articles
      <4> QED
        BY <2>6, <4>1 DEF Return, Accounted, Busy
    <3> QED
      BY <2>6, <3>1, <3>2 DEF Return, Pool!End
  <2>7. ASSUME Cancel PROVE Pool!Cancel
    BY <2>7 DEF Cancel, Pool!Cancel, Busy
  <2>8. ASSUME \/ CheckCtx \/ CloseJobs \/ Tick \/ Terminated \/ UNCHANGED vars
               \/ \E w \in Workers : Drained(w) \/ TakeTick(w)
               \/ \E w \in Workers : WorkerCheck(w) /\ ~ctxDone
        PROVE  UNCHANGED Pool!vars
    <3>1. \A v \in Workers : Busy(v)' <=> Busy(v)
      BY <2>8 DEF CheckCtx, CloseJobs, Tick, Terminated, vars, Drained, TakeTick,
                  WorkerCheck, TypeOK, Busy
    <3>2. /\ job' = job /\ out' = out /\ ctxDone' = ctxDone /\ next' = next
          /\ ended' = ended
      BY <2>8 DEF CheckCtx, CloseJobs, Tick, Terminated, vars, Drained, TakeTick,
                  WorkerCheck
    <3> QED
      BY <3>1, <3>2 DEF Pool!vars
  <2> QED
    <3>1. ASSUME NEW w \in Workers
          PROVE  /\ Pool!Handle(job[w]) => Pool!Next
                 /\ Pool!Drop(job[w]) => Pool!Next
      BY DEF Pool!Next, Pool!Handle, Pool!Drop
    <3> QED
      BY <2>1, <2>3, <2>4, <2>5, <2>6, <2>7, <2>8, <3>1
         DEF Next, Dispatch, WorkerStep, Pool!Next
<1> QED
  BY <1>1, <1>2, IInvAlways, PTL DEF Spec, PoolSpec, Pool!Spec
=============================================================================
