------------------------------- MODULE RunAll -------------------------------
(***************************************************************************)
(* One call of Service.Run (internal/crawler/crawler.go): runAll hands the *)
(* provider configurations over an unbuffered channel to at most           *)
(* maxProviderWorkers goroutines, each of which runs                       *)
(* ProviderProcessor.Process on what it received and reports a failure on  *)
(* a buffered error channel that is read only after all of them are gone.  *)
(* Process is one step here; module Processor opens it.                    *)
(***************************************************************************)
EXTENDS Integers, Sequences

CONSTANTS
    NProviders,         \* len(cfgs)
    MaxProviderWorkers  \* the constant of the same name, 10 in the code

ASSUME ConstantsAssumption ==
    /\ NProviders \in Nat \ {0}         \* Run rejects an empty list
    /\ MaxProviderWorkers \in Nat \ {0}

Providers == 1..NProviders

Workers ==
    1..(IF NProviders <= MaxProviderWorkers THEN NProviders
                                            ELSE MaxProviderWorkers)

VARIABLES
    ctxDone,    \* ctx.Err() # nil
    main,       \* where runAll is
    next,       \* the provider its loop is at
    closed,     \* close(cfgCh) has run
    wpc,        \* where each worker is
    cfg,        \* the provider each worker received last, 0 before the first
    errCh,      \* the errors waiting in errCh, named by their provider
    errs,       \* what runAll returns
    processed,  \* history: the providers Process has returned for
    failed      \* history: those it returned an error for

vars == <<ctxDone, main, next, closed, wpc, cfg, errCh, errs, processed, failed>>

MainPC == {"check", "send", "wait", "returned"}
WorkerPC == {"receive", "check", "process", "report", "exited"}

\* Mutant: room for one error per worker.
ErrChPerWorker ==
    IF NProviders <= MaxProviderWorkers THEN NProviders ELSE MaxProviderWorkers

ErrChCapacity == NProviders

\* Worker w may still call Process on the provider it holds.
Holds(w) == wpc[w] \in {"check", "process"}
-----------------------------------------------------------------------------
Init ==
    /\ ctxDone = FALSE
    /\ main = "check"
    /\ next = 1
    /\ closed = FALSE
    /\ wpc = [w \in Workers |-> "receive"]
    /\ cfg = [w \in Workers |-> 0]
    /\ errCh = <<>>
    /\ errs = <<>>
    /\ processed = {}
    /\ failed = {}

\* Mutant: the loop head without its bound.
CheckCtxUnbounded ==
    /\ main = "check"
    /\ ~ctxDone
    /\ main' = "send"
    /\ UNCHANGED <<ctxDone, next, closed, wpc, cfg, errCh, errs, processed, failed>>

\* The loop head: another provider is left and the context is still alive.
CheckCtx ==
    /\ main = "check"
    /\ next <= NProviders
    /\ ~ctxDone
    /\ main' = "send"
    /\ UNCHANGED <<ctxDone, next, closed, wpc, cfg, errCh, errs, processed, failed>>

\* Mutant: the loop stops one provider short.
CloseCfgsEarly ==
    /\ main = "check"
    /\ next >= NProviders \/ ctxDone
    /\ closed' = TRUE
    /\ main' = "wait"
    /\ UNCHANGED <<ctxDone, next, wpc, cfg, errCh, errs, processed, failed>>

\* Mutant: close(cfgCh) is forgotten.
CloseCfgsForgotten ==
    /\ main = "check"
    /\ next > NProviders \/ ctxDone
    /\ main' = "wait"
    /\ UNCHANGED <<ctxDone, next, closed, wpc, cfg, errCh, errs, processed, failed>>

\* The loop ends, by exhaustion or by break, and the channel is closed.
CloseCfgs ==
    /\ main = "check"
    /\ next > NProviders \/ ctxDone
    /\ closed' = TRUE
    /\ main' = "wait"
    /\ UNCHANGED <<ctxDone, next, wpc, cfg, errCh, errs, processed, failed>>

\* cfgCh <- cfg meets the receive of worker w.
Handoff(w) ==
    /\ main = "send"
    /\ wpc[w] = "receive"
    /\ cfg' = [cfg EXCEPT ![w] = next]
    /\ wpc' = [wpc EXCEPT ![w] = "check"]
    /\ next' = next + 1
    /\ main' = "check"
    /\ UNCHANGED <<ctxDone, closed, errCh, errs, processed, failed>>

\* Mutant: wg.Wait() is forgotten.
CollectAtOnce ==
    /\ main = "wait"
    /\ errs' = errCh
    /\ errCh' = <<>>
    /\ main' = "returned"
    /\ UNCHANGED <<ctxDone, next, closed, wpc, cfg, processed, failed>>

\* wg.Wait() passes, errCh is closed and drained into the result.
Collect ==
    /\ main = "wait"
    /\ \A w \in Workers : wpc[w] = "exited"
    /\ errs' = errCh
    /\ errCh' = <<>>
    /\ main' = "returned"
    /\ UNCHANGED <<ctxDone, next, closed, wpc, cfg, processed, failed>>

\* The range over cfgCh ends once the channel is closed.
Drained(w) ==
    /\ wpc[w] = "receive"
    /\ closed
    /\ wpc' = [wpc EXCEPT ![w] = "exited"]
    /\ UNCHANGED <<ctxDone, main, next, closed, cfg, errCh, errs, processed, failed>>

\* The check of ctx.Err() that follows a receive.
WorkerCheck(w) ==
    /\ wpc[w] = "check"
    /\ wpc' = [wpc EXCEPT ![w] = IF ctxDone THEN "exited" ELSE "process"]
    /\ UNCHANGED <<ctxDone, main, next, closed, cfg, errCh, errs, processed, failed>>

\* Process returns nil.
ProcessOK(w) ==
    /\ wpc[w] = "process"
    /\ processed' = processed \cup {cfg[w]}
    /\ wpc' = [wpc EXCEPT ![w] = "receive"]
    /\ UNCHANGED <<ctxDone, main, next, closed, cfg, errCh, errs, failed>>

\* Process returns an error.
ProcessFails(w) ==
    /\ wpc[w] = "process"
    /\ processed' = processed \cup {cfg[w]}
    /\ failed' = failed \cup {cfg[w]}
    /\ wpc' = [wpc EXCEPT ![w] = "report"]
    /\ UNCHANGED <<ctxDone, main, next, closed, cfg, errCh, errs>>

\* Mutant: a worker returns once it has reported an error.
ReportAndExit(w) ==
    /\ wpc[w] = "report"
    /\ Len(errCh) < ErrChCapacity
    /\ errCh' = Append(errCh, cfg[w])
    /\ wpc' = [wpc EXCEPT ![w] = "exited"]
    /\ UNCHANGED <<ctxDone, main, next, closed, cfg, errs, processed, failed>>

\* errCh <- err, which blocks while the channel is full.
Report(w) ==
    /\ wpc[w] = "report"
    /\ Len(errCh) < ErrChCapacity
    /\ errCh' = Append(errCh, cfg[w])
    /\ wpc' = [wpc EXCEPT ![w] = "receive"]
    /\ UNCHANGED <<ctxDone, main, next, closed, cfg, errs, processed, failed>>

\* SIGINT or SIGTERM cancels the context.
Cancel ==
    /\ ~ctxDone
    /\ ctxDone' = TRUE
    /\ UNCHANGED <<main, next, closed, wpc, cfg, errCh, errs, processed, failed>>

\* After the return nothing is left to run.
Terminated ==
    /\ main = "returned"
    /\ UNCHANGED vars

Dispatch == CheckCtx \/ CloseCfgs \/ Collect \/ \E w \in Workers : Handoff(w)

WorkerStep(w) ==
    \/ Drained(w)
    \/ WorkerCheck(w)
    \/ ProcessOK(w)
    \/ ProcessFails(w)
    \/ Report(w)

Next ==
    \/ Dispatch
    \/ \E w \in Workers : WorkerStep(w)
    \/ Cancel
    \/ Terminated

Spec == Init /\ [][Next]_vars
-----------------------------------------------------------------------------
(***************************************************************************)
(* Types.                                                                  *)
(***************************************************************************)
TypeOK ==
    /\ ctxDone \in BOOLEAN
    /\ main \in MainPC
    /\ next \in 1..(NProviders + 1)
    /\ closed \in BOOLEAN
    /\ wpc \in [Workers -> WorkerPC]
    /\ cfg \in [Workers -> 0..NProviders]
    /\ errCh \in Seq(Providers)
    /\ errs \in Seq(Providers)
    /\ processed \in SUBSET Providers
    /\ failed \in SUBSET Providers

\* A worker with an error to report finds room in errCh.  Nobody reads the
\* channel before every worker is gone, so one that blocked here would hold
\* the WaitGroup for ever.
ErrChHasRoom == \A w \in Workers : wpc[w] = "report" => Len(errCh) < ErrChCapacity

\* The error Run returns joins one error for each provider that failed: none
\* is lost between the workers and the drain, none is reported twice.
EveryFailureReported ==
    main = "returned" =>
        /\ failed = {errs[i] : i \in DOMAIN errs}
        /\ \A i, j \in DOMAIN errs : errs[i] = errs[j] => i = j

\* runAll is blocked in cfgCh <- cfg with no goroutine left to receive.
Stranded == main = "send" /\ \A w \in Workers : wpc[w] = "exited"

\* runAll never waits for a receiver that is gone, unless the context was
\* cancelled and there are more providers than workers.
StrandedOnlyByCancel ==
    Stranded => ctxDone /\ NProviders > MaxProviderWorkers

\* runAll is a job pool over its providers: in order, each at most once, ended
\* only when no worker can call Process any more.
Pool == INSTANCE JobPool WITH
    NJobs <- NProviders,
    cancelled <- ctxDone,
    active <- {cfg[w] : w \in {v \in Workers : Holds(v)}},
    handled <- processed,
    ended <- (main = "returned")

PoolSpec == Pool!Spec
=============================================================================
