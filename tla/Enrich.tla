------------------------------- MODULE Enrich -------------------------------
(***************************************************************************)
(* One call of Scraper.Enrich (internal/crawler/scraper.go): a dispatcher  *)
(* goroutine, the caller, hands article indexes over an unbuffered channel *)
(* to at most maxArticleWorkers goroutines; each waits for the shared      *)
(* rate-limiting ticker, scrapes the article and writes its own slot of    *)
(* the result slice.  The context may be cancelled at any moment.          *)
(***************************************************************************)
EXTENDS Integers

CONSTANTS
    NArticles,          \* len(articles)
    MaxArticleWorkers,  \* the constant of the same name, 10 in the code
    Limited             \* delay > 0: there is a ticker, limiter is not nil

ASSUME ConstantsAssumption ==
    /\ NArticles \in Nat \ {0}          \* Enrich returns at once on 0 articles
    /\ MaxArticleWorkers \in Nat \ {0}
    /\ Limited \in BOOLEAN              \* FALSE for a delay that overflowed

Articles == 1..NArticles

Workers ==
    1..(IF NArticles <= MaxArticleWorkers THEN NArticles ELSE MaxArticleWorkers)

VARIABLES
    ctxDone,    \* ctx.Err() # nil
    tick,       \* a tick waits in limiter.C, a channel with room for one
    main,       \* where the dispatcher is
    next,       \* the index its loop is at
    closed,     \* close(jobCh) has run
    wpc,        \* where each worker is
    job,        \* the index each worker took last, 0 before the first
    out         \* how each slot of the result was last written

vars == <<ctxDone, tick, main, next, closed, wpc, job, out>>

DispatcherPC == {"check", "send", "wait", "returned"}
WorkerPC == {"receive", "check", "limit", "scrape", "exited"}

\* A slot is "copied" from the input, or a worker wrote it: "kept" after a
\* failed scrape (out[idx] = art) or "enriched" after a successful one.
SlotState == {"copied", "kept", "enriched"}

Busy(w) == wpc[w] \in {"check", "limit", "scrape"}
-----------------------------------------------------------------------------
Init ==
    /\ ctxDone = FALSE
    /\ tick = FALSE
    /\ main = "check"
    /\ next = 1
    /\ closed = FALSE
    /\ wpc = [w \in Workers |-> "receive"]
    /\ job = [w \in Workers |-> 0]
    /\ out = [i \in Articles |-> "copied"]

\* Mutant: the loop head without its bound.
CheckCtxUnbounded ==
    /\ main = "check"
    /\ ~ctxDone
    /\ main' = "send"
    /\ UNCHANGED <<ctxDone, tick, next, closed, wpc, job, out>>

\* The loop head: another index is left and the context is still alive.
CheckCtx ==
    /\ main = "check"
    /\ next <= NArticles
    /\ ~ctxDone
    /\ main' = "send"
    /\ UNCHANGED <<ctxDone, tick, next, closed, wpc, job, out>>

\* Mutant: the loop stops one index short.
CloseJobsEarly ==
    /\ main = "check"
    /\ next >= NArticles \/ ctxDone
    /\ closed' = TRUE
    /\ main' = "wait"
    /\ UNCHANGED <<ctxDone, tick, next, wpc, job, out>>

\* Mutant: close(jobCh) is forgotten.
CloseJobsForgotten ==
    /\ main = "check"
    /\ next > NArticles \/ ctxDone
    /\ main' = "wait"
    /\ UNCHANGED <<ctxDone, tick, next, closed, wpc, job, out>>

\* The loop ends, by exhaustion or by break, and the channel is closed.
CloseJobs ==
    /\ main = "check"
    /\ next > NArticles \/ ctxDone
    /\ closed' = TRUE
    /\ main' = "wait"
    /\ UNCHANGED <<ctxDone, tick, next, wpc, job, out>>

\* jobCh <- idx meets the receive of worker w.
Handoff(w) ==
    /\ main = "send"
    /\ wpc[w] = "receive"
    /\ job' = [job EXCEPT ![w] = next]
    /\ wpc' = [wpc EXCEPT ![w] = "check"]
    /\ next' = next + 1
    /\ main' = "check"
    /\ UNCHANGED <<ctxDone, tick, closed, out>>

\* Mutant: wg.Wait() is forgotten.
ReturnAtOnce ==
    /\ main = "wait"
    /\ main' = "returned"
    /\ UNCHANGED <<ctxDone, tick, next, closed, wpc, job, out>>

\* wg.Wait() passes; the deferred ticker.Stop() runs.
Return ==
    /\ main = "wait"
    /\ \A w \in Workers : wpc[w] = "exited"
    /\ main' = "returned"
    /\ UNCHANGED <<ctxDone, tick, next, closed, wpc, job, out>>

\* The range over jobCh ends once the channel is closed.
Drained(w) ==
    /\ wpc[w] = "receive"
    /\ closed
    /\ wpc' = [wpc EXCEPT ![w] = "exited"]
    /\ UNCHANGED <<ctxDone, tick, main, next, closed, job, out>>

\* The check of ctx.Err() that follows a receive.
WorkerCheck(w) ==
    /\ wpc[w] = "check"
    /\ wpc' = [wpc EXCEPT ![w] = IF ctxDone THEN "exited"
                                  ELSE IF Limited THEN "limit" ELSE "scrape"]
    /\ UNCHANGED <<ctxDone, tick, main, next, closed, job, out>>

\* case <-limiter of the select.
TakeTick(w) ==
    /\ wpc[w] = "limit"
    /\ tick
    /\ tick' = FALSE
    /\ wpc' = [wpc EXCEPT ![w] = "scrape"]
    /\ UNCHANGED <<ctxDone, main, next, closed, job, out>>

\* Mutant: a default case, so that a worker without a tick gives up.
AbandonWithoutTick(w) ==
    /\ wpc[w] = "limit"
    /\ ctxDone \/ ~tick
    /\ wpc' = [wpc EXCEPT ![w] = "exited"]
    /\ UNCHANGED <<ctxDone, tick, main, next, closed, job, out>>

\* case <-ctx.Done() of the select: the worker drops the index it holds.
AbandonInLimiter(w) ==
    /\ wpc[w] = "limit"
    /\ ctxDone
    /\ wpc' = [wpc EXCEPT ![w] = "exited"]
    /\ UNCHANGED <<ctxDone, tick, main, next, closed, job, out>>

\* Mutant: a worker returns after a failed scrape.
ScrapeOrGiveUp(w) ==
    /\ wpc[w] = "scrape"
    /\ \E result \in {"kept", "enriched"} :
          /\ out' = [out EXCEPT ![job[w]] = result]
          /\ wpc' = [wpc EXCEPT ![w] =
                        IF result = "kept" THEN "exited" ELSE "receive"]
    /\ UNCHANGED <<ctxDone, tick, main, next, closed, job>>

\* fetchAndParse ends, in success or in error, and the slot is written.
Scrape(w) ==
    /\ wpc[w] = "scrape"
    /\ \E result \in {"kept", "enriched"} :
          out' = [out EXCEPT ![job[w]] = result]
    /\ wpc' = [wpc EXCEPT ![w] = "receive"]
    /\ UNCHANGED <<ctxDone, tick, main, next, closed, job>>

\* The ticker fires; a tick that finds the channel full is dropped.
Tick ==
    /\ Limited
    /\ main # "returned"
    /\ ~tick
    /\ tick' = TRUE
    /\ UNCHANGED <<ctxDone, main, next, closed, wpc, job, out>>

\* SIGINT or SIGTERM cancels the context.
Cancel ==
    /\ ~ctxDone
    /\ ctxDone' = TRUE
    /\ UNCHANGED <<tick, main, next, closed, wpc, job, out>>

\* After the return nothing is left to run.
Terminated ==
    /\ main = "returned"
    /\ UNCHANGED vars

Dispatch == CheckCtx \/ CloseJobs \/ Return \/ \E w \in Workers : Handoff(w)

WorkerStep(w) ==
    \/ Drained(w)
    \/ WorkerCheck(w)
    \/ TakeTick(w)
    \/ AbandonInLimiter(w)
    \/ Scrape(w)

Next ==
    \/ Dispatch
    \/ \E w \in Workers : WorkerStep(w)
    \/ Tick
    \/ Cancel
    \/ Terminated

Spec == Init /\ [][Next]_vars

(***************************************************************************)
(* The Go scheduler runs every runnable goroutine, the HTTP client has a   *)
(* timeout of 15 seconds so that every scrape ends, and a ticker keeps     *)
(* firing.  Nothing obliges the context to be cancelled.                   *)
(***************************************************************************)
Fairness ==
    /\ WF_vars(Dispatch)
    /\ \A w \in Workers : WF_vars(WorkerStep(w))
    /\ WF_vars(Tick)

FairSpec == Spec /\ Fairness
-----------------------------------------------------------------------------
(***************************************************************************)
(* Types.                                                                  *)
(***************************************************************************)
TypeOK ==
    /\ ctxDone \in BOOLEAN
    /\ tick \in BOOLEAN
    /\ main \in DispatcherPC
    /\ next \in 1..(NArticles + 1)
    /\ closed \in BOOLEAN
    /\ wpc \in [Workers -> WorkerPC]
    /\ job \in [Workers -> 0..NArticles]
    /\ out \in [Articles -> SlotState]

\* The workers write the result slice without a lock, and the caller reads it
\* after the return: a worker that is going to write a slot is the only one that
\* holds its index, the slot has not been written before, and the call has not
\* returned.
SlotOwnership ==
    \A w \in Workers : Busy(w) =>
        /\ main # "returned"
        /\ out[job[w]] = "copied"
        /\ \A v \in Workers : Busy(v) /\ job[v] = job[w] => v = w

\* Without a cancellation every article has been scraped (successfully or
\* not) when Enrich returns: partial results come from a cancellation only.
PartialOnlyIfCancelled ==
    main = "returned" /\ ~ctxDone => \A i \in Articles : out[i] # "copied"

\* The dispatcher is blocked in jobCh <- idx with no goroutine left to receive.
Stranded == main = "send" /\ \A w \in Workers : wpc[w] = "exited"

\* The dispatcher never waits for a receiver that is gone, unless the context
\* was cancelled and there are more articles than workers.
StrandedOnlyByCancel ==
    Stranded => ctxDone /\ NArticles > MaxArticleWorkers

\* Every call returns, cancelled or not, or its dispatcher is stranded: with
\* StrandedOnlyByCancel, a call that is never cancelled returns, and so does
\* every call that has a worker for each of its articles.
ReturnsOrStranded == <>(main = "returned" \/ Stranded)

\* What the comments and the README say of a cancelled call: it returns, with
\* partial results.
CancelReturns == ctxDone ~> (main = "returned")

\* Enrich is a job pool over its articles: in order, each slot written at most
\* once, ended only when no worker holds an index any more.
Pool == INSTANCE JobPool WITH
    NJobs <- NArticles,
    cancelled <- ctxDone,
    active <- {job[w] : w \in {v \in Workers : Busy(v)}},
    handled <- {i \in Articles : out[i] # "copied"},
    ended <- (main = "returned")

PoolSpec == Pool!Spec
=============================================================================
