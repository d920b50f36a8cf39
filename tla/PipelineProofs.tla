--------------------------- MODULE PipelineProofs ---------------------------
(***************************************************************************)
(* The pipeline on the timed store is the pipeline of Processor, and what  *)
(* ProcessorProofs proves of that one holds of it; and a sink gets an      *)
(* article once for each place that lists it in each period of its mark.   *)
(***************************************************************************)
EXTENDS Pipeline, FiniteSetTheorems, TLAPS

\* The theorems about Processor, of the processor in the pipeline.
PP == INSTANCE ProcessorProofs WITH
    StoreFails <- TRUE,
    MarksExpire <- TRUE,
    MaxCrashes <- MaxFaults,
    marked <- {i \in Ids : expiry[i] * Sub > now}

\* The two instances are the same.
LEMMA SameInit == P!Init => PP!Init
  BY DEF P!Init, PP!Init, P!Sinks, PP!Sinks

LEMMA SameNext == [P!Next]_(P!vars) => [PP!Next]_(PP!vars)
<1> USE DEF P!GoTo, PP!GoTo, P!Current, PP!Current
<1>1. ASSUME NEW p \in Providers, P!Step(p)
      PROVE  PP!Step(p)
  <2>1. P!Fetch(p) => PP!Fetch(p)
    BY DEF P!Fetch, PP!Fetch
  <2>2. P!FetchFails(p) => PP!FetchFails(p)
    BY DEF P!FetchFails, PP!FetchFails
  <2>3. \A b \in BOOLEAN : P!Filter(p, b) => PP!Filter(p, b)
    BY DEF P!Filter, PP!Filter
  <2>4. P!Filtered(p) => PP!Filtered(p)
    BY DEF P!Filtered, PP!Filtered
  <2>5. P!Enrich(p) => PP!Enrich(p)
    BY DEF P!Enrich, PP!Enrich
  <2>6. \A o \in Outcomes : P!PublishTo(p, o) => PP!PublishTo(p, o)
    BY DEF P!PublishTo, PP!PublishTo
  <2>7. P!FanoutReturns(p) => PP!FanoutReturns(p)
    BY DEF P!FanoutReturns, PP!FanoutReturns
  <2>8. \A o \in P!MarkOutcomes : P!Mark(p, o) => PP!Mark(p, o)
    BY DEF P!Mark, PP!Mark
  <2>9. P!Finish(p) => PP!Finish(p)
    BY DEF P!Finish, PP!Finish
  <2>10. P!MarkOutcomes = PP!MarkOutcomes
    BY DEF P!MarkOutcomes, PP!MarkOutcomes
  <2> QED
    BY <1>1, <2>1, <2>2, <2>3, <2>4, <2>5, <2>6, <2>7, <2>8, <2>9, <2>10
       DEF P!Step, PP!Step
<1>2. P!NextCrawl => PP!NextCrawl
  BY DEF P!NextCrawl, PP!NextCrawl, P!Reset, PP!Reset, P!Returned, PP!Returned
<1>3. P!Crash => PP!Crash
  BY DEF P!Crash, PP!Crash, P!Reset, PP!Reset
<1>4. ASSUME NEW ids, P!Expire(ids) PROVE PP!Expire(ids)
  BY <1>4 DEF P!Expire, PP!Expire, P!local, PP!local
<1>5. UNCHANGED P!vars => UNCHANGED PP!vars
  BY DEF P!vars, PP!vars
<1> QED
  BY <1>1, <1>2, <1>3, <1>4, <1>5 DEF P!Next, PP!Next
-----------------------------------------------------------------------------
\* An open call is about the article its process is at, and began before now.
InCall(p) ==
    call[p] # Store!None =>
        /\ call[p].at <= now
        /\ call[p].op = "SeenArticle" =>
              pc[p] = "filter" /\ pos[p] <= Len(feed[p]) /\ call[p].id = feed[p][pos[p]]
        /\ call[p].op = "MarkArticle" => pc[p] = "mark" /\ call[p].id = fresh[p][pos[p]]

StoreTypes ==
    /\ now \in Nat
    /\ expiry \in [Ids -> Nat]
    /\ call \in [Providers -> Store!Calls \cup {Store!None}]
    /\ ret \in [Providers -> Store!Replies]
    /\ failures \in Nat

IInv ==
    /\ PP!IInv
    /\ StoreTypes
    /\ \A p \in Providers : InCall(p)

\* What the steps below need of the invariant of Processor.
LEMMA ProcessTypes ==
    ASSUME PP!IInv
    PROVE  /\ pc \in [Providers -> {"ready", "filter", "enrich", "publish", "mark", "ok", "err"}]
           /\ feed \in [Providers -> Seq(Ids)]
           /\ fresh \in [Providers -> Seq(Ids)]
           /\ pos \in [Providers -> Nat \ {0}]
           /\ sink \in [Providers -> 1..(NSinks + 1)]
           /\ successful \in [Providers -> 0..NSinks]
           /\ delivered \in [Ids -> [P!Sinks -> 0..MaxCount]]
           /\ crashes \in Nat
           /\ \A p \in Providers : pc[p] = "mark" => pos[p] <= Len(fresh[p])
  BY PipelineAssumption
     DEF PP!IInv, PP!TypeOK, PP!PC, PP!Sinks, P!Sinks, PP!Knows, PP!Publishing

\* The article a process is at has an id, where it has one.
LEMMA CurrentIsId ==
    ASSUME PP!IInv, NEW p \in Providers
    PROVE  /\ pc[p] = "filter" /\ pos[p] <= Len(feed[p]) =>
                P!Current(p) = feed[p][pos[p]] /\ P!Current(p) \in Ids
           /\ pc[p] = "publish" /\ pos[p] <= Len(fresh[p]) =>
                P!Current(p) = fresh[p][pos[p]] /\ P!Current(p) \in Ids
           /\ pc[p] = "mark" => P!Current(p) = fresh[p][pos[p]] /\ P!Current(p) \in Ids
<1>1. /\ feed[p] \in Seq(Ids) /\ fresh[p] \in Seq(Ids) /\ pos[p] \in Nat \ {0}
      /\ pc[p] = "mark" => pos[p] <= Len(fresh[p])
  BY ProcessTypes
<1>2. pos[p] <= Len(feed[p]) => feed[p][pos[p]] \in Ids
  BY <1>1
<1>3. pos[p] <= Len(fresh[p]) => fresh[p][pos[p]] \in Ids
  BY <1>1
<1> QED
  BY <1>1, <1>2, <1>3 DEF P!Current

LEMMA InitIInv == Init => IInv
<1> SUFFICES ASSUME Init PROVE IInv
  OBVIOUS
<1>1. PP!Init
  BY SameInit DEF Init
<1>2. PP!IInv
  BY <1>1, PipelineAssumption, PP!InitInv DEF PP!InitInv
<1>3. StoreTypes /\ \A p \in Providers : InCall(p)
  BY DEF Init, Store!Init, StoreTypes, InCall, Store!Replies
<1> QED
  BY <1>2, <1>3 DEF IInv

\* The answer of the store is that of the set of marks when it takes effect.
LEMMA LookupIsFilter ==
    ASSUME IInv, NEW p \in Providers, Lookup(p)
    PROVE  P!Filter(p, FALSE)
<1>1. /\ pc[p] = "filter" /\ pos[p] <= Len(feed[p])
      /\ call[p].id = P!Current(p) /\ P!Current(p) \in Ids
  BY CurrentIsId DEF Lookup, Store!Lookup, IInv, InCall
<1>2. ret'[p] = IF expiry[P!Current(p)] * Sub > now THEN "seen" ELSE "fresh"
  BY <1>1 DEF Lookup, Store!Lookup, Store!Return, IInv, StoreTypes
<1>3. ret'[p] = "seen" <=> P!Current(p) \in {i \in Ids : expiry[i] * Sub > now}
  BY <1>1, <1>2
<1>4. UNCHANGED <<now, expiry>>
  BY DEF Lookup, Store!Lookup
<1> QED
  BY <1>1, <1>3, <1>4 DEF Lookup, Answered, P!Filter

LEMMA LookupFailsIsFilter ==
    ASSUME IInv, NEW p \in Providers, LookupFails(p)
    PROVE  P!Filter(p, TRUE)
<1>1. call[p] # Store!None /\ pc[p] = "filter" /\ UNCHANGED <<now, expiry>>
  BY DEF LookupFails, Store!Fail
<1>2. call[p].op \in {"SeenArticle", "MarkArticle"}
  BY <1>1 DEF IInv, StoreTypes, Store!Calls, Store!Ops
<1>3. pos[p] <= Len(feed[p])
  BY <1>1, <1>2 DEF IInv, InCall
<1> QED
  BY <1>1, <1>3 DEF LookupFails, Answered, P!Filter

\* A mark written late is alive, or has run out already.
LEMMA MarkIsMark ==
    ASSUME IInv, NEW p \in Providers, Mark(p)
    PROVE  P!Mark(p, "alive") \/ P!Mark(p, "expired")
<1> DEFINE i == P!Current(p)
           end == (call[p].at \div Sub) + TTL
           marked == {j \in Ids : expiry[j] * Sub > now}
<1>1. pc[p] = "mark" /\ call[p].id = i /\ i \in Ids
  BY CurrentIsId DEF Mark, Store!Mark, IInv, InCall
<1>2. expiry' = [expiry EXCEPT ![i] = end] /\ now' = now /\ expiry \in [Ids -> Nat]
  BY <1>1 DEF Mark, Store!Mark, IInv, StoreTypes
<1> HIDE DEF i, end
<1>3. \A j \in Ids : expiry'[j] = IF j = i THEN end ELSE expiry[j]
  BY <1>2
<1>4. CASE end * Sub > now
  <2>1. marked' = marked \cup {i}
    BY <1>1, <1>2, <1>3, <1>4
  <2> QED
    BY <1>1, <2>1 DEF Mark, Continue, P!Mark, P!GoTo, i
<1>5. CASE ~(end * Sub > now)
  <2>1. marked' = marked \ {i}
    BY <1>1, <1>2, <1>3, <1>5
  <2> QED
    BY <1>1, <2>1 DEF Mark, Continue, P!Mark, P!GoTo, i
<1> QED
  BY <1>4, <1>5

LEMMA MarkFailsIsMark ==
    ASSUME NEW p \in Providers, MarkFails(p)
    PROVE  P!Mark(p, "failed")
  BY DEF MarkFails, Continue, Store!Fail, P!Mark, P!GoTo

\* Time runs some marks out.
LEMMA TickIsExpire ==
    ASSUME IInv, Tick
    PROVE  \E ids \in SUBSET {i \in Ids : expiry[i] * Sub > now} : P!Expire(ids)
<1> DEFINE marked == {i \in Ids : expiry[i] * Sub > now}
<1>1. now' = now + 1 /\ UNCHANGED expiry /\ UNCHANGED process
  BY DEF Tick, Store!Tick
<1>2. \A i \in Ids : expiry[i] * Sub \in Int
  BY PipelineAssumption DEF IInv, StoreTypes
<1>3. marked' \subseteq marked
  BY <1>1, <1>2 DEF IInv, StoreTypes
<1> DEFINE gone == marked \ marked'
<1>4. marked' = marked \ gone /\ gone \in SUBSET marked
  BY <1>3
<1>5. UNCHANGED P!local /\ UNCHANGED <<delivered, crashes>>
  BY <1>1 DEF P!local, process
<1> HIDE DEF gone
<1> QED
  BY <1>4, <1>5 DEF P!Expire

\* Every step of the pipeline is one of Processor, or none.
LEMMA StepRefines ==
    ASSUME IInv, [Next]_vars
    PROVE  [P!Next]_(P!vars)
<1>1. ASSUME NEW p \in Providers, Compute(p)
      PROVE  P!Step(p)
  BY <1>1 DEF Compute, P!Step
<1>2. ASSUME NEW p \in Providers, BeginLookup(p) \/ BeginMark(p)
      PROVE  UNCHANGED P!vars
  BY <1>2 DEF BeginLookup, BeginMark, Store!Begin, process, P!vars
<1>3. ASSUME NEW p \in Providers, Lookup(p) \/ LookupFails(p)
      PROVE  P!Step(p)
  BY <1>3, LookupIsFilter, LookupFailsIsFilter DEF P!Step
<1>4. ASSUME NEW p \in Providers, Mark(p) \/ MarkFails(p)
      PROVE  P!Step(p)
  BY <1>4, MarkIsMark, MarkFailsIsMark DEF P!Step, P!MarkOutcomes
<1>5. ASSUME Tick PROVE P!Next
  BY <1>5, TickIsExpire DEF P!Next
<1>6. Crash => P!Next
  BY DEF Crash, P!Next
<1>7. NextCrawl => P!Next
  BY DEF NextCrawl, P!Next
<1>8. UNCHANGED vars => UNCHANGED P!vars
  BY DEF vars, process, store, P!vars
<1> QED
  BY <1>1, <1>2, <1>3, <1>4, <1>5, <1>6, <1>7, <1>8 DEF Next, Step, P!Next

LEMMA StepIInv ==
    ASSUME IInv, [Next]_vars
    PROVE  IInv'
<1>1. PP!IInv'
  <2>1. [PP!Next]_(PP!vars)
    BY StepRefines, SameNext
  <2> QED
    BY <2>1, PipelineAssumption, PP!StepInv DEF PP!StepInv, IInv
<1>2. /\ now \in Nat /\ expiry \in [Ids -> Nat] /\ failures \in Nat
      /\ call \in [Providers -> Store!Calls \cup {Store!None}]
      /\ ret \in [Providers -> Store!Replies]
  BY DEF IInv, StoreTypes
<1>3. ASSUME NEW p \in Providers, UNCHANGED <<store, failures>>,
             \A q \in Providers \ {p} : UNCHANGED <<pc[q], feed[q], fresh[q], pos[q]>>,
             call[p] = Store!None
      PROVE  StoreTypes' /\ \A q \in Providers : InCall(q)'
  BY <1>2, <1>3 DEF store, StoreTypes, IInv, InCall
<1>4. ASSUME NEW p \in Providers, Compute(p)
      PROVE  StoreTypes' /\ \A q \in Providers : InCall(q)'
  <2>1. call[p] = Store!None
    <3>1. pc[p] # "mark" /\ (pc[p] = "filter" => pos[p] > Len(feed[p]))
      BY <1>4 DEF Compute, P!Fetch, P!FetchFails, P!Filtered, P!Enrich, P!PublishTo,
                  P!FanoutReturns, P!Finish
    <3>2. feed[p] \in Seq(Ids) /\ pos[p] \in Nat
      BY ProcessTypes DEF IInv
    <3> QED
      BY <1>2, <3>1, <3>2 DEF IInv, InCall, Store!Calls, Store!Ops
  <2>2. \A q \in Providers \ {p} : UNCHANGED <<pc[q], feed[q], fresh[q], pos[q]>>
    BY <1>4, ProcessTypes DEF IInv, Compute, P!Fetch, P!FetchFails, P!Filtered, P!Enrich,
       P!PublishTo, P!FanoutReturns, P!Finish, P!GoTo
  <2> QED
    BY <1>3, <1>4, <2>1, <2>2 DEF Compute
<1>5. ASSUME NEW p \in Providers, BeginLookup(p) \/ BeginMark(p)
      PROVE  StoreTypes' /\ \A q \in Providers : InCall(q)'
  <2>1. PICK op \in Store!Ops : Store!Begin(p, op, P!Current(p))
    BY <1>5 DEF BeginLookup, BeginMark, Store!Ops
  <2>2. P!Current(p) \in Ids
    BY <1>5, CurrentIsId DEF BeginLookup, BeginMark, IInv
  <2>3. /\ UNCHANGED <<now, expiry, failures, pc, feed, fresh, pos>>
        /\ call' = [call EXCEPT ![p] = [op |-> op, id |-> P!Current(p), at |-> now]]
        /\ ret' = [ret EXCEPT ![p] = "none"]
    BY <1>5, <2>1 DEF BeginLookup, BeginMark, Store!Begin, process
  <2>4. StoreTypes'
    BY <1>2, <2>2, <2>3 DEF StoreTypes, Store!Calls, Store!Replies
  <2>5. call'[p] = [op |-> op, id |-> P!Current(p), at |-> now]
    BY <1>2, <2>3
  <2>6. InCall(p)'
    <3>1. CASE BeginLookup(p)
      <4>1. pc[p] = "filter" /\ pos[p] <= Len(feed[p]) /\ op = "SeenArticle"
        BY <1>2, <2>1, <2>5, <3>1 DEF BeginLookup, Store!Begin
      <4> QED
        BY <1>2, <2>3, <2>5, <4>1, CurrentIsId DEF InCall, IInv
    <3>2. CASE BeginMark(p)
      <4>1. pc[p] = "mark" /\ op = "MarkArticle"
        BY <1>2, <2>1, <2>5, <3>2 DEF BeginMark, Store!Begin
      <4> QED
        BY <1>2, <2>3, <2>5, <4>1, CurrentIsId DEF InCall, IInv
    <3> QED
      BY <1>5, <3>1, <3>2
  <2>7. \A q \in Providers \ {p} : InCall(q)'
    BY <1>2, <2>3 DEF IInv, InCall
  <2> QED
    BY <2>4, <2>6, <2>7
<1>6. ASSUME NEW p \in Providers, Lookup(p) \/ LookupFails(p) \/ Mark(p) \/ MarkFails(p)
      PROVE  StoreTypes' /\ \A q \in Providers : InCall(q)'
  <2>1. /\ call[p] # Store!None
        /\ call' = [call EXCEPT ![p] = Store!None]
        /\ now' = now
    BY <1>6 DEF Lookup, LookupFails, Mark, MarkFails, Store!Lookup, Store!Mark, Store!Fail,
                Store!Return
  <2>2. \A q \in Providers \ {p} : UNCHANGED <<pc[q], feed[q], fresh[q], pos[q]>>
    BY <1>6, ProcessTypes DEF IInv, Lookup, LookupFails, Mark, MarkFails, Answered, Continue
  <2>3. ret' \in [Providers -> Store!Replies] /\ failures' \in Nat
    <3>1. \E reply \in {"seen", "fresh", "marked", "error"} :
             ret' = [ret EXCEPT ![p] = reply]
      BY <1>6 DEF Lookup, LookupFails, Mark, MarkFails, Store!Lookup, Store!Mark,
                  Store!Fail, Store!Return
    <3>2. failures' = failures \/ failures' = failures + 1
      BY <1>6 DEF Lookup, LookupFails, Mark, MarkFails
    <3> QED
      BY <1>2, <3>1, <3>2 DEF Store!Replies
  <2>4. expiry' \in [Ids -> Nat]
    <3>1. call[p].id \in Ids /\ (call[p].at \div Sub) + TTL \in Nat
      <4>1. call[p].at \in Nat /\ call[p].id \in Ids
        BY <1>2, <2>1 DEF Store!Calls
      <4> QED
        BY <4>1, PipelineAssumption
    <3> QED
      BY <1>2, <1>6, <3>1 DEF Lookup, LookupFails, Mark, MarkFails, Store!Lookup, Store!Mark,
                              Store!Fail
  <2>5. StoreTypes'
    BY <1>2, <2>1, <2>3, <2>4 DEF StoreTypes
  <2> QED
    BY <1>2, <2>1, <2>2, <2>5 DEF IInv, InCall
<1>7. ASSUME NextCrawl
      PROVE  StoreTypes' /\ \A q \in Providers : InCall(q)'
  <2>1. \A q \in Providers : call[q] = Store!None
    BY <1>2, <1>7 DEF NextCrawl, P!NextCrawl, P!Returned, IInv, InCall, Store!Calls, Store!Ops
  <2> QED
    BY <1>2, <1>7, <2>1 DEF NextCrawl, store, StoreTypes, InCall
<1>8. ASSUME Crash
      PROVE  StoreTypes' /\ \A q \in Providers : InCall(q)'
  BY <1>2, <1>8 DEF Crash, Store!Restart, StoreTypes, InCall, Store!Replies
<1>9. ASSUME Tick
      PROVE  StoreTypes' /\ \A q \in Providers : InCall(q)'
  <2>1. /\ now' = now + 1
        /\ UNCHANGED <<expiry, call, ret, failures, pc, feed, fresh, pos>>
    BY <1>9 DEF Tick, Store!Tick, process
  <2>2. \A q \in Providers : call[q] # Store!None => call[q].at \in Nat
    BY <1>2 DEF Store!Calls
  <2> QED
    BY <1>2, <2>1, <2>2 DEF StoreTypes, IInv, InCall
<1>10. ASSUME UNCHANGED vars
       PROVE  StoreTypes' /\ \A q \in Providers : InCall(q)'
  BY <1>2, <1>10 DEF vars, process, store, StoreTypes, IInv, InCall
<1> QED
  BY <1>1, <1>4, <1>5, <1>6, <1>7, <1>8, <1>9, <1>10 DEF Next, Step, IInv

LEMMA Invariant == Spec => []IInv
<1>1. IInv /\ [Next]_vars => IInv'
  BY StepIInv
<1> QED
  BY <1>1, InitIInv, PTL DEF Spec
-----------------------------------------------------------------------------
\* The pipeline on the timed store behaves as the one on a set of marks that may
\* run out at any moment.
THEOREM ImplementsProcessor == Spec => ProcessorSpec
<1>1. Init => P!Init
  BY DEF Init
<1>2. IInv /\ [Next]_vars => [P!Next]_(P!vars)
  BY StepRefines
<1> QED
  BY <1>1, <1>2, Invariant, PTL DEF Spec, ProcessorSpec, P!Spec

\* With calls of the store that are open while the clock runs, an article is
\* still skipped only if some sink has received it.
THEOREM MarksDelivered == Spec => []P!MarkedWasDelivered
<1>1. IInv => P!MarkedWasDelivered
  BY DEF IInv, PP!IInv, PP!MarkedWasDelivered, P!MarkedWasDelivered, PP!Reached, P!Reached,
         PP!Sinks, P!Sinks
<1> QED
  BY <1>1, Invariant, PTL

\* And a nil error accounts for the whole feed.
THEOREM NilAccounts == Spec => []P!NilMeansDelivered
<1>1. IInv => P!NilMeansDelivered
  BY DEF IInv, PP!IInv, PP!Knows, PP!Accounted, P!NilMeansDelivered, PP!Reached, P!Reached,
         PP!Sinks, P!Sinks, PP!Elements, P!Elements
<1> QED
  BY <1>1, Invariant, PTL
-----------------------------------------------------------------------------
\* How long a mark lasts at least, in instants.
Period == (TTL - 1) * Sub + 1

\* Process p has yet to look at the k-th article of its feed, and it is i.
ToRead(p, k, i) ==
    \/ pc[p] = "ready"
    \/ pc[p] = "filter" /\ k \in pos[p]..Len(feed[p]) /\ feed[p][k] = i

\* The places that list article i which the current crawl has yet to look at.
Unread(i) == {x \in Listings(i) : ToRead(x[1], x[2], i)}

\* The j-th article that the filter of p kept is i, and may still go to sink s.
ToSend(p, j, i, s) ==
    /\ j \in 1..Len(fresh[p])
    /\ fresh[p][j] = i
    /\ \/ pc[p] \in {"filter", "enrich"}
       \/ pc[p] = "publish" /\ (j > pos[p] \/ (j = pos[p] /\ sink[p] <= s))
       \/ pc[p] = "mark" /\ j > pos[p]

\* Where the filters kept article i and it may still go to sink s.
Kept(i, s) == {x \in Providers \X Nat : ToSend(x[1], x[2], i, s)}

\* How often the current crawl may still deliver article i to sink s.
Ahead(i, s) == Cardinality(Unread(i)) + Cardinality(Kept(i, s))

\* The filter of p has kept article i.
Holds(p, i) == \E j \in 1..Len(fresh[p]) : fresh[p][j] = i

\* Process p is about to mark article i, which a sink has accepted.
Pending(p, i) ==
    \/ /\ pc[p] = "publish"
       /\ pos[p] <= Len(fresh[p])
       /\ fresh[p][pos[p]] = i
       /\ successful[p] > 0
    \/ pc[p] = "mark" /\ fresh[p][pos[p]] = i

\* The open marks of article i began after m periods.
MarksFrom(i, m) ==
    \A p \in Providers :
        call[p] # Store!None /\ call[p].op = "MarkArticle" /\ call[p].id = i
            => call[p].at >= m * Period

\* The mark of article i lasts into the period after the m-th.
Alive(i, m) == expiry[i] * Sub >= (m + 1) * Period

\* The crawls that may deliver an article in m periods and a bit.
Credit(m) == 1 + crashes + failures + m

Places(i) == Cardinality(Listings(i))

\* No process holds article i, and none will before its mark has run out.
Guarded(i, m) ==
    /\ \A p \in Providers : ~Holds(p, i)
    /\ Alive(i, m)
    /\ \A s \in P!Sinks : delivered[i][s] <= Places(i) * Credit(m)

\* There is a crawl left for article i that has delivered none of it.
Owed(i, m) ==
    /\ MarksFrom(i, m)
    /\ \A s \in P!Sinks : delivered[i][s] <= Places(i) * (Credit(m) - 1)

\* The current crawl has delivered article i: a mark is there, or to come.
Used(i, m) ==
    /\ MarksFrom(i, m)
    /\ Alive(i, m) \/ \E p \in Providers : Pending(p, i)
    /\ \A s \in P!Sinks : delivered[i][s] + Ahead(i, s) <= Places(i) * Credit(m)

PeriodInv(i) ==
    \E m \in Nat :
        /\ m * Period <= now
        /\ Guarded(i, m) \/ Owed(i, m) \/ Used(i, m)

\* What the filter reads is what the fetcher returned.
FromFetcher == \A p \in Providers : pc[p] = "filter" => feed[p] \in Feeds[p]

\* A crawl delivers an article no more often than it is listed.
AheadInv(i) ==
    \A s \in P!Sinks : IsFiniteSet(Kept(i, s)) /\ Ahead(i, s) <= Places(i)

PeriodIInv ==
    /\ IInv
    /\ FromFetcher
    /\ \A i \in Ids : AheadInv(i) /\ PeriodInv(i)

\* No article is listed at infinitely many places.
Bounded == \A i \in Ids : IsFiniteSet(Listings(i))

LEMMA ListingsType ==
    ASSUME NEW i \in Ids, NEW x \in Listings(i)
    PROVE  x \in Providers \X Nat
<1>1. PICK p \in Providers :
         \E f \in Feeds[p] : x \in {p} \X {k \in DOMAIN f : f[k] = i}
  BY DEF Listings
<1>2. PICK f \in Feeds[p] : x \in {p} \X {k \in DOMAIN f : f[k] = i}
  BY <1>1
<1>3. f \in Seq(Ids)
  BY PipelineAssumption
<1> QED
  BY <1>2, <1>3

\* A listed article is at a place of its feed.
LEMMA ListedHere ==
    ASSUME NEW p \in Providers, NEW f \in Feeds[p], NEW k \in 1..Len(f)
    PROVE  <<p, k>> \in Listings(f[k])
<1>1. DOMAIN f = 1..Len(f)
  BY PipelineAssumption
<1>2. <<p, k>> \in {p} \X {l \in DOMAIN f : f[l] = f[k]}
  BY <1>1
<1> QED
  BY <1>2 DEF Listings

\* The number of the places left shrinks with them.
LEMMA Fewer ==
    ASSUME NEW U, NEW V \in SUBSET U, NEW K, NEW L \in SUBSET K,
           IsFiniteSet(U), IsFiniteSet(K)
    PROVE  /\ IsFiniteSet(L)
           /\ Cardinality(V) + Cardinality(L) <= Cardinality(U) + Cardinality(K)
           /\ Cardinality(V) + Cardinality(L) \in Nat
           /\ Cardinality(U) + Cardinality(K) \in Nat
<1>1. IsFiniteSet(V) /\ Cardinality(V) <= Cardinality(U)
  BY FS_Subset
<1>2. IsFiniteSet(L) /\ Cardinality(L) <= Cardinality(K)
  BY FS_Subset
<1>3. /\ Cardinality(U) \in Nat /\ Cardinality(V) \in Nat
      /\ Cardinality(K) \in Nat /\ Cardinality(L) \in Nat
  BY <1>1, <1>2, FS_CardinalityType
<1> QED
  BY <1>1, <1>2, <1>3

\* One that is exchanged for another leaves it as it is,
LEMMA Exchanged ==
    ASSUME NEW U, NEW x \in U, NEW V \in SUBSET (U \ {x}),
           NEW K, NEW y, NEW L \in SUBSET (K \cup {y}),
           IsFiniteSet(U), IsFiniteSet(K)
    PROVE  /\ IsFiniteSet(L)
           /\ Cardinality(V) + Cardinality(L) <= Cardinality(U) + Cardinality(K)
           /\ Cardinality(V) + Cardinality(L) \in Nat
<1>1. IsFiniteSet(U \ {x}) /\ Cardinality(U \ {x}) = Cardinality(U) - 1
  BY FS_RemoveElement
<1>2. /\ IsFiniteSet(K \cup {y})
      /\ \/ Cardinality(K \cup {y}) = Cardinality(K)
         \/ Cardinality(K \cup {y}) = Cardinality(K) + 1
  BY FS_AddElement
<1>3. Cardinality(U) \in Nat /\ Cardinality(K) \in Nat
  BY FS_CardinalityType
<1> DEFINE A == U \ {x}
           B == K \cup {y}
<1> HIDE DEF A, B
<1>4. /\ IsFiniteSet(L)
      /\ Cardinality(V) + Cardinality(L) <= Cardinality(A) + Cardinality(B)
      /\ Cardinality(V) + Cardinality(L) \in Nat
  <2>1. V \in SUBSET A /\ L \in SUBSET B /\ IsFiniteSet(A) /\ IsFiniteSet(B)
    BY <1>1, <1>2 DEF A, B
  <2> QED
    BY <2>1, Fewer
<1> QED
  BY <1>1, <1>2, <1>3, <1>4 DEF A, B

\* and one that goes is one less.
LEMMA OneLess ==
    ASSUME NEW U, NEW V \in SUBSET U, NEW K, NEW x \in K, NEW L \in SUBSET (K \ {x}),
           IsFiniteSet(U), IsFiniteSet(K)
    PROVE  Cardinality(V) + Cardinality(L) <= (Cardinality(U) + Cardinality(K)) - 1
<1>1. IsFiniteSet(K \ {x}) /\ Cardinality(K \ {x}) = Cardinality(K) - 1
  BY FS_RemoveElement
<1>2. Cardinality(U) \in Nat /\ Cardinality(K) \in Nat
  BY FS_CardinalityType
<1> DEFINE B == K \ {x}
<1> HIDE DEF B
<1>3. Cardinality(V) + Cardinality(L) <= Cardinality(U) + Cardinality(B)
  <2>1. L \in SUBSET B /\ IsFiniteSet(B)
    BY <1>1 DEF B
  <2> QED
    BY <2>1, Fewer
<1> QED
  BY <1>1, <1>2, <1>3 DEF B

LEMMA AheadTypes ==
    ASSUME Bounded, NEW i \in Ids, NEW s \in P!Sinks, AheadInv(i)
    PROVE  /\ IsFiniteSet(Unread(i)) /\ IsFiniteSet(Kept(i, s))
           /\ Ahead(i, s) \in Nat /\ Places(i) \in Nat
<1>1. IsFiniteSet(Listings(i)) /\ Unread(i) \subseteq Listings(i)
  BY DEF Bounded, Unread
<1>2. IsFiniteSet(Unread(i))
  BY <1>1, FS_Subset
<1>3. IsFiniteSet(Kept(i, s))
  BY DEF AheadInv
<1>4. Cardinality(Unread(i)) \in Nat /\ Cardinality(Kept(i, s)) \in Nat
  BY <1>2, <1>3, FS_CardinalityType
<1>5. Places(i) \in Nat
  BY <1>1, FS_CardinalityType DEF Places
<1> QED
  BY <1>2, <1>3, <1>4, <1>5 DEF Ahead

\* No place comes back before the next crawl.
NoneBack(i, s) ==
    \A p \in Providers, k \in Nat :
        /\ ToRead(p, k, i)' => ToRead(p, k, i)
        /\ ToSend(p, k, i, s)' => ToSend(p, k, i, s)

LEMMA NoneBackShrinks ==
    ASSUME NEW i \in Ids, NEW s \in P!Sinks, NoneBack(i, s)
    PROVE  Unread(i)' \subseteq Unread(i) /\ Kept(i, s)' \subseteq Kept(i, s)
<1>1. \A x \in Providers \X Nat : x[1] \in Providers /\ x[2] \in Nat
  OBVIOUS
<1>2. Unread(i)' \subseteq Unread(i)
  BY <1>1, ListingsType DEF Unread, NoneBack
<1>3. Kept(i, s)' \subseteq Kept(i, s)
  BY <1>1 DEF Kept, NoneBack
<1> QED
  BY <1>2, <1>3

LEMMA AheadShrinks ==
    ASSUME Bounded, NEW i \in Ids, NEW s \in P!Sinks, AheadInv(i), NoneBack(i, s)
    PROVE  IsFiniteSet(Kept(i, s)') /\ Ahead(i, s)' <= Ahead(i, s) /\ Ahead(i, s)' \in Nat
<1>1. IsFiniteSet(Unread(i)) /\ IsFiniteSet(Kept(i, s))
  BY AheadTypes
<1>2. Unread(i)' \subseteq Unread(i) /\ Kept(i, s)' \subseteq Kept(i, s)
  BY NoneBackShrinks
<1> QED
  BY <1>1, <1>2, Fewer DEF Ahead

\* A step of one process leaves the places of the others alone.
LEMMA OneMoves ==
    ASSUME NEW p \in Providers, NEW i, NEW s,
           \A q \in Providers \ {p} :
               UNCHANGED <<pc[q], feed[q], fresh[q], pos[q], sink[q]>>,
           \A k \in Nat : /\ ToRead(p, k, i)' => ToRead(p, k, i)
                          /\ ToSend(p, k, i, s)' => ToSend(p, k, i, s)
    PROVE  NoneBack(i, s)
<1>1. ASSUME NEW q \in Providers, q # p, NEW k \in Nat
      PROVE  /\ ToRead(q, k, i)' => ToRead(q, k, i)
             /\ ToSend(q, k, i, s)' => ToSend(q, k, i, s)
  BY <1>1 DEF ToRead, ToSend
<1> QED
  BY <1>1 DEF NoneBack

\* What a process does by itself brings back no place.
LEMMA ComputeNoneBack ==
    ASSUME IInv, NEW p \in Providers, Compute(p), NEW i, NEW s \in P!Sinks
    PROVE  NoneBack(i, s)
<1> USE DEF P!GoTo
<1>1. /\ pos[p] \in Nat \ {0} /\ sink[p] \in Nat /\ s \in 1..NSinks
      /\ feed[p] \in Seq(Ids) /\ fresh[p] \in Seq(Ids)
      /\ pc[p] = "ready" => fresh[p] = <<>>
  <2>1. pc[p] = "ready" => fresh[p] = <<>>
    BY DEF IInv, PP!IInv, PP!Knows, PP!Filtering
  <2>2. sink[p] \in 1..(NSinks + 1)
    BY ProcessTypes DEF IInv
  <2> QED
    BY <2>1, <2>2, ProcessTypes, PipelineAssumption DEF IInv, P!Sinks
<1>2. \A q \in Providers \ {p} : UNCHANGED <<pc[q], feed[q], fresh[q], pos[q], sink[q]>>
  BY ProcessTypes DEF IInv, Compute, P!Fetch, P!FetchFails, P!Filtered, P!Enrich,
     P!PublishTo, P!FanoutReturns, P!Finish
<1>3. ASSUME NEW k \in Nat
      PROVE  /\ ToRead(p, k, i)' => ToRead(p, k, i)
             /\ ToSend(p, k, i, s)' => ToSend(p, k, i, s)
  <2> USE ProcessTypes DEF IInv, ToRead, ToSend
  <2>1. P!Fetch(p) => pc[p] = "ready" /\ pc'[p] = "filter" /\ fresh'[p] = <<>>
    BY <1>1 DEF P!Fetch
  <2>2. P!FetchFails(p) \/ P!Finish(p) => pc'[p] \in {"ok", "err"}
    BY DEF P!FetchFails, P!Finish
  <2>3. P!Filtered(p) => pc[p] = "filter" /\ pc'[p] = "enrich" /\ fresh'[p] = fresh[p]
    BY DEF P!Filtered
  <2>4. P!Enrich(p) => /\ pc[p] = "enrich" /\ pc'[p] \in {"ok", "publish"}
                       /\ fresh'[p] = fresh[p]
    BY DEF P!Enrich
  <2>5. ASSUME NEW outcome, P!PublishTo(p, outcome)
        PROVE  /\ pc[p] = "publish" /\ pc'[p] = "publish" /\ fresh'[p] = fresh[p]
               /\ pos'[p] = pos[p] /\ sink'[p] = sink[p] + 1
    BY <2>5 DEF P!PublishTo
  <2>6. P!FanoutReturns(p) =>
           /\ pc[p] = "publish" /\ fresh'[p] = fresh[p]
           /\ \/ pc'[p] = "mark" /\ pos'[p] = pos[p]
              \/ pc'[p] = "publish" /\ pos'[p] = pos[p] + 1
    BY DEF P!FanoutReturns
  <2>7. \/ P!Fetch(p) \/ P!FetchFails(p) \/ P!Finish(p) \/ P!Filtered(p) \/ P!Enrich(p)
        \/ \E outcome \in Outcomes : P!PublishTo(p, outcome)
        \/ P!FanoutReturns(p)
    BY DEF Compute
  <2> QED
    BY <1>1, <2>1, <2>2, <2>3, <2>4, <2>5, <2>6, <2>7
<1> QED
  BY <1>2, <1>3, OneMoves

\* Nor does a lookup whose article is skipped, or is another.
LEMMA AnsweredNoneBack ==
    ASSUME IInv, NEW p \in Providers, NEW seen, Answered(p, seen), pc[p] = "filter",
           pos[p] <= Len(feed[p]), NEW i, seen = TRUE \/ P!Current(p) # i, NEW s
    PROVE  NoneBack(i, s)
<1>1. /\ pos[p] \in Nat \ {0} /\ feed[p] \in Seq(Ids) /\ fresh[p] \in Seq(Ids)
      /\ P!Current(p) \in Ids
  BY ProcessTypes, CurrentIsId DEF IInv
<1>2. \A q \in Providers \ {p} : UNCHANGED <<pc[q], feed[q], fresh[q], pos[q], sink[q]>>
  BY ProcessTypes DEF IInv, Answered
<1>3. /\ pc'[p] = "filter" /\ feed'[p] = feed[p] /\ pos'[p] = pos[p] + 1
      /\ \/ fresh'[p] = fresh[p]
         \/ fresh'[p] = Append(fresh[p], P!Current(p)) /\ P!Current(p) # i
  BY ProcessTypes DEF IInv, Answered
<1>4. \A k \in Nat : k \in 1..Len(fresh'[p]) /\ fresh'[p][k] = i
                        => k \in 1..Len(fresh[p]) /\ fresh[p][k] = i
  <2>1. CASE fresh'[p] = fresh[p]
    BY <2>1
  <2>2. CASE fresh'[p] = Append(fresh[p], P!Current(p)) /\ P!Current(p) # i
    <3> DEFINE f == fresh[p]
               c == P!Current(p)
    <3>1. f \in Seq(Ids) /\ c \in Ids
      BY <1>1
    <3> HIDE DEF f, c
    <3>2. /\ Len(Append(f, c)) = Len(f) + 1 /\ Append(f, c)[Len(f) + 1] = c
          /\ \A k \in 1..Len(f) : Append(f, c)[k] = f[k]
          /\ Len(f) \in Nat
      BY <3>1
    <3>3. \A k \in 1..Len(Append(f, c)) : k \in 1..Len(f) \/ k = Len(f) + 1
      BY <3>2
    <3> QED
      BY <2>2, <3>2, <3>3 DEF f, c
  <2> QED
    BY <1>3, <2>1, <2>2
<1>5. ASSUME NEW k \in Nat
      PROVE  /\ ToRead(p, k, i)' => ToRead(p, k, i)
             /\ ToSend(p, k, i, s)' => ToSend(p, k, i, s)
  BY <1>1, <1>3, <1>4 DEF ToRead, ToSend
<1> QED
  BY <1>2, <1>5, OneMoves

\* Nor does the end of a mark.
LEMMA ContinueNoneBack ==
    ASSUME IInv, NEW p \in Providers, Continue(p), pc[p] = "mark", NEW i, NEW s
    PROVE  NoneBack(i, s)
<1>1. pos[p] \in Nat \ {0} /\ fresh[p] \in Seq(Ids)
  BY ProcessTypes DEF IInv
<1>2. \A q \in Providers \ {p} : UNCHANGED <<pc[q], feed[q], fresh[q], pos[q], sink[q]>>
  BY ProcessTypes DEF IInv, Continue
<1>3. pc'[p] = "publish" /\ fresh'[p] = fresh[p] /\ pos'[p] = pos[p] + 1
  BY ProcessTypes DEF IInv, Continue
<1>4. ASSUME NEW k \in Nat
      PROVE  /\ ToRead(p, k, i)' => ToRead(p, k, i)
             /\ ToSend(p, k, i, s)' => ToSend(p, k, i, s)
  BY <1>1, <1>3 DEF ToRead, ToSend
<1> QED
  BY <1>2, <1>4, OneMoves

\* An article that is kept is no longer to be read.
LEMMA KeptIsRead ==
    ASSUME Bounded, IInv, FromFetcher, NEW p \in Providers, Answered(p, FALSE),
           pc[p] = "filter", pos[p] <= Len(feed[p]),
           NEW i \in Ids, P!Current(p) = i, AheadInv(i), NEW s \in P!Sinks
    PROVE  IsFiniteSet(Kept(i, s)') /\ Ahead(i, s)' <= Ahead(i, s) /\ Ahead(i, s)' \in Nat
<1> DEFINE x == <<p, pos[p]>>
           y == <<p, Len(fresh[p]) + 1>>
<1>1. /\ pos[p] \in Nat \ {0} /\ feed[p] \in Seq(Ids) /\ fresh[p] \in Seq(Ids)
      /\ feed[p][pos[p]] = i
  BY ProcessTypes, CurrentIsId DEF IInv
<1>2. \A q \in Providers \ {p} : UNCHANGED <<pc[q], feed[q], fresh[q], pos[q], sink[q]>>
  BY ProcessTypes DEF IInv, Answered
<1>3. /\ pc'[p] = "filter" /\ feed'[p] = feed[p] /\ pos'[p] = pos[p] + 1
      /\ fresh'[p] = Append(fresh[p], i)
  BY ProcessTypes DEF IInv, Answered
<1>4. x \in Unread(i)
  <2>1. pos[p] \in 1..Len(feed[p]) /\ feed[p] \in Feeds[p]
    BY <1>1 DEF FromFetcher
  <2>2. x \in Listings(i)
    BY <1>1, <2>1, ListedHere
  <2>3. ToRead(p, pos[p], i)
    BY <1>1, <2>1 DEF ToRead
  <2> QED
    BY <2>2, <2>3 DEF Unread
<1>5. \A q \in Providers, k \in Nat :
         ToRead(q, k, i)' => ToRead(q, k, i) /\ (q # p \/ k # pos[p])
  <2>1. ASSUME NEW q \in Providers, q # p, NEW k \in Nat
        PROVE  ToRead(q, k, i)' => ToRead(q, k, i)
    BY <1>2, <2>1 DEF ToRead
  <2>2. ASSUME NEW k \in Nat
        PROVE  ToRead(p, k, i)' => ToRead(p, k, i) /\ k # pos[p]
    BY <1>1, <1>3 DEF ToRead
  <2> QED
    BY <2>1, <2>2
<1>6. \A q \in Providers, k \in Nat :
         ToSend(q, k, i, s)' =>
            ToSend(q, k, i, s) \/ (q = p /\ k = Len(fresh[p]) + 1)
  <2>1. ASSUME NEW q \in Providers, q # p, NEW k \in Nat
        PROVE  ToSend(q, k, i, s)' => ToSend(q, k, i, s)
    BY <1>2, <2>1 DEF ToSend
  <2>2. ASSUME NEW k \in Nat
        PROVE  ToSend(p, k, i, s)' => ToSend(p, k, i, s) \/ k = Len(fresh[p]) + 1
    BY <1>1, <1>3 DEF ToSend
  <2> QED
    BY <2>1, <2>2
<1> HIDE DEF x, y
<1>7. \A z \in Providers \X Nat : z = <<z[1], z[2]>> /\ z[1] \in Providers /\ z[2] \in Nat
  OBVIOUS
<1>8. Unread(i)' \subseteq Unread(i) \ {x}
  BY <1>5, <1>7, ListingsType DEF Unread, x
<1>9. Kept(i, s)' \subseteq Kept(i, s) \cup {y}
  BY <1>6, <1>7 DEF Kept, y
<1>10. IsFiniteSet(Unread(i)) /\ IsFiniteSet(Kept(i, s))
  BY AheadTypes
<1> QED
  BY <1>4, <1>8, <1>9, <1>10, Exchanged DEF Ahead

\* A sink that has been called is not called again for that place.
LEMMA SentIsDone ==
    ASSUME Bounded, IInv, NEW p \in Providers, NEW outcome \in Outcomes,
           Compute(p), P!PublishTo(p, outcome),
           NEW i, P!Current(p) = i, NEW s, sink[p] = s, AheadInv(i)
    PROVE  Ahead(i, s)' <= Ahead(i, s) - 1
<1> DEFINE x == <<p, pos[p]>>
<1>1. /\ pc[p] = "publish" /\ pos[p] \in 1..Len(fresh[p]) /\ s \in P!Sinks
      /\ i = fresh[p][pos[p]] /\ i \in Ids
  <2>1. pc[p] = "publish" /\ pos[p] <= Len(fresh[p]) /\ s <= NSinks
    BY DEF P!PublishTo
  <2>2. pos[p] \in Nat \ {0} /\ fresh[p] \in Seq(Ids) /\ s \in 1..(NSinks + 1)
    BY ProcessTypes DEF IInv
  <2>3. P!Current(p) = fresh[p][pos[p]] /\ P!Current(p) \in Ids
    BY <2>1, CurrentIsId DEF IInv
  <2> QED
    BY <2>1, <2>2, <2>3, PipelineAssumption DEF P!Sinks
<1>2. UNCHANGED <<pc, fresh, pos>> /\ sink'[p] = s + 1
  BY ProcessTypes DEF P!PublishTo, IInv
<1>3. s \in Nat
  BY <1>1, PipelineAssumption DEF P!Sinks
<1>4. x \in Kept(i, s)
  <2>1. ToSend(p, pos[p], i, s)
    BY <1>1, <1>3 DEF ToSend
  <2> QED
    BY <1>1, <2>1 DEF Kept
<1>5. x \notin Kept(i, s)'
  <2>1. ~ToSend(p, pos[p], i, s)'
    BY <1>1, <1>2, <1>3 DEF ToSend
  <2> QED
    BY <1>2, <2>1 DEF Kept
<1>6. Unread(i)' \subseteq Unread(i) /\ Kept(i, s)' \subseteq Kept(i, s)
  <2>1. NoneBack(i, s)
    BY <1>1, ComputeNoneBack
  <2> QED
    BY <1>1, <2>1, NoneBackShrinks
<1>7. IsFiniteSet(Unread(i)) /\ IsFiniteSet(Kept(i, s))
  BY <1>1, AheadTypes
<1> HIDE DEF x
<1>8. Kept(i, s)' \subseteq Kept(i, s) \ {x}
  BY <1>5, <1>6
<1>9. Cardinality(Unread(i)') + Cardinality(Kept(i, s)')
         <= (Cardinality(Unread(i)) + Cardinality(Kept(i, s))) - 1
  BY <1>4, <1>6, <1>7, <1>8, OneLess
<1> QED
  BY <1>9 DEF Ahead
-----------------------------------------------------------------------------
LEMMA StepFromFetcher ==
    ASSUME IInv, FromFetcher, [Next]_vars
    PROVE  FromFetcher'
<1>1. pc \in [Providers -> {"ready", "filter", "enrich", "publish", "mark", "ok", "err"}]
      /\ feed \in [Providers -> Seq(Ids)]
  BY ProcessTypes DEF IInv
<1>2. ASSUME NEW p \in Providers, Compute(p)
      PROVE  FromFetcher'
  <2>1. ASSUME P!Fetch(p) PROVE FromFetcher'
    BY <1>1, <2>1 DEF P!Fetch, P!GoTo, FromFetcher
  <2>2. ASSUME ~P!Fetch(p) PROVE FromFetcher'
    <3>1. feed' = feed /\ \A q \in Providers : pc'[q] = "filter" => pc[q] = "filter"
      BY <1>1, <1>2, <2>2 DEF Compute, P!FetchFails, P!Filtered, P!Enrich, P!PublishTo,
                              P!FanoutReturns, P!Finish, P!GoTo
    <3> QED
      BY <3>1 DEF FromFetcher
  <2> QED
    BY <2>1, <2>2
<1>3. ASSUME NEW p \in Providers, BeginLookup(p) \/ BeginMark(p) \/ Lookup(p)
                                    \/ LookupFails(p) \/ Mark(p) \/ MarkFails(p)
      PROVE  FromFetcher'
  <2>1. feed' = feed /\ \A q \in Providers : pc'[q] = "filter" => pc[q] = "filter"
    BY <1>1, <1>3 DEF BeginLookup, BeginMark, Lookup, LookupFails, Mark, MarkFails,
                      Answered, Continue, process
  <2> QED
    BY <2>1 DEF FromFetcher
<1>4. ASSUME NextCrawl \/ Crash PROVE FromFetcher'
  BY <1>4 DEF NextCrawl, Crash, P!NextCrawl, P!Crash, P!Reset, FromFetcher
<1>5. ASSUME Tick \/ UNCHANGED vars PROVE FromFetcher'
  BY <1>5 DEF Tick, vars, process, FromFetcher
<1> QED
  BY <1>2, <1>3, <1>4, <1>5 DEF Next, Step

\* A crawl that begins has every place before it.
LEMMA ResetAhead ==
    ASSUME Bounded, P!Reset, NEW i \in Ids, NEW s \in P!Sinks
    PROVE  IsFiniteSet(Kept(i, s)') /\ Ahead(i, s)' <= Places(i) /\ Ahead(i, s)' \in Nat
<1>1. Unread(i)' \subseteq Listings(i)
  BY DEF Unread
<1>2. Kept(i, s)' = {}
  BY DEF Kept, ToSend, P!Reset
<1>3. Cardinality({}) = 0 /\ IsFiniteSet({}) /\ IsFiniteSet(Listings(i))
  BY FS_EmptySet DEF Bounded
<1>4. /\ Cardinality(Unread(i)') <= Places(i) /\ Cardinality(Unread(i)') \in Nat
  BY <1>1, <1>3, FS_Subset, FS_CardinalityType DEF Places
<1>5. Places(i) \in Nat
  BY <1>3, FS_CardinalityType DEF Places
<1> QED
  BY <1>2, <1>3, <1>4, <1>5 DEF Ahead

\* In every other step the places left are as many, or fewer.
LEMMA StepAhead ==
    ASSUME Bounded, IInv, FromFetcher, [Next]_vars, ~NextCrawl, ~Crash,
           NEW i \in Ids, AheadInv(i), NEW s \in P!Sinks
    PROVE  IsFiniteSet(Kept(i, s)') /\ Ahead(i, s)' <= Ahead(i, s) /\ Ahead(i, s)' \in Nat
<1>1. ASSUME NEW p \in Providers, Compute(p)
      PROVE  NoneBack(i, s)
  BY <1>1, ComputeNoneBack
<1>2. ASSUME NEW p \in Providers, BeginLookup(p) \/ BeginMark(p)
      PROVE  NoneBack(i, s)
  BY <1>2 DEF BeginLookup, BeginMark, process, NoneBack, ToRead, ToSend
<1>3. ASSUME NEW p \in Providers, Lookup(p) \/ LookupFails(p)
      PROVE  \/ NoneBack(i, s)
             \/ IsFiniteSet(Kept(i, s)') /\ Ahead(i, s)' <= Ahead(i, s) /\ Ahead(i, s)' \in Nat
  <2>1. pc[p] = "filter" /\ pos[p] <= Len(feed[p])
    BY <1>3, LookupIsFilter, LookupFailsIsFilter DEF P!Filter
  <2>2. Answered(p, FALSE) \/ Answered(p, TRUE)
    BY <1>3 DEF Lookup, LookupFails, Answered
  <2>3. CASE Answered(p, FALSE) /\ P!Current(p) = i
    BY <2>1, <2>3, KeptIsRead
  <2>4. CASE Answered(p, TRUE) \/ (Answered(p, FALSE) /\ P!Current(p) # i)
    BY <2>1, <2>4, AnsweredNoneBack
  <2> QED
    BY <2>2, <2>3, <2>4
<1>4. ASSUME NEW p \in Providers, Mark(p) \/ MarkFails(p)
      PROVE  NoneBack(i, s)
  <2>1. pc[p] = "mark" /\ Continue(p)
    BY <1>4, MarkIsMark, MarkFailsIsMark DEF P!Mark, Mark, MarkFails
  <2> QED
    BY <2>1, ContinueNoneBack
<1>5. ASSUME Tick \/ UNCHANGED vars PROVE NoneBack(i, s)
  BY <1>5 DEF Tick, vars, process, NoneBack, ToRead, ToSend
<1> QED
  BY <1>1, <1>2, <1>3, <1>4, <1>5, AheadShrinks DEF Next, Step

LEMMA StepAheadInv ==
    ASSUME Bounded, IInv, FromFetcher, [Next]_vars, NEW i \in Ids, AheadInv(i)
    PROVE  AheadInv(i)'
<1> SUFFICES ASSUME NEW s \in P!Sinks
             PROVE  IsFiniteSet(Kept(i, s)') /\ Ahead(i, s)' <= Places(i)
  BY DEF AheadInv, P!Sinks, Places
<1>1. CASE NextCrawl \/ Crash
  BY <1>1, ResetAhead DEF NextCrawl, Crash, P!NextCrawl, P!Crash
<1>2. CASE ~NextCrawl /\ ~Crash
  <2>1. IsFiniteSet(Kept(i, s)') /\ Ahead(i, s)' <= Ahead(i, s) /\ Ahead(i, s)' \in Nat
    BY <1>2, StepAhead
  <2>2. Ahead(i, s) <= Places(i) /\ Ahead(i, s) \in Nat /\ Places(i) \in Nat
    BY AheadTypes DEF AheadInv
  <2> QED
    BY <2>1, <2>2
<1> QED
  BY <1>1, <1>2
-----------------------------------------------------------------------------
LEMMA PeriodType == Period \in Nat \ {0}
<1>1. TTL - 1 \in Nat /\ Sub \in Nat
  BY PipelineAssumption
<1>2. (TTL - 1) * Sub \in Nat
  BY <1>1
<1> QED
  BY <1>2 DEF Period

LEMMA ProductGrows ==
    ASSUME NEW a \in Nat, NEW b \in Int, NEW c \in Int, b <= c
    PROVE  a * b <= a * c /\ a * b \in Int /\ a * c \in Int
<1>1. c - b \in Nat /\ a * (c - b) \in Nat
  OBVIOUS
<1>2. a * (c - b) = a * c - a * b
  OBVIOUS
<1> QED
  BY <1>1, <1>2

\* A mark that began in a period lasts into the next.
LEMMA MarkLasts ==
    ASSUME NEW at \in Nat, NEW m \in Nat, at >= m * Period
    PROVE  ((at \div Sub) + TTL) * Sub >= (m + 1) * Period
<1> DEFINE q == at \div Sub
<1>1. Sub \in Nat \ {0} /\ TTL \in Nat \ {0} /\ Period \in Nat
  BY PipelineAssumption, PeriodType
<1>2. q \in Nat /\ at <= q * Sub + Sub - 1
  BY <1>1
<1> HIDE DEF q
<1>3. (q + TTL) * Sub = q * Sub + TTL * Sub
  BY <1>1, <1>2
<1>4. Period = TTL * Sub - Sub + 1
  BY <1>1 DEF Period
<1>5. (m + 1) * Period = m * Period + Period
  BY <1>1
<1>6. /\ q * Sub \in Nat /\ TTL * Sub \in Nat /\ m * Period \in Nat
  BY <1>1, <1>2
<1>7. (q + TTL) * Sub >= (m + 1) * Period
  BY <1>1, <1>2, <1>3, <1>4, <1>5, <1>6
<1> QED
  BY <1>7 DEF q

\* The number of the periods gone by is what the bound counts.
LEMMA PeriodsGone ==
    ASSUME NEW m \in Nat, NEW n \in Nat, m * Period <= n
    PROVE  m <= n \div Period /\ n \div Period \in Nat
<1> DEFINE d == Period
           q == n \div d
<1>1. d \in Nat \ {0}
  BY PeriodType
<1> HIDE DEF d
<1>2. q \in Nat /\ n < (q + 1) * d
  BY <1>1
<1> HIDE DEF q
<1>3. m < q + 1
  <2> SUFFICES ASSUME q + 1 <= m PROVE FALSE
    BY <1>2
  <2>1. d * (q + 1) <= d * m
    BY <1>1, <1>2, ProductGrows
  <2>2. d * (q + 1) = (q + 1) * d /\ d * m = m * d /\ m * d \in Nat /\ (q + 1) * d \in Nat
    BY <1>1, <1>2
  <2> QED
    BY <1>2, <2>1, <2>2 DEF d
<1> QED
  BY <1>2, <1>3 DEF q, d

\* The numbers that the invariant compares.
LEMMA CountTypes ==
    ASSUME Bounded, IInv, NEW i \in Ids, AheadInv(i)
    PROVE  /\ \A s \in P!Sinks : delivered[i][s] \in Nat /\ Ahead(i, s) \in Nat
           /\ \A s \in P!Sinks : Ahead(i, s) <= Places(i)
           /\ Places(i) \in Nat
           /\ \A m \in Nat : Credit(m) \in Nat \ {0}
           /\ now \in Nat /\ expiry[i] * Sub \in Nat
<1>1. \A s \in P!Sinks : delivered[i][s] \in Nat
  BY ProcessTypes DEF IInv
<1>2. \A s \in P!Sinks : Ahead(i, s) \in Nat /\ Ahead(i, s) <= Places(i)
  BY AheadTypes DEF AheadInv
<1>3. Places(i) \in Nat
  BY FS_CardinalityType DEF Bounded, Places
<1>4. crashes \in Nat /\ failures \in Nat /\ now \in Nat /\ expiry[i] \in Nat /\ Sub \in Nat
  BY ProcessTypes, PipelineAssumption DEF IInv, StoreTypes
<1>5. expiry[i] * Sub \in Nat
  BY <1>4
<1> QED
  BY <1>1, <1>2, <1>3, <1>4, <1>5 DEF Credit
-----------------------------------------------------------------------------
\* Neither the clock nor a count runs backwards.
Onward ==
    /\ crashes' \in Nat /\ crashes <= crashes'
    /\ failures' \in Nat /\ failures <= failures'
    /\ now' \in Nat /\ now <= now'

LEMMA StepOnward ==
    ASSUME IInv, [Next]_vars
    PROVE  Onward
<1>1. crashes \in Nat /\ failures \in Nat /\ now \in Nat
  BY ProcessTypes DEF IInv, StoreTypes
<1>2. crashes' = crashes \/ crashes' = crashes + 1
  BY DEF Next, Step, vars, process, Compute, P!Fetch, P!FetchFails, P!Filtered, P!Enrich,
         P!PublishTo, P!FanoutReturns, P!Finish, BeginLookup, BeginMark, Lookup, LookupFails,
         Mark, MarkFails, Answered, Continue, NextCrawl, P!NextCrawl, Crash, P!Crash, Tick
<1>3. failures' = failures \/ failures' = failures + 1
  BY DEF Next, Step, vars, Compute, BeginLookup, BeginMark, Lookup, LookupFails, Mark,
         MarkFails, NextCrawl, Crash, Tick
<1>4. now' = now \/ now' = now + 1
  BY DEF Next, Step, vars, store, Compute, BeginLookup, BeginMark, Lookup, LookupFails, Mark,
         MarkFails, NextCrawl, Crash, Tick, Store!Begin, Store!Lookup, Store!Mark, Store!Fail,
         Store!Restart, Store!Tick
<1> QED
  BY <1>1, <1>2, <1>3, <1>4 DEF Onward

\* The bounds grow.
LEMMA CreditGrows ==
    ASSUME Bounded, IInv, NEW i \in Ids, AheadInv(i), Onward, NEW m \in Nat
    PROVE  /\ Credit(m) \in Nat \ {0} /\ Credit(m)' \in Nat \ {0}
           /\ Places(i) * Credit(m) <= Places(i) * Credit(m)'
           /\ Places(i) * (Credit(m) - 1) <= Places(i) * (Credit(m)' - 1)
           /\ Places(i) * Credit(m) \in Int /\ Places(i) * Credit(m)' \in Int
           /\ Places(i) * (Credit(m) - 1) \in Int /\ Places(i) * (Credit(m)' - 1) \in Int
           /\ Places(i) * (Credit(m) - 1) + Places(i) = Places(i) * Credit(m)
<1>1. Places(i) \in Nat /\ Credit(m) \in Nat \ {0}
  BY CountTypes
<1>2. Credit(m)' \in Nat \ {0} /\ Credit(m) <= Credit(m)'
  <2>1. crashes \in Nat /\ failures \in Nat
    BY ProcessTypes DEF IInv, StoreTypes
  <2>2. /\ crashes' \in Nat /\ crashes <= crashes'
        /\ failures' \in Nat /\ failures <= failures'
    BY DEF Onward
  <2>3. \A a, b, c, d \in Nat :
           a <= c /\ b <= d => /\ 1 + a + b + m \in Nat \ {0}
                               /\ 1 + c + d + m \in Nat \ {0}
                               /\ 1 + a + b + m <= 1 + c + d + m
    OBVIOUS
  <2>4. crashes' \in Nat /\ failures' \in Nat
    BY <2>2
  <2> QED
    BY <2>1, <2>2, <2>3, <2>4 DEF Credit
<1> HIDE DEF Credit
<1>3. /\ Places(i) * Credit(m) <= Places(i) * Credit(m)'
      /\ Places(i) * Credit(m) \in Int /\ Places(i) * Credit(m)' \in Int
  BY <1>1, <1>2, ProductGrows
<1>4. /\ Places(i) * (Credit(m) - 1) <= Places(i) * (Credit(m)' - 1)
      /\ Places(i) * (Credit(m) - 1) \in Int /\ Places(i) * (Credit(m)' - 1) \in Int
  BY <1>1, <1>2, ProductGrows
<1>5. Places(i) * (Credit(m) - 1) + Places(i) = Places(i) * Credit(m)
  BY <1>1
<1> QED
  BY <1>1, <1>2, <1>3, <1>4, <1>5

LEMMA LaterStill ==
    ASSUME Onward, IInv, NEW m \in Nat, m * Period <= now
    PROVE  m * Period <= now'
<1>1. m * Period \in Nat
  BY PeriodType
<1>2. now \in Nat
  BY DEF IInv, StoreTypes
<1> QED
  BY <1>1, <1>2 DEF Onward

LEMMA GuardedStays ==
    ASSUME Bounded, IInv, NEW i \in Ids, AheadInv(i), Onward, NEW m \in Nat,
           delivered'[i] = delivered[i], expiry'[i] = expiry[i],
           \A p \in Providers : ~Holds(p, i)',
           Guarded(i, m)
    PROVE  Guarded(i, m)'
<1>1. Alive(i, m)'
  BY DEF Guarded, Alive
<1>2. ASSUME NEW s \in P!Sinks PROVE delivered'[i][s] <= Places(i) * Credit(m)'
  <2>1. delivered[i][s] \in Nat /\ delivered[i][s] <= Places(i) * Credit(m)
    BY CountTypes DEF Guarded
  <2> QED
    BY <2>1, CreditGrows
<1> QED
  BY <1>1, <1>2 DEF Guarded, P!Sinks

LEMMA OwedStays ==
    ASSUME Bounded, IInv, NEW i \in Ids, AheadInv(i), Onward, NEW m \in Nat,
           delivered'[i] = delivered[i], MarksFrom(i, m)', Owed(i, m)
    PROVE  Owed(i, m)'
<1>1. ASSUME NEW s \in P!Sinks PROVE delivered'[i][s] <= Places(i) * (Credit(m)' - 1)
  <2>1. delivered[i][s] \in Nat /\ delivered[i][s] <= Places(i) * (Credit(m) - 1)
    BY CountTypes DEF Owed
  <2> QED
    BY <2>1, CreditGrows
<1> QED
  BY <1>1 DEF Owed, P!Sinks

LEMMA UsedStays ==
    ASSUME Bounded, IInv, NEW i \in Ids, AheadInv(i), Onward, NEW m \in Nat,
           \A s \in P!Sinks :
               /\ delivered'[i][s] + Ahead(i, s)' \in Nat
               /\ delivered'[i][s] + Ahead(i, s)' <= delivered[i][s] + Ahead(i, s),
           MarksFrom(i, m)', Alive(i, m)' \/ \E p \in Providers : Pending(p, i)',
           \A s \in P!Sinks : delivered[i][s] + Ahead(i, s) <= Places(i) * Credit(m)
    PROVE  Used(i, m)'
<1>1. ASSUME NEW s \in P!Sinks
      PROVE  delivered'[i][s] + Ahead(i, s)' <= Places(i) * Credit(m)'
  <2>1. delivered[i][s] + Ahead(i, s) \in Nat
    BY CountTypes
  <2> QED
    BY <2>1, CreditGrows
<1> QED
  BY <1>1 DEF Used, P!Sinks


LEMMA OpenMarkHolds ==
    ASSUME IInv, NEW p \in Providers, call[p] # Store!None, call[p].op = "MarkArticle"
    PROVE  Holds(p, call[p].id)
<1>1. pc[p] = "mark" /\ call[p].id = fresh[p][pos[p]]
  BY DEF IInv, InCall
<1>2. pos[p] \in Nat \ {0} /\ fresh[p] \in Seq(Ids) /\ pos[p] <= Len(fresh[p])
  BY <1>1, ProcessTypes DEF IInv
<1>3. pos[p] \in 1..Len(fresh[p])
  BY <1>2
<1> QED
  BY <1>1, <1>3 DEF Holds

\* What was delivered so far is within the bound of the period.
LEMMA DeliveredBound ==
    ASSUME Bounded, IInv, NEW i \in Ids, AheadInv(i), NEW m \in Nat,
           Guarded(i, m) \/ Owed(i, m) \/ Used(i, m), NEW s \in P!Sinks
    PROVE  delivered[i][s] <= Places(i) * Credit(m)
<1>1. /\ delivered[i][s] \in Nat /\ Ahead(i, s) \in Nat
      /\ Places(i) \in Nat /\ Credit(m) \in Nat \ {0}
  BY CountTypes
<1>2. CASE Guarded(i, m)
  BY <1>2 DEF Guarded
<1> HIDE DEF Credit
<1>3. CASE Owed(i, m)
  <2>1. Places(i) * (Credit(m) - 1) <= Places(i) * Credit(m)
    BY <1>1, ProductGrows
  <2>2. Places(i) * (Credit(m) - 1) \in Int /\ Places(i) * Credit(m) \in Int
    BY <1>1
  <2> QED
    BY <1>1, <1>3, <2>1, <2>2 DEF Owed
<1>4. CASE Used(i, m)
  <2>1. Places(i) * Credit(m) \in Int
    BY <1>1
  <2> QED
    BY <1>1, <1>4, <2>1 DEF Used
<1> QED
  BY <1>2, <1>3, <1>4

\* A crawl is owed for each crash, each failed call and each period that is new.
LEMMA OneMoreOwed ==
    ASSUME Bounded, IInv, NEW i \in Ids, AheadInv(i), Onward, NEW m \in Nat, NEW n \in Nat,
           crashes' + failures' + n = crashes + failures + m + 1,
           delivered'[i] = delivered[i], MarksFrom(i, n)',
           Guarded(i, m) \/ Owed(i, m) \/ Used(i, m)
    PROVE  Owed(i, n)'
<1>1. /\ crashes \in Nat /\ failures \in Nat
      /\ crashes' \in Nat /\ failures' \in Nat
  BY ProcessTypes DEF IInv, StoreTypes, Onward
<1>2. Credit(n)' - 1 = Credit(m)
  <2> DEFINE c == crashes'
             f == failures'
  <2>1. c \in Nat /\ f \in Nat /\ c + f + n = crashes + failures + m + 1
    BY <1>1
  <2> HIDE DEF c, f
  <2>2. (1 + c + f + n) - 1 = 1 + crashes + failures + m
    BY <1>1, <2>1
  <2> QED
    BY <2>2 DEF Credit, c, f
<1>3. Places(i)' = Places(i)
  BY DEF Places, Listings
<1>4. ASSUME NEW s \in P!Sinks PROVE delivered'[i][s] <= Places(i) * (Credit(n)' - 1)
  BY <1>2, DeliveredBound
<1> QED
  BY <1>3, <1>4 DEF Owed, P!Sinks
-----------------------------------------------------------------------------
\* A step that does not deliver article i, nor write its mark, nor give it up,
\* leaves it in the same period, unless the period was guarded.
LEMMA SamePeriod ==
    ASSUME Bounded, IInv, FromFetcher, [Next]_vars, ~NextCrawl, ~Crash,
           NEW i \in Ids, AheadInv(i), PeriodInv(i),
           delivered'[i] = delivered[i], expiry'[i] = expiry[i],
           \A p \in Providers : Pending(p, i) => Pending(p, i)',
           \A m \in Nat : m * Period <= now /\ MarksFrom(i, m) => MarksFrom(i, m)',
           \A m \in Nat : m * Period <= now /\ Guarded(i, m) => PeriodInv(i)'
    PROVE  PeriodInv(i)'
<1>1. PICK m \in Nat : m * Period <= now /\ (Guarded(i, m) \/ Owed(i, m) \/ Used(i, m))
  BY DEF PeriodInv
<1>2. Onward
  BY StepOnward
<1>3. m * Period <= now'
  BY <1>1, <1>2, LaterStill
<1>4. CASE Owed(i, m)
  <2>1. Owed(i, m)'
    BY <1>1, <1>2, <1>4, OwedStays DEF Owed
  <2> QED
    BY <1>3, <2>1 DEF PeriodInv
<1>5. CASE Used(i, m)
  <2>1. \A s \in P!Sinks :
           /\ delivered'[i][s] + Ahead(i, s)' \in Nat
           /\ delivered'[i][s] + Ahead(i, s)' <= delivered[i][s] + Ahead(i, s)
    BY StepAhead, CountTypes
  <2>2. Alive(i, m)' \/ \E p \in Providers : Pending(p, i)'
    BY <1>5 DEF Used, Alive
  <2>3. Used(i, m)'
    BY <1>1, <1>2, <1>5, <2>1, <2>2, UsedStays DEF Used
  <2> QED
    BY <1>3, <2>3 DEF PeriodInv
<1> QED
  BY <1>1, <1>4, <1>5

\* A guarded period stays so while no process keeps the article.
LEMMA QuietStep ==
    ASSUME Bounded, IInv, FromFetcher, [Next]_vars, ~NextCrawl, ~Crash,
           NEW i \in Ids, AheadInv(i), PeriodInv(i),
           delivered'[i] = delivered[i], expiry'[i] = expiry[i],
           \A p \in Providers : Holds(p, i)' => Holds(p, i),
           \A p \in Providers : Pending(p, i) => Pending(p, i)',
           \A m \in Nat : m * Period <= now /\ MarksFrom(i, m) => MarksFrom(i, m)'
    PROVE  PeriodInv(i)'
<1>1. Onward
  BY StepOnward
<1>2. ASSUME NEW m \in Nat, m * Period <= now, Guarded(i, m)
      PROVE  PeriodInv(i)'
  <2>1. \A p \in Providers : ~Holds(p, i)'
    BY <1>2 DEF Guarded
  <2>2. Guarded(i, m)'
    BY <1>1, <1>2, <2>1, GuardedStays
  <2>3. m * Period <= now'
    BY <1>1, <1>2, LaterStill
  <2> QED
    BY <2>2, <2>3 DEF PeriodInv
<1> QED
  BY <1>2, SamePeriod
-----------------------------------------------------------------------------
\* A sink takes article i: the crawl that was owed is used.
LEMMA DeliverPeriod ==
    ASSUME Bounded, IInv, FromFetcher, [Next]_vars, ~NextCrawl, ~Crash,
           NEW p \in Providers, NEW outcome \in Outcomes, outcome = "ok",
           Compute(p), P!PublishTo(p, outcome),
           NEW i \in Ids, P!Current(p) = i, AheadInv(i), PeriodInv(i)
    PROVE  PeriodInv(i)'
<1>1. /\ pc[p] = "publish" /\ pos[p] \in 1..Len(fresh[p]) /\ fresh[p][pos[p]] = i
      /\ sink[p] \in P!Sinks
  <2>1. pc[p] = "publish" /\ pos[p] <= Len(fresh[p]) /\ sink[p] <= NSinks
    BY DEF P!PublishTo
  <2>2. /\ pos[p] \in Nat \ {0} /\ fresh[p] \in Seq(Ids) /\ sink[p] \in 1..(NSinks + 1)
        /\ P!Current(p) = fresh[p][pos[p]]
    BY <2>1, ProcessTypes, CurrentIsId DEF IInv
  <2> QED
    BY <2>1, <2>2, PipelineAssumption DEF P!Sinks
<1>2. \A s \in P!Sinks :
         /\ delivered'[i][s] \in Nat
         /\ IF s = sink[p] THEN delivered'[i][s] <= delivered[i][s] + 1
                           ELSE delivered'[i][s] = delivered[i][s]
  <2>1. delivered' = [delivered EXCEPT ![i][sink[p]] = IF @ < MaxCount THEN @ + 1 ELSE @]
    BY DEF P!PublishTo
  <2>2. delivered \in [Ids -> [P!Sinks -> 0..MaxCount]] /\ MaxCount \in Nat
    BY ProcessTypes, PipelineAssumption DEF IInv
  <2> QED
    BY <1>1, <2>1, <2>2
<1>3. \A s \in P!Sinks :
         /\ delivered'[i][s] + Ahead(i, s)' \in Nat
         /\ delivered'[i][s] + Ahead(i, s)' <= delivered[i][s] + Ahead(i, s)
  <2> SUFFICES ASSUME NEW s \in P!Sinks
               PROVE  /\ delivered'[i][s] + Ahead(i, s)' \in Nat
                      /\ delivered'[i][s] + Ahead(i, s)' <= delivered[i][s] + Ahead(i, s)
    OBVIOUS
  <2> DEFINE a == Ahead(i, s)
             b == Ahead(i, s)'
  <2>1. a \in Nat /\ b \in Nat /\ b <= a /\ delivered[i][s] \in Nat
    BY StepAhead, CountTypes
  <2>2. s = sink[p] => b <= a - 1
    BY SentIsDone
  <2> HIDE DEF a, b
  <2>3. /\ delivered'[i][s] + b \in Nat
        /\ delivered'[i][s] + b <= delivered[i][s] + a
    BY <1>2, <2>1, <2>2
  <2> QED
    BY <2>3 DEF a, b
<1>4. Pending(p, i)'
  <2>1. /\ UNCHANGED <<pc, fresh, pos>> /\ successful'[p] = successful[p] + 1
        /\ successful[p] \in Nat
    BY ProcessTypes, PipelineAssumption DEF P!PublishTo, IInv
  <2> QED
    BY <1>1, <2>1 DEF Pending
<1>5. Onward
  BY StepOnward
<1>6. \A m \in Nat : MarksFrom(i, m) => MarksFrom(i, m)'
  BY DEF Compute, store, MarksFrom
<1>7. PICK m \in Nat : m * Period <= now /\ (Guarded(i, m) \/ Owed(i, m) \/ Used(i, m))
  BY DEF PeriodInv
<1>8. m * Period <= now'
  BY <1>5, <1>7, LaterStill
<1>9. ~Guarded(i, m)
  BY <1>1 DEF Guarded, Holds
<1>10. \A s \in P!Sinks : delivered[i][s] + Ahead(i, s) <= Places(i) * Credit(m)
  <2> SUFFICES ASSUME NEW s \in P!Sinks
               PROVE  delivered[i][s] + Ahead(i, s) <= Places(i) * Credit(m)
    OBVIOUS
  <2>1. CASE Used(i, m)
    BY <2>1 DEF Used
  <2>2. CASE Owed(i, m)
    <3>1. delivered[i][s] <= Places(i) * (Credit(m) - 1)
      BY <2>2 DEF Owed
    <3>2. Ahead(i, s) <= Places(i)
      BY CountTypes
    <3>3. delivered[i][s] \in Nat /\ Ahead(i, s) \in Nat /\ Places(i) \in Nat
      BY CountTypes
    <3>4. /\ Places(i) * (Credit(m) - 1) + Places(i) = Places(i) * Credit(m)
          /\ Places(i) * (Credit(m) - 1) \in Int /\ Places(i) * Credit(m) \in Int
      BY <1>5, CreditGrows
    <3> QED
      BY <3>1, <3>2, <3>3, <3>4
  <2> QED
    BY <1>7, <1>9, <2>1, <2>2
<1>11. MarksFrom(i, m)'
  BY <1>6, <1>7, <1>9 DEF Owed, Used
<1>12. Used(i, m)'
  BY <1>3, <1>4, <1>5, <1>10, <1>11, UsedStays
<1> QED
  BY <1>8, <1>12 DEF PeriodInv

\* Any other step of the processes leaves it where it is.
LEMMA ComputePeriod ==
    ASSUME Bounded, Outcomes \subseteq {"ok", "fail"},
           IInv, FromFetcher, [Next]_vars, ~NextCrawl, ~Crash,
           NEW p \in Providers, Compute(p),
           NEW i \in Ids, AheadInv(i), PeriodInv(i)
    PROVE  PeriodInv(i)'
<1>1. CASE \E outcome \in Outcomes :
              outcome = "ok" /\ P!PublishTo(p, outcome) /\ P!Current(p) = i
  BY <1>1, DeliverPeriod
<1>2. CASE ~\E outcome \in Outcomes :
              outcome = "ok" /\ P!PublishTo(p, outcome) /\ P!Current(p) = i
  <2> USE DEF P!GoTo
  <2>1. delivered'[i] = delivered[i]
    <3>1. CASE \E outcome \in Outcomes : P!PublishTo(p, outcome)
      <4>1. PICK outcome \in Outcomes : P!PublishTo(p, outcome)
        BY <3>1
      <4>2. CASE outcome = "ok"
        <5>1. P!Current(p) # i
          BY <1>2, <4>1, <4>2
        <5>2. delivered' = [delivered EXCEPT ![P!Current(p)][sink[p]] =
                                              IF @ < MaxCount THEN @ + 1 ELSE @]
          BY <4>1, <4>2 DEF P!PublishTo
        <5>3. delivered \in [Ids -> [P!Sinks -> 0..MaxCount]]
          BY ProcessTypes DEF IInv
        <5> QED
          BY <5>1, <5>2, <5>3
      <4>3. CASE outcome = "fail"
        BY <4>1, <4>3 DEF P!PublishTo
      <4> QED
        BY <4>2, <4>3
    <3>2. CASE ~\E outcome \in Outcomes : P!PublishTo(p, outcome)
      BY <3>2 DEF Compute, P!Fetch, P!FetchFails, P!Filtered, P!Enrich, P!FanoutReturns,
                  P!Finish
    <3> QED
      BY <3>1, <3>2
  <2>2. fresh' = fresh /\ UNCHANGED store
    BY DEF Compute, P!Fetch, P!FetchFails, P!Filtered, P!Enrich, P!PublishTo,
           P!FanoutReturns, P!Finish
  <2>3. expiry'[i] = expiry[i] /\ \A m \in Nat : MarksFrom(i, m) => MarksFrom(i, m)'
    BY <2>2 DEF store, MarksFrom
  <2>4. \A q \in Providers : Holds(q, i)' => Holds(q, i)
    BY <2>2 DEF Holds
  <2>5. Pending(p, i) => Pending(p, i)'
    <3>1. /\ pc \in [Providers -> {"ready", "filter", "enrich", "publish", "mark", "ok", "err"}]
          /\ pos \in [Providers -> Nat \ {0}] /\ fresh[p] \in Seq(Ids)
          /\ successful \in [Providers -> 0..NSinks] /\ NSinks \in Nat
      BY ProcessTypes, PipelineAssumption DEF IInv
    <3>2. ASSUME NEW outcome \in Outcomes, P!PublishTo(p, outcome)
          PROVE  Pending(p, i) => Pending(p, i)'
      <4>1. UNCHANGED <<pc, fresh, pos>> /\ pc[p] = "publish"
        BY <3>2 DEF P!PublishTo
      <4>2. successful'[p] >= successful[p] /\ successful[p] \in Nat /\ successful'[p] \in Nat
        BY <3>1, <3>2 DEF P!PublishTo
      <4> QED
        BY <4>1, <4>2 DEF Pending
    <3>3. ASSUME P!FanoutReturns(p) PROVE Pending(p, i) => Pending(p, i)'
      BY <3>1, <3>3 DEF P!FanoutReturns, Pending
    <3>4. ASSUME P!Finish(p) PROVE ~Pending(p, i)
      BY <3>1, <3>4 DEF P!Finish, Pending
    <3>5. ASSUME P!Fetch(p) \/ P!FetchFails(p) \/ P!Filtered(p) \/ P!Enrich(p)
          PROVE  ~Pending(p, i)
      BY <3>5 DEF P!Fetch, P!FetchFails, P!Filtered, P!Enrich, Pending
    <3> QED
      BY <3>2, <3>3, <3>4, <3>5 DEF Compute
  <2>6. \A q \in Providers \ {p} : Pending(q, i) => Pending(q, i)'
    <3>1. \A q \in Providers \ {p} : UNCHANGED <<pc[q], fresh[q], pos[q], successful[q]>>
      BY ProcessTypes DEF IInv, Compute, P!Fetch, P!FetchFails, P!Filtered, P!Enrich,
         P!PublishTo, P!FanoutReturns, P!Finish
    <3> QED
      BY <3>1 DEF Pending
  <2>7. \A q \in Providers : Pending(q, i) => Pending(q, i)'
    BY <2>5, <2>6
  <2> QED
    BY <2>1, <2>3, <2>4, <2>7, QuietStep
<1> QED
  BY <1>1, <1>2

\* A mark that begins now begins in the period.
LEMMA BeginPeriod ==
    ASSUME Bounded, IInv, FromFetcher, [Next]_vars, ~NextCrawl, ~Crash,
           NEW p \in Providers, BeginLookup(p) \/ BeginMark(p),
           NEW i \in Ids, AheadInv(i), PeriodInv(i)
    PROVE  PeriodInv(i)'
<1>1. PICK op \in Store!Ops : Store!Begin(p, op, P!Current(p))
  BY DEF BeginLookup, BeginMark, Store!Ops
<1>2. /\ UNCHANGED <<now, expiry, delivered, pc, fresh, pos, successful>>
      /\ call' = [call EXCEPT ![p] = [op |-> op, id |-> P!Current(p), at |-> now]]
  BY <1>1 DEF BeginLookup, BeginMark, Store!Begin, process
<1>3. call \in [Providers -> Store!Calls \cup {Store!None}]
  BY DEF IInv, StoreTypes
<1>4. \A q \in Providers :
         call'[q] = IF q = p THEN [op |-> op, id |-> P!Current(p), at |-> now] ELSE call[q]
  BY <1>2, <1>3
<1>5. \A m \in Nat : m * Period <= now /\ MarksFrom(i, m) => MarksFrom(i, m)'
  BY <1>4 DEF MarksFrom
<1>6. \A q \in Providers : /\ Holds(q, i)' => Holds(q, i)
                           /\ Pending(q, i) => Pending(q, i)'
  BY <1>2 DEF Holds, Pending
<1>7. delivered'[i] = delivered[i] /\ expiry'[i] = expiry[i]
  BY <1>2
<1> QED
  BY <1>5, <1>6, <1>7, QuietStep

\* A call that returns leaves the other calls as they are.
LEMMA ReturnMarksFrom ==
    ASSUME IInv, NEW p \in Providers, call' = [call EXCEPT ![p] = Store!None],
           NEW i, NEW m
    PROVE  /\ MarksFrom(i, m) => MarksFrom(i, m)'
           /\ (\A q \in Providers : ~Holds(q, i)) => MarksFrom(i, m)'
<1>1. call \in [Providers -> Store!Calls \cup {Store!None}]
  BY DEF IInv, StoreTypes
<1>2. \A q \in Providers : call'[q] = Store!None \/ call'[q] = call[q]
  BY <1>1
<1>3. MarksFrom(i, m) => MarksFrom(i, m)'
  BY <1>2 DEF MarksFrom
<1>4. (\A q \in Providers : ~Holds(q, i)) => MarksFrom(i, m)
  BY OpenMarkHolds DEF MarksFrom
<1> QED
  BY <1>3, <1>4

\* A lookup keeps article i once its mark has run out, and a period with it; or
\* it has failed.
LEMMA KeepPeriod ==
    ASSUME Bounded, IInv, FromFetcher, [Next]_vars, ~NextCrawl, ~Crash,
           NEW p \in Providers, Lookup(p) \/ LookupFails(p),
           NEW i \in Ids, AheadInv(i), PeriodInv(i)
    PROVE  PeriodInv(i)'
<1>1. /\ pc[p] = "filter" /\ pos[p] <= Len(feed[p]) /\ P!Current(p) \in Ids
  <2>1. pc[p] = "filter" /\ pos[p] <= Len(feed[p])
    BY LookupIsFilter, LookupFailsIsFilter DEF P!Filter
  <2> QED
    BY <2>1, CurrentIsId DEF IInv
<1>2. /\ UNCHANGED <<now, expiry, pc, delivered, successful, crashes>>
      /\ call' = [call EXCEPT ![p] = Store!None]
      /\ pos' = [pos EXCEPT ![p] = @ + 1]
      /\ \A q \in Providers \ {p} : fresh'[q] = fresh[q] /\ pos'[q] = pos[q]
  <2>1. fresh \in [Providers -> Seq(Ids)] /\ pos \in [Providers -> Nat \ {0}]
    BY ProcessTypes DEF IInv
  <2> QED
    BY <2>1 DEF Lookup, LookupFails, Answered, Store!Lookup, Store!Fail, Store!Return
<1>3. \A q \in Providers : Pending(q, i) => Pending(q, i)'
  BY <1>1, <1>2 DEF Pending
<1>4. \A m \in Nat : MarksFrom(i, m) => MarksFrom(i, m)'
  BY <1>2, ReturnMarksFrom
<1>5. delivered'[i] = delivered[i] /\ expiry'[i] = expiry[i]
  BY <1>2
<1>6. Onward /\ crashes \in Nat /\ failures \in Nat
  BY StepOnward, ProcessTypes DEF IInv, StoreTypes
<1>7. ASSUME NEW m \in Nat, m * Period <= now, Guarded(i, m)
      PROVE  PeriodInv(i)'
  <2>1. \A n \in Nat : MarksFrom(i, n)'
    BY <1>2, <1>7, ReturnMarksFrom DEF Guarded
  <2>2. m * Period <= now'
    BY <1>6, <1>7, LaterStill
  <2>3. CASE LookupFails(p)
    <3>1. failures' = failures + 1 /\ crashes' = crashes
      BY <1>2, <2>3 DEF LookupFails
    <3>2. crashes' + failures' + m = crashes + failures + m + 1
      BY <1>6, <3>1
    <3>3. Owed(i, m)'
      BY <1>5, <1>6, <1>7, <2>1, <3>2, OneMoreOwed
    <3> QED
      BY <2>2, <3>3 DEF PeriodInv
  <2>4. CASE Lookup(p) /\ P!Current(p) = i /\ ret'[p] # "seen"
    <3>1. (m + 1) * Period <= now
      <4>1. call[p].id = i /\ ret'[p] = IF expiry[call[p].id] * Sub > now THEN "seen" ELSE "fresh"
        BY <1>1, <2>4, CurrentIsId DEF Lookup, Store!Lookup, Store!Return, IInv, InCall,
                                       StoreTypes
      <4>2. ~(expiry[i] * Sub > now)
        BY <2>4, <4>1
      <4>3. expiry[i] * Sub \in Nat /\ now \in Nat /\ (m + 1) * Period \in Nat
        BY CountTypes, PeriodType
      <4> QED
        BY <1>7, <4>2, <4>3 DEF Guarded, Alive
    <3>2. crashes' = crashes /\ failures' = failures /\ m + 1 \in Nat
      BY <1>2, <2>4 DEF Lookup
    <3>3. crashes' + failures' + (m + 1) = crashes + failures + m + 1
      BY <1>6, <3>2
    <3>4. Owed(i, m + 1)'
      BY <1>5, <1>6, <1>7, <2>1, <3>2, <3>3, OneMoreOwed
    <3>5. (m + 1) * Period <= now'
      BY <1>2, <3>1
    <3> QED
      BY <3>2, <3>4, <3>5 DEF PeriodInv
  <2>5. CASE Lookup(p) /\ (P!Current(p) # i \/ ret'[p] = "seen")
    <3>1. ~Holds(p, i)'
      <4>1. fresh[p] \in Seq(Ids) /\ fresh \in [Providers -> Seq(Ids)]
        BY ProcessTypes DEF IInv
      <4>2. \/ fresh'[p] = fresh[p]
            \/ fresh'[p] = Append(fresh[p], P!Current(p)) /\ P!Current(p) # i
        BY <2>5, <4>1 DEF Lookup, Answered
      <4>3. ~Holds(p, i)
        BY <1>7 DEF Guarded
      <4>4. CASE fresh'[p] = fresh[p]
        BY <4>3, <4>4 DEF Holds
      <4>5. CASE fresh'[p] = Append(fresh[p], P!Current(p)) /\ P!Current(p) # i
        <5> DEFINE f == fresh[p]
                   c == P!Current(p)
        <5>1. f \in Seq(Ids) /\ c \in Ids
          BY <1>1, <4>1
        <5> HIDE DEF f, c
        <5>2. /\ Append(f, c)[Len(f) + 1] = c
              /\ \A k \in 1..Len(f) : Append(f, c)[k] = f[k]
              /\ Len(f) \in Nat /\ Len(Append(f, c)) = Len(f) + 1
          BY <5>1
        <5>3. \A k \in 1..Len(Append(f, c)) : k \in 1..Len(f) \/ k = Len(f) + 1
          BY <5>2
        <5> QED
          BY <4>3, <4>5, <5>2, <5>3 DEF Holds, f, c
      <4> QED
        BY <4>2, <4>4, <4>5
    <3>2. \A q \in Providers : ~Holds(q, i)'
      BY <1>2, <1>7, <3>1 DEF Guarded, Holds
    <3>3. Guarded(i, m)'
      BY <1>5, <1>6, <1>7, <3>2, GuardedStays
    <3> QED
      BY <2>2, <3>3 DEF PeriodInv
  <2> QED
    BY <2>3, <2>4, <2>5
<1> QED
  BY <1>3, <1>4, <1>5, <1>7, SamePeriod

\* A mark of another article changes nothing for article i; that of article i
\* lasts into the next period, or the call has failed.
LEMMA MarkPeriod ==
    ASSUME Bounded, IInv, FromFetcher, [Next]_vars, ~NextCrawl, ~Crash,
           NEW p \in Providers, Mark(p) \/ MarkFails(p),
           NEW i \in Ids, AheadInv(i), PeriodInv(i)
    PROVE  PeriodInv(i)'
<1>1. pc[p] = "mark" /\ call[p] # Store!None
  BY DEF Mark, MarkFails, Store!Mark, Store!Fail, Store!None, P!Mark, IInv, InCall
<1>2. call[p] \in Store!Calls /\ call[p].op = "MarkArticle"
  <2>1. call[p] \in Store!Calls
    BY <1>1 DEF IInv, StoreTypes
  <2>2. call[p].op \in {"SeenArticle", "MarkArticle"}
    BY <2>1 DEF Store!Calls, Store!Ops
  <2>3. call[p].op # "SeenArticle"
    BY <1>1 DEF IInv, InCall
  <2> QED
    BY <2>1, <2>2, <2>3
<1>3. call[p].id = fresh[p][pos[p]] /\ call[p].at \in Nat /\ call[p].id \in Ids
  BY <1>1, <1>2 DEF IInv, InCall, Store!Calls
<1>4. /\ UNCHANGED <<now, fresh, successful, delivered, crashes>>
      /\ call' = [call EXCEPT ![p] = Store!None]
      /\ \A q \in Providers \ {p} : pc'[q] = pc[q] /\ pos'[q] = pos[q]
  <2>1. pc \in [Providers -> {"ready", "filter", "enrich", "publish", "mark", "ok", "err"}]
        /\ pos \in [Providers -> Nat \ {0}]
    BY ProcessTypes DEF IInv
  <2> QED
    BY <2>1 DEF Mark, MarkFails, Continue, Store!Mark, Store!Fail, Store!Return
<1>5. delivered'[i] = delivered[i] /\ \A q \in Providers : Holds(q, i)' => Holds(q, i)
  BY <1>4 DEF Holds
<1>6. \A m \in Nat : MarksFrom(i, m) => MarksFrom(i, m)'
  BY <1>4, ReturnMarksFrom
<1>7. \A q \in Providers \ {p} : Pending(q, i) => Pending(q, i)'
  BY <1>4 DEF Pending
<1>8. CASE call[p].id # i
  <2>1. ~Pending(p, i)
    BY <1>1, <1>3, <1>8 DEF Pending
  <2>2. expiry'[i] = expiry[i]
    BY <1>3, <1>8 DEF Mark, MarkFails, Store!Mark, Store!Fail, IInv, StoreTypes
  <2>3. \A q \in Providers : Pending(q, i) => Pending(q, i)'
    BY <1>7, <2>1
  <2> QED
    BY <1>5, <1>6, <2>2, <2>3, QuietStep
<1>9. CASE call[p].id = i
  <2>1. Onward /\ crashes \in Nat /\ failures \in Nat
    BY StepOnward, ProcessTypes DEF IInv, StoreTypes
  <2>2. PICK m \in Nat : m * Period <= now /\ (Guarded(i, m) \/ Owed(i, m) \/ Used(i, m))
    BY DEF PeriodInv
  <2>3. m * Period <= now'
    BY <2>1, <2>2, LaterStill
  <2>4. ~Guarded(i, m)
    BY <1>1, <1>2, <1>9, OpenMarkHolds DEF Guarded
  <2>5. MarksFrom(i, m) /\ MarksFrom(i, m)'
    BY <1>6, <2>2, <2>4 DEF Owed, Used
  <2>6. CASE Owed(i, m)
    <3>1. Owed(i, m)'
      BY <1>5, <2>1, <2>5, <2>6, OwedStays
    <3> QED
      BY <2>3, <3>1 DEF PeriodInv
  <2>7. CASE Used(i, m) /\ Mark(p)
    <3>1. expiry'[i] = (call[p].at \div Sub) + TTL
      BY <1>9, <2>7 DEF Mark, Store!Mark, IInv, StoreTypes
    <3>2. call[p].at >= m * Period
      BY <1>1, <1>2, <1>9, <2>5 DEF MarksFrom
    <3>3. Alive(i, m)'
      BY <1>3, <3>1, <3>2, MarkLasts DEF Alive
    <3>4. \A s \in P!Sinks :
             /\ delivered'[i][s] + Ahead(i, s)' \in Nat
             /\ delivered'[i][s] + Ahead(i, s)' <= delivered[i][s] + Ahead(i, s)
      BY <1>5, StepAhead, CountTypes
    <3>5. Used(i, m)'
      BY <2>1, <2>5, <2>7, <3>3, <3>4, UsedStays DEF Used
    <3> QED
      BY <2>3, <3>5 DEF PeriodInv
  <2>8. CASE Used(i, m) /\ MarkFails(p)
    <3>1. crashes' + failures' + m = crashes + failures + m + 1
      BY <1>4, <2>1, <2>8 DEF MarkFails
    <3>2. Owed(i, m)'
      BY <1>5, <2>1, <2>5, <2>8, <3>1, OneMoreOwed
    <3> QED
      BY <2>3, <3>2 DEF PeriodInv
  <2> QED
    BY <2>2, <2>4, <2>6, <2>7, <2>8
<1> QED
  BY <1>8, <1>9

\* A crash loses the calls, and may lose the mark of what was delivered.
LEMMA CrashPeriod ==
    ASSUME Bounded, IInv, [Next]_vars, Crash,
           NEW i \in Ids, AheadInv(i), PeriodInv(i)
    PROVE  PeriodInv(i)'
<1>1. /\ delivered' = delivered /\ crashes' = crashes + 1 /\ failures' = failures
      /\ call' = [q \in Providers |-> Store!None]
  BY DEF Crash, P!Crash, Store!Restart
<1>2. Onward /\ crashes \in Nat /\ failures \in Nat
  BY StepOnward, ProcessTypes DEF IInv, StoreTypes
<1>3. PICK m \in Nat : m * Period <= now /\ (Guarded(i, m) \/ Owed(i, m) \/ Used(i, m))
  BY DEF PeriodInv
<1>4. crashes' + failures' + m = crashes + failures + m + 1
  BY <1>1, <1>2
<1>5. MarksFrom(i, m)'
  BY <1>1 DEF MarksFrom
<1>6. Owed(i, m)'
  BY <1>1, <1>2, <1>3, <1>4, <1>5, OneMoreOwed
<1>7. m * Period <= now'
  BY <1>2, <1>3, LaterStill
<1> QED
  BY <1>6, <1>7 DEF PeriodInv

\* A crawl that has used its period ends with a mark.
LEMMA CrawlPeriod ==
    ASSUME Bounded, IInv, [Next]_vars, NextCrawl,
           NEW i \in Ids, AheadInv(i), PeriodInv(i)
    PROVE  PeriodInv(i)'
<1>1. /\ UNCHANGED <<delivered, call, expiry>>
      /\ \A p \in Providers : pc[p] \in {"ok", "err"} /\ fresh'[p] = <<>>
  BY DEF NextCrawl, P!NextCrawl, P!Reset, P!Returned, store
<1>2. Onward
  BY StepOnward
<1>3. PICK m \in Nat : m * Period <= now /\ (Guarded(i, m) \/ Owed(i, m) \/ Used(i, m))
  BY DEF PeriodInv
<1>4. m * Period <= now'
  BY <1>2, <1>3, LaterStill
<1>5. CASE Owed(i, m)
  <2>1. MarksFrom(i, m)'
    BY <1>1, <1>5 DEF Owed, MarksFrom
  <2>2. Owed(i, m)'
    BY <1>1, <1>2, <1>5, <2>1, OwedStays
  <2> QED
    BY <1>4, <2>2 DEF PeriodInv
<1>6. CASE Guarded(i, m) \/ Used(i, m)
  <2>1. \A p \in Providers : ~Pending(p, i)
    BY <1>1 DEF Pending
  <2>2. Alive(i, m)'
    BY <1>1, <1>6, <2>1 DEF Guarded, Used, Alive
  <2>3. \A p \in Providers : ~Holds(p, i)'
    BY <1>1 DEF Holds
  <2>4. ASSUME NEW s \in P!Sinks PROVE delivered'[i][s] <= Places(i) * Credit(m)'
    <3>1. delivered[i][s] <= Places(i) * Credit(m) /\ delivered[i][s] \in Nat
      BY <1>6, DeliveredBound, CountTypes
    <3>2. /\ Places(i) * Credit(m) <= Places(i) * Credit(m)'
          /\ Places(i) * Credit(m) \in Int /\ Places(i) * Credit(m)' \in Int
      BY <1>2, CreditGrows
    <3>3. delivered'[i][s] = delivered[i][s]
      BY <1>1
    <3> QED
      BY <3>1, <3>2, <3>3
  <2>5. Guarded(i, m)'
    BY <2>2, <2>3, <2>4 DEF Guarded, P!Sinks
  <2> QED
    BY <1>4, <2>5 DEF PeriodInv
<1> QED
  BY <1>3, <1>5, <1>6

LEMMA StepPeriod ==
    ASSUME Bounded, Outcomes \subseteq {"ok", "fail"}, IInv, FromFetcher, [Next]_vars,
           NEW i \in Ids, AheadInv(i), PeriodInv(i)
    PROVE  PeriodInv(i)'
<1>1. CASE Crash
  BY <1>1, CrashPeriod
<1>2. CASE NextCrawl
  BY <1>2, CrawlPeriod
<1>3. CASE ~NextCrawl /\ ~Crash
  <2>1. ASSUME NEW p \in Providers, Compute(p) PROVE PeriodInv(i)'
    BY <1>3, <2>1, ComputePeriod
  <2>2. ASSUME NEW p \in Providers, BeginLookup(p) \/ BeginMark(p) PROVE PeriodInv(i)'
    BY <1>3, <2>2, BeginPeriod
  <2>3. ASSUME NEW p \in Providers, Lookup(p) \/ LookupFails(p) PROVE PeriodInv(i)'
    BY <1>3, <2>3, KeepPeriod
  <2>4. ASSUME NEW p \in Providers, Mark(p) \/ MarkFails(p) PROVE PeriodInv(i)'
    BY <1>3, <2>4, MarkPeriod
  <2>5. CASE Tick \/ UNCHANGED vars
    <3>1. UNCHANGED <<pc, fresh, pos, successful, delivered, expiry, call>>
      BY <2>5 DEF Tick, Store!Tick, vars, process, store
    <3>2. \A q \in Providers : /\ Holds(q, i)' => Holds(q, i)
                               /\ Pending(q, i) => Pending(q, i)'
      BY <3>1 DEF Holds, Pending
    <3>3. \A m \in Nat : MarksFrom(i, m) => MarksFrom(i, m)'
      BY <3>1 DEF MarksFrom
    <3>4. delivered'[i] = delivered[i] /\ expiry'[i] = expiry[i]
      BY <3>1
    <3> QED
      BY <1>3, <3>2, <3>3, <3>4, QuietStep
  <2> QED
    BY <1>3, <2>1, <2>2, <2>3, <2>4, <2>5 DEF Next, Step
<1> QED
  BY <1>1, <1>2, <1>3

LEMMA InitPeriod ==
    ASSUME Bounded, Init
    PROVE  FromFetcher /\ \A i \in Ids : AheadInv(i) /\ PeriodInv(i)
<1>1. /\ pc = [p \in Providers |-> "ready"] /\ fresh = [p \in Providers |-> <<>>]
      /\ delivered = [i \in Ids |-> [s \in P!Sinks |-> 0]]
      /\ crashes = 0 /\ failures = 0 /\ now = 0
      /\ call = [p \in Providers |-> Store!None]
  BY DEF Init, P!Init, Store!Init
<1>2. FromFetcher
  BY <1>1 DEF FromFetcher
<1>3. ASSUME NEW i \in Ids PROVE AheadInv(i)
  <2> SUFFICES ASSUME NEW s \in P!Sinks
               PROVE  IsFiniteSet(Kept(i, s)) /\ Ahead(i, s) <= Places(i)
    BY DEF AheadInv
  <2>1. Unread(i) \subseteq Listings(i) /\ IsFiniteSet(Listings(i))
    BY DEF Unread, Bounded
  <2>2. Kept(i, s) = {}
    BY <1>1 DEF Kept, ToSend
  <2>3. IsFiniteSet({}) /\ Cardinality({}) = 0
    BY FS_EmptySet
  <2>4. /\ Cardinality(Unread(i)) \in Nat /\ Places(i) \in Nat
        /\ Cardinality(Unread(i)) <= Places(i)
    BY <2>1, FS_Subset, FS_CardinalityType DEF Places
  <2> QED
    BY <2>2, <2>3, <2>4 DEF Ahead
<1>4. ASSUME NEW i \in Ids PROVE PeriodInv(i)
  <2>1. MarksFrom(i, 0)
    BY <1>1 DEF MarksFrom
  <2>2. Credit(0) - 1 = 0
    BY <1>1 DEF Credit
  <2>3. Places(i) \in Nat /\ Places(i) * 0 = 0
    BY FS_CardinalityType DEF Bounded, Places
  <2>4. \A s \in P!Sinks : delivered[i][s] <= Places(i) * (Credit(0) - 1)
    BY <1>1, <2>2, <2>3
  <2>5. Owed(i, 0)
    BY <2>1, <2>4 DEF Owed
  <2>6. 0 \in Nat /\ 0 * Period <= now
    BY <1>1, PeriodType
  <2> QED
    BY <2>5, <2>6 DEF PeriodInv
<1> QED
  BY <1>2, <1>3, <1>4

LEMMA PeriodBound ==
    ASSUME Bounded, PeriodIInv
    PROVE  OncePerTTL
<1> SUFFICES ASSUME NEW i \in Ids, NEW s \in P!Sinks
             PROVE  delivered[i][s] <= Places(i) * (1 + crashes + failures + now \div Period)
  BY DEF OncePerTTL, Places, Period
<1>1. IInv /\ AheadInv(i)
  BY DEF PeriodIInv
<1>2. PICK m \in Nat : m * Period <= now /\ (Guarded(i, m) \/ Owed(i, m) \/ Used(i, m))
  BY DEF PeriodIInv, PeriodInv
<1>3. delivered[i][s] <= Places(i) * Credit(m)
  BY <1>1, <1>2, DeliveredBound
<1>4. /\ delivered[i][s] \in Nat /\ Places(i) \in Nat /\ now \in Nat
      /\ crashes \in Nat /\ failures \in Nat
  BY <1>1, CountTypes, ProcessTypes DEF IInv, StoreTypes
<1> DEFINE n == now \div Period
<1>5. m <= n /\ n \in Nat
  BY <1>2, <1>4, PeriodsGone
<1> HIDE DEF n
<1>6. Credit(m) \in Int /\ Credit(n) \in Int /\ Credit(m) <= Credit(n)
  BY <1>4, <1>5 DEF Credit
<1> HIDE DEF Credit
<1>7. /\ Places(i) * Credit(m) <= Places(i) * Credit(n)
      /\ Places(i) * Credit(m) \in Int /\ Places(i) * Credit(n) \in Int
  BY <1>4, <1>6, ProductGrows
<1>8. delivered[i][s] <= Places(i) * Credit(n)
  BY <1>3, <1>4, <1>7
<1> QED
  BY <1>8 DEF Credit, n

\* Where sinks accept what they report accepted and an article is listed at
\* finitely many places, Process (internal/crawler/crawler.go) on the bbolt
\* store gives a sink an article once for each place that lists it in each
\* period of its mark, whatever its providers, crawls and calls interleave,
\* and as often again for each crash and each call of the store that fails.
THEOREM OncePerPeriod ==
    ASSUME Bounded, Outcomes \subseteq {"ok", "fail"}
    PROVE  Spec => []OncePerTTL
<1>1. Init => PeriodIInv
  BY InitIInv, InitPeriod DEF PeriodIInv
<1>2. PeriodIInv /\ [Next]_vars => PeriodIInv'
  <2> SUFFICES ASSUME PeriodIInv, [Next]_vars PROVE PeriodIInv'
    OBVIOUS
  <2>1. IInv /\ FromFetcher /\ \A i \in Ids : AheadInv(i) /\ PeriodInv(i)
    BY DEF PeriodIInv
  <2>2. IInv'
    BY <2>1, StepIInv
  <2>3. FromFetcher'
    BY <2>1, StepFromFetcher
  <2>4. ASSUME NEW i \in Ids PROVE AheadInv(i)' /\ PeriodInv(i)'
    BY <2>1, StepAheadInv, StepPeriod
  <2> QED
    BY <2>2, <2>3, <2>4 DEF PeriodIInv
<1>3. PeriodIInv => OncePerTTL
  BY PeriodBound
<1> QED
  BY <1>1, <1>2, <1>3, PTL DEF Spec
=============================================================================
