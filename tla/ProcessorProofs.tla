-------------------------- MODULE ProcessorProofs ---------------------------
(***************************************************************************)
(* What holds of Processor for every set of providers, articles and sinks, *)
(* with every failure the model knows.                                     *)
(***************************************************************************)
EXTENDS Processor, TLAPS

(***************************************************************************)
(* The inductive invariant: what the call of one provider knows.           *)
(***************************************************************************)

\* Until it publishes, a call has no outcome of a sink to remember.
Unpublished(p) == sink[p] = 1 /\ successful[p] = 0 /\ erred[p] = FALSE

\* The k-th article of the feed is fresh, or has reached some sink.
Covered(p, k) == feed[p][k] \in Elements(fresh[p]) \/ Reached(feed[p][k])

\* The filter keeps what is not known to have left.
Filtering(p) ==
    /\ pc[p] = "ready" => Unpublished(p) /\ pos[p] = 1 /\ fresh[p] = <<>>
    /\ pc[p] = "filter" =>
          /\ Unpublished(p)
          /\ \A k \in 1..Len(feed[p]) : k < pos[p] => Covered(p, k)
    /\ pc[p] = "enrich" => Unpublished(p)
    /\ pc[p] \in {"enrich", "publish", "mark"} =>
          \A k \in 1..Len(feed[p]) : Covered(p, k)

\* Fanout.Publish has called no sink yet.
Unsent(p) == sink[p] = 1 /\ successful[p] = 0

\* The article at pos has reached a sink once one has accepted it.
Publishing(p) ==
    /\ pc[p] = "publish" => successful[p] < sink[p]
    /\ pc[p] = "publish" /\ (sink[p] > 1 \/ successful[p] > 0)
          => pos[p] <= Len(fresh[p])
    /\ pc[p] = "publish" /\ successful[p] > 0 => Reached(fresh[p][pos[p]])
    /\ pc[p] = "mark" =>
          /\ pos[p] <= Len(fresh[p]) /\ Reached(fresh[p][pos[p]])
          /\ Unsent(p)

\* Without an error so far, every sink that has been called has accepted.
Complete(p) ==
    erred[p] = FALSE =>
        /\ pc[p] \in {"publish", "mark"} =>
              \A k \in 1..Len(fresh[p]), s \in Sinks :
                  k < pos[p] => delivered[fresh[p][k]][s] > 0
        /\ pc[p] = "publish" /\ pos[p] <= Len(fresh[p]) =>
              \A s \in Sinks : s < sink[p] => delivered[fresh[p][pos[p]]][s] > 0
        /\ pc[p] = "mark" =>
              \A s \in Sinks : delivered[fresh[p][pos[p]]][s] > 0

\* NilMeansDelivered of one provider.
Accounted(p) ==
    pc[p] = "ok" =>
        /\ \A i \in Elements(feed[p]) : Reached(i)
        /\ \A i \in Elements(fresh[p]), s \in Sinks : delivered[i][s] > 0

Knows(p) == Filtering(p) /\ Publishing(p) /\ Complete(p) /\ Accounted(p)

IInv ==
    /\ TypeOK
    /\ MarkedWasDelivered
    /\ \A p \in Providers : Knows(p)
-----------------------------------------------------------------------------
\* No delivery is taken back.
DeliveriesKept ==
    \A i \in Ids, s \in Sinks : delivered[i][s] > 0 => delivered'[i][s] > 0

\* A call of a sink adds deliveries only, that of its article among them.
LEMMA DeliveriesGrow ==
    ASSUME TypeOK, NEW p \in Providers, NEW outcome \in Outcomes,
           PublishTo(p, outcome)
    PROVE  /\ DeliveriesKept
           /\ fresh[p][pos[p]] \in Ids
           /\ sink[p] \in Sinks
           /\ outcome # "fail" => delivered'[fresh[p][pos[p]]][sink[p]] > 0
           /\ delivered' \in [Ids -> [Sinks -> 0..MaxCount]]
<1> USE ConstantsAssumption
<1>1. Current(p) = fresh[p][pos[p]] /\ Current(p) \in Ids /\ sink[p] \in Sinks
  <2>1. pos[p] \in 1..Len(fresh[p]) /\ fresh[p] \in Seq(Ids)
    BY DEF PublishTo, TypeOK
  <2>2. fresh[p][pos[p]] \in Ids
    BY <2>1
  <2> QED
    BY <2>2 DEF PublishTo, TypeOK, Current, Sinks
<1> DEFINE i == Current(p)
           c == IF delivered[i][sink[p]] < MaxCount
                THEN delivered[i][sink[p]] + 1 ELSE delivered[i][sink[p]]
<1>2. delivered[i][sink[p]] \in 0..MaxCount /\ c \in 0..MaxCount /\ c > 0
  <2>1. delivered[i][sink[p]] \in 0..MaxCount
    BY <1>1 DEF TypeOK
  <2> HIDE DEF i
  <2> QED
    BY <2>1
<1>3. CASE outcome = "fail"
  BY <1>1, <1>3 DEF PublishTo, DeliveriesKept, TypeOK
<1>4. CASE outcome # "fail"
  <2>1. delivered' = [delivered EXCEPT ![i] = [delivered[i] EXCEPT ![sink[p]] = c]]
    BY <1>4 DEF PublishTo
  <2> HIDE DEF c
  <2>2. delivered \in [Ids -> [Sinks -> 0..MaxCount]]
    BY DEF TypeOK
  <2>3. [delivered[i] EXCEPT ![sink[p]] = c] \in [Sinks -> 0..MaxCount]
    BY <1>1, <1>2, <2>2
  <2>4. delivered' \in [Ids -> [Sinks -> 0..MaxCount]]
    BY <1>1, <2>1, <2>2, <2>3
  <2>5. delivered'[i][sink[p]] = c
    BY <1>1, <2>1, <2>2
  <2>6. ASSUME NEW j \in Ids, NEW s \in Sinks, j # i \/ s # sink[p]
        PROVE  delivered'[j][s] = delivered[j][s]
    BY <1>1, <2>1, <2>2, <2>6
  <2> QED
    BY <1>1, <1>2, <2>4, <2>5, <2>6 DEF DeliveriesKept
<1> QED
  BY <1>3, <1>4

\* Whoever has reached a sink stays so.
LEMMA ReachedKept ==
    ASSUME DeliveriesKept, NEW i \in Ids, Reached(i)
    PROVE  Reached(i)'
  BY DEF DeliveriesKept, Reached, Sinks

\* What a call knows survives the steps of the others.
LEMMA OthersKnow ==
    ASSUME TypeOK, DeliveriesKept, NEW q \in Providers, Knows(q),
           UNCHANGED <<pc[q], feed[q], fresh[q], pos[q], sink[q],
                       successful[q], erred[q]>>
    PROVE  Knows(q)'
<1>1. feed[q] \in Seq(Ids) /\ fresh[q] \in Seq(Ids) /\ pos[q] \in Nat \ {0}
  BY DEF TypeOK
<1>2. /\ \A k \in 1..Len(feed[q]) : feed[q][k] \in Ids
      /\ \A k \in 1..Len(fresh[q]) : fresh[q][k] \in Ids
  BY <1>1
<1>3. ASSUME NEW k \in 1..Len(feed[q]), Covered(q, k)
      PROVE  Covered(q, k)'
  BY <1>2, <1>3, ReachedKept DEF Covered
<1>4. Filtering(q)'
  BY <1>3 DEF Knows, Filtering, Unpublished
<1>5. Publishing(q)'
  <2>1. pos[q] <= Len(fresh[q]) => fresh[q][pos[q]] \in Ids
    BY <1>1, <1>2
  <2> QED
    BY <2>1 DEF Knows, Publishing, Unsent, Reached, DeliveriesKept
<1>6. Complete(q)'
  <2>1. pos[q] <= Len(fresh[q]) => fresh[q][pos[q]] \in Ids
    BY <1>1, <1>2
  <2> QED
    BY <1>2, <2>1 DEF Knows, Publishing, Complete, DeliveriesKept, Sinks
<1>7. Accounted(q)'
  <2>1. \A i \in Elements(feed[q]) \cup Elements(fresh[q]) : i \in Ids
    BY <1>1, <1>2 DEF Elements
  <2> QED
    BY <2>1, ReachedKept DEF Knows, Accounted, DeliveriesKept, Sinks, Elements
<1> QED
  BY <1>4, <1>5, <1>6, <1>7 DEF Knows

LEMMA InitInv == Init => IInv
<1> SUFFICES ASSUME Init PROVE IInv
  OBVIOUS
<1> USE ConstantsAssumption
<1>1. TypeOK
  <2>1. pos \in [Providers -> Nat \ {0}] /\ sink \in [Providers -> 1..(NSinks + 1)]
    BY DEF Init
  <2>2. delivered \in [Ids -> [Sinks -> 0..MaxCount]]
    BY DEF Init
  <2> QED
    BY <2>1, <2>2 DEF Init, TypeOK, PC
<1>2. MarkedWasDelivered
  BY DEF Init, MarkedWasDelivered
<1>3. ASSUME NEW p \in Providers PROVE Knows(p)
  BY DEF Init, Knows, Filtering, Unpublished, Unsent, Publishing, Complete, Accounted
<1> QED
  BY <1>1, <1>2, <1>3 DEF IInv

LEMMA StepInv == IInv /\ [Next]_vars => IInv'
<1> SUFFICES ASSUME IInv, [Next]_vars PROVE IInv'
  OBVIOUS
<1> USE ConstantsAssumption DEF IInv
<1>0. ASSUME NEW p \in Providers, UNCHANGED delivered \/ DeliveriesKept,
             \A q \in Providers \ {p} :
                 UNCHANGED <<pc[q], feed[q], fresh[q], pos[q], sink[q],
                             successful[q], erred[q]>>
      PROVE  \A q \in Providers \ {p} : Knows(q)'
  BY <1>0, OthersKnow DEF DeliveriesKept
<1>1. ASSUME NEW p \in Providers, Fetch(p)
      PROVE  IInv'
  <2>1. TypeOK'
    BY <1>1 DEF Fetch, GoTo, TypeOK, PC
  <2>2. MarkedWasDelivered'
    BY <1>1 DEF Fetch, MarkedWasDelivered, Reached
  <2>3. Knows(p)'
    <3>1. pc'[p] = "filter" /\ pos'[p] = 1 /\ Unpublished(p)'
      BY <1>1 DEF Fetch, GoTo, TypeOK, Knows, Filtering, Unpublished
    <3> QED
      BY <3>1 DEF Knows, Filtering, Publishing, Complete, Accounted
  <2>4. \A q \in Providers \ {p} : Knows(q)'
    BY <1>0, <1>1 DEF Fetch, GoTo, TypeOK
  <2> QED
    BY <2>1, <2>2, <2>3, <2>4
<1>2. ASSUME NEW p \in Providers, FetchFails(p)
      PROVE  IInv'
  <2>1. TypeOK'
    BY <1>2 DEF FetchFails, GoTo, TypeOK, PC
  <2>2. MarkedWasDelivered'
    BY <1>2 DEF FetchFails, MarkedWasDelivered, Reached
  <2>3. Knows(p)'
    <3>1. pc'[p] = "err"
      BY <1>2 DEF FetchFails, GoTo, TypeOK
    <3> QED
      BY <3>1 DEF Knows, Filtering, Publishing, Complete, Accounted
  <2>4. \A q \in Providers \ {p} : Knows(q)'
    BY <1>0, <1>2 DEF FetchFails, GoTo, TypeOK
  <2> QED
    BY <2>1, <2>2, <2>3, <2>4
<1>3. ASSUME NEW p \in Providers, NEW lookupFails \in {FALSE, StoreFails},
             Filter(p, lookupFails)
      PROVE  IInv'
  <2>1. TypeOK'
    <3>1. Current(p) \in Ids /\ pos[p] + 1 \in Nat \ {0}
      BY <1>3 DEF Filter, Current, TypeOK
    <3>2. fresh' \in [Providers -> Seq(Ids)]
      BY <1>3, <3>1 DEF Filter, TypeOK
    <3>3. pos' \in [Providers -> Nat \ {0}]
      BY <1>3, <3>1 DEF Filter, TypeOK
    <3> QED
      BY <1>3, <3>2, <3>3 DEF Filter, TypeOK
  <2>2. MarkedWasDelivered'
    BY <1>3 DEF Filter, MarkedWasDelivered, Reached
  <2>3. Knows(p)'
    <3>1. pc'[p] = "filter" /\ feed'[p] = feed[p] /\ pos'[p] = pos[p] + 1
      BY <1>3 DEF Filter, TypeOK
    <3>2. Unpublished(p)'
      BY <1>3 DEF Filter, Knows, Filtering, Unpublished
    <3>3. \/ fresh'[p] = fresh[p] /\ feed[p][pos[p]] \in marked
          \/ fresh'[p] = Append(fresh[p], feed[p][pos[p]])
      BY <1>3 DEF Filter, Current, TypeOK
    <3>4. /\ fresh[p] \in Seq(Ids) /\ feed[p][pos[p]] \in Ids
          /\ pos[p] \in Nat \ {0} /\ pos[p] \in 1..Len(feed[p])
      BY <1>3 DEF Filter, TypeOK
    <3>5. \A i \in Elements(fresh[p]) : i \in Elements(fresh'[p])
      <4>1. ASSUME NEW k \in DOMAIN fresh[p] PROVE fresh[p][k] \in Elements(fresh'[p])
        <5>1. k \in DOMAIN fresh'[p] /\ fresh'[p][k] = fresh[p][k]
          BY <3>3, <3>4
        <5> QED
          BY <5>1 DEF Elements
      <4> QED
        BY <4>1 DEF Elements
    <3>6. feed[p][pos[p]] \in Elements(fresh'[p]) \/ Reached(feed[p][pos[p]])
      <4>1. CASE feed[p][pos[p]] \in marked
        BY <4>1 DEF MarkedWasDelivered
      <4>2. CASE fresh'[p] = Append(fresh[p], feed[p][pos[p]])
        <5>1. Len(fresh[p]) + 1 \in DOMAIN fresh'[p]
              /\ fresh'[p][Len(fresh[p]) + 1] = feed[p][pos[p]]
          BY <3>4, <4>2
        <5> QED
          BY <5>1 DEF Elements
      <4> QED
        BY <3>3, <4>1, <4>2
    <3>7. ASSUME NEW k \in 1..Len(feed[p]), k < pos[p] + 1
          PROVE  Covered(p, k)'
      <4>1. CASE k = pos[p]
        BY <1>3, <3>1, <3>6, <4>1 DEF Filter, Covered, Reached
      <4>2. CASE k < pos[p]
        <5>1. Covered(p, k)
          BY <1>3, <4>2 DEF Filter, Knows, Filtering
        <5> QED
          BY <1>3, <3>1, <3>5, <5>1 DEF Filter, Covered, Reached
      <4> QED
        BY <3>4, <3>7, <4>1, <4>2
    <3> QED
      BY <3>1, <3>2, <3>7 DEF Knows, Filtering, Publishing, Complete, Accounted
  <2>4. \A q \in Providers \ {p} : Knows(q)'
    BY <1>0, <1>3 DEF Filter, TypeOK
  <2> QED
    BY <2>1, <2>2, <2>3, <2>4
<1>4. ASSUME NEW p \in Providers, Filtered(p)
      PROVE  IInv'
  <2>1. TypeOK'
    BY <1>4 DEF Filtered, GoTo, TypeOK, PC
  <2>2. MarkedWasDelivered'
    BY <1>4 DEF Filtered, MarkedWasDelivered, Reached
  <2>3. Knows(p)'
    <3>1. pc[p] = "filter" /\ pc'[p] = "enrich"
      BY <1>4 DEF Filtered, GoTo, TypeOK
    <3>2. Unpublished(p)'
      BY <1>4 DEF Filtered, Knows, Filtering, Unpublished
    <3>3. ASSUME NEW k \in 1..Len(feed[p]) PROVE Covered(p, k)'
      <4>1. Covered(p, k)
        BY <1>4 DEF Filtered, TypeOK, Knows, Filtering
      <4> QED
        BY <1>4, <4>1 DEF Filtered, Covered, Reached
    <3>4. feed'[p] = feed[p]
      BY <1>4 DEF Filtered
    <3> QED
      BY <3>1, <3>2, <3>3, <3>4 DEF Knows, Filtering, Publishing, Complete, Accounted
  <2>4. \A q \in Providers \ {p} : Knows(q)'
    BY <1>0, <1>4 DEF Filtered, GoTo, TypeOK
  <2> QED
    BY <2>1, <2>2, <2>3, <2>4
<1>5. ASSUME NEW p \in Providers, Enrich(p)
      PROVE  IInv'
  <2>1. TypeOK'
    BY <1>5 DEF Enrich, GoTo, TypeOK, PC
  <2>2. MarkedWasDelivered'
    BY <1>5 DEF Enrich, MarkedWasDelivered, Reached
  <2>3. Knows(p)'
    <3>1. /\ pc[p] = "enrich" /\ pos'[p] = 1
          /\ pc'[p] = IF fresh[p] = <<>> THEN "ok" ELSE "publish"
      BY <1>5 DEF Enrich, GoTo, TypeOK
    <3>2. UNCHANGED <<feed, fresh, sink, successful, erred, delivered>>
      BY <1>5 DEF Enrich
    <3>3. Unpublished(p) /\ \A k \in 1..Len(feed[p]) : Covered(p, k)
      BY <3>1 DEF Knows, Filtering
    <3>4. fresh[p] \in Seq(Ids) /\ feed[p] \in Seq(Ids)
      BY DEF TypeOK
    <3>5. Filtering(p)'
      BY <3>1, <3>2, <3>3 DEF Filtering, Covered, Reached
    <3>6. Publishing(p)'
      BY <3>1, <3>2, <3>3 DEF Publishing, Unpublished
    <3>7. Complete(p)'
      BY <3>1, <3>2, <3>3 DEF Complete, Unpublished, Sinks
    <3>8. Accounted(p)'
      <4> SUFFICES ASSUME fresh[p] = <<>> PROVE Accounted(p)'
        BY <3>1 DEF Accounted
      <4>1. Elements(fresh[p]) = {}
        BY DEF Elements
      <4>2. \A i \in Elements(feed[p]) : Reached(i)
        BY <3>3, <3>4, <4>1 DEF Elements, Covered
      <4> QED
        BY <3>2, <4>1, <4>2 DEF Accounted, Reached
    <3> QED
      BY <3>5, <3>6, <3>7, <3>8 DEF Knows
  <2>4. \A q \in Providers \ {p} : Knows(q)'
    BY <1>0, <1>5 DEF Enrich, GoTo, TypeOK
  <2> QED
    BY <2>1, <2>2, <2>3, <2>4
<1>6. ASSUME NEW p \in Providers, NEW outcome \in Outcomes, PublishTo(p, outcome)
      PROVE  IInv'
  <2>0. /\ DeliveriesKept /\ fresh[p][pos[p]] \in Ids /\ sink[p] \in Sinks
        /\ outcome # "fail" => delivered'[fresh[p][pos[p]]][sink[p]] > 0
        /\ delivered' \in [Ids -> [Sinks -> 0..MaxCount]]
    BY <1>6, DeliveriesGrow
  <2>1. TypeOK'
    <3>1. sink' \in [Providers -> 1..(NSinks + 1)]
      BY <1>6 DEF PublishTo, TypeOK
    <3>2. successful[p] \in 0..NSinks /\ successful[p] < sink[p] /\ sink[p] <= NSinks
      BY <1>6 DEF PublishTo, TypeOK, Knows, Publishing
    <3>3. successful' \in [Providers -> 0..NSinks]
      BY <1>6, <3>2 DEF PublishTo, TypeOK
    <3>4. erred' \in [Providers -> BOOLEAN]
      BY <1>6 DEF PublishTo, TypeOK
    <3> QED
      BY <1>6, <2>0, <3>1, <3>3, <3>4 DEF PublishTo, TypeOK
  <2>2. MarkedWasDelivered'
    BY <1>6, <2>0, ReachedKept DEF PublishTo, TypeOK, MarkedWasDelivered
  <2>3. Knows(p)'
    <3>1. /\ pc[p] = "publish" /\ pc'[p] = "publish"
          /\ pos[p] <= Len(fresh[p])
          /\ UNCHANGED <<feed[p], fresh[p], pos[p]>>
          /\ sink'[p] = sink[p] + 1
          /\ successful'[p] = (IF outcome = "ok" THEN successful[p] + 1 ELSE successful[p])
          /\ erred'[p] = (erred[p] \/ outcome # "ok")
      BY <1>6 DEF PublishTo, TypeOK
    <3>2. /\ feed[p] \in Seq(Ids) /\ fresh[p] \in Seq(Ids)
          /\ pos[p] \in 1..Len(fresh[p]) /\ sink[p] \in 1..(NSinks + 1)
          /\ successful[p] \in Nat
      BY <3>1 DEF TypeOK
    <3>3. /\ \A k \in 1..Len(feed[p]) : feed[p][k] \in Ids
          /\ \A k \in 1..Len(fresh[p]) : fresh[p][k] \in Ids
      BY <3>2
    <3>4. Filtering(p)'
      <4>1. ASSUME NEW k \in 1..Len(feed[p]) PROVE Covered(p, k)'
        <5>1. Covered(p, k)
          BY <3>1 DEF Knows, Filtering
        <5> QED
          BY <2>0, <3>1, <3>3, <5>1, ReachedKept DEF Covered
      <4> QED
        BY <3>1, <4>1 DEF Filtering
    <3>5. Publishing(p)'
      <4>1. successful'[p] > 0 => Reached(fresh[p][pos[p]])'
        <5>1. CASE outcome = "ok"
          BY <2>0, <3>1, <5>1 DEF Reached, Sinks
        <5>2. CASE outcome # "ok"
          BY <2>0, <3>1, <3>2, <5>2, ReachedKept DEF Knows, Publishing
        <5> QED
          BY <5>1, <5>2
      <4> QED
        BY <3>1, <3>2, <4>1 DEF Knows, Publishing
    <3>6. Complete(p)'
      <4> SUFFICES ASSUME erred'[p] = FALSE PROVE Complete(p)'
        BY DEF Complete
      <4>1. erred[p] = FALSE /\ outcome = "ok"
        BY <3>1 DEF TypeOK
      <4>2. ASSUME NEW k \in 1..Len(fresh[p]), NEW s \in Sinks, k < pos[p]
            PROVE  delivered'[fresh[p][k]][s] > 0
        BY <2>0, <3>1, <3>3, <4>1, <4>2 DEF Knows, Complete, DeliveriesKept
      <4>3. ASSUME NEW s \in Sinks, s < sink[p] + 1
            PROVE  delivered'[fresh[p][pos[p]]][s] > 0
        <5>1. CASE s = sink[p]
          BY <2>0, <4>1, <5>1
        <5>2. CASE s < sink[p]
          BY <2>0, <3>1, <4>1, <5>2 DEF Knows, Complete, DeliveriesKept
        <5> QED
          BY <3>2, <4>3, <5>1, <5>2 DEF Sinks
      <4> QED
        BY <3>1, <4>2, <4>3 DEF Complete, Sinks
    <3>7. Accounted(p)'
      BY <3>1 DEF Accounted
    <3> QED
      BY <3>4, <3>5, <3>6, <3>7 DEF Knows
  <2>4. \A q \in Providers \ {p} : Knows(q)'
    BY <1>0, <1>6, <2>0 DEF PublishTo, TypeOK
  <2> QED
    BY <2>1, <2>2, <2>3, <2>4
<1>7. ASSUME NEW p \in Providers, FanoutReturns(p)
      PROVE  IInv'
  <2>1. TypeOK'
    <3>1. pos' \in [Providers -> Nat \ {0}] /\ pc' \in [Providers -> PC]
      <4>1. CASE successful[p] > 0
        BY <1>7, <4>1 DEF FanoutReturns, GoTo, TypeOK, PC
      <4>2. CASE ~(successful[p] > 0)
        <5>1. pos' = [pos EXCEPT ![p] = @ + 1] /\ pc' = pc
          BY <1>7, <4>2 DEF FanoutReturns
        <5>2. pos[p] + 1 \in Nat \ {0}
          BY DEF TypeOK
        <5> QED
          BY <5>1, <5>2 DEF TypeOK
      <4> QED
        BY <4>1, <4>2
    <3>2. /\ sink' \in [Providers -> 1..(NSinks + 1)]
          /\ successful' \in [Providers -> 0..NSinks]
      BY <1>7 DEF FanoutReturns, TypeOK
    <3> QED
      BY <1>7, <3>1, <3>2 DEF FanoutReturns, TypeOK
  <2>2. MarkedWasDelivered'
    BY <1>7 DEF FanoutReturns, MarkedWasDelivered, Reached
  <2>3. Knows(p)'
    <3>1. /\ pc[p] = "publish" /\ pos[p] <= Len(fresh[p]) /\ sink[p] > NSinks
          /\ UNCHANGED <<feed[p], fresh[p], erred[p], delivered>>
          /\ sink'[p] = 1 /\ successful'[p] = 0
          /\ \/ successful[p] > 0 /\ pc'[p] = "mark" /\ pos'[p] = pos[p]
             \/ pc'[p] = "publish" /\ pos'[p] = pos[p] + 1
      BY <1>7 DEF FanoutReturns, GoTo, TypeOK
    <3>2. /\ pos[p] \in Nat /\ fresh[p] \in Seq(Ids) /\ feed[p] \in Seq(Ids)
          /\ Len(fresh[p]) \in Nat /\ sink[p] \in Nat
      BY DEF TypeOK
    <3>3. Filtering(p)'
      BY <3>1 DEF Knows, Filtering, Covered, Reached
    <3>4. Publishing(p)'
      BY <3>1 DEF Knows, Publishing, Unsent, Reached
    <3>5. Complete(p)'
      <4> SUFFICES ASSUME erred[p] = FALSE PROVE Complete(p)'
        BY <3>1 DEF Complete
      <4>1. \A s \in Sinks : delivered[fresh[p][pos[p]]][s] > 0
        BY <3>1, <3>2 DEF Knows, Complete, Sinks
      <4>2. \A k \in 1..Len(fresh[p]), s \in Sinks :
                k < pos[p] + 1 => delivered[fresh[p][k]][s] > 0
        BY <3>1, <3>2, <4>1 DEF Knows, Complete
      <4> QED
        BY <3>1, <3>2, <4>1, <4>2 DEF Complete, Sinks
    <3>6. Accounted(p)'
      BY <3>1 DEF Accounted
    <3> QED
      BY <3>3, <3>4, <3>5, <3>6 DEF Knows
  <2>4. \A q \in Providers \ {p} : Knows(q)'
    BY <1>0, <1>7 DEF FanoutReturns, GoTo, TypeOK
  <2> QED
    BY <2>1, <2>2, <2>3, <2>4
<1>8. ASSUME NEW p \in Providers, NEW outcome \in MarkOutcomes, Mark(p, outcome)
      PROVE  IInv'
  <2>0. marked' \in {marked, marked \cup {Current(p)}, marked \ {Current(p)}}
    <3>1. outcome \in {"alive", "expired", "failed"}
      BY DEF MarkOutcomes
    <3> QED
      BY <1>8, <3>1 DEF Mark
  <2>1. TypeOK'
    <3>1. pos' \in [Providers -> Nat \ {0}] /\ pc' \in [Providers -> PC]
      BY <1>8 DEF Mark, GoTo, TypeOK, PC
    <3>2. Current(p) \in Ids
      BY <1>8 DEF Mark, Current, TypeOK, Knows, Publishing
    <3>3. marked' \in SUBSET Ids
      BY <2>0, <3>2 DEF TypeOK
    <3> QED
      BY <1>8, <3>1, <3>2, <3>3 DEF Mark, TypeOK
  <2>2. MarkedWasDelivered'
    <3>1. Reached(Current(p))
      BY <1>8 DEF Mark, Current, Knows, Publishing
    <3> QED
      <4>1. delivered' = delivered
        BY <1>8 DEF Mark
      <4> QED
        BY <2>0, <3>1, <4>1 DEF MarkedWasDelivered, Reached
  <2>3. Knows(p)'
    <3>1. /\ pc[p] = "mark" /\ pc'[p] = "publish" /\ pos'[p] = pos[p] + 1
          /\ UNCHANGED <<feed[p], fresh[p], sink[p], successful[p], erred[p], delivered>>
      BY <1>8 DEF Mark, GoTo, TypeOK
    <3>2. /\ pos[p] \in Nat /\ fresh[p] \in Seq(Ids) /\ feed[p] \in Seq(Ids)
          /\ Len(fresh[p]) \in Nat
      BY DEF TypeOK
    <3>3. Filtering(p)'
      BY <3>1 DEF Knows, Filtering, Covered, Reached
    <3>4. Unsent(p)'
      BY <3>1 DEF Knows, Publishing, Unsent
    <3>5. Complete(p)'
      BY <3>1, <3>2, <3>4 DEF Knows, Complete, Unsent, Sinks
    <3>6. Publishing(p)' /\ Accounted(p)'
      BY <3>1, <3>4 DEF Publishing, Accounted, Unsent
    <3> QED
      BY <3>3, <3>5, <3>6 DEF Knows
  <2>4. \A q \in Providers \ {p} : Knows(q)'
    BY <1>0, <1>8 DEF Mark, GoTo, TypeOK
  <2> QED
    BY <2>1, <2>2, <2>3, <2>4
<1>9. ASSUME NEW p \in Providers, Finish(p)
      PROVE  IInv'
  <2>1. TypeOK'
    BY <1>9 DEF Finish, GoTo, TypeOK, PC
  <2>2. MarkedWasDelivered'
    BY <1>9 DEF Finish, MarkedWasDelivered, Reached
  <2>3. Knows(p)'
    <3>1. /\ pc[p] = "publish" /\ pos[p] > Len(fresh[p])
          /\ pc'[p] = (IF erred[p] THEN "err" ELSE "ok")
          /\ UNCHANGED <<feed[p], fresh[p], erred[p], delivered>>
      BY <1>9 DEF Finish, GoTo, TypeOK
    <3>2. /\ fresh[p] \in Seq(Ids) /\ feed[p] \in Seq(Ids)
          /\ Len(fresh[p]) \in Nat /\ pos[p] \in Nat
      BY DEF TypeOK
    <3>3. Filtering(p)' /\ Publishing(p)' /\ Complete(p)'
      BY <3>1 DEF Filtering, Publishing, Complete
    <3>4. Accounted(p)'
      <4>0. erred[p] # FALSE => pc'[p] # "ok"
        BY <3>1 DEF TypeOK
      <4> SUFFICES ASSUME erred[p] = FALSE PROVE Accounted(p)'
        BY <4>0 DEF Accounted
      <4>1. \A i \in Elements(fresh[p]), s \in Sinks : delivered[i][s] > 0
        <5>1. \A k \in 1..Len(fresh[p]), s \in Sinks : delivered[fresh[p][k]][s] > 0
          BY <3>1, <3>2 DEF Knows, Complete
        <5>2. DOMAIN fresh[p] = 1..Len(fresh[p])
          BY <3>2
        <5> QED
          BY <5>1, <5>2 DEF Elements
      <4>2. 1 \in Sinks
        BY DEF Sinks
      <4>3. \A i \in Elements(feed[p]) : Reached(i)
        <5>1. \A i \in Elements(fresh[p]) : Reached(i)
          BY <4>1, <4>2 DEF Reached
        <5> QED
          BY <3>1, <3>2, <5>1 DEF Knows, Filtering, Covered, Elements
      <4> QED
        BY <3>1, <4>1, <4>3 DEF Accounted, Reached
    <3> QED
      BY <3>3, <3>4 DEF Knows
  <2>4. \A q \in Providers \ {p} : Knows(q)'
    BY <1>0, <1>9 DEF Finish, GoTo, TypeOK
  <2> QED
    BY <2>1, <2>2, <2>3, <2>4
<1>10. ASSUME NextCrawl PROVE IInv'
  <2>1. TypeOK'
    <3>1. pos' \in [Providers -> Nat \ {0}] /\ sink' \in [Providers -> 1..(NSinks + 1)]
      BY <1>10 DEF NextCrawl, Reset
    <3>2. successful' \in [Providers -> 0..NSinks] /\ crashes' \in 0..MaxCrashes
      BY <1>10 DEF NextCrawl, Reset, TypeOK
    <3> QED
      BY <1>10, <3>1, <3>2 DEF NextCrawl, Reset, TypeOK, PC
  <2>2. MarkedWasDelivered'
    BY <1>10 DEF NextCrawl, MarkedWasDelivered, Reached
  <2>3. ASSUME NEW p \in Providers PROVE Knows(p)'
    BY <1>10 DEF NextCrawl, Reset, Knows, Filtering, Unpublished, Publishing, Complete, Accounted
  <2> QED
    BY <2>1, <2>2, <2>3
<1>11. ASSUME Crash PROVE IInv'
  <2>1. TypeOK'
    <3>1. pos' \in [Providers -> Nat \ {0}] /\ sink' \in [Providers -> 1..(NSinks + 1)]
      BY <1>11 DEF Crash, Reset
    <3>2. successful' \in [Providers -> 0..NSinks] /\ crashes' \in 0..MaxCrashes
      BY <1>11 DEF Crash, Reset, TypeOK
    <3> QED
      BY <1>11, <3>1, <3>2 DEF Crash, Reset, TypeOK, PC
  <2>2. MarkedWasDelivered'
    BY <1>11 DEF Crash, MarkedWasDelivered, Reached
  <2>3. ASSUME NEW p \in Providers PROVE Knows(p)'
    BY <1>11 DEF Crash, Reset, Knows, Filtering, Unpublished, Publishing, Complete, Accounted
  <2> QED
    BY <2>1, <2>2, <2>3
<1>12. ASSUME NEW ids \in SUBSET marked, Expire(ids) PROVE IInv'
  <2>1. TypeOK'
    BY <1>12 DEF Expire, local, TypeOK
  <2>2. MarkedWasDelivered'
    BY <1>12 DEF Expire, MarkedWasDelivered, Reached
  <2>3. ASSUME NEW p \in Providers PROVE Knows(p)'
    BY <1>12, OthersKnow DEF Expire, local, DeliveriesKept
  <2> QED
    BY <2>1, <2>2, <2>3
<1>13. CASE UNCHANGED vars
  <2>1. TypeOK' /\ MarkedWasDelivered'
    BY <1>13 DEF vars, TypeOK, MarkedWasDelivered, Reached
  <2>2. ASSUME NEW p \in Providers PROVE Knows(p)'
    BY <1>13, OthersKnow DEF vars, DeliveriesKept
  <2> QED
    BY <2>1, <2>2
<1> QED
  BY <1>1, <1>2, <1>3, <1>4, <1>5, <1>6, <1>7, <1>8, <1>9, <1>10, <1>11, <1>12, <1>13
     DEF Next, Step

LEMMA Invariant == Spec => []IInv
  BY InitInv, StepInv, PTL DEF Spec
-----------------------------------------------------------------------------
(***************************************************************************)
(* The theorems.                                                           *)
(***************************************************************************)

\* Every variable keeps its type.
THEOREM TypeCorrect == Spec => []TypeOK
<1>1. IInv => TypeOK
  BY DEF IInv
<1> QED
  BY Invariant, <1>1, PTL

\* Whatever fails or crashes, the article of every mark the store holds has
\* reached a sink: skipping it loses nothing.
THEOREM MarksDelivered == Spec => []MarkedWasDelivered
<1>1. IInv => MarkedWasDelivered
  BY DEF IInv
<1> QED
  BY Invariant, <1>1, PTL

\* When Process returns nil, every article of the feed has reached a sink, now
\* or before, and those the filter kept have reached every sink.
THEOREM NilAccounts == Spec => []NilMeansDelivered
<1>1. IInv => NilMeansDelivered
  BY DEF IInv, Knows, Accounted, NilMeansDelivered
<1> QED
  BY Invariant, <1>1, PTL
=============================================================================
