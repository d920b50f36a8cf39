-------------------------- MODULE BoltStoreProofs ---------------------------
(***************************************************************************)
(* What holds of BoltStore for every set of goroutines and ids, and every  *)
(* TTL, cleanup interval and resolution of the clock.                      *)
(***************************************************************************)
EXTENDS BoltStore, TLAPS

(***************************************************************************)
(* The inductive invariant.                                                *)
(***************************************************************************)

\* A goroutine is in a call exactly when it is not idle, and the call began
\* before now.
InCall ==
    \A p \in Procs :
        /\ pc[p] = "idle" => call[p] = None
        /\ pc[p] # "idle" => call[p] \in Calls /\ call[p].at <= now

\* Whoever cleans up was the first to find the cleanup due.
SweepDue == \A p \in Procs : pc[p] \in {"sweep", "stamp"} => CleanupDue(p)

\* The second at which the last mark of i ends, 0 if it was never marked.
Promised(i) == IF markedAt[i] < 0 THEN 0 ELSE ExpiryOf(markedAt[i])

\* The bucket has what was promised, or nothing when the promise has run out.
DbAgrees ==
    \A i \in Ids :
        \/ db[i] = Promised(i)
        \/ db[i] = 0 /\ Promised(i) * Sub <= now

IInv ==
    /\ TypeOK
    /\ CleanupExclusive
    /\ InCall
    /\ SweepDue
    /\ DbAgrees
-----------------------------------------------------------------------------
LEMMA InitInv == Init => IInv
<1> SUFFICES ASSUME Init PROVE IInv
  OBVIOUS
<1> USE ConstantsAssumption
<1>1. TypeOK
  <2>1. db \in [Ids -> Nat] /\ markedAt \in [Ids -> {-1} \cup (0..MaxTime)]
    BY DEF Init
  <2>2. now \in 0..MaxTime /\ restarts \in 0..MaxRestarts
    BY DEF Init
  <2> QED
    BY <2>1, <2>2 DEF Init, TypeOK, PC, Replies
<1>2. CleanupExclusive /\ InCall /\ SweepDue
  BY DEF Init, CleanupExclusive, Critical, InCall, SweepDue
<1>3. DbAgrees
  BY DEF Init, DbAgrees, Promised
<1> QED
  BY <1>1, <1>2, <1>3 DEF IInv

\* The second of an instant is a number of seconds.
LEMMA UnixNat == ASSUME NEW t \in Nat PROVE Unix(t) \in Nat
  BY ConstantsAssumption DEF Unix

LEMMA StepInv == IInv /\ [Next]_vars => IInv'
<1> SUFFICES ASSUME IInv, [Next]_vars PROVE IInv'
  OBVIOUS
<1> USE ConstantsAssumption DEF IInv
<1>1. ASSUME NEW p \in Procs, NEW op \in Ops, NEW i \in Ids, Begin(p, op, i)
       PROVE  IInv'
  <2>1. TypeOK'
    BY <1>1 DEF Begin, TypeOK, InCall, PC, Replies, Calls, Ops
  <2>2. CleanupExclusive'
    BY <1>1 DEF Begin, TypeOK, CleanupExclusive, Critical
  <2>3. InCall'
    BY <1>1 DEF Begin, TypeOK, InCall, PC, Calls
  <2>4. SweepDue'
    BY <1>1 DEF Begin, TypeOK, SweepDue, CleanupDue, CleanupExclusive, Critical
  <2>5. DbAgrees'
    BY <1>1 DEF Begin, TypeOK, InCall, DbAgrees, Promised, ExpiredAt
  <2> QED
    BY <2>1, <2>2, <2>3, <2>4, <2>5
<1>2. ASSUME NEW p \in Procs, Gate(p)
       PROVE  IInv'
  <2>1. TypeOK'
    BY <1>2 DEF Gate, TypeOK, InCall, PC, Replies, Calls, Ops
  <2>2. CleanupExclusive'
    BY <1>2 DEF Gate, TypeOK, CleanupExclusive, Critical
  <2>3. InCall'
    BY <1>2 DEF Gate, TypeOK, InCall, PC, Calls
  <2>4. SweepDue'
    BY <1>2 DEF Gate, TypeOK, SweepDue, CleanupDue, CleanupExclusive, Critical
  <2>5. DbAgrees'
    BY <1>2 DEF Gate, TypeOK, InCall, DbAgrees, Promised, ExpiredAt
  <2> QED
    BY <2>1, <2>2, <2>3, <2>4, <2>5
<1>3. ASSUME NEW p \in Procs, Lock(p)
       PROVE  IInv'
  <2>1. TypeOK'
    BY <1>3 DEF Lock, TypeOK, InCall, PC, Replies, Calls, Ops
  <2>2. CleanupExclusive'
    BY <1>3 DEF Lock, TypeOK, CleanupExclusive, Critical
  <2>3. InCall'
    BY <1>3 DEF Lock, TypeOK, InCall, PC, Calls
  <2>4. SweepDue'
    BY <1>3 DEF Lock, TypeOK, SweepDue, CleanupDue, CleanupExclusive, Critical
  <2>5. DbAgrees'
    BY <1>3 DEF Lock, TypeOK, InCall, DbAgrees, Promised, ExpiredAt
  <2> QED
    BY <2>1, <2>2, <2>3, <2>4, <2>5
<1>4. ASSUME NEW p \in Procs, Recheck(p)
       PROVE  IInv'
  <2>1. TypeOK'
    <3>1. locked' \in BOOLEAN
      BY <1>4 DEF Recheck, CleanupDue
    <3>2. pc' \in [Procs -> PC]
      BY <1>4 DEF Recheck, TypeOK, PC
    <3> QED
      BY <1>4, <3>1, <3>2, Zenon DEF Recheck, TypeOK
  <2>2. CleanupExclusive'
    BY <1>4 DEF Recheck, TypeOK, CleanupExclusive, Critical
  <2>3. InCall'
    BY <1>4 DEF Recheck, TypeOK, InCall, PC, Calls
  <2>4. SweepDue'
    BY <1>4 DEF Recheck, TypeOK, SweepDue, CleanupDue, CleanupExclusive, Critical
  <2>5. DbAgrees'
    BY <1>4 DEF Recheck, TypeOK, InCall, DbAgrees, Promised, ExpiredAt
  <2> QED
    BY <2>1, <2>2, <2>3, <2>4, <2>5
<1>5. ASSUME NEW p \in Procs, Sweep(p)
       PROVE  IInv'
  <2>1. TypeOK'
    BY <1>5 DEF Sweep, TypeOK, InCall, PC, Replies, Calls, Ops
  <2>2. CleanupExclusive'
    BY <1>5 DEF Sweep, TypeOK, CleanupExclusive, Critical
  <2>3. InCall'
    BY <1>5 DEF Sweep, TypeOK, InCall, PC, Calls
  <2>4. SweepDue'
    BY <1>5 DEF Sweep, TypeOK, SweepDue, CleanupDue, CleanupExclusive, Critical
  <2>5. DbAgrees'
    <3> SUFFICES ASSUME NEW i \in Ids
                 PROVE  (db[i] = Promised(i) \/ (db[i] = 0 /\ Promised(i) * Sub <= now))'
      BY DEF DbAgrees
    <3>1. now' = now /\ Promised(i)' = Promised(i)
      BY <1>5 DEF Sweep, Promised
    <3>2. CASE ExpiredAt(i, call[p].at)
      <4>1. db'[i] = 0 /\ db[i] * Sub <= call[p].at
        BY <1>5, <3>2 DEF Sweep, ExpiredAt
      <4>2. call[p].at \in Nat /\ call[p].at <= now /\ now \in Nat /\ db[i] * Sub \in Nat
        BY <1>5 DEF Sweep, InCall, Calls, TypeOK
      <4> QED
        BY <3>1, <4>1, <4>2 DEF DbAgrees
    <3>3. CASE ~ExpiredAt(i, call[p].at)
      BY <1>5, <3>1, <3>3 DEF Sweep, DbAgrees
    <3> QED
      BY <3>2, <3>3
  <2> QED
    BY <2>1, <2>2, <2>3, <2>4, <2>5
<1>6. ASSUME NEW p \in Procs, SweepFails(p)
       PROVE  IInv'
  <2>1. TypeOK'
    BY <1>6 DEF SweepFails, Return, TypeOK, InCall, PC, Replies, Calls, Ops
  <2>2. CleanupExclusive'
    BY <1>6 DEF SweepFails, Return, TypeOK, CleanupExclusive, Critical
  <2>3. InCall'
    BY <1>6 DEF SweepFails, Return, TypeOK, InCall, PC, Calls
  <2>4. SweepDue'
    BY <1>6 DEF SweepFails, Return, TypeOK, SweepDue, CleanupDue, CleanupExclusive, Critical
  <2>5. DbAgrees'
    BY <1>6 DEF SweepFails, Return, TypeOK, InCall, DbAgrees, Promised, ExpiredAt
  <2> QED
    BY <2>1, <2>2, <2>3, <2>4, <2>5
<1>7. ASSUME NEW p \in Procs, Stamp(p)
       PROVE  IInv'
  <2>1. TypeOK'
    <3>1. Unix(call[p].at) \in Nat
      BY <1>7, UnixNat DEF Stamp, InCall, Calls
    <3> QED
      BY <1>7, <3>1 DEF Stamp, TypeOK, PC
  <2>2. CleanupExclusive'
    BY <1>7 DEF Stamp, TypeOK, CleanupExclusive, Critical
  <2>3. InCall'
    BY <1>7 DEF Stamp, TypeOK, InCall, PC, Calls
  <2>4. SweepDue'
    BY <1>7 DEF Stamp, TypeOK, SweepDue, CleanupDue, CleanupExclusive, Critical
  <2>5. DbAgrees'
    BY <1>7 DEF Stamp, TypeOK, InCall, DbAgrees, Promised, ExpiredAt
  <2> QED
    BY <2>1, <2>2, <2>3, <2>4, <2>5
<1>8. ASSUME NEW p \in Procs, Lookup(p)
       PROVE  IInv'
  <2>1. TypeOK'
    BY <1>8 DEF Lookup, Return, TypeOK, InCall, PC, Replies, Calls, Ops
  <2>2. CleanupExclusive'
    BY <1>8 DEF Lookup, Return, TypeOK, CleanupExclusive, Critical
  <2>3. InCall'
    BY <1>8 DEF Lookup, Return, TypeOK, InCall, PC, Calls
  <2>4. SweepDue'
    BY <1>8 DEF Lookup, Return, TypeOK, SweepDue, CleanupDue, CleanupExclusive, Critical
  <2>5. DbAgrees'
    BY <1>8 DEF Lookup, Return, TypeOK, InCall, DbAgrees, Promised, ExpiredAt
  <2> QED
    BY <2>1, <2>2, <2>3, <2>4, <2>5
<1>9. ASSUME NEW p \in Procs, Mark(p)
       PROVE  IInv'
  <2>1. TypeOK'
    <3>1. call[p].at \in 0..MaxTime /\ call[p].id \in Ids
      BY <1>9 DEF Mark, InCall, Calls
    <3>2. ExpiryOf(call[p].at) \in Nat
      BY <3>1, UnixNat DEF ExpiryOf
    <3> QED
      BY <1>9, <3>1, <3>2 DEF Mark, Return, TypeOK, PC, Replies
  <2>2. CleanupExclusive'
    BY <1>9 DEF Mark, Return, TypeOK, CleanupExclusive, Critical
  <2>3. InCall'
    BY <1>9 DEF Mark, Return, TypeOK, InCall, PC, Calls
  <2>4. SweepDue'
    BY <1>9 DEF Mark, Return, TypeOK, SweepDue, CleanupDue, CleanupExclusive, Critical
  <2>5. DbAgrees'
    <3> SUFFICES ASSUME NEW i \in Ids
                 PROVE  (db[i] = Promised(i) \/ (db[i] = 0 /\ Promised(i) * Sub <= now))'
      BY DEF DbAgrees
    <3>1. call[p].at \in Nat
      BY <1>9 DEF Mark, InCall, Calls
    <3>2. CASE i = call[p].id
      <4>1. /\ db'[i] = ExpiryOf(call[p].at)
            /\ markedAt'[i] = call[p].at
        BY <1>9, <3>2 DEF Mark, TypeOK
      <4> QED
        BY <3>1, <4>1 DEF Promised
    <3>3. CASE i # call[p].id
      BY <1>9, <3>3 DEF Mark, TypeOK, DbAgrees, Promised
    <3> QED
      BY <3>2, <3>3
  <2> QED
    BY <2>1, <2>2, <2>3, <2>4, <2>5
<1>10. ASSUME NEW p \in Procs, TxFails(p)
       PROVE  IInv'
  <2>1. TypeOK'
    BY <1>10 DEF TxFails, Return, TypeOK, InCall, PC, Replies, Calls, Ops
  <2>2. CleanupExclusive'
    BY <1>10 DEF TxFails, Return, TypeOK, CleanupExclusive, Critical
  <2>3. InCall'
    BY <1>10 DEF TxFails, Return, TypeOK, InCall, PC, Calls
  <2>4. SweepDue'
    BY <1>10 DEF TxFails, Return, TypeOK, SweepDue, CleanupDue, CleanupExclusive, Critical
  <2>5. DbAgrees'
    BY <1>10 DEF TxFails, Return, TypeOK, InCall, DbAgrees, Promised, ExpiredAt
  <2> QED
    BY <2>1, <2>2, <2>3, <2>4, <2>5
<1>11. CASE Tick
  <2>1. TypeOK'
    BY <1>11 DEF Tick, TypeOK, InCall, PC, Replies, Calls, Ops
  <2>2. CleanupExclusive'
    BY <1>11 DEF Tick, TypeOK, CleanupExclusive, Critical
  <2>3. InCall'
    BY <1>11 DEF Tick, TypeOK, InCall, PC, Calls
  <2>4. SweepDue'
    BY <1>11 DEF Tick, TypeOK, SweepDue, CleanupDue, CleanupExclusive, Critical
  <2>5. DbAgrees'
    <3> SUFFICES ASSUME NEW i \in Ids
                 PROVE  (db[i] = Promised(i) \/ (db[i] = 0 /\ Promised(i) * Sub <= now))'
      BY DEF DbAgrees
    <3>1. now \in Nat /\ now' = now + 1 /\ db'[i] = db[i] /\ Promised(i)' = Promised(i)
      BY <1>11 DEF Tick, TypeOK, Promised
    <3>2. Promised(i) \in Nat
      BY UnixNat DEF TypeOK, Promised, ExpiryOf
    <3>3. Promised(i) * Sub \in Nat
      BY <3>2
    <3> QED
      BY <3>1, <3>3 DEF DbAgrees
  <2> QED
    BY <2>1, <2>2, <2>3, <2>4, <2>5
<1>12. CASE Restart
  <2>1. TypeOK'
    <3>1. Unix(now) \in Nat
      BY UnixNat DEF TypeOK
    <3>2. restarts' \in 0..MaxRestarts
      BY <1>12 DEF Restart, TypeOK
    <3>3. call' \in [Procs -> Calls \cup {None}]
      BY <1>12 DEF Restart
    <3> QED
      BY <1>12, <3>1, <3>2, <3>3 DEF Restart, TypeOK, PC, Replies
  <2>2. CleanupExclusive'
    BY <1>12 DEF Restart, TypeOK, CleanupExclusive, Critical
  <2>3. InCall'
    BY <1>12 DEF Restart, TypeOK, InCall, PC, Calls
  <2>4. SweepDue'
    BY <1>12 DEF Restart, TypeOK, SweepDue, CleanupDue, CleanupExclusive, Critical
  <2>5. DbAgrees'
    BY <1>12 DEF Restart, TypeOK, InCall, DbAgrees, Promised, ExpiredAt
  <2> QED
    BY <2>1, <2>2, <2>3, <2>4, <2>5
<1>13. CASE UNCHANGED vars
  BY <1>13 DEF vars, TypeOK, CleanupExclusive, Critical, InCall, SweepDue,
                CleanupDue, DbAgrees, Promised
<1> QED
  BY <1>1, <1>2, <1>3, <1>4, <1>5, <1>6, <1>7, <1>8, <1>9, <1>10, <1>11, <1>12, <1>13 DEF Next, Step

LEMMA IInvAlways == Spec => []IInv
  BY InitInv, StepInv, PTL DEF Spec

-----------------------------------------------------------------------------
(***************************************************************************)
(* Every variable keeps its type.                                          *)
(***************************************************************************)
THEOREM TypeCorrect == Spec => []TypeOK
  BY IInvAlways, PTL DEF IInv

(***************************************************************************)
(* cleanupMu is held by at most one goroutine, and by nobody once every    *)
(* call that took it has left maybeCleanupExpired.                         *)
(***************************************************************************)
THEOREM MutexReleased == Spec => []CleanupExclusive
  BY IInvAlways, PTL DEF IInv

\* Rounding an instant down to its second loses less than a second.
LEMMA UnixBounds ==
  ASSUME NEW t \in Nat
  PROVE  Unix(t) * Sub <= t /\ t < Unix(t) * Sub + Sub
  BY ConstantsAssumption DEF Unix

\* An instant that lies k whole seconds in has a second of at least k.
LEMMA UnixMonotone ==
  ASSUME NEW t \in Nat, NEW k \in Int, k * Sub <= t
  PROVE  k <= Unix(t)
<1>1. Unix(t) \in Nat /\ t < (Unix(t) + 1) * Sub
  BY UnixNat, UnixBounds, ConstantsAssumption
<1>2. k * Sub < (Unix(t) + 1) * Sub
  BY <1>1, ConstantsAssumption
<1>3. k < Unix(t) + 1
  BY <1>1, <1>2, ConstantsAssumption
<1> QED
  BY <1>1, <1>3

(***************************************************************************)
(* No mark is lost within TTL - 1 seconds, whatever cleanups and restarts  *)
(* come in between.                                                        *)
(***************************************************************************)
THEOREM MarksKept == Spec => []MarkKept
<1>1. IInv => MarkKept
  <2> SUFFICES ASSUME IInv, NEW i \in Ids, markedAt[i] >= 0,
                      now <= markedAt[i] + (TTL - 1) * Sub
               PROVE  ~ExpiredAt(i, now)
    BY DEF MarkKept
  <2> DEFINE m == markedAt[i]
             u == Unix(m)
  <2> USE ConstantsAssumption
  <2>1. m \in Nat /\ now \in Nat /\ db[i] \in Nat
    BY DEF IInv, TypeOK
  <2>2. u \in Nat /\ m < u * Sub + Sub
    BY <2>1, UnixNat, UnixBounds
  <2>3. (u + TTL) * Sub = u * Sub + Sub + (TTL - 1) * Sub
    BY <2>2
  <2>4. Promised(i) = u + TTL
    BY <2>1 DEF Promised, ExpiryOf
  <2>5. Promised(i) * Sub > now
    <3> HIDE DEF m, u
    <3>1. now <= m + (TTL - 1) * Sub
      BY DEF m
    <3> QED
      BY <2>1, <2>2, <2>3, <2>4, <3>1
  <2>6. db[i] = Promised(i)
    BY <2>1, <2>2, <2>4, <2>5 DEF IInv, DbAgrees
  <2> QED
    BY <2>1, <2>5, <2>6 DEF ExpiredAt
<1> QED
  BY <1>1, IInvAlways, PTL

\* Multiplication keeps the order of naturals.
LEMMA TimesMonotone ==
  ASSUME NEW k \in Nat, NEW m \in Nat, NEW s \in Nat, k <= m
  PROVE  k * s <= m * s
<1>1. PICK d \in Nat : m = k + d
  <2>1. m - k \in Nat /\ m = k + (m - k)
    OBVIOUS
  <2> QED
    BY <2>1
<1>2. d * s \in Nat /\ (k + d) * s = k * s + d * s
  OBVIOUS
<1> QED
  BY <1>1, <1>2

\* A cleanup that has succeeded moves lastCleanup by an interval at least, to a
\* second that is less than a second before the call that ran it.
LEMMA StampMoves ==
  ASSUME IInv, NEW p \in Procs, Stamp(p)
  PROVE  /\ lastCleanup' \in Nat
         /\ lastCleanup' >= lastCleanup + CleanupInterval
         /\ call[p].at < lastCleanup' * Sub + Sub
<1> USE ConstantsAssumption
<1>1. /\ call[p].at \in Nat /\ lastCleanup \in Nat
      /\ lastCleanup' = Unix(call[p].at)
  BY DEF Stamp, IInv, TypeOK, InCall, Calls
<1>2. call[p].at - lastCleanup * Sub >= CleanupInterval * Sub
  BY DEF Stamp, IInv, SweepDue, CleanupDue
<1>3. (lastCleanup + CleanupInterval) * Sub <= call[p].at
  BY <1>1, <1>2
<1>4. lastCleanup + CleanupInterval \in Int
  BY <1>1
<1>5. lastCleanup' >= lastCleanup + CleanupInterval
  BY <1>1, <1>3, <1>4, UnixMonotone
<1> QED
  BY <1>1, <1>5, UnixNat, UnixBounds

(***************************************************************************)
(* However many goroutines find the cleanup due, one runs it: a successful *)
(* cleanup moves lastCleanup by CleanupInterval at least.                  *)
(***************************************************************************)
THEOREM CadenceKept == Spec => CleanupCadence
<1> DEFINE A == \A p \in Procs : pc[p] = "stamp" /\ pc'[p] = "tx" =>
                    lastCleanup' >= lastCleanup + CleanupInterval
<1>1. IInv /\ [Next]_vars => [A]_vars
  <2> SUFFICES ASSUME IInv, Next, NEW p \in Procs,
                      pc[p] = "stamp", pc'[p] = "tx"
               PROVE  lastCleanup' >= lastCleanup + CleanupInterval
    OBVIOUS
  <2>1. Stamp(p)
    BY DEF Next, Step, Begin, Gate, Lock, Recheck, Sweep, SweepFails, Stamp,
           Lookup, Mark, TxFails, Return, Tick, Restart, IInv, TypeOK
  <2> QED
    BY <2>1, StampMoves
<1> QED
  BY <1>1, IInvAlways, PTL DEF Spec, CleanupCadence

(***************************************************************************)
(* A call that reads or writes the bucket has no overdue cleanup before    *)
(* it: the goroutines it may have waited for only move lastCleanup on.     *)
(***************************************************************************)
THEOREM OverdueRefused == Spec => []CleanupNotOverdue
<1> USE ConstantsAssumption
<1>1. Init => CleanupNotOverdue
  BY DEF Init, CleanupNotOverdue
<1>2. IInv /\ CleanupNotOverdue /\ [Next]_vars => CleanupNotOverdue'
  <2> SUFFICES ASSUME IInv, CleanupNotOverdue, [Next]_vars,
                      NEW q \in Procs, pc'[q] = "tx"
               PROVE  ~CleanupDue(q)'
    BY DEF CleanupNotOverdue
  <2> USE DEF CleanupNotOverdue, CleanupDue, IInv, TypeOK
  <2>1. ASSUME NEW p \in Procs, NEW op \in Ops, NEW i \in Ids, Begin(p, op, i)
        PROVE  ~CleanupDue(q)'
    BY <2>1 DEF Begin
  <2>2. ASSUME NEW p \in Procs, Gate(p) \/ Recheck(p)
        PROVE  ~CleanupDue(q)'
    BY <2>2 DEF Gate, Recheck
  <2>3. ASSUME NEW p \in Procs, Lock(p) \/ Sweep(p)
        PROVE  ~CleanupDue(q)'
    BY <2>3 DEF Lock, Sweep
  <2>4. ASSUME NEW p \in Procs, SweepFails(p) \/ Lookup(p) \/ Mark(p) \/ TxFails(p)
        PROVE  ~CleanupDue(q)'
    BY <2>4 DEF SweepFails, Lookup, Mark, TxFails, Return
  <2>5. ASSUME NEW p \in Procs, Stamp(p)
        PROVE  ~CleanupDue(q)'
    <3>1. /\ lastCleanup' \in Nat /\ lastCleanup \in Nat
          /\ lastCleanup' >= lastCleanup + CleanupInterval
          /\ call[p].at < lastCleanup' * Sub + Sub
          /\ call' = call
      BY <2>5, StampMoves DEF Stamp
    <3>2. pc[q] # "idle" => call[q].at \in Nat
      BY DEF InCall, Calls
    <3>3. CASE q = p
      <4>1. call[p].at \in Nat
        BY <2>5, <3>2, <3>3 DEF Stamp
      <4>2. Sub <= CleanupInterval * Sub
        OBVIOUS
      <4> QED
        BY <3>1, <3>3, <4>1, <4>2
    <3>4. CASE q # p
      <4>1. pc[q] = "tx" /\ call[q].at \in Nat
        BY <2>5, <3>2, <3>4 DEF Stamp
      <4>2. call[q].at - lastCleanup * Sub < CleanupInterval * Sub
        BY <3>1, <4>1
      <4>3. lastCleanup * Sub <= lastCleanup' * Sub
        <5>1. lastCleanup <= lastCleanup' /\ Sub \in Nat
          BY <3>1
        <5> QED
          BY <3>1, <5>1, TimesMonotone
      <4> QED
        BY <3>1, <4>1, <4>2, <4>3
    <3> QED
      BY <3>3, <3>4
  <2>6. CASE Tick \/ Restart \/ UNCHANGED vars
    BY <2>6 DEF Tick, Restart, vars
  <2> QED
    BY <2>1, <2>2, <2>3, <2>4, <2>5, <2>6 DEF Next, Step
<1> QED
  BY <1>1, <1>2, IInvAlways, PTL DEF Spec

(***************************************************************************)
(* The store implements the map that forgets nothing before its time: a    *)
(* lookup answers by the bucket what it would answer by the promises, and  *)
(* the cleanup is invisible.                                               *)
(***************************************************************************)
THEOREM ImplementsCache == Spec => CacheSpec
<1> USE DEF Cache!None, None, Cache!Ops, Ops
<1>1. Init => Cache!Init
  BY DEF Init, Cache!Init
<1>2. IInv /\ [Next]_vars => [Cache!Next]_(Cache!vars)
  <2> SUFFICES ASSUME IInv, [Next]_vars
               PROVE  [Cache!Next]_(Cache!vars)
    OBVIOUS
  <2> DEFINE promises == [i \in Ids |-> IF markedAt[i] < 0 THEN 0
                                        ELSE ExpiryOf(markedAt[i])]
  <2>1. ASSUME NEW p \in Procs, NEW op \in Ops, NEW i \in Ids, Begin(p, op, i)
        PROVE  Cache!Begin(p, op, i)
    BY <2>1 DEF Begin, Cache!Begin, IInv, InCall
  <2>2. ASSUME NEW p \in Procs, Lookup(p)
        PROVE  Cache!Lookup(p)
    <3> DEFINE i == call[p].id
    <3>1. i \in Ids /\ call[p] # None
      BY <2>2 DEF Lookup, IInv, InCall, Calls
    <3>2. promises[i] = Promised(i)
      BY <3>1 DEF Promised
    <3>3. promises[i] * Sub > now <=> ~ExpiredAt(i, now)
      <4>1. Promised(i) \in Nat /\ db[i] \in Nat /\ now \in Nat /\ Sub \in Nat
        BY <3>1, UnixNat, ConstantsAssumption
           DEF IInv, TypeOK, Promised, ExpiryOf
      <4>2. Promised(i) * Sub \in Nat /\ db[i] * Sub \in Nat
        BY <4>1
      <4>3. db[i] = Promised(i) \/ (db[i] * Sub = 0 /\ Promised(i) * Sub <= now)
        BY <3>1, <4>1 DEF IInv, DbAgrees
      <4> HIDE DEF promises
      <4> QED
        BY <3>2, <4>1, <4>2, <4>3 DEF ExpiredAt
    <3>4. promises' = promises /\ now' = now
      BY <2>2 DEF Lookup
    <3>5. Cache!Return(p, IF promises[i] * Sub > now THEN "seen" ELSE "fresh")
      BY <2>2, <3>3 DEF Lookup, Return, Cache!Return
    <3> QED
      BY <2>2, <3>1, <3>4, <3>5 DEF Lookup, Cache!Lookup
  <2>3. ASSUME NEW p \in Procs, Mark(p)
        PROVE  Cache!Mark(p)
    <3>1. call[p].id \in Ids /\ call[p] # None /\ call[p].at \in Nat
      BY <2>3 DEF Mark, IInv, InCall, Calls
    <3>2. promises' = [promises EXCEPT ![call[p].id] = (call[p].at \div Sub) + TTL]
      <4>1. ~(call[p].at < 0) /\ markedAt \in [Ids -> Int]
        BY <3>1 DEF IInv, TypeOK
      <4>2. markedAt' = [markedAt EXCEPT ![call[p].id] = call[p].at]
        BY <2>3 DEF Mark
      <4>3. ASSUME NEW i \in Ids
            PROVE  promises'[i] = IF i = call[p].id THEN (call[p].at \div Sub) + TTL
                                                    ELSE promises[i]
        BY <3>1, <4>1, <4>2 DEF ExpiryOf, Unix
      <4> QED
        BY <3>1, <4>3
    <3> QED
      BY <2>3, <3>1, <3>2 DEF Mark, Return, Cache!Mark, Cache!Return
  <2>4. ASSUME NEW p \in Procs, SweepFails(p) \/ TxFails(p)
        PROVE  Cache!Fail(p)
    <3>1. call[p] # None
      BY <2>4 DEF SweepFails, TxFails, IInv, InCall, Calls
    <3> QED
      BY <2>4, <3>1 DEF SweepFails, TxFails, Return, Cache!Fail, Cache!Return
  <2>5. ASSUME Tick PROVE Cache!Tick
    BY <2>5 DEF Tick, Cache!Tick
  <2>6. ASSUME Restart PROVE Cache!Restart
    BY <2>6 DEF Restart, Cache!Restart
  <2>7. ASSUME NEW p \in Procs,
               Gate(p) \/ Lock(p) \/ Recheck(p) \/ Sweep(p) \/ Stamp(p)
        PROVE  UNCHANGED Cache!vars
    BY <2>7 DEF Gate, Lock, Recheck, Sweep, Stamp, Cache!vars
  <2>8. CASE UNCHANGED vars
    BY <2>8 DEF vars, Cache!vars
  <2> QED
    BY <2>1, <2>2, <2>3, <2>4, <2>5, <2>6, <2>7, <2>8
       DEF Next, Step, Cache!Next
<1> QED
  BY <1>1, <1>2, IInvAlways, PTL DEF Spec, CacheSpec, Cache!Spec
=============================================================================
