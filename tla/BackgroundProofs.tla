-------------------------- MODULE BackgroundProofs --------------------------
(***************************************************************************)
(* Theorems about the loops the server runs in the background: the drains  *)
(* of the clean-up worker, for any number of workers and rows, any batch   *)
(* size, any rows that are broken and any failures, and the listener that  *)
(* wakes the long polls, for any number of transfers, polls, changes and   *)
(* lost connections.                                                       *)
(***************************************************************************)
EXTENDS CleanupDrain, TransferEvents, FiniteSetTheorems, WellFoundedInduction, TLAPS

(***************************************************************************)
(* The drains.                                                             *)
(***************************************************************************)

(* Every row due to w has been tried in vain or is in somebody's hands.    *)
Covered(w) == \A r \in Due(w) : r \in skipped \/ lock[r] # None

(* A batch with room to spare took all there was; a drain that ended with  *)
(* fewer failures than a batch holds ended with such a batch.              *)
DrainInv ==
  \A w \in Workers :
    /\ pc[w] = "batch" /\ Cardinality(Held(w)) < BatchSize => Covered(w)
    /\ pc[w] = "done" /\ Cardinality(failed[w]) < BatchSize => Covered(w)

(***************************************************************************)
(* LIMIT over ORDER BY: the first N of a finite set of numbers are all of   *)
(* them when they are fewer than N.                                         *)
(***************************************************************************)
LEMMA ShortBatchIsAll ==
  ASSUME NEW F, F \subseteq Nat, IsFiniteSet(F), NEW N \in Nat,
         NEW B, B = {r \in F : Cardinality({q \in F : q < r}) < N},
         Cardinality(B) < N
  PROVE  B = F
<1> SUFFICES ASSUME F \ B # {} PROVE FALSE
  OBVIOUS
<1> DEFINE R == OpToRel(<, Nat)
<1>1. IsWellFoundedOn(R, Nat)
  BY NatLessThanWellFounded
<1>2. \A y, x \in Nat : y < x => <<y, x>> \in R
  BY DEF OpToRel
<1> HIDE DEF R
<1>3. PICK x \in F \ B : \A y \in F \ B : ~(<<y, x>> \in R)
  <2>1. F \ B \subseteq Nat
    OBVIOUS
  <2>2. QED BY <1>1, <2>1, WFMin
<1> DEFINE smaller == {q \in F : q < x}
<1>4. smaller \subseteq B
  BY <1>2, <1>3
<1>5. IsFiniteSet(B)
  BY FS_Subset
<1>6. Cardinality(smaller) <= Cardinality(B) /\ Cardinality(smaller) \in Nat /\ Cardinality(B) \in Nat
  BY <1>4, <1>5, FS_Subset, FS_CardinalityType
<1>7. Cardinality(smaller) < N
  BY <1>6
<1>8. QED BY <1>3, <1>7

LEMMA DrainTypeInit == DrainInit => DrainTypeOK
BY DrainAssumption DEF DrainInit, DrainTypeOK

LEMMA DrainTypeNext == DrainTypeOK /\ [DrainNext]_drain => DrainTypeOK'
<1> SUFFICES ASSUME DrainTypeOK, [DrainNext]_drain PROVE DrainTypeOK'
  OBVIOUS
<1> USE DEF DrainTypeOK
<1>1. CASE Tick
  BY <1>1 DEF Tick
<1>2. ASSUME NEW w \in Workers, StartCycle(w) PROVE DrainTypeOK'
  BY <1>2 DEF StartCycle, Goto
<1>3. ASSUME NEW w \in Workers, SelectBatch(w) PROVE DrainTypeOK'
  BY <1>3 DEF SelectBatch, Goto
<1>4. ASSUME NEW w \in Workers, NEW bad \in SUBSET Held(w), CommitBatch(w, bad) PROVE DrainTypeOK'
  <2>1. Held(w) \subseteq Rows
    BY DEF Held
  <2>2. slips' \in 0 .. MaxSlips
    <3>1. IsFiniteSet(bad \ broken)
      BY <2>1, DrainAssumption, FS_Subset
    <3>2. Cardinality(bad \ broken) \in Nat
      BY <3>1, FS_CardinalityType
    <3>3. QED BY <1>4, <3>2, DrainAssumption DEF CommitBatch
  <2>3. lock' \in [Rows -> Workers \cup {None}]
    BY <1>4 DEF CommitBatch, Release
  <2>4. pc' \in [Workers -> {"idle", "drain", "batch", "done"}]
    BY <1>4 DEF CommitBatch, Goto
  <2>5. failed' \in [Workers -> SUBSET Rows]
    BY <1>4, <2>1 DEF CommitBatch
  <2>6. QED BY <1>4, <2>1, <2>2, <2>3, <2>4, <2>5 DEF CommitBatch
<1>5. ASSUME NEW w \in Workers, FailBatch(w) PROVE DrainTypeOK'
  <2>1. lock' \in [Rows -> Workers \cup {None}]
    BY <1>5 DEF FailBatch, Release
  <2>2. skipped' \subseteq Rows
    BY <1>5 DEF FailBatch, Held
  <2>3. errors' \in 0 .. MaxErrors
    BY <1>5, DrainAssumption DEF FailBatch
  <2>4. pc' \in [Workers -> {"idle", "drain", "batch", "done"}]
    BY <1>5 DEF FailBatch, Goto
  <2>5. QED BY <1>5, <2>1, <2>2, <2>3, <2>4 DEF FailBatch
<1>6. ASSUME NEW w \in Workers, EndCycle(w) PROVE DrainTypeOK'
  BY <1>6 DEF EndCycle, Goto
<1>7. CASE UNCHANGED drain
  BY <1>7 DEF drain
<1>8. QED BY <1>1, <1>2, <1>3, <1>4, <1>5, <1>6, <1>7 DEF DrainNext, Work

(* The rows a worker holds, and those it counts as failed, are finitely    *)
(* many.                                                                   *)
LEMMA Counts ==
  ASSUME DrainTypeOK, NEW S, S \subseteq Rows
  PROVE  IsFiniteSet(S) /\ Cardinality(S) \in Nat
BY DrainAssumption, FS_Subset, FS_CardinalityType

(* A row is let go only when it is removed or counted as skipped.          *)
Careful(v) ==
  /\ table' \subseteq table /\ skipped \subseteq skipped'
  /\ \A r \in Rows : lock'[r] # lock[r] =>
       \/ lock[r] = None /\ lock'[r] = v
       \/ lock[r] = v /\ lock'[r] = None /\ (r \in skipped' \/ r \notin table')

LEMMA CoveredStays ==
  ASSUME DrainTypeOK, NEW v \in Workers, Careful(v), NEW w \in Workers, now'[w] = now[w], Covered(w)
  PROVE  Covered(w)'
<1> SUFFICES ASSUME NEW r \in Rows, r \in table', r < now'[w], r \notin skipped' PROVE lock'[r] # None
  BY DEF Covered, Due, DrainTypeOK, Careful
<1>1. lock[r] # None
  BY DEF Covered, Due, Careful
<1>2. QED BY <1>1, DrainAssumption DEF Careful

LEMMA OthersHold ==
  ASSUME DrainTypeOK, NEW v \in Workers, Careful(v), NEW w \in Workers \ {v}
  PROVE  Held(w)' = Held(w)
BY DrainAssumption DEF Careful, Held

(* A step of v disturbs nobody else's part of the invariant.               *)
LEMMA OthersKeep ==
  ASSUME DrainTypeOK, DrainInv, NEW v \in Workers, Careful(v),
         \A w \in Workers \ {v} : pc'[w] = pc[w] /\ now'[w] = now[w] /\ failed'[w] = failed[w],
         /\ pc'[v] = "batch" /\ Cardinality(Held(v)') < BatchSize => Covered(v)'
         /\ pc'[v] = "done" /\ Cardinality(failed'[v]) < BatchSize => Covered(v)'
  PROVE  DrainInv'
<1>1. ASSUME NEW w \in Workers \ {v}
      PROVE  /\ pc'[w] = "batch" /\ Cardinality(Held(w)') < BatchSize => Covered(w)'
             /\ pc'[w] = "done" /\ Cardinality(failed'[w]) < BatchSize => Covered(w)'
  <2>1. Held(w)' = Held(w)
    BY OthersHold
  <2>2. Covered(w) => Covered(w)'
    BY CoveredStays
  <2>3. QED BY <2>1, <2>2 DEF DrainInv
<1>2. QED BY <1>1 DEF DrainInv

LEMMA DrainStep ==
  ASSUME DrainTypeOK, DrainInv, [DrainNext]_drain
  PROVE  DrainInv'
<1>1. CASE UNCHANGED drain
  BY <1>1 DEF drain, DrainInv, Covered, Due, Held
<1>2. CASE Tick
  BY <1>2 DEF Tick, DrainInv, Covered, Due, Held
<1>3. ASSUME NEW v \in Workers, StartCycle(v) \/ EndCycle(v) PROVE DrainInv'
  <2>1. Careful(v)
    BY <1>3 DEF StartCycle, EndCycle, Careful
  <2>2. /\ pc'[v] \in {"drain", "idle"}
        /\ \A w \in Workers \ {v} : pc'[w] = pc[w] /\ now'[w] = now[w] /\ failed'[w] = failed[w]
    BY <1>3 DEF StartCycle, EndCycle, Goto, DrainTypeOK
  <2>3. QED BY <2>1, <2>2, OthersKeep
<1>4. ASSUME NEW v \in Workers, SelectBatch(v) PROVE DrainInv'
  <2>1. /\ lock' = [r \in Rows |-> IF r \in Batch(v) THEN v ELSE lock[r]]
        /\ UNCHANGED <<table, now, failed, skipped>>
    BY <1>4 DEF SelectBatch
  <2>2. \A r \in Batch(v) : r \in Rows /\ lock[r] = None
    BY DEF Batch, Due, DrainTypeOK
  <2>3. Careful(v)
    BY <2>1, <2>2 DEF Careful, DrainTypeOK
  <2>4. pc'[v] = "batch" /\ \A w \in Workers \ {v} : pc'[w] = pc[w]
    BY <1>4 DEF SelectBatch, Goto, DrainTypeOK
  <2>5. ASSUME Cardinality(Held(v)') < BatchSize PROVE Covered(v)'
    <3> DEFINE free == {r \in Due(v) : lock[r] = None}
    <3>1. Batch(v) \subseteq Held(v)' /\ Held(v)' \subseteq Rows
      BY <2>1, <2>2 DEF Held
    <3>2. Cardinality(Batch(v)) < BatchSize
      <4>1. IsFiniteSet(Held(v)') /\ Cardinality(Held(v)') \in Nat
        BY <3>1, Counts
      <4>2. Cardinality(Batch(v)) <= Cardinality(Held(v)') /\ Cardinality(Batch(v)) \in Nat
        BY <3>1, <4>1, FS_Subset, FS_CardinalityType
      <4>3. QED BY <2>5, <4>1, <4>2, DrainAssumption
    <3>3. free \subseteq Nat /\ IsFiniteSet(free)
      <4>1. free \subseteq Rows
        BY DEF Due, DrainTypeOK
      <4>2. QED BY <4>1, Counts, DrainAssumption
    <3>4. Batch(v) = {r \in free : Cardinality({q \in free : q < r}) < BatchSize}
      BY DEF Batch
    <3> HIDE DEF free
    <3>5. Batch(v) = free
      BY <3>2, <3>3, <3>4, DrainAssumption, ShortBatchIsAll
    <3>6. \A r \in Due(v) : r \in Rows /\ (r \in Batch(v) \/ lock[r] # None)
      BY <3>5 DEF free, Due, DrainTypeOK
    <3>7. \A r \in Due(v) : lock'[r] # None
      BY <2>1, <3>6, DrainAssumption
    <3>8. QED BY <2>1, <3>7 DEF Covered, Due
  <2>6. QED BY <2>1, <2>3, <2>4, <2>5, OthersKeep
<1>5. ASSUME NEW v \in Workers, NEW bad \in SUBSET Held(v), CommitBatch(v, bad) PROVE DrainInv'
  <2>1. /\ table' = table \ (Held(v) \ bad) /\ skipped' = skipped \cup bad /\ now' = now
        /\ lock' = [r \in Rows |-> IF lock[r] = v THEN None ELSE lock[r]]
        /\ failed' = [failed EXCEPT ![v] = @ \cup bad]
        /\ pc[v] = "batch"
    BY <1>5 DEF CommitBatch, Release
  <2>2. Careful(v)
    BY <2>1 DEF Careful, Held
  <2>3. /\ pc'[v] \in {"drain", "done"}
        /\ \A w \in Workers \ {v} : pc'[w] = pc[w] /\ failed'[w] = failed[w]
        /\ pc'[v] = "done" => IsLast(Cardinality(Held(v)), Cardinality(Held(v) \ bad))
    BY <1>5, <2>1 DEF CommitBatch, Goto, DrainTypeOK
  <2>4. ASSUME pc'[v] = "done", Cardinality(failed'[v]) < BatchSize PROVE Covered(v)'
    <3>1. Held(v) \subseteq Rows /\ bad \subseteq failed'[v] /\ failed'[v] \subseteq Rows
      BY <2>1 DEF Held, DrainTypeOK
    <3>2. Cardinality(Held(v)) < BatchSize
      <4>1. CASE Cardinality(Held(v)) < BatchSize
        BY <4>1
      <4>2. CASE Cardinality(Held(v) \ bad) = 0
        <5>1. IsFiniteSet(Held(v) \ bad)
          BY <3>1, Counts
        <5>2. Held(v) \ bad = {}
          BY <4>2, <5>1, FS_EmptySet
        <5>3. Held(v) \subseteq failed'[v]
          BY <3>1, <5>2
        <5>4. IsFiniteSet(failed'[v]) /\ Cardinality(failed'[v]) \in Nat /\ Cardinality(Held(v)) \in Nat
          BY <3>1, Counts
        <5>5. Cardinality(Held(v)) <= Cardinality(failed'[v])
          BY <5>3, <5>4, FS_Subset
        <5>6. QED BY <2>4, <5>4, <5>5, DrainAssumption
      <4>3. QED BY <2>3, <2>4, <4>1, <4>2 DEF IsLast
    <3>3. Covered(v)
      BY <2>1, <3>2 DEF DrainInv
    <3>4. QED BY <2>1, <2>2, <3>3, CoveredStays
  <2>5. QED BY <2>1, <2>2, <2>3, <2>4, OthersKeep
<1>6. ASSUME NEW v \in Workers, FailBatch(v) PROVE DrainInv'
  <2>1. Careful(v)
    BY <1>6 DEF FailBatch, Release, Careful, Held
  <2>2. /\ pc'[v] = "idle"
        /\ \A w \in Workers \ {v} : pc'[w] = pc[w] /\ now'[w] = now[w] /\ failed'[w] = failed[w]
    BY <1>6 DEF FailBatch, Goto, DrainTypeOK
  <2>3. QED BY <2>1, <2>2, OthersKeep
<1>7. QED BY <1>1, <1>2, <1>3, <1>4, <1>5, <1>6 DEF DrainNext, Work

(***************************************************************************)
(* A few bad rows cannot stall the rest: a drain that ended in good order   *)
(* with fewer failed rows than a batch holds leaves behind no due row but   *)
(* those that were tried in vain and those another worker is at, for any    *)
(* number of replicas draining side by side.                                *)
(***************************************************************************)
THEOREM BadRowsDoNotStall == DrainSpec => []BacklogIsWorkedOff
<1>1. DrainInit => DrainInv
  BY DEF DrainInit, DrainInv
<1>2. DrainTypeOK /\ DrainInv /\ [DrainNext]_drain => DrainInv'
  BY DrainStep
<1>3. DrainInv => BacklogIsWorkedOff
  BY DEF DrainInv, Covered, BacklogIsWorkedOff
<1>4. QED BY <1>1, <1>2, <1>3, DrainTypeInit, DrainTypeNext, PTL DEF DrainSpec

-----------------------------------------------------------------------------
(***************************************************************************)
(* The listener and the polls.                                             *)
(***************************************************************************)

\* A poll between its subscription and its end is among the waiters of its
\* transfer, so whoever is woken for that transfer includes it.
Subscribed ==
  \A p \in Polls : poll[p] \in {"reading", "looked", "waiting"} => p \in waiters[TransferOf[p]]

\* NoLostWakeup is not inductive alone: wake and wakeAll reach a poll only
\* because it is subscribed.
WakeInv == EventsTypeOK /\ Subscribed /\ NoLostWakeup

\* What wakes a poll that missed its change.
OnItsWay(p) ==
  \/ p \in signal
  \/ \E i \in 1..Len(inbox) : inbox[i] = TransferOf[p]
  \/ listener # "waiting"

\* The types hold when the process starts.
LEMMA EventsTypeInit == EventsInit => EventsTypeOK
BY TransferEventsAssumption DEF EventsInit, EventsTypeOK

\* Every step keeps the types.
LEMMA EventsTypeStep == EventsTypeOK /\ [EventsNext]_events => EventsTypeOK'
<1> SUFFICES ASSUME EventsTypeOK, [EventsNext]_events PROVE EventsTypeOK'
  OBVIOUS
<1> USE TransferEventsAssumption DEF EventsTypeOK
<1>1. ASSUME NEW t \in Transfers, Change(t) PROVE EventsTypeOK'
  BY <1>1 DEF Change
<1>2. CASE Listen
  BY <1>2 DEF Listen
<1>3. CASE wakeAll
  BY <1>3 DEF wakeAll, Notify
<1>4. CASE wake
  BY <1>4 DEF wake, Notify
<1>5. CASE Drop
  BY <1>5 DEF Drop
<1>6. ASSUME NEW p \in Polls, Subscribe(p) PROVE EventsTypeOK'
  BY <1>6 DEF Subscribe
<1>7. ASSUME NEW p \in Polls, Read(p) PROVE EventsTypeOK'
  <2>1. poll' \in [Polls -> {"idle", "reading", "looked", "waiting", "done"}]
    BY <1>7 DEF Read
  <2>2. waiters' \in [Transfers -> SUBSET Polls]
    BY <1>7 DEF Read, Unsubscribe
  <2> QED
    BY <1>7, <2>1, <2>2 DEF Read
<1>8. ASSUME NEW p \in Polls, Wait(p) PROVE EventsTypeOK'
  BY <1>8 DEF Wait
<1>9. ASSUME NEW p \in Polls, Wakes(p) PROVE EventsTypeOK'
  BY <1>9 DEF Wakes
<1>10. ASSUME NEW p \in Polls, Recheck(p) PROVE EventsTypeOK'
  BY <1>10 DEF Recheck
<1>11. ASSUME NEW p \in Polls, Leave(p) PROVE EventsTypeOK'
  BY <1>11 DEF Leave, Unsubscribe
<1>12. CASE UNCHANGED events
  BY <1>12 DEF events
<1> QED
  BY <1>1, <1>2, <1>3, <1>4, <1>5, <1>6, <1>7, <1>8, <1>9, <1>10, <1>11, <1>12 DEF EventsNext

\* A poll leaves the waiters only when it ends.
LEMMA SubscribedStep == EventsTypeOK /\ Subscribed /\ [EventsNext]_events => Subscribed'
<1> SUFFICES ASSUME EventsTypeOK, Subscribed, [EventsNext]_events PROVE Subscribed'
  OBVIOUS
<1> USE TransferEventsAssumption DEF EventsTypeOK, Subscribed
<1>1. ASSUME NEW t \in Transfers, Change(t) PROVE Subscribed'
  BY <1>1 DEF Change
<1>2. CASE Listen \/ wakeAll \/ wake \/ Drop
  BY <1>2 DEF Listen, wakeAll, wake, Drop
<1>3. ASSUME NEW p \in Polls, Subscribe(p) PROVE Subscribed'
  BY <1>3 DEF Subscribe
<1>4. ASSUME NEW p \in Polls, Read(p) PROVE Subscribed'
  BY <1>4 DEF Read, Unsubscribe
<1>5. ASSUME NEW p \in Polls, Wait(p) \/ Wakes(p) \/ Recheck(p) PROVE Subscribed'
  BY <1>5 DEF Wait, Wakes, Recheck
<1>6. ASSUME NEW p \in Polls, Leave(p) PROVE Subscribed'
  BY <1>6 DEF Leave, Unsubscribe
<1>7. CASE UNCHANGED events
  BY <1>7 DEF events
<1> QED
  BY <1>1, <1>2, <1>3, <1>4, <1>5, <1>6, <1>7 DEF EventsNext

\* Every step leaves the wake-up of every poll on its way, or the poll awake.
LEMMA WakeupStep == WakeInv /\ [EventsNext]_events => NoLostWakeup'
<1> SUFFICES ASSUME WakeInv, [EventsNext]_events, NEW q \in Polls, Missed(q)'
             PROVE OnItsWay(q)'
  BY DEF NoLostWakeup, OnItsWay
<1> USE TransferEventsAssumption
<1>0. /\ EventsTypeOK
      /\ Missed(q) => OnItsWay(q)
      /\ poll[q] \in {"looked", "waiting"} => q \in waiters[TransferOf[q]]
      /\ TransferOf[q] \in Transfers
  BY DEF WakeInv, NoLostWakeup, OnItsWay, Subscribed
<1>1. ASSUME NEW t \in Transfers, Change(t) PROVE OnItsWay(q)'
  <2>1. CASE listener = "down"
    BY <1>1, <2>1 DEF Change, OnItsWay
  <2>2. CASE listener # "down" /\ t = TransferOf[q]
    <3>1. inbox' = Append(inbox, t) /\ inbox \in Seq(Transfers)
      BY <1>0, <1>1, <2>2 DEF Change, EventsTypeOK
    <3>2. Len(inbox) + 1 \in 1..Len(inbox') /\ inbox'[Len(inbox) + 1] = t
      BY <3>1
    <3> QED
      BY <2>2, <3>2 DEF OnItsWay
  <2>3. CASE listener # "down" /\ t # TransferOf[q]
    <3>1. Missed(q)
      BY <1>0, <1>1, <2>3 DEF Change, EventsTypeOK, Missed
    <3>2. inbox' = Append(inbox, t) /\ inbox \in Seq(Transfers)
      BY <1>0, <1>1, <2>3 DEF Change, EventsTypeOK
    <3>3. \A i \in 1..Len(inbox) : i \in 1..Len(inbox') /\ inbox'[i] = inbox[i]
      BY <3>2
    <3> QED
      BY <1>0, <1>1, <3>1, <3>3 DEF OnItsWay, Change
  <2> QED
    BY <2>1, <2>2, <2>3
<1>2. CASE Listen
  BY <1>2 DEF Listen, OnItsWay
<1>3. CASE wakeAll
  <2>1. q \in UNION {waiters[t] : t \in Transfers}
    BY <1>0, <1>3 DEF wakeAll, Missed
  <2> QED
    BY <1>3, <2>1 DEF wakeAll, Notify, OnItsWay
<1>4. CASE wake
  <2>1. Missed(q) /\ q \in waiters[TransferOf[q]]
    BY <1>0, <1>4 DEF wake, Missed
  <2>2. CASE q \in signal
    BY <1>4, <2>2 DEF wake, Notify, OnItsWay
  <2>3. ASSUME NEW i \in 1..Len(inbox), inbox[i] = TransferOf[q] PROVE OnItsWay(q)'
    <3>1. CASE i = 1
      BY <1>0, <1>4, <2>1, <2>3, <3>1 DEF wake, Notify, OnItsWay, EventsTypeOK
    <3>2. CASE i # 1
      <4>1. i - 1 \in 1..Len(inbox') /\ inbox'[i - 1] = inbox[i]
        BY <1>0, <1>4, <3>2 DEF wake, EventsTypeOK
      <4> QED
        BY <2>3, <4>1 DEF OnItsWay
    <3> QED
      BY <3>1, <3>2
  <2> QED
    BY <1>0, <1>4, <2>1, <2>2, <2>3 DEF OnItsWay, wake
<1>5. CASE Drop
  BY <1>5 DEF Drop, OnItsWay
<1>6. ASSUME NEW p \in Polls, Subscribe(p) \/ Recheck(p) \/ Wakes(p) \/ Leave(p)
      PROVE OnItsWay(q)'
  <2>1. q # p /\ Missed(q)
    BY <1>0, <1>6 DEF Subscribe, Recheck, Wakes, Leave, Missed, EventsTypeOK
  <2> QED
    BY <1>0, <1>6, <2>1 DEF Subscribe, Recheck, Wakes, Leave, OnItsWay
<1>7. ASSUME NEW p \in Polls, Read(p) PROVE OnItsWay(q)'
  <2>1. Missed(q)
    BY <1>0, <1>7 DEF Read, Missed, EventsTypeOK
  <2> QED
    BY <1>0, <1>7, <2>1 DEF Read, OnItsWay
<1>8. ASSUME NEW p \in Polls, Wait(p) PROVE OnItsWay(q)'
  <2>1. Missed(q)
    BY <1>0, <1>8 DEF Wait, Missed, EventsTypeOK
  <2> QED
    BY <1>0, <1>8, <2>1 DEF Wait, OnItsWay
<1>9. CASE UNCHANGED events
  BY <1>0, <1>9 DEF events, Missed, OnItsWay
<1> QED
  BY <1>1, <1>2, <1>3, <1>4, <1>5, <1>6, <1>7, <1>8, <1>9 DEF EventsNext

\* A poll that sleeps although the change it waits for has committed always
\* has its wake-up on the way, through lost connections and reconnects: the
\* subscription before the read, the buffered channel and wakeAll suffice.
THEOREM WakeupsAreKept == EventsSpec => []NoLostWakeup
<1>1. EventsInit => WakeInv
  <2>1. EventsInit => Subscribed /\ NoLostWakeup
    BY DEF EventsInit, Subscribed, NoLostWakeup, Missed
  <2> QED
    BY <2>1, EventsTypeInit DEF WakeInv
<1>2. WakeInv /\ [EventsNext]_events => WakeInv'
  BY EventsTypeStep, SubscribedStep, WakeupStep DEF WakeInv
<1>3. WakeInv => NoLostWakeup
  BY DEF WakeInv
<1> QED
  BY <1>1, <1>2, <1>3, PTL DEF EventsSpec
=============================================================================
