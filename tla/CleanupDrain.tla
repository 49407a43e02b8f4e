---------------------------- MODULE CleanupDrain ----------------------------
(***************************************************************************)
(* How the cleanup workers of several replicas work off a backlog, batch   *)
(* by batch (drainBatches in internal/cleanup/worker.go, over              *)
(* SecretRepo.DeleteExpired and SecretRepo.AbortExpiredUploadSessions,     *)
(* which share this shape).  Secrets and Uploads model what one batch does *)
(* to one row and its object; here the rows are many and what matters is   *)
(* which ones a batch sees: the oldest BatchSize that are due by the       *)
(* cycle's own time and that no other worker has locked.  A row whose      *)
(* storage call fails stays, and is in front again in the next batch.      *)
(***************************************************************************)
EXTENDS Integers, FiniteSets

CONSTANTS
  Workers,      \* the replicas' cleanup workers
  Rows,         \* 1 .. n: a row is due at the time that is its number
  BatchSize,    \* batchSize
  BadSets,      \* the rows that may be broken together
  MaxSlips,     \* bound: storage calls of other rows that fail once
  MaxErrors,    \* bound: batches that end in an error and roll back
  None

ASSUME DrainAssumption ==
  /\ Rows \subseteq Nat /\ IsFiniteSet(Rows)
  /\ BatchSize \in Nat \ {0}
  /\ BadSets \subseteq SUBSET Rows
  /\ {MaxSlips, MaxErrors} \subseteq Nat
  /\ None \notin Workers

VARIABLES
  table,    \* the rows still there
  lock,     \* row -> the worker whose transaction holds it, or None
  clock,    \* the time: rows below it are due
  pc,       \* worker -> "idle", "drain", "batch" or "done"
  now,      \* worker -> runCycle's now, fixed for the cycle
  broken,   \* rows whose storage call never succeeds
  failed,   \* worker -> rows whose storage call failed in this drain
  skipped,  \* rows released unremoved by their last holder (history)
  slips, errors

drain == <<broken, table, lock, clock, pc, now, failed, skipped, slips, errors>>

DrainInit ==
  /\ broken \in BadSets
  /\ table = Rows
  /\ lock = [r \in Rows |-> None]
  /\ clock = 1
  /\ pc = [w \in Workers |-> "idle"]
  /\ now = [w \in Workers |-> 0]
  /\ failed = [w \in Workers |-> {}]
  /\ skipped = {}
  /\ slips = 0
  /\ errors = 0

Goto(w, l) == pc' = [pc EXCEPT ![w] = l]

Held(w) == {r \in Rows : lock[r] = w}

Release(w) == lock' = [r \in Rows |-> IF lock[r] = w THEN None ELSE lock[r]]

\* Expiry times pass; the last row becomes due at the last tick.
Tick ==
  /\ \E r \in Rows : clock <= r
  /\ clock' = clock + 1
  /\ UNCHANGED <<broken, table, lock, pc, now, failed, skipped, slips, errors>>

\* runCycle: the time is read once.
StartCycle(w) ==
  /\ pc[w] = "idle"
  /\ Goto(w, "drain")
  /\ now' = [now EXCEPT ![w] = clock]
  /\ failed' = [failed EXCEPT ![w] = {}]
  /\ UNCHANGED <<broken, table, lock, clock, skipped, slips, errors>>

Due(w) == {r \in table : r < now[w]}

\* Mutant: the limit is applied before locked rows are skipped.
BatchThenSkip(w) ==
  {r \in Due(w) : lock[r] = None /\ Cardinality({q \in Due(w) : q < r}) < BatchSize}

\* ORDER BY expires_at LIMIT batchSize FOR UPDATE SKIP LOCKED.
Batch(w) ==
  LET free == {r \in Due(w) : lock[r] = None}
  IN  {r \in free : Cardinality({q \in free : q < r}) < BatchSize}

\* The transaction begins and locks its batch.
SelectBatch(w) ==
  /\ pc[w] = "drain"
  /\ lock' = [r \in Rows |-> IF r \in Batch(w) THEN w ELSE lock[r]]
  /\ Goto(w, "batch")
  /\ UNCHANGED <<broken, table, clock, now, failed, skipped, slips, errors>>

\* Mutant: drainBatches stops only at a short batch.
IsLastWhenShort(found, removed) == found < BatchSize

\* The batch after which drainBatches stops.
IsLast(found, removed) == found < BatchSize \/ removed = 0

\* The storage callbacks run, those of bad calls fail; what they let pass is
\* removed in one statement, and the transaction commits.
CommitBatch(w, bad) ==
  /\ pc[w] = "batch"
  /\ bad \subseteq Held(w)
  /\ Held(w) \cap broken \subseteq bad
  /\ slips' = slips + Cardinality(bad \ broken)
  /\ slips' <= MaxSlips
  /\ table' = table \ (Held(w) \ bad)
  /\ failed' = [failed EXCEPT ![w] = @ \cup bad]
  /\ skipped' = skipped \cup bad
  /\ Release(w)
  /\ Goto(w, IF IsLast(Cardinality(Held(w)), Cardinality(Held(w) \ bad))
             THEN "done" ELSE "drain")
  /\ UNCHANGED <<broken, clock, now, errors>>

\* A statement, the commit, the cycle's timeout or the process fails: the
\* transaction rolls back, and drainBatches returns the error.  The batches
\* before it stay committed.
FailBatch(w) ==
  /\ pc[w] = "batch"
  /\ errors < MaxErrors
  /\ errors' = errors + 1
  /\ skipped' = skipped \cup Held(w)
  /\ Release(w)
  /\ Goto(w, "idle")
  /\ UNCHANGED <<broken, table, clock, now, failed, slips>>

\* The worker waits for the next tick of its interval.
EndCycle(w) ==
  /\ pc[w] = "done"
  /\ Goto(w, "idle")
  /\ UNCHANGED <<broken, table, lock, clock, now, failed, skipped, slips, errors>>

Work(w) ==
  \/ StartCycle(w) \/ SelectBatch(w) \/ FailBatch(w) \/ EndCycle(w)
  \/ \E bad \in SUBSET Held(w) : CommitBatch(w, bad)

DrainNext == Tick \/ \E w \in Workers : Work(w)

DrainSpec == DrainInit /\ [][DrainNext]_drain

\* Time passes, Run starts a cycle at every tick, and a batch ends: its
\* storage calls and statements answer or fail.
Fairness == WF_drain(Tick) /\ \A w \in Workers : WF_drain(Work(w))

FairDrain == DrainSpec /\ Fairness

-----------------------------------------------------------------------------
(* Properties *)

DrainTypeOK ==
  /\ table \subseteq Rows
  /\ lock \in [Rows -> Workers \cup {None}]
  /\ clock \in Nat
  /\ pc \in [Workers -> {"idle", "drain", "batch", "done"}]
  /\ now \in [Workers -> Nat]
  /\ broken \subseteq Rows
  /\ failed \in [Workers -> SUBSET Rows]
  /\ skipped \subseteq Rows
  /\ slips \in 0 .. MaxSlips
  /\ errors \in 0 .. MaxErrors

(***************************************************************************)
(* "Rows that fail are picked up again by the next batch alongside new     *)
(* ones, so a few bad rows cannot stall the rest": a worker whose drain    *)
(* ended in good order, with fewer rows that failed than a batch holds,    *)
(* leaves behind no due row but those somebody tried and could not remove  *)
(* and those another worker is at.                                         *)
(***************************************************************************)
BacklogIsWorkedOff ==
  \A w \in Workers :
    pc[w] = "done" /\ Cardinality(failed[w]) < BatchSize
      => \A r \in Due(w) : r \in skipped \/ lock[r] # None

(***************************************************************************)
(* "Every batch either removes a row or ends the loop, and the set of due  *)
(* rows is fixed by now, so it ends": no cycle drains for ever, even when  *)
(* whole batches keep failing.                                             *)
(***************************************************************************)
DrainEnds == \A w \in Workers : pc[w] = "drain" ~> pc[w] \in {"done", "idle"}
=============================================================================
