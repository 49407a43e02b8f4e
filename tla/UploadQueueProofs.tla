------------------------- MODULE UploadQueueProofs -------------------------
(***************************************************************************)
(* The browser's upload asks for the completion of whole bundles only, and *)
(* starts no request for a part once it has failed, for any number of      *)
(* parts, places, attempts and failures.                                   *)
(***************************************************************************)
EXTENDS UploadQueue, TLAPS

Before == {"start", "create"}
Filling == {"encrypt", "flush", "schedule"}
Ending == {"complete", "completing", "resolved"}

\* An attempt is made only while one is left.
AttemptsLeft ==
  /\ \A p \in Parts : task[p] = "backoff" => tries[p] < Attempts
  /\ pc \in Before \cup Filling \cup {"drain"} => completes = 0
  /\ pc = "complete" => completes < Attempts

\* The parts are scheduled in order: those before next have a task, and the
\* queue is drained when all of them have.
InOrder ==
  /\ \A p \in Parts : task[p] # "none" <=> p < next
  /\ pc \in Before => next = 1
  /\ pc \in Filling => next <= NumParts
  /\ pc \in Ending \cup {"drain"} => next = NumParts + 1

\* A task that has ended without a failure has stored its part.
SettledIsStored == \A p \in Parts : task[p] = "settled" /\ ~Failed => p \in stored

\* An upload that has failed is past its loop, and its queue is closed unless
\* it failed before there was one.
FailedIsClosed ==
  /\ error # "none" => /\ pc \in {"abort", "rejected"}
                       /\ aborted \/ \A p \in Parts : task[p] = "none"
  /\ pc = "abort" => aborted

\* CompletesWhole is not inductive alone: that nothing is missing when the
\* queue has drained rests on the order of the parts and on a failure that is
\* kept.
QueueInv ==
  TypeOK /\ AttemptsLeft /\ InOrder /\ SettledIsStored /\ FailedIsClosed /\ CompletesWhole

-----------------------------------------------------------------------------

\* The invariant holds when uploadMultipartBundle is called.
LEMMA QueueInit == Init => QueueInv
<1> SUFFICES ASSUME Init PROVE QueueInv
  OBVIOUS
<1> USE QueueAssumption DEF Init, Parts, Before, Filling, Ending
<1>1. TypeOK
  <2>1. 1 \in 1 .. NumParts + 1 /\ 0 \in 0 .. Attempts
    OBVIOUS
  <2>2. next \in 1 .. NumParts + 1 /\ completes \in 0 .. Attempts /\ stored \subseteq Parts
    BY <2>1
  <2>3. task \in [Parts -> {"none", "sent", "backoff", "settled"}]
    OBVIOUS
  <2>4. tries \in [Parts -> 0 .. Attempts]
    BY <2>1
  <2>5. losses \in 0 .. MaxLosses /\ refusals \in 0 .. MaxRefusals
    OBVIOUS
  <2> QED
    BY <2>2, <2>3, <2>4, <2>5 DEF TypeOK
<1>2. AttemptsLeft /\ InOrder /\ SettledIsStored /\ FailedIsClosed /\ CompletesWhole
  BY DEF AttemptsLeft, InOrder, SettledIsStored, FailedIsClosed, CompletesWhole
<1> QED
  BY <1>1, <1>2 DEF QueueInv

\* A step of the upload itself that changes neither tasks nor parts: what is
\* left to show is about where it goes.
LEMMA TasksUntouched ==
  ASSUME QueueInv, UNCHANGED <<next, task, tries, failure, stored>>,
         session' \in {"none", "pending", "completed", "aborted"},
         losses' \in 0 .. MaxLosses, refusals' \in 0 .. MaxRefusals,
         cancelled' \in BOOLEAN, aborted' \in BOOLEAN,
         completes' \in 0 .. Attempts,
         aborted /\ pc \notin Before => aborted',
         error' \in {"none", "create", "refused", "lost", "aborted", "cancelled", "changed",
                     "complete"},
         \/ pc' = pc /\ UNCHANGED <<completes, error>>
         \/ pc' \in {"create", "encrypt"} /\ pc \in Before /\ UNCHANGED <<completes, error>>
         \/ pc' \in {"flush", "schedule"} /\ pc \in Filling /\ UNCHANGED <<completes, error>>
         \/ pc' \in Ending /\ pc \in {"complete", "completing", "drain"} /\ UNCHANGED error
            /\ stored = Parts /\ (pc' = "complete" => completes' < Attempts)
         \/ pc' = "rejected" /\ pc \in Before
         \/ pc' = "abort" /\ aborted' = TRUE
         \/ pc' = "rejected" /\ pc = "abort"
  PROVE  QueueInv'
<1> USE QueueAssumption DEF Parts, Before, Filling, Ending
<1>0. TypeOK /\ AttemptsLeft /\ InOrder /\ SettledIsStored /\ FailedIsClosed /\ CompletesWhole
  BY DEF QueueInv
<1>1. TypeOK'
  BY <1>0 DEF TypeOK
<1>2. AttemptsLeft'
  BY <1>0 DEF TypeOK, AttemptsLeft
<1>3. InOrder'
  BY <1>0 DEF TypeOK, InOrder
<1>4. SettledIsStored'
  BY <1>0 DEF SettledIsStored, Failed
<1>5. FailedIsClosed'
  BY <1>0 DEF TypeOK, InOrder, FailedIsClosed
<1>6. CompletesWhole'
  BY <1>0 DEF CompletesWhole
<1> QED
  BY <1>1, <1>2, <1>3, <1>4, <1>5, <1>6 DEF QueueInv

\* When the queue has drained without a failure, every part is stored.
LEMMA DrainedIsWhole ==
  ASSUME QueueInv, pc = "drain", InFlight = {}, ~Failed
  PROVE  stored = Parts
<1> USE QueueAssumption DEF Parts
<1>1. TypeOK /\ InOrder /\ SettledIsStored
  BY DEF QueueInv
<1>2. \A p \in Parts : task[p] = "settled"
  <2> TAKE p \in Parts
  <2>1. task[p] # "none" /\ task[p] \notin {"sent", "backoff"}
    BY <1>1 DEF InOrder, TypeOK, Ending, InFlight
  <2> QED
    BY <1>1, <2>1 DEF TypeOK
<1> QED
  BY <1>1, <1>2 DEF SettledIsStored, TypeOK

\* The steps of uploadMultipartBundle but the scheduling of a part.
LEMMA UploadStep ==
  ASSUME QueueInv, Cancel \/ (Upload /\ ~Schedule)
  PROVE  QueueInv'
<1> USE QueueAssumption DEF server, faults
<1>0. TypeOK /\ AttemptsLeft /\ InOrder /\ FailedIsClosed /\ CompletesWhole
  BY DEF QueueInv
<1>1. CASE Cancel
  BY <1>0, <1>1, TasksUntouched DEF Cancel, TypeOK, FailedIsClosed
<1>2. CASE Start
  BY <1>0, <1>2, TasksUntouched DEF Start, Reject, TypeOK, Before, FailedIsClosed
<1>3. CASE CreateUploadSession
  BY <1>0, <1>3, TasksUntouched DEF CreateUploadSession, TypeOK, Before, FailedIsClosed
<1>4. CASE LoseCreate
  BY <1>0, <1>4, TasksUntouched DEF LoseCreate, Reject, Slip, TypeOK, Before
<1>5. CASE Encrypt
  BY <1>0, <1>5, TasksUntouched DEF Encrypt, Throw, Failed, TypeOK, Filling
<1>6. CASE Flush
  BY <1>0, <1>6, TasksUntouched DEF Flush, Throw, TypeOK, Filling
<1>7. CASE Drain
  <2>1. completes = 0 /\ 0 < Attempts
    BY <1>0, <1>7 DEF Drain, AttemptsLeft
  <2>2. pc' = "complete" => stored = Parts /\ UNCHANGED error
    BY <1>7, DrainedIsWhole DEF Drain, Throw
  <2>3. pc' \in {"abort", "complete"} /\ aborted' = TRUE /\ UNCHANGED completes
    BY <1>7 DEF Drain, Throw
  <2>4. error' \in {"none", "create", "refused", "lost", "aborted", "cancelled", "changed",
                    "complete"}
    BY <1>0, <1>7 DEF Drain, Throw, TypeOK
  <2> QED
    BY <1>0, <1>7, <2>1, <2>2, <2>3, <2>4, TasksUntouched DEF Drain, TypeOK, Ending
<1>8. CASE SendComplete
  <2>1. completes' \in 0 .. Attempts
    BY <1>0, <1>8 DEF SendComplete, TypeOK, AttemptsLeft
  <2>2. stored = Parts
    BY <1>0, <1>8 DEF SendComplete, CompletesWhole
  <2> QED
    BY <1>0, <1>8, <2>1, <2>2, TasksUntouched DEF SendComplete, Throw, TypeOK, Ending
<1>9. CASE CompleteAnswered
  BY <1>0, <1>9, TasksUntouched DEF CompleteAnswered, TypeOK, Ending, CompletesWhole
<1>10. CASE CompleteRefused
  BY <1>0, <1>10, TasksUntouched DEF CompleteRefused, Throw, Refusal, TypeOK
<1>11. CASE CompleteLost
  <2>1. losses' \in 0 .. MaxLosses /\ UNCHANGED refusals
    BY <1>0, <1>11 DEF CompleteLost, Slip, TypeOK
  <2>2. stored = Parts
    BY <1>0, <1>11 DEF CompleteLost, CompletesWhole
  <2>3. pc' = "complete" => completes < Attempts /\ UNCHANGED error
    BY <1>0, <1>11 DEF CompleteLost, Throw, TypeOK
  <2>4. /\ pc' \in {"abort", "complete"} /\ UNCHANGED completes
        /\ pc' = "abort" => aborted' = TRUE
        /\ error' \in {error, "complete"} /\ (UNCHANGED aborted \/ aborted' = TRUE)
    BY <1>11 DEF CompleteLost, Throw
  <2>5. session' \in {"none", "pending", "completed", "aborted"}
    BY <1>0, <1>11 DEF CompleteLost, TypeOK
  <2>6. pc = "completing" /\ UNCHANGED <<next, task, tries, failure, cancelled, stored>>
    BY <1>11 DEF CompleteLost
  <2>7. error' \in {"none", "create", "refused", "lost", "aborted", "cancelled", "changed",
                    "complete"}
    BY <1>0, <2>4 DEF TypeOK
  <2>8. /\ aborted' \in BOOLEAN /\ (aborted => aborted') /\ cancelled' \in BOOLEAN
        /\ completes' \in 0 .. Attempts /\ refusals' \in 0 .. MaxRefusals
    <3>1. aborted \in BOOLEAN /\ cancelled \in BOOLEAN
      BY <1>0 DEF TypeOK
    <3>2. aborted' \in BOOLEAN /\ (aborted => aborted') /\ cancelled' \in BOOLEAN
      BY <2>4, <2>6, <3>1, Zenon
    <3>3. completes' \in 0 .. Attempts /\ refusals' \in 0 .. MaxRefusals
      BY <1>0, <2>1, <2>4 DEF TypeOK
    <3> QED
      BY <3>2, <3>3
  <2>9. CASE pc' = "abort"
    BY <2>1, <2>4, <2>5, <2>6, <2>7, <2>8, <2>9, TasksUntouched
  <2>10. CASE pc' = "complete"
    <3>1. pc' \in Ending /\ pc \in {"complete", "completing", "drain"}
      BY <2>6, <2>10 DEF Ending
    <3>2. UNCHANGED error /\ stored = Parts /\ completes' < Attempts
      BY <2>2, <2>3, <2>4, <2>10
    <3> QED
      BY <2>1, <2>5, <2>6, <2>7, <2>8, <3>1, <3>2, TasksUntouched
  <2> QED
    BY <2>4, <2>9, <2>10
<1>12. CASE Abort
  BY <1>0, <1>12, TasksUntouched DEF Abort, Reject, Slip, TypeOK
<1> QED
  BY <1>1, <1>2, <1>3, <1>4, <1>5, <1>6, <1>7, <1>8, <1>9, <1>10, <1>11, <1>12 DEF Upload

\* A part is scheduled, or the queue is found to have failed.
LEMMA ScheduleStep ==
  ASSUME QueueInv, Schedule
  PROVE  QueueInv'
<1> USE QueueAssumption DEF Parts
<1>0. TypeOK /\ AttemptsLeft /\ InOrder /\ SettledIsStored /\ FailedIsClosed /\ CompletesWhole
  BY DEF QueueInv
<1>1. CASE Failed /\ Throw(failure) /\ UNCHANGED <<next, task, tries, failure>>
  BY <1>0, <1>1, TasksUntouched DEF Schedule, Throw, Failed, TypeOK, server, faults
<1>2. CASE ~Failed /\ next' = next + 1
  <2>0. /\ next \in Parts /\ task[next] = "none" /\ error = "none"
        /\ tries' = [tries EXCEPT ![next] = 1]
        /\ task' = [task EXCEPT ![next] = IF aborted THEN "settled" ELSE "sent"]
        /\ failure' = IF aborted THEN "cancelled" ELSE failure
        /\ pc' = IF next = NumParts THEN "drain" ELSE "encrypt"
        /\ UNCHANGED <<aborted, error, cancelled, completes, session, stored, losses, refusals>>
        /\ failure = "none"
    BY <1>0, <1>2 DEF Schedule, Failed, Throw, TypeOK, InOrder, FailedIsClosed, Filling,
       server, faults
  <2>1. TypeOK'
    BY <1>0, <1>2, <2>0 DEF TypeOK
  <2>2. AttemptsLeft'
    BY <1>0, <1>2, <2>0 DEF TypeOK, AttemptsLeft, Schedule, Before, Filling
  <2>3. InOrder'
    BY <1>0, <1>2, <2>0 DEF TypeOK, InOrder, Before, Filling, Ending
  <2>4. SettledIsStored'
    BY <1>0, <2>0 DEF TypeOK, SettledIsStored, Failed
  <2>5. FailedIsClosed' /\ CompletesWhole'
    BY <1>0, <2>0 DEF FailedIsClosed, CompletesWhole
  <2> QED
    BY <2>1, <2>2, <2>3, <2>4, <2>5 DEF QueueInv
<1> QED
  BY <1>1, <1>2 DEF Schedule

\* What the steps of one task have in common: the task goes on, or it ends
\* with its part stored or the queue failed.
LEMMA TaskMoves ==
  ASSUME QueueInv, NEW p \in Parts, task[p] \in {"sent", "backoff"},
         NEW to \in {"sent", "backoff", "settled"}, task' = [task EXCEPT ![p] = to],
         tries' \in [Parts -> 0 .. Attempts],
         \A q \in Parts : q # p => tries'[q] = tries[q],
         to = "backoff" => tries'[p] < Attempts,
         failure' \in {"none", "refused", "lost", "aborted", "cancelled"},
         Failed => Failed', to = "settled" => p \in stored' \/ Failed',
         stored' \in {stored, stored \cup {p}},
         aborted' \in BOOLEAN, aborted => aborted',
         losses' \in 0 .. MaxLosses, refusals' \in 0 .. MaxRefusals,
         UNCHANGED <<pc, next, cancelled, completes, error, session>>
  PROVE  QueueInv'
<1> USE QueueAssumption
<1>0. TypeOK /\ AttemptsLeft /\ InOrder /\ SettledIsStored /\ FailedIsClosed /\ CompletesWhole
  BY DEF QueueInv
<1>1. task' \in [Parts -> {"none", "sent", "backoff", "settled"}]
  BY <1>0 DEF TypeOK
<1>2. TypeOK'
  BY <1>0, <1>1 DEF TypeOK
<1>3. AttemptsLeft'
  BY <1>0 DEF TypeOK, AttemptsLeft
<1>4. InOrder'
  BY <1>0 DEF TypeOK, InOrder
<1>5. SettledIsStored'
  BY <1>0 DEF TypeOK, SettledIsStored
<1>6. FailedIsClosed'
  BY <1>0 DEF TypeOK, FailedIsClosed
<1>7. CompletesWhole'
  BY <1>0 DEF TypeOK, CompletesWhole
<1> QED
  BY <1>2, <1>3, <1>4, <1>5, <1>6, <1>7 DEF QueueInv

\* A task of the queue takes a step.
LEMMA TaskStep ==
  ASSUME QueueInv, NEW p \in Parts, Task(p)
  PROVE  QueueInv'
<1> USE QueueAssumption DEF server, faults
<1>0. TypeOK /\ AttemptsLeft
  BY DEF QueueInv
<1>1. CASE PartAnswered(p)
  BY <1>0, <1>1, TaskMoves DEF PartAnswered, Handles, Settle, Failed, TypeOK
<1>2. CASE PartRefused(p)
  <2>1. refusals' \in 0 .. MaxRefusals /\ UNCHANGED losses
    BY <1>0, <1>2 DEF PartRefused, Refusal, TypeOK
  <2> QED
    BY <1>0, <1>2, <2>1, TaskMoves DEF PartRefused, Fail, Failed, Settle, TypeOK
<1>3. CASE PartLost(p)
  <2>1. losses' \in 0 .. MaxLosses /\ UNCHANGED refusals
    BY <1>0, <1>3 DEF PartLost, Slip, TypeOK
  <2>2. stored' \in {stored, stored \cup {p}}
    BY <1>3 DEF PartLost, Handles
  <2>3. tries[p] # Attempts => tries[p] < Attempts
    BY <1>0 DEF TypeOK
  <2> QED
    BY <1>0, <1>3, <2>1, <2>2, <2>3, TaskMoves DEF PartLost, Fail, Failed, Settle, TypeOK
<1>4. CASE PartRetried(p)
  <2>1. tries' \in [Parts -> 0 .. Attempts] /\ \A q \in Parts : q # p => tries'[q] = tries[q]
    BY <1>0, <1>4 DEF PartRetried, TypeOK, AttemptsLeft
  <2> QED
    BY <1>0, <1>4, <2>1, TaskMoves DEF PartRetried, Failed, TypeOK
<1>5. CASE PartAborted(p)
  <2>1. stored' \in {stored, stored \cup {p}} /\ task[p] \in {"sent", "backoff"}
    BY <1>5 DEF PartAborted, Handles, InFlight
  <2> QED
    BY <1>0, <1>5, <2>1, TaskMoves DEF PartAborted, Fail, Failed, Settle, TypeOK
<1> QED
  BY <1>1, <1>2, <1>3, <1>4, <1>5 DEF Task

\* Every step keeps the invariant.
LEMMA QueueStep == QueueInv /\ [Next]_vars => QueueInv'
<1> SUFFICES ASSUME QueueInv, [Next]_vars PROVE QueueInv'
  OBVIOUS
<1>1. CASE Cancel \/ Upload
  BY <1>1, UploadStep, ScheduleStep
<1>2. ASSUME NEW p \in Parts, Task(p) PROVE QueueInv'
  BY <1>2, TaskStep
<1>3. CASE UNCHANGED vars
  BY <1>3 DEF vars, client, server, faults, QueueInv, TypeOK, AttemptsLeft, InOrder,
     SettledIsStored, FailedIsClosed, CompletesWhole, Failed
<1> QED
  BY <1>1, <1>2, <1>3 DEF Next, Finished

\* The invariant holds in every reachable state.
LEMMA QueueInvHolds == Spec => []QueueInv
BY QueueInit, QueueStep, PTL DEF Spec

-----------------------------------------------------------------------------

\* "a failed part can never go unnoticed" (UploadQueue): the browser asks for
\* the completion only when every part is stored, for any number of parts and
\* places, whichever tasks fail while the rest is encrypted.
THEOREM CompletionsAreWhole == Spec => []CompletesWhole
<1>1. QueueInv => CompletesWhole
  BY DEF QueueInv
<1> QED
  BY <1>1, QueueInvHolds, PTL

\* "parts still in flight are pointless" (encryptAndUploadParts): once the
\* upload has failed, no task starts or repeats the request for a part.
THEOREM NoRequestAfterTheAbort == Spec => NoPartAfterTheAbort
<1> DEFINE Quiet == (error # "none") => \A p \in Parts : task'[p] = "sent" => task[p] = "sent"
<1>1. QueueInv /\ [Next]_vars => [Quiet]_vars
  <2> SUFFICES ASSUME QueueInv, Next, error # "none", NEW p \in Parts, task'[p] = "sent"
               PROVE task[p] = "sent"
    BY DEF vars
  <2>0. TypeOK /\ FailedIsClosed
    BY DEF QueueInv
  <2>1. CASE Cancel \/ Finished \/ (Upload /\ ~Schedule)
    BY <2>1 DEF Cancel, Finished, Upload, Start, CreateUploadSession, LoseCreate, Encrypt, Flush,
       Drain, SendComplete, CompleteAnswered, CompleteRefused, CompleteLost, Abort, vars, client
  <2>2. CASE Schedule
    BY <2>0, <2>2 DEF Schedule, FailedIsClosed
  <2>3. ASSUME NEW q \in Parts, Task(q) PROVE task[p] = "sent"
    <3>1. CASE ~PartRetried(q)
      BY <2>0, <2>3, <3>1 DEF Task, PartAnswered, PartRefused, PartLost, PartAborted, Settle,
         TypeOK
    <3>2. CASE PartRetried(q)
      BY <2>0, <3>2 DEF PartRetried, FailedIsClosed
    <3> QED
      BY <3>1, <3>2
  <2> QED
    BY <2>1, <2>2, <2>3 DEF Next
<1> QED
  BY <1>1, QueueInvHolds, PTL DEF Spec, NoPartAfterTheAbort
=============================================================================
