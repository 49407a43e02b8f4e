---------------------------- MODULE UploadQueue ----------------------------
(***************************************************************************)
(* The browser's upload (web/frontend/src/lib/multipartBundleUpload.ts):   *)
(* uploadMultipartBundle encrypts the parts in order and hands each to an  *)
(* UploadQueue, whose tasks run concurrently with the encryption and with  *)
(* the user's cancel.  JavaScript runs one continuation at a time, so an   *)
(* action here is what runs between two awaits.                            *)
(*                                                                         *)
(* The server is what its answers tell the client: a session that is       *)
(* pending until it is completed or aborted, and the parts it stored.  A   *)
(* request whose answer is lost may have been handled or not; since a      *)
(* part or a completion that reaches an aborted session changes nothing,   *)
(* deciding that when it is lost stands for every later time too.          *)
(***************************************************************************)
EXTENDS Integers, FiniteSets

CONSTANTS
  NumParts,      \* parts of the planned bundle
  Concurrency,   \* MULTIPART_UPLOAD_CONCURRENCY
  Attempts,      \* MAX_TRANSIENT_ATTEMPTS
  MaxLosses,     \* bound: transient failures in a behaviour
  MaxRefusals,   \* bound: requests the server refuses for good
  FilesChange    \* whether a file may change while it is encrypted

ASSUME QueueAssumption ==
  /\ NumParts \in Nat \ {0} /\ Concurrency \in Nat \ {0} /\ Attempts \in Nat \ {0}
  /\ MaxLosses \in Nat /\ MaxRefusals \in Nat /\ FilesChange \in BOOLEAN

Parts == 1 .. NumParts

VARIABLES
  pc,          \* where uploadMultipartBundle is
  next,        \* partNumber: the part being encrypted
  task,        \* part -> "none", "sent", "backoff" or "settled"
  tries,       \* part -> its attempts so far
  failure,     \* UploadQueue.failure: the first error, or "none"
  aborted,     \* UploadQueue.controller.signal.aborted
  cancelled,   \* params.signal.aborted
  completes,   \* attempts of completeUploadSession so far
  error,       \* what the promise is rejected with, or "none"
  session,     \* the server's session: "none", "pending", "completed", "aborted"
  stored,      \* the parts the server has recorded
  losses, refusals

client == <<pc, next, task, tries, failure, aborted, cancelled, completes, error>>
server == <<session, stored>>
faults == <<losses, refusals>>
vars == <<client, server, faults>>

Init ==
  /\ pc = "start"
  /\ next = 1
  /\ task = [p \in Parts |-> "none"]
  /\ tries = [p \in Parts |-> 0]
  /\ failure = "none"
  /\ aborted = FALSE
  /\ cancelled = FALSE
  /\ completes = 0
  /\ error = "none"
  /\ session = "none"
  /\ stored = {}
  /\ losses = 0
  /\ refusals = 0

InFlight == {p \in Parts : task[p] \in {"sent", "backoff"}}
Returned == pc \in {"resolved", "rejected"}

Slip == losses < MaxLosses /\ losses' = losses + 1 /\ UNCHANGED refusals
Refusal == refusals < MaxRefusals /\ refusals' = refusals + 1 /\ UNCHANGED losses

-----------------------------------------------------------------------------
(* The user *)

\* The queue listens to the cancel signal from its construction on.
Cancel ==
  /\ ~Returned /\ ~cancelled
  /\ cancelled' = TRUE
  /\ aborted' = (aborted \/ pc \notin {"start", "create"})
  /\ UNCHANGED <<pc, next, task, tries, failure, completes, error, server, faults>>

-----------------------------------------------------------------------------
(* uploadMultipartBundle *)

Reject(e) ==
  /\ pc' = "rejected"
  /\ error' = e

\* throwIfCancelled, before there is a session.
Start ==
  /\ pc = "start"
  /\ IF cancelled THEN Reject("cancelled") ELSE pc' = "create" /\ UNCHANGED error
  /\ UNCHANGED <<next, task, tries, failure, aborted, cancelled, completes, server, faults>>

\* createUploadSession is tried once; the queue is built with the cancel
\* signal as it stands by then.
CreateUploadSession ==
  /\ pc = "create"
  /\ session' = "pending"
  /\ pc' = "encrypt"
  /\ aborted' = cancelled
  /\ UNCHANGED <<next, task, tries, failure, cancelled, completes, error, stored, faults>>

\* The request or its answer is lost: nothing is there to abort.
LoseCreate ==
  /\ pc = "create"
  /\ Slip
  /\ session' \in {"none", "pending"}
  /\ Reject("create")
  /\ UNCHANGED <<next, task, tries, failure, aborted, cancelled, completes, stored>>

\* Mutant: a failure leaves the queue open.
ThrowLeavingOpen(e) ==
  /\ pc' = "abort"
  /\ error' = e
  /\ UNCHANGED aborted

\* An error on the way: the queue is closed and the session aborted.
Throw(e) ==
  /\ pc' = "abort"
  /\ error' = e
  /\ aborted' = TRUE

Failed == failure # "none"

\* The records of the next part are read and encrypted; a cancelled or
\* failed upload stops here, and so does a file that changed.
Encrypt ==
  /\ pc = "encrypt"
  /\ \/ cancelled /\ Throw("cancelled")
     \/ ~cancelled /\ Failed /\ Throw(failure)
     \/ ~cancelled /\ ~Failed /\ FilesChange /\ Throw("changed")
     \/ ~cancelled /\ ~Failed /\ pc' = "flush" /\ UNCHANGED <<aborted, error>>
  /\ UNCHANGED <<next, task, tries, failure, cancelled, completes, server, faults>>

\* flushPart, after it has hashed the part: throwIfCancelled.
Flush ==
  /\ pc = "flush"
  /\ IF cancelled THEN Throw("cancelled") ELSE pc' = "schedule" /\ UNCHANGED <<aborted, error>>
  /\ UNCHANGED <<next, task, tries, failure, cancelled, completes, server, faults>>

\* UploadQueue.schedule: fails with the queue, or waits for a place.  The
\* task's first attempt runs at once, and finds the queue aborted if the
\* user cancelled meanwhile.
Schedule ==
  /\ pc = "schedule"
  /\ \/ /\ Failed
        /\ Throw(failure)
        /\ UNCHANGED <<next, task, tries, failure>>
     \/ /\ ~Failed /\ Cardinality(InFlight) < Concurrency
        /\ next' = next + 1
        /\ pc' = IF next = NumParts THEN "drain" ELSE "encrypt"
        /\ tries' = [tries EXCEPT ![next] = 1]
        /\ task' = [task EXCEPT ![next] = IF aborted THEN "settled" ELSE "sent"]
        /\ failure' = IF aborted THEN "cancelled" ELSE failure
        /\ UNCHANGED <<aborted, error>>
  /\ UNCHANGED <<cancelled, completes, server, faults>>

\* Mutant: the caller does not look for a failure after the wait.
DrainQuietly ==
  /\ pc = "drain" /\ InFlight = {}
  /\ IF cancelled THEN Throw("cancelled")
     ELSE pc' = "complete" /\ aborted' = TRUE /\ UNCHANGED error
  /\ UNCHANGED <<next, task, tries, failure, cancelled, completes, server, faults>>

\* UploadQueue.drain, close, and throwIfCancelled before the completion.
Drain ==
  /\ pc = "drain" /\ InFlight = {}
  /\ \/ Failed /\ Throw(failure)
     \/ ~Failed /\ cancelled /\ Throw("cancelled")
     \/ ~Failed /\ ~cancelled /\ pc' = "complete" /\ aborted' = TRUE /\ UNCHANGED error
  /\ UNCHANGED <<next, task, tries, failure, cancelled, completes, server, faults>>

\* withTransientRetry around completeUploadSession: the cancel is looked at
\* before an attempt and while it waits for the next, not during one.
SendComplete ==
  /\ pc = "complete"
  /\ IF cancelled
     THEN Throw("cancelled") /\ UNCHANGED completes
     ELSE pc' = "completing" /\ completes' = completes + 1 /\ UNCHANGED <<aborted, error>>
  /\ UNCHANGED <<next, task, tries, failure, cancelled, server, faults>>

CanComplete == session = "completed" \/ (session = "pending" /\ stored = Parts)

CompleteAnswered ==
  /\ pc = "completing"
  /\ CanComplete
  /\ session' = "completed"
  /\ pc' = "resolved"
  /\ UNCHANGED <<next, task, tries, failure, aborted, cancelled, completes, error, stored, faults>>

CompleteRefused ==
  /\ pc = "completing"
  /\ IF CanComplete THEN Refusal ELSE UNCHANGED faults
  /\ Throw("complete")
  /\ UNCHANGED <<next, task, tries, failure, cancelled, completes, server>>

CompleteLost ==
  /\ pc = "completing"
  /\ Slip
  /\ session' \in {session} \cup (IF CanComplete THEN {"completed"} ELSE {})
  /\ IF completes = Attempts
     THEN Throw("complete")
     ELSE pc' = "complete" /\ UNCHANGED <<aborted, error>>
  /\ UNCHANGED <<next, task, tries, failure, cancelled, completes, stored>>

\* abortQuietly: one attempt, whatever comes of it; a cancelled upload
\* reports the cancel.
Abort ==
  /\ pc = "abort"
  /\ \/ session' = (IF session = "pending" THEN "aborted" ELSE session) /\ UNCHANGED faults
     \/ UNCHANGED session /\ Slip
  /\ Reject(IF cancelled THEN "cancelled" ELSE error)
  /\ UNCHANGED <<next, task, tries, failure, aborted, cancelled, completes, stored>>

-----------------------------------------------------------------------------
(* The queue's tasks *)

\* UploadQueue.fail: the first failure is kept and aborts the rest.
Fail(e) ==
  /\ failure' = IF Failed THEN failure ELSE e
  /\ aborted' = TRUE

\* Mutant: only a task that succeeds leaves its place.
SettleWhenStored(p) == task' = IF p \in stored' THEN [task EXCEPT ![p] = "settled"] ELSE task

\* The promise settles and leaves the queue.
Settle(p) == task' = [task EXCEPT ![p] = "settled"]

\* The server stores the part of a session that is pending.
Handles(p) == IF session = "pending" THEN stored \cup {p} ELSE stored

PartAnswered(p) ==
  /\ task[p] = "sent" /\ ~aborted /\ session = "pending"
  /\ stored' = Handles(p)
  /\ Settle(p)
  /\ UNCHANGED <<pc, next, tries, failure, aborted, cancelled, completes, error, session, faults>>

\* A client error is final.
PartRefused(p) ==
  /\ task[p] = "sent" /\ ~aborted
  /\ Refusal
  /\ Fail("refused")
  /\ UNCHANGED stored
  /\ Settle(p)
  /\ UNCHANGED <<pc, next, tries, cancelled, completes, error, session>>

\* A network failure, a server error or a rate limit: another attempt, after
\* a delay, unless this was the last.
PartLost(p) ==
  /\ task[p] = "sent" /\ ~aborted
  /\ Slip
  /\ stored' \in {stored, Handles(p)}
  /\ IF tries[p] = Attempts
     THEN Fail("lost") /\ Settle(p)
     ELSE task' = [task EXCEPT ![p] = "backoff"] /\ UNCHANGED <<failure, aborted>>
  /\ UNCHANGED <<pc, next, tries, cancelled, completes, error, session>>

\* The delay ends and the request is sent again.
PartRetried(p) ==
  /\ task[p] = "backoff" /\ ~aborted
  /\ tries' = [tries EXCEPT ![p] = @ + 1]
  /\ task' = [task EXCEPT ![p] = "sent"]
  /\ UNCHANGED <<pc, next, failure, aborted, cancelled, completes, error, server, faults>>

\* The queue's signal ends a fetch or a delay; what was sent may still reach
\* the server.
PartAborted(p) ==
  /\ p \in InFlight /\ aborted
  /\ stored' \in {stored} \cup (IF task[p] = "sent" THEN {Handles(p)} ELSE {})
  /\ Fail("aborted")
  /\ Settle(p)
  /\ UNCHANGED <<pc, next, tries, cancelled, completes, error, session, faults>>

-----------------------------------------------------------------------------
Upload ==
  \/ Start \/ CreateUploadSession \/ LoseCreate \/ Encrypt \/ Flush \/ Schedule \/ Drain
  \/ SendComplete \/ CompleteAnswered \/ CompleteRefused \/ CompleteLost \/ Abort

Task(p) ==
  PartAnswered(p) \/ PartRefused(p) \/ PartLost(p) \/ PartRetried(p) \/ PartAborted(p)

\* The promise has settled and so has every task.
Finished == Returned /\ InFlight = {} /\ UNCHANGED vars

Next == Cancel \/ Upload \/ (\E p \in Parts : Task(p)) \/ Finished

Spec == Init /\ [][Next]_vars

\* The event loop runs what can run; every request is answered or fails.
Fairness == WF_vars(Upload) /\ \A p \in Parts : WF_vars(Task(p))

FairSpec == Spec /\ Fairness

-----------------------------------------------------------------------------
(* Properties *)

TypeOK ==
  /\ pc \in {"start", "create", "encrypt", "flush", "schedule", "drain", "complete",
             "completing", "abort", "resolved", "rejected"}
  /\ next \in 1 .. NumParts + 1
  /\ task \in [Parts -> {"none", "sent", "backoff", "settled"}]
  /\ tries \in [Parts -> 0 .. Attempts]
  /\ failure \in {"none", "refused", "lost", "aborted", "cancelled"}
  /\ aborted \in BOOLEAN /\ cancelled \in BOOLEAN
  /\ completes \in 0 .. Attempts
  /\ error \in {"none", "create", "refused", "lost", "aborted", "cancelled", "changed", "complete"}
  /\ session \in {"none", "pending", "completed", "aborted"}
  /\ stored \subseteq Parts
  /\ losses \in 0 .. MaxLosses /\ refusals \in 0 .. MaxRefusals

(***************************************************************************)
(* "a failed part can never go unnoticed" (UploadQueue): the completion is *)
(* asked for only when every part has been stored, in whatever order the   *)
(* tasks end and whichever of them fail while the rest is encrypted.       *)
(***************************************************************************)
CompletesWhole == pc \in {"complete", "completing", "resolved"} => stored = Parts

(***************************************************************************)
(* "parts still in flight are pointless" (encryptAndUploadParts): from the *)
(* abort of the session on, no task sends a part any more, whether it was  *)
(* waiting to retry or about to start.                                     *)
(***************************************************************************)
NoPartAfterTheAbort ==
  [][(error # "none") => \A p \in Parts : task'[p] = "sent" => task[p] = "sent"]_vars

(***************************************************************************)
(* The upload settles, with its tasks, whichever part fails first and      *)
(* whenever the user cancels: nobody waits for a place, a task or a delay  *)
(* that never ends.                                                        *)
(***************************************************************************)
UploadSettles == <>[](Returned /\ InFlight = {})

(***************************************************************************)
(* "Cancels the upload; the server session is aborted"                     *)
(* (MultipartBundleUploadParams.signal): an upload rejected as cancelled   *)
(* was not published.                                                      *)
(***************************************************************************)
CancelledIsNotPublished == pc = "rejected" /\ error = "cancelled" => session # "completed"
=============================================================================
