------------------------------- MODULE Uploads -------------------------------
(***************************************************************************)
(* Multipart upload of a secret: the handlers of upload_handler.go, the    *)
(* repository they call (secret_repo.go), the sweep of expired sessions    *)
(* (cleanup/worker.go) and the object store they share (s3/client.go).     *)
(*                                                                         *)
(* A request is a process whose steps are the calls that leave it: every   *)
(* S3 call, every database statement outside a transaction, and every      *)
(* database transaction or the parts of it between two S3 calls.  What a   *)
(* request computes between two calls belongs to the step before.  A row   *)
(* lock is held from SELECT ... FOR UPDATE to the end of the transaction.  *)
(*                                                                         *)
(* Every upload writes to a storage key of its own (domain/storage.go), so *)
(* a session names its key, its multipart upload and its object too.       *)
(***************************************************************************)
EXTENDS Naturals, FiniteSets

CONSTANTS
  Sessions,    \* upload sessions: random IDs, each also names its object key
  PublicIDs,   \* public IDs of secrets
  PublicIDOf,  \* the public ID each session uploads for
  Parts,       \* part numbers of a valid layout
  Contents,    \* contents of a part; equal contents have equal ETags
  Requests,    \* requests in flight, over all server replicas
  Workers,     \* cleanup workers, one per server replica
  Faults,      \* the kinds of failed calls that may happen
  CrashAt,     \* the steps before which a process may die
  MaxFaults,   \* bound: failures of all kinds in one behaviour
  None

FaultKinds == {"storage", "reclaim", "statement", "commit", "connection"}

Steps == {"idle", "exists", "insert", "undo",
          "list", "store", "find", "record",
          "lock", "assemble", "publish", "clear", "discard", "remove",
          "cancel", "mark"}

ASSUME UploadsAssumption ==
  /\ PublicIDOf \in [Sessions -> PublicIDs]
  /\ None \notin Sessions \cup Requests \cup Workers \cup Contents
  /\ None \notin [Parts -> Contents]
  /\ Requests \cap Workers = {}
  /\ Faults \subseteq FaultKinds
  /\ CrashAt \subseteq Steps \cup {"sweep"}
  /\ MaxFaults \in Nat

VARIABLES
  \* PostgreSQL
  state,     \* upload_sessions.state, "none" before and "purged" after the row
  expired,   \* the sessions with upload_expires_at in the past
  parts,     \* upload_parts: the content recorded for each part, or None
  secrets,   \* secrets: the session whose object the row points to, or None
  lock,      \* who holds the upload_sessions row FOR UPDATE, or None
  \* S3
  open,      \* multipart uploads that are neither completed nor aborted
  staged,    \* what an open upload holds for each part, or None
  objects,   \* the assembled object under the session's key, or None
  \* the server processes
  pc,        \* the next step of each request
  ctx,       \* what the request has read: session, part, content, ETags
  sweep,     \* the cleanup workers' batch of expired sessions
  \* history
  told,      \* definite answers clients were given
  acked,     \* parts clients were told are recorded
  faults     \* failures so far

db == <<state, expired, parts, secrets, lock>>
s3 == <<open, staged, objects>>
told_ == <<told, acked>>
vars == <<db, s3, pc, ctx, sweep, told_, faults>>

NoParts == [n \in Parts |-> None]
Ctx(s, n, c) == [s |-> s, n |-> n, c |-> c, etags |-> NoParts, why |-> "error"]
IdleCtx == Ctx(None, None, None)
IdleSweep == [pc |-> "idle", todo |-> {}, at |-> None, swept |-> {}]

PartContents == [Parts -> Contents \cup {None}]
Contexts == [s : Sessions \cup {None}, n : Parts \cup {None}, c : Contents \cup {None},
             etags : PartContents, why : {"gone", "error"}]
Batches == [pc : {"idle", "batch"}, todo : SUBSET Sessions,
            at : Sessions \cup {None}, swept : SUBSET Sessions]

TypeOK ==
  /\ state \in [Sessions -> {"none", "pending", "completed", "aborted", "purged"}]
  /\ expired \in SUBSET Sessions
  /\ parts \in [Sessions -> PartContents]
  /\ secrets \in [PublicIDs -> Sessions \cup {None}]
  /\ lock \in [Sessions -> Requests \cup Workers \cup {None}]
  /\ open \in SUBSET Sessions
  /\ staged \in [Sessions -> PartContents]
  /\ objects \in [Sessions -> [Parts -> Contents] \cup {None}]
  /\ pc \in [Requests -> Steps]
  /\ ctx \in [Requests -> Contexts]
  /\ sweep \in [Workers -> Batches]
  /\ told \in SUBSET ({"created", "ended", "gone"} \X Sessions)
  /\ acked \in SUBSET (Sessions \X Parts \X Contents)
  /\ faults \in Nat

Init ==
  /\ state = [s \in Sessions |-> "none"]
  /\ expired = {}
  /\ parts = [s \in Sessions |-> NoParts]
  /\ secrets = [p \in PublicIDs |-> None]
  /\ lock = [s \in Sessions |-> None]
  /\ open = {}
  /\ staged = [s \in Sessions |-> NoParts]
  /\ objects = [s \in Sessions |-> None]
  /\ pc = [r \in Requests |-> "idle"]
  /\ ctx = [r \in Requests |-> IdleCtx]
  /\ sweep = [w \in Workers |-> IdleSweep]
  /\ told = {}
  /\ acked = {}
  /\ faults = 0

-----------------------------------------------------------------------------
(* Failures.  A failed call is one of a kind the instance allows; whether  *)
(* it took effect before it failed is a choice of the step.                *)

Works == UNCHANGED faults
Fails(kind) == kind \in Faults /\ faults < MaxFaults /\ faults' = faults + 1

(* The object store, as the server uses it (s3/client.go).                 *)

CreateMultipartUpload(s) ==
  /\ open' = open \cup {s}
  /\ UNCHANGED <<staged, objects>>

StorePart(s, n, c) ==
  /\ staged' = [staged EXCEPT ![s][n] = c]
  /\ UNCHANGED <<open, objects>>

CompleteMultipartUpload(s, etags) ==
  /\ open' = open \ {s}
  /\ staged' = [staged EXCEPT ![s] = NoParts]
  /\ objects' = [objects EXCEPT ![s] = etags]

\* Idempotent: an upload the store no longer knows counts as aborted.
AbortMultipartUpload(s) ==
  /\ open' = open \ {s}
  /\ staged' = [staged EXCEPT ![s] = NoParts]
  /\ UNCHANGED objects

DeleteObject(s) ==
  /\ objects' = [objects EXCEPT ![s] = None]
  /\ UNCHANGED <<open, staged>>

(* Row locks and statements on upload_sessions.                            *)

Unlocked(by) == [s \in Sessions |-> IF lock[s] = by THEN None ELSE lock[s]]
RowExists(s) == state[s] \in {"pending", "completed", "aborted"}

\* MarkUploadSessionAborted: waits for the row, moves it only from pending.
CanMark(s) == lock[s] = None
\* Mutant: a state no query of the code knows.
MarkAsExpired(s) ==
  /\ state' = [state EXCEPT ![s] = "expired"]
  /\ UNCHANGED <<expired, parts, secrets, lock>>
MarkUploadSessionAborted(s) ==
  /\ state' = [state EXCEPT ![s] = "aborted"]
  /\ UNCHANGED <<expired, parts, secrets, lock>>

(* The end of a request: its process is free for the next one.             *)

Goto(r, step) == pc' = [pc EXCEPT ![r] = step]
Begin(r, step, s, n, c) == Goto(r, step) /\ ctx' = [ctx EXCEPT ![r] = Ctx(s, n, c)]
Done(r) == Goto(r, "idle") /\ ctx' = [ctx EXCEPT ![r] = IdleCtx]
Silent(r) == Done(r) /\ UNCHANGED told_
Tells(r, what) ==
  /\ Done(r)
  /\ told' = told \cup {<<what, ctx[r].s>>}
  /\ UNCHANGED acked
Continue(r, step) == Goto(r, step) /\ UNCHANGED <<ctx, told_>>

-----------------------------------------------------------------------------
(* Requests.  One that is refused before any call that changes something    *)
(* (malformed, unknown session, wrong token, part outside the layout) has   *)
(* changed nothing.                                                         *)

Refuse(r) == pc[r] = "idle" /\ UNCHANGED vars

(* POST /uploads: the multipart upload first, then the row.                *)

Fresh(s) == state[s] = "none" /\ s \notin open /\ \A r \in Requests : ctx[r].s # s

CreateUploadSession(r) ==
  /\ pc[r] = "idle"
  /\ \E s \in Sessions :
       /\ Fresh(s)
       /\ \/ /\ Works
             /\ CreateMultipartUpload(s)
             /\ Begin(r, "exists", s, None, None)
          \/ /\ Fails("storage")
             /\ CreateMultipartUpload(s)
             /\ UNCHANGED <<pc, ctx>>
  /\ UNCHANGED <<db, sweep, told_>>

\* SecretExistsByPublicID, a statement of its own.
CheckSecretExists(r) ==
  /\ pc[r] = "exists"
  /\ \/ Works /\ secrets[PublicIDOf[ctx[r].s]] = None /\ Continue(r, "insert")
     \/ Works /\ secrets[PublicIDOf[ctx[r].s]] # None /\ Continue(r, "undo")
     \/ Fails("statement") /\ Continue(r, "undo")
  /\ UNCHANGED <<db, s3, sweep>>

\* The primary key and the unique index on the public IDs of pending sessions.
DuplicateSession(s) ==
  \/ state[s] # "none"
  \/ \E t \in Sessions : PublicIDOf[t] = PublicIDOf[s] /\ state[t] = "pending"

InsertUploadSession(r) ==
  LET s == ctx[r].s
      inserted == /\ ~DuplicateSession(s)
                  /\ state' = [state EXCEPT ![s] = "pending"]
                  /\ UNCHANGED <<expired, parts, secrets, lock>>
  IN /\ pc[r] = "insert"
     /\ \/ Works /\ inserted /\ Silent(r)
        \/ Works /\ DuplicateSession(s) /\ UNCHANGED db /\ Continue(r, "undo")
        \/ Fails("statement") /\ (inserted \/ UNCHANGED db) /\ Continue(r, "undo")
     /\ UNCHANGED <<s3, sweep>>

\* Best effort: the outcome of the abort is ignored.
UndoMultipartUpload(r) ==
  /\ pc[r] = "undo"
  /\ \/ Works /\ AbortMultipartUpload(ctx[r].s)
     \/ Fails("reclaim") /\ (AbortMultipartUpload(ctx[r].s) \/ UNCHANGED s3)
  /\ Silent(r)
  /\ UNCHANGED <<db, sweep>>

(* PUT /uploads/{s}/parts/{n}: the session row and its parts are read by    *)
(* two statements; the part goes to storage, then into the table.           *)

\* Mutant: the expiry is not looked at.
validateStateOnly(s) == state[s] = "pending"
validatePendingUploadSession(s) == state[s] = "pending" /\ s \notin expired

UploadPart(r) ==
  /\ pc[r] = "idle"
  /\ \E s \in Sessions, n \in Parts, c \in Contents :
       /\ validatePendingUploadSession(s)
       /\ Begin(r, "list", s, n, c)
  /\ Works
  /\ UNCHANGED <<db, s3, sweep, told_>>

Recorded(r) == parts[ctx[r].s][ctx[r].n]
AnswerRecorded(r) ==
  /\ Done(r)
  /\ acked' = acked \cup {<<ctx[r].s, ctx[r].n, ctx[r].c>>}
  /\ UNCHANGED told

ListRecordedParts(r) ==
  /\ pc[r] = "list"
  /\ \/ Works /\ Recorded(r) = None /\ Continue(r, "store")
     \/ Works /\ Recorded(r) = ctx[r].c /\ AnswerRecorded(r)
     \/ Works /\ Recorded(r) \notin {None, ctx[r].c} /\ Silent(r)
     \/ Fails("statement") /\ Silent(r)
  /\ UNCHANGED <<db, s3, sweep>>

StoreUploadPart(r) ==
  LET s == ctx[r].s
      stored == s \in open /\ StorePart(s, ctx[r].n, ctx[r].c)
  IN /\ pc[r] = "store"
     /\ \/ Works /\ stored /\ Continue(r, "find")
        \/ Works /\ s \notin open /\ UNCHANGED s3 /\ Silent(r)
        \/ Fails("storage") /\ (stored \/ UNCHANGED s3) /\ Silent(r)
     /\ UNCHANGED <<db, sweep>>

\* RecordUploadPart, GetUploadPartForUpdate: an equal part is answered again.
FindUploadPart(r) ==
  /\ pc[r] = "find"
  /\ \/ Works /\ Recorded(r) = None /\ Continue(r, "record")
     \/ Works /\ Recorded(r) = ctx[r].c /\ AnswerRecorded(r)
     \/ Works /\ Recorded(r) \notin {None, ctx[r].c} /\ Silent(r)
     \/ Fails("statement") /\ Silent(r)
  /\ UNCHANGED <<db, s3, sweep>>

\* RecordUploadPart, CreateUploadPart: the foreign key takes a share lock on
\* the session row, so the insert waits for a completion that holds it; the
\* session's state is not looked at.  A part somebody else recorded meanwhile
\* is a conflict, whatever its content.
\* Mutant: a conflict is answered like an insert.
CreateUploadPartOrIgnore(r) ==
  /\ pc[r] = "record"
  /\ lock[ctx[r].s] = None
  /\ IF Recorded(r) = None
     THEN parts' = [parts EXCEPT ![ctx[r].s][ctx[r].n] = ctx[r].c]
     ELSE UNCHANGED parts
  /\ Works
  /\ AnswerRecorded(r)
  /\ UNCHANGED <<state, expired, secrets, lock, s3, sweep>>
CreateUploadPart(r) ==
  LET s == ctx[r].s
      inserted == /\ RowExists(s)
                  /\ Recorded(r) = None
                  /\ parts' = [parts EXCEPT ![s][ctx[r].n] = ctx[r].c]
                  /\ UNCHANGED <<state, expired, secrets, lock>>
  IN /\ pc[r] = "record"
     /\ lock[s] = None
     /\ \/ Works /\ inserted /\ AnswerRecorded(r)
        \/ Works /\ (~RowExists(s) \/ Recorded(r) # None) /\ UNCHANGED db /\ Silent(r)
        \/ Fails("statement") /\ (inserted \/ UNCHANGED db) /\ Silent(r)
     /\ UNCHANGED <<s3, sweep>>

(* POST /uploads/{s}/complete: under the row lock, from the parts recorded  *)
(* then, storage assembles the object and the secret row is inserted.       *)

CompleteUploadSession(r) ==
  /\ pc[r] = "idle"
  /\ \E s \in Sessions :
       /\ RowExists(s)
       /\ Begin(r, "lock", s, None, None)
  /\ Works
  /\ UNCHANGED <<db, s3, sweep, told_>>

validateUploadParts(s) == \A n \in Parts : parts[s][n] # None

\* GetUploadSessionForUpdate and the part of finalize before its S3 call.
LockUploadSession(r) ==
  LET s == ctx[r].s IN
  /\ pc[r] = "lock"
  /\ lock[s] = None
  /\ \/ /\ Works
        /\ state[s] = "completed"
        /\ Tells(r, "created")
        /\ UNCHANGED lock
     \/ /\ Works
        /\ ~validatePendingUploadSession(s) \/ ~validateUploadParts(s)
        /\ state[s] # "completed"
        /\ Silent(r)
        /\ UNCHANGED lock
     \/ /\ Works
        /\ validatePendingUploadSession(s) /\ validateUploadParts(s)
        /\ lock' = [lock EXCEPT ![s] = r]
        /\ Goto(r, "assemble")
        /\ ctx' = [ctx EXCEPT ![r].etags = parts[s]]
        /\ UNCHANGED told_
     \/ /\ Fails("statement")
        /\ Silent(r)
        /\ UNCHANGED lock
  /\ UNCHANGED <<state, expired, parts, secrets, s3, sweep>>

\* finalize's S3 call.  Storage refuses ETags it does not hold, and an upload
\* it no longer knows; either way the transaction is rolled back.
AssembleObject(r) ==
  LET s == ctx[r].s
      assembled == /\ s \in open
                   /\ staged[s] = ctx[r].etags
                   /\ CompleteMultipartUpload(s, ctx[r].etags)
  IN /\ pc[r] = "assemble"
     /\ \/ Works /\ assembled /\ Continue(r, "publish") /\ UNCHANGED lock
        \/ /\ Works
           /\ s \in open /\ staged[s] # ctx[r].etags
           /\ Continue(r, "clear")
           /\ lock' = Unlocked(r)
           /\ UNCHANGED s3
        \/ /\ Works
           /\ s \notin open
           /\ Goto(r, "discard")
           /\ ctx' = [ctx EXCEPT ![r].why = "gone"]
           /\ lock' = Unlocked(r)
           /\ UNCHANGED <<s3, told_>>
        \/ /\ Fails("storage")
           /\ assembled \/ UNCHANGED s3
           /\ Silent(r)
           /\ lock' = Unlocked(r)
     /\ UNCHANGED <<state, expired, parts, secrets, sweep>>

\* The primary key of secrets admits one row per public ID.
\* Mutant: the row is replaced.
ReplaceSecret(s) == secrets' = [secrets EXCEPT ![PublicIDOf[s]] = s]
CreateSecret(s) ==
  /\ secrets[PublicIDOf[s]] = None
  /\ secrets' = [secrets EXCEPT ![PublicIDOf[s]] = s]

\* CreateSecret, MarkUploadSessionCompleted, DeleteUploadPartsBySession, COMMIT.
\* A request that has lost its connection holds no lock and can commit nothing.
PublishSecret(r) ==
  LET s == ctx[r].s
      committed ==
        /\ lock[s] = r
        /\ CreateSecret(s)
        /\ state' = [state EXCEPT ![s] = "completed"]
        /\ parts' = [parts EXCEPT ![s] = NoParts]
        /\ lock' = Unlocked(r)
        /\ UNCHANGED expired
      rolledBack == lock' = Unlocked(r) /\ UNCHANGED <<state, expired, parts, secrets>>
  IN /\ pc[r] = "publish"
     /\ \/ Works /\ committed /\ Tells(r, "created")
        \/ /\ Works
           /\ lock[s] = r /\ secrets[PublicIDOf[s]] # None
           /\ rolledBack
           /\ Goto(r, "discard")
           /\ ctx' = [ctx EXCEPT ![r].why = "gone"]
           /\ UNCHANGED told_
        \/ Works /\ lock[s] # r /\ rolledBack /\ Continue(r, "discard")
        \/ Fails("commit") /\ (committed \/ rolledBack) /\ Continue(r, "discard")
     /\ UNCHANGED <<s3, sweep>>

\* completeUploadFailed, parts rejected by storage: forget what was recorded,
\* outside the transaction that found out.
ClearUploadParts(r) ==
  LET s == ctx[r].s
      cleared == /\ parts' = [parts EXCEPT ![s] = NoParts]
                 /\ acked' = {a \in acked : a[1] # s}
  IN /\ pc[r] = "clear"
     /\ \/ Works /\ cleared
        \/ Fails("statement") /\ (cleared \/ UNCHANGED <<parts, acked>>)
     /\ Done(r)
     /\ UNCHANGED <<told, state, expired, secrets, lock, s3, sweep>>

\* completeUploadFailed's answer after discardUpload.
\* Mutant: every failure is answered as an invalid upload.
AnswerAlwaysGone(r) == Tells(r, "gone")
AnswerDiscarded(r) == IF ctx[r].why = "gone" THEN Tells(r, "gone") ELSE Silent(r)

\* discardUpload: only who moved the session to aborted goes on to delete.
\* Mutant: the object is deleted whether or not the session was moved.
DiscardUploadUnchecked(r) ==
  /\ pc[r] = "discard"
  /\ CanMark(ctx[r].s)
  /\ IF state[ctx[r].s] = "pending" THEN MarkUploadSessionAborted(ctx[r].s) ELSE UNCHANGED db
  /\ Works
  /\ Continue(r, "remove")
  /\ UNCHANGED <<s3, sweep>>
DiscardUpload(r) ==
  LET s == ctx[r].s
      marked == state[s] = "pending" /\ MarkUploadSessionAborted(s)
  IN /\ pc[r] = "discard"
     /\ CanMark(s)
     /\ \/ Works /\ marked /\ Continue(r, "remove")
        \/ Works /\ state[s] # "pending" /\ UNCHANGED db /\ AnswerDiscarded(r)
        \/ Fails("statement") /\ (marked \/ UNCHANGED db) /\ AnswerDiscarded(r)
     /\ UNCHANGED <<s3, sweep>>

RemoveDiscardedObject(r) ==
  LET s == ctx[r].s IN
  /\ pc[r] = "remove"
  /\ \/ Works /\ DeleteObject(s)
     \/ Fails("reclaim") /\ (DeleteObject(s) \/ UNCHANGED s3)
  /\ AnswerDiscarded(r)
  /\ UNCHANGED <<db, sweep>>

(* DELETE /uploads/{s}: the client gives up.  The multipart upload is       *)
(* aborted before the session is, and no object is ever deleted here.       *)

AbortUploadSession(r) ==
  /\ pc[r] = "idle"
  /\ \E s \in Sessions :
       \/ /\ state[s] = "pending"
          /\ Begin(r, "cancel", s, None, None)
          /\ UNCHANGED told_
       \/ /\ state[s] = "aborted"
          /\ told' = told \cup {<<"ended", s>>}
          /\ UNCHANGED <<pc, ctx, acked>>
  /\ Works
  /\ UNCHANGED <<db, s3, sweep>>

CancelMultipartUpload(r) ==
  LET s == ctx[r].s IN
  /\ pc[r] = "cancel"
  /\ \/ Works /\ AbortMultipartUpload(s) /\ Continue(r, "mark")
     \/ Fails("reclaim") /\ (AbortMultipartUpload(s) \/ UNCHANGED s3) /\ Silent(r)
  /\ UNCHANGED <<db, sweep>>

\* Mutant: 204 whether or not the session was moved.
MarkSessionAbortedUnchecked(r) ==
  /\ pc[r] = "mark"
  /\ CanMark(ctx[r].s)
  /\ IF state[ctx[r].s] = "pending" THEN MarkUploadSessionAborted(ctx[r].s) ELSE UNCHANGED db
  /\ Works
  /\ Tells(r, "ended")
  /\ UNCHANGED <<s3, sweep>>
MarkSessionAborted(r) ==
  LET s == ctx[r].s
      marked == state[s] = "pending" /\ MarkUploadSessionAborted(s)
  IN /\ pc[r] = "mark"
     /\ CanMark(s)
     /\ \/ Works /\ marked /\ Tells(r, "ended")
        \/ Works /\ state[s] # "pending" /\ UNCHANGED db /\ Silent(r)
        \/ Fails("statement") /\ (marked \/ UNCHANGED db) /\ Silent(r)
     /\ UNCHANGED <<s3, sweep>>

(* Processes die and lose their database connection; the database then      *)
(* rolls their transaction back and frees their locks.  A process that has  *)
(* only lost its connection goes on with its next call to storage.          *)

Crash(r) ==
  /\ pc[r] \in CrashAt \ {"idle"}
  /\ faults < MaxFaults /\ faults' = faults + 1
  /\ Silent(r)
  /\ lock' = Unlocked(r)
  /\ UNCHANGED <<state, expired, parts, secrets, s3, sweep>>

LoseConnection(by) ==
  /\ Fails("connection")
  /\ \E s \in Sessions : lock[s] = by
  /\ lock' = Unlocked(by)
  /\ UNCHANGED <<state, expired, parts, secrets, s3, pc, ctx, sweep, told_>>

-----------------------------------------------------------------------------
(* The cleanup worker: AbortExpiredUploadSessions, then the purge of the    *)
(* sessions that finished long ago.                                         *)

Expire(s) ==
  /\ state[s] = "pending"
  /\ expired' = expired \cup {s}
  /\ Works
  /\ UNCHANGED <<state, parts, secrets, lock, s3, pc, ctx, sweep, told_>>

\* ListExpiredUploadSessionsForUpdate skips rows others hold.  The batch limit,
\* and the time the cycle started, make the batch any part of what is due.
\* Mutant: the comparison with now the wrong way round.
NotYetDue == {s \in Sessions \ expired : state[s] = "pending" /\ lock[s] = None}
Due == {s \in expired : state[s] = "pending" /\ lock[s] = None}

SelectExpired(w) ==
  /\ sweep[w].pc = "idle"
  /\ \E batch \in SUBSET Due \ {{}} :
       /\ lock' = [s \in Sessions |-> IF s \in batch THEN w ELSE lock[s]]
       /\ sweep' = [sweep EXCEPT ![w] =
                      [pc |-> "batch", todo |-> batch, at |-> None, swept |-> {}]]
  /\ Works
  /\ UNCHANGED <<state, expired, parts, secrets, s3, pc, ctx, told_>>

\* abortUpload, first call.  A session whose callback fails is skipped.
SweepUpload(w) ==
  /\ sweep[w].at = None
  /\ \E s \in sweep[w].todo :
       \/ /\ Works
          /\ AbortMultipartUpload(s)
          /\ sweep' = [sweep EXCEPT ![w].todo = @ \ {s}, ![w].at = s]
       \/ /\ Fails("reclaim")
          /\ AbortMultipartUpload(s) \/ UNCHANGED s3
          /\ sweep' = [sweep EXCEPT ![w].todo = @ \ {s}]
  /\ UNCHANGED <<db, pc, ctx, told_>>

\* abortUpload, second call: a completion may have left an object behind.
\* Mutant: the second call is left out.
SweepUploadOnly(w) ==
  /\ sweep[w].at # None
  /\ Works
  /\ sweep' = [sweep EXCEPT ![w].at = None, ![w].swept = @ \cup {sweep[w].at}]
  /\ UNCHANGED <<db, s3, pc, ctx, told_>>
SweepObject(w) ==
  LET s == sweep[w].at IN
  /\ s # None
  /\ \/ /\ Works
        /\ DeleteObject(s)
        /\ sweep' = [sweep EXCEPT ![w].at = None, ![w].swept = @ \cup {s}]
     \/ /\ Fails("reclaim")
        /\ DeleteObject(s) \/ UNCHANGED s3
        /\ sweep' = [sweep EXCEPT ![w].at = None]
  /\ UNCHANGED <<db, pc, ctx, told_>>

\* MarkUploadSessionsAborted and COMMIT, on the rows this worker still holds.
CommitSweep(w) ==
  LET swept == {s \in sweep[w].swept : lock[s] = w /\ state[s] = "pending"}
      committed == state' = [s \in Sessions |-> IF s \in swept THEN "aborted" ELSE state[s]]
  IN /\ sweep[w].pc = "batch" /\ sweep[w].todo = {} /\ sweep[w].at = None
     /\ \/ Works /\ committed
        \/ Fails("commit") /\ (committed \/ UNCHANGED state)
     /\ lock' = Unlocked(w)
     /\ sweep' = [sweep EXCEPT ![w] = IdleSweep]
     /\ UNCHANGED <<expired, parts, secrets, s3, pc, ctx, told_>>

CrashWorker(w) ==
  /\ "sweep" \in CrashAt
  /\ sweep[w].pc = "batch"
  /\ faults < MaxFaults /\ faults' = faults + 1
  /\ lock' = Unlocked(w)
  /\ sweep' = [sweep EXCEPT ![w] = IdleSweep]
  /\ UNCHANGED <<state, expired, parts, secrets, s3, pc, ctx, told_>>

\* DeleteFinishedUploadSessions; the parts go with the row (ON DELETE CASCADE).
\* How long a finished session is kept is left open.
PurgeFinished(s) ==
  /\ state[s] \in {"completed", "aborted"}
  /\ lock[s] = None
  /\ state' = [state EXCEPT ![s] = "purged"]
  /\ parts' = [parts EXCEPT ![s] = NoParts]
  /\ Works
  /\ UNCHANGED <<expired, secrets, lock, s3, pc, ctx, sweep, told_>>

-----------------------------------------------------------------------------
\* The steps of a request that has arrived: the server runs them on its own.
Handle(r) ==
  \/ CheckSecretExists(r) \/ InsertUploadSession(r) \/ UndoMultipartUpload(r)
  \/ ListRecordedParts(r) \/ StoreUploadPart(r)
  \/ FindUploadPart(r) \/ CreateUploadPart(r)
  \/ LockUploadSession(r) \/ AssembleObject(r) \/ PublishSecret(r)
  \/ ClearUploadParts(r) \/ DiscardUpload(r) \/ RemoveDiscardedObject(r)
  \/ CancelMultipartUpload(r) \/ MarkSessionAborted(r)

Arrive(r) ==
  \/ CreateUploadSession(r) \/ UploadPart(r)
  \/ CompleteUploadSession(r) \/ AbortUploadSession(r) \/ Refuse(r)

Sweep(w) == SelectExpired(w) \/ SweepUpload(w) \/ SweepObject(w) \/ CommitSweep(w)

Next ==
  \/ \E r \in Requests : Arrive(r) \/ Handle(r) \/ Crash(r) \/ LoseConnection(r)
  \/ \E w \in Workers : Sweep(w) \/ CrashWorker(w) \/ LoseConnection(w)
  \/ \E s \in Sessions : Expire(s) \/ PurgeFinished(s)

Spec == Init /\ [][Next]_vars

(***************************************************************************)
(* The server runs a request to its end, the worker's ticker keeps firing  *)
(* (worker.go:57-71) and time passes.  Clients owe nothing.                *)
(***************************************************************************)
Fairness ==
  /\ \A r \in Requests : WF_vars(Handle(r))
  /\ \A w \in Workers : WF_vars(Sweep(w))
  /\ \A s \in Sessions : WF_vars(Expire(s))

FairSpec == Spec /\ Fairness

-----------------------------------------------------------------------------
(* Properties.                                                              *)

Published(s) == secrets[PublicIDOf[s]] = s

(***************************************************************************)
(* Whatever completes, aborts, sweeps, discards, dies or loses its          *)
(* connection, a secret row points to an object that is there, whole: no    *)
(* clean-up path ever deletes what a concurrent completion has published.   *)
(***************************************************************************)
SecretHasObject == \A s \in Sessions : Published(s) => objects[s] # None

(***************************************************************************)
(* What the completion of an upload was answered holds from then on: 201    *)
(* means there is a secret with this upload's object.                       *)
(***************************************************************************)
CreatedIsDurable ==
  \A s \in Sessions : <<"created", s>> \in told => Published(s) /\ objects[s] # None

(***************************************************************************)
(* A client told that its upload has ended (204 to an abort) never finds    *)
(* that a completion it sent earlier published the secret after all.        *)
(***************************************************************************)
AbortedIsNeverPublished ==
  \A s \in Sessions : <<"ended", s>> \in told => ~Published(s)

(***************************************************************************)
(* A client told that its upload is no longer valid (409 from               *)
(* completeUploadFailed) can start over: the old session never publishes.   *)
(***************************************************************************)
RefusedIsNeverPublished ==
  \A s \in Sessions : <<"gone", s>> \in told => ~Published(s)

(***************************************************************************)
(* A part answered 200 stays recorded, with that content, for as long as    *)
(* the session is pending, unless a completion told to upload it again.     *)
(***************************************************************************)
AcknowledgedPartStays ==
  \A s \in Sessions, n \in Parts, c \in Contents :
    <<s, n, c>> \in acked /\ state[s] = "pending" => parts[s][n] = c

(***************************************************************************)
(* No upload stays pending for ever, so its public ID is free again.        *)
(***************************************************************************)
PendingEnds == \A s \in Sessions : state[s] = "pending" ~> state[s] # "pending"

Orphan(s) == objects[s] # None /\ ~Published(s)

(***************************************************************************)
(* An object no secret points to is deleted or published in the end, unless *)
(* the client has aborted the upload: a lost completion leaks no storage.   *)
(***************************************************************************)
OrphanReclaimed ==
  \A s \in Sessions : Orphan(s) ~> ~Orphan(s) \/ <<"ended", s>> \in told

(***************************************************************************)
(* upload_handler.go:293 "cleanup deletes the object once the session       *)
(* expires" and worker.go:91 "remove it rather than leaking storage": an    *)
(* object no secret points to is always deleted or published in the end.    *)
(***************************************************************************)
OrphanAlwaysReclaimed == \A s \in Sessions : Orphan(s) ~> ~Orphan(s)

(***************************************************************************)
(* What readers can be served only ever goes from nothing to a whole blob.  *)
(***************************************************************************)
Served == [p \in PublicIDs |-> IF secrets[p] = None THEN None ELSE objects[secrets[p]]]

Pub == INSTANCE Publication WITH Blobs <- [Parts -> Contents], published <- Served

PublicationSpec == Pub!Spec
=============================================================================
