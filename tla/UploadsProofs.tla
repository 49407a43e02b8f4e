---------------------------- MODULE UploadsProofs ----------------------------
(***************************************************************************)
(* Theorems about Uploads, for any number of sessions, parts, requests and *)
(* workers, any kinds of failures and any number of them.                  *)
(***************************************************************************)
EXTENDS Uploads, TLAPS

(* What a request carries at each of its steps.                            *)
CtxOK ==
  \A r \in Requests :
    /\ pc[r] # "idle" => ctx[r].s \in Sessions
    /\ pc[r] \in {"list", "store", "find", "record"} =>
         ctx[r].n \in Parts /\ ctx[r].c \in Contents
    /\ pc[r] = "assemble" => ctx[r].etags \in [Parts -> Contents]

TypeInv == TypeOK /\ CtxOK

(* The three groups of variables a step of a request changes.              *)
DbOK ==
  /\ state \in [Sessions -> {"none", "pending", "completed", "aborted", "purged"}]
  /\ expired \in SUBSET Sessions
  /\ parts \in [Sessions -> PartContents]
  /\ secrets \in [PublicIDs -> Sessions \cup {None}]
  /\ lock \in [Sessions -> Requests \cup Workers \cup {None}]

StorageOK ==
  /\ open \in SUBSET Sessions
  /\ staged \in [Sessions -> PartContents]
  /\ objects \in [Sessions -> [Parts -> Contents] \cup {None}]

ControlOK ==
  /\ pc \in [Requests -> Steps]
  /\ ctx \in [Requests -> Contexts]
  /\ CtxOK
  /\ told \in SUBSET ({"created", "ended", "gone"} \X Sessions)
  /\ acked \in SUBSET (Sessions \X Parts \X Contents)

-----------------------------------------------------------------------------
(* The updates of a request's context and of a worker's batch keep their   *)
(* types; the other lemmas need not look into the records.                 *)

LEMMA ContextTypes ==
  /\ IdleCtx \in Contexts
  /\ IdleSweep \in Batches
  /\ NoParts \in PartContents
  /\ \A s \in Sessions, n \in Parts \cup {None}, c \in Contents \cup {None} :
       Ctx(s, n, c) \in Contexts /\ Ctx(s, n, c).s = s /\ Ctx(s, n, c).n = n /\ Ctx(s, n, c).c = c
BY DEF Contexts, IdleCtx, Ctx, PartContents, NoParts, Batches, IdleSweep

LEMMA ContextUpdates ==
  ASSUME NEW f \in [Requests -> Contexts], NEW r \in Requests
  PROVE  /\ \A e \in PartContents :
              /\ [f EXCEPT ![r].etags = e] \in [Requests -> Contexts]
              /\ [f EXCEPT ![r].etags = e][r].etags = e
              /\ [f EXCEPT ![r].etags = e][r].s = f[r].s
         /\ [f EXCEPT ![r].why = "gone"] \in [Requests -> Contexts]
         /\ [f EXCEPT ![r].why = "gone"][r].s = f[r].s
BY DEF Contexts

LEMMA TypeInit == Init => TypeInv
BY ContextTypes DEF Init, TypeInv, TypeOK, CtxOK, Steps

LEMMA TypeArrive == ASSUME TypeInv, NEW r \in Requests, Arrive(r) PROVE TypeInv'
<1> USE DEF TypeInv, TypeOK, CtxOK
<1>1. ASSUME NEW step \in Steps \ {"assemble"}, NEW s \in Sessions,
             NEW n \in Parts \cup {None}, NEW c \in Contents \cup {None},
             Begin(r, step, s, n, c),
             step \in {"list", "store", "find", "record"} => n \in Parts /\ c \in Contents
      PROVE  pc' \in [Requests -> Steps] /\ ctx' \in [Requests -> Contexts] /\ CtxOK'
  BY <1>1, ContextTypes DEF Begin, Goto
<1> USE DEF Works, Fails, db, s3, told_
<1>2. CASE CreateUploadSession(r)
  <2> PICK s \in Sessions :
         /\ CreateMultipartUpload(s)
         /\ \/ Works /\ Begin(r, "exists", s, None, None)
            \/ Fails("storage") /\ UNCHANGED <<pc, ctx>>
    BY <1>2 DEF CreateUploadSession
  <2>1. UNCHANGED <<db, sweep, told_>>
    BY <1>2 DEF CreateUploadSession
  <2>2. CASE Works /\ Begin(r, "exists", s, None, None)
    BY <1>1, <2>1, <2>2 DEF CreateMultipartUpload, Steps
  <2>3. CASE Fails("storage") /\ UNCHANGED <<pc, ctx>>
    <3>1. faults' \in Nat /\ CtxOK'
      BY <2>3
    <3>2. QED BY <2>1, <2>3, <3>1 DEF CreateMultipartUpload
  <2> QED BY <2>2, <2>3
<1>3. CASE UploadPart(r)
  BY <1>1, <1>3, ContextTypes DEF UploadPart, Steps
<1>4. CASE CompleteUploadSession(r)
  BY <1>1, <1>4, ContextTypes DEF CompleteUploadSession, Steps
<1>5. CASE AbortUploadSession(r)
  <2> PICK s \in Sessions :
         \/ Begin(r, "cancel", s, None, None) /\ UNCHANGED told_
         \/ told' = told \cup {<<"ended", s>>} /\ UNCHANGED <<pc, ctx, acked>>
    BY <1>5 DEF AbortUploadSession
  <2>1. UNCHANGED <<db, s3, sweep, faults>>
    BY <1>5 DEF AbortUploadSession
  <2>2. CASE Begin(r, "cancel", s, None, None) /\ UNCHANGED told_
    BY <1>1, <2>1, <2>2 DEF Steps
  <2>3. CASE told' = told \cup {<<"ended", s>>} /\ UNCHANGED <<pc, ctx, acked>>
    BY <2>1, <2>3
  <2> QED BY <2>2, <2>3
<1>6. CASE Refuse(r)
  BY <1>6 DEF Refuse, vars
<1>7. QED BY <1>2, <1>3, <1>4, <1>5, <1>6 DEF Arrive

PartSteps == {"list", "store", "find", "record"}

LEMMA ControlTypes ==
  ASSUME TypeInv, NEW r \in Requests, pc[r] # "idle"
  PROVE  /\ Silent(r) => ControlOK'
         /\ \A what \in {"created", "ended", "gone"} : Tells(r, what) => ControlOK'
         /\ pc[r] \in PartSteps /\ AnswerRecorded(r) => ControlOK'
         /\ \A step \in Steps \ {"assemble"} :
              (step \in PartSteps => pc[r] \in PartSteps) /\ Continue(r, step) => ControlOK'
         /\ /\ Goto(r, "discard")
            /\ ctx' = [ctx EXCEPT ![r].why = "gone"]
            /\ UNCHANGED told_
            => ControlOK'
         /\ AnswerDiscarded(r) => ControlOK'
<1> USE DEF TypeInv, TypeOK, CtxOK, ControlOK, Goto, told_
<1>1. Done(r) => /\ pc' \in [Requests -> Steps]
                 /\ ctx' \in [Requests -> Contexts]
                 /\ CtxOK'
  BY ContextTypes DEF Done, Steps
<1>2. Silent(r) => ControlOK'
  BY <1>1 DEF Silent
<1>3. \A what \in {"created", "ended", "gone"} : Tells(r, what) => ControlOK'
  BY <1>1 DEF Tells
<1>4. pc[r] \in PartSteps /\ AnswerRecorded(r) => ControlOK'
  BY <1>1 DEF AnswerRecorded, PartSteps
<1>5. \A step \in Steps \ {"assemble"} :
        (step \in PartSteps => pc[r] \in PartSteps) /\ Continue(r, step) => ControlOK'
  BY DEF Continue, PartSteps
<1>6. /\ Goto(r, "discard")
      /\ ctx' = [ctx EXCEPT ![r].why = "gone"]
      /\ UNCHANGED told_
      => ControlOK'
  BY ContextUpdates DEF Steps
<1>7. AnswerDiscarded(r) => ControlOK'
  BY <1>2, <1>3 DEF AnswerDiscarded
<1>8. QED BY <1>2, <1>3, <1>4, <1>5, <1>6, <1>7

LEMMA StorageTypes ==
  ASSUME TypeInv, NEW s \in Sessions
  PROVE  /\ CreateMultipartUpload(s) => StorageOK'
         /\ \A n \in Parts, c \in Contents : StorePart(s, n, c) => StorageOK'
         /\ \A e \in [Parts -> Contents] : CompleteMultipartUpload(s, e) => StorageOK'
         /\ AbortMultipartUpload(s) => StorageOK'
         /\ DeleteObject(s) => StorageOK'
         /\ UNCHANGED s3 => StorageOK'
<1> USE DEF TypeInv, TypeOK, StorageOK
<1>1. CreateMultipartUpload(s) => StorageOK'
  BY DEF CreateMultipartUpload
<1>2. \A n \in Parts, c \in Contents : StorePart(s, n, c) => StorageOK'
  BY DEF StorePart, PartContents
<1>3. \A e \in [Parts -> Contents] : CompleteMultipartUpload(s, e) => StorageOK'
  BY ContextTypes DEF CompleteMultipartUpload
<1>4. AbortMultipartUpload(s) => StorageOK'
  BY ContextTypes DEF AbortMultipartUpload
<1>5. DeleteObject(s) => StorageOK'
  BY DEF DeleteObject
<1>6. UNCHANGED s3 => StorageOK'
  BY DEF s3
<1>7. QED BY <1>1, <1>2, <1>3, <1>4, <1>5, <1>6

LEMMA DbTypes ==
  ASSUME TypeInv, NEW s \in Sessions
  PROVE  /\ UNCHANGED db => DbOK'
         /\ MarkUploadSessionAborted(s) => DbOK'
         /\ \A by : Unlocked(by) \in [Sessions -> Requests \cup Workers \cup {None}]
BY DEF TypeInv, TypeOK, DbOK, db, MarkUploadSessionAborted, Unlocked

LEMMA PartUpdate ==
  ASSUME NEW f \in [Sessions -> PartContents], NEW s \in Sessions,
         NEW n \in Parts, NEW c \in Contents
  PROVE  [f EXCEPT ![s][n] = c] \in [Sessions -> PartContents]
BY DEF PartContents

LEMMA TypeHandle == ASSUME TypeInv, NEW r \in Requests, Handle(r) PROVE TypeInv'
<1> DEFINE s == ctx[r].s
<1>1. pc[r] # "idle" /\ s \in Sessions
  BY DEF Handle, CheckSecretExists, InsertUploadSession, UndoMultipartUpload,
         ListRecordedParts, StoreUploadPart, FindUploadPart, CreateUploadPart,
         LockUploadSession, AssembleObject, PublishSecret, ClearUploadParts,
         DiscardUpload, RemoveDiscardedObject, CancelMultipartUpload, MarkSessionAborted,
         TypeInv, CtxOK
<1>2. pc[r] \in PartSteps => ctx[r].n \in Parts /\ ctx[r].c \in Contents
  BY DEF TypeInv, CtxOK, PartSteps
<1>3. /\ Works => faults' \in Nat
      /\ \A kind : Fails(kind) => faults' \in Nat
  BY DEF TypeInv, TypeOK, Works, Fails
<1>4. sweep \in [Workers -> Batches]
  BY DEF TypeInv, TypeOK
<1>5. UNCHANGED sweep
  BY DEF Handle, CheckSecretExists, InsertUploadSession, UndoMultipartUpload,
         ListRecordedParts, StoreUploadPart, FindUploadPart, CreateUploadPart,
         LockUploadSession, AssembleObject, PublishSecret, ClearUploadParts,
         DiscardUpload, RemoveDiscardedObject, CancelMultipartUpload, MarkSessionAborted
<1> SUFFICES DbOK' /\ StorageOK' /\ ControlOK' /\ faults' \in Nat
  BY <1>4, <1>5 DEF TypeInv, TypeOK, DbOK, StorageOK, ControlOK
<1> HIDE DEF s
<1>a. CASE CheckSecretExists(r)
  BY <1>a, <1>1, <1>3, ControlTypes, StorageTypes, DbTypes
  DEF CheckSecretExists, Steps, PartSteps
<1>b. CASE InsertUploadSession(r)
  <2>1. ControlOK' /\ StorageOK' /\ faults' \in Nat
    BY <1>b, <1>1, <1>3, ControlTypes, StorageTypes DEF InsertUploadSession, Steps, PartSteps
  <2>2. DbOK'
    BY <1>b, <1>1, DbTypes DEF InsertUploadSession, TypeInv, TypeOK, DbOK
  <2> QED BY <2>1, <2>2
<1>c. CASE UndoMultipartUpload(r)
  BY <1>c, <1>1, <1>3, ControlTypes, StorageTypes, DbTypes DEF UndoMultipartUpload, s
<1>d. CASE ListRecordedParts(r)
  BY <1>d, <1>1, <1>3, ControlTypes, StorageTypes, DbTypes
  DEF ListRecordedParts, Steps, PartSteps
<1>e. CASE StoreUploadPart(r)
  BY <1>e, <1>1, <1>2, <1>3, ControlTypes, StorageTypes, DbTypes
  DEF StoreUploadPart, Steps, PartSteps, s
<1>f. CASE FindUploadPart(r)
  BY <1>f, <1>1, <1>3, ControlTypes, StorageTypes, DbTypes
  DEF FindUploadPart, Steps, PartSteps
<1>g. CASE CreateUploadPart(r)
  <2>1. ControlOK' /\ StorageOK' /\ faults' \in Nat
    BY <1>g, <1>1, <1>3, ControlTypes, StorageTypes DEF CreateUploadPart, PartSteps
  <2>2. DbOK'
    <3>1. CASE UNCHANGED db
      BY <3>1, <1>1, DbTypes
    <3>2. CASE /\ parts' = [parts EXCEPT ![s][ctx[r].n] = ctx[r].c]
               /\ UNCHANGED <<state, expired, secrets, lock>>
      BY <1>g, <1>1, <1>2, <3>2, PartUpdate
      DEF CreateUploadPart, TypeInv, TypeOK, DbOK, PartSteps
    <3>3. QED BY <1>g, <3>1, <3>2 DEF CreateUploadPart, s
  <2> QED BY <2>1, <2>2
<1>h. CASE LockUploadSession(r)
  <2>1. StorageOK' /\ faults' \in Nat
    BY <1>h, <1>1, <1>3, StorageTypes DEF LockUploadSession
  <2>2. DbOK'
    BY <1>h, <1>1 DEF LockUploadSession, TypeInv, TypeOK, DbOK, s
  <2>3. ControlOK'
    <3>1. CASE /\ validateUploadParts(s)
               /\ Goto(r, "assemble")
               /\ ctx' = [ctx EXCEPT ![r].etags = parts[s]]
               /\ UNCHANGED told_
      <4>1. parts[s] \in PartContents /\ parts[s] \in [Parts -> Contents]
        BY <1>1, <3>1 DEF TypeInv, TypeOK, PartContents, validateUploadParts
      <4>2. /\ ctx' \in [Requests -> Contexts]
            /\ ctx'[r].etags = parts[s] /\ ctx'[r].s = s
            /\ \A q \in Requests \ {r} : ctx'[q] = ctx[q]
        <5>1. ctx \in [Requests -> Contexts]
          BY DEF TypeInv, TypeOK
        <5>2. ctx' = [ctx EXCEPT ![r].etags = parts[s]]
          BY <3>1
        <5>3. QED BY <4>1, <5>1, <5>2 DEF Contexts, s
      <4>3. QED BY <1>1, <3>1, <4>1, <4>2
                DEF TypeInv, TypeOK, CtxOK, ControlOK, Goto, told_, Steps
    <3>2. QED BY <1>h, <1>1, <3>1, ControlTypes DEF LockUploadSession, s
  <2> QED BY <2>1, <2>2, <2>3
<1>i. CASE AssembleObject(r)
  <2>1. faults' \in Nat
    BY <1>i, <1>3 DEF AssembleObject
  <2>2. StorageOK'
    <3>1. ctx[r].etags \in [Parts -> Contents]
      BY <1>i DEF AssembleObject, TypeInv, CtxOK
    <3>2. QED BY <1>i, <1>1, <3>1, StorageTypes DEF AssembleObject, s
  <2>3. DbOK'
    BY <1>i, <1>1, DbTypes DEF AssembleObject, TypeInv, TypeOK, DbOK
  <2>4. ControlOK'
    BY <1>i, <1>1, ControlTypes DEF AssembleObject, Steps, PartSteps
  <2> QED BY <2>1, <2>2, <2>3, <2>4
<1>j. CASE PublishSecret(r)
  <2>1. faults' \in Nat /\ StorageOK'
    BY <1>j, <1>1, <1>3, StorageTypes DEF PublishSecret, CreateSecret
  <2>2. DbOK'
    <3>1. CASE /\ secrets' = [secrets EXCEPT ![PublicIDOf[s]] = s]
               /\ state' = [state EXCEPT ![s] = "completed"]
               /\ parts' = [parts EXCEPT ![s] = NoParts]
               /\ lock' = Unlocked(r)
               /\ UNCHANGED expired
      BY <1>1, <3>1, DbTypes, ContextTypes, UploadsAssumption DEF TypeInv, TypeOK, DbOK
    <3>2. CASE lock' = Unlocked(r) /\ UNCHANGED <<state, expired, parts, secrets>>
      BY <1>1, <3>2, DbTypes DEF TypeInv, TypeOK, DbOK
    <3>3. QED BY <1>j, <3>1, <3>2 DEF PublishSecret, CreateSecret, s
  <2>3. ControlOK'
    BY <1>j, <1>1, ControlTypes DEF PublishSecret, CreateSecret, Steps, PartSteps
  <2> QED BY <2>1, <2>2, <2>3
<1>k. CASE ClearUploadParts(r)
  <2>1. faults' \in Nat /\ StorageOK'
    BY <1>k, <1>1, <1>3, StorageTypes DEF ClearUploadParts
  <2>2. DbOK'
    BY <1>k, <1>1, ContextTypes DEF ClearUploadParts, TypeInv, TypeOK, DbOK
  <2>3. ControlOK'
    BY <1>k, <1>1, ContextTypes
    DEF ClearUploadParts, Done, Goto, TypeInv, TypeOK, CtxOK, ControlOK, Steps
  <2> QED BY <2>1, <2>2, <2>3
<1>l. CASE DiscardUpload(r)
  BY <1>l, <1>1, <1>3, ControlTypes, StorageTypes, DbTypes
  DEF DiscardUpload, Steps, PartSteps, s
<1>m. CASE RemoveDiscardedObject(r)
  BY <1>m, <1>1, <1>3, ControlTypes, StorageTypes, DbTypes DEF RemoveDiscardedObject, s
<1>n. CASE CancelMultipartUpload(r)
  BY <1>n, <1>1, <1>3, ControlTypes, StorageTypes, DbTypes
  DEF CancelMultipartUpload, Steps, PartSteps, s
<1>o. CASE MarkSessionAborted(r)
  BY <1>o, <1>1, <1>3, ControlTypes, StorageTypes, DbTypes
  DEF MarkSessionAborted, s
<1>z. QED
  BY <1>a, <1>b, <1>c, <1>d, <1>e, <1>f, <1>g, <1>h, <1>i, <1>j, <1>k, <1>l, <1>m, <1>n, <1>o
  DEF Handle

LEMMA TypeWorker == ASSUME TypeInv, NEW w \in Workers, Sweep(w) PROVE TypeInv'
<1>1. sweep \in [Workers -> Batches] /\ sweep[w] \in Batches
  BY DEF TypeInv, TypeOK
<1>2. /\ Works => faults' \in Nat
      /\ \A kind : Fails(kind) => faults' \in Nat
  BY DEF TypeInv, TypeOK, Works, Fails
<1>3. UNCHANGED <<pc, ctx, told_>> /\ faults' \in Nat
  BY <1>2 DEF Sweep, SelectExpired, SweepUpload, SweepObject, CommitSweep
<1>4. ControlOK'
  BY <1>3 DEF TypeInv, TypeOK, CtxOK, ControlOK, told_
<1> SUFFICES DbOK' /\ StorageOK' /\ sweep' \in [Workers -> Batches]
  BY <1>3, <1>4 DEF TypeInv, TypeOK, DbOK, StorageOK, ControlOK
<1>a. CASE SelectExpired(w)
  <2> PICK batch \in SUBSET Sessions :
         /\ lock' = [s \in Sessions |-> IF s \in batch THEN w ELSE lock[s]]
         /\ sweep' = [sweep EXCEPT ![w] =
                      [pc |-> "batch", todo |-> batch, at |-> None, swept |-> {}]]
    BY <1>a DEF SelectExpired, Due, TypeInv, TypeOK
  <2>1. [pc |-> "batch", todo |-> batch, at |-> None, swept |-> {}] \in Batches
    BY DEF Batches
  <2>2. sweep' \in [Workers -> Batches]
    BY <1>1, <2>1
  <2>3. QED BY <1>a, <2>2 DEF SelectExpired, TypeInv, TypeOK, DbOK, StorageOK, s3
<1>b. CASE SweepUpload(w)
  <2>1. PICK s \in sweep[w].todo :
         /\ AbortMultipartUpload(s) \/ UNCHANGED s3
         /\ \/ sweep' = [sweep EXCEPT ![w].todo = @ \ {s}, ![w].at = s]
            \/ sweep' = [sweep EXCEPT ![w].todo = @ \ {s}]
    BY <1>b DEF SweepUpload
  <2>2. s \in Sessions
    BY <1>1 DEF Batches
  <2>3. sweep' \in [Workers -> Batches]
    BY <1>1, <2>1, <2>2 DEF Batches
  <2>4. QED BY <1>b, <2>1, <2>2, <2>3, StorageTypes, DbTypes DEF SweepUpload
<1>c. CASE SweepObject(w)
  <2> DEFINE s == sweep[w].at
  <2>1. s \in Sessions
    BY <1>1, <1>c DEF SweepObject, Batches
  <2>2. /\ DeleteObject(s) \/ UNCHANGED s3
        /\ \/ sweep' = [sweep EXCEPT ![w].at = None, ![w].swept = @ \cup {s}]
           \/ sweep' = [sweep EXCEPT ![w].at = None]
    BY <1>c DEF SweepObject
  <2> HIDE DEF s
  <2>3. sweep' \in [Workers -> Batches]
    BY <1>1, <2>1, <2>2 DEF Batches
  <2>4. QED BY <1>c, <2>1, <2>2, <2>3, StorageTypes, DbTypes DEF SweepObject
<1>d. CASE CommitSweep(w)
  <2>1. sweep' \in [Workers -> Batches]
    BY <1>d, <1>1, ContextTypes DEF CommitSweep
  <2>2. lock' \in [Sessions -> Requests \cup Workers \cup {None}]
    BY <1>d DEF CommitSweep, TypeInv, TypeOK, Unlocked
  <2>3. state' \in [Sessions -> {"none", "pending", "completed", "aborted", "purged"}]
    BY <1>d DEF CommitSweep, TypeInv, TypeOK
  <2>4. QED BY <1>d, <2>1, <2>2, <2>3 DEF CommitSweep, TypeInv, TypeOK, DbOK, StorageOK, s3
<1>e. QED BY <1>a, <1>b, <1>c, <1>d DEF Sweep

LEMMA TypeRest ==
  ASSUME TypeInv,
         \/ \E r \in Requests : Crash(r) \/ LoseConnection(r)
         \/ \E w \in Workers : CrashWorker(w) \/ LoseConnection(w)
         \/ \E s \in Sessions : Expire(s) \/ PurgeFinished(s)
  PROVE  TypeInv'
<1> USE DEF TypeInv, TypeOK
<1>1. ASSUME NEW r \in Requests, Crash(r) PROVE TypeInv'
  <2>1. pc[r] # "idle" /\ Silent(r)
    BY <1>1 DEF Crash
  <2>2. ControlOK'
    BY <2>1, ControlTypes
  <2>3. QED BY <1>1, <2>2 DEF Crash, ControlOK, Unlocked, s3
<1>2. ASSUME NEW by, LoseConnection(by) PROVE TypeInv'
  BY <1>2 DEF LoseConnection, Unlocked, CtxOK, s3, told_, Fails
<1>3. ASSUME NEW w \in Workers, CrashWorker(w) PROVE TypeInv'
  BY <1>3, ContextTypes DEF CrashWorker, Unlocked, CtxOK, s3, told_
<1>4. ASSUME NEW s \in Sessions, Expire(s) PROVE TypeInv'
  BY <1>4 DEF Expire, CtxOK, s3, told_, Works
<1>5. ASSUME NEW s \in Sessions, PurgeFinished(s) PROVE TypeInv'
  BY <1>5, ContextTypes DEF PurgeFinished, CtxOK, s3, told_, Works
<1>6. QED BY <1>1, <1>2, <1>3, <1>4, <1>5

LEMMA TypeNext == TypeInv /\ [Next]_vars => TypeInv'
<1> SUFFICES ASSUME TypeInv, [Next]_vars PROVE TypeInv'
  OBVIOUS
<1>1. CASE UNCHANGED vars
  BY <1>1 DEF TypeInv, TypeOK, CtxOK, vars, db, s3, told_
<1>2. QED BY <1>1, TypeArrive, TypeHandle, TypeWorker, TypeRest DEF Next

(* The variables keep their types, whatever fails.                         *)
THEOREM TypeCorrect == Spec => []TypeOK
<1>1. TypeInv => TypeOK
  BY DEF TypeInv
<1>2. QED BY <1>1, TypeInit, TypeNext, PTL DEF Spec

-----------------------------------------------------------------------------
(***************************************************************************)
(* Why no clean-up deletes a published object.  SecretHasObject is not     *)
(* inductive: a step that deletes an object says nothing of secrets.  Its  *)
(* strengthening says who may still delete, and why those objects cannot   *)
(* be, or become, the object of a secret.                                  *)
(***************************************************************************)

(* A request holds a row only between finalize and the commit of its own    *)
(* session, which is pending all that time; once assembled, the object      *)
(* stays until the commit.                                                  *)
LockInv ==
  \A s \in Sessions, r \in Requests :
    lock[s] = r =>
      /\ pc[r] \in {"assemble", "publish"}
      /\ ctx[r].s = s
      /\ state[s] = "pending"
      /\ pc[r] = "publish" => objects[s] # None

(* Who moved a session to aborted may delete its object.                    *)
DiscardInv ==
  \A r \in Requests :
    pc[r] = "remove" => /\ ~Published(ctx[r].s)
                        /\ state[ctx[r].s] \in {"aborted", "purged"}

(* A worker may delete the objects of its batch, even when it has lost its  *)
(* locks: these sessions have expired, so no completion can take the row.   *)
SweepInv ==
  \A w \in Workers, s \in Sessions :
    s \in sweep[w].todo \/ s = sweep[w].at =>
      /\ s \in expired
      /\ ~Published(s)
      /\ lock[s] \notin Requests

(* The rows of both tables agree.                                           *)
PublishedInv ==
  \A s \in Sessions :
    /\ Published(s) => state[s] \in {"completed", "purged"} /\ objects[s] # None
    /\ state[s] = "completed" => Published(s)

(* What clients were told.                                                  *)
ToldInv ==
  \A s \in Sessions :
    /\ <<"created", s>> \in told => Published(s)
    /\ <<"ended", s>> \in told => ~Published(s) /\ state[s] \in {"aborted", "purged"}

SafeInv == LockInv /\ DiscardInv /\ SweepInv /\ PublishedInv /\ ToldInv

LEMMA SafeInit == Init => SafeInv
BY UploadsAssumption
DEF Init, SafeInv, LockInv, DiscardInv, SweepInv, PublishedInv, ToldInv, Published, IdleSweep

(* Most steps of a request touch nothing the invariant is about.            *)
QuietStep(r) ==
  /\ UNCHANGED <<state, expired, secrets, lock, objects, sweep, told>>
  /\ pc[r] \notin {"assemble", "publish"}
  /\ pc'[r] # "remove"
  /\ \A q \in Requests \ {r} : pc'[q] = pc[q] /\ ctx'[q] = ctx[q]

LEMMA SafeQuiet ==
  ASSUME TypeInv, SafeInv, NEW r \in Requests, QuietStep(r)
  PROVE  SafeInv'
BY DEF QuietStep, TypeInv, TypeOK, SafeInv, LockInv, DiscardInv, SweepInv,
       PublishedInv, ToldInv, Published

LEMMA Moves ==
  ASSUME TypeInv, NEW r \in Requests, NEW step
  PROVE  /\ Goto(r, step) => pc'[r] = step /\ \A q \in Requests \ {r} : pc'[q] = pc[q]
         /\ Done(r) => /\ pc'[r] = "idle"
                       /\ \A q \in Requests \ {r} : pc'[q] = pc[q] /\ ctx'[q] = ctx[q]
         /\ Silent(r) => Done(r) /\ UNCHANGED told
         /\ Continue(r, step) => Goto(r, step) /\ UNCHANGED <<ctx, told>>
         /\ AnswerRecorded(r) => Done(r) /\ UNCHANGED told
         /\ \A s, n, c : Begin(r, step, s, n, c) =>
              Goto(r, step) /\ \A q \in Requests \ {r} : ctx'[q] = ctx[q]
BY DEF TypeInv, TypeOK, Goto, Done, Silent, Continue, AnswerRecorded, Begin, told_

(* A request may end with an answer that is true.                            *)
TellsTruth ==
  \A u \in Sessions :
    /\ <<"created", u>> \in told' => Published(u)
    /\ <<"ended", u>> \in told' => ~Published(u) /\ state[u] \in {"aborted", "purged"}

LEMMA Truths ==
  ASSUME TypeInv, SafeInv, NEW r \in Requests, pc[r] # "idle"
  PROVE  /\ AnswerDiscarded(r) => TellsTruth /\ Done(r)
         /\ Tells(r, "created") /\ state[ctx[r].s] = "completed" => TellsTruth /\ Done(r)
<1>1. ctx[r].s \in Sessions
  BY DEF TypeInv, CtxOK
<1>2. ASSUME NEW what \in {"created", "gone"}, Tells(r, what),
             what = "created" => Published(ctx[r].s)
      PROVE  TellsTruth
  <2> SUFFICES ASSUME NEW u \in Sessions
               PROVE  /\ <<"created", u>> \in told' => Published(u)
                      /\ <<"ended", u>> \in told' =>
                           ~Published(u) /\ state[u] \in {"aborted", "purged"}
    BY DEF TellsTruth
  <2>1. told' = told \cup {<<what, ctx[r].s>>}
    BY <1>2 DEF Tells
  <2>2. <<"ended", u>> \in told' => <<"ended", u>> \in told
    <3>1. <<"ended", u>> # <<what, ctx[r].s>>
      BY <1>2
    <3>2. QED BY <2>1, <3>1
  <2>3. <<"created", u>> \in told' =>
          <<"created", u>> \in told \/ (what = "created" /\ u = ctx[r].s)
    <3>1. <<"created", u>> = <<what, ctx[r].s>> => what = "created" /\ u = ctx[r].s
      OBVIOUS
    <3>2. <<"created", u>> \in told' =>
            <<"created", u>> \in told \/ <<"created", u>> = <<what, ctx[r].s>>
      BY <2>1, Zenon
    <3>3. QED BY <3>1, <3>2, Zenon
  <2>4. QED BY <1>2, <2>2, <2>3 DEF SafeInv, ToldInv
<1>3. Silent(r) => TellsTruth
  BY DEF Silent, told_, TellsTruth, SafeInv, ToldInv
<1>4. state[ctx[r].s] = "completed" => Published(ctx[r].s)
  BY <1>1 DEF SafeInv, PublishedInv
<1>5. QED BY <1>2, <1>3, <1>4 DEF AnswerDiscarded, Tells, Silent

LEMMA SafeAnswer ==
  ASSUME TypeInv, SafeInv, NEW r \in Requests, TellsTruth, Done(r),
         UNCHANGED <<state, expired, secrets, lock, objects, sweep>>,
         pc[r] \notin {"assemble", "publish"}
  PROVE  SafeInv'
<1>1. /\ pc'[r] = "idle"
      /\ \A q \in Requests \ {r} : pc'[q] = pc[q] /\ ctx'[q] = ctx[q]
  BY Moves
<1>2. ToldInv'
  BY DEF TellsTruth, ToldInv, Published
<1>3. QED BY <1>1, <1>2 DEF TypeInv, TypeOK, SafeInv, LockInv, DiscardInv, SweepInv,
                            PublishedInv, Published

LEMMA SafeArrive ==
  ASSUME TypeInv, SafeInv, NEW r \in Requests, Arrive(r)
  PROVE  SafeInv'
<1>1. CASE CreateUploadSession(r)
  <2>1. /\ UNCHANGED <<state, expired, secrets, lock, objects, sweep, told>>
        /\ pc[r] = "idle"
    BY <1>1 DEF CreateUploadSession, CreateMultipartUpload, db, told_
  <2>2. PICK s \in Sessions : Begin(r, "exists", s, None, None) \/ UNCHANGED <<pc, ctx>>
    BY <1>1 DEF CreateUploadSession
  <2>3. /\ pc'[r] # "remove"
        /\ \A q \in Requests \ {r} : pc'[q] = pc[q] /\ ctx'[q] = ctx[q]
    BY <2>1, <2>2, Moves
  <2>4. QED BY <2>1, <2>3, SafeQuiet DEF QuietStep
<1>2. CASE UploadPart(r)
  BY <1>2, SafeQuiet, Moves DEF UploadPart, QuietStep, db, s3, told_
<1>3. CASE CompleteUploadSession(r)
  BY <1>3, SafeQuiet, Moves DEF CompleteUploadSession, QuietStep, db, s3, told_
<1>4. CASE AbortUploadSession(r)
  <2>1. ASSUME NEW s \in Sessions, Begin(r, "cancel", s, None, None), told' = told
        PROVE  SafeInv'
    BY <1>4, <2>1, SafeQuiet, Moves DEF AbortUploadSession, QuietStep, db, s3
  <2>2. ASSUME NEW s \in Sessions, state[s] = "aborted",
               told' = told \cup {<<"ended", s>>}, UNCHANGED <<pc, ctx>>
        PROVE  SafeInv'
    BY <1>4, <2>2 DEF AbortUploadSession, db, s3, TypeInv, TypeOK, SafeInv, LockInv,
       DiscardInv, SweepInv, PublishedInv, ToldInv, Published
  <2>3. QED BY <1>4, <2>1, <2>2 DEF AbortUploadSession, told_
<1>5. CASE Refuse(r)
  BY <1>5 DEF Refuse, vars, db, s3, told_, SafeInv, LockInv, DiscardInv, SweepInv,
     PublishedInv, ToldInv, Published
<1>6. QED BY <1>1, <1>2, <1>3, <1>4, <1>5 DEF Arrive

(* A session whose row nobody holds leaves pending, or a new one appears.   *)
LEMMA SafeMarked ==
  ASSUME TypeInv, SafeInv, NEW r \in Requests, NEW s \in Sessions,
         ctx[r].s = s, pc[r] \in {"insert", "discard", "mark"},
         lock[s] \notin Requests,
         \/ state[s] = "pending" /\ state' = [state EXCEPT ![s] = "aborted"]
         \/ state[s] = "none" /\ state' = [state EXCEPT ![s] = "pending"],
         UNCHANGED <<expired, secrets, lock, objects, sweep>>,
         \A q \in Requests \ {r} : pc'[q] = pc[q] /\ ctx'[q] = ctx[q],
         ctx'[r] = ctx[r] \/ pc'[r] = "idle",
         pc'[r] = "remove" => state[s] = "pending",
         told' \ told \subseteq {<<"ended", s>>, <<"gone", s>>},
         told \subseteq told',
         <<"ended", s>> \in told' \ told => state[s] = "pending"
  PROVE  SafeInv'
<1> USE DEF TypeInv, TypeOK, SafeInv, Published
<1>2. \A u \in Sessions : Published(u)' <=> Published(u)
  OBVIOUS
<1>3. ~Published(s)
  BY DEF PublishedInv
<1>4. LockInv'
  <2> SUFFICES ASSUME NEW u \in Sessions, NEW q \in Requests, lock[u] = q
               PROVE  /\ pc'[q] \in {"assemble", "publish"}
                      /\ ctx'[q].s = u
                      /\ state'[u] = "pending"
                      /\ pc'[q] = "publish" => objects'[u] # None
    BY DEF LockInv
  <2>1. /\ pc[q] \in {"assemble", "publish"}
        /\ ctx[q].s = u
        /\ state[u] = "pending"
        /\ pc[q] = "publish" => objects[u] # None
    BY DEF LockInv
  <2>2. u # s /\ q # r
    BY <2>1
  <2>3. QED BY <2>1, <2>2
<1>5. DiscardInv'
  <2> SUFFICES ASSUME NEW q \in Requests, pc'[q] = "remove"
               PROVE  /\ ~Published(ctx'[q].s)
                      /\ state'[ctx'[q].s] \in {"aborted", "purged"}
    BY DEF DiscardInv
  <2>1. CASE q = r
    BY <1>3, <2>1
  <2>2. CASE q # r
    <3>1. /\ ctx[q].s \in Sessions
          /\ ~Published(ctx[q].s)
          /\ state[ctx[q].s] \in {"aborted", "purged"}
      BY <2>2 DEF DiscardInv, CtxOK
    <3>2. QED BY <2>2, <3>1
  <2>3. QED BY <2>1, <2>2
<1>6. SweepInv'
  BY DEF SweepInv
<1>7. PublishedInv'
  BY <1>3 DEF PublishedInv
<1>8. ToldInv'
  <2> SUFFICES ASSUME NEW u \in Sessions
               PROVE  /\ <<"created", u>> \in told' => Published(u)
                      /\ <<"ended", u>> \in told' =>
                           ~Published(u) /\ state'[u] \in {"aborted", "purged"}
    BY <1>2 DEF ToldInv
  <2>1. <<"created", u>> \in told' => Published(u)
    <3>1. <<"created", u>> \notin {<<"ended", s>>, <<"gone", s>>}
      OBVIOUS
    <3>2. <<"created", u>> \in told' => <<"created", u>> \in told
      BY <3>1
    <3>3. QED BY <3>2 DEF ToldInv
  <2>2. CASE <<"ended", u>> \in told
    BY <2>1, <2>2 DEF ToldInv
  <2>3. CASE <<"ended", u>> \in told' \ told
    BY <1>3, <2>1, <2>3
  <2>4. QED BY <2>1, <2>2, <2>3
<1>9. QED BY <1>4, <1>5, <1>6, <1>7, <1>8

LEMMA SafeHandle ==
  ASSUME TypeInv, SafeInv, NEW r \in Requests, Handle(r)
  PROVE  SafeInv'
<1> DEFINE s == ctx[r].s
<1>1. pc[r] # "idle" /\ s \in Sessions
  BY DEF Handle, CheckSecretExists, InsertUploadSession, UndoMultipartUpload,
         ListRecordedParts, StoreUploadPart, FindUploadPart, CreateUploadPart,
         LockUploadSession, AssembleObject, PublishSecret, ClearUploadParts,
         DiscardUpload, RemoveDiscardedObject, CancelMultipartUpload, MarkSessionAborted,
         TypeInv, CtxOK
<1>2. \/ CheckSecretExists(r) \/ UndoMultipartUpload(r) \/ ListRecordedParts(r)
      \/ StoreUploadPart(r) \/ FindUploadPart(r) \/ CreateUploadPart(r)
      \/ ClearUploadParts(r) \/ CancelMultipartUpload(r)
      => SafeInv'
  <2> SUFFICES ASSUME \/ CheckSecretExists(r) \/ UndoMultipartUpload(r) \/ ListRecordedParts(r)
                      \/ StoreUploadPart(r) \/ FindUploadPart(r) \/ CreateUploadPart(r)
                      \/ ClearUploadParts(r) \/ CancelMultipartUpload(r)
               PROVE  QuietStep(r)
    BY SafeQuiet
  <2> USE DEF QuietStep, db, s3
  <2>1. CASE CheckSecretExists(r)
    BY <2>1, Moves DEF CheckSecretExists
  <2>2. CASE UndoMultipartUpload(r)
    BY <2>2, Moves DEF UndoMultipartUpload, AbortMultipartUpload
  <2>3. CASE ListRecordedParts(r)
    BY <2>3, Moves DEF ListRecordedParts
  <2>4. CASE StoreUploadPart(r)
    BY <2>4, Moves DEF StoreUploadPart, StorePart
  <2>5. CASE FindUploadPart(r)
    BY <2>5, Moves DEF FindUploadPart
  <2>6. CASE CreateUploadPart(r)
    BY <2>6, Moves DEF CreateUploadPart
  <2>7. CASE ClearUploadParts(r)
    BY <2>7, Moves DEF ClearUploadParts
  <2>8. CASE CancelMultipartUpload(r)
    BY <2>8, Moves DEF CancelMultipartUpload, AbortMultipartUpload
  <2>9. QED BY <2>1, <2>2, <2>3, <2>4, <2>5, <2>6, <2>7, <2>8
<1>3. CASE InsertUploadSession(r)
  <2>1. CASE UNCHANGED db
    BY <1>3, <2>1, SafeQuiet, Moves DEF InsertUploadSession, QuietStep, db, s3
  <2>2. CASE /\ ~DuplicateSession(s)
             /\ state' = [state EXCEPT ![s] = "pending"]
             /\ UNCHANGED <<expired, parts, secrets, lock>>
    <3>1. state[s] = "none" /\ lock[s] \notin Requests
      BY <1>1, <2>2 DEF DuplicateSession, SafeInv, LockInv
    <3>2. /\ pc[r] = "insert"
          /\ UNCHANGED <<objects, sweep, told>>
          /\ \A q \in Requests \ {r} : pc'[q] = pc[q] /\ ctx'[q] = ctx[q]
          /\ ctx'[r] = ctx[r] \/ pc'[r] = "idle"
          /\ pc'[r] # "remove"
      BY <1>3, Moves DEF InsertUploadSession, s3
    <3>3. QED BY <1>1, <2>2, <3>1, <3>2, SafeMarked
  <2>3. QED BY <1>3, <2>1, <2>2 DEF InsertUploadSession
<1>4. CASE LockUploadSession(r)
  <2> USE DEF LockUploadSession
  <2>1. CASE state[s] = "completed" /\ Tells(r, "created") /\ UNCHANGED lock
    BY <1>1, <1>4, <2>1, Truths, SafeAnswer DEF s3
  <2>2. CASE Silent(r) /\ UNCHANGED lock
    BY <1>4, <2>2, SafeQuiet, Moves DEF QuietStep, s3
  <2>3. CASE /\ validatePendingUploadSession(s)
             /\ lock' = [lock EXCEPT ![s] = r]
             /\ Goto(r, "assemble")
             /\ ctx' = [ctx EXCEPT ![r].etags = parts[s]]
             /\ UNCHANGED told_
    <3>1. /\ state[s] = "pending" /\ s \notin expired /\ lock[s] = None
          /\ UNCHANGED <<state, expired, secrets, objects, sweep, told>>
          /\ pc'[r] = "assemble" /\ ctx'[r].s = s
          /\ \A q \in Requests \ {r} : pc'[q] = pc[q] /\ ctx'[q] = ctx[q]
          /\ \A u \in Sessions \ {s} : lock'[u] = lock[u]
          /\ lock'[s] = r
          /\ pc[r] = "lock"
      BY <1>1, <1>4, <2>3, Moves
      DEF validatePendingUploadSession, TypeInv, TypeOK, Contexts, s3, told_
    <3>2. QED BY <1>1, <3>1
      DEF TypeInv, TypeOK, SafeInv, LockInv, DiscardInv, SweepInv, PublishedInv,
          ToldInv, Published
  <2>4. QED BY <1>4, <2>1, <2>2, <2>3
<1>5. CASE DiscardUpload(r)
  <2> USE DEF DiscardUpload
  <2>1. CASE UNCHANGED db /\ AnswerDiscarded(r)
    BY <1>1, <1>5, <2>1, Truths, SafeAnswer DEF db, s3
  <2>2. CASE /\ state[s] = "pending" /\ MarkUploadSessionAborted(s)
             /\ Continue(r, "remove") \/ AnswerDiscarded(r)
    <3>1. /\ pc[r] = "discard" /\ lock[s] \notin Requests
          /\ state' = [state EXCEPT ![s] = "aborted"]
          /\ UNCHANGED <<expired, secrets, lock, objects, sweep>>
      BY <1>5, <2>2, UploadsAssumption DEF CanMark, MarkUploadSessionAborted, s3
    <3>2. CASE Continue(r, "remove")
      BY <1>1, <2>2, <3>1, <3>2, Moves, SafeMarked
    <3>3. CASE AnswerDiscarded(r)
      <4>1. told \subseteq told' /\ told' \ told \subseteq {<<"gone", s>>} /\ Done(r)
        BY <3>3 DEF AnswerDiscarded, Tells, Silent, told_
      <4>2. <<"ended", s>> \notin told' \ told
        BY <4>1
      <4>3. /\ pc'[r] = "idle"
            /\ \A q \in Requests \ {r} : pc'[q] = pc[q] /\ ctx'[q] = ctx[q]
        BY <4>1, Moves
      <4>4. QED BY <1>1, <2>2, <3>1, <4>1, <4>2, <4>3, SafeMarked
    <3>4. QED BY <2>2, <3>2, <3>3
  <2>3. QED BY <1>5, <2>1, <2>2
<1>6. CASE MarkSessionAborted(r)
  <2>1. CASE UNCHANGED db /\ Silent(r)
    BY <1>6, <2>1, SafeQuiet, Moves DEF MarkSessionAborted, QuietStep, db, s3
  <2>2. CASE state[s] = "pending" /\ MarkUploadSessionAborted(s)
    <3>1. /\ pc[r] = "mark" /\ lock[s] \notin Requests
          /\ state' = [state EXCEPT ![s] = "aborted"]
          /\ UNCHANGED <<expired, secrets, lock, objects, sweep>>
      BY <1>6, <2>2, UploadsAssumption DEF MarkSessionAborted, CanMark, MarkUploadSessionAborted, s3
    <3>2. told \subseteq told' /\ told' \ told \subseteq {<<"ended", s>>} /\ Done(r)
      BY <1>6, <2>2 DEF MarkSessionAborted, Tells, Silent, told_
    <3>3. /\ pc'[r] = "idle"
          /\ \A q \in Requests \ {r} : pc'[q] = pc[q] /\ ctx'[q] = ctx[q]
      BY <3>2, Moves
    <3>4. QED BY <1>1, <2>2, <3>1, <3>2, <3>3, SafeMarked
  <2>3. QED BY <1>6, <2>1, <2>2 DEF MarkSessionAborted
<1>7. CASE RemoveDiscardedObject(r)
  <2>1. /\ pc[r] = "remove" /\ TellsTruth /\ Done(r)
        /\ UNCHANGED <<state, expired, secrets, lock, sweep>>
        /\ objects' = [objects EXCEPT ![s] = None] \/ UNCHANGED objects
    BY <1>1, <1>7, Truths DEF RemoveDiscardedObject, DeleteObject, db, s3
  <2>2. ~Published(s) /\ state[s] # "pending"
    BY <2>1 DEF SafeInv, DiscardInv
  <2>3. /\ pc'[r] = "idle"
        /\ \A q \in Requests \ {r} : pc'[q] = pc[q] /\ ctx'[q] = ctx[q]
    BY <2>1, Moves
  <2>4. \A u \in Sessions \ {s} : objects'[u] = objects[u]
    BY <2>1 DEF TypeInv, TypeOK
  <2>5. ToldInv'
    BY <2>1 DEF TellsTruth, ToldInv, Published
  <2> HIDE DEF s
  <2>6. QED BY <2>1, <2>2, <2>3, <2>4, <2>5
    DEF TypeInv, TypeOK, SafeInv, LockInv, DiscardInv, SweepInv, PublishedInv, Published
<1>8. CASE AssembleObject(r)
  <2>1. ctx[r].etags # None
    BY <1>8, UploadsAssumption DEF AssembleObject, TypeInv, CtxOK
  <2>2. /\ objects'[s] # None \/ objects'[s] = objects[s]
        /\ \A u \in Sessions \ {s} : objects'[u] = objects[u]
    BY <1>1, <1>8, <2>1 DEF AssembleObject, CompleteMultipartUpload, s3, TypeInv, TypeOK
  <2>3. /\ pc[r] = "assemble"
        /\ UNCHANGED <<state, expired, secrets, sweep, told>>
    BY <1>8, Moves DEF AssembleObject, told_
  <2>4. ASSUME lock' = Unlocked(r),
               \A q \in Requests \ {r} : pc'[q] = pc[q] /\ ctx'[q] = ctx[q],
               pc'[r] # "remove"
        PROVE  SafeInv'
    <3>1. \A u \in Sessions : lock'[u] # r /\ (lock'[u] = lock[u] \/ lock'[u] = None)
      BY <2>4, UploadsAssumption DEF Unlocked
    <3> HIDE DEF s
    <3>2. QED BY <2>2, <2>3, <2>4, <3>1, UploadsAssumption
      DEF TypeInv, TypeOK, SafeInv, LockInv, DiscardInv, SweepInv, PublishedInv, ToldInv, Published
  <2>5. ASSUME lock' = lock, objects'[s] # None, Continue(r, "publish")
        PROVE  SafeInv'
    <3>1. /\ pc'[r] = "publish" /\ ctx' = ctx
          /\ \A q \in Requests \ {r} : pc'[q] = pc[q]
      BY <2>5, Moves
    <3>2. LockInv'
      BY <2>2, <2>3, <2>5, <3>1 DEF SafeInv, LockInv
    <3>3. QED BY <2>2, <2>3, <2>5, <3>1, <3>2
      DEF TypeInv, TypeOK, SafeInv, DiscardInv, SweepInv, PublishedInv, ToldInv, Published
  <2>6. CASE Continue(r, "publish") /\ UNCHANGED lock /\ CompleteMultipartUpload(s, ctx[r].etags)
    BY <1>1, <2>1, <2>5, <2>6 DEF CompleteMultipartUpload, TypeInv, TypeOK
  <2>7. CASE Continue(r, "clear") /\ lock' = Unlocked(r)
    BY <2>4, <2>7, Moves
  <2>8. CASE Silent(r) /\ lock' = Unlocked(r)
    BY <2>4, <2>8, Moves
  <2>9. CASE /\ Goto(r, "discard")
             /\ ctx' = [ctx EXCEPT ![r].why = "gone"]
             /\ lock' = Unlocked(r)
    BY <2>4, <2>9, Moves DEF TypeInv, TypeOK
  <2>10. QED BY <1>8, <2>6, <2>7, <2>8, <2>9 DEF AssembleObject
<1>9. CASE PublishSecret(r)
  <2>1. /\ pc[r] = "publish"
        /\ UNCHANGED <<expired, objects, sweep>>
        /\ lock' = Unlocked(r)
    BY <1>9 DEF PublishSecret, CreateSecret, s3
  <2>2. \A u \in Sessions : lock'[u] # r /\ (lock'[u] = lock[u] \/ lock'[u] = None)
    BY <2>1, UploadsAssumption DEF Unlocked
  <2>3. /\ pc'[r] \in {"idle", "discard"}
        /\ \A q \in Requests \ {r} : pc'[q] = pc[q] /\ ctx'[q] = ctx[q]
    BY <1>9, Moves DEF PublishSecret, CreateSecret, Tells, TypeInv, TypeOK
  <2>4. CASE UNCHANGED <<state, secrets, told>>
    BY <2>1, <2>2, <2>3, <2>4, UploadsAssumption
    DEF TypeInv, TypeOK, SafeInv, LockInv, DiscardInv, SweepInv, PublishedInv, ToldInv, Published
  <2>5. ASSUME lock[s] = r,
               secrets[PublicIDOf[s]] = None,
               secrets' = [secrets EXCEPT ![PublicIDOf[s]] = s],
               state' = [state EXCEPT ![s] = "completed"],
               told' = told \/ told' = told \cup {<<"created", s>>}
        PROVE  SafeInv'
    <3>1. state[s] = "pending" /\ objects[s] # None
      BY <1>1, <2>1, <2>5 DEF SafeInv, LockInv
    <3>2. \A u \in Sessions : Published(u)' <=> Published(u) \/ u = s
      <4>1. PublicIDOf[s] \in PublicIDs /\ s # None
        BY <1>1, UploadsAssumption
      <4>2. secrets'[PublicIDOf[s]] = s
        BY <2>5, <4>1 DEF TypeInv, TypeOK
      <4>3. ASSUME NEW u \in Sessions \ {s} PROVE Published(u)' <=> Published(u)
        <5>1. CASE PublicIDOf[u] = PublicIDOf[s]
          <6>1. u # s /\ u # None
            BY UploadsAssumption
          <6> HIDE DEF s
          <6>2. QED BY <2>5, <4>2, <5>1, <6>1 DEF Published
        <5>2. CASE PublicIDOf[u] # PublicIDOf[s]
          <6>1. secrets'[PublicIDOf[u]] = secrets[PublicIDOf[u]]
            BY <2>5, <5>2, UploadsAssumption DEF TypeInv, TypeOK
          <6>2. QED BY <6>1 DEF Published
        <5>3. QED BY <5>1, <5>2
      <4>4. ASSUME NEW u \in Sessions, u = s PROVE Published(u)'
        BY <4>2, <4>4 DEF Published
      <4>5. QED BY <4>3, <4>4
    <3>3. /\ state'[s] = "completed" /\ \A u \in Sessions \ {s} : state'[u] = state[u]
      BY <1>1, <2>5 DEF TypeInv, TypeOK
    <3> HIDE DEF s
    <3>4. LockInv'
      <4> SUFFICES ASSUME NEW u \in Sessions, NEW q \in Requests, lock'[u] = q
                   PROVE  /\ pc'[q] \in {"assemble", "publish"}
                          /\ ctx'[q].s = u
                          /\ state'[u] = "pending"
                          /\ pc'[q] = "publish" => objects'[u] # None
        BY DEF LockInv
      <4>1. q # r /\ lock[u] = q
        BY <2>2, UploadsAssumption
      <4>2. u # s
        BY <2>5, <4>1
      <4>3. QED BY <2>1, <2>3, <3>3, <4>1, <4>2 DEF SafeInv, LockInv
    <3>5. DiscardInv'
      BY <2>3, <3>1, <3>2, <3>3 DEF SafeInv, DiscardInv, TypeInv, CtxOK
    <3>6. SweepInv'
      <4>1. \A w \in Workers : s \notin sweep[w].todo /\ s # sweep[w].at
        BY <1>1, <2>5 DEF SafeInv, SweepInv
      <4>2. \A u \in Sessions : lock'[u] \in Requests => lock[u] \in Requests
        BY <2>2, UploadsAssumption
      <4>3. QED BY <2>1, <3>2, <4>1, <4>2 DEF SafeInv, SweepInv
    <3>7. PublishedInv'
      BY <2>1, <3>1, <3>2, <3>3 DEF SafeInv, PublishedInv
    <3>8. ToldInv'
      <4> SUFFICES ASSUME NEW u \in Sessions
                   PROVE  /\ <<"created", u>> \in told' => Published(u)'
                          /\ <<"ended", u>> \in told' =>
                               ~Published(u)' /\ state'[u] \in {"aborted", "purged"}
        BY DEF ToldInv
      <4>1. <<"ended", u>> # <<"created", s>>
        OBVIOUS
      <4>2. <<"created", u>> = <<"created", s>> => u = s
        OBVIOUS
      <4>3. <<"ended", u>> \in told' => u # s /\ <<"ended", u>> \in told
        BY <1>1, <2>5, <3>1, <4>1 DEF SafeInv, ToldInv
      <4>4. <<"created", u>> \in told' => u = s \/ <<"created", u>> \in told
        BY <2>5, <4>2
      <4>5. QED BY <3>2, <3>3, <4>3, <4>4 DEF SafeInv, ToldInv
    <3>9. QED BY <3>4, <3>5, <3>6, <3>7, <3>8 DEF SafeInv
  <2>6. QED BY <1>9, <2>4, <2>5, Moves DEF PublishSecret, CreateSecret, Tells, told_
<1>q. QED BY <1>2, <1>3, <1>4, <1>5, <1>6, <1>7, <1>8, <1>9 DEF Handle

LEMMA SafeWorker ==
  ASSUME TypeInv, SafeInv, NEW w \in Workers, Sweep(w)
  PROVE  SafeInv'
<1>1. CASE SelectExpired(w)
  <2>1. PICK batch \in SUBSET Due \ {{}} :
          /\ lock' = [u \in Sessions |-> IF u \in batch THEN w ELSE lock[u]]
          /\ sweep' = [sweep EXCEPT ![w] =
                         [pc |-> "batch", todo |-> batch, at |-> None, swept |-> {}]]
    BY <1>1 DEF SelectExpired
  <2>2. /\ UNCHANGED <<state, expired, secrets, objects, pc, ctx, told>>
        /\ w \notin Requests /\ None \notin Sessions
    BY <1>1, UploadsAssumption DEF SelectExpired, s3, told_
  <2>3. \A u \in batch : u \in expired /\ ~Published(u)
    BY DEF Due, SafeInv, PublishedInv, TypeInv, TypeOK
  <2>4. \A u \in Sessions : IF u \in batch THEN lock'[u] = w ELSE lock'[u] = lock[u]
    BY <2>1
  <2>5. /\ sweep'[w].todo = batch /\ sweep'[w].at = None
        /\ \A v \in Workers \ {w} : sweep'[v] = sweep[v]
    BY <2>1 DEF TypeInv, TypeOK
  <2>6. LockInv'
    BY <2>2, <2>4 DEF SafeInv, LockInv
  <2>7. SweepInv'
    <3> SUFFICES ASSUME NEW v \in Workers, NEW u \in Sessions,
                        u \in sweep'[v].todo \/ u = sweep'[v].at
                 PROVE  u \in expired /\ ~Published(u) /\ lock'[u] \notin Requests
      BY <2>2 DEF SweepInv, Published
    <3>1. CASE v = w
      BY <2>2, <2>3, <2>4, <2>5, <3>1
    <3>2. CASE v # w
      BY <2>2, <2>4, <2>5, <3>2 DEF SafeInv, SweepInv
    <3>3. QED BY <3>1, <3>2
  <2>8. QED BY <2>2, <2>6, <2>7 DEF SafeInv, DiscardInv, PublishedInv, ToldInv, Published
<1>2. CASE SweepUpload(w)
  <2>1. UNCHANGED <<state, expired, secrets, lock, objects, pc, ctx, told>>
    BY <1>2 DEF SweepUpload, AbortMultipartUpload, s3, db, told_
  <2>2. \A v \in Workers, u \in Sessions :
          u \in sweep'[v].todo \/ u = sweep'[v].at => u \in sweep[v].todo \/ u = sweep[v].at
    BY <1>2 DEF SweepUpload, TypeInv, TypeOK, Batches
  <2>3. QED BY <2>1, <2>2
    DEF SafeInv, LockInv, DiscardInv, SweepInv, PublishedInv, ToldInv, Published
<1>3. CASE SweepObject(w)
  <2> DEFINE s == sweep[w].at
  <2>1. /\ UNCHANGED <<state, expired, secrets, lock, pc, ctx, told>>
        /\ objects' = [objects EXCEPT ![s] = None] \/ UNCHANGED objects
        /\ s \in Sessions
    <3>1. s # None
      BY <1>3 DEF SweepObject
    <3>2. s \in Sessions
      BY <3>1 DEF TypeInv, TypeOK, Batches
    <3>3. QED BY <1>3, <3>2 DEF SweepObject, DeleteObject, s3, db, told_
  <2>2. \A v \in Workers, u \in Sessions :
          u \in sweep'[v].todo \/ u = sweep'[v].at => u \in sweep[v].todo \/ u = sweep[v].at
    <3>1. \A v \in Workers : /\ sweep'[v].todo = sweep[v].todo
                             /\ sweep'[v].at \in {sweep[v].at, None}
      <4>1. CASE sweep' = [sweep EXCEPT ![w].at = None]
        BY <4>1 DEF TypeInv, TypeOK, Batches
      <4>2. CASE sweep' = [sweep EXCEPT ![w].at = None, ![w].swept = @ \cup {s}]
        BY <4>2 DEF TypeInv, TypeOK, Batches
      <4>3. QED BY <1>3, <4>1, <4>2 DEF SweepObject
    <3>2. QED BY <3>1, UploadsAssumption
  <2>3. ~Published(s) /\ lock[s] \notin Requests
    BY <2>1 DEF SafeInv, SweepInv
  <2>4. \A u \in Sessions \ {s} : objects'[u] = objects[u]
    BY <2>1 DEF TypeInv, TypeOK
  <2> HIDE DEF s
  <2>5. QED BY <2>1, <2>2, <2>3, <2>4
    DEF SafeInv, LockInv, DiscardInv, SweepInv, PublishedInv, ToldInv, Published
<1>4. CASE CommitSweep(w)
  <2>1. /\ UNCHANGED <<expired, secrets, objects, pc, ctx, told>>
        /\ lock' = Unlocked(w)
        /\ sweep' = [sweep EXCEPT ![w] = IdleSweep]
    BY <1>4 DEF CommitSweep, s3, told_
  <2>2. \A u \in Sessions : lock'[u] \in {lock[u], None}
    BY <2>1 DEF Unlocked
  <2>3. /\ sweep'[w].todo = {} /\ sweep'[w].at = None
        /\ \A v \in Workers \ {w} : sweep'[v] = sweep[v]
    BY <2>1 DEF TypeInv, TypeOK, IdleSweep
  <2>4. \A u \in Sessions : \/ state'[u] = state[u]
                            \/ state[u] = "pending" /\ state'[u] = "aborted" /\ lock[u] = w
    BY <1>4 DEF CommitSweep
  <2>5. w \notin Requests /\ None \notin Requests \cup Sessions
    BY UploadsAssumption
  <2>6. LockInv'
    BY <2>1, <2>2, <2>4, <2>5 DEF SafeInv, LockInv
  <2>7. DiscardInv'
    BY <2>1, <2>4 DEF SafeInv, DiscardInv, Published, TypeInv, CtxOK
  <2>8. SweepInv'
    BY <2>1, <2>2, <2>3, <2>5 DEF SafeInv, SweepInv, Published
  <2>9. PublishedInv' /\ ToldInv'
    BY <2>1, <2>4 DEF SafeInv, PublishedInv, ToldInv, Published
  <2>10. QED BY <2>6, <2>7, <2>8, <2>9 DEF SafeInv
<1>5. QED BY <1>1, <1>2, <1>3, <1>4 DEF Sweep

LEMMA SafeRest ==
  ASSUME TypeInv, SafeInv
  PROVE  /\ \A r \in Requests : Crash(r) => SafeInv'
         /\ \A by : LoseConnection(by) => SafeInv'
         /\ \A w \in Workers : CrashWorker(w) => SafeInv'
         /\ \A s \in Sessions : Expire(s) => SafeInv'
         /\ \A s \in Sessions : PurgeFinished(s) => SafeInv'
<1> USE DEF SafeInv, Published
<1>1. ASSUME NEW by, lock' = Unlocked(by)
      PROVE  \A u \in Sessions : lock'[u] = None \/ (lock'[u] = lock[u] /\ lock[u] # by)
  BY <1>1 DEF Unlocked
<1>2. None \notin Requests \cup Sessions
  BY UploadsAssumption
<1>3. ASSUME NEW r \in Requests, Crash(r) PROVE SafeInv'
  <2>1. /\ UNCHANGED <<state, expired, secrets, objects, sweep, told>>
        /\ lock' = Unlocked(r)
        /\ pc'[r] = "idle"
        /\ \A q \in Requests \ {r} : pc'[q] = pc[q] /\ ctx'[q] = ctx[q]
    BY <1>3, Moves DEF Crash, s3
  <2>2. \A u \in Sessions : lock'[u] = None \/ (lock'[u] = lock[u] /\ lock[u] # r)
    BY <1>1, <2>1
  <2>3. QED BY <1>2, <2>1, <2>2 DEF LockInv, DiscardInv, SweepInv, PublishedInv, ToldInv
<1>4. ASSUME NEW by, LoseConnection(by) PROVE SafeInv'
  <2>1. /\ UNCHANGED <<state, expired, secrets, objects, sweep, told, pc, ctx>>
        /\ lock' = Unlocked(by)
    BY <1>4 DEF LoseConnection, s3, told_
  <2>2. \A u \in Sessions : lock'[u] = None \/ (lock'[u] = lock[u] /\ lock[u] # by)
    BY <1>1, <2>1
  <2>3. QED BY <1>2, <2>1, <2>2 DEF LockInv, DiscardInv, SweepInv, PublishedInv, ToldInv
<1>5. ASSUME NEW w \in Workers, CrashWorker(w) PROVE SafeInv'
  <2>1. /\ UNCHANGED <<state, expired, secrets, objects, told, pc, ctx>>
        /\ lock' = Unlocked(w)
        /\ sweep'[w].todo = {} /\ sweep'[w].at = None
        /\ \A v \in Workers \ {w} : sweep'[v] = sweep[v]
    BY <1>5 DEF CrashWorker, s3, told_, TypeInv, TypeOK, IdleSweep
  <2>2. \A u \in Sessions : lock'[u] = None \/ (lock'[u] = lock[u] /\ lock[u] # w)
    BY <1>1, <2>1
  <2>3. QED BY <1>2, <2>1, <2>2 DEF LockInv, DiscardInv, SweepInv, PublishedInv, ToldInv
<1>6. ASSUME NEW s \in Sessions, Expire(s) PROVE SafeInv'
  BY <1>6 DEF Expire, s3, told_, LockInv, DiscardInv, SweepInv, PublishedInv, ToldInv
<1>7. ASSUME NEW s \in Sessions, PurgeFinished(s) PROVE SafeInv'
  <2>1. /\ UNCHANGED <<expired, secrets, lock, objects, sweep, told, pc, ctx>>
        /\ state[s] \in {"completed", "aborted"}
        /\ state'[s] = "purged"
        /\ \A u \in Sessions \ {s} : state'[u] = state[u]
    BY <1>7 DEF PurgeFinished, s3, told_, TypeInv, TypeOK
  <2>2. DiscardInv'
    BY <2>1 DEF DiscardInv, TypeInv, CtxOK
  <2>3. QED BY <2>1, <2>2 DEF LockInv, SweepInv, PublishedInv, ToldInv
<1>8. QED BY <1>3, <1>4, <1>5, <1>6, <1>7

LEMMA SafeNext == TypeInv /\ SafeInv /\ [Next]_vars => SafeInv'
<1> SUFFICES ASSUME TypeInv, SafeInv, [Next]_vars PROVE SafeInv'
  OBVIOUS
<1>1. CASE UNCHANGED vars
  BY <1>1 DEF SafeInv, LockInv, DiscardInv, SweepInv, PublishedInv, ToldInv, Published,
              vars, db, s3, told_
<1>2. QED BY <1>1, SafeArrive, SafeHandle, SafeWorker, SafeRest DEF Next

LEMMA Safe == Spec => [](TypeInv /\ SafeInv)
BY TypeInit, TypeNext, SafeInit, SafeNext, PTL DEF Spec

(***************************************************************************)
(* No completion, abort, sweep, discard, crash or lost connection, in any   *)
(* order and number, leaves a secret row without its object.                *)
(***************************************************************************)
THEOREM ObjectsAreKept == Spec => []SecretHasObject
<1>1. SafeInv => SecretHasObject
  BY DEF SafeInv, PublishedInv, SecretHasObject
<1>2. QED BY <1>1, Safe, PTL

(***************************************************************************)
(* A client answered 201 by a completion has a secret, from then on.        *)
(***************************************************************************)
THEOREM CreatedStays == Spec => []CreatedIsDurable
<1>1. SafeInv => CreatedIsDurable
  BY DEF SafeInv, PublishedInv, ToldInv, CreatedIsDurable
<1>2. QED BY <1>1, Safe, PTL

(***************************************************************************)
(* A client answered 204 by an abort never has its secret published.        *)
(***************************************************************************)
THEOREM AbortIsFinal == Spec => []AbortedIsNeverPublished
<1>1. SafeInv => AbortedIsNeverPublished
  BY DEF SafeInv, ToldInv, AbortedIsNeverPublished
<1>2. QED BY <1>1, Safe, PTL

-----------------------------------------------------------------------------
(***************************************************************************)
(* What holds of parts that were acknowledged and of uploads that were     *)
(* refused.  Both rest on the directions everything moves in.              *)
(***************************************************************************)

(* Sessions never go back, secrets are never replaced, an upload is opened  *)
(* only for a session that is not there yet, only who has assembled an      *)
(* object publishes, and parts are sent only for a session that is there.   *)
Forward ==
  /\ \A s \in Sessions : state[s] # "none" =>
       state'[s] # "none" /\ (state'[s] = "pending" => state[s] = "pending")
  /\ \A p \in PublicIDs : secrets[p] # None => secrets'[p] = secrets[p]
  /\ \A s \in Sessions : s \in open' => s \in open \/ state[s] = "none"
  /\ \A s \in Sessions : Published(s)' =>
       Published(s) \/ \E q \in Requests : pc[q] = "publish" /\ ctx[q].s = s
  /\ \A q \in Requests : pc'[q] = "publish" =>
       ctx'[q].s = ctx[q].s /\ (pc[q] = "publish" \/ ctx[q].s \in open)
  /\ \A q \in Requests : pc'[q] \in PartSteps =>
       (pc[q] \in PartSteps /\ ctx'[q].s = ctx[q].s) \/ state[ctx'[q].s] # "none"

(* A step of one request that changes neither sessions nor secrets.         *)
LEMMA ForwardQuiet ==
  ASSUME TypeInv, NEW r \in Requests, UNCHANGED <<state, secrets>>, open' \subseteq open,
         \A q \in Requests \ {r} : pc'[q] = pc[q] /\ ctx'[q] = ctx[q],
         pc'[r] = "publish" => ctx'[r].s = ctx[r].s /\ ctx[r].s \in open,
         pc'[r] \in PartSteps =>
           (pc[r] \in PartSteps /\ ctx'[r].s = ctx[r].s) \/ state[ctx'[r].s] # "none"
  PROVE  Forward
<1>1. \A q \in Requests : pc'[q] = "publish" =>
        ctx'[q].s = ctx[q].s /\ (pc[q] = "publish" \/ ctx[q].s \in open)
  OBVIOUS
<1>2. \A q \in Requests : pc'[q] \in PartSteps =>
        (pc[q] \in PartSteps /\ ctx'[q].s = ctx[q].s) \/ state[ctx'[q].s] # "none"
  OBVIOUS
<1>3. QED BY <1>1, <1>2 DEF Forward, Published

(* A step that moves sessions on.                                           *)
LEMMA ForwardState ==
  ASSUME TypeInv, UNCHANGED <<secrets, open>>,
         \A s \in Sessions : \/ state'[s] = state[s]
                             \/ state[s] = "none"
                             \/ state'[s] \in {"completed", "aborted", "purged"},
         \A q \in Requests : \/ pc'[q] = pc[q] /\ ctx'[q] = ctx[q]
                             \/ pc'[q] \notin PartSteps \cup {"publish"}
  PROVE  Forward
<1>1. \A q \in Requests : pc'[q] \in PartSteps \/ pc'[q] = "publish" => pc'[q] = pc[q] /\ ctx'[q] = ctx[q]
  OBVIOUS
<1>2. QED BY <1>1 DEF Forward, Published

(* Requests that arrive.                                                    *)
LEMMA ForwardArrive ==
  ASSUME TypeInv, NEW r \in Requests, Arrive(r)
  PROVE  Forward
<1>1. CASE CreateUploadSession(r)
  <2>1. UNCHANGED <<state, secrets>>
    BY <1>1 DEF CreateUploadSession, db
  <2>2. PICK s \in Sessions : /\ Fresh(s) /\ open' = open \cup {s}
                              /\ Begin(r, "exists", s, None, None) \/ UNCHANGED <<pc, ctx>>
    BY <1>1 DEF CreateUploadSession, CreateMultipartUpload
  <2>3. \A q \in Requests : \/ pc'[q] = pc[q] /\ ctx'[q] = ctx[q]
                            \/ pc'[q] = "exists"
    BY <2>2, Moves
  <2>4. \A u \in Sessions : u \in open' => u \in open \/ state[u] = "none"
    BY <2>2 DEF Fresh
  <2>5. QED BY <2>1, <2>3, <2>4 DEF Forward, Published, PartSteps
<1>2. CASE UploadPart(r)
  <2>1. UNCHANGED <<state, secrets, open>>
    BY <1>2 DEF UploadPart, db, s3
  <2>2. PICK s \in Sessions, n \in Parts, c \in Contents :
          state[s] = "pending" /\ Begin(r, "list", s, n, c)
    BY <1>2 DEF UploadPart, validatePendingUploadSession
  <2>3. /\ pc'[r] = "list" /\ ctx'[r].s = s
        /\ \A q \in Requests \ {r} : pc'[q] = pc[q] /\ ctx'[q] = ctx[q]
    <3>1. ctx'[r] = Ctx(s, n, c)
      BY <2>2 DEF Begin, TypeInv, TypeOK
    <3>2. ctx'[r].s = s
      BY <3>1, ContextTypes
    <3>3. QED BY <2>2, <3>2, Moves
  <2>4. QED BY <2>1, <2>2, <2>3, ForwardQuiet DEF PartSteps
<1>3. CASE CompleteUploadSession(r) \/ AbortUploadSession(r)
  <2>1. UNCHANGED <<state, secrets, open>>
    BY <1>3 DEF CompleteUploadSession, AbortUploadSession, db, s3
  <2>2. \/ \E s \in Sessions : Begin(r, "lock", s, None, None) \/ Begin(r, "cancel", s, None, None)
        \/ UNCHANGED <<pc, ctx>>
    BY <1>3 DEF CompleteUploadSession, AbortUploadSession
  <2>3. \A q \in Requests : \/ pc'[q] = pc[q] /\ ctx'[q] = ctx[q]
                            \/ pc'[q] \in {"lock", "cancel"}
    BY <2>2, Moves
  <2>4. QED BY <2>1, <2>3, ForwardState DEF PartSteps
<1>4. CASE Refuse(r)
  BY <1>4, ForwardState DEF Refuse, vars, db, s3
<1>5. QED BY <1>1, <1>2, <1>3, <1>4 DEF Arrive

(* Requests that go on.                                                     *)
LEMMA ForwardHandle ==
  ASSUME TypeInv, SafeInv, NEW r \in Requests, Handle(r)
  PROVE  Forward
<1> DEFINE s == ctx[r].s
<1>0. {"insert", "undo", "clear", "discard", "remove", "mark", "idle", "assemble"}
        \cap (PartSteps \cup {"publish"}) = {} /\ "publish" \notin PartSteps
  BY DEF PartSteps
<1>1. CASE CheckSecretExists(r) \/ UndoMultipartUpload(r) \/ CancelMultipartUpload(r)
           \/ ClearUploadParts(r) \/ RemoveDiscardedObject(r)
  <2>1. UNCHANGED <<state, secrets>> /\ open' \subseteq open
    BY <1>1 DEF CheckSecretExists, UndoMultipartUpload, CancelMultipartUpload, ClearUploadParts,
       RemoveDiscardedObject, AbortMultipartUpload, DeleteObject, db, s3
  <2>2. \/ Done(r)
        \/ \E step \in {"insert", "undo", "mark"} : Continue(r, step)
    BY <1>1 DEF CheckSecretExists, UndoMultipartUpload, CancelMultipartUpload, ClearUploadParts,
       RemoveDiscardedObject, AnswerDiscarded, Tells, Silent
  <2>3. /\ pc'[r] \in {"insert", "undo", "mark", "idle"}
        /\ \A q \in Requests \ {r} : pc'[q] = pc[q] /\ ctx'[q] = ctx[q]
    BY <2>2, Moves
  <2>4. QED BY <1>0, <2>1, <2>3, ForwardQuiet
<1>2. CASE ListRecordedParts(r) \/ StoreUploadPart(r) \/ FindUploadPart(r) \/ CreateUploadPart(r)
  <2>1. UNCHANGED <<state, secrets, open>> /\ pc[r] \in PartSteps
    BY <1>2 DEF ListRecordedParts, StoreUploadPart, FindUploadPart, CreateUploadPart,
       StorePart, db, s3, PartSteps
  <2>2. \/ Done(r)
        \/ \E step \in {"store", "find", "record"} : Continue(r, step)
    BY <1>2 DEF ListRecordedParts, StoreUploadPart, FindUploadPart, CreateUploadPart,
       AnswerRecorded, Silent
  <2>3. /\ \/ pc'[r] = "idle"
           \/ pc'[r] \in {"store", "find", "record"} /\ ctx' = ctx
        /\ \A q \in Requests \ {r} : pc'[q] = pc[q] /\ ctx'[q] = ctx[q]
    BY <2>2, Moves
  <2>4. QED BY <1>0, <2>1, <2>3, ForwardQuiet DEF PartSteps
<1>3. CASE LockUploadSession(r)
  <2>1. UNCHANGED <<state, secrets, open>>
    BY <1>3 DEF LockUploadSession, s3
  <2>2. Done(r) \/ (Goto(r, "assemble") /\ ctx' = [ctx EXCEPT ![r].etags = parts[s]])
    BY <1>3 DEF LockUploadSession, Tells, Silent
  <2>3. /\ pc'[r] \in {"assemble", "idle"}
        /\ \A q \in Requests \ {r} : pc'[q] = pc[q] /\ ctx'[q] = ctx[q]
    BY <2>2, Moves DEF TypeInv, TypeOK
  <2>4. QED BY <1>0, <2>1, <2>3, ForwardQuiet
<1>4. CASE AssembleObject(r)
  <2>1. UNCHANGED <<state, secrets>> /\ open' \subseteq open
    BY <1>4 DEF AssembleObject, CompleteMultipartUpload, s3
  <2>2. \/ Done(r)
        \/ Continue(r, "publish") /\ s \in open
        \/ Continue(r, "clear")
        \/ Goto(r, "discard") /\ ctx' = [ctx EXCEPT ![r].why = "gone"]
    BY <1>4 DEF AssembleObject, Silent
  <2>3. /\ \/ pc'[r] \in {"clear", "discard", "idle"}
           \/ pc'[r] = "publish" /\ ctx' = ctx /\ s \in open
        /\ \A q \in Requests \ {r} : pc'[q] = pc[q] /\ ctx'[q] = ctx[q]
    BY <2>2, Moves DEF TypeInv, TypeOK
  <2>4. QED BY <1>0, <2>1, <2>3, ForwardQuiet
<1>5. CASE InsertUploadSession(r) \/ DiscardUpload(r) \/ MarkSessionAborted(r)
  <2>0. s \in Sessions
    BY <1>5 DEF InsertUploadSession, DiscardUpload, MarkSessionAborted, TypeInv, CtxOK
  <2>1. /\ UNCHANGED <<secrets, open>>
        /\ \/ state' = state
           \/ state[s] = "none" /\ state' = [state EXCEPT ![s] = "pending"]
           \/ state' = [state EXCEPT ![s] = "aborted"]
    BY <1>5 DEF InsertUploadSession, DiscardUpload, MarkSessionAborted, DuplicateSession,
       MarkUploadSessionAborted, db, s3
  <2>2. \A u \in Sessions : \/ state'[u] = state[u]
                            \/ state[u] = "none"
                            \/ state'[u] \in {"completed", "aborted", "purged"}
    BY <2>0, <2>1 DEF TypeInv, TypeOK
  <2>3. \/ Done(r)
        \/ \E step \in {"undo", "remove"} : Continue(r, step)
    BY <1>5 DEF InsertUploadSession, DiscardUpload, MarkSessionAborted, AnswerDiscarded, Tells, Silent
  <2>4. /\ pc'[r] \in {"undo", "remove", "idle"}
        /\ \A q \in Requests \ {r} : pc'[q] = pc[q] /\ ctx'[q] = ctx[q]
    BY <2>3, Moves
  <2>5. \A q \in Requests : \/ pc'[q] = pc[q] /\ ctx'[q] = ctx[q]
                            \/ pc'[q] \notin PartSteps \cup {"publish"}
    BY <1>0, <2>4
  <2>6. QED BY <2>1, <2>2, <2>5, ForwardState
<1>6. CASE PublishSecret(r)
  <2>0. pc[r] = "publish" /\ open' = open /\ s \in Sessions
    BY <1>6 DEF PublishSecret, s3, TypeInv, CtxOK
  <2>1. /\ pc'[r] \in {"idle", "discard"}
        /\ \A q \in Requests \ {r} : pc'[q] = pc[q] /\ ctx'[q] = ctx[q]
    BY <1>6, Moves DEF PublishSecret, CreateSecret, Tells, TypeInv, TypeOK
  <2>2. \A q \in Requests : \/ pc'[q] = pc[q] /\ ctx'[q] = ctx[q]
                            \/ pc'[q] \notin PartSteps \cup {"publish"}
    BY <1>0, <2>1
  <2>3. CASE UNCHANGED <<state, secrets>>
    BY <2>0, <2>2, <2>3, ForwardState
  <2>4. CASE /\ CreateSecret(s)
             /\ state' = [state EXCEPT ![s] = "completed"]
    <3>1. PublicIDOf[s] \in PublicIDs
      BY <2>0, UploadsAssumption
    <3>2. /\ state'[s] = "completed" /\ \A u \in Sessions \ {s} : state'[u] = state[u]
          /\ secrets[PublicIDOf[s]] = None /\ secrets'[PublicIDOf[s]] = s
          /\ \A p \in PublicIDs \ {PublicIDOf[s]} : secrets'[p] = secrets[p]
      BY <2>0, <2>4, <3>1 DEF CreateSecret, TypeInv, TypeOK
    <3>3. \A u \in Sessions : Published(u)' => Published(u) \/ u = s
      BY <3>2, UploadsAssumption DEF Published
    <3>4. \A u \in Sessions : Published(u)' =>
            Published(u) \/ \E q \in Requests : pc[q] = "publish" /\ ctx[q].s = u
      BY <2>0, <3>3
    <3>5. \A p \in PublicIDs : secrets[p] # None => secrets'[p] = secrets[p]
      BY <3>2
    <3>6. \A u \in Sessions : state[u] # "none" =>
            state'[u] # "none" /\ (state'[u] = "pending" => state[u] = "pending")
      BY <3>2
    <3>7. \A q \in Requests : pc'[q] = "publish" =>
            ctx'[q].s = ctx[q].s /\ (pc[q] = "publish" \/ ctx[q].s \in open)
      BY <2>2
    <3>8. \A q \in Requests : pc'[q] \in PartSteps =>
            (pc[q] \in PartSteps /\ ctx'[q].s = ctx[q].s) \/ state[ctx'[q].s] # "none"
      BY <2>2
    <3>9. QED BY <2>0, <3>4, <3>5, <3>6, <3>7, <3>8 DEF Forward
  <2>5. QED BY <1>6, <2>3, <2>4 DEF PublishSecret
<1>7. QED BY <1>1, <1>2, <1>3, <1>4, <1>5, <1>6 DEF Handle

(* Every step.                                                              *)
LEMMA ForwardNext ==
  ASSUME TypeInv, SafeInv, [Next]_vars
  PROVE  Forward
<1>1. CASE UNCHANGED <<state, secrets, pc, ctx>> /\ open' \subseteq open
  BY <1>1 DEF Forward, Published
<1>2. ASSUME NEW r \in Requests, Crash(r) PROVE Forward
  <2>1. UNCHANGED <<state, secrets, open>> /\ Done(r)
    BY <1>2 DEF Crash, s3, Silent
  <2>2. pc'[r] = "idle" /\ \A q \in Requests \ {r} : pc'[q] = pc[q] /\ ctx'[q] = ctx[q]
    BY <2>1, Moves
  <2>3. QED BY <2>1, <2>2, ForwardQuiet DEF PartSteps
<1>3. ASSUME NEW w \in Workers, Sweep(w) PROVE Forward
  <2>1. CASE SelectExpired(w) \/ SweepUpload(w) \/ SweepObject(w)
    BY <1>1, <2>1 DEF SelectExpired, SweepUpload, SweepObject, AbortMultipartUpload, DeleteObject, db, s3
  <2>2. CASE CommitSweep(w)
    <3>1. /\ UNCHANGED <<secrets, open, pc, ctx>>
          /\ \A u \in Sessions : state'[u] = state[u] \/ state'[u] = "aborted"
      BY <2>2 DEF CommitSweep, s3
    <3>2. QED BY <3>1, ForwardState
  <2>3. QED BY <1>3, <2>1, <2>2 DEF Sweep
<1>4. ASSUME NEW u \in Sessions, PurgeFinished(u) PROVE Forward
  <2>1. /\ UNCHANGED <<secrets, open, pc, ctx>>
        /\ \A v \in Sessions : state'[v] = state[v] \/ state'[v] = "purged"
    BY <1>4 DEF PurgeFinished, s3, TypeInv, TypeOK
  <2>2. QED BY <2>1, ForwardState
<1>5. \/ \E r \in Requests : Arrive(r) \/ Handle(r) \/ Crash(r)
      \/ \E w \in Workers : Sweep(w)
      \/ \E u \in Sessions : PurgeFinished(u)
      \/ UNCHANGED <<state, secrets, pc, ctx>> /\ open' \subseteq open
  BY DEF Next, vars, db, s3, LoseConnection, CrashWorker, Expire
<1>6. QED BY <1>1, <1>2, <1>3, <1>4, <1>5, ForwardArrive, ForwardHandle

(* A part is acknowledged for a session that is there, and while that is    *)
(* pending the part is recorded as it was acknowledged.                     *)
PartsInv ==
  /\ \A r \in Requests : pc[r] \in PartSteps => state[ctx[r].s] # "none"
  /\ \A s \in Sessions, n \in Parts, c \in Contents : <<s, n, c>> \in acked => state[s] # "none"
  /\ AcknowledgedPartStays

(* A step keeps that if what it records was not recorded before, or nobody  *)
(* was told, or the session has ended.                                      *)
LEMMA PartsKept ==
  ASSUME TypeInv, TypeInv', PartsInv, Forward,
         \A s \in Sessions, n \in Parts, c \in Contents : <<s, n, c>> \in acked' =>
           <<s, n, c>> \in acked \/ (state[s] # "none" /\ parts'[s][n] = c),
         \A s \in Sessions, n \in Parts :
           \/ parts'[s][n] = parts[s][n]
           \/ parts[s][n] = None
           \/ state'[s] # "pending"
           \/ \A c \in Contents : <<s, n, c>> \notin acked'
  PROVE  PartsInv'
<1>1. ASSUME NEW r \in Requests, pc'[r] \in PartSteps PROVE state'[ctx'[r].s] # "none"
  <2>1. ctx'[r].s \in Sessions
    BY <1>1 DEF TypeInv, CtxOK, PartSteps
  <2>2. state[ctx'[r].s] # "none"
    BY <1>1 DEF Forward, PartsInv
  <2>3. QED BY <2>1, <2>2 DEF Forward
<1>2. ASSUME NEW s \in Sessions, NEW n \in Parts, NEW c \in Contents, <<s, n, c>> \in acked'
      PROVE  state'[s] # "none" /\ (state'[s] = "pending" => parts'[s][n] = c)
  <2>1. state[s] # "none"
    BY <1>2 DEF PartsInv
  <2>2. state'[s] # "none" /\ (state'[s] = "pending" => state[s] = "pending")
    BY <2>1 DEF Forward
  <2>3. <<s, n, c>> \in acked /\ state[s] = "pending" => parts[s][n] = c
    BY DEF PartsInv, AcknowledgedPartStays
  <2>4. c # None
    BY UploadsAssumption
  <2>5. QED BY <1>2, <2>2, <2>3, <2>4
<1>3. QED BY <1>1, <1>2 DEF PartsInv, AcknowledgedPartStays

(* Every step keeps it.                                                     *)
LEMMA PartsNext ==
  ASSUME TypeInv, SafeInv, PartsInv, [Next]_vars
  PROVE  PartsInv'
<1>0. TypeInv' /\ Forward
  BY TypeNext, ForwardNext
<1>1. CASE UNCHANGED <<parts, acked>>
  BY <1>0, <1>1, PartsKept
<1>2. ASSUME NEW r \in Requests, ListRecordedParts(r) \/ FindUploadPart(r) \/ CreateUploadPart(r)
      PROVE  PartsInv'
  <2> DEFINE s == ctx[r].s
             n == ctx[r].n
             c == ctx[r].c
  <2>1. /\ pc[r] \in PartSteps /\ s \in Sessions /\ n \in Parts /\ c \in Contents
        /\ state[s] # "none"
    BY <1>2 DEF ListRecordedParts, FindUploadPart, CreateUploadPart, PartSteps, TypeInv, CtxOK, PartsInv
  <2>2. \/ UNCHANGED <<parts, acked>>
        \/ parts' = parts /\ parts[s][n] = c /\ acked' = acked \cup {<<s, n, c>>}
        \/ /\ parts[s][n] = None /\ parts' = [parts EXCEPT ![s][n] = c]
           /\ acked' = acked \/ acked' = acked \cup {<<s, n, c>>}
    BY <1>2 DEF ListRecordedParts, FindUploadPart, CreateUploadPart, Recorded, AnswerRecorded,
       Silent, Continue, db, told_
  <2> HIDE DEF s, n, c
  <2>3. \/ parts' = parts
        \/ /\ parts[s][n] = None /\ parts'[s][n] = c
           /\ \A u \in Sessions, m \in Parts : u # s \/ m # n => parts'[u][m] = parts[u][m]
    BY <2>1, <2>2 DEF TypeInv, TypeOK, PartContents
  <2>4. \A u \in Sessions, m \in Parts : parts'[u][m] = parts[u][m] \/ parts[u][m] = None
    BY <2>3
  <2>5. acked' = acked \/ (acked' = acked \cup {<<s, n, c>>} /\ parts'[s][n] = c)
    BY <2>1, <2>2 DEF TypeInv, TypeOK, PartContents
  <2>6. ASSUME NEW u \in Sessions, NEW m \in Parts, NEW d \in Contents, <<u, m, d>> \in acked'
        PROVE  <<u, m, d>> \in acked \/ (state[u] # "none" /\ parts'[u][m] = d)
    <3>1. <<u, m, d>> = <<s, n, c>> => u = s /\ m = n /\ d = c
      OBVIOUS
    <3>2. <<u, m, d>> \in acked \/ (<<u, m, d>> = <<s, n, c>> /\ parts'[s][n] = c)
      BY <2>5, <2>6
    <3>3. QED BY <2>1, <3>1, <3>2
  <2>7. QED BY <1>0, <2>4, <2>6, PartsKept
<1>3. ASSUME NEW r \in Requests, ClearUploadParts(r) PROVE PartsInv'
  <2> DEFINE s == ctx[r].s
  <2>1. s \in Sessions
    BY <1>3 DEF ClearUploadParts, TypeInv, CtxOK
  <2>2. \/ UNCHANGED <<parts, acked>>
        \/ /\ parts' = [parts EXCEPT ![s] = NoParts]
           /\ acked' = {a \in acked : a[1] # s}
    BY <1>3 DEF ClearUploadParts
  <2>3. CASE /\ parts' = [parts EXCEPT ![s] = NoParts]
             /\ acked' = {a \in acked : a[1] # s}
    <3> HIDE DEF s
    <3>1. \A u \in Sessions \ {s} : parts'[u] = parts[u]
      BY <2>3 DEF TypeInv, TypeOK
    <3>2. \A m \in Parts, d \in Contents : <<s, m, d>> \notin acked'
      BY <2>3
    <3>3. acked' \subseteq acked
      BY <2>3
    <3>4. QED BY <1>0, <3>1, <3>2, <3>3, PartsKept
  <2>4. QED BY <1>1, <2>2, <2>3
<1>4. ASSUME NEW s \in Sessions, parts' = [parts EXCEPT ![s] = NoParts], acked' = acked,
             state' = [state EXCEPT ![s] = "completed"] \/ state' = [state EXCEPT ![s] = "purged"]
      PROVE  PartsInv'
  <2>1. state'[s] # "pending" /\ \A u \in Sessions \ {s} : parts'[u] = parts[u]
    BY <1>4 DEF TypeInv, TypeOK
  <2>2. QED BY <1>0, <1>4, <2>1, PartsKept
<1>5. ASSUME NEW r \in Requests, PublishSecret(r) PROVE PartsInv'
  <2>1. ctx[r].s \in Sessions
    BY <1>5 DEF PublishSecret, TypeInv, CtxOK
  <2>2. acked' = acked
    BY <1>5 DEF PublishSecret, Tells, Continue, told_
  <2>3. \/ parts' = parts
        \/ /\ parts' = [parts EXCEPT ![ctx[r].s] = NoParts]
           /\ state' = [state EXCEPT ![ctx[r].s] = "completed"]
    BY <1>5 DEF PublishSecret
  <2>4. QED BY <1>1, <1>4, <2>1, <2>2, <2>3
<1>6. ASSUME NEW s \in Sessions, PurgeFinished(s) PROVE PartsInv'
  BY <1>4, <1>6 DEF PurgeFinished, told_
<1>7. ASSUME NEW r \in Requests, Handle(r), ~UNCHANGED <<parts, acked>>
      PROVE  \/ ListRecordedParts(r) \/ FindUploadPart(r) \/ CreateUploadPart(r)
             \/ ClearUploadParts(r) \/ PublishSecret(r)
  BY <1>7 DEF Handle, CheckSecretExists, InsertUploadSession, UndoMultipartUpload, StoreUploadPart,
     LockUploadSession, AssembleObject, DiscardUpload, RemoveDiscardedObject,
     CancelMultipartUpload, MarkSessionAborted, MarkUploadSessionAborted, AnswerDiscarded, Silent, Tells,
     Continue, db, told_
<1>8. \/ \E r \in Requests : Handle(r)
      \/ \E s \in Sessions : PurgeFinished(s)
      \/ UNCHANGED <<parts, acked>>
  BY DEF Next, Arrive, CreateUploadSession, UploadPart, CompleteUploadSession, AbortUploadSession, Refuse,
     Crash, LoseConnection, Sweep, SelectExpired, SweepUpload, SweepObject, CommitSweep, CrashWorker,
     Expire, Silent, vars, db, told_
<1>9. QED BY <1>1, <1>2, <1>3, <1>5, <1>6, <1>7, <1>8

(***************************************************************************)
(* A part a client was told is recorded stays so while its session is       *)
(* pending, whatever repeats, races, crashes or fails, unless a completion  *)
(* whose ETags storage refused made the server forget all parts.            *)
(***************************************************************************)
THEOREM PartsAreKept == Spec => []AcknowledgedPartStays
<1>1. Init => PartsInv
  BY DEF Init, PartsInv, AcknowledgedPartStays, PartSteps
<1>2. PartsInv => AcknowledgedPartStays
  BY DEF PartsInv
<1>3. QED BY <1>1, <1>2, Safe, PartsNext, PTL DEF Spec

-----------------------------------------------------------------------------
(***************************************************************************)
(* Why an upload that was refused is not published later.  A completion     *)
(* may lose its row lock only with its connection; where that is not lost   *)
(* without notice, whoever refuses is the only one who could publish.       *)
(***************************************************************************)

(* A completion holds the row of its session until it ends.                 *)
Completing == {"assemble", "publish"}
HoldInv == \A r \in Requests : pc[r] \in Completing => lock[ctx[r].s] = r

(* The session can publish no more: its public ID is taken by another, or   *)
(* its multipart upload has ended and nobody is about to publish it.        *)
Spent(s) ==
  /\ ~Published(s)
  /\ state[s] # "none"
  /\ \/ secrets[PublicIDOf[s]] # None
     \/ s \notin open /\ \A q \in Requests : ~(pc[q] = "publish" /\ ctx[q].s = s)

GoneInv ==
  /\ \A r \in Requests, s \in Sessions : ctx[r].why = "gone" /\ ctx[r].s = s => Spent(s)
  /\ \A s \in Sessions : <<"gone", s>> \in told => Spent(s)

(* A session that is spent stays so.                                        *)
LEMMA SpentStays ==
  ASSUME NEW s \in Sessions, Spent(s), Forward
  PROVE  Spent(s)'
<1>1. PublicIDOf[s] \in PublicIDs
  BY UploadsAssumption
<1>2. state'[s] # "none"
  BY DEF Spent, Forward
<1>3. CASE secrets[PublicIDOf[s]] # None
  BY <1>1, <1>2, <1>3 DEF Spent, Forward, Published
<1>4. CASE s \notin open /\ \A q \in Requests : ~(pc[q] = "publish" /\ ctx[q].s = s)
  <2>1. s \notin open'
    BY <1>4 DEF Spent, Forward
  <2>2. ~Published(s)'
    BY <1>4 DEF Spent, Forward
  <2>3. \A q \in Requests : ~(pc'[q] = "publish" /\ ctx'[q].s = s)
    BY <1>4 DEF Forward
  <2>4. QED BY <1>2, <2>1, <2>2, <2>3 DEF Spent
<1>5. QED BY <1>3, <1>4 DEF Spent

(* Steps after which every completion holds its row.                        *)
LEMMA HoldKept ==
  ASSUME HoldInv,
         \A q \in Requests : pc'[q] \in Completing =>
           (pc[q] \in Completing /\ ctx'[q].s = ctx[q].s) \/ lock'[ctx'[q].s] = q,
         \A q \in Requests : pc[q] \in Completing /\ pc'[q] \in Completing =>
           lock'[ctx[q].s] = lock[ctx[q].s]
  PROVE  HoldInv'
BY DEF HoldInv

(* Steps of one request that leave the locks of the others alone.           *)
LEMMA HoldOne ==
  ASSUME TypeInv, HoldInv, NEW r \in Requests,
         \A q \in Requests \ {r} : pc'[q] = pc[q] /\ ctx'[q] = ctx[q],
         lock' = lock \/ lock' = Unlocked(r),
         pc'[r] \in Completing => lock' = lock /\ pc[r] \in Completing /\ ctx'[r].s = ctx[r].s
  PROVE  HoldInv'
<1>1. ASSUME NEW q \in Requests, pc[q] \in Completing, pc'[q] \in Completing
      PROVE  lock'[ctx[q].s] = lock[ctx[q].s]
  <2>1. ctx[q].s \in Sessions /\ lock[ctx[q].s] = q
    BY <1>1 DEF TypeInv, CtxOK, HoldInv, Completing
  <2>2. QED BY <1>1, <2>1 DEF Unlocked
<1>2. QED BY <1>1, HoldKept

LEMMA HoldNext ==
  ASSUME TypeInv, HoldInv, "connection" \notin Faults, [Next]_vars
  PROVE  HoldInv'
<1>1. CASE UNCHANGED <<lock, pc, ctx>>
  BY <1>1 DEF HoldInv
<1>2. ASSUME NEW r \in Requests, Arrive(r) PROVE HoldInv'
  <2>1. lock' = lock
    BY <1>2 DEF Arrive, CreateUploadSession, UploadPart, CompleteUploadSession, AbortUploadSession,
       Refuse, vars, db
  <2>2. \/ UNCHANGED <<pc, ctx>>
        \/ \E step \in {"exists", "list", "lock", "cancel"} : \E s, n, c : Begin(r, step, s, n, c)
    BY <1>2 DEF Arrive, CreateUploadSession, UploadPart, CompleteUploadSession, AbortUploadSession,
       Refuse, vars
  <2>3. CASE \E step \in {"exists", "list", "lock", "cancel"} : \E s, n, c : Begin(r, step, s, n, c)
    <3>1. /\ pc'[r] \in {"exists", "list", "lock", "cancel"}
          /\ \A q \in Requests \ {r} : pc'[q] = pc[q] /\ ctx'[q] = ctx[q]
      BY <2>3, Moves
    <3>2. QED BY <2>1, <3>1, HoldOne DEF Completing
  <2>4. QED BY <1>1, <2>1, <2>2, <2>3
<1>3. ASSUME NEW r \in Requests, Handle(r), ~LockUploadSession(r) PROVE HoldInv'
  <2>1. lock' = lock \/ lock' = Unlocked(r)
    BY <1>3 DEF Handle, CheckSecretExists, InsertUploadSession, UndoMultipartUpload,
       ListRecordedParts, StoreUploadPart, FindUploadPart, CreateUploadPart, AssembleObject,
       PublishSecret, ClearUploadParts, DiscardUpload, RemoveDiscardedObject,
       CancelMultipartUpload, MarkSessionAborted, MarkUploadSessionAborted, db
  <2>2. \/ Done(r)
        \/ \E step \in {"insert", "undo", "store", "find", "record", "clear", "discard", "remove", "mark"} :
             Goto(r, step) /\ (ctx' = ctx \/ ctx' = [ctx EXCEPT ![r].why = "gone"])
        \/ pc[r] = "assemble" /\ Continue(r, "publish") /\ lock' = lock
    BY <1>3 DEF Handle, CheckSecretExists, InsertUploadSession, UndoMultipartUpload,
       ListRecordedParts, StoreUploadPart, FindUploadPart, CreateUploadPart, AssembleObject,
       PublishSecret, ClearUploadParts, DiscardUpload, RemoveDiscardedObject,
       CancelMultipartUpload, MarkSessionAborted, AnswerDiscarded, AnswerRecorded, Tells, Silent, Continue
  <2>3. /\ \A q \in Requests \ {r} : pc'[q] = pc[q] /\ ctx'[q] = ctx[q]
        /\ \/ pc'[r] \notin Completing
           \/ pc[r] = "assemble" /\ ctx' = ctx /\ lock' = lock
    BY <2>2, Moves DEF Completing, TypeInv, TypeOK
  <2>4. QED BY <2>1, <2>3, HoldOne DEF Completing
<1>4. ASSUME NEW r \in Requests, LockUploadSession(r) PROVE HoldInv'
  <2> DEFINE s == ctx[r].s
  <2>1. s \in Sessions /\ lock[s] = None /\ pc[r] = "lock"
    BY <1>4 DEF LockUploadSession, TypeInv, CtxOK
  <2>2. CASE lock' = lock /\ Done(r)
    <3>1. pc'[r] = "idle" /\ \A q \in Requests \ {r} : pc'[q] = pc[q] /\ ctx'[q] = ctx[q]
      BY <2>2, Moves
    <3>2. QED BY <2>2, <3>1, HoldOne DEF Completing
  <2>3. CASE /\ lock' = [lock EXCEPT ![s] = r]
             /\ Goto(r, "assemble")
             /\ ctx' = [ctx EXCEPT ![r].etags = parts[s]]
    <3>1. /\ ctx'[r].s = s /\ lock'[s] = r
          /\ \A q \in Requests \ {r} : pc'[q] = pc[q] /\ ctx'[q] = ctx[q]
          /\ \A u \in Sessions \ {s} : lock'[u] = lock[u]
      BY <2>1, <2>3, Moves DEF TypeInv, TypeOK, Contexts
    <3>2. ASSUME NEW q \in Requests, pc[q] \in Completing
          PROVE  lock'[ctx[q].s] = lock[ctx[q].s]
      <4>1. ctx[q].s \in Sessions /\ lock[ctx[q].s] = q /\ q # None
        BY <3>2, UploadsAssumption DEF TypeInv, CtxOK, HoldInv, Completing
      <4>2. QED BY <2>1, <3>1, <4>1
    <3>3. QED BY <3>1, <3>2, HoldKept
  <2>4. QED BY <1>4, <2>2, <2>3 DEF LockUploadSession, Tells, Silent
<1>5. ASSUME NEW r \in Requests, Crash(r) PROVE HoldInv'
  <2>1. pc'[r] = "idle" /\ \A q \in Requests \ {r} : pc'[q] = pc[q] /\ ctx'[q] = ctx[q]
    BY <1>5, Moves DEF Crash, Silent
  <2>2. QED BY <1>5, <2>1, HoldOne DEF Crash, Completing
<1>6. ASSUME NEW w \in Workers, UNCHANGED <<pc, ctx>>,
             \A u \in Sessions : lock'[u] = lock[u] \/ lock[u] \in {None, w}
      PROVE  HoldInv'
  <2>1. ASSUME NEW q \in Requests, pc[q] \in Completing
        PROVE  lock'[ctx[q].s] = lock[ctx[q].s]
    <3>1. ctx[q].s \in Sessions /\ lock[ctx[q].s] = q /\ q \notin {None, w}
      BY <2>1, UploadsAssumption DEF TypeInv, CtxOK, HoldInv, Completing
    <3>2. QED BY <1>6, <3>1
  <2>2. QED BY <1>6, <2>1, HoldKept
<1>7. ASSUME NEW w \in Workers, Sweep(w) \/ CrashWorker(w) PROVE HoldInv'
  <2>1. UNCHANGED <<pc, ctx>>
    BY <1>7 DEF Sweep, SelectExpired, SweepUpload, SweepObject, CommitSweep, CrashWorker
  <2>2. \A u \in Sessions : lock'[u] = lock[u] \/ lock[u] \in {None, w}
    BY <1>7 DEF Sweep, SelectExpired, SweepUpload, SweepObject, CommitSweep, CrashWorker, Due, Unlocked, db
  <2>3. QED BY <1>6, <2>1, <2>2
<1>8. \/ \E r \in Requests : Arrive(r) \/ Handle(r) \/ Crash(r)
      \/ \E w \in Workers : Sweep(w) \/ CrashWorker(w)
      \/ UNCHANGED <<lock, pc, ctx>>
  BY DEF Next, vars, db, LoseConnection, Fails, Expire, PurgeFinished
<1>9. QED BY <1>1, <1>2, <1>3, <1>4, <1>5, <1>7, <1>8

(* Steps after which only spent sessions are refused.                       *)
LEMMA GoneKept ==
  ASSUME GoneInv, Forward,
         \A q \in Requests, s \in Sessions : ctx'[q].why = "gone" /\ ctx'[q].s = s =>
           (ctx[q].why = "gone" /\ ctx[q].s = s) \/ Spent(s)',
         \A s \in Sessions : <<"gone", s>> \in told' =>
           \/ <<"gone", s>> \in told
           \/ \E q \in Requests : ctx[q].why = "gone" /\ ctx[q].s = s
  PROVE  GoneInv'
<1>1. \A s \in Sessions : Spent(s) => Spent(s)'
  BY SpentStays
<1>2. QED BY <1>1 DEF GoneInv

(* A step of one request that finds no reason to refuse.                    *)
LEMMA GoneOne ==
  ASSUME TypeInv, GoneInv, Forward, NEW r \in Requests,
         \A q \in Requests \ {r} : ctx'[q] = ctx[q],
         ctx'[r].why = "error" \/ ctx'[r] = ctx[r],
         \/ \A s \in Sessions : <<"gone", s>> \in told' => <<"gone", s>> \in told
         \/ ctx[r].why = "gone" /\ told' = told \cup {<<"gone", ctx[r].s>>}
  PROVE  GoneInv'
<1>1. \A q \in Requests, s \in Sessions : ctx'[q].why = "gone" /\ ctx'[q].s = s =>
        ctx[q].why = "gone" /\ ctx[q].s = s
  <2>1. ctx'[r].why = "gone" => ctx'[r] = ctx[r]
    OBVIOUS
  <2>2. QED BY <2>1
<1>2. \A s \in Sessions : <<"gone", s>> \in told' =>
        \/ <<"gone", s>> \in told
        \/ \E q \in Requests : ctx[q].why = "gone" /\ ctx[q].s = s
  <2>1. \A s \in Sessions : <<"gone", s>> = <<"gone", ctx[r].s>> => ctx[r].s = s
    OBVIOUS
  <2>2. QED BY <2>1
<1>3. QED BY <1>1, <1>2, GoneKept

(* A completion refuses its session when it holds the row and either the    *)
(* multipart upload has ended or the public ID is taken.                    *)
LEMMA GoneFound ==
  ASSUME TypeInv, SafeInv, HoldInv, GoneInv, Forward, NEW r \in Requests, pc[r] \in Completing,
         Goto(r, "discard"), ctx' = [ctx EXCEPT ![r].why = "gone"],
         UNCHANGED <<state, secrets, open, told>>,
         ctx[r].s \notin open \/ secrets[PublicIDOf[ctx[r].s]] # None
  PROVE  GoneInv'
<1>1. PICK s \in Sessions : s = ctx[r].s
  BY DEF TypeInv, CtxOK, Completing
<1>2. /\ pc'[r] = "discard" /\ ctx'[r].s = s
      /\ \A q \in Requests \ {r} : pc'[q] = pc[q] /\ ctx'[q] = ctx[q]
  BY <1>1, Moves, ContextUpdates DEF TypeInv, TypeOK
<1>3. lock[s] = r /\ state[s] = "pending"
  BY <1>1 DEF HoldInv, SafeInv, LockInv
<1>4. ~Published(s)
  BY <1>3 DEF SafeInv, PublishedInv
<1>5. \A q \in Requests : ~(pc'[q] = "publish" /\ ctx'[q].s = s)
  BY <1>2, <1>3 DEF HoldInv, Completing
<1>6. Spent(s)'
  BY <1>1, <1>3, <1>4, <1>5 DEF Spent, Published
<1>7. \A q \in Requests, u \in Sessions : ctx'[q].why = "gone" /\ ctx'[q].s = u =>
        (ctx[q].why = "gone" /\ ctx[q].s = u) \/ Spent(u)'
  BY <1>2, <1>6
<1>8. QED BY <1>7, GoneKept

LEMMA GoneNext ==
  ASSUME TypeInv, SafeInv, HoldInv, GoneInv, [Next]_vars
  PROVE  GoneInv'
<1>0. Forward
  BY ForwardNext
<1>a. IdleCtx.why = "error" /\ \A s, n, c : Ctx(s, n, c).why = "error"
  BY DEF IdleCtx, Ctx
<1>b. ASSUME NEW r \in Requests, Done(r)
      PROVE  ctx'[r].why = "error" /\ \A q \in Requests \ {r} : ctx'[q] = ctx[q]
  BY <1>a, <1>b DEF Done, TypeInv, TypeOK
<1>c. ASSUME NEW r \in Requests, AnswerDiscarded(r) PROVE GoneInv'
  <2>1. Done(r)
    BY <1>c DEF AnswerDiscarded, Tells, Silent
  <2>2. told' = told \/ (ctx[r].why = "gone" /\ told' = told \cup {<<"gone", ctx[r].s>>})
    BY <1>c DEF AnswerDiscarded, Tells, Silent, told_
  <2>3. QED BY <1>0, <1>b, <2>1, <2>2, GoneOne
<1>1. CASE UNCHANGED <<ctx, told>>
  BY <1>0, <1>1, GoneKept
<1>2. ASSUME NEW r \in Requests, NEW what \in {"created", "ended"}, Tells(r, what) PROVE GoneInv'
  <2>1. \A s \in Sessions : <<"gone", s>> # <<what, ctx[r].s>>
    BY <1>2
  <2>2. Done(r) /\ told' = told \cup {<<what, ctx[r].s>>}
    BY <1>2 DEF Tells
  <2>3. \A s \in Sessions : <<"gone", s>> \in told' => <<"gone", s>> \in told
    BY <2>1, <2>2
  <2>4. QED BY <1>0, <1>b, <2>2, <2>3, GoneOne
<1>3. ASSUME NEW r \in Requests, Done(r), told' = told PROVE GoneInv'
  BY <1>0, <1>b, <1>3, GoneOne
<1>4. ASSUME NEW r \in Requests, Arrive(r) PROVE GoneInv'
  <2>1. CASE UNCHANGED ctx
    <3>1. told' = told \/ \E s \in Sessions : told' = told \cup {<<"ended", s>>}
      BY <1>4 DEF Arrive, CreateUploadSession, UploadPart, CompleteUploadSession,
         AbortUploadSession, Refuse, vars, told_
    <3>2. \A s, u \in Sessions : <<"gone", u>> # <<"ended", s>>
      OBVIOUS
    <3>3. \A u \in Sessions : <<"gone", u>> \in told' => <<"gone", u>> \in told
      BY <3>1, <3>2
    <3>4. QED BY <1>0, <2>1, <3>3, GoneKept
  <2>2. CASE told' = told /\ \E step, s, n, c : Begin(r, step, s, n, c)
    <3>1. ctx'[r].why = "error" /\ \A q \in Requests \ {r} : ctx'[q] = ctx[q]
      BY <1>a, <2>2 DEF Begin, TypeInv, TypeOK
    <3>2. QED BY <1>0, <2>2, <3>1, GoneOne
  <2>3. QED BY <1>4, <2>1, <2>2 DEF Arrive, CreateUploadSession, UploadPart, CompleteUploadSession,
                AbortUploadSession, Refuse, vars, told_
<1>5. ASSUME NEW r \in Requests, LockUploadSession(r) PROVE GoneInv'
  <2>1. CASE ctx' = [ctx EXCEPT ![r].etags = parts[ctx[r].s]] /\ told' = told
    <3>1. /\ ctx'[r].why = ctx[r].why /\ ctx'[r].s = ctx[r].s
          /\ \A q \in Requests \ {r} : ctx'[q] = ctx[q]
      BY <2>1 DEF TypeInv, TypeOK, Contexts
    <3>2. QED BY <1>0, <2>1, <3>1, GoneKept
  <2>2. QED BY <1>2, <1>3, <1>5, <2>1 DEF LockUploadSession, Silent, told_
<1>6. ASSUME NEW r \in Requests, AssembleObject(r) PROVE GoneInv'
  <2>1. CASE /\ pc[r] = "assemble" /\ ctx[r].s \notin open
             /\ Goto(r, "discard") /\ ctx' = [ctx EXCEPT ![r].why = "gone"]
             /\ UNCHANGED <<state, secrets, open, told>>
    BY <1>0, <2>1, GoneFound DEF Completing
  <2>2. QED BY <1>1, <1>3, <1>6, <2>1 DEF AssembleObject, Continue, Silent, told_, s3
<1>7. ASSUME NEW r \in Requests, PublishSecret(r) PROVE GoneInv'
  <2>1. CASE /\ pc[r] = "publish" /\ secrets[PublicIDOf[ctx[r].s]] # None
             /\ Goto(r, "discard") /\ ctx' = [ctx EXCEPT ![r].why = "gone"]
             /\ UNCHANGED <<state, secrets, open, told>>
    BY <1>0, <2>1, GoneFound DEF Completing
  <2>2. QED BY <1>1, <1>2, <1>7, <2>1 DEF PublishSecret, Continue, told_, s3
<1>8. ASSUME NEW r \in Requests, Handle(r) PROVE GoneInv'
  <2>1. CASE DiscardUpload(r) \/ RemoveDiscardedObject(r)
    BY <1>1, <1>c, <2>1 DEF DiscardUpload, RemoveDiscardedObject, Continue, told_
  <2>2. CASE MarkSessionAborted(r)
    BY <1>2, <1>3, <2>2 DEF MarkSessionAborted, Silent, told_
  <2>3. CASE \/ CheckSecretExists(r) \/ InsertUploadSession(r) \/ UndoMultipartUpload(r)
             \/ ListRecordedParts(r) \/ StoreUploadPart(r) \/ FindUploadPart(r) \/ CreateUploadPart(r)
             \/ ClearUploadParts(r) \/ CancelMultipartUpload(r)
    <3>1. UNCHANGED <<ctx, told>> \/ (Done(r) /\ told' = told)
      BY <2>3 DEF CheckSecretExists, InsertUploadSession, UndoMultipartUpload, ListRecordedParts,
         StoreUploadPart, FindUploadPart, CreateUploadPart, ClearUploadParts, CancelMultipartUpload,
         Continue, Silent, AnswerRecorded, told_
    <3>2. QED BY <1>1, <1>3, <3>1
  <2>4. QED BY <1>5, <1>6, <1>7, <1>8, <2>1, <2>2, <2>3 DEF Handle
<1>9. ASSUME NEW r \in Requests, Crash(r) PROVE GoneInv'
  BY <1>3, <1>9 DEF Crash, Silent, told_
<1>10. \/ \E r \in Requests : Arrive(r) \/ Handle(r) \/ Crash(r)
       \/ UNCHANGED <<ctx, told>>
  BY DEF Next, vars, told_, LoseConnection, Sweep, SelectExpired, SweepUpload, SweepObject, CommitSweep,
     CrashWorker, Expire, PurgeFinished
<1>11. QED BY <1>1, <1>4, <1>8, <1>9, <1>10

(***************************************************************************)
(* A client told that its upload is no longer valid never has it published  *)
(* by an earlier completion, where no database connection is lost without   *)
(* the request noticing: who holds the row when it refuses is the only one  *)
(* who could have published.  (With such a loss it can be: see the README.) *)
(***************************************************************************)
THEOREM RefusalIsFinal ==
  ASSUME "connection" \notin Faults
  PROVE  Spec => []RefusedIsNeverPublished
<1>1. Init => HoldInv /\ GoneInv
  BY DEF Init, HoldInv, GoneInv, Completing, IdleCtx, Ctx
<1>2. GoneInv => RefusedIsNeverPublished
  BY DEF GoneInv, Spent, RefusedIsNeverPublished
<1>3. TypeInv /\ SafeInv /\ HoldInv /\ GoneInv /\ [Next]_vars => (HoldInv /\ GoneInv)'
  BY HoldNext, GoneNext
<1>4. QED BY <1>1, <1>2, <1>3, Safe, PTL DEF Spec

-----------------------------------------------------------------------------
(***************************************************************************)
(* Uploads implements Publication: whatever runs, dies or fails, a reader  *)
(* of a public ID is served nothing and then, from one step on, one whole  *)
(* blob.                                                                   *)
(***************************************************************************)

(* Every secret row was inserted by a session that uploads for its ID.      *)
RowInv == \A p \in PublicIDs : secrets[p] # None => PublicIDOf[secrets[p]] = p

(* A multipart upload is not completed twice, not even by a request that    *)
(* has lost its lock without noticing: storage has forgotten the upload     *)
(* before the secret row can be there.                                      *)
OpenInv ==
  /\ \A s \in Sessions : Published(s) => s \notin open
  /\ \A r \in Requests : pc[r] = "publish" => ctx[r].s \notin open

ServeInv == TypeInv /\ SafeInv /\ RowInv /\ OpenInv

(* What a step may do to what readers are served: nothing ...               *)
NoNewPublish ==
  \A q \in Requests : pc'[q] = "publish" => pc[q] = "publish" /\ ctx'[q].s = ctx[q].s

Keeps ==
  /\ secrets' = secrets
  /\ \A u \in Sessions : Published(u) => objects'[u] = objects[u]
  /\ open' \subseteq open
  /\ NoNewPublish

(* ... open the multipart upload of a new session ...                       *)
Opens(s) ==
  /\ Fresh(s)
  /\ open' = open \cup {s}
  /\ UNCHANGED <<secrets, objects>>
  /\ NoNewPublish

(* ... assemble an object no row points to yet ...                          *)
Assembles(r) ==
  /\ secrets' = secrets
  /\ ctx[r].s \in open
  /\ open' = open \ {ctx[r].s}
  /\ \A u \in Sessions \ {ctx[r].s} : objects'[u] = objects[u]
  /\ pc'[r] = "publish" => ctx'[r].s = ctx[r].s
  /\ \A q \in Requests \ {r} : pc'[q] = pc[q] /\ ctx'[q] = ctx[q]

(* ... or insert the row of an object that has been assembled.              *)
Commits(r) ==
  /\ pc[r] = "publish" /\ lock[ctx[r].s] = r
  /\ secrets[PublicIDOf[ctx[r].s]] = None
  /\ secrets' = [secrets EXCEPT ![PublicIDOf[ctx[r].s]] = ctx[r].s]
  /\ UNCHANGED <<objects, open>>
  /\ NoNewPublish

LEMMA EffectArrive ==
  ASSUME TypeInv, NEW r \in Requests, Arrive(r)
  PROVE  Keeps \/ \E s \in Sessions : Opens(s)
<1>1. CASE CreateUploadSession(r)
  <2>1. PICK s \in Sessions :
          /\ Fresh(s) /\ CreateMultipartUpload(s)
          /\ Begin(r, "exists", s, None, None) \/ UNCHANGED <<pc, ctx>>
    BY <1>1 DEF CreateUploadSession
  <2>2. NoNewPublish
    <3>1. CASE UNCHANGED <<pc, ctx>>
      BY <3>1 DEF NoNewPublish
    <3>2. CASE Begin(r, "exists", s, None, None)
      <4>1. /\ pc'[r] = "exists"
            /\ \A q \in Requests \ {r} : pc'[q] = pc[q] /\ ctx'[q] = ctx[q]
        BY <3>2, Moves
      <4>2. QED BY <4>1 DEF NoNewPublish
    <3>3. QED BY <2>1, <3>1, <3>2
  <2>3. Opens(s)
    BY <1>1, <2>1, <2>2 DEF Opens, CreateUploadSession, CreateMultipartUpload, db
  <2>4. QED BY <2>3
<1>2. CASE UploadPart(r)
  BY <1>2, Moves DEF UploadPart, Keeps, NoNewPublish, db, s3
<1>3. CASE CompleteUploadSession(r)
  BY <1>3, Moves DEF CompleteUploadSession, Keeps, NoNewPublish, db, s3
<1>4. CASE AbortUploadSession(r)
  BY <1>4, Moves DEF AbortUploadSession, Keeps, NoNewPublish, db, s3
<1>5. CASE Refuse(r)
  BY <1>5 DEF Refuse, Keeps, NoNewPublish, vars, db, s3
<1>6. QED BY <1>1, <1>2, <1>3, <1>4, <1>5 DEF Arrive

LEMMA EffectHandle ==
  ASSUME TypeInv, SafeInv, NEW r \in Requests, Handle(r)
  PROVE  Keeps \/ Assembles(r) \/ Commits(r)
<1>1. /\ \A step : Continue(r, step) => Goto(r, step) /\ ctx' = ctx
      /\ Silent(r) => Done(r)
      /\ AnswerRecorded(r) => Done(r)
      /\ AnswerDiscarded(r) => Done(r)
      /\ \A what : Tells(r, what) => Done(r)
  BY DEF Continue, Silent, AnswerRecorded, AnswerDiscarded, Tells
<1>2. /\ Done(r) => NoNewPublish
      /\ \A step : Continue(r, step) /\ step # "publish" => NoNewPublish
  BY <1>1, Moves DEF NoNewPublish
<1>3. ASSUME UNCHANGED <<secrets, objects>>, open' \subseteq open, NoNewPublish
      PROVE  Keeps
  BY <1>3 DEF Keeps
<1>4. CASE CheckSecretExists(r)
  BY <1>2, <1>3, <1>4 DEF CheckSecretExists, db, s3
<1>5. CASE InsertUploadSession(r)
  BY <1>1, <1>2, <1>3, <1>5 DEF InsertUploadSession, db, s3
<1>6. CASE UndoMultipartUpload(r)
  BY <1>1, <1>2, <1>3, <1>6 DEF UndoMultipartUpload, AbortMultipartUpload, db, s3
<1>7. CASE ListRecordedParts(r)
  BY <1>1, <1>2, <1>3, <1>7 DEF ListRecordedParts, db, s3
<1>8. CASE StoreUploadPart(r)
  BY <1>1, <1>2, <1>3, <1>8 DEF StoreUploadPart, StorePart, db, s3
<1>9. CASE FindUploadPart(r)
  BY <1>1, <1>2, <1>3, <1>9 DEF FindUploadPart, db, s3
<1>10. CASE CreateUploadPart(r)
  BY <1>1, <1>2, <1>3, <1>10 DEF CreateUploadPart, db, s3
<1>11. CASE LockUploadSession(r)
  <2>1. CASE Goto(r, "assemble") /\ ctx' = [ctx EXCEPT ![r].etags = parts[ctx[r].s]]
    <3>1. NoNewPublish
      BY <2>1, Moves DEF NoNewPublish, TypeInv, TypeOK
    <3>2. QED BY <1>3, <1>11, <3>1 DEF LockUploadSession, s3
  <2>2. QED BY <1>1, <1>2, <1>3, <1>11, <2>1 DEF LockUploadSession, s3
<1>12. CASE AssembleObject(r)
  <2> DEFINE s == ctx[r].s
  <2>1. s \in Sessions /\ secrets' = secrets
    BY <1>12 DEF AssembleObject, TypeInv, CtxOK
  <2>2. CASE s \in open /\ CompleteMultipartUpload(s, ctx[r].etags)
    <3>1. /\ open' = open \ {s}
          /\ \A u \in Sessions \ {s} : objects'[u] = objects[u]
      BY <2>1, <2>2 DEF CompleteMultipartUpload, TypeInv, TypeOK
    <3>2. Continue(r, "publish") \/ Done(r)
      BY <1>1, <1>12, <2>2 DEF AssembleObject, CompleteMultipartUpload, s3, TypeInv, TypeOK
    <3>3. /\ pc'[r] = "publish" => ctx'[r].s = ctx[r].s
          /\ \A q \in Requests \ {r} : pc'[q] = pc[q] /\ ctx'[q] = ctx[q]
      BY <1>1, <3>2, Moves
    <3>4. QED BY <2>1, <2>2, <3>1, <3>3 DEF Assembles
  <2>3. CASE UNCHANGED s3 /\ (Continue(r, "clear") \/ Silent(r))
    BY <1>1, <1>2, <1>3, <2>1, <2>3 DEF s3
  <2>4. CASE UNCHANGED s3 /\ Goto(r, "discard") /\ ctx' = [ctx EXCEPT ![r].why = "gone"]
    <3>1. NoNewPublish
      BY <2>4, Moves DEF NoNewPublish, TypeInv, TypeOK
    <3>2. QED BY <1>3, <2>1, <2>4, <3>1 DEF s3
  <2>5. QED BY <1>12, <2>2, <2>3, <2>4 DEF AssembleObject
<1>13. CASE PublishSecret(r)
  <2>1. pc[r] = "publish" /\ UNCHANGED <<objects, open>>
    BY <1>13 DEF PublishSecret, CreateSecret, s3
  <2>2. NoNewPublish
    <3>1. CASE Goto(r, "discard") /\ ctx' = [ctx EXCEPT ![r].why = "gone"]
      BY <3>1, Moves DEF NoNewPublish, TypeInv, TypeOK
    <3>2. QED BY <1>1, <1>2, <1>13, <3>1 DEF PublishSecret, CreateSecret
  <2>3. QED BY <1>3, <1>13, <2>1, <2>2 DEF PublishSecret, CreateSecret, Commits
<1>14. CASE ClearUploadParts(r)
  BY <1>2, <1>3, <1>14 DEF ClearUploadParts, s3
<1>15. CASE DiscardUpload(r)
  BY <1>1, <1>2, <1>3, <1>15 DEF DiscardUpload, MarkUploadSessionAborted, db, s3
<1>16. CASE RemoveDiscardedObject(r)
  <2>1. /\ pc[r] = "remove" /\ NoNewPublish
        /\ UNCHANGED <<secrets, open>>
        /\ objects' = [objects EXCEPT ![ctx[r].s] = None] \/ UNCHANGED objects
    BY <1>1, <1>2, <1>16 DEF RemoveDiscardedObject, DeleteObject, db, s3
  <2>2. ~Published(ctx[r].s)
    BY <2>1 DEF SafeInv, DiscardInv
  <2>3. QED BY <2>1, <2>2 DEF Keeps, TypeInv, TypeOK
<1>17. CASE CancelMultipartUpload(r)
  BY <1>1, <1>2, <1>3, <1>17 DEF CancelMultipartUpload, AbortMultipartUpload, db, s3
<1>18. CASE MarkSessionAborted(r)
  BY <1>1, <1>2, <1>3, <1>18 DEF MarkSessionAborted, MarkUploadSessionAborted, db, s3
<1>q. QED BY <1>4, <1>5, <1>6, <1>7, <1>8, <1>9, <1>10, <1>11, <1>12, <1>13, <1>14,
             <1>15, <1>16, <1>17, <1>18 DEF Handle

LEMMA EffectRest ==
  ASSUME TypeInv, SafeInv,
         \/ \E r \in Requests : Crash(r) \/ LoseConnection(r)
         \/ \E w \in Workers : Sweep(w) \/ CrashWorker(w) \/ LoseConnection(w)
         \/ \E s \in Sessions : Expire(s) \/ PurgeFinished(s)
         \/ UNCHANGED vars
  PROVE  Keeps
<1>1. ASSUME NEW r \in Requests, Crash(r) PROVE Keeps
  BY <1>1, Moves DEF Crash, Keeps, NoNewPublish, s3
<1>2. ASSUME NEW by, LoseConnection(by) PROVE Keeps
  BY <1>2 DEF LoseConnection, Keeps, NoNewPublish, s3
<1>3. ASSUME NEW w \in Workers, CrashWorker(w) PROVE Keeps
  BY <1>3 DEF CrashWorker, Keeps, NoNewPublish, s3
<1>4. ASSUME NEW w \in Workers, SelectExpired(w) \/ SweepUpload(w) \/ CommitSweep(w) PROVE Keeps
  BY <1>4 DEF SelectExpired, SweepUpload, CommitSweep, AbortMultipartUpload, Keeps,
              NoNewPublish, db, s3
<1>5. ASSUME NEW w \in Workers, SweepObject(w) PROVE Keeps
  <2>1. sweep[w].at \in Sessions
    BY <1>5 DEF SweepObject, TypeInv, TypeOK, Batches
  <2>2. ~Published(sweep[w].at)
    BY <2>1 DEF SafeInv, SweepInv
  <2>3. /\ UNCHANGED <<secrets, open, pc, ctx>>
        /\ objects' = [objects EXCEPT ![sweep[w].at] = None] \/ UNCHANGED objects
    BY <1>5 DEF SweepObject, DeleteObject, db, s3
  <2>4. QED BY <2>1, <2>2, <2>3 DEF Keeps, NoNewPublish, TypeInv, TypeOK
<1>6. ASSUME NEW s \in Sessions, Expire(s) \/ PurgeFinished(s) PROVE Keeps
  BY <1>6 DEF Expire, PurgeFinished, Keeps, NoNewPublish, s3
<1>7. CASE UNCHANGED vars
  BY <1>7 DEF Keeps, NoNewPublish, vars, db, s3
<1>8. QED BY <1>1, <1>2, <1>3, <1>4, <1>5, <1>6, <1>7 DEF Sweep

LEMMA Effect ==
  ASSUME TypeInv, SafeInv, [Next]_vars
  PROVE  \/ Keeps
         \/ \E s \in Sessions : Opens(s)
         \/ \E r \in Requests : Assembles(r) \/ Commits(r)
BY EffectArrive, EffectHandle, EffectRest DEF Next

LEMMA ServeInit == Init => ServeInv
BY TypeInit, SafeInit, UploadsAssumption DEF Init, ServeInv, RowInv, OpenInv, Published

LEMMA ServeNext == ServeInv /\ [Next]_vars => ServeInv'
<1> SUFFICES ASSUME ServeInv, [Next]_vars PROVE ServeInv'
  OBVIOUS
<1> USE DEF ServeInv
<1>1. TypeInv' /\ SafeInv'
  BY TypeNext, SafeNext
<1>2. CASE Keeps
  BY <1>1, <1>2 DEF Keeps, NoNewPublish, RowInv, OpenInv, Published
<1>3. ASSUME NEW s \in Sessions, Opens(s) PROVE RowInv' /\ OpenInv'
  <2>1. ~Published(s)
    BY <1>3 DEF Opens, Fresh, SafeInv, PublishedInv
  <2>2. \A r \in Requests : ctx[r].s # s
    BY <1>3 DEF Opens, Fresh
  <2>3. QED BY <1>3, <2>1, <2>2 DEF Opens, NoNewPublish, RowInv, OpenInv, Published
<1>4. ASSUME NEW r \in Requests, Assembles(r) PROVE RowInv' /\ OpenInv'
  <2>1. RowInv' /\ (\A s \in Sessions : Published(s) => s \notin open)'
    BY <1>4 DEF Assembles, RowInv, OpenInv, Published
  <2>2. (\A q \in Requests : pc[q] = "publish" => ctx[q].s \notin open)'
    BY <1>4 DEF Assembles, OpenInv
  <2>3. QED BY <2>1, <2>2 DEF OpenInv
<1>5. ASSUME NEW r \in Requests, Commits(r) PROVE RowInv' /\ OpenInv'
  <2> DEFINE s == ctx[r].s
  <2>1. s \in Sessions /\ PublicIDOf[s] \in PublicIDs /\ s \notin open
    BY <1>5, UploadsAssumption DEF Commits, TypeInv, CtxOK, OpenInv
  <2>2. \A p \in PublicIDs : secrets'[p] = IF p = PublicIDOf[s] THEN s ELSE secrets[p]
    BY <1>5, <2>1 DEF Commits, TypeInv, TypeOK
  <2>3. RowInv'
    BY <2>1, <2>2 DEF RowInv
  <2>4. \A u \in Sessions : secrets'[PublicIDOf[u]] = u => Published(u) \/ u = s
    BY <2>2, UploadsAssumption DEF Published
  <2>5. QED BY <1>5, <2>1, <2>3, <2>4 DEF Commits, NoNewPublish, OpenInv, Published
<1>6. QED BY <1>1, <1>2, <1>3, <1>4, <1>5, Effect

(* A step changes what is served by publishing one whole blob, or not at all. *)
LEMMA ServeStep ==
  ASSUME ServeInv, [Next]_vars
  PROVE  [Pub!Next]_Served
<1> USE DEF ServeInv
<1>1. ASSUME secrets' = secrets, \A u \in Sessions : Published(u) => objects'[u] = objects[u]
      PROVE  Served' = Served
  <2>1. \A p \in PublicIDs : secrets[p] # None => objects'[secrets[p]] = objects[secrets[p]]
    BY <1>1 DEF RowInv, Published, TypeInv, TypeOK
  <2>2. QED BY <1>1, <2>1 DEF Served
<1>2. CASE Keeps
  BY <1>1, <1>2 DEF Keeps
<1>3. ASSUME NEW s \in Sessions, Opens(s) PROVE Served' = Served
  BY <1>1, <1>3 DEF Opens
<1>4. ASSUME NEW r \in Requests, Assembles(r) PROVE Served' = Served
  BY <1>1, <1>4 DEF Assembles, OpenInv
<1>5. ASSUME NEW r \in Requests, Commits(r) PROVE Pub!Next
  <2> DEFINE s == ctx[r].s  p == PublicIDOf[ctx[r].s]
  <2>1. s \in Sessions /\ p \in PublicIDs /\ s # None
    BY <1>5, UploadsAssumption DEF Commits, TypeInv, CtxOK
  <2>2. objects[s] \in [Parts -> Contents]
    BY <1>5, <2>1 DEF Commits, SafeInv, LockInv, TypeInv, TypeOK
  <2>3. \A q \in PublicIDs : secrets'[q] = IF q = p THEN s ELSE secrets[q]
    BY <1>5, <2>1 DEF Commits, TypeInv, TypeOK
  <2>4. secrets[p] = None /\ objects' = objects
    BY <1>5 DEF Commits
  <2> HIDE DEF s, p
  <2>5. Served[p] = None /\ Served' = [Served EXCEPT ![p] = objects[s]]
    BY <2>1, <2>3, <2>4 DEF Served
  <2>6. QED BY <2>1, <2>2, <2>5 DEF Pub!Next, Pub!Publish
<1>6. QED BY <1>2, <1>3, <1>4, <1>5, Effect

(***************************************************************************)
(* The upload protocol implements Publication: in every behaviour, for any  *)
(* number of sessions, requests and workers, what a reader of a public ID   *)
(* is served goes once from nothing to a whole blob and then stays.         *)
(***************************************************************************)
THEOREM UploadsPublish == Spec => PublicationSpec
<1>1. Init => Pub!Init
  BY DEF Init, Pub!Init, Served
<1>2. QED BY <1>1, ServeInit, ServeNext, ServeStep, PTL DEF Spec, PublicationSpec, Pub!Spec
=============================================================================
