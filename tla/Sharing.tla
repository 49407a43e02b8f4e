------------------------------- MODULE Sharing -------------------------------
(***************************************************************************)
(* The Go client that makes a secret: Share and upload of share/share.go,  *)
(* and the retrying requests of share/api/client.go below them, against a  *)
(* network that loses requests and answers.  Module Uploads has the steps  *)
(* of the server; here a request takes effect at one instant, which may    *)
(* come after the client stopped waiting for it.                           *)
(*                                                                         *)
(* The main goroutine of Share is pc.  Every part is sent by a goroutine   *)
(* of an errgroup, whose context ends with the first part that fails.      *)
(***************************************************************************)
EXTENDS Naturals, FiniteSets

CONSTANTS
  NumParts,              \* parts the bundle is cut into
  UploadConcurrency,     \* parts sent at a time
  MaxTransientAttempts,  \* how often a request is tried
  ReadsFail,             \* whether reading or encrypting a record may fail
  MaxLosses              \* bound: attempts without an answer in one behaviour

ASSUME SharingAssumption ==
  /\ NumParts \in Nat \ {0}
  /\ UploadConcurrency \in Nat \ {0}
  /\ MaxTransientAttempts \in Nat \ {0}
  /\ ReadsFail \in BOOLEAN
  /\ MaxLosses \in Nat

Parts == 1 .. NumParts
Start == NumParts + 1       \* the requests, after the numbers of the parts
Complete == NumParts + 2
Abort == NumParts + 3
Calls == 1 .. Abort
Attempts == 1 .. MaxTransientAttempts

VARIABLES
  \* the client
  pc,           \* the next step of Share, "shared" or "failed" once it returned
  next,         \* the part being filled
  call,         \* each request: "idle", "sent", then "ok", "refused" or "error"
  tries,        \* attempts of each request so far
  mine,         \* the upload session whose token StartUpload returned, 0 if none
  interrupted,  \* the caller's context has ended
  readFailed,   \* upload returned because a record could not be made
  \* the server
  session,      \* the state of the session each attempt at StartUpload made
  stored,       \* the parts recorded for the session the client knows
  \* the network
  late,         \* attempts nobody waits for that may still reach the server
  losses        \* attempts without an answer so far

client == <<pc, next, mine, interrupted, readFailed>>
server == <<session, stored>>
vars == <<client, call, tries, server, late, losses>>

TypeOK ==
  /\ pc \in {"start", "fill", "flush", "broken", "wait", "complete", "abort",
             "shared", "failed"}
  /\ next \in 1 .. NumParts + 1
  /\ call \in [Calls -> {"idle", "sent", "ok", "refused", "error"}]
  /\ tries \in [Calls -> 0 .. MaxTransientAttempts]
  /\ mine \in Attempts \cup {0}
  /\ interrupted \in BOOLEAN
  /\ readFailed \in BOOLEAN
  /\ session \in [Attempts -> {"none", "pending", "completed", "aborted"}]
  /\ stored \subseteq Parts
  /\ late \subseteq Calls \X Attempts
  /\ losses \in 0 .. MaxLosses

Init ==
  /\ pc = "start"
  /\ next = 1
  /\ call = [c \in Calls |-> "idle"]
  /\ tries = [c \in Calls |-> 0]
  /\ mine = 0
  /\ interrupted = FALSE
  /\ readFailed = FALSE
  /\ session = [k \in Attempts |-> "none"]
  /\ stored = {}
  /\ late = {}
  /\ losses = 0

Settled(c) == call[c] \in {"ok", "refused", "error"}
Failed(c) == call[c] \in {"refused", "error"}
InFlight == {n \in Parts : call[n] = "sent"}
Returned == pc \in {"shared", "failed"}

\* Mutant: the abort is sent with the caller's own context.
CancelledAbortToo(c) == interrupted \/ (c \in Parts /\ \E n \in Parts : Failed(n))

\* The context a request is sent with is done.  Parts have the errgroup's; the
\* abort has one of its own that only a timeout ends.
Cancelled(c) ==
  \/ interrupted /\ c # Abort
  \/ c \in Parts /\ \E n \in Parts : Failed(n)

-----------------------------------------------------------------------------
(* The server's handlers (upload_handler.go), each at one instant.         *)

\* No other upload and no secret has the public ID.
Unclaimed == \A k \in Attempts : session[k] \notin {"pending", "completed"}

Accepts(c) ==
  CASE c = Start    -> Unclaimed
    [] c \in Parts  -> session[mine] = "pending"
    [] c = Complete -> \/ session[mine] = "completed"
                       \/ session[mine] = "pending" /\ stored = Parts
    [] c = Abort    -> session[mine] \in {"pending", "aborted"}

\* The effect of the k-th attempt at request c.
Handle(c, k) ==
  LET s == IF c = Start THEN k ELSE mine
      outcome == CASE c = Complete -> "completed" [] c = Abort -> "aborted"
                   [] OTHER -> "pending" IN
  IF Accepts(c)
  THEN /\ session' = [session EXCEPT ![s] = outcome]
       /\ stored' = IF c \in Parts THEN stored \cup {c} ELSE stored
  ELSE UNCHANGED server

\* The sweep of expired upload sessions, or a discarded upload.
ExpireUpload(k) ==
  /\ session[k] = "pending"
  /\ session' = [session EXCEPT ![k] = "aborted"]
  /\ UNCHANGED <<client, call, tries, stored, late, losses>>

-----------------------------------------------------------------------------
(* One request: do, once and doJSON of api/client.go.                      *)

Result(c, answer) == call' = [call EXCEPT ![c] = answer]

\* do looks at the context before its first attempt.
Send(c) ==
  /\ call[c] = "idle"
  /\ IF Cancelled(c)
     THEN Result(c, "error") /\ UNCHANGED tries
     ELSE Result(c, "sent") /\ tries' = [tries EXCEPT ![c] = 1]
  /\ UNCHANGED <<server, late, losses>>

\* A success or a final refusal of the server reaches the client.
Answer(c) ==
  /\ call[c] = "sent"
  /\ Handle(c, tries[c])
  /\ Result(c, IF Accepts(c) THEN "ok" ELSE "refused")
  /\ mine' = IF c = Start /\ Accepts(c) THEN tries[c] ELSE mine
  /\ UNCHANGED <<pc, next, interrupted, readFailed, tries, late, losses>>

\* The success arrives, its body does not: an error with a 2xx status, which
\* transient does not count as worth another attempt.
LoseBody(c) ==
  /\ call[c] = "sent" /\ c \in {Start, Complete} /\ Accepts(c)
  /\ losses < MaxLosses
  /\ Handle(c, tries[c])
  /\ Result(c, "error")
  /\ losses' = losses + 1
  /\ UNCHANGED <<client, tries, late>>

\* No answer, or one of 429 and 5xx: do waits and tries again, up to
\* MaxTransientAttempts times.  What became of the attempt is open.
Lose(c) ==
  /\ call[c] = "sent" /\ losses < MaxLosses
  /\ late' = late \cup {<<c, tries[c]>>}
  /\ losses' = losses + 1
  /\ IF tries[c] < MaxTransientAttempts
     THEN tries' = [tries EXCEPT ![c] = @ + 1] /\ UNCHANGED call
     ELSE Result(c, "error") /\ UNCHANGED tries
  /\ UNCHANGED <<client, server>>

\* The context ends while the request, or the wait before the next attempt,
\* is under way; the abort's context also ends after its ten seconds.
GiveUp(c) ==
  /\ call[c] = "sent" /\ (Cancelled(c) \/ c = Abort)
  /\ Result(c, "error")
  /\ late' = late \cup {<<c, tries[c]>>}
  /\ UNCHANGED <<client, tries, server, losses>>

\* An attempt nobody waits for reaches the server after all, or never does.
ArriveLate(c, k) ==
  /\ <<c, k>> \in late
  /\ late' = late \ {<<c, k>>}
  /\ Handle(c, k)
  /\ UNCHANGED <<client, call, tries, losses>>

\* An attempt at a part overlaps an earlier one that is still being handled:
\* both miss the row, the second insert hits the primary key and is answered
\* as a conflict (RecordUploadPart of secret_repo.go).
Overlap(c, k) ==
  /\ c \in Parts /\ call[c] = "sent" /\ <<c, k>> \in late
  /\ Accepts(c) /\ c \notin stored
  /\ late' = late \ {<<c, k>>}
  /\ stored' = stored \cup {c}
  /\ Result(c, "refused")
  /\ UNCHANGED <<client, tries, session, losses>>

-----------------------------------------------------------------------------
(* The main goroutine.                                                     *)

Main == UNCHANGED <<server, late, losses>>
Goto(step) == pc' = step /\ UNCHANGED <<next, mine, interrupted, readFailed>>

\* The parameters are checked and the keys made before the first request.
RefuseParams == pc = "start" /\ call[Start] = "idle"
                /\ Goto("failed") /\ Main /\ UNCHANGED <<call, tries>>

StartUpload == pc = "start" /\ Send(Start) /\ UNCHANGED client

\* Without a session there is nothing to abort.
Started ==
  /\ pc = "start" /\ Settled(Start)
  /\ Goto(IF call[Start] = "ok" THEN "fill" ELSE "failed")
  /\ Main /\ UNCHANGED <<call, tries>>

\* Records are read and encrypted until the part is full, unless the context
\* is seen to have ended.
Fill ==
  /\ pc = "fill"
  /\ Goto(IF Cancelled(next) THEN "broken" ELSE "flush")
  /\ Main /\ UNCHANGED <<call, tries>>

\* A record that cannot be made ends upload at once, with the parts that are
\* being sent left to themselves.
FailToRead ==
  /\ pc = "fill" /\ ReadsFail /\ ~Cancelled(next)
  /\ readFailed' = TRUE
  /\ pc' = "abort"
  /\ Main /\ UNCHANGED <<next, mine, interrupted, call, tries>>

\* Mutant: a part keeps its place after it was sent.
FlushKeepingPlaces ==
  /\ pc = "flush"
  /\ Cardinality({n \in Parts : call[n] # "idle"}) < UploadConcurrency
  /\ Send(next)
  /\ next' = next + 1
  /\ pc' = IF next = NumParts THEN "wait" ELSE "fill"
  /\ UNCHANGED <<mine, interrupted, readFailed>>

\* g.Go waits for one of UploadConcurrency places.
Flush ==
  /\ pc = "flush"
  /\ Cardinality(InFlight) < UploadConcurrency
  /\ Send(next)
  /\ next' = next + 1
  /\ pc' = IF next = NumParts THEN "wait" ELSE "fill"
  /\ UNCHANGED <<mine, interrupted, readFailed>>

\* Mutant: a broken upload does not wait for the parts under way.
BreakAtOnce ==
  /\ pc = "broken"
  /\ Goto("abort")
  /\ Main /\ UNCHANGED <<call, tries>>

\* The loop was left early: wait for the parts under way, then fail.
Break ==
  /\ pc = "broken" /\ InFlight = {}
  /\ Goto("abort")
  /\ Main /\ UNCHANGED <<call, tries>>

Wait ==
  /\ pc = "wait" /\ InFlight = {}
  /\ Goto(IF \E n \in Parts : Failed(n) THEN "abort" ELSE "complete")
  /\ Main /\ UNCHANGED <<call, tries>>

CompleteUpload == pc = "complete" /\ Send(Complete) /\ UNCHANGED client

\* Mutant: a conflict is taken for the echo of a completion that was lost.
CompletedOrConflict ==
  /\ pc = "complete" /\ Settled(Complete)
  /\ Goto(IF call[Complete] \in {"ok", "refused"} THEN "shared" ELSE "abort")
  /\ Main /\ UNCHANGED <<call, tries>>

Completed ==
  /\ pc = "complete" /\ Settled(Complete)
  /\ Goto(IF call[Complete] = "ok" THEN "shared" ELSE "abort")
  /\ Main /\ UNCHANGED <<call, tries>>

AbortUpload == pc = "abort" /\ Send(Abort) /\ UNCHANGED client

\* Whatever the abort brought, Share returns the error of upload.
Aborted ==
  /\ pc = "abort" /\ Settled(Abort)
  /\ Goto("failed")
  /\ Main /\ UNCHANGED <<call, tries>>

Interrupt ==
  /\ ~interrupted /\ ~Returned
  /\ interrupted' = TRUE
  /\ UNCHANGED <<pc, next, mine, readFailed, call, tries, server, late, losses>>

Share ==
  \/ RefuseParams \/ StartUpload \/ Started
  \/ Fill \/ FailToRead \/ Flush \/ Break \/ Wait
  \/ CompleteUpload \/ Completed \/ AbortUpload \/ Aborted

Request(c) == Answer(c) \/ LoseBody(c) \/ Lose(c) \/ GiveUp(c)
              \/ \E k \in Attempts : Overlap(c, k)

Next ==
  \/ Share
  \/ \E c \in Calls : Request(c) \/ (\E k \in Attempts : ArriveLate(c, k))
  \/ \E k \in Attempts : ExpireUpload(k)
  \/ Interrupt

Spec == Init /\ [][Next]_vars

\* The goroutines run, and every attempt ends: answered, lost or given up.
Fairness == WF_vars(Share) /\ \A c \in Calls : WF_vars(Request(c))
FairSpec == Spec /\ Fairness

-----------------------------------------------------------------------------
(* Properties.                                                             *)

\* When Share returns links, the server has published the secret, with every
\* part of the bundle, whatever was lost, retried or arrived late.
SharedIsWhole == pc = "shared" => session[mine] = "completed" /\ stored = Parts

\* A Share that failed with a session in hand has tried to abort it, even when
\* the caller's context had ended: the session is still open only if no attempt
\* at the abort was answered, and published only if the completion was asked
\* for and its answer never seen.
FailedIsReleased ==
  pc = "failed" /\ mine # 0
    => /\ tries[Abort] > 0
       /\ session[mine] = "pending" => call[Abort] = "error"
       /\ session[mine] = "completed" => call[Complete] = "error" /\ tries[Complete] > 0

\* Nothing of Share runs on once it aborts or returns: no part is being sent,
\* and none will be tried again.  A record that could not be read is the
\* exception: that error returns past the wait for the parts.
QuietAtTheEnd == pc \in {"complete", "abort", "shared", "failed"} /\ ~readFailed => InFlight = {}

\* Share returns: no part, retry or full errgroup holds it for ever.
ShareReturns == <>Returned

\* A part of an upload that is still open is never refused: sending the same
\* content again is idempotent, as the repository's tests have it.
PartRetryIsSafe ==
  \A n \in Parts : call[n] = "refused" => session[mine] # "pending"

\* A Share that failed published nothing: what it leaves is a partial upload,
\* as the comment above its abort has it.
FailedIsNotPublished ==
  pc = "failed" => \A k \in Attempts : session[k] # "completed"
=============================================================================
