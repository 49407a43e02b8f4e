------------------------------ MODULE Transfers ------------------------------
(***************************************************************************)
(* Short-code transfers: the relay of transfer_handler.go with its         *)
(* repository (transfer_repo.go, code_transfers.sql.go), and the two       *)
(* browsers that use it (transferSession.ts, transfer.ts).                 *)
(*                                                                         *)
(* A sender opens a transfer and shows a code, the nameplate and words; a  *)
(* receiver types a code, claims the nameplate and answers; the sender     *)
(* checks the answer's tag and delivers the sealed link.  A write is tried *)
(* again when its answer is lost, while the earlier attempt may still be   *)
(* running in the server.  Steps of the server are the statements; a time  *)
(* is read where the code reads it.                                        *)
(***************************************************************************)
EXTENDS Naturals, FiniteSets, FiniteSetsExt

CONSTANTS
  Senders,       \* each opens one transfer, under a random ID of its own
  Receivers,     \* each types one code
  Words,         \* the words of a code
  WordsOf,       \* the words each sender draws
  MaxNameplate,  \* maxTransferNameplate
  TTL,           \* transferTTL
  Retention,     \* endedTransferRetention
  MaxAttempts,   \* MAX_TRANSIENT_ATTEMPTS
  MaxTroubles,   \* bound: requests that fail, people who cancel, rivals
  Rivals,        \* receivers counted as troubles, to bound the instance
  RivalTroubles, \* how much of MaxTroubles each of them takes
  LastStart,     \* bound: no transfer is opened later
  MaxTime,       \* bound: the clock stops here
  None

Clients == Senders \cup Receivers
Nameplates == 1..MaxNameplate
Times == 0..MaxTime
Attempts == 1..MaxAttempts

ASSUME TransfersAssumption ==
  /\ Senders \cap Receivers = {} /\ Rivals \subseteq Receivers
  /\ WordsOf \in [Senders -> Words]
  /\ {MaxNameplate, TTL, Retention, MaxAttempts} \subseteq Nat \ {0}
  /\ {MaxTroubles, RivalTroubles, LastStart, MaxTime} \subseteq Nat
  /\ None \notin Senders \cup Receivers \cup Words

(* CPace and the keys derived from it, as far as the protocol relies on     *)
(* them: both sides have the same key exactly when they agree on the        *)
(* session ID, the words and the shares.                                    *)

\* Mutant: the generator is not made from the words.
KeyWithoutWords(s, w, r) == <<s, None, r>>
Key(s, w, r) == <<s, w, r>>
Keys == {Key(s, w, r) : s \in Senders, w \in Words, r \in Receivers}

VARIABLES
  clock,
  row,      \* code_transfers, by transfer ID; None when there is no row
  pc,       \* what each client is doing, or how it ended
  at,       \* the time each CreateTransfer request has read
  shown,    \* the nameplate each sender shows
  code,     \* the nameplate and words each receiver typed
  joined,   \* the transfer each receiver has claimed
  peer,     \* the receiver's share each sender has checked
  fails,    \* failures of the current request in untilDone
  attempt,  \* the server's side of each attempt to write a leg
  closing,  \* DELETE requests on their way
  why,      \* the reason a client was given for the end of its transfer
  troubles  \* failed requests, cancels and rivals so far

vars == <<clock, row, pc, at, shown, code, joined, peer, fails, attempt, closing, why,
          troubles>>

Reasons == {"done", "cancelled", "mismatch", "expired"}
Rows == [nameplate : Nameplates, receiver : Receivers \cup {None},
         answer : [share : Receivers, tag : Keys] \cup {None},
         delivery : Keys \cup {None}, reason : Reasons \cup {None},
         closed : Times]

\* None stands for NULL and for no row: it is none of the values.
ASSUME NoneIsNoValue ==
  /\ None \notin Rows /\ None \notin [share : Receivers, tag : Keys]
  /\ None \notin Keys /\ None \notin Reasons
  /\ None \notin Nameplates /\ None \notin [nameplate : Nameplates, words : Words]

Settled == {"sent", "got", "mismatch", "ended", "failed", "cancelled", "used", "unknown"}
NoAttempt == [step |-> "none", again |-> FALSE, now |-> 0]

TypeOK ==
  /\ clock \in Times
  /\ row \in [Senders -> Rows \cup {None}]
  /\ pc \in [Clients -> {"idle", "creating", "claiming", "refused", "writing", "poll", "judge"}
                          \cup Settled]
  /\ at \in [Senders -> Times]
  /\ shown \in [Senders -> Nameplates \cup {None}]
  /\ code \in [Receivers -> [nameplate : Nameplates, words : Words] \cup {None}]
  /\ joined \in [Receivers -> Senders \cup {None}]
  /\ peer \in [Senders -> Receivers \cup {None}]
  /\ fails \in [Clients -> 0..MaxAttempts]
  /\ attempt \in [Clients -> [Attempts -> [step : {"none", "read", "judge", "store"},
                                           again : BOOLEAN, now : Times]]]
  /\ closing \in SUBSET (Senders \X {"cancelled", "mismatch"})
  /\ why \in [Clients -> Reasons \cup {None}]
  /\ troubles \in 0..MaxTroubles

Init ==
  /\ clock = 0
  /\ row = [s \in Senders |-> None]
  /\ pc = [c \in Clients |-> "idle"]
  /\ at = [s \in Senders |-> 0]
  /\ shown = [s \in Senders |-> None]
  /\ code = [r \in Receivers |-> None]
  /\ joined = [r \in Receivers |-> None]
  /\ peer = [s \in Senders |-> None]
  /\ fails = [c \in Clients |-> 0]
  /\ attempt = [c \in Clients |-> [i \in Attempts |-> NoAttempt]]
  /\ closing = {}
  /\ why = [c \in Clients |-> None]
  /\ troubles = 0

-----------------------------------------------------------------------------
(* The rows of code_transfers.                                              *)

Open(s) == row[s] # None /\ row[s].reason = None
Claimed(s) == row[s].receiver # None
Answered(s) == row[s].answer # None
Delivered(s) == row[s].delivery # None
ExpiresAt(s) == at[s] + TTL
Ran(s, now) == now >= ExpiresAt(s)

\* Frees the nameplates of transfers that ran out.
Closed(t, reason, now) == [t EXCEPT !.reason = reason, !.closed = now]
CloseExpiredActiveTransfers(now) ==
  [s \in Senders |-> IF Open(s) /\ Ran(s, now) THEN Closed(row[s], "expired", now) ELSE row[s]]

\* Mutant: only transfers nobody has claimed count as active.
FreeOfUnclaimed(rows) ==
  {n \in Nameplates : \A s \in Senders :
     rows[s] # None /\ rows[s].reason = None /\ rows[s].receiver = None => rows[s].nameplate # n}
FreeNameplates(rows) ==
  {n \in Nameplates : \A s \in Senders :
     rows[s] # None /\ rows[s].reason = None => rows[s].nameplate # n}
NextFreeNameplate(rows) == Min(FreeNameplates(rows))

NewTransfer(nameplate) ==
  [nameplate |-> nameplate, receiver |-> None, answer |-> None, delivery |-> None,
   reason |-> None, closed |-> 0]

\* UPDATEs that write only where their WHERE clause lets them.
AnswerTransfer(s, r, tag, now) ==
  IF Open(s) /\ Claimed(s) /\ ~Answered(s) /\ ~Ran(s, now)
  THEN [row EXCEPT ![s].answer = [share |-> r, tag |-> tag]] ELSE row
DeliverTransfer(s, key, now) ==
  IF Open(s) /\ Answered(s) /\ ~Ran(s, now)
  THEN [row EXCEPT ![s] = Closed([@ EXCEPT !.delivery = key], "done", now)] ELSE row
\* Mutant: a close is written whatever the transfer's state.
CloseAnyTransfer(s, reason, now) ==
  IF row[s] # None THEN [row EXCEPT ![s] = Closed(@, reason, now)] ELSE row
CloseTransfer(s, reason, now) ==
  IF Open(s) THEN [row EXCEPT ![s] = Closed(@, reason, now)] ELSE row

-----------------------------------------------------------------------------
(* What becomes of a client.                                                *)

Becomes(c, state) == pc' = [pc EXCEPT ![c] = state]
IdOf(c) == IF c \in Senders THEN c ELSE joined[c]

\* Starts the next request of untilDone, or of the next untilDone.
Polls(c) ==
  /\ Becomes(c, "poll")
  /\ fails' = [fails EXCEPT ![c] = 0]
Writes(c, k) ==
  /\ Becomes(c, "writing")
  /\ fails' = [fails EXCEPT ![c] = k]
  /\ attempt' = [attempt EXCEPT ![c][k + 1].step = "read"]

\* TransferEndedError; the receiver takes the sender's mismatch for its own.
Ends(c, reason) ==
  /\ Becomes(c, IF c \in Receivers /\ reason = "mismatch" THEN "mismatch" ELSE "ended")
  /\ why' = [why EXCEPT ![c] = reason]

\* A receiver that fails for another reason releases the sender.
Fails(c) ==
  /\ Becomes(c, "failed")
  /\ closing' = IF c \in Receivers /\ joined[c] # None
                THEN closing \cup {<<joined[c], "cancelled">>} ELSE closing

-----------------------------------------------------------------------------
(* POST /transfers.  The time is read before the transaction waits for the  *)
(* lock on the nameplates.                                                  *)

StartSending(s) ==
  /\ pc[s] = "idle"
  /\ clock <= LastStart
  /\ Becomes(s, "creating")
  /\ at' = [at EXCEPT ![s] = clock]
  /\ UNCHANGED <<clock, row, shown, code, joined, peer, fails, attempt, closing, why>>

\* The lock makes the transaction one step for other creations; statements of
\* others between its own can only free more nameplates.  A transfer ID is 32
\* random bytes, so the primary key refuses none.  The answer may be lost.
CreateTransfer(s) ==
  LET rows == CloseExpiredActiveTransfers(at[s]) IN
  /\ pc[s] = "creating"
  /\ \/ /\ FreeNameplates(rows) = {}
        /\ Becomes(s, "failed")
        /\ UNCHANGED <<row, shown, fails>>
     \/ LET n == NextFreeNameplate(rows) IN
        /\ FreeNameplates(rows) # {}
        /\ row' = [rows EXCEPT ![s] = NewTransfer(n)]
        /\ \/ Polls(s) /\ shown' = [shown EXCEPT ![s] = n]
           \/ Becomes(s, "failed") /\ UNCHANGED <<shown, fails>>
  /\ UNCHANGED <<clock, at, code, joined, peer, attempt, closing, why>>

(* POST /transfers/claim: an UPDATE, and if it finds nothing a second       *)
(* statement that tells a code already used from one that is not there.     *)

ReceiveWithCode(r) ==
  /\ pc[r] = "idle"
  /\ \E n \in Nameplates, w \in Words : code' = [code EXCEPT ![r] = [nameplate |-> n, words |-> w]]
  /\ Becomes(r, "claiming")
  /\ UNCHANGED <<clock, row, at, shown, joined, peer, fails, attempt, closing, why>>

ClaimableBy(r) ==
  {s \in Senders :
     Open(s) /\ row[s].nameplate = code[r].nameplate /\ ~Claimed(s) /\ ~Ran(s, clock)}

ClaimTransfer(r) ==
  /\ pc[r] = "claiming"
  /\ \/ \E s \in ClaimableBy(r) :
          /\ row' = [row EXCEPT ![s].receiver = r]
          /\ \/ joined' = [joined EXCEPT ![r] = s] /\ Writes(r, 0)
             \/ Becomes(r, "failed") /\ UNCHANGED <<joined, fails, attempt>>
     \/ /\ ClaimableBy(r) = {}
        /\ Becomes(r, "refused")
        /\ UNCHANGED <<row, joined, fails, attempt>>
  /\ UNCHANGED <<clock, at, shown, code, peer, closing, why>>

ClaimedTransferExists(r) ==
  /\ pc[r] = "refused"
  /\ Becomes(r, IF \E s \in Senders : /\ Open(s)
                                      /\ row[s].nameplate = code[r].nameplate
                                      /\ Claimed(s)
                                      /\ ~Ran(s, clock)
                THEN "used" ELSE "unknown")
  /\ UNCHANGED <<clock, row, at, shown, code, joined, peer, fails, attempt, closing, why>>

-----------------------------------------------------------------------------
(* POST answer and POST delivery: writeOnce.  Attempt i of client c reads   *)
(* the row, judges it at a time of its own and stores with that time; a     *)
(* refused store is judged once more on fresh state.                        *)

Written(c) == IF c \in Senders THEN Delivered(IdOf(c)) ELSE Answered(IdOf(c))

\* The value a client writes: sealed or computed once, the same in each attempt.
Tag(r) == Key(joined[r], code[r].words, r)
Sealed(s) == Key(s, WordsOf[s], peer[s])
Same(c) ==
  IF c \in Senders
  THEN row[c].delivery = Sealed(c)
  ELSE row[joined[c]].answer = [share |-> c, tag |-> Tag(c)]

\* What an answered attempt means for the client, unless it waits no longer
\* for this attempt: the leg is written, refused, or the transfer is over.
Waits(c, i) == pc[c] = "writing" /\ fails[c] + 1 = i
Stop(c, i) == attempt' = [attempt EXCEPT ![c][i] = NoAttempt]
Ignored(c, i) == ~Waits(c, i) /\ Stop(c, i) /\ UNCHANGED <<pc, fails, closing, why>>

AnswerWritten(c, i) ==
  \/ Ignored(c, i)
  \/ /\ Waits(c, i)
     /\ Stop(c, i)
     /\ IF c \in Senders THEN Becomes(c, "sent") /\ UNCHANGED fails ELSE Polls(c)
     /\ UNCHANGED <<closing, why>>
AnswerGone(c, i, reason) ==
  \/ Ignored(c, i)
  \/ Waits(c, i) /\ Stop(c, i) /\ Ends(c, reason) /\ UNCHANGED <<fails, closing>>
\* ConflictError: not transient, so the client gives up.
AnswerConflict(c, i) ==
  \/ Ignored(c, i)
  \/ Waits(c, i) /\ Stop(c, i) /\ Fails(c) /\ UNCHANGED <<fails, why>>

Proceed(c, i, to) == attempt' = [attempt EXCEPT ![c][i] = to] /\ UNCHANGED <<pc, fails, closing, why>>

\* authenticate, or the second look: GetTransfer, then what the row says.
ReadLeg(c, i) ==
  LET s == IdOf(c) IN
  /\ attempt[c][i].step = "read"
  /\ IF row[s] = None THEN AnswerGone(c, i, "expired")
     ELSE IF Written(c) THEN IF Same(c) THEN AnswerWritten(c, i) ELSE AnswerConflict(c, i)
     ELSE IF ~Open(s) THEN AnswerGone(c, i, row[s].reason)
     ELSE Proceed(c, i, [attempt[c][i] EXCEPT !.step = "judge"])
  /\ UNCHANGED <<clock, row, at, shown, code, joined, peer>>

\* Ended(now), on the row that was read, which was not closed.
JudgeLeg(c, i) ==
  /\ attempt[c][i].step = "judge"
  /\ IF Ran(IdOf(c), clock) THEN AnswerGone(c, i, "expired")
     ELSE Proceed(c, i, [attempt[c][i] EXCEPT !.step = "store", !.now = clock])
  /\ UNCHANGED <<clock, row, at, shown, code, joined, peer>>

Store(c, now) ==
  IF c \in Senders THEN DeliverTransfer(c, Sealed(c), now)
                   ELSE AnswerTransfer(joined[c], c, Tag(c), now)
\* Mutant: a store that wrote nothing is reported at once.
StoreLegOnce(c, i) ==
  /\ attempt[c][i].step = "store"
  /\ row' = Store(c, attempt[c][i].now)
  /\ IF row' # row THEN AnswerWritten(c, i) ELSE AnswerConflict(c, i)
  /\ UNCHANGED <<clock, at, shown, code, joined, peer>>
StoreLeg(c, i) ==
  /\ attempt[c][i].step = "store"
  /\ row' = Store(c, attempt[c][i].now)
  /\ IF row' # row THEN AnswerWritten(c, i)
     ELSE IF attempt[c][i].again THEN AnswerConflict(c, i)
     ELSE Proceed(c, i, [step |-> "read", again |-> TRUE, now |-> 0])
  /\ UNCHANGED <<clock, at, shown, code, joined, peer>>

-----------------------------------------------------------------------------
(* GET answer and GET delivery: await.  A poll whose window passed is made  *)
(* again by the client, which is what its next round of reading does.       *)

\* sendLink: the tag proves that the receiver typed the same words.
AnswerMatches(s) == row[s].answer.tag = Key(s, WordsOf[s], row[s].answer.share)

\* openLink
Opens(r) == row[joined[r]].delivery = Tag(r)

TakeAnswer(s) ==
  \/ /\ AnswerMatches(s)
     /\ peer' = [peer EXCEPT ![s] = row[s].answer.share]
     /\ Writes(s, 0)
     /\ UNCHANGED closing
  \/ /\ ~AnswerMatches(s)
     /\ Becomes(s, "mismatch")
     /\ closing' = closing \cup {<<s, "mismatch">>}
     /\ UNCHANGED <<peer, fails, attempt>>
TakeDelivery(r) ==
  /\ Becomes(r, IF Opens(r) THEN "got" ELSE "mismatch")
  /\ UNCHANGED <<peer, fails, attempt, closing>>

Ready(c) == IF c \in Senders THEN Answered(c) ELSE Delivered(joined[c])

Told(c, reason) == Ends(c, reason) /\ UNCHANGED <<peer, fails, attempt, closing>>
Takes(c) == (IF c \in Senders THEN TakeAnswer(c) ELSE TakeDelivery(c)) /\ UNCHANGED why
NotYet(c) == Becomes(c, "judge") /\ UNCHANGED <<peer, fails, attempt, closing, why>>

\* Mutant: an ended transfer is reported before its leg is looked for.
ReadTransferEndedFirst(c) ==
  LET s == IdOf(c) IN
  /\ pc[c] = "poll"
  /\ IF row[s] = None THEN Told(c, "expired")
     ELSE IF ~Open(s) THEN Told(c, row[s].reason)
     ELSE IF Ready(c) THEN Takes(c)
     ELSE NotYet(c)
  /\ UNCHANGED <<clock, row, at, shown, code, joined>>
ReadTransfer(c) ==
  LET s == IdOf(c) IN
  /\ pc[c] = "poll"
  /\ IF row[s] = None THEN Told(c, "expired")
     ELSE IF Ready(c) THEN Takes(c)
     ELSE IF ~Open(s) THEN Told(c, row[s].reason)
     ELSE NotYet(c)
  /\ UNCHANGED <<clock, row, at, shown, code, joined>>

\* Ended(time.Now()) on the row read before, which was neither ready nor
\* closed.  A poll that may go on reads again, or its window has passed and
\* the client makes the next one.
\* Mutant: the expiry is left to the clean-up.
JudgeTransferNever(c) ==
  /\ pc[c] = "judge"
  /\ Polls(c)
  /\ UNCHANGED <<clock, row, at, shown, code, joined, peer, attempt, closing, why>>
JudgeTransfer(c) ==
  /\ pc[c] = "judge"
  /\ \/ Ran(IdOf(c), clock) /\ Ends(c, "expired") /\ UNCHANGED fails
     \/ ~Ran(IdOf(c), clock) /\ Polls(c) /\ UNCHANGED why
     \/ ~Ran(IdOf(c), clock) /\ Becomes(c, "poll") /\ UNCHANGED <<fails, why>>
  /\ UNCHANGED <<clock, row, at, shown, code, joined, peer, attempt, closing>>

-----------------------------------------------------------------------------
(* Failures, and people who change their mind.                              *)

\* A request fails for the client: no answer, a server error, a rate limit.
\* A poll ends with it; a write may go on in the server.
Retry(c) ==
  /\ pc[c] \in {"poll", "judge", "writing"}
  /\ fails[c] + 1 < MaxAttempts
  /\ \/ /\ pc[c] = "writing"
        /\ Writes(c, fails[c] + 1)
     \/ /\ pc[c] # "writing"
        /\ Becomes(c, "poll")
        /\ fails' = [fails EXCEPT ![c] = @ + 1]
        /\ UNCHANGED attempt
  /\ UNCHANGED <<clock, row, at, shown, code, joined, peer, closing, why>>
GiveUp(c) ==
  /\ pc[c] \in {"poll", "judge", "writing"}
  /\ fails[c] + 1 >= MaxAttempts
  /\ Fails(c)
  /\ UNCHANGED <<clock, row, at, shown, code, joined, peer, fails, attempt, why>>

\* cancel() of the sender, the abort signal of the receiver.
Cancel(c) ==
  /\ pc[c] \in {"poll", "judge", "writing"} \/ (c \in Senders /\ pc[c] = "failed" /\ shown[c] # None)
  /\ Becomes(c, "cancelled")
  /\ closing' = closing \cup {<<IdOf(c), "cancelled">>}
  /\ UNCHANGED <<clock, row, at, shown, code, joined, peer, fails, attempt, why>>

\* DELETE /transfers/{id}, which may be lost; its outcome is ignored.
HandleClose(m) ==
  /\ closing' = closing \ {m}
  /\ row' = CloseTransfer(m[1], m[2], clock) \/ row' = row
  /\ UNCHANGED <<clock, pc, at, shown, code, joined, peer, fails, attempt, why>>

DeleteEndedTransfers ==
  LET ended(s) == \/ ExpiresAt(s) + Retention < clock
                  \/ ~Open(s) /\ row[s].closed + Retention < clock
      gone == {s \in Senders : row[s] # None /\ ended(s)}
  IN /\ gone # {}
     /\ row' = [s \in Senders |-> IF s \in gone THEN None ELSE row[s]]
     /\ UNCHANGED <<clock, pc, at, shown, code, joined, peer, fails, attempt, closing, why>>

\* Time goes on whatever anybody waits for: a statement may be slow, a client may
\* pause before it tries again, a device may sleep for longer than a row is kept.
Tick ==
  /\ clock < MaxTime
  /\ clock' = clock + 1
  /\ UNCHANGED <<row, pc, at, shown, code, joined, peer, fails, attempt, closing, why>>

\* What goes on for a client that has asked for something: its request, and
\* the attempts of earlier ones.
Serve(c) ==
  \/ c \in Senders /\ CreateTransfer(c)
  \/ c \in Receivers /\ (ClaimTransfer(c) \/ ClaimedTransferExists(c))
  \/ ReadTransfer(c) \/ JudgeTransfer(c)
  \/ \E i \in Attempts : ReadLeg(c, i) \/ JudgeLeg(c, i) \/ StoreLeg(c, i)

Next ==
  \/ /\ \/ \E s \in Senders : StartSending(s)
        \/ \E c \in Clients : Serve(c)
        \/ \E m \in closing : HandleClose(m)
        \/ DeleteEndedTransfers
        \/ Tick
     /\ UNCHANGED troubles
  \/ \E r \in Receivers :
       /\ troubles' = IF r \in Rivals THEN troubles + RivalTroubles ELSE troubles
       /\ troubles' <= MaxTroubles
       /\ ReceiveWithCode(r)
  \/ /\ troubles < MaxTroubles
     /\ troubles' = troubles + 1
     /\ \E c \in Clients : Retry(c) \/ GiveUp(c) \/ Cancel(c)

\* The server answers what it was asked, time goes on; nobody has to start,
\* to cancel, to fail, or to clean up.
Fairness ==
  /\ WF_vars(Tick /\ UNCHANGED troubles)
  /\ \A c \in Clients : WF_vars(Serve(c) /\ UNCHANGED troubles)

Spec == Init /\ [][Next]_vars
FairSpec == Spec /\ Fairness

-----------------------------------------------------------------------------
(* Properties.                                                              *)

\* A code is unambiguous: two transfers a claim could find never share a
\* nameplate (CreateTransfer reuses those of transfers that ended).
CodesAreUnambiguous ==
  \A s, t \in Senders : s # t /\ Open(s) /\ Open(t) => row[s].nameplate # row[t].nameplate

\* A link changes hands only between a sender and somebody who typed the code
\* that sender was shown, however nameplates were reused and requests repeated:
\* who got a link typed its code, and what sendLink reports as handed over the
\* receiver who claimed the transfer can open.
LinkNeedsTheCode ==
  /\ \A r \in Receivers : pc[r] = "got" =>
       /\ code[r] = [nameplate |-> shown[joined[r]], words |-> WordsOf[joined[r]]]
       /\ peer[joined[r]] = r
  /\ \A s \in Senders : pc[s] = "sent" =>
       \E r \in Receivers : peer[s] = r /\ joined[r] = s /\ code[r].words = WordsOf[s]

\* The relay's promise of legs written once: who joined, the answer, the
\* delivery and the reason of the end stay as they are while the row exists.
LegsStay ==
  [][\A s \in Senders : row[s] # None /\ row'[s] # None =>
       \A leg \in {"receiver", "answer", "delivery", "reason"} :
         row[s][leg] # None => row'[s][leg] = row[s][leg]]_vars

\* Repeating a write is safe: a client that follows the protocol is never told
\* that its leg is refused, so a receiver fails only after MaxAttempts failures.
RetriesAreSafe ==
  \A c \in Clients : pc[c] = "failed" /\ IdOf(c) # None /\ (c \in Senders => shown[c] # None)
                       => fails[c] + 1 >= MaxAttempts

Withdrew(s, c) == \E d \in Clients \ {c} : IdOf(d) = s /\ pc[d] \in {"cancelled", "failed"}

\* The reason a client is given is true, or the relay no longer knew better.  A
\* mismatch was found by the sender, a cancellation came from somebody else, and
\* nobody is told "done" as an end.  An expiry is real, or the transfer had ended
\* before, by a mismatch, a delivery or somebody else's withdrawal, and its row
\* was removed while the client was away.
EndedIsTrue ==
  \A c \in Clients : why[c] # None =>
    LET s == IdOf(c) IN
    \/ /\ why[c] = "expired"
       /\ \/ Ran(s, clock)
          \/ row[s] = None /\ (peer[s] # None \/ pc[s] = "mismatch" \/ Withdrew(s, c))
    \/ why[c] = "mismatch" /\ pc[s] = "mismatch"
    \/ why[c] = "cancelled" /\ Withdrew(s, c)

\* A poll for the delivery fails only "when the transfer ended without it": a leg
\* that was written is returned (violated at the expiry: see the README).
LegIsReturned ==
  [][\A r \in Receivers :
       pc[r] \in {"poll", "judge"} /\ row[joined[r]] # None /\ Delivered(joined[r])
         => pc'[r] # "ended"]_vars

\* Whoever started comes to an end: a sender nobody answers, a receiver whose
\* sender is gone, and both when answers get lost.
EveryoneSettles == <>[](\A c \in Clients : pc[c] \in Settled \cup {"idle"})
=============================================================================
