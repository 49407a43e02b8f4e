--------------------------- MODULE TransfersProofs ---------------------------
(***************************************************************************)
(* Theorems about Transfers, for any number of senders and receivers, any  *)
(* nameplates and words, and any number of attempts and troubles.          *)
(***************************************************************************)
EXTENDS Transfers, WellFoundedInduction, TLAPS

Begun(c) == pc[c] \notin {"idle", "creating"}

\* A sender has a row only once it was created, under the nameplate it shows,
\* and from then on its share of the exchange is settled step by step.
SenderInv(s) ==
  /\ row[s] # None \/ shown[s] # None \/ peer[s] # None => Begun(s)
  /\ pc[s] \in {"poll", "judge"} => peer[s] = None /\ shown[s] # None
  /\ pc[s] \in {"writing", "sent"} => peer[s] # None
  /\ row[s] # None /\ shown[s] # None => row[s].nameplate = shown[s]
  /\ peer[s] # None =>
       /\ shown[s] # None
       /\ joined[peer[s]] = s /\ code[peer[s]].words = WordsOf[s]
       /\ row[s] # None => row[s].answer # None

\* A receiver is the one its transfer was claimed by, with the code it typed.
ReceiverInv(r) ==
  /\ pc[r] = "idle" <=> code[r] = None
  /\ pc[r] \in {"idle", "claiming"} => joined[r] = None
  /\ pc[r] \in {"poll", "judge", "writing", "got"} => joined[r] # None
  /\ joined[r] # None =>
       /\ code[r] # None
       /\ Begun(joined[r])
       /\ row[joined[r]] # None => /\ row[joined[r]].nameplate = code[r].nameplate
                                   /\ row[joined[r]].receiver = r

\* The legs of a row: who wrote them and what they hold.
LegsInv(s) ==
  row[s] # None =>
    /\ row[s].answer # None =>
         \E r \in Receivers : joined[r] = s /\ row[s].answer = [share |-> r, tag |-> Tag(r)]
    /\ row[s].delivery # None =>
         row[s].reason # None /\ peer[s] # None /\ row[s].delivery = Sealed(s)

\* An attempt at a write has something to write and a time at which it may; the
\* second look of one that was refused finds the reason.
AttemptInv(c, i) ==
  LET a == attempt[c][i] IN
  /\ a.step # "none" => IF c \in Senders THEN peer[c] # None ELSE joined[c] # None
  /\ a.step = "store" => ~Ran(IdOf(c), a.now)
  /\ a.again => a.step = "read" /\ (~Open(IdOf(c)) \/ Written(c))

TransfersInv ==
  /\ TypeOK
  /\ \A s \in Senders : SenderInv(s) /\ LegsInv(s)
  /\ \A r \in Receivers : ReceiverInv(r)
  /\ \A c \in Clients, i \in Attempts : AttemptInv(c, i)
  /\ CodesAreUnambiguous
  /\ LinkNeedsTheCode
  /\ RetriesAreSafe

-----------------------------------------------------------------------------
(* The operators the steps are made of.                                     *)

States == {"idle", "creating", "claiming", "refused", "writing", "poll", "judge"} \cup Settled

\* Senders are not receivers, and None is nobody.
LEMMA Nobody ==
  /\ Senders \cap Receivers = {} /\ None \notin Senders /\ None \notin Receivers
  /\ None \notin Words /\ WordsOf \in [Senders -> Words]
  /\ MaxAttempts \in Nat \ {0} /\ MaxTroubles \in Nat /\ MaxTime \in Nat
BY TransfersAssumption

\* A row that was closed is a row and keeps its legs.
LEMMA ClosedFacts ==
  ASSUME NEW t \in Rows, NEW reason \in Reasons, NEW now \in Times
  PROVE  LET c == Closed(t, reason, now)
         IN /\ c \in Rows /\ c.reason = reason
            /\ c.nameplate = t.nameplate /\ c.receiver = t.receiver
            /\ c.answer = t.answer /\ c.delivery = t.delivery
BY DEF Closed, Rows

\* A new row has no legs.
LEMMA NewTransferFacts ==
  ASSUME NEW n \in Nameplates
  PROVE  LET t == NewTransfer(n)
         IN /\ t \in Rows /\ t.nameplate = n /\ t.receiver = None /\ t.answer = None
            /\ t.delivery = None /\ t.reason = None
<1>1. 0 \in Times
  BY Nobody DEF Times
<1> QED
  BY <1>1 DEF NewTransfer, Rows

\* What the rows of the others are when a transfer is opened.
LEMMA ExpiredFacts ==
  ASSUME TypeOK, NEW now \in Times, NEW s \in Senders
  PROVE  LET new == CloseExpiredActiveTransfers(now)[s] IN
         /\ new \in Rows \cup {None}
         /\ new = row[s] \/ (Open(s) /\ new = Closed(row[s], "expired", now))
         /\ CloseExpiredActiveTransfers(now) \in [Senders -> Rows \cup {None}]
<1>1. ASSUME NEW t \in Senders
      PROVE  LET new == CloseExpiredActiveTransfers(now)[t] IN
             /\ new \in Rows \cup {None}
             /\ new = row[t] \/ (Open(t) /\ new = Closed(row[t], "expired", now))
  <2>1. CASE Open(t) /\ Ran(t, now)
    <3>1. row[t] \in Rows /\ "expired" \in Reasons
      BY <2>1 DEF TypeOK, Open, Reasons
    <3>2. CloseExpiredActiveTransfers(now)[t] = Closed(row[t], "expired", now)
      BY <2>1 DEF CloseExpiredActiveTransfers
    <3> QED
      BY <2>1, <3>1, <3>2, ClosedFacts
  <2>2. CASE ~(Open(t) /\ Ran(t, now))
    BY <2>2 DEF TypeOK, CloseExpiredActiveTransfers
  <2> QED
    BY <2>1, <2>2
<1>2. CloseExpiredActiveTransfers(now) \in [Senders -> Rows \cup {None}]
  BY <1>1 DEF CloseExpiredActiveTransfers
<1> QED
  BY <1>1, <1>2

\* The smallest number of a set is one of it: the naturals are well ordered.
LEMMA MinIsMember ==
  ASSUME NEW S, S \subseteq Nat, S # {}
  PROVE  Min(S) \in S
<1> DEFINE R == OpToRel(<, Nat)
<1>1. IsWellFoundedOn(R, Nat)
  BY NatLessThanWellFounded
<1>2. \A y, x \in Nat : y < x => <<y, x>> \in R
  BY DEF OpToRel
<1> HIDE DEF R
<1>3. PICK x \in S : \A y \in S : ~(<<y, x>> \in R)
  BY <1>1, WFMin
<1>4. \A y \in S : ~(y < x) /\ y \in Nat /\ x \in Nat
  BY <1>2, <1>3
<1>5. \A y \in S : x <= y
  BY <1>4
<1> QED
  BY <1>5 DEF Min

\* The smallest free nameplate is free.
LEMMA NextFreeIsFree ==
  ASSUME NEW rows, FreeNameplates(rows) # {}
  PROVE  /\ NextFreeNameplate(rows) \in Nameplates
         /\ \A s \in Senders : rows[s] # None /\ rows[s].reason = None
              => rows[s].nameplate # NextFreeNameplate(rows)
<1>1. FreeNameplates(rows) \subseteq Nat
  BY TransfersAssumption DEF FreeNameplates, Nameplates
<1>2. NextFreeNameplate(rows) \in FreeNameplates(rows)
  BY <1>1, MinIsMember DEF NextFreeNameplate
<1> QED
  BY <1>2 DEF FreeNameplates

AttemptRecs == [step : {"none", "read", "judge", "store"}, again : BOOLEAN, now : Times]

\* A client's state changes, alone.
LEMMA BecomesFacts ==
  ASSUME TypeOK, NEW c \in Clients, NEW state \in States, Becomes(c, state)
  PROVE  /\ pc' \in [Clients -> States] /\ pc'[c] = state
         /\ \A d \in Clients : d # c => pc'[d] = pc[d]
BY DEF TypeOK, States, Becomes

SetAttempt(c, i, a) == attempt' = [attempt EXCEPT ![c][i] = a]

\* An attempt moves on, alone.
LEMMA AttemptFacts ==
  ASSUME TypeOK, NEW c \in Clients, NEW i \in Attempts, NEW a \in AttemptRecs, SetAttempt(c, i, a)
  PROVE  /\ attempt' \in [Clients -> [Attempts -> AttemptRecs]] /\ attempt'[c][i] = a
         /\ \A d \in Clients, j \in Attempts : d # c \/ j # i => attempt'[d][j] = attempt[d][j]
<1>1. attempt \in [Clients -> [Attempts -> AttemptRecs]]
  BY DEF TypeOK, AttemptRecs
<1> QED
  BY <1>1 DEF SetAttempt

\* An attempt that goes to another step keeps the rest.
LEMMA StepFacts ==
  ASSUME NEW a \in AttemptRecs, NEW step \in {"none", "read", "judge", "store"}
  PROVE  LET b == [a EXCEPT !.step = step]
         IN b \in AttemptRecs /\ b.step = step /\ b.again = a.again /\ b.now = a.now
BY DEF AttemptRecs

\* No attempt, and the second look, are attempts.
LEMMA NoAttemptFacts ==
  /\ NoAttempt \in AttemptRecs /\ NoAttempt.step = "none" /\ ~NoAttempt.again
  /\ [step |-> "read", again |-> TRUE, now |-> 0] \in AttemptRecs
<1>1. 0 \in Times
  BY Nobody DEF Times
<1> QED
  BY <1>1 DEF NoAttempt, AttemptRecs

\* A write is begun: its attempt is to read first.
LEMMA WritesFacts ==
  ASSUME TypeOK, NEW c \in Clients, NEW k \in Nat, k + 1 \in Attempts, Writes(c, k)
  PROVE  /\ pc' \in [Clients -> States] /\ pc'[c] = "writing"
         /\ \A d \in Clients : d # c => pc'[d] = pc[d]
         /\ fails' \in [Clients -> 0..MaxAttempts] /\ fails'[c] = k
         /\ \A d \in Clients : d # c => fails'[d] = fails[d]
         /\ attempt' \in [Clients -> [Attempts -> AttemptRecs]]
         /\ attempt'[c][k + 1].step = "read"
         /\ attempt'[c][k + 1].again = attempt[c][k + 1].again
         /\ \A d \in Clients, j \in Attempts : d # c \/ j # k + 1 => attempt'[d][j] = attempt[d][j]
<1>1. pc' \in [Clients -> States] /\ pc'[c] = "writing" /\ \A d \in Clients : d # c => pc'[d] = pc[d]
  BY BecomesFacts DEF Writes, States
<1>2. k \in 0..MaxAttempts
  BY Nobody DEF Attempts
<1>3. /\ fails' \in [Clients -> 0..MaxAttempts] /\ fails'[c] = k
      /\ \A d \in Clients : d # c => fails'[d] = fails[d]
  BY <1>2 DEF TypeOK, Writes
<1> DEFINE a == [attempt[c][k + 1] EXCEPT !.step = "read"]
<1>4. a \in AttemptRecs /\ a.step = "read" /\ a.again = attempt[c][k + 1].again
  <2>1. attempt[c][k + 1] \in AttemptRecs
    BY DEF TypeOK, AttemptRecs
  <2> QED
    BY <2>1, StepFacts
<1>5. SetAttempt(c, k + 1, a)
  BY DEF Writes, SetAttempt
<1> HIDE DEF a
<1>6. /\ attempt' \in [Clients -> [Attempts -> AttemptRecs]] /\ attempt'[c][k + 1] = a
      /\ \A d \in Clients, j \in Attempts : d # c \/ j # k + 1 => attempt'[d][j] = attempt[d][j]
  BY <1>4, <1>5, AttemptFacts
<1> QED
  BY <1>1, <1>3, <1>4, <1>6

\* The next request of a client starts its count of failures anew.
LEMMA PollsFacts ==
  ASSUME TypeOK, NEW c \in Clients, Polls(c)
  PROVE  /\ pc' \in [Clients -> States] /\ pc'[c] = "poll"
         /\ \A d \in Clients : d # c => pc'[d] = pc[d]
         /\ fails' \in [Clients -> 0..MaxAttempts]
         /\ \A d \in Clients : d # c => fails'[d] = fails[d]
<1>1. 0 \in 0..MaxAttempts
  BY Nobody
<1>2. /\ fails' \in [Clients -> 0..MaxAttempts]
      /\ \A d \in Clients : d # c => fails'[d] = fails[d]
  BY <1>1 DEF TypeOK, Polls
<1> QED
  BY <1>2, BecomesFacts DEF Polls, States

\* A client learns that its transfer is over.
LEMMA EndsFacts ==
  ASSUME TypeOK, NEW c \in Clients, NEW reason \in Reasons, Ends(c, reason)
  PROVE  /\ pc' \in [Clients -> States] /\ pc'[c] \in {"mismatch", "ended"}
         /\ \A d \in Clients : d # c => pc'[d] = pc[d]
         /\ why' \in [Clients -> Reasons \cup {None}]
<1>1. why' \in [Clients -> Reasons \cup {None}]
  BY DEF TypeOK, Ends
<1>2. {"mismatch", "ended"} \subseteq States
  BY DEF States, Settled
<1> QED
  BY <1>1, <1>2, BecomesFacts DEF Ends

\* A client fails.
LEMMA FailsFacts ==
  ASSUME TypeOK, NEW c \in Clients, Fails(c)
  PROVE  /\ pc' \in [Clients -> States] /\ pc'[c] = "failed"
         /\ \A d \in Clients : d # c => pc'[d] = pc[d]
         /\ closing' \in SUBSET (Senders \X {"cancelled", "mismatch"})
<1>1. closing' \in SUBSET (Senders \X {"cancelled", "mismatch"})
  BY DEF TypeOK, Fails
<1> QED
  BY <1>1, BecomesFacts DEF Fails, States, Settled

\* An attempt is answered: it is over, and if the client still waits for it, the
\* client goes on or ends.
Replied(c, i) ==
  /\ attempt'[c][i] = NoAttempt
  /\ \A d \in Clients, j \in Attempts : d # c \/ j # i => attempt'[d][j] = attempt[d][j]
  /\ \A d \in Clients : d # c => pc'[d] = pc[d] /\ fails'[d] = fails[d]
  /\ \/ pc'[c] = pc[c] /\ fails'[c] = fails[c]
     \/ /\ pc[c] = "writing"
        /\ pc'[c] \in {"mismatch", "ended", "failed"}
             \cup (IF c \in Senders THEN {"sent"} ELSE {"poll"})

ClientTypes ==
  /\ pc' \in [Clients -> States]
  /\ fails' \in [Clients -> 0..MaxAttempts]
  /\ attempt' \in [Clients -> [Attempts -> AttemptRecs]]
  /\ closing' \in SUBSET (Senders \X {"cancelled", "mismatch"})
  /\ why' \in [Clients -> Reasons \cup {None}]

\* Each kind of answer is a reply.
LEMMA ReplyFacts ==
  ASSUME TypeOK, NEW c \in Clients, NEW i \in Attempts, NEW reason \in Reasons,
         AnswerWritten(c, i) \/ AnswerGone(c, i, reason) \/ AnswerConflict(c, i)
  PROVE  ClientTypes /\ Replied(c, i)
<1>0. /\ pc \in [Clients -> States] /\ fails \in [Clients -> 0..MaxAttempts]
      /\ closing \in SUBSET (Senders \X {"cancelled", "mismatch"})
      /\ why \in [Clients -> Reasons \cup {None}]
  BY DEF TypeOK, States
<1>1. Stop(c, i)
  BY DEF AnswerWritten, AnswerGone, AnswerConflict, Ignored
<1>2. /\ attempt' \in [Clients -> [Attempts -> AttemptRecs]] /\ attempt'[c][i] = NoAttempt
      /\ \A d \in Clients, j \in Attempts : d # c \/ j # i => attempt'[d][j] = attempt[d][j]
  <2>1. SetAttempt(c, i, NoAttempt)
    BY <1>1 DEF Stop, SetAttempt
  <2> QED
    BY <2>1, NoAttemptFacts, AttemptFacts
<1>3. CASE Ignored(c, i)
  BY <1>0, <1>2, <1>3 DEF Ignored, Replied, ClientTypes
<1>4. CASE ~Ignored(c, i)
  <2>0. pc[c] = "writing"
    BY <1>4 DEF AnswerWritten, AnswerGone, AnswerConflict, Waits
  <2>1. CASE AnswerWritten(c, i)
    <3>1. CASE c \in Senders
      <4>1. Becomes(c, "sent") /\ UNCHANGED <<fails, closing, why>>
        BY <1>4, <2>1, <3>1 DEF AnswerWritten
      <4>2. pc' \in [Clients -> States] /\ pc'[c] = "sent" /\ \A d \in Clients : d # c => pc'[d] = pc[d]
        BY <4>1, BecomesFacts DEF States, Settled
      <4> QED
        BY <1>0, <1>2, <2>0, <3>1, <4>1, <4>2 DEF Replied, ClientTypes
    <3>2. CASE c \notin Senders
      <4>1. Polls(c) /\ UNCHANGED <<closing, why>>
        BY <1>4, <2>1, <3>2 DEF AnswerWritten
      <4> QED
        BY <1>0, <1>2, <2>0, <3>2, <4>1, PollsFacts DEF Replied, ClientTypes
    <3> QED
      BY <3>1, <3>2
  <2>2. CASE AnswerGone(c, i, reason)
    <3>1. Ends(c, reason) /\ UNCHANGED <<fails, closing>>
      BY <1>4, <2>2 DEF AnswerGone
    <3> QED
      BY <1>0, <1>2, <2>0, <3>1, EndsFacts DEF Replied, ClientTypes
  <2>3. CASE AnswerConflict(c, i)
    <3>1. Fails(c) /\ UNCHANGED <<fails, why>>
      BY <1>4, <2>3 DEF AnswerConflict
    <3> QED
      BY <1>0, <1>2, <2>0, <2>3, <3>1, FailsFacts DEF Replied, ClientTypes
  <2> QED
    BY <2>1, <2>2, <2>3
<1> QED
  BY <1>3, <1>4

-----------------------------------------------------------------------------
(* What all steps have in common.                                           *)

\* What a client has shown, typed, claimed and checked is for good, and so is the
\* time its transfer counts from.
Lasting ==
  /\ \A s \in Senders : /\ shown[s] # None => shown'[s] = shown[s]
                        /\ peer[s] # None => peer'[s] = peer[s]
                        /\ Begun(s) => at'[s] = at[s]
  /\ \A r \in Receivers : /\ code[r] # None => code'[r] = code[r]
                          /\ joined[r] # None => joined'[r] = joined[r]
  /\ \A c \in Clients : Begun(c) => Begun(c)'

\* A row is deleted, or keeps its nameplate and every leg that was written.
RowOnward(s) ==
  \/ row'[s] = None
  \/ /\ row[s] # None
     /\ row'[s].nameplate = row[s].nameplate
     /\ row[s].receiver # None => row'[s].receiver = row[s].receiver
     /\ row[s].answer # None => row'[s].answer = row[s].answer
     /\ row[s].delivery # None => row'[s].delivery = row[s].delivery
     /\ row[s].reason # None => row'[s].reason = row[s].reason

\* No answer and no delivery is written.
LegsSame(s) == row'[s] # None => /\ row'[s].answer = row[s].answer
                                 /\ row'[s].delivery = row[s].delivery

\* The client goes on with what it has.
ClientKept(c) ==
  /\ c \in Senders =>
       /\ shown'[c] = shown[c] /\ peer'[c] = peer[c]
       /\ pc'[c] \in {"poll", "judge"} => pc[c] \in {"poll", "judge"}
       /\ pc'[c] \in {"writing", "sent"} => pc[c] \in {"writing", "sent"}
  /\ c \in Receivers =>
       /\ code'[c] = code[c] /\ joined'[c] = joined[c]
       /\ pc'[c] = "idle" <=> pc[c] = "idle"
       /\ pc'[c] \in {"idle", "claiming"} => pc[c] \in {"idle", "claiming"}
       /\ pc'[c] \in {"poll", "judge", "writing", "got"}
            => pc[c] \in {"poll", "judge", "writing", "got"}

\* Who fails has failed before, or often enough, or has nothing to lose.
FailureKept(c) ==
  pc'[c] = "failed" =>
    \/ /\ pc[c] = "failed" /\ fails'[c] = fails[c]
       /\ IF c \in Senders THEN shown'[c] = shown[c] ELSE joined'[c] = joined[c]
    \/ fails'[c] + 1 >= MaxAttempts
    \/ c \in Senders /\ shown'[c] = None
    \/ c \in Receivers /\ joined'[c] = None

\* A sender's part holds on while its row goes on.
LEMMA SenderKept ==
  ASSUME TransfersInv, TypeOK', Lasting, NEW s \in Senders, RowOnward(s), ClientKept(s)
  PROVE  SenderInv(s)'
<1>1. SenderInv(s) /\ s \in Clients
  BY DEF TransfersInv, Clients
<1>2. shown'[s] = shown[s] /\ peer'[s] = peer[s] /\ (Begun(s) => Begun(s)')
  BY <1>1 DEF ClientKept, Lasting
<1>3. row[s] # None \/ shown[s] # None \/ peer[s] # None => Begun(s)
  BY <1>1 DEF SenderInv
<1>4. row'[s] # None => row[s] # None /\ row'[s].nameplate = row[s].nameplate
  BY DEF RowOnward
<1>5. row'[s] # None \/ shown'[s] # None \/ peer'[s] # None => Begun(s)'
  BY <1>2, <1>3, <1>4
<1>6. /\ pc'[s] \in {"poll", "judge"} => peer'[s] = None /\ shown'[s] # None
      /\ pc'[s] \in {"writing", "sent"} => peer'[s] # None
  BY <1>1, <1>2 DEF SenderInv, ClientKept
<1>7. row'[s] # None /\ shown'[s] # None => row'[s].nameplate = shown'[s]
  BY <1>1, <1>2, <1>4 DEF SenderInv
<1>8. ASSUME peer'[s] # None
      PROVE  /\ shown'[s] # None
             /\ joined'[peer'[s]] = s /\ code'[peer'[s]].words = WordsOf[s]
             /\ row'[s] # None => row'[s].answer # None
  <2> DEFINE r == peer[s]
  <2>1. r # None /\ r \in Receivers /\ peer'[s] = r
    BY <1>2, <1>8 DEF TransfersInv, TypeOK
  <2>2. shown[s] # None /\ joined[r] = s /\ code[r].words = WordsOf[s]
    BY <1>1, <2>1 DEF SenderInv
  <2>3. joined[r] # None
    BY <2>2, Nobody
  <2>4. code[r] # None
    BY <2>1, <2>3 DEF TransfersInv, ReceiverInv
  <2>5. joined'[r] = s /\ code'[r] = code[r]
    BY <2>1, <2>2, <2>3, <2>4 DEF Lasting
  <2>6. row'[s] # None => row'[s].answer # None
    <3> SUFFICES ASSUME row'[s] # None PROVE row'[s].answer # None
      OBVIOUS
    <3>1. row[s].answer # None
      BY <1>1, <1>4, <2>1 DEF SenderInv
    <3> QED
      BY <3>1 DEF RowOnward
  <2> QED
    BY <1>2, <2>1, <2>2, <2>5, <2>6
<1> QED
  BY <1>5, <1>6, <1>7, <1>8 DEF SenderInv

\* So does a receiver's.
LEMMA ReceiverKept ==
  ASSUME TransfersInv, TypeOK', Lasting, NEW r \in Receivers, ClientKept(r),
         joined[r] # None => RowOnward(joined[r])
  PROVE  ReceiverInv(r)'
<1>1. ReceiverInv(r) /\ r \in Clients
  BY DEF TransfersInv, Clients
<1>2. code'[r] = code[r] /\ joined'[r] = joined[r]
  BY DEF ClientKept
<1>3. /\ pc'[r] = "idle" <=> code'[r] = None
      /\ pc'[r] \in {"idle", "claiming"} => joined'[r] = None
      /\ pc'[r] \in {"poll", "judge", "writing", "got"} => joined'[r] # None
  BY <1>1, <1>2 DEF ReceiverInv, ClientKept
<1>4. ASSUME joined'[r] # None
      PROVE  /\ code'[r] # None /\ pc'[joined'[r]] \notin {"idle", "creating"}
             /\ row'[joined'[r]] # None => /\ row'[joined'[r]].nameplate = code'[r].nameplate
                                           /\ row'[joined'[r]].receiver = r
  <2> DEFINE s == joined[r]
  <2>1. s # None /\ s \in Senders /\ s \in Clients /\ joined'[r] = s
    BY <1>2, <1>4 DEF TransfersInv, TypeOK, Clients
  <2>2. code[r] # None /\ Begun(s)
    BY <1>1, <2>1 DEF ReceiverInv
  <2>3. pc'[s] \notin {"idle", "creating"}
    BY <2>1, <2>2 DEF Lasting, Begun
  <2>4. row'[s] # None => row'[s].nameplate = code[r].nameplate /\ row'[s].receiver = r
    <3> SUFFICES ASSUME row'[s] # None
                 PROVE  row'[s].nameplate = code[r].nameplate /\ row'[s].receiver = r
      OBVIOUS
    <3>1. row[s] # None
      BY <2>1 DEF RowOnward
    <3>2. row[s].nameplate = code[r].nameplate /\ row[s].receiver = r /\ r # None
      BY <1>1, <2>1, <3>1, Nobody DEF ReceiverInv
    <3> QED
      BY <2>1, <3>2 DEF RowOnward
  <2> QED
    BY <1>2, <2>1, <2>2, <2>3, <2>4
<1> QED
  BY <1>3, <1>4 DEF ReceiverInv, Begun

\* The answer of a transfer was written by the receiver that claimed it.
LEMMA AnswererJoined ==
  ASSUME TransfersInv, NEW s \in Senders, row[s] # None, row[s].answer # None
  PROVE  \E r \in Receivers :
           /\ joined[r] = s /\ row[s].receiver = r /\ code[r] # None
           /\ row[s].answer = [share |-> r, tag |-> Tag(r)]
<1>1. PICK r \in Receivers : joined[r] = s /\ row[s].answer = [share |-> r, tag |-> Tag(r)]
  BY DEF TransfersInv, LegsInv
<1>2. joined[r] # None
  BY <1>1, Nobody
<1>3. code[r] # None /\ row[s].receiver = r
  BY <1>1, <1>2 DEF TransfersInv, ReceiverInv
<1> QED
  BY <1>1, <1>3

\* Legs that were written stay true.
LEMMA LegsKept ==
  ASSUME TransfersInv, TypeOK', Lasting, NEW s \in Senders, RowOnward(s), LegsSame(s)
  PROVE  LegsInv(s)'
<1> SUFFICES ASSUME row'[s] # None
             PROVE  /\ row'[s].answer # None =>
                         \E r \in Receivers :
                           joined'[r] = s /\ row'[s].answer = [share |-> r, tag |-> Tag(r)']
                    /\ row'[s].delivery # None =>
                         row'[s].reason # None /\ peer'[s] # None /\ row'[s].delivery = Sealed(s)'
  BY DEF LegsInv
<1>1. /\ row[s] # None /\ row'[s].answer = row[s].answer /\ row'[s].delivery = row[s].delivery
      /\ row[s].reason # None => row'[s].reason = row[s].reason
  BY DEF RowOnward, LegsSame
<1>2. ASSUME row'[s].answer # None
      PROVE  \E r \in Receivers :
               joined'[r] = s /\ row'[s].answer = [share |-> r, tag |-> Tag(r)']
  <2>1. PICK r \in Receivers : /\ joined[r] = s /\ code[r] # None
                               /\ row[s].answer = [share |-> r, tag |-> Tag(r)]
    BY <1>1, <1>2, AnswererJoined
  <2>2. joined'[r] = joined[r] /\ code'[r] = code[r]
    BY <2>1, Nobody DEF Lasting
  <2>3. Tag(r)' = Tag(r)
    BY <2>2 DEF Tag
  <2> QED
    BY <1>1, <2>1, <2>2, <2>3
<1>3. ASSUME row'[s].delivery # None
      PROVE  row'[s].reason # None /\ peer'[s] # None /\ row'[s].delivery = Sealed(s)'
  <2>1. row[s].reason # None /\ peer[s] # None /\ row[s].delivery = Sealed(s)
    BY <1>1, <1>3 DEF TransfersInv, LegsInv
  <2>2. peer'[s] = peer[s]
    BY <2>1 DEF Lasting
  <2>3. Sealed(s)' = Sealed(s)
    BY <2>2 DEF Sealed
  <2> QED
    BY <1>1, <2>1, <2>2, <2>3
<1> QED
  BY <1>2, <1>3

\* The nameplates of the open transfers stay apart when none is opened.
LEMMA CodesKept ==
  ASSUME TransfersInv, TypeOK', \A s \in Senders : RowOnward(s)
  PROVE  CodesAreUnambiguous'
<1>1. ASSUME NEW s \in Senders, Open(s)' PROVE Open(s) /\ row'[s].nameplate = row[s].nameplate
  BY <1>1 DEF RowOnward, Open
<1> QED
  BY <1>1 DEF TransfersInv, CodesAreUnambiguous

\* Where a client writes to has begun.
LEMMA WriterFacts ==
  ASSUME TransfersInv, NEW c \in Clients, IF c \in Senders THEN peer[c] # None ELSE joined[c] # None
  PROVE  IdOf(c) \in Senders /\ Begun(IdOf(c)) /\ IdOf(c) # None
<1>1. CASE c \in Senders
  BY <1>1, Nobody DEF TransfersInv, SenderInv, IdOf
<1>2. CASE c \notin Senders
  <2>1. c \in Receivers
    BY <1>2 DEF Clients
  <2>2. joined[c] # None /\ joined[c] \in Senders /\ Begun(joined[c])
    BY <1>2, <2>1 DEF TransfersInv, TypeOK, ReceiverInv
  <2> QED
    BY <1>2, <2>2 DEF IdOf
<1> QED
  BY <1>1, <1>2

\* What ended stays ended, what was written stays written or is gone.
LEMMA OverKept ==
  ASSUME TransfersInv, TypeOK', Lasting, NEW c \in Clients,
         IF c \in Senders THEN peer[c] # None ELSE joined[c] # None,
         RowOnward(IdOf(c)), ~Open(IdOf(c)) \/ Written(c)
  PROVE  ~Open(IdOf(c))' \/ Written(c)'
<1>1. IdOf(c)' = IdOf(c)
  BY DEF Clients, IdOf, Lasting
<1> DEFINE s == IdOf(c)
<1>2. ASSUME row'[s] # None, row'[s].reason = None PROVE row[s] # None /\ row[s].reason = None
  BY <1>2 DEF RowOnward
<1>3. CASE row'[s] = None \/ row'[s].reason # None
  BY <1>1, <1>3 DEF Open
<1>4. CASE row'[s] # None /\ row'[s].reason = None
  <2>1. Open(s)
    BY <1>2, <1>4 DEF Open
  <2>2. Written(c)
    BY <2>1
  <2>3. CASE c \in Senders
    <3>1. row[s].delivery # None
      BY <2>2, <2>3 DEF Written, Delivered
    <3>2. row'[s].delivery # None
      BY <1>4, <3>1 DEF RowOnward
    <3> QED
      BY <1>1, <2>3, <3>2 DEF Written, Delivered
  <2>4. CASE c \notin Senders
    <3>1. row[s].answer # None
      BY <2>2, <2>4 DEF Written, Answered
    <3>2. row'[s].answer # None
      BY <1>4, <3>1 DEF RowOnward
    <3> QED
      BY <1>1, <2>4, <3>2 DEF Written, Answered
  <2> QED
    BY <2>3, <2>4
<1> QED
  BY <1>3, <1>4

\* An attempt that is left alone stays within its bounds, and so does one that is
\* taken up again.
LEMMA AttemptKept ==
  ASSUME TransfersInv, TypeOK', Lasting, NEW c \in Clients, NEW i \in Attempts,
         \A s \in Senders : Begun(s) => RowOnward(s),
         \/ attempt'[c][i] = attempt[c][i]
         \/ /\ IF c \in Senders THEN peer'[c] # None ELSE joined'[c] # None
            /\ attempt'[c][i].step = "read" /\ attempt'[c][i].again = attempt[c][i].again
  PROVE  AttemptInv(c, i)'
<1> DEFINE a == attempt[c][i]
           b == attempt'[c][i]
<1>1. /\ a.step # "none" => IF c \in Senders THEN peer[c] # None ELSE joined[c] # None
      /\ a.step = "store" => ~Ran(IdOf(c), a.now)
      /\ a.again => a.step = "read" /\ (~Open(IdOf(c)) \/ Written(c))
  BY DEF TransfersInv, AttemptInv
<1>2. ASSUME IF c \in Senders THEN peer[c] # None ELSE joined[c] # None
      PROVE  /\ IF c \in Senders THEN peer'[c] # None ELSE joined'[c] # None
             /\ IdOf(c)' = IdOf(c) /\ IdOf(c) \in Senders /\ at'[IdOf(c)] = at[IdOf(c)]
             /\ RowOnward(IdOf(c))
  <2>1. IdOf(c) \in Senders /\ Begun(IdOf(c))
    BY <1>2, WriterFacts
  <2>2. IF c \in Senders THEN peer'[c] = peer[c] ELSE joined'[c] = joined[c]
    BY <1>2 DEF Lasting, Clients
  <2> QED
    BY <1>2, <2>1, <2>2 DEF Lasting, IdOf
<1>3. b.step # "none" => IF c \in Senders THEN peer'[c] # None ELSE joined'[c] # None
  BY <1>1, <1>2
<1>4. b.step = "store" => ~Ran(IdOf(c), a.now)' /\ b = a
  <2> SUFFICES ASSUME b.step = "store" PROVE ~Ran(IdOf(c), a.now)' /\ b = a
    OBVIOUS
  <2>1. b = a /\ a.step = "store"
    OBVIOUS
  <2>2. ~Ran(IdOf(c), a.now)
    BY <1>1, <2>1
  <2>3. IdOf(c)' = IdOf(c) /\ at'[IdOf(c)] = at[IdOf(c)]
    BY <1>1, <1>2, <2>1
  <2> QED
    BY <2>1, <2>2, <2>3 DEF Ran, ExpiresAt
<1>5. b.again => b.step = "read" /\ (~Open(IdOf(c))' \/ Written(c)')
  <2> SUFFICES ASSUME b.again PROVE b.step = "read" /\ (~Open(IdOf(c))' \/ Written(c)')
    OBVIOUS
  <2>1. a.again
    OBVIOUS
  <2>2. a.step = "read" /\ (~Open(IdOf(c)) \/ Written(c))
    BY <1>1, <2>1
  <2>3. /\ IF c \in Senders THEN peer[c] # None ELSE joined[c] # None
        /\ RowOnward(IdOf(c))
    BY <1>1, <1>2, <2>2
  <2>4. ~Open(IdOf(c))' \/ Written(c)'
    BY <2>2, <2>3, OverKept
  <2> QED
    BY <2>2, <2>4
<1>6. b.step = "store" => ~Ran(IdOf(c), attempt[c][i].now)'
  BY <1>4
<1> QED
  BY <1>3, <1>5, <1>6 DEF AttemptInv

\* Who had a link before still has it for the same code, and a sender that is
\* done handed it to the receiver it checked.
LEMMA LinkKept ==
  ASSUME TransfersInv, TypeOK', Lasting, \A s \in Senders : SenderInv(s)',
         \A r \in Receivers : pc'[r] = "got" =>
           \/ pc[r] = "got"
           \/ /\ joined'[r] # None
              /\ code'[r] = [nameplate |-> shown'[joined'[r]], words |-> WordsOf[joined'[r]]]
              /\ peer'[joined'[r]] = r
  PROVE  LinkNeedsTheCode'
<1>1. ASSUME NEW r \in Receivers, pc'[r] = "got"
      PROVE  /\ code'[r] = [nameplate |-> shown'[joined'[r]], words |-> WordsOf[joined'[r]]]
             /\ peer'[joined'[r]] = r
  <2> SUFFICES ASSUME pc[r] = "got"
               PROVE  /\ code'[r] = [nameplate |-> shown'[joined'[r]], words |-> WordsOf[joined'[r]]]
                      /\ peer'[joined'[r]] = r
    BY <1>1
  <2> DEFINE s == joined[r]
  <2>1. s # None /\ s \in Senders /\ code[r] # None
    BY DEF TransfersInv, TypeOK, ReceiverInv
  <2>2. code[r] = [nameplate |-> shown[s], words |-> WordsOf[s]] /\ peer[s] = r
    BY DEF TransfersInv, LinkNeedsTheCode
  <2>3. peer[s] # None
    BY <2>2, Nobody
  <2>4. shown[s] # None
    BY <2>1, <2>3 DEF TransfersInv, SenderInv
  <2>5. joined'[r] = s /\ code'[r] = code[r] /\ shown'[s] = shown[s] /\ peer'[s] = peer[s]
    BY <2>1, <2>3, <2>4 DEF Lasting
  <2> QED
    BY <2>2, <2>5
<1>2. ASSUME NEW s \in Senders, pc'[s] = "sent"
      PROVE  \E r \in Receivers : peer'[s] = r /\ joined'[r] = s /\ code'[r].words = WordsOf[s]
  <2>1. peer'[s] # None
    BY <1>2 DEF SenderInv
  <2>2. peer'[s] \in Receivers
    BY <2>1 DEF TypeOK
  <2>3. joined'[peer'[s]] = s /\ code'[peer'[s]].words = WordsOf[s]
    BY <2>1 DEF SenderInv
  <2> QED
    BY <2>2, <2>3
<1> QED
  BY <1>1, <1>2 DEF LinkNeedsTheCode

\* Nobody fails early.
LEMMA RetriesKept ==
  ASSUME TransfersInv, TypeOK', Lasting, \A c \in Clients : FailureKept(c)
  PROVE  RetriesAreSafe'
<1> SUFFICES ASSUME NEW c \in Clients, pc'[c] = "failed", IdOf(c)' # None, c \in Senders => shown'[c] # None
             PROVE  fails'[c] + 1 >= MaxAttempts
  BY DEF RetriesAreSafe
<1>1. CASE /\ pc[c] = "failed" /\ fails'[c] = fails[c]
           /\ IF c \in Senders THEN shown'[c] = shown[c] ELSE joined'[c] = joined[c]
  <2>1. IdOf(c) # None /\ (c \in Senders => shown[c] # None)
    BY <1>1, Nobody DEF IdOf
  <2> QED
    BY <1>1, <2>1 DEF TransfersInv, RetriesAreSafe
<1>2. CASE fails'[c] + 1 >= MaxAttempts
  BY <1>2
<1>3. ~(c \in Senders /\ shown'[c] = None) /\ ~(c \in Receivers /\ joined'[c] = None)
  BY Nobody DEF IdOf
<1> QED
  BY <1>1, <1>2, <1>3 DEF FailureKept

\* A step in which rows only go on or end, and clients go on with what they have.
Quiet ==
  /\ \A s \in Senders : RowOnward(s) /\ (LegsSame(s) \/ LegsInv(s)')
  /\ \A c \in Clients : ClientKept(c) /\ FailureKept(c)
  /\ \A r \in Receivers : pc'[r] = "got" => pc[r] = "got"

\* Such a step keeps the invariant.
LEMMA QuietStep ==
  ASSUME TransfersInv, TypeOK', Lasting, Quiet,
         \A c \in Clients, i \in Attempts : AttemptInv(c, i)'
  PROVE  TransfersInv'
<1>1. \A s \in Senders : SenderInv(s)'
  <2> SUFFICES ASSUME NEW s \in Senders PROVE SenderInv(s)'
    OBVIOUS
  <2>1. RowOnward(s) /\ ClientKept(s)
    BY DEF Quiet, Clients
  <2> QED
    BY <2>1, SenderKept
<1>2. \A s \in Senders : LegsInv(s)'
  BY LegsKept DEF Quiet
<1>3. \A r \in Receivers : ReceiverInv(r)'
  <2> SUFFICES ASSUME NEW r \in Receivers PROVE ReceiverInv(r)'
    OBVIOUS
  <2>1. ClientKept(r)
    BY DEF Quiet, Clients
  <2>2. joined[r] # None => RowOnward(joined[r])
    BY DEF Quiet, TransfersInv, TypeOK
  <2> QED
    BY <2>1, <2>2, ReceiverKept
<1>4. CodesAreUnambiguous'
  BY CodesKept DEF Quiet
<1>5. LinkNeedsTheCode'
  BY <1>1, LinkKept DEF Quiet
<1>6. RetriesAreSafe'
  BY RetriesKept DEF Quiet
<1> QED
  BY <1>1, <1>2, <1>3, <1>4, <1>5, <1>6 DEF TransfersInv

\* Rows that are not touched go on.
LEMMA UntouchedRows ==
  ASSUME row' = row
  PROVE  \A s \in Senders : RowOnward(s) /\ LegsSame(s)
BY DEF RowOnward, LegsSame

\* What nobody touches lasts, if those who have begun go on.
LEMMA UntouchedLasts ==
  ASSUME UNCHANGED <<shown, peer, code, joined, at>>, \A c \in Clients : Begun(c) => Begun(c)'
  PROVE  Lasting
BY DEF Lasting

\* Attempts that nobody touches are as they were.
LEMMA UntouchedAttempts ==
  ASSUME TransfersInv, TypeOK', Lasting, \A s \in Senders : RowOnward(s), attempt' = attempt
  PROVE  \A c \in Clients, i \in Attempts : AttemptInv(c, i)'
BY AttemptKept

-----------------------------------------------------------------------------
(* The steps that touch one client's state only.                            *)

\* A client moves to a state that asks nothing new of it.
LEMMA MoveQuietly ==
  ASSUME TransfersInv, NEW c \in Clients, NEW state \in States, Becomes(c, state),
         UNCHANGED <<row, shown, peer, code, joined, attempt>>,
         TypeOK',
         at' = at \/ (~Begun(c) /\ \A s \in Senders : s # c => at'[s] = at[s]),
         Begun(c) => state \notin {"idle", "creating"},
         c \in Senders => /\ state \in {"poll", "judge"} => pc[c] \in {"poll", "judge"}
                          /\ state \notin {"writing", "sent"},
         c \in Receivers => /\ state \notin {"idle", "claiming", "writing", "got"} /\ pc[c] # "idle"
                            /\ state \in {"poll", "judge"} => pc[c] \in {"poll", "judge", "writing"},
         \A d \in Clients : d # c => fails'[d] = fails[d],
         FailureKept(c)
  PROVE  TransfersInv'
<1>0. TypeOK
  BY DEF TransfersInv
<1>1. pc'[c] = state /\ \A d \in Clients : d # c => pc'[d] = pc[d]
  BY <1>0, BecomesFacts
<1>2. Lasting
  <2>1. \A d \in Clients : Begun(d) => Begun(d)'
    BY <1>1 DEF Begun
  <2>2. \A s \in Senders : Begun(s) => at'[s] = at[s]
    OBVIOUS
  <2> QED
    BY <2>1, <2>2 DEF Lasting
<1>3. \A s \in Senders : RowOnward(s) /\ LegsSame(s)
  BY UntouchedRows
<1>4. ASSUME NEW d \in Clients PROVE ClientKept(d) /\ FailureKept(d)
  <2>1. CASE d = c
    <3>1. ClientKept(d)
      BY <1>1, <2>1 DEF ClientKept
    <3> QED
      BY <2>1, <3>1
  <2>2. CASE d # c
    <3>1. pc'[d] = pc[d] /\ fails'[d] = fails[d]
      BY <1>1, <2>2
    <3> QED
      BY <3>1 DEF ClientKept, FailureKept
  <2> QED
    BY <2>1, <2>2
<1>5. \A r \in Receivers : pc'[r] = "got" => pc[r] = "got"
  BY <1>1 DEF Clients
<1>6. Quiet
  BY <1>3, <1>4, <1>5 DEF Quiet
<1>7. \A d \in Clients, i \in Attempts : AttemptInv(d, i)'
  BY <1>2, <1>3, UntouchedAttempts
<1> QED
  BY <1>2, <1>6, <1>7, QuietStep

\* A sender asks for a transfer.
LEMMA StartSendingStep ==
  ASSUME TransfersInv, NEW s \in Senders, StartSending(s), troubles' \in 0..MaxTroubles
  PROVE  TransfersInv'
<1>0. TypeOK /\ s \in Clients
  BY DEF TransfersInv, Clients
<1>1. "creating" \in States /\ Becomes(s, "creating")
  BY DEF States, StartSending
<1>2. pc' \in [Clients -> States] /\ pc'[s] = "creating"
  BY <1>0, <1>1, BecomesFacts
<1>3. TypeOK'
  BY <1>0, <1>2 DEF TypeOK, StartSending, States
<1>4. ~Begun(s) /\ \A t \in Senders : t # s => at'[t] = at[t]
  BY <1>0 DEF StartSending, Begun, TypeOK
<1>5. FailureKept(s)
  BY <1>2 DEF FailureKept
<1>6. UNCHANGED <<row, shown, peer, code, joined, attempt>> /\ fails' = fails
  BY DEF StartSending
<1> QED
  BY <1>0, <1>1, <1>3, <1>4, <1>5, <1>6, Nobody, MoveQuietly

\* A receiver is told what is wrong with its code.
LEMMA ClaimedTransferExistsStep ==
  ASSUME TransfersInv, NEW r \in Receivers, ClaimedTransferExists(r), troubles' \in 0..MaxTroubles
  PROVE  TransfersInv'
<1>0. TypeOK /\ r \in Clients /\ r \notin Senders
  BY Nobody DEF TransfersInv, Clients
<1>1. PICK state \in {"used", "unknown"} : Becomes(r, state)
  BY DEF ClaimedTransferExists
<1>2. state \in States
  BY DEF States, Settled
<1>3. pc' \in [Clients -> States] /\ pc'[r] = state
  BY <1>0, <1>1, <1>2, BecomesFacts
<1>4. UNCHANGED <<clock, row, at, shown, peer, code, joined, attempt, fails, closing, why>> /\ pc[r] = "refused"
  BY DEF ClaimedTransferExists
<1>5. TypeOK'
  BY <1>0, <1>3, <1>4 DEF TypeOK, States
<1>6. FailureKept(r)
  BY <1>3 DEF FailureKept
<1> QED
  BY <1>0, <1>1, <1>2, <1>4, <1>5, <1>6, MoveQuietly

\* Time passes.
LEMMA TickStep ==
  ASSUME TransfersInv, Tick, troubles' \in 0..MaxTroubles
  PROVE  TransfersInv'
<1>0. TypeOK
  BY DEF TransfersInv
<1>1. UNCHANGED <<row, pc, at, shown, code, joined, peer, fails, attempt, closing, why>>
  BY DEF Tick
<1>2. clock' \in Times
  BY <1>0, Nobody DEF TypeOK, Tick, Times
<1>3. TypeOK'
  BY <1>0, <1>1, <1>2 DEF TypeOK
<1>4. Lasting
  BY <1>1, UntouchedLasts DEF Begun
<1>5. \A s \in Senders : RowOnward(s) /\ LegsSame(s)
  BY <1>1, UntouchedRows
<1>6. Quiet
  BY <1>1, <1>5 DEF Quiet, ClientKept, FailureKept
<1>7. \A c \in Clients, i \in Attempts : AttemptInv(c, i)'
  BY <1>1, <1>3, <1>4, <1>5, UntouchedAttempts
<1> QED
  BY <1>3, <1>4, <1>6, <1>7, QuietStep

\* A poll goes on, or tells its client that the time is up.
LEMMA JudgeTransferStep ==
  ASSUME TransfersInv, NEW c \in Clients, JudgeTransfer(c), troubles' \in 0..MaxTroubles
  PROVE  TransfersInv'
<1>0. TypeOK
  BY DEF TransfersInv
<1>1. /\ UNCHANGED <<clock, row, at, shown, code, joined, peer, attempt, closing>>
      /\ pc[c] = "judge" /\ (c \in Senders => c \notin Receivers)
  BY Nobody DEF JudgeTransfer
<1>2. CASE Ends(c, "expired") /\ UNCHANGED fails
  <2>1. "expired" \in Reasons
    BY DEF Reasons
  <2>2. /\ pc' \in [Clients -> States] /\ pc'[c] \in {"mismatch", "ended"}
        /\ why' \in [Clients -> Reasons \cup {None}]
    BY <1>0, <1>2, <2>1, EndsFacts
  <2>3. PICK state \in {"mismatch", "ended"} : Becomes(c, state)
    BY <1>2 DEF Ends
  <2>4. state \in States
    BY DEF States, Settled
  <2>5. TypeOK'
    BY <1>0, <1>1, <1>2, <2>2 DEF TypeOK, States
  <2>6. FailureKept(c)
    BY <2>2 DEF FailureKept
  <2> QED
    BY <1>1, <1>2, <2>3, <2>4, <2>5, <2>6, MoveQuietly
<1>3. CASE Becomes(c, "poll") /\ why' = why /\ (Polls(c) \/ fails' = fails)
  <2>1. pc' \in [Clients -> States] /\ pc'[c] = "poll"
    BY <1>0, <1>3, BecomesFacts DEF States
  <2>2. fails' \in [Clients -> 0..MaxAttempts] /\ \A d \in Clients : d # c => fails'[d] = fails[d]
    BY <1>0, <1>3, PollsFacts DEF TypeOK
  <2>3. TypeOK'
    BY <1>0, <1>1, <1>3, <2>1, <2>2 DEF TypeOK, States
  <2>4. FailureKept(c)
    BY <2>1 DEF FailureKept
  <2>5. "poll" \in States
    BY DEF States
  <2> QED
    BY <1>1, <1>3, <2>2, <2>3, <2>4, <2>5, MoveQuietly
<1> QED
  BY <1>2, <1>3 DEF JudgeTransfer, Polls

-----------------------------------------------------------------------------
(* Failures, and people who change their mind.                              *)

\* A client gives up after its last attempt.
LEMMA GiveUpStep ==
  ASSUME TransfersInv, NEW c \in Clients, GiveUp(c), troubles' \in 0..MaxTroubles
  PROVE  TransfersInv'
<1>0. TypeOK
  BY DEF TransfersInv
<1>1. /\ UNCHANGED <<clock, row, at, shown, code, joined, peer, attempt, fails, why>>
      /\ pc[c] \in {"poll", "judge", "writing"}
      /\ fails[c] + 1 >= MaxAttempts
      /\ Fails(c) /\ Becomes(c, "failed")
      /\ (c \in Senders => c \notin Receivers)
  BY Nobody DEF GiveUp, Fails
<1>2. /\ pc' \in [Clients -> States] /\ pc'[c] = "failed"
      /\ closing' \in SUBSET (Senders \X {"cancelled", "mismatch"})
  BY <1>0, <1>1, FailsFacts
<1>3. TypeOK'
  BY <1>0, <1>1, <1>2 DEF TypeOK, States
<1>4. FailureKept(c)
  BY <1>1 DEF FailureKept
<1>5. "failed" \in States
  BY DEF States, Settled
<1> QED
  BY <1>1, <1>3, <1>4, <1>5, MoveQuietly

\* A client is cancelled.
LEMMA CancelStep ==
  ASSUME TransfersInv, NEW c \in Clients, Cancel(c), troubles' \in 0..MaxTroubles
  PROVE  TransfersInv'
<1>0. TypeOK
  BY DEF TransfersInv
<1>1. /\ UNCHANGED <<clock, row, at, shown, code, joined, peer, attempt, fails, why>>
      /\ pc[c] \in {"poll", "judge", "writing", "failed"}
      /\ Becomes(c, "cancelled")
      /\ (c \in Senders => c \notin Receivers)
  BY Nobody DEF Cancel
<1>2. "cancelled" \in States
  BY DEF States, Settled
<1>3. pc' \in [Clients -> States] /\ pc'[c] = "cancelled"
  BY <1>0, <1>1, <1>2, BecomesFacts
<1>4. IdOf(c) \in Senders
  <2>1. CASE c \in Senders
    BY <2>1 DEF IdOf
  <2>2. CASE c \notin Senders
    <3>1. c \in Receivers /\ pc[c] \in {"poll", "judge", "writing"}
      BY <2>2 DEF Clients, Cancel
    <3>2. joined[c] # None
      BY <3>1 DEF TransfersInv, ReceiverInv
    <3> QED
      BY <1>0, <2>2, <3>1, <3>2 DEF IdOf, TypeOK
  <2> QED
    BY <2>1, <2>2
<1>5. closing' = closing \cup {<<IdOf(c), "cancelled">>}
  BY DEF Cancel
<1>6. closing' \in SUBSET (Senders \X {"cancelled", "mismatch"})
  BY <1>0, <1>4, <1>5 DEF TypeOK
<1>7. TypeOK'
  BY <1>0, <1>1, <1>3, <1>6 DEF TypeOK, States
<1>8. FailureKept(c)
  BY <1>3 DEF FailureKept
<1> QED
  BY <1>1, <1>2, <1>7, <1>8, MoveQuietly

\* A client makes its request again.
LEMMA RetryStep ==
  ASSUME TransfersInv, NEW c \in Clients, Retry(c), troubles' \in 0..MaxTroubles
  PROVE  TransfersInv'
<1>0. TypeOK
  BY DEF TransfersInv
<1>1. /\ UNCHANGED <<clock, row, at, shown, code, joined, peer, closing, why>>
      /\ pc[c] \in {"poll", "judge", "writing"}
      /\ (c \in Senders => c \notin Receivers)
  BY Nobody DEF Retry
<1>2. fails[c] \in Nat /\ fails[c] + 1 \in Nat /\ fails[c] + 1 + 1 \in Attempts
      /\ fails[c] + 1 \in 0..MaxAttempts
  <2>1. fails[c] \in 0..MaxAttempts /\ fails[c] + 1 < MaxAttempts
    BY <1>0 DEF TypeOK, Retry
  <2> QED
    BY <2>1, Nobody DEF Attempts
<1>3. CASE pc[c] = "writing"
  <2> DEFINE k == fails[c] + 1
  <2>1. Writes(c, k)
    BY <1>3 DEF Retry
  <2> HIDE DEF k
  <2>2. k \in Nat /\ k + 1 \in Attempts
    BY <1>2 DEF k
  <2>3. /\ pc' \in [Clients -> States] /\ pc'[c] = "writing"
        /\ \A d \in Clients : d # c => pc'[d] = pc[d]
        /\ fails' \in [Clients -> 0..MaxAttempts]
        /\ \A d \in Clients : d # c => fails'[d] = fails[d]
        /\ attempt' \in [Clients -> [Attempts -> AttemptRecs]]
        /\ attempt'[c][k + 1].step = "read"
        /\ attempt'[c][k + 1].again = attempt[c][k + 1].again
        /\ \A d \in Clients, j \in Attempts : d # c \/ j # k + 1 => attempt'[d][j] = attempt[d][j]
    BY <1>0, <2>1, <2>2, WritesFacts
  <2>4. TypeOK'
    BY <1>0, <1>1, <2>3 DEF TypeOK, States, AttemptRecs
  <2>5. \A d \in Clients : pc'[d] = pc[d]
    BY <1>3, <2>3
  <2>6. Lasting
    BY <1>1, <2>5, UntouchedLasts DEF Begun
  <2>7. \A s \in Senders : RowOnward(s) /\ LegsSame(s)
    BY <1>1, UntouchedRows
  <2>8. \A d \in Clients : ClientKept(d) /\ FailureKept(d)
    <3>1. ASSUME NEW d \in Clients PROVE ClientKept(d)
      BY <1>1, <2>5 DEF ClientKept
    <3>2. ASSUME NEW d \in Clients PROVE FailureKept(d)
      BY <1>1, <1>3, <2>3 DEF FailureKept
    <3> QED
      BY <3>1, <3>2
  <2>9. Quiet
    BY <2>5, <2>7, <2>8 DEF Quiet, Clients
  <2>10. \A d \in Clients, i \in Attempts : AttemptInv(d, i)'
    <3> SUFFICES ASSUME NEW d \in Clients, NEW i \in Attempts PROVE AttemptInv(d, i)'
      OBVIOUS
    <3>1. CASE d = c /\ i = k + 1
      <4>1. IF c \in Senders THEN peer'[c] # None ELSE joined'[c] # None
        BY <1>1, <1>3 DEF TransfersInv, SenderInv, ReceiverInv, Clients
      <4>2. attempt'[d][i].step = "read" /\ attempt'[d][i].again = attempt[d][i].again
        BY <2>3, <3>1
      <4> QED
        BY <2>4, <2>6, <2>7, <3>1, <4>1, <4>2, AttemptKept
    <3>2. CASE d # c \/ i # k + 1
      <4>1. attempt'[d][i] = attempt[d][i]
        BY <2>3, <3>2
      <4> QED
        BY <2>4, <2>6, <2>7, <4>1, AttemptKept
    <3> QED
      BY <3>1, <3>2
  <2> QED
    BY <2>4, <2>6, <2>9, <2>10, QuietStep
<1>4. CASE pc[c] # "writing"
  <2>1. /\ Becomes(c, "poll") /\ attempt' = attempt
        /\ fails' = [fails EXCEPT ![c] = @ + 1]
    BY <1>4 DEF Retry
  <2>2. pc' \in [Clients -> States] /\ pc'[c] = "poll"
    BY <1>0, <2>1, BecomesFacts DEF States
  <2>3. fails' \in [Clients -> 0..MaxAttempts] /\ \A d \in Clients : d # c => fails'[d] = fails[d]
    BY <1>0, <1>2, <2>1 DEF TypeOK
  <2>4. TypeOK'
    BY <1>0, <1>1, <2>1, <2>2, <2>3 DEF TypeOK, States
  <2>5. FailureKept(c)
    BY <2>2 DEF FailureKept
  <2>6. "poll" \in States
    BY DEF States
  <2> QED
    BY <1>1, <1>4, <2>1, <2>3, <2>4, <2>5, <2>6, MoveQuietly
<1> QED
  BY <1>3, <1>4

\* A DELETE closes the row, if it is open, and leaves its legs.
LEMMA CloseRows ==
  ASSUME TypeOK, NEW m \in closing, HandleClose(m)
  PROVE  /\ row' \in [Senders -> Rows \cup {None}]
         /\ \A t \in Senders : RowOnward(t) /\ LegsSame(t)
<1>1. m[1] \in Senders /\ m[2] \in Reasons /\ clock \in Times
  BY DEF TypeOK, Reasons
<1> DEFINE s == m[1]
           new == Closed(row[s], m[2], clock)
<1>2. row' = row \/ (Open(s) /\ row' = [row EXCEPT ![s] = new])
  BY DEF HandleClose, CloseTransfer
<1>3. CASE row' = row
  BY <1>3, UntouchedRows DEF TypeOK
<1>4. CASE Open(s) /\ row' = [row EXCEPT ![s] = new]
  <2>1. row[s] \in Rows /\ row[s].reason = None
    BY <1>1, <1>4 DEF TypeOK, Open
  <2>2. /\ new \in Rows
        /\ new.nameplate = row[s].nameplate /\ new.receiver = row[s].receiver
        /\ new.answer = row[s].answer /\ new.delivery = row[s].delivery
    BY <1>1, <2>1, ClosedFacts
  <2> HIDE DEF new
  <2>3. /\ row' \in [Senders -> Rows \cup {None}] /\ row'[s] = new
        /\ \A t \in Senders : t # s => row'[t] = row[t]
    BY <1>1, <1>4, <2>2 DEF TypeOK
  <2>4. RowOnward(s) /\ LegsSame(s)
    BY <1>4, <2>1, <2>2, <2>3 DEF RowOnward, LegsSame, Open
  <2>5. \A t \in Senders : t # s => RowOnward(t) /\ LegsSame(t)
    BY <2>3 DEF RowOnward, LegsSame
  <2> QED
    BY <2>3, <2>4, <2>5
<1> QED
  BY <1>2, <1>3, <1>4

\* A DELETE arrives or is lost.
LEMMA HandleCloseStep ==
  ASSUME TransfersInv, NEW m \in closing, HandleClose(m), troubles' \in 0..MaxTroubles
  PROVE  TransfersInv'
<1>0. TypeOK
  BY DEF TransfersInv
<1>1. UNCHANGED <<clock, pc, at, shown, code, joined, peer, fails, attempt, why>>
  BY DEF HandleClose
<1>2. /\ row' \in [Senders -> Rows \cup {None}]
      /\ \A t \in Senders : RowOnward(t) /\ LegsSame(t)
  BY <1>0, CloseRows
<1>3. closing' \in SUBSET (Senders \X {"cancelled", "mismatch"})
  BY <1>0 DEF TypeOK, HandleClose
<1>4. TypeOK'
  BY <1>0, <1>1, <1>2, <1>3 DEF TypeOK
<1>5. Lasting
  BY <1>1, UntouchedLasts DEF Begun
<1>6. Quiet
  BY <1>1, <1>2 DEF Quiet, ClientKept, FailureKept
<1>7. \A c \in Clients, i \in Attempts : AttemptInv(c, i)'
  BY <1>1, <1>2, <1>4, <1>5, UntouchedAttempts
<1> QED
  BY <1>4, <1>5, <1>6, <1>7, QuietStep

\* The clean-up takes whole rows.
LEMMA DeleteRows ==
  ASSUME TypeOK, DeleteEndedTransfers
  PROVE  /\ row' \in [Senders -> Rows \cup {None}]
         /\ \A s \in Senders : RowOnward(s) /\ LegsSame(s)
<1>1. row' \in [Senders -> Rows \cup {None}] /\ \A s \in Senders : row'[s] = None \/ row'[s] = row[s]
  BY DEF TypeOK, DeleteEndedTransfers
<1> QED
  BY <1>1 DEF RowOnward, LegsSame

\* The clean-up deletes what ended.
LEMMA DeleteEndedStep ==
  ASSUME TransfersInv, DeleteEndedTransfers, troubles' \in 0..MaxTroubles
  PROVE  TransfersInv'
<1>0. TypeOK
  BY DEF TransfersInv
<1>1. UNCHANGED <<clock, pc, at, shown, code, joined, peer, fails, attempt, closing, why>>
  BY DEF DeleteEndedTransfers
<1>2. row' \in [Senders -> Rows \cup {None}]
  BY <1>0, DeleteRows
<1>3. \A s \in Senders : RowOnward(s) /\ LegsSame(s)
  BY <1>0, DeleteRows
<1>4. TypeOK'
  BY <1>0, <1>1, <1>2 DEF TypeOK
<1>5. Lasting
  BY <1>1, UntouchedLasts DEF Begun
<1>6. Quiet
  BY <1>1, <1>3 DEF Quiet, ClientKept, FailureKept
<1>7. \A c \in Clients, i \in Attempts : AttemptInv(c, i)'
  BY <1>1, <1>3, <1>4, <1>5, UntouchedAttempts
<1> QED
  BY <1>4, <1>5, <1>6, <1>7, QuietStep

-----------------------------------------------------------------------------
(* GET answer and GET delivery.                                             *)

\* The sender has found an answer with the right tag and goes on to deliver.
LEMMA TakeMatchStep ==
  ASSUME TransfersInv, TypeOK', NEW s \in Senders, pc[s] = "poll", row[s] # None, Answered(s), AnswerMatches(s),
         peer' = [peer EXCEPT ![s] = row[s].answer.share], Writes(s, 0),
         UNCHANGED <<row, at, shown, code, joined>>
  PROVE  TransfersInv'
<1>0. TypeOK /\ s \in Clients /\ s \notin Receivers
  BY Nobody DEF TransfersInv, Clients
<1>1. PICK r \in Receivers : /\ joined[r] = s /\ code[r] # None
                             /\ row[s].answer = [share |-> r, tag |-> Tag(r)]
  BY AnswererJoined DEF Answered
<1>2. code[r].words = WordsOf[s]
  BY <1>1 DEF AnswerMatches, Tag, Key
<1>3. r # None /\ peer[s] = None /\ shown[s] # None
  BY Nobody DEF TransfersInv, SenderInv
<1>4. peer'[s] = r /\ \A t \in Senders : t # s => peer'[t] = peer[t]
  BY <1>0, <1>1 DEF TypeOK
<1>5. 0 \in Nat /\ 0 + 1 \in Attempts
  BY Nobody DEF Attempts
<1>6. /\ pc'[s] = "writing"
      /\ \A d \in Clients : d # s => pc'[d] = pc[d]
      /\ \A d \in Clients : d # s => fails'[d] = fails[d]
      /\ attempt'[s][0 + 1].step = "read"
      /\ attempt'[s][0 + 1].again = attempt[s][0 + 1].again
      /\ \A d \in Clients, j \in Attempts : d # s \/ j # 0 + 1 => attempt'[d][j] = attempt[d][j]
  BY <1>0, <1>5, WritesFacts
<1>7. Lasting
  <2>1. \A d \in Clients : Begun(d) => Begun(d)'
    BY <1>6 DEF Begun
  <2> QED
    BY <1>3, <1>4, <2>1 DEF Lasting
<1>8. \A t \in Senders : RowOnward(t) /\ LegsSame(t)
  BY UntouchedRows
<1>9. ASSUME NEW d \in Clients, d # s PROVE ClientKept(d) /\ FailureKept(d)
  <2>1. pc'[d] = pc[d] /\ fails'[d] = fails[d] /\ (d \in Senders => peer'[d] = peer[d])
    BY <1>4, <1>6, <1>9
  <2> QED
    BY <2>1 DEF ClientKept, FailureKept
<1>10. SenderInv(s)'
  <2>1. row[s].nameplate = shown[s] /\ row[s].answer # None
    BY <1>3 DEF TransfersInv, SenderInv, Answered
  <2> QED
    BY <1>1, <1>2, <1>3, <1>4, <1>6, <2>1 DEF SenderInv, Begun
<1>11. \A t \in Senders : SenderInv(t)'
  <2> SUFFICES ASSUME NEW t \in Senders, t # s PROVE SenderInv(t)'
    BY <1>10
  <2>1. t \in Clients
    BY DEF Clients
  <2> QED
    BY <1>7, <1>8, <1>9, <2>1, SenderKept
<1>12. \A t \in Senders : LegsInv(t)'
  BY <1>7, <1>8, LegsKept
<1>13. \A q \in Receivers : ReceiverInv(q)'
  <2> SUFFICES ASSUME NEW q \in Receivers PROVE ReceiverInv(q)'
    OBVIOUS
  <2>1. ClientKept(q)
    BY <1>0, <1>9 DEF Clients
  <2>2. joined[q] # None => RowOnward(joined[q])
    BY <1>0, <1>8 DEF TypeOK
  <2> QED
    BY <1>7, <2>1, <2>2, ReceiverKept
<1>14. ASSUME NEW d \in Clients, NEW i \in Attempts PROVE AttemptInv(d, i)'
  <2>1. CASE d = s /\ i = 0 + 1
    <3>1. IF d \in Senders THEN peer'[d] # None ELSE joined'[d] # None
      BY <1>3, <1>4, <2>1
    <3>2. attempt'[d][i].step = "read" /\ attempt'[d][i].again = attempt[d][i].again
      BY <1>6, <2>1
    <3> QED
      BY <1>7, <1>8, <3>1, <3>2, AttemptKept
  <2>2. CASE d # s \/ i # 0 + 1
    <3>1. attempt'[d][i] = attempt[d][i]
      BY <1>6, <2>2
    <3> QED
      BY <1>7, <1>8, <3>1, AttemptKept
  <2> QED
    BY <2>1, <2>2
<1>15. CodesAreUnambiguous'
  BY <1>8, CodesKept
<1>16. LinkNeedsTheCode'
  <2>1. \A q \in Receivers : pc'[q] = "got" => pc[q] = "got"
    BY <1>0, <1>6 DEF Clients
  <2> QED
    BY <1>7, <1>11, <2>1, LinkKept
<1>17. RetriesAreSafe'
  <2>1. \A d \in Clients : FailureKept(d)
    BY <1>6, <1>9 DEF FailureKept
  <2> QED
    BY <1>7, <2>1, RetriesKept
<1> QED
  BY <1>11, <1>12, <1>13, <1>14, <1>15, <1>16, <1>17 DEF TransfersInv

\* The receiver has found a link that its key opens.
LEMMA TakeLinkStep ==
  ASSUME TransfersInv, TypeOK', NEW r \in Receivers, pc[r] = "poll", row[joined[r]] # None,
         Delivered(joined[r]), Opens(r), Becomes(r, "got"),
         UNCHANGED <<row, at, shown, code, joined, peer, fails, attempt>>
  PROVE  TransfersInv'
<1> DEFINE s == joined[r]
<1>0. TypeOK /\ r \in Clients /\ r \notin Senders
  BY Nobody DEF TransfersInv, Clients
<1>1. s \in Senders /\ s # None /\ code[r] # None
  BY <1>0 DEF TransfersInv, TypeOK, ReceiverInv
<1>2. row[s].delivery = Sealed(s) /\ peer[s] # None
  BY <1>1 DEF TransfersInv, LegsInv, Delivered
<1>3. row[s].delivery = Tag(r)
  BY DEF Opens
<1>4. peer[s] = r /\ code[r].words = WordsOf[s]
  BY <1>2, <1>3 DEF Sealed, Tag, Key
<1>5. shown[s] # None
  BY <1>1, <1>2 DEF TransfersInv, SenderInv
<1>6. shown[s] = row[s].nameplate /\ row[s].nameplate = code[r].nameplate
  BY <1>1, <1>5 DEF TransfersInv, SenderInv, ReceiverInv
<1>7. code[r] = [nameplate |-> shown[s], words |-> WordsOf[s]]
  <2>1. code[r] \in [nameplate : Nameplates, words : Words]
    BY <1>0, <1>1 DEF TypeOK
  <2> QED
    BY <1>4, <1>6, <2>1
<1>8. pc'[r] = "got" /\ \A d \in Clients : d # r => pc'[d] = pc[d]
  BY <1>0, BecomesFacts DEF States, Settled
<1>9. Lasting
  <2>1. \A d \in Clients : Begun(d) => Begun(d)'
    BY <1>8 DEF Begun
  <2> QED
    BY <2>1, UntouchedLasts
<1>10. \A t \in Senders : RowOnward(t) /\ LegsSame(t)
  BY UntouchedRows
<1>11. ASSUME NEW d \in Clients PROVE ClientKept(d) /\ FailureKept(d)
  <2>1. CASE d = r
    BY <1>0, <1>8, <2>1 DEF ClientKept, FailureKept
  <2>2. CASE d # r
    <3>1. pc'[d] = pc[d]
      BY <1>8, <2>2
    <3> QED
      BY <3>1 DEF ClientKept, FailureKept
  <2> QED
    BY <2>1, <2>2
<1>12. \A t \in Senders : SenderInv(t)'
  <2> SUFFICES ASSUME NEW t \in Senders PROVE SenderInv(t)'
    OBVIOUS
  <2>1. ClientKept(t)
    BY <1>11 DEF Clients
  <2> QED
    BY <1>9, <1>10, <2>1, SenderKept
<1>13. \A t \in Senders : LegsInv(t)'
  BY <1>9, <1>10, LegsKept
<1>14. \A q \in Receivers : ReceiverInv(q)'
  <2> SUFFICES ASSUME NEW q \in Receivers PROVE ReceiverInv(q)'
    OBVIOUS
  <2>1. ClientKept(q)
    BY <1>11 DEF Clients
  <2>2. joined[q] # None => RowOnward(joined[q])
    BY <1>0, <1>10 DEF TypeOK
  <2> QED
    BY <1>9, <2>1, <2>2, ReceiverKept
<1>15. \A d \in Clients, i \in Attempts : AttemptInv(d, i)'
  BY <1>9, <1>10, UntouchedAttempts
<1>16. CodesAreUnambiguous'
  BY <1>10, CodesKept
<1>17. LinkNeedsTheCode'
  <2>1. ASSUME NEW q \in Receivers, pc'[q] = "got"
        PROVE  \/ pc[q] = "got"
               \/ /\ joined'[q] # None
                  /\ code'[q] = [nameplate |-> shown'[joined'[q]], words |-> WordsOf[joined'[q]]]
                  /\ peer'[joined'[q]] = q
    <3>1. CASE q = r
      BY <1>1, <1>4, <1>7, <3>1
    <3>2. CASE q # r
      BY <1>8, <2>1, <3>2 DEF Clients
    <3> QED
      BY <3>1, <3>2
  <2> QED
    BY <1>9, <1>12, <2>1, LinkKept
<1>18. RetriesAreSafe'
  BY <1>9, <1>11, RetriesKept
<1> QED
  BY <1>12, <1>13, <1>14, <1>15, <1>16, <1>17, <1>18 DEF TransfersInv

\* A poll reads the row and answers if there is something to tell.
LEMMA ReadTransferStep ==
  ASSUME TransfersInv, NEW c \in Clients, ReadTransfer(c), troubles' \in 0..MaxTroubles
  PROVE  TransfersInv'
<1> DEFINE s == IdOf(c)
<1>0. TypeOK /\ (c \in Senders => c \notin Receivers) /\ (c \notin Senders => c \in Receivers)
  BY Nobody DEF TransfersInv, Clients
<1>1. UNCHANGED <<clock, row, at, shown, code, joined>> /\ pc[c] = "poll"
  BY DEF ReadTransfer
<1>2. s \in Senders
  BY <1>0, <1>1 DEF TransfersInv, TypeOK, ReceiverInv, IdOf
<1>3. ASSUME NEW reason \in Reasons, Told(c, reason) PROVE TransfersInv'
  <2>1. UNCHANGED <<peer, fails, attempt, closing>> /\ Ends(c, reason)
    BY <1>3 DEF Told
  <2>2. /\ pc' \in [Clients -> States] /\ pc'[c] \in {"mismatch", "ended"}
        /\ why' \in [Clients -> Reasons \cup {None}]
    BY <1>0, <2>1, EndsFacts
  <2>3. PICK state \in {"mismatch", "ended"} : Becomes(c, state)
    BY <2>1 DEF Ends
  <2>4. state \in States
    BY DEF States, Settled
  <2>5. TypeOK'
    BY <1>0, <1>1, <2>1, <2>2 DEF TypeOK, States
  <2>6. FailureKept(c)
    BY <2>2 DEF FailureKept
  <2> QED
    BY <1>0, <1>1, <2>1, <2>3, <2>4, <2>5, <2>6, MoveQuietly
<1>4. ASSUME NotYet(c) PROVE TransfersInv'
  <2>1. Becomes(c, "judge") /\ UNCHANGED <<peer, fails, attempt, closing, why>>
    BY <1>4 DEF NotYet
  <2>2. pc' \in [Clients -> States] /\ pc'[c] = "judge" /\ "judge" \in States
    BY <1>0, <2>1, BecomesFacts DEF States
  <2>3. TypeOK'
    BY <1>0, <1>1, <2>1, <2>2 DEF TypeOK, States
  <2>4. FailureKept(c)
    BY <2>2 DEF FailureKept
  <2> QED
    BY <1>0, <1>1, <2>1, <2>2, <2>3, <2>4, MoveQuietly
<1>5. ASSUME row[s] # None, Ready(c), Takes(c) PROVE TransfersInv'
  <2>1. CASE c \in Senders /\ AnswerMatches(c)
    <3>1. /\ peer' = [peer EXCEPT ![c] = row[c].answer.share] /\ Writes(c, 0)
          /\ UNCHANGED <<closing, why>> /\ Answered(c) /\ row[c] # None
      BY <1>5, <2>1 DEF Takes, TakeAnswer, Ready, IdOf
    <3>2. 0 \in Nat /\ 0 + 1 \in Attempts
      BY Nobody DEF Attempts
    <3>3. /\ pc' \in [Clients -> States] /\ fails' \in [Clients -> 0..MaxAttempts]
          /\ attempt' \in [Clients -> [Attempts -> AttemptRecs]]
      BY <1>0, <3>1, <3>2, WritesFacts
    <3>4. row[c].answer.share \in Receivers
      <4>1. PICK r \in Receivers : row[c].answer = [share |-> r, tag |-> Tag(r)]
        BY <2>1, <3>1, AnswererJoined DEF Answered
      <4> QED
        BY <4>1
    <3>5. peer' \in [Senders -> Receivers \cup {None}]
      BY <1>0, <3>1, <3>4 DEF TypeOK
    <3>6. TypeOK'
      BY <1>0, <1>1, <3>1, <3>3, <3>5 DEF TypeOK, States, AttemptRecs
    <3> QED
      BY <1>1, <2>1, <3>1, <3>6, TakeMatchStep
  <2>2. CASE c \in Senders /\ ~AnswerMatches(c)
    <3>1. /\ Becomes(c, "mismatch") /\ closing' = closing \cup {<<c, "mismatch">>}
          /\ UNCHANGED <<peer, fails, attempt, why>>
      BY <1>5, <2>2 DEF Takes, TakeAnswer
    <3>2. "mismatch" \in States
      BY DEF States, Settled
    <3>3. pc' \in [Clients -> States] /\ pc'[c] = "mismatch"
      BY <1>0, <3>1, <3>2, BecomesFacts
    <3>4. closing' \in SUBSET (Senders \X {"cancelled", "mismatch"})
      BY <1>0, <2>2, <3>1 DEF TypeOK
    <3>5. TypeOK'
      BY <1>0, <1>1, <3>1, <3>3, <3>4 DEF TypeOK, States
    <3>6. FailureKept(c)
      BY <3>3 DEF FailureKept
    <3> QED
      BY <1>0, <1>1, <2>2, <3>1, <3>2, <3>5, <3>6, MoveQuietly
  <2>3. CASE c \notin Senders
    <3>1. PICK state \in {"got", "mismatch"} : /\ Becomes(c, state) /\ (state = "got" <=> Opens(c))
                                               /\ UNCHANGED <<peer, fails, attempt, closing, why>>
      BY <1>5, <2>3 DEF Takes, TakeDelivery
    <3>2. state \in States
      BY DEF States, Settled
    <3>3. pc' \in [Clients -> States] /\ pc'[c] = state
      BY <1>0, <3>1, <3>2, BecomesFacts
    <3>4. TypeOK'
      BY <1>0, <1>1, <3>1, <3>3 DEF TypeOK, States
    <3>5. FailureKept(c)
      BY <3>3 DEF FailureKept
    <3>6. CASE state = "got"
      <4>1. row[joined[c]] # None /\ Delivered(joined[c]) /\ Opens(c) /\ Becomes(c, "got")
        BY <1>5, <2>3, <3>1, <3>6 DEF IdOf, Ready
      <4> QED
        BY <1>0, <1>1, <2>3, <3>1, <3>4, <4>1, TakeLinkStep
    <3>7. CASE state = "mismatch"
      BY <1>0, <1>1, <2>3, <3>1, <3>2, <3>4, <3>5, <3>7, MoveQuietly
    <3> QED
      BY <3>6, <3>7
  <2> QED
    BY <2>1, <2>2, <2>3
<1>6. "expired" \in Reasons
  BY DEF Reasons
<1>7. ASSUME row[s] # None, ~Open(s) PROVE row[s].reason \in Reasons
  BY <1>0, <1>2, <1>7 DEF TypeOK, Rows, Open
<1>8. \/ Told(c, "expired")
      \/ row[s] # None /\ Ready(c) /\ Takes(c)
      \/ row[s] # None /\ ~Open(s) /\ Told(c, row[s].reason)
      \/ NotYet(c)
  BY DEF ReadTransfer
<1> QED
  BY <1>3, <1>4, <1>5, <1>6, <1>7, <1>8

-----------------------------------------------------------------------------
(* POST answer and POST delivery.                                           *)

\* What is written is the client's own: it is never refused.
LEMMA WrittenIsSame ==
  ASSUME TransfersInv, NEW c \in Clients, IF c \in Senders THEN peer[c] # None ELSE joined[c] # None,
         row[IdOf(c)] # None, Written(c)
  PROVE  Same(c)
<1>1. CASE c \in Senders
  BY <1>1 DEF TransfersInv, LegsInv, IdOf, Written, Delivered, Same
<1>2. CASE c \notin Senders
  <2> DEFINE s == joined[c]
  <2>1. c \in Receivers /\ s # None /\ s \in Senders /\ IdOf(c) = s
    BY <1>2 DEF Clients, TransfersInv, TypeOK, IdOf
  <2>2. row[s] # None /\ row[s].answer # None
    BY <1>2, <2>1 DEF Written, Answered
  <2>3. PICK r \in Receivers : /\ row[s].receiver = r
                               /\ row[s].answer = [share |-> r, tag |-> Tag(r)]
    BY <2>1, <2>2, AnswererJoined
  <2>4. row[s].receiver = c
    BY <2>1, <2>2 DEF TransfersInv, ReceiverInv
  <2> QED
    BY <1>2, <2>3, <2>4 DEF Same
<1> QED
  BY <1>1, <1>2

\* An attempt is answered.
LEMMA RepliedStep ==
  ASSUME TransfersInv, NEW c \in Clients, NEW i \in Attempts, ClientTypes, Replied(c, i),
         pc'[c] # "failed" \/ (pc[c] = "failed" /\ fails'[c] = fails[c]),
         \A s \in Senders : RowOnward(s) /\ (LegsSame(s) \/ LegsInv(s)'),
         UNCHANGED <<at, shown, code, joined, peer>>,
         TypeOK'
  PROVE  TransfersInv'
<1>0. (c \in Senders => c \notin Receivers) /\ (c \notin Senders => c \in Receivers)
  BY Nobody DEF Clients
<1>1. /\ attempt'[c][i] = NoAttempt
      /\ \A d \in Clients, j \in Attempts : d # c \/ j # i => attempt'[d][j] = attempt[d][j]
      /\ \A d \in Clients : d # c => pc'[d] = pc[d] /\ fails'[d] = fails[d]
      /\ \/ pc'[c] = pc[c]
         \/ /\ pc[c] = "writing"
            /\ pc'[c] \in {"mismatch", "ended", "failed"}
                 \cup (IF c \in Senders THEN {"sent"} ELSE {"poll"})
  BY DEF Replied
<1>2. Lasting
  <2>1. \A d \in Clients : Begun(d) => Begun(d)'
    BY <1>1 DEF Begun
  <2> QED
    BY <2>1, UntouchedLasts
<1>3. ASSUME NEW d \in Clients PROVE ClientKept(d) /\ FailureKept(d)
  <2>1. CASE d = c
    <3>1. ClientKept(d)
      <4>1. CASE c \in Senders
        BY <1>0, <1>1, <2>1, <4>1 DEF ClientKept
      <4>2. CASE c \notin Senders
        BY <1>0, <1>1, <2>1, <4>2 DEF ClientKept
      <4> QED
        BY <4>1, <4>2
    <3>2. FailureKept(d)
      BY <2>1 DEF FailureKept
    <3> QED
      BY <3>1, <3>2
  <2>2. CASE d # c
    <3>1. pc'[d] = pc[d] /\ fails'[d] = fails[d]
      BY <1>1, <2>2
    <3> QED
      BY <3>1 DEF ClientKept, FailureKept
  <2> QED
    BY <2>1, <2>2
<1>4. \A r \in Receivers : pc'[r] = "got" => pc[r] = "got"
  BY <1>0, <1>1 DEF Clients
<1>5. Quiet
  BY <1>3, <1>4 DEF Quiet
<1>6. ASSUME NEW d \in Clients, NEW j \in Attempts PROVE AttemptInv(d, j)'
  <2>1. CASE d = c /\ j = i
    BY <1>1, <2>1, NoAttemptFacts DEF AttemptInv
  <2>2. CASE d # c \/ j # i
    <3>1. attempt'[d][j] = attempt[d][j]
      BY <1>1, <2>2
    <3> QED
      BY <1>2, <3>1, AttemptKept
  <2> QED
    BY <2>1, <2>2
<1> QED
  BY <1>2, <1>5, <1>6, QuietStep

\* No answer but a conflict makes a client fail.
LEMMA NotFailed ==
  ASSUME TypeOK, NEW c \in Clients, NEW i \in Attempts, NEW reason \in Reasons,
         AnswerWritten(c, i) \/ AnswerGone(c, i, reason)
  PROVE  pc'[c] # "failed" \/ (pc[c] = "failed" /\ fails'[c] = fails[c])
<1>1. CASE Ignored(c, i)
  BY <1>1 DEF Ignored
<1>2. CASE AnswerWritten(c, i) /\ ~Ignored(c, i)
  BY <1>2 DEF AnswerWritten, Polls, Becomes, TypeOK
<1>3. CASE AnswerGone(c, i, reason) /\ ~Ignored(c, i)
  BY <1>3 DEF AnswerGone, Ends, Becomes, TypeOK
<1> QED
  BY <1>1, <1>2, <1>3

\* An attempt goes on to its next step while the rows stay.
LEMMA ProceedStep ==
  ASSUME TransfersInv, NEW c \in Clients, NEW i \in Attempts, NEW b \in AttemptRecs, Proceed(c, i, b),
         UNCHANGED <<clock, row, at, shown, code, joined, peer>>, troubles' \in 0..MaxTroubles,
         IF c \in Senders THEN peer[c] # None ELSE joined[c] # None,
         b.step = "store" => ~Ran(IdOf(c), b.now),
         b.again => b.step = "read" /\ (~Open(IdOf(c)) \/ Written(c))
  PROVE  TransfersInv'
<1>0. TypeOK
  BY DEF TransfersInv
<1>1. UNCHANGED <<pc, fails, closing, why>> /\ SetAttempt(c, i, b)
  BY DEF Proceed, SetAttempt
<1>2. /\ attempt' \in [Clients -> [Attempts -> AttemptRecs]] /\ attempt'[c][i] = b
      /\ \A d \in Clients, j \in Attempts : d # c \/ j # i => attempt'[d][j] = attempt[d][j]
  BY <1>0, <1>1, AttemptFacts
<1>3. TypeOK'
  BY <1>0, <1>1, <1>2 DEF TypeOK, AttemptRecs
<1>4. Lasting
  BY <1>1, UntouchedLasts DEF Begun
<1>5. \A s \in Senders : RowOnward(s) /\ LegsSame(s)
  BY UntouchedRows
<1>6. Quiet
  BY <1>1, <1>5 DEF Quiet, ClientKept, FailureKept
<1>7. ASSUME NEW d \in Clients, NEW j \in Attempts PROVE AttemptInv(d, j)'
  <2>1. CASE d = c /\ j = i
    <3>1. IdOf(c)' = IdOf(c)
      BY DEF IdOf
    <3>2. (Ran(IdOf(c), attempt[c][i].now))' <=> Ran(IdOf(c), b.now)
      BY <1>2, <3>1 DEF Ran, ExpiresAt
    <3>3. (Open(IdOf(c))' <=> Open(IdOf(c))) /\ (Written(c)' <=> Written(c))
      BY <3>1 DEF Open, Written, Delivered, Answered
    <3> QED
      BY <1>2, <2>1, <3>2, <3>3 DEF AttemptInv
  <2>2. CASE d # c \/ j # i
    <3>1. attempt'[d][j] = attempt[d][j]
      BY <1>2, <2>2
    <3> QED
      BY <1>3, <1>4, <1>5, <3>1, AttemptKept
  <2> QED
    BY <2>1, <2>2
<1> QED
  BY <1>3, <1>4, <1>6, <1>7, QuietStep

\* A write reads the row first.
LEMMA ReadLegStep ==
  ASSUME TransfersInv, NEW c \in Clients, NEW i \in Attempts, ReadLeg(c, i), troubles' \in 0..MaxTroubles
  PROVE  TransfersInv'
<1> DEFINE s == IdOf(c)
           a == attempt[c][i]
           b == [a EXCEPT !.step = "judge"]
<1>0. TypeOK
  BY DEF TransfersInv
<1>1. UNCHANGED <<clock, row, at, shown, code, joined, peer>> /\ a.step = "read"
  BY DEF ReadLeg
<1>2. IF c \in Senders THEN peer[c] # None ELSE joined[c] # None
  BY <1>1 DEF TransfersInv, AttemptInv
<1>3. s \in Senders
  BY <1>2, WriterFacts
<1>4. \A t \in Senders : RowOnward(t) /\ LegsSame(t)
  BY <1>1, UntouchedRows
<1>5. ASSUME NEW reason \in Reasons, AnswerWritten(c, i) \/ AnswerGone(c, i, reason)
      PROVE  TransfersInv'
  <2>1. ClientTypes /\ Replied(c, i)
    BY <1>0, <1>5, ReplyFacts
  <2>2. pc'[c] # "failed" \/ (pc[c] = "failed" /\ fails'[c] = fails[c])
    BY <1>0, <1>5, NotFailed
  <2>3. TypeOK'
    BY <1>0, <1>1, <2>1 DEF TypeOK, ClientTypes, States, AttemptRecs
  <2> QED
    BY <1>1, <1>4, <2>1, <2>2, <2>3, RepliedStep
<1>6. "expired" \in Reasons
  BY DEF Reasons
<1>7. ASSUME row[s] # None, ~Open(s) PROVE row[s].reason \in Reasons
  BY <1>0, <1>3, <1>7 DEF TypeOK, Rows, Open
<1>8. row[s] # None /\ Written(c) => Same(c)
  BY <1>2, WrittenIsSame
<1>9. \/ AnswerGone(c, i, "expired")
      \/ AnswerWritten(c, i)
      \/ row[s] # None /\ ~Open(s) /\ AnswerGone(c, i, row[s].reason)
      \/ Proceed(c, i, b) /\ Open(s) /\ ~Written(c)
  BY <1>8 DEF ReadLeg
<1>10. CASE Proceed(c, i, b) /\ Open(s) /\ ~Written(c)
  <2>1. a \in AttemptRecs
    BY <1>0 DEF TypeOK, AttemptRecs
  <2>2. b \in AttemptRecs /\ b.step = "judge" /\ b.again = a.again
    BY <2>1, StepFacts
  <2>3. ~a.again
    BY <1>1, <1>10 DEF TransfersInv, AttemptInv
  <2> QED
    BY <1>1, <1>2, <1>10, <2>2, <2>3, ProceedStep
<1> QED
  BY <1>5, <1>6, <1>7, <1>9, <1>10

\* A write looks at the time.
LEMMA JudgeLegStep ==
  ASSUME TransfersInv, NEW c \in Clients, NEW i \in Attempts, JudgeLeg(c, i), troubles' \in 0..MaxTroubles
  PROVE  TransfersInv'
<1> DEFINE a == attempt[c][i]
           b == [a EXCEPT !.step = "store", !.now = clock]
<1>0. TypeOK
  BY DEF TransfersInv
<1>1. UNCHANGED <<clock, row, at, shown, code, joined, peer>> /\ a.step = "judge"
  BY DEF JudgeLeg
<1>2. IF c \in Senders THEN peer[c] # None ELSE joined[c] # None
  BY <1>1 DEF TransfersInv, AttemptInv
<1>3. \A t \in Senders : RowOnward(t) /\ LegsSame(t)
  BY <1>1, UntouchedRows
<1>4. CASE AnswerGone(c, i, "expired")
  <2>0. "expired" \in Reasons
    BY DEF Reasons
  <2>1. ClientTypes /\ Replied(c, i)
    BY <1>0, <1>4, <2>0, ReplyFacts
  <2>2. pc'[c] # "failed" \/ (pc[c] = "failed" /\ fails'[c] = fails[c])
    BY <1>0, <1>4, <2>0, NotFailed
  <2>3. TypeOK'
    BY <1>0, <1>1, <2>1 DEF TypeOK, ClientTypes, States, AttemptRecs
  <2> QED
    BY <1>1, <1>3, <2>1, <2>2, <2>3, RepliedStep
<1>5. CASE ~Ran(IdOf(c), clock) /\ Proceed(c, i, b)
  <2>1. a \in AttemptRecs /\ clock \in Times
    BY <1>0 DEF TypeOK, AttemptRecs
  <2>2. b \in AttemptRecs /\ b.step = "store" /\ b.now = clock /\ b.again = a.again
    BY <2>1 DEF AttemptRecs
  <2>3. ~a.again
    BY <1>1 DEF TransfersInv, AttemptInv
  <2> QED
    BY <1>1, <1>2, <1>5, <2>2, <2>3, ProceedStep
<1> QED
  BY <1>4, <1>5 DEF JudgeLeg

\* What a store may do to the rows: it writes the client's leg where it is due, or
\* nothing, and then the transfer is over or the leg is there.
LEMMA StoreRows ==
  ASSUME TransfersInv, NEW c \in Clients, NEW now \in Times, row' = Store(c, now),
         IF c \in Senders THEN peer[c] # None ELSE joined[c] # None, ~Ran(IdOf(c), now),
         UNCHANGED <<code, joined, peer>>
  PROVE  /\ row' \in [Senders -> Rows \cup {None}]
         /\ \A t \in Senders : RowOnward(t) /\ (LegsSame(t) \/ LegsInv(t)')
         /\ row' = row => ~Open(IdOf(c)) \/ Written(c)
<1>s. PICK s \in Senders : s = IdOf(c)
  BY WriterFacts
<1>0. TypeOK
  BY DEF TransfersInv
<1>1. ASSUME NEW new \in Rows, Open(s), row' = [row EXCEPT ![s] = new],
             new.nameplate = row[s].nameplate, new.receiver = row[s].receiver,
             row[s].answer # None => new.answer = row[s].answer,
             row[s].delivery # None => new.delivery = row[s].delivery,
             LegsInv(s)'
      PROVE  /\ row' \in [Senders -> Rows \cup {None}]
             /\ \A t \in Senders : RowOnward(t) /\ (LegsSame(t) \/ LegsInv(t)')
  <2>1. /\ row' \in [Senders -> Rows \cup {None}] /\ row'[s] = new
        /\ \A t \in Senders : t # s => row'[t] = row[t]
    BY <1>0, <1>1 DEF TypeOK
  <2>2. RowOnward(s)
    BY <1>1, <2>1 DEF RowOnward, Open
  <2>3. \A t \in Senders : t # s => RowOnward(t) /\ LegsSame(t)
    BY <2>1 DEF RowOnward, LegsSame
  <2> QED
    BY <1>1, <2>1, <2>2, <2>3
<1>2. CASE c \in Senders
  <2>0. s = c
    BY <1>s, <1>2 DEF IdOf
  <2>1. CASE Open(s) /\ Answered(s)
    <3> DEFINE mid == [row[s] EXCEPT !.delivery = Sealed(s)]
               new == Closed(mid, "done", now)
    <3>1. row' = [row EXCEPT ![s] = new]
      BY <1>s, <1>2, <2>0, <2>1 DEF Store, DeliverTransfer
    <3>2. row[s] \in Rows /\ "done" \in Reasons /\ "done" # None
      <4>1. "done" \in Reasons
        BY DEF Reasons
      <4> QED
        BY <1>0, <2>1, <4>1, NoneIsNoValue DEF TypeOK, Open
    <3>3. Sealed(s) \in Keys /\ Sealed(s) # None
      <4>1. peer[s] \in Receivers /\ WordsOf[s] \in Words
        BY <1>0, <1>2, <2>0, Nobody DEF TypeOK
      <4> QED
        BY <1>0, <4>1, NoneIsNoValue DEF Sealed, Keys
    <3>4. /\ mid \in Rows /\ mid.delivery = Sealed(s)
          /\ mid.nameplate = row[s].nameplate /\ mid.receiver = row[s].receiver
          /\ mid.answer = row[s].answer
      BY <3>2, <3>3 DEF Rows
    <3>5. /\ new \in Rows /\ new.reason = "done" /\ new.delivery = Sealed(s)
          /\ new.nameplate = row[s].nameplate /\ new.receiver = row[s].receiver
          /\ new.answer = row[s].answer
      BY <3>2, <3>4, ClosedFacts
    <3> HIDE DEF new, mid
    <3>6. row'[s] = new
      BY <1>0, <3>1 DEF TypeOK
    <3>7. row[s].delivery = None
      BY <1>0, <2>1, <3>2 DEF TransfersInv, LegsInv, Open
    <3>8. LegsInv(s)'
      <4>1. PICK r \in Receivers : joined[r] = s /\ row[s].answer = [share |-> r, tag |-> Tag(r)]
        BY <1>0, <2>1, AnswererJoined DEF Open, Answered
      <4>2. Tag(r)' = Tag(r) /\ Sealed(s)' = Sealed(s)
        BY <2>0 DEF Tag, Sealed
      <4> QED
        BY <1>2, <2>0, <3>2, <3>5, <3>6, <4>1, <4>2 DEF LegsInv
    <3>9. row' # row
      BY <3>3, <3>5, <3>6, <3>7
    <3> QED
      BY <1>s, <1>1, <2>1, <3>1, <3>5, <3>7, <3>8, <3>9
  <2>2. CASE ~(Open(s) /\ Answered(s))
    <3>1. row' = row
      BY <1>s, <1>2, <2>0, <2>2 DEF Store, DeliverTransfer
    <3>2. Open(s) => Answered(s)
      BY <1>0, <1>2, <2>0 DEF TransfersInv, SenderInv, Open, Answered
    <3> QED
      BY <1>s, <1>0, <2>2, <3>1, <3>2, UntouchedRows DEF TypeOK
  <2> QED
    BY <2>1, <2>2
<1>3. CASE c \notin Senders
  <2>0. s = joined[c] /\ c \in Receivers /\ s # None /\ code[c] # None
    BY <1>s, <1>3 DEF IdOf, Clients, TransfersInv, ReceiverInv
  <2>1. CASE Open(s) /\ Claimed(s) /\ ~Answered(s)
    <3> DEFINE leg == [share |-> c, tag |-> Tag(c)]
               new == [row[s] EXCEPT !.answer = leg]
    <3>1. row' = [row EXCEPT ![s] = new]
      BY <1>s, <1>3, <2>0, <2>1 DEF Store, AnswerTransfer
    <3>2. row[s] \in Rows /\ row[s].answer = None
      BY <1>0, <2>1 DEF TypeOK, Open, Answered
    <3>3. Tag(c) \in Keys
      <4>1. code[c].words \in Words
        BY <1>0, <2>0 DEF TypeOK
      <4> QED
        BY <1>0, <2>0, <4>1 DEF Tag, Keys
    <3>4. leg \in [share : Receivers, tag : Keys] /\ leg # None
      BY <2>0, <3>3, NoneIsNoValue
    <3>5. /\ new \in Rows /\ new.answer = leg
          /\ new.nameplate = row[s].nameplate /\ new.receiver = row[s].receiver
          /\ new.delivery = row[s].delivery /\ new.reason = row[s].reason
      BY <3>2, <3>4 DEF Rows
    <3> HIDE DEF new
    <3>6. row'[s] = new
      BY <1>0, <3>1 DEF TypeOK
    <3>7. row[s].delivery = None
      BY <1>0, <2>1, <3>2 DEF TransfersInv, LegsInv, Open
    <3>8. LegsInv(s)'
      <4>1. Tag(c)' = Tag(c)
        BY DEF Tag
      <4> QED
        BY <2>0, <3>5, <3>6, <3>7, <4>1 DEF LegsInv
    <3>9. row' # row
      BY <3>2, <3>4, <3>5, <3>6
    <3> QED
      BY <1>s, <1>1, <2>1, <3>1, <3>2, <3>5, <3>7, <3>8, <3>9
  <2>2. CASE ~(Open(s) /\ Claimed(s) /\ ~Answered(s))
    <3>1. row' = row
      BY <1>s, <1>3, <2>0, <2>2 DEF Store, AnswerTransfer
    <3>2. row[s] # None => Claimed(s)
      BY <2>0, Nobody DEF TransfersInv, ReceiverInv, Claimed
    <3>3. ~Open(s) \/ Written(c)
      BY <1>s, <1>3, <2>2, <3>2 DEF Open, Written
    <3> QED
      BY <1>s, <1>0, <3>1, <3>3, UntouchedRows DEF TypeOK
  <2> QED
    BY <2>1, <2>2
<1> QED
  BY <1>2, <1>3

\* A write stores its leg, or looks again at what it was refused for.
LEMMA StoreLegStep ==
  ASSUME TransfersInv, NEW c \in Clients, NEW i \in Attempts, StoreLeg(c, i), troubles' \in 0..MaxTroubles
  PROVE  TransfersInv'
<1> DEFINE a == attempt[c][i]
           b == [step |-> "read", again |-> TRUE, now |-> 0]
<1>0. TypeOK
  BY DEF TransfersInv
<1>1. UNCHANGED <<clock, at, shown, code, joined, peer>> /\ a.step = "store" /\ row' = Store(c, a.now)
  BY DEF StoreLeg
<1>2. /\ IF c \in Senders THEN peer[c] # None ELSE joined[c] # None
      /\ ~Ran(IdOf(c), a.now) /\ ~a.again
  BY <1>1 DEF TransfersInv, AttemptInv
<1>3. a.now \in Times
  BY <1>0 DEF TypeOK
<1>4. /\ row' \in [Senders -> Rows \cup {None}]
      /\ \A t \in Senders : RowOnward(t) /\ (LegsSame(t) \/ LegsInv(t)')
      /\ row' = row => ~Open(IdOf(c)) \/ Written(c)
  BY <1>1, <1>2, <1>3, StoreRows
<1>5. CASE row' # row
  <2>0. AnswerWritten(c, i) /\ "expired" \in Reasons
    BY <1>5 DEF StoreLeg, Reasons
  <2>1. ClientTypes /\ Replied(c, i)
    BY <1>0, <2>0, ReplyFacts
  <2>2. pc'[c] # "failed" \/ (pc[c] = "failed" /\ fails'[c] = fails[c])
    BY <1>0, <2>0, NotFailed
  <2>3. TypeOK'
    BY <1>0, <1>1, <1>4, <2>1 DEF TypeOK, ClientTypes, States, AttemptRecs
  <2> QED
    BY <1>1, <1>4, <2>1, <2>2, <2>3, RepliedStep
<1>6. CASE row' = row
  <2>1. Proceed(c, i, b)
    BY <1>2, <1>6 DEF StoreLeg
  <2>2. b \in AttemptRecs
    BY NoAttemptFacts
  <2>3. ~Open(IdOf(c)) \/ Written(c)
    BY <1>4, <1>6
  <2> QED
    BY <1>1, <1>2, <1>6, <2>1, <2>2, <2>3, ProceedStep
<1> QED
  BY <1>5, <1>6

-----------------------------------------------------------------------------
(* POST /transfers and POST /transfers/claim.                               *)

\* A receiver types a code.
LEMMA ReceiveWithCodeStep ==
  ASSUME TransfersInv, NEW r \in Receivers, ReceiveWithCode(r), troubles' \in 0..MaxTroubles
  PROVE  TransfersInv'
<1>0. TypeOK /\ r \in Clients /\ r \notin Senders
  BY Nobody DEF TransfersInv, Clients
<1>1. /\ UNCHANGED <<clock, row, at, shown, joined, peer, fails, attempt, closing, why>>
      /\ pc[r] = "idle" /\ Becomes(r, "claiming") /\ "claiming" \in States
  BY DEF ReceiveWithCode, States
<1>2. PICK n \in Nameplates, w \in Words : code' = [code EXCEPT ![r] = [nameplate |-> n, words |-> w]]
  BY DEF ReceiveWithCode
<1>3. /\ pc' \in [Clients -> States] /\ pc'[r] = "claiming"
      /\ \A d \in Clients : d # r => pc'[d] = pc[d]
  BY <1>0, <1>1, BecomesFacts
<1>4. code[r] = None /\ joined[r] = None
  BY <1>1 DEF TransfersInv, ReceiverInv
<1>5. [nameplate |-> n, words |-> w] \in [nameplate : Nameplates, words : Words]
  OBVIOUS
<1>6. /\ code' \in [Receivers -> [nameplate : Nameplates, words : Words] \cup {None}]
      /\ code'[r] # None /\ \A q \in Receivers : q # r => code'[q] = code[q]
  BY <1>0, <1>2, <1>5, NoneIsNoValue DEF TypeOK
<1>7. TypeOK'
  BY <1>0, <1>1, <1>3, <1>6 DEF TypeOK, States
<1>8. Lasting
  <2>1. \A d \in Clients : Begun(d) => Begun(d)'
    BY <1>3 DEF Begun
  <2> QED
    BY <1>1, <1>4, <1>6, <2>1 DEF Lasting
<1>9. \A t \in Senders : RowOnward(t) /\ LegsSame(t)
  BY <1>1, UntouchedRows
<1>10. ASSUME NEW d \in Clients, d # r PROVE ClientKept(d) /\ FailureKept(d)
  <2>1. pc'[d] = pc[d] /\ (d \in Receivers => code'[d] = code[d])
    BY <1>3, <1>6, <1>10
  <2> QED
    BY <1>1, <2>1 DEF ClientKept, FailureKept
<1>11. \A t \in Senders : SenderInv(t)'
  <2> SUFFICES ASSUME NEW t \in Senders PROVE SenderInv(t)'
    OBVIOUS
  <2>1. ClientKept(t)
    BY <1>0, <1>10 DEF Clients
  <2> QED
    BY <1>7, <1>8, <1>9, <2>1, SenderKept
<1>12. \A t \in Senders : LegsInv(t)'
  BY <1>7, <1>8, <1>9, LegsKept
<1>13. \A q \in Receivers : ReceiverInv(q)'
  <2> SUFFICES ASSUME NEW q \in Receivers PROVE ReceiverInv(q)'
    OBVIOUS
  <2>1. CASE q = r
    BY <1>1, <1>3, <1>4, <1>6, <2>1 DEF ReceiverInv
  <2>2. CASE q # r
    <3>1. ClientKept(q)
      BY <1>10, <2>2 DEF Clients
    <3>2. joined[q] # None => RowOnward(joined[q])
      BY <1>0, <1>9 DEF TypeOK
    <3> QED
      BY <1>7, <1>8, <3>1, <3>2, ReceiverKept
  <2> QED
    BY <2>1, <2>2
<1>14. \A d \in Clients, i \in Attempts : AttemptInv(d, i)'
  BY <1>1, <1>7, <1>8, <1>9, UntouchedAttempts
<1>15. CodesAreUnambiguous'
  BY <1>7, <1>9, CodesKept
<1>16. LinkNeedsTheCode'
  <2>1. \A q \in Receivers : pc'[q] = "got" => pc[q] = "got"
    BY <1>3 DEF Clients
  <2> QED
    BY <1>7, <1>8, <1>11, <2>1, LinkKept
<1>17. RetriesAreSafe'
  <2>1. \A d \in Clients : FailureKept(d)
    BY <1>3, <1>10 DEF FailureKept
  <2> QED
    BY <1>7, <1>8, <2>1, RetriesKept
<1> QED
  BY <1>7, <1>11, <1>12, <1>13, <1>14, <1>15, <1>16, <1>17 DEF TransfersInv

\* The row a claim is written to.
LEMMA ClaimRows ==
  ASSUME TypeOK, NEW r \in Receivers, NEW s \in ClaimableBy(r), row' = [row EXCEPT ![s].receiver = r]
  PROVE  /\ s \in Senders /\ row[s] # None
         /\ row' \in [Senders -> Rows \cup {None}]
         /\ row'[s].receiver = r /\ row'[s].nameplate = code[r].nameplate
         /\ \A t \in Senders : RowOnward(t) /\ LegsSame(t)
<1>1. s \in Senders /\ Open(s) /\ row[s].nameplate = code[r].nameplate /\ ~Claimed(s)
  BY DEF ClaimableBy
<1> DEFINE new == [row[s] EXCEPT !.receiver = r]
<1>2. row[s] \in Rows /\ row[s] # None /\ row[s].receiver = None
  BY <1>1 DEF TypeOK, Open, Claimed
<1>3. /\ new \in Rows /\ new.receiver = r /\ new.nameplate = row[s].nameplate
      /\ new.answer = row[s].answer /\ new.delivery = row[s].delivery /\ new.reason = row[s].reason
  BY <1>2 DEF Rows
<1>4. row' = [row EXCEPT ![s] = new]
  OBVIOUS
<1> HIDE DEF new
<1>5. /\ row' \in [Senders -> Rows \cup {None}] /\ row'[s] = new
      /\ \A t \in Senders : t # s => row'[t] = row[t]
  BY <1>1, <1>3, <1>4 DEF TypeOK
<1>6. RowOnward(s) /\ LegsSame(s)
  BY <1>2, <1>3, <1>5 DEF RowOnward, LegsSame
<1>7. \A t \in Senders : t # s => RowOnward(t) /\ LegsSame(t)
  BY <1>5 DEF RowOnward, LegsSame
<1> QED
  BY <1>1, <1>2, <1>3, <1>5, <1>6, <1>7

\* The receiver learns that the transfer is its own.
LEMMA JoinStep ==
  ASSUME TransfersInv, TypeOK', NEW r \in Receivers, NEW s \in ClaimableBy(r), pc[r] = "claiming",
         row' = [row EXCEPT ![s].receiver = r], joined' = [joined EXCEPT ![r] = s], Writes(r, 0),
         UNCHANGED <<at, shown, code, peer>>
  PROVE  TransfersInv'
<1>0. TypeOK /\ r \in Clients /\ r \notin Senders
  BY Nobody DEF TransfersInv, Clients
<1>1. /\ s \in Senders /\ row[s] # None
      /\ row'[s].receiver = r /\ row'[s].nameplate = code[r].nameplate
      /\ \A t \in Senders : RowOnward(t) /\ LegsSame(t)
  BY <1>0, ClaimRows
<1>2. s # None /\ Begun(s) /\ s # r /\ s \in Clients
  BY <1>0, <1>1, Nobody DEF TransfersInv, SenderInv, Clients
<1>3. code[r] # None /\ joined[r] = None
  BY DEF TransfersInv, ReceiverInv
<1>4. joined'[r] = s /\ \A q \in Receivers : q # r => joined'[q] = joined[q]
  BY <1>0 DEF TypeOK
<1>5. 0 \in Nat /\ 0 + 1 \in Attempts
  BY Nobody DEF Attempts
<1>6. /\ pc'[r] = "writing"
      /\ \A d \in Clients : d # r => pc'[d] = pc[d]
      /\ \A d \in Clients : d # r => fails'[d] = fails[d]
      /\ attempt'[r][0 + 1].step = "read"
      /\ attempt'[r][0 + 1].again = attempt[r][0 + 1].again
      /\ \A d \in Clients, j \in Attempts : d # r \/ j # 0 + 1 => attempt'[d][j] = attempt[d][j]
  BY <1>0, <1>5, WritesFacts
<1>7. Lasting
  <2>1. \A d \in Clients : Begun(d) => Begun(d)'
    BY <1>6 DEF Begun
  <2> QED
    BY <1>3, <1>4, <2>1 DEF Lasting
<1>8. ASSUME NEW d \in Clients, d # r PROVE ClientKept(d) /\ FailureKept(d)
  <2>1. pc'[d] = pc[d] /\ fails'[d] = fails[d] /\ (d \in Receivers => joined'[d] = joined[d])
    BY <1>4, <1>6, <1>8
  <2> QED
    BY <2>1 DEF ClientKept, FailureKept, Clients
<1>9. \A t \in Senders : SenderInv(t)'
  <2> SUFFICES ASSUME NEW t \in Senders PROVE SenderInv(t)'
    OBVIOUS
  <2>1. ClientKept(t)
    BY <1>0, <1>8 DEF Clients
  <2> QED
    BY <1>1, <1>7, <2>1, SenderKept
<1>10. \A t \in Senders : LegsInv(t)'
  BY <1>1, <1>7, LegsKept
<1>11. \A q \in Receivers : ReceiverInv(q)'
  <2> SUFFICES ASSUME NEW q \in Receivers PROVE ReceiverInv(q)'
    OBVIOUS
  <2>1. CASE q = r
    <3>1. pc'[s] \notin {"idle", "creating"}
      BY <1>2, <1>6 DEF Begun
    <3> QED
      BY <1>1, <1>2, <1>3, <1>4, <1>6, <2>1, <3>1 DEF ReceiverInv, Begun
  <2>2. CASE q # r
    <3>1. ClientKept(q)
      BY <1>8, <2>2 DEF Clients
    <3>2. joined[q] # None => RowOnward(joined[q])
      BY <1>0, <1>1 DEF TypeOK
    <3> QED
      BY <1>7, <3>1, <3>2, ReceiverKept
  <2> QED
    BY <2>1, <2>2
<1>12. ASSUME NEW d \in Clients, NEW i \in Attempts PROVE AttemptInv(d, i)'
  <2>1. CASE d = r /\ i = 0 + 1
    <3>1. IF d \in Senders THEN peer'[d] # None ELSE joined'[d] # None
      BY <1>0, <1>2, <1>4, <2>1
    <3>2. attempt'[d][i].step = "read" /\ attempt'[d][i].again = attempt[d][i].again
      BY <1>6, <2>1
    <3> QED
      BY <1>1, <1>7, <3>1, <3>2, AttemptKept
  <2>2. CASE d # r \/ i # 0 + 1
    <3>1. attempt'[d][i] = attempt[d][i]
      BY <1>6, <2>2
    <3> QED
      BY <1>1, <1>7, <3>1, AttemptKept
  <2> QED
    BY <2>1, <2>2
<1>13. CodesAreUnambiguous'
  BY <1>1, CodesKept
<1>14. LinkNeedsTheCode'
  <2>1. \A q \in Receivers : pc'[q] = "got" => pc[q] = "got"
    BY <1>6 DEF Clients
  <2> QED
    BY <1>7, <1>9, <2>1, LinkKept
<1>15. RetriesAreSafe'
  <2>1. \A d \in Clients : FailureKept(d)
    BY <1>6, <1>8 DEF FailureKept
  <2> QED
    BY <1>7, <2>1, RetriesKept
<1> QED
  BY <1>9, <1>10, <1>11, <1>12, <1>13, <1>14, <1>15 DEF TransfersInv

\* A claim finds an open transfer or none; its answer may be lost.
LEMMA ClaimTransferStep ==
  ASSUME TransfersInv, NEW r \in Receivers, ClaimTransfer(r), troubles' \in 0..MaxTroubles
  PROVE  TransfersInv'
<1>0. TypeOK /\ r \in Clients /\ r \notin Senders
  BY Nobody DEF TransfersInv, Clients
<1>1. UNCHANGED <<clock, at, shown, code, peer, closing, why>> /\ pc[r] = "claiming"
  BY DEF ClaimTransfer
<1>2. joined[r] = None
  BY <1>1 DEF TransfersInv, ReceiverInv
<1>3. ASSUME NEW s \in ClaimableBy(r), row' = [row EXCEPT ![s].receiver = r],
             joined' = [joined EXCEPT ![r] = s], Writes(r, 0)
      PROVE  TransfersInv'
  <2>1. s \in Senders /\ row' \in [Senders -> Rows \cup {None}]
    BY <1>0, <1>3, ClaimRows
  <2>2. 0 \in Nat /\ 0 + 1 \in Attempts
    BY Nobody DEF Attempts
  <2>3. /\ pc' \in [Clients -> States] /\ fails' \in [Clients -> 0..MaxAttempts]
        /\ attempt' \in [Clients -> [Attempts -> AttemptRecs]]
    BY <1>0, <1>3, <2>2, WritesFacts
  <2>4. joined' \in [Receivers -> Senders \cup {None}]
    BY <1>0, <1>3, <2>1 DEF TypeOK
  <2>5. TypeOK'
    BY <1>0, <1>1, <2>1, <2>3, <2>4 DEF TypeOK, States, AttemptRecs
  <2> QED
    BY <1>1, <1>3, <2>5, JoinStep
<1>4. ASSUME NEW s \in ClaimableBy(r), row' = [row EXCEPT ![s].receiver = r],
             Becomes(r, "failed"), UNCHANGED <<joined, fails, attempt>>
      PROVE  TransfersInv'
  <2>1. /\ row' \in [Senders -> Rows \cup {None}]
        /\ \A t \in Senders : RowOnward(t) /\ LegsSame(t)
    BY <1>0, <1>4, ClaimRows
  <2>2. "failed" \in States
    BY DEF States, Settled
  <2>3. /\ pc' \in [Clients -> States] /\ pc'[r] = "failed"
        /\ \A d \in Clients : d # r => pc'[d] = pc[d]
    BY <1>0, <1>4, <2>2, BecomesFacts
  <2>4. TypeOK'
    BY <1>0, <1>1, <1>4, <2>1, <2>3 DEF TypeOK, States
  <2>5. Lasting
    <3>1. \A d \in Clients : Begun(d) => Begun(d)'
      BY <2>3 DEF Begun
    <3> QED
      BY <1>1, <1>4, <3>1, UntouchedLasts
  <2>6. ASSUME NEW d \in Clients PROVE ClientKept(d) /\ FailureKept(d)
    <3>1. CASE d = r
      BY <1>0, <1>1, <1>2, <1>4, <2>3, <3>1 DEF ClientKept, FailureKept
    <3>2. CASE d # r
      <4>1. pc'[d] = pc[d]
        BY <2>3, <3>2
      <4> QED
        BY <1>1, <1>4, <4>1 DEF ClientKept, FailureKept
    <3> QED
      BY <3>1, <3>2
  <2>7. \A q \in Receivers : pc'[q] = "got" => pc[q] = "got"
    BY <2>3 DEF Clients
  <2>8. Quiet
    BY <2>1, <2>6, <2>7 DEF Quiet
  <2>9. \A d \in Clients, i \in Attempts : AttemptInv(d, i)'
    BY <1>4, <2>1, <2>4, <2>5, UntouchedAttempts
  <2> QED
    BY <2>4, <2>5, <2>8, <2>9, QuietStep
<1>5. ASSUME Becomes(r, "refused"), UNCHANGED <<row, joined, fails, attempt>> PROVE TransfersInv'
  <2>1. "refused" \in States
    BY DEF States
  <2>2. pc' \in [Clients -> States] /\ pc'[r] = "refused"
    BY <1>0, <1>5, <2>1, BecomesFacts
  <2>3. TypeOK'
    BY <1>0, <1>1, <1>5, <2>2 DEF TypeOK, States
  <2>4. FailureKept(r)
    BY <2>2 DEF FailureKept
  <2> QED
    BY <1>0, <1>1, <1>5, <2>1, <2>3, <2>4, MoveQuietly
<1> QED
  BY <1>3, <1>4, <1>5 DEF ClaimTransfer

\* The rows when a transfer is opened: the new one, under a nameplate no open
\* transfer has, and the others, of which some have run out.
LEMMA CreateRows ==
  ASSUME TypeOK, NEW s \in Senders, NEW now \in Times,
         FreeNameplates(CloseExpiredActiveTransfers(now)) # {},
         row' = [CloseExpiredActiveTransfers(now) EXCEPT
                   ![s] = NewTransfer(NextFreeNameplate(CloseExpiredActiveTransfers(now)))]
  PROVE  LET n == NextFreeNameplate(CloseExpiredActiveTransfers(now)) IN
         /\ n \in Nameplates /\ row'[s] = NewTransfer(n)
         /\ row' \in [Senders -> Rows \cup {None}]
         /\ \A t \in Senders : t # s =>
              /\ RowOnward(t) /\ LegsSame(t)
              /\ Open(t)' => row'[t].nameplate # n
<1> DEFINE rows == CloseExpiredActiveTransfers(now)
           n == NextFreeNameplate(rows)
<1>1. rows \in [Senders -> Rows \cup {None}]
  BY ExpiredFacts
<1>2. n \in Nameplates /\ \A t \in Senders : rows[t] # None /\ rows[t].reason = None => rows[t].nameplate # n
  BY NextFreeIsFree
<1>3. NewTransfer(n) \in Rows
  BY <1>2, NewTransferFacts
<1>4. ASSUME NEW t \in Senders
      PROVE  rows[t] = row[t] \/ (Open(t) /\ rows[t] = Closed(row[t], "expired", now))
  BY ExpiredFacts
<1> HIDE DEF rows, n
<1>5. row' = [rows EXCEPT ![s] = NewTransfer(n)]
  BY DEF rows, n
<1>6. /\ row' \in [Senders -> Rows \cup {None}] /\ row'[s] = NewTransfer(n)
      /\ \A t \in Senders : t # s => row'[t] = rows[t]
  BY <1>1, <1>3, <1>5
<1>7. ASSUME NEW t \in Senders, t # s PROVE RowOnward(t) /\ LegsSame(t)
  <2>1. row'[t] = rows[t]
    BY <1>6, <1>7
  <2>2. CASE rows[t] = row[t]
    BY <2>1, <2>2 DEF RowOnward, LegsSame
  <2>3. CASE Open(t) /\ rows[t] = Closed(row[t], "expired", now)
    <3>1. row[t] \in Rows /\ row[t].reason = None /\ row[t] # None /\ "expired" \in Reasons
      BY <2>3 DEF TypeOK, Open, Reasons
    <3>2. /\ rows[t].nameplate = row[t].nameplate /\ rows[t].receiver = row[t].receiver
          /\ rows[t].answer = row[t].answer /\ rows[t].delivery = row[t].delivery
      BY <2>3, <3>1, ClosedFacts
    <3> QED
      BY <2>1, <3>1, <3>2 DEF RowOnward, LegsSame
  <2> QED
    BY <1>4, <2>2, <2>3
<1>8. ASSUME NEW t \in Senders, t # s, Open(t)' PROVE row'[t].nameplate # n
  BY <1>2, <1>6, <1>8 DEF Open
<1> QED
  BY <1>2, <1>6, <1>7, <1>8 DEF n, rows

\* A transfer is opened, or there is no nameplate left; the answer may be lost.
LEMMA CreateTransferStep ==
  ASSUME TransfersInv, NEW s \in Senders, CreateTransfer(s), troubles' \in 0..MaxTroubles
  PROVE  TransfersInv'
<1> DEFINE rows == CloseExpiredActiveTransfers(at[s])
           n == NextFreeNameplate(rows)
<1>0. TypeOK /\ s \in Clients /\ s \notin Receivers /\ at[s] \in Times
  BY Nobody DEF TransfersInv, Clients, TypeOK
<1>1. UNCHANGED <<clock, at, code, joined, peer, attempt, closing, why>> /\ pc[s] = "creating"
  BY DEF CreateTransfer
<1>2. ~Begun(s)
  BY <1>1 DEF Begun
<1>3. row[s] = None /\ shown[s] = None /\ peer[s] = None
  BY <1>2 DEF TransfersInv, SenderInv
<1>4. \A r \in Receivers : joined[r] # s
  BY <1>2, Nobody DEF TransfersInv, ReceiverInv
<1>5. CASE Becomes(s, "failed") /\ UNCHANGED <<row, shown, fails>>
  <2>1. "failed" \in States
    BY DEF States, Settled
  <2>2. pc' \in [Clients -> States] /\ pc'[s] = "failed"
    BY <1>0, <1>5, <2>1, BecomesFacts
  <2>3. TypeOK'
    BY <1>0, <1>1, <1>5, <2>2 DEF TypeOK, States
  <2>4. FailureKept(s)
    BY <1>3, <1>5 DEF FailureKept
  <2> QED
    BY <1>0, <1>1, <1>5, <2>1, <2>3, <2>4, MoveQuietly
<1>6. CASE /\ FreeNameplates(rows) # {}
           /\ row' = [rows EXCEPT ![s] = NewTransfer(n)]
           /\ \/ Polls(s) /\ shown' = [shown EXCEPT ![s] = n]
              \/ Becomes(s, "failed") /\ UNCHANGED <<shown, fails>>
  <2>1. /\ n \in Nameplates /\ row'[s] = NewTransfer(n)
        /\ row' \in [Senders -> Rows \cup {None}]
        /\ \A t \in Senders : t # s => /\ RowOnward(t) /\ LegsSame(t)
                                       /\ Open(t)' => row'[t].nameplate # n
    BY <1>0, <1>6, CreateRows
  <2> HIDE DEF n, rows
  <2>2. /\ row'[s].nameplate = n /\ row'[s].answer = None /\ row'[s].delivery = None
    BY <2>1, NewTransferFacts
  <2>3. n # None
    BY <2>1, NoneIsNoValue
  <2>4. /\ pc' \in [Clients -> States] /\ pc'[s] \in {"poll", "failed"}
        /\ \A d \in Clients : d # s => pc'[d] = pc[d]
    <3>1. "failed" \in States
      BY DEF States, Settled
    <3> QED
      BY <1>0, <1>6, <3>1, PollsFacts, BecomesFacts
  <2>5. /\ fails' \in [Clients -> 0..MaxAttempts]
        /\ \A d \in Clients : d # s => fails'[d] = fails[d]
    BY <1>0, <1>6, PollsFacts DEF TypeOK
  <2>6. /\ shown' \in [Senders -> Nameplates \cup {None}]
        /\ \A t \in Senders : t # s => shown'[t] = shown[t]
        /\ pc'[s] = "poll" => shown'[s] = n
        /\ pc'[s] # "poll" => shown'[s] = None
    <3>1. CASE Polls(s) /\ shown' = [shown EXCEPT ![s] = n]
      <4>1. pc'[s] = "poll"
        BY <1>0, <3>1, PollsFacts
      <4> QED
        BY <1>0, <2>1, <3>1, <4>1 DEF TypeOK
    <3>2. CASE Becomes(s, "failed") /\ UNCHANGED <<shown, fails>>
      <4>1. pc'[s] = "failed"
        BY <1>0, <3>2, BecomesFacts DEF States, Settled
      <4> QED
        BY <1>0, <1>3, <3>2, <4>1 DEF TypeOK
    <3> QED
      BY <1>6, <3>1, <3>2
  <2>7. TypeOK'
    BY <1>0, <1>1, <2>1, <2>4, <2>5, <2>6 DEF TypeOK, States
  <2>8. Lasting
    <3>1. \A d \in Clients : Begun(d) => Begun(d)'
      BY <2>4 DEF Begun
    <3> QED
      BY <1>1, <1>3, <2>6, <3>1 DEF Lasting
  <2>9. ASSUME NEW d \in Clients, d # s PROVE ClientKept(d) /\ FailureKept(d)
    <3>1. pc'[d] = pc[d] /\ fails'[d] = fails[d] /\ (d \in Senders => shown'[d] = shown[d])
      BY <2>4, <2>5, <2>6, <2>9
    <3> QED
      BY <1>1, <3>1 DEF ClientKept, FailureKept
  <2>10. SenderInv(s)'
    BY <1>1, <1>3, <2>2, <2>3, <2>4, <2>6 DEF SenderInv, Begun
  <2>11. \A t \in Senders : SenderInv(t)'
    <3> SUFFICES ASSUME NEW t \in Senders, t # s PROVE SenderInv(t)'
      BY <2>10
    <3>1. t \in Clients
      BY DEF Clients
    <3> QED
      BY <2>1, <2>7, <2>8, <2>9, <3>1, SenderKept
  <2>12. \A t \in Senders : LegsInv(t)'
    <3>1. LegsInv(s)'
      BY <2>2 DEF LegsInv
    <3>2. ASSUME NEW t \in Senders, t # s PROVE LegsInv(t)'
      BY <2>1, <2>7, <2>8, <3>2, LegsKept
    <3> QED
      BY <3>1, <3>2
  <2>13. \A q \in Receivers : ReceiverInv(q)'
    <3> SUFFICES ASSUME NEW q \in Receivers PROVE ReceiverInv(q)'
      OBVIOUS
    <3>1. ClientKept(q)
      BY <1>0, <2>9 DEF Clients
    <3>2. joined[q] # None => RowOnward(joined[q])
      BY <1>0, <1>4, <2>1 DEF TypeOK
    <3> QED
      BY <2>7, <2>8, <3>1, <3>2, ReceiverKept
  <2>14. ASSUME NEW d \in Clients, NEW i \in Attempts PROVE AttemptInv(d, i)'
    <3>1. \A t \in Senders : Begun(t) => RowOnward(t)
      BY <1>2, <2>1
    <3>2. attempt'[d][i] = attempt[d][i]
      BY <1>1
    <3> QED
      BY <2>7, <2>8, <3>1, <3>2, AttemptKept
  <2>15. CodesAreUnambiguous'
    <3>1. ASSUME NEW t \in Senders, t # s, Open(t)'
          PROVE  Open(t) /\ row'[t].nameplate = row[t].nameplate /\ row'[t].nameplate # n
      BY <2>1, <3>1 DEF RowOnward, Open
    <3> QED
      BY <2>2, <3>1 DEF TransfersInv, CodesAreUnambiguous
  <2>16. LinkNeedsTheCode'
    <3>1. \A q \in Receivers : pc'[q] = "got" => pc[q] = "got"
      BY <1>0, <2>4 DEF Clients
    <3> QED
      BY <2>7, <2>8, <2>11, <3>1, LinkKept
  <2>17. RetriesAreSafe'
    <3>1. \A d \in Clients : FailureKept(d)
      BY <2>4, <2>6, <2>9 DEF FailureKept
    <3> QED
      BY <2>7, <2>8, <3>1, RetriesKept
  <2> QED
    BY <2>7, <2>11, <2>12, <2>13, <2>14, <2>15, <2>16, <2>17 DEF TransfersInv
<1> QED
  BY <1>5, <1>6 DEF CreateTransfer

-----------------------------------------------------------------------------
(* The theorems.                                                            *)

\* The invariant holds at first.
LEMMA InitTransfers ==
  ASSUME Init
  PROVE  TransfersInv
<1>1. 0 \in Times /\ 0 \in 0..MaxAttempts /\ 0 \in 0..MaxTroubles
  BY Nobody DEF Times
<1>2. NoAttempt \in AttemptRecs /\ NoAttempt.step = "none" /\ ~NoAttempt.again
  BY NoAttemptFacts
<1>3. TypeOK
  BY <1>1, <1>2 DEF Init, TypeOK, AttemptRecs
<1>4. /\ \A s \in Senders : row[s] = None /\ shown[s] = None /\ peer[s] = None
      /\ \A r \in Receivers : code[r] = None /\ joined[r] = None
      /\ \A c \in Clients : pc[c] = "idle"
      /\ \A c \in Clients, i \in Attempts : attempt[c][i] = NoAttempt
  BY DEF Init
<1>5. \A s \in Senders : SenderInv(s) /\ LegsInv(s)
  BY <1>4 DEF SenderInv, LegsInv, Clients
<1>6. \A r \in Receivers : ReceiverInv(r)
  BY <1>4 DEF ReceiverInv, Clients
<1>7. \A c \in Clients, i \in Attempts : AttemptInv(c, i)
  BY <1>2, <1>4 DEF AttemptInv
<1>8. CodesAreUnambiguous
  BY <1>4 DEF CodesAreUnambiguous, Open
<1>9. LinkNeedsTheCode /\ RetriesAreSafe
  BY <1>4 DEF LinkNeedsTheCode, RetriesAreSafe, Clients
<1> QED
  BY <1>3, <1>5, <1>6, <1>7, <1>8, <1>9 DEF TransfersInv

\* A step of the server for a client.
LEMMA ServeStep ==
  ASSUME TransfersInv, NEW c \in Clients, Serve(c), troubles' \in 0..MaxTroubles
  PROVE  TransfersInv'
<1>1. CASE c \in Senders /\ CreateTransfer(c)
  BY <1>1, CreateTransferStep
<1>2. CASE c \in Receivers /\ ClaimTransfer(c)
  BY <1>2, ClaimTransferStep
<1>3. CASE c \in Receivers /\ ClaimedTransferExists(c)
  BY <1>3, ClaimedTransferExistsStep
<1>4. CASE ReadTransfer(c)
  BY <1>4, ReadTransferStep
<1>5. CASE JudgeTransfer(c)
  BY <1>5, JudgeTransferStep
<1>6. ASSUME NEW i \in Attempts, ReadLeg(c, i) PROVE TransfersInv'
  BY <1>6, ReadLegStep
<1>7. ASSUME NEW i \in Attempts, JudgeLeg(c, i) PROVE TransfersInv'
  BY <1>7, JudgeLegStep
<1>8. ASSUME NEW i \in Attempts, StoreLeg(c, i) PROVE TransfersInv'
  BY <1>8, StoreLegStep
<1> QED
  BY <1>1, <1>2, <1>3, <1>4, <1>5, <1>6, <1>7, <1>8 DEF Serve

\* Troubles are counted up to their bound.
LEMMA TroublesStep ==
  ASSUME TypeOK, Next
  PROVE  troubles' \in 0..MaxTroubles
<1>1. troubles \in 0..MaxTroubles /\ MaxTroubles \in Nat /\ RivalTroubles \in Nat
  BY TransfersAssumption DEF TypeOK
<1>2. CASE UNCHANGED troubles
  BY <1>1, <1>2
<1>3. ASSUME NEW r \in Receivers, troubles' = IF r \in Rivals THEN troubles + RivalTroubles ELSE troubles,
             troubles' <= MaxTroubles
      PROVE  troubles' \in 0..MaxTroubles
  BY <1>1, <1>3
<1>4. CASE troubles < MaxTroubles /\ troubles' = troubles + 1
  BY <1>1, <1>4
<1> QED
  BY <1>2, <1>3, <1>4 DEF Next

\* Every step keeps the invariant.
LEMMA NextStep ==
  ASSUME TransfersInv, [Next]_vars
  PROVE  TransfersInv'
<1>1. CASE Next
  <2>0. troubles' \in 0..MaxTroubles
    BY <1>1, TroublesStep DEF TransfersInv
  <2>1. ASSUME NEW s \in Senders, StartSending(s) PROVE TransfersInv'
    BY <2>0, <2>1, StartSendingStep
  <2>2. ASSUME NEW c \in Clients, Serve(c) PROVE TransfersInv'
    BY <2>0, <2>2, ServeStep
  <2>3. ASSUME NEW m \in closing, HandleClose(m) PROVE TransfersInv'
    BY <2>0, <2>3, HandleCloseStep
  <2>4. CASE DeleteEndedTransfers
    BY <2>0, <2>4, DeleteEndedStep
  <2>5. CASE Tick
    BY <2>0, <2>5, TickStep
  <2>6. ASSUME NEW r \in Receivers, ReceiveWithCode(r) PROVE TransfersInv'
    BY <2>0, <2>6, ReceiveWithCodeStep
  <2>7. ASSUME NEW c \in Clients, Retry(c) PROVE TransfersInv'
    BY <2>0, <2>7, RetryStep
  <2>8. ASSUME NEW c \in Clients, GiveUp(c) PROVE TransfersInv'
    BY <2>0, <2>8, GiveUpStep
  <2>9. ASSUME NEW c \in Clients, Cancel(c) PROVE TransfersInv'
    BY <2>0, <2>9, CancelStep
  <2> QED
    BY <1>1, <2>1, <2>2, <2>3, <2>4, <2>5, <2>6, <2>7, <2>8, <2>9 DEF Next
<1>2. CASE UNCHANGED vars
  <2>1. UNCHANGED <<clock, row, pc, at, shown, code, joined, peer, fails, attempt, closing, why, troubles>>
    BY <1>2 DEF vars
  <2>2. TypeOK'
    BY <2>1 DEF TransfersInv, TypeOK
  <2>3. Lasting
    BY <2>1, UntouchedLasts DEF Begun
  <2>4. \A s \in Senders : RowOnward(s) /\ LegsSame(s)
    BY <2>1, UntouchedRows
  <2>5. Quiet
    BY <2>1, <2>4 DEF Quiet, ClientKept, FailureKept
  <2>6. \A c \in Clients, i \in Attempts : AttemptInv(c, i)'
    BY <2>1, <2>2, <2>3, <2>4, UntouchedAttempts
  <2> QED
    BY <2>2, <2>3, <2>5, <2>6, QuietStep
<1> QED
  BY <1>1, <1>2

\* Every step leaves each row that was there to go on, and one that is gone, gone.
LEMMA RowsStep ==
  ASSUME TransfersInv, [Next]_vars, NEW s \in Senders, row[s] # None \/ Begun(s)
  PROVE  RowOnward(s)
<1>0. TypeOK
  BY DEF TransfersInv
<1>1. CASE row' = row
  BY <1>1, UntouchedRows
<1>2. ASSUME NEW m \in closing, HandleClose(m) PROVE RowOnward(s)
  BY <1>0, <1>2, CloseRows
<1>3. CASE DeleteEndedTransfers
  BY <1>0, <1>3, DeleteRows
<1>4. ASSUME NEW t \in Senders, CreateTransfer(t), row' # row PROVE RowOnward(s)
  <2>1. /\ FreeNameplates(CloseExpiredActiveTransfers(at[t])) # {}
        /\ row' = [CloseExpiredActiveTransfers(at[t]) EXCEPT
                     ![t] = NewTransfer(NextFreeNameplate(CloseExpiredActiveTransfers(at[t])))]
    BY <1>4 DEF CreateTransfer
  <2>2. row[t] = None /\ ~Begun(t)
    BY <1>4 DEF TransfersInv, SenderInv, CreateTransfer, Begun
  <2>3. s # t /\ at[t] \in Times
    BY <1>0, <2>2 DEF TypeOK
  <2> QED
    BY <1>0, <2>1, <2>3, CreateRows
<1>5. ASSUME NEW r \in Receivers, ClaimTransfer(r), row' # row PROVE RowOnward(s)
  <2>1. PICK t \in ClaimableBy(r) : row' = [row EXCEPT ![t].receiver = r]
    BY <1>5 DEF ClaimTransfer
  <2> QED
    BY <1>0, <2>1, ClaimRows
<1>6. ASSUME NEW c \in Clients, NEW i \in Attempts, StoreLeg(c, i) PROVE RowOnward(s)
  <2> DEFINE a == attempt[c][i]
  <2>1. a.step = "store" /\ row' = Store(c, a.now) /\ UNCHANGED <<code, joined, peer>>
    BY <1>6 DEF StoreLeg
  <2>2. /\ IF c \in Senders THEN peer[c] # None ELSE joined[c] # None
        /\ ~Ran(IdOf(c), a.now)
    BY <2>1 DEF TransfersInv, AttemptInv
  <2>3. a.now \in Times
    BY <1>0 DEF TypeOK
  <2> QED
    BY <2>1, <2>2, <2>3, StoreRows
<1>7. ASSUME NEW c \in Clients, Serve(c), row' # row PROVE RowOnward(s)
  <2>1. \/ c \in Senders /\ CreateTransfer(c)
        \/ c \in Receivers /\ ClaimTransfer(c)
        \/ \E i \in Attempts : StoreLeg(c, i)
    BY <1>7 DEF Serve, ClaimedTransferExists, ReadTransfer, JudgeTransfer, ReadLeg, JudgeLeg
  <2> QED
    BY <1>4, <1>5, <1>6, <1>7, <2>1
<1>8. CASE row' # row
  <2>1. \/ \E c \in Clients : Serve(c)
        \/ \E m \in closing : HandleClose(m)
        \/ DeleteEndedTransfers
    BY <1>8 DEF Next, vars, StartSending, Tick, ReceiveWithCode, Retry, GiveUp, Cancel
  <2> QED
    BY <1>2, <1>3, <1>7, <1>8, <2>1
<1> QED
  BY <1>1, <1>8

\* The invariant holds throughout.
LEMMA Always == Spec => []TransfersInv
BY InitTransfers, NextStep, PTL DEF Spec

\* A code is unambiguous, however many transfers are opened at once, run out and
\* leave their nameplates to others: what CreateTransfer's lock, its clean-up of
\* expired rows and the search for the next free nameplate are for.
THEOREM CodesNameOneTransfer == Spec => []CodesAreUnambiguous
<1>1. TransfersInv => CodesAreUnambiguous
  BY DEF TransfersInv
<1> QED
  BY <1>1, Always, PTL

\* Whoever got a link typed the code its sender was shown, and what a sender
\* reports as handed over went to the receiver that claimed the transfer with the
\* right words: whatever is repeated, lost, reused or cancelled in between.
THEOREM LinksGoToTheCode == Spec => []LinkNeedsTheCode
<1>1. TransfersInv => LinkNeedsTheCode
  BY DEF TransfersInv
<1> QED
  BY <1>1, Always, PTL

\* writeOnce never refuses a client that repeats its own write: a client fails
\* only when its requests failed MaxAttempts times in a row.
THEOREM RepeatingIsSafe == Spec => []RetriesAreSafe
<1>1. TransfersInv => RetriesAreSafe
  BY DEF TransfersInv
<1> QED
  BY <1>1, Always, PTL

\* The relay writes each leg of a transfer once, and ends it once: no statement
\* of any handler, nor the clean-up, changes what was written before.
THEOREM LegsAreWrittenOnce == Spec => LegsStay
<1> DEFINE Stays == \A s \in Senders : row[s] # None /\ row'[s] # None =>
                      \A leg \in {"receiver", "answer", "delivery", "reason"} :
                        row[s][leg] # None => row'[s][leg] = row[s][leg]
<1>1. TransfersInv /\ [Next]_vars => [Stays]_vars
  <2> SUFFICES ASSUME TransfersInv, [Next]_vars PROVE Stays
    OBVIOUS
  <2>1. ASSUME NEW s \in Senders, row[s] # None, row'[s] # None,
               NEW leg \in {"receiver", "answer", "delivery", "reason"}, row[s][leg] # None
        PROVE  row'[s][leg] = row[s][leg]
    <3>1. RowOnward(s)
      BY <2>1, RowsStep
    <3> QED
      BY <2>1, <3>1 DEF RowOnward
  <2> QED
    BY <2>1
<1>2. Spec => [][Next]_vars
  BY DEF Spec
<1> HIDE DEF Stays
<1>3. Spec => [][Stays]_vars
  BY <1>1, <1>2, Always, PTL
<1> QED
  BY <1>3 DEF LegsStay, Stays

-----------------------------------------------------------------------------
(* What clients are told.  This part rests on the one above: it adds why a  *)
(* transfer ended.                                                          *)

\* Somebody of a transfer has withdrawn from it.
Withdrawn(s) == \E d \in Clients : IdOf(d) = s /\ pc[d] \in {"cancelled", "failed"}

\* There is a reason to end a transfer so, and one that does not come from c.
RightEnd(s, reason) ==
  \/ reason = "expired" /\ Ran(s, clock)
  \/ reason = "mismatch" /\ pc[s] = "mismatch"
  \/ reason = "cancelled" /\ Withdrawn(s)
TrueOf(c, s, reason) ==
  \/ /\ reason = "expired"
     /\ \/ Ran(s, clock)
        \/ row[s] = None /\ (peer[s] # None \/ pc[s] = "mismatch" \/ Withdrew(s, c))
  \/ reason = "mismatch" /\ pc[s] = "mismatch"
  \/ reason = "cancelled" /\ Withdrew(s, c)

\* A transfer has ended in some way, or is about to.
Over(s) == Ran(s, clock) \/ peer[s] # None \/ pc[s] = "mismatch" \/ Withdrawn(s)

\* A row was ended for a reason, and one that is gone had been.
EndInv(s) ==
  /\ at[s] <= clock
  /\ row[s] # None /\ row[s].reason # None =>
       \/ RightEnd(s, row[s].reason)
       \/ row[s].reason = "done" /\ row[s].answer # None /\ row[s].delivery # None
  /\ row[s] = None /\ Begun(s) => Over(s)

Waiting == {"poll", "judge", "writing"}

\* Who was told of an end had a transfer, and was told the truth.
ToldInv(c) ==
  why[c] # None => /\ IF c \in Senders THEN Begun(c) ELSE joined[c] # None
                   /\ TrueOf(c, IdOf(c), why[c])

TruthInv ==
  /\ \A m \in closing : RightEnd(m[1], m[2])
  /\ \A s \in Senders : EndInv(s)
  /\ \A c \in Clients : ToldInv(c)

\* How clients move: ends are final, but that who failed may still cancel.
Moved ==
  \/ pc' = pc
  \/ \E c \in Clients, x \in States :
       /\ Becomes(c, x)
       /\ Begun(c) => x \notin {"idle", "creating"}
       /\ pc[c] \notin {"cancelled", "mismatch"}
       /\ pc[c] = "failed" => x = "cancelled"

\* What that means for the states the reasons speak of.
LEMMA MovedFacts ==
  ASSUME TypeOK, Moved
  PROVE  \A c \in Clients :
           /\ Begun(c) => Begun(c)'
           /\ pc[c] = "mismatch" => pc'[c] = "mismatch"
           /\ pc[c] \in {"cancelled", "failed"} => pc'[c] \in {"cancelled", "failed"}
<1>1. CASE pc' = pc
  BY <1>1 DEF Begun
<1>2. ASSUME NEW c \in Clients, NEW x \in States, Becomes(c, x),
             Begun(c) => x \notin {"idle", "creating"},
             pc[c] \notin {"cancelled", "mismatch"}, pc[c] = "failed" => x = "cancelled",
             NEW d \in Clients
      PROVE  /\ Begun(d) => Begun(d)'
             /\ pc[d] = "mismatch" => pc'[d] = "mismatch"
             /\ pc[d] \in {"cancelled", "failed"} => pc'[d] \in {"cancelled", "failed"}
  <2>1. pc'[c] = x /\ (d # c => pc'[d] = pc[d])
    BY <1>2, BecomesFacts
  <2> QED
    BY <1>2, <2>1 DEF Begun
<1> QED
  BY <1>1, <1>2 DEF Moved

\* Who waits has a transfer, and keeps it.
LEMMA WaiterFacts ==
  ASSUME TransfersInv, NEW c \in Clients,
         pc[c] \in Waiting \/ (IF c \in Senders THEN Begun(c) ELSE joined[c] # None)
  PROVE  /\ IdOf(c) \in Senders /\ Begun(IdOf(c))
         /\ Lasting => IdOf(c)' = IdOf(c) /\ at'[IdOf(c)] = at[IdOf(c)]
<1>1. CASE c \in Senders
  BY <1>1 DEF IdOf, Waiting, Begun, Lasting
<1>2. CASE c \notin Senders
  <2>1. c \in Receivers
    BY <1>2 DEF Clients
  <2>2. joined[c] # None
    BY <1>2, <2>1 DEF TransfersInv, ReceiverInv, Waiting
  <2>3. joined[c] \in Senders /\ Begun(joined[c])
    BY <2>1, <2>2 DEF TransfersInv, TypeOK, ReceiverInv
  <2> QED
    BY <1>2, <2>1, <2>2, <2>3 DEF IdOf, Lasting
<1> QED
  BY <1>1, <1>2

\* A transfer that has run out has run out for good.
LEMMA RanStays ==
  ASSUME TypeOK, TypeOK', Lasting, clock <= clock', NEW s \in Senders, Begun(s), Ran(s, clock)
  PROVE  Ran(s, clock)'
<1>1. at[s] \in Nat /\ at'[s] = at[s] /\ clock \in Nat /\ clock' \in Nat /\ TTL \in Nat
  BY TransfersAssumption DEF Lasting, TypeOK, Times
<1> QED
  BY <1>1 DEF Ran, ExpiresAt

\* A row that is gone is gone for good, and a sender that starts has one, or has
\* failed.
Removals ==
  \A s \in Senders :
    /\ Begun(s) /\ row[s] = None => row'[s] = None
    /\ ~Begun(s) /\ Begun(s)' /\ row'[s] = None => pc'[s] = "failed"

\* Reasons stay true.
LEMMA ReasonsStay ==
  ASSUME TransfersInv, TypeOK', Lasting, Moved, Removals, clock <= clock',
         NEW c, NEW s \in Senders, NEW reason, Begun(s) \/ reason # "expired"
  PROVE  /\ RightEnd(s, reason) => RightEnd(s, reason)'
         /\ TrueOf(c, s, reason) => TrueOf(c, s, reason)'
         /\ Begun(s) /\ Over(s) => Over(s)'
<1>0. TypeOK /\ s \in Clients
  BY DEF TransfersInv, Clients
<1>1. Begun(s) /\ Ran(s, clock) => Ran(s, clock)'
  BY <1>0, RanStays
<1>2. pc[s] = "mismatch" => pc'[s] = "mismatch"
  BY <1>0, MovedFacts
<1>3. ASSUME NEW d \in Clients, IdOf(d) = s, pc[d] \in {"cancelled", "failed"}
      PROVE  IdOf(d)' = s /\ pc'[d] \in {"cancelled", "failed"}
  <2>1. IdOf(d)' = IdOf(d)
    BY <1>3, Nobody DEF IdOf, Lasting, Clients
  <2> QED
    BY <1>0, <1>3, <2>1, MovedFacts
<1>4. Withdrawn(s) => Withdrawn(s)'
  BY <1>3 DEF Withdrawn
<1>5. Withdrew(s, c) => Withdrew(s, c)'
  BY <1>3 DEF Withdrew
<1>6. (peer[s] # None => peer'[s] # None) /\ (Begun(s) /\ row[s] = None => row'[s] = None)
  BY DEF Lasting, Removals
<1>7. RightEnd(s, reason) => RightEnd(s, reason)'
  BY <1>1, <1>2, <1>4 DEF RightEnd
<1>8. TrueOf(c, s, reason) => TrueOf(c, s, reason)'
  BY <1>1, <1>2, <1>5, <1>6 DEF TrueOf
<1>9. Begun(s) /\ Over(s) => Over(s)'
  BY <1>1, <1>2, <1>4, <1>6 DEF Over
<1> QED
  BY <1>7, <1>8, <1>9

\* What a row's end is made of, and its removal.
RightRow(s) ==
  /\ row'[s] # None /\ row'[s].reason # None =>
       \/ row[s] # None /\ row[s].reason # None /\ RowOnward(s)
       \/ RightEnd(s, row'[s].reason) /\ (Begun(s) \/ row'[s].reason # "expired")
       \/ row'[s].reason = "done" /\ row'[s].answer # None /\ row'[s].delivery # None
  /\ row'[s] = None => row[s] = None \/ Over(s)

\* A step keeps the reasons true if those it adds are.
LEMMA TruthKept ==
  ASSUME TransfersInv, TypeOK', TruthInv, Lasting, Moved, Removals, clock <= clock',
         \A m \in closing' : m \in closing \/ RightEnd(m[1], m[2])',
         \A s \in Senders : RightRow(s) /\ at'[s] <= clock',
         \A c \in Clients : \/ why'[c] = why[c]
                            \/ pc[c] \in Waiting /\ TrueOf(c, IdOf(c), why'[c])
  PROVE  TruthInv'
<1>0. TypeOK
  BY DEF TransfersInv
<1>1. ASSUME NEW m \in closing' PROVE RightEnd(m[1], m[2])'
  <2>1. CASE m \in closing
    <3>1. m[1] \in Senders /\ m[2] # "expired"
      BY <1>0, <2>1 DEF TypeOK
    <3>2. RightEnd(m[1], m[2])
      BY <2>1 DEF TruthInv
    <3> QED
      BY <3>1, <3>2, ReasonsStay
  <2> QED
    BY <2>1
<1>s. ASSUME NEW s \in Senders, row'[s] = None, Begun(s)' PROVE Over(s)'
  <2>1. CASE Begun(s)
    <3>1. row[s] = None => Over(s)
      BY <2>1 DEF TruthInv, EndInv
    <3>2. Over(s)
      BY <1>s, <3>1 DEF RightRow
    <3> QED
      BY <2>1, <3>2, ReasonsStay
  <2>2. CASE ~Begun(s)
    <3>1. pc'[s] = "failed"
      BY <1>s, <2>2 DEF Removals
    <3>2. s \in Clients /\ IdOf(s)' = s
      BY DEF Clients, IdOf
    <3> QED
      BY <3>1, <3>2 DEF Over, Withdrawn
  <2> QED
    BY <2>1, <2>2
<1>2. ASSUME NEW s \in Senders PROVE EndInv(s)'
  <2> SUFFICES ASSUME row'[s] # None, row'[s].reason # None
               PROVE  \/ RightEnd(s, row[s].reason)'
                      \/ row'[s].reason = "done" /\ row'[s].answer # None /\ row'[s].delivery # None
    BY <1>s DEF EndInv
  <2>0. PICK w : w = row'[s].reason
    OBVIOUS
  <2>1. CASE row[s] # None /\ row[s].reason # None /\ RowOnward(s)
    <3>1. row[s].reason = w
      BY <2>0, <2>1 DEF RowOnward
    <3>2. Begun(s)
      BY <2>1 DEF TransfersInv, SenderInv
    <3>3. CASE RightEnd(s, w)
      <4>1. RightEnd(s, w)'
        BY <3>2, <3>3, ReasonsStay
      <4> QED
        BY <2>0, <4>1
    <3>4. CASE row[s].reason = "done" /\ row[s].answer # None /\ row[s].delivery # None
      BY <2>0, <2>1, <3>1, <3>4 DEF RowOnward
    <3> QED
      BY <2>1, <3>1, <3>3, <3>4 DEF TruthInv, EndInv
  <2>2. CASE RightEnd(s, w) /\ (Begun(s) \/ w # "expired")
    <3>1. RightEnd(s, w)'
      BY <2>2, ReasonsStay
    <3> QED
      BY <2>0, <3>1
  <2> QED
    BY <2>0, <2>1, <2>2 DEF RightRow
<1>3. ASSUME NEW c \in Clients PROVE ToldInv(c)'
  <2> SUFFICES ASSUME why'[c] # None
               PROVE  /\ IF c \in Senders THEN pc'[c] \notin {"idle", "creating"} ELSE joined'[c] # None
                      /\ TrueOf(c, IdOf(c), why[c])'
    BY DEF ToldInv, Begun
  <2>0. PICK w : w = why'[c]
    OBVIOUS
  <2>1. (pc[c] \in Waiting \/ (IF c \in Senders THEN Begun(c) ELSE joined[c] # None)) /\ TrueOf(c, IdOf(c), w)
    BY <2>0 DEF TruthInv, ToldInv
  <2>2. PICK s \in Senders : s = IdOf(c) /\ Begun(s) /\ IdOf(c)' = s
    BY <2>1, WaiterFacts
  <2>3. TrueOf(c, s, w)'
    BY <2>1, <2>2, ReasonsStay
  <2>4. CASE c \in Senders
    <3>1. s = c
      BY <2>2, <2>4 DEF IdOf
    <3>2. pc'[c] \notin {"idle", "creating"}
      BY <1>0, <2>2, <3>1, MovedFacts DEF Begun
    <3> QED
      BY <2>0, <2>2, <2>3, <2>4, <3>2
  <2>5. CASE c \notin Senders
    <3>1. joined'[c] = s /\ s # None
      BY <2>2, <2>5, Nobody DEF IdOf
    <3> QED
      BY <2>0, <2>2, <2>3, <2>5, <3>1
  <2> QED
    BY <2>4, <2>5
<1> QED
  BY <1>1, <1>2, <1>3 DEF TruthInv

\* Who waits, or asks for something, has neither ended nor failed.
LEMMA MoveFrom ==
  ASSUME NEW c \in Clients, NEW x \in States, Becomes(c, x),
         pc[c] \notin {"cancelled", "mismatch", "failed"}, x \notin {"idle", "creating"} \/ ~Begun(c)
  PROVE  Moved
BY DEF Moved

\* An answer moves at most the client that waits for it.
LEMMA MovedByReply ==
  ASSUME NEW c \in Clients, NEW i \in Attempts, NEW reason,
         AnswerWritten(c, i) \/ AnswerGone(c, i, reason) \/ AnswerConflict(c, i)
  PROVE  Moved
<1>1. CASE Ignored(c, i)
  BY <1>1 DEF Ignored, Moved
<1>2. CASE ~Ignored(c, i)
  <2>1. pc[c] = "writing"
    BY <1>2 DEF AnswerWritten, AnswerGone, AnswerConflict, Waits
  <2>2. PICK x \in {"sent", "poll", "mismatch", "ended", "failed"} : Becomes(c, x)
    BY <1>2 DEF AnswerWritten, AnswerGone, AnswerConflict, Polls, Ends, Fails
  <2>3. x \in States
    BY DEF States, Settled
  <2> QED
    BY <2>1, <2>2, <2>3, MoveFrom
<1> QED
  BY <1>1, <1>2

\* So does every other step of the server for a client.
LEMMA MovedByServer ==
  ASSUME NEW c \in Clients, Serve(c)
  PROVE  Moved
<1>0. {"writing", "poll", "judge", "got", "mismatch", "ended", "failed", "refused", "used", "unknown"}
        \subseteq States
  BY DEF States, Settled
<1>1. CASE CreateTransfer(c)
  <2>1. PICK x \in {"failed", "poll"} : Becomes(c, x)
    BY <1>1 DEF CreateTransfer, Polls
  <2> QED
    BY <1>0, <1>1, <2>1, MoveFrom DEF CreateTransfer
<1>2. CASE ClaimTransfer(c)
  <2>1. PICK x \in {"writing", "failed", "refused"} : Becomes(c, x)
    BY <1>2 DEF ClaimTransfer, Writes
  <2> QED
    BY <1>0, <1>2, <2>1, MoveFrom DEF ClaimTransfer
<1>3. CASE ClaimedTransferExists(c)
  <2>1. PICK x \in {"used", "unknown"} : Becomes(c, x)
    BY <1>3 DEF ClaimedTransferExists
  <2> QED
    BY <1>0, <1>3, <2>1, MoveFrom DEF ClaimedTransferExists
<1>4. CASE ReadTransfer(c)
  <2>1. PICK x \in {"mismatch", "ended", "writing", "got", "judge"} : Becomes(c, x)
    BY <1>4 DEF ReadTransfer, Told, Takes, NotYet, Ends, TakeAnswer, TakeDelivery, Writes
  <2> QED
    BY <1>0, <1>4, <2>1, MoveFrom DEF ReadTransfer
<1>5. CASE JudgeTransfer(c)
  <2>1. PICK x \in {"mismatch", "ended", "poll"} : Becomes(c, x)
    BY <1>5 DEF JudgeTransfer, Ends, Polls
  <2> QED
    BY <1>0, <1>5, <2>1, MoveFrom DEF JudgeTransfer
<1>6. ASSUME NEW i \in Attempts, ReadLeg(c, i) \/ JudgeLeg(c, i) \/ StoreLeg(c, i) PROVE Moved
  <2>1. \/ pc' = pc
        \/ \E reason : AnswerWritten(c, i) \/ AnswerGone(c, i, reason) \/ AnswerConflict(c, i)
    BY <1>6 DEF ReadLeg, JudgeLeg, StoreLeg, Proceed
  <2> QED
    BY <2>1, MovedByReply DEF Moved
<1> QED
  BY <1>1, <1>2, <1>3, <1>4, <1>5, <1>6 DEF Serve

\* And every step at all.
LEMMA MovedByAll ==
  ASSUME [Next]_vars
  PROVE  Moved
<1>0. {"creating", "claiming", "poll", "writing", "failed", "cancelled"} \subseteq States
  BY DEF States, Settled
<1>1. CASE pc' = pc
  BY <1>1 DEF Moved
<1>2. ASSUME NEW s \in Senders, StartSending(s) PROVE Moved
  <2>1. s \in Clients /\ Becomes(s, "creating") /\ pc[s] = "idle" /\ ~Begun(s)
    BY <1>2 DEF StartSending, Clients, Begun
  <2> QED
    BY <1>0, <2>1, MoveFrom
<1>3. ASSUME NEW c \in Clients, Serve(c) PROVE Moved
  BY <1>3, MovedByServer
<1>4. ASSUME NEW r \in Receivers, ReceiveWithCode(r) PROVE Moved
  <2>1. r \in Clients /\ Becomes(r, "claiming") /\ pc[r] = "idle"
    BY <1>4 DEF ReceiveWithCode, Clients
  <2> QED
    BY <1>0, <2>1, MoveFrom
<1>5. ASSUME NEW c \in Clients, Retry(c) \/ GiveUp(c) PROVE Moved
  <2>1. PICK x \in {"poll", "writing", "failed"} : Becomes(c, x)
    BY <1>5 DEF Retry, GiveUp, Writes, Fails
  <2>2. pc[c] \in {"poll", "judge", "writing"}
    BY <1>5 DEF Retry, GiveUp
  <2> QED
    BY <1>0, <2>1, <2>2, MoveFrom
<1>6. ASSUME NEW c \in Clients, Cancel(c) PROVE Moved
  <2>1. Becomes(c, "cancelled") /\ pc[c] \notin {"cancelled", "mismatch"}
    BY <1>6 DEF Cancel
  <2> QED
    BY <1>0, <2>1 DEF Moved
<1>7. CASE DeleteEndedTransfers \/ Tick \/ UNCHANGED vars
  BY <1>1, <1>7 DEF DeleteEndedTransfers, Tick, vars
<1>8. ASSUME NEW m \in closing, HandleClose(m) PROVE Moved
  BY <1>1, <1>8 DEF HandleClose
<1> QED
  BY <1>2, <1>3, <1>4, <1>5, <1>6, <1>7, <1>8 DEF Next

\* What a client has is set once: each in one step, from a state in which it is
\* not there yet.
LEMMA LastingStep ==
  ASSUME TransfersInv, [Next]_vars
  PROVE  Lasting
<1>0. TypeOK
  BY DEF TransfersInv
<1>1. \A c \in Clients : Begun(c) => Begun(c)'
  BY <1>0, MovedByAll, MovedFacts
<1>2. CASE UNCHANGED <<shown, peer, code, joined, at>>
  BY <1>1, <1>2, UntouchedLasts
<1>3. ASSUME NEW s \in Senders, StartSending(s) PROVE Lasting
  <2>1. ~Begun(s) /\ UNCHANGED <<shown, peer, code, joined>>
    BY <1>3 DEF StartSending, Begun
  <2>2. \A t \in Senders : t # s => at'[t] = at[t]
    BY <1>0, <1>3 DEF StartSending, TypeOK
  <2> QED
    BY <1>1, <2>1, <2>2 DEF Lasting
<1>4. ASSUME NEW r \in Receivers, ReceiveWithCode(r) PROVE Lasting
  <2>1. pc[r] = "idle" /\ UNCHANGED <<shown, peer, joined, at>>
    BY <1>4 DEF ReceiveWithCode
  <2>2. code[r] = None
    BY <2>1 DEF TransfersInv, ReceiverInv
  <2>3. \A q \in Receivers : q # r => code'[q] = code[q]
    BY <1>0, <1>4 DEF ReceiveWithCode, TypeOK
  <2> QED
    BY <1>1, <2>1, <2>2, <2>3 DEF Lasting
<1>5. ASSUME NEW s \in Senders, CreateTransfer(s) PROVE Lasting
  <2>1. pc[s] = "creating" /\ UNCHANGED <<peer, code, joined, at>>
    BY <1>5 DEF CreateTransfer
  <2>2. shown[s] = None
    BY <2>1 DEF TransfersInv, SenderInv, Begun
  <2>3. \A t \in Senders : t # s => shown'[t] = shown[t]
    BY <1>0, <1>5 DEF CreateTransfer, TypeOK
  <2> QED
    BY <1>1, <2>1, <2>2, <2>3 DEF Lasting
<1>6. ASSUME NEW r \in Receivers, ClaimTransfer(r) PROVE Lasting
  <2>1. pc[r] = "claiming" /\ UNCHANGED <<shown, peer, code, at>>
    BY <1>6 DEF ClaimTransfer
  <2>2. joined[r] = None
    BY <2>1 DEF TransfersInv, ReceiverInv
  <2>3. \A q \in Receivers : q # r => joined'[q] = joined[q]
    BY <1>0, <1>6 DEF ClaimTransfer, TypeOK
  <2> QED
    BY <1>1, <2>1, <2>2, <2>3 DEF Lasting
<1>7. ASSUME NEW c \in Clients, ReadTransfer(c) PROVE Lasting
  <2>1. pc[c] = "poll" /\ UNCHANGED <<shown, code, joined, at>>
    BY <1>7 DEF ReadTransfer
  <2>2. \/ peer' = peer
        \/ c \in Senders /\ peer' = [peer EXCEPT ![c] = row[c].answer.share]
    BY <1>7 DEF ReadTransfer, Told, Takes, NotYet, TakeAnswer, TakeDelivery
  <2>3. CASE peer' = peer
    BY <1>2, <2>1, <2>3
  <2>4. CASE c \in Senders /\ peer' = [peer EXCEPT ![c] = row[c].answer.share]
    <3>1. peer[c] = None
      BY <2>1, <2>4 DEF TransfersInv, SenderInv
    <3>2. \A t \in Senders : t # c => peer'[t] = peer[t]
      BY <1>0, <2>4 DEF TypeOK
    <3> QED
      BY <1>1, <2>1, <3>1, <3>2 DEF Lasting
  <2> QED
    BY <2>2, <2>3, <2>4
<1>8. ASSUME NEW c \in Clients, Serve(c) PROVE Lasting
  <2>1. CASE UNCHANGED <<shown, peer, code, joined, at>>
    BY <1>2, <2>1
  <2>2. \/ c \in Senders /\ CreateTransfer(c)
        \/ c \in Receivers /\ ClaimTransfer(c)
        \/ ReadTransfer(c)
        \/ UNCHANGED <<shown, peer, code, joined, at>>
    BY <1>8 DEF Serve, ClaimedTransferExists, JudgeTransfer, ReadLeg, JudgeLeg, StoreLeg
  <2> QED
    BY <1>5, <1>6, <1>7, <2>1, <2>2
<1>9. \/ \E s \in Senders : StartSending(s)
      \/ \E c \in Clients : Serve(c)
      \/ \E r \in Receivers : ReceiveWithCode(r)
      \/ UNCHANGED <<shown, peer, code, joined, at>>
  BY DEF Next, vars, HandleClose, DeleteEndedTransfers, Tick, Retry, GiveUp, Cancel
<1> QED
  BY <1>2, <1>3, <1>4, <1>8, <1>9

\* A sender begins with a row, unless it fails.
LEMMA BeginStep ==
  ASSUME TypeOK, [Next]_vars, NEW s \in Senders, ~Begun(s), Begun(s)'
  PROVE  row'[s] # None \/ pc'[s] = "failed"
<1>0. s \in Clients /\ s \notin Receivers /\ pc \in [Clients -> States]
  BY Nobody DEF Clients, TypeOK, States
<1>1. ASSUME NEW c \in Clients, NEW x, Becomes(c, x), Begun(c) \/ c \in Receivers PROVE FALSE
  <2>1. c # s
    BY <1>0, <1>1
  <2>2. pc'[s] = pc[s]
    BY <1>0, <1>1, <2>1 DEF Becomes
  <2> QED
    BY <2>2 DEF Begun
<1>2. pc' # pc
  BY DEF Begun
<1>3. ASSUME NEW t \in Senders, StartSending(t) PROVE FALSE
  <2>1. t \in Clients /\ Becomes(t, "creating")
    BY <1>3 DEF StartSending, Clients
  <2> QED
    BY <1>0, <2>1 DEF Becomes, Begun
<1>4. ASSUME NEW t \in Senders, CreateTransfer(t) PROVE row'[s] # None \/ pc'[s] = "failed"
  <2>1. t \in Clients /\ \E x : Becomes(t, x)
    BY <1>4 DEF CreateTransfer, Polls, Clients
  <2>2. t = s
    BY <1>0, <2>1 DEF Becomes, Begun
  <2> DEFINE rows == CloseExpiredActiveTransfers(at[s])
             n == NextFreeNameplate(rows)
  <2>3. \/ Becomes(s, "failed")
        \/ FreeNameplates(rows) # {} /\ row' = [rows EXCEPT ![s] = NewTransfer(n)]
    BY <1>4, <2>2 DEF CreateTransfer
  <2>4. CASE Becomes(s, "failed")
    BY <1>0, <2>4 DEF Becomes
  <2>5. CASE FreeNameplates(rows) # {} /\ row' = [rows EXCEPT ![s] = NewTransfer(n)]
    <3>1. at[s] \in Times
      BY DEF TypeOK
    <3>2. n \in Nameplates /\ row'[s] = NewTransfer(n)
      BY <2>5, <3>1, CreateRows
    <3> QED
      BY <3>2, NewTransferFacts, NoneIsNoValue
  <2> QED
    BY <2>3, <2>4, <2>5
<1>5. ASSUME NEW c \in Clients, NEW i \in Attempts, ReadLeg(c, i) \/ JudgeLeg(c, i) \/ StoreLeg(c, i)
      PROVE  FALSE
  <2>1. pc' = pc \/ (pc[c] = "writing" /\ \E x : Becomes(c, x))
    BY <1>5 DEF ReadLeg, JudgeLeg, StoreLeg, Proceed, AnswerWritten, AnswerGone, AnswerConflict,
                Ignored, Waits, Polls, Ends, Fails
  <2> QED
    BY <1>1, <1>2, <2>1 DEF Begun
<1>6. ASSUME NEW c \in Clients, ReadTransfer(c) \/ JudgeTransfer(c) PROVE FALSE
  <2>1. pc[c] \in {"poll", "judge"}
    BY <1>6 DEF ReadTransfer, JudgeTransfer
  <2>2. \E x : Becomes(c, x)
    BY <1>6 DEF ReadTransfer, JudgeTransfer, Told, Takes, NotYet, Ends, TakeAnswer, TakeDelivery,
                Writes, Polls
  <2> QED
    BY <1>1, <2>1, <2>2 DEF Begun
<1>7. ASSUME NEW r \in Receivers, ClaimTransfer(r) \/ ClaimedTransferExists(r) \/ ReceiveWithCode(r)
      PROVE  FALSE
  <2>1. r \in Clients /\ \E x : Becomes(r, x)
    BY <1>7 DEF ClaimTransfer, ClaimedTransferExists, ReceiveWithCode, Writes, Clients
  <2> QED
    BY <1>1, <1>7, <2>1
<1>8. ASSUME NEW c \in Clients, Retry(c) \/ GiveUp(c) \/ Cancel(c) PROVE FALSE
  <2>1. pc[c] \in {"poll", "judge", "writing", "failed"} /\ \E x : Becomes(c, x)
    BY <1>8 DEF Retry, GiveUp, Cancel, Writes, Fails
  <2> QED
    BY <1>1, <2>1 DEF Begun
<1>9. \/ \E t \in Senders : StartSending(t)
      \/ \E c \in Clients : Serve(c)
      \/ \E r \in Receivers : ReceiveWithCode(r)
      \/ \E c \in Clients : Retry(c) \/ GiveUp(c) \/ Cancel(c)
  BY <1>2 DEF Next, vars, HandleClose, DeleteEndedTransfers, Tick
<1> QED
  BY <1>3, <1>4, <1>5, <1>6, <1>7, <1>8, <1>9 DEF Serve

\* What holds before and across every step.
Setting == TransfersInv /\ TypeOK' /\ TruthInv /\ Lasting /\ Moved /\ Removals

\* A step that takes no time keeps the reasons true if those it adds are.
LEMMA TruthStill ==
  ASSUME Setting, clock' = clock,
         \A m \in closing' : m \in closing \/ RightEnd(m[1], m[2])',
         \A s \in Senders : RightRow(s) /\ (at'[s] = at[s] \/ at'[s] = clock),
         \A c \in Clients : \/ why'[c] = why[c]
                            \/ pc[c] \in Waiting /\ TrueOf(c, IdOf(c), why'[c])
  PROVE  TruthInv'
<1>0. TransfersInv /\ TypeOK' /\ TruthInv /\ Lasting /\ Moved /\ Removals /\ clock \in Nat
  BY DEF Setting, TransfersInv, TypeOK, Times
<1>1. \A s \in Senders : RightRow(s) /\ at'[s] <= clock'
  BY <1>0 DEF TruthInv, EndInv
<1>2. clock <= clock'
  BY <1>0
<1> QED
  BY <1>0, <1>1, <1>2, TruthKept

\* Rows that are not touched stay right.
LEMMA UntouchedRight ==
  ASSUME row' = row
  PROVE  \A s \in Senders : RightRow(s)
BY UntouchedRows DEF RightRow

\* The reasons the server gives a client that waits are true.
LEMMA ReasonsAreTrue ==
  ASSUME TransfersInv, TruthInv, NEW c \in Clients, pc[c] \in Waiting
  PROVE  /\ row[IdOf(c)] = None \/ Ran(IdOf(c), clock) => TrueOf(c, IdOf(c), "expired")
         /\ /\ row[IdOf(c)] # None /\ row[IdOf(c)].reason # None
            /\ row[IdOf(c)].answer = None \/ row[IdOf(c)].delivery = None
            => TrueOf(c, IdOf(c), row[IdOf(c)].reason)
<1>1. PICK s \in Senders : s = IdOf(c) /\ Begun(s)
  BY WaiterFacts
<1>w. Withdrawn(s) => Withdrew(s, c)
  BY DEF Withdrawn, Withdrew, Waiting
<1>2. row[s] = None => Over(s)
  BY <1>1 DEF TruthInv, EndInv
<1>3. row[s] = None \/ Ran(s, clock) => TrueOf(c, s, "expired")
  BY <1>2, <1>w DEF TrueOf, Over
<1>4. ASSUME row[s] # None, row[s].reason # None, row[s].answer = None \/ row[s].delivery = None
      PROVE  TrueOf(c, s, row[s].reason)
  <2>1. RightEnd(s, row[s].reason)
    BY <1>4 DEF TruthInv, EndInv
  <2> QED
    BY <1>w, <2>1 DEF RightEnd, TrueOf
<1> QED
  BY <1>1, <1>3, <1>4

\* The answer to an attempt, as far as the reasons go.
LEMMA ReplyTruth ==
  ASSUME Setting, NEW c \in Clients, NEW i \in Attempts, NEW reason \in Reasons,
         \/ AnswerWritten(c, i)
         \/ AnswerGone(c, i, reason) /\ (pc[c] = "writing" => TrueOf(c, IdOf(c), reason)),
         UNCHANGED <<clock, at>>, \A s \in Senders : RightRow(s)
  PROVE  TruthInv'
<1>0. TransfersInv /\ TypeOK
  BY DEF Setting, TransfersInv
<1>3. closing' = closing
  BY DEF AnswerWritten, AnswerGone, Ignored
<1>4. ASSUME NEW d \in Clients
      PROVE  why'[d] = why[d] \/ (pc[d] \in Waiting /\ TrueOf(d, IdOf(d), why'[d]))
  <2>1. CASE why' = why
    BY <2>1
  <2>2. CASE why' # why
    <3>0. AnswerGone(c, i, reason) /\ ~Ignored(c, i) /\ (pc[c] = "writing" => TrueOf(c, IdOf(c), reason))
      BY <2>2 DEF AnswerWritten, Ignored
    <3>1. pc[c] = "writing" /\ why' = [why EXCEPT ![c] = reason]
      BY <3>0 DEF AnswerGone, Waits, Ends
    <3>2. why'[c] = reason /\ (d # c => why'[d] = why[d])
      BY <1>0, <3>1 DEF TypeOK
    <3> QED
      BY <3>0, <3>1, <3>2 DEF Waiting
  <2> QED
    BY <2>1, <2>2
<1> QED
  BY <1>3, <1>4, TruthStill

\* An attempt goes on.
LEMMA ProceedTruth ==
  ASSUME Setting, NEW c \in Clients, NEW i \in Attempts, NEW b, Proceed(c, i, b),
         UNCHANGED <<clock, row, at>>
  PROVE  TruthInv'
<1>1. UNCHANGED <<pc, closing, why>>
  BY DEF Proceed
<1>2. \A s \in Senders : RightRow(s)
  BY UntouchedRight
<1> QED
  BY <1>1, <1>2, TruthStill

\* What a store does to the reason of the row: a delivery ends it.
LEMMA StoreRight ==
  ASSUME TransfersInv, NEW c \in Clients, NEW now \in Times, row' = Store(c, now),
         IF c \in Senders THEN peer[c] # None ELSE joined[c] # None
  PROVE  \A t \in Senders : RightRow(t)
<1>s. PICK s \in Senders : s = IdOf(c)
  BY WriterFacts
<1>0. TypeOK
  BY DEF TransfersInv
<1>1. CASE row' = row
  BY <1>1, UntouchedRight
<1>2. CASE row' # row /\ c \in Senders
  <2> DEFINE mid == [row[s] EXCEPT !.delivery = Sealed(s)]
             new == Closed(mid, "done", now)
  <2>0. s = c
    BY <1>s, <1>2 DEF IdOf
  <2>1. row' = [row EXCEPT ![s] = new] /\ Open(s) /\ Answered(s)
    BY <1>2, <2>0 DEF Store, DeliverTransfer
  <2>2. row[s] \in Rows /\ row[s].answer # None
    BY <1>0, <2>1 DEF TypeOK, Open, Answered
  <2>3. Sealed(s) \in Keys /\ Sealed(s) # None
    <3>1. peer[s] \in Receivers /\ WordsOf[s] \in Words
      BY <1>0, <1>2, <2>0, Nobody DEF TypeOK
    <3> QED
      BY <3>1, NoneIsNoValue DEF Sealed, Keys
  <2>4. mid \in Rows /\ mid.delivery = Sealed(s) /\ mid.answer = row[s].answer
    BY <2>2, <2>3 DEF Rows
  <2>5. /\ new.reason = "done" /\ new.closed = now
        /\ new.delivery = Sealed(s) /\ new.answer = row[s].answer
    <3> HIDE DEF mid
    <3> QED
      BY <2>4 DEF Closed, Rows
  <2>6. new \in Rows /\ new # None
    <3>1. "done" \in Reasons
      BY DEF Reasons
    <3>2. new \in Rows
      BY <2>4, <3>1, ClosedFacts
    <3> QED
      BY <3>2, NoneIsNoValue
  <2> HIDE DEF new, mid
  <2>7. row'[s] = new /\ \A t \in Senders : t # s => row'[t] = row[t]
    BY <1>0, <2>1 DEF TypeOK
  <2>8. RightRow(s)
    BY <2>2, <2>3, <2>5, <2>6, <2>7 DEF RightRow
  <2>9. \A t \in Senders : t # s => RightRow(t)
    BY <2>7 DEF RightRow, RowOnward
  <2> QED
    BY <2>8, <2>9
<1>3. CASE row' # row /\ c \notin Senders
  <2> DEFINE new == [row[s] EXCEPT !.answer = [share |-> c, tag |-> Tag(c)]]
  <2>0. s = joined[c]
    BY <1>s, <1>3 DEF IdOf
  <2>1. row' = [row EXCEPT ![s] = new] /\ Open(s)
    BY <1>3, <2>0 DEF Store, AnswerTransfer
  <2>2. row[s] \in Rows /\ row[s].reason = None
    BY <1>0, <2>1 DEF TypeOK, Open
  <2>3. new.reason = None
    BY <2>2 DEF Rows
  <2> HIDE DEF new
  <2>4. row'[s] = new /\ \A t \in Senders : t # s => row'[t] = row[t]
    BY <1>0, <2>1 DEF TypeOK
  <2>6. new # None
    <3>1. c \in Receivers /\ code[c] # None
      BY <1>3, <2>0 DEF Clients, TransfersInv, ReceiverInv
    <3>2. code[c].words \in Words
      BY <1>0, <3>1 DEF TypeOK
    <3>3. [share |-> c, tag |-> Tag(c)] \in [share : Receivers, tag : Keys]
      BY <2>0, <3>1, <3>2 DEF Tag, Keys
    <3>4. new \in Rows
      BY <2>2, <3>3 DEF Rows, new
    <3> QED
      BY <3>4, NoneIsNoValue
  <2>7. RightRow(s)
    BY <2>3, <2>4, <2>6 DEF RightRow
  <2>8. \A t \in Senders : t # s => RightRow(t)
    BY <2>4 DEF RightRow, RowOnward
  <2> QED
    BY <2>7, <2>8
<1> QED
  BY <1>1, <1>2, <1>3

\* The steps of a write.
LEMMA LegTruth ==
  ASSUME Setting, NEW c \in Clients, NEW i \in Attempts, ReadLeg(c, i) \/ JudgeLeg(c, i) \/ StoreLeg(c, i)
  PROVE  TruthInv'
<1> DEFINE a == attempt[c][i]
<1>0. TransfersInv /\ TruthInv /\ TypeOK /\ a \in AttemptRecs
  BY DEF Setting, TransfersInv, TypeOK, AttemptRecs
<1>1. a.step # "none" /\ UNCHANGED <<clock, at>>
  BY DEF ReadLeg, JudgeLeg, StoreLeg
<1>2. IF c \in Senders THEN peer[c] # None ELSE joined[c] # None
  BY <1>0, <1>1 DEF TransfersInv, AttemptInv
<1>3. PICK s \in Senders : s = IdOf(c)
  BY <1>0, <1>2, WriterFacts
<1>4. "expired" \in Reasons
  BY DEF Reasons
<1>5. CASE ReadLeg(c, i)
  <2>1. UNCHANGED <<clock, row, at>>
    BY <1>5 DEF ReadLeg
  <2>2. \A t \in Senders : RightRow(t)
    BY <2>1, UntouchedRight
  <2>3. row[s] # None /\ Written(c) => Same(c)
    BY <1>0, <1>2, <1>3, WrittenIsSame
  <2>4. \/ AnswerGone(c, i, "expired") /\ row[s] = None
        \/ AnswerWritten(c, i)
        \/ row[s] # None /\ ~Written(c) /\ ~Open(s) /\ AnswerGone(c, i, row[s].reason)
        \/ Proceed(c, i, [a EXCEPT !.step = "judge"])
    BY <1>3, <1>5, <2>3 DEF ReadLeg
  <2>5. CASE AnswerGone(c, i, "expired") /\ row[s] = None
    <3>1. pc[c] = "writing" => TrueOf(c, IdOf(c), "expired")
      BY <1>0, <1>3, <2>5, ReasonsAreTrue DEF Waiting
    <3> QED
      BY <1>4, <2>1, <2>2, <2>5, <3>1, ReplyTruth
  <2>6. CASE AnswerWritten(c, i)
    BY <1>4, <2>1, <2>2, <2>6, ReplyTruth
  <2>7. CASE row[s] # None /\ ~Written(c) /\ ~Open(s) /\ AnswerGone(c, i, row[s].reason)
    <3>1. row[s].reason \in Reasons /\ row[s].reason # None
      BY <1>0, <1>3, <2>7 DEF TypeOK, Rows, Open
    <3>2. row[s].answer = None \/ row[s].delivery = None
      BY <1>3, <2>7 DEF Written, Answered, Delivered
    <3>3. pc[c] = "writing" => TrueOf(c, IdOf(c), row[s].reason)
      BY <1>0, <1>3, <2>7, <3>1, <3>2, ReasonsAreTrue DEF Waiting
    <3> QED
      BY <2>1, <2>2, <2>7, <3>1, <3>3, ReplyTruth
  <2>8. CASE Proceed(c, i, [a EXCEPT !.step = "judge"])
    BY <2>1, <2>8, ProceedTruth
  <2> QED
    BY <2>4, <2>5, <2>6, <2>7, <2>8
<1>6. CASE JudgeLeg(c, i)
  <2> DEFINE b == [a EXCEPT !.step = "store", !.now = clock]
  <2>1. UNCHANGED <<clock, row, at>>
    BY <1>6 DEF JudgeLeg
  <2>2. \A t \in Senders : RightRow(t)
    BY <2>1, UntouchedRight
  <2>3. CASE Ran(s, clock) /\ AnswerGone(c, i, "expired")
    <3>1. pc[c] = "writing" => TrueOf(c, IdOf(c), "expired")
      BY <1>0, <1>3, <2>3, ReasonsAreTrue DEF Waiting
    <3> QED
      BY <1>4, <2>1, <2>2, <2>3, <3>1, ReplyTruth
  <2>4. CASE Proceed(c, i, b)
    BY <2>1, <2>4, ProceedTruth
  <2> QED
    BY <1>3, <1>6, <2>3, <2>4 DEF JudgeLeg
<1>7. CASE StoreLeg(c, i)
  <2> DEFINE b == [step |-> "read", again |-> TRUE, now |-> 0]
  <2>1. a.step = "store" /\ row' = Store(c, a.now) /\ ~a.again
    BY <1>0, <1>7 DEF StoreLeg, TransfersInv, AttemptInv
  <2>2. a.now \in Times
    BY <1>0 DEF AttemptRecs
  <2>3. \A t \in Senders : RightRow(t)
    BY <1>0, <1>2, <2>1, <2>2, StoreRight
  <2>4. CASE row' # row
    <3>1. AnswerWritten(c, i)
      BY <1>7, <2>4 DEF StoreLeg
    <3> QED
      BY <1>1, <1>4, <2>3, <3>1, ReplyTruth
  <2>5. CASE row' = row
    <3>1. Proceed(c, i, b)
      BY <1>7, <2>1, <2>5 DEF StoreLeg
    <3> QED
      BY <1>1, <2>5, <3>1, ProceedTruth
  <2> QED
    BY <2>4, <2>5
<1> QED
  BY <1>5, <1>6, <1>7

\* A step that leaves the rows alone.
LEMMA MoveTruth ==
  ASSUME Setting, UNCHANGED <<clock, row>>,
         \A s \in Senders : at'[s] = at[s] \/ at'[s] = clock,
         \A m \in closing' : m \in closing \/ RightEnd(m[1], m[2])',
         \A c \in Clients : \/ why'[c] = why[c]
                            \/ pc[c] \in Waiting /\ TrueOf(c, IdOf(c), why'[c])
  PROVE  TruthInv'
<1>1. \A s \in Senders : RightRow(s)
  BY UntouchedRight
<1> QED
  BY <1>1, TruthStill

\* The steps that tell nobody anything and leave the rows alone: a sender starts, a
\* receiver types a code, or learns that it is of no use.
LEMMA StartTruth ==
  ASSUME Setting,
         \/ \E s \in Senders : StartSending(s)
         \/ \E r \in Receivers : ReceiveWithCode(r) \/ ClaimedTransferExists(r)
  PROVE  TruthInv'
<1>0. TypeOK
  BY DEF Setting, TransfersInv
<1>1. UNCHANGED <<clock, row, closing, why>>
  BY DEF StartSending, ReceiveWithCode, ClaimedTransferExists
<1>2. \A t \in Senders : at'[t] = at[t] \/ at'[t] = clock
  BY <1>0 DEF StartSending, ReceiveWithCode, ClaimedTransferExists, TypeOK
<1> QED
  BY <1>1, <1>2, MoveTruth

\* A client that waits is told the truth.
LEMMA EndsTruth ==
  ASSUME Setting, NEW c \in Clients, pc[c] \in Waiting, NEW reason \in Reasons, Ends(c, reason),
         TrueOf(c, IdOf(c), reason), UNCHANGED <<clock, row, at, closing>>
  PROVE  TruthInv'
<1>0. TypeOK
  BY DEF Setting, TransfersInv
<1>1. why' = [why EXCEPT ![c] = reason]
  BY DEF Ends
<1>2. why'[c] = reason /\ \A d \in Clients : d # c => why'[d] = why[d]
  BY <1>0, <1>1 DEF TypeOK
<1> QED
  BY <1>2, MoveTruth

\* A poll: the sender that finds a wrong tag has the reason for the end it asks
\* for, and who is told of an end is told what the row, or its absence, means.
LEMMA PollTruth ==
  ASSUME Setting, NEW c \in Clients, ReadTransfer(c) \/ JudgeTransfer(c)
  PROVE  TruthInv'
<1>0. TransfersInv /\ TypeOK /\ TruthInv
  BY DEF Setting, TransfersInv
<1>1. pc[c] \in Waiting /\ UNCHANGED <<clock, row, at>>
  BY DEF ReadTransfer, JudgeTransfer, Waiting
<1>2. PICK s \in Senders : s = IdOf(c)
  BY <1>0, <1>1, WaiterFacts
<1>3. "expired" \in Reasons /\ {"poll", "judge", "got", "mismatch"} \subseteq States
  BY DEF Reasons, States, Settled
<1>4. ASSUME NEW reason \in Reasons, Told(c, reason), TrueOf(c, IdOf(c), reason) PROVE TruthInv'
  BY <1>1, <1>4, EndsTruth DEF Told
<1>5. CASE NotYet(c)
  BY <1>1, <1>5, MoveTruth DEF NotYet
<1>6. CASE Takes(c) /\ (c \notin Senders \/ AnswerMatches(c))
  <2>1. UNCHANGED <<clock, row, at, closing, why>>
    BY <1>1, <1>6 DEF Takes, TakeDelivery, TakeAnswer
  <2> QED
    BY <2>1, MoveTruth
<1>8. CASE Takes(c) /\ c \in Senders /\ ~AnswerMatches(c)
  <2>1. Becomes(c, "mismatch") /\ closing' = closing \cup {<<c, "mismatch">>} /\ why' = why
    BY <1>8 DEF Takes, TakeAnswer
  <2>2. pc'[c] = "mismatch"
    BY <1>0, <1>3, <2>1, BecomesFacts
  <2>3. ASSUME NEW m \in closing' PROVE m \in closing \/ RightEnd(m[1], m[2])'
    BY <2>1, <2>2 DEF RightEnd
  <2> QED
    BY <1>1, <2>1, <2>3, MoveTruth
<1>9. CASE ReadTransfer(c)
  <2>1. \/ row[s] = None /\ Told(c, "expired")
        \/ Takes(c)
        \/ row[s] # None /\ ~Ready(c) /\ ~Open(s) /\ Told(c, row[s].reason)
        \/ NotYet(c)
    BY <1>2, <1>9 DEF ReadTransfer
  <2>2. CASE row[s] = None /\ Told(c, "expired")
    <3>1. TrueOf(c, IdOf(c), "expired")
      BY <1>0, <1>1, <1>2, <2>2, ReasonsAreTrue
    <3> QED
      BY <1>3, <1>4, <2>2, <3>1
  <2>3. CASE row[s] # None /\ ~Ready(c) /\ ~Open(s) /\ Told(c, row[s].reason)
    <3>1. row[s].reason \in Reasons /\ row[s].reason # None
      BY <1>0, <1>2, <2>3 DEF TypeOK, Rows, Open
    <3>2. row[s].answer = None \/ row[s].delivery = None
      BY <1>2, <2>3 DEF Ready, Answered, Delivered, IdOf
    <3>3. TrueOf(c, IdOf(c), row[s].reason)
      BY <1>0, <1>1, <1>2, <2>3, <3>1, <3>2, ReasonsAreTrue
    <3> QED
      BY <1>4, <2>3, <3>1, <3>3
  <2> QED
    BY <1>5, <1>6, <1>8, <2>1, <2>2, <2>3
<1>10. CASE JudgeTransfer(c)
  <2>1. closing' = closing
    BY <1>10 DEF JudgeTransfer
  <2>2. CASE Ran(s, clock) /\ Ends(c, "expired")
    <3>1. TrueOf(c, IdOf(c), "expired")
      BY <1>0, <1>1, <1>2, <2>2, ReasonsAreTrue
    <3> QED
      BY <1>1, <1>3, <2>1, <2>2, <3>1, EndsTruth
  <2>3. CASE why' = why
    BY <1>1, <2>1, <2>3, MoveTruth
  <2> QED
    BY <1>2, <1>10, <2>2, <2>3 DEF JudgeTransfer, Polls
<1> QED
  BY <1>9, <1>10

\* Failures and cancels: who asks for the end of a transfer has withdrawn from it.
LEMMA TroubleTruth ==
  ASSUME Setting, NEW c \in Clients, Retry(c) \/ GiveUp(c) \/ Cancel(c)
  PROVE  TruthInv'
<1>0. TransfersInv /\ TypeOK /\ Lasting
  BY DEF Setting, TransfersInv
<1>1. UNCHANGED <<clock, row, at, why>>
  BY DEF Retry, GiveUp, Cancel
<1>2. {"poll", "failed", "cancelled"} \subseteq States
  BY DEF States, Settled
<1>3. CASE Retry(c)
  <2>1. closing' = closing
    BY <1>3 DEF Retry
  <2> QED
    BY <1>1, <2>1, MoveTruth
<1>4. CASE GiveUp(c) \/ Cancel(c)
  <2>1. PICK x \in {"failed", "cancelled"} : Becomes(c, x)
    BY <1>4 DEF GiveUp, Cancel, Fails
  <2>2. pc'[c] = x
    BY <1>0, <1>2, <2>1, BecomesFacts
  <2>4. joined' = joined
    BY <1>4 DEF GiveUp, Cancel
  <2>5. ASSUME NEW m \in closing', m \notin closing PROVE RightEnd(m[1], m[2])'
    <3>1. m = <<IdOf(c), "cancelled">>
      BY <1>0, <1>4, <2>5, Nobody DEF GiveUp, Cancel, Fails, IdOf
    <3>2. PICK s : s = IdOf(c) /\ m[1] = s /\ m[2] = "cancelled"
      BY <3>1
    <3>3. IdOf(c)' = s
      BY <2>4, <3>2 DEF IdOf
    <3>4. Withdrawn(s)'
      BY <2>2, <3>3 DEF Withdrawn
    <3> QED
      BY <3>2, <3>4 DEF RightEnd
  <2> QED
    BY <1>1, <2>5, MoveTruth
<1> QED
  BY <1>3, <1>4

\* A DELETE ends a transfer for a reason somebody had when it was sent.
LEMMA CloseTruth ==
  ASSUME Setting, NEW m \in closing, HandleClose(m)
  PROVE  TruthInv'
<1>0. TransfersInv /\ TypeOK /\ TruthInv /\ clock \in Times
  BY DEF Setting, TransfersInv, TypeOK
<1>1. UNCHANGED <<clock, pc, at, attempt, why>> /\ closing' \subseteq closing
  BY DEF HandleClose
<1>2. m[1] \in Senders /\ m[2] \in Reasons /\ m[2] # "expired" /\ RightEnd(m[1], m[2])
  BY <1>0 DEF TypeOK, Reasons, TruthInv
<1>3. PICK s \in Senders, w \in Reasons : s = m[1] /\ w = m[2]
  BY <1>2
<1> DEFINE new == Closed(row[s], w, clock)
<1>4. row' = row \/ (Open(s) /\ row' = [row EXCEPT ![s] = new])
  BY <1>3 DEF HandleClose, CloseTransfer
<1>5. \A t \in Senders : RightRow(t)
  <2>1. CASE row' = row
    BY <2>1, UntouchedRight
  <2>2. CASE Open(s) /\ row' = [row EXCEPT ![s] = new]
    <3>1. row[s] \in Rows
      BY <1>0, <2>2 DEF TypeOK, Open
    <3>2. new \in Rows /\ new.reason = w
      BY <1>0, <3>1, ClosedFacts
    <3>3. new # None
      BY <3>2, NoneIsNoValue
    <3> HIDE DEF new
    <3>4. row'[s] = new /\ \A t \in Senders : t # s => row'[t] = row[t]
      BY <1>0, <2>2 DEF TypeOK
    <3>5. RightRow(s)
      BY <1>2, <1>3, <3>2, <3>3, <3>4 DEF RightRow
    <3>7. \A t \in Senders : t # s => RightRow(t)
      BY <3>4 DEF RightRow, RowOnward
    <3> QED
      BY <3>5, <3>7
  <2> QED
    BY <1>4, <2>1, <2>2
<1> QED
  BY <1>1, <1>5, TruthStill

\* The clean-up takes rows that ended for a reason, or whose time is up.
LEMMA DeleteTruth ==
  ASSUME Setting, DeleteEndedTransfers
  PROVE  TruthInv'
<1>0. TransfersInv /\ TypeOK /\ TruthInv /\ clock \in Nat
  BY Nobody DEF Setting, TransfersInv, TypeOK, Times
<1>1. UNCHANGED <<clock, pc, at, attempt, closing, why>>
  BY DEF DeleteEndedTransfers
<1>2. ASSUME NEW s \in Senders PROVE RightRow(s)
  <2>1. \/ row'[s] = row[s]
        \/ /\ row'[s] = None /\ row[s] # None
           /\ ExpiresAt(s) + Retention < clock \/ row[s].reason # None
    BY DEF DeleteEndedTransfers, Open
  <2>2. at[s] \in Nat /\ TTL \in Nat /\ Retention \in Nat
    BY <1>0, TransfersAssumption DEF TypeOK, Times
  <2>3. ExpiresAt(s) + Retention < clock => Ran(s, clock)
    BY <1>0, <2>2 DEF ExpiresAt, Ran
  <2>4. row[s] # None /\ row[s].reason # None => Over(s)
    <3>1. row[s] # None /\ row[s].delivery # None => peer[s] # None
      BY <1>0 DEF TransfersInv, LegsInv
    <3> QED
      BY <1>0, <3>1 DEF TruthInv, EndInv, RightEnd, Over
  <2>5. row'[s] = None => row[s] = None \/ Over(s)
    BY <2>1, <2>3, <2>4 DEF Over
  <2> QED
    BY <2>1, <2>5 DEF RightRow, RowOnward
<1> QED
  BY <1>1, <1>2, TruthStill

\* Time passes, and makes no reason less true.
LEMMA TickTruth ==
  ASSUME Setting, Tick
  PROVE  TruthInv'
<1>0. TransfersInv /\ TypeOK /\ TypeOK' /\ TruthInv /\ Lasting /\ Moved /\ Removals /\ clock \in Nat
  BY Nobody DEF Setting, TransfersInv, TypeOK, Times
<1>1. clock' = clock + 1 /\ UNCHANGED <<row, at, closing, why>>
  BY DEF Tick
<1>2. ASSUME NEW s \in Senders PROVE RightRow(s) /\ at'[s] <= clock'
  <2>1. RightRow(s)
    BY <1>1, UntouchedRight
  <2>2. at[s] <= clock /\ at[s] \in Nat
    BY <1>0, Nobody DEF TruthInv, EndInv, TypeOK, Times
  <2> QED
    BY <1>0, <1>1, <2>1, <2>2
<1>3. clock <= clock'
  BY <1>0, <1>1
<1> QED
  BY <1>0, <1>1, <1>2, <1>3, TruthKept

\* A claim leaves an open transfer open.
LEMMA ClaimTruth ==
  ASSUME Setting, NEW r \in Receivers, ClaimTransfer(r)
  PROVE  TruthInv'
<1>0. TransfersInv /\ TypeOK /\ r \in Clients /\ r \notin Senders
  BY Nobody DEF Setting, TransfersInv, Clients
<1>1. UNCHANGED <<clock, at, closing, why>> /\ pc[r] = "claiming"
  BY DEF ClaimTransfer
<1>2. ASSUME NEW s \in ClaimableBy(r), row' = [row EXCEPT ![s].receiver = r]
      PROVE  /\ s \in Senders /\ row'[s] # None /\ row'[s].reason = None
             /\ \A t \in Senders : RightRow(t)
  <2>1. s \in Senders /\ Open(s)
    BY DEF ClaimableBy
  <2> DEFINE new == [row[s] EXCEPT !.receiver = r]
  <2>2. row[s] \in Rows /\ row[s].reason = None
    BY <1>0, <2>1 DEF TypeOK, Open
  <2>3. new \in Rows /\ new.reason = None
    BY <2>2 DEF Rows
  <2>4. row' = [row EXCEPT ![s] = new]
    BY <1>2
  <2>5. new # None
    BY <2>3, NoneIsNoValue
  <2> HIDE DEF new
  <2>6. row'[s] = new /\ \A t \in Senders : t # s => row'[t] = row[t]
    BY <1>0, <2>1, <2>4 DEF TypeOK
  <2>7. RightRow(s)
    BY <2>3, <2>5, <2>6 DEF RightRow
  <2>8. \A t \in Senders : t # s => RightRow(t)
    BY <2>6 DEF RightRow, RowOnward
  <2> QED
    BY <2>1, <2>3, <2>5, <2>6, <2>7, <2>8
<1>3. CASE row' = row
  BY <1>1, <1>3, MoveTruth
<1>4. ASSUME NEW s \in ClaimableBy(r), row' = [row EXCEPT ![s].receiver = r] PROVE TruthInv'
  <2>1. \A t \in Senders : RightRow(t) /\ (at'[t] = at[t] \/ at'[t] = clock)
    BY <1>1, <1>2, <1>4
  <2> QED
    BY <1>1, <2>1, TruthStill
<1> QED
  BY <1>3, <1>4 DEF ClaimTransfer

\* Opening a transfer ends others, whose time is up.
LEMMA CreateTruth ==
  ASSUME Setting, NEW s \in Senders, CreateTransfer(s)
  PROVE  TruthInv'
<1> DEFINE rows == CloseExpiredActiveTransfers(at[s])
           n == NextFreeNameplate(rows)
<1>0. /\ TransfersInv /\ TypeOK /\ TruthInv /\ s \in Clients
      /\ at[s] \in Times /\ at[s] \in Nat /\ clock \in Nat /\ TTL \in Nat /\ at[s] <= clock
  BY Nobody, TransfersAssumption DEF Setting, TransfersInv, Clients, TypeOK, Times, TruthInv, EndInv
<1>1. UNCHANGED <<clock, at, attempt, closing, why>> /\ pc[s] = "creating"
  BY DEF CreateTransfer
<1>3. CASE row' = row
  BY <1>1, <1>3, MoveTruth
<1>4. CASE /\ FreeNameplates(rows) # {}
           /\ row' = [rows EXCEPT ![s] = NewTransfer(n)]
  <2>1. n \in Nameplates /\ row'[s] = NewTransfer(n)
    BY <1>0, <1>4, CreateRows
  <2>2. row'[s] # None /\ row'[s].reason = None
    BY <2>1, NewTransferFacts, NoneIsNoValue
  <2>3. ASSUME NEW t \in Senders, t # s PROVE RightRow(t)
    <3>1. row'[t] = rows[t]
      <4>1. rows \in [Senders -> Rows \cup {None}]
        BY <1>0, ExpiredFacts
      <4> HIDE DEF rows, n
      <4> QED
        BY <1>4, <2>3, <4>1
    <3>2. CASE Open(t) /\ Ran(t, at[s])
      <4>1. row[t] \in Rows /\ row[t] # None /\ "expired" \in Reasons
        BY <1>0, <3>2 DEF TypeOK, Open, Reasons
      <4>2. rows[t] = Closed(row[t], "expired", at[s])
        BY <3>2 DEF CloseExpiredActiveTransfers
      <4>3. row'[t].reason = "expired" /\ row'[t] \in Rows /\ row'[t] # None
        BY <1>0, <3>1, <4>1, <4>2, ClosedFacts, NoneIsNoValue
      <4>4. Ran(t, clock)
        <5>1. at[t] \in Nat
          BY <1>0, Nobody DEF TypeOK, Times
        <5> QED
          BY <1>0, <3>2, <5>1 DEF Ran, ExpiresAt
      <4>5. Begun(t)
        BY <1>0, <4>1 DEF TransfersInv, SenderInv
      <4> QED
        BY <4>3, <4>4, <4>5 DEF RightRow, RightEnd
    <3>3. CASE ~(Open(t) /\ Ran(t, at[s]))
      <4>1. row'[t] = row[t]
        BY <3>1, <3>3 DEF CloseExpiredActiveTransfers
      <4> QED
        BY <4>1 DEF RightRow, RowOnward
    <3> QED
      BY <3>2, <3>3
  <2>4. RightRow(s)
    BY <2>2 DEF RightRow
  <2>8. \A t \in Senders : RightRow(t) /\ (at'[t] = at[t] \/ at'[t] = clock)
    BY <1>1, <2>3, <2>4
  <2> QED
    BY <1>1, <2>8, TruthStill
<1> QED
  BY <1>3, <1>4 DEF CreateTransfer

\* Every step keeps the reasons true.
LEMMA TruthStep ==
  ASSUME TransfersInv, TruthInv, [Next]_vars
  PROVE  TruthInv'
<1>0. Setting
  <2>1. ASSUME NEW s \in Senders
        PROVE  /\ Begun(s) /\ row[s] = None => row'[s] = None
               /\ ~Begun(s) /\ Begun(s)' /\ row'[s] = None => pc'[s] = "failed"
    <3>1. Begun(s) => RowOnward(s)
      BY RowsStep
    <3>2. ~Begun(s) /\ Begun(s)' => row'[s] # None \/ pc'[s] = "failed"
      BY BeginStep DEF TransfersInv
    <3> QED
      BY <3>1, <3>2 DEF RowOnward
  <2>2. Removals
    BY <2>1 DEF Removals
  <2> QED
    BY <2>2, NextStep, LastingStep, MovedByAll DEF Setting, TransfersInv
<1>1. ASSUME NEW s \in Senders, StartSending(s) PROVE TruthInv'
  BY <1>0, <1>1, StartTruth
<1>2. ASSUME NEW c \in Clients, Serve(c) PROVE TruthInv'
  <2>1. CASE c \in Senders /\ CreateTransfer(c)
    BY <1>0, <2>1, CreateTruth
  <2>2. CASE c \in Receivers /\ ClaimTransfer(c)
    BY <1>0, <2>2, ClaimTruth
  <2>3. CASE c \in Receivers /\ ClaimedTransferExists(c)
    BY <1>0, <2>3, StartTruth
  <2>4. CASE ReadTransfer(c) \/ JudgeTransfer(c)
    BY <1>0, <2>4, PollTruth
  <2>5. ASSUME NEW i \in Attempts, ReadLeg(c, i) \/ JudgeLeg(c, i) \/ StoreLeg(c, i) PROVE TruthInv'
    BY <1>0, <2>5, LegTruth
  <2> QED
    BY <1>2, <2>1, <2>2, <2>3, <2>4, <2>5 DEF Serve
<1>3. ASSUME NEW m \in closing, HandleClose(m) PROVE TruthInv'
  BY <1>0, <1>3, CloseTruth
<1>4. CASE DeleteEndedTransfers
  BY <1>0, <1>4, DeleteTruth
<1>5. CASE Tick
  BY <1>0, <1>5, TickTruth
<1>6. ASSUME NEW r \in Receivers, ReceiveWithCode(r) PROVE TruthInv'
  BY <1>0, <1>6, StartTruth
<1>7. ASSUME NEW c \in Clients, Retry(c) \/ GiveUp(c) \/ Cancel(c) PROVE TruthInv'
  BY <1>0, <1>7, TroubleTruth
<1>8. CASE UNCHANGED vars
  <2>1. UNCHANGED <<clock, row, pc, at, attempt, closing, why>>
    BY <1>8 DEF vars
  <2> QED
    BY <1>0, <2>1, MoveTruth
<1> QED
  BY <1>1, <1>2, <1>3, <1>4, <1>5, <1>6, <1>7, <1>8 DEF Next

\* At first nobody was told anything.
LEMMA InitTruth ==
  ASSUME Init
  PROVE  TruthInv
<1>1. /\ clock = 0 /\ closing = {}
      /\ \A s \in Senders : row[s] = None /\ at[s] = 0
      /\ \A s \in Senders : ~Begun(s)
      /\ \A c \in Clients : why[c] = None
  BY DEF Init, Begun, Clients
<1>2. 0 <= 0
  OBVIOUS
<1> QED
  BY <1>1, <1>2 DEF TruthInv, EndInv, ToldInv

\* The reason a client is given for the end of its transfer is true, whatever is
\* repeated, lost, delayed or cleaned up, and however long anybody was away:
\* "mismatch" only when the sender found a wrong tag, "cancelled" only when
\* somebody else withdrew, and "expired" only once its time is up, or once its row
\* was removed because it had ended otherwise.
THEOREM EndsAreTrue == Spec => []EndedIsTrue
<1>1. TransfersInv /\ TruthInv => EndedIsTrue
  BY DEF TruthInv, ToldInv, TrueOf, EndedIsTrue
<1>2. Spec => []TruthInv
  BY InitTruth, TruthStep, Always, PTL DEF Spec
<1> QED
  BY <1>1, <1>2, Always, PTL
=============================================================================
