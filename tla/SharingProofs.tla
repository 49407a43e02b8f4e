---------------------------- MODULE SharingProofs ----------------------------
(***************************************************************************)
(* Theorems about Sharing, for any number of parts, places and attempts    *)
(* and any number of losses.                                               *)
(***************************************************************************)
EXTENDS Sharing, TLAPS

\* Where the main goroutine is: the parts before next have been sent, there is
\* a session from "fill" on, and the completion is asked for with every part
\* acknowledged.
ShareInv ==
  /\ pc = "start" => next = 1
  /\ pc \in {"start", "fill", "flush", "broken"} => next \in Parts
  /\ pc = "wait" => next = NumParts + 1
  /\ \A n \in Parts : call[n] = "idle" <=> next <= n
  /\ pc \notin {"start", "failed"} => mine # 0
  /\ pc \in {"complete", "shared"} \/ call[Complete] # "idle" => \A n \in Parts : call[n] = "ok"
  /\ pc = "shared" => call[Complete] = "ok"
  /\ pc = "failed" /\ mine # 0 => Settled(Abort)

\* Who is waited for where, and that there is a session to ask for.
CallsInv ==
  /\ mine # 0 <=> call[Start] = "ok"
  /\ mine # 0 => mine = tries[Start]
  /\ \A c \in Calls \ {Start} : call[c] # "idle" => mine # 0
  /\ call[Start] = "sent" => pc = "start"
  /\ call[Complete] = "sent" => pc = "complete"
  /\ call[Complete] = "ok" => pc \in {"complete", "shared"}

\* An attempt that was given up is older than the one that is waited for.
TriesInv ==
  /\ \A c \in Calls : call[c] = "sent" => tries[c] > 0
  /\ \A c \in Calls, k \in Attempts : <<c, k>> \in late =>
       /\ call[c] # "idle" /\ k <= tries[c]
       /\ call[c] \in {"sent", "ok"} => k < tries[c]
  /\ call[Abort] # "idle" => tries[Abort] > 0

\* What the answers the client has say of the session it knows.
SessionInv ==
  /\ \A n \in Parts : call[n] = "ok" => n \in stored
  /\ mine # 0 => session[mine] # "none"
  /\ mine # 0 /\ session[mine] = "completed" => call[Complete] # "idle" /\ tries[Complete] > 0
  /\ call[Complete] = "ok" => session[mine] = "completed"
  /\ call[Complete] = "refused" => session[mine] = "aborted"
  /\ call[Abort] = "ok" => session[mine] = "aborted"
  /\ call[Abort] = "refused" => session[mine] = "completed"

SharingInv == TypeOK /\ ShareInv /\ CallsInv /\ TriesInv /\ SessionInv /\ QuietAtTheEnd

-----------------------------------------------------------------------------
(* The operators the steps are made of.                                     *)

\* The requests are the parts, the start, the completion and the abort.
LEMMA CallNumbers ==
  /\ Parts \subseteq Calls /\ {Start, Complete, Abort} \subseteq Calls
  /\ Start \notin Parts /\ Complete \notin Parts /\ Abort \notin Parts
  /\ Start # Complete /\ Start # Abort /\ Complete # Abort
  /\ \A c \in Calls : c \in Parts \/ c \in {Start, Complete, Abort}
BY SharingAssumption DEF Parts, Calls, Start, Complete, Abort

\* After every part but the last there is another.
LEMMA NextPart == \A n \in Parts : n # NumParts => n + 1 \in Parts
BY SharingAssumption DEF Parts

\* A request ends, or is sent; the others are not touched.
LEMMA Resulted ==
  ASSUME TypeOK, NEW c \in Calls, NEW answer \in {"idle", "sent", "ok", "refused", "error"},
         Result(c, answer)
  PROVE  /\ call' \in [Calls -> {"idle", "sent", "ok", "refused", "error"}]
         /\ call'[c] = answer
         /\ \A d \in Calls : d # c => call'[d] = call[d]
BY DEF TypeOK, Result

\* What the server takes, request by request.
LEMMA AcceptsWhat ==
  /\ Accepts(Start) <=> Unclaimed
  /\ \A n \in Parts : Accepts(n) <=> session[mine] = "pending"
  /\ Accepts(Complete) <=> \/ session[mine] = "completed"
                           \/ session[mine] = "pending" /\ stored = Parts
  /\ Accepts(Abort) <=> session[mine] \in {"pending", "aborted"}
BY CallNumbers DEF Accepts

\* What the server makes of the session: a request that is taken moves it to
\* the state it asks for, and one that is not leaves it alone.
LEMMA HandleWhat ==
  ASSUME NEW c \in Calls, NEW k, Handle(c, k)
  PROVE  /\ ~Accepts(c) => UNCHANGED <<session, stored>>
         /\ Accepts(c) /\ c = Start => session' = [session EXCEPT ![k] = "pending"]
                                       /\ UNCHANGED stored
         /\ Accepts(c) /\ c \in Parts => session' = [session EXCEPT ![mine] = "pending"]
                                         /\ stored' = stored \cup {c}
         /\ Accepts(c) /\ c = Complete => session' = [session EXCEPT ![mine] = "completed"]
                                          /\ UNCHANGED stored
         /\ Accepts(c) /\ c = Abort => session' = [session EXCEPT ![mine] = "aborted"]
                                       /\ UNCHANGED stored
BY CallNumbers DEF Handle, server

\* What stays and what may come with a request that reaches the server: no part
\* is lost, an end of the session is final, and only a completion publishes.
LEMMA HandleFacts ==
  ASSUME TypeOK, NEW c \in Calls, NEW k \in Attempts, Handle(c, k),
         c # Start => mine # 0, c = Start => k # mine
  PROVE  /\ session' \in [Attempts -> {"none", "pending", "completed", "aborted"}]
         /\ stored' \subseteq Parts /\ stored \subseteq stored'
         /\ mine # 0 =>
              /\ session[mine] \in {"completed", "aborted"} => session'[mine] = session[mine]
              /\ session[mine] # "none" => session'[mine] # "none"
              /\ session'[mine] = "completed" => session[mine] = "completed" \/ c = Complete
         /\ c = Start /\ Accepts(c) => session'[k] = "pending"
         /\ c \in Parts /\ Accepts(c) => c \in stored'
         /\ c = Complete =>
              /\ Accepts(c) => session'[mine] = "completed"
              /\ ~Accepts(c) /\ session[mine] # "none" /\ stored = Parts
                   => session'[mine] = "aborted"
         /\ c = Abort =>
              /\ Accepts(c) => session'[mine] = "aborted"
              /\ ~Accepts(c) /\ session[mine] # "none" => session'[mine] = "completed"
<1>0. /\ session \in [Attempts -> {"none", "pending", "completed", "aborted"}]
      /\ stored \subseteq Parts /\ (mine # 0 => mine \in Attempts)
  BY DEF TypeOK
<1>1. CASE ~Accepts(c)
  BY <1>0, <1>1, HandleWhat, AcceptsWhat, CallNumbers
<1>2. CASE Accepts(c) /\ c = Start
  BY <1>0, <1>2, HandleWhat, AcceptsWhat, CallNumbers
<1>3. CASE Accepts(c) /\ c \in Parts
  BY <1>0, <1>3, HandleWhat, AcceptsWhat, CallNumbers
<1>4. CASE Accepts(c) /\ c = Complete
  BY <1>0, <1>4, HandleWhat, AcceptsWhat, CallNumbers
<1>5. CASE Accepts(c) /\ c = Abort
  BY <1>0, <1>5, HandleWhat, AcceptsWhat, CallNumbers
<1> QED
  BY <1>1, <1>2, <1>3, <1>4, <1>5, CallNumbers

Answers == {"idle", "sent", "ok", "refused", "error"}

\* What sending a request does: it is under way with its first attempt, or it
\* has failed because its context is done.
LEMMA SendFacts ==
  ASSUME TypeOK, NEW c \in Calls, Send(c)
  PROVE  /\ call[c] = "idle" /\ UNCHANGED <<session, stored, late, losses>>
         /\ call' \in [Calls -> Answers] /\ tries' \in [Calls -> 0 .. MaxTransientAttempts]
         /\ \A d \in Calls : d # c => call'[d] = call[d] /\ tries'[d] = tries[d]
         /\ \/ call'[c] = "error" /\ tries' = tries /\ Cancelled(c)
            \/ call'[c] = "sent" /\ tries'[c] = 1
<1>0. 1 \in 0 .. MaxTransientAttempts
  BY SharingAssumption
<1>1. call[c] = "idle" /\ UNCHANGED <<session, stored, late, losses>>
  BY DEF Send, server
<1>2. CASE Cancelled(c)
  <2>1. Result(c, "error") /\ UNCHANGED tries
    BY <1>2 DEF Send
  <2> QED
    BY <1>1, <1>2, <2>1, Resulted DEF Answers, TypeOK
<1>3. CASE ~Cancelled(c)
  <2>1. Result(c, "sent") /\ tries' = [tries EXCEPT ![c] = 1]
    BY <1>3 DEF Send
  <2>2. /\ tries' \in [Calls -> 0 .. MaxTransientAttempts]
        /\ tries'[c] = 1 /\ \A d \in Calls : d # c => tries'[d] = tries[d]
    BY <1>0, <2>1 DEF TypeOK
  <2>3. /\ call' \in [Calls -> Answers] /\ call'[c] = "sent"
        /\ \A d \in Calls : d # c => call'[d] = call[d]
    BY <2>1, Resulted DEF Answers
  <2> QED
    BY <1>1, <2>2, <2>3
<1> QED
  BY <1>2, <1>3

\* What an attempt that ends does to the client: the request has its result, or
\* it is tried once more; nobody else is touched.
LEMMA RequestFacts ==
  ASSUME TypeOK, TriesInv, NEW c \in Calls, Request(c)
  PROVE  /\ call[c] = "sent" /\ tries[c] \in Attempts
         /\ UNCHANGED <<pc, next, interrupted, readFailed>>
         /\ call' \in [Calls -> Answers] /\ call'[c] # "idle"
         /\ tries' \in [Calls -> 0 .. MaxTransientAttempts]
         /\ \A d \in Calls : d # c => call'[d] = call[d] /\ tries'[d] = tries[d]
         /\ tries'[c] = tries[c] \/ (call'[c] = "sent" /\ tries'[c] = tries[c] + 1)
         /\ \/ c = Start /\ call'[c] = "ok" /\ mine' = tries[c]
            \/ ~(c = Start /\ call'[c] = "ok") /\ mine' = mine
<1>0. call[c] = "sent" /\ UNCHANGED <<pc, next, interrupted, readFailed>>
  BY DEF Request, Answer, LoseBody, Lose, GiveUp, Overlap, client
<1>1. tries[c] \in Attempts
  BY <1>0, SharingAssumption DEF TypeOK, TriesInv, Attempts
<1>2. ASSUME NEW answer \in {"ok", "refused", "error"}, Result(c, answer), UNCHANGED tries
      PROVE  /\ call' \in [Calls -> Answers] /\ call'[c] = answer
             /\ tries' \in [Calls -> 0 .. MaxTransientAttempts] /\ tries'[c] = tries[c]
             /\ \A d \in Calls : d # c => call'[d] = call[d] /\ tries'[d] = tries[d]
  BY <1>2, Resulted DEF Answers, TypeOK
<1>3. CASE Answer(c)
  <2>1. CASE Accepts(c)
    <3>1. Result(c, "ok") /\ UNCHANGED tries /\ mine' = IF c = Start THEN tries[c] ELSE mine
      BY <1>3, <2>1 DEF Answer
    <3> QED
      BY <1>0, <1>1, <1>2, <3>1
  <2>2. CASE ~Accepts(c)
    <3>1. Result(c, "refused") /\ UNCHANGED <<tries, mine>>
      BY <1>3, <2>2 DEF Answer
    <3> QED
      BY <1>0, <1>1, <1>2, <3>1
  <2> QED
    BY <2>1, <2>2
<1>4. CASE LoseBody(c) \/ GiveUp(c)
  <2>1. Result(c, "error") /\ UNCHANGED <<tries, mine>>
    BY <1>4 DEF LoseBody, GiveUp, client
  <2> QED
    BY <1>0, <1>1, <1>2, <2>1
<1>5. CASE \E k \in Attempts : Overlap(c, k)
  <2>1. Result(c, "refused") /\ UNCHANGED <<tries, mine>>
    BY <1>5 DEF Overlap, client
  <2> QED
    BY <1>0, <1>1, <1>2, <2>1
<1>6. CASE Lose(c)
  <2>1. CASE tries[c] < MaxTransientAttempts
    <3>1. tries' = [tries EXCEPT ![c] = @ + 1] /\ UNCHANGED <<call, mine>>
      BY <1>6, <2>1 DEF Lose, client
    <3>2. tries[c] + 1 \in 0 .. MaxTransientAttempts
      BY <1>1, <2>1, SharingAssumption DEF Attempts
    <3> QED
      BY <1>0, <1>1, <3>1, <3>2 DEF TypeOK, Answers
  <2>2. CASE ~(tries[c] < MaxTransientAttempts)
    <3>1. Result(c, "error") /\ UNCHANGED <<tries, mine>>
      BY <1>6, <2>2 DEF Lose, client
    <3> QED
      BY <1>0, <1>1, <1>2, <3>1
  <2> QED
    BY <2>1, <2>2
<1> QED
  BY <1>3, <1>4, <1>5, <1>6 DEF Request

\* The attempts nobody waits for, after an attempt has ended.
LEMMA LateFacts ==
  ASSUME TypeOK, TriesInv, NEW c \in Calls, Request(c)
  PROVE  /\ late' \subseteq late \cup {<<c, tries[c]>>}
         /\ call'[c] = "ok" => late' \subseteq late
         /\ call'[c] = "sent" => tries'[c] = tries[c] + 1
<1>0. TypeOK /\ call[c] = "sent"
  BY DEF Request, Answer, LoseBody, Lose, GiveUp, Overlap
<1>1. CASE Answer(c) \/ LoseBody(c) \/ \E k \in Attempts : Overlap(c, k)
  <2>1. \E answer \in {"ok", "refused", "error"} : Result(c, answer)
    BY <1>1 DEF Answer, LoseBody, Overlap
  <2>2. late' \subseteq late
    BY <1>1 DEF Answer, LoseBody, Overlap
  <2> QED
    BY <2>1, <2>2, Resulted
<1>2. CASE Lose(c) \/ GiveUp(c)
  <2>1. late' = late \cup {<<c, tries[c]>>}
    BY <1>2 DEF Lose, GiveUp
  <2>2. \/ Result(c, "error")
        \/ tries' = [tries EXCEPT ![c] = tries[c] + 1] /\ call' = call
    BY <1>2 DEF Lose, GiveUp
  <2> QED
    BY <1>0, <2>1, <2>2, Resulted DEF TypeOK
<1> QED
  BY <1>1, <1>2 DEF Request

\* What a step of the main goroutine that sends nothing leaves alone.
LEMMA MainFacts ==
  ASSUME NEW step, Goto(step), Main, UNCHANGED <<call, tries>>
  PROVE  /\ pc' = step
         /\ UNCHANGED <<next, mine, interrupted, readFailed, call, tries, session, stored, late, losses>>
BY DEF Goto, Main, server

-----------------------------------------------------------------------------
(* The invariant, step by step.                                             *)

Places == {"start", "fill", "flush", "broken", "wait", "complete", "abort", "shared", "failed"}

\* What reaches the server finds the session it is about.
LEMMA HandledFacts ==
  ASSUME TypeOK, CallsInv, TriesInv, NEW c \in Calls, NEW k \in Attempts, Handle(c, k),
         (call[c] = "sent" /\ k = tries[c]) \/ <<c, k>> \in late
  PROVE  /\ c # Start => mine # 0
         /\ c = Start => k # mine
<1>1. call[c] # "idle"
  BY DEF TriesInv
<1>2. c # Start => mine # 0
  BY <1>1 DEF CallsInv
<1>3. ASSUME c = Start PROVE k # mine
  <2>1. CASE mine = 0
    BY <2>1 DEF Attempts
  <2>2. CASE mine # 0
    <3>1. call[c] = "ok" /\ mine = tries[c]
      BY <1>3, <2>2 DEF CallsInv
    <3>2. k < tries[c] /\ k \in Nat /\ tries[c] \in Nat
      BY <3>1, SharingAssumption DEF TriesInv, TypeOK, Attempts
    <3> QED
      BY <3>1, <3>2
  <2> QED
    BY <2>1, <2>2
<1> QED
  BY <1>2, <1>3

\* What the server and the network do in a step of a request.
LEMMA RequestServer ==
  ASSUME TypeOK, CallsInv, TriesInv, NEW c \in Calls, Request(c)
  PROVE  /\ session' \in [Attempts -> {"none", "pending", "completed", "aborted"}]
         /\ stored' \subseteq Parts /\ stored \subseteq stored'
         /\ late' \subseteq Calls \X Attempts
         /\ losses' \in 0 .. MaxLosses
<1>0. call[c] = "sent" /\ tries[c] \in Attempts
  BY RequestFacts
<1>1. ASSUME Handle(c, tries[c])
      PROVE  /\ session' \in [Attempts -> {"none", "pending", "completed", "aborted"}]
             /\ stored' \subseteq Parts /\ stored \subseteq stored'
  BY <1>0, <1>1, HandledFacts, HandleFacts
<1>2. /\ session' \in [Attempts -> {"none", "pending", "completed", "aborted"}]
      /\ stored' \subseteq Parts /\ stored \subseteq stored'
  <2>1. CASE Answer(c) \/ LoseBody(c)
    BY <1>1, <2>1 DEF Answer, LoseBody
  <2>2. CASE Lose(c) \/ GiveUp(c)
    BY <2>2 DEF Lose, GiveUp, server, TypeOK
  <2>3. CASE \E k \in Attempts : Overlap(c, k)
    BY <2>3 DEF Overlap, TypeOK
  <2> QED
    BY <2>1, <2>2, <2>3 DEF Request
<1>3. late' \subseteq Calls \X Attempts
  BY <1>0, LateFacts DEF TypeOK
<1>4. UNCHANGED losses \/ (losses < MaxLosses /\ losses' = losses + 1)
  BY DEF Request, Answer, LoseBody, Lose, GiveUp, Overlap
<1>5. losses' \in 0 .. MaxLosses
  BY <1>4, SharingAssumption DEF TypeOK
<1> QED
  BY <1>2, <1>3, <1>5

\* Every step keeps the types.
LEMMA TypeStep == TypeOK /\ ShareInv /\ CallsInv /\ TriesInv /\ [Next]_vars => TypeOK'
<1> SUFFICES ASSUME TypeOK, ShareInv, CallsInv, TriesInv, [Next]_vars PROVE TypeOK'
  OBVIOUS
<1> USE DEF Answers
<1>1. ASSUME NEW c \in Calls, Request(c) PROVE TypeOK'
  <2>1. mine' \in Attempts \cup {0}
    BY <1>1, RequestFacts DEF TypeOK
  <2> QED
    BY <1>1, <2>1, RequestFacts, RequestServer DEF TypeOK
<1>2. ASSUME NEW c \in Calls, NEW k \in Attempts, ArriveLate(c, k) PROVE TypeOK'
  <2>1. /\ Handle(c, k) /\ <<c, k>> \in late /\ late' \subseteq late
        /\ UNCHANGED <<pc, next, mine, interrupted, readFailed, call, tries, losses>>
    BY <1>2 DEF ArriveLate, client
  <2>2. /\ session' \in [Attempts -> {"none", "pending", "completed", "aborted"}]
        /\ stored' \subseteq Parts
    BY <2>1, HandledFacts, HandleFacts
  <2> QED
    BY <2>1, <2>2 DEF TypeOK
<1>3. ASSUME NEW k \in Attempts, ExpireUpload(k) PROVE TypeOK'
  BY <1>3 DEF ExpireUpload, client, TypeOK
<1>4. CASE Interrupt
  BY <1>4 DEF Interrupt, server, TypeOK
<1>5. ASSUME NEW step \in Places, Goto(step), Main, UNCHANGED <<call, tries>> PROVE TypeOK'
  BY <1>5, MainFacts DEF TypeOK, Places
<1>6. CASE RefuseParams \/ Started \/ Fill \/ Break \/ Wait \/ Completed \/ Aborted
  <2>1. (\E step \in Places : Goto(step)) /\ Main /\ UNCHANGED <<call, tries>>
    BY <1>6 DEF RefuseParams, Started, Fill, Break, Wait, Completed, Aborted, Places
  <2> QED
    BY <1>5, <2>1
<1>7. ASSUME NEW c \in Calls, Send(c), UNCHANGED client PROVE TypeOK'
  BY <1>7, SendFacts DEF TypeOK, client
<1>8. CASE StartUpload \/ CompleteUpload \/ AbortUpload
  BY <1>7, <1>8, CallNumbers DEF StartUpload, CompleteUpload, AbortUpload
<1>9. CASE FailToRead
  <2>1. readFailed' \in BOOLEAN
    BY <1>9 DEF FailToRead
  <2> QED
    BY <1>9, <2>1 DEF FailToRead, Main, server, TypeOK
<1>10. CASE Flush
  <2>1. next \in Parts /\ Send(next) /\ UNCHANGED <<mine, interrupted, readFailed>>
        /\ next' = next + 1 /\ pc' \in {"wait", "fill"}
    BY <1>10 DEF Flush, ShareInv
  <2>2. next \in Calls /\ next' \in 1 .. NumParts + 1
    BY <2>1, CallNumbers, SharingAssumption DEF Parts
  <2> QED
    BY <2>1, <2>2, SendFacts DEF TypeOK
<1>11. CASE UNCHANGED vars
  BY <1>11 DEF vars, client, server, TypeOK
<1> QED
  BY <1>1, <1>2, <1>3, <1>4, <1>6, <1>8, <1>9, <1>10, <1>11 DEF Next, Share

\* What a step that is not one of the main goroutine leaves of it.
LEMMA OthersFacts ==
  ASSUME TypeOK, TriesInv, [Next]_vars, ~Share, ~\E c \in Calls : Request(c)
  PROVE  UNCHANGED <<pc, next, mine, readFailed, call, tries>>
BY DEF Next, ArriveLate, ExpireUpload, Interrupt, vars, client

\* Every step keeps the order of Share.
LEMMA ShareStep == TypeOK /\ ShareInv /\ CallsInv /\ TriesInv /\ [Next]_vars => ShareInv'
<1> SUFFICES ASSUME TypeOK, ShareInv, CallsInv, TriesInv, [Next]_vars PROVE ShareInv'
  OBVIOUS
<1> USE CallNumbers
<1>1. ASSUME NEW c \in Calls, Request(c) PROVE ShareInv'
  <2>1. /\ call[c] = "sent" /\ UNCHANGED <<pc, next>>
        /\ call'[c] # "idle" /\ \A d \in Calls : d # c => call'[d] = call[d]
    BY <1>1, RequestFacts
  <2>2. mine # 0 => mine' # 0
    BY <1>1, RequestFacts DEF Attempts
  <2>3. \A n \in Parts : call'[n] = "idle" <=> next' <= n
    BY <2>1 DEF ShareInv
  <2>4. pc' \in {"complete", "shared"} \/ call'[Complete] # "idle"
          => \A n \in Parts : call'[n] = "ok"
    BY <2>1 DEF ShareInv
  <2>5. pc' = "failed" /\ mine' # 0 => Settled(Abort)'
    <3>1. pc = "failed" => mine' = mine
      BY <1>1, <2>1, RequestFacts DEF CallsInv
    <3> QED
      BY <2>1, <3>1 DEF ShareInv, Settled
  <2> QED
    BY <2>1, <2>2, <2>3, <2>4, <2>5 DEF ShareInv
<1>2. CASE UNCHANGED <<pc, next, mine, call>>
  BY <1>2 DEF ShareInv, Settled
<1>3. CASE ~Share /\ ~\E c \in Calls : Request(c)
  BY <1>2, <1>3, OthersFacts
<1>4. CASE RefuseParams
  BY <1>4, MainFacts DEF RefuseParams, ShareInv, CallsInv, Settled
<1>5. CASE Started
  BY <1>5, MainFacts DEF Started, ShareInv, CallsInv, Settled
<1>6. CASE Fill
  BY <1>6, MainFacts DEF Fill, ShareInv, Settled
<1>7. CASE FailToRead
  BY <1>7 DEF FailToRead, ShareInv, Settled
<1>8. CASE Flush
  <2>1. /\ next \in Parts /\ Send(next) /\ UNCHANGED mine
        /\ next' = next + 1 /\ pc' = (IF next = NumParts THEN "wait" ELSE "fill")
        /\ pc = "flush"
    BY <1>8 DEF Flush, ShareInv
  <2>2. /\ call'[next] # "idle" /\ next \in Calls
        /\ \A d \in Calls : d # next => call'[d] = call[d]
    BY <2>1, SendFacts
  <2>3. next \in Nat /\ NumParts \in Nat /\ next <= NumParts /\ \A n \in Parts : n \in Nat
    BY <2>1, SharingAssumption DEF Parts
  <2>4. \A n \in Parts : call'[n] = "idle" <=> next' <= n
    BY <2>1, <2>2, <2>3 DEF ShareInv
  <2>5. (pc' = "fill" /\ next' \in Parts) \/ (pc' = "wait" /\ next' = NumParts + 1)
    <3>1. CASE next = NumParts
      BY <2>1, <3>1
    <3>2. CASE next # NumParts
      BY <2>1, <3>2, NextPart
    <3> QED
      BY <3>1, <3>2
  <2>6. call[Complete] = "idle" /\ call'[Complete] = "idle"
    <3>1. call[next] = "idle"
      BY <2>1, SendFacts
    <3> QED
      BY <2>1, <2>2, <3>1 DEF ShareInv
  <2> QED
    BY <2>1, <2>4, <2>5, <2>6 DEF ShareInv
<1>9. CASE Break
  BY <1>9, MainFacts DEF Break, ShareInv, Settled
<1>10. CASE Wait
  <2>1. pc = "wait" /\ InFlight = {} /\ next = NumParts + 1
        /\ pc' = (IF \E n \in Parts : Failed(n) THEN "abort" ELSE "complete")
        /\ UNCHANGED <<next, mine, call>>
    BY <1>10, MainFacts DEF Wait, ShareInv
  <2>2. \A n \in Parts : call[n] # "idle"
    BY <2>1, SharingAssumption DEF ShareInv, Parts
  <2>3. pc' = "complete" => \A n \in Parts : call[n] = "ok"
    BY <2>1, <2>2 DEF Failed, InFlight, TypeOK
  <2> QED
    BY <2>1, <2>3 DEF ShareInv, Settled
<1>11. CASE Completed
  BY <1>11, MainFacts DEF Completed, ShareInv, Settled
<1>12. CASE Aborted
  BY <1>12, MainFacts DEF Aborted, ShareInv, Settled
<1>13. ASSUME NEW c \in {Start, Complete, Abort}, Send(c), UNCHANGED client,
              c = Complete => pc = "complete", pc # "failed", pc # "shared"
       PROVE  ShareInv'
  <2>1. /\ UNCHANGED <<pc, next, mine>> /\ call[c] = "idle" /\ c \in Calls
        /\ \A d \in Calls : d # c => call'[d] = call[d]
    BY <1>13, SendFacts DEF client
  <2> QED
    BY <1>13, <2>1 DEF ShareInv, Settled
<1>14. CASE StartUpload \/ CompleteUpload \/ AbortUpload
  BY <1>13, <1>14 DEF StartUpload, CompleteUpload, AbortUpload
<1> QED
  BY <1>1, <1>3, <1>4, <1>5, <1>6, <1>7, <1>8, <1>9, <1>10, <1>11, <1>12, <1>14 DEF Share

\* Every step keeps who is waited for.
LEMMA CallsStep == TypeOK /\ ShareInv /\ CallsInv /\ TriesInv /\ [Next]_vars => CallsInv'
<1> SUFFICES ASSUME TypeOK, ShareInv, CallsInv, TriesInv, [Next]_vars PROVE CallsInv'
  OBVIOUS
<1> USE CallNumbers
<1>1. ASSUME NEW c \in Calls, Request(c) PROVE CallsInv'
  <2>1. /\ call[c] = "sent" /\ UNCHANGED pc
        /\ call'[c] # "idle" /\ \A d \in Calls : d # c => call'[d] = call[d] /\ tries'[d] = tries[d]
    BY <1>1, RequestFacts
  <2>2. CASE c = Start
    <3>1. mine = 0 /\ pc = "start"
      BY <2>1, <2>2 DEF CallsInv
    <3>2. \A d \in Calls \ {Start} : call'[d] = "idle"
      BY <2>1, <2>2, <3>1 DEF CallsInv
    <3>3. mine' # 0 <=> call'[Start] = "ok"
      BY <1>1, <2>2, <3>1, RequestFacts DEF Attempts
    <3>4. mine' # 0 => mine' = tries'[Start]
      BY <1>1, <2>2, <3>1, RequestFacts
    <3> QED
      BY <2>1, <3>1, <3>2, <3>3, <3>4 DEF CallsInv
  <2>3. CASE c # Start
    <3>1. mine' = mine /\ call'[Start] = call[Start] /\ tries'[Start] = tries[Start]
      BY <1>1, <2>1, <2>3, RequestFacts
    <3> QED
      BY <2>1, <2>3, <3>1 DEF CallsInv
  <2> QED
    BY <2>2, <2>3
<1>2. CASE UNCHANGED <<pc, mine, call, tries>>
  BY <1>2 DEF CallsInv
<1>3. CASE ~Share /\ ~\E c \in Calls : Request(c)
  BY <1>2, <1>3, OthersFacts
<1>4. CASE RefuseParams \/ Started \/ Fill \/ Break \/ Wait \/ Aborted
  <2>1. \E step : Goto(step) /\ Main /\ UNCHANGED <<call, tries>>
    BY <1>4 DEF RefuseParams, Started, Fill, Break, Wait, Aborted
  <2>2. UNCHANGED <<mine, call, tries>>
    BY <2>1, MainFacts
  <2>3. call[Start] # "sent" /\ call[Complete] # "sent" /\ call[Complete] # "ok"
    BY <1>4 DEF RefuseParams, Started, Fill, Break, Wait, Aborted, Settled, CallsInv
  <2> QED
    BY <2>2, <2>3 DEF CallsInv
<1>5. CASE FailToRead
  BY <1>5 DEF FailToRead, CallsInv
<1>6. CASE Flush
  <2>1. /\ pc = "flush" /\ next \in Parts /\ Send(next) /\ UNCHANGED mine /\ mine # 0
    BY <1>6 DEF Flush, ShareInv
  <2>2. \A d \in Calls : d # next => call'[d] = call[d] /\ tries'[d] = tries[d]
    BY <2>1, SendFacts
  <2> QED
    BY <2>1, <2>2 DEF CallsInv
<1>7. CASE Completed
  <2>1. /\ pc = "complete" /\ Settled(Complete) /\ UNCHANGED <<mine, call, tries>>
        /\ pc' = (IF call[Complete] = "ok" THEN "shared" ELSE "abort")
    BY <1>7, MainFacts DEF Completed
  <2> QED
    BY <2>1 DEF CallsInv, Settled
<1>8. CASE StartUpload
  <2>1. /\ pc = "start" /\ UNCHANGED <<pc, mine>> /\ call[Start] = "idle"
        /\ call'[Start] \in {"error", "sent"}
        /\ \A d \in Calls : d # Start => call'[d] = call[d]
    BY <1>8, SendFacts DEF StartUpload, client
  <2> QED
    BY <2>1 DEF CallsInv
<1>9. CASE CompleteUpload \/ AbortUpload
  <2>1. PICK c \in {Complete, Abort} : Send(c) /\ UNCHANGED client
                                       /\ (c = Complete => pc = "complete") /\ mine # 0
    BY <1>9 DEF CompleteUpload, AbortUpload, ShareInv
  <2>2. /\ UNCHANGED <<pc, mine>> /\ call'[c] \in {"error", "sent"}
        /\ \A d \in Calls : d # c => call'[d] = call[d] /\ tries'[d] = tries[d]
    BY <2>1, SendFacts DEF client
  <2> QED
    BY <2>1, <2>2 DEF CallsInv
<1> QED
  BY <1>1, <1>3, <1>4, <1>5, <1>6, <1>7, <1>8, <1>9 DEF Share

\* Every step keeps the attempts that were given up older than the one waited for.
LEMMA TriesStep == TypeOK /\ ShareInv /\ TriesInv /\ [Next]_vars => TriesInv'
<1> SUFFICES ASSUME TypeOK, ShareInv, TriesInv, [Next]_vars PROVE TriesInv'
  OBVIOUS
<1> USE CallNumbers
<1>0. \A c \in Calls : tries[c] \in Nat
  BY DEF TypeOK
<1>1. ASSUME NEW c \in Calls, Request(c) PROVE TriesInv'
  <2>1. /\ call[c] = "sent" /\ call'[c] # "idle" /\ tries[c] > 0
        /\ \A d \in Calls : d # c => call'[d] = call[d] /\ tries'[d] = tries[d]
        /\ tries'[c] = tries[c] \/ tries'[c] = tries[c] + 1
    BY <1>1, RequestFacts DEF TriesInv
  <2>2. /\ late' \subseteq late \cup {<<c, tries[c]>>}
        /\ call'[c] = "ok" => late' \subseteq late
        /\ call'[c] = "sent" => tries'[c] = tries[c] + 1
    BY <1>1, LateFacts
  <2>3. tries'[c] > 0
    BY <1>0, <2>1
  <2>4. \A d \in Calls : call'[d] = "sent" => tries'[d] > 0
    BY <2>1, <2>3 DEF TriesInv
  <2>5. ASSUME NEW d \in Calls, NEW k \in Attempts, <<d, k>> \in late'
        PROVE  /\ call'[d] # "idle" /\ k <= tries'[d]
               /\ call'[d] \in {"sent", "ok"} => k < tries'[d]
    <3>0. k \in Nat
      BY SharingAssumption DEF Attempts
    <3>1. CASE d # c
      <4>1. <<d, k>> \in late
        BY <2>2, <2>5, <3>1
      <4> QED
        BY <2>1, <3>1, <4>1 DEF TriesInv
    <3>2. CASE d = c /\ <<c, k>> \in late
      <4>1. k < tries[c]
        BY <2>1, <3>2 DEF TriesInv
      <4>2. k < tries'[c]
        BY <1>0, <2>1, <3>0, <4>1
      <4> QED
        BY <1>0, <2>1, <3>0, <3>2, <4>2
    <3>3. CASE d = c /\ <<c, k>> \notin late
      <4>1. k = tries[c] /\ call'[c] # "ok"
        BY <2>2, <2>5, <3>3
      <4> QED
        BY <1>0, <2>1, <2>2, <3>3, <4>1
    <3> QED
      BY <3>1, <3>2, <3>3
  <2>6. call'[Abort] # "idle" => tries'[Abort] > 0
    BY <2>1, <2>3 DEF TriesInv
  <2> QED
    BY <2>4, <2>5, <2>6 DEF TriesInv
<1>2. CASE UNCHANGED <<call, tries>> /\ late' \subseteq late
  BY <1>2 DEF TriesInv
<1>3. ASSUME NEW c \in Calls, Send(c) PROVE TriesInv'
  <2>1. /\ call[c] = "idle" /\ UNCHANGED late
        /\ \A d \in Calls : d # c => call'[d] = call[d] /\ tries'[d] = tries[d]
        /\ \/ call'[c] = "error" /\ Cancelled(c)
           \/ call'[c] = "sent" /\ tries'[c] = 1
    BY <1>3, SendFacts
  <2>2. \A k \in Attempts : <<c, k>> \notin late
    BY <2>1 DEF TriesInv
  <2>3. ~Cancelled(Abort)
    BY DEF Cancelled
  <2> QED
    BY <2>1, <2>2, <2>3 DEF TriesInv
<1>4. CASE ~Share /\ ~\E c \in Calls : Request(c)
  <2>1. late' \subseteq late
    BY <1>4 DEF Next, ArriveLate, ExpireUpload, Interrupt, vars
  <2> QED
    BY <1>2, <1>4, <2>1, OthersFacts
<1>5. CASE Share
  <2>1. (UNCHANGED <<call, tries>> /\ Main) \/ \E c \in Calls : Send(c)
    BY <1>5 DEF Share, RefuseParams, StartUpload, Started, Fill, FailToRead, Flush, Break, Wait,
       CompleteUpload, Completed, AbortUpload, Aborted, ShareInv
  <2> QED
    BY <1>2, <1>3, <2>1 DEF Main
<1> QED
  BY <1>1, <1>4, <1>5

\* What a request that reaches the server leaves true of the session, apart from
\* the answer it brings.
LEMMA HandledSession ==
  ASSUME TypeOK, CallsInv, TriesInv, SessionInv, NEW c \in Calls, NEW k \in Attempts, Handle(c, k),
         (call[c] = "sent" /\ k = tries[c]) \/ <<c, k>> \in late
  PROVE  /\ stored \subseteq stored'
         /\ mine # 0 =>
              /\ session'[mine] # "none"
              /\ session'[mine] = "completed" => call[Complete] # "idle" /\ tries[Complete] > 0
              /\ session[mine] \in {"completed", "aborted"} => session'[mine] = session[mine]
<1>1. c # Start => mine # 0
  BY HandledFacts
<1>2. c = Start => k # mine
  BY HandledFacts
<1>3. /\ stored \subseteq stored'
      /\ mine # 0 =>
           /\ session[mine] \in {"completed", "aborted"} => session'[mine] = session[mine]
           /\ session[mine] # "none" => session'[mine] # "none"
           /\ session'[mine] = "completed" => session[mine] = "completed" \/ c = Complete
  BY <1>1, <1>2, HandleFacts
<1>4. call[c] # "idle" /\ tries[c] > 0
  BY SharingAssumption DEF TriesInv, TypeOK, Attempts
<1> QED
  BY <1>3, <1>4 DEF SessionInv

\* A session whose end was final keeps what the answers say of it.
LEMMA SessionStays ==
  ASSUME SessionInv, UNCHANGED <<mine, tries, call>>,
         stored \subseteq stored',
         mine # 0 =>
           /\ session'[mine] # "none"
           /\ session'[mine] = "completed" => call[Complete] # "idle" /\ tries[Complete] > 0
           /\ session[mine] \in {"completed", "aborted"} => session'[mine] = session[mine],
         \A c \in {Complete, Abort} : call[c] # "idle" => mine # 0
  PROVE  SessionInv'
BY DEF SessionInv

\* An answer says what has become of the session.
LEMMA AnswerKeepsSession ==
  ASSUME TypeOK, ShareInv, CallsInv, TriesInv, SessionInv, NEW c \in Calls, Answer(c)
  PROVE  SessionInv'
<1> USE CallNumbers
<1>0. Request(c) /\ Handle(c, tries[c]) /\ call[c] = "sent" /\ UNCHANGED tries
  BY DEF Request, Answer
<1>1. tries[c] \in Attempts /\ tries[c] > 0
  BY <1>0, RequestFacts DEF TriesInv
<1>2. /\ call'[c] = IF Accepts(c) THEN "ok" ELSE "refused"
      /\ \A d \in Calls : d # c => call'[d] = call[d]
  <2>1. CASE Accepts(c)
    BY <2>1, Resulted DEF Answer
  <2>2. CASE ~Accepts(c)
    BY <2>2, Resulted DEF Answer
  <2> QED
    BY <2>1, <2>2
<1>3. /\ stored \subseteq stored'
      /\ mine # 0 =>
           /\ session'[mine] # "none"
           /\ session'[mine] = "completed" => call[Complete] # "idle" /\ tries[Complete] > 0
           /\ session[mine] \in {"completed", "aborted"} => session'[mine] = session[mine]
  BY <1>0, <1>1, HandledSession
<1>4. (c # Start => mine # 0) /\ (c = Start => tries[c] # mine)
  BY <1>0, <1>1, HandledFacts
<1>5. CASE c = Start
  <2>1. mine = 0 /\ \A d \in Calls : d # c => call'[d] = "idle"
    BY <1>0, <1>2, <1>5 DEF CallsInv
  <2>2. Accepts(c) => session'[tries[c]] = "pending" /\ mine' = tries[c]
    BY <1>0, <1>1, <1>4, <1>5, HandleFacts DEF Answer
  <2>3. ~Accepts(c) => mine' = 0
    BY <2>1 DEF Answer
  <2> QED
    BY <1>5, <2>1, <2>2, <2>3 DEF SessionInv
<1>6. CASE c \in Parts
  <2>1. UNCHANGED mine /\ (Accepts(c) => c \in stored')
    BY <1>0, <1>1, <1>4, <1>6, HandleFacts DEF Answer
  <2>2. \A n \in Parts : call'[n] = "ok" => n \in stored'
    BY <1>2, <1>3, <2>1 DEF SessionInv
  <2>3. call'[Complete] = call[Complete] /\ call'[Abort] = call[Abort]
    BY <1>2, <1>6
  <2> QED
    BY <1>0, <1>3, <1>4, <1>6, <2>1, <2>2, <2>3 DEF SessionInv
<1>7. CASE c = Complete
  <2>1. stored = Parts /\ UNCHANGED mine
    <3>1. \A n \in Parts : n \in stored
      BY <1>0, <1>7 DEF ShareInv, SessionInv
    <3> QED
      BY <1>7, <3>1 DEF TypeOK, Answer
  <2>2. /\ Accepts(c) => session'[mine] = "completed"
        /\ ~Accepts(c) => session'[mine] = "aborted"
    BY <1>0, <1>1, <1>4, <1>7, <2>1, HandleFacts DEF SessionInv
  <2>3. call'[Abort] = call[Abort] /\ \A n \in Parts : call'[n] = call[n]
    BY <1>2, <1>7
  <2> QED
    BY <1>0, <1>1, <1>2, <1>3, <1>4, <1>7, <2>1, <2>2, <2>3 DEF SessionInv
<1>8. CASE c = Abort
  <2>1. UNCHANGED mine
    BY <1>8 DEF Answer
  <2>2. /\ Accepts(c) => session'[mine] = "aborted"
        /\ ~Accepts(c) => session'[mine] = "completed"
    BY <1>0, <1>1, <1>4, <1>8, HandleFacts DEF SessionInv
  <2>3. call'[Complete] = call[Complete] /\ \A n \in Parts : call'[n] = call[n]
    BY <1>2, <1>8
  <2> QED
    BY <1>0, <1>1, <1>2, <1>3, <1>4, <1>8, <2>1, <2>2, <2>3 DEF SessionInv
<1> QED
  BY <1>5, <1>6, <1>7, <1>8

\* Every step keeps what the answers say of the session.
LEMMA SessionStep ==
  TypeOK /\ ShareInv /\ CallsInv /\ TriesInv /\ SessionInv /\ [Next]_vars => SessionInv'
<1> SUFFICES ASSUME TypeOK, ShareInv, CallsInv, TriesInv, SessionInv, [Next]_vars PROVE SessionInv'
  OBVIOUS
<1> USE CallNumbers
<1>1. ASSUME NEW c \in Calls, Answer(c) PROVE SessionInv'
  BY <1>1, AnswerKeepsSession
\* The request fails, whatever the server made of it.
<1>2. ASSUME NEW c \in Calls, Request(c),
             call'[c] \in {"sent", "error"} \/ (c \in Parts /\ call'[c] = "refused"),
             UNCHANGED mine, stored \subseteq stored',
             mine # 0 =>
               /\ session'[mine] # "none"
               /\ session'[mine] = "completed" => call[Complete] # "idle" /\ tries[Complete] > 0
               /\ session[mine] \in {"completed", "aborted"} => session'[mine] = session[mine]
      PROVE  SessionInv'
  <2>1. /\ call[c] = "sent" /\ call'[c] # "idle" /\ tries[c] > 0
        /\ \A d \in Calls : d # c => call'[d] = call[d] /\ tries'[d] = tries[d]
        /\ tries'[c] = tries[c] \/ tries'[c] = tries[c] + 1
    BY <1>2, RequestFacts DEF TriesInv
  <2>2. tries'[c] > 0
    BY <2>1 DEF TypeOK
  <2>3. \A d \in {Complete, Abort} : call[d] # "idle" => mine # 0
    BY DEF CallsInv
  <2>4. \A n \in Parts : call'[n] = "ok" => n \in stored'
    BY <1>2, <2>1 DEF SessionInv
  <2>5. \A d \in {Complete, Abort} : call'[d] \in {"ok", "refused"} => call'[d] = call[d]
    BY <1>2, <2>1
  <2>6. mine # 0 /\ session'[mine] = "completed" => call'[Complete] # "idle" /\ tries'[Complete] > 0
    BY <1>2, <2>1, <2>2
  <2> QED
    BY <1>2, <2>3, <2>4, <2>5, <2>6 DEF SessionInv
<1>3. ASSUME NEW c \in Calls, LoseBody(c) PROVE SessionInv'
  <2>1. Request(c) /\ Handle(c, tries[c]) /\ call[c] = "sent" /\ UNCHANGED mine /\ tries[c] \in Attempts
    BY <1>3, RequestFacts DEF Request, LoseBody, client
  <2>2. call'[c] = "error"
    BY <1>3, Resulted DEF LoseBody
  <2>3. /\ stored \subseteq stored'
        /\ mine # 0 =>
             /\ session'[mine] # "none"
             /\ session'[mine] = "completed" => call[Complete] # "idle" /\ tries[Complete] > 0
             /\ session[mine] \in {"completed", "aborted"} => session'[mine] = session[mine]
    BY <2>1, HandledSession
  <2> QED
    BY <1>2, <2>1, <2>2, <2>3
<1>4. ASSUME NEW c \in Calls, Lose(c) \/ GiveUp(c) PROVE SessionInv'
  <2>1. Request(c) /\ UNCHANGED <<mine, session, stored>>
    BY <1>4 DEF Request, Lose, GiveUp, client, server
  <2>2. call'[c] \in {"sent", "error"}
    BY <1>4, Resulted DEF Lose, GiveUp
  <2> QED
    BY <1>2, <2>1, <2>2 DEF SessionInv
<1>5. ASSUME NEW c \in Calls, NEW k \in Attempts, Overlap(c, k) PROVE SessionInv'
  <2>1. Request(c) /\ UNCHANGED <<mine, session>> /\ stored \subseteq stored' /\ c \in Parts
    BY <1>5 DEF Request, Overlap, client
  <2>2. call'[c] = "refused"
    BY <1>5, Resulted DEF Overlap
  <2> QED
    BY <1>2, <2>1, <2>2 DEF SessionInv
<1>6. \A c \in {Complete, Abort} : call[c] # "idle" => mine # 0
  BY DEF CallsInv
<1>7. ASSUME NEW c \in Calls, NEW k \in Attempts, ArriveLate(c, k) PROVE SessionInv'
  <2>1. Handle(c, k) /\ <<c, k>> \in late /\ UNCHANGED <<mine, tries, call>>
    BY <1>7 DEF ArriveLate, client
  <2> QED
    BY <1>6, <2>1, HandledSession, SessionStays
<1>8. ASSUME NEW k \in Attempts, ExpireUpload(k) PROVE SessionInv'
  <2>1. UNCHANGED <<mine, tries, call>> /\ stored \subseteq stored'
    BY <1>8 DEF ExpireUpload, client
  <2>2. mine # 0 =>
          /\ session'[mine] # "none"
          /\ session'[mine] = "completed" => call[Complete] # "idle" /\ tries[Complete] > 0
          /\ session[mine] \in {"completed", "aborted"} => session'[mine] = session[mine]
    BY <1>8 DEF ExpireUpload, TypeOK, SessionInv
  <2> QED
    BY <1>6, <2>1, <2>2, SessionStays
<1>9. CASE UNCHANGED <<mine, call, tries, session, stored>>
  BY <1>9 DEF SessionInv
<1>10. CASE Interrupt \/ UNCHANGED vars
  BY <1>9, <1>10 DEF Interrupt, vars, client, server
<1>11. ASSUME NEW c \in Calls, Send(c), UNCHANGED mine PROVE SessionInv'
  <2>1. /\ call[c] = "idle" /\ UNCHANGED <<session, stored>> /\ call'[c] \in {"sent", "error"}
        /\ \A d \in Calls : d # c => call'[d] = call[d] /\ tries'[d] = tries[d]
    BY <1>11, SendFacts
  <2> QED
    BY <1>11, <2>1 DEF SessionInv
<1>12. CASE Share
  <2>1. UNCHANGED mine /\ ((UNCHANGED <<call, tries>> /\ Main) \/ \E c \in Calls : Send(c))
    BY <1>12 DEF Share, RefuseParams, StartUpload, Started, Fill, FailToRead, Flush, Break, Wait,
       CompleteUpload, Completed, AbortUpload, Aborted, ShareInv, Goto, client
  <2> QED
    BY <1>9, <1>11, <2>1 DEF Main, server
<1> QED
  BY <1>1, <1>3, <1>4, <1>5, <1>7, <1>8, <1>10, <1>12 DEF Next, Request

\* Every step keeps Share quiet at its end: parts are sent only from its loop,
\* and the loop is left for good with none of them under way.
LEMMA QuietStep ==
  TypeOK /\ ShareInv /\ TriesInv /\ QuietAtTheEnd /\ [Next]_vars => QuietAtTheEnd'
<1> SUFFICES ASSUME TypeOK, ShareInv, TriesInv, QuietAtTheEnd, [Next]_vars PROVE QuietAtTheEnd'
  OBVIOUS
<1> USE CallNumbers DEF QuietAtTheEnd, InFlight
<1>1. ASSUME NEW c \in Calls, Request(c) PROVE QuietAtTheEnd'
  <2>1. /\ call[c] = "sent" /\ UNCHANGED <<pc, readFailed>>
        /\ \A d \in Calls : d # c => call'[d] = call[d]
    BY <1>1, RequestFacts
  <2> QED
    BY <2>1
<1>2. CASE ~Share /\ ~\E c \in Calls : Request(c)
  BY <1>2, OthersFacts
<1>3. CASE RefuseParams \/ Started
  <2>1. pc = "start" /\ UNCHANGED <<call, readFailed>>
    BY <1>3, MainFacts DEF RefuseParams, Started
  <2>2. next = 1 /\ \A n \in Parts : 1 <= n
    BY <2>1 DEF ShareInv, Parts
  <2>3. \A n \in Parts : call[n] = "idle"
    BY <2>2 DEF ShareInv
  <2> QED
    BY <2>1, <2>3
<1>4. CASE Fill \/ FailToRead
  BY <1>4, MainFacts DEF Fill, FailToRead
<1>5. CASE Flush
  BY <1>5 DEF Flush
<1>6. CASE Break \/ Wait
  <2>1. InFlight = {} /\ UNCHANGED call
    BY <1>6 DEF Break, Wait
  <2> QED
    BY <2>1
<1>7. CASE Completed \/ Aborted
  BY <1>7, MainFacts DEF Completed, Aborted
<1>8. ASSUME NEW c \in {Start, Complete, Abort}, Send(c), UNCHANGED client PROVE QuietAtTheEnd'
  <2>1. \A n \in Parts : call'[n] = call[n]
    BY <1>8, SendFacts
  <2> QED
    BY <1>8, <2>1 DEF client
<1>9. CASE StartUpload \/ CompleteUpload \/ AbortUpload
  BY <1>8, <1>9 DEF StartUpload, CompleteUpload, AbortUpload
<1> QED
  BY <1>1, <1>2, <1>3, <1>4, <1>5, <1>6, <1>7, <1>9 DEF Share

-----------------------------------------------------------------------------
(* The theorems.                                                            *)

\* The invariant holds when Share is called.
LEMMA SharingInit == Init => SharingInv
<1> SUFFICES ASSUME Init PROVE SharingInv
  OBVIOUS
<1> USE CallNumbers DEF Init
<1>1. TypeOK
  <2>1. 1 \in 1 .. NumParts + 1 /\ 0 \in 0 .. MaxTransientAttempts /\ 0 \in 0 .. MaxLosses
    BY SharingAssumption
  <2> QED
    BY <2>1 DEF TypeOK
<1>2. ShareInv
  <2>1. 1 \in Parts /\ \A n \in Parts : 1 <= n
    BY SharingAssumption DEF Parts
  <2> QED
    BY <2>1 DEF ShareInv
<1>3. CallsInv /\ TriesInv /\ SessionInv
  BY DEF CallsInv, TriesInv, SessionInv
<1>4. QuietAtTheEnd
  BY DEF QuietAtTheEnd
<1> QED
  BY <1>1, <1>2, <1>3, <1>4 DEF SharingInv

\* And in every state after it.
LEMMA SharingAlways == Spec => []SharingInv
<1>1. SharingInv /\ [Next]_vars => SharingInv'
  BY TypeStep, ShareStep, CallsStep, TriesStep, SessionStep, QuietStep DEF SharingInv
<1> QED
  BY <1>1, SharingInit, PTL DEF Spec

(***************************************************************************)
(* When Share returns links the server has published the whole bundle,     *)
(* whatever was lost, retried or arrived late on the way.                  *)
(***************************************************************************)
THEOREM LinksMeanPublished == Spec => []SharedIsWhole
<1>1. SharingInv => SharedIsWhole
  BY DEF SharingInv, ShareInv, SessionInv, SharedIsWhole, TypeOK
<1> QED
  BY <1>1, SharingAlways, PTL

(***************************************************************************)
(* A Share that failed with a session in hand has tried to abort it: the   *)
(* session is open only if the abort was not answered, and published only  *)
(* if the completion was asked for and its answer never seen.              *)
(***************************************************************************)
THEOREM FailureReleases == Spec => []FailedIsReleased
<1>1. SharingInv => FailedIsReleased
  <2> SUFFICES ASSUME SharingInv, pc = "failed", mine # 0
               PROVE  /\ tries[Abort] > 0
                      /\ session[mine] = "pending" => call[Abort] = "error"
                      /\ session[mine] = "completed" => call[Complete] = "error" /\ tries[Complete] > 0
    BY DEF FailedIsReleased
  <2>1. Settled(Abort)
    BY DEF SharingInv, ShareInv
  <2>2. tries[Abort] > 0
    BY <2>1 DEF SharingInv, TriesInv, Settled
  <2>3. session[mine] = "pending" => call[Abort] = "error"
    BY <2>1 DEF SharingInv, SessionInv, Settled
  <2>4. ASSUME session[mine] = "completed" PROVE call[Complete] = "error" /\ tries[Complete] > 0
    <3>1. call[Complete] # "idle" /\ call[Complete] # "refused" /\ tries[Complete] > 0
      BY <2>4 DEF SharingInv, SessionInv
    <3>2. call[Complete] # "sent" /\ call[Complete] # "ok"
      BY DEF SharingInv, CallsInv
    <3> QED
      BY <3>1, <3>2, CallNumbers DEF SharingInv, TypeOK
  <2> QED
    BY <2>2, <2>3, <2>4
<1> QED
  BY <1>1, SharingAlways, PTL

(***************************************************************************)
(* No part is being sent, and none will be tried again, once Share aborts, *)
(* completes or returns, unless a record could not be read.                *)
(***************************************************************************)
THEOREM NothingRunsOn == Spec => []QuietAtTheEnd
<1>1. SharingInv => QuietAtTheEnd
  BY DEF SharingInv
<1> QED
  BY <1>1, SharingAlways, PTL
=============================================================================
