---------------------------- MODULE SecretsProofs ----------------------------
(***************************************************************************)
(* Theorems about Secrets, for any number of secrets, requests and workers, *)
(* any lifetimes and batches, any kinds of failures and any number of them. *)
(***************************************************************************)
EXTENDS Secrets, FiniteSetTheorems, TLAPS

(* What a request carries at each of its steps.                             *)
CtxOK ==
  \A r \in Requests :
    /\ pc[r] # "idle" => ctx[r].p \in Secrets
    /\ pc[r] \in {"open", "claim", "range"} => ctx[r].t \in Tokens

TypeInv == TypeOK /\ CtxOK

(* The tables and the objects, the processes, and the history.              *)
TablesOK ==
  /\ rows \subseteq Secrets
  /\ opened \subseteq Secrets
  /\ sessions \subseteq granted
  /\ granted \subseteq Grants
  /\ objects \subseteq Secrets

StonesOK ==
  /\ tomb \in [Secrets -> Tombstones \cup {None}]
  /\ first \in [Secrets -> Outcomes \cup {"none"}]

LockOK == lock \in [Secrets -> Requests \cup Workers \cup {None}]

RequestsOK ==
  /\ pc \in [Requests -> Steps]
  /\ ctx \in [Requests -> Contexts]
  /\ CtxOK

ToldOK ==
  told \in [p : Secrets, seen : Outcomes \cup {"none"}, said : Outcomes \cup {"unknown"}] \cup {None}

-----------------------------------------------------------------------------
(* The operators the steps are made of.                                     *)

OpenCtx(p, t, now, owner) == [IdleCtx EXCEPT !.p = p, !.t = t, !.now = now, !.owner = owner]
RangeCtx(p, t) == [IdleCtx EXCEPT !.p = p, !.t = t]
LookCtx(p, now, seen) == [IdleCtx EXCEPT !.p = p, !.now = now, !.seen = seen]

\* The contexts a request starts with, field by field.
LEMMA NewContexts ==
  /\ IdleCtx \in Contexts
  /\ IdleCtx.seen = "none" /\ IdleCtx.now = 0
  /\ IdleWorker \in Cycles /\ IdleWorker.now = 0
  /\ IdleWorker.todo = {} /\ IdleWorker.removable = {} /\ IdleWorker.pc = "idle"
BY SecretsAssumption DEF Contexts, IdleCtx, Cycles, IdleWorker, Times

\* A request that opens a secret has the secret, a fresh token and the time.
LEMMA OpenContext ==
  ASSUME NEW p \in Secrets, NEW t \in Tokens, NEW owner \in BOOLEAN, NEW now \in Times
  PROVE  LET c == OpenCtx(p, t, now, owner)
         IN c \in Contexts /\ c.p = p /\ c.t = t /\ c.now = now /\ c.owner = owner /\ c.seen = "none"
BY SecretsAssumption DEF Contexts, IdleCtx, OpenCtx, Times

\* A request that reads has the secret and the token of its session.
LEMMA RangeContext ==
  ASSUME NEW p \in Secrets, NEW t \in Tokens
  PROVE  LET c == RangeCtx(p, t)
         IN c \in Contexts /\ c.p = p /\ c.t = t /\ c.now = 0 /\ c.seen = "none"
<1> DEFINE c == RangeCtx(p, t)
<1>1. c.p = p /\ c.t = t /\ c.now = 0 /\ c.seen = "none"
  BY DEF IdleCtx, RangeCtx
<1>2. c \in Contexts
  BY NewContexts DEF Contexts, RangeCtx
<1> QED
  BY <1>1, <1>2

\* A request that asks after a secret has the time and what had become of it.
LEMMA LookContext ==
  ASSUME NEW p \in Secrets, NEW seen \in Outcomes \cup {"none"}, NEW now \in Times
  PROVE  LET c == LookCtx(p, now, seen)
         IN c \in Contexts /\ c.p = p /\ c.now = now /\ c.seen = seen
BY SecretsAssumption DEF Contexts, IdleCtx, LookCtx, Times

\* A request that reads the clock again keeps the rest of its context.
LEMMA LaterContext ==
  ASSUME NEW f \in [Requests -> Contexts], NEW r \in Requests, NEW now \in Times
  PROVE  LET g == [f EXCEPT ![r].now = now]
         IN /\ g \in [Requests -> Contexts]
            /\ g[r].p = f[r].p /\ g[r].t = f[r].t /\ g[r].now = now /\ g[r].seen = f[r].seen
            /\ \A q \in Requests : q # r => g[q] = f[q]
BY DEF Contexts

\* A tombstone is kept for the retention from the expiry on, or longer.
LEMMA TombstoneType ==
  ASSUME TypeOK, NEW p \in Secrets, NEW outcome \in Outcomes, NEW now \in Times,
         NEW byOwner \in BOOLEAN
  PROVE  /\ Tombstone(p, outcome, now, byOwner) \in Tombstones
         /\ Tombstone(p, outcome, now, byOwner).outcome = outcome
         /\ Tombstone(p, outcome, now, byOwner).keep >= expires[p] + Retention
<1>1. expires[p] \in Nat /\ now \in Nat /\ Retention \in Nat
  BY SecretsAssumption DEF TypeOK, Times
<1>2. TombstoneKeepUntil(p, now) \in Nat /\ TombstoneKeepUntil(p, now) >= expires[p] + Retention
  BY <1>1 DEF TombstoneKeepUntil, LaterOf
<1>3. ((outcome = "opened" /\ ~byOwner) \/ recipientOpenedAt(p)) \in BOOLEAN
  BY DEF recipientOpenedAt
<1> QED
  BY <1>2, <1>3 DEF Tombstone, Tombstones

\* The tombstone of an opened secret says whether it was a recipient, or whether
\* the row tells of one.
LEMMA OpenedStone ==
  ASSUME NEW p, NEW now, NEW byOwner \in BOOLEAN, NEW s,
         s = Tombstone(p, "opened", now, byOwner)
  PROVE  s.first <=> ~byOwner \/ recipientOpenedAt(p)
BY DEF Tombstone, recipientOpenedAt

\* The tombstone of a deleted secret tells of a recipient if the row does.
LEMMA DeletedStone ==
  ASSUME TypeOK, NEW p \in Secrets, NEW now \in Times, NEW s,
         s = Tombstone(p, "deleted", now, FALSE)
  PROVE  /\ s \in Tombstones /\ s.outcome = "deleted" /\ s.keep >= expires[p] + Retention
         /\ s.first <=> recipientOpenedAt(p)
<1>1. "deleted" \in Outcomes /\ "deleted" # "opened"
  BY DEF Outcomes
<1>2. \A byOwner \in BOOLEAN :
        /\ Tombstone(p, "deleted", now, byOwner) \in Tombstones
        /\ Tombstone(p, "deleted", now, byOwner).outcome = "deleted"
        /\ Tombstone(p, "deleted", now, byOwner).keep >= expires[p] + Retention
  BY <1>1, TombstoneType
<1>3. s.first <=> recipientOpenedAt(p)
  BY <1>1 DEF Tombstone, recipientOpenedAt
<1> QED
  BY <1>2, <1>3

\* The tombstone of a secret that clean-up removes because it has expired.
ExpiredStone(p, now) ==
  [outcome |-> "expired", first |-> recipientOpenedAt(p), owner |-> FALSE, keep |-> now + Retention]

\* The same of the tombstones that clean-up leaves.
LEMMA ExpiredStoneFields ==
  ASSUME NEW p, NEW now
  PROVE  /\ ExpiredStone(p, now).first = recipientOpenedAt(p)
         /\ ExpiredStone(p, now).outcome = "expired"
         /\ ExpiredStone(p, now).keep = now + Retention
         /\ now + Retention \in Nat => ExpiredStone(p, now) \in Tombstones
<1>1. recipientOpenedAt(p) \in BOOLEAN
  BY DEF recipientOpenedAt
<1>2. ExpiredStone(p, now).first = recipientOpenedAt(p)
  BY Zenon DEF ExpiredStone
<1>3. ExpiredStone(p, now).outcome = "expired" /\ ExpiredStone(p, now).keep = now + Retention
  BY DEF ExpiredStone
<1>4. ASSUME now + Retention \in Nat PROVE ExpiredStone(p, now) \in Tombstones
  BY <1>1, <1>4 DEF ExpiredStone, Tombstones, Outcomes
<1> QED
  BY <1>2, <1>3, <1>4

\* CreateTombstones fills in what is missing and leaves the rest alone.
LEMMA CreateTombstonesType ==
  ASSUME TypeOK, NEW D \in SUBSET Secrets, NEW stones \in [D -> Tombstones],
         CreateTombstones(stones)
  PROVE  /\ tomb' \in [Secrets -> Tombstones \cup {None}]
         /\ first' \in [Secrets -> Outcomes \cup {"none"}]
         /\ \A p \in Secrets :
              /\ p \in D /\ tomb[p] = None => tomb'[p] = stones[p]
              /\ ~(p \in D /\ tomb[p] = None) => tomb'[p] = tomb[p]
              /\ p \in D /\ tomb[p] = None /\ first[p] = "none" => first'[p] = stones[p].outcome
              /\ ~(p \in D /\ tomb[p] = None /\ first[p] = "none") => first'[p] = first[p]
<1>1. \A p \in D : stones[p] \in Tombstones /\ stones[p].outcome \in Outcomes
  BY DEF Tombstones
<1>2. tomb' \in [Secrets -> Tombstones \cup {None}]
  BY <1>1 DEF TypeOK, CreateTombstones, Record
<1>3. first' \in [Secrets -> Outcomes \cup {"none"}]
  BY <1>1 DEF TypeOK, CreateTombstones, Record
<1>4. \A p \in Secrets :
        /\ p \in D /\ tomb[p] = None => tomb'[p] = stones[p]
        /\ ~(p \in D /\ tomb[p] = None) => tomb'[p] = tomb[p]
  BY DEF CreateTombstones, Record
<1>5. \A p \in Secrets :
        /\ p \in D /\ tomb[p] = None /\ first[p] = "none" => first'[p] = stones[p].outcome
        /\ ~(p \in D /\ tomb[p] = None /\ first[p] = "none") => first'[p] = first[p]
  BY DEF CreateTombstones, Record
<1> QED
  BY <1>2, <1>3, <1>4, <1>5

\* Releasing locks keeps their types.
LEMMA UnlockedType ==
  ASSUME TypeOK, NEW by
  PROVE  Unlocked(by) \in [Secrets -> Requests \cup Workers \cup {None}]
BY DEF TypeOK, Unlocked

\* A request moves on, alone.
LEMMA Moved ==
  ASSUME TypeInv, NEW r \in Requests, NEW step \in Steps, NEW c \in Contexts,
         Goto(r, step), ctx' = [ctx EXCEPT ![r] = c],
         step # "idle" => c.p \in Secrets,
         step \in {"open", "claim", "range"} => c.t \in Tokens
  PROVE  /\ RequestsOK'
         /\ pc'[r] = step /\ ctx'[r] = c
         /\ \A q \in Requests : q # r => pc'[q] = pc[q] /\ ctx'[q] = ctx[q]
<1>1. pc' \in [Requests -> Steps] /\ ctx' \in [Requests -> Contexts]
  BY DEF TypeInv, TypeOK, Goto
<1>2. pc'[r] = step /\ ctx'[r] = c
      /\ \A q \in Requests : q # r => pc'[q] = pc[q] /\ ctx'[q] = ctx[q]
  BY DEF TypeInv, TypeOK, Goto
<1>3. CtxOK'
  BY <1>2 DEF TypeInv, CtxOK
<1> QED
  BY <1>1, <1>2, <1>3 DEF RequestsOK

\* A request ends, alone.
LEMMA Ended ==
  ASSUME TypeInv, NEW r \in Requests, Done(r)
  PROVE  /\ RequestsOK'
         /\ pc'[r] = "idle" /\ ctx'[r] = IdleCtx
         /\ \A q \in Requests : q # r => pc'[q] = pc[q] /\ ctx'[q] = ctx[q]
BY Moved, NewContexts DEF Done, Steps

\* A request moves on with the context it has.
LEMMA WentOn ==
  ASSUME TypeInv, NEW r \in Requests, pc[r] # "idle", NEW step \in Steps, Goto(r, step),
         UNCHANGED ctx,
         step \in {"open", "claim", "range"} => pc[r] \in {"open", "claim", "range"}
  PROVE  /\ RequestsOK'
         /\ pc'[r] = step /\ \A q \in Requests : q # r => pc'[q] = pc[q]
<1>1. pc' \in [Requests -> Steps] /\ pc'[r] = step /\ \A q \in Requests : q # r => pc'[q] = pc[q]
  BY DEF TypeInv, TypeOK, Goto
<1>2. CtxOK'
  BY <1>1 DEF TypeInv, CtxOK
<1> QED
  BY <1>1, <1>2 DEF RequestsOK, TypeInv, TypeOK

-----------------------------------------------------------------------------
(* What each step of a request does, in terms of its context.               *)

\* StartRetrievalSession: a token nobody has had, and the time of the request.
LEMMA OpenFacts ==
  ASSUME TypeInv, NEW r \in Requests, StartRetrievalSession(r)
  PROVE  /\ RequestsOK'
         /\ pc'[r] = "open" /\ ctx'[r].now = clock /\ ctx'[r].seen = "none"
         /\ ctx'[r].t \in Tokens \ IssuedTokens
         /\ \A q \in Requests : q # r => pc'[q] = pc[q] /\ ctx'[q] = ctx[q]
<1>1. PICK p \in Secrets, t \in Tokens \ IssuedTokens, owner \in BOOLEAN :
        ctx' = [ctx EXCEPT ![r] = OpenCtx(p, t, clock, owner)]
  BY DEF StartRetrievalSession, OpenCtx
<1> DEFINE c == OpenCtx(p, t, clock, owner)
<1>2. clock \in Times /\ t \in Tokens
  BY DEF TypeInv, TypeOK
<1>3. c \in Contexts /\ c.p = p /\ c.t = t /\ c.now = clock /\ c.seen = "none"
  BY <1>2, OpenContext
<1>4. Goto(r, "open") /\ "open" \in Steps
  BY DEF StartRetrievalSession, Steps
<1> HIDE DEF c
<1>5. ctx' = [ctx EXCEPT ![r] = c]
  BY <1>1 DEF c
<1>6. c.p \in Secrets /\ c.t \in Tokens
  BY <1>2, <1>3
<1>7. /\ RequestsOK' /\ pc'[r] = "open" /\ ctx'[r] = c
      /\ \A q \in Requests : q # r => pc'[q] = pc[q] /\ ctx'[q] = ctx[q]
  BY <1>3, <1>4, <1>5, <1>6, Moved
<1> QED
  BY <1>3, <1>7

\* RetrieveSecretRange: the secret and the token of a session in the table.
LEMMA RangeFacts ==
  ASSUME TypeInv, NEW r \in Requests, RetrieveSecretRange(r)
  PROVE  /\ RequestsOK'
         /\ pc'[r] = "range" /\ ctx'[r].now = 0 /\ ctx'[r].seen = "none"
         /\ \E g \in sessions : ctx'[r].p = g.p /\ ctx'[r].t = g.t
         /\ \A q \in Requests : q # r => pc'[q] = pc[q] /\ ctx'[q] = ctx[q]
<1>1. PICK g \in sessions : ctx' = [ctx EXCEPT ![r] = RangeCtx(g.p, g.t)]
  BY DEF RetrieveSecretRange, RangeCtx
<1> DEFINE c == RangeCtx(g.p, g.t)
<1>2. g.p \in Secrets /\ g.t \in Tokens
  BY DEF TypeInv, TypeOK, Grants
<1>3. c \in Contexts /\ c.p = g.p /\ c.t = g.t /\ c.now = 0 /\ c.seen = "none"
  BY <1>2, RangeContext
<1>4. Goto(r, "range") /\ "range" \in Steps
  BY DEF RetrieveSecretRange, Steps
<1> HIDE DEF c
<1>5. ctx' = [ctx EXCEPT ![r] = c]
  BY <1>1 DEF c
<1>6. c.p \in Secrets /\ c.t \in Tokens
  BY <1>2, <1>3
<1>7. /\ RequestsOK' /\ pc'[r] = "range" /\ ctx'[r] = c
      /\ \A q \in Requests : q # r => pc'[q] = pc[q] /\ ctx'[q] = ctx[q]
  BY <1>3, <1>4, <1>5, <1>6, Moved
<1> QED
  BY <1>3, <1>7

\* authenticateMetadata: the owner goes on to erase a secret that is there, and
\* asks for the tombstone of one that is not.
LEMMA LookFacts ==
  ASSUME TypeInv, NEW r \in Requests, authenticateMetadata(r)
  PROVE  /\ RequestsOK'
         /\ ctx'[r].p \in Secrets /\ ctx'[r].now = clock /\ ctx'[r].seen = Became(ctx'[r].p)
         /\ \/ pc'[r] = "erase" /\ asked' = asked \cup {ctx'[r].p}
            \/ pc'[r] = "tomb" /\ UNCHANGED asked
         /\ \A q \in Requests : q # r => pc'[q] = pc[q] /\ ctx'[q] = ctx[q]
<1>1. PICK p \in Secrets :
        /\ ctx' = [ctx EXCEPT ![r] = LookCtx(p, clock, Became(p))]
        /\ \/ Goto(r, "erase") /\ asked' = asked \cup {p}
           \/ Goto(r, "tomb") /\ UNCHANGED asked
  BY DEF authenticateMetadata, LookCtx
<1> DEFINE c == LookCtx(p, clock, Became(p))
<1>2. Became(p) \in Outcomes \cup {"none"}
  BY DEF Became, TypeInv, TypeOK, Outcomes
<1>3. c \in Contexts /\ c.p = p /\ c.now = clock /\ c.seen = Became(p)
  <2>1. clock \in Times
    BY DEF TypeInv, TypeOK
  <2> QED
    BY <1>2, <2>1, LookContext
<1> HIDE DEF c
<1>4. ctx' = [ctx EXCEPT ![r] = c]
  BY <1>1 DEF c
<1>5. PICK step \in {"erase", "tomb"} : Goto(r, step) /\ (step = "erase" => asked' = asked \cup {p})
                                        /\ (step = "tomb" => UNCHANGED asked)
  BY <1>1
<1>6. step \in Steps
  BY DEF Steps
<1>7. /\ RequestsOK' /\ pc'[r] = step /\ ctx'[r] = c
      /\ \A q \in Requests : q # r => pc'[q] = pc[q] /\ ctx'[q] = ctx[q]
  BY <1>3, <1>4, <1>5, <1>6, Moved
<1> QED
  BY <1>3, <1>5, <1>7

\* What ClaimSecret grants: nothing, or one session for a secret that is there
\* and has not been used up, whose mark and tombstone go with it.
ClaimedBy(r, g) ==
  LET p == ctx[r].p IN
  /\ g.p = p /\ g.t = ctx[r].t /\ g.owner = ctx[r].owner /\ g.until = ctx[r].now + TTL
  /\ Visible(p, ctx[r].now) /\ ~Consumed(p)
  /\ MarkOpened(p, ctx[r].owner)
  /\ CreateTombstones([q \in {p} \cap burn |-> Tombstone(q, "opened", ctx[r].now, ctx[r].owner)])
  /\ sessions' = sessions \cup {g}
  /\ granted' = granted \cup {g}

\* A claim commits as a whole or not at all, whatever becomes of its answer.
LEMMA ClaimFacts ==
  ASSUME TypeInv, NEW r \in Requests, ClaimSecret(r)
  PROVE  /\ pc[r] = "claim" /\ Done(r) /\ lock' = Unlocked(r)
         /\ ctx[r].p \in Secrets /\ ctx[r].t \in Tokens /\ ctx[r].now \in Times
         /\ ctx[r].owner \in BOOLEAN
         /\ UNCHANGED <<clock, burn, expires, rows, objects, worker, asked, told, cut>>
         /\ \/ UNCHANGED <<opened, tomb, first, sessions, granted>>
            \/ \E g \in Grants : ClaimedBy(r, g)
<1> DEFINE p == ctx[r].p
           owner == ctx[r].owner
           g == [p |-> p, t |-> ctx[r].t, owner |-> owner, until |-> ctx[r].now + TTL]
<1>1. pc[r] = "claim" /\ Done(r) /\ lock' = Unlocked(r)
      /\ UNCHANGED <<clock, burn, expires, rows, objects, worker, asked, told, cut>>
  BY DEF ClaimSecret, fixed
<1>2. p \in Secrets /\ ctx[r].t \in Tokens /\ ctx[r].now \in Times /\ owner \in BOOLEAN
  BY <1>1 DEF TypeInv, TypeOK, CtxOK, Contexts
<1>3. g \in Grants
  BY <1>2, SecretsAssumption DEF Grants, Times
<1>4. g.p = p /\ g.t = ctx[r].t /\ g.owner = owner /\ g.until = ctx[r].now + TTL
  OBVIOUS
<1>5. CASE UNCHANGED <<opened, tomb, first, sessions, granted>>
  BY <1>1, <1>2, <1>5
<1>6. CASE ~UNCHANGED <<opened, tomb, first, sessions, granted>>
  <2>1. /\ Visible(p, ctx[r].now) /\ ~Consumed(p)
        /\ MarkOpened(p, owner)
        /\ CreateTombstones([q \in {p} \cap burn |-> Tombstone(q, "opened", ctx[r].now, owner)])
        /\ sessions' = sessions \cup {g}
        /\ granted' = granted \cup {g}
    BY <1>6 DEF ClaimSecret
  <2>2. ClaimedBy(r, g)
    BY <1>4, <2>1 DEF ClaimedBy
  <2> QED
    BY <1>1, <1>2, <1>3, <2>2
<1> QED
  BY <1>5, <1>6

\* The tombstone of a claim: only a one-time secret gets one.
LEMMA ClaimStones ==
  ASSUME TypeInv, NEW r \in Requests, NEW g \in Grants, ClaimedBy(r, g),
         ctx[r].p \in Secrets, ctx[r].now \in Times, ctx[r].owner \in BOOLEAN
  PROVE  /\ StonesOK'
         /\ \A q \in Secrets :
              LET new == q = g.p /\ q \in burn /\ tomb[q] = None IN
              /\ new => tomb'[q] = Tombstone(q, "opened", ctx[r].now, ctx[r].owner)
              /\ ~new => tomb'[q] = tomb[q]
              /\ first'[q] = IF new /\ first[q] = "none" THEN "opened" ELSE first[q]
<1> DEFINE p == ctx[r].p
           D == {p} \cap burn
           stones == [q \in D |-> Tombstone(q, "opened", ctx[r].now, ctx[r].owner)]
<1>1. D \in SUBSET Secrets /\ "opened" \in Outcomes /\ g.p = p
  BY DEF Outcomes, ClaimedBy
<1>2. \A q \in D : Tombstone(q, "opened", ctx[r].now, ctx[r].owner) \in Tombstones
                   /\ Tombstone(q, "opened", ctx[r].now, ctx[r].owner).outcome = "opened"
  BY <1>1, TombstoneType DEF TypeInv
<1>3. stones \in [D -> Tombstones] /\ \A q \in D : stones[q].outcome = "opened"
                                   /\ stones[q] = Tombstone(q, "opened", ctx[r].now, ctx[r].owner)
  BY <1>2
<1>4. CreateTombstones(stones)
  BY DEF ClaimedBy
<1> HIDE DEF stones
<1>5. /\ tomb' \in [Secrets -> Tombstones \cup {None}]
      /\ first' \in [Secrets -> Outcomes \cup {"none"}]
      /\ \A q \in Secrets :
           /\ q \in D /\ tomb[q] = None => tomb'[q] = stones[q]
           /\ ~(q \in D /\ tomb[q] = None) => tomb'[q] = tomb[q]
           /\ q \in D /\ tomb[q] = None /\ first[q] = "none" => first'[q] = stones[q].outcome
           /\ ~(q \in D /\ tomb[q] = None /\ first[q] = "none") => first'[q] = first[q]
  BY <1>1, <1>3, <1>4, CreateTombstonesType DEF TypeInv
<1> QED
  BY <1>1, <1>3, <1>5 DEF StonesOK

\* What DeleteSecret commits: the row and its sessions go and a tombstone is
\* left, if there was a row.
DeletedBy(r) ==
  /\ DeleteRows({ctx[r].p})
  /\ CreateTombstones([q \in {ctx[r].p} \cap rows |->
                         Tombstone(q, "deleted", ctx[r].now, FALSE)])

\* A deletion commits as a whole or not at all.
LEMMA DeleteFacts ==
  ASSUME TypeInv, NEW r \in Requests, DeleteSecret(r)
  PROVE  /\ pc[r] = "forget" /\ Done(r)
         /\ ctx[r].p \in Secrets /\ ctx[r].now \in Times
         /\ UNCHANGED <<clock, burn, expires, opened, lock, objects, worker, granted, asked, told, cut>>
         /\ UNCHANGED <<rows, sessions, tomb, first>> \/ DeletedBy(r)
<1>1. pc[r] = "forget" /\ Done(r)
      /\ UNCHANGED <<clock, burn, expires, opened, lock, objects, worker, granted, asked, told, cut>>
  BY DEF DeleteSecret, fixed
<1>2. ctx[r].p \in Secrets /\ ctx[r].now \in Times
  BY <1>1 DEF TypeInv, TypeOK, CtxOK, Contexts
<1>3. UNCHANGED <<rows, sessions, tomb, first>> \/ DeletedBy(r)
  BY DEF DeleteSecret, DeletedBy
<1> QED
  BY <1>1, <1>2, <1>3

\* The tombstone of a deletion: of a row that was there and had none.
LEMMA DeleteStones ==
  ASSUME TypeInv, NEW r \in Requests, DeletedBy(r), ctx[r].p \in Secrets, ctx[r].now \in Times
  PROVE  /\ StonesOK'
         /\ \A q \in Secrets :
              LET new == q = ctx[r].p /\ q \in rows /\ tomb[q] = None IN
              /\ new => tomb'[q] = Tombstone(q, "deleted", ctx[r].now, FALSE)
              /\ ~new => tomb'[q] = tomb[q]
              /\ first'[q] = IF new /\ first[q] = "none" THEN "deleted" ELSE first[q]
<1> DEFINE D == {ctx[r].p} \cap rows
           stones == [q \in D |-> Tombstone(q, "deleted", ctx[r].now, FALSE)]
<1>1. D \in SUBSET Secrets /\ "deleted" \in Outcomes
  BY DEF Outcomes
<1>2. \A q \in D : Tombstone(q, "deleted", ctx[r].now, FALSE) \in Tombstones
                   /\ Tombstone(q, "deleted", ctx[r].now, FALSE).outcome = "deleted"
  BY <1>1, TombstoneType DEF TypeInv
<1>3. stones \in [D -> Tombstones] /\ \A q \in D : stones[q].outcome = "deleted"
                                   /\ stones[q] = Tombstone(q, "deleted", ctx[r].now, FALSE)
  BY <1>2
<1>4. CreateTombstones(stones)
  BY DEF DeletedBy
<1> HIDE DEF stones
<1>5. /\ tomb' \in [Secrets -> Tombstones \cup {None}]
      /\ first' \in [Secrets -> Outcomes \cup {"none"}]
      /\ \A q \in Secrets :
           /\ q \in D /\ tomb[q] = None => tomb'[q] = stones[q]
           /\ ~(q \in D /\ tomb[q] = None) => tomb'[q] = tomb[q]
           /\ q \in D /\ tomb[q] = None /\ first[q] = "none" => first'[q] = stones[q].outcome
           /\ ~(q \in D /\ tomb[q] = None /\ first[q] = "none") => first'[q] = first[q]
  BY <1>1, <1>3, <1>4, CreateTombstonesType DEF TypeInv
<1> QED
  BY <1>1, <1>3, <1>5 DEF StonesOK

-----------------------------------------------------------------------------
(* What each step of a worker does, in terms of its cycle.                  *)

OthersStay(w) == \A v \in Workers : v # w => worker'[v] = worker[v]

\* A worker goes on to another step of its cycle and keeps what it knows.
LEMMA Entered ==
  ASSUME TypeInv, NEW w \in Workers, NEW step \in {"select", "tombs"}, Enter(w, step)
  PROVE  /\ worker' \in [Workers -> Cycles]
         /\ worker'[w].now = worker[w].now /\ worker'[w].todo = worker[w].todo
         /\ worker'[w].removable = worker[w].removable
         /\ OthersStay(w)
BY DEF TypeInv, TypeOK, Enter, Cycles, OthersStay

\* A cycle begins with the time it is now.
LEMMA CycleFacts ==
  ASSUME TypeInv, NEW w \in Workers, StartCycle(w)
  PROVE  /\ worker' \in [Workers -> Cycles]
         /\ worker'[w].now = clock /\ worker'[w].todo = worker[w].todo
         /\ worker'[w].removable = worker[w].removable
         /\ OthersStay(w)
BY DEF TypeInv, TypeOK, StartCycle, Cycles, OthersStay

\* A cycle ends, or the worker dies.
LEMMA IdledFacts ==
  ASSUME TypeInv, NEW w \in Workers, worker' = [worker EXCEPT ![w] = IdleWorker]
  PROVE  /\ worker' \in [Workers -> Cycles]
         /\ worker'[w].now = 0 /\ worker'[w].todo = {} /\ worker'[w].removable = {}
         /\ OthersStay(w)
BY NewContexts DEF TypeInv, TypeOK, OthersStay

\* A batch is chosen among what is due and free.
LEMMA SelectFacts ==
  ASSUME TypeInv, NEW w \in Workers, SelectSecrets(w)
  PROVE  /\ worker' \in [Workers -> Cycles]
         /\ lock' \in [Secrets -> Requests \cup Workers \cup {None}]
         /\ worker'[w].now = worker[w].now /\ worker'[w].removable = {}
         /\ worker'[w].todo \subseteq Due(worker[w].now)
         /\ OthersStay(w)
<1>1. PICK batch \in Batch(worker[w].now) :
        /\ lock' = [p \in Secrets |-> IF p \in batch THEN w ELSE lock[p]]
        /\ worker' = [worker EXCEPT ![w].pc = "delete", ![w].todo = batch,
                                    ![w].removable = {}, ![w].found = Cardinality(batch)]
  BY DEF SelectSecrets
<1>2. batch \subseteq Due(worker[w].now) /\ batch \subseteq Secrets
  BY DEF Batch, Due, TypeInv, TypeOK
<1>3. Cardinality(batch) \in Nat
  BY <1>2, SecretsAssumption, FS_Subset, FS_CardinalityType
<1>4. worker' \in [Workers -> Cycles]
  <2>1. worker[w] \in Cycles
    BY DEF TypeInv, TypeOK
  <2>2. [worker[w] EXCEPT !.pc = "delete", !.todo = batch, !.removable = {},
                          !.found = Cardinality(batch)] \in Cycles
    BY <1>2, <1>3, <2>1 DEF Cycles
  <2>3. worker' = [worker EXCEPT ![w] = [worker[w] EXCEPT !.pc = "delete", !.todo = batch,
                                           !.removable = {}, !.found = Cardinality(batch)]]
    BY <1>1
  <2> QED
    BY <2>2, <2>3 DEF TypeInv, TypeOK
<1>5. /\ worker'[w].now = worker[w].now /\ worker'[w].removable = {} /\ worker'[w].todo = batch
      /\ OthersStay(w)
  BY <1>1 DEF TypeInv, TypeOK, Cycles, OthersStay
<1>6. lock' \in [Secrets -> Requests \cup Workers \cup {None}]
  BY <1>1 DEF TypeInv, TypeOK
<1> QED
  BY <1>2, <1>4, <1>5, <1>6

\* The object of a row of the batch goes, and the row is set down as removable,
\* or storage fails and it is not.
LEMMA ObjectFacts ==
  ASSUME TypeInv, NEW w \in Workers, DeleteObject(w)
  PROVE  /\ worker' \in [Workers -> Cycles]
         /\ worker'[w].now = worker[w].now /\ worker'[w].todo \subseteq worker[w].todo
         /\ \E p \in worker[w].todo :
              /\ objects' = objects \/ objects' = objects \ {p}
              /\ \/ worker'[w].removable = worker[w].removable
                 \/ worker'[w].removable = worker[w].removable \cup {p} /\ objects' = objects \ {p}
         /\ OthersStay(w)
<1>1. PICK p \in worker[w].todo :
        \/ /\ objects' = objects \ {p}
           /\ worker' = [worker EXCEPT ![w].todo = @ \ {p}, ![w].removable = @ \cup {p}]
        \/ /\ objects' \in {objects, objects \ {p}}
           /\ worker' = [worker EXCEPT ![w].todo = @ \ {p}]
  BY DEF DeleteObject
<1>2. p \in Secrets
  BY DEF TypeInv, TypeOK, Cycles
<1>3. CASE objects' = objects \ {p}
           /\ worker' = [worker EXCEPT ![w].todo = @ \ {p}, ![w].removable = @ \cup {p}]
  <2>1. worker' \in [Workers -> Cycles]
    <3>1. worker[w] \in Cycles /\ worker[w].todo \ {p} \subseteq Secrets
          /\ worker[w].removable \cup {p} \subseteq Secrets
      BY <1>2 DEF TypeInv, TypeOK, Cycles
    <3>2. [worker[w] EXCEPT !.todo = @ \ {p}, !.removable = @ \cup {p}] \in Cycles
      BY <3>1 DEF Cycles
    <3>3. worker' = [worker EXCEPT ![w] = [worker[w] EXCEPT !.todo = @ \ {p},
                                                           !.removable = @ \cup {p}]]
      BY <1>3
    <3> QED
      BY <3>2, <3>3 DEF TypeInv, TypeOK
  <2>2. /\ worker'[w].now = worker[w].now /\ worker'[w].todo = worker[w].todo \ {p}
        /\ worker'[w].removable = worker[w].removable \cup {p} /\ OthersStay(w)
    BY <1>3 DEF TypeInv, TypeOK, Cycles, OthersStay
  <2> QED
    BY <1>3, <2>1, <2>2
<1>4. CASE objects' \in {objects, objects \ {p}} /\ worker' = [worker EXCEPT ![w].todo = @ \ {p}]
  <2>1. worker' \in [Workers -> Cycles]
    BY <1>2, <1>4 DEF TypeInv, TypeOK, Cycles
  <2>2. /\ worker'[w].now = worker[w].now /\ worker'[w].todo = worker[w].todo \ {p}
        /\ worker'[w].removable = worker[w].removable /\ OthersStay(w)
    BY <1>4 DEF TypeInv, TypeOK, Cycles, OthersStay
  <2> QED
    BY <1>4, <2>1, <2>2
<1> QED
  BY <1>1, <1>3, <1>4

\* What DeleteExpired commits.
Gone(w) == {p \in worker[w].removable : lock[p] = w}
RemovedBy(w) ==
  /\ DeleteRows(Gone(w))
  /\ CreateTombstones([p \in {q \in Gone(w) : expires[q] < worker[w].now} |->
                         ExpiredStone(p, worker[w].now)])

\* The rows of a batch whose objects are gone go together with tombstones for
\* those that have expired, or nothing does.
LEMMA ExpireFacts ==
  ASSUME TypeInv, NEW w \in Workers, DeleteExpired(w)
  PROVE  /\ \E step \in {"select", "tombs"} : Enter(w, step)
         /\ lock' = Unlocked(w)
         /\ UNCHANGED <<clock, burn, expires, opened, objects, pc, ctx, granted, asked, told, cut>>
         /\ UNCHANGED <<rows, sessions, tomb, first>> \/ RemovedBy(w)
BY DEF DeleteExpired, RemovedBy, Gone, ExpiredStone, fixed

\* The tombstones of clean-up: of the removed rows that have expired and have none.
LEMMA ExpireStones ==
  ASSUME TypeInv, NEW w \in Workers, RemovedBy(w)
  PROVE  /\ StonesOK'
         /\ \A q \in Secrets :
              LET new == q \in Gone(w) /\ expires[q] < worker[w].now /\ tomb[q] = None IN
              /\ new => tomb'[q] = ExpiredStone(q, worker[w].now)
              /\ ~new => tomb'[q] = tomb[q]
              /\ first'[q] = IF new /\ first[q] = "none" THEN "expired" ELSE first[q]
<1> DEFINE now == worker[w].now
           D == {q \in Gone(w) : expires[q] < now}
           stones == [p \in D |-> ExpiredStone(p, now)]
<1>1. D \in SUBSET Secrets /\ "expired" \in Outcomes /\ now \in Nat
  BY DEF Gone, TypeInv, TypeOK, Cycles, Outcomes, Times
<1>2. \A q \in D : ExpiredStone(q, now) \in Tombstones /\ ExpiredStone(q, now).outcome = "expired"
  <2> TAKE q \in D
  <2>1. recipientOpenedAt(q) \in BOOLEAN
    BY DEF recipientOpenedAt
  <2> QED
    BY <1>1, <2>1, SecretsAssumption DEF ExpiredStone, Tombstones
<1>3. stones \in [D -> Tombstones] /\ \A q \in D : stones[q].outcome = "expired"
                                   /\ stones[q] = ExpiredStone(q, now)
  BY <1>2
<1>4. CreateTombstones(stones)
  BY DEF RemovedBy
<1> HIDE DEF stones
<1>5. /\ tomb' \in [Secrets -> Tombstones \cup {None}]
      /\ first' \in [Secrets -> Outcomes \cup {"none"}]
      /\ \A q \in Secrets :
           /\ q \in D /\ tomb[q] = None => tomb'[q] = stones[q]
           /\ ~(q \in D /\ tomb[q] = None) => tomb'[q] = tomb[q]
           /\ q \in D /\ tomb[q] = None /\ first[q] = "none" => first'[q] = stones[q].outcome
           /\ ~(q \in D /\ tomb[q] = None /\ first[q] = "none") => first'[q] = first[q]
  BY <1>1, <1>3, <1>4, CreateTombstonesType DEF TypeInv
<1> QED
  BY <1>1, <1>3, <1>5 DEF StonesOK

-----------------------------------------------------------------------------
(* Types.                                                                   *)

\* TypeInv, as the groups of variables the steps change.
LEMMA TypeParts ==
  TypeInv <=> /\ clock \in Times /\ burn \subseteq Secrets /\ expires \in [Secrets -> Nat]
              /\ TablesOK /\ StonesOK /\ LockOK /\ RequestsOK
              /\ worker \in [Workers -> Cycles]
              /\ asked \subseteq Secrets /\ ToldOK /\ cut \in Tokens \cup {None} /\ faults \in Nat
BY DEF TypeInv, TypeOK, TablesOK, StonesOK, LockOK, RequestsOK, ToldOK

\* The first state is of the right types.
LEMMA TypeInit == Init => TypeInv
<1> SUFFICES ASSUME Init PROVE TypeInv
  OBVIOUS
<1> USE SecretsAssumption DEF Init
<1>1. clock \in Times /\ burn \subseteq Secrets /\ expires \in [Secrets -> Nat]
  <2>1. Lifetimes \subseteq Nat /\ 0 \in Times
    BY DEF Times
  <2> QED
    BY <2>1
<1>2. TablesOK /\ StonesOK /\ LockOK
  BY DEF TablesOK, StonesOK, LockOK
<1>3. RequestsOK
  BY NewContexts DEF RequestsOK, CtxOK, Steps
<1>4. worker \in [Workers -> Cycles] /\ asked \subseteq Secrets /\ ToldOK
      /\ cut \in Tokens \cup {None} /\ faults \in Nat
  BY NewContexts DEF ToldOK
<1> QED
  BY <1>1, <1>2, <1>3, <1>4, TypeParts

\* An answer about a secret that is not there.
LEMMA AnswerType ==
  ASSUME TypeInv, NEW r \in Requests, pc[r] # "idle", NEW outcome \in Outcomes \cup {"unknown"},
         Answer(r, outcome)
  PROVE  /\ ToldOK' /\ Done(r)
         /\ told'.p = ctx[r].p /\ told'.seen = ctx[r].seen /\ told'.said = outcome
<1>1. ctx[r].p \in Secrets /\ ctx[r].seen \in Outcomes \cup {"none"}
  BY DEF TypeInv, CtxOK, TypeOK, Contexts
<1>2. told' = [p |-> ctx[r].p, seen |-> ctx[r].seen, said |-> outcome] /\ Done(r)
  BY DEF Answer
<1>3. ToldOK'
  BY <1>1, <1>2 DEF ToldOK
<1> QED
  BY <1>2, <1>3

\* A request looks up and locks the row, or finds no secret to open.
LEMMA LockFacts ==
  ASSUME TypeInv, NEW r \in Requests, LockSecret(r)
  PROVE  /\ RequestsOK' /\ LockOK'
         /\ pc[r] = "open" /\ pc'[r] \in {"claim", "idle"}
         /\ \/ pc'[r] = "claim" /\ ctx' = ctx
            \/ pc'[r] = "idle" /\ ctx'[r] = IdleCtx
         /\ \A q \in Requests : q # r => pc'[q] = pc[q] /\ ctx'[q] = ctx[q]
<1>1. pc[r] = "open" /\ ctx[r].p \in Secrets
  BY DEF LockSecret, TypeInv, CtxOK
<1>2. CASE Goto(r, "claim") /\ lock' = [lock EXCEPT ![ctx[r].p] = r] /\ UNCHANGED ctx
  <2>1. LockOK'
    BY <1>1, <1>2 DEF LockOK, TypeInv, TypeOK
  <2>2. RequestsOK' /\ pc'[r] = "claim" /\ \A q \in Requests : q # r => pc'[q] = pc[q]
    BY <1>1, <1>2, WentOn DEF Steps
  <2> QED
    BY <1>1, <1>2, <2>1, <2>2
<1>3. CASE Done(r) /\ UNCHANGED lock
  BY <1>1, <1>3, Ended DEF LockOK, TypeInv, TypeOK
<1> QED
  BY <1>2, <1>3 DEF LockSecret

\* The object of a secret whose owner wants it gone is deleted, or storage
\* fails and the request ends.
LEMMA EraseFacts ==
  ASSUME TypeInv, NEW r \in Requests, EraseObject(r)
  PROVE  /\ RequestsOK'
         /\ pc[r] = "erase" /\ ctx[r].p \in Secrets
         /\ \/ /\ objects' = objects \ {ctx[r].p}
               /\ pc'[r] = "forget"
               /\ ctx'[r].p = ctx[r].p /\ ctx'[r].now = clock /\ ctx'[r].seen = ctx[r].seen
            \/ /\ objects' = objects \/ objects' = objects \ {ctx[r].p}
               /\ pc'[r] = "idle" /\ ctx'[r] = IdleCtx
         /\ \A q \in Requests : q # r => pc'[q] = pc[q] /\ ctx'[q] = ctx[q]
<1>1. pc[r] = "erase" /\ ctx[r].p \in Secrets
  BY DEF EraseObject, TypeInv, CtxOK
<1>2. CASE /\ objects' = objects \ {ctx[r].p} /\ Goto(r, "forget")
           /\ ctx' = [ctx EXCEPT ![r].now = clock]
  <2>1. /\ ctx' \in [Requests -> Contexts]
        /\ ctx'[r].p = ctx[r].p /\ ctx'[r].now = clock /\ ctx'[r].seen = ctx[r].seen
        /\ \A q \in Requests : q # r => ctx'[q] = ctx[q]
    <3>1. clock \in Times /\ ctx \in [Requests -> Contexts]
      BY DEF TypeInv, TypeOK
    <3> QED
      BY <1>2, <3>1, LaterContext
  <2>2. /\ pc' \in [Requests -> Steps] /\ pc'[r] = "forget"
        /\ \A q \in Requests : q # r => pc'[q] = pc[q]
    BY <1>2 DEF TypeInv, TypeOK, Goto, Steps
  <2>3. CtxOK'
    BY <1>1, <2>1, <2>2 DEF CtxOK, TypeInv
  <2> QED
    BY <1>1, <1>2, <2>1, <2>2, <2>3 DEF RequestsOK
<1>3. CASE objects' \in {objects, objects \ {ctx[r].p}} /\ Done(r)
  BY <1>1, <1>3, Ended
<1> QED
  BY <1>2, <1>3 DEF EraseObject

\* What no step changes.
LEMMA KindIsFixed == [Next]_vars => UNCHANGED <<burn, expires>>
<1> SUFFICES ASSUME Next PROVE UNCHANGED <<burn, expires>>
  BY DEF vars, fixed
<1> USE DEF fixed
<1>1. CASE Tick
  BY <1>1 DEF Tick
<1>2. ASSUME NEW r \in Requests, Arrive(r) PROVE UNCHANGED <<burn, expires>>
  BY <1>2 DEF Arrive, StartRetrievalSession, RetrieveSecretRange, authenticateMetadata
<1>3. ASSUME NEW r \in Requests, Handle(r) PROVE UNCHANGED <<burn, expires>>
  BY <1>3 DEF Handle, LockSecret, ClaimSecret, GetRange, GetTombstone, GetSecretIgnoringExpiry,
     EraseObject, DeleteSecret
<1>4. ASSUME NEW w \in Workers, Cycle(w) PROVE UNCHANGED <<burn, expires>>
  BY <1>4 DEF Cycle, StartCycle, DeleteExpiredRetrievalSessions, SelectSecrets, DeleteObject,
     DeleteExpired, DeleteExpiredTombstones
<1>5. ASSUME NEW x, (AbandonRequest(x) \/ AbandonCycle(x) \/ LoseConnection(x))
      PROVE UNCHANGED <<burn, expires>>
  BY <1>5 DEF AbandonRequest, AbandonCycle, LoseConnection
<1> QED
  BY <1>1, <1>2, <1>3, <1>4, <1>5 DEF Next

\* Every step counts its failure, if it has one.
LEMMA FaultsAreCounted == faults \in Nat /\ [Next]_vars => faults' \in Nat
<1> SUFFICES ASSUME faults \in Nat, Next PROVE faults' \in Nat
  BY DEF vars
<1> USE DEF Works, Fails
<1>1. CASE Tick
  BY <1>1 DEF Tick
<1>2. ASSUME NEW r \in Requests, Arrive(r) PROVE faults' \in Nat
  BY <1>2 DEF Arrive, StartRetrievalSession, RetrieveSecretRange, authenticateMetadata
<1>3. ASSUME NEW r \in Requests, Handle(r) PROVE faults' \in Nat
  BY <1>3 DEF Handle, LockSecret, ClaimSecret, GetRange, GetTombstone, GetSecretIgnoringExpiry,
     EraseObject, DeleteSecret
<1>4. ASSUME NEW w \in Workers, Cycle(w) PROVE faults' \in Nat
  <2>1. CASE StartCycle(w) \/ SelectSecrets(w)
    BY <2>1 DEF StartCycle, SelectSecrets
  <2>2. CASE DeleteExpiredRetrievalSessions(w) \/ DeleteExpiredTombstones(w)
    BY <2>2 DEF DeleteExpiredRetrievalSessions, DeleteExpiredTombstones
  <2>3. CASE DeleteObject(w)
    BY <2>3 DEF DeleteObject
  <2>4. CASE DeleteExpired(w)
    BY <2>4 DEF DeleteExpired
  <2> QED
    BY <1>4, <2>1, <2>2, <2>3, <2>4 DEF Cycle
<1>5. ASSUME NEW x, (AbandonRequest(x) \/ AbandonCycle(x) \/ LoseConnection(x))
      PROVE faults' \in Nat
  BY <1>5 DEF AbandonRequest, AbandonCycle, LoseConnection
<1> QED
  BY <1>1, <1>2, <1>3, <1>4, <1>5 DEF Next

\* What the types of the next state need beyond the two lemmas above.
ChangesOK ==
  /\ clock \in Times /\ TablesOK /\ StonesOK /\ LockOK /\ RequestsOK
  /\ worker \in [Workers -> Cycles]
  /\ asked \subseteq Secrets /\ ToldOK /\ cut \in Tokens \cup {None}

\* The steps of requests keep the types.
LEMMA RequestTypes ==
  ASSUME TypeInv, NEW r \in Requests, Arrive(r) \/ Handle(r) \/ AbandonRequest(r)
  PROVE  ChangesOK'
<1>0. ChangesOK
  BY TypeParts DEF ChangesOK
<1> USE <1>0 DEF ChangesOK, table, history
<1>1. CASE StartRetrievalSession(r)
  BY <1>1, OpenFacts DEF StartRetrievalSession, TablesOK, StonesOK, LockOK, ToldOK
<1>2. CASE RetrieveSecretRange(r)
  BY <1>2, RangeFacts DEF RetrieveSecretRange, TablesOK, StonesOK, LockOK, ToldOK
<1>3. CASE authenticateMetadata(r)
  BY <1>3, LookFacts DEF authenticateMetadata, TablesOK, StonesOK, LockOK, ToldOK
<1>4. CASE LockSecret(r)
  BY <1>4, LockFacts DEF LockSecret, TablesOK, StonesOK, ToldOK
<1>5. CASE ClaimSecret(r)
  <2>1. RequestsOK' /\ LockOK' /\ ToldOK'
        /\ UNCHANGED <<clock, rows, objects, worker, asked, cut>>
    BY <1>5, ClaimFacts, Ended, UnlockedType DEF LockOK, TypeInv, ToldOK
  <2>2. CASE UNCHANGED <<opened, tomb, first, sessions, granted>>
    BY <2>1, <2>2 DEF TablesOK, StonesOK
  <2>3. ASSUME NEW g \in Grants, ClaimedBy(r, g) PROVE TablesOK' /\ StonesOK'
    <3>1. StonesOK'
      BY <1>5, <2>3, ClaimFacts, ClaimStones
    <3>2. TablesOK'
      BY <1>5, <2>1, <2>3, ClaimFacts DEF ClaimedBy, MarkOpened, TablesOK
    <3> QED
      BY <3>1, <3>2
  <2> QED
    BY <1>5, <2>1, <2>2, <2>3, ClaimFacts
<1>6. CASE GetRange(r)
  <2>1. ctx[r].t \in Tokens
    BY <1>6 DEF GetRange, TypeInv, CtxOK
  <2> QED
    BY <1>6, <2>1, Ended DEF GetRange, TablesOK, StonesOK, LockOK, ToldOK
<1>7. CASE GetTombstone(r)
  <2>1. UNCHANGED <<clock, table, lock, objects, worker, granted, asked, first, cut>>
        /\ pc[r] = "tomb" /\ ctx[r].p \in Secrets
    BY <1>7 DEF GetTombstone, TypeInv, CtxOK
  <2>2. CASE tomb[ctx[r].p] # None /\ Answer(r, tomb[ctx[r].p].outcome)
    <3>1. tomb[ctx[r].p].outcome \in Outcomes \cup {"unknown"}
      BY <2>1, <2>2 DEF StonesOK, Tombstones
    <3>2. ToldOK' /\ RequestsOK'
      BY <2>1, <2>2, <3>1, AnswerType, Ended
    <3> QED
      BY <2>1, <3>2 DEF TablesOK, StonesOK, LockOK
  <2>3. CASE Goto(r, "row") /\ UNCHANGED <<ctx, told>>
    <3>1. RequestsOK'
      BY <2>1, <2>3, WentOn DEF Steps
    <3> QED
      BY <2>1, <2>3, <3>1 DEF TablesOK, StonesOK, LockOK, ToldOK
  <2> QED
    BY <1>7, <2>2, <2>3 DEF GetTombstone
<1>8. CASE GetSecretIgnoringExpiry(r)
  <2>1. PICK outcome \in {"expired", "unknown"} : Answer(r, outcome) /\ pc[r] = "row"
    BY <1>8 DEF GetSecretIgnoringExpiry
  <2>2. outcome \in Outcomes \cup {"unknown"}
    BY DEF Outcomes
  <2>3. ToldOK' /\ RequestsOK'
    BY <2>1, <2>2, AnswerType, Ended
  <2> QED
    BY <1>8, <2>3 DEF GetSecretIgnoringExpiry, TablesOK, StonesOK, LockOK
<1>9. CASE EraseObject(r)
  <2>1. RequestsOK' /\ objects' \subseteq objects
    BY <1>9, EraseFacts
  <2> QED
    BY <1>9, <2>1 DEF EraseObject, TablesOK, StonesOK, LockOK, ToldOK
<1>10. CASE DeleteSecret(r)
  <2>1. RequestsOK' /\ UNCHANGED <<clock, opened, lock, objects, worker, granted, asked, told, cut>>
    BY <1>10, DeleteFacts, Ended
  <2>2. CASE UNCHANGED <<rows, sessions, tomb, first>>
    BY <2>1, <2>2 DEF TablesOK, StonesOK, LockOK, ToldOK
  <2>3. CASE DeletedBy(r)
    <3>1. StonesOK'
      BY <1>10, <2>3, DeleteFacts, DeleteStones
    <3>2. TablesOK'
      BY <2>1, <2>3 DEF DeletedBy, DeleteRows, TablesOK
    <3> QED
      BY <2>1, <3>1, <3>2 DEF LockOK, ToldOK
  <2> QED
    BY <1>10, <2>2, <2>3, DeleteFacts
<1>11. CASE AbandonRequest(r)
  BY <1>11, Ended, UnlockedType DEF AbandonRequest, TablesOK, StonesOK, LockOK, ToldOK, TypeInv
<1> QED
  BY <1>1, <1>2, <1>3, <1>4, <1>5, <1>6, <1>7, <1>8, <1>9, <1>10, <1>11 DEF Arrive, Handle

\* The steps of workers keep the types.
LEMMA WorkerTypes ==
  ASSUME TypeInv, NEW w \in Workers, Cycle(w) \/ AbandonCycle(w)
  PROVE  ChangesOK'
<1>0. ChangesOK
  BY TypeParts DEF ChangesOK
<1> USE <1>0 DEF ChangesOK, table, history
<1>r. UNCHANGED <<pc, ctx>> => RequestsOK'
  BY DEF RequestsOK, CtxOK
<1>1. CASE StartCycle(w)
  BY <1>1, <1>r, CycleFacts DEF StartCycle, TablesOK, StonesOK, LockOK, ToldOK
<1>2. CASE DeleteExpiredRetrievalSessions(w)
  BY <1>2, <1>r, Entered
  DEF DeleteExpiredRetrievalSessions, TablesOK, StonesOK, LockOK, ToldOK
<1>3. CASE SelectSecrets(w)
  BY <1>3, <1>r, SelectFacts DEF SelectSecrets, TablesOK, StonesOK, LockOK, ToldOK
<1>4. CASE DeleteObject(w)
  <2>1. worker' \in [Workers -> Cycles] /\ objects' \subseteq objects
    BY <1>4, ObjectFacts
  <2> QED
    BY <1>4, <1>r, <2>1 DEF DeleteObject, TablesOK, StonesOK, LockOK, ToldOK
<1>5. CASE DeleteExpired(w)
  <2>1. /\ worker' \in [Workers -> Cycles] /\ LockOK' /\ RequestsOK'
        /\ UNCHANGED <<clock, opened, objects, granted, asked, told, cut>>
    BY <1>5, <1>r, ExpireFacts, Entered, UnlockedType DEF LockOK, TypeInv
  <2>2. CASE UNCHANGED <<rows, sessions, tomb, first>>
    BY <2>1, <2>2 DEF TablesOK, StonesOK, ToldOK
  <2>3. CASE RemovedBy(w)
    <3>1. StonesOK'
      BY <2>3, ExpireStones
    <3>2. TablesOK'
      BY <2>1, <2>3 DEF RemovedBy, DeleteRows, TablesOK
    <3> QED
      BY <2>1, <3>1, <3>2 DEF ToldOK
  <2> QED
    BY <1>5, <2>2, <2>3, ExpireFacts
<1>6. CASE DeleteExpiredTombstones(w)
  <2>1. worker' \in [Workers -> Cycles]
    BY <1>6, IdledFacts DEF DeleteExpiredTombstones
  <2>2. StonesOK'
    BY <1>6 DEF DeleteExpiredTombstones, StonesOK
  <2> QED
    BY <1>6, <1>r, <2>1, <2>2 DEF DeleteExpiredTombstones, TablesOK, LockOK, ToldOK
<1>7. CASE AbandonCycle(w)
  BY <1>7, <1>r, IdledFacts, UnlockedType
  DEF AbandonCycle, TablesOK, StonesOK, LockOK, ToldOK, TypeInv
<1> QED
  BY <1>1, <1>2, <1>3, <1>4, <1>5, <1>6, <1>7 DEF Cycle

\* Every step keeps the types.
LEMMA TypeStep == TypeInv /\ [Next]_vars => TypeInv'
<1> SUFFICES ASSUME TypeInv, [Next]_vars PROVE TypeInv'
  OBVIOUS
<1>1. ASSUME ChangesOK' PROVE TypeInv'
  <2>1. burn' \subseteq Secrets /\ expires' \in [Secrets -> Nat] /\ faults' \in Nat
    BY KindIsFixed, FaultsAreCounted DEF TypeInv, TypeOK
  <2> QED
    BY <1>1, <2>1 DEF ChangesOK, TypeInv, TypeOK, TablesOK, StonesOK, LockOK, RequestsOK, ToldOK
<1>2. CASE Tick
  <2>1. clock' \in Times
    BY <1>2, SecretsAssumption DEF Tick, TypeInv, TypeOK, Times
  <2> QED
    BY <1>1, <1>2, <2>1, TypeParts DEF Tick, table, history, ChangesOK, TablesOK, StonesOK, LockOK,
       RequestsOK, CtxOK, ToldOK
<1>3. ASSUME NEW r \in Requests, Arrive(r) \/ Handle(r) \/ AbandonRequest(r) PROVE TypeInv'
  BY <1>1, <1>3, RequestTypes
<1>4. ASSUME NEW w \in Workers, Cycle(w) \/ AbandonCycle(w) PROVE TypeInv'
  BY <1>1, <1>4, WorkerTypes
<1>5. ASSUME NEW by, LoseConnection(by) PROVE TypeInv'
  BY <1>1, <1>5, TypeParts, UnlockedType DEF LoseConnection, table, history, ChangesOK, TablesOK,
     StonesOK, LockOK, RequestsOK, CtxOK, ToldOK, TypeInv
<1>6. CASE UNCHANGED vars
  BY <1>1, <1>6, TypeParts DEF vars, table, history, ChangesOK, TablesOK, StonesOK, LockOK,
     RequestsOK, CtxOK, ToldOK
<1> QED
  BY <1>2, <1>3, <1>4, <1>5, <1>6 DEF Next

-----------------------------------------------------------------------------
(* The inductive invariants.                                                *)

\* Whoever removes a row has removed the object before: a request that is about
\* to forget the secret, and a worker for what it has set down as removable.
ObjectsInv ==
  /\ ObjectGoesFirst
  /\ \A r \in Requests : pc[r] = "forget" => ctx[r].p \notin objects
  /\ \A w \in Workers : worker[w].removable \cap objects = {}

\* A one-time secret with a session is marked, so no second one is granted.
OpeningInv ==
  /\ \A g \in granted : g.p \in burn => g.p \in opened
  /\ \A g, h \in granted : g.p = h.p /\ g.p \in burn => g = h

\* A token belongs to one request or one session.
TokensInv ==
  /\ \A g, h \in granted : g.t = h.t => g = h
  /\ \A r \in Requests : pc[r] \in {"open", "claim"} =>
       /\ \A g \in granted : g.t # ctx[r].t
       /\ \A q \in Requests : q # r /\ pc[q] \in {"open", "claim"} => ctx[q].t # ctx[r].t
  /\ \A r \in Requests : pc[r] = "range" => \E g \in granted : g.p = ctx[r].p /\ g.t = ctx[r].t
  /\ cut # None => \E g \in granted : g.t = cut

\* Nobody may still read the secret: it has expired, or it is used up and its
\* sessions have run out.
Over(p) ==
  \/ expires[p] <= clock
  \/ Consumed(p) /\ \A g \in granted : g.p = p => g.until <= clock

\* Times that were read are past; a session leaves the table only when it has
\* run out or with its row; a worker takes, and storage has lost, only what is
\* over or what the owner has asked for.
ReadingInv ==
  /\ \A w \in Workers : worker[w].now <= clock
  /\ \A g \in granted : g \in sessions \/ g.until <= clock \/ g.p \notin rows
  /\ \A r \in Requests : pc[r] = "erase" => ctx[r].p \in asked
  /\ \A w \in Workers : \A p \in worker[w].todo : Over(p)
  /\ \A p \in Secrets : p \in objects \/ p \in asked \/ Over(p)
  /\ DownloadSurvives

\* The time up to which the tombstone of a secret is promised to stay.
Retained(p) == clock < expires[p] + Retention

Recorded(p) ==
  /\ tomb[p] # None => (tomb[p].first <=> ByRecipient(p))
  /\ p \in rows \ burn => (p \in opened <=> ByRecipient(p))

\* A row that somebody has locked is there.
LocksInv == \A p \in Secrets : lock[p] # None => p \in rows

\* What is on record of one secret: its tombstone is the first outcome, as long
\* as it is promised to stay; it comes with the end of the secret, and nothing
\* writes over it.
StoneInv(p) ==
  /\ p \in rows /\ tomb[p] # None => Consumed(p)
  /\ tomb[p] # None => tomb[p].keep >= expires[p] + Retention
  /\ first[p] = "none" => tomb[p] = None
  /\ p \in burn /\ GrantsOf(p) # {} => first[p] # "none"
  /\ p \in rows \ burn => (p \in opened <=> ByRecipient(p))
  /\ Retained(p) /\ tomb[p] = None => first[p] = "none"
  /\ Retained(p) /\ tomb[p] # None => tomb[p].outcome = first[p]
  /\ Retained(p) /\ tomb[p] # None => (tomb[p].first <=> ByRecipient(p))

TimesInv ==
  /\ \A w \in Workers : worker[w].now <= clock
  /\ \A r \in Requests : ctx[r].now <= clock

StonesInv == \A p \in Secrets : StoneInv(p)

\* A request that has seen an outcome on record finds it there; it turns to the
\* row for an answer only when the tombstone is no longer promised to stay.
Heard(r) ==
  pc[r] # "idle" /\ ctx[r].seen \in {"opened", "deleted"} =>
    /\ first[ctx[r].p] = ctx[r].seen
    /\ pc[r] = "row" => ~Retained(ctx[r].p)

AnswersInv ==
  /\ \A r \in Requests : Heard(r)
  /\ told # None /\ Retained(told.p) => FirstOutcomeStays

-----------------------------------------------------------------------------
(* The object goes first.                                                   *)

\* What the steps of requests that neither erase nor delete have in common.
LookingStep(r) ==
  Arrive(r) \/ LockSecret(r) \/ ClaimSecret(r) \/ GetRange(r) \/ GetTombstone(r)
  \/ GetSecretIgnoringExpiry(r) \/ AbandonRequest(r)

\* Such a step touches neither rows nor objects nor workers, and one request.
LEMMA LookingFacts ==
  ASSUME TypeInv, NEW r \in Requests, LookingStep(r)
  PROVE  /\ UNCHANGED <<clock, rows, objects, worker>>
         /\ pc'[r] # "forget"
         /\ \A q \in Requests : q # r => pc'[q] = pc[q] /\ ctx'[q] = ctx[q]
<1> USE DEF table
<1>1. CASE StartRetrievalSession(r)
  BY <1>1, OpenFacts DEF StartRetrievalSession
<1>2. CASE RetrieveSecretRange(r)
  BY <1>2, RangeFacts DEF RetrieveSecretRange
<1>3. CASE authenticateMetadata(r)
  BY <1>3, LookFacts DEF authenticateMetadata
<1>4. CASE LockSecret(r)
  BY <1>4, LockFacts DEF LockSecret
<1>5. CASE ClaimSecret(r)
  BY <1>5, ClaimFacts, Ended
<1>6. CASE GetRange(r)
  BY <1>6, Ended DEF GetRange
<1>7. CASE GetTombstone(r)
  <2>1. CASE Done(r)
    BY <1>7, <2>1, Ended DEF GetTombstone
  <2>2. CASE Goto(r, "row") /\ UNCHANGED ctx
    <3>1. pc[r] = "tomb" /\ "row" \in Steps
      BY <1>7 DEF GetTombstone, Steps
    <3> QED
      BY <1>7, <2>2, <3>1, WentOn DEF GetTombstone
  <2> QED
    BY <1>7, <2>1, <2>2 DEF GetTombstone, Answer
<1>8. CASE GetSecretIgnoringExpiry(r)
  BY <1>8, Ended DEF GetSecretIgnoringExpiry, Answer
<1>9. CASE AbandonRequest(r)
  BY <1>9, Ended DEF AbandonRequest
<1> QED
  BY <1>1, <1>2, <1>3, <1>4, <1>5, <1>6, <1>7, <1>8, <1>9 DEF LookingStep, Arrive

\* Every step keeps the objects within the rows.
LEMMA ObjectsStep == TypeInv /\ ObjectsInv /\ [Next]_vars => ObjectsInv'
<1> SUFFICES ASSUME TypeInv, ObjectsInv, [Next]_vars PROVE ObjectsInv'
  OBVIOUS
<1> USE DEF ObjectsInv, ObjectGoesFirst, table
<1>1. CASE Tick \/ UNCHANGED vars
  BY <1>1 DEF Tick, vars
<1>2. ASSUME NEW r \in Requests, LookingStep(r) PROVE ObjectsInv'
  BY <1>2, LookingFacts
<1>3. ASSUME NEW r \in Requests, EraseObject(r) PROVE ObjectsInv'
  <2>1. UNCHANGED <<rows, worker>> /\ objects' \subseteq objects
    BY <1>3, EraseFacts DEF EraseObject
  <2>2. \A q \in Requests : pc'[q] = "forget" => ctx'[q].p \notin objects'
    BY <1>3, <2>1, EraseFacts
  <2> QED
    BY <2>1, <2>2
<1>4. ASSUME NEW r \in Requests, DeleteSecret(r) PROVE ObjectsInv'
  <2>1. /\ UNCHANGED <<objects, worker>> /\ pc'[r] = "idle"
        /\ \A q \in Requests : q # r => pc'[q] = pc[q] /\ ctx'[q] = ctx[q]
    BY <1>4, DeleteFacts, Ended
  <2>2. objects \subseteq rows'
    BY <1>4, DeleteFacts DEF DeletedBy, DeleteRows
  <2> QED
    BY <2>1, <2>2
<1>5. ASSUME NEW w \in Workers, StartCycle(w) \/ DeleteExpiredRetrievalSessions(w) PROVE ObjectsInv'
  <2>1. worker'[w].removable = worker[w].removable /\ OthersStay(w)
    BY <1>5, CycleFacts, Entered DEF DeleteExpiredRetrievalSessions
  <2> QED
    BY <1>5, <2>1 DEF StartCycle, DeleteExpiredRetrievalSessions, OthersStay
<1>6. ASSUME NEW w \in Workers, SelectSecrets(w) PROVE ObjectsInv'
  BY <1>6, SelectFacts DEF SelectSecrets, OthersStay
<1>7. ASSUME NEW w \in Workers, DeleteObject(w) PROVE ObjectsInv'
  <2>1. UNCHANGED <<rows, pc, ctx>> /\ objects' \subseteq objects
    BY <1>7, ObjectFacts DEF DeleteObject
  <2>2. \A v \in Workers : worker'[v].removable \cap objects' = {}
    BY <1>7, <2>1, ObjectFacts DEF OthersStay
  <2> QED
    BY <2>1, <2>2
<1>8. ASSUME NEW w \in Workers, DeleteExpired(w) PROVE ObjectsInv'
  <2>1. /\ UNCHANGED <<objects, pc, ctx>>
        /\ worker'[w].removable = worker[w].removable /\ OthersStay(w)
    BY <1>8, ExpireFacts, Entered
  <2>2. objects \subseteq rows'
    BY <1>8, ExpireFacts DEF RemovedBy, DeleteRows, Gone
  <2> QED
    BY <2>1, <2>2 DEF OthersStay
<1>9. ASSUME NEW w \in Workers, DeleteExpiredTombstones(w) \/ AbandonCycle(w) PROVE ObjectsInv'
  <2>1. worker'[w].removable = {} /\ OthersStay(w)
    BY <1>9, IdledFacts DEF DeleteExpiredTombstones, AbandonCycle
  <2> QED
    BY <1>9, <2>1 DEF DeleteExpiredTombstones, AbandonCycle, OthersStay
<1>10. ASSUME NEW by, LoseConnection(by) PROVE ObjectsInv'
  BY <1>10 DEF LoseConnection
<1> QED
  BY <1>1, <1>2, <1>3, <1>4, <1>5, <1>6, <1>7, <1>8, <1>9, <1>10
  DEF Next, Handle, Cycle, LookingStep

-----------------------------------------------------------------------------
(* A one-time secret opens once, under a token of its own.                  *)

\* Only ClaimSecret grants, marks and records that a secret was opened.
LEMMA GrantsStay ==
  ASSUME TypeInv, [Next]_vars, ~\E r \in Requests : ClaimSecret(r)
  PROVE  UNCHANGED <<granted, opened>>
<1> USE DEF table, history
<1>1. CASE Tick \/ UNCHANGED vars
  BY <1>1 DEF Tick, vars
<1>2. ASSUME NEW r \in Requests, Arrive(r) PROVE UNCHANGED <<granted, opened>>
  BY <1>2 DEF Arrive, StartRetrievalSession, RetrieveSecretRange, authenticateMetadata
<1>3. ASSUME NEW r \in Requests, Handle(r), ~ClaimSecret(r) PROVE UNCHANGED <<granted, opened>>
  BY <1>3 DEF Handle, LockSecret, GetRange, GetTombstone, GetSecretIgnoringExpiry, EraseObject,
     DeleteSecret
<1>4. ASSUME NEW w \in Workers, Cycle(w) PROVE UNCHANGED <<granted, opened>>
  BY <1>4 DEF Cycle, StartCycle, DeleteExpiredRetrievalSessions, SelectSecrets, DeleteObject,
     DeleteExpired, DeleteExpiredTombstones
<1>5. ASSUME NEW x, (AbandonRequest(x) \/ AbandonCycle(x) \/ LoseConnection(x))
      PROVE UNCHANGED <<granted, opened>>
  BY <1>5 DEF AbandonRequest, AbandonCycle, LoseConnection
<1> QED
  BY <1>1, <1>2, <1>3, <1>4, <1>5 DEF Next

\* Every step keeps the sessions of a one-time secret at one.
LEMMA OpeningStep == TypeInv /\ OpeningInv /\ [Next]_vars => OpeningInv'
<1> SUFFICES ASSUME TypeInv, OpeningInv, [Next]_vars PROVE OpeningInv'
  OBVIOUS
<1> USE DEF OpeningInv
<1>0. UNCHANGED burn
  BY KindIsFixed
<1>1. CASE UNCHANGED <<granted, opened>>
  BY <1>0, <1>1
<1>2. ASSUME NEW r \in Requests, ClaimSecret(r), ~UNCHANGED <<granted, opened>> PROVE OpeningInv'
  <2>1. PICK g \in Grants : ClaimedBy(r, g)
    BY <1>2, ClaimFacts
  <2>2. g.p \in burn => g.p \notin opened
    BY <2>1 DEF ClaimedBy, Consumed
  <2>3. granted' = granted \cup {g} /\ opened \subseteq opened' /\ (g.p \in burn => g.p \in opened')
    BY <2>1 DEF ClaimedBy, MarkOpened
  <2> QED
    BY <1>0, <2>2, <2>3
<1> QED
  BY <1>1, <1>2, GrantsStay

\* Every step keeps the tokens apart.
LEMMA TokensStep == TypeInv /\ TokensInv /\ [Next]_vars => TokensInv'
<1> SUFFICES ASSUME TypeInv, TokensInv, [Next]_vars PROVE TokensInv'
  OBVIOUS
<1> DEFINE Waiting == {"open", "claim"}
           MovedOn(r) == /\ UNCHANGED <<granted, cut>>
                         /\ pc'[r] \in Waiting => pc[r] \in Waiting /\ ctx'[r] = ctx[r]
                         /\ pc'[r] # "range"
                         /\ \A q \in Requests : q # r => pc'[q] = pc[q] /\ ctx'[q] = ctx[q]
<1> USE DEF TokensInv, table, history
<1>1. CASE UNCHANGED <<pc, ctx, granted, cut>>
  BY <1>1
<1>2. ASSUME NEW r \in Requests, MovedOn(r) PROVE TokensInv'
  BY <1>2
<1>3. ASSUME NEW r \in Requests, StartRetrievalSession(r) PROVE TokensInv'
  <2>1. /\ UNCHANGED <<granted, cut>> /\ pc'[r] = "open"
        /\ \A q \in Requests : q # r => pc'[q] = pc[q] /\ ctx'[q] = ctx[q]
    BY <1>3, OpenFacts DEF StartRetrievalSession
  <2>2. /\ \A g \in granted : g.t # ctx'[r].t
        /\ \A q \in Requests : ctx[q].t # ctx'[r].t
    BY <1>3, OpenFacts DEF IssuedTokens
  <2> QED
    BY <2>1, <2>2
<1>4. ASSUME NEW r \in Requests, RetrieveSecretRange(r) PROVE TokensInv'
  <2>1. /\ UNCHANGED <<granted, cut>> /\ pc'[r] = "range"
        /\ \E g \in granted : g.p = ctx'[r].p /\ g.t = ctx'[r].t
        /\ \A q \in Requests : q # r => pc'[q] = pc[q] /\ ctx'[q] = ctx[q]
    BY <1>4, RangeFacts DEF RetrieveSecretRange, TypeInv, TypeOK
  <2> QED
    BY <2>1
<1>5. ASSUME NEW r \in Requests, authenticateMetadata(r) PROVE TokensInv'
  BY <1>2, <1>5, LookFacts DEF authenticateMetadata
<1>6. ASSUME NEW r \in Requests, LockSecret(r) PROVE TokensInv'
  BY <1>2, <1>6, LockFacts DEF LockSecret
<1>7. ASSUME NEW r \in Requests, ClaimSecret(r) PROVE TokensInv'
  <2>1. /\ pc'[r] = "idle" /\ pc[r] = "claim" /\ UNCHANGED cut
        /\ \A q \in Requests : q # r => pc'[q] = pc[q] /\ ctx'[q] = ctx[q]
    BY <1>7, ClaimFacts, Ended
  <2>2. CASE UNCHANGED granted
    BY <1>2, <2>1, <2>2
  <2>3. CASE ~UNCHANGED granted
    <3>1. PICK g : granted' = granted \cup {g} /\ g.t = ctx[r].t
      BY <1>7, <2>3, ClaimFacts DEF ClaimedBy
    <3> QED
      BY <2>1, <3>1
  <2> QED
    BY <2>2, <2>3
<1>8. ASSUME NEW r \in Requests, GetRange(r) PROVE TokensInv'
  <2>1. /\ UNCHANGED granted /\ pc[r] = "range" /\ pc'[r] = "idle"
        /\ cut' = cut \/ cut' = ctx[r].t
        /\ \A q \in Requests : q # r => pc'[q] = pc[q] /\ ctx'[q] = ctx[q]
    BY <1>8, Ended DEF GetRange
  <2> QED
    BY <2>1
<1>9. ASSUME NEW r \in Requests, GetTombstone(r) \/ GetSecretIgnoringExpiry(r) PROVE TokensInv'
  <2>1. UNCHANGED <<granted, cut>> /\ (Done(r) \/ (Goto(r, "row") /\ UNCHANGED ctx))
    BY <1>9 DEF GetTombstone, GetSecretIgnoringExpiry, Answer
  <2>2. CASE Done(r)
    BY <1>2, <2>1, <2>2, Ended
  <2>3. CASE Goto(r, "row") /\ UNCHANGED ctx
    BY <1>2, <2>1, <2>3 DEF Goto, TypeInv, TypeOK
  <2> QED
    BY <2>1, <2>2, <2>3
<1>10. ASSUME NEW r \in Requests, EraseObject(r) PROVE TokensInv'
  BY <1>2, <1>10, EraseFacts DEF EraseObject
<1>11. ASSUME NEW r \in Requests, DeleteSecret(r) PROVE TokensInv'
  BY <1>2, <1>11, DeleteFacts, Ended
<1>12. ASSUME NEW r \in Requests, AbandonRequest(r) PROVE TokensInv'
  BY <1>2, <1>12, Ended DEF AbandonRequest
<1>13. CASE Tick \/ UNCHANGED vars
  BY <1>1, <1>13 DEF Tick, vars
<1>14. ASSUME NEW w \in Workers, Cycle(w) PROVE TokensInv'
  BY <1>1, <1>14 DEF Cycle, StartCycle, DeleteExpiredRetrievalSessions, SelectSecrets, DeleteObject,
     DeleteExpired, DeleteExpiredTombstones
<1>15. ASSUME NEW x, AbandonCycle(x) \/ LoseConnection(x) PROVE TokensInv'
  BY <1>1, <1>15 DEF AbandonCycle, LoseConnection
<1> QED
  BY <1>3, <1>4, <1>5, <1>6, <1>7, <1>8, <1>9, <1>10, <1>11, <1>12, <1>13, <1>14, <1>15
  DEF Next, Arrive, Handle

-----------------------------------------------------------------------------
(* A download that was let in finds its object.                             *)

\* Time does not go back.
LEMMA ClockAdvances == TypeInv /\ [Next]_vars => clock \in Nat /\ clock' \in Nat /\ clock <= clock'
<1> SUFFICES ASSUME TypeInv, [Next]_vars PROVE clock \in Nat /\ clock' \in Nat /\ clock <= clock'
  OBVIOUS
<1>0. clock \in Nat
  BY DEF TypeInv, TypeOK, Times
<1>1. CASE Tick
  BY <1>0, <1>1 DEF Tick
<1>2. CASE UNCHANGED clock
  BY <1>0, <1>2
<1>3. ASSUME NEW r \in Requests, Arrive(r) \/ Handle(r) PROVE UNCHANGED clock
  BY <1>3 DEF Arrive, StartRetrievalSession, RetrieveSecretRange, authenticateMetadata, Handle,
     LockSecret, ClaimSecret, GetRange, GetTombstone, GetSecretIgnoringExpiry, EraseObject,
     DeleteSecret
<1>4. ASSUME NEW w \in Workers, Cycle(w) PROVE UNCHANGED clock
  BY <1>4 DEF Cycle, StartCycle, DeleteExpiredRetrievalSessions, SelectSecrets, DeleteObject,
     DeleteExpired, DeleteExpiredTombstones
<1>5. ASSUME NEW x, AbandonRequest(x) \/ AbandonCycle(x) \/ LoseConnection(x) PROVE UNCHANGED clock
  BY <1>5 DEF AbandonRequest, AbandonCycle, LoseConnection
<1> QED
  BY <1>1, <1>2, <1>3, <1>4, <1>5 DEF Next, vars

\* Workers go by times they have read, and by batches they have chosen.
LEMMA WorkersKnow ==
  ASSUME TypeInv, [Next]_vars, NEW v \in Workers
  PROVE  /\ worker'[v].now \in {worker[v].now, clock, 0}
         /\ worker'[v].todo \subseteq worker[v].todo \/ worker'[v].todo \subseteq Due(worker[v].now)
<1> DEFINE Knows == /\ worker'[v].now \in {worker[v].now, clock, 0}
                    /\ \/ worker'[v].todo \subseteq worker[v].todo
                       \/ worker'[v].todo \subseteq Due(worker[v].now)
<1>1. CASE UNCHANGED worker
  BY <1>1
<1>2. ASSUME NEW w \in Workers, Cycle(w) \/ AbandonCycle(w) PROVE Knows
  <2>1. CASE StartCycle(w)
    BY <2>1, CycleFacts DEF OthersStay
  <2>2. CASE DeleteExpiredRetrievalSessions(w)
    BY <2>2, Entered DEF DeleteExpiredRetrievalSessions, OthersStay
  <2>3. CASE SelectSecrets(w)
    BY <2>3, SelectFacts DEF OthersStay
  <2>4. CASE DeleteObject(w)
    BY <2>4, ObjectFacts DEF OthersStay
  <2>5. CASE DeleteExpired(w)
    BY <2>5, ExpireFacts, Entered DEF OthersStay
  <2>6. CASE DeleteExpiredTombstones(w) \/ AbandonCycle(w)
    <3>1. worker' = [worker EXCEPT ![w] = IdleWorker]
      BY <2>6 DEF DeleteExpiredTombstones, AbandonCycle
    <3> QED
      BY <3>1, IdledFacts DEF OthersStay
  <2> QED
    BY <1>2, <2>1, <2>2, <2>3, <2>4, <2>5, <2>6 DEF Cycle
<1>3. CASE Tick \/ UNCHANGED vars
  BY <1>1, <1>3 DEF Tick, vars
<1>4. ASSUME NEW r \in Requests, Arrive(r) \/ Handle(r) \/ AbandonRequest(r) PROVE UNCHANGED worker
  BY <1>4 DEF Arrive, StartRetrievalSession, RetrieveSecretRange, authenticateMetadata, Handle,
     LockSecret, ClaimSecret, GetRange, GetTombstone, GetSecretIgnoringExpiry, EraseObject,
     DeleteSecret, AbandonRequest
<1>5. ASSUME NEW x, LoseConnection(x) PROVE UNCHANGED worker
  BY <1>5 DEF LoseConnection
<1> QED
  BY <1>1, <1>2, <1>3, <1>4, <1>5 DEF Next

\* Rows only go, and a session goes with its row or when it has run out.
LEMMA SessionsLeave ==
  ASSUME TypeInv, ReadingInv, [Next]_vars
  PROVE  /\ rows' \subseteq rows
         /\ granted' \subseteq granted \cup sessions'
         /\ \A g \in sessions : g \in sessions' \/ g.until <= clock \/ g.p \notin rows'
<1> DEFINE Leave == /\ rows' \subseteq rows
                    /\ granted' \subseteq granted \cup sessions'
                    /\ \A g \in sessions : g \in sessions' \/ g.until <= clock \/ g.p \notin rows'
<1> USE DEF table, history
<1>1. CASE UNCHANGED <<rows, granted, sessions>>
  BY <1>1
<1>2. ASSUME NEW r \in Requests, ClaimSecret(r) PROVE Leave
  BY <1>2, ClaimFacts DEF ClaimedBy
<1>3. ASSUME NEW r \in Requests, DeleteSecret(r) PROVE Leave
  BY <1>3, DeleteFacts DEF DeletedBy, DeleteRows
<1>4. ASSUME NEW w \in Workers, DeleteExpired(w) PROVE Leave
  BY <1>4, ExpireFacts DEF RemovedBy, DeleteRows
<1>5. ASSUME NEW w \in Workers, DeleteExpiredRetrievalSessions(w) PROVE Leave
  <2>1. UNCHANGED <<rows, granted>>
        /\ \A g \in sessions : g \in sessions' \/ ~(g.until >= worker[w].now)
    BY <1>5 DEF DeleteExpiredRetrievalSessions
  <2>2. worker[w].now <= clock /\ worker[w].now \in Nat /\ clock \in Nat
    BY DEF ReadingInv, TypeInv, TypeOK, Cycles, Times
  <2>3. \A g \in sessions : g.until \in Nat
    BY DEF TypeInv, TypeOK, Grants
  <2> QED
    BY <2>1, <2>2, <2>3
<1>6. CASE Tick \/ UNCHANGED vars
  BY <1>1, <1>6 DEF Tick, vars
<1>7. ASSUME NEW r \in Requests, Arrive(r) \/ Handle(r), ~ClaimSecret(r), ~DeleteSecret(r) PROVE Leave
  BY <1>1, <1>7 DEF Arrive, StartRetrievalSession, RetrieveSecretRange, authenticateMetadata, Handle,
     LockSecret, GetRange, GetTombstone, GetSecretIgnoringExpiry, EraseObject
<1>8. ASSUME NEW w \in Workers, Cycle(w), ~DeleteExpired(w), ~DeleteExpiredRetrievalSessions(w)
      PROVE Leave
  BY <1>1, <1>8 DEF Cycle, StartCycle, SelectSecrets, DeleteObject, DeleteExpiredTombstones
<1>9. ASSUME NEW x, AbandonRequest(x) \/ AbandonCycle(x) \/ LoseConnection(x) PROVE Leave
  BY <1>1, <1>9 DEF AbandonRequest, AbandonCycle, LoseConnection
<1> QED
  BY <1>2, <1>3, <1>4, <1>5, <1>6, <1>7, <1>8, <1>9 DEF Next

\* Storage loses what the owner asked to be deleted, and what is over.
LEMMA ObjectsLeave ==
  ASSUME TypeInv, ReadingInv, [Next]_vars, NEW p \in Secrets, p \in objects, p \notin objects'
  PROVE  p \in asked \/ Over(p)
<1>1. CASE UNCHANGED objects
  BY <1>1
<1>2. ASSUME NEW r \in Requests, EraseObject(r) PROVE p \in asked
  BY <1>2, EraseFacts DEF ReadingInv
<1>3. ASSUME NEW w \in Workers, DeleteObject(w) PROVE Over(p)
  BY <1>3, ObjectFacts DEF ReadingInv
<1>4. CASE Tick \/ UNCHANGED vars
  BY <1>1, <1>4 DEF Tick, vars
<1>5. ASSUME NEW r \in Requests, Arrive(r) \/ Handle(r), ~EraseObject(r) PROVE UNCHANGED objects
  BY <1>5 DEF Arrive, StartRetrievalSession, RetrieveSecretRange, authenticateMetadata, Handle,
     LockSecret, ClaimSecret, GetRange, GetTombstone, GetSecretIgnoringExpiry, DeleteSecret
<1>6. ASSUME NEW w \in Workers, Cycle(w), ~DeleteObject(w) PROVE UNCHANGED objects
  BY <1>6 DEF Cycle, StartCycle, DeleteExpiredRetrievalSessions, SelectSecrets, DeleteExpired,
     DeleteExpiredTombstones
<1>7. ASSUME NEW x, AbandonRequest(x) \/ AbandonCycle(x) \/ LoseConnection(x)
      PROVE UNCHANGED objects
  BY <1>7 DEF AbandonRequest, AbandonCycle, LoseConnection
<1> QED
  BY <1>1, <1>2, <1>3, <1>4, <1>5, <1>6, <1>7 DEF Next

\* The owner's wish is remembered, and it comes before the object is erased.
LEMMA AskedStays ==
  ASSUME TypeInv, ReadingInv, [Next]_vars
  PROVE  /\ asked \subseteq asked'
         /\ \A r \in Requests : pc'[r] = "erase" => ctx'[r].p \in asked'
<1> DEFINE Stays == /\ asked \subseteq asked'
                    /\ \A r \in Requests : pc'[r] = "erase" => ctx'[r].p \in asked'
<1> USE DEF ReadingInv, table, history
<1>1. CASE UNCHANGED <<asked, pc, ctx>>
  BY <1>1
<1>2. ASSUME NEW r \in Requests, UNCHANGED asked, pc'[r] # "erase",
             \A q \in Requests : q # r => pc'[q] = pc[q] /\ ctx'[q] = ctx[q]
      PROVE Stays
  BY <1>2
<1>3. ASSUME NEW r \in Requests, authenticateMetadata(r) PROVE Stays
  BY <1>3, LookFacts
<1>4. ASSUME NEW r \in Requests, StartRetrievalSession(r) \/ RetrieveSecretRange(r) PROVE Stays
  BY <1>2, <1>4, OpenFacts, RangeFacts DEF StartRetrievalSession, RetrieveSecretRange
<1>5. ASSUME NEW r \in Requests, LockSecret(r) PROVE Stays
  BY <1>2, <1>5, LockFacts DEF LockSecret
<1>6. ASSUME NEW r \in Requests, ClaimSecret(r) \/ DeleteSecret(r) PROVE Stays
  BY <1>2, <1>6, ClaimFacts, DeleteFacts, Ended
<1>7. ASSUME NEW r \in Requests, EraseObject(r) PROVE Stays
  BY <1>2, <1>7, EraseFacts DEF EraseObject
<1>8. ASSUME NEW r \in Requests, GetRange(r) \/ GetSecretIgnoringExpiry(r) \/ AbandonRequest(r)
      PROVE Stays
  BY <1>2, <1>8, Ended DEF GetRange, GetSecretIgnoringExpiry, Answer, AbandonRequest
<1>9. ASSUME NEW r \in Requests, GetTombstone(r) PROVE Stays
  <2>1. CASE Done(r)
    BY <1>2, <1>9, <2>1, Ended DEF GetTombstone
  <2>2. CASE Goto(r, "row") /\ UNCHANGED ctx
    BY <1>2, <1>9, <2>2 DEF GetTombstone, Goto, TypeInv, TypeOK
  <2> QED
    BY <1>9, <2>1, <2>2 DEF GetTombstone, Answer
<1>10. CASE Tick \/ UNCHANGED vars
  BY <1>1, <1>10 DEF Tick, vars
<1>11. ASSUME NEW w \in Workers, Cycle(w) PROVE Stays
  BY <1>1, <1>11 DEF Cycle, StartCycle, DeleteExpiredRetrievalSessions, SelectSecrets, DeleteObject,
     DeleteExpired, DeleteExpiredTombstones
<1>12. ASSUME NEW x, AbandonCycle(x) \/ LoseConnection(x) PROVE Stays
  BY <1>1, <1>12 DEF AbandonCycle, LoseConnection
<1> QED
  BY <1>3, <1>4, <1>5, <1>6, <1>7, <1>8, <1>9, <1>10, <1>11, <1>12 DEF Next, Arrive, Handle

\* What is over stays over: nobody opens what is used up.
LEMMA OverStays ==
  ASSUME TypeInv, [Next]_vars, NEW p \in Secrets, Over(p)
  PROVE  Over(p)'
<1>0. /\ clock \in Nat /\ clock' \in Nat /\ clock <= clock'
      /\ UNCHANGED <<burn, expires>> /\ expires[p] \in Nat
      /\ \A g \in granted : g.until \in Nat
  BY ClockAdvances, KindIsFixed DEF TypeInv, TypeOK, Grants
<1>1. CASE expires[p] <= clock
  BY <1>0, <1>1 DEF Over
<1>2. CASE ~(expires[p] <= clock)
  <2>1. Consumed(p) /\ \A g \in granted : g.p = p => g.until <= clock
    BY <1>2 DEF Over
  <2>2. opened \subseteq opened' /\ \A g \in granted' \ granted : g.p # p
    <3>1. CASE UNCHANGED <<granted, opened>>
      BY <3>1
    <3>2. ASSUME NEW r \in Requests, ClaimSecret(r), ~UNCHANGED <<granted, opened>>
          PROVE opened \subseteq opened' /\ \A g \in granted' \ granted : g.p # p
      BY <2>1, <3>2, ClaimFacts DEF ClaimedBy, MarkOpened
    <3> QED
      BY <3>1, <3>2, GrantsStay
  <2>3. Consumed(p)'
    BY <1>0, <2>1, <2>2 DEF Consumed
  <2>4. \A g \in granted' : g.p = p => g.until <= clock'
    BY <1>0, <2>1, <2>2
  <2> QED
    BY <2>3, <2>4 DEF Over
<1> QED
  BY <1>1, <1>2

\* A worker chooses only what is over.
LEMMA DueIsOver ==
  ASSUME TypeInv, ReadingInv, NEW w \in Workers, NEW p \in Due(worker[w].now)
  PROVE  Over(p)
<1>1. worker[w].now <= clock /\ worker[w].now \in Nat /\ clock \in Nat
  BY DEF ReadingInv, TypeInv, TypeOK, Cycles, Times
<1>2. p \in rows /\ p \in Secrets /\ expires[p] \in Nat
  BY DEF Due, TypeInv, TypeOK
<1>3. CASE expires[p] < worker[w].now
  BY <1>1, <1>2, <1>3 DEF Over
<1>4. CASE Consumed(p) /\ \A g \in sessions : g.p = p => g.until <= worker[w].now
  <2>1. ASSUME NEW g \in granted, g.p = p PROVE g.until <= clock
    <3>1. g \in sessions \/ g.until <= clock
      BY <1>2, <2>1 DEF ReadingInv
    <3>2. g.until \in Nat
      BY DEF TypeInv, TypeOK, Grants
    <3> QED
      BY <1>1, <1>4, <2>1, <3>1, <3>2
  <2> QED
    BY <1>4, <2>1 DEF Over
<1> QED
  BY <1>3, <1>4 DEF Due

\* A download is cut off only when the secret was asked for or is over.
LEMMA CutIsExplained ==
  ASSUME TypeInv, TokensInv, ReadingInv, [Next]_vars
  PROVE  DownloadSurvives'
<1>0. /\ clock \in Nat /\ clock' \in Nat /\ clock <= clock'
      /\ UNCHANGED expires /\ asked \subseteq asked'
      /\ \A g \in granted : g.until \in Nat /\ g.p \in Secrets /\ expires[g.p] \in Nat /\ g.t \in Tokens
  BY ClockAdvances, KindIsFixed, AskedStays DEF TypeInv, TypeOK, Grants
<1> SUFFICES ASSUME NEW h \in granted', h.t = cut'
             PROVE h.p \in asked' \/ h.until <= clock' \/ expires'[h.p] <= clock'
  BY DEF DownloadSurvives
<1>1. CASE UNCHANGED <<granted, cut>>
  <2>1. h \in granted /\ h.t = cut
    BY <1>1
  <2>2. h.p \in asked \/ h.until <= clock \/ expires[h.p] <= clock
    BY <2>1 DEF ReadingInv, DownloadSurvives
  <2>3. h.until \in Nat /\ expires[h.p] \in Nat
    BY <1>0, <2>1
  <2> QED
    BY <1>0, <2>2, <2>3
<1>2. ASSUME NEW r \in Requests, ClaimSecret(r), ~UNCHANGED <<granted, cut>> PROVE h \in granted /\ h.t = cut
  <2>1. UNCHANGED cut /\ pc[r] = "claim" /\ ctx[r].t \in Tokens
    BY <1>2, ClaimFacts
  <2>2. PICK g : granted' = granted \cup {g} /\ g.t = ctx[r].t
    BY <1>2, <2>1, ClaimFacts DEF ClaimedBy
  <2>3. cut # ctx[r].t
    BY <2>1, SecretsAssumption DEF TokensInv
  <2> QED
    BY <2>1, <2>2, <2>3
<1>3. ASSUME NEW r \in Requests, GetRange(r), ~UNCHANGED <<granted, cut>>
      PROVE h.p \in asked' \/ h.until <= clock' \/ expires'[h.p] <= clock'
  <2>1. UNCHANGED granted /\ pc[r] = "range" /\ cut' = ctx[r].t /\ ctx[r].p \notin objects
    BY <1>3 DEF GetRange
  <2>2. h \in granted /\ h.p = ctx[r].p
    BY <2>1 DEF TokensInv
  <2>3. h.p \in asked \/ Over(h.p)
    BY <1>0, <2>1, <2>2 DEF ReadingInv
  <2>4. h.p \in asked \/ h.until <= clock \/ expires[h.p] <= clock
    BY <2>2, <2>3 DEF Over
  <2>5. h.until \in Nat /\ expires[h.p] \in Nat
    BY <1>0, <2>2
  <2> QED
    BY <1>0, <2>4, <2>5
<1>4. ASSUME ~\E r \in Requests : ClaimSecret(r) \/ GetRange(r) PROVE UNCHANGED <<granted, cut>>
  <2> USE DEF history
  <2>1. CASE Tick \/ UNCHANGED vars
    BY <2>1 DEF Tick, vars
  <2>2. ASSUME NEW r \in Requests, Arrive(r) PROVE UNCHANGED <<granted, cut>>
    BY <2>2 DEF Arrive, StartRetrievalSession, RetrieveSecretRange, authenticateMetadata
  <2>3. ASSUME NEW r \in Requests, Handle(r) PROVE UNCHANGED <<granted, cut>>
    BY <1>4, <2>3 DEF Handle, LockSecret, GetTombstone, GetSecretIgnoringExpiry, EraseObject,
       DeleteSecret
  <2>4. ASSUME NEW w \in Workers, Cycle(w) PROVE UNCHANGED <<granted, cut>>
    BY <2>4 DEF Cycle, StartCycle, DeleteExpiredRetrievalSessions, SelectSecrets, DeleteObject,
       DeleteExpired, DeleteExpiredTombstones
  <2>5. ASSUME NEW x, AbandonRequest(x) \/ AbandonCycle(x) \/ LoseConnection(x)
        PROVE UNCHANGED <<granted, cut>>
    BY <2>5 DEF AbandonRequest, AbandonCycle, LoseConnection
  <2> QED
    BY <2>1, <2>2, <2>3, <2>4, <2>5 DEF Next
<1>5. CASE h \in granted /\ h.t = cut
  <2>2. h.p \in asked \/ h.until <= clock \/ expires[h.p] <= clock
    BY <1>5 DEF ReadingInv, DownloadSurvives
  <2>3. h.until \in Nat /\ expires[h.p] \in Nat
    BY <1>0, <1>5
  <2> QED
    BY <1>0, <2>2, <2>3
<1> QED
  BY <1>1, <1>2, <1>3, <1>4, <1>5

\* Every step keeps what downloads rely on.
LEMMA ReadingStep == TypeInv /\ TokensInv /\ ReadingInv /\ [Next]_vars => ReadingInv'
<1> SUFFICES ASSUME TypeInv, TokensInv, ReadingInv, [Next]_vars PROVE ReadingInv'
  OBVIOUS
<1>0. clock \in Nat /\ clock' \in Nat /\ clock <= clock'
  BY ClockAdvances
<1>1. \A w \in Workers : worker'[w].now <= clock'
  <2> TAKE w \in Workers
  <2>1. worker[w].now \in Nat /\ worker[w].now <= clock
    BY DEF ReadingInv, TypeInv, TypeOK, Cycles, Times
  <2> QED
    BY <1>0, <2>1, WorkersKnow
<1>2. \A g \in granted' : g \in sessions' \/ g.until <= clock' \/ g.p \notin rows'
  <2> SUFFICES ASSUME NEW g \in granted', g \notin sessions' PROVE g.until <= clock' \/ g.p \notin rows'
    OBVIOUS
  <2>1. g \in granted /\ g.until \in Nat
    BY SessionsLeave DEF TypeInv, TypeOK, Grants
  <2>2. g.until <= clock \/ g.p \notin rows'
    BY <2>1, SessionsLeave DEF ReadingInv
  <2> QED
    BY <1>0, <2>1, <2>2
<1>3. \A r \in Requests : pc'[r] = "erase" => ctx'[r].p \in asked'
  BY AskedStays
<1>4. \A w \in Workers : \A p \in worker'[w].todo : Over(p)'
  <2> TAKE w \in Workers
  <2> TAKE p \in worker'[w].todo
  <2>1. p \in worker[w].todo \/ p \in Due(worker[w].now)
    BY WorkersKnow
  <2>2. p \in Secrets
    BY <2>1 DEF Due, TypeInv, TypeOK, Cycles
  <2>3. Over(p)
    BY <2>1, DueIsOver DEF ReadingInv
  <2> QED
    BY <2>2, <2>3, OverStays
<1>5. \A p \in Secrets : p \in objects' \/ p \in asked' \/ Over(p)'
  <2> TAKE p \in Secrets
  <2>1. p \in objects' \/ p \in asked \/ Over(p)
    BY ObjectsLeave DEF ReadingInv
  <2> QED
    BY <2>1, AskedStays, OverStays
<1> QED
  BY <1>1, <1>2, <1>3, <1>4, <1>5, CutIsExplained DEF ReadingInv

-----------------------------------------------------------------------------
(* The record of what became of a secret.                                   *)

\* Every step keeps the times that were read in the past.
LEMMA TimesStep == TypeInv /\ TimesInv /\ [Next]_vars => TimesInv'
<1> SUFFICES ASSUME TypeInv, TimesInv, [Next]_vars PROVE TimesInv'
  OBVIOUS
<1>0. clock \in Nat /\ clock' \in Nat /\ clock <= clock'
  BY ClockAdvances
<1>1. \A w \in Workers : worker'[w].now <= clock'
  <2> TAKE w \in Workers
  <2>1. worker[w].now \in Nat /\ worker[w].now <= clock
    BY DEF TimesInv, TypeInv, TypeOK, Cycles, Times
  <2> QED
    BY <1>0, <2>1, WorkersKnow
<1>2. \A r \in Requests : ctx'[r].now \in {ctx[r].now, clock, 0}
  <2> DEFINE Known == \A r \in Requests : ctx'[r].now \in {ctx[r].now, clock, 0}
  <2> USE DEF table, history
  <2>1. CASE UNCHANGED ctx
    BY <2>1
  <2>2. ASSUME NEW r \in Requests, Done(r) PROVE Known
    BY <2>2, Ended, NewContexts
  <2>3. ASSUME NEW r \in Requests, Arrive(r) PROVE Known
    BY <2>3, OpenFacts, RangeFacts, LookFacts DEF Arrive
  <2>4. ASSUME NEW r \in Requests, EraseObject(r) PROVE Known
    BY <2>4, EraseFacts, NewContexts
  <2>5. ASSUME NEW r \in Requests, Handle(r) \/ AbandonRequest(r), ~EraseObject(r) PROVE Known
    <3>1. Done(r) \/ UNCHANGED ctx
      BY <2>5 DEF Handle, LockSecret, ClaimSecret, GetRange, GetTombstone, GetSecretIgnoringExpiry,
         Answer, DeleteSecret, AbandonRequest
    <3> QED
      BY <2>1, <2>2, <3>1
  <2>6. CASE Tick \/ UNCHANGED vars
    BY <2>1, <2>6 DEF Tick, vars
  <2>7. ASSUME NEW w \in Workers, Cycle(w) PROVE Known
    BY <2>1, <2>7 DEF Cycle, StartCycle, DeleteExpiredRetrievalSessions, SelectSecrets, DeleteObject,
       DeleteExpired, DeleteExpiredTombstones
  <2>8. ASSUME NEW x, AbandonCycle(x) \/ LoseConnection(x) PROVE Known
    BY <2>1, <2>8 DEF AbandonCycle, LoseConnection
  <2> QED
    BY <2>3, <2>4, <2>5, <2>6, <2>7, <2>8 DEF Next
<1>3. \A r \in Requests : ctx'[r].now <= clock'
  <2> TAKE r \in Requests
  <2>1. ctx[r].now \in Nat /\ ctx[r].now <= clock
    BY DEF TimesInv, TypeInv, TypeOK, Contexts, Times
  <2> QED
    BY <1>0, <1>2, <2>1
<1> QED
  BY <1>1, <1>3 DEF TimesInv

\* Every step keeps the locks on rows that are there.
LEMMA LocksStep == TypeInv /\ LocksInv /\ [Next]_vars => LocksInv'
<1> SUFFICES ASSUME TypeInv, LocksInv, [Next]_vars PROVE LocksInv'
  OBVIOUS
<1> USE DEF LocksInv, table
<1>1. CASE UNCHANGED rows /\ (UNCHANGED lock \/ \E by : lock' = Unlocked(by))
  BY <1>1 DEF Unlocked
<1>2. ASSUME NEW r \in Requests, LockSecret(r) PROVE LocksInv'
  BY <1>2 DEF LockSecret, Visible, TypeInv, TypeOK
<1>3. ASSUME NEW r \in Requests, DeleteSecret(r) PROVE LocksInv'
  <2>1. lock[ctx[r].p] = None /\ UNCHANGED lock
    BY <1>3 DEF DeleteSecret
  <2>2. UNCHANGED rows \/ rows' = rows \ {ctx[r].p}
    <3>1. UNCHANGED rows \/ DeletedBy(r)
      BY <1>3, DeleteFacts
    <3> QED
      BY <3>1 DEF DeletedBy, DeleteRows
  <2> QED
    BY <2>1, <2>2
<1>4. ASSUME NEW w \in Workers, SelectSecrets(w) PROVE LocksInv'
  <2>1. PICK batch \in Batch(worker[w].now) :
          lock' = [p \in Secrets |-> IF p \in batch THEN w ELSE lock[p]]
    BY <1>4 DEF SelectSecrets
  <2>2. batch \subseteq rows
    BY DEF Batch, Due
  <2> QED
    BY <1>4, <2>1, <2>2 DEF SelectSecrets
<1>5. ASSUME NEW w \in Workers, DeleteExpired(w) PROVE LocksInv'
  BY <1>5, ExpireFacts DEF RemovedBy, DeleteRows, Gone, Unlocked
<1>6. CASE Tick \/ UNCHANGED vars
  BY <1>1, <1>6 DEF Tick, vars
<1>7. ASSUME NEW r \in Requests, Arrive(r) \/ Handle(r), ~LockSecret(r), ~DeleteSecret(r)
      PROVE LocksInv'
  BY <1>1, <1>7 DEF Arrive, StartRetrievalSession, RetrieveSecretRange, authenticateMetadata, Handle,
     ClaimSecret, GetRange, GetTombstone, GetSecretIgnoringExpiry, EraseObject
<1>8. ASSUME NEW w \in Workers, Cycle(w), ~SelectSecrets(w), ~DeleteExpired(w) PROVE LocksInv'
  BY <1>1, <1>8 DEF Cycle, StartCycle, DeleteExpiredRetrievalSessions, DeleteObject,
     DeleteExpiredTombstones
<1>9. ASSUME NEW x, AbandonRequest(x) \/ AbandonCycle(x) \/ LoseConnection(x) PROVE LocksInv'
  BY <1>1, <1>9 DEF AbandonRequest, AbandonCycle, LoseConnection
<1> QED
  BY <1>2, <1>3, <1>4, <1>5, <1>6, <1>7, <1>8, <1>9 DEF Next

\* Who writes the record: nobody but these four.
LEMMA RecordUntouched ==
  ASSUME [Next]_vars,
         ~\E r \in Requests : ClaimSecret(r) \/ DeleteSecret(r),
         ~\E w \in Workers : DeleteExpired(w) \/ DeleteExpiredTombstones(w)
  PROVE  UNCHANGED <<tomb, first, rows, opened, granted>>
<1> DEFINE Same == UNCHANGED <<tomb, first, rows, opened, granted>>
<1> USE DEF table, history
<1>1. CASE Tick \/ UNCHANGED vars
  BY <1>1 DEF Tick, vars
<1>2. ASSUME NEW r \in Requests, Arrive(r) \/ Handle(r) PROVE Same
  BY <1>2 DEF Arrive, StartRetrievalSession, RetrieveSecretRange, authenticateMetadata, Handle,
     LockSecret, GetRange, GetTombstone, GetSecretIgnoringExpiry, EraseObject
<1>3. ASSUME NEW w \in Workers, Cycle(w) PROVE Same
  BY <1>3 DEF Cycle, StartCycle, DeleteExpiredRetrievalSessions, SelectSecrets, DeleteObject
<1>4. ASSUME NEW x, AbandonRequest(x) \/ AbandonCycle(x) \/ LoseConnection(x) PROVE Same
  BY <1>4 DEF AbandonRequest, AbandonCycle, LoseConnection
<1> QED
  BY <1>1, <1>2, <1>3, <1>4 DEF Next

\* What is no longer promised to stay does not become so again.
LEMMA RetainedBefore ==
  ASSUME TypeInv, [Next]_vars, NEW p \in Secrets, Retained(p)'
  PROVE  Retained(p)
<1>1. /\ clock \in Nat /\ clock' \in Nat /\ clock <= clock'
      /\ UNCHANGED expires /\ expires[p] \in Nat /\ Retention \in Nat
  BY ClockAdvances, KindIsFixed, SecretsAssumption DEF TypeInv, TypeOK
<1> QED
  BY <1>1 DEF Retained

\* A secret that a step leaves alone, but for its time, keeps its record.
LEMMA StoneStays ==
  ASSUME TypeInv, [Next]_vars, NEW p \in Secrets, StoneInv(p),
         tomb'[p] = tomb[p], first'[p] = first[p], p \in rows' => p \in rows,
         p \in opened' <=> p \in opened, GrantsOf(p)' = GrantsOf(p)
  PROVE  StoneInv(p)'
<1>1. UNCHANGED <<burn, expires>> /\ (Retained(p)' => Retained(p))
  BY KindIsFixed, RetainedBefore
<1>2. ByRecipient(p)' <=> ByRecipient(p)
  BY DEF ByRecipient
<1>3. Consumed(p)' <=> Consumed(p)
  BY <1>1 DEF Consumed
<1> QED
  BY <1>1, <1>2, <1>3 DEF StoneInv

\* Opening a secret records its outcome and who it was.
LEMMA ClaimKeepsStones ==
  ASSUME TypeInv, OpeningInv, [Next]_vars, NEW r \in Requests, ClaimSecret(r),
         NEW p \in Secrets, StoneInv(p)
  PROVE  StoneInv(p)'
<1>0. UNCHANGED <<burn, expires, rows>> /\ (Retained(p)' => Retained(p))
  BY ClaimFacts, RetainedBefore
<1>1. CASE UNCHANGED <<opened, tomb, first, sessions, granted>>
  BY <1>0, <1>1, StoneStays DEF GrantsOf
<1>2. ASSUME NEW g \in Grants, ClaimedBy(r, g) PROVE StoneInv(p)'
  <2>0. /\ g.p = ctx[r].p /\ g.owner = ctx[r].owner
        /\ granted' = granted \cup {g} /\ MarkOpened(g.p, g.owner)
        /\ g.p \in rows /\ ~Consumed(g.p)
    BY <1>2 DEF ClaimedBy, Visible
  <2>1. ctx[r].p \in Secrets /\ ctx[r].now \in Times /\ ctx[r].owner \in BOOLEAN
    BY ClaimFacts
  <2>2. LET new == p = g.p /\ p \in burn /\ tomb[p] = None IN
        /\ new => tomb'[p] = Tombstone(p, "opened", ctx[r].now, ctx[r].owner)
        /\ ~new => tomb'[p] = tomb[p]
        /\ first'[p] = IF new /\ first[p] = "none" THEN "opened" ELSE first[p]
    BY <1>2, <2>1, ClaimStones
  <2>3. CASE p # g.p
    <3>1. (p \in opened' <=> p \in opened) /\ GrantsOf(p)' = GrantsOf(p)
      BY <2>0, <2>3 DEF MarkOpened, GrantsOf
    <3> QED
      BY <1>0, <2>2, <2>3, <3>1, StoneStays
  <2>4. CASE p = g.p /\ p \notin burn
    <3>1. tomb[p] = None /\ tomb'[p] = None /\ first'[p] = first[p]
      BY <2>0, <2>2, <2>4 DEF StoneInv, Consumed
    <3>2. p \in opened' <=> ByRecipient(p)'
      <4>1. p \in opened <=> ByRecipient(p)
        BY <2>0, <2>4 DEF StoneInv
      <4>2. p \in opened' <=> p \in opened \/ ~g.owner
        BY <2>0, <2>4 DEF MarkOpened
      <4>3. ByRecipient(p)' <=> ByRecipient(p) \/ ~g.owner
        BY <2>0, <2>4 DEF ByRecipient, GrantsOf
      <4> QED
        BY <4>1, <4>2, <4>3
    <3> QED
      BY <1>0, <2>4, <3>1, <3>2 DEF StoneInv
  <2>5. CASE p = g.p /\ p \in burn
    <3>1. tomb[p] = None /\ p \notin opened /\ p \in opened'
      BY <2>0, <2>5 DEF StoneInv, Consumed, MarkOpened
    <3>2. GrantsOf(p) = {}
      BY <2>5, <3>1 DEF GrantsOf, OpeningInv
    <3>3. tomb'[p] = Tombstone(p, "opened", ctx[r].now, g.owner) /\ first'[p] # "none"
          /\ (first[p] = "none" => first'[p] = "opened")
      BY <2>0, <2>2, <2>5, <3>1
    <3>4. /\ tomb'[p] \in Tombstones /\ tomb'[p].outcome = "opened"
          /\ tomb'[p].keep >= expires[p] + Retention
      <4>1. "opened" \in Outcomes
        BY DEF Outcomes
      <4> QED
        BY <2>0, <2>1, <3>3, <4>1, TombstoneType DEF TypeInv
    <3>5. tomb'[p].first <=> ByRecipient(p)'
      <4>1. tomb'[p].first <=> ~g.owner
        <5>1. g.owner \in BOOLEAN /\ ~recipientOpenedAt(p)
          BY <2>0, <2>1, <2>5 DEF recipientOpenedAt
        <5> QED
          BY <3>3, <5>1, OpenedStone
      <4>2. ByRecipient(p)' <=> ~g.owner
        BY <2>0, <2>5, <3>2 DEF ByRecipient, GrantsOf
      <4> QED
        BY <4>1, <4>2
    <3>6. tomb'[p] # None /\ Consumed(p)'
      BY <1>0, <2>5, <3>1, <3>4, NoTombstone DEF Consumed
    <3> QED
      BY <1>0, <2>5, <3>1, <3>3, <3>4, <3>5, <3>6 DEF StoneInv
  <2> QED
    BY <2>3, <2>4, <2>5
<1> QED
  BY <1>1, <1>2, ClaimFacts

\* A secret that leaves with a new tombstone leaves a true record: the row says
\* whether a recipient came, and of a one-time secret none has.
LEMMA LeavingKeepsStone ==
  ASSUME TypeInv, [Next]_vars, NEW p \in Secrets, StoneInv(p),
         p \in rows, p \notin rows', tomb[p] = None, UNCHANGED <<opened, granted>>,
         tomb'[p] \in Tombstones, tomb'[p].keep >= expires[p] + Retention,
         tomb'[p].first <=> recipientOpenedAt(p),
         first'[p] = IF first[p] = "none" THEN tomb'[p].outcome ELSE first[p]
  PROVE  StoneInv(p)'
<1>0. UNCHANGED <<burn, expires>> /\ (Retained(p)' => Retained(p))
  BY KindIsFixed, RetainedBefore
<1>1. tomb'[p] # None /\ tomb'[p].outcome # "none"
  BY NoTombstone DEF Tombstones, Outcomes
<1>2. first'[p] # "none" /\ (Retained(p) => first[p] = "none" /\ first'[p] = tomb'[p].outcome)
  BY <1>1 DEF StoneInv
<1>3. ASSUME Retained(p) PROVE tomb'[p].first <=> ByRecipient(p)
  <2>1. CASE p \in burn
    BY <1>2, <1>3, <2>1 DEF StoneInv, recipientOpenedAt, ByRecipient
  <2>2. CASE p \notin burn
    BY <2>2 DEF StoneInv, recipientOpenedAt
  <2> QED
    BY <2>1, <2>2
<1>4. ByRecipient(p)' <=> ByRecipient(p)
  BY DEF ByRecipient, GrantsOf
<1> QED
  BY <1>0, <1>1, <1>2, <1>3, <1>4 DEF StoneInv

\* Every step keeps the records.
LEMMA StonesStep ==
  TypeInv /\ OpeningInv /\ TimesInv /\ LocksInv /\ StonesInv /\ [Next]_vars => StonesInv'
<1> SUFFICES ASSUME TypeInv, OpeningInv, TimesInv, LocksInv, StonesInv, [Next]_vars,
                    NEW p \in Secrets
             PROVE StoneInv(p)'
  BY DEF StonesInv
<1>0. StoneInv(p)
  BY DEF StonesInv
<1>1. CASE UNCHANGED <<tomb, first, rows, opened, granted>>
  BY <1>0, <1>1, StoneStays DEF GrantsOf
<1>2. ASSUME NEW r \in Requests, ClaimSecret(r) PROVE StoneInv(p)'
  BY <1>0, <1>2, ClaimKeepsStones
<1>3. ASSUME NEW r \in Requests, DeleteSecret(r) PROVE StoneInv(p)'
  <2>1. UNCHANGED <<opened, granted>> /\ ctx[r].p \in Secrets /\ ctx[r].now \in Times
    BY <1>3, DeleteFacts
  <2>2. CASE UNCHANGED <<rows, sessions, tomb, first>>
    BY <1>1, <2>1, <2>2
  <2>3. CASE DeletedBy(r)
    <3> DEFINE new == p = ctx[r].p /\ p \in rows /\ tomb[p] = None
    <3>1. /\ new => tomb'[p] = Tombstone(p, "deleted", ctx[r].now, FALSE)
          /\ ~new => tomb'[p] = tomb[p]
          /\ first'[p] = IF new /\ first[p] = "none" THEN "deleted" ELSE first[p]
      BY <2>1, <2>3, DeleteStones
    <3>2. CASE ~new
      BY <1>0, <2>1, <2>3, <3>1, <3>2, StoneStays DEF DeletedBy, DeleteRows, GrantsOf
    <3>3. CASE new
      <4>1. p \in rows /\ p \notin rows' /\ tomb[p] = None
        BY <2>3, <3>3 DEF DeletedBy, DeleteRows
      <4>2. /\ tomb'[p] \in Tombstones /\ tomb'[p].outcome = "deleted"
            /\ tomb'[p].keep >= expires[p] + Retention
            /\ tomb'[p].first <=> recipientOpenedAt(p)
        <5>1. tomb'[p] = Tombstone(p, "deleted", ctx[r].now, FALSE) /\ TypeOK
          BY <3>1, <3>3 DEF TypeInv
        <5> QED
          BY <2>1, <5>1, DeletedStone
      <4>4. first'[p] = IF first[p] = "none" THEN tomb'[p].outcome ELSE first[p]
        BY <3>1, <3>3, <4>2
      <4> QED
        BY <1>0, <2>1, <4>1, <4>2, <4>4, LeavingKeepsStone
    <3> QED
      BY <3>2, <3>3
  <2> QED
    BY <1>3, <2>2, <2>3, DeleteFacts
<1>4. ASSUME NEW w \in Workers, DeleteExpired(w) PROVE StoneInv(p)'
  <2>1. UNCHANGED <<opened, granted>>
    BY <1>4, ExpireFacts
  <2>2. CASE UNCHANGED <<rows, sessions, tomb, first>>
    BY <1>1, <2>1, <2>2
  <2>3. CASE RemovedBy(w)
    <3> DEFINE new == p \in Gone(w) /\ expires[p] < worker[w].now /\ tomb[p] = None
    <3>1. /\ new => tomb'[p] = ExpiredStone(p, worker[w].now)
          /\ ~new => tomb'[p] = tomb[p]
          /\ first'[p] = IF new /\ first[p] = "none" THEN "expired" ELSE first[p]
          /\ StonesOK'
      BY <2>3, ExpireStones
    <3>2. CASE ~new
      BY <1>0, <2>1, <2>3, <3>1, <3>2, StoneStays DEF RemovedBy, DeleteRows, GrantsOf
    <3>3. CASE new
      <4>1. p \in rows /\ p \notin rows' /\ tomb[p] = None
        BY <2>3, <3>3, SecretsAssumption DEF RemovedBy, DeleteRows, Gone, LocksInv
      <4>2. recipientOpenedAt(p) \in BOOLEAN /\ worker[w].now \in Nat /\ expires[p] \in Nat
            /\ Retention \in Nat
        BY SecretsAssumption DEF recipientOpenedAt, TypeInv, TypeOK, Cycles, Times
      <4>3. tomb'[p] \in Tombstones /\ tomb'[p].outcome = "expired"
        BY <3>1, <3>3, <4>2, ExpiredStoneFields
      <4>4. tomb'[p].keep >= expires[p] + Retention
        BY <3>1, <3>3, <4>2 DEF ExpiredStone
      <4>5. tomb'[p].first <=> recipientOpenedAt(p)
        BY <3>1, <3>3, ExpiredStoneFields
      <4>6. first'[p] = IF first[p] = "none" THEN tomb'[p].outcome ELSE first[p]
        BY <3>1, <3>3, <4>3
      <4> QED
        BY <1>0, <2>1, <4>1, <4>3, <4>4, <4>5, <4>6, LeavingKeepsStone
    <3> QED
      BY <3>2, <3>3
  <2> QED
    BY <1>4, <2>2, <2>3, ExpireFacts
<1>5. ASSUME NEW w \in Workers, DeleteExpiredTombstones(w) PROVE StoneInv(p)'
  <2>1. UNCHANGED <<clock, burn, expires, rows, opened, granted, first>>
    BY <1>5 DEF DeleteExpiredTombstones, fixed, history
  <2>2. CASE tomb'[p] = tomb[p]
    BY <1>0, <2>1, <2>2, StoneStays DEF GrantsOf
  <2>3. CASE tomb'[p] # tomb[p]
    <3>1. tomb'[p] = None /\ tomb[p] # None /\ tomb[p].keep <= worker[w].now
      BY <1>5, <2>3 DEF DeleteExpiredTombstones
    <3>2. tomb[p].keep \in Nat /\ worker[w].now \in Nat /\ clock \in Nat
          /\ expires[p] + Retention \in Nat
      BY <3>1, SecretsAssumption DEF TypeInv, TypeOK, Tombstones, Cycles, Times
    <3>3. ~Retained(p)
      BY <1>0, <3>1, <3>2 DEF StoneInv, TimesInv, Retained
    <3>4. ~Retained(p)' /\ (ByRecipient(p)' <=> ByRecipient(p)) /\ GrantsOf(p)' = GrantsOf(p)
      BY <2>1, <3>3 DEF Retained, ByRecipient, GrantsOf
    <3> QED
      BY <1>0, <2>1, <3>1, <3>4 DEF StoneInv
  <2> QED
    BY <2>2, <2>3
<1> QED
  BY <1>1, <1>2, <1>3, <1>4, <1>5, RecordUntouched

-----------------------------------------------------------------------------
(* What those who ask are told.                                             *)

\* The first outcome of a secret is never replaced.
LEMMA FirstStays ==
  ASSUME TypeInv, [Next]_vars, NEW p \in Secrets, first[p] # "none"
  PROVE  first'[p] = first[p]
<1>1. ASSUME NEW r \in Requests, ClaimSecret(r) PROVE first'[p] = first[p]
  <2>1. CASE UNCHANGED <<opened, tomb, first, sessions, granted>>
    BY <2>1
  <2>2. ASSUME NEW g \in Grants, ClaimedBy(r, g) PROVE first'[p] = first[p]
    <3>1. ctx[r].p \in Secrets /\ ctx[r].now \in Times /\ ctx[r].owner \in BOOLEAN
      BY <1>1, ClaimFacts
    <3> QED
      BY <2>2, <3>1, ClaimStones
  <2> QED
    BY <1>1, <2>1, <2>2, ClaimFacts
<1>2. ASSUME NEW r \in Requests, DeleteSecret(r) PROVE first'[p] = first[p]
  BY <1>2, DeleteFacts, DeleteStones
<1>3. ASSUME NEW w \in Workers, DeleteExpired(w) PROVE first'[p] = first[p]
  BY <1>3, ExpireFacts, ExpireStones
<1>4. ASSUME NEW w \in Workers, DeleteExpiredTombstones(w) PROVE first'[p] = first[p]
  BY <1>4 DEF DeleteExpiredTombstones, history
<1> QED
  BY <1>1, <1>2, <1>3, <1>4, RecordUntouched

\* A request that goes on with what it has seen, and does not turn to the row,
\* still has the outcome on record.
LEMMA HeardStays ==
  ASSUME TypeInv, [Next]_vars, NEW q \in Requests, Heard(q),
         pc[q] # "idle", pc'[q] = "row" => pc[q] = "row",
         ctx'[q].p = ctx[q].p, ctx'[q].seen = ctx[q].seen
  PROVE  Heard(q)'
<1>1. ctx[q].p \in Secrets
  BY DEF TypeInv, CtxOK
<1>2. Retained(ctx[q].p)' => Retained(ctx[q].p)
  <2>1. ASSUME NEW p \in Secrets PROVE Retained(p)' => Retained(p)
    BY RetainedBefore
  <2>2. Retained(ctx[q].p)' <=> clock' < expires'[ctx[q].p] + Retention
    BY DEF Retained
  <2>3. \A p \in Secrets : clock' < expires'[p] + Retention => Retained(p)
    BY <2>1 DEF Retained
  <2> QED
    BY <1>1, <2>2, <2>3
<1>3. ASSUME ctx[q].seen \in {"opened", "deleted"}
      PROVE  first'[ctx[q].p] = ctx[q].seen /\ (pc'[q] = "row" => ~Retained(ctx[q].p)')
  <2>1. first[ctx[q].p] = ctx[q].seen /\ ctx[q].seen # "none"
    BY <1>3 DEF Heard
  <2>2. first'[ctx[q].p] = first[ctx[q].p]
    BY <1>1, <2>1, FirstStays
  <2>3. pc'[q] = "row" => ~Retained(ctx[q].p)'
    BY <1>2, <1>3 DEF Heard
  <2> QED
    BY <2>1, <2>2, <2>3
<1> QED
  BY <1>3 DEF Heard, Retained

\* A request that is idle, or has seen nothing, expects nothing.
LEMMA HeardNothing ==
  ASSUME NEW q \in Requests, pc'[q] = "idle" \/ ctx'[q].seen = "none"
  PROVE  Heard(q)'
BY DEF Heard

\* Looking for a tombstone that is promised to stay, a request that has seen an
\* outcome finds it.
LEMMA TombstoneFound ==
  ASSUME TypeInv, TimesInv, StonesInv, NEW r \in Requests, pc[r] # "idle", Heard(r),
         ctx[r].seen \in {"opened", "deleted"}, Retained(ctx[r].p)
  PROVE  LET p == ctx[r].p
         IN tomb[p] # None /\ tomb[p].keep > ctx[r].now /\ tomb[p].outcome = ctx[r].seen
<1> DEFINE p == ctx[r].p
<1>1. p \in Secrets /\ first[p] = ctx[r].seen /\ first[p] # "none"
  BY DEF TypeInv, CtxOK, Heard
<1>2. tomb[p] # None /\ tomb[p].outcome = first[p] /\ tomb[p].keep >= expires[p] + Retention
  BY <1>1 DEF StonesInv, StoneInv
<1>3. tomb[p].keep \in Nat /\ ctx[r].now \in Nat /\ clock \in Nat /\ expires[p] + Retention \in Nat
  BY <1>1, <1>2, SecretsAssumption DEF TypeInv, TypeOK, Tombstones, Contexts, Times
<1>4. ctx[r].now <= clock /\ clock < expires[p] + Retention
  BY DEF TimesInv, Retained
<1> QED
  BY <1>1, <1>2, <1>3, <1>4

\* Every step keeps what the requests have seen on record.
LEMMA HeardStep ==
  TypeInv /\ TimesInv /\ StonesInv /\ (\A r \in Requests : Heard(r)) /\ [Next]_vars
    => (\A r \in Requests : Heard(r))'
<1> SUFFICES ASSUME TypeInv, TimesInv, StonesInv, \A r \in Requests : Heard(r), [Next]_vars,
                    NEW q \in Requests
             PROVE  Heard(q)'
  OBVIOUS
<1> USE DEF table, history
<1>1. CASE pc'[q] = pc[q] /\ ctx'[q] = ctx[q]
  BY <1>1, HeardStays, HeardNothing
<1>2. ASSUME NEW r \in Requests, Done(r) PROVE Heard(q)'
  BY <1>1, <1>2, Ended, HeardNothing
<1>3. ASSUME NEW r \in Requests, StartRetrievalSession(r) \/ RetrieveSecretRange(r) PROVE Heard(q)'
  BY <1>1, <1>3, OpenFacts, RangeFacts, HeardNothing
<1>4. ASSUME NEW r \in Requests, authenticateMetadata(r) PROVE Heard(q)'
  <2>1. CASE q # r
    BY <1>1, <1>4, <2>1, LookFacts
  <2>2. CASE q = r
    <3>1. ctx'[q].p \in Secrets /\ ctx'[q].seen = Became(ctx'[q].p) /\ pc'[q] # "row"
      BY <1>4, <2>2, LookFacts
    <3>2. UNCHANGED first
      BY <1>4 DEF authenticateMetadata
    <3>3. Became(ctx'[q].p) \in {"opened", "deleted"} => first[ctx'[q].p] = Became(ctx'[q].p)
      BY DEF Became
    <3> QED
      BY <3>1, <3>2, <3>3 DEF Heard
  <2> QED
    BY <2>1, <2>2
<1>5. ASSUME NEW r \in Requests, LockSecret(r) PROVE Heard(q)'
  <2>1. CASE q # r \/ pc'[q] = "idle"
    BY <1>1, <1>5, <2>1, LockFacts, HeardNothing
  <2>2. CASE q = r /\ pc'[q] # "idle"
    <3>1. pc[q] = "open" /\ pc'[q] = "claim" /\ ctx' = ctx
      BY <1>5, <2>2, LockFacts
    <3> QED
      BY <3>1, HeardStays
  <2> QED
    BY <2>1, <2>2
<1>6. ASSUME NEW r \in Requests, EraseObject(r) PROVE Heard(q)'
  <2>1. CASE q # r \/ pc'[q] = "idle"
    BY <1>1, <1>6, <2>1, EraseFacts, HeardNothing
  <2>2. CASE q = r /\ pc'[q] # "idle"
    <3>1. pc[q] = "erase" /\ pc'[q] = "forget" /\ ctx'[q].p = ctx[q].p /\ ctx'[q].seen = ctx[q].seen
      BY <1>6, <2>2, EraseFacts
    <3> QED
      BY <3>1, HeardStays
  <2> QED
    BY <2>1, <2>2
<1>7. ASSUME NEW r \in Requests, GetTombstone(r) PROVE Heard(q)'
  <2>1. CASE Done(r)
    BY <1>2, <2>1
  <2>2. CASE ~Done(r)
    <3>1. /\ pc[r] = "tomb" /\ Goto(r, "row") /\ UNCHANGED <<ctx, clock, expires, first>>
          /\ ~(tomb[ctx[r].p] # None /\ tomb[ctx[r].p].keep > ctx[r].now)
      BY <1>7, <2>2 DEF GetTombstone, Answer, fixed
    <3>2. pc'[r] = "row" /\ \A x \in Requests : x # r => pc'[x] = pc[x]
      BY <3>1, WentOn DEF Steps
    <3>3. CASE q # r
      BY <1>1, <3>1, <3>2, <3>3
    <3>4. CASE q = r
      <4>1. ctx[q].seen \in {"opened", "deleted"} => first[ctx[q].p] = ctx[q].seen
        BY <3>1, <3>4 DEF Heard
      <4>2. ctx[q].seen \in {"opened", "deleted"} => ~Retained(ctx[q].p)
        BY <3>1, <3>4, TombstoneFound
      <4> QED
        BY <3>1, <3>2, <3>4, <4>1, <4>2 DEF Heard, Retained
    <3> QED
      BY <3>3, <3>4
  <2> QED
    BY <2>1, <2>2
<1>8. ASSUME NEW r \in Requests,
             \/ ClaimSecret(r) \/ GetRange(r) \/ GetSecretIgnoringExpiry(r) \/ DeleteSecret(r)
             \/ AbandonRequest(r)
      PROVE Heard(q)'
  BY <1>2, <1>8 DEF ClaimSecret, GetRange, GetSecretIgnoringExpiry, Answer, DeleteSecret, AbandonRequest
<1>9. CASE UNCHANGED <<pc, ctx>>
  BY <1>1, <1>9
<1>10. CASE Tick \/ UNCHANGED vars
  BY <1>9, <1>10 DEF Tick, vars
<1>11. ASSUME NEW w \in Workers, Cycle(w) PROVE Heard(q)'
  BY <1>9, <1>11 DEF Cycle, StartCycle, DeleteExpiredRetrievalSessions, SelectSecrets, DeleteObject,
     DeleteExpired, DeleteExpiredTombstones
<1>12. ASSUME NEW x, AbandonCycle(x) \/ LoseConnection(x) PROVE Heard(q)'
  BY <1>9, <1>12 DEF AbandonCycle, LoseConnection
<1> QED
  BY <1>3, <1>4, <1>5, <1>6, <1>7, <1>8, <1>10, <1>11, <1>12 DEF Next, Arrive, Handle

\* Who gives answers about a secret that is gone.
LEMMA ToldBy ==
  [Next]_vars => UNCHANGED told \/ \E r \in Requests : GetTombstone(r) \/ GetSecretIgnoringExpiry(r)
<1> SUFFICES ASSUME [Next]_vars,
                    ~\E r \in Requests : GetTombstone(r) \/ GetSecretIgnoringExpiry(r)
             PROVE  UNCHANGED told
  OBVIOUS
<1> USE DEF history
<1>1. CASE Tick \/ UNCHANGED vars
  BY <1>1 DEF Tick, vars
<1>2. ASSUME NEW r \in Requests, Arrive(r) \/ Handle(r) PROVE UNCHANGED told
  BY <1>2 DEF Arrive, StartRetrievalSession, RetrieveSecretRange, authenticateMetadata, Handle,
     LockSecret, ClaimSecret, GetRange, EraseObject, DeleteSecret
<1>3. ASSUME NEW w \in Workers, Cycle(w) PROVE UNCHANGED told
  BY <1>3 DEF Cycle, StartCycle, DeleteExpiredRetrievalSessions, SelectSecrets, DeleteObject,
     DeleteExpired, DeleteExpiredTombstones
<1>4. ASSUME NEW x, AbandonRequest(x) \/ AbandonCycle(x) \/ LoseConnection(x) PROVE UNCHANGED told
  BY <1>4 DEF AbandonRequest, AbandonCycle, LoseConnection
<1> QED
  BY <1>1, <1>2, <1>3, <1>4 DEF Next

\* Every step keeps the answers true to the record.
LEMMA AnswersStep == TypeInv /\ TimesInv /\ StonesInv /\ AnswersInv /\ [Next]_vars => AnswersInv'
<1> SUFFICES ASSUME TypeInv, TimesInv, StonesInv, AnswersInv, [Next]_vars PROVE AnswersInv'
  OBVIOUS
<1> DEFINE Said == told # None /\ Retained(told.p) => FirstOutcomeStays
<1>1. (\A r \in Requests : Heard(r))'
  BY HeardStep DEF AnswersInv
<1>2. CASE UNCHANGED told
  <2>1. told # None => told.p \in Secrets
    BY DEF TypeInv, TypeOK
  <2>2. \A p \in Secrets : clock' < expires'[p] + Retention => Retained(p)
    BY RetainedBefore DEF Retained
  <2>3. told # None /\ Retained(told.p)' => Retained(told.p)
    BY <1>2, <2>1, <2>2 DEF Retained
  <2>4. Said'
    BY <1>2, <2>3 DEF AnswersInv, Retained, FirstOutcomeStays
  <2> QED
    BY <1>1, <2>4 DEF AnswersInv
<1>3. ASSUME NEW r \in Requests, GetTombstone(r), ~UNCHANGED told PROVE AnswersInv'
  <2>1. /\ pc[r] = "tomb" /\ tomb[ctx[r].p] # None /\ Answer(r, tomb[ctx[r].p].outcome)
        /\ UNCHANGED <<clock, expires>>
    BY <1>3 DEF GetTombstone, fixed
  <2>2. ctx[r].p \in Secrets /\ tomb[ctx[r].p].outcome \in Outcomes
    BY <2>1 DEF TypeInv, CtxOK, TypeOK, Tombstones
  <2>3. told'.p = ctx[r].p /\ told'.seen = ctx[r].seen /\ told'.said = tomb[ctx[r].p].outcome
    BY <2>1, <2>2, AnswerType
  <2>4. ctx[r].seen \in {"opened", "deleted"} /\ Retained(ctx[r].p)
          => tomb[ctx[r].p].outcome = ctx[r].seen
    BY <2>1, TombstoneFound DEF AnswersInv
  <2>5. Said'
    BY <2>1, <2>3, <2>4 DEF FirstOutcomeStays, Retained
  <2> QED
    BY <1>1, <2>5 DEF AnswersInv
<1>4. ASSUME NEW r \in Requests, GetSecretIgnoringExpiry(r) PROVE AnswersInv'
  <2>1. PICK outcome \in Outcomes \cup {"unknown"} : Answer(r, outcome)
    BY <1>4 DEF GetSecretIgnoringExpiry, Outcomes
  <2>2. pc[r] = "row" /\ UNCHANGED <<clock, expires>>
    BY <1>4 DEF GetSecretIgnoringExpiry, fixed
  <2>3. told'.p = ctx[r].p /\ told'.seen = ctx[r].seen
    BY <2>1, <2>2, AnswerType
  <2>4. ctx[r].seen \in {"opened", "deleted"} => ~Retained(ctx[r].p)
    BY <2>2 DEF AnswersInv, Heard
  <2>5. Said'
    BY <2>2, <2>3, <2>4 DEF FirstOutcomeStays, Retained
  <2> QED
    BY <1>1, <2>5 DEF AnswersInv
<1> QED
  BY <1>2, <1>3, <1>4, ToldBy

-----------------------------------------------------------------------------
(* The invariant and the theorems.                                          *)

SecretsInv ==
  /\ TypeInv
  /\ ObjectsInv
  /\ OpeningInv
  /\ TokensInv
  /\ ReadingInv
  /\ TimesInv
  /\ LocksInv
  /\ StonesInv
  /\ AnswersInv

\* It holds of published secrets nobody has touched.
LEMMA InvInit == Init => SecretsInv
<1> SUFFICES ASSUME Init PROVE SecretsInv
  OBVIOUS
<1>1. TypeInv
  BY TypeInit
<1>2. /\ \A r \in Requests : pc[r] = "idle" /\ ctx[r] = IdleCtx
      /\ \A w \in Workers : worker[w] = IdleWorker
      /\ \A p \in Secrets : tomb[p] = None /\ lock[p] = None /\ first[p] = "none"
      /\ rows = Secrets /\ objects = Secrets /\ granted = {} /\ opened = {}
      /\ cut = None /\ told = None /\ clock = 0
  BY DEF Init
<1>3. ObjectsInv
  BY <1>2, NewContexts DEF ObjectsInv, ObjectGoesFirst
<1>4. OpeningInv /\ TokensInv
  BY <1>2 DEF OpeningInv, TokensInv
<1>5. ReadingInv
  <2>1. \A w \in Workers : worker[w].now = 0 /\ worker[w].todo = {}
    BY <1>2, NewContexts
  <2> QED
    BY <1>2, <2>1 DEF ReadingInv, DownloadSurvives
<1>6. TimesInv
  BY <1>2, NewContexts DEF TimesInv
<1>7. LocksInv
  BY <1>2 DEF LocksInv
<1>8. StonesInv
  BY <1>2 DEF StonesInv, StoneInv, ByRecipient, GrantsOf
<1>9. AnswersInv
  BY <1>2 DEF AnswersInv, Heard
<1> QED
  BY <1>1, <1>3, <1>4, <1>5, <1>6, <1>7, <1>8, <1>9 DEF SecretsInv

\* Every step keeps it.
LEMMA InvStep == SecretsInv /\ [Next]_vars => SecretsInv'
BY TypeStep, ObjectsStep, OpeningStep, TokensStep, ReadingStep, TimesStep, LocksStep, StonesStep,
   AnswersStep DEF SecretsInv

\* So it holds in every state.
LEMMA InvAlways == Spec => []SecretsInv
BY InvInit, InvStep, PTL DEF Spec

(***************************************************************************)
(* Storage never holds an object whose row is gone, however deletions by   *)
(* owners, cleanup workers and failures of either interleave.              *)
(***************************************************************************)
THEOREM RowsOutliveObjects == Spec => []ObjectGoesFirst
<1>1. SecretsInv => ObjectGoesFirst
  BY DEF SecretsInv, ObjectsInv
<1> QED
  BY <1>1, InvAlways, PTL

(***************************************************************************)
(* A one-time secret is opened once, by however many requests on however   *)
(* many replicas it is asked for.                                          *)
(***************************************************************************)
THEOREM OneSessionPerOneTimeSecret == Spec => []OneTimeOpensOnce
<1>1. SecretsInv => OneTimeOpensOnce
  <2> SUFFICES ASSUME SecretsInv, NEW p \in burn PROVE Cardinality(GrantsOf(p)) <= 1
    BY DEF OneTimeOpensOnce
  <2>1. CASE GrantsOf(p) = {}
    BY <2>1, FS_EmptySet
  <2>2. CASE GrantsOf(p) # {}
    <3>1. PICK g \in GrantsOf(p) : TRUE
      BY <2>2
    <3>2. GrantsOf(p) = {g}
      BY <3>1 DEF SecretsInv, OpeningInv, GrantsOf
    <3>3. Cardinality({g}) = 1
      BY FS_Singleton
    <3> QED
      BY <3>2, <3>3
  <2> QED
    BY <2>1, <2>2
<1> QED
  BY <1>1, InvAlways, PTL

(***************************************************************************)
(* A download that was let in finds its object unless the owner has asked  *)
(* for deletion or its time is up, whatever clean-up does meanwhile.       *)
(***************************************************************************)
THEOREM CleanupSparesReaders == Spec => []DownloadSurvives
<1>1. SecretsInv => DownloadSurvives
  BY DEF SecretsInv, ReadingInv
<1> QED
  BY <1>1, InvAlways, PTL

(***************************************************************************)
(* While the tombstone of a secret is promised to stay, that secret's      *)
(* record says that a recipient has opened it just when one has.           *)
(***************************************************************************)
THEOREM RecordIsTrue ==
  Spec => []( /\ \A p \in Secrets : Retained(p) => Recorded(p)
              /\ (\A p \in Secrets : Retained(p)) => RecipientIsRecorded )
<1>1. SecretsInv => \A p \in Secrets : Retained(p) => Recorded(p)
  BY DEF SecretsInv, StonesInv, StoneInv, Recorded
<1>2. SecretsInv => ((\A p \in Secrets : Retained(p)) => RecipientIsRecorded)
  BY <1>1 DEF Recorded, RecipientIsRecorded
<1> QED
  BY <1>1, <1>2, InvAlways, PTL

(***************************************************************************)
(* Nobody who asks after a secret whose tombstone is promised to stay is   *)
(* told another outcome than the one that was on record when they asked.   *)
(***************************************************************************)
THEOREM AnswersKeepToTheRecord ==
  Spec => [](told # None /\ Retained(told.p) => FirstOutcomeStays)
<1>1. SecretsInv => (told # None /\ Retained(told.p) => FirstOutcomeStays)
  BY DEF SecretsInv, AnswersInv
<1> QED
  BY <1>1, InvAlways, PTL
=============================================================================
