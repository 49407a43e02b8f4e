------------------------------- MODULE Secrets -------------------------------
(***************************************************************************)
(* The life of published secrets: opening (StartRetrievalSession), reading *)
(* (RetrieveSecretRange), asking after (SecretMetadata), deletion by the   *)
(* owner (DeleteSecret) and the clean-up of what has expired or has been   *)
(* read (cleanup/worker.go), against the tables secrets,                   *)
(* retrieval_sessions and secret_tombstones and the objects in S3.         *)
(*                                                                         *)
(* The first state is one Uploads leads to: every secret has its row and   *)
(* its object.  Requests and workers run on any number of replicas; every  *)
(* statement outside a transaction, every S3 call and every transaction,   *)
(* or part of one between two S3 calls, is a step.  A request reads the    *)
(* clock once and decides by that time however late it gets to it.         *)
(***************************************************************************)
EXTENDS Naturals, FiniteSets

CONSTANTS
  Secrets,     \* public IDs
  Tokens,      \* retrieval session tokens: random, each is issued once
  Requests,    \* requests in flight, over all server replicas
  Workers,     \* cleanup workers, one per server replica
  Lifetimes,   \* expirations a secret may be created with
  TTL,         \* retrievalSessionTTL
  Retention,   \* TombstoneRetention
  BatchSize,   \* how many rows a cleanup transaction takes
  Faults,      \* the kinds of failures that may happen
  MaxFaults,   \* bound: failures in one behaviour
  MaxTime,     \* bound: where the clock stops
  None

FaultKinds == {"storage", "statement", "commit", "connection", "request", "worker"}

ASSUME SecretsAssumption ==
  /\ None \notin Requests \cup Workers \cup Tokens \cup Secrets
  /\ Requests \cap Workers = {}
  /\ IsFiniteSet(Secrets)
  /\ Lifetimes \subseteq Nat \ {0}
  /\ TTL \in Nat \ {0}
  /\ Retention \in Nat
  /\ BatchSize \in Nat \ {0}
  /\ Faults \subseteq FaultKinds
  /\ MaxFaults \in Nat
  /\ MaxTime \in Nat

VARIABLES
  clock,     \* the time
  \* PostgreSQL
  rows,      \* the secrets with a row
  burn,      \* secrets.burn_after_read
  expires,   \* secrets.expires_at
  opened,    \* the secrets with retrieved_at set
  sessions,  \* retrieval_sessions: the granted sessions with a row
  tomb,      \* secret_tombstones, or None
  lock,      \* who holds the secrets row FOR UPDATE, or None
  \* S3
  objects,   \* the secrets whose object is there
  \* the server processes
  pc,        \* the next step of each request
  ctx,       \* what the request is about and has read
  worker,    \* the cleanup workers
  \* history
  granted,   \* the retrieval sessions that were created
  asked,     \* the secrets whose owner has asked for deletion
  first,     \* the first outcome recorded for a secret
  told,      \* the last answer about a secret that is not there, or None
  cut,       \* the last session that was let in and found no object, or None
  faults     \* failures so far

fixed == <<burn, expires>>
table == <<rows, opened, sessions, tomb>>
history == <<granted, asked, first, told, cut>>
vars == <<clock, fixed, table, lock, objects, pc, ctx, worker, history, faults>>

Times == 0 .. MaxTime
Outcomes == {"opened", "expired", "deleted"}
Steps == {"idle", "open", "claim", "range", "tomb", "row", "erase", "forget"}
Tombstones == [outcome : Outcomes, first : BOOLEAN, owner : BOOLEAN, keep : Nat]
\* None is no row of secret_tombstones.
ASSUME NoTombstone == None \notin Tombstones

Contexts == [p : Secrets \cup {None}, t : Tokens \cup {None}, now : Times,
             owner : BOOLEAN, seen : Outcomes \cup {"none"}]
Grants == [p : Secrets, t : Tokens, owner : BOOLEAN, until : Nat]
Cycles == [pc : {"idle", "sessions", "select", "delete", "tombs"}, now : Times,
           todo : SUBSET Secrets, removable : SUBSET Secrets, found : Nat]

IdleCtx == [p |-> None, t |-> None, now |-> 0, owner |-> FALSE, seen |-> "none"]
IdleWorker == [pc |-> "idle", now |-> 0, todo |-> {}, removable |-> {}, found |-> 0]

TypeOK ==
  /\ clock \in Times
  /\ rows \subseteq Secrets
  /\ burn \subseteq Secrets
  /\ expires \in [Secrets -> Nat]
  /\ opened \subseteq Secrets
  /\ sessions \subseteq granted
  /\ tomb \in [Secrets -> Tombstones \cup {None}]
  /\ lock \in [Secrets -> Requests \cup Workers \cup {None}]
  /\ objects \subseteq Secrets
  /\ pc \in [Requests -> Steps]
  /\ ctx \in [Requests -> Contexts]
  /\ worker \in [Workers -> Cycles]
  /\ granted \subseteq Grants
  /\ asked \subseteq Secrets
  /\ first \in [Secrets -> Outcomes \cup {"none"}]
  /\ told \in [p : Secrets, seen : Outcomes \cup {"none"}, said : Outcomes \cup {"unknown"}]
             \cup {None}
  /\ cut \in Tokens \cup {None}
  /\ faults \in Nat

Init ==
  /\ clock = 0
  /\ rows = Secrets
  /\ burn \in SUBSET Secrets
  /\ expires \in [Secrets -> Lifetimes]
  /\ opened = {}
  /\ sessions = {}
  /\ tomb = [p \in Secrets |-> None]
  /\ lock = [p \in Secrets |-> None]
  /\ objects = Secrets
  /\ pc = [r \in Requests |-> "idle"]
  /\ ctx = [r \in Requests |-> IdleCtx]
  /\ worker = [w \in Workers |-> IdleWorker]
  /\ granted = {}
  /\ asked = {}
  /\ first = [p \in Secrets |-> "none"]
  /\ told = None
  /\ cut = None
  /\ faults = 0

-----------------------------------------------------------------------------
Works == UNCHANGED faults
Fails(kind) == kind \in Faults /\ faults < MaxFaults /\ faults' = faults + 1

Tick ==
  /\ clock < MaxTime
  /\ clock' = clock + 1
  /\ Works
  /\ UNCHANGED <<fixed, table, lock, objects, pc, ctx, worker, history>>

Unlocked(by) == [p \in Secrets |-> IF lock[p] = by THEN None ELSE lock[p]]

GrantsOf(p) == {g \in granted : g.p = p}

\* Rows are deleted with their retrieval sessions (ON DELETE CASCADE).
DeleteRows(ps) ==
  /\ rows' = rows \ ps
  /\ sessions' = {g \in sessions : g.p \notin ps}

LaterOf(a, b) == IF a > b THEN a ELSE b
TombstoneKeepUntil(p, ended) == LaterOf(expires[p], ended) + Retention

recipientOpenedAt(p) == p \notin burn /\ p \in opened

\* tombstoneParams
\* Mutant: whoever opens it counts as a recipient.
IgnoreOwner(p, outcome, now, byOwner) ==
  [outcome |-> outcome,
   first |-> outcome = "opened" \/ recipientOpenedAt(p),
   owner |-> byOwner,
   keep |-> TombstoneKeepUntil(p, now)]
Tombstone(p, outcome, now, byOwner) ==
  [outcome |-> outcome,
   first |-> (outcome = "opened" /\ ~byOwner) \/ recipientOpenedAt(p),
   owner |-> byOwner,
   keep |-> TombstoneKeepUntil(p, now)]

\* ON CONFLICT (public_id) DO NOTHING: the first outcome recorded stays.
Record(stones, new) ==
  /\ tomb' = [p \in Secrets |-> IF p \in new THEN stones[p] ELSE tomb[p]]
  /\ first' = [p \in Secrets |-> IF p \in new /\ first[p] = "none"
                                 THEN stones[p].outcome ELSE first[p]]
\* Mutant: ON CONFLICT DO UPDATE.
ReplaceTombstones(stones) == Record(stones, DOMAIN stones)
CreateTombstones(stones) == Record(stones, {p \in DOMAIN stones : tomb[p] = None})

Goto(r, step) == pc' = [pc EXCEPT ![r] = step]
Done(r) == Goto(r, "idle") /\ ctx' = [ctx EXCEPT ![r] = IdleCtx]

-----------------------------------------------------------------------------
(* POST /secrets/{p}/retrieval-session: opening.                            *)

IssuedTokens == {ctx[r].t : r \in Requests} \cup {g.t : g \in granted}

\* A request with a malformed or wrong token changes nothing; this one has the
\* blob token, and the deletion token too if it is the owner's.
StartRetrievalSession(r) ==
  /\ pc[r] = "idle"
  /\ \E p \in Secrets, t \in Tokens \ IssuedTokens, owner \in BOOLEAN :
       ctx' = [ctx EXCEPT ![r] = [IdleCtx EXCEPT !.p = p, !.t = t, !.now = clock, !.owner = owner]]
  /\ Goto(r, "open")
  /\ Works
  /\ UNCHANGED <<clock, fixed, table, lock, objects, worker, history>>

\* GetSecretByPublicIDForUpdate: waits for the row.
Visible(p, now) == p \in rows /\ expires[p] > now
Consumed(p) == p \in burn /\ p \in opened

LockSecret(r) ==
  LET p == ctx[r].p IN
  /\ pc[r] = "open"
  /\ lock[p] = None
  /\ IF Visible(p, ctx[r].now) /\ ~Consumed(p)
     THEN Goto(r, "claim") /\ lock' = [lock EXCEPT ![p] = r] /\ UNCHANGED ctx
     ELSE Done(r) /\ UNCHANGED lock
  /\ Works
  /\ UNCHANGED <<clock, fixed, table, objects, worker, history>>

\* A one-time secret is claimed by whoever opens it, a reusable one is marked
\* when a recipient does.
\* Mutant: the owner's look leaves no mark.
MarkOpenedByRecipient(p, owner) == opened' = IF owner THEN opened ELSE opened \cup {p}
MarkOpened(p, owner) == opened' = IF p \in burn \/ ~owner THEN opened \cup {p} ELSE opened

\* ClaimBurnAfterRead and the tombstone of a one-time secret, or
\* MarkSecretOpened, then CreateRetrievalSession and COMMIT.  A claim that
\* touches no row, like a lost connection, ends in a rollback.
ClaimSecret(r) ==
  LET p == ctx[r].p
      owner == ctx[r].owner
      session == [p |-> p, t |-> ctx[r].t, owner |-> owner, until |-> ctx[r].now + TTL]
      committed ==
        /\ MarkOpened(p, owner)
        /\ CreateTombstones([q \in {p} \cap burn |-> Tombstone(q, "opened", ctx[r].now, owner)])
        /\ sessions' = sessions \cup {session}
        /\ granted' = granted \cup {session}
      rolledBack == UNCHANGED <<opened, tomb, first, sessions, granted>>
      claimed == lock[p] = r /\ Visible(p, ctx[r].now) /\ ~Consumed(p)
  IN /\ pc[r] = "claim"
     /\ \/ Works /\ claimed /\ committed
        \/ Works /\ ~claimed /\ rolledBack
        \/ Fails("commit") /\ claimed /\ (committed \/ rolledBack)
     /\ lock' = Unlocked(r)
     /\ Done(r)
     /\ UNCHANGED <<clock, fixed, rows, objects, worker, asked, told, cut>>

-----------------------------------------------------------------------------
(* GET /secrets/{p}/blob: reading, with the token of a session.             *)

\* GetByRetrievalSession, with the time read just before; one that is refused,
\* or whose range is not within the blob, changes nothing.
RetrieveSecretRange(r) ==
  /\ pc[r] = "idle"
  /\ \E g \in sessions :
       /\ Visible(g.p, clock) /\ g.until > clock
       /\ ctx' = [ctx EXCEPT ![r] = [IdleCtx EXCEPT !.p = g.p, !.t = g.t]]
  /\ Goto(r, "range")
  /\ Works
  /\ UNCHANGED <<clock, fixed, table, lock, objects, worker, history>>

GetRange(r) ==
  /\ pc[r] = "range"
  /\ cut' = IF ctx[r].p \in objects THEN cut ELSE ctx[r].t
  /\ Done(r)
  /\ Works
  /\ UNCHANGED <<clock, fixed, table, lock, objects, worker, granted, asked, first, told>>

-----------------------------------------------------------------------------
(* GET /secrets/{p}/meta and DELETE /secrets/{p}: both look the secret up   *)
(* first and say what became of one that is gone.                           *)

\* What had become of the secret when the request came in.
Became(p) == IF first[p] # "none" THEN first[p]
             ELSE IF expires[p] <= clock THEN "expired" ELSE "none"

\* GetByPublicID, with the time read just before.  SecretMetadata's answer for
\* a secret that is there changes nothing; DeleteSecret goes on to erase it.
authenticateMetadata(r) ==
  /\ pc[r] = "idle"
  /\ \E p \in Secrets :
       LET found == Visible(p, clock) /\ ~Consumed(p)
       IN /\ ctx' = [ctx EXCEPT ![r] = [IdleCtx EXCEPT !.p = p, !.now = clock, !.seen = Became(p)]]
          /\ \/ found /\ Goto(r, "erase") /\ asked' = asked \cup {p}
             \/ ~found /\ Goto(r, "tomb") /\ UNCHANGED asked
  /\ Works
  /\ UNCHANGED <<clock, fixed, table, lock, objects, worker, granted, first, told, cut>>

Answer(r, outcome) ==
  /\ told' = [p |-> ctx[r].p, seen |-> ctx[r].seen, said |-> outcome]
  /\ Done(r)

\* GetTombstone, first query.
GetTombstone(r) ==
  LET p == ctx[r].p IN
  /\ pc[r] = "tomb"
  /\ IF tomb[p] # None /\ tomb[p].keep > ctx[r].now
     THEN Answer(r, tomb[p].outcome)
     ELSE Goto(r, "row") /\ UNCHANGED <<ctx, told>>
  /\ Works
  /\ UNCHANGED <<clock, fixed, table, lock, objects, worker, granted, asked, first, cut>>

\* GetTombstone, second query: an expired secret that clean-up has not reached.
GetSecretIgnoringExpiry(r) ==
  LET p == ctx[r].p IN
  /\ pc[r] = "row"
  /\ Answer(r, IF p \in rows /\ expires[p] <= ctx[r].now THEN "expired" ELSE "unknown")
  /\ Works
  /\ UNCHANGED <<clock, fixed, table, lock, objects, worker, granted, asked, first, cut>>

\* The object goes first; repo.Delete reads the clock again.
\* Mutant: the row is deleted whatever storage says.
EraseBestEffort(r) ==
  /\ pc[r] = "erase"
  /\ \/ Works /\ objects' = objects \ {ctx[r].p}
     \/ Fails("storage") /\ UNCHANGED objects
  /\ Goto(r, "forget")
  /\ ctx' = [ctx EXCEPT ![r].now = clock]
  /\ UNCHANGED <<clock, fixed, table, lock, worker, history>>
EraseObject(r) ==
  /\ pc[r] = "erase"
  /\ \/ /\ Works
        /\ objects' = objects \ {ctx[r].p}
        /\ Goto(r, "forget")
        /\ ctx' = [ctx EXCEPT ![r].now = clock]
     \/ /\ Fails("storage")
        /\ objects' \in {objects, objects \ {ctx[r].p}}
        /\ Done(r)
  /\ UNCHANGED <<clock, fixed, table, lock, worker, history>>

\* DeleteSecret and its tombstone, one transaction; a row that is gone is fine.
DeleteSecret(r) ==
  LET p == ctx[r].p
      committed ==
        /\ DeleteRows({p})
        /\ CreateTombstones([q \in {p} \cap rows |-> Tombstone(q, "deleted", ctx[r].now, FALSE)])
  IN /\ pc[r] = "forget"
     /\ lock[p] = None
     /\ \/ Works /\ committed
        \/ Fails("commit") /\ (committed \/ UNCHANGED <<rows, sessions, tomb, first>>)
     /\ Done(r)
     /\ UNCHANGED <<clock, fixed, opened, lock, objects, worker, granted, asked, told, cut>>

-----------------------------------------------------------------------------
(* The cleanup worker's cycle; every step of it works with the time at      *)
(* which the cycle began.                                                   *)

Enter(w, step) == worker' = [worker EXCEPT ![w].pc = step]

StartCycle(w) ==
  /\ worker[w].pc = "idle"
  /\ worker' = [worker EXCEPT ![w].pc = "sessions", ![w].now = clock]
  /\ Works
  /\ UNCHANGED <<clock, fixed, table, lock, objects, pc, ctx, history>>

DeleteExpiredRetrievalSessions(w) ==
  /\ worker[w].pc = "sessions"
  /\ \/ Works /\ sessions' = {g \in sessions : g.until >= worker[w].now}
     \/ Fails("statement") /\ UNCHANGED sessions
  /\ Enter(w, "select")
  /\ UNCHANGED <<clock, fixed, rows, opened, tomb, lock, objects, pc, ctx, history>>

\* SelectSecretsForCleanup: expired, or one-time, read and no session left.
\* Mutant: the sessions are not looked at.
DueIgnoringSessions(now) == {p \in rows : expires[p] < now \/ Consumed(p)}
\* Mutant: AND for OR.
DueConsumedOnly(now) == {p \in rows : expires[p] < now /\ Consumed(p)}
Due(now) ==
  {p \in rows : \/ expires[p] < now
                \/ Consumed(p) /\ \A g \in sessions : g.p = p => g.until <= now}

\* ORDER BY expires_at LIMIT batch_size FOR UPDATE SKIP LOCKED.
Batch(now) ==
  LET free == {p \in Due(now) : lock[p] = None}
  IN {b \in SUBSET free : /\ \/ Cardinality(b) = BatchSize
                             \/ Cardinality(b) < BatchSize /\ b = free
                          /\ \A p \in b, q \in free \ b : expires[p] <= expires[q]}

SelectSecrets(w) ==
  /\ worker[w].pc = "select"
  /\ \E batch \in Batch(worker[w].now) :
       /\ lock' = [p \in Secrets |-> IF p \in batch THEN w ELSE lock[p]]
       /\ worker' = [worker EXCEPT ![w].pc = "delete", ![w].todo = batch,
                                   ![w].removable = {}, ![w].found = Cardinality(batch)]
  /\ Works
  /\ UNCHANGED <<clock, fixed, table, objects, pc, ctx, history>>

\* beforeDelete: a row whose object cannot be deleted is skipped.
DeleteObject(w) ==
  /\ worker[w].pc = "delete"
  /\ \E p \in worker[w].todo :
       \/ /\ Works
          /\ objects' = objects \ {p}
          /\ worker' = [worker EXCEPT ![w].todo = @ \ {p}, ![w].removable = @ \cup {p}]
       \/ /\ Fails("storage")
          /\ objects' \in {objects, objects \ {p}}
          /\ worker' = [worker EXCEPT ![w].todo = @ \ {p}]
  /\ UNCHANGED <<clock, fixed, table, lock, pc, ctx, history>>

\* CreateTombstonesForExpiredSecrets, DeleteSecretsByPublicIDs, COMMIT; then
\* drainBatches goes on with another batch, or the cycle with the tombstones.
DeleteExpired(w) ==
  LET now == worker[w].now
      gone == {p \in worker[w].removable : lock[p] = w}
      stones == [p \in {q \in gone : expires[q] < now} |->
                   [outcome |-> "expired", first |-> recipientOpenedAt(p),
                    owner |-> FALSE, keep |-> now + Retention]]
      committed == DeleteRows(gone) /\ CreateTombstones(stones)
      more == worker[w].found = BatchSize /\ gone # {}
  IN /\ worker[w].pc = "delete" /\ worker[w].todo = {}
     /\ \/ Works /\ committed /\ Enter(w, IF more THEN "select" ELSE "tombs")
        \/ /\ Fails("commit")
           /\ committed \/ UNCHANGED <<rows, sessions, tomb, first>>
           /\ Enter(w, "tombs")
     /\ lock' = Unlocked(w)
     /\ UNCHANGED <<clock, fixed, opened, objects, pc, ctx, granted, asked, told, cut>>

DeleteExpiredTombstones(w) ==
  /\ worker[w].pc = "tombs"
  /\ \/ /\ Works
        /\ tomb' = [p \in Secrets |-> IF tomb[p] # None /\ tomb[p].keep <= worker[w].now
                                      THEN None ELSE tomb[p]]
     \/ Fails("statement") /\ UNCHANGED tomb
  /\ worker' = [worker EXCEPT ![w] = IdleWorker]
  /\ UNCHANGED <<clock, fixed, rows, opened, sessions, lock, objects, pc, ctx, history>>

-----------------------------------------------------------------------------
(* A request dies, or gives up on an error of a read; a worker dies; either *)
(* loses its connection and does not notice before it commits.              *)

AbandonRequest(r) ==
  /\ pc[r] # "idle"
  /\ Fails("request")
  /\ Done(r)
  /\ lock' = Unlocked(r)
  /\ UNCHANGED <<clock, fixed, table, objects, worker, history>>

AbandonCycle(w) ==
  /\ worker[w].pc # "idle"
  /\ Fails("worker")
  /\ worker' = [worker EXCEPT ![w] = IdleWorker]
  /\ lock' = Unlocked(w)
  /\ UNCHANGED <<clock, fixed, table, objects, pc, ctx, history>>

LoseConnection(by) ==
  /\ Fails("connection")
  /\ \E p \in Secrets : lock[p] = by
  /\ lock' = Unlocked(by)
  /\ UNCHANGED <<clock, fixed, table, objects, pc, ctx, worker, history>>

-----------------------------------------------------------------------------
Arrive(r) == StartRetrievalSession(r) \/ RetrieveSecretRange(r) \/ authenticateMetadata(r)

Handle(r) ==
  \/ LockSecret(r) \/ ClaimSecret(r)
  \/ GetRange(r) \/ GetTombstone(r) \/ GetSecretIgnoringExpiry(r)
  \/ EraseObject(r) \/ DeleteSecret(r)

Cycle(w) ==
  \/ StartCycle(w) \/ DeleteExpiredRetrievalSessions(w) \/ SelectSecrets(w)
  \/ DeleteObject(w) \/ DeleteExpired(w) \/ DeleteExpiredTombstones(w)

Next ==
  \/ Tick
  \/ \E r \in Requests : Arrive(r) \/ Handle(r) \/ AbandonRequest(r) \/ LoseConnection(r)
  \/ \E w \in Workers : Cycle(w) \/ AbandonCycle(w) \/ LoseConnection(w)

Spec == Init /\ [][Next]_vars

(***************************************************************************)
(* Time passes, the server runs requests to their end, and the worker's    *)
(* ticker keeps firing (worker.go:57-71).  Clients owe nothing.            *)
(***************************************************************************)
Fairness ==
  /\ WF_vars(Tick)
  /\ \A r \in Requests : WF_vars(Handle(r))
  /\ \A w \in Workers : WF_vars(Cycle(w))

FairSpec == Spec /\ Fairness

-----------------------------------------------------------------------------
(* Properties.                                                              *)

(***************************************************************************)
(* A one-time secret is opened once: however many requests race for it on   *)
(* however many replicas, and whatever fails, one retrieval session is all  *)
(* that is ever created for it.                                             *)
(***************************************************************************)
OneTimeOpensOnce == \A p \in burn : Cardinality(GrantsOf(p)) <= 1

(***************************************************************************)
(* A download that was let in finds its object, although a one-time secret  *)
(* has ended by then: it fails for want of the object only when the owner   *)
(* has asked for deletion, or the session or the secret has run out.        *)
(***************************************************************************)
DownloadSurvives ==
  \A g \in granted :
    g.t = cut => g.p \in asked \/ g.until <= clock \/ expires[g.p] <= clock

(***************************************************************************)
(* Storage holds no object of a secret whose row is gone: whoever deletes   *)
(* the row has deleted the object before.                                   *)
(***************************************************************************)
ObjectGoesFirst == objects \subseteq rows

(***************************************************************************)
(* "The first outcome recorded stays: a one-time secret that was opened and *)
(* then deleted or expired was opened" (secret_tombstones.sql:2): nobody is *)
(* told another outcome than the one on record when they asked.             *)
(***************************************************************************)
FirstOutcomeStays ==
  told # None /\ told.seen \in {"opened", "deleted"} => told.said \in {told.seen, "unknown"}

ByRecipient(p) == \E g \in GrantsOf(p) : ~g.owner

(***************************************************************************)
(* The owner's own look is not a recipient's: a tombstone, or a row that    *)
(* has none, says that a recipient has opened the secret just when one has. *)
(***************************************************************************)
RecipientIsRecorded ==
  \A p \in Secrets :
    /\ tomb[p] # None => (tomb[p].first <=> ByRecipient(p))
    /\ p \in rows \ burn => (p \in opened <=> ByRecipient(p))

(***************************************************************************)
(* "GetTombstone tells what became of a secret that is gone" (repo.go:34):  *)
(* within the retention nobody who asks after a secret that is gone is told *)
(* that there is no such secret.                                            *)
(***************************************************************************)
GoneIsExplained == told # None /\ told.seen # "none" => told.said # "unknown"

(***************************************************************************)
(* A secret that has expired, or has been read, leaves database and storage *)
(* in the end.                                                              *)
(***************************************************************************)
DueIsRemoved ==
  \A p \in Secrets : expires[p] < clock \/ Consumed(p) ~> p \notin rows \cup objects
=============================================================================
