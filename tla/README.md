# Secretli: a TLA+ verification of the sharing service

Secretli is a service for sharing end-to-end encrypted secrets. A client encrypts
a bundle, uploads it in parts, and hands out a link; recipients open the link,
read the ciphertext by ranges and decrypt it themselves. The server keeps rows in
PostgreSQL and blobs in an S3 store, runs on several replicas, and no transaction
spans the two stores. This directory holds TLA+ models of the parts in which that
is hard to get right, the TLC configurations that check them, and proofs that
TLAPS checks.

Paths below are relative to `src/internal/` unless they begin with `src/`.

## 1. The system

| Component | State it keeps | Operations | Talks to |
|---|---|---|---|
| Upload sessions: `adapter/httpserver/upload_handler.go`, `adapter/postgres/secret_repo.go` | tables `upload_sessions`, `upload_parts`; the multipart upload in S3 | create, upload part, complete, abort; discard and clear after a failed completion | object store, `secrets` table |
| Object store client: `adapter/s3/client.go` | multipart uploads, objects | create, part, complete, abort, delete, range read | S3 |
| Published secrets: `secret_handler.go`, `secret_repo.go` | tables `secrets`, `retrieval_sessions` | open (start a retrieval session), read a range, metadata, delete | object store, tombstones |
| Tombstones: `secret_repo.go`, `queries/secret_tombstones.sql` | table `secret_tombstones` | record the first outcome, look up, forget after the retention | published secrets, cleanup |
| Cleanup worker: `cleanup/worker.go` | the batch in hand, one worker per replica | sweep expired uploads, purge finished ones, remove expired and consumed secrets, sessions, tombstones, ended transfers | every table, object store |
| Short-code transfers: `transfer_handler.go`, `transfer_repo.go` | table `code_transfers` | create (a free nameplate), claim, answer, deliver, close, long polls | transfer events, clients |
| Transfer events: `adapter/postgres/transfer_events.go` | subscribers per transfer, one LISTEN connection | subscribe, wake, reconnect | transfers |
| Browser clients: `src/web/frontend/src/lib`, `pages` | upload queue, retrieval state, transfer session | upload with retries and abort, open and stream, send and receive by code | HTTP API |
| Go client and CLI: `share/`, `cli/` | none that outlives a command | share, open, status, delete | HTTP API |
| Bundle format: `share/bundle/`, `src/web/frontend/src/lib/bundle.ts` | none | block tiling, footer | clients |
| Cryptography, HTTP plumbing, metrics, configuration, pages | none of interest | | |

What makes each part correct:

* **Upload sessions.** A secret row points to a whole object; no clean-up path
  deletes what a concurrent completion publishes; the answers 201, 204 and 409 stay
  true; parts acknowledged stay recorded; no session stays pending and no object
  stays behind.
* **Published secrets.** A one-time secret is opened once; a download that was let in
  finds its object; an object never outlives its row; what is due is removed.
* **Tombstones.** The first outcome stays; "a recipient opened it" is true just when
  one did; a secret that is gone is explained.
* **Cleanup worker.** A few rows that keep failing do not hide the rest of a backlog, and
  a drain ends.
* **Transfers.** A nameplate names one open transfer; a link reaches only who typed its
  code; answer and delivery are written once; a close never undoes a delivery; a retry is
  safe; what each side is told is true, and both come to an end.
* **Transfer events.** No poll sleeps through an event.
* **Clients.** A link that was handed out stands for a whole secret; a failed upload is
  released; the upload queue settles; what a command says of a secret is true; whoever
  used up a one-time secret learns it.
* **Bundle format.** The server takes every part a client cuts; a bundle within the
  client's estimate is within the server's limit; what was shared reads back.

The hard behaviours: requests of several replicas on one row; a step in S3 inside a
database transaction; a commit that took effect although it reported an error; a
process that dies, or loses its connection and with it its row locks, and carries on
with its next storage call; cleanup against requests that were let in earlier; two
statements that were meant to see one state. `PROJECT.json` lists them as hazards,
each at its line.

## 2. Modules and plan

| Order | Module | Models | Status |
|---|---|---|---|
| 1 | `Publication` | what an upload promises its readers: nothing, then one whole blob | stated, implemented by `Uploads` |
| 1 | `Uploads` | upload sessions, object store, sweep | modelled, checked |
| 1 | `UploadsProofs` | theorems about the above, and that `Uploads` implements `Publication` | proved |
| 2 | `Secrets` | opening, reading, deletion, tombstones, cleanup | modelled, checked |
| 3 | `Transfers` | nameplates, claim, answer, delivery, close, both browsers with an abstract PAKE | modelled, checked |
| 4 | `TransferEvents` | the long poll: subscription, NOTIFY, reconnection, re-check | modelled, checked |
| 5 | `CleanupDrain` | `drainBatches` over many rows: order, limit, rows that keep failing | modelled, checked |
| 6 | `UploadQueue` | the browser's concurrent part queue, retries, cancel | modelled, checked |
| 7 | `Bundle` | record tiling, part placement, estimate, range reads, with the real sizes | modelled, checked |
| 8 | `Sharing` | the Go client's `Share` over a lossy network | modelled, checked |
| 9 | `Opening` | `open`, `status` and `delete` of the command line over a lossy network | modelled, checked |
| 10 | `SecretsProofs` | `OneTimeOpensOnce`, `DownloadSurvives`, `ObjectGoesFirst`, `RecipientIsRecorded`, `FirstOutcomeStays` | proved |
| 11 | `TransfersProofs` | `CodesAreUnambiguous`, `LinkNeedsTheCode`, `RetriesAreSafe`, `LegsStay`, `EndedIsTrue` | proved |
| 12 | `SharingProofs`, `UploadQueueProofs` | `SharedIsWhole`, `FailedIsReleased`, `QuietAtTheEnd`; `CompletesWhole`, `NoPartAfterTheAbort` | proved |
| 13 | `OpeningProofs` | `GoneIsTrue`, `OneReader`, `SpenderIsTold`, `DeletedOpensNothing` | proved |
| 14 | `BackgroundProofs` | `NoLostWakeup` of `TransferEvents`, `BacklogIsWorkedOff` of `CleanupDrain` | proved |
| 15 | `BundleProofs` | `PartsAreAccepted`, `EstimateIsEnough`, `ReadsBack` | proved |

The server appears at different grains. `Uploads` and `Secrets` have every statement and
storage call of it, and every failure of them. `Opening` has the handlers of a secret
statement by statement too, against a cleanup that holds the row and any time a request
may have read, and adds the clients and the network; what it leaves to `Secrets` are commits
of unknown outcome and locks that are lost. `Sharing` has the handlers of an upload as single
steps, but for two attempts at one part (`Overlap`): its questions are what the client makes
of lost answers and late requests, and the races inside the handlers are those of `Uploads`.

The `MC` modules instantiate the modules for TLC. Every module states the type of its
variables as `TypeOK` (`EventsTypeOK` and `DrainTypeOK` in the two modules that share a module
of proofs, whose other definitions carry these prefixes too). That of `Uploads` is a property
of a run and a theorem; those of the other modules are part of their inductive invariants.
The definitions marked
*Mutant* in a comment belong to no specification: each is a plausible slip in the
definition that follows it, and substituting it makes TLC report the property named
in `PROJECT.json`.

### Uploads

A request is a process. Its steps (`pc`) are the calls that leave it: each S3 call,
each statement outside a transaction, each transaction, or the part of one before and
after an S3 call. What the handler computes between two calls belongs to the step
before. `ctx` is what the handler has read. `lock` is a row lock, held from
`SELECT ... FOR UPDATE` to the end of the transaction.

| State | In the code |
|---|---|
| `state`, `expired` | `upload_sessions.state`; `upload_expires_at` against the time |
| `parts` | `upload_parts`: the content recorded for each part |
| `secrets` | `secrets`: which session's object the row of a public ID points to |
| `open`, `staged`, `objects` | S3: multipart uploads, what they hold, assembled objects |
| `sweep` | the batch of a worker in `AbortExpiredUploadSessions` |
| `told`, `acked` | the answers clients have (history) |

A session also stands for its storage key: `UploadStorageKey` derives a key per
session, so no two uploads write one object. A part's content stands for its hash and
its ETag. `CompleteMultipartUpload` of the store refuses an upload it no longer knows
and ETags it does not hold. A request refused before it calls anything changes
nothing (`Refuse`).

| Handler | Actions |
|---|---|
| `CreateUploadSession` | `CreateUploadSession`, `CheckSecretExists`, `InsertUploadSession`, `UndoMultipartUpload` |
| `UploadPart` | `UploadPart`, `ListRecordedParts`, `StoreUploadPart`, `FindUploadPart`, `CreateUploadPart` |
| `CompleteUploadSession` | `CompleteUploadSession`, `LockUploadSession`, `AssembleObject`, `PublishSecret`, then on failure `ClearUploadParts`, or `DiscardUpload` and `RemoveDiscardedObject` |
| `AbortUploadSession` | `AbortUploadSession`, `CancelMultipartUpload`, `MarkSessionAborted` |
| worker, `AbortExpiredUploadSessions` | `SelectExpired`, `SweepUpload`, `SweepObject`, `CommitSweep` |
| worker, `DeleteFinishedUploadSessions` | `PurgeFinished` |
| environment | `Expire`, `Crash`, `CrashWorker`, `LoseConnection` |

A failed call may or may not have had its effect: a failing step is a choice of both.

### Publication

The abstract specification: each public ID has nothing to serve, then one whole blob,
which never changes. `Uploads` implements it under the mapping `Served`: what the row
of a public ID points to. So neither a half-assembled object nor a change of object
nor a dangling row is ever visible, although each takes several steps in two stores.

### Secrets

It starts where `Uploads` ends: rows with objects, of either kind (`burn`) and any
lifetime. A request reads the clock once and decides by that time however late it
gets its lock; a read outside a transaction reads the clock and the row in one step.

| Handler | Actions |
|---|---|
| `StartRetrievalSession` | `StartRetrievalSession`, `LockSecret`, `ClaimSecret` |
| `RetrieveSecretRange` | `RetrieveSecretRange`, `GetRange` |
| `SecretMetadata` | `authenticateMetadata`, `GetTombstone`, `GetSecretIgnoringExpiry` |
| `DeleteSecret` | `authenticateMetadata`, `EraseObject`, `DeleteSecret`, or the tombstone's |
| worker | `StartCycle`, `DeleteExpiredRetrievalSessions`, `SelectSecrets`, `DeleteObject`, `DeleteExpired`, `DeleteExpiredTombstones` |
| environment | `Tick`, `AbandonRequest`, `AbandonCycle`, `LoseConnection` |

A public ID is taken as used once: it is derived from a random key, and an upload of
the same ID after the secret's removal is not modelled.

### Transfers

A sender opens one transfer, under an ID that also stands for its row; a receiver types
one code. Steps of the server are its statements.

| State | In the code |
|---|---|
| `row` | `code_transfers`: nameplate, the three legs, `closed_reason`, `closed_at` |
| `at` | when the sender's request read the time; the row expires `TTL` later |
| `pc`, `fails`, `why` | where a browser is (`transferSession.ts`), failed requests in a row, the reason it was given |
| `attempt` | writes in the server: an earlier attempt keeps running after the client retried |
| `closing` | `DELETE /transfers/{id}` requests under way; they may get lost |
| `shown`, `code`, `joined`, `peer` | the code the sender shows, the one the receiver typed, whom each talks to |

| Handler or client | Actions |
|---|---|
| `CreateTransfer` | `StartSending`, `CreateTransfer` |
| `ClaimTransfer` | `ReceiveWithCode`, `ClaimTransfer`, `ClaimedTransferExists` |
| `writeOnce` (answer, delivery) | `ReadLeg`, `JudgeLeg`, `StoreLeg` |
| `await` (the polls) and what the browser makes of the answer | `ReadTransfer`, `JudgeTransfer` |
| `CloseTransfer`, cleanup | `HandleClose`, `DeleteEndedTransfers` |
| environment | `Retry`, `GiveUp`, `Cancel`, `Tick` |

The PAKE is what the protocol relies on: `Key(s, w, r)`, the same on both sides exactly
when session, words and shares agree. A time is read where the code reads it, so a
judgement may be older or younger than the row it is about. `Tick` waits for nobody: a
statement may take any time, and so may a client between two requests, which pauses up to
30 seconds before each retry and may be suspended for longer than the minute an ended
row is kept (`endedTransferRetention`).

### TransferEvents

One server process: its listener (`Run`, with `listener` and the notifications `inbox` on
its connection), the subscriptions `waiters`, the polls' one-place channels `signal`, and
the polls. `Change` is any update of a transfer, on any replica; its notification reaches
the connection only if it listens at that time, and `Drop` loses what is on it. A poll
subscribes, reads, and waits for its channel, its timer or its end (`Subscribe`, `Read`,
`Wait`, `Wakes`, `Recheck`, `Leave`).

### CleanupDrain

Rows are numbered by the time they fall due. A batch locks the oldest `BatchSize` due
rows nobody holds (`FOR UPDATE SKIP LOCKED`), some storage calls fail, the rest is
removed, and `drainBatches` decides whether to go on. Rows in `broken` fail for ever,
others may slip once, and a batch may roll back.

### UploadQueue

An action is what JavaScript runs between two awaits: the loop of
`uploadMultipartBundle` (`Upload`), the task of a part (`Task`), the user's `Cancel`. A
request whose answer is lost may have been handled; that is decided when it is lost.

### Bundle

Sizes and offsets are the bytes of the code, and every loop takes a step per iteration, so
that no sum over files or records is a definition of its own. `Truncate` is somebody who
cuts a file short while it is shared.

| Function | Actions and operators |
|---|---|
| `EstimateEncryptedSize` and the limit in `Share` | `EstimateFile`, `CheckLimit` |
| `NewPlan` | `PlanChunk`, `PlanNextFile`, `PlanManifest` |
| `upload`, its loop that cuts parts | `EncryptRecord`, `SendTrailer` |
| the server, `UploadPart` and `validateUploadParts` | `AcceptsPart`, `validateUploadParts` |
| `ReadManifest` | `ReadManifest` |
| `validate` of the manifest | `CheckChunk`, `CheckFile`, `CheckSpan`, `CheckTiling` |
| `DecryptFile` for one file after the other | `DecryptGroup`, `ReadDone` |

### Sharing

`pc` is the main goroutine of `Share`. Each request (`call`, `tries`) is tried again as
`api/client.go` does, parts in the goroutines of an errgroup whose context ends with the
first failure. A request takes effect at one instant; an attempt nobody waits for any
more is in `late` and may take effect later (`ArriveLate`) or never. `Overlap` is the one
place where an instant is too coarse: two attempts at a part that both miss its row.

### Opening

One secret of any kind (`oneTime`, `protected`). Every user runs one command; `told` is
what it ends with, from which `exitCode` follows.

| State | In the code |
|---|---|
| `cmd`, `pc`, `tries` | the command, the request it waits for, the attempts so far (`api/client.go`) |
| `stage`, `past` | the statement its handler comes to next, and whether the time the handler has read is after the expiry |
| `asked`, `right`, `got` | passwords entered, whether the last was right, ranges read |
| `row`, `object`, `stone`, `sessions` | the tables and the store; `openers` stands for `retrieved_at` |
| `expired`, `forgotten` | the times `expires_at` and `keep_until` are over |
| `worker` | the cleanup has the row locked, and why |
| `late` | what claims and deletions that were given up may still do, from which statement on |

| Handler or client | Actions |
|---|---|
| `SecretMetadata`, `authenticateMetadata` | `authenticateMetadata`, `GetTombstone`, `GetSecretIgnoringExpiry`, and what the command makes of the answer (`Found`, `secretGone`) |
| `DeleteSecret` | `authenticateMetadata`, `EraseObject`, `ForgetSecret` |
| `StartRetrievalSession` | `Claim`: one transaction under the row's lock; it waits for a cleanup that has it |
| `RetrieveSecretRange` | `Read`, `GetRange` |
| worker | `SelectForCleanup`, `CleanUp` (object, then row and tombstone), `CleanUpFails`, `DeleteExpiredTombstones` |
| command line | `Begin`, `EnterPassword`, `Manifest` |
| network | `Lose`, `LoseBody`, `ArriveLate` |
| time | `Expire`, `CloseSession`, `ForgetTombstone` |

A request reads the time once, when it arrives: `past` is what it must at least have read,
and a handler's choice between `past` and `expired` covers a request that is slow. So a claim
may open a secret after others were told that it had expired, and a lookup may find neither
tombstone nor row although one of them was there all the time. Cleanup removes an expired
row whatever sessions it has, and a tombstone by its own time, also before the row.

## 3. The runs

| Run | Instance | What it shows |
|---|---|---|
| `upload_race` | 2 sessions for one public ID, 2 requests, 2 workers, 2 failures of any kind but a silently lost connection | completion against completion, abort and sweeps; the loser's clean-up never touches what the winner published: `CreatedIsDurable`, `AbortedIsNeverPublished`, `RefusedIsNeverPublished`, `PublicationSpec` |
| `upload_ends` | 1 session, 2 parts of 2 contents, 2 requests, 1 worker, lost commits and connections, dying completions, fairness | `SecretHasObject`, `AcknowledgedPartStays`, `PendingEnds`, `OrphanReclaimed` |
| `secret_opening` | 1 secret of either kind, 2 tokens, 2 requests, 1 worker, 1 failure, time 0..3 | `OneTimeOpensOnce`, `DownloadSurvives`, `ObjectGoesFirst`, `FirstOutcomeStays`, `RecipientIsRecorded` |
| `secret_removal` | 1 secret, 2 failures, fairness | `DueIsRemoved` |
| `transfer_handover` | 2 senders, 1 receiver and a rival, 2 words, 1 nameplate, 2 attempts, 2 troubles, time 0..3, fairness | `CodesAreUnambiguous`, `LinkNeedsTheCode`, `RetriesAreSafe`, `EndedIsTrue`, `LegsStay`, `EveryoneSettles` |
| `events_wake` | 2 transfers, 3 polls, 2 changes, 2 lost connections, fairness | `NoLostWakeup`, `PollSeesChange` |
| `share_losses` | 3 parts, 2 at a time, 2 attempts, 3 losses, fairness | `SharedIsWhole`, `FailedIsReleased`, `QuietAtTheEnd`, `ShareReturns` |
| `open_commands` | a recipient and an owner, 2 ranges, 2 attempts, 1 password, 1 loss or failed clean-up, fairness | `GoneIsTrue`, `OneReader`, `SpenderIsTold`, `DeletedOpensNothing`, `CommandsReturn` |
| `bundle_layout` | up to 3 files of 10 sizes, 3 manifest sizes, files that shrink, the code's constants | `PartsAreAccepted`, `EstimateIsEnough`, `ReadsBack` |
| `bundle_shrink` | one file | violation of `RecordsHoldTheirBytes`, see section 5 |
| `drain_backlog` | 4 rows, batches of 2, 2 workers, one or two broken rows, fairness | `BacklogIsWorkedOff`, `DrainEnds` |
| `queue_parts` | 5 parts, 3 at a time, 3 attempts, 4 losses, 2 refusals, fairness | `CompletesWhole`, `NoPartAfterTheAbort`, `UploadSettles` |

Why the bounds are enough to meet the cases.

* `Uploads`. Every race is between two holders of one row: a request and a request, a
  request and a worker, or two workers; a third waits for the same lock. Two failures let
  a failure hit the recovery from another (a commit whose outcome is unknown, then a lost
  discard). Two contents and two parts tell a part replaced in storage from one in the
  table, and an incomplete upload from a complete one. Two sessions are the fewest that
  compete for a public ID. `RefusedIsNeverPublished` needs that no connection is lost
  silently: a completion whose lock is gone may publish after a rival was told 409. The
  proofs cover any number of everything, this property under that condition and the others
  with every fault.
* `Secrets`. Time 0..3 with a lifetime of 2 and a session lifetime of 1 orders session
  end, secret end and cleanup in every way, and one secret is enough because no statement
  but the batch selection relates two. The retention of 9 in `secret_opening` keeps
  tombstones throughout; `secret_removal` lets them run out.
* `Transfers`. Two senders and one nameplate force its reuse after a mismatch, a cancellation
  or a delivery, with the claim, the attempts and the closes of the earlier transfer still under
  way; time 0..3 with a lifetime of 1 and a retention of 1 lets a row be removed while clients
  are away. The rival is a second receiver who types a code too, at any time; it takes the place
  of the two troubles (`RivalTroubles`), so it meets every interleaving but no lost request.
  `MCTransfers_reuse.cfg` has the safety properties with a second sender that starts later, so
  that a nameplate is reused after an expiry as well (2.2 million states).
* `TransferEvents`. The third poll shares a transfer with the second and not with the
  first; two drops let the connection fail again before `wakeAll`.
* `Sharing`, `UploadQueue`. More parts than places, and more losses than one request has
  attempts, so a full errgroup or queue meets a request that gives up.
* `Opening`. One command of each of two users is every pair of commands. One loss is a request
  that is repeated, one that fails over an unreadable body, or a clean-up that fails; a request
  also fails for good, without a loss, when it reads an object that is gone. The safety properties
  speak of the last password only, so one is enough for them, and the proofs cover any bounds.
  `MCOpening_ends.cfg` has `CommandsReturn` for one user with three attempts, three passwords,
  three ranges and more losses than a request has attempts: a command waits for nothing another
  one does, only for its own answers and, in `Claim` and `ForgetSecret`, for the row's lock, which
  only the cleanup holds for longer than a step.
* `Bundle`. The sizes are the boundaries themselves: a record, the smallest part, a group
  of records, a part, the upload limit, each with one byte more or less. The limit is
  64 MiB instead of 1 GiB, which only makes it reachable.
* `CleanupDrain`. Broken rows fewer than a batch, filling one, and spread over two.

`MaxFaults`, `MaxTime`, `MaxTroubles`, `RivalTroubles`, `LastStart`, `MaxDrops`, `MaxLosses`,
`MaxRefusals`, `MaxSlips` and `MaxErrors` are the bounds of the models themselves.
Permutations of requests, sessions, contents and tokens are symmetric and used only for
safety.

Deadlock is checked except where everybody may be done (`Transfers`, `TransferEvents`,
`Sharing`, `Opening`, `Bundle`). That nobody waits for ever is what the runs with fairness
show.

### Fairness

Always weak, and of what the running program does by itself; clients owe nothing unless
the module is about one.

* `upload_ends`, `secret_removal`: the steps of a request that has arrived (a row lock
  another process holds ends with that process's transaction, which is fair too), the
  worker's steps (`cleanup/worker.go` fires its cycle on a ticker, and logs and passes
  over every error), and time. Failures are finitely many, so a retry that works comes.
* `transfer_handover`: the server answers what it was asked, a client goes on with the
  answer, and time passes. Nobody has to start, cancel, or clean up.
* `events_wake`: a poll goes on when it can, and one of the two ways to learn of a change
  works: the listener comes back, or the re-check fires. Either alone is enough.
* `share_losses`, `open_commands`: the client's own goroutines run, and every attempt is
  answered or lost. The HTTP client has no timeout of its own (`share/api/client.go:41`),
  so the latter is the network's part: a dead connection breaks in the end. In `open_commands` a
  cleanup that has the row ends too (`cycleTimeout` bounds it).
* `queue_parts`: the event loop runs what can run.
* `drain_backlog`: time, the ticker, and batches that end.

## 4. The proofs

Every safety invariant and safety action property of the runs is proved for every value of
the constants. The constants are constrained only by the named `ASSUME`s of the modules: sets
of processes do not overlap, `None` (NULL, no row, nobody) is none of the values it stands
beside (`NoTombstone`, `NoneIsNoValue`), limits and lifetimes are natural numbers, the tables
of `Secrets` and `CleanupDrain` are finite, and the sizes of `Bundle` fit each other
(`LayoutAssumption`, below).

| Module | Theorem | States |
|---|---|---|
| `UploadsProofs` | `TypeCorrect` | `Spec => []TypeOK` |
| | `ObjectsAreKept` | `Spec => []SecretHasObject` |
| | `CreatedStays` | `Spec => []CreatedIsDurable` |
| | `AbortIsFinal` | `Spec => []AbortedIsNeverPublished` |
| | `PartsAreKept` | `Spec => []AcknowledgedPartStays` |
| | `RefusalIsFinal` | `Spec => []RefusedIsNeverPublished`, if no connection is lost silently |
| | `UploadsPublish` | `Spec => PublicationSpec` |
| `SecretsProofs` | `OneSessionPerOneTimeSecret` | `Spec => []OneTimeOpensOnce` |
| | `RowsOutliveObjects` | `Spec => []ObjectGoesFirst` |
| | `CleanupSparesReaders` | `Spec => []DownloadSurvives` |
| | `RecordIsTrue` | `RecipientIsRecorded`, within the retention |
| | `AnswersKeepToTheRecord` | `FirstOutcomeStays`, within the retention |
| `TransfersProofs` | `CodesNameOneTransfer` | `Spec => []CodesAreUnambiguous` |
| | `LinksGoToTheCode` | `Spec => []LinkNeedsTheCode` |
| | `RepeatingIsSafe` | `Spec => []RetriesAreSafe` |
| | `LegsAreWrittenOnce` | `Spec => LegsStay` |
| | `EndsAreTrue` | `Spec => []EndedIsTrue` |
| `BackgroundProofs` | `WakeupsAreKept` | `EventsSpec => []NoLostWakeup` |
| | `BadRowsDoNotStall` | `DrainSpec => []BacklogIsWorkedOff` |
| `UploadQueueProofs` | `CompletionsAreWhole` | `Spec => []CompletesWhole` |
| | `NoRequestAfterTheAbort` | `Spec => NoPartAfterTheAbort` |
| `SharingProofs` | `LinksMeanPublished` | `Spec => []SharedIsWhole` |
| | `FailureReleases` | `Spec => []FailedIsReleased` |
| | `NothingRunsOn` | `Spec => []QuietAtTheEnd` |
| `OpeningProofs` | `GoneIsWhatHappened` | `Spec => []GoneIsTrue` |
| | `OneReaderAtMost` | `Spec => []OneReader` |
| | `SpendersAreTold` | `Spec => []SpenderIsTold` |
| | `DeletedIsGone` | `Spec => []DeletedOpensNothing` |
| `BundleProofs` | `PartsFit` | `Spec => []PartsAreAccepted` |
| | `EstimateHolds` | `Spec => []EstimateIsEnough` |
| | `BundlesReadBack` | `Spec => []ReadsBack` |

### Uploads

`TypeOK` is not inductive: an action applies `state` to `ctx[r].s`, so `TypeInv` adds
`CtxOK`, that a request past its first step has a session (and a part with its
content, or ETags).

`SecretHasObject` is not inductive either. A state in which a worker is about to
delete the object of a published session satisfies it, and the next step breaks it.
`SafeInv` rules those states out:

* `LockInv`: a request that holds a row is between `LockUploadSession` and its commit,
  on its own session, which is pending all that time; once storage has assembled the
  object it is still there at the commit;
* `DiscardInv`: who is about to remove a discarded object has moved the session to
  aborted itself, so it is published by nobody and never will be;
* `SweepInv`: the sessions a worker has in hand have expired, are not published, and no
  request holds their row. This is the part that
  carries the argument where locks do not: a worker whose connection is gone keeps
  deleting without any lock, and what keeps a completion from publishing under it is
  that `validatePendingUploadSession` refuses expired sessions under the row lock;
* `PublishedInv`: a published session is completed, or purged later, and has its object;
* `ToldInv`: what the answers given so far say about the sessions' states.

Two more properties rest on `Forward`, the directions in which every step moves: sessions
never go back, a secret row is never replaced, an upload is opened only for a session that
is not there yet. `PartsInv` then says that an acknowledged part belongs to a session that
is there, so nothing can start that session over with an empty table. `GoneInv` says that a
session somebody was told is gone is `Spent`: its public ID is taken, or its multipart upload
has ended and nobody is about to publish it, and spent is for good. That the one who refuses
can be sure of it takes `HoldInv`, that a completion holds its row until it ends, and this is
where the theorem needs that connections are not lost silently.

For the refinement `ServeInv` adds `RowInv` (only a session's own public ID points to
it) and `OpenInv` (storage has forgotten the multipart upload before the secret row can
be there, so not even a completion that has lost its lock assembles a published object
anew). Every step then leaves `Served` as it is, but for a successful `PublishSecret`,
which is a `Publish`.

### Secrets

* `ObjectsInv`: whoever is about to remove a row, the owner's request or a worker with rows
  set down as removable, has removed the object before. No lock is needed for that, so it
  holds with lost connections too.
* `OpeningInv`: a one-time secret with a session is marked opened, and `ClaimSecret` marks
  and checks in one transaction.
* `TokensInv`, `ReadingInv`: a worker holds, and storage has lost, only what the owner asked
  for or what is `Over`: expired, or used up with all its sessions run out. A session leaves
  the table only when it ran out or with its row, which makes the worker's look at the table
  of sessions (`SelectSecrets`) as good as a look at all that were ever granted.
* `StonesInv`, `LocksInv`, `TimesInv`: a tombstone comes with the end of its secret, is
  kept until `expires + Retention` at least, and nothing writes over it. The last holds only
  while it is there: `Retained(p)` is `clock < expires[p] + Retention`, and the two theorems
  about the record say what they say of secrets within it. The bound is exact: past it
  `MCSecrets_outage` shows `FirstOutcomeStays` fail (section 5).
* `AnswersInv`: a request that saw an outcome on record turns to the row for its answer only
  past that time.

### Transfers

`TransfersInv` ties the two browsers to the row. The parts that carry the argument:

* a receiver that has joined is the `receiver` of the row as long as there is one, so at most
  one receiver writes an answer, and a repeated write finds its own value
  (`ReceiverInv`, `LegsInv`);
* the second look of a write that was refused finds the transfer ended or its own leg
  (`AttemptInv`, `again`), which is why `JudgeLeg` never answers conflict to who follows the
  protocol;
* the nameplate a sender shows is the one in its row (`SenderInv`), and `CreateTransfer`
  takes one no open transfer has: the smallest free one exists because the naturals are well
  ordered.

`EndedIsTrue` needs a second invariant, `TruthInv`, on top, and no assumption about time: how
long a client is away, or a statement takes, is not bounded. An end has a reason that holds for
good (`RightEnd`, `EndInv`), also one that is only on its way in `closing`. A row that is not
there any more was removed because its time was up, or after such an end (`Over`). So a client
that finds no row and says "expired" may be wrong about the reason, but only when the transfer
had ended before by a mismatch, a delivery or somebody's withdrawal and the row was deleted while
it was away: this is what the property allows, and all that the relay can still know. A client
that finds the row is told its reason.

### TransferEvents

`NoLostWakeup` is inductive once `Subscribed` is added: a poll between its subscription and
its end is among the waiters of its transfer, which is why `wake` and `wakeAll` reach it.
That is the order of `Subscribe` and `Read` in `await`.

### CleanupDrain

`DrainInv`: a batch with room to spare took all there was, and a drain that ended with fewer
failures than a batch holds ended with such a batch; from then on every due row is held by
somebody or was tried in vain (`Covered`), because a row is let go only when it is removed or
counted as skipped (`Careful`). That the first `BatchSize` rows by age are all rows when they
are fewer (`ShortBatchIsAll`) is proved from the well-ordering of the naturals.

### UploadQueue and Sharing

`QueueInv`: parts are scheduled in order and each before `next` has a task (`InOrder`); a task
that has ended without a failure has stored its part (`SettledIsStored`); a failure is kept,
and closes the queue before the abort (`FailedIsClosed`). So a queue that has drained without
a failure has stored all.

`SharingInv` has the same order for the main goroutine of `Share` (`ShareInv`, `CallsInv`).
What late requests add is in `TriesInv`, that an attempt nobody waits for is older than the
one that was answered. A start that arrives late therefore makes a session of its own, never
the one `Share` knows, and `SessionInv`, what the answers say of that session, is not disturbed by it;
a late completion or abort finds either an open session or one whose end is final.

### Opening

`OpeningInv` has the record of the server, what each request knows, and what was said.

* `ServerInv`, `StoneInv`: sessions and a cleanup that has locked the row need the row; a
  tombstone says what happened, and while tombstones are kept an opened one-time secret has
  that of its opening and a row that is gone has left one.
* `RequestInv`, `LookInv`: what a request knows from an earlier statement may be old, and this is
  what stays true of it. A lookup that has gone on to the tombstone is for a secret that was over
  at the request's time, one that has found no tombstone missed none, and a deletion that comes
  to the row, also one nobody waits for, has removed the object. `DeletedIsGone` follows:
  removing the row takes the sessions with it, a claim needs the row, and a row that is gone does
  not come back.
* `CommandInv`: a password is asked for only after none or a wrong one (`PasswordInv`, `Placed`).
  So whoever opened the secret, or may still open it by a request that was given up, had the right
  one and is never told of a wrong one later.
* `ToldInv`, `Truthful`: what a command says is true when it is said, and stays true because the
  end of a secret is final (`Onward`). The hard part is that an expired secret may still be
  opened, by a claim that read the time before, when others have been told that it expired.
  `Closed` is what makes that harmless: the one-time secret that somebody calls expired or deleted
  has no reader, because whoever opens it from then on sends its first read after the expiry, and
  is refused (`Quiet`).

### Bundle

`LayoutAssumption` is what client and server have to agree on without ever comparing it. It
says, with the values of the code (chunks of 4 MiB with 40 bytes of overhead, parts of 32 and
at most 33 MiB, at least 5 MiB, 256 KiB of manifest, 10000 parts, groups of 16 MiB, ranges of
128 MiB, 1 GiB in all):

* a part that is below the minimum takes one more record and is still within the part size,
  and a part of that size takes manifest and footer and is still within the server's maximum;
* what the client may upload is within `MAX_FILE_SIZE` and in parts of the minimum size has
  fewer numbers than there are. The former is true of the server's default
  (`platform/config/config.go:23`), which the client's limit names (`share/share.go:29`); a
  server configured with less refuses larger uploads when they start;
* a record's overhead is at most a chunk, and a group of records with its overhead, a record,
  a manifest, a footer and a small bundle each fit into a range.

None of the three properties is inductive, and the first is even about a size that is known
only later: a part is accepted or not by the total of the plan. The parts of `BundleInv`:

* `EstimateInv`. The estimate and the plan are two loops over the same files, and the second
  has to stay within what the first added up. The totals of the first are kept in two
  functions the invariant asserts to exist, the bytes and the chunks before each file
  (`Running`); the plan, at its record `k` of a file, is within the totals before that file and
  `k` records more (`Within`), and `ChunksOf` bounds `k`. This takes the place of an induction
  over the files.
* `RecordsInv`, with `Follows` for any two records: where one begins relative to the other, in
  the bundle and in the file, which is all that tiling and groups need. `PlanInv` says the same
  of the place the plan has come to, `PlannedInv` of all files at its end.
* `PartsInv`. The part being filled is within the part size, so the trailer always has room,
  and each part before it has the minimum size, so part `n` begins at `(n - 1)` times that at
  least and the limit on the whole bounds the number of parts.
* `CheckInv`. `validate` never fails: the bytes counted for a file are where its last record
  ended, and the places still to be checked are always those from some record on, of which the
  smallest begins where the previous one ended.
* `RangesInv`. A group ends where the next record does not fit any more (the naturals are well
  ordered, so there is such a place), and has at most one overhead per chunk, so that it is
  within twice `CoalesceBytes` and one overhead.

Files that shrink are part of it: what is wrong then is the content of a record, never its
length, and that is the finding `bundle_shrink`.

### Only model-checked

The liveness properties `PendingEnds`, `OrphanReclaimed`, `DueIsRemoved`, `EveryoneSettles`,
`PollSeesChange`, `ShareReturns`, `CommandsReturn`, `DrainEnds` and `UploadSettles`: fairness
and `ENABLED` are out of the prover's reach.

## 5. Where the code and its comments disagree

`bundle_shrink` is a run. The other counterexamples are as small, and their configurations
are kept beside it (`tlc -config MCX_name.cfg MCX`).

* `bundle_shrink`, `RecordsHoldTheirBytes`. The check after `ReadAt` (`share/share.go:298`) means
  to accept `io.EOF` only with a full record, but compares the length of the buffer, which was cut
  to the record's size before, and drops the count. A file that became shorter is shared with the
  previous record's bytes in its place; the browser's client refuses it.
* `MCOpening_prompt`, `OkHasContent`. The second password prompt assigns over the error of
  `share.Open` (`cli/open.go:111`); an empty answer leaves the loop with no error, so `open`
  ends with exit code 0 and without the content, where `cli/cli_test.go:127` expects 3 after a
  wrong password. No property of a run passes over this case: what `open` promises with exit
  code 0 is stated without exception, and is violated.
* `MCOpening_owner`, `OwnerIsAddressed`. `message` (`cli/cli.go:228`) unwraps any `GoneError`
  first, so the owner's version that `describedGone` carries (`cli/open.go:58`) is shown by
  `status` only.
* `MCOpening_left`, `NothingIsLeft`. The owner is told that nothing is left on the server
  (`cli/format.go:108`) from the moment the session starts; row and object stay until the
  session has ended and a cleanup cycle has come by.
* `MCSecrets_gone`, `GoneIsExplained`. `GetTombstone` looks for a tombstone, then for the
  row. Cleanup moves an expired secret from the one to the other in between: a secret with
  a tombstone on record is answered as one that never was, which the comment above it
  (`secret_repo.go:567-570`) excludes. `Opening` has the same two statements, and `GoneIsTrue`
  is what a user can rely on all the same.
* `MCTransfers_expiry`, `LegIsReturned`. `transfer_handler.go:336` says that a leg that was
  written is returned even after the transfer closed. `await` judges the row it read with a
  later time: a delivery that commits in between, just before the expiry, is answered as
  expired.
* `MCUploadQueue_cancelled`, `CancelledIsNotPublished`. "Cancels the upload; the server session is
  aborted" (`multipartBundleUpload.ts:47`): a cancel between two attempts at the completion, of
  which the first took effect, reports as cancelled what is published.
* `MCUploads_orphan`, `OrphanAlwaysReclaimed`. A completion dies between storage's
  completion and its commit, and the client aborts the upload. `AbortUploadSession` marks
  the session aborted and deletes no object; the sweep looks at pending sessions only. The
  object stays, although `worker.go:89-91` and `upload_handler.go:293-294` say cleanup
  removes it. `OrphanReclaimed` states what does hold.
* `MCSecrets_outage`, `FirstOutcomeStays`. When a tombstone is past its retention and the
  row is still there, the lookup falls back to the row and says expired of a secret that
  was opened.
* `MCSharing_retry`, `PartRetryIsSafe`. Sending a part again is meant to be idempotent
  (`upload_session_repo_test.go:128`). While the first attempt is still being recorded, both
  find no row to lock, the second insert hits the primary key and is answered 409, over
  which the client gives the whole upload up.
* `MCSharing_lost`, `FailedIsNotPublished`. "Whatever went wrong, the partial upload is
  useless: release it" (`share/share.go:227`): when the answer to the completion is lost,
  `Share` fails, its abort is refused, and a published secret stays that nobody has a link
  to.

## 6. What is not modelled, and why

* Ciphertext, keys, key derivation and the PAKE's arithmetic: primitives, not states. The
  PAKE appears as the agreement it provides.
* The bytes of footer and manifest: only their sizes and what they describe.
* Rate limits, middleware, metrics, health, configuration, static files: stateless wiring
  or libraries.
* Pages and components: presentation. The retrieval page takes the steps `Opening` has for
  the command line, with a browser's streams in place of files.
* Interrupts of `open`, `status` and `delete`: the process ends, with what `Opening` has for
  an answer that is lost.
* Word lists, argument parsing, output formats, migration tooling: data and formatting.
* A crash between `CreateMultipartUpload` and the insert of the session: nothing in the code
  reclaims that upload, a lifecycle rule of the bucket has to.
* An upload of a public ID that was used before: IDs are derived from random keys.
* Clock skew between replicas: every process reads one clock, though it may act on what it
  read as late as it likes.
* PostgreSQL and S3 themselves: taken at their documented word (row locks, unique indexes,
  atomic commit, NOTIFY at most once; multipart semantics), with every outcome of a failed
  call.
