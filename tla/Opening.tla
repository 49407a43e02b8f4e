------------------------------- MODULE Opening -------------------------------
(***************************************************************************)
(* The command line against one published secret: open, status and delete  *)
(* of internal/cli over Inspect, Open and Delete of share/share.go, on a   *)
(* network that loses requests and answers (share/api/client.go), against  *)
(* the handlers of secret_handler.go, statement by statement, and the      *)
(* cleanup.                                                                *)
(*                                                                         *)
(* Every user runs one command.  pc is the request the command is waiting  *)
(* for, stage where the server is with it, and told what the command ends  *)
(* with.  A handler reads the time once and uses it in every statement:    *)
(* past says whether the secret's time was over then.                      *)
(***************************************************************************)
EXTENDS Naturals, FiniteSets

CONSTANTS
  Users,                 \* people with a link, each running one command
  Owners,                \* those whose link carries the deletion token
  Ranges,                \* range requests it takes to read the bundle
  MaxTransientAttempts,  \* how often a request is tried
  MaxPasswords,          \* how often open asks for the password
  MaxLosses              \* bound: attempts without an answer, failed clean-ups

ASSUME OpeningAssumption ==
  /\ Owners \subseteq Users
  /\ {Ranges, MaxTransientAttempts, MaxPasswords} \subseteq Nat \ {0}
  /\ MaxLosses \in Nat

Outcomes == {"opened", "expired", "deleted"}
NoStone == [outcome |-> "none", first |-> FALSE, owner |-> FALSE]
Tombstones == [outcome : Outcomes, first : BOOLEAN, owner : BOOLEAN]
Gone == [end : {"gone"}, outcome : Outcomes, first : BOOLEAN, owner : BOOLEAN,
         version : {"owner", "recipient"}]
Ends == {"none", "ok", "not found", "not owner", "required", "wrong password",
         "window closed", "sink", "terminal", "network", "unreadable"}
Lookups == {"describe", "inspect", "why", "status", "delete"}
Requests == Lookups \cup {"claim", "read"}
Stages == {"none", "look", "tomb", "row", "erase", "forget", "range"}

VARIABLES
  \* the commands
  cmd,        \* "open", "status" or "delete"
  pc,         \* the request under way; "idle" before, "ask", "sink", "done"
  stage,      \* the statement its handler comes to next
  tries,      \* attempts of that request so far
  past,       \* the time of the request is after the expiry; when it is sent,
              \* the time it will at least have
  asked,      \* passwords a user has entered
  right,      \* the users whose last password was right
  got,        \* ranges a user has read
  told,       \* what the command returned: "ok" for no error, or its error
  seen,       \* history: the secret had been opened when the request was sent
  \* the secret
  oneTime,    \* it opens once (burn_after_read)
  protected,  \* it has a password
  \* the server
  row,        \* its row is there
  expired,    \* its time is over
  object,     \* the encrypted bundle is in the object store
  stone,      \* its tombstone
  forgotten,  \* the time a tombstone was to be kept is over
  sessions,   \* open retrieval sessions, whose token the user holds or lost
  worker,     \* "idle", or why the cleanup has locked the row
  openers,    \* users who opened it: retrieved_at is set by the first
  \* the network
  late,       \* what requests nobody waits for may still do
  losses      \* attempts without an answer and failed clean-ups so far

entered == <<asked, right, got>>
command == <<cmd, pc, stage, tries, past, entered, told, seen>>
kind == <<oneTime, protected>>
server == <<row, expired, object, stone, forgotten, sessions, worker, openers>>
network == <<late, losses>>
vars == <<command, kind, server, network>>

TypeOK ==
  /\ cmd \in [Users -> {"open", "status", "delete"}]
  /\ pc \in [Users -> Requests \cup {"idle", "ask", "sink", "done"}]
  /\ stage \in [Users -> Stages]
  /\ tries \in [Users -> 0 .. MaxTransientAttempts]
  /\ {past, seen} \subseteq [Users -> BOOLEAN]
  /\ asked \in [Users -> 0 .. MaxPasswords]
  /\ right \subseteq Users
  /\ got \in [Users -> 0 .. Ranges]
  /\ told \in [Users -> [end : Ends] \cup Gone]
  /\ {oneTime, protected, row, expired, object, forgotten} \subseteq BOOLEAN
  /\ stone \in Tombstones \cup {NoStone}
  /\ sessions \subseteq Users \X {"held", "lost"}
  /\ worker \in {"idle", "expired", "consumed"}
  /\ openers \subseteq Users
  /\ late \subseteq Users \X {"claim", "look", "erase", "forget"}
  /\ losses \in 0 .. MaxLosses

Init ==
  /\ cmd \in [Users -> {"open", "status", "delete"}]
  /\ pc = [u \in Users |-> "idle"]
  /\ stage = [u \in Users |-> "none"]
  /\ tries = [u \in Users |-> 0]
  /\ past = [u \in Users |-> FALSE]
  /\ asked = [u \in Users |-> 0]
  /\ oneTime \in BOOLEAN
  /\ protected \in BOOLEAN
  /\ right = IF protected THEN {} ELSE Users
  /\ got = [u \in Users |-> 0]
  /\ told = [u \in Users |-> [end |-> "none"]]
  /\ seen = [u \in Users |-> FALSE]
  /\ row = TRUE
  /\ expired = FALSE
  /\ object = TRUE
  /\ stone = NoStone
  /\ forgotten = FALSE
  /\ sessions = {}
  /\ worker = "idle"
  /\ openers = {}
  /\ late = {}
  /\ losses = 0

-----------------------------------------------------------------------------
(* The record (secret_repo.go).                                            *)

\* retrieved_at: any opening of a one-time secret, a recipient's of another.
Retrieved == (IF oneTime THEN openers ELSE openers \ Owners) # {}

\* Mutant: only a recipient's opening uses a one-time secret up.
ConsumedByRecipient == oneTime /\ openers \ Owners # {}

Consumed == oneTime /\ Retrieved

\* The tombstone of a secret that ended now.
tombstone(outcome, byOwner) ==
  [outcome |-> outcome, owner |-> byOwner,
   first |-> (outcome = "opened" /\ ~byOwner) \/ (~oneTime /\ Retrieved)]

\* Mutant: the last outcome is recorded.
CreateTombstoneAnew(outcome, byOwner) == stone' = tombstone(outcome, byOwner)

\* The first outcome recorded stays.
CreateTombstone(outcome, byOwner) ==
  stone' = IF stone = NoStone THEN tombstone(outcome, byOwner) ELSE stone

\* The claim of StartRetrievalSession commits; the user gets the session's
\* token, or nobody does.
Opened(u, token) ==
  /\ openers' = openers \cup {u}
  /\ sessions' = sessions \cup {<<u, token>>}
  /\ IF oneTime THEN CreateTombstone("opened", u \in Owners) ELSE UNCHANGED stone
  /\ UNCHANGED <<row, expired, object, forgotten, worker>>

\* Mutant: the sessions stay when the row goes.
DeleteRowAlone ==
  /\ worker = "idle"
  /\ row' = FALSE
  /\ IF row THEN CreateTombstone("deleted", FALSE) ELSE UNCHANGED stone
  /\ UNCHANGED <<expired, object, forgotten, sessions, worker, openers>>

\* SecretRepo.Delete: it waits for a cleanup that holds the row, the sessions
\* go with the row, and a row that is gone already is no error.
DeleteRow ==
  /\ worker = "idle"
  /\ row' = FALSE
  /\ sessions' = {}
  /\ IF row THEN CreateTombstone("deleted", FALSE) ELSE UNCHANGED stone
  /\ UNCHANGED <<expired, object, forgotten, worker, openers>>

DeleteObject ==
  /\ object' = FALSE
  /\ UNCHANGED <<row, expired, stone, forgotten, sessions, worker, openers>>

-----------------------------------------------------------------------------
(* Time and the cleanup.                                                   *)

Expire ==
  /\ ~expired
  /\ expired' = TRUE
  /\ UNCHANGED <<command, row, object, stone, forgotten, sessions, worker, openers, network>>

\* The fifteen minutes of a retrieval session are over.
CloseSession ==
  /\ \E s \in sessions : sessions' = sessions \ {s}
  /\ UNCHANGED <<command, row, expired, object, stone, forgotten, worker, openers, network>>

\* keep_until is a week after the expiry, or after a later end.
ForgetTombstone ==
  /\ expired /\ stone # NoStone /\ ~forgotten
  /\ forgotten' = TRUE
  /\ UNCHANGED <<command, row, expired, object, stone, sessions, worker, openers, network>>

\* SelectSecretsForCleanup locks a row that is due.
SelectForCleanup ==
  /\ worker = "idle" /\ row
  /\ \/ expired /\ worker' = "expired"
     \/ Consumed /\ sessions = {} /\ worker' = "consumed"
  /\ UNCHANGED <<command, row, expired, object, stone, forgotten, sessions, openers, network>>

\* The object goes first, then the row with the sessions it has, leaving a
\* tombstone of an expiry; the clean-up of an opened one-time secret writes none.
CleanUp ==
  /\ worker # "idle"
  /\ \/ object /\ DeleteObject
     \/ /\ ~object
        /\ row' = FALSE
        /\ sessions' = {}
        /\ worker' = "idle"
        /\ IF worker = "expired" THEN CreateTombstone("expired", FALSE) ELSE UNCHANGED stone
        /\ UNCHANGED <<expired, object, forgotten, openers>>
  /\ UNCHANGED <<command, network>>

\* The storage or the database fails: the row stays for a later cycle.
CleanUpFails ==
  /\ worker # "idle" /\ losses < MaxLosses
  /\ worker' = "idle"
  /\ losses' = losses + 1
  /\ UNCHANGED <<command, row, expired, object, stone, forgotten, sessions, openers, late>>

\* By their own time, whether the row is still there or not.
DeleteExpiredTombstones ==
  /\ forgotten /\ stone # NoStone
  /\ stone' = NoStone
  /\ UNCHANGED <<command, row, expired, object, forgotten, sessions, worker, openers, network>>

-----------------------------------------------------------------------------
(* How a command moves.                                                    *)

\* A request goes out.
Attempt(u, request, n) ==
  /\ pc' = [pc EXCEPT ![u] = request]
  /\ stage' = [stage EXCEPT ![u] = "look"]
  /\ tries' = [tries EXCEPT ![u] = n]
  /\ past' = [past EXCEPT ![u] = expired]
  /\ seen' = [seen EXCEPT ![u] = Retrieved]
  /\ UNCHANGED <<cmd, told>>
Await(u, request) == Attempt(u, request, 1)

\* Its handler, which took now for the time, comes to the next statement.
Goes(u, to, now) ==
  /\ stage' = [stage EXCEPT ![u] = to]
  /\ past' = [past EXCEPT ![u] = now]
  /\ UNCHANGED <<cmd, pc, tries, told, seen>>

\* The command has its answer: a step of its own, or the end.
Rest(u, step) ==
  /\ pc' = [pc EXCEPT ![u] = step]
  /\ stage' = [stage EXCEPT ![u] = "none"]
  /\ tries' = [tries EXCEPT ![u] = 0]
  /\ past' = [past EXCEPT ![u] = FALSE]
  /\ UNCHANGED <<cmd, seen>>
Local(u, step) == Rest(u, step) /\ UNCHANGED told
Return(u, what) == Rest(u, "done") /\ told' = [told EXCEPT ![u] = what]
Succeed(u) == Return(u, [end |-> "ok"])
Fail(u, why) == Return(u, [end |-> why])

\* What the handler may have taken for the time.
Times(u) == {past[u], expired}

Begin(u) ==
  /\ pc[u] = "idle"
  /\ CASE cmd[u] = "open" -> Await(u, "describe")
       [] cmd[u] = "status" -> Await(u, "status")
       [] cmd[u] = "delete" -> IF u \in Owners THEN Await(u, "delete")
                               ELSE Fail(u, "not owner")
  /\ UNCHANGED <<entered, server, network>>

-----------------------------------------------------------------------------
(* Looking a secret up: describe and inspect of open, the reason of an     *)
(* opening that failed, status, and the authentication of a deletion.      *)

\* status prints the version for its user; message unwraps the sentence that
\* describeGone chose for the owner and prints the recipient's.
Version(u) == IF cmd[u] = "status" /\ u \in Owners THEN "owner" ELSE "recipient"

\* The 410 answer, as the command reports it.
secretGone(u, tomb) ==
  Return(u, [end |-> "gone", outcome |-> tomb.outcome, first |-> tomb.first,
             owner |-> tomb.owner, version |-> Version(u)])

\* A live secret: open describes it, looks again before it opens it, and does
\* not know why it could not; status is done; delete goes on.
Found(u) ==
  CASE pc[u] = "describe" /\ protected -> Local(u, "ask")
    [] pc[u] = "describe" /\ ~protected -> Await(u, "inspect")
    [] pc[u] = "inspect" -> Await(u, "claim")
    [] pc[u] = "why" -> Fail(u, "not found")
    [] pc[u] = "status" -> Succeed(u)
    [] pc[u] = "delete" -> Goes(u, "erase", FALSE)

authenticateMetadata(u) ==
  /\ pc[u] \in Lookups /\ stage[u] = "look"
  /\ \E now \in Times(u) :
       IF row /\ ~now /\ ~Consumed THEN Found(u) ELSE Goes(u, "tomb", now)
  /\ UNCHANGED <<entered, server, network>>

\* The first statement of GetTombstone.  Once tombstones run out, it depends
\* on the time of the request whether one that is still there counts.
GetTombstone(u) ==
  /\ stage[u] = "tomb"
  /\ \/ stone # NoStone /\ secretGone(u, stone)
     \/ (stone = NoStone \/ forgotten) /\ Goes(u, "row", past[u])
  /\ UNCHANGED <<entered, server, network>>

\* The second: the row of an expired secret the cleanup has not reached yet.
GetSecretIgnoringExpiry(u) ==
  /\ stage[u] = "row"
  /\ IF row /\ past[u] THEN secretGone(u, tombstone("expired", FALSE))
     ELSE Fail(u, "not found")
  /\ UNCHANGED <<entered, server, network>>

\* DeleteSecret: the object first, then the row.
EraseObject(u) ==
  /\ stage[u] = "erase"
  /\ DeleteObject
  /\ Goes(u, "forget", past[u])
  /\ UNCHANGED <<entered, network>>

ForgetSecret(u) ==
  /\ stage[u] = "forget"
  /\ DeleteRow
  /\ Succeed(u)
  /\ UNCHANGED <<entered, network>>

-----------------------------------------------------------------------------
(* Opening.                                                                *)

\* The first password comes from a file, the environment or a prompt, and none
\* is an error; at the later prompts, an empty one leaves the loop with the
\* error of the prompt, which is nil.
EnterPassword(u) ==
  /\ pc[u] = "ask"
  /\ \/ /\ Await(u, "inspect")
        /\ asked' = [asked EXCEPT ![u] = @ + 1]
        /\ right' \in {right \cup {u}, right \ {u}}
        /\ UNCHANGED got
     \/ /\ \/ asked[u] = 0 /\ Fail(u, "required")
           \/ asked[u] > 0 /\ Succeed(u)
           \/ asked[u] > 0 /\ Fail(u, "terminal")
        /\ UNCHANGED entered
  /\ UNCHANGED <<server, network>>

\* A wrong password is asked for again at a terminal, three times in all.  (A
\* link whose tokens do not fit is left out: every user has a good one.)
Refused(u) ==
  \/ asked[u] < MaxPasswords /\ Local(u, "ask")
  \/ Fail(u, "wrong password")

\* Mutant: the reason is not looked up.
NotThereNoReason(u) == Fail(u, "not found")

\* Mutant: a secret that went away is tried again.
NotThereAgain(u) == Await(u, "claim")

\* The secret went between the look and the opening: the server can say why.
NotThere(u) == Await(u, "why")

\* StartRetrievalSession.  It locks the row, so it waits for a cleanup that
\* has it; an expired secret does not match.
Claim(u) ==
  /\ pc[u] = "claim"
  /\ \E now \in Times(u) :
       LET there == row /\ ~now /\ ~Consumed
       IN  /\ row /\ ~now => worker = "idle"
           /\ \/ there /\ u \in right /\ Opened(u, "held") /\ Await(u, "read")
              \/ there /\ u \notin right /\ Refused(u) /\ UNCHANGED server
              \/ ~there /\ NotThere(u) /\ UNCHANGED server
  /\ UNCHANGED <<entered, network>>

\* RetrieveSecretRange looks the session up, then the object.
Read(u) ==
  /\ pc[u] = "read" /\ stage[u] = "look"
  /\ \E now \in Times(u) :
       IF <<u, "held">> \in sessions /\ ~now THEN Goes(u, "range", now)
       ELSE Fail(u, "window closed")
  /\ UNCHANGED <<entered, server, network>>

-----------------------------------------------------------------------------
(* The network.                                                            *)

GiveUp(u) == Fail(u, "network")

\* No answer, or 429 or 5xx: another attempt, or an error after the last one.
Again(u) == IF tries[u] < MaxTransientAttempts THEN Attempt(u, pc[u], tries[u] + 1)
            ELSE GiveUp(u)

\* The first range brings the manifest for the sink to look at.  That the
\* object is gone is a server error.
GetRange(u) ==
  /\ stage[u] = "range"
  /\ IF object
     THEN /\ got' = [got EXCEPT ![u] = @ + 1]
          /\ CASE got[u] = 0 -> Local(u, "sink")
               [] got[u] > 0 /\ got[u] + 1 < Ranges -> Await(u, "read")
               [] OTHER -> Succeed(u)
     ELSE Again(u) /\ UNCHANGED got
  /\ UNCHANGED <<asked, right, server, network>>

\* The sink refuses files that exist, and more than one file for stdout.
Manifest(u) ==
  /\ pc[u] = "sink"
  /\ \/ IF Ranges > 1 THEN Await(u, "read") ELSE Succeed(u)
     \/ Fail(u, "sink")
  /\ UNCHANGED <<entered, server, network>>

\* What a request whose time is not past does when it arrives: a claim opens
\* the secret, a deletion begins; one under way goes on.
Effects(u) ==
  CASE pc[u] = "claim" -> IF u \in right /\ ~past[u] THEN {<<u, "claim">>} ELSE {}
    [] pc[u] = "delete" /\ stage[u] = "look" -> IF past[u] THEN {} ELSE {<<u, "look">>}
    [] stage[u] \in {"erase", "forget"} -> {<<u, stage[u]>>}
    [] OTHER -> {}

\* Whether the attempt arrives, how far it gets, and when, is open.
Lose(u) ==
  /\ pc[u] \in Requests /\ losses < MaxLosses
  /\ losses' = losses + 1
  /\ late' = late \cup Effects(u)
  /\ Again(u)
  /\ UNCHANGED <<entered, server>>

\* A success whose body cannot be read is not tried again.
LoseBody(u) ==
  /\ losses < MaxLosses
  /\ losses' = losses + 1
  /\ \/ /\ pc[u] = "claim" /\ u \in right
        /\ row /\ ~past[u] /\ ~Consumed /\ worker = "idle"
        /\ Opened(u, "lost")
     \/ stage[u] = "range" /\ object /\ UNCHANGED server
     \/ /\ pc[u] \in Lookups \ {"delete"} /\ stage[u] = "look"
        /\ row /\ ~past[u] /\ ~Consumed
        /\ UNCHANGED server
  /\ Fail(u, "unreadable")
  /\ UNCHANGED <<entered, late>>

\* An attempt nobody waits for.  It may be one of several, so it may come again.
ArriveLate(u) ==
  /\ \/ /\ <<u, "claim">> \in late
        /\ row /\ ~Consumed /\ worker = "idle"
        /\ Opened(u, "lost")
        /\ UNCHANGED late
     \/ /\ <<u, "look">> \in late
        /\ row /\ ~Consumed
        /\ late' = late \cup {<<u, "erase">>}
        /\ UNCHANGED server
     \/ /\ <<u, "erase">> \in late
        /\ DeleteObject
        /\ late' = late \cup {<<u, "forget">>}
     \/ /\ <<u, "forget">> \in late
        /\ DeleteRow
        /\ UNCHANGED late
  /\ UNCHANGED <<command, losses>>

Step(u) ==
  /\ \/ Begin(u) \/ authenticateMetadata(u) \/ GetTombstone(u)
     \/ GetSecretIgnoringExpiry(u) \/ EraseObject(u) \/ ForgetSecret(u)
     \/ EnterPassword(u) \/ Claim(u) \/ Read(u) \/ GetRange(u) \/ Manifest(u)
     \/ Lose(u) \/ LoseBody(u)
  /\ UNCHANGED kind

\* What happens whatever the users do.
Meanwhile ==
  /\ \/ \E u \in Users : ArriveLate(u)
     \/ Expire \/ CloseSession \/ ForgetTombstone
     \/ SelectForCleanup \/ CleanUpFails \/ DeleteExpiredTombstones
  /\ UNCHANGED kind

Next == (CleanUp /\ UNCHANGED kind) \/ Meanwhile \/ \E u \in Users : Step(u)

Spec == Init /\ [][Next]_vars

\* A command runs on, every attempt is answered or lost, and a cleanup that
\* has the row ends.
Fairness ==
  /\ \A u \in Users : WF_vars(Step(u))
  /\ WF_vars(CleanUp /\ UNCHANGED kind)
FairSpec == Spec /\ Fairness

-----------------------------------------------------------------------------
(* Properties.                                                             *)

Live == row /\ ~expired /\ ~Consumed
IsGone(u) == told[u].end = "gone"

\* The exit code scripts branch on.
exitCode(end) ==
  CASE end = "ok" -> 0
    [] end \in {"required", "wrong password"} -> 3
    [] end \in {"gone", "not found"} -> 4
    [] end = "network" -> 5
    [] OTHER -> 1

RanOut(u) == told[u].end = "not found" \/ (IsGone(u) /\ told[u].outcome = "expired")
SaysGone(u) == pc[u] = "done" /\ exitCode(told[u].end) = 4
HasContent(u) == cmd[u] = "open" /\ got[u] = Ranges

\* What a command says of a secret that is gone is true, whatever the cleanup,
\* a deletion or a late opening did between the statements of the lookup: exit
\* code 4 is never given for a live secret, a secret that is not found or
\* expired has run out, of a deleted one nothing is left, one said to be
\* opened is a one-time secret that was, by whom the answer says, and an answer
\* names a recipient's opening only if there was one.  And while tombstones are
\* kept, an opening from before the request is not missed: a one-time secret is
\* then said to be opened, and a reusable one to have been.
GoneIsTrue ==
  \A u \in Users : SaysGone(u) =>
    /\ ~Live
    /\ RanOut(u) => expired
    /\ ~forgotten /\ seen[u] /\ oneTime => IsGone(u) /\ told[u].outcome = "opened"
    /\ IsGone(u) =>
         /\ told[u].outcome = "deleted" => ~row /\ ~object
         /\ told[u].outcome = "opened" =>
              oneTime /\ openers # {} /\ (told[u].owner <=> openers \subseteq Owners)
         /\ told[u].first => openers \ Owners # {}
         /\ ~forgotten /\ seen[u] => told[u].first \/ told[u].owner

\* A one-time secret reaches at most one reader, and once somebody has it
\* nobody is told that it expired, was deleted or is not there, as long as
\* tombstones are kept.
OneReader ==
  oneTime => \A u \in Users : HasContent(u) =>
    \A v \in Users \ {u} :
      /\ ~HasContent(v)
      /\ SaysGone(v) /\ ~forgotten => IsGone(v) /\ told[v].outcome = "opened"

\* Whoever used up the one-time secret knows it: by its content, by an answer
\* that says it was opened, or by an error of the download or the network, and
\* not by a wrong password or a secret that is not there or expired, unless it
\* ran out before the request that opened it came through.
SpenderIsTold ==
  oneTime => \A u \in openers : pc[u] = "done" =>
    \/ told[u].end \in {"ok", "window closed", "sink", "network", "unreadable"}
    \/ IsGone(u) /\ told[u].outcome = "opened"
    \/ SaysGone(u) /\ forgotten
    \/ RanOut(u) /\ expired /\ ~seen[u]

\* After a deletion without an error the link opens nothing any more, whoever
\* was opening or reading meanwhile: the row, the object and every session are
\* gone.
DeletedOpensNothing ==
  \A u \in Users : cmd[u] = "delete" /\ pc[u] = "done" /\ exitCode(told[u].end) = 0 =>
    ~row /\ ~object /\ sessions = {}

\* An open that returns no error has the content (violated: see the README).
OkHasContent ==
  \A u \in Users : cmd[u] = "open" /\ exitCode(told[u].end) = 0 => HasContent(u)

\* The owner is told of a secret that is gone in the owner's version, whatever
\* the command, as describedGone promises.
OwnerIsAddressed == \A u \in Owners : IsGone(u) => told[u].version = "owner"

\* When an owner is told that the secret was opened and nothing is left of it
\* on the server, nothing is.
NothingIsLeft ==
  \A u \in Owners :
    IsGone(u) /\ told[u].version = "owner" /\ told[u].outcome = "opened" => ~object

\* Every command that is started returns.
CommandsReturn == <>[](\A u \in Users : pc[u] \in {"idle", "done"})
=============================================================================
