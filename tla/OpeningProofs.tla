---------------------------- MODULE OpeningProofs ----------------------------
(***************************************************************************)
(* Theorems about Opening, for any number of users and owners, any length  *)
(* of the bundle, any limits of attempts and prompts and any losses.       *)
(***************************************************************************)
EXTENDS Opening, TLAPS

OpenSteps == {"describe", "ask", "inspect", "claim", "why", "read", "sink"}
Answers == [end : Ends] \cup Gone

(* A user who has read nothing, and whose reading is refused if there is   *)
(* one: its request was sent after the expiry.  A secret whose users are   *)
(* all like that when it has run out is never read.                        *)
Quiet(u) == got[u] = 0 /\ (pc[u] = "read" => stage[u] = "look" /\ past[u])
Closed == (expired \/ ~row) /\ \A u \in Users : Quiet(u)

(* The tombstone says what happened.  While tombstones are kept, an opened *)
(* one-time secret has that of its opening, and a row that is gone has     *)
(* left one.                                                               *)
StoneInv ==
  /\ stone.outcome = "opened" =>
       /\ oneTime /\ openers # {}
       /\ stone.owner <=> openers \subseteq Owners
       /\ stone.first <=> ~stone.owner
  /\ stone.outcome = "expired" => expired /\ ~row
  /\ stone.outcome = "deleted" => ~row /\ ~object
  /\ stone.outcome \in {"expired", "deleted"} => (stone.first <=> ~oneTime /\ Retrieved)
  /\ ~forgotten /\ oneTime /\ openers # {} => stone.outcome = "opened"
  /\ ~forgotten /\ ~row => stone # NoStone

(* The server's record.                                                    *)
ServerInv ==
  /\ sessions # {} \/ worker # "idle" => row
  /\ worker = "expired" \/ forgotten => expired
  /\ worker = "consumed" => Consumed
  /\ oneTime => \A u, v \in openers : u = v
  /\ StoneInv

(* Who opened the secret, or may still do so by a request nobody waits     *)
(* for, runs open with the right password; a deletion that is about to     *)
(* remove the row has removed the object.                                  *)
RequestInv ==
  \A u \in Users :
    /\ u \in openers \/ <<u, "claim">> \in late => cmd[u] = "open" /\ u \in right
    /\ <<u, "forget">> \in late => ~object

(* Where a command stands: which command it is, what was entered so far,   *)
(* and how much has been read.                                             *)
Placed(u, step) ==
  /\ step \in OpenSteps => cmd[u] = "open"
  /\ step \in {"status", "delete"} => cmd[u] = step
  /\ step \in {"idle", "describe"} => asked[u] = 0
  /\ step = "ask" => protected /\ u \notin right /\ asked[u] < MaxPasswords
  /\ step \notin {"read", "sink", "done"} => got[u] = 0
  /\ step = "read" => got[u] < Ranges
  /\ step = "sink" => got[u] = 1
  /\ step = "read" \/ got[u] > 0 => u \in openers

PasswordInv(u) ==
  /\ ~protected => u \in right
  /\ protected /\ asked[u] = 0 => u \notin right

(* Where the server is with a request.                                     *)
Staged(u, step, at) ==
  /\ step \notin Requests <=> at = "none"
  /\ at \in {"tomb", "row"} => step \in Lookups
  /\ at \in {"erase", "forget"} => step = "delete"
  /\ at = "range" => step = "read"
  /\ step = "claim" => at = "look"

CommandInv(u) == Placed(u, pc[u]) /\ PasswordInv(u) /\ Staged(u, pc[u], stage[u])

(* What the request of a user knows.  A lookup that goes beyond its first  *)
(* statement, and the search for a reason, are for a secret that is over   *)
(* at the time of the request; one that found no tombstone missed none.    *)
LookInv(u) ==
  /\ past[u] => expired
  /\ seen[u] => Retrieved
  /\ pc[u] = "why" \/ stage[u] \in {"tomb", "row"} => ~row \/ Consumed \/ past[u]
  /\ stage[u] = "row" => expired /\ (~forgotten /\ oneTime => ~seen[u] /\ Closed)
  /\ stage[u] = "forget" => ~object

(* What a command says is true when it says it, and stays true.            *)
RunOut(what) == what.end = "not found" \/ (what.end = "gone" /\ what.outcome = "expired")

Truthful(u, what) ==
  /\ what.end # "none"
  /\ RunOut(what) => expired /\ (~forgotten /\ oneTime => ~seen[u] /\ Closed)
  /\ what.end = "gone" =>
       /\ what.outcome = "deleted" =>
            ~row /\ ~object /\ (~forgotten /\ oneTime => openers = {} /\ Closed)
       /\ what.outcome = "opened" =>
            oneTime /\ openers # {} /\ (what.owner <=> openers \subseteq Owners)
       /\ what.first => openers \ Owners # {}
       /\ ~forgotten /\ seen[u] => what.first \/ what.owner
  /\ what.end \in {"required", "wrong password", "terminal"} => u \notin right
  /\ what.end = "not owner" => cmd[u] = "delete"
  /\ what.end = "ok" /\ cmd[u] = "delete" => ~row /\ ~object

ToldInv(u) == IF pc[u] = "done" THEN Truthful(u, told[u]) ELSE told[u].end = "none"

UserInv(u) == CommandInv(u) /\ LookInv(u) /\ ToldInv(u)

OpeningInv ==
  /\ TypeOK
  /\ ServerInv
  /\ RequestInv
  /\ \A u \in Users : UserInv(u)

(***************************************************************************)
(* Types.                                                                  *)
(***************************************************************************)
CommandOK ==
  /\ cmd \in [Users -> {"open", "status", "delete"}]
  /\ pc \in [Users -> Requests \cup {"idle", "ask", "sink", "done"}]
  /\ stage \in [Users -> Stages]
  /\ tries \in [Users -> 0 .. MaxTransientAttempts]
  /\ past \in [Users -> BOOLEAN]
  /\ seen \in [Users -> BOOLEAN]
  /\ told \in [Users -> Answers]

EnteredOK ==
  /\ asked \in [Users -> 0 .. MaxPasswords]
  /\ right \subseteq Users
  /\ got \in [Users -> 0 .. Ranges]

ServerOK ==
  /\ {oneTime, protected, row, expired, object, forgotten} \subseteq BOOLEAN
  /\ stone \in Tombstones \cup {NoStone}
  /\ sessions \subseteq Users \X {"held", "lost"}
  /\ worker \in {"idle", "expired", "consumed"}
  /\ openers \subseteq Users

NetworkOK ==
  /\ late \subseteq Users \X {"claim", "look", "erase", "forget"}
  /\ losses \in 0 .. MaxLosses

LEMMA TypeParts == TypeOK <=> CommandOK /\ EnteredOK /\ ServerOK /\ NetworkOK
BY DEF TypeOK, CommandOK, EnteredOK, ServerOK, NetworkOK, Answers

LEMMA TypeNext == ASSUME CommandOK', EnteredOK', ServerOK', NetworkOK' PROVE TypeOK'
BY DEF TypeOK, CommandOK, EnteredOK, ServerOK, NetworkOK, Answers

LEMMA RetrievedType == Retrieved \in BOOLEAN
BY DEF Retrieved

(* The fields of a tombstone.                                              *)
LEMMA TombstoneFields ==
  ASSUME NEW outcome \in Outcomes, NEW byOwner \in BOOLEAN
  PROVE  \E t \in Tombstones :
           /\ t = tombstone(outcome, byOwner)
           /\ t.outcome = outcome /\ t.owner = byOwner
           /\ t.first <=> (outcome = "opened" /\ ~byOwner) \/ (~oneTime /\ Retrieved)
           /\ t # NoStone
<1> DEFINE first == (outcome = "opened" /\ ~byOwner) \/ (~oneTime /\ Retrieved)
           t == [outcome |-> outcome, owner |-> byOwner, first |-> first]
<1>1. first \in BOOLEAN
  OBVIOUS
<1>2. t = tombstone(outcome, byOwner)
  BY DEF tombstone
<1> HIDE DEF first
<1>3. t \in Tombstones /\ t.outcome = outcome /\ t.owner = byOwner /\ t.first = first
  BY <1>1 DEF Tombstones
<1>4. NoStone.outcome = "none" /\ outcome # "none"
  BY DEF NoStone, Outcomes
<1> HIDE DEF t
<1>5. t # NoStone
  BY <1>3, <1>4
<1>6. t.first <=> (outcome = "opened" /\ ~byOwner) \/ (~oneTime /\ Retrieved)
  BY <1>3 DEF first
<1>7. QED BY <1>2, <1>3, <1>5, <1>6

(* Which tombstone there is: none, of a row that is there and not used up, *)
(* or a true one.                                                          *)
LEMMA StoneKinds ==
  ASSUME ServerOK
  PROVE  /\ stone = NoStone <=> stone.outcome = "none"
         /\ stone.outcome \in Outcomes \cup {"none"}
         /\ stone # NoStone => stone \in Tombstones
<1>1. NoStone.outcome = "none"
  BY DEF NoStone
<1>2. ASSUME NEW t \in Tombstones PROVE t.outcome \in Outcomes /\ t.outcome # "none"
  BY DEF Tombstones, Outcomes
<1>3. QED BY <1>1, <1>2 DEF ServerOK

LEMMA NoStoneYet ==
  ASSUME OpeningInv, row, ~Consumed
  PROVE  stone = NoStone /\ (oneTime => openers = {})
<1>1. oneTime => openers = {}
  BY DEF Consumed, Retrieved
<1>2. ServerOK
  BY TypeParts DEF OpeningInv
<1>3. stone.outcome \notin Outcomes
  BY <1>1 DEF OpeningInv, ServerInv, StoneInv, Outcomes
<1>4. QED BY <1>1, <1>2, <1>3, StoneKinds

(***************************************************************************)
(* What the server's steps never undo.                                     *)
(***************************************************************************)
Onward ==
  /\ expired => expired'
  /\ forgotten => forgotten'
  /\ ~row => ~row' /\ openers' = openers
  /\ oneTime /\ openers # {} => openers' = openers
  /\ ~object => ~object'
  /\ openers \subseteq openers'

Serves == ServerOK' /\ ServerInv' /\ Onward

LEMMA ServerQuiet ==
  ASSUME OpeningInv, UNCHANGED <<kind, server>>
  PROVE  Serves
BY TypeParts DEF OpeningInv, Serves, ServerOK, ServerInv, StoneInv, Retrieved, Consumed, Onward, kind, server

LEMMA ServerOpens ==
  ASSUME OpeningInv, UNCHANGED kind, NEW u \in Users, NEW token \in {"held", "lost"},
         row, ~Consumed, worker = "idle", Opened(u, token)
  PROVE  Serves
<1>1. /\ openers' = openers \cup {u} /\ sessions' = sessions \cup {<<u, token>>}
      /\ UNCHANGED <<oneTime, protected, row, expired, object, forgotten, worker>>
  BY DEF Opened, kind
<1>2. stone = NoStone /\ (oneTime => openers = {}) /\ ServerOK
  BY NoStoneYet, TypeParts DEF OpeningInv
<1>3. PICK t \in Tombstones :
        /\ t = tombstone("opened", u \in Owners)
        /\ t.outcome = "opened" /\ (t.owner <=> u \in Owners)
        /\ t.first <=> ~(u \in Owners) \/ (~oneTime /\ Retrieved)
        /\ t # NoStone
  <2>1. PICK b \in BOOLEAN : b <=> u \in Owners
    OBVIOUS
  <2>2. b = (u \in Owners)
    BY <2>1
  <2>3. PICK t \in Tombstones :
          /\ t = tombstone("opened", b)
          /\ t.outcome = "opened" /\ t.owner = b
          /\ t.first <=> ("opened" = "opened" /\ ~b) \/ (~oneTime /\ Retrieved)
          /\ t # NoStone
    BY TombstoneFields DEF Outcomes
  <2>4. t = tombstone("opened", u \in Owners)
    BY <2>2, <2>3
  <2>5. QED BY <2>1, <2>3, <2>4
<1>4. stone' = IF oneTime THEN t ELSE stone
  BY <1>2, <1>3 DEF Opened, CreateTombstone
<1>5. ServerOK'
  BY <1>1, <1>2, <1>4 DEF ServerOK
<1>6. Onward
  BY <1>1, <1>2 DEF Onward
<1>7. ServerInv'
  <2>1. CASE oneTime
    <3>1. openers' = {u} /\ stone' = t
      BY <1>1, <1>2, <1>4, <2>1
    <3>2. StoneInv'
      BY <1>1, <1>3, <2>1, <3>1 DEF StoneInv
    <3>3. QED BY <1>1, <2>1, <3>1, <3>2 DEF ServerInv, OpeningInv
  <2>2. CASE ~oneTime
    <3>1. stone' = NoStone /\ NoStone.outcome = "none"
      BY <1>2, <1>4, <2>2 DEF NoStone
    <3>2. StoneInv'
      BY <1>1, <2>2, <3>1 DEF StoneInv
    <3>3. QED BY <1>1, <2>2, <3>2 DEF ServerInv, OpeningInv
  <2>3. QED BY <2>1, <2>2
<1>8. QED BY <1>5, <1>6, <1>7 DEF Serves

(* The row goes: deleted by its owner, whose handler has removed the       *)
(* object, or cleaned up.                                                  *)
LEMMA RowGoes ==
  ASSUME OpeningInv, UNCHANGED kind, row, ~object,
         NEW outcome \in {"expired", "deleted"}, outcome = "expired" => expired,
         row' = FALSE, sessions' = {}, worker' = "idle",
         \/ CreateTombstone(outcome, FALSE)
         \/ UNCHANGED stone /\ Consumed,
         UNCHANGED <<expired, object, forgotten, openers>>
  PROVE  Serves
<1>1. ServerOK /\ UNCHANGED <<oneTime, protected>>
  BY TypeParts DEF OpeningInv, kind
<1>2. PICK t \in Tombstones :
        /\ t = tombstone(outcome, FALSE)
        /\ t.outcome = outcome /\ t.owner = FALSE
        /\ t.first <=> ~oneTime /\ Retrieved
        /\ t # NoStone
  BY TombstoneFields DEF Outcomes
<1>3. stone' = stone \/ (stone = NoStone /\ stone' = t)
  BY <1>2 DEF CreateTombstone
<1>4. ServerOK'
  BY <1>1, <1>3 DEF ServerOK
<1>5. Onward
  BY DEF Onward
<1>6. Consumed /\ ~forgotten => stone.outcome = "opened"
  BY DEF Consumed, Retrieved, OpeningInv, ServerInv, StoneInv
<1>7. ServerInv'
  <2>0. NoStone.outcome = "none" /\ (Retrieved' <=> Retrieved)
    BY <1>1 DEF NoStone, Retrieved
  <2>1. CASE stone = NoStone /\ stone' = t
    <3>1. StoneInv'
      BY <1>1, <1>2, <2>0, <2>1 DEF StoneInv, OpeningInv, ServerInv
    <3>2. QED BY <1>1, <3>1 DEF OpeningInv, ServerInv
  <2>2. CASE stone' = stone /\ (stone # NoStone \/ Consumed)
    <3>1. ~forgotten => stone # NoStone
      BY <1>6, <2>0, <2>2
    <3>2. StoneInv'
      BY <1>1, <2>0, <2>2, <3>1 DEF StoneInv, OpeningInv, ServerInv
    <3>3. QED BY <1>1, <3>2 DEF OpeningInv, ServerInv
  <2>3. QED BY <1>2, <1>3, <2>1, <2>2 DEF CreateTombstone
<1>8. QED BY <1>4, <1>5, <1>7 DEF Serves

LEMMA ServerDeletes ==
  ASSUME OpeningInv, UNCHANGED kind, ~object, DeleteRow
  PROVE  Serves /\ ~row' /\ ~object'
<1>1. /\ worker = "idle" /\ row' = FALSE /\ sessions' = {}
      /\ UNCHANGED <<expired, object, forgotten, worker, openers>>
  BY DEF DeleteRow
<1>2. CASE row
  <2>1. CreateTombstone("deleted", FALSE) /\ worker' = "idle"
    BY <1>1, <1>2 DEF DeleteRow
  <2>2. "deleted" \in {"expired", "deleted"} /\ ("deleted" = "expired" => expired)
    OBVIOUS
  <2>3. Serves
    BY <1>1, <1>2, <2>1, <2>2, RowGoes
  <2>4. QED BY <1>1, <2>3
<1>3. CASE ~row
  <2>1. row' = row /\ sessions' = sessions /\ stone' = stone
    BY <1>1, <1>3, TypeParts DEF DeleteRow, OpeningInv, ServerInv, ServerOK
  <2>2. QED BY <1>1, <2>1, ServerQuiet DEF server
<1>4. QED BY <1>1, <1>2, <1>3

LEMMA ServerErases ==
  ASSUME OpeningInv, UNCHANGED kind, DeleteObject
  PROVE  Serves /\ ~object'
<1>1. /\ object' = FALSE /\ UNCHANGED <<oneTime, protected>>
      /\ UNCHANGED <<row, expired, stone, forgotten, sessions, worker, openers>>
  BY DEF DeleteObject, kind
<1>2. ServerOK'
  BY <1>1, TypeParts DEF OpeningInv, ServerOK
<1>3. Onward
  BY <1>1 DEF Onward
<1>4. ServerInv'
  BY <1>1 DEF OpeningInv, ServerInv, StoneInv, Consumed, Retrieved
<1>5. QED BY <1>1, <1>2, <1>3, <1>4 DEF Serves

(* Time and the cleanup.                                                   *)
LEMMA ServerGoesOn ==
  ASSUME OpeningInv, UNCHANGED kind,
         \/ Expire \/ CloseSession \/ ForgetTombstone \/ SelectForCleanup
         \/ CleanUp \/ CleanUpFails \/ DeleteExpiredTombstones
  PROVE  Serves
<1>0. ServerOK /\ UNCHANGED <<oneTime, protected>>
  BY TypeParts DEF OpeningInv, kind
<1>1. CASE Expire
  <2>1. /\ expired' = TRUE
        /\ UNCHANGED <<row, object, stone, forgotten, sessions, worker, openers>>
    BY <1>1 DEF Expire
  <2>2. QED BY <1>0, <2>1 DEF OpeningInv, Serves, ServerOK, ServerInv, StoneInv, Consumed, Retrieved, Onward
<1>2. CASE CloseSession
  <2>1. /\ sessions' \subseteq sessions
        /\ UNCHANGED <<row, expired, object, stone, forgotten, worker, openers>>
    BY <1>2 DEF CloseSession
  <2>2. QED BY <1>0, <2>1 DEF OpeningInv, Serves, ServerOK, ServerInv, StoneInv, Consumed, Retrieved, Onward
<1>3. CASE ForgetTombstone
  <2>1. /\ expired /\ forgotten' = TRUE
        /\ UNCHANGED <<row, expired, object, stone, sessions, worker, openers>>
    BY <1>3 DEF ForgetTombstone
  <2>2. QED BY <1>0, <2>1 DEF OpeningInv, Serves, ServerOK, ServerInv, StoneInv, Consumed, Retrieved, Onward
<1>4. CASE SelectForCleanup
  <2>1. /\ row
        /\ \/ expired /\ worker' = "expired"
           \/ Consumed /\ worker' = "consumed"
        /\ UNCHANGED <<row, expired, object, stone, forgotten, sessions, openers>>
    BY <1>4 DEF SelectForCleanup
  <2>2. QED BY <1>0, <2>1 DEF OpeningInv, Serves, ServerOK, ServerInv, StoneInv, Consumed, Retrieved, Onward
<1>5. CASE CleanUp
  <2>1. CASE DeleteObject
    BY <2>1, ServerErases
  <2>2. CASE /\ worker # "idle" /\ ~object /\ row' = FALSE /\ sessions' = {} /\ worker' = "idle"
             /\ IF worker = "expired" THEN CreateTombstone("expired", FALSE) ELSE UNCHANGED stone
             /\ UNCHANGED <<expired, object, forgotten, openers>>
    <3>1. row /\ (worker = "expired" => expired) /\ (worker # "expired" => Consumed)
      BY <1>0, <2>2 DEF OpeningInv, ServerInv, ServerOK
    <3>2. (CreateTombstone("expired", FALSE) /\ expired) \/ (UNCHANGED stone /\ Consumed)
      BY <2>2, <3>1
    <3>3. CASE CreateTombstone("expired", FALSE) /\ expired
      BY <2>2, <3>1, <3>3, RowGoes
    <3>4. CASE UNCHANGED stone /\ Consumed
      <4>1. "deleted" \in {"expired", "deleted"} /\ ("deleted" = "expired" => expired)
        OBVIOUS
      <4>2. QED BY <2>2, <3>1, <3>4, <4>1, RowGoes
    <3>5. QED BY <3>2, <3>3, <3>4
  <2>3. QED BY <1>5, <2>1, <2>2 DEF CleanUp
<1>6. CASE CleanUpFails
  <2>1. /\ worker' = "idle"
        /\ UNCHANGED <<row, expired, object, stone, forgotten, sessions, openers>>
    BY <1>6 DEF CleanUpFails
  <2>2. QED BY <1>0, <2>1 DEF OpeningInv, Serves, ServerOK, ServerInv, StoneInv, Consumed, Retrieved, Onward
<1>7. CASE DeleteExpiredTombstones
  <2>1. /\ forgotten /\ stone' = NoStone /\ NoStone.outcome = "none"
        /\ UNCHANGED <<row, expired, object, forgotten, sessions, worker, openers>>
    BY <1>7 DEF DeleteExpiredTombstones, NoStone
  <2>2. QED BY <1>0, <2>1 DEF OpeningInv, Serves, ServerOK, ServerInv, StoneInv, Consumed, Retrieved, Onward
<1>8. QED BY <1>1, <1>2, <1>3, <1>4, <1>5, <1>6, <1>7

(***************************************************************************)
(* The users of a step that is not theirs.                                 *)
(***************************************************************************)
Untouched(v) ==
  /\ UNCHANGED <<pc[v], stage[v], past[v], asked[v], got[v], told[v], seen[v]>>
  /\ v \in right' <=> v \in right

LEMMA TruthKept ==
  ASSUME OpeningInv, Onward, UNCHANGED <<cmd, kind>>, Closed => Closed', NEW v \in Users,
         v \in right' => v \in right, seen'[v] = seen[v], NEW what, Truthful(v, what)
  PROVE  Truthful(v, what)'
<1>1. UNCHANGED <<oneTime, protected, cmd>>
  BY DEF kind
<1>2. forgotten' \/ ~forgotten
  BY DEF Onward
<1>3. (RunOut(what) => expired /\ (~forgotten /\ oneTime => ~seen[v] /\ Closed))'
  BY <1>1, <1>2 DEF Truthful, Onward, RunOut
<1>4. ASSUME what.end = "gone"
      PROVE  (/\ what.outcome = "deleted" =>
                   ~row /\ ~object /\ (~forgotten /\ oneTime => openers = {} /\ Closed)
              /\ what.outcome = "opened" =>
                   oneTime /\ openers # {} /\ (what.owner <=> openers \subseteq Owners)
              /\ what.first => openers \ Owners # {}
              /\ ~forgotten /\ seen[v] => what.first \/ what.owner)'
  BY <1>1, <1>2, <1>4 DEF Truthful, Onward
<1>5. (/\ what.end # "none"
       /\ what.end \in {"required", "wrong password", "terminal"} => v \notin right
       /\ what.end = "not owner" => cmd[v] = "delete"
       /\ what.end = "ok" /\ cmd[v] = "delete" => ~row /\ ~object)'
  BY <1>1 DEF Truthful, Onward
<1>6. QED BY <1>3, <1>4, <1>5 DEF Truthful

LEMMA UserKept ==
  ASSUME OpeningInv, Onward, UNCHANGED <<cmd, kind>>, Closed => Closed',
         NEW v \in Users, Untouched(v)
  PROVE  UserInv(v)'
<1>0. /\ UNCHANGED <<oneTime, protected, cmd>>
      /\ UNCHANGED <<pc[v], stage[v], past[v], asked[v], got[v], told[v], seen[v]>>
      /\ v \in right' <=> v \in right
      /\ UserInv(v)
  BY DEF kind, Untouched, OpeningInv
<1>1. CommandInv(v)'
  BY <1>0 DEF UserInv, CommandInv, Placed, PasswordInv, Staged, Onward
<1>2. LookInv(v)'
  <2>1. LookInv(v)
    BY <1>0 DEF UserInv
  <2>2. (seen[v] => Retrieved)' /\ (Consumed => Consumed')
    BY <1>0, <2>1 DEF LookInv, Retrieved, Consumed, Onward
  <2>3. QED BY <1>0, <2>1, <2>2 DEF LookInv, Onward
<1>3. ToldInv(v)'
  <2>1. ToldInv(v)
    BY <1>0 DEF UserInv
  <2>2. CASE pc[v] # "done"
    BY <1>0, <2>1, <2>2 DEF ToldInv
  <2>3. CASE pc[v] = "done"
    <3>1. PICK what : what = told[v]
      OBVIOUS
    <3>2. Truthful(v, what)'
      BY <1>0, <2>1, <2>3, <3>1, TruthKept DEF ToldInv
    <3>3. told'[v] = what /\ pc'[v] = "done"
      BY <1>0, <2>3, <3>1
    <3>4. QED BY <3>2, <3>3 DEF ToldInv
  <2>4. QED BY <2>2, <2>3
<1>4. QED BY <1>1, <1>2, <1>3 DEF UserInv

(* A secret nobody can read any more stays that way if the step's user     *)
(* does not begin to read.                                                 *)
LEMMA ClosedKept ==
  ASSUME Onward, NEW u \in Users, \A v \in Users \ {u} : Untouched(v), Closed => Quiet(u)'
  PROVE  Closed => Closed'
<1> SUFFICES ASSUME Closed PROVE Closed'
  OBVIOUS
<1>1. ASSUME NEW v \in Users PROVE Quiet(v)'
  <2>1. CASE v = u
    BY <2>1
  <2>2. CASE v # u
    BY <2>2 DEF Closed, Quiet, Untouched
  <2>3. QED BY <2>1, <2>2
<1>2. (expired \/ ~row)'
  BY DEF Closed, Onward
<1>3. QED BY <1>1, <1>2 DEF Closed

(* The requests and who may open.                                          *)
Requested ==
  \A v \in Users :
    /\ v \in right => v \in right'
    /\ v \in openers' => v \in openers \/ (cmd[v] = "open" /\ v \in right)
    /\ <<v, "claim">> \in late' => <<v, "claim">> \in late \/ (cmd[v] = "open" /\ v \in right)
    /\ <<v, "forget">> \in late' => <<v, "forget">> \in late \/ ~object'

World == Serves /\ Requested /\ NetworkOK' /\ UNCHANGED kind

LEMMA RequestKept ==
  ASSUME OpeningInv, World, UNCHANGED cmd
  PROVE  RequestInv'
BY DEF OpeningInv, RequestInv, World, Serves, Onward, Requested

(* A step of none.                                                         *)
LEMMA NoUserStep ==
  ASSUME OpeningInv, World, UNCHANGED command
  PROVE  OpeningInv'
<1>0. UNCHANGED <<cmd, pc, stage, tries, past, asked, right, got, told, seen, kind>> /\ Onward
  BY DEF command, entered, World, Serves
<1>1. \A v \in Users : Untouched(v)
  BY <1>0 DEF Untouched
<1>2. Closed => Closed'
  BY <1>0 DEF Closed, Quiet, Onward
<1>3. TypeOK'
  BY <1>0, TypeParts, TypeNext DEF OpeningInv, World, Serves, CommandOK, EnteredOK
<1>4. \A v \in Users : UserInv(v)'
  BY <1>0, <1>1, <1>2, UserKept
<1>5. QED BY <1>0, <1>3, <1>4, RequestKept DEF OpeningInv, World, Serves

(***************************************************************************)
(* The commands' steps.  Entry says what a step of u may do to what was    *)
(* entered and read.                                                       *)
(***************************************************************************)
Entry(u) ==
  /\ EnteredOK'
  /\ \A v \in Users \ {u} : asked'[v] = asked[v] /\ got'[v] = got[v] /\ (v \in right' <=> v \in right)
  /\ Closed => got'[u] = 0
  /\ PasswordInv(u)'

LEMMA EntryQuiet ==
  ASSUME OpeningInv, NEW u \in Users, UNCHANGED <<entered, kind>>
  PROVE  Entry(u)
<1>1. EnteredOK'
  BY TypeParts DEF OpeningInv, EnteredOK, entered
<1>2. PasswordInv(u)'
  BY DEF OpeningInv, UserInv, CommandInv, PasswordInv, entered, kind
<1>3. QED BY <1>1, <1>2 DEF Entry, Closed, Quiet, entered

(* What a step of u may do to its command.                                 *)
Moves(u) ==
  /\ UNCHANGED cmd
  /\ CommandOK'
  /\ \A v \in Users \ {u} :
       UNCHANGED <<pc[v], stage[v], past[v], told[v], seen[v]>>

LEMMA UserStep ==
  ASSUME OpeningInv, World, NEW u \in Users, Entry(u), Moves(u), Closed => Quiet(u)',
         Closed' \/ ~Closed => UserInv(u)'
  PROVE  OpeningInv'
<1>1. \A v \in Users \ {u} : Untouched(v)
  BY DEF Entry, Moves, Untouched
<1>2. Closed => Closed'
  BY <1>1, ClosedKept DEF World, Serves
<1>3. \A v \in Users \ {u} : UserInv(v)'
  BY <1>1, <1>2, UserKept DEF World, Serves, Moves
<1>4. TypeOK'
  BY TypeNext DEF World, Serves, Entry, Moves
<1>5. QED BY <1>2, <1>3, <1>4, RequestKept DEF OpeningInv, World, Serves, Moves

LEMMA AttemptMoves ==
  ASSUME OpeningInv, NEW u \in Users, NEW request \in Requests, NEW n \in 0 .. MaxTransientAttempts,
         Attempt(u, request, n)
  PROVE  /\ Moves(u)
         /\ pc'[u] = request /\ stage'[u] = "look" /\ told'[u] = told[u]
         /\ past'[u] = expired /\ seen'[u] = Retrieved
<1>1. CommandOK /\ expired \in BOOLEAN /\ Retrieved \in BOOLEAN
  BY TypeParts, RetrievedType DEF OpeningInv, ServerOK
<1>2. "look" \in Stages
  BY DEF Stages
<1>3. QED BY <1>1, <1>2 DEF Attempt, Moves, CommandOK

LEMMA GoesMoves ==
  ASSUME OpeningInv, NEW u \in Users, NEW to \in Stages, NEW now \in BOOLEAN, Goes(u, to, now)
  PROVE  /\ Moves(u)
         /\ stage'[u] = to /\ past'[u] = now
         /\ UNCHANGED <<pc[u], told[u], seen[u]>>
<1>1. CommandOK
  BY TypeParts DEF OpeningInv
<1>2. QED BY <1>1 DEF Goes, Moves, CommandOK

LEMMA LocalMoves ==
  ASSUME OpeningInv, NEW u \in Users, NEW step \in {"ask", "sink"}, Local(u, step)
  PROVE  /\ Moves(u)
         /\ pc'[u] = step /\ stage'[u] = "none" /\ past'[u] = FALSE
         /\ UNCHANGED <<told[u], seen[u]>>
<1>1. CommandOK
  BY TypeParts DEF OpeningInv
<1>2. "none" \in Stages /\ 0 \in 0 .. MaxTransientAttempts
  BY OpeningAssumption DEF Stages
<1>3. QED BY <1>1, <1>2 DEF Local, Rest, Moves, CommandOK

LEMMA ReturnMoves ==
  ASSUME OpeningInv, NEW u \in Users, NEW what \in Answers, Return(u, what)
  PROVE  /\ Moves(u)
         /\ pc'[u] = "done" /\ stage'[u] = "none" /\ past'[u] = FALSE /\ told'[u] = what
         /\ seen'[u] = seen[u]
<1>1. CommandOK
  BY TypeParts DEF OpeningInv
<1>2. "none" \in Stages /\ 0 \in 0 .. MaxTransientAttempts
  BY OpeningAssumption DEF Stages
<1>3. QED BY <1>1, <1>2 DEF Return, Rest, Moves, CommandOK

(* A command that sends a request.                                         *)
LEMMA Sends ==
  ASSUME OpeningInv, World, NEW u \in Users, pc[u] # "done", Entry(u),
         NEW request \in Requests, NEW n \in 0 .. MaxTransientAttempts,
         Attempt(u, request, n), Placed(u, request)',
         request = "why" => ~row \/ Consumed \/ expired,
         Closed /\ request = "read" => expired
  PROVE  OpeningInv'
<1>1. /\ Moves(u)
      /\ pc'[u] = request /\ stage'[u] = "look" /\ told'[u] = told[u]
      /\ past'[u] = expired /\ seen'[u] = Retrieved
  BY AttemptMoves
<1>2. Closed => Quiet(u)'
  BY <1>1 DEF Quiet, Entry
<1>3. CommandInv(u)'
  <2>1. Staged(u, request, "look")
    BY DEF Staged
  <2>2. QED BY <1>1, <2>1 DEF CommandInv, Entry, Staged
<1>4. LookInv(u)'
  <2>1. UNCHANGED <<oneTime, protected>> /\ Onward
    BY DEF World, Serves, kind
  <2>2. (Retrieved => Retrieved') /\ (Consumed => Consumed')
    BY <2>1 DEF Retrieved, Consumed, Onward
  <2>3. QED BY <1>1, <2>1, <2>2 DEF LookInv, Onward
<1>5. ToldInv(u)'
  <2>1. told[u].end = "none" /\ request # "done"
    BY DEF OpeningInv, UserInv, ToldInv, Requests, Lookups
  <2>2. QED BY <1>1, <2>1 DEF ToldInv
<1>6. QED BY <1>1, <1>2, <1>3, <1>4, <1>5, UserStep DEF UserInv

(* A handler that comes to its next statement.                             *)
LEMMA HandlerGoesOn ==
  ASSUME OpeningInv, World, NEW u \in Users, pc[u] \in Requests, UNCHANGED entered,
         NEW to \in Stages \ {"none"}, NEW now \in Times(u), Goes(u, to, now),
         Staged(u, pc[u], to),
         to \in {"tomb", "row"} => ~row \/ Consumed \/ now,
         to = "row" => expired /\ (~forgotten /\ oneTime => ~seen[u] /\ Closed),
         to = "forget" => ~object',
         to = "range" => ~Closed
  PROVE  OpeningInv'
<1>0. /\ UNCHANGED <<oneTime, protected, asked, right, got>> /\ Onward
      /\ past[u] \in BOOLEAN /\ expired \in BOOLEAN /\ (past[u] => expired)
      /\ UserInv(u)
  BY DEF OpeningInv, TypeOK, UserInv, LookInv, World, Serves, kind, entered
<1>1. now \in BOOLEAN /\ (now => expired) /\ (past[u] => now)
  BY <1>0 DEF Times
<1>2. /\ Moves(u)
      /\ stage'[u] = to /\ past'[u] = now
      /\ UNCHANGED <<pc[u], told[u], seen[u]>>
  BY <1>1, GoesMoves
<1>3. Closed => Quiet(u)'
  BY <1>0, <1>1, <1>2 DEF Closed, Quiet, Staged, Lookups, Stages
<1>4. CommandInv(u)'
  BY <1>0, <1>2 DEF UserInv, CommandInv, Placed, PasswordInv, Staged, Onward, Moves
<1>5. Consumed => Consumed'
  BY <1>0 DEF Retrieved, Consumed, Onward
<1>6. Closed' \/ ~Closed => LookInv(u)'
  <2>1. LookInv(u)
    BY <1>0 DEF UserInv
  <2>2. (seen[u] => Retrieved)'
    BY <1>0, <1>2, <2>1 DEF LookInv, Retrieved, Onward
  <2>3. QED BY <1>0, <1>1, <1>2, <1>5, <2>1, <2>2 DEF LookInv, Onward
<1>7. ToldInv(u)'
  <2>1. pc[u] # "done"
    BY DEF Requests, Lookups
  <2>2. QED BY <1>0, <1>2, <2>1 DEF UserInv, ToldInv
<1>8. Entry(u)
  BY <1>0, EntryQuiet DEF entered, kind
<1>9. QED BY <1>2, <1>3, <1>4, <1>6, <1>7, <1>8, UserStep DEF UserInv

(* A command that asks for a password or shows the manifest.               *)
LEMMA Pauses ==
  ASSUME OpeningInv, World, NEW u \in Users, pc[u] # "done", Entry(u),
         NEW step \in {"ask", "sink"}, Local(u, step), Placed(u, step)'
  PROVE  OpeningInv'
<1>1. /\ Moves(u)
      /\ pc'[u] = step /\ stage'[u] = "none" /\ past'[u] = FALSE
      /\ UNCHANGED <<told[u], seen[u]>>
  BY LocalMoves
<1>2. Closed => Quiet(u)'
  BY <1>1 DEF Quiet, Entry
<1>3. CommandInv(u)'
  <2>1. Staged(u, step, "none")
    BY DEF Staged, Requests, Lookups
  <2>2. QED BY <1>1, <2>1 DEF CommandInv, Entry, Staged
<1>4. LookInv(u)'
  <2>1. seen[u] => Retrieved
    BY DEF OpeningInv, UserInv, LookInv
  <2>2. (seen[u] => Retrieved)'
    BY <1>1, <2>1 DEF Retrieved, World, Serves, Onward, kind
  <2>3. QED BY <1>1, <2>2 DEF LookInv
<1>5. ToldInv(u)'
  BY <1>1 DEF OpeningInv, UserInv, ToldInv
<1>6. QED BY <1>1, <1>2, <1>3, <1>4, <1>5, UserStep DEF UserInv

(* A command that ends.                                                    *)
LEMMA ComesBack ==
  ASSUME OpeningInv, World, NEW u \in Users, pc[u] # "done", Entry(u),
         got[u] = 0 \/ u \in openers, got'[u] > 0 => u \in openers',
         NEW what \in Answers, Return(u, what),
         Closed' \/ ~Closed => Truthful(u, what)'
  PROVE  OpeningInv'
<1>1. /\ Moves(u)
      /\ pc'[u] = "done" /\ stage'[u] = "none" /\ past'[u] = FALSE /\ told'[u] = what
      /\ seen'[u] = seen[u]
  BY ReturnMoves
<1>2. Closed => Quiet(u)'
  BY <1>1 DEF Quiet, Entry
<1>3. CommandInv(u)'
  <2>1. Staged(u, "done", "none") /\ Placed(u, "done")'
    BY DEF Staged, Placed, OpenSteps, Requests, Lookups
  <2>2. QED BY <1>1, <2>1 DEF CommandInv, Entry, Staged
<1>4. LookInv(u)'
  <2>1. seen[u] => Retrieved
    BY DEF OpeningInv, UserInv, LookInv
  <2>2. (seen[u] => Retrieved)'
    BY <1>1, <2>1 DEF Retrieved, World, Serves, Onward, kind
  <2>3. QED BY <1>1, <2>2 DEF LookInv
<1>5. Closed' \/ ~Closed => ToldInv(u)'
  BY <1>1 DEF ToldInv
<1>6. QED BY <1>1, <1>2, <1>3, <1>4, <1>5, UserStep DEF UserInv

(* Steps that leave the server, the network and what was entered alone.    *)
LEMMA Calm ==
  ASSUME OpeningInv, NEW u \in Users, UNCHANGED <<kind, entered, server, network>>
  PROVE  World /\ Entry(u)
<1>1. Serves
  BY ServerQuiet
<1>2. NetworkOK'
  BY TypeParts DEF OpeningInv, NetworkOK, network
<1>3. Requested
  BY DEF Requested, entered, server, network
<1>4. Entry(u)
  BY EntryQuiet
<1>5. QED BY <1>1, <1>2, <1>3, <1>4 DEF World

LEMMA Attempts == 0 \in 0 .. MaxTransientAttempts /\ 1 \in 0 .. MaxTransientAttempts
BY OpeningAssumption

LEMMA CalmSends ==
  ASSUME OpeningInv, NEW u \in Users, UNCHANGED <<kind, entered, server, network>>, pc[u] # "done",
         NEW request \in Requests, Await(u, request), Placed(u, request),
         request = "why" => ~row \/ Consumed \/ expired,
         Closed /\ request = "read" => expired
  PROVE  OpeningInv'
<1>1. World /\ Entry(u) /\ Attempt(u, request, 1)
  BY Calm DEF Await
<1>2. Placed(u, request)'
  BY <1>1 DEF Placed, Attempt, entered, server, kind
<1>3. QED BY <1>1, <1>2, Attempts, Sends

LEMMA CalmReturn ==
  ASSUME OpeningInv, NEW u \in Users, UNCHANGED <<kind, entered, server, network>>, pc[u] # "done",
         NEW what \in Answers, Return(u, what), Truthful(u, what)
  PROVE  OpeningInv'
<1>1. World /\ Entry(u) /\ UNCHANGED <<cmd, kind>> /\ Onward
  BY Calm DEF Return, Rest, World, Serves
<1>2. seen'[u] = seen[u] /\ right' = right /\ got' = got /\ openers' = openers
  BY DEF Return, Rest, entered, server
<1>3. got[u] > 0 => u \in openers
  BY DEF OpeningInv, UserInv, CommandInv, Placed
<1>4. got[u] = 0 \/ u \in openers
  BY <1>3, OpeningAssumption DEF OpeningInv, TypeOK
<1>5. Closed' \/ ~Closed => Truthful(u, what)'
  BY <1>1, <1>2, TruthKept
<1>6. QED BY <1>1, <1>2, <1>3, <1>4, <1>5, ComesBack

(* Errors that claim nothing, and those that claim something.              *)
LEMMA Errors ==
  ASSUME NEW u \in Users, NEW why \in Ends \ {"none", "not found"},
         why = "not owner" => cmd[u] = "delete",
         why \in {"required", "wrong password", "terminal"} => u \notin right,
         why = "ok" => cmd[u] # "delete"
  PROVE  [end |-> why] \in Answers /\ Truthful(u, [end |-> why])
<1> DEFINE what == [end |-> why]
<1>1. what \in Answers /\ what.end = why
  BY DEF Answers
<1>2. why # "gone"
  BY DEF Ends
<1> HIDE DEF what
<1>3. Truthful(u, what)
  BY <1>1, <1>2 DEF Truthful, RunOut
<1>4. QED BY <1>1, <1>3 DEF what

(* The same of an answer given with a step that changes more.              *)
LEMMA ErrorsNext ==
  ASSUME NEW u \in Users, NEW why \in {"ok", "network", "unreadable"},
         why = "ok" => (cmd[u] = "delete" => ~row /\ ~object)'
  PROVE  [end |-> why] \in Answers /\ Truthful(u, [end |-> why])'
<1> DEFINE what == [end |-> why]
<1>1. what \in Answers /\ what.end = why
  BY DEF Answers, Ends
<1> HIDE DEF what
<1>2. Truthful(u, what)'
  BY <1>1 DEF Truthful, RunOut
<1>3. QED BY <1>1, <1>2 DEF what

LEMMA CalmFail ==
  ASSUME OpeningInv, NEW u \in Users, UNCHANGED <<kind, entered, server, network>>, pc[u] # "done",
         NEW why \in Ends \ {"none", "not found"},
         why = "not owner" => cmd[u] = "delete",
         why \in {"required", "wrong password", "terminal"} => u \notin right,
         why = "ok" => cmd[u] # "delete",
         Fail(u, why)
  PROVE  OpeningInv'
<1>1. [end |-> why] \in Answers /\ Truthful(u, [end |-> why])
  BY Errors
<1>2. Return(u, [end |-> why])
  BY DEF Fail
<1>3. QED BY <1>1, <1>2, CalmReturn

(***************************************************************************)
(* The lookup.                                                             *)
(***************************************************************************)
LEMMA BeginKeeps ==
  ASSUME OpeningInv, NEW u \in Users, UNCHANGED kind, Begin(u)
  PROVE  OpeningInv'
<1>1. /\ pc[u] = "idle" /\ UNCHANGED <<entered, server, network>>
      /\ Placed(u, "idle") /\ cmd[u] \in {"open", "status", "delete"}
  BY DEF Begin, OpeningInv, UserInv, CommandInv, TypeOK
<1>2. CASE cmd[u] = "open" /\ Await(u, "describe")
  <2>1. Placed(u, "describe")
    BY <1>1, <1>2 DEF Placed
  <2>2. QED BY <1>1, <1>2, <2>1, CalmSends DEF Requests, Lookups
<1>3. CASE cmd[u] = "status" /\ Await(u, "status")
  <2>1. Placed(u, "status")
    BY <1>1, <1>3 DEF Placed, OpenSteps
  <2>2. QED BY <1>1, <1>3, <2>1, CalmSends DEF Requests, Lookups
<1>4. CASE cmd[u] = "delete" /\ Await(u, "delete")
  <2>1. Placed(u, "delete")
    BY <1>1, <1>4 DEF Placed, OpenSteps
  <2>2. QED BY <1>1, <1>4, <2>1, CalmSends DEF Requests, Lookups
<1>5. CASE cmd[u] = "delete" /\ Fail(u, "not owner")
  BY <1>1, <1>5, CalmFail DEF Ends
<1>6. QED BY <1>1, <1>2, <1>3, <1>4, <1>5 DEF Begin

LEMMA FoundKeeps ==
  ASSUME OpeningInv, NEW u \in Users, UNCHANGED <<kind, entered, server, network>>,
         pc[u] \in Lookups, stage[u] = "look", NEW now \in Times(u), row, ~now, ~Consumed, Found(u)
  PROVE  OpeningInv'
<1>0. /\ Placed(u, pc[u]) /\ PasswordInv(u) /\ LookInv(u)
      /\ {past[u], expired} \subseteq BOOLEAN /\ MaxPasswords \in Nat \ {0}
      /\ pc[u] # "done"
  BY OpeningAssumption DEF OpeningInv, UserInv, CommandInv, TypeOK, Lookups
<1>1. ~past[u]
  BY <1>0 DEF Times, LookInv
<1>2. CASE pc[u] = "describe" /\ protected /\ Local(u, "ask")
  <2>1. Placed(u, "ask")
    BY <1>0, <1>2 DEF Placed, PasswordInv, OpenSteps
  <2>2. Placed(u, "ask")' /\ World /\ Entry(u)
    BY <1>2, <2>1, Calm DEF Placed, Local, Rest, entered, server, kind
  <2>3. QED BY <1>0, <1>2, <2>2, Pauses
<1>3. CASE pc[u] = "describe" /\ Await(u, "inspect")
  <2>1. Placed(u, "inspect")
    BY <1>0, <1>3 DEF Placed, OpenSteps
  <2>2. QED BY <1>0, <1>3, <2>1, CalmSends DEF Requests, Lookups
<1>4. CASE pc[u] = "inspect" /\ Await(u, "claim")
  <2>1. Placed(u, "claim")
    BY <1>0, <1>4 DEF Placed, OpenSteps
  <2>2. QED BY <1>0, <1>4, <2>1, CalmSends DEF Requests, Lookups
<1>5. CASE pc[u] = "why"
  BY <1>0, <1>1, <1>5 DEF LookInv
<1>6. CASE pc[u] = "status" /\ Succeed(u)
  <2>1. Fail(u, "ok") /\ cmd[u] = "status"
    BY <1>0, <1>6 DEF Succeed, Fail, Placed
  <2>2. QED BY <1>0, <2>1, CalmFail DEF Ends
<1>7. CASE pc[u] = "delete" /\ Goes(u, "erase", FALSE)
  <2>1. FALSE \in Times(u) /\ "erase" \in Stages \ {"none"}
    BY <1>0, <1>1 DEF Times, Stages
  <2>2. Staged(u, "delete", "erase")
    BY DEF Staged, Requests, Lookups
  <2>3. World /\ UNCHANGED entered
    BY Calm
  <2>4. QED BY <1>7, <2>1, <2>2, <2>3, HandlerGoesOn DEF Requests, Lookups
<1>8. QED BY <1>2, <1>3, <1>4, <1>5, <1>6, <1>7 DEF Found, Lookups

LEMMA LookKeeps ==
  ASSUME OpeningInv, NEW u \in Users, UNCHANGED kind, authenticateMetadata(u)
  PROVE  OpeningInv'
<1>1. pc[u] \in Lookups /\ stage[u] = "look" /\ UNCHANGED <<entered, server, network>>
  BY DEF authenticateMetadata
<1>2. PICK now \in Times(u) : IF row /\ ~now /\ ~Consumed THEN Found(u) ELSE Goes(u, "tomb", now)
  BY DEF authenticateMetadata
<1>3. CASE row /\ ~now /\ ~Consumed
  BY <1>1, <1>2, <1>3, FoundKeeps
<1>4. CASE ~(row /\ ~now /\ ~Consumed)
  <2>1. Staged(u, pc[u], "tomb") /\ pc[u] \in Requests
    BY <1>1 DEF Staged, Lookups, Requests
  <2>2. "tomb" \in Stages \ {"none"} /\ World /\ UNCHANGED entered
    BY <1>1, Calm DEF Stages
  <2>3. QED BY <1>2, <1>4, <2>1, <2>2, HandlerGoesOn
<1>5. QED BY <1>3, <1>4

(* The answer of a tombstone, of the row or made for it.                   *)
LEMMA GoneAnswer ==
  ASSUME OpeningInv, NEW u \in Users, UNCHANGED <<kind, entered, server, network>>, pc[u] # "done",
         NEW t \in Tombstones, secretGone(u, t),
         t.outcome = "expired" => expired /\ (~forgotten /\ oneTime => ~seen[u] /\ Closed),
         t.outcome = "deleted" => ~row /\ ~object /\ (~forgotten /\ oneTime => openers = {} /\ Closed),
         t.outcome = "opened" =>
           oneTime /\ openers # {} /\ (t.owner <=> openers \subseteq Owners),
         t.first => openers \ Owners # {},
         ~forgotten /\ seen[u] => t.first \/ t.owner
  PROVE  OpeningInv'
<1>1. PICK version \in {"owner", "recipient"} : version = Version(u)
  BY DEF Version
<1> DEFINE what == [end |-> "gone", outcome |-> t.outcome, first |-> t.first,
                    owner |-> t.owner, version |-> version]
<1>2. Return(u, what)
  BY <1>1 DEF secretGone
<1>3. t.outcome \in Outcomes /\ t.first \in BOOLEAN /\ t.owner \in BOOLEAN
  BY DEF Tombstones
<1>4. what \in Gone
  BY <1>3 DEF Gone
<1>5. /\ what.end = "gone" /\ what.outcome = t.outcome
      /\ what.first = t.first /\ what.owner = t.owner
  OBVIOUS
<1> HIDE DEF what
<1>6. Truthful(u, what)
  BY <1>5 DEF Truthful, RunOut
<1>7. QED BY <1>2, <1>4, <1>6, CalmReturn DEF Answers

LEMMA TombKeeps ==
  ASSUME OpeningInv, NEW u \in Users, UNCHANGED kind, GetTombstone(u)
  PROVE  OpeningInv'
<1>1. /\ stage[u] = "tomb" /\ pc[u] \in Lookups /\ pc[u] # "done"
      /\ UNCHANGED <<entered, server, network>>
      /\ LookInv(u) /\ Placed(u, pc[u])
  BY DEF GetTombstone, OpeningInv, UserInv, CommandInv, Staged, Lookups
<1>2. StoneInv /\ ServerOK
  BY TypeParts DEF OpeningInv, ServerInv
<1>3. oneTime /\ openers = {} => \A v \in Users : Quiet(v)
  <2>1. ASSUME NEW v \in Users, openers = {} PROVE Quiet(v)
    <3>1. Placed(v, pc[v]) /\ got[v] \in Nat
      BY OpeningAssumption DEF OpeningInv, UserInv, CommandInv, TypeOK
    <3>2. pc[v] # "read" /\ ~(got[v] > 0)
      BY <2>1, <3>1 DEF Placed
    <3>3. QED BY <3>1, <3>2 DEF Quiet
  <2>2. QED BY <2>1
<1>4. CASE stone # NoStone /\ secretGone(u, stone)
  <2>1. stone \in Tombstones /\ stone.outcome \in Outcomes
    BY <1>2, <1>4, StoneKinds DEF Tombstones
  <2>2. seen[u] => openers # {} /\ (~oneTime => openers \ Owners # {})
    BY <1>1 DEF LookInv, Retrieved
  <2>3. stone.outcome \in {"expired", "deleted"} /\ ~forgotten /\ oneTime =>
          openers = {} /\ Closed /\ ~seen[u]
    BY <1>2, <1>3, <2>2 DEF StoneInv, Closed
  <2>4. stone.first => openers \ Owners # {}
    BY <1>2, <2>1 DEF StoneInv, Outcomes, Retrieved
  <2>5. ~forgotten /\ seen[u] => stone.first \/ stone.owner
    BY <1>2, <2>1, <2>2, <2>3 DEF StoneInv, Outcomes, Retrieved
  <2>6. QED BY <1>1, <1>2, <1>4, <2>1, <2>3, <2>4, <2>5, GoneAnswer DEF StoneInv
<1>5. CASE (stone = NoStone \/ forgotten) /\ Goes(u, "row", past[u])
  <2>1. ~forgotten => row /\ ~(oneTime /\ openers # {})
    <3>1. stone = NoStone => stone.outcome = "none"
      BY DEF NoStone
    <3>2. QED BY <1>2, <1>5, <3>1 DEF StoneInv
  <2>2. expired
    <3>1. forgotten => expired
      BY DEF OpeningInv, ServerInv
    <3>2. ~forgotten => past[u]
      BY <1>1, <2>1 DEF LookInv, Consumed, Retrieved
    <3>3. QED BY <1>1, <3>1, <3>2 DEF LookInv
  <2>3. ~forgotten /\ oneTime => ~seen[u] /\ Closed
    BY <1>1, <1>3, <2>1, <2>2 DEF LookInv, Retrieved, Closed
  <2>4. Staged(u, pc[u], "row") /\ pc[u] \in Requests
    BY <1>1 DEF Staged, Lookups, Requests
  <2>5. past[u] \in Times(u) /\ "row" \in Stages \ {"none"} /\ World /\ UNCHANGED entered
    BY <1>1, Calm DEF Times, Stages
  <2>6. ~row \/ Consumed \/ past[u]
    BY <1>1 DEF LookInv
  <2>7. QED BY <1>5, <2>2, <2>3, <2>4, <2>5, <2>6, HandlerGoesOn
<1>6. QED BY <1>4, <1>5 DEF GetTombstone

LEMMA RowKeeps ==
  ASSUME OpeningInv, NEW u \in Users, UNCHANGED kind, GetSecretIgnoringExpiry(u)
  PROVE  OpeningInv'
<1>1. /\ stage[u] = "row" /\ pc[u] # "done"
      /\ UNCHANGED <<entered, server, network>>
      /\ expired /\ (~forgotten /\ oneTime => ~seen[u] /\ Closed)
      /\ (seen[u] => Retrieved)
  BY DEF GetSecretIgnoringExpiry, OpeningInv, UserInv, CommandInv, LookInv, Staged, Lookups
<1>2. CASE secretGone(u, tombstone("expired", FALSE))
  <2>1. PICK t \in Tombstones :
          /\ t = tombstone("expired", FALSE)
          /\ t.outcome = "expired" /\ t.owner = FALSE
          /\ t.first <=> ("expired" = "opened" /\ ~FALSE) \/ (~oneTime /\ Retrieved)
    BY TombstoneFields DEF Outcomes
  <2>2. t.first => openers \ Owners # {}
    BY <2>1 DEF Retrieved
  <2>3. ~forgotten /\ seen[u] => t.first \/ t.owner
    BY <1>1, <2>1
  <2>4. secretGone(u, t)
    BY <1>2, <2>1
  <2>5. QED BY <1>1, <2>1, <2>2, <2>3, <2>4, GoneAnswer
<1>3. CASE Fail(u, "not found")
  <2> DEFINE what == [end |-> "not found"]
  <2>1. what \in Answers /\ what.end = "not found" /\ Return(u, what)
    BY <1>3 DEF Answers, Ends, Fail
  <2> HIDE DEF what
  <2>2. Truthful(u, what)
    BY <1>1, <2>1 DEF Truthful, RunOut
  <2>3. QED BY <1>1, <2>1, <2>2, CalmReturn
<1>4. QED BY <1>2, <1>3 DEF GetSecretIgnoringExpiry

(***************************************************************************)
(* The deletion.                                                           *)
(***************************************************************************)
LEMMA DeletionKeeps ==
  ASSUME OpeningInv, NEW u \in Users, UNCHANGED kind, EraseObject(u) \/ ForgetSecret(u)
  PROVE  OpeningInv'
<1>1. /\ pc[u] = "delete" /\ cmd[u] = "delete" /\ got[u] = 0
      /\ UNCHANGED <<entered, network>>
      /\ (stage[u] = "forget" => ~object)
  BY DEF EraseObject, ForgetSecret, OpeningInv, UserInv, CommandInv, LookInv, Staged, Placed
<1>2. NetworkOK' /\ Entry(u)
  BY <1>1, TypeParts, EntryQuiet DEF OpeningInv, NetworkOK, network
<1>3. ASSUME openers' = openers PROVE Requested
  BY <1>1, <1>3 DEF Requested, entered, network
<1>4. CASE EraseObject(u)
  <2>1. DeleteObject /\ Goes(u, "forget", past[u]) /\ openers' = openers
    BY <1>4 DEF EraseObject, DeleteObject
  <2>2. World /\ ~object'
    BY <1>2, <1>3, <2>1, ServerErases DEF World
  <2>3. "forget" \in Stages \ {"none"} /\ past[u] \in Times(u)
    BY DEF Stages, Times
  <2>4. Staged(u, pc[u], "forget") /\ pc[u] \in Requests
    BY <1>1 DEF Staged, Requests, Lookups
  <2>5. QED BY <1>1, <2>1, <2>2, <2>3, <2>4, HandlerGoesOn
<1>5. CASE ForgetSecret(u)
  <2>1. DeleteRow /\ Succeed(u) /\ ~object /\ openers' = openers
    BY <1>1, <1>5 DEF ForgetSecret, DeleteRow
  <2>2. World /\ ~row' /\ ~object'
    BY <1>2, <1>3, <2>1, ServerDeletes DEF World
  <2>3. [end |-> "ok"] \in Answers /\ Truthful(u, [end |-> "ok"])'
    BY <2>2, ErrorsNext
  <2>4. got'[u] = got[u]
    BY <1>1 DEF entered
  <2>5. QED BY <1>1, <1>2, <2>1, <2>2, <2>3, <2>4, ComesBack DEF Succeed
<1>6. QED BY <1>4, <1>5

(***************************************************************************)
(* Opening.                                                                *)
(***************************************************************************)
LEMMA PasswordKeeps ==
  ASSUME OpeningInv, NEW u \in Users, UNCHANGED kind, EnterPassword(u)
  PROVE  OpeningInv'
<1>1. /\ pc[u] = "ask" /\ cmd[u] = "open" /\ got[u] = 0
      /\ protected /\ u \notin right /\ asked[u] < MaxPasswords
  BY DEF EnterPassword, OpeningInv, UserInv, CommandInv, Placed, OpenSteps
<1>2. EnteredOK
  BY TypeParts DEF OpeningInv
<1>3. CASE /\ Await(u, "inspect")
           /\ asked' = [asked EXCEPT ![u] = @ + 1]
           /\ right' \in {right \cup {u}, right \ {u}}
           /\ UNCHANGED <<got, server, network>>
  <2>1. UNCHANGED cmd /\ Attempt(u, "inspect", 1)
    BY <1>3 DEF Await, Attempt
  <2>2. World
    <3>1. Serves
      BY <1>3, ServerQuiet
    <3>2. NetworkOK'
      BY <1>3, TypeParts DEF OpeningInv, NetworkOK, network
    <3>3. Requested
      BY <1>1, <1>3 DEF Requested, server, network
    <3>4. QED BY <3>1, <3>2, <3>3 DEF World
  <2>3. asked'[u] = asked[u] + 1 /\ EnteredOK'
    BY <1>1, <1>2, <1>3, OpeningAssumption DEF EnteredOK
  <2>4. PasswordInv(u)'
    <3>1. protected'
      BY <1>1 DEF kind
    <3>2. asked'[u] # 0
      BY <1>2, <2>3, OpeningAssumption DEF EnteredOK
    <3>3. QED BY <3>1, <3>2 DEF PasswordInv
  <2>5. Entry(u)
    <3>1. \A v \in Users \ {u} : asked'[v] = asked[v] /\ (v \in right' <=> v \in right)
      BY <1>2, <1>3 DEF EnteredOK
    <3>2. QED BY <1>1, <1>3, <2>3, <2>4, <3>1 DEF Entry
  <2>6. Placed(u, "inspect")'
    BY <1>1, <1>3, <2>1 DEF Placed
  <2>7. QED BY <1>1, <2>1, <2>2, <2>5, <2>6, Attempts, Sends DEF Requests, Lookups
<1>4. CASE /\ UNCHANGED <<entered, server, network>>
           /\ Fail(u, "required") \/ Fail(u, "terminal") \/ Succeed(u)
  <2>1. \E why \in {"required", "terminal", "ok"} : Fail(u, why)
    BY <1>4 DEF Succeed, Fail
  <2>2. QED BY <1>1, <1>4, <2>1, CalmFail DEF Ends
<1>5. QED BY <1>3, <1>4 DEF EnterPassword

LEMMA ClaimKeeps ==
  ASSUME OpeningInv, NEW u \in Users, UNCHANGED kind, Claim(u)
  PROVE  OpeningInv'
<1>1. /\ pc[u] = "claim" /\ cmd[u] = "open" /\ got[u] = 0 /\ Placed(u, "claim")
      /\ PasswordInv(u) /\ (past[u] => expired)
      /\ UNCHANGED <<entered, network>>
  BY DEF Claim, OpeningInv, UserInv, CommandInv, LookInv, Placed, OpenSteps
<1>2. PICK now \in Times(u) :
        /\ row /\ ~now => worker = "idle"
        /\ \/ row /\ ~now /\ ~Consumed /\ u \in right /\ Opened(u, "held") /\ Await(u, "read")
           \/ row /\ ~now /\ ~Consumed /\ u \notin right /\ Refused(u) /\ UNCHANGED server
           \/ ~(row /\ ~now /\ ~Consumed) /\ NotThere(u) /\ UNCHANGED server
  BY DEF Claim
<1>3. now => expired
  BY <1>1 DEF Times
<1>4. CASE row /\ ~now /\ ~Consumed /\ u \in right /\ Opened(u, "held") /\ Await(u, "read")
  <2>1. openers' = openers \cup {u} /\ UNCHANGED cmd
    BY <1>4 DEF Opened, Await, Attempt
  <2>2. World
    <3>1. Serves
      BY <1>2, <1>4, ServerOpens
    <3>2. NetworkOK'
      BY <1>1, TypeParts DEF OpeningInv, NetworkOK, network
    <3>3. Requested
      BY <1>1, <1>4, <2>1 DEF Requested, entered, network
    <3>4. QED BY <3>1, <3>2, <3>3 DEF World
  <2>3. Entry(u)
    BY <1>1, EntryQuiet
  <2>4. Placed(u, "read")'
    BY <1>1, <2>1, OpeningAssumption DEF Placed, entered
  <2>5. Closed => expired
    BY <1>4 DEF Closed
  <2>6. QED BY <1>1, <1>4, <2>2, <2>3, <2>4, <2>5, Attempts, Sends DEF Await, Requests
<1>5. CASE row /\ ~now /\ ~Consumed /\ u \notin right /\ Refused(u) /\ UNCHANGED server
  <2>1. protected
    BY <1>1, <1>5 DEF PasswordInv
  <2>2. CASE asked[u] < MaxPasswords /\ Local(u, "ask")
    <3>1. Placed(u, "ask")
      BY <1>1, <1>5, <2>1, <2>2 DEF Placed, OpenSteps
    <3>2. Placed(u, "ask")' /\ World /\ Entry(u)
      BY <1>1, <1>5, <2>2, <3>1, Calm DEF Placed, Local, Rest, entered, server, kind
    <3>3. QED BY <1>1, <2>2, <3>2, Pauses
  <2>3. CASE Fail(u, "wrong password")
    BY <1>1, <1>5, <2>3, CalmFail DEF Ends
  <2>4. QED BY <1>5, <2>2, <2>3 DEF Refused
<1>6. CASE ~(row /\ ~now /\ ~Consumed) /\ NotThere(u) /\ UNCHANGED server
  <2>1. Placed(u, "why")
    BY <1>1 DEF Placed, OpenSteps
  <2>2. QED BY <1>1, <1>3, <1>6, <2>1, CalmSends DEF NotThere, Requests, Lookups
<1>7. QED BY <1>2, <1>4, <1>5, <1>6

LEMMA ReadKeeps ==
  ASSUME OpeningInv, NEW u \in Users, UNCHANGED kind, Read(u)
  PROVE  OpeningInv'
<1>1. /\ pc[u] = "read" /\ UNCHANGED <<entered, server, network>> /\ (past[u] => expired)
  BY DEF Read, OpeningInv, UserInv, LookInv
<1>2. PICK now \in Times(u) :
        \/ ~now /\ Goes(u, "range", now)
        \/ Fail(u, "window closed")
  BY DEF Read
<1>3. CASE Fail(u, "window closed")
  BY <1>1, <1>3, CalmFail DEF Ends
<1>4. CASE ~now /\ Goes(u, "range", now)
  <2>1. ~Closed
    BY <1>1, <1>4 DEF Closed, Quiet, Times
  <2>2. Staged(u, "read", "range") /\ "range" \in Stages \ {"none"}
    BY DEF Staged, Stages, Requests
  <2>3. World /\ UNCHANGED entered
    BY <1>1, Calm
  <2>4. QED BY <1>1, <1>4, <2>1, <2>2, <2>3, HandlerGoesOn DEF Requests
<1>5. QED BY <1>2, <1>3, <1>4

(* Another attempt of the same request, or the end of it.                  *)
LEMMA AgainKeeps ==
  ASSUME OpeningInv, World, NEW u \in Users, pc[u] \in Requests, UNCHANGED <<entered, server>>,
         Again(u)
  PROVE  OpeningInv'
<1>0. /\ Placed(u, pc[u]) /\ LookInv(u) /\ Entry(u) /\ pc[u] # "done"
      /\ tries[u] \in 0 .. MaxTransientAttempts /\ MaxTransientAttempts \in Nat
      /\ got[u] \in Nat
  BY EntryQuiet, OpeningAssumption DEF OpeningInv, UserInv, CommandInv, TypeOK, World, Requests, Lookups
<1>1. CASE tries[u] < MaxTransientAttempts /\ Attempt(u, pc[u], tries[u] + 1)
  <2>1. PICK request \in Requests : request = pc[u]
    OBVIOUS
  <2>2. PICK n \in 0 .. MaxTransientAttempts : n = tries[u] + 1
    BY <1>0, <1>1
  <2>3. Attempt(u, request, n)
    BY <1>1, <2>1, <2>2
  <2>4. Placed(u, request)'
    BY <1>0, <1>1, <2>1 DEF Placed, Attempt, World, entered, server, kind
  <2>5. request = "why" => ~row \/ Consumed \/ expired
    BY <1>0, <2>1 DEF LookInv
  <2>6. Closed /\ request = "read" => expired
    BY <1>0, <2>1 DEF LookInv, Closed, Quiet
  <2>7. QED BY <1>0, <2>3, <2>4, <2>5, <2>6, Sends
<1>2. CASE GiveUp(u)
  <2>1. [end |-> "network"] \in Answers /\ Truthful(u, [end |-> "network"])'
    BY ErrorsNext
  <2>2. (got[u] = 0 \/ u \in openers) /\ (got'[u] > 0 => u \in openers')
    BY <1>0 DEF Placed, entered, server
  <2>3. QED BY <1>0, <1>2, <2>1, <2>2, ComesBack DEF GiveUp, Fail
<1>3. QED BY <1>1, <1>2 DEF Again

LEMMA RangeKeeps ==
  ASSUME OpeningInv, NEW u \in Users, UNCHANGED kind, GetRange(u)
  PROVE  OpeningInv'
<1>1. /\ stage[u] = "range" /\ pc[u] = "read" /\ cmd[u] = "open" /\ got[u] < Ranges
      /\ u \in openers /\ ~Closed
      /\ UNCHANGED <<asked, right, server, network>>
  BY DEF GetRange, OpeningInv, UserInv, CommandInv, Placed, Staged, OpenSteps, Closed, Quiet
<1>2. EnteredOK /\ got[u] \in Nat /\ Ranges \in Nat
  BY TypeParts, OpeningAssumption DEF OpeningInv, EnteredOK
<1>3. World
  <2>1. Serves
    BY <1>1, ServerQuiet
  <2>2. NetworkOK'
    BY <1>1, TypeParts DEF OpeningInv, NetworkOK, network
  <2>3. Requested
    BY <1>1 DEF Requested, server, network
  <2>4. QED BY <2>1, <2>2, <2>3 DEF World
<1>4. CASE Again(u) /\ UNCHANGED got
  BY <1>1, <1>3, <1>4, AgainKeeps DEF Requests, entered
<1>5. CASE /\ got' = [got EXCEPT ![u] = @ + 1]
           /\ \/ got[u] = 0 /\ Local(u, "sink")
              \/ got[u] + 1 < Ranges /\ Await(u, "read")
              \/ Succeed(u)
  <2>1. UNCHANGED cmd
    BY <1>5 DEF Local, Await, Attempt, Succeed, Return, Rest
  <2>2. got'[u] = got[u] + 1 /\ EnteredOK' /\ \A v \in Users \ {u} : got'[v] = got[v]
    BY <1>1, <1>2, <1>5 DEF EnteredOK
  <2>3. PasswordInv(u)'
    BY <1>1 DEF OpeningInv, UserInv, CommandInv, PasswordInv, kind
  <2>4. Entry(u)
    BY <1>1, <2>2, <2>3 DEF Entry
  <2>5. openers' = openers
    BY <1>1 DEF server
  <2>6. CASE got[u] = 0 /\ Local(u, "sink")
    <3>1. Placed(u, "sink")'
      BY <1>1, <1>2, <2>1, <2>2, <2>5, <2>6 DEF Placed
    <3>2. QED BY <1>1, <1>3, <2>4, <2>6, <3>1, Pauses
  <2>7. CASE got[u] + 1 < Ranges /\ Await(u, "read")
    <3>1. Placed(u, "read")'
      BY <1>1, <1>2, <2>1, <2>2, <2>5, <2>7 DEF Placed
    <3>2. QED BY <1>1, <1>3, <2>4, <2>7, <3>1, Attempts, Sends DEF Await, Requests
  <2>8. CASE Succeed(u)
    <3>1. [end |-> "ok"] \in Answers /\ Truthful(u, [end |-> "ok"])'
      BY <1>1, <2>1, ErrorsNext
    <3>2. QED BY <1>1, <1>3, <2>4, <2>5, <2>8, <3>1, ComesBack DEF Succeed
  <2>9. QED BY <1>5, <2>6, <2>7, <2>8
<1>6. CASE object
  <2>1. got' = [got EXCEPT ![u] = @ + 1]
    BY <1>6 DEF GetRange
  <2>2. CASE got[u] = 0
    <3>1. Local(u, "sink")
      BY <1>6, <2>2 DEF GetRange
    <3>2. QED BY <1>5, <2>1, <2>2, <3>1
  <2>3. CASE got[u] > 0 /\ got[u] + 1 < Ranges
    <3>1. Await(u, "read")
      BY <1>6, <2>3 DEF GetRange
    <3>2. QED BY <1>5, <2>1, <2>3, <3>1
  <2>4. CASE got[u] > 0 /\ got[u] + 1 >= Ranges
    <3>1. got[u] # 0 /\ ~(got[u] + 1 < Ranges)
      BY <1>2, <2>4
    <3>2. Succeed(u)
      BY <1>6, <3>1 DEF GetRange
    <3>3. QED BY <1>5, <2>1, <3>2
  <2>5. QED BY <1>2, <2>2, <2>3, <2>4
<1>7. QED BY <1>4, <1>6 DEF GetRange

LEMMA ManifestKeeps ==
  ASSUME OpeningInv, NEW u \in Users, UNCHANGED kind, Manifest(u)
  PROVE  OpeningInv'
<1>1. /\ pc[u] = "sink" /\ cmd[u] = "open" /\ got[u] = 1
      /\ Placed(u, "sink") /\ UNCHANGED <<entered, server, network>>
  BY DEF Manifest, OpeningInv, UserInv, CommandInv, Placed, OpenSteps
<1>2. CASE Ranges > 1 /\ Await(u, "read")
  <2>1. Placed(u, "read")
    BY <1>1, <1>2, OpeningAssumption DEF Placed
  <2>2. ~Closed
    BY <1>1 DEF Closed, Quiet
  <2>3. QED BY <1>1, <1>2, <2>1, <2>2, CalmSends DEF Requests
<1>3. CASE Succeed(u)
  <2>1. Fail(u, "ok")
    BY <1>3 DEF Succeed, Fail
  <2>2. QED BY <1>1, <2>1, CalmFail DEF Ends
<1>4. CASE Fail(u, "sink")
  BY <1>1, <1>4, CalmFail DEF Ends
<1>5. QED BY <1>2, <1>3, <1>4 DEF Manifest

(***************************************************************************)
(* The network.                                                            *)
(***************************************************************************)
LEMMA LoseKeeps ==
  ASSUME OpeningInv, NEW u \in Users, UNCHANGED kind, Lose(u)
  PROVE  OpeningInv'
<1>1. /\ pc[u] \in Requests /\ late' = late \cup Effects(u)
      /\ UNCHANGED <<entered, server>> /\ Again(u)
      /\ CommandInv(u) /\ LookInv(u)
  BY DEF Lose, OpeningInv, UserInv
<1>2. ASSUME NEW e \in Effects(u)
      PROVE  /\ \/ e = <<u, "claim">> /\ pc[u] = "claim" /\ u \in right
                \/ e = <<u, "look">> \/ e = <<u, "erase">>
                \/ e = <<u, "forget">> /\ stage[u] = "forget"
  <2>1. CASE pc[u] = "claim"
    BY <1>2, <2>1 DEF Effects
  <2>2. CASE pc[u] = "delete" /\ stage[u] = "look"
    BY <1>2, <2>2 DEF Effects
  <2>3. CASE pc[u] # "claim" /\ stage[u] \in {"erase", "forget"}
    BY <1>2, <2>3 DEF Effects
  <2>4. CASE pc[u] # "claim" /\ ~(pc[u] = "delete" /\ stage[u] = "look") /\ stage[u] \notin {"erase", "forget"}
    BY <1>2, <2>4 DEF Effects
  <2>5. QED BY <2>1, <2>2, <2>3, <2>4
<1>3. World
  <2>1. Serves
    BY <1>1, ServerQuiet
  <2>2. NetworkOK'
    <3>1. NetworkOK
      BY TypeParts DEF OpeningInv
    <3>2. Effects(u) \subseteq Users \X {"claim", "look", "erase", "forget"}
      BY <1>2
    <3>3. losses' \in 0 .. MaxLosses
      BY <3>1, OpeningAssumption DEF Lose, NetworkOK
    <3>4. QED BY <1>1, <3>1, <3>2, <3>3 DEF NetworkOK
  <2>3. Requested
    <3>1. ASSUME NEW v \in Users, <<v, "claim">> \in Effects(u)
          PROVE  cmd[v] = "open" /\ v \in right
      BY <1>1, <1>2, <3>1 DEF CommandInv, Placed, OpenSteps
    <3>2. ASSUME NEW v \in Users, <<v, "forget">> \in Effects(u)
          PROVE  ~object'
      BY <1>1, <1>2, <3>2 DEF LookInv, server
    <3>3. QED BY <1>1, <3>1, <3>2 DEF Requested, entered, server
  <2>4. QED BY <2>1, <2>2, <2>3 DEF World
<1>4. QED BY <1>1, <1>3, AgainKeeps

LEMMA LoseBodyKeeps ==
  ASSUME OpeningInv, NEW u \in Users, UNCHANGED kind, LoseBody(u)
  PROVE  OpeningInv'
<1>1. /\ Fail(u, "unreadable") /\ UNCHANGED <<cmd, entered, late>>
      /\ pc[u] # "done" /\ CommandInv(u) /\ got[u] \in Nat
  BY OpeningAssumption DEF LoseBody, Fail, Return, Rest, OpeningInv, UserInv, CommandInv, Staged, TypeOK, Requests, Lookups
<1>2. NetworkOK'
  <2>1. NetworkOK
    BY TypeParts DEF OpeningInv
  <2>2. losses' \in 0 .. MaxLosses
    BY <2>1, OpeningAssumption DEF LoseBody, NetworkOK
  <2>3. QED BY <1>1, <2>1, <2>2 DEF NetworkOK
<1>3. World /\ openers \subseteq openers'
  <2>1. CASE UNCHANGED server
    <3>1. Serves
      BY <2>1, ServerQuiet
    <3>2. Requested
      BY <1>1, <2>1 DEF Requested, entered, server
    <3>3. QED BY <1>2, <2>1, <3>1, <3>2 DEF World, server
  <2>2. CASE /\ pc[u] = "claim" /\ u \in right /\ row /\ ~Consumed /\ worker = "idle"
             /\ Opened(u, "lost")
    <3>1. cmd[u] = "open" /\ openers' = openers \cup {u}
      BY <1>1, <2>2 DEF CommandInv, Placed, OpenSteps, Opened
    <3>2. Serves
      BY <2>2, ServerOpens
    <3>3. Requested
      BY <1>1, <2>2, <3>1 DEF Requested, entered
    <3>4. QED BY <1>2, <3>1, <3>2, <3>3 DEF World
  <2>3. QED BY <2>1, <2>2 DEF LoseBody
<1>4. Entry(u)
  BY <1>1, EntryQuiet
<1>5. [end |-> "unreadable"] \in Answers /\ Truthful(u, [end |-> "unreadable"])'
  BY ErrorsNext
<1>6. (got[u] = 0 \/ u \in openers) /\ (got'[u] > 0 => u \in openers')
  BY <1>1, <1>3 DEF CommandInv, Placed, entered
<1>7. QED BY <1>1, <1>3, <1>4, <1>5, <1>6, ComesBack DEF Fail

(***************************************************************************)
(* What happens whatever the users do.                                     *)
(***************************************************************************)
LEMMA LateKeeps ==
  ASSUME OpeningInv, NEW u \in Users, UNCHANGED kind, ArriveLate(u)
  PROVE  OpeningInv'
<1>1. UNCHANGED <<command, losses>> /\ NetworkOK
  BY TypeParts DEF ArriveLate, OpeningInv
<1>2. CASE /\ <<u, "claim">> \in late /\ row /\ ~Consumed /\ worker = "idle"
           /\ Opened(u, "lost") /\ UNCHANGED late
  <2>1. cmd[u] = "open" /\ u \in right /\ openers' = openers \cup {u}
    BY <1>2 DEF OpeningInv, RequestInv, Opened
  <2>2. Serves
    BY <1>2, ServerOpens
  <2>3. Requested
    BY <1>1, <1>2, <2>1 DEF Requested, command, entered
  <2>4. NetworkOK'
    BY <1>1, <1>2 DEF NetworkOK
  <2>5. QED BY <1>1, <2>2, <2>3, <2>4, NoUserStep DEF World
<1>3. CASE <<u, "look">> \in late /\ late' = late \cup {<<u, "erase">>} /\ UNCHANGED server
  <2>1. Serves
    BY <1>3, ServerQuiet
  <2>2. Requested
    BY <1>1, <1>3 DEF Requested, command, entered, server
  <2>3. NetworkOK'
    BY <1>1, <1>3 DEF NetworkOK
  <2>4. QED BY <1>1, <2>1, <2>2, <2>3, NoUserStep DEF World
<1>4. CASE DeleteObject /\ late' = late \cup {<<u, "forget">>}
  <2>1. Serves /\ ~object' /\ openers' = openers
    BY <1>4, ServerErases DEF DeleteObject
  <2>2. Requested
    BY <1>1, <1>4, <2>1 DEF Requested, command, entered
  <2>3. NetworkOK'
    BY <1>1, <1>4 DEF NetworkOK
  <2>4. QED BY <1>1, <2>1, <2>2, <2>3, NoUserStep DEF World
<1>5. CASE <<u, "forget">> \in late /\ DeleteRow /\ UNCHANGED late
  <2>1. ~object
    BY <1>5 DEF OpeningInv, RequestInv
  <2>2. Serves /\ openers' = openers
    BY <1>5, <2>1, ServerDeletes DEF DeleteRow
  <2>3. Requested
    BY <1>1, <1>5, <2>2 DEF Requested, command, entered
  <2>4. NetworkOK'
    BY <1>1, <1>5 DEF NetworkOK
  <2>5. QED BY <1>1, <2>2, <2>3, <2>4, NoUserStep DEF World
<1>6. QED BY <1>2, <1>3, <1>4, <1>5 DEF ArriveLate

LEMMA ServerKeeps ==
  ASSUME OpeningInv, UNCHANGED kind,
         \/ Expire \/ CloseSession \/ ForgetTombstone \/ SelectForCleanup
         \/ CleanUp \/ CleanUpFails \/ DeleteExpiredTombstones
  PROVE  OpeningInv'
<1>1. UNCHANGED <<command, late, openers>>
  BY DEF Expire, CloseSession, ForgetTombstone, SelectForCleanup, CleanUp, DeleteObject,
         CleanUpFails, DeleteExpiredTombstones, network
<1>2. losses' = losses \/ (losses < MaxLosses /\ losses' = losses + 1)
  BY DEF Expire, CloseSession, ForgetTombstone, SelectForCleanup, CleanUp,
         CleanUpFails, DeleteExpiredTombstones, network
<1>3. NetworkOK'
  BY <1>1, <1>2, TypeParts, OpeningAssumption DEF OpeningInv, NetworkOK
<1>4. Requested
  BY <1>1 DEF Requested, command, entered
<1>5. Serves
  BY ServerGoesOn
<1>6. QED BY <1>1, <1>3, <1>4, <1>5, NoUserStep DEF World

(***************************************************************************)
(* The invariant.                                                          *)
(***************************************************************************)
LEMMA OpeningInit == Init => OpeningInv
<1> SUFFICES ASSUME Init PROVE OpeningInv
  OBVIOUS
<1>1. TypeOK
  <2>1. [end |-> "none"] \in [end : Ends]
    BY DEF Ends
  <2>2. CommandOK
    BY <2>1, OpeningAssumption DEF Init, CommandOK, Answers, Stages
  <2>3. EnteredOK
    BY OpeningAssumption DEF Init, EnteredOK
  <2>4. ServerOK
    BY DEF Init, ServerOK
  <2>5. NetworkOK
    BY OpeningAssumption DEF Init, NetworkOK
  <2>6. QED BY <2>2, <2>3, <2>4, <2>5, TypeParts
<1>2. ServerInv
  <2>1. NoStone.outcome = "none"
    BY DEF NoStone
  <2>2. QED BY <2>1 DEF Init, ServerInv, StoneInv
<1>3. RequestInv
  BY DEF Init, RequestInv
<1>4. ASSUME NEW u \in Users PROVE UserInv(u)
  <2>1. CommandInv(u)
    BY DEF Init, CommandInv, Placed, PasswordInv, Staged, OpenSteps, Requests, Lookups
  <2>2. LookInv(u)
    BY DEF Init, LookInv
  <2>3. ToldInv(u)
    BY DEF Init, ToldInv
  <2>4. QED BY <2>1, <2>2, <2>3 DEF UserInv
<1>5. QED BY <1>1, <1>2, <1>3, <1>4 DEF OpeningInv

LEMMA OpeningNext == OpeningInv /\ [Next]_vars => OpeningInv'
<1> SUFFICES ASSUME OpeningInv, [Next]_vars PROVE OpeningInv'
  OBVIOUS
<1>1. CASE UNCHANGED vars
  <2>1. UNCHANGED <<command, kind, server, network>>
    BY <1>1 DEF vars
  <2>2. Serves
    BY <2>1, ServerQuiet
  <2>3. Requested
    BY <2>1 DEF Requested, command, entered, server, network
  <2>4. NetworkOK'
    BY <2>1, TypeParts DEF OpeningInv, NetworkOK, network
  <2>5. QED BY <2>1, <2>2, <2>3, <2>4, NoUserStep DEF World
<1>2. ASSUME NEW u \in Users, Step(u) PROVE OpeningInv'
  BY <1>2, BeginKeeps, LookKeeps, TombKeeps, RowKeeps, DeletionKeeps, PasswordKeeps, ClaimKeeps,
     ReadKeeps, RangeKeeps, ManifestKeeps, LoseKeeps, LoseBodyKeeps DEF Step
<1>3. CASE Meanwhile \/ (CleanUp /\ UNCHANGED kind)
  BY <1>3, LateKeeps, ServerKeeps DEF Meanwhile
<1>4. QED BY <1>1, <1>2, <1>3 DEF Next

LEMMA OpeningSafe == Spec => []OpeningInv
BY OpeningInit, OpeningNext, PTL DEF Spec

(* Which answers the exit codes 0 and 4 stand for.                         *)
LEMMA ExitCodes ==
  ASSUME NEW end
  PROVE  /\ exitCode(end) = 0 => end = "ok"
         /\ exitCode(end) = 4 => end \in {"gone", "not found"}
<1>1. CASE end = "ok"
  BY <1>1 DEF exitCode
<1>2. CASE end \in {"required", "wrong password"}
  <2>1. exitCode("required") = 3 /\ exitCode("wrong password") = 3
    BY DEF exitCode
  <2>2. exitCode(end) = 3
    BY <1>2, <2>1
  <2>3. QED BY <2>2
<1>3. CASE end \in {"gone", "not found"}
  <2>1. exitCode("gone") = 4 /\ exitCode("not found") = 4
    BY DEF exitCode
  <2>2. exitCode(end) = 4
    BY <1>3, <2>1
  <2>3. exitCode(end) # 0
    BY <2>2
  <2>4. QED BY <1>3, <2>3, Zenon
<1>4. CASE end = "network"
  BY <1>4 DEF exitCode
<1>5. CASE end \notin {"ok", "required", "wrong password", "gone", "not found", "network"}
  <2>1. exitCode(end) = 1
    BY <1>5 DEF exitCode
  <2>2. QED BY <2>1
<1>6. QED BY <1>1, <1>2, <1>3, <1>4, <1>5

LEMMA GoneCodes == exitCode("gone") = 4 /\ exitCode("not found") = 4
BY DEF exitCode

(* Who has the content has opened the secret.                              *)
LEMMA ReadersOpened ==
  ASSUME OpeningInv, NEW u \in Users, HasContent(u)
  PROVE  u \in openers /\ ~Closed
<1>1. got[u] = Ranges /\ Ranges > 0
  BY OpeningAssumption DEF HasContent
<1>2. u \in openers
  BY <1>1 DEF OpeningInv, UserInv, CommandInv, Placed
<1>3. ~Closed
  BY <1>1 DEF Closed, Quiet
<1>4. QED BY <1>2, <1>3

(* What is said of a secret that is gone.                                  *)
LEMMA SaidTruly ==
  ASSUME OpeningInv, NEW u \in Users, SaysGone(u)
  PROVE  Truthful(u, told[u]) /\ (RunOut(told[u]) <=> RanOut(u))
         /\ told[u].end \in {"gone", "not found"}
         /\ (IsGone(u) => told[u].outcome \in Outcomes)
<1>1. told[u].end \in {"gone", "not found"} /\ pc[u] = "done"
  BY ExitCodes DEF SaysGone
<1>2. Truthful(u, told[u])
  BY <1>1 DEF OpeningInv, UserInv, ToldInv
<1>3. IsGone(u) => told[u].outcome \in Outcomes
  BY DEF OpeningInv, TypeOK, IsGone, Gone, Ends
<1>4. QED BY <1>1, <1>2, <1>3 DEF RunOut, RanOut, IsGone

(***************************************************************************)
(* What a command says of a secret that is gone is true, whatever the       *)
(* cleanup, a deletion or a late opening does between the statements of its *)
(* lookup.                                                                  *)
(***************************************************************************)
THEOREM GoneIsWhatHappened == Spec => []GoneIsTrue
<1>1. OpeningInv => GoneIsTrue
  <2> SUFFICES ASSUME OpeningInv, NEW u \in Users, SaysGone(u)
               PROVE  /\ ~Live
                      /\ RanOut(u) => expired
                      /\ ~forgotten /\ seen[u] /\ oneTime => IsGone(u) /\ told[u].outcome = "opened"
                      /\ IsGone(u) =>
                           /\ told[u].outcome = "deleted" => ~row /\ ~object
                           /\ told[u].outcome = "opened" =>
                                oneTime /\ openers # {} /\ (told[u].owner <=> openers \subseteq Owners)
                           /\ told[u].first => openers \ Owners # {}
                           /\ ~forgotten /\ seen[u] => told[u].first \/ told[u].owner
    BY DEF GoneIsTrue
  <2>1. PICK what : what = told[u]
    OBVIOUS
  <2>2. /\ Truthful(u, what) /\ (RunOut(what) <=> RanOut(u))
        /\ what.end \in {"gone", "not found"}
        /\ what.end = "gone" <=> IsGone(u)
        /\ IsGone(u) => what.outcome \in Outcomes
        /\ seen[u] /\ oneTime => openers # {}
    BY <2>1, SaidTruly DEF IsGone, OpeningInv, UserInv, LookInv, Retrieved
  <2>3. RunOut(what) \/ (IsGone(u) /\ what.outcome \in {"deleted", "opened"})
    BY <2>2 DEF RunOut, Outcomes
  <2>4. ~Live
    BY <2>2, <2>3 DEF Live, Consumed, Retrieved, Truthful
  <2>5. ~forgotten /\ seen[u] /\ oneTime => IsGone(u) /\ what.outcome = "opened"
    BY <2>2, <2>3 DEF Truthful
  <2>6. QED BY <2>1, <2>2, <2>4, <2>5 DEF Truthful
<1>2. QED BY <1>1, OpeningSafe, PTL

(***************************************************************************)
(* A one-time secret reaches at most one reader, whatever requests are      *)
(* repeated, lost or late, and as long as tombstones are kept nobody is     *)
(* told that what was read expired, was deleted or never was.               *)
(***************************************************************************)
THEOREM OneReaderAtMost == Spec => []OneReader
<1>1. OpeningInv => OneReader
  <2> SUFFICES ASSUME OpeningInv, oneTime, NEW u \in Users, HasContent(u), NEW v \in Users \ {u}
               PROVE  /\ ~HasContent(v)
                      /\ SaysGone(v) /\ ~forgotten => IsGone(v) /\ told[v].outcome = "opened"
    BY DEF OneReader
  <2>1. ~HasContent(v)
    BY ReadersOpened DEF OpeningInv, ServerInv
  <2>2. openers # {} /\ ~Closed
    BY ReadersOpened
  <2>3. ASSUME SaysGone(v), ~forgotten PROVE IsGone(v) /\ told[v].outcome = "opened"
    <3>1. PICK what : what = told[v]
      OBVIOUS
    <3>2. /\ Truthful(v, what)
          /\ what.end \in {"gone", "not found"}
          /\ what.end = "gone" <=> IsGone(v)
          /\ IsGone(v) => what.outcome \in Outcomes
      BY <2>3, <3>1, SaidTruly DEF IsGone
    <3>3. ~RunOut(what) /\ ~(what.end = "gone" /\ what.outcome = "deleted")
      BY <2>2, <2>3, <3>2 DEF Truthful
    <3>4. QED BY <3>1, <3>2, <3>3 DEF RunOut, Outcomes
  <2>4. QED BY <2>1, <2>3
<1>2. QED BY <1>1, OpeningSafe, PTL

(***************************************************************************)
(* Whoever used up the one-time secret learns that it was opened, or of an  *)
(* error of the download or the network, and is never told of a wrong       *)
(* password; that it ran out, only if it did before the request came        *)
(* through that opened it.                                                  *)
(***************************************************************************)
THEOREM SpendersAreTold == Spec => []SpenderIsTold
<1>1. OpeningInv => SpenderIsTold
  <2> SUFFICES ASSUME OpeningInv, oneTime, NEW u \in openers, pc[u] = "done"
               PROVE  \/ told[u].end \in {"ok", "window closed", "sink", "network", "unreadable"}
                      \/ IsGone(u) /\ told[u].outcome = "opened"
                      \/ SaysGone(u) /\ forgotten
                      \/ RanOut(u) /\ expired /\ ~seen[u]
    BY DEF SpenderIsTold
  <2>1. u \in Users /\ cmd[u] = "open" /\ u \in right /\ openers # {}
    BY DEF OpeningInv, TypeOK, RequestInv
  <2>2. PICK what : what = told[u]
    OBVIOUS
  <2>3. Truthful(u, what)
    BY <2>1, <2>2 DEF OpeningInv, UserInv, ToldInv
  <2>4. what.end \in Ends \cup {"gone"}
    BY <2>1, <2>2 DEF OpeningInv, TypeOK, Gone
  <2>5. what.end \notin {"none", "not owner", "required", "wrong password", "terminal"}
    BY <2>1, <2>3 DEF Truthful
  <2>6. CASE what.end \in {"gone", "not found"}
    <3>1. SaysGone(u)
      BY <2>2, <2>6, GoneCodes DEF SaysGone
    <3>2. (RunOut(what) <=> RanOut(u)) /\ (IsGone(u) => what.outcome \in Outcomes)
      BY <2>1, <2>2, <3>1, SaidTruly
    <3>3. RunOut(what) /\ ~forgotten => expired /\ ~seen[u]
      BY <2>3 DEF Truthful
    <3>4. IsGone(u) /\ what.outcome = "deleted" => forgotten
      BY <2>1, <2>2, <2>3 DEF Truthful, IsGone
    <3>5. IsGone(u) \/ RanOut(u)
      BY <2>2, <2>6 DEF IsGone, RanOut
    <3>6. IsGone(u) /\ what.outcome = "expired" => RanOut(u)
      BY <2>2 DEF RanOut
    <3>7. QED BY <2>2, <3>1, <3>2, <3>3, <3>4, <3>5, <3>6 DEF Outcomes
  <2>7. QED BY <2>2, <2>4, <2>5, <2>6 DEF Ends
<1>2. QED BY <1>1, OpeningSafe, PTL

(***************************************************************************)
(* After a deletion without an error nothing is left that a link opens,     *)
(* whoever was opening or reading between its statements.                   *)
(***************************************************************************)
THEOREM DeletedIsGone == Spec => []DeletedOpensNothing
<1>1. OpeningInv => DeletedOpensNothing
  <2> SUFFICES ASSUME OpeningInv, NEW u \in Users, cmd[u] = "delete", pc[u] = "done",
                      exitCode(told[u].end) = 0
               PROVE  ~row /\ ~object /\ sessions = {}
    BY DEF DeletedOpensNothing
  <2>1. told[u].end = "ok"
    BY ExitCodes
  <2>2. Truthful(u, told[u])
    BY DEF OpeningInv, UserInv, ToldInv
  <2>3. ~row /\ ~object
    BY <2>1, <2>2 DEF Truthful
  <2>4. QED BY <2>3 DEF OpeningInv, ServerInv
<1>2. QED BY <1>1, OpeningSafe, PTL
=============================================================================
