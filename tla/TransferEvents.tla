--------------------------- MODULE TransferEvents ---------------------------
(***************************************************************************)
(* How a long poll is woken: TransferEvents of transfer_events.go in one   *)
(* server process, the polls of transfer_handler.go that wait on it, and   *)
(* PostgreSQL's NOTIFY.  A change of a transfer sends its ID, after the    *)
(* commit, to the sessions that LISTEN at that time; a connection that     *)
(* drops takes the notifications on it along.                              *)
(***************************************************************************)
EXTENDS Naturals, Sequences

CONSTANTS
  Transfers,   \* transfer IDs
  Polls,       \* long polls in this process
  TransferOf,  \* the transfer each poll waits on
  MaxChanges,  \* the change each poll waits for: claim, answer, delivery ...
  MaxDrops     \* bound: failures of the listener's connection

ASSUME TransferEventsAssumption ==
  /\ TransferOf \in [Polls -> Transfers]
  /\ {MaxChanges, MaxDrops} \subseteq Nat

VARIABLES
  changes,   \* how often each transfer has changed in the database
  listener,  \* Run: "down", "listened" (before wakeAll) or "waiting"
  inbox,     \* the notifications on the listener's connection
  waiters,   \* the polls subscribed to each transfer
  signal,    \* the polls whose channel holds a signal
  poll,      \* what each poll is doing
  drops      \* failures of the connection so far

events == <<changes, listener, inbox, waiters, signal, poll, drops>>

EventsTypeOK ==
  /\ changes \in [Transfers -> 0..MaxChanges]
  /\ listener \in {"down", "listened", "waiting"}
  /\ inbox \in Seq(Transfers)
  /\ waiters \in [Transfers -> SUBSET Polls]
  /\ signal \in SUBSET Polls
  /\ poll \in [Polls -> {"idle", "reading", "looked", "waiting", "done"}]
  /\ drops \in 0..MaxDrops

EventsInit ==
  /\ changes = [t \in Transfers |-> 0]
  /\ listener = "down"
  /\ inbox = <<>>
  /\ waiters = [t \in Transfers |-> {}]
  /\ signal = {}
  /\ poll = [p \in Polls |-> "idle"]
  /\ drops = 0

\* An UPDATE of code_transfers commits, on any replica; its trigger notifies.
Change(t) ==
  /\ changes[t] < MaxChanges
  /\ changes' = [changes EXCEPT ![t] = @ + 1]
  /\ inbox' = IF listener = "down" THEN inbox ELSE Append(inbox, t)
  /\ UNCHANGED <<listener, waiters, signal, poll, drops>>

-----------------------------------------------------------------------------
(* The listener.                                                            *)

\* notify does not block: a full channel stays full.
\* Mutant: an unbuffered channel reaches only a poll that waits right now.
NotifyUnbuffered(polls) == signal' = signal \cup {p \in polls : poll[p] = "waiting"}
Notify(polls) == signal' = signal \cup polls

Listen ==
  /\ listener = "down"
  /\ listener' = "listened"
  /\ UNCHANGED <<changes, inbox, waiters, signal, poll, drops>>

wakeAll ==
  /\ listener = "listened"
  /\ listener' = "waiting"
  /\ Notify(UNION {waiters[t] : t \in Transfers})
  /\ UNCHANGED <<changes, inbox, waiters, poll, drops>>

wake ==
  /\ listener = "waiting"
  /\ inbox # <<>>
  /\ inbox' = Tail(inbox)
  /\ Notify(waiters[Head(inbox)])
  /\ UNCHANGED <<changes, listener, waiters, poll, drops>>

\* The connection fails, or LISTEN on a new one does; Run tries again later.
Drop ==
  /\ drops < MaxDrops
  /\ drops' = drops + 1
  /\ listener' = "down"
  /\ inbox' = <<>>
  /\ UNCHANGED <<changes, waiters, signal, poll>>

-----------------------------------------------------------------------------
(* The polls: await.                                                        *)

\* Each poll has a new channel.
Subscribe(p) ==
  /\ poll[p] = "idle"
  /\ poll' = [poll EXCEPT ![p] = "reading"]
  /\ waiters' = [waiters EXCEPT ![TransferOf[p]] = @ \cup {p}]
  /\ signal' = signal \ {p}
  /\ UNCHANGED <<changes, listener, inbox, drops>>

Unsubscribe(p) == waiters' = [waiters EXCEPT ![TransferOf[p]] = @ \ {p}]

Read(p) ==
  /\ poll[p] = "reading"
  /\ \/ /\ changes[TransferOf[p]] = MaxChanges
        /\ poll' = [poll EXCEPT ![p] = "done"]
        /\ Unsubscribe(p)
     \/ /\ changes[TransferOf[p]] < MaxChanges
        /\ poll' = [poll EXCEPT ![p] = "looked"]
        /\ UNCHANGED waiters
  /\ UNCHANGED <<changes, listener, inbox, signal, drops>>

\* From here on the poll selects on its channel and its timer.
Wait(p) ==
  /\ poll[p] = "looked"
  /\ poll' = [poll EXCEPT ![p] = "waiting"]
  /\ UNCHANGED <<changes, listener, inbox, waiters, signal, drops>>

Wakes(p) ==
  /\ poll[p] = "waiting"
  /\ p \in signal
  /\ signal' = signal \ {p}
  /\ poll' = [poll EXCEPT ![p] = "reading"]
  /\ UNCHANGED <<changes, listener, inbox, waiters, drops>>

\* Mutant: only while nobody listens.
RecheckWhenDown(p) ==
  /\ listener = "down"
  /\ poll[p] = "waiting"
  /\ poll' = [poll EXCEPT ![p] = "reading"]
  /\ UNCHANGED <<changes, listener, inbox, waiters, signal, drops>>
Recheck(p) ==
  /\ poll[p] = "waiting"
  /\ poll' = [poll EXCEPT ![p] = "reading"]
  /\ UNCHANGED <<changes, listener, inbox, waiters, signal, drops>>

\* The poll's window passed, or its client went away; the next poll of the
\* client is a new one.
Leave(p) ==
  /\ poll[p] = "waiting"
  /\ poll' = [poll EXCEPT ![p] = "idle"]
  /\ Unsubscribe(p)
  /\ UNCHANGED <<changes, listener, inbox, signal, drops>>

EventsNext ==
  \/ \E t \in Transfers : Change(t)
  \/ Listen \/ wakeAll \/ wake \/ Drop
  \/ \E p \in Polls : Subscribe(p) \/ Read(p) \/ Wait(p) \/ Wakes(p) \/ Recheck(p) \/ Leave(p)

EventsSpec == EventsInit /\ [][EventsNext]_events

\* A poll goes on when it can.
PollsGoOn == \A p \in Polls : WF_events(Read(p)) /\ WF_events(Wait(p)) /\ WF_events(Wakes(p))
\* Run comes back as long as its process lives.
ListenerRuns == WF_events(Listen) /\ WF_events(wakeAll) /\ WF_events(wake)
TimerFires == \A p \in Polls : WF_events(Recheck(p))

\* Either of the two ways to learn of a change may be out of order for good,
\* the listener cut off or the timer too slow to matter, but not both.
FairEvents == EventsSpec /\ PollsGoOn /\ (ListenerRuns \/ TimerFires)

-----------------------------------------------------------------------------
(* Properties.                                                              *)

Missed(p) == poll[p] \in {"looked", "waiting"} /\ changes[TransferOf[p]] = MaxChanges

\* No lost wake-up: a poll that sleeps although what it waits for is there has
\* a signal, or one is on its way, or the listener will wake everyone.
NoLostWakeup ==
  \A p \in Polls : Missed(p) =>
    \/ p \in signal
    \/ \E i \in 1..Len(inbox) : inbox[i] = TransferOf[p]
    \/ listener # "waiting"

\* A poll does not sleep through the change it waits for: notifications alone
\* wake it, and so does the re-check alone when the listener stays down.
PollSeesChange == \A p \in Polls : Missed(p) ~> ~Missed(p)
=============================================================================
