----------------------------- MODULE Broadcaster -----------------------------
(***************************************************************************)
(* internal/sse and the goroutines that use it: handlers that publish the  *)
(* events of committed changes, stream handlers that subscribe, receive    *)
(* and unsubscribe, and the shutdown that closes the broadcaster while     *)
(* both may still run.                                                     *)
(*                                                                         *)
(* Steps under the lock that only its holder sees are one step; a channel  *)
(* is seen without the lock by the stream that receives from it.           *)
(***************************************************************************)
EXTENDS RWMutex, Naturals, Sequences

CONSTANTS
  Publishers,   \* goroutines that serve requests which change something
  Streams,      \* goroutines that serve GET /stream
  Closer,       \* the goroutine of serveCmd
  Cap,          \* capacity of a client's channel (64)
  MaxEvents,    \* bound on the events published
  MaxID         \* bound on the subscriptions made

Threads == Publishers \cup Streams \cup {Closer}
Events  == 1 .. MaxEvents
Ids     == 1 .. MaxID
NoID    == 0

ASSUME BroadcasterAssumption ==
  /\ Cap \in Nat \ {0} /\ MaxEvents \in Nat /\ MaxID \in Nat
  /\ NoWriter \notin Threads
  /\ Publishers \cap Streams = {} /\ Closer \notin Publishers \cup Streams

VARIABLES
  clients,    \* the ids of the map's channels
  nextID,     \* the ids given out
  buffer,     \* buffer[i]: the events in channel i
  closed,     \* the channels that are closed
  panicked,   \* a goroutine sent to, or closed, a closed channel
  pc,         \* what each goroutine is doing
  sub,        \* sub[s]: the id of the subscription of stream s
  event,      \* event[p]: the event p publishes, 0 when it does not
  offered,    \* offered[p]: the channels p's range over the map has come to
  at,         \* at[p]: the one it is at, NoID between two
  events,     \* the events published
  received    \* received[i]: what was received from channel i

channels  == <<clients, nextID, buffer, closed, panicked, received>>
publisher == <<event, offered, at, events>>
vars      == <<lock, channels, publisher, pc, sub>>

Init ==
  /\ InitLock
  /\ clients = {} /\ nextID = 0 /\ closed = {} /\ panicked = FALSE /\ events = 0
  /\ buffer = [i \in Ids |-> <<>>] /\ received = [i \in Ids |-> <<>>]
  /\ pc = [t \in Threads |-> "idle"]
  /\ sub = [s \in Streams |-> NoID]
  /\ event = [p \in Publishers |-> 0] /\ at = [p \in Publishers |-> NoID]
  /\ offered = [p \in Publishers |-> {}]

Goto(t, l) == pc' = [pc EXCEPT ![t] = l]

-----------------------------------------------------------------------------
(* Publish. *)

\* Called with the next event (bound: MaxEvents), it takes the read lock.
Publish(p) ==
  /\ pc[p] = "idle" /\ events < MaxEvents
  /\ events' = events + 1
  /\ event' = [event EXCEPT ![p] = events + 1]
  /\ RLock(p) /\ Goto(p, "publish")
  /\ UNCHANGED <<channels, offered, at, sub>>

\* Mutant: a channel may come up again.
AheadAgain(p) == clients

\* The channels that the range over the map has still to come to.
Ahead(p) == clients \ offered[p]

NextChannel(p) ==
  /\ pc[p] = "publish" /\ p \in readers /\ at[p] = NoID
  /\ \E i \in Ahead(p) : /\ at' = [at EXCEPT ![p] = i]
                         /\ offered' = [offered EXCEPT ![p] = @ \cup {i}]
  /\ UNCHANGED <<lock, channels, event, events, pc, sub>>

Full(i) == Len(buffer[i]) >= Cap

\* Mutant: the send waits for room, a plain ch <- event.
SelectBlocking(i, e) == ~Full(i) /\ buffer' = [buffer EXCEPT ![i] = Append(@, e)]

\* Mutant: a full channel loses its oldest event.
SelectOldest(i, e) ==
  buffer' = [buffer EXCEPT ![i] = Append(IF Full(i) THEN Tail(@) ELSE @, e)]

\* The select drops the event when the channel is full.
Select(i, e) ==
  IF i \in closed \/ Full(i) THEN UNCHANGED buffer
  ELSE buffer' = [buffer EXCEPT ![i] = Append(@, e)]

Send(p) ==
  /\ pc[p] = "publish" /\ at[p] # NoID
  /\ panicked' = (panicked \/ at[p] \in closed)
  /\ Select(at[p], event[p])
  /\ at' = [at EXCEPT ![p] = NoID]
  /\ UNCHANGED <<lock, clients, nextID, closed, received, event, offered, events, pc, sub>>

PublishReturns(p) ==
  /\ pc[p] = "publish" /\ p \in readers /\ at[p] = NoID
  /\ clients \subseteq offered[p]
  /\ event' = [event EXCEPT ![p] = 0] /\ offered' = [offered EXCEPT ![p] = {}]
  /\ RUnlock(p) /\ Goto(p, "idle")
  /\ UNCHANGED <<channels, at, events, sub>>

-----------------------------------------------------------------------------
(* Subscribe, the stream's loop, and unsub. *)

\* Subscribe makes the channel and its id, and calls Lock (bound: MaxID).
Subscribe(s) ==
  /\ pc[s] = "idle" /\ nextID < MaxID
  /\ nextID' = nextID + 1
  /\ sub' = [sub EXCEPT ![s] = nextID + 1]
  /\ Goto(s, "subscribe")
  /\ UNCHANGED <<lock, publisher, clients, buffer, closed, panicked, received>>

\* A goroutine in Lock becomes the next writer.
Lock(t) ==
  /\ pc[t] \in {"subscribe", "unsub", "close"}
  /\ Announce(t)
  /\ UNCHANGED <<channels, publisher, pc, sub>>

Register(s) ==
  /\ pc[s] = "subscribe" /\ Holds(s)
  /\ clients' = clients \cup {sub[s]}
  /\ Unlock(s) /\ Goto(s, "stream")
  /\ UNCHANGED <<nextID, buffer, closed, panicked, received, publisher, sub>>

\* Mutant: what a closed channel yields is taken for an event (no ok).
ReceiveZero(s) ==
  LET i == sub[s] IN
  /\ pc[s] = "stream" /\ (buffer[i] # <<>> \/ i \in closed)
  /\ received' = [received EXCEPT ![i] =
                    Append(@, IF buffer[i] = <<>> THEN 0 ELSE Head(buffer[i]))]
  /\ buffer' = [buffer EXCEPT ![i] = IF @ = <<>> THEN @ ELSE Tail(@)]
  /\ UNCHANGED <<lock, clients, nextID, closed, panicked, publisher, pc, sub>>

Receive(s) ==
  LET i == sub[s] IN
  /\ pc[s] = "stream" /\ buffer[i] # <<>>
  /\ received' = [received EXCEPT ![i] = Append(@, Head(buffer[i]))]
  /\ buffer' = [buffer EXCEPT ![i] = Tail(@)]
  /\ UNCHANGED <<lock, clients, nextID, closed, panicked, publisher, pc, sub>>

\* The client is gone, or the channel is closed and empty: the deferred unsub.
Leave(s) ==
  /\ pc[s] = "stream"
  /\ Goto(s, "unsub")
  /\ UNCHANGED <<lock, channels, publisher, sub>>

CloseChannel(i) == closed' = closed \cup {i} /\ panicked' = (panicked \/ i \in closed)

\* Mutant: the channel is closed whether or not it is still in the map.
RemoveTwice(i) == clients' = clients \ {i} /\ CloseChannel(i)

\* Mutant: the channel stays in the map.
RemoveLeaving(i) ==
  /\ IF i \in clients THEN CloseChannel(i) ELSE UNCHANGED <<closed, panicked>>
  /\ UNCHANGED clients

Remove(i) ==
  IF i \in clients THEN clients' = clients \ {i} /\ CloseChannel(i)
  ELSE UNCHANGED <<clients, closed, panicked>>

Unsub(s) ==
  /\ pc[s] = "unsub" /\ Holds(s)
  /\ Remove(sub[s])
  /\ Unlock(s) /\ Goto(s, "idle")
  /\ sub' = [sub EXCEPT ![s] = NoID]
  /\ UNCHANGED <<nextID, buffer, received, publisher>>

-----------------------------------------------------------------------------
(* Close. *)

Shutdown ==
  /\ pc[Closer] = "idle" /\ Goto(Closer, "close")
  /\ UNCHANGED <<lock, channels, publisher, sub>>

CloseOne ==
  /\ pc[Closer] = "close" /\ Holds(Closer)
  /\ \E i \in clients : CloseChannel(i) /\ clients' = clients \ {i}
  /\ UNCHANGED <<lock, nextID, buffer, received, publisher, pc, sub>>

CloseReturns ==
  /\ pc[Closer] = "close" /\ Holds(Closer) /\ clients = {}
  /\ Unlock(Closer) /\ Goto(Closer, "closed")
  /\ UNCHANGED <<channels, publisher, sub>>

-----------------------------------------------------------------------------
(* Behaviour. *)

\* What a goroutine does in Publish, Lock, unsub and Close, once called.
Working(t) ==
  \/ Lock(t)
  \/ t \in Publishers /\ (NextChannel(t) \/ Send(t) \/ PublishReturns(t))
  \/ t \in Streams /\ (Register(t) \/ Unsub(t))
  \/ t = Closer /\ (CloseOne \/ CloseReturns)

Next == \/ \E p \in Publishers : Publish(p)
        \/ \E s \in Streams : Subscribe(s) \/ Receive(s) \/ Leave(s)
        \/ Shutdown
        \/ \E t \in Threads : Working(t)

Spec == Init /\ [][Next]_vars

-----------------------------------------------------------------------------
(* Properties. *)

\* What channel i has been sent.
Sent(i) == received[i] \o buffer[i]

\* p finds the channel full that it is at.
Drops(p) == at[p] # NoID /\ at'[p] = NoID /\ Full(at[p])

BroadcasterTypes ==
  /\ readers \subseteq Publishers /\ blocked \subseteq Publishers
  /\ writer \in Streams \cup {Closer, NoWriter}
  /\ clients \subseteq Ids /\ nextID \in 0 .. MaxID /\ closed \subseteq Ids
  /\ panicked \in BOOLEAN
  /\ buffer \in [Ids -> Seq(Events)] /\ received \in [Ids -> Seq(Events)]
  /\ pc \in [Threads -> {"idle", "publish", "subscribe", "stream", "unsub", "close", "closed"}]
  /\ sub \in [Streams -> Ids \cup {NoID}]
  /\ event \in [Publishers -> 0 .. MaxEvents] /\ at \in [Publishers -> Ids \cup {NoID}]
  /\ offered \in [Publishers -> SUBSET Ids] /\ events \in 0 .. MaxEvents

\* No goroutine sends to a closed channel or closes one twice, whatever unsub,
\* Close and Publish do to the same client at once (broadcaster.go:40-47, 58-64,
\* 78-81; broadcaster_test.go:45 and :56 try one goroutine at a time).
NoPanic == ~panicked

\* Every channel in the map belongs to a stream that is still served: none
\* is left behind by unsub or Close (broadcaster_test.go:9 and :32).
NoneLeaked == \A i \in clients : \E s \in Streams : sub[s] = i /\ pc[s] # "idle"
=============================================================================
