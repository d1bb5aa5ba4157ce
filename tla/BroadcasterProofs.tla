------------------------- MODULE BroadcasterProofs --------------------------
(***************************************************************************)
(* The broadcaster never panics and never keeps the channel of a stream    *)
(* that is gone, for any number of publishers, streams and subscriptions   *)
(* and any capacity.                                                       *)
(*                                                                         *)
(* A channel leaves the map in the locked section that closes it, so the   *)
(* map holds open channels only; a publisher that has come to a channel    *)
(* holds the read lock, so that no locked section runs until it has sent;  *)
(* and the id of a stream that is still to register is nobody else's.      *)
(***************************************************************************)
EXTENDS Broadcaster, TLAPS, SequenceTheorems

Labels == {"idle", "publish", "subscribe", "stream", "unsub", "close", "closed"}

Types == /\ readers \subseteq Publishers /\ blocked \subseteq Publishers
         /\ clients \subseteq 1 .. nextID /\ closed \subseteq 1 .. nextID
         /\ nextID \in 0 .. MaxID
         /\ pc \in [Threads -> Labels]
         /\ sub \in [Streams -> 0 .. nextID]
         /\ at \in [Publishers -> Ids \cup {NoID}]

\* A publisher that is between NextChannel and Send.
Sending == \A p \in Publishers : at[p] # NoID => p \in readers /\ at[p] \in clients

\* No id is given out twice.
OwnIds == /\ \A s, t \in Streams : sub[s] = sub[t] /\ s # t => sub[s] = NoID
          /\ \A s \in Streams : pc[s] = "subscribe" =>
                  sub[s] # NoID /\ sub[s] \notin clients \cup closed

\* Every channel in the map has a stream.
HasStream == \A i \in clients : \E s \in Streams : sub[s] = i /\ pc[s] \in {"stream", "unsub"}

BroadcastInv == /\ Types /\ Sending /\ OwnIds /\ HasStream
        /\ clients \cap closed = {}
        /\ ~panicked

-----------------------------------------------------------------------------
(* Steps. *)

\* Publish and its range under the read lock.
LEMMA PublisherSteps ==
  ASSUME BroadcastInv, NEW p \in Publishers,
         Publish(p) \/ NextChannel(p) \/ Send(p) \/ PublishReturns(p)
  PROVE  BroadcastInv'
<1> USE BroadcasterAssumption DEF BroadcastInv, Threads, Ids, NoID
<1>1. CASE Publish(p)
  <2>1. Types'
    BY <1>1 DEF Types, Labels, Publish, RLock, Goto, channels
  <2>2. Sending'
    BY <1>1 DEF Types, Labels, Sending, Publish, RLock, channels
  <2>3. OwnIds' /\ HasStream'
    BY <1>1 DEF Types, Labels, OwnIds, HasStream, Publish, Goto, channels
  <2> QED BY <1>1, <2>1, <2>2, <2>3 DEF Publish, channels
<1>2. CASE NextChannel(p)
  <2>1. Types'
    BY <1>2 DEF Types, Labels, NextChannel, Ahead, lock, channels
  <2>2. Sending'
    BY <1>2 DEF Types, Labels, Sending, NextChannel, Ahead, lock, channels
  <2>3. OwnIds' /\ HasStream'
    BY <1>2 DEF OwnIds, HasStream, NextChannel, channels
  <2> QED BY <1>2, <2>1, <2>2, <2>3 DEF NextChannel, channels
<1>3. CASE Send(p)
  <2>1. Types'
    BY <1>3 DEF Types, Labels, Send, Select, lock
  <2>2. Sending'
    BY <1>3 DEF Types, Labels, Sending, Send, lock
  <2>3. OwnIds' /\ HasStream'
    BY <1>3 DEF OwnIds, HasStream, Send
  <2>4. ~panicked'
    BY <1>3 DEF Sending, Send
  <2> QED BY <1>3, <2>1, <2>2, <2>3, <2>4 DEF Send
<1>4. CASE PublishReturns(p)
  <2>1. Types'
    BY <1>4 DEF Types, Labels, PublishReturns, RUnlock, Goto, channels, publisher
  <2>2. Sending'
    BY <1>4 DEF Types, Labels, Sending, PublishReturns, RUnlock, channels, publisher
  <2>3. OwnIds' /\ HasStream'
    BY <1>4 DEF Types, Labels, OwnIds, HasStream, PublishReturns, Goto, channels
  <2> QED BY <1>4, <2>1, <2>2, <2>3 DEF PublishReturns, channels
<1> QED BY <1>1, <1>2, <1>3, <1>4

\* What a stream does without the write lock.
LEMMA StreamSteps ==
  ASSUME BroadcastInv, NEW s \in Streams, Subscribe(s) \/ Receive(s) \/ Leave(s)
  PROVE  BroadcastInv'
<1> USE BroadcasterAssumption DEF BroadcastInv, Threads, Ids, NoID
<1>1. CASE Subscribe(s)
  <2>1. Types'
    BY <1>1 DEF Types, Labels, Subscribe, lock, publisher, Goto
  <2>2. Sending'
    BY <1>1 DEF Sending, Subscribe, lock, publisher
  <2>3. OwnIds'
    BY <1>1 DEF Types, Labels, OwnIds, Subscribe, Goto
  <2>4. HasStream'
    BY <1>1 DEF Types, Labels, HasStream, Subscribe, Goto
  <2> QED BY <1>1, <2>1, <2>2, <2>3, <2>4 DEF Subscribe
<1>2. CASE Receive(s)
  <2>1. Types' /\ Sending'
    BY <1>2 DEF Types, Labels, Sending, Receive, lock, publisher
  <2>2. OwnIds' /\ HasStream'
    BY <1>2 DEF OwnIds, HasStream, Receive
  <2> QED BY <1>2, <2>1, <2>2 DEF Receive
<1>3. CASE Leave(s)
  <2>1. Types' /\ Sending'
    BY <1>3 DEF Types, Labels, Sending, Leave, Goto, lock, channels, publisher
  <2>2. OwnIds' /\ HasStream'
    BY <1>3 DEF Types, Labels, OwnIds, HasStream, Leave, Goto, channels
  <2> QED BY <1>3, <2>1, <2>2 DEF Leave, channels
<1> QED BY <1>1, <1>2, <1>3

\* While the write lock is held, no publisher is sending.
LEMMA LockedIsQuiet ==
  ASSUME BroadcastInv, NEW t, Holds(t)
  PROVE  \A p \in Publishers : at[p] = NoID
BY DEF BroadcastInv, Sending, Holds

\* The locked sections, the lock itself and the call of Close.
LEMMA LockedSteps ==
  ASSUME BroadcastInv,
         \/ \E t \in Threads : Lock(t)
         \/ \E s \in Streams : Register(s) \/ Unsub(s)
         \/ Shutdown \/ CloseOne \/ CloseReturns
  PROVE  BroadcastInv'
<1> USE BroadcasterAssumption DEF BroadcastInv, Threads, Ids, NoID
<1>1. ASSUME NEW t \in Threads, Lock(t) PROVE BroadcastInv'
  <2>1. Types' /\ Sending'
    BY <1>1 DEF Types, Labels, Sending, Lock, Announce, channels, publisher
  <2>2. OwnIds' /\ HasStream'
    BY <1>1 DEF OwnIds, HasStream, Lock, channels
  <2> QED BY <1>1, <2>1, <2>2 DEF Lock, channels
<1>2. ASSUME NEW s \in Streams, Register(s) PROVE BroadcastInv'
  <2>0. \A p \in Publishers : at[p] = NoID
    BY <1>2, LockedIsQuiet DEF Register
  <2>1. Types'
    <3>1. sub[s] \in 1 .. nextID
      BY <1>2 DEF Types, OwnIds, Register
    <3>2. (readers \subseteq Publishers /\ blocked \subseteq Publishers)'
      BY <1>2 DEF Types, Register, Unlock
    <3>3. pc' \in [Threads -> Labels]
      BY <1>2 DEF Types, Labels, Register, Goto
    <3> QED BY <1>2, <3>1, <3>2, <3>3 DEF Types, Register, publisher
  <2>2. Sending'
    BY <1>2, <2>0 DEF Sending, Register, publisher
  <2>3. OwnIds'
    BY <1>2 DEF Types, Labels, OwnIds, Register, Goto
  <2>4. HasStream'
    BY <1>2 DEF Types, Labels, HasStream, Register, Goto
  <2>5. (clients \cap closed = {})'
    BY <1>2 DEF OwnIds, Register
  <2> QED BY <1>2, <2>1, <2>2, <2>3, <2>4, <2>5 DEF Register
<1>3. ASSUME NEW s \in Streams, Unsub(s) PROVE BroadcastInv'
  <2>0. \A p \in Publishers : at[p] = NoID
    BY <1>3, LockedIsQuiet DEF Unsub
  <2>1. Types'
    <3>1. (readers \subseteq Publishers /\ blocked \subseteq Publishers)'
      BY <1>3 DEF Types, Unsub, Unlock
    <3>2. pc' \in [Threads -> Labels]
      BY <1>3 DEF Types, Labels, Unsub, Goto
    <3>3. (clients \subseteq 1 .. nextID /\ closed \subseteq 1 .. nextID)'
      <4>1. sub[s] \in clients => sub[s] \in 1 .. nextID
        BY DEF Types
      <4>2. /\ clients' \subseteq clients /\ nextID' = nextID
            /\ closed' \subseteq closed \cup (clients \cap {sub[s]})
        BY <1>3 DEF Unsub, Remove, CloseChannel
      <4> QED BY <4>1, <4>2 DEF Types
    <3>4. sub' \in [Streams -> 0 .. nextID]
      BY <1>3 DEF Types, Unsub
    <3> QED BY <1>3, <3>1, <3>2, <3>3, <3>4 DEF Types, Unsub, publisher
  <2>2. Sending'
    BY <1>3, <2>0 DEF Sending, Unsub, publisher
  <2>3. OwnIds'
    BY <1>3 DEF Types, Labels, OwnIds, Unsub, Remove, CloseChannel, Goto
  <2>4. HasStream'
    <3> SUFFICES ASSUME NEW i \in clients'
                 PROVE  \E t \in Streams : sub'[t] = i /\ pc'[t] \in {"stream", "unsub"}
      BY DEF HasStream
    <3>1. i \in clients /\ i # sub[s]
      BY <1>3 DEF Unsub, Remove
    <3>2. PICK t \in Streams : sub[t] = i /\ pc[t] \in {"stream", "unsub"}
      BY <3>1 DEF HasStream
    <3>3. sub'[t] = sub[t] /\ pc'[t] = pc[t]
      BY <1>3, <3>1, <3>2 DEF Types, Unsub, Goto
    <3> QED BY <3>2, <3>3
  <2>5. (clients \cap closed = {})' /\ ~panicked'
    BY <1>3 DEF Unsub, Remove, CloseChannel
  <2> QED BY <2>1, <2>2, <2>3, <2>4, <2>5
<1>4. CASE Shutdown
  <2>1. Types' /\ Sending'
    BY <1>4 DEF Types, Labels, Sending, Shutdown, Goto, lock, channels, publisher
  <2>2. OwnIds' /\ HasStream'
    BY <1>4 DEF Types, Labels, OwnIds, HasStream, Shutdown, Goto, channels
  <2> QED BY <1>4, <2>1, <2>2 DEF Shutdown, channels
<1>5. CASE CloseOne
  <2>0. \A p \in Publishers : at[p] = NoID
    BY <1>5, LockedIsQuiet DEF CloseOne
  <2>1. PICK i \in clients : CloseChannel(i) /\ clients' = clients \ {i}
    BY <1>5 DEF CloseOne
  <2>2. Types' /\ Sending'
    BY <1>5, <2>0, <2>1 DEF Types, Sending, CloseOne, CloseChannel, lock, publisher
  <2>3. OwnIds' /\ HasStream'
    BY <1>5, <2>1 DEF OwnIds, HasStream, CloseOne, CloseChannel
  <2> QED BY <2>1, <2>2, <2>3 DEF CloseChannel
<1>6. CASE CloseReturns
  <2>0. \A p \in Publishers : at[p] = NoID
    BY <1>6, LockedIsQuiet DEF CloseReturns
  <2>1. Types' /\ Sending'
    BY <1>6, <2>0 DEF Types, Labels, Sending, CloseReturns, Unlock, Goto, channels, publisher
  <2>2. OwnIds' /\ HasStream'
    BY <1>6 DEF Types, Labels, OwnIds, HasStream, CloseReturns, Goto, channels
  <2> QED BY <1>6, <2>1, <2>2 DEF CloseReturns, channels
<1> QED BY <1>1, <1>2, <1>3, <1>4, <1>5, <1>6

-----------------------------------------------------------------------------
(* Theorems. *)

\* Every step of the specification keeps the invariant.
LEMMA BroadcastInvariant ==
  /\ Init => BroadcastInv
  /\ BroadcastInv /\ [Next]_vars => BroadcastInv'
<1>1. Init => BroadcastInv
  BY BroadcasterAssumption
  DEF Init, InitLock, BroadcastInv, Types, Labels, Sending, OwnIds, HasStream, Threads, NoID, Ids
<1>2. ASSUME BroadcastInv, [Next]_vars PROVE BroadcastInv'
  <2>1. CASE Next
    BY <1>2, <2>1, PublisherSteps, StreamSteps, LockedSteps DEF Next, Working, Threads
  <2>2. CASE UNCHANGED vars
    BY <1>2, <2>2 DEF vars, lock, channels, publisher, BroadcastInv, Types, Sending, OwnIds, HasStream
  <2> QED BY <1>2, <2>1, <2>2
<1> QED BY <1>1, <1>2

\* What it says of a client that a reader cares about.
LEMMA SafeFromInvariant == BroadcastInv => NoPanic /\ NoneLeaked
BY DEF BroadcastInv, HasStream, NoPanic, NoneLeaked

\* No goroutine ever sends to a closed channel or closes one twice, however
\* many clients, publishers and subscriptions there are (broadcaster.go:40-47,
\* 58-64, 78-81).
THEOREM NeverPanics == Spec => []NoPanic
BY BroadcastInvariant, SafeFromInvariant, PTL DEF Spec

\* The map never keeps the channel of a stream that has returned: the deferred
\* unsub and Close leave none behind (stream.go:21).
THEOREM NeverLeaks == Spec => []NoneLeaked
BY BroadcastInvariant, SafeFromInvariant, PTL DEF Spec
-----------------------------------------------------------------------------
(* What publishers and channels hold. *)

\* The calls of Publish that are under way.
Calls ==
  \A p \in Publishers :
    /\ pc[p] \in {"idle", "publish"}
    /\ pc[p] = "publish" => event[p] \in 1 .. events
    /\ pc[p] = "idle" => event[p] = 0 /\ offered[p] = {} /\ at[p] = NoID
    /\ at[p] # NoID => at[p] \in offered[p]
    /\ offered[p] # {} => p \in readers

CallsInv == BroadcasterTypes /\ Calls

\* Receiving moves an event from the channel to what was received.
LEMMA ReceiveKeepsSent ==
  ASSUME NEW S, NEW r \in Seq(S), NEW b \in Seq(S), b # <<>>
  PROVE  Append(r, Head(b)) \o Tail(b) = r \o b
<1>1. Head(b) \in S /\ Tail(b) \in Seq(S) /\ b = <<Head(b)>> \o Tail(b)
  BY HeadTailProperties, ConcatProperties, SequenceEmptyOrAppend, SMT
<1>2. Append(r, Head(b)) = r \o <<Head(b)>>
  BY <1>1, AppendIsConcat
<1>3. <<Head(b)>> \in Seq(S)
  BY <1>1
<1> QED BY <1>1, <1>2, <1>3, ConcatAssociative

\* Sending appends.
LEMMA SendAppends ==
  ASSUME NEW S, NEW r \in Seq(S), NEW b \in Seq(S), NEW e \in S
  PROVE  r \o Append(b, e) = Append(r \o b, e)
<1>1. b \o <<e>> = Append(b, e) /\ (r \o b) \o <<e>> = Append(r \o b, e)
  BY AppendIsConcat, ConcatProperties
<1>2. <<e>> \in Seq(S)
  OBVIOUS
<1> QED BY <1>1, <1>2, ConcatAssociative

\* Sent(i) is a sequence of events.
LEMMA SentIsSeq ==
  ASSUME BroadcasterTypes, NEW i \in Ids
  PROVE  /\ received[i] \in Seq(Events) /\ buffer[i] \in Seq(Events)
         /\ Sent(i) \in Seq(Events)
BY ConcatProperties DEF BroadcasterTypes, Sent

\* What a send does to a channel that takes it: one event more at the end.
LEMMA SentAppends ==
  ASSUME BroadcasterTypes, NEW i \in Ids, NEW e \in Events
  PROVE  received[i] \o Append(buffer[i], e) = Append(received[i] \o buffer[i], e)
<1> DEFINE r == received[i]
           b == buffer[i]
<1>1. r \in Seq(Events) /\ b \in Seq(Events)
  BY SentIsSeq
<1> HIDE DEF r, b
<1>2. r \o Append(b, e) = Append(r \o b, e)
  BY <1>1, SendAppends
<1> QED BY <1>2 DEF r, b

Got(i, e) == \E n \in DOMAIN Sent(i) : Sent(i)[n] = e

LEMMA TypePublisher ==
  ASSUME BroadcasterTypes, NEW p \in Publishers, Calls,
         Publish(p) \/ NextChannel(p) \/ Send(p) \/ PublishReturns(p)
  PROVE  BroadcasterTypes'
<1> USE BroadcasterAssumption DEF BroadcasterTypes, Threads, Ids, NoID, Events
<1>1. CASE Publish(p)
  <2>1. events' \in 0 .. MaxEvents /\ event' \in [Publishers -> 0 .. MaxEvents]
    BY <1>1 DEF Publish
  <2>2. pc' \in [Threads -> Labels]
    BY <1>1 DEF Publish, Goto, Labels
  <2>3. (readers \subseteq Publishers /\ blocked \subseteq Publishers)' /\ UNCHANGED writer
    BY <1>1 DEF Publish, RLock
  <2> QED BY <1>1, <2>1, <2>2, <2>3 DEF Publish, Labels, channels
<1>2. CASE NextChannel(p)
  <2>1. PICK i \in Ahead(p) : /\ at' = [at EXCEPT ![p] = i]
                              /\ offered' = [offered EXCEPT ![p] = @ \cup {i}]
    BY <1>2 DEF NextChannel
  <2>2. i \in Ids
    BY DEF Ahead
  <2>3. at' \in [Publishers -> Ids \cup {NoID}] /\ offered' \in [Publishers -> SUBSET Ids]
    BY <2>1, <2>2
  <2> QED BY <1>2, <2>3 DEF NextChannel, lock, channels
<1>3. CASE Send(p)
  <2>1. event[p] \in Events /\ at[p] \in Ids
    BY <1>3 DEF Calls, Send
  <2>2. buffer' \in [Ids -> Seq(Events)]
    <3>1. Append(buffer[at[p]], event[p]) \in Seq(Events)
      BY <2>1, AppendProperties
    <3>2. \/ buffer' = buffer
          \/ buffer' = [buffer EXCEPT ![at[p]] = Append(@, event[p])]
      BY <1>3 DEF Send, Select
    <3> QED BY <2>1, <3>1, <3>2
  <2>3. panicked' \in BOOLEAN
    BY <1>3, Zenon DEF Send
  <2> QED BY <1>3, <2>2, <2>3 DEF Send, lock
<1>4. CASE PublishReturns(p)
  BY <1>4 DEF PublishReturns, RUnlock, Goto, channels
<1> QED BY <1>1, <1>2, <1>3, <1>4

LEMMA TypeStream ==
  ASSUME BroadcasterTypes, NEW s \in Streams, BroadcastInv,
         Subscribe(s) \/ Register(s) \/ Receive(s) \/ Leave(s) \/ Unsub(s)
  PROVE  BroadcasterTypes'
<1> USE BroadcasterAssumption DEF BroadcasterTypes, Threads, Ids, NoID
<1>1. CASE Subscribe(s)
  <2>1. sub' \in [Streams -> Ids \cup {NoID}] /\ nextID' \in 0 .. MaxID
    BY <1>1 DEF Subscribe
  <2>2. pc' \in [Threads -> Labels]
    BY <1>1 DEF Subscribe, Goto, Labels
  <2> QED BY <1>1, <2>1, <2>2 DEF Subscribe, Labels, lock, publisher
<1>2. CASE Register(s)
  <2>1. sub[s] \in Ids
    BY <1>2 DEF Register, BroadcastInv, OwnIds
  <2>2. pc' \in [Threads -> Labels]
    BY <1>2 DEF Register, Goto, Labels
  <2> QED BY <1>2, <2>1, <2>2 DEF Register, Labels, Unlock, publisher
<1>3. CASE Receive(s)
  <2>1. sub[s] \in Ids => received'[sub[s]] \in Seq(Events) /\ buffer'[sub[s]] \in Seq(Events)
    BY <1>3, HeadTailProperties DEF Receive
  <2>2. buffer' \in [Ids -> Seq(Events)] /\ received' \in [Ids -> Seq(Events)]
    BY <1>3, <2>1 DEF Receive
  <2> QED BY <1>3, <2>2 DEF Receive, lock, publisher
<1>4. CASE Leave(s)
  BY <1>4 DEF Leave, Goto, lock, channels, publisher
<1>5. CASE Unsub(s)
  <2>1. clients' \subseteq Ids /\ closed' \subseteq Ids
    <3>1. CASE sub[s] \in clients
      <4>1. clients' = clients \ {sub[s]} /\ closed' = closed \cup {sub[s]}
        BY <1>5, <3>1, Zenon DEF Unsub, Remove, CloseChannel
      <4> QED BY <3>1, <4>1
    <3>2. CASE sub[s] \notin clients
      BY <1>5, <3>2 DEF Unsub, Remove
    <3> QED BY <3>1, <3>2
  <2>2. panicked' \in BOOLEAN
    BY <1>5, Zenon DEF Unsub, Remove, CloseChannel
  <2> QED BY <1>5, <2>1, <2>2 DEF Unsub, Unlock, Goto, publisher
<1> QED BY <1>1, <1>2, <1>3, <1>4, <1>5

LEMMA TypeClose ==
  ASSUME BroadcasterTypes, Calls, (\E t \in Threads : Lock(t)) \/ Shutdown \/ CloseOne \/ CloseReturns
  PROVE  BroadcasterTypes'
<1> USE BroadcasterAssumption DEF BroadcasterTypes, Threads, Ids, NoID
<1>1. ASSUME NEW t \in Threads, Lock(t) PROVE BroadcasterTypes'
  <2>1. t \notin Publishers
    BY <1>1 DEF Lock, Calls
  <2> QED BY <1>1, <2>1 DEF Lock, Announce, channels, publisher
<1>2. CASE Shutdown
  BY <1>2 DEF Shutdown, Goto, lock, channels, publisher
<1>3. CASE CloseOne
  <2>1. PICK i \in clients : CloseChannel(i) /\ clients' = clients \ {i}
    BY <1>3 DEF CloseOne
  <2> QED BY <1>3, <2>1 DEF CloseOne, CloseChannel, lock, publisher
<1>4. CASE CloseReturns
  BY <1>4 DEF CloseReturns, Unlock, Goto, channels, publisher
<1> QED BY <1>1, <1>2, <1>3, <1>4

LEMMA CallsInit == Init => CallsInv
<1> SUFFICES ASSUME Init PROVE CallsInv
  OBVIOUS
<1>1. BroadcasterTypes
  <2>1. buffer \in [Ids -> Seq(Events)] /\ received \in [Ids -> Seq(Events)]
    BY EmptySeq DEF Init
  <2>2. panicked \in BOOLEAN
    BY Zenon DEF Init
  <2>3. /\ offered \in [Publishers -> SUBSET Ids]
        /\ nextID \in 0 .. MaxID /\ events \in 0 .. MaxEvents
        /\ event \in [Publishers -> 0 .. MaxEvents]
    BY BroadcasterAssumption DEF Init
  <2> QED BY <2>1, <2>2, <2>3 DEF Init, InitLock, BroadcasterTypes, Threads, NoID
<1>2. Calls
  BY BroadcasterAssumption DEF Init, Calls, Threads, NoID
<1> QED BY <1>1, <1>2 DEF CallsInv

\* What goroutines that do not publish leave alone.
LEMMA OthersStep ==
  ASSUME BroadcastInv, CallsInv,
         \/ \E t \in Threads : Lock(t)
         \/ \E s \in Streams : Subscribe(s) \/ Register(s) \/ Receive(s) \/ Leave(s) \/ Unsub(s)
         \/ Shutdown \/ CloseOne \/ CloseReturns
  PROVE  /\ CallsInv' /\ UNCHANGED publisher
         /\ \A p \in Publishers : pc'[p] = pc[p]
         /\ \A i \in Ids : Sent(i)' = Sent(i)
<1> USE BroadcasterAssumption DEF CallsInv, Threads
<1>1. BroadcasterTypes'
  BY TypeStream, TypeClose
<1>2. UNCHANGED publisher /\ \A p \in Publishers : pc'[p] = pc[p]
  BY DEF BroadcasterTypes, Calls, Lock, Subscribe, Register, Receive, Leave, Unsub, Shutdown,
         CloseOne, CloseReturns, Goto
<1>3. readers \subseteq readers' \/ readers = {}
  BY DEF Lock, Announce, Subscribe, Register, Receive, Leave, Unsub, Shutdown, CloseOne,
         CloseReturns, Holds, lock
<1>4. Calls'
  BY <1>2, <1>3 DEF Calls, publisher
<1>5. \A i \in Ids : Sent(i)' = Sent(i)
  <2>1. ASSUME NEW s \in Streams, Receive(s), NEW i \in Ids
        PROVE  received'[i] \o buffer'[i] = received[i] \o buffer[i]
    <3>1. received[i] \in Seq(Events) /\ buffer[i] \in Seq(Events)
      BY SentIsSeq
    <3>2. CASE i = sub[s]
      <4>1. /\ received'[i] = Append(received[i], Head(buffer[i]))
            /\ buffer'[i] = Tail(buffer[i]) /\ buffer[i] # <<>>
        BY <2>1, <3>2 DEF Receive, BroadcasterTypes
      <4> QED BY <3>1, <4>1, ReceiveKeepsSent
    <3>3. CASE i # sub[s]
      BY <2>1, <3>3 DEF Receive, BroadcasterTypes
    <3> QED BY <3>2, <3>3
  <2>2. (\E s \in Streams : Receive(s)) \/ UNCHANGED <<received, buffer>>
    BY DEF Lock, Subscribe, Register, Leave, Unsub, Shutdown, CloseOne, CloseReturns, channels
  <2> QED BY <2>1, <2>2 DEF Sent
<1> QED BY <1>1, <1>2, <1>4, <1>5

\* A publisher's steps but Send.
LEMMA PublisherStep ==
  ASSUME BroadcastInv, CallsInv, NEW p \in Publishers,
         Publish(p) \/ NextChannel(p) \/ PublishReturns(p)
  PROVE  CallsInv' /\ UNCHANGED channels /\ \A i \in Ids : Sent(i)' = Sent(i)
<1> USE BroadcasterAssumption DEF CallsInv, Threads
<1>1. BroadcasterTypes'
  BY TypePublisher
<1>2. CASE Publish(p)
  <2>1. Calls'
    BY <1>2 DEF Publish, RLock, Goto, Calls, BroadcasterTypes
  <2> QED BY <1>1, <1>2, <2>1 DEF Publish, channels, Sent
<1>3. CASE NextChannel(p)
  <2>1. Calls'
    BY <1>3 DEF NextChannel, lock, Calls, BroadcasterTypes
  <2> QED BY <1>1, <1>3, <2>1 DEF NextChannel, channels, Sent
<1>4. CASE PublishReturns(p)
  <2>1. Calls'
    BY <1>4 DEF PublishReturns, RUnlock, Goto, Calls, BroadcasterTypes
  <2> QED BY <1>1, <1>4, <2>1 DEF PublishReturns, channels, Sent
<1> QED BY <1>2, <1>3, <1>4

\* A send loses nothing, and adds the event unless the channel is full.
LEMMA SendStores ==
  ASSUME BroadcastInv, CallsInv, NEW p \in Publishers, Send(p),
         NEW c, NEW e, c = at[p], e = event[p]
  PROVE  /\ CallsInv'
         /\ c \in clients /\ c \in Ids /\ c \notin closed /\ e \in Events
         /\ \A i \in Ids \ {c} : Sent(i)' = Sent(i)
         /\ Full(c) => Sent(c)' = Sent(c)
         /\ DOMAIN Sent(c) = 1 .. Len(Sent(c)) /\ Len(Sent(c)) \in Nat
         /\ ~Full(c) => /\ DOMAIN Sent(c)' = 1 .. Len(Sent(c)) + 1
                        /\ \A n \in 1 .. Len(Sent(c)) : Sent(c)'[n] = Sent(c)[n]
                        /\ Sent(c)'[Len(Sent(c)) + 1] = e
                        /\ Got(c, e)'
         /\ \A i \in Ids : \A x : Got(i, x) => Got(i, x)'
<1> USE BroadcasterAssumption DEF CallsInv
<1>1. CallsInv'
  <2>1. BroadcasterTypes'
    BY TypePublisher
  <2>2. Calls'
    BY DEF Send, lock, Calls, BroadcasterTypes
  <2> QED BY <2>1, <2>2
<1>2. c \in clients /\ c \in Ids /\ c \notin closed /\ e \in Events
  BY DEF Send, BroadcastInv, Sending, Calls, BroadcasterTypes, Events
<1>3. \A i \in Ids \ {c} : Sent(i)' = Sent(i)
  BY <1>2 DEF Send, Select, Sent, BroadcasterTypes
<1>4. Sent(c)' = IF Full(c) THEN Sent(c) ELSE Append(Sent(c), e)
  <2>1. CASE Full(c)
    BY <1>2, <2>1 DEF Send, Select, Sent
  <2>2. CASE ~Full(c)
    <3>1. buffer'[c] = Append(buffer[c], e) /\ received' = received
      BY <1>2, <2>2 DEF Send, Select, BroadcasterTypes
    <3>2. received[c] \o Append(buffer[c], e) = Append(received[c] \o buffer[c], e)
      BY ONLY BroadcasterTypes, <1>2, SentAppends
    <3> QED BY <2>2, <3>1, <3>2 DEF Sent
  <2> QED BY <2>1, <2>2
<1>5. /\ DOMAIN Sent(c) = 1 .. Len(Sent(c)) /\ Len(Sent(c)) \in Nat
      /\ ~Full(c) => /\ DOMAIN Sent(c)' = 1 .. Len(Sent(c)) + 1
                     /\ \A n \in 1 .. Len(Sent(c)) : Sent(c)'[n] = Sent(c)[n]
                     /\ Sent(c)'[Len(Sent(c)) + 1] = e
  <2>1. Sent(c) \in Seq(Events)
    BY <1>2, SentIsSeq
  <2> QED BY <1>2, <1>4, <2>1, AppendProperties
<1>6. \A i \in Ids : \A x : Got(i, x) => Got(i, x)'
  <2> SUFFICES ASSUME NEW i \in Ids, NEW x, NEW n \in DOMAIN Sent(i), Sent(i)[n] = x
               PROVE  n \in DOMAIN Sent(i)' /\ Sent(i)'[n] = x
    BY DEF Got
  <2> QED BY ONLY <1>3, <1>4, <1>5, i \in Ids, n \in DOMAIN Sent(i), Sent(i)[n] = x
<1>7. ~Full(c) => Got(c, e)'
  BY <1>5 DEF Got
<1> QED BY <1>1, <1>2, <1>3, <1>4, <1>5, <1>6, <1>7

\* Every step keeps track of the calls.
LEMMA CallsInvariant == BroadcastInv /\ CallsInv /\ [Next]_vars => CallsInv'
<1> SUFFICES ASSUME BroadcastInv, CallsInv, [Next]_vars PROVE CallsInv'
  OBVIOUS
<1>1. CASE Next
  <2>1. ASSUME NEW p \in Publishers, Send(p) PROVE CallsInv'
    <3>1. PICK c, e : c = at[p] /\ e = event[p]
      OBVIOUS
    <3> QED BY <2>1, <3>1, SendStores
  <2> QED BY <1>1, <2>1, OthersStep, PublisherStep DEF Next, Working
<1>2. CASE UNCHANGED vars
  BY <1>2 DEF vars, lock, channels, publisher, CallsInv, BroadcasterTypes, Calls
<1> QED BY <1>1, <1>2

LEMMA BroadcasterHolds == Spec => [](BroadcastInv /\ CallsInv)
BY BroadcastInvariant, CallsInit, CallsInvariant, PTL DEF Spec
=============================================================================
