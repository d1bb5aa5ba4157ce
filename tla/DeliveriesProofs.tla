-------------------------- MODULE DeliveriesProofs --------------------------
(***************************************************************************)
(* What Deliveries promises the clients of the broadcaster, for any number *)
(* of publishers, streams and subscriptions and any capacity.              *)
(*                                                                         *)
(* A publisher that has come past a channel has put its event in it or     *)
(* found it full, and its event is in no channel it has not come to.  It   *)
(* holds the read lock for as long as it has come to any channel, so that  *)
(* no channel enters the map meanwhile; and an id that is owed an event    *)
(* is not that of a stream that is still to register.                      *)
(***************************************************************************)
EXTENDS Deliveries, BroadcasterProofs

OwnEvents ==
  \A p, q \in Publishers : event[p] = event[q] /\ p # q => event[p] = 0

\* What the history says of the past.
Past == /\ returned \subseteq 1 .. events
        /\ \A p \in Publishers : event[p] \notin returned
        /\ earlier \in [Events -> SUBSET returned]
        /\ owed \in [Events -> SUBSET (0 .. nextID)]
        /\ \A s \in Streams : pc[s] = "subscribe" => \A e \in Events : sub[s] \notin owed[e]

Published == \A i \in Ids : \A n \in DOMAIN Sent(i) : Sent(i)[n] \in 1 .. events

OnlyOffered ==
  \A p \in Publishers : \A i \in Ids :
    pc[p] = "publish" /\ Got(i, event[p]) => i \in offered[p] \ {at[p]}

HandedOut ==
  \A p \in Publishers : \A i \in (offered[p] \ {at[p]}) \cap clients :
    Got(i, event[p]) \/ <<event[p], i>> \in missed

DeliveryInv == /\ BroadcastInv /\ BroadcasterTypes /\ Calls /\ OwnEvents /\ Past /\ Published
               /\ OnlyOffered /\ HandedOut /\ InOrder /\ Delivered

-----------------------------------------------------------------------------
(* Steps that no publisher notices. *)

LEMMA QuietSteps ==
  ASSUME DeliveryInv, HistoryNext, BroadcasterTypes', BroadcastInv',
         UNCHANGED publisher,
         \A p \in Publishers : pc'[p] = pc[p] /\ (p \in readers => p \in readers'),
         \A i \in Ids : Sent(i)' = Sent(i),
         \A i \in clients' \ clients :
            readers = {} /\ \E s \in Streams : pc[s] = "subscribe" /\ sub[s] = i,
         nextID' \in Nat /\ nextID <= nextID',
         \A s \in Streams : pc'[s] = "subscribe" =>
            (pc[s] = "subscribe" /\ sub'[s] = sub[s]) \/ sub'[s] > nextID
  PROVE  DeliveryInv'
<1> USE DEF DeliveryInv, publisher
<1>1. UNCHANGED <<earlier, owed>>
  BY DEF HistoryNext
<1>2. returned' = returned
  BY DEF HistoryNext, Finished
<1>3. missed' = missed
  BY DEF HistoryNext, Drops
<1>4. Calls' /\ OwnEvents'
  BY DEF Calls, OwnEvents
<1>5. Past'
  <2>1. nextID \in Nat /\ owed' \in [Events -> SUBSET (0 .. nextID')]
    BY <1>1 DEF Past, BroadcasterTypes
  <2>2. \A s \in Streams : pc'[s] = "subscribe" => \A e \in Events : sub'[s] \notin owed'[e]
    BY <1>1, <2>1 DEF Past
  <2> QED BY <1>1, <1>2, <2>1, <2>2 DEF Past
<1>6. Published'
  BY DEF Published
<1>7. \A i \in Ids : \A e : Got(i, e)' <=> Got(i, e)
  BY DEF Got
<1>8. OnlyOffered'
  <2> SUFFICES ASSUME NEW p \in Publishers, NEW i \in Ids,
                      (pc[p] = "publish" /\ Got(i, event[p]))'
               PROVE  i \in offered[p] \ {at[p]}
    BY DEF OnlyOffered
  <2> QED BY <1>7 DEF OnlyOffered, Got
<1>9. HandedOut'
  <2> SUFFICES ASSUME NEW p \in Publishers, NEW i \in (offered[p] \ {at[p]}) \cap clients'
               PROVE  Got(i, event[p])' \/ <<event[p], i>> \in missed'
    BY DEF HandedOut, Got
  <2>1. i \in clients /\ i \in Ids
    BY DEF Calls, BroadcasterTypes
  <2> QED BY <1>3, <1>7, <2>1 DEF HandedOut, Got
<1>10. InOrder'
  BY <1>1 DEF InOrder
<1>11. Delivered'
  <2> SUFFICES ASSUME NEW e \in returned, NEW i \in owed[e] \cap clients'
               PROVE  Got(i, e)' \/ <<e, i>> \in missed
    BY <1>1, <1>2, <1>3 DEF Delivered, Got
  <2>1. e \in Events
    BY BroadcasterAssumption DEF Past, BroadcasterTypes, Events
  <2>2. i \in clients
    BY <2>1 DEF Past
  <2>3. i \in Ids
    BY DEF BroadcasterTypes
  <2> QED BY <1>7, <2>2, <2>3 DEF Delivered, Got
<1> QED BY <1>4, <1>5, <1>6, <1>8, <1>9, <1>10, <1>11

\* The steps of streams and of Close.
LEMMA StreamAndCloseSteps ==
  ASSUME DeliveryInv, HistoryNext, BroadcastInv',
         \/ \E t \in Threads : Lock(t)
         \/ \E s \in Streams : Subscribe(s) \/ Register(s) \/ Receive(s) \/ Leave(s) \/ Unsub(s)
         \/ Shutdown \/ CloseOne \/ CloseReturns
  PROVE  DeliveryInv'
<1> USE BroadcasterAssumption DEF DeliveryInv, Threads
<1>1. ASSUME NEW t \in Threads, Lock(t) PROVE DeliveryInv'
  <2>1. BroadcasterTypes'
    BY <1>1, TypeClose
  <2>2. UNCHANGED <<readers, publisher, channels, pc, sub>>
    BY <1>1 DEF Lock, Announce
  <2> QED BY <2>1, <2>2, QuietSteps DEF channels, Sent, BroadcasterTypes
<1>2. ASSUME NEW s \in Streams, Subscribe(s) PROVE DeliveryInv'
  <2>1. BroadcasterTypes'
    BY <1>2, TypeStream
  <2>2. \A t \in Streams : pc'[t] = "subscribe" =>
          (pc[t] = "subscribe" /\ sub'[t] = sub[t]) \/ sub'[t] > nextID
    BY <1>2 DEF Subscribe, Goto, BroadcasterTypes
  <2>3. nextID' \in Nat /\ nextID <= nextID' /\ \A p \in Publishers : pc'[p] = pc[p]
    BY <1>2 DEF Subscribe, Goto, BroadcasterTypes
  <2>4. UNCHANGED <<publisher, readers, clients, buffer, received>>
    BY <1>2 DEF Subscribe, lock
  <2> QED BY <2>1, <2>2, <2>3, <2>4, QuietSteps DEF Sent
<1>3. ASSUME NEW s \in Streams, Register(s) PROVE DeliveryInv'
  <2>1. BroadcasterTypes'
    BY <1>3, TypeStream
  <2>2. /\ \A p \in Publishers : pc'[p] = pc[p]
        /\ \A t \in Streams : pc'[t] = "subscribe" => pc[t] = "subscribe"
    BY <1>3 DEF Register, Goto, BroadcasterTypes
  <2>3. UNCHANGED <<publisher, nextID, sub, buffer, received>>
    BY <1>3 DEF Register
  <2>4. readers = {} /\ pc[s] = "subscribe" /\ clients' = clients \cup {sub[s]}
    BY <1>3 DEF Register, Holds
  <2> QED BY <2>1, <2>2, <2>3, <2>4, QuietSteps DEF Sent, BroadcasterTypes
<1>4. ASSUME NEW s \in Streams, Receive(s) PROVE DeliveryInv'
  <2>1. BroadcasterTypes'
    BY <1>4, TypeStream
  <2>2. \A i \in Ids : Sent(i)' = Sent(i)
    BY <1>4, OthersStep DEF CallsInv
  <2>3. UNCHANGED <<publisher, readers, clients, nextID, pc, sub>>
    BY <1>4 DEF Receive, lock
  <2> QED BY <2>1, <2>2, <2>3, QuietSteps DEF BroadcasterTypes
<1>5. ASSUME NEW s \in Streams, Leave(s) PROVE DeliveryInv'
  <2>1. BroadcasterTypes'
    BY <1>5, TypeStream
  <2>2. /\ \A p \in Publishers : pc'[p] = pc[p]
        /\ \A t \in Streams : pc'[t] = "subscribe" => pc[t] = "subscribe"
    BY <1>5 DEF Leave, Goto, BroadcasterTypes
  <2>3. UNCHANGED <<publisher, readers, clients, nextID, sub, buffer, received>>
    BY <1>5 DEF Leave, lock, channels
  <2> QED BY <2>1, <2>2, <2>3, QuietSteps DEF Sent, BroadcasterTypes
<1>6. ASSUME NEW s \in Streams, Unsub(s) PROVE DeliveryInv'
  <2>1. BroadcasterTypes'
    BY <1>6, TypeStream
  <2>2. /\ \A p \in Publishers : pc'[p] = pc[p]
        /\ \A t \in Streams : pc'[t] = "subscribe" => pc[t] = "subscribe" /\ sub'[t] = sub[t]
    BY <1>6 DEF Unsub, Goto, BroadcasterTypes
  <2>3. UNCHANGED <<publisher, nextID, buffer, received>> /\ readers = {}
    BY <1>6 DEF Unsub, Holds
  <2>4. clients' \subseteq clients
    BY <1>6 DEF Unsub, Remove
  <2> QED BY <2>1, <2>2, <2>3, <2>4, QuietSteps DEF Sent, BroadcasterTypes
<1>7. CASE Shutdown \/ CloseOne \/ CloseReturns
  <2>1. BroadcasterTypes'
    BY <1>7, TypeClose
  <2>2. /\ \A p \in Publishers : pc'[p] = pc[p]
        /\ \A t \in Streams : pc'[t] = pc[t]
    BY <1>7 DEF Shutdown, CloseOne, CloseReturns, Goto, BroadcasterTypes
  <2>3. UNCHANGED <<publisher, nextID, sub, buffer, received>>
    BY <1>7 DEF Shutdown, CloseOne, CloseReturns, channels
  <2>4. clients' \subseteq clients
    BY <1>7 DEF Shutdown, CloseOne, CloseReturns, channels
  <2>5. UNCHANGED readers \/ readers = {}
    BY <1>7 DEF Shutdown, CloseOne, CloseReturns, lock, Holds
  <2> QED BY <2>1, <2>2, <2>3, <2>4, <2>5, QuietSteps DEF Sent, BroadcasterTypes
<1> QED BY <1>1, <1>2, <1>3, <1>4, <1>5, <1>6, <1>7

-----------------------------------------------------------------------------
(* The steps of a publisher. *)

LEMMA PublishStep ==
  ASSUME DeliveryInv, HistoryNext, BroadcastInv', NEW p \in Publishers, Publish(p)
  PROVE  DeliveryInv'
<1> USE BroadcasterAssumption DEF DeliveryInv
<1> DEFINE e == events + 1
<1>1. BroadcasterTypes'
  BY TypePublisher
<1>2. /\ pc[p] = "idle" /\ e \in Events /\ events \in Nat
      /\ events' = e /\ event' = [event EXCEPT ![p] = e]
      /\ pc' = [pc EXCEPT ![p] = "publish"] /\ readers \subseteq readers'
      /\ UNCHANGED <<offered, at, clients, nextID, sub, buffer, received>>
  BY DEF Publish, RLock, Goto, channels, BroadcasterTypes, Events
<1>3. returned' = returned /\ missed' = missed
  BY <1>2 DEF HistoryNext, Finished, Drops, BroadcasterTypes, Threads
<1>4. /\ earlier' = [earlier EXCEPT ![e] = returned]
      /\ owed' = [owed EXCEPT ![e] = Subscribed]
  BY <1>2 DEF HistoryNext
<1>5. \A i \in Ids : Sent(i)' = Sent(i)
  BY <1>2 DEF Sent
<1>6. \A i \in Ids : ~Got(i, e)
  BY <1>2 DEF Published, Got
<1>7. Calls'
  BY <1>2 DEF Calls, BroadcasterTypes, Threads
<1>8. OwnEvents'
  BY <1>2 DEF OwnEvents, Calls, BroadcasterTypes
<1>9. Past'
  <2>1. returned' \subseteq 1 .. events' /\ \A q \in Publishers : event'[q] \notin returned'
    BY <1>2, <1>3 DEF Past, BroadcasterTypes
  <2>2. earlier' \in [Events -> SUBSET returned']
    BY <1>2, <1>3, <1>4 DEF Past
  <2>3. Subscribed \subseteq 0 .. nextID
    BY DEF Subscribed, BroadcastInv, Types
  <2>4. owed' \in [Events -> SUBSET (0 .. nextID')]
    BY <1>2, <1>4, <2>3 DEF Past
  <2>5. \A s \in Streams : pc[s] = "subscribe" => sub[s] \notin Subscribed
    BY DEF Subscribed, BroadcastInv, OwnIds
  <2>6. \A s \in Streams : pc'[s] = "subscribe" => pc[s] = "subscribe"
    BY <1>2 DEF BroadcasterTypes, Threads
  <2>7. \A s \in Streams : pc'[s] = "subscribe" => \A x \in Events : sub'[s] \notin owed'[x]
    BY <1>2, <1>4, <2>5, <2>6 DEF Past
  <2> QED BY <2>1, <2>2, <2>4, <2>7 DEF Past
<1>10. Published'
  BY <1>2, <1>5 DEF Published
<1>11. \A i \in Ids : \A x : Got(i, x)' <=> Got(i, x)
  BY <1>5 DEF Got
<1>12. OnlyOffered'
  <2> SUFFICES ASSUME NEW q \in Publishers, NEW i \in Ids,
                      (pc[q] = "publish" /\ Got(i, event[q]))'
               PROVE  i \in offered[q] \ {at[q]}
    BY <1>2 DEF OnlyOffered
  <2>1. Got(i, event'[q])
    BY <1>5 DEF Got
  <2>2. q # p
    BY <1>2, <1>6, <2>1 DEF BroadcasterTypes
  <2>3. pc[q] = "publish" /\ event'[q] = event[q]
    BY <1>2, <2>2 DEF BroadcasterTypes, Threads
  <2> QED BY <2>1, <2>3 DEF OnlyOffered
<1>13. HandedOut'
  <2> SUFFICES ASSUME NEW q \in Publishers, NEW i \in (offered[q] \ {at[q]}) \cap clients
               PROVE  Got(i, event'[q]) \/ <<event'[q], i>> \in missed
    BY <1>2, <1>3, <1>5 DEF HandedOut, Got, BroadcasterTypes
  <2>1. q # p
    BY <1>2 DEF Calls
  <2>2. event'[q] = event[q]
    BY <1>2, <2>1 DEF BroadcasterTypes
  <2> QED BY <2>2 DEF HandedOut
<1>14. InOrder'
  <2> SUFFICES ASSUME NEW i \in Ids, NEW m \in DOMAIN Sent(i), NEW n \in DOMAIN Sent(i), m < n
               PROVE  Sent(i)[m] # Sent(i)[n] /\ Sent(i)[n] \notin earlier'[Sent(i)[m]]
    BY <1>5 DEF InOrder
  <2>1. Sent(i)[m] # e
    BY <1>6 DEF Got
  <2>2. earlier'[Sent(i)[m]] = earlier[Sent(i)[m]]
    BY <1>4, <2>1 DEF Past
  <2> QED BY <2>2 DEF InOrder
<1>15. Delivered'
  <2> SUFFICES ASSUME NEW x \in returned, NEW i \in owed'[x] \cap clients
               PROVE  Got(i, x) \/ <<x, i>> \in missed
    BY <1>2, <1>3, <1>5 DEF Delivered, Got, BroadcasterTypes
  <2>1. owed'[x] = owed[x]
    BY <1>2, <1>4 DEF Past
  <2> QED BY <2>1 DEF Delivered, Got
<1> QED BY <1>1, <1>7, <1>8, <1>9, <1>10, <1>12, <1>13, <1>14, <1>15

LEMMA NextChannelStep ==
  ASSUME DeliveryInv, HistoryNext, BroadcastInv', NEW p \in Publishers, NextChannel(p)
  PROVE  DeliveryInv'
<1> USE BroadcasterAssumption DEF DeliveryInv
<1>1. BroadcasterTypes'
  BY TypePublisher
<1>2. PICK c \in Ahead(p) : /\ at' = [at EXCEPT ![p] = c]
                            /\ offered' = [offered EXCEPT ![p] = @ \cup {c}]
  BY DEF NextChannel
<1>3. /\ pc[p] = "publish" /\ p \in readers /\ at[p] = NoID
      /\ c \in clients /\ c \notin offered[p] /\ c # NoID
      /\ UNCHANGED <<event, events, pc, readers, clients, nextID, sub, buffer, received>>
  BY DEF NextChannel, Ahead, lock, channels, BroadcasterTypes, Ids, NoID
<1>4. returned' = returned /\ UNCHANGED <<earlier, owed>>
  BY <1>3 DEF HistoryNext, Finished
<1>5. missed' = missed
  BY <1>2, <1>3 DEF HistoryNext, Drops, BroadcasterTypes
<1>6. \A i \in Ids : Sent(i)' = Sent(i)
  BY <1>3 DEF Sent
<1>7. Calls'
  BY <1>2, <1>3 DEF Calls, BroadcasterTypes
<1>8. OwnEvents' /\ Past' /\ Published' /\ InOrder' /\ Delivered'
  BY <1>3, <1>4, <1>5, <1>6 DEF OwnEvents, Past, Published, InOrder, Delivered, BroadcasterTypes
<1>9. \A q \in Publishers : offered'[q] \ {at'[q]} = offered[q] \ {at[q]}
  BY <1>2, <1>3 DEF BroadcasterTypes, Ids, NoID
<1>10. OnlyOffered' /\ HandedOut'
  <2>1. OnlyOffered'
    <3> SUFFICES ASSUME NEW q \in Publishers, NEW i \in Ids,
                        pc[q] = "publish", Got(i, event[q])
                 PROVE  i \in offered'[q] \ {at'[q]}
      BY <1>3, <1>6 DEF OnlyOffered, Got
    <3> QED BY <1>9 DEF OnlyOffered
  <2>2. HandedOut'
    <3> SUFFICES ASSUME NEW q \in Publishers, NEW i \in (offered'[q] \ {at'[q]}) \cap clients
                 PROVE  Got(i, event[q]) \/ <<event[q], i>> \in missed
      BY <1>3, <1>5, <1>6 DEF HandedOut, Got, BroadcasterTypes
    <3> QED BY <1>9 DEF HandedOut
  <2> QED BY <2>1, <2>2
<1> QED BY <1>1, <1>7, <1>8, <1>10

LEMMA SendStep ==
  ASSUME DeliveryInv, HistoryNext, BroadcastInv', NEW p \in Publishers, Send(p)
  PROVE  DeliveryInv'
<1> USE BroadcasterAssumption DEF DeliveryInv
<1>0. PICK c, e : c = at[p] /\ e = event[p]
  OBVIOUS
<1>1. BroadcasterTypes'
  BY TypePublisher
<1>2. /\ pc[p] = "publish" /\ c # NoID /\ at' = [at EXCEPT ![p] = NoID]
      /\ UNCHANGED <<event, events, offered, pc, readers, clients, nextID, sub, received>>
  BY <1>0 DEF Send, lock
<1>3. /\ c \in clients /\ c \in Ids /\ c \in offered[p] /\ c \notin closed
      /\ e \in Events /\ e \in 1 .. events
  BY <1>0, <1>2 DEF BroadcastInv, Sending, Calls, BroadcasterTypes, Events
<1>4. returned' = returned /\ UNCHANGED <<earlier, owed>>
  BY <1>2 DEF HistoryNext, Finished
<1>5. missed \subseteq missed' /\ (Full(c) => <<e, c>> \in missed')
  BY <1>0, <1>2 DEF HistoryNext, Drops, BroadcasterTypes
<1>6. /\ \A i \in Ids \ {c} : Sent(i)' = Sent(i)
      /\ Full(c) => Sent(c)' = Sent(c)
  BY <1>0, SendStores DEF CallsInv
<1>7. ~Got(c, e)
  BY <1>0, <1>2, <1>3 DEF OnlyOffered
\* What the channel has been sent grows by this event at most.
<1>8. /\ DOMAIN Sent(c) = 1 .. Len(Sent(c)) /\ Len(Sent(c)) \in Nat
      /\ ~Full(c) => /\ DOMAIN Sent(c)' = 1 .. Len(Sent(c)) + 1
                     /\ \A n \in 1 .. Len(Sent(c)) : Sent(c)'[n] = Sent(c)[n]
                     /\ Sent(c)'[Len(Sent(c)) + 1] = e
                     /\ Got(c, e)'
      /\ \A i \in Ids : \A x : Got(i, x) => Got(i, x)'
  BY <1>0, SendStores DEF CallsInv
<1>9. \A i \in Ids : \A x : Got(i, x)' => Got(i, x) \/ (i = c /\ x = e)
  <2> SUFFICES ASSUME NEW i \in Ids, NEW x, NEW n \in DOMAIN Sent(i)', Sent(i)'[n] = x
               PROVE  Got(i, x) \/ (i = c /\ x = e)
    BY DEF Got
  <2>1. CASE Sent(i)' = Sent(i)
    BY <2>1 DEF Got
  <2>2. CASE i = c /\ ~Full(c)
    BY <1>8, <2>2 DEF Got
  <2> QED BY <1>6, <2>1, <2>2
<1>10. Calls' /\ OwnEvents' /\ Past'
  BY <1>2, <1>4 DEF Calls, OwnEvents, Past, BroadcasterTypes
<1>11. Published'
  <2> SUFFICES ASSUME NEW i \in Ids, NEW n \in DOMAIN Sent(i)', NEW x, Sent(i)'[n] = x
               PROVE  x \in 1 .. events
    BY <1>2 DEF Published
  <2>1. Got(i, x)'
    BY DEF Got
  <2>2. Got(i, x) \/ x = e
    BY <1>9, <2>1
  <2> QED BY <1>3, <2>2 DEF Published, Got
<1>12. OnlyOffered'
  <2> SUFFICES ASSUME NEW q \in Publishers, NEW i \in Ids, pc[q] = "publish", Got(i, event[q])'
               PROVE  i \in offered[q] \ {at'[q]}
    BY <1>2 DEF OnlyOffered, Got
  <2>1. CASE Got(i, event[q])
    BY <1>2, <1>3, <2>1 DEF OnlyOffered, BroadcasterTypes, Ids, NoID
  <2>2. CASE i = c /\ event[q] = e
    <3>1. q = p
      BY <1>0, <1>3, <2>2 DEF OwnEvents
    <3> QED BY <1>2, <1>3, <2>2, <3>1 DEF BroadcasterTypes
  <2> QED BY <1>2, <1>9, <2>1, <2>2 DEF Got
<1>13. HandedOut'
  <2> SUFFICES ASSUME NEW q \in Publishers, NEW i \in (offered[q] \ {at'[q]}) \cap clients,
                      NEW x, x = event[q]
               PROVE  Got(i, x)' \/ <<x, i>> \in missed'
    BY <1>2 DEF HandedOut, Got
  <2>1. i \in Ids
    BY DEF BroadcasterTypes
  <2>2. CASE i \in offered[q] \ {at[q]}
    BY <1>5, <1>8, <2>1, <2>2 DEF HandedOut
  <2>3. CASE i = at[q] /\ q = p
    BY <1>0, <1>5, <1>8, <2>3
  <2> QED BY <1>2, <2>2, <2>3 DEF BroadcasterTypes
<1>14. InOrder'
  <2> SUFFICES ASSUME NEW i \in Ids, NEW m \in DOMAIN Sent(i)', NEW n \in DOMAIN Sent(i)', m < n
               PROVE  Sent(i)'[m] # Sent(i)'[n] /\ Sent(i)'[n] \notin earlier[Sent(i)'[m]]
    BY <1>4 DEF InOrder
  <2>1. CASE Sent(i)' = Sent(i)
    BY <2>1 DEF InOrder
  <2>2. CASE i = c /\ ~Full(c)
    <3>1. m \in 1 .. Len(Sent(c)) /\ Sent(c)'[m] = Sent(c)[m]
      BY <1>8, <2>2
    <3>2. CASE n \in 1 .. Len(Sent(c))
      BY <1>3, <1>8, <2>2, <3>1, <3>2 DEF InOrder
    <3>3. CASE n = Len(Sent(c)) + 1
      <4>1. Sent(c)'[n] = e /\ Sent(c)[m] # e
        BY <1>7, <1>8, <2>2, <3>1, <3>3 DEF Got
      <4>2. Sent(c)[m] \in Events
        BY <1>3, <1>8, <3>1, SentIsSeq, ElementOfSeq
      <4>3. e \notin earlier[Sent(c)[m]]
        BY <1>0, <4>2 DEF Past
      <4> QED BY <2>2, <3>1, <4>1, <4>3
    <3> QED BY <1>8, <2>2, <3>2, <3>3
  <2> QED BY <1>6, <2>1, <2>2
<1>15. Delivered'
  <2> SUFFICES ASSUME NEW x \in returned, NEW i \in owed[x] \cap clients
               PROVE  Got(i, x)' \/ <<x, i>> \in missed'
    BY <1>2, <1>4 DEF Delivered, Got
  <2>1. i \in Ids
    BY DEF BroadcasterTypes
  <2> QED BY <1>5, <1>8, <2>1 DEF Delivered, Got
<1> QED BY <1>1, <1>10, <1>11, <1>12, <1>13, <1>14, <1>15

LEMMA PublishReturnsStep ==
  ASSUME DeliveryInv, HistoryNext, BroadcastInv', NEW p \in Publishers, PublishReturns(p)
  PROVE  DeliveryInv'
<1> USE BroadcasterAssumption DEF DeliveryInv
<1>1. BroadcasterTypes'
  BY TypePublisher
<1>2. /\ pc[p] = "publish" /\ at[p] = NoID /\ clients \subseteq offered[p]
      /\ event' = [event EXCEPT ![p] = 0] /\ offered' = [offered EXCEPT ![p] = {}]
      /\ pc' = [pc EXCEPT ![p] = "idle"] /\ readers' = readers \ {p}
      /\ UNCHANGED <<at, events, clients, nextID, sub, buffer, received>>
  BY DEF PublishReturns, RUnlock, Goto, channels
<1>3. event[p] \in 1 .. events
  BY <1>2 DEF Calls
<1>4. returned' = returned \cup {event[p]}
  BY <1>2 DEF HistoryNext, Finished, BroadcasterTypes, Threads
<1>5. missed' = missed /\ UNCHANGED <<earlier, owed>>
  BY <1>2 DEF HistoryNext, Drops
<1>6. \A i \in Ids : Sent(i)' = Sent(i)
  BY <1>2 DEF Sent
<1>7. Calls' /\ OwnEvents' /\ Published' /\ InOrder'
  <2>1. Calls'
    BY <1>2 DEF Calls, BroadcasterTypes, Threads
  <2>2. OwnEvents'
    BY <1>2 DEF OwnEvents, BroadcasterTypes
  <2> QED BY <1>2, <1>5, <1>6, <2>1, <2>2 DEF Published, InOrder
<1>8. Past'
  <2>1. \A q \in Publishers : event'[q] \notin returned'
    BY <1>2, <1>3, <1>4 DEF Past, OwnEvents, BroadcasterTypes
  <2>2. \A s \in Streams : pc'[s] = "subscribe" => pc[s] = "subscribe"
    BY <1>2 DEF BroadcasterTypes, Threads
  <2> QED BY <1>2, <1>3, <1>4, <1>5, <2>1, <2>2 DEF Past
<1>9. \A q \in Publishers \ {p} :
        event'[q] = event[q] /\ offered'[q] = offered[q] /\ pc'[q] = pc[q]
  BY <1>2 DEF BroadcasterTypes, Threads
<1>10. pc'[p] = "idle" /\ offered'[p] = {}
  BY <1>2 DEF BroadcasterTypes, Threads
<1>11. OnlyOffered'
  <2> SUFFICES ASSUME NEW q \in Publishers, NEW i \in Ids, pc'[q] = "publish", Got(i, event'[q])
               PROVE  i \in offered'[q] \ {at[q]}
    BY <1>2, <1>6 DEF OnlyOffered, Got
  <2> QED BY <1>9, <1>10 DEF OnlyOffered
<1>12. HandedOut'
  <2> SUFFICES ASSUME NEW q \in Publishers, NEW i \in (offered'[q] \ {at[q]}) \cap clients
               PROVE  Got(i, event'[q]) \/ <<event'[q], i>> \in missed
    BY <1>2, <1>5, <1>6 DEF HandedOut, Got, BroadcasterTypes
  <2> QED BY <1>9, <1>10 DEF HandedOut
<1>13. Delivered'
  <2> SUFFICES ASSUME NEW x \in returned', NEW i \in owed[x] \cap clients
               PROVE  Got(i, x) \/ <<x, i>> \in missed
    BY <1>2, <1>5, <1>6 DEF Delivered, Got, BroadcasterTypes
  <2>1. CASE x \in returned
    BY <2>1 DEF Delivered, Got
  <2>2. CASE x = event[p]
    <3>1. i \in offered[p] \ {at[p]}
      <4>1. NoID \notin Ids
        BY DEF Ids, NoID
      <4> QED BY <1>2, <4>1 DEF BroadcasterTypes
    <3> QED BY <2>2, <3>1 DEF HandedOut
  <2> QED BY <1>4, <2>1, <2>2
<1> QED BY <1>1, <1>7, <1>8, <1>11, <1>12, <1>13

-----------------------------------------------------------------------------
(* Theorems. *)

LEMMA DeliveryInvInit == HistoryInit => DeliveryInv
<1> SUFFICES ASSUME HistoryInit PROVE DeliveryInv
  OBVIOUS
<1>1. BroadcastInv
  BY BroadcastInvariant DEF HistoryInit
<1>2. BroadcasterTypes /\ Calls
  BY CallsInit DEF HistoryInit, CallsInv
<1>3. \A i \in Ids : Sent(i) = <<>>
  BY DEF HistoryInit, Init, Sent
<1>4. OwnEvents
  BY BroadcasterAssumption DEF HistoryInit, Init, OwnEvents
<1>5. Past
  BY BroadcasterAssumption DEF HistoryInit, Init, Past, Threads
<1>6. Published /\ InOrder
  BY <1>3 DEF Published, InOrder
<1>7. OnlyOffered /\ HandedOut /\ Delivered
  BY BroadcasterAssumption DEF HistoryInit, Init, OnlyOffered, HandedOut, Delivered, Threads
<1> QED BY <1>1, <1>2, <1>4, <1>5, <1>6, <1>7 DEF DeliveryInv

LEMMA DeliveryInvNext == DeliveryInv /\ [HistoryNext]_<<vars, history>> => DeliveryInv'
<1> SUFFICES ASSUME DeliveryInv, [HistoryNext]_<<vars, history>> PROVE DeliveryInv'
  OBVIOUS
<1>1. CASE HistoryNext
  <2>1. Next
    BY <1>1 DEF HistoryNext
  <2>2. BroadcastInv'
    BY <2>1, BroadcastInvariant DEF DeliveryInv
  <2> QED BY <1>1, <2>1, <2>2, StreamAndCloseSteps, PublishStep, NextChannelStep, SendStep,
             PublishReturnsStep DEF Next, Working
<1>2. CASE UNCHANGED <<vars, history>>
  <2>1. BroadcastInv'
    BY <1>2, BroadcastInvariant DEF DeliveryInv
  <2>2. BroadcasterTypes' /\ Calls' /\ OwnEvents' /\ Past'
    BY <1>2 DEF vars, history, lock, channels, publisher, DeliveryInv, BroadcasterTypes, Calls, OwnEvents, Past
  <2>3. /\ UNCHANGED <<clients, event, offered, at, events, pc, history>>
        /\ \A i : Sent(i)' = Sent(i)
    BY <1>2 DEF vars, channels, publisher, Sent
  <2>4. Published' /\ OnlyOffered' /\ HandedOut'
    BY <2>3 DEF history, DeliveryInv, Published, OnlyOffered, HandedOut, Got
  <2>5. InOrder' /\ Delivered'
    BY <2>3 DEF history, DeliveryInv, InOrder, Delivered
  <2> QED BY <2>1, <2>2, <2>4, <2>5 DEF DeliveryInv
<1> QED BY <1>1, <1>2

LEMMA DeliveryInvHolds == HistorySpec => []DeliveryInv
BY DeliveryInvInit, DeliveryInvNext, PTL DEF HistorySpec

\* Every variable of the broadcaster keeps to its type: no id and no event but
\* those handed out, no lock held by a goroutine of the wrong kind.
THEOREM DeliveriesTyped == HistorySpec => []TypeOK
<1>1. DeliveryInv => TypeOK
  BY DEF DeliveryInv, TypeOK
<1> QED BY <1>1, DeliveryInvHolds, PTL

\* No client receives an event twice, or after one that was published later
\* (broadcaster.go:58-64).
THEOREM ReceivedInOrder == HistorySpec => []InOrder
<1>1. DeliveryInv => InOrder
  BY DEF DeliveryInv
<1> QED BY <1>1, DeliveryInvHolds, PTL

\* A client that had subscribed when an event was published, and has not left,
\* has it when Publish returns, unless its own channel was full
\* (broadcaster.go:53).
THEOREM NothingIsLost == HistorySpec => []Delivered
<1>1. DeliveryInv => Delivered
  BY DEF DeliveryInv
<1> QED BY <1>1, DeliveryInvHolds, PTL
=============================================================================
