----------------------------- MODULE ServerProofs -----------------------------
(***************************************************************************)
(* For any requests, keys, handlers and streams: the process uses the      *)
(* broadcaster as module Broadcaster says, so that it never panics, and    *)
(* serves no client route for a key that had been revoked before; the row  *)
(* that the last change left is sent to every client that was connected,   *)
(* whichever order the requests commit, read back and publish in, if who   *)
(* made the change announces it; and the variables of the process and of   *)
(* its history are of their types.                                         *)
(***************************************************************************)
EXTENDS ServerProperties, BroadcasterProofs, FiniteSetTheorems

-----------------------------------------------------------------------------
(* The server refines the broadcaster. *)

LEMMA AdministrationStep ==
  ASSUME NEW p \in Publishers, Administration(p)
  PROVE  Next \/ UNCHANGED vars
<1>1. CASE PublishChange(p)
  BY <1>1 DEF PublishChange, Next
<1>2. CASE AnswerChange(p)
  BY <1>2 DEF AnswerChange, Next, Working, Threads
<1>3. CASE ~PublishChange(p) /\ ~AnswerChange(p)
  BY <1>3 DEF Administration, CreateFlag, DeleteFlag, ToggleFlag, ReadBack, ReadBackFails,
              ReadFlag, WriteFlag, HandleCreateKey, HandleRevokeKey, Serving
<1> QED BY <1>1, <1>2, <1>3

LEMMA ClientRoutesStep ==
  ASSUME NEW s \in Streams, ClientRoutes(s)
  PROVE  Next \/ UNCHANGED vars
<1>1. CASE OpenStream(s)
  BY <1>1 DEF OpenStream, Next
<1>2. CASE CloseStream(s)
  BY <1>2 DEF CloseStream, Next, Working, Threads
<1>3. CASE RequireAPIKey(s) \/ RecordUse(s) \/ EvaluateFlag(s)
  BY <1>3 DEF RequireAPIKey, RecordUse, EvaluateFlag, Serving
<1> QED BY <1>1, <1>2, <1>3 DEF ClientRoutes

LEMMA ServerStep ==
  ASSUME ServerNext
  PROVE  Next \/ UNCHANGED vars
<1>1. CASE Client
  BY <1>1 DEF Client, ArriveAdmin, ArriveClient, Next
<1>2. CASE Signal \/ ListenFails \/ Main
  BY <1>2 DEF Signal, ListenFails, Main, ShutdownReturns, CloseBroadcaster, CloseDB, Exit, Next
<1>3. ASSUME NEW t \in Threads, Progress(t)
      PROVE  Next \/ UNCHANGED vars
  <2>1. CASE t \in Handlers /\ Fail(t)
    BY <2>1 DEF Fail
  <2>2. CASE Broadcast(t)
    <3>1. Working(t)
      BY <2>2 DEF Broadcast, Working
    <3> QED BY <3>1 DEF Next
  <2> QED BY <1>3, <2>1, <2>2, AdministrationStep, ClientRoutesStep DEF Progress
<1> QED BY <1>1, <1>2, <1>3 DEF ServerNext

\* The process calls Publish, Subscribe, unsub and Close as Broadcaster lets
\* its goroutines do (flags.go:89, stream.go:29-30, serve.go:52).
THEOREM ServerUsesBroadcaster == ServerSpec => Spec
<1>1. ServerInit => Init
  BY DEF ServerInit
<1>2. [ServerNext]_serverVars => [Next]_vars
  BY ServerStep DEF serverVars
<1> QED BY <1>1, <1>2, PTL DEF ServerSpec, Spec

\* No request and no signal makes a goroutine of the process send to a closed
\* channel or close one twice (serve.go:52-79, broadcaster.go:34-81).
THEOREM ServerNeverPanics == ServerSpec => []NoPanic
BY ServerUsesBroadcaster, NeverPanics, PTL

-----------------------------------------------------------------------------
(* Revoked keys. *)

KeysTyped == /\ live \subseteq Keys /\ revoked \subseteq Keys /\ live \cap revoked = {}
             /\ step \in [Handlers -> Steps] /\ token \in [Handlers -> Tokens]

\* A request that came with a revoked key gets no further than the middleware.
Halted == \A s \in barred :
            step[s] = "idle" \/ (step[s] = "auth" /\ token[s] \in revoked)

RevocationInv == /\ KeysTyped /\ Halted
                 /\ barred \subseteq Streams /\ withdrawn = revoked

\* What a step may do to the request of a client: nothing, answer it, let it
\* arrive, let it through or take it further.
Advance(s) ==
  \/ step'[s] = step[s] /\ token'[s] = token[s]
  \/ step'[s] = "idle"
  \/ step[s] = "idle" /\ step'[s] = "auth"
  \/ step[s] = "auth" /\ token[s] \notin revoked
  \/ step[s] \notin {"idle", "auth"} /\ step'[s] # "auth"

\* Only handlers of keys touch the table, and nothing takes a revocation back.
LEMMA KeysStep ==
  ASSUME KeysTyped, keys' = keys \/ CreateAPIKey \/ \E k \in Keys : RevokeAPIKey(k)
  PROVE  /\ live' \subseteq Keys /\ revoked' \subseteq Keys /\ live' \cap revoked' = {}
         /\ revoked \subseteq revoked'
BY DEF KeysTyped, keys, CreateAPIKey, NewKeys, RevokeAPIKey

LEMMA AdministrationKeeps ==
  ASSUME KeysTyped, NEW p \in Publishers, Administration(p)
  PROVE  /\ keys' = keys \/ CreateAPIKey \/ \E k \in Keys : RevokeAPIKey(k)
         /\ step' \in [Handlers -> Steps] /\ token' \in [Handlers -> Tokens]
         /\ \A s \in Streams : Advance(s)
<1> USE BroadcasterAssumption DEF KeysTyped, Handlers, Advance
<1>1. keys' = keys \/ CreateAPIKey \/ \E k \in Keys : RevokeAPIKey(k)
  BY DEF Administration, CreateFlag, DeleteFlag, ToggleFlag, ReadBack, ReadBackFails,
         ReadFlag, WriteFlag, PublishChange, AnswerChange, HandleCreateKey, HandleRevokeKey, store
<1>2. (\E l \in Steps : Continue(p, l)) \/ Answer(p)
  BY DEF Administration, CreateFlag, DeleteFlag, ToggleFlag, ReadBack, ReadBackFails,
         ReadFlag, WriteFlag, PublishChange, AnswerChange, HandleCreateKey, HandleRevokeKey, Steps
<1>3. CASE \E l \in Steps : Continue(p, l)
  BY <1>1, <1>3 DEF Continue
<1>4. CASE Answer(p)
  BY <1>1, <1>4 DEF Answer, Steps, Tokens
<1> QED BY <1>2, <1>3, <1>4

LEMMA ClientRoutesKeep ==
  ASSUME KeysTyped, NEW s \in Streams, ClientRoutes(s)
  PROVE  /\ keys' = keys
         /\ step' \in [Handlers -> Steps] /\ token' \in [Handlers -> Tokens]
         /\ \A t \in Streams : Advance(t)
<1> USE DEF KeysTyped, Handlers, Advance, Steps, Tokens
<1>1. CASE RequireAPIKey(s)
  <2>1. MasterBypass(token[s]) \/ Validates(token[s]) => token[s] \notin revoked
    BY KeysAssumption DEF MasterBypass, Validates
  <2> QED BY <1>1, <2>1 DEF RequireAPIKey, Authenticated, Continue, Answer, store
<1>2. CASE RecordUse(s)
  BY <1>2 DEF RecordUse, Touch, Authenticated
<1>3. CASE EvaluateFlag(s)
  BY <1>3 DEF EvaluateFlag, Serving, Answer
<1>4. CASE OpenStream(s)
  BY <1>4 DEF OpenStream, Continue, store
<1>5. CASE CloseStream(s)
  BY <1>5 DEF CloseStream, Answer, store
<1> QED BY <1>1, <1>2, <1>3, <1>4, <1>5 DEF ClientRoutes

\* Every step of the process.
LEMMA ServerKeeps ==
  ASSUME KeysTyped, ServerNext
  PROVE  /\ KeysTyped' /\ revoked \subseteq revoked'
         /\ \A s \in Streams : Advance(s)
<1> DEFINE Kept == /\ keys' = keys \/ CreateAPIKey \/ \E k \in Keys : RevokeAPIKey(k)
                   /\ step' \in [Handlers -> Steps] /\ token' \in [Handlers -> Tokens]
                   /\ \A s \in Streams : Advance(s)
<1>1. UNCHANGED <<store, handler>> => Kept
  BY DEF store, handler, KeysTyped, Advance
<1>2. ASSUME NEW p \in Publishers, NEW o, ArriveAdmin(p, o) PROVE Kept
  BY <1>2, BroadcasterAssumption
  DEF ArriveAdmin, Begin, store, KeysTyped, Advance, Handlers, Steps, Tokens
<1>3. ASSUME NEW s \in Streams, NEW o, NEW k \in Tokens, ArriveClient(s, o, k) PROVE Kept
  BY <1>3 DEF ArriveClient, Begin, store, KeysTyped, Advance, Handlers, Steps
<1>4. ASSUME NEW t \in Threads, Progress(t) PROVE Kept
  <2>1. CASE t \in Handlers /\ Fail(t)
    BY <2>1 DEF Fail, Answer, store, KeysTyped, Advance, Steps, Tokens
  <2>2. CASE Broadcast(t)
    BY <2>2, <1>1 DEF Broadcast, Outside
  <2> QED BY <1>4, <2>1, <2>2, AdministrationKeeps, ClientRoutesKeep DEF Progress
<1>5. Signal \/ ListenFails \/ Main => Kept
  BY <1>1 DEF Signal, ListenFails, Main, ShutdownReturns, CloseBroadcaster, CloseDB, Exit
<1>6. Kept
  BY <1>1, <1>2, <1>3, <1>4, <1>5 DEF ServerNext, Client, Outside
<1> QED BY <1>6, KeysStep DEF KeysTyped

\* And of its history.
LEMMA RevocationStep ==
  ASSUME RevocationInv, [HistoryNext]_<<serverVars, history>>
  PROVE  RevocationInv'
<1> USE DEF RevocationInv
<1>1. CASE HistoryNext
  <2>1. KeysTyped' /\ revoked \subseteq revoked' /\ \A s \in Streams : Advance(s)
    BY <1>1, ServerKeeps DEF HistoryNext
  <2>2. barred' \subseteq Streams /\ withdrawn' = revoked'
    BY <1>1, <2>1 DEF HistoryNext
  <2>3. Halted'
    <3> SUFFICES ASSUME NEW s \in barred'
                 PROVE  step'[s] = "idle" \/ (step'[s] = "auth" /\ token'[s] \in revoked')
      BY DEF Halted
    <3>1. s \in Streams /\ Advance(s)
      BY <2>1, <2>2
    <3>2. CASE Arrived(s)
      BY <1>1, <2>1, <3>1, <3>2 DEF HistoryNext, Arrived, Advance
    <3>3. CASE ~Arrived(s)
      <4>1. s \in barred
        BY <1>1, <3>1, <3>3 DEF HistoryNext
      <4> QED BY <2>1, <3>1, <3>3, <4>1 DEF Halted, Advance, Arrived
    <3> QED BY <3>2, <3>3
  <2> QED BY <2>1, <2>2, <2>3
<1>2. CASE UNCHANGED <<serverVars, history>>
  BY <1>2 DEF serverVars, history, handler, store, keys, KeysTyped, Halted
<1> QED BY <1>1, <1>2

LEMMA RevocationInvHolds == HistorySpec => []RevocationInv
<1>1. HistoryInit => RevocationInv
  BY KeysAssumption
  DEF HistoryInit, ServerInit, InitKeys, RevocationInv, KeysTyped, Halted, Steps, Tokens
<1> QED BY <1>1, RevocationStep, PTL DEF HistorySpec

\* A key that has been revoked is refused from then on, for any keys, clients
\* and requests: neither the validation of another request, whose UPDATE comes
\* after the revocation, nor a new key lets it in (store/apikeys.go:48-70).
THEOREM RevocationHolds == HistorySpec => []RevokedIsRefused
<1>1. RevocationInv => RevokedIsRefused
  BY DEF RevocationInv, Halted, RevokedIsRefused, Served
<1> QED BY <1>1, RevocationInvHolds, PTL

-----------------------------------------------------------------------------
(***************************************************************************)
(* The last change of the flag.                                            *)
(*                                                                         *)
(* While the last change is told to nobody, its handler is on its way to   *)
(* Publish, or some event shows its state and every client it is owed to   *)
(* has it, missed it, or is still ahead in a range over the map: unless it *)
(* is a change that its handler does not announce.                         *)
(***************************************************************************)

Told(i, e) == Got(i, e) \/ <<e, i>> \in missed

\* The Publish of e by p has still to come to channel i.
Offering(p, e, i) == pc[p] = "publish" /\ event[p] = e /\ (i \notin offered[p] \/ at[p] = i)

\* s was connected when the last change was made.
Owed(s) == pc[s] = "stream" /\ sub[s] \in clients /\ since[s] < commits

Reaching(e) == \A s \in Streams : Owed(s) =>
                 Told(sub[s], e) \/ \E p \in Publishers : Offering(p, e, sub[s])

\* p is to publish the state that is stored.
Pending(p) == step[p] \in {"readback", "publish"} /\ shows[p] = commits

Announced == \/ \E p \in Publishers : Pending(p)
             \/ \E e \in Events : payload[e] = commits /\ Reaching(e)

\* The numbers of states; an event to come shows none.
Books == /\ commits \in Nat /\ since \in [Streams -> 0 .. commits]
         /\ shows \in [Publishers -> 0 .. commits] /\ payload \in [Events -> 0 .. commits]
         /\ untold \subseteq 0 .. commits
         /\ \A e \in Events : e > events => payload[e] = NotStored

\* The broadcaster works for the handlers that called it.
Linked == \A p \in Publishers : pc[p] = "publish" => step[p] = "publishing"

\* Who shows the state that is stored has made it, and it is still there.
Ours == \A p \in Publishers : shows[p] = commits /\ commits > 0 =>
          step[p] \in {"publish", "publishing"} \/ (step[p] = "readback" /\ present)

\* The last change is to be announced.
Due == commits > 0 /\ commits \notin untold

AnnouncementInv == Books /\ Linked /\ (DBOpen => Ours /\ (Due => Announced))

-----------------------------------------------------------------------------
(* The broadcaster's part. *)

\* A range that has not come to a channel comes to it, or the channel goes.
LEMMA OfferingKeeps ==
  ASSUME BroadcastInv, CallsInv, Next \/ UNCHANGED vars, NEW p \in Publishers, NEW e, NEW i,
         i \in clients, i \in clients', Offering(p, e, i)
  PROVE  Offering(p, e, i)' \/ Got(i, e)' \/ (Drops(p) /\ at[p] = i)
<1> USE BroadcasterAssumption DEF Offering, Threads
<1>1. BroadcasterTypes
  BY DEF CallsInv
<1>2. CASE \/ \E t \in Threads : Lock(t)
           \/ \E s \in Streams : Subscribe(s) \/ Register(s) \/ Receive(s) \/ Leave(s) \/ Unsub(s)
           \/ Shutdown \/ CloseOne \/ CloseReturns
  BY <1>2, OthersStep DEF publisher
<1>3. ASSUME NEW q \in Publishers, Publish(q) \/ NextChannel(q) \/ PublishReturns(q)
      PROVE  Offering(p, e, i)'
  <2>1. CASE Publish(q)
    BY <1>1, <2>1 DEF Publish, Goto, BroadcasterTypes
  <2>2. CASE NextChannel(q)
    <3>1. PICK c \in clients : /\ at' = [at EXCEPT ![q] = c]
                               /\ offered' = [offered EXCEPT ![q] = @ \cup {c}]
      BY <2>2 DEF NextChannel, Ahead
    <3>2. at[q] = NoID /\ UNCHANGED <<event, pc>>
      BY <2>2 DEF NextChannel
    <3>3. CASE p = q
      <4>1. at'[p] = c /\ offered'[p] = offered[p] \cup {c}
        BY <1>1, <3>1, <3>3 DEF BroadcasterTypes
      <4>2. i # NoID
        BY <1>1 DEF BroadcasterTypes, Ids, NoID
      <4> QED BY <3>2, <3>3, <4>1, <4>2
    <3>4. CASE p # q
      BY <1>1, <3>1, <3>2, <3>4 DEF BroadcasterTypes
    <3> QED BY <3>3, <3>4
  <2>3. CASE PublishReturns(q)
    BY <1>1, <2>3 DEF PublishReturns, Goto, BroadcasterTypes, Ids, NoID
  <2> QED BY <1>3, <2>1, <2>2, <2>3
<1>4. ASSUME NEW q \in Publishers, Send(q)
      PROVE  Offering(p, e, i)' \/ Got(i, e)' \/ (Drops(p) /\ at[p] = i)
  <2>1. CASE p = q /\ at[p] = i
    <3>1. at'[p] = NoID /\ at[p] # NoID
      BY <1>1, <1>4, <2>1 DEF Send, BroadcasterTypes
    <3>2. ~Full(i) => Got(i, e)'
      BY <1>4, <2>1, SendStores
    <3> QED BY <2>1, <3>1, <3>2 DEF Drops
  <2>2. CASE p # q \/ at[p] # i
    BY <1>1, <1>4, <2>2 DEF Send, BroadcasterTypes
  <2> QED BY <2>1, <2>2
<1>5. CASE UNCHANGED vars
  BY <1>5 DEF vars, publisher
<1> QED BY <1>2, <1>3, <1>4, <1>5 DEF Next, Working

\* What a channel has been sent stays sent.
LEMMA GotKeeps ==
  ASSUME BroadcastInv, CallsInv, Next \/ UNCHANGED vars, NEW i \in Ids, NEW e, Got(i, e)
  PROVE  Got(i, e)'
<1>1. CASE Sent(i)' = Sent(i)
  BY <1>1 DEF Got
<1>2. ASSUME NEW q \in Publishers, Send(q) PROVE Got(i, e)'
  <2>1. PICK c, x : c = at[q] /\ x = event[q]
    OBVIOUS
  <2> QED BY <1>2, <2>1, SendStores
<1>3. CASE UNCHANGED vars
  BY <1>1, <1>3 DEF vars, channels, Sent
<1> QED BY <1>1, <1>2, <1>3, OthersStep, PublisherStep DEF Next, Working

\* A stream that is served with its channel in the map was, unless it registers.
LEMMA StreamKeeps ==
  ASSUME BroadcastInv, CallsInv, Next \/ UNCHANGED vars, NEW s \in Streams,
         pc'[s] = "stream", sub'[s] \in clients', ~Registered(s)
  PROVE  pc[s] = "stream" /\ sub'[s] = sub[s] /\ sub[s] \in clients
<1> USE BroadcasterAssumption DEF Registered, Threads
<1>1. BroadcasterTypes /\ OwnIds /\ ~(pc[s] = "subscribe")
  BY DEF CallsInv, BroadcastInv
<1>2. CASE \/ \E p \in Publishers : Publish(p) \/ NextChannel(p) \/ Send(p) \/ PublishReturns(p)
           \/ \E t \in Threads : Lock(t)
           \/ Shutdown \/ CloseOne \/ CloseReturns \/ UNCHANGED vars
  BY <1>1, <1>2 DEF BroadcasterTypes, Publish, NextChannel, Send, PublishReturns, Lock, Shutdown,
                    CloseOne, CloseReturns, Goto, channels, vars
<1>3. ASSUME NEW t \in Streams, Subscribe(t) \/ Receive(t) \/ Leave(t) \/ Unsub(t)
      PROVE  pc[s] = "stream" /\ sub'[s] = sub[s] /\ sub[s] \in clients
  <2>1. clients' \subseteq clients
    BY <1>3 DEF Subscribe, Receive, Leave, Unsub, Remove, channels
  <2>2. t # s => pc'[s] = pc[s] /\ sub'[s] = sub[s]
    BY <1>1, <1>3 DEF BroadcasterTypes, Subscribe, Receive, Leave, Unsub, Goto
  <2>3. t = s => Receive(s)
    BY <1>1, <1>3 DEF BroadcasterTypes, Subscribe, Leave, Unsub, Goto
  <2> QED BY <2>1, <2>2, <2>3 DEF Receive
<1>4. ASSUME NEW t \in Streams, Register(t)
      PROVE  pc[s] = "stream" /\ sub'[s] = sub[s] /\ sub[s] \in clients
  <2>1. t # s
    BY <1>1, <1>4 DEF Register
  <2>2. pc'[s] = pc[s] /\ sub' = sub /\ clients' = clients \cup {sub[t]}
    BY <1>1, <1>4, <2>1 DEF BroadcasterTypes, Register, Goto
  <2>3. sub[t] # sub[s]
    BY <1>1, <1>4, <2>1 DEF OwnIds, Register
  <2> QED BY <2>2, <2>3
<1> QED BY <1>2, <1>3, <1>4 DEF Next, Working

\* No client that an event was reaching is lost, while nothing is changed.
LEMMA ReachingKeeps ==
  ASSUME BroadcastInv, BroadcastInv', CallsInv, Next \/ UNCHANGED vars, HistoryNext,
         commits \in Nat, UNCHANGED commits, NEW e, Reaching(e)
  PROVE  Reaching(e)'
<1> SUFFICES ASSUME NEW s \in Streams, Owed(s)'
             PROVE  (Told(sub[s], e) \/ \E p \in Publishers : Offering(p, e, sub[s]))'
  BY DEF Reaching
<1>1. pc'[s] = "stream" /\ sub'[s] \in clients' /\ since'[s] < commits
  BY DEF Owed
<1>2. ~Registered(s) /\ since'[s] = since[s]
  BY <1>1 DEF HistoryNext
<1>3. Owed(s) /\ sub'[s] = sub[s]
  BY <1>1, <1>2, StreamKeeps DEF Owed
<1>4. PICK i \in Ids : i = sub[s] /\ i = sub'[s] /\ i \in clients /\ i \in clients'
  BY <1>1, <1>3 DEF Owed, CallsInv, BroadcasterTypes
<1>5. Told(i, e) \/ \E p \in Publishers : Offering(p, e, i)
  BY <1>3, <1>4 DEF Reaching
<1>6. missed \subseteq missed'
  BY DEF HistoryNext
<1>7. Told(i, e)' \/ \E p \in Publishers : Offering(p, e, i)'
  <2>1. CASE Told(i, e)
    BY <1>6, <2>1, GotKeeps DEF Told
  <2>2. ASSUME NEW p \in Publishers, Offering(p, e, i)
        PROVE  Told(i, e)' \/ Offering(p, e, i)'
    <3>1. CASE Drops(p) /\ at[p] = i
      <4>1. <<event[p], at[p]>> \in missed'
        BY <3>1 DEF HistoryNext
      <4> QED BY <2>2, <3>1, <4>1 DEF Offering, Told
    <3> QED BY <1>4, <2>2, <3>1, OfferingKeeps DEF Told
  <2> QED BY <1>5, <2>1, <2>2
<1> QED BY <1>4, <1>7 DEF Told, Got, Sent, Offering

-----------------------------------------------------------------------------
(* What the steps of the process do to it. *)

Known == /\ KeysTyped /\ BroadcastInv /\ CallsInv /\ AnnouncementInv
         /\ BroadcastInv' /\ HistoryNext

Busy == {"readback", "publish", "publishing"}

LEMMA SinceTyped ==
  ASSUME Books, HistoryNext, commits' \in Nat, commits <= commits'
  PROVE  since' \in [Streams -> 0 .. commits'] /\ untold' \subseteq 0 .. commits'
<1>1. since' \in [Streams -> 0 .. commits']
  BY DEF Books, HistoryNext
<1>2. untold \subseteq 0 .. commits' /\ \A p \in Publishers : shows[p] \in 0 .. commits'
  BY DEF Books
<1>3. untold' \subseteq untold \cup {commits'} \cup {shows[p] : p \in Publishers}
  BY Zenon DEF HistoryNext
<1>4. untold' \subseteq 0 .. commits'
  <2>1. commits' \in 0 .. commits' /\ {shows[p] : p \in Publishers} \subseteq 0 .. commits'
    BY <1>2
  <2> QED BY <1>2, <1>3, <2>1
<1> QED BY <1>1, <1>4

\* What is not announced never is.
LEMMA DueKeeps == ASSUME HistoryNext, UNCHANGED commits, Due' PROVE Due
BY DEF HistoryNext, Due

LEMMA NextStep == ASSUME HistoryNext PROVE Next \/ UNCHANGED vars
BY ServerStep DEF HistoryNext

\* Nothing is changed, and no handler that is announcing a change moves but by
\* failing.
Still == /\ UNCHANGED <<commits, shows, payload, events>> /\ (present => present')
         /\ DBOpen' => DBOpen
         /\ \A p \in Publishers : pc'[p] = "publish" => pc[p] = "publish"
         /\ \A p \in Publishers :
              step'[p] = step[p] \/ step[p] \notin Busy \/ (step[p] = "readback" /\ ~DBOpen')

LEMMA StillKeeps ==
  ASSUME Known, Still
  PROVE  AnnouncementInv'
<1> USE DEF Known, AnnouncementInv, Still, Busy
<1>1. Books'
  BY SinceTyped DEF Books
<1>2. Linked'
  BY DEF Linked
<1>3. ASSUME DBOpen' PROVE Ours'
  BY <1>3 DEF Ours
<1>4. ASSUME DBOpen', Due' PROVE Announced'
  <2>0. Due
    BY <1>4, DueKeeps
  <2>1. CASE \E p \in Publishers : Pending(p)
    BY <1>4, <2>1 DEF Pending, Announced
  <2>2. ASSUME NEW e \in Events, payload[e] = commits, Reaching(e) PROVE Announced'
    <3>1. Reaching(e)'
      BY <2>2, NextStep, ReachingKeeps DEF Books
    <3> QED BY <2>2, <3>1 DEF Announced
  <2> QED BY <1>4, <2>0, <2>1, <2>2 DEF Announced
<1> QED BY <1>1, <1>2, <1>3, <1>4

\* A change: its handler is to publish it.
Committed(p) ==
  /\ UNCHANGED <<vars, main, payload>>
  /\ commits' = commits + 1 /\ shows' = [shows EXCEPT ![p] = commits + 1]
  /\ step[p] \notin Busy
  /\ \/ step' = [step EXCEPT ![p] = "publish"]
     \/ step' = [step EXCEPT ![p] = "readback"] /\ present'

LEMMA CommittedKeeps ==
  ASSUME Known, NEW p \in Publishers, Committed(p)
  PROVE  AnnouncementInv'
<1> USE DEF Known, AnnouncementInv, Committed, Busy
<1>1. commits \in Nat /\ step \in [Handlers -> Steps] /\ p \in Handlers
  BY DEF Books, KeysTyped, Handlers
<1>2. Books'
  BY <1>1, SinceTyped DEF Books, vars, publisher
<1>3. Linked'
  BY <1>1 DEF Linked, vars, Handlers
<1>4. Ours'
  <2> SUFFICES ASSUME NEW q \in Publishers, shows'[q] = commits'
               PROVE  step'[q] \in {"publish", "publishing"} \/ (step'[q] = "readback" /\ present')
    BY DEF Ours
  <2>1. q = p
    BY <1>1 DEF Books
  <2> QED BY <1>1, <2>1
<1>5. Pending(p)'
  BY <1>1 DEF Pending, Books
<1> QED BY <1>2, <1>3, <1>4, <1>5 DEF Announced

\* UpdateFlag's write hits a row that is not the one that was read.
LEMMA MixKeeps ==
  ASSUME Known, NEW p \in Publishers, WriteFlag(p), present, p \in stale
  PROVE  AnnouncementInv'
<1> USE DEF Known, AnnouncementInv
<1>1. /\ step[p] = "write" /\ step' = [step EXCEPT ![p] = "publish"] /\ DBOpen
      /\ shows' = [shows EXCEPT ![p] = NotStored] /\ commits' = commits + 1
      /\ UNCHANGED <<vars, payload>>
  BY DEF WriteFlag, Continue
<1>2. commits \in Nat /\ step \in [Handlers -> Steps] /\ p \in Handlers
  BY DEF Books, KeysTyped, Handlers
<1>3. Books'
  BY <1>1, <1>2, SinceTyped DEF Books, NotStored, vars, publisher
<1>4. Linked'
  BY <1>1, <1>2 DEF Linked, Handlers, vars
<1>5. Ours'
  BY <1>1, <1>2 DEF Ours, Books, NotStored, Handlers
<1>6. Mixes(p)
  BY <1>1, <1>2 DEF Mixes
<1>7. commits' \in untold'
  BY <1>6 DEF HistoryNext
<1> QED BY <1>3, <1>4, <1>5, <1>7 DEF Due

\* It hits no row: the state it is to publish was never stored.
LEMMA MissKeeps ==
  ASSUME Known, NEW p \in Publishers, WriteFlag(p), ~present
  PROVE  AnnouncementInv'
<1> USE DEF Known, AnnouncementInv
<1>1. /\ step[p] = "write" /\ step' = [step EXCEPT ![p] = "publish"] /\ DBOpen
      /\ shows' = [shows EXCEPT ![p] = NotStored]
      /\ UNCHANGED <<vars, payload, commits, present>>
  BY DEF WriteFlag, Continue
<1>2. commits \in Nat /\ step \in [Handlers -> Steps] /\ p \in Handlers
  BY DEF Books, KeysTyped, Handlers
<1>3. Books'
  BY <1>1, <1>2, SinceTyped DEF Books, NotStored, vars, publisher
<1>4. Linked'
  BY <1>1, <1>2 DEF Linked, Handlers, vars
<1>5. Ours'
  BY <1>1, <1>2 DEF Ours, Books, NotStored, Handlers
<1>6. ASSUME Due' PROVE Announced'
  <2>0. Due
    BY <1>1, <1>6, DueKeeps
  <2>1. ASSUME NEW q \in Publishers, Pending(q) PROVE Pending(q)'
    BY <1>1, <1>2, <2>0, <2>1 DEF Pending, Books, Handlers, Due
  <2>2. ASSUME NEW e \in Events, payload[e] = commits, Reaching(e) PROVE Announced'
    <3>1. Reaching(e)'
      BY <1>1, <1>2, <2>2, NextStep, ReachingKeeps
    <3> QED BY <1>1, <2>2, <3>1 DEF Announced
  <2> QED BY <1>1, <2>0, <2>1, <2>2 DEF Announced
<1> QED BY <1>1, <1>3, <1>4, <1>5, <1>6

\* The read back of a toggle fails: its change, if it is the last, is not due.
LEMMA ReadBackFailsKeeps ==
  ASSUME Known, NEW p \in Publishers, ReadBackFails(p)
  PROVE  AnnouncementInv'
<1> USE DEF Known, AnnouncementInv
<1>1. /\ step[p] = "readback" /\ step' = [step EXCEPT ![p] = "idle"] /\ DBOpen
      /\ shows' = [shows EXCEPT ![p] = NotStored]
      /\ UNCHANGED <<vars, payload, commits, present>>
  BY DEF ReadBackFails, Answer, store
<1>2. commits \in Nat /\ step \in [Handlers -> Steps] /\ p \in Handlers
  BY DEF Books, KeysTyped, Handlers
<1>3. Books'
  BY <1>1, <1>2, SinceTyped DEF Books, NotStored, vars, publisher
<1>4. Linked'
  BY <1>1, <1>2 DEF Linked, Handlers, vars
<1>5. Ours'
  BY <1>1, <1>2 DEF Ours, Books, NotStored, Handlers
<1>6. ASSUME Due' PROVE Announced'
  <2>0. Due
    BY <1>1, <1>6, DueKeeps
  <2>1. ASSUME NEW q \in Publishers, Pending(q) PROVE Pending(q)'
    <3>1. Hushes(p)
      BY <1>1, <1>2 DEF Hushes
    <3>2. shows[p] \in untold'
      BY <3>1 DEF HistoryNext
    <3>3. q # p
      BY <1>1, <1>6, <2>1, <3>2 DEF Pending, Due
    <3> QED BY <1>1, <1>2, <2>1, <3>3 DEF Pending, Books, Handlers
  <2>2. ASSUME NEW e \in Events, payload[e] = commits, Reaching(e) PROVE Announced'
    <3>1. Reaching(e)'
      BY <1>1, <1>2, <2>2, NextStep, ReachingKeeps
    <3> QED BY <1>1, <2>2, <3>1 DEF Announced
  <2> QED BY <1>1, <2>0, <2>1, <2>2 DEF Announced
<1> QED BY <1>1, <1>3, <1>4, <1>5, <1>6

\* The read back: what is there now is what the last change stored.
LEMMA ReadBackKeeps ==
  ASSUME Known, NEW p \in Publishers, ReadBack(p)
  PROVE  AnnouncementInv'
<1> USE DEF Known, AnnouncementInv
<1>1. /\ step[p] = "readback" /\ DBOpen
      /\ UNCHANGED <<vars, payload, commits, present>>
  BY DEF ReadBack, store
<1>2. commits \in Nat /\ step \in [Handlers -> Steps] /\ p \in Handlers
  BY DEF Books, KeysTyped, Handlers
<1>3. CASE present
  <2>1. shows' = [shows EXCEPT ![p] = commits] /\ step' = [step EXCEPT ![p] = "publish"]
    BY <1>3 DEF ReadBack, Continue
  <2>2. Books'
    BY <1>1, <1>2, <2>1, SinceTyped DEF Books, vars, publisher
  <2>3. Linked'
    BY <1>1, <1>2, <2>1 DEF Linked, Handlers, vars
  <2>4. Ours'
    BY <1>1, <1>2, <2>1 DEF Ours, Books, Handlers
  <2>5. Pending(p)'
    BY <1>1, <1>2, <2>1 DEF Pending, Books, Handlers
  <2> QED BY <2>2, <2>3, <2>4, <2>5 DEF Announced
<1>4. CASE ~present
  <2>1. shows' = shows /\ step' = [step EXCEPT ![p] = "idle"]
    BY <1>4 DEF ReadBack, Answer
  <2>2. Books'
    BY <1>1, <1>2, <2>1, SinceTyped DEF Books, vars, publisher
  <2>3. Linked'
    BY <1>1, <1>2, <2>1 DEF Linked, Handlers, vars
  <2>4. Ours'
    BY <1>1, <1>2, <1>4, <2>1 DEF Ours, Books, Handlers
  <2>5. ASSUME Due' PROVE Announced'
    <3>0. Due
      BY <1>1, <2>5, DueKeeps
    <3>1. ASSUME NEW q \in Publishers, Pending(q) PROVE Pending(q)'
      BY <1>1, <1>2, <1>4, <2>1, <3>0, <3>1 DEF Pending, Ours, Books, Handlers, Due
    <3>2. ASSUME NEW e \in Events, payload[e] = commits, Reaching(e) PROVE Announced'
      <4>1. Reaching(e)'
        BY <1>1, <1>2, <3>2, NextStep, ReachingKeeps
      <4> QED BY <1>1, <3>2, <4>1 DEF Announced
    <3> QED BY <1>1, <3>0, <3>1, <3>2 DEF Announced
  <2> QED BY <1>1, <2>2, <2>3, <2>4, <2>5
<1> QED BY <1>3, <1>4

\* The call of Publish: the range is ahead of every client.
LEMMA PublishChangeKeeps ==
  ASSUME Known, NEW p \in Publishers, PublishChange(p)
  PROVE  AnnouncementInv'
<1> USE DEF Known, AnnouncementInv
<1> DEFINE x == events + 1
<1>1. /\ step[p] = "publish" /\ step' = [step EXCEPT ![p] = "publishing"]
      /\ payload' = [payload EXCEPT ![x] = shows[p]]
      /\ UNCHANGED <<commits, present, shows, main>>
      /\ pc[p] = "idle" /\ pc' = [pc EXCEPT ![p] = "publish"]
      /\ events' = x /\ event' = [event EXCEPT ![p] = x] /\ UNCHANGED offered
      /\ events < MaxEvents
  BY DEF PublishChange, Publish, Goto, Continue, store
<1>2. /\ commits \in Nat /\ step \in [Handlers -> Steps] /\ p \in Handlers
      /\ p \in Threads /\ events \in Nat /\ x \in Events /\ offered[p] = {}
      /\ BroadcasterTypes
  BY <1>1, BroadcasterAssumption
  DEF Books, KeysTyped, Handlers, Threads, CallsInv, BroadcasterTypes, Calls, Events
<1>3. Books'
  <2>1. payload' \in [Events -> 0 .. commits']
    BY <1>1, <1>2 DEF Books
  <2>2. \A e \in Events : e > events' => payload'[e] = NotStored
    BY <1>1, <1>2 DEF Books, Events
  <2> QED BY <1>1, <1>2, <2>1, <2>2, SinceTyped DEF Books
<1>4. Linked'
  BY <1>1, <1>2 DEF Linked, Handlers, Threads, BroadcasterTypes
<1>5. ASSUME DBOpen PROVE Ours'
  BY <1>1, <1>2, <1>5 DEF Ours, Handlers
<1>6. ASSUME DBOpen, Due' PROVE Announced'
  <2>0. Due
    BY <1>1, <1>6, DueKeeps
  <2>1. CASE shows[p] = commits
    <3>1. payload'[x] = commits
      BY <1>1, <1>2, <2>1 DEF Books
    <3>2. pc'[p] = "publish" /\ event'[p] = x /\ offered'[p] = {}
      BY <1>1, <1>2 DEF BroadcasterTypes
    <3>3. \A i : pc'[p] = "publish" /\ event'[p] = events' /\ i \notin offered'[p]
      BY <1>1, <3>2
    <3>4. Reaching(events)'
      BY <3>3 DEF Reaching, Offering
    <3> QED BY <1>1, <1>2, <3>1, <3>4 DEF Announced
  <2>2. ASSUME NEW q \in Publishers, Pending(q), q # p PROVE Pending(q)'
    BY <1>1, <1>2, <2>2 DEF Pending, Handlers
  <2>3. ASSUME NEW e \in Events, payload[e] = commits, Reaching(e) PROVE Announced'
    <3>1. Reaching(e)'
      BY <1>1, <1>2, <2>3, NextStep, ReachingKeeps
    <3>2. payload'[e] = commits'
      BY <1>1, <1>2, <2>0, <2>3 DEF Books, NotStored, Events, Due
    <3> QED BY <2>3, <3>1, <3>2 DEF Announced
  <2> QED BY <1>6, <2>0, <2>1, <2>2, <2>3 DEF Announced, Pending
<1> QED BY <1>1, <1>3, <1>4, <1>5, <1>6 DEF DBOpen

\* Its return: the event has come to every client.
LEMMA AnswerChangeKeeps ==
  ASSUME Known, NEW p \in Publishers, AnswerChange(p)
  PROVE  AnnouncementInv'
<1> USE DEF Known, AnnouncementInv
<1>1. /\ pc[p] = "publish" /\ pc' = [pc EXCEPT ![p] = "idle"]
      /\ step' = [step EXCEPT ![p] = "idle"]
      /\ shows' = [shows EXCEPT ![p] = NotStored]
      /\ UNCHANGED <<commits, present, payload, main, events>>
  BY DEF AnswerChange, PublishReturns, Goto, Answer, store
<1>2. /\ commits \in Nat /\ step \in [Handlers -> Steps] /\ p \in Handlers /\ p \in Threads
      /\ BroadcasterTypes /\ step[p] = "publishing"
  BY <1>1 DEF Books, KeysTyped, Handlers, Threads, CallsInv, Linked
<1>3. Books'
  BY <1>1, <1>2, SinceTyped DEF Books, NotStored
<1>4. Linked'
  BY <1>1, <1>2 DEF Linked, Handlers, Threads, BroadcasterTypes
<1>5. ASSUME DBOpen PROVE Ours'
  BY <1>1, <1>2, <1>5 DEF Ours, Books, NotStored, Handlers
<1>6. ASSUME DBOpen, Due' PROVE Announced'
  <2>0. Due
    BY <1>1, <1>6, DueKeeps
  <2>1. ASSUME NEW q \in Publishers, Pending(q) PROVE Pending(q)'
    BY <1>1, <1>2, <2>0, <2>1 DEF Pending, Books, Handlers, Due
  <2>2. ASSUME NEW e \in Events, payload[e] = commits, Reaching(e) PROVE Announced'
    <3>1. Reaching(e)'
      BY <1>1, <1>2, <2>2, NextStep, ReachingKeeps
    <3> QED BY <1>1, <2>2, <3>1 DEF Announced
  <2> QED BY <1>6, <2>0, <2>1, <2>2 DEF Announced
<1> QED BY <1>1, <1>3, <1>4, <1>5, <1>6 DEF DBOpen

-----------------------------------------------------------------------------
(* Every step is one of those. *)

LEMMA AdministrationAnnounces ==
  ASSUME Known, NEW p \in Publishers, Administration(p)
  PROVE  AnnouncementInv'
<1>1. p \in Handlers /\ step \in [Handlers -> Steps]
  BY DEF Known, KeysTyped, Handlers
<1>2. CASE \/ CreateFlag(p) /\ ~present
           \/ (DeleteFlag(p) \/ ToggleFlag(p)) /\ present
           \/ WriteFlag(p) /\ present /\ p \notin stale
  <2>1. Committed(p)
    BY <1>2 DEF CreateFlag, DeleteFlag, ToggleFlag, WriteFlag, Serving, Commit, Continue,
                Committed, Busy
  <2> QED BY <2>1, CommittedKeeps
<1>3. CASE \/ CreateFlag(p) /\ present
           \/ (DeleteFlag(p) \/ ToggleFlag(p)) /\ ~present
           \/ ReadFlag(p) \/ HandleCreateKey(p) \/ HandleRevokeKey(p)
  <2>1. UNCHANGED <<commits, present, shows, payload, vars, main>> /\ step[p] = "serve"
    BY <1>3 DEF CreateFlag, DeleteFlag, ToggleFlag, ReadFlag, HandleCreateKey, HandleRevokeKey,
                Serving, Unchanged, Continue, Answer
  <2>2. \E l \in {"idle", "readback", "write"} : step' = [step EXCEPT ![p] = l]
    BY <1>3 DEF CreateFlag, DeleteFlag, ToggleFlag, ReadFlag, HandleCreateKey, HandleRevokeKey,
                Serving, Unchanged, Continue, Answer
  <2>3. Still
    BY <1>1, <2>1, <2>2 DEF Still, Busy, vars, publisher, DBOpen, Handlers
  <2> QED BY <2>3, StillKeeps
<1>4. CASE \/ WriteFlag(p) /\ (~present \/ p \in stale)
           \/ ReadBack(p) \/ ReadBackFails(p) \/ PublishChange(p) \/ AnswerChange(p)
  BY <1>4, MissKeeps, MixKeeps, ReadBackKeeps, ReadBackFailsKeeps, PublishChangeKeeps,
     AnswerChangeKeeps
<1> QED BY <1>2, <1>3, <1>4 DEF Administration

LEMMA OthersAnnounce ==
  ASSUME Known, Client \/ Signal \/ ListenFails \/ Main \/ \E t \in Threads :
           (t \in Streams /\ ClientRoutes(t)) \/ (t \in Handlers /\ Fail(t)) \/ Broadcast(t)
  PROVE  AnnouncementInv'
<1> USE DEF Continue, Answer
<1>1. /\ step \in [Handlers -> Steps] /\ BroadcasterTypes
      /\ Publishers \subseteq Handlers /\ Streams \subseteq Handlers
      /\ Publishers \subseteq Threads /\ Streams \subseteq Threads /\ Closer \in Threads /\ Publishers \cap Streams = {}
      /\ Closer \notin Publishers
  BY BroadcasterAssumption DEF Known, KeysTyped, CallsInv, Handlers, Threads
<1>2. CASE Client
  <2>1. ASSUME NEW q \in Publishers, NEW o, ArriveAdmin(q, o) PROVE Still
    BY <1>1, <2>1 DEF ArriveAdmin, Begin, Still, Busy, store, payloads, vars, publisher, DBOpen
  <2>2. ASSUME NEW s \in Streams, NEW o, NEW k, ArriveClient(s, o, k) PROVE Still
    BY <1>1, <2>2 DEF ArriveClient, Begin, Still, Busy, store, payloads, vars, publisher, DBOpen
  <2>3. ASSUME NEW s \in Streams, Receive(s) \/ Leave(s), Outside PROVE Still
    BY <1>1, <2>3 DEF Receive, Leave, Goto, Outside, Still, Busy, store, payloads, handler, publisher,
                      DBOpen, BroadcasterTypes
  <2> QED BY <1>2, <2>1, <2>2, <2>3, StillKeeps DEF Client
<1>3. CASE Signal \/ ListenFails \/ Main
  <2>1. UNCHANGED <<commits, present, shows, payload, events, step>> /\ (DBOpen' => DBOpen)
    BY <1>3 DEF Signal, ListenFails, Main, ShutdownReturns, CloseBroadcaster, Shutdown, CloseDB, Exit,
                store, payloads, handler, vars, publisher, DBOpen
  <2>2. \A p \in Publishers : pc'[p] = "publish" => pc[p] = "publish"
    BY <1>1, <1>3 DEF Signal, ListenFails, Main, ShutdownReturns, CloseBroadcaster, Shutdown, Goto, CloseDB,
                      Exit, vars, BroadcasterTypes
  <2> QED BY <2>1, <2>2, StillKeeps DEF Still, Busy
<1>4. ASSUME NEW s \in Streams, ClientRoutes(s) PROVE AnnouncementInv'
  <2>1. UNCHANGED <<commits, present, shows, payload, events, main>>
    BY <1>4 DEF ClientRoutes, RequireAPIKey, RecordUse, EvaluateFlag, OpenStream, CloseStream,
                Subscribe, Unsub, Serving, Unchanged, store, payloads, vars, publisher
  <2>2. \A p \in Publishers : step'[p] = step[p]
    BY <1>1, <1>4 DEF ClientRoutes, RequireAPIKey, Authenticated, RecordUse, EvaluateFlag,
                      OpenStream, CloseStream
  <2>3. \A p \in Publishers : pc'[p] = pc[p]
    BY <1>1, <1>4 DEF ClientRoutes, RequireAPIKey, RecordUse, EvaluateFlag, OpenStream,
                      CloseStream, Subscribe, Unsub, Goto, Serving, vars, BroadcasterTypes
  <2> QED BY <2>1, <2>2, <2>3, StillKeeps DEF Still, Busy, DBOpen
<1>5. ASSUME NEW t \in Handlers, Fail(t) PROVE AnnouncementInv'
  <2>1. UNCHANGED <<commits, present, shows, payload, events, main, pc>>
    BY <1>5 DEF Fail, store, payloads, vars, publisher
  <2>2. \A p \in Publishers : p # t => step'[p] = step[p]
    BY <1>1, <1>5 DEF Fail
  <2>3. step[t] \notin Busy \/ (step[t] = "readback" /\ ~DBOpen)
    BY <1>5 DEF Fail, Writing, Busy
  <2> QED BY <2>1, <2>2, <2>3, StillKeeps DEF Still, Busy, DBOpen
<1>6. ASSUME NEW t \in Threads, Broadcast(t) PROVE AnnouncementInv'
  <2>1. UNCHANGED <<commits, present, shows, payload, main, step>>
    BY <1>6 DEF Broadcast, Outside, store, payloads, handler
  <2>2. events' = events
    BY <1>6 DEF Broadcast, Lock, NextChannel, Send, Register, CloseOne, CloseReturns, publisher
  <2>3. \A p \in Publishers : pc'[p] = "publish" => pc[p] = "publish"
    BY <1>1, <1>6 DEF Broadcast, Lock, NextChannel, Send, Register, CloseOne, CloseReturns, Goto,
                      BroadcasterTypes
  <2> QED BY <2>1, <2>2, <2>3, StillKeeps DEF Still, Busy, DBOpen
<1> QED BY <1>2, <1>3, <1>4, <1>5, <1>6

-----------------------------------------------------------------------------
(* The theorem. *)

LEMMA AnnouncementNext ==
  ASSUME RevocationInv, BroadcastInv, BroadcastInv', CallsInv, AnnouncementInv,
         [HistoryNext]_<<serverVars, history>>
  PROVE  AnnouncementInv'
<1>1. CASE HistoryNext
  <2>1. Known
    BY <1>1 DEF Known, RevocationInv
  <2> QED BY <1>1, <2>1, AdministrationAnnounces, OthersAnnounce DEF HistoryNext, ServerNext, Progress
<1>2. CASE UNCHANGED <<serverVars, history>>
  <2>1. /\ UNCHANGED <<pc, sub, clients, since, untold, commits, missed, event, offered, at, received>>
        /\ UNCHANGED <<buffer, step, shows, payload, events, main>> /\ (present' <=> present)
    BY <1>2 DEF serverVars, history, vars, channels, publisher, handler, store, payloads
  <2>2. Books' /\ Linked' /\ (Ours => Ours')
    BY <2>1 DEF AnnouncementInv, Books, Linked, Ours
  <2>3. \A e \in Events : Reaching(e) => Reaching(e)'
    BY <2>1 DEF Reaching, Owed, Told, Offering, Got, Sent
  <2>4. Announced => Announced'
    BY <2>1, <2>3 DEF Announced, Pending
  <2> QED BY <2>1, <2>2, <2>4 DEF AnnouncementInv, DBOpen, Due
<1> QED BY <1>1, <1>2

LEMMA AnnouncementInit == HistoryInit => AnnouncementInv
<1> SUFFICES ASSUME HistoryInit PROVE AnnouncementInv
  OBVIOUS
<1>1. commits = 0 /\ Books
  BY DEF HistoryInit, ServerInit, Books, NotStored
<1>2. Linked
  BY DEF HistoryInit, ServerInit, Init, Linked, Threads
<1> QED BY <1>1, <1>2 DEF AnnouncementInv, Ours, Due

\* And says of a state where nobody is announcing anything.
LEMMA NobodyLeft == RevocationInv /\ CallsInv /\ AnnouncementInv => NobodyStaysBehind
<1> SUFFICES ASSUME RevocationInv, CallsInv, AnnouncementInv, DBOpen, commits \notin untold,
                    \A p \in Publishers : ~Announcing(p),
                    NEW s \in Streams, pc[s] = "stream", sub[s] \in clients, since[s] < commits
             PROVE  \E e \in Events : payload[e] = commits /\ Told(sub[s], e)
  BY DEF NobodyStaysBehind, Told, Got
<1>1. Owed(s) /\ Due
  BY DEF Owed, AnnouncementInv, Books, Due
<1>2. PICK e \in Events : payload[e] = commits /\ Reaching(e)
  BY <1>1 DEF AnnouncementInv, Announced, Pending, Announcing
<1>3. \A p \in Publishers : ~Offering(p, e, sub[s])
  BY DEF AnnouncementInv, Linked, Announcing, Offering
<1> QED BY <1>1, <1>2, <1>3 DEF Reaching

LEMMA ServerBroadcasts == HistorySpec => [](BroadcastInv /\ CallsInv)
<1>1. HistorySpec => ServerSpec
  <2>1. HistoryInit => ServerInit
    BY DEF HistoryInit
  <2>2. [HistoryNext]_<<serverVars, history>> => [ServerNext]_serverVars
    BY DEF HistoryNext
  <2> QED BY <2>1, <2>2, PTL DEF HistorySpec, ServerSpec
<1> QED BY <1>1, ServerUsesBroadcaster, BroadcasterHolds, PTL

LEMMA AnnouncementHolds == HistorySpec => []AnnouncementInv
BY RevocationInvHolds, ServerBroadcasts, AnnouncementInit, AnnouncementNext, PTL DEF HistorySpec

\* Whatever requests overlap, when none of them is announcing a change any more,
\* every client that was connected before the last one has been sent an event
\* that shows the row that is stored, unless its channel was full for it, or
\* that change is one its handler does not announce: an UPDATE of a row created
\* since it was read, a toggle whose read back failed.  For any number of
\* requests, handlers, streams and events (flags.go:80-91, :109-120,
\* store/flags.go:100, broadcaster.go:49-66).
THEOREM NobodyIsLeftBehind == HistorySpec => []NobodyStaysBehind
BY RevocationInvHolds, ServerBroadcasts, AnnouncementHolds, NobodyLeft, PTL

-----------------------------------------------------------------------------
(***************************************************************************)
(* The types.  No change is made but by a request that arrived, and no     *)
(* request makes two: the changes, and the handlers that may still make    *)
(* one, are no more than the requests.                                     *)
(***************************************************************************)

\* The handlers that have not made their change.
Unmade == {p \in Publishers : step[p] \in {"serve", "write"}}

Counted == IsFiniteSet(Unmade) /\ commits + Cardinality(Unmade) <= requests

Plain == /\ main \in {"serving", "draining", "closing", "stopped", "exited"}
         /\ connected \in BOOLEAN /\ plan \in Seq(Changes \cup KeyOps)
         /\ requests \in 0 .. MaxEvents - Len(plan)
         /\ op \in [Handlers -> Ops \cup {"none"}] /\ present \in BOOLEAN
         /\ stale \subseteq Publishers /\ missed \subseteq Events \X Ids

TypeInv == Plain /\ Counted

-----------------------------------------------------------------------------
(* Steps. *)

\* Requests that were counted stay counted.
LEMMA Fewer ==
  ASSUME Counted, commits \in Nat, requests \in Nat, UNCHANGED <<commits, requests>>,
         \A p \in Publishers : step'[p] \in {"serve", "write"} => step[p] \in {"serve", "write"}
  PROVE  Counted'
<1>1. Unmade' \subseteq Unmade
  BY DEF Unmade
<1>2. /\ IsFiniteSet(Unmade') /\ Cardinality(Unmade') <= Cardinality(Unmade)
      /\ Cardinality(Unmade) \in Nat /\ Cardinality(Unmade') \in Nat
  BY <1>1, FS_Subset, FS_CardinalityType DEF Counted
<1> QED BY <1>2 DEF Counted

\* A request is counted when it arrives,
LEMMA Arriving ==
  ASSUME Counted, commits \in Nat, requests \in Nat, UNCHANGED commits, requests' = requests + 1,
         NEW p \in Publishers, step[p] = "idle", step \in [Handlers -> Steps],
         step' = [step EXCEPT ![p] = "serve"]
  PROVE  Counted'
<1>1. Unmade' = Unmade \cup {p} /\ p \notin Unmade
  BY DEF Unmade, Handlers
<1>2. /\ IsFiniteSet(Unmade') /\ Cardinality(Unmade') = Cardinality(Unmade) + 1
      /\ Cardinality(Unmade) \in Nat
  BY <1>1, FS_AddElement, FS_CardinalityType DEF Counted
<1> QED BY <1>2 DEF Counted

\* and makes one change.
LEMMA Making ==
  ASSUME Counted, commits \in Nat, requests \in Nat, UNCHANGED requests, commits' = commits + 1,
         NEW p \in Publishers, step[p] \in {"serve", "write"}, step \in [Handlers -> Steps],
         NEW l \in Busy, step' = [step EXCEPT ![p] = l]
  PROVE  Counted'
<1>1. Unmade' = Unmade \ {p} /\ p \in Unmade
  BY DEF Unmade, Handlers, Busy
<1>2. /\ IsFiniteSet(Unmade') /\ Cardinality(Unmade') = Cardinality(Unmade) - 1
      /\ Cardinality(Unmade) \in Nat
  BY <1>1, FS_RemoveElement, FS_CardinalityType DEF Counted
<1> QED BY <1>2 DEF Counted

LEMMA AdministrationCounts ==
  ASSUME Counted, Books, KeysTyped, requests \in Nat, NEW p \in Publishers, Administration(p)
  PROVE  Counted'
<1> USE DEF Serving, Unchanged, Commit, Continue, Answer
<1>1. commits \in Nat /\ p \in Handlers /\ step \in [Handlers -> Steps]
  BY DEF Books, KeysTyped, Handlers
<1>2. CASE \/ CreateFlag(p) /\ ~present
           \/ (DeleteFlag(p) \/ ToggleFlag(p) \/ WriteFlag(p)) /\ present
  <2>1. /\ step[p] \in {"serve", "write"} /\ UNCHANGED requests /\ commits' = commits + 1
        /\ \E l \in Busy : step' = [step EXCEPT ![p] = l]
    BY <1>2 DEF CreateFlag, DeleteFlag, ToggleFlag, WriteFlag, Busy
  <2> QED BY <1>1, <2>1, Making
<1>3. CASE \/ CreateFlag(p) /\ present
           \/ (DeleteFlag(p) \/ ToggleFlag(p) \/ WriteFlag(p)) /\ ~present
           \/ ReadFlag(p) \/ HandleCreateKey(p) \/ HandleRevokeKey(p)
           \/ ReadBack(p) \/ ReadBackFails(p) \/ PublishChange(p) \/ AnswerChange(p)
  <2>1. UNCHANGED <<commits, requests>>
    BY <1>3 DEF CreateFlag, DeleteFlag, ToggleFlag, WriteFlag, ReadFlag, HandleCreateKey,
                HandleRevokeKey, ReadBack, ReadBackFails, PublishChange, AnswerChange, store
  <2>2. PICK l : /\ step' = [step EXCEPT ![p] = l]
                 /\ l \in {"serve", "write"} => step[p] \in {"serve", "write"}
    BY <1>3 DEF CreateFlag, DeleteFlag, ToggleFlag, WriteFlag, ReadFlag, HandleCreateKey,
                HandleRevokeKey, ReadBack, ReadBackFails, PublishChange, AnswerChange
  <2>3. \A q \in Publishers : step'[q] \in {"serve", "write"} => step[q] \in {"serve", "write"}
    BY <1>1, <2>2 DEF Handlers
  <2> QED BY <1>1, <2>1, <2>3, Fewer
<1> HIDE DEF Serving, Unchanged, Commit, Continue, Answer
<1> QED BY <1>2, <1>3 DEF Administration

LEMMA CountedStep ==
  ASSUME Counted, Books, KeysTyped, requests \in Nat, ServerNext
  PROVE  Counted'
<1>1. commits \in Nat /\ step \in [Handlers -> Steps] /\ Publishers \cap Streams = {}
  BY BroadcasterAssumption DEF Books, KeysTyped
<1>2. ASSUME UNCHANGED <<commits, handler>> PROVE Counted'
  BY <1>1, <1>2, Fewer DEF handler
<1>3. ASSUME NEW t \in Streams, UNCHANGED <<commits, requests>>,
             NEW l, step' = [step EXCEPT ![t] = l]
      PROVE  Counted'
  BY <1>1, <1>3, Fewer DEF Handlers
<1>4. CASE Client
  <2>1. ASSUME NEW p \in Publishers, NEW o, ArriveAdmin(p, o) PROVE Counted'
    BY <1>1, <2>1, Arriving DEF ArriveAdmin, Begin, store
  <2>2. ASSUME NEW s \in Streams, NEW o, NEW k, ArriveClient(s, o, k) PROVE Counted'
    BY <2>2, <1>3 DEF ArriveClient, Begin, store
  <2>3. Outside => Counted'
    BY <1>2 DEF Outside, store
  <2> QED BY <1>4, <2>1, <2>2, <2>3 DEF Client
<1>5. CASE Signal \/ ListenFails \/ Main
  BY <1>2, <1>5 DEF Signal, ListenFails, Main, ShutdownReturns, CloseBroadcaster, CloseDB, Exit, store
<1>6. ASSUME NEW t \in Threads, Progress(t) PROVE Counted'
  <2>1. CASE t \in Publishers /\ Administration(t)
    BY <2>1, AdministrationCounts
  <2>2. CASE t \in Streams /\ ClientRoutes(t)
    <3>1. UNCHANGED <<commits, requests>>
      BY <2>2 DEF ClientRoutes, RequireAPIKey, RecordUse, EvaluateFlag, OpenStream, CloseStream,
                  Authenticated, Continue, Answer, Serving, Unchanged, store
    <3>2. \E l : step' = [step EXCEPT ![t] = l]
      BY <2>2 DEF ClientRoutes, RequireAPIKey, RecordUse, EvaluateFlag, OpenStream, CloseStream,
                  Authenticated, Continue, Answer
    <3> QED BY <2>2, <3>1, <3>2, <1>3
  <2>3. CASE t \in Handlers /\ Fail(t)
    <3>1. \A p \in Publishers : step'[p] = step[p] \/ step'[p] = "idle"
      BY <1>1, <2>3 DEF Fail, Answer, Handlers
    <3>2. UNCHANGED <<commits, requests>>
      BY <2>3 DEF Fail, Answer, store
    <3> QED BY <1>1, <3>1, <3>2, Fewer
  <2>4. CASE Broadcast(t)
    BY <2>4, <1>2 DEF Broadcast, Outside, store
  <2> QED BY <1>6, <2>1, <2>2, <2>3, <2>4 DEF Progress
<1> QED BY <1>4, <1>5, <1>6 DEF ServerNext

\* What serveCmd and the requests keep in the process.
LEMMA PlainStep ==
  ASSUME Plain, ServerNext
  PROVE  /\ main' \in {"serving", "draining", "closing", "stopped", "exited"}
         /\ connected' \in BOOLEAN /\ plan' \in Seq(Changes \cup KeyOps)
         /\ requests' \in 0 .. MaxEvents - Len(plan')
         /\ op' \in [Handlers -> Ops \cup {"none"}]
<1> DEFINE Mains == {"serving", "draining", "closing", "stopped", "exited"}
<1> USE ServerAssumption DEF Plain, Handlers
<1>1. CASE Client
  <2>1. ASSUME NEW p \in Publishers, NEW o \in Changes \cup KeyOps, ArriveAdmin(p, o)
        PROVE  /\ plan' \in Seq(Changes \cup KeyOps) /\ requests' \in 0 .. MaxEvents - Len(plan')
               /\ op' \in [Handlers -> Ops \cup {"none"}] /\ UNCHANGED <<main, connected>>
    <3>1. plan # <<>> /\ plan' = Tail(plan) /\ requests' = requests + 1
      BY <2>1 DEF ArriveAdmin
    <3>2. plan' \in Seq(Changes \cup KeyOps) /\ Len(plan') = Len(plan) - 1 /\ Len(plan) \in Nat
      BY <3>1
    <3>3. requests' \in 0 .. MaxEvents - Len(plan')
      BY <3>1, <3>2, BroadcasterAssumption
    <3> QED BY <2>1, <3>2, <3>3 DEF ArriveAdmin, Begin, Ops
  <2>2. ASSUME NEW s \in Streams, NEW o \in ClientOps, NEW k, ArriveClient(s, o, k)
        PROVE  /\ UNCHANGED <<plan, requests>> /\ op' \in [Handlers -> Ops \cup {"none"}]
               /\ UNCHANGED <<main, connected>>
    BY <2>2 DEF ArriveClient, Begin, Ops
  <2>3. Outside => UNCHANGED <<main, connected, plan, requests, op>>
    BY DEF Outside, handler
  <2> QED BY <1>1, <2>1, <2>2, <2>3 DEF Client
<1>2. CASE Signal \/ ListenFails \/ Main
  <2>1. main' \in Mains /\ (UNCHANGED connected \/ connected' = FALSE)
    BY <1>2 DEF Signal, ListenFails, Main, ShutdownReturns, CloseBroadcaster, CloseDB, Exit
  <2>2. connected' \in BOOLEAN
    BY <2>1, Zenon
  <2>3. UNCHANGED <<plan, requests, op>>
    BY <1>2 DEF Signal, ListenFails, Main, ShutdownReturns, CloseBroadcaster, CloseDB, Exit, handler
  <2> QED BY <2>1, <2>2, <2>3
<1>3. ASSUME NEW t \in Threads, Progress(t)
      PROVE  UNCHANGED <<main, connected, plan, requests>> /\ op' \in [Handlers -> Ops \cup {"none"}]
  <2>1. CASE t \in Publishers /\ Administration(t)
    BY <2>1 DEF Administration, CreateFlag, DeleteFlag, ToggleFlag, WriteFlag, ReadFlag,
                HandleCreateKey, HandleRevokeKey, ReadBack, ReadBackFails, PublishChange,
                AnswerChange, Serving,
                Continue, Answer
  <2>2. CASE t \in Streams /\ ClientRoutes(t)
    BY <2>2 DEF ClientRoutes, RequireAPIKey, RecordUse, EvaluateFlag, OpenStream, CloseStream,
                Authenticated, Continue, Answer, Serving
  <2>3. CASE t \in Handlers /\ Fail(t)
    BY <2>3 DEF Fail, Answer
  <2>4. CASE Broadcast(t)
    BY <2>4 DEF Broadcast, Outside, handler
  <2> QED BY <1>3, <2>1, <2>2, <2>3, <2>4 DEF Progress
<1> QED BY <1>1, <1>2, <1>3 DEF ServerNext

LEMMA PresentStep ==
  ASSUME present \in BOOLEAN, ServerNext
  PROVE  present' \in BOOLEAN
<1>1. present' = present \/ present' = TRUE \/ present' = FALSE
  <2>1. ASSUME NEW p, Administration(p)
        PROVE  present' = present \/ present' = TRUE \/ present' = FALSE
    BY <2>1, Zenon
    DEF Administration, CreateFlag, DeleteFlag, ToggleFlag, WriteFlag, ReadFlag, HandleCreateKey,
        HandleRevokeKey, ReadBack, ReadBackFails, PublishChange, AnswerChange, Commit, Unchanged,
        store
  <2>2. ASSUME NEW t, ClientRoutes(t) \/ Fail(t) \/ Broadcast(t)
        PROVE  present' = present
    BY <2>2 DEF ClientRoutes, RequireAPIKey, RecordUse, EvaluateFlag, OpenStream, CloseStream,
                Fail, Broadcast, Outside, Unchanged, store
  <2>3. Client \/ Signal \/ ListenFails \/ Main => present' = present
    <3>1. Client => present' = present
      BY DEF Client, ArriveAdmin, ArriveClient, Outside, store
    <3>2. Signal \/ ListenFails \/ Main => present' = present
      BY DEF Signal, ListenFails, Main, ShutdownReturns, CloseBroadcaster, CloseDB, Exit, store
    <3> QED BY <3>1, <3>2
  <2>4. ASSUME NEW t \in Threads, Progress(t)
        PROVE  present' = present \/ present' = TRUE \/ present' = FALSE
    <3>1. Administration(t) \/ ClientRoutes(t) \/ Fail(t) \/ Broadcast(t)
      BY <2>4 DEF Progress
    <3> QED BY <2>1, <2>2, <3>1, Zenon
  <2>5. Client \/ Signal \/ ListenFails \/ Main \/ \E t \in Threads : Progress(t)
    BY DEF ServerNext
  <2> QED BY <2>3, <2>4, <2>5, Zenon
<1> QED BY <1>1, Zenon

\* A delete makes updates stale, and their end takes it back.
LEMMA StaleStep ==
  ASSUME stale \subseteq Publishers, ServerNext
  PROVE  stale' \subseteq Publishers
<1>1. ASSUME NEW p, Administration(p) PROVE stale' \subseteq Publishers
  BY <1>1 DEF Administration, CreateFlag, DeleteFlag, ToggleFlag, WriteFlag, ReadFlag,
              HandleCreateKey, HandleRevokeKey, ReadBack, ReadBackFails, PublishChange,
              AnswerChange, Unchanged, store
<1>2. ASSUME NEW t, ClientRoutes(t) \/ Fail(t) \/ Broadcast(t) PROVE stale' \subseteq Publishers
  BY <1>2 DEF ClientRoutes, RequireAPIKey, RecordUse, EvaluateFlag, OpenStream, CloseStream,
              Fail, Broadcast, Outside, Unchanged, store
<1>3. CASE Client \/ Signal \/ ListenFails \/ Main
  BY <1>3 DEF Client, ArriveAdmin, ArriveClient, Outside, Signal, ListenFails, Main,
              ShutdownReturns, CloseBroadcaster, CloseDB, Exit, store
<1> QED BY <1>1, <1>2, <1>3 DEF ServerNext, Progress

\* Only an event that was published is missed.
LEMMA MissedStep ==
  ASSUME missed \subseteq Events \X Ids, CallsInv, HistoryNext
  PROVE  missed' \subseteq Events \X Ids
<1> SUFFICES ASSUME NEW p \in Publishers, Drops(p) PROVE event[p] \in Events /\ at[p] \in Ids
  BY DEF HistoryNext
<1>1. at[p] \in Ids
  BY DEF Drops, CallsInv, BroadcasterTypes
<1>2. event[p] \in 1 .. events /\ events \in 0 .. MaxEvents
  BY DEF Drops, CallsInv, Calls, BroadcasterTypes
<1> QED BY <1>1, <1>2, BroadcasterAssumption DEF Events

-----------------------------------------------------------------------------
(* The theorem. *)

LEMMA TypeInit == HistoryInit => TypeInv
<1> SUFFICES ASSUME HistoryInit PROVE TypeInv
  OBVIOUS
<1>1. present \in BOOLEAN /\ connected \in BOOLEAN
  BY Zenon DEF HistoryInit, ServerInit
<1>2. Unmade = {} /\ commits = 0 /\ requests = 0
  BY DEF HistoryInit, ServerInit, Unmade, Handlers
<1>3. Counted
  BY <1>2, FS_EmptySet DEF Counted
<1>4. plan \in Seq(Changes \cup KeyOps) /\ Len(plan) \in 0 .. MaxEvents
  BY ServerAssumption DEF HistoryInit, ServerInit
<1>5. Plain
  BY <1>1, <1>2, <1>4, BroadcasterAssumption DEF HistoryInit, ServerInit, Plain
<1> QED BY <1>3, <1>5 DEF TypeInv

LEMMA TypeNext ==
  ASSUME RevocationInv, CallsInv, AnnouncementInv, TypeInv, [HistoryNext]_<<serverVars, history>>
  PROVE  TypeInv'
<1>1. CASE HistoryNext
  <2>1. ServerNext /\ Books /\ KeysTyped /\ requests \in Nat
    BY <1>1, ServerAssumption DEF HistoryNext, AnnouncementInv, RevocationInv, TypeInv, Plain
  <2>2. Counted'
    BY <2>1, CountedStep DEF TypeInv
  <2>3. Plain'
    BY <1>1, <2>1, PlainStep, PresentStep, StaleStep, MissedStep DEF TypeInv, Plain
  <2> QED BY <2>2, <2>3 DEF TypeInv
<1>2. CASE UNCHANGED <<serverVars, history>>
  BY <1>2 DEF serverVars, history, handler, store, TypeInv, Plain, Counted, Unmade
<1> QED BY <1>1, <1>2

\* The variables are of their types; in particular every change was made by a
\* request that arrived, and what a handler or an event shows is a change that
\* was made, or NotStored (flags.go:80-91, store/flags.go:99-131).
THEOREM ServerTyped == HistorySpec => []TypeOK
<1>1. RevocationInv /\ AnnouncementInv /\ TypeInv => TypeOK
  <2> SUFFICES ASSUME RevocationInv, AnnouncementInv, TypeInv PROVE TypeOK
    OBVIOUS
  <2>1. commits \in 0 .. requests
    BY FS_CardinalityType, ServerAssumption
    DEF AnnouncementInv, Books, TypeInv, Counted, Plain
  <2> QED BY <2>1 DEF TypeOK, RevocationInv, KeysTyped, AnnouncementInv, Books, TypeInv, Plain
<1> QED BY <1>1, RevocationInvHolds, ServerBroadcasts, AnnouncementHolds, TypeInit, TypeNext, PTL
    DEF HistorySpec
=============================================================================
