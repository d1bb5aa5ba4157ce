-------------------------------- MODULE Server --------------------------------
(***************************************************************************)
(* The process: requests on their way through authentication, the store    *)
(* and the broadcaster, and the goroutine of serveCmd that ends them all.  *)
(*                                                                         *)
(* One flag is changed.  Every change that hits its row has a number, and  *)
(* an event is told by the number of the state of the row that it shows.   *)
(* Statements are atomic here (Store has them in detail); the broadcaster  *)
(* is the whole of module Broadcaster.  The handlers of rules and segments *)
(* change, publish and answer as those of flags do.                        *)
(***************************************************************************)
EXTENDS Broadcaster, APIKeys

CONSTANT Plans   \* the requests of the administration come as one of these says (a bound)

Handlers == Publishers \cup Streams

Changes   == {"create", "update", "toggle", "delete"}
KeyOps    == {"createKey", "revokeKey"}
ClientOps == {"evaluate", "stream"}
Ops       == Changes \cup KeyOps \cup ClientOps

ASSUME ServerAssumption ==
  \A w \in Plans : w \in Seq(Changes \cup KeyOps) /\ Len(w) <= MaxEvents

VARIABLES
  main,       \* what serveCmd is doing
  connected,  \* connections are open: requests arrive
  plan,       \* the requests of the administration that are still to come
  requests,   \* how many of them have arrived
  step,       \* step[t]: what the handler that t runs does next
  op,         \* op[t]: its request
  token,      \* token[t]: the token of the request until it is authenticated
  present,    \* the flag's row is there
  commits,    \* the number of changes that hit it
  stale,      \* the updates whose row has been deleted since they read it
  shows,      \* shows[p]: the number of the state that p is to publish
  payload     \* payload[e]: the number of the state that event e shows

handler   == <<plan, requests, step, op, token>>
store     == <<present, commits, stale, keys>>
payloads  == <<shows, payload>>
serverVars == <<vars, main, connected, handler, store, payloads>>

NotStored == 0   \* the number of a state that was never the database's

ServerInit ==
  /\ Init /\ InitKeys
  /\ main = "serving" /\ connected = TRUE /\ requests = 0 /\ plan \in Plans
  /\ step = [t \in Handlers |-> "idle"]
  /\ op = [t \in Handlers |-> "none"] /\ token = [t \in Handlers |-> NoToken]
  /\ present = TRUE /\ commits = 0 /\ stale = {}
  /\ shows = [p \in Publishers |-> NotStored] /\ payload = [e \in Events |-> NotStored]

DBOpen == main \notin {"stopped", "exited"}

Continue(t, l) == step' = [step EXCEPT ![t] = l] /\ UNCHANGED <<plan, requests, op, token>>

\* The handler answers; nothing is left of the request.
Answer(t) == /\ step' = [step EXCEPT ![t] = "idle"]
             /\ op' = [op EXCEPT ![t] = "none"] /\ token' = [token EXCEPT ![t] = NoToken]
             /\ UNCHANGED <<plan, requests>>

-----------------------------------------------------------------------------
(* Arrival and authentication. *)

CreatingKeys == {p \in Publishers : op[p] = "createKey"}
Connecting   == {s \in Streams : op[s] = "stream" /\ step[s] # "streaming"}

Begin(t, o, k, l) ==
  /\ step' = [step EXCEPT ![t] = l]
  /\ op' = [op EXCEPT ![t] = o] /\ token' = [token EXCEPT ![t] = k]

\* A request of the administration that RequireMasterKey lets through: it asks
\* nobody, and any idle goroutine serves it (they are alike).  Bounds: Plans,
\* and no createKey once all Keys are handed out.
ArriveAdmin(p, o) ==
  /\ step[p] = "idle" /\ p = CHOOSE q \in Publishers : step[q] = "idle"
  /\ connected /\ \E k \in Tokens : RequireMasterKey(k)
  /\ plan # <<>> /\ o = Head(plan) /\ plan' = Tail(plan) /\ requests' = requests + 1
  /\ o = "createKey" => Cardinality(CreatingKeys) < Cardinality(NewKeys)
  /\ Begin(p, o, NoToken, "serve")
  /\ UNCHANGED <<vars, store, payloads, main, connected>>

\* A request of a client.  Bound: no stream once all ids are handed out.
ArriveClient(s, o, k) ==
  /\ step[s] = "idle" /\ connected
  /\ o = "stream" => nextID + Cardinality(Connecting) < MaxID
  /\ Begin(s, o, k, "auth")
  /\ UNCHANGED <<plan, requests, vars, store, payloads, main, connected>>

Authenticated(s) == /\ step' = [step EXCEPT ![s] = "serve"]
                    /\ token' = [token EXCEPT ![s] = NoToken]
                    /\ UNCHANGED <<plan, requests, op>>

\* RequireAPIKey: no token is answered at once, the master key bypasses the
\* store; an error of the database and a key that is not found are answered.
RequireAPIKey(s) ==
  /\ step[s] = "auth"
  /\ IF MasterBypass(token[s]) THEN Authenticated(s)
     ELSE IF DBOpen /\ Validates(token[s]) THEN Continue(s, "touch")
     ELSE Answer(s)
  /\ UNCHANGED <<vars, store, payloads, main, connected>>

\* The UPDATE of last_used_at, whose error is not looked at.
RecordUse(s) ==
  /\ step[s] = "touch" /\ Touch(token[s]) /\ Authenticated(s)
  /\ UNCHANGED <<vars, present, commits, stale, payloads, main, connected>>

-----------------------------------------------------------------------------
(* The handlers. *)

Serving(t, o) == step[t] = "serve" /\ op[t] = o /\ DBOpen
                 /\ UNCHANGED <<vars, main, connected, payload>>

Unchanged == UNCHANGED <<present, commits, stale, shows>>

\* The change hits the row: p is to publish it.
Commit(p, there) == /\ present' = there /\ commits' = commits + 1
                    /\ shows' = [shows EXCEPT ![p] = commits + 1]

EvaluateFlag(t) == Serving(t, "evaluate") /\ Answer(t) /\ Unchanged /\ UNCHANGED keys

HandleCreateKey(t) == Serving(t, "createKey") /\ CreateAPIKey /\ Answer(t) /\ Unchanged

HandleRevokeKey(t) == /\ Serving(t, "revokeKey") /\ Answer(t) /\ Unchanged
                      /\ \E k \in Keys : RevokeAPIKey(k)

CreateFlag(p) ==
  /\ Serving(p, "create") /\ UNCHANGED keys
  /\ IF present THEN Unchanged /\ Answer(p)
     ELSE Commit(p, TRUE) /\ Continue(p, "publish") /\ UNCHANGED stale

\* Mutant: that the DELETE hit no row goes unnoticed.
DeleteFlagAnyway(p) ==
  /\ Serving(p, "delete") /\ UNCHANGED keys
  /\ present' = FALSE /\ commits' = IF present THEN commits + 1 ELSE commits
  /\ shows' = [shows EXCEPT ![p] = commits + 1]
  /\ Continue(p, "publish") /\ UNCHANGED stale

\* A row that is created later is not the one that is being updated.
DeleteFlag(p) ==
  /\ Serving(p, "delete") /\ UNCHANGED keys
  /\ IF present THEN /\ Commit(p, FALSE) /\ Continue(p, "publish")
                     /\ stale' = {q \in Publishers : step[q] = "write"}
     ELSE Unchanged /\ Answer(p)

\* Mutant: the flag is read before it is toggled.
ToggleFlagRead(p) ==
  /\ Serving(p, "toggle") /\ UNCHANGED keys
  /\ IF present THEN /\ commits' = commits + 1 /\ shows' = [shows EXCEPT ![p] = commits]
                     /\ UNCHANGED <<present, stale>> /\ Continue(p, "publish")
     ELSE Unchanged /\ Answer(p)

\* UPDATE ... SET enabled = NOT enabled, which may hit no row.
ToggleFlag(p) ==
  /\ Serving(p, "toggle") /\ UNCHANGED keys
  /\ IF present THEN Commit(p, TRUE) /\ UNCHANGED stale ELSE Unchanged
  /\ Continue(p, "readback")

\* And GetFlag of what is there now.
ReadBack(p) ==
  /\ step[p] = "readback" /\ DBOpen
  /\ IF present THEN shows' = [shows EXCEPT ![p] = commits] /\ Continue(p, "publish")
     ELSE UNCHANGED shows /\ Answer(p)
  /\ UNCHANGED <<vars, store, payload, main, connected>>

\* Or that read fails: the change is answered with an error and not announced.
ReadBackFails(p) ==
  /\ step[p] = "readback" /\ DBOpen /\ Answer(p)
  /\ shows' = [shows EXCEPT ![p] = NotStored]
  /\ UNCHANGED <<vars, store, payload, main, connected>>

\* UpdateFlag reads the flag; a default that has not its type is answered,
ReadFlag(p) ==
  /\ Serving(p, "update") /\ UNCHANGED keys /\ Unchanged
  /\ Answer(p) \/ (present /\ Continue(p, "write"))

\* and written back, its type and creation time aside.  What it read, with what
\* it wrote, is published: no stored state if it hits no row or another one.
WriteFlag(p) ==
  /\ step[p] = "write" /\ DBOpen /\ Continue(p, "publish") /\ stale' = stale \ {p}
  /\ IF present /\ p \notin stale THEN Commit(p, TRUE)
     ELSE /\ shows' = [shows EXCEPT ![p] = NotStored] /\ UNCHANGED present
          /\ commits' = IF present THEN commits + 1 ELSE commits
  /\ UNCHANGED <<vars, keys, payload, main, connected>>

Writing(t) == \/ step[t] \in {"touch", "write"}
              \/ step[t] = "serve" /\ op[t] \in {"create", "toggle", "delete"} \cup KeyOps

\* A statement fails: another one holds the write lock, or the database is
\* closed.  The handler answers with an error.
Fail(t) ==
  /\ \/ Writing(t) /\ step[t] # "touch" /\ \E u \in Handlers \ {t} : Writing(u)
     \/ step[t] \in {"serve", "write", "readback"} /\ op[t] # "stream" /\ ~DBOpen
  /\ Answer(t) /\ stale' = stale \ {t}
  /\ UNCHANGED <<vars, present, commits, keys, payloads, main, connected>>

\* The call of broadcaster.Publish.
PublishChange(p) ==
  /\ step[p] = "publish" /\ Publish(p) /\ Continue(p, "publishing")
  /\ payload' = [payload EXCEPT ![events'] = shows[p]]
  /\ UNCHANGED <<store, shows, main, connected>>

\* Its return, and the answer.
AnswerChange(p) ==
  /\ PublishReturns(p) /\ Answer(p)
  /\ shows' = [shows EXCEPT ![p] = NotStored]
  /\ UNCHANGED <<store, payload, main, connected>>

\* The stream's headers are sent, and it subscribes.
OpenStream(s) ==
  /\ step[s] = "serve" /\ op[s] = "stream" /\ Subscribe(s) /\ Continue(s, "streaming")
  /\ UNCHANGED <<store, payloads, main, connected>>

CloseStream(s) ==
  /\ Unsub(s) /\ Answer(s)
  /\ UNCHANGED <<store, payloads, main, connected>>

-----------------------------------------------------------------------------
(* serveCmd. *)

\* SIGTERM: srv.Shutdown closes the listener and waits for the connections.
Signal == /\ main = "serving" /\ main' = "draining"
          /\ UNCHANGED <<vars, store, payloads, handler, connected>>

\* ListenAndServe fails, and its goroutine ends the process with nothing closed.
ListenFails == /\ main = "serving" /\ main' = "exited"
               /\ UNCHANGED <<vars, store, payloads, handler, connected>>

\* Mutant: Shutdown is given no deadline.
ShutdownWaits ==
  /\ main = "draining" /\ main' = "closing"
  /\ connected' = FALSE /\ \A t \in Handlers : step[t] = "idle"
  /\ UNCHANGED <<vars, store, payloads, handler>>

\* It returns when all of them are idle and closed, or after five seconds with
\* handlers still at work; a connection that was accepted may even start one.
\* Streams do not end on their own, so with one open it is always the timeout.
ShutdownReturns ==
  /\ main = "draining" /\ main' = "closing"
  /\ \/ connected' = FALSE /\ \A t \in Handlers : step[t] = "idle"
     \/ UNCHANGED connected
  /\ UNCHANGED <<vars, store, payloads, handler>>

\* The deferred calls: broadcaster.Close,
CloseBroadcaster ==
  /\ main = "closing" /\ Shutdown
  /\ UNCHANGED <<store, payloads, handler, main, connected>>

\* then db.Close, then the end of the process.
CloseDB == /\ main = "closing" /\ pc[Closer] = "closed" /\ main' = "stopped"
           /\ UNCHANGED <<vars, store, payloads, handler, connected>>

Exit == /\ main = "stopped" /\ main' = "exited"
        /\ UNCHANGED <<vars, store, payloads, handler, connected>>

-----------------------------------------------------------------------------
(* Behaviour. *)

Administration(p) ==
  \/ CreateFlag(p) \/ DeleteFlag(p) \/ ToggleFlag(p) \/ ReadBack(p) \/ ReadBackFails(p)
  \/ ReadFlag(p) \/ WriteFlag(p) \/ PublishChange(p) \/ AnswerChange(p)
  \/ HandleCreateKey(p) \/ HandleRevokeKey(p)

ClientRoutes(s) ==
  RequireAPIKey(s) \/ RecordUse(s) \/ EvaluateFlag(s) \/ OpenStream(s) \/ CloseStream(s)

Outside == UNCHANGED <<store, payloads, handler, main, connected>>

Broadcast(t) ==
  /\ \/ Lock(t)
     \/ t \in Publishers /\ (NextChannel(t) \/ Send(t))
     \/ t \in Streams /\ Register(t)
     \/ t = Closer /\ (CloseOne \/ CloseReturns)
  /\ Outside

\* What a goroutine does that is ready to run.
Progress(t) == \/ t \in Publishers /\ Administration(t)
               \/ t \in Streams /\ ClientRoutes(t)
               \/ t \in Handlers /\ Fail(t)
               \/ Broadcast(t)

Main == ShutdownReturns \/ CloseBroadcaster \/ CloseDB \/ Exit

Client == \/ \E p \in Publishers, o \in Changes \cup KeyOps : ArriveAdmin(p, o)
          \/ \E s \in Streams, o \in ClientOps, k \in Tokens : ArriveClient(s, o, k)
          \/ \E s \in Streams : (Receive(s) \/ Leave(s)) /\ Outside

ServerNext == /\ main # "exited"
              /\ \/ Client \/ Signal \/ ListenFails \/ Main
                 \/ \E t \in Threads : Progress(t)

ServerSpec == ServerInit /\ [][ServerNext]_serverVars
=============================================================================
