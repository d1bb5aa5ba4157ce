--------------------------- MODULE ServerProperties ---------------------------
(***************************************************************************)
(* What the process promises its clients, told with a history: whose token *)
(* had been revoked when its request arrived, which state was stored when  *)
(* a stream's Subscribe returned, which changes no handler is to announce, *)
(* and which events were dropped.                                          *)
(***************************************************************************)
EXTENDS Server

VARIABLES withdrawn, \* the keys that have ever been revoked
          barred,    \* the client requests whose token was withdrawn before they arrived
          since,     \* since[s]: the number of the state stored when stream s was registered
          untold,    \* the changes that are not announced by who made them
          missed     \* <<e, i>>: channel i was full when e was offered to it

history == <<withdrawn, barred, since, untold, missed>>

HistoryInit == /\ ServerInit
               /\ withdrawn = {} /\ barred = {} /\ missed = {} /\ untold = {}
               /\ since = [s \in Streams |-> 0]

Arrived(t)    == step[t] = "idle" /\ step'[t] # "idle"
Registered(s) == pc[s] = "subscribe" /\ pc'[s] = "stream"

\* An UPDATE of a row that was created since the flag was read: it writes
\* neither type nor created_at, and publishes those it read (store/flags.go:100).
Mixes(p) == step[p] = "write" /\ step'[p] = "publish" /\ present /\ p \in stale

\* A toggle without an event: its read back fails (api/flags.go:110).
Hushes(p) == step[p] = "readback" /\ step'[p] = "idle"

HistoryNext ==
  /\ ServerNext
  /\ withdrawn' = withdrawn \cup revoked'
  /\ barred' = {s \in Streams : IF Arrived(s) THEN token'[s] \in withdrawn ELSE s \in barred}
  /\ since' = [s \in Streams |-> IF Registered(s) THEN commits
                                 ELSE IF pc'[s] = "stream" THEN since[s] ELSE 0]
  /\ untold' = untold \cup {commits' : p \in {q \in Publishers : Mixes(q)}}
                     \cup {shows[p] : p \in {q \in Publishers : Hushes(q)}}
  /\ missed' = missed \cup {<<event[p], at[p]>> : p \in {q \in Publishers : Drops(q)}}

HistorySpec == HistoryInit /\ [][HistoryNext]_<<serverVars, history>>

\* The scheduler runs every goroutine that is ready (serveCmd's is Main and the
\* Closer), and the timeout ends.
FairHistorySpec ==
  /\ HistorySpec
  /\ WF_serverVars(main # "exited" /\ (Main \/ Progress(Closer)))
  /\ \A t \in Handlers : WF_serverVars(main # "exited" /\ Progress(t))

-----------------------------------------------------------------------------
(* Properties. *)

Steps == {"idle", "auth", "touch", "serve", "readback", "write", "publish", "publishing",
          "streaming"}

TypeOK ==
  /\ main \in {"serving", "draining", "closing", "stopped", "exited"}
  /\ connected \in BOOLEAN /\ plan \in Seq(Changes \cup KeyOps)
  /\ requests \in 0 .. MaxEvents - Len(plan)
  /\ step \in [Handlers -> Steps]
  /\ op \in [Handlers -> Ops \cup {"none"}] /\ token \in [Handlers -> Tokens]
  /\ live \subseteq Keys /\ revoked \subseteq Keys
  /\ present \in BOOLEAN /\ commits \in 0 .. requests /\ stale \subseteq Publishers
  /\ shows \in [Publishers -> 0 .. commits] /\ payload \in [Events -> 0 .. commits]
  /\ withdrawn \subseteq Keys /\ barred \subseteq Streams
  /\ since \in [Streams -> 0 .. commits] /\ untold \subseteq 0 .. commits
  /\ missed \subseteq Events \X Ids

\* Past the middleware.
Served(t) == step[t] \notin {"idle", "auth"}

\* No client route is served for a key that had been revoked when the request
\* arrived, whatever the validations of other requests write to the key's row
\* in the meantime (store/apikeys.go:48-70, :73).
RevokedIsRefused == \A s \in Streams : Served(s) => s \notin barred

\* Between a commit and the return of its Publish.
Announcing(p) == step[p] \in {"readback", "publish", "publishing"}

\* When no change is being announced, every client whose Subscribe returned
\* before the last change has been sent an event that shows the row that is
\* stored, unless its channel was full for it (flags.go:80-91, :109-120).  That
\* the event comes last is not said: requests that overlap may publish in the
\* other order than they committed.  Nor is anything of a last change that its
\* own handler does not announce: by an UPDATE that hit a row created since the
\* flag was read, or a toggle whose read back failed.
NobodyStaysBehind ==
  DBOpen /\ commits \notin untold /\ (\A p \in Publishers : ~Announcing(p)) =>
    \A s \in Streams :
      pc[s] = "stream" /\ sub[s] \in clients /\ since[s] < commits =>
        \E e \in Events :
          /\ payload[e] = commits
          /\ (\E n \in DOMAIN Sent(sub[s]) : Sent(sub[s])[n] = e) \/ <<e, sub[s]>> \in missed

\* A request is answered, or is a stream that is being served, or the process
\* ends, though no client of a stream reads: every handler is idle, or streams,
\* again and again (serve.go:54, broadcaster.go:53).
Answered ==
  \A t \in Handlers : []<>(step[t] = "idle" \/ pc[t] = "stream" \/ main = "exited")

\* A signal ends the process, whatever handlers and streams are at: none of the
\* states between serving, to which nothing leads back, and the end lasts
\* (serve.go:68-79).
SignalEnds == []<>(main \in {"serving", "exited"})
=============================================================================
