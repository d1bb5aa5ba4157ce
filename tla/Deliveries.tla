----------------------------- MODULE Deliveries -----------------------------
(***************************************************************************)
(* What the broadcaster promises its clients, told with a history of the   *)
(* calls: which events had been published, and who had subscribed, when    *)
(* Publish was called.                                                     *)
(***************************************************************************)
EXTENDS Broadcaster

VARIABLES returned,   \* the events whose Publish has returned
          earlier,    \* earlier[e]: those that had when Publish(e) was called
          owed,       \* owed[e]: the ids whose Subscribe had returned by then
          missed      \* <<e, i>>: channel i was full when e was offered to it

history == <<returned, earlier, owed, missed>>

HistoryInit == /\ Init
               /\ returned = {} /\ missed = {}
               /\ earlier = [e \in Events |-> {}] /\ owed = [e \in Events |-> {}]

Subscribed == {sub[s] : s \in {t \in Streams : pc[t] = "stream"}}

Finished(p) == pc[p] = "publish" /\ pc'[p] = "idle"

HistoryNext ==
  /\ Next
  /\ returned' = returned \cup {event[p] : p \in {q \in Publishers : Finished(q)}}
  /\ missed' = missed \cup {<<event[p], at[p]>> : p \in {q \in Publishers : Drops(q)}}
  /\ IF events' # events
     THEN /\ earlier' = [earlier EXCEPT ![events'] = returned]
          /\ owed' = [owed EXCEPT ![events'] = Subscribed]
     ELSE UNCHANGED <<earlier, owed>>

HistorySpec == HistoryInit /\ [][HistoryNext]_<<vars, history>>

-----------------------------------------------------------------------------
(* Properties. *)

\* The variables that the code keeps are of their types.
TypeOK == BroadcasterTypes

\* A client receives no event twice, and never after one that was published
\* when its own Publish had returned (broadcaster.go:58-64, a FIFO channel).
InOrder ==
  \A i \in Ids : \A m, n \in DOMAIN Sent(i) :
    m < n => Sent(i)[m] # Sent(i)[n] /\ Sent(i)[n] \notin earlier[Sent(i)[m]]

\* An event published after Subscribe returned has reached the client by the
\* time Publish returns, unless the client has left or its channel was full
\* then; a slow client costs the others nothing (broadcaster.go:53).
Delivered ==
  \A e \in returned : \A i \in owed[e] \cap clients :
    (\E n \in DOMAIN Sent(i) : Sent(i)[n] = e) \/ <<e, i>> \in missed
=============================================================================
