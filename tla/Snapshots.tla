------------------------------ MODULE Snapshots ------------------------------
(***************************************************************************)
(* Store with a history variable that records, for every read under way,   *)
(* the answers the catalogue would have given at the instants since it     *)
(* arrived.                                                                *)
(***************************************************************************)
EXTENDS StoreProperties

VARIABLE seen     \* seen[s]: the answers of the catalogue to req[s] since it arrived

Readers == {"Evaluate"}

Now(s) == IF req'[s] # Absent /\ req'[s].op \in Readers
          THEN {Abstract!Perform(db', req'[s]).answer} ELSE {}

HistoryInit == Init /\ seen = [s \in Sessions |-> {}]

HistoryNext ==
  /\ Next
  /\ seen' = [s \in Sessions |-> (IF req[s] = req'[s] THEN seen[s] ELSE {}) \cup Now(s)]

HistorySpec == HistoryInit /\ [][HistoryNext]_<<vars, seen>>

\* A rule's value is served only if, at some instant of the evaluation, a stored
\* rule of the flag matched the context: README.md:151.
MatchedSomeInstant ==
  \A s \in Sessions :
    pc[s] = "returned" /\ Op(s) = "Evaluate" /\ out[s].status = 200 /\ out[s].body.match
      => \E a \in seen[s] : a.status = 200 /\ a.body.match
=============================================================================
