-------------------------------- MODULE Batch --------------------------------
(***************************************************************************)
(* EvaluateBatch: one request that evaluates several flags on the store of *)
(* module Store, one after the other, while other requests go on.  Nothing *)
(* is held between two flags: each is read by statements of its own.       *)
(*                                                                         *)
(* An empty list is refused before anything is done and is left out.  A    *)
(* read that fails makes the whole batch fail.                             *)
(***************************************************************************)
EXTENDS StoreProperties

CONSTANT Batches   \* the batch requests: lists of flags with a context

ASSUME BatchAssumption ==
  /\ Absent \notin Batches
  /\ \A b \in Batches : /\ b \in [flags : Seq(FlagKeys), ctx : Contexts(Conditions)]
                        /\ b.flags # <<>>

VARIABLES
  batch,     \* batch[s]: the batch request s serves, or Absent
  asked,     \* asked[s]: how many of its flags have been asked for
  results,   \* results[s]: the results so far
  past       \* history, past[s]: the databases since the read that s serves arrived

batches == <<batch, asked, results>>

BatchInit == /\ Init
             /\ batch = Nobody
             /\ asked = [s \in Sessions |-> 0]
             /\ results = [s \in Sessions |-> <<>>]
             /\ past = [s \in Sessions |-> <<>>]

Asking(b, n) == [op |-> "Evaluate", flag |-> b.flags[n], ctx |-> b.ctx]

\* GetFlagForEvaluation of flag n of batch b.
AskFor(s, b, n) ==
  /\ req' = [req EXCEPT ![s] = Asking(b, n)]
  /\ asked' = [asked EXCEPT ![s] = n]
  /\ pc' = [pc EXCEPT ![s] = "flagRow"]
  /\ out' = [out EXCEPT ![s] = NoReply]
  /\ UNCHANGED <<db, free, conn, view, work, stale>>

StartBatch(s, b) ==
  /\ pc[s] = "idle"
  /\ batch' = [batch EXCEPT ![s] = b]
  /\ AskFor(s, b, 1)
  /\ UNCHANGED results

\* A flag is evaluated: out[s] holds its response, or the 404 of one that is
\* not there, which makes a not_found result.
Evaluated(s) == batch[s] # Absent /\ pc[s] = "returned"

Failed(s) == out[s].status = 500

Last(s) == asked[s] = Len(batch[s].flags)

\* Mutant: a flag that is not found leaves no result.
NextFlagSkipping(s) ==
  /\ Evaluated(s) /\ ~Last(s) /\ ~Failed(s)
  /\ results' = [results EXCEPT ![s] = IF out[s].status = 404 THEN @ ELSE Append(@, out[s])]
  /\ AskFor(s, batch[s], asked[s] + 1)
  /\ UNCHANGED batch

NextFlag(s) ==
  /\ Evaluated(s) /\ ~Last(s) /\ ~Failed(s)
  /\ results' = [results EXCEPT ![s] = Append(@, out[s])]
  /\ AskFor(s, batch[s], asked[s] + 1)
  /\ UNCHANGED batch

AnswerBatch(s) ==
  /\ Evaluated(s) /\ (Last(s) \/ Failed(s)) /\ Respond(s)
  /\ batch' = [batch EXCEPT ![s] = Absent]
  /\ asked' = [asked EXCEPT ![s] = 0]
  /\ results' = [results EXCEPT ![s] = <<>>]

CrashBatches == /\ Crash
                /\ batch' = Nobody
                /\ asked' = [s \in Sessions |-> 0]
                /\ results' = [s \in Sessions |-> <<>>]

BatchNext ==
  \/ \E s \in Sessions :
       \/ ~Evaluated(s) /\ (Step(s) \/ ReadFails(s)) /\ UNCHANGED batches
       \/ \E r \in Workload : Start(s, r) /\ UNCHANGED batches
       \/ \E b \in Batches : StartBatch(s, b)
       \/ NextFlag(s) \/ AnswerBatch(s)
  \/ CrashBatches

\* GetSegment is none of them: an UpdateSegment between its two statements tears it
\* (segments.go:55, :65).  An evaluation takes only conditions from a segment.
Readers == {"GetFlag", "Evaluate"}

\* The databases that a read has met, none when there are more than two.
Passing(s) ==
  IF req'[s] = Absent \/ req'[s].op \notin Readers THEN <<>>
  ELSE IF req[s] = Absent THEN <<db'>>
  ELSE IF db' = db THEN past[s]
  ELSE IF Len(past[s]) = 1 THEN <<db, db'>> ELSE <<>>

BatchSpec ==
  BatchInit /\ [][/\ BatchNext
                  /\ past' = [s \in Sessions |-> Passing(s)]]_<<vars, batches, past>>

-----------------------------------------------------------------------------
(* Properties. *)

\* Clients delete nothing and replace no rule: GetFlag and an evaluation can be
\* torn by these (README.md:151 against getRulesForFlag), and by nothing else.
Untorn == \A r \in Workload :
            r.op \notin {"UpdateRule", "DeleteRule", "DeleteFlag", "DeleteSegment"}

\* A read of s that at most one change of the database overlaps has succeeded.
ReadDone(s) == pc[s] = "returned" /\ Op(s) \in Readers /\ past[s] # <<>> /\ ~Failed(s)

\* Such a read answers as if it had run in one piece, before or after that
\* change: GetFlag and GetFlagForEvaluation read the flag, its rules, their links
\* and the segments in separate statements, in an order in which the creations
\* and the updates of a flag, a segment or a new rule cannot tear them.
SnapshotRead ==
  \A s \in Sessions : ReadDone(s) =>
    \E d \in Range(past[s]) : out[s] = Abstract!Perform(d, req[s]).answer

\* The results of a batch are those of the flags asked for, in their order, and
\* never go back in time: when one change overlaps the batch, the first results
\* are those of the database before it and the rest those of the database after
\* it (batch.go:25-39).
BatchReadsForward ==
  \A s \in Sessions : ReadDone(s) /\ Evaluated(s) /\ Last(s) =>
    LET all == Append(results[s], out[s])
        answer(d, n) == Abstract!Perform(d, Asking(batch[s], n)).answer
    IN  /\ Len(all) = Len(batch[s].flags)
        /\ \E k \in 0 .. Len(all) : \A n \in DOMAIN all :
             all[n] = answer(past[s][IF n <= k THEN 1 ELSE Len(past[s])], n)
=============================================================================
