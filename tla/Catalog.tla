------------------------------- MODULE Catalog -------------------------------
(***************************************************************************)
(* What the store and its handlers promise together: every request takes   *)
(* effect at one instant between its arrival and its answer, entirely or   *)
(* not at all, deletes take everything that depends on the deleted row     *)
(* with them, and a request answered with an error changed nothing, unless *)
(* it is a toggle that could not read back what it did.                    *)
(*                                                                         *)
(* The answer to a creation or to UpdateRule repeats what was asked for,   *)
(* with ids and times, and is left out of it.                              *)
(***************************************************************************)
EXTENDS Requests

CONSTANT Sessions    \* concurrent HTTP requests

VARIABLES cdb,       \* the database
          call,      \* call[s]: the request of session s, Absent between requests
          reply      \* reply[s]: its answer, NoReply until it took effect

cvars == <<cdb, call, reply>>

-----------------------------------------------------------------------------
(* The effect of each operation and its answer. *)

Effect(d, status) == [db |-> d, answer |-> Answer(status, NoBody)]

Shows(d, body) == [db |-> d, answer |-> Answer(200, body)]

\* Mutant: the default value is not validated.
CreateFlagUnchecked(d, r) ==
  IF HasFlag(d, r.flag) THEN Effect(d, 409)
  ELSE Effect(PutFlag(d, r.flag, FlagRowOf(r)), 201)

CreateFlag(d, r) ==
  IF ~ValidFlag(r) THEN Effect(d, 400)
  ELSE IF HasFlag(d, r.flag) THEN Effect(d, 409)
  ELSE Effect(PutFlag(d, r.flag, FlagRowOf(r)), 201)

GetFlag(d, r) ==
  IF ~HasFlag(d, r.flag) THEN Effect(d, 404)
  ELSE Shows(d, FlagIn(d, r.flag))

\* Mutant: the default value is not checked against the flag's type.
UpdateFlagUnchecked(d, r) ==
  IF ~HasFlag(d, r.flag) THEN Effect(d, 404)
  ELSE Effect(PutFlag(d, r.flag, Merge(d.flags[r.flag], r)), 200)

UpdateFlag(d, r) ==
  LET after == PutFlag(d, r.flag, Merge(d.flags[r.flag], r)) IN
  IF ~HasFlag(d, r.flag) THEN Effect(d, 404)
  ELSE IF r.default # Absent /\ r.default \notin ValuesOf[d.flags[r.flag].type]
  THEN Effect(d, 400)
  ELSE Shows(after, FlagIn(after, r.flag))

\* Mutant: the delete does not cascade.
DeleteFlagOnly(d, r) ==
  IF HasFlag(d, r.flag) THEN Effect(DropFlag(d, r.flag, FALSE), 204) ELSE Effect(d, 404)

DeleteFlag(d, r) ==
  IF HasFlag(d, r.flag) THEN Effect(DropFlag(d, r.flag, TRUE), 204) ELSE Effect(d, 404)

ToggleFlag(d, r) ==
  LET after == Toggle(d, r.flag) IN
  IF ~HasFlag(d, r.flag) THEN Effect(d, 404)
  ELSE Shows(after, FlagIn(after, r.flag))

CreateRule(d, r) ==
  LET after == InsertRule(d, RuleRowOf(r), r.conds, r.segs, TRUE) IN
  IF ~HasFlag(d, r.flag) THEN Effect(d, 404)
  ELSE IF ~ValidRule(r) \/ r.value \notin ValuesOf[d.flags[r.flag].type] THEN Effect(d, 400)
  ELSE IF after = Absent THEN Effect(d, 500) ELSE Effect(after, 201)

UpdateRule(d, r) ==
  LET after == RewriteRule(d, r.rule, RuleRowOf(r), r.conds, r.segs, TRUE) IN
  IF ~ValidRule(r) THEN Effect(d, 400)
  ELSE IF after = Absent THEN Effect(d, 404) ELSE Effect(after, 200)

DeleteRule(d, r) ==
  IF HasRule(d, r.flag, r.rule) THEN Effect(DropRules(d, {r.rule}, TRUE), 204)
  ELSE Effect(d, 404)

CreateSegment(d, r) ==
  LET after == InsertSegment(d, r.segment, r.text, r.conds) IN
  IF ~ValidSegment(r.conds) THEN Effect(d, 400)
  ELSE IF after = Absent THEN Effect(d, 409) ELSE Effect(after, 201)

GetSegment(d, r) ==
  IF r.segment \in d.segs THEN Shows(d, SegmentIn(d, r.segment)) ELSE Effect(d, 404)

UpdateSegment(d, r) ==
  LET g == r.segment
      after == RewriteSegment(d, g, TextOf(r, d.about[g]), r.conds, TRUE) IN
  IF r.conds # Absent /\ ~ValidSegment(r.conds) THEN Effect(d, 400)
  ELSE IF g \notin d.segs THEN Effect(d, 404)
  ELSE Shows(after, SegmentIn(after, g))

\* Mutant: the segment may be in use.
DeleteSegmentInUse(d, r) ==
  IF r.segment \in d.segs THEN Effect(DropSegment(d, r.segment, TRUE), 204)
  ELSE Effect(d, 404)

DeleteSegment(d, r) ==
  IF InUse(d, r.segment) THEN Effect(d, 409)
  ELSE IF r.segment \in d.segs THEN Effect(DropSegment(d, r.segment, TRUE), 204)
  ELSE Effect(d, 404)

EvaluateFlag(d, r) ==
  LET rules == RulesIn(d, r.flag) IN
  IF ~HasFlag(d, r.flag) THEN Effect(d, 404)
  ELSE Shows(d, Evaluate(FlagView(d.flags[r.flag], rules, SegmentsIn(d, rules)), r.ctx))

Perform(d, r) ==
  CASE r.op = "CreateFlag"    -> CreateFlag(d, r)
    [] r.op = "GetFlag"       -> GetFlag(d, r)
    [] r.op = "UpdateFlag"    -> UpdateFlag(d, r)
    [] r.op = "DeleteFlag"    -> DeleteFlag(d, r)
    [] r.op = "ToggleFlag"    -> ToggleFlag(d, r)
    [] r.op = "CreateRule"    -> CreateRule(d, r)
    [] r.op = "UpdateRule"    -> UpdateRule(d, r)
    [] r.op = "DeleteRule"    -> DeleteRule(d, r)
    [] r.op = "CreateSegment" -> CreateSegment(d, r)
    [] r.op = "GetSegment"    -> GetSegment(d, r)
    [] r.op = "UpdateSegment" -> UpdateSegment(d, r)
    [] r.op = "DeleteSegment" -> DeleteSegment(d, r)
    [] r.op = "Evaluate"      -> EvaluateFlag(d, r)

-----------------------------------------------------------------------------
(* Behaviour. *)

\* Rule ids that the CreateRules under way may still take.
Claimed(calls) == {s \in Sessions : calls[s] # Absent /\ calls[s].op = "CreateRule"}

Init == /\ cdb \in Stored
        /\ call = [s \in Sessions |-> Absent]
        /\ reply = [s \in Sessions |-> NoReply]

\* Bound: CreateRules are not sent beyond MaxRule.
Call(s, r) == /\ call[s] = Absent
              /\ r.op = "CreateRule" => cdb.nextRule + Cardinality(Claimed(call)) <= MaxRule
              /\ call' = [call EXCEPT ![s] = r]
              /\ UNCHANGED <<cdb, reply>>

TakeEffect(s) == /\ call[s] # Absent /\ reply[s] = NoReply
                 /\ RuleIdLeft(cdb, call[s])
                 /\ cdb' = Perform(cdb, call[s]).db
                 /\ reply' = [reply EXCEPT ![s] = Perform(cdb, call[s]).answer]
                 /\ UNCHANGED call

\* The database failed a read, or refused a statement because another request
\* was writing.
Fail(s) == /\ call[s] # Absent /\ reply[s] = NoReply
           /\ reply' = [reply EXCEPT ![s] = Answer(ErrorStatus(call[s].op), NoBody)]
           /\ UNCHANGED <<cdb, call>>

\* A toggle takes effect before the flag is read for its answer.
ReadBackFails(s) ==
  /\ call[s] # Absent /\ call[s].op = "ToggleFlag" /\ reply[s] # NoReply
  /\ reply' = [reply EXCEPT ![s] = Answer(500, NoBody)]
  /\ UNCHANGED <<cdb, call>>

Return(s) == /\ reply[s] # NoReply
             /\ call' = [call EXCEPT ![s] = Absent]
             /\ reply' = [reply EXCEPT ![s] = NoReply]
             /\ UNCHANGED cdb

\* The process dies and is started again; what took effect is durable.
Crash == /\ call' = [s \in Sessions |-> Absent]
         /\ reply' = [s \in Sessions |-> NoReply]
         /\ UNCHANGED cdb

Next == \/ \E s \in Sessions : \/ \E r \in Workload : Call(s, r)
                               \/ TakeEffect(s) \/ Fail(s) \/ ReadBackFails(s) \/ Return(s)
        \/ Crash

CatalogSpec == Init /\ [][Next]_cvars

-----------------------------------------------------------------------------
(* What must hold of the database. *)

\* The catalogue holds rows of the schema, and requests and answers are paired.
TypeOK == /\ cdb \in Database
          /\ call \in [Sessions -> Workload \cup {Absent}]
          /\ \A s \in Sessions : reply[s] # NoReply => call[s] # Absent

\* No sequence of requests leaves a rule without its flag, a condition or a
\* link without its rule or segment, or hands out a rule id twice: ON DELETE
\* CASCADE in migrations/001 and 004.
Consistent == ReferentialIntegrity(cdb) /\ IdsFresh(cdb)

\* No sequence of requests leaves a rule or a segment that nothing has to hold
\* for, so that it would match everyone: ValidateRule, ValidateSegment and the
\* refusal to delete a segment in use.
NeverUnguarded == Guarded(cdb)

\* A flag never serves a default of another type: ValidateFlag, UpdateFlag.
DefaultsHaveType == DefaultsTyped(cdb)
=============================================================================
