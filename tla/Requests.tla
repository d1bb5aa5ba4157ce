------------------------------ MODULE Requests ------------------------------
(***************************************************************************)
(* The requests of the management and evaluation API (internal/models,     *)
(* internal/api), what the handlers validate before they call the store,   *)
(* and the views of the database they answer with.                         *)
(*                                                                         *)
(* Keys are always well-formed here and a flag's type is always one of     *)
(* FlagTypes: keyRegex and the type switch are left out.                   *)
(***************************************************************************)
EXTENDS Schema, Engine

CONSTANTS
  Malformed,   \* conditions that ValidateCondition refuses
  Workload,    \* the requests that clients send
  Stored       \* databases the server may be started on

RuleBody(op, ids) ==
  [op : {op}, flag : FlagKeys, rule : ids, value : Values \cup {NoValue}, priority : Int,
   rollout : Int, conds : Seq(Conditions \cup Malformed), segs : Seq(SegmentKeys)]

\* A field that may be left out of an update is Absent.
FlagRequest(ops) == [op : ops, flag : FlagKeys]

SegmentRequest(ops) == [op : ops, segment : SegmentKeys]

SegmentBody(op, none) ==
  [op : {op}, segment : SegmentKeys, text : Descriptions \cup none,
   conds : Seq(Conditions \cup Malformed) \cup none]

Requests ==
  [op : {"CreateFlag"}, flag : FlagKeys, type : FlagTypes, enabled : BOOLEAN,
   default : Values \cup {NoValue}] \cup
  [op : {"UpdateFlag"}, flag : FlagKeys, enabled : BOOLEAN \cup {Absent},
   default : Values \cup {Absent}] \cup
  FlagRequest({"GetFlag", "ToggleFlag", "DeleteFlag"}) \cup
  RuleBody("CreateRule", {Absent}) \cup
  RuleBody("UpdateRule", RuleIds) \cup
  [op : {"DeleteRule"}, flag : FlagKeys, rule : RuleIds] \cup
  SegmentBody("CreateSegment", {}) \cup
  SegmentBody("UpdateSegment", {Absent}) \cup
  SegmentRequest({"GetSegment", "DeleteSegment"}) \cup
  [op : {"Evaluate"}, flag : FlagKeys, ctx : Contexts(Conditions)]

ASSUME RequestsAssumption ==
  /\ Malformed \cap Conditions = {}
  /\ Absent \notin Values /\ Absent \notin BOOLEAN /\ Absent \notin Requests
  /\ Workload \subseteq Requests
  /\ \A d \in Stored : /\ d \in Database
                      /\ ReferentialIntegrity(d) /\ IdsFresh(d)
                      /\ Guarded(d) /\ DefaultsTyped(d)

-----------------------------------------------------------------------------
(* Validation. *)

ValidConditions(conds) == conds \in Seq(Conditions)

ValidFlag(r) == r.default \in ValuesOf[r.type]

ValidRule(r) == /\ r.conds # <<>> \/ r.segs # <<>>
                /\ r.rollout \in 0 .. 100
                /\ ValidConditions(r.conds)

ValidSegment(conds) == conds # <<>> /\ ValidConditions(conds)

-----------------------------------------------------------------------------
(* The rows a request asks for. *)

FlagRowOf(r) == [type |-> r.type, enabled |-> r.enabled, default |-> r.default]

\* The row with the fields that an UpdateFlag names replaced.
Merge(row, r) ==
  [row EXCEPT !.enabled = IF r.enabled = Absent THEN @ ELSE r.enabled,
              !.default = IF r.default = Absent THEN @ ELSE r.default]

\* The description after an UpdateSegment that has read the description text.
TextOf(r, text) == IF r.text = Absent THEN text ELSE r.text

Toggle(d, f) == IF HasFlag(d, f) THEN [d EXCEPT !.flags[f].enabled = ~@] ELSE d

RuleRowOf(r) == [flag |-> r.flag, value |-> r.value, priority |-> r.priority,
                 rollout |-> r.rollout]

-----------------------------------------------------------------------------
(* What the store reads. *)

\* A rule as getRulesForFlag returns it.
RuleView(row, conds, segs) == [value |-> row.value, priority |-> row.priority,
                               rollout |-> row.rollout, conds |-> conds, segs |-> segs]

\* A flag as GetFlagForEvaluation returns it.
FlagView(row, rules, segments) ==
  [type |-> row.type, enabled |-> row.enabled, default |-> row.default,
   rules |-> rules, segments |-> segments]

RulesIn(d, f) == [i \in RulesOf(d, f) |-> RuleView(d.rules[i], d.conds[i], LinksOf(d, i))]

\* A flag as GetFlag returns it.
FlagIn(d, f) == FlagView(d.flags[f], RulesIn(d, f), <<>>)

SegmentsUsed(rules) == UNION {rules[i].segs : i \in DOMAIN rules}

SegmentsIn(d, rules) == [g \in SegmentsUsed(rules) \cap d.segs |-> d.segConds[g]]

-----------------------------------------------------------------------------
(* Answers. *)

NoBody == [body |-> "none"]

SegmentView(text, conds) == [text |-> text, conds |-> conds]

SegmentIn(d, g) == SegmentView(d.about[g], d.segConds[g])

Answer(status, body) == [status |-> status, body |-> body]

\* No answer has been given yet.
NoReply == Answer(0, NoBody)

\* The status a handler gives to an error of the store it does not tell apart.
ErrorStatus(op) ==
  CASE op \in {"CreateFlag", "CreateSegment"} -> 409
    [] op \in {"UpdateFlag", "UpdateSegment"} -> 400
    [] op \in {"DeleteFlag", "UpdateRule", "DeleteRule", "DeleteSegment"} -> 404
    [] OTHER -> 500

\* Bound: no CreateRule once every rule id is handed out.
RuleIdLeft(d, r) == r.op = "CreateRule" => d.nextRule \in RuleIds
=============================================================================
