------------------------------ MODULE Workloads ------------------------------
(* Requests and stored databases for the instances of Catalog and Store. *)
EXTENDS Requests

CONSTANTS c1, c2, bad

MCValuesOf == [t \in {"boolean", "string"} |->
                 IF t = "boolean" THEN {"true", "false"} ELSE {"text"}]

Rule(op, id, value, conds, segs) ==
  [op |-> op, flag |-> "f", rule |-> id, value |-> value, priority |-> 1,
   rollout |-> 0, conds |-> conds, segs |-> segs]

NewRule(value, conds, segs) == Rule("CreateRule", Absent, value, conds, segs)

SetRule(id, value, conds, segs) == Rule("UpdateRule", id, value, conds, segs)

DropRule(id) == [op |-> "DeleteRule", flag |-> "f", rule |-> id]

NewFlag(type, enabled, default) ==
  [op |-> "CreateFlag", flag |-> "f", type |-> type, enabled |-> enabled, default |-> default]

SetFlag(enabled, default) ==
  [op |-> "UpdateFlag", flag |-> "f", enabled |-> enabled, default |-> default]

Flag(op) == [op |-> op, flag |-> "f"]

NewSegment(g, text, conds) ==
  [op |-> "CreateSegment", segment |-> g, text |-> text, conds |-> conds]

SetSegment(g, text, conds) ==
  [op |-> "UpdateSegment", segment |-> g, text |-> text, conds |-> conds]

Segment(op, g) == [op |-> op, segment |-> g]

Ask(holds, errors) ==
  [op |-> "Evaluate", flag |-> "f",
   ctx |-> [holds |-> holds, errors |-> errors, bucket |-> NoEntity]]

-----------------------------------------------------------------------------
(* Stored databases. *)

\* A flag and segment 1.
FlagAndSegment ==
  InsertSegment(PutFlag(EmptyDatabase, "f", [type |-> "boolean", enabled |-> TRUE,
                                             default |-> "false"]), 1, "old", <<c1>>)

\* And rule 1 on the segment.
FlagWithRule ==
  InsertRule(FlagAndSegment, [flag |-> "f", value |-> "true", priority |-> 0, rollout |-> 0],
             <<>>, <<1>>, TRUE)

FromEmpty == {EmptyDatabase}

FromFlag == {FlagAndSegment}

FromRule == {FlagWithRule}

-----------------------------------------------------------------------------
(* Workloads. *)

\* Every operation, with every way a handler can refuse it.
EveryOperation ==
  {NewFlag("boolean", TRUE, "false"), NewFlag("string", TRUE, "text"),
   NewFlag("boolean", TRUE, NoValue),
   SetFlag(FALSE, Absent), SetFlag(Absent, "true"), SetFlag(TRUE, "text"),
   Flag("GetFlag"), Flag("ToggleFlag"), Flag("DeleteFlag"),
   NewRule("true", <<c1>>, <<>>), NewRule("true", <<c2, c1>>, <<2, 1>>),
   NewRule("true", <<>>, <<1, 1>>), NewRule("true", <<>>, <<>>),
   SetRule(1, "text", <<>>, <<1>>), SetRule(2, "true", <<bad>>, <<>>),
   SetRule(2, "true", <<c1>>, <<2>>),
   DropRule(1), DropRule(2),
   NewSegment(1, "old", <<c1>>), NewSegment(2, "old", <<c2>>), NewSegment(1, "old", <<>>),
   SetSegment(1, Absent, <<c2, c2>>), SetSegment(1, "new", <<>>), SetSegment(2, "new", Absent),
   Segment("GetSegment", 1), Segment("DeleteSegment", 1), Segment("DeleteSegment", 2),
   Ask({c1}, {c2}), Ask({c1, c2}, {})}

\* The operations that change something.
Changes == {r \in EveryOperation : r.op \notin {"GetFlag", "GetSegment", "Evaluate"}}

\* Requests that are Quiet.
Transactions ==
  {NewFlag("boolean", TRUE, "true"),
   NewRule("true", <<c1>>, <<>>), NewRule("true", <<>>, <<1, 2>>),
   NewRule("text", <<c1>>, <<>>), SetRule(1, "true", <<c2>>, <<2>>),
   NewSegment(2, "new", <<c2>>), SetSegment(1, "new", <<c2>>), SetSegment(1, "old", <<c1>>)}

\* Rules and segments that come and go.
SegmentChurn ==
  {NewRule("true", <<>>, <<1>>), SetRule(1, "true", <<c1>>, <<1>>),
   SetRule(1, "false", <<c1>>, <<>>), DropRule(1), NewSegment(1, "old", <<c1>>),
   Segment("DeleteSegment", 1)}

\* Reads, and the writes that cannot tear them.
ReadsAndWrites ==
  {Flag("ToggleFlag"), SetFlag(Absent, "true"), NewRule("false", <<c2>>, <<1>>),
   SetSegment(1, "new", <<c2, c1>>), Flag("GetFlag")}

\* An evaluation nothing matches, and a rule update.
EvaluationAndUpdate == {Ask({}, {}), SetRule(1, "true", <<c2>>, <<>>)}

\* A read that keeps the first connection busy, and a delete.
ReadAndDelete == {Flag("GetFlag"), Flag("DeleteFlag")}
=============================================================================
