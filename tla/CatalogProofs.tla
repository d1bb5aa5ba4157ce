---------------------------- MODULE CatalogProofs ----------------------------
(***************************************************************************)
(* The catalogue never holds an inconsistent database, for any keys,       *)
(* values, workload and number of sessions.                                *)
(*                                                                         *)
(* The invariant is Sound: each of its conjuncts needs others to be kept.  *)
(* Deleting a segment keeps rules guarded because no rule links to it,     *)
(* which needs links to be of the schema; a new rule overwrites no other   *)
(* because ids are fresh, and inherits no links because none are dangling. *)
(***************************************************************************)
EXTENDS Catalog, SequenceTheorems, TLAPS

Sound(d) == /\ d \in Database
            /\ ReferentialIntegrity(d)
            /\ IdsFresh(d)
            /\ Guarded(d)
            /\ DefaultsTyped(d)

-----------------------------------------------------------------------------
(* Statements. *)

\* A flag row whose default has its type may be put under any key.
LEMMA PutFlagSound ==
  ASSUME NEW d, Sound(d), NEW f \in FlagKeys, NEW row \in FlagRow,
         row.default \in ValuesOf[row.type]
  PROVE  Sound(PutFlag(d, f, row))
<1> DEFINE e == PutFlag(d, f, row)
<1>1. e \in Database
  BY DEF Sound, PutFlag, Database
<1>2. /\ e.flags = [d.flags EXCEPT ![f] = row]
      /\ e.rules = d.rules /\ e.conds = d.conds /\ e.links = d.links /\ e.segs = d.segs
      /\ e.segConds = d.segConds /\ e.nextRule = d.nextRule
  BY DEF Sound, PutFlag, Database
<1>3. row # Absent
  BY AbsentAssumption
<1> HIDE DEF e
<1>4. ReferentialIntegrity(e)
  BY <1>2, <1>3 DEF Sound, Database, ReferentialIntegrity, HasFlag, LinksOf, RuleRow
<1>5. IdsFresh(e) /\ Guarded(e)
  BY <1>2 DEF Sound, IdsFresh, Guarded, LinksOf
<1>6. DefaultsTyped(e)
  BY <1>2 DEF Sound, Database, DefaultsTyped, HasFlag
<1> QED BY <1>1, <1>4, <1>5, <1>6 DEF Sound, e

\* Deleting rules takes their conditions and links along.
LEMMA DropRulesSound ==
  ASSUME NEW d, Sound(d), NEW ids \in SUBSET RuleIds
  PROVE  Sound(DropRules(d, ids, TRUE))
<1> DEFINE e == DropRules(d, ids, TRUE)
<1>1. e \in Database
  <2>1. [i \in RuleIds |-> IF i \in ids THEN Absent ELSE d.rules[i]]
          \in [RuleIds -> RuleRow \cup {Absent}]
    BY DEF Sound, Database
  <2>2. [i \in RuleIds |-> IF i \in ids THEN <<>> ELSE d.conds[i]]
          \in [RuleIds -> Seq(Conditions)]
    BY DEF Sound, Database
  <2>3. {l \in d.links : l[1] \notin ids} \in SUBSET (RuleIds \X SegmentKeys)
    BY DEF Sound, Database
  <2> QED BY <2>1, <2>2, <2>3 DEF Sound, DropRules, Database
<1>2. /\ e.flags = d.flags
      /\ e.rules = [i \in RuleIds |-> IF i \in ids THEN Absent ELSE d.rules[i]]
      /\ e.conds = [i \in RuleIds |-> IF i \in ids THEN <<>> ELSE d.conds[i]]
      /\ e.links = {l \in d.links : l[1] \notin ids}
      /\ e.segs = d.segs /\ e.segConds = d.segConds /\ e.nextRule = d.nextRule
  BY DEF Sound, DropRules, Database
<1> HIDE DEF e
<1>3. \A i \in RuleIds : LinksOf(e, i) = IF i \in ids THEN {} ELSE LinksOf(d, i)
  BY <1>2 DEF LinksOf
<1>4. ReferentialIntegrity(e)
  BY <1>2, <1>3 DEF Sound, ReferentialIntegrity, HasFlag
<1>5. IdsFresh(e) /\ Guarded(e)
  BY <1>2, <1>3 DEF Sound, IdsFresh, Guarded
<1>6. DefaultsTyped(e)
  BY <1>2 DEF Sound, DefaultsTyped, HasFlag
<1> QED BY <1>1, <1>4, <1>5, <1>6 DEF Sound, e

\* Deleting a flag takes its rules along, and theirs.
LEMMA DropFlagSound ==
  ASSUME NEW d, Sound(d), NEW f \in FlagKeys
  PROVE  Sound(DropFlag(d, f, TRUE))
<1> DEFINE ids == RulesOf(d, f)
           e == DropFlag(d, f, TRUE)
<1>1. e \in Database
  <2>1. [i \in RuleIds |-> IF i \in ids THEN Absent ELSE d.rules[i]]
          \in [RuleIds -> RuleRow \cup {Absent}]
    BY DEF Sound, Database
  <2>2. [i \in RuleIds |-> IF i \in ids THEN <<>> ELSE d.conds[i]]
          \in [RuleIds -> Seq(Conditions)]
    BY DEF Sound, Database
  <2>3. {l \in d.links : l[1] \notin ids} \in SUBSET (RuleIds \X SegmentKeys)
    BY DEF Sound, Database
  <2>4. [d.flags EXCEPT ![f] = Absent] \in [FlagKeys -> FlagRow \cup {Absent}]
    BY DEF Sound, Database
  <2> QED BY <2>1, <2>2, <2>3, <2>4 DEF Sound, DropFlag, PutFlag, DropRules, Database
<1>2. /\ e.flags = [d.flags EXCEPT ![f] = Absent]
      /\ e.rules = [i \in RuleIds |-> IF i \in ids THEN Absent ELSE d.rules[i]]
      /\ e.conds = [i \in RuleIds |-> IF i \in ids THEN <<>> ELSE d.conds[i]]
      /\ e.links = {l \in d.links : l[1] \notin ids}
      /\ e.segs = d.segs /\ e.segConds = d.segConds /\ e.nextRule = d.nextRule
  BY DEF Sound, DropFlag, PutFlag, DropRules, Database
<1>3. \A i \in RuleIds : i \notin ids /\ d.rules[i] # Absent => d.rules[i].flag # f
  BY DEF RulesOf, HasRule
<1> HIDE DEF e, ids
<1>4. \A i \in RuleIds : LinksOf(e, i) = IF i \in ids THEN {} ELSE LinksOf(d, i)
  BY <1>2 DEF LinksOf
<1>5. ReferentialIntegrity(e)
  <2>1. \A i \in RuleIds : e.rules[i] # Absent => HasFlag(e, e.rules[i].flag)
    BY <1>2, <1>3 DEF Sound, Database, RuleRow, ReferentialIntegrity, HasFlag
  <2>2. \A i \in RuleIds : e.rules[i] = Absent => e.conds[i] = <<>> /\ LinksOf(e, i) = {}
    BY <1>2, <1>4 DEF Sound, ReferentialIntegrity
  <2>3. /\ \A l \in e.links : l[2] \in e.segs
        /\ \A g \in SegmentKeys : g \notin e.segs => e.segConds[g] = <<>>
    BY <1>2 DEF Sound, ReferentialIntegrity
  <2> QED BY <2>1, <2>2, <2>3 DEF ReferentialIntegrity
<1>6. IdsFresh(e) /\ Guarded(e)
  BY <1>2, <1>4 DEF Sound, IdsFresh, Guarded
<1>7. DefaultsTyped(e)
  BY <1>2 DEF Sound, Database, DefaultsTyped, HasFlag
<1> QED BY <1>1, <1>5, <1>6, <1>7 DEF Sound, e

\* A segment no rule is linked to may go, with its conditions.
LEMMA DropSegmentSound ==
  ASSUME NEW d, Sound(d), NEW g \in SegmentKeys, ~InUse(d, g)
  PROVE  Sound(DropSegment(d, g, TRUE))
<1> DEFINE e == DropSegment(d, g, TRUE)
<1>1. e \in Database
  <2>1. {l \in d.links : l[2] # g} \in SUBSET (RuleIds \X SegmentKeys)
    BY DEF Sound, Database
  <2>2. [d.segConds EXCEPT ![g] = <<>>] \in [SegmentKeys -> Seq(Conditions)]
    BY DEF Sound, Database
  <2> QED BY <2>1, <2>2 DEF Sound, DropSegment, Database
<1>2. /\ e.flags = d.flags /\ e.rules = d.rules /\ e.conds = d.conds
      /\ e.links = {l \in d.links : l[2] # g}
      /\ e.segs = d.segs \ {g}
      /\ e.segConds = [d.segConds EXCEPT ![g] = <<>>]
      /\ e.nextRule = d.nextRule
  BY DEF Sound, DropSegment, Database
<1> HIDE DEF e
<1>3. e.links = d.links
  <2>1. ASSUME NEW l \in d.links PROVE l[2] # g
    <3>1. l \in RuleIds \X SegmentKeys
      BY DEF Sound, Database
    <3>2. l = <<l[1], l[2]>> /\ l[1] \in RuleIds
      BY <3>1
    <3> QED BY <3>2 DEF InUse
  <2> QED BY <1>2, <2>1
<1>4. ReferentialIntegrity(e)
  <2>1. \A l \in e.links : l[2] \in e.segs
    BY <1>2, <1>3 DEF Sound, ReferentialIntegrity
  <2>2. \A k \in SegmentKeys : k \notin e.segs => e.segConds[k] = <<>>
    BY <1>2 DEF Sound, Database, ReferentialIntegrity
  <2> QED BY <1>2, <1>3, <2>1, <2>2 DEF Sound, ReferentialIntegrity, HasFlag, LinksOf
<1>5. IdsFresh(e) /\ DefaultsTyped(e)
  BY <1>2 DEF Sound, IdsFresh, DefaultsTyped, HasFlag
<1>6. Guarded(e)
  <2>1. \A i \in RuleIds : LinksOf(e, i) = LinksOf(d, i)
    BY <1>3 DEF LinksOf
  <2>2. \A k \in e.segs : k \in d.segs /\ e.segConds[k] = d.segConds[k]
    BY <1>2 DEF Sound, Database
  <2> QED BY <1>2, <2>1, <2>2 DEF Sound, Guarded
<1> QED BY <1>1, <1>4, <1>5, <1>6 DEF Sound, e

\* A segment is created with the conditions of the request and no others.
LEMMA InsertSegmentSound ==
  ASSUME NEW d, Sound(d), NEW g \in SegmentKeys, NEW text \in Descriptions, NEW conds,
         ValidSegment(conds), g \notin d.segs
  PROVE  Sound(InsertSegment(d, g, text, conds))
<1> DEFINE e == InsertSegment(d, g, text, conds)
<1>1. d.segConds[g] = <<>> /\ <<>> \o conds = conds /\ conds \in Seq(Conditions)
  BY ConcatEmptySeq DEF Sound, ReferentialIntegrity, ValidSegment, ValidConditions
<1>2. e = [d EXCEPT !.segs = @ \cup {g}, !.about[g] = text, !.segConds[g] = conds]
  BY <1>1 DEF InsertSegment
<1>3. e \in Database
  <2>1. d.segs \cup {g} \in SUBSET SegmentKeys
    BY DEF Sound, Database
  <2>2. [d.segConds EXCEPT ![g] = conds] \in [SegmentKeys -> Seq(Conditions)]
    BY <1>1 DEF Sound, Database
  <2> HIDE DEF e
  <2> QED BY <1>2, <2>1, <2>2 DEF Sound, Database
<1>4. /\ e.flags = d.flags /\ e.rules = d.rules /\ e.conds = d.conds /\ e.links = d.links
      /\ e.segs = d.segs \cup {g}
      /\ e.segConds = [d.segConds EXCEPT ![g] = conds]
      /\ e.nextRule = d.nextRule
  BY <1>2 DEF Sound, Database
<1> HIDE DEF e
<1>5. ReferentialIntegrity(e)
  BY <1>4 DEF Sound, Database, ReferentialIntegrity, HasFlag, LinksOf
<1>6. IdsFresh(e) /\ DefaultsTyped(e)
  BY <1>4 DEF Sound, IdsFresh, DefaultsTyped, HasFlag
<1>7. Guarded(e)
  BY <1>4 DEF Sound, Database, Guarded, LinksOf, ValidSegment
<1> QED BY <1>3, <1>5, <1>6, <1>7 DEF Sound, e

\* Updating a segment that is there leaves it with conditions.
LEMMA RewriteSegmentSound ==
  ASSUME NEW d, Sound(d), NEW g \in d.segs, NEW text \in Descriptions \cup {Absent}, NEW conds,
         conds # Absent => ValidSegment(conds)
  PROVE  Sound(RewriteSegment(d, g, text, conds, TRUE))
<1>1. CASE conds = Absent
  <2> DEFINE e == [d EXCEPT !.about[g] = text]
  <2>1. e \in Database
    BY DEF Sound, Database
  <2>2. /\ e.flags = d.flags /\ e.rules = d.rules /\ e.conds = d.conds
        /\ e.links = d.links /\ e.segs = d.segs /\ e.nextRule = d.nextRule
        /\ e.segConds = d.segConds
    BY DEF Sound, Database
  <2> HIDE DEF e
  <2>3. ReferentialIntegrity(e) /\ IdsFresh(e) /\ Guarded(e) /\ DefaultsTyped(e)
    BY <2>2 DEF Sound, ReferentialIntegrity, IdsFresh, Guarded, DefaultsTyped, HasFlag, LinksOf
  <2>4. RewriteSegment(d, g, text, conds, TRUE) = e
    BY <1>1 DEF RewriteSegment, e
  <2> QED BY <2>1, <2>3, <2>4 DEF Sound
<1>2. CASE conds # Absent
  <2> DEFINE e == [d EXCEPT !.about[g] = text, !.segConds[g] = conds]
  <2>1. conds \in Seq(Conditions) /\ conds # <<>> /\ g \in SegmentKeys
    BY <1>2 DEF ValidSegment, ValidConditions, Sound, Database
  <2>2. e \in Database
    BY <2>1 DEF Sound, Database
  <2>3. /\ e.flags = d.flags /\ e.rules = d.rules /\ e.conds = d.conds
        /\ e.links = d.links /\ e.segs = d.segs /\ e.nextRule = d.nextRule
        /\ e.segConds = [d.segConds EXCEPT ![g] = conds]
    BY DEF Sound, Database
  <2> HIDE DEF e
  <2>4. ReferentialIntegrity(e)
    BY <2>1, <2>3 DEF Sound, Database, ReferentialIntegrity, HasFlag, LinksOf
  <2>5. IdsFresh(e) /\ DefaultsTyped(e)
    BY <2>3 DEF Sound, IdsFresh, DefaultsTyped, HasFlag
  <2>6. Guarded(e)
    BY <2>1, <2>3 DEF Sound, Database, Guarded, LinksOf
  <2>7. RewriteSegment(d, g, text, conds, TRUE) = e
    BY <1>2 DEF RewriteSegment, e
  <2> QED BY <2>2, <2>4, <2>5, <2>6, <2>7 DEF Sound
<1> QED BY <1>1, <1>2

\* A rule with a condition or a link, put under a fresh id or over the rule that
\* has the id, is guarded by what the request gave it.
LEMMA PutRuleSound ==
  ASSUME NEW d, Sound(d), NEW i \in RuleIds, NEW row \in RuleRow, HasFlag(d, row.flag),
         NEW conds \in Seq(Conditions), NEW keys \in Seq(SegmentKeys),
         conds # <<>> \/ keys # <<>>, KeysIn(keys) \subseteq d.segs,
         NEW next \in 1 .. MaxRule + 1, d.nextRule <= next, i < next,
         NEW e,
         e = [d EXCEPT !.rules[i] = row, !.conds[i] = conds,
                       !.links = {l \in @ : l[1] # i} \cup ({i} \X KeysIn(keys)),
                       !.nextRule = next]
  PROVE  Sound(e)
<1>1. KeysIn(keys) \subseteq SegmentKeys /\ (keys # <<>> => KeysIn(keys) # {})
  <2>1. DOMAIN keys = 1 .. Len(keys) /\ Len(keys) \in Nat
    BY LenProperties
  <2>2. keys # <<>> => 1 \in DOMAIN keys
    BY <2>1, EmptySeq
  <2> QED BY <2>2 DEF KeysIn, Sound, Database
<1>2. {l \in d.links : l[1] # i} \cup ({i} \X KeysIn(keys))
        \in SUBSET (RuleIds \X SegmentKeys)
  BY <1>1 DEF Sound, Database
<1>3. e \in Database
  BY <1>2 DEF Sound, Database
<1>4. /\ e.flags = d.flags
      /\ e.rules = [d.rules EXCEPT ![i] = row]
      /\ e.conds = [d.conds EXCEPT ![i] = conds]
      /\ e.links = {l \in d.links : l[1] # i} \cup ({i} \X KeysIn(keys))
      /\ e.segs = d.segs /\ e.segConds = d.segConds /\ e.nextRule = next
  BY DEF Sound, Database
<1>5. row # Absent
  BY AbsentAssumption
<1>6. \A j \in RuleIds : LinksOf(e, j) = IF j = i THEN KeysIn(keys) ELSE LinksOf(d, j)
  BY <1>1, <1>4 DEF LinksOf
<1>7. ReferentialIntegrity(e)
  <2>1. \A j \in RuleIds : e.rules[j] # Absent => HasFlag(e, e.rules[j].flag)
    BY <1>4 DEF Sound, Database, ReferentialIntegrity, HasFlag
  <2>2. \A j \in RuleIds : e.rules[j] = Absent => e.conds[j] = <<>> /\ LinksOf(e, j) = {}
    BY <1>4, <1>5, <1>6 DEF Sound, Database, ReferentialIntegrity
  <2>3. \A l \in e.links : l[2] \in e.segs
    BY <1>4 DEF Sound, ReferentialIntegrity
  <2> QED BY <1>4, <2>1, <2>2, <2>3 DEF Sound, ReferentialIntegrity
<1>8. IdsFresh(e)
  BY <1>4 DEF Sound, Database, IdsFresh, RuleIds
<1>9. Guarded(e)
  BY <1>1, <1>4, <1>6 DEF Sound, Database, Guarded
<1>10. DefaultsTyped(e)
  BY <1>4 DEF Sound, DefaultsTyped, HasFlag
<1> QED BY <1>3, <1>7, <1>8, <1>9, <1>10 DEF Sound

-----------------------------------------------------------------------------
(* Operations. *)

\* What a request holds, by its operation.
LEMMA RequestShape ==
  ASSUME NEW r \in Workload
  PROVE  /\ r.op \in {"CreateFlag", "GetFlag", "UpdateFlag", "DeleteFlag", "ToggleFlag",
                      "CreateRule", "UpdateRule", "DeleteRule", "CreateSegment", "GetSegment",
                      "UpdateSegment", "DeleteSegment", "Evaluate"}
         /\ r.op \in {"CreateFlag", "UpdateFlag", "DeleteFlag", "ToggleFlag", "CreateRule",
                      "UpdateRule", "DeleteRule"} => r.flag \in FlagKeys
         /\ r.op = "CreateFlag" => r.type \in FlagTypes /\ r.enabled \in BOOLEAN
         /\ r.op = "UpdateFlag" => /\ r.enabled \in BOOLEAN \cup {Absent}
                                   /\ r.default \in Values \cup {Absent}
         /\ r.op \in {"CreateRule", "UpdateRule"} =>
              /\ r.value \in Values \cup {NoValue} /\ r.priority \in Int
              /\ r.segs \in Seq(SegmentKeys)
         /\ r.op \in {"UpdateRule", "DeleteRule"} => r.rule \in RuleIds
         /\ r.op \in {"CreateSegment", "UpdateSegment", "DeleteSegment"} =>
              r.segment \in SegmentKeys
         /\ r.op = "CreateSegment" => r.text \in Descriptions
         /\ r.op = "UpdateSegment" => r.text \in Descriptions \cup {Absent}
<1>1. r \in Requests
  BY RequestsAssumption
<1> QED BY <1>1 DEF Requests, RuleBody, FlagRequest, SegmentRequest, SegmentBody

\* The row a valid rule request asks for, and the links a statement accepts.
LEMMA RuleRequest ==
  ASSUME NEW d, NEW r \in Workload, r.op \in {"CreateRule", "UpdateRule"}, ValidRule(r)
  PROVE  /\ RuleRowOf(r) \in RuleRow /\ RuleRowOf(r).flag = r.flag
         /\ r.conds \in Seq(Conditions) /\ r.segs \in Seq(SegmentKeys)
         /\ r.conds # <<>> \/ r.segs # <<>>
BY RequestShape DEF ValidRule, ValidConditions, RuleRowOf, RuleRow

\* No operation on flags leaves an inconsistent database.
LEMMA FlagOperationsSound ==
  ASSUME NEW d, Sound(d), NEW r \in Workload
  PROVE  /\ r.op = "CreateFlag" => Sound(CreateFlag(d, r).db)
         /\ r.op = "UpdateFlag" => Sound(UpdateFlag(d, r).db)
         /\ r.op = "DeleteFlag" => Sound(DeleteFlag(d, r).db)
         /\ r.op = "ToggleFlag" => Sound(ToggleFlag(d, r).db)
<1>1. ASSUME r.op = "CreateFlag" PROVE Sound(CreateFlag(d, r).db)
  <2>1. CASE ~ValidFlag(r) \/ HasFlag(d, r.flag)
    BY <2>1 DEF CreateFlag, Effect
  <2>2. CASE ValidFlag(r) /\ ~HasFlag(d, r.flag)
    <3>1. r.flag \in FlagKeys /\ r.type \in FlagTypes /\ r.enabled \in BOOLEAN
      BY <1>1, RequestShape
    <3>2. FlagRowOf(r) \in FlagRow /\ FlagRowOf(r).default \in ValuesOf[FlagRowOf(r).type]
      BY <2>2, <3>1, SchemaAssumption DEF FlagRowOf, FlagRow, ValidFlag
    <3>3. Sound(PutFlag(d, r.flag, FlagRowOf(r)))
      BY <3>1, <3>2, PutFlagSound
    <3> QED BY <2>2, <3>3 DEF CreateFlag, Effect
  <2> QED BY <2>1, <2>2
<1>2. ASSUME r.op = "UpdateFlag" PROVE Sound(UpdateFlag(d, r).db)
  <2> DEFINE old == d.flags[r.flag]
             row == Merge(old, r)
  <2>1. CASE ~HasFlag(d, r.flag) \/ (r.default # Absent /\ r.default \notin ValuesOf[old.type])
    BY <2>1 DEF UpdateFlag, Effect
  <2>2. CASE HasFlag(d, r.flag) /\ (r.default = Absent \/ r.default \in ValuesOf[old.type])
    <3>1. r.flag \in FlagKeys /\ r.enabled \in BOOLEAN \cup {Absent}
          /\ r.default \in Values \cup {Absent}
      BY <1>2, RequestShape
    <3>2. old \in FlagRow /\ old.default \in ValuesOf[old.type]
      BY <2>2, <3>1 DEF Sound, Database, HasFlag, DefaultsTyped
    <3>3. row \in FlagRow /\ row.default \in ValuesOf[row.type]
      BY <2>2, <3>1, <3>2 DEF Merge, FlagRow
    <3>4. Sound(PutFlag(d, r.flag, row))
      BY <3>1, <3>3, PutFlagSound
    <3> QED BY <2>2, <3>4 DEF UpdateFlag, Shows
  <2> QED BY <2>1, <2>2
<1>3. ASSUME r.op = "DeleteFlag" PROVE Sound(DeleteFlag(d, r).db)
  BY <1>3, RequestShape, DropFlagSound DEF DeleteFlag, Effect
<1>4. ASSUME r.op = "ToggleFlag" PROVE Sound(ToggleFlag(d, r).db)
  <2> DEFINE old == d.flags[r.flag]
             row == [old EXCEPT !.enabled = ~@]
  <2>1. CASE ~HasFlag(d, r.flag)
    BY <2>1 DEF ToggleFlag, Effect
  <2>2. CASE HasFlag(d, r.flag)
    <3>1. r.flag \in FlagKeys
      BY <1>4, RequestShape
    <3>2. old \in FlagRow /\ old.default \in ValuesOf[old.type]
      BY <2>2, <3>1 DEF Sound, Database, HasFlag, DefaultsTyped
    <3>3. row \in FlagRow /\ row.default \in ValuesOf[row.type]
      BY <3>2 DEF FlagRow
    <3>4. Sound(PutFlag(d, r.flag, row))
      BY <3>1, <3>3, PutFlagSound
    <3>5. Toggle(d, r.flag) = PutFlag(d, r.flag, row)
      BY <2>2 DEF Toggle, PutFlag
    <3> QED BY <2>2, <3>4, <3>5 DEF ToggleFlag, Shows
  <2> QED BY <2>1, <2>2
<1> QED BY <1>1, <1>2, <1>3, <1>4

\* No operation on rules leaves an inconsistent database.
LEMMA RuleOperationsSound ==
  ASSUME NEW d, Sound(d), NEW r \in Workload, RuleIdLeft(d, r)
  PROVE  /\ r.op = "CreateRule" => Sound(CreateRule(d, r).db)
         /\ r.op = "UpdateRule" => Sound(UpdateRule(d, r).db)
         /\ r.op = "DeleteRule" => Sound(DeleteRule(d, r).db)
<1> DEFINE row == RuleRowOf(r)
<1>1. ASSUME r.op = "CreateRule" PROVE Sound(CreateRule(d, r).db)
  <2> DEFINE i == d.nextRule
             after == InsertRule(d, row, r.conds, r.segs, TRUE)
  <2>1. CASE /\ HasFlag(d, r.flag) /\ ValidRule(r) /\ ~BadLinks(d, r.segs, TRUE)
    <3>1. /\ row \in RuleRow /\ row.flag = r.flag
          /\ r.conds \in Seq(Conditions) /\ r.segs \in Seq(SegmentKeys)
          /\ r.conds # <<>> \/ r.segs # <<>>
      BY <1>1, <2>1, RuleRequest
    <3>2. i \in RuleIds /\ i + 1 \in 1 .. MaxRule + 1 /\ i <= i + 1 /\ i < i + 1
      BY <1>1, SchemaAssumption DEF RuleIdLeft, RuleIds
    <3>3. KeysIn(r.segs) \subseteq d.segs
      BY <2>1 DEF BadLinks
    <3>4. {l \in d.links : l[1] # i} = d.links
      <4>1. d.rules[i] = Absent
        BY <3>2, SchemaAssumption DEF Sound, IdsFresh, RuleIds
      <4>2. LinksOf(d, i) = {}
        BY <3>2, <4>1 DEF Sound, ReferentialIntegrity
      <4>3. \A l \in d.links : l = <<l[1], l[2]>> /\ l[2] \in SegmentKeys
        BY DEF Sound, Database
      <4> QED BY <4>2, <4>3 DEF LinksOf
    <3>5. after = [d EXCEPT !.rules[i] = row, !.conds[i] = r.conds,
                            !.links = @ \cup ({i} \X KeysIn(r.segs)), !.nextRule = i + 1]
      BY <2>1, <3>1 DEF InsertRule
    <3>6. after = [d EXCEPT !.rules[i] = row, !.conds[i] = r.conds,
                            !.links = {l \in @ : l[1] # i} \cup ({i} \X KeysIn(r.segs)),
                            !.nextRule = i + 1]
      BY <3>4, <3>5
    <3> HIDE DEF after, i, row
    <3>7. Sound(after)
      BY <2>1, <3>1, <3>2, <3>3, <3>6, PutRuleSound DEF i
    <3> QED BY <3>7 DEF CreateRule, Effect, after, row
  <2>2. CASE ~HasFlag(d, r.flag) \/ ~ValidRule(r) \/ BadLinks(d, r.segs, TRUE)
    BY <2>2 DEF CreateRule, Effect, InsertRule
  <2> QED BY <2>1, <2>2
<1>2. ASSUME r.op = "UpdateRule" PROVE Sound(UpdateRule(d, r).db)
  <2> DEFINE i == r.rule
             after == RewriteRule(d, i, row, r.conds, r.segs, TRUE)
  <2>1. CASE HasRule(d, row.flag, i) /\ ValidRule(r) /\ ~BadLinks(d, r.segs, TRUE)
    <3>1. /\ row \in RuleRow /\ row.flag = r.flag
          /\ r.conds \in Seq(Conditions) /\ r.segs \in Seq(SegmentKeys)
          /\ r.conds # <<>> \/ r.segs # <<>>
      BY <1>2, <2>1, RuleRequest
    <3>2. i \in RuleIds /\ i < d.nextRule /\ HasFlag(d, row.flag)
      BY <1>2, <2>1, RequestShape DEF Sound, IdsFresh, ReferentialIntegrity, HasRule
    <3>3. d.nextRule \in 1 .. MaxRule + 1 /\ d.nextRule <= d.nextRule
      BY SchemaAssumption DEF Sound, Database
    <3>4. KeysIn(r.segs) \subseteq d.segs
      BY <2>1 DEF BadLinks
    <3>5. after = [d EXCEPT !.rules[i] = row, !.conds[i] = r.conds,
                            !.links = {l \in @ : l[1] # i} \cup ({i} \X KeysIn(r.segs))]
      BY <2>1 DEF RewriteRule
    <3>6. after = [d EXCEPT !.rules[i] = row, !.conds[i] = r.conds,
                            !.links = {l \in @ : l[1] # i} \cup ({i} \X KeysIn(r.segs)),
                            !.nextRule = d.nextRule]
      BY <3>5 DEF Sound, Database
    <3> HIDE DEF after, i, row
    <3>7. Sound(after)
      BY <3>1, <3>2, <3>3, <3>4, <3>6, PutRuleSound
    <3> QED BY <2>1, <3>7 DEF UpdateRule, Effect, after, row, i
  <2>2. CASE ~HasRule(d, row.flag, i) \/ ~ValidRule(r) \/ BadLinks(d, r.segs, TRUE)
    BY <2>2 DEF UpdateRule, Effect, RewriteRule
  <2> QED BY <2>1, <2>2
<1>3. ASSUME r.op = "DeleteRule" PROVE Sound(DeleteRule(d, r).db)
  <2>1. {r.rule} \in SUBSET RuleIds
    BY <1>3, RequestShape
  <2> QED BY <2>1, DropRulesSound DEF DeleteRule, Effect
<1> QED BY <1>1, <1>2, <1>3

\* No operation on segments leaves an inconsistent database.
LEMMA SegmentOperationsSound ==
  ASSUME NEW d, Sound(d), NEW r \in Workload
  PROVE  /\ r.op = "CreateSegment" => Sound(CreateSegment(d, r).db)
         /\ r.op = "UpdateSegment" => Sound(UpdateSegment(d, r).db)
         /\ r.op = "DeleteSegment" => Sound(DeleteSegment(d, r).db)
<1>1. ASSUME r.op = "CreateSegment" PROVE Sound(CreateSegment(d, r).db)
  <2>1. CASE ~ValidSegment(r.conds) \/ r.segment \in d.segs
    BY <2>1 DEF CreateSegment, Effect, InsertSegment
  <2>2. CASE ValidSegment(r.conds) /\ r.segment \notin d.segs
    <3>1. r.segment \in SegmentKeys /\ r.text \in Descriptions
      BY <1>1, RequestShape
    <3>2. Sound(InsertSegment(d, r.segment, r.text, r.conds))
      BY <2>2, <3>1, InsertSegmentSound
    <3> QED BY <2>2, <3>2 DEF CreateSegment, Effect
  <2> QED BY <2>1, <2>2
<1>2. ASSUME r.op = "UpdateSegment" PROVE Sound(UpdateSegment(d, r).db)
  <2> DEFINE text == TextOf(r, d.about[r.segment])
             after == RewriteSegment(d, r.segment, text, r.conds, TRUE)
  <2>1. text \in Descriptions \cup {Absent}
    BY <1>2, RequestShape DEF TextOf, Sound, Database
  <2>2. CASE (r.conds # Absent => ValidSegment(r.conds)) /\ r.segment \in d.segs
    <3>1. Sound(after)
      BY <2>1, <2>2, RewriteSegmentSound
    <3> QED BY <2>2, <3>1 DEF UpdateSegment, Shows
  <2>3. CASE ~((r.conds # Absent => ValidSegment(r.conds)) /\ r.segment \in d.segs)
    BY <2>3 DEF UpdateSegment, Effect
  <2> QED BY <2>2, <2>3
<1>3. ASSUME r.op = "DeleteSegment" PROVE Sound(DeleteSegment(d, r).db)
  BY <1>3, RequestShape, DropSegmentSound DEF DeleteSegment, Effect
<1> QED BY <1>1, <1>2, <1>3

\* Whatever a request does, it leaves a sound database.
LEMMA PerformSound ==
  ASSUME NEW d, Sound(d), NEW r \in Workload, RuleIdLeft(d, r)
  PROVE  Sound(Perform(d, r).db)
<1>1. CASE r.op \in {"CreateFlag", "UpdateFlag", "DeleteFlag", "ToggleFlag"}
  BY <1>1, FlagOperationsSound DEF Perform
<1>2. CASE r.op \in {"CreateRule", "UpdateRule", "DeleteRule"}
  BY <1>2, RuleOperationsSound DEF Perform
<1>3. CASE r.op \in {"CreateSegment", "UpdateSegment", "DeleteSegment"}
  BY <1>3, SegmentOperationsSound DEF Perform
<1>4. CASE r.op \in {"GetFlag", "GetSegment", "Evaluate"}
  BY <1>4 DEF Perform, GetFlag, GetSegment, EvaluateFlag, Effect, Shows
<1> QED BY <1>1, <1>2, <1>3, <1>4, RequestShape

-----------------------------------------------------------------------------
(* The invariant. *)

IInv == /\ Sound(cdb)
        /\ call \in [Sessions -> Workload \cup {Absent}]
        /\ reply = [s \in Sessions |-> reply[s]]
        /\ \A s \in Sessions : reply[s] # NoReply => call[s] # Absent

\* The catalogue is sound in every state: the inductive invariant.
LEMMA InvariantHolds == CatalogSpec => []IInv
<1>1. Init => IInv
  BY RequestsAssumption DEF Init, IInv, Sound
<1>2. IInv /\ [Next]_cvars => IInv'
  <2> SUFFICES ASSUME IInv, [Next]_cvars PROVE IInv'
    OBVIOUS
  <2>1. ASSUME NEW s \in Sessions, NEW r \in Workload, Call(s, r) PROVE IInv'
    BY <2>1 DEF IInv, Call
  <2>2. ASSUME NEW s \in Sessions, TakeEffect(s) PROVE IInv'
    <3>1. call[s] \in Workload
      BY <2>2 DEF IInv, TakeEffect
    <3>2. Sound(Perform(cdb, call[s]).db)
      BY <2>2, <3>1, PerformSound DEF IInv, TakeEffect
    <3>3. Sound(cdb)'
      BY <2>2, <3>2 DEF TakeEffect, Sound
    <3> QED BY <2>2, <3>3 DEF IInv, TakeEffect
  <2>3. ASSUME NEW s \in Sessions, Fail(s) PROVE IInv'
    BY <2>3 DEF IInv, Fail
  <2>4. ASSUME NEW s \in Sessions, ReadBackFails(s) PROVE IInv'
    BY <2>4 DEF IInv, ReadBackFails
  <2>5. ASSUME NEW s \in Sessions, Return(s) PROVE IInv'
    BY <2>5 DEF IInv, Return
  <2>6. CASE Crash
    BY <2>6 DEF IInv, Crash
  <2>7. CASE UNCHANGED cvars
    BY <2>7 DEF IInv, cvars
  <2> QED BY <2>1, <2>2, <2>3, <2>4, <2>5, <2>6, <2>7 DEF Next
<1> QED BY <1>1, <1>2, PTL DEF CatalogSpec

\* Requests and answers stay paired and the database stays within the schema.
THEOREM TypeCorrect == CatalogSpec => []TypeOK
<1>1. IInv => TypeOK
  BY DEF IInv, TypeOK, Sound
<1> QED BY <1>1, InvariantHolds, PTL

\* No sequence of requests leaves a dangling row or reuses a rule id.
THEOREM AlwaysConsistent == CatalogSpec => []Consistent
<1>1. IInv => Consistent
  BY DEF IInv, Consistent, Sound
<1> QED BY <1>1, InvariantHolds, PTL

\* No sequence of requests leaves a rule or a segment that matches everyone.
THEOREM AlwaysGuarded == CatalogSpec => []NeverUnguarded
<1>1. IInv => NeverUnguarded
  BY DEF IInv, NeverUnguarded, Sound
<1> QED BY <1>1, InvariantHolds, PTL

\* No sequence of requests gives a flag a default of another type.
THEOREM AlwaysTyped == CatalogSpec => []DefaultsHaveType
<1>1. IInv => DefaultsHaveType
  BY DEF IInv, DefaultsHaveType, Sound
<1> QED BY <1>1, InvariantHolds, PTL
=============================================================================
