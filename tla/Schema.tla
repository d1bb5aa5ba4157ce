------------------------------- MODULE Schema -------------------------------
(***************************************************************************)
(* The SQLite database of flaggy (migrations/001, 002 and 004) as a value, *)
(* and the statements internal/store runs against it as operators on that  *)
(* value.                                                                  *)
(*                                                                         *)
(* A statement that may cascade, or that a foreign key may refuse, takes   *)
(* the parameter fk: whether foreign_keys is ON for the connection it runs *)
(* on.  SQLite keeps that switch per connection, and NewSQLiteStore sets   *)
(* it on one connection of the pool.                                       *)
(*                                                                         *)
(* A segment has a description, which its updates write back.  Timestamps, *)
(* the descriptions of flags and rules, and row ids other than a rule's    *)
(* are left out.  A segment key is a number: its rank in ORDER BY          *)
(* segment_key.                                                            *)
(***************************************************************************)
EXTENDS Integers, Sequences

CONSTANTS
  FlagKeys,       \* keys that flags are created under
  SegmentKeys,    \* keys that segments are created under
  Conditions,     \* conditions that ValidateCondition accepts
  FlagTypes,      \* boolean, string, number, json
  Values,         \* JSON values a flag or a rule may serve
  Descriptions,   \* descriptions of segments
  ValuesOf,       \* ValuesOf[t]: the values ValidateValueForType accepts for type t
  MaxRule,        \* bound on the rule ids handed out
  NoValue,        \* a value that was missing from a request
  Absent          \* a row that is not there

ASSUME SchemaAssumption ==
  /\ SegmentKeys \subseteq Nat
  /\ MaxRule \in Nat
  /\ ValuesOf \in [FlagTypes -> SUBSET Values]
  /\ NoValue \notin Values

RuleIds == 1 .. MaxRule

FlagRow == [type : FlagTypes, enabled : BOOLEAN, default : Values]

RuleRow == [flag     : FlagKeys,
            value    : Values \cup {NoValue},
            priority : Int,
            rollout  : 0 .. 100]

Database == [flags    : [FlagKeys -> FlagRow \cup {Absent}],
             rules    : [RuleIds -> RuleRow \cup {Absent}],
             conds    : [RuleIds -> Seq(Conditions)],
             links    : SUBSET (RuleIds \X SegmentKeys),
             segs     : SUBSET SegmentKeys,
             about    : [SegmentKeys -> Descriptions \cup {Absent}],
             segConds : [SegmentKeys -> Seq(Conditions)],
             nextRule : 1 .. MaxRule + 1]

ASSUME AbsentAssumption == Absent \notin FlagRow \cup RuleRow \cup Database \cup Descriptions

EmptyDatabase == [flags    |-> [f \in FlagKeys |-> Absent],
                  rules    |-> [i \in RuleIds |-> Absent],
                  conds    |-> [i \in RuleIds |-> <<>>],
                  links    |-> {},
                  segs     |-> {},
                  about    |-> [g \in SegmentKeys |-> Absent],
                  segConds |-> [g \in SegmentKeys |-> <<>>],
                  nextRule |-> 1]

-----------------------------------------------------------------------------
(* Queries. *)

HasFlag(d, f) == d.flags[f] # Absent

HasRule(d, f, i) == d.rules[i] # Absent /\ d.rules[i].flag = f

RulesOf(d, f) == {i \in RuleIds : HasRule(d, f, i)}

LinksOf(d, i) == {g \in SegmentKeys : <<i, g>> \in d.links}

InUse(d, g) == \E i \in RuleIds : <<i, g>> \in d.links

\* No segment key is given twice: (rule_id, segment_key) is a primary key.
Distinct(keys) == \A m, n \in DOMAIN keys : keys[m] = keys[n] => m = n

KeysIn(keys) == {keys[n] : n \in DOMAIN keys}

-----------------------------------------------------------------------------
(* Statements. *)

PutFlag(d, f, row) == [d EXCEPT !.flags[f] = row]

\* DELETE FROM rules: conditions and rule_segments of the rules cascade.
DropRules(d, ids, fk) ==
  LET gone == [d EXCEPT !.rules = [i \in RuleIds |-> IF i \in ids THEN Absent ELSE @[i]]]
  IN  IF ~fk THEN gone ELSE
      [gone EXCEPT !.conds = [i \in RuleIds |-> IF i \in ids THEN <<>> ELSE @[i]],
                   !.links = {l \in @ : l[1] \notin ids}]

\* DELETE FROM flags: the flag's rules cascade.
DropFlag(d, f, fk) ==
  LET gone == PutFlag(d, f, Absent)
  IN  IF fk THEN DropRules(gone, RulesOf(d, f), fk) ELSE gone

\* DELETE FROM segments: segment_conditions and rule_segments cascade.
DropSegment(d, g, fk) ==
  LET gone == [d EXCEPT !.segs = @ \ {g}, !.about[g] = Absent]
  IN  IF ~fk THEN gone ELSE
      [gone EXCEPT !.segConds[g] = <<>>, !.links = {l \in @ : l[2] # g}]

\* Would a statement that writes these rule_segments rows be refused?
BadLinks(d, keys, fk) == ~Distinct(keys) \/ (fk /\ ~ KeysIn(keys) \subseteq d.segs)

\* The transaction of CreateRule after its check of the segment keys: the
\* database it leaves, or Absent when a statement of it is refused.
InsertRule(d, row, conds, keys, fk) ==
  LET i == d.nextRule IN
  IF (fk /\ ~HasFlag(d, row.flag)) \/ BadLinks(d, keys, fk)
  THEN Absent
  ELSE [d EXCEPT !.rules[i] = row,
                 !.conds[i] = conds,
                 !.links    = @ \cup ({i} \X KeysIn(keys)),
                 !.nextRule = i + 1]

\* Mutant: the old links are not deleted.
RewriteRuleAddLinks(d, i, row, conds, keys, fk) ==
  IF ~HasRule(d, row.flag, i) \/ BadLinks(d, keys, fk)
  THEN Absent
  ELSE [d EXCEPT !.rules[i] = row,
                 !.conds[i] = conds,
                 !.links    = @ \cup ({i} \X KeysIn(keys))]

\* Mutant: INSERT OR REPLACE, so that a rule that is not there is no error.
RewriteRuleUpsert(d, i, row, conds, keys, fk) ==
  IF BadLinks(d, keys, fk)
  THEN Absent
  ELSE [d EXCEPT !.rules[i] = row,
                 !.conds[i] = conds,
                 !.links    = {l \in @ : l[1] # i} \cup ({i} \X KeysIn(keys))]

\* The transaction of UpdateRule after its check of the segment keys.
RewriteRule(d, i, row, conds, keys, fk) ==
  IF ~HasRule(d, row.flag, i) \/ BadLinks(d, keys, fk)
  THEN Absent
  ELSE [d EXCEPT !.rules[i] = row,
                 !.conds[i] = conds,
                 !.links    = {l \in @ : l[1] # i} \cup ({i} \X KeysIn(keys))]

\* The transaction of CreateSegment.  Rows left under the key by an earlier
\* delete that did not cascade are still there.
InsertSegment(d, g, text, conds) ==
  IF g \in d.segs THEN Absent
  ELSE [d EXCEPT !.segs = @ \cup {g}, !.about[g] = text, !.segConds[g] = @ \o conds]

\* The transaction of UpdateSegment.  Its UPDATE is not checked to have hit a
\* row; an insert into segment_conditions needs the segment only if fk is on.
RewriteSegment(d, g, text, conds, fk) ==
  LET described == IF g \in d.segs THEN [d EXCEPT !.about[g] = text] ELSE d IN
  IF conds = Absent THEN described
  ELSE IF fk /\ g \notin d.segs THEN Absent
  ELSE [described EXCEPT !.segConds[g] = conds]

-----------------------------------------------------------------------------
(* What a database should satisfy. *)

\* Every child row has its parent.
ReferentialIntegrity(d) ==
  /\ \A i \in RuleIds : d.rules[i] # Absent => HasFlag(d, d.rules[i].flag)
  /\ \A i \in RuleIds : d.rules[i] = Absent => d.conds[i] = <<>> /\ LinksOf(d, i) = {}
  /\ \A l \in d.links : l[2] \in d.segs
  /\ \A g \in SegmentKeys : g \notin d.segs => d.segConds[g] = <<>>

\* Every rule has something that must hold before its value is served
\* (ValidateRule, ErrSegmentInUse), and so has every segment (ValidateSegment).
Guarded(d) ==
  /\ \A i \in RuleIds : d.rules[i] # Absent => d.conds[i] # <<>> \/ LinksOf(d, i) # {}
  /\ \A g \in d.segs : d.segConds[g] # <<>>

\* A flag's default value has the flag's type.
DefaultsTyped(d) ==
  \A f \in FlagKeys : HasFlag(d, f) => d.flags[f].default \in ValuesOf[d.flags[f].type]

\* Rule ids are handed out in order and never again (AUTOINCREMENT).
IdsFresh(d) == \A i \in RuleIds : d.rules[i] # Absent => i < d.nextRule
=============================================================================
