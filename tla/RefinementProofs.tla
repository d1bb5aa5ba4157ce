--------------------------- MODULE RefinementProofs ---------------------------
(***************************************************************************)
(* The store implements the catalogue: one request at a time, or quiet     *)
(* requests that overlap on any connections.                               *)
(*                                                                         *)
(* A request takes effect at the statement that answers it, at the commit  *)
(* of its transaction or, for a toggle, at its UPDATE.  What it has read   *)
(* before is still so then (Known), for one of two reasons: there is no    *)
(* other session, or the others take no flag and no segment away and       *)
(* change no type, and the request relies on no more than that.  A read    *)
(* that fails before then fails its request, and after it the answer of    *)
(* the toggle.                                                             *)
(*                                                                         *)
(* Own(s) says what a step of session s is to the catalogue; OthersKnow,   *)
(* that it is nothing to the other sessions.                               *)
(*                                                                         *)
(* Reads in several statements, and batches of them, are not quiet.  As    *)
(* long as clients delete nothing and replace no rule (Untorn), a read     *)
(* stands in a database d: what it has read is so in d, and what it is     *)
(* still to read is in d what it is now.  A change leaves it standing in   *)
(* the database before it, when it has read the row that changes, or else  *)
(* in the one after it (ChangeSplits); and it answers what it would have   *)
(* answered in the database it stands in.                                  *)
(***************************************************************************)
EXTENDS StoreProofs, Batch

\* The segments of an evaluation that are read, when those in todo are not.
SegmentsRead(d, v) == (SegmentsUsed(v.rules) \ v.todo) \cap d.segs

\* What a session at statement p of request r, with view v, has read is so in
\* database d: of a flag, of the segments of an evaluation, of one segment, and
\* what the handler and the transaction have concluded from it.
Knows(d, p, r, v) ==
  /\ r.op \in {"GetFlag", "UpdateFlag", "ToggleFlag", "Evaluate"} =>
       /\ p \in {"rules", "links", "segRow", "segConds"} =>
            HasFlag(d, r.flag) /\ v.row = d.flags[r.flag]
       /\ p = "rules" => v.todo = {}
       /\ p \in {"rules", "links"} => DOMAIN v.segments = {}
       /\ p = "links" => v.rules = [i \in RulesOf(d, r.flag) |->
                                      RuleView(d.rules[i], d.conds[i], {})]
  /\ r.op = "UpdateFlag" /\ p = "exec" =>
       /\ HasFlag(d, r.flag) /\ v.row = d.flags[r.flag]
       /\ v.rules = RulesIn(d, r.flag)
  /\ r.op = "Evaluate" =>
       /\ p \in {"segRow", "segConds"} =>
            v.rules = RulesIn(d, r.flag) /\ v.todo \subseteq SegmentsUsed(v.rules)
       /\ p = "segRow" => /\ DOMAIN v.segments = SegmentsRead(d, v)
                          /\ \A k \in SegmentsRead(d, v) : v.segments[k] = d.segConds[k]
       /\ p = "segConds" => \E g \in v.todo \cap d.segs :
                              /\ DOMAIN v.segments = SegmentsRead(d, v) \cup {g}
                              /\ \A k \in SegmentsRead(d, v) : v.segments[k] = d.segConds[k]
  /\ r.op = "CreateRule" =>
       /\ p \in {"rules", "links"} =>
            HasFlag(d, r.flag) /\ v.row.type = d.flags[r.flag].type
       /\ p \in {"validate", "upgrade", "write", "commit"} =>
            HasFlag(d, r.flag) /\ r.value \in ValuesOf[d.flags[r.flag].type]
  /\ r.op \in {"GetSegment", "UpdateSegment"} =>
       /\ p \in {"segRow", "segConds"} => v.todo = {r.segment}
       /\ p = "segRow" => DOMAIN v.segments = {}
       /\ p = "segConds" => r.segment \in d.segs /\ DOMAIN v.segments = {r.segment}
       /\ p \in {"write", "commit"} => r.segment \in d.segs
  /\ (r.op = "GetSegment" \/ (r.op = "UpdateSegment" /\ r.text = Absent))
       /\ p \in {"segConds", "write", "commit"} => v.text = d.about[r.segment]
  /\ r.op = "UpdateSegment" /\ r.conds = Absent /\ p \in {"write", "commit"} =>
       v.segments[r.segment] = d.segConds[r.segment]
  /\ r.op = "DeleteSegment" /\ p = "exec" => ~InUse(d, r.segment)

Known(s) == pc[s] \in Statements => Knows(db, pc[s], req[s], view[s])

\* One request at a time never meets a second connection, nor another commit.
OneConnection ==
  Serial => /\ stale = {}
            /\ free["plain"] = 0
            /\ \A s \in Sessions : /\ conn[s] \in {"fk", Absent}
                                   /\ free["fk"] = IF conn[s] = Absent THEN 1 ELSE 0

\* The invariant under which the store implements the catalogue.
RefInv == /\ StoreInv /\ Sent /\ OneConnection
          /\ \A s \in Sessions : Known(s)

-----------------------------------------------------------------------------
(* The catalogue, in the terms of the store. *)

\* The catalogue performs request r on d: it leaves e and answers a.
Performs(d, r, e, a) == Abstract!Perform(d, r).db = e /\ Abstract!Perform(d, r).answer = a

\* What the catalogue makes of each request, in the terms of the store.
LEMMA PerformCreateFlag ==
  ASSUME NEW d, NEW r, r.op = "CreateFlag"
  PROVE  /\ ~ValidFlag(r) => Performs(d, r, d, Answer(400, NoBody))
         /\ ValidFlag(r) /\ HasFlag(d, r.flag) => Performs(d, r, d, Answer(409, NoBody))
         /\ ValidFlag(r) /\ ~HasFlag(d, r.flag) =>
              Performs(d, r, PutFlag(d, r.flag, FlagRowOf(r)), Answer(201, NoBody))
BY DEF Performs, Abstract!Perform, Abstract!CreateFlag, Abstract!Effect, Abstract!ValidFlag,
       Abstract!HasFlag, Abstract!PutFlag, Abstract!FlagRowOf, Abstract!Answer, Abstract!NoBody,
       ValidFlag, HasFlag, PutFlag, FlagRowOf, Answer, NoBody

LEMMA SameFlagIn == \A d, f : Abstract!FlagIn(d, f) = FlagIn(d, f)
BY DEF Abstract!FlagIn, Abstract!FlagView, Abstract!RulesIn, Abstract!RulesOf,
       Abstract!HasRule, Abstract!RuleIds, Abstract!RuleView, Abstract!LinksOf,
       FlagIn, FlagView, RulesIn, RulesOf, HasRule, RuleIds, RuleView, LinksOf

LEMMA SameSegmentIn == \A d, g : Abstract!SegmentIn(d, g) = SegmentIn(d, g)
BY DEF Abstract!SegmentIn, Abstract!SegmentView, SegmentIn, SegmentView

\* An answer that shows what is in the database.
LEMMA Shown ==
  ASSUME NEW d, NEW r, NEW e, NEW b, Abstract!Perform(d, r) = Abstract!Shows(e, b)
  PROVE  Performs(d, r, e, Answer(200, b))
BY DEF Performs, Abstract!Shows, Abstract!Answer, Answer

LEMMA PerformGetFlag ==
  ASSUME NEW d, NEW r, r.op = "GetFlag"
  PROVE  /\ ~HasFlag(d, r.flag) => Performs(d, r, d, Answer(404, NoBody))
         /\ HasFlag(d, r.flag) => Performs(d, r, d, Answer(200, FlagIn(d, r.flag)))
BY SameFlagIn DEF Performs, Abstract!Perform, Abstract!GetFlag, Abstract!Effect, Abstract!Shows,
                  Abstract!HasFlag, Abstract!Answer, Abstract!NoBody, HasFlag, Answer, NoBody

LEMMA PerformUpdateFlag ==
  ASSUME NEW d, NEW r, r.op = "UpdateFlag",
         NEW e, e = PutFlag(d, r.flag, Merge(d.flags[r.flag], r))
  PROVE  /\ ~HasFlag(d, r.flag) => Performs(d, r, d, Answer(404, NoBody))
         /\ HasFlag(d, r.flag) /\ r.default # Absent
              /\ r.default \notin ValuesOf[d.flags[r.flag].type] =>
              Performs(d, r, d, Answer(400, NoBody))
         /\ HasFlag(d, r.flag)
              /\ (r.default = Absent \/ r.default \in ValuesOf[d.flags[r.flag].type]) =>
              Performs(d, r, e, Answer(200, FlagIn(e, r.flag)))
<1>1. Abstract!Perform(d, r) = Abstract!UpdateFlag(d, r)
  BY DEF Abstract!Perform
<1>2. e = Abstract!PutFlag(d, r.flag, Abstract!Merge(d.flags[r.flag], r))
  BY DEF Abstract!PutFlag, Abstract!Merge, PutFlag, Merge
<1>3. Abstract!HasFlag(d, r.flag) = HasFlag(d, r.flag)
  BY DEF Abstract!HasFlag, HasFlag
<1>4. ~HasFlag(d, r.flag) => Performs(d, r, d, Answer(404, NoBody))
  BY <1>1, <1>3 DEF Performs, Abstract!UpdateFlag, Abstract!Effect, Abstract!Answer,
                    Abstract!NoBody, Answer, NoBody
<1>5. HasFlag(d, r.flag) /\ r.default # Absent
        /\ r.default \notin ValuesOf[d.flags[r.flag].type] =>
        Performs(d, r, d, Answer(400, NoBody))
  BY <1>1, <1>3 DEF Performs, Abstract!UpdateFlag, Abstract!Effect, Abstract!Answer,
                    Abstract!NoBody, Answer, NoBody
<1>6. CASE HasFlag(d, r.flag)
           /\ (r.default = Absent \/ r.default \in ValuesOf[d.flags[r.flag].type])
  <2>1. Abstract!UpdateFlag(d, r) = Abstract!Shows(e, Abstract!FlagIn(e, r.flag))
    BY <1>2, <1>3, <1>6 DEF Abstract!UpdateFlag
  <2> QED BY <1>1, <1>6, <2>1, SameFlagIn, Shown
<1> QED BY <1>4, <1>5, <1>6

LEMMA PerformDeleteFlag ==
  ASSUME NEW d, NEW r, r.op = "DeleteFlag"
  PROVE  /\ ~HasFlag(d, r.flag) => Performs(d, r, d, Answer(404, NoBody))
         /\ \A fk \in BOOLEAN : HasFlag(d, r.flag) /\ fk =>
              Performs(d, r, DropFlag(d, r.flag, fk), Answer(204, NoBody))
<1>1. Abstract!Perform(d, r) = Abstract!DeleteFlag(d, r)
  BY DEF Abstract!Perform
<1>2. /\ Abstract!HasFlag(d, r.flag) = HasFlag(d, r.flag)
      /\ \A st : Abstract!Answer(st, Abstract!NoBody) = Answer(st, NoBody)
  BY DEF Abstract!HasFlag, Abstract!Answer, Abstract!NoBody, HasFlag, Answer, NoBody
<1>3. CASE ~HasFlag(d, r.flag)
  BY <1>1, <1>2, <1>3 DEF Performs, Abstract!DeleteFlag, Abstract!Effect
<1>4. ASSUME NEW fk \in BOOLEAN, HasFlag(d, r.flag), fk
      PROVE  Performs(d, r, DropFlag(d, r.flag, fk), Answer(204, NoBody))
  <2> DEFINE e == DropFlag(d, r.flag, fk)
  <2>1. Abstract!DeleteFlag(d, r) = Abstract!Effect(e, 204)
    BY <1>4 DEF Abstract!DeleteFlag, Abstract!DropFlag, Abstract!DropRules, Abstract!PutFlag,
                Abstract!RulesOf, Abstract!HasRule, Abstract!HasFlag, Abstract!RuleIds,
                DropFlag, DropRules, PutFlag, RulesOf, HasRule, HasFlag, RuleIds
  <2> HIDE DEF e
  <2>2. Performs(d, r, e, Answer(204, NoBody))
    BY <1>1, <1>2, <2>1 DEF Performs, Abstract!Effect
  <2> QED BY <2>2 DEF e
<1> QED BY <1>3, <1>4

LEMMA PerformToggleFlag ==
  ASSUME NEW d, NEW r, r.op = "ToggleFlag"
  PROVE  /\ ~HasFlag(d, r.flag) => Performs(d, r, d, Answer(404, NoBody))
         /\ HasFlag(d, r.flag) =>
              Performs(d, r, Toggle(d, r.flag), Answer(200, FlagIn(Toggle(d, r.flag), r.flag)))
BY SameFlagIn
   DEF Performs, Abstract!Perform, Abstract!ToggleFlag, Abstract!Effect, Abstract!Shows,
       Abstract!HasFlag, Abstract!Toggle, Abstract!Answer, Abstract!NoBody,
       HasFlag, Toggle, Answer, NoBody

LEMMA PerformRefusedRule ==
  ASSUME NEW d, NEW r, r.op = "CreateRule"
  PROVE  /\ ~HasFlag(d, r.flag) => Performs(d, r, d, Answer(404, NoBody))
         /\ HasFlag(d, r.flag)
              /\ (~ValidRule(r) \/ r.value \notin ValuesOf[d.flags[r.flag].type]) =>
              Performs(d, r, d, Answer(400, NoBody))
         /\ HasFlag(d, r.flag) /\ ValidRule(r) /\ r.value \in ValuesOf[d.flags[r.flag].type]
              /\ ~ (KeysIn(r.segs) \subseteq d.segs) => Performs(d, r, d, Answer(500, NoBody))
BY DEF Performs, Abstract!Perform, Abstract!CreateRule, Abstract!Effect, Abstract!HasFlag,
       Abstract!ValidRule, Abstract!ValidConditions, Abstract!InsertRule, Abstract!BadLinks,
       Abstract!KeysIn, Abstract!Answer, Abstract!NoBody,
       HasFlag, ValidRule, ValidConditions, KeysIn, Answer, NoBody

LEMMA PerformCreateRule ==
  ASSUME NEW d, NEW r, r.op = "CreateRule", HasFlag(d, r.flag), ValidRule(r),
         r.value \in ValuesOf[d.flags[r.flag].type],
         NEW fk \in BOOLEAN, fk \/ KeysIn(r.segs) \subseteq d.segs,
         NEW e, e = InsertRule(d, RuleRowOf(r), r.conds, r.segs, fk)
  PROVE  /\ e = Absent => Performs(d, r, d, Answer(500, NoBody))
         /\ e # Absent => Performs(d, r, e, Answer(201, NoBody))
BY DEF Performs, Abstract!Perform, Abstract!CreateRule, Abstract!Effect, Abstract!HasFlag,
       Abstract!ValidRule, Abstract!ValidConditions, Abstract!InsertRule, Abstract!RuleRowOf,
       Abstract!BadLinks, Abstract!Distinct, Abstract!KeysIn, Abstract!Answer, Abstract!NoBody,
       HasFlag, ValidRule, ValidConditions, InsertRule, RuleRowOf, BadLinks, Distinct, KeysIn,
       Answer, NoBody

LEMMA PerformRefusedRewrite ==
  ASSUME NEW d, NEW r, r.op = "UpdateRule"
  PROVE  /\ ~ValidRule(r) => Performs(d, r, d, Answer(400, NoBody))
         /\ ValidRule(r) /\ ~ (KeysIn(r.segs) \subseteq d.segs) =>
              Performs(d, r, d, Answer(404, NoBody))
BY DEF Performs, Abstract!Perform, Abstract!UpdateRule, Abstract!Effect, Abstract!ValidRule,
       Abstract!ValidConditions, Abstract!RewriteRule, Abstract!BadLinks, Abstract!KeysIn,
       Abstract!Answer, Abstract!NoBody, ValidRule, ValidConditions, KeysIn, Answer, NoBody

LEMMA PerformUpdateRule ==
  ASSUME NEW d, NEW r, r.op = "UpdateRule", ValidRule(r),
         NEW fk \in BOOLEAN, fk \/ KeysIn(r.segs) \subseteq d.segs,
         NEW e, e = RewriteRule(d, r.rule, RuleRowOf(r), r.conds, r.segs, fk)
  PROVE  /\ e = Absent => Performs(d, r, d, Answer(404, NoBody))
         /\ e # Absent => Performs(d, r, e, Answer(200, NoBody))
BY DEF Performs, Abstract!Perform, Abstract!UpdateRule, Abstract!Effect, Abstract!HasRule,
       Abstract!ValidRule, Abstract!ValidConditions, Abstract!RewriteRule, Abstract!RuleRowOf,
       Abstract!BadLinks, Abstract!Distinct, Abstract!KeysIn, Abstract!Answer, Abstract!NoBody,
       HasRule, ValidRule, ValidConditions, RewriteRule, RuleRowOf, BadLinks, Distinct, KeysIn,
       Answer, NoBody

LEMMA PerformDeleteRule ==
  ASSUME NEW d, NEW r, r.op = "DeleteRule"
  PROVE  /\ ~HasRule(d, r.flag, r.rule) => Performs(d, r, d, Answer(404, NoBody))
         /\ \A fk \in BOOLEAN : HasRule(d, r.flag, r.rule) /\ fk =>
              Performs(d, r, DropRules(d, {r.rule}, fk), Answer(204, NoBody))
BY DEF Performs, Abstract!Perform, Abstract!DeleteRule, Abstract!Effect, Abstract!HasRule,
       Abstract!DropRules, Abstract!RuleIds, Abstract!Answer, Abstract!NoBody,
       HasRule, DropRules, RuleIds, Answer, NoBody

LEMMA PerformRefusedSegment ==
  ASSUME NEW d, NEW r, r.op = "CreateSegment", ~ValidSegment(r.conds)
  PROVE  Performs(d, r, d, Answer(400, NoBody))
BY DEF Performs, Abstract!Perform, Abstract!CreateSegment, Abstract!Effect,
       Abstract!ValidSegment, Abstract!ValidConditions, Abstract!Answer,
       Abstract!NoBody, ValidSegment, ValidConditions, Answer, NoBody

LEMMA PerformCreateSegment ==
  ASSUME NEW d, NEW r, r.op = "CreateSegment", ValidSegment(r.conds),
         NEW e, e = InsertSegment(d, r.segment, r.text, r.conds)
  PROVE  /\ e = Absent => Performs(d, r, d, Answer(409, NoBody))
         /\ e # Absent => Performs(d, r, e, Answer(201, NoBody))
BY DEF Performs, Abstract!Perform, Abstract!CreateSegment, Abstract!Effect,
       Abstract!ValidSegment, Abstract!ValidConditions, Abstract!InsertSegment, Abstract!Answer,
       Abstract!NoBody, ValidSegment, ValidConditions, InsertSegment, Answer, NoBody

LEMMA PerformGetSegment ==
  ASSUME NEW d, NEW r, r.op = "GetSegment"
  PROVE  /\ r.segment \notin d.segs => Performs(d, r, d, Answer(404, NoBody))
         /\ r.segment \in d.segs => Performs(d, r, d, Answer(200, SegmentIn(d, r.segment)))
BY SameSegmentIn
   DEF Performs, Abstract!Perform, Abstract!GetSegment, Abstract!Effect, Abstract!Shows,
       Abstract!Answer, Abstract!NoBody, Answer, NoBody

LEMMA PerformRefusedConditions ==
  ASSUME NEW d, NEW r, r.op = "UpdateSegment"
  PROVE  /\ r.conds # Absent /\ ~ValidSegment(r.conds) => Performs(d, r, d, Answer(400, NoBody))
         /\ (r.conds = Absent \/ ValidSegment(r.conds)) /\ r.segment \notin d.segs =>
              Performs(d, r, d, Answer(404, NoBody))
<1>1. Abstract!Perform(d, r) = Abstract!UpdateSegment(d, r)
  BY DEF Abstract!Perform
<1>2. Abstract!ValidSegment(r.conds) = ValidSegment(r.conds)
  BY DEF Abstract!ValidSegment, Abstract!ValidConditions, ValidSegment, ValidConditions
<1>3. CASE r.conds # Absent /\ ~ValidSegment(r.conds)
  BY <1>1, <1>2, <1>3 DEF Performs, Abstract!UpdateSegment, Abstract!Effect, Abstract!Answer,
                          Abstract!NoBody, Answer, NoBody
<1>4. CASE (r.conds = Absent \/ ValidSegment(r.conds)) /\ r.segment \notin d.segs
  BY <1>1, <1>2, <1>4 DEF Performs, Abstract!UpdateSegment, Abstract!Effect, Abstract!Answer,
                          Abstract!NoBody, Answer, NoBody
<1> QED BY <1>3, <1>4

LEMMA PerformUpdateSegment ==
  ASSUME NEW d, NEW r, r.op = "UpdateSegment", r.conds = Absent \/ ValidSegment(r.conds),
         r.segment \in d.segs, NEW fk \in BOOLEAN,
         NEW e, e = RewriteSegment(d, r.segment, TextOf(r, d.about[r.segment]), r.conds, fk)
  PROVE  Performs(d, r, e, Answer(200, SegmentIn(e, r.segment)))
<1> DEFINE g == r.segment
<1>1. Abstract!ValidSegment(r.conds) = ValidSegment(r.conds)
  BY DEF Abstract!ValidSegment, Abstract!ValidConditions, ValidSegment, ValidConditions
<1>2. e = Abstract!RewriteSegment(d, g, Abstract!TextOf(r, d.about[g]), r.conds, TRUE)
  BY DEF Abstract!RewriteSegment, Abstract!TextOf, RewriteSegment, TextOf
<1>3. Abstract!UpdateSegment(d, r) = Abstract!Shows(e, Abstract!SegmentIn(e, g))
  BY <1>1, <1>2 DEF Abstract!UpdateSegment
<1>4. Abstract!Perform(d, r) = Abstract!Shows(e, SegmentIn(e, g))
  BY <1>3, SameSegmentIn DEF Abstract!Perform
<1> QED BY <1>4, Shown

LEMMA PerformRefusedDelete ==
  ASSUME NEW d, NEW r, r.op = "DeleteSegment"
  PROVE  /\ InUse(d, r.segment) => Performs(d, r, d, Answer(409, NoBody))
         /\ ~InUse(d, r.segment) /\ r.segment \notin d.segs =>
              Performs(d, r, d, Answer(404, NoBody))
<1>1. Abstract!InUse(d, r.segment) <=> InUse(d, r.segment)
  BY DEF Abstract!InUse, Abstract!RuleIds, InUse, RuleIds
<1>2. Abstract!Perform(d, r) = Abstract!DeleteSegment(d, r)
  BY DEF Abstract!Perform
<1>3. \A status : Abstract!Effect(d, status).db = d
                  /\ Abstract!Effect(d, status).answer = Answer(status, NoBody)
  BY DEF Abstract!Effect, Abstract!Answer, Abstract!NoBody, Answer, NoBody
<1>4. CASE InUse(d, r.segment)
  <2>1. Abstract!DeleteSegment(d, r) = Abstract!Effect(d, 409)
    BY <1>1, <1>4 DEF Abstract!DeleteSegment
  <2> QED BY <1>2, <1>3, <1>4, <2>1 DEF Performs
<1>5. CASE ~InUse(d, r.segment)
  <2>1. r.segment \notin d.segs => Abstract!DeleteSegment(d, r) = Abstract!Effect(d, 404)
    BY <1>1, <1>5 DEF Abstract!DeleteSegment
  <2> QED BY <1>2, <1>3, <1>5, <2>1 DEF Performs
<1> QED BY <1>4, <1>5

LEMMA PerformDeleteSegment ==
  ASSUME NEW d, NEW r, r.op = "DeleteSegment", ~InUse(d, r.segment), r.segment \in d.segs,
         NEW fk \in BOOLEAN, fk
  PROVE  Performs(d, r, DropSegment(d, r.segment, fk), Answer(204, NoBody))
BY DEF Performs, Abstract!Perform, Abstract!DeleteSegment, Abstract!Effect, Abstract!InUse,
       Abstract!DropSegment, Abstract!RuleIds, Abstract!Answer, Abstract!NoBody,
       InUse, DropSegment, RuleIds, Answer, NoBody

\* The engine is the same in both.
LEMMA SameEvalCondition == \A c, x : Abstract!EvalCondition(c, x) = EvalCondition(c, x)
BY DEF Abstract!EvalCondition, EvalCondition

LEMMA SameEvalAll == \A c, x : Abstract!EvalAll(c, x) = EvalAll(c, x)
<1>1. \A S : Abstract!Min(S) = Min(S)
  BY DEF Abstract!Min, Min
<1> QED BY <1>1, SameEvalCondition DEF Abstract!EvalAll, EvalAll

LEMMA SameEvalRule == \A g, c, x : Abstract!EvalRule(g, c, x) = EvalRule(g, c, x)
<1>1. \A S : Abstract!Min(S) = Min(S)
  BY DEF Abstract!Min, Min
<1>2. \A g, c, x : Abstract!EvalSegment(g, c, x) = EvalSegment(g, c, x)
  BY SameEvalAll DEF Abstract!EvalSegment, EvalSegment
<1> QED BY <1>1, <1>2, SameEvalAll DEF Abstract!EvalRule, EvalRule

LEMMA SameEvaluate == \A v, x : Abstract!Evaluate(v, x) = Evaluate(v, x)
<1> SUFFICES ASSUME NEW flag, NEW ctx PROVE Abstract!Evaluate(flag, ctx) = Evaluate(flag, ctx)
  OBVIOUS
<1> DEFINE outcome(i)  == EvalRule(flag.rules[i], flag.segments, ctx)
           outcomeA(i) == Abstract!EvalRule(flag.rules[i], flag.segments, ctx)
           decides  == {i \in DOMAIN flag.rules :
                          \/ outcome(i) = "error"
                          \/ outcome(i) = "true" /\ Admits(flag.rules[i], ctx)}
           decidesA == {i \in DOMAIN flag.rules :
                          \/ outcomeA(i) = "error"
                          \/ outcomeA(i) = "true" /\ Abstract!Admits(flag.rules[i], ctx)}
           First(S)  == CHOOSE i \in S : \A j \in S \ {i} : Before(flag.rules, i, j)
           FirstA(S) == CHOOSE i \in S : \A j \in S \ {i} : Abstract!Before(flag.rules, i, j)
<1>1. \A g, c : Abstract!Admits(g, c) = Admits(g, c)
  BY DEF Abstract!Admits, Admits, Abstract!NoEntity, NoEntity, Abstract!InRollout, InRollout
<1>2. decides = decidesA
  BY <1>1, SameEvalRule
<1>3. First(decides) = FirstA(decides)
  BY Zenon DEF Abstract!Before, Before
<1>4. First(decides) = FirstA(decidesA)
  <2> HIDE DEF decides, decidesA, First, FirstA
  <2> QED BY <1>2, <1>3
<1>5. outcome(First(decides)) = outcomeA(FirstA(decidesA))
  <2> HIDE DEF decides, decidesA, First, FirstA
  <2> QED BY <1>4, SameEvalRule
<1> QED BY <1>2, <1>4, <1>5 DEF Abstract!Evaluate, Evaluate, Abstract!Response, Response

LEMMA PerformEvaluate ==
  ASSUME NEW d, NEW r, r.op = "Evaluate"
  PROVE  /\ ~HasFlag(d, r.flag) => Performs(d, r, d, Answer(404, NoBody))
         /\ HasFlag(d, r.flag) =>
              Performs(d, r, d, Answer(200,
                Evaluate(FlagView(d.flags[r.flag], RulesIn(d, r.flag),
                                  SegmentsIn(d, RulesIn(d, r.flag))), r.ctx)))
<1>1. Abstract!RulesIn(d, r.flag) = RulesIn(d, r.flag)
  BY DEF Abstract!RulesIn, Abstract!RulesOf, Abstract!HasRule, Abstract!RuleIds,
         Abstract!RuleView, Abstract!LinksOf, RulesIn, RulesOf, HasRule, RuleIds, RuleView, LinksOf
<1>2. Abstract!SegmentsIn(d, RulesIn(d, r.flag)) = SegmentsIn(d, RulesIn(d, r.flag))
  <2> DEFINE rules == RulesIn(d, r.flag)
  <2> HIDE DEF rules
  <2>1. Abstract!SegmentsIn(d, rules) = SegmentsIn(d, rules)
    BY DEF Abstract!SegmentsIn, Abstract!SegmentsUsed, SegmentsIn, SegmentsUsed
  <2> QED BY <2>1 DEF rules
<1>3. \A v : Abstract!Evaluate(v, r.ctx) = Evaluate(v, r.ctx)
  BY SameEvaluate
<1>4. Abstract!Perform(d, r) = Abstract!EvaluateFlag(d, r)
  BY DEF Abstract!Perform
<1>5. \A row, rules, segments :
        Abstract!FlagView(row, rules, segments) = FlagView(row, rules, segments)
  BY DEF Abstract!FlagView, FlagView
<1>6. CASE ~HasFlag(d, r.flag)
  BY <1>4, <1>6 DEF Performs, Abstract!EvaluateFlag, Abstract!Effect, Abstract!HasFlag,
     Abstract!Answer, Abstract!NoBody, HasFlag, Answer, NoBody
<1>7. CASE HasFlag(d, r.flag)
  <2>1. Abstract!EvaluateFlag(d, r)
          = Abstract!Shows(d, Evaluate(FlagView(d.flags[r.flag], RulesIn(d, r.flag),
                                  SegmentsIn(d, RulesIn(d, r.flag))), r.ctx))
    BY <1>1, <1>2, <1>3, <1>5, <1>7 DEF Abstract!EvaluateFlag, Abstract!HasFlag, HasFlag
  <2> QED BY <1>4, <1>7, <2>1 DEF Performs, Abstract!Shows, Abstract!Answer, Answer
<1> QED BY <1>6, <1>7

-----------------------------------------------------------------------------
(* What a step of session s is to the catalogue, as far as s is concerned. *)

Same(s) == UNCHANGED <<db, req>> /\ Reply(s)' = Reply(s)

Effective(s) == /\ Reply(s) = NoReply /\ RuleIdLeft(db, req[s])
                /\ Performs(db, req[s], db', Reply(s)')
                /\ UNCHANGED req

Aborted(s) == /\ Reply(s) = NoReply
              /\ Reply(s)' = Answer(ErrorStatus(req[s].op), NoBody)
              /\ UNCHANGED <<db, req>>

Unreported(s) == /\ Op(s) = "ToggleFlag" /\ Reply(s) # NoReply
                 /\ Reply(s)' = Answer(500, NoBody)
                 /\ UNCHANGED <<db, req>>

Own(s) == Known(s)' /\ (Same(s) \/ Effective(s) \/ Aborted(s) \/ Unreported(s))

Running == Statements \cup {"handler"}

\* A request that is under way may still take a rule id.
LEMMA RuleIdIsLeft ==
  ASSUME NEW s \in Sessions, StoreInv, out[s] = NoReply, req[s] # Absent
  PROVE  RuleIdLeft(db, req[s])
<1> SUFFICES ASSUME req[s].op = "CreateRule" PROVE db.nextRule \in RuleIds
  BY DEF RuleIdLeft
<1>1. s \in Pending
  BY DEF Pending, Op
<1>2. Cardinality(Pending) # 0
  BY <1>1, PendingFinite, FS_EmptySet
<1>3. db.nextRule \in 1 .. MaxRule + 1
  BY DEF StoreInv, Database
<1>4. db.nextRule + Cardinality(Pending) <= MaxRule + 1
  BY DEF StoreInv, IdsSuffice
<1> QED BY <1>2, <1>3, <1>4, PendingFinite, SchemaAssumption DEF RuleIds

\* What a session that is not answered yet is known to hold.
LEMMA Unanswered ==
  ASSUME NEW s \in Sessions, StoreInv, pc[s] \in Running
  PROVE  /\ out[s] = NoReply /\ req[s] # Absent /\ req[s] \in Requests /\ Op(s) = req[s].op
         /\ IsView(view[s])
         /\ pc[s] # "handler" => Fits(pc[s], req[s], view[s])
         /\ RuleIdLeft(db, req[s])
         /\ ~ReadingBack(s) => Reply(s) = NoReply
<1>1. SessionInv(s)
  BY DEF StoreInv
<1>2. /\ out[s] = NoReply /\ req[s] # Absent /\ req[s] \in Requests /\ Op(s) = req[s].op
      /\ IsView(view[s]) /\ (pc[s] # "handler" => Fits(pc[s], req[s], view[s]))
  BY <1>1 DEF SessionInv, SessionTyped, Placed, Running, Statements, Reads, Op
<1> QED BY <1>2, RuleIdIsLeft DEF Reply

\* The answer to a request is the effect of it.
LEMMA EffectEnds ==
  ASSUME NEW s \in Sessions, StoreInv, pc[s] \in Running, ~ReadingBack(s),
         NEW st, NEW b, Finish(s, st, b), UNCHANGED req,
         Performs(db, req[s], db', Answer(st, b))
  PROVE  Own(s)
<1>1. pc'[s] = "returned" /\ out'[s] = Answer(st, b)
  BY DEF StoreInv, Shaped, Finish
<1>2. Known(s)' /\ Reply(s)' = Answer(st, b)
  BY <1>1 DEF Known, Statements, Reads, Reply, ReadingBack
<1> QED BY <1>2, Unanswered DEF Own, Effective

\* A request that has taken effect is answered.
LEMMA ReadBackEnds ==
  ASSUME NEW s \in Sessions, StoreInv, NEW st, NEW b, Finish(s, st, b), UNCHANGED <<db, req>>,
         Reply(s) = Answer(st, b)
  PROVE  Own(s)
<1>1. pc'[s] = "returned" /\ out'[s] = Answer(st, b)
  BY DEF StoreInv, Shaped, Finish
<1>2. Known(s)' /\ Reply(s)' = Answer(st, b)
  BY <1>1 DEF Known, Statements, Reads, Reply, ReadingBack
<1> QED BY <1>2 DEF Own, Same

\* A request that has not taken effect goes on.
LEMMA GoesUnseen ==
  ASSUME NEW s \in Sessions, StoreInv, pc[s] \in Running, ~ReadingBack(s),
         NEW p, NEW v, Goto(s, p, v), UNCHANGED <<db, req>>,
         ~(Op(s) = "ToggleFlag" /\ p \in {"flagRow", "rules", "links"}),
         Knows(db, p, req[s], v)
  PROVE  Own(s)
<1>1. pc'[s] = p /\ out'[s] = out[s] /\ view'[s] = v
  BY DEF StoreInv, Shaped, Goto
<1>2. Known(s)'
  BY <1>1 DEF Known
<1>3. Reply(s)' = NoReply
  BY <1>1, Unanswered DEF Reply, ReadingBack, Op
<1> QED BY <1>2, <1>3, Unanswered DEF Own, Same

\* A statement that fails before the request takes effect fails it.
LEMMA AbortFails ==
  ASSUME NEW s \in Sessions, StoreInv, pc[s] \in Statements, ~ReadingBack(s),
         Abort(s), UNCHANGED req
  PROVE  Own(s)
<1>1. pc[s] \in Running
  BY DEF Running
<1>2. pc'[s] = "returned" /\ out'[s] = Answer(ErrorStatus(req[s].op), NoBody)
  BY DEF StoreInv, Shaped, Abort, Finish
<1>3. Known(s)' /\ Reply(s)' = Answer(ErrorStatus(req[s].op), NoBody)
  BY <1>2 DEF Known, Statements, Reads, Reply, ReadingBack
<1> QED BY <1>1, <1>3, Unanswered DEF Own, Aborted, Abort

\* What an answer is not.
LEMMA AnswersAreReplies == \A st, b : st # 0 => Answer(st, b) # NoReply
<1>1. \A st, b : Answer(st, b).status = st
  BY DEF Answer
<1>2. NoReply.status = 0
  BY DEF NoReply, Answer
<1> QED BY <1>1, <1>2

\* A read fails: the request does, or the answer of a toggle.
LEMMA ReadFailsOwn ==
  ASSUME NEW s \in Sessions, StoreInv, ReadFails(s)
  PROVE  Own(s)
<1>1. pc[s] \in Statements /\ Abort(s) /\ UNCHANGED req
  BY DEF ReadFails, At, Statements, Reads
<1>2. CASE ~ReadingBack(s)
  BY <1>1, <1>2, AbortFails
<1>3. CASE ReadingBack(s)
  <2>1. Op(s) = "ToggleFlag" /\ Op(s) = req[s].op
    BY <1>1, <1>3, Unanswered DEF ReadingBack, Running
  <2>2. Reply(s) # NoReply
    BY <1>3, AnswersAreReplies DEF Reply
  <2>3. pc'[s] = "returned" /\ out'[s] = Answer(500, NoBody)
    BY <1>1, <2>1 DEF StoreInv, Shaped, Abort, Finish, ErrorStatus
  <2>4. Known(s)' /\ Reply(s)' = Answer(500, NoBody)
    BY <2>3 DEF Known, Statements, Reads, Reply, ReadingBack
  <2> QED BY <1>1, <2>1, <2>2, <2>4 DEF Own, Unreported, Abort
<1> QED BY <1>2, <1>3

-----------------------------------------------------------------------------
(* The handler. *)

\* The handler refuses what the catalogue refuses on any database.
LEMMA ValidateOwn ==
  ASSUME NEW s \in Sessions, StoreInv, Validate(s)
  PROVE  Own(s)
<1> DEFINE r == req[s]
           todo == IF r.op \in {"GetSegment", "UpdateSegment"} THEN {r.segment} ELSE {}
           v == [NoView EXCEPT !.todo = todo]
<1>1. pc[s] = "handler" /\ UNCHANGED <<db, req>> /\ pc[s] \in Running /\ ~ReadingBack(s)
  BY DEF Validate, Running, ReadingBack
<1>2. r \in Requests /\ Op(s) = r.op
  BY <1>1, Unanswered
<1>3. CASE Refused(r)
  <2>1. Finish(s, 400, NoBody)
    BY <1>3 DEF Validate
  <2>2. Performs(db, r, db, Answer(400, NoBody))
    BY <1>3, PerformCreateFlag, PerformRefusedRewrite, PerformRefusedSegment,
       PerformRefusedConditions DEF Refused
  <2> QED BY <1>1, <2>1, <2>2, EffectEnds
<1>4. CASE ~Refused(r)
  <2>1. Goto(s, FirstStep(r), v)
    BY <1>4 DEF Validate
  <2>2. v.todo = todo /\ v.segments = <<>>
    BY DEF NoView
  <2> HIDE DEF v
  <2>3. r.op \in {"CreateFlag", "GetFlag", "UpdateFlag", "DeleteFlag", "ToggleFlag",
                  "CreateRule", "UpdateRule", "DeleteRule", "CreateSegment", "GetSegment",
                  "UpdateSegment", "DeleteSegment", "Evaluate"}
    BY <1>2, RequestShape
  <2>4. Knows(db, FirstStep(r), r, v) /\ (r.op = "ToggleFlag" => FirstStep(r) = "exec")
    <3>1. CASE r.op \in {"CreateFlag", "DeleteFlag", "ToggleFlag", "DeleteRule"}
      BY <3>1 DEF FirstStep, Knows
    <3>2. CASE r.op \in {"GetFlag", "UpdateFlag", "CreateRule", "Evaluate"}
      BY <3>2 DEF FirstStep, Knows
    <3>3. CASE r.op \in {"GetSegment", "UpdateSegment"}
      BY <2>2, <3>3 DEF FirstStep, Knows
    <3>4. CASE r.op \in {"DeleteSegment", "CreateSegment", "UpdateRule"}
      BY <3>4 DEF FirstStep, Knows, Begin
    <3> QED BY <2>3, <3>1, <3>2, <3>3, <3>4
  <2> QED BY <1>1, <1>2, <2>1, <2>4, GoesUnseen
<1> QED BY <1>3, <1>4

\* Taking a connection is seen by nobody.
LEMMA AcquireOwn ==
  ASSUME NEW s \in Sessions, StoreInv, Known(s), Acquire(s)
  PROVE  Own(s)
BY DEF Acquire, Own, Same, Known, Reply, ReadingBack, Op

\* A toggle goes on reading back.
LEMMA ReadBackGoesOn ==
  ASSUME NEW s \in Sessions, StoreInv, Op(s) = "ToggleFlag", req[s] # Absent,
         NEW p \in {"rules", "links"}, NEW v, ReadingBack(s),
         Goto(s, p, v), UNCHANGED <<db, req>>, Knows(db, p, req[s], v)
  PROVE  Own(s)
<1>1. pc'[s] = p /\ view'[s] = v /\ req[s].op = "ToggleFlag"
  BY DEF StoreInv, Shaped, Goto, Op
<1>2. Known(s)'
  BY <1>1 DEF Known
<1>3. Reply(s)' = Reply(s)
  BY <1>1 DEF Reply, ReadingBack, Op
<1> QED BY <1>2, <1>3 DEF Own, Same

-----------------------------------------------------------------------------
(* Reads. *)

\* A flag that is not there is the answer, unless the request reads back.
LEMMA ReadFlagRowOwn ==
  ASSUME NEW s \in Sessions, StoreInv, ReadFlagRow(s)
  PROVE  Own(s)
<1> DEFINE r == req[s]
<1>1. pc[s] = "flagRow" /\ UNCHANGED <<db, req>> /\ pc[s] \in Running
  BY DEF ReadFlagRow, At, ReadOnly, Running, Statements, Reads
<1>2. r \in Requests /\ Op(s) = r.op /\ r.op \in FlagOps /\ req[s] # Absent
  <2>1. r \in Requests /\ Op(s) = r.op /\ req[s] # Absent /\ Fits(pc[s], req[s], view[s])
    BY <1>1, Unanswered
  <2> QED BY <1>1, <2>1 DEF Fits, OpsAt
<1>3. CASE HasFlag(db, r.flag)
  <2> DEFINE v == [NoView EXCEPT !.row = db.flags[r.flag]]
  <2>1. Goto(s, "rules", v)
    BY <1>3 DEF ReadFlagRow
  <2>2. v.row = db.flags[r.flag] /\ v.todo = {} /\ v.segments = <<>>
    BY DEF NoView
  <2> HIDE DEF v
  <2>3. Knows(db, "rules", r, v)
    BY <1>2, <1>3, <2>2 DEF Knows, FlagOps
  <2>4. CASE r.op = "ToggleFlag"
    <3>1. ReadingBack(s)
      BY <1>1, <1>2, <2>4 DEF ReadingBack
    <3> QED BY <1>1, <1>2, <2>1, <2>3, <2>4, <3>1, ReadBackGoesOn
  <2>5. CASE r.op # "ToggleFlag"
    <3>1. ~ReadingBack(s)
      BY <1>2, <2>5 DEF ReadingBack
    <3> QED BY <1>1, <1>2, <2>1, <2>3, <2>5, <3>1, GoesUnseen
  <2> QED BY <2>4, <2>5
<1>4. CASE ~HasFlag(db, r.flag)
  <2>1. Finish(s, 404, NoBody)
    BY <1>4 DEF ReadFlagRow
  <2>2. CASE r.op = "ToggleFlag"
    <3>1. Reply(s) = Answer(404, NoBody)
      BY <1>1, <1>2, <1>4, <2>2 DEF Reply, ReadingBack
    <3> QED BY <1>1, <2>1, <3>1, ReadBackEnds
  <2>3. CASE r.op # "ToggleFlag"
    <3>1. ~ReadingBack(s)
      BY <1>2, <2>3 DEF ReadingBack
    <3>2. Performs(db, r, db, Answer(404, NoBody))
      BY <1>2, <1>4, <2>3, PerformGetFlag, PerformUpdateFlag, PerformRefusedRule, PerformEvaluate
         DEF FlagOps
    <3> QED BY <1>1, <2>1, <3>1, <3>2, EffectEnds
  <2> QED BY <2>2, <2>3
<1> QED BY <1>3, <1>4

\* Where a request goes on once its flag is read, all of it so at this instant.
LEMMA FlagReadOwn ==
  ASSUME NEW s \in Sessions, StoreInv, pc[s] \in {"rules", "links", "segRow", "segConds"},
         req[s].op \in FlagOps, UNCHANGED <<db, req>>, NEW v, FlagRead(s, v),
         v.segments = [g \in DOMAIN v.segments |-> v.segments[g]],
         req[s].op = "ToggleFlag" => pc[s] \in {"rules", "links"},
         req[s].op \in {"GetFlag", "ToggleFlag", "UpdateFlag"} => v.rules = RulesIn(db, req[s].flag),
         req[s].op = "CreateRule" =>
           HasFlag(db, req[s].flag) /\ v.row.type = db.flags[req[s].flag].type,
         Knows(db, "segRow", req[s], v)
  PROVE  Own(s)
<1> DEFINE r == req[s]
           f == req[s].flag
<1>1. pc[s] \in Running
  BY DEF Running, Statements, Reads
<1>2. Op(s) = r.op /\ (r.op # "ToggleFlag" => ~ReadingBack(s)) /\ req[s] # Absent
  BY <1>1, Unanswered DEF ReadingBack
<1>3. CASE r.op = "ToggleFlag"
  <2>1. Finish(s, 200, FlagView(v.row, v.rules, <<>>))
    BY <1>3 DEF FlagRead
  <2>2. HasFlag(db, f) /\ v.row = db.flags[f] /\ v.rules = RulesIn(db, f)
    BY <1>3 DEF Knows
  <2>3. Reply(s) = Answer(200, FlagView(v.row, v.rules, <<>>))
    BY <1>2, <1>3, <2>2 DEF Reply, ReadingBack, FlagIn
  <2> QED BY <2>1, <2>3, ReadBackEnds
<1>4. CASE r.op = "GetFlag"
  <2>1. Finish(s, 200, FlagView(v.row, v.rules, <<>>))
    BY <1>4 DEF FlagRead
  <2>2. HasFlag(db, f) /\ v.row = db.flags[f] /\ v.rules = RulesIn(db, f)
    BY <1>4 DEF Knows
  <2>3. Performs(db, r, db, Answer(200, FlagView(v.row, v.rules, <<>>)))
    BY <1>4, <2>2, PerformGetFlag DEF FlagIn
  <2> QED BY <1>1, <1>2, <1>4, <2>1, <2>3, EffectEnds
<1>5. CASE r.op = "UpdateFlag"
  <2>1. HasFlag(db, f) /\ v.row = db.flags[f]
    BY <1>5 DEF Knows
  <2>2. CASE r.default = Absent \/ r.default \in ValuesOf[v.row.type]
    <3>1. Goto(s, "exec", v)
      BY <1>5, <2>2 DEF FlagRead
    <3>2. Knows(db, "exec", r, v)
      BY <1>5, <2>1 DEF Knows
    <3> QED BY <1>1, <1>2, <1>5, <3>1, <3>2, GoesUnseen
  <2>3. CASE ~(r.default = Absent \/ r.default \in ValuesOf[v.row.type])
    <3>1. Finish(s, 400, NoBody)
      BY <1>5, <2>3 DEF FlagRead
    <3>2. Performs(db, r, db, Answer(400, NoBody))
      BY <1>5, <2>1, <2>3, PerformUpdateFlag
    <3> QED BY <1>1, <1>2, <1>5, <3>1, <3>2, EffectEnds
  <2> QED BY <2>2, <2>3
<1>6. CASE r.op = "CreateRule"
  <2>1. HasFlag(db, f) /\ v.row.type = db.flags[f].type
    BY <1>6
  <2>2. CASE ValidRule(r) /\ r.value \in ValuesOf[v.row.type]
    <3>1. Goto(s, Begin(r), NoView)
      BY <1>6, <2>2 DEF FlagRead
    <3>2. Knows(db, Begin(r), r, NoView)
      BY <1>6, <2>1, <2>2 DEF Knows, Begin
    <3> QED BY <1>1, <1>2, <1>6, <3>1, <3>2, GoesUnseen
  <2>3. CASE ~(ValidRule(r) /\ r.value \in ValuesOf[v.row.type])
    <3>1. Finish(s, 400, NoBody)
      BY <1>6, <2>3 DEF FlagRead
    <3>2. Performs(db, r, db, Answer(400, NoBody))
      BY <1>6, <2>1, <2>3, PerformRefusedRule
    <3> QED BY <1>1, <1>2, <1>6, <3>1, <3>2, EffectEnds
  <2> QED BY <2>2, <2>3
<1>7. CASE r.op = "Evaluate"
  <2>1. CASE v.todo # {}
    <3>1. Goto(s, "segRow", v)
      BY <1>7, <2>1 DEF FlagRead
    <3> QED BY <1>1, <1>2, <1>7, <3>1, GoesUnseen
  <2>2. CASE v.todo = {}
    <3> DEFINE rules == RulesIn(db, f)
    <3>1. Finish(s, 200, Evaluate(FlagView(v.row, v.rules, v.segments), r.ctx))
      BY <1>7, <2>2 DEF FlagRead
    <3>2. HasFlag(db, f) /\ v.row = db.flags[f] /\ v.rules = rules
          /\ DOMAIN v.segments = SegmentsRead(db, v)
          /\ \A k \in SegmentsRead(db, v) : v.segments[k] = db.segConds[k]
      BY <1>7 DEF Knows
    <3> HIDE DEF rules
    <3>3. SegmentsRead(db, v) = SegmentsUsed(rules) \cap db.segs
      BY <2>2, <3>2 DEF SegmentsRead
    <3>4. v.segments = SegmentsIn(db, rules)
      BY <3>2, <3>3 DEF SegmentsIn
    <3>5. Performs(db, r, db, Answer(200, Evaluate(FlagView(v.row, v.rules, v.segments), r.ctx)))
      BY <1>7, <3>2, <3>4, PerformEvaluate DEF rules
    <3> QED BY <1>1, <1>2, <1>7, <3>1, <3>5, EffectEnds
  <2> QED BY <2>1, <2>2
<1> QED BY <1>3, <1>4, <1>5, <1>6, <1>7 DEF FlagOps

\* Rules are read at the instant of the answer, or before nobody changes them.
LEMMA ReadRulesOwn ==
  ASSUME NEW s \in Sessions, StoreInv, Known(s), ReadRules(s)
  PROVE  Own(s)
<1> DEFINE r == req[s]
           f == req[s].flag
           rules == [i \in RulesOf(db, f) |-> RuleView(db.rules[i], db.conds[i], {})]
           v == [view[s] EXCEPT !.rules = rules]
<1>1. pc[s] = "rules" /\ UNCHANGED <<db, req>> /\ pc[s] \in Running /\ pc[s] \in Statements
  BY DEF ReadRules, At, ReadOnly, Running, Statements, Reads
<1>2. r \in Requests /\ Op(s) = r.op /\ req[s] # Absent /\ Fits(pc[s], r, view[s])
      /\ IsView(view[s]) /\ (~ReadingBack(s) => Reply(s) = NoReply)
  BY <1>1, Unanswered
<1>3. r.op \in FlagOps
  BY <1>1, <1>2 DEF Fits, OpsAt
<1>4. IF RulesOf(db, f) = {} THEN FlagRead(s, v) ELSE Goto(s, "links", v)
  BY DEF ReadRules
<1>5. /\ v.row = view[s].row /\ v.rules = rules /\ v.todo = view[s].todo
      /\ v.segments = view[s].segments
  BY <1>2 DEF IsView
<1>6. v.segments = [g \in DOMAIN v.segments |-> v.segments[g]]
  BY <1>2, <1>5 DEF IsView
<1> HIDE DEF v
<1>7. Knows(db, "rules", r, view[s])
  BY <1>1 DEF Known
<1>8. CASE RulesOf(db, f) = {}
  <2>1. rules = RulesIn(db, f) /\ SegmentsUsed(rules) = {}
    BY <1>8 DEF RulesIn, SegmentsUsed
  <2> HIDE DEF rules
  <2>2. Knows(db, "segRow", r, v)
    BY <1>3, <1>5, <1>7, <2>1 DEF Knows, FlagOps, SegmentsRead
  <2>3. r.op = "CreateRule" => HasFlag(db, f) /\ v.row.type = db.flags[f].type
    BY <1>5, <1>7 DEF Knows
  <2>4. FlagRead(s, v)
    BY <1>4, <1>8
  <2> QED BY <1>1, <1>3, <1>5, <1>6, <2>1, <2>2, <2>3, <2>4, FlagReadOwn
<1>9. CASE RulesOf(db, f) # {}
  <2>1. Goto(s, "links", v)
    BY <1>4, <1>9
  <2>2. Knows(db, "links", r, v)
    BY <1>3, <1>5, <1>7 DEF Knows, FlagOps
  <2>3. CASE r.op = "ToggleFlag"
    <3>1. ReadingBack(s)
      BY <1>1, <1>2, <2>3 DEF ReadingBack
    <3> QED BY <1>1, <1>2, <2>1, <2>2, <2>3, <3>1, ReadBackGoesOn
  <2>4. CASE r.op # "ToggleFlag"
    <3>1. ~ReadingBack(s)
      BY <1>2, <2>4 DEF ReadingBack
    <3> QED BY <1>1, <1>2, <2>1, <2>2, <2>4, <3>1, GoesUnseen
  <2> QED BY <2>3, <2>4
<1> QED BY <1>8, <1>9

\* Rules read without their keys, and their keys, are the rules.
LEMMA Linked ==
  ASSUME NEW d, NEW f, NEW rules,
         rules = [i \in RulesOf(d, f) |-> RuleView(d.rules[i], d.conds[i], {})]
  PROVE  [i \in DOMAIN rules |-> [rules[i] EXCEPT !.segs = LinksOf(d, i)]] = RulesIn(d, f)
<1>1. \A i \in RulesOf(d, f) : [rules[i] EXCEPT !.segs = LinksOf(d, i)]
                               = RuleView(d.rules[i], d.conds[i], LinksOf(d, i))
  BY DEF RuleView
<1> QED BY <1>1 DEF RulesIn

\* The segment keys of those rules, too.
LEMMA ReadLinksOwn ==
  ASSUME NEW s \in Sessions, StoreInv, Known(s), ReadLinks(s)
  PROVE  Own(s)
<1> DEFINE r == req[s]
           f == req[s].flag
           linked == [i \in DOMAIN view[s].rules |->
                        [view[s].rules[i] EXCEPT !.segs = LinksOf(db, i)]]
           todo == IF req[s].op = "Evaluate" THEN SegmentsUsed(linked) ELSE {}
           v == [view[s] EXCEPT !.rules = linked, !.todo = todo]
<1>1. pc[s] = "links" /\ UNCHANGED <<db, req>> /\ pc[s] \in Running /\ pc[s] \in Statements
  BY DEF ReadLinks, At, ReadOnly, Running, Statements, Reads
<1>2. r \in Requests /\ Op(s) = r.op /\ req[s] # Absent /\ Fits(pc[s], r, view[s])
      /\ IsView(view[s])
  BY <1>1, Unanswered
<1>3. r.op \in FlagOps
  BY <1>1, <1>2 DEF Fits, OpsAt
<1>4. FlagRead(s, v)
  BY DEF ReadLinks
<1>5. Knows(db, "links", r, view[s])
  BY <1>1 DEF Known
<1>6. r.op # "CreateRule" => linked = RulesIn(db, f)
  <2>1. \A rules : rules = [i \in RulesOf(db, f) |-> RuleView(db.rules[i], db.conds[i], {})]
                    => [i \in DOMAIN rules |-> [rules[i] EXCEPT !.segs = LinksOf(db, i)]]
                         = RulesIn(db, f)
    BY Linked
  <2>2. r.op # "CreateRule" =>
          view[s].rules = [i \in RulesOf(db, f) |-> RuleView(db.rules[i], db.conds[i], {})]
    BY <1>3, <1>5 DEF Knows, FlagOps
  <2> QED BY <2>1, <2>2
<1> HIDE DEF linked
<1>7. /\ v.row = view[s].row /\ v.rules = linked /\ v.todo = todo
      /\ v.segments = view[s].segments
  <2> HIDE DEF todo
  <2> DEFINE w == [view[s] EXCEPT !.rules = linked]
  <2>1. w = [row |-> view[s].row, rules |-> linked, todo |-> view[s].todo,
             text |-> view[s].text, segments |-> view[s].segments]
    BY <1>2 DEF IsView
  <2>2. v = [w EXCEPT !.todo = todo]
    OBVIOUS
  <2> HIDE DEF w
  <2> QED BY <2>1, <2>2
<1>8. v.segments = [g \in DOMAIN v.segments |-> v.segments[g]]
  BY <1>2, <1>7 DEF IsView
<1> HIDE DEF v
<1>9. r.op = "Evaluate" => SegmentsRead(db, v) = {} /\ v.todo = SegmentsUsed(v.rules)
  BY <1>7 DEF SegmentsRead
<1>10. Knows(db, "segRow", r, v)
  BY <1>3, <1>5, <1>6, <1>7, <1>9 DEF Knows, FlagOps
<1>11. r.op = "CreateRule" => HasFlag(db, f) /\ v.row.type = db.flags[f].type
  BY <1>5, <1>7 DEF Knows
<1> QED BY <1>1, <1>3, <1>4, <1>6, <1>7, <1>8, <1>10, <1>11, FlagReadOwn

\* A segment that is counted to be in use is refused.
LEMMA CountLinksOwn ==
  ASSUME NEW s \in Sessions, StoreInv, CountLinks(s)
  PROVE  Own(s)
<1> DEFINE r == req[s]
<1>1. pc[s] = "count" /\ UNCHANGED <<db, req>> /\ pc[s] \in Running /\ ~ReadingBack(s)
  BY DEF CountLinks, At, ReadOnly, Running, Statements, Reads, ReadingBack
<1>2. Op(s) = r.op /\ Fits(pc[s], r, view[s])
  BY <1>1, Unanswered
<1>3. r.op = "DeleteSegment"
  BY <1>1, <1>2 DEF Fits, OpsAt
<1>4. CASE InUse(db, r.segment)
  <2>1. Finish(s, 409, NoBody) /\ Performs(db, r, db, Answer(409, NoBody))
    BY <1>3, <1>4, PerformRefusedDelete DEF CountLinks
  <2> QED BY <1>1, <2>1, EffectEnds
<1>5. CASE ~InUse(db, r.segment)
  <2>1. Goto(s, "exec", NoView) /\ Knows(db, "exec", r, NoView)
    BY <1>3, <1>5 DEF CountLinks, Knows
  <2> QED BY <1>1, <1>2, <1>3, <2>1, GoesUnseen
<1> QED BY <1>4, <1>5

\* Where a request goes on once segment g is read, or found missing.
LEMMA SegmentReadOwn ==
  ASSUME NEW s \in Sessions, StoreInv, pc[s] \in {"segRow", "segConds"},
         UNCHANGED <<db, req>>, NEW v, NEW g, SegmentRead(s, v, g),
         v.segments = [k \in DOMAIN v.segments |-> v.segments[k]],
         req[s].op \in {"GetSegment", "UpdateSegment"} =>
           /\ g = req[s].segment /\ (g \in DOMAIN v.segments <=> g \in db.segs)
           /\ g \in db.segs => v.segments[g] = db.segConds[g],
         req[s].op = "GetSegment" \/ (req[s].op = "UpdateSegment" /\ req[s].text = Absent) =>
           (g \in db.segs => v.text = db.about[g]),
         req[s].op = "Evaluate" => Knows(db, "segRow", req[s], v)
  PROVE  Own(s)
<1> DEFINE r == req[s]
<1>1. pc[s] \in Running /\ ~ReadingBack(s)
  BY DEF Running, Statements, Reads, ReadingBack
<1>2. Op(s) = r.op /\ Fits(pc[s], r, view[s])
  BY <1>1, Unanswered
<1>3. r.op \in {"GetSegment", "UpdateSegment", "Evaluate"}
  BY <1>2 DEF Fits, OpsAt
<1>4. CASE r.op = "GetSegment" /\ g \in db.segs
  <2>1. Finish(s, 200, SegmentView(v.text, v.segments[g]))
    BY <1>4 DEF SegmentRead
  <2>2. SegmentView(v.text, v.segments[g]) = SegmentIn(db, g)
    BY <1>4 DEF SegmentIn
  <2>3. Performs(db, r, db, Answer(200, SegmentIn(db, g)))
    BY <1>4, PerformGetSegment
  <2> QED BY <1>1, <2>1, <2>2, <2>3, EffectEnds
<1>5. CASE r.op = "UpdateSegment" /\ g \in db.segs
  <2>1. Goto(s, "write", v) /\ Knows(db, "write", r, v)
    BY <1>5 DEF SegmentRead, Knows
  <2> QED BY <1>1, <1>2, <1>5, <2>1, GoesUnseen
<1>6. CASE r.op \in {"GetSegment", "UpdateSegment"} /\ g \notin db.segs
  <2>1. Finish(s, 404, NoBody)
    BY <1>6 DEF SegmentRead
  <2>2. r.op = "UpdateSegment" => r.conds = Absent \/ ValidSegment(r.conds)
    BY <1>2 DEF Fits
  <2>3. Performs(db, r, db, Answer(404, NoBody))
    BY <1>6, <2>2, PerformGetSegment, PerformRefusedConditions
  <2> QED BY <1>1, <2>1, <2>3, EffectEnds
<1>7. CASE r.op = "Evaluate"
  <2>1. FlagRead(s, v) /\ r.op \in FlagOps
    BY <1>7 DEF SegmentRead, FlagOps
  <2> QED BY <1>7, <2>1, FlagReadOwn
<1> QED BY <1>3, <1>4, <1>5, <1>6, <1>7

\* A segment row that is not there is the answer, or one segment less to read.
LEMMA ReadSegmentRowOwn ==
  ASSUME NEW s \in Sessions, StoreInv, Known(s), ReadSegmentRow(s)
  PROVE  Own(s)
<1> DEFINE r == req[s]
<1>1. pc[s] = "segRow" /\ UNCHANGED <<db, req>> /\ pc[s] \in Running /\ ~ReadingBack(s)
      /\ pc[s] \in Statements
  BY DEF ReadSegmentRow, At, ReadOnly, Running, Statements, Reads, ReadingBack
<1>2. Op(s) = r.op /\ Fits(pc[s], r, view[s]) /\ IsView(view[s])
  BY <1>1, Unanswered
<1>3. r.op \in {"GetSegment", "UpdateSegment", "Evaluate"}
  BY <1>1, <1>2 DEF Fits, OpsAt
<1>4. PICK g \in view[s].todo :
        IF g \in db.segs
        THEN Goto(s, "segConds", [view[s] EXCEPT !.text = db.about[g],
                                                 !.segments = Found(@, g)])
        ELSE SegmentRead(s, [view[s] EXCEPT !.todo = @ \ {g}], g)
  BY DEF ReadSegmentRow
<1>5. Knows(db, "segRow", r, view[s])
  BY <1>1 DEF Known
<1>6. CASE g \in db.segs
  <2> DEFINE found == Found(view[s].segments, g)
             v == [view[s] EXCEPT !.text = db.about[g], !.segments = found]
  <2>1. /\ DOMAIN found = DOMAIN view[s].segments \cup {g}
        /\ \A k \in DOMAIN view[s].segments : k # g => found[k] = view[s].segments[k]
    BY DEF Found
  <2>2. Goto(s, "segConds", v)
    BY <1>4, <1>6
  <2> HIDE DEF found
  <2>3. /\ v.row = view[s].row /\ v.rules = view[s].rules /\ v.todo = view[s].todo
        /\ v.text = db.about[g] /\ v.segments = found
    BY <1>2 DEF IsView
  <2> HIDE DEF v
  <2>4. SegmentsRead(db, v) = SegmentsRead(db, view[s]) /\ g \notin SegmentsRead(db, v)
    BY <2>3 DEF SegmentsRead
  <2>5. Knows(db, "segConds", r, v)
    <3>1. CASE r.op \in {"GetSegment", "UpdateSegment"}
      BY <1>5, <1>6, <2>1, <2>3, <3>1 DEF Knows
    <3>2. CASE r.op = "Evaluate"
      <4>1. /\ DOMAIN v.segments = SegmentsRead(db, v) \cup {g}
            /\ \A k \in SegmentsRead(db, v) : v.segments[k] = db.segConds[k]
        BY <1>5, <2>1, <2>3, <2>4, <3>2 DEF Knows
      <4>2. g \in v.todo \cap db.segs
        BY <1>6, <2>3
      <4> QED BY <1>5, <2>3, <3>2, <4>1, <4>2 DEF Knows
    <3> QED BY <1>3, <3>1, <3>2
  <2> QED BY <1>1, <2>2, <2>5, GoesUnseen
<1>7. CASE g \notin db.segs
  <2> DEFINE rest == view[s].todo \ {g}
             v == [view[s] EXCEPT !.todo = rest]
  <2>1. SegmentRead(s, v, g)
    BY <1>4, <1>7
  <2>2. rest \subseteq view[s].todo /\ g \notin rest /\ \A k \in view[s].todo : k # g => k \in rest
    OBVIOUS
  <2> HIDE DEF rest
  <2>3. /\ v.row = view[s].row /\ v.rules = view[s].rules /\ v.todo = rest
        /\ v.segments = view[s].segments
    BY <1>2 DEF IsView
  <2> HIDE DEF v
  <2>4. SegmentsRead(db, v) = SegmentsRead(db, view[s])
    BY <1>7, <2>2, <2>3 DEF SegmentsRead
  <2>5. v.segments = [k \in DOMAIN v.segments |-> v.segments[k]]
    BY <1>2, <2>3 DEF IsView
  <2>6. r.op = "Evaluate" => Knows(db, "segRow", r, v)
    BY <1>5, <2>2, <2>3, <2>4 DEF Knows
  <2>7. r.op \in {"GetSegment", "UpdateSegment"} =>
          g = r.segment /\ (g \in DOMAIN v.segments <=> g \in db.segs)
    BY <1>5, <1>7, <2>3 DEF Knows
  <2> QED BY <1>1, <1>7, <2>1, <2>5, <2>6, <2>7, SegmentReadOwn
<1> QED BY <1>6, <1>7

\* The conditions of a segment, too.
LEMMA ReadSegmentCondsOwn ==
  ASSUME NEW s \in Sessions, StoreInv, Known(s), ReadSegmentConds(s)
  PROVE  Own(s)
<1> DEFINE r == req[s]
           g == CHOOSE k \in view[s].todo : k \in DOMAIN view[s].segments
           segments == [view[s].segments EXCEPT ![g] = db.segConds[g]]
           rest == view[s].todo \ {g}
           w == [view[s] EXCEPT !.todo = rest]
           v == [w EXCEPT !.segments = segments]
<1>1. pc[s] = "segConds" /\ UNCHANGED <<db, req>> /\ pc[s] \in Running /\ ~ReadingBack(s)
      /\ pc[s] \in Statements
  BY DEF ReadSegmentConds, At, ReadOnly, Running, Statements, Reads, ReadingBack
<1>2. Op(s) = r.op /\ Fits(pc[s], r, view[s]) /\ IsView(view[s])
  BY <1>1, Unanswered
<1>3. r.op \in {"GetSegment", "UpdateSegment", "Evaluate"}
  BY <1>1, <1>2 DEF Fits, OpsAt
<1>4. SegmentRead(s, v, g)
  <2>1. v = [view[s] EXCEPT !.todo = @ \ {g}, !.segments[g] = db.segConds[g]]
    BY <1>2 DEF IsView
  <2> QED BY <2>1 DEF ReadSegmentConds
<1>5. Knows(db, "segConds", r, view[s])
  BY <1>1 DEF Known
<1>6. g \in view[s].todo /\ g \in DOMAIN view[s].segments
  <2>1. \E k \in view[s].todo : k \in DOMAIN view[s].segments
    BY <1>1, <1>2 DEF Fits
  <2> QED BY <2>1
<1> HIDE DEF g
<1>7. /\ DOMAIN segments = DOMAIN view[s].segments /\ segments[g] = db.segConds[g]
      /\ \A k \in DOMAIN segments : k # g => segments[k] = view[s].segments[k]
      /\ segments = [k \in DOMAIN segments |-> segments[k]]
  BY <1>2, <1>6 DEF IsView
<1> HIDE DEF segments
<1>8. rest \subseteq view[s].todo /\ g \notin rest /\ \A k \in view[s].todo : k # g => k \in rest
  OBVIOUS
<1> HIDE DEF rest
<1>9. /\ v.row = view[s].row /\ v.rules = view[s].rules /\ v.todo = rest
      /\ v.text = view[s].text /\ v.segments = segments
  <2>1. w = [row |-> view[s].row, rules |-> view[s].rules, todo |-> rest,
             text |-> view[s].text, segments |-> view[s].segments]
    BY <1>2 DEF IsView
  <2> HIDE DEF w
  <2> QED BY <2>1
<1> HIDE DEF v
<1>10. r.op = "Evaluate" => Knows(db, "segRow", r, v)
  <2> SUFFICES ASSUME r.op = "Evaluate" PROVE Knows(db, "segRow", r, v)
    OBVIOUS
  <2>1. PICK k \in view[s].todo \cap db.segs :
          /\ DOMAIN view[s].segments = SegmentsRead(db, view[s]) \cup {k}
          /\ \A j \in SegmentsRead(db, view[s]) : view[s].segments[j] = db.segConds[j]
    BY <1>5 DEF Knows
  <2>2. k = g
    BY <1>6, <2>1 DEF SegmentsRead
  <2>3. view[s].todo \subseteq SegmentsUsed(view[s].rules)
    BY <1>5 DEF Knows
  <2>4. SegmentsRead(db, v) = SegmentsRead(db, view[s]) \cup {g}
    BY <1>6, <1>8, <1>9, <2>1, <2>2, <2>3 DEF SegmentsRead
  <2>5. DOMAIN v.segments = SegmentsRead(db, v)
    BY <1>7, <1>9, <2>1, <2>2, <2>4
  <2>6. \A j \in SegmentsRead(db, v) : v.segments[j] = db.segConds[j]
    BY <1>7, <1>9, <2>1, <2>2, <2>4, <2>5
  <2> QED BY <1>5, <1>8, <1>9, <2>3, <2>5, <2>6 DEF Knows
<1>11. r.op \in {"GetSegment", "UpdateSegment"} =>
         /\ g = r.segment /\ (g \in DOMAIN v.segments <=> g \in db.segs)
         /\ g \in db.segs => v.segments[g] = db.segConds[g]
  BY <1>5, <1>6, <1>7, <1>9 DEF Knows
<1>12. r.op = "GetSegment" \/ (r.op = "UpdateSegment" /\ r.text = Absent) =>
         v.text = db.about[g]
  BY <1>5, <1>9, <1>11 DEF Knows
<1>13. v.segments = [k \in DOMAIN v.segments |-> v.segments[k]]
  BY <1>7, <1>9
<1> QED BY <1>1, <1>4, <1>10, <1>11, <1>12, <1>13, SegmentReadOwn

-----------------------------------------------------------------------------
(* Writes outside a transaction. *)

\* What a request that writes outside a transaction is known to hold.
LEMMA AtExecOwn ==
  ASSUME NEW s \in Sessions, StoreInv, NEW op, Exec(s, op)
  PROVE  /\ pc[s] \in Running /\ pc[s] = "exec" /\ ~ReadingBack(s) /\ UNCHANGED req
         /\ req[s].op = op /\ req[s] \in Requests /\ Fits("exec", req[s], view[s])
         /\ db \in Database /\ Op(s) = op /\ Reply(s) = NoReply /\ FK(s) \in BOOLEAN
<1>1. pc[s] \in Running /\ pc[s] = "exec" /\ ~ReadingBack(s) /\ UNCHANGED req
  BY DEF Exec, At, Running, Statements, ReadingBack
<1> QED BY <1>1, AtExec, Unanswered DEF FK

\* The writes outside a transaction, the deletes where foreign keys are enforced.
LEMMA ExecCreateFlagOwn ==
  ASSUME NEW s \in Sessions, StoreInv, ExecCreateFlag(s)
  PROVE  Own(s)
<1> DEFINE r == req[s]
           d == PutFlag(db, r.flag, FlagRowOf(r))
<1>1. Exec(s, "CreateFlag")
  BY DEF ExecCreateFlag
<1>2. pc[s] \in Running /\ ~ReadingBack(s) /\ UNCHANGED req /\ r.op = "CreateFlag" /\ ValidFlag(r)
  BY <1>1, AtExecOwn DEF Fits
<1>3. CASE HasFlag(db, r.flag)
  <2>1. db' = db /\ Finish(s, 409, NoBody)
    BY <1>3 DEF ExecCreateFlag, NoRow
  <2>2. Performs(db, r, db, Answer(409, NoBody))
    BY <1>2, <1>3, PerformCreateFlag
  <2> QED BY <1>2, <2>1, <2>2, EffectEnds
<1>4. CASE ~HasFlag(db, r.flag)
  <2>1. db' = d /\ Finish(s, 201, NoBody)
    BY <1>4 DEF ExecCreateFlag, Install
  <2>2. Performs(db, r, d, Answer(201, NoBody))
    BY <1>2, <1>4, PerformCreateFlag
  <2> HIDE DEF d
  <2> QED BY <1>2, <2>1, <2>2, EffectEnds
<1> QED BY <1>3, <1>4

\* The UPDATE of UpdateFlag.
WriteBack(d, f, m) ==
  [d EXCEPT !.flags[f].enabled = m.enabled, !.flags[f].default = m.default]

\* Writing back the row that is there is replacing the fields that were given.
LEMMA MergedRow ==
  ASSUME NEW d \in Database, NEW f \in FlagKeys, HasFlag(d, f), NEW r,
         NEW m, m = Merge(d.flags[f], r)
  PROVE  WriteBack(d, f, m) = PutFlag(d, f, m)
<1> DEFINE row == d.flags[f]
           w == [row EXCEPT !.enabled = m.enabled]
<1>1. row \in FlagRow
  BY DEF HasFlag, Database
<1>2. m = [type |-> row.type, enabled |-> m.enabled, default |-> m.default]
  BY <1>1 DEF Merge, FlagRow
<1>3. WriteBack(d, f, m) = [d EXCEPT !.flags[f] = [w EXCEPT !.default = m.default]]
  BY DEF Database, WriteBack
<1> HIDE DEF row
<1>4. row = [type |-> row.type, enabled |-> row.enabled, default |-> row.default]
  BY <1>1 DEF FlagRow
<1>5. w = [type |-> row.type, enabled |-> m.enabled, default |-> row.default]
  BY <1>4
<1> HIDE DEF w
<1>6. [w EXCEPT !.default = m.default]
        = [type |-> row.type, enabled |-> m.enabled, default |-> m.default]
  BY <1>5
<1> QED BY <1>2, <1>3, <1>6 DEF PutFlag

\* Writing a flag's row leaves its rules alone.
LEMMA PutFlagIn ==
  ASSUME NEW d \in Database, NEW f \in FlagKeys, NEW row
  PROVE  FlagIn(PutFlag(d, f, row), f) = FlagView(row, RulesIn(d, f), <<>>)
<1> DEFINE e == PutFlag(d, f, row)
<1>1. e.flags[f] = row /\ e.rules = d.rules /\ e.conds = d.conds /\ e.links = d.links
  BY DEF PutFlag, Database
<1> HIDE DEF e
<1>2. RulesIn(e, f) = RulesIn(d, f)
  BY <1>1 DEF RulesIn, RulesOf, HasRule, LinksOf
<1> QED BY <1>1, <1>2 DEF FlagIn, e

LEMMA ExecUpdateFlagOwn ==
  ASSUME NEW s \in Sessions, StoreInv, Known(s), ExecUpdateFlag(s)
  PROVE  Own(s)
<1> DEFINE r == req[s]
           f == req[s].flag
           merged == Merge(view[s].row, r)
           d == [db EXCEPT !.flags[f].enabled = merged.enabled,
                           !.flags[f].default = merged.default]
<1>1. Exec(s, "UpdateFlag") /\ Finish(s, 200, FlagView(merged, view[s].rules, <<>>))
  BY DEF ExecUpdateFlag
<1>2. pc[s] \in Running /\ ~ReadingBack(s) /\ UNCHANGED req /\ r.op = "UpdateFlag"
      /\ r \in Requests /\ db \in Database /\ pc[s] = "exec"
      /\ (r.default = Absent \/ r.default \in ValuesOf[view[s].row.type])
  BY <1>1, AtExecOwn DEF Fits
<1>3. HasFlag(db, f) /\ view[s].row = db.flags[f] /\ f \in FlagKeys
      /\ view[s].rules = RulesIn(db, f)
  BY <1>2, RequestShape DEF Known, Knows, Statements
<1>4. db' = d
  BY <1>3 DEF ExecUpdateFlag, Install
<1>5. d = PutFlag(db, f, merged)
  <2>1. d = WriteBack(db, f, merged)
    BY DEF WriteBack
  <2> HIDE DEF d
  <2>2. merged = Merge(db.flags[f], r)
    BY <1>3
  <2> HIDE DEF merged, f, r
  <2>3. WriteBack(db, f, merged) = PutFlag(db, f, merged)
    BY <1>2, <1>3, <2>2, MergedRow
  <2> QED BY <2>1, <2>3
<1>6. Performs(db, r, PutFlag(db, f, merged), Answer(200, FlagIn(PutFlag(db, f, merged), f)))
  BY <1>2, <1>3, PerformUpdateFlag
<1> HIDE DEF d, merged
<1>7. FlagIn(PutFlag(db, f, merged), f) = FlagView(merged, view[s].rules, <<>>)
  BY <1>2, <1>3, PutFlagIn
<1> QED BY <1>1, <1>2, <1>4, <1>5, <1>6, <1>7, EffectEnds

LEMMA ExecDeleteFlagOwn ==
  ASSUME NEW s \in Sessions, StoreInv, FK(s), ExecDeleteFlag(s)
  PROVE  Own(s)
<1> DEFINE r == req[s]
           d == DropFlag(db, r.flag, FK(s))
<1>1. Exec(s, "DeleteFlag")
  BY DEF ExecDeleteFlag
<1>2. pc[s] \in Running /\ ~ReadingBack(s) /\ UNCHANGED req /\ r.op = "DeleteFlag"
      /\ FK(s) \in BOOLEAN
  BY <1>1, AtExecOwn
<1>3. CASE HasFlag(db, r.flag)
  <2>1. db' = d /\ Finish(s, 204, NoBody)
    BY <1>3 DEF ExecDeleteFlag, Install
  <2>2. Performs(db, r, d, Answer(204, NoBody))
    BY <1>2, <1>3, PerformDeleteFlag
  <2> HIDE DEF d
  <2> QED BY <1>2, <2>1, <2>2, EffectEnds
<1>4. CASE ~HasFlag(db, r.flag)
  <2>1. db' = db /\ Finish(s, 404, NoBody)
    BY <1>4 DEF ExecDeleteFlag, NoRow
  <2>2. Performs(db, r, db, Answer(404, NoBody))
    BY <1>2, <1>4, PerformDeleteFlag
  <2> QED BY <1>2, <2>1, <2>2, EffectEnds
<1> QED BY <1>3, <1>4

LEMMA ExecDeleteRuleOwn ==
  ASSUME NEW s \in Sessions, StoreInv, FK(s), ExecDeleteRule(s)
  PROVE  Own(s)
<1> DEFINE r == req[s]
           d == DropRules(db, {r.rule}, FK(s))
<1>1. Exec(s, "DeleteRule")
  BY DEF ExecDeleteRule
<1>2. pc[s] \in Running /\ ~ReadingBack(s) /\ UNCHANGED req /\ r.op = "DeleteRule"
      /\ FK(s) \in BOOLEAN
  BY <1>1, AtExecOwn
<1>3. CASE HasRule(db, r.flag, r.rule)
  <2>1. db' = d /\ Finish(s, 204, NoBody)
    BY <1>3 DEF ExecDeleteRule, Install
  <2>2. Performs(db, r, d, Answer(204, NoBody))
    BY <1>2, <1>3, PerformDeleteRule
  <2> HIDE DEF d
  <2> QED BY <1>2, <2>1, <2>2, EffectEnds
<1>4. CASE ~HasRule(db, r.flag, r.rule)
  <2>1. db' = db /\ Finish(s, 404, NoBody)
    BY <1>4 DEF ExecDeleteRule, NoRow
  <2>2. Performs(db, r, db, Answer(404, NoBody))
    BY <1>2, <1>4, PerformDeleteRule
  <2> QED BY <1>2, <2>1, <2>2, EffectEnds
<1> QED BY <1>3, <1>4

LEMMA ExecDeleteSegmentOwn ==
  ASSUME NEW s \in Sessions, StoreInv, Known(s), FK(s), ExecDeleteSegment(s)
  PROVE  Own(s)
<1> DEFINE r == req[s]
           g == req[s].segment
           d == DropSegment(db, g, FK(s))
<1>1. Exec(s, "DeleteSegment")
  BY DEF ExecDeleteSegment
<1>2. pc[s] \in Running /\ ~ReadingBack(s) /\ UNCHANGED req /\ r.op = "DeleteSegment"
      /\ FK(s) \in BOOLEAN /\ pc[s] = "exec"
  BY <1>1, AtExecOwn
<1>3. ~InUse(db, g)
  BY <1>2 DEF Known, Knows, Statements
<1>4. CASE g \in db.segs
  <2>1. db' = d /\ Finish(s, 204, NoBody)
    BY <1>4 DEF ExecDeleteSegment, Install
  <2>2. Performs(db, r, d, Answer(204, NoBody))
    BY <1>2, <1>3, <1>4, PerformDeleteSegment
  <2> HIDE DEF d
  <2> QED BY <1>2, <2>1, <2>2, EffectEnds
<1>5. CASE g \notin db.segs
  <2>1. db' = db /\ Finish(s, 404, NoBody)
    BY <1>5 DEF ExecDeleteSegment, NoRow
  <2>2. Performs(db, r, db, Answer(404, NoBody))
    BY <1>2, <1>3, <1>5, PerformRefusedDelete
  <2> QED BY <1>2, <2>1, <2>2, EffectEnds
<1> QED BY <1>4, <1>5

\* A toggle changes which flags there are, or their types, as little as segments.
LEMMA ToggledFlags ==
  ASSUME NEW d \in Database, NEW f \in FlagKeys, HasFlag(d, f)
  PROVE  /\ \A h \in FlagKeys : HasFlag(Toggle(d, f), h) <=> HasFlag(d, h)
         /\ \A h \in FlagKeys : HasFlag(d, h) => Toggle(d, f).flags[h].type = d.flags[h].type
         /\ Toggle(d, f).segs = d.segs
<1> DEFINE row == [d.flags[f] EXCEPT !.enabled = ~d.flags[f].enabled]
<1>1. d.flags[f] \in FlagRow
  BY DEF HasFlag, Database
<1>2. row \in FlagRow /\ row.type = d.flags[f].type
  BY <1>1 DEF FlagRow
<1>3. Toggle(d, f) = [d EXCEPT !.flags[f] = row]
  BY DEF Toggle, Database
<1>4. row # Absent
  BY <1>2, Distinctions
<1> HIDE DEF row
<1> QED BY <1>2, <1>3, <1>4 DEF HasFlag, Database

LEMMA ExecToggleFlagOwn ==
  ASSUME NEW s \in Sessions, StoreInv, ExecToggleFlag(s)
  PROVE  Own(s)
<1> DEFINE r == req[s]
           f == req[s].flag
<1>1. Exec(s, "ToggleFlag") /\ Goto(s, "flagRow", NoView)
  BY DEF ExecToggleFlag
<1>2. UNCHANGED req /\ r.op = "ToggleFlag" /\ r \in Requests /\ db \in Database /\ req[s] # Absent
      /\ Reply(s) = NoReply /\ RuleIdLeft(db, r)
  BY <1>1, AtExecOwn, Distinctions, Unanswered
<1>3. pc'[s] = "flagRow" /\ f \in FlagKeys
  BY <1>1, <1>2, RequestShape DEF Goto, StoreInv, Shaped
<1>4. Known(s)'
  BY <1>2, <1>3 DEF Known, Knows
<1>5. CASE HasFlag(db, f)
  <2>1. db' = Toggle(db, f)
    BY <1>5 DEF ExecToggleFlag, Install
  <2>2. HasFlag(db', f)
    BY <1>2, <1>3, <1>5, <2>1, ToggledFlags
  <2>3. Reply(s)' = Answer(200, FlagIn(db', f))
    BY <1>2, <1>3, <2>2 DEF Reply, ReadingBack, Op
  <2>4. Performs(db, r, db', Answer(200, FlagIn(db', f)))
    BY <1>2, <1>5, <2>1, PerformToggleFlag
  <2> QED BY <1>2, <1>4, <2>3, <2>4 DEF Own, Effective
<1>6. CASE ~HasFlag(db, f)
  <2>1. db' = db
    BY <1>6 DEF ExecToggleFlag, NoRow
  <2>2. Reply(s)' = Answer(404, NoBody)
    BY <1>2, <1>3, <1>6, <2>1 DEF Reply, ReadingBack, Op
  <2>3. Performs(db, r, db', Answer(404, NoBody))
    BY <1>2, <1>6, <2>1, PerformToggleFlag
  <2> QED BY <1>2, <1>4, <2>2, <2>3 DEF Own, Effective
<1> QED BY <1>5, <1>6

-----------------------------------------------------------------------------
(* Transactions. *)

\* A segment key that is not there refuses the rule.
LEMMA ValidateSegmentKeysOwn ==
  ASSUME NEW s \in Sessions, StoreInv, Known(s), ValidateSegmentKeys(s)
  PROVE  Own(s)
<1> DEFINE r == req[s]
<1>1. pc[s] = "validate" /\ UNCHANGED <<db, req>> /\ pc[s] \in Running /\ ~ReadingBack(s)
      /\ pc[s] \in Statements
  BY DEF ValidateSegmentKeys, Abort, At, Running, Statements, ReadingBack
<1>2. Op(s) = r.op /\ Fits(pc[s], r, view[s])
  BY <1>1, Unanswered
<1>3. r.op \in RuleOps /\ ValidRule(r)
  BY <1>1, <1>2 DEF Fits, OpsAt
<1>4. Knows(db, "validate", r, view[s])
  BY <1>1 DEF Known
<1>5. CASE KeysIn(r.segs) \subseteq db.segs
  <2>1. Goto(s, "upgrade", NoView)
    BY <1>5 DEF ValidateSegmentKeys
  <2>2. Knows(db, "upgrade", r, NoView)
    BY <1>3, <1>4 DEF Knows, RuleOps
  <2> QED BY <1>1, <2>1, <2>2, GoesUnseen
<1>6. CASE ~(KeysIn(r.segs) \subseteq db.segs)
  <2>1. Finish(s, ErrorStatus(r.op), NoBody)
    BY <1>6 DEF ValidateSegmentKeys, Abort
  <2>2. Performs(db, r, db, Answer(ErrorStatus(r.op), NoBody))
    <3>1. CASE r.op = "CreateRule"
      <4>1. HasFlag(db, r.flag) /\ r.value \in ValuesOf[db.flags[r.flag].type]
        BY <1>4, <3>1 DEF Knows
      <4> QED BY <1>3, <1>6, <3>1, <4>1, PerformRefusedRule DEF ErrorStatus
    <3>2. CASE r.op = "UpdateRule"
      BY <1>3, <1>6, <3>2, PerformRefusedRewrite DEF ErrorStatus
    <3> QED BY <1>3, <3>1, <3>2 DEF RuleOps
  <2> QED BY <1>1, <2>1, <2>2, EffectEnds
<1> QED BY <1>5, <1>6

\* What a transaction answers when it commits.
Outcome(s) ==
  CASE req[s].op \in {"CreateRule", "CreateSegment"} -> Answer(201, NoBody)
    [] req[s].op = "UpdateRule"                      -> Answer(200, NoBody)
    [] req[s].op = "UpdateSegment"                   -> Answer(200, UpdatedSegment(s))

\* UpdateSegment answers with what it leaves: what it was not asked to replace it
\* has read.
LEMMA RewrittenSegment ==
  ASSUME NEW d \in Database, NEW g \in SegmentKeys, g \in d.segs, NEW text, NEW conds,
         NEW fk, NEW e, e = RewriteSegment(d, g, text, conds, fk)
  PROVE  SegmentIn(e, g) = SegmentView(text, IF conds = Absent THEN d.segConds[g] ELSE conds)
<1> DEFINE f == [d EXCEPT !.about[g] = text]
<1>1. f.about[g] = text /\ f.segConds = d.segConds
      /\ [f EXCEPT !.segConds[g] = conds].segConds[g] = conds
      /\ [f EXCEPT !.segConds[g] = conds].about[g] = text
  BY DEF Database
<1>2. e = IF conds = Absent THEN f ELSE [f EXCEPT !.segConds[g] = conds]
  BY DEF RewriteSegment
<1> HIDE DEF f
<1> QED BY <1>1, <1>2 DEF SegmentIn

\* What a transaction writes is what the catalogue makes of its request.
LEMMA RewriteSegmentThere ==
  ASSUME NEW d \in Database, NEW g \in SegmentKeys, g \in d.segs,
         NEW text \in Descriptions \cup {Absent}, NEW conds,
         conds = Absent \/ ValidSegment(conds), NEW fk
  PROVE  RewriteSegment(d, g, text, conds, fk) # Absent
<1> DEFINE f == [d EXCEPT !.about[g] = text]
<1>1. f \in Database
  BY DEF Database
<1> HIDE DEF f
<1>2. CASE conds = Absent
  <2>1. RewriteSegment(d, g, text, conds, fk) = f
    BY <1>2 DEF RewriteSegment, f
  <2> QED BY <1>1, <2>1, Distinctions
<1>3. CASE conds # Absent
  <2>1. RewriteSegment(d, g, text, conds, fk) = [f EXCEPT !.segConds[g] = conds]
    BY <1>3 DEF RewriteSegment, f
  <2>2. conds \in Seq(Conditions)
    BY <1>3 DEF ValidSegment, ValidConditions
  <2>3. [f EXCEPT !.segConds[g] = conds] \in Database
    BY <1>1, <2>2 DEF Database
  <2> QED BY <2>1, <2>3, Distinctions
<1> QED BY <1>2, <1>3

LEMMA WrittenPerforms ==
  ASSUME NEW s \in Sessions, req[s] \in Requests, Fits(pc[s], req[s], view[s]),
         pc[s] \in {"write", "upgrade", "commit"}, db \in Database,
         req[s].op \in RuleOps => KeysIn(req[s].segs) \subseteq db.segs,
         Knows(db, pc[s], req[s], view[s]),
         NEW r, r = req[s], NEW e, e = Written(s), NEW er, er = ErrorStatus(r.op),
         NEW a, a = Outcome(s)
  PROVE  /\ e = Absent => Performs(db, r, db, Answer(er, NoBody))
         /\ e # Absent => Performs(db, r, e, a)
<1>1. r.op \in RuleOps \cup SegmentOps /\ FK(s) \in BOOLEAN
  BY DEF Fits, OpsAt, FK
<1>2. CASE r.op = "CreateRule"
  <2>1. e = InsertRule(db, RuleRowOf(r), r.conds, r.segs, FK(s))
    BY <1>2 DEF Written
  <2>2. /\ HasFlag(db, r.flag) /\ r.value \in ValuesOf[db.flags[r.flag].type] /\ ValidRule(r)
        /\ KeysIn(r.segs) \subseteq db.segs
    BY <1>2 DEF Knows, Fits, RuleOps
  <2>3. er = 500 /\ a = Answer(201, NoBody)
    BY <1>2 DEF ErrorStatus, Outcome
  <2> QED BY <1>1, <1>2, <2>1, <2>2, <2>3, PerformCreateRule
<1>3. CASE r.op = "UpdateRule"
  <2>1. e = RewriteRule(db, r.rule, RuleRowOf(r), r.conds, r.segs, FK(s))
    BY <1>3 DEF Written
  <2>2. ValidRule(r) /\ KeysIn(r.segs) \subseteq db.segs
    BY <1>3 DEF Fits, RuleOps
  <2>3. er = 404 /\ a = Answer(200, NoBody)
    BY <1>3 DEF ErrorStatus, Outcome
  <2> QED BY <1>1, <1>3, <2>1, <2>2, <2>3, PerformUpdateRule
<1>4. CASE r.op = "CreateSegment"
  <2>1. e = InsertSegment(db, r.segment, r.text, r.conds)
    BY <1>4 DEF Written
  <2>2. ValidSegment(r.conds)
    BY <1>4 DEF Fits, OpsAt, RuleOps
  <2>3. er = 409 /\ a = Answer(201, NoBody)
    BY <1>4 DEF ErrorStatus, Outcome
  <2> QED BY <1>4, <2>1, <2>2, <2>3, PerformCreateSegment
<1>5. CASE r.op = "UpdateSegment"
  <2> DEFINE g == r.segment
             text == TextOf(r, db.about[g])
  <2>1. /\ r.conds = Absent \/ ValidSegment(r.conds)
        /\ g \in db.segs /\ g \in SegmentKeys /\ pc[s] \in {"write", "commit"}
    BY <1>5, RequestShape DEF Fits, OpsAt, RuleOps, Knows
  <2>2. /\ TextOf(r, view[s].text) = text
        /\ r.conds = Absent => view[s].segments[g] = db.segConds[g]
    BY <1>5, <2>1 DEF Knows, TextOf
  <2>3. e = RewriteSegment(db, g, text, r.conds, FK(s))
    BY <1>5, <2>2 DEF Written
  <2>4. text \in Descriptions \cup {Absent}
    <3>1. db.about[g] \in Descriptions \cup {Absent}
      BY <2>1 DEF Database
    <3>2. r.text \in Descriptions \cup {Absent}
      BY <1>5, RequestShape
    <3> QED BY <3>1, <3>2 DEF TextOf
  <2>5. e # Absent
    BY <1>1, <2>1, <2>3, <2>4, RewriteSegmentThere
  <2>6. Performs(db, r, e, Answer(200, SegmentIn(e, g)))
    BY <1>1, <1>5, <2>1, <2>3, PerformUpdateSegment
  <2>7. SegmentIn(e, g) = SegmentView(text, IF r.conds = Absent THEN db.segConds[g] ELSE r.conds)
    BY <2>1, <2>3, RewrittenSegment
  <2>8. a = Answer(200, SegmentIn(e, g))
    BY <1>5, <2>2, <2>7 DEF Outcome, UpdatedSegment
  <2> QED BY <2>5, <2>6, <2>8
<1> QED BY <1>1, <1>2, <1>3, <1>4, <1>5 DEF RuleOps, SegmentOps

\* A transaction that its statements refuse, or that is stale, ends its request.
LEMMA WriteTransactionOwn ==
  ASSUME NEW s \in Sessions, StoreInv, Known(s), WriteTransaction(s)
  PROVE  Own(s)
<1> DEFINE r == req[s]
<1>1. pc[s] \in {"write", "upgrade"} /\ pc[s] \in Running /\ ~ReadingBack(s) /\ UNCHANGED req
      /\ pc[s] \in Statements /\ db \in Database
  BY DEF WriteTransaction, At, Running, Statements, ReadingBack, StoreInv
<1>2. Op(s) = r.op /\ r \in Requests /\ Fits(pc[s], r, view[s])
  BY <1>1, Unanswered
<1>3. CASE s \in stale
  <2>1. Abort(s)
    BY <1>3 DEF WriteTransaction
  <2> QED BY <1>1, <2>1, AbortFails
<1>4. CASE s \notin stale
  <2>1. r.op \in RuleOps => KeysIn(r.segs) \subseteq db.segs
    <3>1. CASE pc[s] = "write"
      BY <1>2, <3>1 DEF Fits, KeysIn
    <3>2. CASE pc[s] = "upgrade"
      BY <1>4, <3>2 DEF StoreInv, SessionInv, Isolated
    <3> QED BY <1>1, <3>1, <3>2
  <2>2. Knows(db, pc[s], r, view[s])
    BY <1>1 DEF Known
  <2>3. Written(s) = Absent => Performs(db, r, db, Answer(ErrorStatus(r.op), NoBody))
    BY <1>1, <1>2, <2>1, <2>2, WrittenPerforms
  <2>4. CASE Written(s) = Absent
    <3>1. Abort(s)
      BY <2>4 DEF WriteTransaction
    <3>2. Finish(s, ErrorStatus(r.op), NoBody) /\ db' = db
      BY <3>1 DEF Abort
    <3> QED BY <1>1, <2>3, <2>4, <3>2, EffectEnds
  <2>5. CASE Written(s) # Absent
    <3>1. Goto(s, "commit", view[s]) /\ db' = db
      BY <1>4, <2>5 DEF WriteTransaction
    <3>2. r.op \in RuleOps \cup SegmentOps /\ (pc[s] = "upgrade" => r.op \in RuleOps)
      BY <1>1, <1>2 DEF Fits, OpsAt
    <3>3. Knows(db, "commit", r, view[s])
      BY <1>1, <2>2, <3>2 DEF Knows, RuleOps, SegmentOps
    <3> QED BY <1>1, <3>1, <3>3, GoesUnseen
  <2> QED BY <2>4, <2>5
<1> QED BY <1>3, <1>4

\* A transaction takes effect when it commits.
LEMMA CommitOwn ==
  ASSUME NEW s \in Sessions, StoreInv, Known(s), Commit(s)
  PROVE  Own(s)
<1> DEFINE r == req[s]
<1>1. pc[s] = "commit" /\ pc[s] \in Running /\ ~ReadingBack(s) /\ UNCHANGED req
      /\ pc[s] \in Statements /\ db \in Database /\ SessionInv(s)
  BY DEF Commit, At, Running, Statements, ReadingBack, StoreInv
<1>2. r \in Requests /\ Fits(pc[s], r, view[s]) /\ Op(s) = r.op
  BY <1>1, Unanswered
<1>3. /\ work[s] = Written(s) /\ work[s] # Absent
      /\ r.op \in RuleOps => KeysIn(r.segs) \subseteq db.segs
  BY <1>1, <1>2 DEF SessionInv, Isolated, Placed
<1>4. Knows(db, pc[s], r, view[s])
  BY <1>1 DEF Known
<1>5. Performs(db, r, Written(s), Outcome(s))
  BY <1>1, <1>2, <1>3, <1>4, WrittenPerforms
<1>6. db' = Written(s) /\ Committed(s)
  BY <1>3 DEF Commit, Install
<1>7. r.op \in RuleOps \cup SegmentOps
  BY <1>1, <1>2 DEF Fits, OpsAt
<1>8. CASE r.op \in {"CreateRule", "CreateSegment"}
  <2>1. Finish(s, 201, NoBody) /\ Outcome(s) = Answer(201, NoBody)
    BY <1>6, <1>8 DEF Committed, Outcome
  <2> QED BY <1>1, <1>5, <1>6, <2>1, EffectEnds
<1>9. CASE r.op = "UpdateRule"
  <2>1. Finish(s, 200, NoBody) /\ Outcome(s) = Answer(200, NoBody)
    BY <1>6, <1>9 DEF Committed, Outcome
  <2> QED BY <1>1, <1>5, <1>6, <2>1, EffectEnds
<1>10. CASE r.op = "UpdateSegment"
  <2>1. Finish(s, 200, UpdatedSegment(s)) /\ Outcome(s) = Answer(200, UpdatedSegment(s))
    BY <1>6, <1>10 DEF Committed, Outcome
  <2> QED BY <1>1, <1>5, <1>6, <2>1, EffectEnds
<1> QED BY <1>7, <1>8, <1>9, <1>10 DEF RuleOps, SegmentOps

\* SQLITE_BUSY is a failure because of others.
LEMMA BusyOwn ==
  ASSUME NEW s \in Sessions, StoreInv, Busy(s)
  PROVE  Own(s)
<1>1. pc[s] \in Statements /\ ~ReadingBack(s) /\ Abort(s) /\ UNCHANGED req
  BY DEF Busy, At, Statements, ReadingBack
<1> QED BY <1>1, AbortFails

-----------------------------------------------------------------------------
(* One request at a time, on one connection. *)

\* A step of session s takes a connection, puts its own back, or does neither.
LEMMA PoolSteps ==
  ASSUME NEW s \in Sessions, Step(s) \/ ReadFails(s) \/ \E r \in Workload : Start(s, r)
  PROVE  /\ \/ UNCHANGED <<conn, free>>
            \/ Acquire(s)
            \/ conn[s] # Absent /\ Release(s)
         /\ stale' \subseteq stale \cup (Sessions \ {s})
<1>1. CASE Read(s)
  BY <1>1 DEF Read, ReadFlagRow, ReadRules, ReadLinks, ReadSegmentRow, ReadSegmentConds,
              CountLinks, ReadOnly, At
<1>2. CASE \/ ExecCreateFlag(s) \/ ExecUpdateFlag(s) \/ ExecDeleteFlag(s)
           \/ ExecToggleFlag(s) \/ ExecDeleteRule(s) \/ ExecDeleteSegment(s)
  BY <1>2 DEF ExecCreateFlag, ExecUpdateFlag, ExecDeleteFlag, ExecToggleFlag, ExecDeleteRule,
              ExecDeleteSegment, Exec, At, Install, NoRow
<1>3. CASE ValidateSegmentKeys(s) \/ WriteTransaction(s) \/ Busy(s) \/ ReadFails(s)
  BY <1>3 DEF ValidateSegmentKeys, WriteTransaction, Busy, ReadFails, Abort, At, Keep
<1>4. CASE Commit(s)
  BY <1>4 DEF Commit, Install, At
<1>5. CASE Validate(s) \/ Respond(s) \/ \E r \in Workload : Start(s, r)
  BY <1>5 DEF Validate, Respond, Start
<1>6. CASE Acquire(s)
  BY <1>6 DEF Acquire
<1> QED BY <1>1, <1>2, <1>3, <1>4, <1>5, <1>6 DEF Step, Write

\* One request at a time finds the one connection in the pool, or opens it.
LEMMA OneConnectionPreserved ==
  ASSUME StoreInv, OneConnection, [Next]_vars
  PROVE  OneConnection'
<1> SUFFICES ASSUME Serial PROVE OneConnection'
  BY DEF OneConnection, Serial
<1> USE DEF OneConnection
<1>1. stale = {} /\ free["plain"] = 0 /\ PoolTyped /\ Shaped
  BY DEF StoreInv
<1>2. ASSUME NEW s \in Sessions, Step(s) \/ ReadFails(s) \/ \E r \in Workload : Start(s, r)
      PROVE  OneConnection'
  <2>1. stale' = {} /\ Sessions = {s}
    BY <1>1, <1>2, PoolSteps DEF Serial
  <2>2. conn[s] \in {"fk", Absent} /\ free["fk"] = IF conn[s] = Absent THEN 1 ELSE 0
    OBVIOUS
  <2>3. CASE UNCHANGED <<conn, free>>
    BY <2>1, <2>2, <2>3
  <2>4. CASE Acquire(s)
    <3>1. conn[s] = Absent /\ free["fk"] = 1 /\ Absent # "fk"
      BY <2>2, <2>4, Distinctions DEF Acquire, Kinds
    <3>2. free' = [free EXCEPT !["fk"] = @ - 1] /\ conn' = [conn EXCEPT ![s] = "fk"]
      BY <1>1, <2>4, <3>1 DEF Acquire, Kinds
    <3>3. free'["fk"] = 0 /\ free'["plain"] = 0 /\ conn'[s] = "fk"
      BY <1>1, <3>1, <3>2 DEF PoolTyped, Kinds, Shaped
    <3> QED BY <2>1, <3>1, <3>3
  <2>5. CASE conn[s] # Absent /\ Release(s)
    <3>1. conn[s] = "fk" /\ free["fk"] = 0
      BY <2>2, <2>5
    <3>2. free' = [free EXCEPT !["fk"] = @ + 1] /\ conn' = [conn EXCEPT ![s] = Absent]
      BY <1>1, <2>5, <3>1, StoreAssumption DEF Release
    <3>3. free'["fk"] = 1 /\ free'["plain"] = 0 /\ conn'[s] = Absent
      BY <1>1, <3>1, <3>2 DEF PoolTyped, Kinds, Shaped
    <3> QED BY <2>1, <3>3
  <2> QED BY <1>2, <2>3, <2>4, <2>5, PoolSteps
<1>3. CASE Crash
  BY <1>3 DEF Crash, Nobody, Kinds
<1>4. CASE UNCHANGED vars
  BY <1>4 DEF vars
<1> QED BY <1>2, <1>3, <1>4 DEF Next

-----------------------------------------------------------------------------
(* A step of the session it is taken by. *)

\* Every step of a session but its last is a step of the catalogue or none.
LEMMA StepOwn ==
  ASSUME NEW s \in Sessions, RefInv, Step(s) \/ ReadFails(s), ~Respond(s), Serial \/ Quiet
  PROVE  Own(s)
<1>1. StoreInv /\ Known(s) /\ OneConnection
  BY DEF RefInv
<1>2. CASE ReadFails(s)
  BY <1>1, <1>2, ReadFailsOwn
<1>3. ASSUME NEW op \in {"DeleteFlag", "DeleteRule", "DeleteSegment"}, Exec(s, op) PROVE FK(s)
  <2>1. req[s] \in Requests /\ req[s].op = op
    BY <1>1, <1>3, AtExecOwn
  <2>2. Serial
    BY <2>1, Distinctions DEF RefInv, Sent, Quiet, QuietOps
  <2> QED BY <1>1, <1>3, <2>2 DEF OneConnection, Exec, At, FK
<1>4. CASE Validate(s) \/ Acquire(s)
  BY <1>1, <1>4, ValidateOwn, AcquireOwn
<1>5. CASE Read(s)
  BY <1>1, <1>5, ReadFlagRowOwn, ReadRulesOwn, ReadLinksOwn, ReadSegmentRowOwn,
     ReadSegmentCondsOwn, CountLinksOwn DEF Read
<1>6. CASE ExecCreateFlag(s) \/ ExecUpdateFlag(s) \/ ExecToggleFlag(s)
  BY <1>1, <1>6, ExecCreateFlagOwn, ExecUpdateFlagOwn, ExecToggleFlagOwn
<1>7. CASE ExecDeleteFlag(s)
  BY <1>1, <1>3, <1>7, ExecDeleteFlagOwn DEF ExecDeleteFlag
<1>8. CASE ExecDeleteRule(s)
  BY <1>1, <1>3, <1>8, ExecDeleteRuleOwn DEF ExecDeleteRule
<1>9. CASE ExecDeleteSegment(s)
  BY <1>1, <1>3, <1>9, ExecDeleteSegmentOwn DEF ExecDeleteSegment
<1>10. CASE ValidateSegmentKeys(s) \/ WriteTransaction(s) \/ Commit(s) \/ Busy(s)
  BY <1>1, <1>10, ValidateSegmentKeysOwn, WriteTransactionOwn, CommitOwn, BusyOwn
<1> QED BY <1>2, <1>4, <1>5, <1>6, <1>7, <1>8, <1>9, <1>10 DEF Step, Write

-----------------------------------------------------------------------------
(* A step of another session. *)

Proceeds(s) == \/ \E p, v : Goto(s, p, v)
               \/ \E st, b : Finish(s, st, b)

\* Every read goes on or answers.
LEMMA FlagReadProceeds ==
  ASSUME NEW s \in Sessions, req[s].op \in FlagOps, NEW v, FlagRead(s, v)
  PROVE  Proceeds(s)
<1>1. CASE req[s].op \in {"GetFlag", "ToggleFlag"}
  BY <1>1 DEF FlagRead, Proceeds
<1>2. CASE req[s].op = "UpdateFlag"
  BY <1>2 DEF FlagRead, Proceeds
<1>3. CASE req[s].op = "CreateRule"
  BY <1>3 DEF FlagRead, Proceeds
<1>4. CASE req[s].op = "Evaluate"
  BY <1>4 DEF FlagRead, Proceeds
<1> QED BY <1>1, <1>2, <1>3, <1>4 DEF FlagOps

LEMMA SegmentReadProceeds ==
  ASSUME NEW s \in Sessions, req[s].op \in {"GetSegment", "UpdateSegment", "Evaluate"},
         NEW v, NEW g, SegmentRead(s, v, g)
  PROVE  Proceeds(s)
<1>1. CASE req[s].op = "GetSegment"
  BY <1>1 DEF SegmentRead, Proceeds
<1>2. CASE req[s].op = "UpdateSegment"
  BY <1>2 DEF SegmentRead, Proceeds
<1>3. CASE req[s].op = "Evaluate"
  <2>1. FlagRead(s, v)
    BY <1>3 DEF SegmentRead
  <2> QED BY <1>3, <2>1, FlagReadProceeds DEF FlagOps
<1> QED BY <1>1, <1>2, <1>3

LEMMA ReadProceeds ==
  ASSUME NEW s \in Sessions, StoreInv, Read(s)
  PROVE  Proceeds(s)
<1>1. pc[s] \in Statements /\ pc[s] \in Running
  BY DEF Read, ReadFlagRow, ReadRules, ReadLinks, ReadSegmentRow, ReadSegmentConds, CountLinks,
         At, Statements, Reads, Running
<1>2. Fits(pc[s], req[s], view[s])
  BY <1>1, Unanswered DEF Statements, Reads
<1>3. CASE ReadFlagRow(s) \/ CountLinks(s)
  BY <1>3 DEF ReadFlagRow, CountLinks, Proceeds
<1>4. CASE ReadRules(s)
  <2>1. req[s].op \in FlagOps
    BY <1>2, <1>4 DEF ReadRules, At, Fits, OpsAt
  <2>2. Proceeds(s) \/ \E v : FlagRead(s, v)
    BY <1>4 DEF ReadRules, Proceeds
  <2> QED BY <2>1, <2>2, FlagReadProceeds
<1>5. CASE ReadLinks(s)
  <2>1. req[s].op \in FlagOps
    BY <1>2, <1>5 DEF ReadLinks, At, Fits, OpsAt
  <2>2. \E v : FlagRead(s, v)
    BY <1>5 DEF ReadLinks
  <2> QED BY <2>1, <2>2, FlagReadProceeds
<1>6. CASE ReadSegmentRow(s)
  <2>1. req[s].op \in {"GetSegment", "UpdateSegment", "Evaluate"}
    BY <1>2, <1>6 DEF ReadSegmentRow, At, Fits, OpsAt
  <2>2. Proceeds(s) \/ \E v, g : SegmentRead(s, v, g)
    BY <1>6 DEF ReadSegmentRow, Proceeds
  <2> QED BY <2>1, <2>2, SegmentReadProceeds
<1>7. CASE ReadSegmentConds(s)
  <2>1. req[s].op \in {"GetSegment", "UpdateSegment", "Evaluate"}
    BY <1>2, <1>7 DEF ReadSegmentConds, At, Fits, OpsAt
  <2>2. \E v, g : SegmentRead(s, v, g)
    BY <1>7 DEF ReadSegmentConds
  <2> QED BY <2>1, <2>2, SegmentReadProceeds
<1> QED BY <1>3, <1>4, <1>5, <1>6, <1>7 DEF Read

\* The other sessions stay where they are.
Waits(t) == /\ pc'[t] = pc[t] /\ req'[t] = req[t] /\ view'[t] = view[t] /\ out'[t] = out[t]

\* And changes nothing of what another session is at.
LEMMA OthersWait ==
  ASSUME NEW s \in Sessions, StoreInv,
         Step(s) \/ ReadFails(s) \/ (\E r \in Workload : Start(s, r)),
         NEW t \in Sessions \ {s}
  PROVE  Waits(t)
<1>1. Shaped
  BY DEF StoreInv
<1>2. Proceeds(s) => pc'[t] = pc[t] /\ view'[t] = view[t] /\ out'[t] = out[t]
  BY <1>1 DEF Proceeds, Goto, Finish, Shaped
<1>3. CASE Read(s)
  <2>1. UNCHANGED req
    BY <1>3 DEF Read, ReadFlagRow, ReadRules, ReadLinks, ReadSegmentRow, ReadSegmentConds,
                CountLinks, ReadOnly
  <2> QED BY <1>2, <1>3, <2>1, ReadProceeds DEF Waits
<1>4. CASE \/ ExecCreateFlag(s) \/ ExecUpdateFlag(s) \/ ExecDeleteFlag(s)
           \/ ExecToggleFlag(s) \/ ExecDeleteRule(s) \/ ExecDeleteSegment(s)
  <2>1. UNCHANGED req /\ Proceeds(s)
    BY <1>4 DEF ExecCreateFlag, ExecUpdateFlag, ExecDeleteFlag, ExecToggleFlag, ExecDeleteRule,
                ExecDeleteSegment, Exec, Proceeds
  <2> QED BY <1>2, <2>1 DEF Waits
<1>5. CASE \/ ValidateSegmentKeys(s) \/ WriteTransaction(s) \/ Busy(s) \/ Commit(s)
           \/ ReadFails(s)
  <2>1. UNCHANGED req /\ (Proceeds(s) \/ Commit(s))
    BY <1>5 DEF ValidateSegmentKeys, WriteTransaction, Busy, ReadFails, Commit, Abort, Proceeds
  <2>2. Commit(s) => Proceeds(s)
    BY CommitEnds DEF Proceeds
  <2> QED BY <1>2, <2>1, <2>2 DEF Waits
<1>6. CASE Validate(s)
  <2>1. UNCHANGED req /\ Proceeds(s)
    BY <1>6 DEF Validate, Proceeds
  <2> QED BY <1>2, <2>1 DEF Waits
<1>7. CASE Acquire(s)
  BY <1>7 DEF Acquire, Waits
<1>8. CASE Respond(s)
  BY <1>1, <1>8 DEF Respond, Shaped, Waits
<1>9. CASE \E r \in Workload : Start(s, r)
  BY <1>1, <1>2, <1>9 DEF Start, Proceeds, Shaped, Waits
<1> QED BY <1>3, <1>4, <1>5, <1>6, <1>7, <1>8, <1>9 DEF Step, Write

\* Database e has the flags and segments of d, the flags with their types.
Keeps(d, e) ==
  /\ \A f \in FlagKeys : HasFlag(d, f) => HasFlag(e, f) /\ e.flags[f].type = d.flags[f].type
  /\ d.segs \subseteq e.segs

\* What quiet requests have read stays so.
LEMMA KnowsKept ==
  ASSUME NEW d, NEW e, NEW p, NEW r \in Requests, NEW v, r.op \in QuietOps,
         r.op = "UpdateSegment" => r.text # Absent /\ r.conds # Absent,
         Knows(d, p, r, v), Keeps(d, e)
  PROVE  Knows(e, p, r, v)
<1>1. r.op = "CreateRule" => r.flag \in FlagKeys
  BY RequestShape
<1> QED BY <1>1 DEF Knows, Keeps, QuietOps

\* What a transaction writes keeps every flag and segment.
LEMMA WrittenKeeps ==
  ASSUME NEW s \in Sessions, db \in Database, req[s].op \in RuleOps \cup SegmentOps,
         NEW e, e = Written(s), e # Absent
  PROVE  e.flags = db.flags /\ db.segs \subseteq e.segs
<1> DEFINE r == req[s]
<1>1. CASE r.op = "CreateRule"
  <2>1. e = InsertRule(db, RuleRowOf(r), r.conds, r.segs, FK(s))
    BY <1>1 DEF Written
  <2> QED BY <2>1 DEF InsertRule, Database
<1>2. CASE r.op = "UpdateRule"
  <2>1. e = RewriteRule(db, r.rule, RuleRowOf(r), r.conds, r.segs, FK(s))
    BY <1>2 DEF Written
  <2> QED BY <2>1 DEF RewriteRule, Database
<1>3. CASE r.op = "CreateSegment"
  <2>1. e = InsertSegment(db, r.segment, r.text, r.conds)
    BY <1>3 DEF Written
  <2> QED BY <2>1 DEF InsertSegment, Database
<1>4. CASE r.op = "UpdateSegment"
  <2>1. PICK text : e = RewriteSegment(db, r.segment, text, r.conds, FK(s))
    BY <1>4 DEF Written
  <2> QED BY <2>1 DEF RewriteSegment, Database
<1> QED BY <1>1, <1>2, <1>3, <1>4 DEF RuleOps, SegmentOps

\* Quiet requests take neither flags nor segments away.
LEMMA QuietKeeps ==
  ASSUME NEW s \in Sessions, StoreInv, Sent, Quiet, Step(s) \/ ReadFails(s)
  PROVE  Keeps(db, db')
<1> DEFINE r == req[s]
<1>1. db' = db => Keeps(db, db')
  BY DEF Keeps
<1>2. CASE Read(s)
  BY <1>1, <1>2 DEF Read, ReadFlagRow, ReadRules, ReadLinks, ReadSegmentRow, ReadSegmentConds,
                    CountLinks, ReadOnly
<1>3. CASE Validate(s) \/ Acquire(s) \/ Respond(s)
  BY <1>1, <1>3 DEF Validate, Acquire, Respond
<1>4. CASE ValidateSegmentKeys(s) \/ WriteTransaction(s) \/ Busy(s) \/ ReadFails(s)
  BY <1>1, <1>4 DEF ValidateSegmentKeys, WriteTransaction, Busy, ReadFails, Abort
<1>5. CASE ExecCreateFlag(s)
  <2>1. r \in Requests /\ r.op = "CreateFlag" /\ db \in Database
    BY <1>5, AtExecOwn DEF ExecCreateFlag
  <2>2. r.flag \in FlagKeys
    BY <2>1, RequestShape
  <2>3. CASE HasFlag(db, r.flag)
    BY <1>1, <1>5, <2>3 DEF ExecCreateFlag, NoRow
  <2>4. CASE ~HasFlag(db, r.flag)
    <3>1. db' = PutFlag(db, r.flag, FlagRowOf(r))
      BY <1>5, <2>4 DEF ExecCreateFlag, Install
    <3>2. /\ \A f \in FlagKeys \ {r.flag} : db'.flags[f] = db.flags[f]
          /\ db'.segs = db.segs
      BY <2>1, <3>1 DEF PutFlag, Database
    <3> QED BY <2>2, <2>4, <3>2 DEF Keeps, HasFlag
  <2> QED BY <2>3, <2>4
<1>6. CASE \/ ExecUpdateFlag(s) \/ ExecToggleFlag(s) \/ ExecDeleteFlag(s)
           \/ ExecDeleteRule(s) \/ ExecDeleteSegment(s)
  <2>1. \E op \in {"UpdateFlag", "ToggleFlag", "DeleteFlag", "DeleteRule", "DeleteSegment"} :
          Exec(s, op)
    BY <1>6 DEF ExecUpdateFlag, ExecToggleFlag, ExecDeleteFlag, ExecDeleteRule,
                ExecDeleteSegment
  <2>2. r \in Requests /\ r.op \notin QuietOps
    BY <2>1, AtExecOwn DEF QuietOps
  <2> QED BY <2>2, Distinctions DEF Quiet, Sent
<1>7. CASE Commit(s)
  <2>1. pc[s] = "commit" /\ pc[s] \in Running /\ db \in Database /\ SessionInv(s)
    BY <1>7 DEF Commit, At, Running, Statements, StoreInv
  <2>2. work[s] = Written(s) /\ work[s] # Absent
    BY <2>1 DEF SessionInv, Isolated, Placed
  <2>3. r.op \in RuleOps \cup SegmentOps
    BY <2>1, Unanswered DEF Fits, OpsAt
  <2>4. db' = work[s]
    BY <1>7 DEF Commit, Install
  <2>5. db'.flags = db.flags /\ db.segs \subseteq db'.segs
    BY <2>1, <2>2, <2>3, <2>4, WrittenKeeps
  <2> QED BY <2>5 DEF Keeps, HasFlag
<1> QED BY <1>2, <1>3, <1>4, <1>5, <1>6, <1>7 DEF Step, Write

\* What the others have read stays so, and so do their answers.
LEMMA OthersKnow ==
  ASSUME NEW s \in Sessions, RefInv, Serial \/ Quiet,
         Step(s) \/ ReadFails(s) \/ (\E r \in Workload : Start(s, r)),
         NEW t \in Sessions \ {s}
  PROVE  Known(t)' /\ Reply(t)' = Reply(t)
<1>1. StoreInv /\ Sent /\ Known(t) /\ Waits(t) /\ Quiet
  BY OthersWait DEF RefInv, Serial
<1>2. Keeps(db, db')
  <2>1. db' = db => Keeps(db, db')
    BY DEF Keeps
  <2> QED BY <1>1, <2>1, QuietKeeps DEF Start
<1>3. req[t] # Absent =>
        /\ req[t].op \in QuietOps
        /\ req[t].op = "UpdateSegment" => req[t].text # Absent /\ req[t].conds # Absent
  BY <1>1 DEF Quiet, Sent
<1>4. Known(t)'
  <2> SUFFICES ASSUME pc[t] \in Statements PROVE Knows(db', pc[t], req[t], view[t])
    BY <1>1 DEF Known, Waits
  <2>1. req[t] \in Requests /\ req[t] # Absent
    BY <1>1, Unanswered DEF Running
  <2> QED BY <1>1, <1>2, <1>3, <2>1, KnowsKept DEF Known
<1>5. Reply(t)' = Reply(t)
  <2>1. ~ReadingBack(t)
    BY <1>3 DEF ReadingBack, Op, QuietOps
  <2>2. ReadingBack(t)' <=> ReadingBack(t)
    BY <1>1 DEF Waits, ReadingBack, Op
  <2> QED BY <1>1, <2>1, <2>2 DEF Reply, Waits
<1> QED BY <1>4, <1>5

-----------------------------------------------------------------------------
(* The refinement. *)

Replies == [s \in Sessions |-> Reply(s)]

\* The answer that one step gives.
LEMMA OneReplies ==
  ASSUME NEW s \in Sessions, NEW a, Reply(s)' = a,
         \A t \in Sessions \ {s} : Reply(t)' = Reply(t)
  PROVE  Replies' = [Replies EXCEPT ![s] = a]
BY DEF Replies

\* A step that has the effect and the answer is the one of the catalogue.
LEMMA TakesEffect ==
  ASSUME NEW s \in Sessions, StoreInv, req[s] # Absent, Effective(s),
         \A t \in Sessions \ {s} : Reply(t)' = Reply(t)
  PROVE  Abstract!TakeEffect(s)
<1> DEFINE a == Abstract!Perform(db, req[s]).answer
<1>1. /\ Reply(s) = NoReply /\ RuleIdLeft(db, req[s]) /\ UNCHANGED req
      /\ Abstract!Perform(db, req[s]).db = db' /\ Reply(s)' = a
  BY DEF Effective, Performs
<1> HIDE DEF a
<1>2. Replies' = [Replies EXCEPT ![s] = a]
  BY <1>1 DEF Replies
<1>3. Replies[s] = NoReply
  BY <1>1 DEF Replies
<1>4. Abstract!NoReply = NoReply /\ Abstract!RuleIdLeft(db, req[s])
  BY <1>1 DEF Abstract!NoReply, Abstract!Answer, Abstract!NoBody, NoReply, Answer, NoBody,
              Abstract!RuleIdLeft, Abstract!RuleIds, RuleIdLeft, RuleIds
<1> QED BY <1>1, <1>2, <1>3, <1>4 DEF Abstract!TakeEffect, Replies, a

\* So is one that fails.
LEMMA Fails ==
  ASSUME NEW s \in Sessions, req[s] # Absent, Aborted(s),
         \A t \in Sessions \ {s} : Reply(t)' = Reply(t)
  PROVE  Abstract!Fail(s)
<1> DEFINE a == Answer(ErrorStatus(req[s].op), NoBody)
<1>1. Reply(s) = NoReply /\ UNCHANGED <<db, req>> /\ Reply(s)' = a
  BY DEF Aborted
<1>2. a = Abstract!Answer(Abstract!ErrorStatus(req[s].op), Abstract!NoBody)
  BY DEF Abstract!Answer, Abstract!NoBody, Abstract!ErrorStatus, Answer, NoBody, ErrorStatus
<1>3. Abstract!NoReply = NoReply
  BY DEF Abstract!NoReply, Abstract!Answer, Abstract!NoBody, NoReply, Answer, NoBody
<1> HIDE DEF a
<1>4. Replies' = [Replies EXCEPT ![s] = a] /\ Replies[s] = NoReply
  BY <1>1 DEF Replies
<1> QED BY <1>1, <1>2, <1>3, <1>4 DEF Abstract!Fail, Replies

\* So is one that leaves a toggle without its answer.
LEMMA FailsReadingBack ==
  ASSUME NEW s \in Sessions, req[s] # Absent, Unreported(s),
         \A t \in Sessions \ {s} : Reply(t)' = Reply(t)
  PROVE  Abstract!ReadBackFails(s)
<1> DEFINE a == Answer(500, NoBody)
<1>1. /\ Reply(s) # NoReply /\ UNCHANGED <<db, req>> /\ Reply(s)' = a
      /\ req[s].op = "ToggleFlag"
  BY DEF Unreported, Op
<1>2. a = Abstract!Answer(500, Abstract!NoBody)
  BY DEF Abstract!Answer, Abstract!NoBody, Answer, NoBody
<1>3. Abstract!NoReply = NoReply
  BY DEF Abstract!NoReply, Abstract!Answer, Abstract!NoBody, NoReply, Answer, NoBody
<1> HIDE DEF a
<1>4. Replies' = [Replies EXCEPT ![s] = a] /\ Replies[s] # NoReply
  BY <1>1 DEF Replies
<1> QED BY <1>1, <1>2, <1>3, <1>4 DEF Abstract!ReadBackFails, Replies

\* A step of a session is a step of the catalogue or none.
LEMMA StepImplements ==
  ASSUME NEW s \in Sessions, RefInv, Serial \/ Quiet, Step(s) \/ ReadFails(s)
  PROVE  (\A t \in Sessions : Known(t)')
         /\ (UNCHANGED Abstract!cvars \/ Abstract!TakeEffect(s) \/ Abstract!Fail(s)
               \/ Abstract!ReadBackFails(s) \/ Abstract!Return(s))
<1>1. \A t \in Sessions \ {s} : Known(t)' /\ Reply(t)' = Reply(t)
  BY OthersKnow
<1>2. StoreInv /\ SessionInv(s) /\ Shaped
  BY DEF RefInv, StoreInv
<1>3. CASE Respond(s)
  <2>1. pc[s] = "returned" /\ out[s] # NoReply /\ pc'[s] = "idle" /\ req'[s] = Absent
        /\ out'[s] = NoReply /\ db' = db /\ req' = [req EXCEPT ![s] = Absent]
    BY <1>2, <1>3 DEF Respond, SessionInv, Placed, Shaped
  <2>2. Known(s)'
    BY <2>1 DEF Known, Statements, Reads
  <2>3. Reply(s) # NoReply /\ Reply(s)' = NoReply
    BY <2>1 DEF Reply, ReadingBack
  <2>4. Replies[s] # NoReply
    BY <2>3 DEF Replies
  <2>5. Abstract!NoReply = NoReply
    BY DEF Abstract!NoReply, Abstract!Answer, Abstract!NoBody, NoReply, Answer, NoBody
  <2>6. Replies' = [Replies EXCEPT ![s] = NoReply]
    BY <1>1, <2>3, OneReplies
  <2>7. Abstract!Return(s)
    BY <2>1, <2>4, <2>5, <2>6 DEF Abstract!Return, Replies
  <2> QED BY <1>1, <2>2, <2>7
<1>4. CASE ~Respond(s)
  <2>1. Own(s)
    BY <1>4, StepOwn
  <2>2. CASE Same(s)
    <3>1. Replies' = Replies
      BY <1>1, <2>2 DEF Same, Replies
    <3>2. UNCHANGED Abstract!cvars
      BY <2>2, <3>1 DEF Same, Abstract!cvars, Replies
    <3> QED BY <1>1, <2>1, <3>2 DEF Own
  <2>3. req[s] # Absent
    <3>1. pc[s] # "idle"
      BY <1>4 DEF Step, Validate, Acquire, Read, Write, ReadFlagRow, ReadRules, ReadLinks,
           ReadSegmentRow, ReadSegmentConds, CountLinks, ExecCreateFlag, ExecUpdateFlag,
           ExecDeleteFlag, ExecToggleFlag, ExecDeleteRule, ExecDeleteSegment, Exec,
           ValidateSegmentKeys, WriteTransaction, Commit, Busy, ReadFails, At, Statements, Reads
    <3> QED BY <1>2, <3>1 DEF SessionInv, Placed
  <2>4. CASE Effective(s)
    BY <1>1, <1>2, <2>1, <2>3, <2>4, TakesEffect DEF Own
  <2>5. CASE Aborted(s)
    BY <1>1, <2>1, <2>3, <2>5, Fails DEF Own
  <2>6. CASE Unreported(s)
    BY <1>1, <2>1, <2>3, <2>6, FailsReadingBack DEF Own
  <2> QED BY <2>1, <2>2, <2>4, <2>5, <2>6 DEF Own
<1> QED BY <1>3, <1>4

\* Cardinality is the same in both.
LEMMA SameCardinality == \A S : Abstract!Cardinality(S) = Cardinality(S)
BY DEF Abstract!Cardinality, Cardinality

\* A request arrives.
LEMMA StartImplements ==
  ASSUME NEW s \in Sessions, RefInv, Serial \/ Quiet, NEW r \in Workload, Start(s, r)
  PROVE  (\A t \in Sessions : Known(t)') /\ Abstract!Call(s, r)
<1>1. \A t \in Sessions \ {s} : Known(t)' /\ Reply(t)' = Reply(t)
  BY OthersKnow
<1>2. StoreInv /\ SessionInv(s) /\ Shaped
  BY DEF RefInv, StoreInv
<1>3. /\ pc[s] = "idle" /\ req[s] = Absent /\ pc'[s] = "handler" /\ out'[s] = out[s]
      /\ db' = db /\ req' = [req EXCEPT ![s] = r]
  BY <1>2 DEF Start, Goto, SessionInv, Placed, Shaped
<1>4. Known(s)'
  BY <1>3 DEF Known, Statements, Reads
<1>5. Reply(s)' = Reply(s)
  BY <1>3 DEF Reply, ReadingBack
<1>6. Replies' = Replies
  BY <1>1, <1>5 DEF Replies
<1>7. Abstract!Claimed(req) = CreatingRules
  BY DEF Abstract!Claimed, CreatingRules, Op
<1>8. r.op = "CreateRule" => db.nextRule + Cardinality(CreatingRules) <= MaxRule
  BY DEF Start
<1>9. r.op = "CreateRule" => db.nextRule + Abstract!Cardinality(Abstract!Claimed(req)) <= MaxRule
  BY <1>7, <1>8, SameCardinality
<1>10. Abstract!Call(s, r)
  BY <1>3, <1>6, <1>9 DEF Abstract!Call, Replies
<1> QED BY <1>1, <1>4, <1>10

\* Nothing is promised to anyone when no session is at work.
LEMMA RestedImplements ==
  ASSUME out = [s \in Sessions |-> NoReply], pc = [s \in Sessions |-> "idle"], req = Nobody
  PROVE  /\ req = [s \in Sessions |-> Absent]
         /\ Replies = [s \in Sessions |-> Abstract!NoReply]
         /\ \A s \in Sessions : Known(s)
<1>1. \A s \in Sessions : Reply(s) = NoReply
  BY DEF Reply, ReadingBack
<1>2. Abstract!NoReply = NoReply
  BY DEF Abstract!NoReply, Abstract!Answer, Abstract!NoBody, NoReply, Answer, NoBody
<1>3. \A s \in Sessions : Known(s)
  BY DEF Known, Statements, Reads
<1> QED BY <1>1, <1>2, <1>3 DEF Replies, Nobody

\* The server starts.
LEMMA InitImplements == Init => RefInv /\ Abstract!Init
<1> SUFFICES ASSUME Init PROVE RefInv /\ Abstract!Init
  OBVIOUS
<1>1. /\ req = [s \in Sessions |-> Absent]
      /\ Replies = [s \in Sessions |-> Abstract!NoReply]
      /\ \A s \in Sessions : Known(s)
  BY RestedImplements DEF Init
<1>2. OneConnection
  BY DEF Init, OneConnection, Nobody, Kinds
<1>3. Abstract!Init
  BY <1>1 DEF Init, Abstract!Init, Replies
<1>4. Sent
  BY DEF Init, Sent, Nobody
<1> QED BY <1>1, <1>2, <1>3, <1>4, InitInv DEF RefInv

\* The process dies and is started again.
LEMMA CrashImplements ==
  ASSUME Crash
  PROVE  (\A s \in Sessions : Known(s)') /\ Abstract!Crash
<1>1. out' = [s \in Sessions |-> NoReply] /\ pc' = [s \in Sessions |-> "idle"] /\ req' = Nobody
      /\ db' = db
  BY DEF Crash
<1>2. \A s \in Sessions : Reply(s)' = NoReply
  BY <1>1 DEF Reply, ReadingBack
<1>3. Abstract!NoReply = NoReply
  BY DEF Abstract!NoReply, Abstract!Answer, Abstract!NoBody, NoReply, Answer, NoBody
<1>4. Replies' = [s \in Sessions |-> Abstract!NoReply]
  BY <1>2, <1>3 DEF Replies
<1>5. \A s \in Sessions : Known(s)'
  BY <1>1 DEF Known, Statements, Reads
<1> QED BY <1>1, <1>4, <1>5 DEF Abstract!Crash, Replies, Nobody

\* Nothing happens.
LEMMA StutterImplements ==
  ASSUME RefInv, UNCHANGED vars
  PROVE  (\A s \in Sessions : Known(s)') /\ UNCHANGED Abstract!cvars
<1>1. UNCHANGED <<db, req, pc, view, out>>
  BY DEF vars
<1>2. \A s \in Sessions : Known(s)'
  BY <1>1 DEF RefInv, Known
<1>3. \A s \in Sessions : Reply(s)' = Reply(s)
  BY <1>1 DEF Reply, ReadingBack, Op
<1> QED BY <1>1, <1>2, <1>3 DEF Abstract!cvars

\* The invariant is inductive, and every step is one of the catalogue or none.
LEMMA StepRefines ==
  ASSUME RefInv, [Next]_vars, Serial \/ Quiet
  PROVE  RefInv' /\ [Abstract!Next]_(Abstract!cvars)
<1>1. StoreInv' /\ Sent' /\ OneConnection'
  BY NextPreserves, OneConnectionPreserved DEF RefInv
<1>2. ASSUME NEW s \in Sessions, Step(s) \/ ReadFails(s)
      PROVE  (\A t \in Sessions : Known(t)') /\ (Abstract!Next \/ UNCHANGED Abstract!cvars)
  BY <1>2, StepImplements DEF Abstract!Next
<1>3. ASSUME NEW s \in Sessions, NEW r \in Workload, Start(s, r)
      PROVE  (\A t \in Sessions : Known(t)') /\ Abstract!Next
  BY <1>3, StartImplements DEF Abstract!Next
<1>4. CASE Crash
  BY <1>1, <1>4, CrashImplements DEF Abstract!Next, RefInv
<1>5. CASE UNCHANGED vars
  BY <1>1, <1>5, StutterImplements DEF RefInv
<1> QED BY <1>1, <1>2, <1>3, <1>4, <1>5 DEF Next, RefInv

\* The store implements the catalogue, for any keys, values, stored databases and
\* number of sessions, where requests come one at a time, so that every statement
\* runs on the connection that enforces foreign keys, and where they overlap on
\* any connections, fail with SQLITE_BUSY and are cut off by a crash, as long as
\* they are quiet: each request takes effect at one instant, entirely or not at
\* all, and its answer is the one for that instant.  Quiet requests are creations,
\* UpdateRule, and UpdateSegment that names both fields; any read may fail, and of
\* a toggle the one after its UPDATE.
THEOREM StoreImplementsCatalog ==
  ASSUME Serial \/ Quiet
  PROVE  Spec => ImplementsCatalog
<1>1. RefInv /\ [Next]_vars => RefInv' /\ [Abstract!Next]_(Abstract!cvars)
  BY StepRefines
<1> QED BY InitImplements, <1>1, PTL DEF Spec, ImplementsCatalog, Abstract!CatalogSpec

-----------------------------------------------------------------------------
(* What is proved of the catalogue holds of the store that implements it. *)

Theory == INSTANCE CatalogProofs WITH cdb <- db, call <- req, reply <- Replies

\* The schema and the requests are the same in both, and so are the assumptions.
LEMMA SameSchema ==
  /\ Theory!RuleIds = RuleIds /\ Theory!FlagRow = FlagRow /\ Theory!RuleRow = RuleRow
  /\ Theory!Database = Database
<1>1. Theory!RuleIds = RuleIds /\ Theory!FlagRow = FlagRow /\ Theory!RuleRow = RuleRow
  BY DEF Theory!RuleIds, RuleIds, Theory!FlagRow, FlagRow, Theory!RuleRow, RuleRow
<1> QED BY <1>1 DEF Theory!Database, Database

LEMMA SameSound ==
  ASSUME NEW d
  PROVE  /\ Theory!ReferentialIntegrity(d) = ReferentialIntegrity(d)
         /\ Theory!IdsFresh(d) = IdsFresh(d)
         /\ Theory!Guarded(d) = Guarded(d)
         /\ Theory!DefaultsTyped(d) = DefaultsTyped(d)
BY SameSchema
   DEF Theory!ReferentialIntegrity, ReferentialIntegrity, Theory!IdsFresh, IdsFresh,
       Theory!Guarded, Guarded, Theory!DefaultsTyped, DefaultsTyped, Theory!HasFlag, HasFlag,
       Theory!LinksOf, LinksOf

LEMMA SameRequests == Theory!Requests = Requests
<1>1. \A op, ids : Theory!RuleBody(op, ids) = RuleBody(op, ids)
  BY DEF Theory!RuleBody, RuleBody
<1>2. \A ops : Theory!FlagRequest(ops) = FlagRequest(ops)
  BY DEF Theory!FlagRequest, FlagRequest
<1>3. \A ops : Theory!SegmentRequest(ops) = SegmentRequest(ops)
  BY DEF Theory!SegmentRequest, SegmentRequest
<1>4. \A op, none : Theory!SegmentBody(op, none) = SegmentBody(op, none)
  BY DEF Theory!SegmentBody, SegmentBody
<1>5. \A conds : Theory!Contexts(conds) = Contexts(conds)
  BY DEF Theory!Contexts, Contexts, Theory!NoEntity, NoEntity
<1> QED BY <1>1, <1>2, <1>3, <1>4, <1>5, SameSchema DEF Theory!Requests, Requests

LEMMA SameAssumptions ==
  /\ Absent \notin Theory!FlagRow \cup Theory!RuleRow \cup Theory!Database \cup Descriptions
  /\ Malformed \cap Conditions = {}
  /\ Absent \notin Values /\ Absent \notin BOOLEAN /\ Absent \notin Theory!Requests
  /\ Workload \subseteq Theory!Requests
  /\ \A d \in Stored : /\ d \in Theory!Database
                       /\ Theory!ReferentialIntegrity(d) /\ Theory!IdsFresh(d)
                       /\ Theory!Guarded(d) /\ Theory!DefaultsTyped(d)
BY SameSchema, SameSound, SameRequests, AbsentAssumption, RequestsAssumption

\* Every request leaves the same database in both.
LEMMA SameFlagOperations ==
  ASSUME NEW d, NEW r
  PROVE  /\ Theory!CreateFlag(d, r).db = Abstract!CreateFlag(d, r).db
         /\ Theory!UpdateFlag(d, r).db = Abstract!UpdateFlag(d, r).db
         /\ Theory!DeleteFlag(d, r).db = Abstract!DeleteFlag(d, r).db
         /\ Theory!ToggleFlag(d, r).db = Abstract!ToggleFlag(d, r).db
<1> USE DEF Theory!Effect, Abstract!Effect, Theory!Shows, Abstract!Shows,
            Theory!HasFlag, Abstract!HasFlag, Theory!PutFlag, Abstract!PutFlag
<1>1. Theory!CreateFlag(d, r).db = Abstract!CreateFlag(d, r).db
  BY DEF Theory!CreateFlag, Abstract!CreateFlag, Theory!ValidFlag, Abstract!ValidFlag,
         Theory!FlagRowOf, Abstract!FlagRowOf
<1>2. Theory!UpdateFlag(d, r).db = Abstract!UpdateFlag(d, r).db
  BY DEF Theory!UpdateFlag, Abstract!UpdateFlag, Theory!Merge, Abstract!Merge
<1>3. Theory!DeleteFlag(d, r).db = Abstract!DeleteFlag(d, r).db
  BY DEF Theory!DeleteFlag, Abstract!DeleteFlag, Theory!DropFlag, Abstract!DropFlag,
         Theory!DropRules, Abstract!DropRules, Theory!RulesOf, Abstract!RulesOf,
         Theory!HasRule, Abstract!HasRule, Theory!RuleIds, Abstract!RuleIds
<1>4. Theory!ToggleFlag(d, r).db = Abstract!ToggleFlag(d, r).db
  BY DEF Theory!ToggleFlag, Abstract!ToggleFlag, Theory!Toggle, Abstract!Toggle
<1> QED BY <1>1, <1>2, <1>3, <1>4

LEMMA SameRuleOperations ==
  ASSUME NEW d, NEW r
  PROVE  /\ Theory!CreateRule(d, r).db = Abstract!CreateRule(d, r).db
         /\ Theory!UpdateRule(d, r).db = Abstract!UpdateRule(d, r).db
         /\ Theory!DeleteRule(d, r).db = Abstract!DeleteRule(d, r).db
<1> USE DEF Theory!Effect, Abstract!Effect, Theory!HasFlag, Abstract!HasFlag, Theory!HasRule,
            Abstract!HasRule, Theory!ValidRule, Abstract!ValidRule, Theory!ValidConditions,
            Abstract!ValidConditions, Theory!RuleRowOf, Abstract!RuleRowOf, Theory!BadLinks,
            Abstract!BadLinks, Theory!Distinct, Abstract!Distinct, Theory!KeysIn, Abstract!KeysIn
<1>1. Theory!CreateRule(d, r).db = Abstract!CreateRule(d, r).db
  BY DEF Theory!CreateRule, Abstract!CreateRule, Theory!InsertRule, Abstract!InsertRule
<1>2. Theory!UpdateRule(d, r).db = Abstract!UpdateRule(d, r).db
  BY DEF Theory!UpdateRule, Abstract!UpdateRule, Theory!RewriteRule, Abstract!RewriteRule
<1>3. Theory!DeleteRule(d, r).db = Abstract!DeleteRule(d, r).db
  BY DEF Theory!DeleteRule, Abstract!DeleteRule, Theory!DropRules, Abstract!DropRules,
         Theory!RuleIds, Abstract!RuleIds
<1> QED BY <1>1, <1>2, <1>3

LEMMA SameSegmentOperations ==
  ASSUME NEW d, NEW r
  PROVE  /\ Theory!CreateSegment(d, r).db = Abstract!CreateSegment(d, r).db
         /\ Theory!UpdateSegment(d, r).db = Abstract!UpdateSegment(d, r).db
         /\ Theory!DeleteSegment(d, r).db = Abstract!DeleteSegment(d, r).db
<1> USE DEF Theory!Effect, Abstract!Effect, Theory!ValidSegment, Abstract!ValidSegment,
            Theory!ValidConditions, Abstract!ValidConditions
<1>1. Theory!CreateSegment(d, r).db = Abstract!CreateSegment(d, r).db
  BY DEF Theory!CreateSegment, Abstract!CreateSegment, Theory!InsertSegment,
         Abstract!InsertSegment
<1>2. Theory!UpdateSegment(d, r).db = Abstract!UpdateSegment(d, r).db
  BY DEF Theory!UpdateSegment, Abstract!UpdateSegment, Theory!RewriteSegment,
         Abstract!RewriteSegment, Theory!Shows, Abstract!Shows, Theory!TextOf, Abstract!TextOf
<1>3. Theory!DeleteSegment(d, r).db = Abstract!DeleteSegment(d, r).db
  BY DEF Theory!DeleteSegment, Abstract!DeleteSegment, Theory!InUse, Abstract!InUse,
         Theory!DropSegment, Abstract!DropSegment, Theory!RuleIds, Abstract!RuleIds
<1> QED BY <1>1, <1>2, <1>3

LEMMA SamePerform ==
  ASSUME NEW d, NEW r \in Requests
  PROVE  Theory!Perform(d, r).db = Abstract!Perform(d, r).db
<1>1. CASE r.op \in {"CreateFlag", "UpdateFlag", "DeleteFlag", "ToggleFlag"}
  BY <1>1, SameFlagOperations DEF Theory!Perform, Abstract!Perform
<1>2. CASE r.op \in {"CreateRule", "UpdateRule", "DeleteRule"}
  BY <1>2, SameRuleOperations DEF Theory!Perform, Abstract!Perform
<1>3. CASE r.op \in {"CreateSegment", "UpdateSegment", "DeleteSegment"}
  BY <1>3, SameSegmentOperations DEF Theory!Perform, Abstract!Perform
<1>4. CASE r.op \in {"GetFlag", "GetSegment", "Evaluate"}
  BY <1>4 DEF Theory!Perform, Theory!GetFlag, Theory!GetSegment, Theory!EvaluateFlag,
              Theory!Effect, Theory!Shows, Abstract!Perform, Abstract!GetFlag,
              Abstract!GetSegment, Abstract!EvaluateFlag, Abstract!Effect, Abstract!Shows
<1> QED BY <1>1, <1>2, <1>3, <1>4, RequestShape

\* What the catalogue performs leaves a sound database sound.
LEMMA SoundPerforms ==
  ASSUME NEW d \in Database, Sound(d), NEW r \in Workload, RuleIdLeft(d, r)
  PROVE  Sound(Abstract!Perform(d, r).db)
<1>1. Theory!Sound(d) /\ Theory!RuleIdLeft(d, r)
  BY SameSchema, SameSound DEF Theory!Sound, Sound, Theory!RuleIdLeft, RuleIdLeft
<1>2. Theory!Sound(Theory!Perform(d, r).db)
  BY <1>1, SchemaAssumption, SameAssumptions, Theory!PerformSound
<1> QED BY <1>2, SamePerform, SameSound, Distinctions DEF Theory!Sound, Sound

LEMMA StepSound ==
  ASSUME RefInv, StaysSound, [Next]_vars, Serial \/ Quiet
  PROVE  StaysSound'
<1>1. db \in Database
  BY DEF RefInv, StoreInv
<1>2. ASSUME NEW s \in Sessions, Abstract!TakeEffect(s), req[s] \in Workload PROVE StaysSound'
  <2>1. db' = Abstract!Perform(db, req[s]).db /\ RuleIdLeft(db, req[s])
    BY <1>2 DEF Abstract!TakeEffect, Abstract!RuleIdLeft, Abstract!RuleIds, RuleIdLeft, RuleIds
  <2> QED BY <1>1, <1>2, <2>1, SoundPerforms DEF StaysSound
<1>3. db' = db => StaysSound'
  BY DEF StaysSound
<1>4. ASSUME NEW s \in Sessions, Step(s) \/ ReadFails(s) PROVE StaysSound'
  <2>1. UNCHANGED Abstract!cvars \/ Abstract!TakeEffect(s) \/ Abstract!Fail(s)
          \/ Abstract!ReadBackFails(s) \/ Abstract!Return(s)
    BY <1>4, StepImplements
  <2>2. Abstract!TakeEffect(s) => req[s] \in Workload
    BY DEF Abstract!TakeEffect, RefInv, Sent
  <2> QED BY <1>2, <1>3, <2>1, <2>2 DEF Abstract!cvars, Abstract!Fail, Abstract!ReadBackFails,
                                          Abstract!Return
<1> QED BY <1>3, <1>4 DEF Next, Start, Crash, vars

\* Where the store implements the catalogue its database stays sound: deletes take
\* along what refers to the deleted row, no rule and no segment is left that matches
\* everyone, and no flag has a default of another type.
THEOREM StoreStaysSound ==
  ASSUME Serial \/ Quiet
  PROVE  Spec => []StaysSound
<1>1. Init => RefInv /\ StaysSound
  BY InitImplements, RequestsAssumption DEF Init, StaysSound, Sound
<1>2. RefInv /\ StaysSound /\ [Next]_vars => RefInv' /\ StaysSound'
  BY StepRefines, StepSound
<1> QED BY <1>1, <1>2, PTL DEF Spec

-----------------------------------------------------------------------------
(* Reads that one change overlaps. *)

\* The requests that can tear a read.
Tearing == {"UpdateRule", "DeleteRule", "DeleteFlag", "DeleteSegment"}

SameSegment(d, e, g) == (g \in d.segs <=> g \in e.segs) /\ d.segConds[g] = e.segConds[g]

\* What a read at statement p, with view v, is still to read is the same in d and e.
Unread(d, e, p, v) ==
  /\ p = "flagRow" => d = e
  /\ p = "rules" => d.rules = e.rules /\ d.conds = e.conds /\ d.links = e.links
  /\ p = "links" => \A i \in DOMAIN v.rules : LinksOf(d, i) = LinksOf(e, i)
  /\ p \in {"rules", "links"} => d.segs = e.segs /\ d.segConds = e.segConds
  /\ p \in {"segRow", "segConds"} => \A g \in v.todo : SameSegment(d, e, g)

\* Request r at statement p, with view v and answer a, can be one that began and
\* ends in d, when the database is e, unless a statement of it has failed.
Stands(d, e, p, r, v, a) ==
  /\ p \in Statements => Knows(d, p, r, v) /\ Unread(d, e, p, v)
  /\ p = "returned" /\ a.status # 500 => a = Abstract!Perform(d, r).answer

StandsIn(s, d) == Stands(d, db, pc[s], req[s], view[s], out[s])

\* What flag n of batch b evaluates to on d.
Result(d, b, n) == Abstract!Perform(d, Asking(b, n)).answer

\* The first m results are those of d, the rest those of e.
Splits(res, b, m, d, e) ==
  \A n \in 1 .. Len(res) : res[n] = IF n <= m THEN Result(d, b, n) ELSE Result(e, b, n)

\* The first m results of s are those of d, the rest those of the database now,
\* in which the read under way stands, or still in d when the rest are none.
SplitsAt(s, m, d) ==
  /\ Splits(results[s], batch[s], m, d, db)
  /\ StandsIn(s, db) \/ (m = Len(results[s]) /\ StandsIn(s, d))

\* One change at most overlaps the read that s serves.
Forward(s) == past[s] # <<>> =>
  /\ Op(s) \in Readers
  /\ past[s] = <<db>> \/ past[s] = <<past[s][1], db>>
  /\ \E m \in 0 .. Len(results[s]) : SplitsAt(s, m, past[s][1])

\* The results of a session are those of its batch.
Counted(s) ==
  /\ batch[s] = Absent => results[s] = <<>>
  /\ batch[s] # Absent => /\ batch[s] \in Batches /\ asked[s] \in 1 .. Len(batch[s].flags)
                          /\ req[s] = Asking(batch[s], asked[s])
                          /\ Len(results[s]) = asked[s] - 1
  /\ \E A : results[s] \in Seq(A)

\* The history and the bookkeeping of batches are functions of the sessions.
BatchShaped == /\ batch = [s \in Sessions |-> batch[s]]
               /\ asked = [s \in Sessions |-> asked[s]]
               /\ results = [s \in Sessions |-> results[s]]
               /\ past = [s \in Sessions |-> past[s]]

\* The invariant of batches under clients that tear nothing.
BatchInv == /\ StoreInv /\ BatchShaped
            /\ \A s \in Sessions : Op(s) \notin Tearing /\ Counted(s) /\ Forward(s)

-----------------------------------------------------------------------------
(* A read goes on standing where it stands. *)

\* A read that is answered.
LEMMA ReadAnswers ==
  ASSUME NEW s \in Sessions, StoreInv, NEW st, NEW b, Finish(s, st, b), NEW d, NEW e,
         NEW r, Performs(d, r, d, Answer(st, b))
  PROVE  Stands(d, e, pc'[s], r, view'[s], out'[s])
<1>1. pc'[s] = "returned" /\ out'[s] = Answer(st, b)
  BY DEF StoreInv, Shaped, Finish
<1> QED BY <1>1 DEF Stands, Performs, Statements, Reads

\* A read that goes on.
LEMMA ReadStands ==
  ASSUME NEW s \in Sessions, StoreInv, NEW p, NEW v, Goto(s, p, v), NEW d, NEW e, NEW r,
         Knows(d, p, r, v), Unread(d, e, p, v), p # "returned"
  PROVE  Stands(d, e, pc'[s], r, view'[s], out'[s])
<1>1. pc'[s] = p /\ view'[s] = v
  BY DEF StoreInv, Shaped, Goto
<1> QED BY <1>1 DEF Stands

\* Where a read goes on once its flag is read, as it is in d.
LEMMA FlagReadStands ==
  ASSUME NEW s \in Sessions, StoreInv, req[s].op \in {"GetFlag", "Evaluate"}, NEW v,
         FlagRead(s, v), NEW d,
         v.segments = [g \in DOMAIN v.segments |-> v.segments[g]],
         req[s].op = "GetFlag" => v.rules = RulesIn(d, req[s].flag),
         Knows(d, "segRow", req[s], v),
         req[s].op = "Evaluate" => \A g \in v.todo : SameSegment(d, db, g)
  PROVE  Stands(d, db, pc'[s], req[s], view'[s], out'[s])
<1> DEFINE r == req[s]
           f == req[s].flag
<1>1. CASE r.op = "GetFlag"
  <2>1. Finish(s, 200, FlagView(v.row, v.rules, <<>>))
    BY <1>1 DEF FlagRead
  <2>2. HasFlag(d, f) /\ v.row = d.flags[f] /\ v.rules = RulesIn(d, f)
    BY <1>1 DEF Knows
  <2>3. Performs(d, r, d, Answer(200, FlagView(v.row, v.rules, <<>>)))
    BY <1>1, <2>2, PerformGetFlag DEF FlagIn
  <2> QED BY <2>1, <2>3, ReadAnswers
<1>2. CASE r.op = "Evaluate" /\ v.todo # {}
  <2>1. Goto(s, "segRow", v)
    BY <1>2 DEF FlagRead
  <2>2. Unread(d, db, "segRow", v)
    BY <1>2 DEF Unread
  <2> QED BY <2>1, <2>2, ReadStands
<1>3. CASE r.op = "Evaluate" /\ v.todo = {}
  <2> DEFINE rules == RulesIn(d, f)
  <2>1. Finish(s, 200, Evaluate(FlagView(v.row, v.rules, v.segments), r.ctx))
    BY <1>3 DEF FlagRead
  <2>2. HasFlag(d, f) /\ v.row = d.flags[f] /\ v.rules = rules
        /\ DOMAIN v.segments = SegmentsRead(d, v)
        /\ \A k \in SegmentsRead(d, v) : v.segments[k] = d.segConds[k]
    BY <1>3 DEF Knows
  <2> HIDE DEF rules
  <2>3. SegmentsRead(d, v) = SegmentsUsed(rules) \cap d.segs
    BY <1>3, <2>2 DEF SegmentsRead
  <2>4. v.segments = SegmentsIn(d, rules)
    BY <2>2, <2>3 DEF SegmentsIn
  <2>5. Performs(d, r, d, Answer(200, Evaluate(FlagView(v.row, v.rules, v.segments), r.ctx)))
    BY <1>3, <2>2, <2>4, PerformEvaluate DEF rules
  <2> QED BY <2>1, <2>5, ReadAnswers
<1> QED BY <1>1, <1>2, <1>3

\* What a session that reads is known to hold.
LEMMA AtRead ==
  ASSUME NEW s \in Sessions, StoreInv, Op(s) \in Readers, pc[s] \in Reads, NEW d,
         StandsIn(s, d)
  PROVE  /\ req[s].op \in Readers /\ Op(s) = req[s].op
         /\ Fits(pc[s], req[s], view[s]) /\ IsView(view[s])
         /\ Knows(d, pc[s], req[s], view[s]) /\ Unread(d, db, pc[s], view[s])
<1>1. pc[s] \in Running /\ pc[s] # "handler" /\ pc[s] \in Statements
  BY DEF Running, Statements, Reads
<1> QED BY <1>1, Unanswered DEF StandsIn, Stands

LEMMA ReadFlagRowStands ==
  ASSUME NEW s \in Sessions, StoreInv, Op(s) \in Readers, ReadFlagRow(s), NEW d,
         StandsIn(s, d)
  PROVE  Stands(d, db, pc'[s], req[s], view'[s], out'[s])
<1> DEFINE r == req[s]
<1>1. pc[s] = "flagRow" /\ pc[s] \in Reads
  BY DEF ReadFlagRow, At, Reads
<1>2. r.op \in {"GetFlag", "Evaluate"} /\ d = db
  BY <1>1, AtRead DEF Fits, OpsAt, FlagOps, Readers, Unread
<1>3. CASE HasFlag(db, r.flag)
  <2> DEFINE v == [NoView EXCEPT !.row = db.flags[r.flag]]
  <2>1. Goto(s, "rules", v)
    BY <1>3 DEF ReadFlagRow
  <2>2. v.row = db.flags[r.flag] /\ v.todo = {} /\ v.segments = <<>>
    BY DEF NoView
  <2> HIDE DEF v
  <2>3. Knows(d, "rules", r, v) /\ Unread(d, db, "rules", v)
    BY <1>2, <1>3, <2>2 DEF Knows, Unread
  <2> QED BY <2>1, <2>3, ReadStands
<1>4. CASE ~HasFlag(db, r.flag)
  <2>1. Finish(s, 404, NoBody)
    BY <1>4 DEF ReadFlagRow
  <2>2. Performs(d, r, d, Answer(404, NoBody))
    BY <1>2, <1>4, PerformGetFlag, PerformEvaluate
  <2> QED BY <2>1, <2>2, ReadAnswers
<1> QED BY <1>3, <1>4

LEMMA ReadRulesStands ==
  ASSUME NEW s \in Sessions, StoreInv, Op(s) \in Readers, ReadRules(s), NEW d,
         StandsIn(s, d)
  PROVE  Stands(d, db, pc'[s], req[s], view'[s], out'[s])
<1> DEFINE r == req[s]
           f == req[s].flag
           rules == [i \in RulesOf(d, f) |-> RuleView(d.rules[i], d.conds[i], {})]
           v == [view[s] EXCEPT !.rules = rules]
<1>1. pc[s] = "rules" /\ pc[s] \in Reads
  BY DEF ReadRules, At, Reads
<1>2. r.op \in {"GetFlag", "Evaluate"} /\ IsView(view[s]) /\ Knows(d, "rules", r, view[s])
      /\ Unread(d, db, "rules", view[s])
  BY <1>1, AtRead DEF Fits, OpsAt, FlagOps, Readers
<1>3. RulesOf(d, f) = RulesOf(db, f)
      /\ rules = [i \in RulesOf(db, f) |-> RuleView(db.rules[i], db.conds[i], {})]
  BY <1>2 DEF Unread, RulesOf, HasRule
<1>4. IF RulesOf(d, f) = {} THEN FlagRead(s, v) ELSE Goto(s, "links", v)
  BY <1>3 DEF ReadRules
<1>5. /\ v.row = view[s].row /\ v.rules = rules /\ v.todo = view[s].todo
      /\ v.segments = view[s].segments
  BY <1>2 DEF IsView
<1>6. v.segments = [g \in DOMAIN v.segments |-> v.segments[g]]
  BY <1>2, <1>5 DEF IsView
<1> HIDE DEF v
<1>7. CASE RulesOf(d, f) = {}
  <2>1. rules = RulesIn(d, f) /\ SegmentsUsed(rules) = {}
    BY <1>7 DEF RulesIn, SegmentsUsed
  <2> HIDE DEF rules
  <2>2. Knows(d, "segRow", r, v) /\ v.todo = {}
    BY <1>2, <1>5, <2>1 DEF Knows, SegmentsRead
  <2>3. FlagRead(s, v)
    BY <1>4, <1>7
  <2> QED BY <1>2, <1>5, <1>6, <2>1, <2>2, <2>3, FlagReadStands
<1>8. CASE RulesOf(d, f) # {}
  <2>1. Goto(s, "links", v)
    BY <1>4, <1>8
  <2>2. Knows(d, "links", r, v)
    BY <1>2, <1>5 DEF Knows
  <2>3. Unread(d, db, "links", v)
    BY <1>2 DEF Unread, LinksOf
  <2> QED BY <2>1, <2>2, <2>3, ReadStands
<1> QED BY <1>7, <1>8

LEMMA ReadLinksStands ==
  ASSUME NEW s \in Sessions, StoreInv, Op(s) \in Readers, ReadLinks(s), NEW d,
         StandsIn(s, d)
  PROVE  Stands(d, db, pc'[s], req[s], view'[s], out'[s])
<1> DEFINE r == req[s]
           f == req[s].flag
           linked == [i \in DOMAIN view[s].rules |->
                        [view[s].rules[i] EXCEPT !.segs = LinksOf(db, i)]]
           todo == IF req[s].op = "Evaluate" THEN SegmentsUsed(linked) ELSE {}
           v == [view[s] EXCEPT !.rules = linked, !.todo = todo]
<1>1. pc[s] = "links" /\ pc[s] \in Reads
  BY DEF ReadLinks, At, Reads
<1>2. r.op \in {"GetFlag", "Evaluate"} /\ IsView(view[s]) /\ Knows(d, "links", r, view[s])
      /\ Unread(d, db, "links", view[s])
  BY <1>1, AtRead DEF Fits, OpsAt, FlagOps, Readers
<1>3. FlagRead(s, v)
  BY DEF ReadLinks
<1>4. linked = RulesIn(d, f)
  <2>1. linked = [i \in DOMAIN view[s].rules |->
                    [view[s].rules[i] EXCEPT !.segs = LinksOf(d, i)]]
    BY <1>2 DEF Unread
  <2>2. view[s].rules = [i \in RulesOf(d, f) |-> RuleView(d.rules[i], d.conds[i], {})]
    BY <1>2 DEF Knows
  <2> HIDE DEF linked
  <2> QED BY <2>1, <2>2, Linked
<1> HIDE DEF linked
<1>5. /\ v.row = view[s].row /\ v.rules = linked /\ v.todo = todo
      /\ v.segments = view[s].segments
  <2> HIDE DEF todo
  <2> DEFINE w == [view[s] EXCEPT !.rules = linked]
  <2>1. w = [row |-> view[s].row, rules |-> linked, todo |-> view[s].todo,
             text |-> view[s].text, segments |-> view[s].segments]
    BY <1>2 DEF IsView
  <2>2. v = [w EXCEPT !.todo = todo]
    OBVIOUS
  <2> HIDE DEF w
  <2> QED BY <2>1, <2>2
<1>6. v.segments = [g \in DOMAIN v.segments |-> v.segments[g]]
  BY <1>2, <1>5 DEF IsView
<1> HIDE DEF v
<1>7. r.op = "Evaluate" => SegmentsRead(d, v) = {} /\ v.todo = SegmentsUsed(v.rules)
  BY <1>5 DEF SegmentsRead
<1>8. Knows(d, "segRow", r, v)
  BY <1>2, <1>4, <1>5, <1>7 DEF Knows
<1>9. \A g \in v.todo : SameSegment(d, db, g)
  BY <1>2 DEF Unread, SameSegment
<1> QED BY <1>2, <1>3, <1>4, <1>5, <1>6, <1>8, <1>9, FlagReadStands

\* Where an evaluation goes on once a segment is read, or found missing, as it is in d.
LEMMA SegmentReadStands ==
  ASSUME NEW s \in Sessions, StoreInv, req[s].op = "Evaluate",
         NEW v, NEW g, SegmentRead(s, v, g), NEW d,
         v.segments = [k \in DOMAIN v.segments |-> v.segments[k]],
         Knows(d, "segRow", req[s], v), \A k \in v.todo : SameSegment(d, db, k)
  PROVE  Stands(d, db, pc'[s], req[s], view'[s], out'[s])
<1>1. FlagRead(s, v)
  BY DEF SegmentRead
<1> QED BY <1>1, FlagReadStands

LEMMA ReadSegmentRowStands ==
  ASSUME NEW s \in Sessions, StoreInv, Op(s) \in Readers, ReadSegmentRow(s), NEW d,
         StandsIn(s, d)
  PROVE  Stands(d, db, pc'[s], req[s], view'[s], out'[s])
<1> DEFINE r == req[s]
<1>1. pc[s] = "segRow" /\ pc[s] \in Reads
  BY DEF ReadSegmentRow, At, Reads
<1>2. r.op = "Evaluate" /\ IsView(view[s]) /\ Knows(d, "segRow", r, view[s])
      /\ \A k \in view[s].todo : SameSegment(d, db, k)
  BY <1>1, AtRead DEF Fits, OpsAt, Readers, Unread
<1>3. PICK g \in view[s].todo :
        IF g \in db.segs
        THEN Goto(s, "segConds", [view[s] EXCEPT !.text = db.about[g],
                                                 !.segments = Found(@, g)])
        ELSE SegmentRead(s, [view[s] EXCEPT !.todo = @ \ {g}], g)
  BY DEF ReadSegmentRow
<1>4. g \in db.segs <=> g \in d.segs
  BY <1>2 DEF SameSegment
<1>5. CASE g \in db.segs
  <2> DEFINE found == Found(view[s].segments, g)
             v == [view[s] EXCEPT !.text = db.about[g], !.segments = found]
  <2>1. /\ DOMAIN found = DOMAIN view[s].segments \cup {g}
        /\ \A k \in DOMAIN view[s].segments : k # g => found[k] = view[s].segments[k]
    BY DEF Found
  <2>2. Goto(s, "segConds", v)
    BY <1>3, <1>5
  <2> HIDE DEF found
  <2>3. /\ v.row = view[s].row /\ v.rules = view[s].rules /\ v.todo = view[s].todo
        /\ v.text = db.about[g] /\ v.segments = found
    BY <1>2 DEF IsView
  <2> HIDE DEF v
  <2>4. SegmentsRead(d, v) = SegmentsRead(d, view[s]) /\ g \notin SegmentsRead(d, v)
    BY <2>3 DEF SegmentsRead
  <2>5. Knows(d, "segConds", r, v)
    <3>1. /\ DOMAIN v.segments = SegmentsRead(d, v) \cup {g}
          /\ \A k \in SegmentsRead(d, v) : v.segments[k] = d.segConds[k]
      BY <1>2, <2>1, <2>3, <2>4 DEF Knows
    <3>2. g \in v.todo \cap d.segs
      BY <1>4, <1>5, <2>3
    <3> QED BY <1>2, <2>3, <3>1, <3>2 DEF Knows
  <2>6. Unread(d, db, "segConds", v)
    BY <1>2, <2>3 DEF Unread
  <2> QED BY <2>2, <2>5, <2>6, ReadStands
<1>6. CASE g \notin db.segs
  <2> DEFINE rest == view[s].todo \ {g}
             v == [view[s] EXCEPT !.todo = rest]
  <2>1. SegmentRead(s, v, g)
    BY <1>3, <1>6
  <2>2. rest \subseteq view[s].todo /\ g \notin rest /\ \A k \in view[s].todo : k # g => k \in rest
    OBVIOUS
  <2> HIDE DEF rest
  <2>3. /\ v.row = view[s].row /\ v.rules = view[s].rules /\ v.todo = rest
        /\ v.segments = view[s].segments
    BY <1>2 DEF IsView
  <2> HIDE DEF v
  <2>4. SegmentsRead(d, v) = SegmentsRead(d, view[s])
    BY <1>4, <1>6, <2>2, <2>3 DEF SegmentsRead
  <2>5. v.segments = [k \in DOMAIN v.segments |-> v.segments[k]]
    BY <1>2, <2>3 DEF IsView
  <2>6. Knows(d, "segRow", r, v)
    BY <1>2, <2>2, <2>3, <2>4 DEF Knows
  <2>7. \A k \in v.todo : SameSegment(d, db, k)
    BY <1>2, <2>2, <2>3
  <2> QED BY <1>2, <2>1, <2>5, <2>6, <2>7, SegmentReadStands
<1> QED BY <1>5, <1>6

LEMMA ReadSegmentCondsStands ==
  ASSUME NEW s \in Sessions, StoreInv, Op(s) \in Readers, ReadSegmentConds(s), NEW d,
         StandsIn(s, d)
  PROVE  Stands(d, db, pc'[s], req[s], view'[s], out'[s])
<1> DEFINE r == req[s]
           g == CHOOSE k \in view[s].todo : k \in DOMAIN view[s].segments
           segments == [view[s].segments EXCEPT ![g] = db.segConds[g]]
           rest == view[s].todo \ {g}
           w == [view[s] EXCEPT !.todo = rest]
           v == [w EXCEPT !.segments = segments]
<1>1. pc[s] = "segConds" /\ pc[s] \in Reads
  BY DEF ReadSegmentConds, At, Reads
<1>2. r.op = "Evaluate" /\ IsView(view[s]) /\ Knows(d, "segConds", r, view[s])
      /\ Fits("segConds", r, view[s]) /\ \A k \in view[s].todo : SameSegment(d, db, k)
  BY <1>1, AtRead DEF Fits, OpsAt, Readers, Unread
<1>3. SegmentRead(s, v, g)
  <2>1. v = [view[s] EXCEPT !.todo = @ \ {g}, !.segments[g] = db.segConds[g]]
    BY <1>2 DEF IsView
  <2> QED BY <2>1 DEF ReadSegmentConds
<1>4. g \in view[s].todo /\ g \in DOMAIN view[s].segments
  <2>1. \E k \in view[s].todo : k \in DOMAIN view[s].segments
    BY <1>2 DEF Fits
  <2> QED BY <2>1
<1> HIDE DEF g
<1>5. db.segConds[g] = d.segConds[g]
  BY <1>2, <1>4 DEF SameSegment
<1>6. /\ DOMAIN segments = DOMAIN view[s].segments /\ segments[g] = d.segConds[g]
      /\ \A k \in DOMAIN segments : k # g => segments[k] = view[s].segments[k]
      /\ segments = [k \in DOMAIN segments |-> segments[k]]
  BY <1>2, <1>4, <1>5 DEF IsView
<1> HIDE DEF segments
<1>7. rest \subseteq view[s].todo /\ g \notin rest /\ \A k \in view[s].todo : k # g => k \in rest
  OBVIOUS
<1> HIDE DEF rest
<1>8. /\ v.row = view[s].row /\ v.rules = view[s].rules /\ v.todo = rest
      /\ v.segments = segments
  <2>1. w = [row |-> view[s].row, rules |-> view[s].rules, todo |-> rest,
             text |-> view[s].text, segments |-> view[s].segments]
    BY <1>2 DEF IsView
  <2> HIDE DEF w
  <2> QED BY <2>1
<1> HIDE DEF v
<1>9. Knows(d, "segRow", r, v)
  <2>1. PICK k \in view[s].todo \cap d.segs :
          /\ DOMAIN view[s].segments = SegmentsRead(d, view[s]) \cup {k}
          /\ \A j \in SegmentsRead(d, view[s]) : view[s].segments[j] = d.segConds[j]
    BY <1>2 DEF Knows
  <2>2. k = g
    BY <1>4, <2>1 DEF SegmentsRead
  <2>3. view[s].todo \subseteq SegmentsUsed(view[s].rules)
    BY <1>2 DEF Knows
  <2>4. SegmentsRead(d, v) = SegmentsRead(d, view[s]) \cup {g}
    BY <1>4, <1>7, <1>8, <2>1, <2>2, <2>3 DEF SegmentsRead
  <2>5. DOMAIN v.segments = SegmentsRead(d, v)
    BY <1>6, <1>8, <2>1, <2>2, <2>4
  <2>6. \A j \in SegmentsRead(d, v) : v.segments[j] = d.segConds[j]
    BY <1>6, <1>8, <2>1, <2>2, <2>4, <2>5
  <2> QED BY <1>2, <1>7, <1>8, <2>3, <2>5, <2>6 DEF Knows
<1>10. v.segments = [k \in DOMAIN v.segments |-> v.segments[k]]
  BY <1>6, <1>8
<1>11. \A k \in v.todo : SameSegment(d, db, k)
  BY <1>2, <1>7, <1>8
<1> QED BY <1>2, <1>3, <1>9, <1>10, <1>11, SegmentReadStands

-----------------------------------------------------------------------------
(* A change by another request leaves a read standing. *)

FlagsChange(d, e) == /\ e.rules = d.rules /\ e.conds = d.conds /\ e.links = d.links
                     /\ e.segs = d.segs /\ e.segConds = d.segConds

AddsRule(d, e, i) == /\ d.rules[i] = Absent /\ e.flags = d.flags
                     /\ \A j \in RuleIds \ {i} : LinksOf(e, j) = LinksOf(d, j)
                     /\ e.segs = d.segs /\ e.segConds = d.segConds

ChangesSegment(d, e, g) ==
  /\ e.flags = d.flags /\ e.rules = d.rules /\ e.conds = d.conds /\ e.links = d.links
  /\ d.segs \subseteq e.segs
  /\ \A k \in SegmentKeys \ {g} : SameSegment(d, e, k)

\* The changes that tear no read.
Mild(d, e) == \/ FlagsChange(d, e)
              \/ \E i \in RuleIds : AddsRule(d, e, i)
              \/ \E g \in SegmentKeys : ChangesSegment(d, e, g)

LEMMA ToggleMild ==
  ASSUME NEW d \in Database, NEW f
  PROVE  FlagsChange(d, Toggle(d, f))
BY DEF Toggle, FlagsChange, Database

LEMMA InsertRuleMild ==
  ASSUME NEW d \in Database, d.nextRule \in RuleIds, IdsFresh(d), NEW row, NEW conds, NEW keys,
         NEW fk, NEW e, e = InsertRule(d, row, conds, keys, fk), e # Absent
  PROVE  AddsRule(d, e, d.nextRule)
<1> DEFINE i == d.nextRule
<1>1. e = [d EXCEPT !.rules[i] = row, !.conds[i] = conds,
                    !.links = d.links \cup ({i} \X KeysIn(keys)), !.nextRule = i + 1]
  BY DEF InsertRule
<1>2. e.flags = d.flags /\ e.links = d.links \cup ({i} \X KeysIn(keys))
      /\ e.segs = d.segs /\ e.segConds = d.segConds
  BY <1>1 DEF Database
<1>3. \A j \in RuleIds \ {i} : LinksOf(e, j) = LinksOf(d, j)
  BY <1>2 DEF LinksOf
<1>4. d.rules[i] = Absent
  BY DEF IdsFresh, RuleIds
<1> QED BY <1>2, <1>3, <1>4 DEF AddsRule

LEMMA InsertSegmentMild ==
  ASSUME NEW d \in Database, NEW g \in SegmentKeys, NEW text, NEW conds,
         NEW e, e = InsertSegment(d, g, text, conds), e # Absent
  PROVE  ChangesSegment(d, e, g)
<1>1. e = [d EXCEPT !.segs = d.segs \cup {g}, !.about[g] = text,
                    !.segConds[g] = d.segConds[g] \o conds]
  BY DEF InsertSegment
<1> QED BY <1>1 DEF ChangesSegment, SameSegment, Database

LEMMA RewriteSegmentMild ==
  ASSUME NEW d \in Database, NEW g \in SegmentKeys, NEW text, NEW conds, NEW fk,
         NEW e, e = RewriteSegment(d, g, text, conds, fk), e # Absent
  PROVE  ChangesSegment(d, e, g)
BY DEF RewriteSegment, ChangesSegment, SameSegment, Database

\* What a transaction that tears nothing makes of the database.
LEMMA CommitMild ==
  ASSUME NEW s \in Sessions, StoreInv, Op(s) \notin Tearing, Commit(s)
  PROVE  Mild(db, db')
<1> DEFINE r == req[s]
<1>1. pc[s] = "commit" /\ pc[s] \in Running /\ pc[s] # "handler" /\ db' = work[s]
  BY DEF Commit, At, Install, Running, Statements
<1>2. db \in Database /\ NothingAhead(db) /\ SessionInv(s)
  BY DEF StoreInv
<1>3. work[s] = Written(s) /\ work[s] # Absent /\ RuleIdLeft(db, r)
  BY <1>1, <1>2 DEF SessionInv, Isolated, Placed
<1>4. r \in Requests /\ Op(s) = r.op /\ Fits("commit", r, view[s])
  BY <1>1, Unanswered
<1>5. r.op \in {"CreateRule", "CreateSegment", "UpdateSegment"}
  BY <1>4 DEF Fits, OpsAt, RuleOps, SegmentOps, Tearing
<1>6. CASE r.op = "CreateRule"
  <2>1. db' = InsertRule(db, RuleRowOf(r), r.conds, r.segs, FK(s)) /\ db' # Absent
    BY <1>1, <1>3, <1>6 DEF Written
  <2>2. db.nextRule \in RuleIds /\ IdsFresh(db)
    BY <1>2, <1>3, <1>6 DEF RuleIdLeft, NothingAhead
  <2>3. AddsRule(db, db', db.nextRule)
    BY <1>2, <2>1, <2>2, InsertRuleMild
  <2> QED BY <2>2, <2>3 DEF Mild
<1>7. CASE r.op = "CreateSegment"
  <2>1. db' = InsertSegment(db, r.segment, r.text, r.conds) /\ db' # Absent /\ r.segment \in SegmentKeys
    BY <1>1, <1>3, <1>4, <1>7, RequestShape DEF Written
  <2> QED BY <1>2, <2>1, InsertSegmentMild DEF Mild
<1>8. CASE r.op = "UpdateSegment"
  <2> DEFINE text == TextOf(r, view[s].text)
  <2>1. db' = RewriteSegment(db, r.segment, text, r.conds, FK(s)) /\ db' # Absent
        /\ r.segment \in SegmentKeys
    BY <1>1, <1>3, <1>4, <1>8, RequestShape DEF Written
  <2> HIDE DEF text
  <2> QED BY <1>2, <2>1, RewriteSegmentMild DEF Mild
<1> QED BY <1>5, <1>6, <1>7, <1>8

\* A step changes nothing, or tears nothing.
LEMMA StepMild ==
  ASSUME NEW s \in Sessions, StoreInv, Op(s) \notin Tearing, Step(s) \/ ReadFails(s)
  PROVE  db' = db \/ Mild(db, db')
<1>1. CASE Validate(s) \/ Acquire(s) \/ Respond(s)
  BY <1>1 DEF Validate, Acquire, Respond
<1>2. CASE Read(s)
  BY <1>2 DEF Read, ReadFlagRow, ReadRules, ReadLinks, ReadSegmentRow, ReadSegmentConds,
              CountLinks, ReadOnly
<1>3. CASE ValidateSegmentKeys(s) \/ WriteTransaction(s) \/ Busy(s) \/ ReadFails(s)
  BY <1>3 DEF ValidateSegmentKeys, WriteTransaction, Busy, ReadFails, Abort
<1>4. CASE ExecCreateFlag(s) \/ ExecUpdateFlag(s) \/ ExecToggleFlag(s)
  <2>1. db \in Database
    BY DEF StoreInv
  <2>2. CASE ExecCreateFlag(s)
    <3>1. db' = db \/ db' = PutFlag(db, req[s].flag, FlagRowOf(req[s]))
      BY <2>2 DEF ExecCreateFlag, NoRow, Install
    <3> QED BY <2>1, <3>1 DEF PutFlag, Mild, FlagsChange, Database
  <2>3. CASE ExecUpdateFlag(s)
    <3> DEFINE f == req[s].flag
               row == Merge(view[s].row, req[s])
    <3> HIDE DEF row
    <3>1. db' = db \/ db' = [db EXCEPT !.flags[f].enabled = row.enabled,
                                       !.flags[f].default = row.default]
      BY <2>3 DEF ExecUpdateFlag, NoRow, Install, row
    <3> QED BY <2>1, <3>1 DEF Mild, FlagsChange, Database
  <2>4. CASE ExecToggleFlag(s)
    <3>1. db' = db \/ db' = Toggle(db, req[s].flag)
      BY <2>4 DEF ExecToggleFlag, NoRow, Install
    <3> QED BY <2>1, <3>1, ToggleMild DEF Mild
  <2> QED BY <1>4, <2>2, <2>3, <2>4
<1>5. CASE ExecDeleteFlag(s) \/ ExecDeleteRule(s) \/ ExecDeleteSegment(s)
  <2>1. \E op \in Tearing : Exec(s, op)
    BY <1>5 DEF ExecDeleteFlag, ExecDeleteRule, ExecDeleteSegment, Tearing
  <2>2. PICK op \in Tearing : Exec(s, op)
    BY <2>1
  <2>3. Op(s) = op
    BY <2>2, AtExecOwn, Distinctions DEF Op
  <2> QED BY <2>3
<1>6. CASE Commit(s)
  BY <1>6, CommitMild
<1> QED BY <1>1, <1>2, <1>3, <1>4, <1>5, <1>6 DEF Step, Write

\* A read that stands in the database still does after a change that tears
\* nothing, in the one before it or in the one after it.
LEMMA ChangeSplits ==
  ASSUME NEW d \in Database, NEW e \in Database, Mild(d, e), NEW p, NEW r, r.op \in Readers,
         NEW v, IsView(v), NEW a, Stands(d, d, p, r, v, a)
  PROVE  Stands(d, e, p, r, v, a) \/ Stands(e, e, p, r, v, a)
<1>1. CASE p \notin Statements
  BY <1>1 DEF Stands
<1> SUFFICES ASSUME p \in Statements PROVE Stands(d, e, p, r, v, a) \/ Stands(e, e, p, r, v, a)
  BY <1>1
<1>2. Knows(d, p, r, v) /\ p # "returned"
  BY DEF Stands, Statements, Reads
<1>3. Unread(d, e, p, v) => Stands(d, e, p, r, v, a)
  BY <1>2 DEF Stands
<1>4. Unread(e, e, p, v)
  BY DEF Unread, SameSegment
<1>5. Knows(e, p, r, v) => Stands(e, e, p, r, v, a)
  BY <1>2, <1>4 DEF Stands
<1>6. p = "flagRow" => Knows(e, p, r, v)
  BY DEF Knows, Readers
<1>7. p \notin {"flagRow", "rules", "links", "segRow", "segConds"} => Unread(d, e, p, v)
  BY DEF Unread
<1>8. CASE FlagsChange(d, e)
  <2>1. p # "flagRow" => Unread(d, e, p, v)
    BY <1>8 DEF Unread, FlagsChange, LinksOf, SameSegment
  <2> QED BY <1>3, <1>5, <1>6, <2>1
<1>9. ASSUME NEW i \in RuleIds, AddsRule(d, e, i) PROVE Unread(d, e, p, v) \/ Knows(e, p, r, v)
  <2>1. CASE p = "rules"
    BY <1>2, <1>9, <2>1 DEF Knows, AddsRule, Readers, HasFlag
  <2>2. CASE p = "links"
    <3>1. DOMAIN v.rules \subseteq RuleIds
      BY DEF IsView
    <3>2. DOMAIN v.rules = RulesOf(d, r.flag)
      BY <1>2, <2>2 DEF Knows, Readers
    <3>3. i \notin DOMAIN v.rules
      BY <1>9, <3>2 DEF AddsRule, RulesOf, HasRule
    <3> QED BY <1>9, <2>2, <3>1, <3>3 DEF Unread, AddsRule
  <2>3. CASE p \in {"segRow", "segConds"}
    BY <1>9, <2>3 DEF Unread, AddsRule, SameSegment
  <2> QED BY <1>6, <1>7, <2>1, <2>2, <2>3
<1>10. ASSUME NEW g \in SegmentKeys, ChangesSegment(d, e, g)
       PROVE  Unread(d, e, p, v) \/ Knows(e, p, r, v)
  <2>1. e.flags = d.flags /\ e.rules = d.rules /\ e.conds = d.conds /\ e.links = d.links
    BY <1>10 DEF ChangesSegment
  <2>2. /\ HasFlag(e, r.flag) <=> HasFlag(d, r.flag)
        /\ RulesOf(e, r.flag) = RulesOf(d, r.flag)
        /\ RulesIn(e, r.flag) = RulesIn(d, r.flag)
    BY <2>1 DEF HasFlag, RulesOf, HasRule, RulesIn, LinksOf
  <2>3. CASE p \in {"rules", "links"}
    BY <1>2, <2>1, <2>2, <2>3 DEF Knows, Readers
  <2>4. CASE p \in {"segRow", "segConds"} /\ g \notin v.todo
    <3>1. v.todo \subseteq SegmentKeys
      BY DEF IsView
    <3> QED BY <1>10, <2>4, <3>1 DEF Unread, ChangesSegment
  <2>5. CASE p \in {"segRow", "segConds"} /\ g \in v.todo
    <3>1. d.segs \subseteq e.segs /\ \A k \in SegmentKeys \ {g} : SameSegment(d, e, k)
      BY <1>10 DEF ChangesSegment
    <3>2. d.segs \subseteq SegmentKeys /\ e.segs \subseteq SegmentKeys
      BY DEF Database
    <3>3. SegmentsRead(e, v) = SegmentsRead(d, v)
      BY <2>5, <3>1, <3>2 DEF SegmentsRead, SameSegment
    <3>4. \A k \in SegmentsRead(d, v) : e.segConds[k] = d.segConds[k]
      BY <2>5, <3>1, <3>2 DEF SegmentsRead, SameSegment
    <3>5. CASE r.op = "GetFlag"
      BY <1>2, <2>1, <2>2, <2>5, <3>5 DEF Knows
    <3>6. CASE r.op = "Evaluate" /\ p = "segRow"
      BY <1>2, <2>1, <2>2, <3>3, <3>4, <3>6 DEF Knows
    <3>7. CASE r.op = "Evaluate" /\ p = "segConds"
      <4>1. PICK h \in v.todo \cap d.segs :
              /\ DOMAIN v.segments = SegmentsRead(d, v) \cup {h}
              /\ \A k \in SegmentsRead(d, v) : v.segments[k] = d.segConds[k]
        BY <1>2, <3>7 DEF Knows
      <4>2. h \in v.todo \cap e.segs
        BY <3>1
      <4> QED BY <1>2, <2>1, <2>2, <3>3, <3>4, <3>7, <4>1, <4>2 DEF Knows
    <3> QED BY <2>5, <3>5, <3>6, <3>7 DEF Readers
  <2> QED BY <1>6, <1>7, <2>3, <2>4, <2>5
<1> QED BY <1>3, <1>5, <1>8, <1>9, <1>10 DEF Mild

-----------------------------------------------------------------------------
(* Steps of a session. *)

\* What a step of a batch, or of anyone else, leaves to the batch of session t.
KeepsBatch(t) == batch'[t] = batch[t] /\ asked'[t] = asked[t] /\ results'[t] = results[t]

\* A step of another session.
LEMMA OthersForward ==
  ASSUME NEW t \in Sessions, StoreInv, db' \in Database, Forward(t), Waits(t), KeepsBatch(t),
         past'[t] = Passing(t), db' = db \/ Mild(db, db')
  PROVE  Forward(t)'
<1>1. req'[t] = req[t] /\ pc'[t] = pc[t] /\ view'[t] = view[t] /\ out'[t] = out[t]
      /\ batch'[t] = batch[t] /\ results'[t] = results[t]
  BY DEF Waits, KeepsBatch
<1>2. CASE past[t] = <<>>
  <2>1. past'[t] = <<>>
    BY <1>1, <1>2 DEF Passing
  <2> QED BY <2>1 DEF Forward
<1> SUFFICES ASSUME past[t] # <<>> PROVE Forward(t)'
  BY <1>2
<1>3. Op(t) \in Readers /\ req[t] # Absent /\ req[t].op \in Readers
  BY DEF Forward, Op, Readers
<1>4. past[t] = <<db>> \/ past[t] = <<past[t][1], db>>
  BY DEF Forward
<1>5. CASE db' = db
  <2>1. past'[t] = past[t]
    BY <1>1, <1>3, <1>5 DEF Passing
  <2> QED BY <1>1, <1>5, <2>1 DEF Forward, SplitsAt, StandsIn, Op
<1>6. CASE db' # db /\ past[t] = <<db>>
  <2>1. past'[t] = <<db, db'>> /\ past'[t][1] = db
    BY <1>1, <1>3, <1>6 DEF Passing
  <2>2. PICK m \in 0 .. Len(results[t]) : SplitsAt(t, m, db)
    BY <1>6 DEF Forward
  <2>3. StandsIn(t, db)
    BY <2>2 DEF SplitsAt
  <2>4. Splits(results[t], batch[t], Len(results[t]), db, db')
    BY <2>2 DEF SplitsAt, Splits
  <2>5. \/ Stands(db, db', pc[t], req[t], view[t], out[t])
        \/ Stands(db', db', pc[t], req[t], view[t], out[t])
    <3>1. db \in Database /\ IsView(view[t])
      BY DEF StoreInv, SessionInv, SessionTyped
    <3> QED BY <1>3, <1>6, <2>3, <3>1, ChangeSplits DEF StandsIn
  <2>6. SplitsAt(t, Len(results[t]), past[t][1])'
    BY <1>1, <2>1, <2>4, <2>5 DEF SplitsAt, StandsIn
  <2> QED BY <1>1, <1>3, <2>1, <2>6 DEF Forward, Op
<1>7. CASE db' # db /\ past[t] # <<db>>
  <2>1. past'[t] = <<>>
    BY <1>1, <1>3, <1>4, <1>7 DEF Passing
  <2> QED BY <2>1 DEF Forward
<1> QED BY <1>5, <1>6, <1>7

\* What a reader may do.
LEMMA ReaderSteps ==
  ASSUME NEW s \in Sessions, StoreInv, Op(s) \in Readers, Step(s) \/ ReadFails(s)
  PROVE  \/ Validate(s) \/ Acquire(s) \/ Respond(s) \/ ReadFails(s)
         \/ ReadFlagRow(s) \/ ReadRules(s) \/ ReadLinks(s) \/ ReadSegmentRow(s)
         \/ ReadSegmentConds(s)
<1>1. ASSUME pc[s] \in Statements PROVE Op(s) \in OpsAt(pc[s])
  BY <1>1, Unanswered DEF Running, Fits, Statements, Reads
<1>2. \A p \in {"count", "exec", "validate", "upgrade", "write", "commit"} : pc[s] # p
  BY <1>1 DEF OpsAt, Statements, Reads, Readers, RuleOps, SegmentOps
<1> QED BY <1>2 DEF Step, Read, Write, CountLinks, ExecCreateFlag, ExecUpdateFlag,
          ExecDeleteFlag, ExecToggleFlag, ExecDeleteRule, ExecDeleteSegment, Exec,
          ValidateSegmentKeys, WriteTransaction, Commit, Busy, At

\* A reader that does not answer yet: it stands where it stood, or where it is.
LEMMA ReaderStands ==
  ASSUME NEW s \in Sessions, StoreInv, Op(s) \in Readers, Step(s) \/ ReadFails(s),
         ~Respond(s)
  PROVE  /\ UNCHANGED <<db, req>>
         /\ \/ Stands(db, db, pc'[s], req[s], view'[s], out'[s])
            \/ \A d : StandsIn(s, d) => Stands(d, db, pc'[s], req[s], view'[s], out'[s])
<1>1. CASE Validate(s)
  <2>1. UNCHANGED <<db, req>> /\ pc[s] = "handler" /\ pc[s] \in Running
    BY <1>1 DEF Validate, Running
  <2>2. req[s].op \in Readers
    BY <2>1, Unanswered
  <2>3. PICK v : Goto(s, "flagRow", v)
    BY <1>1, <2>2 DEF Validate, Refused, FirstStep, Readers
  <2>4. Knows(db, "flagRow", req[s], v) /\ Unread(db, db, "flagRow", v)
    BY <2>2 DEF Knows, Unread, Readers
  <2> QED BY <2>1, <2>3, <2>4, ReadStands
<1>2. CASE Acquire(s)
  BY <1>2 DEF Acquire, StandsIn
<1>3. CASE ReadFlagRow(s)
  BY <1>3, ReadFlagRowStands DEF ReadFlagRow, ReadOnly
<1>4. CASE ReadRules(s)
  BY <1>4, ReadRulesStands DEF ReadRules, ReadOnly
<1>5. CASE ReadLinks(s)
  BY <1>5, ReadLinksStands DEF ReadLinks, ReadOnly
<1>6. CASE ReadSegmentRow(s)
  BY <1>6, ReadSegmentRowStands DEF ReadSegmentRow, ReadOnly
<1>7. CASE ReadSegmentConds(s)
  BY <1>7, ReadSegmentCondsStands DEF ReadSegmentConds, ReadOnly
<1>8. CASE ReadFails(s)
  <2>1. UNCHANGED <<db, req>> /\ Finish(s, ErrorStatus(Op(s)), NoBody)
    <3>1. pc[s] \in Running
      BY <1>8 DEF ReadFails, At, Running, Statements, Reads
    <3>2. Op(s) = req[s].op
      BY <3>1, Unanswered
    <3> QED BY <1>8, <3>2 DEF ReadFails, Abort
  <2>2. pc'[s] = "returned" /\ out'[s] = Answer(500, NoBody)
    BY <2>1 DEF StoreInv, Shaped, Finish, ErrorStatus, Readers
  <2>3. out'[s].status = 500
    BY <2>2 DEF Answer
  <2> QED BY <2>1, <2>2, <2>3 DEF Stands, Statements, Reads
<1> QED BY <1>1, <1>2, <1>3, <1>4, <1>5, <1>6, <1>7, <1>8, ReaderSteps

\* A step of the session itself, other than the end of a batch.
LEMMA OwnForward ==
  ASSUME NEW s \in Sessions, StoreInv, Forward(s), Step(s) \/ ReadFails(s), KeepsBatch(s),
         past'[s] = Passing(s)
  PROVE  Forward(s)'
<1>1. CASE Respond(s)
  <2>1. req'[s] = Absent
    BY <1>1 DEF Respond, StoreInv, Shaped
  <2>2. past'[s] = <<>>
    BY <2>1 DEF Passing
  <2> QED BY <2>2 DEF Forward
<1>2. CASE Op(s) \notin Readers
  <2>1. req'[s] = req[s] \/ req'[s] = Absent
    BY DEF StoreInv, Shaped, Step, Validate, Acquire, Read, Write, ReadFlagRow, ReadRules,
         ReadLinks, ReadSegmentRow, ReadSegmentConds, CountLinks, ReadOnly, ExecCreateFlag,
         ExecUpdateFlag, ExecDeleteFlag, ExecToggleFlag, ExecDeleteRule, ExecDeleteSegment, Exec,
         ValidateSegmentKeys, WriteTransaction, Commit, Busy, Respond, ReadFails
  <2>2. past'[s] = <<>>
    BY <1>2, <2>1 DEF Passing, Op
  <2> QED BY <2>2 DEF Forward
<1>3. CASE ~Respond(s) /\ Op(s) \in Readers
  <2>1. UNCHANGED <<db, req>> /\ req[s] # Absent /\ req[s].op \in Readers
    BY <1>3, ReaderStands DEF Op, Readers
  <2>2. past'[s] = past[s]
    BY <2>1 DEF Passing
  <2> SUFFICES ASSUME past[s] # <<>> PROVE Forward(s)'
    BY <2>2 DEF Forward
  <2>3. PICK m \in 0 .. Len(results[s]) : SplitsAt(s, m, past[s][1])
    BY DEF Forward
  <2>4. \/ Stands(db, db, pc'[s], req[s], view'[s], out'[s])
        \/ m = Len(results[s]) /\ Stands(past[s][1], db, pc'[s], req[s], view'[s], out'[s])
    BY <1>3, <2>3, ReaderStands DEF SplitsAt
  <2>5. SplitsAt(s, m, past[s][1])'
    BY <2>1, <2>2, <2>3, <2>4 DEF SplitsAt, StandsIn, KeepsBatch
  <2> QED BY <2>1, <2>2, <2>3, <2>5 DEF Forward, KeepsBatch, Op
<1> QED BY <1>1, <1>2, <1>3

-----------------------------------------------------------------------------
(* Steps of a batch. *)

LEMMA BatchAsks ==
  ASSUME NEW b \in Batches, NEW n \in 1 .. Len(b.flags)
  PROVE  /\ Asking(b, n) \in Requests /\ Asking(b, n) # Absent
         /\ Asking(b, n).op = "Evaluate"
<1>1. b.flags \in Seq(FlagKeys) /\ b.ctx \in Contexts(Conditions)
  BY BatchAssumption
<1>2. b.flags[n] \in FlagKeys
  BY <1>1
<1>3. Asking(b, n) \in [op : {"Evaluate"}, flag : FlagKeys, ctx : Contexts(Conditions)]
  BY <1>1, <1>2 DEF Asking
<1> QED BY <1>3, Distinctions DEF Requests, Asking

\* A flag is asked for.
LEMMA AskForPreserves ==
  ASSUME NEW s \in Sessions, StoreInv, pc[s] \in {"idle", "returned"}, NEW b, NEW n,
         AskFor(s, b, n), Asking(b, n) \in Requests, Asking(b, n).op = "Evaluate"
  PROVE  /\ StoreInv' /\ db' = db
         /\ \A t \in Sessions \ {s} : Waits(t)
         /\ pc'[s] = "flagRow" /\ req'[s] = Asking(b, n) /\ view'[s] = view[s]
<1> DEFINE r == Asking(b, n)
<1> HIDE DEF r
<1>1. Shaped /\ SessionInv(s) /\ PoolTyped /\ db \in Database
      /\ UNCHANGED <<db, free, conn, view, work, stale>>
  BY DEF StoreInv, AskFor
<1>2. pc'[s] = "flagRow" /\ req'[s] = r /\ view'[s] = view[s] /\ out'[s] = NoReply /\ r # Absent
      /\ r \in Requests /\ r.op = "Evaluate"
  BY <1>1, Distinctions DEF AskFor, Shaped, r
<1>3. Kept(s) /\ \A t \in Sessions \ {s} : Waits(t)
  BY <1>1 DEF AskFor, Kept, Shaped, Waits
<1>4. work[s] = Absent /\ s \notin stale /\ conn[s] = Absent /\ IsView(view[s])
  BY <1>1 DEF SessionInv, SessionTyped, Placed, Statements, Reads
<1>5. Fits("flagRow", r, view[s])
  BY <1>2 DEF Fits, OpsAt, FlagOps
<1>6. SessionInv(s)'
  BY <1>1, <1>2, <1>4, <1>5 DEF SessionInv, SessionTyped, Placed, Isolated, Statements, Reads
<1>7. Op(s)' # "CreateRule"
  BY <1>2 DEF Op
<1>8. StoreInv'
  BY <1>1, <1>3, <1>4, <1>6, <1>7, Preserved DEF StoreInv, PoolTyped
<1> QED BY <1>1, <1>2, <1>3, <1>8 DEF r

\* A flag that is asked for stands in the database.
LEMMA AskedStands ==
  ASSUME NEW s \in Sessions, db' = db, pc'[s] = "flagRow", NEW r, req'[s] = r,
         r.op = "Evaluate"
  PROVE  StandsIn(s, db)'
BY DEF StandsIn, Stands, Knows, Unread, Statements, Reads

\* A batch begins with its first flag.
LEMMA StartBatchForward ==
  ASSUME NEW s \in Sessions, StoreInv, BatchShaped, Counted(s), NEW b \in Batches,
         StartBatch(s, b), past'[s] = Passing(s)
  PROVE  /\ StoreInv' /\ db' = db
         /\ \A t \in Sessions \ {s} : Waits(t) /\ KeepsBatch(t)
         /\ Op(s)' \notin Tearing /\ Counted(s)' /\ Forward(s)'
<1>1. pc[s] = "idle" /\ req[s] = Absent /\ AskFor(s, b, 1)
  BY DEF StartBatch, StoreInv, SessionInv, Placed
<1>2. 1 \in 1 .. Len(b.flags)
  <2>1. b.flags \in Seq(FlagKeys) /\ b.flags # <<>>
    BY BatchAssumption
  <2> QED BY <2>1
<1>3. Asking(b, 1) \in Requests /\ Asking(b, 1) # Absent /\ Asking(b, 1).op = "Evaluate"
      /\ b # Absent
  BY <1>2, BatchAsks, BatchAssumption
<1>4. /\ StoreInv' /\ db' = db /\ pc'[s] = "flagRow" /\ req'[s] = Asking(b, 1)
      /\ \A t \in Sessions \ {s} : Waits(t)
  BY <1>1, <1>3, AskForPreserves
<1>5. batch[s] = Absent
  <2>1. CASE batch[s] # Absent
    BY <1>1, <2>1, BatchAsks DEF Counted
  <2> QED BY <2>1
<1>6. batch'[s] = b /\ asked'[s] = 1 /\ results'[s] = <<>>
      /\ \A t \in Sessions \ {s} : KeepsBatch(t)
  BY <1>1, <1>5 DEF BatchShaped, Counted, StartBatch, AskFor, KeepsBatch
<1>7. Op(s)' = "Evaluate"
  BY <1>3, <1>4 DEF Op
<1>8. Counted(s)'
  <2>1. results'[s] \in Seq({}) /\ Len(results'[s]) = 0
    BY <1>6
  <2> QED BY <1>2, <1>3, <1>4, <1>6, <2>1 DEF Counted
<1>9. past'[s] = <<db'>> /\ past'[s][1] = db'
  BY <1>1, <1>3, <1>4 DEF Passing, Readers
<1>10. StandsIn(s, db)'
  BY <1>3, <1>4, AskedStands
<1>11. SplitsAt(s, 0, db)'
  BY <1>6, <1>10 DEF SplitsAt, Splits
<1>12. Forward(s)'
  BY <1>6, <1>7, <1>9, <1>11 DEF Forward, Readers
<1> QED BY <1>4, <1>6, <1>7, <1>8, <1>12 DEF Tearing

\* The next flag of a batch is asked for once the one before it is evaluated.
LEMMA NextFlagForward ==
  ASSUME NEW s \in Sessions, StoreInv, BatchShaped, Counted(s), Forward(s), NextFlag(s),
         past'[s] = Passing(s)
  PROVE  /\ StoreInv' /\ db' = db
         /\ \A t \in Sessions \ {s} : Waits(t) /\ KeepsBatch(t)
         /\ Op(s)' \notin Tearing /\ Counted(s)' /\ Forward(s)'
<1> DEFINE b == batch[s]
<1>0. PICK n : n = asked[s]
  OBVIOUS
<1>1. pc[s] = "returned" /\ b # Absent /\ n # Len(b.flags) /\ AskFor(s, b, n + 1)
      /\ out[s].status # 500
  BY <1>0 DEF NextFlag, Evaluated, Last, Failed
<1>2. b \in Batches /\ n \in 1 .. Len(b.flags) /\ req[s] = Asking(b, n)
      /\ Len(results[s]) = n - 1
  BY <1>0, <1>1 DEF Counted
<1>3. n + 1 \in 1 .. Len(b.flags)
  <2>1. b.flags \in Seq(FlagKeys)
    BY <1>2, BatchAssumption
  <2> QED BY <1>1, <1>2, <2>1
<1>4. Asking(b, n + 1) \in Requests /\ Asking(b, n + 1) # Absent
      /\ Asking(b, n + 1).op = "Evaluate" /\ req[s] # Absent
  BY <1>2, <1>3, BatchAsks
<1>5. /\ StoreInv' /\ db' = db /\ pc'[s] = "flagRow" /\ req'[s] = Asking(b, n + 1)
      /\ \A t \in Sessions \ {s} : Waits(t)
  BY <1>1, <1>4, AskForPreserves
<1>6. batch'[s] = b /\ asked'[s] = n + 1 /\ results'[s] = Append(results[s], out[s])
      /\ \A t \in Sessions \ {s} : KeepsBatch(t)
  BY <1>0, <1>1 DEF BatchShaped, NextFlag, AskFor, KeepsBatch
<1>7. Op(s)' = "Evaluate"
  BY <1>4, <1>5 DEF Op
<1>8. /\ Len(results'[s]) = n /\ results'[s][n] = out[s]
      /\ \A k \in 1 .. n - 1 : results'[s][k] = results[s][k]
      /\ \E A : results'[s] \in Seq(A)
  <2>1. PICK A : results[s] \in Seq(A)
    BY DEF Counted
  <2>2. results[s] \in Seq(A \cup {out[s]})
    BY <2>1
  <2>3. results'[s] \in Seq(A \cup {out[s]})
    BY <1>6, <2>2
  <2>4. /\ Len(results'[s]) = n /\ results'[s][n] = out[s]
        /\ \A k \in 1 .. n - 1 : results'[s][k] = results[s][k]
    BY <1>2, <1>6, <2>1, <2>2, <2>3
  <2> QED BY <2>3, <2>4
<1>9. Counted(s)'
  BY <1>1, <1>2, <1>3, <1>5, <1>6, <1>8 DEF Counted
<1>10. past'[s] = past[s]
  BY <1>4, <1>5 DEF Passing, Readers
<1>11. StandsIn(s, db)'
  BY <1>4, <1>5, AskedStands
<1>12. ASSUME past[s] # <<>>
       PROVE  \E m \in 0 .. n : SplitsAt(s, m, past[s][1])'
  <2>1. PICK m \in 0 .. n - 1 : SplitsAt(s, m, past[s][1])
    BY <1>2, <1>12 DEF Forward
  <2>2. Splits(results[s], b, m, past[s][1], db)
    BY <2>1 DEF SplitsAt
  <2>3. CASE StandsIn(s, db)
    <3>1. out[s] = Result(db, b, n)
      BY <1>1, <1>2, <2>3 DEF StandsIn, Stands, Result
    <3>2. Splits(results'[s], b, m, past[s][1], db)
      BY <1>2, <1>8, <2>1, <2>2, <3>1 DEF Splits
    <3>3. SplitsAt(s, m, past[s][1])'
      BY <1>5, <1>6, <1>10, <1>11, <3>2 DEF SplitsAt
    <3> QED BY <1>2, <2>1, <3>3
  <2>4. CASE m = n - 1 /\ StandsIn(s, past[s][1])
    <3>1. out[s] = Result(past[s][1], b, n)
      BY <1>1, <1>2, <2>4 DEF StandsIn, Stands, Result
    <3>2. Splits(results'[s], b, n, past[s][1], db)
      BY <1>2, <1>8, <2>2, <2>4, <3>1 DEF Splits
    <3>3. SplitsAt(s, n, past[s][1])'
      BY <1>5, <1>6, <1>10, <1>11, <3>2 DEF SplitsAt
    <3> QED BY <1>2, <3>3
  <2> QED BY <1>2, <2>1, <2>3, <2>4 DEF SplitsAt
<1>13. Forward(s)'
  BY <1>5, <1>7, <1>8, <1>10, <1>12 DEF Forward, Readers
<1> QED BY <1>5, <1>6, <1>7, <1>9, <1>13 DEF Tearing

\* The last flag of a batch is evaluated, and the batch answered.
LEMMA AnswerBatchForward ==
  ASSUME NEW s \in Sessions, StoreInv, BatchShaped, AnswerBatch(s), past'[s] = Passing(s)
  PROVE  /\ \A t \in Sessions \ {s} : KeepsBatch(t)
         /\ Op(s)' \notin Tearing /\ Counted(s)' /\ Forward(s)'
<1>1. req'[s] = Absent
  BY DEF AnswerBatch, Respond, StoreInv, Shaped
<1>2. batch'[s] = Absent /\ results'[s] = <<>> /\ \A t \in Sessions \ {s} : KeepsBatch(t)
  BY DEF AnswerBatch, BatchShaped, KeepsBatch
<1>3. past'[s] = <<>> /\ Op(s)' = "none"
  BY <1>1 DEF Passing, Op
<1>4. results'[s] \in Seq({})
  BY <1>2
<1> QED BY <1>2, <1>3, <1>4 DEF Counted, Forward, Tearing

\* A request that is no batch begins.
LEMMA StartForward ==
  ASSUME NEW s \in Sessions, StoreInv, Counted(s), NEW r \in Requests, r.op \notin Tearing,
         Start(s, r), KeepsBatch(s), past'[s] = Passing(s)
  PROVE  Op(s)' \notin Tearing /\ Counted(s)' /\ Forward(s)'
<1>1. pc[s] = "idle" /\ req[s] = Absent /\ req'[s] = r /\ pc'[s] = "handler" /\ r # Absent
  BY Distinctions DEF Start, Goto, StoreInv, Shaped, SessionInv, Placed
<1>2. batch[s] = Absent
  <2>1. CASE batch[s] # Absent
    BY <1>1, <2>1, BatchAsks DEF Counted
  <2> QED BY <2>1
<1>3. batch'[s] = Absent /\ results'[s] = <<>>
  BY <1>2 DEF Counted, KeepsBatch
<1>4. Op(s)' = r.op
  BY <1>1 DEF Op
<1>5. Counted(s)'
  <2>1. results'[s] \in Seq({})
    BY <1>3
  <2> QED BY <1>3, <2>1 DEF Counted
<1>6. CASE r.op \notin Readers
  <2>1. past'[s] = <<>>
    BY <1>1, <1>6 DEF Passing
  <2> QED BY <1>4, <1>5, <2>1 DEF Forward
<1>7. CASE r.op \in Readers
  <2>1. past'[s] = <<db'>> /\ past'[s][1] = db'
    BY <1>1, <1>7 DEF Passing
  <2>2. SplitsAt(s, 0, db)'
    BY <1>1, <1>3 DEF SplitsAt, Splits, StandsIn, Stands, Statements, Reads
  <2>3. Forward(s)'
    BY <1>3, <1>4, <1>7, <2>1, <2>2 DEF Forward
  <2> QED BY <1>4, <1>5, <2>3
<1> QED BY <1>6, <1>7

-----------------------------------------------------------------------------
(* The invariant of batches. *)

Reviewed == past' = [s \in Sessions |-> Passing(s)]

LEMMA BatchShapedKept ==
  ASSUME BatchShaped, BatchNext, Reviewed
  PROVE  BatchShaped'
<1>1. past' = [s \in Sessions |-> past'[s]]
  BY DEF Reviewed
<1>2. /\ batch' = [s \in Sessions |-> batch'[s]]
      /\ asked' = [s \in Sessions |-> asked'[s]]
      /\ results' = [s \in Sessions |-> results'[s]]
  BY DEF BatchShaped, BatchNext, StartBatch, NextFlag, AnswerBatch, CrashBatches, AskFor,
         batches, Nobody
<1> QED BY <1>1, <1>2 DEF BatchShaped

\* What a step of s owes the invariant.
LEMMA OneSteps ==
  ASSUME NEW s \in Sessions, BatchInv, StoreInv', BatchShaped', Reviewed,
         db' = db \/ Mild(db, db'),
         \A t \in Sessions \ {s} : Waits(t) /\ KeepsBatch(t),
         Op(s)' \notin Tearing, Counted(s)', Forward(s)'
  PROVE  BatchInv'
<1>1. ASSUME NEW t \in Sessions \ {s}
      PROVE  Op(t)' \notin Tearing /\ Counted(t)' /\ Forward(t)'
  <2>1. Op(t) \notin Tearing /\ Counted(t) /\ Forward(t) /\ Waits(t) /\ KeepsBatch(t)
        /\ past'[t] = Passing(t)
    BY DEF BatchInv, Reviewed
  <2>2. db' \in Database /\ StoreInv
    BY DEF StoreInv, BatchInv
  <2>3. Forward(t)'
    BY <2>1, <2>2, OthersForward
  <2>4. Counted(t)' /\ Op(t)' = Op(t)
    BY <2>1 DEF Counted, Waits, KeepsBatch, Op
  <2> QED BY <2>1, <2>3, <2>4
<1> QED BY <1>1 DEF BatchInv

LEMMA BatchStepPreserves ==
  ASSUME BatchInv, BatchNext, Reviewed, Untorn
  PROVE  BatchInv'
<1>1. StoreInv /\ BatchShaped /\ BatchShaped'
      /\ \A s \in Sessions : /\ Op(s) \notin Tearing /\ Counted(s) /\ Forward(s)
                             /\ past'[s] = Passing(s)
  BY BatchShapedKept DEF BatchInv, Reviewed
<1>2. ASSUME NEW s \in Sessions, ~Evaluated(s), Step(s) \/ ReadFails(s), UNCHANGED batches
      PROVE  BatchInv'
  <2>1. StoreInv' /\ (db' = db \/ Mild(db, db'))
    BY <1>1, <1>2, StepPreserves, ReadFailsPreserves, StepMild
  <2>2. \A t \in Sessions : KeepsBatch(t)
    BY <1>2 DEF batches, KeepsBatch
  <2>3. \A t \in Sessions \ {s} : Waits(t)
    BY <1>1, <1>2, OthersWait
  <2>4. Forward(s)'
    BY <1>1, <1>2, <2>2, OwnForward
  <2>5. UNCHANGED req \/ (Respond(s) /\ req'[s] = Absent)
    BY <1>1, <1>2 DEF StoreInv, Shaped, Step, Validate, Acquire, Read, Write, ReadFlagRow,
         ReadRules, ReadLinks, ReadSegmentRow, ReadSegmentConds, CountLinks, ReadOnly,
         ExecCreateFlag, ExecUpdateFlag, ExecDeleteFlag, ExecToggleFlag, ExecDeleteRule,
         ExecDeleteSegment, Exec, ValidateSegmentKeys, WriteTransaction, Commit, Busy, Respond,
         ReadFails
  <2>6. Op(s)' \notin Tearing
    BY <1>1, <2>5 DEF Op, Tearing
  <2>7. Counted(s)'
    <3>1. Respond(s) => batch[s] = Absent
      BY <1>2 DEF Respond, Evaluated
    <3> QED BY <1>1, <2>2, <2>5, <3>1 DEF Counted, KeepsBatch
  <2> QED BY <1>1, <2>1, <2>2, <2>3, <2>4, <2>6, <2>7, OneSteps
<1>3. ASSUME NEW s \in Sessions, NEW r \in Workload, Start(s, r), UNCHANGED batches
      PROVE  BatchInv'
  <2>1. r \in Requests /\ r.op \notin Tearing
    BY Distinctions DEF Untorn, Tearing
  <2>2. StoreInv' /\ db' = db
    BY <1>1, <1>3, <2>1, StartPreserves
  <2>3. \A t \in Sessions : KeepsBatch(t)
    BY <1>3 DEF batches, KeepsBatch
  <2>4. \A t \in Sessions \ {s} : Waits(t)
    BY <1>1, <1>3, OthersWait
  <2>5. Op(s)' \notin Tearing /\ Counted(s)' /\ Forward(s)'
    BY <1>1, <1>3, <2>1, <2>3, StartForward
  <2> QED BY <1>1, <2>2, <2>3, <2>4, <2>5, OneSteps
<1>4. ASSUME NEW s \in Sessions, NEW b \in Batches, StartBatch(s, b) PROVE BatchInv'
  BY <1>1, <1>4, StartBatchForward, OneSteps
<1>5. ASSUME NEW s \in Sessions, NextFlag(s) PROVE BatchInv'
  BY <1>1, <1>5, NextFlagForward, OneSteps
<1>6. ASSUME NEW s \in Sessions, AnswerBatch(s) PROVE BatchInv'
  <2>1. Step(s) /\ Respond(s)
    BY <1>6 DEF AnswerBatch, Step
  <2>2. StoreInv' /\ db' = db
    BY <1>1, <2>1, RespondPreserves
  <2>3. \A t \in Sessions \ {s} : Waits(t)
    BY <1>1, <2>1, OthersWait
  <2> QED BY <1>1, <1>6, <2>2, <2>3, AnswerBatchForward, OneSteps
<1>7. CASE CrashBatches
  <2>1. StoreInv' /\ req' = Nobody /\ batch' = Nobody /\ results' = [s \in Sessions |-> <<>>]
    BY <1>1, <1>7, CrashPreserves DEF CrashBatches, Crash
  <2>2. ASSUME NEW s \in Sessions PROVE Op(s)' \notin Tearing /\ Counted(s)' /\ Forward(s)'
    <3>1. req'[s] = Absent /\ batch'[s] = Absent /\ results'[s] = <<>>
      BY <2>1 DEF Nobody
    <3>2. past'[s] = <<>> /\ Op(s)' = "none" /\ results'[s] \in Seq({})
      BY <1>1, <3>1 DEF Passing, Op
    <3> QED BY <3>1, <3>2 DEF Counted, Forward, Tearing
  <2> QED BY <1>1, <2>1, <2>2 DEF BatchInv
<1> QED BY <1>2, <1>3, <1>4, <1>5, <1>6, <1>7 DEF BatchNext

LEMMA BatchStutters ==
  ASSUME BatchInv, UNCHANGED <<vars, batches, past>>
  PROVE  BatchInv'
<1>1. UNCHANGED <<db, req, pc, view, out, batch, asked, results, past>> /\ UNCHANGED vars
  BY DEF vars, batches
<1>2. StoreInv' /\ BatchShaped'
  BY <1>1, Stutters DEF BatchInv, BatchShaped
<1>3. \A s \in Sessions : Op(s)' = Op(s) /\ Counted(s)' /\ Forward(s)'
  BY <1>1 DEF BatchInv, Op, Counted, Forward, SplitsAt, StandsIn
<1> QED BY <1>2, <1>3 DEF BatchInv

LEMMA BatchInitInv == BatchInit => BatchInv
<1> SUFFICES ASSUME BatchInit PROVE BatchInv
  OBVIOUS
<1>1. StoreInv /\ req = Nobody
  BY InitInv DEF BatchInit, Init
<1>2. \A s \in Sessions : /\ batch[s] = Absent /\ results[s] = <<>> /\ past[s] = <<>>
                          /\ Op(s) = "none" /\ results[s] \in Seq({})
  BY <1>1 DEF BatchInit, Nobody, Op
<1>3. BatchShaped
  BY DEF BatchInit, BatchShaped, Nobody
<1> QED BY <1>1, <1>2, <1>3 DEF BatchInv, Counted, Forward, Tearing

\* Where clients delete nothing and replace no rule, every read and every batch
\* that one change overlaps stands in the database before that change up to some
\* place, and from there on in the one after it.
THEOREM BatchInvariant ==
  ASSUME Untorn
  PROVE  BatchSpec => []BatchInv
<1>1. BatchInv /\ [BatchNext /\ Reviewed]_<<vars, batches, past>> => BatchInv'
  BY BatchStepPreserves, BatchStutters
<1> QED BY <1>1, BatchInitInv, PTL DEF BatchSpec, Reviewed

\* A GetFlag or an evaluation that one change overlaps, and none of whose reads
\* fails, answers as if it had run in one piece, before or after it: for any keys,
\* values, databases and number of sessions, where clients delete nothing and
\* replace no rule.
THEOREM ReadsAreSnapshots ==
  ASSUME Untorn
  PROVE  BatchSpec => []SnapshotRead
<1>1. BatchInv => SnapshotRead
  <2> SUFFICES ASSUME BatchInv, NEW s \in Sessions, ReadDone(s)
               PROVE  \E d \in Range(past[s]) : out[s] = Abstract!Perform(d, req[s]).answer
    BY DEF SnapshotRead
  <2>1. Forward(s) /\ past[s] # <<>> /\ pc[s] = "returned" /\ out[s].status # 500
    BY DEF BatchInv, ReadDone, Failed
  <2>2. past[s][1] \in Range(past[s]) /\ db \in Range(past[s])
    <3>1. past[s] = <<db>> \/ past[s] = <<past[s][1], db>>
      BY <2>1 DEF Forward
    <3>2. \A n \in DOMAIN past[s] : past[s][n] \in Range(past[s])
      BY DEF Range
    <3>3. CASE past[s] = <<db>>
      BY <3>2, <3>3
    <3>4. CASE past[s] = <<past[s][1], db>>
      <4>1. 1 \in DOMAIN past[s] /\ 2 \in DOMAIN past[s] /\ past[s][2] = db
        BY <3>4
      <4> QED BY <3>2, <4>1
    <3> QED BY <3>1, <3>3, <3>4
  <2>3. StandsIn(s, db) \/ StandsIn(s, past[s][1])
    BY <2>1 DEF Forward, SplitsAt
  <2> QED BY <2>1, <2>2, <2>3 DEF StandsIn, Stands
<1> QED BY <1>1, BatchInvariant, PTL

\* The results of a batch that one change overlaps are those of the database
\* before it and from some flag on those of the database after it, in the order
\* of the flags asked for: batches never go back in time.
THEOREM BatchesReadForward ==
  ASSUME Untorn
  PROVE  BatchSpec => []BatchReadsForward
<1>1. BatchInv => BatchReadsForward
  <2> SUFFICES ASSUME BatchInv, NEW s \in Sessions, ReadDone(s), Evaluated(s), Last(s)
               PROVE  LET all == Append(results[s], out[s])
                          answer(d, n) == Abstract!Perform(d, Asking(batch[s], n)).answer
                      IN  /\ Len(all) = Len(batch[s].flags)
                          /\ \E k \in 0 .. Len(all) : \A n \in DOMAIN all :
                               all[n] = answer(past[s][IF n <= k THEN 1 ELSE Len(past[s])], n)
    BY DEF BatchReadsForward
  <2> DEFINE all == Append(results[s], out[s])
             b == batch[s]
             N == asked[s]
  <2>1. /\ Forward(s) /\ past[s] # <<>> /\ pc[s] = "returned" /\ Counted(s)
        /\ b # Absent /\ N = Len(b.flags)
    BY DEF BatchInv, ReadDone, Evaluated, Last
  <2>0. out[s].status # 500
    BY DEF ReadDone, Failed
  <2>2. N \in Nat \ {0} /\ req[s] = Asking(b, N) /\ Len(results[s]) = N - 1
    <3>1. b.flags \in Seq(FlagKeys)
      BY <2>1, BatchAssumption DEF Counted
    <3> QED BY <2>1, <3>1 DEF Counted
  <2>3. /\ Len(all) = N /\ DOMAIN all = 1 .. N /\ all[N] = out[s]
        /\ \A n \in 1 .. N - 1 : all[n] = results[s][n]
    <3>1. PICK A : results[s] \in Seq(A)
      BY <2>1 DEF Counted
    <3>2. results[s] \in Seq(A \cup {out[s]})
      BY <3>1
    <3> QED BY <2>2, <3>1, <3>2
  <2> HIDE DEF all
  <2>4. past[s][Len(past[s])] = db
    <3>1. CASE past[s] = <<db>>
      BY <3>1
    <3>2. CASE past[s] = <<past[s][1], db>>
      <4>1. Len(past[s]) = 2 /\ past[s][2] = db
        BY <3>2
      <4> QED BY <4>1
    <3> QED BY <2>1, <3>1, <3>2 DEF Forward
  <2>5. PICK m \in 0 .. N - 1 : SplitsAt(s, m, past[s][1])
    BY <2>1, <2>2 DEF Forward
  <2>6. \A n \in 1 .. N - 1 :
          all[n] = IF n <= m THEN Result(past[s][1], b, n) ELSE Result(db, b, n)
    BY <2>2, <2>3, <2>5 DEF SplitsAt, Splits
  <2>7. PICK k \in 0 .. N : \A n \in 1 .. N :
          all[n] = IF n <= k THEN Result(past[s][1], b, n) ELSE Result(db, b, n)
    <3>1. StandsIn(s, db) \/ (m = N - 1 /\ StandsIn(s, past[s][1]))
      BY <2>2, <2>5 DEF SplitsAt
    <3>2. CASE StandsIn(s, db)
      <4>1. all[N] = Result(db, b, N)
        BY <2>0, <2>1, <2>2, <2>3, <3>2 DEF StandsIn, Stands, Result
      <4>2. \A n \in 1 .. N :
              all[n] = IF n <= m THEN Result(past[s][1], b, n) ELSE Result(db, b, n)
        BY <2>2, <2>5, <2>6, <4>1
      <4>3. m \in 0 .. N
        BY <2>2, <2>5
      <4> QED BY <4>2, <4>3
    <3>3. CASE m = N - 1 /\ StandsIn(s, past[s][1])
      <4>1. all[N] = Result(past[s][1], b, N)
        BY <2>0, <2>1, <2>2, <2>3, <3>3 DEF StandsIn, Stands, Result
      <4>2. \A n \in 1 .. N :
              all[n] = IF n <= N THEN Result(past[s][1], b, n) ELSE Result(db, b, n)
        BY <2>2, <2>6, <3>3, <4>1
      <4>3. N \in 0 .. N
        BY <2>2
      <4> QED BY <4>2, <4>3
    <3> QED BY <3>1, <3>2, <3>3
  <2>8. \A n \in 1 .. N : all[n] = Result(past[s][IF n <= k THEN 1 ELSE Len(past[s])], b, n)
    BY <2>4, <2>7
  <2> QED BY <2>1, <2>3, <2>7, <2>8 DEF Result, all
<1> QED BY <1>1, BatchInvariant, PTL
=============================================================================
