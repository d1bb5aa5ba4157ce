--------------------------- MODULE EvaluationProofs ---------------------------
(***************************************************************************)
(* The evaluator computes Evaluate for every flag and every context.       *)
(*                                                                         *)
(* When the loop is at a rule, no rule that was tried decides, and every   *)
(* rule still to be tried comes after it; within the rule, the inline      *)
(* conditions before the segments, and everything before the place the     *)
(* loops have come to, hold.  So the first condition that does not hold is *)
(* the one EvalRule looks at, and the first rule that decides is the one   *)
(* Evaluate chooses.                                                       *)
(***************************************************************************)
EXTENDS Evaluation, TLAPS

Says(f, x, i)    == EvalRule(f.rules[i], f.segments, x)
Decides(f, x, i) == \/ Says(f, x, i) = "error"
                    \/ Says(f, x, i) = "true" /\ Admits(f.rules[i], x)

\* Rule i is the first that decides.
First(f, x, i) == /\ i \in DOMAIN f.rules /\ Decides(f, x, i)
                  /\ \A j \in DOMAIN f.rules : j # i /\ Decides(f, x, j) => Before(f.rules, i, j)

AllTrue(conds, x) == \A n \in DOMAIN conds : EvalCondition(conds[n], x) = "true"

\* All that rule i asks for is there and holds.
Fulfilled(f, x, i) == /\ AllTrue(f.rules[i].conds, x)
                      /\ \A g \in f.rules[i].segs :
                           g \in DOMAIN f.segments /\ AllTrue(f.segments[g], x)

-----------------------------------------------------------------------------
(* What Engine's operators return. *)

LEMMA MinIs ==
  ASSUME NEW S \in SUBSET Int, NEW m \in S, \A s \in S : m <= s
  PROVE  Min(S) = m
<1>1. Min(S) \in S /\ \A s \in S : Min(S) <= s
  BY DEF Min
<1>2. m \in Int /\ Min(S) \in Int /\ m <= Min(S) /\ Min(S) <= m
  BY <1>1
<1> QED BY <1>2

\* The first condition that does not hold is what a list says.
LEMMA ListFails ==
  ASSUME NEW S, NEW conds \in Seq(S), NEW x, NEW n \in DOMAIN conds,
         \A m \in 1 .. n - 1 : EvalCondition(conds[m], x) = "true",
         EvalCondition(conds[n], x) # "true"
  PROVE  EvalAll(conds, x) = EvalCondition(conds[n], x)
<1> DEFINE stops == {m \in DOMAIN conds : EvalCondition(conds[m], x) # "true"}
<1>1. stops \subseteq Int /\ n \in stops /\ \A m \in stops : n <= m
  OBVIOUS
<1> HIDE DEF stops
<1>2. Min(stops) = n /\ stops # {}
  BY <1>1, MinIs
<1> QED BY <1>2 DEF EvalAll, stops

LEMMA ListHolds ==
  ASSUME NEW conds, NEW x, AllTrue(conds, x)
  PROVE  EvalAll(conds, x) = "true"
BY DEF EvalAll, AllTrue

\* And so for the segments of a rule whose inline conditions hold.
LEMMA SegmentFails ==
  ASSUME NEW f, NEW x, NEW i, f.rules[i].segs \subseteq Int,
         EvalAll(f.rules[i].conds, x) = "true",
         NEW g \in f.rules[i].segs, EvalSegment(g, f.segments, x) # "true",
         \A h \in f.rules[i].segs :
           h # g => EvalSegment(h, f.segments, x) = "true" \/ g < h
  PROVE  Says(f, x, i) = EvalSegment(g, f.segments, x)
<1> DEFINE stops == {h \in f.rules[i].segs : EvalSegment(h, f.segments, x) # "true"}
<1>1. stops \subseteq Int /\ g \in stops /\ \A h \in stops : g <= h
  OBVIOUS
<1> HIDE DEF stops
<1>2. Min(stops) = g /\ stops # {}
  BY <1>1, MinIs
<1> QED BY <1>2 DEF Says, EvalRule, stops

LEMMA RuleHolds ==
  ASSUME NEW f, NEW x, NEW i, Fulfilled(f, x, i)
  PROVE  Says(f, x, i) = "true"
<1>1. EvalAll(f.rules[i].conds, x) = "true"
  BY ListHolds DEF Fulfilled
<1>2. \A g \in f.rules[i].segs : EvalSegment(g, f.segments, x) = "true"
  BY ListHolds DEF Fulfilled, EvalSegment
<1> QED BY <1>1, <1>2 DEF Says, EvalRule

\* Two rules are not both before each other.
LEMMA BeforeIsStrict ==
  ASSUME NEW f, WellTyped(f), NEW i \in DOMAIN f.rules, NEW j \in DOMAIN f.rules,
         Before(f.rules, i, j)
  PROVE  ~Before(f.rules, j, i)
BY DEF WellTyped, Before

LEMMA EvaluateFirst ==
  ASSUME NEW f, NEW x, WellTyped(f), f.enabled, NEW i, First(f, x, i)
  PROVE  Evaluate(f, x) = IF Says(f, x, i) = "error" THEN Response(f.default, FALSE, "error")
                          ELSE Response(f.rules[i].value, TRUE, "rule_match")
<1> DEFINE outcome(k) == EvalRule(f.rules[k], f.segments, x)
           decides == {k \in DOMAIN f.rules :
                         \/ outcome(k) = "error"
                         \/ outcome(k) = "true" /\ Admits(f.rules[k], x)}
           first == CHOOSE k \in decides : \A j \in decides \ {k} : Before(f.rules, k, j)
<1>1. i \in decides /\ \A k \in decides \ {i} : Before(f.rules, i, k)
  BY DEF First, Decides, Says
<1>2. first \in decides /\ \A k \in decides \ {first} : Before(f.rules, first, k)
  BY <1>1
<1>3. first = i
  BY <1>1, <1>2, BeforeIsStrict
<1>4. DOMAIN f.rules # {} /\ decides # {}
  BY <1>1
<1>5. Evaluate(f, x) = IF outcome(first) = "error" THEN Response(f.default, FALSE, "error")
                       ELSE Response(f.rules[first].value, TRUE, "rule_match")
  BY <1>4 DEF Evaluate
<1> QED BY <1>3, <1>5 DEF Says

LEMMA EvaluateNone ==
  ASSUME NEW f, NEW x, f.enabled, DOMAIN f.rules # {},
         \A i \in DOMAIN f.rules : ~Decides(f, x, i)
  PROVE  Evaluate(f, x) = Response(f.default, FALSE, "default")
BY DEF Evaluate, Decides, Says

-----------------------------------------------------------------------------
(* The invariant. *)

Arguments == /\ \E case \in Cases : flag = case[1] /\ input = case[2]
             /\ ctx = ContextOf(flag, input)
             /\ pc \in {"start", "rules", "rule", "done"}

\* Of the rules that are not in rest, none decides.
Tried(rest) == \A i \in DOMAIN flag.rules \ rest : ~Decides(flag, ctx, i)

AtRules == /\ flag.enabled /\ DOMAIN flag.rules # {}
           /\ todo \subseteq DOMAIN flag.rules
           /\ pc = "rules" => Tried(todo)

\* The rule that the loop is at, and how far it has come in it.
AtRule ==
  /\ rule \in DOMAIN flag.rules \ todo /\ Tried(todo \cup {rule})
  /\ \A j \in todo : Before(flag.rules, rule, j)

Entered == flag.rules[rule].segs \ segs

InRule ==
  /\ segs \subseteq flag.rules[rule].segs
  /\ seg = Inline => segs = flag.rules[rule].segs
  /\ seg # Inline => /\ seg \in Entered /\ seg \in DOMAIN flag.segments
                     /\ AllTrue(flag.rules[rule].conds, ctx)
  /\ \A g \in Entered : g # seg => g \in DOMAIN flag.segments /\ AllTrue(flag.segments[g], ctx)
  /\ \A g \in Entered, h \in segs : g < h
  /\ next \in 1 .. Len(List) + 1
  /\ \A m \in 1 .. next - 1 : EvalCondition(List[m], ctx) = "true"

\* The rule that was served, and what an error comes from.
Served ==
  /\ resp = Evaluate(flag, ctx)
  /\ resp.match => flag.enabled /\ \E i \in DOMAIN flag.rules :
                     /\ First(flag, ctx, i) /\ Fulfilled(flag, ctx, i)
                     /\ resp = Response(flag.rules[i].value, TRUE, "rule_match")
  /\ resp.reason = "error" => \E c \in ConditionsOf(flag) : EvalCondition(c, ctx) = "error"

LoopInv == /\ Arguments
           /\ pc \in {"rules", "rule"} => AtRules
           /\ pc = "rule" => AtRule /\ InRule
           /\ pc = "done" => Served

LEMMA FlagTyped == Arguments => WellTyped(flag)
BY EvaluationAssumption DEF Arguments

\* The list that is gone through is one of the flag's.
LEMMA ListTyped ==
  ASSUME Arguments, AtRule, InRule
  PROVE  List \in Seq(ConditionsOf(flag)) /\ DOMAIN List = 1 .. Len(List) /\ Len(List) \in Nat
<1>1. List \in Seq(ConditionsOf(flag))
  BY FlagTyped DEF List, WellTyped, AtRule, InRule
<1> QED BY <1>1

-----------------------------------------------------------------------------
(* Steps. *)

\* The current rule does not decide: on to the next one.
LEMMA SkipKeeps ==
  ASSUME LoopInv, pc = "rule", ~Decides(flag, ctx, rule), Skip
  PROVE  LoopInv'
<1>1. Arguments' /\ UNCHANGED <<flag, input, ctx, todo, resp>> /\ pc' = "rules"
  BY DEF Skip, arguments, loops, LoopInv, Arguments
<1>2. Tried(todo)
  BY DEF LoopInv, AtRule, Tried
<1>3. AtRules'
  BY <1>1, <1>2 DEF LoopInv, AtRules, Tried
<1> QED BY <1>1, <1>3 DEF LoopInv

\* It decides: it is the first that does.
LEMMA RuleIsFirst ==
  ASSUME LoopInv, pc = "rule", Decides(flag, ctx, rule)
  PROVE  First(flag, ctx, rule)
BY DEF LoopInv, AtRules, AtRule, Tried, First

LEMMA ReturnKeeps ==
  ASSUME LoopInv, NEW r, Return(r),
         r = Evaluate(flag, ctx),
         r.match => flag.enabled /\ \E i \in DOMAIN flag.rules :
                      /\ First(flag, ctx, i) /\ Fulfilled(flag, ctx, i)
                      /\ r = Response(flag.rules[i].value, TRUE, "rule_match"),
         r.reason = "error" => \E c \in ConditionsOf(flag) : EvalCondition(c, ctx) = "error"
  PROVE  LoopInv'
<1>1. resp' = r /\ pc' = "done" /\ UNCHANGED <<flag, input, ctx>>
  BY DEF Return, arguments
<1> QED BY <1>1 DEF LoopInv, Arguments, Served

\* What the condition that the loops have come to, if it does not hold, says of
\* the rule.
LEMMA ConditionSays ==
  ASSUME LoopInv, Ahead, EvalCondition(List[next], ctx) # "true"
  PROVE  Says(flag, ctx, rule) = EvalCondition(List[next], ctx)
<1>1. /\ Arguments /\ AtRule /\ InRule /\ next \in DOMAIN List
      /\ WellTyped(flag)
  BY FlagTyped DEF LoopInv, Ahead
<1>2. EvalAll(List, ctx) = EvalCondition(List[next], ctx)
  BY <1>1, ListTyped, ListFails DEF InRule
<1>3. CASE seg = Inline
  BY <1>2, <1>3 DEF List, Says, EvalRule
<1>4. CASE seg # Inline
  <2>1. EvalAll(flag.rules[rule].conds, ctx) = "true"
    BY <1>1, <1>4, ListHolds DEF InRule
  <2>2. seg \in flag.rules[rule].segs /\ flag.rules[rule].segs \subseteq Int
    BY <1>1, <1>4 DEF InRule, Entered, WellTyped, AtRule
  <2>3. EvalSegment(seg, flag.segments, ctx) = EvalCondition(List[next], ctx)
    BY <1>1, <1>2, <1>4 DEF InRule, EvalSegment, List
  <2>4. \A h \in flag.rules[rule].segs :
          h # seg => EvalSegment(h, flag.segments, ctx) = "true" \/ seg < h
    BY <1>1, <1>4, ListHolds DEF InRule, Entered, EvalSegment
  <2> QED BY <2>1, <2>2, <2>3, <2>4, SegmentFails
<1> QED BY <1>3, <1>4

LEMMA CheckConditionKeeps == LoopInv /\ CheckCondition => LoopInv'
<1> SUFFICES ASSUME LoopInv, CheckCondition PROVE LoopInv'
  OBVIOUS
<1>1. /\ Ahead /\ pc = "rule" /\ Arguments /\ AtRules /\ AtRule /\ InRule /\ next \in DOMAIN List
      /\ WellTyped(flag) /\ rule \in DOMAIN flag.rules
  BY FlagTyped DEF CheckCondition, Ahead, LoopInv, AtRule
<1>2. EvalCondition(List[next], ctx) \in {"error", "true", "false"}
  BY DEF EvalCondition
<1>3. CASE EvalCondition(List[next], ctx) = "error"
  <2>1. Return(Response(flag.default, FALSE, "error"))
    BY <1>3 DEF CheckCondition
  <2>2. Says(flag, ctx, rule) = "error"
    BY <1>1, <1>3, ConditionSays
  <2>3. First(flag, ctx, rule)
    BY <1>1, <2>2, RuleIsFirst DEF Decides
  <2>4. Evaluate(flag, ctx) = Response(flag.default, FALSE, "error")
    BY <1>1, <2>2, <2>3, EvaluateFirst DEF AtRules
  <2>5. List[next] \in ConditionsOf(flag)
    BY <1>1, ListTyped
  <2>6. ~Response(flag.default, FALSE, "error").match
    BY DEF Response
  <2> QED BY <1>3, <2>1, <2>4, <2>5, <2>6, ReturnKeeps
<1>4. CASE EvalCondition(List[next], ctx) = "false"
  <2>1. Skip
    BY <1>4 DEF CheckCondition
  <2>2. ~Decides(flag, ctx, rule)
    BY <1>1, <1>4, ConditionSays DEF Decides
  <2> QED BY <1>1, <2>1, <2>2, SkipKeeps
<1>5. CASE EvalCondition(List[next], ctx) = "true"
  <2>1. Holds
    BY <1>5 DEF CheckCondition
  <2>2. /\ next' = next + 1 /\ UNCHANGED <<flag, input, ctx, todo, rule, segs, seg, pc>>
        /\ List' = List
    BY <2>1 DEF Holds, arguments, List
  <2>3. next' \in 1 .. Len(List) + 1 /\ \A m \in 1 .. next' - 1 : EvalCondition(List[m], ctx) = "true"
    BY <1>1, <1>5, <2>2, ListTyped DEF InRule
  <2>4. InRule'
    BY <1>1, <2>2, <2>3 DEF InRule, Entered
  <2>5. Arguments' /\ AtRules' /\ AtRule'
    BY <1>1, <2>2 DEF Arguments, AtRules, AtRule, Tried
  <2> QED BY <1>1, <2>2, <2>4, <2>5 DEF LoopInv
<1> QED BY <1>2, <1>3, <1>4, <1>5

\* A list that has been gone through holds.
LEMMA PassedHolds ==
  ASSUME LoopInv, Passed
  PROVE  AllTrue(List, ctx) /\ AllTrue(flag.rules[rule].conds, ctx)
         /\ \A g \in Entered : g \in DOMAIN flag.segments /\ AllTrue(flag.segments[g], ctx)
<1>1. Arguments /\ AtRule /\ InRule /\ next \notin DOMAIN List
  BY DEF LoopInv, Passed
<1>2. AllTrue(List, ctx)
  BY <1>1, ListTyped DEF InRule, AllTrue
<1>3. CASE seg = Inline
  BY <1>1, <1>2, <1>3 DEF List, InRule, Entered
<1>4. CASE seg # Inline
  <2>1. List = flag.segments[seg]
    BY <1>4 DEF List
  <2> QED BY <1>1, <1>2, <1>4, <2>1 DEF InRule
<1> QED BY <1>3, <1>4

LEMMA EnterSegmentKeeps == LoopInv /\ EnterSegment => LoopInv'
<1> SUFFICES ASSUME LoopInv, EnterSegment PROVE LoopInv'
  OBVIOUS
<1>1. /\ Passed /\ pc = "rule" /\ Arguments /\ AtRules /\ AtRule /\ InRule
      /\ WellTyped(flag) /\ rule \in DOMAIN flag.rules
  BY FlagTyped DEF EnterSegment, Passed, LoopInv, AtRule
<1>2. PICK g \in segs : /\ \A h \in segs : g <= h
                        /\ IF g \in DOMAIN flag.segments THEN Enter(g) ELSE Skip
  BY DEF EnterSegment
<1>3. flag.rules[rule].segs \subseteq Int \ {Inline} /\ segs \subseteq flag.rules[rule].segs
  BY <1>1 DEF WellTyped, InRule
<1>4. CASE g \in DOMAIN flag.segments
  <2>1. /\ segs' = segs \ {g} /\ seg' = g /\ next' = 1
        /\ UNCHANGED <<flag, input, ctx, todo, rule, pc>>
    BY <1>2, <1>4 DEF Enter, arguments
  <2>2. Arguments' /\ AtRules' /\ AtRule'
    BY <1>1, <2>1 DEF Arguments, AtRules, AtRule, Tried
  <2>3. seg' # Inline /\ List' = flag.segments[g] /\ Entered' = Entered \cup {g}
    BY <1>2, <1>3, <2>1 DEF List, Entered
  <2>4. flag.segments[g] \in Seq(ConditionsOf(flag))
    BY <1>1, <1>4 DEF WellTyped
  <2>5. \A h \in Entered \cup {g}, k \in segs \ {g} : h < k
    BY <1>1, <1>2, <1>3 DEF InRule
  <2>6. InRule'
    BY <1>1, <1>2, <1>3, <1>4, <2>1, <2>3, <2>4, <2>5, PassedHolds DEF InRule
  <2> QED BY <1>1, <2>1, <2>2, <2>6 DEF LoopInv
<1>5. CASE g \notin DOMAIN flag.segments
  <2>1. EvalSegment(g, flag.segments, ctx) = "false"
    BY <1>5 DEF EvalSegment
  <2>2. EvalAll(flag.rules[rule].conds, ctx) = "true"
    BY <1>1, PassedHolds, ListHolds
  <2>3. \A h \in flag.rules[rule].segs : h # g => EvalSegment(h, flag.segments, ctx) = "true" \/ g < h
    BY <1>1, <1>2, <1>3, PassedHolds, ListHolds DEF Entered, EvalSegment
  <2>4. Says(flag, ctx, rule) = "false"
    BY <1>2, <1>3, <2>1, <2>2, <2>3, SegmentFails
  <2> QED BY <1>1, <1>2, <1>5, <2>4, SkipKeeps DEF Decides
<1> QED BY <1>4, <1>5

LEMMA MatchedKeeps == LoopInv /\ Matched => LoopInv'
<1> SUFFICES ASSUME LoopInv, Matched PROVE LoopInv'
  OBVIOUS
<1> DEFINE r == flag.rules[rule]
<1>1. /\ Passed /\ pc = "rule" /\ segs = {} /\ Arguments /\ AtRules /\ AtRule /\ InRule
      /\ WellTyped(flag) /\ rule \in DOMAIN flag.rules
  BY FlagTyped DEF Matched, Passed, LoopInv, AtRule
<1>2. Fulfilled(flag, ctx, rule)
  BY <1>1, PassedHolds DEF Fulfilled, Entered
<1>3. Says(flag, ctx, rule) = "true"
  BY <1>2, RuleHolds
<1>4. r.rollout \in 0 .. 100
  BY <1>1 DEF WellTyped
<1> DEFINE out == /\ r.rollout > 0 /\ r.rollout < 100
                  /\ ctx.bucket = NoEntity \/ ~InRollout(ctx.bucket, r.rollout)
<1>5. IF out THEN Skip ELSE Return(Response(r.value, TRUE, "rule_match"))
  BY DEF Matched
<1>6. out <=> ~Admits(r, ctx)
  BY <1>4 DEF Admits
<1> HIDE DEF out
<1>7. CASE Admits(r, ctx)
  <2>1. Return(Response(r.value, TRUE, "rule_match"))
    BY <1>5, <1>6, <1>7
  <2>2. First(flag, ctx, rule)
    BY <1>1, <1>3, <1>7, RuleIsFirst DEF Decides
  <2>3. Evaluate(flag, ctx) = Response(r.value, TRUE, "rule_match")
    BY <1>1, <1>3, <2>2, EvaluateFirst DEF AtRules
  <2>4. Response(r.value, TRUE, "rule_match").reason # "error"
    BY DEF Response
  <2> QED BY <1>1, <1>2, <2>1, <2>2, <2>3, <2>4, ReturnKeeps DEF AtRules
<1>8. CASE ~Admits(r, ctx)
  <2>1. Skip
    BY <1>5, <1>6, <1>8
  <2>2. ~Decides(flag, ctx, rule)
    BY <1>3, <1>8 DEF Decides
  <2> QED BY <1>1, <2>1, <2>2, SkipKeeps
<1> QED BY <1>7, <1>8

LEMMA TryRuleKeeps == LoopInv /\ TryRule => LoopInv'
<1> SUFFICES ASSUME LoopInv, TryRule PROVE LoopInv'
  OBVIOUS
<1>1. pc = "rules" /\ Arguments /\ AtRules /\ WellTyped(flag)
  BY FlagTyped DEF TryRule, LoopInv
<1>2. PICK i \in todo : /\ \A j \in todo \ {i} : Before(flag.rules, i, j)
                        /\ rule' = i /\ todo' = todo \ {i} /\ segs' = flag.rules[i].segs
  BY DEF TryRule
<1>3. /\ pc' = "rule" /\ seg' = Inline /\ next' = 1 /\ UNCHANGED <<flag, input, ctx>>
      /\ i \in DOMAIN flag.rules
  BY <1>1, <1>2 DEF TryRule, arguments, AtRules
<1>4. Arguments' /\ AtRules'
  BY <1>1, <1>2, <1>3 DEF Arguments, AtRules
<1>5. AtRule'
  BY <1>1, <1>2, <1>3 DEF AtRule, AtRules, Tried
<1>6. List' = flag.rules[i].conds /\ List' \in Seq(ConditionsOf(flag)) /\ Entered' = {}
  BY <1>1, <1>2, <1>3 DEF List, WellTyped, Entered
<1>7. InRule'
  BY <1>2, <1>3, <1>6 DEF InRule
<1> QED BY <1>3, <1>4, <1>5, <1>7 DEF LoopInv

LEMMA OtherStepsKeep == LoopInv /\ (Disabled \/ NoRules \/ Sort \/ NoneMatched) => LoopInv'
<1> SUFFICES ASSUME LoopInv PROVE Disabled \/ NoRules \/ Sort \/ NoneMatched => LoopInv'
  OBVIOUS
<1>1. ASSUME NEW v, NEW reason \in {"disabled", "default"}
      PROVE  /\ ~Response(v, FALSE, reason).match
             /\ Response(v, FALSE, reason).reason # "error"
  BY DEF Response
<1>2. ASSUME Disabled PROVE LoopInv'
  <2>1. Return(Response(IfBoolean(JSONFalse), FALSE, "disabled")) /\ ~flag.enabled
    BY <1>2 DEF Disabled
  <2>2. Evaluate(flag, ctx) = Response(IfBoolean(JSONFalse), FALSE, "disabled")
    BY <2>1 DEF Evaluate, IfBoolean
  <2> QED BY <1>1, <2>1, <2>2, ReturnKeeps
<1>3. ASSUME NoRules PROVE LoopInv'
  <2>1. Return(Response(IfBoolean(JSONTrue), FALSE, "default"))
        /\ flag.enabled /\ DOMAIN flag.rules = {}
    BY <1>3 DEF NoRules
  <2>2. Evaluate(flag, ctx) = Response(IfBoolean(JSONTrue), FALSE, "default")
    BY <2>1 DEF Evaluate, IfBoolean
  <2> QED BY <1>1, <2>1, <2>2, ReturnKeeps
<1>4. ASSUME Sort PROVE LoopInv'
  <2>1. /\ flag.enabled /\ DOMAIN flag.rules # {} /\ pc' = "rules" /\ todo' = DOMAIN flag.rules
        /\ UNCHANGED <<flag, input, ctx>>
    BY <1>4 DEF Sort, arguments
  <2> QED BY <2>1 DEF LoopInv, Arguments, AtRules, Tried
<1>5. ASSUME NoneMatched PROVE LoopInv'
  <2>1. Return(Response(flag.default, FALSE, "default")) /\ pc = "rules" /\ todo = {}
    BY <1>5 DEF NoneMatched
  <2>2. Evaluate(flag, ctx) = Response(flag.default, FALSE, "default")
    BY <2>1, EvaluateNone DEF LoopInv, AtRules, Tried
  <2> QED BY <1>1, <2>1, <2>2, ReturnKeeps
<1> QED BY <1>2, <1>3, <1>4, <1>5

LEMMA LoopInvariant == Spec => []LoopInv
<1>1. Init => LoopInv
  BY DEF Init, LoopInv, Arguments
<1>2. LoopInv /\ [Next]_vars => LoopInv'
  <2>1. LoopInv /\ UNCHANGED vars => LoopInv'
    BY DEF vars, arguments, loops, LoopInv, Arguments, AtRules, AtRule, InRule, Tried, Entered,
           List, Served
  <2> QED BY <2>1, CheckConditionKeeps, EnterSegmentKeeps, MatchedKeeps, TryRuleKeeps,
             OtherStepsKeep DEF Next
<1> QED BY <1>1, <1>2, PTL DEF Spec
-----------------------------------------------------------------------------
(* What the invariant says of what is served. *)

\* Evaluate computes what Engine says, for every flag and every
\* context: the loops of Evaluate and evalRule (evaluator.go:29-117) stop at the
\* first rule by priority that decides.
THEOREM EngineComputesEvaluate == Spec => []LoopsComputeEvaluate
<1>1. LoopInv => LoopsComputeEvaluate
  BY DEF LoopInv, Served, LoopsComputeEvaluate
<1> QED BY <1>1, LoopInvariant, PTL

LEMMA TrueHolds ==
  ASSUME NEW c, EvalCondition(c, ctx) = "true"
  PROVE  c \in ctx.holds
BY DEF EvalCondition

\* A rule's value is served only when its inline conditions hold and each of its
\* segments is there and holds (evaluator.go:86-117, fail closed).
THEOREM ServedIsMatched == Spec => []ServedMeansMatched
<1>1. LoopInv => ServedMeansMatched
  <2> SUFFICES ASSUME LoopInv, pc = "done", resp.match PROVE ServedMeansMatched
    BY DEF ServedMeansMatched
  <2>1. PICK i \in DOMAIN flag.rules :
          Fulfilled(flag, ctx, i) /\ resp = Response(flag.rules[i].value, TRUE, "rule_match")
    BY DEF LoopInv, Served
  <2>2. flag.rules[i].value = resp.value
    BY <2>1 DEF Response
  <2>3. \A n \in DOMAIN flag.rules[i].conds : flag.rules[i].conds[n] \in ctx.holds
    BY <2>1, TrueHolds DEF Fulfilled, AllTrue
  <2>4. \A g \in flag.rules[i].segs :
          /\ g \in DOMAIN flag.segments
          /\ \A n \in DOMAIN flag.segments[g] : flag.segments[g][n] \in ctx.holds
    BY <2>1, TrueHolds DEF Fulfilled, AllTrue
  <2> QED BY <2>2, <2>3, <2>4 DEF ServedMeansMatched
<1> QED BY <1>1, LoopInvariant, PTL

\* What an operator says of an attribute that is not there.
LEMMA AbsentIsFalse ==
  ASSUME NEW c, NEW o, Outcome(c, o) = "true"
  PROVE  c.op = "exists" \/ resolveAttribute(o, c.attr) # Missing
BY DEF Outcome

\* Nothing is served on an attribute the context lacks, whatever the operator,
\* unless that is exists (conditions.go:53-64, fail closed).
THEOREM AbsentFailsClosed == Spec => []AbsentServesNone
<1>1. LoopInv => AbsentServesNone
  <2> SUFFICES ASSUME LoopInv, pc = "done", resp.match PROVE AbsentServesNone
    BY DEF AbsentServesNone
  <2>1. PICK i \in DOMAIN flag.rules :
          Fulfilled(flag, ctx, i) /\ resp = Response(flag.rules[i].value, TRUE, "rule_match")
    BY DEF LoopInv, Served
  <2>2. flag.rules[i].value = resp.value
    BY <2>1 DEF Response
  <2>3. ASSUME NEW c \in Guards(i)
        PROVE  c.op = "exists" \/ resolveAttribute(input, c.attr) # Missing
    <3>1. EvalCondition(c, ctx) = "true"
      BY <2>1, <2>3 DEF Guards, Range, Fulfilled, AllTrue
    <3>2. c \in ctx.holds /\ ctx = ContextOf(flag, input)
      BY <3>1, TrueHolds DEF LoopInv, Arguments
    <3> QED BY <3>2, AbsentIsFalse DEF ContextOf
  <2> QED BY <2>2, <2>3 DEF AbsentServesNone
<1> QED BY <1>1, LoopInvariant, PTL

\* Only the condition itself makes an operator fail.
LEMMA ErrorIsMalformed ==
  ASSUME NEW c, NEW o, c.op \in Operators, Outcome(c, o) = "error"
  PROVE  ~WellFormed(c)
<1> DEFINE found == resolveAttribute(o, c.attr)
           a == IF found = Missing THEN Null ELSE found
<1> HIDE DEF a
<1>1. conditionFuncs(c.op, a, c.value) = "error"
  BY DEF Outcome, a
<1>2. CASE c.op \in {"equals", "not_equals"}
  BY <1>1, <1>2 DEF conditionFuncs, opEquals, Not, Verdict, WellFormed
<1>3. CASE c.op \in {"in", "not_in"}
  BY <1>1, <1>3 DEF conditionFuncs, opIn, Not, Verdict, WellFormed
<1>4. CASE c.op \in {"contains", "starts_with"}
  BY <1>1, <1>4 DEF conditionFuncs, Textual, Verdict, WellFormed
<1>5. CASE c.op \in {"gt", "gte", "lt", "lte"}
  BY <1>1, <1>5 DEF conditionFuncs, opGT, opGTE, opLT, opLTE, Ordering, Verdict, WellFormed
<1>6. CASE c.op = "exists"
  BY <1>1, <1>6 DEF conditionFuncs, opExists, Verdict, WellFormed
<1>7. CASE c.op = "regex"
  BY <1>1, <1>7 DEF conditionFuncs, opRegex, Verdict, WellFormed
<1> QED BY <1>2, <1>3, <1>4, <1>5, <1>6, <1>7 DEF Operators

\* No context a client sends makes an evaluation fail, only a stored condition
\* value of the wrong shape (conditions.go:98-260).
THEOREM FailuresAreMalformed == Spec => []OnlyMalformedFails
<1>1. LoopInv => OnlyMalformedFails
  <2> SUFFICES ASSUME LoopInv, pc = "done", resp.reason = "error" PROVE OnlyMalformedFails
    BY DEF OnlyMalformedFails
  <2>1. PICK c \in ConditionsOf(flag) : EvalCondition(c, ctx) = "error"
    BY DEF LoopInv, Served
  <2>2. Outcome(c, input) = "error"
    BY <2>1 DEF EvalCondition, LoopInv, Arguments, ContextOf
  <2>3. c.op \in Operators
    BY FlagTyped DEF LoopInv, WellTyped
  <2> QED BY <2>2, <2>3, ErrorIsMalformed DEF OnlyMalformedFails
<1> QED BY <1>1, LoopInvariant, PTL
-----------------------------------------------------------------------------
(* Raising a percentage. *)

LEMMA BucketTyped == Arguments => ctx.bucket \in Int
<1> SUFFICES ASSUME Arguments PROVE ctx.bucket \in Int
  OBVIOUS
<1>1. ctx.bucket = RolloutBucket(input) /\ resolveEntityID(input) \subseteq Texts
  BY EvaluationAssumption DEF Arguments, ContextOf
<1>2. CASE resolveEntityID(input) \subseteq {""}
  <2>1. RolloutBucket(input) = NoEntity
    BY <1>2 DEF RolloutBucket
  <2>2. NoEntity \in Int
    BY DEF NoEntity
  <2> QED BY <1>1, <2>1, <2>2
<1>3. CASE ~(resolveEntityID(input) \subseteq {""})
  <2> DEFINE entity == CHOOSE t \in resolveEntityID(input) : TRUE
  <2>1. entity \in Texts
    BY <1>1, <1>3
  <2>2. ctx.bucket = Buckets[entity]
    BY <1>1, <1>3 DEF RolloutBucket
  <2> HIDE DEF entity
  <2>3. Buckets[entity] \in 0 .. 99
    BY <2>1, ConditionsAssumption
  <2> QED BY <2>2, <2>3
<1> QED BY <1>2, <1>3

\* g is the flag with rollout p for rule k.
Raises(g, k, p) ==
  /\ WellTyped(g) /\ g.enabled = flag.enabled
  /\ DOMAIN g.rules = DOMAIN flag.rules /\ g.segments = flag.segments
  /\ g.rules[k].rollout = p
  /\ \A j \in DOMAIN flag.rules :
       /\ g.rules[j].conds = flag.rules[j].conds /\ g.rules[j].segs = flag.rules[j].segs
       /\ g.rules[j].value = flag.rules[j].value
       /\ g.rules[j].priority = flag.rules[j].priority
       /\ j # k => g.rules[j].rollout = flag.rules[j].rollout

LEMMA RaisedIs ==
  ASSUME WellTyped(flag), NEW k \in DOMAIN flag.rules, NEW p \in 0 .. 100
  PROVE  Raises(Raised(k, p), k, p)
<1> DEFINE g == Raised(k, p)
<1>1. /\ DOMAIN g = DOMAIN flag /\ g.enabled = flag.enabled /\ g.segments = flag.segments
      /\ g.rules = [flag.rules EXCEPT ![k].rollout = p]
  BY DEF WellTyped, Raised
<1>2. /\ DOMAIN g.rules = DOMAIN flag.rules /\ g.rules[k] = [flag.rules[k] EXCEPT !.rollout = p]
      /\ \A j \in DOMAIN flag.rules : j # k => g.rules[j] = flag.rules[j]
  BY <1>1
<1> HIDE DEF g
<1>3. /\ g.rules[k].rollout = p /\ DOMAIN g.rules[k] = DOMAIN flag.rules[k]
      /\ g.rules[k].conds = flag.rules[k].conds /\ g.rules[k].segs = flag.rules[k].segs
      /\ g.rules[k].value = flag.rules[k].value /\ g.rules[k].priority = flag.rules[k].priority
  BY <1>2 DEF WellTyped
<1>4. \A j \in DOMAIN flag.rules :
        /\ g.rules[j].conds = flag.rules[j].conds /\ g.rules[j].segs = flag.rules[j].segs
        /\ g.rules[j].value = flag.rules[j].value
        /\ g.rules[j].priority = flag.rules[j].priority
        /\ DOMAIN g.rules[j] = DOMAIN flag.rules[j]
        /\ j # k => g.rules[j].rollout = flag.rules[j].rollout
  BY <1>2, <1>3
<1>5. ConditionsOf(g) = ConditionsOf(flag)
  <2>1. {Range(g.rules[i].conds) : i \in DOMAIN g.rules}
          = {Range(flag.rules[i].conds) : i \in DOMAIN flag.rules}
    BY <1>2, <1>4
  <2> QED BY <1>1, <2>1 DEF ConditionsOf
<1>6. WellTyped(g)
  BY <1>1, <1>2, <1>3, <1>4, <1>5 DEF WellTyped
<1> QED BY <1>1, <1>2, <1>3, <1>4, <1>6 DEF g, Raises

\* The rule that is first stays so, or the raised one comes before it.
LEMMA RaisedFirst ==
  ASSUME Arguments, NEW i, First(flag, ctx, i), Says(flag, ctx, i) = "true",
         NEW k \in DOMAIN flag.rules, flag.rules[k].rollout \in 1 .. 99,
         NEW p \in 0 .. 100, p > flag.rules[k].rollout
  PROVE  \E f \in {i, k} : First(Raised(k, p), ctx, f) /\ Says(Raised(k, p), ctx, f) = "true"
<1> DEFINE g == Raised(k, p)
<1> HIDE DEF g
<1>1. WellTyped(flag) /\ ctx.bucket \in Int /\ i \in DOMAIN flag.rules
  BY FlagTyped, BucketTyped DEF First
<1>2. Raises(g, k, p)
  BY <1>1, RaisedIs DEF g
<1>3. \A j \in DOMAIN flag.rules : Says(g, ctx, j) = Says(flag, ctx, j)
  BY <1>2 DEF Raises, Says, EvalRule
<1>4. \A j, l \in DOMAIN flag.rules : Before(g.rules, j, l) <=> Before(flag.rules, j, l)
  BY <1>2 DEF Raises, Before
<1>5. \A j \in DOMAIN flag.rules : j # k => (Decides(g, ctx, j) <=> Decides(flag, ctx, j))
  BY <1>2, <1>3 DEF Raises, Decides, Admits
<1>6. Decides(flag, ctx, k) => Decides(g, ctx, k)
  <2>1. Admits(flag.rules[k], ctx) => Admits(g.rules[k], ctx)
    BY <1>1, <1>2 DEF Raises, Admits, InRollout
  <2> QED BY <1>3, <2>1 DEF Decides
<1>7. CASE k = i \/ ~Decides(g, ctx, k) \/ Before(flag.rules, i, k)
  <2>1. i \in DOMAIN g.rules /\ Decides(g, ctx, i)
    BY <1>1, <1>2, <1>5, <1>6 DEF Raises, First
  <2>2. ASSUME NEW j \in DOMAIN g.rules, j # i, Decides(g, ctx, j)
        PROVE  Before(flag.rules, i, j)
    BY <1>2, <1>5, <1>7, <2>2 DEF Raises, First
  <2>3. First(g, ctx, i)
    BY <1>1, <1>2, <1>4, <2>1, <2>2 DEF Raises, First
  <2> QED BY <1>3, <1>1, <2>3 DEF g
<1>8. CASE k # i /\ Decides(g, ctx, k) /\ ~Before(flag.rules, i, k)
  <2>1. ~Decides(flag, ctx, k) /\ Says(g, ctx, k) = "true"
    BY <1>3, <1>8 DEF First, Decides
  <2>2. \A j \in DOMAIN flag.rules : Before(flag.rules, i, j) => Before(flag.rules, k, j)
    BY <1>1, <1>8 DEF Before, WellTyped
  <2>3. Before(flag.rules, k, i)
    BY <1>1, <1>8 DEF Before, WellTyped
  <2>4. First(g, ctx, k)
    BY <1>1, <1>2, <1>4, <1>5, <1>8, <2>2, <2>3 DEF Raises, First
  <2> QED BY <2>1, <2>4 DEF g
<1> QED BY <1>7, <1>8

LEMMA RaisedServes ==
  ASSUME flag.enabled, NEW g, NEW k, NEW p, Raises(g, k, p),
         NEW i \in DOMAIN flag.rules, First(g, ctx, i), Says(g, ctx, i) = "true"
  PROVE  Evaluate(g, ctx).value = flag.rules[i].value
<1>1. WellTyped(g) /\ g.enabled /\ g.rules[i].value = flag.rules[i].value
  BY DEF Raises
<1>2. Evaluate(g, ctx) = Response(g.rules[i].value, TRUE, "rule_match")
  BY <1>1, EvaluateFirst
<1> QED BY <1>1, <1>2 DEF Response

\* Raising the percentage of a rule under rollout never takes the flag's rule
\* value away from an entity that has it (evaluator.go:66-77, rollout.go:61-78).
THEOREM RolloutOnlyGrows == Spec => []RolloutGrows
<1>1. LoopInv => RolloutGrows
  <2> SUFFICES ASSUME LoopInv, pc = "done", resp.match, NEW k \in DOMAIN flag.rules,
                      flag.rules[k].rollout \in 1 .. 99,
                      NEW p \in {flag.rules[k].rollout + 1, 99, 100},
                      p > flag.rules[k].rollout
               PROVE  Evaluate(Raised(k, p), ctx).value \in {resp.value, flag.rules[k].value}
    BY DEF RolloutGrows
  <2>1. Arguments /\ WellTyped(flag) /\ p \in 0 .. 100
    BY FlagTyped DEF LoopInv
  <2>2. PICK i \in DOMAIN flag.rules :
          /\ First(flag, ctx, i) /\ Fulfilled(flag, ctx, i)
          /\ flag.enabled /\ resp = Response(flag.rules[i].value, TRUE, "rule_match")
    BY DEF LoopInv, Served
  <2>3. Says(flag, ctx, i) = "true" /\ resp.value = flag.rules[i].value
    BY <2>2, RuleHolds DEF Response
  <2>4. PICK first \in {i, k} : First(Raised(k, p), ctx, first) /\ Says(Raised(k, p), ctx, first) = "true"
    BY <2>1, <2>2, <2>3, RaisedFirst
  <2>5. Raises(Raised(k, p), k, p)
    BY <2>1, RaisedIs
  <2>6. Evaluate(Raised(k, p), ctx).value = flag.rules[first].value
    BY <2>2, <2>4, <2>5, RaisedServes
  <2> QED BY <2>3, <2>6
<1> QED BY <1>1, LoopInvariant, PTL

-----------------------------------------------------------------------------
(* The operators among themselves. *)

LEMMA UnderIs ==
  ASSUME Arguments, NEW c \in ConditionsOf(flag), NEW op \in Operators
  PROVE  LET a == resolveAttribute(input, c.attr) IN
         /\ Known(a) /\ Known(c.value)
         /\ a = Missing => Under(c, op) = IF op # "exists" THEN "false"
                                          ELSE conditionFuncs(op, Null, c.value)
         /\ a # Missing => Under(c, op) = conditionFuncs(op, a, c.value)
<1>1. /\ DOMAIN c = {"attr", "op", "value"} /\ Known(c.value)
      /\ Known(resolveAttribute(input, c.attr))
  BY FlagTyped, EvaluationAssumption DEF Arguments, WellTyped
<1>2. [c EXCEPT !.op = op].attr = c.attr /\ [c EXCEPT !.op = op].value = c.value
      /\ [c EXCEPT !.op = op].op = op
  BY <1>1
<1> QED BY <1>1, <1>2 DEF Under, Outcome

\* Of two numbers exactly one of lt, equals and gt holds, and gte and lte are
\* their unions; of anything else none does (conditions.go:181-227).
THEOREM OrderIsTotal == Spec => []OrderOperatorsAgree
<1>1. LoopInv => OrderOperatorsAgree
  <2> SUFFICES ASSUME LoopInv, NEW c \in ConditionsOf(flag)
               PROVE  LET holding == {op \in {"lt", "equals", "gt", "gte", "lte"} :
                                        Under(c, op) = "true"} IN
                      IF Kind(resolveAttribute(input, c.attr)) = "number" /\ Kind(c.value) = "number"
                      THEN holding \in {{"lt", "lte"}, {"equals", "gte", "lte"}, {"gt", "gte"}}
                      ELSE holding \subseteq {"equals"}
    BY DEF OrderOperatorsAgree
  <2> DEFINE a == resolveAttribute(input, c.attr)
             holding == {op \in {"lt", "equals", "gt", "gte", "lte"} : Under(c, op) = "true"}
  <2>1. Known(a) /\ Known(c.value)
    BY UnderIs DEF LoopInv, Operators
  <2>2. CASE Kind(a) = "number" /\ Kind(c.value) = "number"
    <3>0. Kind(Missing) # "number" /\ Kind(Broken) # "number"
      BY DEF Kind, Missing, Broken
    <3> DEFINE x == Amounts[a[2]]
               y == Amounts[c.value[2]]
    <3>1. x \in Int /\ y \in Int /\ a # Missing /\ c.value # Broken
      BY <2>1, <2>2, <3>0, ConditionsAssumption DEF Known
    <3>5. toFloat64(a) = {x} /\ toFloat64(c.value) = {y}
      BY <2>2 DEF toFloat64
    <3> HIDE DEF x, y
    <3>2. /\ Under(c, "lt") = "true" <=> x < y
          /\ Under(c, "lte") = "true" <=> x <= y
          /\ Under(c, "gt") = "true" <=> x > y
          /\ Under(c, "gte") = "true" <=> x >= y
          /\ Under(c, "equals") = "true" <=> x = y
      <4>1. numericCompare(a, c.value) = {<<x, y>>}
        BY <3>5 DEF numericCompare
      <4>2. \A op \in Operators : Under(c, op) = conditionFuncs(op, a, c.value)
        BY <3>1, UnderIs DEF LoopInv
      <4>3. Under(c, "equals") = "true" <=> x = y
        BY <3>1, <3>5, <4>2 DEF conditionFuncs, opEquals, compareValues, Verdict, Operators
      <4> QED BY <3>1, <4>1, <4>2, <4>3 DEF conditionFuncs, opGT, opGTE, opLT, opLTE, Ordering,
                                           Verdict, Operators
    <3>3. CASE x < y
      <4>1. holding = {"lt", "lte"}
        BY <3>1, <3>2, <3>3
      <4> QED BY <2>2, <4>1
    <3>4. CASE x = y
      <4>1. holding = {"equals", "gte", "lte"}
        BY <3>1, <3>2, <3>4
      <4> QED BY <2>2, <4>1
    <3>6. CASE x > y
      <4>1. holding = {"gt", "gte"}
        BY <3>1, <3>2, <3>6
      <4> QED BY <2>2, <4>1
    <3> QED BY <3>1, <3>3, <3>4, <3>6
  <2>3. CASE ~(Kind(a) = "number" /\ Kind(c.value) = "number")
    <3>1. numericCompare(a, c.value) = {}
      BY <2>3 DEF numericCompare, toFloat64
    <3>2. \A op \in {"lt", "lte", "gt", "gte"} :
            op \in Operators /\ conditionFuncs(op, a, c.value) # "true"
      BY <3>1 DEF conditionFuncs, opGT, opGTE, opLT, opLTE, Ordering, Verdict, Operators
    <3>3. \A op \in {"lt", "lte", "gt", "gte"} : Under(c, op) # "true"
      BY <3>2, UnderIs DEF LoopInv
    <3>4. holding \subseteq {"equals"}
      BY <3>3
    <3> QED BY <2>3, <3>4
  <2> QED BY <2>2, <2>3
<1> QED BY <1>1, LoopInvariant, PTL

\* What equals a value starts with its text, and so contains it, whatever kinds
\* the two are, unless they are the numbers 0 and -0 (conditions.go:79-96,
\* 149-179, 262-286).
THEOREM EqualsIsTextual == Spec => []TextOperatorsAgree
<1>1. LoopInv => TextOperatorsAgree
  <2> SUFFICES ASSUME LoopInv, NEW c \in ConditionsOf(flag)
               PROVE  LET a == resolveAttribute(input, c.attr) IN
                      /\ Under(c, "equals") = "true" => \/ Under(c, "starts_with") = "true"
                                                        \/ Zero(a) /\ Zero(c.value)
                      /\ Under(c, "starts_with") = "true" => Under(c, "contains") = "true"
    BY DEF TextOperatorsAgree
  <2> DEFINE a == resolveAttribute(input, c.attr)
  <2> HIDE DEF a
  <2>1. /\ Known(a) /\ Known(c.value)
        /\ \A op \in {"equals", "starts_with", "contains"} :
             /\ a = Missing => Under(c, op) = "false"
             /\ a # Missing => Under(c, op) = conditionFuncs(op, a, c.value)
    BY UnderIs DEF LoopInv, Operators, a
  <2>2. /\ conditionFuncs("starts_with", a, c.value) = Textual(a, c.value, Starts)
        /\ conditionFuncs("contains", a, c.value) = Textual(a, c.value, Inside)
        /\ conditionFuncs("equals", a, c.value) = opEquals(a, c.value)
    BY DEF conditionFuncs
  <2>3. Textual(a, c.value, Starts) = "true" => Textual(a, c.value, Inside) = "true"
    BY ConditionsAssumption DEF Textual, Verdict
  <2>4. ASSUME opEquals(a, c.value) = "true", ~(Zero(a) /\ Zero(c.value))
        PROVE  Textual(a, c.value, Starts) = "true"
    <3>1. compareValues(a, c.value) /\ c.value # Broken
      BY <2>4 DEF opEquals, Verdict
    <3>2. \A t \in toString(a) \cup toString(c.value) : t \in Texts
      BY <2>1, ConditionsAssumption DEF Known, toString
    <3>3. toString(a) # {} /\ toString(a) = toString(c.value)
      <4>1. CASE toFloat64(a) # {} /\ toFloat64(c.value) # {}
        <5>1. Kind(a) = "number" /\ Kind(c.value) = "number"
          BY <4>1 DEF toFloat64
        <5>2. toFloat64(a) = {Amounts[a[2]]} /\ toFloat64(c.value) = {Amounts[c.value[2]]}
          BY <5>1 DEF toFloat64
        <5>3. Amounts[a[2]] = Amounts[c.value[2]] /\ Amounts[a[2]] # 0
          BY <2>4, <3>1, <4>1, <5>2 DEF compareValues, Zero
        <5>4. a[2] = c.value[2]
          BY <2>1, <5>1, <5>3, ConditionsAssumption DEF Known
        <5> QED BY <5>1, <5>4 DEF toString
      <4>2. CASE ~(toFloat64(a) # {} /\ toFloat64(c.value) # {})
        BY <2>1, <3>1, <4>2 DEF compareValues, toFloat64, toString, Known
      <4> QED BY <4>1, <4>2
    <3> QED BY <3>1, <3>2, <3>3, ConditionsAssumption DEF Textual, Verdict
  <2> QED BY <2>1, <2>2, <2>3, <2>4 DEF a
<1> QED BY <1>1, LoopInvariant, PTL
=============================================================================
