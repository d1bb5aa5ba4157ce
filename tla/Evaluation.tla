----------------------------- MODULE Evaluation -----------------------------
(***************************************************************************)
(* The evaluator as the code runs it: the loop of Evaluate over the sorted *)
(* rules, and in it the loops of evalRule over the inline conditions and   *)
(* over the segments and theirs, with every early return.  Engine states   *)
(* what the loops compute, and Conditions what a condition says of the     *)
(* JSON object a client sends as its context.                              *)
(***************************************************************************)
EXTENDS Conditions, Functions

CONSTANT Cases   \* <<f, o>>: flag f is evaluated in the JSON object o

\* A flag as GetFlagForEvaluation assembles it.
Inline == 0   \* not the key of a segment

ConditionsOf(f) == UNION ({Range(f.rules[i].conds) : i \in DOMAIN f.rules}
                          \cup {Range(f.segments[g]) : g \in DOMAIN f.segments})

WellTyped(f) ==
  /\ DOMAIN f = {"type", "enabled", "default", "rules", "segments"}
  /\ f.enabled \in BOOLEAN /\ DOMAIN f.rules \subseteq Int
  /\ \A i \in DOMAIN f.rules :
       /\ DOMAIN f.rules[i] = {"value", "priority", "rollout", "conds", "segs"}
       /\ f.rules[i].priority \in Int /\ f.rules[i].rollout \in 0 .. 100
       /\ f.rules[i].conds \in Seq(ConditionsOf(f))
       /\ f.rules[i].segs \subseteq Int \ {Inline}
  /\ \A g \in DOMAIN f.segments : f.segments[g] \in Seq(ConditionsOf(f))
  /\ \A c \in ConditionsOf(f) : /\ DOMAIN c = {"attr", "op", "value"}
                                /\ c.op \in Operators /\ Known(c.value)

ASSUME EvaluationAssumption ==
  \A case \in Cases :
    /\ WellTyped(case[1]) /\ Kind(case[2]) = "object"
    /\ resolveEntityID(case[2]) \subseteq Texts
    /\ \A c \in ConditionsOf(case[1]) : Known(resolveAttribute(case[2], c.attr))

VARIABLES flag, input, \* the arguments
          ctx,         \* what the engine sees of input
          todo,        \* the ids of the rules still to be tried
          rule,        \* the id of the current rule
          segs,        \* segments of the current rule still to be entered
          seg,         \* the segment whose conditions are checked, or Inline
          next,        \* the index of its next condition
          pc,          \* "start", "rules", "rule" and "done"
          resp         \* the response, decided once done

arguments == <<flag, input, ctx>>
loops == <<todo, rule, segs, seg, next>>
vars == <<arguments, loops, pc, resp>>

\* What the engine asks of context o for flag f.
ContextOf(f, o) == [holds  |-> {c \in ConditionsOf(f) : Outcome(c, o) = "true"},
                    errors |-> {c \in ConditionsOf(f) : Outcome(c, o) = "error"},
                    bucket |-> RolloutBucket(o)]

Init == /\ \E case \in Cases : /\ flag = case[1] /\ input = case[2]
                               /\ ctx = ContextOf(case[1], case[2])
        /\ todo = {} /\ rule = 0 /\ segs = {} /\ seg = Inline /\ next = 1
        /\ pc = "start" /\ resp = Response(flag.default, FALSE, "")

Return(r) == pc' = "done" /\ resp' = r /\ UNCHANGED <<arguments, loops>>

IfBoolean(v) == IF flag.type = "boolean" THEN v ELSE flag.default

Disabled == pc = "start" /\ ~flag.enabled
            /\ Return(Response(IfBoolean(JSONFalse), FALSE, "disabled"))

NoRules == pc = "start" /\ flag.enabled /\ DOMAIN flag.rules = {}
           /\ Return(Response(IfBoolean(JSONTrue), FALSE, "default"))

\* The rules come by priority and id from the store; the sort keeps that order,
\* in which TryRule takes them.
Sort == /\ pc = "start" /\ flag.enabled /\ DOMAIN flag.rules # {}
        /\ pc' = "rules" /\ todo' = DOMAIN flag.rules
        /\ UNCHANGED <<arguments, rule, segs, seg, next, resp>>

TryRule == /\ pc = "rules" /\ pc' = "rule"
           /\ \E i \in todo : /\ \A j \in todo \ {i} : Before(flag.rules, i, j)
                              /\ rule' = i /\ todo' = todo \ {i}
                              /\ segs' = flag.rules[i].segs
           /\ seg' = Inline /\ next' = 1
           /\ UNCHANGED <<arguments, resp>>

\* Mutant: the same rule again.
SkipNowhere == /\ pc' = "rules" /\ todo' = todo \cup {rule}
               /\ UNCHANGED <<arguments, rule, segs, seg, next, resp>>

\* continue: the rule does not serve its value, on to the next.
Skip == pc' = "rules" /\ UNCHANGED <<arguments, loops, resp>>

\* The conditions that are gone through.
List == IF seg = Inline THEN flag.rules[rule].conds ELSE flag.segments[seg]

Ahead  == pc = "rule" /\ next \in DOMAIN List
Passed == pc = "rule" /\ next \notin DOMAIN List

Holds == next' = next + 1 /\ UNCHANGED <<arguments, todo, rule, segs, seg, pc, resp>>

\* Mutant: an operator that fails is one that does not hold.
CheckConditionLeniently ==
  Ahead /\ IF EvalCondition(List[next], ctx) # "true" THEN Skip ELSE Holds

CheckCondition ==
  /\ Ahead
  /\ CASE EvalCondition(List[next], ctx) = "error" ->
            Return(Response(flag.default, FALSE, "error"))
       [] EvalCondition(List[next], ctx) = "false" -> Skip
       [] OTHER -> Holds

Enter(g) == /\ segs' = segs \ {g} /\ seg' = g /\ next' = 1
            /\ UNCHANGED <<arguments, todo, rule, pc, resp>>

\* Mutant: a missing segment is passed over.
EnterSegmentIfThere ==
  /\ Passed
  /\ \E g \in segs : /\ \A h \in segs : g <= h
                     /\ IF g \in DOMAIN flag.segments THEN Enter(g)
                        ELSE /\ segs' = segs \ {g}
                             /\ UNCHANGED <<arguments, todo, rule, seg, next, pc, resp>>

\* The segments come in the order of their keys.
EnterSegment ==
  /\ Passed
  /\ \E g \in segs : /\ \A h \in segs : g <= h
                     /\ IF g \in DOMAIN flag.segments THEN Enter(g) ELSE Skip

Matched ==
  LET r == flag.rules[rule] IN
  /\ Passed /\ segs = {}
  /\ IF /\ r.rollout > 0 /\ r.rollout < 100
        /\ ctx.bucket = NoEntity \/ ~InRollout(ctx.bucket, r.rollout)
     THEN Skip
     ELSE Return(Response(r.value, TRUE, "rule_match"))

NoneMatched == pc = "rules" /\ todo = {}
               /\ Return(Response(flag.default, FALSE, "default"))

Next == \/ Disabled \/ NoRules \/ Sort \/ TryRule \/ CheckCondition \/ EnterSegment
        \/ Matched \/ NoneMatched

\* Evaluate is one call: it runs to its end.
Spec == Init /\ [][Next]_vars /\ WF_vars(Next)

-----------------------------------------------------------------------------
(* Properties. *)

\* The loops with their early returns serve what Engine says: the first rule by
\* priority that matches or fails decides.
LoopsComputeEvaluate == pc = "done" => resp = Evaluate(flag, ctx)

\* An evaluation ends, whatever the flag.
Terminates == <>(pc = "done")

Raised(i, percentage) == [flag EXCEPT !.rules[i].rollout = percentage]

\* Raising the percentage of a rule that is being rolled out never takes the
\* flag's rule value away from an entity that has it (RolloutBucket is
\* deterministic, InRollout compares one bucket with the percentage).
RolloutGrows ==
  pc = "done" /\ resp.match =>
    \A i \in DOMAIN flag.rules : flag.rules[i].rollout \in 1 .. 99 =>
      \A p \in {flag.rules[i].rollout + 1, 99, 100} : p > flag.rules[i].rollout =>
        Evaluate(Raised(i, p), ctx).value \in {resp.value, flag.rules[i].value}

\* A rule's value is served only when its inline conditions hold and every
\* segment it names is there and holds: README.md:150 and :155 (fail closed).
ServedMeansMatched ==
  pc = "done" /\ resp.match =>
    \E i \in DOMAIN flag.rules :
      /\ flag.rules[i].value = resp.value
      /\ \A n \in DOMAIN flag.rules[i].conds : flag.rules[i].conds[n] \in ctx.holds
      /\ \A g \in flag.rules[i].segs :
           /\ g \in DOMAIN flag.segments
           /\ \A n \in DOMAIN flag.segments[g] : flag.segments[g][n] \in ctx.holds

\* The conditions of a rule, its segments' included.
Guards(i) == Range(flag.rules[i].conds)
             \cup UNION {Range(flag.segments[g]) :
                         g \in flag.rules[i].segs \cap DOMAIN flag.segments}

\* Has the condition's value the shape its operator asks for?
WellFormed(c) ==
  CASE c.op \in {"in", "not_in"} -> Kind(c.value) \in {"array", "null"}
    [] c.op = "exists"           -> Kind(c.value) = "boolean"
    [] c.op = "regex"            -> Kind(c.value) = "string" /\ c.value[2] \in Patterns
    [] OTHER                     -> c.value # Broken

\* No context a client sends makes an evaluation fail: only a flag that stores
\* a condition value of the wrong shape does (conditions.go:116-260).
OnlyMalformedFails ==
  pc = "done" /\ resp.reason = "error" => \E c \in ConditionsOf(flag) : ~WellFormed(c)

\* A condition on an attribute the context lacks never serves a rule's value,
\* not_equals and not_in included (conditions.go:61: fail closed).
AbsentServesNone ==
  pc = "done" /\ resp.match =>
    \E i \in DOMAIN flag.rules :
      /\ flag.rules[i].value = resp.value
      /\ \A c \in Guards(i) : c.op = "exists" \/ resolveAttribute(input, c.attr) # Missing

\* What the condition would say under another operator.
Under(c, op) == Outcome([c EXCEPT !.op = op], input)

\* Of a number and a number exactly one of lt, equals and gt holds, and gte and
\* lte are their unions; of anything else no ordering operator holds.
OrderOperatorsAgree ==
  pc = "start" => \A c \in ConditionsOf(flag) :
    LET holding == {op \in {"lt", "equals", "gt", "gte", "lte"} : Under(c, op) = "true"} IN
    IF Kind(resolveAttribute(input, c.attr)) = "number" /\ Kind(c.value) = "number"
    THEN holding \in {{"lt", "lte"}, {"equals", "gte", "lte"}, {"gt", "gte"}}
    ELSE holding \subseteq {"equals"}

Zero(v) == toFloat64(v) = {0}

\* Values that are equal have the same text, the numbers 0 and -0 aside: what
\* equals a value starts with it and contains it, whatever kinds the two are
\* (conditions.go:262-286 compares, :79-96 converts).
TextOperatorsAgree ==
  pc = "start" => \A c \in ConditionsOf(flag) :
    /\ Under(c, "equals") = "true" => \/ Under(c, "starts_with") = "true"
                                      \/ Zero(resolveAttribute(input, c.attr)) /\ Zero(c.value)
    /\ Under(c, "starts_with") = "true" => Under(c, "contains") = "true"

\* "If the flag is disabled -> return default value" and "No rule matched ->
\* return default value": README.md:148 and :153, evaluator.go:20 and :23.
UnmatchedServesDefault ==
  pc = "done" /\ resp.reason \in {"disabled", "default"} => resp.value = flag.default
=============================================================================
