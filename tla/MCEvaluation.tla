---------------------------- MODULE MCEvaluation ----------------------------
(* Two families: flags of no, one and two rules over three conditions, on     *)
(* segment 1, which exists, and 2, which does not; and flags with one rule    *)
(* of one condition, of every operator and every shape of value.              *)
EXTENDS Evaluation, TLC

MCTexts    == {"", "pro", "prod", "od", "0", "-0", "1", "2", "1e+06", "true", "false", "^p", "["}
MCAmounts  == "0" :> 0 @@ "-0" :> 0 @@ "1" :> 1 @@ "2" :> 2 @@ "1e+06" :> 1000000
MCStarts   == {<<t, t>> : t \in MCTexts} \cup (MCTexts \X {""})
              \cup {<<"prod", "pro">>, <<"1e+06", "1">>}
MCInside   == MCStarts \cup {<<"prod", "od">>, <<"-0", "0">>}
MCPatterns == MCTexts \ {"["}
MCMatching == {<<"pro", "pro">>, <<"prod", "pro">>, <<"pro", "^p">>, <<"prod", "^p">>, <<"1", "1">>}
MCBuckets  == [t \in MCTexts |-> IF t = "1" THEN 0 ELSE 50]

Condition(attr, op, value) == [attr |-> attr, op |-> op, value |-> value]

-----------------------------------------------------------------------------
(* Rules and segments. *)

Plan     == Condition(<<"user", "plan">>, "equals", Text("pro"))
Age      == Condition(<<"age">>, "gt", Number("1"))
BadRegex == Condition(<<"age">>, "regex", Text("["))

Rules(value, priorities) ==
  [value : {value}, priority : priorities, rollout : {0, 50},
   conds : {<<>>, <<Plan>>, <<BadRegex, Plan>>}, segs : {{}, {1}, {1, 2}}]

RuleLists == {<<>>} \cup {<<r>> : r \in Rules("one", {0})}
             \cup {<<q, r>> : q \in Rules("one", {0, 1}), r \in Rules("two", {0})}

Flag(type, enabled, rules, segment) ==
  [type |-> type, enabled |-> enabled, default |-> IF type = "boolean" THEN "true" ELSE "text",
   rules |-> rules, segments |-> (1 :> segment)]

RuleFlags == {Flag("string", TRUE, l, s) : l \in RuleLists, s \in {<<Age>>, <<BadRegex>>}}
             \cup {[Flag("boolean", e, <<>>, <<>>) EXCEPT !.default = v] :
                     e \in BOOLEAN, v \in {"true", "false"}}
             \cup {Flag("string", FALSE, <<>>, <<>>)}

Entity == {<<>>, "user_id" :> Number("1"), "entity_id" :> Text("")}

Ages == {<<>>, "age" :> Number("1"), "age" :> Number("2")}

Users == {<<>>, "user" :> Object("plan" :> Text("pro") @@ "id" :> Number("2"))}

RuleInputs == {Object(e @@ a @@ u) : e \in Entity, a \in Ages, u \in Users}

-----------------------------------------------------------------------------
(* Conditions. *)

Scalars == {Null, Number("0"), Number("-0"), Number("1"), Number("2"), Number("1e+06"),
            Text("pro"), Text("prod"), Text("od"), Text("0"), Text("1"), Text("1e+06"), Text("true"), Boolean(TRUE), Boolean(FALSE)}

Composites == {Array(<<>>), Array(<<Number("1"), Text("pro")>>), Object(<<>>)}

Asked == Scalars \cup Composites \cup {Broken, Text(""), Text("^p"), Text("[")}

OneRule(c) == <<[value |-> "one", priority |-> 0, rollout |-> 0, conds |-> <<c>>, segs |-> {}]>>

ConditionFlags == {Flag("string", TRUE, OneRule(Condition(p, op, v)), <<>>) :
                     p \in {<<"age">>, <<"user", "plan">>}, op \in Operators, v \in Asked}

Given == Scalars \cup Composites

ConditionInputs == {Object("age" :> v) : v \in Given}
                   \cup {Object("user" :> Object("plan" :> v)) : v \in Given}
                   \cup {Object("user" :> Text("pro"))}

MCCases == (RuleFlags \X RuleInputs) \cup (ConditionFlags \X ConditionInputs)
=============================================================================
