------------------------------ MODULE Conditions ------------------------------
(***************************************************************************)
(* The operators of internal/engine/conditions.go: what a condition says   *)
(* of a context, over the JSON values both are made of, with Go's          *)
(* conversions between them; and the entity a rollout asks a context for.  *)
(*                                                                         *)
(* A JSON value is a pair of its kind and its content.  A Go result "v,    *)
(* ok" is the set of v, empty when not ok.  Texts are opaque: what they    *)
(* contain, start with and match are relations.  A float64 is the text %g  *)
(* prints of it, which has its sign even at 0: 0 and -0 are two numbers of *)
(* one amount.                                                             *)
(***************************************************************************)
EXTENDS Engine

CONSTANTS
  Texts,      \* the texts of attributes and conditions
  Amounts,    \* Amounts[t]: what the number that %g prints as t amounts to
  Inside,     \* <<t, u>>: t contains u
  Starts,     \* <<t, u>>: t starts with u
  Patterns,   \* the texts that compile as a regular expression
  Matching,   \* <<t, u>>: t matches the pattern u
  Buckets     \* Buckets[t]: the rollout bucket of entity t for the flag

ASSUME ConditionsAssumption ==
  /\ \A t \in DOMAIN Amounts : t \in Texts /\ Amounts[t] \in Int
  /\ \A t, u \in DOMAIN Amounts : Amounts[t] = Amounts[u] => t = u \/ Amounts[t] = 0
  /\ {"true", "false", ""} \subseteq Texts
  /\ \A t \in Texts : <<t, t>> \in Starts
  /\ Starts \subseteq Inside /\ Inside \subseteq Texts \X Texts
  /\ Patterns \subseteq Texts /\ Matching \subseteq Texts \X Patterns
  /\ Buckets \in [Texts -> 0 .. 99]

Number(t)  == <<"number", t>>
Text(t)    == <<"string", t>>
Boolean(b) == <<"boolean", b>>
Array(seq) == <<"array", seq>>
Object(fn) == <<"object", fn>>
Null       == <<"null">>

Kind(v) == v[1]

\* A number, text or boolean the constants know of.
Known(v) == /\ Kind(v) = "number"  => v[2] \in DOMAIN Amounts
            /\ Kind(v) = "string"  => v[2] \in Texts
            /\ Kind(v) = "boolean" => v[2] \in BOOLEAN

Missing == <<"missing">>   \* an attribute that is not there
Broken  == <<"broken">>    \* a condition value that was left out: no JSON at all

-----------------------------------------------------------------------------
(* Attributes and conversions. *)

\* Walks down the nested objects; path is the attribute split at its dots.
resolveAttribute(ctx, path) ==
  LET current[n \in 0 .. Len(path)] ==
        IF n = 0 THEN ctx
        ELSE LET m == current[n - 1] IN
             IF Kind(m) = "object" /\ path[n] \in DOMAIN m[2] THEN m[2][path[n]] ELSE Missing
  IN  current[Len(path)]

\* Mutant: booleans have no text.
toStringNoBool(v) == IF Kind(v) \in {"string", "number"} THEN {v[2]} ELSE {}

toString(v) == CASE Kind(v) \in {"string", "number"} -> {v[2]}
                 [] Kind(v) = "boolean"              -> {IF v[2] THEN "true" ELSE "false"}
                 [] OTHER                            -> {}

toFloat64(v) == IF Kind(v) = "number" THEN {Amounts[v[2]]} ELSE {}

\* As numbers if both are, else as texts if both have one, else as booleans.
compareValues(a, b) ==
  IF toFloat64(a) # {} /\ toFloat64(b) # {} THEN toFloat64(a) = toFloat64(b)
  ELSE IF toString(a) # {} /\ toString(b) # {} THEN toString(a) = toString(b)
  ELSE Kind(a) = "boolean" /\ Kind(b) = "boolean" /\ a[2] = b[2]

-----------------------------------------------------------------------------
(* The operators: "true", "false", or "error" when the function fails. *)

Verdict(b) == IF b THEN "true" ELSE "false"

Not(verdict) == CASE verdict = "true" -> "false" [] verdict = "false" -> "true"
                  [] OTHER -> verdict

opEquals(a, cv) == IF cv = Broken THEN "error" ELSE Verdict(compareValues(a, cv))

\* null unmarshals into the empty list.
opIn(a, cv) == CASE Kind(cv) = "array" -> Verdict(\E n \in DOMAIN cv[2] : compareValues(a, cv[2][n]))
                 [] Kind(cv) = "null"  -> "false"
                 [] OTHER              -> "error"

\* Mutant: an attribute without a text is an error.
TextualStrict(a, cv, relation) ==
  IF toString(a) = {} \/ cv = Broken THEN "error"
  ELSE Verdict(\E t \in toString(a), u \in toString(cv) : <<t, u>> \in relation)

\* opContains and opStartsWith: an attribute without a text is looked at first.
Textual(a, cv, relation) ==
  IF toString(a) = {} THEN "false"
  ELSE IF cv = Broken THEN "error"
  ELSE Verdict(\E t \in toString(a), u \in toString(cv) : <<t, u>> \in relation)

\* The two numbers, if both are; the attribute is looked at first here too.
numericCompare(a, cv) == toFloat64(a) \X toFloat64(cv)

Ordering(a, cv, holds) ==
  IF toFloat64(a) # {} /\ cv = Broken THEN "error" ELSE Verdict(holds)

opGT(a, cv) == Ordering(a, cv, \E n \in numericCompare(a, cv) : n[1] > n[2])

\* Mutant: the bound is left out.
opGTEAbove(a, cv) == opGT(a, cv)

opGTE(a, cv) == Ordering(a, cv, \E n \in numericCompare(a, cv) : n[1] >= n[2])

opLT(a, cv) == Ordering(a, cv, \E n \in numericCompare(a, cv) : n[1] < n[2])

opLTE(a, cv) == Ordering(a, cv, \E n \in numericCompare(a, cv) : n[1] <= n[2])

\* An attribute that is null counts as not there.
opExists(a, cv) == IF Kind(cv) = "boolean" THEN Verdict((a # Null) = cv[2]) ELSE "error"

opRegex(a, cv) ==
  IF toString(a) = {} THEN "false"
  ELSE IF Kind(cv) # "string" THEN "error"
  ELSE IF cv[2] \notin Patterns THEN "error"
  ELSE Verdict(\E t \in toString(a) : <<t, cv[2]>> \in Matching)

Operators == {"equals", "not_equals", "in", "not_in", "contains", "starts_with",
              "gt", "gte", "lt", "lte", "exists", "regex"}

\* The table of functions.
conditionFuncs(op, a, cv) ==
  CASE op = "equals"      -> opEquals(a, cv)
    [] op = "not_equals"  -> Not(opEquals(a, cv))
    [] op = "in"          -> opIn(a, cv)
    [] op = "not_in"      -> Not(opIn(a, cv))
    [] op = "contains"    -> Textual(a, cv, Inside)
    [] op = "starts_with" -> Textual(a, cv, Starts)
    [] op = "gt"          -> opGT(a, cv)
    [] op = "gte"         -> opGTE(a, cv)
    [] op = "lt"          -> opLT(a, cv)
    [] op = "lte"         -> opLTE(a, cv)
    [] op = "exists"      -> opExists(a, cv)
    [] op = "regex"       -> opRegex(a, cv)

\* Mutant: an attribute that is not there is null to every operator.
OutcomeOfNull(c, ctx) ==
  LET found == resolveAttribute(ctx, c.attr)
  IN  conditionFuncs(c.op, IF found = Missing THEN Null ELSE found, c.value)

\* EvalCondition of condition c (attr, op and value) in the context ctx.
Outcome(c, ctx) ==
  LET found == resolveAttribute(ctx, c.attr)
  IN  IF found = Missing /\ c.op # "exists" THEN "false"
      ELSE conditionFuncs(c.op, IF found = Missing THEN Null ELSE found, c.value)

-----------------------------------------------------------------------------
(* The entity. *)

EntityPaths == <<<<"entity_id">>, <<"user_id">>, <<"user", "id">>>>

\* The first of the three that has a text, which may be the empty one.
resolveEntityID(ctx) ==
  LET texts(n) == toString(resolveAttribute(ctx, EntityPaths[n]))
      found    == {n \in DOMAIN EntityPaths : texts(n) # {}}
  IN  IF found = {} THEN {} ELSE texts(Min(found))

RolloutBucket(ctx) ==
  IF resolveEntityID(ctx) \subseteq {""} THEN NoEntity
  ELSE Buckets[CHOOSE t \in resolveEntityID(ctx) : TRUE]
=============================================================================
