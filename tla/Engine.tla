------------------------------- MODULE Engine -------------------------------
(***************************************************************************)
(* internal/engine: what a flag serves in a context.                       *)
(*                                                                         *)
(* A context is what the engine asks of it: the conditions that hold, the  *)
(* conditions whose operator fails (EvalCondition returns an error), and   *)
(* the entity's rollout bucket for the flag, NoEntity when the context     *)
(* names no entity.                                                        *)
(*                                                                         *)
(* A flag is what GetFlagForEvaluation assembles: type, enabled, default,  *)
(* rules (a function from rule id to value, priority, rollout, conds and   *)
(* segs) and segments (a function from the segment keys found to their     *)
(* conditions).                                                            *)
(***************************************************************************)
EXTENDS Integers, Sequences, FiniteSetsExt

CONSTANTS JSONTrue, JSONFalse   \* the two boolean values the engine itself serves

NoEntity == -1

Contexts(conds) == [holds : SUBSET conds, errors : SUBSET conds, bucket : NoEntity .. 99]

EvalCondition(c, ctx) == IF c \in ctx.errors THEN "error"
                         ELSE IF c \in ctx.holds THEN "true" ELSE "false"

\* The conditions in order, up to the first that does not hold.
EvalAll(conds, ctx) ==
  LET stops == {n \in DOMAIN conds : EvalCondition(conds[n], ctx) # "true"}
  IN  IF stops = {} THEN "true" ELSE EvalCondition(conds[Min(stops)], ctx)

\* Fail closed: a segment that was not found does not match.
EvalSegment(g, segments, ctx) ==
  IF g \in DOMAIN segments THEN EvalAll(segments[g], ctx) ELSE "false"

\* The inline conditions, then the segments in key order, up to the first that
\* does not hold.
EvalRule(rule, segments, ctx) ==
  LET inline == EvalAll(rule.conds, ctx)
      stops  == {g \in rule.segs : EvalSegment(g, segments, ctx) # "true"}
  IN  IF inline # "true" THEN inline
      ELSE IF stops = {} THEN "true" ELSE EvalSegment(Min(stops), segments, ctx)

\* Mutant: the comparison is turned around.
InRolloutAbove(bucket, percentage) ==
  /\ percentage > 0
  /\ percentage >= 100 \/ bucket >= percentage

InRollout(bucket, percentage) ==
  /\ percentage > 0
  /\ percentage >= 100 \/ bucket < percentage

\* Does a rule that matched serve its value to this entity?
Admits(rule, ctx) ==
  rule.rollout \in 1 .. 99 => ctx.bucket # NoEntity /\ InRollout(ctx.bucket, rule.rollout)

\* The order rules are tried in: by priority, then as the store returned them.
Before(rules, i, j) ==
  \/ rules[i].priority < rules[j].priority
  \/ rules[i].priority = rules[j].priority /\ i < j

Response(value, match, reason) == [value |-> value, match |-> match, reason |-> reason]

Evaluate(flag, ctx) ==
  LET outcome(i) == EvalRule(flag.rules[i], flag.segments, ctx)
      decides == {i \in DOMAIN flag.rules :
                    \/ outcome(i) = "error"
                    \/ outcome(i) = "true" /\ Admits(flag.rules[i], ctx)}
      first   == CHOOSE i \in decides :
                    \A j \in decides \ {i} : Before(flag.rules, i, j)
      boolean(v) == IF flag.type = "boolean" THEN v ELSE flag.default
  IN  IF ~flag.enabled THEN Response(boolean(JSONFalse), FALSE, "disabled")
      ELSE IF DOMAIN flag.rules = {} THEN Response(boolean(JSONTrue), FALSE, "default")
      ELSE IF decides = {} THEN Response(flag.default, FALSE, "default")
      ELSE IF outcome(first) = "error" THEN Response(flag.default, FALSE, "error")
      ELSE Response(flag.rules[first].value, TRUE, "rule_match")
=============================================================================
