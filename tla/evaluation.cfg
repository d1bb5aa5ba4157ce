SPECIFICATION Spec
CONSTANTS
  JSONTrue = "true"
  JSONFalse = "false"
  Cases <- MCCases
  Texts <- MCTexts
  Amounts <- MCAmounts
  Inside <- MCInside
  Starts <- MCStarts
  Patterns <- MCPatterns
  Matching <- MCMatching
  Buckets <- MCBuckets
CHECK_DEADLOCK FALSE
INVARIANT LoopsComputeEvaluate
INVARIANT RolloutGrows
INVARIANT ServedMeansMatched
INVARIANT OnlyMalformedFails
INVARIANT AbsentServesNone
INVARIANT OrderOperatorsAgree
INVARIANT TextOperatorsAgree
PROPERTY Terminates
