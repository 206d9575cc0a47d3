SPECIFICATION Spec
CONSTANTS
  Instances <- MCInstances
  KeywordsFor <- MCKeywordsFor
  MaxKeywords = 3
INVARIANTS
  AsSpecified
  EvaluatedAsSpecified
  NeverRejectsAccepted
  EarlyExitsHarmless
CHECK_DEADLOCK FALSE
