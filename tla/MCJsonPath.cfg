CONSTANTS
  None = None
  IntMax = 9
  Documents <- MCDocuments
  Operators <- MCOperators
  MaxItems = 3
  MaxDepth = 3
  Templates <- MCTemplates
  MaxTransforms = 2
INIT TransformInit
NEXT TransformNext
INVARIANT RestoredByReverse
PROPERTY FindsWhatIsMeant
CHECK_DEADLOCK FALSE
