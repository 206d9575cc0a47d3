CONSTANTS
  doc = doc
  inner = inner
  list = list
  patchObj = patchObj
  x = x
  y = y
  z = z
  a = a
  zero = zero
  one = one
  two = two
  minusFive = minusFive
  huge = huge
  Dash = Dash
  NULL = NULL
  Document = doc
  Locs <- MCLocs
  Scalars <- MCScalars
  Segments <- MCSegments
  Numeral <- MCNumeral
  Paths <- MCPaths
  Values <- MCValues
  Heaps <- MCHeaps
  MaxActions = 2
  IntMax = 9
SPECIFICATION Spec
CHECK_DEADLOCK FALSE
PROPERTY MoveKeepsElements
