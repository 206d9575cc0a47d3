CONSTANTS
  r = r
  o = o
  l = l
  k = k
  x = x
  y = y
  NULL = NULL
  Graphs <- MCGraphs
  Documents <- MCDocuments
  MaxFrames = 8
  MaxPath = 4
SPECIFICATION FairSpec
INVARIANTS TypeOK RoundTrip LocationIsPosition MarkersPointHome
PROPERTY Terminates
CHECK_DEADLOCK FALSE
