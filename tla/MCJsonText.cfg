SPECIFICATION Spec
CONSTANTS
  Values <- MCValues
  Deliveries <- MCDeliveries
  Settings <- MCSettings
INVARIANTS
  WellFormedRead
  NothingElseRead
  ReadersAgree
  NeverTruncated
  RoundTrip
CHECK_DEADLOCK FALSE
