CONSTANTS
  t1 = t1
  Threads = {t1}
  MayThrow = TRUE
  MayNest = TRUE
  MaxDepth = 3
  MaxCalls = 3
SPECIFICATION OptionSpec
INVARIANTS TypeOK CountTracksDepth OptionsScoped
PROPERTY ClearedByOutermost CompletedIfUnbroken
CHECK_DEADLOCK FALSE
