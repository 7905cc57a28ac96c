SPECIFICATION FairSpec
CONSTANTS
  App = app
  Rx = rx
  Hb = hb
  Callbacks = {c1}
  None = none
  Prompt = TRUE
  Wrap = 3
INVARIANTS
  StatsAgree
  CallbackPair
  NothingLeft
  DriverUnused
PROPERTY
  DeinitEnds
