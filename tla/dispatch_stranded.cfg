CONSTANTS
  c1 = c1
  Coros = {c1}
  CoroutinesMax = 2
  SweepThreshold = 2
  WebMayStop = FALSE
SPECIFICATION FairSpec
PROPERTY NeverStranded
CHECK_DEADLOCK FALSE
