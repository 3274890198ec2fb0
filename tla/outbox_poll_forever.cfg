CONSTANTS
  p1 = p1
  s1 = s1
  Payloads = {p1}
  SelfPayloads = {}
  RichPayloads = {}
  Stored = {}
  Sends = {s1}
  MaxAttempts = 1
  TryProp = TRUE
  HasNode = FALSE
  Icons = {}
  UserActs = {}
  MaxCrashes = 0
  Preempt = TRUE
SPECIFICATION FairSpec
PROPERTY PollingEnds
CHECK_DEADLOCK FALSE
