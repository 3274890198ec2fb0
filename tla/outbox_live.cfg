CONSTANTS
  p1 = p1
  s1 = s1
  Payloads = {p1}
  SelfPayloads = {}
  RichPayloads = {}
  Stored = {}
  Sends = {s1}
  MaxAttempts = 1
  TryProp = TRUE
  HasNode = TRUE
  Icons = {}
  UserActs = {"cancel", "delete", "propagated"}
  MaxCrashes = 1
  Preempt = FALSE
SPECIFICATION FairSpec
 
PROPERTY PollingEnds
 
CHECK_DEADLOCK FALSE
