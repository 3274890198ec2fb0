CONSTANTS
  p1 = p1
  s1 = s1
  s2 = s2
  Payloads = {p1}
  SelfPayloads = {}
  RichPayloads = {}
  Stored = {p1}
  Sends = {s1, s2}
  MaxAttempts = 1
  TryProp = TRUE
  HasNode = TRUE
  Icons = {}
  UserActs = {"resend", "cancel"}
  MaxCrashes = 0
  Preempt = FALSE
SYMMETRY SendSymmetry
SPECIFICATION Spec
INVARIANT TypeOK
 
CHECK_DEADLOCK FALSE
