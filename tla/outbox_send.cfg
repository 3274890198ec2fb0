CONSTANTS
  p1 = p1
  p2 = p2
  s1 = s1
  s2 = s2
  Payloads = {p1, p2}
  SelfPayloads = {p2}
  RichPayloads = {}
  Stored = {p1}
  Sends = {s1, s2}
  MaxAttempts = 2
  TryProp = FALSE
  HasNode = TRUE
  Icons = {"i1"}
  UserActs = {"icon"}
  MaxCrashes = 0
  Preempt = TRUE
SYMMETRY SendSymmetry
SPECIFICATION Spec
INVARIANT DeliveredIsProven
INVARIANT PayloadKept
CHECK_DEADLOCK FALSE
