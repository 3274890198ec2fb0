CONSTANTS
  t1 = t1
  plain = plain
  merged = merged
  None = None
  Clients = {t1}
  Keys = {plain, merged}
  Coalesced = {merged}
  Foreign = {plain}
  Greeting = 1
  MaxChanges = 2
  MaxFaults = 1
SPECIFICATION LiveSpec
INVARIANT TypeOK
INVARIANT FrameOrder
 
PROPERTY EverybodySettles
CHECK_DEADLOCK FALSE
