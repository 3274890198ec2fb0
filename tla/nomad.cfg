CONSTANTS
  d1 = d1
  d2 = d2
  ka = ka
  kb = kb
  None = None
  Downloads = {d1, d2}
  Keys = {ka, kb}
  MaxCached = 1
SPECIFICATION Spec
INVARIANT TypeOK
INVARIANT SharedSpared
INVARIANT PrivateLeavesNothing
 
INVARIANT NoneForgotten
PROPERTY OneOutcome
SYMMETRY Symmetry
CHECK_DEADLOCK FALSE
