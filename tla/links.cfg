CONSTANTS
  j1 = j1
  j2 = j2
  ka = ka
  kb = kb
  None = None
  Jobs = {j1, j2}
  Keys = {ka, kb}
  MaxCached = 1
  Threshold = 2
SPECIFICATION Spec
INVARIANT TypeOK
INVARIANT TablesAgree
INVARIANT CleanCount
 
INVARIANT ReceiptsExplained
INVARIANT DeadEntryExplained
SYMMETRY Symmetry
CHECK_DEADLOCK FALSE
