CONSTANTS
  m1 = m1
  Msgs = {m1}
  MaxLines = 2
  MaxTries = 2
  Budgets <- MCBudgets
  MaxConnects = 2
  MaxBusy = 2
  MaxStops = 1
  Plans = {{"mesh", "fails", "connect", "disconnect"}, {"local", "fails", "connect", "auto", "announce"}}
SPECIFICATION MCSpec
INVARIANT MCTypeOK
 
 
INVARIANT OrphanExplained
INVARIANT StatusTrue
INVARIANT RoomAgrees
 
PROPERTY SessionEnds
PROPERTY SentIsKept
CHECK_DEADLOCK FALSE
