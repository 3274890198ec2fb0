CONSTANTS
  MaxConnects = 2
  MaxBusy = 2
  MaxStops = 0
  Plans = {{"mesh", "connect"}}
SPECIFICATION Spec
INVARIANT TimeoutIsRetried
CHECK_DEADLOCK FALSE
