CONSTANTS
  c1 = c1
  c2 = c2
  c3 = c3
  Coros = {c1, c2, c3}
  CoroutinesMax = 2
  SweepThreshold = 2
  WebMayStop = TRUE
SYMMETRY CoroSymmetry
SPECIFICATION Spec
INVARIANT TypeOK
INVARIANT InOnePlace
INVARIANT LeakBounded
CHECK_DEADLOCK FALSE
