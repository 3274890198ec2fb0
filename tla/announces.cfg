CONSTANTS
  a = a
  b = b
  c = c
  j1 = j1
  j2 = j2
  Dests = {a, b}
  Readers = {j1, j2}
  Peers = {a, b, c}
  Protected = {c}
  Jobs = {j1, j2}
  MaxPending = 2
  MaxStored = 1
  MaxAnnounces = 3
SPECIFICATION Spec
INVARIANT TypeOK
INVARIANT FreshestKept
INVARIANT TableBounded
PROPERTY TrimSpares
 
SYMMETRY Symmetry
CHECK_DEADLOCK FALSE
