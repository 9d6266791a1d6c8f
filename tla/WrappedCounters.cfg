CONSTANTS
  Half = 4
  BlockSize = 2
  Consumers = {c1, c2, c3}
  Patience = 3
SYMMETRY Symmetry
VIEW Differences
SPECIFICATION WSpec
INVARIANT TailStaysAhead
INVARIANT ElementForEveryPass
INVARIANT ProbeIsExactAtRest
