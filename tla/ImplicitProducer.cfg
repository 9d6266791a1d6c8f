SPECIFICATION Spec
CONSTANTS
  Consumers = {c1, c2}
  MaxElements = 10
  BlockSize = 2
  InitialIndexSize = 2
  MaxIndices = 2
  PoolBlocks = {b1}
  HeapBlocks = {b2, b3, b4}
  NoBlock = NoBlock
  Uninit = Uninit
SYMMETRY Symmetry
INVARIANT TypeOK
INVARIANT EntryIsFound
INVARIANT ReadsOwnElement
INVARIANT GrowsWhenFull
INVARIANT BlocksAreOwnedOnce
INVARIANT GivenBackEmpty
INVARIANT TeardownIsComplete
CHECK_DEADLOCK FALSE
