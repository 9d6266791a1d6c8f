SPECIFICATION Spec
CONSTANTS
  Threads = {t1, t2, t3}
  NoThread = NoThread
  HashValues = {7}
  InitialCapacity = 2
  MaxCalls = 3
INVARIANT TypeOK
INVARIANT ProducersAreListed
INVARIANT TablesHaveRoom
INVARIANT CountIsExact
PROPERTY OneProducerPerThread
PROPERTY CallsReturn
