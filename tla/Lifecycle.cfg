SPECIFICATION LifeSpec
CONSTANTS
  Main = main
  Workers = {w1, w2}
  Ctrl = ctrl
  NoOne = NoOne
  MaxSignals = 2
  ClientIds = {1, 2}
  CountMod = 2
  MaxConnects = 3
INVARIANT LifeTypeOK
INVARIANT OneRecordCountsAll
INVARIANT WorkersFindLogger
PROPERTY SignalEndsServer
