SPECIFICATION LifeSpec
CONSTANTS
  Main = main
  Workers = {w1, w2}
  Ctrl = ctrl
  NoOne = NoOne
  MaxSignals = 1
  ClientIds = {1, 2}
  CountMod = 2
  MaxConnects = 3
INVARIANT HandlersComplete
