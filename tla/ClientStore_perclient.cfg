SPECIFICATION Spec
CONSTANTS
  ClientIds = {1, 2, 3}
  CountMod = 4
  MaxConnects = 6
INVARIANT CountIsOfThisClient
CHECK_DEADLOCK FALSE
