SPECIFICATION Spec
CONSTANTS
  Slots = {s1}
  Workers = {w1}
  NoPeer = NoPeer
  Kinds = {"ClockSync"}
  ClientIds = {1}
  CountMod = 2
  MaxSessions = 2
  MaxMsgs = 1
INVARIANT ReplyReachesAsker
CHECK_DEADLOCK FALSE
