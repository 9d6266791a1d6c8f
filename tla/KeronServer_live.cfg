SPECIFICATION FairSpec
CONSTANTS
  Slots = {s1}
  Workers = {w1, w2}
  NoPeer = NoPeer
  Kinds = {"malformed", "FlightCtrl", "Chat"}
  ClientIds = {1}
  CountMod = 2
  MaxSessions = 1
  MaxMsgs = 2
PROPERTY ShutdownCompletes
PROPERTY HostIsServiced
PROPERTY MessagesAreFinished
CHECK_DEADLOCK FALSE
