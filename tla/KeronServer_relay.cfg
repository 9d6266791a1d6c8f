SPECIFICATION Spec
CONSTANTS
  Slots = {s1}
  Workers = {w1, w2}
  NoPeer = NoPeer
  Kinds = {"malformed", "Chat", "ClockSync"}
  ClientIds = {1}
  CountMod = 1
  MaxSessions = 2
  MaxMsgs = 3
SYMMETRY Symmetry
PROPERTY RelaysChats
INVARIANT TypeOK
INVARIANT OneOwner
INVARIANT ReplyStaysInGeneration
INVARIANT ChatsInOrder
INVARIANT StayingAskerIsAnswered
CHECK_DEADLOCK FALSE
