SPECIFICATION PolledSpec
CONSTANTS
  Consumers = {c1, c2, c3}
  MaxElements = 2
  MaxTickets = 20
INVARIANT PolledTypeOK
INVARIANT ElementForEveryPass
INVARIANT OvercommitWithinTicket
INVARIANT FailuresAreBounded
PROPERTY DispensesIndices
PROPERTY ElementsAreClaimed
