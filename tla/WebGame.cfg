SPECIFICATION FairSpec
CONSTANTS
  c1 = c1
  c2 = c2
  Clients <- Pair
  NoClient = NoClient
  SameNick = FALSE
  MaxRequests = 2
  MaxUnread = 1
\* The players may do nothing.
CHECK_DEADLOCK FALSE
INVARIANTS
  GameAgreed
  SomeoneCanMove
  SearchIsReal
PROPERTIES
  MoveResolved
