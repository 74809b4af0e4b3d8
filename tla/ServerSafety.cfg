SPECIFICATION Spec
CONSTANTS
  Sessions = {s1, s2, s3, s4}
  Accounts = {alice, bob, carol}
  RoomIds = {r1, r2}
  NoPlayer = NoPlayer
  NoUser = NoUser
  NoRoom = NoRoom
  InitialRating = 1000
  OneSessionPerAccount = TRUE
SYMMETRY Interchangeable
VIEW LiveState
\* All sessions may be gone for good.
CHECK_DEADLOCK FALSE
INVARIANTS
  TypeOK
  QueueCoherent
  NobodyWaitsBesideAnother
  RoomsSymmetric
  NoGhosts
  SettledOnce
  PlayersInformed
  QueueSizeFresh
  RatingCacheFresh
  RatingPointsConserved
PROPERTIES
  ImplementsLobby
  RatingMovesWithOwnGame
