SPECIFICATION FairSpec
CONSTANTS
  Sessions = {s1, s2}
  Accounts = {alice}
  RoomIds = {r1}
  NoPlayer = NoPlayer
  NoUser = NoUser
  NoRoom = NoRoom
  InitialRating = 1000
  OneSessionPerAccount = FALSE
\* All sessions may be gone for good.
CHECK_DEADLOCK FALSE
PROPERTY
  BrokenIsGivenUp
