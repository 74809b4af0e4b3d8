SPECIFICATION Spec
CONSTANTS
  Alice = Alice
  Bob = Bob
  Nicks <- Accounts
  NoWinner = NoWinner
  InitialRating = 1000
  Histories <- FirstStarts
  MaxGames = 3
  MaxCrashes = 2
  MaxFailures = 2
INVARIANTS TypeOK PointsAppearOnlyByCrash LoserCounted SavedIsRated CachedIsStored
  GainMatchesFormula GainZeroSum
