SPECIFICATION Spec
CONSTANT Start <- GamesStart
\* A game ends.
CHECK_DEADLOCK FALSE
INVARIANTS
  TypeOK
  OneManPerSquare
  NoPawnOnLastRow
  NeverRolledBack
  MovesObeyRules
  RequestMeansOneMove
  BrowserMovesArePlayed
  ConsoleShowsPosition
  FenReadsBack
  MateIsMate
  RepetitionIsRepetition
PROPERTIES
  MenAccounted
