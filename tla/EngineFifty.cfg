SPECIFICATION Spec
CONSTANT Start <- EndlessStart
\* A game ends.
CHECK_DEADLOCK FALSE
INVARIANTS
  FiftyMovesEndGame
