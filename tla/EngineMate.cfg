SPECIFICATION Spec
CONSTANT Start <- BackRowStart
\* A game ends.
CHECK_DEADLOCK FALSE
INVARIANTS
  MateEndsGame
