SPECIFICATION Spec
CONSTANT Start <- KeysStart
\* A game ends.
CHECK_DEADLOCK FALSE
INVARIANTS
  KeyIdentifiesPosition
