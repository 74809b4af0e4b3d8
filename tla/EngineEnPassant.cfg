SPECIFICATION Spec
CONSTANT Start <- PassedStart
\* A game ends.
CHECK_DEADLOCK FALSE
INVARIANTS
  EnPassantOffered
