SPECIFICATION Spec
CONSTANT Start <- TowersStart
\* A game ends.
CHECK_DEADLOCK FALSE
PROPERTIES
  NoManFromNowhere
