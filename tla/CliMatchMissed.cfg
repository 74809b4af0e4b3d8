SPECIFICATION LinkSpec
CONSTANTS
  Line <- Lines
  Bursts <- AllBursts
  MaxCommands = 2
  MaxEvents = 1
INVARIANT StatusShowsGame
CHECK_DEADLOCK FALSE
