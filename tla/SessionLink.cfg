SPECIFICATION FairLinkSpec
CONSTANTS
  Line <- Lines
  Bursts <- AllBursts
  MaxCommands = 2
  MaxEvents = 1
INVARIANT OneWriteAtATime
PROPERTIES ImplementsChannel AnswerComes OutboxDrains
CHECK_DEADLOCK FALSE
