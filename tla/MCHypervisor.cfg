SPECIFICATION HvSpec
CONSTANTS
  GuestPrograms <- MCPrograms
  MaxValue = 1
  MaxLine = 1
  MaxRx = 2
  QueueBlocks <- MCQueueBlocks
INVARIANTS
  ContextIsOwn
  TimerKept
CHECK_DEADLOCK FALSE
PROPERTY
  TimerTaken
