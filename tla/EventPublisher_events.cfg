CONSTANTS
  MaxTasks = 1
  MaxStarts = 2
  RetryAttempts = 1
  Kinds = {"added", "batch"}
  Faults = {"refuse", "link", "jam", "setup", "crash"}
SPECIFICATION FairSpec
INVARIANTS TypeOK CopiesFitAnswers BatchTellsTheTruth NothingUnrouted
PROPERTIES ImplementsChannel EventsAreSettled
CHECK_DEADLOCK FALSE
