CONSTANTS
  reader = reader
  other = other
  Clients = {reader, other}
  Ids = {1, 2}
  Starts <- McStarts
  Requests <- McRequests
  DefaultLimit = 3
  MaxLimit = 4
  Window = 1
  MaxChanges = 1
  Texts = {"invalid", "other"}
  Faults = {"cache", "cancel", "jam"}
  None = None
SPECIFICATION FairSpec
INVARIANTS TypeOK SentWasTrue NoTokenMeansAll StopWaits
PROPERTIES StopEnds
CHECK_DEADLOCK FALSE
