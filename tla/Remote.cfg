CONSTANTS
  c1 = c1
  c2 = c2
  c3 = c3
  Client <- Clients
  Known <- Known2
  Text <- Texts
  TooLong <- LongTexts
  MaxLosses = 1
  MaxCopies = 1
  InboxSize = 2
  MaxRestarts = 1
SPECIFICATION FairSpec
CHECK_DEADLOCK FALSE
INVARIANTS NoExtraRuns InSendOrder MissingOnlyIfDown FilesAreReachable
PROPERTIES GetsItsTurn
