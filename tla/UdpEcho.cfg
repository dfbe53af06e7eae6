CONSTANTS
  c1 = c1
  c2 = c2
  c3 = c3
  Client <- Clients
  Port <- Ports
  Text <- Texts
  Given <- Runs
  ECHOMAX = 2
SPECIFICATION FairSpec
CHECK_DEADLOCK FALSE
INVARIANTS OwnEcho EchoTakenOnce
PROPERTIES ClientEnds
