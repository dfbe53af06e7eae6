CONSTANTS
  o1 = o1
  o2 = o2
  o3 = o3
  o4 = o4
  Object <- Objects
  Class <- Classes
  Descriptor <- Descriptors
  Port <- Ports
  Connection <- One
  Call <- ThreeKinds
  QueueLen = 0
  MaxBytes = 2
  ShortWrites = TRUE
SPECIFICATION FairSpec
CHECK_DEADLOCK FALSE
INVARIANTS OneOwner InOrder
PROPERTIES HearsTheEnd
