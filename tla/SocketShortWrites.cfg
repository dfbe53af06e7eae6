CONSTANTS
  o1 = o1
  o2 = o2
  o3 = o3
  o4 = o4
  Object <- Three
  Class <- Classes
  Descriptor <- Descriptors
  Port <- Ports
  Connection <- One
  Call <- ClientAndServer
  QueueLen = 0
  MaxBytes = 3
  ShortWrites = TRUE
SPECIFICATION Spec
CHECK_DEADLOCK FALSE
INVARIANTS WholeBuffer
