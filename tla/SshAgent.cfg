CONSTANTS
  s1 = s1
  s2 = s2
  s3 = s3
  Shell <- Three
SPECIFICATION Spec
CHECK_DEADLOCK FALSE
INVARIANTS TypeOK OneAgent FromThisBoot AloneGetsOwn
PROPERTIES Connected
SYMMETRY Symmetric
