CONSTANTS
  Modulus = 2
SPECIFICATION FairSpec
INVARIANTS FreshReport
PROPERTIES WholePair KeepsReporting
