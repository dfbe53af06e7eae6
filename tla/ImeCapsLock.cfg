CONSTANTS
  w1 = w1
  w2 = w2
  Window <- Windows
  Refusing <- OneAtMost
SPECIFICATION Spec
INVARIANTS CapsLockIsEnglish
