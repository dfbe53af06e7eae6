CONSTANT HowMany = 4
SPECIFICATION FairSpec
CHECK_DEADLOCK FALSE
INVARIANTS LostMeansUnanswered StartedInOrder ExitsAfterBoth
PROPERTIES Alternates EndsOrLosesWakeup
