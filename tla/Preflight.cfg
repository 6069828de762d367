\* One check against an App Server that may do anything.
SPECIFICATION FairSpec
CONSTANT MaxLines = 2
CHECK_DEADLOCK FALSE
INVARIANTS
    PassedMeansProved
    PassedLeavesNothing
PROPERTY CheckReturns
