SPECIFICATION Spec
CONSTANTS
    Services = {s1, s2}
    MaxStarts = 3
INVARIANTS
    RootIsOwned
    HeadIsTheOldest
    NothingIsLeftInterrupted
    TokenIsOnFile
CHECK_DEADLOCK FALSE
