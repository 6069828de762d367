\* One verifier, and two threads that put its output up to three times.
SPECIFICATION EvidenceSpec
CONSTANTS
    Threads = {judge, t}
    Judge = judge
    Identities = {i1, i2}
    MaxPuts = 3
CHECK_DEADLOCK FALSE
INVARIANTS
    StoredIsWhole
    PassIsReal
PROPERTIES
    StoredStays
    RunReturns
