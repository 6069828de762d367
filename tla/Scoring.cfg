\* An ISSUE_PR attempt, with two late requests; writes to a tracked, an
\* untracked and an ignored file, two of them to the tracked one.
SPECIFICATION Spec
CONSTANTS
    Calls = {c1, c2}
    IssuePr = TRUE
    MaxVersion = 2
SYMMETRY CallSymmetry
INVARIANTS
    JudgedIsWhatWasFrozen
    PathsAreTheFrozenOnes
    PassIsFullScore
CHECK_DEADLOCK FALSE
