\* Two code Runs side by side on one event loop.
SPECIFICATION Spec
CONSTANTS
    Runs = {r1, r2}
    IssueRuns = {}
    Loop = Loop
    MaxCrashes = 0
    MaxFaults = 0
SYMMETRY RunSymmetry
INVARIANTS
    VerifierExclusive
    InFlightHasThread
    AgentSupervised
