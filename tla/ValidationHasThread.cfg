\* The service against its documentation.
SPECIFICATION Spec
CONSTANTS
    Runs = {r1}
    IssueRuns = {r1}
    Loop = Loop
    MaxCrashes = 1
    MaxFaults = 0
INVARIANT ValidationHasThread
