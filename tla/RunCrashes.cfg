\* One Issue Run, every handler, two crashes of the service, two calls of its store that raise.
SPECIFICATION FairSpec
CONSTANTS
    Runs = {r1}
    IssueRuns = {r1}
    Loop = Loop
    MaxCrashes = 2
    MaxFaults = 2
INVARIANTS
    TypeOK
    VerifierExclusive
    VerdictNeedsCleanExit
    AgentSupervised
    InFlightHasThread
PROPERTIES
    AgentLaunchedOnce
    ImplementsLedger
    ClaimedRunSettles
    BackgroundScores
    HandlerAnswers
