\* Two services on one data directory, a generation each or two by one of them.
SPECIFICATION FairSpec
CONSTANTS
    Services = {s1, s2}
    IssuePr = TRUE
    LastVariant = 1
    MaxGenerations = 2
INVARIANTS
    CasesAreOneGeneration
    PassedGateLeavesNothing
PROPERTIES
    StoredCasesStay
    GenerationEnds
