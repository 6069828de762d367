\* One Issue Run prepared, cleaned up any number of times, and two crashes.
SPECIFICATION Spec
CONSTANTS
    Run = Run
    Loop = Loop
    Issue = TRUE
    MaxCrashes = 2
CHECK_DEADLOCK FALSE
INVARIANTS
    ResetErrorConfesses
    CleanupConfesses
PROPERTY ImplementsLifecycle
