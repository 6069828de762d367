\* Three scripts, any of which may be an installation, and two services.
SPECIFICATION Spec
CONSTANTS
    MaxStarts = 2
    MaxCommands = 3
PROPERTIES  FailureIsUndone InstalledIsComplete
CHECK_DEADLOCK FALSE
