SPECIFICATION ServerSpec
CONSTANTS
    Paths = {f1, f2}
    Publisher = rabbitMq
    Null = null
    Files = {f1, f2}
    Versions = {v1}
    Absent = absent
    Tasks = {t1, t2}
    NoTask = noTask
    Budget <- Events
INVARIANT TypeOK
INVARIANT FailureTerminates
PROPERTY StopWhileStartingEnds
PROPERTY HostStops
PROPERTY KnownProvidersTerminate
PROPERTY ServesWhileWatching
PROPERTY ImplementsHosting
PROPERTY ImplementsGit
CHECK_DEADLOCK FALSE
