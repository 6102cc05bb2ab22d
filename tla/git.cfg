SPECIFICATION FairSpec
CONSTANTS
    Files = {f1, f2}
    Matching = {f1}
    Versions = {v1, v2}
    Absent = absent
    Tasks = {t1, t2}
    NoTask = noTask
    Budget <- Disturbed
INVARIANT TypeOK
INVARIANT UnreportedExplained
PROPERTY ReportedFilesExist
PROPERTY ServesRemote
PROPERTY CancelEndsWatch
CHECK_DEADLOCK FALSE
