SPECIFICATION Spec
CONSTANTS
    Files = {f1, f2}
    Matching = {f1, f2}
    Versions = {v1, v2}
    Absent = absent
    Tasks = {t1}
    NoTask = noTask
    Budget <- Calm
INVARIANT ChangesReported
CHECK_DEADLOCK FALSE
