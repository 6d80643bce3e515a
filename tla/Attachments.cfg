SPECIFICATION FilesSpec
CONSTANTS
    Files = {f1, f2}
    Messages = {m1}
    NoMessage = NoMessage
    Callers = {c1, c2}
    Cleaners = {g1, g2}
    MaxFailed = 1
CHECK_DEADLOCK FALSE
INVARIANTS Downloadable NoEmptyMessage
PROPERTIES OnlyAttachedRemain
