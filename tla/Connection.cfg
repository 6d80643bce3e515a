SPECIFICATION Spec
CONSTANTS
    Calls = {k1, k2, k3}
    Requests = {"subscribe"}
    MaxStarts = 2
    MaxNudges = 1
    MaxLogins = 1
    MaxFailures = 2
    MaxChanges = 2
INVARIANTS OneWay
PROPERTIES Reconnects RequestsEnd RevokedGivesUp ActivityArrives
CHECK_DEADLOCK FALSE
