SPECIFICATION Spec
CONSTANTS
    Instances = {i1, i2}
    MaxConns = 2
    MaxChanges = 4
    MaxFailures = 2
CHECK_DEADLOCK FALSE
INVARIANTS FieldExact NotOffline ShownFollows
PROPERTIES Settles
