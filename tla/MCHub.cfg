SPECIFICATION Spec
CONSTANTS
    workspace = workspace
    Conns = {c1, c2}
    Topics = {room}
    Home <- OneHome
    MaxEpoch = 3
    MaxEvents = 2
INVARIANTS NoStaleSubscription RefsBalanced DrainedIsOver
PROPERTIES ShutdownEnds
