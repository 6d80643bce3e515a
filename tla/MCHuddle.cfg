SPECIFICATION Spec
CONSTANTS
    u1 = u1
    u2 = u2
    r1 = r1
    r2 = r2
    Users <- TwoUsers
    Rooms <- TwoRooms
    Members <- TwoAndOne
    Callers = {c1, c2}
    NoUser = NoUser
    NoRoom = NoRoom
    Limit = 1
    MaxJoins = 3
    MaxChanges = 1
    MaxFailures = 1
CHECK_DEADLOCK FALSE
INVARIANTS JoinedIsActive OnePlace WithinLimit AccessToJoined
PROPERTIES DesertedEnds
