SPECIFICATION Spec
CONSTANTS
    Tokens = {t1, t2, t3}
    Requests = {r1, r2, r3}
    NoFamily = NoFamily
SYMMETRY Symmetry
INVARIANTS OneOpen AnnouncedIsOver
PROPERTIES NeverRevived
