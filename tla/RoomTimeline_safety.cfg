SPECIFICATION Spec
CONSTANTS
    MaxSeq = 3
    MaxChange = 3
    PageLimit = 1
    ChangesLimit = 1
    Faults = {"lost", "failure", "gone"}
INVARIANTS CursorSound NothingInvented CursorInv
PROPERTIES NoOlderVersion
