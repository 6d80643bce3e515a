SPECIFICATION OpenedSpec
CONSTANTS
    MaxSeq = 4
    PostedSeq = 3
    MaxChange = 6
    PageLimit = 1
    ChangesLimit = 5
    Faults = {}
    Paging = {"older"}
INVARIANTS NoHole
