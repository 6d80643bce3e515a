SPECIFICATION FairSpec
CONSTANTS
    MaxSeq = 3
    MaxChange = 3
    PageLimit = 1
    ChangesLimit = 1
    Faults = {}
PROPERTIES Converges
INVARIANTS ResyncedWhenQuiet
