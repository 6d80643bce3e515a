SPECIFICATION OpenedSpec
CONSTANTS
    MaxSeq = 3
    PostedSeq = 3
    MaxChange = 5
    PageLimit = 2
    ChangesLimit = 1
    Faults = {"page"}
    Paging = {"older", "newer", "jump", "unread"}
INVARIANTS LoadingEnds
PROPERTIES OnlyJumpsGoBack
