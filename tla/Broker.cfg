SPECIFICATION Spec
CONSTANTS
    Channels = {a, b}
    Holders = {h1, h2}
    NoChannel = NoChannel
    MaxSeq = 4
    MaxMessages = 2
    MaxBreaks = 1
    Replaced = FALSE
CHECK_DEADLOCK FALSE
INVARIANTS RefsExact AckedInForce
PROPERTIES Feeds
