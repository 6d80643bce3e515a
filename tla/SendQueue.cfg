\* Two messages, two retries, one room lost or page reloaded, and every fault.
SPECIFICATION Spec
CONSTANTS
    MaxMessages = 2
    MaxRetries = 2
    MaxRemovals = 1
    Faults = {"error", "lost"}
INVARIANTS InOrder NeverConflicts PendingIsQueued
PROPERTIES SendingEnds
CHECK_DEADLOCK FALSE
