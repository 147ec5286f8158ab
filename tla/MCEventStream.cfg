CONSTANTS
    NEvents = 1
    ReserveBatch = 2
    FlushBatch = 2
    MaxPending = 2
    EventLimit = 2
    MaxFaults = 1
    Readers = {r1}
SPECIFICATION Spec
INVARIANTS NoSilentGap NeverStranded NoneForgotten
PROPERTIES EndsReachReaders
CHECK_DEADLOCK FALSE
