CONSTANTS
    Events = {e1, e2}
    Handled = {e1}
    Workers = {w1, w2}
    None = None
    MaxAttempts = 2
    HandlerTimeout = 1
    StuckThreshold = 2
    ClaimDelay = 1
    Backoff <- MCBackoff
    MaxTime = 4
    MaxFaults = 1
SYMMETRY WorkerSymmetry
SPECIFICATION Spec
INVARIANTS LeasesDiffer CopyIsFresh CompletedWasDelivered DeadLetterIsExhausted
PROPERTIES TerminalIsFinal Delivers
CHECK_DEADLOCK FALSE
