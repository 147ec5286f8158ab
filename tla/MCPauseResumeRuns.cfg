CONSTANTS
    a = a  b = b  c = c  w = w  x = x
    None = None
    Contexts = {a, b, c}
    First = {a, b}
    Follow <- Chain
    ResumeAt <- NoWaits
    Requests = {k1}
    MaxResumes = 4
    MaxTime = 1
    MaxFaults = 1
    Outages = FALSE
SPECIFICATION Spec
INVARIANTS OneResume SnapshotHasResumed QueueMatchesPoints CountsAgree ResumedOnce
PROPERTIES CancelIsKept
CHECK_DEADLOCK FALSE
