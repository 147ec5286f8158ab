CONSTANTS
    a = a  b = b  c = c  w = w  x = x
    None = None
    Contexts = {w, x}
    First = {w, x}
    Follow <- Waits
    ResumeAt <- TwoWaits
    Requests = {k1}
    MaxResumes = 3
    MaxTime = 3
    MaxFaults = 0
    Outages = TRUE
SPECIFICATION FairSpec
INVARIANTS WaitIsScheduled
PROPERTIES QueuedRuns WaitsAreDispatched
CHECK_DEADLOCK FALSE
