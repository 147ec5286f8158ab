CONSTANTS
    a = a  b = b  c = c  w = w  x = x
    None = None
    Contexts = {w, x}
    First = {w}
    Follow <- Snooze
    ResumeAt <- TwoWaits
    Requests = {}
    MaxResumes = 3
    MaxTime = 3
    MaxFaults = 0
    Outages = FALSE
SPECIFICATION Spec
INVARIANTS WaitIsScheduled
CHECK_DEADLOCK FALSE
