CONSTANTS
    a = a  b = b  c = c  w = w  x = x
    None = None
    Contexts = {a, w}
    First = {a, w}
    Follow <- Mixed
    ResumeAt <- OneWait
    Requests = {k1}
    MaxResumes = 2
    MaxTime = 2
    MaxFaults = 0
    Outages = FALSE
SPECIFICATION FairSpec
PROPERTIES StopCancelsWait
CHECK_DEADLOCK FALSE
