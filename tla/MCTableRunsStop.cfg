CONSTANTS
    NRows = 1
    NGroups = 2
    NRuns = 1
    MaxAsks = 2
    AutoRun = {1, 2}
    Deps <- Chain
    Kinds <- WholeTable
    Stops <- StopTable
    Outcomes <- AnyOutcome
    Window = 1
    MaxFaults = 0
SPECIFICATION Spec
PROPERTIES StopAllHolds
CHECK_DEADLOCK FALSE
