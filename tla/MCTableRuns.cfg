CONSTANTS
    NRows = 2
    NGroups = 2
    NRuns = 2
    MaxAsks = 2
    AutoRun = {1, 2}
    Deps <- Chain
    Kinds <- SomeKinds
    Stops <- SomeStops
    Outcomes <- SomeOutcomes
    Window = 1
    MaxFaults = 1
SPECIFICATION Spec
INVARIANTS OneAtATime RunningIsRun StartedOncePerRequest HandedOver
PROPERTIES StopStands ComesToRest
CHECK_DEADLOCK FALSE
