CONSTANTS
    A = A  B = B  u = u  v = v  f = f  g = g  x = x  y = y
    Clients = {A, B}
    Fields = {f, g}
    Blocks = {x, y}
    BlockOf <- Apart
    Values = {u, v}
    Unset = Unset
    None = None
    Edits <- SomeEdits
    Removals <- SomeRemovals
    MaxOps = 3
    MaxRetries = 1
    MaxFaults = 1
    MaxErrors = 1
    MaxEvents = 3
SYMMETRY ValueSymmetry
SPECIFICATION Spec
INVARIANTS TypeOK NoHang NoStall ConfirmedIsKept SingleWriterAgrees
CHECK_DEADLOCK FALSE
