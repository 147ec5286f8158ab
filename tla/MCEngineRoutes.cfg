CONSTANTS
    s = s  a = a  b = b  c = c  d = d  h = h  j = j  p = p  t = t
    rt = rt  da = da  db = db  dc = dc  dd = dd  dj = dj  dh = dh  dt = dt
    pa = pa  pb = pb  pp = pp  pq = pq  pj = pj  pt = pt  ph = ph
    ra = ra  rb = rb  rc = rc  rd = rd  rp = rp  rq = rq
    None = None
    Start = s
    Nodes <- RoutesNodes
    Edges <- RoutesEdges
    Options <- RoutesOptions
    Responses = {}
    Pauses = {}
    MayFail = {b, c}
    StopAfter = None
    MaySkip = FALSE
    MayCancel = TRUE
SPECIFICATION FairSpec
INVARIANTS RunsOnce OnlyTakenRuns Quiescent CascadeIsRecursion
PROPERTIES Termination CancelIsPrompt
CHECK_DEADLOCK FALSE
