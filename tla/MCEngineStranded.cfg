CONSTANTS
    s = s  a = a  b = b  c = c  d = d  h = h  j = j  p = p  t = t
    rt = rt  da = da  db = db  dc = dc  dd = dd  dj = dj  dh = dh  dt = dt
    pa = pa  pb = pb  pp = pp  pq = pq  pj = pj  pt = pt  ph = ph
    ra = ra  rb = rb  rc = rc  rd = rd  rp = rp  rq = rq
    None = None
    Start = s
    Nodes <- StrandedNodes
    Edges <- StrandedEdges
    Options <- StrandedOptions
    Responses = {}
    Pauses = {}
    MayFail = {}
    StopAfter = None
    MaySkip = FALSE
    MayCancel = FALSE
SPECIFICATION Spec
INVARIANT NoStranded
CHECK_DEADLOCK FALSE
