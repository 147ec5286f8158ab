CONSTANTS
    s = s  a = a  b = b  c = c  d = d  h = h  j = j  p = p  t = t
    rt = rt  da = da  db = db  dc = dc  dd = dd  dj = dj  dh = dh  dt = dt
    pa = pa  pb = pb  pp = pp  pq = pq  pj = pj  pt = pt  ph = ph
    ra = ra  rb = rb  rc = rc  rd = rd  rp = rp  rq = rq
    None = None
    Start = s
    Nodes <- ShapesNodes
    Edges <- ShapesEdges
    Options <- ShapesOptions
    Responses = {rp, rq}
    Pauses = {pp, pq, pt}
    MayFail = {db, dd, pa, ra}
    StopAfter = rc
    MaySkip = TRUE
    MayCancel = TRUE
SPECIFICATION Spec
INVARIANTS FeedersDone NoStranded
PROPERTIES NoLateFeeder ResponseFinal
CHECK_DEADLOCK FALSE
