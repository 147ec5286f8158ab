------------------------------ MODULE MCEngine ------------------------------
(* Instances of Engine for TLC: small workflows, and the cascade of          *)
(* deactivations as the recursion the code runs.                            *)
EXTENDS Engine, TLC

Edge(a, b, h) == [src |-> a, dst |-> b, handle |-> h]
Plain == {"source"}

(* Routes: a condition, a block with an error port, a join fed by both, and  *)
(* a chain below the branch that may not be taken.                           *)
CONSTANTS s, a, b, c, d, h, j, p, t
RoutesNodes == {s, a, b, c, h, j, t}
RoutesEdges ==
    {Edge(s, a, "source"), Edge(s, b, "source"),
     Edge(a, c, "x"), Edge(a, j, "y"), Edge(a, t, "y"),
     Edge(b, j, "source"), Edge(b, h, "error"), Edge(c, t, "source")}
RoutesOptions == [n \in RoutesNodes |-> IF n = a THEN {"x", "y", "none"} ELSE Plain]

(* Shapes: one of three workflows, chosen by a condition.                    *)
(*   diamond: the branches of a condition meet, and meet an error port;       *)
(*   pauses:  a join fed by two pause blocks, a plain block and a condition,  *)
(*            and a pause below a pause;                                      *)
(*   answers: two Response blocks and a chain race.                           *)
CONSTANTS rt, da, db, dc, dd, dj, dh, dt, pa, pb, pp, pq, pj, pt, ph, ra, rb, rc, rd, rp, rq
ShapesNodes == {s, rt, da, db, dc, dd, dj, dh, dt, pa, pb, pp, pq, pj, pt, ph, ra, rb, rc, rd, rp, rq}
ShapesEdges ==
    {Edge(s, rt, "source"),
     Edge(rt, da, "diamond"), Edge(rt, db, "diamond"),
     Edge(da, dc, "x"), Edge(da, dd, "y"), Edge(dc, dj, "source"), Edge(dd, dj, "source"),
     Edge(dj, dt, "source"), Edge(db, dt, "source"), Edge(db, dh, "error"),
     Edge(rt, pa, "pauses"), Edge(rt, pb, "pauses"), Edge(rt, pp, "pauses"), Edge(rt, pq, "pauses"),
     Edge(pa, pj, "source"), Edge(pb, pj, "x"), Edge(pp, pj, "source"), Edge(pq, pj, "source"),
     Edge(pp, pt, "source"), Edge(pt, ph, "default"),
     Edge(rt, ra, "answers"), Edge(rt, rb, "answers"), Edge(rt, rc, "answers"),
     Edge(ra, rp, "source"), Edge(rb, rq, "source"), Edge(rc, rd, "source"), Edge(rc, rd, "y")}
ShapesOptions ==
    [n \in ShapesNodes |-> CASE n = rt  -> {"diamond", "pauses", "answers"}
                             [] n = da -> {"x", "y"}
                             [] n = pb -> {"x", "none"}
                             [] n = rc -> {"source", "y"}
                             [] OTHER  -> Plain]

(* Stranded: the branch not taken reaches the join through a block.           *)
StrandedNodes == {s, a, b, c, d, j}
StrandedEdges ==
    {Edge(s, a, "source"), Edge(s, b, "source"), Edge(a, c, "x"), Edge(a, d, "y"),
     Edge(b, j, "source"), Edge(c, j, "source")}
StrandedOptions == [n \in StrandedNodes |-> IF n = a THEN {"x", "y"} ELSE Plain]

-----------------------------------------------------------------------------
\* deactivateEdgeAndDescendants: the edges deactivated once e is, from S.
RECURSIVE Deactivate(_, _, _, _), DeactivateAll(_, _, _, _)

HasActiveIncoming(m, S, inc) == \E f \in In(m) : f.src \in inc[m] /\ f \notin S

Deactivate(e, S, inc, act) ==
    IF e \in S THEN S
    ELSE IF HasActiveIncoming(e.dst, S \cup {e}, inc) \/ e.dst \in act THEN S \cup {e}
    ELSE DeactivateAll(Out(e.dst), S \cup {e}, inc, act)

DeactivateAll(E, S, inc, act) ==
    IF E = {} THEN S
    ELSE LET e == CHOOSE f \in E : TRUE
         IN  DeactivateAll(E \ {e}, Deactivate(e, S, inc, act), inc, act)

\* The least closed set by which Engine defines the cascade is what the
\* code's depth-first recursion computes, for every block that may complete.
CascadeIsRecursion ==
    \A n \in running \ Responses : \A r \in Results(n) :
        LET on  == {e \in Out(n) : Activates(e, r)}
            off == Out(n) \ on
            act == activated \cup Targets(on)
        IN  Cascade(deactivated \cup off, incoming, act)
                = DeactivateAll(off, deactivated, incoming, act)
=============================================================================
