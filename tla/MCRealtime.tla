----------------------------- MODULE MCRealtime -----------------------------
(* Instances of Realtime for TLC.                                            *)
EXTENDS Realtime, TLC

CONSTANTS A, B, f, g, x, y, u, v

\* Two fields, in two blocks.
Apart == (f :> x) @@ (g :> y)
SomeEdits == {<<A, f>>, <<A, g>>, <<B, f>>}
SomeRemovals == {<<B, y>>}
ValueSymmetry == Permutations(Values)
=============================================================================
