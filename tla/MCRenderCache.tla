--------------------------- MODULE MCRenderCache ---------------------------
(* RenderCache for TLC: requests are alike, and so are keys.               *)
EXTENDS RenderCache, TLC

Symmetry == Permutations(Requests) \cup Permutations(Keys)
=============================================================================
