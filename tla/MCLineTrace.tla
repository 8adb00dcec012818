----------------------------- MODULE MCLineTrace -----------------------------
(***************************************************************************)
(* LineTrace for TLC.  Recorders, contexts and lines are interchangeable.  *)
(***************************************************************************)
EXTENDS LineTrace, TLC

Symmetry == Permutations(Recs) \cup Permutations(Contexts) \cup Permutations(Lines)
=============================================================================
