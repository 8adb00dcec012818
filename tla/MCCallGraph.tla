---------------------------- MODULE MCCallGraph ----------------------------
(***************************************************************************)
(* CallGraph for TLC: tasks are alike, and so are the tools without a part *)
(* of their own.                                                           *)
(***************************************************************************)
EXTENDS CallGraph, TLC

Symmetry == Permutations(Tasks) \cup Permutations(Tools \ (ExecSkip \cup {Fire}))
=============================================================================
