---------------------------- MODULE MCRunControl ----------------------------
(* RunControl over a handful of interchangeable prompts. *)
EXTENDS RunControl
Symmetry == Permutations(Prompt)
=============================================================================
