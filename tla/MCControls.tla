----------------------------- MODULE MCControls -----------------------------
(* Symmetry of Controls: saves, Controls, files and scopes are alike.      *)
EXTENDS Controls, TLC

MCSymmetry ==
  Permutations(Saves) \cup Permutations(Docs) \cup Permutations(Scopes)
    \cup Permutations(Files)
=============================================================================
