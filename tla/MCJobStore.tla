----------------------------- MODULE MCJobStore -----------------------------
(* What the model-checked instances of JobStore need besides constants.     *)
EXTENDS JobStore, TLC

(* Job IDs, owner IDs and requests are interchangeable.                     *)
Symmetry ==
  Permutations(Jobs) \cup Permutations(Owners) \cup Permutations(Requests)
=============================================================================
