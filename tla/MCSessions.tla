----------------------------- MODULE MCSessions -----------------------------
(* Model values and symmetry for the runs of Sessions.                     *)
EXTENDS Sessions, TLC

Symmetry ==
  Permutations(Tokens) \cup Permutations(ResetTokens) \cup Permutations(Requests)
=============================================================================
