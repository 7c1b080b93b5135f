---------------------------- MODULE MCApiClient -----------------------------
(* Model values and symmetry for the run of ApiClient.                     *)
EXTENDS ApiClient, TLC

Symmetry == Permutations(Tabs) \cup Permutations(Calls) \cup Permutations(Tokens)
=============================================================================
