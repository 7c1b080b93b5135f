----------------------------- MODULE MCAnalyses -----------------------------
(* Model values and symmetry for the runs of Analyses.                     *)
EXTENDS Analyses, TLC

Symmetry == Permutations(Requests)
=============================================================================
