---------------------------- MODULE MCAlertRules ----------------------------
(* The instances of AlertRules that are checked.  The safety run takes       *)
(* servers and runs as symmetric; the liveness run cannot.                   *)
EXTENDS AlertRules, TLC

Symmetry == Permutations(Servers) \cup Permutations(Runs)
=============================================================================
