---------------------------- MODULE MCMembership ----------------------------
(* The instances of Membership that are checked.                             *)
EXTENDS Membership, TLC

Symmetry == Permutations(Requests)
=============================================================================
