--------------------------- MODULE MCLoginLockout ---------------------------
(* Symmetry for the runs of LoginLockout.                                  *)
EXTENDS LoginLockout, TLC

Symmetry == Permutations(Logins)
=============================================================================
