------------------------ MODULE MCAgentRegistration -------------------------
(* Model values and symmetry for the runs of AgentRegistration.            *)
EXTENDS AgentRegistration, TLC

Symmetry == Permutations(Requests) \cup Permutations(Tokens) \cup Permutations(Hosts)
=============================================================================
