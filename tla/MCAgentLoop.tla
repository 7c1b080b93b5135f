---------------------------- MODULE MCAgentLoop -----------------------------
(* Model values and symmetry for the run of AgentLoop.                     *)
EXTENDS AgentLoop, TLC

\* The real intervals and limits leave the margin that the proof asks for.
ASSUME MarginAssumption == Margin

Symmetry == Permutations(Heartbeats)
=============================================================================
