--------------------------- MODULE MCAgentTokens ---------------------------
(* AgentTokens on small instances. *)
EXTENDS AgentTokens, TLC

Symmetry == Permutations(Requests)
=============================================================================
