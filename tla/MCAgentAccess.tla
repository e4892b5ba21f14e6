--------------------------- MODULE MCAgentAccess ---------------------------
(* AgentAccess on small sets of model values. *)
EXTENDS AgentAccess, TLC

CONSTANTS w1, w2, r1, r2, s1, s2, l1, l2

Symmetry == Permutations(Handlers) \cup Permutations(Requests)
              \cup Permutations(Scopes) \cup Permutations(Leases)
============================================================================
