--------------------------- MODULE MCAgentApproval ---------------------------
(* AgentApproval on small sets of model values. *)
EXTENDS AgentApproval, TLC

CONSTANTS w1, w2, u1, u2, a1, a2, h1, p1, p2, c1

Symmetry == Permutations(Handlers) \cup Permutations(Users) \cup Permutations(Agents)
              \cup Permutations(Codes) \cup Permutations(Capabilities)

(* Every Agent is registered on the one host. *)
OneHost == [a \in Agents |-> h1]
=============================================================================
