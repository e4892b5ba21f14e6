--------------------------- MODULE MCAgentIdentity ---------------------------
(* AgentIdentity on small sets of model values. *)
EXTENDS AgentIdentity, TLC

CONSTANTS w1, w2, i1, i2, h1, h2, k1, k2

(* Handlers, identities, registrations and keys are told apart by their    *)
(* rows only.                                                              *)
Symmetry == Permutations(Handlers) \cup Permutations(Identities)
              \cup Permutations(Hosts) \cup Permutations(Keys)
=============================================================================
