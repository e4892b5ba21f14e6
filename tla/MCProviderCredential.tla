------------------------- MODULE MCProviderCredential ------------------------
(* ProviderCredential on small sets of model values. *)
EXTENDS ProviderCredential, TLC

CONSTANTS w1, w2, w3, g1, g2

(* Invocations are interchangeable, and so are grants.                     *)
Symmetry == Permutations(Handlers) \cup Permutations(Grants)
=============================================================================
