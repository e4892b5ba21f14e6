--------------------------- MODULE MCTokenRefresh ---------------------------
(* TokenRefresh on small sets of model values. *)
EXTENDS TokenRefresh, TLC

CONSTANTS r1, r2, r3, r4, k1, k2, c1, a1, a2

(* Requests are interchangeable: nothing but their state tells them apart. *)
RequestSymmetry == Permutations(Requests)

OneCredential == (c1 :> k1)

(* Nobody manages anything: requests race with each other and with expiry, *)
(* from a state with an enabled credential.  Used where four requests are  *)
(* needed, two rotations and the replays that race with them.              *)
QuietInit ==
  /\ client = [k \in Clients |-> "active"]
  /\ res = [a \in Resources |-> "visible"]
  /\ cred = [c \in Credentials |-> [state |-> "row", enabled |-> TRUE, aud |-> a1]]
  /\ rt = [r \in Requests |-> NoRow]
  /\ at = [r \in Requests |-> NoRow]
  /\ pc = [r \in Requests |-> "idle"]
  /\ ctx = [r \in Requests |-> NoContext]
  /\ adm = NoPatch
QuietNext ==
  \/ \E r \in Requests : RequestStep(r)
  \/ \E t \in Requests : ExpireRefresh(t)
QuietSpec == QuietInit /\ [][QuietNext]_vars
QuietFairSpec == QuietSpec /\ \A r \in Reliable : WF_vars(HandlerStep(r))
=============================================================================
