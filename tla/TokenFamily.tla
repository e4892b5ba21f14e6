----------------------------- MODULE TokenFamily -----------------------------
(***************************************************************************)
(* What a family of rotating one-time credentials promises, whatever the   *)
(* store behind it does: a family is opened once, has at most one valid    *)
(* token from then on, hands validity over only to a token never seen      *)
(* before, and once dead stays dead.                                       *)
(***************************************************************************)
CONSTANTS Families, Tokens, Closed, Dead

VARIABLES
  holder,   \* the token valid in each family, or Closed, or Dead
  minted    \* tokens that can no longer be introduced

vars == <<holder, minted>>

Init ==
  /\ holder = [f \in Families |-> Closed]
  /\ minted = {}

Open(f, t) ==
  /\ holder[f] = Closed
  /\ t \notin minted
  /\ holder' = [holder EXCEPT ![f] = t]
  /\ minted' = minted \cup {t}

Advance(f, t) ==
  /\ holder[f] \in Tokens
  /\ t \notin minted
  /\ holder' = [holder EXCEPT ![f] = t]
  /\ minted' = minted \cup {t}

(* Families die and tokens are spoilt, in any number at once.              *)
Retire(F, T) ==
  /\ holder' = [f \in Families |-> IF f \in F THEN Dead ELSE holder[f]]
  /\ minted' = minted \cup T

Next ==
  \/ \E f \in Families, t \in Tokens : Open(f, t) \/ Advance(f, t)
  \/ \E F \in SUBSET Families, T \in SUBSET Tokens : Retire(F, T)

Spec == Init /\ [][Next]_vars
=============================================================================
