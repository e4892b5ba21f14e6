---------------------------- MODULE ProofReplay ----------------------------
(***************************************************************************)
(* Single use of DPoP proofs (consumeProof of server/usecases/dpop.ts over *)
(* consumeJti of server/adapters/repos/agent-tokens.ts): a proof is        *)
(* accepted within Window of the time it was issued at, and its identifier *)
(* is kept until then.  The invocations read one clock.                    *)
(***************************************************************************)
EXTENDS Integers

CONSTANTS
  Handlers,  \* invocations in flight, used again for later requests
  Proofs,    \* proofs presented, each with an identifier of its own
  Window,    \* how far a proof may be from the time it was issued at
  MaxTime,   \* the clock's last reading
  None

VARIABLES
  now,          \* the clock
  issuedAt,     \* when a proof says it was issued (iat), None before it is
  jtis,         \* identifiers in the agentDpopJti table
  acceptances,  \* how often a proof was accepted
  pc, ctx       \* where an invocation stands, the proof it holds and createdAt

vars == <<now, issuedAt, jtis, acceptances, pc, ctx>>

Times == 0 .. MaxTime
Context == [proof : Proofs \cup {None}, createdAt : Times]
NoContext == [proof |-> None, createdAt |-> 0]

TypeOK ==
  /\ now \in Times
  /\ issuedAt \in [Proofs -> Times \cup {None}]
  /\ jtis \subseteq Proofs
  /\ acceptances \in [Proofs -> 0 .. 2]
  /\ pc \in [Handlers -> {"idle", "hashed", "batch"}]
  /\ ctx \in [Handlers -> Context]

Init ==
  /\ now = 0
  /\ issuedAt = [p \in Proofs |-> None]
  /\ jtis = {}
  /\ acceptances = [p \in Proofs |-> 0]
  /\ pc = [w \in Handlers |-> "idle"]
  /\ ctx = [w \in Handlers |-> NoContext]

-----------------------------------------------------------------------------
Await(w, step, c) ==
  /\ pc' = [pc EXCEPT ![w] = step]
  /\ ctx' = [ctx EXCEPT ![w] = c]

ExpiresAt(p) == issuedAt[p] + Window

InWindow(p) == now \in issuedAt[p] - Window .. ExpiresAt(p)

(* Mutant: the purge takes the identifiers that expire now.                *)
ExpiresNow(p, createdAt) == ExpiresAt(p) <= createdAt

(* The purge takes the identifiers whose time is over.                     *)
Expired(p, createdAt) == ExpiresAt(p) < createdAt

-----------------------------------------------------------------------------
(* A client signs a proof; its clock may be ahead or behind.               *)
Sign(p, iat) ==
  /\ issuedAt[p] = None
  /\ issuedAt' = [issuedAt EXCEPT ![p] = iat]
  /\ UNCHANGED <<now, jtis, acceptances, pc, ctx>>

(* The window is checked on a first reading of the clock; the identifier   *)
(* is hashed.                                                              *)
Check(w, p) ==
  /\ pc[w] = "idle"
  /\ issuedAt[p] # None /\ InWindow(p)
  /\ Await(w, "hashed", [NoContext EXCEPT !.proof = p])
  /\ UNCHANGED <<now, issuedAt, jtis, acceptances>>

(* A second reading goes with the batch.                                   *)
ReadClock(w) ==
  /\ pc[w] = "hashed"
  /\ Await(w, "batch", [ctx[w] EXCEPT !.createdAt = now])
  /\ UNCHANGED <<now, issuedAt, jtis, acceptances>>

(* The batch purges, then inserts; the primary key refuses a proof whose   *)
(* identifier is still there, and undoes the purge.                        *)
Consume(w) ==
  LET p == ctx[w].proof
      kept == {q \in jtis : ~Expired(q, ctx[w].createdAt)}
  IN
  /\ pc[w] = "batch"
  /\ IF p \in kept
     THEN UNCHANGED <<jtis, acceptances>>
     ELSE /\ acceptances[p] < 2
          /\ jtis' = kept \cup {p}
          /\ acceptances' = [acceptances EXCEPT ![p] = @ + 1]
  /\ Await(w, "idle", NoContext)
  /\ UNCHANGED <<now, issuedAt>>

(* An invocation that is stopped has consumed nothing.                     *)
Abandon(w) ==
  /\ pc[w] # "idle"
  /\ Await(w, "idle", NoContext)
  /\ UNCHANGED <<now, issuedAt, jtis, acceptances>>

Tick ==
  /\ now < MaxTime
  /\ now' = now + 1
  /\ UNCHANGED <<issuedAt, jtis, acceptances, pc, ctx>>

Next ==
  \/ Tick
  \/ \E p \in Proofs, iat \in Times : Sign(p, iat)
  \/ \E w \in Handlers :
       \/ \E p \in Proofs : Check(w, p)
       \/ ReadClock(w) \/ Consume(w) \/ Abandon(w)

Spec == Init /\ [][Next]_vars

-----------------------------------------------------------------------------
(* However its presentations and the purges of other proofs interleave, a  *)
(* proof is not accepted a second time before it has expired.  It can be   *)
(* after: by an invocation that checked the window before the proof        *)
(* expired and whose batch, or another's purge, ran after.                 *)
AgainOnceExpired ==
  \A p \in Proofs :
    acceptances[p] > 0 /\ acceptances'[p] # acceptances[p] => now > ExpiresAt(p)
AcceptedOnceInItsWindow == [][AgainOnceExpired]_vars

-----------------------------------------------------------------------------
(* What keeps it so (see PlatformProofs).                                  *)

(* What an invocation holds, and what was accepted, was signed.            *)
HeldIsSigned ==
  \A w \in Handlers : pc[w] # "idle" => ctx[w].proof \in Proofs /\ issuedAt[ctx[w].proof] # None
AcceptedIsSigned == \A p \in Proofs : acceptances[p] > 0 => issuedAt[p] # None

(* The second reading of the clock is not ahead of it.                     *)
ReadingsArePast == \A w \in Handlers : ctx[w].createdAt <= now

(* The identifier of an accepted proof is purged only when it has expired. *)
ForgottenIsExpired ==
  \A p \in Proofs : acceptances[p] > 0 => p \in jtis \/ now > ExpiresAt(p)

IInv == TypeOK /\ HeldIsSigned /\ AcceptedIsSigned /\ ReadingsArePast /\ ForgottenIsExpired
=============================================================================
