------------------------- MODULE ProviderCredential -------------------------
(***************************************************************************)
(* The credential Realmroot keeps for one external account connection      *)
(* (server/usecases/external-resources.ts over                             *)
(* server/adapters/repos/external-resources.ts): the callback that stores  *)
(* it, its refresh under a claim that lapses, disconnection, the           *)
(* revocation that follows a change of the Connector and the deletion of   *)
(* the Resource Server (server/adapters/repos/authorization.ts), against a *)
(* provider that rotates refresh tokens as it likes and whose answers may  *)
(* be lost.                                                                *)
(*                                                                         *)
(* A connection has one credential row and connections share none, so one  *)
(* is enough.  A grant is what the User authorizes at the provider; its    *)
(* refresh tokens are numbered in the order they replace each other.       *)
(***************************************************************************)
EXTENDS Naturals

CONSTANTS
  Handlers,      \* invocations in flight, used again for later requests
  Grants,        \* authorizations at the provider, one connection intent each
  MaxRotations,  \* refresh tokens a grant issues after its first
  MaxVersion,    \* no refresh is claimed once the row has this version
  Overrun,       \* a claim may lapse while its holder is still running
  None

ASSUME ConstantsAssumption ==
  /\ MaxRotations \in Nat /\ MaxVersion \in Nat /\ Overrun \in BOOLEAN
  /\ None \notin Handlers \cup Grants

VARIABLES
  intent,    \* resource_connection_intent rows
  provider,  \* the provider's grants: which refresh token it accepts
  auth,      \* provider_resource_authorization.status
  cred,      \* the provider_credential row
  deleted,   \* the Resource Server has been deleted
  pc, ctx    \* where an invocation stands and what it has read

vars == <<intent, provider, auth, cred, deleted, pc, ctx>>

Token == [grant : Grants, n : 0 .. MaxRotations]
Grant == [live : BOOLEAN, current : 0 .. MaxRotations]

(* "lapsed": refreshClaimExpiresAt has passed.                             *)
Credential == [status : {"active", "revoked"}, version : Nat, token : Token,
               claim : Handlers \cup {None}, lapsed : BOOLEAN]
NoRow == [status |-> "none"]

Steps == {"idle", "c_exchange", "c_read", "c_insert", "c_check", "c_upsert",
          "r_claim", "r_post", "r_complete", "r_release", "r_revoke", "r_authorization",
          "d_post", "d_read", "d_batch", "k_batch", "x_batch"}
Context == [grant : Grants \cup {None}, version : Nat, spent : Token \cup {None},
            next : Token \cup {None}]
NoContext == [grant |-> None, version |-> 0, spent |-> None, next |-> None]

TypeOK ==
  /\ intent \in [Grants -> {"pending", "completed", "cancelled"}]
  /\ provider \in [Grants -> Grant]
  /\ auth \in {"none", "active", "revoked"}
  /\ cred \in Credential \cup {NoRow}
  /\ deleted \in BOOLEAN
  /\ pc \in [Handlers -> Steps]
  /\ ctx \in [Handlers -> Context]

Init ==
  /\ intent = [g \in Grants |-> "pending"]
  /\ provider = [g \in Grants |-> [live |-> FALSE, current |-> 0]]
  /\ auth = "none"
  /\ cred = NoRow
  /\ deleted = FALSE
  /\ pc = [w \in Handlers |-> "idle"]
  /\ ctx = [w \in Handlers |-> NoContext]

-----------------------------------------------------------------------------
Active == cred.status = "active"
Accepts(t) == provider[t.grant].live /\ provider[t.grant].current = t.n

Claimable(w) ==
  /\ Active
  /\ cred.version = ctx[w].version
  /\ cred.claim = None \/ cred.lapsed

(* Mutants: an update that trusts version and claim; one that trusts the   *)
(* status alone.                                                           *)
VersionAndClaim(w) == cred # NoRow /\ cred.version = ctx[w].version /\ cred.claim = w
StillActive(w) == Active

(* The WHERE of completeProviderCredentialRefresh and of the release.      *)
Claimed(w) == Active /\ cred.version = ctx[w].version /\ cred.claim = w

(* Mutant: the intent is read, and marked by a statement of its own.       *)
Unread(g) == TRUE

(* consumeConnectionIntent.                                                *)
Consumable(g) == intent[g] = "pending"

(* Mutant: the authorization is revoked with the credential it was         *)
(* revoked for, whatever has been stored since.                            *)
Unguarded == TRUE

(* The NOT EXISTS of revokeProviderCredential's second statement.          *)
NothingActive == ~Active

Await(w, step, c) ==
  /\ pc' = [pc EXCEPT ![w] = step]
  /\ ctx' = [ctx EXCEPT ![w] = c]
Goto(w, step) == Await(w, step, ctx[w])
Answer(w) == Await(w, "idle", NoContext)

(* Mutant: the row takes the status of the intent that led to it.         *)
AsIntended(w, version) ==
  [status |-> "completed", version |-> version, token |-> [grant |-> ctx[w].grant, n |-> 0],
   claim |-> None, lapsed |-> FALSE]

(* The row a callback writes.                                              *)
Connected(w, version) ==
  [status |-> "active", version |-> version, token |-> [grant |-> ctx[w].grant, n |-> 0],
   claim |-> None, lapsed |-> FALSE]

-----------------------------------------------------------------------------
(* completeResourceConnectionIntent: the state is consumed, the code       *)
(* exchanged for the grant's first tokens, the connection looked up, and   *)
(* its credential inserted or replaced.                                    *)
ConsumeIntent(w, g) ==
  /\ pc[w] = "idle" /\ Consumable(g)
  /\ intent' = [intent EXCEPT ![g] = "completed"]
  /\ Await(w, "c_exchange", [NoContext EXCEPT !.grant = g])
  /\ UNCHANGED <<provider, auth, cred, deleted>>

ExchangeCode(w) ==
  /\ pc[w] = "c_exchange"
  /\ provider' = [provider EXCEPT ![ctx[w].grant] = [live |-> TRUE, current |-> 0]]
  /\ Goto(w, "c_read")
  /\ UNCHANGED <<intent, auth, cred, deleted>>

FindConnection(w) ==
  /\ pc[w] = "c_read"
  /\ IF deleted THEN Answer(w)
     ELSE IF auth = "none" THEN Goto(w, "c_insert")
     ELSE Await(w, "c_check", [ctx[w] EXCEPT !.version = cred.version])
  /\ UNCHANGED <<intent, provider, auth, cred, deleted>>

(* One authorization per connection and resource: a second insert fails;   *)
(* it selects a Resource Server that is not deleted.                       *)
CreateAuthorization(w) ==
  /\ pc[w] = "c_insert"
  /\ IF auth = "none" /\ ~deleted
                      THEN /\ auth' = "active"
                           /\ cred' = Connected(w, 1)
                      ELSE UNCHANGED <<auth, cred>>
  /\ Answer(w)
  /\ UNCHANGED <<intent, provider, deleted>>

(* upsertProviderCredential asks for the Resource Server, and writes the   *)
(* two rows by their id.                                                   *)
CheckResource(w) ==
  /\ pc[w] = "c_check"
  /\ IF deleted THEN Answer(w) ELSE Goto(w, "c_upsert")
  /\ UNCHANGED <<intent, provider, auth, cred, deleted>>

UpsertCredential(w) ==
  /\ pc[w] = "c_upsert"
  /\ auth' = "active"
  /\ cred' = Connected(w, ctx[w].version + 1)
  /\ Answer(w)
  /\ UNCHANGED <<intent, provider, deleted>>

-----------------------------------------------------------------------------
(* refreshConnectionToken of a credential read with its connection, whose  *)
(* access token is about to expire.                                        *)
RefreshBegin(w) ==
  /\ pc[w] = "idle" /\ ~deleted /\ auth = "active" /\ Active /\ cred.version < MaxVersion
  /\ Await(w, "r_claim", [NoContext EXCEPT !.version = cred.version, !.spent = cred.token])
  /\ UNCHANGED <<intent, provider, auth, cred, deleted>>

Claim(w) ==
  /\ pc[w] = "r_claim"
  /\ IF Claimable(w) THEN /\ cred' = [cred EXCEPT !.claim = w, !.lapsed = FALSE]
                          /\ Goto(w, "r_post")
                     ELSE Answer(w) /\ UNCHANGED cred
  /\ UNCHANGED <<intent, provider, auth, deleted>>

(* The provider accepts the token and keeps it or rotates it ...           *)
Refreshed(w, n) ==
  LET t == ctx[w].spent IN
  /\ pc[w] = "r_post" /\ Accepts(t) /\ n \in {t.n, t.n + 1} /\ n <= MaxRotations
  /\ provider' = [provider EXCEPT ![t.grant].current = n]
  /\ UNCHANGED <<intent, auth, cred, deleted>>

PostAnswered(w) ==
  \E n \in 0 .. MaxRotations :
    /\ Refreshed(w, n)
    /\ Await(w, "r_complete", [ctx[w] EXCEPT !.next = [grant |-> ctx[w].spent.grant, n |-> n]])

(* ... and its answer may be lost, or refused for what it says.            *)
PostLost(w) == \E n \in 0 .. MaxRotations : Refreshed(w, n) /\ Goto(w, "r_release")

PostFailed(w) ==
  /\ pc[w] = "r_post"
  /\ Goto(w, "r_release")
  /\ UNCHANGED <<intent, provider, auth, cred, deleted>>

(* invalid_grant; a provider may also end a grant whose token is reused.   *)
PostRefused(w) ==
  LET g == ctx[w].spent.grant IN
  /\ pc[w] = "r_post" /\ ~Accepts(ctx[w].spent)
  /\ \E live \in {provider[g].live, FALSE} : provider' = [provider EXCEPT ![g].live = live]
  /\ Goto(w, "r_revoke")
  /\ UNCHANGED <<intent, auth, cred, deleted>>

CompleteRefresh(w) ==
  /\ pc[w] = "r_complete"
  /\ IF Claimed(w)
       THEN /\ cred' = [cred EXCEPT !.token = ctx[w].next, !.version = ctx[w].version + 1,
                                    !.claim = None, !.lapsed = FALSE]
            /\ Answer(w)
       ELSE Goto(w, "r_release") /\ UNCHANGED cred
  /\ UNCHANGED <<intent, provider, auth, deleted>>

ReleaseRefresh(w) ==
  /\ pc[w] = "r_release"
  /\ cred' = IF Claimed(w) THEN [cred EXCEPT !.claim = None, !.lapsed = FALSE] ELSE cred
  /\ Answer(w)
  /\ UNCHANGED <<intent, provider, auth, deleted>>

(* revokeProviderCredential, two statements.                               *)
RevokeCredential(w) ==
  /\ pc[w] = "r_revoke"
  /\ IF Active THEN /\ cred' = [cred EXCEPT !.status = "revoked", !.claim = None, !.lapsed = FALSE]
                    /\ Goto(w, "r_authorization")
               ELSE Answer(w) /\ UNCHANGED cred
  /\ UNCHANGED <<intent, provider, auth, deleted>>

RevokeAuthorization(w) ==
  /\ pc[w] = "r_authorization"
  /\ auth' = IF NothingActive THEN "revoked" ELSE auth
  /\ Answer(w)
  /\ UNCHANGED <<intent, provider, cred, deleted>>

-----------------------------------------------------------------------------
(* revokeResourceConnection: the token read with the connection is revoked *)
(* at the provider, which takes the Resource Server's configuration, then  *)
(* the rows.                                                               *)
DisconnectBegin(w) ==
  /\ pc[w] = "idle" /\ auth # "none" /\ (Active => ~deleted)
  /\ IF Active THEN Await(w, "d_post", [NoContext EXCEPT !.spent = cred.token])
               ELSE Await(w, "d_read", NoContext)
  /\ UNCHANGED <<intent, provider, auth, cred, deleted>>

RevokeAtProvider(w) ==
  LET t == ctx[w].spent IN
  /\ pc[w] = "d_post"
  /\ provider' = IF Accepts(t) THEN [provider EXCEPT ![t.grant].live = FALSE] ELSE provider
  /\ Goto(w, "d_read")
  /\ UNCHANGED <<intent, auth, cred, deleted>>

FindActive(w) ==
  /\ pc[w] = "d_read"
  /\ IF auth = "active" THEN Goto(w, "d_batch") ELSE Answer(w)
  /\ UNCHANGED <<intent, provider, auth, cred, deleted>>

DisconnectBatch(w) ==
  /\ pc[w] = "d_batch"
  /\ auth' = "revoked"
  /\ cred' = [cred EXCEPT !.status = "revoked"]
  /\ Answer(w)
  /\ UNCHANGED <<intent, provider, deleted>>

(* revokeResourceAuthorizationsByConnector, when the Connector's resource  *)
(* authorization was replaced.                                             *)
ConnectorBegin(w) ==
  /\ pc[w] = "idle" /\ auth = "active"
  /\ Await(w, "k_batch", NoContext)
  /\ UNCHANGED <<intent, provider, auth, cred, deleted>>

ConnectorBatch(w) ==
  /\ pc[w] = "k_batch"
  /\ auth' = "revoked"
  /\ cred' = [cred EXCEPT !.status = "revoked", !.claim = None, !.lapsed = FALSE]
  /\ Answer(w)
  /\ UNCHANGED <<intent, provider, deleted>>

(* deleteResource: the authorizations of the Resource Server's connections *)
(* and the intents that wait for a callback; the credentials are left.     *)
DeleteBegin(w) ==
  /\ pc[w] = "idle" /\ ~deleted
  /\ Await(w, "x_batch", NoContext)
  /\ UNCHANGED <<intent, provider, auth, cred, deleted>>

DeleteBatch(w) ==
  /\ pc[w] = "x_batch"
  /\ deleted' = TRUE
  /\ auth' = IF auth = "active" THEN "revoked" ELSE auth
  /\ intent' = [g \in Grants |-> IF intent[g] = "pending" THEN "cancelled" ELSE intent[g]]
  /\ Answer(w)
  /\ UNCHANGED <<provider, cred>>

-----------------------------------------------------------------------------
(* Fifteen seconds pass.  A holder has five for the token endpoint, so it  *)
(* is alive then only when reading its answer or the database took longer. *)
ClaimLapses ==
  /\ cred # NoRow
  /\ cred.claim # None /\ ~cred.lapsed
  /\ Overrun \/ pc[cred.claim] \notin {"r_post", "r_complete", "r_release", "r_revoke"}
  /\ cred' = [cred EXCEPT !.lapsed = TRUE]
  /\ UNCHANGED <<intent, provider, auth, deleted, pc, ctx>>

(* An invocation dies, at any await; so do a code exchange and a           *)
(* revocation the provider refuses.                                        *)
Abandon(w) ==
  /\ pc[w] # "idle"
  /\ Answer(w)
  /\ UNCHANGED <<intent, provider, auth, cred, deleted>>

HandlerStep(w) ==
  \/ ExchangeCode(w) \/ FindConnection(w) \/ CreateAuthorization(w)
  \/ CheckResource(w) \/ UpsertCredential(w)
  \/ Claim(w) \/ PostAnswered(w) \/ PostLost(w) \/ PostFailed(w) \/ PostRefused(w)
  \/ CompleteRefresh(w) \/ ReleaseRefresh(w) \/ RevokeCredential(w) \/ RevokeAuthorization(w)
  \/ RevokeAtProvider(w) \/ FindActive(w) \/ DisconnectBatch(w) \/ ConnectorBatch(w)
  \/ DeleteBatch(w)

Next ==
  \/ \E w \in Handlers, g \in Grants : ConsumeIntent(w, g)
  \/ \E w \in Handlers :
       RefreshBegin(w) \/ DisconnectBegin(w) \/ ConnectorBegin(w) \/ DeleteBegin(w)
  \/ \E w \in Handlers : HandlerStep(w) \/ Abandon(w)
  \/ ClaimLapses

Spec == Init /\ [][Next]_vars

-----------------------------------------------------------------------------
(* Properties.                                                             *)

(* Revoking a connection leaves no credential in use, although an          *)
(* invalid_grant revokes the two rows in two statements and a callback may *)
(* store new tokens between them; only the deletion of the Resource Server *)
(* leaves the credential of a connection it revokes.                       *)
RevokedConnectionHasNoCredential == auth = "revoked" /\ Active => deleted

(* A refresh token the provider replaced never overwrites its successor,   *)
(* whatever claims lapsed while their holders were running: a rotation, once*)
(* stored, is not lost.                                                    *)
RotationIsNotLost ==
  [][cred # NoRow /\ cred'.token.grant = cred.token.grant => cred'.token.n >= cred.token.n]_vars

(* An answer that arrives after the credential was revoked is discarded:   *)
(* only a callback writes to it again.                                     *)
RevokedCredentialIsSettled ==
  [][cred.status = "revoked" /\ cred'.status = "revoked" => cred'.token = cred.token]_vars

(* A callback delivered twice is honoured once: no two invocations store   *)
(* tokens of one authorization.                                            *)
CallbackIsHonouredOnce ==
  \A v, w \in Handlers : v # w /\ ctx[v].grant # None => ctx[v].grant # ctx[w].grant

(* specs/agent-identity.feature:578: "only a successful OAuth callback may *)
(* replace the account authorization".                                     *)
OnlyCallbacksReplace ==
  [][\A w \in Handlers : CompleteRefresh(w) => cred'.token.grant = cred.token.grant]_vars
=============================================================================
