---------------------------- MODULE TokenRefresh ----------------------------
(***************************************************************************)
(* RFC 8693 workload token exchange and the rotation of its refresh        *)
(* tokens (server/usecases/token-exchange.ts over                          *)
(* server/adapters/repos/token-exchange.ts), together with the management  *)
(* operations that change what a token rests on: federated credentials     *)
(* are created, patched and deleted, Resource Servers are hidden, disabled *)
(* and soft-deleted, client Applications are locked and disabled.          *)
(*                                                                         *)
(* Every HTTP request is an element of Requests.  Requests interleave at   *)
(* each await: one action is one database statement (or one db.batch,      *)
(* which D1 runs as a transaction) and what a request read earlier stays   *)
(* in ctx until it is used.  A request mints at most one refresh token and *)
(* one access token, so a token is named by the request that mints it and  *)
(* a family by the exchange request that opens it.                         *)
(***************************************************************************)
EXTENDS Naturals, FiniteSets

CONSTANTS
  Requests,      \* token endpoint requests, each handled at most once
  Clients,       \* confidential client Applications
  Credentials,   \* federated credential ids
  Resources,     \* Resource Servers (their URL is the token audience)
  Reliable,      \* requests whose handler is run to its end
  ClientOf,      \* the Application a credential is registered under
  None           \* SQL NULL, and a field a request has not read yet

ASSUME ConstantsAssumption ==
  /\ Reliable \subseteq Requests
  /\ ClientOf \in [Credentials -> Clients]
  /\ None \notin Requests \cup Clients \cup Credentials \cup Resources

VARIABLES
  client,   \* Application row and the caller's ability to authenticate as it
  res,      \* api_resource rows
  cred,     \* federated_credential rows
  rt,       \* token_exchange_refresh_token rows
  at,       \* token_exchange_access_token rows
  pc,       \* the await a request stands at
  ctx,      \* what a request has read
  adm       \* the federated-credential patch a management request has validated

vars == <<client, res, cred, rt, at, pc, ctx, adm>>
tokens == <<rt, at>>
authority == <<client, res, cred>>

(* "locked": the secret was rotated, the grant type removed or the         *)
(* organization disabled, so authentication fails while application.disabled*)
(* is still false.                                                         *)
ClientStates == {"active", "locked", "disabled"}

(* "hidden": enabled, but not visible to the Application's organization.   *)
ResourceStates == {"visible", "hidden", "disabled", "deleted"}

CredentialRow == [state : {"unborn", "row", "gone"}, enabled : BOOLEAN,
                  aud : Resources \cup {None}]

RefreshRow == [family : Requests, parent : Requests \cup {None},
               cred : Credentials, aud : Resources,
               consumed : BOOLEAN, revoked : BOOLEAN, expired : BOOLEAN]

AccessRow == [cred : Credentials, aud : Resources, revoked : BOOLEAN]

NoRow == [family |-> None]   \* the row does not exist

ExchangeSteps == {"x_verify", "x_store", "x_refresh", "x_check", "x_undo"}
RefreshSteps  == {"r_token", "r_cred", "r_audience", "r_scopes", "r_rotate", "r_revoke"}
Finished      == {"issued", "rejected"}
Steps         == {"idle", "x_cred"} \cup ExchangeSteps \cup RefreshSteps \cup Finished

Context == [client : Clients \cup {None}, token : Requests \cup {None},
            family : Requests \cup {None}, cred : Credentials \cup {None},
            aud : Resources \cup {None}]

NoContext == [client |-> None, token |-> None, family |-> None,
              cred |-> None, aud |-> None]

Patch == [cred : Credentials, aud : Resources \cup {None},
          enabled : {"keep", "on", "off"}]
NoPatch == [cred |-> None]

TypeOK ==
  /\ client \in [Clients -> ClientStates]
  /\ res \in [Resources -> ResourceStates]
  /\ cred \in [Credentials -> CredentialRow]
  /\ rt \in [Requests -> RefreshRow \cup {NoRow}]
  /\ at \in [Requests -> AccessRow \cup {NoRow}]
  /\ pc \in [Requests -> Steps]
  /\ ctx \in [Requests -> Context]
  /\ adm \in Patch \cup {NoPatch}

-----------------------------------------------------------------------------
(* What the queries of the repository test.                                *)

ResourceEnabled(a) == res[a] \in {"visible", "hidden"}
Visible(a) == res[a] = "visible"

(* resolvedCredentialQuery: the joins with application and api_resource.   *)
CredentialUsable(c, k) ==
  /\ cred[c].state = "row"
  /\ cred[c].enabled
  /\ ClientOf[c] = k
  /\ client[k] # "disabled"
  /\ ResourceEnabled(cred[c].aud)

IsRefresh(t) == rt[t] # NoRow
IsAccess(t)  == at[t] # NoRow

Family(f) == {t \in Requests : IsRefresh(t) /\ rt[t].family = f}

(* Mutants of parentIsActive: the batch forgets one of its two conditions. *)
ParentNotRevoked(t)  == IsRefresh(t) /\ ~rt[t].revoked
ParentNotConsumed(t) == IsRefresh(t) /\ ~rt[t].consumed

(* parentIsActive in rotateRefreshToken.                                   *)
ParentIsActive(t) == IsRefresh(t) /\ ~rt[t].consumed /\ ~rt[t].revoked

(* The row findRefreshTokenByHash returned belongs to the caller.          *)
OwnToken(r, t) == IsRefresh(t) /\ ClientOf[rt[t].cred] = ctx[r].client

(* Mutant: only the presented row is revoked, not its family.              *)
PresentedRowRevoked(r) ==
  [t \in Requests |-> IF t = ctx[r].token /\ IsRefresh(t)
                         THEN [rt[t] EXCEPT !.revoked = TRUE] ELSE rt[t]]

(* The rows after revokeRefreshTokenFamily of the presented token's family.*)
FamilyRevoked(r) ==
  [t \in Requests |-> IF t \in Family(ctx[r].family)
                         THEN [rt[t] EXCEPT !.revoked = TRUE] ELSE rt[t]]

(* Mutant: prepareRefreshToken called with family and parent swapped.      *)
NewRowSwapped(r) ==
  [family |-> ctx[r].token, parent |-> ctx[r].family, cred |-> ctx[r].cred,
   aud |-> ctx[r].aud, consumed |-> FALSE, revoked |-> FALSE, expired |-> FALSE]

(* The row prepareRefreshToken builds, and the access token beside it.     *)
NewRow(r) ==
  [family |-> ctx[r].family, parent |-> ctx[r].token, cred |-> ctx[r].cred,
   aud |-> ctx[r].aud, consumed |-> FALSE, revoked |-> FALSE, expired |-> FALSE]
NewAccessRow(r) ==
  [cred |-> ctx[r].cred, aud |-> ctx[r].aud, revoked |-> FALSE]

(* Mutant: the child is inserted but the parent is left unconsumed.        *)
ParentKept(r) == [rt EXCEPT ![r] = NewRow(r)]

ParentConsumed(r) == [rt EXCEPT ![ctx[r].token] = [@ EXCEPT !.consumed = TRUE],
                                ![r] = NewRow(r)]

Init ==
  /\ client = [k \in Clients |-> "active"]
  /\ res = [a \in Resources |-> "visible"]
  /\ cred = [c \in Credentials |-> [state |-> "unborn", enabled |-> FALSE, aud |-> None]]
  /\ rt = [r \in Requests |-> NoRow]
  /\ at = [r \in Requests |-> NoRow]
  /\ pc = [r \in Requests |-> "idle"]
  /\ ctx = [r \in Requests |-> NoContext]
  /\ adm = NoPatch

(* A request moves to its next await, keeping what it has read, or it      *)
(* answers: of an answered request only who asked with which token is kept,*)
(* and only if it was issued tokens.                                       *)
Await(r, step, c) ==
  /\ pc' = [pc EXCEPT ![r] = step]
  /\ ctx' = [ctx EXCEPT ![r] = c]
Kept(r, step) ==
  CASE step = "issued"   -> [NoContext EXCEPT !.client = ctx[r].client, !.token = ctx[r].token]
    [] step = "rejected" -> NoContext
    [] OTHER             -> ctx[r]
Goto(r, step) == Await(r, step, Kept(r, step))

-----------------------------------------------------------------------------
(* exchangeToken: a workload presents a subject assertion.                 *)

(* Client authentication.                                                  *)
ExchangeBegin(r, k) ==
  /\ pc[r] = "idle"
  /\ client[k] = "active"
  /\ Await(r, "x_cred", [NoContext EXCEPT !.client = k])
  /\ UNCHANGED <<client, res, cred, rt, at, adm>>

(* resolveCredential, then the audience match, for the credential whose    *)
(* issuer and subject the assertion names.                                 *)
ResolveCredential(r, c) ==
  /\ pc[r] = "x_cred"
  /\ IF CredentialUsable(c, ctx[r].client)
       THEN Await(r, "x_verify", [NoContext EXCEPT !.client = ctx[r].client, !.family = r,
                                                 !.cred = c, !.aud = cred[c].aud])
       ELSE Goto(r, "rejected")
  /\ UNCHANGED <<client, res, cred, rt, at, adm>>

(* requireEligibleAudience and resolveApplicationTokenScopes.  The subject *)
(* assertion is verified after it, which may fetch a JWKS.                 *)
ExchangeVerify(r) ==
  /\ pc[r] = "x_verify"
  /\ Goto(r, IF Visible(ctx[r].aud) THEN "x_store" ELSE "rejected")
  /\ UNCHANGED <<client, res, cred, rt, at, adm>>

(* storeAccessToken, a plain INSERT; the foreign key refuses it when the   *)
(* credential has been deleted.  Without offline_access the request ends.  *)
StoreAccessToken(r) ==
  /\ pc[r] = "x_store"
  /\ IF cred[ctx[r].cred].state = "row"
       THEN /\ at' = [at EXCEPT ![r] = NewAccessRow(r)]
            /\ \E next \in {"x_refresh", "issued"} : Goto(r, next)
       ELSE /\ Goto(r, "rejected")
            /\ UNCHANGED at
  /\ UNCHANGED <<client, res, cred, rt, adm>>

(* storeRefreshToken, first statement: INSERT the root of a new family.    *)
InsertRootToken(r) ==
  /\ pc[r] = "x_refresh"
  /\ IF cred[ctx[r].cred].state = "row"
       THEN /\ rt' = [rt EXCEPT ![r] = NewRow(r)]
            /\ Goto(r, "x_check")
       ELSE /\ Goto(r, "rejected")
            /\ UNCHANGED rt
  /\ UNCHANGED <<client, res, cred, at, adm>>

(* storeRefreshToken, second statement: is any row of the family revoked?  *)
CheckFamily(r) ==
  /\ pc[r] = "x_check"
  /\ Goto(r, IF \E t \in Family(r) : rt[t].revoked THEN "x_undo" ELSE "issued")
  /\ UNCHANGED <<client, res, cred, rt, at, adm>>

(* storeRefreshToken, third statement: revoke the row just inserted.       *)
UndoRootToken(r) ==
  /\ pc[r] = "x_undo"
  /\ rt' = [rt EXCEPT ![r] = IF IsRefresh(r) THEN [@ EXCEPT !.revoked = TRUE] ELSE @]
  /\ Goto(r, "rejected")
  /\ UNCHANGED <<client, res, cred, at, adm>>

-----------------------------------------------------------------------------
(* refreshToken: a client presents a refresh token.                        *)

(* Client authentication.  Only a token some request was issued can be     *)
(* presented, by any number of requests and by any client that holds it.   *)
RefreshBegin(r, k, t) ==
  /\ pc[r] = "idle"
  /\ client[k] = "active"
  /\ pc[t] = "issued"
  /\ Await(r, "r_token", [NoContext EXCEPT !.client = k, !.token = t])
  /\ UNCHANGED <<client, res, cred, rt, at, adm>>

(* findRefreshTokenByHash and the tests on the row it returned.            *)
ReadToken(r) ==
  LET t == ctx[r].token IN
  /\ pc[r] = "r_token"
  /\ IF ~OwnToken(r, t)
       THEN Goto(r, "rejected")
       ELSE IF ~rt[t].consumed /\ (rt[t].revoked \/ rt[t].expired)
       THEN Goto(r, "rejected")
       ELSE Await(r, IF rt[t].consumed THEN "r_revoke" ELSE "r_cred",
                  [ctx[r] EXCEPT !.family = rt[t].family, !.cred = rt[t].cred,
                                 !.aud = rt[t].aud])
  /\ UNCHANGED <<client, res, cred, rt, at, adm>>

(* findFederatedCredentialForClient; a credential re-pointed at another    *)
(* audience since the token was minted revokes the family.                 *)
ReadCredential(r) ==
  LET c == ctx[r].cred IN
  /\ pc[r] = "r_cred"
  /\ Goto(r, CASE ~CredentialUsable(c, ctx[r].client) -> "rejected"
               [] CredentialUsable(c, ctx[r].client) /\ cred[c].aud # ctx[r].aud -> "r_revoke"
               [] OTHER -> "r_audience")
  /\ UNCHANGED <<client, res, cred, rt, at, adm>>

(* isEligibleAudience: an audience no longer visible revokes the family.   *)
ReadAudience(r) ==
  /\ pc[r] = "r_audience"
  /\ Goto(r, IF Visible(ctx[r].aud) THEN "r_scopes" ELSE "r_revoke")
  /\ UNCHANGED <<client, res, cred, rt, at, adm>>

(* resolveApplicationTokenScopes reads the resource again and only rejects.*)
ResolveScopes(r) ==
  /\ pc[r] = "r_scopes"
  /\ Goto(r, IF Visible(ctx[r].aud) THEN "r_rotate" ELSE "rejected")
  /\ UNCHANGED <<client, res, cred, rt, at, adm>>

(* rotateRefreshToken: one batch inserts the child while the parent is     *)
(* still active, consumes the parent and stores the access token; when the *)
(* parent was no longer active nothing is written.                         *)
Rotate(r) ==
  /\ pc[r] = "r_rotate"
  /\ IF ParentIsActive(ctx[r].token)
       THEN /\ rt' = ParentConsumed(r)
            /\ at' = [at EXCEPT ![r] = NewAccessRow(r)]
            /\ Goto(r, "issued")
       ELSE /\ Goto(r, "r_revoke")
            /\ UNCHANGED tokens
  /\ UNCHANGED <<client, res, cred, adm>>

(* revokeRefreshTokenFamily, then invalid_grant.                           *)
RevokeFamily(r) ==
  /\ pc[r] = "r_revoke"
  /\ rt' = FamilyRevoked(r)
  /\ Goto(r, "rejected")
  /\ UNCHANGED <<client, res, cred, at, adm>>

-----------------------------------------------------------------------------
(* A refresh token expires after 30 days; the expiry of a consumed or       *)
(* revoked row is never consulted.                                         *)
ExpireRefresh(t) ==
  /\ IsRefresh(t) /\ ~rt[t].consumed /\ ~rt[t].revoked
  /\ rt' = [rt EXCEPT ![t] = [@ EXCEPT !.expired = TRUE]]
  /\ UNCHANGED <<client, res, cred, at, pc, ctx, adm>>

-----------------------------------------------------------------------------
(* Management of federated credentials.                                    *)

(* createFederatedCredential and updateFederatedCredential validate the    *)
(* request, the audience resource included, before they write.             *)
ValidatePatch(p) ==
  /\ adm = NoPatch
  /\ p \in Patch
  /\ \/ cred[p.cred].state = "unborn" /\ p.aud # None /\ p.enabled = "keep"
     \/ cred[p.cred].state = "row"
  /\ p.aud # None => Visible(p.aud)
  /\ adm' = p
  /\ UNCHANGED <<client, res, cred, rt, at, pc, ctx>>

(* The row after the write: an insert, an update of the patched columns, or*)
(* nothing when the row was deleted since.                                 *)
Written(row) ==
  CASE row.state = "unborn" -> [state |-> "row", enabled |-> TRUE, aud |-> adm.aud]
    [] row.state = "row" ->
         [state   |-> "row",
          enabled |-> IF adm.enabled = "keep" THEN row.enabled ELSE adm.enabled = "on",
          aud     |-> IF adm.aud = None THEN row.aud ELSE adm.aud]
    [] OTHER -> row

WriteCredential ==
  /\ adm # NoPatch
  /\ cred' = [cred EXCEPT ![adm.cred] = Written(@)]
  /\ adm' = NoPatch
  /\ UNCHANGED <<client, res, rt, at, pc, ctx>>

(* deleteFederatedCredential; both token tables cascade on the credential. *)
DeleteCredential(c) ==
  /\ cred[c].state = "row"
  /\ cred' = [cred EXCEPT ![c] = [@ EXCEPT !.state = "gone"]]
  /\ rt' = [t \in Requests |-> IF IsRefresh(t) /\ rt[t].cred = c THEN NoRow ELSE rt[t]]
  /\ at' = [t \in Requests |-> IF IsAccess(t) /\ at[t].cred = c THEN NoRow ELSE at[t]]
  /\ UNCHANGED <<client, res, pc, ctx, adm>>

-----------------------------------------------------------------------------
(* Management of Resource Servers and Applications, as far as tokens see it*)

(* updateResource: enabled and visibility change while the row is active.  *)
UpdateResource(a, s) ==
  /\ res[a] # "deleted"
  /\ s \in ResourceStates \ {"deleted", res[a]}
  /\ res' = [res EXCEPT ![a] = s]
  /\ UNCHANGED <<client, cred, rt, at, pc, ctx, adm>>

(* deleteResource: one batch.  Credentials and tokens are found through    *)
(* the audience the credential has now.                                    *)
DeleteResource(a) ==
  LET pointing == {c \in Credentials : cred[c].state = "row" /\ cred[c].aud = a} IN
  /\ res[a] # "deleted"
  /\ res' = [res EXCEPT ![a] = "deleted"]
  /\ cred' = [c \in Credentials |->
                IF c \in pointing THEN [cred[c] EXCEPT !.enabled = FALSE] ELSE cred[c]]
  /\ at' = [t \in Requests |->
              IF IsAccess(t) /\ at[t].cred \in pointing
                THEN [at[t] EXCEPT !.revoked = TRUE] ELSE at[t]]
  /\ rt' = [t \in Requests |->
              IF IsRefresh(t) /\ rt[t].cred \in pointing
                THEN [rt[t] EXCEPT !.revoked = TRUE] ELSE rt[t]]
  /\ UNCHANGED <<client, pc, ctx, adm>>

(* updateApplication, rotateApplicationSecret, organization suspension.    *)
ChangeClient(k, s) ==
  /\ s # client[k]
  /\ client' = [client EXCEPT ![k] = s]
  /\ UNCHANGED <<res, cred, rt, at, pc, ctx, adm>>

-----------------------------------------------------------------------------
HandlerStep(r) ==
  \/ \E c \in Credentials : ResolveCredential(r, c)
  \/ ExchangeVerify(r) \/ StoreAccessToken(r) \/ InsertRootToken(r)
  \/ CheckFamily(r) \/ UndoRootToken(r)
  \/ ReadToken(r) \/ ReadCredential(r) \/ ReadAudience(r) \/ ResolveScopes(r)
  \/ Rotate(r) \/ RevokeFamily(r)

RequestStep(r) ==
  \/ \E k \in Clients : ExchangeBegin(r, k)
  \/ \E k \in Clients, t \in Requests : RefreshBegin(r, k, t)
  \/ HandlerStep(r)

ManagementStep ==
  \/ \E p \in Patch : ValidatePatch(p)
  \/ WriteCredential
  \/ \E c \in Credentials : DeleteCredential(c)
  \/ \E a \in Resources : DeleteResource(a)
  \/ \E a \in Resources, s \in ResourceStates : UpdateResource(a, s)
  \/ \E k \in Clients, s \in ClientStates : ChangeClient(k, s)

Next ==
  \/ \E r \in Requests : RequestStep(r)
  \/ \E t \in Requests : ExpireRefresh(t)
  \/ ManagementStep

Spec == Init /\ [][Next]_vars

(* The runtime runs the handlers of Reliable requests to their response;   *)
(* any other may die at any await and never take another step.  Nobody is  *)
(* obliged to send a request or to manage anything.                        *)
FairSpec == Spec /\ \A r \in Reliable : WF_vars(HandlerStep(r))

-----------------------------------------------------------------------------
(* Properties.                                                             *)

(* A token that still buys a rotation.                                     *)
Live(t) == IsRefresh(t) /\ ~rt[t].consumed /\ ~rt[t].revoked
LiveIn(f) == {t \in Family(f) : Live(t)}

(* Rotation hands over a single capability: however many requests present  *)
(* the tokens of a family, at most one of its rows can still be rotated.   *)
OneLivePerFamily ==
  \A t, u \in Requests :
    Live(t) /\ Live(u) /\ rt[t].family = rt[u].family => t = u

(* Revocation, by reuse detection or by deleteResource, takes the whole    *)
(* family: no row survives it and no rotation in flight adds one.          *)
RevokedFamilyHasNoLiveToken ==
  \A t, u \in Requests :
    IsRefresh(t) /\ rt[t].revoked /\ Live(u) => rt[t].family # rt[u].family

(* A refresh token is one-time: of all the requests that ever present it,  *)
(* one at most is answered with tokens.                                    *)
OneWinnerPerToken ==
  \A r, s \in Requests :
    /\ pc[r] = "issued" /\ pc[s] = "issued"
    /\ ctx[r].token # None /\ ctx[r].token = ctx[s].token
    => r = s

(* A family without a live row never has one again: neither a rotation     *)
(* that read its parent before the revocation nor a re-enabled credential  *)
(* brings it back.                                                         *)
DeadFamilyStaysDead ==
  [][\A f \in Requests : Family(f) # {} /\ LiveIn(f) = {} => LiveIn(f)' = {}]_vars

(* Detected reuse silences the family although rotations race with the     *)
(* revocation, unless the revoking invocation dies first.                  *)
ReuseEventuallySilencesFamily ==
  \A r \in Reliable, f \in Requests :
    (pc[r] = "r_revoke" /\ ctx[r].family = f) ~> LiveIn(f) = {}

(* The rows implement the abstract family of one-time tokens: every        *)
(* statement of every request is a step of TokenFamily or changes nothing. *)
Unopened == {"idle", "x_cred", "x_verify", "x_store", "x_refresh"}
Spent    == {"x_check", "x_undo"} \cup Finished
Abstract == INSTANCE TokenFamily WITH
  Families <- Requests, Tokens <- {{r} : r \in Requests},
  Closed <- {None}, Dead <- {},
  holder <- [f \in Requests |-> IF pc[f] \in Unopened THEN {None} ELSE LiveIn(f)],
  minted <- {{r} : r \in {q \in Requests : pc[q] \in Spent}}
ImplementsTokenFamily == Abstract!Spec

(* specs/management-api.feature:201: "concurrent requests cannot create    *)
(* new active authorization for the deleted resource".                     *)
NoTokenForDeletedResource ==
  \A t \in Requests :
    IsAccess(t) /\ ~at[t].revoked => res[at[t].aud] # "deleted"
=============================================================================
